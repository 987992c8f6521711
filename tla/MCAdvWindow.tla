---------------------------- MODULE MCAdvWindow ----------------------------
EXTENDS AdvWindow
=============================================================================
