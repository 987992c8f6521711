------------------------------- MODULE MCNode -------------------------------
EXTENDS Node
MCStarts == {[radar |-> TRUE, aq |-> FALSE], [radar |-> FALSE, aq |-> TRUE]}
=============================================================================
