SPECIFICATION StreamSpec
CONSTANTS
  tlv_magic <- MCMagic
  TLV_HDR_LEN = 5
  TLV_MAX_FRAME = 12
  LEN_AT = 4
  Payloads <- MCPayloads
  MaxFrames = 3
  MaxLoss = 2
  Word = 32
  TLV_TARGET_LIST = 8
  TLV_ENHANCED_PRESENCE = 15
  TARGET_3D_SIZE = 5
  TARGET_2D_SIZE = 2
  RADAR_MAX_TARGETS = 2
  MaxZones = 8
  MaxTlvs = 2
  DONE <- MCDone
  RADAR_PROMPT <- MCPrompt
  CLI_BUF = 6
  CLI_KEEP = 3
  Replies <- MCReplies
CHECK_DEADLOCK FALSE
INVARIANTS StreamTypeOK BufferFits FramesAreFramed ResyncsWithinMaxFrame LosslessIsExact
INVARIANTS WalkStaysInside WalkAdvances HeadcountIsHonest DoneIsHeard RepliesAreHeard
