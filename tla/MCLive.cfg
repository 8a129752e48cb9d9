SPECIFICATION FairSpec
CONSTANTS
  Half = 4
  BackGap = 1
  ResetGap = 1
  Byte = {0}
  IdleByte = 0
  InCap = 2
  OutCap = 1
  Chatter = {}
  Jumps <- ClearJumps
  FirstStamped = TRUE
  Timers = {}
  Actions = {"COMMAND"}
  TickRate = 1500
  Delays = {}
PROPERTIES
  HangupEnds
  SigintEnds
  Sync1Answered
  ActionProcessed
