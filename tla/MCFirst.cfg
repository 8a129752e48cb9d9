SPECIFICATION Spec
CONSTANTS
  Half = 6
  BackGap = 1
  ResetGap = 2
  Byte = {0}
  IdleByte = 0
  InCap = 2
  OutCap = 1
  Chatter = {"JOYPAD", "STATUS"}
  Jumps <- ClearJumps
  FirstStamped = FALSE
  Timers = {}
  Actions = {"COMMAND"}
  TickRate = 1500
  Delays = {0, 1, 2}
PROPERTIES
  ResetOnlyOnCut
