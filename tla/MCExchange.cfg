SPECIFICATION Spec
CONSTANTS
  Half = 4
  BackGap = 1
  ResetGap = 1
  Byte = {0, 1}
  IdleByte = 0
  InCap = 2
  OutCap = 1
  Chatter = {"STATUS"}
  Jumps <- ClearJumps
  FirstStamped = TRUE
  Timers = {}
  Actions = {}
  TickRate = 1500
  Delays = {}
PROPERTIES
  ExchangeSpec
