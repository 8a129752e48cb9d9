SPECIFICATION Spec
CONSTANTS
  Half = 4
  BackGap = 1
  ResetGap = 1
  Byte = {0}
  IdleByte = 0
  InCap = 2
  OutCap = 1
  Chatter = {"STATUS"}
  Jumps <- ClearJumps
  FirstStamped = TRUE
  Timers = {t1}
  Actions = {"COMMAND", "RESET_SERIAL"}
  TickRate = 1500
  Delays = {0, 1, 2}
INVARIANTS
  TypeOK
  ClockAgreement
  ResetPrompt
  OldActionGone
  TimerExact
PROPERTIES
  ResetOnlyOnCut
  CutResets
  ResetWindow
