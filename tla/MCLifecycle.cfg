\* Three bytes: a write has bytes before it, after it, and both.  Two
\* addresses: one to fail and one to go on with.
CONSTANTS
  ConfigSize = 3
  Byte = {0, 1}
  MaxAddrs = 2
SPECIFICATION LifeSpec
INVARIANTS LifeTypeOK ConfigKept ReleasedOnce OneSocket
PROPERTIES ReadsBack KillLosesLastOnly
