\* As MCConfig, for the promise that what is stored survives a restart.
CONSTANTS
  ConfigSize = 2
  Byte = {0, 1}
SPECIFICATION Spec
PROPERTY StoredKept
