\* As MCCommandLine, for an empty parameter of --dns_port.
CONSTANTS
  MaxArgs = 2
  size = 1
  Char = {65, 71}
  Garbage = 165
SPECIFICATION Spec
INVARIANT EmptyPortRefused
