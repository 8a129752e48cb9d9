\* Four words: two options with their parameters, or one and what may follow.
\* Tokens of two bytes, of the first and the last character of each range of
\* digits and the ones next to them.
CONSTANTS
  MaxArgs = 4
  size = 2
  Char = {0, 47, 48, 57, 58, 64, 65, 70, 71, 96, 97, 102, 103}
  Garbage = 165
SPECIFICATION Spec
INVARIANTS TypeOK EndsAtFirst LastCounts HostIsFirst TokenRight
