SPECIFICATION Spec
SYMMETRY Symmetry
CONSTANTS
  Conns = {c1, c2, c3}
  MaxFd = 5
INVARIANTS
  AllClosed
