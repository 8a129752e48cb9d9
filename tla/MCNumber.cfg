\* Arrays for two characters; numbers that are shorter, as long, and longer.
CONSTANTS
  MaxNumber = 2
  Digits = {1, 2}
  MaxGiven = 3
SPECIFICATION Spec
INVARIANTS TypeOK TitleShowsLast
