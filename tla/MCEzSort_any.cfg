\* EasySort stops when it has returned.
CHECK_DEADLOCK FALSE
SPECIFICATION Spec
CONSTANTS
  Scores = {0, 1, 2, 3}
  NaN = NaN
  MaxLength = 6
  Header = 1
INVARIANTS TypeOK NothingLost KeptSorted
PROPERTY SortingEnds
