SPECIFICATION Spec
CONSTANTS
  a = a
  b = b
  Values = {a, b}
  Costs = {0, 1, 2}
  Zero = Zero
  Nothing = Nothing
  Header = 1
  MaxBuild = 3
  MaxCapacity = 4
  MaxBytes = 20
  Careful = FALSE
INVARIANT NothingLost
CHECK_DEADLOCK FALSE
