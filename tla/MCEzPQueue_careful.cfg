SPECIFICATION Spec
CONSTANTS
  a = a
  b = b
  Values = {a, b}
  Costs = {0, 1, 2}
  Zero = Zero
  Nothing = Nothing
  Header = 1
  MaxBuild = 4
  MaxCapacity = 4
  MaxBytes = 20
  Careful = TRUE
INVARIANTS TypeOK HandlesMatch HeapOrder
PROPERTY ImplementsPriority
SYMMETRY Symmetry
VIEW LiveView
