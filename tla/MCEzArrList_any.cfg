\* EZ_FATAL ends the process.
CHECK_DEADLOCK FALSE
SPECIFICATION Spec
CONSTANTS
  a = a
  b = b
  Elements = {a, b}
  Zero = Zero
  WordSize = 8
  MaxSize = 6
  MaxBytes = 20
  Header = 1
INVARIANT TypeOK
PROPERTIES OnlyZeroLeaks ImplementsList
SYMMETRY Symmetry
