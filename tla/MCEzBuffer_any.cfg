\* A hardened build may stop in ez_server_throw.
CHECK_DEADLOCK FALSE
SPECIFICATION BufferSpec
CONSTANTS
  a = a
  b = b
  Bytes = {a, b}
  Zero = Zero
  OutMax = 3
  InMax = 2
  MaxPipe = 2
  MaxAir = 2
SYMMETRY Symmetry
INVARIANT BufferTypeOK
PROPERTIES ImplementsStream ImplementsPost
