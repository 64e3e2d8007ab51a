SPECIFICATION Spec
CONSTANTS
  k1 = k1
  k2 = k2
  k3 = k3
  Keys = {k1, k2, k3}
  Values = {"a", "b"}
  Hash <- MCHash
  Empty = Empty
  Tomb = Tomb
  NoValue = NoValue
  Header = 1
  MaxCapacity = 8
  Careful = FALSE
PROPERTY RemoveForgets
CHECK_DEADLOCK FALSE
