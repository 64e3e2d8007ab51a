SPECIFICATION Spec
CONSTANTS
  k1 = k1
  k2 = k2
  k3 = k3
  Keys = {k1, k2, k3}
  Values = {"a", "b"}
  Hash <- MCHash
  Empty = Empty
  Tomb = Tomb
  NoValue = NoValue
  Header = 1
  MaxCapacity = 16
  Careful = FALSE
INVARIANT TypeOK
INVARIANT Counted
INVARIANT ProbesStop
INVARIANT NoNestedGrowth
INVARIANT ChainsUnbroken
INVARIANT MemoryBalanced
INVARIANT GrowthKeepsKeys
PROPERTY SetIsVisible
CHECK_DEADLOCK FALSE
