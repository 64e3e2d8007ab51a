\* A line that overruns its buffer ends what can be said.
CHECK_DEADLOCK FALSE
SPECIFICATION Spec
CONSTANTS
  r = r
  d = d
  e = e
  f = f
  g = g
  Nodes = {r, d, e, f, g}
  Root = r
  Worlds <- MCWorlds
  MaxPath = 4
  MaxOpen = 4
  MaxChanges = 1
  Extra = "1"
  Digits <- MCDigits
  White <- MCWhite
  Types <- MCTypes
  LongSize = 16
  IntSize = 8
  Sizes = {2, 4}
  IntRange = 16
  WordSize = 64
  Header = 1
INVARIANTS WalkCovers LoadedRight ParsedRight
PROPERTIES OnlyStatLeaks WalkEnds ImplementsLines
