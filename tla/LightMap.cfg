SPECIFICATION Spec
CONSTANTS
  nil = nil
  info = info
  Capacity = 3
  None = nil
  Data = {nil, info}
  Usages <- ThreeUsages
  MaxStrays = 1
INVARIANT LengthExact
INVARIANT ChainsUnbroken
INVARIANT NeverCut
PROPERTY KeepsMap
CHECK_DEADLOCK TRUE
