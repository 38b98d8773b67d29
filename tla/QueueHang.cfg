SPECIFICATION HangSpec
CONSTANTS
  t1 = t1
  t2 = t2
  rt = rt
  s1 = s1
  nil = nil
  None = nil
  Threads = {t1, t2}
  Runtime = rt
  Sockets = {s1}
  NonBlocking = {s1}
  Directions = {"Reading"}
  Capacity = 2
  FirstUserLine = 0
  Actions = {1, 2, 3}
  Rule <- HangRule
  Rulesets = {{1}, {1, 2}}
  Addable = {}
  Removable = {}
  MaxLeak = 2
PROPERTIES HangEnds
CHECK_DEADLOCK FALSE
