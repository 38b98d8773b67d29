SPECIFICATION HangSpec
CONSTANTS
  t1 = t1
  t2 = t2
  rt = rt
  s1 = s1
  nil = nil
  None = nil
  Threads = {t1}
  Runtime = rt
  Sockets = {s1}
  NonBlocking = {s1}
  Directions = {"Reading"}
  Capacity = 2
  FirstUserLine = 0
  Actions = {1, 2, 3}
  Rule <- HangRule
  Rulesets = {{3}}
  Addable = {}
  Removable = {}
  MaxLeak = 1
PROPERTIES HangEnds
CHECK_DEADLOCK FALSE
