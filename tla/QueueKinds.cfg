SPECIFICATION Spec
CONSTANTS
  t1 = t1
  t2 = t2
  rt = rt
  s1 = s1
  nil = nil
  None = nil
  Threads = {t1, t2}
  Runtime = rt
  Sockets = {s1}
  NonBlocking = {s1}
  Directions = {"Reading", "Writing"}
  Capacity = 2
  FirstUserLine = 1
  Actions = {1, 2, 3, 4, 5, 6, 7, 8, 9, 10, 11}
  Rule <- KindRule
  Rulesets = {{1, 3}, {2, 3}, {5, 4}, {6, 7}, {8, 9}, {10, 11}}
  Addable = {}
  Removable = {0, 1}
  MaxLeak = 1
INVARIANTS TypeOK TableLive
PROPERTIES NoNewAccessors PerCallOnce
CHECK_DEADLOCK FALSE
