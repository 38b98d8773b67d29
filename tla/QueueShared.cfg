SPECIFICATION LiveSpec
CONSTANTS
  t1 = t1
  t2 = t2
  rt = rt
  s1 = s1
  nil = nil
  None = nil
  Threads = {t1, t2}
  Runtime = rt
  Sockets = {s1}
  NonBlocking = {s1}
  Directions = {"Writing"}
  Capacity = 2
  FirstUserLine = 0
  Actions = {1, 2, 3, 4}
  Rule <- SharedRule
  Rulesets = {{1, 2}, {1, 4}}
  Addable = {3}
  Removable = {0, 1}
  MaxLeak = 0
INVARIANTS AccessorsExact HeldRulesLive
PROPERTIES KeepsPromise RemovalCompletes
CHECK_DEADLOCK FALSE
