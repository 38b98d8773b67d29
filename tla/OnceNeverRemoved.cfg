SPECIFICATION LiveSpec
CONSTANTS
  t1 = t1
  t2 = t2
  rt = rt
  s1 = s1
  nil = nil
  None = nil
  Threads = {t1}
  Runtime = rt
  Sockets = {s1}
  NonBlocking = {s1}
  Directions = {"Writing"}
  Capacity = 1
  FirstUserLine = 0
  Actions = {1}
  Rule <- OnceRule
  Rulesets = {{1}}
  Addable = {}
  Removable = {}
  MaxLeak = 0
PROPERTIES OnceRemoved
CHECK_DEADLOCK FALSE
