SPECIFICATION LiveSpec
CONSTANTS
  t1 = t1
  t2 = t2
  f1 = f1
  p1 = p1
  p2 = p2
  nil = nil
  Threads = {t1, t2}
  Fds = {f1}
  Peers = {p1, p2}
  Infos = {1, 2, 3}
  None = nil
  Settled = TRUE
INVARIANTS CountExact UsedInfosLive TableFresh
PROPERTY RetiredFreed
CHECK_DEADLOCK FALSE
