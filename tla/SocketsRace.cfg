SPECIFICATION Spec
CONSTANTS
  t1 = t1
  t2 = t2
  f1 = f1
  p1 = p1
  p2 = p2
  nil = nil
  Threads = {t1, t2}
  Fds = {f1}
  Peers = {p1, p2}
  Infos = {1, 2, 3}
  None = nil
  Settled = FALSE
INVARIANT UsedInfosLive
CHECK_DEADLOCK FALSE
