--------------------------- MODULE MCActionQueue ---------------------------
(* Rule sets of ActionQueue for TLC.                                        *)
EXTENDS ActionQueue

CONSTANTS t1, t2, rt, s1, nil

\* One rule of each kind; a rule object is the number of the rule.
R(pos, cond, mode, task, arg, next, line) ==
  [pos |-> pos, cond |-> cond, mode |-> mode, task |-> task, arg |-> arg,
   next |-> next, line |-> line]

\* Rules that leave the table and the sockets alone, for the runtime thread to edit:
\* 1 and 2 are a loop through a goto, 3 replaces 1 and 4 replaces 2.
SharedRule ==
  << R(0, "maybe", "do", "nop", 0, "continue", 0),
     R(1, "matched", "do-once-per-call", "nop", 0, "goto", 0),
     R(0, "always", "do-once-per-socket", "nop", 0, "next", 0),
     R(1, "unmatched", "do", "fail", 0, "exec", 1) >>

\* Rules of every kind, to be put together two by two.
KindRule ==
  << R(0, "always", "do-once", "nop", 0, "continue", 0),
     R(0, "always", "do", "remove", 1, "stop", 0),
     R(1, "maybe", "do-once-per-call", "mark-call", 0, "goto", 0),
     R(1, "always", "do", "remove", 0, "next", 0),
     R(0, "always", "do", "mark-socket", 1, "continue", 0),
     R(0, "matched", "do", "hang", 0, "next", 0),
     R(1, "always", "do-once-per-socket", "remote-hang", 0, "exec", 0),
     R(0, "always", "do", "syscall", 0, "continue", 0),
     R(1, "always", "do", "local-hang", 0, "stop", 0),
     R(0, "always", "do", "abort", 0, "next", 0),
     R(1, "always", "do", "syscall", 0, "stop", 0) >>

\* A do-once rule alone.
OnceRule == << R(0, "always", "do-once", "nop", 0, "continue", 0) >>

\* A hang and a remote hang.
HangRule ==
  << R(0, "always", "do", "hang", 0, "continue", 0),
     R(1, "always", "do", "nop", 0, "continue", 0),
     R(0, "always", "do", "remote-hang", 0, "continue", 0) >>
=============================================================================
