----------------------------- MODULE RuleTable -----------------------------
(***************************************************************************)
(* What the rule queue promises to the threads that walk it: a rule is     *)
(* handed out only while it is in the table and has not been retired, and  *)
(* it is reclaimed only once it has been retired and nobody holds it.  The *)
(* counts, flags, locks and condition variables of ActionQueue are one way *)
(* to keep that promise.                                                   *)
(***************************************************************************)
CONSTANTS Threads, Lines, Rules, None

VARIABLES
  table,    \* line -> rule or None
  retired,  \* rules that are no longer handed out
  gone,     \* rules whose memory has been released
  held      \* thread -> the rules it may use

vars == <<table, retired, gone, held>>

InTable(a) == \E l \in Lines : table[l] = a

Init ==
  /\ table \in [Lines -> Rules \cup {None}]
  /\ \A k, l \in Lines : table[k] = table[l] /\ table[k] # None => k = l
  /\ retired = {} /\ gone = {}
  /\ held = [t \in Threads |-> {}]

Install(l, a) ==
  /\ table[l] = None
  /\ a \in Rules \ gone /\ ~InTable(a)
  /\ table' = [table EXCEPT ![l] = a]
  /\ UNCHANGED <<retired, gone, held>>

\* A rule that never made it into the table.
Refuse(a) ==
  /\ a \in Rules \ gone /\ ~InTable(a)
  /\ gone' = gone \cup {a}
  /\ UNCHANGED <<table, retired, held>>

Retire(l) ==
  /\ table[l] # None
  /\ retired' = retired \cup {table[l]}
  /\ UNCHANGED <<table, gone, held>>

Reclaim(l) ==
  /\ table[l] \in retired
  /\ \A t \in Threads : table[l] \notin held[t]
  /\ gone' = gone \cup {table[l]}
  /\ table' = [table EXCEPT ![l] = None]
  /\ UNCHANGED <<retired, held>>

Acquire(t, a) ==
  /\ InTable(a) /\ a \in Rules \ retired
  /\ held' = [held EXCEPT ![t] = @ \cup {a}]
  /\ UNCHANGED <<table, retired, gone>>

Release(t, a) ==
  /\ a \in held[t]
  /\ held' = [held EXCEPT ![t] = @ \ {a}]
  /\ UNCHANGED <<table, retired, gone>>

Next ==
  \/ \E l \in Lines : Retire(l) \/ Reclaim(l) \/ \E a \in Rules : Install(l, a)
  \/ \E a \in Rules : Refuse(a) \/ \E t \in Threads : Acquire(t, a) \/ Release(t, a)

Spec == Init /\ [][Next]_vars
=============================================================================
