------------------------- MODULE ActionQueueProofs -------------------------
(***************************************************************************)
(* What holds of the rule queue for any number of threads, sockets and     *)
(* lines and any set of rules.                                             *)
(***************************************************************************)
EXTENDS ActionQueue, TLAPS, FiniteSetTheorems

\* Line 0 exists.
LEMMA ZeroLine == 0 \in Lines
  BY QueueAssumption DEF Lines

\* What a rule is made of.
LEMMA RuleFields ==
  ASSUME NEW a \in Actions
  PROVE  /\ Rule[a].pos \in Lines /\ Rule[a].arg \in Lines
         /\ Rule[a].cond \in Conds /\ Rule[a].mode \in Modes
         /\ Rule[a].task \in Tasks /\ Rule[a].next \in Gotos
  BY QueueAssumption DEF RuleType

\* The searches of the queue return a rule of the table, or nothing.
LEMMA MatchesInTable ==
  ASSUME NEW from, NEW matched, NEW a \in Matches(from, matched), a # None
  PROVE  \E l \in Lines : queue[l] = a
  BY DEF Matches, FilledFrom

LEMMA FollowersInTable ==
  ASSUME NEW b \in Actions, NEW a \in Followers(b), a # None
  PROVE  \E l \in Lines : queue[l] = a
<1>1. Rule[b].next \in Gotos
  BY RuleFields
<1>2. CASE Rule[b].next \in {"continue", "goto"}
  BY <1>2, MatchesInTable DEF Followers
<1>3. CASE Rule[b].next \in {"next", "exec"}
  BY <1>3 DEF Followers, Firsts, FilledFrom
<1>4. CASE Rule[b].next = "stop"
  BY <1>4 DEF Followers
<1>. QED  BY <1>1, <1>2, <1>3, <1>4 DEF Gotos

\* The type invariant holds initially.
LEMMA InitType == Init => TypeOK
<1>. SUFFICES ASSUME Init PROVE TypeOK
  OBVIOUS
<1>1. /\ queue \in [Lines -> Actions \cup {None}]
      /\ status \in [Actions -> {"unused", "live", "freed"}]
  <2>1. PICK L \in Rulesets :
          /\ queue = [l \in Lines |-> IF \E a \in L : Rule[a].pos = l
                                      THEN CHOOSE a \in L : Rule[a].pos = l ELSE None]
          /\ status = [a \in Actions |-> IF a \in L THEN "live" ELSE "unused"]
    BY DEF Init
  <2>2. L \subseteq Actions
    BY QueueAssumption
  <2>3. \A l \in Lines : (\E a \in L : Rule[a].pos = l) => (CHOOSE a \in L : Rule[a].pos = l) \in Actions
    BY <2>2
  <2>. QED  BY <2>1, <2>3
<1>2. /\ accessors \in [Actions -> Int] /\ emptying \in [Actions -> BOOLEAN]
      /\ ran \in [Actions -> SUBSET (Threads \cup Sockets)]
  BY DEF Init
<1>3. /\ writer \in Mutators \cup {None}
      /\ pc \in [Mutators -> Pcs]
      /\ \A m \in Mutators : pc[m] = "idle"
  BY DEF Init, Pcs, ThreadPcs
<1>4. /\ cur \in [Threads -> Actions \cup {None}]
      /\ nxt \in [Threads -> Actions \cup {None}]
      /\ stale \in [Mutators -> Actions \cup {None}]
      /\ fresh \in [Mutators -> Actions \cup {None}]
      /\ cvar \in [Mutators -> Actions \cup {None}]
  BY DEF Init
<1>5. /\ sock \in [Threads -> Sockets] /\ dir \in [Threads -> Directions]
      /\ blocking \in [Threads -> BOOLEAN]
      /\ outcome \in [Threads -> {"pending", "done", "aborted"}]
      /\ ok \in [Threads -> BOOLEAN] /\ called \in [Threads -> SUBSET Lines]
  BY DEF Init
<1>6. /\ hanging \in [Sockets -> BOOLEAN] /\ hangPos \in [Sockets -> Lines]
      /\ sockCalled \in [Sockets -> SUBSET Lines]
      /\ tgt \in [Mutators -> Lines]
  BY ZeroLine DEF Init
<1>7. /\ woken \subseteq Mutators /\ ret \in [Mutators -> {"idle", "after", "drop"}]
      /\ fault \in BOOLEAN
  BY DEF Init
<1>8. /\ \A m \in Mutators : pc[m] \in ThreadPcs /\ pc[m] \notin MutatePcs
      /\ Runtime \in Mutators /\ Threads \subseteq Mutators
      /\ pc[Runtime] \in {"idle", "list", "show"} \cup MutatePcs
  BY <1>3 DEF ThreadPcs, MutatePcs, Mutators
<1>. QED
  BY <1>1, <1>2, <1>3, <1>4, <1>5, <1>6, <1>7, <1>8
     DEF TypeOK, TableOK, CountsOK, PcOK, WalkOK, CallOK, SocketsOK, MutateOK

\* A thread that is not dangling on a rule is on a rule of Actions.
LEMMA OnRule ==
  ASSUME TypeOK, NEW t \in Threads, pc[t] \in WalkPcs, ~Dangling(t)
  PROVE  cur[t] \in Actions /\ status[cur[t]] # "freed"
<1>1. Pointers(t) = {cur[t]}
  BY DEF Pointers, WalkPcs
<1>. QED  BY <1>1 DEF TypeOK, WalkOK, Dangling

\* A part of the state keeps its type when nothing touches it.
LEMMA Frame ==
  /\ TableOK /\ UNCHANGED table => TableOK'
  /\ CountsOK /\ UNCHANGED counts => CountsOK'
  /\ PcOK /\ UNCHANGED <<pc, ret>> => PcOK'
  /\ WalkOK /\ UNCHANGED walk => WalkOK'
  /\ CallOK /\ UNCHANGED call => CallOK'
  /\ SocketsOK /\ UNCHANGED sockets => SocketsOK'
  /\ MutateOK /\ UNCHANGED mutate => MutateOK'
  BY DEF TableOK, CountsOK, PcOK, WalkOK, CallOK, SocketsOK, MutateOK,
         table, counts, walk, request, call, sockets, mutate

\* A thread stays within its own program counters.
LEMMA ThreadGoto ==
  ASSUME PcOK, NEW t \in Threads, NEW p \in ThreadPcs, Goto(t, p), UNCHANGED ret
  PROVE  PcOK'
<1>1. t \in Mutators /\ t # Runtime /\ p \in Pcs /\ p \notin MutatePcs
  BY QueueAssumption DEF Mutators, Pcs, ThreadPcs, WalkPcs, MutatePcs
<1>. QED
  BY <1>1 DEF PcOK, Goto, Mutators

\* A thread that starts to remove a line comes back to its walk.
LEMMA ThreadEmpty ==
  ASSUME PcOK, NEW t \in Threads, NEW then \in {"after", "drop"}, Goto(t, "empty"),
         ret' = [ret EXCEPT ![t] = then]
  PROVE  PcOK'
<1>1. t \in Mutators /\ t # Runtime /\ "empty" \in Pcs
  BY QueueAssumption DEF Mutators, Pcs, MutatePcs
<1>. QED
  BY <1>1 DEF PcOK, Goto, Mutators, MutatePcs

\* Taking and letting go of accessors keeps the counts integers.
LEMMA LockType ==
  ASSUME CountsOK, NEW a \in Actions \cup {None}, Lock(a)
  PROVE  CountsOK'
  BY DEF CountsOK, Lock

LEMMA UnlockType ==
  ASSUME CountsOK, NEW a \in Actions, Unlock(a)
  PROVE  CountsOK'
  BY DEF CountsOK, Unlock, Sleepers

\* What a search returns is admitted or refused.
LEMMA AdmitType ==
  ASSUME TableOK, NEW a, a # None => \E l \in Lines : queue[l] = a
  PROVE  /\ a \in Actions \cup {None} /\ Admit(a) \in Actions \cup {None}
         /\ Admit(a) # None => Admit(a) = a /\ ~emptying[a]
  BY DEF TableOK, Admit

\* The type invariant is kept by the walkers.
LEMMA WalkType ==
  ASSUME TypeOK, NEW t \in Threads, ~Dangling(t), Walk(t), UNCHANGED fault
  PROVE  TypeOK'
<1>. USE DEF TypeOK
<1>m. t \in Mutators
  BY DEF Mutators
<1>s. sock[t] \in Sockets
  BY DEF CallOK
<1>1. CASE Begin(t)
  <2>1. PICK a \in Matches(0, FALSE) :
          /\ cur' = [cur EXCEPT ![t] = Admit(a)]
          /\ Lock(Admit(a))
          /\ Goto(t, IF Admit(a) = None THEN "bypass" ELSE "check")
    BY <1>1 DEF Begin
  <2>2. Admit(a) \in Actions \cup {None}
    BY MatchesInTable, AdmitType
  <2>3. CountsOK'
    BY <2>1, <2>2, LockType
  <2>4. PcOK'
    BY <1>1, <2>1, ThreadGoto DEF Begin, mutate, ThreadPcs
  <2>5. WalkOK'
    BY <1>1, <2>1, <2>2 DEF Begin, WalkOK
  <2>6. CallOK'
    BY <1>1 DEF Begin, CallOK
  <2>. QED  BY <1>1, <2>3, <2>4, <2>5, <2>6, Frame DEF Begin
<1>2. CASE Bypass(t)
  <2>1. PcOK'
    BY <1>2, ThreadGoto DEF Bypass, ThreadPcs, mutate
  <2>2. CallOK'
    BY <1>2 DEF Bypass, CallOK, request
  <2>. QED  BY <1>2, <2>1, <2>2, Frame DEF Bypass
<1>3. CASE Proceed(t)
  BY <1>3, ThreadGoto, Frame DEF Proceed, ThreadPcs, WalkPcs, mutate
<1>4. CASE Poll(t)
  <2>1. PcOK'
    BY <1>4, ThreadGoto DEF Poll, ThreadPcs, mutate
  <2>2. WalkOK'
    BY <1>4 DEF Poll, WalkOK
  <2>. QED  BY <1>4, <2>1, <2>2, Frame DEF Poll
<1>5. CASE ResumeAtLine(t)
  <2>1. PcOK'
    BY <1>5, ThreadGoto DEF ResumeAtLine, ThreadPcs, WalkPcs, mutate
  <2>2. queue[hangPos[sock[t]]] \in Actions \cup {None}
    BY <1>s DEF SocketsOK, TableOK
  <2>3. WalkOK'
    BY <1>5, <2>2 DEF ResumeAtLine, WalkOK
  <2>. QED  BY <1>5, <2>1, <2>3, Frame DEF ResumeAtLine
<1>6. CASE ResumeElsewhere(t)
  <2>1. PICK a \in Matches(1, hangPos[sock[t]] # 0) :
          /\ cur' = [cur EXCEPT ![t] = Admit(a)]
          /\ Lock(Admit(a))
          /\ Goto(t, IF Admit(a) = None THEN "bypass" ELSE "loop")
          /\ hanging' = IF Admit(a) = None THEN [hanging EXCEPT ![sock[t]] = FALSE] ELSE hanging
    BY <1>6 DEF ResumeElsewhere
  <2>2. Admit(a) \in Actions \cup {None}
    BY MatchesInTable, AdmitType
  <2>3. CountsOK'
    BY <2>1, <2>2, LockType
  <2>4. PcOK'
    BY <1>6, <2>1, ThreadGoto DEF ResumeElsewhere, mutate, ThreadPcs, WalkPcs
  <2>5. WalkOK'
    BY <1>6, <2>1, <2>2 DEF ResumeElsewhere, WalkOK
  <2>6. SocketsOK'
    BY <1>6, <2>1 DEF ResumeElsewhere, SocketsOK
  <2>. QED  BY <1>6, <2>3, <2>4, <2>5, <2>6, Frame DEF ResumeElsewhere
<1>7. CASE Skip(t)
  <2>1. cur[t] \in Actions
    BY <1>7, OnRule DEF Skip, WalkPcs
  <2>2. CountsOK'
    BY <1>7, <2>1, UnlockType DEF Skip
  <2>3. PcOK'
    BY <1>7, ThreadGoto DEF Skip, ThreadPcs, mutate
  <2>4. WalkOK'
    BY <1>7, <1>m, <2>1 DEF Skip, WalkOK
  <2>. QED  BY <1>7, <2>2, <2>3, <2>4, Frame DEF Skip
<1>8. CASE SkipNext(t)
  <2>1. PICK a \in Matches(Rule[stale[t]].pos + 1, TRUE) :
          /\ cur' = [cur EXCEPT ![t] = Admit(a)]
          /\ Lock(Admit(a))
          /\ GotoRule(t, Admit(a))
    BY <1>8 DEF SkipNext
  <2>0. a # None => \E l \in Lines : queue[l] = a
    BY MatchesInTable
  <2>2. Admit(a) \in Actions \cup {None}
    BY <2>0, AdmitType
  <2>3. CountsOK'
    BY <2>1, <2>2, LockType
  <2>4. PcOK'
    BY <1>8, <2>1, ThreadGoto DEF SkipNext, GotoRule, mutate, ThreadPcs, WalkPcs
  <2>5. WalkOK'
    BY <1>8, <1>m, <2>1, <2>2 DEF SkipNext, WalkOK
  <2>. QED  BY <1>8, <2>3, <2>4, <2>5, Frame DEF SkipNext
<1>9. CASE Select(t)
  BY <1>9, ThreadGoto, Frame DEF Select, ThreadPcs, WalkPcs, mutate
<1>10. CASE ResumeHang(t)
  <2>1. PcOK'
    BY <1>10, ThreadGoto DEF ResumeHang, ThreadPcs, WalkPcs, mutate
  <2>2. CallOK'
    BY <1>10 DEF ResumeHang, CallOK, request
  <2>3. SocketsOK'
    BY <1>10 DEF ResumeHang, SocketsOK
  <2>. QED  BY <1>10, <2>1, <2>2, <2>3, Frame DEF ResumeHang
<1>11. ASSUME Performs(t)
       PROVE  cur[t] \in Actions /\ ran' \in [Actions -> SUBSET (Threads \cup Sockets)]
  BY <1>11, <1>s, OnRule DEF Performs, WalkPcs, CallOK
<1>12. ASSUME Unhang(t) PROVE hanging' \in [Sockets -> BOOLEAN]
  BY <1>12 DEF Unhang, SocketsOK
<1>13. CASE PerformHang(t)
  <2>1. PcOK'
    BY <1>13, ThreadGoto DEF PerformHang, ThreadPcs, WalkPcs, mutate
  <2>2. CallOK'
    BY <1>13, <1>11 DEF PerformHang, HangOutcome, CallOK, request
  <2>3. Rule[cur[t]].pos \in Lines
    BY <1>13, <1>11, RuleFields DEF PerformHang
  <2>4. SocketsOK'
    BY <1>13, <1>s, <1>12, <2>3 DEF PerformHang, SocketsOK
  <2>. QED  BY <1>13, <2>1, <2>2, <2>4, Frame DEF PerformHang
<1>14. CASE PerformMark(t)
  <2>1. PcOK'
    BY <1>14, ThreadGoto DEF PerformMark, ThreadPcs, WalkPcs, mutate
  <2>2. Rule[cur[t]].arg \in Lines
    BY <1>14, <1>11, RuleFields DEF PerformMark
  <2>3. CallOK'
    BY <1>14, <1>11, <2>2 DEF PerformMark, CallOK, request
  <2>4. SocketsOK'
    BY <1>14, <1>s, <1>12, <2>2 DEF PerformMark, SocketsOK
  <2>. QED  BY <1>14, <2>1, <2>3, <2>4, Frame DEF PerformMark
<1>15. CASE PerformOther(t)
  <2>1. PcOK'
    BY <1>15, ThreadGoto DEF PerformOther, ThreadPcs, WalkPcs, mutate
  <2>2. CallOK'
    BY <1>15, <1>11 DEF PerformOther, CallOK, request
  <2>3. SocketsOK'
    BY <1>15, <1>12 DEF PerformOther, SocketsOK
  <2>. QED  BY <1>15, <2>1, <2>2, <2>3, Frame DEF PerformOther
<1>16. CASE PerformRemove(t)
  <2>1. PcOK'
    BY <1>16, ThreadEmpty DEF PerformRemove, StartRemove
  <2>2. CallOK'
    BY <1>16, <1>11 DEF PerformRemove, CallOK, request
  <2>3. SocketsOK'
    BY <1>16, <1>12 DEF PerformRemove, SocketsOK
  <2>4. MutateOK'
    BY <1>16, <1>11, RuleFields DEF PerformRemove, StartRemove, MutateOK
  <2>. QED  BY <1>16, <2>1, <2>2, <2>3, <2>4, Frame DEF PerformRemove
<1>17. CASE Break(t)
  <2>1. cur[t] \in Actions
    BY <1>17, OnRule DEF Break, WalkPcs
  <2>2. CountsOK'
    BY <1>17, <2>1, UnlockType DEF Break
  <2>3. PcOK'
    BY <1>17, ThreadGoto DEF Break, ThreadPcs, mutate
  <2>4. WalkOK'
    BY <1>17 DEF Break, WalkOK
  <2>. QED  BY <1>17, <2>2, <2>3, <2>4, Frame DEF Break
<1>18. CASE Record(t)
  <2>1. PcOK'
    BY <1>18, ThreadGoto DEF Record, ThreadPcs, WalkPcs, mutate
  <2>2. Rule[cur[t]].pos \in Lines
    BY <1>18, OnRule, RuleFields DEF Record, WalkPcs
  <2>3. CallOK'
    BY <1>18, <2>2 DEF Record, CallOK, request
  <2>4. SocketsOK'
    BY <1>18, <1>s, <2>2 DEF Record, SocketsOK
  <2>. QED  BY <1>18, <2>1, <2>3, <2>4, Frame DEF Record
<1>19. CASE Follow(t)
  <2>1. cur[t] \in Actions
    BY <1>19, OnRule DEF Follow, WalkPcs
  <2>2. PICK a \in Followers(cur[t]) : nxt' = [nxt EXCEPT ![t] = Admit(a)] /\ Lock(Admit(a))
    BY <1>19 DEF Follow
  <2>3. a # None => \E l \in Lines : queue[l] = a
    BY <2>1, FollowersInTable
  <2>4. Admit(a) \in Actions \cup {None}
    BY <2>3, AdmitType
  <2>5. CountsOK'
    BY <2>2, <2>4, LockType
  <2>6. PcOK'
    BY <1>19, ThreadGoto DEF Follow, ThreadPcs, WalkPcs, mutate
  <2>7. WalkOK'
    BY <1>19, <2>2, <2>4 DEF Follow, WalkOK
  <2>. QED  BY <1>19, <2>5, <2>6, <2>7, Frame DEF Follow
<1>20. CASE Once(t)
  <2>1. PcOK'
    BY <1>20, ThreadEmpty DEF Once, StartRemove
  <2>2. Rule[cur[t]].pos \in Lines
    BY <1>20, OnRule, RuleFields DEF Once, WalkPcs
  <2>3. MutateOK'
    BY <1>20, <1>m, <2>2 DEF Once, StartRemove, MutateOK
  <2>. QED  BY <1>20, <2>1, <2>3, Frame DEF Once
<1>21. CASE Drop(t)
  <2>1. cur[t] \in Actions
    BY <1>21, OnRule DEF Drop, WalkPcs
  <2>2. CountsOK'
    BY <1>21, <2>1, UnlockType DEF Drop
  <2>3. PcOK'
    BY <1>21, ThreadGoto DEF Drop, GotoRule, ThreadPcs, WalkPcs, mutate
  <2>4. WalkOK'
    BY <1>21 DEF Drop, WalkOK
  <2>. QED  BY <1>21, <2>2, <2>3, <2>4, Frame DEF Drop
<1>22. CASE PerformCall(t)
  <2>1. PcOK'
    BY <1>22, ThreadGoto DEF PerformCall, ThreadPcs, WalkPcs, mutate
  <2>2. CallOK'
    BY <1>22, <1>11 DEF PerformCall, CallOK, request
  <2>3. SocketsOK'
    BY <1>22, <1>12 DEF PerformCall, SocketsOK
  <2>. QED  BY <1>22, <2>1, <2>2, <2>3, Frame DEF PerformCall
<1>23. CASE Finish(t)
  <2>1. PcOK'
    BY <1>23, ThreadGoto DEF Finish, ThreadPcs, mutate
  <2>2. CallOK'
    BY <1>23 DEF Finish, CallOK, request
  <2>. QED  BY <1>23, <2>1, <2>2, Frame DEF Finish
<1>. QED
  BY <1>1, <1>2, <1>3, <1>4, <1>5, <1>6, <1>7, <1>8, <1>9, <1>10, <1>13, <1>14, <1>15,
     <1>16, <1>17, <1>18, <1>19, <1>20, <1>21, <1>22, <1>23 DEF Walk, Advance

\* A mutator stays within the program counters of its kind.
LEMMA MutatorGoto ==
  ASSUME PcOK, NEW m \in Mutators, pc[m] \in MutatePcs, NEW p \in MutatePcs \cup {ret[m]},
         Goto(m, p), UNCHANGED ret
  PROVE  PcOK'
<1>1. p \in Pcs
  BY DEF PcOK, Pcs, ThreadPcs, WalkPcs, MutatePcs
<1>2. ret[m] \notin MutatePcs /\ ret[m] \in ThreadPcs
  BY DEF PcOK, ThreadPcs, WalkPcs, MutatePcs
<1>3. m = Runtime => ret[m] = "idle"
  BY DEF PcOK
<1>4. Runtime \notin Threads
  BY QueueAssumption
<1>5. pc' \in [Mutators -> Pcs] /\ ret' \in [Mutators -> {"idle", "after", "drop"}]
  BY <1>1 DEF PcOK, Goto
<1>6. ASSUME NEW t \in Threads
      PROVE  pc'[t] \in ThreadPcs \cup MutatePcs /\ (pc'[t] \in MutatePcs => ret'[t] # "idle")
  BY <1>2 DEF PcOK, Goto, Mutators
<1>7. /\ pc'[Runtime] \in {"idle", "list", "show"} \cup MutatePcs
      /\ pc'[Runtime] \in MutatePcs => ret'[Runtime] = "idle"
  BY <1>2, <1>3, <1>4 DEF PcOK, Goto, Mutators
<1>. QED  BY <1>5, <1>6, <1>7 DEF PcOK

\* So does the runtime thread.
LEMMA RuntimeGoto ==
  ASSUME PcOK, NEW p \in {"idle", "list", "show", "empty"}, Goto(Runtime, p),
         p = "empty" => ret' = [ret EXCEPT ![Runtime] = "idle"],
         p # "empty" => UNCHANGED ret
  PROVE  PcOK'
<1>1. Runtime \in Mutators /\ Runtime \notin Threads /\ p \in Pcs
  BY QueueAssumption DEF Mutators, Pcs, ThreadPcs, MutatePcs
<1>2. p # "empty" => p \notin MutatePcs
  BY DEF MutatePcs
<1>. QED
  BY <1>1, <1>2 DEF PcOK, Goto, Mutators, MutatePcs

\* A mutator that is not dangling empties a rule.
LEMMA OnLine ==
  ASSUME TypeOK, NEW m \in Mutators, pc[m] \in {"empty", "wait"}, ~Dangling(m)
  PROVE  queue[tgt[m]] \in Actions /\ status[queue[tgt[m]]] # "freed"
<1>1. queue[tgt[m]] \in Pointers(m)
  BY DEF Pointers, WalkPcs
<1>. QED  BY <1>1 DEF TypeOK, TableOK, MutateOK, Dangling

\* The type invariant is kept by the mutators.
LEMMA MutateType ==
  ASSUME TypeOK, NEW m \in Mutators, ~Dangling(m), Mutate(m), UNCHANGED fault
  PROVE  TypeOK'
<1>. USE DEF TypeOK
<1>1. CASE Empty(m)
  <2>1. queue[tgt[m]] \in Actions
    BY <1>1, OnLine DEF Empty
  <2>2. PcOK'
    BY <1>1, MutatorGoto DEF Empty, MutatePcs
  <2>3. TableOK' /\ MutateOK' /\ CountsOK'
    BY <1>1, <2>1 DEF Empty, TableOK, MutateOK, CountsOK, counts
  <2>. QED  BY <1>1, <2>2, <2>3, Frame DEF Empty
<1>2. CASE Wake(m)
  <2>1. queue[tgt[m]] \in Actions
    BY <1>2, OnLine DEF Wake
  <2>2. PcOK'
    BY <1>2, MutatorGoto DEF Wake, MutatePcs
  <2>3. MutateOK' /\ CountsOK'
    BY <1>2, <2>1 DEF Wake, MutateOK, CountsOK
  <2>. QED  BY <1>2, <2>2, <2>3, Frame DEF Wake
<1>3. CASE Destroy(m)
  <2>1. PcOK'
    BY <1>3, MutatorGoto DEF Destroy, MutatePcs, mutate
  <2>2. TableOK'
    BY <1>3 DEF Destroy, TableOK
  <2>. QED  BY <1>3, <2>1, <2>2, Frame DEF Destroy
<1>4. CASE Store(m)
  <2>1. PcOK'
    BY <1>4, MutatorGoto DEF Store, MutatePcs, mutate
  <2>2. TableOK'
    BY <1>4 DEF Store, TableOK, MutateOK
  <2>. QED  BY <1>4, <2>1, <2>2, Frame DEF Store
<1>. QED  BY <1>1, <1>2, <1>3, <1>4 DEF Mutate

\* The type invariant is kept by the commands of the runtime thread.
LEMMA EditType ==
  ASSUME TypeOK, Edit, UNCHANGED fault
  PROVE  TypeOK'
<1>. USE DEF TypeOK
<1>r. Runtime \in Mutators
  BY DEF Mutators
<1>1. CASE RuntimeRemove
  <2>1. PICK l \in Removable : StartRemove(Runtime, l, "idle")
    BY <1>1 DEF RuntimeRemove
  <2>2. l \in Lines
    BY QueueAssumption
  <2>3. PcOK'
    BY <2>1, RuntimeGoto DEF StartRemove
  <2>4. MutateOK'
    BY <1>r, <2>1, <2>2 DEF StartRemove, MutateOK
  <2>. QED  BY <1>1, <2>3, <2>4, Frame DEF RuntimeRemove
<1>2. ASSUME NEW a \in Actions, PutFree(a) \/ PutCollide(a)
      PROVE  TypeOK'
  <2>1. TableOK'
    BY <1>2, RuleFields DEF PutFree, PutCollide, TableOK
  <2>. QED  BY <1>2, <2>1, Frame DEF PutFree, PutCollide, mutate
<1>3. ASSUME NEW a \in Actions, PutReplace(a)
      PROVE  TypeOK'
  <2>1. TableOK'
    BY <1>3 DEF PutReplace, TableOK
  <2>2. PcOK'
    BY <1>3, RuntimeGoto DEF PutReplace
  <2>3. MutateOK'
    BY <1>3, <1>r, RuleFields DEF PutReplace, MutateOK
  <2>. QED  BY <1>3, <2>1, <2>2, <2>3, Frame DEF PutReplace
<1>4. CASE List
  <2>1. PcOK'
    BY <1>4, RuntimeGoto DEF List
  <2>2. MutateOK'
    BY <1>4, <1>r, ZeroLine DEF List, MutateOK
  <2>. QED  BY <1>4, <2>1, <2>2, Frame DEF List
<1>5. ASSUME NextLine, UNCHANGED <<fresh, cvar, ret>>
      PROVE  PcOK' /\ MutateOK'
  <2>1. CASE tgt[Runtime] + 1 \in Lines
    BY <1>5, <1>r, <2>1, RuntimeGoto DEF NextLine, MutateOK
  <2>2. CASE tgt[Runtime] + 1 \notin Lines
    BY <1>5, <2>2, RuntimeGoto DEF NextLine, MutateOK
  <2>. QED  BY <2>1, <2>2
<1>6. CASE ListRead
  <2>1. CASE queue[tgt[Runtime]] = None
    <3>1. NextLine /\ UNCHANGED stale
      BY <1>6, <2>1 DEF ListRead
    <3>2. WalkOK'
      BY <1>6, <3>1 DEF ListRead, WalkOK
    <3>. QED  BY <1>6, <3>1, <3>2, <1>5, Frame DEF ListRead
  <2>2. CASE queue[tgt[Runtime]] # None
    <3>1. /\ stale' = [stale EXCEPT ![Runtime] = queue[tgt[Runtime]]]
          /\ Goto(Runtime, "show") /\ UNCHANGED tgt
      BY <1>6, <2>2 DEF ListRead
    <3>2. PcOK'
      BY <1>6, <3>1, RuntimeGoto DEF ListRead
    <3>3. WalkOK'
      BY <1>6, <1>r, <3>1 DEF ListRead, WalkOK, TableOK, MutateOK
    <3>4. MutateOK'
      BY <1>6, <3>1 DEF ListRead, MutateOK
    <3>. QED  BY <1>6, <3>2, <3>3, <3>4, Frame DEF ListRead
  <2>. QED  BY <2>1, <2>2
<1>7. CASE Show
  <2>1. WalkOK'
    BY <1>7 DEF Show, WalkOK
  <2>. QED  BY <1>7, <2>1, <1>5, Frame DEF Show
<1>. QED  BY <1>1, <1>2, <1>3, <1>4, <1>6, <1>7 DEF Edit

\* TypeOK is inductive.
LEMMA NextType == TypeOK /\ [Next]_vars => TypeOK'
<1>. SUFFICES ASSUME TypeOK, [Next]_vars PROVE TypeOK'
  OBVIOUS
<1>1. ASSUME NEW m \in Mutators, Step(m)
      PROVE  TypeOK'
  <2>1. CASE Fault(m)
    BY <2>1, Frame DEF Fault, TypeOK, mutate
  <2>2. CASE ~Fault(m)
    BY <1>1, <2>2, WalkType, MutateType, EditType DEF Step
  <2>. QED  BY <2>1, <2>2
<1>2. CASE UNCHANGED vars
  BY <1>2, Frame DEF vars, TypeOK, mutate
<1>. QED  BY <1>1, <1>2 DEF Next

\* Every variable of the queue keeps its type, whatever the rules and the
\* number of threads (the declarations of actions.c:95-113 and 554-559).
THEOREM TypeCorrect == Spec => []TypeOK
<1>. QED  BY InitType, NextType, PTL DEF Spec

-----------------------------------------------------------------------------
\* LOCK_ACTION refuses a rule that is being emptied: the count of such a rule
\* never grows again, whatever walkers and mutators are doing.
THEOREM NoNewAccessorsCorrect == Spec => NoNewAccessors
<1>. DEFINE Refuses == \A a \in Actions : emptying[a] => accessors'[a] <= accessors[a]
<1>1. TypeOK /\ [Next]_vars => Refuses
  <2>. SUFFICES ASSUME TypeOK, [Next]_vars, NEW a \in Actions, emptying[a]
                PROVE  accessors'[a] <= accessors[a]
    OBVIOUS
  <2>. USE DEF TypeOK
  <2>0. accessors[a] \in Int
    BY DEF CountsOK
  <2>1. CASE UNCHANGED counts
    BY <2>0, <2>1 DEF counts
  <2>2. ASSUME NEW b \in Actions \cup {None}, Lock(Admit(b)) PROVE accessors'[a] <= accessors[a]
    BY <2>0, <2>2 DEF Lock, Admit, CountsOK
  <2>3. ASSUME NEW b \in Actions, Unlock(b) PROVE accessors'[a] <= accessors[a]
    BY <2>0, <2>3 DEF Unlock, CountsOK
  <2>4. CASE UNCHANGED accessors
    BY <2>0, <2>4
  <2>5. ASSUME NEW m \in Mutators, Step(m) PROVE accessors'[a] <= accessors[a]
    <3>1. CASE Fault(m)
      BY <3>1, <2>1 DEF Fault
    <3>2. CASE m \in Threads /\ Walk(m) /\ ~Dangling(m)
      <4>1. CASE Begin(m)
        <5>1. PICK b \in Matches(0, FALSE) : Lock(Admit(b))
          BY <4>1 DEF Begin
        <5>2. b # None => \E l \in Lines : queue[l] = b
          BY MatchesInTable
        <5>. QED  BY <5>1, <5>2, <2>2, AdmitType
      <4>2. CASE ResumeElsewhere(m)
        BY <4>2, <2>2, MatchesInTable, AdmitType DEF ResumeElsewhere
      <4>3. CASE SkipNext(m)
        <5>1. PICK b \in Matches(Rule[stale[m]].pos + 1, TRUE) : Lock(Admit(b))
          BY <4>3 DEF SkipNext
        <5>2. b # None => \E l \in Lines : queue[l] = b
          BY MatchesInTable
        <5>. QED  BY <5>1, <5>2, <2>2, AdmitType
      <4>4. CASE Follow(m)
        BY <3>2, <4>4, <2>2, OnRule, FollowersInTable, AdmitType DEF Follow, WalkPcs
      <4>5. CASE Skip(m) \/ Break(m) \/ Drop(m)
        BY <3>2, <4>5, <2>3, OnRule DEF Skip, Break, Drop, WalkPcs
      <4>6. CASE ~(Begin(m) \/ ResumeElsewhere(m) \/ SkipNext(m) \/ Follow(m)
                     \/ Skip(m) \/ Break(m) \/ Drop(m))
        BY <3>2, <4>6, <2>1 DEF Walk, Advance, Bypass, Proceed, Poll, ResumeAtLine, Select,
           ResumeHang, PerformHang, PerformCall, PerformMark, PerformOther, PerformRemove,
           Record, Once, Finish
      <4>. QED  BY <4>1, <4>2, <4>3, <4>4, <4>5, <4>6
    <3>3. CASE Mutate(m)
      BY <3>3, <2>1, <2>4 DEF Mutate, Empty, Wake, Destroy, Store
    <3>4. CASE Edit
      BY <3>4, <2>1 DEF Edit, RuntimeRemove, PutFree, PutCollide, PutReplace, List, ListRead, Show
    <3>. QED  BY <2>5, <3>1, <3>2, <3>3, <3>4 DEF Step
  <2>. QED  BY <2>1, <2>5 DEF Next, vars
<1>2. TypeOK /\ [Next]_vars => [Refuses]_vars
  BY <1>1
<1>. QED
  BY <1>2, TypeCorrect, PTL DEF Spec, NoNewAccessors

-----------------------------------------------------------------------------
(* A do-once-per-call rule is performed once in a call.                     *)

\* What PerformedCalled reads of a thread stays as it is.
Untouched(t) ==
  /\ pc'[t] = pc[t] /\ ret'[t] = ret[t] /\ cur'[t] = cur[t] /\ called'[t] = called[t]
  /\ \A a \in Actions : t \in ran'[a] <=> t \in ran[a]

LEMMA UntouchedCalled ==
  ASSUME NEW t \in Threads, CalledOf(t), Untouched(t)
  PROVE  CalledOf(t)'
  BY DEF CalledOf, Recording, PerCall, Untouched

\* A walker does not touch what is said of the others: to perform a rule records the thread
\* and a socket.
LEMMA WalkOthers ==
  ASSUME TypeOK, NEW t \in Threads, ~Dangling(t), Walk(t), NEW u \in Threads, u # t
  PROVE  Untouched(u)
<1>. USE DEF TypeOK
<1>m. t \in Mutators /\ u \in Mutators
  BY DEF Mutators
<1>s. sock[t] \in Sockets /\ sock[t] # u
  BY QueueAssumption DEF CallOK
<1>1. ASSUME NEW p, Goto(t, p) PROVE pc'[u] = pc[u]
  BY <1>1, <1>m DEF Goto, PcOK
<1>2. pc'[u] = pc[u]
  <2>1. \E p : Goto(t, p)
    BY DEF Walk, Advance, Begin, Bypass, Proceed, Poll, ResumeAtLine, ResumeElsewhere, Skip,
       SkipNext, Select, ResumeHang, PerformHang, PerformCall, PerformMark, PerformOther,
       PerformRemove, StartRemove, Break, Record, Follow, Once, Drop, Finish, GotoRule
  <2>. QED  BY <1>1, <2>1
<1>3. ret'[u] = ret[u]
  BY <1>m DEF Walk, Advance, Begin, Bypass, Proceed, Poll, ResumeAtLine, ResumeElsewhere, Skip,
     SkipNext, Select, ResumeHang, PerformHang, PerformCall, PerformMark, PerformOther,
     PerformRemove, StartRemove, Break, Record, Follow, Once, Drop, Finish, PcOK, mutate
<1>4. cur'[u] = cur[u]
  BY DEF Walk, Advance, Begin, Bypass, Proceed, Poll, ResumeAtLine, ResumeElsewhere, Skip,
     SkipNext, Select, ResumeHang, PerformHang, PerformCall, PerformMark, PerformOther,
     PerformRemove, Break, Record, Follow, Once, Drop, Finish, WalkOK, walk
<1>5. called'[u] = called[u]
  BY DEF Walk, Advance, Begin, Bypass, Proceed, Poll, ResumeAtLine, ResumeElsewhere, Skip,
     SkipNext, Select, ResumeHang, PerformHang, PerformCall, PerformMark, PerformOther,
     PerformRemove, Break, Record, Follow, Once, Drop, Finish, CallOK, call
<1>6. ASSUME NEW a \in Actions PROVE u \in ran'[a] <=> u \in ran[a]
  <2>1. CASE Performs(t)
    BY <2>1, <1>s DEF Performs, CallOK
  <2>2. CASE Begin(t)
    BY <2>2 DEF Begin, CallOK
  <2>3. CASE ~Performs(t) /\ ~Begin(t)
    BY <2>3 DEF Walk, Advance, Bypass, Proceed, Poll, ResumeAtLine, ResumeElsewhere, Skip,
     SkipNext, Select, ResumeHang, PerformHang, PerformCall, PerformMark, PerformOther,
     PerformRemove, Break, Record, Follow, Once, Drop, Finish, call
  <2>. QED  BY <2>1, <2>2, <2>3
<1>. QED  BY <1>2, <1>3, <1>4, <1>5, <1>6 DEF Untouched

\* The walker itself: it performs a rule that is not marked, and marks it before it goes on.
LEMMA WalkCalled ==
  ASSUME TypeOK, NEW t \in Threads, ~Dangling(t), Walk(t), CalledOf(t)
  PROVE  CalledOf(t)'
<1>. SUFFICES ASSUME NEW a \in Actions, PerCall(a)
              PROVE  /\ t \in ran'[a] => \/ Rule[a].pos \in called'[t]
                                         \/ Recording(t, a)'
                                         \/ pc'[t] \in {"idle", "bypass", "finish"}
                     /\ pc'[t] = "perform" /\ cur'[t] = a => Rule[a].pos \notin called'[t]
  BY DEF CalledOf, PerCall
<1>. USE DEF TypeOK
<1>m. t \in Mutators /\ pc[t] \in ThreadPcs \cup MutatePcs
  BY DEF Mutators, PcOK
<1>0. /\ t \in ran[a] => \/ Rule[a].pos \in called[t]
                         \/ Recording(t, a)
                         \/ pc[t] \in {"idle", "bypass", "finish"}
      /\ pc[t] = "perform" /\ cur[t] = a => Rule[a].pos \notin called[t]
  BY DEF CalledOf
<1>p. ASSUME NEW p, Goto(t, p) PROVE pc'[t] = p
  BY <1>p, <1>m DEF Goto, PcOK
<1>1. CASE Begin(t)
  <2>1. t \notin ran'[a]
    BY <1>1 DEF Begin
  <2>2. pc'[t] # "perform"
    BY <1>1, <1>p DEF Begin
  <2>. QED  BY <2>1, <2>2
<1>2. CASE Bypass(t) \/ Poll(t) \/ Finish(t)
  <2>1. pc'[t] = "idle"
    BY <1>2, <1>p DEF Bypass, Poll, Finish
  <2>. QED  BY <2>1
<1>3. CASE Break(t)
  <2>1. pc'[t] = "finish"
    BY <1>3, <1>p DEF Break
  <2>. QED  BY <2>1
\* Steps that leave ran and called alone, from where no rule waits to be marked.
<1>4. ASSUME UNCHANGED <<called, ran>>, pc'[t] # "perform",
             pc[t] \in {"check", "loop", "skipped", "next", "once", "drop"}
      PROVE  /\ t \in ran'[a] => Rule[a].pos \in called'[t]
             /\ pc'[t] # "perform"
  BY <1>0, <1>4 DEF Recording, MutatePcs
<1>5. CASE Proceed(t) \/ ResumeAtLine(t) \/ ResumeElsewhere(t) \/ Skip(t) \/ SkipNext(t)
           \/ Follow(t) \/ Drop(t) \/ Once(t)
  <2>1. UNCHANGED <<called, ran>>
    BY <1>5 DEF Proceed, ResumeAtLine, ResumeElsewhere, Skip, SkipNext, Follow, Drop, Once, call
  <2>2. pc[t] \in {"check", "loop", "skipped", "next", "once", "drop"}
    BY <1>5 DEF Proceed, ResumeAtLine, ResumeElsewhere, Skip, SkipNext, Follow, Drop, Once
  <2>3. \E p : p # "perform" /\ Goto(t, p)
    BY <1>5 DEF Proceed, ResumeAtLine, ResumeElsewhere, Skip, SkipNext, Follow, Drop, Once,
                StartRemove, GotoRule
  <2>4. pc'[t] # "perform"
    BY <2>3, <1>p
  <2>. QED  BY <2>1, <2>2, <2>4, <1>4
<1>6. CASE Select(t)
  <2>1. UNCHANGED <<called, ran, cur>> /\ pc[t] = "loop"
    BY <1>6 DEF Select, call, walk
  <2>2. t \in ran[a] => Rule[a].pos \in called[t]
    BY <1>0, <2>1 DEF Recording, MutatePcs
  <2>3. cur[t] = a => Rule[a].pos \notin called[t]
    BY <1>6 DEF Select, Done, PerCall
  <2>. QED  BY <2>1, <2>2, <2>3
<1>7. CASE ResumeHang(t)
  <2>1. UNCHANGED <<called, ran>> /\ pc[t] = "perform"
    BY <1>7 DEF ResumeHang
  <2>2. t \in ran[a] => Rule[a].pos \in called[t]
    BY <1>0, <2>1 DEF Recording, MutatePcs
  <2>3. pc'[t] = "after"
    BY <1>7, <1>p DEF ResumeHang
  <2>. QED  BY <2>1, <2>2, <2>3
<1>8. CASE Performs(t)
  <2>1. pc[t] = "perform" /\ cur[t] \in Actions
    BY <1>8, OnRule DEF Performs, WalkPcs
  <2>2. t \in ran'[a] => t \in ran[a] \/ cur[t] = a
    BY <1>8, <2>1 DEF Performs, CallOK
  <2>3. t \in ran[a] => Rule[a].pos \in called[t]
    BY <1>0, <2>1 DEF Recording, MutatePcs
  <2>4. PerformHang(t) \/ PerformCall(t) \/ PerformMark(t) \/ PerformOther(t) \/ PerformRemove(t)
    BY <1>8, <2>1 DEF Performs, Walk, Advance, Begin, Bypass, Proceed, Poll, ResumeAtLine,
       ResumeElsewhere, Skip, SkipNext, Select, ResumeHang, Break, Record, Follow, Once, Drop,
       Finish
  <2>5. cur' = cur
    BY <2>4 DEF PerformHang, PerformCall, PerformMark, PerformOther, PerformRemove, walk
  <2>6. Rule[a].pos \in called[t] => Rule[a].pos \in called'[t]
    BY <2>4 DEF PerformHang, PerformCall, PerformMark, PerformOther, PerformRemove, CallOK
  <2>7. CASE PerformRemove(t)
    <3>1. pc'[t] = "empty" /\ ret'[t] = "after"
      BY <2>7, <1>m, <1>p DEF PerformRemove, StartRemove, PcOK
    <3>. QED  BY <2>2, <2>3, <2>5, <2>6, <3>1 DEF Recording, MutatePcs
  <2>8. CASE ~PerformRemove(t)
    <3>1. pc'[t] = "after"
      BY <2>4, <2>8, <1>p DEF PerformHang, PerformCall, PerformMark, PerformOther
    <3>. QED  BY <2>2, <2>3, <2>5, <2>6, <3>1 DEF Recording
  <2>. QED  BY <2>7, <2>8
<1>9. CASE Record(t)
  <2>1. cur[t] \in Actions /\ pc[t] = "after"
    BY <1>9, OnRule DEF Record, WalkPcs
  <2>2. called'[t] = called[t] \cup {Rule[cur[t]].pos} /\ UNCHANGED ran
    BY <1>9 DEF Record, CallOK
  <2>3. t \in ran[a] => Rule[a].pos \in called[t] \/ cur[t] = a
    BY <1>0, <2>1 DEF Recording
  <2>4. pc'[t] = "next"
    BY <1>9, <1>p DEF Record
  <2>. QED  BY <2>2, <2>3, <2>4
<1>. QED
  BY <1>1, <1>2, <1>3, <1>5, <1>6, <1>7, <1>8, <1>9
     DEF Walk, Advance, PerformHang, PerformCall, PerformMark, PerformOther, PerformRemove

\* A mutator comes back to the walk it left.
LEMMA MutateCalled ==
  ASSUME TypeOK, NEW m \in Mutators, Mutate(m), NEW t \in Threads, CalledOf(t)
  PROVE  CalledOf(t)'
<1>. USE DEF TypeOK
<1>m. t \in Mutators
  BY DEF Mutators
<1>1. UNCHANGED <<cur, called, ran, ret>>
  BY DEF Mutate, Empty, Wake, Destroy, Store, walk, call, mutate
<1>2. CASE t # m
  <2>1. pc'[t] = pc[t]
    BY <1>2, <1>m DEF Mutate, Empty, Wake, Destroy, Store, Goto, PcOK
  <2>. QED  BY <1>1, <2>1, UntouchedCalled DEF Untouched
<1>3. CASE t = m
  <2>1. pc[t] \in MutatePcs
    BY <1>3 DEF Mutate, Empty, Wake, Destroy, Store, MutatePcs
  <2>2. pc'[t] \in MutatePcs \/ pc'[t] = ret[t]
    BY <1>3, <1>m DEF Mutate, Empty, Wake, Destroy, Store, Goto, PcOK, MutatePcs
  <2>3. ret[t] \in {"idle", "after", "drop"}
    BY <1>m DEF PcOK
  <2>4. pc'[t] # "perform"
    BY <2>2, <2>3 DEF MutatePcs
  <2>5. ASSUME NEW a \in Actions, Recording(t, a)
        PROVE  Recording(t, a)'
    BY <1>1, <2>1, <2>2, <2>5 DEF Recording, MutatePcs
  <2>6. pc[t] \notin {"idle", "bypass", "finish"}
    BY <2>1 DEF MutatePcs
  <2>. QED  BY <1>1, <2>4, <2>5, <2>6 DEF CalledOf, PerCall
<1>. QED  BY <1>2, <1>3

\* The commands of the runtime thread leave the walkers alone.
LEMMA EditOthers ==
  ASSUME TypeOK, Edit, NEW t \in Threads
  PROVE  Untouched(t)
<1>. USE DEF TypeOK
<1>m. t \in Mutators /\ t # Runtime
  BY QueueAssumption DEF Mutators
<1>1. UNCHANGED <<cur, called, ran>>
  BY DEF Edit, RuntimeRemove, PutFree, PutCollide, PutReplace, List, ListRead, Show, walk, call
<1>2. pc'[t] = pc[t] /\ ret'[t] = ret[t]
  BY <1>m DEF Edit, RuntimeRemove, PutFree, PutCollide, PutReplace, List, ListRead, Show,
     StartRemove, NextLine, Goto, PcOK, mutate
<1>. QED  BY <1>1, <1>2 DEF Untouched

LEMMA PerformedCalledInductive ==
  /\ Init => PerformedCalled
  /\ TypeOK /\ PerformedCalled /\ [Next]_vars => PerformedCalled'
<1>1. Init => PerformedCalled
  BY DEF Init, PerformedCalled, CalledOf, Recording, MutatePcs, Mutators
<1>2. ASSUME TypeOK, PerformedCalled, [Next]_vars, NEW t \in Threads
      PROVE  CalledOf(t)'
  <2>0. CalledOf(t)
    BY <1>2 DEF PerformedCalled
  <2>1. CASE UNCHANGED vars
    BY <2>0, <2>1, UntouchedCalled DEF Untouched, vars, walk, call, mutate
  <2>2. ASSUME NEW m \in Mutators, Step(m) PROVE CalledOf(t)'
    <3>1. CASE Fault(m)
      BY <2>0, <3>1, UntouchedCalled DEF Untouched, Fault, walk, call, mutate
    <3>2. CASE ~Dangling(m) /\ m \in Threads /\ Walk(m)
      BY <1>2, <2>0, <3>2, WalkCalled, WalkOthers, UntouchedCalled
    <3>3. CASE Mutate(m)
      BY <1>2, <2>0, <3>3, MutateCalled
    <3>4. CASE Edit
      BY <1>2, <2>0, <3>4, EditOthers, UntouchedCalled
    <3>. QED  BY <2>2, <3>1, <3>2, <3>3, <3>4 DEF Step
  <2>. QED  BY <1>2, <2>1, <2>2 DEF Next
<1>. QED  BY <1>1, <1>2 DEF PerformedCalled

\* A do-once-per-call rule is performed at most once by a call, whatever gotos and execs bring
\* its walk back to the rule, and whatever the mutators do meanwhile (actions.h:86-87).
THEOREM PerCallOnceCorrect == Spec => PerCallOnce
<1>. DEFINE First == \A t \in Threads, a \in Actions :
                       Rule[a].mode = "do-once-per-call" /\ PerformsNow(t, a) => t \notin ran[a]
<1>1. PerformedCalled => First
  BY DEF PerformedCalled, CalledOf, PerCall, PerformsNow, Recording, MutatePcs
<1>2. PerformedCalled /\ [Next]_vars => [First]_vars
  BY <1>1
<1>. QED
  BY <1>2, TypeCorrect, PerformedCalledInductive, PTL DEF Spec, PerCallOnce
=============================================================================
