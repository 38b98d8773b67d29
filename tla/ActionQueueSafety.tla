------------------------- MODULE ActionQueueSafety -------------------------
(***************************************************************************)
(* The safety invariants of the rule queue, for any number of threads,     *)
(* sockets and lines: the table is never left with a dead rule in it, the  *)
(* counts of accessors are exact and no rule is freed under a walker.      *)
(* Then the promise of RuleTable, which the queue keeps with rules that do *)
(* not make sockets hang and as long as no line has two mutators: each     *)
(* step of the queue is a step of the rule table or leaves it alone.       *)
(***************************************************************************)
EXTENDS ActionQueueProofs

\* What a step of a walker may do to the program counters and to the removals.
LEMMA WalkShape ==
  ASSUME TypeOK, NEW t \in Threads, Walk(t)
  PROVE  /\ pc[t] \notin MutatePcs /\ pc'[t] \in ThreadPcs \cup {"empty"}
         /\ \A m \in Mutators : m # t =>
              /\ pc'[m] = pc[m] /\ tgt'[m] = tgt[m] /\ fresh'[m] = fresh[m] /\ ret'[m] = ret[m]
         /\ \/ pc'[t] \in ThreadPcs /\ UNCHANGED <<tgt, fresh, ret>>
            \/ pc'[t] = "empty" /\ fresh'[t] = None /\ pc[t] \in {"perform", "once"}
         /\ UNCHANGED table
<1>. USE DEF TypeOK, PcOK, MutateOK, Goto, mutate, ThreadPcs, WalkPcs, MutatePcs, Mutators
<1>1. CASE Begin(t) \/ Bypass(t) \/ Proceed(t) \/ Poll(t) \/ ResumeAtLine(t) \/ ResumeElsewhere(t)
  BY <1>1 DEF Begin, Bypass, Proceed, Poll, ResumeAtLine, ResumeElsewhere
<1>2. CASE Skip(t) \/ SkipNext(t) \/ Select(t) \/ Break(t) \/ Record(t) \/ Drop(t)
  BY <1>2 DEF Skip, SkipNext, Select, Break, Record, Drop, GotoRule
<1>3. CASE ResumeHang(t) \/ PerformHang(t) \/ PerformCall(t) \/ PerformMark(t) \/ PerformOther(t)
  BY <1>3 DEF ResumeHang, Performs, PerformHang, PerformCall, PerformMark, PerformOther
<1>4. CASE Follow(t)
  BY <1>4 DEF Follow
<1>5. CASE PerformRemove(t)
  BY <1>5 DEF PerformRemove, Performs, StartRemove
<1>6. CASE Once(t)
  BY <1>6 DEF Once, StartRemove
<1>7. CASE Finish(t)
  BY <1>7 DEF Finish
<1>. QED
  BY <1>1, <1>2, <1>3, <1>4, <1>5, <1>6, <1>7 DEF Walk, Advance

-----------------------------------------------------------------------------
(* The table.                                                               *)

\* A step that leaves the table alone, outside of the write-locked section, and
\* does not bring in a rule to store.
LEMMA QuietTable ==
  ASSUME TypeOK, TypeOK', TableInv, NEW m \in Mutators, UNCHANGED <<queue, status, writer>>,
         pc[m] # "store", pc'[m] # "store",
         \A n \in Mutators : n # m =>
           pc'[n] = pc[n] /\ tgt'[n] = tgt[n] /\ fresh'[n] = fresh[n],
         pc'[m] \in MutatePcs /\ fresh'[m] # None => pc[m] \in MutatePcs /\ fresh'[m] = fresh[m]
  PROVE  TableInv'
<1>. USE DEF TableInv
<1>1. WriterExact'
  BY DEF WriterExact
<1>2. EntriesLive'
  <2>1. writer # None => writer \in Mutators /\ writer # m
    BY DEF WriterExact, TypeOK, TableOK
  <2>. QED  BY <2>1 DEF EntriesLive
<1>3. EntriesUnique'
  BY DEF EntriesUnique
<1>4. FreshApart'
  BY DEF FreshApart
<1>. QED  BY <1>1, <1>2, <1>3, <1>4

\* A configuration file leaves one live rule on each of its lines.
LEMMA InitTable == Init => TableInv
<1>. SUFFICES ASSUME Init PROVE TableInv
  OBVIOUS
<1>1. PICK L \in Rulesets :
        /\ queue = [l \in Lines |-> IF \E a \in L : Rule[a].pos = l
                                    THEN CHOOSE a \in L : Rule[a].pos = l ELSE None]
        /\ status = [a \in Actions |-> IF a \in L THEN "live" ELSE "unused"]
  BY DEF Init
<1>2. L \subseteq Actions
  BY QueueAssumption
<1>3. \A l \in Lines : queue[l] # None => queue[l] \in L /\ Rule[queue[l]].pos = l
  BY <1>1
<1>4. \A m \in Mutators : pc[m] = "idle" /\ writer = None
  BY DEF Init
<1>5. writer \notin Mutators
  BY QueueAssumption DEF Init
<1>6. WriterExact
  BY <1>4, <1>5 DEF WriterExact
<1>7. EntriesLive
  BY <1>1, <1>2, <1>3 DEF EntriesLive
<1>8. EntriesUnique
  BY <1>3 DEF EntriesUnique
<1>9. FreshApart
  BY <1>4 DEF FreshApart, MutatePcs
<1>. QED  BY <1>6, <1>7, <1>8, <1>9 DEF TableInv

\* Destroying and storing a line.
LEMMA MutateTable ==
  ASSUME TypeOK, TypeOK', TableInv, NEW m \in Mutators, Mutate(m)
  PROVE  TableInv'
<1>. USE DEF TypeOK, PcOK, MutateOK, TableOK, MutatePcs, Goto, mutate
<1>n. None \notin Mutators /\ None \notin Actions
  BY QueueAssumption
<1>1. CASE Empty(m) \/ Wake(m)
  <2>1. /\ UNCHANGED <<queue, status, writer, tgt, fresh>>
        /\ pc[m] \in {"empty", "wait"} /\ pc'[m] \in {"wait", "destroy"}
        /\ \A n \in Mutators : n # m => pc'[n] = pc[n]
    BY <1>1 DEF Empty, Wake, table
  <2>. QED  BY <2>1, QuietTable
<1>2. CASE Destroy(m)
  <2>1. /\ writer = None /\ writer' = m /\ UNCHANGED <<queue, tgt, fresh>>
        /\ status' = [a \in Actions |-> IF a = queue[tgt[m]] THEN "freed" ELSE status[a]]
        /\ pc' = [pc EXCEPT ![m] = "store"] /\ pc[m] = "destroy"
    BY <1>2 DEF Destroy
  <2>2. WriterExact'
    BY <1>n, <2>1 DEF TableInv, WriterExact
  <2>3. EntriesLive'
    BY <1>n, <2>1 DEF TableInv, EntriesLive, EntriesUnique
  <2>4. EntriesUnique'
    BY <2>1 DEF TableInv, EntriesUnique
  <2>5. FreshApart'
    BY <2>1 DEF TableInv, FreshApart
  <2>. QED  BY <2>2, <2>3, <2>4, <2>5 DEF TableInv
<1>3. CASE Store(m)
  <2>1. /\ queue' = [queue EXCEPT ![tgt[m]] = fresh[m]] /\ writer' = None
        /\ UNCHANGED <<status, tgt, fresh>> /\ pc[m] = "store"
        /\ pc' = [pc EXCEPT ![m] = ret[m]]
    BY <1>3 DEF Store
  <2>2. ret[m] \notin MutatePcs /\ writer = m /\ tgt[m] \in Lines
    BY <2>1 DEF TableInv, WriterExact
  <2>3. WriterExact'
    BY <1>n, <2>1, <2>2 DEF TableInv, WriterExact
  <2>4. EntriesLive'
    BY <2>1, <2>2 DEF TableInv, EntriesLive, FreshApart
  <2>5. EntriesUnique'
    BY <2>1, <2>2 DEF TableInv, EntriesUnique, FreshApart
  <2>6. FreshApart'
    <3>1. ASSUME NEW n \in Mutators, pc'[n] \in MutatePcs, fresh'[n] # None
          PROVE  n = Runtime /\ status'[fresh'[n]] = "live" /\ n # m
      BY <2>1, <2>2, <3>1 DEF TableInv, FreshApart
    <3>2. ASSUME NEW n \in Mutators, pc'[n] \in MutatePcs, fresh'[n] # None, NEW l \in Lines
          PROVE  queue'[l] # fresh'[n]
      <4>1. fresh[m] = None
        BY <2>1, <3>1, <3>2 DEF TableInv, FreshApart
      <4>. QED  BY <2>1, <2>2, <3>1, <3>2, <4>1 DEF TableInv, FreshApart
    <3>. QED  BY <3>1, <3>2 DEF FreshApart
  <2>. QED  BY <2>3, <2>4, <2>5, <2>6 DEF TableInv
<1>. QED  BY <1>1, <1>2, <1>3 DEF Mutate

\* The commands of the runtime thread.
LEMMA EditTable ==
  ASSUME TypeOK, TypeOK', TableInv, Edit
  PROVE  TableInv'
<1>. USE DEF TypeOK, PcOK, MutateOK, TableOK, MutatePcs, Goto, mutate, table
<1>r. Runtime \in Mutators /\ None \notin Actions
  BY QueueAssumption DEF Mutators
<1>1. CASE RuntimeRemove \/ List \/ ListRead \/ Show
  <2>1. /\ UNCHANGED <<queue, status, writer>>
        /\ pc[Runtime] \notin MutatePcs /\ pc'[Runtime] # "store"
        /\ \A n \in Mutators : n # Runtime =>
             pc'[n] = pc[n] /\ tgt'[n] = tgt[n] /\ fresh'[n] = fresh[n]
        /\ pc'[Runtime] \in MutatePcs => fresh'[Runtime] = None
    BY <1>1, <1>r DEF RuntimeRemove, List, ListRead, Show, NextLine, Command, StartRemove
  <2>. QED  BY <1>r, <2>1, QuietTable
<1>2. ASSUME NEW a \in Actions, PutFree(a)
      PROVE  TableInv'
  <2>1. /\ writer = None /\ status[a] = "unused" /\ queue[Rule[a].pos] = None
        /\ queue' = [queue EXCEPT ![Rule[a].pos] = a]
        /\ status' = [status EXCEPT ![a] = "live"]
        /\ UNCHANGED <<writer, pc, tgt, fresh>>
    BY <1>2 DEF PutFree, Command
  <2>2. \A l \in Lines : queue[l] # a
    BY <1>r, <2>1 DEF TableInv, EntriesLive
  <2>3. Rule[a].pos \in Lines
    BY RuleFields
  <2>4. WriterExact' /\ EntriesLive' /\ EntriesUnique'
    BY <1>r, <2>1, <2>2, <2>3 DEF TableInv, WriterExact, EntriesLive, EntriesUnique
  <2>5. FreshApart'
    BY <1>r, <2>1, <2>3 DEF TableInv, FreshApart
  <2>. QED  BY <2>4, <2>5 DEF TableInv
<1>3. ASSUME NEW a \in Actions, PutCollide(a)
      PROVE  TableInv'
  <2>1. /\ writer = None /\ status[a] = "unused"
        /\ status' = [status EXCEPT ![a] = "freed"]
        /\ UNCHANGED <<queue, writer, pc, tgt, fresh>>
    BY <1>3 DEF PutCollide, Command
  <2>2. \A l \in Lines : queue[l] # a
    BY <1>r, <2>1 DEF TableInv, EntriesLive
  <2>3. WriterExact' /\ EntriesLive' /\ EntriesUnique'
    BY <1>r, <2>1, <2>2 DEF TableInv, WriterExact, EntriesLive, EntriesUnique
  <2>4. FreshApart'
    BY <1>r, <2>1 DEF TableInv, FreshApart
  <2>. QED  BY <2>3, <2>4 DEF TableInv
<1>4. ASSUME NEW a \in Actions, PutReplace(a)
      PROVE  TableInv'
  <2>1. /\ writer = None /\ status[a] = "unused" /\ pc[Runtime] = "idle"
        /\ status' = [status EXCEPT ![a] = "live"]
        /\ fresh' = [fresh EXCEPT ![Runtime] = a]
        /\ pc' = [pc EXCEPT ![Runtime] = "empty"]
        /\ UNCHANGED <<queue, writer>>
    BY <1>4 DEF PutReplace, Command
  <2>2. \A l \in Lines : queue[l] # a
    BY <1>r, <2>1 DEF TableInv, EntriesLive
  <2>3. WriterExact' /\ EntriesLive' /\ EntriesUnique'
    BY <1>r, <2>1, <2>2 DEF TableInv, WriterExact, EntriesLive, EntriesUnique
  <2>4. FreshApart'
    BY <1>r, <2>1, <2>2 DEF TableInv, FreshApart
  <2>. QED  BY <2>3, <2>4 DEF TableInv
<1>. QED  BY <1>1, <1>2, <1>3, <1>4 DEF Edit

\* The invariant of the table is inductive.
LEMMA NextTable == TypeOK /\ TypeOK' /\ TableInv /\ [Next]_vars => TableInv'
<1>. SUFFICES ASSUME TypeOK, TypeOK', TableInv, [Next]_vars PROVE TableInv'
  OBVIOUS
<1>. USE DEF TableInv, WriterExact, EntriesLive, EntriesUnique, FreshApart
<1>1. CASE UNCHANGED vars
  BY <1>1 DEF vars, table, mutate
<1>2. ASSUME NEW m \in Mutators, Step(m)
      PROVE  TableInv'
  <2>1. CASE Fault(m)
    BY <2>1 DEF Fault, table, mutate
  <2>2. CASE m \in Threads /\ Walk(m)
    <3>1. /\ UNCHANGED <<queue, status, writer>>
          /\ pc[m] # "store" /\ pc'[m] # "store"
          /\ \A n \in Mutators : n # m =>
               pc'[n] = pc[n] /\ tgt'[n] = tgt[n] /\ fresh'[n] = fresh[n]
          /\ pc'[m] \in MutatePcs => fresh'[m] = None
      BY <2>2, WalkShape DEF ThreadPcs, WalkPcs, MutatePcs, table
    <3>. QED  BY <3>1, QuietTable
  <2>3. CASE Mutate(m)
    BY <2>3, MutateTable
  <2>4. CASE Edit
    BY <2>4, EditTable
  <2>. QED  BY <1>2, <2>1, <2>2, <2>3, <2>4 DEF Step
<1>. QED  BY <1>1, <1>2 DEF Next

\* TableInv is an invariant of the queue whatever the rules do.
LEMMA TableInvariant == Spec => []TableInv
<1>1. TypeOK /\ TypeOK' /\ TableInv /\ [Next]_vars => TableInv'
  BY NextTable
<1>. QED  BY InitTable, <1>1, TypeCorrect, PTL DEF Spec

\* Outside of the write-locked sections the table holds live rules only, each on
\* one line: with any number of mutators of one line at once, and whatever the
\* counts of accessors say, a search under the read lock meets no freed rule.
THEOREM TableLiveCorrect == Spec => []TableLive
<1>1. TableInv => TableLive
  BY DEF TableInv, EntriesLive, EntriesUnique, TableLive
<1>. QED  BY <1>1, TableInvariant, PTL

-----------------------------------------------------------------------------
(* The counts of accessors.                                                 *)

\* A count is a natural number, and a count of zero means nobody.
LEMMA CountNat ==
  ASSUME NEW f, NEW a
  PROVE  /\ IsFiniteSet(On(f, a)) /\ Cardinality(On(f, a)) \in Nat
         /\ Cardinality(On(f, a)) = 0 => \A t \in Threads : f[t] # a
<1>1. IsFiniteSet(On(f, a))
  BY QueueAssumption, FS_Subset DEF On
<1>2. Cardinality(On(f, a)) = 0 => On(f, a) = {}
  BY <1>1, FS_EmptySet
<1>. QED  BY <1>1, <1>2, FS_CardinalityType DEF On

\* Pointing one thread to another rule moves one unit between two counts.
LEMMA CountChange ==
  ASSUME NEW f, NEW g, NEW t \in Threads, NEW a, \A u \in Threads \ {t} : g[u] = f[u]
  PROVE  /\ g[t] = a /\ f[t] # a => Cardinality(On(g, a)) = Cardinality(On(f, a)) + 1
         /\ g[t] # a /\ f[t] = a => Cardinality(On(g, a)) = Cardinality(On(f, a)) - 1
         /\ g[t] # a /\ f[t] # a => Cardinality(On(g, a)) = Cardinality(On(f, a))
         /\ g[t] = a /\ f[t] = a => Cardinality(On(g, a)) = Cardinality(On(f, a))
<1>1. ASSUME g[t] = a, f[t] # a
      PROVE  Cardinality(On(g, a)) = Cardinality(On(f, a)) + 1
  <2>1. t \notin On(f, a) /\ On(g, a) = On(f, a) \cup {t}
    BY <1>1 DEF On
  <2>. QED  BY <2>1, CountNat, FS_AddElement
<1>2. ASSUME g[t] # a, f[t] = a
      PROVE  Cardinality(On(g, a)) = Cardinality(On(f, a)) - 1
  <2>1. t \in On(f, a) /\ On(g, a) = On(f, a) \ {t}
    BY <1>2 DEF On
  <2>. QED  BY <2>1, CountNat, FS_RemoveElement
<1>3. (g[t] = a <=> f[t] = a) => On(g, a) = On(f, a)
  BY DEF On
<1>. QED  BY <1>1, <1>2, <1>3

\* A thread of f goes from rule x to rule y: the counts of the two rules change.
Moves(f, g, x, y) ==
  \A a \in Actions :
    /\ y = a /\ x # a => Cardinality(On(g, a)) = Cardinality(On(f, a)) + 1
    /\ y # a /\ x = a => Cardinality(On(g, a)) = Cardinality(On(f, a)) - 1
    /\ y # a /\ x # a => Cardinality(On(g, a)) = Cardinality(On(f, a))
    /\ y = a /\ x = a => Cardinality(On(g, a)) = Cardinality(On(f, a))

LEMMA CountMoves ==
  ASSUME NEW f, NEW g, NEW t \in Threads, \A u \in Threads \ {t} : g[u] = f[u]
  PROVE  Moves(f, g, f[t], g[t])
<1>. SUFFICES ASSUME NEW a \in Actions
     PROVE /\ g[t] = a /\ f[t] # a => Cardinality(On(g, a)) = Cardinality(On(f, a)) + 1
           /\ g[t] # a /\ f[t] = a => Cardinality(On(g, a)) = Cardinality(On(f, a)) - 1
           /\ g[t] # a /\ f[t] # a => Cardinality(On(g, a)) = Cardinality(On(f, a))
           /\ g[t] = a /\ f[t] = a => Cardinality(On(g, a)) = Cardinality(On(f, a))
  BY DEF Moves
<1>. QED  BY CountChange

\* What the walkers hold of a rule.
Held(a) == Cardinality(On(cur, a)) + Cardinality(On(nxt, a))

\* A walker that holds nothing takes the rule its search returned.
LEMMA TakeFirst ==
  ASSUME TypeOK, AccessorsExact, NEW b \in Actions \cup {None},
         Moves(cur, cur', None, b), UNCHANGED nxt, Lock(b)
  PROVE  AccessorsExact'
<1>. SUFFICES ASSUME NEW a \in Actions PROVE accessors'[a] = Held(a)'
  BY DEF AccessorsExact, Held
<1>1. /\ Cardinality(On(cur, a)) \in Nat /\ Cardinality(On(nxt, a)) \in Nat
      /\ accessors[a] = Held(a)
  BY CountNat DEF AccessorsExact, Held
<1>2. None # a
  BY QueueAssumption
<1>3. CASE b = a
  <2>1. accessors'[a] = accessors[a] + 1
    BY <1>3, QueueAssumption DEF Lock, TypeOK, CountsOK
  <2>2. Cardinality(On(cur', a)) = Cardinality(On(cur, a)) + 1
    BY <1>2, <1>3 DEF Moves
  <2>. QED  BY <1>1, <2>1, <2>2 DEF Held
<1>4. CASE b # a
  <2>1. accessors'[a] = accessors[a]
    BY <1>4 DEF Lock, TypeOK, CountsOK
  <2>2. Cardinality(On(cur', a)) = Cardinality(On(cur, a))
    BY <1>2, <1>4 DEF Moves
  <2>. QED  BY <1>1, <2>1, <2>2 DEF Held
<1>. QED  BY <1>3, <1>4

\* A walker takes the next rule while it holds the current one.
LEMMA TakeNext ==
  ASSUME TypeOK, AccessorsExact, NEW b \in Actions \cup {None},
         Moves(nxt, nxt', None, b), UNCHANGED cur, Lock(b)
  PROVE  AccessorsExact'
<1>. SUFFICES ASSUME NEW a \in Actions PROVE accessors'[a] = Held(a)'
  BY DEF AccessorsExact, Held
<1>1. /\ Cardinality(On(cur, a)) \in Nat /\ Cardinality(On(nxt, a)) \in Nat
      /\ accessors[a] = Held(a)
  BY CountNat DEF AccessorsExact, Held
<1>2. None # a
  BY QueueAssumption
<1>3. CASE b = a
  <2>1. accessors'[a] = accessors[a] + 1
    BY <1>3, QueueAssumption DEF Lock, TypeOK, CountsOK
  <2>2. Cardinality(On(nxt', a)) = Cardinality(On(nxt, a)) + 1
    BY <1>2, <1>3 DEF Moves
  <2>. QED  BY <1>1, <2>1, <2>2 DEF Held
<1>4. CASE b # a
  <2>1. accessors'[a] = accessors[a]
    BY <1>4 DEF Lock, TypeOK, CountsOK
  <2>2. Cardinality(On(nxt', a)) = Cardinality(On(nxt, a))
    BY <1>2, <1>4 DEF Moves
  <2>. QED  BY <1>1, <2>1, <2>2 DEF Held
<1>. QED  BY <1>3, <1>4

\* A walker lets go of its rule x and goes on with the next one, y, or with none:
\* the accessor of y moves from nxt to cur.
LEMMA LetGo ==
  ASSUME TypeOK, AccessorsExact, NEW x \in Actions, NEW y, Unlock(x),
         Moves(cur, cur', x, y), Moves(nxt, nxt', y, None)
  PROVE  AccessorsExact'
<1>. SUFFICES ASSUME NEW a \in Actions PROVE accessors'[a] = Held(a)'
  BY DEF AccessorsExact, Held
<1>1. /\ Cardinality(On(cur, a)) \in Nat /\ Cardinality(On(nxt, a)) \in Nat
      /\ accessors[a] = Held(a)
  BY CountNat DEF AccessorsExact, Held
<1>2. None # a
  BY QueueAssumption
<1>3. /\ x = a => accessors'[a] = accessors[a] - 1
      /\ x # a => accessors'[a] = accessors[a]
  BY DEF Unlock, TypeOK, CountsOK
<1>4. CASE y = a
  <2>1. Cardinality(On(nxt', a)) = Cardinality(On(nxt, a)) - 1
    BY <1>2, <1>4 DEF Moves
  <2>2. /\ x = a => Cardinality(On(cur', a)) = Cardinality(On(cur, a))
        /\ x # a => Cardinality(On(cur', a)) = Cardinality(On(cur, a)) + 1
    BY <1>4 DEF Moves
  <2>. QED  BY <1>1, <1>3, <2>1, <2>2 DEF Held
<1>5. CASE y # a
  <2>1. Cardinality(On(nxt', a)) = Cardinality(On(nxt, a))
    BY <1>2, <1>5 DEF Moves
  <2>2. /\ x = a => Cardinality(On(cur', a)) = Cardinality(On(cur, a)) - 1
        /\ x # a => Cardinality(On(cur', a)) = Cardinality(On(cur, a))
    BY <1>5 DEF Moves
  <2>. QED  BY <1>1, <1>3, <2>1, <2>2 DEF Held
<1>. QED  BY <1>4, <1>5

\* The counts start at zero, with no thread on a rule.
LEMMA InitCount == Init => CountInv
<1>. SUFFICES ASSUME Init PROVE CountInv
  OBVIOUS
<1>1. HoldShape /\ NoneHanging
  BY DEF Init, HoldShape, NoneHanging
<1>2. \A a \in Actions : On(cur, a) = {} /\ On(nxt, a) = {}
  BY QueueAssumption DEF Init, On
<1>3. Cardinality({}) = 0
  BY FS_EmptySet
<1>4. ASSUME NEW a \in Actions PROVE accessors[a] = Cardinality(On(cur, a)) + Cardinality(On(nxt, a))
  <2>1. accessors[a] = 0
    BY DEF Init
  <2>2. On(cur, a) = {} /\ On(nxt, a) = {}
    BY <1>2
  <2>. QED  BY <1>3, <2>1, <2>2
<1>. QED  BY <1>1, <1>4 DEF CountInv, AccessorsExact

\* The walkers keep the counts, as long as no rule makes a socket hang.
LEMMA WalkCount ==
  ASSUME NoHang, TypeOK, CountInv, NEW t \in Threads, ~Dangling(t), Walk(t)
  PROVE  CountInv'
<1>. USE DEF CountInv
<1>h. ~Suspended(t) /\ sock[t] \in Sockets
  BY DEF Suspended, NoneHanging, TypeOK, CallOK
<1>s. HoldShape'
  <2>. USE DEF HoldShape, Goto, TypeOK, WalkOK, PcOK, MutatePcs, ThreadPcs, WalkPcs, Mutators,
               walk, mutate
  <2>1. CASE Begin(t)
    BY <2>1 DEF Begin
  <2>2. CASE SkipNext(t)
    BY <2>2 DEF SkipNext, GotoRule
  <2>3. CASE Bypass(t) \/ Proceed(t) \/ Skip(t) \/ Select(t) \/ Break(t) \/ Record(t)
    BY <2>3 DEF Bypass, Proceed, Skip, Select, Break, Record
  <2>4. CASE PerformHang(t) \/ PerformCall(t) \/ PerformMark(t) \/ PerformOther(t)
    BY <2>4 DEF Performs, PerformHang, PerformCall, PerformMark, PerformOther
  <2>5. CASE PerformRemove(t)
    BY <2>5 DEF Performs, PerformRemove, StartRemove
  <2>6. CASE Follow(t)
    BY <2>6 DEF Follow
  <2>7. CASE Once(t)
    BY <2>7 DEF Once, StartRemove
  <2>8. CASE Drop(t)
    BY <2>8 DEF Drop, GotoRule
  <2>9. ~Poll(t) /\ ~ResumeAtLine(t) /\ ~ResumeElsewhere(t) /\ ~ResumeHang(t)
    BY <1>h DEF Poll, ResumeAtLine, ResumeElsewhere, ResumeHang
  <2>10. CASE Finish(t)
    BY <2>10 DEF Finish
  <2>. QED
    BY <2>1, <2>2, <2>3, <2>4, <2>5, <2>6, <2>7, <2>8, <2>9, <2>10 DEF Walk, Advance
<1>n. NoneHanging'
  <2>1. CASE UNCHANGED hanging
    BY <2>1 DEF NoneHanging
  <2>2. CASE Unhang(t)
    BY <1>h, <2>2, <2>1 DEF Unhang
  <2>3. ~PerformHang(t)
    BY OnRule DEF PerformHang, Performs, WalkPcs, NoHang
  <2>. QED
    BY <1>h, <2>1, <2>2, <2>3 DEF Walk, Advance, sockets, Begin, Bypass, Proceed, Poll,
       ResumeAtLine, ResumeElsewhere, ResumeHang, Skip, SkipNext, Select, PerformCall,
       PerformMark, PerformOther, PerformRemove, Break, Record, Follow, Once, Drop, Finish
<1>a. AccessorsExact'
  <2>1. CASE UNCHANGED <<cur, nxt, accessors>>
    BY <2>1 DEF AccessorsExact, On
  <2>2. CASE Begin(t)
    <3>1. PICK a \in Matches(0, FALSE) : cur' = [cur EXCEPT ![t] = Admit(a)] /\ Lock(Admit(a))
      BY <2>2 DEF Begin
    <3>2. a # None => \E l \in Lines : queue[l] = a
      BY MatchesInTable
    <3>3. Admit(a) \in Actions \cup {None}
      BY <3>2, AdmitType DEF TypeOK
    <3>4. cur[t] = None /\ UNCHANGED nxt
      BY <2>2 DEF Begin, HoldShape
    <3>5. cur'[t] = Admit(a) /\ \A u \in Threads \ {t} : cur'[u] = cur[u]
      BY <3>1 DEF TypeOK, WalkOK
    <3>6. Moves(cur, cur', None, Admit(a))
      BY <3>4, <3>5, CountMoves
    <3>. QED  BY <3>1, <3>3, <3>4, <3>6, TakeFirst
  <2>3. CASE SkipNext(t)
    <3>1. PICK a \in Matches(Rule[stale[t]].pos + 1, TRUE) :
            cur' = [cur EXCEPT ![t] = Admit(a)] /\ Lock(Admit(a))
      BY <2>3 DEF SkipNext
    <3>2. a # None => \E l \in Lines : queue[l] = a
      BY MatchesInTable
    <3>3. Admit(a) \in Actions \cup {None}
      BY <3>2, AdmitType DEF TypeOK
    <3>4. cur[t] = None /\ UNCHANGED nxt
      BY <2>3 DEF SkipNext, HoldShape
    <3>5. cur'[t] = Admit(a) /\ \A u \in Threads \ {t} : cur'[u] = cur[u]
      BY <3>1 DEF TypeOK, WalkOK
    <3>6. Moves(cur, cur', None, Admit(a))
      BY <3>4, <3>5, CountMoves
    <3>. QED  BY <3>1, <3>3, <3>4, <3>6, TakeFirst
  <2>4. CASE Follow(t)
    <3>1. PICK a \in Followers(cur[t]) : nxt' = [nxt EXCEPT ![t] = Admit(a)] /\ Lock(Admit(a))
      BY <2>4 DEF Follow
    <3>2. a # None => \E l \in Lines : queue[l] = a
      BY <2>4, OnRule, FollowersInTable DEF Follow, WalkPcs
    <3>3. Admit(a) \in Actions \cup {None}
      BY <3>2, AdmitType DEF TypeOK
    <3>4. nxt[t] = None /\ UNCHANGED cur
      BY <2>4 DEF Follow, HoldShape, MutatePcs
    <3>5. nxt'[t] = Admit(a) /\ \A u \in Threads \ {t} : nxt'[u] = nxt[u]
      BY <3>1 DEF TypeOK, WalkOK
    <3>6. Moves(nxt, nxt', None, Admit(a))
      BY <3>4, <3>5, CountMoves
    <3>. QED  BY <3>1, <3>3, <3>4, <3>6, TakeNext
  <2>5. CASE Drop(t)
    <3>1. cur[t] \in Actions /\ Unlock(cur[t])
      BY <2>5, OnRule DEF Drop, WalkPcs
    <3>2. /\ cur'[t] = nxt[t] /\ \A u \in Threads \ {t} : cur'[u] = cur[u]
          /\ nxt'[t] = None /\ \A u \in Threads \ {t} : nxt'[u] = nxt[u]
      BY <2>5 DEF Drop, TypeOK, WalkOK
    <3>3. Moves(cur, cur', cur[t], nxt[t]) /\ Moves(nxt, nxt', nxt[t], None)
      BY <3>2, CountMoves
    <3>. QED  BY <3>1, <3>3, LetGo
  <2>6. CASE Skip(t) \/ Break(t)
    <3>1. cur[t] \in Actions /\ Unlock(cur[t])
      BY <2>6, OnRule DEF Skip, Break, WalkPcs
    <3>2. nxt[t] = None /\ UNCHANGED nxt
      BY <2>6 DEF Skip, Break, HoldShape, MutatePcs
    <3>3. cur'[t] = None /\ \A u \in Threads \ {t} : cur'[u] = cur[u]
      BY <2>6 DEF Skip, Break, TypeOK, WalkOK
    <3>4. Moves(cur, cur', cur[t], None)
      BY <3>3, CountMoves
    <3>5. Moves(nxt, nxt', None, None)
      BY <3>2, CountMoves
    <3>. QED  BY <3>1, <3>4, <3>5, LetGo
  <2>7. CASE ~(Begin(t) \/ SkipNext(t) \/ Follow(t) \/ Drop(t) \/ Skip(t) \/ Break(t))
    BY <1>h, <2>1, <2>7 DEF Walk, Advance, counts, walk, Bypass, Proceed, Poll, ResumeAtLine,
       ResumeElsewhere, Select, ResumeHang, PerformHang, PerformCall, PerformMark, PerformOther,
       PerformRemove, Record, Once, Finish
  <2>. QED  BY <2>2, <2>3, <2>4, <2>5, <2>6, <2>7
<1>. QED  BY <1>s, <1>n, <1>a

\* Mutators and commands hold no rule and end on "idle", "after" or "drop".
LEMMA MutateCount ==
  ASSUME TypeOK, CountInv, NEW m \in Mutators, Mutate(m)
  PROVE  CountInv'
<1>1. UNCHANGED <<cur, nxt, accessors, hanging, ret>> /\ pc[m] \in MutatePcs
  BY DEF Mutate, Empty, Wake, Destroy, Store, MutatePcs, counts, walk, sockets, mutate
<1>2. \E p \in MutatePcs \cup {ret[m]} : Goto(m, p)
  BY DEF Mutate, Empty, Wake, Destroy, Store, MutatePcs, mutate
<1>3. HoldShape'
  <2>1. PICK p \in MutatePcs \cup {ret[m]} : pc' = [pc EXCEPT ![m] = p]
    BY <1>2 DEF Goto
  <2>2. ASSUME NEW t \in Threads
        PROVE  /\ pc'[t] \in {"idle", "bypass", "skipped", "finish"} => cur'[t] = None
               /\ nxt'[t] # None => \/ pc'[t] \in {"once", "drop"}
                                    \/ pc'[t] \in MutatePcs /\ ret'[t] = "drop"
    <3>1. CASE t # m
      BY <1>1, <2>1, <3>1 DEF CountInv, HoldShape
    <3>2. CASE t = m
      <4>1. ret[t] \in {"after", "drop"} /\ pc'[t] = p
        BY <1>1, <2>1, <3>2 DEF TypeOK, PcOK
      <4>2. nxt[t] # None => ret[t] = "drop"
        BY <1>1, <3>2 DEF CountInv, HoldShape, MutatePcs
      <4>. QED  BY <1>1, <2>1, <3>2, <4>1, <4>2 DEF MutatePcs
    <3>. QED  BY <3>1, <3>2
  <2>. QED  BY <2>2 DEF HoldShape
<1>. QED  BY <1>1, <1>3 DEF CountInv, NoneHanging, AccessorsExact, On

LEMMA EditCount ==
  ASSUME TypeOK, CountInv, Edit
  PROVE  CountInv'
<1>1. /\ UNCHANGED <<cur, nxt, accessors, hanging>>
      /\ \A t \in Threads : pc'[t] = pc[t] /\ ret'[t] = ret[t]
  BY QueueAssumption DEF Edit, RuntimeRemove, PutFree, PutCollide, PutReplace, List, ListRead,
     Show, NextLine, StartRemove, Goto, counts, walk, sockets, mutate, TypeOK, PcOK, Mutators
<1>. QED  BY <1>1 DEF CountInv, HoldShape, NoneHanging, AccessorsExact, On

LEMMA NextCount == NoHang /\ TypeOK /\ CountInv /\ [Next]_vars => CountInv'
<1>. SUFFICES ASSUME NoHang, TypeOK, CountInv, [Next]_vars PROVE CountInv'
  OBVIOUS
<1>1. CASE UNCHANGED <<counts, pc, walk, call, sockets, mutate>>
  BY <1>1 DEF counts, walk, sockets, mutate, CountInv, HoldShape, NoneHanging, AccessorsExact, On
<1>2. ASSUME NEW m \in Mutators, Step(m)
      PROVE  CountInv'
  BY <1>1, <1>2, WalkCount, MutateCount, EditCount DEF Step, Fault
<1>. QED  BY <1>1, <1>2 DEF Next, vars

LEMMA CountInvariant == ASSUME NoHang PROVE Spec => []CountInv
<1>1. TypeOK /\ CountInv /\ [Next]_vars => CountInv'
  BY NextCount
<1>. QED  BY InitCount, <1>1, TypeCorrect, PTL DEF Spec

\* With rules that do not make sockets hang, the count of accessors of a rule is
\* what the walkers hold, whatever edits the queue: LOCK_ACTION and UNLOCK_ACTION
\* are balanced on every path of ActionQueue_process.
THEOREM AccessorsExactCorrect == ASSUME NoHang PROVE Spec => []AccessorsExact
<1>1. CountInv => AccessorsExact
  BY DEF CountInv
<1>. QED  BY <1>1, CountInvariant, PTL

-----------------------------------------------------------------------------
(* The rules the walkers hold.                                              *)

\* A rule with a count of zero is on no walker.
LEMMA NobodyOn ==
  ASSUME AccessorsExact, NEW a \in Actions, accessors[a] = 0, NEW t \in Threads
  PROVE  cur[t] # a /\ nxt[t] # a
<1>1. /\ Cardinality(On(cur, a)) \in Nat /\ Cardinality(On(nxt, a)) \in Nat
      /\ Cardinality(On(cur, a)) + Cardinality(On(nxt, a)) = 0
  BY CountNat DEF AccessorsExact
<1>2. Cardinality(On(cur, a)) = 0 /\ Cardinality(On(nxt, a)) = 0
  BY <1>1
<1>. QED  BY <1>2, CountNat

\* What a search hands out under the read lock is live.
LEMMA AdmitLive ==
  ASSUME TypeOK, TableInv, writer = None, NEW a, a # None => \E l \in Lines : queue[l] = a,
         Admit(a) # None
  PROVE  Admit(a) = a /\ a \in Actions /\ status[a] = "live" /\ ~emptying[a]
  BY DEF TypeOK, TableOK, TableInv, EntriesLive, Admit

\* A step of a walker that points it only to live rules, and takes no accessor on
\* a rule that is being emptied.
LEMMA QuietHold ==
  ASSUME TypeOK, HoldInv, NEW t \in Threads, Walk(t),
         \A u \in Threads : \A a \in Holding(u)' : a \in Holding(u) \/ status[a] = "live",
         \A a \in Actions : emptying[a] /\ accessors[a] = 0 => accessors'[a] = accessors[a]
  PROVE  HoldInv'
<1>1. HeldRulesLive'
  BY WalkShape DEF HoldInv, HeldRulesLive, table
<1>2. ASSUME NEW m \in Mutators, pc'[m] \in {"wait", "destroy"}
      PROVE  m # t /\ pc[m] = pc'[m] /\ tgt'[m] = tgt[m] /\ tgt[m] \in Lines
  BY <1>2, WalkShape DEF ThreadPcs, WalkPcs, TypeOK, MutateOK
<1>3. UNCHANGED <<queue, emptying>>
  BY WalkShape DEF table
<1>4. EmptiedStays'
  BY <1>2, <1>3 DEF HoldInv, EmptiedStays, TypeOK, TableOK
<1>. QED  BY <1>1, <1>4 DEF HoldInv

\* Without a hang, every walker keeps the rules it holds live.
LEMMA WalkHold ==
  ASSUME NoHang, TypeOK, TableInv, CountInv, HoldInv, NEW t \in Threads, ~Dangling(t), Walk(t)
  PROVE  HoldInv'
<1>h. ~Suspended(t)
  BY DEF CountInv, Suspended, NoneHanging, TypeOK, CallOK
<1>l. ASSUME NEW b \in Actions \cup {None}, Lock(b), b # None => ~emptying[b]
      PROVE  \A a \in Actions : emptying[a] => accessors'[a] = accessors[a]
  BY <1>l DEF Lock, TypeOK, CountsOK
<1>1. CASE UNCHANGED <<cur, nxt, accessors>>
  BY <1>1, QuietHold DEF Holding
<1>2. CASE Begin(t) \/ SkipNext(t)
  <2>1. \E from, matched : \E a \in Matches(from, matched) :
          cur' = [cur EXCEPT ![t] = Admit(a)] /\ Lock(Admit(a))
    BY <1>2 DEF Begin, SkipNext
  <2>2. PICK from, matched : \E a \in Matches(from, matched) :
          cur' = [cur EXCEPT ![t] = Admit(a)] /\ Lock(Admit(a))
    BY <2>1
  <2>3. PICK a \in Matches(from, matched) : cur' = [cur EXCEPT ![t] = Admit(a)] /\ Lock(Admit(a))
    BY <2>2
  <2>4. writer = None /\ UNCHANGED nxt
    BY <1>2 DEF Begin, SkipNext
  <2>5. Admit(a) # None => Admit(a) \in Actions /\ status[Admit(a)] = "live" /\ ~emptying[Admit(a)]
    BY <2>4, MatchesInTable, AdmitLive
  <2>6. \A u \in Threads : \A c \in Holding(u)' : c \in Holding(u) \/ status[c] = "live"
    BY <2>3, <2>4, <2>5 DEF Holding, TypeOK, WalkOK
  <2>. QED  BY <1>l, <2>3, <2>5, <2>6, QuietHold
<1>3. CASE Follow(t)
  <2>1. PICK a \in Followers(cur[t]) : nxt' = [nxt EXCEPT ![t] = Admit(a)] /\ Lock(Admit(a))
    BY <1>3 DEF Follow
  <2>2. writer = None /\ UNCHANGED cur /\ cur[t] \in Actions
    BY <1>3, OnRule DEF Follow, WalkPcs
  <2>3. Admit(a) # None => Admit(a) \in Actions /\ status[Admit(a)] = "live" /\ ~emptying[Admit(a)]
    BY <2>2, FollowersInTable, AdmitLive
  <2>4. \A u \in Threads : \A c \in Holding(u)' : c \in Holding(u) \/ status[c] = "live"
    BY <2>1, <2>2, <2>3 DEF Holding, TypeOK, WalkOK
  <2>. QED  BY <1>l, <2>1, <2>3, <2>4, QuietHold
<1>4. CASE Skip(t) \/ Break(t) \/ Drop(t)
  <2>1. cur[t] \in Actions /\ Unlock(cur[t])
    BY <1>4, OnRule DEF Skip, Break, Drop, WalkPcs
  <2>2. accessors[cur[t]] # 0
    BY <2>1, NobodyOn DEF CountInv
  <2>3. \A a \in Actions : emptying[a] /\ accessors[a] = 0 => accessors'[a] = accessors[a]
    BY <2>1, <2>2 DEF Unlock, TypeOK, CountsOK
  <2>4. \A u \in Threads : \A a \in Holding(u)' : a \in Holding(u)
    BY <1>4 DEF Skip, Break, Drop, Holding, TypeOK, WalkOK
  <2>. QED  BY <2>3, <2>4, QuietHold
<1>5. CASE ~(Begin(t) \/ SkipNext(t) \/ Follow(t) \/ Drop(t) \/ Skip(t) \/ Break(t))
  BY <1>h, <1>1, <1>5 DEF Walk, Advance, counts, walk, Bypass, Proceed, Poll, ResumeAtLine,
     ResumeElsewhere, Select, ResumeHang, PerformHang, PerformCall, PerformMark, PerformOther,
     PerformRemove, Record, Once, Finish
<1>. QED  BY <1>2, <1>3, <1>4, <1>5

\* A rule is destroyed when nobody holds it; a line that is being emptied is not
\* stored by somebody else.
LEMMA MutateHold ==
  ASSUME TypeOK, CountInv, HoldInv, OneMutatorPerLine, NEW m \in Mutators, ~Dangling(m), Mutate(m)
  PROVE  HoldInv'
<1>. USE DEF TypeOK, PcOK, MutateOK, TableOK, CountsOK, MutatePcs, Goto
<1>c. \A t \in Threads : Holding(t)' = Holding(t)
  BY DEF Mutate, Empty, Wake, Destroy, Store, walk, Holding
<1>1. CASE Empty(m)
  <2>1. queue[tgt[m]] \in Actions /\ queue[tgt[m]] # None
    BY <1>1, OnLine, QueueAssumption DEF Empty
  <2>2. accessors[queue[tgt[m]]] \in Nat
    BY <2>1, CountNat DEF CountInv, AccessorsExact
  <2>3. /\ emptying' = [emptying EXCEPT ![queue[tgt[m]]] = TRUE]
        /\ pc' = [pc EXCEPT ![m] = IF accessors[queue[tgt[m]]] > 0 THEN "wait" ELSE "destroy"]
        /\ UNCHANGED <<queue, status, tgt, accessors>>
    BY <1>1 DEF Empty, counts
  <2>4. HeldRulesLive'
    BY <1>c, <2>3 DEF HoldInv, HeldRulesLive
  <2>5. EmptiedStays'
    BY <2>1, <2>2, <2>3 DEF HoldInv, EmptiedStays
  <2>. QED  BY <2>4, <2>5 DEF HoldInv
<1>2. CASE Wake(m)
  <2>1. queue[tgt[m]] \in Actions
    BY <1>2, OnLine DEF Wake
  <2>2. accessors[queue[tgt[m]]] \in Nat
    BY <2>1, CountNat DEF CountInv, AccessorsExact
  <2>3. /\ pc' = [pc EXCEPT ![m] = IF accessors[queue[tgt[m]]] > 0 THEN "wait" ELSE "destroy"]
        /\ UNCHANGED <<queue, status, emptying, tgt, accessors>> /\ pc[m] = "wait"
    BY <1>2 DEF Wake, table
  <2>4. HeldRulesLive'
    BY <1>c, <2>3 DEF HoldInv, HeldRulesLive
  <2>5. EmptiedStays'
    BY <2>1, <2>2, <2>3 DEF HoldInv, EmptiedStays
  <2>. QED  BY <2>4, <2>5 DEF HoldInv
<1>3. CASE Destroy(m)
  <2>1. /\ pc[m] = "destroy" /\ pc' = [pc EXCEPT ![m] = "store"]
        /\ status' = [a \in Actions |-> IF a = queue[tgt[m]] THEN "freed" ELSE status[a]]
        /\ UNCHANGED <<queue, emptying, tgt, accessors>>
    BY <1>3 DEF Destroy, counts, mutate
  <2>2. queue[tgt[m]] \in Actions /\ accessors[queue[tgt[m]]] = 0
    BY <2>1 DEF HoldInv, EmptiedStays
  <2>3. \A t \in Threads : queue[tgt[m]] \notin Holding(t)
    BY <2>2, NobodyOn DEF CountInv, Holding
  <2>4. \A t \in Threads : Holding(t) \subseteq Actions
    BY DEF Holding, WalkOK
  <2>5. HeldRulesLive'
    BY <1>c, <2>1, <2>3, <2>4 DEF HoldInv, HeldRulesLive
  <2>6. EmptiedStays'
    BY <2>1 DEF HoldInv, EmptiedStays
  <2>. QED  BY <2>5, <2>6 DEF HoldInv
<1>4. CASE Store(m)
  <2>1. /\ queue' = [queue EXCEPT ![tgt[m]] = fresh[m]] /\ pc[m] = "store"
        /\ pc' = [pc EXCEPT ![m] = ret[m]] /\ UNCHANGED <<status, emptying, tgt, accessors>>
    BY <1>4 DEF Store, counts, mutate
  <2>2. HeldRulesLive'
    BY <1>c, <2>1 DEF HoldInv, HeldRulesLive
  <2>3. ASSUME NEW n \in Mutators, pc'[n] \in {"wait", "destroy"}
        PROVE  pc[n] = pc'[n] /\ tgt[n] # tgt[m]
    BY <2>1, <2>3 DEF OneMutatorPerLine
  <2>4. EmptiedStays'
    BY <2>1, <2>3 DEF HoldInv, EmptiedStays
  <2>. QED  BY <2>2, <2>4 DEF HoldInv
<1>. QED  BY <1>1, <1>2, <1>3, <1>4 DEF Mutate

\* The commands of the runtime thread free no rule that was in the table.
LEMMA EditHold ==
  ASSUME TypeOK, HoldInv, Edit
  PROVE  HoldInv'
<1>. USE DEF TypeOK, PcOK, MutateOK, TableOK, CountsOK, MutatePcs, Goto
<1>r. Runtime \in Mutators /\ None \notin Actions
  BY QueueAssumption DEF Mutators
<1>1. /\ UNCHANGED <<cur, nxt, accessors, emptying>> /\ pc[Runtime] \in {"idle", "list", "show"}
      /\ \A m \in Mutators : m # Runtime => pc'[m] = pc[m] /\ tgt'[m] = tgt[m]
      /\ pc'[Runtime] \notin {"wait", "destroy"}
  BY <1>r DEF Edit, RuntimeRemove, PutFree, PutCollide, PutReplace, List, ListRead, Show, NextLine,
     StartRemove, Command, table, counts, walk, mutate
<1>2. /\ \A a \in Actions : status[a] = "live" => status'[a] = "live"
      /\ \A l \in Lines : queue[l] # None => queue'[l] = queue[l]
  <2>1. CASE RuntimeRemove \/ List \/ ListRead \/ Show
    BY <2>1 DEF RuntimeRemove, List, ListRead, Show, table
  <2>2. CASE \E a \in Actions : PutFree(a) \/ PutCollide(a) \/ PutReplace(a)
    BY <2>2 DEF PutFree, PutCollide, PutReplace
  <2>. QED  BY <2>1, <2>2 DEF Edit
<1>3. HeldRulesLive'
  BY <1>1, <1>2 DEF HoldInv, HeldRulesLive, Holding, WalkOK
<1>4. EmptiedStays'
  BY <1>1, <1>2 DEF HoldInv, EmptiedStays
<1>. QED  BY <1>3, <1>4 DEF HoldInv

LEMMA NextHold ==
  NoHang /\ TypeOK /\ TableInv /\ CountInv /\ OneMutatorPerLine /\ HoldInv /\ [Next]_vars => HoldInv'
<1>. SUFFICES ASSUME NoHang, TypeOK, TableInv, CountInv, OneMutatorPerLine, HoldInv, [Next]_vars
     PROVE HoldInv'
  OBVIOUS
<1>1. CASE UNCHANGED <<table, counts, pc, walk, call, sockets, mutate>>
  BY <1>1 DEF table, counts, walk, mutate, HoldInv, HeldRulesLive, Holding, EmptiedStays
<1>2. ASSUME NEW m \in Mutators, Step(m)
      PROVE  HoldInv'
  BY <1>1, <1>2, WalkHold, MutateHold, EditHold DEF Step, Fault
<1>. QED  BY <1>1, <1>2 DEF Next, vars

LEMMA InitHold == Init => HoldInv
  BY DEF Init, HoldInv, HeldRulesLive, EmptiedStays, Holding

\* With rules that do not make sockets hang, and as long as no line has two
\* mutators, no rule is freed under a walker that holds it: EMPTY_ACTION does its
\* work.
THEOREM HeldRulesLiveCorrect ==
  ASSUME NoHang PROVE Spec /\ []OneMutatorPerLine => []HeldRulesLive
<1>1. TypeOK /\ TableInv /\ CountInv /\ OneMutatorPerLine /\ HoldInv /\ [Next]_vars => HoldInv'
  BY NextHold
<1>2. HoldInv => HeldRulesLive
  BY DEF HoldInv
<1>. QED  BY InitHold, <1>1, <1>2, TypeCorrect, TableInvariant, CountInvariant, PTL DEF Spec

-----------------------------------------------------------------------------
(* Rule sets that do not edit the queue.                                    *)

\* No walker is about to remove a line or removing one.
NoThreadEdits == \A t \in Threads : pc[t] \notin MutatePcs \cup {"once"}

LEMMA WalkEdits ==
  ASSUME NoEditors, TypeOK, NoThreadEdits, NEW t \in Threads, ~Dangling(t), Walk(t)
  PROVE  NoThreadEdits'
<1>1. /\ \A u \in Threads : u # t => pc'[u] = pc[u]
      /\ pc'[t] \in ThreadPcs \cup {"empty"}
      /\ pc'[t] = "empty" => pc[t] \in {"perform", "once"}
  BY WalkShape DEF ThreadPcs, WalkPcs, Mutators
<1>2. pc'[t] # "empty"
  <2>1. ~PerformRemove(t) /\ ~Once(t)
    BY OnRule DEF PerformRemove, Performs, Once, WalkPcs, NoEditors, NoThreadEdits
  <2>. QED
    BY <2>1 DEF Walk, Advance, Begin, Bypass, Proceed, Poll, ResumeAtLine, ResumeElsewhere, Skip,
       SkipNext, Select, ResumeHang, Performs, PerformHang, PerformCall, PerformMark, PerformOther,
       Break, Record, Follow, Drop, Finish, Goto, GotoRule, TypeOK, PcOK, Mutators
<1>3. pc'[t] # "once"
  <2>1. CASE Follow(t)
    <3>1. Rule[cur[t]].mode # "do-once"
      BY <2>1, OnRule DEF Follow, WalkPcs, NoEditors
    <3>. QED  BY <2>1, <3>1 DEF Follow, Goto, TypeOK, PcOK, Mutators
  <2>2. CASE ~Follow(t)
    BY <1>2, <2>2 DEF Walk, Advance, Begin, Bypass, Proceed, Poll, ResumeAtLine, ResumeElsewhere,
       Skip, SkipNext, Select, ResumeHang, Performs, PerformHang, PerformCall, PerformMark,
       PerformOther, PerformRemove, StartRemove, Once, Break, Record, Drop, Finish, Goto, GotoRule,
       TypeOK, PcOK, Mutators
  <2>. QED  BY <2>1, <2>2
<1>. QED  BY <1>1, <1>2, <1>3 DEF NoThreadEdits, ThreadPcs, WalkPcs, MutatePcs

LEMMA NextEdits == NoEditors /\ TypeOK /\ NoThreadEdits /\ [Next]_vars => NoThreadEdits'
<1>. SUFFICES ASSUME NoEditors, TypeOK, NoThreadEdits, [Next]_vars PROVE NoThreadEdits'
  OBVIOUS
<1>1. CASE UNCHANGED pc
  BY <1>1 DEF NoThreadEdits
<1>2. ASSUME NEW m \in Mutators, Step(m)
      PROVE  NoThreadEdits'
  <2>1. CASE m \in Threads /\ ~Dangling(m) /\ Walk(m)
    BY <2>1, WalkEdits
  <2>2. CASE Mutate(m) \/ Edit
    <3>1. \A t \in Threads : pc'[t] = pc[t]
      BY <1>2, <2>2, QueueAssumption, SMTT(30) DEF Step, Mutate, Empty, Wake, Destroy, Store, Edit, RuntimeRemove,
         PutFree, PutCollide, PutReplace, List, ListRead, Show, NextLine, StartRemove, Goto,
         TypeOK, PcOK, Mutators, MutatePcs, NoThreadEdits
    <3>. QED  BY <3>1 DEF NoThreadEdits
  <2>. QED  BY <1>1, <1>2, <2>1, <2>2 DEF Step, Fault
<1>. QED  BY <1>1, <1>2 DEF Next, vars

\* When no rule edits the queue, the runtime thread is the only mutator: the
\* assumption under which the emptying of a line is safe.
THEOREM OneMutatorCorrect == ASSUME NoEditors PROVE Spec => []OneMutatorPerLine
<1>1. Init => NoThreadEdits
  BY DEF Init, NoThreadEdits, MutatePcs, Mutators
<1>2. TypeOK /\ NoThreadEdits /\ [Next]_vars => NoThreadEdits'
  BY NextEdits
<1>3. NoThreadEdits => OneMutatorPerLine
  BY DEF NoThreadEdits, OneMutatorPerLine, Mutators
<1>. QED  BY <1>1, <1>2, <1>3, TypeCorrect, PTL DEF Spec

\* With rules that neither hang nor edit the queue, no edition by the runtime
\* thread frees a rule under a walker.
THEOREM RuntimeEditsSafe == ASSUME NoHang, NoEditors PROVE Spec => []HeldRulesLive
<1>. QED  BY HeldRulesLiveCorrect, OneMutatorCorrect, PTL

-----------------------------------------------------------------------------
(* A line that is about to be stored holds no live rule.                    *)

StoreDead ==
  \A m \in Mutators : pc[m] = "store" /\ queue[tgt[m]] # None => status[queue[tgt[m]]] = "freed"

LEMMA NextDead == TypeOK /\ TableInv /\ StoreDead /\ [Next]_vars => StoreDead'
<1>. SUFFICES ASSUME TypeOK, TableInv, StoreDead, [Next]_vars PROVE StoreDead'
  OBVIOUS
<1>. USE DEF TypeOK, PcOK, MutateOK, TableOK, MutatePcs, Goto
<1>n. None \notin Mutators
  BY QueueAssumption
<1>1. CASE UNCHANGED <<queue, status, pc, tgt>>
  BY <1>1 DEF StoreDead
<1>2. ASSUME NEW m \in Mutators, m \in Threads, Walk(m)
      PROVE  StoreDead'
  BY <1>2, WalkShape DEF StoreDead, ThreadPcs, WalkPcs, table
<1>3. ASSUME NEW m \in Mutators, Empty(m) \/ Wake(m)
      PROVE  StoreDead'
  BY <1>3 DEF StoreDead, Empty, Wake, table
<1>4. ASSUME NEW m \in Mutators, Destroy(m)
      PROVE  StoreDead'
  BY <1>4, <1>n DEF StoreDead, Destroy, mutate, TableInv, WriterExact
<1>5. ASSUME NEW m \in Mutators, Store(m)
      PROVE  StoreDead'
  <2>1. pc' = [pc EXCEPT ![m] = ret[m]] /\ ret[m] # "store" /\ pc[m] = "store"
    BY <1>5 DEF Store
  <2>2. \A n \in Mutators : pc'[n] # "store"
    BY <2>1 DEF TableInv, WriterExact
  <2>. QED  BY <2>2 DEF StoreDead
<1>6. CASE Edit
  <2>1. \A n \in Mutators : pc'[n] = "store" => pc[n] = "store" /\ n # Runtime /\ tgt'[n] = tgt[n]
    BY <1>6 DEF Edit, RuntimeRemove, PutFree, PutCollide, PutReplace, List, ListRead, Show,
       NextLine, StartRemove, Command, mutate
  <2>2. writer = None => \A n \in Mutators : pc[n] # "store"
    BY <1>n DEF TableInv, WriterExact
  <2>3. CASE UNCHANGED <<queue, status>>
    BY <2>1, <2>3 DEF StoreDead
  <2>4. CASE writer = None
    BY <2>1, <2>2, <2>4 DEF StoreDead
  <2>. QED
    BY <1>6, <2>3, <2>4 DEF Edit, RuntimeRemove, PutFree, PutCollide, PutReplace, List, ListRead,
       Show, Command, table
<1>. QED
  BY <1>1, <1>2, <1>3, <1>4, <1>5, <1>6 DEF Next, Step, Fault, Mutate, vars, table, mutate

LEMMA DeadInvariant == Spec => []StoreDead
<1>1. Init => StoreDead
  BY DEF Init, StoreDead
<1>2. TypeOK /\ TableInv /\ StoreDead /\ [Next]_vars => StoreDead'
  BY NextDead
<1>. QED  BY <1>1, <1>2, TypeCorrect, TableInvariant, PTL DEF Spec

-----------------------------------------------------------------------------
(* Every step keeps the promise.                                            *)

\* The rule table takes no step.
Quiet == UNCHANGED <<Entries, Retired, Gone, Holdings>>

Kept == Promise!Next \/ Quiet

\* A step that leaves alone what the rule table is made of.
LEMMA QuietStep ==
  ASSUME UNCHANGED <<queue, status, emptying>>, UNCHANGED <<cur, nxt>>
  PROVE  Quiet
  BY DEF Quiet, Entries, Retired, Gone, Holdings, Holding

\* A rule that is live in the queue is in the rule table.
LEMMA InEntries ==
  ASSUME TypeOK, NEW l \in Lines, NEW a \in Actions, queue[l] = a, status[a] = "live"
  PROVE  Entries[l] = a /\ Promise!InTable(a)
  BY QueueAssumption DEF Entries, Promise!InTable

\* Taking a rule of the queue that is not being emptied is an Acquire.
LEMMA AcquireStep ==
  ASSUME TypeOK, UNCHANGED <<queue, status, emptying>>, NEW t \in Threads,
         NEW a \in Actions, NEW l \in Lines, queue[l] = a, status[a] = "live", ~emptying[a],
         Holding(t)' = Holding(t) \cup {a},
         \A u \in Threads \ {t} : Holding(u)' = Holding(u)
  PROVE  Kept
<1>1. UNCHANGED <<Entries, Retired, Gone>>
  BY DEF Entries, Retired, Gone
<1>2. Holdings' = [Holdings EXCEPT ![t] = @ \cup {a}]
  BY DEF Holdings
<1>3. Promise!InTable(a) /\ a \in Actions \ Retired
  BY InEntries DEF Retired
<1>4. Promise!Acquire(t, a)
  BY <1>1, <1>2, <1>3 DEF Promise!Acquire
<1>. QED  BY <1>4 DEF Kept, Promise!Next

\* Letting go of a rule is a Release.
LEMMA ReleaseStep ==
  ASSUME UNCHANGED <<queue, status, emptying>>, NEW t \in Threads,
         NEW a \in Actions, a \in Holding(t), Holding(t)' = Holding(t) \ {a},
         \A u \in Threads \ {t} : Holding(u)' = Holding(u)
  PROVE  Kept
<1>1. UNCHANGED <<Entries, Retired, Gone>>
  BY DEF Entries, Retired, Gone
<1>2. Holdings' = [Holdings EXCEPT ![t] = @ \ {a}] /\ a \in Holdings[t]
  BY DEF Holdings
<1>3. Promise!Release(t, a)
  BY <1>1, <1>2 DEF Promise!Release
<1>. QED  BY <1>3 DEF Kept, Promise!Next

LEMMA WalkKeeps ==
  ASSUME NoHang, TypeOK, TableInv, CountInv, NEW t \in Threads, ~Dangling(t), Walk(t)
  PROVE  Kept
<1>h. ~Suspended(t)
  BY DEF CountInv, Suspended, NoneHanging, TypeOK, CallOK
<1>u. UNCHANGED <<queue, status, emptying>>
  BY WalkShape DEF table
<1>1. CASE UNCHANGED <<cur, nxt>>
  BY <1>1, <1>u, QuietStep DEF Kept
<1>2. CASE Begin(t) \/ SkipNext(t)
  <2>0. \E from, matched : \E a \in Matches(from, matched) :
          cur' = [cur EXCEPT ![t] = Admit(a)] /\ Lock(Admit(a))
    BY <1>2 DEF Begin, SkipNext
  <2>1. PICK from, matched : \E a \in Matches(from, matched) :
          cur' = [cur EXCEPT ![t] = Admit(a)] /\ Lock(Admit(a))
    BY <2>0
  <2>2. PICK a \in Matches(from, matched) : cur' = [cur EXCEPT ![t] = Admit(a)] /\ Lock(Admit(a))
    BY <2>1
  <2>3. cur[t] = None /\ UNCHANGED nxt /\ writer = None
    BY <1>2 DEF Begin, SkipNext, CountInv, HoldShape
  <2>4. CASE Admit(a) = None
    <3>1. UNCHANGED <<cur, nxt>>
      BY <2>2, <2>3, <2>4 DEF TypeOK, WalkOK
    <3>. QED  BY <1>1, <3>1
  <2>5. CASE Admit(a) # None
    <3>1. PICK l \in Lines : queue[l] = a
      BY <2>5, MatchesInTable DEF Admit
    <3>2. Admit(a) = a /\ a \in Actions /\ status[a] = "live" /\ ~emptying[a]
      BY <2>3, <2>5, <3>1, AdmitLive
    <3>3. /\ Holding(t)' = Holding(t) \cup {a}
          /\ \A u \in Threads \ {t} : Holding(u)' = Holding(u)
      BY <2>2, <2>3, <3>2, QueueAssumption DEF Holding, TypeOK, WalkOK
    <3>. QED  BY <1>u, <3>1, <3>2, <3>3, AcquireStep
  <2>. QED  BY <2>4, <2>5
<1>3. CASE Follow(t)
  <2>1. PICK a \in Followers(cur[t]) : nxt' = [nxt EXCEPT ![t] = Admit(a)]
    BY <1>3 DEF Follow
  <2>2. cur[t] \in Actions
    BY <1>3, OnRule DEF Follow, WalkPcs
  <2>3. nxt[t] = None /\ UNCHANGED cur /\ writer = None
    BY <1>3 DEF Follow, CountInv, HoldShape, MutatePcs
  <2>4. CASE Admit(a) = None
    <3>1. UNCHANGED <<cur, nxt>>
      BY <2>1, <2>3, <2>4 DEF TypeOK, WalkOK
    <3>. QED  BY <1>1, <3>1
  <2>5. CASE Admit(a) # None
    <3>1. PICK l \in Lines : queue[l] = a
      BY <2>2, <2>5, FollowersInTable DEF Admit
    <3>2. Admit(a) = a /\ a \in Actions /\ status[a] = "live" /\ ~emptying[a]
      BY <2>3, <2>5, <3>1, AdmitLive
    <3>3. /\ Holding(t)' = Holding(t) \cup {a}
          /\ \A u \in Threads \ {t} : Holding(u)' = Holding(u)
      BY <2>1, <2>3, <3>2, QueueAssumption DEF Holding, TypeOK, WalkOK
    <3>. QED  BY <1>u, <3>1, <3>2, <3>3, AcquireStep
  <2>. QED  BY <2>4, <2>5
<1>4. CASE Skip(t) \/ Break(t) \/ Drop(t)
  <2>1. cur[t] \in Actions
    BY <1>4, OnRule DEF Skip, Break, Drop, WalkPcs
  <2>2. /\ cur'[t] = nxt[t] /\ nxt'[t] = None
        /\ \A u \in Threads \ {t} : cur'[u] = cur[u] /\ nxt'[u] = nxt[u]
    BY <1>4 DEF Skip, Break, Drop, CountInv, HoldShape, MutatePcs, TypeOK, WalkOK
  <2>3. \A u \in Threads \ {t} : Holding(u)' = Holding(u)
    BY <2>2 DEF Holding
  <2>4. CASE nxt[t] = cur[t]
    <3>1. \A u \in Threads : Holding(u)' = Holding(u)
      BY <2>2, <2>3, <2>4 DEF Holding
    <3>. QED  BY <1>u, <3>1 DEF Kept, Quiet, Entries, Retired, Gone, Holdings
  <2>5. CASE nxt[t] # cur[t]
    <3>1. cur[t] \in Holding(t) /\ Holding(t)' = Holding(t) \ {cur[t]}
      BY <2>1, <2>2, <2>5, QueueAssumption DEF Holding
    <3>. QED  BY <1>u, <2>1, <2>3, <3>1, ReleaseStep
  <2>. QED  BY <2>4, <2>5
<1>5. CASE ~(Begin(t) \/ SkipNext(t) \/ Follow(t) \/ Drop(t) \/ Skip(t) \/ Break(t))
  BY <1>h, <1>1, <1>5 DEF Walk, Advance, walk, Bypass, Proceed, Poll, ResumeAtLine,
     ResumeElsewhere, Select, ResumeHang, PerformHang, PerformCall, PerformMark, PerformOther,
     PerformRemove, Record, Once, Finish
<1>. QED  BY <1>2, <1>3, <1>4, <1>5

\* Emptying, destroying and storing a line.
LEMMA MutateKeeps ==
  ASSUME TypeOK, TableInv, CountInv, HoldInv, StoreDead, NEW m \in Mutators, ~Dangling(m),
         Mutate(m)
  PROVE  Kept
<1>. USE DEF TypeOK, PcOK, MutateOK, TableOK, MutatePcs, Goto
<1>n. None \notin Actions /\ None \notin Mutators
  BY QueueAssumption
<1>c. UNCHANGED Holdings
  BY DEF Mutate, Empty, Wake, Destroy, Store, walk, Holding, Holdings
<1>1. CASE Empty(m)
  <2>1. queue[tgt[m]] \in Actions /\ status[queue[tgt[m]]] = "live"
    BY <1>1, <1>n, OnLine DEF Empty, TableInv, EntriesLive, Dangling, Pointers, WalkPcs
  <2>2. UNCHANGED <<queue, status>> /\ emptying' = [emptying EXCEPT ![queue[tgt[m]]] = TRUE]
    BY <1>1 DEF Empty
  <2>3. Entries[tgt[m]] = queue[tgt[m]]
    BY <2>1, InEntries
  <2>4. Retired' = Retired \cup {queue[tgt[m]]}
    BY <2>1, <2>2 DEF Retired
  <2>5. UNCHANGED <<Entries, Gone>>
    BY <2>2 DEF Entries, Gone
  <2>6. Promise!Retire(tgt[m])
    BY <1>c, <1>n, <2>1, <2>3, <2>4, <2>5 DEF Promise!Retire
  <2>. QED  BY <2>6 DEF Kept, Promise!Next
<1>2. CASE Wake(m)
  BY <1>2, QuietStep DEF Wake, table, walk, Kept
<1>3. CASE Destroy(m)
  <2>1. /\ writer = None /\ pc[m] = "destroy" /\ UNCHANGED <<queue, emptying>>
        /\ status' = [a \in Actions |-> IF a = queue[tgt[m]] THEN "freed" ELSE status[a]]
    BY <1>3 DEF Destroy
  <2>2. /\ queue[tgt[m]] \in Actions /\ emptying[queue[tgt[m]]]
        /\ accessors[queue[tgt[m]]] = 0
    BY <2>1 DEF HoldInv, EmptiedStays
  <2>3. status[queue[tgt[m]]] = "live"
    BY <1>n, <2>1, <2>2 DEF TableInv, EntriesLive
  <2>4. Entries[tgt[m]] = queue[tgt[m]]
    BY <2>2, <2>3, InEntries
  <2>5. \A t \in Threads : queue[tgt[m]] \notin Holdings[t]
    BY <2>2, NobodyOn DEF CountInv, Holding, Holdings
  <2>6. queue[tgt[m]] \in Retired
    BY <2>2 DEF Retired
  <2>7. Entries' = [Entries EXCEPT ![tgt[m]] = None]
    BY <1>n, <2>1, <2>2 DEF Entries, TableInv, EntriesUnique
  <2>8. Gone' = Gone \cup {queue[tgt[m]]} /\ Retired' = Retired
    BY <2>1, <2>2 DEF Gone, Retired
  <2>9. Promise!Reclaim(tgt[m])
    BY <1>c, <2>4, <2>5, <2>6, <2>7, <2>8 DEF Promise!Reclaim
  <2>. QED  BY <2>9 DEF Kept, Promise!Next
<1>4. CASE Store(m)
  <2>1. /\ pc[m] = "store" /\ queue' = [queue EXCEPT ![tgt[m]] = fresh[m]]
        /\ UNCHANGED <<status, emptying>>
    BY <1>4 DEF Store
  <2>2. UNCHANGED <<Retired, Gone>>
    BY <2>1 DEF Retired, Gone
  <2>3. Entries[tgt[m]] = None
    BY <2>1 DEF Entries, StoreDead
  <2>4. CASE fresh[m] = None
    <3>1. UNCHANGED Entries
      BY <2>1, <2>3, <2>4 DEF Entries
    <3>. QED  BY <1>c, <2>2, <3>1 DEF Kept, Quiet
  <2>5. CASE fresh[m] # None
    <3>1. /\ fresh[m] \in Actions /\ status[fresh[m]] = "live"
          /\ \A l \in Lines : queue[l] # fresh[m]
      BY <2>1, <2>5 DEF TableInv, FreshApart
    <3>2. fresh[m] \in Actions \ Gone /\ ~Promise!InTable(fresh[m])
      BY <2>5, <3>1 DEF Gone, Entries, Promise!InTable
    <3>3. Entries' = [Entries EXCEPT ![tgt[m]] = fresh[m]]
      BY <2>1, <2>5, <3>1 DEF Entries
    <3>4. Promise!Install(tgt[m], fresh[m])
      BY <1>c, <2>2, <2>3, <3>2, <3>3 DEF Promise!Install
    <3>. QED  BY <3>1, <3>4 DEF Kept, Promise!Next
  <2>. QED  BY <2>4, <2>5
<1>. QED  BY <1>1, <1>2, <1>3, <1>4 DEF Mutate

\* The commands of the runtime thread.
LEMMA EditKeeps ==
  ASSUME TypeOK, TableInv, Edit
  PROVE  Kept
<1>. USE DEF TypeOK, TableOK
<1>n. None \notin Actions
  BY QueueAssumption
<1>c. UNCHANGED <<Retired, Holdings>>
  BY DEF Edit, RuntimeRemove, PutFree, PutCollide, PutReplace, List, ListRead, Show, table, walk,
     Retired, Holding, Holdings
<1>1. CASE RuntimeRemove \/ List \/ ListRead \/ Show
  BY <1>1, QuietStep DEF RuntimeRemove, List, ListRead, Show, table, walk, Kept
<1>2. ASSUME NEW a \in Actions, status[a] = "unused"
      PROVE  a \in Actions \ Gone /\ ~Promise!InTable(a) /\ \A l \in Lines : queue[l] # a
  <2>1. \A l \in Lines : queue[l] # a
    BY <1>2, <1>n DEF TableInv, EntriesLive
  <2>. QED  BY <1>2, <1>n, <2>1 DEF Gone, Entries, Promise!InTable
<1>3. ASSUME NEW a \in Actions, PutFree(a)
      PROVE  Kept
  <2>1. /\ status[a] = "unused" /\ queue[Rule[a].pos] = None /\ Rule[a].pos \in Lines
        /\ queue' = [queue EXCEPT ![Rule[a].pos] = a]
        /\ status' = [status EXCEPT ![a] = "live"]
    BY <1>3, RuleFields DEF PutFree
  <2>2. Entries[Rule[a].pos] = None
    BY <2>1 DEF Entries
  <2>3. Entries' = [Entries EXCEPT ![Rule[a].pos] = a] /\ Gone' = Gone
    BY <1>2, <1>n, <2>1 DEF Entries, Gone
  <2>4. Promise!Install(Rule[a].pos, a)
    BY <1>2, <1>c, <2>1, <2>2, <2>3 DEF Promise!Install
  <2>. QED  BY <2>1, <2>4 DEF Kept, Promise!Next
<1>4. ASSUME NEW a \in Actions, PutCollide(a)
      PROVE  Kept
  <2>1. status[a] = "unused" /\ status' = [status EXCEPT ![a] = "freed"] /\ UNCHANGED queue
    BY <1>4 DEF PutCollide
  <2>2. UNCHANGED Entries /\ Gone' = Gone \cup {a}
    BY <1>2, <2>1 DEF Entries, Gone
  <2>3. Promise!Refuse(a)
    BY <1>2, <1>c, <2>1, <2>2 DEF Promise!Refuse
  <2>. QED  BY <2>3 DEF Kept, Promise!Next
<1>5. ASSUME NEW a \in Actions, PutReplace(a)
      PROVE  Kept
  <2>1. status[a] = "unused" /\ status' = [status EXCEPT ![a] = "live"] /\ UNCHANGED queue
    BY <1>5 DEF PutReplace
  <2>2. UNCHANGED <<Entries, Gone>>
    BY <1>2, <2>1 DEF Entries, Gone
  <2>. QED  BY <1>c, <2>2 DEF Kept, Quiet
<1>. QED  BY <1>1, <1>3, <1>4, <1>5 DEF Edit

LEMMA NextKeeps ==
  NoHang /\ TypeOK /\ TableInv /\ CountInv /\ HoldInv /\ StoreDead /\ [Next]_vars
    => [Promise!Next]_(Promise!vars)
<1>. SUFFICES ASSUME NoHang, TypeOK, TableInv, CountInv, HoldInv, StoreDead, [Next]_vars
     PROVE Kept
  BY DEF Kept, Quiet, Promise!vars
<1>1. CASE UNCHANGED <<table, counts, pc, walk, call, sockets, mutate>>
  BY <1>1, QuietStep DEF table, walk, Kept
<1>2. ASSUME NEW m \in Mutators, Step(m)
      PROVE  Kept
  BY <1>1, <1>2, WalkKeeps, MutateKeeps, EditKeeps DEF Step, Fault
<1>. QED  BY <1>1, <1>2 DEF Next, vars

LEMMA InitKeeps == Init => Promise!Init
<1>. SUFFICES ASSUME Init PROVE Promise!Init
  OBVIOUS
<1>1. TableInv /\ TypeOK
  BY InitTable, InitType
<1>2. Entries \in [Lines -> Actions \cup {None}]
  BY <1>1 DEF Entries, TypeOK, TableOK
<1>3. \A k, l \in Lines : Entries[k] = Entries[l] /\ Entries[k] # None => k = l
  BY <1>1 DEF Entries, TableInv, EntriesUnique
<1>4. Retired = {} /\ Gone = {}
  BY DEF Init, Retired, Gone
<1>5. Holdings = [t \in Threads |-> {}]
  BY DEF Init, Holdings, Holding
<1>. QED  BY <1>2, <1>3, <1>4, <1>5 DEF Promise!Init

\* HoldInv is kept as long as no line has two mutators.
LEMMA HoldInvariant == ASSUME NoHang PROVE Spec /\ []OneMutatorPerLine => []HoldInv
<1>1. TypeOK /\ TableInv /\ CountInv /\ OneMutatorPerLine /\ HoldInv /\ [Next]_vars => HoldInv'
  BY NextHold
<1>. QED  BY InitHold, <1>1, TypeCorrect, TableInvariant, CountInvariant, PTL DEF Spec

\* With rules that do not make sockets hang, and as long as no line has two
\* mutators, the rule queue of actions.c implements the rule table: rules are handed
\* out only while they are in it and not retired, and reclaimed when nobody holds
\* them.
THEOREM KeepsPromiseCorrect ==
  ASSUME NoHang PROVE Spec /\ []OneMutatorPerLine => KeepsPromise
<1>1. TypeOK /\ TableInv /\ CountInv /\ HoldInv /\ StoreDead /\ [Next]_vars
        => [Promise!Next]_(Promise!vars)
  BY NextKeeps
<1>. QED
  BY InitKeeps, <1>1, HoldInvariant, DeadInvariant, TypeCorrect, TableInvariant, CountInvariant, PTL
     DEF Spec, KeepsPromise, Promise!Spec

\* With rules that neither hang nor edit the queue, editing the rules of a running
\* program through the runtime thread implements the rule table.
THEOREM RuntimeEditsKeepPromise == ASSUME NoHang, NoEditors PROVE Spec => KeepsPromise
<1>. QED  BY KeepsPromiseCorrect, OneMutatorCorrect, PTL
=============================================================================
