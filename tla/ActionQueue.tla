---------------------------- MODULE ActionQueue ----------------------------
(***************************************************************************)
(* The rule queue of libinject (src/src/actions.c): a table of rules, one  *)
(* per line, that the threads of the injected program walk while the       *)
(* runtime thread (and some rules) add, replace and remove lines.          *)
(*                                                                         *)
(* A rule is protected by a count of accessors and an "emptying" flag: a   *)
(* walker takes an accessor before it uses a rule (LOCK_ACTION), a mutator *)
(* raises the flag, waits for the count to reach zero (EMPTY_ACTION), and  *)
(* only then destroys the rule.  Everything done under the queue's rwlock  *)
(* for reading, or under a rule's mutex, is one step; a section under the  *)
(* write lock has two (destroy, then store), because some code reads the   *)
(* table without the lock.                                                 *)
(*                                                                         *)
(* A rule object is an element of Actions, parsed once into Rule[a] and    *)
(* never reused after it has been freed.                                   *)
(***************************************************************************)
EXTENDS Integers, FiniteSets

CONSTANTS
  Threads,       \* threads of the injected program
  Runtime,       \* the thread of the ruleset edition interface
  Sockets,       \* sockets the threads work on
  Directions,    \* directions of the calls they make
  NonBlocking,   \* the sockets opened in non-blocking mode
  Capacity,      \* lines of the queue
  FirstUserLine, \* lines below it are system lines (10 in the code)
  Actions,       \* rule objects
  Rule,          \* what each rule object was parsed into
  Rulesets,      \* the sets of rules a configuration file may have put
  Addable,       \* the rules the runtime thread may be told to put
  Removable,     \* the lines it may be told to remove
  MaxLeak,       \* bound: how far a hanging read may drive a count of accessors
  None

Lines      == 0 .. Capacity - 1
Mutators   == Threads \cup {Runtime}

Conds == {"always", "never", "matched", "unmatched", "maybe"}
Modes == {"do", "do-once", "do-once-per-call", "do-once-per-socket"}
Tasks == {"nop", "fail", "syscall", "abort", "remove", "mark-call", "mark-socket",
          "hang", "local-hang", "remote-hang"}
Gotos == {"continue", "goto", "next", "exec", "stop"}

RuleType == [pos  : Lines,     \* line of the rule
             cond : Conds,     \* "maybe": filters and conditions that vary per call
             mode : Modes,
             task : Tasks,     \* "nop": a task that leaves queue, socket and call alone;
                               \* "abort": drop, cancel-syscall, emit, error (but for
                               \* EAGAIN in a call that may block, which fails)
             arg  : Lines,     \* line a remove or mark-done task is about
             next : Gotos,
             line : Nat]       \* line of a goto or an exec

ASSUME QueueAssumption ==
  /\ IsFiniteSet(Threads) /\ Runtime \notin Threads
  /\ Capacity \in Nat \ {0} /\ FirstUserLine \in Nat /\ MaxLeak \in Nat
  /\ Rule \in [Actions -> RuleType] /\ None \notin Actions
  /\ Rulesets \subseteq SUBSET Actions /\ Addable \subseteq Actions
  /\ Removable \subseteq Lines
  /\ \A L \in Rulesets : \A a, b \in L : Rule[a].pos = Rule[b].pos => a = b
  /\ NonBlocking \subseteq Sockets /\ Sockets # {}
  /\ Directions \subseteq {"Reading", "Writing"} /\ Directions # {}
  /\ Sockets \cap Threads = {} /\ None \notin Mutators

VARIABLES
  queue,      \* line -> rule object or None
  status,     \* rule object -> "unused", "live" or "freed"
  accessors,  \* rule object -> count of accessors
  emptying,   \* rule object -> is it refusing accessors?
  writer,     \* the mutator inside the write-locked section, or None
  pc,         \* where each thread is
  cur,        \* the rule a walker is on (action)
  nxt,        \* the rule it goes to next (next)
  stale,      \* a rule pointer used without an accessor
  sock, dir,  \* socket and direction of the call
  blocking,   \* may the call block (IS_BLOCKING)?
  outcome,    \* of the call: state.done, state.aborted, or neither
  ok,         \* what the task returned
  called,     \* lines marked as called in this call (state.calledLines)
  hanging, hangPos,  \* socketState->hanging and socketState->pos
  sockCalled, \* lines marked as called on a socket
  tgt, fresh, \* line a mutator is working on, and the rule it will store there
  cvar,       \* rule whose condition variable a mutator sleeps on
  woken,      \* sleepers that were signalled
  ret,        \* where a mutator continues afterwards
  ran,        \* history: threads (this call) and sockets a rule was performed for
  fault       \* a NULL or freed rule was dereferenced: nothing is known afterwards

table   == <<queue, status, emptying, writer>>
counts  == <<accessors, woken>>
walk    == <<cur, nxt, stale>>
request == <<sock, dir, blocking>>
call    == <<request, outcome, ok, called, ran>>
sockets == <<hanging, hangPos, sockCalled>>
mutate  == <<tgt, fresh, cvar, ret>>
vars    == <<table, counts, pc, walk, call, sockets, mutate, fault>>

WalkPcs   == {"loop", "perform", "after", "next", "once", "drop"}
ThreadPcs == WalkPcs \cup {"idle", "bypass", "check", "skipped", "finish"}
MutatePcs == {"empty", "wait", "destroy", "store"}
Pcs       == ThreadPcs \cup MutatePcs \cup {"list", "show"}

-----------------------------------------------------------------------------
(* Searching the queue.                                                     *)

\* What the condition and the filters of a rule may answer (Action_match).
Verdicts(a, matched) ==
  CASE Rule[a].cond = "always"    -> {TRUE}
    [] Rule[a].cond = "never"     -> {FALSE}
    [] Rule[a].cond = "matched"   -> {matched}
    [] Rule[a].cond = "unmatched" -> {~matched}
    [] OTHER                      -> BOOLEAN

\* The rules at or after a line.
FilledFrom(from) == {i \in Lines : i >= from /\ queue[i] # None}

\* The rules ActionQueue_getMatch may stop on; None when no rule matches.
Matches(from, matched) ==
  {queue[i] : i \in {k \in FilledFrom(from) :
      /\ TRUE \in Verdicts(queue[k], matched)
      /\ \A j \in FilledFrom(from) : j < k => FALSE \in Verdicts(queue[j], matched)}}
  \cup {a \in {None} : \A j \in FilledFrom(from) : FALSE \in Verdicts(queue[j], matched)}

\* The rule ActionQueue_getFrom stops on.
Firsts(from) ==
  {queue[i] : i \in {k \in FilledFrom(from) : \A j \in FilledFrom(from) : k <= j}}
  \cup {a \in {None} : FilledFrom(from) = {}}

\* The rule the search of the next rule may stop on (action->next).
Followers(a) ==
  CASE Rule[a].next = "continue" -> Matches(Rule[a].pos + 1, TRUE)
    [] Rule[a].next = "goto"     -> Matches(Rule[a].line, TRUE)
    [] Rule[a].next = "next"     -> Firsts(Rule[a].pos + 1)
    [] Rule[a].next = "exec"     -> Firsts(Rule[a].line)
    [] OTHER                     -> {None}

-----------------------------------------------------------------------------
(* Accessors: LOCK_ACTION and UNLOCK_ACTION.                                *)

\* Fault for the runs to find: a search that ignores the emptying flag.
AdmitAlways(a) == a

\* A rule that is being emptied is not handed out: the search answers NULL.
Admit(a) == IF a # None /\ emptying[a] THEN None ELSE a

Lock(a) ==
  /\ accessors' = IF a = None THEN accessors ELSE [accessors EXCEPT ![a] = @ + 1]
  /\ woken' = woken

Sleepers(a) == {m \in Mutators : pc[m] = "wait" /\ cvar[m] = a /\ m \notin woken}

\* Faults for the runs to find: an accessor that is never given back, and a last
\* accessor that leaves without a signal.
UnlockForgotten(a) == accessors' = accessors /\ woken' = woken

UnlockUnsignalled(a) == accessors' = [accessors EXCEPT ![a] = @ - 1] /\ woken' = woken

\* pthread_cond_signal wakes one sleeper when the last accessor leaves.
Unlock(a) ==
  /\ accessors' = [accessors EXCEPT ![a] = @ - 1]
  /\ \/ /\ accessors[a] = 1 /\ emptying[a]
        /\ \E m \in Sleepers(a) : woken' = woken \cup {m}
     \/ /\ accessors[a] # 1 \/ ~emptying[a] \/ Sleepers(a) = {}
        /\ woken' = woken

-----------------------------------------------------------------------------
Init ==
  /\ \E L \in Rulesets :
       /\ queue = [l \in Lines |-> IF \E a \in L : Rule[a].pos = l
                                   THEN CHOOSE a \in L : Rule[a].pos = l ELSE None]
       /\ status = [a \in Actions |-> IF a \in L THEN "live" ELSE "unused"]
  /\ accessors = [a \in Actions |-> 0]
  /\ emptying = [a \in Actions |-> FALSE]
  /\ writer = None
  /\ pc = [m \in Mutators |-> "idle"]
  /\ cur = [t \in Threads |-> None]
  /\ nxt = [t \in Threads |-> None]
  /\ stale = [m \in Mutators |-> None]
  /\ sock \in [Threads -> Sockets]
  /\ dir \in [Threads -> Directions]
  /\ blocking \in [Threads -> BOOLEAN]
  /\ outcome = [t \in Threads |-> "done"]
  /\ ok = [t \in Threads |-> TRUE]
  /\ called = [t \in Threads |-> {}]
  /\ hanging = [s \in Sockets |-> FALSE]
  /\ hangPos = [s \in Sockets |-> 0]
  /\ sockCalled = [s \in Sockets |-> {}]
  /\ tgt = [m \in Mutators |-> 0]
  /\ fresh = [m \in Mutators |-> None]
  /\ cvar = [m \in Mutators |-> None]
  /\ woken = {}
  /\ ret = [m \in Mutators |-> "idle"]
  /\ ran = [a \in Actions |-> {}]
  /\ fault = FALSE

Goto(m, p) == pc' = [pc EXCEPT ![m] = p]

\* A walker goes on with the rule its search returned, or leaves the queue.
GotoRule(t, a) == Goto(t, IF a = None THEN "finish" ELSE "loop")

-----------------------------------------------------------------------------
(* ActionQueue_process.                                                     *)

\* An intercepted call looks for its first rule; with none, it bypasses them.
Begin(t) ==
  /\ pc[t] = "idle" /\ writer = None
  /\ \E a \in Matches(0, FALSE) :
       /\ cur' = [cur EXCEPT ![t] = Admit(a)]
       /\ Lock(Admit(a))
       /\ Goto(t, IF Admit(a) = None THEN "bypass" ELSE "check")
  /\ \E s \in Sockets, d \in Directions, b \in BOOLEAN :
       /\ s \in NonBlocking => ~b
       /\ sock' = [sock EXCEPT ![t] = s]
       /\ dir' = [dir EXCEPT ![t] = d]
       /\ blocking' = [blocking EXCEPT ![t] = b]
  /\ outcome' = [outcome EXCEPT ![t] = "pending"]
  /\ called' = [called EXCEPT ![t] = {}]
  /\ ran' = [a \in Actions |-> ran[a] \ {t}]
  /\ UNCHANGED <<table, nxt, stale, ok, sockets, mutate>>

Bypass(t) ==
  /\ pc[t] = "bypass"
  /\ outcome' = [outcome EXCEPT ![t] = "done"]
  /\ Goto(t, "idle")
  /\ UNCHANGED <<table, counts, walk, request, ok, called, ran, sockets, mutate>>

Suspended(t) == dir[t] = "Reading" /\ hanging[sock[t]]

Proceed(t) ==
  /\ pc[t] = "check" /\ ~Suspended(t)
  /\ Goto(t, "loop")
  /\ UNCHANGED <<table, counts, walk, call, sockets, mutate>>

\* The hang is not over: EAGAIN, and the accessor of the first rule is kept.
Poll(t) ==
  /\ pc[t] = "check" /\ Suspended(t)
  /\ accessors[cur[t]] <= MaxLeak
  /\ cur' = [cur EXCEPT ![t] = None]
  /\ Goto(t, "idle")
  /\ UNCHANGED <<table, counts, nxt, stale, call, sockets, mutate>>

\* The hang is over and its line is filled: the entry is read without the lock
\* (its two loads are taken as one) and replaces the first rule; no accessor
\* changes hands.
ResumeAtLine(t) ==
  /\ pc[t] = "check" /\ Suspended(t)
  /\ LET a == queue[hangPos[sock[t]]] IN
       /\ a # None
       /\ a # cur[t] => accessors[a] > -MaxLeak /\ accessors[cur[t]] <= MaxLeak
       /\ cur' = [cur EXCEPT ![t] = a]
  /\ Goto(t, "loop")
  /\ UNCHANGED <<table, counts, nxt, stale, call, sockets, mutate>>

\* Its line is empty: the search gets its two last arguments the wrong way
\* round, matched = (the line is not 0) and pos = true, which is line 1.
ResumeElsewhere(t) ==
  /\ pc[t] = "check" /\ Suspended(t) /\ writer = None
  /\ queue[hangPos[sock[t]]] = None /\ accessors[cur[t]] <= MaxLeak
  /\ \E a \in Matches(1, hangPos[sock[t]] # 0) :
       /\ cur' = [cur EXCEPT ![t] = Admit(a)]
       /\ Lock(Admit(a))
       /\ Goto(t, IF Admit(a) = None THEN "bypass" ELSE "loop")
       /\ hanging' = IF Admit(a) = None THEN [hanging EXCEPT ![sock[t]] = FALSE] ELSE hanging
  /\ UNCHANGED <<table, nxt, stale, call, hangPos, sockCalled, mutate>>

Done(t, a) ==
  \/ Rule[a].mode = "do-once-per-call" /\ Rule[a].pos \in called[t]
  \/ Rule[a].mode = "do-once-per-socket" /\ Rule[a].pos \in sockCalled[sock[t]]

\* A rule already done is let go of before its position is read for the search.
Skip(t) ==
  /\ pc[t] = "loop" /\ Done(t, cur[t])
  /\ Unlock(cur[t])
  /\ stale' = [stale EXCEPT ![t] = cur[t]]
  /\ cur' = [cur EXCEPT ![t] = None]
  /\ Goto(t, "skipped")
  /\ UNCHANGED <<table, nxt, call, sockets, mutate>>

SkipNext(t) ==
  /\ pc[t] = "skipped" /\ writer = None
  /\ \E a \in Matches(Rule[stale[t]].pos + 1, TRUE) :
       /\ cur' = [cur EXCEPT ![t] = Admit(a)]
       /\ Lock(Admit(a))
       /\ GotoRule(t, Admit(a))
  /\ stale' = [stale EXCEPT ![t] = None]
  /\ UNCHANGED <<table, nxt, call, sockets, mutate>>

Select(t) ==
  /\ pc[t] = "loop" /\ ~Done(t, cur[t])
  /\ Goto(t, "perform")
  /\ UNCHANGED <<table, counts, walk, call, sockets, mutate>>

\* Fault for the runs to find: the end of a hang is not recorded on the socket.
ResumeStillHanging(t) ==
  /\ pc[t] = "perform" /\ Suspended(t) /\ Rule[cur[t]].task = "hang"
  /\ ok' = [ok EXCEPT ![t] = TRUE]
  /\ Goto(t, "after")
  /\ UNCHANGED <<table, counts, walk, request, outcome, called, ran, sockets, mutate>>

\* Action_process: a read of a hanging socket ends the hang; a hang rule is then
\* not performed again.
ResumeHang(t) ==
  /\ pc[t] = "perform" /\ Suspended(t) /\ Rule[cur[t]].task = "hang"
  /\ hanging' = [hanging EXCEPT ![sock[t]] = FALSE]
  /\ ok' = [ok EXCEPT ![t] = TRUE]
  /\ Goto(t, "after")
  /\ UNCHANGED <<table, counts, walk, request, outcome, called, ran, hangPos, sockCalled, mutate>>

Performs(t) ==
  /\ pc[t] = "perform"
  /\ ~(Suspended(t) /\ Rule[cur[t]].task = "hang")
  /\ ran' = [ran EXCEPT ![cur[t]] = @ \cup {t, sock[t]}]

Unhang(t) == hanging' = IF Suspended(t) THEN [hanging EXCEPT ![sock[t]] = FALSE] ELSE hanging

\* A local hang of a read does the system call first.
HangOutcome(t) ==
  IF Rule[cur[t]].task = "local-hang" /\ dir[t] = "Reading" /\ outcome[t] = "pending"
  THEN "done" ELSE outcome[t]

\* A hang that comes after the system call, or in a call that may block, is a
\* nanosleep; any other makes the socket hang, to be tried again later (EAGAIN).
PerformHang(t) ==
  /\ Performs(t) /\ Rule[cur[t]].task \in {"hang", "local-hang", "remote-hang"}
  /\ LET o == HangOutcome(t)
     IN IF dir[t] = "Reading" /\ ~blocking[t] /\ o # "done"
        THEN /\ hanging' = [hanging EXCEPT ![sock[t]] = TRUE]
             /\ hangPos' = [hangPos EXCEPT ![sock[t]] = Rule[cur[t]].pos]
             /\ outcome' = [outcome EXCEPT ![t] = "aborted"]
        ELSE /\ Unhang(t) /\ UNCHANGED hangPos
             /\ outcome' = [outcome EXCEPT ![t] = o]
  /\ ok' = [ok EXCEPT ![t] = TRUE]
  /\ Goto(t, "after")
  /\ UNCHANGED <<table, counts, walk, request, called, sockCalled, mutate>>

\* The system call fails the walk once it was aborted, an abort once it was done.
PerformCall(t) ==
  /\ Performs(t) /\ Unhang(t)
  /\ \/ /\ Rule[cur[t]].task = "syscall"
        /\ ok' = [ok EXCEPT ![t] = outcome[t] # "aborted"]
        /\ outcome' = [outcome EXCEPT ![t] = IF @ = "aborted" THEN @ ELSE "done"]
     \/ /\ Rule[cur[t]].task = "abort"
        /\ ok' = [ok EXCEPT ![t] = outcome[t] # "done"]
        /\ outcome' = [outcome EXCEPT ![t] = IF @ = "done" THEN @ ELSE "aborted"]
  /\ Goto(t, "after")
  /\ UNCHANGED <<table, counts, walk, request, called, hangPos, sockCalled, mutate>>

PerformMark(t) ==
  /\ Performs(t) /\ Unhang(t)
  /\ \/ /\ Rule[cur[t]].task = "mark-call"
        /\ called' = [called EXCEPT ![t] = @ \cup {Rule[cur[t]].arg}]
        /\ UNCHANGED sockCalled
     \/ /\ Rule[cur[t]].task = "mark-socket"
        /\ sockCalled' = [sockCalled EXCEPT ![sock[t]] = @ \cup {Rule[cur[t]].arg}]
        /\ UNCHANGED called
  /\ ok' = [ok EXCEPT ![t] = TRUE]
  /\ Goto(t, "after")
  /\ UNCHANGED <<table, counts, walk, request, outcome, hangPos, mutate>>

PerformOther(t) ==
  /\ Performs(t) /\ Unhang(t)
  /\ \/ Rule[cur[t]].task = "nop" /\ ok' = [ok EXCEPT ![t] = TRUE]
     \/ Rule[cur[t]].task = "fail" /\ ok' = [ok EXCEPT ![t] = FALSE]
     \/ /\ Rule[cur[t]].task = "remove" /\ Rule[cur[t]].arg < FirstUserLine
        /\ ok' = [ok EXCEPT ![t] = FALSE]
  /\ Goto(t, "after")
  /\ UNCHANGED <<table, counts, walk, request, outcome, called, hangPos, sockCalled, mutate>>

\* The call of ActionQueue_remove(line): the lock is taken and released at once.
StartRemove(m, line, then) ==
  /\ writer = None
  /\ tgt' = [tgt EXCEPT ![m] = line]
  /\ fresh' = [fresh EXCEPT ![m] = None]
  /\ ret' = [ret EXCEPT ![m] = then]
  /\ Goto(m, "empty")
  /\ UNCHANGED cvar

PerformRemove(t) ==
  /\ Performs(t) /\ Unhang(t)
  /\ Rule[cur[t]].task = "remove" /\ Rule[cur[t]].arg >= FirstUserLine
  /\ ok' = [ok EXCEPT ![t] = TRUE]
  /\ StartRemove(t, Rule[cur[t]].arg, "after")
  /\ UNCHANGED <<table, counts, walk, request, outcome, called, hangPos, sockCalled>>

\* A failed task, or a socket that hangs (whoever made it hang), ends the walk.
Break(t) ==
  /\ pc[t] = "after" /\ (~ok[t] \/ hanging[sock[t]])
  /\ Unlock(cur[t])
  /\ cur' = [cur EXCEPT ![t] = None]
  /\ Goto(t, "finish")
  /\ UNCHANGED <<table, nxt, stale, call, sockets, mutate>>

\* Fault for the runs to find: a rule performed is recorded for the socket only.
RecordSocketOnly(t) ==
  /\ pc[t] = "after" /\ ok[t] /\ ~hanging[sock[t]]
  /\ sockCalled' = [sockCalled EXCEPT ![sock[t]] = @ \cup {Rule[cur[t]].pos}]
  /\ Goto(t, "next")
  /\ UNCHANGED <<table, counts, walk, call, hanging, hangPos, mutate>>

Record(t) ==
  /\ pc[t] = "after" /\ ok[t] /\ ~hanging[sock[t]]
  /\ called' = [called EXCEPT ![t] = @ \cup {Rule[cur[t]].pos}]
  /\ sockCalled' = [sockCalled EXCEPT ![sock[t]] = @ \cup {Rule[cur[t]].pos}]
  /\ Goto(t, "next")
  /\ UNCHANGED <<table, counts, walk, request, outcome, ok, ran, hanging, hangPos, mutate>>

\* The next rule gets its accessor while the walker still holds the current one.
Follow(t) ==
  /\ pc[t] = "next" /\ writer = None
  /\ \E a \in Followers(cur[t]) :
       /\ nxt' = [nxt EXCEPT ![t] = Admit(a)]
       /\ Lock(Admit(a))
  /\ Goto(t, IF Rule[cur[t]].mode = "do-once" THEN "once" ELSE "drop")
  /\ UNCHANGED <<table, cur, stale, call, sockets, mutate>>

Once(t) ==
  /\ pc[t] = "once"
  /\ StartRemove(t, Rule[cur[t]].pos, "drop")
  /\ UNCHANGED <<table, counts, walk, call, sockets>>

Drop(t) ==
  /\ pc[t] = "drop"
  /\ Unlock(cur[t])
  /\ cur' = [cur EXCEPT ![t] = nxt[t]]
  /\ nxt' = [nxt EXCEPT ![t] = None]
  /\ GotoRule(t, nxt[t])
  /\ UNCHANGED <<table, stale, call, sockets, mutate>>

\* The system call that no rule did, nor aborted.
Finish(t) ==
  /\ pc[t] = "finish"
  /\ outcome' = [outcome EXCEPT ![t] = IF @ = "pending" THEN "done" ELSE @]
  /\ Goto(t, "idle")
  /\ UNCHANGED <<table, counts, walk, request, ok, called, ran, sockets, mutate>>

-----------------------------------------------------------------------------
(* Emptying, destroying and storing a line: ActionQueue_remove and the      *)
(* replacement of ActionQueue_put.  The rule worked on is read from the     *)
(* table again at every step, as the macro argument is in the code.         *)

\* Fault for the runs to find: the emptying of a line does not wait.
EmptyUnwaited(m) ==
  /\ pc[m] = "empty"
  /\ emptying' = [emptying EXCEPT ![queue[tgt[m]]] = TRUE]
  /\ cvar' = [cvar EXCEPT ![m] = queue[tgt[m]]]
  /\ Goto(m, "destroy")
  /\ UNCHANGED <<queue, status, writer, counts, walk, call, sockets, tgt, fresh, ret>>

Empty(m) ==
  /\ pc[m] = "empty"
  /\ LET a == queue[tgt[m]] IN
       /\ emptying' = [emptying EXCEPT ![a] = TRUE]
       /\ cvar' = [cvar EXCEPT ![m] = a]
       /\ Goto(m, IF accessors[a] > 0 THEN "wait" ELSE "destroy")
  /\ UNCHANGED <<queue, status, writer, counts, walk, call, sockets, tgt, fresh, ret>>

\* Fault for the runs to find: the count is not read again after the sleep.
WakeUnchecked(m) ==
  /\ pc[m] = "wait"
  /\ Goto(m, "destroy")
  /\ woken' = woken \ {m}
  /\ UNCHANGED <<table, accessors, walk, call, sockets, mutate>>

\* Signalled or not: a sleeper may wake up for no reason.
Wake(m) ==
  /\ pc[m] = "wait"
  /\ Goto(m, IF accessors[queue[tgt[m]]] > 0 THEN "wait" ELSE "destroy")
  /\ cvar' = [cvar EXCEPT ![m] = queue[tgt[m]]]
  /\ woken' = woken \ {m}
  /\ UNCHANGED <<table, accessors, walk, call, sockets, tgt, fresh, ret>>

Destroy(m) ==
  /\ pc[m] = "destroy" /\ writer = None
  /\ writer' = m
  /\ status' = [a \in Actions |-> IF a = queue[tgt[m]] THEN "freed" ELSE status[a]]
  /\ Goto(m, "store")
  /\ UNCHANGED <<queue, emptying, counts, walk, call, sockets, mutate>>

\* Fault for the runs to find: the line keeps pointing to the rule destroyed.
StoreForgotten(m) ==
  /\ pc[m] = "store"
  /\ writer' = None
  /\ Goto(m, ret[m])
  /\ UNCHANGED <<queue, status, emptying, counts, walk, call, sockets, mutate>>

Store(m) ==
  /\ pc[m] = "store"
  /\ queue' = [queue EXCEPT ![tgt[m]] = fresh[m]]
  /\ writer' = None
  /\ Goto(m, ret[m])
  /\ UNCHANGED <<status, emptying, counts, walk, call, sockets, mutate>>

-----------------------------------------------------------------------------
(* Commands of the ruleset edition interface (Runtime_thread).              *)

Command == pc[Runtime] = "idle" /\ writer = None

RuntimeRemove ==
  /\ Command
  /\ \E l \in Removable : StartRemove(Runtime, l, "idle")
  /\ UNCHANGED <<table, counts, walk, call, sockets>>

\* add or replace, on an empty line
PutFree(a) ==
  /\ Command /\ a \in Addable /\ status[a] = "unused" /\ queue[Rule[a].pos] = None
  /\ queue' = [queue EXCEPT ![Rule[a].pos] = a]
  /\ status' = [status EXCEPT ![a] = "live"]
  /\ UNCHANGED <<emptying, writer, counts, pc, walk, call, sockets, mutate>>

\* add, on a filled line: line number collision
PutCollide(a) ==
  /\ Command /\ a \in Addable /\ status[a] = "unused" /\ queue[Rule[a].pos] # None
  /\ status' = [status EXCEPT ![a] = "freed"]
  /\ UNCHANGED <<queue, emptying, writer, counts, pc, walk, call, sockets, mutate>>

\* replace, on a filled line
PutReplace(a) ==
  /\ Command /\ a \in Addable /\ status[a] = "unused" /\ queue[Rule[a].pos] # None
  /\ status' = [status EXCEPT ![a] = "live"]
  /\ tgt' = [tgt EXCEPT ![Runtime] = Rule[a].pos]
  /\ fresh' = [fresh EXCEPT ![Runtime] = a]
  /\ ret' = [ret EXCEPT ![Runtime] = "idle"]
  /\ Goto(Runtime, "empty")
  /\ UNCHANGED <<queue, emptying, writer, counts, walk, call, sockets, cvar>>

\* list reads the table without the lock and shows each rule it finds.
List ==
  /\ Command
  /\ tgt' = [tgt EXCEPT ![Runtime] = 0]
  /\ Goto(Runtime, "list")
  /\ UNCHANGED <<table, counts, walk, call, sockets, fresh, cvar, ret>>

\* Fault for the runs to find: the listing goes past the last line.
NextLineUnbounded ==
  tgt' = [tgt EXCEPT ![Runtime] = @ + 1] /\ Goto(Runtime, "list")

NextLine ==
  IF tgt[Runtime] + 1 \in Lines
  THEN tgt' = [tgt EXCEPT ![Runtime] = @ + 1] /\ Goto(Runtime, "list")
  ELSE UNCHANGED tgt /\ Goto(Runtime, "idle")

ListRead ==
  /\ pc[Runtime] = "list"
  /\ \/ /\ queue[tgt[Runtime]] = None
        /\ NextLine /\ UNCHANGED stale
     \/ /\ queue[tgt[Runtime]] # None
        /\ stale' = [stale EXCEPT ![Runtime] = queue[tgt[Runtime]]]
        /\ Goto(Runtime, "show") /\ UNCHANGED tgt
  /\ UNCHANGED <<table, counts, cur, nxt, call, sockets, fresh, cvar, ret>>

Show ==
  /\ pc[Runtime] = "show"
  /\ stale' = [stale EXCEPT ![Runtime] = None]
  /\ NextLine
  /\ UNCHANGED <<table, counts, cur, nxt, call, sockets, fresh, cvar, ret>>

-----------------------------------------------------------------------------
Advance(t) ==
  \/ Bypass(t) \/ Proceed(t) \/ ResumeAtLine(t) \/ ResumeElsewhere(t)
  \/ Skip(t) \/ SkipNext(t) \/ Select(t)
  \/ ResumeHang(t) \/ PerformHang(t) \/ PerformCall(t) \/ PerformMark(t) \/ PerformOther(t)
  \/ PerformRemove(t) \/ Break(t) \/ Record(t) \/ Follow(t) \/ Once(t) \/ Drop(t) \/ Finish(t)

Walk(t) == Begin(t) \/ Poll(t) \/ Advance(t)

Mutate(m) == Empty(m) \/ Wake(m) \/ Destroy(m) \/ Store(m)

Edit ==
  \/ RuntimeRemove
  \/ \E a \in Actions : PutFree(a) \/ PutCollide(a) \/ PutReplace(a)
  \/ List \/ ListRead \/ Show

\* The rules the next step of a thread reads or writes through a pointer.
Pointers(m) ==
  CASE pc[m] \in WalkPcs          -> {cur[m]}
    [] pc[m] \in {"skipped", "show"} -> {stale[m]}
    [] pc[m] = "empty"            -> {queue[tgt[m]]}
    [] pc[m] = "wait"             -> {queue[tgt[m]], cvar[m]}
    [] OTHER                      -> {}

Dangling(m) == \E a \in Pointers(m) : a # None => status[a] = "freed"

\* Whatever a thread does through a dangling pointer is undefined.
Fault(m) ==
  /\ Dangling(m)
  /\ fault' = TRUE
  /\ UNCHANGED <<table, counts, pc, walk, call, sockets, mutate>>

Step(m) ==
  /\ ~fault
  /\ \/ Fault(m)
     \/ /\ ~Dangling(m) /\ UNCHANGED fault
        /\ \/ m \in Threads /\ Walk(m)
           \/ Mutate(m)
           \/ m = Runtime /\ Edit

Next == \E m \in Mutators : Step(m)

Spec == Init /\ [][Next]_vars

\* Every call in progress, and every command, goes on as long as it can; a
\* sleeper is only counted on to wake up once it has been signalled.
Runs(m) ==
  /\ ~fault
  /\ \/ Fault(m)
     \/ /\ ~Dangling(m) /\ UNCHANGED fault
        /\ \/ m \in Threads /\ Advance(m)
           \/ Empty(m) \/ Destroy(m) \/ Store(m)
           \/ m \in woken /\ Wake(m)
           \/ m = Runtime /\ (ListRead \/ Show)

LiveSpec == Spec /\ \A m \in Mutators : WF_vars(Runs(m))

-----------------------------------------------------------------------------
(* Properties.                                                              *)

\* Rule sets without a rule that makes a socket hang.
NoHang == \A a \in Actions : Rule[a].task \notin {"hang", "local-hang", "remote-hang"}

\* Rule sets without a rule that edits the queue.
NoEditors == \A a \in Actions : Rule[a].mode # "do-once" /\ Rule[a].task # "remove"

TableOK ==
  /\ queue \in [Lines -> Actions \cup {None}]
  /\ status \in [Actions -> {"unused", "live", "freed"}]
  /\ emptying \in [Actions -> BOOLEAN]
  /\ writer \in Mutators \cup {None}

CountsOK == accessors \in [Actions -> Int] /\ woken \subseteq Mutators

PcOK ==
  /\ pc \in [Mutators -> Pcs] /\ ret \in [Mutators -> {"idle", "after", "drop"}]
  /\ \A t \in Threads :
       /\ pc[t] \in ThreadPcs \cup MutatePcs
       /\ pc[t] \in MutatePcs => ret[t] # "idle"
  /\ pc[Runtime] \in {"idle", "list", "show"} \cup MutatePcs
  /\ pc[Runtime] \in MutatePcs => ret[Runtime] = "idle"

WalkOK ==
  /\ cur \in [Threads -> Actions \cup {None}]
  /\ nxt \in [Threads -> Actions \cup {None}]
  /\ stale \in [Mutators -> Actions \cup {None}]

CallOK ==
  /\ sock \in [Threads -> Sockets]
  /\ dir \in [Threads -> Directions]
  /\ blocking \in [Threads -> BOOLEAN]
  /\ outcome \in [Threads -> {"pending", "done", "aborted"}]
  /\ ok \in [Threads -> BOOLEAN]
  /\ called \in [Threads -> SUBSET Lines]
  /\ ran \in [Actions -> SUBSET (Threads \cup Sockets)]

SocketsOK ==
  /\ hanging \in [Sockets -> BOOLEAN]
  /\ hangPos \in [Sockets -> Lines]
  /\ sockCalled \in [Sockets -> SUBSET Lines]

MutateOK ==
  /\ tgt \in [Mutators -> Lines]
  /\ fresh \in [Mutators -> Actions \cup {None}]
  /\ cvar \in [Mutators -> Actions \cup {None}]

\* The type invariant, one part for each group of variables.
TypeOK ==
  TableOK /\ CountsOK /\ PcOK /\ WalkOK /\ CallOK /\ SocketsOK /\ MutateOK /\ fault \in BOOLEAN

\* Two mutators never work on one line at the same time.  The code does nothing
\* to ensure it; it holds when only the runtime thread edits the queue.
OneMutatorPerLine ==
  \A m, n \in Mutators :
    pc[m] \in MutatePcs /\ pc[n] \in MutatePcs /\ tgt[m] = tgt[n] => m = n

Holding(t) == {cur[t], nxt[t]} \ {None}

\* The threads that point to a rule through cur or nxt.
On(f, a) == {t \in Threads : f[t] = a}

\* The count of accessors of a rule is the number of times the walkers hold it
\* (actions.c:109, "Number of processing using this action").
AccessorsExact ==
  \A a \in Actions : accessors[a] = Cardinality(On(cur, a)) + Cardinality(On(nxt, a))

\* A rule is never freed under a walker that holds it: what EMPTY_ACTION is for.
HeldRulesLive == \A t \in Threads : \A a \in Holding(t) : status[a] = "live"

\* The table holds no freed rule outside of a write-locked section, and no rule
\* twice: a search under the read lock never meets a dangling entry.
TableLive ==
  /\ writer = None => \A l \in Lines : queue[l] # None => status[queue[l]] = "live"
  /\ \A k, l \in Lines : queue[k] = queue[l] /\ queue[k] # None => k = l

\* Why TableLive is kept: one mutator at a time is between destroying the rule of
\* a line and storing the line, a dead entry can only be that line, and the rule
\* that is to be stored is live and not yet in the table.
WriterExact == \A m \in Mutators : pc[m] = "store" <=> writer = m

EntriesLive ==
  \A l \in Lines : queue[l] # None =>
    \/ status[queue[l]] = "live"
    \/ status[queue[l]] = "freed" /\ writer # None /\ tgt[writer] = l

EntriesUnique == \A k, l \in Lines : queue[k] = queue[l] /\ queue[k] # None => k = l

FreshApart ==
  \A m \in Mutators : pc[m] \in MutatePcs /\ fresh[m] # None =>
    /\ m = Runtime
    /\ status[fresh[m]] = "live"
    /\ \A l \in Lines : queue[l] # fresh[m]

TableInv == WriterExact /\ EntriesLive /\ EntriesUnique /\ FreshApart

\* Why the counts are exact when no rule hangs: a walker that is about to take a
\* rule holds none yet, or is still on the current one and has not chosen the next.
HoldShape ==
  \A t \in Threads :
    /\ pc[t] \in {"idle", "bypass", "skipped", "finish"} => cur[t] = None
    /\ nxt[t] # None => \/ pc[t] \in {"once", "drop"}
                        \/ pc[t] \in MutatePcs /\ ret[t] = "drop"

NoneHanging == \A s \in Sockets : ~hanging[s]

CountInv == HoldShape /\ NoneHanging /\ AccessorsExact

\* Why held rules are live when lines have one mutator: once the count of a rule
\* that is emptied has reached zero it stays zero until the rule is destroyed.
EmptiedStays ==
  \A m \in Mutators :
    /\ pc[m] \in {"wait", "destroy"} => queue[tgt[m]] # None /\ emptying[queue[tgt[m]]]
    /\ pc[m] = "destroy" => accessors[queue[tgt[m]]] = 0

HoldInv == HeldRulesLive /\ EmptiedStays

\* Why a rule is performed once in a call: a do-once-per-call rule that was performed is
\* marked as called, or its walker is still on it on the way to do so, or the walk is over;
\* and the walker performs only a rule that is not marked.
PerCall(a) == Rule[a].mode = "do-once-per-call"

Recording(t, a) ==
  cur[t] = a /\ (pc[t] = "after" \/ (pc[t] \in MutatePcs /\ ret[t] = "after"))

CalledOf(t) ==
  \A a \in Actions : PerCall(a) =>
    /\ t \in ran[a] => \/ Rule[a].pos \in called[t]
                       \/ Recording(t, a)
                       \/ pc[t] \in {"idle", "bypass", "finish"}
    /\ pc[t] = "perform" /\ cur[t] = a => Rule[a].pos \notin called[t]

PerformedCalled == \A t \in Threads : CalledOf(t)

\* Once a rule is being emptied its count never grows again (actions.c:110, "Do
\* not allow more accessors"), whatever the searches in progress.
NoNewAccessors ==
  [][\A a \in Actions : emptying[a] => accessors'[a] <= accessors[a]]_vars

PerformsNow(t, a) == pc[t] = "perform" /\ cur[t] = a /\ t \in ran'[a] /\ pc'[t] # "perform"

\* A do-once-per-call rule is performed once in a call, whatever gotos bring the
\* walk back to it and whatever lines are replaced meanwhile (actions.h:86-87).
PerCallOnce ==
  [][\A t \in Threads, a \in Actions :
       Rule[a].mode = "do-once-per-call" /\ PerformsNow(t, a) => t \notin ran[a]]_vars

\* A replacement or removal by the runtime thread ends: the calls in progress
\* leave the rule, the last one wakes the sleeper, and no new call gets in.
\* (After a fault, nothing is said.)
RemovalCompletes == pc[Runtime] \in MutatePcs ~> pc[Runtime] = "idle" \/ fault

\* A do-once rule that was performed is removed from the queue (actions.h:84-85,
\* "remove the action from the queue once it has been processed").
OnceRemoved ==
  \A a \in Actions : Rule[a].mode = "do-once" => (ran[a] # {} ~> status[a] = "freed" \/ fault)

\* A socket made to hang for some milliseconds does not hang for ever, when the
\* application keeps reading it and the clock keeps running (hang.c:40).
HangEnds == \A s \in Sockets : hanging[s] ~> ~hanging[s]

HangSpec ==
  /\ LiveSpec
  /\ \A t \in Threads, s \in Sockets :
       SF_vars(Step(t) /\ Begin(t) /\ sock'[t] = s /\ dir'[t] = "Reading")
  /\ \A t \in Threads : SF_vars(Step(t) /\ (ResumeAtLine(t) \/ ResumeElsewhere(t)))

\* The promise of RuleTable: entries still in the table after their rule was
\* destroyed count as empty, and a thread holds what it has an accessor on.
Entries  == [l \in Lines |-> IF queue[l] # None /\ status[queue[l]] = "live"
                             THEN queue[l] ELSE None]
Retired  == {a \in Actions : emptying[a]}
Gone     == {a \in Actions : status[a] = "freed"}
Holdings == [t \in Threads |-> Holding(t)]

Promise == INSTANCE RuleTable WITH
  Rules <- Actions, table <- Entries, retired <- Retired, gone <- Gone, held <- Holdings

\* The rule queue implements the rule table.
KeepsPromise == Promise!Spec
=============================================================================
