-------------------------------- MODULE Call --------------------------------
(***************************************************************************)
(* One intercepted call, from the wrapper of binding.c to its return: the  *)
(* tasks of src/actions/ that work on the call itself, on the record of    *)
(* actionsdk.h (ActionCallData).  Which rules run, and in which order, is  *)
(* the business of ActionQueue: here the walk may take any task next, so   *)
(* that a behaviour stands for every rule set.                             *)
(*                                                                         *)
(* Data are counts of bytes: a system call is asked for so many bytes of a *)
(* buffer from an offset, and answers with as many of them or fewer, or    *)
(* fails.                                                                  *)
(***************************************************************************)
EXTENDS Integers, Sequences, Functions, FiniteSetsExt

CONSTANTS Functs,    \* functions the program calls
          Vectors,   \* lengths of the buffers the program passes, one or several
          Percents,  \* arguments of split
          Sizes,     \* arguments of truncate; a negative one is taken as huge, and does nothing
          Longest,   \* the largest ssize_t
          MaxTasks   \* bound: tasks a walk performs

\* The table of binding.c.  read stands for recv and recvfrom, readv for recvmsg, write for
\* send and sendto.
Directions == [read |-> "Reading", readv |-> "Reading", write |-> "Writing",
               writev |-> "Reading", sendmsg |-> "Reading",
               connect |-> "Connecting", close |-> "Closing"]
Primitives == [read |-> "in", readv |-> "in", write |-> "out", writev |-> "out",
               sendmsg |-> "in", connect |-> "connect", close |-> "close"]

Data == {"Reading", "Writing"}

ASSUME CallAssumption ==
  /\ Functs \subseteq DOMAIN Directions
  /\ Vectors \subseteq Seq(Nat) \ {<<>>}
  /\ Percents \subseteq 0 .. 100
  /\ Sizes \subseteq Nat
  /\ Longest \in Nat
  /\ MaxTasks \in Nat

VARIABLES
  function, vector,  \* the call of the program
  state,     \* ActionCallData
  pc,        \* "ready", "walk", "end" (of the walk) or "returned"
  steps,     \* tasks performed, for the bound
  kernel,    \* the system calls made: sequence of [sys, mem, from, asked, got]
  repeated,  \* a system call was made once more by a rule after it had been done
  emptied,   \* a split was made of no byte, an empty buffer or one truncated to nothing
  claim,     \* "drop" or "cancel" when that task gave the last answer, else "none"
  filled,    \* bytes at the front of the buffer that hold what was read or replayed
  given      \* bytes returned in each buffer of the program

vars == <<function, vector, state, pc, steps, kernel, repeated, emptied, claim, filled, given>>

direction == Directions[function]
Requested == IF direction \in Data THEN SumFunction(vector) ELSE 0

Idle == [buf |-> "null", room |-> 0, len |-> 0, origLen |-> 0, aborted |-> FALSE,
         done |-> FALSE, err |-> "stale", result |-> 0]

Init ==
  /\ function \in Functs /\ vector \in Vectors
  /\ function \in {"read", "write"} => Len(vector) = 1
  /\ state = Idle
  /\ pc = "ready" /\ steps = 0
  /\ kernel = <<>> /\ repeated = FALSE /\ emptied = FALSE /\ claim = "none"
  /\ filled = 0 /\ given = <<>>

-----------------------------------------------------------------------------
(* The record.                                                              *)

\* READ_BUFFER and READ_BUFFER_LENGTH.
Memory(s) == IF s.buf = "null" THEN "orig" ELSE s.buf
Length(s) == IF s.buf = "null" THEN s.origLen ELSE s.len

\* ActionCallData_prepareBuffer, when there is memory.
Prepared(s) ==
  IF s.buf # "null" THEN s
  ELSE [s EXCEPT !.buf = "own", !.room = s.origLen, !.len = s.origLen]

\* A system call answers as many bytes as asked or fewer, and what an ssize_t can hold.
Answers(n) == {got \in -1 .. n : got <= Longest}

\* n - m in a size_t.
Less(n, m) == IF m <= n THEN n - m ELSE n - m + 2 * (Longest + 1)

\* Fault for the runs to find: a system call is made in spite of an abort.
AskAlways(s, from, got) ==
  <<[sys |-> Primitives[function], mem |-> Memory(s), from |-> from, asked |-> Length(s),
     got |-> got]>>

\* Fault for the runs to find: the length of the program's buffer goes with an edited one.
AskOrig(s, from, got) ==
  IF s.aborted THEN <<>>
  ELSE <<[sys |-> Primitives[function], mem |-> Memory(s), from |-> from,
          asked |-> s.origLen, got |-> got]>>

\* ActionSyscall_perform: the system call it makes, and what the record becomes.
Ask(s, from, got) ==
  IF s.aborted THEN <<>>
  ELSE <<[sys |-> Primitives[function], mem |-> Memory(s), from |-> from,
          asked |-> Length(s), got |-> got]>>

\* Fault for the runs to find: errno is not saved after the system call.
ErrnoLost(got) == "stale"

\* What errno is worth after a system call that answers got: "stale" when it did not fail.
Errno(got) == IF got = -1 THEN "system" ELSE "stale"

Answered(s, got) ==
  IF s.aborted THEN s
  ELSE [s EXCEPT !.result = got, !.done = TRUE, !.err = Errno(got), !.origLen = Max({got, 0}),
                 !.len = IF s.buf = "null" THEN @ ELSE Max({got, 0})]

Reads(s, n) == IF direction = "Reading" /\ ~s.aborted THEN Max({filled, n}) ELSE filled

-----------------------------------------------------------------------------
(* The tasks.  One that answers false ends the walk.                        *)

Task == pc = "walk" /\ steps < MaxTasks /\ steps' = steps + 1

Done(s) == state' = s /\ pc' = "walk"
Refuse(s) == state' = s /\ pc' = "end"

Quiet == UNCHANGED <<function, vector, kernel, repeated, emptied, claim, filled, given>>

\* syscall: also when the call was made before, and then for what is left of it.
Syscall ==
  \E got \in Answers(Length(state)) :
    /\ Task
    /\ IF state.aborted THEN Refuse(state) ELSE Done(Answered(state, got))
    /\ kernel' = kernel \o Ask(state, 0, got)
    /\ filled' = Reads(state, got)
    /\ repeated' = (repeated \/ (state.done /\ ~state.aborted))
    /\ claim' = IF state.aborted THEN claim ELSE "none"
    /\ UNCHANGED <<function, vector, emptied, given>>

Drop ==
  /\ Task
  /\ IF state.done THEN Refuse(state) /\ UNCHANGED claim
     ELSE Done([state EXCEPT !.aborted = TRUE, !.result = Length(state)]) /\ claim' = "drop"
  /\ UNCHANGED <<function, vector, kernel, repeated, emptied, filled, given>>

\* Fault for the runs to find: the answer is an error, and nothing says there is one.
FailForgets(err, by) ==
  /\ Task
  /\ IF state.done THEN Refuse(state) /\ UNCHANGED claim
     ELSE Done([state EXCEPT !.result = -1, !.err = err]) /\ claim' = by
  /\ UNCHANGED <<function, vector, kernel, repeated, emptied, filled, given>>

\* An answer of -1 without a system call, with the error that goes with it.
Fail(err, by) ==
  /\ Task
  /\ IF state.done THEN Refuse(state) /\ UNCHANGED claim
     ELSE Done([state EXCEPT !.aborted = TRUE, !.result = -1, !.err = err]) /\ claim' = by
  /\ UNCHANGED <<function, vector, kernel, repeated, emptied, filled, given>>

\* errno is left as it was.
CancelSyscall == Fail(state.err, "cancel")

Error == Fail("rule", "none")

\* No signal is raised: the call answers as if one had interrupted it.
Emit == Fail("rule", "none")

\* error EAGAIN, in a call that blocks.
ErrorInvalid == Task /\ Refuse(state) /\ Quiet

Truncate(n) ==
  /\ Task
  /\ IF state.done \/ state.aborted \/ direction \notin Data THEN Refuse(state)
     ELSE Done([state EXCEPT !.origLen = Min({@, n}), !.len = Min({@, n})])
  /\ Quiet

\* reset closes the descriptor under the call, whether it was aborted or not.
Reset ==
  /\ Task
  /\ IF state.done THEN Refuse(state) /\ UNCHANGED claim
     ELSE Done([state EXCEPT !.done = TRUE, !.result = -1, !.err = "rule"]) /\ claim' = "none"
  /\ UNCHANGED <<function, vector, kernel, repeated, emptied, filled, given>>

\* alter reads first, and edits a copy of what is written.
Alter ==
  \E got \in Answers(Length(state)) :
    LET reads == direction = "Reading" /\ ~state.done
        s == IF reads THEN Answered(state, got) ELSE state IN
    /\ Task
    /\ IF direction \notin Data \/ (direction = "Writing" /\ state.done) THEN Refuse(state)
       ELSE Done(Prepared(s))
    /\ kernel' = IF reads THEN kernel \o Ask(state, 0, got) ELSE kernel
    /\ filled' = IF reads THEN Reads(state, got) ELSE filled
    /\ UNCHANGED <<function, vector, repeated, emptied, claim, given>>

\* What is shown of a call never changes it; dump may fail to open its file.
Nop  == Task /\ Done(state) /\ Quiet
Echo == Task /\ Done(state) /\ Quiet
Log  == Task /\ Done(state) /\ Quiet
Dump == Task /\ (Done(state) \/ Refuse(state)) /\ Quiet

-----------------------------------------------------------------------------
(* split.                                                                   *)

Share(p, n) == IF (p * n) \div 100 = 0 THEN 1 ELSE (p * n) \div 100

SplitRead(p) ==
  \E got \in Answers(Share(p, state.len)) :
    LET s == [state EXCEPT !.len = Share(p, @)] IN
    /\ Done(Answered(s, got))
    /\ kernel' = kernel \o Ask(s, 0, got)
    /\ filled' = Reads(s, got)

\* A write in two: the second part goes if the first went whole.
Whole(s) == \E got \in Answers(Length(s)) :
  /\ Done(Answered(s, got)) /\ kernel' = kernel \o Ask(s, 0, got)

\* The record between the two system calls of a write, and after them.
Part(s, n) == [s EXCEPT !.buf = Memory(s), !.len = n]

\* Fault for the runs to find: the record keeps the buffer of the program as its own.
RestoreLen(s, r) == [r EXCEPT !.len = s.len]

Restore(s, r) == [r EXCEPT !.buf = s.buf, !.len = s.len]

\* Fault for the runs to find: the answer is that of the second part.
InTwoLast(s, first) ==
  \E got1 \in Answers(first) : \E got2 \in Answers(Less(Length(s), first)) :
    LET r1 == Answered(Part(s, first), got1)
        s2 == Part(r1, Less(Length(s), first))
        r2 == Answered(s2, got2) IN
    IF got1 # first
    THEN Done(Restore(s, r1)) /\ kernel' = kernel \o Ask(Part(s, first), 0, got1)
    ELSE /\ Done(Restore(s, r2))
         /\ kernel' = kernel \o Ask(Part(s, first), 0, got1) \o Ask(s2, first, got2)

InTwo(s, first) ==
  \E got1 \in Answers(first) : \E got2 \in Answers(Less(Length(s), first)) :
    LET r1 == Answered(Part(s, first), got1)
        s2 == Part(r1, Less(Length(s), first))
        r2 == Answered(s2, got2) IN
    IF got1 # first
    THEN Done(Restore(s, r1)) /\ kernel' = kernel \o Ask(Part(s, first), 0, got1)
    ELSE /\ Done(Restore(s, [r2 EXCEPT !.result = Max({got2, 0}) + first]))
         /\ kernel' = kernel \o Ask(Part(s, first), 0, got1) \o Ask(s2, first, got2)

Split(p) ==
  /\ Task
  /\ IF state.done \/ state.aborted \/ direction \notin Data
     THEN Refuse(state) /\ UNCHANGED <<kernel, filled>>
     ELSE IF direction = "Reading" THEN SplitRead(p)
     ELSE /\ IF Length(state) = 1 THEN Whole(state)
                                  ELSE InTwo(state, Share(p, Length(state)))
          /\ UNCHANGED filled
  /\ emptied' = (emptied \/ (~state.done /\ ~state.aborted /\ direction \in Data
                                 /\ Length(state) = 0))
  /\ UNCHANGED <<function, vector, repeated, claim, given>>

-----------------------------------------------------------------------------
(* replay and dump.                                                         *)

\* What a trace may hold of an event; the length is an error number when it failed.
Traced == [direction : Range(Directions), success : -1 .. 1, length : 0 .. Requested + 1]

\* What dump writes of a call after its direction, and what replay expects there.
Dumped ==
  LET settled == state.done \/ state.aborted IN
  [success |-> IF ~settled THEN 0 ELSE IF state.result = -1 THEN -1 ELSE 1,
   error   |-> settled /\ state.result = -1,
   data    |-> direction \in Data /\ state.result # -1]

HasData(e) == e.direction \in Data /\ e.success # -1

\* Fault for the runs to find: the recorded length is the answer, whatever fits.
FitsAny(s, e) == TRUE

Fits(s, e) == e.length <= s.len

\* The record once the event was read, and after it was found to match the call.
Loaded(e) == IF HasData(e) THEN Prepared(state) ELSE state

Played(s, e) ==
  LET answer == IF e.success = -1 THEN -1 ELSE IF HasData(e) THEN e.length ELSE 0
      r == [s EXCEPT !.result = answer, !.err = IF e.success = -1 THEN "rule" ELSE "stale"] IN
  IF HasData(e) THEN [r EXCEPT !.origLen = e.length, !.len = IF s.buf = "null" THEN @ ELSE e.length]
  ELSE r

\* No trace, the end of it, or a success out of range.
ReplayUnreadable == Task /\ Refuse(state) /\ Quiet

\* The event is about another call, does not fit, or is cut short.
ReplayUnfit(e) ==
  /\ Task
  /\ ~state.done
  /\ HasData(e) \/ e.direction # direction
  /\ Refuse(Loaded(e))
  /\ Quiet

\* A write is made, with the data of the trace, whatever the trace says it answered.
Replay(e) ==
  \E got \in Answers(Requested) :
    LET s == Played(Loaded(e), e) IN
    /\ Task
    /\ ~state.done
    /\ e.direction = direction
    /\ HasData(e) => Fits(Loaded(e), e)
    /\ IF direction = "Writing"
       THEN /\ got <= Length(s)
            /\ Done([Answered(s, got) EXCEPT !.aborted = TRUE])
            /\ kernel' = kernel \o Ask(s, 0, got)
            /\ filled' = filled
       ELSE /\ Done([s EXCEPT !.aborted = TRUE])
            /\ kernel' = kernel
            /\ filled' = Max({filled, Min({s.result, Requested})})
    /\ claim' = "none"
    /\ UNCHANGED <<function, vector, repeated, emptied, given>>

-----------------------------------------------------------------------------
(* The wrapper.                                                             *)

\* Fault for the runs to find: every buffer is taken to be as long as the first.
ScatterEven(v, n) ==
  LET left[i \in 1 .. Len(v) + 1] ==
        IF i = 1 THEN Max({n, 0}) ELSE left[i - 1] - Min({left[i - 1], v[1]})
  IN [i \in 1 .. Len(v) |-> Min({left[i], v[1]})]

\* The loop of prepareReadIOVec: each buffer takes what is left, up to its length.
Scatter(v, n) ==
  LET left[i \in 1 .. Len(v) + 1] ==
        IF i = 1 THEN Max({n, 0}) ELSE left[i - 1] - Min({left[i - 1], v[i - 1]})
  IN [i \in 1 .. Len(v) |-> Min({left[i], v[i]})]

Returned(n) ==
  IF function = "read" THEN <<Max({n, 0})>>
  ELSE IF function = "readv" THEN Scatter(vector, n)
  ELSE <<>>

\* A rule matches: the walk begins.
Begin ==
  /\ pc = "ready"
  /\ state' = IF direction = "Writing" THEN [Idle EXCEPT !.origLen = Requested]
              ELSE [Idle EXCEPT !.buf = IF direction = "Reading" THEN "orig" ELSE "null",
                                !.room = Requested, !.len = Requested, !.origLen = Requested]
  /\ pc' = "walk"
  /\ UNCHANGED <<function, vector, steps, kernel, repeated, emptied, claim, filled, given>>

\* No rule matches, or nothing is known of the descriptor, or there is no memory for the
\* vector: the system call is made as it is.
Bypass ==
  /\ pc = "ready"
  /\ \E got \in Answers(Requested), sys \in Range(Primitives) :
       /\ sys = Primitives[function] \/ (function = "sendmsg" /\ sys = "out")
       /\ state' = [Idle EXCEPT !.result = got, !.err = Errno(got)]
       /\ kernel' = <<[sys |-> sys, mem |-> "orig", from |-> 0, asked |-> Requested, got |-> got]>>
       /\ filled' = IF direction = "Reading" THEN Max({got, 0}) ELSE 0
       /\ given' = Returned(got)
  /\ pc' = "returned"
  /\ UNCHANGED <<function, vector, steps, repeated, emptied, claim>>

\* No rule follows.
Stop ==
  /\ pc = "walk"
  /\ pc' = "end"
  /\ UNCHANGED <<function, vector, state, steps, kernel, repeated, emptied, claim, filled, given>>

\* What no rule did, nor aborted, is done; then the call returns.
Return ==
  \E got \in Answers(Length(state)) :
    LET pending == ~state.done /\ ~state.aborted
        s == IF pending THEN Answered(state, got) ELSE state IN
    /\ pc = "end"
    /\ state' = s
    /\ kernel' = IF pending THEN kernel \o Ask(state, 0, got) ELSE kernel
    /\ filled' = IF pending THEN Reads(state, got) ELSE filled
    /\ given' = Returned(s.result)
    /\ pc' = "returned"
    /\ UNCHANGED <<function, vector, steps, repeated, emptied, claim>>

Next ==
  \/ Begin \/ Bypass \/ Stop \/ Return
  \/ Syscall \/ Drop \/ CancelSyscall \/ Error \/ ErrorInvalid \/ Emit \/ Reset \/ Alter
  \/ Nop \/ Echo \/ Log \/ Dump \/ ReplayUnreadable
  \/ \E n \in Sizes : Truncate(n)
  \/ \E p \in Percents : Split(p)
  \/ \E e \in Traced : ReplayUnfit(e) \/ Replay(e)

Spec == Init /\ [][Next]_vars
-----------------------------------------------------------------------------
Ended == pc = "returned"

\* No system call goes beyond the buffer it is about, whatever was truncated, split, copied or
\* replayed before.  One exception is in the code: a split of no byte goes for one byte all the
\* same, and a write then for all that a size_t can count, the length less one (split.c:68-83).
WithinBuffer ==
  ~emptied => \A i \in DOMAIN kernel :
    LET k == kernel[i] IN
    k.from + k.asked <= IF k.mem = "own" THEN state.room ELSE Requested

\* A write tells the program how many of its bytes the kernel took, and they are the first
\* ones, in order and once: over the two system calls of split, and when one of them is short
\* or fails.  A rule set that asks for the system call again is on its own.
WriteExact ==
  Ended /\ direction = "Writing" /\ kernel # <<>> /\ ~repeated =>
    /\ kernel[1].from = 0
    /\ \A i \in 1 .. Len(kernel) - 1 :
         kernel[i].got = kernel[i].asked /\ kernel[i + 1].from = kernel[i].from + kernel[i].got
    /\ LET taken == SumFunction([i \in DOMAIN kernel |-> Max({kernel[i].got, 0})])
       IN state.result = IF kernel[1].got = -1 THEN -1 ELSE taken

\* Bytes that a read announces were put in the buffer by the kernel or by a trace, except those
\* that drop pretends to have read.
ReadFilled == Ended /\ direction = "Reading" /\ claim # "drop" => state.result <= filled

\* A call that answers -1 leaves the errno of the system call that failed, or of the rule that
\* failed it; cancel-syscall alone leaves any.
FailureExplained == Ended /\ state.result = -1 /\ claim # "cancel" => state.err # "stale"

\* The buffers of the program are filled one after the other with the bytes announced.
FilledInOrder ==
  Ended /\ function = "readv" =>
    \A i \in DOMAIN vector :
      SumFunction([j \in 1 .. i |-> given[j]])
        = Min({Max({state.result, 0}), SumFunction([j \in 1 .. i |-> vector[j]])})

\* The buffer that a write frees when it returns is a copy, never the one of the program.
FreesOwn == pc = "end" /\ direction = "Writing" => state.buf \in {"null", "own"}

\* dump writes a length and data, or an error, or neither; replay reads back what is there,
\* whenever in a call the dump is made.
DumpReadable ==
  pc = "walk" =>
    /\ Dumped.error <=> Dumped.success = -1
    /\ Dumped.data <=> HasData([direction |-> direction, success |-> Dumped.success])

\* Once a rule has aborted a call no system call is made for it.
AbortFinal == [][state.aborted => kernel' = kernel]_vars
=============================================================================
