# A TLA+ model of libinject

libinject is a library preloaded into a program (`LD_PRELOAD`). It replaces
`read`, `write`, `recv`, `send`, `connect`, `close` and their variants, and runs a
set of rules on each call: a rule may let the system call be, delay it, cut it,
fail it, replay it from a dump. The rules are read from a file when the program
starts and can be edited while it runs, through a small text interface.

This directory holds the TLA+ model of that program, the TLC runs that check it
on small instances, and the theorems about it that TLAPS checks. File and line
references are to `src/src/` unless they say otherwise.

## 1. Inventory

| Component | State | Operations | What is hard |
|---|---|---|---|
| Rule queue (`actions.c`) | a table of rules by line, under an rwlock; each rule's count of accessors and "emptying" flag, under the rule's mutex | `ActionQueue_process` (walk), `put`, `remove`, `list`, `getMatch`, `getFrom` | rules freed while threads walk them; a mutator that waits for walkers; a walker that is also a mutator |
| Tasks (`actions/*.c`) | per-call data (`ActionCallData`), per-socket data (`ActionSocketData`) | one `perform` per task | a hang spans several calls; `remove` edits the queue it is run from; tasks come in any order; a split write is two system calls |
| Conditions and filters (`conditions/*.c`, `Action_match`) | what the parser wrote, the creation time of the rule | one `match` per condition | boundaries; which end of the socket is the source |
| LigHT (`ligHT.c`) | open-addressing table, one rwlock | `put`, `get`, `contains`, `remove`, `clear`, growth | holes in probe chains; a full table; rehashing in place; clearing |
| Sockets (`binding.c`, `socketinfo.c`) | descriptor -> `SocketInfo` (counted, "to destroy") | every intercepted call, `connect`, `close` | the object is looked up, then locked; replaced and destroyed concurrently |
| Ruleset edition interface (`runtime.c`) | one connection, one thread | `list`, `add`, `replace`, `remove`, `quit`, `exit` | commands cut by `read`; what is left of a client; clients one at a time |
| Configuration (`conffile.c`) | the initial queue, the settings of the interface, statics | `Config_init`, `Config_destroy` | statics that outlive a line and a file; a refused file; the last line |
| Parser (`parser.c`, `Action_parse`) | position, error, destinations | suite, first, optional, words, numbers, constants | an alternative given up half-way has moved and written |
| Tests, build scripts, log tools | - | - | not part of the running system |

How they interact: an intercepted call finds the `SocketInfo` of its descriptor in
the LigHT `sockets` (`binding.c:129-163`), then calls `ActionQueue_process` with a
callback that does the real system call. The walk reads rules through the rule
queue, asks each rule's condition and filters whether it matches, and performs
tasks, which read and write the per-call data, the per-socket data (kept in the
`SocketInfo`, with a LigHT of called lines) and, for `remove` and the `do-once`
mode, the queue itself. The runtime thread shares the queue with all the walkers. The
configuration puts the first rules in it, before any thread is there.

What makes each component correct:

- *Rule queue*: a rule is handed out only while it is in the table and is not being
  emptied; it is freed only when nobody holds it; the counts are exact; a removal
  ends; the table never shows a freed rule to a search.
- *Tasks*: no access beyond a buffer; the answer agrees with the bytes that moved; no
  system call after an abort; a hang ends; the once modes keep their word.
- *LigHT*: behaves as a map. *Sockets*: a `SocketInfo` lives as long as a call uses it,
  is destroyed once, and is about the socket the descriptor is now.
- *Conditions, filters*: the documented windows, frequencies and flows. *Parser*: what is
  accepted is what is written; `list` and `add` are inverse.
- *Configuration*: the effect is that of one file. *Interface*: it runs the commands it
  was sent, is not disturbed by the rules, and lets its clients go.

## 2. Modules

| Module | Content | State |
|---|---|---|
| `RuleTable` | abstract promise of the rule queue | checked, proved |
| `ActionQueue` | the rule queue, the walk, hangs, edition by rules and by the runtime thread | checked, proved about |
| `SparseMap` | the map that a LigHT promises to be | checked, proved |
| `LigHT` | the open-addressing table as libinject uses it | checked, proved about |
| `Sockets` | lookup, count, connect, close, per-socket data of a `SocketInfo` | checked, proved about |
| `Call` | `ActionCallData` through every task and the wrappers: buffers, lengths, answers | checked, proved about |
| `Filters` | the conditions, the hosts and the direction of a rule: which calls it is about | checked, proved about |
| `Grammar` | the parser, the grammar of a rule, its text | checked, proved about |
| `RuleShape` | what the parser makes of hosts and conditions: `Grammar` shows it, `Filters` relies on it | |
| `RuleLife` | `Grammar` and `Filters` put together: a rule from its text to its calls | checked, proved about |
| `Interface` | the configuration file and the ruleset edition interface | checked, proved about |
| `MC*` | instances of the above for TLC | |
| `ActionQueueProofs`, `ActionQueueSafety`, `LigHTProofs`, `CallProofs`, `SocketsProofs`, `InterfaceProofs`, `GrammarProofs`, `RuleProofs` | theorems | |

Only `MCRuleLife` declares a recursive operator, to build its texts. What is left of the plan:
`Inject`, the composition of `Sockets` and `ActionQueue`, for the hang of a socket whose info is
replaced between two reads, and the `close` that `reset` makes from inside a call.

## 3. The rule queue: `ActionQueue`

### State

| Variable | Code |
|---|---|
| `queue` | `ActionQueue.queue`, line -> rule |
| `status` | whether a rule object exists, is allocated or was freed; objects are not reused |
| `accessors`, `emptying` | the fields of `struct Action` of the same name (`actions.c:109-110`) |
| `writer` | the owner of the queue's rwlock for writing, while it is kept |
| `pc` | where each thread is in `ActionQueue_process`, `ActionQueue_remove`, `ActionQueue_put` or the command loop |
| `cur`, `nxt` | the locals `action` and `next` of `ActionQueue_process` |
| `stale` | a rule pointer used with no accessor (`actions.c:711`, `ActionQueue_list`) |
| `sock`, `dir`, `blocking` | the socket, the direction and `IS_BLOCKING` of the call in progress |
| `outcome` | `state.done`, `state.aborted` or neither |
| `ok` | what the task returned |
| `called` | `state.calledLines` (the lines of the call) |
| `hanging`, `hangPos`, `sockCalled` | `ActionSocketData`: `hanging`, `pos`, `calledLines` |
| `tgt`, `fresh`, `ret` | the line a mutator works on, the rule it will put there, where it returns |
| `cvar`, `woken` | condition variables: what a mutator sleeps on, who was signalled |
| `ran` | history: for whom a rule was performed |
| `fault` | a NULL or freed rule was dereferenced |

A rule object is an element of `Actions`; `Rule[a]` is what it was parsed into
(`RuleType`): line, condition, mode, task and its line argument, goto.

### Actions

One step is what the code does under one lock, or between two accesses to shared
state. A search holds the queue's rwlock for reading and takes the accessor inside,
so it is one step (`Begin`, `SkipNext`, `Follow`, `ResumeElsewhere`); `UNLOCK_ACTION`
is one step (`Skip`, `Break`, `Drop`). A write-locked section is two steps, `Destroy`
then `Store`, because `ActionQueue_list` and the resumption of a hang read the table
without the lock. `EMPTY_ACTION` gives the lock up while it waits: `Empty` raises the
flag, `Wake` is one return from `pthread_cond_wait` (spurious ones included).

| Action | Code |
|---|---|
| `Begin`, `Bypass` | first match, with `matched` = false (`actions.c:664-667`) |
| `Proceed`, `Poll`, `ResumeAtLine`, `ResumeElsewhere` | a socket that hangs (`670-683`) |
| `Select`, `Skip`, `SkipNext` | the once modes (`708-713`) |
| `ResumeHang`, `Performs`, `Unhang` | `Action_process` (`426-436`) |
| `PerformHang`, `PerformCall`, `PerformMark`, `PerformOther`, `PerformRemove` | the tasks |
| `Break`, `Record`, `Follow`, `Once`, `Drop`, `Finish` | the rest of the loop and of the call (`714-751`) |
| `Empty`, `Wake`, `Destroy`, `Store` | `EMPTY_ACTION`, `ActionQueue_remove`, the replacement of `ActionQueue_put` |
| `RuntimeRemove`, `PutFree`, `PutCollide`, `PutReplace`, `List`, `ListRead`, `Show` | the commands of `runtime.c` |

Data is abstracted to what the properties tell apart: a condition is `always`,
`never`, `matched`, `unmatched` or one that may answer anything (`maybe`: filters,
`prob`, clocks); a task is one of those that touch the queue, the socket, or the
outcome of the call, or `nop` (`log`, `dump`, `echo`, and data that is only changed),
or `fail`. The clock of a hang is the choice between `Poll` and a resumption.

Undefined behaviour: `Dangling(m)` is true when the next step of a thread goes through
a NULL or freed rule (`Pointers`). Then only `Fault` is possible, and nothing happens
afterwards: what the program does from there is not known, and no property is claimed.

### The abstract promise: `RuleTable`

`RuleTable` has a table, a set of retired rules, a set of reclaimed ones and, for each
thread, the rules it may use. A rule is acquired only from the table and not once
retired; it is reclaimed only once retired and held by nobody. `ActionQueue` maps to
it with `Entries` (an entry whose rule is already destroyed counts as empty),
`Retired`, `Gone` and `Holdings`; `KeepsPromise == Promise!Spec`. Destroy maps to
Reclaim, Empty to Retire, a search to Acquire, UNLOCK_ACTION to Release (or to
nothing when the walker still holds the rule as its next one), Store and put to
Install, a collision to Refuse, everything else to a stutter. The promise allows a
search to find nothing: while a rule is being replaced the code answers NULL and the
call bypasses the other rules as well (`actions.c:666`).

## 4. The table of descriptors and lines: `LigHT`

`slots` and `length` are the fields of the table, a key of -1 marking a free slot; `last` is
the operation just done with its answer. `Put`, `Contains`, `Get` and `Remove` are the
operations of `ligHT.c`, one step each: those of the shared table hold its lock, the others
work on a table one thread owns or whose caller serialises it. `Probe`, `First` and `HasRoom`
are the circular search of `LigHT_findEntry`.

A removal frees a slot and mends nothing, so in general a LigHT is not a map: an element put
behind a collision is lost when the colliding one is removed, and may come back later with what it
held. What makes a LigHT a map is how it is used (`Usages`): the tables of called lines are never
removed from, and descriptors below the capacity of their table (16380 slots, `binding.c:559`) never
share a slot. Nothing refuses a descriptor beyond that, nor a `read(-1)`: `getInfos` takes both to the
table (`binding.c:134-140`). The model has them:

- `cut` tells that a removal has left a hole on the way to another element. `ChainsUnbroken` and
  `KeepsMap` hold until then, whatever the keys; `NeverCut` says that it does not happen to a `Tame`
  usage: no removal, or keys below the capacity, and -1 with them.
- The key -1 is that of a free slot: it is there as long as there is room. A put under it writes a
  free slot as it was and counts it (`ligHT.c:185-193`); `strays` counts these puts. `LengthExact` says that
  `length` is the number of elements and of strays: no removal takes a stray back. `SparseMap` has what
  is answered under this key (`UnderNoKey`). A length beyond the capacity would make `LigHT_clear` leave
  the table when the library is unloaded (`ligHT.c:232`, `binding.c:573`).

`KeepsMap` says that every answer is the one `SparseMap` gives. `ThreeUsages` has, on three slots,
descriptors below the capacity and -1; five lines, so that the table is full, keys collide and probes
wrap around; and descriptors that collide with each other, with -1 and with another negative one,
and are removed.

## 5. The life of a SocketInfo: `Sockets`

| Variable | Code |
|---|---|
| `kernel` | what a descriptor is and its peer, as seen through `getsockname`, `getpeername` (external) |
| `table` | `sockets` (`binding.c`), here a map: `LigHT` shows it is one |
| `status` | whether an info object is allocated, live or freed; objects are not reused |
| `about` | protocol, remote end, and whether the local end is still to be learnt |
| `toDestroy`, `sem` | the fields of `SocketInfo` |
| `data` | its `ActionSocketData`: none, published, initialised |
| `pc`, `call` | where a thread is in an intercepted call, and its locals |
| `met`, `unnoticed` | history: what `UsedInfosLive` and `TableFresh` except, see below |

| Action | Code |
|---|---|
| `Lookup`, `Check`, `TestFails`, `TestPasses`, `Again`, `Refresh`, `Put` | `getInfos` (`binding.c:129-145`), `SocketInfo_check`, `SocketInfo_init` |
| `Light`, `LookupOld`, `LockOld`, `RetireOld` | `getInfosOnConnect` (`binding.c:147-163`) |
| `Unlock`, `Destroy` | `SocketInfo_unlock` |
| `Remove`, `Retire` | `close` (`binding.c:510-530`) |
| `GetData`, `Publish`, `Fill` | `ActionSocketData_get` (`actions.c:781-795`) |
| `Process`, `Bypass` | the system call, with rules or without |
| `Begin`, `Open`, `Replace` | the program: a call, a new descriptor, `dup2` |

A thread about to touch a freed info goes nowhere (`Run`): what the program does then is not
known. One constant is about the program: `Settled` says that it makes calls on open descriptors
only; that it does not `close` or `connect` a descriptor while another thread looks it up, nor begin a
call while one is closing or connecting it (`Admits`); and that it puts another file on a descriptor
(`dup2`) only when no call is at work on it (`Replace`). A call in progress beyond the lookup may be
overtaken by a `close`, data calls run side by side, also on an info that will fail its check, and `dup2` may
put a file of any kind, with any peer or none. Without `Settled`, `UsedInfosLive` is refuted
(`sockets_race`). With it, the properties name two exceptions:

- `met`: two calls at work together on an info that is about another socket, which takes a `dup2`
  over a UDP descriptor. Both find it unfit, one may free it while the other is about to lock it
  (`socketinfo.c:166-170`, `194-205`). Without this exception TLC finds the use after free.
- `unnoticed`: the check compares no peer, and the protocol for UDP only (`socketinfo.c:166-171`). A descriptor
  that was replaced by `dup2`, or given to a `connect` while it had a peer, has in the table an info that
  may be about the wrong socket, until the next info is put or the connect is accepted.

## 6. One call: `Call`

The record `state` is `ActionCallData`: `buf` is NULL, the program's buffer or a copy,
`room` its length, `len` and `origLen` the fields of that name, `result`, `done`, `aborted`
as in the code and `err` says whose `errno` is left. `kernel` is the history of the system
calls, `filled` the bytes of the program's buffer that hold data, `given` what each buffer of
a vector is told to hold, `claim`, `repeated` and `emptied` what the properties except.

One action per task of `actions/` (`Syscall`, `Drop`, `CancelSyscall`, `Error`, `Emit`, `Truncate`,
`Split`, `Reset`, `Alter`, `Replay`, `Dump`, ...), `Begin` and `Return` for the wrappers of
`binding.c` with their callbacks, `Bypass` for a call without rules. Which task comes next is not
decided here: any task may follow any other, up to `MaxTasks`, so that a behaviour stands for every
rule set. `Ask` and `Answered` are `ActionSyscall_perform`. Data are counts of bytes. `Replay` takes
any event a trace may hold. Lengths may be zero, by the program's buffers as by `truncate 0`: then
the split of a write asks for one byte, and when that went for as many as `Less(0, 1)`, which is
`SIZE_MAX` (`Longest`; `split.c:68-83`). The split of a read asks for one byte too. `emptied` tells
that a split was made of no byte, and `WithinBuffer` excepts what follows.

## 7. The text of a rule and its meaning: `Grammar`, `Filters`, `RuleLife`

In `parser.c` a parser is a value that calls put together (`Parser_add`, `Parser_newSubParser`,
...) and one function then runs. The grammar of a rule is fixed, so in `Grammar` each piece is an operator
that takes a state of the parser to the next one: what is left of the text, the answer, where the error
is, and what was written to the destinations. A state that failed goes through the pieces that follow
as it is; `Suite`, `Optional` and `First` are given what became of the state with what they hold, and
go back to it. An alternative that was given up leaves its error and what it wrote behind (`Retry`),
as in the code. The tables of `emit` and of `mark-done` have no last entry (`emit.c:41-97`,
`mark-done.c:41`): the search for a word that they do not have goes on behind them. `Strays` tells such
texts, and `RuleLife` leaves open what becomes of them (`Taken`: a refusal, or the stage `beyond`).
`Parse` is `Action_parse`, `Show` is `Action_show` with the writers of the tasks. Texts are sequences of
lexemes.

`Filters` is about what a rule does with a call. `Match` is `Action_match`, and each condition is
an operator that gives the set of answers the program may give. `Meet` asks a rule about a call:
the condition is asked when the direction fits (`Asked`), before the protocol and the hosts, as
`Action_match` does. `Flow` is the reference it is compared with: what the hosts describe
(`Describes`, `actions.h:66-77`), which for a host given by its address is not what the code does:
`MatchesFlow` leaves rules with such a host out (`ByAddress`). `Trap` is the division by zero of a cycle
that lasts no time. A rule keeps no state but the time it was made, so that one call says all of it.

`RuleLife` composes the two. `Create` parses a text, `List` writes the rule and `Feed` parses what was
written; or `Put` puts the rule into the queue, and from then on the steps are those of `Filters`.
`HostsFit` and `ConditionFits` of `RuleShape` are the contract of the two: `ShapeKept` says that every
rule the parser accepts has this shape, and what is proved of a call needs it of the rule.

`MCRuleLife` builds texts from eight parts (line, `on`, protocol, hosts, condition, task, goto,
end), each with its meaning: that gives `ParsedAsWritten` a reference independent of the
parser. At most two parts differ from those of a plain rule, at most one is wrong; to these it adds
the text of each rule that is to meet calls.

## 8. Where the rules come from: `Interface`

`TakeLine`, `Reread` and `EndOfFile` are the loop of `Config_init`, with its static `port` and
`word`, `Refuse` is `Config_destroy` and the second file of `inj_init`. `Start` is `Runtime_start`;
`Accept`, `Receive`, `Command`, `Skip`, `Broken` are `Runtime_thread`. `stream` is what was sent and
not read, `said` all that was sent on the connection, or into the pipe, where other writers join at
any time (`Arrive`). `Receive(n)` cuts the stream at any lexeme: before the colon of a verb, which
stands for a cut inside of the verb too, neither part being a command; between two digits, or inside
of a rule. What a cut leaves of a rule may be another rule (`Rules`): `goto 1|0` and `remove: 1|0`
are carried out on line 1. `buffer` is what is left of the bytes read, from `pos` on; `Line` is the
line there, and `After` what follows its end. `Entries` are the lines a file may have: `Parse_word`
reads no empty word, and a port of 0 stands for none. `PortUpto` is the rule that the static `port`
follows: the last one given before, also by a file that was refused (`PortFound`). The queue is a
text per line: its concurrency is the matter of `ActionQueue`, whose `RuntimeRemove`, `PutFree`,
`PutCollide`, `PutReplace` and `List` are what these commands do to it.

## 9. Properties

| Property | Meaning | Hazard |
|---|---|---|
| `TypeOK` | types of the queue, and which threads may be where | |
| `AccessorsExact` | the count of a rule is the number of times walkers hold it | a leaked or doubled accessor |
| `HeldRulesLive` | no rule is freed under a walker that holds it | removal against walks |
| `TableLive` | outside of a write-locked section no entry is freed, no rule is twice in the table | destroy and store are two steps |
| `NoNewAccessors` | an emptied rule's count never grows (action property) | a search racing the flag |
| `PerCallOnce` | a do-once-per-call rule is performed once in a call (action property) | gotos back to it, replaced lines |
| `RemovalCompletes` | a removal or replacement by the runtime thread ends (liveness) | lost signal, loops of gotos |
| `HangEnds` | a hanging socket stops hanging (liveness) | resumption after the delay |
| `KeepsPromise` | the queue implements `RuleTable` (refinement) | all of the above |
| `OnceRemoved` | a performed do-once rule leaves the queue (liveness); refuted | self-removal |
| `KeepsMap` | the table implements `SparseMap` until a removal leaves a hole in a chain (refinement) | holes in probe chains, full table |
| `ChainsUnbroken` | until then, every element is reached from its home slot | the same, before it shows |
| `NeverCut` | no removal leaves such a hole among descriptors below the capacity and -1 | the same |
| `LengthExact` | `length` is the number of elements, and one more for each put under -1 | replaced, refused, removed, stray elements |
| `CountExact` | `sem` is the number of accessors of an info | the paths through check, connect, close |
| `UsedInfosLive` | no call uses an info that was freed, none is freed twice, `met` ones excepted | lookup against close; refuted without `Settled` |
| `TableFresh` | what the table says of a descriptor at rest is true, or the next check finds out, `unnoticed` ones excepted | closed, reused, connected descriptors |
| `RetiredFreed` | a retired info is freed in the end (liveness) | the flag and the count are apart |
| `WithinBuffer` | no system call goes beyond its buffer, unless a split was made of no byte | truncate, split, alter, replay combined |
| `WriteExact` | a write announces the bytes that went, the first ones, in order, once | short and failing halves of a split |
| `ReadFilled` | a read announces only bytes that somebody put there | aborts, replay of more than fits |
| `FilledInOrder` | the buffers of a vector are filled one after the other | scattering an error or a short answer |
| `FailureExplained` | -1 comes with an errno of its own | a failure of one of two calls |
| `FreesOwn` | a write frees a copy only | the buffer moved by split |
| `DumpReadable` | `dump` writes what `replay` reads, at any time of a call | the order of optional fields |
| `AbortFinal` | no system call after an abort (action property) | tasks in any order |
| `ParsedAsWritten` | accepted exactly when well formed, with the meaning and defaults | backtracking |
| `ErrorTold` | a refusal says where the text is wrong | errors of alternatives given up |
| `RefusalTold` | no error is left after an acceptance, and one in the text or at its end after a refusal, words that `emit` and `mark-done` do not know excepted | the same, over optional parts and alternatives that win late |
| `ShapeKept` | an accepted rule has the hosts of its direction and the arguments of its condition | what given up alternatives have written |
| `ListedReadable` | a listed rule can be given back and is the same | writers and parsers written apart |
| `MatchesFlow` | a rule with hosts `me`, `any` and `dns` is about the calls they and its direction describe; with an address, it is about the others | the source depends on the call |
| `ConditionTold` | conditions hold when their description says, `between` and the one value that `prob` adds excepted | boundaries |
| `ConfigIsFile` | the configuration is that of the first file that is well formed and meant for the program, but for the port where only a name is given: the last one given before, in the refused file if not in this one | statics, refused files, sections |
| `StringsOwned` | no string of the configuration is owned twice or by a refused file | double free |
| `RereadHarmless` | the last line taken twice changes nothing (action property) | `feof` before `fgets` |
| `Whitelisted` | a TCP interface is protected by rule 0, unless a client said to take it away or to replace it (an `add` there is refused) | a rule 0 in the file |
| `OwnCommands` | what is run on a connection is a part of what was sent on it, and nothing after quit | chunks, leftovers, several writers |
| `ClientLetGo` | a client that says quit or exit is let go, unless a read ends within that word (liveness) | lines skipped before it |

## 10. Runs

| Run | Instance | Shows |
|---|---|---|
| `queue_shared` | 2 threads, 1 socket, 2 lines, 4 rule objects with gotos in both directions; the runtime thread may replace line 0 once, and remove and list at will | `AccessorsExact`, `HeldRulesLive`, `KeepsPromise`, `RemovalCompletes` |
| `queue_kinds` | 2 threads, both directions, 6 pairs of rules covering every mode, task and goto | `TypeOK`, `TableLive`, `NoNewAccessors`, `PerCallOnce` |
| `queue_hang` | 2 threads reading 1 socket, a hang rule alone or before another rule | `HangEnds` |
| `light_map` | 3 slots, three usages, 2 data; 52 905 states | `LengthExact`, `ChainsUnbroken`, `NeverCut`, `KeepsMap` |
| `sockets_settled` | 2 threads, 1 descriptor, 2 peers, 3 infos; 287 736 states | `CountExact`, `UsedInfosLive`, `TableFresh`, `RetiredFreed` |
| `call_tasks` | all functions, 5 vectors, 4 tasks; 59 006 states | the eight properties of `Call` |
| `rule_life` | texts with two unusual parts; rules with every combination of hosts or every condition, 20 sockets, 4 directions, 13 moments; 381 082 states | the seven properties of `Grammar`, `Filters` and `RuleLife` |
| `config_interface` | 18 texts, pairs of files, 4 scripts of clients; 257 298 states | the six properties of `Interface` |
| `once_never_removed` | 1 thread, 1 do-once rule | `OnceRemoved` refuted |
| `hang_leaks` | 1 thread, 1 hang rule | `AccessorsExact` refuted |
| `remote_hang_forever` | 1 thread, 1 remote-hang rule | `HangEnds` refuted |
| `sockets_race` | as `sockets_settled` without `Settled` | `UsedInfosLive` refuted |

Bounds of the queue, and why they are enough:

- *Two threads*: one may be on a rule as its current one while the other has it as
  its next one or waits for it, and together with the runtime thread three parties
  meet on a line.
- *Two lines*: a goto can go forwards, backwards or to its own line; a search can pass
  over a line that does not match. `Capacity` is 2 (1 in `once_never_removed`).
- *Rule objects* are not reused, so `Addable` bounds how many editions a behaviour
  has; removals are not bounded.
- `MaxLeak` bounds how far polls and resumptions may drive a count away from zero
  (`Poll`, `ResumeAtLine`, `ResumeElsewhere`); without it the leak of `hang_leaks`
  makes the state space infinite. A poll beyond the bound does not happen in the model.
  It is 2 in `queue_hang` (both threads may leak), 1 in `queue_kinds`, and plays no part
  in `queue_shared`, which has no hang.
- `FirstUserLine` stands for 10 (`actions/remove.c:51`); `QueueKinds.cfg` has it at 1,
  so that a `remove` task is refused on line 0 and allowed on line 1.
- `Directions` is `{"Writing"}` where hangs play no part: directions matter to the
  queue through hangs only. `Rulesets` are the queues a program may start with.

Bounds of the others:

- *`Sockets`*: `Infos` are three objects that are never reused; `Affords` lets a call begin
  only when each call in progress has one left. One call may then retire an info while
  another uses it and a third object takes its place. A descriptor may be opened as, and replaced by,
  a TCP or UDP socket with one of two peers or none, or a file.
- *`LigHT`*: three slots let a chain wrap around and have a hole in its middle. `MaxStrays` is one put
  under the key -1, without which `length` grows without end; a second one does to `length` what the
  first did.
- *`Call`*: `Percents` are the ends and the middle, `Sizes` zero, one below and one above a part of
  the vectors, which are an empty buffer, one, two, and three with an empty one in the middle. Four tasks
  are a truncate, a copy, a partial call and what comes after it. `Longest` is 7: a `size_t` then counts
  to 15, more than any buffer of the run holds, and a length of 0 less 1 is that. Other lengths are far below
  the width of the type.
- *`Grammar`*: two unusual parts make every pair of neighbours and of alternatives meet.
- *`Filters`*: each kind of host with and without a port, ends that agree with an address or a port
  or neither; the moments are the last and the first of each window of the numbers 0, 10 and 80, in
  the first turns of a cycle, and the chances on both sides of a `prob`.
- *`Interface`*: `Chunk` cuts commands at any lexeme or not at all; the scripts have commands
  behind a quit, an empty remove, an edition of line 0, a reset, and numbers cut in two, of a line to
  remove and of a line to go to. As writers of a pipe, the clients of a script follow each other on one
  stream.

`CHECK_DEADLOCK FALSE`: nothing happens after a fault in the queue (or after the use of a
freed info in `sockets_race`), a walker that removes the rule it holds stops for ever (the
subject of `once_never_removed`); `Sockets` stops when all infos are used up; a call, the life of a
rule's text, the verdict of a rule, the files and the clients come to an end.

### Fairness

`LiveSpec` of `ActionQueue` is weakly fair to each thread that is inside a call or a command
(`Runs`): a running thread is scheduled. It does not make a thread begin a call nor the runtime
thread receive a command, it does not force a poll, and it counts on a sleeper to wake
up only once it was signalled. Locks need no fairness of their own: the write-locked
section cannot block. `HangSpec` adds what a hang needs from outside, as strong
fairness: the application goes on reading the socket, and the clock advances, so that
reads of a hanging socket are not answered EAGAIN for ever. Both are enabled again and
again but not continuously, hence strong fairness.

`RemovalCompletes` holds although walkers may loop through gotos for ever: while a rule
is being emptied no search hands it out, so each walker leaves it for good.

`LiveSpec` of `Sockets` is weakly fair to each thread inside a call, and asks nothing of the
program. `Spec` of `Interface` is weakly fair to the thread of the interface (`Served`): it
reads what there is. Nothing makes a client write, leave or reset.

## 11. Where the code and its documents part

### Refuted

1. *do-once* (`actions.c:736-739`). The walker removes its rule before it gives back
   its own accessor, and waits for itself. `actions.h:84-85` promises a removal.
2. *Accessors of a hang* (`actions.c:670-676`). A poll returns without giving back the
   accessor of the first match; a resumption swaps the rule for another without an
   accessor. From then on the line can never be emptied. The comment of the field
   (`actions.c:109`) calls it the number of processings using the rule.
3. *remote-hang* (`actions.c:431`). Only the `hang` task is recognised at the end of
   a hang; `remote-hang` hangs again, for ever. The same happens to `local-hang` after
   an abort of the call.
4. *Lookup of an info* (`binding.c:134`). An info is taken out of the table and locked in two
   steps; in between, a `close` or a `connect` of another thread frees it.

### Seen while modelling, with no run

Rule queue:

- A skipped rule is read after its accessor was given back (`actions.c:710-711`): with
  a mutator waiting, that is a use after free. In the model it is a `Fault`.
- `remove` of an empty line goes through a NULL rule (`actions.c:755`, `runtime.c:282`).
- Two mutators on one line: the second destroys or replaces a rule without having
  waited for its accessors. Hence `OneMutatorPerLine` in the theorems below.
- The search after a hang whose line is gone has its two last arguments swapped
  (`actions.c:677`); the model does as the code does.

Sockets:

- `toDestroy` is read again, without the lock, after the check (`binding.c:136`): set by
  another thread in between, it makes the caller forget the accessor it has just taken.
  `Settled` keeps this away.
- Two first calls on a descriptor both make an info; the one that the table loses is never freed
  (`RetiredFreed` speaks of retired infos).
- The per-socket data is shown to the other threads before it is filled in, and two threads
  may both allocate it (`actions.c:785-791`).
- `dup2` of a socket on a TCP one, or of a UDP socket on another, is not noticed: the check compares no
  peer, and the protocol for UDP only (`socketinfo.c:166-171`). Nor is a `connect` to a second peer that the
  kernel refuses: the table has the peer it was to have. `TableFresh` excepts both (`unnoticed`).
- Two calls that meet on an info which is about another socket both retire it, and one may free it while
  the other is about to lock it. It takes a `dup2`, but no `close` or `connect` (`met`).

Calls:

- `writev` and `sendmsg` are `Reading` for the rules, and the system call made for a
  `sendmsg` under rules is the one of `recvmsg` (`binding.c:340`, `460`). The model does so.
- A rule that asks for the system call again sends what is left a second time; `WriteExact`
  excepts it (`repeated`).
- The replay of a write makes the system call and forgets the answer of the trace
  (`actions/replay.c:128`). A replay that fails has overwritten the data already; one whose
  event has more data than fits leaves the trace in the middle of a record.
- `alter 0` divides by zero (`actions/alter.c:66`). `emit` raises no signal.
- A `split` of no byte, an empty buffer or one that `truncate 0` shortened, reads or writes one byte
  beyond the buffer all the same; that of a write then goes for the length less one, `SIZE_MAX` bytes
  (`actions/split.c:68-83`). The model does both; `WithinBuffer` excepts them (`emptied`).

Text and conditions:

- The tables of signals of `emit` (`actions/emit.c:41-97`) and of kinds of `mark-done`
  (`actions/mark-done.c:41`) have no last entry, so that the search for any other word goes on behind
  them (`parser.c:319-332`). The texts of `rule_life` have such words (`Strays`); what becomes of them is left
  open, and no property is stated of it.
- `error` and `emit` never finish being listed when their constant is not the first of the
  table (stage `stuck`); `truncate` is listed as `trucate`; `ListedReadable` excepts them.
- `sameHost` is inverted (`actions.c:386`, `AddressMatch`): a rule with the address of a host is about
  the traffic of all the others, against `actions.h:66-77`. `MatchesFlow` is stated for rules with
  `me`, `any` and `dns`. `between` reads the wrong half of its data (`Between` may answer
  anything); `prob` compares with `<=`; `cycle` with two zeros divides by zero.
- A host whose name begins with `me.`, `any.` or `dns.` is refused.

Configuration and interface:

- A runtime line that gives no port has the port of an earlier one, also of a file that was
  refused (`conffile.c:161-182`): after `tcp: 80` in a refused file, `tcp: http` in the default one listens on
  80. `ConfigIsFile` says which port it is (`PortUpto`, `PortFound`). Where there is none, `tcp: http` has port
  0, and the kernel picks one: rule 0, `with me port 0`, then does not cover the traffic of the interface,
  and `Whitelisted` says no more than that this rule is there. `pipe: 7up` loses its name to the number.
- The strings of a line that a later one overrides leak. A file without a line and a comment behind a runtime
  line (`conffile.c:80`) make the program use what is not there; both are excluded.
- A client that leaves without `quit` is never noticed (`read` answers 0); after a reset the
  answer may raise SIGPIPE (`killed`); the length given to `accept` is not initialised
  (`AcceptFails`).
- A command cut by `read` is lost, refused, or carried out as another one: `remove: 1|0` removes line 1,
  and a rule that ends in `goto 1|0` is put with a goto to line 1. `OwnCommands` says that what is run is
  a part of what was sent, no more. A `quit` that is cut within its word is lost, and the client is not
  let go; `ClientLetGo` excepts it (`CutShort`).
- The writers of a pipe share one stream: the line that one leaves open goes on with the first of
  the next.

LigHT:

- `LigHT_clear` lowers the bound of its own loop (`ligHT.c:232`).
- A descriptor of 16380 or more shares a slot with another one, and nothing refuses it: when one of the
  two is closed the other may be lost behind the hole, be put again elsewhere, and its old entry
  come back later. The header says it of the table: collisions "are not correctly handled"
  (`ligHT.h:41-42`). In the model `cut` tells, and the map is kept until then.
- Each `read(-1)` or `close(-1)` puts something under the key of a free slot: the table stays
  as it was, but `length` grows, and with it the loop of `LigHT_clear`.

## 12. Proofs

TLAPS checks every proof, with SMT, Zenon and LS4 only. The constants are arbitrary sets under
the assumptions of each module, which TLC evaluates on the instances.

| Theorem | Module | Assumes | States |
|---|---|---|---|
| `TypeCorrect` | `ActionQueueProofs` | - | `Spec => []TypeOK` |
| `NoNewAccessorsCorrect` | `ActionQueueProofs` | - | `Spec => NoNewAccessors` |
| `PerCallOnceCorrect` | `ActionQueueProofs` | - | `Spec => PerCallOnce` |
| `TableLiveCorrect` | `ActionQueueSafety` | - | `Spec => []TableLive` |
| `AccessorsExactCorrect` | `ActionQueueSafety` | `NoHang` | `Spec => []AccessorsExact` |
| `HeldRulesLiveCorrect` | `ActionQueueSafety` | `NoHang` | `Spec /\ []OneMutatorPerLine => []HeldRulesLive` |
| `OneMutatorCorrect` | `ActionQueueSafety` | `NoEditors` | `Spec => []OneMutatorPerLine` |
| `RuntimeEditsSafe` | `ActionQueueSafety` | `NoHang`, `NoEditors` | `Spec => []HeldRulesLive` |
| `KeepsPromiseCorrect` | `ActionQueueSafety` | `NoHang` | `Spec /\ []OneMutatorPerLine => KeepsPromise` |
| `RuntimeEditsKeepPromise` | `ActionQueueSafety` | `NoHang`, `NoEditors` | `Spec => KeepsPromise` |
| `ChainsUnbrokenCorrect`, `NeverCutCorrect`, `LengthExactCorrect`, `KeepsMapCorrect` | `LigHTProofs` | - | `Spec => []ChainsUnbroken`, `[]NeverCut`, `[]LengthExact`, `KeepsMap` |
| `WithinBufferCorrect`, `FreesOwnCorrect`, `FailureExplainedCorrect`, `ReadFilledCorrect`, `DumpReadableCorrect`, `WriteExactCorrect`, `FilledInOrderCorrect` | `CallProofs` | - | `Spec => []` of each |
| `AbortFinalCorrect` | `CallProofs` | - | `Spec => AbortFinal` |
| `CountExactCorrect`, `UsedInfosLiveCorrect`, `TableFreshCorrect` | `SocketsProofs` | `Settled` | `Spec => []` of each |
| `ConfigIsFileCorrect`, `StringsOwnedCorrect`, `WhitelistedCorrect`, `OwnCommandsCorrect` | `InterfaceProofs` | - | `Spec => []` of each |
| `RereadHarmlessCorrect` | `InterfaceProofs` | - | `Spec => RereadHarmless` |
| `SpelledParsed` | `GrammarProofs` | - | the text of a rule well written is accepted, as that rule |
| `ParsedSpelled` | `GrammarProofs` | the text does not stray | a text that is accepted is that of a rule well written |
| `ErrorOrRule` | `GrammarProofs` | the text does not stray | a text is accepted without an error or refused with one |
| `ShownParsed` | `GrammarProofs` | - | what is listed of an accepted rule, `truncate` excepted, is accepted, as that rule |
| `RefusalToldCorrect`, `ShapeKeptCorrect`, `ListedReadableCorrect` | `RuleProofs` | - | `Spec => []` of each |
| `ParsedAsWrittenCorrect` | `RuleProofs` | every input is `Marked` | `Spec => []ParsedAsWritten` |
| `MatchesFlowCorrect`, `ConditionToldCorrect` | `RuleProofs` | - | `Spec => []` of each |

`NoHang` excludes the three hang tasks (the leak of section 11 refutes `AccessorsExact` with them).
`NoEditors` excludes do-once rules and the `remove` task: then the runtime thread is the only
mutator. `Settled` is about the program (section 5): without it `sockets_race` refutes
`UsedInfosLive`, so it cannot be dropped. A text strays (`Strays`) when it has, after `emit` or
`mark-done`, a word that these do not know: the program then reads what is not its own, and neither
theorem says what it makes of it. What the properties themselves except (`cut`, `met`, `unnoticed`,
`emptied`, `CutShort`, hosts given by an address) is told in sections 4 to 8 and in section 11
as well. `Marked` says what an input is: a text, with the rule it says if it is right. A right one is one
that some rule is spelled as, and the theorem says that the parser finds that out. The inputs of
`rule_life` are marked by hand, part by part; since both theorems on the parser hold for any text,
to check `ParsedAsWritten` there is to check that the grammar of the proofs (`Spells`) agrees with
that hand-made one.

The argument for the queue:

- `TableInv`. A slot can hold a freed rule only between `Destroy` and `Store`, and then
  only the slot the writer is working on (`WriterExact`, `EntriesLive`). This needs that
  a rule is in one slot only (`EntriesUnique`) and that a rule about to be stored is live
  and in no slot yet (`FreshApart`). It holds with any number of mutators.
- `CountInv`. The count of a rule is the number of `cur` and `nxt` that point to it
  (`AccessorsExact`). A step that takes an accessor must start from a pointer that was
  None, which is what `HoldShape` says of every program counter; `NoneHanging` keeps the
  leaking steps away.
- `HoldInv`. A mutator that has seen the count at zero keeps it at zero until the destroy
  (`EmptiedStays`): the flag is up so that no search takes an accessor, and with one
  mutator per line nobody changes the slot. A count of zero means that nobody holds the
  rule (`CountInv`), so freeing it keeps `HeldRulesLive`.
- `PerformedCalled`. A do-once-per-call rule that was performed is marked as called unless its
  walker is on it still and about to mark it (also while it waits for the line that a `remove`
  task empties), or the walk is over; and a walker performs only what is not marked. It holds
  with rules of every kind, hangs included, and gives `PerCallOnce`.
- Refinement. Under these invariants and `StoreDead` (a slot about to be stored holds no
  live rule), each action is the step of `RuleTable` given in section 3 or a stutter.

The argument for `LigHT`: `ChainInv` says that every element is reached from its home slot by way of
elements with other keys, as long as `cut` is false. A put goes to the first
place where the search may stop, so that what it writes is reached (`WriteChains`), and what was
reached is still; a removal frees one slot, and either somebody is reached by way of it, and then `cut` is
raised, or nobody is (`RemoveChains`). `NeverCut` needs to know why nobody is: where keys are below the
capacity every element is in its home slot (`AtHome`), also those put after a search for -1, which moves
nothing; where nothing is removed there is no hole. With unbroken chains a search
stops at a key exactly when it is stored (`FindsStored`), and at a free slot exactly when there is room, which
makes each operation a step of `SparseMap`. `LengthExact` needs the types only.

The argument for `Call`: `CallInv` is the invariant. `Sound` bounds each length of the record by
the memory it is about, and `Fine` adds what the walk needs: a write never works on the
program's buffer as its own (`FreesOwn`), a read always does, a failure has its errno, and a
read announces no more than was filled. Each task is a `WalkStep`: the record stays fine and the
system calls it adds stay within their memory, there being none after an abort. All this holds until a
split is made of no byte (`emptied`); from then on `Spoilt` keeps what is still true of the record: its
types, which buffer is whose, and that a failure has its errno. The copy of a
buffer may be made after system calls were: `InsideGrows` says they remain within bounds.
`WriteExact` needs more, `SentInv`: a write that is not done made no system call yet, and one
that is done answers for the one or two that `split` or the end of the walk made, the second of
which starts where the first one ended. `FilledInOrder` is about `Scatter`, a recursive function,
and both are about `SumFunction`, a fold. What these compute is shown without an induction
theorem, by the counterexample that comes first: a subset or a position before which all is right
(`LeastSubset`, `LeastNumber`). So the sums of all subsets exist and are unique (`SumsExist`,
`SumsAgree`), a total grows by one element (`TotalStep`), and the loop of `prepareReadIOVec` has
left, for each buffer, what those before it did not take (`LeftIs`, `ScatterSums`).

The argument for `Sockets`: who may point to an info, and who may free it. `Home` says that an
info belongs to one descriptor, whoever points to it, so that only calls on one descriptor
matter to each other; `Alone`, `OnOpen` and `Solo` are what `Settled` gives for these: a call
that connects or closes meets only calls that have their info already, and two lookups meet only
on an info that will pass its check, or on one of `met`. Hence a check fails in a call that is alone or
met others (`Checked`); a retired info is in the table only while a call is about to replace it
(`Replaced`), or was taken out (`Removed`); and a new info is known to its maker only (`New`). An info is
freed by the thread that brings `sem` from one to zero with the flag up: `CountExact` says that nobody
else uses it, `Dying` that no other thread is about to free it unless calls met on it, `Known` that what
is freed was retired, and is therefore found by nobody. The count stays exact also of the infos of `met`:
what goes wrong with these is that one is used after it was freed. `Fresh` adds what the table says of
the kernel, but for the descriptors of `unnoticed`.

The argument for `Interface`: `Reading` says after n lines what these lines mean (`SoFar`), with the
greatest line of each kind for the last one read, so that the next line either is of the kind, and
is then the greatest, or leaves the set alone; a file that is refused has a line out of its place or
is for another program, and is not `Meant` for this one. `PortsSo` says what the static port is
while a file is read, from the port it found; the first file, when it is refused, was taken up to
the line that is out of its place, or to its end (`ReachedIs`, `PortLeft`), and hands its port on.
`Owned` says for which line each string was allocated: the two come from lines of different kinds,
of the file that is read. `RereadHarmless` follows from `SoFar` at the last line. `Heard` says that
the stream is the end of all that was sent on the connection (`said`), and that the buffer and each
line that was run are pieces of it: a piece of a piece is one, wherever `read` cuts. `Spoken` says
that what was sent on a TCP connection is what its client says. `Whitelisted` is inductive with
these, because a line that would edit rule 0 would be a piece of what a client said.

The argument for `Grammar`. A spelling (`Spells`) is a rule with what it takes to write it: which words
name its hosts and ports, which parts are left to their defaults, whether a space comes last; `RuleText`
is its text. `GrammarAssumption` is about the tables of names: `gethostbyname` knows a dotted address as
itself, the port of a service has a number. Texts are sequences of any length, and nothing is proved by
induction over them: the grammar has no loop, so that a parse is a fixed number of pieces in a row.

- `SpelledParsed`, from the text of a spelling on. For each piece a lemma says what it does where its
  part begins, in any state that did not fail, whatever its error and destinations are: it leaves the
  text after its part, writes what the part says and nothing else that is kept (`Same`), or, where an
  optional part or an alternative is not there, gives up and goes back. No keyword begins two
  alternatives (`PartsApart`), so that the one that succeeds is the one that was written.
- `ErrorOrRule`, from `ErrorOrAccepted`, which says it of `Parse` whether the text strays or not.
  `Sane` is what each piece keeps: no piece makes the text longer, an error is within it, a failure
  has one. With the acceptance of a whole that clears it, this is the theorem.
- `ParsedSpelled`, from `AcceptedSpelled` about any text that `Parse` accepts. For each piece a
  lemma says what the text must have been if the piece did not fail: its part, and then what is
  left. `AllCame` puts the parts together to one spelling of the text, and `SpelledParsed` says that
  the rule is that of the spelling.
- `ShownParsed`. An accepted rule is one of a spelling; the text that list writes of it is shown, part by
  part, to be that of another spelling, with every part written, addresses in dots and ports as
  numbers; and a spelling is parsed.

The argument for `RuleLife`: `ReadInv` says of each stage which text the result is that of, and that
the text shown is that of the rule accepted; a text that strays may also end the story (`beyond`).
`MetInv` says that a rule in the queue has the shape that `ParsedShape` gives, and a verdict is the
one `Match` gives for the call it names, with an answer of `Holds` when the condition was asked.
`MatchIsFlow` goes through the directions of a rule: with two hosts the end the data come from is
the local one of a write and the remote one of a read. `HoldsAsTold` takes the conditions one by
one; for a cycle (`CycleTold`) an age is some whole turns and a part of one, in one way only
(`Turns`), and the remainder of the code's division is that part. All numbers and ages are covered,
`Nat` standing for the clock. TLC checked `ReadInv` and `MetInv` on the instance of `rule_life`
before they were proved.

Only model-checked: the liveness properties `RemovalCompletes`, `HangEnds`, `OnceRemoved`,
`RetiredFreed` and `ClientLetGo` (liveness is out of the prover's reach), and `ErrorTold`: where a text is
wrong is for its writer to say, and the inputs of `rule_life` say it part by part; for any text
that does not stray it is proved that a refusal has an error and that it lies within the text (`RefusalTold`).

## 13. Not modelled, and why

- Line numbers outside of the table (arguments of `remove`, positions of rules): the
  code indexes memory with them and nothing is promised.
- Numbers that overflow or are negative in the text of a rule, and the letters of words: `Grammar` has
  lexemes.
- `LigHT_clear` and `LigHT_destroy`, which run on tables that nobody uses any more, and the growth of a
  table that has entries: the size of a table is set when it is empty. A descriptor that is not open in
  `Sockets` (a `read(-1)`): what it does to the table is in `LigHT`, and `Settled` excludes it.
- What a search behind the end of the tables of `emit` and `mark-done` finds (`beyond`), and what a system
  call does that goes beyond its buffer after a `split` of no byte.
- What `echo`, `log` and `dump` print, and the bytes that `alter` draws: I/O and chance.
- The file positions of a trace: `Replay` takes any event.
- Wrapping of the clock, and of lengths but for the subtraction of `split` (`Less`).
- The `close` that `reset` makes from inside a call re-enters the wrapper of `close`: the
  composition of `Call` and `Sockets` is left to the plan of section 2.
- `ActionQueue_destroy`, `inj_fini` and `Config_destroy` at the end of the program: it has no
  say in what other threads do then, and no other operation depends on it.
- `ActionQueue_get`, which nothing calls while threads run.
- Tests, build scripts and the tools that show dumps: not part of the running system.
