------------------------------ MODULE Sockets ------------------------------
(***************************************************************************)
(* The life of a SocketInfo: intercepted calls (binding.c) look up what is *)
(* known of their descriptor, use it while the rules are walked and give   *)
(* it back; connect and close replace it and leave it to its last user to  *)
(* free (socketinfo.c).  A step is what the code does between two accesses *)
(* to what threads share: the table of descriptors (a LigHT, one lock for  *)
(* each operation), the count of an info (its mutex) and its other fields, *)
(* which have no lock.                                                     *)
(*                                                                         *)
(* The kernel is here as src/ sees it: what a descriptor is, and the peer  *)
(* it is connected to.                                                     *)
(***************************************************************************)
EXTENDS Integers, FiniteSets

CONSTANTS Threads, Fds, Peers,
          Infos,      \* SocketInfo objects; they are not reused
          None,       \* NULL
          Settled     \* the program settles its descriptors: see Admits

ASSUME SocketsAssumption ==
  /\ IsFiniteSet(Threads) /\ None \notin Infos \cup Peers
  /\ Settled \in BOOLEAN

Protos == {"tcp", "udp"}
Ops    == {"data", "connect", "close"}

VARIABLES
  kernel,     \* descriptor -> [kind, peer]
  table,      \* sockets: descriptor -> info or None
  status,     \* info -> "absent", "live" or "freed"
  about,      \* info -> [proto, remote, light]; light: the local address is not known yet
  toDestroy, sem,  \* fields of an info
  data,       \* info -> the state of its per-socket data: "none", "raw" or "ready"
  pc,         \* where a thread is
  call,       \* its locals: descriptor, operation, infos, where it goes after an unlock
  met,        \* history: unfit infos that calls met side by side
  unnoticed   \* history: descriptors on which another file was put, or which a connect
              \* that has not been accepted was to take from their peer

infos == <<status, about, toDestroy, sem, data>>
past  == <<met, unnoticed>>
vars  == <<kernel, table, infos, pc, call, past>>

Looking == {"lookup", "check", "test", "again", "init", "put", "light", "old", "lockold",
            "retireold"}
Calling == {"remove", "data", "publish", "ready", "process", "bypass"}
Pcs     == Looking \cup Calling \cup {"idle", "retire", "unlock", "destroy"}

Closed     == [kind |-> "closed", peer |-> None]
IsSocket(f) == kernel[f].kind \in Protos

CallOf(f, o) == [fd |-> f, op |-> o, si |-> None, old |-> None, then |-> "idle"]
NoCall       == CallOf(None, "data")

Init ==
  /\ kernel = [f \in Fds |-> Closed]
  /\ table = [f \in Fds |-> None]
  /\ status = [o \in Infos |-> "absent"]
  /\ about = [o \in Infos |-> [proto |-> "tcp", remote |-> None, light |-> FALSE]]
  /\ toDestroy = [o \in Infos |-> FALSE]
  /\ sem = [o \in Infos |-> 0]
  /\ data = [o \in Infos |-> "none"]
  /\ pc = [t \in Threads |-> "idle"]
  /\ call = [t \in Threads |-> NoCall]
  /\ met = {} /\ unnoticed = {}

-----------------------------------------------------------------------------
Goto(t, p) == pc' = [pc EXCEPT ![t] = p]

\* SocketInfo_setup on an object that malloc just returned; the caller locks it at once,
\* before anybody else may know of it.
NewInfo == CHOOSE o \in Infos : status[o] = "absent"

Alloc(o, f, remote, isLight) ==
  /\ o \in Infos /\ status[o] = "absent"
  /\ status' = [status EXCEPT ![o] = "live"]
  /\ about' = [about EXCEPT ![o] = [proto |-> kernel[f].kind, remote |-> remote,
                                    light |-> isLight]]
  /\ sem' = [sem EXCEPT ![o] = 1]
  /\ UNCHANGED <<toDestroy, data>>

\* The thread goes on at p, or returns to the program.
Leave(t, p) ==
  Goto(t, p) /\ call' = IF p = "idle" THEN [call EXCEPT ![t] = NoCall] ELSE call

\* The thread enters SocketInfo_unlock and then goes on at p.
Release(t, p) == Goto(t, "unlock") /\ call' = [call EXCEPT ![t].then = p]

\* The info is about another socket, as far as the check can tell.
Unfit(o, f) ==
  \/ toDestroy[o]
  \/ about[o].proto = "udp" /\ kernel[f].kind # "udp"
  \/ about[o].light /\ ~IsSocket(f)

\* No call is at work on the descriptor.
Quiet(f) == \A t \in Threads : call[t].fd = f => pc[t] = "idle"

Before(u) == pc[u] \in Looking \/ (pc[u] \in {"unlock", "destroy"} /\ call[u].then # "idle")

\* What a program that settles its descriptors does: it makes its calls on open descriptors,
\* a connect or a close waits for the lookups of other threads, and their calls for it.
Admits(t, f, o) ==
  /\ kernel[f] # Closed
  /\ \A u \in Threads \ {t} :
       call[u].fd = f /\ (Before(u) \/ pc[u] \in Calling) =>
         /\ call[u].op = "data"
         /\ Before(u) => o = "data"

\* The info of the descriptor is unfit, and a call that has looked it up may not have
\* replaced it yet.
Meets(t, f) ==
  {i \in Infos : i = table[f] /\ Unfit(i, f) /\ \E u \in Threads \ {t} : call[u].fd = f /\ Before(u)}

\* Bound: a call begins only when there is an object left for each call in progress.
Affords ==
  Cardinality({u \in Threads : pc[u] # "idle"}) < Cardinality({o \in Infos : status[o] = "absent"})

Begin(t, f, o) ==
  /\ pc[t] = "idle" /\ Affords
  /\ Settled => Admits(t, f, o)
  /\ Goto(t, IF o = "connect" THEN "light" ELSE "lookup")
  /\ call' = [call EXCEPT ![t] = CallOf(f, o)]
  /\ met' = met \cup Meets(t, f)
  /\ UNCHANGED <<kernel, table, infos, unnoticed>>

-----------------------------------------------------------------------------
(* getInfos: LigHT_get, then SocketInfo_check.                              *)

Lookup(t) ==
  /\ pc[t] = "lookup"
  /\ call' = [call EXCEPT ![t].si = table[call[t].fd]]
  /\ Goto(t, IF table[call[t].fd] = None THEN "init" ELSE "check")
  /\ UNCHANGED <<kernel, table, infos, past>>

Lock(o) == sem' = [sem EXCEPT ![o] = @ + 1] /\ UNCHANGED <<status, about, toDestroy, data>>

Check(t) ==
  /\ pc[t] = "check"
  /\ Lock(call[t].si)
  /\ Goto(t, "test")
  /\ UNCHANGED <<kernel, table, call, past>>

TestFails(t) ==
  /\ pc[t] = "test" /\ Unfit(call[t].si, call[t].fd)
  /\ toDestroy' = [toDestroy EXCEPT ![call[t].si] = TRUE]
  /\ Release(t, "init")
  /\ UNCHANGED <<kernel, table, status, about, sem, data, past>>

TestPasses(t) ==
  /\ pc[t] = "test" /\ ~Unfit(call[t].si, call[t].fd)
  /\ about' = [about EXCEPT ![call[t].si].light = FALSE]
  /\ Goto(t, "again")
  /\ UNCHANGED <<kernel, table, status, toDestroy, sem, data, call, past>>

\* Where a call goes once it has its info.
Entry(t) == IF call[t].op = "close" THEN "remove" ELSE "data"

\* toDestroy is read once more, without the lock.
Again(t) ==
  /\ pc[t] = "again"
  /\ Goto(t, IF toDestroy[call[t].si] THEN "init" ELSE Entry(t))
  /\ UNCHANGED <<kernel, table, infos, call, past>>

\* SocketInfo_init: NULL when the descriptor is not a socket with a peer.
Refresh(t) ==
  /\ pc[t] = "init"
  /\ IF IsSocket(call[t].fd) /\ kernel[call[t].fd].peer # None
     THEN /\ Alloc(NewInfo, call[t].fd, kernel[call[t].fd].peer, FALSE)
          /\ call' = [call EXCEPT ![t].si = NewInfo]
     ELSE call' = [call EXCEPT ![t].si = None] /\ UNCHANGED infos
  /\ Goto(t, "put")
  /\ UNCHANGED <<kernel, table, past>>

Put(t) ==
  /\ pc[t] = "put"
  /\ table' = [table EXCEPT ![call[t].fd] = call[t].si]
  /\ Goto(t, IF call[t].si = None THEN "bypass" ELSE Entry(t))
  /\ unnoticed' = IF call[t].op = "connect" /\ kernel[call[t].fd].peer # None
                  THEN unnoticed \cup {call[t].fd} ELSE unnoticed \ {call[t].fd}
  /\ UNCHANGED <<kernel, infos, call, met>>

-----------------------------------------------------------------------------
(* getInfosOnConnect.                                                       *)

\* SocketInfo_initLight: NULL when the descriptor is not a socket.
Light(t) ==
  /\ pc[t] = "light"
  /\ IF IsSocket(call[t].fd)
     THEN /\ \E p \in Peers : Alloc(NewInfo, call[t].fd, p, TRUE)
          /\ call' = [call EXCEPT ![t].si = NewInfo]
     ELSE call' = [call EXCEPT ![t].si = None] /\ UNCHANGED infos
  /\ Goto(t, "old")
  /\ UNCHANGED <<kernel, table, past>>

LookupOld(t) ==
  /\ pc[t] = "old"
  /\ call' = [call EXCEPT ![t].old = table[call[t].fd]]
  /\ Goto(t, IF table[call[t].fd] = None THEN "put" ELSE "lockold")
  /\ UNCHANGED <<kernel, table, infos, past>>

LockOld(t) ==
  /\ pc[t] = "lockold"
  /\ Lock(call[t].old)
  /\ Goto(t, "retireold")
  /\ UNCHANGED <<kernel, table, call, past>>

\* Fault for the runs to find: connect does not give back the info it retires.
RetireOldKept(t) ==
  /\ pc[t] = "retireold"
  /\ toDestroy' = [toDestroy EXCEPT ![call[t].old] = TRUE]
  /\ Goto(t, "put")
  /\ UNCHANGED <<kernel, table, status, about, sem, data, call, past>>

RetireOld(t) ==
  /\ pc[t] = "retireold"
  /\ toDestroy' = [toDestroy EXCEPT ![call[t].old] = TRUE]
  /\ Release(t, "put")
  /\ UNCHANGED <<kernel, table, status, about, sem, data, past>>

-----------------------------------------------------------------------------
(* SocketInfo_unlock: of the info that connect retires, or of the one in use. *)

Victim(t) == IF call[t].then = "put" THEN call[t].old ELSE call[t].si

\* Fault for the runs to find: whoever sees the flag destroys, whatever the count.
UnlockEager(t) ==
  LET o == Victim(t) IN
  /\ pc[t] = "unlock"
  /\ sem' = [sem EXCEPT ![o] = @ - 1]
  /\ Leave(t, IF toDestroy[o] THEN "destroy" ELSE call[t].then)
  /\ UNCHANGED <<kernel, table, status, about, toDestroy, data, past>>

\* Fault for the runs to find: the count is looked at before it goes down.
UnlockLate(t) ==
  LET o == Victim(t) IN
  /\ pc[t] = "unlock"
  /\ sem' = [sem EXCEPT ![o] = @ - 1]
  /\ Leave(t, IF toDestroy[o] /\ sem[o] = 0 THEN "destroy" ELSE call[t].then)
  /\ UNCHANGED <<kernel, table, status, about, toDestroy, data, past>>

Unlock(t) ==
  LET o == Victim(t) IN
  /\ pc[t] = "unlock"
  /\ sem' = [sem EXCEPT ![o] = @ - 1]
  /\ Leave(t, IF toDestroy[o] /\ sem[o] = 1 THEN "destroy" ELSE call[t].then)
  /\ UNCHANGED <<kernel, table, status, about, toDestroy, data, past>>

Destroy(t) ==
  /\ pc[t] = "destroy"
  /\ status' = [status EXCEPT ![Victim(t)] = "freed"]
  /\ Leave(t, call[t].then)
  /\ UNCHANGED <<kernel, table, about, toDestroy, sem, data, past>>

-----------------------------------------------------------------------------
(* The call itself: close, the per-socket data, the system call.            *)

\* Fault for the runs to find: close leaves the descriptor in the table.
RemoveForgotten(t) ==
  /\ pc[t] = "remove"
  /\ Goto(t, "data")
  /\ UNCHANGED <<kernel, table, infos, call, past>>

\* close takes the descriptor out of the table before the rules are walked.
Remove(t) ==
  /\ pc[t] = "remove"
  /\ table' = [table EXCEPT ![call[t].fd] = None]
  /\ Goto(t, "data")
  /\ UNCHANGED <<kernel, infos, call, past>>

\* ActionSocketData_get: the data is shown to the other threads before it is filled in.
GetData(t) ==
  /\ pc[t] = "data"
  /\ Goto(t, IF data[call[t].si] = "none" THEN "publish" ELSE "process")
  /\ UNCHANGED <<kernel, table, infos, call, past>>

Publish(t) ==
  /\ pc[t] = "publish"
  /\ data' = [data EXCEPT ![call[t].si] = "raw"]
  /\ Goto(t, "ready")
  /\ UNCHANGED <<kernel, table, status, about, toDestroy, sem, call, past>>

Fill(t) ==
  /\ pc[t] = "ready"
  /\ data' = [data EXCEPT ![call[t].si] = "ready"]
  /\ Goto(t, "process")
  /\ UNCHANGED <<kernel, table, status, about, toDestroy, sem, call, past>>

\* The effect of the system call on the descriptor: a rule, or the kernel, may refuse it.
SysCall(t, p) ==
  kernel' = CASE call[t].op = "close"   -> [kernel EXCEPT ![call[t].fd] = Closed]
              [] call[t].op = "connect" /\ IsSocket(call[t].fd) -> [kernel EXCEPT ![call[t].fd].peer = p]
              [] OTHER -> kernel

Process(t) ==
  /\ pc[t] = "process"
  /\ \/ /\ SysCall(t, about[call[t].si].remote)
        /\ unnoticed' = IF call[t].op = "connect" THEN unnoticed \ {call[t].fd} ELSE unnoticed
     \/ UNCHANGED <<kernel, unnoticed>>
  /\ IF call[t].op = "close" THEN Goto(t, "retire") /\ UNCHANGED call ELSE Release(t, "idle")
  /\ UNCHANGED <<table, infos, met>>

Bypass(t) ==
  /\ pc[t] = "bypass"
  /\ \E p \in Peers : SysCall(t, p)
  /\ Leave(t, "idle")
  /\ UNCHANGED <<table, infos, past>>

Retire(t) ==
  /\ pc[t] = "retire"
  /\ toDestroy' = [toDestroy EXCEPT ![call[t].si] = TRUE]
  /\ Release(t, "idle")
  /\ UNCHANGED <<kernel, table, status, about, sem, data, past>>

-----------------------------------------------------------------------------
\* The program gets a descriptor that is not in use: socket, accept, open.
Open(f) ==
  /\ kernel[f] = Closed
  /\ \E k \in Protos \cup {"file"}, p \in Peers \cup {None} :
       /\ k = "file" => p = None
       /\ kernel' = [kernel EXCEPT ![f] = [kind |-> k, peer |-> p]]
  /\ UNCHANGED <<table, infos, pc, call, past>>

\* The program puts another file on a descriptor behind the library's back (dup2): of
\* another kind or not, with another peer, the same or none.
Replace(f) ==
  /\ kernel[f] # Closed
  /\ Settled => Quiet(f)
  /\ \E k \in Protos \cup {"file"}, p \in Peers \cup {None} :
       /\ k = "file" => p = None
       /\ kernel' = [kernel EXCEPT ![f] = [kind |-> k, peer |-> p]]
  /\ unnoticed' = unnoticed \cup {f}
  /\ UNCHANGED <<table, infos, pc, call, met>>

\* The infos whose fields the next step of a thread goes through.
Touched(t) ==
  CASE pc[t] \in {"check", "test", "again", "remove", "data", "publish", "ready", "process",
                  "retire"} -> {call[t].si}
    [] pc[t] \in {"lockold", "retireold"} -> {call[t].old}
    [] pc[t] \in {"unlock", "destroy"} -> {Victim(t)}
    [] OTHER -> {}

GetInfos(t) == Lookup(t) \/ Check(t) \/ TestFails(t) \/ TestPasses(t) \/ Again(t)
               \/ Refresh(t) \/ Put(t)
OnConnect(t) == Light(t) \/ LookupOld(t) \/ LockOld(t) \/ RetireOld(t)
Call(t) == Remove(t) \/ GetData(t) \/ Publish(t) \/ Fill(t) \/ Process(t) \/ Bypass(t)
           \/ Retire(t)

\* A thread that is about to use a freed info goes nowhere: what the program does then is
\* not known.
Run(t) ==
  /\ \A o \in Touched(t) : status[o] = "live"
  /\ GetInfos(t) \/ OnConnect(t) \/ Call(t) \/ Unlock(t) \/ Destroy(t)

Next ==
  \/ \E t \in Threads : Run(t)
  \/ \E t \in Threads, f \in Fds, o \in Ops : Begin(t, f, o)
  \/ \E f \in Fds : Open(f) \/ Replace(f)

Spec == Init /\ [][Next]_vars

\* A thread inside a call is scheduled.
LiveSpec == Spec /\ \A t \in Threads : WF_vars(Run(t))
-----------------------------------------------------------------------------
\* The infos a thread has an accessor on: its own from the lock to the unlock, and the one
\* that connect retires.
HoldsOwn(t) ==
  \/ pc[t] \in {"test", "again", "old", "put", "lockold", "retireold", "remove", "data",
                "publish", "ready", "process", "retire", "unlock"}
  \/ pc[t] = "destroy" /\ call[t].then = "put"
HoldsOld(t) == pc[t] = "retireold" \/ (pc[t] = "unlock" /\ call[t].then = "put")

Holds(t) == ((IF HoldsOwn(t) THEN {call[t].si} ELSE {}) \cup (IF HoldsOld(t) THEN {call[t].old} ELSE {}))
            \ {None}

Users(o) == {t \in Threads : o \in Holds(t)}

\* sem is the number of accessors of an info: no lookup, connect or close forgets to take or
\* to give back one.
CountExact == \A o \in Infos : sem[o] = Cardinality(Users(o))

\* No call uses, or is about to use, an info that another one has freed, and none is freed
\* twice; unless calls side by side met on an info that is about another socket.
UsedInfosLive ==
  \A t \in Threads : \A o \in Holds(t) \cup Touched(t) : status[o] = "live" \/ o \in met

\* What the table says of a descriptor at rest is about the socket the descriptor is now, or
\* the next check finds out that it is not, whatever was closed, reused or connected before;
\* unless another file was put on the descriptor, or a connect to a second peer refused.
TableFresh ==
  \A f \in Fds : Quiet(f) /\ table[f] # None =>
    /\ status[table[f]] = "live"
    /\ \/ Unfit(table[f], f)
       \/ f \in unnoticed
       \/ /\ kernel[f].kind = about[table[f]].proto
          /\ kernel[f].peer \in {None, about[table[f]].remote}

\* An info that close or connect retired is freed in the end.
RetiredFreed == \A o \in Infos : toDestroy[o] ~> status[o] = "freed"
=============================================================================
