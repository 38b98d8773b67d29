--------------------------- MODULE SocketsProofs ---------------------------
(***************************************************************************)
(* The safety invariants of the SocketInfo objects, for any number of      *)
(* threads, descriptors, peers and infos, when the program settles its     *)
(* descriptors (Settled): the count of an info is exact, an info that is   *)
(* used is live, and what the table says of a descriptor at rest is about  *)
(* the socket it is now.                                                   *)
(***************************************************************************)
EXTENDS Sockets, FiniteSetTheorems, TLAPS

Fd(t)  == call[t].fd
Op(t)  == call[t].op
Si(t)  == call[t].si
Old(t) == call[t].old
Then(t) == call[t].then

\* A call at work on its descriptor: it has not yet had its effect on the kernel.
Active(t) == Before(t) \/ pc[t] \in Calling

\* Two calls on one descriptor.
Same(t, u) == t # u /\ Fd(t) = Fd(u)

\* The infos that a thread has a pointer to.
Refs(t) == {Si(t), Old(t)} \ {None}

\* The thread is between two steps of a release after which it goes on at p.
Leaving(t, p) == pc[t] \in {"unlock", "destroy"} /\ Then(t) = p

\* The thread has an info that nobody else knows of yet.
HasNew(t) == (pc[t] \in {"old", "lockold", "retireold", "put"} \/ Leaving(t, "put")) /\ Si(t) # None

\* The thread has left the table as the call wants it.
HasSettled(t) == Op(t) # "data" /\ pc[t] \in {"data", "publish", "ready", "process", "bypass"}

Info == [proto : Protos, remote : Peers \cup {None}, light : BOOLEAN]
Locals == [fd : Fds \cup {None}, op : Ops, si : Infos \cup {None}, old : Infos \cup {None},
           then : {"idle", "init", "put"}]

TypeOK ==
  /\ kernel \in [Fds -> [kind : Protos \cup {"file", "closed"}, peer : Peers \cup {None}]]
  /\ table \in [Fds -> Infos \cup {None}]
  /\ status \in [Infos -> {"absent", "live", "freed"}]
  /\ about \in [Infos -> Info]
  /\ toDestroy \in [Infos -> BOOLEAN]
  /\ sem \in [Infos -> Int]
  /\ data \in [Infos -> {"none", "raw", "ready"}]
  /\ pc \in [Threads -> Pcs]
  /\ call \in [Threads -> Locals]
  /\ met \subseteq Infos /\ unnoticed \subseteq Fds

\* What the place of a thread says of its locals.
ShapeOf(t) ==
  /\ IF pc[t] = "idle" THEN call[t] = NoCall ELSE Fd(t) \in Fds
  /\ pc[t] \in {"check", "test", "again", "remove", "data", "publish", "ready", "process",
                "retire"} => Si(t) # None
  /\ pc[t] \in {"lockold", "retireold"} => Old(t) # None
  /\ pc[t] \in {"unlock", "destroy"} => Victim(t) # None
  /\ pc[t] = "bypass" => Si(t) = None
  /\ pc[t] \in {"light", "old", "lockold", "retireold"} \/ Leaving(t, "put") => Op(t) = "connect"
  /\ pc[t] \in {"lookup", "check", "test", "again", "init"} \/ Leaving(t, "init")
       => Op(t) # "connect"
  /\ pc[t] \in {"remove", "retire"} => Op(t) = "close"
Shape == \A t \in Threads : ShapeOf(t)

\* An info that somebody knows of was allocated; one that was freed was retired before, and
\* has no accessor unless calls met on it.
Known ==
  /\ \A t \in Threads : \A o \in Refs(t) : status[o] # "absent"
  /\ \A f \in Fds : table[f] # None => status[table[f]] # "absent"
  /\ \A o \in Infos : /\ status[o] = "absent" => ~toDestroy[o]
                      /\ status[o] = "freed" => toDestroy[o] /\ (sem[o] = 0 \/ o \in met)

\* An info belongs to one descriptor.
Home ==
  /\ \A t \in Threads, f \in Fds : table[f] \in Refs(t) => f = Fd(t)
  /\ \A t, u \in Threads : Refs(t) \cap Refs(u) # {} => Fd(t) = Fd(u)
  /\ \A f, g \in Fds : table[f] = table[g] => table[f] = None \/ f = g

\* What settling gives: a connect or a close is alone with calls that have their info, and a
\* call at work has an open descriptor.
Alone ==
  \A t, u \in Threads : Same(t, u) /\ Active(t) /\ Op(t) # "data" /\ Active(u)
    => ~Before(u) /\ Op(u) = "data"
OnOpen ==
  \A t \in Threads : Before(t) \/ (Active(t) /\ Op(t) # "data") => kernel[Fd(t)] # Closed

\* Two lookups side by side find an info that will pass the check, or one they are known to
\* meet on.
Solo ==
  \A t, u \in Threads : Same(t, u) /\ Before(t) /\ Before(u)
    => table[Fd(t)] = None \/ ~Unfit(table[Fd(t)], Fd(t)) \/ table[Fd(t)] \in met

\* The check fails only in a call that is alone or met others on the info; only then may the
\* info be retired meanwhile. One that passed the check goes on fitting.
Checked ==
  \A t \in Threads :
    /\ pc[t] \in {"check", "test"} =>
         \/ ~Unfit(Si(t), Fd(t))
         \/ Si(t) \in met
         \/ Si(t) = table[Fd(t)] /\ \A u \in Threads : Same(t, u) => ~Before(u)
    /\ pc[t] \in {"check", "test"} => ~toDestroy[Si(t)] \/ Si(t) \in met
    /\ pc[t] = "again" => ~Unfit(Si(t), Fd(t))
    /\ pc[t] = "lockold" => ~toDestroy[Old(t)]

\* A retired info is in the table only while a call is about to replace it.
Replaced ==
  \A f \in Fds : table[f] # None /\ toDestroy[table[f]] =>
    \E t \in Threads : Fd(t) = f /\ (Leaving(t, "init") \/ Leaving(t, "put") \/ pc[t] \in {"init", "put"})

\* A new info is unknown to the others and is about the socket.
New ==
  \A t \in Threads : HasNew(t) =>
    /\ ~toDestroy[Si(t)] /\ Si(t) # Old(t)
    /\ \A u \in Threads : u # t => Si(t) \notin Refs(u)
    /\ \A f \in Fds : table[f] # Si(t)
    /\ about[Si(t)].proto = kernel[Fd(t)].kind
    /\ Op(t) # "connect" => ~about[Si(t)].light /\ about[Si(t)].remote = kernel[Fd(t)].peer

\* An info that close took out of the table is found by nobody.
Removed ==
  \A t \in Threads :
    Op(t) = "close" /\ pc[t] \in {"data", "publish", "ready", "process", "retire"} =>
      /\ \A f \in Fds : table[f] # Si(t)
      /\ \A u \in Threads : Before(u) => Si(t) \notin Refs(u)

\* An info that a thread is about to free has no accessor and is freed by this one only, unless
\* calls met on it.
Dying ==
  /\ \A t \in Threads : pc[t] = "destroy" =>
       /\ toDestroy[Victim(t)]
       /\ Victim(t) \in met \/ (sem[Victim(t)] = 0 /\ status[Victim(t)] = "live")
  /\ \A t, u \in Threads : pc[t] = "destroy" /\ pc[u] = "destroy" /\ Victim(t) = Victim(u)
       => t = u \/ Victim(t) \in met

\* What the table says of a descriptor, whatever the calls at work on it; a closed one is not
\* in the table.
Agrees(f) ==
  table[f] # None =>
    \/ Unfit(table[f], f)
    \/ f \in unnoticed
    \/ /\ kernel[f].kind = about[table[f]].proto
       /\ kernel[f].peer \in {None, about[table[f]].remote}
Fresh ==
  /\ \A f \in Fds : Agrees(f) /\ (kernel[f] = Closed => table[f] = None)
  /\ \A t \in Threads : HasSettled(t) =>
       /\ table[Fd(t)] = IF Op(t) = "connect" THEN Si(t) ELSE None
       /\ Op(t) = "connect" /\ Si(t) # None => about[Si(t)].proto = kernel[Fd(t)].kind

Inv == /\ TypeOK /\ Shape /\ Known /\ Home /\ Alone /\ OnOpen /\ Solo /\ Checked /\ Replaced /\ New
       /\ Removed /\ Dying /\ CountExact /\ Fresh

-----------------------------------------------------------------------------
(* Types, and what a step does to the locals.                               *)

\* A step that takes the thread t to p, with these infos and this place to go after a release.
Moved(t, p, si, old, then) ==
  /\ pc' = [pc EXCEPT ![t] = p] /\ call' \in [Threads -> Locals]
  /\ \A u \in Threads : u # t => call'[u] = call[u]
  /\ Fd(t)' = Fd(t) /\ Op(t)' = Op(t) /\ Si(t)' = si /\ Old(t)' = old /\ Then(t)' = then


\* The return to the program.
Ended(t) == pc' = [pc EXCEPT ![t] = "idle"] /\ call' = [call EXCEPT ![t] = NoCall]

\* A step that leaves the locals alone, or returns to the program.
Left(t, p) == IF p = "idle" THEN Ended(t) ELSE Moved(t, p, Si(t), Old(t), Then(t))

\* Where a step takes a thread.
LEMMA Effects ==
  ASSUME TypeOK, Shape, NEW t \in Threads
  PROVE  /\ Lookup(t) => Moved(t, IF table[Fd(t)] = None THEN "init" ELSE "check",
                               table[Fd(t)], Old(t), Then(t))
         /\ Check(t) => Left(t, "test")
         /\ TestFails(t) => Moved(t, "unlock", Si(t), Old(t), "init")
         /\ TestPasses(t) => Left(t, "again")
         /\ Again(t) => Left(t, IF toDestroy[Si(t)] THEN "init" ELSE Entry(t))
         /\ Refresh(t) => \E o \in Infos \cup {None} : Moved(t, "put", o, Old(t), Then(t))
         /\ Put(t) => Left(t, IF Si(t) = None THEN "bypass" ELSE Entry(t))
         /\ Light(t) => \E o \in Infos \cup {None} : Moved(t, "old", o, Old(t), Then(t))
         /\ LookupOld(t) => Moved(t, IF table[Fd(t)] = None THEN "put" ELSE "lockold",
                                  Si(t), table[Fd(t)], Then(t))
         /\ LockOld(t) => Left(t, "retireold")
         /\ RetireOld(t) => Moved(t, "unlock", Si(t), Old(t), "put")
         /\ Unlock(t) => Left(t, IF toDestroy[Victim(t)] /\ sem[Victim(t)] = 1 THEN "destroy"
                                 ELSE Then(t))
         /\ Destroy(t) => Left(t, Then(t))
         /\ Remove(t) => Left(t, "data")
         /\ GetData(t) => Left(t, IF data[Si(t)] = "none" THEN "publish" ELSE "process")
         /\ Publish(t) => Left(t, "ready")
         /\ Fill(t) => Left(t, "process")
         /\ Process(t) => IF Op(t) = "close" THEN Left(t, "retire")
                         ELSE Moved(t, "unlock", Si(t), Old(t), "idle")
         /\ Bypass(t) => Ended(t)
         /\ Retire(t) => Moved(t, "unlock", Si(t), Old(t), "idle")
<1>0. /\ call \in [Threads -> Locals] /\ call[t] \in Locals
      /\ pc \in [Threads -> Pcs] /\ table \in [Fds -> Infos \cup {None}]
  BY DEF TypeOK
<1>n. pc[t] # "idle" => table[Fd(t)] \in Infos \cup {None}
  BY <1>0 DEF Shape, ShapeOf
<1>1. UNCHANGED call => /\ call' \in [Threads -> Locals] /\ \A u \in Threads : call'[u] = call[u]
                        /\ Si(t)' = Si(t) /\ Old(t)' = Old(t) /\ Then(t)' = Then(t)
                        /\ Fd(t)' = Fd(t) /\ Op(t)' = Op(t)
  BY <1>0 DEF Si, Old, Then, Fd, Op
<1>lookup. Lookup(t) => Moved(t, IF table[Fd(t)] = None THEN "init" ELSE "check",
        table[Fd(t)], Old(t), Then(t))
  BY <1>0, <1>n DEF Lookup, Moved, Left, Goto, Locals, Si, Old, Then, Fd, Op
<1>check. Check(t) => Left(t, "test")
  BY <1>0, <1>1 DEF Check, Moved, Left, Goto
<1>testfails. TestFails(t) => Moved(t, "unlock", Si(t), Old(t), "init")
  BY <1>0, <1>1 DEF TestFails, Release, Moved, Left, Goto, Locals, Si, Old, Then, Fd, Op
<1>testpasses. TestPasses(t) => Left(t, "again")
  BY <1>0, <1>1 DEF TestPasses, Moved, Left, Goto
<1>again. Again(t) => Left(t, IF toDestroy[Si(t)] THEN "init" ELSE Entry(t))
  BY <1>0, <1>1 DEF Again, Entry, Moved, Left, Goto, Si, Op
<1>refresh. Refresh(t) => \E o \in Infos \cup {None} : Moved(t, "put", o, Old(t), Then(t))
  <2>1. ASSUME Refresh(t)
        PROVE  /\ pc' = [pc EXCEPT ![t] = "put"]
               /\ \E o \in Infos \cup {None} : call' = [call EXCEPT ![t].si = o]
    BY <2>1 DEF Refresh, Alloc, Goto
  <2>2. ASSUME NEW o \in Infos \cup {None}, call' = [call EXCEPT ![t].si = o],
               pc' = [pc EXCEPT ![t] = "put"]
        PROVE  Moved(t, "put", o, Old(t), Then(t))
    BY <1>0, <2>2 DEF Moved, Locals, Si, Old, Then, Fd, Op
  <2>. QED  BY <2>1, <2>2
<1>put. Put(t) => Left(t, IF Si(t) = None THEN "bypass" ELSE Entry(t))
  BY <1>0, <1>1 DEF Put, Entry, Moved, Left, Goto, Si, Op
<1>light. Light(t) => \E o \in Infos \cup {None} : Moved(t, "old", o, Old(t), Then(t))
  <2>1. ASSUME Light(t)
        PROVE  /\ pc' = [pc EXCEPT ![t] = "old"]
               /\ \E o \in Infos \cup {None} : call' = [call EXCEPT ![t].si = o]
    BY <2>1 DEF Light, Alloc, Goto
  <2>2. ASSUME NEW o \in Infos \cup {None}, call' = [call EXCEPT ![t].si = o],
               pc' = [pc EXCEPT ![t] = "old"]
        PROVE  Moved(t, "old", o, Old(t), Then(t))
    BY <1>0, <2>2 DEF Moved, Locals, Si, Old, Then, Fd, Op
  <2>. QED  BY <2>1, <2>2
<1>lookupold. LookupOld(t) => Moved(t, IF table[Fd(t)] = None THEN "put" ELSE "lockold",
        Si(t), table[Fd(t)], Then(t))
  BY <1>0, <1>n DEF LookupOld, Moved, Left, Goto, Locals, Si, Old, Then, Fd, Op
<1>lockold. LockOld(t) => Left(t, "retireold")
  BY <1>0, <1>1 DEF LockOld, Moved, Left, Goto
<1>retireold. RetireOld(t) => Moved(t, "unlock", Si(t), Old(t), "put")
  BY <1>0, <1>1 DEF RetireOld, Release, Moved, Left, Goto, Locals, Si, Old, Then, Fd, Op
<1>unlock. Unlock(t) => Left(t, IF toDestroy[Victim(t)] /\ sem[Victim(t)] = 1 THEN "destroy"
        ELSE Then(t))
  BY <1>0, <1>1 DEF Unlock, Leave, Moved, Left, Ended, Goto, Locals, Then
<1>destroy. Destroy(t) => Left(t, Then(t))
  BY <1>0, <1>1 DEF Destroy, Leave, Moved, Left, Ended, Goto, Locals, Then
<1>remove. Remove(t) => Left(t, "data")
  BY <1>0, <1>1 DEF Remove, Moved, Left, Goto
<1>getdata. GetData(t) => Left(t, IF data[Si(t)] = "none" THEN "publish" ELSE "process")
  BY <1>0, <1>1 DEF GetData, Moved, Left, Goto, Si
<1>publish. Publish(t) => Left(t, "ready")
  BY <1>0, <1>1 DEF Publish, Moved, Left, Goto
<1>fill. Fill(t) => Left(t, "process")
  BY <1>0, <1>1 DEF Fill, Moved, Left, Goto
<1>process. Process(t) => IF Op(t) = "close" THEN Left(t, "retire")
        ELSE Moved(t, "unlock", Si(t), Old(t), "idle")
  BY <1>0, <1>1 DEF Process, Release, Moved, Left, Goto, Locals, Si, Old, Then, Fd, Op
<1>bypass. Bypass(t) => Ended(t)
  BY <1>0, <1>1 DEF Bypass, Leave, Moved, Left, Ended, Goto, Locals, Then
<1>retire. Retire(t) => Moved(t, "unlock", Si(t), Old(t), "idle")
  BY <1>0, <1>1 DEF Retire, Release, Moved, Left, Goto, Locals, Si, Old, Then, Fd, Op
<1>. QED
  BY <1>lookup, <1>check, <1>testfails, <1>testpasses, <1>again, <1>refresh, <1>put, <1>light,
     <1>lookupold, <1>lockold, <1>retireold, <1>unlock, <1>destroy, <1>remove, <1>getdata,
     <1>publish, <1>fill, <1>process, <1>bypass, <1>retire

\* Where a call begins.
LEMMA BeginEffect ==
  ASSUME TypeOK, NEW t \in Threads, NEW f \in Fds, NEW o \in Ops, Begin(t, f, o)
  PROVE  /\ pc[t] = "idle" /\ pc' = [pc EXCEPT ![t] = IF o = "connect" THEN "light" ELSE "lookup"]
         /\ call' \in [Threads -> Locals] /\ \A u \in Threads : u # t => call'[u] = call[u]
         /\ Fd(t)' = f /\ Op(t)' = o /\ Si(t)' = None /\ Old(t)' = None /\ Then(t)' = "idle"
         /\ UNCHANGED <<kernel, table, status, about, toDestroy, sem, data, unnoticed>>
         /\ met' = met \cup Meets(t, f)
<1>1. call \in [Threads -> Locals] /\ pc \in [Threads -> Pcs]
  BY DEF TypeOK
<1>2. CallOf(f, o) \in Locals
  BY DEF CallOf, Locals
<1>3. call' = [call EXCEPT ![t] = CallOf(f, o)]
  BY DEF Begin
<1>4. call' \in [Threads -> Locals] /\ \A u \in Threads : u # t => call'[u] = call[u]
  BY <1>1, <1>2, <1>3
<1>5. call'[t] = CallOf(f, o)
  BY <1>1, <1>3
<1>6. Fd(t)' = f /\ Op(t)' = o /\ Si(t)' = None /\ Old(t)' = None /\ Then(t)' = "idle"
  BY <1>5 DEF CallOf, Fd, Op, Si, Old, Then
<1>. QED  BY <1>4, <1>6 DEF Begin, Goto, infos

-----------------------------------------------------------------------------
(* Types.                                                                   *)

\* The locals of a call that is over are well typed.
LEMMA NoCallType == NoCall \in Locals
  BY DEF NoCall, CallOf, Locals, Ops

\* A thread that is in a call goes to one of the places of the code, with locals of their type.
LEMMA PlaceType ==
  ASSUME TypeOK, Shape, NEW t \in Threads, Run(t)
  PROVE  pc' \in [Threads -> Pcs] /\ call' \in [Threads -> Locals]
<1>0. pc \in [Threads -> Pcs] /\ call \in [Threads -> Locals]
  BY DEF TypeOK
<1>1. Then(t) \in {"idle", "init", "put"}
  BY <1>0 DEF Locals, Then
<1>2. ASSUME Ended(t) PROVE pc' \in [Threads -> Pcs] /\ call' \in [Threads -> Locals]
  BY <1>0, <1>2, NoCallType DEF Ended, Pcs
<1>3. ASSUME NEW p \in Pcs, NEW si, NEW old, NEW then, Moved(t, p, si, old, then)
      PROVE  pc' \in [Threads -> Pcs] /\ call' \in [Threads -> Locals]
  BY <1>0, <1>3 DEF Moved
<1>4. ASSUME NEW p \in Pcs, Left(t, p)
      PROVE  pc' \in [Threads -> Pcs] /\ call' \in [Threads -> Locals]
  BY <1>2, <1>3, <1>4 DEF Left
<1>5. \A p \in {"test", "unlock", "again", "init", "check", "put", "bypass", "old", "lockold",
                "retireold", "destroy", "idle", "data", "publish", "process", "ready",
                "retire", "remove"} : p \in Pcs
  BY DEF Pcs, Looking, Calling
<1>6. CASE GetInfos(t)
  BY <1>3, <1>4, <1>5, <1>6, Effects DEF GetInfos, Entry
<1>7. CASE OnConnect(t)
  BY <1>3, <1>4, <1>5, <1>7, Effects DEF OnConnect
<1>8. CASE Call(t)
  BY <1>2, <1>3, <1>4, <1>5, <1>8, Effects DEF Call
<1>9. CASE Unlock(t) \/ Destroy(t)
  BY <1>1, <1>4, <1>5, <1>9, Effects
<1>. QED  BY <1>6, <1>7, <1>8, <1>9 DEF Run

\* A new info has the protocol of the socket and a peer.
LEMMA AllocType ==
  ASSUME TypeOK, NEW o, NEW f \in Fds, IsSocket(f), NEW p \in Peers \cup {None}, NEW b \in BOOLEAN,
         Alloc(o, f, p, b)
  PROVE  /\ status' \in [Infos -> {"absent", "live", "freed"}] /\ about' \in [Infos -> Info]
         /\ toDestroy' \in [Infos -> BOOLEAN] /\ sem' \in [Infos -> Int]
         /\ data' \in [Infos -> {"none", "raw", "ready"}]
<1>1. [proto |-> kernel[f].kind, remote |-> p, light |-> b] \in Info
  BY DEF IsSocket, Info
<1>. QED  BY <1>1 DEF Alloc, TypeOK

\* What the system call of a thread does to its descriptor.
LEMMA SysCallEffect ==
  ASSUME TypeOK, NEW t \in Threads, Fd(t) \in Fds, NEW p \in Peers \cup {None}, SysCall(t, p)
  PROVE  /\ kernel' \in [Fds -> [kind : Protos \cup {"file", "closed"}, peer : Peers \cup {None}]]
         /\ \A f \in Fds : f # Fd(t) => kernel'[f] = kernel[f]
         /\ Op(t) = "close" => kernel'[Fd(t)] = Closed
         /\ Op(t) = "connect" => /\ kernel'[Fd(t)].kind = kernel[Fd(t)].kind
                                 /\ IsSocket(Fd(t)) => kernel'[Fd(t)].peer = p
                                 /\ ~IsSocket(Fd(t)) => kernel' = kernel
         /\ Op(t) = "data" => kernel' = kernel
<1>1. /\ kernel \in [Fds -> [kind : Protos \cup {"file", "closed"}, peer : Peers \cup {None}]]
      /\ Op(t) \in Ops
  BY DEF TypeOK, Locals, Op
<1>2. CASE Op(t) = "close"
  <2>1. kernel' = [kernel EXCEPT ![Fd(t)] = Closed]
    BY <1>2 DEF SysCall, Fd, Op
  <2>2. Closed \in [kind : Protos \cup {"file", "closed"}, peer : Peers \cup {None}]
    BY DEF Closed
  <2>. QED  BY <1>1, <1>2, <2>1, <2>2
<1>3. CASE Op(t) = "connect" /\ IsSocket(Fd(t))
  <2>1. kernel' = [kernel EXCEPT ![Fd(t)].peer = p]
    BY <1>3 DEF SysCall, Fd, Op
  <2>. QED  BY <1>1, <1>3, <2>1
<1>4. CASE Op(t) = "data" \/ (Op(t) = "connect" /\ ~IsSocket(Fd(t)))
  <2>1. kernel' = kernel
    BY <1>4 DEF SysCall, Fd, Op
  <2>. QED  BY <1>1, <1>4, <2>1
<1>. QED  BY <1>1, <1>2, <1>3, <1>4 DEF Ops

\* What a step of a thread adds to the histories: a call in progress meets nobody.
LEMMA PastMoves ==
  ASSUME TypeOK, Shape, NEW t \in Threads, Run(t)
  PROVE  /\ met' = met /\ unnoticed' \subseteq Fds
         /\ \/ unnoticed' = unnoticed
            \/ /\ Put(t)
               /\ unnoticed' = IF Op(t) = "connect" /\ kernel[Fd(t)].peer # None
                               THEN unnoticed \cup {Fd(t)} ELSE unnoticed \ {Fd(t)}
            \/ /\ Process(t) /\ Op(t) = "connect" /\ SysCall(t, about[Si(t)].remote)
               /\ unnoticed' = unnoticed \ {Fd(t)}
<1>0. unnoticed \subseteq Fds /\ (pc[t] # "idle" => Fd(t) \in Fds)
  BY DEF TypeOK, Shape, ShapeOf
<1>1. CASE Put(t)
  BY <1>0, <1>1 DEF Put, Fd, Op
<1>2. CASE Process(t)
  BY <1>0, <1>2 DEF Process, Fd, Op, Si
<1>3. CASE ~Put(t) /\ ~Process(t)
  <2>1. UNCHANGED past
    BY <1>3 DEF Run, GetInfos, OnConnect, Call, Lookup, Check, TestFails, TestPasses, Again, Refresh,
       Light, LookupOld, LockOld, RetireOld, Remove, GetData, Publish, Fill, Bypass, Retire, Unlock,
       Destroy
  <2>. QED  BY <1>0, <2>1 DEF past
<1>. QED  BY <1>1, <1>2, <1>3

\* No step forgets that calls met on an info.
LEMMA MetStays == TypeOK /\ Shape /\ [Next]_vars => met \subseteq met'
  BY PastMoves DEF Next, Begin, Open, Replace, vars, past

\* A step keeps the types.
LEMMA TypeStep == TypeOK /\ Shape /\ [Next]_vars => TypeOK'
<1>. SUFFICES ASSUME TypeOK, Shape, [Next]_vars PROVE TypeOK'
  OBVIOUS
<1>1. ASSUME NEW t \in Threads, Run(t) PROVE TypeOK'
  <2>0. /\ pc' \in [Threads -> Pcs] /\ call' \in [Threads -> Locals]
        /\ met' \subseteq Infos /\ unnoticed' \subseteq Fds
    <3>1. pc' \in [Threads -> Pcs] /\ call' \in [Threads -> Locals]
      BY <1>1, PlaceType
    <3>2. met' \subseteq Infos /\ unnoticed' \subseteq Fds
      BY <1>1, PastMoves DEF TypeOK
    <3>. QED  BY <3>1, <3>2
  <2>n. /\ pc[t] # "idle" => Fd(t) \in Fds
        /\ Si(t) \in Infos \cup {None} /\ Old(t) \in Infos \cup {None}
    BY DEF Shape, ShapeOf, TypeOK, Locals, Si, Old
  <2>1. CASE Lookup(t) \/ Again(t) \/ LookupOld(t) \/ GetData(t)
    BY <2>0, <2>1 DEF TypeOK, Lookup, Again, LookupOld, GetData, infos
  <2>9. CASE Check(t) \/ LockOld(t)
    <3>1. sem' \in [Infos -> Int]
      BY <2>9 DEF TypeOK, Check, LockOld, Lock
    <3>. QED  BY <2>0, <2>9, <3>1 DEF TypeOK, Check, LockOld, Lock
  <2>10. CASE TestFails(t) \/ RetireOld(t)
    BY <2>0, <2>10 DEF TypeOK, TestFails, RetireOld
  <2>2. CASE TestPasses(t)
    <3>1. Si(t) \in Infos => about'[Si(t)] \in Info
      BY <2>2 DEF TypeOK, TestPasses, Si, Info
    <3>. QED  BY <2>0, <2>2, <2>n, <3>1 DEF TypeOK, TestPasses, Si, Info
  <2>3. CASE Refresh(t)
    BY <2>0, <2>3, <2>n, AllocType DEF TypeOK, Refresh, infos, Fd
  <2>4. CASE Light(t)
    BY <2>0, <2>4, <2>n, AllocType DEF TypeOK, Light, infos, Fd
  <2>5. CASE Put(t) \/ Remove(t)
    BY <2>0, <2>5, <2>n DEF TypeOK, Put, Remove, infos, Fd, Si
  <2>6. CASE Unlock(t) \/ Destroy(t)
    BY <2>0, <2>6, <2>n DEF TypeOK, Unlock, Destroy
  <2>7. CASE Publish(t) \/ Fill(t) \/ Retire(t)
    BY <2>0, <2>7, <2>n DEF TypeOK, Publish, Fill, Retire
  <2>8. CASE Process(t) \/ Bypass(t)
    <3>1. Si(t) # None => about[Si(t)].remote \in Peers \cup {None}
      BY <2>n DEF TypeOK, Info
    <3>2. kernel' = kernel \/ \E p \in Peers \cup {None} : SysCall(t, p)
      BY <2>8, <3>1 DEF Process, Bypass, Si, Shape, ShapeOf
    <3>3. kernel' \in [Fds -> [kind : Protos \cup {"file", "closed"}, peer : Peers \cup {None}]]
      BY <2>8, <2>n, <3>2, SysCallEffect DEF TypeOK, Process, Bypass
    <3>. QED  BY <2>0, <2>8, <3>3 DEF TypeOK, Process, Bypass, infos
  <2>. QED
    BY <1>1, <2>1, <2>2, <2>3, <2>4, <2>5, <2>6, <2>7, <2>8, <2>9, <2>10
    DEF Run, GetInfos, OnConnect, Call
<1>2. ASSUME NEW t \in Threads, NEW f \in Fds, NEW o \in Ops, Begin(t, f, o) PROVE TypeOK'
  <2>1. /\ pc' \in [Threads -> Pcs]
        /\ met' \subseteq Infos /\ unnoticed' \subseteq Fds
    BY <1>2, BeginEffect DEF TypeOK, Pcs, Looking, Meets
  <2>. QED  BY <1>2, <2>1, BeginEffect DEF TypeOK
<1>3. ASSUME NEW f \in Fds, Open(f) \/ Replace(f) PROVE TypeOK'
  <2>1. PICK k \in Protos \cup {"file"}, p \in Peers \cup {None} :
          kernel' = [kernel EXCEPT ![f] = [kind |-> k, peer |-> p]]
    BY <1>3 DEF Open, Replace, Protos
  <2>. QED  BY <1>3, <2>1 DEF Open, Replace, TypeOK, infos, past
<1>4. CASE UNCHANGED vars
  BY <1>4 DEF vars, infos, past, TypeOK
<1>. QED  BY <1>1, <1>2, <1>3, <1>4 DEF Next

-----------------------------------------------------------------------------
(* Frames.                                                                  *)

\* What a step of one thread leaves of another.
LEMMA Others ==
  ASSUME TypeOK, Shape, NEW t \in Threads, Run(t), NEW u \in Threads, u # t
  PROVE  /\ pc'[u] = pc[u] /\ call'[u] = call[u]
         /\ Fd(u)' = Fd(u) /\ Op(u)' = Op(u) /\ Si(u)' = Si(u) /\ Old(u)' = Old(u)
         /\ Then(u)' = Then(u) /\ Refs(u)' = Refs(u) /\ Victim(u)' = Victim(u)
         /\ (Before(u)' <=> Before(u)) /\ (Active(u)' <=> Active(u))
<1>0. pc \in [Threads -> Pcs] /\ call \in [Threads -> Locals]
  BY DEF TypeOK
<1>2. ASSUME Ended(t) PROVE pc'[u] = pc[u] /\ call'[u] = call[u]
  BY <1>0, <1>2 DEF Ended
<1>3. ASSUME NEW p, NEW si, NEW old, NEW then, Moved(t, p, si, old, then)
      PROVE  pc'[u] = pc[u] /\ call'[u] = call[u]
  BY <1>0, <1>3 DEF Moved
<1>4. ASSUME NEW p, Left(t, p) PROVE pc'[u] = pc[u] /\ call'[u] = call[u]
  BY <1>2, <1>3, <1>4 DEF Left
<1>5. pc'[u] = pc[u] /\ call'[u] = call[u]
  <2>1. CASE GetInfos(t)
    BY <1>3, <1>4, <2>1, Effects DEF GetInfos
  <2>2. CASE OnConnect(t)
    BY <1>3, <1>4, <2>2, Effects DEF OnConnect
  <2>3. CASE Call(t)
    BY <1>2, <1>3, <1>4, <2>3, Effects DEF Call
  <2>4. CASE Unlock(t) \/ Destroy(t)
    BY <1>4, <2>4, Effects
  <2>. QED  BY <2>1, <2>2, <2>3, <2>4 DEF Run
<1>. QED  BY <1>5 DEF Fd, Op, Si, Old, Then, Refs, Victim, Before, Active

\* A step stays in its call, and never goes back: a call that has its info does not look for
\* it again, and one that had its effect does not have it twice.
LEMMA Onward ==
  ASSUME TypeOK, Shape, NEW t \in Threads, Run(t)
  PROVE  /\ pc[t] # "idle" /\ Fd(t) \in Fds
         /\ \/ pc'[t] # "idle" /\ Fd(t)' = Fd(t) /\ Op(t)' = Op(t)
            \/ Ended(t) /\ pc'[t] = "idle" /\ Op(t)' = "data" /\ Refs(t)' = {}
         /\ Before(t)' => Before(t)
         /\ Active(t)' => Active(t)
<1>0. pc \in [Threads -> Pcs] /\ call \in [Threads -> Locals]
  BY DEF TypeOK
<1>1. pc[t] # "idle"
  BY DEF Run, GetInfos, OnConnect, Call, Lookup, Check, TestFails, TestPasses, Again, Refresh, Put,
         Light, LookupOld, LockOld, RetireOld, Remove, GetData, Publish, Fill, Process, Bypass,
         Retire, Unlock, Destroy
<1>2. Then(t) \in {"idle", "init", "put"}
  BY <1>0 DEF Locals, Then
<1> DEFINE Fine == /\ \/ pc'[t] # "idle" /\ Fd(t)' = Fd(t) /\ Op(t)' = Op(t)
                      \/ Ended(t) /\ pc'[t] = "idle" /\ Op(t)' = "data" /\ Refs(t)' = {}
                   /\ Before(t)' => Before(t)
                   /\ Active(t)' => Active(t)
<1>g. SUFFICES Fine
  BY <1>1 DEF Shape, ShapeOf
<1>3. ASSUME Ended(t) PROVE Fine
  <2>1. pc'[t] = "idle" /\ call'[t] = NoCall
    BY <1>0, <1>3 DEF Ended
  <2>2. Op(t)' = "data" /\ Refs(t)' = {}
    BY <2>1 DEF Op, Refs, Si, Old, NoCall, CallOf
  <2>3. ~Before(t)' /\ ~Active(t)'
    BY <2>1 DEF Before, Active, Looking, Calling
  <2>. QED  BY <1>3, <2>1, <2>2, <2>3
<1>4. ASSUME NEW p \in Looking \cup Calling \cup {"retire"}, NEW si, NEW old,
             Moved(t, p, si, old, Then(t)),
             p \in Looking => Before(t), p \in Calling => Active(t)
      PROVE  Fine
  <2>1. pc'[t] = p /\ Fd(t)' = Fd(t) /\ Op(t)' = Op(t) /\ Then(t)' = Then(t) /\ p # "idle"
    BY <1>0, <1>4 DEF Moved, Looking, Calling
  <2>. QED  BY <1>4, <2>1 DEF Before, Active, Looking, Calling
<1>5. ASSUME NEW p \in {"unlock", "destroy"}, NEW si, NEW old, NEW then,
             Moved(t, p, si, old, then), then # "idle" => Before(t)
      PROVE  Fine
  <2>1. pc'[t] = p /\ Fd(t)' = Fd(t) /\ Op(t)' = Op(t) /\ Then(t)' = then
    BY <1>0, <1>5 DEF Moved
  <2>. QED  BY <1>5, <2>1 DEF Before, Active, Looking, Calling, Then
<1> HIDE DEF Fine
<1>a. ASSUME NEW p \in Looking \cup Calling \cup {"retire"}, Left(t, p),
             p \in Looking => Before(t), p \in Calling => Active(t)
      PROVE  Fine
  <2>1. p # "idle"
    BY DEF Looking, Calling
  <2>. QED  BY <1>4, <1>a, <2>1 DEF Left
<1>b. "idle" \notin Looking /\ \A p \in {"test", "again", "init", "check", "put", "old", "lockold", "retireold"} : p \in Looking
  BY DEF Looking
<1>c. \A p \in {"remove", "data", "publish", "ready", "process", "bypass"} : p \in Calling /\ p \notin Looking
  BY DEF Calling, Looking
<1>d. "retire" \notin Looking /\ "retire" \notin Calling
  BY DEF Calling, Looking
<1>6. CASE GetInfos(t)
  <2>1. Before(t)
    BY <1>6 DEF GetInfos, Lookup, Check, TestFails, TestPasses, Again, Refresh, Put, Before, Looking
  <2>2. Active(t)
    BY <2>1 DEF Active
  <2>3. CASE Lookup(t) \/ Refresh(t)
    <3>1. \E p \in {"init", "check", "put"} : \E si : Moved(t, p, si, Old(t), Then(t))
      BY <2>3, Effects
    <3>. QED  BY <1>4, <1>b, <2>1, <2>2, <3>1
  <2>4. CASE TestFails(t)
    BY <1>5, <2>1, <2>4, Effects
  <2>5. CASE Check(t) \/ TestPasses(t) \/ Again(t) \/ Put(t)
    BY <1>a, <1>b, <1>c, <2>1, <2>2, <2>5, Effects DEF Entry
  <2>. QED  BY <1>6, <2>3, <2>4, <2>5 DEF GetInfos
<1>7. CASE OnConnect(t)
  <2>1. Before(t)
    BY <1>7 DEF OnConnect, Light, LookupOld, LockOld, RetireOld, Before, Looking
  <2>2. Active(t)
    BY <2>1 DEF Active
  <2>3. CASE Light(t) \/ LookupOld(t)
    BY <1>4, <1>b, <2>1, <2>2, <2>3, Effects
  <2>4. CASE RetireOld(t)
    BY <1>5, <2>1, <2>4, Effects
  <2>5. CASE LockOld(t)
    BY <1>a, <1>b, <2>1, <2>2, <2>5, Effects
  <2>. QED  BY <1>7, <2>3, <2>4, <2>5 DEF OnConnect
<1>8. CASE Call(t)
  <2>1. pc[t] \in Calling \/ Retire(t)
    BY <1>8 DEF Call, Remove, GetData, Publish, Fill, Process, Bypass, Calling
  <2>2. pc[t] \in Calling => Active(t)
    BY DEF Active
  <2>3. CASE Remove(t) \/ GetData(t) \/ Publish(t) \/ Fill(t)
    <3>1. Active(t)
      BY <2>3 DEF Active, Remove, GetData, Publish, Fill, Calling
    <3>2. \E p \in {"data", "publish", "ready", "process"} : Left(t, p)
      BY <2>3, Effects
    <3>. QED  BY <1>a, <1>c, <3>1, <3>2
  <2>4. CASE Process(t) \/ Retire(t)
    BY <1>a, <1>5, <1>d, <2>4, Effects
  <2>. QED  BY <1>3, <1>8, <2>3, <2>4, Effects DEF Call
<1>9. CASE Unlock(t) \/ Destroy(t)
  <2>1. Then(t) # "idle" => Before(t)
    BY <1>9 DEF Unlock, Destroy, Before, Then
  <2>2. Before(t) => Active(t)
    BY DEF Active
  <2>3. ASSUME NEW p \in {"destroy", "idle", "init", "put"}, Left(t, p), p = "destroy" \/ p = Then(t)
        PROVE  Fine
    BY <1>3, <1>5, <1>a, <1>b, <1>c, <2>1, <2>2, <2>3 DEF Left
  <2>. QED  BY <1>2, <1>9, <2>3, Effects
<1>. QED  BY <1>6, <1>7, <1>8, <1>9 DEF Run

\* A step leaves every thread where its locals are what its place says.
LEMMA ShapeRun == ASSUME TypeOK, Shape, NEW t \in Threads, Run(t) PROVE Shape'
<1>0. pc \in [Threads -> Pcs] /\ call \in [Threads -> Locals] /\ ShapeOf(t)
  BY DEF TypeOK, Shape
<1>1. ASSUME NEW u \in Threads, u # t PROVE ShapeOf(u)'
  BY <1>1, Others DEF Shape, ShapeOf, Leaving
<1>2. ASSUME NEW p, NEW si, NEW old, NEW then, Moved(t, p, si, old, then)
      PROVE  /\ pc'[t] = p /\ Fd(t)' = Fd(t) /\ Op(t)' = Op(t) /\ Si(t)' = si /\ Old(t)' = old
             /\ Then(t)' = then /\ Victim(t)' = (IF then = "put" THEN old ELSE si)
  BY <1>0, <1>2 DEF Moved, Victim, Then, Old, Si
<1>3. Victim(t) = (IF Then(t) = "put" THEN Old(t) ELSE Si(t)) /\ Fd(t) \in Fds
  BY Onward DEF Victim, Then, Old, Si
<1>4. ASSUME Ended(t) PROVE ShapeOf(t)'
  <2>1. pc'[t] = "idle" /\ call'[t] = NoCall
    BY <1>0, <1>4 DEF Ended
  <2>. QED  BY <2>1 DEF ShapeOf, Leaving
<1>5. Op(t) \in Ops /\ Then(t) \in {"idle", "init", "put"}
  BY DEF TypeOK, Locals, Op, Then
<1>6. SUFFICES ShapeOf(t)'
  BY <1>1 DEF Shape
<1>7. CASE Lookup(t)
  <2>1. PICK p \in {"init", "check"} :
          /\ Moved(t, p, table[Fd(t)], Old(t), Then(t))
          /\ p = "check" => table[Fd(t)] # None
    BY <1>7, Effects
  <2>2. pc[t] = "lookup"
    BY <1>7 DEF Lookup
  <2>3. pc'[t] = p /\ Fd(t)' = Fd(t) /\ Op(t)' = Op(t) /\ Si(t)' = table[Fd(t)]
    BY <1>2, <2>1
  <2>. QED  BY <1>0, <1>3, <2>1, <2>2, <2>3 DEF ShapeOf, Leaving
<1>8. CASE Check(t) \/ TestPasses(t) \/ LockOld(t)
  <2>1. PICK p \in {"test", "again", "retireold"} :
          /\ Moved(t, p, Si(t), Old(t), Then(t))
          /\ p = "retireold" <=> LockOld(t)
    BY <1>8, Effects DEF Left, Check, TestPasses, LockOld
  <2>. QED
    BY <1>0, <1>2, <1>3, <1>8, <2>1 DEF ShapeOf, Leaving, Check, TestPasses, LockOld
<1>9. CASE TestFails(t)
  <2>1. pc[t] = "test" /\ Moved(t, "unlock", Si(t), Old(t), "init")
    BY <1>9, Effects DEF TestFails
  <2>. QED  BY <1>0, <1>2, <1>3, <2>1 DEF ShapeOf, Leaving
<1>10. CASE Again(t)
  <2>1. PICK p \in {"init", "remove", "data"} :
          Moved(t, p, Si(t), Old(t), Then(t)) /\ (p = "remove" => Op(t) = "close")
    BY <1>10, Effects DEF Left, Entry, Op
  <2>. QED  BY <1>0, <1>2, <1>3, <1>10, <2>1 DEF ShapeOf, Leaving, Again
<1>11. CASE Refresh(t)
  <2>1. PICK o : Moved(t, "put", o, Old(t), Then(t))
    BY <1>11, Effects
  <2>. QED  BY <1>0, <1>2, <1>3, <2>1 DEF ShapeOf, Leaving
<1>12. CASE Put(t)
  <2>1. PICK p \in {"bypass", "remove", "data"} :
          /\ Moved(t, p, Si(t), Old(t), Then(t)) /\ (p = "remove" => Op(t) = "close")
          /\ p = "bypass" <=> Si(t) = None
    BY <1>12, Effects DEF Left, Entry, Op
  <2>. QED  BY <1>0, <1>2, <1>3, <2>1 DEF ShapeOf, Leaving
<1>13. CASE Light(t)
  <2>1. PICK o : Moved(t, "old", o, Old(t), Then(t))
    BY <1>13, Effects
  <2>. QED  BY <1>0, <1>2, <1>3, <1>13, <2>1 DEF ShapeOf, Leaving, Light
<1>14. CASE LookupOld(t)
  <2>1. PICK p \in {"put", "lockold"} :
          /\ Moved(t, p, Si(t), table[Fd(t)], Then(t))
          /\ p = "lockold" => table[Fd(t)] # None
    BY <1>14, Effects
  <2>2. pc[t] = "old"
    BY <1>14 DEF LookupOld
  <2>3. pc'[t] = p /\ Fd(t)' = Fd(t) /\ Op(t)' = Op(t) /\ Old(t)' = table[Fd(t)]
    BY <1>2, <2>1
  <2>. QED  BY <1>0, <1>3, <2>1, <2>2, <2>3 DEF ShapeOf, Leaving
<1>15. CASE RetireOld(t)
  <2>1. pc[t] = "retireold" /\ Moved(t, "unlock", Si(t), Old(t), "put")
    BY <1>15, Effects DEF RetireOld
  <2>. QED  BY <1>0, <1>2, <1>3, <2>1 DEF ShapeOf, Leaving
<1>16. CASE Unlock(t) \/ Destroy(t)
  <2>1. ASSUME Moved(t, "destroy", Si(t), Old(t), Then(t)) PROVE ShapeOf(t)'
    BY <1>0, <1>2, <1>3, <1>16, <2>1 DEF ShapeOf, Leaving, Unlock, Destroy
  <2>2. ASSUME Moved(t, Then(t), Si(t), Old(t), Then(t)), Then(t) # "idle" PROVE ShapeOf(t)'
    BY <1>0, <1>2, <1>3, <1>5, <1>16, <2>2 DEF ShapeOf, Leaving, Unlock, Destroy
  <2>. QED  BY <1>4, <1>16, <2>1, <2>2, Effects DEF Left
<1>17. CASE Remove(t) \/ GetData(t) \/ Publish(t) \/ Fill(t)
  <2>1. PICK p \in {"data", "publish", "ready", "process"} : Moved(t, p, Si(t), Old(t), Then(t))
    BY <1>17, Effects DEF Left
  <2>. QED
    BY <1>0, <1>2, <1>3, <1>17, <2>1 DEF ShapeOf, Leaving, Remove, GetData, Publish, Fill
<1>18. CASE Process(t)
  <2>1. \/ Op(t) = "close" /\ Moved(t, "retire", Si(t), Old(t), Then(t))
        \/ Moved(t, "unlock", Si(t), Old(t), "idle")
    BY <1>18, Effects DEF Left
  <2>. QED  BY <1>0, <1>2, <1>3, <1>18, <2>1 DEF ShapeOf, Leaving, Process
<1>19. CASE Retire(t)
  <2>1. pc[t] = "retire" /\ Moved(t, "unlock", Si(t), Old(t), "idle")
    BY <1>19, Effects DEF Retire
  <2>. QED  BY <1>0, <1>2, <1>3, <2>1 DEF ShapeOf, Leaving
<1>20. CASE Bypass(t)
  BY <1>4, <1>20, Effects
<1>. QED
  BY <1>7, <1>8, <1>9, <1>10, <1>11, <1>12, <1>13, <1>14, <1>15, <1>16, <1>17, <1>18, <1>19, <1>20
     DEF Run, GetInfos, OnConnect, Call

\* What a program does between its calls leaves every thread so.
LEMMA ShapeStep == TypeOK /\ Shape /\ [Next]_vars => Shape'
<1>. SUFFICES ASSUME TypeOK, Shape, [Next]_vars PROVE Shape'
  OBVIOUS
<1>0. pc \in [Threads -> Pcs]
  BY DEF TypeOK
<1>1. ASSUME NEW t \in Threads, NEW f \in Fds, NEW o \in Ops, Begin(t, f, o) PROVE Shape'
  <2>1. /\ pc' = [pc EXCEPT ![t] = IF o = "connect" THEN "light" ELSE "lookup"]
        /\ \A u \in Threads : u # t => call'[u] = call[u]
        /\ Fd(t)' = f /\ Op(t)' = o
    BY <1>1, BeginEffect
  <2>2. ASSUME NEW u \in Threads, u # t PROVE ShapeOf(u)'
    <3>1. pc'[u] = pc[u] /\ call'[u] = call[u] /\ ShapeOf(u)
      BY <1>0, <2>1, <2>2 DEF Shape
    <3>. QED  BY <3>1 DEF ShapeOf, Leaving, Fd, Si, Old, Op, Then, Victim
  <2>3. ShapeOf(t)'
    BY <1>0, <2>1 DEF ShapeOf, Leaving
  <2>. QED  BY <2>2, <2>3 DEF Shape
<1>2. ASSUME UNCHANGED <<pc, call>> PROVE Shape'
  BY <1>2 DEF Shape, ShapeOf, Leaving, Fd, Si, Old, Op, Then, Victim
<1>. QED  BY <1>1, <1>2, ShapeRun DEF Next, Open, Replace, vars

-----------------------------------------------------------------------------
(* What a step does to the table and to the kernel.                         *)

\* The table changes when a lookup or a connect stores its info, and when close removes it.
LEMMA TableMoves ==
  ASSUME TypeOK, NEW t \in Threads, Run(t)
  PROVE  \/ table' = table /\ ~Put(t) /\ ~Remove(t)
         \/ Put(t) /\ pc[t] = "put" /\ table' = [table EXCEPT ![Fd(t)] = Si(t)]
         \/ Remove(t) /\ pc[t] = "remove" /\ table' = [table EXCEPT ![Fd(t)] = None]
<1>1. CASE Put(t) \/ Remove(t)
  BY <1>1 DEF Put, Remove, Fd, Si
<1>2. CASE ~Put(t) /\ ~Remove(t)
  BY <1>2
     DEF Run, GetInfos, OnConnect, Call, Lookup, Check, TestFails, TestPasses, Again, Refresh,
         Light, LookupOld, LockOld, RetireOld, GetData, Publish, Fill, Process, Bypass,
         Retire, Unlock, Destroy
<1>. QED  BY <1>1, <1>2

\* The kernel changes when a connect or a close has its effect, once.
LEMMA KernelMoves ==
  ASSUME TypeOK, Shape, NEW t \in Threads, Run(t)
  PROVE  \/ kernel' = kernel
         \/ /\ Process(t) \/ Bypass(t)
            /\ Active(t) /\ ~Active(t)' /\ ~Before(t) /\ Op(t) # "data"
            /\ \A f \in Fds : f # Fd(t) => kernel'[f] = kernel[f]
            /\ \/ Op(t) = "close" /\ kernel'[Fd(t)] = Closed
               \/ /\ Op(t) = "connect" /\ kernel'[Fd(t)].kind = kernel[Fd(t)].kind
                  /\ kernel'[Fd(t)] # Closed
                  /\ Process(t) => kernel'[Fd(t)].peer = about[Si(t)].remote
<1>1. CASE ~Process(t) /\ ~Bypass(t)
  BY <1>1
     DEF Run, GetInfos, OnConnect, Call, Lookup, Check, TestFails, TestPasses, Again, Refresh, Put,
         Light, LookupOld, LockOld, RetireOld, Remove, GetData, Publish, Fill, Retire, Unlock,
         Destroy
<1>2. CASE Process(t) \/ Bypass(t)
  <2>0. /\ pc \in [Threads -> Pcs] /\ call \in [Threads -> Locals] /\ Fd(t) \in Fds
        /\ about \in [Infos -> Info] /\ Si(t) \in Infos \cup {None} /\ Op(t) \in Ops
    BY Onward DEF TypeOK, Locals, Si, Op
  <2>1. Active(t) /\ ~Before(t)
    BY <1>2 DEF Process, Bypass, Active, Before, Looking, Calling
  <2>2. ~Active(t)'
    <3>1. CASE Ended(t)
      <4>1. pc'[t] = "idle"
        BY <2>0, <3>1 DEF Ended
      <4>. QED  BY <4>1 DEF Active, Before, Looking, Calling
    <3>2. CASE Moved(t, "retire", Si(t), Old(t), Then(t))
      <4>1. pc'[t] = "retire"
        BY <2>0, <3>2 DEF Moved
      <4>. QED  BY <4>1 DEF Active, Before, Looking, Calling
    <3>3. CASE Moved(t, "unlock", Si(t), Old(t), "idle")
      <4>1. pc'[t] = "unlock" /\ Then(t)' = "idle"
        BY <2>0, <3>3 DEF Moved
      <4>. QED  BY <4>1 DEF Active, Before, Looking, Calling, Then
    <3>. QED  BY <1>2, <3>1, <3>2, <3>3, Effects DEF Left
  <2>3. PICK p \in Peers \cup {None} :
          /\ kernel' = kernel \/ SysCall(t, p)
          /\ Process(t) => p = about[Si(t)].remote
    <3>1. CASE Process(t)
      <4>1. about[Si(t)].remote \in Peers \cup {None}
        BY <2>0, <3>1 DEF Process, Shape, ShapeOf, Info
      <4>. QED  BY <3>1, <4>1 DEF Process, Si
    <3>2. CASE Bypass(t)
      <4>1. ~Process(t)
        BY <3>2 DEF Process, Bypass
      <4>. QED  BY <3>2, <4>1 DEF Bypass
    <3>. QED  BY <1>2, <3>1, <3>2
  <2>4. CASE kernel' # kernel
    <3>1. /\ \A f \in Fds : f # Fd(t) => kernel'[f] = kernel[f]
          /\ Op(t) = "close" => kernel'[Fd(t)] = Closed
          /\ Op(t) = "connect" => /\ kernel'[Fd(t)].kind = kernel[Fd(t)].kind
                                  /\ IsSocket(Fd(t)) /\ kernel'[Fd(t)].peer = p
          /\ Op(t) # "data"
      BY <2>0, <2>3, <2>4, SysCallEffect
    <3>2. Op(t) = "connect" => kernel'[Fd(t)] # Closed
      BY <3>1 DEF IsSocket, Closed, Protos
    <3>. QED  BY <1>2, <2>0, <2>1, <2>2, <2>3, <3>1, <3>2 DEF Ops
  <2>. QED  BY <2>4
<1>. QED  BY <1>1, <1>2

-----------------------------------------------------------------------------
(* What settled descriptors give.                                           *)

\* A call at work was at work before the step, on the same descriptor.
LEMMA Calm ==
  ASSUME TypeOK, Shape, NEW t \in Threads, Run(t), NEW v \in Threads
  PROVE  /\ Before(v)' => Before(v) /\ Active(v)'
         /\ Active(v)' => Active(v) /\ Fd(v)' = Fd(v) /\ Op(v)' = Op(v)
<1>1. Before(v)' => Active(v)'
  BY DEF Active
<1>2. pc'[t] = "idle" => ~Active(t)'
  BY DEF Active, Before, Looking, Calling
<1>. QED  BY <1>1, <1>2, Onward, Others

\* A step keeps connect and close apart from the other calls on the descriptor.
LEMMA AloneStep ==
  ASSUME Settled, TypeOK, Shape, Alone, [Next]_vars
  PROVE  Alone'
<1>1. ASSUME NEW t \in Threads, Run(t) PROVE Alone'
  BY <1>1, Calm DEF Alone, Same
<1>2. ASSUME NEW t \in Threads, NEW f \in Fds, NEW o \in Ops, Begin(t, f, o) PROVE Alone'
  <2>0. pc \in [Threads -> Pcs]
    BY DEF TypeOK
  <2>1. ASSUME NEW u \in Threads, u # t
        PROVE  /\ Fd(u)' = Fd(u) /\ Op(u)' = Op(u)
               /\ (Before(u)' <=> Before(u)) /\ (Active(u)' <=> Active(u))
               /\ Fd(u) = f /\ Active(u) => Op(u) = "data" /\ (Before(u) => o = "data")
    <3>1. pc'[u] = pc[u] /\ call'[u] = call[u]
      BY <1>2, <2>0, <2>1, BeginEffect
    <3>2. Fd(u) = f /\ Active(u) => Op(u) = "data" /\ (Before(u) => o = "data")
      BY <1>2, <2>1 DEF Begin, Admits, Active, Fd, Op
    <3>. QED  BY <3>1, <3>2 DEF Fd, Op, Active, Before
  <2>2. Fd(t)' = f /\ Op(t)' = o
    BY <1>2, BeginEffect
  <2>3. ASSUME NEW u \in Threads, NEW w \in Threads,
               Same(u, w)', Active(u)', Op(u)' # "data", Active(w)'
        PROVE  ~Before(w)' /\ Op(w)' = "data"
    <3>1. CASE u # t /\ w # t
      BY <2>1, <2>3, <3>1 DEF Alone, Same
    <3>2. CASE u = t /\ w # t
      BY <2>1, <2>2, <2>3, <3>2 DEF Same
    <3>3. CASE u # t /\ w = t
      BY <2>1, <2>2, <2>3, <3>3 DEF Same
    <3>. QED  BY <2>3, <3>1, <3>2, <3>3 DEF Same
  <2>. QED  BY <2>3 DEF Alone
<1>3. ASSUME UNCHANGED <<pc, call>> PROVE Alone'
  BY <1>3 DEF Alone, Same, Active, Before, Fd, Op
<1>. QED  BY <1>1, <1>2, <1>3 DEF Next, Open, Replace, vars

\* No call at work finds its descriptor closed.
LEMMA OnOpenStep ==
  ASSUME Settled, TypeOK, Shape, Alone, OnOpen, [Next]_vars
  PROVE  OnOpen'
<1>0. pc \in [Threads -> Pcs]
  BY DEF TypeOK
<1>1. ASSUME NEW t \in Threads, Run(t) PROVE OnOpen'
  <2>1. ASSUME NEW u \in Threads, Before(u)' \/ (Active(u)' /\ Op(u)' # "data")
        PROVE  kernel'[Fd(u)'] # Closed
    <3>1. /\ Active(u) /\ Active(u)' /\ Fd(u)' = Fd(u) /\ Op(u)' = Op(u)
          /\ Before(u) \/ Op(u) # "data"
      BY <1>1, <2>1, Calm
    <3>2. kernel[Fd(u)] # Closed
      BY <3>1 DEF OnOpen
    <3>3. Fd(u) \in Fds
      BY <3>1 DEF Shape, ShapeOf, Active, Before, Looking, Calling
    <3>4. CASE kernel' # kernel /\ Fd(t) = Fd(u)
      <4>1. /\ Active(t) /\ ~Active(t)' /\ Op(t) # "data"
            /\ (Op(t) = "close" \/ kernel'[Fd(t)] # Closed)
        BY <1>1, <3>4, KernelMoves
      <4>2. u # t
        BY <3>1, <4>1
      <4>3. ~Before(u) /\ Op(u) = "data"
        BY <3>1, <3>4, <4>1, <4>2 DEF Alone, Same
      <4>. QED  BY <3>1, <4>3
    <3>5. CASE kernel' = kernel \/ Fd(t) # Fd(u)
      <4>1. kernel'[Fd(u)] = kernel[Fd(u)]
        BY <1>1, <3>3, <3>5, KernelMoves
      <4>. QED  BY <3>1, <3>2, <4>1
    <3>. QED  BY <3>4, <3>5
  <2>. QED  BY <2>1 DEF OnOpen
<1>2. ASSUME NEW t \in Threads, NEW f \in Fds, NEW o \in Ops, Begin(t, f, o) PROVE OnOpen'
  <2>1. kernel[f] # Closed /\ kernel' = kernel /\ Fd(t)' = f
    BY <1>2, BeginEffect DEF Begin, Admits
  <2>2. ASSUME NEW u \in Threads, u # t PROVE pc'[u] = pc[u] /\ call'[u] = call[u]
    BY <1>0, <1>2, <2>2, BeginEffect
  <2>3. ASSUME NEW u \in Threads, u # t, Before(u)' \/ (Active(u)' /\ Op(u)' # "data")
        PROVE  kernel'[Fd(u)'] # Closed
    BY <2>1, <2>2, <2>3 DEF OnOpen, Fd, Op, Active, Before
  <2>. QED  BY <2>1, <2>3 DEF OnOpen
<1>3. ASSUME NEW f \in Fds, Open(f) \/ Replace(f) PROVE OnOpen'
  <2>1. \A g \in Fds : kernel'[g] = kernel[g] \/ kernel'[g] # Closed
    BY <1>3 DEF Open, Replace, Closed, TypeOK, Protos
  <2>2. UNCHANGED <<pc, call>>
    BY <1>3 DEF Open, Replace
  <2>3. \A u \in Threads : Before(u) \/ Active(u) => Fd(u) \in Fds
    BY DEF Shape, ShapeOf, Active, Before, Looking, Calling
  <2>. QED  BY <2>1, <2>2, <2>3 DEF OnOpen, Fd, Op, Active, Before
<1>4. CASE UNCHANGED vars
  BY <1>4 DEF vars, OnOpen, Fd, Op, Active, Before
<1>. QED  BY <1>1, <1>2, <1>3, <1>4 DEF Next

-----------------------------------------------------------------------------
(* What a step does to the infos.                                           *)

\* The step allocates o for the thread t.
Allocates(t, o) ==
  /\ Refresh(t) \/ Light(t)
  /\ status[o] = "absent" /\ status'[o] = "live" /\ Si(t)' = o /\ sem'[o] = 1
  /\ about'[o].proto = kernel[Fd(t)].kind
  /\ Refresh(t) => ~about'[o].light /\ about'[o].remote = kernel[Fd(t)].peer

\* A step allocates an info in the whole, or leaves the infos alone.
LEMMA Allocation ==
  ASSUME TypeOK, Shape, NEW t \in Threads, Refresh(t) \/ Light(t)
  PROVE  /\ Si(t)' \in Infos => Allocates(t, Si(t)')
         /\ \A o \in Infos : o # Si(t)' =>
              status'[o] = status[o] /\ sem'[o] = sem[o] /\ about'[o] = about[o]
         /\ toDestroy' = toDestroy
         /\ Si(t)' \in Infos \cup {None}
<1>0. /\ status \in [Infos -> {"absent", "live", "freed"}] /\ about \in [Infos -> Info]
      /\ sem \in [Infos -> Int] /\ call \in [Threads -> Locals] /\ None \notin Infos
  BY SocketsAssumption DEF TypeOK
<1>1. ASSUME NEW o, NEW p, NEW b, Alloc(o, Fd(t), p, b), call' = [call EXCEPT ![t].si = o]
      PROVE  /\ Si(t)' = o /\ o \in Infos /\ status[o] = "absent" /\ status'[o] = "live" /\ sem'[o] = 1
             /\ about'[o].proto = kernel[Fd(t)].kind
             /\ about'[o].light = b /\ about'[o].remote = p
             /\ \A q \in Infos : q # o =>
                  status'[q] = status[q] /\ sem'[q] = sem[q] /\ about'[q] = about[q]
             /\ toDestroy' = toDestroy
  <2>1. Si(t)' = o
    BY <1>0, <1>1 DEF Si, Locals
  <2>2. o \in Infos /\ status[o] = "absent"
    BY <1>1 DEF Alloc
  <2>3. status'[o] = "live" /\ sem'[o] = 1
    BY <1>0, <1>1, <2>2 DEF Alloc
  <2>4. about'[o] = [proto |-> kernel[Fd(t)].kind, remote |-> p, light |-> b]
    BY <1>0, <1>1, <2>2 DEF Alloc
  <2>5. /\ \A q \in Infos : q # o =>
             status'[q] = status[q] /\ sem'[q] = sem[q] /\ about'[q] = about[q]
        /\ toDestroy' = toDestroy
    BY <1>0, <1>1 DEF Alloc
  <2>. QED  BY <2>1, <2>2, <2>3, <2>4, <2>5
<1>2. ASSUME UNCHANGED infos, call' = [call EXCEPT ![t].si = None]
      PROVE  /\ Si(t)' = None /\ UNCHANGED <<status, sem, about, toDestroy>>
  BY <1>0, <1>2 DEF infos, Si, Locals
<1>3. CASE Refresh(t)
  <2>1. \/ /\ Alloc(NewInfo, Fd(t), kernel[Fd(t)].peer, FALSE)
           /\ call' = [call EXCEPT ![t].si = NewInfo]
        \/ UNCHANGED infos /\ call' = [call EXCEPT ![t].si = None]
    BY <1>3 DEF Refresh, Fd
  <2>2. CASE UNCHANGED infos /\ call' = [call EXCEPT ![t].si = None]
    BY <1>0, <1>2, <2>2
  <2>3. CASE /\ Alloc(NewInfo, Fd(t), kernel[Fd(t)].peer, FALSE)
             /\ call' = [call EXCEPT ![t].si = NewInfo]
    <3>1. PICK o : /\ Si(t)' = o /\ o \in Infos /\ status[o] = "absent" /\ status'[o] = "live"
                   /\ sem'[o] = 1 /\ about'[o].proto = kernel[Fd(t)].kind
                   /\ about'[o].light = FALSE /\ about'[o].remote = kernel[Fd(t)].peer
                   /\ \A q \in Infos : q # o =>
                        status'[q] = status[q] /\ sem'[q] = sem[q] /\ about'[q] = about[q]
                   /\ toDestroy' = toDestroy
      BY <1>1, <2>3, ZenonT(60)
    <3>. QED  BY <1>0, <1>3, <3>1 DEF Allocates
  <2>. QED  BY <2>1, <2>2, <2>3
<1>4. CASE Light(t)
  <2>1. \/ /\ \E p \in Peers : Alloc(NewInfo, Fd(t), p, TRUE)
           /\ call' = [call EXCEPT ![t].si = NewInfo]
        \/ UNCHANGED infos /\ call' = [call EXCEPT ![t].si = None]
    BY <1>4 DEF Light, Fd
  <2>2. ~Refresh(t)
    BY <1>4 DEF Light, Refresh
  <2>3. CASE UNCHANGED infos /\ call' = [call EXCEPT ![t].si = None]
    BY <1>0, <1>2, <2>3
  <2>4. ASSUME NEW p \in Peers, Alloc(NewInfo, Fd(t), p, TRUE), call' = [call EXCEPT ![t].si = NewInfo]
        PROVE  \E o \in Infos :
                 /\ Si(t)' = o /\ status[o] = "absent" /\ status'[o] = "live" /\ sem'[o] = 1
                 /\ about'[o].proto = kernel[Fd(t)].kind
                 /\ \A q \in Infos : q # o =>
                      status'[q] = status[q] /\ sem'[q] = sem[q] /\ about'[q] = about[q]
                 /\ toDestroy' = toDestroy
    BY <1>1, <2>4
  <2>5. CASE \E p \in Peers : Alloc(NewInfo, Fd(t), p, TRUE) /\ call' = [call EXCEPT ![t].si = NewInfo]
    BY <1>0, <1>4, <2>2, <2>4, <2>5 DEF Allocates
  <2>. QED  BY <2>1, <2>3, <2>5
<1>. QED  BY <1>3, <1>4

\* An info is allocated once, and freed by the thread that destroys it.
LEMMA StatusMoves ==
  ASSUME TypeOK, Shape, NEW t \in Threads, Run(t), NEW o \in Infos
  PROVE  \/ status'[o] = status[o]
         \/ Allocates(t, o)
         \/ Destroy(t) /\ o = Victim(t) /\ status[o] = "live" /\ status'[o] = "freed"
<1>1. CASE Refresh(t) \/ Light(t)
  BY <1>1, Allocation
<1>2. CASE Destroy(t)
  <2>1. status[Victim(t)] = "live"
    BY <1>2 DEF Run, Touched, Destroy
  <2>. QED  BY <1>2, <2>1 DEF TypeOK, Destroy
<1>3. CASE ~Refresh(t) /\ ~Light(t) /\ ~Destroy(t)
  BY <1>3
     DEF Run, GetInfos, OnConnect, Call, Lookup, Check, TestFails, TestPasses, Again, Put, LookupOld,
         LockOld, RetireOld, Remove, GetData, Publish, Fill, Process, Bypass, Retire, Unlock, infos,
         Lock
<1>. QED  BY <1>1, <1>2, <1>3

\* An info is retired by a check that fails, by a connect or by a close; never the reverse.
LEMMA FlagMoves ==
  ASSUME TypeOK, Shape, NEW t \in Threads, Run(t), NEW o \in Infos
  PROVE  \/ toDestroy'[o] = toDestroy[o]
         \/ /\ toDestroy'[o] /\ status[o] = "live"
            /\ \/ TestFails(t) /\ o = Si(t) /\ Unfit(o, Fd(t))
               \/ RetireOld(t) /\ o = Old(t)
               \/ Retire(t) /\ o = Si(t)
<1>1. CASE TestFails(t) \/ RetireOld(t) \/ Retire(t)
  <2>1. TestFails(t) \/ Retire(t) => status[Si(t)] = "live"
    BY DEF Run, Touched, TestFails, Retire, Si
  <2>2. RetireOld(t) => status[Old(t)] = "live"
    BY DEF Run, Touched, RetireOld, Old
  <2>. QED  BY <1>1, <2>1, <2>2 DEF TypeOK, TestFails, RetireOld, Retire, Si, Old, Fd
<1>2. CASE Refresh(t) \/ Light(t)
  BY <1>2, Allocation
<1>3. CASE /\ ~TestFails(t) /\ ~RetireOld(t) /\ ~Retire(t) /\ ~Refresh(t) /\ ~Light(t)
  BY <1>3
     DEF Run, GetInfos, OnConnect, Call, Lookup, Check, TestPasses, Again, Put, LookupOld, LockOld,
         Remove, GetData, Publish, Fill, Process, Bypass, Unlock, Destroy, infos, Lock
<1>. QED  BY <1>1, <1>2, <1>3

\* The count goes up at a check and when connect finds an info, and down at an unlock.
LEMMA SemMoves ==
  ASSUME TypeOK, Shape, NEW t \in Threads, Run(t), NEW o \in Infos
  PROVE  \/ /\ sem'[o] = sem[o]
            /\ ~(Check(t) /\ o = Si(t)) /\ ~(LockOld(t) /\ o = Old(t)) /\ ~(Unlock(t) /\ o = Victim(t))
         \/ Allocates(t, o)
         \/ /\ sem'[o] = sem[o] + 1 /\ status[o] = "live"
            /\ (Check(t) /\ o = Si(t)) \/ (LockOld(t) /\ o = Old(t))
         \/ sem'[o] = sem[o] - 1 /\ status[o] = "live" /\ Unlock(t) /\ o = Victim(t)
<1>0. sem \in [Infos -> Int]
  BY DEF TypeOK
<1>1. CASE Refresh(t) \/ Light(t)
  BY <1>1, Allocation DEF Check, LockOld, Unlock, Refresh, Light
<1>2. CASE Check(t)
  <2>1. status[Si(t)] = "live" /\ ~LockOld(t) /\ ~Unlock(t)
    BY <1>2 DEF Run, Touched, Check, LockOld, Unlock, Si
  <2>2. sem' = [sem EXCEPT ![Si(t)] = @ + 1]
    BY <1>2 DEF Check, Lock, Si
  <2>. QED  BY <1>0, <1>2, <2>1, <2>2
<1>3. CASE LockOld(t)
  <2>1. status[Old(t)] = "live" /\ ~Check(t) /\ ~Unlock(t)
    BY <1>3 DEF Run, Touched, Check, LockOld, Unlock, Old
  <2>2. sem' = [sem EXCEPT ![Old(t)] = @ + 1]
    BY <1>3 DEF LockOld, Lock, Old
  <2>. QED  BY <1>0, <1>3, <2>1, <2>2
<1>4. CASE Unlock(t)
  <2>1. status[Victim(t)] = "live" /\ ~Check(t) /\ ~LockOld(t)
    BY <1>4 DEF Run, Touched, Check, LockOld, Unlock
  <2>2. sem' = [sem EXCEPT ![Victim(t)] = @ - 1]
    BY <1>4 DEF Unlock
  <2>. QED  BY <1>0, <1>4, <2>1, <2>2
<1>5. CASE ~Refresh(t) /\ ~Light(t) /\ ~Check(t) /\ ~LockOld(t) /\ ~Unlock(t)
  <2>1. sem' = sem
    BY <1>5
       DEF Run, GetInfos, OnConnect, Call, Lookup, TestFails, TestPasses, Again, Put, LookupOld,
           RetireOld, Remove, GetData, Publish, Fill, Process, Bypass, Retire, Destroy, infos
  <2>. QED  BY <1>5, <2>1
<1>. QED  BY <1>1, <1>2, <1>3, <1>4, <1>5

\* A check that passes settles the local address; nothing else changes what is told of a socket.
LEMMA AboutMoves ==
  ASSUME TypeOK, Shape, NEW t \in Threads, Run(t), NEW o \in Infos
  PROVE  \/ about'[o] = about[o]
         \/ Allocates(t, o)
         \/ /\ about'[o].proto = about[o].proto /\ about'[o].remote = about[o].remote
            /\ ~about'[o].light /\ TestPasses(t) /\ o = Si(t)
<1>1. CASE Refresh(t) \/ Light(t)
  BY <1>1, Allocation
<1>2. CASE TestPasses(t)
  <2>1. about' = [about EXCEPT ![Si(t)].light = FALSE] /\ about \in [Infos -> Info]
    BY <1>2 DEF TestPasses, Si, TypeOK
  <2>. QED  BY <1>2, <2>1 DEF Info
<1>3. CASE ~Refresh(t) /\ ~Light(t) /\ ~TestPasses(t)
  BY <1>3
     DEF Run, GetInfos, OnConnect, Call, Lookup, Check, TestFails, Again, Put, LookupOld, LockOld,
         RetireOld, Remove, GetData, Publish, Fill, Process, Bypass, Retire, Unlock, Destroy, infos,
         Lock
<1>. QED  BY <1>1, <1>2, <1>3

\* The infos that a thread knows of come from the table, or are new.
LEMMA RefMoves ==
  ASSUME TypeOK, Shape, NEW t \in Threads, Run(t), NEW o \in Refs(t)'
  PROVE  /\ o \in Infos
         /\ \/ o \in Refs(t)
            \/ (Lookup(t) \/ LookupOld(t)) /\ o = table[Fd(t)]
            \/ Allocates(t, o)
<1>0. pc \in [Threads -> Pcs] /\ call \in [Threads -> Locals] /\ call' \in [Threads -> Locals]
  BY PlaceType DEF TypeOK
<1>1. o \in Infos
  BY <1>0 DEF Refs, Si, Old, Locals
<1>2. ASSUME NEW p, Left(t, p) PROVE o \in Refs(t)
  <2>1. ~Ended(t)
    BY <1>0 DEF Ended, Refs, Si, Old, NoCall, CallOf
  <2>. QED  BY <1>2, <2>1 DEF Left, Moved, Refs
<1>3. ASSUME NEW p, NEW then, Moved(t, p, Si(t), Old(t), then) PROVE o \in Refs(t)
  BY <1>3 DEF Moved, Refs
<1>4. CASE Lookup(t) \/ LookupOld(t)
  BY <1>1, <1>4, Effects DEF Moved, Refs
<1>5. CASE Refresh(t) \/ Light(t)
  <2>1. Old(t)' = Old(t)
    BY <1>5, Effects DEF Moved
  <2>. QED  BY <1>1, <1>5, <2>1, Allocation DEF Refs
<1>6. CASE /\ ~Lookup(t) /\ ~LookupOld(t) /\ ~Refresh(t) /\ ~Light(t)
  <2>1. CASE GetInfos(t) \/ OnConnect(t)
    BY <1>1, <1>2, <1>3, <1>6, <2>1, Effects DEF GetInfos, OnConnect
  <2>2. CASE Call(t)
    <3>1. Bypass(t) => Left(t, "idle")
      BY Effects DEF Left
    <3>. QED  BY <1>1, <1>2, <1>3, <2>2, <3>1, Effects DEF Call
  <2>3. CASE Unlock(t) \/ Destroy(t)
    BY <1>1, <1>2, <2>3, Effects
  <2>. QED  BY <2>1, <2>2, <2>3 DEF Run
<1>. QED  BY <1>4, <1>5, <1>6

-----------------------------------------------------------------------------
(* Who knows of an info.                                                    *)

\* What the beginning of a call leaves of the other threads.
LEMMA BeginOthers ==
  ASSUME TypeOK, NEW t \in Threads, NEW f \in Fds, NEW o \in Ops, Begin(t, f, o)
  PROVE  /\ Refs(t)' = {} /\ ~HasNew(t)'
         /\ \A u \in Threads : u # t =>
              /\ pc'[u] = pc[u] /\ call'[u] = call[u]
              /\ Fd(u)' = Fd(u) /\ Op(u)' = Op(u) /\ Si(u)' = Si(u) /\ Old(u)' = Old(u)
              /\ Then(u)' = Then(u) /\ Refs(u)' = Refs(u) /\ Victim(u)' = Victim(u)
              /\ (Before(u)' <=> Before(u)) /\ (Active(u)' <=> Active(u))
<1>1. /\ Refs(t)' = {} /\ ~HasNew(t)'
  BY BeginEffect DEF Refs, HasNew
<1>2. pc \in [Threads -> Pcs]
  BY DEF TypeOK
<1>3. ASSUME NEW u \in Threads, u # t PROVE pc'[u] = pc[u] /\ call'[u] = call[u]
  BY <1>2, <1>3, BeginEffect
<1>. QED  BY <1>1, <1>3 DEF Fd, Op, Si, Old, Then, Refs, Victim, Before, Active

\* A call that begins next to a lookup of an unfit info meets it.
LEMMA BeginMeets ==
  ASSUME TypeOK, NEW t \in Threads, NEW f \in Fds, NEW o \in Ops, Begin(t, f, o),
         NEW u \in Threads, u # t, Before(u), Fd(u) = f, table[f] # None, Unfit(table[f], f)
  PROVE  table[f] \in met'
<1>1. table[f] \in Infos
  BY DEF TypeOK
<1>2. table[f] \in Meets(t, f)
  BY <1>1 DEF Meets, Fd
<1>. QED  BY <1>2 DEF Begin

\* The infos that threads know of, and those in the table, are infos.
LEMMA RefTypes ==
  ASSUME TypeOK
  PROVE  /\ \A t \in Threads : /\ Si(t) \in Infos \cup {None} /\ Old(t) \in Infos \cup {None}
                              /\ Refs(t) \subseteq Infos
         /\ \A f \in Fds : table[f] \in Infos \cup {None}
         /\ None \notin Infos
  BY SocketsAssumption DEF TypeOK, Locals, Si, Old, Refs

\* What is known of the allocation of infos stays true.
LEMMA KnownStep ==
  ASSUME TypeOK, Shape, Known, Dying, [Next]_vars
  PROVE  Known'
<1>0. \A u \in Threads : Refs(u) = {Si(u), Old(u)} \ {None}
  BY DEF Refs
<1>m. met \subseteq met'
  BY MetStays
<1>1. ASSUME NEW t \in Threads, Run(t) PROVE Known'
  <2>1. \A o \in Infos : status[o] # "absent" => status'[o] # "absent"
    BY <1>1, StatusMoves DEF Allocates
  <2>2. ASSUME NEW u \in Threads, NEW o \in Refs(u)' PROVE status'[o] # "absent"
    <3>1. CASE u # t
      BY <1>1, <2>1, <2>2, <3>1, Others, RefTypes DEF Known
    <3>2. CASE u = t
      <4>1. table[Fd(t)] # None => status[table[Fd(t)]] # "absent"
        BY <1>1, Onward DEF Known
      <4>2. o # None
        BY <2>2 DEF Refs
      <4>. QED  BY <1>1, <2>1, <2>2, <3>2, <4>1, <4>2, RefMoves DEF Known, Allocates
    <3>. QED  BY <3>1, <3>2
  <2>3. ASSUME NEW f \in Fds, table'[f] # None PROVE status'[table'[f]] # "absent"
    <3>1. table'[f] = table[f] \/ table'[f] = Si(t) \/ table'[f] = None
      BY <1>1, TableMoves DEF TypeOK
    <3>. QED  BY <1>0, <2>1, <2>3, <3>1, RefTypes DEF Known
  <2>4. ASSUME NEW o \in Infos, status'[o] = "absent" PROVE ~toDestroy'[o]
    BY <1>1, <2>1, <2>4, FlagMoves DEF Known
  <2>5. ASSUME NEW o \in Infos, status'[o] = "freed"
        PROVE  toDestroy'[o] /\ (sem'[o] = 0 \/ o \in met')
    <3>1. CASE status[o] = "freed"
      BY <1>1, <1>m, <2>5, <3>1, FlagMoves, SemMoves DEF Known, Allocates
    <3>2. CASE Destroy(t) /\ o = Victim(t)
      BY <1>m, <3>2 DEF Dying, Destroy
    <3>. QED  BY <1>1, <2>5, <3>1, <3>2, StatusMoves DEF Allocates
  <2>. QED  BY <2>2, <2>3, <2>4, <2>5 DEF Known
<1>2. ASSUME NEW t \in Threads, NEW f \in Fds, NEW o \in Ops, Begin(t, f, o) PROVE Known'
  <2>1. \A u \in Threads : Refs(u)' \subseteq Refs(u)
    BY <1>2, BeginOthers
  <2>. QED  BY <1>2, <1>m, <2>1, BeginEffect DEF Known
<1>3. ASSUME UNCHANGED <<table, infos, pc, call>> PROVE Known'
  BY <1>m, <1>3 DEF Known, infos, Refs, Si, Old
<1>. QED  BY <1>1, <1>2, <1>3 DEF Next, Open, Replace, vars

\* An info stays with its descriptor.
LEMMA HomeStep ==
  ASSUME TypeOK, Shape, Known, Home, [Next]_vars
  PROVE  Home'
<1>0. None \notin Infos /\ \A u \in Threads : Refs(u) = {Si(u), Old(u)} \ {None}
  BY RefTypes DEF Refs
<1>1. ASSUME NEW t \in Threads, Run(t) PROVE Home'
  <2>0. Fd(t) \in Fds /\ table \in [Fds -> Infos \cup {None}]
    BY <1>1, Onward DEF TypeOK
  <2>1. ASSUME NEW u \in Threads, NEW o \in Refs(u)' PROVE Fd(u)' = Fd(u) /\ o \in Infos
    BY <1>1, <2>1, Others, Onward, RefMoves, RefTypes
  <2>2. ASSUME NEW u \in Threads, NEW o \in Refs(u)'
        PROVE  \/ o \in Refs(u)
               \/ u = t /\ ~Put(t) /\ ~Remove(t) /\ o = table[Fd(t)] /\ o # None
               \/ u = t /\ ~Put(t) /\ ~Remove(t) /\ Allocates(t, o)
    <3>1. \A q : Lookup(t) \/ LookupOld(t) \/ Allocates(t, q) => ~Put(t) /\ ~Remove(t)
      BY DEF Allocates, Lookup, LookupOld, Refresh, Light, Put, Remove
    <3>2. u # t => o \in Refs(u)
      BY <1>1, <2>2, Others
    <3>. QED  BY <1>0, <1>1, <2>1, <2>2, <3>1, <3>2, RefMoves
  <2>3. ASSUME NEW u \in Threads, NEW f \in Fds, table'[f] \in Refs(u)' PROVE f = Fd(u)'
    <3>1. CASE table'[f] = table[f] /\ ~Put(t) /\ ~Remove(t)
      <4>1. CASE table[f] \in Refs(u)
        BY <2>1, <2>3, <3>1, <4>1 DEF Home
      <4>2. CASE u = t /\ table[f] = table[Fd(t)] /\ table[f] # None
        BY <2>0, <2>1, <2>3, <3>1, <4>2 DEF Home
      <4>3. CASE Allocates(t, table[f])
        BY <1>0, <2>1, <2>3, <3>1, <4>3 DEF Known, Allocates
      <4>. QED  BY <2>2, <2>3, <3>1, <4>1, <4>2, <4>3
    <3>2. CASE Put(t) \/ Remove(t)
      <4>1. table'[f] \in Refs(u) /\ table'[f] \in Infos
        BY <2>1, <2>2, <2>3, <3>2
      <4>2. CASE table'[f] = table[f]
        BY <2>1, <2>3, <4>1, <4>2 DEF Home
      <4>3. CASE table'[f] = Si(t) /\ f = Fd(t)
        <5>1. Si(t) \in Refs(t)
          BY <1>0, <4>1, <4>3
        <5>. QED  BY <2>1, <2>3, <4>1, <4>3, <5>1 DEF Home
      <4>. QED  BY <1>0, <1>1, <2>0, <4>1, <4>2, <4>3, TableMoves
    <3>. QED  BY <1>1, <3>1, <3>2, TableMoves
  <2>4. ASSUME NEW u \in Threads, NEW v \in Threads, NEW o, o \in Refs(u)', o \in Refs(v)'
        PROVE  Fd(u)' = Fd(v)'
    <3>1. Fd(u)' = Fd(u) /\ Fd(v)' = Fd(v) /\ o \in Infos
      BY <2>1, <2>4
    <3>2. ASSUME NEW w \in Threads, w # t, o \in Refs(w), o \in Refs(t)' PROVE Fd(w) = Fd(t)
      BY <2>0, <2>2, <3>2 DEF Home, Known, Allocates
    <3>. QED  BY <1>1, <2>4, <3>1, <3>2, Others DEF Home
  <2>5. ASSUME NEW f \in Fds, NEW g \in Fds, table'[f] = table'[g], table'[f] # None PROVE f = g
    <3>1. CASE table' = table
      BY <2>5, <3>1 DEF Home
    <3>2. CASE table' = [table EXCEPT ![Fd(t)] = Si(t)]
      <4>1. Si(t) # None => Si(t) \in Refs(t)
        BY <1>0
      <4>. QED  BY <2>0, <2>5, <3>2, <4>1 DEF Home
    <3>3. CASE table' = [table EXCEPT ![Fd(t)] = None]
      BY <2>0, <2>5, <3>3 DEF Home
    <3>. QED  BY <1>1, <3>1, <3>2, <3>3, TableMoves
  <2>. QED  BY <2>3, <2>4, <2>5 DEF Home
<1>2. ASSUME NEW t \in Threads, NEW f \in Fds, NEW o \in Ops, Begin(t, f, o) PROVE Home'
  <2>1. \A u \in Threads : Refs(u)' # {} => Refs(u)' = Refs(u) /\ Fd(u)' = Fd(u)
    BY <1>2, BeginOthers
  <2>2. table' = table
    BY <1>2, BeginEffect
  <2>. QED  BY <2>1, <2>2 DEF Home
<1>3. ASSUME UNCHANGED <<table, pc, call>> PROVE Home'
  BY <1>3 DEF Home, Refs, Si, Old, Fd
<1>. QED  BY <1>1, <1>2, <1>3 DEF Next, Open, Replace, vars

-----------------------------------------------------------------------------
(* Lookups that meet.                                                       *)

\* A call that looks for its info, and a connect or a close at work, keep the kernel as it is.
LEMMA KernelHeld ==
  ASSUME TypeOK, Shape, Alone, NEW t \in Threads, Run(t), NEW u \in Threads,
         Before(u)' \/ (Active(u)' /\ Op(u)' # "data")
  PROVE  kernel'[Fd(u)] = kernel[Fd(u)] /\ Fd(u) \in Fds /\ Fd(u)' = Fd(u)
<1>1. Active(u) /\ Active(u)' /\ Fd(u)' = Fd(u) /\ (Before(u) \/ Op(u) # "data")
  BY Calm
<1>2. Fd(u) \in Fds
  BY <1>1 DEF Shape, ShapeOf, Active, Before, Looking, Calling
<1>3. CASE kernel' # kernel /\ Fd(t) = Fd(u)
  <2>1. Active(t) /\ ~Active(t)' /\ ~Before(t) /\ Op(t) # "data"
    BY <1>3, KernelMoves
  <2>. QED  BY <1>1, <1>3, <2>1 DEF Alone, Same
<1>4. CASE kernel' = kernel \/ Fd(t) # Fd(u)
  BY <1>1, <1>2, <1>4, KernelMoves
<1>. QED  BY <1>1, <1>2, <1>3, <1>4

\* An info that fits a descriptor goes on fitting it unless it is retired.
LEMMA FitKept ==
  ASSUME TypeOK, Shape, NEW t \in Threads, Run(t), NEW o \in Infos, NEW f \in Fds,
         status[o] # "absent", ~Unfit(o, f), ~toDestroy'[o], kernel'[f] = kernel[f]
  PROVE  ~Unfit(o, f)'
<1>1. /\ about'[o].proto = about[o].proto
      /\ about'[o].light => about[o].light
  BY AboutMoves DEF Allocates
<1>. QED  BY <1>1 DEF Unfit, IsSocket

\* Nobody retires an info that another thread has just looked up, or is about to, unless
\* calls met on it.
LEMMA FlagHeld ==
  ASSUME TypeOK, Shape, Home, Alone, Checked, Removed,
         NEW t \in Threads, Run(t), NEW u \in Threads, u # t, Before(u),
         NEW o \in Infos, o \in Refs(u) \/ (Fd(u) \in Fds /\ o = table[Fd(u)]), ~toDestroy[o],
         o \notin met \/ ~Unfit(o, Fd(u)) \/ Op(u) # "data"
  PROVE  ~toDestroy'[o]
<1>1. o \in Refs(t) => Same(t, u)
  BY DEF Home, Same
<1>2. (o = Si(t) \/ o = Old(t)) => o \in Refs(t)
  BY RefTypes DEF Refs
<1>3. ASSUME TestFails(t), o = Si(t), Unfit(o, Fd(t)) PROVE FALSE
  <2>1. pc[t] = "test" /\ Before(t)
    BY <1>3 DEF TestFails, Before, Looking
  <2>2. Same(t, u) /\ Fd(t) = Fd(u)
    BY <1>1, <1>2, <1>3 DEF Same
  <2>3. CASE o \notin met
    BY <1>3, <2>1, <2>2, <2>3 DEF Checked
  <2>4. CASE ~Unfit(o, Fd(u))
    BY <1>3, <2>2, <2>4
  <2>5. CASE Op(u) # "data"
    BY <2>1, <2>2, <2>5 DEF Alone, Same, Active
  <2>. QED  BY <2>3, <2>4, <2>5
<1>4. ASSUME RetireOld(t), o = Old(t) PROVE FALSE
  <2>1. Before(t) /\ Active(t) /\ Op(t) = "connect"
    BY <1>4 DEF RetireOld, Before, Active, Looking, Shape, ShapeOf
  <2>. QED  BY <1>1, <1>2, <1>4, <2>1 DEF Alone, Active
<1>5. ASSUME Retire(t), o = Si(t) PROVE FALSE
  <2>1. pc[t] = "retire" /\ Op(t) = "close"
    BY <1>5 DEF Retire, Shape, ShapeOf
  <2>. QED  BY <1>5, <2>1 DEF Removed
<1>. QED  BY <1>3, <1>4, <1>5, FlagMoves

\* A lookup finds the entry of its descriptor as it was, unless another one just replaced it.
LEMMA EntryHeld ==
  ASSUME TypeOK, Shape, Alone, NEW t \in Threads, Run(t), NEW u \in Threads, u # t, Before(u)
  PROVE  \/ table'[Fd(u)] = table[Fd(u)]
         \/ Put(t) /\ Same(t, u) /\ Before(t) /\ Op(t) # "connect" /\ table'[Fd(u)] = Si(t)
<1>0. Fd(u) \in Fds /\ Fd(t) \in Fds /\ table \in [Fds -> Infos \cup {None}]
  BY Onward DEF Shape, ShapeOf, Before, Looking, TypeOK
<1>1. ASSUME Remove(t), Fd(t) = Fd(u) PROVE FALSE
  <2>1. Active(t) /\ Op(t) = "close"
    BY <1>1 DEF Remove, Active, Calling, Shape, ShapeOf
  <2>. QED  BY <1>1, <2>1 DEF Alone, Same, Active
<1>2. ASSUME Put(t), Fd(t) = Fd(u) PROVE Before(t) /\ Op(t) # "connect"
  <2>1. Before(t)
    BY <1>2 DEF Put, Before, Looking
  <2>. QED  BY <1>2, <2>1 DEF Alone, Same, Active
<1>. QED  BY <1>0, <1>1, <1>2, TableMoves DEF Same

\* The new info of a lookup fits its descriptor.
LEMMA NewFits ==
  ASSUME New, NEW t \in Threads, HasNew(t), Op(t) # "connect"
  PROVE  ~Unfit(Si(t), Fd(t))
  BY DEF New, Unfit

\* A step keeps lookups from meeting where a check would fail without its being known.
LEMMA SoloStep ==
  ASSUME Settled, TypeOK, Shape, Known, Home, Alone, OnOpen, Solo, Checked, New, Removed, [Next]_vars
  PROVE  Solo'
<1>m. met \subseteq met'
  BY MetStays
<1>1. ASSUME NEW t \in Threads, Run(t) PROVE Solo'
  <2>1. ASSUME NEW u \in Threads, NEW v \in Threads, Same(u, v)', Before(u)', Before(v)', u # t
        PROVE  \/ table'[Fd(u)'] = None
               \/ ~Unfit(table[Fd(u)], Fd(u))'
               \/ table'[Fd(u)'] \in met'
    <3>0. met' = met
      BY <1>1, PastMoves
    <3>1. /\ Before(u) /\ Before(v) /\ Same(u, v) /\ Fd(u)' = Fd(u)
          /\ kernel'[Fd(u)] = kernel[Fd(u)] /\ Fd(u) \in Fds
      BY <1>1, <2>1, Calm, KernelHeld DEF Same
    <3>2. CASE table'[Fd(u)] = table[Fd(u)]
      <4>1. CASE table[Fd(u)] # None /\ table[Fd(u)] \notin met
        <5>1. /\ table[Fd(u)] \in Infos /\ ~Unfit(table[Fd(u)], Fd(u))
              /\ status[table[Fd(u)]] # "absent"
          BY <3>1, <4>1, RefTypes DEF Solo, Known
        <5>2. ~toDestroy[table[Fd(u)]]
          BY <5>1 DEF Unfit
        <5>3. ~toDestroy'[table[Fd(u)]]
          BY <1>1, <2>1, <3>1, <5>1, <5>2, FlagHeld
        <5>4. ~Unfit(table[Fd(u)], Fd(u))'
          <6>1. PICK o \in Infos, f \in Fds : o = table[Fd(u)] /\ f = Fd(u)
            BY <3>1, <5>1
          <6>2. ~Unfit(o, f)'
            BY <1>1, <3>1, <5>1, <5>3, <6>1, FitKept
          <6>. QED  BY <3>1, <3>2, <6>1, <6>2 DEF Unfit, IsSocket
        <5>. QED  BY <5>4
      <4>. QED  BY <3>0, <3>1, <3>2, <4>1
    <3>3. CASE Put(t) /\ Same(t, u) /\ Op(t) # "connect" /\ table'[Fd(u)] = Si(t) /\ Si(t) # None
      <4>1. HasNew(t)
        BY <3>3 DEF HasNew, Put
      <4>2. ~Unfit(Si(t), Fd(t))
        BY <3>3, <4>1, NewFits
      <4>3. UNCHANGED <<toDestroy, about, kernel>>
        BY <3>3 DEF Put, infos
      <4>. QED  BY <3>1, <3>3, <4>2, <4>3 DEF Unfit, IsSocket, Same
    <3>. QED  BY <1>1, <2>1, <3>1, <3>2, <3>3, EntryHeld
  <2>. QED  BY <2>1 DEF Solo, Same
<1>2. ASSUME NEW t \in Threads, NEW f \in Fds, NEW o \in Ops, Begin(t, f, o) PROVE Solo'
  <2>1. /\ UNCHANGED <<kernel, table, about, toDestroy>> /\ Fd(t)' = f /\ f \in Fds
    BY <1>2, BeginEffect
  <2>2. \A u \in Threads, g \in Fds : Unfit(table[g], g)' <=> Unfit(table[g], g)
    BY <2>1 DEF Unfit, IsSocket
  <2>3. ASSUME NEW u \in Threads, u # t, Before(u), Fd(u) = f
        PROVE  table[f] = None \/ ~Unfit(table[f], f) \/ table[f] \in met'
    BY <1>2, <2>1, <2>3, BeginMeets
  <2>4. ASSUME NEW u \in Threads, NEW v \in Threads, Same(u, v)', Before(u)', Before(v)'
        PROVE  table'[Fd(u)'] = None \/ ~Unfit(table[Fd(u)], Fd(u))' \/ table'[Fd(u)'] \in met'
    <3>1. CASE u # t /\ v # t
      BY <1>2, <1>m, <2>1, <2>4, <3>1, BeginOthers DEF Solo, Same, Unfit, IsSocket
    <3>2. CASE u # t /\ v = t
      BY <1>2, <2>1, <2>3, <2>4, <3>2, BeginOthers DEF Same, Unfit, IsSocket
    <3>3. CASE u = t /\ v # t
      BY <1>2, <2>1, <2>3, <2>4, <3>3, BeginOthers DEF Same, Unfit, IsSocket
    <3>. QED  BY <2>4, <3>1, <3>2, <3>3 DEF Same
  <2>. QED  BY <2>4 DEF Solo
<1>3. ASSUME NEW f \in Fds, Open(f) \/ Replace(f) PROVE Solo'
  <2>1. UNCHANGED <<table, infos, pc, call>>
    BY <1>3 DEF Open, Replace
  <2>2. ASSUME NEW u \in Threads, Before(u) PROVE Fd(u) # f /\ kernel'[Fd(u)] = kernel[Fd(u)]
    <3>1. pc[u] # "idle"
      BY <2>2 DEF Before, Looking
    <3>2. Fd(u) # f
      BY <1>3, <2>2, <3>1 DEF OnOpen, Open, Replace, Quiet, Fd
    <3>3. Fd(u) \in Fds
      BY <3>1 DEF Shape, ShapeOf
    <3>. QED  BY <1>3, <3>2, <3>3 DEF Open, Replace, TypeOK
  <2>. QED  BY <1>m, <2>1, <2>2 DEF Solo, Same, Before, Fd, Unfit, IsSocket, infos
<1>4. CASE UNCHANGED vars
  BY <1>m, <1>4 DEF vars, infos, Solo, Same, Before, Fd, Unfit, IsSocket
<1>. QED  BY <1>1, <1>2, <1>3, <1>4 DEF Next

-----------------------------------------------------------------------------
(* The check, and what connect and close retire.                            *)

\* The info in the entry of a descriptor is not retired when a connect reads it, nor when a
\* lookup does, unless calls met on it.
LEMMA EntryLive ==
  ASSUME TypeOK, Shape, Alone, Solo, Replaced, NEW t \in Threads, pc[t] \in {"lookup", "old"},
         table[Fd(t)] # None, pc[t] = "old" \/ table[Fd(t)] \notin met
  PROVE  ~toDestroy[table[Fd(t)]]
<1>. SUFFICES ASSUME toDestroy[table[Fd(t)]] PROVE FALSE
  OBVIOUS
<1>1. Before(t) /\ Active(t) /\ Fd(t) \in Fds
  BY DEF Before, Active, Looking, Shape, ShapeOf
<1>2. PICK u \in Threads : /\ Fd(u) = Fd(t)
                           /\ Leaving(u, "init") \/ Leaving(u, "put") \/ pc[u] \in {"init", "put"}
  BY <1>1 DEF Replaced
<1>3. u # t /\ Before(u) /\ Active(u)
  BY <1>2 DEF Leaving, Before, Active, Looking, Then
<1>4. CASE pc[t] = "lookup"
  BY <1>1, <1>2, <1>3, <1>4 DEF Solo, Same, Unfit
<1>5. CASE pc[t] = "old"
  BY <1>1, <1>2, <1>3, <1>5 DEF Alone, Same, Shape, ShapeOf
<1>. QED  BY <1>4, <1>5

\* What a thread knows of the info it checks, and of the one that connect is about to retire.
CheckedOf(t) ==
  /\ pc[t] \in {"check", "test"} =>
       \/ ~Unfit(Si(t), Fd(t))
       \/ Si(t) \in met
       \/ Si(t) = table[Fd(t)] /\ \A u \in Threads : Same(t, u) => ~Before(u)
  /\ pc[t] \in {"check", "test"} => ~toDestroy[Si(t)] \/ Si(t) \in met
  /\ pc[t] = "again" => ~Unfit(Si(t), Fd(t))
  /\ pc[t] = "lockold" => ~toDestroy[Old(t)]

\* A step of another thread does not retire the info under a check, unless calls met on it.
LEMMA CheckedOther ==
  ASSUME TypeOK, Shape, Known, Home, Alone, Checked, Removed,
         NEW t \in Threads, Run(t), NEW u \in Threads, u # t
  PROVE  CheckedOf(u)'
<1>0. /\ pc'[u] = pc[u] /\ Si(u)' = Si(u) /\ Old(u)' = Old(u) /\ Fd(u)' = Fd(u)
      /\ CheckedOf(u) /\ met' = met
  BY Others, PastMoves DEF Checked, CheckedOf
<1>1. ASSUME pc[u] \in {"check", "test"} PROVE ~toDestroy'[Si(u)] \/ Si(u) \in met'
  <2>1. Si(u) \in Infos /\ Si(u) \in Refs(u) /\ Before(u)
    BY <1>1, RefTypes DEF Refs, Before, Looking, Shape, ShapeOf
  <2>. QED  BY <1>0, <1>1, <2>1, FlagHeld DEF CheckedOf
<1>4. ASSUME pc[u] \in {"check", "test", "again"}, ~Unfit(Si(u), Fd(u))
      PROVE  ~Unfit(Si(u), Fd(u))'
  <2>1. /\ Si(u) \in Infos /\ Si(u) \in Refs(u) /\ status[Si(u)] # "absent"
        /\ Before(u) /\ Before(u)' /\ Fd(u) \in Fds
    BY <1>0, <1>4, RefTypes DEF Known, Refs, Before, Looking, Shape, ShapeOf
  <2>2. ~toDestroy[Si(u)]
    BY <1>4 DEF Unfit
  <2>3. ~toDestroy'[Si(u)]
    BY <1>4, <2>1, <2>2, FlagHeld
  <2>4. kernel'[Fd(u)] = kernel[Fd(u)]
    BY <2>1, KernelHeld
  <2>5. PICK o \in Infos, f \in Fds : o = Si(u) /\ f = Fd(u)
    BY <2>1
  <2>6. ~Unfit(o, f)'
    BY <1>4, <2>1, <2>3, <2>4, <2>5, FitKept
  <2>. QED  BY <1>0, <2>5, <2>6 DEF Unfit, IsSocket
<1>2. ASSUME pc[u] = "lockold" PROVE ~toDestroy'[Old(u)]
  <2>1. Old(u) \in Infos /\ Old(u) \in Refs(u) /\ Before(u) /\ Op(u) # "data"
    BY <1>2, RefTypes DEF Refs, Before, Looking, Shape, ShapeOf
  <2>. QED  BY <1>0, <1>2, <2>1, FlagHeld DEF CheckedOf
<1>3. ASSUME pc[u] \in {"check", "test"}
      PROVE  \/ ~Unfit(Si(u), Fd(u))'
             \/ Si(u) \in met'
             \/ Si(u) = table'[Fd(u)] /\ \A v \in Threads : Same(u, v)' => ~Before(v)'
  <2>1. /\ Si(u) \in Infos /\ status[Si(u)] # "absent" /\ Before(u) /\ Before(u)'
        /\ Fd(u) \in Fds
    BY <1>0, <1>3, RefTypes DEF Known, Refs, Before, Looking, Shape, ShapeOf
  <2>3. CASE ~Unfit(Si(u), Fd(u))
    BY <1>3, <1>4, <2>3
  <2>4. CASE Si(u) = table[Fd(u)] /\ \A v \in Threads : Same(u, v) => ~Before(v)
    <3>1. table'[Fd(u)] = table[Fd(u)]
      BY <2>1, <2>4, EntryHeld DEF Same
    <3>2. \A v \in Threads : Same(u, v)' => ~Before(v)'
      BY <1>0, <2>4, Calm DEF Same
    <3>. QED  BY <2>4, <3>1, <3>2
  <2>. QED  BY <1>0, <1>3, <2>3, <2>4 DEF CheckedOf
<1>5. pc[u] = "again" => ~Unfit(Si(u), Fd(u))'
  BY <1>0, <1>4 DEF CheckedOf
<1>. QED  BY <1>0, <1>1, <1>2, <1>3, <1>5 DEF CheckedOf

\* A lookup, a check and a connect pass on an info that is not retired, unless calls met on it.
LEMMA CheckedOwn ==
  ASSUME TypeOK, Shape, Alone, Solo, Checked, Replaced, NEW t \in Threads, Run(t)
  PROVE  CheckedOf(t)'
<1>0. pc \in [Threads -> Pcs] /\ CheckedOf(t) /\ Fd(t) \in Fds /\ met' = met
  BY Onward, PastMoves DEF TypeOK, Checked, CheckedOf
<1>1. ASSUME NEW p, NEW si, NEW old, NEW then, Moved(t, p, si, old, then)
      PROVE  pc'[t] = p /\ Si(t)' = si /\ Old(t)' = old /\ Fd(t)' = Fd(t)
  BY <1>0, <1>1 DEF Moved
<1>2. CASE pc'[t] \notin {"check", "test", "again", "lockold"}
  BY <1>2 DEF CheckedOf
<1>3. CASE Lookup(t) /\ pc'[t] = "check"
  <2>1. /\ pc[t] = "lookup" /\ UNCHANGED <<table, kernel, about, toDestroy>>
        /\ Si(t)' = table[Fd(t)] /\ Fd(t)' = Fd(t) /\ table[Fd(t)] # None
    <3>1. pc[t] = "lookup" /\ UNCHANGED <<table, kernel, about, toDestroy>>
      BY <1>3 DEF Lookup, infos
    <3>2. PICK p \in {"init", "check"} :
            Moved(t, p, table[Fd(t)], Old(t), Then(t)) /\ (p = "check" => table[Fd(t)] # None)
      BY <1>3, Effects
    <3>. QED  BY <1>0, <1>3, <3>1, <3>2 DEF Moved
  <2>2. (~toDestroy[table[Fd(t)]] \/ table[Fd(t)] \in met) /\ Before(t)
    BY <2>1, EntryLive DEF Before, Looking
  <2>3. CASE \A u \in Threads : Same(t, u) => ~Before(u)
    <3>1. \A u \in Threads : Same(t, u)' => ~Before(u)'
      BY <2>1, <2>3, Calm, Others DEF Same
    <3>. QED  BY <1>0, <1>3, <2>1, <2>2, <3>1 DEF CheckedOf
  <2>4. CASE \E u \in Threads : Same(t, u) /\ Before(u)
    <3>1. ~Unfit(table[Fd(t)], Fd(t)) \/ table[Fd(t)] \in met
      BY <2>1, <2>2, <2>4 DEF Solo
    <3>2. ~Unfit(Si(t), Fd(t))' \/ Si(t)' \in met'
      BY <1>0, <2>1, <3>1 DEF Unfit, IsSocket
    <3>. QED  BY <1>0, <1>3, <2>1, <2>2, <3>2 DEF CheckedOf
  <2>. QED  BY <2>3, <2>4
<1>4. CASE Check(t)
  <2>1. /\ pc[t] = "check" /\ UNCHANGED <<table, kernel, about, toDestroy>> /\ pc'[t] = "test"
        /\ Si(t)' = Si(t) /\ Fd(t)' = Fd(t)
    BY <1>0, <1>1, <1>4, Effects DEF Check, Lock, Left
  <2>2. \A u \in Threads : Same(t, u)' => Same(t, u) /\ (Before(u)' <=> Before(u))
    BY <2>1, Others DEF Same
  <2>. QED  BY <1>0, <2>1, <2>2 DEF CheckedOf, Unfit, IsSocket
<1>5. CASE TestPasses(t)
  <2>1. /\ pc[t] = "test" /\ UNCHANGED <<toDestroy, kernel>> /\ pc'[t] = "again"
        /\ Si(t)' = Si(t) /\ Fd(t)' = Fd(t)
        /\ ~Unfit(Si(t), Fd(t)) /\ about' = [about EXCEPT ![Si(t)].light = FALSE]
    BY <1>0, <1>1, <1>5, Effects DEF TestPasses, Left, Si, Fd
  <2>2. Si(t) \in Infos /\ about \in [Infos -> Info]
    BY <2>1, RefTypes DEF Shape, ShapeOf, TypeOK
  <2>3. about'[Si(t)].proto = about[Si(t)].proto /\ ~about'[Si(t)].light
    BY <2>1, <2>2 DEF Info
  <2>4. ~Unfit(Si(t), Fd(t))'
    BY <2>1, <2>3 DEF Unfit, IsSocket
  <2>. QED  BY <1>0, <2>1, <2>4 DEF CheckedOf
<1>6. CASE LookupOld(t) /\ pc'[t] = "lockold"
  <2>1. /\ pc[t] = "old" /\ UNCHANGED toDestroy /\ Old(t)' = table[Fd(t)] /\ table[Fd(t)] # None
    <3>1. pc[t] = "old" /\ UNCHANGED toDestroy
      BY <1>6 DEF LookupOld, infos
    <3>2. PICK p \in {"put", "lockold"} :
            Moved(t, p, Si(t), table[Fd(t)], Then(t)) /\ (p = "lockold" => table[Fd(t)] # None)
      BY <1>6, Effects
    <3>. QED  BY <1>0, <1>6, <3>1, <3>2 DEF Moved
  <2>. QED  BY <1>6, <2>1, EntryLive DEF CheckedOf
<1>7. ASSUME NEW p, Left(t, p) PROVE pc'[t] = p
  BY <1>0, <1>1, <1>7 DEF Left, Ended
<1>8. CASE GetInfos(t)
  BY <1>1, <1>2, <1>3, <1>4, <1>5, <1>7, <1>8, Effects DEF GetInfos, Entry
<1>9. CASE OnConnect(t)
  BY <1>1, <1>2, <1>6, <1>7, <1>9, Effects DEF OnConnect
<1>10. CASE Call(t)
  <2>1. Bypass(t) => Left(t, "idle")
    BY Effects DEF Left
  <2>. QED  BY <1>1, <1>2, <1>7, <1>10, <2>1, Effects DEF Call
<1>11. CASE Unlock(t) \/ Destroy(t)
  <2>1. Then(t) \in {"idle", "init", "put"}
    BY DEF TypeOK, Locals, Then
  <2>. QED  BY <1>2, <1>7, <1>11, <2>1, Effects
<1>. QED  BY <1>8, <1>9, <1>10, <1>11 DEF Run

\* A step keeps the infos under a check from being retired, unless calls meet on them.
LEMMA CheckedStep ==
  ASSUME Settled, TypeOK, Shape, Known, Home, Alone, OnOpen, Solo, Checked, Replaced, Removed,
         [Next]_vars
  PROVE  Checked'
<1>m. met \subseteq met'
  BY MetStays
<1>1. ASSUME NEW t \in Threads, Run(t) PROVE Checked'
  <2>1. ASSUME NEW u \in Threads PROVE CheckedOf(u)'
    BY <1>1, CheckedOther, CheckedOwn
  <2>. QED  BY <2>1 DEF Checked, CheckedOf
<1>2. ASSUME NEW t \in Threads, NEW f \in Fds, NEW o \in Ops, Begin(t, f, o) PROVE Checked'
  <2>1. /\ UNCHANGED <<kernel, table, about, toDestroy>> /\ Fd(t)' = f /\ f \in Fds
        /\ pc'[t] \notin {"check", "test", "again", "lockold"}
    BY <1>2, BeginEffect DEF TypeOK
  <2>2. ASSUME NEW u \in Threads, Before(u), Fd(u) = f, u # t
        PROVE  table[f] = None \/ ~Unfit(table[f], f) \/ table[f] \in met'
    BY <1>2, <2>2, BeginMeets
  <2>3. ASSUME NEW u \in Threads, u # t PROVE CheckedOf(u)'
    <3>1. /\ pc'[u] = pc[u] /\ Si(u)' = Si(u) /\ Old(u)' = Old(u) /\ Fd(u)' = Fd(u)
          /\ CheckedOf(u)
      BY <1>2, <2>3, BeginOthers DEF Checked, CheckedOf
    <3>2. ASSUME pc[u] \in {"check", "test"}, Unfit(Si(u), Fd(u)), Si(u) \notin met'
          PROVE  Si(u) = table[Fd(u)] /\ \A v \in Threads : Same(u, v)' => ~Before(v)'
      <4>1. Si(u) = table[Fd(u)] /\ \A v \in Threads : Same(u, v) => ~Before(v)
        BY <1>m, <3>1, <3>2 DEF CheckedOf
      <4>2. Before(u) /\ Si(u) # None
        BY <3>2 DEF Before, Looking, Shape, ShapeOf
      <4>3. Fd(u) # f
        BY <2>2, <2>3, <3>2, <4>1, <4>2
      <4>. QED  BY <1>2, <2>1, <2>3, <3>1, <4>1, <4>3, BeginOthers DEF Same
    <3>. QED  BY <1>m, <2>1, <3>1, <3>2 DEF CheckedOf, Unfit, IsSocket
  <2>4. CheckedOf(t)'
    BY <2>1 DEF CheckedOf
  <2>. QED  BY <2>3, <2>4 DEF Checked, CheckedOf
<1>3. ASSUME NEW f \in Fds, Open(f) \/ Replace(f) PROVE Checked'
  <2>1. UNCHANGED <<table, infos, pc, call>>
    BY <1>3 DEF Open, Replace
  <2>2. ASSUME NEW u \in Threads, Before(u) PROVE kernel'[Fd(u)] = kernel[Fd(u)]
    <3>1. pc[u] # "idle"
      BY <2>2 DEF Before, Looking
    <3>2. Fd(u) # f
      BY <1>3, <2>2, <3>1 DEF OnOpen, Open, Replace, Quiet, Fd
    <3>3. Fd(u) \in Fds
      BY <3>1 DEF Shape, ShapeOf
    <3>. QED  BY <1>3, <3>2, <3>3 DEF Open, Replace, TypeOK
  <2>3. \A u \in Threads : pc[u] \in {"check", "test", "again"} => Before(u)
    BY DEF Before, Looking
  <2>. QED
    BY <1>m, <2>1, <2>2, <2>3 DEF Checked, Same, Before, Fd, Si, Old, Unfit, IsSocket, infos
<1>4. CASE UNCHANGED vars
  BY <1>m, <1>4 DEF vars, infos, Checked, Same, Before, Fd, Si, Old, Unfit, IsSocket
<1>. QED  BY <1>1, <1>2, <1>3, <1>4 DEF Next

\* The thread is about to replace the entry of its descriptor.
Replacing(t) == Leaving(t, "init") \/ Leaving(t, "put") \/ pc[t] \in {"init", "put"}

\* A thread that is about to replace an entry goes on to do so.
LEMMA ReplacingStays ==
  ASSUME TypeOK, Shape, NEW t \in Threads, Run(t), ~Put(t), Replacing(t)
  PROVE  Replacing(t)' /\ Fd(t)' = Fd(t)
<1>0. pc \in [Threads -> Pcs]
  BY DEF TypeOK
<1>1. Unlock(t) \/ Destroy(t) \/ Refresh(t)
  BY DEF Run, GetInfos, OnConnect, Call, Replacing, Leaving, Lookup, Check, TestFails, TestPasses,
         Again, Put, Light, LookupOld, LockOld, RetireOld, Remove, GetData, Publish, Fill, Process,
         Bypass, Retire
<1>2. CASE Refresh(t)
  <2>1. pc'[t] = "put" /\ Fd(t)' = Fd(t)
    BY <1>0, <1>2, Effects DEF Moved
  <2>. QED  BY <2>1 DEF Replacing
<1>3. CASE Unlock(t) \/ Destroy(t)
  <2>1. Then(t) \in {"init", "put"}
    BY <1>3 DEF Unlock, Destroy, Replacing, Leaving
  <2>2. PICK p \in {"destroy", "init", "put"} : Left(t, p)
    BY <1>3, <2>1, Effects
  <2>3. pc'[t] = p /\ Fd(t)' = Fd(t) /\ Then(t)' = Then(t)
    BY <1>0, <2>2 DEF Left, Moved
  <2>. QED  BY <2>1, <2>3 DEF Replacing, Leaving
<1>. QED  BY <1>1, <1>2, <1>3

\* A step leaves a retired info in the table only if a call is about to replace it.
LEMMA ReplacedStep ==
  ASSUME TypeOK, Shape, Home, Replaced, New, Removed, [Next]_vars
  PROVE  Replaced'
<1>1. ASSUME NEW t \in Threads, Run(t) PROVE Replaced'
  <2>0. Fd(t) \in Fds /\ table \in [Fds -> Infos \cup {None}] /\ pc \in [Threads -> Pcs]
    BY <1>1, Onward DEF TypeOK
  <2>1. ASSUME NEW f \in Fds, table'[f] # None, toDestroy'[table'[f]]
        PROVE  \E u \in Threads : Fd(u)' = f /\ Replacing(u)'
    <3>1. ASSUME NEW u \in Threads, Fd(u) = f, Replacing(u), u # t \/ ~Put(t)
          PROVE  Fd(u)' = f /\ Replacing(u)'
      BY <1>1, <3>1, Others, ReplacingStays DEF Replacing, Leaving
    <3>2. CASE table'[f] = table[f] /\ (f # Fd(t) \/ ~Put(t))
      <4>0. table[f] \in Infos /\ table[f] # None
        BY <2>0, <2>1, <3>2
      <4>1. CASE toDestroy[table[f]]
        <5>1. PICK u \in Threads : Fd(u) = f /\ Replacing(u)
          BY <4>0, <4>1 DEF Replaced, Replacing
        <5>. QED  BY <3>1, <3>2, <5>1
      <4>2. CASE (TestFails(t) /\ table[f] = Si(t)) \/ (RetireOld(t) /\ table[f] = Old(t))
        <5>1. f = Fd(t)
          BY <4>0, <4>2 DEF Home, Refs
        <5>2. pc'[t] = "unlock" /\ Fd(t)' = Fd(t) /\ Then(t)' \in {"init", "put"}
          BY <2>0, <4>2, Effects DEF Moved
        <5>. QED  BY <5>1, <5>2 DEF Replacing, Leaving
      <4>3. CASE Retire(t) /\ table[f] = Si(t)
        <5>1. pc[t] = "retire" /\ Op(t) = "close"
          BY <4>3 DEF Retire, Shape, ShapeOf
        <5>. QED  BY <4>3, <5>1 DEF Removed
      <4>. QED  BY <1>1, <2>1, <3>2, <4>0, <4>1, <4>2, <4>3, FlagMoves
    <3>3. CASE Put(t) /\ table'[f] = Si(t) /\ f = Fd(t)
      <4>1. HasNew(t) /\ toDestroy' = toDestroy
        BY <2>1, <3>3 DEF Put, HasNew, infos
      <4>. QED  BY <2>1, <3>3, <4>1 DEF New
    <3>4. Put(t) => ~Remove(t)
      BY DEF Put, Remove
    <3>. QED  BY <1>1, <2>0, <2>1, <3>2, <3>3, <3>4, TableMoves
  <2>. QED  BY <2>1 DEF Replaced, Replacing
<1>2. ASSUME NEW t \in Threads, NEW f \in Fds, NEW o \in Ops, Begin(t, f, o) PROVE Replaced'
  <2>1. \A u \in Threads : Replacing(u) => Fd(u)' = Fd(u) /\ Replacing(u)'
    BY <1>2, BeginOthers DEF Replacing, Leaving, Begin
  <2>2. UNCHANGED <<table, toDestroy>>
    BY <1>2, BeginEffect
  <2>. QED  BY <2>1, <2>2 DEF Replaced, Replacing
<1>3. ASSUME UNCHANGED <<table, infos, pc, call>> PROVE Replaced'
  BY <1>3 DEF Replaced, infos, Leaving, Then, Fd
<1>. QED  BY <1>1, <1>2, <1>3 DEF Next, Open, Replace, vars

-----------------------------------------------------------------------------
(* New infos, and those that close removes.                                 *)

\* What is told of the new info of a thread.
NewOf(t) ==
  /\ ~toDestroy[Si(t)] /\ Si(t) # Old(t)
  /\ \A u \in Threads : u # t => Si(t) \notin Refs(u)
  /\ \A f \in Fds : table[f] # Si(t)
  /\ about[Si(t)].proto = kernel[Fd(t)].kind
  /\ Op(t) # "connect" => ~about[Si(t)].light /\ about[Si(t)].remote = kernel[Fd(t)].peer

\* A thread that has a new info looks for its info, or connects.
LEMMA HasNewBefore ==
  ASSUME TypeOK, NEW t \in Threads, HasNew(t)
  PROVE  /\ Before(t) /\ Active(t)
         /\ Si(t) \in Infos /\ Si(t) \in Refs(t)
  BY RefTypes DEF HasNew, Leaving, Before, Active, Looking, Then, Refs

\* No thread finds out about the new info of another one.
LEMMA NewOther ==
  ASSUME TypeOK, Shape, Known, Alone, New, NEW t \in Threads, Run(t), NEW u \in Threads, u # t,
         HasNew(u)
  PROVE  NewOf(u)'
<1>0. /\ pc'[u] = pc[u] /\ Si(u)' = Si(u) /\ Old(u)' = Old(u) /\ Fd(u)' = Fd(u) /\ Op(u)' = Op(u)
      /\ NewOf(u) /\ Before(u) /\ Before(u)' /\ Si(u) \in Infos /\ status[Si(u)] # "absent"
  BY Others, HasNewBefore DEF New, NewOf, Known
<1>1. Si(u) \notin Refs(t) /\ Fd(t) \in Fds /\ \A f \in Fds : table[f] # Si(u)
  BY <1>0, Onward DEF NewOf
<1>2. Si(u) # Si(t) /\ Si(u) # Old(t)
  BY <1>0, <1>1, RefTypes DEF Refs
<1>3. ~toDestroy'[Si(u)]
  BY <1>0, <1>2, FlagMoves DEF NewOf
<1>4. ASSUME NEW v \in Threads, v # u PROVE Si(u) \notin Refs(v)'
  BY <1>0, <1>1, <1>4, RefMoves, Others DEF NewOf, Allocates
<1>5. ASSUME NEW f \in Fds PROVE table'[f] # Si(u)
  BY <1>0, <1>1, <1>2, RefTypes, TableMoves DEF TypeOK
<1>6. about'[Si(u)] = about[Si(u)]
  BY <1>0, <1>2, AboutMoves DEF Allocates
<1>7. kernel'[Fd(u)] = kernel[Fd(u)]
  BY <1>0, KernelHeld
<1>. QED  BY <1>0, <1>3, <1>4, <1>5, <1>6, <1>7 DEF NewOf

\* A thread keeps its new info to itself until it puts it into the table.
LEMMA NewOwn ==
  ASSUME TypeOK, Shape, Known, New, NEW t \in Threads, Run(t), HasNew(t)'
  PROVE  NewOf(t)'
<1>0. /\ pc \in [Threads -> Pcs] /\ Fd(t) \in Fds /\ None \notin Infos
      /\ Then(t) \in {"idle", "init", "put"}
  BY Onward, RefTypes DEF TypeOK, Locals, Then
<1>1. ASSUME NEW p, NEW si, NEW old, NEW then, Moved(t, p, si, old, then)
      PROVE  /\ pc'[t] = p /\ Si(t)' = si /\ Old(t)' = old /\ Then(t)' = then
             /\ Fd(t)' = Fd(t) /\ Op(t)' = Op(t)
  BY <1>0, <1>1 DEF Moved
<1>2. CASE Refresh(t) \/ Light(t)
  <2>1. /\ Old(t)' = Old(t) /\ Fd(t)' = Fd(t) /\ Op(t)' = Op(t) /\ UNCHANGED <<kernel, table>>
        /\ Si(t)' # None
    BY <1>1, <1>2, Effects DEF Refresh, Light, HasNew
  <2>2. PICK o \in Infos : o = Si(t)' /\ Allocates(t, o) /\ toDestroy' = toDestroy
    BY <1>2, <2>1, Allocation
  <2>3. ~toDestroy[o] /\ (\A u \in Threads : o \notin Refs(u)) /\ \A f \in Fds : table[f] # o
    BY <2>2, <1>0 DEF Known, Allocates
  <2>4. o # Old(t)
    BY <1>0, <2>3 DEF Refs
  <2>5. \A u \in Threads : u # t => o \notin Refs(u)'
    BY <2>3, Others
  <2>6. Light(t) => Op(t) = "connect"
    BY DEF Light, Shape, ShapeOf
  <2>. QED  BY <1>2, <2>1, <2>2, <2>3, <2>4, <2>5, <2>6 DEF NewOf, Allocates
<1>3. ASSUME HasNew(t), Si(t)' = Si(t), Fd(t)' = Fd(t), Op(t)' = Op(t),
             UNCHANGED <<kernel, table, about>>, toDestroy'[Si(t)] = toDestroy[Si(t)],
             Old(t)' = Old(t) \/ Old(t)' = table[Fd(t)]
      PROVE  NewOf(t)'
  <2>1. NewOf(t)
    BY <1>3 DEF New, NewOf
  <2>2. \A u \in Threads : u # t => Refs(u)' = Refs(u)
    BY Others
  <2>. QED  BY <1>0, <1>3, <2>1, <2>2 DEF NewOf
<1>4. CASE LookupOld(t)
  <2>1. /\ Si(t)' = Si(t) /\ Fd(t)' = Fd(t) /\ Op(t)' = Op(t) /\ Old(t)' = table[Fd(t)]
    BY <1>1, <1>4, Effects
  <2>2. pc[t] = "old" /\ UNCHANGED <<kernel, table, about, toDestroy>>
    BY <1>4 DEF LookupOld, infos
  <2>3. HasNew(t)
    BY <2>1, <2>2 DEF HasNew
  <2>. QED  BY <1>3, <2>1, <2>2, <2>3
<1>5. CASE LockOld(t)
  <2>1. /\ Si(t)' = Si(t) /\ Fd(t)' = Fd(t) /\ Op(t)' = Op(t) /\ Old(t)' = Old(t)
    BY <1>1, <1>5, Effects DEF Left
  <2>2. pc[t] = "lockold" /\ UNCHANGED <<kernel, table, about, toDestroy>>
    BY <1>5 DEF LockOld, Lock
  <2>3. HasNew(t)
    BY <2>1, <2>2 DEF HasNew
  <2>. QED  BY <1>3, <2>1, <2>2, <2>3
<1>6. CASE RetireOld(t)
  <2>1. /\ Si(t)' = Si(t) /\ Fd(t)' = Fd(t) /\ Op(t)' = Op(t) /\ Old(t)' = Old(t)
    BY <1>1, <1>6, Effects
  <2>2. pc[t] = "retireold" /\ UNCHANGED <<kernel, table, about>>
    BY <1>6 DEF RetireOld
  <2>3. HasNew(t)
    BY <2>1, <2>2 DEF HasNew
  <2>4. Si(t) # Old(t)
    BY <2>3 DEF New
  <2>5. toDestroy'[Si(t)] = toDestroy[Si(t)]
    BY <1>6, <2>4, <2>3, HasNewBefore DEF RetireOld, Old, TypeOK
  <2>. QED  BY <1>3, <2>1, <2>2, <2>3, <2>5
<1>7. CASE Unlock(t) \/ Destroy(t)
  <2>1. PICK p \in {"destroy", "idle", "init", "put"} : Left(t, p) /\ (p = "destroy" \/ p = Then(t))
    BY <1>0, <1>7, Effects
  <2>2. p # "idle"
    BY <1>0, <2>1 DEF Left, Ended, HasNew, Leaving
  <2>3. /\ pc'[t] = p /\ Then(t)' = Then(t)
        /\ Si(t)' = Si(t) /\ Fd(t)' = Fd(t) /\ Op(t)' = Op(t) /\ Old(t)' = Old(t)
    BY <1>1, <2>1, <2>2 DEF Left
  <2>4. pc[t] \in {"unlock", "destroy"} /\ UNCHANGED <<kernel, table, about, toDestroy>>
    BY <1>7 DEF Unlock, Destroy
  <2>5. HasNew(t)
    BY <2>1, <2>2, <2>3, <2>4 DEF HasNew, Leaving
  <2>. QED  BY <1>3, <2>3, <2>4, <2>5
<1>8. ASSUME NEW p, Left(t, p) PROVE p \in {"old", "lockold", "retireold", "put", "destroy", "unlock"}
  BY <1>0, <1>1, <1>8 DEF Left, Ended, HasNew, Leaving
<1>9. ASSUME NEW p, NEW si, NEW old, NEW then, Moved(t, p, si, old, then)
      PROVE  \/ p \in {"old", "lockold", "retireold", "put"}
             \/ p \in {"destroy", "unlock"} /\ then = "put"
  BY <1>1, <1>9 DEF HasNew, Leaving
<1>10. CASE GetInfos(t) /\ ~Refresh(t)
  <2>1. Entry(t) \notin {"old", "lockold", "retireold", "put", "destroy", "unlock"}
    BY DEF Entry
  <2>. QED  BY <1>8, <1>9, <1>10, <2>1, Effects DEF GetInfos
<1>11. CASE Call(t)
  <2>1. Bypass(t) => Left(t, "idle")
    BY Effects DEF Left
  <2>. QED  BY <1>8, <1>9, <1>11, <2>1, Effects DEF Call
<1>. QED  BY <1>2, <1>4, <1>5, <1>6, <1>7, <1>10, <1>11 DEF Run, OnConnect

\* A step keeps new infos unknown to the other threads.
LEMMA NewStep ==
  ASSUME Settled, TypeOK, Shape, Known, Alone, OnOpen, New, [Next]_vars
  PROVE  New'
<1>1. ASSUME NEW t \in Threads, Run(t) PROVE New'
  <2>1. ASSUME NEW u \in Threads, HasNew(u)' PROVE NewOf(u)'
    <3>1. u # t => HasNew(u)
      BY <1>1, <2>1, Others DEF HasNew, Leaving
    <3>. QED  BY <1>1, <2>1, <3>1, NewOther, NewOwn
  <2>. QED  BY <2>1 DEF New, NewOf
<1>2. ASSUME NEW t \in Threads, NEW f \in Fds, NEW o \in Ops, Begin(t, f, o) PROVE New'
  <2>1. ASSUME NEW u \in Threads, HasNew(u)' PROVE NewOf(u)'
    <3>1. u # t
      BY <1>2, <2>1, BeginOthers
    <3>2. HasNew(u) /\ NewOf(u)
      BY <1>2, <2>1, <3>1, BeginOthers DEF HasNew, Leaving, New, NewOf
    <3>3. \A v \in Threads : Refs(v)' \subseteq Refs(v)
      BY <1>2, BeginOthers
    <3>. QED  BY <1>2, <3>1, <3>2, <3>3, BeginOthers, BeginEffect DEF NewOf
  <2>. QED  BY <2>1 DEF New, NewOf
<1>3. ASSUME NEW f \in Fds, Open(f) \/ Replace(f) PROVE New'
  <2>1. UNCHANGED <<table, infos, pc, call>>
    BY <1>3 DEF Open, Replace
  <2>2. ASSUME NEW u \in Threads, HasNew(u) PROVE kernel'[Fd(u)] = kernel[Fd(u)]
    <3>1. Before(u) /\ pc[u] # "idle"
      BY <2>2, HasNewBefore DEF HasNew, Leaving
    <3>2. Fd(u) # f
      BY <1>3, <3>1 DEF OnOpen, Open, Replace, Quiet, Fd
    <3>3. Fd(u) \in Fds
      BY <3>1 DEF Shape, ShapeOf
    <3>. QED  BY <1>3, <3>2, <3>3 DEF Open, Replace, TypeOK
  <2>. QED
    BY <2>1, <2>2 DEF New, HasNew, Leaving, Then, Refs, Si, Old, Fd, Op, infos
<1>4. CASE UNCHANGED vars
  BY <1>4 DEF vars, infos, New, HasNew, Leaving, Then, Refs, Si, Old, Fd, Op
<1>. QED  BY <1>1, <1>2, <1>3, <1>4 DEF Next

\* The thread has taken its info out of the table.
HasRemoved(t) ==
  Op(t) = "close" /\ pc[t] \in {"data", "publish", "ready", "process", "retire"}
RemovedOf(t) ==
  /\ \A f \in Fds : table[f] # Si(t)
  /\ \A u \in Threads : Before(u) => Si(t) \notin Refs(u)

\* A thread that gets to the walk of the rules for a close has removed its info.
LEMMA HasRemovedFrom ==
  ASSUME TypeOK, Shape, NEW t \in Threads, Run(t), HasRemoved(t)'
  PROVE  /\ Remove(t) \/ (HasRemoved(t) /\ table' = table)
         /\ Si(t)' = Si(t) /\ Fd(t)' = Fd(t) /\ Op(t) = "close" /\ ~Before(t)'
<1>0. pc \in [Threads -> Pcs] /\ Op(t)' = Op(t) /\ Op(t) = "close" /\ Then(t) \in {"idle", "init", "put"}
  BY Onward DEF TypeOK, HasRemoved, Locals, Then
<1>1. ~Before(t)'
  BY DEF HasRemoved, Before, Looking
<1>2. ASSUME NEW p, NEW si, NEW old, NEW then, Moved(t, p, si, old, then)
      PROVE  p \in {"data", "publish", "ready", "process", "retire"} /\ Si(t)' = si /\ Fd(t)' = Fd(t)
  BY <1>0, <1>2 DEF Moved, HasRemoved
<1>3. ASSUME NEW p, Left(t, p)
      PROVE  /\ p \in {"data", "publish", "ready", "process", "retire"}
             /\ Si(t)' = Si(t) /\ Fd(t)' = Fd(t)
  <2>1. ~Ended(t)
    BY <1>0 DEF Ended, HasRemoved
  <2>. QED  BY <1>2, <1>3, <2>1 DEF Left
<1>4. CASE GetInfos(t)
  <2>1. Entry(t) = "remove"
    BY <1>0 DEF Entry, Op
  <2>. QED  BY <1>2, <1>3, <1>4, <2>1, Effects DEF GetInfos
<1>5. CASE OnConnect(t)
  BY <1>2, <1>3, <1>5, Effects DEF OnConnect
<1>6. CASE Unlock(t) \/ Destroy(t)
  BY <1>0, <1>3, <1>6, Effects
<1>7. CASE Remove(t)
  BY <1>0, <1>1, <1>3, <1>7, Effects
<1>8. CASE GetData(t) \/ Publish(t) \/ Fill(t) \/ Process(t)
  <2>1. HasRemoved(t) /\ table' = table
    BY <1>0, <1>8 DEF HasRemoved, GetData, Publish, Fill, Process
  <2>. QED  BY <1>0, <1>1, <1>3, <1>8, <2>1, Effects
<1>9. CASE Bypass(t) \/ Retire(t)
  <2>1. Bypass(t) => Left(t, "idle")
    BY Effects DEF Left
  <2>. QED  BY <1>2, <1>3, <1>9, <2>1, Effects
<1>. QED  BY <1>4, <1>5, <1>6, <1>7, <1>8, <1>9 DEF Run, Call

\* A step lets nobody find an info that close removed.
LEMMA RemovedStep ==
  ASSUME TypeOK, Shape, Known, Home, Alone, Removed, [Next]_vars
  PROVE  Removed'
<1>1. ASSUME NEW t \in Threads, Run(t) PROVE Removed'
  <2>0. Fd(t) \in Fds /\ table \in [Fds -> Infos \cup {None}]
    BY <1>1, Onward DEF TypeOK
  <2>1. ASSUME NEW o \in Infos, status[o] # "absent", \A f \in Fds : table[f] # o,
               \A v \in Threads : Before(v) => o \notin Refs(v)
        PROVE  /\ \A f \in Fds : table'[f] # o
               /\ \A v \in Threads : Before(v)' => o \notin Refs(v)'
    <3>1. Put(t) => Before(t) /\ o # Si(t)
      BY <2>1, RefTypes DEF Put, Before, Looking, Refs
    <3>2. \A f \in Fds : table'[f] # o
      BY <1>1, <2>0, <2>1, <3>1, TableMoves, RefTypes
    <3>3. ASSUME NEW v \in Threads, Before(v)' PROVE o \notin Refs(v)'
      <4>1. Before(v)
        BY <1>1, <3>3, Calm
      <4>2. CASE v # t
        BY <1>1, <2>1, <4>1, <4>2, Others
      <4>3. CASE v = t
        BY <1>1, <2>0, <2>1, <4>1, <4>3, RefMoves DEF Allocates
      <4>. QED  BY <4>2, <4>3
    <3>. QED  BY <3>2, <3>3
  <2>2. ASSUME NEW u \in Threads, HasRemoved(u)' PROVE RemovedOf(u)'
    <3>1. CASE HasRemoved(u) /\ Si(u)' = Si(u)
      <4>1. RemovedOf(u) /\ Si(u) \in Infos /\ status[Si(u)] # "absent"
        BY <3>1, RefTypes DEF Removed, RemovedOf, HasRemoved, Shape, ShapeOf, Known, Refs
      <4>. QED  BY <2>1, <3>1, <4>1 DEF RemovedOf
    <3>2. CASE u = t /\ Remove(t) /\ Si(t)' = Si(t) /\ Op(t) = "close" /\ ~Before(t)'
      <4>1. pc[t] = "remove" /\ table' = [table EXCEPT ![Fd(t)] = None] /\ Active(t)
        BY <3>2 DEF Remove, Fd, Active, Calling
      <4>2. Si(t) \in Infos /\ Si(t) \in Refs(t)
        BY <4>1, RefTypes DEF Refs, Shape, ShapeOf
      <4>3. \A f \in Fds : table'[f] # Si(t)
        BY <2>0, <4>1, <4>2, RefTypes DEF Home
      <4>4. ASSUME NEW v \in Threads, Before(v)', Si(t) \in Refs(v)' PROVE FALSE
        <5>1. v # t /\ Before(v) /\ Active(v) /\ Si(t) \in Refs(v)
          BY <1>1, <3>2, <4>4, Calm, Others
        <5>2. Same(t, v)
          BY <4>2, <5>1 DEF Home, Same
        <5>. QED  BY <3>2, <4>1, <5>1, <5>2 DEF Alone
      <4>. QED  BY <3>2, <4>3, <4>4 DEF RemovedOf
    <3>3. u # t => HasRemoved(u) /\ Si(u)' = Si(u)
      BY <1>1, <2>2, Others DEF HasRemoved
    <3>. QED  BY <1>1, <2>2, <3>1, <3>2, <3>3, HasRemovedFrom
  <2>. QED  BY <2>2 DEF Removed, RemovedOf, HasRemoved
<1>2. ASSUME NEW t \in Threads, NEW f \in Fds, NEW o \in Ops, Begin(t, f, o) PROVE Removed'
  <2>1. ASSUME NEW u \in Threads, HasRemoved(u)' PROVE RemovedOf(u)'
    <3>1. u # t
      BY <1>2, <2>1, BeginEffect DEF TypeOK, HasRemoved
    <3>2. HasRemoved(u) /\ RemovedOf(u) /\ Si(u)' = Si(u)
      BY <1>2, <2>1, <3>1, BeginOthers DEF HasRemoved, Removed, RemovedOf
    <3>3. \A v \in Threads : Refs(v)' # {} => Refs(v)' = Refs(v) /\ (Before(v)' => Before(v))
      BY <1>2, BeginOthers
    <3>. QED  BY <1>2, <3>2, <3>3, BeginEffect DEF RemovedOf
  <2>. QED  BY <2>1 DEF Removed, RemovedOf, HasRemoved
<1>3. ASSUME UNCHANGED <<table, pc, call>> PROVE Removed'
  BY <1>3 DEF Removed, Before, Refs, Si, Old, Op
<1>. QED  BY <1>1, <1>2, <1>3 DEF Next, Open, Replace, vars

-----------------------------------------------------------------------------
(* The count.                                                               *)

\* The accessors of a thread, one info at a time.
LEMMA HoldsIs ==
  ASSUME TypeOK, NEW t \in Threads, NEW o \in Infos
  PROVE  o \in Holds(t) <=> (HoldsOwn(t) /\ o = Si(t)) \/ (HoldsOld(t) /\ o = Old(t))
  BY RefTypes DEF Holds, Si, Old

\* The accessors of a thread change where its step says.
LEMMA HoldsAfter ==
  ASSUME TypeOK, NEW t \in Threads, NEW o \in Infos, NEW p, NEW si, NEW old, NEW then,
         Moved(t, p, si, old, then)
  PROVE  /\ o \in Holds(t)' <=>
              \/ /\ o = si
                 /\ \/ p \in {"test", "again", "old", "put", "lockold", "retireold", "remove",
                              "data", "publish", "ready", "process", "retire", "unlock"}
                    \/ p = "destroy" /\ then = "put"
              \/ o = old /\ (p = "retireold" \/ (p = "unlock" /\ then = "put"))
<1>1. pc'[t] = p /\ Si(t)' = si /\ Old(t)' = old /\ Then(t)' = then /\ None \notin Infos
  BY RefTypes DEF TypeOK, Moved
<1>. QED  BY <1>1 DEF Holds, HoldsOwn, HoldsOld, Si, Old, Then

\* A thread takes an accessor when the count goes up, and gives it back when it goes down.
LEMMA HoldMoves ==
  ASSUME TypeOK, Shape, Known, Checked, New, NEW t \in Threads, Run(t), NEW o \in Infos
  PROVE  \/ (o \in Holds(t)' <=> o \in Holds(t)) /\ sem'[o] = sem[o]
         \/ o \notin Holds(t) /\ o \in Holds(t)' /\ Allocates(t, o)
         \/ o \notin Holds(t) /\ o \in Holds(t)' /\ sem'[o] = sem[o] + 1
         \/ o \in Holds(t) /\ o \notin Holds(t)' /\ sem'[o] = sem[o] - 1
<1>0. /\ pc \in [Threads -> Pcs] /\ Fd(t) \in Fds /\ None \notin Infos /\ ShapeOf(t)
      /\ Then(t) \in {"idle", "init", "put"} /\ sem \in [Infos -> Int]
      /\ Victim(t) = (IF Then(t) = "put" THEN Old(t) ELSE Si(t))
  BY Onward, RefTypes DEF TypeOK, Locals, Then, Victim, Old, Si, Shape
<1>1. o \in Holds(t) <=>
        \/ /\ o = Si(t)
           /\ \/ pc[t] \in {"test", "again", "old", "put", "lockold", "retireold", "remove",
                            "data", "publish", "ready", "process", "retire", "unlock"}
              \/ pc[t] = "destroy" /\ Then(t) = "put"
        \/ o = Old(t) /\ (pc[t] = "retireold" \/ (pc[t] = "unlock" /\ Then(t) = "put"))
  BY HoldsIs DEF HoldsOwn, HoldsOld, Then
<1>2. ASSUME Ended(t) PROVE o \notin Holds(t)'
  <2>1. pc'[t] = "idle"
    BY <1>0, <1>2 DEF Ended
  <2>. QED  BY <2>1 DEF Holds, HoldsOwn, HoldsOld
<1>3. CASE Lookup(t)
  <2>1. PICK p \in {"init", "check"} : Moved(t, p, table[Fd(t)], Old(t), Then(t))
    BY <1>3, Effects
  <2>2. pc[t] = "lookup" /\ sem' = sem
    BY <1>3 DEF Lookup, infos
  <2>. QED  BY <1>1, <2>1, <2>2, HoldsAfter
<1>4. CASE Check(t)
  <2>1. Moved(t, "test", Si(t), Old(t), Then(t))
    BY <1>4, Effects DEF Left
  <2>2. pc[t] = "check" /\ sem' = [sem EXCEPT ![Si(t)] = @ + 1]
    BY <1>4 DEF Check, Lock, Si
  <2>. QED  BY <1>0, <1>1, <2>1, <2>2, HoldsAfter
<1>5. CASE TestFails(t)
  <2>1. Moved(t, "unlock", Si(t), Old(t), "init")
    BY <1>5, Effects
  <2>2. pc[t] = "test" /\ sem' = sem
    BY <1>5 DEF TestFails
  <2>. QED  BY <1>1, <2>1, <2>2, HoldsAfter
<1>6. CASE TestPasses(t) \/ Again(t) \/ Put(t)
  <2>1. PICK p \in {"again", "remove", "data", "bypass"} :
          Moved(t, p, Si(t), Old(t), Then(t)) /\ (p = "bypass" => Si(t) = None)
    <3>1. Again(t) => ~toDestroy[Si(t)]
      BY DEF Again, Checked, Unfit
    <3>. QED  BY <1>6, <3>1, Effects DEF Left, Entry
  <2>2. pc[t] \in {"test", "again", "put"} /\ sem' = sem
    BY <1>6 DEF TestPasses, Again, Put, infos
  <2>. QED  BY <1>0, <1>1, <2>1, <2>2, HoldsAfter
<1>7. CASE Refresh(t) \/ Light(t)
  <2>1. PICK p \in {"put", "old"}, s \in Infos \cup {None} : Moved(t, p, s, Old(t), Then(t))
    BY <1>7, Effects
  <2>2. pc[t] \in {"init", "light"} /\ Si(t)' = s
    BY <1>7, <2>1 DEF Refresh, Light, Moved
  <2>3. o \notin Holds(t) /\ (o \in Holds(t)' <=> o = s)
    BY <1>1, <2>1, <2>2, HoldsAfter
  <2>4. o = s => Allocates(t, o)
    BY <1>7, <2>2, Allocation
  <2>5. o # s => sem'[o] = sem[o]
    BY <1>7, <2>2, Allocation
  <2>. QED  BY <2>3, <2>4, <2>5
<1>8. CASE LookupOld(t)
  <2>1. PICK p \in {"put", "lockold"} : Moved(t, p, Si(t), table[Fd(t)], Then(t))
    BY <1>8, Effects
  <2>2. pc[t] = "old" /\ sem' = sem
    BY <1>8 DEF LookupOld, infos
  <2>. QED  BY <1>1, <2>1, <2>2, HoldsAfter
<1>9. CASE LockOld(t)
  <2>1. Moved(t, "retireold", Si(t), Old(t), Then(t))
    BY <1>9, Effects DEF Left
  <2>2. pc[t] = "lockold" /\ sem' = [sem EXCEPT ![Old(t)] = @ + 1]
    BY <1>9 DEF LockOld, Lock, Old
  <2>3. o = Old(t) => o # Si(t)
    BY <1>0, <2>2 DEF New, HasNew
  <2>. QED  BY <1>0, <1>1, <2>1, <2>2, <2>3, HoldsAfter
<1>10. CASE RetireOld(t)
  <2>1. Moved(t, "unlock", Si(t), Old(t), "put")
    BY <1>10, Effects
  <2>2. pc[t] = "retireold" /\ sem' = sem
    BY <1>10 DEF RetireOld
  <2>. QED  BY <1>1, <2>1, <2>2, HoldsAfter
<1>11. CASE Unlock(t)
  <2>1. PICK p \in {"destroy", "idle", "init", "put"} : Left(t, p) /\ (p = "destroy" \/ p = Then(t))
    BY <1>0, <1>11, Effects
  <2>2. pc[t] = "unlock" /\ sem' = [sem EXCEPT ![Victim(t)] = @ - 1]
    BY <1>11 DEF Unlock
  <2>3. Then(t) = "put" /\ o = Old(t) => o # Si(t)
    BY <1>0, <2>2 DEF New, HasNew, Leaving
  <2>4. o \in Holds(t)' <=> o = Si(t) /\ Then(t) = "put"
    BY <1>0, <1>2, <2>1, HoldsAfter DEF Left
  <2>. QED  BY <1>0, <1>1, <2>2, <2>3, <2>4
<1>12. CASE Destroy(t)
  <2>1. pc[t] = "destroy" /\ sem' = sem
    BY <1>12 DEF Destroy
  <2>2. Left(t, Then(t))
    BY <1>12, Effects
  <2>3. o \in Holds(t)' <=> o = Si(t) /\ Then(t) = "put"
    BY <1>0, <1>2, <2>2, HoldsAfter DEF Left
  <2>. QED  BY <1>1, <2>1, <2>3
<1>13. CASE Remove(t) \/ GetData(t) \/ Publish(t) \/ Fill(t) \/ Process(t) \/ Retire(t)
  <2>1. \E p \in {"data", "publish", "ready", "process", "retire", "unlock"}, n \in {Then(t), "idle"} :
          Moved(t, p, Si(t), Old(t), n) /\ (p = "unlock" => n = "idle")
    BY <1>13, Effects DEF Left
  <2>2. pc[t] \in {"remove", "data", "publish", "ready", "process", "retire"} /\ sem' = sem
    BY <1>13 DEF Remove, GetData, Publish, Fill, Process, Retire, infos
  <2>. QED  BY <1>1, <2>1, <2>2, HoldsAfter
<1>14. CASE Bypass(t)
  <2>1. pc[t] = "bypass" /\ sem' = sem
    BY <1>14 DEF Bypass, infos
  <2>. QED  BY <1>1, <1>2, <1>14, <2>1, Effects
<1>. QED
  BY <1>3, <1>4, <1>5, <1>6, <1>7, <1>8, <1>9, <1>10, <1>11, <1>12, <1>13, <1>14
     DEF Run, GetInfos, OnConnect, Call

\* What a step of one thread leaves of the accessors of another.
LEMMA HoldsOther ==
  ASSUME TypeOK, Shape, NEW t \in Threads, Run(t), NEW u \in Threads, u # t
  PROVE  Holds(u)' = Holds(u)
<1>1. pc'[u] = pc[u] /\ call'[u] = call[u]
  BY Others
<1>. QED  BY <1>1 DEF Holds, HoldsOwn, HoldsOld

\* The number of accessors of an info is that of a finite set of threads.
LEMMA UsersCount ==
  ASSUME NEW o
  PROVE  /\ IsFiniteSet(Users(o)) /\ Users(o) \subseteq Threads /\ Cardinality(Users(o)) \in Nat
         /\ \A t \in Users(o) : Cardinality(Users(o)) # 0
<1>1. Users(o) \subseteq Threads
  BY DEF Users
<1>2. IsFiniteSet(Users(o))
  BY <1>1, SocketsAssumption, FS_Subset
<1>. QED  BY <1>1, <1>2, FS_CardinalityType, FS_EmptySet

\* A step keeps the count of every info exact.
LEMMA CountStep ==
  ASSUME TypeOK, Shape, Known, Checked, New, CountExact, [Next]_vars
  PROVE  CountExact'
<1>1. ASSUME NEW t \in Threads, Run(t) PROVE CountExact'
  <2>1. ASSUME NEW o \in Infos PROVE sem'[o] = Cardinality(Users(o)')
    <3>0. /\ sem[o] = Cardinality(Users(o)) /\ IsFiniteSet(Users(o)) /\ Cardinality(Users(o)) \in Nat
      BY UsersCount DEF CountExact
    <3>1. Users(o)' = {u \in Threads : o \in Holds(u)'} /\ Users(o) = {u \in Threads : o \in Holds(u)}
      BY DEF Users
    <3>2. \A u \in Threads : u # t => (o \in Holds(u)' <=> o \in Holds(u))
      BY <1>1, HoldsOther
    <3>3. CASE (o \in Holds(t)' <=> o \in Holds(t)) /\ sem'[o] = sem[o]
      <4>1. Users(o)' = Users(o)
        BY <3>1, <3>2, <3>3
      <4>. QED  BY <3>0, <3>3, <4>1
    <3>4. CASE o \notin Holds(t) /\ o \in Holds(t)'
      <4>1. Users(o)' = Users(o) \cup {t} /\ t \notin Users(o)
        BY <3>1, <3>2, <3>4
      <4>2. Cardinality(Users(o)') = Cardinality(Users(o)) + 1
        BY <3>0, <4>1, FS_AddElement
      <4>3. CASE sem'[o] = sem[o] + 1
        BY <3>0, <4>2, <4>3
      <4>4. CASE Allocates(t, o)
        <5>1. Users(o) = {}
          BY <3>1, <4>4, HoldsIs, RefTypes DEF Known, Allocates, Refs
        <5>2. Cardinality(Users(o)') = 1
          BY <4>2, <5>1, FS_EmptySet
        <5>. QED  BY <4>4, <5>2 DEF Allocates
      <4>. QED  BY <1>1, <3>4, <4>3, <4>4, HoldMoves
    <3>5. CASE o \in Holds(t) /\ o \notin Holds(t)' /\ sem'[o] = sem[o] - 1
      <4>1. Users(o)' = Users(o) \ {t} /\ t \in Users(o)
        BY <3>1, <3>2, <3>5
      <4>2. Cardinality(Users(o)') = Cardinality(Users(o)) - 1
        BY <3>0, <4>1, FS_RemoveElement
      <4>. QED  BY <3>0, <3>5, <4>2
    <3>. QED  BY <1>1, <3>3, <3>4, <3>5, HoldMoves
  <2>. QED  BY <2>1 DEF CountExact
<1>2. ASSUME NEW t \in Threads, NEW f \in Fds, NEW p \in Ops, Begin(t, f, p) PROVE CountExact'
  <2>1. \A u \in Threads : Holds(u)' = Holds(u)
    <3>1. Holds(t)' = {} /\ Holds(t) = {}
      BY <1>2, BeginEffect DEF TypeOK, Holds, HoldsOwn, HoldsOld
    <3>2. ASSUME NEW u \in Threads, u # t PROVE Holds(u)' = Holds(u)
      BY <1>2, <3>2, BeginOthers DEF Holds, HoldsOwn, HoldsOld
    <3>. QED  BY <3>1, <3>2
  <2>. QED  BY <1>2, <2>1, BeginEffect DEF CountExact, Users
<1>3. ASSUME UNCHANGED <<infos, pc, call>> PROVE CountExact'
  BY <1>3 DEF CountExact, Users, Holds, HoldsOwn, HoldsOld, infos
<1>. QED  BY <1>1, <1>2, <1>3 DEF Next, Open, Replace, vars

\* An info that is about to be freed is freed by one thread, and nobody takes it again, unless
\* calls met on it.
LEMMA DyingStep ==
  ASSUME TypeOK, Shape, Known, Checked, CountExact, Dying, [Next]_vars
  PROVE  Dying'
<1>m. met \subseteq met'
  BY MetStays
<1>1. ASSUME NEW t \in Threads, Run(t) PROVE Dying'
  <2>0. /\ pc \in [Threads -> Pcs] /\ Then(t) \in {"idle", "init", "put"}
        /\ \A u \in Threads : pc[u] \in {"unlock", "destroy"} => Victim(u) \in Infos
    BY RefTypes DEF TypeOK, Locals, Then, Victim, Shape, ShapeOf, Si, Old
  <2>1. ASSUME NEW u \in Threads, u # t, pc[u] = "destroy"
        PROVE  /\ pc'[u] = "destroy" /\ Victim(u)' = Victim(u)
               /\ toDestroy'[Victim(u)]
               /\ Victim(u) \in met \/ (sem'[Victim(u)] = 0 /\ status'[Victim(u)] = "live")
    <3>1. PICK o \in Infos : o = Victim(u)
      BY <2>0, <2>1
    <3>6. toDestroy'[o]
      BY <1>1, <2>1, <3>1, FlagMoves DEF Dying
    <3>9. CASE o \in met
      BY <1>1, <2>1, <3>1, <3>6, <3>9, Others
    <3>10. CASE o \notin met
      <4>1. toDestroy[o] /\ sem[o] = 0 /\ status[o] = "live" /\ ~Allocates(t, o)
        BY <2>1, <3>1, <3>10 DEF Dying, Allocates
      <4>2. ~(Check(t) /\ o = Si(t)) /\ ~(LockOld(t) /\ o = Old(t))
        BY <3>10, <4>1 DEF Check, LockOld, Checked
      <4>3. ~(Unlock(t) /\ o = Victim(t))
        <5>1. SUFFICES ASSUME Unlock(t), o = Victim(t) PROVE FALSE
          OBVIOUS
        <5>2. o \in Holds(t)
          BY <5>1, HoldsIs DEF Unlock, Victim, HoldsOwn, HoldsOld, Si, Old
        <5>3. t \in Users(o)
          BY <5>2 DEF Users
        <5>. QED  BY <4>1, <5>3, UsersCount DEF CountExact
      <4>4. ~(Destroy(t) /\ o = Victim(t))
        BY <2>1, <3>1, <3>10 DEF Destroy, Dying
      <4>5. sem'[o] = 0
        BY <1>1, <4>1, <4>2, <4>3, SemMoves
      <4>6. status'[o] = "live"
        BY <1>1, <4>1, <4>4, StatusMoves
      <4>. QED  BY <1>1, <2>1, <3>1, <3>6, <4>5, <4>6, Others
    <3>. QED  BY <3>9, <3>10
  <2>2. ASSUME pc'[t] = "destroy"
        PROVE  /\ Unlock(t) /\ pc[t] = "unlock" /\ Victim(t)' = Victim(t) /\ Victim(t) \in Infos
               /\ toDestroy[Victim(t)] /\ sem[Victim(t)] = 1 /\ status[Victim(t)] = "live"
    <3>1. ASSUME NEW p, NEW si, NEW old, NEW then, Moved(t, p, si, old, then) PROVE p = "destroy"
      BY <2>0, <2>2, <3>1 DEF Moved
    <3>2. ASSUME NEW p, Left(t, p) PROVE p = "destroy"
      BY <2>0, <2>2, <3>1, <3>2 DEF Left, Ended
    <3>3. ~Ended(t)
      BY <2>0, <2>2 DEF Ended
    <3>4. CASE Unlock(t)
      <4>1. pc[t] = "unlock" /\ status[Victim(t)] = "live"
        BY <1>1, <3>4 DEF Run, Touched, Unlock
      <4>2. toDestroy[Victim(t)] /\ sem[Victim(t)] = 1
        BY <2>0, <3>2, <3>4, Effects
      <4>3. Victim(t)' = Victim(t)
        BY <3>2, <3>3, <3>4, Effects DEF Left, Moved, Victim, Then, Si, Old
      <4>. QED  BY <2>0, <3>4, <4>1, <4>2, <4>3
    <3>5. CASE GetInfos(t)
      BY <3>1, <3>2, <3>5, Effects DEF GetInfos, Entry
    <3>6. CASE OnConnect(t)
      BY <3>1, <3>2, <3>6, Effects DEF OnConnect
    <3>7. CASE Call(t)
      BY <3>1, <3>2, <3>3, <3>7, Effects DEF Call
    <3>8. CASE Destroy(t)
      BY <2>0, <3>2, <3>8, Effects
    <3>. QED  BY <1>1, <3>4, <3>5, <3>6, <3>7, <3>8 DEF Run
  <2>3. ASSUME NEW u \in Threads, pc'[u] = "destroy"
        PROVE  /\ toDestroy'[Victim(u)']
               /\ Victim(u)' \in met' \/ (sem'[Victim(u)'] = 0 /\ status'[Victim(u)'] = "live")
    <3>1. CASE u # t
      BY <1>1, <1>m, <2>1, <2>3, <3>1, Others
    <3>2. CASE u = t
      <4>1. UNCHANGED <<status, toDestroy>> /\ sem' = [sem EXCEPT ![Victim(t)] = @ - 1]
        BY <2>2, <2>3, <3>2 DEF Unlock
      <4>. QED  BY <2>2, <2>3, <3>2, <4>1 DEF TypeOK
    <3>. QED  BY <3>1, <3>2
  <2>4. ASSUME NEW u \in Threads, NEW v \in Threads, pc'[u] = "destroy", pc'[v] = "destroy",
               Victim(u)' = Victim(v)'
        PROVE  u = v \/ Victim(u)' \in met'
    <3>1. ASSUME NEW w \in Threads, w # t, pc'[w] = "destroy", pc'[t] = "destroy",
                 Victim(w)' = Victim(t)'
          PROVE  Victim(t)' \in met'
      <4>1. pc[w] = "destroy" /\ Victim(w) = Victim(t) /\ sem[Victim(t)] = 1
        BY <1>1, <2>2, <3>1, Others
      <4>. QED  BY <1>m, <2>2, <3>1, <4>1 DEF Dying
    <3>2. CASE u # t /\ v # t
      BY <1>1, <1>m, <2>4, <3>2, Others DEF Dying
    <3>. QED  BY <2>4, <3>1, <3>2
  <2>. QED  BY <2>3, <2>4 DEF Dying
<1>2. ASSUME NEW t \in Threads, NEW f \in Fds, NEW p \in Ops, Begin(t, f, p) PROVE Dying'
  <2>1. pc'[t] # "destroy"
    BY <1>2, BeginEffect DEF TypeOK
  <2>. QED  BY <1>2, <1>m, <2>1, BeginOthers, BeginEffect DEF Dying
<1>3. ASSUME UNCHANGED <<infos, pc, call>> PROVE Dying'
  BY <1>m, <1>3 DEF Dying, Victim, infos
<1>. QED  BY <1>1, <1>2, <1>3 DEF Next, Open, Replace, vars

-----------------------------------------------------------------------------
(* What the table says of a descriptor.                                     *)

\* An info that does not fit its descriptor goes on not fitting it.
LEMMA UnfitKept ==
  ASSUME TypeOK, Shape, Home, NEW t \in Threads, Run(t), NEW f \in Fds, NEW o \in Infos,
         o = table[f], status[o] # "absent", Unfit(o, f), kernel'[f].kind = kernel[f].kind
  PROVE  Unfit(o, f)'
<1>1. toDestroy[o] => toDestroy'[o]
  BY FlagMoves
<1>2. about'[o].proto = about[o].proto
  BY AboutMoves DEF Allocates
<1>3. about[o].light => about'[o].light
  <2>1. TestPasses(t) /\ o = Si(t) => Fd(t) = f
    BY RefTypes DEF Home, Refs
  <2>2. ~(TestPasses(t) /\ o = Si(t))
    BY <2>1 DEF TestPasses, Si, Fd
  <2>. QED  BY <2>2, AboutMoves DEF Allocates
<1>. QED  BY <1>1, <1>2, <1>3 DEF Unfit, IsSocket

\* A connect or a close that is done with the table leaves it as it wants.
LEMMA SettledOwn ==
  ASSUME TypeOK, Shape, Fresh, NEW t \in Threads, Run(t), HasSettled(t)'
  PROVE  /\ table'[Fd(t)] = IF Op(t) = "connect" THEN Si(t)' ELSE None
         /\ (HasSettled(t) /\ Si(t)' = Si(t)) \/ (Put(t) /\ Si(t)' = Si(t)) \/ Op(t) # "connect"
<1>0. /\ pc \in [Threads -> Pcs] /\ Fd(t) \in Fds /\ table \in [Fds -> Infos \cup {None}]
      /\ Op(t)' = Op(t) /\ Op(t) # "data" /\ Op(t) \in Ops /\ Then(t) \in {"idle", "init", "put"}
  BY Onward DEF TypeOK, Locals, Then, Op, HasSettled
<1>1. ASSUME NEW p, NEW si, NEW old, NEW then, Moved(t, p, si, old, then)
      PROVE  p \in {"data", "publish", "ready", "process", "bypass"} /\ Si(t)' = si
  BY <1>0, <1>1 DEF Moved, HasSettled
<1>2. ASSUME NEW p, Left(t, p)
      PROVE  p \in {"data", "publish", "ready", "process", "bypass"} /\ Si(t)' = Si(t)
  <2>1. ~Ended(t)
    BY <1>0 DEF Ended, HasSettled
  <2>. QED  BY <1>1, <1>2, <2>1 DEF Left
<1>3. CASE Put(t)
  <2>1. table'[Fd(t)] = Si(t)
    BY <1>0, <1>3 DEF Put, Fd, Si
  <2>2. Left(t, IF Si(t) = None THEN "bypass" ELSE Entry(t))
    BY <1>3, Effects
  <2>3. Si(t) = None \/ Op(t) = "connect"
    BY <1>0, <1>2, <2>2 DEF Entry, Op, Ops
  <2>. QED  BY <1>2, <1>3, <2>1, <2>2, <2>3
<1>4. CASE GetInfos(t) /\ ~Put(t)
  <2>1. ~Again(t)
    <3>1. ASSUME Again(t) PROVE Op(t) = "close"
      BY <1>0, <3>1 DEF Again, Shape, ShapeOf, Ops
    <3>2. Op(t) = "close" => Entry(t) = "remove"
      BY DEF Entry, Op
    <3>. QED  BY <1>2, <3>1, <3>2, Effects
  <2>. QED  BY <1>1, <1>2, <1>4, <2>1, Effects DEF GetInfos
<1>5. CASE OnConnect(t)
  BY <1>1, <1>2, <1>5, Effects DEF OnConnect
<1>6. CASE Unlock(t) \/ Destroy(t)
  BY <1>0, <1>2, <1>6, Effects
<1>7. CASE Remove(t)
  <2>1. table'[Fd(t)] = None /\ Op(t) = "close"
    BY <1>0, <1>7 DEF Remove, Fd, Shape, ShapeOf
  <2>. QED  BY <2>1
<1>8. CASE GetData(t) \/ Publish(t) \/ Fill(t)
  <2>1. HasSettled(t) /\ table' = table
    BY <1>0, <1>8 DEF HasSettled, GetData, Publish, Fill
  <2>2. Si(t)' = Si(t)
    BY <1>2, <1>8, Effects
  <2>. QED  BY <2>1, <2>2 DEF Fresh
<1>9. CASE Process(t) \/ Bypass(t) \/ Retire(t)
  <2>1. Bypass(t) => Left(t, "idle")
    BY Effects DEF Left
  <2>. QED  BY <1>1, <1>2, <1>9, <2>1, Effects
<1>. QED  BY <1>3, <1>4, <1>5, <1>6, <1>7, <1>8, <1>9 DEF Run, Call

\* What a step of a thread does to the kernel, for what the table tells.
LEMMA KernelFresh ==
  ASSUME TypeOK, Shape, NEW t \in Threads, Run(t), NEW f \in Fds, kernel'[f] # kernel[f]
  PROVE  /\ f = Fd(t) /\ table' = table /\ (Process(t) \/ Bypass(t))
         /\ HasSettled(t) /\ UNCHANGED infos
         /\ \/ Op(t) = "close" /\ kernel'[Fd(t)] = Closed
            \/ /\ Op(t) = "connect" /\ kernel'[Fd(t)].kind = kernel[Fd(t)].kind
               /\ kernel'[Fd(t)] # Closed
<1>1. /\ f = Fd(t) /\ (Process(t) \/ Bypass(t))
      /\ Op(t) # "data"
      /\ \/ Op(t) = "close" /\ kernel'[Fd(t)] = Closed
         \/ /\ Op(t) = "connect" /\ kernel'[Fd(t)].kind = kernel[Fd(t)].kind
            /\ kernel'[Fd(t)] # Closed
  BY KernelMoves
<1>2. table' = table /\ UNCHANGED infos /\ pc[t] \in {"process", "bypass"}
  BY <1>1 DEF Process, Bypass
<1>. QED  BY <1>1, <1>2 DEF HasSettled

\* A connect that stores its info, and one that has stored it, has one of the kind of the socket.
LEMMA SettledStep ==
  ASSUME TypeOK, Shape, Known, Alone, New, Fresh, NEW t \in Threads, Run(t), NEW u \in Threads,
         HasSettled(u)'
  PROVE  /\ table'[Fd(u)'] = IF Op(u)' = "connect" THEN Si(u)' ELSE None
         /\ Op(u)' = "connect" /\ Si(u)' # None => about'[Si(u)'].proto = kernel'[Fd(u)'].kind
<1>0. Fd(t) \in Fds /\ table \in [Fds -> Infos \cup {None}]
  BY Onward DEF TypeOK
<1>1. Active(u)' /\ Op(u)' # "data"
  BY DEF HasSettled, Active, Calling
<1>2. kernel'[Fd(u)] = kernel[Fd(u)] /\ Fd(u) \in Fds /\ Fd(u)' = Fd(u) /\ Op(u)' = Op(u)
  BY <1>1, KernelHeld, Calm
<1>3. ASSUME NEW o, o = Si(u), o # None, about[o].proto = kernel[Fd(u)].kind
      PROVE  about'[o].proto = kernel'[Fd(u)].kind
  <2>1. o \in Infos /\ status[o] # "absent"
    BY <1>3, RefTypes DEF Known, Refs
  <2>2. about'[o].proto = about[o].proto
    BY <2>1, AboutMoves DEF Allocates
  <2>. QED  BY <1>2, <1>3, <2>2
<1>4. CASE u = t
  <2>1. /\ table'[Fd(t)] = IF Op(t) = "connect" THEN Si(t)' ELSE None
        /\ (HasSettled(t) /\ Si(t)' = Si(t)) \/ (Put(t) /\ Si(t)' = Si(t)) \/ Op(t) # "connect"
    BY <1>4, SettledOwn
  <2>2. CASE HasSettled(t) /\ Si(t)' = Si(t)
    BY <1>2, <1>3, <1>4, <2>1, <2>2 DEF Fresh
  <2>3. CASE Put(t) /\ Si(t)' = Si(t) /\ Si(t) # None
    <3>1. HasNew(t)
      BY <2>3 DEF Put, HasNew
    <3>. QED  BY <1>2, <1>3, <1>4, <2>1, <2>3, <3>1 DEF New
  <2>. QED  BY <1>2, <1>4, <2>1, <2>2, <2>3
<1>5. CASE u # t
  <2>1. /\ HasSettled(u) /\ Si(u)' = Si(u) /\ Active(u) /\ Op(u) # "data"
    BY <1>1, <1>5, Others DEF HasSettled
  <2>2. table'[Fd(u)] = table[Fd(u)]
    <3>1. Put(t) => Before(t) /\ Active(t)
      BY DEF Put, Before, Active, Looking
    <3>2. Remove(t) => Active(t) /\ Op(t) = "close"
      BY DEF Remove, Active, Calling, Shape, ShapeOf
    <3>3. Put(t) \/ Remove(t) => Fd(t) # Fd(u)
      BY <1>5, <2>1, <3>1, <3>2 DEF Alone, Same
    <3>. QED  BY <1>0, <1>2, <3>3, TableMoves
  <2>. QED  BY <1>2, <1>3, <2>1, <2>2 DEF Fresh
<1>. QED  BY <1>4, <1>5

\* A step of a thread leaves in the table what tells of the socket, or what it is known not to
\* have noticed.
LEMMA AgreesRun ==
  ASSUME TypeOK, Shape, Known, Home, New, Fresh, NEW t \in Threads, Run(t),
         NEW f \in Fds, NEW o \in Infos, table'[f] = o
  PROVE  \/ Unfit(o, f)'
         \/ f \in unnoticed'
         \/ kernel'[f].kind = about'[o].proto /\ kernel'[f].peer \in {None, about'[o].remote}
<1>0. Fd(t) \in Fds /\ table \in [Fds -> Infos \cup {None}] /\ o # None
  BY Onward, RefTypes DEF TypeOK
<1>1. Put(t) => ~Remove(t) /\ ~Process(t)
  BY DEF Put, Remove, Process
<1>2. CASE Put(t) /\ f = Fd(t) /\ o = Si(t)
  <2>1. HasNew(t) /\ UNCHANGED <<kernel, about>>
    BY <1>0, <1>2 DEF HasNew, Put, infos
  <2>2. kernel[f].kind = about[o].proto
    BY <1>2, <2>1 DEF New
  <2>3. CASE Op(t) = "connect" /\ kernel[f].peer # None
    BY <1>0, <1>1, <1>2, <2>3, PastMoves DEF Put, Op, Fd
  <2>4. CASE Op(t) = "connect" /\ kernel[f].peer = None
    BY <2>1, <2>2, <2>4
  <2>5. CASE Op(t) # "connect"
    BY <1>2, <2>1, <2>2, <2>5 DEF New
  <2>. QED  BY <2>3, <2>4, <2>5
<1>3. CASE table[f] = o /\ ~(Put(t) /\ f = Fd(t))
  <2>1. status[o] # "absent"
    BY <1>0, <1>3 DEF Known
  <2>2. about'[o].proto = about[o].proto /\ about'[o].remote = about[o].remote
    BY <2>1, AboutMoves DEF Allocates
  <2>3. CASE Process(t) /\ f = Fd(t) /\ Op(t) = "connect" /\ SysCall(t, about[Si(t)].remote)
    <3>1. HasSettled(t) /\ Si(t) # None
      BY <2>3 DEF HasSettled, Process, Shape, ShapeOf
    <3>2. o = Si(t) /\ about[o].proto = kernel[f].kind
      BY <1>3, <2>3, <3>1 DEF Fresh
    <3>3. about[o].proto \in Protos /\ about[o].remote \in Peers \cup {None}
      BY DEF TypeOK, Info
    <3>4. IsSocket(f)
      BY <3>2, <3>3 DEF IsSocket
    <3>5. kernel'[f].kind = kernel[f].kind /\ kernel'[f].peer = about[o].remote
      BY <1>0, <2>3, <3>2, <3>3, <3>4, SysCallEffect
    <3>. QED  BY <2>2, <3>2, <3>5
  <2>4. CASE ~(Process(t) /\ f = Fd(t) /\ Op(t) = "connect" /\ SysCall(t, about[Si(t)].remote))
    <3>1. f \in unnoticed => f \in unnoticed'
      BY <1>3, <2>4, PastMoves
    <3>2. CASE kernel'[f] = kernel[f]
      <4>1. Unfit(o, f) => Unfit(o, f)'
        BY <1>3, <2>1, <3>2, UnfitKept
      <4>. QED  BY <1>0, <1>3, <2>2, <3>1, <3>2, <4>1 DEF Fresh, Agrees
    <3>3. CASE kernel'[f] # kernel[f]
      <4>1. f = Fd(t) /\ HasSettled(t) /\ (Op(t) = "close" \/ Op(t) = "connect") /\ (Process(t) \/ Bypass(t))
        BY <3>3, KernelFresh
      <4>2. Op(t) = "connect" /\ o = Si(t)
        BY <1>0, <1>3, <4>1 DEF Fresh
      <4>3. Process(t)
        BY <1>0, <4>1, <4>2 DEF Bypass, Shape, ShapeOf
      <4>4. SysCall(t, about[Si(t)].remote)
        BY <3>3, <4>3 DEF Process, Si
      <4>. QED  BY <2>4, <4>1, <4>2, <4>3, <4>4
    <3>. QED  BY <3>2, <3>3
  <2>. QED  BY <2>3, <2>4
<1>4. (table[f] = o /\ ~(Put(t) /\ f = Fd(t))) \/ (Put(t) /\ f = Fd(t) /\ o = Si(t))
  BY <1>0, <1>1, TableMoves
<1>. QED  BY <1>2, <1>3, <1>4

\* A step of a thread keeps the table telling of the sockets that the descriptors are.
LEMMA FreshRun ==
  ASSUME TypeOK, Shape, Known, Home, Alone, OnOpen, New, Fresh, NEW t \in Threads, Run(t)
  PROVE  Fresh'
<1>0. Fd(t) \in Fds /\ table \in [Fds -> Infos \cup {None}]
  BY Onward DEF TypeOK
<1>1. ASSUME NEW f \in Fds, kernel'[f] = Closed PROVE table'[f] = None
  <2>1. CASE kernel'[f] = kernel[f]
    <3>1. Put(t) => Before(t)
      BY DEF Put, Before, Looking
    <3>2. Put(t) => f # Fd(t)
      BY <1>1, <2>1, <3>1 DEF OnOpen
    <3>. QED  BY <1>0, <1>1, <2>1, <3>2, TableMoves DEF Fresh
  <2>2. CASE kernel'[f] # kernel[f]
    BY <1>1, <2>2, KernelFresh DEF Fresh
  <2>. QED  BY <2>1, <2>2
<1>2. ASSUME NEW f \in Fds PROVE Agrees(f)'
  <2>1. CASE table'[f] = None
    BY <2>1 DEF Agrees
  <2>2. CASE table'[f] # None
    <3>1. table'[f] = table[f] \/ table'[f] = Si(t)
      BY <1>0, <2>2, TableMoves
    <3>2. PICK o \in Infos : o = table'[f]
      BY <1>0, <2>2, <3>1, RefTypes
    <3>. QED  BY <3>2, AgreesRun DEF Agrees, Unfit, IsSocket
  <2>. QED  BY <2>1, <2>2
<1>. QED  BY <1>1, <1>2, SettledStep DEF Fresh

\* Whatever the program does, the table tells of the sockets that the descriptors are.
LEMMA FreshStep ==
  ASSUME Settled, TypeOK, Shape, Known, Home, Alone, OnOpen, New, Fresh, [Next]_vars
  PROVE  Fresh'
<1>1. ASSUME NEW t \in Threads, Run(t) PROVE Fresh'
  BY <1>1, FreshRun
<1>2. ASSUME NEW t \in Threads, NEW f \in Fds, NEW o \in Ops, Begin(t, f, o) PROVE Fresh'
  <2>1. /\ UNCHANGED <<kernel, table, about, toDestroy, unnoticed>> /\ ~HasSettled(t)'
    BY <1>2, BeginEffect DEF TypeOK, HasSettled
  <2>3. \A g \in Fds : Agrees(g)' /\ (kernel'[g] = Closed => table'[g] = None)
    BY <2>1 DEF Fresh, Agrees, Unfit, IsSocket
  <2>4. ASSUME NEW u \in Threads, u # t, HasSettled(u)'
        PROVE  /\ table'[Fd(u)'] = IF Op(u)' = "connect" THEN Si(u)' ELSE None
               /\ Op(u)' = "connect" /\ Si(u)' # None => about'[Si(u)'].proto = kernel'[Fd(u)'].kind
    BY <1>2, <2>1, <2>4, BeginOthers DEF Fresh, HasSettled
  <2>. QED  BY <2>1, <2>3, <2>4 DEF Fresh
<1>3. ASSUME NEW f \in Fds, Open(f) \/ Replace(f) PROVE Fresh'
  <2>1. /\ UNCHANGED <<table, infos, pc, call>> /\ \A g \in Fds : g # f => kernel'[g] = kernel[g]
        /\ unnoticed' \in {unnoticed, unnoticed \cup {f}}
    BY <1>3 DEF Open, Replace, TypeOK, past
  <2>2. kernel'[f] # Closed
    BY <1>3 DEF Open, Replace, Closed, TypeOK, Protos
  <2>3. Agrees(f)'
    <3>1. CASE Open(f)
      BY <2>1, <3>1 DEF Open, Fresh, Agrees
    <3>2. CASE Replace(f)
      BY <3>2 DEF Replace, Agrees
    <3>. QED  BY <1>3, <3>1, <3>2
  <2>4. ASSUME NEW u \in Threads, HasSettled(u) PROVE kernel'[Fd(u)] = kernel[Fd(u)]
    <3>1. pc[u] # "idle" /\ Active(u) /\ Op(u) # "data"
      BY <2>4 DEF HasSettled, Active, Calling
    <3>2. Fd(u) # f
      BY <1>3, <3>1 DEF OnOpen, Open, Replace, Quiet, Fd
    <3>3. Fd(u) \in Fds
      BY <3>1 DEF Shape, ShapeOf
    <3>. QED  BY <2>1, <3>2, <3>3
  <2>5. \A g \in Fds : g # f => Agrees(g)'
    BY <2>1 DEF Fresh, Agrees, Unfit, IsSocket, infos
  <2>6. \A g \in Fds : kernel'[g] = Closed => table'[g] = None
    BY <2>1, <2>2 DEF Fresh
  <2>7. \A u \in Threads : HasSettled(u)' =>
          /\ table'[Fd(u)'] = IF Op(u)' = "connect" THEN Si(u)' ELSE None
          /\ Op(u)' = "connect" /\ Si(u)' # None => about'[Si(u)'].proto = kernel'[Fd(u)'].kind
    BY <2>1, <2>4 DEF Fresh, HasSettled, Op, Fd, Si, infos
  <2>. QED  BY <2>3, <2>5, <2>6, <2>7 DEF Fresh
<1>4. CASE UNCHANGED vars
  BY <1>4 DEF vars, infos, past, Fresh, Agrees, Unfit, IsSocket, HasSettled, Op, Fd, Si
<1>. QED  BY <1>1, <1>2, <1>3, <1>4 DEF Next

-----------------------------------------------------------------------------
(* The theorems.                                                            *)

\* The program starts with no call in progress and no info.
LEMMA Initially == Init => Inv
<1>. SUFFICES ASSUME Init PROVE Inv
  OBVIOUS
<1>1. /\ \A t \in Threads : pc[t] = "idle" /\ call[t] = NoCall
      /\ \A f \in Fds : table[f] = None /\ kernel[f] = Closed
      /\ \A o \in Infos : status[o] = "absent" /\ ~toDestroy[o] /\ sem[o] = 0
  BY DEF Init
<1>2. TypeOK
  <2>1. Closed \in [kind : Protos \cup {"file", "closed"}, peer : Peers \cup {None}]
    BY DEF Closed
  <2>2. [proto |-> "tcp", remote |-> None, light |-> FALSE] \in Info
    BY DEF Info, Protos
  <2>. QED  BY <2>1, <2>2, NoCallType DEF Init, TypeOK, Pcs
<1>3. \A t \in Threads : Refs(t) = {} /\ ~Before(t) /\ ~Active(t) /\ Op(t) = "data" /\ Holds(t) = {}
  BY <1>1 DEF Refs, Si, Old, Op, NoCall, CallOf, Before, Active, Looking, Calling, Holds, HoldsOwn,
              HoldsOld
<1>4. Shape /\ Checked /\ Dying /\ New
  BY <1>1 DEF Shape, ShapeOf, Leaving, Checked, Dying, New, HasNew
<1>5. Known /\ Home /\ Replaced
  BY <1>1, <1>3, RefTypes, <1>2 DEF Known, Home, Replaced
<1>6. Alone /\ OnOpen /\ Solo /\ Removed
  BY <1>1, <1>3 DEF Alone, OnOpen, Solo, Removed
<1>7. CountExact
  <2>1. \A o \in Infos : Users(o) = {}
    BY <1>3 DEF Users
  <2>. QED  BY <1>1, <2>1, FS_EmptySet DEF CountExact
<1>8. Fresh
  BY <1>1, <1>3 DEF Fresh, Agrees, HasSettled
<1>. QED  BY <1>2, <1>4, <1>5, <1>6, <1>7, <1>8 DEF Inv

\* The invariant holds in every state of a program that settles its descriptors.
THEOREM Invariant == ASSUME Settled PROVE Spec => []Inv
<1>1. ASSUME Inv, [Next]_vars PROVE Inv'
  <2>1. TypeOK' /\ Shape'
    BY <1>1, TypeStep, ShapeStep DEF Inv
  <2>2. Known' /\ Home' /\ Alone' /\ OnOpen'
    BY <1>1, KnownStep, HomeStep, AloneStep, OnOpenStep DEF Inv
  <2>3. Solo' /\ Checked' /\ Replaced'
    BY <1>1, SoloStep, CheckedStep, ReplacedStep DEF Inv
  <2>4. New' /\ Removed'
    BY <1>1, NewStep, RemovedStep DEF Inv
  <2>5. Dying' /\ CountExact'
    BY <1>1, DyingStep, CountStep DEF Inv
  <2>6. Fresh'
    BY <1>1, FreshStep DEF Inv
  <2>. QED  BY <2>1, <2>2, <2>3, <2>4, <2>5, <2>6 DEF Inv
<1>. QED  BY <1>1, Initially, PTL DEF Spec

\* No accessor is forgotten: the count of an info is the number of calls that have it.
THEOREM CountExactCorrect == ASSUME Settled PROVE Spec => []CountExact
<1>1. Inv => CountExact
  BY DEF Inv
<1>. QED  BY <1>1, Invariant, PTL

\* No call uses, or is about to use, an info that another one has freed, unless calls side by
\* side met on it while it was about another socket.
THEOREM UsedInfosLiveCorrect == ASSUME Settled PROVE Spec => []UsedInfosLive
<1>1. ASSUME Inv PROVE UsedInfosLive
  <2>0. TypeOK /\ Shape /\ Known /\ Checked /\ CountExact /\ Dying
    BY <1>1 DEF Inv
  <2>1. ASSUME NEW t \in Threads, NEW o \in Infos, o \in Holds(t)
        PROVE  status[o] = "live" \/ o \in met
    <3>1. o \in Refs(t)
      BY <2>0, <2>1 DEF Holds, Refs, Si, Old
    <3>2. sem[o] # 0
      BY <2>0, <2>1, UsersCount DEF CountExact, Users
    <3>. QED  BY <2>0, <3>1, <3>2 DEF Known, TypeOK
  <2>2. ASSUME NEW t \in Threads, NEW o \in Infos, o \in Refs(t), ~toDestroy[o]
        PROVE  status[o] = "live"
    BY <2>0, <2>2 DEF Known, TypeOK
  <2>3. ASSUME NEW t \in Threads, NEW o \in Touched(t)
        PROVE  status[o] = "live" \/ o \in met
    <3>1. CASE pc[t] \in {"test", "again", "remove", "data", "publish", "ready", "process", "retire"}
      <4>1. o = Si(t) /\ Si(t) \in Infos
        BY <2>0, <2>3, <3>1, RefTypes DEF Touched, Shape, ShapeOf, Si
      <4>2. o \in Holds(t)
        BY <2>0, <3>1, <4>1, HoldsIs DEF HoldsOwn
      <4>. QED  BY <2>1, <4>1, <4>2
    <3>2. CASE pc[t] = "check"
      <4>1. o = Si(t) /\ o \in Refs(t) /\ o \in Infos
        BY <2>0, <2>3, <3>2, RefTypes DEF Touched, Shape, ShapeOf, Si, Refs
      <4>. QED  BY <2>0, <2>2, <3>2, <4>1 DEF Checked
    <3>3. CASE pc[t] \in {"lockold", "retireold"}
      <4>1. o = Old(t) /\ o \in Refs(t) /\ o \in Infos
        BY <2>0, <2>3, <3>3, RefTypes DEF Touched, Shape, ShapeOf, Old, Refs
      <4>2. CASE pc[t] = "lockold"
        BY <2>0, <2>2, <4>1, <4>2 DEF Checked
      <4>3. CASE pc[t] = "retireold"
        BY <2>0, <2>1, <4>1, <4>3, HoldsIs DEF HoldsOld
      <4>. QED  BY <3>3, <4>2, <4>3
    <3>4. CASE pc[t] = "unlock"
      <4>1. o = Victim(t) /\ Victim(t) \in Infos
        BY <2>0, <2>3, <3>4, RefTypes DEF Touched, Shape, ShapeOf, Victim, Si, Old
      <4>2. o \in Holds(t)
        BY <2>0, <3>4, <4>1, HoldsIs DEF HoldsOwn, HoldsOld, Victim, Si, Old
      <4>. QED  BY <2>1, <4>1, <4>2
    <3>5. CASE pc[t] = "destroy"
      BY <2>0, <2>3, <3>5 DEF Touched, Dying
    <3>. QED  BY <2>3, <3>1, <3>2, <3>3, <3>4, <3>5 DEF Touched
  <2>4. ASSUME NEW t \in Threads, NEW o \in Holds(t) PROVE o \in Infos
    BY <2>0, <2>4, RefTypes DEF Holds, Si, Old
  <2>. QED  BY <2>1, <2>3, <2>4 DEF UsedInfosLive
<1>. QED  BY <1>1, Invariant, PTL

\* What the table says of a descriptor at rest is about the socket it is, or the next check
\* finds out, unless another file was put on the descriptor or a connect to a second peer refused.
THEOREM TableFreshCorrect == ASSUME Settled PROVE Spec => []TableFresh
<1>1. ASSUME Inv PROVE TableFresh
  <2>0. TypeOK /\ Known /\ Replaced /\ Fresh
    BY <1>1 DEF Inv
  <2>1. ASSUME NEW f \in Fds, Quiet(f), table[f] # None PROVE status[table[f]] = "live"
    <3>1. ~toDestroy[table[f]]
      BY <2>0, <2>1 DEF Replaced, Quiet, Fd, Leaving
    <3>2. table[f] \in Infos /\ status[table[f]] # "absent"
      BY <2>0, <2>1, RefTypes DEF Known
    <3>. QED  BY <2>0, <3>1, <3>2 DEF Known, TypeOK
  <2>. QED  BY <2>0, <2>1 DEF TableFresh, Fresh, Agrees
<1>. QED  BY <1>1, Invariant, PTL

=============================================================================
