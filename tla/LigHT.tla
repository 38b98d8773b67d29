------------------------------- MODULE LigHT -------------------------------
(***************************************************************************)
(* The light table of ligHT.c: open addressing with linear probing, a key  *)
(* of -1 marking a free slot.  Each operation holds the table's rwlock, or *)
(* works on a table that one thread owns, so it is one step.  The table    *)
(* never grows after LigHT_init, and no table has a callback to free data. *)
(*                                                                         *)
(* A usage is what a client does with one table: descriptors (sockets in   *)
(* binding.c) are put, looked up and removed; lines (calledLines in        *)
(* actions.c) are put and looked up, and are never removed.  Any int may   *)
(* be a descriptor: nothing keeps a read(-1), or a descriptor beyond the   *)
(* capacity, from the table.                                               *)
(***************************************************************************)
EXTENDS Integers, FiniteSets

CONSTANTS Capacity,  \* LigHT_init's initialCap
          Data,      \* what is stored, NULL included
          None,      \* NULL
          Usages,    \* records [keys, removes]
          MaxStrays  \* bound: puts done under the key -1

Free  == -1
Slots == 0 .. Capacity - 1

\* 2^32 modulo the capacity: what the cast to unsigned adds to a negative key.
Wrap == (65536 % Capacity) * (65536 % Capacity)

\* Fault for the runs to find: a capacity off by one.
HomeShort(k) == (IF k < 0 THEN Wrap + k ELSE k) % (Capacity - 1)

Home(k) == (IF k < 0 THEN Wrap + k ELSE k) % Capacity      \* GET_OFFSET

ASSUME LigHTAssumption ==
  /\ Capacity \in Nat \ {0}
  /\ None \in Data
  /\ MaxStrays \in Nat
  /\ \A u \in Usages : u.keys \subseteq Int /\ u.removes \in BOOLEAN

VARIABLES usage,   \* how the table is used
          slots,   \* slot -> [key, data]
          length,  \* the count kept by the table
          last,    \* the last operation and its answer
          strays,  \* history: puts done under the key -1
          cut      \* history: a removal left a hole on the way to another element

vars == <<usage, slots, length, last, strays, cut>>

Empty   == [key |-> Free, data |-> None]
AllKeys == UNION {u.keys : u \in Usages}

\* The slot looked at after i others.
Probe(k, i) == IF Home(k) + i >= Capacity THEN Home(k) + i - Capacity ELSE Home(k) + i

\* Where the search for a key may stop, and the first such place.
Stops(k) == {i \in Slots : slots[Probe(k, i)].key \in {k, Free}}
First(k) == CHOOSE i \in Stops(k) : \A j \in Stops(k) : i <= j
HasRoom(k) == Stops(k) # {}

\* Fault for the runs to find: a key goes to the last place the search could stop at.
AtLast(k) == Probe(k, CHOOSE i \in Stops(k) : \A j \in Stops(k) : i >= j)

At(k) == Probe(k, First(k))

\* Fault for the runs to find: the search gives up after the first slot.
FindsHome(k) == slots[Home(k)].key = k

\* LigHT_findEntry without force, then with it.
Finds(k)   == HasRoom(k) /\ slots[At(k)].key = k

\* The elements, and those that a search reaches by way of slot p.
Filled == {s \in Slots : slots[s].key # Free}
Reaches(s, i) ==
  /\ Probe(slots[s].key, i) = s
  /\ \A j \in 0 .. i - 1 : slots[Probe(slots[s].key, j)].key \notin {slots[s].key, Free}
Beyond(p) ==
  {s \in Filled : \E i \in Slots, j \in Slots :
                    j < i /\ Probe(slots[s].key, j) = p /\ Reaches(s, i)}

Init ==
  /\ usage \in Usages
  /\ slots = [s \in Slots |-> Empty]
  /\ length = 0
  /\ last = <<"init">>
  /\ strays = 0
  /\ cut = FALSE

\* LigHT_put writes where the search stopped, unless the key is there and stays; the count
\* grows when the slot was free, that of the key -1 being always so.
Writes(k, replace) == HasRoom(k) /\ (Finds(k) => replace)

\* Fault for the runs to find: replacing an element counts it again.
GrowsAlways(k) == TRUE

Grows(k) == slots[At(k)].key = Free

Put(k, v, replace) ==
  /\ k = Free => strays < MaxStrays
  /\ last' = <<"put", k, v, Writes(k, replace)>>
  /\ IF Writes(k, replace)
     THEN /\ slots' = [slots EXCEPT ![At(k)] = [key |-> k, data |-> v]]
          /\ length' = IF Grows(k) THEN length + 1 ELSE length
          /\ strays' = IF k = Free THEN strays + 1 ELSE strays
     ELSE UNCHANGED <<slots, length, strays>>
  /\ UNCHANGED <<usage, cut>>

Contains(k) ==
  /\ last' = <<"contains", k, Finds(k)>>
  /\ UNCHANGED <<usage, slots, length, strays, cut>>

Get(k) ==
  /\ last' = <<"get", k, IF Finds(k) THEN slots[At(k)].data ELSE None>>
  /\ UNCHANGED <<usage, slots, length, strays, cut>>

\* FREE_ENTRY leaves a slot whose key is -1 as it is.
Remove(k) ==
  /\ usage.removes
  /\ last' = <<"remove", k, Finds(k)>>
  /\ IF Finds(k) /\ k # Free
     THEN /\ slots' = [slots EXCEPT ![At(k)] = Empty]
          /\ length' = length - 1
          /\ cut' = (cut \/ Beyond(At(k)) # {})
     ELSE UNCHANGED <<slots, length, cut>>
  /\ UNCHANGED <<usage, strays>>

Next ==
  \E k \in usage.keys :
    \/ \E v \in Data, replace \in BOOLEAN : Put(k, v, replace)
    \/ Contains(k) \/ Get(k) \/ Remove(k)

Spec == Init /\ [][Next]_vars
-----------------------------------------------------------------------------
Stored == {slots[s].key : s \in Filled}
Holder(k) == CHOOSE s \in Filled : slots[s].key = k
Contents == [k \in Stored |-> slots[Holder(k)].data]

TypeOK ==
  /\ usage \in Usages
  /\ slots \in [Slots -> [key : usage.keys \cup {Free}, data : Data]]
  /\ strays \in Nat /\ cut \in BOOLEAN

\* The count that bounds LigHT_clear is the number of elements, whatever was replaced,
\* refused or removed, whatever keys collide, but for one more for each put under the key
\* -1, which no removal takes back.
LengthExact == length = Cardinality(Filled) + strays

\* Every element can be reached from its home slot, no free slot and no other element of
\* its key being met on the way, until a removal leaves a hole on the way to another
\* element: no put makes one, be it in the hole of an earlier removal.
ChainsUnbroken == ~cut => \A s \in Filled : \E i \in Slots : Reaches(s, i)

\* No removal leaves such a hole among descriptors from 0 up to the capacity, and among
\* -1 with them; nor in a table from which nothing is removed.
Tame == usage.removes => usage.keys \subseteq Slots \cup {Free}

NeverCut == Tame => ~cut

\* Until such a hole is made, the table answers every operation as the map of SparseMap
\* does, and the operations under the key -1 leave the map alone.
Map == INSTANCE SparseMap WITH
  Keys <- AllKeys \ {Free}, NoKey <- Free, Room <- Capacity, map <- Contents

KeepsMap == Map!Init /\ [][~cut' => Map!Next]_<<Contents, last>>
=============================================================================
