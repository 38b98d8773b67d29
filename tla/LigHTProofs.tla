---------------------------- MODULE LigHTProofs ----------------------------
(* What is proved of LigHT: types, unbroken chains, and the map it keeps.   *)
EXTENDS LigHT, FiniteSetTheorems, WellFoundedInduction, TLAPS

\* The slots a search looks at are slots of the table.
LEMMA ProbeType ==
  ASSUME NEW k \in Int, NEW i \in Slots
  PROVE  Home(k) \in Slots /\ Probe(k, i) \in Slots
<1>1. Capacity \in Nat /\ Capacity > 0
  BY LigHTAssumption
<1>2. Home(k) \in Slots
  <2>1. 65536 % Capacity \in Int
    BY <1>1
  <2>2. Wrap \in Int
    <3> DEFINE w == 65536 % Capacity
    <3>1. w \in Int
      BY <2>1
    <3> HIDE DEF w
    <3>2. w * w \in Int
      BY <3>1
    <3> QED
      BY <3>2 DEF Wrap, w
  <2>3. PICK n \in Int : n = IF k < 0 THEN Wrap + k ELSE k
    BY <2>2
  <2>4. n % Capacity \in 0 .. Capacity - 1
    BY <1>1
  <2> QED
    BY <2>3, <2>4 DEF Home, Slots
<1> QED
  BY <1>1, <1>2 DEF Probe, Slots

\* A set of slots that is not empty has a least element: the shortest of the intervals
\* that end in it is minimal for inclusion.
LEMMA Least ==
  ASSUME NEW S, S \subseteq Slots, S # {}
  PROVE  \E n \in S : \A m \in S : n <= m
<1> DEFINE T == {0 .. n : n \in S}
<1>1. IsFiniteSet(Slots)
  BY LigHTAssumption, FS_Interval DEF Slots
<1>2. IsWellFoundedOn(StrictSubsetOrdering(Slots), SUBSET Slots)
  BY <1>1, FS_StrictSubsetOrderingWellFounded, FS_FiniteSubsetsOfFinite
<1>0. \A n \in S : n \in Nat /\ 0 .. n \in SUBSET Slots
  BY LigHTAssumption DEF Slots
<1>3. T \subseteq SUBSET Slots /\ T # {}
  BY <1>0
<1>4. \E x \in T : \A y \in T : ~(<<y, x>> \in StrictSubsetOrdering(Slots))
  <2> HIDE DEF T
  <2> QED
    BY <1>2, <1>3, WFMin
<1>5. PICK n \in S : \A m \in S : ~(<<0 .. m, 0 .. n>> \in StrictSubsetOrdering(Slots))
  BY <1>4
<1>6. ASSUME NEW m \in S
      PROVE  n <= m
  <2>1. SUFFICES ASSUME m < n PROVE FALSE
    BY <1>0
  <2>2. 0 .. m \subseteq 0 .. n /\ n \in 0 .. n /\ n \notin 0 .. m
    BY <2>1, <1>0
  <2> QED
    BY <1>0, <1>5, <2>2 DEF StrictSubsetOrdering
<1> QED
  BY <1>6

\* A search that may stop stops at the first place where it may.
LEMMA FirstStop ==
  ASSUME NEW k, Stops(k) # {}
  PROVE  First(k) \in Stops(k) /\ \A j \in Stops(k) : First(k) <= j
<1>1. Stops(k) \subseteq Slots
  BY DEF Stops
<1> QED
  BY <1>1, Least DEF First

\* Where a search stops: a slot of the table that holds the key or is free, before which
\* no slot holds the key or is free.
LEMMA SearchStops ==
  ASSUME NEW k \in Int, HasRoom(k)
  PROVE  /\ First(k) \in Slots /\ At(k) \in Slots
         /\ slots[At(k)].key \in {k, Free}
         /\ \A j \in 0 .. First(k) - 1 : slots[Probe(k, j)].key \notin {k, Free}
<1>1. First(k) \in Stops(k) /\ \A j \in Stops(k) : First(k) <= j
  BY FirstStop DEF HasRoom
<1>2. First(k) \in Slots /\ slots[At(k)].key \in {k, Free}
  BY <1>1 DEF Stops, At
<1>3. \A j \in 0 .. First(k) - 1 : j \in Slots /\ j \notin Stops(k)
  BY <1>1, <1>2, LigHTAssumption DEF Slots
<1> QED
  BY <1>2, <1>3, ProbeType DEF Stops, At

\* The inductive invariant.
ChainInv == TypeOK /\ ChainsUnbroken

\* Keys are integers; the elements are never under the mark of a free slot.
LEMMA KeyType ==
  ASSUME TypeOK
  PROVE  /\ usage.keys \subseteq Int /\ Free \in Int
         /\ slots \in [Slots -> [key : usage.keys \cup {Free}, data : Data]]
         /\ \A s \in Filled : s \in Slots /\ slots[s].key \in usage.keys /\ slots[s].key # Free
<1> QED
  BY LigHTAssumption DEF TypeOK, Free, Filled

LEMMA InitInv == Init => ChainInv
<1>1. ASSUME Init PROVE TypeOK /\ Filled = {}
  BY <1>1, LigHTAssumption DEF Init, TypeOK, Empty, Filled
<1> QED
  BY <1>1 DEF ChainInv, ChainsUnbroken

LEMMA TypeStep == TypeOK /\ [Next]_vars => TypeOK'
<1> SUFFICES ASSUME TypeOK, [Next]_vars PROVE TypeOK'
  OBVIOUS
<1>1. ASSUME NEW k \in usage.keys, NEW v \in Data, NEW replace \in BOOLEAN, Put(k, v, replace)
      PROVE  TypeOK'
  <2>1. k \in Int /\ [key |-> k, data |-> v] \in [key : usage.keys \cup {Free}, data : Data]
    BY KeyType
  <2>2. slots' \in [Slots -> [key : usage.keys \cup {Free}, data : Data]]
    BY <1>1, <2>1 DEF Put, TypeOK
  <2> QED
    BY <1>1, <2>2 DEF TypeOK, Put
<1>2. ASSUME NEW k \in usage.keys, Contains(k) \/ Get(k)
      PROVE  TypeOK'
  BY <1>2 DEF TypeOK, Contains, Get
<1>3. ASSUME NEW k \in usage.keys, Remove(k)
      PROVE  TypeOK'
  <2>1. slots' \in [Slots -> [key : usage.keys \cup {Free}, data : Data]]
    BY <1>3, LigHTAssumption DEF Remove, TypeOK, Empty
  <2>2. cut' \in BOOLEAN
    BY <1>3 DEF Remove, TypeOK
  <2> QED
    BY <1>3, <2>1, <2>2 DEF TypeOK, Remove
<1>4. ASSUME UNCHANGED vars PROVE TypeOK'
  BY <1>4 DEF TypeOK, vars
<1> QED
  BY <1>1, <1>2, <1>3, <1>4 DEF Next

\* The slots on the way to a slot that a search may look at are slots of the table.
LEMMA WayType ==
  ASSUME NEW l \in Int, NEW i \in Slots, NEW j \in 0 .. i - 1
  PROVE  j \in Slots /\ Probe(l, j) \in Slots
<1>1. j \in Slots
  BY LigHTAssumption DEF Slots
<1> QED
  BY <1>1, ProbeType

\* A write leaves every chain unbroken: it fills a slot that was free, or that already
\* held the key; under the key -1 it changes no key.
LEMMA WriteChains ==
  ASSUME ChainInv, ~cut, NEW k \in usage.keys, NEW v \in Data, HasRoom(k),
         slots' = [slots EXCEPT ![At(k)] = [key |-> k, data |-> v]]
  PROVE  \A s \in Filled' : \E i \in Slots : Reaches(s, i)'
<1>1. k \in Int /\ slots \in [Slots -> [key : usage.keys \cup {Free}, data : Data]]
  BY KeyType DEF ChainInv
<1>2. /\ First(k) \in Slots /\ At(k) \in Slots
      /\ slots[At(k)].key \in {k, Free}
      /\ \A j \in 0 .. First(k) - 1 : slots[Probe(k, j)].key \notin {k, Free}
  BY <1>1, SearchStops
<1> PICK p \in Slots, f \in Slots : p = At(k) /\ f = First(k)
  BY <1>2
<1>3. slots'[p].key = k /\ \A s \in Slots : s # p => slots'[s] = slots[s]
  BY <1>1, <1>2
<1>4. k # Free => Reaches(p, f)'
  <2>1. ASSUME NEW j \in 0 .. f - 1, k # Free
        PROVE  slots'[Probe(k, j)].key \notin {k, Free}
    BY <1>1, <1>2, <1>3, <2>1, WayType
  <2> QED
    BY <2>1, <1>3 DEF Reaches, At
<1>5. ASSUME NEW s \in Filled', s # p
      PROVE  \E i \in Slots : Reaches(s, i)'
  <2>1. s \in Filled /\ slots'[s] = slots[s]
    BY <1>3, <1>5 DEF Filled
  <2>2. PICK i \in Slots : Reaches(s, i)
    BY <2>1 DEF ChainInv, ChainsUnbroken
  <2> DEFINE l == slots[s].key
  <2>3. l \in Int /\ l # Free
    BY <2>1, KeyType DEF ChainInv
  <2>4. ASSUME NEW j \in 0 .. i - 1
        PROVE  slots'[Probe(l, j)].key \notin {l, Free}
    <3>1. Probe(l, j) \in Slots /\ slots[Probe(l, j)].key \notin {l, Free}
      BY <2>2, <2>3, WayType DEF Reaches
    <3> QED
      BY <3>1, <1>1, <1>2, <1>3
  <2>5. Reaches(s, i)'
    BY <2>1, <2>2, <2>4 DEF Reaches
  <2> QED
    BY <2>5
<1>6. p \in Filled' => k # Free
  BY <1>3 DEF Filled
<1> QED
  BY <1>4, <1>5, <1>6

\* A removal off the way to every other element leaves their chains unbroken.
LEMMA RemoveChains ==
  ASSUME ChainInv, ~cut, NEW k \in usage.keys, Finds(k), Beyond(At(k)) = {},
         slots' = [slots EXCEPT ![At(k)] = Empty]
  PROVE  \A s \in Filled' : \E i \in Slots : Reaches(s, i)'
<1>1. k \in Int /\ slots \in [Slots -> [key : usage.keys \cup {Free}, data : Data]]
  BY KeyType DEF ChainInv
<1> PICK p \in Slots : p = At(k)
  BY <1>1, SearchStops DEF Finds
<1>2. slots'[p] = Empty /\ \A s \in Slots : s # p => slots'[s] = slots[s]
  BY <1>1
<1>3. ASSUME NEW s \in Filled'
      PROVE  \E i \in Slots : Reaches(s, i)'
  <2>1. s \in Filled /\ s # p /\ slots'[s] = slots[s]
    BY <1>2, <1>3 DEF Filled, Empty
  <2>2. PICK i \in Slots : Reaches(s, i)
    BY <2>1 DEF ChainInv, ChainsUnbroken
  <2> DEFINE l == slots[s].key
  <2>3. l \in Int
    BY <2>1, KeyType DEF ChainInv
  <2>4. ASSUME NEW j \in 0 .. i - 1
        PROVE  slots'[Probe(l, j)].key \notin {l, Free}
    <3>1. j \in Slots /\ Probe(l, j) \in Slots /\ slots[Probe(l, j)].key \notin {l, Free}
      BY <2>2, <2>3, WayType DEF Reaches
    <3>2. j < i
      BY LigHTAssumption DEF Slots
    <3>3. Probe(l, j) # p
      BY <2>1, <2>2, <3>1, <3>2 DEF Beyond
    <3> QED
      BY <3>1, <3>3, <1>2
  <2>5. Reaches(s, i)'
    BY <2>1, <2>2, <2>4 DEF Reaches
  <2> QED
    BY <2>5
<1> QED
  BY <1>3

LEMMA ChainStep == ChainInv /\ [Next]_vars => ChainInv'
<1> SUFFICES ASSUME ChainInv, [Next]_vars PROVE ChainInv'
  OBVIOUS
<1>1. TypeOK'
  BY TypeStep DEF ChainInv
<1>2. ASSUME slots' = slots, ~cut' => ~cut PROVE ChainsUnbroken'
  BY <1>2 DEF ChainInv, ChainsUnbroken, Filled, Reaches
<1>3. ASSUME NEW k \in usage.keys, NEW v \in Data, NEW replace \in BOOLEAN, Put(k, v, replace)
      PROVE  ChainsUnbroken'
  <2>1. CASE Writes(k, replace)
    <3>1. /\ cut' = cut /\ HasRoom(k)
          /\ slots' = [slots EXCEPT ![At(k)] = [key |-> k, data |-> v]]
      BY <1>3, <2>1 DEF Put, Writes
    <3> QED
      BY <3>1, WriteChains DEF ChainsUnbroken
  <2>2. CASE ~Writes(k, replace)
    BY <1>2, <1>3, <2>2 DEF Put
  <2> QED
    BY <2>1, <2>2
<1>4. ASSUME NEW k \in usage.keys, Remove(k) PROVE ChainsUnbroken'
  <2>1. CASE Finds(k) /\ k # Free
    <3>1. /\ cut' = (cut \/ Beyond(At(k)) # {})
          /\ slots' = [slots EXCEPT ![At(k)] = Empty]
      BY <1>4, <2>1 DEF Remove
    <3>2. ASSUME ~cut'
          PROVE  \A s \in Filled' : \E i \in Slots : Reaches(s, i)'
      BY <2>1, <3>1, <3>2, RemoveChains
    <3> QED
      BY <3>2 DEF ChainsUnbroken
  <2>2. CASE ~(Finds(k) /\ k # Free)
    BY <1>2, <1>4, <2>2 DEF Remove
  <2> QED
    BY <2>1, <2>2
<1> QED
  BY <1>1, <1>2, <1>3, <1>4 DEF ChainInv, Next, Contains, Get, vars

\* Whatever the capacity and the keys, -1 and those that collide included, a search reaches
\* every element until a removal has left a hole on the way to another (LigHT_findEntry).
THEOREM ChainsUnbrokenCorrect == Spec => []ChainsUnbroken
<1>1. ChainInv => ChainsUnbroken
  BY DEF ChainInv
<1> QED
  BY <1>1, InitInv, ChainStep, PTL DEF Spec

-----------------------------------------------------------------------------
(* Where no hole can be left.                                               *)

\* Descriptors below the capacity are in their home slots.
AtHome == Tame /\ usage.removes => \A s \in Filled : s = Home(slots[s].key)

LEMMA HomeOfSlot ==
  ASSUME NEW k \in Slots
  PROVE  Home(k) = k
<1>1. Capacity \in Nat /\ k \in Nat /\ k < Capacity
  BY LigHTAssumption DEF Slots
<1>2. k % Capacity = k
  BY <1>1
<1> QED
  BY <1>1, <1>2 DEF Home

\* There no search goes past the home slot of its key.
LEMMA SearchHome ==
  ASSUME TypeOK, AtHome, Tame, usage.removes, NEW k \in usage.keys, k # Free
  PROVE  HasRoom(k) /\ At(k) = Home(k)
<1>0. 0 \in Slots /\ k \in Slots
  BY LigHTAssumption DEF Slots, Tame
<1>1. k \in Int /\ Home(k) \in Slots /\ Home(k) = k
  BY <1>0, KeyType, HomeOfSlot
<1>2. Probe(k, 0) = Home(k)
  BY <1>1, LigHTAssumption DEF Probe, Slots
<1>3. slots[Home(k)].key \in {k, Free}
  <2>1. CASE Home(k) \in Filled
    <3>1. slots[Home(k)].key \in Slots
      BY <2>1, KeyType DEF Tame
    <3> QED
      BY <1>1, <2>1, <3>1, HomeOfSlot DEF AtHome
  <2> QED
    BY <2>1, <1>1 DEF Filled
<1>4. 0 \in Stops(k)
  BY <1>0, <1>2, <1>3 DEF Stops
<1>5. First(k) = 0
  BY <1>4, FirstStop, LigHTAssumption DEF Stops, Slots
<1> QED
  BY <1>2, <1>4, <1>5 DEF HasRoom, At

LEMMA HomeStep == TypeOK /\ AtHome /\ [Next]_vars => AtHome'
<1> SUFFICES ASSUME TypeOK, AtHome, [Next]_vars, Tame', usage'.removes
             PROVE  \A s \in Filled' : s = Home(slots'[s].key)
  BY DEF AtHome
<1>0. /\ usage' = usage /\ Tame /\ usage.removes
      /\ slots \in [Slots -> [key : usage.keys \cup {Free}, data : Data]]
  BY DEF TypeOK, Next, vars, Put, Contains, Get, Remove, Tame
<1>1. ASSUME slots' = slots
      PROVE  \A s \in Filled' : s = Home(slots'[s].key)
  BY <1>0, <1>1 DEF AtHome, Filled
<1>2. ASSUME NEW k \in usage.keys, NEW v \in Data, NEW replace \in BOOLEAN, Put(k, v, replace)
      PROVE  \A s \in Filled' : s = Home(slots'[s].key)
  <2>1. CASE ~Writes(k, replace)
    BY <1>1, <1>2, <2>1 DEF Put
  <2>2. CASE Writes(k, replace)
    <3>1. slots' = [slots EXCEPT ![At(k)] = [key |-> k, data |-> v]]
      BY <1>2, <2>2 DEF Put
    <3>2. k # Free => At(k) = Home(k)
      BY <1>0, SearchHome
    <3>3. ASSUME NEW s \in Filled'
          PROVE  s = Home(slots'[s].key)
      <4>1. s \in Slots /\ slots'[s].key # Free
        BY <3>3 DEF Filled
      <4>2. CASE s = At(k)
        BY <1>0, <3>1, <3>2, <4>1, <4>2
      <4>3. CASE s # At(k)
        BY <1>0, <3>1, <4>1, <4>3 DEF AtHome, Filled
      <4> QED
        BY <4>2, <4>3
    <3> QED
      BY <3>3
  <2> QED
    BY <2>1, <2>2
<1>3. ASSUME NEW k \in usage.keys, Remove(k)
      PROVE  \A s \in Filled' : s = Home(slots'[s].key)
  <2>1. slots' = slots \/ slots' = [slots EXCEPT ![At(k)] = Empty]
    BY <1>3 DEF Remove
  <2> QED
    BY <1>0, <2>1 DEF AtHome, Filled, Empty
<1> QED
  BY <1>1, <1>2, <1>3 DEF Next, Contains, Get, vars

\* The slot a removal empties there is on the way to no element: every element is reached
\* at once.
LEMMA NothingBeyond ==
  ASSUME TypeOK, AtHome, Tame, usage.removes, NEW p
  PROVE  Beyond(p) = {}
<1> SUFFICES ASSUME NEW s \in Filled, NEW i \in Slots, NEW j \in Slots, j < i, Reaches(s, i)
             PROVE  FALSE
  BY DEF Beyond
<1>1. 0 \in 0 .. i - 1
  BY LigHTAssumption DEF Slots
<1>2. slots[Probe(slots[s].key, 0)].key # slots[s].key
  BY <1>1 DEF Reaches
<1>3. s \in Slots /\ s = Home(slots[s].key)
  BY KeyType DEF AtHome
<1>4. Probe(slots[s].key, 0) = s
  BY <1>3, LigHTAssumption DEF Probe, Slots
<1> QED
  BY <1>2, <1>4

\* Descriptors from 0 up to the capacity, with or without -1, and called lines never leave
\* a hole on the way to an element, whatever the capacity.
THEOREM NeverCutCorrect == Spec => []NeverCut
<1>1. Init => AtHome /\ NeverCut
  BY DEF Init, AtHome, NeverCut, Filled, Empty
<1>2. TypeOK /\ AtHome /\ NeverCut /\ [Next]_vars => NeverCut'
  <2> SUFFICES ASSUME TypeOK, AtHome, NeverCut, [Next]_vars, Tame' PROVE ~cut'
    BY DEF NeverCut
  <2>1. usage' = usage /\ Tame /\ ~cut
    BY DEF Next, vars, Put, Contains, Get, Remove, Tame, NeverCut
  <2>2. ASSUME NEW k \in usage.keys, Remove(k) PROVE ~cut'
    <3>1. Beyond(At(k)) = {}
      BY <2>1, <2>2, NothingBeyond DEF Remove
    <3> QED
      BY <2>1, <2>2, <3>1 DEF Remove
  <2> QED
    BY <2>1, <2>2 DEF Next, vars, Put, Contains, Get
<1> QED
  BY <1>1, <1>2, InitInv, ChainStep, HomeStep, PTL DEF Spec, ChainInv

-----------------------------------------------------------------------------
(* The table keeps the map of SparseMap.                                    *)

\* As long as no hole has been left on the way to an element.
Whole == ChainInv /\ ~cut

\* No key is stored twice.
LEMMA KeysUnique ==
  ASSUME Whole, NEW s \in Filled, NEW t \in Filled, slots[s].key = slots[t].key
  PROVE  s = t
<1>1. PICK i \in Slots : Reaches(s, i)
  BY DEF Whole, ChainInv, ChainsUnbroken
<1>2. PICK j \in Slots : Reaches(t, j)
  BY DEF Whole, ChainInv, ChainsUnbroken
<1>3. ~(i < j) /\ ~(j < i)
  BY <1>1, <1>2, LigHTAssumption DEF Reaches, Slots
<1>4. i = j
  BY <1>3, LigHTAssumption DEF Slots
<1> QED
  BY <1>1, <1>2, <1>4 DEF Reaches

LEMMA HolderIs ==
  ASSUME Whole, NEW s \in Filled
  PROVE  slots[s].key \in Stored /\ Holder(slots[s].key) = s
<1> QED
  BY KeysUnique DEF Stored, Holder

\* A search finds exactly the keys that are stored.
LEMMA FindsStored ==
  ASSUME Whole, NEW k \in usage.keys, k # Free
  PROVE  /\ Finds(k) <=> k \in Stored
         /\ Finds(k) => At(k) \in Filled /\ Holder(k) = At(k)
         /\ HasRoom(k) => At(k) \in Slots
         /\ HasRoom(k) /\ ~Finds(k) => At(k) \notin Filled
<1>1. k \in Int /\ k # Free
  BY KeyType DEF Whole, ChainInv
<1>2. HasRoom(k) => At(k) \in Slots /\ slots[At(k)].key \in {k, Free}
  BY <1>1, SearchStops
<1>3. Finds(k) => At(k) \in Filled /\ k \in Stored /\ Holder(k) = At(k)
  BY <1>1, <1>2, HolderIs DEF Finds, Filled
<1>4. ASSUME k \in Stored PROVE Finds(k)
  <2>1. PICK s \in Filled : slots[s].key = k
    BY <1>4 DEF Stored
  <2>2. PICK i \in Slots : Reaches(s, i)
    BY DEF Whole, ChainInv, ChainsUnbroken
  <2>3. i \in Stops(k) /\ \A j \in Stops(k) : ~(j < i)
    BY <2>1, <2>2, LigHTAssumption DEF Reaches, Stops, Slots
  <2>4. First(k) = i
    <3>1. First(k) \in Stops(k) /\ First(k) <= i
      BY <2>3, FirstStop
    <3> QED
      BY <2>3, <3>1, LigHTAssumption DEF Stops, Slots
  <2> QED
    BY <2>1, <2>2, <2>3, <2>4 DEF Finds, HasRoom, At, Reaches
<1> QED
  BY <1>2, <1>3, <1>4 DEF Finds, Filled

LEMMA FilledFinite ==
  /\ IsFiniteSet(Slots) /\ Cardinality(Slots) = Capacity
  /\ IsFiniteSet(Filled) /\ Cardinality(Filled) \in Nat
<1>1. IsFiniteSet(Slots) /\ Cardinality(Slots) = Capacity
  BY LigHTAssumption, FS_Interval DEF Slots
<1> QED
  BY <1>1, FS_Subset, FS_CardinalityType DEF Filled

LEMMA Counts ==
  ASSUME Whole
  PROVE  Cardinality(Stored) = Cardinality(Filled)
<1> DEFINE f == [s \in Filled |-> slots[s].key]
<1>1. f \in Surjection(Filled, Stored) /\ f \in Injection(Filled, Stored)
  BY KeysUnique DEF Surjection, Injection, IsInjective, Stored
<1> HIDE DEF f
<1> QED
  BY <1>1, FilledFinite, FS_Surjection

\* A key that is not stored, and the key -1, have no room only when every slot is filled.
LEMMA RoomExact ==
  ASSUME Whole, NEW k \in usage.keys, k = Free \/ ~Finds(k)
  PROVE  HasRoom(k) <=> Cardinality(Stored) < Capacity
<1>1. ASSUME HasRoom(k) PROVE Cardinality(Filled) < Capacity
  <2>1. At(k) \in Slots /\ slots[At(k)].key = Free
    BY <1>1, KeyType, SearchStops DEF Finds, Whole, ChainInv
  <2>2. Filled \subseteq Slots /\ Filled # Slots
    BY <2>1 DEF Filled
  <2> QED
    BY <2>2, FilledFinite, FS_Subset, LigHTAssumption
<1>2. ASSUME ~HasRoom(k) PROVE Filled = Slots
  <2>1. ASSUME NEW s \in Slots PROVE s \in Filled
    <3>1. Home(k) \in Slots
      BY KeyType, ProbeType DEF Whole, ChainInv
    <3>2. \E i \in Slots : Probe(k, i) = s
      <4> DEFINE i == IF s >= Home(k) THEN s - Home(k) ELSE s + Capacity - Home(k)
      <4>1. i \in Slots /\ Probe(k, i) = s
        BY <3>1, LigHTAssumption DEF Slots, Probe
      <4> QED
        BY <4>1
    <3> QED
      BY <1>2, <3>2 DEF HasRoom, Stops, Filled
  <2> QED
    BY <2>1 DEF Filled
<1> QED
  BY <1>1, <1>2, Counts, FilledFinite, LigHTAssumption

\* Each element is in the map under its key.
LEMMA ContentsOf ==
  Whole => /\ DOMAIN Contents = Stored
              /\ \A s \in Filled : Contents[slots[s].key] = slots[s].data
<1> QED
  BY HolderIs DEF Contents

LEMMA ContentsNext ==
  ASSUME Whole'
  PROVE  /\ DOMAIN Contents' = Stored'
         /\ Contents' = [l \in Stored' |-> Contents'[l]]
         /\ \A s \in Filled' : Contents'[slots'[s].key] = slots'[s].data
<1>1. (/\ DOMAIN Contents = Stored
       /\ \A s \in Filled : Contents[slots[s].key] = slots[s].data)'
  BY ContentsOf, PTL
<1>2. Contents' = [l \in Stored' |-> Contents'[l]]
  BY DEF Contents
<1> QED
  BY <1>1, <1>2

LEMMA SameMap ==
  ASSUME Whole, Whole', slots' = slots
  PROVE  Contents' = Contents
<1>1. Filled' = Filled /\ Stored' = Stored
  BY DEF Filled, Stored
<1>2. ASSUME NEW l \in Stored PROVE Contents'[l] = Contents[l]
  <2>1. PICK s \in Filled : slots[s].key = l
    BY DEF Stored
  <2> QED
    BY <1>1, <2>1, ContentsOf, ContentsNext
<1>3. Contents = [l \in Stored |-> Contents[l]]
  BY DEF Contents
<1> QED
  BY <1>1, <1>2, <1>3, ContentsNext

LEMMA PutMaps ==
  ASSUME Whole, Whole', NEW k \in usage.keys, k # Free, NEW v \in Data, NEW replace \in BOOLEAN,
         Put(k, v, replace)
  PROVE  Map!Put(k, v, replace)
<1> DEFINE done == Writes(k, replace)
<1>1. Map!Fits(k, replace) = done
  <2>1. CASE Finds(k)
    BY <2>1, FindsStored, ContentsOf DEF Map!Fits, Finds, Writes
  <2>2. CASE ~Finds(k)
    <3>1. Map!Cardinality(Stored) = Cardinality(Stored)
      BY Zenon DEF Map!Cardinality, Cardinality
    <3>2. Map!Fits(k, replace) = (Map!Cardinality(Stored) < Capacity)
      BY <2>2, FindsStored, ContentsOf DEF Map!Fits
    <3>3. done = HasRoom(k)
      BY <2>2 DEF HasRoom, Writes
    <3>4. HasRoom(k) = (Cardinality(Stored) < Capacity)
      BY <2>2, RoomExact, Counts, FilledFinite, LigHTAssumption DEF HasRoom
    <3> QED
      BY <3>1, <3>2, <3>3, <3>4
  <2> QED
    BY <2>1, <2>2
<1>2. ASSUME ~done PROVE Contents' = Contents
  BY <1>2, SameMap DEF Put
<1>3. ASSUME done
      PROVE  Contents' = [l \in Stored \cup {k} |-> IF l = k THEN v ELSE Contents[l]]
  <2> PICK p \in Slots : p = At(k)
    BY <1>3, FindsStored DEF Writes
  <2>0. k # Free /\ slots \in [Slots -> [key : usage.keys \cup {Free}, data : Data]]
    BY KeyType DEF Whole, ChainInv
  <2>1. slots' = [slots EXCEPT ![p] = [key |-> k, data |-> v]]
    BY <1>3 DEF Put
  <2>2. Filled' = Filled \cup {p}
    BY <2>0, <2>1 DEF Filled
  <2>3. slots'[p].key = k /\ slots'[p].data = v
        /\ \A s \in Filled : s # p => slots'[s] = slots[s]
    BY <2>0, <2>1 DEF Filled
  <2>4. p \in Filled => slots[p].key = k
    BY <1>3, FindsStored DEF Finds, Writes
  <2>5. Stored' = Stored \cup {k}
    BY <2>2, <2>3, <2>4 DEF Stored
  <2>6. DOMAIN Contents' = Stored' /\ \A s \in Filled' : Contents'[slots'[s].key] = slots'[s].data
    BY ContentsNext
  <2>7. ASSUME NEW l \in Stored, l # k PROVE Contents'[l] = Contents[l]
    <3>1. PICK s \in Filled : slots[s].key = l
      BY DEF Stored
    <3>2. s # p /\ slots'[s] = slots[s] /\ s \in Filled'
      BY <3>1, <2>2, <2>3, <2>4, <2>7
    <3> QED
      BY <3>1, <3>2, <2>6, ContentsOf
  <2>8. Contents'[k] = v
    BY <2>2, <2>3, <2>6
  <2> QED
    BY <2>5, <2>7, <2>8, ContentsNext
<1>4. last' = <<"put", k, v, done>>
  BY <1>1 DEF Put
<1>5. Contents' = IF done THEN [l \in Stored \cup {k} |-> IF l = k THEN v ELSE Contents[l]]
                  ELSE Contents
  BY <1>2, <1>3
<1> QED
  BY <1>1, <1>4, <1>5, ContentsOf DEF Map!Put

LEMMA RemoveMaps ==
  ASSUME Whole, Whole', NEW k \in usage.keys, k # Free, Remove(k)
  PROVE  Map!Remove(k)
<1>0. k # Free /\ slots \in [Slots -> [key : usage.keys \cup {Free}, data : Data]]
  BY KeyType DEF Whole, ChainInv
<1>1. last' = <<"remove", k, k \in DOMAIN Contents>>
  <2>1. Finds(k) = (k \in DOMAIN Contents)
    BY FindsStored, ContentsOf DEF Finds
  <2> QED
    BY <2>1 DEF Remove
<1>2. Contents' = [l \in Stored \ {k} |-> Contents[l]]
  <2>1. CASE ~Finds(k)
    <3>1. Contents' = Contents /\ k \notin Stored
      BY <2>1, SameMap, FindsStored DEF Remove
    <3>2. Contents = [l \in Stored |-> Contents[l]]
      BY DEF Contents
    <3> QED
      BY <3>1, <3>2
  <2>2. CASE Finds(k)
    <3> PICK p \in Slots : p = At(k)
      BY <2>2, FindsStored DEF Filled
    <3>1. p \in Filled /\ slots[p].key = k /\ slots' = [slots EXCEPT ![p] = Empty]
      BY <2>2, FindsStored DEF Finds, Remove
    <3>2. Filled' = Filled \ {p} /\ \A s \in Filled' : slots'[s] = slots[s]
      BY <1>0, <3>1 DEF Filled, Empty
    <3>3. \A s \in Filled : s # p => slots[s].key # k
      BY <3>1, KeysUnique
    <3>4. Stored' = Stored \ {k}
      BY <3>1, <3>2, <3>3 DEF Stored
    <3>5. ASSUME NEW l \in Stored' PROVE Contents'[l] = Contents[l]
      <4>1. PICK s \in Filled' : slots'[s].key = l
        BY DEF Stored
      <4> QED
        BY <3>2, <4>1, ContentsOf, ContentsNext
    <3> QED
      BY <3>4, <3>5, ContentsNext
  <2> QED
    BY <2>1, <2>2
<1> QED
  BY <1>1, <1>2, ContentsOf DEF Map!Remove

\* The operations under the key -1 leave the map alone.
LEMMA NoKeyMaps ==
  ASSUME Whole, Whole', Free \in usage.keys,
         \/ \E v \in Data, replace \in BOOLEAN : Put(Free, v, replace)
         \/ Contains(Free) \/ Get(Free) \/ Remove(Free)
  PROVE  Map!UnderNoKey
<1>0. slots \in [Slots -> [key : usage.keys \cup {Free}, data : Data]]
  BY KeyType DEF Whole, ChainInv
<1>f. Free \in Int
  BY DEF Free
<1>1. /\ HasRoom(Free) => At(Free) \in Slots /\ slots[At(Free)].key = Free
      /\ Finds(Free) = HasRoom(Free)
  <2>1. ASSUME HasRoom(Free) PROVE At(Free) \in Slots /\ slots[At(Free)].key = Free
    BY <1>f, <2>1, SearchStops
  <2>2. HasRoom(Free) \in BOOLEAN
    BY DEF HasRoom
  <2> QED
    BY <2>1, <2>2 DEF Finds
<1>2. HasRoom(Free) = Map!HasRoom
  <2>1. Map!Cardinality(Stored) = Cardinality(Stored)
    BY Zenon DEF Map!Cardinality, Cardinality
  <2>2. Map!HasRoom = (Map!Cardinality(Stored) < Capacity)
    BY ContentsOf DEF Map!HasRoom
  <2>3. HasRoom(Free) = (Cardinality(Stored) < Capacity)
    BY RoomExact, Counts, FilledFinite, LigHTAssumption DEF HasRoom
  <2> QED
    BY <2>1, <2>2, <2>3
<1>3. ASSUME NEW v \in Data, NEW replace \in BOOLEAN, Put(Free, v, replace)
      PROVE  Contents' = Contents
  <2>1. CASE ~Writes(Free, replace)
    BY <1>3, <2>1, SameMap DEF Put
  <2>2. CASE Writes(Free, replace)
    <3> PICK p \in Slots : p = At(Free) /\ slots[p].key = Free
      BY <1>1, <2>2 DEF Writes
    <3>1. slots' = [slots EXCEPT ![p] = [key |-> Free, data |-> v]]
      BY <1>3, <2>2 DEF Put
    <3>2. Filled' = Filled /\ \A s \in Filled : slots'[s] = slots[s]
      BY <1>0, <3>1 DEF Filled
    <3>3. Stored' = Stored
      BY <3>2 DEF Stored
    <3>4. ASSUME NEW l \in Stored PROVE Contents'[l] = Contents[l]
      <4>1. PICK s \in Filled : slots[s].key = l
        BY DEF Stored
      <4> QED
        BY <3>2, <4>1, ContentsOf, ContentsNext
    <3>5. Contents = [l \in Stored |-> Contents[l]]
      BY DEF Contents
    <3> QED
      BY <3>3, <3>4, <3>5, ContentsNext
  <2> QED
    BY <2>1, <2>2
<1>4. ASSUME NEW v \in Data, NEW replace \in BOOLEAN, Put(Free, v, replace)
      PROVE  Map!UnderNoKey
  <2>1. Writes(Free, replace) = (replace /\ Map!HasRoom)
    BY <1>1, <1>2 DEF Writes, HasRoom
  <2>2. last' = <<"put", Free, v, replace /\ Map!HasRoom>>
    BY <1>4, <2>1 DEF Put
  <2> QED
    BY <1>3, <1>4, <2>2 DEF Map!UnderNoKey
<1>5. ASSUME Contains(Free) \/ Remove(Free)
      PROVE  Map!UnderNoKey
  <2>1. Contents' = Contents
    BY <1>5, SameMap DEF Contains, Remove
  <2>2. Finds(Free) = Map!HasRoom
    BY <1>1, <1>2
  <2>3. last' = <<"contains", Free, Map!HasRoom>> \/ last' = <<"remove", Free, Map!HasRoom>>
    BY <1>5, <2>2 DEF Contains, Remove
  <2> QED
    BY <2>1, <2>3 DEF Map!UnderNoKey
<1>6. ASSUME Get(Free)
      PROVE  Map!UnderNoKey
  <2>1. Contents' = Contents
    BY <1>6, SameMap DEF Get
  <2>2. PICK v \in Data : v = IF Finds(Free) THEN slots[At(Free)].data ELSE None
    BY <1>0, <1>1, LigHTAssumption
  <2>3. last' = <<"get", Free, v>>
    BY <1>6, <2>2 DEF Get
  <2> QED
    BY <2>1, <2>3 DEF Map!UnderNoKey
<1> QED
  BY <1>4, <1>5, <1>6

LEMMA MapStep ==
  ChainInv /\ ChainInv' /\ [Next]_vars => [~cut' => Map!Next]_<<Contents, last>>
<1> SUFFICES ASSUME ChainInv, ChainInv', [Next]_vars, ~cut'
             PROVE  [Map!Next]_<<Contents, last>>
  OBVIOUS
<1>0. usage.keys \subseteq AllKeys /\ cut \in BOOLEAN
  BY DEF ChainInv, TypeOK, AllKeys
<1>w. Whole /\ Whole'
  <2>1. cut => cut'
    BY <1>0 DEF Next, vars, Put, Contains, Get, Remove
  <2> QED
    BY <2>1 DEF Whole
<1>1. ASSUME NEW k \in usage.keys, k = Free,
             \/ \E v \in Data, replace \in BOOLEAN : Put(k, v, replace)
             \/ Contains(k) \/ Get(k) \/ Remove(k)
      PROVE  Map!Next
  BY <1>w, <1>1, NoKeyMaps DEF Map!Next
<1>2. ASSUME NEW k \in usage.keys, k # Free, NEW v \in Data, NEW replace \in BOOLEAN,
             Put(k, v, replace)
      PROVE  Map!Next
  BY <1>0, <1>w, <1>2, PutMaps DEF Map!Next
<1>3. ASSUME NEW k \in usage.keys, k # Free, Contains(k) PROVE Map!Next
  <2>1. Finds(k) = (k \in DOMAIN Contents) /\ Contents' = Contents
    BY <1>w, <1>3, FindsStored, ContentsOf, SameMap DEF Finds, Contains
  <2>2. Map!Contains(k)
    BY <1>3, <2>1 DEF Contains, Map!Contains
  <2> QED
    BY <1>0, <1>3, <2>2 DEF Map!Next
<1>4. ASSUME NEW k \in usage.keys, k # Free, Get(k) PROVE Map!Next
  <2>1. (Finds(k) <=> k \in DOMAIN Contents) /\ Contents' = Contents
    BY <1>w, <1>4, FindsStored, ContentsOf, SameMap DEF Get
  <2>2. Finds(k) => Contents[k] = slots[At(k)].data
    BY <1>w, <1>4, FindsStored DEF Contents
  <2>3. Map!Get(k)
    BY <1>4, <2>1, <2>2 DEF Get, Map!Get
  <2> QED
    BY <1>0, <1>4, <2>3 DEF Map!Next
<1>5. ASSUME NEW k \in usage.keys, k # Free, Remove(k) PROVE Map!Next
  BY <1>0, <1>w, <1>5, RemoveMaps DEF Map!Next
<1>6. ASSUME UNCHANGED vars PROVE UNCHANGED <<Contents, last>>
  BY <1>w, <1>6, SameMap DEF vars
<1> QED
  BY <1>1, <1>2, <1>3, <1>4, <1>5, <1>6 DEF Next

\* Until a removal leaves a hole on the way to another element, a table answers every put,
\* contains, get and remove as a map would, whatever its capacity and its keys: those that
\* collide are told apart, and the operations under -1 leave the map alone.
THEOREM KeepsMapCorrect == Spec => KeepsMap
<1>1. Init => Map!Init
  <2>1. ASSUME Init PROVE Contents = [k \in {} |-> None]
    BY <2>1 DEF Init, Contents, Stored, Filled, Empty
  <2> QED
    BY <2>1 DEF Init, Map!Init
<1> QED
  BY <1>1, InitInv, ChainStep, MapStep, PTL DEF Spec, KeepsMap

\* length, which LigHT_clear goes by, is the number of elements and one more for each put
\* under -1, whatever the keys and whatever was removed.
THEOREM LengthExactCorrect == Spec => []LengthExact
<1>1. Init => LengthExact
  <2>1. ASSUME Init PROVE Filled = {} /\ length = 0 /\ strays = 0
    BY <2>1 DEF Init, Filled, Empty
  <2> QED
    BY <2>1, FS_EmptySet DEF LengthExact
<1>2. TypeOK /\ LengthExact /\ [Next]_vars => LengthExact'
  <2> SUFFICES ASSUME TypeOK, LengthExact, [Next]_vars PROVE LengthExact'
    OBVIOUS
  <2>0. strays \in Nat /\ length = Cardinality(Filled) + strays
        /\ slots \in [Slots -> [key : usage.keys \cup {Free}, data : Data]]
    BY DEF TypeOK, LengthExact
  <2>1. ASSUME slots' = slots, length' = length, strays' = strays PROVE LengthExact'
    BY <2>1 DEF LengthExact, Filled
  <2>2. ASSUME NEW k \in usage.keys, NEW v \in Data, NEW replace \in BOOLEAN,
               Put(k, v, replace)
        PROVE  LengthExact'
    <3>1. CASE ~Writes(k, replace)
      BY <2>1, <2>2, <3>1 DEF Put
    <3>2. CASE Writes(k, replace)
      <4>1. k \in Int /\ HasRoom(k)
        BY <3>2, KeyType DEF Writes
      <4> PICK p \in Slots : p = At(k) /\ slots[p].key \in {k, Free}
        BY <4>1, SearchStops
      <4>2. /\ slots' = [slots EXCEPT ![p] = [key |-> k, data |-> v]]
            /\ length' = IF p \notin Filled THEN length + 1 ELSE length
            /\ strays' = IF k = Free THEN strays + 1 ELSE strays
        BY <2>2, <3>2 DEF Put, Grows, Filled
      <4>3. CASE k = Free
        <5>1. Filled' = Filled /\ p \notin Filled
          BY <2>0, <4>2, <4>3 DEF Filled
        <5> QED
          BY <2>0, <4>2, <4>3, <5>1, FilledFinite DEF LengthExact
      <4>4. CASE k # Free
        <5>1. Filled' = Filled \cup {p}
          BY <2>0, <4>2, <4>4 DEF Filled
        <5>2. Cardinality(Filled') = IF p \in Filled THEN Cardinality(Filled)
                                     ELSE Cardinality(Filled) + 1
          BY <5>1, FilledFinite, FS_AddElement
        <5>3. strays' = strays
          BY <4>2, <4>4
        <5> QED
          BY <2>0, <4>2, <5>2, <5>3, FilledFinite DEF LengthExact
      <4> QED
        BY <4>3, <4>4
    <3> QED
      BY <3>1, <3>2
  <2>3. ASSUME NEW k \in usage.keys, Remove(k)
        PROVE  LengthExact'
    <3>1. CASE ~(Finds(k) /\ k # Free)
      BY <2>1, <2>3, <3>1 DEF Remove
    <3>2. CASE Finds(k) /\ k # Free
      <4> PICK p \in Slots : p = At(k) /\ p \in Filled
        BY <3>2, KeyType, SearchStops DEF Finds, Filled
      <4>1. /\ slots' = [slots EXCEPT ![p] = Empty]
            /\ length' = length - 1 /\ strays' = strays
        BY <2>3, <3>2 DEF Remove
      <4>2. Filled' = Filled \ {p}
        BY <2>0, <4>1 DEF Filled, Empty
      <4>3. Cardinality(Filled') = Cardinality(Filled) - 1
        BY <4>2, FilledFinite, FS_RemoveElement
      <4> QED
        BY <2>0, <4>1, <4>3, FilledFinite DEF LengthExact
    <3> QED
      BY <3>1, <3>2
  <2> QED
    BY <2>1, <2>2, <2>3 DEF Next, Contains, Get, vars
<1> QED
  BY <1>1, <1>2, InitInv, ChainStep, PTL DEF Spec, ChainInv
=============================================================================
