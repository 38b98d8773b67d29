----------------------------- MODULE CallProofs -----------------------------
(* What is proved of Call, whatever the functions, the vectors, the arguments *)
(* of the tasks and their number: buffers, answers and aborts.               *)
EXTENDS Call, SequenceTheorems, FiniteSetTheorems, WellFoundedInduction, TLAPS

Record ==
  [buf : {"null", "orig", "own"}, room : Nat, len : Nat, origLen : Nat, aborted : BOOLEAN,
   done : BOOLEAN, err : {"stale", "system", "rule"}, result : Int]

\* Every length in the record is within the memory it is about.
Sound(s) ==
  /\ s \in Record
  /\ s.origLen <= Requested
  /\ s.buf = "orig" => s.len <= Requested
  /\ s.buf = "own" => s.len <= s.room

\* The memory of the record, and the length of its own copy, or -1 when it has none.
Room(s) == IF s.buf = "own" THEN s.room ELSE Requested
Cap(s)  == IF s.buf = "own" THEN s.room ELSE -1

\* System calls that stay within a copy of so many bytes and within the program's buffers.
Inside(cap) ==
  {k \in [sys : Range(Primitives), mem : {"orig", "own"}, from : Nat, asked : Nat, got : Int] :
     k.from + k.asked <= IF k.mem = "own" THEN cap ELSE Requested}

\* The record in the walk: which buffer it works on, and what its answer is worth.
Fine(s, n, c) ==
  /\ Sound(s) /\ s.room <= Requested
  /\ direction = "Writing" => s.buf # "orig"
  /\ direction = "Reading" => s.buf = "orig"
  /\ s.result = -1 => s.done \/ s.aborted
  /\ s.result = -1 /\ c # "cancel" => s.err # "stale"
  /\ direction = "Reading" /\ c # "drop" => s.result <= n

CallInv ==
  /\ ~emptied
  /\ function \in DOMAIN Directions /\ vector \in Vectors
  /\ pc \in {"ready", "walk", "end", "returned"}
  /\ filled \in Nat
  /\ Sound(state)
  /\ kernel \in Seq(Inside(Cap(state)))
  /\ pc = "ready" => state = Idle /\ kernel = <<>> /\ claim = "none"
  /\ pc \in {"walk", "end"} => Fine(state, filled, claim)
  /\ pc = "returned" =>
       /\ state.result = -1 /\ claim # "cancel" => state.err # "stale"
       /\ direction = "Reading" /\ claim # "drop" => state.result <= filled

\* A call that a split of no byte has made: nothing is said of the lengths any more, but the
\* call is done and its answer is worth what the system calls of the split were.
Made == [sys : Range(Primitives), mem : {"orig", "own"}, from : Nat, asked : Nat, got : Int]

Spoilt ==
  /\ emptied /\ state.done
  /\ function \in DOMAIN Directions /\ vector \in Vectors
  /\ pc \in {"walk", "end", "returned"}
  /\ filled \in Nat
  /\ state \in Record
  /\ kernel \in Seq(Made)
  /\ direction = "Writing" => state.buf # "orig"
  /\ direction = "Reading" => state.buf = "orig"
  /\ state.result = -1 /\ claim # "cancel" => state.err # "stale"
  /\ direction = "Reading" /\ claim # "drop" => state.result <= filled

Inv == CallInv \/ Spoilt

-----------------------------------------------------------------------------
\* The greatest of two numbers is one of them, and no less than either.
LEMMA MaxTwo ==
  ASSUME NEW a \in Int, NEW b \in Int
  PROVE  /\ Max({a, b}) \in {a, b} /\ Max({a, b}) >= a /\ Max({a, b}) >= b
<1>1. CASE a >= b
  <2>1. \A y \in {a, b} : a >= y
    BY <1>1
  <2> QED
    BY <2>1 DEF Max
<1>2. CASE b >= a
  <2>1. \A y \in {a, b} : b >= y
    BY <1>2
  <2> QED
    BY <2>1 DEF Max
<1> QED
  BY <1>1, <1>2

\* A result of -1 counts for no byte.
LEMMA MaxZero ==
  ASSUME NEW a \in Int
  PROVE  Max({a, 0}) \in Nat
<1>1. 0 \in Int
  OBVIOUS
<1>2. Max({a, 0}) \in {a, 0} /\ Max({a, 0}) >= 0
  BY <1>1, MaxTwo
<1> QED
  BY <1>2

\* The least of two numbers is one of them, and no more than either.
LEMMA MinTwo ==
  ASSUME NEW a \in Int, NEW b \in Int
  PROVE  /\ Min({a, b}) \in {a, b} /\ Min({a, b}) <= a /\ Min({a, b}) <= b
<1>1. CASE a <= b
  <2>1. \A y \in {a, b} : a <= y
    BY <1>1
  <2> QED
    BY <2>1 DEF Min
<1>2. CASE b <= a
  <2>1. \A y \in {a, b} : b <= y
    BY <1>2
  <2> QED
    BY <2>1 DEF Min
<1> QED
  BY <1>1, <1>2

-----------------------------------------------------------------------------
(* Sums.  SumFunction is a fold over a finite set: what it computes is the   *)
(* function that its recursion defines, and proofs about it take a least     *)
(* counterexample.                                                           *)

\* The element that the fold takes first, and the recursion over the subsets of T.
Chosen(s) == CHOOSE x \in s : TRUE
Sums(f, T, g) ==
  g = [s \in SUBSET T |-> IF s = {} THEN 0 ELSE f[Chosen(s)] + g[s \ {Chosen(s)}]]
SumOver(f, T, s) == (CHOOSE g : Sums(f, T, g))[s]

\* Sums do not depend on the function that the recursion computes, nor on the rest of its domain.
LEMMA SumIs == ASSUME NEW f PROVE SumFunction(f) = SumOver(f, DOMAIN f, DOMAIN f)
  BY DEF SumFunction, SumFunctionOnSet, FoldFunctionOnSet, MapThenFoldSet, SumOver, Sums, Chosen

\* Of the subsets of a finite set that have a property, one has no smaller one.
LEMMA LeastSubset ==
  ASSUME NEW T, IsFiniteSet(T), NEW B, B \subseteq SUBSET T, B # {}
  PROVE  \E s \in B : \A r \in SUBSET s : r \in B => r = s
<1>1. IsWellFoundedOn(StrictSubsetOrdering(T), SUBSET T)
  BY FS_StrictSubsetOrderingWellFounded, FS_FiniteSubsetsOfFinite
<1>2. PICK s \in B : \A r \in B : ~(<<r, s>> \in StrictSubsetOrdering(T))
  BY <1>1, WFMin
<1>3. ASSUME NEW r \in SUBSET s, r \in B PROVE r = s
  <2>1. r \in SUBSET T /\ s \in SUBSET T /\ ~(<<r, s>> \in StrictSubsetOrdering(T))
    BY <1>2, <1>3
  <2> QED  BY <2>1 DEF StrictSubsetOrdering
<1> QED  BY <1>3

\* The element taken first is one of them.
LEMMA ChosenIn ==
  ASSUME NEW s, s # {}
  PROVE  Chosen(s) \in s /\ s \ {Chosen(s)} \in SUBSET s /\ s \ {Chosen(s)} # s
<1>1. Chosen(s) \in s
  BY DEF Chosen
<1> QED  BY <1>1

\* Two functions that agree on a set have the same sum over it, whatever the recursions are for.
LEMMA SumsAgree ==
  ASSUME NEW T, NEW U, NEW f, NEW h, NEW g, NEW k, Sums(f, T, g), Sums(h, U, k),
         NEW S, IsFiniteSet(S), S \subseteq T, S \subseteq U, \A x \in S : f[x] = h[x]
  PROVE  g[S] = k[S]
<1> DEFINE B == {s \in SUBSET S : g[s] # k[s]}
<1>1. SUFFICES ASSUME B # {} PROVE FALSE
  OBVIOUS
<1>2. PICK s \in B : \A r \in SUBSET s : r \in B => r = s
  <2>1. B \subseteq SUBSET S
    OBVIOUS
  <2> HIDE DEF B
  <2> QED  BY <1>1, <2>1, LeastSubset
<1>3. /\ g[s] = IF s = {} THEN 0 ELSE f[Chosen(s)] + g[s \ {Chosen(s)}]
      /\ k[s] = IF s = {} THEN 0 ELSE h[Chosen(s)] + k[s \ {Chosen(s)}]
  <2>1. s \in SUBSET T /\ s \in SUBSET U
    OBVIOUS
  <2> QED  BY <2>1, Zenon DEF Sums
<1>4. s # {} /\ s \in SUBSET S /\ g[s] # k[s]
  BY <1>3
<1>5. Chosen(s) \in s /\ s \ {Chosen(s)} \in SUBSET s /\ s \ {Chosen(s)} # s
  BY <1>4, ChosenIn
<1>6. s \ {Chosen(s)} \notin B
  BY <1>2, <1>5
<1>7. g[s \ {Chosen(s)}] = k[s \ {Chosen(s)}]
  BY <1>4, <1>5, <1>6
<1>8. f[Chosen(s)] = h[Chosen(s)]
  BY <1>4, <1>5
<1> QED  BY <1>3, <1>4, <1>7, <1>8

\* The recursion defines a function, with the values that addition keeps.
LEMMA SumsExist ==
  ASSUME NEW R, 0 \in R, \A a, b \in R : a + b \in R,
         NEW T, IsFiniteSet(T), NEW f, \A x \in T : f[x] \in R
  PROVE  \E g \in [SUBSET T -> R] : Sums(f, T, g)
<1> DEFINE Good(s, g) == g \in [SUBSET s -> R] /\ Sums(f, s, g)
           B == {s \in SUBSET T : ~\E g : Good(s, g)}
<1>1. SUFFICES ASSUME B # {} PROVE FALSE
  OBVIOUS
<1>2. PICK t \in B : \A r \in SUBSET t : r \in B => r = t
  <2>1. B \subseteq SUBSET T
    OBVIOUS
  <2> HIDE DEF B
  <2> QED  BY <1>1, <2>1, LeastSubset
<1> DEFINE G(s) == CHOOSE g : Good(s, g)
<1>3. ASSUME NEW s \in SUBSET t, s # t
      PROVE  Good(s, G(s))
  <2>1. s \in SUBSET T /\ s \notin B
    BY <1>2, <1>3
  <2>2. \E g : Good(s, g)
    BY <2>1
  <2> HIDE DEF Good
  <2> QED  BY <2>2
<1>4. ASSUME NEW s \in SUBSET t, s # t
      PROVE  /\ G(s)[s] \in R
             /\ G(s)[s] = IF s = {} THEN 0
                          ELSE f[Chosen(s)] + G(s \ {Chosen(s)})[s \ {Chosen(s)}]
  <2> DEFINE r == s \ {Chosen(s)}
  <2>1. G(s) \in [SUBSET s -> R] /\ Sums(f, s, G(s))
    BY <1>3, <1>4
  <2> HIDE DEF G
  <2>2. G(s)[s] \in R /\ G(s)[s] = IF s = {} THEN 0 ELSE f[Chosen(s)] + G(s)[r]
    <3>1. s \in SUBSET s
      OBVIOUS
    <3> QED  BY <2>1, <3>1 DEF Sums
  <2>3. ASSUME s # {} PROVE G(s)[r] = G(r)[r]
    <3>1. r \in SUBSET t /\ r # t /\ r \subseteq s
      BY <1>4
    <3>2. Sums(f, r, G(r))
      BY <1>3, <3>1
    <3>3. IsFiniteSet(r)
      <4>1. r \subseteq T
        BY <3>1
      <4> QED  BY <4>1, FS_Subset
    <3> HIDE DEF r
    <3> QED  BY <2>1, <3>1, <3>2, <3>3, SumsAgree
  <2> QED  BY <2>2, <2>3
<1> HIDE DEF G
<1> DEFINE H == [s \in SUBSET t |->
                   IF s = {} THEN 0 ELSE f[Chosen(s)] + G(s \ {Chosen(s)})[s \ {Chosen(s)}]]
<1>5. ASSUME NEW s \in SUBSET t, s # {}
      PROVE  /\ Chosen(s) \in s /\ s \ {Chosen(s)} \in SUBSET t /\ s \ {Chosen(s)} # t
             /\ H[s \ {Chosen(s)}] = G(s \ {Chosen(s)})[s \ {Chosen(s)}]
             /\ H[s] \in R
  <2> DEFINE r == s \ {Chosen(s)}
  <2>1. Chosen(s) \in s /\ r \in SUBSET s /\ r # s
    BY <1>5, ChosenIn
  <2>2. r \in SUBSET t /\ r # t /\ f[Chosen(s)] \in R
    BY <2>1
  <2>3. G(r)[r] \in R
    BY <1>4, <2>2
  <2>4. H[r] = G(r)[r]
    <3> HIDE DEF r
    <3> QED  BY <1>4, <2>2
  <2>5. H[s] = f[Chosen(s)] + G(r)[r]
    BY <1>5
  <2> QED  BY <2>1, <2>2, <2>3, <2>4, <2>5
<1>6. H \in [SUBSET t -> R]
  <2>1. \A s \in SUBSET t : H[s] \in R
    <3>1. H[{}] \in R
      OBVIOUS
    <3> HIDE DEF H
    <3> QED  BY <1>5, <3>1
  <2>2. DOMAIN H = SUBSET t /\ H = [s \in SUBSET t |-> H[s]]
    OBVIOUS
  <2> HIDE DEF H
  <2> QED  BY <2>1, <2>2
<1>7. Sums(f, t, H)
  <2>1. ASSUME NEW s \in SUBSET t
        PROVE  H[s] = IF s = {} THEN 0 ELSE f[Chosen(s)] + H[s \ {Chosen(s)}]
    <3>1. H[s] = IF s = {} THEN 0 ELSE f[Chosen(s)] + G(s \ {Chosen(s)})[s \ {Chosen(s)}]
      OBVIOUS
    <3> HIDE DEF H
    <3> QED  BY <1>5, <3>1
  <2>2. H = [s \in SUBSET t |-> H[s]]
    OBVIOUS
  <2> HIDE DEF H
  <2> QED  BY <2>1, <2>2 DEF Sums
<1> HIDE DEF H
<1> QED  BY <1>2, <1>6, <1>7

\* A sum of integers over the finite set T.
Summed(f, T, g) ==
  IsFiniteSet(T) /\ (\A x \in T : f[x] \in Int) /\ g \in [SUBSET T -> Int] /\ Sums(f, T, g)

\* The sum over a finite set is that of any element and of the others.
LEMMA SumsTake ==
  ASSUME NEW T, NEW f, NEW g, Summed(f, T, g)
  PROVE  \A y \in T : g[T] = f[y] + g[T \ {y}]
<1>0. /\ IsFiniteSet(T) /\ (\A x \in T : f[x] \in Int)
      /\ g \in [SUBSET T -> Int] /\ Sums(f, T, g)
  BY DEF Summed
<1> DEFINE B == {s \in SUBSET T : \E x \in s : g[s] # f[x] + g[s \ {x}]}
<1>1. SUFFICES ASSUME B # {} PROVE FALSE
  <2>1. T \in SUBSET T
    OBVIOUS
  <2> QED  BY <2>1
<1>2. PICK s \in B : \A r \in SUBSET s : r \in B => r = s
  <2>1. B \subseteq SUBSET T
    OBVIOUS
  <2> HIDE DEF B
  <2> QED  BY <1>0, <1>1, <2>1, LeastSubset
<1>3. PICK x \in s : g[s] # f[x] + g[s \ {x}]
  OBVIOUS
<1> DEFINE c == Chosen(s)
           sx == s \ {x}
           sc == s \ {c}
           sxc == s \ {x, c}
<1>4. s # {} /\ s \in SUBSET T
  BY <1>3
<1>5. c \in s /\ sc # s
  BY <1>4, ChosenIn
<1>6. \A r \in SUBSET T : r # {} => g[r] = f[Chosen(r)] + g[r \ {Chosen(r)}]
  BY <1>0, Zenon DEF Sums
<1>7. g[s] = f[c] + g[sc]
  BY <1>4, <1>6
<1>8. c # x
  BY <1>3, <1>7
<1>9. sx \notin B /\ sc \notin B
  <2>1. sx \in SUBSET s /\ sx # s /\ sc \in SUBSET s
    OBVIOUS
  <2> HIDE DEF B, sx, sc
  <2> QED  BY <1>2, <1>5, <2>1
<1>10. g[sx] = f[c] + g[sxc] /\ g[sc] = f[x] + g[sxc]
  <2>1. sx \ {c} = sxc /\ sc \ {x} = sxc /\ c \in sx /\ x \in sc
    BY <1>5, <1>8
  <2>2. sx \in SUBSET T /\ sc \in SUBSET T
    BY <1>4
  <2> HIDE DEF c
  <2>3. g[sx] = f[c] + g[sx \ {c}]
    BY <1>9, <2>1, <2>2
  <2>4. g[sc] = f[x] + g[sc \ {x}]
    BY <1>9, <2>1, <2>2
  <2> QED  BY <2>1, <2>3, <2>4
<1>11. f[c] \in Int /\ f[x] \in Int /\ g[sxc] \in Int
  <2>1. sxc \in SUBSET T /\ c \in T /\ x \in T
    BY <1>4, <1>5
  <2> QED  BY <1>0, <2>1
<1> HIDE DEF c, sx, sc, sxc
<1>12. g[s] = f[x] + g[sx]
  BY <1>7, <1>10, <1>11
<1> QED  BY <1>3, <1>12 DEF sx

\* The sum of the first n elements.
Total(v, n) == SumFunction([j \in 1 .. n |-> v[j]])

\* A function that the recursion defines, for the first n elements.
LEMMA TotalSums ==
  ASSUME NEW R, 0 \in R, \A a, b \in R : a + b \in R,
         NEW v, NEW n \in Nat, \A j \in 1 .. n : v[j] \in R
  PROVE  \E g \in [SUBSET (1 .. n) -> R] :
           Sums([j \in 1 .. n |-> v[j]], 1 .. n, g) /\ Total(v, n) = g[1 .. n]
<1> DEFINE T == 1 .. n
           f == [j \in T |-> v[j]]
<1>1. IsFiniteSet(T)
  <2>1. 1 \in Int /\ n \in Int
    OBVIOUS
  <2> QED  BY <2>1, FS_Interval
<1>2. Total(v, n) = SumOver(f, T, T)
  <2>1. DOMAIN f = T
    OBVIOUS
  <2>2. Total(v, n) = SumFunction(f)
    BY DEF Total
  <2> HIDE DEF f, T
  <2> QED  BY <2>1, <2>2, SumIs
<1>3. \A x \in T : f[x] \in R
  OBVIOUS
<1>4. PICK g \in [SUBSET T -> R] : Sums(f, T, g)
  <2> HIDE DEF f, T
  <2> QED  BY <1>1, <1>3, SumsExist
<1>5. SumOver(f, T, T) = g[T]
  <2> HIDE DEF f, T
  <2> DEFINE k == CHOOSE k : Sums(f, T, k)
  <2>1. Sums(f, T, k)
    BY <1>4, Zenon
  <2> HIDE DEF k
  <2>2. k[T] = g[T]
    BY <1>1, <1>4, <2>1, SumsAgree
  <2> QED  BY <2>2 DEF SumOver, k
<1> HIDE DEF f, T
<1>6. QED  BY <1>2, <1>4, <1>5 DEF f, T

\* The sum of one more element.
LEMMA TotalStep ==
  ASSUME NEW v, NEW n \in Nat, \A j \in 1 .. n : v[j] \in Int
  PROVE  /\ Total(v, n) \in Int
         /\ n = 0 => Total(v, n) = 0
         /\ n > 0 => Total(v, n) = Total(v, n - 1) + v[n]
<1> DEFINE T == 1 .. n
           f == [j \in T |-> v[j]]
<1>0. 0 \in Int /\ \A a, b \in Int : a + b \in Int
  OBVIOUS
<1>1. PICK g \in [SUBSET T -> Int] : Sums(f, T, g) /\ Total(v, n) = g[T]
  BY <1>0, TotalSums
<1>2. T \in SUBSET T
  OBVIOUS
<1>3. Total(v, n) \in Int
  <2> HIDE DEF T, f
  <2> QED  BY <1>1, <1>2
<1>4. ASSUME n = 0 PROVE Total(v, n) = 0
  <2>1. T = {}
    BY <1>4
  <2> HIDE DEF T, f
  <2> QED  BY <1>1, <1>2, <2>1 DEF Sums
<1>5. ASSUME n > 0 PROVE Total(v, n) = Total(v, n - 1) + v[n]
  <2> DEFINE m == n - 1
             U == 1 .. m
             h == [j \in U |-> v[j]]
  <2>1. m \in Nat /\ \A j \in 1 .. m : v[j] \in Int
    BY <1>5
  <2>2. T \ {n} = U /\ n \in T /\ U \subseteq T /\ U \subseteq U
    BY <1>5
  <2> HIDE DEF m
  <2>3. PICK k \in [SUBSET U -> Int] : Sums(h, U, k) /\ Total(v, m) = k[U]
    BY <1>0, <2>1, TotalSums, ZenonT(60)
  <2>4. IsFiniteSet(T)
    <3>1. 1 \in Int /\ n \in Int
      OBVIOUS
    <3> QED  BY <3>1, FS_Interval
  <2>5. IsFiniteSet(U)
    <3> HIDE DEF T, U
    <3> QED  BY <2>2, <2>4, FS_Subset
  <2>6. \A x \in T : f[x] = v[x] /\ f[x] \in Int
    OBVIOUS
  <2>7. \A x \in U : f[x] = h[x]
    BY <2>2
  <2>8. U \in SUBSET U /\ T \in SUBSET T /\ \A x \in T : f[x] \in Int
    BY <2>6
  <2> HIDE DEF T, U, f, h
  <2>9. g[T] = f[n] + g[T \ {n}]
    <3>1. Summed(f, T, g)
      BY <1>1, <2>4, <2>8 DEF Summed
    <3> QED  BY <2>2, <3>1, SumsTake
  <2>10. g[U] = k[U]
    <3>1. Sums(f, T, g) /\ Sums(h, U, k)
      BY <1>1, <2>3
    <3>2. U \subseteq T /\ U \subseteq U /\ IsFiniteSet(U) /\ \A x \in U : f[x] = h[x]
      BY <2>2, <2>5, <2>7
    <3> HIDE <2>1, <2>2, <2>3
    <3> QED  BY <3>1, <3>2, SumsAgree, SMT
  <2>11. k[U] \in Int /\ v[n] \in Int
    BY <2>2, <2>3, <2>6, <2>8
  <2>12. Total(v, n) = Total(v, m) + v[n]
    <3>1. Total(v, n) = v[n] + k[U]
      BY <1>1, <2>2, <2>6, <2>9, <2>10, Zenon
    <3> QED  BY <2>3, <2>11, <3>1
  <2> QED  BY <2>12 DEF m
<1> QED  BY <1>3, <1>4, <1>5

\* The sum of numbers that are not negative is not.
LEMMA TotalNat ==
  ASSUME NEW v, NEW n \in Nat, \A j \in 1 .. n : v[j] \in Nat
  PROVE  Total(v, n) \in Nat
<1> DEFINE T == 1 .. n
           f == [j \in T |-> v[j]]
<1>1. 0 \in Nat /\ \A a, b \in Nat : a + b \in Nat
  OBVIOUS
<1>2. PICK g \in [SUBSET T -> Nat] : Sums(f, T, g) /\ Total(v, n) = g[T]
  BY <1>1, TotalSums, ZenonT(60)
<1>3. T \in SUBSET T
  OBVIOUS
<1> HIDE DEF T, f
<1> QED  BY <1>2, <1>3

\* The sum of a sequence is that of all its elements.
LEMMA TotalOf ==
  ASSUME NEW R, NEW v \in Seq(R)
  PROVE  SumFunction(v) = Total(v, Len(v))
<1>1. v = [j \in 1 .. Len(v) |-> v[j]] /\ Len(v) \in Nat
  OBVIOUS
<1> QED  BY <1>1, Zenon DEF Total

-----------------------------------------------------------------------------
(* The call.                                                               *)

\* What a call asks for is a number.
LEMMA RequestedType ==
  ASSUME function \in DOMAIN Directions, vector \in Vectors
  PROVE  Requested \in Nat
<1>1. vector \in Seq(Nat)
  BY CallAssumption
<1>2. Len(vector) \in Nat /\ \A j \in 1 .. Len(vector) : vector[j] \in Nat
  BY <1>1
<1>3. SumFunction(vector) \in Nat
  BY <1>1, <1>2, TotalOf, TotalNat
<1> QED  BY <1>3 DEF Requested

\* The share of a read or of a write that split goes for is within it.
LEMMA ShareWithin ==
  ASSUME NEW p \in 0 .. 100, NEW n \in Nat, n >= 1
  PROVE  Share(p, n) \in 1 .. n
<1>1. p * n \in Nat /\ p * n <= 100 * n
  OBVIOUS
<1> DEFINE q == p * n
<1>2. q \in Nat /\ q <= 100 * n
  BY <1>1
<1> HIDE DEF q
<1>3. q \div 100 \in Nat /\ q \div 100 <= n
  BY <1>2
<1> QED
  BY <1>3 DEF Share, q

\* A length that split takes a part of is at least that part, or one less.
LEMMA LessType ==
  ASSUME NEW n \in Nat, NEW m \in Nat, m <= n + 1
  PROVE  Less(n, m) \in Nat /\ (m <= n => Less(n, m) = n - m)
BY CallAssumption DEF Less

\* A split takes a byte, of whatever there is.
LEMMA ShareType ==
  ASSUME NEW p \in 0 .. 100, NEW n \in Nat
  PROVE  Share(p, n) \in Nat /\ 1 <= Share(p, n) /\ Share(p, n) <= n + 1
<1>1. CASE n >= 1
  <2>1. Share(p, n) \in 1 .. n
    BY <1>1, ShareWithin
  <2> QED  BY <2>1
<1>2. CASE n = 0
  <2>1. Share(p, 0) = 1
    BY DEF Share
  <2> QED  BY <1>2, <2>1
<1> QED  BY <1>1, <1>2

\* More memory in the copy takes nothing away.
LEMMA InsideGrows ==
  ASSUME NEW a \in Int, NEW b \in Int, a <= b, NEW k, k \in Seq(Inside(a)), Requested \in Nat
  PROVE  k \in Seq(Inside(b))
<1>1. Inside(a) \subseteq Inside(b)
  BY DEF Inside
<1> QED
  BY <1>1

\* Sequences of system calls of one kind, end to end.
LEMMA Appended ==
  ASSUME NEW S, NEW j \in Seq(S), NEW k \in Seq(S)
  PROVE  j \o k \in Seq(S)
BY ConcatProperties

-----------------------------------------------------------------------------
(* The helpers of the record.                                               *)

\* What READ_BUFFER_LENGTH answers is within the memory READ_BUFFER answers.
LEMMA SoundLength ==
  ASSUME NEW s, Sound(s), Requested \in Nat
  PROVE  /\ Length(s) \in Nat /\ Length(s) <= Room(s)
         /\ s.room <= Requested => Length(s) <= Requested
BY DEF Sound, Length, Room, Record

\* A system call that a sound record asks for stays within its memory.
LEMMA AskInside ==
  ASSUME NEW s, Sound(s), NEW from \in Nat, NEW got \in Int, Requested \in Nat,
         from + Length(s) <= Room(s), function \in DOMAIN Directions
  PROVE  Ask(s, from, got) \in Seq(Inside(Cap(s)))
<1> DEFINE k == [sys |-> Primitives[function], mem |-> Memory(s), from |-> from,
                 asked |-> Length(s), got |-> got]
<1>1. Primitives[function] \in Range(Primitives)
  BY DEF Range, Directions, Primitives
<1>2. Memory(s) \in {"orig", "own"} /\ (Memory(s) = "own" <=> s.buf = "own")
  BY DEF Memory, Sound, Record
<1>3. k.from + k.asked <= IF k.mem = "own" THEN Cap(s) ELSE Requested
  BY <1>2 DEF Cap, Room
<1>4. k \in Inside(Cap(s))
  BY <1>1, <1>2, <1>3, SoundLength DEF Inside
<1>5. <<k>> \in Seq(Inside(Cap(s))) /\ <<>> \in Seq(Inside(Cap(s)))
  BY <1>4
<1> QED
  BY <1>5 DEF Ask

\* An aborted call asks for nothing.
LEMMA AskNothing ==
  ASSUME NEW s, s.aborted, NEW from, NEW got
  PROVE  Ask(s, from, got) = <<>>
BY DEF Ask

\* The record after a system call: as sound, in the same memory, and with a reason to fail.
LEMMA AnsweredSound ==
  ASSUME NEW s, Sound(s), NEW got \in Answers(Length(s)), Requested \in Nat, s.room <= Requested
  PROVE  LET r == Answered(s, got) IN
         /\ Sound(r) /\ r.buf = s.buf /\ r.room = s.room /\ r.aborted = s.aborted
         /\ s.aborted => r = s
         /\ ~s.aborted => r.done /\ r.result = got /\ (r.result = -1 => r.err # "stale")
<1>1. Length(s) \in Nat /\ Length(s) <= Requested
  BY SoundLength
<1>2. got \in Int /\ got <= Length(s)
  BY <1>1 DEF Answers
<1>3. Max({got, 0}) \in Nat /\ Max({got, 0}) <= Length(s)
  BY <1>1, <1>2, MaxTwo
<1>4. s \in Record
  BY DEF Sound
<1>5. CASE s.aborted
  BY <1>5 DEF Answered
<1>6. CASE ~s.aborted
  <2> DEFINE m == Max({got, 0})
  <2>0. m \in Nat /\ m <= Length(s)
    BY <1>3
  <2> HIDE DEF m
  <2>1. Answered(s, got) = [s EXCEPT !.result = got, !.done = TRUE, !.err = Errno(got),
                              !.origLen = m, !.len = IF s.buf = "null" THEN @ ELSE m]
    BY <1>6 DEF Answered, m
  <2>2. Errno(got) \in {"stale", "system"} /\ (got = -1 => Errno(got) # "stale")
    BY DEF Errno
  <2> DEFINE r == [buf |-> s.buf, room |-> s.room, len |-> IF s.buf = "null" THEN s.len ELSE m,
                   origLen |-> m, aborted |-> s.aborted, done |-> TRUE, err |-> Errno(got),
                   result |-> got]
  <2>3. Answered(s, got) = r
    BY <1>4, <2>1 DEF Record
  <2>4. r \in Record
    BY <1>2, <1>4, <2>0, <2>2 DEF Record
  <2>5. Sound(r)
    BY <1>1, <1>4, <2>0, <2>4 DEF Sound, Length, Record
  <2> QED
    BY <1>6, <2>2, <2>3, <2>5
<1> QED
  BY <1>5, <1>6

\* A system call that a task makes leaves the record fine.
LEMMA AnsweredFine ==
  ASSUME NEW s, NEW c, Fine(s, filled, c), ~s.aborted, NEW got \in Answers(Length(s)),
         Requested \in Nat, filled \in Nat, NEW d
  PROVE  Fine(Answered(s, got), Reads(s, got), d)
<1>1. Sound(s) /\ s.room <= Requested
  BY DEF Fine
<1>2. got \in Int
  BY <1>1, SoundLength DEF Answers
<1>3. direction = "Reading" => got <= Reads(s, got)
  BY <1>2, MaxTwo DEF Reads
<1> QED
  BY <1>1, <1>2, <1>3, AnsweredSound DEF Fine

\* Bytes once read stay read.
LEMMA ReadsType ==
  ASSUME NEW s, NEW got \in Int, filled \in Nat
  PROVE  Reads(s, got) \in Nat /\ Reads(s, got) >= filled
<1>1. filled \in Int
  OBVIOUS
<1>2. Max({filled, got}) \in {filled, got} /\ Max({filled, got}) >= filled
  BY <1>1, MaxTwo
<1> QED
  BY <1>2 DEF Reads

-----------------------------------------------------------------------------
(* The tasks.                                                               *)

\* What a task may do to the call: the record stays fine and the system calls it makes are
\* added to the others.
WalkStep ==
  /\ pc' \in {"walk", "end"}
  /\ filled' \in Nat
  /\ Fine(state, filled, claim)'
  /\ Cap(state) <= Cap(state')
  /\ \E ks \in Seq(Inside(Cap(state'))) :
       kernel' = kernel \o ks /\ (state.aborted => ks = <<>>)

\* Fine speaks of the call, which the walk does not change.
LEMMA FineNext ==
  ASSUME UNCHANGED <<function, vector>>, Fine(state', filled', claim')
  PROVE  Fine(state, filled, claim)'
BY DEF Fine, Sound, Requested, direction

\* A task that makes no system call and changes no more than the record and who answered.
LEMMA NoCallStep ==
  ASSUME CallInv, UNCHANGED <<function, vector, kernel, filled>>, pc' \in {"walk", "end"},
         Cap(state) <= Cap(state'), Fine(state', filled, claim')
  PROVE  WalkStep
<1>1. kernel' = kernel \o <<>>
  BY ConcatEmptySeq DEF CallInv
<1>2. <<>> \in Seq(Inside(Cap(state')))
  OBVIOUS
<1>3. Fine(state, filled, claim)'
  BY FineNext
<1> QED
  BY <1>1, <1>2, <1>3 DEF WalkStep, CallInv

\* What is known of the record while tasks are performed.
LEMMA Walking ==
  ASSUME CallInv, pc \in {"walk", "end"}
  PROVE  /\ Fine(state, filled, claim) /\ Sound(state) /\ state \in Record
         /\ Requested \in Nat /\ filled \in Nat /\ state.room <= Requested
         /\ Length(state) \in Nat /\ Length(state) <= Requested /\ Length(state) <= Room(state)
         /\ function \in DOMAIN Directions
<1>1. Fine(state, filled, claim) /\ Sound(state) /\ Requested \in Nat /\ state.room <= Requested
  BY RequestedType DEF CallInv, Fine
<1> QED
  BY <1>1, SoundLength DEF CallInv, Sound

\* A task that makes system calls.
LEMMA CallsStep ==
  ASSUME CallInv, UNCHANGED <<function, vector>>, pc' \in {"walk", "end"}, filled' \in Nat,
         Cap(state) <= Cap(state'), Fine(state', filled', claim'),
         NEW ks \in Seq(Inside(Cap(state'))), kernel' = kernel \o ks, state.aborted => ks = <<>>
  PROVE  WalkStep
BY FineNext DEF WalkStep

\* syscall, whether the call was aborted, already made, or neither.
LEMMA SyscallStep ==
  ASSUME CallInv, Syscall
  PROVE  WalkStep
<1>1. PICK got \in Answers(Length(state)) :
        /\ Task
        /\ IF state.aborted THEN Refuse(state) ELSE Done(Answered(state, got))
        /\ kernel' = kernel \o Ask(state, 0, got)
        /\ filled' = Reads(state, got)
        /\ claim' = IF state.aborted THEN claim ELSE "none"
        /\ UNCHANGED <<function, vector>>
  BY DEF Syscall
<1>2. Fine(state, filled, claim) /\ Sound(state) /\ Requested \in Nat /\ state.room <= Requested
  BY <1>1, RequestedType DEF CallInv, Task, Fine
<1>3. got \in Int /\ Length(state) \in Nat
  BY <1>2, SoundLength DEF Answers
<1>4. CASE state.aborted
  <2>1. kernel' = kernel /\ filled' = filled /\ claim' = claim /\ state' = state
    BY <1>1, <1>4, ConcatEmptySeq DEF Ask, Reads, Refuse, CallInv
  <2>2. pc' \in {"walk", "end"} /\ Cap(state) <= Cap(state')
    BY <1>1, <1>2, <1>4, <2>1 DEF Refuse, Cap, Sound, Record
  <2> QED
    BY <1>1, <1>2, <2>1, <2>2, NoCallStep
<1>5. CASE ~state.aborted
  <2>1. state' = Answered(state, got) /\ pc' = "walk"
    BY <1>1, <1>5 DEF Done
  <2>2. Fine(state', filled', claim')
    BY <1>1, <1>2, <1>5, <2>1, AnsweredFine DEF CallInv
  <2>3. Cap(state') = Cap(state) /\ Cap(state) <= Cap(state')
    BY <1>2, <2>1, AnsweredSound DEF Cap, Sound, Record
  <2>4. Ask(state, 0, got) \in Seq(Inside(Cap(state')))
    BY <1>2, <1>3, <2>3, AskInside, SoundLength DEF CallInv
  <2>5. filled' \in Nat
    BY <1>1, <1>3, ReadsType DEF CallInv
  <2> QED
    BY <1>1, <1>5, <2>1, <2>2, <2>3, <2>4, <2>5, CallsStep
<1> QED
  BY <1>4, <1>5

\* The tasks that leave the call alone.
LEMMA QuietStep ==
  ASSUME CallInv, Task, Quiet, Done(state) \/ Refuse(state)
  PROVE  WalkStep
<1>1. pc' \in {"walk", "end"} /\ state' = state
  BY DEF Done, Refuse
<1>2. Fine(state, filled, claim) /\ Cap(state) <= Cap(state')
  BY <1>1, Walking DEF Task, Cap, Record
<1> QED
  BY <1>1, <1>2, NoCallStep DEF Quiet

\* drop answers the length without a system call.
LEMMA DropStep ==
  ASSUME CallInv, Drop
  PROVE  WalkStep
<1>1. Fine(state, filled, claim) /\ state \in Record /\ Length(state) \in Nat
  BY Walking DEF Drop, Task
<1>2. CASE state.done
  BY <1>1, <1>2, NoCallStep DEF Drop, Refuse, Cap, Record
<1>3. CASE ~state.done
  <2>1. state' = [state EXCEPT !.aborted = TRUE, !.result = Length(state)] /\ claim' = "drop"
        /\ pc' = "walk"
    BY <1>3 DEF Drop, Done
  <2>2. state' = [buf |-> state.buf, room |-> state.room, len |-> state.len,
                origLen |-> state.origLen,
                aborted |-> TRUE, done |-> state.done, err |-> state.err, result |-> Length(state)]
    BY <1>1, <2>1 DEF Record
  <2>3. /\ state' \in Record /\ state'.len = state.len /\ state'.origLen = state.origLen
        /\ state'.room = state.room /\ state'.buf = state.buf /\ state'.aborted
        /\ state'.result # -1
    BY <1>1, <2>2 DEF Record
  <2>4. Sound(state') /\ state'.room = state.room /\ state'.buf = state.buf /\ state'.aborted
        /\ state'.result # -1
    BY <1>1, <2>3 DEF Fine, Sound
  <2>5. Cap(state) <= Cap(state')
    BY <1>1, <2>4 DEF Cap, Record
  <2>6. Fine(state', filled, claim')
    BY <1>1, <2>1, <2>4 DEF Fine
  <2> QED
    BY <2>1, <2>5, <2>6, NoCallStep DEF Drop
<1> QED
  BY <1>2, <1>3

\* error, emit and cancel-syscall answer -1; only the last may leave any errno.
LEMMA FailStep ==
  ASSUME CallInv, NEW err \in {"stale", "system", "rule"}, NEW by, Fail(err, by),
         by = "cancel" \/ err # "stale"
  PROVE  WalkStep
<1>1. Fine(state, filled, claim) /\ state \in Record /\ filled \in Nat
  BY Walking DEF Fail, Task
<1>2. CASE state.done
  BY <1>1, <1>2, NoCallStep DEF Fail, Refuse, Cap, Record
<1>3. CASE ~state.done
  <2>1. state' = [state EXCEPT !.aborted = TRUE, !.result = -1, !.err = err] /\ claim' = by
        /\ pc' = "walk"
    BY <1>3 DEF Fail, Done
  <2>2. state' = [buf |-> state.buf, room |-> state.room, len |-> state.len,
                origLen |-> state.origLen,
                aborted |-> TRUE, done |-> state.done, err |-> err, result |-> -1]
    BY <1>1, <2>1 DEF Record
  <2>3. /\ state' \in Record /\ state'.len = state.len /\ state'.origLen = state.origLen
        /\ state'.room = state.room /\ state'.buf = state.buf /\ state'.aborted
        /\ state'.err = err /\ state'.result = -1
    BY <1>1, <2>2 DEF Record
  <2>4. Sound(state') /\ state'.room = state.room /\ state'.buf = state.buf /\ state'.aborted
        /\ state'.err = err /\ state'.result = -1
    BY <1>1, <2>3 DEF Fine, Sound
  <2>5. Cap(state) <= Cap(state')
    BY <1>1, <2>4 DEF Cap, Record
  <2>6. Fine(state', filled, claim')
    BY <1>1, <2>1, <2>4 DEF Fine
  <2> QED
    BY <2>1, <2>5, <2>6, NoCallStep DEF Fail
<1> QED
  BY <1>2, <1>3

\* reset answers -1 with an error of its own, aborted or not.
LEMMA ResetStep ==
  ASSUME CallInv, Reset
  PROVE  WalkStep
<1>1. Fine(state, filled, claim) /\ state \in Record /\ filled \in Nat
  BY Walking DEF Reset, Task
<1>2. CASE state.done
  BY <1>1, <1>2, NoCallStep DEF Reset, Refuse, Cap, Record
<1>3. CASE ~state.done
  <2>1. state' = [state EXCEPT !.done = TRUE, !.result = -1, !.err = "rule"] /\ claim' = "none"
        /\ pc' = "walk"
    BY <1>3 DEF Reset, Done
  <2>2. state' = [buf |-> state.buf, room |-> state.room, len |-> state.len,
                origLen |-> state.origLen,
                aborted |-> state.aborted, done |-> TRUE, err |-> "rule", result |-> -1]
    BY <1>1, <2>1 DEF Record
  <2>3. /\ state' \in Record /\ state'.len = state.len /\ state'.origLen = state.origLen
        /\ state'.room = state.room /\ state'.buf = state.buf /\ state'.done
        /\ state'.err = "rule" /\ state'.result = -1
    BY <1>1, <2>2 DEF Record
  <2>4. Sound(state') /\ state'.room = state.room /\ state'.buf = state.buf /\ state'.done
        /\ state'.err = "rule" /\ state'.result = -1
    BY <1>1, <2>3 DEF Fine, Sound
  <2>5. Cap(state) <= Cap(state')
    BY <1>1, <2>4 DEF Cap, Record
  <2>6. Fine(state', filled, claim')
    BY <1>1, <2>1, <2>4 DEF Fine
  <2> QED
    BY <2>1, <2>5, <2>6, NoCallStep DEF Reset
<1> QED
  BY <1>2, <1>3

\* truncate shortens what is left of a call, to nothing at the least.
LEMMA TruncateStep ==
  ASSUME CallInv, NEW n \in Sizes, Truncate(n)
  PROVE  WalkStep
<1>1. Fine(state, filled, claim) /\ state \in Record /\ n \in Nat /\ Requested \in Nat
  BY Walking, CallAssumption DEF Truncate, Task
<1>2. CASE state.done \/ state.aborted \/ direction \notin Data
  BY <1>1, <1>2, NoCallStep DEF Truncate, Refuse, Cap, Record, Quiet
<1>3. CASE ~(state.done \/ state.aborted \/ direction \notin Data)
  <2> DEFINE a == Min({state.origLen, n})
             b == Min({state.len, n})
  <2>1. state' = [state EXCEPT !.origLen = a, !.len = b] /\ pc' = "walk"
    BY <1>3 DEF Truncate, Done
  <2>2. n \in Int /\ state.origLen \in Nat /\ state.len \in Nat
    BY <1>1 DEF Record
  <2>3. a \in Nat /\ a <= state.origLen /\ (a = n \/ a = state.origLen)
    <3>1. state.origLen \in Int
      BY <2>2
    <3>2. a \in {state.origLen, n} /\ a <= state.origLen
      BY <2>2, <3>1, MinTwo
    <3> QED
      BY <1>1, <2>2, <3>2
  <2>4. b \in Nat /\ b <= state.len /\ (b = n \/ b = state.len)
    <3>1. state.len \in Int
      BY <2>2
    <3>2. b \in {state.len, n} /\ b <= state.len
      BY <2>2, <3>1, MinTwo
    <3> QED
      BY <1>1, <2>2, <3>2
  <2> HIDE DEF a, b
  <2>5. /\ state' \in Record /\ state'.len = b /\ state'.origLen = a
        /\ state'.room = state.room /\ state'.buf = state.buf
        /\ state'.result = state.result /\ state'.err = state.err
        /\ state'.done = state.done /\ state'.aborted = state.aborted
    BY <1>1, <2>1, <2>3, <2>4 DEF Record
  <2>6. Sound(state')
    BY <1>1, <2>2, <2>3, <2>4, <2>5 DEF Fine, Sound, Record
  <2>8. Cap(state) <= Cap(state')
    BY <1>1, <2>5 DEF Cap, Record
  <2>9. claim' = claim
    BY DEF Truncate, Quiet
  <2>10. Fine(state', filled, claim')
    BY <1>1, <2>5, <2>6, <2>9 DEF Fine
  <2> QED
    BY <2>1, <2>8, <2>10, NoCallStep DEF Truncate, Quiet
<1> QED
  BY <1>2, <1>3

\* The copy of the program's buffer is as long as what is left of it.
LEMMA PreparedFine ==
  ASSUME NEW s, NEW n, NEW c, Fine(s, n, c), Requested \in Nat
  PROVE  Fine(Prepared(s), n, c) /\ Cap(s) <= Cap(Prepared(s))
<1>1. s \in Record /\ Sound(s)
  BY DEF Fine, Sound
<1>2. CASE s.buf # "null"
  BY <1>1, <1>2 DEF Prepared, Cap, Record
<1>3. CASE s.buf = "null"
  <2>1. Prepared(s) = [s EXCEPT !.buf = "own", !.room = s.origLen, !.len = s.origLen]
    BY <1>3 DEF Prepared
  <2>2. /\ Prepared(s) \in Record /\ Prepared(s).buf = "own" /\ Prepared(s).room = s.origLen
        /\ Prepared(s).len = s.origLen /\ Prepared(s).origLen = s.origLen
        /\ Prepared(s).done = s.done /\ Prepared(s).aborted = s.aborted
        /\ Prepared(s).result = s.result /\ Prepared(s).err = s.err
    BY <1>1, <2>1 DEF Record
  <2> QED
    BY <1>1, <1>3, <2>2 DEF Fine, Sound, Cap, Length, Record
<1> QED
  BY <1>2, <1>3

\* alter may read, and takes a copy of what is written.
LEMMA AlterStep ==
  ASSUME CallInv, Alter
  PROVE  WalkStep
<1> DEFINE reads == direction = "Reading" /\ ~state.done
<1>1. PICK got \in Answers(Length(state)) :
        /\ Task
        /\ IF direction \notin Data \/ (direction = "Writing" /\ state.done) THEN Refuse(state)
           ELSE Done(Prepared(IF reads THEN Answered(state, got) ELSE state))
        /\ kernel' = IF reads THEN kernel \o Ask(state, 0, got) ELSE kernel
        /\ filled' = IF reads THEN Reads(state, got) ELSE filled
        /\ UNCHANGED <<function, vector, claim>>
  BY DEF Alter
<1>2. Fine(state, filled, claim) /\ Sound(state) /\ Requested \in Nat /\ state.room <= Requested
      /\ state \in Record /\ filled \in Nat /\ Length(state) \in Nat
      /\ Length(state) <= Room(state) /\ function \in DOMAIN Directions
  BY <1>1, Walking DEF Task
<1>3. got \in Int
  BY <1>2 DEF Answers
<1>4. CASE direction \notin Data \/ (direction = "Writing" /\ state.done)
  <2>1. ~reads
    BY <1>4 DEF Data
  <2> QED
    BY <1>1, <1>2, <1>4, <2>1, NoCallStep DEF Refuse, Cap, Record
<1>5. CASE ~(direction \notin Data \/ (direction = "Writing" /\ state.done))
           /\ (~reads \/ state.aborted)
  <2>1. kernel' = kernel /\ filled' = filled
    BY <1>1, <1>5, ConcatEmptySeq DEF Ask, Reads, CallInv
  <2>2. state' = Prepared(state) /\ pc' = "walk"
    BY <1>1, <1>5 DEF Done, Answered
  <2> QED
    BY <1>1, <1>2, <2>1, <2>2, PreparedFine, NoCallStep
<1>6. CASE ~(direction \notin Data \/ (direction = "Writing" /\ state.done))
           /\ reads /\ ~state.aborted
  <2>1. state' = Prepared(Answered(state, got)) /\ pc' = "walk"
    BY <1>1, <1>6 DEF Done
  <2>2. Fine(Answered(state, got), filled', claim')
    BY <1>1, <1>2, <1>6, AnsweredFine
  <2>3. Fine(state', filled', claim') /\ Cap(Answered(state, got)) <= Cap(state')
    BY <1>2, <2>1, <2>2, PreparedFine
  <2>4. Cap(Answered(state, got)) = Cap(state) /\ Cap(state) \in Int /\ Cap(state') \in Int
    BY <1>2, <2>3, AnsweredSound DEF Cap, Sound, Fine, Record
  <2>5. Ask(state, 0, got) \in Seq(Inside(Cap(state)))
    BY <1>2, <1>3, AskInside
  <2>6. Ask(state, 0, got) \in Seq(Inside(Cap(state')))
    BY <1>2, <2>3, <2>4, <2>5, InsideGrows
  <2>7. filled' \in Nat
    BY <1>1, <1>2, <1>3, ReadsType
  <2> QED
    BY <1>1, <1>6, <2>1, <2>3, <2>4, <2>6, <2>7, CallsStep
<1> QED
  BY <1>4, <1>5, <1>6

-----------------------------------------------------------------------------
(* split.                                                                   *)

\* The record while a part of a write is made.
LEMMA PartSound ==
  ASSUME NEW s, Sound(s), s.room <= Requested, NEW n \in Nat, n <= Room(s), Requested \in Nat
  PROVE  /\ Sound(Part(s, n)) /\ Part(s, n).room = s.room /\ Part(s, n).aborted = s.aborted
         /\ Length(Part(s, n)) = n /\ Room(Part(s, n)) = Room(s) /\ Cap(Part(s, n)) = Cap(s)
         /\ Part(s, n).buf = Memory(s)
<1>1. s \in Record /\ Memory(s) \in {"orig", "own"} /\ (Memory(s) = "own" <=> s.buf = "own")
  BY DEF Sound, Memory, Record
<1>2. Part(s, n) = [buf |-> Memory(s), room |-> s.room, len |-> n, origLen |-> s.origLen,
                    aborted |-> s.aborted, done |-> s.done, err |-> s.err, result |-> s.result]
  <2>1. Part(s, n) = [s EXCEPT !.buf = Memory(s), !.len = n]
    BY DEF Part
  <2> QED
    BY <1>1, <2>1 DEF Record
<1>3. /\ Part(s, n) \in Record /\ Part(s, n).buf = Memory(s) /\ Part(s, n).room = s.room
      /\ Part(s, n).len = n /\ Part(s, n).origLen = s.origLen /\ Part(s, n).aborted = s.aborted
  BY <1>1, <1>2 DEF Record
<1> QED
  BY <1>1, <1>3 DEF Sound, Length, Room, Cap

\* The record after a write that was made in parts.
LEMMA RestoreFine ==
  ASSUME NEW s, NEW c, Fine(s, filled, c), direction = "Writing", NEW r, Sound(r),
         r.room = s.room, r.done, r.result = -1 => r.err # "stale"
  PROVE  Fine(Restore(s, r), filled, c) /\ Cap(Restore(s, r)) = Cap(s)
<1>1. s \in Record /\ r \in Record
  BY DEF Fine, Sound
<1>2. Restore(s, r) = [buf |-> s.buf, room |-> r.room, len |-> s.len, origLen |-> r.origLen,
                       aborted |-> r.aborted, done |-> r.done, err |-> r.err,
                       result |-> r.result]
  <2>1. Restore(s, r) = [r EXCEPT !.buf = s.buf, !.len = s.len]
    BY DEF Restore
  <2> QED
    BY <1>1, <2>1 DEF Record
<1>3. /\ Restore(s, r) \in Record /\ Restore(s, r).buf = s.buf /\ Restore(s, r).room = s.room
      /\ Restore(s, r).len = s.len /\ Restore(s, r).origLen = r.origLen
      /\ Restore(s, r).done /\ Restore(s, r).result = r.result /\ Restore(s, r).err = r.err
  BY <1>1, <1>2 DEF Record
<1>4. Sound(Restore(s, r)) /\ Restore(s, r).room <= Requested
  BY <1>3 DEF Fine, Sound
<1> QED
  BY <1>3, <1>4 DEF Fine, Cap

\* The two parts of a write.
LEMMA InTwoStep ==
  ASSUME CallInv, pc = "walk", direction = "Writing", ~state.aborted,
         NEW first \in 1 .. Length(state), InTwo(state, first),
         UNCHANGED <<function, vector, filled, claim>>
  PROVE  WalkStep
<1>1. /\ Fine(state, filled, claim) /\ Sound(state) /\ Requested \in Nat
      /\ state.room <= Requested /\ Length(state) \in Nat /\ Length(state) <= Room(state)
      /\ function \in DOMAIN Directions /\ filled \in Nat /\ state \in Record
  BY Walking
<1> DEFINE rest == Less(Length(state), first)
           P1 == Part(state, first)
<1>2. first \in Nat /\ first <= Room(state) /\ rest \in Nat /\ rest <= Room(state)
      /\ first + rest = Length(state) /\ Room(state) \in Nat
  <2>1. rest = Length(state) - first
    BY <1>1, LessType
  <2> HIDE DEF rest
  <2> QED
    BY <1>1, <2>1 DEF Room, Record
<1>3. PICK got1 \in Answers(first), got2 \in Answers(rest) :
        LET r1 == Answered(P1, got1)
            s2 == Part(r1, rest)
            r2 == Answered(s2, got2) IN
        IF got1 # first
        THEN Done(Restore(state, r1)) /\ kernel' = kernel \o Ask(P1, 0, got1)
        ELSE /\ Done(Restore(state, [r2 EXCEPT !.result = Max({got2, 0}) + first]))
             /\ kernel' = kernel \o Ask(P1, 0, got1) \o Ask(s2, first, got2)
  BY DEF InTwo
<1> DEFINE r1 == Answered(P1, got1)
           s2 == Part(r1, rest)
           r2 == Answered(s2, got2)
           r3 == [r2 EXCEPT !.result = Max({got2, 0}) + first]
<1>4. got1 \in Int /\ got2 \in Int
  BY <1>2 DEF Answers
<1>5. /\ Sound(P1) /\ P1.room = state.room /\ ~P1.aborted /\ Length(P1) = first
      /\ Room(P1) = Room(state) /\ Cap(P1) = Cap(state) /\ P1.buf = Memory(state)
  BY <1>1, <1>2, PartSound
<1>6. /\ Sound(r1) /\ r1.buf = P1.buf /\ r1.room = state.room /\ ~r1.aborted /\ r1.done
      /\ r1.result = -1 => r1.err # "stale"
  BY <1>1, <1>5, AnsweredSound
<1>7. Room(r1) = Room(state) /\ Cap(r1) = Cap(state) /\ Memory(r1) = Memory(state)
  <2>1. Memory(state) # "null"
    BY <1>1 DEF Memory, Record
  <2> QED
    BY <1>5, <1>6, <2>1 DEF Room, Cap, Memory
<1>8. Ask(P1, 0, got1) \in Seq(Inside(Cap(state)))
  <2>1. 0 + Length(P1) <= Room(P1)
    BY <1>2, <1>5
  <2> QED
    BY <1>1, <1>4, <1>5, <2>1, AskInside
<1>9. CASE got1 # first
  <2>1. state' = Restore(state, r1) /\ pc' = "walk" /\ kernel' = kernel \o Ask(P1, 0, got1)
    BY <1>3, <1>9 DEF Done
  <2>2. Fine(state', filled, claim) /\ Cap(state') = Cap(state)
    BY <1>1, <1>6, <2>1, RestoreFine
  <2>3. Cap(state) <= Cap(state') /\ Fine(state', filled', claim')
    BY <1>1, <2>2 DEF Cap, Record
  <2> DEFINE ks == Ask(P1, 0, got1)
  <2>4. ks \in Seq(Inside(Cap(state')))
    BY <1>8, <2>2
  <2>5. kernel' = kernel \o ks /\ pc' = "walk"
    BY <2>1
  <2> HIDE DEF ks
  <2> QED
    BY <1>1, <2>3, <2>4, <2>5, CallsStep
<1>10. CASE got1 = first
  <2>1. /\ state' = Restore(state, r3) /\ pc' = "walk"
        /\ kernel' = (kernel \o Ask(P1, 0, got1)) \o Ask(s2, first, got2)
    BY <1>3, <1>10 DEF Done
  <2>2. /\ Sound(s2) /\ s2.room = state.room /\ ~s2.aborted /\ Length(s2) = rest
        /\ Room(s2) = Room(state) /\ Cap(s2) = Cap(state)
    BY <1>1, <1>2, <1>6, <1>7, PartSound
  <2>3. Sound(r2) /\ r2.room = state.room /\ ~r2.aborted /\ r2.done
    BY <1>1, <2>2, AnsweredSound
  <2>4. Max({got2, 0}) \in Nat
    BY <1>4, MaxZero
  <2>5. Sound(r3) /\ r3.room = state.room /\ r3.done /\ r3.result # -1
    <3>1. r2 \in Record
      BY <2>3 DEF Sound
    <3> DEFINE m == Max({got2, 0}) + first
    <3>2. m \in Nat
      BY <1>2, <2>4
    <3> HIDE DEF m
    <3>3. r3 = [r2 EXCEPT !.result = m]
      BY DEF m
    <3> HIDE DEF r2, r3
    <3>4. /\ r3 \in Record /\ r3.buf = r2.buf /\ r3.room = r2.room /\ r3.len = r2.len
          /\ r3.origLen = r2.origLen /\ r3.done = r2.done /\ r3.result = m
      BY <3>1, <3>2, <3>3 DEF Record
    <3> QED
      BY <2>3, <3>2, <3>4 DEF Sound
  <2>6. Fine(state', filled, claim) /\ Cap(state') = Cap(state)
    BY <1>1, <2>1, <2>5, RestoreFine
  <2>7. Ask(s2, first, got2) \in Seq(Inside(Cap(state)))
    <3>1. first + Length(s2) <= Room(s2)
      BY <1>1, <1>2, <2>2
    <3> QED
      BY <1>1, <1>2, <1>4, <2>2, <3>1, AskInside
  <2> DEFINE ks == Ask(P1, 0, got1) \o Ask(s2, first, got2)
  <2>8. ks \in Seq(Inside(Cap(state')))
    BY <1>8, <2>6, <2>7, Appended
  <2>9. kernel' = kernel \o ks
    <3>1. kernel \in Seq(Inside(Cap(state)))
      BY DEF CallInv
    <3> DEFINE a == Ask(P1, 0, got1)
               b == Ask(s2, first, got2)
               S == Inside(Cap(state))
    <3>2. a \in Seq(S) /\ b \in Seq(S) /\ kernel \in Seq(S)
      BY <1>8, <2>7, <3>1
    <3>3. kernel' = (kernel \o a) \o b
      BY <2>1
    <3> HIDE DEF a, b, S
    <3>4. kernel' = kernel \o (a \o b)
      BY <3>2, <3>3, ConcatAssociative
    <3> QED
      BY <3>4 DEF a, b
  <2>10. Cap(state) <= Cap(state') /\ Fine(state', filled', claim') /\ pc' = "walk"
    BY <1>1, <2>1, <2>6 DEF Cap, Record
  <2> HIDE DEF ks
  <2> QED
    BY <1>1, <2>8, <2>9, <2>10, CallsStep
<1> QED
  BY <1>9, <1>10

\* split, on a read, on a write of one byte, and on a longer one.  One of no byte is apart.
LEMMA SplitStep ==
  ASSUME CallInv, NEW p \in Percents, Split(p), ~emptied'
  PROVE  WalkStep
<1>1. /\ Fine(state, filled, claim) /\ Sound(state) /\ Requested \in Nat /\ pc = "walk"
      /\ state.room <= Requested /\ Length(state) \in Nat /\ Length(state) <= Room(state)
      /\ function \in DOMAIN Directions /\ filled \in Nat /\ state \in Record
      /\ p \in 0 .. 100 /\ UNCHANGED <<function, vector, claim>>
  BY Walking, CallAssumption DEF Split, Task
<1>2. CASE state.done \/ state.aborted \/ direction \notin Data
  BY <1>1, <1>2, NoCallStep DEF Split, Refuse, Cap, Record
<1>3. ~(state.done \/ state.aborted \/ direction \notin Data) => Length(state) >= 1
  <2>1. emptied' = (emptied \/ (~state.done /\ ~state.aborted /\ direction \in Data
                                 /\ Length(state) = 0))
    BY DEF Split
  <2>2. ~(~state.done /\ ~state.aborted /\ direction \in Data /\ Length(state) = 0)
    BY <2>1, Zenon
  <2> QED  BY <1>1, <2>2
<1>4. CASE ~(state.done \/ state.aborted) /\ direction = "Reading"
  <2>1. SplitRead(p) /\ state.buf = "orig" /\ Length(state) = state.len /\ state.len >= 1
    BY <1>1, <1>3, <1>4 DEF Split, Data, Fine, Length
  <2> DEFINE n == Share(p, state.len)
             s == [state EXCEPT !.len = n]
  <2>2. n \in 1 .. state.len
    BY <1>1, <2>1, ShareWithin DEF Record
  <2>3. PICK got \in Answers(n) :
          Done(Answered(s, got)) /\ kernel' = kernel \o Ask(s, 0, got) /\ filled' = Reads(s, got)
    BY <2>1 DEF SplitRead
  <2> HIDE DEF n
  <2>4. /\ s \in Record /\ s.buf = "orig" /\ s.room = state.room /\ s.len = n
        /\ s.origLen = state.origLen /\ ~s.aborted /\ s.result = state.result
        /\ s.done = state.done /\ s.err = state.err
    BY <1>1, <1>4, <2>1, <2>2 DEF Record
  <2> HIDE DEF s
  <2>5. n \in Nat /\ n >= 1 /\ n <= state.len /\ state.len \in Nat
    BY <1>1, <2>2 DEF Record
  <2>6. Sound(s) /\ Length(s) = n
    BY <1>1, <2>1, <2>4, <2>5 DEF Fine, Sound, Length
  <2>7. Fine(s, filled, claim)
    BY <1>1, <1>4, <2>4, <2>5, <2>6 DEF Fine
  <2>8. Fine(Answered(s, got), filled', claim')
    BY <1>1, <2>3, <2>4, <2>6, <2>7, AnsweredFine
  <2>9. Cap(state) = -1 /\ Cap(s) = -1 /\ Cap(Answered(s, got)) = -1
    BY <1>1, <2>1, <2>3, <2>4, <2>6, AnsweredSound DEF Cap
  <2>10. got \in Int
    BY <2>3, <2>5 DEF Answers
  <2>11. Ask(s, 0, got) \in Seq(Inside(Cap(s)))
    BY <1>1, <2>5, <2>6, <2>10, AskInside, SoundLength
  <2>12. filled' \in Nat
    BY <1>1, <2>3, <2>10, ReadsType
  <2>13. state' = Answered(s, got) /\ pc' = "walk"
    BY <2>3 DEF Done
  <2> QED
    BY <1>1, <1>4, <2>3, <2>8, <2>9, <2>11, <2>12, <2>13, CallsStep
<1>5. CASE ~(state.done \/ state.aborted) /\ direction = "Writing" /\ Length(state) = 1
  <2>1. Whole(state) /\ filled' = filled
    BY <1>5 DEF Split, Data
  <2>2. PICK got \in Answers(Length(state)) :
          Done(Answered(state, got)) /\ kernel' = kernel \o Ask(state, 0, got)
    BY <2>1 DEF Whole
  <2>3. state' = Answered(state, got) /\ pc' = "walk" /\ got \in Int
    BY <1>1, <2>2 DEF Done, Answers
  <2>4. Reads(state, got) = filled'
    BY <1>5, <2>1 DEF Reads
  <2>5. Fine(state', filled', claim')
    BY <1>1, <1>5, <2>2, <2>3, <2>4, AnsweredFine
  <2>6. Cap(state') = Cap(state) /\ Cap(state) <= Cap(state')
    BY <1>1, <2>2, <2>3, AnsweredSound DEF Cap, Record
  <2>7. Ask(state, 0, got) \in Seq(Inside(Cap(state')))
    BY <1>1, <2>3, <2>6, AskInside
  <2> QED
    BY <1>1, <1>5, <2>1, <2>2, <2>3, <2>5, <2>6, <2>7, CallsStep
<1>6. CASE ~(state.done \/ state.aborted) /\ direction = "Writing" /\ Length(state) # 1
  <2>1. InTwo(state, Share(p, Length(state))) /\ filled' = filled
    BY <1>6 DEF Split, Data
  <2>2. Share(p, Length(state)) \in 1 .. Length(state)
    BY <1>1, <1>3, <1>6, ShareWithin DEF Data
  <2> QED
    BY <1>1, <1>6, <2>1, <2>2, InTwoStep
<1> QED
  BY <1>2, <1>4, <1>5, <1>6 DEF Data

-----------------------------------------------------------------------------
(* replay.                                                                  *)

\* The record once replay has made room for the data of an event.
LEMMA LoadedFine ==
  ASSUME NEW n, NEW c, Fine(state, n, c), Requested \in Nat, NEW e
  PROVE  /\ Fine(Loaded(e), n, c) /\ Cap(state) <= Cap(Loaded(e))
         /\ HasData(e) => Loaded(e).buf # "null"
<1>1. state \in Record
  BY DEF Fine, Sound
<1>2. CASE HasData(e)
  <2>1. Loaded(e) = Prepared(state)
    BY <1>2 DEF Loaded
  <2>2. Prepared(state).buf # "null"
    BY <1>1 DEF Prepared, Record
  <2> QED
    BY <2>1, <2>2, PreparedFine
<1>3. CASE ~HasData(e)
  BY <1>1, <1>3 DEF Loaded, Cap, Record
<1> QED
  BY <1>2, <1>3

\* An event refused leaves no more than a copy behind.
LEMMA ReplayUnfitStep ==
  ASSUME CallInv, NEW e, ReplayUnfit(e)
  PROVE  WalkStep
<1>1. pc = "walk" /\ state' = Loaded(e) /\ pc' = "end" /\ Quiet
  BY DEF ReplayUnfit, Task, Refuse
<1>2. Fine(state', filled, claim') /\ Cap(state) <= Cap(state')
  BY <1>1, Walking, LoadedFine DEF Quiet
<1> QED
  BY <1>1, <1>2, NoCallStep DEF Quiet

\* An event that fits leaves lengths that are within the memory it was copied to.
LEMMA PlayedSound ==
  ASSUME NEW s, Sound(s), s.room <= Requested, Requested \in Nat, NEW e \in Traced,
         HasData(e) => s.buf # "null" /\ Fits(s, e)
  PROVE  LET r == Played(s, e) IN
         /\ Sound(r) /\ r.buf = s.buf /\ r.room = s.room
         /\ r.aborted = s.aborted /\ r.done = s.done
         /\ r.result \in Int /\ r.result <= Requested
         /\ r.result = -1 => r.err # "stale"
<1> DEFINE answer == IF e.success = -1 THEN -1 ELSE IF HasData(e) THEN e.length ELSE 0
           err == IF e.success = -1 THEN "rule" ELSE "stale"
           r == Played(s, e)
<1>1. s \in Record /\ e.length \in Nat /\ e.success \in Int
  BY DEF Sound, Traced
<1>2. answer \in Int /\ err \in {"stale", "rule"} /\ (answer = -1 => err = "rule")
      /\ (HasData(e) => answer = e.length)
  BY <1>1 DEF HasData
<1> HIDE DEF answer, err
<1>3. r = IF HasData(e)
          THEN [[s EXCEPT !.result = answer, !.err = err]
                  EXCEPT !.origLen = e.length, !.len = IF s.buf = "null" THEN @ ELSE e.length]
          ELSE [s EXCEPT !.result = answer, !.err = err]
  BY DEF Played, answer, err
<1> HIDE DEF r
<1>4. CASE HasData(e)
  <2>1. /\ r \in Record /\ r.buf = s.buf /\ r.room = s.room /\ r.len = e.length
        /\ r.origLen = e.length /\ r.aborted = s.aborted /\ r.done = s.done
        /\ r.err = err /\ r.result = answer
    BY <1>1, <1>2, <1>3, <1>4 DEF Record
  <2>2. e.length <= s.len
    BY <1>4 DEF Fits
  <2> QED
    BY <1>1, <1>2, <1>4, <2>1, <2>2 DEF Sound, Record, r
<1>5. CASE ~HasData(e)
  <2>1. /\ r \in Record /\ r.buf = s.buf /\ r.room = s.room /\ r.len = s.len
        /\ r.origLen = s.origLen /\ r.aborted = s.aborted /\ r.done = s.done
        /\ r.err = err /\ r.result = answer
    BY <1>1, <1>2, <1>3, <1>5 DEF Record
  <2>2. answer <= Requested
    BY <1>5 DEF answer
  <2> QED
    BY <1>1, <1>2, <1>5, <2>1, <2>2 DEF Sound, r
<1> QED
  BY <1>4, <1>5

\* An answered call that a rule then aborts.
LEMMA AbortedSound ==
  ASSUME NEW s, Sound(s)
  PROVE  LET r == [s EXCEPT !.aborted = TRUE] IN
         /\ Sound(r) /\ r.aborted /\ r.buf = s.buf /\ r.room = s.room
         /\ r.result = s.result /\ r.err = s.err
<1> DEFINE r == [s EXCEPT !.aborted = TRUE]
<1>1. s \in Record
  BY DEF Sound
<1>2. r \in Record /\ r.aborted /\ r.buf = s.buf /\ r.room = s.room /\ r.len = s.len
      /\ r.origLen = s.origLen /\ r.result = s.result /\ r.err = s.err
  BY <1>1 DEF Record
<1> HIDE DEF r
<1>3. Sound(r)
  BY <1>2 DEF Sound
<1> QED
  BY <1>2, <1>3 DEF r

\* replay, of a write and of any other call.
LEMMA ReplayStep ==
  ASSUME CallInv, NEW e \in Traced, Replay(e)
  PROVE  WalkStep
<1> DEFINE L == Loaded(e)
           s == Played(L, e)
<1>1. PICK got \in Answers(Requested) :
        /\ Task
        /\ HasData(e) => Fits(L, e)
        /\ IF direction = "Writing"
           THEN /\ got <= Length(s)
                /\ Done([Answered(s, got) EXCEPT !.aborted = TRUE])
                /\ kernel' = kernel \o Ask(s, 0, got)
                /\ filled' = filled
           ELSE /\ Done([s EXCEPT !.aborted = TRUE])
                /\ kernel' = kernel
                /\ filled' = Max({filled, Min({s.result, Requested})})
        /\ claim' = "none"
        /\ UNCHANGED <<function, vector>>
  BY DEF Replay
<1>2. /\ Fine(state, filled, claim) /\ Requested \in Nat /\ filled \in Nat
      /\ state \in Record /\ function \in DOMAIN Directions
  BY <1>1, Walking DEF Task
<1>3. Fine(L, filled, claim) /\ Cap(state) <= Cap(L) /\ (HasData(e) => L.buf # "null")
  BY <1>2, LoadedFine
<1> HIDE DEF L
<1>4. Sound(L) /\ L.room <= Requested /\ L \in Record
  BY <1>3 DEF Fine, Sound
<1>5. /\ Sound(s) /\ s.buf = L.buf /\ s.room = L.room /\ s.aborted = L.aborted
      /\ s.result \in Int /\ s.result <= Requested /\ (s.result = -1 => s.err # "stale")
  BY <1>1, <1>2, <1>3, <1>4, PlayedSound
<1> HIDE DEF s
<1>6. CASE direction = "Writing"
  <2> DEFINE r == Answered(s, got)
  <2>1. got \in Answers(Length(s))
    BY <1>1, <1>2, <1>4, <1>5, <1>6, SoundLength DEF Answers
  <2>2. Sound(r) /\ r.buf = s.buf /\ r.room = s.room /\ (r.result = -1 => r.err # "stale")
    BY <1>2, <1>4, <1>5, <2>1, AnsweredSound
  <2>3. state' = [r EXCEPT !.aborted = TRUE] /\ pc' = "walk"
    BY <1>1, <1>6 DEF Done
  <2> HIDE DEF r
  <2>4. /\ Sound(state') /\ state'.aborted /\ state'.buf = L.buf /\ state'.room = L.room
        /\ state'.result = r.result /\ state'.err = r.err
    BY <1>5, <2>2, <2>3, AbortedSound
  <2>5. Fine(state', filled', claim')
    BY <1>3, <1>4, <1>6, <2>2, <2>4 DEF Fine
  <2>6. Cap(state') = Cap(s) /\ Cap(state) <= Cap(state')
    BY <1>3, <1>5, <2>4 DEF Cap
  <2>7. got \in Int /\ 0 + Length(s) <= Room(s)
    BY <1>2, <1>5, SoundLength DEF Answers
  <2>8. Ask(s, 0, got) \in Seq(Inside(Cap(state')))
    BY <1>2, <1>5, <2>6, <2>7, AskInside
  <2>9. state.aborted => Ask(s, 0, got) = <<>>
    <3>1. state.aborted => L.aborted
      BY <1>2 DEF L, Loaded, Prepared, Record
    <3> QED
      BY <1>5, <3>1, AskNothing
  <2> QED
    BY <1>1, <1>2, <1>6, <2>3, <2>5, <2>6, <2>8, <2>9, CallsStep
<1>7. CASE direction # "Writing"
  <2>1. state' = [s EXCEPT !.aborted = TRUE] /\ pc' = "walk" /\ kernel' = kernel \o <<>>
        /\ filled' = Max({filled, Min({s.result, Requested})})
    BY <1>1, <1>7, ConcatEmptySeq DEF Done, CallInv
  <2>2. /\ Sound(state') /\ state'.aborted /\ state'.buf = L.buf /\ state'.room = L.room
        /\ state'.result = s.result /\ state'.err = s.err
    BY <1>5, <2>1, AbortedSound
  <2>3. Min({s.result, Requested}) = s.result
    <3> DEFINE a == s.result
               m == Min({a, Requested})
    <3>1. a \in Int /\ Requested \in Int /\ a <= Requested
      BY <1>2, <1>5
    <3> HIDE DEF a
    <3>2. m \in {a, Requested} /\ m <= a /\ m <= Requested
      BY <3>1, MinTwo
    <3> HIDE DEF m
    <3>3. m = a
      BY <3>1, <3>2
    <3> QED
      BY <3>3 DEF a, m
  <2>4. filled' \in Nat /\ s.result <= filled'
    <3> DEFINE a == s.result
    <3>1. a \in Int /\ filled \in Int
      BY <1>2, <1>5
    <3>2. filled' = Max({filled, a})
      BY <2>1, <2>3
    <3> HIDE DEF a
    <3>3. Max({filled, a}) \in {filled, a} /\ Max({filled, a}) >= filled /\ Max({filled, a}) >= a
      BY <3>1, MaxTwo
    <3> QED
      BY <1>2, <3>1, <3>2, <3>3 DEF a
  <2>5. Fine(state', filled', claim')
    BY <1>3, <1>4, <1>5, <1>7, <2>2, <2>4 DEF Fine
  <2>6. Cap(state) <= Cap(state')
    BY <1>3, <2>2 DEF Cap
  <2>7. <<>> \in Seq(Inside(Cap(state')))
    OBVIOUS
  <2> QED
    BY <1>1, <2>1, <2>4, <2>5, <2>6, <2>7, CallsStep
<1> QED
  BY <1>6, <1>7

-----------------------------------------------------------------------------
(* The invariant.                                                           *)

\* Every task is a step of the walk, but for a split of no byte.
LEMMA TaskStep ==
  ASSUME CallInv, Next, ~Begin, ~Bypass, ~Stop, ~Return, ~emptied'
  PROVE  WalkStep /\ UNCHANGED <<function, vector>>
<1>1. CASE Syscall
  BY <1>1, SyscallStep DEF Syscall
<1>2. CASE Drop
  BY <1>2, DropStep DEF Drop
<1>3. CASE CancelSyscall
  <2>1. state.err \in {"stale", "system", "rule"}
    BY <1>3, Walking DEF CancelSyscall, Fail, Task, Record
  <2> QED
    BY <1>3, <2>1, FailStep DEF CancelSyscall, Fail
<1>4. CASE Error \/ Emit
  BY <1>4, FailStep DEF Error, Emit, Fail
<1>5. CASE ErrorInvalid \/ Nop \/ Echo \/ Log \/ Dump \/ ReplayUnreadable
  BY <1>5, QuietStep DEF ErrorInvalid, Nop, Echo, Log, Dump, ReplayUnreadable, Quiet
<1>6. CASE Reset
  BY <1>6, ResetStep DEF Reset
<1>7. CASE Alter
  BY <1>7, AlterStep DEF Alter
<1>8. ASSUME NEW n \in Sizes, Truncate(n)
      PROVE  WalkStep /\ UNCHANGED <<function, vector>>
  BY <1>8, TruncateStep DEF Truncate, Quiet
<1>9. ASSUME NEW p \in Percents, Split(p)
      PROVE  WalkStep /\ UNCHANGED <<function, vector>>
  BY <1>9, SplitStep DEF Split
<1>10. ASSUME NEW e \in Traced, ReplayUnfit(e)
       PROVE  WalkStep /\ UNCHANGED <<function, vector>>
  BY <1>10, ReplayUnfitStep DEF ReplayUnfit, Quiet
<1>11. ASSUME NEW e \in Traced, Replay(e)
       PROVE  WalkStep /\ UNCHANGED <<function, vector>>
  BY <1>11, ReplayStep DEF Replay
<1> QED
  BY <1>1, <1>2, <1>3, <1>4, <1>5, <1>6, <1>7, <1>8, <1>9, <1>10, <1>11 DEF Next

\* System calls made with less memory in the copy, and those made since.
LEMMA CallsInside ==
  ASSUME CallInv, UNCHANGED <<function, vector>>, Requested \in Nat,
         Cap(state) \in Int, Cap(state') \in Int, Cap(state) <= Cap(state'),
         NEW ks \in Seq(Inside(Cap(state'))), kernel' = kernel \o ks
  PROVE  kernel' \in Seq(Inside(Cap(state')))
<1>1. kernel \in Seq(Inside(Cap(state)))
  BY DEF CallInv
<1>2. kernel \in Seq(Inside(Cap(state')))
  BY <1>1, InsideGrows
<1> QED
  BY <1>2, Appended

\* The length of the copy is a number.
LEMMA CapType ==
  ASSUME NEW s, Sound(s)
  PROVE  Cap(s) \in Int
BY DEF Cap, Sound, Record

\* What the invariant says of the next state, from what is said of its parts.
LEMMA InvNext ==
  ASSUME CallInv, ~emptied', UNCHANGED <<function, vector>>,
         pc' \in {"walk", "end", "returned"}, filled' \in Nat, Sound(state'), kernel' \in Seq(Inside(Cap(state'))),
         pc' \in {"walk", "end"} => Fine(state', filled', claim'),
         pc' = "returned" =>
           /\ state'.result = -1 /\ claim' # "cancel" => state'.err # "stale"
           /\ direction = "Reading" /\ claim' # "drop" => state'.result <= filled'
  PROVE  CallInv'
BY FineNext DEF CallInv, Sound, Inside, Cap, Requested, direction

\* Every other step of a call keeps the invariant.
LEMMA InvStep ==
  ASSUME CallInv, [Next]_vars, ~emptied'
  PROVE  CallInv'
<1>1. Requested \in Nat /\ function \in DOMAIN Directions
  BY RequestedType DEF CallInv
<1>2. CASE UNCHANGED vars
  BY <1>2 DEF vars, CallInv, Sound, Inside, Cap, Requested, direction, Fine, Length
<1>3. CASE Begin
  <2> DEFINE W == [Idle EXCEPT !.origLen = Requested]
             R == [Idle EXCEPT !.buf = IF direction = "Reading" THEN "orig" ELSE "null",
                               !.room = Requested, !.len = Requested, !.origLen = Requested]
  <2>1. /\ state = Idle /\ kernel = <<>> /\ kernel' = kernel /\ filled' = filled /\ claim' = claim
        /\ pc' = "walk" /\ state' = IF direction = "Writing" THEN W ELSE R
        /\ UNCHANGED <<function, vector>> /\ filled \in Nat
    BY <1>3 DEF Begin, CallInv
  <2>3. Fine(state', filled', claim')
    <3>1. CASE direction = "Writing"
      <4>1. state' = [buf |-> "null", room |-> 0, len |-> 0, origLen |-> Requested,
                      aborted |-> FALSE, done |-> FALSE, err |-> "stale", result |-> 0]
        BY <2>1, <3>1 DEF Idle
      <4>2. /\ state' \in Record /\ state'.buf = "null" /\ state'.room = 0
            /\ state'.origLen = Requested /\ state'.result = 0
        BY <1>1, <4>1 DEF Record
      <4>3. Sound(state') /\ Length(state') = Requested
        BY <1>1, <4>2 DEF Sound, Length
      <4> QED
        BY <1>1, <2>1, <3>1, <4>2, <4>3 DEF Fine
    <3>2. CASE direction # "Writing"
      <4>1. state' = [buf |-> IF direction = "Reading" THEN "orig" ELSE "null",
                      room |-> Requested, len |-> Requested, origLen |-> Requested,
                      aborted |-> FALSE, done |-> FALSE, err |-> "stale", result |-> 0]
        BY <2>1, <3>2 DEF Idle
      <4>2. /\ state' \in Record /\ state'.room = Requested /\ state'.len = Requested
            /\ state'.buf = IF direction = "Reading" THEN "orig" ELSE "null"
            /\ state'.origLen = Requested /\ state'.result = 0
        BY <1>1, <4>1 DEF Record
      <4>3. Sound(state') /\ Length(state') = Requested
        BY <1>1, <4>2 DEF Sound, Length
      <4> QED
        BY <1>1, <2>1, <3>2, <4>2, <4>3 DEF Fine
    <3> QED
      BY <3>1, <3>2
  <2>4. kernel' \in Seq(Inside(Cap(state')))
    BY <2>1
  <2>5. Sound(state')
    BY <2>3 DEF Fine
  <2> QED
    BY <2>1, <2>3, <2>4, <2>5, InvNext
<1>4. CASE Bypass
  <2>1. PICK got \in Answers(Requested), sys \in Range(Primitives) :
          /\ state' = [Idle EXCEPT !.result = got, !.err = Errno(got)]
          /\ kernel' = <<[sys |-> sys, mem |-> "orig", from |-> 0, asked |-> Requested,
                          got |-> got]>>
          /\ filled' = IF direction = "Reading" THEN Max({got, 0}) ELSE 0
    BY <1>4 DEF Bypass
  <2>2. pc' = "returned" /\ UNCHANGED <<function, vector, claim>>
    BY <1>4 DEF Bypass
  <2>3. got \in Int
    BY <1>1, <2>1 DEF Answers
  <2>4. Max({got, 0}) \in Nat /\ got <= Max({got, 0})
    <3>1. 0 \in Int
      OBVIOUS
    <3>2. Max({got, 0}) >= got
      BY <2>3, <3>1, MaxTwo
    <3> QED
      BY <2>3, <3>2, MaxZero
  <2>5. filled' \in Nat /\ (direction = "Reading" => got <= filled')
    BY <2>1, <2>4
  <2>6. Errno(got) \in {"stale", "system"} /\ (got = -1 => Errno(got) # "stale")
    BY DEF Errno
  <2>7. state' = [buf |-> "null", room |-> 0, len |-> 0, origLen |-> 0, aborted |-> FALSE,
                  done |-> FALSE, err |-> Errno(got), result |-> got]
    BY <2>1 DEF Idle
  <2>8. Sound(state') /\ state'.result = got /\ state'.err = Errno(got)
    BY <1>1, <2>3, <2>6, <2>7 DEF Sound, Record
  <2>9. kernel' \in Seq(Inside(Cap(state')))
    <3> DEFINE k == [sys |-> sys, mem |-> "orig", from |-> 0, asked |-> Requested, got |-> got]
    <3>1. k \in Inside(Cap(state'))
      BY <1>1, <2>3 DEF Inside
    <3>2. kernel' = <<k>>
      BY <2>1
    <3> HIDE DEF k
    <3> QED
      BY <3>1, <3>2
  <2> QED
    BY <2>2, <2>5, <2>6, <2>8, <2>9, InvNext
<1>5. CASE Stop
  <2>1. pc = "walk" /\ pc' = "end" /\ UNCHANGED <<function, vector, state, kernel, claim, filled>>
    BY <1>5 DEF Stop
  <2>2. Fine(state, filled, claim) /\ Sound(state) /\ filled \in Nat
    BY <2>1, Walking
  <2>3. kernel' \in Seq(Inside(Cap(state')))
    BY <2>1 DEF CallInv
  <2> QED
    BY <2>1, <2>2, <2>3, InvNext
<1>6. CASE Return
  <2> DEFINE pending == ~state.done /\ ~state.aborted
  <2>1. PICK got \in Answers(Length(state)) :
          /\ pc = "end" /\ pc' = "returned" /\ UNCHANGED <<function, vector, claim>>
          /\ state' = IF pending THEN Answered(state, got) ELSE state
          /\ kernel' = IF pending THEN kernel \o Ask(state, 0, got) ELSE kernel
          /\ filled' = IF pending THEN Reads(state, got) ELSE filled
    BY <1>6 DEF Return
  <2>2. /\ Fine(state, filled, claim) /\ Sound(state) /\ Requested \in Nat /\ filled \in Nat
        /\ Length(state) \in Nat /\ Length(state) <= Room(state) /\ state.room <= Requested
    BY <2>1, Walking
  <2>3. Fine(state', filled', claim') /\ filled' \in Nat
    BY <2>1, <2>2, AnsweredFine, ReadsType DEF Answers
  <2>4. kernel' \in Seq(Inside(Cap(state')))
    <3>1. CASE pending
      <4>1. Cap(state') = Cap(state) /\ Cap(state) \in Int
        BY <2>1, <2>2, <3>1, AnsweredSound, CapType DEF Cap
      <4>2. Ask(state, 0, got) \in Seq(Inside(Cap(state)))
        BY <1>1, <2>2, AskInside DEF Answers
      <4> QED
        BY <1>1, <2>1, <3>1, <4>1, <4>2, CallsInside
    <3>2. CASE ~pending
      BY <2>1, <3>2 DEF CallInv
    <3> QED
      BY <3>1, <3>2
  <2> QED
    BY <2>1, <2>3, <2>4, InvNext DEF Fine
<1>7. CASE Next /\ ~Begin /\ ~Bypass /\ ~Stop /\ ~Return
  <2>1. WalkStep /\ UNCHANGED <<function, vector>>
    BY <1>7, TaskStep
  <2>2. Fine(state', filled', claim')
    BY <2>1 DEF WalkStep, Fine, Sound, Requested, direction
  <2>3. Sound(state') /\ Sound(state)
    BY <2>2 DEF Fine, CallInv
  <2>4. kernel' \in Seq(Inside(Cap(state')))
    BY <1>1, <2>1, <2>3, CapType, CallsInside DEF WalkStep, Inside, Cap, Requested, direction
  <2> QED
    BY <2>1, <2>2, <2>3, <2>4, InvNext DEF WalkStep
<1> QED
  BY <1>2, <1>3, <1>4, <1>5, <1>6, <1>7

-----------------------------------------------------------------------------
(* A split of no byte.                                                     *)

\* Of all the steps of a call, only a split of no byte spoils it.
LEMMA OnlySplit ==
  ASSUME Next, ~emptied, emptied'
  PROVE  \E p \in Percents : /\ Split(p) /\ ~state.done /\ ~state.aborted
                             /\ direction \in Data /\ Length(state) = 0
<1>1. CASE \E p \in Percents : Split(p)
  BY <1>1 DEF Split
<1>2. CASE Begin \/ Bypass \/ Stop \/ Return
  BY <1>2 DEF Begin, Bypass, Stop, Return
<1>3. CASE Syscall \/ Drop \/ CancelSyscall \/ Error \/ Emit \/ Reset \/ Alter
  BY <1>3 DEF Syscall, Drop, CancelSyscall, Error, Emit, Fail, Reset, Alter
<1>4. CASE ErrorInvalid \/ Nop \/ Echo \/ Log \/ Dump \/ ReplayUnreadable
  BY <1>4 DEF ErrorInvalid, Nop, Echo, Log, Dump, ReplayUnreadable, Quiet
<1>5. CASE \E n \in Sizes : Truncate(n)
  BY <1>5 DEF Truncate, Quiet
<1>6. CASE \E e \in Traced : ReplayUnfit(e) \/ Replay(e)
  BY <1>6 DEF ReplayUnfit, Replay, Quiet
<1> QED
  BY <1>1, <1>2, <1>3, <1>4, <1>5, <1>6 DEF Next

\* What the record becomes when a system call is made, whatever it is.
LEMMA AnsweredIs ==
  ASSUME NEW s, s \in Record, NEW got \in Int
  PROVE  LET r == Answered(s, got) IN
         /\ r \in Record /\ r.aborted = s.aborted /\ r.buf = s.buf
         /\ ~s.aborted => r.done /\ r.result = got /\ (got = -1 => r.err # "stale")
         /\ s.aborted => r = s
<1> DEFINE m == Max({got, 0})
<1>1. m \in Nat
  BY MaxZero
<1> HIDE DEF m
<1>2. Errno(got) \in {"stale", "system"} /\ (got = -1 => Errno(got) # "stale")
  BY DEF Errno
<1>3. CASE s.aborted
  BY <1>3 DEF Answered
<1>4. CASE ~s.aborted
  <2>1. Answered(s, got) = [s EXCEPT !.result = got, !.done = TRUE, !.err = Errno(got),
                              !.origLen = m, !.len = IF s.buf = "null" THEN @ ELSE m]
    BY <1>4 DEF Answered, m
  <2> QED  BY <1>1, <1>2, <1>4, <2>1 DEF Record
<1> QED  BY <1>3, <1>4

\* The record while a part of a write is made, and after it, whatever its lengths.
LEMMA PartIs ==
  ASSUME NEW s, s \in Record, NEW n \in Nat
  PROVE  /\ Part(s, n) \in Record /\ Part(s, n).aborted = s.aborted
         /\ Part(s, n).done = s.done /\ Length(Part(s, n)) = n
<1>1. Memory(s) \in {"orig", "own"}
  BY DEF Memory, Record
<1>2. Part(s, n) = [s EXCEPT !.buf = Memory(s), !.len = n]
  BY DEF Part
<1>3. Part(s, n) \in Record /\ Part(s, n).buf = Memory(s) /\ Part(s, n).len = n
      /\ Part(s, n).aborted = s.aborted /\ Part(s, n).done = s.done
  BY <1>1, <1>2 DEF Record
<1> QED  BY <1>1, <1>3 DEF Length

LEMMA RestoreIs ==
  ASSUME NEW s, s \in Record, NEW r, r \in Record
  PROVE  /\ Restore(s, r) \in Record /\ Restore(s, r).buf = s.buf
         /\ Restore(s, r).done = r.done /\ Restore(s, r).result = r.result
         /\ Restore(s, r).err = r.err
<1>1. Restore(s, r) = [r EXCEPT !.buf = s.buf, !.len = s.len]
  BY DEF Restore
<1> QED  BY <1>1 DEF Record

\* A system call is one of those that are made.
LEMMA AskMade ==
  ASSUME NEW s, s \in Record, NEW from \in Nat, NEW got \in Int, function \in DOMAIN Directions
  PROVE  Ask(s, from, got) \in Seq(Made)
<1> DEFINE k == [sys |-> Primitives[function], mem |-> Memory(s), from |-> from,
                 asked |-> Length(s), got |-> got]
<1>1. Primitives[function] \in Range(Primitives)
  BY DEF Range, Directions, Primitives
<1>2. Memory(s) \in {"orig", "own"} /\ Length(s) \in Nat
  BY DEF Memory, Length, Record
<1>3. k \in Made
  BY <1>1, <1>2 DEF Made
<1>4. <<k>> \in Seq(Made) /\ <<>> \in Seq(Made)
  BY <1>3
<1> QED  BY <1>4 DEF Ask

\* What is said of a spoilt call, from what is said of its parts.
LEMMA SpoiltNext ==
  ASSUME function \in DOMAIN Directions, vector \in Vectors, UNCHANGED <<function, vector>>,
         emptied', state' \in Record, state'.done, pc' \in {"walk", "end", "returned"},
         filled' \in Nat, kernel' \in Seq(Made),
         direction = "Writing" => state'.buf # "orig",
         direction = "Reading" => state'.buf = "orig",
         state'.result = -1 /\ claim' # "cancel" => state'.err # "stale",
         direction = "Reading" /\ claim' # "drop" => state'.result <= filled'
  PROVE  Spoilt'
BY DEF Spoilt, direction

\* Such a split leaves the call done, with an answer that the system calls gave.
LEMMA SpoilStep ==
  ASSUME CallInv, [Next]_vars, emptied'
  PROVE  Spoilt' /\ pc' = "walk"
<1>1. ~emptied /\ Next
  BY DEF CallInv, vars
<1>2. PICK p \in Percents : /\ Split(p) /\ ~state.done /\ ~state.aborted
                            /\ direction \in Data /\ Length(state) = 0
  BY <1>1, OnlySplit
<1>3. /\ pc = "walk" /\ UNCHANGED <<function, vector, claim>>
      /\ p \in 0 .. 100
  BY <1>2, CallAssumption DEF Split, Task
<1>4. /\ Fine(state, filled, claim) /\ state \in Record /\ filled \in Nat
      /\ function \in DOMAIN Directions /\ vector \in Vectors
  BY <1>3, Walking DEF CallInv
<1>5. kernel \in Seq(Made)
  <2>1. Inside(Cap(state)) \subseteq Made
    BY DEF Inside, Made
  <2> QED  BY <2>1 DEF CallInv
<1>6. CASE direction = "Reading"
  <2>1. SplitRead(p) /\ state.buf = "orig" /\ state.len = 0
    BY <1>2, <1>4, <1>6 DEF Split, Data, Fine, Length
  <2> DEFINE n == Share(p, state.len)
             s == [state EXCEPT !.len = n]
  <2>2. n \in Nat
    BY <1>3, <1>4, ShareType DEF Record
  <2>3. PICK got \in Answers(n) :
          Done(Answered(s, got)) /\ kernel' = kernel \o Ask(s, 0, got) /\ filled' = Reads(s, got)
    BY <2>1 DEF SplitRead
  <2> HIDE DEF n
  <2>4. s \in Record /\ s.buf = "orig" /\ ~s.aborted
    BY <1>2, <1>4, <2>1, <2>2 DEF Record
  <2> HIDE DEF s
  <2>5. got \in Int
    BY <2>2, <2>3 DEF Answers
  <2>6. state' = Answered(s, got) /\ pc' = "walk"
    BY <2>3 DEF Done
  <2>7. /\ state' \in Record /\ state'.buf = "orig" /\ state'.done /\ state'.result = got
        /\ got = -1 => state'.err # "stale"
    BY <2>4, <2>5, <2>6, AnsweredIs
  <2>8. filled' \in Nat /\ got <= filled'
    <3>1. filled \in Int /\ filled' = Max({filled, got})
      BY <1>4, <1>6, <2>3, <2>4 DEF Reads
    <3>2. filled' \in {filled, got} /\ filled' >= filled /\ filled' >= got
      BY <2>5, <3>1, MaxTwo
    <3> QED  BY <1>4, <2>5, <3>2
  <2>9. kernel' \in Seq(Made)
    BY <1>4, <1>5, <2>3, <2>4, <2>5, AskMade, Appended
  <2> QED  BY <1>3, <1>4, <1>6, <2>6, <2>7, <2>8, <2>9, SpoiltNext
<1>7. CASE direction = "Writing"
  <2> DEFINE first == Share(p, Length(state))
             rest == Less(Length(state), first)
             P1 == Part(state, first)
  <2>1. first \in Nat /\ rest \in Nat
    <3> DEFINE n == Length(state)
    <3>1. n \in Nat
      BY <1>2
    <3> HIDE DEF n
    <3>2. Share(p, n) \in Nat /\ Share(p, n) <= n + 1
      BY <1>3, <3>1, ShareType
    <3>3. Less(n, Share(p, n)) \in Nat
      BY <3>1, <3>2, LessType
    <3> QED  BY <3>2, <3>3 DEF n
  <2>0. InTwo(state, first) /\ filled' = filled
    BY <1>2, <1>7 DEF Split, Data
  <2>2. PICK got1 \in Answers(first), got2 \in Answers(rest) :
          LET r1 == Answered(P1, got1)
              s2 == Part(r1, rest)
              r2 == Answered(s2, got2) IN
          IF got1 # first
          THEN Done(Restore(state, r1)) /\ kernel' = kernel \o Ask(P1, 0, got1)
          ELSE /\ Done(Restore(state, [r2 EXCEPT !.result = Max({got2, 0}) + first]))
               /\ kernel' = kernel \o Ask(P1, 0, got1) \o Ask(s2, first, got2)
    BY <2>0 DEF InTwo
  <2>3. filled' = filled /\ state.buf # "orig"
    BY <1>4, <1>7, <2>0 DEF Fine
  <2> HIDE DEF first, rest
  <2> DEFINE r1 == Answered(P1, got1)
             s2 == Part(r1, rest)
             r2 == Answered(s2, got2)
             r3 == [r2 EXCEPT !.result = Max({got2, 0}) + first]
  <2>4. got1 \in Int /\ got2 \in Int
    BY <2>1, <2>2 DEF Answers
  <2>5. P1 \in Record /\ ~P1.aborted
    BY <1>2, <1>4, <2>1, PartIs
  <2>6. /\ r1 \in Record /\ ~r1.aborted /\ r1.done /\ r1.result = got1
        /\ got1 = -1 => r1.err # "stale"
    BY <2>4, <2>5, AnsweredIs
  <2>7. Ask(P1, 0, got1) \in Seq(Made)
    BY <1>4, <2>4, <2>5, AskMade
  <2>8. CASE got1 # first
    <3>1. state' = Restore(state, r1) /\ pc' = "walk" /\ kernel' = kernel \o Ask(P1, 0, got1)
      BY <2>2, <2>8 DEF Done
    <3>2. /\ state' \in Record /\ state'.buf = state.buf /\ state'.done
          /\ state'.result = -1 => state'.err # "stale"
      BY <1>4, <2>6, <3>1, RestoreIs
    <3>3. kernel' \in Seq(Made)
      BY <1>5, <2>7, <3>1, Appended
    <3> QED  BY <1>3, <1>4, <1>7, <2>3, <3>1, <3>2, <3>3, SpoiltNext
  <2>9. CASE got1 = first
    <3>1. /\ state' = Restore(state, r3) /\ pc' = "walk"
          /\ kernel' = (kernel \o Ask(P1, 0, got1)) \o Ask(s2, first, got2)
      BY <2>2, <2>9 DEF Done
    <3>2. s2 \in Record /\ ~s2.aborted
      BY <2>1, <2>6, PartIs
    <3>3. r2 \in Record /\ r2.done
      BY <2>4, <3>2, AnsweredIs
    <3> DEFINE m == Max({got2, 0}) + first
    <3>4. m \in Nat
      BY <2>1, <2>4, MaxZero
    <3> HIDE DEF m
    <3>5. r3 = [r2 EXCEPT !.result = m]
      BY DEF m
    <3>6. Ask(s2, first, got2) \in Seq(Made)
      BY <1>4, <2>1, <2>4, <3>2, AskMade
    <3> HIDE DEF r2, r3, s2
    <3>7. r3 \in Record /\ r3.done /\ r3.result # -1
      BY <3>3, <3>4, <3>5 DEF Record
    <3>8. state' \in Record /\ state'.buf = state.buf /\ state'.done /\ state'.result # -1
      BY <1>4, <3>1, <3>7, RestoreIs
    <3>9. kernel' \in Seq(Made)
      BY <1>5, <2>7, <3>1, <3>6, Appended
    <3> QED  BY <1>3, <1>4, <1>7, <2>3, <3>1, <3>8, <3>9, SpoiltNext
  <2> QED  BY <2>8, <2>9
<1> QED  BY <1>2, <1>6, <1>7 DEF Data

\* What may still happen to such a call: nothing, or the system call once more.
Repeats ==
  \/ UNCHANGED <<state, kernel, claim, filled>> /\ (repeated' <=> repeated)
  \/ \E got \in Answers(Length(state)) :
       /\ ~state.aborted
       /\ state' = Answered(state, got) /\ kernel' = kernel \o Ask(state, 0, got)
       /\ repeated' /\ claim' = "none" /\ filled' = Reads(state, got)

LEMMA SpoiltMoves ==
  ASSUME Spoilt, [Next]_vars
  PROVE  /\ UNCHANGED <<function, vector>> /\ emptied' /\ Repeats
         /\ \/ UNCHANGED <<pc, state, given>>
            \/ pc' \in {"walk", "end"}
            \/ pc' = "returned" /\ given' = Returned(state'.result)
<1>1. /\ emptied /\ state.done /\ state \in Record /\ kernel \in Seq(Made) /\ pc # "ready"
      /\ direction = "Reading" => state.buf # "null"
      /\ kernel \o <<>> = kernel
  BY ConcatEmptySeq DEF Spoilt
<1>2. CASE UNCHANGED vars
  BY <1>1, <1>2 DEF vars, Repeats
<1>3. CASE Begin \/ Bypass
  BY <1>1, <1>3 DEF Begin, Bypass
<1>4. CASE Stop
  BY <1>1, <1>4 DEF Stop, Repeats
<1>5. CASE Return
  BY <1>1, <1>5 DEF Return, Repeats
<1>6. CASE Syscall
  <2>1. PICK got \in Answers(Length(state)) :
          /\ IF state.aborted THEN Refuse(state) ELSE Done(Answered(state, got))
          /\ kernel' = kernel \o Ask(state, 0, got)
          /\ filled' = Reads(state, got)
          /\ repeated' = (repeated \/ (state.done /\ ~state.aborted))
          /\ claim' = IF state.aborted THEN claim ELSE "none"
          /\ UNCHANGED <<function, vector, emptied>>
    BY <1>6 DEF Syscall
  <2>2. CASE state.aborted
    <3>1. Ask(state, 0, got) = <<>> /\ Reads(state, got) = filled
      BY <2>2 DEF Ask, Reads
    <3>2. (repeated' <=> repeated) /\ state' = state /\ pc' = "end" /\ claim' = claim
          /\ kernel' = kernel /\ filled' = filled
      BY <1>1, <2>1, <2>2, <3>1 DEF Refuse
    <3> QED  BY <1>1, <2>1, <3>2 DEF Repeats
  <2>3. CASE ~state.aborted
    BY <1>1, <2>1, <2>3 DEF Done, Repeats
  <2> QED  BY <2>2, <2>3
<1>7. CASE Drop \/ CancelSyscall \/ Error \/ Emit \/ Reset
  <2>1. UNCHANGED <<function, vector, state, kernel, repeated, emptied, claim, filled>>
        /\ pc' = "end"
    BY <1>1, <1>7 DEF Drop, CancelSyscall, Error, Emit, Fail, Reset, Refuse
  <2> QED  BY <1>1, <2>1 DEF Repeats
<1>8. CASE Alter
  <2>1. Prepared(state) = state \/ direction # "Reading"
    BY <1>1 DEF Prepared
  <2> QED  BY <1>1, <1>8, <2>1 DEF Alter, Data, Refuse, Done, Repeats
<1>9. CASE ErrorInvalid \/ Nop \/ Echo \/ Log \/ Dump \/ ReplayUnreadable
  <2>1. UNCHANGED <<function, vector, state, kernel, repeated, emptied, claim, filled>>
        /\ pc' \in {"walk", "end"}
    BY <1>9 DEF ErrorInvalid, Nop, Echo, Log, Dump, ReplayUnreadable, Quiet, Refuse, Done
  <2> QED  BY <1>1, <2>1 DEF Repeats
<1>10. CASE \E n \in Sizes : Truncate(n)
  BY <1>1, <1>10 DEF Truncate, Quiet, Refuse, Repeats
<1>11. ASSUME NEW p \in Percents, Split(p)
       PROVE  /\ UNCHANGED <<function, vector, state, kernel, repeated, claim, filled>>
              /\ pc' = "end" /\ emptied'
  <2>1. UNCHANGED <<function, vector, state, kernel, repeated, claim, filled>> /\ pc' = "end"
    BY <1>1, <1>11 DEF Split, Refuse
  <2>2. emptied' = (emptied \/ (~state.done /\ ~state.aborted /\ direction \in Data
                                 /\ Length(state) = 0))
    BY <1>11 DEF Split
  <2> QED  BY <1>1, <2>1, <2>2, Zenon
<1>12. CASE \E e \in Traced : ReplayUnfit(e) \/ Replay(e)
  BY <1>1, <1>12 DEF ReplayUnfit, Replay
<1> QED
  BY <1>2, <1>3, <1>4, <1>5, <1>6, <1>7, <1>8, <1>9, <1>10, <1>11, <1>12 DEF Next, Repeats

LEMMA SpoiltStep ==
  ASSUME Spoilt, [Next]_vars
  PROVE  Spoilt'
<1>1. /\ state.done /\ state \in Record /\ kernel \in Seq(Made) /\ filled \in Nat
      /\ function \in DOMAIN Directions /\ vector \in Vectors
  BY DEF Spoilt
<1>2. /\ UNCHANGED <<function, vector>> /\ emptied' /\ Repeats
      /\ pc' \in {"walk", "end", "returned"}
  BY SpoiltMoves DEF Spoilt
<1>3. CASE UNCHANGED <<state, kernel, claim, filled>>
  BY <1>1, <1>2, <1>3, SpoiltNext DEF Spoilt
<1>4. ASSUME NEW got \in Answers(Length(state)), ~state.aborted,
             state' = Answered(state, got), kernel' = kernel \o Ask(state, 0, got),
             claim' = "none", filled' = Reads(state, got)
      PROVE  Spoilt'
  <2>1. got \in Int
    BY <1>1, <1>4 DEF Answers, Length, Record
  <2>2. /\ state' \in Record /\ state'.buf = state.buf /\ state'.done /\ state'.result = got
        /\ got = -1 => state'.err # "stale"
    BY <1>1, <1>4, <2>1, AnsweredIs
  <2>3. kernel' \in Seq(Made)
    BY <1>1, <1>4, <2>1, AskMade, Appended
  <2>4. filled' \in Nat /\ (direction = "Reading" => got <= filled')
    <3>1. filled \in Int
      BY <1>1
    <3>2. /\ Max({filled, got}) \in {filled, got}
          /\ Max({filled, got}) >= filled /\ Max({filled, got}) >= got
      BY <2>1, <3>1, MaxTwo
    <3> QED  BY <1>1, <1>4, <2>1, <3>2 DEF Reads
  <2> QED  BY <1>1, <1>2, <2>2, <2>3, <2>4, SpoiltNext DEF Spoilt
<1> QED  BY <1>2, <1>3, <1>4 DEF Repeats

\* The invariant holds of every call, with any rules, until a split is made of no byte.
THEOREM CallInvariant == Spec => []Inv
<1>1. Init => CallInv
  <2> SUFFICES ASSUME Init PROVE CallInv
    OBVIOUS
  <2>1. function \in DOMAIN Directions /\ vector \in Vectors /\ Requested \in Nat
    BY CallAssumption, RequestedType DEF Init
  <2>2. Sound(state)
    BY <2>1 DEF Init, Idle, Sound, Record
  <2> QED
    BY <2>1, <2>2 DEF Init, CallInv
<1>2. CallInv /\ [Next]_vars => CallInv' \/ Spoilt'
  BY InvStep, SpoilStep
<1>3. Spoilt /\ [Next]_vars => Spoilt'
  BY SpoiltStep
<1>4. Init => Inv
  BY <1>1 DEF Inv
<1>5. Inv /\ [Next]_vars => Inv'
  BY <1>2, <1>3 DEF Inv
<1> QED
  BY <1>4, <1>5, PTL DEF Spec

-----------------------------------------------------------------------------
(* The properties.                                                          *)

\* Every system call of a call stays within the memory it is given: a buffer of the program,
\* or the copy that alter and replay work on, whatever was truncated or split before
\* (binding.c, actionsdk.c), unless a split was made of no byte (split.c).
THEOREM WithinBufferCorrect == Spec => []WithinBuffer
<1>1. CallInv => WithinBuffer
  <2> SUFFICES ASSUME CallInv, NEW i \in DOMAIN kernel
               PROVE  kernel[i].from + kernel[i].asked
                        <= IF kernel[i].mem = "own" THEN state.room ELSE Requested
    BY DEF WithinBuffer
  <2>1. kernel \in Seq(Inside(Cap(state))) /\ Requested \in Nat /\ state \in Record
    BY RequestedType DEF CallInv, Sound
  <2>2. kernel[i] \in Inside(Cap(state))
    BY <2>1
  <2>3. /\ kernel[i].from + kernel[i].asked <= IF kernel[i].mem = "own" THEN Cap(state)
                                                                          ELSE Requested
        /\ kernel[i].from \in Nat /\ kernel[i].asked \in Nat
    BY <2>2 DEF Inside
  <2>4. Cap(state) <= state.room /\ Cap(state) \in Int /\ state.room \in Nat
    BY <2>1 DEF Cap, Record
  <2> QED
    BY <2>1, <2>3, <2>4
<1>2. Inv => WithinBuffer
  BY <1>1 DEF Inv, Spoilt, WithinBuffer
<1> QED
  BY <1>2, CallInvariant, PTL

\* What a write frees when it returns is a copy made by a task (the wrappers of binding.c).
THEOREM FreesOwnCorrect == Spec => []FreesOwn
<1>1. CallInv => FreesOwn
  BY Walking DEF FreesOwn, Fine, Record, CallInv
<1>2. Inv => FreesOwn
  BY <1>1 DEF Inv, Spoilt, FreesOwn, Record
<1> QED
  BY <1>2, CallInvariant, PTL

\* A call that answers -1 says why, whichever task or system call failed it, but for
\* cancel-syscall.
THEOREM FailureExplainedCorrect == Spec => []FailureExplained
<1>1. Inv => FailureExplained
  BY DEF Inv, CallInv, Spoilt, FailureExplained, Ended
<1> QED
  BY <1>1, CallInvariant, PTL

\* A read never announces bytes that nobody put in the buffer, but for drop.
THEOREM ReadFilledCorrect == Spec => []ReadFilled
<1>1. Inv => ReadFilled
  BY DEF Inv, CallInv, Spoilt, ReadFilled, Ended
<1> QED
  BY <1>1, CallInvariant, PTL

\* Whenever dump is performed, what it writes of the answer is what replay will look for.
THEOREM DumpReadableCorrect == Spec => []DumpReadable
<1>1. Inv => DumpReadable
  <2> SUFFICES ASSUME Inv, pc = "walk" PROVE DumpReadable
    BY DEF DumpReadable
  <2> DEFINE settled == state.done \/ state.aborted
             success == IF ~settled THEN 0 ELSE IF state.result = -1 THEN -1 ELSE 1
  <2>1. state.result = -1 => settled
    BY Walking DEF Fine, Inv, Spoilt
  <2>2. settled /\ state.result = -1 <=> success = -1
    OBVIOUS
  <2>3. state.result # -1 <=> success # -1
    BY <2>1, <2>2
  <2>4. /\ Dumped.success = success /\ Dumped.error = (settled /\ state.result = -1)
        /\ Dumped.data = (direction \in Data /\ state.result # -1)
    BY DEF Dumped
  <2>5. HasData([direction |-> direction, success |-> Dumped.success])
          = (direction \in Data /\ success # -1)
    BY <2>4 DEF HasData
  <2> HIDE DEF settled, success
  <2> QED
    BY <2>2, <2>3, <2>4, <2>5 DEF DumpReadable
<1> QED
  BY <1>1, CallInvariant, PTL

\* An aborted call makes no system call any more, by whichever task and at its return.
THEOREM AbortFinalCorrect == Spec => AbortFinal
<1>1. CallInv /\ [Next]_vars => [state.aborted => kernel' = kernel]_vars
  <2> SUFFICES ASSUME CallInv, Next, state.aborted
               PROVE  kernel' = kernel
    BY DEF vars
  <2>0. ~emptied'
    BY OnlySplit DEF CallInv
  <2>1. kernel \o <<>> = kernel
    BY ConcatEmptySeq DEF CallInv
  <2>2. pc # "ready"
    BY DEF CallInv, Idle
  <2>3. CASE Begin \/ Bypass \/ Stop
    BY <2>2, <2>3 DEF Begin, Bypass, Stop
  <2>4. CASE Return
    BY <2>4 DEF Return
  <2>5. CASE ~Begin /\ ~Bypass /\ ~Stop /\ ~Return
    BY <2>0, <2>1, <2>5, TaskStep DEF WalkStep
  <2> QED
    BY <2>3, <2>4, <2>5
<1>2. Spoilt /\ [Next]_vars => [state.aborted => kernel' = kernel]_vars
  BY SpoiltMoves DEF Repeats
<1>3. Inv /\ [Next]_vars => [state.aborted => kernel' = kernel]_vars
  BY <1>1, <1>2 DEF Inv
<1> QED
  BY <1>3, CallInvariant, PTL DEF Spec, AbortFinal

-----------------------------------------------------------------------------
(* What a write tells of the bytes that went.                               *)

\* The system calls of a write, and the answer of the call: one system call and its answer, or
\* the two of split, the second for what the first left.
Sent(k, result) ==
  /\ Len(k) \in {1, 2}
  /\ k[1].from = 0 /\ k[1].got \in Int /\ k[1].got >= -1
  /\ Len(k) = 1 => result = k[1].got
  /\ Len(k) = 2 => /\ k[1].got = k[1].asked /\ k[1].got \in Nat
                   /\ k[2].from = k[1].got /\ k[2].got \in Int
                   /\ result = Max({k[2].got, 0}) + k[1].got

\* A call that is not done has made no system call, one that is done answers for those it made.
SentInv ==
  direction = "Writing" /\ ~repeated =>
    /\ pc # "returned" /\ ~state.done => kernel = <<>>
    /\ kernel # <<>> => Sent(kernel, state.result)

\* One system call, and two.
LEMMA OneOf ==
  ASSUME NEW s, NEW k, s = <<k>>
  PROVE  Len(s) = 1 /\ s[1] = k
OBVIOUS

LEMMA TwoOf ==
  ASSUME NEW c, NEW d, NEW s, s = (<<>> \o <<c>>) \o <<d>>
  PROVE  Len(s) = 2 /\ s[1] = c /\ s[2] = d
<1>1. <<c>> \in Seq({c, d}) /\ <<d>> \in Seq({c, d}) /\ <<>> \in Seq({c, d})
  OBVIOUS
<1>2. Len(<<c>>) = 1 /\ <<c>>[1] = c /\ Len(<<d>>) = 1 /\ <<d>>[1] = d
  OBVIOUS
<1>3. <<>> \o <<c>> = <<c>>
  OBVIOUS
<1>4. s = <<c>> \o <<d>>
  BY <1>3, Zenon
<1> QED  BY <1>1, <1>2, <1>4, ConcatProperties

\* A step that makes no system call, in a call whose answer stands once it is done.
LEMMA SentKept ==
  ASSUME CallInv, SentInv, UNCHANGED <<function, kernel>>, repeated' = repeated, pc # "returned",
         state.done => state'.done /\ state'.result = state.result
  PROVE  SentInv'
BY DEF SentInv, direction

\* The first system call of a write.
LEMMA SentOnce ==
  ASSUME CallInv, SentInv, UNCHANGED function, repeated' = repeated, direction = "Writing",
         pc # "returned", ~state.done, NEW s, NEW n \in Nat, NEW got \in Answers(n),
         kernel' = kernel \o Ask(s, 0, got),
         s.aborted => ~state'.done, ~s.aborted => state'.done /\ state'.result = got
  PROVE  SentInv'
<1>1. got \in Int /\ got >= -1
  BY DEF Answers
<1>2. CASE repeated
  BY <1>2 DEF SentInv
<1>3. CASE ~repeated /\ s.aborted
  <2>1. kernel = <<>> /\ kernel' = <<>> \o <<>>
    BY <1>3 DEF SentInv, Ask
  <2>2. kernel' = <<>>
    BY <2>1
  <2> QED  BY <2>2 DEF SentInv
<1>4. CASE ~repeated /\ ~s.aborted
  <2> DEFINE k == [sys |-> Primitives[function], mem |-> Memory(s), from |-> 0,
                   asked |-> Length(s), got |-> got]
  <2>1. kernel = <<>> /\ kernel' = kernel \o <<k>>
    BY <1>4 DEF SentInv, Ask
  <2>2. k.from = 0 /\ k.got = got
    OBVIOUS
  <2> HIDE DEF k
  <2>3. kernel' = <<k>>
    BY <2>1
  <2>4. Len(kernel') = 1 /\ kernel'[1] = k
    BY <2>3, OneOf, Zenon
  <2>5. Sent(kernel', state'.result)
    BY <1>1, <1>4, <2>2, <2>4 DEF Sent
  <2> QED  BY <1>4, <2>5 DEF SentInv
<1> QED  BY <1>2, <1>3, <1>4

\* The two parts of a write: one system call when the first part is short, two when it goes whole.
LEMMA SentInTwo ==
  ASSUME CallInv, SentInv, pc = "walk", direction = "Writing", ~state.aborted, ~state.done,
         NEW first \in Nat, first <= Length(state) + 1, InTwo(state, first),
         UNCHANGED <<function, repeated>>
  PROVE  SentInv'
<1>1. state \in Record /\ Length(state) \in Nat
  BY Walking
<1> DEFINE rest == Less(Length(state), first)
           P1 == Part(state, first)
<1>2. rest \in Nat
  BY <1>1, LessType
<1>3. PICK got1 \in Answers(first), got2 \in Answers(rest) :
        LET r1 == Answered(P1, got1)
            s2 == Part(r1, rest)
            r2 == Answered(s2, got2) IN
        IF got1 # first
        THEN Done(Restore(state, r1)) /\ kernel' = kernel \o Ask(P1, 0, got1)
        ELSE /\ Done(Restore(state, [r2 EXCEPT !.result = Max({got2, 0}) + first]))
             /\ kernel' = kernel \o Ask(P1, 0, got1) \o Ask(s2, first, got2)
  BY DEF InTwo
<1> DEFINE r1 == Answered(P1, got1)
           s2 == Part(r1, rest)
           r2 == Answered(s2, got2)
           r3 == [r2 EXCEPT !.result = Max({got2, 0}) + first]
<1>4. got1 \in Int /\ got2 \in Int /\ got1 >= -1
  BY <1>2 DEF Answers
<1>5. P1 \in Record /\ ~P1.aborted /\ Length(P1) = first
  BY <1>1, PartIs
<1>6. r1 \in Record /\ ~r1.aborted /\ r1.done /\ r1.result = got1
  <2>1. P1 \in Record /\ ~P1.aborted /\ got1 \in Int
    BY <1>4, <1>5
  <2>2. ASSUME NEW p \in Record, ~p.aborted, NEW g \in Int
        PROVE  LET a == Answered(p, g) IN a \in Record /\ ~a.aborted /\ a.done /\ a.result = g
    BY <2>2, AnsweredIs
  <2> HIDE DEF P1
  <2> QED  BY <2>1, <2>2, Zenon
<1>7. \A r \in Record : /\ Restore(state, r).done = r.done
                        /\ Restore(state, r).result = r.result
  BY <1>1, RestoreIs
<1>8. CASE got1 # first
  <2>1. state' = Restore(state, r1) /\ kernel' = kernel \o Ask(P1, 0, got1)
    BY <1>3, <1>8 DEF Done
  <2>2. state'.done /\ state'.result = got1
    BY <1>6, <1>7, <2>1
  <2> QED  BY <1>2, <1>5, <2>1, <2>2, SentOnce
<1>9. CASE got1 = first
  <2>1. state' = Restore(state, r3) /\ kernel' = (kernel \o Ask(P1, 0, got1)) \o Ask(s2, first, got2)
    BY <1>3, <1>9 DEF Done
  <2>3. s2 \in Record /\ ~s2.aborted
    BY <1>2, <1>6, PartIs
  <2>4. r2 \in Record /\ r2.done
    BY <1>4, <2>3, AnsweredIs
  <2> DEFINE m == Max({got2, 0})
  <2>5. m \in Nat
    BY <1>4, MaxZero
  <2> HIDE DEF m
  <2>6. r3 = [r2 EXCEPT !.result = m + first]
    BY DEF m
  <2> HIDE DEF r2, r3
  <2>7. r3 \in Record /\ r3.done /\ r3.result = m + first
    BY <1>2, <2>4, <2>5, <2>6 DEF Record
  <2>8. state'.done /\ state'.result = m + first
    BY <1>7, <2>1, <2>7
  <2> DEFINE c == [sys |-> Primitives[function], mem |-> Memory(P1), from |-> 0,
                   asked |-> Length(P1), got |-> got1]
             d == [sys |-> Primitives[function], mem |-> Memory(s2), from |-> first,
                   asked |-> Length(s2), got |-> got2]
  <2>9. Ask(P1, 0, got1) = <<c>> /\ Ask(s2, first, got2) = <<d>>
    BY <1>5, <2>3 DEF Ask
  <2>10. c.from = 0 /\ c.got = first /\ c.asked = first /\ d.from = first /\ d.got = got2
    BY <1>5, <1>9
  <2>11. kernel' = (kernel \o <<c>>) \o <<d>>
    BY <2>1, <2>9
  <2> HIDE DEF c, d, r1, s2, P1
  <2>12. CASE repeated
    BY <2>12 DEF SentInv
  <2>13. CASE ~repeated
    <3>1. kernel = <<>>
      BY <2>13 DEF SentInv
    <3>2. kernel' = (<<>> \o <<c>>) \o <<d>>
      BY <2>11, <3>1
    <3>3. Len(kernel') = 2 /\ kernel'[1] = c /\ kernel'[2] = d
      <4> DEFINE s == kernel'
      <4>1. s = (<<>> \o <<c>>) \o <<d>>
        BY <3>2
      <4> HIDE DEF s
      <4>2. Len(s) = 2 /\ s[1] = c /\ s[2] = d
        BY <4>1, TwoOf
      <4> QED  BY <4>2 DEF s
    <3>4. Sent(kernel', state'.result)
      <4>1. kernel'[1].from = 0 /\ kernel'[1].got = first /\ kernel'[1].asked = first
            /\ kernel'[2].from = first /\ kernel'[2].got = got2
        BY <2>10, <3>3
      <4>2. Max({kernel'[2].got, 0}) = m
        BY <4>1 DEF m
      <4> QED  BY <1>2, <1>4, <2>5, <2>8, <3>3, <4>1, <4>2 DEF Sent
    <3> QED  BY <2>8, <3>4 DEF SentInv
  <2> QED  BY <2>12, <2>13
<1> QED  BY <1>8, <1>9

\* Each task answers for the system calls that it makes.
LEMMA SentTask ==
  ASSUME CallInv, SentInv, Next, ~Begin, ~Bypass, ~Stop, ~Return
  PROVE  SentInv'
<1>0. pc = "walk" => state \in Record /\ Requested \in Nat /\ Length(state) \in Nat
  BY Walking
<1>1. CASE Syscall
  <2>1. PICK got \in Answers(Length(state)) :
          /\ pc = "walk"
          /\ IF state.aborted THEN Refuse(state) ELSE Done(Answered(state, got))
          /\ kernel' = kernel \o Ask(state, 0, got)
          /\ repeated' = (repeated \/ (state.done /\ ~state.aborted))
          /\ UNCHANGED function
    BY <1>1 DEF Syscall, Task
  <2>2. got \in Int
    BY <1>0, <2>1 DEF Answers
  <2>3. CASE state.aborted
    <3>1. kernel' = kernel /\ state' = state /\ (repeated' <=> repeated)
      BY <2>1, <2>3, ConcatEmptySeq DEF Ask, Refuse, CallInv
    <3> QED  BY <2>1, <3>1 DEF SentInv, direction
  <2>4. CASE ~state.aborted /\ ~state.done /\ direction = "Writing"
    <3>1. state'.done /\ state'.result = got
      <4>1. state' = Answered(state, got) /\ state \in Record
        BY <1>0, <2>1, <2>4 DEF Done
      <4>2. Answered(state, got).done /\ Answered(state, got).result = got
        BY <2>2, <2>4, <4>1, AnsweredIs
      <4> QED  BY <4>1, <4>2
    <3>2. repeated' <=> repeated
      BY <2>1, <2>4
    <3>3. CASE repeated
      BY <3>2, <3>3 DEF SentInv
    <3>4. CASE ~repeated
      <4>1. kernel = <<>> /\ got >= -1
        BY <2>1, <2>4, <3>4 DEF SentInv, Answers
      <4> DEFINE k == [sys |-> Primitives[function], mem |-> Memory(state), from |-> 0,
                       asked |-> Length(state), got |-> got]
      <4>2. kernel' = <<>> \o <<k>> /\ k.from = 0 /\ k.got = got
        BY <2>1, <2>4, <4>1 DEF Ask
      <4> HIDE DEF k
      <4>3. kernel' = <<k>>
        BY <4>2
      <4>4. Len(kernel') = 1 /\ kernel'[1] = k
        BY <4>3, OneOf, Zenon
      <4>5. Sent(kernel', state'.result)
        BY <2>2, <3>1, <4>1, <4>2, <4>4 DEF Sent
      <4> QED  BY <3>1, <4>5 DEF SentInv
    <3> QED  BY <3>3, <3>4
  <2>5. CASE ~state.aborted /\ (state.done \/ direction # "Writing")
    BY <2>1, <2>5 DEF SentInv, direction
  <2> QED  BY <2>3, <2>4, <2>5
<1>2. CASE Drop
  <2>1. pc = "walk" /\ UNCHANGED <<function, kernel, repeated>> /\ (state.done => state' = state)
    BY <1>2 DEF Drop, Task, Refuse
  <2> QED  BY <2>1, SentKept
<1>3. CASE CancelSyscall \/ Error \/ Emit
  <2>1. pc = "walk" /\ UNCHANGED <<function, kernel, repeated>> /\ (state.done => state' = state)
    BY <1>3 DEF CancelSyscall, Error, Emit, Fail, Task, Refuse
  <2> QED  BY <2>1, SentKept
<1>4. CASE ErrorInvalid \/ Nop \/ Echo \/ Log \/ Dump \/ ReplayUnreadable
  <2>1. pc = "walk" /\ UNCHANGED <<function, kernel, repeated>> /\ state' = state
    BY <1>4 DEF ErrorInvalid, Nop, Echo, Log, Dump, ReplayUnreadable, Quiet, Task, Refuse, Done
  <2> QED  BY <2>1, SentKept
<1>5. CASE Reset
  <2>1. pc = "walk" /\ UNCHANGED <<function, kernel, repeated>> /\ (state.done => state' = state)
    BY <1>5 DEF Reset, Task, Refuse
  <2> QED  BY <2>1, SentKept
<1>6. CASE Alter
  <2> DEFINE reads == direction = "Reading" /\ ~state.done
  <2>1. PICK got \in Answers(Length(state)) :
          /\ pc = "walk"
          /\ IF direction \notin Data \/ (direction = "Writing" /\ state.done) THEN Refuse(state)
             ELSE Done(Prepared(IF reads THEN Answered(state, got) ELSE state))
          /\ kernel' = IF reads THEN kernel \o Ask(state, 0, got) ELSE kernel
          /\ UNCHANGED <<function, repeated>>
    BY <1>6 DEF Alter, Task
  <2>2. CASE direction # "Writing"
    BY <2>1, <2>2 DEF SentInv, direction
  <2>3. CASE direction = "Writing"
    <3>1. UNCHANGED <<function, kernel, repeated>> /\ (state.done => state' = state)
      BY <2>1, <2>3 DEF Refuse
    <3> QED  BY <2>1, <3>1, SentKept
  <2> QED  BY <2>2, <2>3
<1>7. ASSUME NEW n \in Sizes, Truncate(n) PROVE SentInv'
  <2>1. pc = "walk" /\ UNCHANGED <<function, kernel, repeated>> /\ (state.done => state' = state)
    BY <1>7 DEF Truncate, Quiet, Task, Refuse
  <2> QED  BY <2>1, SentKept
<1>8. ASSUME NEW p \in Percents, Split(p) PROVE SentInv'
  <2>1. pc = "walk" /\ UNCHANGED <<function, repeated>>
    BY <1>8 DEF Split, Task
  <2>2. CASE direction # "Writing"
    BY <2>1, <2>2 DEF SentInv, direction
  <2>3. CASE state.done \/ state.aborted \/ direction \notin Data
    <3>1. state' = state /\ kernel' = kernel
      BY <1>8, <2>3 DEF Split, Refuse
    <3> QED  BY <2>1, <3>1, SentKept
  <2>4. CASE direction = "Writing" /\ ~state.done /\ ~state.aborted /\ Length(state) = 1
    <3>1. PICK got \in Answers(Length(state)) :
            Done(Answered(state, got)) /\ kernel' = kernel \o Ask(state, 0, got)
      BY <1>8, <2>4 DEF Split, Data, Whole
    <3>2. state'.done /\ state'.result = got
      <4>1. state \in Record /\ got \in Int /\ state' = Answered(state, got)
        BY <1>0, <2>1, <3>1 DEF Done, Answers
      <4>2. Answered(state, got).done /\ Answered(state, got).result = got
        BY <2>4, <4>1, AnsweredIs
      <4> QED  BY <4>1, <4>2
    <3> QED  BY <1>0, <2>1, <2>4, <3>1, <3>2, SentOnce
  <2>5. CASE direction = "Writing" /\ ~state.done /\ ~state.aborted /\ Length(state) # 1
    <3>1. InTwo(state, Share(p, Length(state)))
      BY <1>8, <2>5 DEF Split, Data
    <3>3. Share(p, Length(state)) \in Nat /\ Share(p, Length(state)) <= Length(state) + 1
      BY <1>0, <2>1, ShareType, CallAssumption
    <3> QED  BY <2>1, <2>5, <3>1, <3>3, SentInTwo
  <2> QED  BY <2>2, <2>3, <2>4, <2>5
<1>9. ASSUME NEW e \in Traced, ReplayUnfit(e) PROVE SentInv'
  <2>1. pc = "walk" /\ UNCHANGED <<function, kernel, repeated>> /\ ~state.done
    BY <1>9 DEF ReplayUnfit, Quiet, Task
  <2> QED  BY <2>1, SentKept
<1>10. ASSUME NEW e \in Traced, Replay(e) PROVE SentInv'
  <2> DEFINE s == Played(Loaded(e), e)
  <2>1. PICK got \in Answers(Requested) :
          /\ pc = "walk" /\ ~state.done /\ UNCHANGED <<function, repeated>>
          /\ HasData(e) => Fits(Loaded(e), e)
          /\ direction = "Writing" =>
               /\ got <= Length(s)
               /\ Done([Answered(s, got) EXCEPT !.aborted = TRUE])
               /\ kernel' = kernel \o Ask(s, 0, got)
    BY <1>10 DEF Replay, Task
  <2>2. CASE direction # "Writing"
    BY <2>1, <2>2 DEF SentInv, direction
  <2>3. CASE direction = "Writing"
    <3>1. /\ Fine(Loaded(e), filled, claim)
          /\ HasData(e) => Loaded(e).buf # "null"
      BY <2>1, Walking, LoadedFine
    <3>2. Sound(s) /\ s.done = Loaded(e).done
      <4>1. Sound(Loaded(e)) /\ Loaded(e).room <= Requested
        BY <3>1 DEF Fine
      <4> QED  BY <1>0, <2>1, <3>1, <4>1, PlayedSound
    <3>3. Loaded(e).done = state.done
      BY <1>0, <2>1 DEF Loaded, Prepared, Record
    <3>4. s \in Record /\ ~s.done /\ got \in Int
      BY <1>0, <2>1, <3>2, <3>3 DEF Sound, Answers
    <3> HIDE DEF s
    <3> DEFINE r == Answered(s, got)
    <3>5. /\ r \in Record
          /\ ~s.aborted => r.done /\ r.result = got
          /\ s.aborted => r = s
      BY <3>4, AnsweredIs
    <3> HIDE DEF r
    <3>6. state' = [r EXCEPT !.aborted = TRUE]
      BY <2>1, <2>3 DEF Done, r
    <3>7. state'.done = r.done /\ state'.result = r.result
      BY <3>5, <3>6 DEF Record
    <3>8. /\ s.aborted => ~state'.done
          /\ ~s.aborted => state'.done /\ state'.result = got
      <4>1. ASSUME s.aborted PROVE ~state'.done
        BY <3>4, <3>5, <3>7, <4>1, Zenon
      <4>2. ASSUME ~s.aborted PROVE state'.done /\ state'.result = got
        BY <3>5, <3>7, <4>2, Zenon
      <4> QED  BY <4>1, <4>2
    <3>9. /\ Requested \in Nat /\ pc # "returned" /\ ~state.done
          /\ UNCHANGED function /\ repeated' = repeated
          /\ kernel' = kernel \o Ask(s, 0, got)
      BY <1>0, <2>1, <2>3
    <3> QED  BY <2>3, <3>8, <3>9, SentOnce
  <2> QED  BY <2>2, <2>3
<1> QED
  BY <1>1, <1>2, <1>3, <1>4, <1>5, <1>6, <1>7, <1>8, <1>9, <1>10 DEF Next

\* So do the call without rules and the return.
LEMMA SentStep ==
  ASSUME CallInv, SentInv, [Next]_vars
  PROVE  SentInv'
<1>1. CASE UNCHANGED vars
  BY <1>1 DEF vars, SentInv, direction
<1>2. CASE Begin
  <2>1. kernel' = <<>>
    BY <1>2 DEF Begin, CallInv
  <2> QED  BY <2>1 DEF SentInv
<1>3. CASE Bypass
  <2>1. Requested \in Nat
    BY RequestedType DEF CallInv
  <2>2. PICK got \in Answers(Requested), sys \in Range(Primitives) :
          /\ state' = [Idle EXCEPT !.result = got, !.err = Errno(got)]
          /\ kernel' = <<[sys |-> sys, mem |-> "orig", from |-> 0, asked |-> Requested,
                          got |-> got]>>
    BY <1>3 DEF Bypass
  <2> DEFINE k == [sys |-> sys, mem |-> "orig", from |-> 0, asked |-> Requested, got |-> got]
  <2>3. state'.result = got /\ got \in Int /\ got >= -1 /\ pc' = "returned"
    BY <1>3, <2>1, <2>2 DEF Idle, Answers, Bypass
  <2>4. kernel' = <<k>> /\ k.from = 0 /\ k.got = got
    BY <2>2
  <2> HIDE DEF k
  <2>5. Len(kernel') = 1 /\ kernel'[1] = k
    BY <2>4, OneOf, Zenon
  <2>6. Sent(kernel', state'.result)
    BY <2>3, <2>4, <2>5 DEF Sent
  <2> QED  BY <2>3, <2>6 DEF SentInv
<1>4. CASE Stop
  BY <1>4 DEF Stop, SentInv, direction
<1>5. CASE Return
  <2> DEFINE pending == ~state.done /\ ~state.aborted
  <2>1. PICK got \in Answers(Length(state)) :
          /\ pc = "end" /\ pc' = "returned" /\ UNCHANGED <<function, repeated>>
          /\ state' = IF pending THEN Answered(state, got) ELSE state
          /\ kernel' = IF pending THEN kernel \o Ask(state, 0, got) ELSE kernel
    BY <1>5 DEF Return
  <2>2. state \in Record /\ Length(state) \in Nat /\ got \in Int
    BY <2>1, Walking DEF Answers
  <2>3. CASE direction # "Writing"
    BY <2>1, <2>3 DEF SentInv, direction
  <2>4. CASE ~pending
    BY <2>1, <2>4 DEF SentInv, direction
  <2>5. CASE pending /\ direction = "Writing"
    <3>1. state'.done /\ state'.result = got
      BY <2>1, <2>2, <2>5, AnsweredIs
    <3> QED  BY <2>1, <2>2, <2>5, <3>1, SentOnce
  <2> QED  BY <2>3, <2>4, <2>5
<1> QED  BY <1>1, <1>2, <1>3, <1>4, <1>5, SentTask

\* A call that a split of no byte has made changes its answer only for one more system call.
LEMMA SentSpoilt ==
  ASSUME Spoilt, SentInv, [Next]_vars
  PROVE  SentInv'
<1>1. UNCHANGED function /\ Repeats /\ state.done
  BY SpoiltMoves DEF Spoilt
<1>2. CASE UNCHANGED <<state, kernel>> /\ (repeated' <=> repeated)
  BY <1>1, <1>2 DEF SentInv, direction
<1>3. CASE repeated'
  BY <1>3 DEF SentInv
<1> QED  BY <1>1, <1>2, <1>3 DEF Repeats

\* A write tells the program how many of its bytes the kernel took, over the two system calls of
\* split (actions/split.c), whatever they were asked for, unless rules ask for the system call again.
THEOREM WriteExactCorrect == Spec => []WriteExact
<1>1. Init => SentInv
  BY DEF Init, SentInv
<1>2. Inv /\ SentInv /\ [Next]_vars => SentInv'
  BY SentStep, SentSpoilt DEF Inv
<1>3. Inv /\ SentInv => WriteExact
  <2> SUFFICES ASSUME SentInv, Inv, direction = "Writing", kernel # <<>>, ~repeated
               PROVE  WriteExact
    BY DEF WriteExact
  <2>1. Sent(kernel, state.result)
    BY DEF SentInv
  <2> DEFINE f == [i \in DOMAIN kernel |-> Max({kernel[i].got, 0})]
  <2>2. DOMAIN kernel = 1 .. Len(kernel) /\ Len(kernel) \in Nat
    BY DEF Inv, CallInv, Spoilt
  <2>3. SumFunction(f) = Total(f, Len(kernel))
    <3>1. f = [j \in 1 .. Len(kernel) |-> f[j]]
      BY <2>2
    <3> QED  BY <3>1, Zenon DEF Total
  <2>4. CASE Len(kernel) = 1
    <3>1. f[1] = Max({kernel[1].got, 0})
      BY <2>2, <2>4
    <3>2. kernel[1].got \in Int /\ kernel[1].got >= -1
      BY <2>1 DEF Sent
    <3> DEFINE g == kernel[1].got
    <3>3. Max({g, 0}) \in Nat /\ (g >= 0 => Max({g, 0}) = g)
      <4>1. g \in Int /\ 0 \in Int
        BY <3>2
      <4> HIDE DEF g
      <4>2. Max({g, 0}) \in {g, 0} /\ Max({g, 0}) >= g /\ Max({g, 0}) \in Nat
        BY <4>1, MaxZero, MaxTwo
      <4> QED  BY <4>1, <4>2
    <3>4. Total(f, 1) = f[1]
      <4>1. \A j \in 1 .. 1 : f[j] \in Int
        BY <3>1, <3>3
      <4> HIDE DEF f
      <4>2. Total(f, 0) = 0 /\ Total(f, 1) = Total(f, 1 - 1) + f[1] /\ f[1] \in Int
        <5>1. \A j \in 1 .. 0 : f[j] \in Int
          OBVIOUS
        <5>2. Total(f, 0) = 0
          BY <5>1, TotalStep
        <5>3. Total(f, 1) = Total(f, 1 - 1) + f[1]
          BY <4>1, TotalStep
        <5> QED  BY <4>1, <5>2, <5>3
      <4>3. 1 - 1 = 0
        OBVIOUS
      <4> QED  BY <4>2, <4>3
    <3>5. SumFunction(f) = Max({g, 0})
      BY <2>3, <2>4, <3>1, <3>4
    <3>6. state.result = g /\ kernel[1].from = 0 /\ g \in Int /\ g >= -1
      BY <2>1, <2>4, <3>2 DEF Sent
    <3> HIDE DEF f
    <3>7. state.result = IF kernel[1].got = -1 THEN -1 ELSE SumFunction(f)
      BY <3>3, <3>5, <3>6
    <3>8. 1 .. Len(kernel) - 1 = {}
      BY <2>4
    <3> QED  BY <3>6, <3>7, <3>8 DEF WriteExact, f
  <2>5. CASE Len(kernel) = 2
    <3> DEFINE g == kernel[1].got
               h == kernel[2].got
               m == Max({h, 0})
    <3>1. /\ g \in Nat /\ h \in Int /\ kernel[1].from = 0 /\ g = kernel[1].asked
          /\ kernel[2].from = g /\ state.result = m + g
      BY <2>1, <2>5 DEF Sent
    <3>2. m \in Nat
      <4> HIDE DEF h
      <4> QED  BY <3>1, MaxZero
    <3>3. Max({g, 0}) = g
      <4>1. g \in Int /\ 0 \in Int /\ g >= 0
        BY <3>1
      <4> HIDE DEF g
      <4>2. Max({g, 0}) \in {g, 0} /\ Max({g, 0}) >= g
        BY <4>1, MaxTwo
      <4> QED  BY <4>1, <4>2
    <3>4. f[1] = g /\ f[2] = m
      <4>1. 1 \in DOMAIN kernel /\ 2 \in DOMAIN kernel
        BY <2>2, <2>5
      <4> QED  BY <3>3, <4>1
    <3> HIDE DEF f, g, m
    <3>5. Total(f, 2) = g + m
      <4>1. \A j \in 1 .. 2 : f[j] \in Int
        BY <3>1, <3>2, <3>4
      <4>2. \A j \in 1 .. 1 : f[j] \in Int
        BY <4>1
      <4>3. \A j \in 1 .. 0 : f[j] \in Int
        OBVIOUS
      <4>4. Total(f, 0) = 0
        BY <4>3, TotalStep
      <4>5. Total(f, 1) = Total(f, 1 - 1) + f[1]
        BY <4>2, TotalStep
      <4>6. Total(f, 2) = Total(f, 2 - 1) + f[2]
        BY <4>1, TotalStep
      <4>7. 1 - 1 = 0 /\ 2 - 1 = 1
        OBVIOUS
      <4> QED  BY <3>1, <3>2, <3>4, <4>4, <4>5, <4>6, <4>7
    <3>6. SumFunction(f) = m + g
      BY <2>3, <2>5, <3>1, <3>2, <3>5
    <3>7. state.result = IF kernel[1].got = -1 THEN -1 ELSE SumFunction(f)
      BY <3>1, <3>6 DEF g
    <3>8. \A i \in 1 .. Len(kernel) - 1 : i = 1
      BY <2>5
    <3>9. 0 + g = g
      BY <3>1
    <3>10. \A i \in 1 .. Len(kernel) - 1 :
             kernel[i].got = kernel[i].asked /\ kernel[i + 1].from = kernel[i].from + kernel[i].got
      BY <3>1, <3>8, <3>9 DEF g
    <3> QED  BY <3>1, <3>7, <3>10 DEF WriteExact, f
  <2> QED  BY <2>1, <2>4, <2>5 DEF Sent
<1> QED
  BY <1>1, <1>2, <1>3, CallInvariant, PTL DEF Spec

-----------------------------------------------------------------------------
(* The buffers of a vector.                                                 *)

\* The least of two numbers, by cases.
LEMMA MinIs ==
  ASSUME NEW a \in Int, NEW b \in Int
  PROVE  Min({a, b}) = IF a <= b THEN a ELSE b
<1>1. Min({a, b}) \in {a, b} /\ Min({a, b}) <= a /\ Min({a, b}) <= b
  BY MinTwo
<1> QED  BY <1>1

\* Of the numbers up to n that have a property, one is the least.
LEMMA LeastNumber ==
  ASSUME NEW n \in Nat, NEW S, S \subseteq 0 .. n, S # {}
  PROVE  \E m \in S : \A k \in S : m <= k
<1> DEFINE All == 0 .. n
           Upto(k) == 0 .. k
           B == {Upto(k) : k \in S}
<1>1. IsFiniteSet(All)
  <2>1. 0 \in Int /\ n \in Int
    OBVIOUS
  <2> QED  BY <2>1, FS_Interval
<1>2. B \subseteq SUBSET All /\ B # {}
  <2>1. \A k \in S : Upto(k) \in SUBSET All
    OBVIOUS
  <2> HIDE DEF Upto, All
  <2> QED  BY <2>1
<1>3. PICK s \in B : \A r \in SUBSET s : r \in B => r = s
  <2> HIDE DEF B, All
  <2> QED  BY <1>1, <1>2, LeastSubset
<1>4. PICK m \in S : s = Upto(m)
  OBVIOUS
<1>5. ASSUME NEW k \in S PROVE m <= k
  <2>1. CASE k < m
    <3>1. Upto(k) \subseteq Upto(m) /\ m \in Upto(m) /\ m \notin Upto(k)
      BY <2>1
    <3>2. Upto(k) \in B /\ Upto(k) # Upto(m)
      BY <3>1
    <3> HIDE DEF Upto, B
    <3> QED  BY <1>3, <1>4, <3>1, <3>2
  <2> QED  BY <2>1
<1> QED  BY <1>5

\* What is left for each buffer, as the loop of prepareReadIOVec computes it.
LeftFor(v, n, g) ==
  g = [i \in 1 .. Len(v) + 1 |-> IF i = 1 THEN Max({n, 0})
                                 ELSE g[i - 1] - Min({g[i - 1], v[i - 1]})]
Left(v, n) == CHOOSE g : LeftFor(v, n, g)

LEMMA ScatterIs ==
  ASSUME NEW v, NEW n
  PROVE  Scatter(v, n) = [i \in 1 .. Len(v) |-> Min({Left(v, n)[i], v[i]})]
BY DEF Scatter, Left, LeftFor

\* What is left after some bytes were taken, and after one buffer more.
LEMMA LeftOver ==
  ASSUME NEW m \in Nat, NEW t \in Nat, NEW a, a = m - Min({m, t})
  PROVE  a \in Nat /\ a = IF m <= t THEN 0 ELSE m - t
<1>1. m \in Int /\ t \in Int
  OBVIOUS
<1>2. Min({m, t}) = IF m <= t THEN m ELSE t
  BY <1>1, MinIs
<1> QED  BY <1>2

\* a is what is left of m after t, and x is the length of the buffer it meets.
Rest(m, t, x, a) == m \in Nat /\ t \in Nat /\ x \in Nat /\ a = m - Min({m, t})

\* a serves the buffer: what is left then, and what both took together.
Served(m, t, x, a) == /\ a - Min({a, x}) = m - Min({m, t + x})
                      /\ Min({m, t}) + Min({a, x}) = Min({m, t + x})

LEMMA LeftLess ==
  ASSUME NEW m, NEW t, NEW x, NEW a, Rest(m, t, x, a)
  PROVE  Served(m, t, x, a)
<1>a. m \in Nat /\ t \in Nat /\ x \in Nat /\ a = m - Min({m, t})
  BY DEF Rest
<1>0. m \in Int /\ t \in Int /\ x \in Int /\ t + x \in Int
  BY <1>a
<1>1. Min({m, t}) = IF m <= t THEN m ELSE t
  BY <1>0, MinIs
<1>2. Min({m, t + x}) = IF m <= t + x THEN m ELSE t + x
  <2> DEFINE y == t + x
  <2>1. y \in Int
    BY <1>0
  <2> HIDE DEF y
  <2>2. Min({m, y}) = IF m <= y THEN m ELSE y
    BY <1>0, <2>1, MinIs
  <2> QED  BY <2>2 DEF y
<1>3. a \in Nat /\ a = IF m <= t THEN 0 ELSE m - t
  BY <1>a, LeftOver
<1>4. Min({a, x}) = IF a <= x THEN a ELSE x
  BY <1>0, <1>3, MinIs
<1>5. a - Min({a, x}) = m - Min({m, t + x}) /\ Min({m, t}) + Min({a, x}) = Min({m, t + x})
  BY <1>a, <1>1, <1>2, <1>3, <1>4
<1> QED  BY <1>5 DEF Served

\* The loop ends: what is left for a buffer is what the ones before did not take.
LEMMA LeftIs ==
  ASSUME NEW v \in Seq(Nat), NEW n \in Int
  PROVE  LeftFor(v, n, Left(v, n))
<1> DEFINE m == Max({n, 0})
           L == Len(v)
           g == [i \in 1 .. L + 1 |-> m - Min({m, Total(v, i - 1)})]
<1>1. m \in Nat /\ L \in Nat /\ \A j \in 1 .. L : v[j] \in Nat
  BY MaxZero
<1> HIDE DEF m
<1>2. ASSUME NEW i \in 1 .. L + 1
      PROVE  g[i] = IF i = 1 THEN m ELSE g[i - 1] - Min({g[i - 1], v[i - 1]})
  <2>1. CASE i = 1
    <3>1. \A j \in 1 .. 0 : v[j] \in Int
      OBVIOUS
    <3>2. Total(v, 0) = 0
      BY <3>1, TotalStep
    <3>3. i - 1 = 0
      BY <2>1
    <3>4. Min({m, 0}) = 0
      <4>1. m \in Int /\ 0 \in Int /\ 0 <= m
        BY <1>1
      <4>2. Min({m, 0}) = IF m <= 0 THEN m ELSE 0
        BY <4>1, MinIs
      <4> QED  BY <4>1, <4>2
    <3>5. g[i] = m - Min({m, 0})
      BY <3>2, <3>3
    <3> QED  BY <1>1, <2>1, <3>4, <3>5
  <2>2. CASE i # 1
    <3> DEFINE k == i - 1
               t == Total(v, k - 1)
               x == v[k]
    <3>1. k \in 1 .. L /\ k \in Nat /\ k > 0 /\ k - 1 \in Nat /\ k \in 1 .. L + 1 /\ i \in 1 .. L + 1
      BY <1>1, <2>2
    <3>2. x \in Nat
      BY <1>1, <3>1
    <3>3. t \in Nat
      <4> DEFINE p == k - 1
      <4>1. p \in Nat /\ \A j \in 1 .. p : v[j] \in Nat
        BY <1>1, <3>1
      <4> HIDE DEF p
      <4>2. Total(v, p) \in Nat
        BY <4>1, TotalNat
      <4> QED  BY <4>2 DEF p
    <3>4. Total(v, k) = t + x
      <4>1. \A j \in 1 .. k : v[j] \in Int
        BY <1>1, <3>1
      <4> HIDE DEF k
      <4> QED  BY <3>1, <4>1, TotalStep
    <3>5. g[i] = m - Min({m, t + x})
      BY <3>1, <3>4
    <3>6. g[k] = m - Min({m, t})
      BY <3>1
    <3> HIDE DEF g, t, x, k
    <3>7. g[i] = g[k] - Min({g[k], x})
      <4> DEFINE a == g[k]
      <4>1. a = m - Min({m, t})
        BY <3>6
      <4> HIDE DEF a
      <4>2. Rest(m, t, x, a)
        BY <1>1, <3>2, <3>3, <4>1 DEF Rest
      <4>3. Served(m, t, x, a)
        BY <4>2, LeftLess
      <4>4. a - Min({a, x}) = m - Min({m, t + x})
        BY <4>3 DEF Served
      <4> QED  BY <3>5, <4>4 DEF a
    <3> QED  BY <2>2, <3>7 DEF k, x
  <2> QED  BY <2>1, <2>2
<1>3. g = [i \in 1 .. L + 1 |-> g[i]]
  OBVIOUS
<1> HIDE DEF g
<1>4. g = [i \in 1 .. L + 1 |-> IF i = 1 THEN m ELSE g[i - 1] - Min({g[i - 1], v[i - 1]})]
  BY <1>2, <1>3
<1>5. LeftFor(v, n, g)
  BY <1>4, Zenon DEF LeftFor, m
<1> QED  BY <1>5, Zenon DEF Left

\* The buffers take the first bytes, each what is left up to its length.
LEMMA ScatterSums ==
  ASSUME NEW v \in Seq(Nat), NEW n \in Int, NEW i \in 0 .. Len(v)
  PROVE  Total(Scatter(v, n), i) = Min({Max({n, 0}), Total(v, i)})
<1> DEFINE m == Max({n, 0})
           L == Len(v)
           g == Left(v, n)
           s == Scatter(v, n)
           Good(k) == g[k + 1] = m - Min({m, Total(v, k)}) /\ Total(s, k) = Min({m, Total(v, k)})
           B == {k \in 0 .. L : ~Good(k)}
<1>1. m \in Nat /\ L \in Nat /\ \A j \in 1 .. L : v[j] \in Nat
  BY MaxZero
<1>2. \A k \in 1 .. L + 1 : g[k] = IF k = 1 THEN m ELSE g[k - 1] - Min({g[k - 1], v[k - 1]})
  <2>1. LeftFor(v, n, g)
    BY LeftIs
  <2> HIDE DEF g
  <2> QED  BY <2>1, Zenon DEF LeftFor
<1>3. s = [k \in 1 .. L |-> Min({g[k], v[k]})]
  BY ScatterIs
<1>4. \A k \in 1 .. L : s[k] = Min({g[k], v[k]})
  <2> HIDE DEF s, g
  <2> QED  BY <1>3
<1> HIDE DEF m, L, g, s
<1>5. ASSUME B # {} PROVE FALSE
  <2>1. PICK k \in B : \A j \in B : k <= j
    <3>1. B \subseteq 0 .. L
      OBVIOUS
    <3> HIDE DEF B
    <3> QED  BY <1>1, <1>5, <3>1, LeastNumber
  <2>2. k \in 0 .. L /\ k \in Nat /\ ~Good(k) /\ \A j \in 0 .. L : j < k => Good(j)
    <3>1. k \in 0 .. L /\ ~Good(k)
      OBVIOUS
    <3>2. ASSUME NEW j \in 0 .. L, j < k, ~Good(j) PROVE FALSE
      <4>1. j \in B
        BY <3>2
      <4> HIDE DEF B, Good
      <4> QED  BY <1>1, <2>1, <3>1, <3>2, <4>1
    <3> HIDE DEF B, Good
    <3> QED  BY <1>1, <3>1, <3>2
  <2>3. CASE k = 0
    <3>1. Total(v, 0) = 0 /\ Total(s, 0) = 0
      <4>1. (\A j \in 1 .. 0 : v[j] \in Int) /\ (\A j \in 1 .. 0 : s[j] \in Int)
        OBVIOUS
      <4> QED  BY <4>1, TotalStep
    <3>2. Min({m, 0}) = 0
      <4>1. m \in Int /\ 0 \in Int /\ 0 <= m
        BY <1>1
      <4>2. Min({m, 0}) = IF m <= 0 THEN m ELSE 0
        BY <4>1, MinIs
      <4> QED  BY <4>1, <4>2
    <3>3. g[k + 1] = m
      <4>1. k + 1 = 1 /\ 1 \in 1 .. L + 1
        BY <1>1, <2>3
      <4> QED  BY <1>2, <4>1
    <3>4. m - 0 = m
      BY <1>1
    <3> QED  BY <2>2, <2>3, <3>1, <3>2, <3>3, <3>4
  <2>4. CASE k # 0
    <3> DEFINE p == k - 1
               t == Total(v, p)
               x == v[k]
               a == m - Min({m, t})
    <3>1. p \in 0 .. L /\ p \in Nat /\ p < k /\ p + 1 = k /\ k \in 1 .. L /\ k \in 1 .. L + 1
          /\ k + 1 \in 1 .. L + 1 /\ k + 1 # 1 /\ (k + 1) - 1 = k /\ k > 0
      BY <1>1, <2>2, <2>4
    <3>2. Good(p)
      BY <2>2, <3>1
    <3>3. x \in Nat
      BY <1>1, <3>1
    <3>4. t \in Nat
      <4>1. \A j \in 1 .. p : v[j] \in Nat
        BY <1>1, <3>1
      <4> HIDE DEF p
      <4> QED  BY <3>1, <4>1, TotalNat
    <3>5. Total(v, k) = t + x
      <4>1. \A j \in 1 .. k : v[j] \in Int
        BY <1>1, <2>2
      <4>2. Total(v, k) = Total(v, k - 1) + v[k]
        BY <2>2, <3>1, <4>1, TotalStep
      <4> QED  BY <4>2
    <3>6. g[k] = a /\ Total(s, p) = Min({m, t})
      BY <3>1, <3>2
    <3>7. g[k + 1] = g[k] - Min({g[k], x})
      BY <1>2, <3>1
    <3>8. s[k] = Min({g[k], x})
      BY <1>4, <3>1
    <3>9. a \in Nat /\ a - Min({a, x}) = m - Min({m, t + x})
          /\ Min({m, t}) + Min({a, x}) = Min({m, t + x})
      <4>1. a = m - Min({m, t})
        OBVIOUS
      <4> HIDE DEF t, x, a
      <4>2. a \in Nat
        BY <1>1, <3>4, <4>1, LeftOver, Zenon
      <4>3. a - Min({a, x}) = m - Min({m, t + x}) /\ Min({m, t}) + Min({a, x}) = Min({m, t + x})
        <5>1. Rest(m, t, x, a)
          BY <1>1, <3>3, <3>4, <4>1 DEF Rest
        <5>2. Served(m, t, x, a)
          BY <5>1, LeftLess
        <5> QED  BY <5>2 DEF Served
      <4> QED  BY <4>2, <4>3
    <3>10. \A j \in 1 .. k : s[j] \in Int
      <4>1. ASSUME NEW j \in 1 .. k PROVE s[j] \in Int
        <5> DEFINE q == j - 1
        <5>1. q \in 0 .. L /\ q < k /\ q \in Nat /\ q + 1 = j /\ j \in 1 .. L
          BY <1>1, <2>2
        <5>2. Good(q)
          BY <2>2, <5>1
        <5> DEFINE u == Total(v, q)
        <5>3. u \in Nat
          <6>1. \A l \in 1 .. q : v[l] \in Nat
            BY <1>1, <5>1
          <6> HIDE DEF q
          <6> QED  BY <5>1, <6>1, TotalNat
        <5>4. g[j] = m - Min({m, u})
          BY <5>1, <5>2
        <5> HIDE DEF u, q
        <5>5. g[j] \in Nat
          BY <1>1, <5>3, <5>4, LeftOver
        <5>6. v[j] \in Nat
          BY <1>1, <5>1
        <5> DEFINE y == g[j]
                   z == v[j]
        <5>7. y \in Int /\ z \in Int
          BY <5>5, <5>6
        <5>8. s[j] = Min({y, z})
          BY <1>4, <5>1
        <5> HIDE DEF y, z
        <5> QED  BY <5>7, <5>8, MinIs
      <4> QED  BY <4>1
    <3>11. Total(s, k) = Total(s, p) + s[k]
      <4> HIDE DEF Good, B
      <4> QED  BY <2>2, <3>1, <3>10, TotalStep
    <3> HIDE DEF a, t, x
    <3>12. Total(s, k) = Min({m, t + x}) /\ g[k + 1] = m - Min({m, t + x})
      BY <3>6, <3>7, <3>8, <3>9, <3>11
    <3> QED  BY <2>2, <3>5, <3>12
  <2> QED  BY <2>3, <2>4
<1>6. i \in 0 .. L
  BY DEF L
<1>7. Good(i)
  BY <1>5, <1>6
<1> QED  BY <1>7 DEF m, s

\* What the buffers of a vector are told to hold is what the call answers.
GivenInv == pc = "returned" /\ function = "readv" => given = Scatter(vector, state.result)

\* The buffers of a scattered read are filled one after the other with the bytes announced
\* (prepareReadIOVec, binding.c), whatever the rules made of the answer.
THEOREM FilledInOrderCorrect == Spec => []FilledInOrder
<1>1. Init => GivenInv
  BY DEF Init, GivenInv
<1>2. Inv /\ GivenInv /\ [Next]_vars => GivenInv'
  <2> SUFFICES ASSUME Inv, GivenInv, [Next]_vars PROVE GivenInv'
    OBVIOUS
  <2>1. CASE UNCHANGED vars
    BY <2>1 DEF vars, GivenInv
  <2>2. CASE Begin \/ Stop
    BY <2>2 DEF Begin, Stop, GivenInv
  <2>3. CASE Bypass
    <3>1. PICK got \in Answers(Requested) :
            /\ state' = [Idle EXCEPT !.result = got, !.err = Errno(got)]
            /\ given' = Returned(got)
      BY <2>3 DEF Bypass
    <3>2. state'.result = got
      BY <3>1 DEF Idle
    <3> QED  BY <2>3, <3>1, <3>2 DEF Bypass, GivenInv, Returned
  <2>4. CASE Return
    BY <2>4 DEF Return, GivenInv, Returned
  <2>5. CASE Next /\ ~Begin /\ ~Bypass /\ ~Stop /\ ~Return
    <3>1. CASE CallInv /\ ~emptied'
      BY <2>5, <3>1, TaskStep DEF WalkStep, GivenInv
    <3>2. CASE CallInv /\ emptied'
      BY <2>5, <3>2, SpoilStep DEF GivenInv
    <3>3. CASE Spoilt
      BY <3>3, SpoiltMoves DEF GivenInv, Returned
    <3> QED  BY <3>1, <3>2, <3>3 DEF Inv
  <2> QED  BY <2>1, <2>2, <2>3, <2>4, <2>5
<1>3. Inv /\ GivenInv => FilledInOrder
  <2> SUFFICES ASSUME Inv, GivenInv, Ended, function = "readv", NEW i \in DOMAIN vector
               PROVE  SumFunction([j \in 1 .. i |-> given[j]])
                        = Min({Max({state.result, 0}), SumFunction([j \in 1 .. i |-> vector[j]])})
    BY DEF FilledInOrder
  <2>1. vector \in Seq(Nat) /\ state.result \in Int
    BY CallAssumption DEF Inv, CallInv, Spoilt, Sound, Record
  <2>2. i \in 0 .. Len(vector)
    BY <2>1
  <2>3. given = Scatter(vector, state.result)
    BY DEF GivenInv, Ended
  <2>4. Total(given, i) = Min({Max({state.result, 0}), Total(vector, i)})
    BY <2>1, <2>2, <2>3, ScatterSums
  <2> QED  BY <2>4 DEF Total
<1> QED
  BY <1>1, <1>2, <1>3, CallInvariant, PTL DEF Spec
=============================================================================
