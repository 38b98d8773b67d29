--------------------------- MODULE GrammarProofs ---------------------------
(***************************************************************************)
(* The parser of rules (parser.c, and Action_parse in actions.c) accepts   *)
(* the texts of rules and no other, for texts of any length and any tables *)
(* of numbers, addresses and services; and what list writes of a rule      *)
(* (Action_show) is a text of that rule.                                   *)
(*                                                                         *)
(* A spelling is a rule with what it takes to write it: the words of its   *)
(* hosts, and the parts that are left to their defaults.  The first half   *)
(* goes down the text of a spelling, piece by piece; the second starts     *)
(* from an accepted text and finds, from the end of it, a spelling; the    *)
(* third one finds the spelling that list writes.                          *)
(***************************************************************************)
EXTENDS Grammar, Integers, SequenceTheorems, WellFoundedInduction, TLAPS

-----------------------------------------------------------------------------
(* Texts.                                                                   *)

\* The strings; the provers do not know that those of the program are some.
Keywords ==
  {Sp, "on", "when", "port", "with", "talk-with", "from", "to", "connect", "close",
   "trucate"}
  \cup Specials.names \cup Protos.names \cup DoModes.names \cup Gotos.names \cup Bools.names
  \cup Kinds.names \cup Errors.names \cup Signals.names \cup Conditions \cup Tasks
Lexemes == STRING \cup Keywords
Texts   == Seq(Lexemes)
NextOf(text) == IF text = <<>> THEN End ELSE Head(text)

\* A text that begins with a lexeme.
LEMMA Lexeme ==
  ASSUME NEW c \in Lexemes, NEW rest \in Texts
  PROVE  /\ <<c>> \o rest \in Texts /\ <<c>> \o rest # <<>>
         /\ Head(<<c>> \o rest) = c /\ Tail(<<c>> \o rest) = rest
         /\ NextOf(<<c>> \o rest) = c
         /\ (IF Len(<<c>> \o rest) < 2 THEN End ELSE (<<c>> \o rest)[2]) = NextOf(rest)
<1> DEFINE t == <<c>> \o rest
<1>1. <<c>> \in Texts /\ Len(<<c>>) = 1 /\ <<c>>[1] = c
  BY DEF Texts
<1>2. /\ t \in Texts /\ Len(t) = 1 + Len(rest) /\ Len(rest) \in Nat
      /\ \A i \in 1 .. 1 + Len(rest) : t[i] = IF i <= 1 THEN c ELSE rest[i - 1]
  BY <1>1, ConcatProperties, LenProperties DEF Texts
<1>3. t # <<>> /\ t[1] = c
  BY <1>2 DEF Texts
<1>. HIDE DEF t
<1>4. Head(t) = c
  BY <1>2, <1>3 DEF Texts
<1>5. Tail(t) = rest
  <2>1. Tail(t) \in Seq(Lexemes) /\ Len(Tail(t)) = Len(rest)
    BY <1>2, <1>3, HeadTailProperties DEF Texts
  <2>2. \A i \in 1 .. Len(Tail(t)) : Tail(t)[i] = t[i + 1]
    BY <1>2, <1>3, HeadTailProperties DEF Texts
  <2>3. \A i \in 1 .. Len(rest) : Tail(t)[i] = rest[i]
    BY <1>2, <2>1, <2>2
  <2>. QED  BY <2>1, <2>3, SeqEqual DEF Texts
<1>6. (IF Len(t) < 2 THEN End ELSE t[2]) = NextOf(rest)
  <2>1. CASE rest = <<>>
    BY <1>2, <2>1 DEF NextOf
  <2>2. CASE rest # <<>>
    <3>1. Len(rest) > 0 /\ Head(rest) = rest[1]
      BY <2>2 DEF Texts
    <3>. QED  BY <1>2, <2>2, <3>1 DEF NextOf
  <2>. QED  BY <2>1, <2>2
<1>. QED  BY <1>2, <1>3, <1>4, <1>5, <1>6 DEF t, NextOf

\* The other way round.
LEMMA Cut ==
  ASSUME NEW text \in Texts, text # <<>>
  PROVE  /\ Head(text) \in Lexemes /\ Tail(text) \in Texts
         /\ text = <<Head(text)>> \o Tail(text)
<1>1. Head(text) \in Lexemes /\ Tail(text) \in Texts /\ Len(Tail(text)) = Len(text) - 1
  BY HeadTailProperties DEF Texts
<1>2. \A i \in 1 .. Len(Tail(text)) : Tail(text)[i] = text[i + 1]
  BY HeadTailProperties DEF Texts
<1> DEFINE t == <<Head(text)>> \o Tail(text)
<1>3. <<Head(text)>> \in Texts /\ Len(<<Head(text)>>) = 1 /\ <<Head(text)>>[1] = Head(text)
  BY <1>1 DEF Texts
<1>4. /\ t \in Texts /\ Len(t) = 1 + Len(Tail(text))
      /\ \A i \in 1 .. 1 + Len(Tail(text)) : t[i] = IF i <= 1 THEN Head(text) ELSE Tail(text)[i - 1]
  BY <1>1, <1>3, ConcatProperties DEF Texts
<1>5. Len(text) \in Nat /\ Len(text) > 0 /\ Head(text) = text[1]
  BY DEF Texts
<1>. HIDE DEF t
<1>6. \A i \in 1 .. Len(text) : t[i] = text[i]
  BY <1>1, <1>2, <1>4, <1>5
<1>7. text = t
  BY <1>1, <1>4, <1>5, <1>6, SeqEqual DEF Texts
<1>. QED  BY <1>1, <1>7 DEF t

LEMMA Assoc ==
  ASSUME NEW a \in Texts, NEW b \in Texts, NEW c \in Texts
  PROVE  (a \o b) \o c = a \o (b \o c) /\ a \o b \in Texts
BY ConcatAssociative, ConcatProperties, SMTT(40) DEF Texts

LEMMA Joins == ASSUME NEW a \in Texts, NEW b \in Texts PROVE a \o b \in Texts
BY ConcatProperties DEF Texts

LEMMA Regroup ==
  ASSUME NEW a \in Texts, NEW b \in Texts, NEW c \in Texts
  PROVE  (a \o b) \o c = a \o (b \o c)
BY ConcatAssociative DEF Texts

LEMMA LexemeAssoc ==
  ASSUME NEW c \in Lexemes, NEW a \in Texts, NEW b \in Texts
  PROVE  (<<c>> \o a) \o b = <<c>> \o (a \o b) /\ <<c>> \o a \in Texts
<1>1. <<c>> \in Texts
  BY DEF Texts
<1>. QED  BY <1>1, Assoc

\* A word, and what the text has after it.
IsWord(w) == w \in Texts /\ w # <<>> /\ \A i \in 1 .. Len(w) : w[i] \notin WordStops

LEMMA WordInText ==
  ASSUME NEW w, IsWord(w), NEW rest \in Texts
  PROVE  /\ w \o rest \in Texts /\ w \o rest # <<>> /\ Len(w) >= 1
         /\ Head(w \o rest) = w[1] /\ w[1] \in Lexemes \ WordStops
         /\ (IF Len(w \o rest) < 2 THEN End ELSE (w \o rest)[2])
              = IF Len(w) = 1 THEN NextOf(rest) ELSE w[2]
<1> DEFINE t == w \o rest
<1>1. w \in Texts /\ w # <<>> /\ Len(w) \in Nat /\ Len(w) >= 1 /\ Len(rest) \in Nat /\ w[1] \notin WordStops
      /\ w[1] \in Lexemes
  BY ElementOfSeq, LenProperties, EmptySeq DEF IsWord, Texts
<1>2. t \in Texts /\ Len(t) = Len(w) + Len(rest)
      /\ \A i \in 1 .. Len(w) + Len(rest) : t[i] = IF i <= Len(w) THEN w[i] ELSE rest[i - Len(w)]
  BY <1>1, ConcatProperties DEF Texts
<1>. HIDE DEF t
<1>3. t # <<>> /\ t[1] = w[1] /\ Head(t) = t[1]
  BY <1>1, <1>2 DEF Texts
<1>4. (IF Len(t) < 2 THEN End ELSE t[2]) = IF Len(w) = 1 THEN NextOf(rest) ELSE w[2]
  <2>1. CASE Len(w) > 1
    BY <1>1, <1>2, <2>1
  <2>2. CASE Len(w) = 1 /\ rest = <<>>
    BY <1>1, <1>2, <2>2 DEF NextOf
  <2>3. CASE Len(w) = 1 /\ rest # <<>>
    <3>1. Len(rest) >= 1 /\ Head(rest) = rest[1]
      BY <2>3 DEF Texts
    <3>. QED  BY <1>1, <1>2, <2>3, <3>1 DEF NextOf
  <2>4. Len(w) > 1 \/ Len(w) = 1
    BY <1>1, SMTT(40)
  <2>. QED  BY <2>1, <2>2, <2>3, <2>4, Zenon
<1>. QED  BY <1>1, <1>2, <1>3, <1>4 DEF t

\* The word that a text begins with is the one up to the first stop.
LEMMA WordLenIs ==
  ASSUME NEW w, IsWord(w), NEW rest \in Texts, NextOf(rest) \in WordStops
  PROVE  /\ WordLen(w \o rest) = Len(w) /\ Len(w) # 0
         /\ SubSeq(w \o rest, 1, Len(w)) = w
         /\ SubSeq(w \o rest, Len(w) + 1, Len(w \o rest)) = rest
<1> DEFINE t == w \o rest
           Fits(n) == /\ n < Len(t) => t[n + 1] \in WordStops
                      /\ \A k \in 1 .. n : t[k] \notin WordStops
<1>1. w \in Texts /\ w # <<>> /\ Len(w) \in Nat /\ Len(w) >= 1 /\ Len(rest) \in Nat
      /\ \A i \in 1 .. Len(w) : w[i] \notin WordStops
  BY LenProperties, EmptySeq DEF IsWord, Texts
<1>2. t \in Texts /\ Len(t) = Len(w) + Len(rest)
      /\ \A i \in 1 .. Len(w) + Len(rest) : t[i] = IF i <= Len(w) THEN w[i] ELSE rest[i - Len(w)]
  BY <1>1, ConcatProperties DEF Texts
<1>3. Len(rest) > 0 => rest[1] \in WordStops
  BY DEF NextOf, Texts
<1>a. WordLen(t) = CHOOSE n \in 0 .. Len(t) : Fits(n)
  BY DEF WordLen
<1>. HIDE DEF t
<1>4. Len(w) \in 0 .. Len(t) /\ Fits(Len(w))
  BY <1>1, <1>2, <1>3
<1>5. \A n \in 0 .. Len(t) : Fits(n) => n = Len(w)
  <2>. SUFFICES ASSUME NEW n \in 0 .. Len(t), Fits(n) PROVE n = Len(w)
    OBVIOUS
  <2>1. ~(n < Len(w))
    BY <1>1, <1>2
  <2>2. ~(n > Len(w))
    <3>. SUFFICES ASSUME n > Len(w) PROVE FALSE
      OBVIOUS
    <3>1. Len(rest) > 0 /\ t[Len(w) + 1] = rest[1] /\ Len(w) + 1 \in 1 .. n
      BY <1>1, <1>2
    <3>. QED  BY <1>3, <3>1
  <2>. QED  BY <1>1, <2>1, <2>2
<1>. HIDE DEF Fits
<1>6. WordLen(t) = Len(w)
  BY <1>4, <1>5, <1>a
<1>7. SubSeq(t, 1, Len(w)) = w
  <2>1. Len(w) \in 1 .. Len(w) /\ 1 \in 1 .. Len(w)
    BY <1>1
  <2>2. SubSeq(t, 1, Len(w)) = SubSeq(w, 1, Len(w))
    BY <1>1, <2>1, SubSeqOfConcat1 DEF t, Texts
  <2>. QED  BY <1>1, <2>2, SubSeqFull DEF Texts
<1>8. SubSeq(t, Len(w) + 1, Len(t)) = rest
  <2>1. CASE Len(rest) = 0
    <3>1. rest = <<>>
      BY <2>1, EmptySeq DEF Texts
    <3>2. Len(t) < Len(w) + 1
      BY <1>1, <1>2, <2>1
    <3>. QED  BY <1>1, <1>2, <3>1, <3>2, SubSeqEmpty
  <2>2. CASE Len(rest) > 0
    <3> DEFINE m == Len(w) + 1
               n == Len(t)
    <3>1. m \in Len(w) + 1 .. Len(w) + Len(rest) /\ n \in Len(w) + 1 .. Len(w) + Len(rest)
          /\ m - Len(w) = 1 /\ n - Len(w) = Len(rest)
      BY <1>1, <1>2, <2>2
    <3>2. SubSeq(t, m, n) = SubSeq(rest, m - Len(w), n - Len(w))
      <4>. HIDE DEF m, n
      <4>. QED  BY <1>1, <3>1, SubSeqOfConcat2 DEF t, Texts
    <3>. QED  BY <3>1, <3>2, SubSeqFull DEF Texts
  <2>. QED  BY <1>1, <2>1, <2>2
<1>. QED  BY <1>1, <1>6, <1>7, <1>8 DEF t

\* A text that does not begin with a stop begins with a word.
LEMMA WordCut ==
  ASSUME NEW text \in Texts, WordLen(text) # 0
  PROVE  LET w == SubSeq(text, 1, WordLen(text))
             rest == SubSeq(text, WordLen(text) + 1, Len(text))
         IN IsWord(w) /\ rest \in Texts /\ NextOf(rest) \in WordStops /\ text = w \o rest
<1> DEFINE Fits(n) == /\ n < Len(text) => text[n + 1] \in WordStops
                      /\ \A k \in 1 .. n : text[k] \notin WordStops
           Ends == {n \in 0 .. Len(text) : n < Len(text) => text[n + 1] \in WordStops}
<1>1. Len(text) \in Nat /\ \A i \in 1 .. Len(text) : text[i] \in Lexemes
  BY ElementOfSeq, LenProperties DEF Texts
<1>2. PICK e \in Ends : \A n \in Ends : ~(n < e)
  <2>1. Ends \subseteq Nat /\ Len(text) \in Ends
    BY <1>1
  <2>. HIDE DEF Ends
  <2>2. PICK e \in Ends : \A n \in Ends : <<n, e>> \notin OpToRel(<, Nat)
    BY <2>1, WFMin, NatLessThanWellFounded
  <2>3. \A n \in Ends : ~(n < e)
    BY <2>1, <2>2 DEF OpToRel
  <2>. QED  BY <2>3
<1>3. e \in 0 .. Len(text) /\ Fits(e)
  <2>1. e \in 0 .. Len(text) /\ (e < Len(text) => text[e + 1] \in WordStops)
    BY <1>2
  <2>2. ASSUME NEW k \in 1 .. e PROVE text[k] \notin WordStops
    <3>1. k - 1 \in 0 .. Len(text) /\ k - 1 < e /\ (k - 1) + 1 = k
      BY <1>1, <2>1
    <3>2. k - 1 \notin Ends
      BY <1>2, <3>1
    <3>. QED  BY <3>1, <3>2
  <2>. QED  BY <2>1, <2>2
<1> DEFINE n == WordLen(text)
<1>4. n = CHOOSE k \in 0 .. Len(text) : Fits(k)
  BY DEF WordLen
<1>5. n \in 0 .. Len(text) /\ Fits(n)
  <2>. HIDE DEF Fits, n
  <2>. QED  BY <1>3, <1>4
<1>. HIDE DEF n
<1> DEFINE w == SubSeq(text, 1, n)
           rest == SubSeq(text, n + 1, Len(text))
<1>6. w \in Texts /\ Len(w) = n /\ \A i \in 1 .. n : w[i] = text[i]
  <2>1. \A i \in 1 .. n : text[i] \in Lexemes
    BY <1>1, <1>5
  <2>2. w \in Texts /\ (Len(w) = IF 1 <= n THEN n - 1 + 1 ELSE 0)
        /\ \A i \in 1 .. n - 1 + 1 : w[i] = text[1 + i - 1]
    BY <1>5, <2>1, SubSeqProperties DEF Texts
  <2>. QED  BY <1>5, <2>2
<1>7. /\ rest \in Texts /\ Len(rest) = Len(text) - n
      /\ \A i \in 1 .. Len(text) - n : rest[i] = text[n + i]
  <2> DEFINE m == n + 1
             l == Len(text)
  <2>1. \A i \in m .. l : text[i] \in Lexemes
    BY <1>1, <1>5
  <2>2. m \in Int /\ l \in Int
    BY <1>1, <1>5
  <2>. HIDE DEF m, l
  <2>3. SubSeq(text, m, l) \in Texts /\ (Len(SubSeq(text, m, l)) = IF m <= l THEN l - m + 1 ELSE 0)
        /\ \A i \in 1 .. l - m + 1 : SubSeq(text, m, l)[i] = text[m + i - 1]
    BY <2>1, <2>2, SubSeqProperties DEF Texts
  <2>. QED  BY <1>1, <1>5, <2>3 DEF m, l
<1>8. text = w \o rest
  <2>1. 1 \in 1 .. Len(text) + 1 /\ n \in 1 - 1 .. Len(text) /\ Len(text) \in n .. Len(text)
    BY <1>1, <1>5
  <2>2. w \o rest = SubSeq(text, 1, Len(text))
    BY <2>1, ConcatAdjacentSubSeq DEF Texts
  <2>. QED  BY <2>2, SubSeqFull DEF Texts
<1>9. NextOf(rest) \in WordStops
  <2>1. CASE n = Len(text)
    <3>1. rest = <<>>
      BY <1>1, <1>7, <2>1, EmptySeq DEF Texts
    <3>. QED  BY <3>1 DEF NextOf, WordStops
  <2>2. CASE n < Len(text)
    <3>1. Len(rest) >= 1 /\ rest[1] = text[n + 1]
      BY <1>1, <1>5, <1>7, <2>2
    <3>2. rest # <<>> /\ Head(rest) = rest[1]
      <4>. HIDE DEF rest
      <4>. QED  BY <1>7, <3>1 DEF Texts
    <3>. QED  BY <1>5, <2>2, <3>1, <3>2 DEF NextOf
  <2>. QED  BY <1>1, <1>5, <2>1, <2>2
<1>10. IsWord(w)
  <2>1. n >= 1 
    BY <1>5 DEF n
  <2>2. w # <<>>
    <3>. HIDE DEF w
    <3>. QED  BY <1>6, <2>1, EmptySeq DEF Texts
  <2>. QED  BY <1>5, <1>6, <2>2 DEF IsWord
<1>. QED  BY <1>7, <1>8, <1>9, <1>10 DEF n

-----------------------------------------------------------------------------
(* What is written.                                                         *)

Fields == RuleFields \cup {"type", "name", "port", "service", "line", "arg1", "arg2", "arg3"}
IsDest(dest) == DOMAIN dest = Fields /\ dest = [f \in Fields |-> dest[f]]
Placed(dest, d, v) == [dest EXCEPT ![d] = v]

LEMMA PutDest ==
  ASSUME NEW dest, IsDest(dest), NEW d \in Fields, NEW v
  PROVE  /\ IsDest(Placed(dest, d, v)) /\ Placed(dest, d, v)[d] = v
         /\ \A f \in Fields \ {d} : Placed(dest, d, v)[f] = dest[f]
BY DEF IsDest, Placed

LEMMA FieldNames ==
  /\ "type" \in Fields /\ "name" \in Fields /\ "port" \in Fields /\ "service" \in Fields
  /\ "line" \in Fields /\ "arg1" \in Fields /\ "arg2" \in Fields /\ "arg3" \in Fields
BY DEF Fields

-----------------------------------------------------------------------------
(* The pieces read what they are made for.                                  *)

\* A state that has not failed.
On(text, err, dest) == State(text, TRUE, err, dest)

LEMMA HereIs ==
  ASSUME NEW text \in Texts, NEW err, NEW dest
  PROVE  /\ Here(On(text, err, dest)) = NextOf(text)
         /\ Then(On(text, err, dest)) = IF Len(text) < 2 THEN End ELSE text[2]
BY DEF On, State, Here, Then, NextOf

LEMMA OneRead ==
  ASSUME NEW c \in Lexemes, NEW rest \in Texts, NEW err, NEW dest
  PROVE  LET s == On(<<c>> \o rest, err, dest) IN
         /\ Here(s) = c /\ Then(s) = NextOf(rest) /\ s.ok = TRUE /\ s.dest = dest
         /\ Tail(s.left) = rest /\ s.left = <<c>> \o rest /\ s.err = err
<1> DEFINE text == <<c>> \o rest
           s == On(text, err, dest)
<1>1. /\ text \in Texts /\ NextOf(text) = c /\ Tail(text) = rest
      /\ (IF Len(text) < 2 THEN End ELSE text[2]) = NextOf(rest)
  BY Lexeme
<1>. HIDE DEF text
<1>2. Here(s) = NextOf(text) /\ Then(s) = IF Len(text) < 2 THEN End ELSE text[2]
  BY <1>1, HereIs
<1>3. s.left = text /\ s.ok = TRUE /\ s.err = err /\ s.dest = dest
  BY DEF On, State
<1>. HIDE DEF s
<1>4. Here(s) = c /\ Then(s) = NextOf(rest) /\ Tail(s.left) = rest
  BY <1>1, <1>2, <1>3
<1>. QED  BY <1>3, <1>4 DEF s, text

LEMMA BlankReads ==
  ASSUME NEW rest \in Texts, NEW err, NEW dest
  PROVE  Blank(On(<<Sp>> \o rest, err, dest)) = On(rest, 0, dest)
<1>1. PICK c \in Lexemes : c = Sp
  BY DEF Lexemes, Keywords
<1> DEFINE s == On(<<c>> \o rest, err, dest)
<1>2. Here(s) = c /\ s.ok = TRUE /\ s.dest = dest /\ Tail(s.left) = rest
  BY OneRead DEF On, State
<1>. HIDE DEF s
<1>3. Blank(s) = On(rest, 0, dest)
  BY <1>1, <1>2 DEF Blank, Take, Accept, On
<1>. QED  BY <1>1, <1>3 DEF s

LEMMA ConstReads ==
  ASSUME NEW c \in Lexemes, NEW rest \in Texts, NextOf(rest) \in WordStops, NEW err, NEW dest
  PROVE  Const(c, On(<<c>> \o rest, err, dest)) = On(rest, 0, dest)
<1> DEFINE s == On(<<c>> \o rest, err, dest)
<1>1. Here(s) = c /\ Then(s) = NextOf(rest) /\ s.ok = TRUE /\ s.dest = dest /\ Tail(s.left) = rest
  BY OneRead DEF On, State
<1>. HIDE DEF s
<1>2. Const(c, s) = On(rest, 0, dest)
  BY <1>1 DEF Const, Take, Accept, On
<1>. QED  BY <1>2 DEF s

LEMMA NumberReads ==
  ASSUME NEW n \in DOMAIN Numbers, NEW rest \in Texts, NEW err, NEW dest, NEW d
  PROVE  Number(d, On(<<n>> \o rest, err, dest)) = On(rest, 0, Placed(dest, d, n))
<1> DEFINE s == On(<<n>> \o rest, err, dest)
<1>1. n \in Lexemes
  BY GrammarAssumption DEF Lexemes
<1>2. Here(s) = n /\ s.ok = TRUE /\ s.dest = dest /\ Tail(s.left) = rest
  BY <1>1, OneRead DEF On, State
<1>. HIDE DEF s
<1>3. Number(d, s) = On(rest, 0, Placed(dest, d, n))
  BY <1>2 DEF Number, Take, Accept, Write, State, On, Placed
<1>. QED  BY <1>3 DEF s

LEMMA PercentReads ==
  ASSUME NEW n \in DOMAIN Numbers, Numbers[n] <= 100, NEW rest \in Texts, NEW err, NEW dest, NEW d
  PROVE  Percent(d, On(<<n>> \o rest, err, dest)) = On(rest, 0, Placed(dest, d, n))
<1> DEFINE s == On(<<n>> \o rest, err, dest)
<1>1. n \in Lexemes /\ Numbers[n] \in Nat
  BY GrammarAssumption DEF Lexemes
<1>2. Here(s) = n
  BY <1>1, OneRead DEF On, State
<1>3. Number(d, s) = On(rest, 0, Placed(dest, d, n))
  BY NumberReads
<1>. HIDE DEF s
<1>4. ~(Numbers[Here(s)] > 100)
  BY <1>1, <1>2
<1>5. Percent(d, s) = Number(d, s)
  BY <1>4 DEF Percent
<1>. QED  BY <1>3, <1>5 DEF s

LEMMA EnumReads ==
  ASSUME NEW t, NEW c \in t.names, c \in Lexemes, NEW rest \in Texts, NextOf(rest) \in EnumStops,
         NEW err, NEW dest, NEW d
  PROVE  Enum(d, t, On(<<c>> \o rest, err, dest)) = On(rest, 0, Placed(dest, d, c))
<1> DEFINE s == On(<<c>> \o rest, err, dest)
<1>1. Here(s) = c /\ Then(s) = NextOf(rest) /\ s.ok = TRUE /\ s.dest = dest /\ Tail(s.left) = rest
  BY OneRead DEF On, State
<1>. HIDE DEF s
<1>4. Enum(d, t, s) = On(rest, 0, Placed(dest, d, c))
  BY <1>1 DEF Enum, Take, Accept, Write, State, On, Placed
<1>. QED  BY <1>4 DEF s

LEMMA WordReads ==
  ASSUME NEW w, IsWord(w), NEW rest \in Texts, NextOf(rest) \in WordStops, NEW err, NEW dest, NEW d
  PROVE  Word(d, On(w \o rest, err, dest)) = On(rest, 0, Placed(dest, d, w))
<1> DEFINE s == On(w \o rest, err, dest)
<1>1. s.left = w \o rest /\ s.ok = TRUE /\ s.err = err /\ s.dest = dest
  BY DEF On, State
<1>2. WordLen(s.left) = Len(w) /\ Len(w) # 0 /\ SubSeq(s.left, 1, Len(w)) = w
      /\ SubSeq(s.left, Len(w) + 1, Len(s.left)) = rest
  BY <1>1, WordLenIs
<1>. HIDE DEF s
<1>3. Word(d, s) = Accept(Write(s, d, w), rest)
  BY <1>1, <1>2 DEF Word
<1>4. Word(d, s) = On(rest, 0, Placed(dest, d, w))
  BY <1>1, <1>3 DEF State, Accept, Write, On, Placed
<1>. QED  BY <1>4 DEF s

-----------------------------------------------------------------------------
(* Alternatives and optional parts.                                         *)

Fails(r, dest) == ~r.ok /\ r.dest = dest

LEMMA Gathers ==
  ASSUME NEW left, NEW err, NEW dest, NEW text, NEW e, NEW d, NEW b
  PROVE  LET r == On(left, err, dest)
             s == On(text, e, d)
         IN /\ Suite(r, s) = On(left, 0, dest)
            /\ Optional(r, s) = On(left, 0, dest)
            /\ First(r, b, s) = On(left, 0, dest)
BY DEF Suite, Optional, First, Accept, On, State

\* After an alternative that was given up, or an optional part that is not there.
LEMMA GivesUp ==
  ASSUME NEW r, NEW w, Fails(r, w), NEW text, NEW e, NEW d, NEW left, NEW err, NEW dest
  PROVE  LET s == On(text, e, d)
             b == On(left, err, dest)
         IN /\ Retry(r, s) = On(text, r.err, w)
            /\ First(r, b, s) = On(left, 0, dest)
            /\ Optional(r, s) = On(text, 0, w)
BY DEF Fails, Retry, Suite, Optional, First, Accept, Reject, Back, On, State

\* A state that failed goes through the pieces as it is.
LEMMA Passes ==
  ASSUME NEW s, NEW w, Fails(s, w), NEW c, NEW d, NEW t
  PROVE  Blank(s) = s /\ Const(c, s) = s /\ Number(d, s) = s /\ Word(d, s) = s /\ Enum(d, t, s) = s
<1>1. ~s.ok
  BY DEF Fails
<1>2. Blank(s) = s /\ Const(c, s) = s
  BY <1>1 DEF Blank, Const, Take
<1>3. Number(d, s) = s
  BY <1>1 DEF Number, Take
<1>4. Word(d, s) = s
  BY <1>1 DEF Word
<1>5. Enum(d, t, s) = s
  BY <1>1 DEF Enum
<1>. QED  BY <1>2, <1>3, <1>4, <1>5

LEMMA ConstFails ==
  ASSUME NEW c, NEW text \in Texts, NextOf(text) # c, NEW err, NEW dest
  PROVE  Fails(Const(c, On(text, err, dest)), dest)
<1>1. Here(On(text, err, dest)) = NextOf(text)
  BY HereIs
<1>. QED  BY <1>1 DEF Const, Take, Reject, On, State, Fails

LEMMA NumberFails ==
  ASSUME NEW d, NEW text \in Texts, NextOf(text) \notin DOMAIN Numbers, NEW err, NEW dest
  PROVE  Fails(Number(d, On(text, err, dest)), dest)
<1>1. Here(On(text, err, dest)) = NextOf(text)
  BY HereIs
<1>. QED  BY <1>1 DEF Number, Take, Reject, On, State, Fails

\* The text begins with a constant of a table.
Begins(text, t) ==
  NextOf(text) \in t.names /\ (IF Len(text) < 2 THEN End ELSE text[2]) \in EnumStops

LEMMA EnumFails ==
  ASSUME NEW d, NEW t, NEW text \in Texts, ~Begins(text, t), NEW err, NEW dest
  PROVE  Fails(Enum(d, t, On(text, err, dest)), Placed(dest, d, t.default))
<1> DEFINE s == On(text, err, dest)
<1>1. Here(s) = NextOf(text) /\ Then(s) = IF Len(text) < 2 THEN End ELSE text[2]
  BY HereIs
<1>2. s.ok = TRUE /\ s.dest = dest
  BY DEF On, State
<1>. HIDE DEF s
<1>3. Enum(d, t, s) = RejectAs(Write(s, d, t.default))
  BY <1>1, <1>2 DEF Enum, Begins
<1>4. Fails(Enum(d, t, s), Placed(dest, d, t.default))
  BY <1>2, <1>3 DEF RejectAs, Write, State, Placed, Fails
<1>. QED  BY <1>4 DEF s

-----------------------------------------------------------------------------
(* Hosts.                                                                   *)

\* The words that say the host h: those of its name, and those of its port.
NameSays(n, h) ==
  \/ h.type \in Specials.names /\ n = <<h.type>> /\ h.addr = "0"
  \/ /\ h.type = "address" /\ IsWord(n) /\ n \in DOMAIN Addresses /\ h.addr = Addresses[n]
     /\ ~(n[1] \in Specials.names /\ (Len(n) = 1 \/ n[2] \in EnumStops))
PortSays(p, h) ==
  \/ p = <<>> /\ h.port = "any"
  \/ p = <<h.port>> /\ h.port \in DOMAIN Numbers
  \/ IsWord(p) /\ p[1] \notin DOMAIN Numbers /\ p \in DOMAIN Services /\ h.port = Services[p]
HostSays(n, p, h) ==
  h = [type |-> h.type, addr |-> h.addr, port |-> h.port] /\ NameSays(n, h) /\ PortSays(p, h)

LEMMA SpecialsWords ==
  /\ Specials.names \cap WordStops = {} /\ Specials.names \subseteq Lexemes
  /\ Specials.default = "address" /\ "address" \notin Specials.names
BY DEF Specials, Table, WordStops, End, Lexemes, Keywords

LEMMA OneWord == ASSUME NEW c \in Lexemes, c \notin WordStops PROVE IsWord(<<c>>)
<1>1. <<c>> \in Texts /\ Len(<<c>>) = 1 /\ <<c>>[1] = c
  BY DEF Texts
<1>2. <<c>> # <<>>
  OBVIOUS
<1>. QED  BY <1>1, <1>2 DEF IsWord

LEMMA NameWord == ASSUME NEW n, NEW h, NameSays(n, h) PROVE IsWord(n)
BY SpecialsWords, OneWord DEF NameSays

LEMMA NumberWord == ASSUME NEW n \in DOMAIN Numbers PROVE n \in Lexemes \ WordStops /\ IsWord(<<n>>)
<1>1. n \in Lexemes \ WordStops
  BY GrammarAssumption DEF Lexemes
<1>. QED  BY <1>1, OneWord

LEMMA StopsEnum == WordStops \subseteq EnumStops
BY DEF EnumStops

\* A name is read, whichever way it is said.
NameRead(dest, h, n) == IF h.type \in Specials.names THEN Placed(dest, "type", h.type)
                        ELSE Placed(Placed(dest, "type", Specials.default), "name", n)
LEMMA NameReads ==
  ASSUME NEW n, NEW h, NameSays(n, h), NEW rest \in Texts, NextOf(rest) \in WordStops, NEW err, NEW dest
  PROVE  HostName(On(n \o rest, err, dest)) = On(rest, 0, NameRead(dest, h, n))
<1> DEFINE s == On(n \o rest, err, dest)
           a == Enum("type", Specials, s)
           b == Word("name", Retry(a, s))
<1>0. HostName(s) = First(a, b, s)
  BY DEF HostName
<1>1. NextOf(rest) \in EnumStops
  BY StopsEnum
<1>2. CASE h.type \in Specials.names
  <2>1. n = <<h.type>> /\ h.type \in Lexemes
    BY <1>2, SpecialsWords DEF NameSays
  <2>2. Enum("type", Specials, On(<<h.type>> \o rest, err, dest)) = On(rest, 0, Placed(dest, "type", h.type))
    BY <1>1, <1>2, <2>1, EnumReads
  <2>3. a = On(rest, 0, Placed(dest, "type", h.type))
    BY <2>1, <2>2
  <2>. HIDE DEF a, b
  <2>4. First(a, b, s) = On(rest, 0, Placed(dest, "type", h.type))
    BY <2>3, Gathers
  <2>. QED  BY <1>0, <1>2, <2>4 DEF NameRead
<1>3. CASE h.type \notin Specials.names
  <2>1. IsWord(n) /\ ~(n[1] \in Specials.names /\ (Len(n) = 1 \/ n[2] \in EnumStops))
    BY <1>3 DEF NameSays
  <2> DEFINE text == n \o rest
  <2>2. /\ text \in Texts /\ text # <<>> /\ NextOf(text) = n[1]
        /\ (IF Len(text) < 2 THEN End ELSE text[2]) = IF Len(n) = 1 THEN NextOf(rest) ELSE n[2]
    BY <2>1, WordInText DEF NextOf
  <2>3. ~Begins(text, Specials)
    <3>. HIDE DEF text
    <3>. QED  BY <2>1, <2>2, <1>1 DEF Begins
  <2>4. Fails(a, Placed(dest, "type", Specials.default))
    <3>. HIDE DEF text
    <3>1. Fails(Enum("type", Specials, On(text, err, dest)), Placed(dest, "type", Specials.default))
      BY <2>2, <2>3, EnumFails
    <3>. QED  BY <3>1 DEF text
  <2>. HIDE DEF a
  <2>5. Retry(a, s) = On(n \o rest, a.err, Placed(dest, "type", Specials.default))
    BY <2>4, GivesUp
  <2>6. b = On(rest, 0, Placed(Placed(dest, "type", Specials.default), "name", n))
    BY <2>1, <2>5, WordReads
  <2>. HIDE DEF b
  <2>7. First(a, b, s) = On(rest, 0, Placed(Placed(dest, "type", Specials.default), "name", n))
    BY <2>4, <2>6, GivesUp
  <2>. QED  BY <1>0, <1>3, <2>7 DEF NameRead
<1>. QED  BY <1>2, <1>3

\* A port is read: a number, or else the name of a service.
PortRead(dest, p) ==
  IF p[1] \in DOMAIN Numbers THEN Placed(dest, "port", p[1]) ELSE Placed(dest, "service", p)
LEMMA PortReads ==
  ASSUME NEW p, NEW h, PortSays(p, h), p # <<>>, NEW rest \in Texts, NextOf(rest) \in WordStops,
         NEW err, NEW dest
  PROVE  PortNumber(On(p \o rest, err, dest)) = On(rest, 0, PortRead(dest, p))
<1> DEFINE s == On(p \o rest, err, dest)
           a == Number("port", s)
           b == Word("service", Retry(a, s))
<1>0. PortNumber(s) = First(a, b, s)
  BY DEF PortNumber
<1>1. CASE p = <<h.port>> /\ h.port \in DOMAIN Numbers
  <2>1. Number("port", On(<<h.port>> \o rest, err, dest)) = On(rest, 0, Placed(dest, "port", h.port))
    BY <1>1, NumberReads
  <2>2. a = On(rest, 0, Placed(dest, "port", h.port)) /\ p[1] = h.port
    BY <1>1, <2>1
  <2>. HIDE DEF a, b
  <2>3. First(a, b, s) = On(rest, 0, Placed(dest, "port", h.port))
    BY <2>2, Gathers
  <2>. QED  BY <1>0, <1>1, <2>2, <2>3 DEF PortRead
<1>2. CASE IsWord(p) /\ p[1] \notin DOMAIN Numbers
  <2> DEFINE text == p \o rest
  <2>1. text \in Texts /\ text # <<>> /\ NextOf(text) = p[1]
    BY <1>2, WordInText DEF NextOf
  <2>2. Fails(a, dest)
    <3>. HIDE DEF text
    <3>1. Fails(Number("port", On(text, err, dest)), dest)
      BY <1>2, <2>1, NumberFails
    <3>. QED  BY <3>1 DEF text
  <2>. HIDE DEF a
  <2>3. Retry(a, s) = On(p \o rest, a.err, dest)
    BY <2>2, GivesUp
  <2>4. b = On(rest, 0, Placed(dest, "service", p))
    BY <1>2, <2>3, WordReads
  <2>. HIDE DEF b
  <2>5. First(a, b, s) = On(rest, 0, Placed(dest, "service", p))
    BY <2>2, <2>4, GivesUp
  <2>. QED  BY <1>0, <1>2, <2>5 DEF PortRead
<1>. QED  BY <1>1, <1>2 DEF PortSays

\* What a name, or a word for a port, leaves after it.
PortText(p) == IF p = <<>> THEN <<>> ELSE <<Sp>> \o (<<"port">> \o (<<Sp>> \o p))

LEMMA PortWord == ASSUME NEW p, NEW h, PortSays(p, h), p # <<>> PROVE IsWord(p)
BY NumberWord DEF PortSays

LEMMA Space ==
  ASSUME NEW rest \in Texts
  PROVE  /\ <<Sp>> \o rest \in Texts /\ NextOf(<<Sp>> \o rest) \in WordStops
         /\ NextOf(<<Sp>> \o rest) = Sp 
<1>1. Sp \in Lexemes /\ Sp \in WordStops
  BY DEF Lexemes, Keywords, WordStops
<1>. QED  BY <1>1, Lexeme

LEMMA PortTexts ==
  ASSUME NEW p, NEW h, PortSays(p, h), NEW rest \in Texts, NextOf(rest) \in WordStops
  PROVE  /\ PortText(p) \in Texts
         /\ NextOf(PortText(p) \o rest) \in WordStops
         /\ p # <<>> => PortText(p) \o rest = <<Sp>> \o (<<"port">> \o (<<Sp>> \o (p \o rest)))
<1>1. CASE p = <<>>
  BY <1>1, ConcatEmptySeq DEF PortText, Texts
<1>2. CASE p # <<>>
  <2>0. Sp \in Lexemes /\ "port" \in Lexemes
    BY DEF Lexemes, Keywords
  <2>1. p \in Texts /\ p \o rest \in Texts
    BY <1>2, PortWord, Assoc DEF IsWord
  <2> DEFINE x == <<Sp>> \o p
             y == <<"port">> \o x
  <2>2. x \in Texts /\ x \o rest = <<Sp>> \o (p \o rest) /\ x \o rest \in Texts
    <3>1. x \in Texts /\ x \o rest = <<Sp>> \o (p \o rest)
      BY <2>0, <2>1, LexemeAssoc
    <3>. QED  BY <3>1, Joins
  <2>. HIDE DEF x
  <2>3. y \in Texts /\ y \o rest = <<"port">> \o (x \o rest) /\ y \o rest \in Texts
    <3>1. y \in Texts /\ y \o rest = <<"port">> \o (x \o rest)
      BY <2>0, <2>2, LexemeAssoc
    <3>. QED  BY <3>1, Joins
  <2>. HIDE DEF y
  <2>4. <<Sp>> \o y \in Texts /\ (<<Sp>> \o y) \o rest = <<Sp>> \o (y \o rest)
    BY <2>0, <2>3, LexemeAssoc
  <2>5. NextOf(<<Sp>> \o (y \o rest)) \in WordStops
    BY <2>3, Space
  <2>6. PortText(p) = <<Sp>> \o y
    BY <1>2 DEF PortText, x, y
  <2>. QED  BY <2>2, <2>3, <2>4, <2>5, <2>6
<1>. QED  BY <1>1, <1>2

\* The text goes on with something else than a port.
NoPort(text) == text \in Texts /\ NextOf(text) # "port"
PortTold(dest, p) == IF p = <<>> THEN dest ELSE PortRead(dest, p)

LEMMA HostPortReads ==
  ASSUME NEW p, NEW h, PortSays(p, h), NEW more, NoPort(more), NEW err, NEW dest
  PROVE  HostPort(On(PortText(p) \o (<<Sp>> \o more), err, dest)) = On(<<Sp>> \o more, 0, PortTold(dest, p))
<1> DEFINE rest == <<Sp>> \o more
<1>0. more \in Texts /\ rest \in Texts /\ NextOf(rest) \in WordStops
  BY Space DEF NoPort
<1>1. CASE p = <<>>
  <2> DEFINE s == On(rest, err, dest)
             c == Const("port", Blank(s))
             n == PortNumber(Blank(c))
  <2>1. PortText(p) \o rest = rest
    BY <1>0, <1>1, ConcatEmptySeq DEF PortText, Texts
  <2>2. Blank(s) = On(more, 0, dest)
    BY <1>0, BlankReads
  <2>3. Fails(Const("port", On(more, 0, dest)), dest)
    BY <1>0, ConstFails DEF NoPort
  <2>4. Fails(c, dest)
    BY <2>2, <2>3
  <2>. HIDE DEF c
  <2>5. n = c
    BY <2>4, Passes DEF PortNumber, First, Fails
  <2>6. Optional(n, s) = On(rest, 0, dest)
    <3>. HIDE DEF rest, n
    <3>. QED  BY <2>4, <2>5, GivesUp
  <2>7. HostPort(s) = Optional(n, s)
    BY DEF HostPort, n, c
  <2>. QED  BY <1>1, <2>1, <2>6, <2>7 DEF PortTold
<1>2. CASE p # <<>>
  <2> DEFINE r3 == p \o rest
             r2 == <<Sp>> \o r3
             r1 == <<"port">> \o r2
             s  == On(<<Sp>> \o r1, err, dest)
  <2>1. PortText(p) \o rest = <<Sp>> \o r1
    <3>. HIDE DEF rest
    <3>. QED  BY <1>0, <1>2, PortTexts
  <2>2. r3 \in Texts
    BY <1>0, <1>2, PortWord, Assoc DEF IsWord
  <2>. HIDE DEF r3
  <2>3. r2 \in Texts /\ NextOf(r2) \in WordStops
    BY <2>2, Space
  <2>4. Blank(On(r2, 0, dest)) = On(r3, 0, dest)
    BY <2>2, BlankReads
  <2>. HIDE DEF r2
  <2>5. r1 \in Texts /\ Const("port", On(r1, 0, dest)) = On(r2, 0, dest)
    <3>1. "port" \in Lexemes
      BY DEF Lexemes, Keywords
    <3>. QED  BY <2>3, <3>1, Lexeme, ConstReads
  <2>. HIDE DEF r1
  <2>6. Blank(s) = On(r1, 0, dest)
    BY <2>5, BlankReads
  <2>7. PortNumber(On(r3, 0, dest)) = On(rest, 0, PortRead(dest, p))
    <3>. HIDE DEF rest
    <3>. QED  BY <1>0, <1>2, PortReads DEF r3
  <2> DEFINE n == PortNumber(Blank(Const("port", Blank(s))))
  <2>8. n = On(rest, 0, PortRead(dest, p))
    BY <2>4, <2>5, <2>6, <2>7
  <2>9. HostPort(s) = Optional(n, s)
    BY DEF HostPort
  <2>10. Optional(n, s) = On(rest, 0, PortRead(dest, p))
    <3> DEFINE t == <<Sp>> \o r1
               q == PortRead(dest, p)
    <3>. HIDE DEF n, rest, t, q
    <3>1. Optional(On(rest, 0, q), On(t, err, dest)) = On(rest, 0, q)
      BY Gathers
    <3>2. s = On(t, err, dest)
      BY DEF t
    <3>. QED  BY <2>8, <3>1, <3>2 DEF q
  <2>. QED  BY <1>2, <2>1, <2>9, <2>10 DEF PortTold, rest
<1>. QED  BY <1>1, <1>2

HostText(kw, n, p) == <<kw>> \o (<<Sp>> \o (n \o PortText(p)))
\* A text that begins with a keyword, and goes on with rest.
WordThen(kw, rest) == <<kw>> \o (<<Sp>> \o rest)

LEMMA HostTexts ==
  ASSUME NEW n, NEW p, NEW h, HostSays(n, p, h), NEW kw \in Lexemes, NEW rest \in Texts, NextOf(rest) \in WordStops
  PROVE  /\ HostText(kw, n, p) \o rest = WordThen(kw, n \o (PortText(p) \o rest))
         /\ HostText(kw, n, p) \in Texts /\ n \o (PortText(p) \o rest) \in Texts
         /\ NextOf(HostText(kw, n, p) \o rest) = kw
<1>1. IsWord(n) /\ n \in Texts /\ PortText(p) \in Texts /\ PortText(p) \o rest \in Texts
  BY NameWord, PortTexts, Assoc DEF HostSays, IsWord
<1> DEFINE x == n \o PortText(p)
           y == <<Sp>> \o x
<1>2. x \in Texts /\ x \o rest = n \o (PortText(p) \o rest) /\ n \o (PortText(p) \o rest) \in Texts
  <2> DEFINE q == PortText(p)
  <2>. HIDE DEF q
  <2>1. q \in Texts /\ q \o rest \in Texts
    BY <1>1 DEF q
  <2>2. n \in Texts
    BY <1>1
  <2>3. n \o q \in Texts
    BY <2>1, <2>2, Joins
  <2>4. n \o (q \o rest) \in Texts
    BY <2>1, <2>2, Joins
  <2>5. (n \o q) \o rest = n \o (q \o rest)
    BY <2>1, <2>2, Assoc
  <2>. QED  BY <2>3, <2>4, <2>5 DEF q
<1>. HIDE DEF x
<1>3. Sp \in Lexemes
  BY DEF Lexemes, Keywords
<1>4. y \in Texts /\ y \o rest = <<Sp>> \o (x \o rest) /\ y \o rest \in Texts
  BY <1>2, <1>3, LexemeAssoc, Assoc
<1>. HIDE DEF y
<1>5. <<kw>> \o y \in Texts /\ (<<kw>> \o y) \o rest = <<kw>> \o (y \o rest)
  BY <1>4, LexemeAssoc
<1>6. NextOf(<<kw>> \o (y \o rest)) = kw
  BY <1>4, Lexeme
<1>7. HostText(kw, n, p) = <<kw>> \o y
  BY DEF HostText, x, y
<1>8. WordThen(kw, n \o (PortText(p) \o rest)) = <<kw>> \o (y \o rest)
  BY <1>2, <1>4 DEF WordThen
<1>. QED  BY <1>2, <1>4, <1>5, <1>6, <1>7, <1>8

\* What the pieces of a host have written.
Cleared(dest, d) == Placed(Placed(Placed(dest, "type", dest[d].type), "port", "any"), "service", <<>>)
Heard(D, dest, n, h) ==
  /\ IsDest(D) /\ D["type"] = h.type /\ (h.type \notin Specials.names => D["name"] = n)
  /\ \/ D["service"] = <<>> /\ D["port"] = h.port
     \/ D["service"] # <<>> /\ D["service"] \in DOMAIN Services /\ Services[D["service"]] = h.port
  /\ \A f \in RuleFields : D[f] = dest[f]

LEMMA ClearedDest ==
  ASSUME NEW dest, IsDest(dest), NEW d
  PROVE  LET D == Cleared(dest, d) IN
         /\ IsDest(D) /\ D["type"] = dest[d].type /\ D["port"] = "any" /\ D["service"] = <<>>
         /\ \A f \in RuleFields : D[f] = dest[f]
<1> DEFINE a == Placed(dest, "type", dest[d].type)
           b == Placed(a, "port", "any")
           c == Placed(b, "service", <<>>)
<1>1. IsDest(a) /\ a["type"] = dest[d].type /\ \A f \in RuleFields : a[f] = dest[f]
  BY PutDest DEF Fields, RuleFields
<1>. HIDE DEF a
<1>2. IsDest(b) /\ b["type"] = dest[d].type /\ b["port"] = "any" /\ \A f \in RuleFields : b[f] = dest[f]
  BY <1>1, PutDest DEF Fields, RuleFields
<1>. HIDE DEF b
<1>3. IsDest(c) /\ c["type"] = dest[d].type /\ c["port"] = "any" /\ c["service"] = <<>>
      /\ \A f \in RuleFields : c[f] = dest[f]
  BY <1>2, PutDest DEF Fields, RuleFields
<1>. QED  BY <1>3 DEF Cleared, a, b

LEMMA NameDest ==
  ASSUME NEW dest, IsDest(dest), NEW n, NEW h, NameSays(n, h)
  PROVE  LET D == NameRead(dest, h, n) IN
         /\ IsDest(D) /\ D["type"] = h.type /\ (h.type \notin Specials.names => D["name"] = n)
         /\ \A f \in RuleFields \cup {"port", "service"} : D[f] = dest[f]
<1>1. CASE h.type \in Specials.names
  BY <1>1, PutDest DEF Fields, RuleFields, NameRead
<1>2. CASE h.type \notin Specials.names
  <2> DEFINE a == Placed(dest, "type", Specials.default)
             b == Placed(a, "name", n)
  <2>1. IsDest(a) /\ a["type"] = h.type /\ \A f \in RuleFields \cup {"port", "service"} : a[f] = dest[f]
    BY <1>2, PutDest, SpecialsWords DEF Fields, RuleFields, NameSays
  <2>. HIDE DEF a
  <2>2. IsDest(b) /\ b["type"] = h.type /\ b["name"] = n
        /\ \A f \in RuleFields \cup {"port", "service"} : b[f] = dest[f]
    BY <2>1, PutDest DEF Fields, RuleFields
  <2>. QED  BY <1>2, <2>2 DEF NameRead, a
<1>. QED  BY <1>1, <1>2

LEMMA PortDest ==
  ASSUME NEW dest, IsDest(dest), NEW p, NEW h, PortSays(p, h), dest["port"] = "any", dest["service"] = <<>>
  PROVE  LET D == PortTold(dest, p) IN
         /\ IsDest(D)
         /\ \/ D["service"] = <<>> /\ D["port"] = h.port
            \/ D["service"] # <<>> /\ D["service"] \in DOMAIN Services /\ Services[D["service"]] = h.port
         /\ \A f \in RuleFields \cup {"type", "name"} : D[f] = dest[f]
<1>1. CASE p = <<>>
  <2>1. h.port = "any"
    BY <1>1 DEF PortSays, IsWord
  <2>. QED  BY <1>1, <2>1 DEF PortTold
<1>2. CASE p # <<>> /\ p = <<h.port>> /\ h.port \in DOMAIN Numbers
  BY <1>2, PutDest DEF PortTold, PortRead, Fields, RuleFields
<1>3. CASE IsWord(p) /\ p[1] \notin DOMAIN Numbers /\ p \in DOMAIN Services /\ h.port = Services[p]
  <2>1. p # <<>>
    BY <1>3 DEF IsWord
  <2>. QED  BY <1>3, <2>1, PutDest DEF PortTold, PortRead, Fields, RuleFields
<1>4. p = <<>> => <<h.port>> # p
  OBVIOUS
<1>. QED  BY <1>1, <1>2, <1>3, <1>4 DEF PortSays

LEMMA HeardDest ==
  ASSUME NEW dest, IsDest(dest), NEW d, NEW n, NEW p, NEW h, HostSays(n, p, h)
  PROVE  Heard(PortTold(NameRead(Cleared(dest, d), h, n), p), dest, n, h)
<1> DEFINE a == Cleared(dest, d)
           b == NameRead(a, h, n)
           c == PortTold(b, p)
<1>0. NameSays(n, h) /\ PortSays(p, h)
  BY DEF HostSays
<1>1. IsDest(a) /\ a["port"] = "any" /\ a["service"] = <<>> /\ \A f \in RuleFields : a[f] = dest[f]
  BY ClearedDest
<1>. HIDE DEF a
<1>2. /\ IsDest(b) /\ b["type"] = h.type /\ (h.type \notin Specials.names => b["name"] = n)
      /\ \A f \in RuleFields \cup {"port", "service"} : b[f] = a[f]
  BY <1>0, <1>1, NameDest
<1>. HIDE DEF b
<1>3. b["port"] = "any" /\ b["service"] = <<>>
  BY <1>1, <1>2
<1>4. /\ IsDest(c)
      /\ \/ c["service"] = <<>> /\ c["port"] = h.port
         \/ c["service"] # <<>> /\ c["service"] \in DOMAIN Services /\ Services[c["service"]] = h.port
      /\ \A f \in RuleFields \cup {"type", "name"} : c[f] = b[f]
  BY <1>0, <1>2, <1>3, PortDest
<1>. HIDE DEF c
<1>5. Heard(c, dest, n, h)
  BY <1>1, <1>2, <1>4 DEF Heard
<1>. QED  BY <1>5 DEF a, b, c

\* The piece r left rest and wrote v into d; of the fields of the rule it wrote no other.
Gives(r, rest, dest, d, v) ==
  \E D : r = On(rest, 0, D) /\ IsDest(D) /\ D[d] = v /\ \A f \in RuleFields \ {d} : D[f] = dest[f]

LEMMA Writes == ASSUME NEW left, NEW err, NEW dest, NEW d, NEW v
                PROVE  Write(On(left, err, dest), d, v) = On(left, err, Placed(dest, d, v))
BY DEF Write, On, State, Placed

\* Action_parse_host once its text is read.
LEMMA HostMade ==
  ASSUME NEW s, s.ok, NEW kw, NEW d \in RuleFields, NEW dest, IsDest(dest), NEW D, NEW rest,
         NEW n, NEW p, NEW h, HostSays(n, p, h), Heard(D, dest, n, h),
         HostRead(d, kw, s) = On(rest, 0, D)
  PROVE  Gives(Host(d, kw, s), rest, dest, d, h)
<1> DEFINE r      == HostRead(d, kw, s)
           known  == r.dest.type = "address" => r.dest.name \in DOMAIN Addresses
           serves == r.dest.service # <<>> => r.dest.service \in DOMAIN Services
           host   == [type |-> r.dest.type,
                      addr |-> IF r.ok /\ known /\ r.dest.type = "address" THEN Addresses[r.dest.name]
                               ELSE "0",
                      port |-> IF r.ok /\ serves /\ r.dest.service # <<>> THEN Services[r.dest.service]
                               ELSE r.dest.port]
<1>1. r.ok /\ r.dest = D
  BY DEF On, State
<1>2. r = On(rest, 0, D)
  OBVIOUS
<1>3. known /\ (r.dest.type = "address" => Addresses[r.dest.name] = h.addr)
      /\ (r.dest.type # "address" => h.addr = "0")
  BY <1>1, SpecialsWords DEF Heard, HostSays, NameSays
<1>4. serves /\ (r.dest.service # <<>> => Services[r.dest.service] = h.port)
      /\ (r.dest.service = <<>> => r.dest.port = h.port)
  BY <1>1 DEF Heard
<1>5. host = [type |-> h.type, addr |-> h.addr, port |-> h.port]
  BY <1>1, <1>3, <1>4 DEF Heard
<1>6. host = h
  BY <1>5 DEF HostSays
<1>7. Host(d, kw, s) = Write(r, d, host)
  BY <1>3, <1>4 DEF Host, HostFound
<1>. HIDE DEF r, host
<1>8. Host(d, kw, s) = On(rest, 0, Placed(D, d, h))
  BY <1>2, <1>6, <1>7, Writes
<1>9. d \in Fields /\ IsDest(D)
  BY DEF Fields, Heard
<1>10. IsDest(Placed(D, d, h)) /\ Placed(D, d, h)[d] = h /\ \A f \in Fields \ {d} : Placed(D, d, h)[f] = D[f]
  BY <1>9, PutDest
<1>11. \A f \in RuleFields \ {d} : Placed(D, d, h)[f] = dest[f]
  BY <1>10 DEF Heard, Fields
<1>. QED  BY <1>8, <1>10, <1>11 DEF Gives

LEMMA HostReads ==
  ASSUME NEW n, NEW p, NEW h, HostSays(n, p, h), NEW kw \in Lexemes, NEW d \in RuleFields,
         NEW more, NoPort(more), NEW err, NEW dest, IsDest(dest)
  PROVE  Gives(Host(d, kw, On(HostText(kw, n, p) \o (<<Sp>> \o more), err, dest)), <<Sp>> \o more,
               dest, d, h)
<1> DEFINE rest == <<Sp>> \o more
           t3 == PortText(p) \o rest
           t2 == n \o t3
           t1 == <<Sp>> \o t2
           text == <<kw>> \o t1
           D1 == Cleared(dest, d)
           D2 == NameRead(D1, h, n)
           D3 == PortTold(D2, p)
           s  == On(text, err, dest)
<1>0. rest \in Texts /\ NextOf(rest) \in WordStops /\ NameSays(n, h) /\ PortSays(p, h)
  BY Space DEF NoPort, HostSays
<1>1. HostText(kw, n, p) \o rest = text /\ t2 \in Texts
  <2>. HIDE DEF rest
  <2>1. HostText(kw, n, p) \o rest = WordThen(kw, n \o (PortText(p) \o rest))
    BY <1>0, HostTexts
  <2>2. n \o (PortText(p) \o rest) \in Texts
    BY <1>0, HostTexts
  <2>. QED  BY <2>1, <2>2 DEF WordThen
<1>2. t3 \in Texts /\ NextOf(t3) \in WordStops
  <2>. HIDE DEF rest
  <2>1. PortText(p) \in Texts /\ NextOf(t3) \in WordStops
    BY <1>0, PortTexts
  <2>. QED  BY <1>0, <2>1, Joins
<1>3. HostPort(On(t3, 0, D2)) = On(rest, 0, D3)
  <2>. HIDE DEF D2
  <2>. QED  BY <1>0, HostPortReads
<1>4. HostName(On(t2, 0, D1)) = On(t3, 0, D2)
  <2>. HIDE DEF t3, D1
  <2>. QED  BY <1>0, <1>2, NameReads
<1>5. t1 \in Texts /\ NextOf(t1) \in WordStops /\ Blank(On(t1, 0, D1)) = On(t2, 0, D1)
  <2>. HIDE DEF t2, D1
  <2>. QED  BY <1>1, Space, BlankReads
<1>6. Const(kw, On(text, err, D1)) = On(t1, 0, D1)
  <2>. HIDE DEF t1, D1
  <2>. QED  BY <1>5, ConstReads
<1> DEFINE blank == Write(Write(Write(s, "type", s.dest[d].type), "port", "any"), "service", <<>>)
<1>7. blank = On(text, err, D1)
  <2>1. s.dest = dest
    BY DEF On, State
  <2>. HIDE DEF text
  <2>. QED  BY <2>1, Writes DEF Cleared
<1>8. HostPort(HostName(Blank(Const(kw, blank)))) = On(rest, 0, D3)
  <2>. HIDE DEF blank, D1, D2, D3, rest, t1, t2, t3, text
  <2>. QED  BY <1>3, <1>4, <1>5, <1>6, <1>7
<1> DEFINE q == HostPort(HostName(Blank(Const(kw, blank))))
<1>9. HostRead(d, kw, s) = Suite(q, s)
  BY DEF HostRead
<1>10. HostRead(d, kw, s) = On(rest, 0, D3)
  <2>. HIDE DEF D3, rest, text, blank
  <2>1. q = On(rest, 0, D3)
    BY <1>8
  <2>. HIDE DEF q
  <2>2. Suite(On(rest, 0, D3), s) = On(rest, 0, D3)
    BY Gathers
  <2>. QED  BY <1>9, <2>1, <2>2
<1>11. Heard(D3, dest, n, h)
  BY HeardDest
<1>12. s.ok
  BY DEF On, State
<1>13. Gives(Host(d, kw, s), rest, dest, d, h)
  <2>. HIDE DEF s, rest, D3
  <2>. QED  BY <1>10, <1>11, <1>12, HostMade
<1>. QED  BY <1>1, <1>13

-----------------------------------------------------------------------------
(* Where the parser is: what it has to read, and what of the rule is there. *)

IsRule(w) == DOMAIN w = RuleFields /\ w = [f \in RuleFields |-> w[f]]
Agrees(D, w) == IsDest(D) /\ \A f \in RuleFields : D[f] = w[f]
At(s, text, w) == \E err, D : s = On(text, err, D) /\ Agrees(D, w)
Off(s, w) == \E D : Fails(s, D) /\ Agrees(D, w)

LEMMA AtPieces ==
  ASSUME NEW s, NEW rest \in Texts, NEW w
  PROVE  /\ At(s, <<Sp>> \o rest, w) => At(Blank(s), rest, w)
         /\ \A c \in Lexemes : At(s, <<c>> \o rest, w) /\ NextOf(rest) \in WordStops => At(Const(c, s), rest, w)
<1>1. ASSUME At(s, <<Sp>> \o rest, w) PROVE At(Blank(s), rest, w)
  <2>1. PICK err, D : s = On(<<Sp>> \o rest, err, D) /\ Agrees(D, w)
    BY <1>1 DEF At
  <2>2. Blank(s) = On(rest, 0, D)
    BY <2>1, BlankReads
  <2>. QED  BY <2>1, <2>2 DEF At
<1>2. ASSUME NEW c \in Lexemes, At(s, <<c>> \o rest, w), NextOf(rest) \in WordStops
      PROVE At(Const(c, s), rest, w)
  <2>1. PICK err, D : s = On(<<c>> \o rest, err, D) /\ Agrees(D, w)
    BY <1>2 DEF At
  <2>2. Const(c, s) = On(rest, 0, D)
    BY <1>2, <2>1, ConstReads
  <2>. QED  BY <2>1, <2>2 DEF At
<1>. QED  BY <1>1, <1>2

LEMMA PutAgrees ==
  ASSUME NEW D, NEW w, Agrees(D, w), IsRule(w), NEW d \in RuleFields, NEW v
  PROVE  Agrees(Placed(D, d, v), Placed(w, d, v)) /\ IsRule(Placed(w, d, v))
<1>1. IsDest(D) /\ d \in Fields /\ RuleFields \subseteq Fields
  BY DEF Agrees, Fields
<1>2. IsDest(Placed(D, d, v)) /\ Placed(D, d, v)[d] = v /\ \A f \in Fields \ {d} : Placed(D, d, v)[f] = D[f]
  BY <1>1, PutDest
<1>3. IsRule(Placed(w, d, v)) /\ Placed(w, d, v)[d] = v /\ \A f \in RuleFields \ {d} : Placed(w, d, v)[f] = w[f]
  BY DEF IsRule, Placed
<1>4. \A f \in RuleFields : Placed(D, d, v)[f] = Placed(w, d, v)[f]
  BY <1>1, <1>2, <1>3 DEF Agrees
<1>. QED  BY <1>2, <1>3, <1>4 DEF Agrees

LEMMA AtNumber ==
  ASSUME NEW s, NEW rest \in Texts, NEW w, IsRule(w), NEW d \in RuleFields, NEW n \in DOMAIN Numbers,
         At(s, <<n>> \o rest, w)
  PROVE  At(Number(d, s), rest, Placed(w, d, n))
<1>1. PICK err, D : s = On(<<n>> \o rest, err, D) /\ Agrees(D, w)
  BY DEF At
<1>2. Number(d, s) = On(rest, 0, Placed(D, d, n))
  BY <1>1, NumberReads
<1>. QED  BY <1>1, <1>2, PutAgrees DEF At

LEMMA AtEnum ==
  ASSUME NEW s, NEW rest \in Texts, NEW w, IsRule(w), NEW d \in RuleFields, NEW t, NEW c \in t.names,
         c \in Lexemes, NextOf(rest) \in WordStops, At(s, <<c>> \o rest, w)
  PROVE  At(Enum(d, t, s), rest, Placed(w, d, c))
<1>1. PICK err, D : s = On(<<c>> \o rest, err, D) /\ Agrees(D, w)
  BY DEF At
<1>2. NextOf(rest) \in EnumStops
  BY StopsEnum
<1>3. Enum(d, t, s) = On(rest, 0, Placed(D, d, c))
  BY <1>1, <1>2, EnumReads
<1>. QED  BY <1>1, <1>3, PutAgrees DEF At

LEMMA AtSet ==
  ASSUME NEW s, NEW rest, NEW w, IsRule(w), NEW d \in RuleFields, NEW v, At(s, rest, w)
  PROVE  At(Set(d, v, s), rest, Placed(w, d, v))
<1>1. PICK err, D : s = On(rest, err, D) /\ Agrees(D, w)
  BY DEF At
<1>2. Set(d, v, s) = On(rest, err, Placed(D, d, v))
  <2>1. s.ok
    BY <1>1 DEF On, State
  <2>2. Set(d, v, s) = Write(s, d, v)
    BY <2>1 DEF Set
  <2>. QED  BY <1>1, <2>2, Writes
<1>. QED  BY <1>1, <1>2, PutAgrees DEF At

LEMMA AtHost ==
  ASSUME NEW n, NEW p, NEW h, HostSays(n, p, h), NEW kw \in Lexemes, NEW d \in RuleFields,
         NEW more, NoPort(more), NEW s, NEW w, IsRule(w),
         At(s, HostText(kw, n, p) \o (<<Sp>> \o more), w)
  PROVE  At(Host(d, kw, s), <<Sp>> \o more, Placed(w, d, h))
<1> DEFINE text == HostText(kw, n, p) \o (<<Sp>> \o more)
           rest == <<Sp>> \o more
<1>1. PICK err, D : s = On(text, err, D) /\ Agrees(D, w)
  BY DEF At
<1>2. Gives(Host(d, kw, s), rest, D, d, h)
  BY <1>1, HostReads DEF Agrees
<1>. HIDE DEF text, rest
<1>3. PICK E : Host(d, kw, s) = On(rest, 0, E) /\ IsDest(E) /\ E[d] = h /\ \A f \in RuleFields \ {d} : E[f] = D[f]
  BY <1>2 DEF Gives
<1>4. Placed(w, d, h)[d] = h /\ \A f \in RuleFields \ {d} : Placed(w, d, h)[f] = w[f]
  BY DEF IsRule, Placed
<1>5. Agrees(E, Placed(w, d, h))
  BY <1>1, <1>3, <1>4 DEF Agrees
<1>6. At(Host(d, kw, s), rest, Placed(w, d, h))
  BY <1>3, <1>5 DEF At
<1>. QED  BY <1>6 DEF rest

LEMMA AtGathers ==
  ASSUME NEW r, NEW text, NEW w, At(r, text, w), NEW s, NEW old, NEW v, At(s, old, v), NEW b
  PROVE  At(Suite(r, s), text, w) /\ At(Optional(r, s), text, w) /\ At(First(r, b, s), text, w)
<1>1. PICK err, D : r = On(text, err, D) /\ Agrees(D, w)
  BY DEF At
<1>2. PICK e, E : s = On(old, e, E)
  BY DEF At
<1>3. Suite(r, s) = On(text, 0, D) /\ Optional(r, s) = On(text, 0, D) /\ First(r, b, s) = On(text, 0, D)
  BY <1>1, <1>2, Gathers
<1>. QED  BY <1>1, <1>3 DEF At

LEMMA OffGivesUp ==
  ASSUME NEW r, NEW w, Off(r, w), NEW s, NEW text, NEW v, At(s, text, v)
  PROVE  /\ At(Retry(r, s), text, w) /\ At(Optional(r, s), text, w) /\ Off(Suite(r, s), w)
         /\ \A b, rest, u : At(b, rest, u) => At(First(r, b, s), rest, u)
<1>1. PICK D : Fails(r, D) /\ Agrees(D, w)
  BY DEF Off
<1>2. PICK e, E : s = On(text, e, E)
  BY DEF At
<1>3. Retry(r, s) = On(text, r.err, D) /\ Optional(r, s) = On(text, 0, D)
  BY <1>1, <1>2, GivesUp
<1>4. Fails(Suite(r, s), D)
  BY <1>1 DEF Fails, Suite, Reject, Back, State
<1>5. ASSUME NEW b, NEW rest, NEW u, At(b, rest, u) PROVE At(First(r, b, s), rest, u)
  <2>1. PICK err, F : b = On(rest, err, F) /\ Agrees(F, u)
    BY <1>5 DEF At
  <2>2. First(r, b, s) = On(rest, 0, F)
    BY <1>1, <1>2, <2>1, GivesUp
  <2>. QED  BY <2>1, <2>2 DEF At
<1>. QED  BY <1>1, <1>3, <1>4, <1>5 DEF At, Off

LEMMA OffPasses ==
  ASSUME NEW s, NEW w, Off(s, w), NEW d, NEW v
  PROVE  Blank(s) = s /\ Set(d, v, s) = s
BY DEF Off, Fails, Blank, Set, Take

LEMMA OffConst ==
  ASSUME NEW s, NEW text \in Texts, NEW w, At(s, text, w), NEW c, NextOf(text) # c
  PROVE  Off(Const(c, s), w)
<1>1. PICK err, D : s = On(text, err, D) /\ Agrees(D, w)
  BY DEF At
<1>. QED  BY <1>1, ConstFails DEF Off

\* A host that another keyword says is not read, and nobody is found where nobody was.
LEMMA OffHost ==
  ASSUME NEW s, NEW text \in Texts, NEW w, IsRule(w), At(s, text, w), NEW kw, NextOf(text) # kw,
         NEW d \in RuleFields, w[d] = Nobody
  PROVE  Off(Host(d, kw, s), w)
<1>1. PICK err, D : s = On(text, err, D) /\ Agrees(D, w)
  BY DEF At
<1> DEFINE E == Cleared(D, d)
           blank == Write(Write(Write(s, "type", s.dest[d].type), "port", "any"), "service", <<>>)
           c == Const(kw, blank)
<1>2. blank = On(text, err, E)
  <2>1. s.dest = D
    BY <1>1 DEF On, State
  <2>. QED  BY <1>1, <2>1, Writes DEF Cleared
<1>. HIDE DEF blank
<1>3. Fails(c, E)
  <2>. HIDE DEF E
  <2>. QED  BY <1>2, ConstFails
<1>. HIDE DEF c
<1> DEFINE q == HostPort(HostName(Blank(c)))
<1>4. q = c
  <2>1. Blank(c) = c
    BY <1>3, Passes
  <2>2. HostName(c) = c
    BY <1>3 DEF HostName, First, Fails
  <2>3. HostPort(c) = c
    BY <1>3 DEF HostPort, Optional, Fails
  <2>. QED  BY <2>1, <2>2, <2>3
<1> DEFINE r == HostRead(d, kw, s)
<1>5. r = Suite(q, s)
  BY DEF HostRead, blank, c
<1>. HIDE DEF q, E, r
<1>6. Fails(r, E)
  BY <1>3, <1>4, <1>5 DEF Fails, Suite, Reject, Back, State
<1>7. /\ IsDest(E) /\ E["type"] = D[d].type /\ E["port"] = "any" /\ E["service"] = <<>>
      /\ \A f \in RuleFields : E[f] = D[f]
  BY <1>1, ClearedDest DEF E, Agrees
<1>8. D[d] = Nobody /\ d \in Fields /\ s.ok
  BY <1>1 DEF Agrees, Fields, On, State
<1>9. Host(d, kw, s) = Write(r, d, Nobody)
  <2>1. ~r.ok /\ r.dest.type = "none" /\ r.dest.port = "any" /\ r.dest.service = <<>>
    BY <1>6, <1>7, <1>8 DEF Fails, Nobody
  <2>. QED  BY <1>8, <2>1 DEF Host, HostFound, Nobody, r
<1>10. Fails(Write(r, d, Nobody), Placed(E, d, Nobody))
  BY <1>6 DEF Fails, Write, State, Placed
<1>11. IsDest(Placed(E, d, Nobody)) /\ Placed(E, d, Nobody)[d] = Nobody
       /\ \A f \in Fields \ {d} : Placed(E, d, Nobody)[f] = E[f]
  BY <1>7, <1>8, PutDest
<1>12. Agrees(Placed(E, d, Nobody), w)
  <2>1. \A f \in RuleFields : Placed(E, d, Nobody)[f] = w[f]
    BY <1>1, <1>7, <1>8, <1>11 DEF Agrees, Fields
  <2>. QED  BY <1>11, <2>1 DEF Agrees
<1>. QED  BY <1>9, <1>10, <1>12 DEF Off

-----------------------------------------------------------------------------
(* The hosts of a rule.                                                     *)

\* A text that says the hosts of r, and goes on with rest; from and to are the words of the hosts.
HostThen(kw, x, rest) == HostText(kw, x.name, x.port) \o (<<Sp>> \o rest)
HostsThen(r, from, to, rest) ==
  CASE r.direction = "any"        -> HostThen("with", from, rest)
    [] r.direction = "connecting" -> WordThen("connect", HostThen("to", to, rest))
    [] r.direction = "closing"    -> WordThen("close", HostThen("to", to, rest))
    [] r.direction = "data" /\ r.to = Nobody -> HostThen("talk-with", from, rest)
    [] r.direction = "data" /\ r.to # Nobody -> HostThen("from", from, HostThen("to", to, rest))
HostsSaid(r, from, to) ==
  LET says(x, h) == HostSays(x.name, x.port, h) IN
  \/ r.direction = "any" /\ says(from, r.from) /\ r.to = Nobody
  \/ r.direction \in {"connecting", "closing"} /\ r.from = Nobody /\ says(to, r.to)
  \/ r.direction = "data" /\ says(from, r.from) /\ (r.to = Nobody \/ says(to, r.to))

LEMMA HostThenText ==
  ASSUME NEW kw \in Lexemes, NEW x, NEW h, HostSays(x.name, x.port, h), NEW rest \in Texts
  PROVE  HostThen(kw, x, rest) \in Texts /\ NextOf(HostThen(kw, x, rest)) = kw
<1>1. <<Sp>> \o rest \in Texts /\ NextOf(<<Sp>> \o rest) \in WordStops
  BY Space
<1> DEFINE t == <<Sp>> \o rest
           a == HostText(kw, x.name, x.port)
<1>2. a \in Texts /\ NextOf(a \o t) = kw
  <2>1. t \in Texts /\ NextOf(t) \in WordStops
    BY <1>1
  <2>. HIDE DEF t
  <2>2. HostText(kw, x.name, x.port) \in Texts
    BY <2>1, HostTexts
  <2>3. NextOf(HostText(kw, x.name, x.port) \o t) = kw
    BY <2>1, HostTexts
  <2>. QED  BY <2>2, <2>3
<1>3. a \o t \in Texts
  <2>. HIDE DEF a, t
  <2>. QED  BY <1>1, <1>2, Joins DEF t
<1>. QED  BY <1>2, <1>3 DEF HostThen

LEMMA WordThenText ==
  ASSUME NEW kw \in Lexemes, NEW rest \in Texts
  PROVE  /\ WordThen(kw, rest) \in Texts /\ NextOf(WordThen(kw, rest)) = kw
         /\ <<Sp>> \o rest \in Texts
<1>1. <<Sp>> \o rest \in Texts
  BY Space
<1> DEFINE t == <<Sp>> \o rest
<1>. HIDE DEF t
<1>2. <<kw>> \o t \in Texts /\ NextOf(<<kw>> \o t) = kw
  BY <1>1, Lexeme DEF t
<1>. QED  BY <1>1, <1>2 DEF WordThen, t

\* A keyword and the space after it.
LEMMA AtWord ==
  ASSUME NEW s, NEW rest \in Texts, NEW w, NEW kw \in Lexemes, At(s, WordThen(kw, rest), w)
  PROVE  At(Const(kw, s), <<Sp>> \o rest, w) /\ At(Blank(Const(kw, s)), rest, w)
<1>1. <<Sp>> \o rest \in Texts /\ NextOf(<<Sp>> \o rest) \in WordStops
  BY Space
<1> DEFINE t == <<Sp>> \o rest
<1>2. At(s, <<kw>> \o t, w)
  BY DEF WordThen
<1>. HIDE DEF t
<1>3. At(Const(kw, s), t, w)
  BY <1>1, <1>2, AtPieces DEF t
<1> DEFINE c == Const(kw, s)
<1>. HIDE DEF c
<1>4. At(Blank(c), rest, w)
  BY <1>3, AtPieces DEF t, c
<1>. QED  BY <1>3, <1>4 DEF t, c

\* A host and the space after it.
LEMMA AtHostThen ==
  ASSUME NEW s, NEW rest, NoPort(rest), NEW w, IsRule(w), NEW kw \in Lexemes, NEW d \in RuleFields,
         NEW x, NEW h, HostSays(x.name, x.port, h), At(s, HostThen(kw, x, rest), w)
  PROVE  At(Blank(Host(d, kw, s)), rest, Placed(w, d, h))
<1>1. At(s, HostText(kw, x.name, x.port) \o (<<Sp>> \o rest), w)
  BY DEF HostThen
<1> DEFINE r == Host(d, kw, s)
<1>2. At(r, <<Sp>> \o rest, Placed(w, d, h))
  BY <1>1, AtHost
<1>. HIDE DEF r
<1>. QED  BY <1>2, AtPieces DEF NoPort, r

LEMMA HostWords ==
  /\ "with" \in Lexemes /\ "talk-with" \in Lexemes /\ "from" \in Lexemes /\ "to" \in Lexemes
  /\ "connect" \in Lexemes /\ "close" \in Lexemes
  /\ "from" \in RuleFields /\ "to" \in RuleFields /\ "direction" \in RuleFields
BY DEF Lexemes, Keywords, RuleFields

LEMMA WithReads ==
  ASSUME NEW s, NEW rest, NoPort(rest), NEW w, IsRule(w), NEW x, NEW h, HostSays(x.name, x.port, h),
         At(s, HostThen("with", x, rest), w)
  PROVE  At(Hosts(s), rest, Placed(Placed(w, "from", h), "direction", "any"))
<1> DEFINE b == Blank(Host("from", "with", s))
           v == Placed(w, "from", h)
           c == Set("direction", "any", b)
           u == Placed(v, "direction", "any")
<1>1. At(b, rest, v)
  BY AtHostThen, HostWords
<1>2. IsRule(v)
  BY HostWords DEF IsRule, Placed
<1>. HIDE DEF b, v
<1>3. At(c, rest, u)
  BY <1>1, <1>2, AtSet, HostWords
<1>. HIDE DEF c, u
<1>4. With(s) = Suite(c, s)
  BY DEF With, b, c
<1>5. At(With(s), rest, u)
  BY <1>3, <1>4, AtGathers
<1> DEFINE second == First(TalkWith(Retry(With(s), s)), SourceTo(Retry(TalkWith(Retry(With(s), s)), s)), s)
<1>6. Hosts(s) = First(With(s), second, s)
  BY DEF Hosts
<1>. HIDE DEF second
<1>7. At(Hosts(s), rest, u)
  BY <1>5, <1>6, AtGathers
<1>. QED  BY <1>7 DEF u, v

LEMMA OffWith ==
  ASSUME NEW s, NEW text \in Texts, NEW w, IsRule(w), At(s, text, w), w["from"] = Nobody
  PROVE  /\ NextOf(text) # "with" => Off(With(s), w)
         /\ NextOf(text) # "talk-with" => Off(TalkWith(s), w)
<1>1. ASSUME NextOf(text) # "with" PROVE Off(With(s), w)
  <2> DEFINE r == Host("from", "with", s)
             q == Set("direction", "any", Blank(r))
  <2>1. Off(r, w)
    BY <1>1, OffHost, HostWords
  <2>. HIDE DEF r
  <2>2. q = r
    BY <2>1, OffPasses
  <2>3. With(s) = Suite(q, s)
    BY DEF With, r
  <2>. HIDE DEF q
  <2>4. Off(Suite(q, s), w)
    BY <2>1, <2>2, OffGivesUp
  <2>. QED  BY <2>3, <2>4
<1>2. ASSUME NextOf(text) # "talk-with" PROVE Off(TalkWith(s), w)
  <2> DEFINE r == Host("from", "talk-with", s)
             q == Blank(r)
  <2>1. Off(r, w)
    BY <1>2, OffHost, HostWords
  <2>. HIDE DEF r
  <2>2. q = r
    BY <2>1, OffPasses
  <2>3. TalkWith(s) = Suite(q, s)
    BY DEF TalkWith, r
  <2>. HIDE DEF q
  <2>4. Off(Suite(q, s), w)
    BY <2>1, <2>2, OffGivesUp
  <2>. QED  BY <2>3, <2>4
<1>. QED  BY <1>1, <1>2

\* The alternative of talk-with, or the last one.
LEMMA HostsOther ==
  ASSUME NEW s, NEW text \in Texts, NextOf(text) # "with", NEW w, IsRule(w), At(s, text, w),
         w["from"] = Nobody
  PROVE  LET t == Retry(With(s), s)
             l == Retry(TalkWith(t), s)
         IN /\ At(t, text, w)
            /\ \A rest, u : At(TalkWith(t), rest, u) => At(Hosts(s), rest, u)
            /\ NextOf(text) # "talk-with" =>
                 At(l, text, w) /\ \A rest, u : At(SourceTo(l), rest, u) => At(Hosts(s), rest, u)
<1> DEFINE with == With(s)
           t == Retry(with, s)
           talk == TalkWith(t)
           l == Retry(talk, s)
           last == SourceTo(l)
           second == First(talk, last, s)
<1>1. Hosts(s) = First(with, second, s)
  BY DEF Hosts
<1>2. Off(with, w)
  BY OffWith
<1>. HIDE DEF with
<1>3. At(t, text, w)
  BY <1>2, OffGivesUp
<1>. HIDE DEF t
<1>4. NextOf(text) # "talk-with" => Off(talk, w)
  BY <1>3, OffWith
<1>. HIDE DEF talk
<1>5. NextOf(text) # "talk-with" => At(l, text, w)
  BY <1>4, OffGivesUp
<1>. HIDE DEF l, last
<1>6. ASSUME NEW rest, NEW u, At(talk, rest, u) PROVE At(Hosts(s), rest, u)
  <2>1. At(second, rest, u)
    BY <1>6, AtGathers
  <2>. HIDE DEF second
  <2>. QED  BY <1>1, <1>2, <2>1, OffGivesUp
<1>7. ASSUME NextOf(text) # "talk-with", NEW rest, NEW u, At(last, rest, u) PROVE At(Hosts(s), rest, u)
  <2>1. At(second, rest, u)
    BY <1>4, <1>7, OffGivesUp
  <2>. HIDE DEF second
  <2>. QED  BY <1>1, <1>2, <2>1, OffGivesUp
<1>. QED  BY <1>3, <1>5, <1>6, <1>7 DEF with, t, talk, l, last

LEMMA TalkReads ==
  ASSUME NEW s, NEW rest, NoPort(rest), NEW w, IsRule(w), w["from"] = Nobody,
         NEW x, NEW h, HostSays(x.name, x.port, h), At(s, HostThen("talk-with", x, rest), w)
  PROVE  At(Hosts(s), rest, Placed(w, "from", h))
<1> DEFINE text == HostThen("talk-with", x, rest)
           t == Retry(With(s), s)
           b == Blank(Host("from", "talk-with", t))
<1>1. text \in Texts /\ NextOf(text) = "talk-with"
  BY HostThenText, HostWords DEF NoPort
<1>2. NextOf(text) # "with"
  BY <1>1
<1>. HIDE DEF text
<1>3. /\ At(t, text, w)
      /\ \A z, u : At(TalkWith(t), z, u) => At(Hosts(s), z, u)
  BY <1>1, <1>2, HostsOther DEF text
<1>. HIDE DEF t
<1>4. At(b, rest, Placed(w, "from", h))
  BY <1>3, AtHostThen, HostWords DEF text
<1>. HIDE DEF b
<1>5. TalkWith(t) = Suite(b, t)
  BY DEF TalkWith, b
<1>6. At(TalkWith(t), rest, Placed(w, "from", h))
  BY <1>3, <1>4, <1>5, AtGathers
<1>. QED  BY <1>3, <1>6

\* connect and close.
LEMMA OffConnect ==
  ASSUME NEW s, NEW text \in Texts, NEW w, IsRule(w), At(s, text, w)
  PROVE  /\ NextOf(text) # "connect" => Off(Connect(s), w)
         /\ NextOf(text) # "close" => Off(Close(s), w)
<1>1. ASSUME NextOf(text) # "connect" PROVE Off(Connect(s), w)
  <2> DEFINE r == Const("connect", s)
             q == Blank(Set("direction", "connecting", r))
  <2>1. Off(r, w)
    BY <1>1, OffConst
  <2>. HIDE DEF r
  <2>2. q = r
    BY <2>1, OffPasses
  <2>3. Connect(s) = Suite(q, s)
    BY DEF Connect, r
  <2>. HIDE DEF q
  <2>. QED  BY <2>1, <2>2, <2>3, OffGivesUp
<1>2. ASSUME NextOf(text) # "close" PROVE Off(Close(s), w)
  <2> DEFINE r == Const("close", s)
             q == Blank(Set("direction", "closing", r))
  <2>1. Off(r, w)
    BY <1>2, OffConst
  <2>. HIDE DEF r
  <2>2. q = r
    BY <2>1, OffPasses
  <2>3. Close(s) = Suite(q, s)
    BY DEF Close, r
  <2>. HIDE DEF q
  <2>. QED  BY <2>1, <2>2, <2>3, OffGivesUp
<1>. QED  BY <1>1, <1>2

LEMMA ConnectReads ==
  ASSUME NEW s, NEW rest \in Texts, NEW w, IsRule(w)
  PROVE  /\ At(s, WordThen("connect", rest), w) => At(Connect(s), rest, Placed(w, "direction", "connecting"))
         /\ At(s, WordThen("close", rest), w) => At(Close(s), rest, Placed(w, "direction", "closing"))
<1> DEFINE t == <<Sp>> \o rest
<1>1. ASSUME At(s, WordThen("connect", rest), w)
      PROVE  At(Connect(s), rest, Placed(w, "direction", "connecting"))
  <2> DEFINE c == Const("connect", s)
             e == Set("direction", "connecting", c)
             u == Placed(w, "direction", "connecting")
             q == Blank(e)
  <2>1. At(c, t, w)
    BY <1>1, AtWord, HostWords
  <2>. HIDE DEF c, t, u
  <2>2. At(e, t, u)
    BY <2>1, AtSet, HostWords DEF u
  <2>. HIDE DEF e
  <2>3. At(q, rest, u)
    BY <2>2, AtPieces DEF t
  <2>. HIDE DEF q
  <2>4. Connect(s) = Suite(q, s)
    BY DEF Connect, q, e, c
  <2>5. At(Connect(s), rest, u)
    BY <1>1, <2>3, <2>4, AtGathers
  <2>. QED  BY <2>5 DEF u
<1>2. ASSUME At(s, WordThen("close", rest), w)
      PROVE  At(Close(s), rest, Placed(w, "direction", "closing"))
  <2> DEFINE c == Const("close", s)
             e == Set("direction", "closing", c)
             u == Placed(w, "direction", "closing")
             q == Blank(e)
  <2>1. At(c, t, w)
    BY <1>2, AtWord, HostWords
  <2>. HIDE DEF c, t, u
  <2>2. At(e, t, u)
    BY <2>1, AtSet, HostWords DEF u
  <2>. HIDE DEF e
  <2>3. At(q, rest, u)
    BY <2>2, AtPieces DEF t
  <2>. HIDE DEF q
  <2>4. Close(s) = Suite(q, s)
    BY DEF Close, q, e, c
  <2>5. At(Close(s), rest, u)
    BY <1>2, <2>3, <2>4, AtGathers
  <2>. QED  BY <2>5 DEF u
<1>. QED  BY <1>1, <1>2

\* Who the data come from, or what is done: the part before the host that a rule goes to.
LEMMA SourceReads ==
  ASSUME NEW s, NEW text \in Texts, NEW w, IsRule(w), At(s, text, w), NEW rest, NEW u
  PROVE  LET c == Connect(s)
             t == Retry(c, s)
             e == Close(t)
             l == Retry(e, s)
         IN /\ At(c, rest, u) => At(Source(s), rest, u)
            /\ NextOf(text) # "connect" =>
                 /\ At(t, text, w)
                 /\ At(e, rest, u) => At(Source(s), rest, u)
                 /\ NextOf(text) # "close" =>
                      At(l, text, w) /\ (At(From(l), rest, u) => At(Source(s), rest, u))
<1> DEFINE c == Connect(s)
           t == Retry(c, s)
           e == Close(t)
           l == Retry(e, s)
           f == From(l)
           second == First(e, f, s)
<1>1. Source(s) = First(c, second, s)
  BY DEF Source
<1>2. At(c, rest, u) => At(First(c, second, s), rest, u)
  <2>. HIDE DEF c, second
  <2>. QED  BY AtGathers
<1>3. ASSUME NextOf(text) # "connect" PROVE Off(c, w) /\ At(t, text, w)
  <2>1. Off(c, w)
    BY <1>3, OffConnect
  <2>. HIDE DEF c
  <2>. QED  BY <2>1, OffGivesUp
<1>4. ASSUME NextOf(text) # "connect", At(second, rest, u) PROVE At(First(c, second, s), rest, u)
  <2>1. Off(c, w)
    BY <1>3, <1>4
  <2>. HIDE DEF c, second
  <2>. QED  BY <1>4, <2>1, OffGivesUp
<1>5. At(e, rest, u) => At(second, rest, u)
  <2>. HIDE DEF e, f
  <2>. QED  BY AtGathers
<1>6. ASSUME NextOf(text) # "connect", NextOf(text) # "close"
      PROVE  At(l, text, w) /\ (At(f, rest, u) => At(second, rest, u))
  <2>1. At(t, text, w)
    BY <1>3, <1>6
  <2>. HIDE DEF t
  <2>2. Off(e, w)
    BY <1>6, <2>1, OffConnect
  <2>. HIDE DEF e
  <2>3. At(l, text, w)
    BY <2>2, OffGivesUp
  <2>. HIDE DEF f
  <2>4. At(f, rest, u) => At(second, rest, u)
    BY <2>2, OffGivesUp
  <2>. QED  BY <2>3, <2>4
<1>7. At(f, rest, u) /\ NextOf(text) # "connect" /\ NextOf(text) # "close" => At(Source(s), rest, u)
  <2>. HIDE DEF c, l, f, second
  <2>. QED  BY <1>1, <1>4, <1>6
<1>8. At(e, rest, u) /\ NextOf(text) # "connect" => At(Source(s), rest, u)
  <2>. HIDE DEF c, e, second
  <2>. QED  BY <1>1, <1>4, <1>5
<1>9. At(c, rest, u) => At(Source(s), rest, u)
  <2>. HIDE DEF c, second
  <2>. QED  BY <1>1, <1>2
<1>. QED
  <2>. HIDE DEF c, t, e, l, f, second
  <2>1. NextOf(text) # "connect" => At(t, text, w)
    BY <1>3
  <2>2. NextOf(text) # "connect" /\ NextOf(text) # "close" => At(l, text, w)
    BY <1>6
  <2>. QED  BY <2>1, <2>2, <1>7, <1>8, <1>9 DEF c, t, e, l, f

\* The host that a rule goes to.
LEMMA ToReads ==
  ASSUME NEW s, NEW rest, NoPort(rest), NEW w, IsRule(w), NEW old, NEW v, At(s, old, v),
         NEW x, NEW h, HostSays(x.name, x.port, h), At(Source(s), HostThen("to", x, rest), w)
  PROVE  At(SourceTo(s), rest, Placed(w, "to", h))
<1> DEFINE r == Source(s)
           b == Blank(Host("to", "to", r))
           u == Placed(w, "to", h)
<1>1. At(b, rest, u)
  <2>. HIDE DEF r
  <2>. QED  BY AtHostThen, HostWords DEF r
<1>2. SourceTo(s) = Suite(b, s)
  BY DEF SourceTo
<1>. HIDE DEF b, u
<1>3. At(SourceTo(s), rest, u)
  BY <1>1, <1>2, AtGathers
<1>. QED  BY <1>3 DEF u

LEMMA FromReads ==
  ASSUME NEW s, NEW rest, NoPort(rest), NEW w, IsRule(w), NEW x, NEW h, HostSays(x.name, x.port, h),
         At(s, HostThen("from", x, rest), w)
  PROVE  At(From(s), rest, Placed(w, "from", h))
<1> DEFINE b == Blank(Host("from", "from", s))
           u == Placed(w, "from", h)
<1>1. At(b, rest, u)
  BY AtHostThen, HostWords
<1>2. From(s) = Suite(b, s)
  BY DEF From
<1>. HIDE DEF b, u
<1>3. At(From(s), rest, u)
  BY <1>1, <1>2, AtGathers
<1>. QED  BY <1>3 DEF u

LEMMA PutRule ==
  ASSUME NEW w, IsRule(w), NEW d \in RuleFields, NEW v
  PROVE  /\ IsRule(Placed(w, d, v)) /\ Placed(w, d, v)[d] = v
         /\ \A f \in RuleFields \ {d} : Placed(w, d, v)[f] = w[f]
BY DEF IsRule, Placed

LEMMA ToFits ==
  ASSUME NEW x, NEW h, HostSays(x.name, x.port, h), NEW rest \in Texts
  PROVE  NoPort(HostThen("to", x, rest))
BY HostThenText, HostWords DEF NoPort

\* One of the ways to go to a host.
LEMMA GoesTo ==
  ASSUME NEW s, NEW rest, NoPort(rest), NEW w, IsRule(w), w["from"] = Nobody,
         NEW x, NEW h, HostSays(x.name, x.port, h),
         NEW kw, NEW v, (kw = "connect" /\ v = "connecting") \/ (kw = "close" /\ v = "closing"),
         At(s, WordThen(kw, HostThen("to", x, rest)), w)
  PROVE  At(Hosts(s), rest, Placed(Placed(w, "direction", v), "to", h))
<1> DEFINE more == HostThen("to", x, rest)
           text == WordThen(kw, more)
           u == Placed(w, "direction", v)
           t == Retry(With(s), s)
           l == Retry(TalkWith(t), s)
           c == Connect(l)
           m == Retry(c, l)
           e == Close(m)
<1>1. more \in Texts
  BY ToFits DEF NoPort
<1>2. kw \in Lexemes
  BY HostWords
<1>3. text \in Texts /\ NextOf(text) = kw
  <2>. HIDE DEF more
  <2>. QED  BY <1>1, <1>2, WordThenText
<1>4. NextOf(text) # "with" /\ NextOf(text) # "talk-with"
  <2>. HIDE DEF text
  <2>. QED  BY <1>3
<1>. HIDE DEF text
<1>5. At(l, text, w) /\ \A z, y : At(SourceTo(l), z, y) => At(Hosts(s), z, y)
  BY <1>3, <1>4, HostsOther DEF text
<1>. HIDE DEF l, more
<1>6. IsRule(u)
  BY PutRule, HostWords
<1>. HIDE DEF u
<1>7. CASE kw = "connect" /\ v = "connecting"
  <2>1. At(c, more, u)
    BY <1>1, <1>5, <1>7, ConnectReads DEF text, u
  <2>. HIDE DEF c
  <2>2. At(Source(l), more, u)
    BY <1>3, <1>5, <2>1, SourceReads DEF c
  <2>3. At(SourceTo(l), rest, Placed(u, "to", h))
    BY <1>5, <1>6, <2>2, ToReads DEF more
  <2>. QED  BY <1>5, <2>3 DEF u
<1>8. CASE kw = "close" /\ v = "closing"
  <2>1. NextOf(text) # "connect"
    BY <1>3, <1>8
  <2>2. At(m, text, w)
    BY <1>3, <1>5, <2>1, SourceReads
  <2>. HIDE DEF m
  <2>3. At(e, more, u)
    BY <1>1, <1>8, <2>2, ConnectReads DEF text, u
  <2>. HIDE DEF e
  <2>4. At(Source(l), more, u)
    BY <1>3, <1>5, <2>1, <2>3, SourceReads DEF e, m
  <2>5. At(SourceTo(l), rest, Placed(u, "to", h))
    BY <1>5, <1>6, <2>4, ToReads DEF more
  <2>. QED  BY <1>5, <2>5 DEF u
<1>. QED  BY <1>7, <1>8

LEMMA GoesFromTo ==
  ASSUME NEW s, NEW rest, NoPort(rest), NEW w, IsRule(w), w["from"] = Nobody,
         NEW x, NEW g, HostSays(x.name, x.port, g), NEW y, NEW h, HostSays(y.name, y.port, h),
         At(s, HostThen("from", x, HostThen("to", y, rest)), w)
  PROVE  At(Hosts(s), rest, Placed(Placed(w, "from", g), "to", h))
<1> DEFINE more == HostThen("to", y, rest)
           text == HostThen("from", x, more)
           u == Placed(w, "from", g)
           t == Retry(With(s), s)
           l == Retry(TalkWith(t), s)
           c == Connect(l)
           m == Retry(c, l)
           e == Close(m)
           k == Retry(e, l)
<1>1. more \in Texts /\ NoPort(more)
  BY ToFits DEF NoPort
<1>2. text \in Texts /\ NextOf(text) = "from"
  <2>. HIDE DEF more
  <2>. QED  BY <1>1, HostThenText, HostWords
<1>. HIDE DEF text
<1>3. NextOf(text) # "with" /\ NextOf(text) # "talk-with" /\ NextOf(text) # "connect" /\ NextOf(text) # "close"
  BY <1>2
<1>4. At(l, text, w) /\ \A z, v : At(SourceTo(l), z, v) => At(Hosts(s), z, v)
  BY <1>2, <1>3, HostsOther DEF text
<1>. HIDE DEF l, more
<1>5. At(k, text, w)
  BY <1>2, <1>3, <1>4, SourceReads
<1>. HIDE DEF k
<1>6. At(From(k), more, u)
  BY <1>1, <1>5, FromReads DEF text
<1>7. IsRule(u)
  BY PutRule, HostWords
<1>. HIDE DEF u
<1>8. At(Source(l), more, u)
  BY <1>2, <1>3, <1>4, <1>6, SourceReads DEF k
<1>9. At(SourceTo(l), rest, Placed(u, "to", h))
  BY <1>4, <1>7, <1>8, ToReads DEF more
<1>. QED  BY <1>4, <1>9 DEF u

\* The hosts are read, whichever way they are said.
HostsTold(u, w, r) ==
  /\ IsRule(u) /\ u["direction"] = r.direction /\ u["from"] = r.from /\ u["to"] = r.to
  /\ \A f \in RuleFields \ {"direction", "from", "to"} : u[f] = w[f]
LEMMA HostsRead ==
  ASSUME NEW s, NEW r, NEW from, NEW to, HostsSaid(r, from, to), NEW rest, NoPort(rest),
         NEW w, IsRule(w), w["direction"] = "data", w["from"] = Nobody, w["to"] = Nobody,
         At(s, HostsThen(r, from, to, rest), w)
  PROVE  \E u : HostsTold(u, w, r) /\ At(Hosts(s), rest, u)
<1>1. CASE r.direction = "any" /\ HostSays(from.name, from.port, r.from) /\ r.to = Nobody
  <2> DEFINE v == Placed(w, "from", r.from)
             u == Placed(v, "direction", "any")
  <2>1. At(s, HostThen("with", from, rest), w)
    BY <1>1 DEF HostsThen
  <2>2. At(Hosts(s), rest, u)
    BY <1>1, <2>1, WithReads
  <2>3. IsRule(v) /\ v["from"] = r.from /\ \A f \in RuleFields \ {"from"} : v[f] = w[f]
    BY PutRule, HostWords
  <2>. HIDE DEF v
  <2>4. IsRule(u) /\ u["direction"] = "any" /\ \A f \in RuleFields \ {"direction"} : u[f] = v[f]
    BY <2>3, PutRule, HostWords
  <2>. HIDE DEF u
  <2>5. HostsTold(u, w, r)
    BY <1>1, <2>3, <2>4, HostWords DEF HostsTold
  <2>. QED  BY <2>2, <2>5 DEF u, v
<1>2. ASSUME NEW kw, NEW v0, (kw = "connect" /\ v0 = "connecting") \/ (kw = "close" /\ v0 = "closing"),
             r.direction = v0, r.from = Nobody, HostSays(to.name, to.port, r.to)
      PROVE  \E u : HostsTold(u, w, r) /\ At(Hosts(s), rest, u)
  <2> DEFINE v == Placed(w, "direction", v0)
             u == Placed(v, "to", r.to)
  <2>1. At(s, WordThen(kw, HostThen("to", to, rest)), w)
    BY <1>2 DEF HostsThen
  <2>2. At(Hosts(s), rest, u)
    BY <1>2, <2>1, GoesTo
  <2>3. IsRule(v) /\ v["direction"] = v0 /\ \A f \in RuleFields \ {"direction"} : v[f] = w[f]
    BY PutRule, HostWords
  <2>. HIDE DEF v
  <2>4. IsRule(u) /\ u["to"] = r.to /\ \A f \in RuleFields \ {"to"} : u[f] = v[f]
    BY <2>3, PutRule, HostWords
  <2>. HIDE DEF u
  <2>5. HostsTold(u, w, r)
    BY <1>2, <2>3, <2>4, HostWords DEF HostsTold
  <2>. QED  BY <2>2, <2>5 DEF u, v
<1>3. CASE r.direction = "data" /\ HostSays(from.name, from.port, r.from) /\ r.to = Nobody
  <2> DEFINE u == Placed(w, "from", r.from)
  <2>1. At(s, HostThen("talk-with", from, rest), w)
    BY <1>3 DEF HostsThen
  <2>2. At(Hosts(s), rest, u)
    BY <1>3, <2>1, TalkReads
  <2>3. IsRule(u) /\ u["from"] = r.from /\ \A f \in RuleFields \ {"from"} : u[f] = w[f]
    BY PutRule, HostWords
  <2>. HIDE DEF u
  <2>4. HostsTold(u, w, r)
    BY <1>3, <2>3, HostWords DEF HostsTold
  <2>. QED  BY <2>2, <2>4 DEF u
<1>4. CASE r.direction = "data" /\ HostSays(from.name, from.port, r.from) /\ r.to # Nobody
           /\ HostSays(to.name, to.port, r.to)
  <2> DEFINE v == Placed(w, "from", r.from)
             u == Placed(v, "to", r.to)
  <2>1. At(s, HostThen("from", from, HostThen("to", to, rest)), w)
    BY <1>4 DEF HostsThen
  <2>2. At(Hosts(s), rest, u)
    BY <1>4, <2>1, GoesFromTo
  <2>3. IsRule(v) /\ v["from"] = r.from /\ \A f \in RuleFields \ {"from"} : v[f] = w[f]
    BY PutRule, HostWords
  <2>. HIDE DEF v
  <2>4. IsRule(u) /\ u["to"] = r.to /\ \A f \in RuleFields \ {"to"} : u[f] = v[f]
    BY <2>3, PutRule, HostWords
  <2>. HIDE DEF u
  <2>5. HostsTold(u, w, r)
    BY <1>4, <2>3, <2>4, HostWords DEF HostsTold
  <2>. QED  BY <2>2, <2>5 DEF u, v
<1>5. CASE r.direction = "connecting" /\ r.from = Nobody /\ HostSays(to.name, to.port, r.to)
  BY <1>5, <1>2, Zenon
<1>6. CASE r.direction = "closing" /\ r.from = Nobody /\ HostSays(to.name, to.port, r.to)
  BY <1>6, <1>2, Zenon
<1>. QED  BY <1>1, <1>3, <1>4, <1>5, <1>6 DEF HostsSaid

-----------------------------------------------------------------------------
(* Conditions and tasks.                                                    *)

\* A space, and what follows it.
Sep(rest) == <<Sp>> \o rest
\* The state has text to read, and has written D.
Just(s, text, D) == \E err : s = On(text, err, D)

LEMMA SepText ==
  ASSUME NEW rest \in Texts
  PROVE  Sep(rest) \in Texts /\ NextOf(Sep(rest)) = Sp /\ Sp \in WordStops /\ Sp \in EnumStops
BY Space DEF Sep, WordStops, EnumStops

LEMMA WordThenSep ==
  ASSUME NEW c \in Lexemes, NEW rest \in Texts
  PROVE  WordThen(c, rest) \in Texts /\ NextOf(WordThen(c, rest)) = c /\ WordThen(c, rest) = <<c>> \o Sep(rest)
BY WordThenText DEF WordThen, Sep

LEMMA JustBlank ==
  ASSUME NEW s, NEW rest \in Texts, NEW D, Just(s, Sep(rest), D)
  PROVE  Just(Blank(s), rest, D)
<1>1. PICK err : s = On(<<Sp>> \o rest, err, D)
  BY DEF Just, Sep
<1>2. Blank(s) = On(rest, 0, D)
  BY <1>1, BlankReads
<1>. QED  BY <1>2 DEF Just

\* One argument after a space: a number, one that is checked, a constant, a word.
LEMMA JustNumber ==
  ASSUME NEW s, NEW rest \in Texts, NEW D, NEW n \in DOMAIN Numbers, NEW d,
         Just(s, Sep(WordThen(n, rest)), D)
  PROVE  /\ Just(Number(d, Blank(s)), Sep(rest), Placed(D, d, n))
         /\ Numbers[n] <= 100 => Just(Percent(d, Blank(s)), Sep(rest), Placed(D, d, n))
<1>1. n \in Lexemes
  BY NumberWord
<1>2. WordThen(n, rest) \in Texts /\ WordThen(n, rest) = <<n>> \o Sep(rest) /\ Sep(rest) \in Texts
  BY <1>1, WordThenSep, SepText
<1>3. Just(Blank(s), WordThen(n, rest), D)
  BY <1>2, JustBlank
<1> DEFINE b == Blank(s)
           more == Sep(rest)
<1>4. PICK err : b = On(<<n>> \o more, err, D)
  BY <1>2, <1>3 DEF Just
<1>5. more \in Texts
  BY <1>2
<1>. HIDE DEF b, more
<1>6. Number(d, b) = On(more, 0, Placed(D, d, n))
  BY <1>4, <1>5, NumberReads
<1>7. Numbers[n] <= 100 => Percent(d, b) = On(more, 0, Placed(D, d, n))
  BY <1>4, <1>5, PercentReads
<1>. QED  BY <1>6, <1>7 DEF Just, b, more

LEMMA JustEnum ==
  ASSUME NEW s, NEW rest \in Texts, NEW D, NEW t, NEW c \in t.names, c \in Lexemes, NEW d,
         Just(s, Sep(WordThen(c, rest)), D)
  PROVE  Just(Enum(d, t, Blank(s)), Sep(rest), Placed(D, d, c))
<1>2. WordThen(c, rest) \in Texts /\ WordThen(c, rest) = <<c>> \o Sep(rest) /\ Sep(rest) \in Texts
      /\ NextOf(Sep(rest)) \in EnumStops
  BY WordThenSep, SepText
<1>3. Just(Blank(s), WordThen(c, rest), D)
  BY <1>2, JustBlank
<1> DEFINE b == Blank(s)
           more == Sep(rest)
<1>4. PICK err : b = On(<<c>> \o more, err, D)
  BY <1>2, <1>3 DEF Just
<1>5. more \in Texts /\ NextOf(more) \in EnumStops
  BY <1>2
<1>. HIDE DEF b, more
<1>6. Enum(d, t, b) = On(more, 0, Placed(D, d, c))
  BY <1>4, <1>5, EnumReads
<1>. QED  BY <1>6 DEF Just, b, more

LEMMA JustWord ==
  ASSUME NEW s, NEW rest \in Texts, NEW D, NEW x, IsWord(x), NEW d, Just(s, Sep(x \o Sep(rest)), D)
  PROVE  Just(Word(d, Blank(s)), Sep(rest), Placed(D, d, x))
<1> DEFINE b == Blank(s)
           more == Sep(rest)
<1>1. more \in Texts /\ NextOf(more) \in WordStops
  BY SepText
<1>. HIDE DEF more
<1>2. x \in Texts
  BY DEF IsWord
<1>3. x \o more \in Texts
  BY <1>1, <1>2, Joins
<1>4. Just(b, x \o more, D)
  BY <1>3, JustBlank DEF more
<1>5. PICK err : b = On(x \o more, err, D)
  BY <1>4 DEF Just
<1>. HIDE DEF b
<1>6. Word(d, b) = On(more, 0, Placed(D, d, x))
  BY <1>1, <1>5, WordReads
<1>. QED  BY <1>6 DEF Just, b, more

\* The arguments of the condition or of the task v, and the text that says them and goes on with rest.
Numbered  == {"hang", "local-hang", "remote-hang", "remove", "truncate", "alter", "before", "after"}
Checked   == {"prob", "split"}
Bare      == {"always", "never", "matched", "unmatched", "nop", "syscall", "drop", "cancel-syscall", "reset"}
ArgsFit(v) ==
  /\ v = <<v[1], v[2], v[3], v[4]>>
  /\ \/ v[1] \in Bare /\ v[2] = Unset /\ v[3] = Unset /\ v[4] = Unset
     \/ v[1] \in Numbered /\ v[2] \in DOMAIN Numbers /\ v[3] = Unset /\ v[4] = Unset
     \/ v[1] \in Checked /\ v[2] \in DOMAIN Numbers /\ Numbers[v[2]] <= 100 /\ v[3] = Unset /\ v[4] = Unset
     \/ v[1] \in Words /\ IsWord(v[2]) /\ v[3] = Unset /\ v[4] = Unset
     \/ v[1] = "error" /\ v[2] \in Errors.names /\ v[3] = Unset /\ v[4] = Unset
     \/ v[1] = "emit" /\ v[2] \in Signals.names /\ v[3] = Unset /\ v[4] = Unset
     \/ v[1] = "between" /\ v[2] \in DOMAIN Numbers /\ v[3] \in DOMAIN Numbers /\ v[4] = Unset
     \/ v[1] = "mark-done" /\ v[2] \in Kinds.names /\ v[3] \in DOMAIN Numbers /\ v[4] = Unset
     \/ v[1] = "cycle" /\ v[2] \in Bools.names /\ v[3] \in DOMAIN Numbers /\ v[4] \in DOMAIN Numbers
ArgsThen(v, rest) ==
  CASE v[1] \in Bare -> rest
    [] v[1] \in Words -> v[2] \o Sep(rest)
    [] v[1] \in {"between", "mark-done"} -> WordThen(v[2], WordThen(v[3], rest))
    [] v[1] = "cycle" -> WordThen(v[2], WordThen(v[3], WordThen(v[4], rest)))
    [] OTHER -> WordThen(v[2], rest)

\* The arguments are written, and nothing of the rule.
ArgsWritten(E, D, v) ==
  /\ IsDest(E) /\ E["arg1"] = v[2] /\ E["arg2"] = v[3] /\ E["arg3"] = v[4]
  /\ \A f \in RuleFields : E[f] = D[f]
\* No argument is written.
ArgsUnset(D) == IsDest(D) /\ D["arg1"] = Unset /\ D["arg2"] = Unset /\ D["arg3"] = Unset

LEMMA ArgsPut ==
  ASSUME NEW D, ArgsUnset(D), NEW v
  PROVE  /\ v[2] = Unset /\ v[3] = Unset /\ v[4] = Unset => ArgsWritten(D, D, v)
         /\ v[3] = Unset /\ v[4] = Unset => ArgsWritten(Placed(D, "arg1", v[2]), D, v)
         /\ v[4] = Unset => ArgsWritten(Placed(Placed(D, "arg1", v[2]), "arg2", v[3]), D, v)
         /\ ArgsWritten(Placed(Placed(Placed(D, "arg1", v[2]), "arg2", v[3]), "arg3", v[4]), D, v)
<1> DEFINE a == Placed(D, "arg1", v[2])
           b == Placed(a, "arg2", v[3])
           c == Placed(b, "arg3", v[4])
<1>1. IsDest(a) /\ a["arg1"] = v[2] /\ a["arg2"] = Unset /\ a["arg3"] = Unset
      /\ \A f \in RuleFields : a[f] = D[f]
  BY PutDest DEF ArgsUnset, Fields, RuleFields
<1>. HIDE DEF a
<1>2. IsDest(b) /\ b["arg1"] = v[2] /\ b["arg2"] = v[3] /\ b["arg3"] = Unset
      /\ \A f \in RuleFields : b[f] = D[f]
  BY <1>1, PutDest DEF Fields, RuleFields
<1>. HIDE DEF b
<1>3. IsDest(c) /\ c["arg1"] = v[2] /\ c["arg2"] = v[3] /\ c["arg3"] = v[4]
      /\ \A f \in RuleFields : c[f] = D[f]
  BY <1>2, PutDest DEF Fields, RuleFields
<1>. HIDE DEF c
<1>. QED  BY <1>1, <1>2, <1>3 DEF ArgsWritten, ArgsUnset, a, b, c

LEMMA ArgsWords ==
  /\ Errors.names \subseteq Lexemes /\ Signals.names \subseteq Lexemes /\ Kinds.names \subseteq Lexemes
  /\ Bools.names \subseteq Lexemes /\ Protos.names \subseteq Lexemes /\ DoModes.names \subseteq Lexemes
  /\ Gotos.names \subseteq Lexemes /\ Conditions \subseteq Lexemes /\ Tasks \subseteq Lexemes
  /\ "on" \in Lexemes /\ "when" \in Lexemes
BY DEF Lexemes, Keywords

\* The arguments are read.
LEMMA ArgsRead ==
  ASSUME NEW v, ArgsFit(v), NEW rest \in Texts, NEW s, NEW D, ArgsUnset(D),
         Just(s, Sep(ArgsThen(v, rest)), D)
  PROVE  \E E : Just(Args(v[1], s), Sep(rest), E) /\ ArgsWritten(E, D, v)
<1> DEFINE n == v[1]
           D1 == Placed(D, "arg1", v[2])
           D2 == Placed(D1, "arg2", v[3])
           D3 == Placed(D2, "arg3", v[4])
<1>0. \A x \in DOMAIN Numbers : x \in Lexemes
  BY NumberWord
<1>1. CASE n \in Bare /\ v[2] = Unset /\ v[3] = Unset /\ v[4] = Unset
  <2>a. /\ n \notin {"hang", "local-hang", "remote-hang", "remove", "truncate", "alter",
                      "before", "after", "between"}
        /\ n \notin {"echo", "log", "dump", "replay"} /\ n \notin {"prob", "split"}
        /\ n # "mark-done" /\ n # "error" /\ n # "emit" /\ n # "cycle" /\ n # "between"
    BY <1>1 DEF Bare
  <2>b. Arg1(n, s) = s
    BY <2>a DEF Arg1
  <2>c. Args(n, s) = s
    <3>1. n \notin {"between", "mark-done"}
      BY <2>a
    <3>. QED  BY <2>a, <2>b, <3>1 DEF Args
  <2>1. Args(n, s) = s /\ ArgsThen(v, rest) = rest
    <3>1. ArgsThen(v, rest) = rest
      BY <1>1 DEF ArgsThen, Words, Bare
    <3>. QED  BY <2>c, <3>1
  <2>2. ArgsWritten(D, D, v)
    BY <1>1, ArgsPut
  <2>. QED  BY <2>1, <2>2
<1>2. CASE n \in Numbered /\ v[2] \in DOMAIN Numbers /\ v[3] = Unset /\ v[4] = Unset
  <2>1. Args(n, s) = Number("arg1", Blank(s)) /\ ArgsThen(v, rest) = WordThen(v[2], rest)
    BY <1>2 DEF Args, Arg1, ArgsThen, Bare, Numbered, Words
  <2>2. ArgsWritten(D1, D, v)
    BY <1>2, ArgsPut
  <2>3. Just(Number("arg1", Blank(s)), Sep(rest), D1)
    BY <1>2, <2>1, JustNumber
  <2>. QED  BY <2>1, <2>2, <2>3
<1>3. CASE n \in Checked /\ v[2] \in DOMAIN Numbers /\ Numbers[v[2]] <= 100 /\ v[3] = Unset /\ v[4] = Unset
  <2>1. Args(n, s) = Percent("arg1", Blank(s)) /\ ArgsThen(v, rest) = WordThen(v[2], rest)
    BY <1>3 DEF Args, Arg1, ArgsThen, Bare, Checked, Words
  <2>2. ArgsWritten(D1, D, v)
    BY <1>3, ArgsPut
  <2>3. Just(Percent("arg1", Blank(s)), Sep(rest), D1)
    BY <1>3, <2>1, JustNumber
  <2>. QED  BY <2>1, <2>2, <2>3
<1>4. CASE n \in Words /\ IsWord(v[2]) /\ v[3] = Unset /\ v[4] = Unset
  <2>1. Args(n, s) = Word("arg1", Blank(s)) /\ ArgsThen(v, rest) = v[2] \o Sep(rest)
    BY <1>4 DEF Args, Arg1, ArgsThen, Bare, Words
  <2>2. ArgsWritten(D1, D, v)
    BY <1>4, ArgsPut
  <2>3. Just(Word("arg1", Blank(s)), Sep(rest), D1)
    BY <1>4, <2>1, JustWord
  <2>. QED  BY <2>1, <2>2, <2>3
<1>5. CASE n = "error" /\ v[2] \in Errors.names /\ v[3] = Unset /\ v[4] = Unset
  <2>1. Args(n, s) = Enum("arg1", Errors, Blank(s)) /\ ArgsThen(v, rest) = WordThen(v[2], rest)
    BY <1>5 DEF Args, Arg1, ArgsThen, Bare, Words
  <2>2. ArgsWritten(D1, D, v)
    BY <1>5, ArgsPut
  <2>3. Just(Enum("arg1", Errors, Blank(s)), Sep(rest), D1)
    BY <1>5, <2>1, JustEnum, ArgsWords
  <2>. QED  BY <2>1, <2>2, <2>3
<1>6. CASE n = "emit" /\ v[2] \in Signals.names /\ v[3] = Unset /\ v[4] = Unset
  <2>1. Args(n, s) = Enum("arg1", Signals, Blank(s)) /\ ArgsThen(v, rest) = WordThen(v[2], rest)
    BY <1>6 DEF Args, Arg1, ArgsThen, Bare, Words
  <2>2. ArgsWritten(D1, D, v)
    BY <1>6, ArgsPut
  <2>3. Just(Enum("arg1", Signals, Blank(s)), Sep(rest), D1)
    BY <1>6, <2>1, JustEnum, ArgsWords
  <2>. QED  BY <2>1, <2>2, <2>3
<1>7. CASE n = "between" /\ v[2] \in DOMAIN Numbers /\ v[3] \in DOMAIN Numbers /\ v[4] = Unset
  <2> DEFINE a == Number("arg1", Blank(s))
             more == WordThen(v[3], rest)
  <2>1. Args(n, s) = Number("arg2", Blank(a)) /\ ArgsThen(v, rest) = WordThen(v[2], more)
    BY <1>7 DEF Args, Arg1, ArgsThen, Bare, Words
  <2>2. ArgsWritten(D2, D, v)
    BY <1>7, ArgsPut
  <2>3. more \in Texts
    BY <1>0, <1>7, WordThenSep
  <2>4. Just(a, Sep(more), D1)
    <3>. HIDE DEF more
    <3>. QED  BY <1>7, <2>1, <2>3, JustNumber
  <2>. HIDE DEF a, D1
  <2>5. Just(Number("arg2", Blank(a)), Sep(rest), D2)
    BY <1>7, <2>4, JustNumber
  <2>. QED  BY <2>1, <2>2, <2>5
<1>8. CASE n = "mark-done" /\ v[2] \in Kinds.names /\ v[3] \in DOMAIN Numbers /\ v[4] = Unset
  <2> DEFINE a == Enum("arg1", Kinds, Blank(s))
             more == WordThen(v[3], rest)
  <2>1. Args(n, s) = Number("arg2", Blank(a)) /\ ArgsThen(v, rest) = WordThen(v[2], more)
    BY <1>8 DEF Args, Arg1, ArgsThen, Bare, Words
  <2>2. ArgsWritten(D2, D, v)
    BY <1>8, ArgsPut
  <2>3. more \in Texts
    BY <1>0, <1>8, WordThenSep
  <2>4. Just(a, Sep(more), D1)
    <3>. HIDE DEF more
    <3>. QED  BY <1>8, <2>1, <2>3, JustEnum, ArgsWords
  <2>. HIDE DEF a, D1
  <2>5. Just(Number("arg2", Blank(a)), Sep(rest), D2)
    BY <1>8, <2>4, JustNumber
  <2>. QED  BY <2>1, <2>2, <2>5
<1>9. CASE n = "cycle" /\ v[2] \in Bools.names /\ v[3] \in DOMAIN Numbers /\ v[4] \in DOMAIN Numbers
  <2> DEFINE a == Enum("arg1", Bools, Blank(s))
             b == Number("arg2", Blank(a))
             last == WordThen(v[4], rest)
             more == WordThen(v[3], last)
  <2>1. Args(n, s) = Number("arg3", Blank(b)) /\ ArgsThen(v, rest) = WordThen(v[2], more)
    BY <1>9 DEF Args, Arg1, ArgsThen, Bare, Words
  <2>2. ArgsWritten(D3, D, v)
    BY <1>9, ArgsPut
  <2>3. last \in Texts
    BY <1>0, <1>9, WordThenSep
  <2>4. more \in Texts
    <3>. HIDE DEF last
    <3>. QED  BY <1>0, <1>9, <2>3, WordThenSep
  <2>5. Just(a, Sep(more), D1)
    <3>. HIDE DEF more
    <3>. QED  BY <1>9, <2>1, <2>4, JustEnum, ArgsWords
  <2>. HIDE DEF a, D1
  <2>6. Just(b, Sep(last), D2)
    <3>. HIDE DEF last
    <3>. QED  BY <1>9, <2>3, <2>5, JustNumber DEF last
  <2>. HIDE DEF b, D2
  <2>7. Just(Number("arg3", Blank(b)), Sep(rest), D3)
    BY <1>9, <2>6, JustNumber
  <2>. QED  BY <2>1, <2>2, <2>7
<1>. QED  BY <1>1, <1>2, <1>3, <1>4, <1>5, <1>6, <1>7, <1>8, <1>9 DEF ArgsFit

LEMMA ArgsText ==
  ASSUME NEW v, ArgsFit(v), NEW rest \in Texts
  PROVE  ArgsThen(v, rest) \in Texts
<1> DEFINE n == v[1]
<1>0. \A x \in DOMAIN Numbers : x \in Lexemes
  BY NumberWord
<1>1. CASE n \in Bare
  <2>1. ArgsThen(v, rest) = rest
    BY <1>1 DEF ArgsThen, Words, Bare
  <2>. QED  BY <2>1
<1>2. CASE n \in Words /\ IsWord(v[2])
  <2>1. ArgsThen(v, rest) = v[2] \o Sep(rest)
    BY <1>2 DEF ArgsThen, Words, Bare
  <2>2. v[2] \in Texts /\ Sep(rest) \in Texts
    BY <1>2, SepText DEF IsWord
  <2>3. v[2] \o Sep(rest) \in Texts
    BY <2>2, Joins
  <2>. QED  BY <2>1, <2>3
<1>3. CASE n \in {"between", "mark-done"} /\ v[2] \in Lexemes /\ v[3] \in Lexemes
  <2> DEFINE more == WordThen(v[3], rest)
  <2>1. ArgsThen(v, rest) = WordThen(v[2], more)
    BY <1>3 DEF ArgsThen, Words, Bare
  <2>2. more \in Texts
    BY <1>3, WordThenSep
  <2>. HIDE DEF more
  <2>. QED  BY <1>3, <2>1, <2>2, WordThenSep
<1>4. CASE n = "cycle" /\ v[2] \in Lexemes /\ v[3] \in Lexemes /\ v[4] \in Lexemes
  <2> DEFINE last == WordThen(v[4], rest)
             more == WordThen(v[3], last)
  <2>1. ArgsThen(v, rest) = WordThen(v[2], more)
    BY <1>4 DEF ArgsThen, Words, Bare
  <2>2. last \in Texts
    BY <1>4, WordThenSep
  <2>. HIDE DEF last
  <2>3. more \in Texts
    BY <1>4, <2>2, WordThenSep
  <2>. HIDE DEF more
  <2>. QED  BY <1>4, <2>1, <2>3, WordThenSep
<1>5. CASE n \in Numbered \cup Checked \cup {"error", "emit"} /\ v[2] \in Lexemes
  <2>1. ArgsThen(v, rest) = WordThen(v[2], rest)
    BY <1>5 DEF ArgsThen, Words, Bare, Numbered, Checked
  <2>. QED  BY <1>5, <2>1, WordThenSep
<1>6. v[2] \in DOMAIN Numbers \cup Errors.names \cup Signals.names \cup Kinds.names \cup Bools.names
        => v[2] \in Lexemes
  BY <1>0, ArgsWords
<1>. QED  BY <1>0, <1>1, <1>2, <1>3, <1>4, <1>5, <1>6 DEF ArgsFit

\* A name and its arguments, and what goes on after the space.
NamedThen(v, rest) == WordThen(v[1], ArgsThen(v, rest))
NamedFits(v, names) == ArgsFit(v) /\ v[1] \in names /\ v[1] \in Lexemes \ WordStops

LEMMA NamedText ==
  ASSUME NEW v, NEW names, NamedFits(v, names), NEW rest \in Texts
  PROVE  NamedThen(v, rest) \in Texts /\ NextOf(NamedThen(v, rest)) = v[1]
<1>1. ArgsThen(v, rest) \in Texts
  BY ArgsText DEF NamedFits
<1>. QED  BY <1>1, WordThenSep DEF NamedThen, NamedFits

\* The variables for the arguments, emptied.
Emptied(dest) == Placed(Placed(Placed(dest, "arg1", Unset), "arg2", Unset), "arg3", Unset)
LEMMA EmptiedDest ==
  ASSUME NEW dest, IsDest(dest)
  PROVE  ArgsUnset(Emptied(dest)) /\ \A f \in RuleFields \cup {"name"} : Emptied(dest)[f] = dest[f]
<1> DEFINE a == Placed(dest, "arg1", Unset)
           b == Placed(a, "arg2", Unset)
           c == Placed(b, "arg3", Unset)
<1>1. IsDest(a) /\ a["arg1"] = Unset /\ \A f \in RuleFields \cup {"name"} : a[f] = dest[f]
  BY PutDest DEF Fields, RuleFields
<1>. HIDE DEF a
<1>2. IsDest(b) /\ b["arg1"] = Unset /\ b["arg2"] = Unset
      /\ \A f \in RuleFields \cup {"name"} : b[f] = dest[f]
  BY <1>1, PutDest DEF Fields, RuleFields
<1>. HIDE DEF b
<1>3. IsDest(c) /\ c["arg1"] = Unset /\ c["arg2"] = Unset /\ c["arg3"] = Unset
      /\ \A f \in RuleFields \cup {"name"} : c[f] = dest[f]
  BY <1>2, PutDest DEF Fields, RuleFields
<1>. QED  BY <1>3 DEF Emptied, ArgsUnset, a, b, c

\* A condition or a task is read.
LEMMA NamedReads ==
  ASSUME NEW v, NEW names, NamedFits(v, names), NEW rest \in Texts, NEW d \in RuleFields,
         NEW w, IsRule(w), NEW s, At(s, NamedThen(v, rest), w)
  PROVE  At(Named(d, names, s), Sep(rest), Placed(w, d, v))
<1> DEFINE args == ArgsThen(v, rest)
           more == Sep(args)
           c == v[1]
           name == <<c>>
<1>1. args \in Texts
  BY ArgsText DEF NamedFits
<1>2. more \in Texts /\ NextOf(more) \in WordStops /\ IsWord(name)
  <2>. HIDE DEF args
  <2>. QED  BY <1>1, SepText, OneWord DEF NamedFits
<1>3. NamedThen(v, rest) = name \o more
  BY DEF NamedThen, WordThen, Sep
<1>. HIDE DEF args
<1>4. PICK err, D : s = On(name \o more, err, D) /\ Agrees(D, w)
  BY <1>3 DEF At
<1> DEFINE D0 == Placed(D, "name", name)
           word == Word("name", s)
           n == word.dest.name[1]
           blank == Write(Write(Write(word, "arg1", Unset), "arg2", Unset), "arg3", Unset)
           r == Suite(Args(n, blank), s)
<1>a. Named(d, names, s) =
        IF ~word.ok THEN word
        ELSE IF Len(word.dest.name) > 1 \/ n \notin names THEN Reject(Back(word, s))
        ELSE IF ~r.ok THEN r ELSE Write(r, d, <<n, r.dest.arg1, r.dest.arg2, r.dest.arg3>>)
  BY DEF Named
<1>5. word = On(more, 0, D0)
  <2>. HIDE DEF name, more
  <2>. QED  BY <1>2, <1>4, WordReads
<1>6. IsDest(D0) /\ D0["name"] = name /\ Agrees(D0, w)
  BY <1>4, PutDest DEF Agrees, Fields, RuleFields
<1>. HIDE DEF word, D0, more
<1>7. word.ok = TRUE /\ word.dest = D0
  BY <1>5 DEF On, State
<1>8. word.dest.name = <<c>> /\ Len(word.dest.name) = 1 /\ n = c
  BY <1>6, <1>7
<1>9. blank = On(more, 0, Emptied(D0))
  BY <1>5, Writes DEF Emptied
<1>. HIDE DEF blank, n
<1>10. Just(blank, more, Emptied(D0)) /\ ArgsUnset(Emptied(D0))
  BY <1>6, <1>9, EmptiedDest DEF Just
<1>11. PICK E : Just(Args(c, blank), Sep(rest), E) /\ ArgsWritten(E, Emptied(D0), v)
  BY <1>10, ArgsRead DEF NamedFits, more, args
<1>12. PICK e : Args(c, blank) = On(Sep(rest), e, E)
  BY <1>11 DEF Just
<1>13. r = On(Sep(rest), 0, E)
  <2> DEFINE t == name \o more
  <2>. HIDE DEF t
  <2>. QED  BY <1>4, <1>8, <1>12, Gathers DEF t
<1>. HIDE DEF r
<1>14. r.ok = TRUE /\ r.dest = E
  BY <1>13 DEF On, State
<1>15. <<n, r.dest.arg1, r.dest.arg2, r.dest.arg3>> = v
  BY <1>8, <1>11, <1>14 DEF ArgsWritten, NamedFits, ArgsFit
<1>16. Named(d, names, s) = Write(r, d, v)
  <2>1. n \in names
    BY <1>8 DEF NamedFits
  <2>2. Named(d, names, s) = Write(r, d, <<n, r.dest.arg1, r.dest.arg2, r.dest.arg3>>)
    BY <1>a, <1>7, <1>8, <1>14, <2>1
  <2>. QED  BY <1>15, <2>2
<1>17. Named(d, names, s) = On(Sep(rest), 0, Placed(E, d, v))
  BY <1>13, <1>16, Writes
<1>18. Agrees(E, w)
  BY <1>6, <1>11, EmptiedDest DEF Agrees, ArgsWritten
<1>. QED  BY <1>17, <1>18, PutAgrees DEF At

-----------------------------------------------------------------------------
(* The other parts of a rule.                                               *)

\* A number, or a constant, and the space after it.
LEMMA AtNumberThen ==
  ASSUME NEW s, NEW rest \in Texts, NEW w, IsRule(w), NEW d \in RuleFields, NEW n \in DOMAIN Numbers,
         At(s, WordThen(n, rest), w)
  PROVE  At(Blank(Number(d, s)), rest, Placed(w, d, n))
<1> DEFINE more == Sep(rest)
           r == Number(d, s)
<1>1. more \in Texts /\ At(s, <<n>> \o more, w)
  BY SepText, NumberWord, WordThenSep
<1>. HIDE DEF more
<1>2. At(r, more, Placed(w, d, n))
  BY <1>1, AtNumber
<1>. HIDE DEF r
<1>. QED  BY <1>2, AtPieces DEF more, Sep, r

LEMMA AtEnumThen ==
  ASSUME NEW s, NEW rest \in Texts, NEW w, IsRule(w), NEW d \in RuleFields, NEW t, NEW c \in t.names,
         c \in Lexemes, At(s, WordThen(c, rest), w)
  PROVE  At(Blank(Enum(d, t, s)), rest, Placed(w, d, c))
<1> DEFINE more == Sep(rest)
           r == Enum(d, t, s)
<1>1. more \in Texts /\ NextOf(more) \in WordStops /\ At(s, <<c>> \o more, w)
  BY SepText, WordThenSep
<1>. HIDE DEF more
<1>2. At(r, more, Placed(w, d, c))
  BY <1>1, AtEnum
<1>. HIDE DEF r
<1>. QED  BY <1>2, AtPieces DEF more, Sep, r

LEMMA FieldWords ==
  /\ "pos" \in RuleFields /\ "proto" \in RuleFields /\ "condition" \in RuleFields
  /\ "mode" \in RuleFields /\ "task" \in RuleFields /\ "next" \in RuleFields
BY DEF RuleFields

\* The position and the protocol.
LEMMA LineReads ==
  ASSUME NEW s, NEW rest \in Texts, NEW w, IsRule(w), NEW n \in DOMAIN Numbers, NEW p \in Protos.names,
         At(s, WordThen(n, WordThen("on", WordThen(p, rest))), w)
  PROVE  At(Line(s), rest, Placed(Placed(w, "pos", n), "proto", p))
<1> DEFINE t2 == WordThen(p, rest)
           t1 == WordThen("on", t2)
           u  == Placed(w, "pos", n)
           a  == Blank(Number("pos", s))
           b  == Blank(Const("on", a))
<1>0. p \in Lexemes /\ "on" \in Lexemes
  BY ArgsWords
<1>1. t2 \in Texts
  BY <1>0, WordThenSep
<1>2. t1 \in Texts
  <2>. HIDE DEF t2
  <2>. QED  BY <1>0, <1>1, WordThenSep
<1>3. At(a, t1, u)
  <2>. HIDE DEF t1
  <2>. QED  BY <1>2, AtNumberThen, FieldWords DEF t1
<1>. HIDE DEF a
<1>4. IsRule(u)
  BY PutRule, FieldWords
<1>. HIDE DEF u
<1>5. At(b, t2, u)
  <2>. HIDE DEF t2
  <2>. QED  BY <1>0, <1>1, <1>3, AtWord
<1>. HIDE DEF b
<1>6. At(Blank(Enum("proto", Protos, b)), rest, Placed(u, "proto", p))
  BY <1>0, <1>4, <1>5, AtEnumThen, FieldWords
<1>7. Line(s) = Blank(Enum("proto", Protos, b))
  BY DEF Line, a, b
<1>. QED  BY <1>6, <1>7 DEF u

\* A state that failed does not read a condition or a task.
LEMMA OffNamed ==
  ASSUME NEW s, NEW w, Off(s, w), NEW d, NEW names
  PROVE  Named(d, names, s) = s
<1>1. ~s.ok
  BY DEF Off, Fails
<1>2. Word("name", s) = s
  BY <1>1 DEF Word
<1>. QED  BY <1>1, <1>2 DEF Named

\* The condition: it is read, and where there is none nothing is.
LEMMA WhenReads ==
  ASSUME NEW s, NEW rest \in Texts, NEW w, IsRule(w), NEW v, NamedFits(v, Conditions),
         At(s, WordThen("when", NamedThen(v, rest)), w)
  PROVE  At(When(s), rest, Placed(w, "condition", v))
<1> DEFINE more == NamedThen(v, rest)
           b == Blank(Const("when", s))
           c == Named("condition", Conditions, b)
           e == Blank(c)
           u == Placed(w, "condition", v)
<1>1. more \in Texts
  BY NamedText
<1>2. At(b, more, w)
  <2>1. At(s, WordThen("when", more), w) /\ "when" \in Lexemes
    BY ArgsWords
  <2>. HIDE DEF more
  <2>. QED  BY <1>1, <2>1, AtWord
<1>. HIDE DEF b
<1>3. At(c, Sep(rest), u)
  BY <1>2, NamedReads, FieldWords
<1>. HIDE DEF c, u
<1>4. At(e, rest, u)
  BY <1>3, AtPieces DEF Sep
<1>. HIDE DEF e
<1>5. When(s) = Optional(e, s)
  BY DEF When, e, c, b
<1>6. At(Optional(e, s), rest, u)
  BY <1>4, AtGathers
<1>. QED  BY <1>5, <1>6 DEF u

LEMMA NoWhen ==
  ASSUME NEW s, NEW text \in Texts, NEW w, At(s, text, w), NextOf(text) # "when"
  PROVE  At(When(s), text, w)
<1> DEFINE c == Const("when", s)
<1>1. Off(c, w)
  BY OffConst
<1>. HIDE DEF c
<1>2. Blank(c) = c /\ Named("condition", Conditions, c) = c
  BY <1>1, OffPasses, OffNamed
<1>3. When(s) = Optional(c, s)
  BY <1>2 DEF When, c
<1>. QED  BY <1>1, <1>3, OffGivesUp

\* The task: it is read, and where there is none the mode is the one that a rule begins with.
LEMMA DoReads ==
  ASSUME NEW s, NEW rest \in Texts, NEW w, IsRule(w), NEW m \in DoModes.names, NEW v, NamedFits(v, Tasks),
         At(s, WordThen(m, NamedThen(v, rest)), w)
  PROVE  At(Do(s), rest, Placed(Placed(w, "mode", m), "task", v))
<1> DEFINE more == NamedThen(v, rest)
           b == Blank(Enum("mode", DoModes, s))
           c == Named("task", Tasks, b)
           e == Blank(c)
           x == Placed(w, "mode", m)
           u == Placed(x, "task", v)
<1>1. more \in Texts
  BY NamedText
<1>2. At(b, more, x) /\ IsRule(x)
  <2>1. At(s, WordThen(m, more), w) /\ m \in Lexemes
    BY ArgsWords
  <2>. HIDE DEF more
  <2>2. At(b, more, x)
    BY <1>1, <2>1, AtEnumThen, FieldWords
  <2>. QED  BY <2>2, FieldWords, PutRule
<1>. HIDE DEF b, x
<1>3. At(c, Sep(rest), u)
  BY <1>2, NamedReads, FieldWords
<1>. HIDE DEF c, u
<1>4. At(e, rest, u)
  BY <1>3, AtPieces DEF Sep
<1>. HIDE DEF e
<1>5. Do(s) = Optional(e, s)
  BY DEF Do, e, c, b
<1>6. At(Optional(e, s), rest, u)
  BY <1>4, AtGathers
<1>. QED  BY <1>5, <1>6 DEF u, x

LEMMA NoDo ==
  ASSUME NEW s, NEW text \in Texts, NEW w, IsRule(w), w["mode"] = "do", At(s, text, w),
         NextOf(text) \notin DoModes.names
  PROVE  At(Do(s), text, w)
<1> DEFINE c == Enum("mode", DoModes, s)
<1>1. PICK err, D : s = On(text, err, D) /\ Agrees(D, w)
  BY DEF At
<1>2. ~Begins(text, DoModes)
  BY DEF Begins
<1>3. Fails(c, Placed(D, "mode", DoModes.default))
  BY <1>1, <1>2, EnumFails
<1>4. DoModes.default = "do"
  BY DEF DoModes, Table
<1>5. Agrees(Placed(D, "mode", "do"), Placed(w, "mode", "do"))
  BY <1>1, PutAgrees, FieldWords
<1>6. Placed(w, "mode", "do") = w
  BY FieldWords DEF IsRule, Placed
<1>7. Off(c, w)
  BY <1>3, <1>4, <1>5, <1>6 DEF Off
<1>. HIDE DEF c
<1>8. Blank(c) = c /\ Named("task", Tasks, c) = c
  BY <1>7, OffPasses, OffNamed
<1>9. Do(s) = Optional(c, s)
  BY <1>8 DEF Do, c
<1>. QED  BY <1>7, <1>9, OffGivesUp

\* What comes next: a constant, and the line of those that go to one.
Jumps == {"goto", "exec"}
NextFits(v) ==
  /\ v = <<v[1], v[2]>> /\ v[1] \in Gotos.names
  /\ IF v[1] \in Jumps THEN v[2] \in DOMAIN Numbers ELSE v[2] = "0"
GotoThen(v, rest) == IF v[1] \in Jumps THEN WordThen(v[1], <<v[2]>> \o rest) ELSE <<v[1]>> \o rest

LEMMA GotoText ==
  ASSUME NEW v, NextFits(v), NEW rest \in Texts
  PROVE  /\ v[1] \in Lexemes /\ GotoThen(v, rest) \in Texts /\ NextOf(GotoThen(v, rest)) = v[1]
         /\ v[1] \in Jumps => v[2] \in Lexemes /\ <<v[2]>> \o rest \in Texts
<1>1. v[1] \in Lexemes
  BY ArgsWords DEF NextFits
<1>2. CASE v[1] \in Jumps
  <2>1. v[2] \in Lexemes
    BY <1>2, NumberWord DEF NextFits
  <2> DEFINE more == <<v[2]>> \o rest
  <2>2. more \in Texts
    BY <2>1, Lexeme
  <2>3. GotoThen(v, rest) = WordThen(v[1], more)
    BY <1>2 DEF GotoThen
  <2>. HIDE DEF more
  <2>4. GotoThen(v, rest) \in Texts /\ NextOf(GotoThen(v, rest)) = v[1]
    BY <1>1, <2>2, <2>3, WordThenSep
  <2>. QED  BY <1>1, <2>1, <2>2, <2>4 DEF more
<1>3. CASE v[1] \notin Jumps
  <2>1. GotoThen(v, rest) = <<v[1]>> \o rest
    BY <1>3 DEF GotoThen
  <2>. QED  BY <1>1, <1>3, <2>1, Lexeme
<1>. QED  BY <1>2, <1>3

LEMMA GotoReads ==
  ASSUME NEW v, NextFits(v), NEW rest \in Texts, NextOf(rest) \in WordStops, NEW w, IsRule(w),
         NEW s, At(s, GotoThen(v, rest), w)
  PROVE  At(Goto(s), rest, Placed(w, "next", v))
<1> DEFINE c == v[1]
           n == v[2]
           e == Enum("type", Gotos, s)
           b == Blank(e)
           r == IF e.dest.type \in {"goto", "exec"} THEN Number("line", b) ELSE Write(e, "line", "0")
<1>1. PICK err, D : s = On(GotoThen(v, rest), err, D) /\ Agrees(D, w)
  BY DEF At
<1> DEFINE D1 == Placed(D, "type", c)
           D2 == Placed(D1, "line", n)
<1>2. IsDest(D1) /\ D1["type"] = c /\ Agrees(D1, w)
  BY <1>1, PutDest DEF Agrees, Fields, RuleFields
<1>3. c \in Gotos.names /\ c \in Lexemes
  BY GotoText DEF NextFits
<1>a. Goto(s) = IF ~s.ok THEN s ELSE IF ~r.ok THEN Back(r, s)
                ELSE Write(r, "next", <<r.dest.type, r.dest.line>>)
  BY DEF Goto
<1>4. r = On(rest, 0, D2)
  <2>. HIDE DEF D1
  <2>1. CASE c \in Jumps
    <3> DEFINE t == <<n>> \o rest
               more == Sep(t)
    <3>1. t \in Texts /\ n \in DOMAIN Numbers
      BY <2>1, GotoText DEF NextFits
    <3>2. GotoThen(v, rest) = WordThen(c, t)
      BY <2>1 DEF GotoThen
    <3>3. Number("line", On(t, 0, D1)) = On(rest, 0, D2)
      BY <3>1, NumberReads
    <3>. HIDE DEF t
    <3>4. more \in Texts /\ NextOf(more) \in EnumStops /\ WordThen(c, t) = <<c>> \o more
      BY <1>3, <3>1, SepText, WordThenSep
    <3>5. Blank(On(more, 0, D1)) = On(t, 0, D1)
      BY <3>1, BlankReads DEF Sep
    <3>. HIDE DEF more
    <3>6. s = On(<<c>> \o more, err, D)
      BY <1>1, <3>2, <3>4
    <3>7. e = On(more, 0, D1)
      BY <1>3, <3>4, <3>6, EnumReads, SMTT(40) DEF D1
    <3>. HIDE DEF e, D2
    <3>8. e.dest = D1
      BY <3>7 DEF On, State
    <3>9. b = On(t, 0, D1)
      BY <3>5, <3>7
    <3>. HIDE DEF b
    <3>10. e.dest.type \in {"goto", "exec"}
      BY <1>2, <2>1, <3>8 DEF Jumps
    <3>. QED  BY <3>3, <3>9, <3>10
  <2>2. CASE c \notin Jumps
    <3>1. s = On(<<c>> \o rest, err, D)
      BY <1>1, <2>2 DEF GotoThen
    <3>2. NextOf(rest) \in EnumStops
      BY StopsEnum
    <3>3. e = On(rest, 0, D1)
      BY <1>3, <3>1, <3>2, EnumReads DEF D1
    <3>. HIDE DEF e
    <3>4. e.dest = D1
      BY <3>3 DEF On, State
    <3>5. e.dest.type \notin {"goto", "exec"} /\ n = "0"
      BY <1>2, <2>2, <3>4 DEF Jumps, NextFits
    <3>6. r = Write(e, "line", n)
      BY <3>5
    <3>. QED  BY <3>3, <3>6, Writes
  <2>. QED  BY <2>1, <2>2
<1>5. IsDest(D2) /\ D2["type"] = c /\ D2["line"] = n /\ Agrees(D2, w)
  <2>. HIDE DEF D1
  <2>. QED  BY <1>2, PutDest DEF Agrees, Fields, RuleFields
<1>. HIDE DEF r, D2
<1>6. r.ok = TRUE /\ r.dest = D2 /\ s.ok = TRUE
  BY <1>1, <1>4 DEF On, State
<1>7. <<r.dest.type, r.dest.line>> = v
  BY <1>5, <1>6 DEF NextFits
<1>8. Goto(s) = Write(r, "next", v)
  BY <1>a, <1>6, <1>7
<1>9. Goto(s) = On(rest, 0, Placed(D2, "next", v))
  BY <1>4, <1>8, Writes
<1>. QED  BY <1>5, <1>9, PutAgrees, FieldWords DEF At

\* The end of the text, with or without a space before it.
EndThen(end) == IF end THEN Sep(<<>>) ELSE <<>>

LEMMA EndText == ASSUME NEW end \in BOOLEAN
                 PROVE  EndThen(end) \in Texts /\ NextOf(EndThen(end)) \in WordStops
<1>1. <<>> \in Texts
  BY DEF Texts
<1>2. NextOf(<<>>) \in WordStops
  BY DEF NextOf, WordStops
<1>. QED  BY <1>1, <1>2, SepText DEF EndThen

LEMMA FinishReads ==
  ASSUME NEW end \in BOOLEAN, NEW w, NEW s, At(s, EndThen(end), w)
  PROVE  At(Finish(s), <<>>, w)
<1> DEFINE b == Blank(s)
           o == Optional(b, s)
<1>0. <<>> \in Texts /\ Finish(s) = AtEnd(o)
  BY DEF Texts, Finish
<1>1. At(o, <<>>, w)
  <2>1. CASE end = TRUE
    <3>1. At(b, <<>>, w)
      BY <1>0, <2>1, AtPieces DEF EndThen, Sep
    <3>. HIDE DEF b
    <3>. QED  BY <3>1, AtGathers
  <2>2. CASE end = FALSE
    <3>1. At(s, <<>>, w)
      BY <2>2 DEF EndThen
    <3>2. Off(b, w)
      <4>1. PICK err, D : s = On(<<>>, err, D) /\ Agrees(D, w)
        BY <3>1 DEF At
      <4>2. Here(s) = End /\ s.ok = TRUE /\ s.dest = D
        BY <1>0, <4>1, HereIs DEF NextOf, On, State
      <4>3. End # Sp
        BY DEF End, Sp
      <4>4. Fails(b, D)
        BY <4>2, <4>3 DEF Blank, Take, Reject, State, Fails
      <4>. QED  BY <4>1, <4>4 DEF Off
    <3>. HIDE DEF b
    <3>. QED  BY <3>1, <3>2, OffGivesUp
  <2>. QED  BY <2>1, <2>2
<1>. HIDE DEF o
<1>2. PICK err, D : o = On(<<>>, err, D) /\ Agrees(D, w)
  BY <1>1 DEF At
<1>3. AtEnd(o) = On(<<>>, 0, D)
  BY <1>2 DEF AtEnd, Accept, On, State
<1>. QED  BY <1>0, <1>2, <1>3 DEF At

-----------------------------------------------------------------------------
(* A whole rule.                                                            *)

\* A way to write a rule: the rule; the words of its hosts; whether the condition, the mode and the
\* task are written or left out; and whether a space comes last.
Spells(sp) ==
  LET r == sp.rule IN
  /\ IsRule(r)
  /\ r["pos"] \in DOMAIN Numbers /\ r["proto"] \in Protos.names
  /\ HostsSaid(r, sp.from, sp.to)
  /\ IF sp.when THEN NamedFits(r["condition"], Conditions) ELSE r["condition"] = Blanks.condition
  /\ IF sp.do THEN r["mode"] \in DoModes.names /\ NamedFits(r["task"], Tasks)
     ELSE r["mode"] = Blanks.mode /\ r["task"] = Blanks.task
  /\ NextFits(r["next"])
  /\ sp.when \in BOOLEAN /\ sp.do \in BOOLEAN /\ sp.end \in BOOLEAN

\* The text, from each of its parts on.
TextNext(sp) == GotoThen(sp.rule["next"], EndThen(sp.end))
TextDo(sp)   == IF sp.do THEN WordThen(sp.rule["mode"], NamedThen(sp.rule["task"], TextNext(sp)))
                ELSE TextNext(sp)
TextWhen(sp) == IF sp.when THEN WordThen("when", NamedThen(sp.rule["condition"], TextDo(sp)))
                ELSE TextDo(sp)
TextHosts(sp) == HostsThen(sp.rule, sp.from, sp.to, TextWhen(sp))
RuleText(sp) ==
  WordThen(sp.rule["pos"], WordThen("on", WordThen(sp.rule["proto"], TextHosts(sp))))

\* No keyword of a part begins another one.
LEMMA PartsApart ==
  /\ Gotos.names \cap DoModes.names = {}
  /\ {"when", "port"} \cap (Gotos.names \cup DoModes.names) = {} /\ "when" # "port"
BY DEF Gotos, DoModes, Table

LEMMA SpelledTexts ==
  ASSUME NEW sp, Spells(sp)
  PROVE  /\ TextNext(sp) \in Texts /\ NextOf(TextNext(sp)) \in Gotos.names
         /\ TextDo(sp) \in Texts
         /\ NextOf(TextDo(sp)) \in Gotos.names \cup DoModes.names
         /\ ~sp.do => TextDo(sp) = TextNext(sp)
         /\ TextWhen(sp) \in Texts /\ NoPort(TextWhen(sp))
         /\ ~sp.when => TextWhen(sp) = TextDo(sp)
<1> DEFINE r == sp.rule
           m == r["mode"]
           t == r["task"]
           c == r["condition"]
           v == r["next"]
<1>1. TextNext(sp) \in Texts /\ NextOf(TextNext(sp)) \in Gotos.names
  <2>1. EndThen(sp.end) \in Texts /\ NextFits(v)
    BY EndText DEF Spells
  <2> DEFINE e == EndThen(sp.end)
  <2>2. TextNext(sp) = GotoThen(v, e)
    BY DEF TextNext
  <2>. HIDE DEF e, v
  <2>3. GotoThen(v, e) \in Texts /\ NextOf(GotoThen(v, e)) = v[1]
    BY <2>1, GotoText DEF e
  <2>4. v[1] \in Gotos.names
    BY <2>1 DEF NextFits
  <2>. QED  BY <2>2, <2>3, <2>4
<1>2. /\ TextDo(sp) \in Texts /\ NextOf(TextDo(sp)) \in Gotos.names \cup DoModes.names
      /\ ~sp.do => TextDo(sp) = TextNext(sp)
  <2>1. CASE ~sp.do
    BY <1>1, <2>1 DEF TextDo
  <2>2. CASE sp.do
    <3> DEFINE more == NamedThen(t, TextNext(sp))
    <3>1. NamedFits(t, Tasks) /\ m \in DoModes.names /\ m \in Lexemes
      BY <2>2, ArgsWords DEF Spells
    <3>2. more \in Texts
      <4>. HIDE DEF t
      <4>. QED  BY <1>1, <3>1, NamedText
    <3>3. TextDo(sp) = WordThen(m, more)
      BY <2>2 DEF TextDo
    <3>. HIDE DEF more, m
    <3>. QED  BY <2>2, <3>1, <3>2, <3>3, WordThenSep
  <2>. QED  BY <2>1, <2>2
<1>3. TextWhen(sp) \in Texts /\ NoPort(TextWhen(sp)) /\ (~sp.when => TextWhen(sp) = TextDo(sp))
  <2>1. CASE ~sp.when
    <3>1. TextWhen(sp) = TextDo(sp)
      BY <2>1 DEF TextWhen
    <3>2. NextOf(TextDo(sp)) # "port"
      BY <1>2, PartsApart
    <3>. QED  BY <1>2, <3>1, <3>2 DEF NoPort
  <2>2. CASE sp.when
    <3> DEFINE more == NamedThen(c, TextDo(sp))
    <3>1. NamedFits(c, Conditions) /\ "when" \in Lexemes
      BY <2>2, ArgsWords DEF Spells
    <3>2. more \in Texts
      <4>. HIDE DEF c
      <4>. QED  BY <1>2, <3>1, NamedText
    <3>3. TextWhen(sp) = WordThen("when", more)
      BY <2>2 DEF TextWhen
    <3>. HIDE DEF more
    <3>4. TextWhen(sp) \in Texts /\ NextOf(TextWhen(sp)) = "when"
      BY <3>1, <3>2, <3>3, WordThenSep
    <3>5. NextOf(TextWhen(sp)) # "port"
      BY <3>4, PartsApart
    <3>. QED  BY <2>2, <3>4, <3>5 DEF NoPort
  <2>. QED  BY <2>1, <2>2
<1>. QED  BY <1>1, <1>2, <1>3

\* The text of the hosts, and of the whole rule.
LEMMA HostsText ==
  ASSUME NEW r, NEW from, NEW to, HostsSaid(r, from, to), NEW rest \in Texts
  PROVE  HostsThen(r, from, to, rest) \in Texts
<1> DEFINE more == HostThen("to", to, rest)
<1>0. "with" \in Lexemes /\ "talk-with" \in Lexemes /\ "from" \in Lexemes /\ "to" \in Lexemes
      /\ "connect" \in Lexemes /\ "close" \in Lexemes
  BY HostWords
<1>1. CASE r.direction = "any" /\ HostSays(from.name, from.port, r.from)
  <2>1. HostThen("with", from, rest) \in Texts
    BY <1>0, <1>1, HostThenText
  <2>. QED  BY <1>1, <2>1 DEF HostsThen
<1>2. CASE r.direction \in {"connecting", "closing"} /\ HostSays(to.name, to.port, r.to)
  <2>1. more \in Texts
    BY <1>0, <1>2, HostThenText
  <2>. HIDE DEF more
  <2>2. WordThen("connect", more) \in Texts /\ WordThen("close", more) \in Texts
    BY <1>0, <2>1, WordThenSep
  <2>3. HostsThen(r, from, to, rest) = WordThen("connect", more)
        \/ HostsThen(r, from, to, rest) = WordThen("close", more)
    BY <1>2 DEF HostsThen, more
  <2>. QED  BY <2>2, <2>3
<1>3. CASE r.direction = "data" /\ HostSays(from.name, from.port, r.from) /\ r.to = Nobody
  <2>1. HostThen("talk-with", from, rest) \in Texts
    BY <1>0, <1>3, HostThenText
  <2>. QED  BY <1>3, <2>1 DEF HostsThen
<1>4. CASE r.direction = "data" /\ HostSays(from.name, from.port, r.from) /\ r.to # Nobody
           /\ HostSays(to.name, to.port, r.to)
  <2>1. more \in Texts
    BY <1>0, <1>4, HostThenText
  <2>. HIDE DEF more
  <2>2. HostThen("from", from, more) \in Texts
    BY <1>0, <1>4, <2>1, HostThenText
  <2>3. HostsThen(r, from, to, rest) = HostThen("from", from, more)
    BY <1>4 DEF HostsThen, more
  <2>. QED  BY <2>2, <2>3
<1>. QED  BY <1>1, <1>2, <1>3, <1>4 DEF HostsSaid

\* The parser begins with nothing written.
LEMMA Begin ==
  /\ IsDest(Blanks)
  /\ LET w == RuleOf(Start(<<>>)) IN
     /\ IsRule(w) /\ \A text : At(Start(text), text, w)
     /\ w["direction"] = "data" /\ w["from"] = Nobody /\ w["to"] = Nobody
     /\ w["condition"] = Blanks.condition /\ w["mode"] = "do" /\ w["task"] = Blanks.task
<1>1. IsDest(Blanks)
  BY DEF IsDest, Blanks, Fields, RuleFields
<1> DEFINE w == RuleOf(Start(<<>>))
<1>2. w = [f \in RuleFields |-> Blanks[f]]
  BY DEF RuleOf, Start, State
<1>3. IsRule(w) /\ \A f \in RuleFields : w[f] = Blanks[f]
  BY <1>2 DEF IsRule
<1>. HIDE DEF w
<1>4. Agrees(Blanks, w)
  BY <1>1, <1>3 DEF Agrees
<1>5. \A text : At(Start(text), text, w)
  BY <1>4 DEF At, Start, On
<1>6. Blanks["direction"] = "data" /\ Blanks["from"] = Nobody /\ Blanks["to"] = Nobody
      /\ Blanks["mode"] = "do"
  BY DEF Blanks
<1>7. w["direction"] = "data" /\ w["from"] = Nobody /\ w["to"] = Nobody
      /\ w["condition"] = Blanks.condition /\ w["mode"] = "do" /\ w["task"] = Blanks.task
  BY <1>3, <1>6, FieldWords, HostWords
<1>. QED  BY <1>1, <1>3, <1>5, <1>7 DEF w

\* After each part, the rule has what was written up to there and what it began with.
Same(u, r, said, w) ==
  /\ IsRule(u) /\ said \subseteq RuleFields
  /\ (\A f \in said : u[f] = r[f]) /\ \A f \in RuleFields \ said : u[f] = w[f]

LEMMA SamePut ==
  ASSUME NEW u, NEW r, NEW said, NEW w, Same(u, r, said, w), NEW d \in RuleFields
  PROVE  Same(Placed(u, d, r[d]), r, said \cup {d}, w)
<1> DEFINE x == Placed(u, d, r[d])
<1>1. IsRule(u)
  BY DEF Same
<1>2. IsRule(x) /\ x[d] = r[d] /\ \A f \in RuleFields \ {d} : x[f] = u[f]
  BY <1>1, PutRule
<1>. HIDE DEF x
<1>3. \A f \in said \cup {d} : x[f] = r[f]
  BY <1>2 DEF Same
<1>. QED  BY <1>2, <1>3 DEF Same, x

LEMMA SameKeeps ==
  ASSUME NEW u, NEW r, NEW said, NEW w, Same(u, r, said, w), NEW d \in RuleFields \ said, r[d] = w[d]
  PROVE  Same(u, r, said \cup {d}, w)
BY DEF Same

\* Where the parser is after each part of the text.
LEMMA WhenPart ==
  ASSUME NEW sp, Spells(sp), NEW s, NEW u, NEW w, NEW said, Same(u, sp.rule, said, w),
         "condition" \notin said, w["condition"] = Blanks.condition, At(s, TextWhen(sp), u)
  PROVE  \E v : Same(v, sp.rule, said \cup {"condition"}, w) /\ At(When(s), TextDo(sp), v)
<1> DEFINE r == sp.rule
           c == r["condition"]
           more == TextDo(sp)
<1>0. IsRule(u) /\ more \in Texts
  BY SpelledTexts DEF Same
<1>1. CASE sp.when
  <2>1. NamedFits(c, Conditions)
    BY <1>1 DEF Spells
  <2>2. TextWhen(sp) = WordThen("when", NamedThen(c, more))
    BY <1>1 DEF TextWhen
  <2>. HIDE DEF more, c
  <2>3. At(When(s), more, Placed(u, "condition", c))
    BY <1>0, <2>1, <2>2, WhenReads
  <2>4. Same(Placed(u, "condition", c), r, said \cup {"condition"}, w)
    BY SamePut, FieldWords DEF c
  <2>. QED  BY <2>3, <2>4 DEF more
<1>2. CASE ~sp.when
  <2>1. TextWhen(sp) = more /\ NextOf(more) # "when"
    BY <1>2, SpelledTexts, PartsApart
  <2>. HIDE DEF more
  <2>2. At(When(s), more, u)
    BY <1>0, <2>1, NoWhen
  <2>3. r["condition"] = w["condition"]
    BY <1>2 DEF Spells
  <2>4. Same(u, r, said \cup {"condition"}, w)
    BY <2>3, SameKeeps, FieldWords
  <2>. QED  BY <2>2, <2>4 DEF more
<1>. QED  BY <1>1, <1>2

LEMMA DoPart ==
  ASSUME NEW sp, Spells(sp), NEW s, NEW u, NEW w, NEW said, Same(u, sp.rule, said, w),
         "mode" \notin said, "task" \notin said, w["mode"] = "do", w["task"] = Blanks.task,
         At(s, TextDo(sp), u)
  PROVE  \E v : Same(v, sp.rule, said \cup {"mode", "task"}, w) /\ At(Do(s), TextNext(sp), v)
<1> DEFINE r == sp.rule
           m == r["mode"]
           t == r["task"]
           more == TextNext(sp)
           both == (said \cup {"mode"}) \cup {"task"}
<1>0. IsRule(u) /\ more \in Texts /\ both = said \cup {"mode", "task"}
  BY SpelledTexts DEF Same
<1>. HIDE DEF both
<1>1. CASE sp.do
  <2>1. NamedFits(t, Tasks) /\ m \in DoModes.names
    BY <1>1 DEF Spells
  <2>2. TextDo(sp) = WordThen(m, NamedThen(t, more))
    BY <1>1 DEF TextDo
  <2> DEFINE v == Placed(u, "mode", m)
             x == Placed(v, "task", t)
  <2>. HIDE DEF more
  <2>3. Same(v, r, said \cup {"mode"}, w)
    BY SamePut, FieldWords
  <2>4. Same(x, r, both, w)
    <3>. HIDE DEF v
    <3>. QED  BY <2>3, SamePut, FieldWords DEF both
  <2>. HIDE DEF m, t
  <2>5. At(Do(s), more, x)
    BY <1>0, <2>1, <2>2, DoReads
  <2>. QED  BY <1>0, <2>4, <2>5 DEF more
<1>2. CASE ~sp.do
  <2>1. TextDo(sp) = more /\ NextOf(more) \notin DoModes.names
    BY <1>2, SpelledTexts, PartsApart
  <2>. HIDE DEF more
  <2>2. u["mode"] = "do"
    BY FieldWords DEF Same
  <2>3. At(Do(s), more, u)
    BY <1>0, <2>1, <2>2, NoDo
  <2>4. r["mode"] = w["mode"] /\ r["task"] = w["task"]
    BY <1>2 DEF Spells, Blanks
  <2>5. Same(u, r, said \cup {"mode"}, w)
    BY <2>4, SameKeeps, FieldWords
  <2>6. Same(u, r, both, w)
    BY <2>4, <2>5, SameKeeps, FieldWords DEF both
  <2>. QED  BY <1>0, <2>3, <2>6 DEF more
<1>. QED  BY <1>1, <1>2

\* The line, the hosts and what comes next.
LEMMA FirstParts ==
  ASSUME NEW sp, Spells(sp), NEW s, NEW w, IsRule(w), w["direction"] = "data", w["from"] = Nobody,
         w["to"] = Nobody, At(s, RuleText(sp), w)
  PROVE  \E v : /\ Same(v, sp.rule, {"pos", "proto", "direction", "from", "to"}, w)
                /\ At(Hosts(Line(s)), TextWhen(sp), v)
<1> DEFINE r == sp.rule
           a == Placed(w, "pos", r["pos"])
           b == Placed(a, "proto", r["proto"])
           more == TextHosts(sp)
           l == Line(s)
<1>0. HostsSaid(r, sp.from, sp.to) /\ NoPort(TextWhen(sp)) /\ TextWhen(sp) \in Texts
      /\ r["pos"] \in DOMAIN Numbers /\ r["proto"] \in Protos.names
  BY SpelledTexts DEF Spells
<1>1. more \in Texts
  BY <1>0, HostsText DEF TextHosts
<1>2. At(s, WordThen(r["pos"], WordThen("on", WordThen(r["proto"], more))), w)
  BY DEF RuleText
<1>. HIDE DEF more
<1>3. At(l, more, b)
  BY <1>0, <1>1, <1>2, LineReads
<1>. HIDE DEF l
<1>4. IsRule(a) /\ a["pos"] = r["pos"] /\ \A f \in RuleFields \ {"pos"} : a[f] = w[f]
  BY PutRule, FieldWords
<1>. HIDE DEF a
<1>5. IsRule(b) /\ b["proto"] = r["proto"] /\ \A f \in RuleFields \ {"proto"} : b[f] = a[f]
  BY <1>4, PutRule, FieldWords
<1>. HIDE DEF b
<1>6. b["direction"] = "data" /\ b["from"] = Nobody /\ b["to"] = Nobody
      /\ b["pos"] = r["pos"] /\ \A f \in RuleFields \ {"pos", "proto"} : b[f] = w[f]
  BY <1>4, <1>5, FieldWords, HostWords
<1>7. At(l, HostsThen(r, sp.from, sp.to, TextWhen(sp)), b)
  BY <1>3 DEF more, TextHosts
<1>8. PICK v : HostsTold(v, b, r) /\ At(Hosts(l), TextWhen(sp), v)
  BY <1>0, <1>5, <1>6, <1>7, HostsRead
<1>9. /\ IsRule(v) /\ v["direction"] = r["direction"] /\ v["from"] = r["from"] /\ v["to"] = r["to"]
      /\ \A f \in RuleFields \ {"direction", "from", "to"} : v[f] = b[f]
  BY <1>8 DEF HostsTold
<1>10. Same(v, r, {"pos", "proto", "direction", "from", "to"}, w)
  BY <1>5, <1>6, <1>9, FieldWords, HostWords DEF Same
<1>. QED  BY <1>8, <1>10 DEF l

\* Every rule that is well written is accepted, and is the one that is written: no alternative or
\* optional part that is tried and given up on the way leaves anything behind (parser.c).
THEOREM SpelledParsed ==
  ASSUME NEW sp, Spells(sp)
  PROVE  LET p == Parse(RuleText(sp)) IN p.ok = TRUE /\ p.err = 0 /\ p.rule = sp.rule
<1> DEFINE text == RuleText(sp)
           s == Start(text)
           r == sp.rule
           w == RuleOf(Start(<<>>))
           h == Hosts(Line(s))
           c == When(h)
           d == Do(c)
           g == Goto(d)
           f == Finish(g)
<1>1. IsRule(w) /\ At(s, text, w) /\ w["direction"] = "data" /\ w["from"] = Nobody /\ w["to"] = Nobody
      /\ w["condition"] = Blanks.condition /\ w["mode"] = "do" /\ w["task"] = Blanks.task
  BY Begin
<1>. HIDE DEF w, text
<1> DEFINE said == {"pos", "proto", "direction", "from", "to"}
<1>2. PICK u : Same(u, r, said, w) /\ At(h, TextWhen(sp), u)
  BY <1>1, FirstParts DEF text
<1>. HIDE DEF h
<1>3. PICK v : Same(v, r, said \cup {"condition"}, w) /\ At(c, TextDo(sp), v)
  BY <1>1, <1>2, WhenPart
<1>. HIDE DEF c
<1> DEFINE said2 == said \cup {"condition"}
<1>4. "mode" \notin said2 /\ "task" \notin said2
  OBVIOUS
<1>. HIDE DEF said2
<1>5. PICK x : Same(x, r, said2 \cup {"mode", "task"}, w) /\ At(d, TextNext(sp), x)
  BY <1>1, <1>3, <1>4, DoPart DEF said2
<1>. HIDE DEF d
<1> DEFINE y == Placed(x, "next", r["next"])
           said3 == said2 \cup {"mode", "task"}
<1>6. At(g, EndThen(sp.end), y)
  <2>1. NextFits(r["next"]) /\ EndThen(sp.end) \in Texts /\ NextOf(EndThen(sp.end)) \in WordStops
    BY EndText DEF Spells
  <2>2. At(d, GotoThen(r["next"], EndThen(sp.end)), x) /\ IsRule(x)
    BY <1>5 DEF TextNext, Same
  <2>. QED  BY <2>1, <2>2, GotoReads
<1>7. Same(y, r, said3 \cup {"next"}, w)
  <2>. HIDE DEF said3
  <2>. QED  BY <1>5, SamePut, FieldWords DEF said3
<1>. HIDE DEF g, y
<1>8. At(f, <<>>, y)
  BY <1>6, FinishReads DEF Spells
<1>9. y = r
  <2>1. RuleFields = said3 \cup {"next"}
    BY DEF RuleFields, said3, said2
  <2>2. IsRule(y) /\ IsRule(r) /\ \A e \in RuleFields : y[e] = r[e]
    BY <1>7, <2>1 DEF Same, Spells
  <2>. QED  BY <2>2 DEF IsRule
<1>. HIDE DEF f
<1>10. PICK err, D : f = On(<<>>, err, D) /\ Agrees(D, r)
  BY <1>8, <1>9 DEF At
<1> DEFINE q == Suite(f, s)
<1>11. q = On(<<>>, 0, D)
  <2>1. s = On(text, 0, Blanks)
    BY DEF Start, On
  <2>2. Suite(On(<<>>, err, D), On(text, 0, Blanks)) = On(<<>>, 0, D)
    BY Gathers
  <2>. HIDE DEF s
  <2>. QED  BY <1>10, <2>1, <2>2
<1>. HIDE DEF s, r
<1>12. Parse(text) = [ok |-> q.ok, err |-> IF q.err = 0 THEN 0 ELSE Len(text) + 2 - q.err,
                      rule |-> RuleOf(q)]
  BY DEF Parse, Answer, q, f, g, d, c, h, s
<1>. HIDE DEF q
<1>13. q.ok = TRUE /\ q.err = 0 /\ q.dest = D
  BY <1>11 DEF On, State
<1>14. RuleOf(q) = r
  <2>1. RuleOf(q) = [e \in RuleFields |-> D[e]]
    BY <1>13 DEF RuleOf
  <2>2. \A e \in RuleFields : D[e] = r[e]
    BY <1>10 DEF Agrees
  <2>3. r = [e \in RuleFields |-> r[e]]
    BY DEF r, Spells, IsRule
  <2>. QED  BY <2>1, <2>2, <2>3
<1>. QED  BY <1>12, <1>13, <1>14 DEF text, r

-----------------------------------------------------------------------------
(* Whatever the text, the state of the parser stays well formed: what is    *)
(* left is at most the whole, and a state that failed says where.           *)

Sane(s, max) ==
  /\ s.left \in Texts /\ Len(s.left) <= max /\ max \in Nat
  /\ s.ok \in BOOLEAN /\ s.err \in 0 .. max + 1 /\ (s.err = 0 => s.ok)
  /\ IsDest(s.dest)

LEMMA SaneState ==
  ASSUME NEW left \in Texts, NEW max \in Nat, Len(left) <= max, NEW ok \in BOOLEAN,
         NEW err \in 0 .. max + 1, err = 0 => ok, NEW dest, IsDest(dest)
  PROVE  Sane(State(left, ok, err, dest), max)
BY DEF Sane, State

LEMMA SaneParts ==
  ASSUME NEW s, NEW max, Sane(s, max)
  PROVE  /\ s.left \in Texts /\ Len(s.left) \in Nat /\ Len(s.left) <= max /\ max \in Nat
         /\ Len(s.left) + 1 \in 1 .. max + 1
         /\ s.ok \in BOOLEAN /\ s.err \in 0 .. max + 1 /\ (s.err = 0 => s.ok) /\ IsDest(s.dest)
<1>1. Len(s.left) \in Nat
  BY LenProperties DEF Sane, Texts
<1>. QED  BY <1>1 DEF Sane

LEMMA SaneWrite ==
  ASSUME NEW s, NEW max, Sane(s, max), NEW d \in Fields, NEW v
  PROVE  Sane(Write(s, d, v), max)
<1>1. IsDest([s.dest EXCEPT ![d] = v])
  BY PutDest, SaneParts DEF Placed
<1>. QED  BY <1>1, SaneParts, SaneState DEF Write

LEMMA SaneRejects ==
  ASSUME NEW s, NEW max, Sane(s, max)
  PROVE  Sane(Reject(s), max) /\ Sane(RejectAs(s), max)
<1>1. Sane(RejectAs(s), max)
  <2> DEFINE e == Len(s.left) + 1
  <2>1. e \in 0 .. max + 1 /\ e # 0
    BY SaneParts
  <2>. HIDE DEF e
  <2>2. Sane(State(s.left, FALSE, e, s.dest), max)
    BY <2>1, SaneParts, SaneState
  <2>. QED  BY <2>2 DEF RejectAs, e
<1>2. Sane(Reject(s), max)
  <2> DEFINE e == IF s.err = 0 THEN Len(s.left) + 1 ELSE s.err
  <2>1. e \in 0 .. max + 1 /\ e # 0
    BY SaneParts
  <2>. HIDE DEF e
  <2>2. Sane(State(s.left, FALSE, e, s.dest), max)
    BY <2>1, SaneParts, SaneState
  <2>. QED  BY <2>2 DEF Reject, e
<1>. QED  BY <1>1, <1>2

LEMMA SaneAccept ==
  ASSUME NEW s, NEW max, Sane(s, max), NEW rest \in Texts, Len(rest) <= max
  PROVE  Sane(Accept(s, rest), max)
<1>1. max \in Nat /\ IsDest(s.dest)
  BY SaneParts
<1>2. 0 \in 0 .. max + 1
  BY <1>1
<1>3. Sane(State(rest, TRUE, 0, s.dest), max)
  BY <1>1, <1>2, SaneState
<1>. QED  BY <1>3 DEF Accept

LEMMA SaneBack ==
  ASSUME NEW s, NEW max, Sane(s, max), NEW r, Sane(r, max)
  PROVE  Sane(Back(r, s), max) /\ (s.ok => Sane(Retry(r, s), max) /\ Retry(r, s).ok)
<1>1. Sane(Back(r, s), max)
  BY SaneParts, SaneState DEF Back
<1>2. ASSUME s.ok PROVE Sane(Retry(r, s), max) /\ Retry(r, s).ok
  <2>1. s.ok = TRUE
    BY <1>2, SaneParts
  <2>2. Sane(State(s.left, TRUE, r.err, r.dest), max)
    BY SaneParts, SaneState
  <2>. QED  BY <2>1, <2>2 DEF Retry, State
<1>. QED  BY <1>1, <1>2

LEMMA SaneGathers ==
  ASSUME NEW s, NEW max, Sane(s, max), NEW r, Sane(r, max)
  PROVE  Sane(Suite(r, s), max) /\ Sane(Optional(r, s), max)
<1>0. r.left \in Texts /\ Len(r.left) <= max
  BY SaneParts
<1>1. Sane(Suite(r, s), max)
  <2>1. Sane(Accept(r, r.left), max)
    BY <1>0, SaneAccept
  <2>2. Sane(Back(r, s), max)
    BY SaneBack
  <2>3. Sane(Reject(Back(r, s)), max)
    BY <2>2, SaneRejects
  <2>. QED  BY <2>1, <2>3 DEF Suite
<1> DEFINE q == Suite(r, s)
<1>. HIDE DEF q
<1>2. Sane(Accept(q, q.left), max)
  BY <1>1, SaneParts, SaneAccept DEF q
<1>3. Sane(Optional(r, s), max)
  BY <1>2 DEF Optional, q
<1>. QED  BY <1>1, <1>3

LEMMA SaneFirst ==
  ASSUME NEW s, NEW max, Sane(s, max), NEW a, NEW b, s.ok => Sane(a, max) /\ Sane(b, max)
  PROVE  Sane(First(a, b, s), max)
<1>1. CASE ~s.ok
  BY <1>1 DEF First
<1>2. CASE s.ok
  <2>1. Sane(Accept(a, a.left), max) /\ Sane(Accept(b, b.left), max)
    BY <1>2, SaneParts, SaneAccept
  <2>2. Sane(Back(b, s), max)
    BY <1>2, SaneBack
  <2>3. Sane(RejectAs(Back(b, s)), max)
    BY <2>2, SaneRejects
  <2>. QED  BY <1>2, <2>1, <2>3 DEF First
<1>. QED  BY <1>1, <1>2

\* A state takes one lexeme.
LEMMA HereThere ==
  ASSUME NEW s, NEW max, Sane(s, max)
  PROVE  /\ Here(s) = NextOf(s.left)
         /\ Here(s) # End => /\ s.left # <<>> /\ Here(s) \in Lexemes /\ Tail(s.left) \in Texts
                             /\ Len(Tail(s.left)) <= max
                             /\ s.left = <<Here(s)>> \o Tail(s.left)
                             /\ Then(s) = NextOf(Tail(s.left))
<1>1. Here(s) = NextOf(s.left) /\ s.left \in Texts /\ Len(s.left) <= max /\ max \in Nat
  BY SaneParts DEF Here, NextOf
<1>2. ASSUME Here(s) # End
      PROVE  /\ s.left # <<>> /\ Here(s) \in Lexemes /\ Tail(s.left) \in Texts
             /\ Len(Tail(s.left)) <= max
             /\ s.left = <<Here(s)>> \o Tail(s.left)
             /\ Then(s) = NextOf(Tail(s.left))
  <2> DEFINE text == s.left
  <2>1. text # <<>> /\ text \in Texts /\ Here(s) = Head(text)
    BY <1>1, <1>2 DEF Here
  <2>a. Then(s) = IF Len(text) < 2 THEN End ELSE text[2]
    BY DEF Then
  <2>. HIDE DEF text
  <2>2. Head(text) \in Lexemes /\ Tail(text) \in Texts /\ text = <<Head(text)>> \o Tail(text)
    BY <2>1, Cut
  <2>3. Len(Tail(text)) = Len(text) - 1 /\ Len(text) \in Nat
    BY <2>1, HeadTailProperties, LenProperties DEF Texts
  <2> DEFINE c == Head(text)
             rest == Tail(text)
  <2>. HIDE DEF c, rest
  <2>4. (IF Len(<<c>> \o rest) < 2 THEN End ELSE (<<c>> \o rest)[2]) = NextOf(rest)
    BY <2>2, Lexeme DEF c, rest
  <2>5. Then(s) = NextOf(rest)
    BY <2>2, <2>4, <2>a DEF c, rest
  <2>6. Len(rest) <= max
    BY <1>1, <2>3 DEF rest, text
  <2>. QED  BY <2>1, <2>2, <2>5, <2>6 DEF text, c, rest
<1>. QED  BY <1>1, <1>2

LEMMA SaneTake ==
  ASSUME NEW s, NEW max, Sane(s, max), NEW fits, fits => Here(s) # End
  PROVE  Sane(Take(s, fits), max)
<1>1. fits => Sane(Accept(s, Tail(s.left)), max)
  BY HereThere, SaneAccept
<1>2. Sane(Reject(s), max)
  BY SaneRejects
<1>. QED  BY <1>1, <1>2 DEF Take

-----------------------------------------------------------------------------
(* What a piece accepted was there to read.                                 *)

LEMMA EndNever == End \notin DOMAIN Numbers /\ End # Sp
<1>1. End \notin DOMAIN Numbers
  BY GrammarAssumption DEF WordStops
<1>. QED  BY <1>1 DEF End, Sp

LEMMA TakeCame ==
  ASSUME NEW s, NEW max, Sane(s, max), NEW fits, fits => Here(s) # End, Take(s, fits).ok
  PROVE  /\ s.ok /\ fits /\ s.left = <<Here(s)>> \o Take(s, fits).left
         /\ Then(s) = NextOf(Take(s, fits).left) /\ Take(s, fits).dest = s.dest
         /\ Here(s) \in Lexemes /\ Take(s, fits).left \in Texts
<1>1. s.ok /\ fits
  BY DEF Take, Reject, State
<1>2. Take(s, fits) = Accept(s, Tail(s.left))
  BY <1>1 DEF Take
<1>3. Take(s, fits).left = Tail(s.left) /\ Take(s, fits).dest = s.dest
  BY <1>2 DEF Accept, State
<1>4. s.left = <<Here(s)>> \o Tail(s.left) /\ Then(s) = NextOf(Tail(s.left)) /\ Here(s) \in Lexemes
      /\ Tail(s.left) \in Texts
  BY <1>1, HereThere
<1>. QED  BY <1>1, <1>3, <1>4

LEMMA BlankCame ==
  ASSUME NEW s, NEW max, Sane(s, max)
  PROVE  /\ Sane(Blank(s), max)
         /\ Blank(s).ok => s.ok /\ s.left = Sep(Blank(s).left) /\ Blank(s).dest = s.dest
<1> DEFINE fits == Here(s) = Sp
           r == Take(s, fits)
<1>0. Blank(s) = r /\ (fits => Here(s) # End)
  BY EndNever DEF Blank
<1>. HIDE DEF fits
<1>1. Sane(r, max)
  BY <1>0, SaneTake
<1>2. r.ok => s.ok /\ fits /\ s.left = <<Here(s)>> \o r.left /\ r.dest = s.dest
  BY <1>0, TakeCame
<1>. HIDE DEF r
<1>3. r.ok => s.ok /\ s.left = Sep(r.left) /\ r.dest = s.dest
  BY <1>2 DEF Sep, fits
<1>. QED  BY <1>0, <1>1, <1>3

LEMMA ConstCame ==
  ASSUME NEW s, NEW max, Sane(s, max), NEW c, c # End
  PROVE  LET r == Const(c, s) IN
         /\ Sane(r, max)
         /\ r.ok => /\ s.ok /\ s.left = <<c>> \o r.left /\ NextOf(r.left) \in WordStops
                    /\ r.dest = s.dest
<1> DEFINE fits == Here(s) = c /\ Then(s) \in WordStops
           r == Take(s, fits)
<1>0. Const(c, s) = r /\ (fits => Here(s) # End)
  BY DEF Const
<1>. HIDE DEF fits
<1>1. Sane(r, max)
  BY <1>0, SaneTake
<1>2. r.ok => /\ s.ok /\ fits /\ s.left = <<Here(s)>> \o r.left /\ Then(s) = NextOf(r.left)
              /\ r.dest = s.dest
  BY <1>0, TakeCame
<1>. HIDE DEF r
<1>3. r.ok => s.ok /\ s.left = <<c>> \o r.left /\ NextOf(r.left) \in WordStops /\ r.dest = s.dest
  BY <1>2 DEF fits
<1>. QED  BY <1>0, <1>1, <1>3

\* What is there does not change with what is written.
LEMMA WriteParts ==
  ASSUME NEW s, NEW d, NEW v
  PROVE  LET x == Write(s, d, v) IN
         /\ x.left = s.left /\ x.ok = s.ok /\ x.err = s.err /\ x.dest = Placed(s.dest, d, v)
         /\ Here(x) = Here(s) /\ Then(x) = Then(s)
BY DEF Write, State, Here, Then, Placed

LEMMA NumberCame ==
  ASSUME NEW s, NEW max, Sane(s, max), NEW d \in Fields
  PROVE  LET r == Number(d, s) IN
         /\ Sane(r, max)
         /\ r.ok => /\ s.ok /\ Here(s) \in DOMAIN Numbers /\ s.left = <<Here(s)>> \o r.left
                    /\ r.dest = Placed(s.dest, d, Here(s))
<1>1. CASE s.ok /\ Here(s) \in DOMAIN Numbers
  <2> DEFINE x == Write(s, d, Here(s))
             r == Take(x, TRUE)
  <2>1. Number(d, s) = r
    BY <1>1 DEF Number
  <2>2. Sane(x, max) /\ Here(x) = Here(s) /\ Here(x) # End /\ x.left = s.left
        /\ x.dest = Placed(s.dest, d, Here(s))
    BY <1>1, SaneWrite, WriteParts, EndNever
  <2>. HIDE DEF x
  <2>3. Sane(r, max)
    BY <2>2, SaneTake
  <2>4. r.ok => x.left = <<Here(x)>> \o r.left /\ r.dest = x.dest
    BY <2>2, TakeCame
  <2>. HIDE DEF r
  <2>. QED  BY <1>1, <2>1, <2>2, <2>3, <2>4
<1>2. CASE ~(s.ok /\ Here(s) \in DOMAIN Numbers)
  <2> DEFINE r == Take(s, FALSE)
  <2>1. Number(d, s) = r
    BY <1>2 DEF Number
  <2>2. Sane(r, max)
    BY SaneTake
  <2>3. ~r.ok
    BY SaneParts DEF Take, Reject, State
  <2>. QED  BY <2>1, <2>2, <2>3
<1>. QED  BY <1>1, <1>2

LEMMA PercentCame ==
  ASSUME NEW s, NEW max, Sane(s, max), NEW d \in Fields
  PROVE  LET r == Percent(d, s) IN
         /\ Sane(r, max)
         /\ r.ok => /\ s.ok /\ Here(s) \in DOMAIN Numbers /\ Numbers[Here(s)] <= 100
                    /\ s.left = <<Here(s)>> \o r.left /\ r.dest = Placed(s.dest, d, Here(s))
<1> DEFINE x == Number(d, s)
           big == s.ok /\ x.ok /\ Numbers[Here(s)] > 100
<1>1. /\ Sane(x, max)
      /\ x.ok => /\ s.ok /\ Here(s) \in DOMAIN Numbers /\ s.left = <<Here(s)>> \o x.left
                 /\ x.dest = Placed(s.dest, d, Here(s))
  BY NumberCame
<1>2. Percent(d, s) = IF big THEN Reject(Back(x, s)) ELSE x
  BY DEF Percent
<1>. HIDE DEF x
<1>3. Sane(Reject(Back(x, s)), max)
  BY <1>1, SaneBack, SaneRejects
<1>4. ~Reject(Back(x, s)).ok
  BY DEF Reject, State
<1>5. ~big /\ x.ok => Numbers[Here(s)] <= 100
  BY <1>1, GrammarAssumption
<1>. HIDE DEF big
<1>. QED  BY <1>1, <1>2, <1>3, <1>4, <1>5

LEMMA EnumCame ==
  ASSUME NEW s, NEW max, Sane(s, max), NEW d \in Fields, NEW t, End \notin t.names
  PROVE  LET r == Enum(d, t, s) IN
         /\ Sane(r, max)
         /\ r.ok => /\ s.ok /\ Here(s) \in t.names /\ s.left = <<Here(s)>> \o r.left
                    /\ r.dest = Placed(s.dest, d, Here(s))
         /\ s.ok /\ ~r.ok => r.dest = Placed(s.dest, d, t.default) /\ ~Begins(s.left, t)
<1>0. Here(s) = NextOf(s.left)
  BY HereThere
<1>1. CASE ~s.ok
  <2>1. Enum(d, t, s) = s
    BY <1>1 DEF Enum
  <2>. QED  BY <1>1, <2>1
<1>2. CASE s.ok /\ Here(s) \in t.names /\ Then(s) \in EnumStops
  <2> DEFINE x == Write(s, d, Here(s))
             r == Take(x, TRUE)
  <2>1. Enum(d, t, s) = r
    BY <1>2 DEF Enum
  <2>2. Sane(x, max) /\ Here(x) = Here(s) /\ Here(x) # End /\ x.left = s.left /\ x.ok = s.ok
        /\ x.dest = Placed(s.dest, d, Here(s))
    <3>1. Here(s) # End
      BY <1>2
    <3>2. Sane(x, max)
      BY SaneWrite
    <3>3. Here(x) = Here(s) /\ x.left = s.left /\ x.ok = s.ok /\ x.dest = Placed(s.dest, d, Here(s))
      BY WriteParts
    <3>. QED  BY <3>1, <3>2, <3>3
  <2>. HIDE DEF x
  <2>3. Sane(r, max)
    BY <2>2, SaneTake
  <2>4. r.ok => x.left = <<Here(x)>> \o r.left /\ r.dest = x.dest
    BY <2>2, TakeCame
  <2>5. r.ok
    BY <1>2, <2>2 DEF Take, Accept, State
  <2>. HIDE DEF r
  <2>. QED  BY <1>2, <2>1, <2>2, <2>3, <2>4, <2>5
<1>3. CASE s.ok /\ ~(Here(s) \in t.names /\ Then(s) \in EnumStops)
  <2> DEFINE x == Write(s, d, t.default)
             r == RejectAs(x)
  <2>1. Enum(d, t, s) = r
    BY <1>3 DEF Enum
  <2>2. Sane(x, max) /\ x.dest = Placed(s.dest, d, t.default)
    BY SaneWrite, WriteParts
  <2>. HIDE DEF x
  <2>3. Sane(r, max)
    BY <2>2, SaneRejects
  <2>4. ~r.ok /\ r.dest = x.dest
    BY DEF RejectAs, State
  <2>5. ~Begins(s.left, t)
    BY <1>0, <1>3 DEF Begins, Then
  <2>. HIDE DEF r
  <2>. QED  BY <2>1, <2>2, <2>3, <2>4, <2>5
<1>. QED  BY <1>1, <1>2, <1>3

\* A word w was read.
ReadWord(s, r, d) ==
  \E w : IsWord(w) /\ s.left = w \o r.left /\ NextOf(r.left) \in WordStops /\ r.dest = Placed(s.dest, d, w)

LEMMA WordCame ==
  ASSUME NEW s, NEW max, Sane(s, max), NEW d \in Fields
  PROVE  LET r == Word(d, s) IN
         Sane(r, max) /\ (r.ok => s.ok /\ ReadWord(s, r, d))
<1> DEFINE n == WordLen(s.left)
           text == s.left
<1>0. text \in Texts /\ Len(text) <= max
  BY SaneParts
<1>1. CASE ~s.ok
  <2>1. Word(d, s) = s
    BY <1>1 DEF Word
  <2>. QED  BY <1>1, <2>1
<1>2. CASE s.ok /\ n = 0
  <2> DEFINE x == Write(s, d, <<>>)
  <2>1. Word(d, s) = Reject(x)
    BY <1>2 DEF Word
  <2>2. Sane(x, max)
    BY SaneWrite
  <2>. HIDE DEF x
  <2>3. Sane(Reject(x), max) /\ ~Reject(x).ok
    BY <2>2, SaneRejects DEF Reject, State
  <2>. QED  BY <2>1, <2>3
<1>3. CASE s.ok /\ n # 0
  <2> DEFINE w == SubSeq(text, 1, n)
             rest == SubSeq(text, n + 1, Len(text))
             x == Write(s, d, w)
             r == Accept(x, rest)
  <2>1. Word(d, s) = r
    BY <1>3 DEF Word
  <2>2. IsWord(w) /\ rest \in Texts /\ NextOf(rest) \in WordStops /\ text = w \o rest
    BY <1>0, <1>3, WordCut
  <2>. HIDE DEF w, rest
  <2>3. Len(rest) <= max
    <3>1. w \in Texts /\ Len(w) \in Nat /\ Len(rest) \in Nat
      BY <2>2, LenProperties DEF IsWord, Texts
    <3>2. Len(text) = Len(w) + Len(rest)
      BY <2>2, <3>1, ConcatProperties DEF Texts
    <3>3. max \in Nat
      BY SaneParts
    <3>. QED  BY <1>0, <3>1, <3>2, <3>3
  <2>4. Sane(x, max) /\ x.dest = Placed(s.dest, d, w)
    BY SaneWrite, WriteParts
  <2>. HIDE DEF x
  <2>5. Sane(r, max)
    BY <2>2, <2>3, <2>4, SaneAccept
  <2>6. r.left = rest /\ r.dest = x.dest
    BY DEF Accept, State
  <2>. HIDE DEF r
  <2>7. ReadWord(s, r, d)
    BY <2>2, <2>4, <2>6 DEF ReadWord
  <2>. QED  BY <1>3, <2>1, <2>5, <2>7
<1>. QED  BY <1>1, <1>2, <1>3

\* What the pieces leave of what was written, whether they fail or not.
LEMMA DestOf ==
  ASSUME NEW s, NEW d, NEW c
  PROVE  /\ Blank(s).dest = s.dest /\ Const(c, s).dest = s.dest
         /\ Number(d, s).dest \in {s.dest, Placed(s.dest, d, Here(s))}
         /\ \E v : Word(d, s).dest \in {s.dest, Placed(s.dest, d, v)}
<1>1. Blank(s).dest = s.dest /\ Const(c, s).dest = s.dest
  BY DEF Blank, Const, Take, Accept, Reject, State
<1>2. Number(d, s).dest \in {s.dest, Placed(s.dest, d, Here(s))}
  BY DEF Number, Take, Accept, Reject, State, Write, Placed
<1>3. \E v : Word(d, s).dest \in {s.dest, Placed(s.dest, d, v)}
  <2> DEFINE w == SubSeq(s.left, 1, WordLen(s.left))
             rest == SubSeq(s.left, WordLen(s.left) + 1, Len(s.left))
  <2>1. Word(d, s) = IF ~s.ok THEN s ELSE IF WordLen(s.left) = 0 THEN Reject(Write(s, d, <<>>))
                     ELSE Accept(Write(s, d, w), rest)
    BY DEF Word
  <2>. HIDE DEF w, rest
  <2>2. Reject(Write(s, d, <<>>)).dest = Placed(s.dest, d, <<>>)
    BY DEF Reject, Write, State, Placed
  <2>3. Accept(Write(s, d, w), rest).dest = Placed(s.dest, d, w)
    BY DEF Accept, Write, State, Placed
  <2>. QED  BY <2>1, <2>2, <2>3
<1>. QED  BY <1>1, <1>2, <1>3

LEMMA GathersDest ==
  ASSUME NEW r, NEW s, NEW a, NEW b
  PROVE  /\ Suite(r, s).dest = r.dest /\ Optional(r, s).dest \in {s.dest, r.dest}
         /\ First(a, b, s).dest \in {s.dest, a.dest, b.dest}
         /\ Retry(r, s).dest = r.dest
BY DEF Suite, Optional, First, Retry, Accept, Reject, RejectAs, Back, State

LEMMA GathersCame ==
  ASSUME NEW r, NEW s, NEW a, NEW b
  PROVE  /\ Suite(r, s).ok => r.ok /\ Suite(r, s).left = r.left /\ Suite(r, s).err = 0
         /\ Optional(r, s).ok => s.ok /\ Optional(r, s).left = IF r.ok THEN r.left ELSE s.left
         /\ First(a, b, s).ok =>
              /\ s.ok
              /\ \/ a.ok /\ First(a, b, s).left = a.left /\ First(a, b, s).dest = a.dest
                 \/ ~a.ok /\ b.ok /\ First(a, b, s).left = b.left /\ First(a, b, s).dest = b.dest
         /\ Retry(r, s).ok = s.ok /\ Retry(r, s).left = s.left /\ Retry(r, s).dest = r.dest
BY DEF Suite, Optional, First, Retry, Accept, Reject, RejectAs, Back, State

\* The name n of a host was read.
NameHeard(D, n) ==
  /\ IsWord(n)
  /\ \/ n[1] \in Specials.names /\ n = <<n[1]>> /\ D["type"] = n[1]
     \/ /\ D["type"] = "address" /\ D["name"] = n
        /\ ~(n[1] \in Specials.names /\ (Len(n) = 1 \/ n[2] \in EnumStops))

LEMMA NameCame ==
  ASSUME NEW s, NEW max, Sane(s, max)
  PROVE  LET r == HostName(s) IN
         /\ Sane(r, max)
         /\ r.ok => /\ s.ok
                    /\ NextOf(r.left) \in WordStops =>
                         \E n : NameHeard(r.dest, n) /\ s.left = n \o r.left
<1> DEFINE a == Enum("type", Specials, s)
           x == Retry(a, s)
           b == Word("name", x)
           r == First(a, b, s)
           c == Here(s)
<1>0. End \notin Specials.names /\ Specials.default = "address"
  BY SpecialsWords DEF WordStops
<1>1. /\ Sane(a, max)
      /\ a.ok => /\ s.ok /\ c \in Specials.names /\ s.left = <<c>> \o a.left
                 /\ a.dest = Placed(s.dest, "type", c)
      /\ s.ok /\ ~a.ok => a.dest = Placed(s.dest, "type", "address") /\ ~Begins(s.left, Specials)
  BY <1>0, EnumCame, FieldNames
<1>a. s.left \in Texts /\ IsDest(s.dest) /\ HostName(s) = r
  BY SaneParts DEF HostName
<1>. HIDE DEF a
<1>2. (s.ok => Sane(x, max)) /\ x.left = s.left /\ x.ok = s.ok /\ x.dest = a.dest
  <2>1. s.ok => Sane(x, max)
    BY <1>1, SaneBack
  <2>2. x.left = s.left /\ x.ok = s.ok /\ x.dest = a.dest
    BY DEF Retry, State
  <2>. QED  BY <2>1, <2>2
<1>. HIDE DEF x
<1>3. s.ok => Sane(b, max) /\ (b.ok => ReadWord(x, b, "name"))
  BY <1>2, WordCame, FieldNames
<1>. HIDE DEF b
<1>4. Sane(r, max)
  BY <1>1, <1>3, SaneFirst
<1>5. r.ok => /\ s.ok
              /\ \/ a.ok /\ r.left = a.left /\ r.dest = a.dest
                 \/ ~a.ok /\ b.ok /\ r.left = b.left /\ r.dest = b.dest
  BY GathersCame
<1>. HIDE DEF r
<1>6. ASSUME r.ok, a.ok, r.left = a.left, r.dest = a.dest
      PROVE  \E n : NameHeard(r.dest, n) /\ s.left = n \o r.left
  <2>1. c \in Specials.names /\ c \in Lexemes \ WordStops
    BY <1>1, <1>6, SpecialsWords
  <2>2. IsWord(<<c>>) /\ <<c>>[1] = c
    BY <2>1, OneWord
  <2>3. r.dest["type"] = c
    BY <1>1, <1>6, <1>a, PutDest, FieldNames
  <2>. QED  BY <1>1, <1>6, <2>1, <2>2, <2>3 DEF NameHeard
<1>7. ASSUME r.ok, s.ok, ~a.ok, b.ok, r.left = b.left, r.dest = b.dest
      PROVE  \E n : NameHeard(r.dest, n) /\ s.left = n \o r.left
  <2>1. PICK w : IsWord(w) /\ s.left = w \o r.left /\ NextOf(r.left) \in WordStops
                 /\ r.dest = Placed(x.dest, "name", w)
    BY <1>2, <1>3, <1>7 DEF ReadWord
  <2>2. r.left \in Texts
    BY <1>4, SaneParts
  <2> DEFINE text == s.left
  <2>3. /\ NextOf(text) = w[1] /\ text \in Texts
        /\ (IF Len(text) < 2 THEN End ELSE text[2]) = IF Len(w) = 1 THEN NextOf(r.left) ELSE w[2]
    BY <2>1, <2>2, WordInText DEF NextOf
  <2>4. NextOf(r.left) \in EnumStops
    BY <2>1, StopsEnum
  <2>. HIDE DEF text
  <2>5. ~Begins(text, Specials)
    BY <1>1, <1>7 DEF text
  <2>6. ~(w[1] \in Specials.names /\ (Len(w) = 1 \/ w[2] \in EnumStops))
    BY <2>3, <2>4, <2>5 DEF Begins
  <2>7. x.dest = Placed(s.dest, "type", "address")
    BY <1>1, <1>2, <1>7
  <2>8. IsDest(x.dest) /\ x.dest["type"] = "address"
    BY <1>a, <2>7, PutDest, FieldNames
  <2>9. r.dest["name"] = w /\ r.dest["type"] = "address"
    <3> DEFINE D == x.dest
    <3>1. IsDest(D) /\ D["type"] = "address" /\ r.dest = Placed(D, "name", w)
      BY <2>1, <2>8
    <3>. HIDE DEF D
    <3>2. Placed(D, "name", w)["name"] = w /\ \A f \in Fields \ {"name"} : Placed(D, "name", w)[f] = D[f]
      BY <3>1, PutDest, FieldNames
    <3>3. "type" \in Fields \ {"name"}
      BY FieldNames
    <3>. QED  BY <3>1, <3>2, <3>3
  <2>. QED  BY <2>1, <2>6, <2>9 DEF NameHeard
<1>. QED  BY <1>a, <1>4, <1>5, <1>6, <1>7

\* The words p of a port were read; the name is still there.
Keeps(D, dest) == D["type"] = dest["type"] /\ D["name"] = dest["name"]
PortHeard(D, p) ==
  \/ p = <<p[1]>> /\ p[1] \in DOMAIN Numbers
  \/ IsWord(p) /\ p[1] \notin DOMAIN Numbers /\ D["service"] = p

LEMMA KeepsPut ==
  ASSUME NEW dest, IsDest(dest), NEW d \in {"port", "service"}, NEW v
  PROVE  Keeps(Placed(dest, d, v), dest) /\ Placed(dest, d, v)[d] = v /\ d \in Fields
<1>1. d \in Fields /\ "type" \in Fields \ {d} /\ "name" \in Fields \ {d}
  BY DEF Fields
<1>. QED  BY <1>1, PutDest DEF Keeps

LEMMA PortNumberCame ==
  ASSUME NEW s, NEW max, Sane(s, max)
  PROVE  LET r == PortNumber(s) IN
         /\ Sane(r, max) /\ Keeps(r.dest, s.dest)
         /\ r.ok => /\ s.ok
                    /\ NextOf(r.left) \in WordStops =>
                         \E p : PortHeard(r.dest, p) /\ s.left = p \o r.left
<1> DEFINE a == Number("port", s)
           x == Retry(a, s)
           b == Word("service", x)
           r == First(a, b, s)
           c == Here(s)
<1>1. /\ Sane(a, max)
      /\ a.ok => s.ok /\ c \in DOMAIN Numbers /\ s.left = <<c>> \o a.left
  BY NumberCame, FieldNames
<1>a. s.left \in Texts /\ IsDest(s.dest) /\ PortNumber(s) = r /\ c = NextOf(s.left)
  BY SaneParts, HereThere DEF PortNumber
<1>b. s.ok /\ ~a.ok => c \notin DOMAIN Numbers
  BY DEF Number, Take, Accept, Write, State
<1>c. Keeps(a.dest, s.dest)
  <2>1. a.dest \in {s.dest, Placed(s.dest, "port", c)}
    BY DestOf
  <2>. QED  BY <1>a, <2>1, KeepsPut DEF Keeps
<1>. HIDE DEF a
<1>2. (s.ok => Sane(x, max)) /\ x.left = s.left /\ x.ok = s.ok /\ x.dest = a.dest
  <2>1. s.ok => Sane(x, max)
    BY <1>1, SaneBack
  <2>2. x.left = s.left /\ x.ok = s.ok /\ x.dest = a.dest
    BY DEF Retry, State
  <2>. QED  BY <2>1, <2>2
<1>. HIDE DEF x
<1>3. s.ok => Sane(b, max) /\ (b.ok => ReadWord(x, b, "service"))
  BY <1>2, WordCame, FieldNames
<1>d. Keeps(b.dest, s.dest)
  <2>1. PICK v : b.dest \in {x.dest, Placed(x.dest, "service", v)}
    BY DestOf
  <2>2. Keeps(Placed(x.dest, "service", v), x.dest)
    BY <1>1, <1>2, SaneParts, KeepsPut
  <2>. QED  BY <1>2, <1>c, <2>1, <2>2 DEF Keeps
<1>. HIDE DEF b
<1>4. Sane(r, max)
  BY <1>1, <1>3, SaneFirst
<1>5. r.ok => /\ s.ok
              /\ \/ a.ok /\ r.left = a.left /\ r.dest = a.dest
                 \/ ~a.ok /\ b.ok /\ r.left = b.left /\ r.dest = b.dest
  BY GathersCame
<1>e. Keeps(r.dest, s.dest)
  <2>1. r.dest \in {s.dest, a.dest, b.dest}
    BY GathersDest
  <2>. QED  BY <1>c, <1>d, <2>1 DEF Keeps
<1>. HIDE DEF r
<1>6. ASSUME r.ok, a.ok, r.left = a.left
      PROVE  \E p : PortHeard(r.dest, p) /\ s.left = p \o r.left
  <2>1. PortHeard(r.dest, <<c>>) /\ s.left = <<c>> \o r.left
    BY <1>1, <1>6 DEF PortHeard
  <2>. QED  BY <2>1
<1>7. ASSUME r.ok, s.ok, ~a.ok, b.ok, r.left = b.left, r.dest = b.dest
      PROVE  \E p : PortHeard(r.dest, p) /\ s.left = p \o r.left
  <2>1. PICK w : IsWord(w) /\ s.left = w \o r.left /\ r.dest = Placed(x.dest, "service", w)
    BY <1>2, <1>3, <1>7 DEF ReadWord
  <2>2. r.left \in Texts /\ IsDest(x.dest)
    BY <1>1, <1>2, <1>4, SaneParts
  <2>3. c = w[1]
    BY <1>a, <2>1, <2>2, WordInText DEF NextOf
  <2>4. r.dest["service"] = w
    BY <2>1, <2>2, KeepsPut
  <2>. QED  BY <1>b, <1>7, <2>1, <2>3, <2>4 DEF PortHeard
<1>. QED  BY <1>a, <1>e, <1>4, <1>5, <1>6, <1>7

\* A port or nothing was read.
PortCame(text, p, rest) ==
  text = IF p = <<>> THEN rest ELSE <<Sp>> \o (<<"port">> \o (<<Sp>> \o (p \o rest)))

LEMMA HostPortCame ==
  ASSUME NEW s, NEW max, Sane(s, max)
  PROVE  LET r == HostPort(s) IN
         /\ Sane(r, max) /\ Keeps(r.dest, s.dest)
         /\ r.ok => /\ s.ok
                    /\ NextOf(r.left) \in WordStops =>
                         \E p : (p = <<>> \/ (p # <<>> /\ PortHeard(r.dest, p))) /\ PortCame(s.left, p, r.left)
<1> DEFINE a == Blank(s)
           b == Const("port", a)
           c == Blank(b)
           n == PortNumber(c)
           r == Optional(n, s)
<1>0. HostPort(s) = r
  BY DEF HostPort
<1>1. Sane(a, max) /\ (a.ok => s.left = Sep(a.left)) /\ a.dest = s.dest
  BY BlankCame, DestOf
<1>. HIDE DEF a
<1>2. Sane(b, max) /\ (b.ok => a.ok /\ a.left = <<"port">> \o b.left) /\ b.dest = a.dest
  <2>1. "port" # End
    BY DEF End
  <2>. QED  BY <1>1, <2>1, ConstCame, DestOf, ZenonT(60)
<1>. HIDE DEF b
<1>3. Sane(c, max) /\ (c.ok => b.ok /\ b.left = Sep(c.left)) /\ c.dest = b.dest
  BY <1>2, BlankCame, DestOf
<1>. HIDE DEF c
<1>4. /\ Sane(n, max) /\ Keeps(n.dest, c.dest)
      /\ n.ok => /\ c.ok
                 /\ NextOf(n.left) \in WordStops => \E p : PortHeard(n.dest, p) /\ c.left = p \o n.left
  BY <1>3, PortNumberCame
<1>. HIDE DEF n
<1>5. Sane(r, max) /\ Keeps(r.dest, s.dest)
  <2>1. Sane(r, max)
    BY <1>4, SaneGathers
  <2>2. r.dest \in {s.dest, n.dest}
    BY GathersDest
  <2>. QED  BY <1>1, <1>2, <1>3, <1>4, <2>1, <2>2 DEF Keeps
<1>6. r.ok => s.ok /\ r.left = IF n.ok THEN n.left ELSE s.left
  BY GathersCame
<1>7. s.ok => r.dest = n.dest
  BY DEF Optional, Suite, Accept, Reject, Back, State
<1>. HIDE DEF r
<1>8. ASSUME r.ok, ~n.ok PROVE \E p : p = <<>> /\ PortCame(s.left, p, r.left)
  BY <1>6, <1>8 DEF PortCame
<1>9. ASSUME r.ok, n.ok, NextOf(r.left) \in WordStops
      PROVE  \E p : p # <<>> /\ PortHeard(r.dest, p) /\ PortCame(s.left, p, r.left)
  <2>1. PICK p : PortHeard(r.dest, p) /\ c.left = p \o r.left
    BY <1>4, <1>6, <1>7, <1>9
  <2>2. p # <<>>
    <3>1. p = <<p[1]>> => p # <<>>
      OBVIOUS
    <3>. QED  BY <2>1, <3>1 DEF PortHeard, IsWord
  <2>3. s.left = <<Sp>> \o (<<"port">> \o (<<Sp>> \o (p \o r.left)))
    <3>1. s.left = Sep(a.left) /\ a.left = <<"port">> \o b.left /\ b.left = Sep(c.left)
      BY <1>1, <1>2, <1>3, <1>4, <1>9
    <3>. QED  BY <2>1, <3>1 DEF Sep
  <2>. QED  BY <2>1, <2>2, <2>3 DEF PortCame
<1>. QED  BY <1>0, <1>5, <1>6, <1>8, <1>9

\* Some host is said by the words before rest.
HostCameBy(text, kw, rest) ==
  \E x, h : HostSays(x.name, x.port, h) /\ text = HostText(kw, x.name, x.port) \o rest

LEMMA HostReadCame ==
  ASSUME NEW s, NEW max, Sane(s, max), NEW d \in RuleFields, NEW kw \in Lexemes \ {End}
  PROVE  LET r == HostRead(d, kw, s) IN
         /\ Sane(r, max)
         /\ r.ok /\ NextOf(r.left) \in WordStops =>
              \E n, p, left :
                /\ s.left = WordThen(kw, n \o left)
                /\ NameHeard(r.dest, n) /\ (p = <<>> \/ (p # <<>> /\ PortHeard(r.dest, p)))
                /\ PortCame(left, p, r.left) /\ left \in Texts
<1> DEFINE blank == Write(Write(Write(s, "type", s.dest[d].type), "port", "any"), "service", <<>>)
           a == Const(kw, blank)
           b == Blank(a)
           n == HostName(b)
           q == HostPort(n)
           r == Suite(q, s)
<1>0. HostRead(d, kw, s) = r
  BY DEF HostRead
<1>1. Sane(blank, max) /\ blank.left = s.left
  <2> DEFINE w1 == Write(s, "type", s.dest[d].type)
             w2 == Write(w1, "port", "any")
  <2>1. Sane(w1, max) /\ w1.left = s.left
    BY SaneWrite, FieldNames, WriteParts
  <2>. HIDE DEF w1
  <2>2. Sane(w2, max) /\ w2.left = s.left
    BY <2>1, SaneWrite, FieldNames, WriteParts
  <2>. HIDE DEF w2
  <2>3. Sane(Write(w2, "service", <<>>), max) /\ Write(w2, "service", <<>>).left = s.left
    BY <2>2, SaneWrite, FieldNames, WriteParts
  <2>. QED  BY <2>3 DEF w1, w2
<1>. HIDE DEF blank
<1>2. Sane(a, max) /\ (a.ok => s.left = <<kw>> \o a.left)
  BY <1>1, ConstCame
<1>. HIDE DEF a
<1>3. Sane(b, max) /\ (b.ok => a.ok /\ a.left = Sep(b.left))
  BY <1>2, BlankCame
<1>. HIDE DEF b
<1>4. /\ Sane(n, max)
      /\ n.ok => b.ok /\ (NextOf(n.left) \in WordStops => \E m : NameHeard(n.dest, m) /\ b.left = m \o n.left)
  BY <1>3, NameCame
<1>. HIDE DEF n
<1>5. /\ Sane(q, max) /\ Keeps(q.dest, n.dest)
      /\ q.ok => /\ n.ok
                 /\ NextOf(q.left) \in WordStops =>
                      \E p : (p = <<>> \/ (p # <<>> /\ PortHeard(q.dest, p))) /\ PortCame(n.left, p, q.left)
  BY <1>4, HostPortCame
<1>. HIDE DEF q
<1>6. Sane(r, max) /\ r.dest = q.dest /\ (r.ok => q.ok /\ r.left = q.left)
  <2>1. Sane(r, max)
    BY <1>5, SaneGathers
  <2>2. r.dest = q.dest /\ (r.ok => q.ok /\ r.left = q.left)
    BY DEF Suite, Accept, Reject, Back, State
  <2>. QED  BY <2>1, <2>2
<1>. HIDE DEF r
<1>7. ASSUME r.ok, NextOf(r.left) \in WordStops
      PROVE  \E m, p, left :
                /\ s.left = WordThen(kw, m \o left)
                /\ NameHeard(r.dest, m) /\ (p = <<>> \/ (p # <<>> /\ PortHeard(r.dest, p)))
                /\ PortCame(left, p, r.left) /\ left \in Texts
  <2>1. PICK p : (p = <<>> \/ (p # <<>> /\ PortHeard(q.dest, p))) /\ PortCame(n.left, p, q.left)
    BY <1>5, <1>6, <1>7
  <2>2. NextOf(n.left) \in WordStops
    <3>1. CASE p = <<>>
      BY <1>6, <1>7, <2>1, <3>1 DEF PortCame
    <3>2. CASE p # <<>>
      <4>1. n.left \in Texts /\ n.left # <<>> /\ Head(n.left) = Sp
        <5> DEFINE t == <<"port">> \o (<<Sp>> \o (p \o q.left))
        <5>1. n.left = <<Sp>> \o t
          BY <2>1, <3>2 DEF PortCame
        <5>. HIDE DEF t
        <5>2. n.left \in Texts
          BY <1>4, SaneParts
        <5>. QED  BY <5>1, <5>2
      <4>2. NextOf(n.left) = Sp
        BY <4>1 DEF NextOf
      <4>. QED  BY <4>2 DEF WordStops
    <3>. QED  BY <3>1, <3>2
  <2>3. PICK m : NameHeard(n.dest, m) /\ b.left = m \o n.left
    BY <1>4, <1>5, <1>6, <1>7, <2>2
  <2>4. s.left = WordThen(kw, m \o n.left)
    <3>1. s.left = <<kw>> \o a.left /\ a.left = Sep(b.left)
      BY <1>2, <1>3, <1>4, <1>5, <1>6, <1>7
    <3>. QED  BY <2>3, <3>1 DEF WordThen, Sep
  <2>5. NameHeard(r.dest, m)
    BY <1>5, <1>6, <2>3 DEF NameHeard, Keeps
  <2>6. n.left \in Texts
    BY <1>4, SaneParts
  <2>. QED  BY <1>6, <1>7, <2>1, <2>4, <2>5, <2>6
<1>. QED  BY <1>0, <1>6, <1>7

\* The words of a host and of its port say the host that is made of them.
LEMMA HostFromWords ==
  ASSUME NEW D, NEW n, NameHeard(D, n), NEW p, p = <<>> \/ (p # <<>> /\ PortHeard(D, p)),
         D["type"] = "address" => D["name"] \in DOMAIN Addresses,
         D["service"] # <<>> => D["service"] \in DOMAIN Services
  PROVE  \E h : HostSays(n, p, h)
<1> DEFINE type == IF D["type"] = "address" THEN "address" ELSE n[1]
           addr == IF D["type"] = "address" THEN Addresses[n] ELSE "0"
           port == IF p = <<>> THEN "any" ELSE IF p[1] \in DOMAIN Numbers THEN p[1] ELSE Services[p]
           h    == [type |-> type, addr |-> addr, port |-> port]
<1>1. h = [type |-> h.type, addr |-> h.addr, port |-> h.port]
      /\ h.type = type /\ h.addr = addr /\ h.port = port
  OBVIOUS
<1>2. NameSays(n, h)
  <2>1. CASE D["type"] = "address"
    BY <1>1, <2>1, SpecialsWords DEF NameHeard, NameSays
  <2>2. CASE D["type"] # "address"
    BY <1>1, <2>2, SpecialsWords DEF NameHeard, NameSays
  <2>. QED  BY <2>1, <2>2
<1>3. PortSays(p, h)
  <2>1. CASE p = <<>>
    BY <1>1, <2>1 DEF PortSays
  <2>2. CASE p # <<>> /\ p = <<p[1]>> /\ p[1] \in DOMAIN Numbers
    BY <1>1, <2>2 DEF PortSays
  <2>3. CASE p # <<>> /\ IsWord(p) /\ p[1] \notin DOMAIN Numbers /\ D["service"] = p
    BY <1>1, <2>3 DEF PortSays
  <2>. QED  BY <2>1, <2>2, <2>3 DEF PortHeard
<1>. HIDE DEF h
<1>. QED  BY <1>1, <1>2, <1>3 DEF HostSays

\* The text of a host, from its parts.
LEMMA HostTextCame ==
  ASSUME NEW n, NEW p, NEW h, HostSays(n, p, h), NEW kw \in Lexemes, NEW rest \in Texts,
         NextOf(rest) \in WordStops, NEW left, PortCame(left, p, rest)
  PROVE  WordThen(kw, n \o left) = HostText(kw, n, p) \o rest
<1>1. HostText(kw, n, p) \o rest = WordThen(kw, n \o (PortText(p) \o rest))
  BY HostTexts
<1>2. left = PortText(p) \o rest
  <2>1. CASE p = <<>>
    BY <2>1, ConcatEmptySeq DEF PortText, PortCame, Texts
  <2>2. CASE p # <<>>
    <3>1. PortText(p) \o rest = <<Sp>> \o (<<"port">> \o (<<Sp>> \o (p \o rest)))
      BY <2>2, PortTexts DEF HostSays
    <3>. QED  BY <2>2, <3>1 DEF PortCame
  <2>. QED  BY <2>1, <2>2
<1>. QED  BY <1>1, <1>2

LEMMA HostCame ==
  ASSUME NEW s, NEW max, Sane(s, max), NEW d \in RuleFields, NEW kw \in Lexemes \ {End}
  PROVE  LET r == Host(d, kw, s) IN
         /\ Sane(r, max)
         /\ r.ok => s.ok /\ (NextOf(r.left) \in WordStops => HostCameBy(s.left, kw, r.left))
<1> DEFINE r      == HostRead(d, kw, s)
           known  == r.dest.type = "address" => r.dest.name \in DOMAIN Addresses
           serves == r.dest.service # <<>> => r.dest.service \in DOMAIN Services
           host   == [type |-> r.dest.type,
                      addr |-> IF r.ok /\ known /\ r.dest.type = "address" THEN Addresses[r.dest.name]
                               ELSE "0",
                      port |-> IF r.ok /\ serves /\ r.dest.service # <<>> THEN Services[r.dest.service]
                               ELSE r.dest.port]
           bad    == r.ok /\ ~(known /\ serves)
           x      == Write(r, d, host)
           e      == Host(d, kw, s)
<1>1. e = IF ~s.ok THEN s ELSE IF bad THEN Reject(Back(x, s)) ELSE x
  BY DEF Host, HostFound
<1>2. /\ Sane(r, max)
      /\ r.ok /\ NextOf(r.left) \in WordStops =>
              \E n, p, left :
                /\ s.left = WordThen(kw, n \o left)
                /\ NameHeard(r.dest, n) /\ (p = <<>> \/ (p # <<>> /\ PortHeard(r.dest, p)))
                /\ PortCame(left, p, r.left) /\ left \in Texts
  BY HostReadCame
<1>. HIDE DEF r, host, e
<1>3. Sane(x, max) /\ x.left = r.left /\ x.ok = r.ok
  <2>1. d \in Fields
    BY DEF Fields
  <2>. QED  BY <1>2, <2>1, SaneWrite, WriteParts
<1>. HIDE DEF x
<1>4. Sane(Reject(Back(x, s)), max) /\ ~Reject(Back(x, s)).ok
  <2>1. ~Reject(Back(x, s)).ok
    BY DEF Reject, State
  <2>. QED  BY <1>3, <2>1, SaneBack, SaneRejects
<1>5. Sane(e, max)
  BY <1>1, <1>3, <1>4
<1>6. e.ok => s.ok /\ r.ok /\ known /\ serves /\ e.left = r.left
  <2>. HIDE DEF known, serves
  <2>. QED  BY <1>1, <1>3, <1>4
<1>7. ASSUME e.ok, NextOf(e.left) \in WordStops PROVE HostCameBy(s.left, kw, e.left)
  <2>1. PICK n, p, left :
                /\ s.left = WordThen(kw, n \o left)
                /\ NameHeard(r.dest, n) /\ (p = <<>> \/ (p # <<>> /\ PortHeard(r.dest, p)))
                /\ PortCame(left, p, r.left) /\ left \in Texts
    BY <1>2, <1>6, <1>7
  <2>2. PICK h : HostSays(n, p, h)
    <3> DEFINE D == r.dest
    <3>1. (D["type"] = "address" => D["name"] \in DOMAIN Addresses)
          /\ (D["service"] # <<>> => D["service"] \in DOMAIN Services)
      BY <1>6, <1>7
    <3>2. NameHeard(D, n) /\ (p = <<>> \/ (p # <<>> /\ PortHeard(D, p)))
      BY <2>1
    <3>. HIDE DEF D
    <3>. QED  BY <3>1, <3>2, HostFromWords
  <2>3. r.left \in Texts /\ e.left = r.left
    BY <1>2, <1>6, <1>7, SaneParts
  <2>4. s.left = HostText(kw, n, p) \o e.left
    BY <1>7, <2>1, <2>2, <2>3, HostTextCame
  <2> DEFINE y == [name |-> n, port |-> p]
  <2>5. y.name = n /\ y.port = p
    OBVIOUS
  <2>. HIDE DEF y
  <2>. QED  BY <2>2, <2>4, <2>5 DEF HostCameBy
<1>. QED  BY <1>5, <1>6, <1>7 DEF e

-----------------------------------------------------------------------------
(* What the hosts of a rule accepted was there to read.                     *)

LEMMA SaneSuite ==
  ASSUME NEW s, NEW max, Sane(s, max), NEW r, Sane(r, max)
  PROVE  Sane(Suite(r, s), max) /\ (Suite(r, s).ok => r.ok /\ Suite(r, s).left = r.left)
<1>1. Suite(r, s).ok => r.ok /\ Suite(r, s).left = r.left
  BY DEF Suite, Accept, Reject, Back, State
<1>. QED  BY <1>1, SaneGathers

LEMMA SaneSet ==
  ASSUME NEW s, NEW max, Sane(s, max), NEW d \in RuleFields, NEW v
  PROVE  Sane(Set(d, v, s), max) /\ Set(d, v, s).left = s.left /\ Set(d, v, s).ok = s.ok
<1>1. d \in Fields
  BY DEF Fields
<1> DEFINE x == Write(s, d, v)
<1>2. Sane(x, max) /\ x.left = s.left /\ x.ok = s.ok
  BY <1>1, SaneWrite, WriteParts
<1>3. Set(d, v, s) = IF s.ok THEN x ELSE s
  BY DEF Set
<1>. HIDE DEF x
<1>. QED  BY <1>2, <1>3

\* A host and the space after it.
OneHost(text, kw, rest) == \E x, h : HostSays(x.name, x.port, h) /\ text = HostThen(kw, x, rest)

LEMMA HostThenCame ==
  ASSUME NEW s, NEW max, Sane(s, max), NEW d \in RuleFields, NEW kw \in Lexemes, kw # End
  PROVE  LET r == Blank(Host(d, kw, s)) IN
         Sane(r, max) /\ (r.ok => s.ok /\ OneHost(s.left, kw, r.left))
<1> DEFINE a == Host(d, kw, s)
           r == Blank(a)
<1>1. /\ Sane(a, max)
      /\ a.ok => s.ok /\ (NextOf(a.left) \in WordStops => HostCameBy(s.left, kw, a.left))
  BY HostCame
<1>. HIDE DEF a
<1>2. Sane(r, max) /\ (r.ok => a.ok /\ a.left = Sep(r.left))
  BY <1>1, BlankCame
<1>. HIDE DEF r
<1>3. ASSUME r.ok PROVE OneHost(s.left, kw, r.left)
  <2>1. NextOf(a.left) \in WordStops
    BY <1>2, <1>3, SaneParts, SepText
  <2>2. PICK x, h : HostSays(x.name, x.port, h) /\ s.left = HostText(kw, x.name, x.port) \o a.left
    BY <1>1, <1>2, <1>3, <2>1 DEF HostCameBy
  <2>3. s.left = HostThen(kw, x, r.left)
    BY <1>2, <1>3, <2>2 DEF HostThen, Sep
  <2>. QED  BY <2>2, <2>3 DEF OneHost
<1>. QED  BY <1>1, <1>2, <1>3 DEF r, a

LEMMA ConnectCame ==
  ASSUME NEW s, NEW max, Sane(s, max)
  PROVE  Sane(Connect(s), max) /\ (Connect(s).ok => s.ok /\ s.left = WordThen("connect", Connect(s).left))
<1> DEFINE a == Const("connect", s)
           b == Set("direction", "connecting", a)
           c == Blank(b)
           r == Suite(c, s)
<1>0. Connect(s) = r
  BY DEF Connect
<1>1. Sane(a, max) /\ (a.ok => s.ok /\ s.left = <<"connect">> \o a.left)
  <2>1. "connect" # End
    BY DEF End
  <2>. QED  BY <2>1, ConstCame
<1>. HIDE DEF a
<1>2. Sane(b, max) /\ b.left = a.left /\ b.ok = a.ok
  BY <1>1, SaneSet, HostWords
<1>. HIDE DEF b
<1>3. Sane(c, max) /\ (c.ok => b.ok /\ b.left = Sep(c.left))
  BY <1>2, BlankCame
<1>. HIDE DEF c
<1>4. Sane(r, max) /\ (r.ok => c.ok /\ r.left = c.left)
  BY <1>3, SaneSuite
<1>. HIDE DEF r
<1>5. ASSUME r.ok PROVE s.ok /\ s.left = WordThen("connect", r.left)
  <2>1. s.ok /\ s.left = <<"connect">> \o Sep(r.left)
    BY <1>1, <1>2, <1>3, <1>4, <1>5
  <2>. QED  BY <2>1 DEF WordThen, Sep
<1>. QED  BY <1>0, <1>4, <1>5

LEMMA CloseCame ==
  ASSUME NEW s, NEW max, Sane(s, max)
  PROVE  Sane(Close(s), max) /\ (Close(s).ok => s.ok /\ s.left = WordThen("close", Close(s).left))
<1> DEFINE a == Const("close", s)
           b == Set("direction", "closing", a)
           c == Blank(b)
           r == Suite(c, s)
<1>0. Close(s) = r
  BY DEF Close
<1>1. Sane(a, max) /\ (a.ok => s.ok /\ s.left = <<"close">> \o a.left)
  <2>1. "close" # End
    BY DEF End
  <2>. QED  BY <2>1, ConstCame
<1>. HIDE DEF a
<1>2. Sane(b, max) /\ b.left = a.left /\ b.ok = a.ok
  BY <1>1, SaneSet, HostWords
<1>. HIDE DEF b
<1>3. Sane(c, max) /\ (c.ok => b.ok /\ b.left = Sep(c.left))
  BY <1>2, BlankCame
<1>. HIDE DEF c
<1>4. Sane(r, max) /\ (r.ok => c.ok /\ r.left = c.left)
  BY <1>3, SaneSuite
<1>. HIDE DEF r
<1>5. ASSUME r.ok PROVE s.ok /\ s.left = WordThen("close", r.left)
  <2>1. s.ok /\ s.left = <<"close">> \o Sep(r.left)
    BY <1>1, <1>2, <1>3, <1>4, <1>5
  <2>. QED  BY <2>1 DEF WordThen, Sep
<1>. QED  BY <1>0, <1>4, <1>5

LEMMA FromCame ==
  ASSUME NEW s, NEW max, Sane(s, max)
  PROVE  Sane(From(s), max) /\ (From(s).ok => s.ok /\ OneHost(s.left, "from", From(s).left))
<1> DEFINE c == Blank(Host("from", "from", s))
           r == Suite(c, s)
<1>0. From(s) = r
  BY DEF From
<1>1. Sane(c, max) /\ (c.ok => s.ok /\ OneHost(s.left, "from", c.left))
  <2>1. "from" # End
    BY DEF End
  <2>. QED  BY <2>1, HostThenCame, HostWords
<1>. HIDE DEF c
<1>2. Sane(r, max) /\ (r.ok => c.ok /\ r.left = c.left)
  BY <1>1, SaneSuite
<1>. HIDE DEF r
<1>. QED  BY <1>0, <1>1, <1>2

LEMMA TalkWithCame ==
  ASSUME NEW s, NEW max, Sane(s, max)
  PROVE  Sane(TalkWith(s), max) /\ (TalkWith(s).ok => s.ok /\ OneHost(s.left, "talk-with", TalkWith(s).left))
<1> DEFINE c == Blank(Host("from", "talk-with", s))
           r == Suite(c, s)
<1>0. TalkWith(s) = r
  BY DEF TalkWith
<1>1. Sane(c, max) /\ (c.ok => s.ok /\ OneHost(s.left, "talk-with", c.left))
  <2>1. "talk-with" # End
    BY DEF End
  <2>. QED  BY <2>1, HostThenCame, HostWords
<1>. HIDE DEF c
<1>2. Sane(r, max) /\ (r.ok => c.ok /\ r.left = c.left)
  BY <1>1, SaneSuite
<1>. HIDE DEF r
<1>. QED  BY <1>0, <1>1, <1>2

LEMMA WithCame ==
  ASSUME NEW s, NEW max, Sane(s, max)
  PROVE  Sane(With(s), max) /\ (With(s).ok => s.ok /\ OneHost(s.left, "with", With(s).left))
<1> DEFINE c == Blank(Host("from", "with", s))
           b == Set("direction", "any", c)
           r == Suite(b, s)
<1>0. With(s) = r
  BY DEF With
<1>1. Sane(c, max) /\ (c.ok => s.ok /\ OneHost(s.left, "with", c.left))
  <2>1. "with" # End
    BY DEF End
  <2>. QED  BY <2>1, HostThenCame, HostWords
<1>. HIDE DEF c
<1>2. Sane(b, max) /\ b.left = c.left /\ b.ok = c.ok
  BY <1>1, SaneSet, HostWords
<1>. HIDE DEF b
<1>3. Sane(r, max) /\ (r.ok => b.ok /\ r.left = b.left)
  BY <1>2, SaneSuite
<1>. HIDE DEF r
<1>. QED  BY <1>0, <1>1, <1>2, <1>3

\* What is before the host that a rule goes to.
SourceIs(text, rest) ==
  \/ text = WordThen("connect", rest) \/ text = WordThen("close", rest) \/ OneHost(text, "from", rest)

LEMMA SourceCame ==
  ASSUME NEW s, NEW max, Sane(s, max)
  PROVE  Sane(Source(s), max) /\ (Source(s).ok => s.ok /\ SourceIs(s.left, Source(s).left))
<1> DEFINE a == Connect(s)
           x == Retry(a, s)
           b == Close(x)
           y == Retry(b, s)
           c == From(y)
           e == First(b, c, s)
           r == First(a, e, s)
<1>0. Source(s) = r
  BY DEF Source
<1>1. Sane(a, max) /\ (a.ok => s.ok /\ s.left = WordThen("connect", a.left))
  BY ConnectCame
<1>. HIDE DEF a
<1>2. (s.ok => Sane(x, max)) /\ x.left = s.left
  <2>1. x.left = s.left
    BY DEF Retry, State
  <2>. QED  BY <1>1, <2>1, SaneBack
<1>. HIDE DEF x
<1>3. s.ok => Sane(b, max) /\ (b.ok => s.left = WordThen("close", b.left))
  BY <1>2, CloseCame
<1>. HIDE DEF b
<1>4. (s.ok => Sane(y, max)) /\ y.left = s.left
  <2>1. y.left = s.left
    BY DEF Retry, State
  <2>. QED  BY <1>3, <2>1, SaneBack
<1>. HIDE DEF y
<1>5. s.ok => Sane(c, max) /\ (c.ok => OneHost(s.left, "from", c.left))
  BY <1>4, FromCame
<1>. HIDE DEF c
<1>6. Sane(e, max) /\ (e.ok => s.ok /\ ((b.ok /\ e.left = b.left) \/ (c.ok /\ e.left = c.left)))
  <2>1. Sane(e, max)
    BY <1>3, <1>5, SaneFirst
  <2>2. e.ok => s.ok /\ ((b.ok /\ e.left = b.left) \/ (c.ok /\ e.left = c.left))
    BY GathersCame
  <2>. QED  BY <2>1, <2>2
<1>. HIDE DEF e
<1>7. Sane(r, max) /\ (r.ok => s.ok /\ ((a.ok /\ r.left = a.left) \/ (e.ok /\ r.left = e.left)))
  <2>1. Sane(r, max)
    BY <1>1, <1>6, SaneFirst
  <2>2. r.ok => s.ok /\ ((a.ok /\ r.left = a.left) \/ (e.ok /\ r.left = e.left))
    BY GathersCame
  <2>. QED  BY <2>1, <2>2
<1>. HIDE DEF r
<1>8. r.ok => SourceIs(s.left, r.left)
  BY <1>1, <1>3, <1>5, <1>6, <1>7 DEF SourceIs
<1>. QED  BY <1>0, <1>7, <1>8

\* A source, and the host that follows it.
SourceToIs(text, rest) == \E left : SourceIs(text, left) /\ OneHost(left, "to", rest)

LEMMA SourceToCame ==
  ASSUME NEW s, NEW max, Sane(s, max)
  PROVE  Sane(SourceTo(s), max) /\ (SourceTo(s).ok => s.ok /\ SourceToIs(s.left, SourceTo(s).left))
<1> DEFINE a == Source(s)
           c == Blank(Host("to", "to", a))
           r == Suite(c, s)
<1>0. SourceTo(s) = r
  BY DEF SourceTo
<1>1. Sane(a, max) /\ (a.ok => s.ok /\ SourceIs(s.left, a.left))
  BY SourceCame
<1>. HIDE DEF a
<1>2. Sane(c, max) /\ (c.ok => a.ok /\ OneHost(a.left, "to", c.left))
  <2>1. "to" # End
    BY DEF End
  <2>. QED  BY <1>1, <2>1, HostThenCame, HostWords
<1>. HIDE DEF c
<1>3. Sane(r, max) /\ (r.ok => c.ok /\ r.left = c.left)
  BY <1>1, <1>2, SaneSuite
<1>. HIDE DEF r
<1>4. r.ok => SourceToIs(s.left, r.left)
  BY <1>1, <1>2, <1>3 DEF SourceToIs
<1>. QED  BY <1>0, <1>1, <1>2, <1>3, <1>4

\* The hosts of a rule, and what follows them.
HostsAre(text, rest) ==
  OneHost(text, "with", rest) \/ OneHost(text, "talk-with", rest) \/ SourceToIs(text, rest)

LEMMA HostsCame ==
  ASSUME NEW s, NEW max, Sane(s, max)
  PROVE  Sane(Hosts(s), max) /\ (Hosts(s).ok => s.ok /\ HostsAre(s.left, Hosts(s).left))
<1> DEFINE a == With(s)
           x == Retry(a, s)
           b == TalkWith(x)
           y == Retry(b, s)
           c == SourceTo(y)
           e == First(b, c, s)
           r == First(a, e, s)
<1>0. Hosts(s) = r
  BY DEF Hosts
<1>1. Sane(a, max) /\ (a.ok => s.ok /\ OneHost(s.left, "with", a.left))
  BY WithCame
<1>. HIDE DEF a
<1>2. (s.ok => Sane(x, max)) /\ x.left = s.left
  <2>1. x.left = s.left
    BY DEF Retry, State
  <2>. QED  BY <1>1, <2>1, SaneBack
<1>. HIDE DEF x
<1>3. s.ok => Sane(b, max) /\ (b.ok => OneHost(s.left, "talk-with", b.left))
  BY <1>2, TalkWithCame
<1>. HIDE DEF b
<1>4. (s.ok => Sane(y, max)) /\ y.left = s.left
  <2>1. y.left = s.left
    BY DEF Retry, State
  <2>. QED  BY <1>3, <2>1, SaneBack
<1>. HIDE DEF y
<1>5. s.ok => Sane(c, max) /\ (c.ok => SourceToIs(s.left, c.left))
  BY <1>4, SourceToCame
<1>. HIDE DEF c
<1>6. Sane(e, max) /\ (e.ok => s.ok /\ ((b.ok /\ e.left = b.left) \/ (c.ok /\ e.left = c.left)))
  <2>1. Sane(e, max)
    BY <1>3, <1>5, SaneFirst
  <2>2. e.ok => s.ok /\ ((b.ok /\ e.left = b.left) \/ (c.ok /\ e.left = c.left))
    BY GathersCame
  <2>. QED  BY <2>1, <2>2
<1>. HIDE DEF e
<1>7. Sane(r, max) /\ (r.ok => s.ok /\ ((a.ok /\ r.left = a.left) \/ (e.ok /\ r.left = e.left)))
  <2>1. Sane(r, max)
    BY <1>1, <1>6, SaneFirst
  <2>2. r.ok => s.ok /\ ((a.ok /\ r.left = a.left) \/ (e.ok /\ r.left = e.left))
    BY GathersCame
  <2>. QED  BY <2>1, <2>2
<1>. HIDE DEF r
<1>8. r.ok => HostsAre(s.left, r.left)
  BY <1>1, <1>3, <1>5, <1>6, <1>7 DEF HostsAre
<1>. QED  BY <1>0, <1>7, <1>8

\* A host that a text says is somebody.
LEMMA SaidHost == ASSUME NEW x, NEW h, HostSays(x.name, x.port, h) PROVE h # Nobody
<1>1. h.type \in Specials.names \/ h.type = "address"
  BY DEF HostSays, NameSays
<1>2. Nobody.type = "none" /\ "none" \notin Specials.names /\ "none" # "address"
  BY DEF Nobody, Specials, Table
<1>. QED  BY <1>1, <1>2

\* The text of hosts says the hosts of a rule.
HostsOf(text, rest, q) ==
  \E from, to : HostsSaid(q, from, to) /\ text = HostsThen(q, from, to, rest)
Ends(direction, from, to) == [direction |-> direction, from |-> from, to |-> to]

LEMMA EndsParts ==
  ASSUME NEW d, NEW f, NEW t
  PROVE  Ends(d, f, t).direction = d /\ Ends(d, f, t).from = f /\ Ends(d, f, t).to = t
BY DEF Ends

LEMMA HostsSpelled ==
  ASSUME NEW text, NEW rest, HostsAre(text, rest)
  PROVE  \E d, f, t : HostsOf(text, rest, Ends(d, f, t))
<1>1. CASE OneHost(text, "with", rest)
  <2>1. PICK x, h : HostSays(x.name, x.port, h) /\ text = HostThen("with", x, rest)
    BY <1>1 DEF OneHost
  <2> DEFINE q == Ends("any", h, Nobody)
  <2>2. q.direction = "any" /\ q.from = h /\ q.to = Nobody
    BY EndsParts
  <2>. HIDE DEF q
  <2>3. HostsSaid(q, x, x) /\ text = HostsThen(q, x, x, rest)
    BY <2>1, <2>2 DEF HostsSaid, HostsThen
  <2>. QED  BY <2>3 DEF HostsOf, q
<1>2. CASE OneHost(text, "talk-with", rest)
  <2>1. PICK x, h : HostSays(x.name, x.port, h) /\ text = HostThen("talk-with", x, rest)
    BY <1>2 DEF OneHost
  <2> DEFINE q == Ends("data", h, Nobody)
  <2>2. q.direction = "data" /\ q.from = h /\ q.to = Nobody
    BY EndsParts
  <2>. HIDE DEF q
  <2>3. HostsSaid(q, x, x) /\ text = HostsThen(q, x, x, rest)
    BY <2>1, <2>2 DEF HostsSaid, HostsThen
  <2>. QED  BY <2>3 DEF HostsOf, q
<1>3. CASE SourceToIs(text, rest)
  <2>1. PICK left : SourceIs(text, left) /\ OneHost(left, "to", rest)
    BY <1>3 DEF SourceToIs
  <2>2. PICK y, h : HostSays(y.name, y.port, h) /\ left = HostThen("to", y, rest)
    BY <2>1 DEF OneHost
  <2>3. h # Nobody
    BY <2>2, SaidHost
  <2>4. CASE text = WordThen("connect", left)
    <3> DEFINE q == Ends("connecting", Nobody, h)
    <3>2. q.direction = "connecting" /\ q.from = Nobody /\ q.to = h
      BY EndsParts
    <3>. HIDE DEF q
    <3>3. HostsSaid(q, y, y) /\ text = HostsThen(q, y, y, rest)
      BY <2>2, <2>4, <3>2 DEF HostsSaid, HostsThen
    <3>. QED  BY <3>3 DEF HostsOf, q
  <2>5. CASE text = WordThen("close", left)
    <3> DEFINE q == Ends("closing", Nobody, h)
    <3>2. q.direction = "closing" /\ q.from = Nobody /\ q.to = h
      BY EndsParts
    <3>. HIDE DEF q
    <3>3. HostsSaid(q, y, y) /\ text = HostsThen(q, y, y, rest)
      BY <2>2, <2>5, <3>2 DEF HostsSaid, HostsThen
    <3>. QED  BY <3>3 DEF HostsOf, q
  <2>6. CASE OneHost(text, "from", left)
    <3>1. PICK x, g : HostSays(x.name, x.port, g) /\ text = HostThen("from", x, left)
      BY <2>6 DEF OneHost
    <3> DEFINE q == Ends("data", g, h)
    <3>2. q.direction = "data" /\ q.from = g /\ q.to = h
      BY EndsParts
    <3>. HIDE DEF q
    <3>3. HostsSaid(q, x, y) /\ text = HostsThen(q, x, y, rest)
      BY <2>2, <2>3, <3>1, <3>2 DEF HostsSaid, HostsThen
    <3>. QED  BY <3>3 DEF HostsOf, q
  <2>. QED  BY <2>1, <2>4, <2>5, <2>6 DEF SourceIs
<1>. QED  BY <1>1, <1>2, <1>3 DEF HostsAre

-----------------------------------------------------------------------------
(* What the conditions, the task and the next rule accepted were there to   *)
(* read.                                                                    *)

\* A number, a word or a constant that was read after a space.
ValueIs(s, r, max, names) ==
  Sane(r, max) /\ (r.ok => s.ok /\ \E c \in names : s.left = Sep(<<c>> \o r.left))
PercentIs(s, r, max) ==
  Sane(r, max) /\ (r.ok => s.ok /\ \E c \in DOMAIN Numbers :
                                       Numbers[c] <= 100 /\ s.left = Sep(<<c>> \o r.left))
WordIs(s, r, max) ==
  Sane(r, max) /\ (r.ok => s.ok /\ \E w : IsWord(w) /\ s.left = Sep(w \o r.left))

LEMMA NumberValue ==
  ASSUME NEW s, NEW max, Sane(s, max), NEW d \in Fields, NEW r, r = Number(d, Blank(s))
  PROVE  ValueIs(s, r, max, DOMAIN Numbers)
<1> DEFINE b == Blank(s)
<1>1. Sane(b, max) /\ (b.ok => s.ok /\ s.left = Sep(b.left))
  BY BlankCame
<1>. HIDE DEF b
<1>2. LET q == Number(d, b) IN
      Sane(q, max) /\ (q.ok => s.ok /\ \E c \in DOMAIN Numbers : s.left = Sep(<<c>> \o q.left))
  BY <1>1, NumberCame
<1>. QED  BY <1>2 DEF b, ValueIs

LEMMA PercentValue ==
  ASSUME NEW s, NEW max, Sane(s, max), NEW d \in Fields, NEW r, r = Percent(d, Blank(s))
  PROVE  PercentIs(s, r, max)
<1> DEFINE b == Blank(s)
<1>1. Sane(b, max) /\ (b.ok => s.ok /\ s.left = Sep(b.left))
  BY BlankCame
<1>. HIDE DEF b
<1>2. LET q == Percent(d, b) IN
      Sane(q, max) /\ (q.ok => s.ok /\ \E c \in DOMAIN Numbers :
                                         Numbers[c] <= 100 /\ s.left = Sep(<<c>> \o q.left))
  BY <1>1, PercentCame
<1>. QED  BY <1>2 DEF b, PercentIs

LEMMA WordValue ==
  ASSUME NEW s, NEW max, Sane(s, max), NEW d \in Fields, NEW r, r = Word(d, Blank(s))
  PROVE  WordIs(s, r, max)
<1> DEFINE b == Blank(s)
<1>1. Sane(b, max) /\ (b.ok => s.ok /\ s.left = Sep(b.left))
  BY BlankCame
<1>. HIDE DEF b
<1>2. LET q == Word(d, b) IN
      Sane(q, max) /\ (q.ok => s.ok /\ \E w : IsWord(w) /\ s.left = Sep(w \o q.left))
  BY <1>1, WordCame DEF ReadWord
<1>. QED  BY <1>2 DEF b, WordIs

LEMMA EnumValue ==
  ASSUME NEW s, NEW max, Sane(s, max), NEW d \in Fields, NEW t, End \notin t.names,
         NEW r, r = Enum(d, t, Blank(s))
  PROVE  ValueIs(s, r, max, t.names)
<1> DEFINE b == Blank(s)
<1>1. Sane(b, max) /\ (b.ok => s.ok /\ s.left = Sep(b.left))
  BY BlankCame
<1>. HIDE DEF b
<1> DEFINE q == Enum(d, t, b)
<1>2. /\ Sane(q, max)
      /\ q.ok => b.ok /\ Here(b) \in t.names /\ b.left = <<Here(b)>> \o q.left
  BY <1>1, EnumCame
<1>3. q = r
  BY DEF b
<1>. HIDE DEF q
<1>4. q.ok => s.ok /\ \E c \in t.names : s.left = Sep(<<c>> \o q.left)
  BY <1>1, <1>2
<1>. QED  BY <1>2, <1>3, <1>4 DEF ValueIs

LEMMA NoEnd ==
  /\ End \notin Errors.names /\ End \notin Signals.names /\ End \notin Kinds.names /\ End \notin Bools.names
  /\ End \notin Protos.names /\ End \notin DoModes.names /\ End \notin Gotos.names
BY DEF End, Errors, Signals, Kinds, Bools, Protos, DoModes, Gotos, Table

\* The name n and its arguments.
Quad(n, a, b, c) == <<n, a, b, c>>
LEMMA QuadParts ==
  ASSUME NEW n, NEW a, NEW b, NEW c
  PROVE  LET v == Quad(n, a, b, c) IN
         v[1] = n /\ v[2] = a /\ v[3] = b /\ v[4] = c /\ v = <<v[1], v[2], v[3], v[4]>>
BY DEF Quad

LEMMA NamesOf ==
  ASSUME NEW n \in Conditions \cup Tasks
  PROVE  \/ n \in Bare \/ n \in Numbered \/ n \in Checked \/ n \in Words
         \/ n = "error" \/ n = "emit" \/ n = "between" \/ n = "mark-done" \/ n = "cycle"
BY DEF Conditions, Tasks, Bare, Numbered, Checked, Words

\* The arguments that were read, with the space that the parser reads after them.
ArgsAre(n, text, left) ==
  \E v : /\ ArgsFit(v) /\ v[1] = n
         /\ \A rest \in Texts : left = Sep(rest) => text = Sep(ArgsThen(v, rest))

LEMMA ArgsMade ==
  ASSUME NEW n, NEW text, NEW left, NEW v, ArgsFit(v), v[1] = n,
         \A rest \in Texts : left = Sep(rest) => text = Sep(ArgsThen(v, rest))
  PROVE  ArgsAre(n, text, left)
BY DEF ArgsAre

LEMMA ArgsCame ==
  ASSUME NEW s, NEW max, Sane(s, max), NEW n \in Conditions \cup Tasks
  PROVE  LET r == Args(n, s) IN
         Sane(r, max) /\ (r.ok => s.ok /\ ArgsAre(n, s.left, r.left))
<1>0. "arg1" \in Fields /\ "arg2" \in Fields /\ "arg3" \in Fields
  BY FieldNames
<1> DEFINE r == Args(n, s)
<1>1. CASE n \in Bare
  <2>a. /\ n \notin {"hang", "local-hang", "remote-hang", "remove", "truncate", "alter",
                      "before", "after", "between"}
        /\ n \notin {"echo", "log", "dump", "replay"} /\ n \notin {"prob", "split"}
        /\ n # "mark-done" /\ n # "error" /\ n # "emit" /\ n # "cycle" /\ n # "between"
    BY <1>1 DEF Bare
  <2>b. Arg1(n, s) = s
    BY <2>a DEF Arg1
  <2>1. r = s
    <3>1. n \notin {"between", "mark-done"}
      BY <2>a
    <3>. QED  BY <2>a, <2>b, <3>1 DEF Args
  <2> DEFINE v == Quad(n, Unset, Unset, Unset)
  <2>2. ArgsFit(v) /\ v[1] = n
    <3>1. v[1] = n /\ v[2] = Unset /\ v[3] = Unset /\ v[4] = Unset /\ v = <<v[1], v[2], v[3], v[4]>>
      BY QuadParts
    <3>. HIDE DEF v
    <3>. QED  BY <1>1, <3>1 DEF ArgsFit
  <2>. HIDE DEF v
  <2>3. ASSUME NEW rest \in Texts PROVE ArgsThen(v, rest) = rest
    BY <1>1, <2>2 DEF ArgsThen, Words, Bare
  <2>4. ArgsAre(n, s.left, s.left)
    BY <2>2, <2>3 DEF ArgsAre
  <2>. QED  BY <2>1, <2>4
<1>2. CASE n \in Numbered
  <2>1. r = Number("arg1", Blank(s))
    BY <1>2 DEF Args, Arg1, Numbered
  <2>. HIDE DEF r
  <2>2. Sane(r, max) /\ (r.ok => s.ok /\ \E c \in DOMAIN Numbers : s.left = Sep(<<c>> \o r.left))
    <3>1. ValueIs(s, r, max, DOMAIN Numbers)
      BY <1>0, <2>1, NumberValue
    <3>. QED  BY <3>1 DEF ValueIs
  <2>3. ASSUME r.ok PROVE ArgsAre(n, s.left, r.left)
    <3>1. PICK c \in DOMAIN Numbers : s.left = Sep(<<c>> \o r.left)
      BY <2>2, <2>3
    <3> DEFINE v == Quad(n, c, Unset, Unset)
    <3>2. v[1] = n /\ v[2] = c /\ v[3] = Unset /\ v[4] = Unset /\ v = <<v[1], v[2], v[3], v[4]>>
      BY QuadParts
    <3>. HIDE DEF v
    <3>3. ArgsFit(v)
      BY <1>2, <3>2 DEF ArgsFit
    <3>4. ASSUME NEW rest \in Texts PROVE ArgsThen(v, rest) = WordThen(c, rest)
      BY <1>2, <3>2 DEF ArgsThen, Bare, Words, Numbered
    <3>5. ASSUME NEW rest \in Texts PROVE WordThen(c, rest) = <<c>> \o Sep(rest)
      BY DEF WordThen, Sep
    <3>6. ASSUME NEW rest \in Texts, r.left = Sep(rest) PROVE s.left = Sep(ArgsThen(v, rest))
      BY <3>1, <3>4, <3>5, <3>6
    <3>. QED  BY <3>2, <3>3, <3>6, ArgsMade
  <2>. QED  BY <2>2, <2>3 DEF r
<1>3. CASE n \in Checked
  <2>1. r = Percent("arg1", Blank(s))
    BY <1>3 DEF Args, Arg1, Checked
  <2>. HIDE DEF r
  <2>2. Sane(r, max) /\ (r.ok => s.ok /\ \E c \in DOMAIN Numbers :
                                           Numbers[c] <= 100 /\ s.left = Sep(<<c>> \o r.left))
    <3>1. PercentIs(s, r, max)
      BY <1>0, <2>1, PercentValue
    <3>. QED  BY <3>1 DEF PercentIs
  <2>3. ASSUME r.ok PROVE ArgsAre(n, s.left, r.left)
    <3>1. PICK c \in DOMAIN Numbers : Numbers[c] <= 100 /\ s.left = Sep(<<c>> \o r.left)
      BY <2>2, <2>3
    <3> DEFINE v == Quad(n, c, Unset, Unset)
    <3>2. v[1] = n /\ v[2] = c /\ v[3] = Unset /\ v[4] = Unset /\ v = <<v[1], v[2], v[3], v[4]>>
      BY QuadParts
    <3>. HIDE DEF v
    <3>3. ArgsFit(v)
      BY <1>3, <3>1, <3>2 DEF ArgsFit
    <3>4. ASSUME NEW rest \in Texts PROVE ArgsThen(v, rest) = WordThen(c, rest)
      BY <1>3, <3>2 DEF ArgsThen, Bare, Words, Checked
    <3>5. ASSUME NEW rest \in Texts PROVE WordThen(c, rest) = <<c>> \o Sep(rest)
      BY DEF WordThen, Sep
    <3>6. ASSUME NEW rest \in Texts, r.left = Sep(rest) PROVE s.left = Sep(ArgsThen(v, rest))
      BY <3>1, <3>4, <3>5, <3>6
    <3>. QED  BY <3>2, <3>3, <3>6, ArgsMade
  <2>. QED  BY <2>2, <2>3 DEF r
<1>4. CASE n \in Words
  <2>1. r = Word("arg1", Blank(s))
    BY <1>4 DEF Args, Arg1, Words
  <2>. HIDE DEF r
  <2>2. Sane(r, max) /\ (r.ok => s.ok /\ \E w : IsWord(w) /\ s.left = Sep(w \o r.left))
    <3>1. WordIs(s, r, max)
      BY <1>0, <2>1, WordValue
    <3>. QED  BY <3>1 DEF WordIs
  <2>3. ASSUME r.ok PROVE ArgsAre(n, s.left, r.left)
    <3>1. PICK w : IsWord(w) /\ s.left = Sep(w \o r.left)
      BY <2>2, <2>3
    <3> DEFINE v == Quad(n, w, Unset, Unset)
    <3>2. v[1] = n /\ v[2] = w /\ v[3] = Unset /\ v[4] = Unset /\ v = <<v[1], v[2], v[3], v[4]>>
      BY QuadParts
    <3>. HIDE DEF v
    <3>3. ArgsFit(v)
      BY <1>4, <3>1, <3>2 DEF ArgsFit
    <3>4. ASSUME NEW rest \in Texts PROVE ArgsThen(v, rest) = w \o Sep(rest)
      BY <1>4, <3>2 DEF ArgsThen, Bare, Words
    <3>5. ASSUME NEW rest \in Texts, r.left = Sep(rest) PROVE s.left = Sep(ArgsThen(v, rest))
      BY <3>1, <3>4, <3>5
    <3>. QED  BY <3>2, <3>3, <3>5, ArgsMade
  <2>. QED  BY <2>2, <2>3 DEF r
<1>5. CASE n = "error"
  <2>1. r = Enum("arg1", Errors, Blank(s))
    BY <1>5 DEF Args, Arg1
  <2>. HIDE DEF r
  <2>2. Sane(r, max) /\ (r.ok => s.ok /\ \E c \in Errors.names : s.left = Sep(<<c>> \o r.left))
    <3> DEFINE t == Errors
    <3>1. End \notin t.names
      BY NoEnd
    <3>2. r = Enum("arg1", t, Blank(s))
      BY <2>1
    <3>. HIDE DEF t
    <3>3. Sane(r, max) /\ (r.ok => s.ok /\ \E c \in t.names : s.left = Sep(<<c>> \o r.left))
      <4>1. ValueIs(s, r, max, t.names)
        BY <1>0, <3>1, <3>2, EnumValue
      <4>. QED  BY <4>1 DEF ValueIs
    <3>. QED  BY <3>3 DEF t
  <2>3. ASSUME r.ok PROVE ArgsAre(n, s.left, r.left)
    <3>1. PICK c \in Errors.names : s.left = Sep(<<c>> \o r.left)
      BY <2>2, <2>3
    <3> DEFINE v == Quad(n, c, Unset, Unset)
    <3>2. v[1] = n /\ v[2] = c /\ v[3] = Unset /\ v[4] = Unset /\ v = <<v[1], v[2], v[3], v[4]>>
      BY QuadParts
    <3>. HIDE DEF v
    <3>3. ArgsFit(v)
      BY <1>5, <3>1, <3>2 DEF ArgsFit
    <3>4. ASSUME NEW rest \in Texts PROVE ArgsThen(v, rest) = WordThen(c, rest)
      BY <1>5, <3>2 DEF ArgsThen, Bare, Words
    <3>5. ASSUME NEW rest \in Texts PROVE WordThen(c, rest) = <<c>> \o Sep(rest)
      BY DEF WordThen, Sep
    <3>6. ASSUME NEW rest \in Texts, r.left = Sep(rest) PROVE s.left = Sep(ArgsThen(v, rest))
      BY <3>1, <3>4, <3>5, <3>6
    <3>. QED  BY <3>2, <3>3, <3>6, ArgsMade
  <2>. QED  BY <2>2, <2>3 DEF r
<1>6. CASE n = "emit"
  <2>1. r = Enum("arg1", Signals, Blank(s))
    BY <1>6 DEF Args, Arg1
  <2>. HIDE DEF r
  <2>2. Sane(r, max) /\ (r.ok => s.ok /\ \E c \in Signals.names : s.left = Sep(<<c>> \o r.left))
    <3> DEFINE t == Signals
    <3>1. End \notin t.names
      BY NoEnd
    <3>2. r = Enum("arg1", t, Blank(s))
      BY <2>1
    <3>. HIDE DEF t
    <3>3. Sane(r, max) /\ (r.ok => s.ok /\ \E c \in t.names : s.left = Sep(<<c>> \o r.left))
      <4>1. ValueIs(s, r, max, t.names)
        BY <1>0, <3>1, <3>2, EnumValue
      <4>. QED  BY <4>1 DEF ValueIs
    <3>. QED  BY <3>3 DEF t
  <2>3. ASSUME r.ok PROVE ArgsAre(n, s.left, r.left)
    <3>1. PICK c \in Signals.names : s.left = Sep(<<c>> \o r.left)
      BY <2>2, <2>3
    <3> DEFINE v == Quad(n, c, Unset, Unset)
    <3>2. v[1] = n /\ v[2] = c /\ v[3] = Unset /\ v[4] = Unset /\ v = <<v[1], v[2], v[3], v[4]>>
      BY QuadParts
    <3>. HIDE DEF v
    <3>3. ArgsFit(v)
      BY <1>6, <3>1, <3>2 DEF ArgsFit
    <3>4. ASSUME NEW rest \in Texts PROVE ArgsThen(v, rest) = WordThen(c, rest)
      BY <1>6, <3>2 DEF ArgsThen, Bare, Words
    <3>5. ASSUME NEW rest \in Texts PROVE WordThen(c, rest) = <<c>> \o Sep(rest)
      BY DEF WordThen, Sep
    <3>6. ASSUME NEW rest \in Texts, r.left = Sep(rest) PROVE s.left = Sep(ArgsThen(v, rest))
      BY <3>1, <3>4, <3>5, <3>6
    <3>. QED  BY <3>2, <3>3, <3>6, ArgsMade
  <2>. QED  BY <2>2, <2>3 DEF r
<1>7. CASE n = "between"
  <2> DEFINE a == Number("arg1", Blank(s))
  <2>1. r = Number("arg2", Blank(a))
    BY <1>7 DEF Args, Arg1
  <2>. HIDE DEF r
  <2>2. Sane(a, max) /\ (a.ok => s.ok /\ \E c \in DOMAIN Numbers : s.left = Sep(<<c>> \o a.left))
    <3>1. ValueIs(s, a, max, DOMAIN Numbers)
      BY <1>0, NumberValue
    <3>. QED  BY <3>1 DEF ValueIs
  <2>. HIDE DEF a
  <2>3. Sane(r, max) /\ (r.ok => a.ok /\ \E c \in DOMAIN Numbers : a.left = Sep(<<c>> \o r.left))
    <3>1. ValueIs(a, r, max, DOMAIN Numbers)
      BY <1>0, <2>1, <2>2, NumberValue
    <3>. QED  BY <3>1 DEF ValueIs
  <2>4. ASSUME r.ok PROVE ArgsAre(n, s.left, r.left)
    <3>1. PICK c \in DOMAIN Numbers : s.left = Sep(<<c>> \o a.left)
      BY <2>2, <2>3, <2>4
    <3>2. PICK e \in DOMAIN Numbers : a.left = Sep(<<e>> \o r.left)
      BY <2>3, <2>4
    <3> DEFINE v == Quad(n, c, e, Unset)
    <3>3. v[1] = n /\ v[2] = c /\ v[3] = e /\ v[4] = Unset /\ v = <<v[1], v[2], v[3], v[4]>>
      BY QuadParts
    <3>. HIDE DEF v
    <3>4. ArgsFit(v)
      BY <1>7, <3>1, <3>2, <3>3 DEF ArgsFit
    <3>5. ASSUME NEW rest \in Texts PROVE ArgsThen(v, rest) = WordThen(c, WordThen(e, rest))
      BY <1>7, <3>3 DEF ArgsThen, Bare, Words
    <3>6. \A x, rest : WordThen(x, rest) = <<x>> \o Sep(rest)
      BY DEF WordThen, Sep
    <3>7. ASSUME NEW rest \in Texts, r.left = Sep(rest) PROVE s.left = Sep(ArgsThen(v, rest))
      BY <3>1, <3>2, <3>5, <3>6, <3>7
    <3>. QED  BY <3>3, <3>4, <3>7, ArgsMade
  <2>. QED  BY <2>2, <2>3, <2>4 DEF r
<1>8. CASE n = "mark-done"
  <2> DEFINE a == Enum("arg1", Kinds, Blank(s))
  <2>1. r = Number("arg2", Blank(a))
    BY <1>8 DEF Args, Arg1
  <2>. HIDE DEF r
  <2>2. Sane(a, max) /\ (a.ok => s.ok /\ \E c \in Kinds.names : s.left = Sep(<<c>> \o a.left))
    <3>1. ValueIs(s, a, max, Kinds.names)
      BY <1>0, EnumValue, NoEnd
    <3>. QED  BY <3>1 DEF ValueIs
  <2>. HIDE DEF a
  <2>3. Sane(r, max) /\ (r.ok => a.ok /\ \E c \in DOMAIN Numbers : a.left = Sep(<<c>> \o r.left))
    <3>1. ValueIs(a, r, max, DOMAIN Numbers)
      BY <1>0, <2>1, <2>2, NumberValue
    <3>. QED  BY <3>1 DEF ValueIs
  <2>4. ASSUME r.ok PROVE ArgsAre(n, s.left, r.left)
    <3>1. PICK c \in Kinds.names : s.left = Sep(<<c>> \o a.left)
      BY <2>2, <2>3, <2>4
    <3>2. PICK e \in DOMAIN Numbers : a.left = Sep(<<e>> \o r.left)
      BY <2>3, <2>4
    <3> DEFINE v == Quad(n, c, e, Unset)
    <3>3. v[1] = n /\ v[2] = c /\ v[3] = e /\ v[4] = Unset /\ v = <<v[1], v[2], v[3], v[4]>>
      BY QuadParts
    <3>. HIDE DEF v
    <3>4. ArgsFit(v)
      BY <1>8, <3>1, <3>2, <3>3 DEF ArgsFit
    <3>5. ASSUME NEW rest \in Texts PROVE ArgsThen(v, rest) = WordThen(c, WordThen(e, rest))
      BY <1>8, <3>3 DEF ArgsThen, Bare, Words
    <3>6. \A x, rest : WordThen(x, rest) = <<x>> \o Sep(rest)
      BY DEF WordThen, Sep
    <3>7. ASSUME NEW rest \in Texts, r.left = Sep(rest) PROVE s.left = Sep(ArgsThen(v, rest))
      BY <3>1, <3>2, <3>5, <3>6, <3>7
    <3>. QED  BY <3>3, <3>4, <3>7, ArgsMade
  <2>. QED  BY <2>2, <2>3, <2>4 DEF r
<1>9. CASE n = "cycle"
  <2> DEFINE a == Enum("arg1", Bools, Blank(s))
             b == Number("arg2", Blank(a))
  <2>1. r = Number("arg3", Blank(b))
    BY <1>9 DEF Args, Arg1
  <2>. HIDE DEF r
  <2>2. Sane(a, max) /\ (a.ok => s.ok /\ \E c \in Bools.names : s.left = Sep(<<c>> \o a.left))
    <3>1. ValueIs(s, a, max, Bools.names)
      BY <1>0, EnumValue, NoEnd
    <3>. QED  BY <3>1 DEF ValueIs
  <2>. HIDE DEF a
  <2>3. Sane(b, max) /\ (b.ok => a.ok /\ \E c \in DOMAIN Numbers : a.left = Sep(<<c>> \o b.left))
    <3>1. ValueIs(a, b, max, DOMAIN Numbers)
      BY <1>0, <2>2, NumberValue
    <3>. QED  BY <3>1 DEF ValueIs
  <2>. HIDE DEF b
  <2>4. Sane(r, max) /\ (r.ok => b.ok /\ \E c \in DOMAIN Numbers : b.left = Sep(<<c>> \o r.left))
    <3>1. ValueIs(b, r, max, DOMAIN Numbers)
      BY <1>0, <2>1, <2>3, NumberValue
    <3>. QED  BY <3>1 DEF ValueIs
  <2>5. ASSUME r.ok PROVE ArgsAre(n, s.left, r.left)
    <3>1. PICK c \in Bools.names : s.left = Sep(<<c>> \o a.left)
      BY <2>2, <2>3, <2>4, <2>5
    <3>2. PICK e \in DOMAIN Numbers : a.left = Sep(<<e>> \o b.left)
      BY <2>3, <2>4, <2>5
    <3>3. PICK g \in DOMAIN Numbers : b.left = Sep(<<g>> \o r.left)
      BY <2>4, <2>5
    <3> DEFINE v == Quad(n, c, e, g)
    <3>4. v[1] = n /\ v[2] = c /\ v[3] = e /\ v[4] = g /\ v = <<v[1], v[2], v[3], v[4]>>
      BY QuadParts
    <3>. HIDE DEF v
    <3>5. ArgsFit(v)
      BY <1>9, <3>1, <3>2, <3>3, <3>4 DEF ArgsFit
    <3>6. ASSUME NEW rest \in Texts
          PROVE  ArgsThen(v, rest) = WordThen(c, WordThen(e, WordThen(g, rest)))
      BY <1>9, <3>4 DEF ArgsThen, Bare, Words
    <3>7. \A x, rest : WordThen(x, rest) = <<x>> \o Sep(rest)
      BY DEF WordThen, Sep
    <3>8. ASSUME NEW rest \in Texts, r.left = Sep(rest) PROVE s.left = Sep(ArgsThen(v, rest))
      BY <3>1, <3>2, <3>3, <3>6, <3>7, <3>8
    <3>. QED  BY <3>4, <3>5, <3>8, ArgsMade
  <2>. QED  BY <2>2, <2>3, <2>4, <2>5 DEF r
<1>. QED  BY <1>1, <1>2, <1>3, <1>4, <1>5, <1>6, <1>7, <1>8, <1>9, NamesOf

\* The name that was read, and its arguments.
NamedIs(names, text, left) ==
  \E v : /\ NamedFits(v, names)
         /\ \A rest \in Texts : left = Sep(rest) => text = NamedThen(v, rest)

LEMMA OneLong == ASSUME NEW k \in Nat, k # 0, k <= 1 PROVE k = 1
OBVIOUS

LEMMA NamedMade ==
  ASSUME NEW names, NEW text, NEW x, IsWord(x), Len(x) <= 1, x[1] \in names, NEW mid, text = x \o mid,
         NEW left, ArgsAre(x[1], mid, left)
  PROVE  NamedIs(names, text, left)
<1>1. PICK v : /\ ArgsFit(v) /\ v[1] = x[1]
               /\ \A rest \in Texts : left = Sep(rest) => mid = Sep(ArgsThen(v, rest))
  BY DEF ArgsAre
<1>2. x = <<x[1]>>
  <2>1. x \in Seq(Lexemes) /\ x # <<>>
    BY DEF IsWord, Texts
  <2>2. Len(x) = 1
    <3>1. Len(x) \in Nat /\ Len(x) # 0
      BY <2>1, EmptySeq
    <3> DEFINE k == Len(x)
    <3>2. k \in Nat /\ k # 0 /\ k <= 1
      BY <3>1
    <3>. HIDE DEF k
    <3>3. k = 1
      BY <3>2, OneLong
    <3>. QED  BY <3>3 DEF k
  <2>. QED  BY <2>1, <2>2
<1>3. x[1] \in Lexemes \ WordStops
  <2>1. <<>> \in Texts
    BY DEF Texts
  <2>. QED  BY <2>1, WordInText
<1>4. NamedFits(v, names)
  BY <1>1, <1>3 DEF NamedFits
<1>5. ASSUME NEW rest \in Texts, left = Sep(rest) PROVE text = NamedThen(v, rest)
  <2>1. mid = Sep(ArgsThen(v, rest))
    BY <1>1, <1>5
  <2>2. text = <<v[1]>> \o Sep(ArgsThen(v, rest))
    BY <1>1, <1>2, <2>1
  <2>. QED  BY <2>2 DEF NamedThen, WordThen, Sep
<1>. QED  BY <1>4, <1>5 DEF NamedIs

LEMMA NamedCame ==
  ASSUME NEW s, NEW max, Sane(s, max), NEW d \in RuleFields, NEW names,
         names \subseteq Conditions \cup Tasks
  PROVE  LET r == Named(d, names, s) IN
         Sane(r, max) /\ (r.ok => s.ok /\ NamedIs(names, s.left, r.left))
<1> DEFINE w     == Word("name", s)
           n     == w.dest.name[1]
           w1    == Write(w, "arg1", Unset)
           w2    == Write(w1, "arg2", Unset)
           blank == Write(w2, "arg3", Unset)
           r     == Suite(Args(n, blank), s)
           long  == Len(w.dest.name) > 1 \/ n \notin names
           x     == Write(r, d, <<n, r.dest.arg1, r.dest.arg2, r.dest.arg3>>)
           e     == Named(d, names, s)
<1>1. e = IF ~w.ok THEN w ELSE IF long THEN Reject(Back(w, s)) ELSE IF ~r.ok THEN r ELSE x
  BY DEF Named
<1>2. Sane(w, max) /\ (w.ok => s.ok /\ ReadWord(s, w, "name"))
  BY FieldNames, WordCame
<1>3. ASSUME w.ok PROVE IsWord(w.dest.name) /\ s.left = w.dest.name \o w.left
  <2>. HIDE DEF w
  <2>1. PICK y : IsWord(y) /\ s.left = y \o w.left /\ w.dest = Placed(s.dest, "name", y)
    BY <1>2, <1>3 DEF ReadWord
  <2>2. w.dest["name"] = y
    <3>1. IsDest(s.dest) /\ "name" \in Fields
      BY SaneParts, FieldNames
    <3>. QED  BY <2>1, <3>1, PutDest
  <2>. QED  BY <2>1, <2>2
<1>. HIDE DEF w, e
<1>4. Sane(blank, max) /\ blank.left = w.left /\ blank.ok = w.ok
  <2>1. Sane(w1, max) /\ w1.left = w.left /\ w1.ok = w.ok
    BY <1>2, FieldNames, SaneWrite, WriteParts
  <2>. HIDE DEF w1
  <2>2. Sane(w2, max) /\ w2.left = w1.left /\ w2.ok = w1.ok
    BY <2>1, FieldNames, SaneWrite, WriteParts
  <2>. HIDE DEF w2
  <2>3. Sane(blank, max) /\ blank.left = w2.left /\ blank.ok = w2.ok
    BY <2>2, FieldNames, SaneWrite, WriteParts
  <2>. QED  BY <2>1, <2>2, <2>3
<1>. HIDE DEF blank
<1>5. ~long => n \in names /\ n \in Conditions \cup Tasks
  OBVIOUS
<1>6. ~long => /\ Sane(r, max) /\ (r.ok => ArgsAre(n, w.left, r.left))
  <2> DEFINE a == Args(n, blank)
  <2>1. ~long => Sane(a, max) /\ (a.ok => ArgsAre(n, blank.left, a.left))
    <3>. HIDE DEF n
    <3>. QED  BY <1>4, <1>5, ArgsCame
  <2>. HIDE DEF a
  <2>2. ~long => Sane(r, max) /\ (r.ok => a.ok /\ r.left = a.left)
    <3>1. r = Suite(a, s)
      BY DEF a
    <3>. HIDE DEF r, long
    <3>. QED  BY <2>1, <3>1, SaneSuite
  <2>. HIDE DEF r, long
  <2>. QED  BY <1>4, <2>1, <2>2
<1>7. ~long => Sane(x, max) /\ x.left = r.left /\ x.ok = r.ok
  <2>1. d \in Fields
    BY DEF Fields
  <2>. HIDE DEF r, long
  <2>. QED  BY <1>6, <2>1, SaneWrite, WriteParts
<1>8. Sane(Reject(Back(w, s)), max) /\ ~Reject(Back(w, s)).ok
  <2>1. ~Reject(Back(w, s)).ok
    BY DEF Reject, State
  <2>. QED  BY <1>2, <2>1, SaneBack, SaneRejects
<1>9. Sane(e, max) /\ (e.ok => w.ok /\ ~long /\ r.ok /\ e.left = r.left)
  <2>. HIDE DEF r, long, x
  <2>. QED  BY <1>1, <1>2, <1>6, <1>7, <1>8
<1>10. ASSUME e.ok PROVE NamedIs(names, s.left, e.left)
  <2> DEFINE y == w.dest.name
  <2>1. IsWord(y) /\ s.left = y \o w.left
    BY <1>3, <1>9, <1>10
  <2>2. ArgsAre(y[1], w.left, e.left) /\ y[1] \in names /\ ~(Len(y) > 1)
    BY <1>6, <1>9, <1>10
  <2>3. Len(y) <= 1
    <3>1. y \in Seq(Lexemes)
      BY <2>1 DEF IsWord, Texts
    <3>. HIDE DEF y
    <3>. QED  BY <2>2, <3>1
  <2>. HIDE DEF y
  <2>. QED  BY <2>1, <2>2, <2>3, NamedMade
<1>. QED  BY <1>2, <1>9, <1>10 DEF e

NamedSaid(names, text, rest) == \E v : NamedFits(v, names) /\ text = NamedThen(v, rest)

LEMMA NamedThenCame ==
  ASSUME NEW s, NEW max, Sane(s, max), NEW d \in RuleFields, NEW names,
         names \subseteq Conditions \cup Tasks
  PROVE  LET r == Blank(Named(d, names, s)) IN
         Sane(r, max) /\ (r.ok => s.ok /\ NamedSaid(names, s.left, r.left))
<1> DEFINE a == Named(d, names, s)
           r == Blank(a)
<1>1. Sane(a, max) /\ (a.ok => s.ok /\ NamedIs(names, s.left, a.left))
  BY NamedCame
<1>. HIDE DEF a
<1>2. Sane(r, max) /\ (r.ok => a.ok /\ a.left = Sep(r.left))
  BY <1>1, BlankCame
<1>. HIDE DEF r
<1>3. ASSUME r.ok PROVE NamedSaid(names, s.left, r.left)
  <2>1. r.left \in Texts
    BY <1>2, SaneParts
  <2>. QED  BY <1>1, <1>2, <1>3, <2>1 DEF NamedIs, NamedSaid
<1>. QED  BY <1>1, <1>2, <1>3 DEF r, a

\* A constant of a table and the space after it.
LEMMA EnumThenCame ==
  ASSUME NEW s, NEW max, Sane(s, max), NEW d \in Fields, NEW t, End \notin t.names
  PROVE  LET r == Blank(Enum(d, t, s)) IN
         Sane(r, max) /\ (r.ok => s.ok /\ \E c \in t.names : s.left = WordThen(c, r.left))
<1> DEFINE a == Enum(d, t, s)
           r == Blank(a)
<1>1. Sane(a, max) /\ (a.ok => s.ok /\ Here(s) \in t.names /\ s.left = <<Here(s)>> \o a.left)
  BY EnumCame
<1>. HIDE DEF a
<1>2. Sane(r, max) /\ (r.ok => a.ok /\ a.left = Sep(r.left))
  BY <1>1, BlankCame
<1>. HIDE DEF r
<1>3. r.ok => s.left = WordThen(Here(s), r.left)
  BY <1>1, <1>2 DEF WordThen, Sep
<1>. QED  BY <1>1, <1>2, <1>3 DEF r, a

\* A keyword and the space after it.
LEMMA ConstThenCame ==
  ASSUME NEW s, NEW max, Sane(s, max), NEW c, c # End
  PROVE  LET r == Blank(Const(c, s)) IN
         Sane(r, max) /\ (r.ok => s.ok /\ s.left = WordThen(c, r.left))
<1> DEFINE a == Const(c, s)
           r == Blank(a)
<1>1. Sane(a, max) /\ (a.ok => s.ok /\ s.left = <<c>> \o a.left)
  BY ConstCame
<1>. HIDE DEF a
<1>2. Sane(r, max) /\ (r.ok => a.ok /\ a.left = Sep(r.left))
  BY <1>1, BlankCame
<1>. HIDE DEF r
<1>3. r.ok => s.left = WordThen(c, r.left)
  BY <1>1, <1>2 DEF WordThen, Sep
<1>. QED  BY <1>1, <1>2, <1>3 DEF r, a

LEMMA LineCame ==
  ASSUME NEW s, NEW max, Sane(s, max)
  PROVE  LET r == Line(s) IN
         Sane(r, max) /\ (r.ok => s.ok /\ \E n \in DOMAIN Numbers, p \in Protos.names :
                                            s.left = WordThen(n, WordThen("on", WordThen(p, r.left))))
<1> DEFINE a == Number("pos", s)
           b == Blank(a)
           c == Blank(Const("on", b))
           r == Blank(Enum("proto", Protos, c))
<1>0. Line(s) = r
  BY DEF Line
<1>a. "pos" \in Fields /\ "proto" \in Fields /\ "on" # End /\ End \notin Protos.names
  BY NoEnd, FieldWords DEF Fields, End
<1>1. Sane(a, max) /\ (a.ok => s.ok /\ Here(s) \in DOMAIN Numbers /\ s.left = <<Here(s)>> \o a.left)
  BY <1>a, NumberCame
<1>. HIDE DEF a
<1>2. Sane(b, max) /\ (b.ok => a.ok /\ a.left = Sep(b.left))
  BY <1>1, BlankCame
<1>. HIDE DEF b
<1>3. Sane(c, max) /\ (c.ok => b.ok /\ b.left = WordThen("on", c.left))
  BY <1>a, <1>2, ConstThenCame
<1>. HIDE DEF c
<1>4. Sane(r, max) /\ (r.ok => c.ok /\ \E p \in Protos.names : c.left = WordThen(p, r.left))
  BY <1>a, <1>3, EnumThenCame
<1>. HIDE DEF r
<1>5. ASSUME r.ok
      PROVE  \E n \in DOMAIN Numbers, p \in Protos.names :
               s.left = WordThen(n, WordThen("on", WordThen(p, r.left)))
  <2>1. PICK p \in Protos.names : c.left = WordThen(p, r.left)
    BY <1>4, <1>5
  <2>2. Here(s) \in DOMAIN Numbers /\ s.left = <<Here(s)>> \o Sep(b.left)
    BY <1>1, <1>2, <1>3, <1>4, <1>5
  <2>3. s.left = WordThen(Here(s), b.left)
    BY <2>2 DEF WordThen, Sep
  <2>4. b.left = WordThen("on", WordThen(p, r.left))
    BY <1>3, <1>4, <1>5, <2>1
  <2>. QED  BY <2>1, <2>2, <2>3, <2>4
<1>. QED  BY <1>0, <1>1, <1>2, <1>3, <1>4, <1>5

\* The text of the conditions and of the task, which may be absent.
WhenIs(text, rest) ==
  text = rest \/ \E v : NamedFits(v, Conditions) /\ text = WordThen("when", NamedThen(v, rest))
DoIs(text, rest) ==
  text = rest \/ \E m, v : m \in DoModes.names /\ NamedFits(v, Tasks) /\ text = WordThen(m, NamedThen(v, rest))

LEMMA WhenCame ==
  ASSUME NEW s, NEW max, Sane(s, max)
  PROVE  LET r == When(s) IN Sane(r, max) /\ (r.ok => s.ok /\ WhenIs(s.left, r.left))
<1> DEFINE a == Blank(Const("when", s))
           b == Blank(Named("condition", Conditions, a))
           r == Optional(b, s)
<1>0. When(s) = r
  BY DEF When
<1>1. Sane(a, max) /\ (a.ok => s.ok /\ s.left = WordThen("when", a.left))
  <2>1. "when" # End
    BY DEF End
  <2>. QED  BY <2>1, ConstThenCame
<1>. HIDE DEF a
<1>2. Sane(b, max) /\ (b.ok => a.ok /\ NamedSaid(Conditions, a.left, b.left))
  BY <1>1, NamedThenCame, FieldWords
<1>. HIDE DEF b
<1>3. Sane(r, max) /\ (r.ok => s.ok /\ r.left = IF b.ok THEN b.left ELSE s.left)
  BY <1>2, SaneGathers, GathersCame
<1>. HIDE DEF r
<1>4. r.ok => WhenIs(s.left, r.left)
  BY <1>1, <1>2, <1>3 DEF WhenIs, NamedSaid
<1>. QED  BY <1>0, <1>3, <1>4

LEMMA DoCame ==
  ASSUME NEW s, NEW max, Sane(s, max)
  PROVE  LET r == Do(s) IN Sane(r, max) /\ (r.ok => s.ok /\ DoIs(s.left, r.left))
<1> DEFINE a == Blank(Enum("mode", DoModes, s))
           b == Blank(Named("task", Tasks, a))
           r == Optional(b, s)
<1>0. Do(s) = r
  BY DEF Do
<1>1. Sane(a, max) /\ (a.ok => s.ok /\ \E m \in DoModes.names : s.left = WordThen(m, a.left))
  <2>1. "mode" \in Fields /\ End \notin DoModes.names
    BY NoEnd, FieldWords DEF Fields
  <2>. QED  BY <2>1, EnumThenCame
<1>. HIDE DEF a
<1>2. Sane(b, max) /\ (b.ok => a.ok /\ NamedSaid(Tasks, a.left, b.left))
  BY <1>1, NamedThenCame, FieldWords
<1>. HIDE DEF b
<1>3. Sane(r, max) /\ (r.ok => s.ok /\ r.left = IF b.ok THEN b.left ELSE s.left)
  BY <1>2, SaneGathers, GathersCame
<1>. HIDE DEF r
<1>4. r.ok => DoIs(s.left, r.left)
  BY <1>1, <1>2, <1>3 DEF DoIs, NamedSaid
<1>. QED  BY <1>0, <1>3, <1>4

\* The text of the next rule.
GotoIs(text, rest) == \E v : NextFits(v) /\ text = GotoThen(v, rest)
To(n, line) == <<n, line>>

LEMMA ToParts == ASSUME NEW n, NEW line PROVE LET v == To(n, line) IN v = <<v[1], v[2]>> /\ v[1] = n /\ v[2] = line
BY DEF To

LEMMA GotoCame ==
  ASSUME NEW s, NEW max, Sane(s, max)
  PROVE  LET r == Goto(s) IN Sane(r, max) /\ (r.ok => s.ok /\ GotoIs(s.left, r.left))
<1> DEFINE e == Enum("type", Gotos, s)
           c == Here(s)
           b == Blank(e)
           j == Number("line", b)
           o == Write(e, "line", "0")
           r == IF e.dest.type \in Jumps THEN j ELSE o
           w == Write(r, "next", <<r.dest.type, r.dest.line>>)
           g == Goto(s)
<1>0. g = IF ~s.ok THEN s ELSE IF ~r.ok THEN Back(r, s) ELSE w
  BY DEF Goto, Jumps
<1>1. Sane(e, max) /\ (e.ok => /\ s.ok /\ c \in Gotos.names /\ s.left = <<c>> \o e.left
                               /\ e.dest = Placed(s.dest, "type", c))
  <2>1. End \notin Gotos.names /\ "type" \in Fields
    BY NoEnd, FieldNames
  <2>. QED  BY <2>1, EnumCame
<1>2. e.ok => e.dest["type"] = c
  <2>1. IsDest(s.dest) /\ "type" \in Fields
    BY SaneParts, FieldNames
  <2>. HIDE DEF e, c
  <2>. QED  BY <1>1, <2>1, PutDest
<1>. HIDE DEF e, c, g
<1>3. Sane(b, max) /\ (b.ok => e.ok /\ e.left = Sep(b.left))
  BY <1>1, BlankCame
<1>. HIDE DEF b
<1>4. Sane(j, max) /\ (j.ok => b.ok /\ Here(b) \in DOMAIN Numbers /\ b.left = <<Here(b)>> \o j.left)
  BY <1>3, FieldNames, NumberCame
<1>. HIDE DEF j
<1>5. Sane(o, max) /\ o.left = e.left /\ o.ok = e.ok
  BY <1>1, FieldNames, SaneWrite, WriteParts
<1>. HIDE DEF o
<1>6. Sane(r, max)
  BY <1>4, <1>5
<1>7. ASSUME r.ok PROVE s.ok /\ GotoIs(s.left, r.left)
  <2>1. CASE e.dest["type"] \in Jumps
    <3>1. r = j
      BY <2>1
    <3>2. /\ s.ok /\ c \in Gotos.names /\ s.left = <<c>> \o e.left /\ e.dest["type"] = c
          /\ e.left = Sep(b.left) /\ Here(b) \in DOMAIN Numbers /\ b.left = <<Here(b)>> \o r.left
      <4>. HIDE DEF r
      <4>. QED  BY <1>1, <1>2, <1>3, <1>4, <1>7, <3>1
    <3>. HIDE DEF r
    <3> DEFINE v == To(c, Here(b))
    <3>3. v = <<v[1], v[2]>> /\ v[1] = c /\ v[2] = Here(b)
      BY ToParts
    <3>. HIDE DEF v
    <3>4. NextFits(v)
      BY <2>1, <3>2, <3>3 DEF NextFits
    <3>5. s.left = <<v[1]>> \o Sep(<<v[2]>> \o r.left)
      BY <3>2, <3>3
    <3>6. s.left = WordThen(v[1], <<v[2]>> \o r.left)
      BY <3>5 DEF WordThen, Sep
    <3>7. s.left = GotoThen(v, r.left)
      BY <2>1, <3>2, <3>3, <3>6 DEF GotoThen
    <3>. QED  BY <3>2, <3>4, <3>7 DEF GotoIs
  <2>2. CASE e.dest["type"] \notin Jumps
    <3>1. r = o
      BY <2>2
    <3>2. s.ok /\ c \in Gotos.names /\ s.left = <<c>> \o r.left /\ e.dest["type"] = c
      <4>. HIDE DEF r
      <4>. QED  BY <1>1, <1>2, <1>5, <1>7, <3>1
    <3>. HIDE DEF r
    <3> DEFINE v == To(c, "0")
    <3>3. v = <<v[1], v[2]>> /\ v[1] = c /\ v[2] = "0"
      BY ToParts
    <3>. HIDE DEF v
    <3>4. NextFits(v)
      BY <2>2, <3>2, <3>3 DEF NextFits
    <3>5. s.left = GotoThen(v, r.left)
      BY <2>2, <3>2, <3>3 DEF GotoThen
    <3>. QED  BY <3>2, <3>4, <3>5 DEF GotoIs
  <2>. QED  BY <2>1, <2>2
<1>. HIDE DEF r
<1>8. Sane(w, max) /\ w.left = r.left /\ w.ok = r.ok
  <2>1. "next" \in Fields
    BY FieldWords DEF Fields
  <2>. QED  BY <1>6, <2>1, SaneWrite, WriteParts
<1>. HIDE DEF w
<1>9. Sane(Back(r, s), max) /\ Back(r, s).ok = r.ok
  <2>1. Back(r, s).ok = r.ok
    BY DEF Back, State
  <2>. QED  BY <1>6, <2>1, SaneBack
<1>10. Sane(g, max) /\ (g.ok => r.ok /\ g.left = r.left)
  BY <1>0, <1>8, <1>9
<1>. QED  BY <1>7, <1>10 DEF g

LEMMA FinishCame ==
  ASSUME NEW s, NEW max, Sane(s, max)
  PROVE  LET r == Finish(s) IN Sane(r, max) /\ (r.ok => s.ok /\ \E end \in BOOLEAN : s.left = EndThen(end))
<1> DEFINE b == Blank(s)
           o == Optional(b, s)
           r == AtEnd(o)
<1>0. Finish(s) = r
  BY DEF Finish
<1>1. Sane(b, max) /\ (b.ok => s.ok /\ s.left = Sep(b.left))
  BY BlankCame
<1>. HIDE DEF b
<1>2. Sane(o, max) /\ (o.ok => s.ok /\ o.left = IF b.ok THEN b.left ELSE s.left)
  BY <1>1, SaneGathers, GathersCame
<1>. HIDE DEF o
<1>3. r = IF ~o.ok THEN o ELSE IF o.left = <<>> THEN Accept(o, <<>>) ELSE Reject(o)
  BY DEF AtEnd
<1>4. ~Reject(o).ok /\ Sane(Reject(o), max)
  <2>1. ~Reject(o).ok
    BY DEF Reject, State
  <2>. QED  BY <1>2, <2>1, SaneRejects
<1>5. o.left = <<>> => Sane(Accept(o, <<>>), max)
  BY <1>2, SaneAccept, SaneParts
<1>6. Sane(r, max) /\ (r.ok => o.ok /\ o.left = <<>>)
  <2>. HIDE DEF r
  <2>. QED  BY <1>2, <1>3, <1>4, <1>5
<1>. HIDE DEF r
<1>7. ASSUME r.ok PROVE s.ok /\ \E end \in BOOLEAN : s.left = EndThen(end)
  <2>1. CASE b.ok
    <3>1. s.ok /\ s.left = Sep(<<>>)
      BY <1>1, <1>2, <1>6, <1>7, <2>1
    <3>2. EndThen(b.ok) = Sep(<<>>) /\ b.ok \in BOOLEAN
      BY <1>1, <2>1, SaneParts DEF EndThen
    <3>. QED  BY <3>1, <3>2
  <2>2. CASE ~b.ok
    <3>1. s.ok /\ s.left = <<>>
      BY <1>2, <1>6, <1>7, <2>2
    <3>2. EndThen(b.ok) = <<>> /\ b.ok \in BOOLEAN
      BY <1>1, <2>2, SaneParts DEF EndThen
    <3>. QED  BY <3>1, <3>2
  <2>. QED  BY <2>1, <2>2
<1>. QED  BY <1>0, <1>6, <1>7

-----------------------------------------------------------------------------
(* A text that is accepted is the text of the rule that it gives.           *)

RuleWith(pos, proto, direction, from, to, condition, mode, task, next) ==
  [f \in RuleFields |->
     IF f = "pos" THEN pos ELSE IF f = "proto" THEN proto
     ELSE IF f = "direction" THEN direction ELSE IF f = "from" THEN from
     ELSE IF f = "to" THEN to ELSE IF f = "condition" THEN condition
     ELSE IF f = "mode" THEN mode ELSE IF f = "task" THEN task ELSE next]
LEMMA RuleMade ==
  ASSUME NEW pos, NEW proto, NEW direction, NEW from, NEW to, NEW condition, NEW mode, NEW task, NEW next
  PROVE  LET w == RuleWith(pos, proto, direction, from, to, condition, mode, task, next) IN
         /\ IsRule(w) /\ w["pos"] = pos /\ w["proto"] = proto /\ w["direction"] = direction
         /\ w["from"] = from /\ w["to"] = to /\ w["condition"] = condition /\ w["mode"] = mode
         /\ w["task"] = task /\ w["next"] = next
<1> DEFINE w == RuleWith(pos, proto, direction, from, to, condition, mode, task, next)
<1>1. IsRule(w)
  BY DEF IsRule, RuleWith
<1>2. w["pos"] = pos /\ w["proto"] = proto /\ w["direction"] = direction
  BY DEF RuleFields, RuleWith
<1>3. w["from"] = from /\ w["to"] = to /\ w["condition"] = condition
  BY DEF RuleFields, RuleWith
<1>4. w["mode"] = mode /\ w["task"] = task /\ w["next"] = next
  BY DEF RuleFields, RuleWith
<1>. HIDE DEF w
<1>. QED  BY <1>1, <1>2, <1>3, <1>4 DEF w

\* Hosts are said of a rule by what is in its three fields.
LEMMA HostsSame ==
  ASSUME NEW q, NEW r, q.direction = r.direction, q.from = r.from, q.to = r.to, NEW from, NEW to, NEW rest
  PROVE  /\ HostsSaid(q, from, to) => HostsSaid(r, from, to)
         /\ HostsThen(q, from, to, rest) = HostsThen(r, from, to, rest)
<1>1. HostsSaid(q, from, to) => HostsSaid(r, from, to)
  BY DEF HostsSaid
<1>2. HostsThen(q, from, to, rest) = HostsThen(r, from, to, rest)
  BY DEF HostsThen
<1>. QED  BY <1>1, <1>2

\* The part of a spelling that is not the rule.
Spelling(rule, from, to, when, do, end) ==
  [rule |-> rule, from |-> from, to |-> to, when |-> when, do |-> do, end |-> end]
LEMMA SpellingParts ==
  ASSUME NEW rule, NEW from, NEW to, NEW when, NEW do, NEW end
  PROVE  LET sp == Spelling(rule, from, to, when, do, end) IN
         /\ sp.rule = rule /\ sp.from = from /\ sp.to = to
         /\ sp.when = when /\ sp.do = do /\ sp.end = end
BY DEF Spelling

\* The condition that a text says, or says nothing of; and the task.
WhenSays(when, v, text, rest) ==
  /\ when \in BOOLEAN
  /\ IF when THEN NamedFits(v, Conditions) ELSE v = Blanks.condition
  /\ text = IF when THEN WordThen("when", NamedThen(v, rest)) ELSE rest
DoSays(do, m, v, text, rest) ==
  /\ do \in BOOLEAN
  /\ IF do THEN m \in DoModes.names /\ NamedFits(v, Tasks) ELSE m = Blanks.mode /\ v = Blanks.task
  /\ text = IF do THEN WordThen(m, NamedThen(v, rest)) ELSE rest

LEMMA WhenSpelled ==
  ASSUME NEW text, NEW rest, WhenIs(text, rest)
  PROVE  \E when, v : WhenSays(when, v, text, rest)
<1>1. CASE text = rest
  <2>1. WhenSays(FALSE, Blanks.condition, text, rest)
    BY <1>1 DEF WhenSays
  <2>. QED  BY <2>1
<1>2. CASE \E v : NamedFits(v, Conditions) /\ text = WordThen("when", NamedThen(v, rest))
  <2>1. PICK v : NamedFits(v, Conditions) /\ text = WordThen("when", NamedThen(v, rest))
    BY <1>2
  <2>2. WhenSays(TRUE, v, text, rest)
    BY <2>1 DEF WhenSays
  <2>. QED  BY <2>2
<1>. QED  BY <1>1, <1>2 DEF WhenIs

LEMMA DoSpelled ==
  ASSUME NEW text, NEW rest, DoIs(text, rest)
  PROVE  \E do, m, v : DoSays(do, m, v, text, rest)
<1>1. CASE text = rest
  <2>1. DoSays(FALSE, Blanks.mode, Blanks.task, text, rest)
    BY <1>1 DEF DoSays
  <2>. QED  BY <2>1
<1>2. CASE \E m, v : m \in DoModes.names /\ NamedFits(v, Tasks) /\ text = WordThen(m, NamedThen(v, rest))
  <2>1. PICK m, v : m \in DoModes.names /\ NamedFits(v, Tasks) /\ text = WordThen(m, NamedThen(v, rest))
    BY <1>2
  <2>2. DoSays(TRUE, m, v, text, rest)
    BY <2>1 DEF DoSays
  <2>. QED  BY <2>2
<1>. QED  BY <1>1, <1>2 DEF DoIs

\* The parts of a text, one after the other, are a spelling.
LEMMA PartsSpelled ==
  ASSUME NEW text, NEW n \in DOMAIN Numbers, NEW p \in Protos.names, NEW hosts,
         text = WordThen(n, WordThen("on", WordThen(p, hosts))),
         NEW conds, HostsAre(hosts, conds), NEW does, WhenIs(conds, does), NEW next, DoIs(does, next),
         NEW last, GotoIs(next, last), NEW end \in BOOLEAN, last = EndThen(end)
  PROVE  \E sp : Spells(sp) /\ text = RuleText(sp)
<1>1. PICK d, f, t : HostsOf(hosts, conds, Ends(d, f, t))
  BY HostsSpelled
<1>2. PICK from, to : HostsSaid(Ends(d, f, t), from, to) /\ hosts = HostsThen(Ends(d, f, t), from, to, conds)
  BY <1>1 DEF HostsOf
<1>3. PICK when, c : WhenSays(when, c, conds, does)
  BY WhenSpelled
<1>4. PICK do, m, v : DoSays(do, m, v, does, next)
  BY DoSpelled
<1>5. PICK g : NextFits(g) /\ next = GotoThen(g, last)
  BY DEF GotoIs
<1> DEFINE w == RuleWith(n, p, d, f, t, c, m, v, g)
<1>6. /\ IsRule(w) /\ w["pos"] = n /\ w["proto"] = p /\ w["direction"] = d
      /\ w["from"] = f /\ w["to"] = t /\ w["condition"] = c /\ w["mode"] = m
      /\ w["task"] = v /\ w["next"] = g
  BY RuleMade
<1>. HIDE DEF w
<1>7. HostsSaid(w, from, to) /\ hosts = HostsThen(w, from, to, conds)
  <2> DEFINE q == Ends(d, f, t)
  <2>1. q.direction = w.direction /\ q.from = w.from /\ q.to = w.to
    BY <1>6, EndsParts
  <2>2. HostsSaid(q, from, to) /\ hosts = HostsThen(q, from, to, conds)
    BY <1>2
  <2>. HIDE DEF q
  <2>. QED  BY <2>1, <2>2, HostsSame
<1> DEFINE sp == Spelling(w, from, to, when, do, end)
<1>8. /\ sp.rule = w /\ sp.from = from /\ sp.to = to
      /\ sp.when = when /\ sp.do = do /\ sp.end = end
  BY SpellingParts
<1>. HIDE DEF sp
<1>9. Spells(sp)
  <2>1. IsRule(w) /\ w["pos"] \in DOMAIN Numbers /\ w["proto"] \in Protos.names /\ HostsSaid(w, from, to)
    BY <1>6, <1>7
  <2>2. IF when THEN NamedFits(w["condition"], Conditions) ELSE w["condition"] = Blanks.condition
    BY <1>3, <1>6 DEF WhenSays
  <2>3. IF do THEN w["mode"] \in DoModes.names /\ NamedFits(w["task"], Tasks)
        ELSE w["mode"] = Blanks.mode /\ w["task"] = Blanks.task
    BY <1>4, <1>6 DEF DoSays
  <2>4. NextFits(w["next"])
    BY <1>5, <1>6
  <2>5. when \in BOOLEAN /\ do \in BOOLEAN /\ end \in BOOLEAN
    BY <1>3, <1>4 DEF WhenSays, DoSays
  <2>. QED  BY <1>8, <2>1, <2>2, <2>3, <2>4, <2>5 DEF Spells
<1>10. text = RuleText(sp)
  <2>1. TextNext(sp) = next
    BY <1>5, <1>6, <1>8 DEF TextNext
  <2>2. TextDo(sp) = does
    BY <1>4, <1>6, <1>8, <2>1 DEF TextDo, DoSays
  <2>3. TextWhen(sp) = conds
    BY <1>3, <1>6, <1>8, <2>2 DEF TextWhen, WhenSays
  <2>4. TextHosts(sp) = hosts
    BY <1>7, <1>8, <2>3 DEF TextHosts
  <2>. QED  BY <1>6, <1>8, <2>4 DEF RuleText
<1>. QED  BY <1>9, <1>10

\* The state at the end of a text, and what was read on the way.
LEMMA SaneStart == ASSUME NEW text \in Texts PROVE Sane(Start(text), Len(text))
<1>1. Len(text) \in Nat /\ 0 \in 0 .. Len(text) + 1
  BY DEF Texts
<1>2. Start(text).left = text /\ Start(text).ok /\ Start(text).err = 0 /\ Start(text).dest = Blanks
  BY DEF Start, State
<1>. QED  BY <1>1, <1>2, Begin DEF Sane

LEMMA AllCame ==
  ASSUME NEW text \in Texts
  PROVE  LET s == Start(text)
             r == Suite(Finish(Goto(Do(When(Hosts(Line(s)))))), s)
         IN /\ Sane(r, Len(text)) /\ (r.ok => r.err = 0)
            /\ r.ok => \E sp : Spells(sp) /\ text = RuleText(sp)
<1> DEFINE s == Start(text)
           l == Line(s)
           h == Hosts(l)
           w == When(h)
           d == Do(w)
           g == Goto(d)
           e == Finish(g)
           r == Suite(e, s)
           max == Len(text)
<1>0. Sane(s, max) /\ s.left = text
  <2>1. s.left = text
    BY DEF Start, State
  <2>. QED  BY <2>1, SaneStart
<1>. HIDE DEF s, max
<1>1. Sane(l, max) /\ (l.ok => s.ok /\ \E n \in DOMAIN Numbers, p \in Protos.names :
                                         s.left = WordThen(n, WordThen("on", WordThen(p, l.left))))
  BY <1>0, LineCame
<1>. HIDE DEF l
<1>2. Sane(h, max) /\ (h.ok => l.ok /\ HostsAre(l.left, h.left))
  BY <1>1, HostsCame
<1>. HIDE DEF h
<1>3. Sane(w, max) /\ (w.ok => h.ok /\ WhenIs(h.left, w.left))
  BY <1>2, WhenCame
<1>. HIDE DEF w
<1>4. Sane(d, max) /\ (d.ok => w.ok /\ DoIs(w.left, d.left))
  BY <1>3, DoCame
<1>. HIDE DEF d
<1>5. Sane(g, max) /\ (g.ok => d.ok /\ GotoIs(d.left, g.left))
  BY <1>4, GotoCame
<1>. HIDE DEF g
<1>6. Sane(e, max) /\ (e.ok => g.ok /\ \E end \in BOOLEAN : g.left = EndThen(end))
  BY <1>5, FinishCame
<1>. HIDE DEF e
<1>7. Sane(r, max) /\ (r.ok => e.ok /\ r.err = 0)
  BY <1>0, <1>6, SaneGathers, GathersCame
<1>. HIDE DEF r
<1>8. ASSUME r.ok PROVE \E sp : Spells(sp) /\ text = RuleText(sp)
  <2>1. PICK n \in DOMAIN Numbers, p \in Protos.names :
          s.left = WordThen(n, WordThen("on", WordThen(p, l.left)))
    BY <1>1, <1>2, <1>3, <1>4, <1>5, <1>6, <1>7, <1>8
  <2>2. PICK end \in BOOLEAN : g.left = EndThen(end)
    BY <1>6, <1>7, <1>8
  <2>3. HostsAre(l.left, h.left) /\ WhenIs(h.left, w.left) /\ DoIs(w.left, d.left) /\ GotoIs(d.left, g.left)
    BY <1>2, <1>3, <1>4, <1>5, <1>6, <1>7, <1>8
  <2>. QED  BY <1>0, <2>1, <2>2, <2>3, PartsSpelled
<1>. QED  BY <1>7, <1>8 DEF r, e, g, d, w, h, l, s, max

\* An acceptance is that of a text that is well written, and of the rule that it says.
LEMMA AcceptedSpelled ==
  ASSUME NEW text \in Texts, Parse(text).ok
  PROVE  \E sp : Spells(sp) /\ text = RuleText(sp) /\ Parse(text).rule = sp.rule
<1> DEFINE s == Start(text)
           r == Suite(Finish(Goto(Do(When(Hosts(Line(s)))))), s)
<1>1. Parse(text).ok = r.ok
  BY DEF Parse, Answer
<1>2. r.ok => \E sp : Spells(sp) /\ text = RuleText(sp)
  BY AllCame
<1>. HIDE DEF r
<1>3. PICK sp : Spells(sp) /\ text = RuleText(sp)
  BY <1>1, <1>2
<1>. QED  BY <1>3, SpelledParsed

\* An acceptance has no error and a refusal one.
LEMMA ErrorOrAccepted ==
  ASSUME NEW text \in Texts
  PROVE  LET p == Parse(text) IN
         p.ok \in BOOLEAN /\ p.err \in 0 .. Len(text) + 1 /\ (p.ok <=> p.err = 0)
<1> DEFINE s == Start(text)
           r == Suite(Finish(Goto(Do(When(Hosts(Line(s)))))), s)
           p == Parse(text)
<1>1. p.ok = r.ok /\ p.err = IF r.err = 0 THEN 0 ELSE Len(text) + 2 - r.err
  BY DEF Parse, Answer
<1>2. Sane(r, Len(text)) /\ (r.ok => r.err = 0)
  BY AllCame
<1>. HIDE DEF r, p
<1>3. r.ok \in BOOLEAN /\ r.err \in 0 .. Len(text) + 1 /\ (r.err = 0 => r.ok) /\ Len(text) \in Nat
  BY <1>2, SaneParts
<1>. QED  BY <1>1, <1>2, <1>3 DEF p

\* Every text that is accepted is well written, from its first lexeme to its last, and the rule that
\* the parser makes of it is the one that is written (Action_parse).  Nothing is said of the texts
\* that take the parser behind the tables of emit and mark-done, which have no last entry.
THEOREM ParsedSpelled ==
  ASSUME NEW text \in Texts, ~Strays(text), Parse(text).ok
  PROVE  \E sp : Spells(sp) /\ text = RuleText(sp) /\ Parse(text).rule = sp.rule
BY AcceptedSpelled

\* A text is either accepted without an error or refused with one, which is in the text or at its
\* end (ParserStatus, parser.c), but for those that take the parser behind the tables of emit and
\* mark-done.
THEOREM ErrorOrRule ==
  ASSUME NEW text \in Texts, ~Strays(text)
  PROVE  LET p == Parse(text) IN
         p.ok \in BOOLEAN /\ p.err \in 0 .. Len(text) + 1 /\ (p.ok <=> p.err = 0)
BY ErrorOrAccepted

-----------------------------------------------------------------------------
(* What list writes of a rule is a text of the rule.                        *)

LEMMA Paired == ASSUME NEW a \in Lexemes, NEW b \in Lexemes
                PROVE  <<a, b>> = <<a>> \o <<b>> /\ <<a>> \in Texts /\ <<b>> \in Texts /\ <<a, b>> \in Texts
<1>1. <<a, b>> = <<a>> \o <<b>>
  <2> DEFINE x == <<a>>
             y == <<b>>
             t == x \o y
  <2>1. x \in Seq(Lexemes) /\ y \in Seq(Lexemes) /\ Len(x) = 1 /\ Len(y) = 1 /\ x[1] = a /\ y[1] = b
    OBVIOUS
  <2>. HIDE DEF x, y
  <2>2. t \in Seq(Lexemes) /\ Len(t) = 2 /\ t[1] = a /\ t[2] = b
    <3>1. /\ t \in Seq(Lexemes) /\ Len(t) = Len(x) + Len(y)
          /\ \A i \in 1 .. Len(x) + Len(y) : t[i] = IF i <= Len(x) THEN x[i] ELSE y[i - Len(x)]
      BY <2>1, ConcatProperties
    <3>. HIDE DEF t
    <3>2. \A i \in 1 .. 2 : t[i] = IF i <= 1 THEN x[i] ELSE y[i - 1]
      BY <2>1, <3>1
    <3>3. t[1] = x[1] /\ t[2] = y[1]
      BY <3>2
    <3>. QED  BY <2>1, <3>1, <3>3
  <2>. HIDE DEF t
  <2>3. t = <<a, b>>
    BY <2>2
  <2>. QED  BY <2>3 DEF t, x, y
<1>2. <<a>> \in Texts /\ <<b>> \in Texts
  BY DEF Texts
<1>3. <<a, b>> \in Texts
  BY DEF Texts
<1>. QED  BY <1>1, <1>2, <1>3

LEMMA SpLexeme == Sp \in Lexemes /\ <<>> \in Texts
BY DEF Lexemes, Keywords, Texts

\* Words that are written with the space after each of them.
LEMMA ShownOne ==
  ASSUME NEW a \in Lexemes, NEW rest \in Texts
  PROVE  <<a, Sp>> \in Texts /\ <<a, Sp>> \o rest = WordThen(a, rest)
<1>1. <<a, Sp>> = <<a>> \o <<Sp>> /\ <<a>> \in Texts /\ <<Sp>> \in Texts /\ <<a, Sp>> \in Texts
  BY Paired, SpLexeme
<1>2. (<<a>> \o <<Sp>>) \o rest = <<a>> \o (<<Sp>> \o rest)
  <2> DEFINE x == <<a>>
             y == <<Sp>>
  <2>1. x \in Texts /\ y \in Texts
    BY <1>1
  <2>. HIDE DEF x, y
  <2>2. (x \o y) \o rest = x \o (y \o rest)
    BY <2>1, Regroup
  <2>. QED  BY <2>2 DEF x, y
<1>. QED  BY <1>1, <1>2 DEF WordThen

LEMMA ShownTwo ==
  ASSUME NEW a \in Lexemes, NEW b \in Lexemes, NEW rest \in Texts
  PROVE  <<a, Sp, b, Sp>> \in Texts /\ <<a, Sp, b, Sp>> \o rest = WordThen(a, WordThen(b, rest))
<1>1. <<a, Sp>> \in Texts /\ <<b, Sp>> \in Texts
  BY ShownOne
<1>2. <<a, Sp, b, Sp>> = <<a, Sp>> \o <<b, Sp>>
  BY SpLexeme DEF Texts
<1>3. (<<a, Sp>> \o <<b, Sp>>) \o rest = <<a, Sp>> \o (<<b, Sp>> \o rest) /\ <<a, Sp>> \o <<b, Sp>> \in Texts
  BY <1>1, Assoc
<1>4. <<b, Sp>> \o rest = WordThen(b, rest) /\ WordThen(b, rest) \in Texts
  BY ShownOne, WordThenText
<1>5. <<a, Sp>> \o WordThen(b, rest) = WordThen(a, WordThen(b, rest))
  BY <1>4, ShownOne
<1>. QED  BY <1>2, <1>3, <1>4, <1>5

LEMMA ShownThree ==
  ASSUME NEW a \in Lexemes, NEW b \in Lexemes, NEW c \in Lexemes, NEW rest \in Texts
  PROVE  /\ <<a, Sp, b, Sp, c, Sp>> \in Texts
         /\ <<a, Sp, b, Sp, c, Sp>> \o rest = WordThen(a, WordThen(b, WordThen(c, rest)))
<1>1. <<a, Sp, b, Sp>> \in Texts /\ <<c, Sp>> \in Texts
  BY ShownOne, ShownTwo
<1>2. <<a, Sp, b, Sp, c, Sp>> = <<a, Sp, b, Sp>> \o <<c, Sp>>
  BY SpLexeme DEF Texts
<1>3. /\ (<<a, Sp, b, Sp>> \o <<c, Sp>>) \o rest = <<a, Sp, b, Sp>> \o (<<c, Sp>> \o rest)
      /\ <<a, Sp, b, Sp>> \o <<c, Sp>> \in Texts
  BY <1>1, Assoc
<1>4. <<c, Sp>> \o rest = WordThen(c, rest) /\ WordThen(c, rest) \in Texts
  BY ShownOne, WordThenText
<1>5. <<a, Sp, b, Sp>> \o WordThen(c, rest) = WordThen(a, WordThen(b, WordThen(c, rest)))
  BY <1>4, ShownTwo
<1>. QED  BY <1>2, <1>3, <1>4, <1>5

\* A space, a word and a space; and two words of which the second goes on.
LEMMA ShownBetween ==
  ASSUME NEW a \in Lexemes, NEW b \in Lexemes, NEW rest \in Texts
  PROVE  /\ <<Sp, a, Sp>> \in Texts /\ <<Sp, a, Sp>> \o rest = Sep(WordThen(a, rest))
         /\ <<a, Sp, b>> \in Texts /\ <<a, Sp, b>> \o rest = WordThen(a, <<b>> \o rest)
<1>1. <<a, Sp>> \in Texts /\ <<Sp>> \in Texts /\ <<b>> \in Texts
  BY ShownOne, Paired, SpLexeme
<1>2. <<Sp, a, Sp>> = <<Sp>> \o <<a, Sp>> /\ <<a, Sp, b>> = <<a, Sp>> \o <<b>>
  BY SpLexeme DEF Texts
<1>3. /\ (<<Sp>> \o <<a, Sp>>) \o rest = <<Sp>> \o (<<a, Sp>> \o rest) /\ <<Sp>> \o <<a, Sp>> \in Texts
      /\ (<<a, Sp>> \o <<b>>) \o rest = <<a, Sp>> \o (<<b>> \o rest) /\ <<a, Sp>> \o <<b>> \in Texts
  <2> DEFINE x == <<a, Sp>>
             y == <<Sp>>
             z == <<b>>
  <2>1. x \in Texts /\ y \in Texts /\ z \in Texts
    BY <1>1
  <2>. HIDE DEF x, y, z
  <2>2. (y \o x) \o rest = y \o (x \o rest) /\ y \o x \in Texts
    BY <2>1, Assoc
  <2>3. (x \o z) \o rest = x \o (z \o rest) /\ x \o z \in Texts
    BY <2>1, Assoc
  <2>. QED  BY <2>2, <2>3 DEF x, y, z
<1>4. <<a, Sp>> \o rest = WordThen(a, rest)
  BY ShownOne
<1>5. <<b>> \o rest \in Texts
  BY Lexeme
<1>6. <<a, Sp>> \o (<<b>> \o rest) = WordThen(a, <<b>> \o rest)
  BY <1>5, ShownOne
<1>7. <<Sp>> \o WordThen(a, rest) = Sep(WordThen(a, rest))
  BY DEF Sep
<1>. QED  BY <1>2, <1>3, <1>4, <1>6, <1>7

LEMMA ShownArgs ==
  ASSUME NEW v, ArgsFit(v), NEW rest \in Texts
  PROVE  ShowArgs(v) \in Texts /\ ShowArgs(v) \o rest = ArgsThen(v, rest)
<1> DEFINE n == v[1]
<1>0. \A x \in DOMAIN Numbers : x \in Lexemes
  BY NumberWord
<1>1. CASE n \in Bare
  <2>1. ShowArgs(v) = <<>> /\ ArgsThen(v, rest) = rest
    BY <1>1 DEF ShowArgs, ArgsThen, Words, Bare
  <2>. QED  BY <2>1, SpLexeme, ConcatEmptySeq DEF Texts
<1>2. CASE n \in Numbered \cup Checked \cup {"error", "emit"}
  <2>1. v[2] \in Lexemes
    BY <1>0, <1>2, ArgsWords DEF ArgsFit, Bare, Numbered, Checked, Words
  <2>2. ShowArgs(v) = <<v[2], Sp>>
    BY <1>2 DEF ShowArgs, Numbered, Checked, Words
  <2>3. ArgsThen(v, rest) = WordThen(v[2], rest)
    BY <1>2 DEF ArgsThen, Numbered, Checked, Words, Bare
  <2>. QED  BY <2>1, <2>2, <2>3, ShownOne
<1>3. CASE n \in Words
  <2>1. IsWord(v[2])
    BY <1>3 DEF ArgsFit, Bare, Numbered, Checked, Words
  <2>2. ShowArgs(v) = v[2] \o <<Sp>>
    BY <1>3 DEF ShowArgs, Words
  <2>3. ArgsThen(v, rest) = v[2] \o Sep(rest)
    BY <1>3 DEF ArgsThen, Words, Bare
  <2> DEFINE w == v[2]
             x == <<Sp>>
  <2>4. w \in Texts /\ x \in Texts
    BY <2>1, Paired, SpLexeme DEF IsWord
  <2>. HIDE DEF w, x
  <2>5. w \o x \in Texts /\ (w \o x) \o rest = w \o (x \o rest)
    <3>1. (w \o x) \o rest = w \o (x \o rest)
      BY <2>4, Regroup
    <3>. QED  BY <2>4, <3>1, Joins
  <2>. QED  BY <2>2, <2>3, <2>5 DEF w, x, Sep
<1>4. CASE n \in {"between", "mark-done"}
  <2>1. v[2] \in Lexemes /\ v[3] \in Lexemes
    BY <1>0, <1>4, ArgsWords DEF ArgsFit, Bare, Numbered, Checked, Words
  <2>2. ShowArgs(v) = <<v[2], Sp, v[3], Sp>>
    BY <1>4 DEF ShowArgs, Words
  <2>3. ArgsThen(v, rest) = WordThen(v[2], WordThen(v[3], rest))
    BY <1>4 DEF ArgsThen, Words, Bare
  <2>. QED  BY <2>1, <2>2, <2>3, ShownTwo
<1>5. CASE n = "cycle"
  <2>1. v[2] \in Lexemes /\ v[3] \in Lexemes /\ v[4] \in Lexemes
    BY <1>0, <1>5, ArgsWords DEF ArgsFit, Bare, Numbered, Checked, Words
  <2>2. ShowArgs(v) = <<v[2], Sp, v[3], Sp, v[4], Sp>>
    BY <1>5 DEF ShowArgs, Words
  <2>3. ArgsThen(v, rest) = WordThen(v[2], WordThen(v[3], WordThen(v[4], rest)))
    BY <1>5 DEF ArgsThen, Words, Bare
  <2>. QED  BY <2>1, <2>2, <2>3, ShownThree, SMTT(40)
<1>6. \/ n \in Bare \/ n \in Numbered \cup Checked \cup {"error", "emit"} \/ n \in Words
      \/ n \in {"between", "mark-done"} \/ n = "cycle"
  BY DEF ArgsFit
<1>. QED  BY <1>1, <1>2, <1>3, <1>4, <1>5, <1>6

LEMMA ShownNamed ==
  ASSUME NEW v, NEW names, NamedFits(v, names), v[1] # "truncate", NEW rest \in Texts
  PROVE  ShowNamed(v) \in Texts /\ ShowNamed(v) \o rest = NamedThen(v, rest)
<1> DEFINE x == <<v[1], Sp>>
           y == ShowArgs(v)
<1>1. ShowNamed(v) = x \o y
  BY DEF ShowNamed, Written
<1>2. y \in Texts /\ y \o rest = ArgsThen(v, rest) /\ ArgsThen(v, rest) \in Texts
  BY ShownArgs, ArgsText DEF NamedFits
<1>3. x \in Texts /\ x \o ArgsThen(v, rest) = NamedThen(v, rest)
  BY <1>2, ShownOne DEF NamedFits, NamedThen
<1>. HIDE DEF x, y
<1>4. x \o y \in Texts /\ (x \o y) \o rest = x \o (y \o rest)
  BY <1>2, <1>3, Assoc
<1>. QED  BY <1>1, <1>2, <1>3, <1>4

\* The words that list writes of a host.
NameOf(h) == IF h.type = "address" THEN h.addr ELSE h.type
Ported(h) == h.port # "any" /\ h.type # "dns"
EndOf(h)  == [name |-> <<NameOf(h)>>, port |-> IF Ported(h) THEN <<h.port>> ELSE <<>>]

LEMMA KeptParts ==
  ASSUME NEW h, h = [type |-> h.type, addr |-> h.addr, port |-> h.port]
  PROVE  LET k == Kept(h) IN
         /\ k = [type |-> k.type, addr |-> k.addr, port |-> k.port]
         /\ k.type = h.type /\ k.addr = h.addr
         /\ k.port = IF h.type = "dns" THEN "any" ELSE h.port
BY DEF Kept

LEMMA KeptSaid ==
  ASSUME NEW n, NEW p, NEW h, HostSays(n, p, h)
  PROVE  /\ HostSays(EndOf(h).name, EndOf(h).port, Kept(h))
         /\ NameOf(h) \in Lexemes /\ (Ported(h) => h.port \in Lexemes)
<1> DEFINE k == Kept(h)
           a == NameOf(h)
           x == EndOf(h)
<1>1. /\ k = [type |-> k.type, addr |-> k.addr, port |-> k.port]
      /\ k.type = h.type /\ k.addr = h.addr
      /\ k.port = IF h.type = "dns" THEN "any" ELSE h.port
  BY KeptParts DEF HostSays
<1>2. x.name = <<a>> /\ x.port = IF Ported(h) THEN <<h.port>> ELSE <<>>
  BY DEF EndOf
<1>. HIDE DEF k, x
<1>3. NameSays(<<a>>, k) /\ a \in Lexemes
  <2>1. CASE h.type \in Specials.names
    <3>1. a = h.type /\ h.addr = "0"
      BY <2>1, SpecialsWords DEF NameOf, HostSays, NameSays
    <3>. QED  BY <1>1, <2>1, <3>1, SpecialsWords DEF NameSays
  <2>2. CASE h.type \notin Specials.names
    <3>1. h.type = "address" /\ n \in DOMAIN Addresses /\ h.addr = Addresses[n] /\ a = Addresses[n]
      BY <2>2 DEF NameOf, HostSays, NameSays
    <3>. HIDE DEF a
    <3>2. a \in STRING \ (WordStops \cup Specials.names) /\ <<a>> \in DOMAIN Addresses /\ Addresses[<<a>>] = a
      BY <3>1, GrammarAssumption
    <3>3. a \in Lexemes /\ a \notin WordStops /\ a \notin Specials.names
      BY <3>2 DEF Lexemes
    <3>4. IsWord(<<a>>) /\ <<a>>[1] = a
      BY <3>3, OneWord
    <3>. QED  BY <1>1, <3>1, <3>2, <3>3, <3>4 DEF NameSays
  <2>. QED  BY <2>1, <2>2
<1>4. PortSays(x.port, k) /\ (Ported(h) => h.port \in Lexemes)
  <2>1. h.port # "any" => h.port \in DOMAIN Numbers
    BY GrammarAssumption DEF HostSays, PortSays
  <2>2. CASE Ported(h)
    <3>1. x.port = <<k.port>> /\ k.port \in DOMAIN Numbers /\ k.port = h.port
      BY <1>1, <1>2, <2>1, <2>2 DEF Ported
    <3>. QED  BY <3>1, NumberWord DEF PortSays
  <2>3. CASE ~Ported(h)
    <3>1. x.port = <<>> /\ k.port = "any"
      BY <1>1, <1>2, <2>3 DEF Ported
    <3>. QED  BY <2>3, <3>1 DEF PortSays
  <2>. QED  BY <2>2, <2>3
<1>. QED  BY <1>1, <1>2, <1>3, <1>4 DEF HostSays, x, k

\* A host and its port, as they follow a keyword.
PortThen(h, rest) == IF Ported(h) THEN WordThen("port", WordThen(h.port, rest)) ELSE rest

LEMMA ShownName ==
  ASSUME NEW n, NEW p, NEW h, HostSays(n, p, h), NEW kw \in Texts, NEW rest \in Texts
  PROVE  /\ PortThen(h, rest) \in Texts /\ ShowHost(kw, h) \in Texts
         /\ ShowHost(kw, h) \o rest = kw \o Sep(WordThen(NameOf(h), PortThen(h, rest)))
<1> DEFINE a == NameOf(h)
           x == <<Sp, a, Sp>>
           y == IF h.port # "any" /\ h.type # "dns" THEN <<"port", Sp, h.port, Sp>> ELSE <<>>
           m == PortThen(h, rest)
<1>1. h.type = "none" => FALSE
  BY DEF HostSays, NameSays, Specials, Table
<1>2. ShowHost(kw, h) = (kw \o x) \o y
  <2>1. (CASE h.type = "none" -> "?none?" [] h.type = "address" -> h.addr [] OTHER -> h.type) = a
    BY <1>1 DEF NameOf
  <2>. HIDE DEF a
  <2>. QED  BY <2>1 DEF ShowHost
<1>3. a \in Lexemes /\ (Ported(h) => h.port \in Lexemes) /\ "port" \in Lexemes
  BY KeptSaid DEF Lexemes, Keywords
<1>. HIDE DEF a
<1>4. y \in Texts /\ y \o rest = m /\ m \in Texts
  <2>1. CASE Ported(h)
    <3>1. y = <<"port", Sp, h.port, Sp>> /\ m = WordThen("port", WordThen(h.port, rest))
      BY <2>1 DEF Ported, PortThen
    <3>2. WordThen(h.port, rest) \in Texts
      BY <1>3, <2>1, WordThenText
    <3>3. WordThen("port", WordThen(h.port, rest)) \in Texts
      BY <1>3, <3>2, WordThenText
    <3>. QED  BY <1>3, <2>1, <3>1, <3>3, ShownTwo
  <2>2. CASE ~Ported(h)
    <3>1. y = <<>> /\ m = rest
      BY <2>2 DEF Ported, PortThen
    <3>. QED  BY <3>1, SpLexeme, ConcatEmptySeq DEF Texts
  <2>. QED  BY <2>1, <2>2
<1>. HIDE DEF m, y
<1>5. x \in Texts /\ x \o m = Sep(WordThen(a, m))
  BY <1>3, <1>4, ShownBetween
<1>. HIDE DEF x
<1>6. kw \o x \in Texts /\ (kw \o x) \o m = kw \o (x \o m)
  <2>1. kw \in Texts /\ x \in Texts /\ m \in Texts
    BY <1>4, <1>5
  <2>2. (kw \o x) \o m = kw \o (x \o m)
    BY <2>1, Regroup
  <2>. QED  BY <2>1, <2>2, Joins
<1>7. (kw \o x) \o y \in Texts /\ ((kw \o x) \o y) \o rest = (kw \o x) \o (y \o rest)
  <2> DEFINE z == kw \o x
  <2>1. z \in Texts
    BY <1>6
  <2>. HIDE DEF z
  <2>2. z \o y \in Texts /\ (z \o y) \o rest = z \o (y \o rest)
    <3>1. (z \o y) \o rest = z \o (y \o rest)
      BY <1>4, <2>1, Regroup
    <3>. QED  BY <1>4, <2>1, <3>1, Joins
  <2>. QED  BY <2>2 DEF z
<1>. QED  BY <1>2, <1>4, <1>5, <1>6, <1>7 DEF a, m

LEMMA EndThenHost ==
  ASSUME NEW n, NEW p, NEW h, HostSays(n, p, h), NEW kw \in Lexemes, NEW rest \in Texts
  PROVE  HostThen(kw, EndOf(h), rest) = WordThen(kw, WordThen(NameOf(h), PortThen(h, rest)))
<1> DEFINE x == EndOf(h)
           a == NameOf(h)
           after == Sep(rest)
           q == x.port
<1>1. HostSays(x.name, x.port, Kept(h)) /\ a \in Lexemes /\ (Ported(h) => h.port \in Lexemes)
  BY KeptSaid
<1>2. x.name = <<a>> /\ q = IF Ported(h) THEN <<h.port>> ELSE <<>>
  BY DEF EndOf
<1>3. after \in Texts /\ NextOf(after) \in WordStops
  BY SepText
<1>4. HostThen(kw, x, rest) = HostText(kw, x.name, q) \o after
  BY DEF HostThen, Sep
<1>. HIDE DEF x, a, after
<1>5. HostText(kw, x.name, q) \o after = WordThen(kw, x.name \o (PortText(q) \o after))
  BY <1>1, <1>3, HostTexts
<1>6. CASE Ported(h)
  <2>1. q # <<>> /\ PortSays(q, Kept(h))
    BY <1>1, <1>2, <1>6 DEF HostSays
  <2>. HIDE DEF q
  <2>2. PortText(q) \o after = <<Sp>> \o (<<"port">> \o (<<Sp>> \o (q \o after)))
    BY <1>3, <2>1, PortTexts
  <2>3. q \o after = WordThen(h.port, rest)
    BY <1>2, <1>6 DEF after, WordThen, Sep
  <2>4. PortText(q) \o after = Sep(WordThen("port", WordThen(h.port, rest)))
    <3> DEFINE y == WordThen(h.port, rest)
    <3>1. PortText(q) \o after = <<Sp>> \o (<<"port">> \o (<<Sp>> \o y))
      BY <2>2, <2>3
    <3>. HIDE DEF y
    <3>2. PortText(q) \o after = Sep(WordThen("port", y))
      BY <3>1 DEF WordThen, Sep
    <3>. QED  BY <3>2 DEF y
  <2>5. PortThen(h, rest) = WordThen("port", WordThen(h.port, rest))
    BY <1>6 DEF PortThen
  <2>6. x.name \o (PortText(q) \o after) = <<a>> \o Sep(PortThen(h, rest))
    BY <1>2, <2>4, <2>5
  <2>7. <<a>> \o Sep(PortThen(h, rest)) = WordThen(a, PortThen(h, rest))
    BY DEF WordThen, Sep
  <2>. QED  BY <1>4, <1>5, <2>6, <2>7 DEF x, a, q
<1>7. CASE ~Ported(h)
  <2>1. q = <<>>
    BY <1>2, <1>7
  <2>2. PortText(q) \o after = after
    BY <1>3, <2>1, ConcatEmptySeq DEF PortText, Texts
  <2>3. PortThen(h, rest) = rest
    BY <1>7 DEF PortThen
  <2>4. x.name \o after = WordThen(a, rest)
    BY <1>2 DEF WordThen, Sep, after
  <2>. HIDE DEF q
  <2>. QED  BY <1>4, <1>5, <2>2, <2>3, <2>4 DEF x, a, q
<1>. QED  BY <1>6, <1>7

\* A host after its keyword, and one after the two words of connect to or close to.
LEMMA ShownAt ==
  ASSUME NEW n, NEW p, NEW h, HostSays(n, p, h), NEW kw \in Lexemes, NEW rest \in Texts
  PROVE  ShowHost(<<kw>>, h) \in Texts /\ ShowHost(<<kw>>, h) \o rest = HostThen(kw, EndOf(h), rest)
<1> DEFINE m == WordThen(NameOf(h), PortThen(h, rest))
           k == <<kw>>
           s == Sep(m)
<1>1. k \in Texts
  BY Paired
<1>2. k \o s = WordThen(kw, m)
  BY DEF WordThen, Sep
<1>3. HostThen(kw, EndOf(h), rest) = WordThen(kw, m)
  BY EndThenHost
<1>4. ShowHost(k, h) \in Texts /\ ShowHost(k, h) \o rest = k \o s
  <2>. HIDE DEF k
  <2>. QED  BY <1>1, ShownName, ZenonT(60)
<1>. HIDE DEF s, m
<1>. QED  BY <1>2, <1>3, <1>4

LEMMA ShownTo ==
  ASSUME NEW n, NEW p, NEW h, HostSays(n, p, h), NEW c \in Lexemes, NEW rest \in Texts
  PROVE  /\ ShowHost(<<c, Sp, "to">>, h) \in Texts
         /\ ShowHost(<<c, Sp, "to">>, h) \o rest = WordThen(c, HostThen("to", EndOf(h), rest))
<1> DEFINE m == WordThen(NameOf(h), PortThen(h, rest))
           to == <<c, Sp, "to">>
           s == Sep(m)
<1>1. PortThen(h, rest) \in Texts
  BY ShownName
<1>2. m \in Texts
  BY <1>1, KeptSaid, WordThenText
<1>3. s \in Texts
  <2>. HIDE DEF m
  <2>. QED  BY <1>2, SepText
<1>4. to \in Texts /\ to \o s = WordThen(c, <<"to">> \o s)
  <2> DEFINE b == "to"
  <2>1. b \in Lexemes
    BY HostWords
  <2>. HIDE DEF b, s
  <2>2. <<c, Sp, b>> \in Texts /\ <<c, Sp, b>> \o s = WordThen(c, <<b>> \o s)
    BY <1>3, <2>1, ShownBetween
  <2>. QED  BY <2>2 DEF b
<1>5. <<"to">> \o s = WordThen("to", m)
  BY DEF WordThen, Sep
<1>6. HostThen("to", EndOf(h), rest) = WordThen("to", m)
  BY EndThenHost, HostWords
<1>7. ShowHost(to, h) \in Texts /\ ShowHost(to, h) \o rest = to \o s
  <2>1. to \in Texts
    BY <1>4
  <2>. HIDE DEF to
  <2>. QED  BY <2>1, ShownName, ZenonT(60)
<1>. HIDE DEF s, m
<1>. QED  BY <1>4, <1>5, <1>6, <1>7

\* The same, as one thing that is said of a host.
HasShown(kw, h, rest) ==
  ShowHost(<<kw>>, h) \in Texts /\ ShowHost(<<kw>>, h) \o rest = HostThen(kw, EndOf(h), rest)
HasShownTo(c, h, rest) ==
  /\ ShowHost(<<c, Sp, "to">>, h) \in Texts
  /\ ShowHost(<<c, Sp, "to">>, h) \o rest = WordThen(c, HostThen("to", EndOf(h), rest))

LEMMA HostShown ==
  ASSUME NEW n, NEW p, NEW h, HostSays(n, p, h), NEW c \in Lexemes, NEW rest \in Texts
  PROVE  HasShown(c, h, rest) /\ HasShownTo(c, h, rest)
<1>1. HasShown(c, h, rest)
  BY ShownAt DEF HasShown
<1>2. HasShownTo(c, h, rest)
  BY ShownTo DEF HasShownTo
<1>. QED  BY <1>1, <1>2

LEMMA KeptNobody ==
  /\ Kept(Nobody) = Nobody /\ Nobody.type = "none"
  /\ \A n, p, h : HostSays(n, p, h) => Kept(h) # Nobody /\ h.type # "none"
<1>1. Kept(Nobody) = Nobody /\ Nobody.type = "none"
  BY DEF Kept, Nobody
<1>2. ASSUME NEW n, NEW p, NEW h, HostSays(n, p, h) PROVE Kept(h) # Nobody /\ h.type # "none"
  <2>1. h.type # "none"
    BY <1>2 DEF HostSays, NameSays, Specials, Table
  <2>2. Kept(h).type = h.type
    BY <1>2, KeptParts DEF HostSays
  <2>. QED  BY <1>1, <2>1, <2>2
<1>. QED  BY <1>1, <1>2

LEMMA ShownHosts ==
  ASSUME NEW r, NEW from, NEW to, HostsSaid(r, from, to), NEW rest \in Texts,
         NEW k, k.direction = r.direction, k.from = Kept(r.from), k.to = Kept(r.to)
  PROVE  /\ HostsSaid(k, EndOf(r.from), EndOf(r.to)) /\ ShowHosts(r) \in Texts
         /\ ShowHosts(r) \o rest = HostsThen(k, EndOf(r.from), EndOf(r.to), rest)
<1> DEFINE x == EndOf(r.from)
           y == EndOf(r.to)
<1>1. CASE r.direction = "any" /\ HostSays(from.name, from.port, r.from) /\ r.to = Nobody
  <2>1. HostSays(x.name, x.port, k.from) /\ k.to = Nobody
    BY <1>1, KeptSaid, KeptNobody
  <2>2. /\ ShowHost(<<"with">>, r.from) \in Texts
        /\ ShowHost(<<"with">>, r.from) \o rest = HostThen("with", x, rest)
    BY <1>1, ShownAt, HostWords
  <2>. HIDE DEF x, y
  <2>3. HostsSaid(k, x, y)
    BY <1>1, <2>1 DEF HostsSaid
  <2>4. ShowHosts(r) = ShowHost(<<"with">>, r.from) /\ HostsThen(k, x, y, rest) = HostThen("with", x, rest)
    BY <1>1 DEF ShowHosts, HostsThen
  <2>. QED  BY <2>2, <2>3, <2>4 DEF x, y
<1>2. CASE r.direction \in {"connecting", "closing"} /\ r.from = Nobody /\ HostSays(to.name, to.port, r.to)
  <2>1. HostSays(y.name, y.port, k.to) /\ k.from = Nobody
    BY <1>2, KeptSaid, KeptNobody
  <2>2. \A c \in {"connect", "close"} :
          /\ ShowHost(<<c, Sp, "to">>, r.to) \in Texts
          /\ ShowHost(<<c, Sp, "to">>, r.to) \o rest = WordThen(c, HostThen("to", y, rest))
    <3>1. ASSUME NEW c \in {"connect", "close"}
          PROVE  /\ ShowHost(<<c, Sp, "to">>, r.to) \in Texts
                 /\ ShowHost(<<c, Sp, "to">>, r.to) \o rest = WordThen(c, HostThen("to", y, rest))
      <4> DEFINE g == r.to
      <4>1. HostSays(to.name, to.port, g) /\ c \in Lexemes
        BY <1>2, HostWords
      <4>. HIDE DEF g
      <4>2. /\ ShowHost(<<c, Sp, "to">>, g) \in Texts
            /\ ShowHost(<<c, Sp, "to">>, g) \o rest = WordThen(c, HostThen("to", EndOf(g), rest))
        <5>1. HasShownTo(c, g, rest)
          BY <4>1, HostShown
        <5>. QED  BY <5>1 DEF HasShownTo
      <4>. QED  BY <4>2 DEF g
    <3>. QED  BY <3>1
  <2>. HIDE DEF x, y
  <2>3. HostsSaid(k, x, y)
    BY <1>2, <2>1 DEF HostsSaid
  <2>4. CASE r.direction = "connecting"
    <3>1. /\ ShowHosts(r) = ShowHost(<<"connect", Sp, "to">>, r.to)
          /\ HostsThen(k, x, y, rest) = WordThen("connect", HostThen("to", y, rest))
      BY <2>4 DEF ShowHosts, HostsThen
    <3>. QED  BY <2>2, <2>3, <3>1 DEF x, y
  <2>5. CASE r.direction = "closing"
    <3>1. /\ ShowHosts(r) = ShowHost(<<"close", Sp, "to">>, r.to)
          /\ HostsThen(k, x, y, rest) = WordThen("close", HostThen("to", y, rest))
      BY <2>5 DEF ShowHosts, HostsThen
    <3>. QED  BY <2>2, <2>3, <3>1 DEF x, y
  <2>. QED  BY <1>2, <2>4, <2>5
<1>3. CASE r.direction = "data" /\ HostSays(from.name, from.port, r.from) /\ r.to = Nobody
  <2>1. HostSays(x.name, x.port, k.from) /\ k.to = Nobody /\ r.to.type = "none"
    BY <1>3, KeptSaid, KeptNobody
  <2>2. /\ ShowHost(<<"talk-with">>, r.from) \in Texts
        /\ ShowHost(<<"talk-with">>, r.from) \o rest = HostThen("talk-with", x, rest)
    BY <1>3, ShownAt, HostWords
  <2>. HIDE DEF x, y
  <2>3. HostsSaid(k, x, y)
    BY <1>3, <2>1 DEF HostsSaid
  <2>4. ShowHosts(r) = ShowHost(<<"talk-with">>, r.from)
    BY <1>3, <2>1 DEF ShowHosts
  <2>5. HostsThen(k, x, y, rest) = HostThen("talk-with", x, rest)
    BY <1>3, <2>1 DEF HostsThen
  <2>. QED  BY <2>2, <2>3, <2>4, <2>5 DEF x, y
<1>4. CASE /\ r.direction = "data" /\ HostSays(from.name, from.port, r.from)
           /\ HostSays(to.name, to.port, r.to)
  <2>1. /\ HostSays(x.name, x.port, k.from) /\ HostSays(y.name, y.port, k.to)
        /\ k.to # Nobody /\ r.to.type # "none"
    BY <1>4, KeptSaid, KeptNobody
  <2>2. ShowHost(<<"to">>, r.to) \in Texts /\ ShowHost(<<"to">>, r.to) \o rest = HostThen("to", y, rest)
    <3>1. "to" \in Lexemes /\ y = EndOf(r.to)
      BY HostWords
    <3>2. HasShown("to", r.to, rest)
      BY <1>4, <3>1, HostShown
    <3>. QED  BY <3>1, <3>2 DEF HasShown
  <2>3. HostThen("to", y, rest) \in Texts
    BY <2>1, HostThenText, HostWords
  <2>4. /\ ShowHost(<<"from">>, r.from) \in Texts
        /\ ShowHost(<<"from">>, r.from) \o HostThen("to", y, rest) = HostThen("from", x, HostThen("to", y, rest))
    <3> DEFINE more == HostThen("to", y, rest)
    <3>1. more \in Texts
      BY <2>3
    <3>. HIDE DEF more
    <3>2. /\ ShowHost(<<"from">>, r.from) \in Texts
          /\ ShowHost(<<"from">>, r.from) \o more = HostThen("from", x, more)
      <4> DEFINE kw == "from"
                 g  == r.from
      <4>1. HostSays(from.name, from.port, g) /\ kw \in Lexemes
        BY <1>4, HostWords
      <4>. HIDE DEF kw, g
      <4>2. ShowHost(<<kw>>, g) \in Texts /\ ShowHost(<<kw>>, g) \o more = HostThen(kw, EndOf(g), more)
        <5>1. HasShown(kw, g, more)
          BY <3>1, <4>1, HostShown
        <5>. QED  BY <5>1 DEF HasShown
      <4>. QED  BY <4>2 DEF kw, g
    <3>. QED  BY <3>2 DEF more
  <2>. HIDE DEF x, y
  <2>5. HostsSaid(k, x, y)
    BY <1>4, <2>1 DEF HostsSaid
  <2>6. ShowHosts(r) = ShowHost(<<"from">>, r.from) \o ShowHost(<<"to">>, r.to)
    BY <1>4, <2>1 DEF ShowHosts
  <2>7. HostsThen(k, x, y, rest) = HostThen("from", x, HostThen("to", y, rest))
    BY <1>4, <2>1 DEF HostsThen
  <2>8. ShowHosts(r) \in Texts /\ ShowHosts(r) \o rest = HostsThen(k, x, y, rest)
    <3> DEFINE f == ShowHost(<<"from">>, r.from)
               t == ShowHost(<<"to">>, r.to)
    <3>1. f \in Texts /\ t \in Texts
      BY <2>2, <2>4
    <3>. HIDE DEF f, t
    <3>2. f \o t \in Texts /\ (f \o t) \o rest = f \o (t \o rest)
      <4>1. (f \o t) \o rest = f \o (t \o rest)
        BY <3>1, Regroup
      <4>. QED  BY <3>1, <4>1, Joins
    <3>. QED  BY <2>2, <2>4, <2>6, <2>7, <3>2 DEF f, t
  <2>. QED  BY <2>5, <2>8 DEF x, y
<1>. QED  BY <1>1, <1>2, <1>3, <1>4 DEF HostsSaid

LEMMA ShownNext ==
  ASSUME NEW v, NextFits(v)
  PROVE  LET x == <<v[1], Sp>>
             y == IF v[1] \in {"goto", "exec"} THEN <<v[2], Sp>> ELSE <<>>
         IN x \in Texts /\ y \in Texts /\ x \o y = GotoThen(v, Sep(<<>>))
<1> DEFINE x == <<v[1], Sp>>
           y == IF v[1] \in {"goto", "exec"} THEN <<v[2], Sp>> ELSE <<>>
<1>1. v[1] \in Lexemes /\ (v[1] \in Jumps => v[2] \in Lexemes) /\ <<>> \in Texts
  BY GotoText, SpLexeme
<1>2. x \in Texts /\ \A rest \in Texts : x \o rest = WordThen(v[1], rest)
  BY <1>1, ShownOne
<1>3. CASE v[1] \in Jumps
  <2>1. y = <<v[2], Sp>>
    BY <1>3 DEF Jumps
  <2>2. y \in Texts /\ y \o <<>> = WordThen(v[2], <<>>)
    BY <1>1, <1>3, <2>1, ShownOne
  <2>3. y = WordThen(v[2], <<>>)
    BY <2>2, ConcatEmptySeq DEF Texts
  <2>4. GotoThen(v, Sep(<<>>)) = WordThen(v[1], WordThen(v[2], <<>>))
    BY <1>3 DEF GotoThen, WordThen, Sep
  <2>. HIDE DEF x, y
  <2>. QED  BY <1>2, <2>2, <2>3, <2>4 DEF x, y
<1>4. CASE v[1] \notin Jumps
  <2>1. y = <<>>
    BY <1>4 DEF Jumps
  <2>2. GotoThen(v, Sep(<<>>)) = WordThen(v[1], <<>>)
    BY <1>4 DEF GotoThen, WordThen, Sep
  <2>. HIDE DEF x, y
  <2>. QED  BY <1>1, <1>2, <2>1, <2>2 DEF x, y
<1>. QED  BY <1>3, <1>4

LEMMA BlanksFit ==
  /\ NamedFits(Blanks.condition, Conditions) /\ NamedFits(Blanks.task, Tasks)
  /\ Blanks.mode \in DoModes.names
<1>1. /\ Blanks.condition = Quad("always", Unset, Unset, Unset)
      /\ Blanks.task = Quad("nop", Unset, Unset, Unset) /\ Blanks.mode \in DoModes.names
  BY DEF Blanks, Quad, DoModes, Table
<1>2. "always" \in Lexemes \ WordStops /\ "nop" \in Lexemes \ WordStops
  <2>1. "always" \in Lexemes /\ "nop" \in Lexemes
    BY DEF Lexemes, Keywords, Conditions, Tasks
  <2>2. "always" \notin WordStops /\ "nop" \notin WordStops
    BY DEF WordStops, Sp, End
  <2>. QED  BY <2>1, <2>2
<1>3. ASSUME NEW n \in Bare, n \in Lexemes \ WordStops, NEW names, n \in names
      PROVE  NamedFits(Quad(n, Unset, Unset, Unset), names)
  <2> DEFINE v == Quad(n, Unset, Unset, Unset)
  <2>1. v[1] = n /\ v[2] = Unset /\ v[3] = Unset /\ v[4] = Unset /\ v = <<v[1], v[2], v[3], v[4]>>
    BY QuadParts
  <2>. HIDE DEF v
  <2>2. ArgsFit(v)
    BY <1>3, <2>1 DEF ArgsFit
  <2>3. NamedFits(v, names)
    BY <1>3, <2>1, <2>2 DEF NamedFits
  <2>. QED  BY <2>3 DEF v
<1>4. "always" \in Bare /\ "nop" \in Bare /\ "always" \in Conditions /\ "nop" \in Tasks
  BY DEF Bare, Conditions, Tasks
<1>. QED  BY <1>1, <1>2, <1>3, <1>4

\* Two texts in a row.  Texts that are joined from the left are joined from the right.
Glue(a, b) == a \o b

LEMMA GlueText == ASSUME NEW a \in Texts, NEW b \in Texts PROVE Glue(a, b) \in Texts
BY Joins DEF Glue

LEMMA GlueAssoc ==
  ASSUME NEW a \in Texts, NEW b \in Texts, NEW c \in Texts
  PROVE  Glue(Glue(a, b), c) = Glue(a, Glue(b, c))
BY Regroup DEF Glue

LEMMA GlueFour ==
  ASSUME NEW p \in Texts, NEW q \in Texts, NEW r \in Texts, NEW s \in Texts
  PROVE  Glue(Glue(Glue(p, q), r), s) = Glue(p, Glue(q, Glue(r, s)))
<1>1. Glue(p, q) \in Texts /\ Glue(r, s) \in Texts
  BY GlueText
<1>2. Glue(Glue(Glue(p, q), r), s) = Glue(Glue(p, q), Glue(r, s))
  BY <1>1, GlueAssoc
<1>3. Glue(Glue(p, q), Glue(r, s)) = Glue(p, Glue(q, Glue(r, s)))
  BY <1>1, GlueAssoc
<1>. QED  BY <1>2, <1>3

AllTexts(a, b, c, d, e, f, g, h) ==
  /\ a \in Texts /\ b \in Texts /\ c \in Texts /\ d \in Texts
  /\ e \in Texts /\ f \in Texts /\ g \in Texts /\ h \in Texts

LEMMA Chain ==
  ASSUME NEW a, NEW b, NEW c, NEW d, NEW e, NEW f, NEW g, NEW h,
         AllTexts(a, b, c, d, e, f, g, h)
  PROVE  Glue(Glue(Glue(Glue(Glue(Glue(Glue(a, b), c), d), e), f), g), h)
           = Glue(a, Glue(b, Glue(c, Glue(d, Glue(e, Glue(f, Glue(g, h)))))))
<1> DEFINE ab  == Glue(a, b)
           abc == Glue(ab, c)
           abcd == Glue(abc, d)
           w == Glue(abcd, e)
           gh == Glue(g, h)
           fgh == Glue(f, gh)
           efgh == Glue(e, fgh)
           left == Glue(Glue(Glue(w, f), g), h)
           right == Glue(a, Glue(b, Glue(c, Glue(d, efgh))))
<1>. a \in Texts /\ b \in Texts /\ c \in Texts /\ d \in Texts
     /\ e \in Texts /\ f \in Texts /\ g \in Texts /\ h \in Texts
  BY DEF AllTexts
<1>1. abcd \in Texts /\ w \in Texts
  <2>1. ab \in Texts
    BY GlueText
  <2>. HIDE DEF ab
  <2>2. abc \in Texts
    BY <2>1, GlueText
  <2>. HIDE DEF abc
  <2>3. abcd \in Texts
    BY <2>2, GlueText
  <2>. HIDE DEF abcd
  <2>4. w \in Texts
    BY <2>3, GlueText
  <2>. QED  BY <2>3, <2>4
<1>2. fgh \in Texts /\ efgh \in Texts
  <2>1. gh \in Texts
    BY GlueText
  <2>. HIDE DEF gh
  <2>2. fgh \in Texts
    BY <2>1, GlueText
  <2>. HIDE DEF fgh
  <2>3. efgh \in Texts
    BY <2>2, GlueText
  <2>. QED  BY <2>2, <2>3
<1>3. left = Glue(w, fgh)
  <2>. HIDE DEF w
  <2>. QED  BY <1>1, GlueFour
<1>4. Glue(w, fgh) = Glue(abcd, efgh)
  <2>. HIDE DEF abcd, fgh
  <2>. QED  BY <1>1, <1>2, GlueAssoc
<1>5. Glue(abcd, efgh) = right
  <2> DEFINE bcd == Glue(b, Glue(c, d))
  <2>1. abcd = Glue(a, bcd)
    BY GlueFour
  <2>2. bcd \in Texts
    <3> DEFINE cd == Glue(c, d)
    <3>1. cd \in Texts
      BY GlueText
    <3>. HIDE DEF cd
    <3>. QED  BY <3>1, GlueText DEF cd
  <2>3. Glue(Glue(a, bcd), efgh) = Glue(a, Glue(bcd, efgh))
    <3>. HIDE DEF bcd, efgh
    <3>. QED  BY <1>2, <2>2, GlueAssoc
  <2>4. bcd = Glue(Glue(b, c), d)
    BY GlueAssoc
  <2>5. Glue(Glue(Glue(b, c), d), efgh) = Glue(b, Glue(c, Glue(d, efgh)))
    <3>. HIDE DEF efgh
    <3>. QED  BY <1>2, GlueFour
  <2>. HIDE DEF abcd, efgh, bcd
  <2>. QED  BY <2>1, <2>3, <2>4, <2>5
<1>6. left = right
  <2>. HIDE DEF left, w, abcd, fgh, efgh, right
  <2>. QED  BY <1>3, <1>4, <1>5
<1>. QED  BY <1>6

\* The rule as list writes it: with dns, no port is kept.
KeptRule(r) == [r EXCEPT !.from = Kept(@), !.to = Kept(@)]

LEMMA KeptRuleParts ==
  ASSUME NEW r, IsRule(r)
  PROVE  LET k == KeptRule(r) IN
         /\ IsRule(k) /\ k["from"] = Kept(r["from"]) /\ k["to"] = Kept(r["to"])
         /\ \A f \in RuleFields \ {"from", "to"} : k[f] = r[f]
BY DEF IsRule, KeptRule, RuleFields

LEMMA RuleShown ==
  ASSUME NEW sp, Spells(sp), sp.rule["task"][1] # "truncate"
  PROVE  \E t : Spells(t) /\ t.rule = KeptRule(sp.rule) /\ Show(sp.rule) = RuleText(t)
<1> DEFINE r == sp.rule
           k == KeptRule(r)
           x == EndOf(r["from"])
           y == EndOf(r["to"])
           yes == TRUE
           t == Spelling(k, x, y, yes, yes, yes)
           pos == r["pos"]
           proto == r["proto"]
           cond == r["condition"]
           mode == r["mode"]
           task == r["task"]
           next == r["next"]
           a == <<pos, Sp, "on", Sp, proto, Sp>>
           b == ShowHosts(r)
           c == <<"when", Sp>>
           d == ShowNamed(cond)
           e == <<mode, Sp>>
           f == ShowNamed(task)
           g == <<next[1], Sp>>
           h == IF next[1] \in {"goto", "exec"} THEN <<next[2], Sp>> ELSE <<>>
<1>1. /\ IsRule(r) /\ pos \in DOMAIN Numbers /\ proto \in Protos.names
      /\ HostsSaid(r, sp.from, sp.to) /\ NextFits(next) /\ task[1] # "truncate"
  BY DEF Spells
<1>2. NamedFits(cond, Conditions) /\ NamedFits(task, Tasks) /\ mode \in DoModes.names
  BY BlanksFit DEF Spells
<1>3. cond[1] # "truncate"
  <2>1. cond[1] \in Conditions
    BY <1>2 DEF NamedFits
  <2>. HIDE DEF cond
  <2>. QED  BY <2>1 DEF Conditions
<1>4. /\ IsRule(k) /\ k["from"] = Kept(r["from"]) /\ k["to"] = Kept(r["to"])
      /\ k["direction"] = r["direction"] /\ k["pos"] = pos /\ k["proto"] = proto
      /\ k["condition"] = cond /\ k["mode"] = mode /\ k["task"] = task /\ k["next"] = next
  <2>1. /\ IsRule(k) /\ k["from"] = Kept(r["from"]) /\ k["to"] = Kept(r["to"])
        /\ \A z \in RuleFields \ {"from", "to"} : k[z] = r[z]
    BY <1>1, KeptRuleParts
  <2>. HIDE DEF k
  <2>. QED  BY <2>1 DEF RuleFields
<1>5. t.rule = k /\ t.from = x /\ t.to = y /\ t.when = yes /\ t.do = yes /\ t.end = yes
  <2>. HIDE DEF k, x, y, yes
  <2>. QED  BY SpellingParts
<1>6. Show(r) = Glue(Glue(Glue(Glue(Glue(Glue(Glue(a, b), c), d), e), f), g), h)
  BY DEF Show, Glue
<1>7. /\ pos \in Lexemes /\ proto \in Lexemes /\ mode \in Lexemes
      /\ "on" \in Lexemes /\ "when" \in Lexemes
  BY <1>1, <1>2, NumberWord, ArgsWords
<1>8. /\ g \in Texts /\ h \in Texts /\ g \o h = GotoThen(next, Sep(<<>>))
  <2>. HIDE DEF next
  <2>. QED  BY <1>1, ShownNext
<1>9. GotoThen(next, Sep(<<>>)) = TextNext(t)
  <2>1. EndThen(t.end) = Sep(<<>>)
    BY <1>5 DEF EndThen
  <2>. HIDE DEF t
  <2>. QED  BY <1>4, <1>5, <2>1 DEF TextNext
<1>10. Spells(t)
  <2>1. /\ HostsSaid(k, x, y)
    <3>. HIDE DEF k, r, x, y
    <3>. QED  BY <1>1, <1>4, ShownHosts, SpLexeme DEF x, y
  <2>2. t.when /\ t.do /\ t.when \in BOOLEAN /\ t.do \in BOOLEAN /\ t.end \in BOOLEAN
    BY <1>5
  <2>. HIDE DEF t, k, x, y, pos, proto, cond, mode, task, next
  <2>. QED  BY <1>1, <1>2, <1>4, <1>5, <2>1, <2>2 DEF Spells
<1>. HIDE DEF t
<1>11. TextNext(t) \in Texts /\ TextDo(t) \in Texts /\ TextWhen(t) \in Texts
  BY <1>10, SpelledTexts
<1>12. f \in Texts /\ f \o TextNext(t) = NamedThen(task, TextNext(t))
  <2>. HIDE DEF task
  <2>. QED  BY <1>1, <1>2, <1>11, ShownNamed
<1>13. e \in Texts /\ e \o NamedThen(task, TextNext(t)) = TextDo(t)
  <2>1. NamedThen(task, TextNext(t)) \in Texts
    <3>. HIDE DEF task
    <3>. QED  BY <1>2, <1>11, NamedText
  <2>2. TextDo(t) = WordThen(mode, NamedThen(task, TextNext(t)))
    <3>. HIDE DEF k, mode, task
    <3>. QED  BY <1>4, <1>5 DEF TextDo, yes
  <2> DEFINE more == NamedThen(task, TextNext(t))
  <2>. HIDE DEF more, mode
  <2>. QED  BY <1>7, <2>1, <2>2, ShownOne DEF more
<1>14. d \in Texts /\ d \o TextDo(t) = NamedThen(cond, TextDo(t))
  <2>. HIDE DEF cond
  <2>. QED  BY <1>2, <1>3, <1>11, ShownNamed
<1>15. c \in Texts /\ c \o NamedThen(cond, TextDo(t)) = TextWhen(t)
  <2>1. NamedThen(cond, TextDo(t)) \in Texts
    <3>. HIDE DEF cond
    <3>. QED  BY <1>2, <1>11, NamedText
  <2>2. TextWhen(t) = WordThen("when", NamedThen(cond, TextDo(t)))
    <3>. HIDE DEF k, cond
    <3>. QED  BY <1>4, <1>5 DEF TextWhen, yes
  <2> DEFINE more == NamedThen(cond, TextDo(t))
             when == "when"
  <2>. HIDE DEF more, when
  <2>. QED  BY <1>7, <2>1, <2>2, ShownOne DEF more, when
<1>16. b \in Texts /\ b \o TextWhen(t) = TextHosts(t) /\ TextHosts(t) \in Texts
  <2>1. TextHosts(t) = HostsThen(k, x, y, TextWhen(t))
    BY <1>5 DEF TextHosts
  <2>2. HostsSaid(k, x, y)
    <3>. HIDE DEF k, r, x, y
    <3>. QED  BY <1>1, <1>4, ShownHosts, SpLexeme DEF x, y
  <2>3. b \in Texts /\ b \o TextWhen(t) = HostsThen(k, x, y, TextWhen(t))
    <3>. HIDE DEF k, r
    <3>. QED  BY <1>1, <1>4, <1>11, ShownHosts
  <2>4. HostsThen(k, x, y, TextWhen(t)) \in Texts
    <3>. HIDE DEF k, x, y
    <3>. QED  BY <1>11, <2>2, HostsText
  <2>. QED  BY <2>1, <2>3, <2>4
<1>17. a \in Texts /\ a \o TextHosts(t) = RuleText(t)
  <2> DEFINE on == "on"
  <2>1. a \in Texts /\ a \o TextHosts(t) = WordThen(pos, WordThen(on, WordThen(proto, TextHosts(t))))
    <3>1. on \in Lexemes
      BY <1>7
    <3>. HIDE DEF on
    <3>2. /\ <<pos, Sp, on, Sp, proto, Sp>> \in Texts
          /\ <<pos, Sp, on, Sp, proto, Sp>> \o TextHosts(t)
               = WordThen(pos, WordThen(on, WordThen(proto, TextHosts(t))))
      <4>. HIDE DEF pos, proto
      <4>. QED  BY <1>7, <1>16, <3>1, ShownThree, SMTT(40)
    <3>. QED  BY <3>2 DEF on
  <2>2. RuleText(t) = WordThen(pos, WordThen(on, WordThen(proto, TextHosts(t))))
    <3>. HIDE DEF k, pos, proto
    <3>. QED  BY <1>4, <1>5 DEF RuleText
  <2>. QED  BY <2>1, <2>2
<1>. HIDE DEF a, b, c, d, e, f, g, h
<1>18. Show(r) = Glue(a, Glue(b, Glue(c, Glue(d, Glue(e, Glue(f, Glue(g, h)))))))
  <2>1. AllTexts(a, b, c, d, e, f, g, h)
    BY <1>8, <1>12, <1>13, <1>14, <1>15, <1>16, <1>17 DEF AllTexts
  <2>2. Glue(Glue(Glue(Glue(Glue(Glue(Glue(a, b), c), d), e), f), g), h)
          = Glue(a, Glue(b, Glue(c, Glue(d, Glue(e, Glue(f, Glue(g, h)))))))
    BY ONLY <2>1, Chain
  <2>. QED  BY <1>6, <2>2
<1>19. Glue(f, Glue(g, h)) = NamedThen(task, TextNext(t))
  BY <1>8, <1>9, <1>12 DEF Glue
<1>20. Glue(d, Glue(e, Glue(f, Glue(g, h)))) = NamedThen(cond, TextDo(t))
  BY <1>13, <1>14, <1>19 DEF Glue
<1>21. Glue(a, Glue(b, Glue(c, Glue(d, Glue(e, Glue(f, Glue(g, h))))))) = RuleText(t)
  BY <1>15, <1>16, <1>17, <1>20 DEF Glue
<1>22. Show(r) = RuleText(t)
  BY <1>18, <1>21
<1>. QED  BY <1>5, <1>10, <1>22

\* What list writes of a rule that was accepted is a text, that of truncate too.
LEMMA ShownText ==
  ASSUME NEW sp, Spells(sp)
  PROVE  Show(sp.rule) \in Texts
<1> DEFINE r == sp.rule
           pos == r["pos"]
           proto == r["proto"]
           cond == r["condition"]
           mode == r["mode"]
           task == r["task"]
           next == r["next"]
           a == <<pos, Sp, "on", Sp, proto, Sp>>
           b == ShowHosts(r)
           c == <<"when", Sp>>
           d == ShowNamed(cond)
           e == <<mode, Sp>>
           f == ShowNamed(task)
           g == <<next[1], Sp>>
           h == IF next[1] \in {"goto", "exec"} THEN <<next[2], Sp>> ELSE <<>>
<1>1. /\ pos \in DOMAIN Numbers /\ proto \in Protos.names
      /\ HostsSaid(r, sp.from, sp.to) /\ NextFits(next)
      /\ NamedFits(cond, Conditions) /\ NamedFits(task, Tasks) /\ mode \in DoModes.names
  BY BlanksFit DEF Spells
<1>2. /\ pos \in Lexemes /\ proto \in Lexemes /\ mode \in Lexemes
      /\ "on" \in Lexemes /\ "when" \in Lexemes
  BY <1>1, NumberWord, ArgsWords
<1>3. ASSUME NEW v, NEW names, NamedFits(v, names) PROVE ShowNamed(v) \in Texts
  <2> DEFINE n == Written(v[1])
             x == <<n, Sp>>
             y == ShowArgs(v)
  <2>1. n \in Lexemes
    <3>1. v[1] \in Lexemes
      BY <1>3 DEF NamedFits
    <3>2. "trucate" \in Lexemes
      BY DEF Lexemes, Keywords
    <3>. QED  BY <3>1, <3>2 DEF Written
  <2>2. ShowNamed(v) = x \o y
    BY DEF ShowNamed
  <2>. HIDE DEF n, y
  <2>3. x \in Texts /\ y \in Texts
    BY <1>3, <2>1, ShownOne, ShownArgs, SpLexeme DEF NamedFits, y
  <2>. HIDE DEF x
  <2>. QED  BY <2>2, <2>3, Joins
<1>4. a \in Texts
  <2> DEFINE on == "on"
  <2>1. on \in Lexemes
    BY <1>2
  <2>. HIDE DEF on, pos, proto
  <2>2. <<pos, Sp, on, Sp, proto, Sp>> \in Texts
    BY <1>2, <2>1, SpLexeme, ShownThree
  <2>. QED  BY <2>2 DEF on
<1>5. b \in Texts
  <2> DEFINE k == KeptRule(r)
  <2>1. k["from"] = Kept(r["from"]) /\ k["to"] = Kept(r["to"]) /\ k["direction"] = r["direction"]
    BY KeptRuleParts DEF Spells, RuleFields
  <2>. HIDE DEF r, k
  <2>. QED  BY <1>1, <2>1, SpLexeme, ShownHosts
<1>6. c \in Texts /\ e \in Texts
  <2> DEFINE when == "when"
  <2>1. when \in Lexemes
    BY <1>2
  <2>. HIDE DEF when, mode
  <2>2. <<when, Sp>> \in Texts /\ <<mode, Sp>> \in Texts
    BY <1>2, <2>1, SpLexeme, ShownOne
  <2>. QED  BY <2>2 DEF when
<1>7. g \in Texts /\ h \in Texts
  <2>. HIDE DEF next
  <2>. QED  BY <1>1, ShownNext
<1>8. d \in Texts /\ f \in Texts
  <2>. HIDE DEF cond, task
  <2>. QED  BY <1>1, <1>3
<1>9. Show(r) = ((((((a \o b) \o c) \o d) \o e) \o f) \o g) \o h
  BY DEF Show
<1>. HIDE DEF a, b, c, d, e, f, g, h
<1>10. ((((((a \o b) \o c) \o d) \o e) \o f) \o g) \o h \in Texts
  BY <1>4, <1>5, <1>6, <1>7, <1>8 DEF Texts
<1>. QED  BY <1>9, <1>10

\* What list writes of a rule that was accepted (Action_show) can be given back to add or replace,
\* and is the same rule, whatever the rule: the ports that are not written are those that are not
\* used.  The writer of truncate is wrong, and those of error and emit may write for ever.
THEOREM ShownParsed ==
  ASSUME NEW text \in Texts, Parse(text).ok, Parse(text).rule["task"][1] # "truncate"
  PROVE  LET r == Parse(text).rule
             p == Parse(Show(r))
         IN p.ok = TRUE /\ p.err = 0 /\ p.rule = KeptRule(r)
<1> DEFINE r == Parse(text).rule
<1>1. PICK sp : Spells(sp) /\ r = sp.rule
  BY AcceptedSpelled
<1>. HIDE DEF r
<1>2. PICK t : Spells(t) /\ t.rule = KeptRule(sp.rule) /\ Show(sp.rule) = RuleText(t)
  BY <1>1, RuleShown DEF r
<1>3. Parse(RuleText(t)).ok = TRUE /\ Parse(RuleText(t)).err = 0 /\ Parse(RuleText(t)).rule = t.rule
  BY <1>2, SpelledParsed
<1>. QED  BY <1>1, <1>2, <1>3 DEF r
=============================================================================
