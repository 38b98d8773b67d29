--------------------------- MODULE InterfaceProofs ---------------------------
(* What is proved of Interface, whatever the files, the rules, the clients    *)
(* and the cuts that read makes in what they send.                            *)
EXTENDS Interface, SequenceTheorems, FiniteSetTheorems, WellFoundedInduction, TLAPS

Names   == {"first", "default"}
Ids     == {<<>>} \cup (Names \X Nat \X BOOLEAN)
Strings == [name : STRING \cup {""}, id : Ids]
Texts   == ({"with me port"} \X Nat) \cup Seq(STRING)
Configs ==
  [queue : [Lines -> Texts], type : Feeds \cup {"none"}, port : Nat, file : Strings,
   command : Strings]

F == files[file].lines

TypeOK ==
  /\ files \in Files /\ file \in Names /\ again \in BOOLEAN
  /\ at \in 0 .. Len(F)
  /\ section \in {"Rules", "Runtime"}
  /\ static \in [port : Nat, word : {NoString}]
  /\ stage \in {"reading", "chosen", "serving", "off"}
  /\ config \in Configs
  /\ script \in Scripts /\ client \in 0 .. Len(script)
  /\ conn \in {"waiting", "reading", "over", "crashed", "killed"}
  /\ stream \in Seq(STRING) /\ buffer \in Seq(STRING)
  /\ ran \in Seq(Seq(STRING)) /\ said \in Seq(STRING)

\* What the first n lines of a file give: the rules, the source of commands, and the program.
Upto(s, n) == s \cap 1 .. n
RulesOf(f, n, queue) ==
  \A m \in Lines :
    LET s == Upto(RuleLines(f, m), n) IN
    queue[m] = IF s = {} THEN <<>> ELSE f.lines[LastIn(s)].text
FeedOf(f, n, port, c) ==
  LET s == Upto(TypedLines(f, Feeds), n) IN
  IF s = {} THEN c.type = "none"
  ELSE LET l == f.lines[LastIn(s)] IN
       /\ c.type = l.type
       /\ IF l.port # NoPort THEN c.port = l.port /\ c.file = NoString ELSE c.file.name = l.word
       /\ n \in s => c.port = port
CommandOf(f, n, command) ==
  LET s == Upto(TypedLines(f, {"command"}), n) IN
  IF s = {} THEN command = NoString
  ELSE LET l == f.lines[LastIn(s)] IN
       LastIn(s) \in s /\ command.name = IF l.port # NoPort THEN "" ELSE l.word

\* The section, the port and the configuration, after n lines of a file that are in their place.
SoFar(f, n, sec, port, c) ==
  /\ f.lines # <<>>
  /\ sec = SectionOf(f, n + 1)
  /\ \A i \in 1 .. n : InPlace(f, i)
  /\ RulesOf(f, n, c.queue) /\ FeedOf(f, n, port, c) /\ CommandOf(f, n, c.command)

\* The second file is read when the first one is not for the program.
Reading ==
  /\ file = "default" => ~Meant(files["first"])
  /\ stage \in {"reading", "chosen"} => SoFar(files[file], at, section, static.port, config)
  /\ stage = "chosen" => at = Len(F) /\ Meant(files[file])

\* Each string was allocated for a line of the current file, of the kind that it is kept for.
Allocated(s, types) ==
  \/ s = NoString
  \/ \E i \in TypedLines(files[file], types), twice \in BOOLEAN : s.id = <<file, i, twice>>
Owned == Allocated(config.file, Feeds) /\ Allocated(config.command, {"command"})

\* The port that the lines of the files left in the static variable, and the one in use.
PortsSo ==
  stage \in {"reading", "chosen"} =>
    LET f     == files[file]
        s     == Upto(TypedLines(f, Feeds), at)
        found == PortFound(files, file) IN
    /\ static.port = PortUpto(f, at, found)
    /\ s # {} => config.port = PortUpto(f, LastIn(s), found)

\* What the thread has of a client, it has from one place of what was sent, and what it has not
\* read yet is the end of it.
Piece(b, s) == \E j \in 1 .. Len(s) + 1 : \E k \in j - 1 .. Len(s) : b = SubSeq(s, j, k)
Ends(b, s)  == \E p \in Seq(STRING) : s = p \o b
Heard ==
  /\ Ends(stream, said) /\ Piece(buffer, said)
  /\ \A i \in DOMAIN ran : ran[i] # <<>> /\ Piece(ran[i], said)
  /\ conn = "waiting" => buffer = <<>>
  /\ conn = "reading" => \A i \in DOMAIN ran : ran[i][1] \notin Closers
  /\ \A i \in DOMAIN ran : ran[i][1] \in Closers => i = Len(ran)

\* On a TCP connection, what was sent is what one client says.
Spoken ==
  /\ stage \in {"reading", "chosen"} => client = 0
  /\ client = 0 => said = <<>>
  /\ stage = "serving" /\ config.type = "tcp" /\ client # 0 => said = script[client].says

Inv == TypeOK /\ Reading /\ PortsSo /\ Owned /\ Heard /\ Spoken /\ Whitelisted
-----------------------------------------------------------------------------
\* A set of positions that is not empty has a least one.
LEMMA LeastIn ==
  ASSUME NEW n \in Nat, NEW S, S \subseteq 1 .. n, S # {}
  PROVE  \E m \in S : \A k \in S : m <= k
<1> DEFINE All == 1 .. n
           Tops == {1 .. k : k \in S}
<1>1. IsFiniteSet(All)
  <2>1. 1 \in Int /\ n \in Int
    OBVIOUS
  <2> QED  BY <2>1, FS_Interval
<1>2. IsWellFoundedOn(StrictSubsetOrdering(All), SUBSET All)
  BY <1>1, FS_StrictSubsetOrderingWellFounded, FS_FiniteSubsetsOfFinite
<1>3. \A k \in S : k \in Nat /\ k \in 1 .. k /\ 1 .. k \in SUBSET All
  OBVIOUS
<1>4. Tops \subseteq SUBSET All /\ Tops # {}
  BY <1>3
<1>5. \E x \in Tops : \A y \in Tops : ~(<<y, x>> \in StrictSubsetOrdering(All))
  <2> HIDE DEF Tops, All
  <2> QED  BY <1>2, <1>4, WFMin
<1>6. PICK m \in S : \A k \in S : ~(<<1 .. k, 1 .. m>> \in StrictSubsetOrdering(All))
  BY <1>5
<1>7. ASSUME NEW k \in S, k < m PROVE FALSE
  <2>1. 1 .. k \subseteq 1 .. m /\ m \in 1 .. m /\ m \notin 1 .. k
    BY <1>3, <1>7
  <2> QED  BY <1>3, <1>6, <2>1 DEF StrictSubsetOrdering
<1> QED  BY <1>3, <1>7

\* The greatest of a set of numbers, once it is known, is the one that LastIn chooses.
LEMMA LastIs ==
  ASSUME NEW S, S \subseteq Nat, NEW m \in S, \A j \in S : j <= m
  PROVE  LastIn(S) = m
<1>0. \E i \in S : \A j \in S : j <= i
  OBVIOUS
<1>1. LastIn(S) \in S /\ \A j \in S : j <= LastIn(S)
  BY <1>0, Zenon DEF LastIn
<1> HIDE DEF LastIn
<1>2. m <= LastIn(S) /\ LastIn(S) <= m
  BY <1>1, Zenon
<1>3. m \in Nat /\ LastIn(S) \in Nat
  BY <1>1, Zenon
<1> QED  BY <1>2, <1>3

\* A part of a piece is a piece.
LEMMA PiecePart ==
  ASSUME NEW s \in Seq(STRING), NEW b \in Seq(STRING), Piece(b, s),
         NEW m \in 1 .. Len(b) + 1, NEW n \in 0 .. Len(b)
  PROVE  Piece(SubSeq(b, m, n), s) /\ SubSeq(b, m, n) \in Seq(STRING)
<1>0. SubSeq(b, m, n) \in Seq(STRING)
  <2>1. \A i \in m .. n : b[i] \in STRING
    OBVIOUS
  <2>2. m \in Int /\ n \in Int
    OBVIOUS
  <2> QED  BY <2>1, <2>2, SubSeqProperties
<1>1. PICK j \in 1 .. Len(s) + 1 : \E k \in j - 1 .. Len(s) : b = SubSeq(s, j, k)
  BY DEF Piece
<1>2. PICK k \in j - 1 .. Len(s) : b = SubSeq(s, j, k)
  BY <1>1
<1>3. Len(s) \in Nat /\ Len(b) \in Nat /\ j \in Nat /\ k \in Int
  OBVIOUS
<1>4. CASE m > n
  <2>1. SubSeq(b, m, n) = <<>> /\ SubSeq(s, 1, 0) = <<>>
    BY <1>3, <1>4, SubSeqEmpty
  <2> QED  BY <1>0, <1>3, <2>1, SMTT(30) DEF Piece
<1>5. CASE m <= n
  <2>1. \A i \in j .. k : s[i] \in STRING
    BY <1>3
  <2>2. Len(b) = IF j <= k THEN k - j + 1 ELSE 0
    BY <1>2, <1>3, <2>1, SubSeqProperties
  <2>0. j <= k
    BY <1>3, <1>5, <2>2
  <2>3. /\ j \in 1 .. Len(s) /\ k \in 1 .. Len(s)
        /\ m \in 1 .. k - j + 1 /\ n \in 1 .. k - j + 1
    BY <1>3, <1>5, <2>0, <2>2
  <2>4. SubSeq(b, m, n) = SubSeq(s, j + m - 1, j + n - 1)
    BY <1>2, <2>3, SubSeqOfSubSeq
  <2>5. j + m - 1 \in 1 .. Len(s) + 1 /\ j + n - 1 \in (j + m - 1) - 1 .. Len(s)
    BY <1>3, <1>5, <2>3
  <2> QED  BY <1>0, <2>4, <2>5 DEF Piece
<1> QED  BY <1>3, <1>4, <1>5

\* A line of a buffer, and what comes after it, are parts of the buffer.
LEMMA LineParts ==
  ASSUME NEW b \in Seq(STRING)
  PROVE  /\ \E n \in 0 .. Len(b) : Line(b) = SubSeq(b, 1, n)
         /\ \E m \in 1 .. Len(b) + 1 : After(b) = SubSeq(b, m, Len(b))
<1>1. Len(b) \in Nat /\ Breaks(b) \subseteq 1 .. Len(b)
  BY DEF Breaks
<1>2. CASE Breaks(b) = {}
  <2>1. SubSeq(b, Len(b) + 1, Len(b)) = <<>>
    BY <1>1, SubSeqEmpty
  <2>2. Line(b) = SubSeq(b, 1, Len(b)) /\ After(b) = SubSeq(b, Len(b) + 1, Len(b))
    BY <1>2, <2>1 DEF Line, After
  <2>3. Len(b) \in 0 .. Len(b) /\ Len(b) + 1 \in 1 .. Len(b) + 1
    BY <1>1
  <2> QED  BY <2>2, <2>3
<1>3. CASE Breaks(b) # {}
  <2>1. \E m \in Breaks(b) : \A k \in Breaks(b) : m <= k
    BY <1>1, <1>3, LeastIn
  <2>2. Min(Breaks(b)) \in Breaks(b)
    BY <2>1 DEF Min
  <2>3. Min(Breaks(b)) - 1 \in 0 .. Len(b) /\ Min(Breaks(b)) + 1 \in 1 .. Len(b) + 1
    BY <1>1, <2>2
  <2> QED  BY <1>3, <2>3 DEF Line, After
<1> QED  BY <1>2, <1>3

\* So they are pieces of what the buffer is a piece of.
LEMMA LinePieces ==
  ASSUME NEW s \in Seq(STRING), NEW b \in Seq(STRING), Piece(b, s)
  PROVE  /\ Line(b) \in Seq(STRING) /\ Piece(Line(b), s)
         /\ After(b) \in Seq(STRING) /\ Piece(After(b), s)
<1>1. PICK n \in 0 .. Len(b) : Line(b) = SubSeq(b, 1, n)
  BY LineParts
<1>2. PICK m \in 1 .. Len(b) + 1 : After(b) = SubSeq(b, m, Len(b))
  BY LineParts
<1>3. Len(b) \in 0 .. Len(b) /\ 1 \in 1 .. Len(b) + 1
  OBVIOUS
<1> QED  BY <1>1, <1>2, <1>3, PiecePart

\* Nothing is a piece of anything.
LEMMA PieceEmpty ==
  ASSUME NEW s \in Seq(STRING)
  PROVE  Piece(<<>>, s)
<1>1. SubSeq(s, 1, 0) = <<>>
  BY SubSeqEmpty
<1> QED  BY <1>1 DEF Piece

\* And all of it is a piece of itself.
LEMMA PieceWhole ==
  ASSUME NEW s \in Seq(STRING)
  PROVE  Piece(s, s)
<1>1. SubSeq(s, 1, Len(s)) = s
  BY SubSeqFull
<1> QED  BY <1>1 DEF Piece

\* The end of a sequence is a piece of it.
LEMMA EndsPiece ==
  ASSUME NEW s \in Seq(STRING), NEW b \in Seq(STRING), Ends(b, s)
  PROVE  Piece(b, s)
<1>1. PICK p \in Seq(STRING) : s = p \o b
  BY DEF Ends
<1>2. CASE b = <<>>
  BY <1>2, PieceEmpty
<1>3. CASE b # <<>>
  <2> DEFINE m == Len(p) + 1
             n == Len(p) + Len(b)
  <2>1. Len(p) \in Nat /\ Len(b) \in Nat \ {0} /\ Len(s) = n
    BY <1>1, <1>3, ConcatProperties
  <2>2. m \in Len(p) + 1 .. Len(p) + Len(b) /\ n \in Len(p) + 1 .. Len(p) + Len(b)
    BY <2>1
  <2>3. SubSeq(s, m, n) = SubSeq(b, m - Len(p), n - Len(p))
    <3> HIDE DEF m, n
    <3> QED  BY <1>1, <2>2, SubSeqOfConcat2
  <2>4. SubSeq(b, m - Len(p), n - Len(p)) = b
    <3>1. m - Len(p) = 1 /\ n - Len(p) = Len(b)
      BY <2>1
    <3> HIDE DEF m, n
    <3> QED  BY <3>1, SubSeqFull
  <2>5. m \in 1 .. Len(s) + 1 /\ n \in m - 1 .. Len(s)
    BY <2>1
  <2> HIDE DEF m, n
  <2> QED  BY <2>3, <2>4, <2>5 DEF Piece
<1> QED  BY <1>2, <1>3

\* A piece stays one when more is sent.
LEMMA PieceGrows ==
  ASSUME NEW s \in Seq(STRING), NEW t \in Seq(STRING), NEW b, Piece(b, s)
  PROVE  Piece(b, s \o t)
<1>1. PICK j \in 1 .. Len(s) + 1, k \in 0 .. Len(s) : b = SubSeq(s, j, k)
  BY DEF Piece
<1>2. /\ s \o t \in Seq(STRING) /\ Len(s) \in Nat /\ Len(t) \in Nat
      /\ Len(s \o t) = Len(s) + Len(t) /\ j \in Int /\ k \in Int
  BY ConcatProperties
<1>3. CASE k < j
  <2>1. b = <<>>
    BY <1>1, <1>2, <1>3, SubSeqEmpty
  <2> QED  BY <1>2, <2>1, PieceEmpty
<1>4. CASE j <= k
  <2>1. j \in 1 .. Len(s) /\ k \in 1 .. Len(s)
    BY <1>2, <1>4
  <2>2. SubSeq(s \o t, j, k) = b
    BY <1>1, <2>1, SubSeqOfConcat1
  <2>3. j \in 1 .. Len(s \o t) + 1 /\ k \in j - 1 .. Len(s \o t)
    BY <1>2, <1>4
  <2> QED  BY <2>2, <2>3 DEF Piece
<1> QED  BY <1>2, <1>3, <1>4

\* What was not read is still the end when more is sent, and when a part of it is read, which was a
\* piece.
LEMMA EndsMoves ==
  ASSUME NEW s \in Seq(STRING), NEW b \in Seq(STRING), Ends(b, s)
  PROVE  /\ Ends(<<>>, s)
         /\ \A t \in Seq(STRING) : Ends(b \o t, s \o t)
         /\ \A n \in 0 .. Len(b) : Ends(SubSeq(b, n + 1, Len(b)), s)
<1>1. PICK p \in Seq(STRING) : s = p \o b
  BY DEF Ends
<1>2. Ends(<<>>, s)
  <2>1. s = s \o <<>>
    BY ConcatEmptySeq
  <2> QED  BY <2>1 DEF Ends
<1>3. ASSUME NEW t \in Seq(STRING) PROVE Ends(b \o t, s \o t)
  <2>1. s \o t = p \o (b \o t)
    BY <1>1, ConcatAssociative
  <2> QED  BY <2>1 DEF Ends
<1>4. ASSUME NEW n \in 0 .. Len(b) PROVE Ends(SubSeq(b, n + 1, Len(b)), s)
  <2> DEFINE x == SubSeq(b, 1, n)
             y == SubSeq(b, n + 1, Len(b))
  <2>1. /\ 1 \in 1 .. Len(b) + 1 /\ n \in 1 - 1 .. Len(b) /\ Len(b) \in n .. Len(b)
        /\ n + 1 \in 1 .. Len(b) + 1 /\ Len(b) \in 0 .. Len(b)
    OBVIOUS
  <2>2. x \o y = SubSeq(b, 1, Len(b)) /\ SubSeq(b, 1, Len(b)) = b
    BY <2>1, ConcatAdjacentSubSeq, SubSeqFull
  <2>3. x \in Seq(STRING) /\ y \in Seq(STRING)
    BY <2>1, PiecePart, PieceWhole
  <2> HIDE DEF x, y
  <2>4. (p \o x) \o y = p \o (x \o y)
    BY <2>3, ConcatAssociative, SMTT(30)
  <2>5. s = (p \o x) \o y
    BY <1>1, <2>2, <2>4, Zenon
  <2>6. p \o x \in Seq(STRING)
    BY <2>3, ConcatProperties
  <2> QED  BY <2>5, <2>6 DEF Ends, y
<1> QED  BY <1>2, <1>3, <1>4

\* The first lexeme of a piece is somewhere in the whole, and the others follow it.
LEMMA PieceHead ==
  ASSUME NEW s \in Seq(STRING), NEW b \in Seq(STRING), Piece(b, s), Len(b) > 1
  PROVE  \E j, k \in DOMAIN s : b[1] = s[j] /\ SubSeq(b, 3, Len(b)) = SubSeq(s, j + 2, k)
<1>1. PICK j \in 1 .. Len(s) + 1, k \in 0 .. Len(s) : b = SubSeq(s, j, k)
  BY DEF Piece
<1>2. Len(s) \in Nat /\ Len(b) \in Nat /\ j \in Int /\ k \in Int
  OBVIOUS
<1>3. j <= k
  <2>1. k < j => SubSeq(s, j, k) = <<>>
    BY <1>2, SubSeqEmpty
  <2> QED  BY <1>1, <1>2, <2>1
<1>4. j \in 1 .. Len(s) /\ k \in 1 .. Len(s) /\ k \in j .. Len(s)
  BY <1>2, <1>3
<1>5. /\ Len(b) = k - j + 1
      /\ \A i \in 1 .. k - j + 1 : b[i] = s[j + i - 1]
  <2>1. \A i \in j .. k : s[i] \in STRING
    BY <1>2, <1>4
  <2> QED  BY <1>1, <1>2, <1>3, <2>1, SubSeqProperties
<1>6. b[1] = s[j]
  BY <1>2, <1>4, <1>5
<1>7. SubSeq(b, 3, Len(b)) = SubSeq(s, j + 2, k)
  <2>1. CASE Len(b) = 2
    <3>0. ASSUME NEW x \in Int, NEW y \in Int, 2 = y - x + 1 PROVE x + 2 \in Int /\ y < x + 2
      BY <3>0
    <3>1. Len(b) \in Int /\ 3 \in Int /\ Len(b) < 3 /\ k \in Int /\ j + 2 \in Int /\ k < j + 2
      <4>1. j \in Int /\ k \in Int /\ 2 = k - j + 1
        BY <1>2, <1>5, <2>1
      <4> QED  BY <2>1, <3>0, <4>1
    <3>2. SubSeq(b, 3, Len(b)) = <<>>
      BY <3>1, SubSeqEmpty
    <3>3. SubSeq(s, j + 2, k) = <<>>
      BY <3>1, SubSeqEmpty
    <3> QED  BY <3>2, <3>3
  <2>2. CASE Len(b) # 2
    <3>1. 3 \in 1 .. k - j + 1 /\ Len(b) \in 1 .. k - j + 1
      BY <1>2, <1>5, <2>2
    <3>2. SubSeq(SubSeq(s, j, k), 3, Len(b)) = SubSeq(s, j + 3 - 1, j + Len(b) - 1)
      BY <1>4, <3>1, SubSeqOfSubSeq
    <3>3. j + 3 - 1 = j + 2 /\ j + Len(b) - 1 = k
      BY <1>2, <1>5
    <3> QED  BY <1>1, <3>2, <3>3
  <2> QED  BY <2>1, <2>2
<1>8. j \in DOMAIN s /\ k \in DOMAIN s
  BY <1>2, <1>4
<1> QED  BY <1>6, <1>7, <1>8

-----------------------------------------------------------------------------
\* What the lines of a file are.
LEMMA EntryIs ==
  ASSUME NEW l \in Entries
  PROVE  /\ l.kind \in {"blank", "section", "rule", "runtime"}
         /\ l.kind = "section" => l.name \in {"Rules", "Runtime", "other"}
         /\ l.kind = "rule" => l.line \in Lines /\ l.text \in Seq(STRING) /\ l.text # <<>>
         /\ l.kind = "runtime" =>
              /\ l.type \in Feeds \cup {"command"} /\ l.port \in Nat /\ l.word \in STRING
              /\ l.port = NoPort => l.word # ""
BY DEF Entries, NoPort

\* What the files and the scripts are.
LEMMA Sequences ==
  ASSUME TypeOK
  PROVE  /\ \A k \in Names : files[k].lines \in Seq(Entries) /\ files[k].newline \in BOOLEAN
         /\ F \in Seq(Entries) /\ Len(F) \in Nat
         /\ script \in Seq([says : Seq(STRING), leaves : {"quit", "reset", "stay"}])
         /\ \A k \in 1 .. Len(script) : script[k].says \in Seq(STRING)
<1>1. files \in [Names -> [lines : Seq(Entries), newline : BOOLEAN]] /\ file \in Names
  BY FilesAssumption DEF TypeOK, Names
<1>2. script \in Seq([says : Seq(STRING), leaves : {"quit", "reset", "stay"}])
  BY ScriptsAssumption DEF TypeOK
<1>3. \A k \in 1 .. Len(script) : script[k].says \in Seq(STRING)
  <2> DEFINE C == [says : Seq(STRING), leaves : {"quit", "reset", "stay"}]
  <2>1. \A k \in 1 .. Len(script) : script[k] \in C
    <3> HIDE DEF C
    <3>1. script \in Seq(C)
      BY <1>2 DEF C
    <3> QED  BY <3>1
  <2>2. ASSUME NEW c \in C PROVE c.says \in Seq(STRING)
    OBVIOUS
  <2> QED  BY <2>1, <2>2
<1>5. \A k \in Names : files[k].lines \in Seq(Entries) /\ files[k].newline \in BOOLEAN
  BY <1>1
<1>6. F \in Seq(Entries)
  BY <1>1, <1>5 DEF F
<1> QED  BY <1>2, <1>3, <1>5, <1>6

\* A result of Interpret, with another outcome.
LEMMA OkReplaced ==
  ASSUME NEW r, NEW a, NEW b, NEW c, NEW d, NEW e, NEW g, NEW z,
         r = [ok |-> a, section |-> b, static |-> c, config |-> d], z = [r EXCEPT !.ok = e]
  PROVE  z = [ok |-> e, section |-> b, static |-> c, config |-> d]
<1> DEFINE y == [r EXCEPT !.ok = e]
<1>0. z = y
  OBVIOUS
<1>1. y.ok = e /\ y.section = b /\ y.static = c /\ y.config = d
  OBVIOUS
<1>2. y = [f \in {"ok", "section", "static", "config"} |-> y[f]]
  OBVIOUS
<1> HIDE DEF y
<1>3. y = [ok |-> e, section |-> b, static |-> c, config |-> d]
  BY <1>1, <1>2
<1> QED  BY <1>0, <1>3

\* A result of Interpret, with another section.
LEMMA SectionReplaced ==
  ASSUME NEW r, NEW a, NEW b, NEW c, NEW d, NEW e, NEW g, NEW z,
         r = [ok |-> a, section |-> b, static |-> c, config |-> d], z = [r EXCEPT !.section = e]
  PROVE  z = [ok |-> a, section |-> e, static |-> c, config |-> d]
<1> DEFINE y == [r EXCEPT !.section = e]
<1>0. z = y
  OBVIOUS
<1>1. y.ok = a /\ y.section = e /\ y.static = c /\ y.config = d
  OBVIOUS
<1>2. y = [f \in {"ok", "section", "static", "config"} |-> y[f]]
  OBVIOUS
<1> HIDE DEF y
<1>3. y = [ok |-> a, section |-> e, static |-> c, config |-> d]
  BY <1>1, <1>2
<1> QED  BY <1>0, <1>3

\* A result of Interpret, with another outcome and configuration.
LEMMA BothReplaced ==
  ASSUME NEW r, NEW a, NEW b, NEW c, NEW d, NEW e, NEW g, NEW z,
         r = [ok |-> a, section |-> b, static |-> c, config |-> d],
         z = [r EXCEPT !.ok = e, !.config = g]
  PROVE  z = [ok |-> e, section |-> b, static |-> c, config |-> g]
<1> DEFINE y == [r EXCEPT !.ok = e, !.config = g]
<1>0. z = y
  OBVIOUS
<1>1. y.ok = e /\ y.section = b /\ y.static = c /\ y.config = g
  OBVIOUS
<1>2. y = [f \in {"ok", "section", "static", "config"} |-> y[f]]
  OBVIOUS
<1> HIDE DEF y
<1>3. y = [ok |-> e, section |-> b, static |-> c, config |-> g]
  BY <1>1, <1>2
<1> QED  BY <1>0, <1>3

\* A result of Interpret, with other static variables and configuration.
LEMMA LastReplaced ==
  ASSUME NEW r, NEW a, NEW b, NEW c, NEW d, NEW e, NEW g, NEW z,
         r = [ok |-> a, section |-> b, static |-> c, config |-> d],
         z = [r EXCEPT !.static = e, !.config = g]
  PROVE  z = [ok |-> a, section |-> b, static |-> e, config |-> g]
<1> DEFINE y == [r EXCEPT !.static = e, !.config = g]
<1>0. z = y
  OBVIOUS
<1>1. y.ok = a /\ y.section = b /\ y.static = e /\ y.config = g
  OBVIOUS
<1>2. y = [f \in {"ok", "section", "static", "config"} |-> y[f]]
  OBVIOUS
<1> HIDE DEF y
<1>3. y = [ok |-> a, section |-> b, static |-> e, config |-> g]
  BY <1>1, <1>2
<1> QED  BY <1>0, <1>3

\* The fields of the configuration.
LEMMA ConfigIs ==
  ASSUME TypeOK
  PROVE  /\ config.queue \in [Lines -> Texts] /\ config.type \in Feeds \cup {"none"}
         /\ config.port \in Nat /\ config.file \in Strings /\ config.command \in Strings
         /\ config = [queue |-> config.queue, type |-> config.type, port |-> config.port,
                      file |-> config.file, command |-> config.command]
         /\ static.port \in Nat /\ static.word = NoString
         /\ static = [port |-> static.port, word |-> NoString]
         /\ Refused = [ok |-> FALSE, section |-> section, static |-> static, config |-> config]
         /\ Taken = [ok |-> TRUE, section |-> section, static |-> static, config |-> config]
<1>1. config \in Configs /\ static \in [port : Nat, word : {NoString}]
  BY DEF TypeOK
<1>2. /\ config.queue \in [Lines -> Texts] /\ config.type \in Feeds \cup {"none"}
      /\ config.port \in Nat /\ config.file \in Strings /\ config.command \in Strings
  BY <1>1 DEF Configs
<1>3. config = [queue |-> config.queue, type |-> config.type, port |-> config.port,
                file |-> config.file, command |-> config.command]
  BY <1>1 DEF Configs
<1>4. /\ static.port \in Nat /\ static.word = NoString
      /\ static = [port |-> static.port, word |-> NoString]
  BY <1>1
<1>5. /\ Refused = [ok |-> FALSE, section |-> section, static |-> static, config |-> config]
      /\ Taken = [ok |-> TRUE, section |-> section, static |-> static, config |-> config]
  <2>1. Refused = [ok |-> FALSE, section |-> section, static |-> static, config |-> config]
    BY DEF Refused
  <2>2. Taken = [Refused EXCEPT !.ok = TRUE]
    BY DEF Taken
  <2> HIDE DEF Refused, Taken
  <2> QED  BY <2>1, <2>2, OkReplaced
<1> QED  BY <1>2, <1>3, <1>4, <1>5

\* The queue after a put that may be refused.
LEMMA PutIs ==
  ASSUME NEW q \in [Lines -> Texts], NEW r, r.line \in Lines, r.text \in Texts, NEW e \in BOOLEAN
  PROVE  /\ Put(q, r, e).queue \in [Lines -> Texts]
         /\ \A n \in Lines : n # r.line => Put(q, r, e).queue[n] = q[n]
         /\ Put(q, r, e).ok <=> (e \/ q[r.line] = <<>>)
         /\ Put(q, r, e).queue = IF e \/ q[r.line] = <<>> THEN [q EXCEPT ![r.line] = r.text] ELSE q
<1> DEFINE new == [q EXCEPT ![r.line] = r.text]
<1>1. new \in [Lines -> Texts] /\ \A n \in Lines : n # r.line => new[n] = q[n]
  OBVIOUS
<1>2. CASE e \/ q[r.line] = <<>>
  <2>1. Put(q, r, e) = [ok |-> TRUE, queue |-> new]
    BY <1>2 DEF Put
  <2> HIDE DEF new
  <2>2. Put(q, r, e).ok = TRUE /\ Put(q, r, e).queue = new
    BY <2>1
  <2> QED  BY <1>1, <1>2, <2>2 DEF new
<1>3. CASE ~(e \/ q[r.line] = <<>>)
  <2>1. Put(q, r, e) = [ok |-> FALSE, queue |-> q]
    BY <1>3 DEF Put
  <2>2. Put(q, r, e).ok = FALSE /\ Put(q, r, e).queue = q
    BY <2>1
  <2> QED  BY <1>3, <2>2
<1> QED  BY <1>2, <1>3

\* What is done with a line of a file, kind by kind.
LEMMA Interpreted ==
  ASSUME TypeOK, NEW l \in Entries, NEW id \in Ids
  PROVE  /\ l.kind = "blank" => Interpret(l, id) = Taken
         /\ l.kind = "section" =>
              Interpret(l, id) =
                IF l.name = "other" THEN Refused
                ELSE [ok |-> TRUE, section |-> l.name, static |-> static, config |-> config]
         /\ l.kind = "rule" =>
              Interpret(l, id) =
                IF section # "Rules" THEN Refused
                ELSE [ok |-> TRUE, section |-> section, static |-> static,
                      config |-> [queue |-> [config.queue EXCEPT ![l.line] = l.text],
                                  type |-> config.type, port |-> config.port,
                                  file |-> config.file, command |-> config.command]]
         /\ l.kind = "runtime" =>
              LET port == IF l.port # NoPort THEN l.port ELSE static.port
                  word == IF l.port # NoPort THEN NoString ELSE String(l.word, id) IN
              Interpret(l, id) =
                IF section # "Runtime" THEN Refused
                ELSE [ok |-> TRUE, section |-> section,
                      static |-> [port |-> port, word |-> NoString],
                      config |-> [queue |-> config.queue,
                                  type |-> IF l.type = "command" THEN config.type ELSE l.type,
                                  port |-> IF l.type = "command" THEN config.port ELSE port,
                                  file |-> IF l.type = "command" THEN config.file ELSE word,
                                  command |-> IF l.type = "command" THEN word ELSE config.command]]
<1>1. CASE l.kind = "blank"
  BY <1>1 DEF Interpret
<1>2. CASE l.kind = "section"
  <2>1. Interpret(l, id) = IF l.name # "other" THEN [Taken EXCEPT !.section = l.name] ELSE Refused
    BY <1>2 DEF Interpret
  <2>2. CASE l.name = "other"
    BY <1>2, <2>1, <2>2
  <2>3. CASE l.name # "other"
    <3>1. Interpret(l, id) = [Taken EXCEPT !.section = l.name]
      BY <2>1, <2>3
    <3>2. Interpret(l, id) =
            [ok |-> TRUE, section |-> l.name, static |-> static, config |-> config]
      <4>1. Taken = [ok |-> TRUE, section |-> section, static |-> static, config |-> config]
        BY ConfigIs
      <4> QED  BY <3>1, <4>1, SectionReplaced, Zenon
    <3> QED  BY <1>2, <2>3, <3>2
  <2> QED  BY <2>2, <2>3
<1>3. CASE l.kind = "rule"
  <2>1. Interpret(l, id) = IF section = "Rules" THEN Rule(l) ELSE Refused
    BY <1>3 DEF Interpret
  <2>2. l.line \in Lines /\ l.text \in Texts
    BY <1>3, EntryIs DEF Texts
  <2>3. /\ Put(config.queue, l, TRUE).ok = TRUE
        /\ Put(config.queue, l, TRUE).queue = [config.queue EXCEPT ![l.line] = l.text]
    BY DEF Put
  <2>4. Rule(l) = [Taken EXCEPT !.ok = TRUE,
                                !.config.queue = [config.queue EXCEPT ![l.line] = l.text]]
    BY <2>3 DEF Rule
  <2>5. [config EXCEPT !.queue = [config.queue EXCEPT ![l.line] = l.text]] =
          [queue |-> [config.queue EXCEPT ![l.line] = l.text], type |-> config.type,
           port |-> config.port, file |-> config.file, command |-> config.command]
    BY ConfigIs
  <2>6. Rule(l) = [ok |-> TRUE, section |-> section, static |-> static,
                   config |-> [config EXCEPT !.queue = [config.queue EXCEPT ![l.line] = l.text]]]
    <3> DEFINE q == [config.queue EXCEPT ![l.line] = l.text]
               d == [config EXCEPT !.queue = q]
    <3>1. Taken.config = config
      BY ConfigIs
    <3>2. Rule(l) = [Taken EXCEPT !.ok = TRUE, !.config = d]
      BY <2>4, <3>1
    <3> HIDE DEF d
    <3>3. Taken = [ok |-> TRUE, section |-> section, static |-> static, config |-> config]
      BY ConfigIs
    <3>4. Rule(l) = [ok |-> TRUE, section |-> section, static |-> static, config |-> d]
      BY <3>2, <3>3, BothReplaced, Zenon
    <3> QED  BY <3>4 DEF d
  <2> QED  BY <1>3, <2>1, <2>5, <2>6
<1>4. CASE l.kind = "runtime"
  <2> DEFINE port == IF l.port # NoPort THEN l.port ELSE static.port
             word == IF l.port # NoPort THEN NoString ELSE String(l.word, id)
             next == IF l.type = "command" THEN [config EXCEPT !.command = word]
                     ELSE [config EXCEPT !.type = l.type, !.port = port, !.file = word]
  <2>1. Interpret(l, id) = IF section = "Runtime" THEN Runtime(l, id) ELSE Refused
    BY <1>4 DEF Interpret
  <2>2. static.word = NoString /\ Taken.config = config
    BY ConfigIs
  <2>3. Runtime(l, id) =
          [Taken EXCEPT !.static = [port |-> port, word |-> NoString], !.config = next]
    BY <2>2, ConfigIs DEF Runtime
  <2>4. next = [queue |-> config.queue,
                type |-> IF l.type = "command" THEN config.type ELSE l.type,
                port |-> IF l.type = "command" THEN config.port ELSE port,
                file |-> IF l.type = "command" THEN config.file ELSE word,
                command |-> IF l.type = "command" THEN word ELSE config.command]
    <3> HIDE DEF port, word
    <3>1. CASE l.type = "command"
      BY <3>1, ConfigIs
    <3>2. CASE l.type # "command"
      BY <3>2, ConfigIs
    <3> QED  BY <3>1, <3>2
  <2>5. Runtime(l, id) = [ok |-> TRUE, section |-> section,
                          static |-> [port |-> port, word |-> NoString], config |-> next]
    <3> HIDE DEF next, port
    <3>3. Taken = [ok |-> TRUE, section |-> section, static |-> static, config |-> config]
      BY ConfigIs
    <3> QED  BY <2>3, <3>3, LastReplaced, Zenon
  <2> QED  BY <1>4, <2>1, <2>4, <2>5
<1> QED  BY <1>1, <1>2, <1>3, <1>4, EntryIs

-----------------------------------------------------------------------------
\* The line is in its place, given the section that is read.
Placed(l) ==
  /\ l.kind = "section" => l.name \in {"Rules", "Runtime"}
  /\ l.kind = "rule" => section = "Rules"
  /\ l.kind = "runtime" => section = "Runtime"

\* What a line that is taken does to the reader and to the configuration.
Kept(l, id) ==
  LET feeds    == l.kind = "runtime" /\ l.type \in Feeds
      commands == l.kind = "runtime" /\ l.type = "command"
      word     == IF l.port # NoPort THEN NoString ELSE String(l.word, id) IN
  /\ section' = IF l.kind = "section" THEN l.name ELSE section
  /\ static'.port = IF l.kind = "runtime" /\ l.port # NoPort THEN l.port ELSE static.port
  /\ static' \in [port : Nat, word : {NoString}]
  /\ config' \in Configs
  /\ config'.queue = IF l.kind = "rule" THEN [config.queue EXCEPT ![l.line] = l.text]
                     ELSE config.queue
  /\ config'.type = IF feeds THEN l.type ELSE config.type
  /\ config'.port = IF feeds THEN static'.port ELSE config.port
  /\ config'.file = IF feeds THEN word ELSE config.file
  /\ config'.command = IF commands THEN word ELSE config.command

\* The strings of a line are strings, and its number tells where they come from.
LEMMA StringIs ==
  ASSUME TypeOK, NEW i \in Nat, NEW twice \in BOOLEAN
  PROVE  /\ <<file, i, twice>> \in Ids
         /\ \A w \in STRING : String(w, <<file, i, twice>>) \in Strings
         /\ NoString \in Strings
<1>1. <<file, i, twice>> \in Ids
  BY DEF TypeOK, Ids
<1>2. <<>> \in Ids
  BY DEF Ids
<1>3. \A w \in STRING, d \in Ids : String(w, d) \in Strings
  BY DEF String, Strings
<1>4. NoString \in Strings
  BY <1>2 DEF NoString, String, Strings
<1> QED  BY <1>1, <1>3, <1>4

\* A line is taken, to that effect, or the file is given up.
LEMMA ReadMoves ==
  ASSUME TypeOK, NEW i \in 1 .. Len(F), NEW twice \in BOOLEAN, Read(F[i], i, twice)
  PROVE  /\ UNCHANGED <<files, thread>>
         /\ \/ /\ Placed(F[i]) /\ Kept(F[i], <<file, i, twice>>)
               /\ at' = i /\ again' = twice /\ UNCHANGED <<file, stage>>
            \/ ~Placed(F[i]) /\ Refuse /\ static' = static
<1> DEFINE l == F[i]
           id == <<file, i, twice>>
           word == IF l.port # NoPort THEN NoString ELSE String(l.word, id)
           port == IF l.port # NoPort THEN l.port ELSE static.port
<1>1. l \in Entries /\ i \in Nat
  BY Sequences
<1>2. id \in Ids /\ NoString \in Strings /\ \A w \in STRING : String(w, id) \in Strings
  BY <1>1, StringIs
<1>3. /\ UNCHANGED <<files, thread>> /\ static' = Interpret(l, id).static
      /\ Interpret(l, id).ok =>
           /\ at' = i /\ again' = twice /\ UNCHANGED <<file, stage>>
           /\ section' = Interpret(l, id).section /\ config' = Interpret(l, id).config
      /\ ~Interpret(l, id).ok => Refuse
  BY DEF Read
<1> HIDE DEF l, id
<1>4. CASE l.kind = "blank"
  <2>1. /\ Interpret(l, id).ok /\ Interpret(l, id).static = static
        /\ Interpret(l, id).section = section /\ Interpret(l, id).config = config
    BY <1>1, <1>2, <1>4, Interpreted, ConfigIs
  <2>2. Placed(l) /\ Kept(l, id)
    BY <1>3, <1>4, <2>1 DEF Placed, Kept, TypeOK
  <2> QED  BY <1>3, <2>1, <2>2 DEF l, id
<1>5. CASE l.kind = "section"
  <2>1. CASE l.name = "other"
    <3>1. ~Interpret(l, id).ok /\ Interpret(l, id).static = static
      BY <1>1, <1>2, <1>5, <2>1, Interpreted, ConfigIs
    <3> QED  BY <1>3, <1>5, <2>1, <3>1 DEF Placed, l
  <2>2. CASE l.name # "other"
    <3>1. /\ Interpret(l, id).ok /\ Interpret(l, id).static = static
          /\ Interpret(l, id).section = l.name /\ Interpret(l, id).config = config
      BY <1>1, <1>2, <1>5, <2>2, Interpreted
    <3>2. Placed(l) /\ Kept(l, id)
      BY <1>1, <1>3, <1>5, <2>2, <3>1, EntryIs DEF Placed, Kept, TypeOK
    <3> QED  BY <1>3, <3>1, <3>2 DEF l, id
  <2> QED  BY <2>1, <2>2
<1>6. CASE l.kind = "rule"
  <2>1. CASE section # "Rules"
    <3>1. ~Interpret(l, id).ok /\ Interpret(l, id).static = static
      BY <1>1, <1>2, <1>6, <2>1, Interpreted, ConfigIs
    <3> QED  BY <1>3, <1>6, <2>1, <3>1 DEF Placed, l
  <2>2. CASE section = "Rules"
    <3> DEFINE new == [config.queue EXCEPT ![l.line] = l.text]
    <3>0. new \in [Lines -> Texts]
      BY <1>1, <1>6, EntryIs, ConfigIs DEF Texts
    <3>1. Interpret(l, id) =
            [ok |-> TRUE, section |-> section, static |-> static,
             config |-> [queue |-> new, type |-> config.type, port |-> config.port,
                         file |-> config.file, command |-> config.command]]
      BY <1>1, <1>2, <1>6, <2>2, Interpreted
    <3> HIDE DEF new
    <3>2. /\ Interpret(l, id).ok /\ section' = section /\ static' = static
          /\ config' = [queue |-> new, type |-> config.type, port |-> config.port,
                        file |-> config.file, command |-> config.command]
      BY <1>3, <3>1
    <3>3. config' \in Configs
      BY <3>0, <3>2, ConfigIs DEF Configs
    <3>4. Placed(l) /\ Kept(l, id)
      BY <1>6, <2>2, <3>2, <3>3 DEF Placed, Kept, TypeOK, new
    <3> QED  BY <1>3, <3>2, <3>4 DEF l, id
  <2> QED  BY <2>1, <2>2
<1>7. CASE l.kind = "runtime"
  <2>1. CASE section # "Runtime"
    <3>1. ~Interpret(l, id).ok /\ Interpret(l, id).static = static
      BY <1>1, <1>2, <1>7, <2>1, Interpreted, ConfigIs
    <3> QED  BY <1>3, <1>7, <2>1, <3>1 DEF Placed, l
  <2>2. CASE section = "Runtime"
    <3>0. /\ l.type \in Feeds \cup {"command"} /\ "command" \notin Feeds
          /\ port \in Nat /\ word \in Strings
      BY <1>1, <1>2, <1>7, EntryIs, ConfigIs DEF Feeds
    <3>1. Interpret(l, id) =
            [ok |-> TRUE, section |-> section, static |-> [port |-> port, word |-> NoString],
             config |-> [queue |-> config.queue,
                         type |-> IF l.type = "command" THEN config.type ELSE l.type,
                         port |-> IF l.type = "command" THEN config.port ELSE port,
                         file |-> IF l.type = "command" THEN config.file ELSE word,
                         command |-> IF l.type = "command" THEN word ELSE config.command]]
      BY <1>1, <1>2, <1>7, <2>2, Interpreted
    <3> HIDE DEF port, word
    <3>2. /\ Interpret(l, id).ok /\ section' = section
          /\ static' = [port |-> port, word |-> NoString]
          /\ config' = [queue |-> config.queue,
                        type |-> IF l.type = "command" THEN config.type ELSE l.type,
                        port |-> IF l.type = "command" THEN config.port ELSE port,
                        file |-> IF l.type = "command" THEN config.file ELSE word,
                        command |-> IF l.type = "command" THEN word ELSE config.command]
      BY <1>3, <3>1
    <3>3. config' \in Configs /\ static' \in [port : Nat, word : {NoString}]
      BY <3>0, <3>2, ConfigIs DEF Configs
    <3>4. Placed(l)
      BY <1>7, <2>2 DEF Placed
    <3>5. /\ static'.port = port
          /\ config'.queue = config.queue
          /\ config'.type = (IF l.type = "command" THEN config.type ELSE l.type)
          /\ config'.port = (IF l.type = "command" THEN config.port ELSE port)
          /\ config'.file = (IF l.type = "command" THEN config.file ELSE word)
          /\ config'.command = (IF l.type = "command" THEN word ELSE config.command)
      BY <3>2
    <3>6. Kept(l, id)
      BY <1>7, <3>0, <3>2, <3>3, <3>5 DEF Kept, port, word
    <3> QED  BY <1>3, <3>2, <3>4, <3>6 DEF l, id
  <2> QED  BY <2>1, <2>2
<1> QED  BY <1>1, <1>4, <1>5, <1>6, <1>7, EntryIs

\* A file that is given up leaves nothing; the second one, if it has lines, is read next.
LEMMA Refusal ==
  ASSUME TypeOK, Refuse, UNCHANGED files
  PROVE  /\ config' = Empty /\ Empty \in Configs
         /\ again' \in BOOLEAN /\ section' \in {"Rules", "Runtime"}
         /\ \/ /\ file = "first" /\ file' = "default" /\ at' = 0 /\ section' = "Rules"
               /\ stage' = IF files["default"].lines = <<>> THEN "off" ELSE "reading"
            \/ file = "default" /\ file' = file /\ at' = at /\ stage' = "off"
<1>1. NoRules \in [Lines -> Texts]
  <2>1. <<>> \in Texts
    BY DEF Texts
  <2> QED  BY <2>1 DEF NoRules
<1>2. NoString \in Strings
  <2>1. <<>> \in Ids
    BY DEF Ids
  <2> QED  BY <2>1 DEF NoString, String, Strings
<1>3. Empty \in Configs
  BY <1>1, <1>2 DEF Empty, Configs, NoPort
<1> QED  BY <1>3 DEF TypeOK, Refuse, Try, Names

\* What is put in the queue to leave the interface alone, whatever was there.
LEMMA StartMoves ==
  ASSUME TypeOK, Start
  PROVE  /\ config' \in Configs
         /\ config'.type = config.type /\ config'.port = config.port
         /\ config'.file = config.file /\ config'.command = config.command
         /\ config.type = "tcp" => config'.queue[0] = <<"with me port", config.port>>
<1> DEFINE text == <<"with me port", config.port>>
           new == [config.queue EXCEPT ![0] = text]
<1>1. text \in Texts /\ 0 \in Lines
  BY ConfigIs, LinesAssumption DEF Texts
<1>2. new \in [Lines -> Texts] /\ new[0] = text
  BY <1>1, ConfigIs
<1>3. CASE config.type = "tcp"
  <2>1. Put(config.queue, Whitelist(config.port), TRUE).queue = new
    BY DEF Put, Whitelist
  <2>2. config' = [config EXCEPT !.queue = new]
    BY <1>3, <2>1 DEF Start
  <2> HIDE DEF new
  <2>3. config' = [queue |-> new, type |-> config.type, port |-> config.port,
                   file |-> config.file, command |-> config.command]
    BY <2>2, ConfigIs
  <2> QED  BY <1>2, <2>3, ConfigIs DEF Configs
<1>4. CASE config.type # "tcp"
  <2>1. config' = config
    BY <1>4 DEF Start
  <2> QED  BY <1>4, <2>1 DEF TypeOK
<1> QED  BY <1>3, <1>4

\* A command changes nothing but the queue, and takes the rule at a line only if it names it.
LEMMA EditIs ==
  ASSUME TypeOK, NEW verb, NEW args \in Seq(STRING)
  PROVE  /\ Edit(verb, args) \in Configs
         /\ Edit(verb, args).type = config.type /\ Edit(verb, args).port = config.port
         /\ Edit(verb, args).file = config.file /\ Edit(verb, args).command = config.command
         /\ \A n \in Lines :
              Edit(verb, args).queue[n] # config.queue[n] =>
                \/ verb = "remove" /\ args # <<>> /\ args[1] \in Digits /\ Number(args) = n
                \/ verb = "replace" /\ args \in DOMAIN Rules /\ Rules[args].line = n
                \/ config.queue[n] = <<>>
<1>1. /\ config.queue \in [Lines -> Texts]
      /\ \A q : [config EXCEPT !.queue = q] =
                  [queue |-> q, type |-> config.type, port |-> config.port,
                   file |-> config.file, command |-> config.command]
  BY ConfigIs
<1>2. CASE verb = "remove" /\ args # <<>> /\ args[1] \in Digits
  <2> DEFINE line == Number(args)
             new == [config.queue EXCEPT ![line] = <<>>]
  <2>1. <<>> \in Texts
    BY DEF Texts
  <2>2. new \in [Lines -> Texts] /\ \A n \in Lines : n # line => new[n] = config.queue[n]
    BY <1>1, <2>1
  <2>3. Edit(verb, args) = [config EXCEPT !.queue = new]
    BY <1>2 DEF Edit
  <2> HIDE DEF new, line
  <2>4. Edit(verb, args) = [queue |-> new, type |-> config.type, port |-> config.port,
                            file |-> config.file, command |-> config.command]
    BY <1>1, <2>3
  <2> QED  BY <1>2, <2>2, <2>4, ConfigIs DEF Configs, line
<1>3. CASE /\ ~(verb = "remove" /\ args # <<>> /\ args[1] \in Digits)
           /\ verb \in {"add", "replace"} /\ args \in DOMAIN Rules
  <2> DEFINE r == Rules[args]
             over == verb = "replace"
             new == Put(config.queue, r, over).queue
  <2>1. r.line \in Lines /\ r.text \in Texts /\ over \in BOOLEAN
    BY <1>3, RulesAssumption DEF Texts
  <2>2. /\ new \in [Lines -> Texts] /\ \A n \in Lines : n # r.line => new[n] = config.queue[n]
        /\ new = IF over \/ config.queue[r.line] = <<>>
                 THEN [config.queue EXCEPT ![r.line] = r.text] ELSE config.queue
    <3> HIDE DEF r, over
    <3> QED  BY <1>1, <2>1, PutIs
  <2>3. Edit(verb, args) = [config EXCEPT !.queue = new]
    BY <1>3 DEF Edit
  <2> HIDE DEF new, r
  <2>4. Edit(verb, args) = [queue |-> new, type |-> config.type, port |-> config.port,
                            file |-> config.file, command |-> config.command]
    BY <1>1, <2>3
  <2>5. \A n \in Lines : new[n] # config.queue[n] =>
          n = r.line /\ (verb = "replace" \/ config.queue[n] = <<>>)
    BY <2>2
  <2> QED  BY <1>3, <2>2, <2>4, <2>5, ConfigIs DEF Configs, r
<1>4. CASE /\ ~(verb = "remove" /\ args # <<>> /\ args[1] \in Digits)
           /\ ~(verb \in {"add", "replace"} /\ args \in DOMAIN Rules)
  <2>1. Edit(verb, args) = config
    BY <1>4 DEF Edit
  <2> QED  BY <2>1 DEF TypeOK
<1> QED  BY <1>2, <1>3, <1>4

\* A line that starts with a verb is that verb and its arguments.
LEMMA VerbIs ==
  ASSUME NEW b \in Seq(STRING), Verb(b) \in Verbs
  PROVE  /\ b # <<>> /\ Len(b) > 1 /\ Verb(b) = b[1]
         /\ Args(b) \in Seq(STRING) /\ Args(b) = SubSeq(b, 3, Len(b))
<1>1. Len(b) > 1 /\ b[2] = ":"
  BY Zenon DEF Verb, Verbs
<1>2. Verb(b) = b[1]
  BY <1>1, Zenon DEF Verb
<1>3. b # <<>>
  BY <1>1
<1>4. 3 \in 1 .. Len(b) + 1 /\ Len(b) \in 0 .. Len(b)
  BY <1>1
<1>5. Args(b) \in Seq(STRING)
  BY <1>4, PiecePart, PieceWhole DEF Args
<1> QED  BY <1>1, <1>2, <1>3, <1>5 DEF Args

\* A line of a file that is read keeps the types.
LEMMA ReadTyped ==
  ASSUME TypeOK, NEW i \in 1 .. Len(F), NEW twice \in BOOLEAN, Read(F[i], i, twice)
  PROVE  TypeOK'
<1>0. UNCHANGED <<files, script, client, conn, stream, buffer, ran, said>>
  BY ReadMoves DEF thread
<1>1. CASE Placed(F[i]) /\ Kept(F[i], <<file, i, twice>>) /\ at' = i /\ again' = twice
           /\ UNCHANGED <<file, stage>>
  <2>1. F' = F /\ at' \in 0 .. Len(F)
    BY <1>0, <1>1, Sequences DEF F
  <2>2. section' \in {"Rules", "Runtime"}
    BY <1>0, <1>1 DEF Placed, Kept, TypeOK
  <2>3. static' \in [port : Nat, word : {NoString}] /\ config' \in Configs
    BY <1>1 DEF Kept
  <2> QED  BY <1>0, <1>1, <2>1, <2>2, <2>3 DEF TypeOK
<1>2. CASE Refuse /\ static' = static
  <2>1. file' \in Names /\ at' \in 0 .. Len(F') /\ stage' \in {"reading", "off"}
    BY <1>0, <1>2, Refusal, Sequences, SMTT(30) DEF F, Names, TypeOK
  <2>2. config' \in Configs /\ again' \in BOOLEAN /\ section' \in {"Rules", "Runtime"}
    BY <1>0, <1>2, Refusal
  <2> QED  BY <1>0, <1>2, <2>1, <2>2 DEF TypeOK
<1> QED  BY <1>1, <1>2, ReadMoves

\* The two steps that take a line, as one.
LEMMA Taking ==
  ASSUME TypeOK, Reading, TakeLine \/ Reread
  PROVE  /\ stage = "reading"
         /\ \E i \in 1 .. Len(F), twice \in BOOLEAN :
              /\ Read(F[i], i, twice)
              /\ \/ i = at + 1 /\ twice = FALSE
                 \/ i = at /\ at = Len(F) /\ twice = TRUE
<1>1. CASE TakeLine
  <2>1. at + 1 \in 1 .. Len(F)
    BY <1>1, Sequences DEF TakeLine, F, TypeOK
  <2>2. stage = "reading" /\ Read(F[at + 1], at + 1, FALSE)
    BY <1>1 DEF TakeLine, F
  <2>3. at + 1 \in 1 .. Len(F) /\ FALSE \in BOOLEAN
    BY <2>1
  <2> HIDE DEF F
  <2> QED  BY <2>2, <2>3, Zenon
<1>2. CASE Reread
  <2>1. F # <<>> /\ F \in Seq(Entries) /\ at = Len(F)
    BY <1>2, Sequences DEF Reread, F, Reading, SoFar
  <2>2. at \in 1 .. Len(F)
    BY <2>1
  <2>3. stage = "reading" /\ Read(F[at], at, TRUE)
    BY <1>2 DEF Reread, F
  <2> QED  BY <2>1, <2>2, <2>3
<1> QED  BY <1>1, <1>2

\* Every step keeps the types.
LEMMA TypeStep ==
  ASSUME TypeOK, Reading, [Next]_vars
  PROVE  TypeOK'
<1>1. CASE TakeLine \/ Reread
  BY <1>1, Taking, ReadTyped
<1>2. CASE EndOfFile
  <2>0. UNCHANGED <<files, static, script, client, conn, stream, buffer, ran, said>>
    BY <1>2 DEF EndOfFile, thread
  <2>1. CASE stage' = "chosen" /\ UNCHANGED <<file, at, again, section, config>>
    BY <2>0, <2>1 DEF TypeOK, F
  <2>2. CASE Refuse
    <3>1. file' \in Names /\ at' \in 0 .. Len(F') /\ stage' \in {"reading", "off"}
      BY <2>0, <2>2, Refusal, Sequences, SMTT(30) DEF F, Names, TypeOK
    <3>2. config' \in Configs /\ again' \in BOOLEAN /\ section' \in {"Rules", "Runtime"}
      BY <2>0, <2>2, Refusal
    <3> QED  BY <2>0, <3>1, <3>2 DEF TypeOK
  <2> QED  BY <1>2, <2>1, <2>2 DEF EndOfFile
<1>3. CASE Start
  <2>1. config' \in Configs
    BY <1>3, StartMoves
  <2>2. stage' \in {"serving", "off"} /\ UNCHANGED <<reader, thread>>
    BY <1>3 DEF Start
  <2> QED  BY <2>1, <2>2 DEF TypeOK, F, reader, thread
<1>4. CASE UNCHANGED <<reader, stage, config, script>>
           /\ client' \in 0 .. Len(script)
           /\ conn' \in {"waiting", "reading", "over", "crashed", "killed"}
           /\ stream' \in Seq(STRING) /\ buffer' \in Seq(STRING) /\ ran' \in Seq(Seq(STRING))
           /\ said' \in Seq(STRING)
  BY <1>4 DEF TypeOK, F, reader
<1>5. CASE Accept \/ Arrive
  <2>1. /\ UNCHANGED <<reader, stage, config, script, buffer>> /\ ran' \in {<<>>, ran}
        /\ conn' \in {"waiting", "reading", "over", "crashed", "killed"}
    BY <1>5 DEF Accept, Arrive, TypeOK
  <2>2. \/ UNCHANGED <<client, stream, said>>
        \/ /\ client < Len(script) /\ client' = client + 1
           /\ \/ stream' = script[client + 1].says /\ said' = script[client + 1].says
              \/ /\ stream' = stream \o script[client + 1].says
                 /\ said' = said \o script[client + 1].says
    BY <1>5 DEF Accept, Arrive
  <2>3. client < Len(script) =>
          client + 1 \in 1 .. Len(script) /\ script[client + 1].says \in Seq(STRING)
    BY Sequences DEF TypeOK
  <2>4. client' \in 0 .. Len(script)
    BY <2>2, <2>3, Sequences DEF TypeOK
  <2>5. stream' \in Seq(STRING) /\ said' \in Seq(STRING)
    <3>1. stream \in Seq(STRING) /\ said \in Seq(STRING)
      BY DEF TypeOK
    <3>2. ASSUME NEW t \in Seq(STRING) PROVE stream \o t \in Seq(STRING) /\ said \o t \in Seq(STRING)
      BY <3>1, ConcatProperties
    <3> QED  BY <2>2, <2>3, <3>1, <3>2
  <2>6. ran' \in Seq(Seq(STRING))
    <3>1. ran \in Seq(Seq(STRING))
      BY DEF TypeOK
    <3>2. <<>> \in Seq(Seq(STRING))
      OBVIOUS
    <3> QED  BY <2>1, <3>1, <3>2, Zenon
  <2> QED  BY <1>4, <2>1, <2>4, <2>5, <2>6 DEF TypeOK
<1>6. CASE AcceptFails \/ Broken
  BY <1>4, <1>6 DEF AcceptFails, Broken, TypeOK
<1>7. CASE Skip
  <2>1. After(buffer) \in Seq(STRING)
    BY LinePieces, PieceWhole DEF TypeOK
  <2> QED  BY <1>4, <1>7, <2>1 DEF Skip, TypeOK
<1>8. CASE Command
  <2>1. /\ After(buffer) \in Seq(STRING) /\ Line(buffer) \in Seq(STRING)
        /\ Verb(Line(buffer)) \in Verbs
    BY <1>8, LinePieces, PieceWhole DEF TypeOK, Command
  <2>2. Args(Line(buffer)) \in Seq(STRING)
    BY <2>1, VerbIs
  <2>3. config' \in Configs
    BY <1>8, <2>2, EditIs DEF Command
  <2>4. <<>> \in Seq(STRING)
    OBVIOUS
  <2>6. buffer' = <<>> \/ buffer' = After(buffer)
    BY <1>8 DEF Command, Rest
  <2>7. stream' = <<>> \/ stream' = stream
    BY <1>8 DEF Command
  <2>8. conn' \in {"waiting", "reading", "over", "crashed", "killed"}
    BY <1>8 DEF Command, TypeOK
  <2>9. ran' \in Seq(Seq(STRING))
    BY <1>8, <2>1 DEF Command, TypeOK
  <2>5. UNCHANGED <<reader, stage, script, client, said>>
    BY <1>8 DEF Command
  <2> QED  BY <2>1, <2>3, <2>4, <2>5, <2>6, <2>7, <2>8, <2>9 DEF TypeOK, F, reader
<1>9. CASE \E n \in 1 .. Chunk : Receive(n)
  <2>1. PICK n \in 1 .. Chunk : Receive(n)
    BY <1>9
  <2>2. n \in 0 .. Len(stream) /\ n + 1 \in 1 .. Len(stream) + 1 /\ Len(stream) \in 0 .. Len(stream)
    BY <2>1, ChunkAssumption DEF Receive, TypeOK
  <2>3. /\ SubSeq(stream, 1, n) \in Seq(STRING)
        /\ SubSeq(stream, n + 1, Len(stream)) \in Seq(STRING)
    BY <2>2, PiecePart, PieceWhole, SMTT(30) DEF TypeOK
  <2>4. stream' \in Seq(STRING) /\ buffer' \in Seq(STRING)
    <3>1. buffer' = <<>> \/ buffer' = SubSeq(stream, 1, n)
      BY <2>1 DEF Receive
    <3>2. stream' = SubSeq(stream, n + 1, Len(stream)) /\ <<>> \in Seq(STRING)
      BY <2>1 DEF Receive
    <3> QED  BY <2>3, <3>1, <3>2
  <2> QED  BY <1>4, <2>1, <2>4 DEF Receive, TypeOK
<1>10. CASE UNCHANGED vars
  BY <1>10 DEF vars, reader, thread, TypeOK, F
<1> QED  BY <1>1, <1>2, <1>3, <1>5, <1>6, <1>7, <1>8, <1>9, <1>10 DEF Next, Served

-----------------------------------------------------------------------------
\* When one more line is taken, or the last one twice, a set of lines has gained that line, which
\* is then its last one, or nothing.
LEMMA Recent ==
  ASSUME NEW n \in Nat, NEW i \in Nat \ {0}, i = n \/ i = n + 1, NEW s
  PROVE  /\ i \in s => Upto(s, i) # {} /\ i \in Upto(s, i) /\ LastIn(Upto(s, i)) = i
         /\ i \notin s => Upto(s, i) = Upto(s, n)
<1>1. ASSUME i \in s PROVE i \in Upto(s, i) /\ LastIn(Upto(s, i)) = i
  <2>1. Upto(s, i) \subseteq Nat /\ i \in Upto(s, i) /\ \A j \in Upto(s, i) : j <= i
    BY <1>1 DEF Upto
  <2> QED  BY <2>1, LastIs
<1>2. ASSUME i \notin s PROVE Upto(s, i) = Upto(s, n)
  BY <1>2 DEF Upto
<1> QED  BY <1>1, <1>2

\* The section of a line is that of the sections before it.
Sections(f) == {j \in DOMAIN f.lines : f.lines[j].kind = "section"}

\* So it is, said of the lines up to the one before.
LEMMA SectionIs ==
  ASSUME NEW f, f.lines \in Seq(Entries), NEW n \in 0 .. Len(f.lines)
  PROVE  SectionOf(f, n + 1) =
           IF Upto(Sections(f), n) = {} THEN "Rules" ELSE f.lines[LastIn(Upto(Sections(f), n))].name
<1>1. {j \in 1 .. (n + 1) - 1 : f.lines[j].kind = "section"} = Upto(Sections(f), n)
  BY DEF Upto, Sections
<1> QED  BY <1>1 DEF SectionOf

\* Before the first line there is nothing.
LEMMA Nothing ==
  ASSUME NEW f, f.lines \in Seq(Entries), f.lines # <<>>, NEW port
  PROVE  SoFar(f, 0, "Rules", port, Empty)
<1>1. \A s : Upto(s, 0) = {}
  BY DEF Upto
<1>2. /\ Empty.queue = NoRules /\ Empty.type = "none" /\ Empty.command = NoString
      /\ \A m \in Lines : NoRules[m] = <<>>
  BY DEF Empty, NoRules
<1>3. SectionOf(f, 0 + 1) = "Rules"
  <2>1. 0 \in 0 .. Len(f.lines)
    OBVIOUS
  <2> QED  BY <1>1, <2>1, SectionIs
<1>4. RulesOf(f, 0, Empty.queue)
  BY <1>1, <1>2 DEF RulesOf
<1>5. FeedOf(f, 0, port, Empty)
  BY <1>1, <1>2 DEF FeedOf
<1>6. CommandOf(f, 0, Empty.command)
  BY <1>1, <1>2 DEF CommandOf
<1>7. \A i \in 1 .. 0 : InPlace(f, i)
  OBVIOUS
<1> HIDE DEF Empty
<1> QED  BY <1>3, <1>4, <1>5, <1>6, <1>7 DEF SoFar

\* A line that is taken keeps what the lines so far give.
LEMMA OneMore ==
  ASSUME TypeOK, NEW i \in 1 .. Len(F), i = at \/ i = at + 1, NEW twice \in BOOLEAN,
         SoFar(files[file], at, section, static.port, config),
         Placed(F[i]), Kept(F[i], <<file, i, twice>>)
  PROVE  SoFar(files[file], i, section', static'.port, config')
<1> DEFINE f == files[file]
           l == F[i]
           id == <<file, i, twice>>
<1>0. /\ f.lines = F /\ F \in Seq(Entries) /\ l \in Entries
      /\ at \in Nat /\ at \in 0 .. Len(F) /\ i \in Nat \ {0} /\ i \in 0 .. Len(F) /\ i \in DOMAIN F
  BY Sequences, SMTT(30) DEF F, TypeOK
<1>1. \A s : /\ i \in s => Upto(s, i) # {} /\ i \in Upto(s, i) /\ LastIn(Upto(s, i)) = i
             /\ i \notin s => Upto(s, i) = Upto(s, at)
  BY <1>0, Recent
<1>2. section = SectionOf(f, at + 1)
  BY DEF SoFar
<1>3. section' = SectionOf(f, i + 1)
  <2>1. i \in Sections(f) <=> l.kind = "section"
    BY <1>0 DEF Sections
  <2>2. section' = IF l.kind = "section" THEN l.name ELSE section
    BY DEF Kept
  <2> HIDE DEF f
  <2> QED  BY <1>0, <1>1, <1>2, <2>1, <2>2, SectionIs
<1>4. ASSUME NEW j \in 1 .. i PROVE InPlace(f, j)
  <2>1. CASE j \in 1 .. at
    BY <2>1 DEF SoFar
  <2>2. CASE j = at + 1 /\ i = at + 1
    BY <1>0, <1>2, <2>2 DEF InPlace, Placed
  <2> QED  BY <1>0, <2>1, <2>2
<1>5. RulesOf(f, i, config'.queue)
  <2> SUFFICES ASSUME NEW m \in Lines
               PROVE  config'.queue[m] =
                        IF Upto(RuleLines(f, m), i) = {} THEN <<>>
                        ELSE F[LastIn(Upto(RuleLines(f, m), i))].text
    BY <1>0 DEF RulesOf
  <2>1. i \in RuleLines(f, m) <=> l.kind = "rule" /\ l.line = m
    BY <1>0 DEF RuleLines
  <2>2. config.queue[m] = IF Upto(RuleLines(f, m), at) = {} THEN <<>>
                          ELSE F[LastIn(Upto(RuleLines(f, m), at))].text
    BY <1>0 DEF SoFar, RulesOf
  <2>3. config'.queue = IF l.kind = "rule" THEN [config.queue EXCEPT ![l.line] = l.text]
                        ELSE config.queue
    BY DEF Kept
  <2>4. config.queue \in [Lines -> Texts]
    BY ConfigIs
  <2>5. CASE l.kind = "rule" /\ l.line = m
    <3>1. config'.queue[m] = l.text
      BY <2>3, <2>4, <2>5
    <3> QED  BY <1>1, <2>1, <2>5, <3>1
  <2>6. CASE ~(l.kind = "rule" /\ l.line = m)
    <3>1. config'.queue[m] = config.queue[m]
      BY <2>3, <2>4, <2>6
    <3> HIDE DEF l, f
    <3> QED  BY <1>1, <2>1, <2>2, <2>6, <3>1
  <2> QED  BY <2>5, <2>6
<1>6. FeedOf(f, i, static'.port, config')
  <2> DEFINE s == TypedLines(f, Feeds)
             feeds == l.kind = "runtime" /\ l.type \in Feeds
  <2>1. i \in s <=> feeds
    BY <1>0 DEF TypedLines
  <2>2. CASE feeds
    <3>1. /\ config'.type = l.type /\ config'.port = static'.port
          /\ config'.file = IF l.port # NoPort THEN NoString ELSE String(l.word, id)
          /\ l.port # NoPort => static'.port = l.port
      BY <2>2 DEF Kept
    <3>2. String(l.word, id).name = l.word
      BY DEF String
    <3>3. Upto(s, i) # {} /\ f.lines[LastIn(Upto(s, i))] = l
      BY <1>0, <1>1, <2>1, <2>2
    <3> HIDE DEF l, id, f, s
    <3> QED  BY <3>1, <3>2, <3>3 DEF FeedOf, s
  <2>3. CASE ~feeds
    <3>1. config'.type = config.type /\ config'.port = config.port /\ config'.file = config.file
      BY <2>3 DEF Kept
    <3>2. Upto(s, i) = Upto(s, at) /\ i \notin Upto(s, i)
      BY <1>1, <2>1, <2>3 DEF Upto
    <3>3. FeedOf(f, at, static.port, config)
      BY DEF SoFar
    <3> HIDE DEF l, id, f
    <3> QED  BY <3>1, <3>2, <3>3 DEF FeedOf
  <2> QED  BY <2>2, <2>3
<1>7. CommandOf(f, i, config'.command)
  <2> DEFINE s == TypedLines(f, {"command"})
             commands == l.kind = "runtime" /\ l.type = "command"
  <2>1. i \in s <=> commands
    BY <1>0 DEF TypedLines
  <2>2. CASE commands
    <3>1. config'.command = IF l.port # NoPort THEN NoString ELSE String(l.word, id)
      BY <2>2 DEF Kept
    <3>2. String(l.word, id).name = l.word /\ NoString.name = ""
      BY DEF String, NoString
    <3>3. /\ Upto(s, i) # {} /\ f.lines[LastIn(Upto(s, i))] = l
          /\ LastIn(Upto(s, i)) \in Upto(s, i)
      BY <1>0, <1>1, <2>1, <2>2
    <3> HIDE DEF l, id, f, s
    <3> QED  BY <3>1, <3>2, <3>3 DEF CommandOf, s
  <2>3. CASE ~commands
    <3>1. config'.command = config.command
      BY <2>3 DEF Kept
    <3>2. Upto(s, i) = Upto(s, at)
      BY <1>1, <2>1, <2>3
    <3>3. CommandOf(f, at, config.command)
      BY DEF SoFar
    <3> HIDE DEF l, id, f
    <3> QED  BY <3>1, <3>2, <3>3 DEF CommandOf
  <2> QED  BY <2>2, <2>3
<1>8. f.lines # <<>>
  BY DEF SoFar
<1> QED  BY <1>3, <1>4, <1>5, <1>6, <1>7, <1>8 DEF SoFar

\* A file with a line that is out of its place is not for the program.
LEMMA Misfit ==
  ASSUME TypeOK, NEW i \in 1 .. Len(F), i = at \/ i = at + 1,
         SoFar(files[file], at, section, static.port, config), ~Placed(F[i])
  PROVE  i = at + 1 /\ ~InPlace(files[file], i) /\ ~Meant(files[file])
<1> DEFINE f == files[file]
<1>0. /\ f.lines = F /\ F \in Seq(Entries) /\ F[i] \in Entries
      /\ at \in Nat /\ at \in 0 .. Len(F) /\ i \in DOMAIN F
  BY Sequences DEF F, TypeOK
<1>1. section = SectionOf(f, at + 1) /\ \A j \in 1 .. at : InPlace(f, j)
  BY DEF SoFar
<1>2. CASE i = at
  <2>1. i \in 1 .. at /\ InPlace(f, i)
    BY <1>0, <1>1, <1>2
  <2>2. F[i].kind # "section"
    BY <1>0, <2>1 DEF InPlace, Placed
  <2>3. i \notin Sections(f)
    BY <2>2, <1>0 DEF Sections
  <2>4. i - 1 \in Nat /\ i - 1 \in 0 .. Len(F) /\ i \in Nat \ {0} /\ i = (i - 1) + 1
    BY <1>0, <1>2
  <2>5. Upto(Sections(f), i) = Upto(Sections(f), i - 1)
    BY <2>3, <2>4, Recent
  <2>6. SectionOf(f, i + 1) = SectionOf(f, i)
    <3> HIDE DEF f
    <3>1. SectionOf(f, (i - 1) + 1) = SectionOf(f, i)
      BY <2>4
    <3> QED  BY <1>0, <1>2, <2>4, <2>5, <3>1, SectionIs
  <2> QED  BY <1>0, <1>1, <1>2, <2>1, <2>6 DEF InPlace, Placed
<1>3. CASE i = at + 1
  <2>1. ~InPlace(f, i)
    BY <1>0, <1>1, <1>3 DEF InPlace, Placed
  <2> QED  BY <1>0, <1>3, <2>1 DEF Meant
<1> QED  BY <1>2, <1>3

\* A file of which each line is in its place is for the program when the command it gives, if
\* it gives one, has no name or that of the program.
LEMMA ForProgram ==
  ASSUME TypeOK, at = Len(F), SoFar(files[file], at, section, static.port, config)
  PROVE  Meant(files[file]) <=> config.command.name \in {"", Program}
<1> DEFINE f == files[file]
           c == TypedLines(f, {"command"})
<1>0. f.lines = F /\ F \in Seq(Entries) /\ Len(F) \in Nat /\ DOMAIN F = 1 .. Len(F)
  BY Sequences DEF F
<1>1. /\ f.lines # <<>> /\ (\A i \in DOMAIN f.lines : InPlace(f, i))
      /\ CommandOf(f, Len(F), config.command)
  BY <1>0 DEF SoFar
<1>2. Upto(c, Len(F)) = c
  BY <1>0 DEF Upto, TypedLines
<1>3. Meant(f) <=> (c # {} => LET l == f.lines[LastIn(c)] IN l.port # NoPort \/ l.word = Program)
  BY <1>1 DEF Meant
<1>4. CASE c = {}
  <2>1. config.command = NoString /\ NoString.name = ""
    BY <1>1, <1>2, <1>4 DEF CommandOf, NoString, String
  <2> QED  BY <1>3, <1>4, <2>1
<1>5. CASE c # {}
  <2> DEFINE l == f.lines[LastIn(c)]
  <2>1. LastIn(c) \in c /\ config.command.name = IF l.port # NoPort THEN "" ELSE l.word
    BY <1>1, <1>2, <1>5 DEF CommandOf
  <2>2. l \in Entries /\ l.kind = "runtime"
    <3>1. LastIn(c) \in 1 .. Len(F) /\ F[LastIn(c)].kind = "runtime"
      BY <1>0, <2>1 DEF TypedLines
    <3>2. F[LastIn(c)] \in Entries
      BY <1>0, <3>1
    <3> QED  BY <1>0, <3>1, <3>2
  <2>3. l.port = NoPort => l.word # ""
    BY <2>2, EntryIs
  <2> HIDE DEF c, l
  <2> QED  BY <1>3, <1>5, <2>1, <2>3 DEF l
<1> QED  BY <1>4, <1>5

\* When the file that is read is given up and is not for the program, the other one is begun.
LEMMA GivenUp ==
  ASSUME TypeOK, Reading, Refuse, UNCHANGED files, ~Meant(files[file])
  PROVE  Reading'
<1>1. file' \in Names /\ stage' \in {"reading", "off"} /\ config' = Empty
  BY Refusal DEF Names
<1>2. ~Meant(files["first"])
  BY DEF Reading, TypeOK, Names
<1>3. ASSUME stage' = "reading"
      PROVE  SoFar(files[file'], at', section', static'.port, config')
  <2>1. /\ file' = "default" /\ at' = 0 /\ section' = "Rules" /\ files["default"].lines # <<>>
        /\ "default" \in Names
    BY <1>3, Refusal DEF Names
  <2> QED  BY <1>1, <2>1, Sequences, Nothing
<1> QED  BY <1>1, <1>2, <1>3 DEF Reading

\* Every step keeps what the configuration has to do with the file that it is read from.
LEMMA ReadingStep ==
  ASSUME TypeOK, Reading, [Next]_vars
  PROVE  Reading'
<1>1. CASE TakeLine \/ Reread
  <2>1. PICK i \in 1 .. Len(F), twice \in BOOLEAN :
          /\ Read(F[i], i, twice)
          /\ \/ i = at + 1 /\ twice = FALSE
             \/ i = at /\ at = Len(F) /\ twice = TRUE
    BY <1>1, Taking
  <2>2. stage = "reading" /\ SoFar(files[file], at, section, static.port, config)
    BY <1>1, Taking DEF Reading
  <2>3. UNCHANGED files
    BY <2>1, ReadMoves
  <2>4. CASE /\ Placed(F[i]) /\ Kept(F[i], <<file, i, twice>>)
             /\ at' = i /\ again' = twice /\ UNCHANGED <<file, stage>>
    <3>1. SoFar(files[file], i, section', static'.port, config')
      BY <2>1, <2>2, <2>4, OneMore
    <3> QED  BY <2>2, <2>3, <2>4, <3>1 DEF Reading
  <2>5. CASE ~Placed(F[i]) /\ Refuse
    <3>1. ~Meant(files[file])
      BY <2>1, <2>2, <2>5, Misfit
    <3> QED  BY <2>3, <2>5, <3>1, GivenUp
  <2> QED  BY <2>1, <2>4, <2>5, ReadMoves
<1>2. CASE EndOfFile
  <2>1. /\ stage = "reading" /\ at = Len(F) /\ UNCHANGED <<files, static>>
        /\ SoFar(files[file], at, section, static.port, config)
    BY <1>2 DEF EndOfFile, Reading, F
  <2>2. CASE /\ config.command.name \in {"", Program} /\ stage' = "chosen"
             /\ UNCHANGED <<file, at, again, section, config>>
    <3>1. Meant(files[file])
      BY <2>1, <2>2, ForProgram
    <3> QED  BY <2>1, <2>2, <3>1 DEF Reading, F
  <2>3. CASE config.command.name \notin {"", Program} /\ Refuse
    <3>1. ~Meant(files[file])
      BY <2>1, <2>3, ForProgram
    <3> QED  BY <2>1, <2>3, <3>1, GivenUp
  <2> QED  BY <1>2, <2>2, <2>3 DEF EndOfFile
<1>3. CASE UNCHANGED reader /\ stage' \in {"serving", "off"}
  BY <1>3 DEF reader, Reading
<1>4. CASE Start \/ Served \/ AcceptFails \/ Arrive \/ Broken
  BY <1>3, <1>4 DEF Start, Served, Accept, Skip, Command, Receive, AcceptFails, Arrive, Broken
<1>5. CASE UNCHANGED vars
  BY <1>5 DEF vars, reader, Reading, F
<1> QED  BY <1>1, <1>2, <1>4, <1>5 DEF Next

\* The lines of f that give a port, and those among them up to line n.
PortLines(f) == {i \in DOMAIN f.lines : f.lines[i].kind = "runtime" /\ f.lines[i].port # NoPort}

\* No port is given by no line.
LEMMA NoneGiven ==
  ASSUME NEW f, NEW before
  PROVE  PortUpto(f, 0, before) = before
<1>1. Ported(f, 0) = {}
  BY DEF Ported
<1> QED  BY <1>1 DEF PortUpto

\* When one more line is taken, or the last one twice, the port is the one it gives, or remains.
LEMMA PortMoves ==
  ASSUME NEW f, f.lines \in Seq(Entries), NEW n \in Nat, NEW i \in DOMAIN f.lines,
         i = n \/ i = n + 1, NEW before
  PROVE  PortUpto(f, i, before) =
           IF i \in PortLines(f) THEN f.lines[i].port ELSE PortUpto(f, n, before)
<1>1. \A m : Ported(f, m) = Upto(PortLines(f), m)
  BY DEF Ported, Upto, PortLines
<1>2. i \in Nat \ {0}
  OBVIOUS
<1>3. CASE i \in PortLines(f)
  <2>1. Ported(f, i) # {} /\ LastIn(Ported(f, i)) = i
    BY <1>1, <1>2, <1>3, Recent
  <2> QED  BY <1>3, <2>1 DEF PortUpto
<1>4. CASE i \notin PortLines(f)
  <2>1. Ported(f, i) = Ported(f, n)
    BY <1>1, <1>2, <1>4, Recent
  <2> QED  BY <1>4, <2>1 DEF PortUpto
<1> QED  BY <1>3, <1>4

\* The lines of a file that are taken are those before the first one that is out of its place.
LEMMA ReachedIs ==
  ASSUME NEW f, f.lines \in Seq(Entries), NEW n \in 0 .. Len(f.lines),
         \A i \in 1 .. n : InPlace(f, i), n < Len(f.lines) => ~InPlace(f, n + 1)
  PROVE  Reached(f) = n
<1> DEFINE Stops(m) == (\A i \in 1 .. m : InPlace(f, i)) /\ (m < Len(f.lines) => ~InPlace(f, m + 1))
<1>1. Len(f.lines) \in Nat
  OBVIOUS
<1>2. Stops(n)
  OBVIOUS
<1>3. ASSUME NEW m \in 0 .. Len(f.lines), Stops(m) PROVE m = n
  <2>1. CASE m < n
    <3>1. m < Len(f.lines) /\ m + 1 \in 1 .. n
      BY <1>1, <2>1
    <3> QED  BY <1>3, <3>1
  <2>2. CASE n < m
    <3>1. n < Len(f.lines) /\ n + 1 \in 1 .. m
      BY <1>1, <2>2
    <3> QED  BY <1>3, <3>1
  <2> QED  BY <1>1, <2>1, <2>2
<1>4. Reached(f) = CHOOSE m \in 0 .. Len(f.lines) : Stops(m)
  BY DEF Reached
<1> HIDE DEF Stops
<1> QED  BY <1>2, <1>3, <1>4

\* The second file finds the port that the lines taken of the first one left.
LEMMA PortLeft ==
  ASSUME TypeOK, PortsSo, stage = "reading", Refuse, UNCHANGED files, static'.port = static.port,
         \A i \in 1 .. at : InPlace(files[file], i),
         at < Len(F) => ~InPlace(files[file], at + 1)
  PROVE  PortsSo'
<1> SUFFICES ASSUME stage' \in {"reading", "chosen"} PROVE PortsSo'
  BY DEF PortsSo
<1>1. file = "first" /\ file' = "default" /\ at' = 0
  BY Refusal
<1>2. F \in Seq(Entries) /\ at \in 0 .. Len(F) /\ files["first"].lines = F
  BY <1>1, Sequences DEF F, TypeOK
<1>3. Reached(files["first"]) = at
  BY <1>1, <1>2, ReachedIs
<1>4. static.port = PortUpto(files["first"], at, NoPort)
  BY <1>1 DEF PortsSo, PortFound
<1>5. "default" # "first"
  OBVIOUS
<1>6. PortFound(files, "default") = static.port
  BY <1>3, <1>4, <1>5 DEF PortFound
<1>7. \A s : Upto(s, 0) = {}
  BY DEF Upto
<1> QED  BY <1>1, <1>6, <1>7, NoneGiven DEF PortsSo

\* Every step keeps what the lines left in the static port, and the port in use.
LEMMA PortsStep ==
  ASSUME TypeOK, Reading, PortsSo, [Next]_vars
  PROVE  PortsSo'
<1> DEFINE f == files[file]
<1>1. CASE TakeLine \/ Reread
  <2>1. PICK i \in 1 .. Len(F), twice \in BOOLEAN :
          /\ Read(F[i], i, twice)
          /\ \/ i = at + 1 /\ twice = FALSE
             \/ i = at /\ at = Len(F) /\ twice = TRUE
    BY <1>1, Taking
  <2>2. stage = "reading" /\ SoFar(f, at, section, static.port, config) /\ UNCHANGED files
    BY <1>1, <2>1, Taking, ReadMoves DEF Reading
  <2>3. CASE /\ Placed(F[i]) /\ Kept(F[i], <<file, i, twice>>)
             /\ at' = i /\ again' = twice /\ UNCHANGED <<file, stage>>
    <3> DEFINE found == PortFound(files, file)
               s     == TypedLines(f, Feeds)
               l     == F[i]
    <3>1. /\ f.lines = F /\ F \in Seq(Entries) /\ i \in DOMAIN f.lines /\ l \in Entries
          /\ at \in Nat /\ i \in Nat \ {0} /\ (i = at \/ i = at + 1)
      BY <2>1, Sequences, SMTT(30) DEF F, TypeOK
    <3>2. static.port = PortUpto(f, at, found)
      BY <2>2 DEF PortsSo
    <3>3. PortUpto(f, i, found) =
            IF i \in PortLines(f) THEN l.port ELSE PortUpto(f, at, found)
      BY <3>1, PortMoves
    <3>4. i \in PortLines(f) <=> l.kind = "runtime" /\ l.port # NoPort
      BY <3>1 DEF PortLines
    <3>5. static'.port = PortUpto(f, i, found)
      BY <2>3, <3>2, <3>3, <3>4 DEF Kept
    <3>6. i \in s <=> l.kind = "runtime" /\ l.type \in Feeds
      BY <3>1 DEF TypedLines
    <3>7. Upto(s, i) # {} => config'.port = PortUpto(f, LastIn(Upto(s, i)), found)
      <4>1. CASE i \in s
        <5>1. config'.port = static'.port
          BY <2>3, <3>6, <4>1 DEF Kept
        <5>2. LastIn(Upto(s, i)) = i
          BY <3>1, <4>1, Recent
        <5> QED  BY <3>5, <5>1, <5>2
      <4>2. CASE i \notin s
        <5>1. config'.port = config.port
          BY <2>3, <3>6, <4>2 DEF Kept
        <5>2. Upto(s, i) = Upto(s, at)
          BY <3>1, <4>2, Recent
        <5>3. Upto(s, at) # {} => config.port = PortUpto(f, LastIn(Upto(s, at)), found)
          BY <2>2 DEF PortsSo
        <5> QED  BY <5>1, <5>2, <5>3
      <4> QED  BY <4>1, <4>2
    <3> QED  BY <2>2, <2>3, <3>5, <3>7 DEF PortsSo
  <2>4. CASE ~Placed(F[i]) /\ Refuse /\ static' = static
    <3>1. i = at + 1 /\ ~InPlace(f, i)
      BY <2>1, <2>2, <2>4, Misfit
    <3>2. \A j \in 1 .. at : InPlace(f, j)
      BY <2>2 DEF SoFar
    <3> QED  BY <2>2, <2>4, <3>1, <3>2, PortLeft
  <2> QED  BY <2>1, <2>3, <2>4, ReadMoves
<1>2. CASE EndOfFile
  <2>1. /\ stage = "reading" /\ at = Len(F) /\ UNCHANGED <<files, static>>
        /\ SoFar(f, at, section, static.port, config)
    BY <1>2 DEF EndOfFile, Reading, F
  <2>2. CASE stage' = "chosen" /\ UNCHANGED <<file, at, again, section, config>>
    BY <2>1, <2>2 DEF PortsSo
  <2>3. CASE Refuse
    <3>1. /\ \A j \in 1 .. at : InPlace(f, j)
          /\ ~(at < Len(F))
      BY <2>1, Sequences DEF SoFar
    <3> QED  BY <2>1, <2>3, <3>1, PortLeft
  <2> QED  BY <1>2, <2>2, <2>3 DEF EndOfFile
<1>3. CASE stage' \in {"serving", "off"}
  BY <1>3 DEF PortsSo
<1>4. CASE Start \/ Served \/ AcceptFails \/ Arrive \/ Broken
  BY <1>3, <1>4 DEF Start, Served, Accept, Skip, Command, Receive, AcceptFails, Arrive, Broken
<1>5. CASE UNCHANGED vars
  BY <1>5 DEF vars, reader, PortsSo
<1> QED  BY <1>1, <1>2, <1>4, <1>5 DEF Next

\* A step that keeps the file and the strings keeps where they come from.
LEMMA OwnedKept ==
  ASSUME Owned, UNCHANGED <<files, file>>,
         config'.file = config.file, config'.command = config.command
  PROVE  Owned'
BY DEF Owned, Allocated

\* Every step keeps where the strings of the configuration come from.
LEMMA OwnedStep ==
  ASSUME TypeOK, Reading, Owned, [Next]_vars
  PROVE  Owned'
<1>1. ASSUME Refuse, UNCHANGED files PROVE Owned'
  <2>1. config'.file = NoString /\ config'.command = NoString
    BY <1>1, Refusal DEF Empty
  <2> QED  BY <2>1 DEF Owned, Allocated
<1>2. CASE TakeLine \/ Reread
  <2>1. PICK i \in 1 .. Len(F), twice \in BOOLEAN : Read(F[i], i, twice)
    BY <1>2, Taking
  <2>2. UNCHANGED files
    BY <2>1, ReadMoves
  <2>3. CASE Kept(F[i], <<file, i, twice>>) /\ UNCHANGED file
    <3> DEFINE l == F[i]
               id == <<file, i, twice>>
    <3>1. /\ files[file].lines = F /\ i \in DOMAIN F
          /\ UNCHANGED <<files, file>>
      BY <2>2, <2>3, Sequences DEF F
    <3>2. /\ config'.file # config.file /\ config'.file # NoString =>
                 config'.file.id = id /\ i \in TypedLines(files[file], Feeds)
          /\ config'.command # config.command /\ config'.command # NoString =>
                 config'.command.id = id /\ i \in TypedLines(files[file], {"command"})
      <4>1. String(l.word, id).id = id
        BY DEF String
      <4>2. config'.file # config.file =>
              /\ l.kind = "runtime" /\ l.type \in Feeds
              /\ config'.file = NoString \/ config'.file = String(l.word, id)
        BY <2>3 DEF Kept
      <4>3. config'.command # config.command =>
              /\ l.kind = "runtime" /\ l.type = "command"
              /\ config'.command = NoString \/ config'.command = String(l.word, id)
        BY <2>3 DEF Kept
      <4> QED  BY <3>1, <4>1, <4>2, <4>3 DEF TypedLines
    <3>3. Allocated(config.file, Feeds) /\ Allocated(config.command, {"command"})
      BY DEF Owned
    <3> HIDE DEF l
    <3>4. Allocated(config.file, Feeds)'
      BY <3>1, <3>2, <3>3 DEF Allocated
    <3>5. Allocated(config.command, {"command"})'
      BY <3>1, <3>2, <3>3 DEF Allocated
    <3> QED  BY <3>4, <3>5 DEF Owned
  <2> QED  BY <1>1, <2>1, <2>2, <2>3, ReadMoves
<1>3. CASE EndOfFile
  <2>1. CASE UNCHANGED <<file, at, again, section, config>>
    BY <1>3, <2>1, OwnedKept DEF EndOfFile
  <2> QED  BY <1>1, <1>3, <2>1 DEF EndOfFile
<1>4. CASE Start
  <2>1. UNCHANGED <<files, file>>
    BY <1>4 DEF Start, reader
  <2> QED  BY <1>4, <2>1, StartMoves, OwnedKept
<1>5. CASE Command
  <2>1. UNCHANGED <<files, file>> /\ Verb(Line(buffer)) \in Verbs
    BY <1>5 DEF Command, reader
  <2>2. Args(Line(buffer)) \in Seq(STRING)
    <3>1. Line(buffer) \in Seq(STRING)
      BY LinePieces, PieceWhole DEF TypeOK
    <3> QED  BY <2>1, <3>1, VerbIs
  <2>3. config' = Edit(Verb(Line(buffer)), Args(Line(buffer)))
    BY <1>5 DEF Command
  <2> QED  BY <2>1, <2>2, <2>3, EditIs, OwnedKept
<1>6. CASE UNCHANGED <<files, file, config>>
  BY <1>6, OwnedKept
<1>7. CASE Accept \/ Skip \/ (\E n \in 1 .. Chunk : Receive(n)) \/ AcceptFails \/ Arrive \/ Broken
           \/ UNCHANGED vars
  BY <1>6, <1>7 DEF Accept, Skip, Receive, AcceptFails, Arrive, Broken, vars, reader
<1> QED  BY <1>2, <1>3, <1>4, <1>5, <1>7 DEF Next, Served

\* Every step keeps rule 0, as long as no client said to take it away or to replace it.
LEMMA WhitelistedStep ==
  ASSUME TypeOK, Heard, Spoken, Whitelisted, [Next]_vars
  PROVE  Whitelisted'
<1> DEFINE Silent == \A k \in 1 .. client : ~EditsZero(script[k].says)
<1> SUFFICES ASSUME stage' = "serving", config'.type = "tcp", Silent'
             PROVE  config'.queue[0] = <<"with me port", config'.port>>
  BY DEF Whitelisted
<1>0. 0 \in Lines
  BY LinesAssumption
<1>1. CASE Start
  BY <1>1, StartMoves
<1>2. ASSUME stage = "serving", config'.type = config.type, config'.port = config.port,
             script' = script, client' \in {client, client + 1}
      PROVE  Silent /\ config.queue[0] = <<"with me port", config.port>>
  <2>1. 1 .. client \subseteq 1 .. client'
    BY <1>2 DEF TypeOK
  <2>2. Silent
    BY <1>2, <2>1
  <2> QED  BY <1>2, <2>2 DEF Whitelisted
<1>3. CASE Command
  <2> DEFINE b == Line(buffer)
             verb == Verb(b)
             args == Args(b)
  <2>1. /\ stage = "serving" /\ verb \in Verbs /\ UNCHANGED <<script, client>>
        /\ config' = Edit(verb, args)
    BY <1>3 DEF Command
  <2>2. b \in Seq(STRING) /\ Piece(b, said)
    BY LinePieces DEF TypeOK, Heard
  <2>3. Len(b) > 1 /\ verb = b[1] /\ args \in Seq(STRING) /\ args = SubSeq(b, 3, Len(b))
    BY <2>1, <2>2, VerbIs
  <2>4. Silent /\ config.queue[0] = <<"with me port", config.port>> /\ config.type = "tcp"
    BY <1>2, <2>1, <2>3, EditIs
  <2>5. \E j, k \in DOMAIN said : verb = said[j] /\ args = SubSeq(said, j + 2, k)
    <3>1. said \in Seq(STRING)
      BY DEF TypeOK
    <3> HIDE DEF b, verb, args
    <3> QED  BY <2>2, <2>3, <3>1, PieceHead
  <2>6. client \in 1 .. client /\ said = script[client].says
    <3>1. said # <<>> /\ client # 0
      BY <2>5 DEF Spoken
    <3>2. client \in Nat
      BY Sequences DEF TypeOK
    <3>3. said = script[client].says
      BY <2>1, <2>4, <3>1 DEF Spoken
    <3> QED  BY <3>1, <3>2, <3>3
  <2>7. ~EditsZero(said)
    BY <2>4, <2>6
  <2>8. config.queue[0] # <<>>
    <3>1. ASSUME NEW p PROVE <<"with me port", p>> # <<>>
      OBVIOUS
    <3> QED  BY <2>4, <3>1, Zenon
  <2>9. ~(verb = "remove" /\ args # <<>> /\ args[1] \in Digits /\ Number(args) = 0)
    BY <2>5, <2>7 DEF EditsZero
  <2>10. ~(verb = "replace" /\ args \in DOMAIN Rules /\ Rules[args].line = 0)
    BY <2>5, <2>7 DEF EditsZero
  <2>11. /\ Edit(verb, args).port = config.port
         /\ Edit(verb, args).queue[0] = config.queue[0]
    BY <1>0, <2>3, <2>8, <2>9, <2>10, EditIs
  <2> QED  BY <2>1, <2>4, <2>11
<1>4. CASE Served \/ AcceptFails \/ Arrive \/ Broken \/ UNCHANGED vars
  <2>1. CASE Command
    BY <1>3, <2>1
  <2>2. CASE ~Command
    <3>1. /\ stage = "serving" /\ UNCHANGED <<config, script>>
          /\ client' \in {client, client + 1}
      BY <1>4, <2>2 DEF Served, Accept, Skip, Receive, AcceptFails, Arrive, Broken, vars, thread
    <3> QED  BY <1>2, <3>1
  <2> QED  BY <2>1, <2>2
<1>5. CASE TakeLine \/ Reread \/ EndOfFile
  <2>1. Refuse => stage' # "serving"
    BY DEF Refuse, Try
  <2> QED  BY <1>5, <2>1 DEF TakeLine, Reread, EndOfFile, Read
<1> QED  BY <1>1, <1>4, <1>5 DEF Next

\* Every step keeps what the thread has of a client, and what it ran of it.
LEMMA ServedStep ==
  ASSUME TypeOK, Heard, [Next]_vars
  PROVE  Heard'
<1>0. said \in Seq(STRING) /\ stream \in Seq(STRING) /\ buffer \in Seq(STRING)
  BY DEF TypeOK
<1>1. CASE UNCHANGED thread
  BY <1>1 DEF thread, Heard
<1>2. CASE TakeLine \/ Reread \/ EndOfFile \/ Start \/ UNCHANGED vars
  BY <1>1, <1>2 DEF TakeLine, Reread, Read, EndOfFile, Start, vars
<1>3. CASE Accept
  <2>1. /\ buffer = <<>> /\ ran' = <<>> /\ conn' = "reading" /\ UNCHANGED <<script, buffer>>
        /\ \/ UNCHANGED <<client, stream, said>>
           \/ /\ client < Len(script) /\ client' = client + 1
              /\ stream' = script[client + 1].says /\ said' = script[client + 1].says
    BY <1>3 DEF Accept, Heard
  <2>2. said' \in Seq(STRING) /\ Ends(stream', said')
    <3>1. CASE UNCHANGED <<client, stream, said>>
      BY <1>0, <2>1, <3>1 DEF Heard, Ends
    <3>2. CASE /\ client < Len(script) /\ client' = client + 1
               /\ stream' = script[client + 1].says /\ said' = script[client + 1].says
      <4>1. client + 1 \in 1 .. Len(script)
        BY <3>2, Sequences DEF TypeOK
      <4>2. said' \in Seq(STRING) /\ stream' = said'
        BY <3>2, <4>1, Sequences
      <4>3. said' = <<>> \o stream' /\ <<>> \in Seq(STRING)
        BY <4>2, ConcatEmptySeq
      <4> QED  BY <4>2, <4>3 DEF Ends
    <3> QED  BY <2>1, <3>1, <3>2
  <2>3. Piece(buffer', said')
    BY <2>1, <2>2, PieceEmpty
  <2> QED  BY <2>1, <2>2, <2>3 DEF Heard
<1>9. CASE Arrive
  <2> DEFINE more == script[client + 1].says
  <2>1. /\ client < Len(script) /\ UNCHANGED <<conn, buffer, ran>>
        /\ stream' = stream \o more /\ said' = said \o more
    BY <1>9 DEF Arrive
  <2>2. more \in Seq(STRING)
    <3>1. client + 1 \in 1 .. Len(script)
      BY <2>1, Sequences DEF TypeOK
    <3> QED  BY <3>1, Sequences
  <2> HIDE DEF more
  <2>3. Ends(stream', said')
    BY <1>0, <2>1, <2>2, EndsMoves DEF Heard
  <2>4. Piece(buffer', said') /\ \A i \in DOMAIN ran' : ran'[i] # <<>> /\ Piece(ran'[i], said')
    BY <1>0, <2>1, <2>2, PieceGrows DEF Heard
  <2> QED  BY <2>1, <2>3, <2>4 DEF Heard
<1>4. CASE AcceptFails \/ Broken
  <2>1. /\ UNCHANGED <<stream, buffer, ran, said>> /\ conn' # "reading"
        /\ conn' = "waiting" => buffer = <<>>
    BY <1>4 DEF AcceptFails, Broken
  <2> QED  BY <2>1 DEF Heard
<1>5. CASE Skip
  <2>1. /\ UNCHANGED <<conn, stream, ran, said>> /\ conn = "reading"
        /\ buffer' = After(buffer)
    BY <1>5 DEF Skip
  <2>2. Piece(buffer', said)
    BY <1>0, <2>1, LinePieces DEF Heard
  <2> QED  BY <2>1, <2>2 DEF Heard
<1>6. CASE \E n \in 1 .. Chunk : Receive(n)
  <2>1. PICK n \in 1 .. Chunk : Receive(n)
    BY <1>6
  <2>2. n \in 0 .. Len(stream) /\ n + 1 \in 1 .. Len(stream) + 1 /\ Len(stream) \in 0 .. Len(stream)
    BY <1>0, <2>1, ChunkAssumption DEF Receive
  <2>3. Piece(SubSeq(stream, 1, n), said) /\ Ends(SubSeq(stream, n + 1, Len(stream)), said)
    <3>1. Piece(stream, said)
      BY <1>0, EndsPiece DEF Heard
    <3> QED  BY <1>0, <2>2, <3>1, PiecePart, EndsMoves DEF Heard
  <2>4. buffer' = <<>> \/ buffer' = SubSeq(stream, 1, n)
    BY <2>1 DEF Receive
  <2>5. /\ UNCHANGED <<conn, ran, said>> /\ conn = "reading"
        /\ stream' = SubSeq(stream, n + 1, Len(stream))
    BY <2>1 DEF Receive
  <2>6. Piece(buffer', said) /\ Ends(stream', said)
    BY <1>0, <2>3, <2>4, <2>5, PieceEmpty
  <2> QED  BY <2>5, <2>6 DEF Heard
<1>7. CASE Command
  <2> DEFINE b == Line(buffer)
             verb == Verb(b)
  <2>1. /\ UNCHANGED said /\ conn = "reading" /\ verb \in Verbs
        /\ ran' = Append(ran, b)
        /\ buffer' = IF verb \in Closers THEN <<>> ELSE After(buffer)
        /\ stream' = <<>> \/ stream' = stream
        /\ conn' = "reading" => verb \notin Closers
        /\ conn' = "waiting" => verb \in Closers
    BY <1>7 DEF Command, Rest
  <2>2. b \in Seq(STRING) /\ Piece(b, said) /\ Piece(After(buffer), said) /\ Piece(<<>>, said)
        /\ Ends(<<>>, said)
    BY <1>0, LinePieces, PieceEmpty, EndsMoves DEF Heard
  <2>3. b # <<>> /\ verb = b[1]
    BY <2>1, <2>2, VerbIs
  <2> HIDE DEF b, verb
  <2>4. ran \in Seq(Seq(STRING)) /\ Len(ran) \in Nat
    BY DEF TypeOK
  <2>5. /\ Len(ran') = Len(ran) + 1 /\ DOMAIN ran' = 1 .. Len(ran) + 1
        /\ DOMAIN ran = 1 .. Len(ran)
        /\ ran'[Len(ran) + 1] = b /\ \A i \in 1 .. Len(ran) : ran'[i] = ran[i]
    BY <2>1, <2>2, <2>4
  <2>6. said' = said
    BY <2>1
  <2>7. \A i \in DOMAIN ran' : ran'[i] # <<>> /\ Piece(ran'[i], said)
    BY <2>2, <2>3, <2>4, <2>5 DEF Heard
  <2>8. \A i \in DOMAIN ran : ran[i][1] \notin Closers
    BY <2>1 DEF Heard
  <2>9. Ends(stream', said) /\ Piece(buffer', said)
    BY <2>1, <2>2 DEF Heard
  <2>10. \A i \in DOMAIN ran' : ran'[i][1] \in Closers => i = Len(ran')
    BY <2>4, <2>5, <2>8
  <2>11. conn' = "reading" => \A i \in DOMAIN ran' : ran'[i][1] \notin Closers
    BY <2>1, <2>3, <2>4, <2>5, <2>8
  <2> QED  BY <2>1, <2>6, <2>7, <2>9, <2>10, <2>11 DEF Heard
<1> QED  BY <1>2, <1>3, <1>4, <1>5, <1>6, <1>7, <1>9 DEF Next, Served

\* Every step keeps what was sent on a TCP connection that of its client.
LEMMA SpokenStep ==
  ASSUME TypeOK, Spoken, [Next]_vars
  PROVE  Spoken'
<1>1. CASE TakeLine \/ Reread \/ EndOfFile
  <2>1. UNCHANGED <<client, said>> /\ stage = "reading" /\ stage' # "serving"
    BY <1>1 DEF TakeLine, Reread, EndOfFile, Read, Refuse, Try, thread
  <2> QED  BY <2>1 DEF Spoken
<1>2. CASE Start
  <2>1. UNCHANGED <<client, said>> /\ client = 0
    BY <1>2 DEF Start, Spoken, thread
  <2>2. stage' \in {"serving", "off"}
    BY <1>2 DEF Start
  <2> QED  BY <2>1, <2>2 DEF Spoken
<1>3. CASE Accept
  <2>1. client \in Nat /\ stage' = "serving" /\ UNCHANGED <<script, config>>
    BY <1>3, Sequences DEF Accept, TypeOK
  <2>2. \/ UNCHANGED <<client, said>>
        \/ client' = client + 1 /\ said' = script[client + 1].says
    BY <1>3 DEF Accept
  <2>3. stage = "serving"
    BY <1>3 DEF Accept
  <2> QED  BY <2>1, <2>2, <2>3 DEF Spoken
<1>4. CASE Arrive
  <2>1. client \in Nat /\ client' = client + 1 /\ stage' = "serving" /\ config'.type = "pipe"
    BY <1>4, Sequences DEF Arrive, TypeOK
  <2> QED  BY <2>1 DEF Spoken
<1>5. CASE Command
  <2>1. /\ UNCHANGED <<script, client, said, stage>>
        /\ config' = Edit(Verb(Line(buffer)), Args(Line(buffer))) /\ Verb(Line(buffer)) \in Verbs
    BY <1>5 DEF Command
  <2>2. Line(buffer) \in Seq(STRING)
    BY LinePieces, PieceWhole DEF TypeOK
  <2>3. config'.type = config.type
    BY <2>1, <2>2, VerbIs, EditIs
  <2> QED  BY <2>1, <2>3 DEF Spoken
<1>6. CASE Skip \/ (\E n \in 1 .. Chunk : Receive(n)) \/ AcceptFails \/ Broken \/ UNCHANGED vars
  <2>1. UNCHANGED <<script, client, said, stage, config>>
    BY <1>6 DEF Skip, Receive, AcceptFails, Broken, vars, thread
  <2> QED  BY <2>1 DEF Spoken
<1> QED  BY <1>1, <1>2, <1>3, <1>4, <1>5, <1>6 DEF Next, Served

-----------------------------------------------------------------------------
\* The invariant holds at first.
LEMMA Initially == Init => Inv
<1> SUFFICES ASSUME Init PROVE Inv
  OBVIOUS
<1>1. /\ Empty \in Configs /\ NoRules \in [Lines -> Texts]
  <2>1. <<>> \in Texts /\ NoString \in Strings
    BY DEF Texts, NoString, String, Strings, Ids
  <2>2. NoRules \in [Lines -> Texts]
    BY <2>1 DEF NoRules
  <2> QED  BY <2>1, <2>2 DEF Empty, Configs, NoPort
<1>2. files \in [Names -> [lines : Seq(Entries), newline : BOOLEAN]] /\ file \in Names
  BY FilesAssumption DEF Init, Names
<1>3. F \in Seq(Entries) /\ files["first"].lines \in Seq(Entries)
  BY <1>2 DEF F, Names
<1>4. TypeOK
  <2>1. script \in Seq([says : Seq(STRING), leaves : {"quit", "reset", "stay"}])
    BY ScriptsAssumption DEF Init
  <2>2. client \in 0 .. Len(script) /\ at \in 0 .. Len(F)
    BY <1>3, <2>1 DEF Init
  <2>3. static \in [port : Nat, word : {NoString}]
    BY DEF Init, NoPort
  <2>4. <<>> \in Seq(STRING) /\ <<>> \in Seq(Seq(STRING))
    OBVIOUS
  <2> QED  BY <1>1, <1>2, <2>2, <2>3, <2>4 DEF Init, TypeOK
<1>5. Reading
  <2>1. file = "default" => ~Meant(files["first"])
    BY DEF Init, Meant
  <2>2. stage # "chosen" /\ (stage = "reading" => F # <<>>)
    BY DEF Init, F
  <2>3. stage = "reading" => SoFar(files[file], at, section, static.port, config)
    BY <1>3, <2>2, Nothing DEF Init, F
  <2> QED  BY <2>1, <2>2, <2>3 DEF Reading
<1>6. Owned
  <2>1. config.file = NoString /\ config.command = NoString
    BY DEF Init, Empty
  <2> QED  BY <2>1 DEF Owned, Allocated
<1>7. Heard
  <2>1. stream = <<>> /\ buffer = <<>> /\ said = <<>> /\ ran = <<>> /\ DOMAIN <<>> = {}
    BY DEF Init
  <2>2. <<>> \in Seq(STRING) /\ <<>> = <<>> \o <<>>
    OBVIOUS
  <2>3. Piece(<<>>, <<>>) /\ Ends(<<>>, <<>>)
    BY <2>2, PieceEmpty DEF Ends
  <2> QED  BY <2>1, <2>3 DEF Heard
<1>8. Whitelisted
  BY DEF Init, Whitelisted
<1>9. PortsSo
  <2>1. stage # "chosen" /\ static.port = NoPort /\ at = 0
    BY DEF Init
  <2>2. \A s : Upto(s, 0) = {}
    BY DEF Upto
  <2>3. ASSUME file = "default" PROVE Reached(files["first"]) = 0
    <3>1. files["first"].lines = <<>> /\ Len(<<>>) = 0
      BY <2>3 DEF Init
    <3>2. 0 \in 0 .. Len(files["first"].lines) /\ ~(0 < Len(files["first"].lines))
      BY <3>1
    <3> QED  BY <1>3, <3>2, ReachedIs
  <2>4. PortFound(files, file) = NoPort
    BY <1>2, <2>3, NoneGiven DEF PortFound, Names
  <2> QED  BY <2>1, <2>2, <2>4, NoneGiven DEF PortsSo
<1>10. Spoken
  BY DEF Init, Spoken
<1> QED  BY <1>4, <1>5, <1>6, <1>7, <1>8, <1>9, <1>10 DEF Inv

\* The invariant holds in every state, whatever the files, the clients and the cuts.
THEOREM Invariant == Spec => []Inv
<1>1. ASSUME Inv, [Next]_vars PROVE Inv'
  BY <1>1, TypeStep, ReadingStep, PortsStep, OwnedStep, ServedStep, SpokenStep, WhitelistedStep DEF Inv
<1> QED  BY <1>1, Initially, PTL DEF Spec

\* The configuration that is used is what the first file for the program says: at each line its
\* last rule, its last source of commands, and the port or the name that this one gives; with a
\* name, the last port that was given before, be it in the file that was refused.
THEOREM ConfigIsFileCorrect == Spec => []ConfigIsFile
<1>1. ASSUME Inv PROVE ConfigIsFile
  <2> SUFFICES ASSUME stage = "chosen" PROVE ConfigIsFile
    BY DEF ConfigIsFile
  <2> DEFINE f == files[file]
  <2>1. /\ TypeOK /\ Meant(f) /\ (file = "default" => ~Meant(files["first"])) /\ at = Len(F)
        /\ RulesOf(f, at, config.queue) /\ FeedOf(f, at, static.port, config)
    BY <1>1 DEF Inv, Reading, SoFar
  <2>0. LET s == Upto(TypedLines(f, Feeds), at) IN
        s # {} => config.port = PortUpto(f, LastIn(s), PortFound(files, file))
    BY <1>1 DEF Inv, PortsSo
  <2>2. f.lines = F /\ F \in Seq(Entries) /\ Len(F) \in Nat /\ DOMAIN F = 1 .. Len(F)
    BY <2>1, Sequences DEF F
  <2>3. /\ \A m : Upto(RuleLines(f, m), at) = RuleLines(f, m)
        /\ Upto(TypedLines(f, Feeds), at) = TypedLines(f, Feeds)
    BY <2>1, <2>2 DEF Upto, RuleLines, TypedLines
  <2> HIDE DEF f
  <2> QED  BY <2>0, <2>1, <2>3 DEF ConfigIsFile, RulesOf, FeedOf, f
<1> QED  BY <1>1, Invariant, PTL

\* The strings of the configuration are those of the file in use, and are never freed twice.
THEOREM StringsOwnedCorrect == Spec => []StringsOwned
<1>1. ASSUME Inv PROVE StringsOwned
  <2>1. Owned
    BY <1>1 DEF Inv
  <2>2. ASSUME config.file # NoString
        PROVE  config.file.id[1] = file /\ config.file.id[2] \in TypedLines(files[file], Feeds)
    BY <2>1, <2>2 DEF Owned, Allocated
  <2>3. ASSUME config.command # NoString
        PROVE  /\ config.command.id[1] = file
               /\ config.command.id[2] \in TypedLines(files[file], {"command"})
    BY <2>1, <2>3 DEF Owned, Allocated
  <2>4. TypedLines(files[file], Feeds) \cap TypedLines(files[file], {"command"}) = {}
    BY DEF TypedLines, Feeds
  <2>5. ASSUME config.file # NoString \/ config.command # NoString
        PROVE  config.file # config.command
    BY <2>2, <2>3, <2>4, <2>5
  <2> QED  BY <2>2, <2>3, <2>5 DEF StringsOwned
<1> QED  BY <1>1, Invariant, PTL

\* To take the last line of a file a second time changes nothing of what the file says.
THEOREM RereadHarmlessCorrect == Spec => RereadHarmless
<1>1. ASSUME Inv, Reread PROVE Content(config') = Content(config)
  <2> DEFINE f == files[file]
             l == F[at]
  <2>0. TypeOK /\ Reading
    BY <1>1 DEF Inv
  <2>1. PICK i \in 1 .. Len(F), twice \in BOOLEAN : /\ Read(F[i], i, twice)
                                                    /\ \/ i = at + 1 /\ twice = FALSE
                                                       \/ i = at /\ at = Len(F) /\ twice = TRUE
    BY <1>1, <2>0, Taking
  <2>2. at = Len(F) /\ stage = "reading"
    BY <1>1 DEF Reread, F
  <2>3. i = at /\ F \in Seq(Entries) /\ f.lines = F /\ at \in Nat \ {0} /\ at \in DOMAIN F
    BY <2>0, <2>1, <2>2, Sequences DEF F
  <2>4. SoFar(f, at, section, static.port, config)
    BY <2>0, <2>2 DEF Reading
  <2>5. Placed(F[i])
    BY <2>0, <2>1, <2>3, <2>4, Misfit
  <2>6. Kept(l, <<file, i, twice>>)
    BY <2>0, <2>1, <2>3, <2>5, ReadMoves
  <2>7. \A s : at \in s => Upto(s, at) # {} /\ at \in Upto(s, at) /\ LastIn(Upto(s, at)) = at
    BY <2>3, Recent
  <2>8. config'.queue = config.queue
    <3>1. CASE l.kind = "rule"
      <4>1. l.line \in Lines /\ at \in RuleLines(f, l.line)
        <5>1. l \in Entries
          BY <2>3
        <5>2. l.line \in Lines
          BY <3>1, <5>1, EntryIs
        <5>3. at \in RuleLines(f, l.line)
          BY <2>3, <3>1 DEF RuleLines
        <5> QED  BY <5>2, <5>3
      <4>2. config.queue[l.line] = l.text
        BY <2>3, <2>4, <2>7, <4>1 DEF SoFar, RulesOf
      <4>3. /\ config'.queue = [config.queue EXCEPT ![l.line] = l.text]
            /\ config.queue \in [Lines -> Texts]
        BY <2>0, <2>6, <3>1, ConfigIs DEF Kept
      <4> QED  BY <4>2, <4>3
    <3>2. CASE l.kind # "rule"
      BY <2>6, <3>2 DEF Kept
    <3> QED  BY <3>1, <3>2
  <2>9. /\ config'.type = config.type /\ config'.port = config.port
        /\ config'.file.name = config.file.name
    <3>1. CASE l.kind = "runtime" /\ l.type \in Feeds
      <4>1. at \in TypedLines(f, Feeds)
        BY <2>3, <3>1 DEF TypedLines
      <4>2. /\ config.type = l.type /\ config.port = static.port
            /\ IF l.port # NoPort THEN config.port = l.port /\ config.file = NoString
               ELSE config.file.name = l.word
        BY <2>3, <2>4, <2>7, <4>1 DEF SoFar, FeedOf
      <4>3. /\ config'.type = l.type /\ config'.port = static'.port
            /\ static'.port = IF l.port # NoPort THEN l.port ELSE static.port
            /\ config'.file = IF l.port # NoPort THEN NoString
                              ELSE String(l.word, <<file, i, twice>>)
        BY <2>6, <3>1 DEF Kept
      <4>4. String(l.word, <<file, i, twice>>).name = l.word
        BY DEF String
      <4> HIDE DEF l, f
      <4> QED  BY <4>2, <4>3, <4>4
    <3>2. CASE ~(l.kind = "runtime" /\ l.type \in Feeds)
      BY <2>6, <3>2 DEF Kept
    <3> QED  BY <3>1, <3>2
  <2>10. config'.command.name = config.command.name
    <3>1. CASE l.kind = "runtime" /\ l.type = "command"
      <4>1. at \in TypedLines(f, {"command"})
        BY <2>3, <3>1 DEF TypedLines
      <4>2. config.command.name = IF l.port # NoPort THEN "" ELSE l.word
        <5>1. CommandOf(f, at, config.command)
          BY <2>4 DEF SoFar
        <5>2. LET s == TypedLines(f, {"command"}) IN Upto(s, at) # {} /\ LastIn(Upto(s, at)) = at
          BY <2>7, <4>1
        <5>3. f.lines[at] = l
          BY <2>3
        <5> HIDE DEF f, l
        <5> QED  BY <5>1, <5>2, <5>3 DEF CommandOf
      <4>3. config'.command = IF l.port # NoPort THEN NoString
                              ELSE String(l.word, <<file, i, twice>>)
        BY <2>6, <3>1 DEF Kept
      <4>4. String(l.word, <<file, i, twice>>).name = l.word /\ NoString.name = ""
        BY DEF String, NoString
      <4> HIDE DEF l, f
      <4> QED  BY <4>2, <4>3, <4>4
    <3>2. CASE ~(l.kind = "runtime" /\ l.type = "command")
      BY <2>6, <3>2 DEF Kept
    <3> QED  BY <3>1, <3>2
  <2> QED  BY <2>8, <2>9, <2>10 DEF Content
<1>2. Inv /\ [Next]_vars => [Reread => Content(config') = Content(config)]_vars
  BY <1>1
<1> QED  BY <1>2, Invariant, PTL DEF Spec, RereadHarmless

\* Rule 0 lets the interface go untouched until a client takes it away or replaces it.
THEOREM WhitelistedCorrect == Spec => []Whitelisted
<1>1. Inv => Whitelisted
  BY DEF Inv
<1> QED  BY <1>1, Invariant, PTL

\* What the thread runs on a connection was sent on it, and nothing is run after a quit.
THEOREM OwnCommandsCorrect == Spec => []OwnCommands
<1>1. ASSUME Inv PROVE OwnCommands
  <2>0. TypeOK /\ Heard
    BY <1>1 DEF Inv
  <2>1. ASSUME NEW i \in DOMAIN ran
        PROVE  \E j, k \in 1 .. Len(said) : ran[i] = SubSeq(said, j, k)
    <3>1. ran[i] # <<>> /\ Piece(ran[i], said) /\ said \in Seq(STRING)
      BY <2>0 DEF Heard, TypeOK
    <3>2. PICK j \in 1 .. Len(said) + 1, k \in 0 .. Len(said) : ran[i] = SubSeq(said, j, k)
      BY <3>1 DEF Piece
    <3>3. Len(said) \in Nat /\ j \in Int /\ k \in Int
      BY <3>1
    <3>4. k < j => SubSeq(said, j, k) = <<>>
      BY <3>3, SubSeqEmpty
    <3>5. j \in 1 .. Len(said) /\ k \in 1 .. Len(said)
      BY <3>1, <3>2, <3>3, <3>4
    <3> QED  BY <3>2, <3>5
  <2>2. \A i \in DOMAIN ran : ran[i][1] \in Closers => i = Len(ran)
    BY <2>0 DEF Heard
  <2> QED  BY <2>1, <2>2 DEF OwnCommands, Closers
<1> QED  BY <1>1, Invariant, PTL

=============================================================================
