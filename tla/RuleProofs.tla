---------------------------- MODULE RuleProofs ----------------------------
(***************************************************************************)
(* The life of a rule, for any texts, calls and moments: what GrammarProofs *)
(* says of the parser, brought to the runs of RuleLife, and what the calls *)
(* are told by a rule that the parser made.                                *)
(***************************************************************************)
EXTENDS RuleLife, GrammarProofs

-----------------------------------------------------------------------------
(* The hosts of a rule.                                                     *)

\* A host that is not an address matches the ends that it describes.
LEMMA MatchDescribes ==
  ASSUME NEW h, h.type # "address", NEW e
  PROVE  AddressMatch(h, e) <=> Describes(h, e)
<1>1. CASE h.type = "me"
  BY <1>1 DEF AddressMatch, Describes
<1>2. CASE h.type = "dns"
  BY <1>2 DEF AddressMatch, Describes
<1>3. CASE h.type = "any"
  BY <1>3 DEF AddressMatch, Describes
<1>4. CASE h.type \notin {"me", "dns", "any"}
  BY <1>4 DEF AddressMatch, Describes
<1>. QED  BY <1>1, <1>2, <1>3, <1>4

\* The two ends are swapped for a read, and the rule has the hosts that its direction asks for.
LEMMA MatchIsFlow ==
  ASSUME NEW r, HostsFit(r), ~ByAddress(r), NEW si, NEW d \in Directions("any"), NEW holds \in BOOLEAN
  PROVE  Match(r, si, d, holds) <=> holds /\ Flow(r, si, d)
<1>0. d \in {"Reading", "Writing", "Connecting", "Closing"}
  BY DEF Directions
<1>a. /\ AddressMatch(r.from, si.local) <=> Describes(r.from, si.local)
      /\ AddressMatch(r.from, si.remote) <=> Describes(r.from, si.remote)
      /\ AddressMatch(r.to, si.local) <=> Describes(r.to, si.local)
      /\ AddressMatch(r.to, si.remote) <=> Describes(r.to, si.remote)
  <2>1. r.from.type # "address" /\ r.to.type # "address"
    BY DEF ByAddress
  <2>. QED  BY <2>1, MatchDescribes
<1>1. CASE r.direction = "connecting"
  <2>1. r.from.type = "none" /\ Directions(r.direction) = {"Connecting"}
    BY <1>1 DEF HostsFit, Directions
  <2>. QED  BY <1>a, <1>1, <2>1 DEF Match, Flow
<1>2. CASE r.direction = "closing"
  <2>1. r.from.type = "none" /\ Directions(r.direction) = {"Closing"}
    BY <1>2 DEF HostsFit, Directions
  <2>. QED  BY <1>a, <1>2, <2>1 DEF Match, Flow
<1>3. CASE r.direction = "any"
  <2>1. r.from.type # "none" /\ r.to.type = "none" /\ d \in Directions(r.direction)
    BY <1>0, <1>3 DEF HostsFit, Directions
  <2>. QED  BY <1>a, <1>3, <2>1 DEF Match, Flow
<1>4. CASE r.direction = "data"
  <2>1. r.from.type # "none" /\ Directions(r.direction) = {"Reading", "Writing"}
    BY <1>4 DEF HostsFit, Directions
  <2>2. CASE r.to.type = "none"
    BY <1>a, <1>4, <2>1, <2>2 DEF Match, Flow
  <2>3. CASE r.to.type # "none" /\ d = "Writing"
    BY <1>a, <1>4, <2>1, <2>3 DEF Match, Flow
  <2>4. CASE r.to.type # "none" /\ d = "Reading"
    BY <1>a, <1>4, <2>1, <2>4 DEF Match, Flow
  <2>5. CASE r.to.type # "none" /\ d \notin {"Reading", "Writing"}
    BY <1>a, <1>4, <2>1, <2>5 DEF Match, Flow
  <2>. QED  BY <2>2, <2>3, <2>4, <2>5
<1>. QED  BY <1>1, <1>2, <1>3, <1>4 DEF HostsFit

-----------------------------------------------------------------------------
(* The conditions.                                                          *)

\* A cycle that has run for some whole turns and a part of one is in that part.
LEMMA Turns ==
  ASSUME NEW k \in Nat, k > 0, NEW turn \in Int, NEW into \in 0 .. k - 1
  PROVE  (turn * k + into) % k = into
<1> DEFINE age == turn * k + into
           q == age \div k
<1>1. age \in Int /\ q \in Int
  OBVIOUS
<1>2. age = k * q + (age % k) /\ age % k \in 0 .. k - 1
  <2>1. age \in Int /\ k \in Int /\ k > 0
    OBVIOUS
  <2>. HIDE DEF age
  <2>2. age % k \in 0 .. k - 1
    BY <2>1
  <2>3. age = k * (age \div k) + (age % k)
    BY <2>1
  <2>. QED  BY <2>2, <2>3 DEF q
<1>3. k * (turn - q) = (age % k) - into
  BY <1>1, <1>2
<1>4. turn - q = 0
  <2> DEFINE z == turn - q
  <2>1. z \in Int /\ k * z < k /\ k * z > -k
    BY <1>1, <1>2, <1>3
  <2> HIDE DEF z
  <2>2. ~(z >= 1)
    BY <2>1
  <2>3. ~(z <= -1)
    BY <2>1
  <2>. QED  BY <2>1, <2>2, <2>3
<1>. QED  BY <1>2, <1>3, <1>4

\* The phase of a cycle is where its description says.
LEMMA CycleTold ==
  ASSUME NEW age \in Nat, NEW a \in Nat, NEW b \in Nat, a + b # 0
  PROVE  age % (a + b) < a
           <=> \E turn \in 0 .. age, into \in 0 .. a - 1 : age = turn * (a + b) + into
<1> DEFINE k == a + b
<1>1. k \in Nat /\ k > 0 /\ a <= k
  OBVIOUS
<1>2. ASSUME NEW turn \in 0 .. age, NEW into \in 0 .. a - 1, age = turn * k + into
      PROVE  age % k < a
  <2>1. into \in 0 .. k - 1 /\ turn \in Int
    BY <1>1
  <2>. HIDE DEF k
  <2>2. (turn * k + into) % k = into
    BY <1>1, <2>1, Turns
  <2>. QED  BY <1>2, <2>2
<1>3. ASSUME age % k < a
      PROVE  \E turn \in 0 .. age, into \in 0 .. a - 1 : age = turn * k + into
  <2>. HIDE DEF k
  <2> DEFINE q == age \div k
             r == age % k
  <2>1. q \in Int /\ r \in 0 .. k - 1 /\ age = k * q + r
    BY <1>1
  <2>2. r \in 0 .. a - 1
    BY <1>3, <2>1
  <2>. HIDE DEF q, r
  <2>3. q >= 0
    <3>1. SUFFICES ASSUME q <= -1 PROVE FALSE
      BY <2>1
    <3>2. k * q <= -k
      BY <1>1, <2>1, <3>1
    <3>. QED  BY <1>1, <2>1, <3>2
  <2>4. q <= k * q
    BY <1>1, <2>1, <2>3
  <2>5. q \in 0 .. age /\ age = q * k + r
    BY <1>1, <2>1, <2>3, <2>4
  <2>. QED  BY <2>2, <2>5
<1>. QED  BY <1>2, <1>3

\* What a condition answers is what it is told to, up to the one chance in a hundred.
LEMMA HoldsAsTold ==
  ASSUME NEW r, ConditionFits(r.condition), NEW m \in Moments,
         NEW x \in Holds(r.condition, m), ~Traps(r.condition),
         r.condition[1] # "between",
         ~(r.condition[1] = "prob" /\ m.dice = Numbers[r.condition[2]])
  PROVE  (x = TRUE) <=> Told(r.condition, m)
<1> DEFINE c == r.condition
<1>1. ConditionFits(c) /\ m.age \in Nat /\ m.dice \in Nat /\ m.matched \in BOOLEAN
  BY FiltersAssumption
<1>2. \A n \in DOMAIN Numbers : Numbers[n] \in Nat
  BY GrammarAssumption
<1>. HIDE DEF c
<1>3. x \in Holds(c, m) /\ ~Traps(c) /\ c[1] # "between" /\ ~(c[1] = "prob" /\ m.dice = Numbers[c[2]])
  BY DEF c
<1>. SUFFICES (x = TRUE) <=> Told(c, m)
  BY DEF c
<1>4. CASE c[1] \in {"always", "never", "matched", "unmatched"}
  <2>1. CASE c[1] = "always"
    <3>1. x = TRUE
      BY <1>3, <2>1 DEF Holds, Always
    <3>2. Told(c, m)
      BY <2>1 DEF Told
    <3>. QED  BY <3>1, <3>2
  <2>2. CASE c[1] = "never"
    <3>1. x = FALSE
      BY <1>3, <2>2 DEF Holds, Never
    <3>2. ~Told(c, m)
      BY <2>2 DEF Told
    <3>. QED  BY <3>1, <3>2
  <2>3. CASE c[1] = "matched"
    <3>1. x = m.matched
      BY <1>3, <2>3 DEF Holds, Matched
    <3>2. Told(c, m) <=> m.matched = TRUE
      BY <1>1, <2>3 DEF Told
    <3>. QED  BY <3>1, <3>2, Zenon
  <2>4. CASE c[1] = "unmatched"
    <3>1. x = TRUE <=> m.matched = FALSE
      BY <1>1, <1>3, <2>4 DEF Holds, Unmatched
    <3>2. Told(c, m) <=> m.matched = FALSE
      BY <1>1, <2>4 DEF Told
    <3>. QED  BY <3>1, <3>2, Zenon
  <2>. QED  BY <1>4, <2>1, <2>2, <2>3, <2>4
<1>5. CASE c[1] = "before"
  <2> DEFINE n == Numbers[c[2]]
  <2>1. n \in Nat
    BY <1>1, <1>2, <1>5 DEF ConditionFits
  <2>2. x = TRUE <=> m.age < n
    BY <1>3, <1>5 DEF Holds, Before
  <2>. HIDE DEF n
  <2>3. m.age < n <=> \E left \in 1 .. n : m.age + left = n
    <3>1. ASSUME m.age < n PROVE \E left \in 1 .. n : m.age + left = n
      <4>1. n - m.age \in 1 .. n /\ m.age + (n - m.age) = n
        BY <1>1, <2>1, <3>1
      <4>. QED  BY <4>1
    <3>. QED  BY <1>1, <2>1, <3>1
  <2>4. Told(c, m) <=> \E left \in 1 .. n : m.age + left = n
    BY <1>5 DEF Told, n
  <2>. QED  BY <2>2, <2>3, <2>4, Zenon
<1>6. CASE c[1] = "after"
  <2> DEFINE n == Numbers[c[2]]
  <2>1. n \in Nat
    BY <1>1, <1>2, <1>6 DEF ConditionFits
  <2>2. x = TRUE <=> m.age >= n
    BY <1>3, <1>6 DEF Holds, After
  <2>. HIDE DEF n
  <2>3. m.age >= n <=> \E past \in 0 .. m.age : m.age = n + past
    <3>1. ASSUME m.age >= n PROVE \E past \in 0 .. m.age : m.age = n + past
      <4>1. m.age - n \in 0 .. m.age /\ m.age = n + (m.age - n)
        BY <1>1, <2>1, <3>1
      <4>. QED  BY <4>1
    <3>. QED  BY <1>1, <2>1, <3>1
  <2>4. Told(c, m) <=> \E past \in 0 .. m.age : m.age = n + past
    BY <1>6 DEF Told, n
  <2>. QED  BY <2>2, <2>3, <2>4, Zenon
<1>7. CASE c[1] = "prob"
  <2> DEFINE n == Numbers[c[2]]
  <2>1. n \in Nat /\ m.dice # n
    BY <1>1, <1>2, <1>3, <1>7 DEF ConditionFits
  <2>2. x = TRUE <=> m.dice <= n
    BY <1>3, <1>7 DEF Holds, Prob
  <2>3. Told(c, m) <=> m.dice + 1 \in 1 .. n
    BY <1>7 DEF Told
  <2>. HIDE DEF n
  <2>4. m.dice <= n <=> m.dice + 1 \in 1 .. n
    BY <1>1, <2>1
  <2>. QED  BY <2>2, <2>3, <2>4, Zenon
<1>8. CASE c[1] = "cycle"
  <2> DEFINE a == Numbers[c[3]]
             b == Numbers[c[4]]
             In == \E turn \in 0 .. m.age, into \in 0 .. a - 1 : m.age = turn * (a + b) + into
  <2>1. a \in Nat /\ b \in Nat /\ a + b # 0 /\ c[2] \in {"true", "false"}
    BY <1>1, <1>2, <1>3, <1>8 DEF ConditionFits, Traps
  <2>2. x = IF m.age % (a + b) < a THEN c[2] = "true" ELSE c[2] = "false"
    BY <1>3, <1>8 DEF Holds, Cycle
  <2>3. Told(c, m) <=> (c[2] = "true" <=> In)
    BY <1>8 DEF Told
  <2>. HIDE DEF a, b
  <2>4. m.age % (a + b) < a <=> In
    <3> DEFINE age == m.age
    <3>1. age \in Nat
      BY <1>1
    <3>. HIDE DEF age
    <3>2. age % (a + b) < a
            <=> \E turn \in 0 .. age, into \in 0 .. a - 1 : age = turn * (a + b) + into
      BY <2>1, <3>1, CycleTold
    <3>. QED  BY <3>2 DEF age
  <2>. HIDE DEF In
  <2>5. CASE In
    <3>1. x = TRUE <=> c[2] = "true"
      BY <2>2, <2>4, <2>5
    <3>. QED  BY <2>3, <2>5, <3>1, Zenon
  <2>6. CASE ~In
    <3>1. x = TRUE <=> c[2] = "false"
      BY <2>2, <2>4, <2>6
    <3>2. c[2] = "false" <=> ~(c[2] = "true")
      BY <2>1
    <3>. QED  BY <2>3, <2>6, <3>1, <3>2, Zenon
  <2>. QED  BY <2>5, <2>6
<1>9. c[1] \in {"always", "never", "matched", "unmatched", "before", "after", "prob", "cycle"}
  BY <1>1, <1>3 DEF ConditionFits
<1>. QED  BY <1>4, <1>5, <1>6, <1>7, <1>8, <1>9

\* The answers of a condition are Booleans.
LEMMA HoldsBoolean ==
  ASSUME NEW r, ConditionFits(r.condition), NEW m \in Moments, NEW x \in Holds(r.condition, m)
  PROVE  x \in BOOLEAN
<1> DEFINE c == r.condition
<1>1. ConditionFits(c) /\ m.matched \in BOOLEAN
  BY FiltersAssumption
<1>. HIDE DEF c
<1>2. x \in Holds(c, m)
  BY DEF c
<1>3. CASE c[1] = "always"
  <2>1. x \in Always(c, m)
    BY <1>2, <1>3 DEF Holds
  <2>. QED  BY <1>1, <2>1 DEF Always
<1>4. CASE c[1] = "never"
  <2>1. x \in Never(c, m)
    BY <1>2, <1>4 DEF Holds
  <2>. QED  BY <1>1, <2>1 DEF Never
<1>5. CASE c[1] = "matched"
  <2>1. x \in Matched(c, m)
    BY <1>2, <1>5 DEF Holds
  <2>. QED  BY <1>1, <2>1 DEF Matched
<1>6. CASE c[1] = "unmatched"
  <2>1. x \in Unmatched(c, m)
    BY <1>2, <1>6 DEF Holds
  <2>. QED  BY <1>1, <2>1 DEF Unmatched
<1>7. CASE c[1] = "before"
  <2>1. x \in Before(c, m)
    BY <1>2, <1>7 DEF Holds
  <2>. QED  BY <1>1, <2>1 DEF Before
<1>8. CASE c[1] = "after"
  <2>1. x \in After(c, m)
    BY <1>2, <1>8 DEF Holds
  <2>. QED  BY <1>1, <2>1 DEF After
<1>9. CASE c[1] = "between"
  <2>1. x \in Between(c, m)
    BY <1>2, <1>9 DEF Holds
  <2>. QED  BY <1>1, <2>1 DEF Between
<1>10. CASE c[1] = "cycle"
  <2>1. x \in Cycle(c, m)
    BY <1>2, <1>10 DEF Holds
  <2>. QED  BY <1>1, <2>1 DEF Cycle
<1>11. CASE c[1] = "prob"
  <2>1. x \in Prob(c, m)
    BY <1>2, <1>11 DEF Holds
  <2>. QED  BY <1>1, <2>1 DEF Prob
<1>. QED  BY <1>1, <1>3, <1>4, <1>5, <1>6, <1>7, <1>8, <1>9, <1>10, <1>11 DEF ConditionFits

-----------------------------------------------------------------------------
(* What was parsed and what was listed.                                     *)

LEMMA InputTexts == ASSUME NEW x \in Inputs PROVE x.text \in Texts
<1>1. x.text \in Seq(STRING)
  BY RuleLifeAssumption
<1>. QED  BY <1>1, SeqDef DEF Texts, Lexemes

\* A rule that is well written has the hosts of its direction, and the arguments of its condition.
LEMMA SpelledShape ==
  ASSUME NEW sp, Spells(sp)
  PROVE  HostsFit(sp.rule) /\ ConditionFits(sp.rule.condition)
<1> DEFINE r == sp.rule
           c == r.condition
<1>1. HostsSaid(r, sp.from, sp.to) /\ NamedFits(c, Conditions)
  BY BlanksFit DEF Spells
<1>2. \A n, p, h : HostSays(n, p, h) => h.type # "none"
  BY KeptNobody
<1>3. Nobody.type = "none"
  BY DEF Nobody
<1>. HIDE DEF r, c
<1>4. HostsFit(r)
  BY <1>1, <1>2, <1>3 DEF HostsFit, HostsSaid
<1>5. ConditionFits(c)
  <2>1. ArgsFit(c) /\ c[1] \in Conditions
    BY <1>1 DEF NamedFits
  <2>2. c[1] \in {"before", "after", "prob"} => c[2] \in DOMAIN Numbers
    BY <2>1 DEF ArgsFit, Bare, Words, Numbered, Checked
  <2>3. c[1] = "cycle" => c[2] \in {"true", "false"} /\ {c[3], c[4]} \subseteq DOMAIN Numbers
    BY <2>1 DEF ArgsFit, Bare, Words, Numbered, Checked, Bools, Table
  <2>. QED  BY <2>1, <2>2, <2>3 DEF ConditionFits, Conditions
<1>. QED  BY <1>4, <1>5 DEF r, c

LEMMA ParsedShape ==
  ASSUME NEW text \in Texts, Parse(text).ok
  PROVE  HostsFit(Parse(text).rule) /\ ConditionFits(Parse(text).rule.condition)
<1>1. PICK sp : Spells(sp) /\ Parse(text).rule = sp.rule
  BY AcceptedSpelled
<1>. QED  BY <1>1, SpelledShape

LEMMA ListedText ==
  ASSUME NEW text \in Texts, Parse(text).ok
  PROVE  Show(Parse(text).rule) \in Texts
<1>1. PICK sp : Spells(sp) /\ Parse(text).rule = sp.rule
  BY AcceptedSpelled
<1>. QED  BY <1>1, ShownText

\* The result is that of the text that was given last, and the text that is shown that of the rule
\* that was accepted.
ReadInv ==
  /\ input \in Inputs
  /\ stage \in {"text", "parsed", "refused", "shown", "again", "stuck", "put", "beyond"}
  /\ stage = "text" => result.ok = FALSE
  /\ stage = "beyond" => result.ok = FALSE \/ result = Parse(input.text)
  /\ stage \notin {"text", "again", "beyond"} => result = Parse(input.text)
  /\ stage \in {"parsed", "shown", "stuck", "put"} => result.ok
  /\ stage = "shown" => shown = Show(result.rule)
  /\ stage = "again" => /\ Parse(input.text).ok
                        /\ shown = Show(Parse(input.text).rule) /\ result = Parse(shown)

LEMMA ReadInvariant == Spec => []ReadInv
<1>1. Init => ReadInv
  BY DEF Init, ReadInv
<1>2. ASSUME ReadInv, [Next]_vars PROVE ReadInv'
  <2>1. CASE Create
    BY <1>2, <2>1 DEF Create, Taken, ReadInv
  <2>2. CASE List
    BY <1>2, <2>2 DEF List, ReadInv
  <2>3. CASE Feed
    BY <1>2, <2>3 DEF Feed, Taken, ReadInv
  <2>4. CASE Put
    BY <1>2, <2>4 DEF Put, ReadInv
  <2>5. CASE UNCHANGED <<input, stage, result, shown>>
    BY <1>2, <2>5 DEF ReadInv
  <2>. QED  BY <1>2, <2>1, <2>2, <2>3, <2>4, <2>5 DEF Next, vars
<1>. QED  BY <1>1, <1>2, PTL DEF Spec

\* What the last parse was of.
LastText == IF stage = "again" THEN shown ELSE input.text

LEMMA LastParse ==
  ASSUME ReadInv, stage \notin {"text", "beyond"}
  PROVE  LastText \in Texts /\ result = Parse(LastText)
<1>1. input.text \in Texts
  BY InputTexts DEF ReadInv
<1>2. CASE stage = "again"
  BY <1>1, <1>2, ListedText DEF ReadInv, LastText
<1>3. CASE stage # "again"
  BY <1>1, <1>3 DEF ReadInv, LastText
<1>. QED  BY <1>2, <1>3

\* An acceptance leaves no error behind and a refusal leaves one, in the text or at its end: the
\* commands of the interface tell the two apart by it (parser.c, runtime.c).
THEOREM RefusalToldCorrect == Spec => []RefusalTold
<1>1. ASSUME ReadInv, stage \notin {"text", "beyond"}
      PROVE  (result.ok <=> result.err = 0)
             /\ result.err <= 1 + Len(IF stage = "again" THEN shown ELSE input.text)
  <2>1. LastText \in Texts /\ result = Parse(LastText)
    BY <1>1, LastParse
  <2>2. result.err \in 0 .. Len(LastText) + 1 /\ (result.ok <=> result.err = 0)
    BY <2>1, ErrorOrAccepted
  <2>3. LastText = IF stage = "again" THEN shown ELSE input.text
    BY DEF LastText
  <2>4. Len(LastText) \in Nat
    BY <2>1, LenProperties DEF Texts
  <2>. QED  BY <2>2, <2>3, <2>4
<1>2. ReadInv => RefusalTold
  BY <1>1 DEF RefusalTold
<1>. QED  BY <1>2, ReadInvariant, PTL

\* Whatever was written, an accepted rule has the hosts of its direction and the arguments of its
\* condition (Action_parse), so that Action_match has a case for it and the condition its numbers.
THEOREM ShapeKeptCorrect == Spec => []ShapeKept
<1>1. ASSUME ReadInv, result.ok
      PROVE  HostsFit(result.rule) /\ ConditionFits(result.rule.condition)
  <2>1. CASE stage = "beyond"
    <3>1. input.text \in Texts /\ result = Parse(input.text)
      BY <1>1, <2>1, InputTexts DEF ReadInv
    <3>. QED  BY <1>1, <3>1, ParsedShape
  <2>2. CASE stage # "beyond"
    <3>1. stage # "text"
      BY <1>1 DEF ReadInv
    <3>2. LastText \in Texts /\ result = Parse(LastText)
      BY <1>1, <2>2, <3>1, LastParse
    <3>. QED  BY <1>1, <3>2, ParsedShape
  <2>. QED  BY <2>1, <2>2
<1>2. ReadInv => ShapeKept
  BY <1>1 DEF ShapeKept
<1>. QED  BY <1>2, ReadInvariant, PTL

\* What list writes of a rule can be given back to add or replace, and is the same rule, whatever
\* the rule and the text that it came from (Action_show, Action_parse).
THEOREM ListedReadableCorrect == Spec => []ListedReadable
<1> DEFINE r == Parse(input.text).rule
<1>1. ASSUME ReadInv, stage = "again", r.task[1] # "truncate"
      PROVE  result.ok /\ result.rule = [r EXCEPT !.from = Kept(@), !.to = Kept(@)]
  <2>1. input.text \in Texts
    BY <1>1, InputTexts DEF ReadInv
  <2>2. Parse(input.text).ok /\ shown = Show(r) /\ result = Parse(shown)
    BY <1>1 DEF ReadInv
  <2>3. Parse(Show(r)).ok = TRUE /\ Parse(Show(r)).rule = KeptRule(r)
    BY <1>1, <2>1, <2>2, ShownParsed
  <2>. QED  BY <2>2, <2>3 DEF KeptRule
<1>2. ReadInv => ListedReadable
  BY <1>1 DEF ListedReadable
<1>. QED  BY <1>2, ReadInvariant, PTL

\* An input is marked as the grammar has it: it is right where some rule is written so, and that is
\* the rule it says.
Marked(x) ==
  /\ x.wrong = {} <=> \E sp : Spells(sp) /\ x.text = RuleText(sp)
  /\ \A sp : Spells(sp) /\ x.text = RuleText(sp) => x.rule = sp.rule

\* The parser takes the texts that the grammar has, and no other, for the rules that they say
\* (Action_parse), whatever alternatives and optional parts it tried and gave up on the way.
THEOREM ParsedAsWrittenCorrect ==
  ASSUME \A x \in Inputs : Marked(x)
  PROVE  Spec => []ParsedAsWritten
<1>1. ASSUME ReadInv, stage \in {"parsed", "refused"}
      PROVE  (result.ok <=> input.wrong = {}) /\ (result.ok => result.rule = input.rule)
  <2>1. input \in Inputs /\ input.text \in Texts /\ result = Parse(input.text)
    BY <1>1, InputTexts DEF ReadInv
  <2>2. Marked(input)
    BY <2>1
  <2>3. ASSUME result.ok PROVE input.wrong = {} /\ result.rule = input.rule
    <3>1. PICK sp : Spells(sp) /\ input.text = RuleText(sp) /\ Parse(input.text).rule = sp.rule
      BY <2>1, <2>3, AcceptedSpelled
    <3>. QED  BY <2>1, <2>2, <3>1 DEF Marked
  <2>4. ASSUME input.wrong = {} PROVE result.ok
    <3>1. PICK sp : Spells(sp) /\ input.text = RuleText(sp)
      BY <2>2, <2>4 DEF Marked
    <3>2. Parse(RuleText(sp)).ok = TRUE
      BY <3>1, SpelledParsed
    <3>. QED  BY <2>1, <3>1, <3>2
  <2>. QED  BY <2>3, <2>4
<1>2. ReadInv => ParsedAsWritten
  BY <1>1 DEF ParsedAsWritten, ReadInv
<1>. QED  BY <1>2, ReadInvariant, PTL

-----------------------------------------------------------------------------
(* The rule and its call.                                                   *)

Verdict(si, d, m, holds) ==
  [si |-> si, direction |-> d, moment |-> m, holds |-> holds, answer |-> Match(rule, si, d, holds)]

\* A verdict is about a call and a moment, and the condition gave one of its answers if it was asked.
Met(v) ==
  \E si \in Sockets, d \in Directions("any"), m \in Moments :
    /\ ~(Asked(d) /\ Traps(rule.condition))
    /\ \E holds \in IF Asked(d) THEN Holds(rule.condition, m) ELSE BOOLEAN : v = Verdict(si, d, m, holds)

\* A rule meets a call once it is in the queue, and there it is as the parser made it.
MetInv ==
  /\ stage = "put" => HostsFit(rule) /\ ConditionFits(rule.condition)
  /\ verdict # NoVerdict => stage = "put" /\ Met(verdict)

LEMMA MetInvariant == Spec => []MetInv
<1>1. Init => MetInv
  BY DEF Init, MetInv
<1>2. ASSUME ReadInv, MetInv, [Next]_vars PROVE MetInv'
  <2>1. CASE Create \/ List \/ Feed
    <3>1. UNCHANGED <<rule, verdict>> /\ stage # "put" /\ stage' # "put"
      BY <2>1 DEF Create, List, Feed, Taken
    <3>. QED  BY <1>2, <3>1 DEF MetInv
  <2>2. CASE Put
    <3> DEFINE r == result.rule
    <3>1. result.ok /\ result = Parse(input.text) /\ input.text \in Texts
      BY <1>2, <2>2, InputTexts DEF Put, ReadInv
    <3>2. HostsFit(r) /\ ConditionFits(r.condition)
      BY <3>1, ParsedShape
    <3>3. rule' = Asks(r) /\ UNCHANGED verdict /\ stage = "parsed"
      BY <2>2 DEF Put
    <3>. HIDE DEF r
    <3>4. /\ Asks(r).direction = r.direction /\ Asks(r).from = r.from /\ Asks(r).to = r.to
          /\ Asks(r).condition = r.condition
      BY DEF Asks
    <3>5. HostsFit(rule') /\ ConditionFits(rule'.condition)
      BY <3>2, <3>3, <3>4 DEF HostsFit
    <3>6. verdict' = NoVerdict
      BY <1>2, <3>3 DEF MetInv
    <3>. QED  BY <3>5, <3>6 DEF MetInv, HostsFit, ConditionFits
  <2>3. CASE stage = "put" /\ Meet /\ UNCHANGED <<input, stage, result, shown>>
    <3>1. Met(verdict')
      BY <2>3 DEF Meet, Met, Verdict
    <3>2. rule' = rule /\ stage' = stage /\ stage = "put"
      BY <2>3 DEF Meet
    <3>3. Met(verdict)'
      BY <3>1, <3>2 DEF Met, Verdict, Asked
    <3>. QED  BY <1>2, <3>2, <3>3 DEF MetInv
  <2>4. CASE (stage = "put" /\ Trap /\ UNCHANGED <<input, stage, result, shown>>) \/ UNCHANGED vars
    <3>1. UNCHANGED <<rule, verdict, stage>>
      BY <2>4 DEF Trap, vars
    <3>. QED  BY <1>2, <3>1 DEF MetInv, Met, Verdict, Asked
  <2>. QED  BY <1>2, <2>1, <2>2, <2>3, <2>4 DEF Next
<1>. QED  BY <1>1, <1>2, ReadInvariant, PTL DEF Spec

\* A rule is about the calls that its direction, its protocol and its hosts describe (Action_match,
\* actions.c), the ends of the socket being swapped for a read, and only when its condition holds:
\* every rule that the parser accepts and that names no host by an address, whatever its text.
THEOREM MatchesFlowCorrect == Spec => []MatchesFlow
<1>1. ASSUME MetInv, verdict # NoVerdict, ~ByAddress(rule)
      PROVE  verdict.answer <=> verdict.holds /\ Flow(rule, verdict.si, verdict.direction)
  <2>1. PICK si \in Sockets, d \in Directions("any"), m \in Moments :
          \E holds \in IF Asked(d) THEN Holds(rule.condition, m) ELSE BOOLEAN :
             verdict = Verdict(si, d, m, holds)
    BY <1>1 DEF MetInv, Met
  <2>2. PICK holds \in IF Asked(d) THEN Holds(rule.condition, m) ELSE BOOLEAN :
           verdict = Verdict(si, d, m, holds)
    BY <2>1
  <2>3. HostsFit(rule) /\ ConditionFits(rule.condition)
    BY <1>1 DEF MetInv
  <2>4. holds \in BOOLEAN
    BY <2>2, <2>3, HoldsBoolean
  <2>5. Match(rule, si, d, holds) <=> holds /\ Flow(rule, si, d)
    BY <1>1, <2>3, <2>4, MatchIsFlow
  <2>6. /\ verdict.answer = Match(rule, si, d, holds) /\ verdict.holds = holds
        /\ verdict.si = si /\ verdict.direction = d
    BY <2>2 DEF Verdict
  <2>. QED  BY <2>5, <2>6
<1>2. MetInv => MatchesFlow
  BY <1>1 DEF MatchesFlow
<1>. QED  BY <1>2, MetInvariant, PTL

\* A condition holds when its description says so: in the phases of a cycle for ever, before and
\* after a time, up to a chance in a hundred (conditions/).
THEOREM ConditionToldCorrect == Spec => []ConditionTold
<1>1. ASSUME MetInv, verdict # NoVerdict, Asked(verdict.direction), rule.condition[1] # "between",
             ~(rule.condition[1] = "prob" /\ verdict.moment.dice = Numbers[rule.condition[2]])
      PROVE  verdict.holds <=> Told(rule.condition, verdict.moment)
  <2>1. PICK si \in Sockets, d \in Directions("any"), m \in Moments :
          /\ ~(Asked(d) /\ Traps(rule.condition))
          /\ \E holds \in IF Asked(d) THEN Holds(rule.condition, m) ELSE BOOLEAN :
                verdict = Verdict(si, d, m, holds)
    BY <1>1 DEF MetInv, Met
  <2>2. PICK holds \in IF Asked(d) THEN Holds(rule.condition, m) ELSE BOOLEAN :
           verdict = Verdict(si, d, m, holds)
    BY <2>1
  <2>3. verdict.holds = holds /\ verdict.moment = m /\ verdict.direction = d
    BY <2>2 DEF Verdict
  <2>4. holds \in Holds(rule.condition, m) /\ ~Traps(rule.condition)
    BY <1>1, <2>1, <2>2, <2>3
  <2>5. ConditionFits(rule.condition)
    BY <1>1 DEF MetInv
  <2>6. (holds = TRUE) <=> Told(rule.condition, m)
    BY <1>1, <2>3, <2>4, <2>5, HoldsAsTold
  <2>7. holds \in BOOLEAN
    BY <2>4, <2>5, HoldsBoolean
  <2>. QED  BY <2>3, <2>6, <2>7
<1>2. MetInv => ConditionTold
  BY <1>1 DEF ConditionTold
<1>. QED  BY <1>2, MetInvariant, PTL
==============================================================================
