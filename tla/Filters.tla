------------------------------- MODULE Filters -------------------------------
(***************************************************************************)
(* What a rule is about: the calls that its direction, its protocol and    *)
(* its hosts select (Action_match in actions.c), and the moments at which  *)
(* its condition holds (conditions/).  Neither keeps any state, but for    *)
(* the time at which the rule was made, so that a rule that meets one call *)
(* says all there is to say.  RuleLife says where the rule comes from.     *)
(***************************************************************************)
EXTENDS RuleShape

CONSTANTS Sockets,    \* records [proto, local, remote] for the calls to match
          Moments     \* records [age, dice, matched]: when the rule meets a call, what rand
                      \* gives then, and whether a rule was matched before in the call

ASSUME FiltersAssumption ==
  \A m \in Moments : m.age \in Nat /\ m.dice \in Nat /\ m.matched \in BOOLEAN

VARIABLES
  rule,     \* the rule, a record with (at least) proto, direction, from, to and condition
  verdict,  \* the call it was matched against, and the answer
  crashed   \* a division by zero

-----------------------------------------------------------------------------
(* The conditions.  Each is a set of answers: those the program may give.    *)

Always(c, m)    == {TRUE}
Never(c, m)     == {FALSE}
Matched(c, m)   == {m.matched}
Unmatched(c, m) == {~m.matched}
Before(c, m)    == {m.age < Numbers[c[2]]}
After(c, m)     == {m.age >= Numbers[c[2]]}
Prob(c, m)      == {m.dice <= Numbers[c[2]]}

\* The creation of the rule is read from a field that was only half written.
Between(c, m)   == BOOLEAN

\* Fault for the runs to find: the phase that comes first lasts one time unit too long.
CycleLong(c, m) ==
  {IF m.age % (Numbers[c[3]] + Numbers[c[4]]) <= Numbers[c[3]] THEN c[2] = "true" ELSE c[2] = "false"}

Cycle(c, m) ==
  {IF m.age % (Numbers[c[3]] + Numbers[c[4]]) < Numbers[c[3]] THEN c[2] = "true" ELSE c[2] = "false"}

Holds(c, m) ==
  CASE c[1] = "always"    -> Always(c, m)
    [] c[1] = "never"     -> Never(c, m)
    [] c[1] = "matched"   -> Matched(c, m)
    [] c[1] = "unmatched" -> Unmatched(c, m)
    [] c[1] = "before"    -> Before(c, m)
    [] c[1] = "after"     -> After(c, m)
    [] c[1] = "between"   -> Between(c, m)
    [] c[1] = "cycle"     -> Cycle(c, m)
    [] c[1] = "prob"      -> Prob(c, m)

\* A cycle that lasts no time is a division by zero.
Traps(c) == c[1] = "cycle" /\ Numbers[c[3]] + Numbers[c[4]] = 0

-----------------------------------------------------------------------------
(* The calls a rule is about: Action_match.                                 *)

Directions(d) == CASE d = "data" -> {"Reading", "Writing"}
                   [] d = "any"  -> {"Reading", "Writing", "Connecting", "Closing"}
                   [] d = "connecting" -> {"Connecting"}
                   [] d = "closing"    -> {"Closing"}

\* An address of a rule and an end of a socket.  A host given by its address is matched by
\* every other one.
AddressMatch(h, e) ==
  LET samePort == h.port \in {"any", e.port} IN
  CASE h.type = "me"      -> e.type = "me" /\ samePort
    [] h.type = "dns"     -> e.type = "dns"
    [] h.type = "address" -> h.addr # e.addr /\ samePort
    [] h.type = "any"     -> samePort
    [] OTHER              -> FALSE

\* Fault for the runs to find: the end that the data come from is always the local one.
MatchLocalFirst(r, si, direction, holds) ==
  /\ direction \in Directions(r.direction) /\ holds
  /\ r.proto \in {"ip", si.proto}
  /\ CASE r.direction = "data" /\ r.to.type # "none" ->
             AddressMatch(r.from, si.local) /\ AddressMatch(r.to, si.remote)
       [] r.direction = "any" \/ (r.direction = "data" /\ r.to.type = "none") ->
             AddressMatch(r.from, si.local) \/ AddressMatch(r.from, si.remote)
       [] OTHER -> AddressMatch(r.to, si.remote)

Match(r, si, direction, holds) ==
  /\ direction \in Directions(r.direction) /\ holds
  /\ r.proto \in {"ip", si.proto}
  /\ CASE r.direction = "data" /\ r.to.type # "none" ->
             /\ AddressMatch(IF direction = "Writing" THEN r.from ELSE r.to, si.local)
             /\ AddressMatch(IF direction = "Reading" THEN r.from ELSE r.to, si.remote)
       [] r.direction = "any" \/ (r.direction = "data" /\ r.to.type = "none") ->
             AddressMatch(r.from, si.local) \/ AddressMatch(r.from, si.remote)
       [] OTHER -> AddressMatch(r.to, si.remote)

-----------------------------------------------------------------------------
NoVerdict == [direction |-> "", answer |-> FALSE]

\* The condition is asked when the direction fits, before the protocol and the hosts.
Asked(direction) == direction \in Directions(rule.direction)

\* The rule meets a call.
Meet ==
  /\ ~crashed /\ verdict = NoVerdict
  /\ \E si \in Sockets, direction \in Directions("any"), m \in Moments :
       /\ ~(Asked(direction) /\ Traps(rule.condition))
       /\ \E holds \in IF Asked(direction) THEN Holds(rule.condition, m) ELSE BOOLEAN :
            verdict' = [si |-> si, direction |-> direction, moment |-> m, holds |-> holds,
                        answer |-> Match(rule, si, direction, holds)]
  /\ UNCHANGED <<rule, crashed>>

Trap ==
  /\ ~crashed /\ verdict = NoVerdict
  /\ Traps(rule.condition) /\ \E direction \in Directions("any") : Asked(direction)
  /\ crashed' = TRUE
  /\ UNCHANGED <<rule, verdict>>

-----------------------------------------------------------------------------
\* What a host says of an end of a socket: the traffic of dns whatever the port, else the port if
\* there is one, and this machine, any or the address that is written (actions.h:66-77).
Describes(h, e) ==
  \/ h.type = "dns" /\ e.type = "dns"
  \/ /\ \/ h.type = "any"
        \/ h.type = "me" /\ e.type = "me"
        \/ h.type = "address" /\ e.addr = h.addr
     /\ h.port # "any" => e.port = h.port

\* A rule from a host to another is about the data that go from the first to the second, read at
\* one end or written at the other; a rule with one host is about both ends, and one of connect
\* or close about the remote end.
Flow(r, si, d) ==
  LET source == IF d = "Writing" THEN si.local ELSE si.remote
      target == IF d = "Writing" THEN si.remote ELSE si.local IN
  /\ r.proto \in {"ip", si.proto}
  /\ IF r.from.type = "none"
     THEN /\ <<r.direction, d>> \in {<<"connecting", "Connecting">>, <<"closing", "Closing">>}
          /\ Describes(r.to, si.remote)
     ELSE IF r.to.type = "none"
     THEN /\ r.direction = "data" => d \in {"Reading", "Writing"}
          /\ \E e \in {source, target} : Describes(r.from, e)
     ELSE /\ d \in {"Reading", "Writing"}
          /\ Describes(r.from, source) /\ Describes(r.to, target)

\* A host given by its address: the code takes every end but that one (sameHost in actions.c).
ByAddress(r) == "address" \in {r.from.type, r.to.type}

\* A rule whose hosts are me, any or dns is about the calls of its protocol and of the traffic its
\* hosts describe (actions.h:66-77), at the moments its condition holds.  Rules with an address are
\* left out: they are about the calls of all the other addresses.
MatchesFlow ==
  verdict # NoVerdict /\ ~ByAddress(rule) =>
    (verdict.answer <=> verdict.holds /\ Flow(rule, verdict.si, verdict.direction))

\* A condition on time or chance holds when its description says: before and after a number of
\* milliseconds of the life of the rule; in the phases of a cycle that starts with the rule and
\* starts again for ever; so many times in a hundred, up to the one that prob adds; matched and
\* unmatched are each other's contrary.  between is left out: its answer is any.
Told(c, m) ==
  CASE c[1] = "before" -> \E left \in 1 .. Numbers[c[2]] : m.age + left = Numbers[c[2]]
    [] c[1] = "after"  -> \E past \in 0 .. m.age : m.age = Numbers[c[2]] + past
    [] c[1] = "cycle"  ->
         (c[2] = "true") <=>
           \E turn \in 0 .. m.age, into \in 0 .. Numbers[c[3]] - 1 :
             m.age = turn * (Numbers[c[3]] + Numbers[c[4]]) + into
    [] c[1] = "prob"      -> m.dice + 1 \in 1 .. Numbers[c[2]]
    [] c[1] = "unmatched" -> ~m.matched
    [] c[1] = "matched"   -> m.matched
    [] OTHER -> c[1] = "always"

ConditionTold ==
  LET c == rule.condition IN
  /\ verdict # NoVerdict /\ Asked(verdict.direction)
  /\ c[1] # "between" /\ ~(c[1] = "prob" /\ verdict.moment.dice = Numbers[c[2]])
  => (verdict.holds <=> Told(c, verdict.moment))
==============================================================================
