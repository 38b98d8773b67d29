------------------------------ MODULE RuleShape ------------------------------
(* What the parser makes of the hosts and of the condition of a rule, for the  *)
(* modules that read a rule (Filters) or write one (Grammar).                  *)
EXTENDS Naturals

CONSTANT Numbers  \* lexeme -> number

\* A rule of connect or close has only the host it goes to, any other has one it comes from;
\* with "with" there is no other.
HostsFit(r) ==
  /\ r.direction \in {"data", "any", "connecting", "closing"}
  /\ r.from.type = "none" <=> r.direction \in {"connecting", "closing"}
  /\ r.direction = "any" => r.to.type = "none"

\* A condition is a name and three arguments.
ConditionFits(c) ==
  /\ c[1] \in {"always", "never", "matched", "unmatched", "before", "after", "between", "cycle",
               "prob"}
  /\ c[1] \in {"before", "after", "prob"} => c[2] \in DOMAIN Numbers
  /\ c[1] = "cycle" => c[2] \in {"true", "false"} /\ {c[3], c[4]} \subseteq DOMAIN Numbers
==============================================================================
