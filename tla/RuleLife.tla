------------------------------ MODULE RuleLife ------------------------------
(***************************************************************************)
(* The life of a rule, from its text to its calls: Grammar and Filters put *)
(* together.  Action_init parses the text; the rule may then be listed,    *)
(* and what was listed given back, or it meets a call.                     *)
(***************************************************************************)
EXTENDS Grammar, Filters

CONSTANTS Inputs,  \* records [text, wrong, rule]: texts, the places where they are not well
                   \* formed, and the rule they are meant to say
          Rules    \* the rules that are followed to their calls

ASSUME RuleLifeAssumption == \A x \in Inputs : x.text \in Seq(STRING)

VARIABLES
  input,   \* the member of Inputs given to the program
  stage,   \* "text", "parsed", "refused", "shown", "again", "stuck", "put" or "beyond"
  result,  \* of the last parse: [ok, err, rule]
  shown    \* the text that list writes

vars == <<rule, verdict, crashed, input, stage, result, shown>>

\* No text was accepted yet.
Unread == [direction |-> "none"]

Init ==
  /\ input \in Inputs
  /\ stage = "text"
  /\ result = [ok |-> FALSE, err |-> 0, rule |-> RuleOf(Start(<<>>))]
  /\ shown = <<>>
  /\ rule = Unread /\ verdict = NoVerdict /\ crashed = FALSE

\* A text is parsed.  Where the search for a word leaves its table, what becomes of the program is
\* not known.
Taken(text, next) ==
  \/ /\ result' = Parse(text)
     /\ stage' = next
  \/ /\ Strays(text)
     /\ stage' = "beyond"
     /\ UNCHANGED result

\* Action_init.
Create ==
  /\ stage = "text"
  /\ Taken(input.text, IF Parse(input.text).ok THEN "parsed" ELSE "refused")
  /\ UNCHANGED <<input, shown, rule, verdict, crashed>>

List ==
  /\ stage = "parsed"
  /\ IF Endless(result.rule.task)
     THEN stage' = "stuck" /\ UNCHANGED shown
     ELSE stage' = "shown" /\ shown' = Show(result.rule)
  /\ UNCHANGED <<input, result, rule, verdict, crashed>>

\* The text that list gave comes back with an add or a replace.
Feed ==
  /\ stage = "shown"
  /\ Taken(shown, "again")
  /\ UNCHANGED <<input, shown, rule, verdict, crashed>>

\* What Action_match looks at in a rule.
Asks(r) == [f \in {"proto", "direction", "from", "to", "condition"} |-> r[f]]

\* The rule is put into the queue, where calls meet it.
Put ==
  /\ stage = "parsed"
  /\ Asks(result.rule) \in Rules
  /\ rule' = Asks(result.rule)
  /\ stage' = "put"
  /\ UNCHANGED <<verdict, crashed, input, result, shown>>

Next ==
  \/ Create \/ List \/ Feed \/ Put
  \/ stage = "put" /\ Meet /\ UNCHANGED <<input, stage, result, shown>>
  \/ stage = "put" /\ Trap /\ UNCHANGED <<input, stage, result, shown>>

Spec == Init /\ [][Next]_vars

-----------------------------------------------------------------------------
\* A text is accepted when each of its parts is well formed, whatever alternatives and optional
\* parts were tried and given up on the way (Parse_suite and the others in parser.c), and the rule
\* is the one that is written, with the defaults of Action_parse where nothing is.
ParsedAsWritten ==
  /\ stage \in {"parsed", "refused"} => (result.ok <=> input.wrong = {})
  /\ stage = "parsed" => result.rule = input.rule

\* A refusal says where the text is wrong, not where an alternative was given up before it or a
\* piece around it began (the remainder that Action_init is told of).
ErrorTold == stage = "refused" => result.err \in input.wrong

\* An acceptance leaves no error behind of the alternatives that were given up on its way, and a
\* refusal always leaves one, in the text or at its end: this is how the add and replace commands
\* tell a rule they cannot read from a line that is taken (runtime.c).  A word that emit and mark-done
\* do not know is left out where its search leaves the table.
RefusalTold ==
  stage \notin {"text", "beyond"} =>
    /\ result.ok <=> result.err = 0
    /\ result.err <= 1 + Len(IF stage = "again" THEN shown ELSE input.text)

\* Whatever is written, and whichever way the parser came to it, an accepted rule has the hosts
\* of its direction and a condition with the arguments it is asked with: Action_match and the
\* conditions never meet another.
ShapeKept == result.ok => HostsFit(result.rule) /\ ConditionFits(result.rule.condition)

\* What list writes of a rule can be given back to add or replace, and is the same rule (a port
\* is not kept with dns, which ignores it).  The writer of truncate is wrong.
ListedReadable ==
  LET r == Parse(input.text).rule IN
  stage = "again" /\ r.task[1] # "truncate" =>
    result.ok /\ result.rule = [r EXCEPT !.from = Kept(@), !.to = Kept(@)]
=============================================================================
