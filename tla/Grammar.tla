------------------------------ MODULE Grammar ------------------------------
(***************************************************************************)
(* The text of a rule: the parser that is built from pieces (parser.c),    *)
(* the grammar of a rule (actions.c), and the text that the list command   *)
(* gives of a rule.  What a rule is then asked is in Filters.              *)
(*                                                                         *)
(* A text is a sequence of lexemes: a run of spaces, a mark of             *)
(* punctuation, a number or a name; lexemes that touch make one word, as   *)
(* in "dns" "." "com".  A piece takes the state of the parser to the next  *)
(* one; a state that failed goes through the pieces that follow as it is,  *)
(* so that pieces in a row are applied one to the other.                   *)
(***************************************************************************)
EXTENDS RuleShape, Sequences

CONSTANTS Addresses,  \* word -> address: the names gethostbyname knows
          Services    \* word -> port: the names getservbyname knows

Sp        == " "
End       == ""
WordStops == {Sp, "[", "]", "newline", End}
EnumStops == WordStops \cup {".", ":"}

\* The tables of constants; each has its value for a constant that is not found.
Table(names, default) == [names |-> names, default |-> default]
Specials == Table({"me", "any", "dns"}, "address")
Protos   == Table({"ip", "tcp", "udp"}, "none")
DoModes  == Table({"do", "do-once", "do-once-per-call", "do-once-per-socket"}, "do")
Gotos    == Table({"continue", "goto", "next", "exec", "stop"}, "stop")
Bools    == Table({"true", "false"}, "false")
Kinds    == Table({"call", "socket"}, "none")
Errors   == Table({"EAGAIN", "EIO"}, "none")
Signals  == Table({"SIGHUP", "SIGPIPE"}, "none")

\* gethostbyname knows a dotted address, which is no special host, as itself; a port has a number;
\* a number is not a mark.
ASSUME GrammarAssumption ==
  /\ DOMAIN Numbers \cap WordStops = {}
  /\ \A w \in DOMAIN Addresses :
       LET a == Addresses[w] IN
       /\ a \in STRING \ (WordStops \cup Specials.names)
       /\ <<a>> \in DOMAIN Addresses /\ Addresses[<<a>>] = a
  /\ \A w \in DOMAIN Services : Services[w] \in DOMAIN Numbers
  /\ \A n \in DOMAIN Numbers : n \in STRING /\ Numbers[n] \in Nat

-----------------------------------------------------------------------------
(* States of the parser.                                                    *)

Nobody == [type |-> "none", addr |-> "0", port |-> "any"]

\* What was not written.
Unset == ""

\* Where the pieces write: the rule, and the variables of the functions that parse a part of it.
Blanks ==
  [pos |-> Unset, proto |-> Unset, direction |-> "data", from |-> Nobody, to |-> Nobody,
   condition |-> <<"always", Unset, Unset, Unset>>, mode |-> "do", task |-> <<"nop", Unset, Unset, Unset>>,
   next |-> <<Unset, Unset>>,
   type |-> Unset, name |-> <<>>, port |-> "any", service |-> <<>>, line |-> "0",
   arg1 |-> Unset, arg2 |-> Unset, arg3 |-> Unset]

RuleFields == {"pos", "proto", "direction", "from", "to", "condition", "mode", "task", "next"}
RuleOf(s)  == [f \in RuleFields |-> s.dest[f]]

\* A state has what is left of the text, the answer of the last piece, how much was left where
\* the error is (0: there is none), and what was written.
State(left, ok, err, dest) == [left |-> left, ok |-> ok, err |-> err, dest |-> dest]
Here(s) == IF s.left = <<>> THEN End ELSE Head(s.left)
Then(s) == IF Len(s.left) < 2 THEN End ELSE s.left[2]

\* Fault for the runs to find: the error of an alternative that was given up stays.
AcceptKeeping(s, rest) == State(rest, TRUE, s.err, s.dest)

Accept(s, rest) == State(rest, TRUE, 0, s.dest)
RejectAs(s)     == State(s.left, FALSE, Len(s.left) + 1, s.dest)
Reject(s)       == State(s.left, FALSE, IF s.err = 0 THEN Len(s.left) + 1 ELSE s.err, s.dest)
Back(r, s)      == State(s.left, r.ok, r.err, r.dest)
Write(s, d, v)  == State(s.left, s.ok, s.err, [s.dest EXCEPT ![d] = v])

\* Fault for the runs to find: a suite that fails stays where it failed.
SuiteOn(r, s) == IF r.ok THEN Accept(r, r.left) ELSE Reject(r)

\* Parse_suite, Parse_first and Parse_optional: r is what became of s, a and b are what became
\* of it with each alternative, the second of which is tried where the first one gave up.
Suite(r, s)    == IF r.ok THEN Accept(r, r.left) ELSE Reject(Back(r, s))
Optional(r, s) == IF s.ok THEN Accept(Suite(r, s), Suite(r, s).left) ELSE s
Retry(a, s)    == State(s.left, s.ok, a.err, a.dest)
First(a, b, s) ==
  IF ~s.ok THEN s
  ELSE IF a.ok THEN Accept(a, a.left)
  ELSE IF b.ok THEN Accept(b, b.left) ELSE RejectAs(Back(b, s))

-----------------------------------------------------------------------------
(* The pieces.                                                              *)

Take(s, fits) == IF ~s.ok THEN s ELSE IF fits THEN Accept(s, Tail(s.left)) ELSE Reject(s)

Blank(s)    == Take(s, Here(s) = Sp)
Const(c, s) == Take(s, Here(s) = c /\ Then(s) \in WordStops)
AtEnd(s)    == IF ~s.ok THEN s ELSE IF s.left = <<>> THEN Accept(s, <<>>) ELSE Reject(s)
Set(d, v, s) == IF s.ok THEN Write(s, d, v) ELSE s

Number(d, s) ==
  IF s.ok /\ Here(s) \in DOMAIN Numbers THEN Take(Write(s, d, Here(s)), TRUE) ELSE Take(s, FALSE)

\* An integer that prob and split also check.
Percent(d, s) ==
  IF s.ok /\ Number(d, s).ok /\ Numbers[Here(s)] > 100 THEN Reject(Back(Number(d, s), s)) ELSE Number(d, s)

\* The length of the word that a text begins with.
WordLen(left) ==
  CHOOSE n \in 0 .. Len(left) : /\ n < Len(left) => left[n + 1] \in WordStops
                                /\ \A k \in 1 .. n : left[k] \notin WordStops
Word(d, s) ==
  LET n == WordLen(s.left) IN
  IF ~s.ok THEN s
  ELSE IF n = 0 THEN Reject(Write(s, d, <<>>))
  ELSE Accept(Write(s, d, SubSeq(s.left, 1, n)), SubSeq(s.left, n + 1, Len(s.left)))

Enum(d, t, s) ==
  IF ~s.ok THEN s
  ELSE IF Here(s) \in t.names /\ Then(s) \in EnumStops
       THEN Take(Write(s, d, Here(s)), TRUE) ELSE RejectAs(Write(s, d, t.default))

\* Action_parse_host.
HostName(s)   == LET a == Enum("type", Specials, s) IN First(a, Word("name", Retry(a, s)), s)
PortNumber(s) == LET a == Number("port", s) IN First(a, Word("service", Retry(a, s)), s)
HostPort(s)   == Optional(PortNumber(Blank(Const("port", Blank(s)))), s)
HostRead(d, kw, s) ==
  LET blank == Write(Write(Write(s, "type", s.dest[d].type), "port", "any"), "service", <<>>) IN
  Suite(HostPort(HostName(Blank(Const(kw, blank)))), s)
HostFound(d, r, s) ==
  LET known   == r.dest.type = "address" => r.dest.name \in DOMAIN Addresses
      serves  == r.dest.service # <<>> => r.dest.service \in DOMAIN Services
      host    == [type |-> r.dest.type,
                  addr |-> IF r.ok /\ known /\ r.dest.type = "address" THEN Addresses[r.dest.name]
                           ELSE "0",
                  port |-> IF r.ok /\ serves /\ r.dest.service # <<>> THEN Services[r.dest.service]
                           ELSE r.dest.port]
  IN IF ~s.ok THEN s
     ELSE IF r.ok /\ ~(known /\ serves) THEN Reject(Back(Write(r, d, host), s))
     ELSE Write(r, d, host)
Host(d, kw, s) == HostFound(d, HostRead(d, kw, s), s)

\* The arguments of the conditions and of the tasks.  The tables of emit and mark-done have no last
\* entry: a word that is not in them is refused when what lies behind them ends the search, and Strays
\* tells when it went there.
Arg1(n, s) ==
  CASE n \in {"hang", "local-hang", "remote-hang", "remove", "truncate", "alter",
              "before", "after", "between"} -> Number("arg1", Blank(s))
    [] n \in {"echo", "log", "dump", "replay"} -> Word("arg1", Blank(s))
    [] n \in {"prob", "split"} -> Percent("arg1", Blank(s))
    [] n = "mark-done" -> Enum("arg1", Kinds, Blank(s))
    [] n = "error" -> Enum("arg1", Errors, Blank(s))
    [] n = "emit"  -> Enum("arg1", Signals, Blank(s))
    [] n = "cycle" -> Enum("arg1", Bools, Blank(s))
    [] OTHER -> s
Args(n, s) ==
  CASE n \in {"between", "mark-done"} -> Number("arg2", Blank(Arg1(n, s)))
    [] n = "cycle" -> Number("arg3", Blank(Number("arg2", Blank(Arg1(n, s)))))
    [] OTHER -> Arg1(n, s)

Conditions ==
  {"always", "never", "matched", "unmatched", "before", "after", "between", "cycle", "prob"}
Tasks ==
  {"nop", "syscall", "drop", "cancel-syscall", "reset", "hang", "local-hang", "remote-hang",
   "remove", "truncate", "alter", "echo", "log", "dump", "replay", "split", "mark-done", "error",
   "emit"}

\* Action_parse_condition and Action_parse_action: a name, and the arguments it asks for.
Named(d, names, s) ==
  LET w     == Word("name", s)
      n     == w.dest.name[1]
      blank == Write(Write(Write(w, "arg1", Unset), "arg2", Unset), "arg3", Unset)
      r     == Suite(Args(n, blank), s)
  IN IF ~w.ok THEN w
     ELSE IF Len(w.dest.name) > 1 \/ n \notin names THEN Reject(Back(w, s))
     ELSE IF ~r.ok THEN r
     ELSE Write(r, d, <<n, r.dest.arg1, r.dest.arg2, r.dest.arg3>>)

\* Action_parse_next.
Goto(s) ==
  LET e == Enum("type", Gotos, s)
      r == IF e.dest.type \in {"goto", "exec"} THEN Number("line", Blank(e)) ELSE Write(e, "line", "0")
  IN IF ~s.ok THEN s
     ELSE IF ~r.ok THEN Back(r, s)
     ELSE Write(r, "next", <<r.dest.type, r.dest.line>>)

-----------------------------------------------------------------------------
(* The grammar of a rule: Action_parse.                                     *)

\* Fault for the runs to find: the direction is not written.
ConnectPlain(s) == Suite(Blank(Const("connect", s)), s)

Connect(s) == Suite(Blank(Set("direction", "connecting", Const("connect", s))), s)
Close(s)   == Suite(Blank(Set("direction", "closing", Const("close", s))), s)
From(s)    == Suite(Blank(Host("from", "from", s)), s)
Source(s) ==
  LET connect == Connect(s)
      close   == Close(Retry(connect, s))
  IN First(connect, First(close, From(Retry(close, s)), s), s)

With(s)     == Suite(Set("direction", "any", Blank(Host("from", "with", s))), s)
TalkWith(s) == Suite(Blank(Host("from", "talk-with", s)), s)
SourceTo(s) == Suite(Blank(Host("to", "to", Source(s))), s)
Hosts(s) ==
  LET with == With(s)
      talk == TalkWith(Retry(with, s))
  IN First(with, First(talk, SourceTo(Retry(talk, s)), s), s)

Line(s) == Blank(Enum("proto", Protos, Blank(Const("on", Blank(Number("pos", s))))))
When(s) == Optional(Blank(Named("condition", Conditions, Blank(Const("when", s)))), s)
Do(s)   == Optional(Blank(Named("task", Tasks, Blank(Enum("mode", DoModes, s)))), s)
Finish(s) == AtEnd(Optional(Blank(s), s))

Start(text) == State(text, TRUE, 0, Blanks)

\* A signal or a kind of call is looked for behind the end of its table (Parse_enum in parser.c).
Strays(text) ==
  LET w     == Word("name", Blank(Enum("mode", DoModes, When(Hosts(Line(Start(text)))))))
      table == IF w.dest.name = <<"emit">> THEN Signals ELSE Kinds
  IN /\ w.ok /\ w.dest.name \in {<<"emit">>, <<"mark-done">>}
     /\ Blank(w).ok /\ ~Enum("arg1", table, Blank(w)).ok

Answer(text, r) ==
  [ok |-> r.ok, err |-> IF r.err = 0 THEN 0 ELSE Len(text) + 2 - r.err, rule |-> RuleOf(r)]
Parse(text) ==
  LET s == Start(text) IN Answer(text, Suite(Finish(Goto(Do(When(Hosts(Line(s)))))), s))

-----------------------------------------------------------------------------
(* What list writes: Action_show.                                           *)

\* A port is not written with dns.
Kept(h) == IF h.type = "dns" THEN [h EXCEPT !.port = "any"] ELSE h

ShowHost(kw, h) ==
  kw \o <<Sp, CASE h.type = "none" -> "?none?" [] h.type = "address" -> h.addr [] OTHER -> h.type, Sp>>
     \o IF h.port # "any" /\ h.type # "dns" THEN <<"port", Sp, h.port, Sp>> ELSE <<>>

\* Fault for the runs to find: every rule with two hosts is written as one with a single host.
ShowHostsOne(r) ==
  CASE r.direction = "any"        -> ShowHost(<<"with">>, r.from)
    [] r.direction = "connecting" -> ShowHost(<<"connect", Sp, "to">>, r.to)
    [] r.direction = "closing"    -> ShowHost(<<"close", Sp, "to">>, r.to)
    [] OTHER                      -> ShowHost(<<"talk-with">>, r.from)

ShowHosts(r) ==
  CASE r.direction = "any"        -> ShowHost(<<"with">>, r.from)
    [] r.direction = "connecting" -> ShowHost(<<"connect", Sp, "to">>, r.to)
    [] r.direction = "closing"    -> ShowHost(<<"close", Sp, "to">>, r.to)
    [] OTHER -> IF r.to.type = "none" THEN ShowHost(<<"talk-with">>, r.from)
                ELSE ShowHost(<<"from">>, r.from) \o ShowHost(<<"to">>, r.to)

\* The arguments of a name: a word of its own, or one to three values.
Words == {"echo", "log", "dump", "replay"}
ShowArgs(v) ==
  CASE v[1] \in Words -> v[2] \o <<Sp>>
    [] v[1] \in {"between", "mark-done"} -> <<v[2], Sp, v[3], Sp>>
    [] v[1] = "cycle" -> <<v[2], Sp, v[3], Sp, v[4], Sp>>
    [] v[1] \in {"before", "after", "prob", "hang", "local-hang", "remote-hang", "remove", "truncate",
                 "alter", "split", "error", "emit"} -> <<v[2], Sp>>
    [] OTHER -> <<>>

\* The writers of conditions and tasks; that of truncate has its name wrong.
Written(n) == IF n = "truncate" THEN "trucate" ELSE n
ShowNamed(v) == <<Written(v[1]), Sp>> \o ShowArgs(v)
\* The writers of error and emit stay on the first entry of their table for ever.
Endless(v) == v[1] \in {"error", "emit"} /\ v[2] \notin {"EAGAIN", "SIGHUP"}

Show(r) ==
  <<r.pos, Sp, "on", Sp, r.proto, Sp>> \o ShowHosts(r)
  \o <<"when", Sp>> \o ShowNamed(r.condition)
  \o <<r.mode, Sp>> \o ShowNamed(r.task)
  \o <<r.next[1], Sp>> \o IF r.next[1] \in {"goto", "exec"} THEN <<r.next[2], Sp>> ELSE <<>>
=============================================================================
