----------------------------- MODULE MCRuleLife -----------------------------
(* Texts of rules, and calls for the rules, for TLC.  A text is made of eight *)
(* parts.  Either it says one of the rules that are to meet calls, or at most *)
(* two of its parts differ from those of a plain rule.                        *)
EXTENDS RuleLife, TLC

AllNumbers == "10" :> 10 @@ "80" :> 80 @@ "101" :> 101 @@ "0" :> 0

-----------------------------------------------------------------------------
(* Rules and calls: every kind of host with and without a port, every        *)
(* condition, and the moments at which the conditions change.                *)

AllMoments == {[age |-> a, dice |-> 9, matched |-> a % 20 = 0] : a \in {0, 9, 10, 79, 80, 89, 90, 100, 190}}
              \cup {[age |-> 10, dice |-> d, matched |-> TRUE] : d \in {0, 10, 11, 99}}

Ends == [type : {"address"}, addr : {"192.168.0.1", "10.0.0.1"}, port : {"80", "10"}]
AllSockets ==
  {[proto |-> IF l.port = "80" THEN "tcp" ELSE "udp", local |-> [l EXCEPT !.type = "me"],
    remote |-> r] :
     l \in Ends, r \in Ends \cup {[type |-> "dns", addr |-> "10.0.0.1", port |-> "53"]}}

SomeHosts == [type : {"me", "any", "dns"}, addr : {"0"}, port : {"any", "80"}]
             \cup [type : {"address"}, addr : {"192.168.0.1"}, port : {"any", "80"}]

Said(direction, from, to) ==
  [proto : {"ip", "tcp"}, direction : {direction}, from : from, to : to,
   condition : {<<"matched", "", "", "">>}]
OfHosts == Said("any", SomeHosts, {Nobody}) \cup Said("data", SomeHosts, SomeHosts \cup {Nobody})
           \cup Said("connecting", {Nobody}, SomeHosts) \cup Said("closing", {Nobody}, SomeHosts)

AllConditions ==
  {<<n, "", "", "">> : n \in {"always", "never", "matched", "unmatched"}}
  \cup {<<n, x, "", "">> : n \in {"before", "after", "prob"}, x \in {"0", "10", "80"}}
  \cup {<<"between", "10", "80", "">>}
  \cup {<<"cycle", b, x, y>> : b \in {"true", "false"}, x, y \in {"0", "10", "80"}}
OfConditions ==
  {[proto |-> "ip", direction |-> "closing", from |-> Nobody, condition |-> c,
    to |-> [type |-> "any", addr |-> "0", port |-> "any"]] : c \in AllConditions}

AllRules == OfHosts \cup OfConditions

-----------------------------------------------------------------------------
(* Texts.                                                                    *)

Part(text, valid, says) == [text |-> text, valid |-> valid, says |-> says]
Good(text, says) == Part(text, TRUE, says)
Bad(text)        == Part(text, FALSE, <<>>)
Nothing          == Good(<<>>, <<>>)
Defaults == RuleOf(Start(<<>>))

\* The lexemes of a sequence of words, each followed by a space.
Spread(words) == [i \in 1 .. 2 * Len(words) |-> IF i % 2 = 1 THEN words[(i + 1) \div 2] ELSE Sp]

AllAddresses == <<"host">> :> "192.168.0.1" @@ <<"192.168.0.1">> :> "192.168.0.1"
AllServices  == <<"http">> :> "80"

Pos == {Good(<<"10", Sp>>, [pos |-> "10"]), Good(<<"80", Sp>>, [pos |-> "80"]),
        Bad(<<"x", Sp>>), Bad(<<"10">>), Bad(<<>>)}
On  == {Good(<<"on", Sp>>, <<>>), Bad(<<"of", Sp>>), Bad(<<>>)}
Pro == {Good(<<p, Sp>>, [proto |-> p]) : p \in {"ip", "tcp", "udp"}} \cup {Bad(<<"icmp", Sp>>)}

\* An end of a rule: its name, and its port or service.
Name == {Good(<<n>>, [type |-> n, addr |-> "0"]) : n \in {"me", "any", "dns"}}
        \cup {Good(n, [type |-> "address", addr |-> "192.168.0.1"]) : n \in DOMAIN AllAddresses}
        \cup {Bad(<<"nohost">>), Bad(<<"dns", ".", "com">>)}
Port == {Good(<<>>, "any"), Good(<<Sp, "port", Sp, "80">>, "80"),
         Good(<<Sp, "port", Sp, "http">>, "80"), Bad(<<Sp, "port", Sp, "noservice">>),
         Bad(<<Sp, "port">>)}
AnyHost == {Part(n.text \o p.text, n.valid /\ p.valid,
                 IF n.valid THEN [type |-> n.says.type, addr |-> n.says.addr, port |-> p.says]
                 ELSE Nobody) : n \in Name, p \in Port}
Ordinary == {h \in AnyHost : h.text \in {<<"me">>, <<"any", Sp, "port", Sp, "80">>, <<"host">>,
                                         <<"nohost">>}}

Single(kw, says(_)) == {Part(<<kw, Sp>> \o h.text \o <<Sp>>, h.valid, says(h.says)) : h \in AnyHost}
WithSays(h) == [direction |-> "any", from |-> h]
TalkSays(h) == [from |-> h]
Double ==
  {Part(<<"from", Sp>> \o f.text \o <<Sp, "to", Sp>> \o t.text \o <<Sp>>, f.valid /\ t.valid,
        [from |-> f.says, to |-> t.says]) : f \in AnyHost, t \in Ordinary}
Ending ==
  {Part(<<w[1], Sp, "to", Sp>> \o t.text \o <<Sp>>, t.valid, [direction |-> w[2], to |-> t.says]) :
     w \in {<<"connect", "connecting">>, <<"close", "closing">>}, t \in AnyHost}
Confused == {Bad(<<"with", Sp, "me", Sp, "to", Sp, "any", Sp>>), Bad(<<"connect", Sp>>),
             Bad(<<"from", Sp, "me", Sp>>), Bad(<<"to", Sp, "me", Sp>>), Bad(<<>>)}
AllHosts == Single("with", WithSays) \cup Single("talk-with", TalkSays)
            \cup Double \cup Ending \cup Confused

WhenText(args) == <<"when", Sp>> \o Spread(args)
Whens ==
  {Nothing, Bad(<<"when", Sp>>), Bad(WhenText(<<"sometimes">>)), Bad(WhenText(<<"prob", "101">>)),
   Bad(WhenText(<<"between", "10">>)), Bad(WhenText(<<"cycle", "10", "true", "10">>)), Bad(<<"when">>)}
  \cup {Good(WhenText(<<n>>), [condition |-> <<n, "", "", "">>]) : n \in {"matched", "unmatched", "never"}}
  \cup {Good(WhenText(<<n, "10">>), [condition |-> <<n, "10", "", "">>]) : n \in {"before", "after", "prob"}}
  \cup {Good(WhenText(<<"between", "10", "80">>), [condition |-> <<"between", "10", "80", "">>]),
        Good(WhenText(<<"prob", "0">>), [condition |-> <<"prob", "0", "", "">>]),
        Good(WhenText(<<"always">>), <<>>)}
  \cup {Good(WhenText(<<"cycle", c[1], c[2], c[3]>>), [condition |-> <<"cycle", c[1], c[2], c[3]>>]) :
          c \in {<<"false", "10", "80">>, <<"true", "80", "10">>, <<"true", "0", "0">>}}

Modes == {"do", "do-once", "do-once-per-call", "do-once-per-socket"}
Dos(m) ==
  {Good(<<m, Sp>> \o Spread(<<n>>), [mode |-> m, task |-> <<n, "", "", "">>]) :
     n \in {"nop", "cancel-syscall"}}
  \cup {Good(<<m, Sp>> \o Spread(<<n, "80">>), [mode |-> m, task |-> <<n, "80", "", "">>]) :
     n \in {"hang", "split", "truncate"}}
  \cup {Good(<<m, Sp>> \o Spread(<<n[1], n[2]>>), [mode |-> m, task |-> <<n[1], n[2], "", "">>]) :
     n \in {<<"error", "EAGAIN">>, <<"error", "EIO">>, <<"emit", "SIGPIPE">>}}
  \cup {Good(<<m, Sp, "echo", Sp, "any", ".", "host", Sp>>,
             [mode |-> m, task |-> <<"echo", <<"any", ".", "host">>, "", "">>]),
        Good(<<m, Sp, "mark-done", Sp, "socket", Sp, "10", Sp>>,
             [mode |-> m, task |-> <<"mark-done", "socket", "10", "">>]),
        Bad(<<m, Sp>>), Bad(<<m, Sp>> \o Spread(<<"split", "101">>)), Bad(<<m, Sp, "fly", Sp>>),
        Bad(<<m, Sp>> \o Spread(<<"hang">>)), Bad(<<m, Sp>> \o Spread(<<"drop", "10">>)),
        Bad(<<m, Sp>> \o Spread(<<"emit", "SIGNONE">>)), Bad(<<m, Sp, "emit", Sp>>),
        Bad(<<m, Sp>> \o Spread(<<"mark-done", "never", "10">>))}
AllDos == {Nothing, Bad(<<"do", "nop", Sp>>)} \cup UNION {Dos(m) : m \in Modes}

Nexts ==
  {Good(<<n>>, [next |-> <<n, "0">>]) : n \in {"continue", "next", "stop"}}
  \cup {Good(<<n, Sp, "80">>, [next |-> <<n, "80">>]) : n \in {"goto", "exec"}}
  \cup {Bad(<<"goto">>), Bad(<<"exec", Sp, "x">>), Bad(<<"wait">>), Bad(<<>>)}
Ends2 == {Nothing, Good(<<Sp>>, <<>>), Bad(<<Sp, "10">>), Bad(<<".">>)}

Parts == <<Pos, On, Pro, AllHosts, Whens, AllDos, Nexts, Ends2>>
PlainTexts == <<<<"10", Sp>>, <<"on", Sp>>, <<"tcp", Sp>>, <<"with", Sp, "me", Sp>>, <<>>, <<>>,
                <<"stop">>, <<>>>>
Says(ps) == [f \in DOMAIN Defaults |->
               LET by == {i \in 1 .. 8 : ps[i].valid /\ f \in DOMAIN ps[i].says}
               IN IF by = {} THEN Defaults[f] ELSE ps[CHOOSE i \in by : TRUE].says[f]]
RECURSIVE Joined(_, _)
Joined(ps, i) == IF i > 8 THEN <<>> ELSE ps[i].text \o Joined(ps, i + 1)

\* The hosts and the tasks are many: alone each varies freely, with another part a few of them.
\* At most one part is bad: two of them can make a good one, as in "goto" "" " 10".
FewHosts == {h \in AllHosts : h.text \in {<<"talk-with", Sp, "host", Sp>>, <<"connect", Sp>>,
                                          <<"from", Sp, "dns", Sp, "to", Sp, "me", Sp>>,
                                          <<"close", Sp, "to", Sp, "any", Sp>>, <<>>}}
FewDos == Dos("do-once") \cup {Nothing}

\* The places of the bad part, and the two that follow: a space and what should come after it.
Wrong(ps) ==
  UNION {LET rest == Len(Joined(ps, i)) IN
         Len(Joined(ps, 1)) - rest + 1 .. Len(Joined(ps, 1)) - rest + Len(ps[i].text) + 2 :
         i \in {j \in 1 .. 8 : ~ps[j].valid}}
TextOf(ps) == [text |-> Joined(ps, 1), wrong |-> Wrong(ps), rule |-> Says(ps)]
Pairs == {x \in (1 .. 8) \X (1 .. 8) : x[1] < x[2]}

\* The rules that are to meet calls, in words.
InWords(kw, h) ==
  kw \o <<Sp, IF h.type = "address" THEN h.addr ELSE h.type, Sp>>
  \o IF h.port = "any" THEN <<>> ELSE <<"port", Sp, h.port, Sp>>
HostsInWords(r) ==
  CASE r.direction = "any"        -> InWords(<<"with">>, r.from)
    [] r.direction = "connecting" -> InWords(<<"connect", Sp, "to">>, r.to)
    [] r.direction = "closing"    -> InWords(<<"close", Sp, "to">>, r.to)
    [] r.direction = "data" /\ r.to = Nobody -> InWords(<<"talk-with">>, r.from)
    [] r.direction = "data" /\ r.to # Nobody -> InWords(<<"from">>, r.from) \o InWords(<<"to">>, r.to)
TextOfRule(r, plain) ==
  LET args == SelectSeq(r.condition, LAMBDA a : a # "") IN
  TextOf([plain EXCEPT ![3] = Good(<<r.proto, Sp>>, [proto |-> r.proto]),
                       ![4] = Good(HostsInWords(r),
                                   [direction |-> r.direction, from |-> r.from, to |-> r.to]),
                       ![5] = Good(WhenText(args), [condition |-> r.condition])])

AllInputs ==
  LET parts == Parts
      few   == [parts EXCEPT ![4] = FewHosts, ![6] = FewDos]
      plain == [i \in 1 .. 8 |-> CHOOSE p \in parts[i] : p.text = PlainTexts[i]]
  IN {TextOfRule(r, plain) : r \in AllRules}
     \cup UNION {{TextOf([plain EXCEPT ![i] = p]) : p \in parts[i]} : i \in 1 .. 8}
     \cup UNION {{TextOf([plain EXCEPT ![x[1]] = pq[1], ![x[2]] = pq[2]]) :
                    pq \in {r \in few[x[1]] \X few[x[2]] : r[1].valid \/ r[2].valid}} : x \in Pairs}
=============================================================================
