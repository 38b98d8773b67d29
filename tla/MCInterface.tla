----------------------------- MODULE MCInterface -----------------------------
(* Files and clients for TLC.                                                 *)
EXTENDS Interface, TLC

Blank       == [kind |-> "blank"]
Section(n)  == [kind |-> "section", name |-> n]
RuleAt(n, t) == [kind |-> "rule", line |-> n, text |-> <<t>>]
Feed(t, p, w) == [kind |-> "runtime", type |-> t, port |-> p, word |-> w]
Tcp   == Feed("tcp", 80, "")
Pipe  == Feed("pipe", NoPort, "fifo")
Cmd   == Feed("command", NoPort, "prog")

Rt == Section("Runtime")
Texts ==
  {<<RuleAt(10, "a"), RuleAt(0, "b"), RuleAt(10, "c")>>,
   <<RuleAt(10, "a"), Rt, Tcp>>, <<RuleAt(0, "a"), Rt, Tcp, Blank>>,
   <<Rt, Cmd, Tcp, Section("Rules"), RuleAt(1, "a")>>,
   <<Rt, Tcp, Cmd, Pipe>>, <<Rt, Pipe, Feed("command", NoPort, "other")>>,
   <<RuleAt(1, "a"), Rt, Feed("command", NoPort, "other")>>,
   <<Rt, Feed("command", 80, ""), Pipe>>, <<Rt, Feed("tcp", NoPort, "http")>>,
   <<Rt, Pipe, Feed("tcp", 81, "")>>, <<Rt, Feed("pipe", 81, "")>>, <<Rt, Cmd, Feed("udp", 80, "")>>,
   <<Rt, Feed("tcp", NoPort, "http"), Feed("command", 80, "")>>,
   <<RuleAt(10, "a"), Tcp>>, <<Rt, RuleAt(1, "a")>>, <<Rt, Pipe, Section("other")>>,
   <<Rt, Tcp, Feed("tcp", NoPort, "http")>>, <<Rt, Feed("tcp", 81, ""), Section("other"), Rt, Tcp>>}
AllFiles ==
  {[first |-> [lines |-> t, newline |-> e], default |-> [lines |-> d, newline |-> TRUE]] :
     t \in Texts \cup {<<>>}, e \in BOOLEAN,
     d \in {<<>>, <<RuleAt(10, "d"), Rt, Tcp>>, <<Rt, Feed("tcp", NoPort, "http")>>}}

AllRules ==
  <<"10", "stop">> :> [line |-> 10, text |-> <<"e">>]
  @@ <<"0", "stop">> :> [line |-> 0, text |-> <<"f">>]
  @@ <<"1", "goto 1">> :> [line |-> 1, text |-> <<"goto 1">>]
  @@ <<"1", "goto 1", "0">> :> [line |-> 1, text |-> <<"goto 10">>]

Client(says, leaves) == [says |-> says, leaves |-> leaves]
N == "newline"
Say(verb, args) == <<verb, ":">> \o args \o <<N>>
AllScripts ==
  {<<Client(Say("add", <<"10", "stop">>) \o Say("list", <<>>) \o Say("quit", <<>>)
              \o Say("remove", <<"1", "0">>), "quit"),
     Client(Say("help", <<>>) \o Say("replace", <<"1", "goto 1", "0">>), "reset"),
     Client(Say("exit", <<>>), "quit")>>,
   <<Client(Say("remove", <<"1", "0">>) \o Say("exit", <<>>) \o Say("list", <<>>), "quit")>>,
   <<Client(Say("add", <<"0", "stop">>) \o Say("remove", <<"0">>) \o Say("add", <<"0", "stop">>), "stay"),
     Client(Say("quit", <<>>), "quit")>>,
   <<Client(<<"remove", ":", N, "1", "0", N, "remove", ":">>, "reset"),
     Client(<<"1", "0", N>> \o Say("quit", <<>>), "quit")>>}
==============================================================================
