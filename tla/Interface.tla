------------------------------ MODULE Interface ------------------------------
(***************************************************************************)
(* Where the rules come from: the configuration files that are tried when  *)
(* the library is loaded (conffile.c, inj_init), and the thread that takes *)
(* the commands of the ruleset edition interface (runtime.c).              *)
(*                                                                         *)
(* A file is a sequence of lines, known by what they are.  What a client   *)
(* sends is a sequence of lexemes, and read may cut it between any two of  *)
(* them: a verb and its colon, digits, the parts of a rule, and ends of    *)
(* lines.  A cut inside the word of a verb comes to one before its colon:  *)
(* neither part is a command.  The queue is the text held at each line;    *)
(* ActionQueue has its details.                                            *)
(***************************************************************************)
EXTENDS Naturals, Sequences, FiniteSetsExt

CONSTANTS
  Program,  \* the name of the program
  Lines,    \* line numbers, with 0
  Rules,    \* lexemes -> [line, text]: what clients send that is a rule, whole or cut
  Files,    \* pairs of files: LIBINJ_CONFIG, and the default one (without lines: no file)
  Scripts,  \* sequences of clients: what each says, and how it leaves
  Chunk     \* lexemes that a read returns at most

Feeds == {"tcp", "udp", "pipe"}

\* What Config_init takes for a line.  Parse_word reads no empty word.
Entries ==
  [kind : {"blank"}] \cup [kind : {"section"}, name : {"Rules", "Runtime", "other"}]
  \cup {l \in [kind : {"rule"}, line : Lines, text : Seq(STRING)] : l.text # <<>>}
  \cup {l \in [kind : {"runtime"}, type : Feeds \cup {"command"}, port : Nat, word : STRING] :
          l.port = 0 => l.word # ""}

ASSUME LinesAssumption == 0 \in Lines /\ Lines \subseteq Nat
ASSUME ChunkAssumption == Chunk \in Nat \ {0}
ASSUME RulesAssumption ==
  \A a \in DOMAIN Rules : Rules[a].line \in Lines /\ Rules[a].text \in Seq(STRING) \ {<<>>}
ASSUME FilesAssumption ==
  Files \subseteq [{"first", "default"} -> [lines : Seq(Entries), newline : BOOLEAN]]
ASSUME ScriptsAssumption ==
  Scripts \subseteq Seq([says : Seq(STRING), leaves : {"quit", "reset", "stay"}])

VARIABLES
  files, file, at, again,  \* the files, the one that is read, how far, and its last line twice
  section, static,         \* of the reader; static survives from line to line and file to file
  stage,                   \* "reading", "chosen", "serving" or "off"
  config,                  \* [queue, type, port, file, command]
  script, client,          \* the clients, and the one that the thread serves
  conn,                    \* "waiting", "reading", "over", "crashed" or "killed"
  stream, buffer, ran,     \* lexemes not read yet, read but not run yet, and the lines run
  said                     \* history: all that was sent on the connection, or into the pipe

reader == <<files, file, at, again, section, static>>
thread == <<script, client, conn, stream, buffer, ran, said>>
vars   == <<reader, stage, config, thread>>

\* A string that was allocated for a line of a file, or none.
String(name, id) == [name |-> name, id |-> id]
NoString == String("", <<>>)
NoPort   == 0
NoRules  == [n \in Lines |-> <<>>]
Empty    == [queue |-> NoRules, type |-> "none", port |-> NoPort, file |-> NoString,
             command |-> NoString]

\* Fault for the runs to find: the put never replaces.
PutShy(queue, rule, replace) ==
  [ok |-> queue[rule.line] = <<>>,
   queue |-> IF queue[rule.line] = <<>> THEN [queue EXCEPT ![rule.line] = rule.text] ELSE queue]

\* ActionQueue_put of a rule that can be read.
Put(queue, rule, replace) ==
  LET free == queue[rule.line] = <<>> \/ replace
  IN [ok |-> free, queue |-> IF free THEN [queue EXCEPT ![rule.line] = rule.text] ELSE queue]

-----------------------------------------------------------------------------
(* The configuration file.                                                  *)

Refused == [ok |-> FALSE, section |-> section, static |-> static, config |-> config]
Taken   == [Refused EXCEPT !.ok = TRUE]

\* Fault for the runs to find: the name read from a line is not forgotten after it.
RuntimeKeeps(l, id) ==
  LET port == IF l.port # NoPort THEN l.port ELSE static.port
      word == IF l.port # NoPort THEN static.word ELSE String(l.word, id)
  IN [Taken EXCEPT
        !.static = [port |-> port, word |-> word],
        !.config = IF l.type = "command" THEN [@ EXCEPT !.command = word]
                   ELSE [@ EXCEPT !.type = l.type, !.port = port, !.file = word]]

\* A line of the Runtime section.  The port and the word are static: a line that gives no port
\* has that of an earlier one.
Runtime(l, id) ==
  LET port == IF l.port # NoPort THEN l.port ELSE static.port
      word == IF l.port # NoPort THEN static.word ELSE String(l.word, id)
  IN [Taken EXCEPT
        !.static = [port |-> port, word |-> NoString],
        !.config = IF l.type = "command" THEN [@ EXCEPT !.command = word]
                   ELSE [@ EXCEPT !.type = l.type, !.port = port, !.file = word]]

Rule(l) ==
  LET p == Put(config.queue, l, TRUE)
  IN [Taken EXCEPT !.ok = p.ok, !.config.queue = p.queue]

Interpret(l, id) ==
  CASE l.kind = "blank" -> Taken
    [] l.kind = "section" /\ l.name # "other" -> [Taken EXCEPT !.section = l.name]
    [] l.kind = "rule" /\ section = "Rules" -> Rule(l)
    [] l.kind = "runtime" /\ section = "Runtime" -> Runtime(l, id)
    [] OTHER -> Refused

\* The file that is tried after the first, if there is one.
Try(f) ==
  /\ file' = f /\ at' = 0 /\ again' = FALSE /\ section' = "Rules"
  /\ stage' = IF files[f].lines = <<>> THEN "off" ELSE "reading"

\* Fault for the runs to find: the rules of the file that is refused are kept.
RefuseKeeps ==
  IF file = "first" THEN Try("default") /\ config' = [Empty EXCEPT !.queue = config.queue]
  ELSE /\ stage' = "off" /\ config' = Empty
       /\ UNCHANGED <<file, at, again, section>>

\* Config_destroy, and what inj_init does next.
Refuse ==
  IF file = "first" THEN Try("default") /\ config' = Empty
  ELSE /\ stage' = "off" /\ config' = Empty
       /\ UNCHANGED <<file, at, again, section>>

Read(l, i, twice) ==
  LET r == Interpret(l, <<file, i, twice>>) IN
  /\ static' = r.static
  /\ IF r.ok
     THEN /\ at' = i /\ again' = twice /\ section' = r.section /\ config' = r.config
          /\ UNCHANGED <<file, stage>>
     ELSE Refuse
  /\ UNCHANGED <<files, thread>>

TakeLine ==
  /\ stage = "reading" /\ at < Len(files[file].lines)
  /\ Read(files[file].lines[at + 1], at + 1, FALSE)

\* After an end of line, fgets finds the end of the file and leaves the last line where it is.
Reread ==
  /\ stage = "reading" /\ at = Len(files[file].lines)
  /\ files[file].newline /\ ~again
  /\ Read(files[file].lines[at], at, TRUE)

EndOfFile ==
  /\ stage = "reading" /\ at = Len(files[file].lines)
  /\ files[file].newline => again
  /\ IF config.command.name \in {"", Program}
     THEN stage' = "chosen" /\ UNCHANGED <<file, at, again, section, config>>
     ELSE Refuse
  /\ UNCHANGED <<files, static, thread>>

-----------------------------------------------------------------------------
(* The interface.                                                           *)

Whitelist(port) == [line |-> 0, text |-> <<"with me port", port>>]

\* Runtime_start, which may fail to create the socket or the pipe.
Start ==
  /\ stage = "chosen"
  /\ \/ config.type = "tcp" /\ stage' \in {"serving", "off"}
     \/ config.type = "pipe" /\ config.file # NoString /\ stage' \in {"serving", "off"}
     \/ config.type = "pipe" /\ config.file = NoString /\ stage' = "off"
     \/ config.type \in {"udp", "none"} /\ stage' = "off"
  /\ config' = IF config.type = "tcp"
               THEN [config EXCEPT !.queue = Put(@, Whitelist(config.port), TRUE).queue]
               ELSE config
  /\ UNCHANGED <<reader, thread>>

\* RuntimeTCP_accept of the next client, or the pipe itself, at once.
Accept ==
  /\ stage = "serving" /\ conn = "waiting"
  /\ conn' = "reading" /\ ran' = <<>>
  /\ IF config.type = "tcp"
     THEN /\ client < Len(script) /\ client' = client + 1
          /\ stream' = script[client + 1].says /\ said' = script[client + 1].says
     ELSE UNCHANGED <<client, stream, said>>
  /\ UNCHANGED <<reader, stage, config, script, buffer>>

\* The length given to accept is not initialised: the call may fail, and the thread ends.
AcceptFails ==
  /\ stage = "serving" /\ conn = "waiting" /\ config.type = "tcp"
  /\ conn' = "over"
  /\ UNCHANGED <<reader, stage, config, script, client, stream, buffer, ran, said>>

\* Another program writes into the pipe, behind what others wrote.
Arrive ==
  /\ stage = "serving" /\ conn = "reading" /\ config.type = "pipe"
  /\ client < Len(script) /\ client' = client + 1
  /\ stream' = stream \o script[client + 1].says
  /\ said' = said \o script[client + 1].says
  /\ UNCHANGED <<reader, stage, config, script, conn, buffer, ran>>

Digits   == {"0", "1"}
Short(c) == Len(c) <= 3 /\ \A i \in DOMAIN c : c[i] \in Digits \cup {":", "newline"}
Breaks(b) == {i \in DOMAIN b : b[i] = "newline"}

\* The line at the front of the buffer, and what comes after its end.
Line(b)  == SubSeq(b, 1, IF Breaks(b) = {} THEN Len(b) ELSE Min(Breaks(b)) - 1)
After(b) == IF Breaks(b) = {} THEN <<>> ELSE SubSeq(b, Min(Breaks(b)) + 1, Len(b))

\* read returns what there is, up to the size of the buffer: a line may be cut.
Receive(n) ==
  /\ stage = "serving" /\ conn = "reading" /\ buffer = <<>> /\ n <= Len(stream)
  /\ stream' = SubSeq(stream, n + 1, Len(stream))
  /\ LET chunk == SubSeq(stream, 1, n) IN buffer' = IF Short(chunk) THEN <<>> ELSE chunk
  /\ UNCHANGED <<reader, stage, config, script, client, conn, ran, said>>

\* read fails: the thread says good bye, and SIGPIPE may end the program.
Broken ==
  /\ stage = "serving" /\ conn = "reading" /\ config.type = "tcp"
  /\ stream = <<>> /\ buffer = <<>> /\ script[client].leaves = "reset"
  /\ conn' \in {"waiting", "killed"}
  /\ UNCHANGED <<reader, stage, config, script, client, stream, buffer, ran, said>>

\* The line that Parse_int makes of a lexeme or two, as in "1" "0".
Digit(t)  == IF t = "1" THEN 1 ELSE 0
Number(a) == IF Len(a) > 1 /\ a[2] \in Digits THEN 10 * Digit(a[1]) + Digit(a[2]) ELSE Digit(a[1])

Edit(verb, args) ==
  IF verb = "remove" /\ args # <<>> /\ args[1] \in Digits
  THEN [config EXCEPT !.queue[Number(args)] = <<>>]
  ELSE IF verb \in {"add", "replace"} /\ args \in DOMAIN Rules
  THEN [config EXCEPT !.queue = Put(@, Rules[args], verb = "replace").queue]
  ELSE config

\* Fault for the runs to find: exit no longer falls through to quit.
ClosersQuit == {"quit"}
Closers == {"quit", "exit"}

\* Fault for the runs to find: the lines that follow a quit stay to be run.
RestAll(verb) == After(buffer)
Rest(verb) == IF verb \in Closers THEN <<>> ELSE After(buffer)

\* The mutex of a rule that is not there is locked.
Crashes(verb, args) ==
  verb = "remove" /\ args # <<>> /\ args[1] \in Digits /\ config.queue[Number(args)] = <<>>

Verbs   == {"list", "add", "replace", "remove", "quit", "exit", "help"}
Verb(l) == IF Len(l) > 1 /\ l[2] = ":" THEN l[1] ELSE ""
Args(l) == SubSeq(l, 3, Len(l))

\* A line is not a command: it is short, or is not a verb, a colon and arguments.
Skip ==
  /\ stage = "serving" /\ conn = "reading" /\ buffer # <<>>
  /\ Verb(Line(buffer)) \notin Verbs
  /\ buffer' = After(buffer)
  /\ UNCHANGED <<reader, stage, config, script, client, conn, stream, ran, said>>

Command ==
  /\ stage = "serving" /\ conn = "reading" /\ buffer # <<>>
  /\ Verb(Line(buffer)) \in Verbs
  /\ LET verb == Verb(Line(buffer))
         args == Args(Line(buffer)) IN
     /\ conn' = IF Crashes(verb, args) THEN "crashed"
                ELSE IF verb \notin Closers THEN conn
                ELSE IF verb = "exit" THEN "killed" ELSE "waiting"
     /\ config' = Edit(verb, args)
     /\ buffer' = Rest(verb)
     /\ ran' = Append(ran, Line(buffer))
     /\ stream' = IF verb \in Closers /\ config.type = "tcp" THEN <<>> ELSE stream
  /\ UNCHANGED <<reader, stage, script, client, said>>

-----------------------------------------------------------------------------
Init ==
  /\ files \in Files
  /\ file = IF files["first"].lines = <<>> THEN "default" ELSE "first"
  /\ stage = IF files[file].lines = <<>> THEN "off" ELSE "reading"
  /\ at = 0 /\ again = FALSE /\ section = "Rules"
  /\ static = [port |-> NoPort, word |-> NoString]
  /\ config = Empty
  /\ script \in Scripts /\ client = 0
  /\ conn = "waiting" /\ stream = <<>> /\ buffer = <<>> /\ ran = <<>> /\ said = <<>>

Served == Accept \/ Skip \/ Command \/ \E n \in 1 .. Chunk : Receive(n)

Next ==
  \/ TakeLine \/ Reread \/ EndOfFile \/ Start
  \/ Served \/ AcceptFails \/ Arrive \/ Broken

Spec == Init /\ [][Next]_vars /\ WF_vars(Served)
-----------------------------------------------------------------------------
(* What a file says, line by line.                                          *)

LastIn(s) == CHOOSE i \in s : \A j \in s : j <= i
SectionOf(f, i) ==
  LET before == {j \in 1 .. i - 1 : f.lines[j].kind = "section"}
  IN IF before = {} THEN "Rules" ELSE f.lines[LastIn(before)].name
RuleLines(f, n)     == {i \in DOMAIN f.lines : f.lines[i].kind = "rule" /\ f.lines[i].line = n}
TypedLines(f, types) == {i \in DOMAIN f.lines : f.lines[i].kind = "runtime" /\ f.lines[i].type \in types}
InPlace(f, i) ==
  LET l == f.lines[i] IN
  /\ l.kind = "section" => l.name \in {"Rules", "Runtime"}
  /\ l.kind = "rule" => SectionOf(f, i) = "Rules"
  /\ l.kind = "runtime" => SectionOf(f, i) = "Runtime"
Meant(f) ==
  /\ f.lines # <<>>
  /\ \A i \in DOMAIN f.lines : InPlace(f, i)
  /\ LET c == TypedLines(f, {"command"}) IN
     c # {} => LET l == f.lines[LastIn(c)] IN l.port # NoPort \/ l.word = Program

\* The last port that the lines of f up to line n give, or else a port that was there before.
Ported(f, n) == {i \in DOMAIN f.lines \cap 1 .. n : f.lines[i].kind = "runtime" /\ f.lines[i].port # NoPort}
PortUpto(f, n, before) == IF Ported(f, n) = {} THEN before ELSE f.lines[LastIn(Ported(f, n))].port

\* How many lines of a file are taken, and the port that a file finds when it is begun: the default
\* one finds that of the first one, which was refused.
Reached(f) == CHOOSE n \in 0 .. Len(f.lines) :
                /\ \A i \in 1 .. n : InPlace(f, i)
                /\ n < Len(f.lines) => ~InPlace(f, n + 1)
PortFound(fs, k) ==
  IF k = "first" THEN NoPort ELSE PortUpto(fs["first"], Reached(fs["first"]), NoPort)

\* The configuration is that of the first file which is well formed and meant for the program:
\* at each line the last rule, the last source of commands, and the port or the name it gives.
\* One thing stays of a file that was refused: where that source gives a name, the port is the last
\* one that was given before, there if not in this file.
ConfigIsFile ==
  stage = "chosen" =>
    LET f == files[file]
        feeds == TypedLines(f, Feeds) IN
    /\ Meant(f) /\ (file = "default" => ~Meant(files["first"]))
    /\ \A n \in Lines :
         config.queue[n] = IF RuleLines(f, n) = {} THEN <<>>
                           ELSE f.lines[LastIn(RuleLines(f, n))].text
    /\ IF feeds = {} THEN config.type = "none"
       ELSE LET l == f.lines[LastIn(feeds)] IN
            /\ config.type = l.type
            /\ IF l.port # NoPort THEN config.port = l.port /\ config.file = NoString
               ELSE /\ config.file.name = l.word
                    /\ config.port = PortUpto(f, LastIn(feeds), PortFound(files, file))

\* The two strings that Config_destroy frees are never the same one, and are not those of a
\* file that was given up, which are freed already.
StringsOwned ==
  \A s \in {config.file, config.command} :
    s # NoString => s.id[1] = file /\ config.file # config.command

\* To take the last line a second time changes nothing of what the file says.
Content(c) == <<c.queue, c.type, c.port, c.file.name, c.command.name>>
RereadHarmless == [][Reread => Content(config') = Content(config)]_vars

\* What a client says has a line, wherever it is cut, that takes rule 0 away or replaces it.
EditsZero(says) ==
  \E j, k \in DOMAIN says :
    LET args == SubSeq(says, j + 2, k) IN
    \/ says[j] = "remove" /\ args # <<>> /\ args[1] \in Digits /\ Number(args) = 0
    \/ says[j] = "replace" /\ args \in DOMAIN Rules /\ Rules[args].line = 0

\* The traffic of a TCP interface goes untouched, by rule 0, as long as no client said to take
\* that rule away or to replace it: to add a rule there is refused.
Whitelisted ==
  stage = "serving" /\ config.type = "tcp" /\ (\A k \in 1 .. client : ~EditsZero(script[k].says)) =>
    config.queue[0] = <<"with me port", config.port>>

\* The commands that are run on a connection, or of a pipe, are parts of what was sent there and
\* not of what former clients left, and none comes after a quit.  A part may be less than a command
\* that was sent, where read cut it, or more, where the line of a writer joins that of the next.
OwnCommands ==
  \A i \in DOMAIN ran :
    /\ \E j, k \in 1 .. Len(said) : ran[i] = SubSeq(said, j, k)
    /\ ran[i][1] \in {"quit", "exit"} => i = Len(ran)

\* A quit or an exit that begins a line, and one that read cut.
Asked(c) == \E i \in 1 .. Len(c) - 1 :
              /\ c[i] \in {"quit", "exit"} /\ c[i + 1] = ":"
              /\ i > 1 => c[i - 1] = "newline"
CutShort == buffer # <<>> /\ buffer[Len(buffer)] \in {"quit", "exit"}

\* A client that says quit or exit is let go, whatever it says before and wherever that is cut,
\* unless a read ends within that very word: then neither part of it is a command.
ClientLetGo == (conn = "reading" /\ Asked(stream)) ~> (conn # "reading" \/ CutShort)
=============================================================================
