-------------------------------- MODULE Tool --------------------------------
(***************************************************************************)
(* v2tool: Run (dev-tools/v2tool/server) starts the client, then the       *)
(* server, and waits for the client to end, while the server answers its   *)
(* check-ins with Manager.  The client is external: it reads where to      *)
(* connect from its standard input, keeps the units it is told, reports    *)
(* their states, and its units and streams may end at any time.            *)
(***************************************************************************)
EXTENDS Manager

CONSTANT MaxEvents  \* bound: states of units nobody asked for, lost streams

VARIABLES
  phase,     \* Run: the call it is at, or "exited", "failed", "panicked"
  stdin,     \* the client's: "open", "closed"
  info,      \* the connection information is on it
  listening, \* the server listens
  client,    \* "none", "reading" its input, "running", "ended"
  stream,    \* the stream the client uses, 0 before the first
  told,      \* unit of the client -> what it was last told of it
  reports,   \* unit of the client -> the state it reports
  stopped,   \* the units the client was ever told to stop
  events

toolVars == <<phase, stdin, info, listening>>
clientVars == <<client, stream, told, reports, stopped, events>>
vars == <<managerVars, serverVars, toolVars, clientVars>>

ASSUME ToolAssumption == MaxEvents \in Nat

Init ==
  /\ ManagerInit
  /\ phase = "config" /\ stdin = "open" /\ info = FALSE /\ listening = FALSE
  /\ client = "none" /\ stream = 0 /\ told = <<>> /\ reports = <<>> /\ stopped = {} /\ events = 0

Ended == {"exited", "failed", "panicked"}

-----------------------------------------------------------------------------
(* Run                                                                       *)

RunFrame == UNCHANGED <<managerVars, mut, handler, up, down, stream, told, reports, stopped, events>>

\* The process is gone, and its end of the pipe; the client is left alone.
Fails(outcome) ==
  /\ phase' = outcome /\ stdin' = "closed" /\ listening' = FALSE
  /\ UNCHANGED <<info, client, link>> /\ RunFrame

\* The error of InputManagerFromCfg is overwritten: without a manager the call
\* of StartInputProcess panics.
LoadConfig ==
  /\ phase = "config"
  /\ \/ phase' = "process" /\ UNCHANGED <<stdin, info, listening, client, link>> /\ RunFrame
     \/ Fails("panicked")

StartInputProcess ==
  /\ phase = "process"
  /\ \/ /\ phase' = "server" /\ client' = "reading"
        /\ UNCHANGED <<stdin, info, listening, link>> /\ RunFrame
     \/ Fails("failed")

NewToolServer ==
  /\ phase = "server"
  /\ \/ phase' = "listen" /\ UNCHANGED <<stdin, info, listening, client, link>> /\ RunFrame
     \/ Fails("failed")

\* Mutant: the client is told where the server is before it listens.
StartEarly ==
  /\ phase = "listen" /\ phase' = "write" /\ info' = TRUE /\ stdin' = "closed"
  /\ UNCHANGED <<listening, client, link>> /\ RunFrame

StartServer ==
  /\ phase = "listen"
  /\ \/ phase' = "write" /\ listening' = TRUE /\ UNCHANGED <<stdin, info, client, link>> /\ RunFrame
     \/ Fails("failed")

\* Mutant: the input of the client is left open.
WriteNoClose == client # "ended" /\ info' = TRUE /\ UNCHANGED stdin

\* The input is closed for the client to see its end.
WriteToClient == client # "ended" /\ info' = TRUE /\ stdin' = "closed"

writeConnInfo ==
  /\ phase = "write"
  /\ \/ /\ WriteToClient /\ phase' = "wait"
        /\ UNCHANGED <<listening, client, link>> /\ RunFrame
     \/ Fails("failed")

WaitForClientClose ==
  /\ phase = "wait" /\ client = "ended" /\ phase' = "exited" /\ listening' = FALSE
  /\ UNCHANGED <<stdin, info, client, link>> /\ RunFrame

-----------------------------------------------------------------------------
(* The client                                                                *)

ClientFrame == UNCHANGED <<managerVars, mut, toolVars>>

\* It reads its input to the end; with nothing on it there is no V2.
ReadInfo ==
  /\ client = "reading" /\ stdin = "closed"
  /\ client' = IF info THEN "running" ELSE "ended"
  /\ ClientFrame /\ UNCHANGED <<handler, link, up, down, stream, told, reports, stopped, events>>

ClientEnds ==
  /\ client \in {"reading", "running"} /\ client' = "ended"
  /\ link' = [s \in Streams |-> IF link[s] = "open" THEN "closed" ELSE link[s]]
  /\ ClientFrame /\ UNCHANGED <<handler, up, down, stream, told, reports, stopped, events>>

Connected == client = "running" /\ stream # 0 /\ link[stream] = "open"

Connect ==
  /\ client = "running" /\ listening /\ ~Connected /\ stream < NumStreams
  /\ stream' = stream + 1 /\ link' = [link EXCEPT ![stream'] = "open"]
  /\ handler' = [handler EXCEPT ![stream'] = [Idle EXCEPT !.pc = "recv"]]
  /\ ClientFrame /\ UNCHANGED <<client, up, down, told, reports, stopped, events>>

Report ==
  /\ Connected /\ up[stream] = None /\ up' = [up EXCEPT ![stream] = reports]
  /\ ClientFrame /\ UNCHANGED <<client, handler, link, down, stream, told, reports, stopped, events>>

\* Units it is not told of are removed, new ones are starting.
Apply ==
  /\ Connected /\ down[stream] # None
  /\ told' = down[stream] /\ down' = [down EXCEPT ![stream] = None]
  /\ reports' = [u \in DOMAIN told' |-> IF u \in DOMAIN told THEN reports[u] ELSE "RUNNING"]
  /\ stopped' = stopped \cup {u \in DOMAIN told' : told'[u].state = "STOPPED"}
  /\ ClientFrame /\ UNCHANGED <<client, handler, link, up, stream, events>>

UnitStops(u) ==
  /\ client = "running" /\ u \in DOMAIN told /\ told[u].state = "STOPPED" /\ reports[u] # "STOPPED"
  /\ reports' = [reports EXCEPT ![u] = "STOPPED"]
  /\ ClientFrame /\ UNCHANGED <<client, handler, link, up, down, stream, told, stopped, events>>

UnitChanges(u) ==
  /\ client = "running" /\ u \in DOMAIN told /\ events < MaxEvents /\ events' = events + 1
  /\ \E state \in UnitStates \ {reports[u]} : reports' = [reports EXCEPT ![u] = state]
  /\ ClientFrame /\ UNCHANGED <<client, handler, link, up, down, stream, told, stopped>>

StreamLost ==
  /\ Connected /\ events < MaxEvents /\ events' = events + 1
  /\ link' = [link EXCEPT ![stream] = "closed"]
  /\ up' \in {up, [up EXCEPT ![stream] = None]} /\ down' = [down EXCEPT ![stream] = None]
  /\ ClientFrame /\ UNCHANGED <<client, handler, stream, told, reports, stopped>>

-----------------------------------------------------------------------------
Serve == phase \notin Ended /\ UNCHANGED <<toolVars, clientVars>>

\* The clock of the rules starts with NewToolServer.
TimePasses == phase \in {"listen", "write", "wait"} /\ UNCHANGED <<toolVars, clientVars>>

Run ==
  \/ LoadConfig \/ StartInputProcess \/ NewToolServer \/ StartServer \/ writeConnInfo
  \/ WaitForClientClose

Terminated == phase \in Ended /\ client \in {"none", "ended"} /\ UNCHANGED vars

Next ==
  \/ Run
  \/ \E s \in Streams : Handle(s) /\ Serve
  \/ \E u \in Units, which \in {"start", "stop"} : Elapses(u, which) /\ TimePasses
  \/ ReadInfo \/ ClientEnds \/ Connect \/ Report \/ Apply \/ StreamLost
  \/ \E u \in Units : UnitStops(u) \/ UnitChanges(u)
  \/ Terminated

\* Run and the handlers go on; time passes; the client reads, connects,
\* reports, applies what it is told, and its units stop when told.
Fairness ==
  /\ WF_vars(Run)
  /\ \A s \in Streams : WF_vars(Handle(s) /\ Serve)
  /\ \A u \in Units : /\ WF_vars((\E which \in {"start", "stop"} : Elapses(u, which)) /\ TimePasses)
                      /\ WF_vars(UnitStops(u))
  /\ WF_vars(ReadInfo) /\ WF_vars(Connect) /\ WF_vars(Report) /\ WF_vars(Apply)

Spec == Init /\ [][Next]_vars /\ Fairness

-----------------------------------------------------------------------------
(* Properties *)

TypeOK ==
  /\ passed \subseteq Units \X {"start", "stop"} /\ done \in [Units -> BOOLEAN]
  /\ \A u \in Units : expected[u] = IF done[u] THEN [state |-> "STOPPED", idx |-> 1]
                                    ELSE [state |-> "HEALTHY", idx |-> 0]
  /\ mut \in 0..NumStreams /\ stream \in 0..NumStreams /\ events \in 0..MaxEvents
  /\ \A s \in Streams : /\ link[s] \in {"none", "open", "closed"}
                        /\ up[s] \in {None} \cup PartialFcns(UnitStates)
                        /\ down[s] \in {None} \cup PartialFcns(Expected)
                        /\ handler[s].pc \in {"off", "recv", "lock", "look", "decide", "send"}
  /\ told \in PartialFcns(Expected) /\ stopped \subseteq Units /\ reports \in [DOMAIN told -> UnitStates]

\* Who connects finds the server listening (tool.go:80-86).
ServerFirst == client = "running" => listening

\* A client once told to stop a unit is not told to run it again, whatever it
\* reports and however often it connects (manager.go:150, 174-178).
StopIsFinal == \A u \in stopped \cap DOMAIN told : told[u].state = "STOPPED"

Connecting == client = "running" /\ (Connected \/ stream < NumStreams)

\* In the end a client that stays connected runs the units whose start rule
\* holds and whose stop rule does not, and none that was to stop.
RightUnits(u) ==
  IF StartPasses(u) /\ StopPasses(u)
  THEN done[u] /\ (u \in DOMAIN told => told[u] = expected[u])
  ELSE StartPasses(u) => (~done[u] /\ u \in DOMAIN told /\ told[u] = expected[u])
UnitsFollowRules == \A u \in Units : <>[](Connecting => RightUnits(u))

\* A client that waits for its input gets the end of it, and the tool ends
\* when the client has (manager.go:88, 94).
NobodyWaits ==
  /\ client = "reading" ~> client # "reading"
  /\ client = "ended" ~> phase \in Ended
=============================================================================
