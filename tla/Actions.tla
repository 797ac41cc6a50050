------------------------------ MODULE Actions ------------------------------
(***************************************************************************)
(* The V2 actions of the client (pkg/client/client_v2.go:823-1118): the    *)
(* retry loop, the goroutine that receives action requests (the reader),   *)
(* one goroutine per action or diagnostics request it starts, the          *)
(* goroutine that sends responses (the writer), and the queue of responses *)
(* (actionResults) that outlives the streams.  The agent, the stream and   *)
(* the integration are the environment.                                    *)
(*                                                                         *)
(* A response is the request it answers, a status and a result.  The code  *)
(* pushes a given result for a request at most once, so the queue is a set *)
(* with a capacity; its order is left out, since the order of responses    *)
(* does not matter (elastic-agent-client.proto:48-50), and that the        *)
(* channel is first in first out is kept as fairness.                      *)
(*                                                                         *)
(* Requests are for one unit id and one action name, and their type, level *)
(* and params are told apart when they are used.  Units of that id         *)
(* follow each other in c.units, as the check-in removes and adds them,    *)
(* and each has its own action and hook; a client-level hook has the same  *)
(* name as theirs.                                                         *)
(***************************************************************************)
EXTENDS Naturals, FiniteSets

CONSTANTS
  Reqs,          \* requests
  BadDiagParams, \* params of a diagnostics request may be no valid JSON
  Cap,           \* capacity of actionResults (100 in the code)
  MaxEvents,     \* bound: failed dials, broken or closed streams, units added
                 \* and removed, calls that register and unregister
  MaxStarts,     \* bound: calls of Start
  None

Results == {"unknown type", "unit not found", "action undefined", "bad params",
            "error", "unmarshalable", "result", "unit hook", "client hook", "no hook"}
Response == [id : Reqs, ok : BOOLEAN, result : Results]

ASSUME ActionsAssumption ==
  /\ IsFiniteSet(Reqs) /\ BadDiagParams \in BOOLEAN /\ Cap \in Nat \ {0}
  /\ MaxEvents \in Nat /\ MaxStarts \in Nat \ {0} /\ None \notin Reqs \cup Response

VARIABLES
  unsent, wire,  \* requests the agent has not sent; the one on the stream
  dropped,       \* requests lost with a stream before the client read them
  lost,          \* requests whose response went with the queue of a Start
  rpc, rreq,     \* the reader: where it is, the request it handles
  rout, rnext,   \* the response it pushes, and where it goes then
  rhook, rfound, \* the client-level hook and the unit it found
  unit, added,   \* the unit in c.units, 0 if there is none; units so far
  handlers,      \* unit -> what it has registered: "action", "hook"
  clientHook,    \* the hook of the client is registered
  since,         \* request -> the first unit that was there since its receipt
  work,          \* request -> where its goroutine is
  runs,          \* request -> the unit whose action or hook it calls, or 0
  answer,        \* request -> the response its goroutine pushes
  queue,         \* actionResults
  wpc, wres,     \* the writer: where it is, actionResponse
  accepted,      \* responses Send took
  lpc, ctx, spc, starts, \* the retry loop, its context, Stop, Start
  link, known,   \* the stream; the agent has its token
  events

readerVars == <<rpc, rreq, rout, rnext, rhook, rfound, since>>
registryVars == <<unit, added, handlers, clientHook>>
workVars == <<work, answer, runs>>
writerVars == <<wpc, wres, accepted>>
loopVars == <<lpc, ctx, spc, starts>>
agentVars == <<unsent, wire, dropped>>
vars == <<agentVars, readerVars, registryVars, workVars, queue, writerVars, loopVars, link, known, lost, events>>

Ok(r, result) == [id |-> r, ok |-> TRUE, result |-> result]
Failed(r, why) == [id |-> r, ok |-> FALSE, result |-> why]

Units == 1..MaxEvents + 1

\* One more of what MaxEvents bounds.
Event == events < MaxEvents /\ events' = events + 1

\* The first check-in has come, and the integration has done what it does with
\* a new unit, or has not.
Init ==
  /\ unsent = Reqs /\ wire = None /\ dropped = {}
  /\ rpc = "off" /\ rreq = None /\ rout = None /\ rnext = "recv"
  /\ rhook = FALSE /\ rfound = 0 /\ since = [r \in Reqs |-> 0]
  /\ unit = 1 /\ added = 1
  /\ handlers \in {[u \in Units |-> IF u = 1 THEN h ELSE {}] : h \in {{}, {"action", "hook"}}}
  /\ clientHook = FALSE /\ runs = [r \in Reqs |-> 0]
  /\ work = [r \in Reqs |-> "none"] /\ answer = [r \in Reqs |-> None]
  /\ queue = {}
  /\ wpc = "off" /\ wres = None /\ accepted = {}
  /\ lpc = "check" /\ ctx = "live" /\ spc = "none" /\ starts = 1 /\ lost = {}
  /\ link = "none" /\ known = FALSE /\ events = 0

-----------------------------------------------------------------------------
(* The retry loop: startActions and actionRoundTrip.  The queue and the     *)
(* goroutines of requests outlive it.                                       *)

LoopFrame == UNCHANGED <<unsent, registryVars, workVars, queue, accepted, starts, lost>>

\* Mutant: for { ... }
LoopForever == TRUE
LoopContinues == ctx = "live"

LoopCheck ==
  /\ lpc = "check" /\ lpc' = IF LoopContinues THEN "dial" ELSE "exited"
  /\ LoopFrame
  /\ UNCHANGED <<wire, dropped, readerVars, wpc, wres, ctx, spc, link, known, events>>

\* Mutant: each stream has a queue of its own.
ConnectNewQueue ==
  /\ lpc = "dial" /\ ctx = "live"
  /\ lpc' = "running" /\ link' = "open" /\ rpc' = "recv" /\ wpc' = "init" /\ wres' = None
  /\ queue' = {} /\ UNCHANGED <<unsent, registryVars, workVars, accepted, starts, lost>>
  /\ UNCHANGED <<wire, dropped, rreq, rout, rnext, rhook, rfound, since, ctx, spc, known, events>>

Connect ==
  /\ lpc = "dial" /\ ctx = "live"
  /\ lpc' = "running" /\ link' = "open" /\ rpc' = "recv" /\ wpc' = "init" /\ wres' = None
  /\ LoopFrame /\ UNCHANGED <<wire, dropped, rreq, rout, rnext, rhook, rfound, since, ctx, spc, known, events>>

ConnectFails ==
  /\ lpc = "dial"
  /\ \/ ctx = "cancelled" /\ UNCHANGED events
     \/ Event
  /\ lpc' = "err"
  /\ LoopFrame /\ UNCHANGED <<wire, dropped, readerVars, wpc, wres, ctx, spc, link, known>>

\* wg.Wait() of actionRoundTrip; a request still on the stream is gone.
RoundTripDone ==
  /\ lpc = "running" /\ rpc = "done" /\ wpc = "done"
  /\ lpc' = "backoff" /\ rpc' = "off" /\ wpc' = "off"
  /\ link' = "none" /\ known' = FALSE
  /\ wire' = None /\ dropped' = dropped \cup ({wire} \ {None})
  /\ LoopFrame /\ UNCHANGED <<rreq, rout, rnext, rhook, rfound, since, wres, ctx, spc, events>>

Backoff ==
  /\ lpc = "backoff" /\ lpc' = "check"
  /\ LoopFrame
  /\ UNCHANGED <<wire, dropped, readerVars, wpc, wres, ctx, spc, link, known, events>>

Stop ==
  /\ spc = "none" /\ spc' = "waiting" /\ ctx' = "cancelled"
  /\ LoopFrame /\ UNCHANGED <<wire, dropped, readerVars, wpc, wres, lpc, link, known, events>>

StopReturns ==
  /\ spc = "waiting" /\ lpc = "exited" /\ spc' = "returned"
  /\ LoopFrame
  /\ UNCHANGED <<wire, dropped, readerVars, wpc, wres, lpc, ctx, link, known, events>>

\* startActions makes a new queue: what is in the old one, or will be put in
\* it by requests that still run, is sent by nobody.
Start ==
  /\ spc = "returned" /\ starts < MaxStarts
  /\ spc' = "none" /\ ctx' = "live" /\ lpc' = "check" /\ starts' = starts + 1
  /\ queue' = {} /\ answer' = [r \in Reqs |-> None]
  /\ work' = [r \in Reqs |-> IF work[r] = "none" THEN "none" ELSE "done"]
  /\ lost' = lost \cup {x.id : x \in queue} \cup {r \in Reqs : work[r] \notin {"none", "done"}}
  /\ UNCHANGED <<agentVars, readerVars, registryVars, runs, writerVars, link, known, events>>

-----------------------------------------------------------------------------
(* Units and what is registered with them                                   *)

RegistryFrame == UNCHANGED <<agentVars, readerVars, workVars, queue, writerVars, loopVars, link, known, lost>>

\* syncUnits, under unitsMu; a new unit has nothing registered.
AddUnit ==
  /\ unit = 0 /\ Event /\ added' = added + 1 /\ unit' = added'
  /\ RegistryFrame /\ UNCHANGED <<handlers, clientHook>>

RemoveUnit ==
  /\ unit # 0 /\ Event /\ unit' = 0
  /\ RegistryFrame /\ UNCHANGED <<added, handlers, clientHook>>

\* The integration registers with a unit it was given, removed or not; an
\* action can be unregistered, a hook cannot.
RegisterAction(u) ==
  /\ u <= added /\ Event
  /\ handlers' = [handlers EXCEPT ![u] = IF "action" \in @ THEN @ \ {"action"} ELSE @ \cup {"action"}]
  /\ RegistryFrame /\ UNCHANGED <<unit, added, clientHook>>

RegisterUnitHook(u) ==
  /\ u <= added /\ Event /\ "hook" \notin handlers[u]
  /\ handlers' = [handlers EXCEPT ![u] = @ \cup {"hook"}]
  /\ RegistryFrame /\ UNCHANGED <<unit, added, clientHook>>

RegisterDiagnosticHook ==
  /\ ~clientHook /\ Event /\ clientHook' = TRUE
  /\ RegistryFrame /\ UNCHANGED <<unit, added, handlers>>

-----------------------------------------------------------------------------
(* The reader: actionsReader, tryPerformAction, tryPerformDiagnostics.  A    *)
(* local that is dead has its first value again.                             *)

ReaderFrame == UNCHANGED <<unsent, dropped, registryVars, writerVars, loopVars, link, known, lost, events>>

Recv ==
  /\ rpc = "recv" /\ wire # None
  /\ rreq' = wire /\ wire' = None /\ rpc' = "dispatch"
  /\ since' = [since EXCEPT ![wire] = IF unit # 0 THEN unit ELSE added + 1]
  /\ ReaderFrame /\ UNCHANGED <<rout, rnext, rhook, rfound, workVars, queue>>

RecvFails ==
  /\ rpc = "recv"
  /\ \/ link = "closed" /\ wire = None /\ rpc' = "done"
     \/ (link = "broken" \/ ctx = "cancelled") /\ rpc' = "err"
  /\ ReaderFrame /\ UNCHANGED <<wire, rreq, rout, rnext, rhook, rfound, since, workVars, queue>>

DispatchFrame == ReaderFrame /\ UNCHANGED <<wire, rreq, since, answer, queue>>

\* The reader goes to pc.
Goes(pc) == rpc' = pc /\ UNCHANGED <<rout, rnext, work, runs>>

\* The reader pushes x, which may block, and then goes to pc.
Push(x, pc) == rpc' = "put" /\ rout' = x /\ rnext' = pc /\ UNCHANGED <<work, runs>>

\* It starts a goroutine for the request, which uses unit u, and receives
\* again.
Spawn(u) ==
  /\ rpc' = "recv" /\ work' = [work EXCEPT ![rreq] = "exec"] /\ runs' = [runs EXCEPT ![rreq] = u]
  /\ UNCHANGED <<rout, rnext>>

UnknownType ==
  /\ rpc = "dispatch"
  /\ Push(Failed(rreq, "unknown type"), "recv")
  /\ DispatchFrame /\ UNCHANGED <<rhook, rfound>>

TryPerformAction ==
  /\ rpc = "dispatch" /\ Goes("find unit")
  /\ DispatchFrame /\ UNCHANGED <<rhook, rfound>>

\* Invalid params are answered, and the request goes on all the same.
TryPerformDiagnostics ==
  /\ rpc = "dispatch"
  /\ \E bad \in {FALSE, BadDiagParams} :
       IF bad THEN Push(Failed(rreq, "bad params"), "collect") ELSE Goes("collect")
  /\ DispatchFrame /\ UNCHANGED <<rhook, rfound>>

\* The level of the request says whether it is for the hooks of the client, of
\* the unit, or both.
CollectHooks ==
  /\ rpc = "collect"
  /\ \/ Spawn(0) /\ UNCHANGED rhook /\ answer' = [answer EXCEPT ![rreq] =
             Ok(rreq, IF clientHook THEN "client hook" ELSE "no hook")]
     \/ Goes("find hooks") /\ rhook' \in {clientHook, FALSE} /\ UNCHANGED answer
  /\ ReaderFrame /\ UNCHANGED <<wire, rreq, since, queue, rfound>>

\* Mutant: a unit is found as long as the integration has its action.
FindRegistered ==
  LET found == {u \in 1..added : "action" \in handlers[u]} IN
  IF found # {} THEN CHOOSE u \in found : TRUE ELSE unit
FoundUnit == unit

\* findUnit, under unitsMu: for an action, or for hooks; the unit may be
\* removed before it is used.
FindUnit ==
  /\ rpc \in {"find unit", "find hooks"}
  /\ IF FoundUnit = 0 THEN Push(Failed(rreq, "unit not found"), "recv") /\ rfound' = 0 /\ rhook' = FALSE
     ELSE Goes(IF rpc = "find unit" THEN "action" ELSE "hooks") /\ rfound' = FoundUnit /\ UNCHANGED rhook
  /\ DispatchFrame

\* The action is looked up under amx, and may be unregistered before it runs.
LookupAction ==
  /\ rpc = "action" /\ rfound' = 0
  /\ IF "action" \notin handlers[rfound] THEN Push(Failed(rreq, "action undefined"), "recv")
     ELSE Spawn(rfound) \/ Push(Failed(rreq, "bad params"), "recv")
  /\ DispatchFrame /\ UNCHANGED rhook

\* The hook of the unit replaces that of the client.
UnitHooks ==
  /\ rpc = "hooks" /\ rfound' = 0 /\ rhook' = FALSE /\ Spawn(rfound)
  /\ answer' = [answer EXCEPT ![rreq] =
       Ok(rreq, IF "hook" \in handlers[rfound] THEN "unit hook" ELSE IF rhook THEN "client hook" ELSE "no hook")]
  /\ ReaderFrame /\ UNCHANGED <<wire, rreq, since, queue>>

\* Mutant: a queue without bound.
RoomAlways == TRUE
\* actionResults <- response: waits while the queue is full.
Room == Cardinality(queue) < Cap

Put ==
  /\ rpc = "put" /\ Room
  /\ queue' = queue \cup {rout} /\ rpc' = rnext /\ rout' = None
  /\ ReaderFrame /\ UNCHANGED <<wire, rreq, rnext, rhook, rfound, since, workVars>>

-----------------------------------------------------------------------------
(* The goroutine of request r *)

WorkerFrame == UNCHANGED <<agentVars, readerVars, registryVars, runs, writerVars, loopVars, link, known, lost, events>>

\* The hooks are called; a diagnostics request always succeeds.
CallHooks(r) ==
  /\ work[r] = "exec" /\ answer[r] # None /\ work' = [work EXCEPT ![r] = "put"]
  /\ WorkerFrame /\ UNCHANGED <<answer, queue>>

\* Execute returns a result, an error, or what cannot be marshalled; the last
\* goes to errCh first.
Execute(r) ==
  /\ work[r] = "exec" /\ answer[r] = None
  /\ \/ answer' = [answer EXCEPT ![r] = Ok(r, "result")] /\ work' = [work EXCEPT ![r] = "put"]
     \/ answer' = [answer EXCEPT ![r] = Failed(r, "error")] /\ work' = [work EXCEPT ![r] = "put"]
     \/ answer' = [answer EXCEPT ![r] = Failed(r, "unmarshalable")] /\ work' = [work EXCEPT ![r] = "err"]
  /\ WorkerFrame /\ UNCHANGED queue

WorkerPut(r) ==
  /\ work[r] = "put" /\ Room
  /\ queue' = queue \cup {answer[r]} /\ work' = [work EXCEPT ![r] = "done"]
  /\ answer' = [answer EXCEPT ![r] = None]
  /\ WorkerFrame

-----------------------------------------------------------------------------
(* The writer: actionsWriter *)

WriterFrame == UNCHANGED <<agentVars, readerVars, registryVars, workVars, loopVars, lost, events>>

CloseSend == link' = IF link = "open" THEN "halfclosed" ELSE link

\* Send gives the message to the stream.
CanSend == link = "open" /\ ctx = "live"
\* Send fails: the stream is over.  A message that cannot be encoded or is too
\* large ends it, as Break does.
SendFails == link \in {"closed", "broken"} \/ ctx = "cancelled"

\* The first message of a stream tells the agent the token.
SendInit ==
  /\ wpc = "init"
  /\ \/ CanSend /\ wpc' = "select" /\ known' = TRUE
     \/ SendFails /\ wpc' = "err" /\ UNCHANGED known
  /\ WriterFrame /\ UNCHANGED <<queue, wres, accepted, link>>

TakeResponse(x) ==
  /\ wpc = "select" /\ x \in queue
  /\ queue' = queue \ {x} /\ wres' = x /\ wpc' = "send"
  /\ WriterFrame /\ UNCHANGED <<accepted, link, known>>

ReaderDone ==
  /\ wpc = "select" /\ rpc = "done"
  /\ wpc' = "done" /\ CloseSend
  /\ WriterFrame /\ UNCHANGED <<queue, wres, accepted, known>>

SendResponse ==
  /\ wpc = "send"
  /\ \/ /\ CanSend
        /\ accepted' = accepted \cup {wres} /\ wres' = None /\ wpc' = "select"
     \/ SendFails /\ wpc' = "err" /\ UNCHANGED <<accepted, wres>>
  /\ WriterFrame /\ UNCHANGED <<queue, link, known>>

\* Mutant: the response in hand is dropped with the stream.
RequeueNot ==
  /\ wpc = "requeue"
  /\ wres' = None /\ wpc' = "done" /\ CloseSend
  /\ WriterFrame /\ UNCHANGED <<queue, accepted, known>>

\* After its error went to errCh, the writer pushes the response it could not
\* send back to the queue it alone empties.
Requeue ==
  /\ wpc = "requeue" /\ Room
  /\ queue' = queue \cup {wres} /\ wres' = None /\ wpc' = "done" /\ CloseSend
  /\ WriterFrame /\ UNCHANGED <<accepted, known>>

-----------------------------------------------------------------------------
(* The integration, the agent and the stream *)

\* The integration takes an error from errCh: the sender goes on.
TakeError ==
  /\ \/ lpc = "err" /\ lpc' = "backoff" /\ UNCHANGED <<rpc, wpc, link, work>>
     \/ rpc = "err" /\ rpc' = "done" /\ UNCHANGED <<lpc, wpc, link, work>>
     \/ wpc = "err" /\ wres # None /\ wpc' = "requeue" /\ UNCHANGED <<lpc, rpc, link, work>>
     \/ wpc = "err" /\ wres = None /\ wpc' = "done" /\ CloseSend /\ UNCHANGED <<lpc, rpc, work>>
     \/ /\ \E r \in Reqs : work[r] = "err" /\ work' = [work EXCEPT ![r] = "put"]
        /\ UNCHANGED <<lpc, rpc, wpc, link>>
  /\ UNCHANGED <<agentVars, rreq, rout, rnext, rhook, rfound, since, registryVars, answer, runs, queue, wres, accepted, ctx, spc, starts,
                 known, lost, events>>

AgentFrame == UNCHANGED <<readerVars, registryVars, workVars, queue, writerVars, loopVars, known, lost>>
Streaming == link \in {"open", "halfclosed"}

\* The agent sends each request once, on a stream whose client it knows.
AgentSend(r) ==
  /\ Streaming /\ known /\ wire = None /\ r \in unsent
  /\ wire' = r /\ unsent' = unsent \ {r}
  /\ AgentFrame /\ UNCHANGED <<dropped, link, events>>

AgentClose ==
  /\ \/ link = "open" /\ Event
     \/ link = "halfclosed" /\ UNCHANGED events
  /\ link' = "closed"
  /\ AgentFrame /\ UNCHANGED agentVars

Break ==
  /\ Streaming /\ Event
  /\ link' = "broken" /\ wire' = None /\ dropped' = dropped \cup ({wire} \ {None})
  /\ AgentFrame /\ UNCHANGED unsent

-----------------------------------------------------------------------------
Loop == LoopCheck \/ Connect \/ ConnectFails \/ RoundTripDone \/ Backoff \/ StopReturns
Reader ==
  \/ Recv \/ RecvFails \/ TryPerformAction \/ TryPerformDiagnostics \/ CollectHooks \/ FindUnit
  \/ LookupAction \/ UnitHooks \/ UnknownType \/ Put
Registry == AddUnit \/ RemoveUnit \/ RegisterDiagnosticHook \/ \E u \in Units : RegisterAction(u) \/ RegisterUnitHook(u)
Worker(r) == Execute(r) \/ CallHooks(r) \/ WorkerPut(r)
Writer ==
  \/ SendInit \/ ReaderDone \/ SendResponse \/ Requeue
  \/ \E x \in queue : TakeResponse(x)
Agent == AgentClose \/ Break \/ \E r \in Reqs : AgentSend(r)

\* Stopped, with no Start left within the bound, and no request runs.
Terminated ==
  /\ spc = "returned" /\ starts = MaxStarts
  /\ \A r \in Reqs : work[r] \in {"none", "done"}
  /\ UNCHANGED vars

Next ==
  \/ Loop \/ Stop \/ Start \/ Registry \/ Reader \/ Writer \/ TakeError \/ Agent \/ Terminated
  \/ \E r \in Reqs : Worker(r)

Spec == Init /\ [][Next]_vars

-----------------------------------------------------------------------------
(* Properties *)

\* Every variable has its type, and the queue keeps to its capacity.
TypeOK ==
  /\ unsent \subseteq Reqs /\ wire \in Reqs \cup {None} /\ dropped \subseteq Reqs /\ lost \subseteq Reqs
  /\ rpc \in {"off", "recv", "dispatch", "collect", "find unit", "find hooks", "action", "hooks", "put", "err", "done"}
  /\ rreq \in Reqs \cup {None} /\ rout \in Response \cup {None}
  /\ rnext \in {"recv", "collect"} /\ rhook \in BOOLEAN /\ rfound \in 0..added /\ unit \in {0, added}
  /\ handlers \in [Units -> SUBSET {"action", "hook"}] /\ clientHook \in BOOLEAN
  /\ runs \in [Reqs -> 0..added] /\ since \in [Reqs -> 0..MaxEvents + 2]
  /\ work \in [Reqs -> {"none", "exec", "err", "put", "done"}]
  /\ answer \in [Reqs -> Response \cup {None}]
  /\ queue \subseteq Response /\ Cardinality(queue) <= Cap
  /\ wpc \in {"off", "init", "select", "send", "err", "requeue", "done"}
  /\ wres \in Response \cup {None} /\ accepted \subseteq Response
  /\ lpc \in {"check", "dial", "err", "running", "backoff", "exited"}
  /\ ctx \in {"live", "cancelled"} /\ spc \in {"none", "waiting", "returned"}
  /\ link \in {"none", "open", "halfclosed", "closed", "broken"} /\ known \in BOOLEAN

\* The reader has request rreq, or only the response to it.
Handling == rpc \in {"dispatch", "collect", "find unit", "find hooks", "action", "hooks"}

\* Where request r, or a response to it, is.
Places(r) ==
  {<<"agent", x>> : x \in unsent \cap {r}} \cup
  {<<"wire", x>> : x \in {wire} \cap {r}} \cup
  {<<"dropped", x>> : x \in dropped \cap {r}} \cup
  {<<"lost", x>> : x \in lost \cap {r}} \cup
  {<<"reader", x>> : x \in {y \in {rreq} : Handling /\ y = r}} \cup
  {<<"reader", x>> : x \in {y \in {rout} : rpc = "put" /\ y.id = r}} \cup
  {<<"worker", x>> : x \in {y \in {r} : work[r] \in {"exec", "err", "put"}}} \cup
  {<<"queue", x>> : x \in {y \in queue : y.id = r}} \cup
  {<<"writer", x>> : x \in {y \in {wres} : wres # None /\ y.id = r}} \cup
  {<<"sent", x>> : x \in {y \in accepted : y.id = r}}

\* No response is lost or made twice (client_v2.go:826-829, 950-954): through
\* failed sends, ended streams and reconnects every request, or its one
\* response, is in exactly one place.
Custody == \A r \in Reqs : Cardinality(Places(r)) = 1

\* What a request calls belongs to a unit that was in the client at some time
\* since the request was received: a unit removed before is never called, though
\* one removed after may still be (client_v2.go:959-961, 1069-1071).
NoRemovedUnit == \A r \in Reqs : runs[r] # 0 => runs[r] >= since[r]

\* A request is answered once (elastic-agent-client.proto:441-442).
AtMostOneResponse ==
  \A r \in Reqs : Cardinality({x \in queue \cup accepted : x.id = r}) <= 1

-----------------------------------------------------------------------------
(* Liveness.  Every goroutine that can run runs, and an action returns.  The *)
(* integration must read errors (client_v2.go:222).  The queue is first in   *)
(* first out: a response in it is taken after those before it.  The agent    *)
(* ends a stream the client has closed.                                      *)
Fairness ==
  /\ WF_vars(LoopCheck) /\ WF_vars(Connect) /\ WF_vars(ConnectFails /\ ctx = "cancelled")
  /\ WF_vars(RoundTripDone) /\ WF_vars(Backoff) /\ WF_vars(StopReturns)
  /\ WF_vars(Reader) /\ \A r \in Reqs : WF_vars(Worker(r))
  /\ WF_vars(Writer)
  /\ \A r \in Reqs : SF_vars(\E x \in queue : x.id = r /\ TakeResponse(x))
  /\ WF_vars(TakeError) /\ WF_vars(AgentClose /\ events' = events)

FairSpec == Spec /\ Fairness

\* A request the client received is answered: Send takes a response to it,
\* on this stream or on a later one, unless the client is stopped
\* (client_v2.go:826-828).
EveryRequestAnswered ==
  \A r \in Reqs :
    (rpc = "dispatch" /\ rreq = r) ~>
      (ctx = "cancelled" \/ \E x \in accepted : x.id = r)

\* Stop returns.
StopTerminates == spc = "waiting" ~> spc = "returned"

=============================================================================
