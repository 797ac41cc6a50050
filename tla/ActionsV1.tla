----------------------------- MODULE ActionsV1 -----------------------------
(***************************************************************************)
(* The actions of the deprecated client (pkg/client/client.go:112-122,     *)
(* 322-476): the registry of actions, the retry loop, the reader, one      *)
(* goroutine per request, the writer and the queue of responses, which     *)
(* outlives the streams.  OnError returns at once.  Requests are the       *)
(* agent's; the name of a request's action and its params are part of it.  *)
(***************************************************************************)
EXTENDS Naturals, FiniteSets

CONSTANTS
  Reqs,       \* requests, each for an action of the same name
  Cap,        \* capacity of actionResults (100 in the code)
  MaxEvents,  \* bound: calls of the registry, requests, failed dials, lost
              \* streams, and events of the check-in
  None

VARIABLES
  ctx, events,            \* shared with the check-in
  registry,               \* c.actions: the requests whose action is registered
  aloop,                  \* the retry loop: "loop", "running", "exited"
  ard, ain, aout,         \* the reader: where it is, its request, the response it pushes
  work, answer,           \* request -> where its goroutine is; the response it pushes
  queue,                  \* actionResults
  awr, held,              \* the writer: where it is, the response it sends
  accepted,               \* the responses Send took
  unsent, awire, agone,   \* the agent: requests to send, the one on the stream, lost ones
  alink, aknown           \* the stream; the agent has its token

actionsReader == <<ard, ain, aout>>
actionsWork == <<work, answer>>
actionsWriter == <<awr, held, accepted>>
actionsAgent == <<unsent, awire, agone, alink, aknown>>
actionsVars == <<registry, aloop, actionsReader, actionsWork, queue, actionsWriter, actionsAgent>>

\* An error of the action and a result that is not JSON are both an error.
Response == [id : Reqs, result : {"success", "error", "action undefined", "bad params"}]
Answer(r, result) == [id |-> r, result |-> result]

Event == events < MaxEvents /\ events' = events + 1

ActionsInit ==
  /\ registry = Reqs
  /\ aloop = "loop" /\ ard = "off" /\ ain = None /\ aout = None
  /\ work = [r \in Reqs |-> "none"] /\ answer = [r \in Reqs |-> None] /\ queue = {}
  /\ awr = "off" /\ held = None /\ accepted = {}
  /\ unsent = Reqs /\ awire = None /\ agone = {} /\ alink = "none" /\ aknown = FALSE

-----------------------------------------------------------------------------
(* RegisterAction, UnregisterAction *)

Register(r) ==
  /\ Event
  /\ registry' = IF r \in registry THEN registry \ {r} ELSE registry \cup {r}
  /\ UNCHANGED <<aloop, actionsReader, actionsWork, queue, actionsWriter, actionsAgent>>

-----------------------------------------------------------------------------
(* The retry loop *)

ActionsExit ==
  /\ aloop = "loop" /\ ctx = "cancelled" /\ aloop' = "exited"
  /\ UNCHANGED <<events, registry, actionsReader, actionsWork, queue, actionsWriter, actionsAgent>>

ActionsDial ==
  /\ aloop = "loop" /\ ctx = "live"
  /\ aloop' = "running" /\ ard' = "recv" /\ awr' = "init" /\ alink' = "open"
  /\ UNCHANGED <<events, registry, ain, aout, actionsWork, queue, held, accepted, unsent, awire, agone, aknown>>

ActionsDialFails ==
  /\ aloop = "loop"
  /\ Event \/ (ctx = "cancelled" /\ UNCHANGED events)
  /\ UNCHANGED <<registry, aloop, actionsReader, actionsWork, queue, actionsWriter, actionsAgent>>

ActionsDone ==
  /\ aloop = "running" /\ ard = "done" /\ awr = "done"
  /\ aloop' = "loop" /\ ard' = "off" /\ awr' = "off" /\ alink' = "none" /\ aknown' = FALSE
  /\ awire' = None /\ agone' = agone \cup ({awire} \ {None})
  /\ UNCHANGED <<events, registry, ain, aout, actionsWork, queue, held, accepted, unsent>>

-----------------------------------------------------------------------------
(* The reader *)

ReaderFrame == UNCHANGED <<events, registry, aloop, actionsWriter, unsent, agone, alink, aknown>>

ActionsRecv ==
  /\ ard = "recv" /\ awire # None
  /\ ain' = awire /\ awire' = None /\ ard' = "lookup"
  /\ ReaderFrame /\ UNCHANGED <<aout, actionsWork, queue>>

ActionsRecvFails ==
  /\ ard = "recv"
  /\ alink = "broken" \/ ctx = "cancelled" \/ (alink = "closed" /\ awire = None)
  /\ ard' = "done"
  /\ ReaderFrame /\ UNCHANGED <<ain, aout, awire, actionsWork, queue>>

LookupFrame == ReaderFrame /\ UNCHANGED <<awire, answer, queue>>

\* The action is looked up under amx; it may be unregistered before it runs.
StartWork ==
  /\ ard = "lookup" /\ ain \in registry
  /\ ard' = "recv" /\ ain' = None /\ work' = [work EXCEPT ![ain] = "exec"]
  /\ LookupFrame /\ UNCHANGED aout

\* There is no such action, or the params are not JSON.
Refuse ==
  /\ ard = "lookup" /\ ard' = "put"
  /\ aout' = Answer(ain, IF ain \in registry THEN "bad params" ELSE "action undefined")
  /\ LookupFrame /\ UNCHANGED <<ain, work>>

Room == Cardinality(queue) < Cap

ReaderPut ==
  /\ ard = "put" /\ Room
  /\ queue' = queue \cup {aout} /\ aout' = None /\ ain' = None /\ ard' = "recv"
  /\ ReaderFrame /\ UNCHANGED <<awire, actionsWork>>

-----------------------------------------------------------------------------
(* The goroutine of a request *)

WorkFrame == UNCHANGED <<events, registry, aloop, actionsReader, actionsWriter, actionsAgent>>

Execute(r) ==
  /\ work[r] = "exec" /\ work' = [work EXCEPT ![r] = "put"]
  /\ \E result \in {"success", "error"} :
       answer' = [answer EXCEPT ![r] = Answer(r, result)]
  /\ WorkFrame /\ UNCHANGED queue

WorkerPut(r) ==
  /\ work[r] = "put" /\ Room
  /\ queue' = queue \cup {answer[r]} /\ answer' = [answer EXCEPT ![r] = None]
  /\ work' = [work EXCEPT ![r] = "done"]
  /\ WorkFrame

-----------------------------------------------------------------------------
(* The writer *)

WriterFrame == UNCHANGED <<events, registry, aloop, actionsReader, actionsWork, unsent, awire, agone, alink>>

CanSend == alink = "open" /\ ctx = "live"
SendFails == alink # "open" \/ ctx = "cancelled"

ActionsSendInit ==
  /\ awr = "init"
  /\ \/ CanSend /\ awr' = "select" /\ aknown' = TRUE
     \/ SendFails /\ awr' = "done" /\ UNCHANGED aknown
  /\ WriterFrame /\ UNCHANGED <<queue, held, accepted>>

Take(x) ==
  /\ awr = "select" /\ x \in queue
  /\ queue' = queue \ {x} /\ held' = x /\ awr' = "send"
  /\ WriterFrame /\ UNCHANGED <<accepted, aknown>>

ActionsWriterStops ==
  /\ awr = "select" /\ ard = "done" /\ awr' = "done"
  /\ WriterFrame /\ UNCHANGED <<queue, held, accepted, aknown>>

ActionsSend ==
  /\ awr = "send"
  /\ \/ CanSend /\ accepted' = accepted \cup {held} /\ held' = None /\ awr' = "select"
     \/ SendFails /\ awr' = "requeue" /\ UNCHANGED <<accepted, held>>
  /\ WriterFrame /\ UNCHANGED <<queue, aknown>>

\* Mutant: the response that could not be sent is dropped.
PutBackNot ==
  /\ awr = "requeue" /\ held' = None /\ awr' = "done"
  /\ WriterFrame /\ UNCHANGED <<queue, accepted, aknown>>

\* It waits for room in the queue that it alone empties.
PutBack ==
  /\ awr = "requeue" /\ Room
  /\ queue' = queue \cup {held} /\ held' = None /\ awr' = "done"
  /\ WriterFrame /\ UNCHANGED <<accepted, aknown>>

-----------------------------------------------------------------------------
(* The agent and the stream *)

AgentFrame == UNCHANGED <<registry, aloop, actionsReader, actionsWork, queue, actionsWriter, aknown>>

AgentRequests(r) ==
  /\ alink = "open" /\ ctx = "live" /\ aknown /\ awire = None /\ r \in unsent /\ Event
  /\ awire' = r /\ unsent' = unsent \ {r}
  /\ AgentFrame /\ UNCHANGED <<agone, alink>>

ActionsLost ==
  /\ alink = "open" /\ Event
  /\ \/ alink' = "closed" /\ UNCHANGED <<awire, agone>>
     \/ alink' = "broken" /\ awire' = None /\ agone' = agone \cup ({awire} \ {None})
  /\ AgentFrame /\ UNCHANGED unsent

-----------------------------------------------------------------------------
ActionsReader == ActionsRecv \/ ActionsRecvFails \/ StartWork \/ Refuse \/ ReaderPut
ActionsWriter == ActionsSendInit \/ ActionsWriterStops \/ ActionsSend \/ PutBack \/ \E x \in queue : Take(x)
ActionsWorker(r) == Execute(r) \/ WorkerPut(r)
ActionsRetry == ActionsExit \/ ActionsDial \/ ActionsDialFails \/ ActionsDone
ActionsNext ==
  \/ ActionsReader \/ ActionsWriter \/ ActionsRetry \/ ActionsLost
  \/ \E r \in Reqs : ActionsWorker(r) \/ AgentRequests(r) \/ Register(r)
=============================================================================
