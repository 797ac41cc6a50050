--------------------------- MODULE ActionsProofs ---------------------------
(* Safety of the actions for every set of requests, every capacity of the   *)
(* queue and every number of events and restarts: TypeOK, NoRemovedUnit,    *)
(* and, for an agent that sends valid params, Custody and                   *)
(* AtMostOneResponse.                                                       *)
EXTENDS Actions, FiniteSetTheorems, TLAPS

\* What a step leaves alone is expanded everywhere.
USE DEF readerVars, registryVars, workVars, writerVars, loopVars, agentVars,
        LoopFrame, RegistryFrame, ReaderFrame, DispatchFrame, WorkerFrame, WriterFrame, AgentFrame

-----------------------------------------------------------------------------
(* The inductive invariants *)

\* Every variable has its type, and the counters keep to their bounds.
AgentType ==
  /\ unsent \subseteq Reqs /\ wire \in Reqs \cup {None} /\ dropped \subseteq Reqs /\ lost \subseteq Reqs
  /\ known \in BOOLEAN /\ link \in {"none", "open", "halfclosed", "closed", "broken"}
ReaderType ==
  /\ rpc \in {"off", "recv", "dispatch", "collect", "find unit", "find hooks", "action", "hooks", "put", "err", "done"}
  /\ rreq \in Reqs \cup {None} /\ rout \in Response \cup {None}
  /\ rnext \in {"recv", "collect"} /\ rhook \in BOOLEAN
RegistryType ==
  /\ added \in 1..events + 1 /\ events \in 0..MaxEvents /\ unit \in {0, added}
  /\ rfound \in 0..added /\ runs \in [Reqs -> 0..added] /\ since \in [Reqs -> 0..MaxEvents + 2]
  /\ handlers \in [Units -> SUBSET {"action", "hook"}] /\ clientHook \in BOOLEAN
WorkerType ==
  /\ work \in [Reqs -> {"none", "exec", "err", "put", "done"}]
  /\ answer \in [Reqs -> Response \cup {None}]
QueueType == IsFiniteSet(queue) /\ queue \subseteq Response /\ Cardinality(queue) <= Cap
WriterType ==
  /\ wpc \in {"off", "init", "select", "send", "err", "requeue", "done"}
  /\ wres \in Response \cup {None} /\ accepted \subseteq Response
LoopType ==
  /\ lpc \in {"check", "dial", "err", "running", "backoff", "exited"}
  /\ ctx \in {"live", "cancelled"} /\ spc \in {"none", "waiting", "returned"}
TypeInv ==
  AgentType /\ ReaderType /\ RegistryType /\ WorkerType /\ QueueType /\ WriterType /\ LoopType

\* The goroutines of a stream run inside a round trip only; Stop waits for the
\* loop.
LoopInv ==
  /\ lpc # "running" => rpc = "off" /\ wpc = "off"
  /\ spc = "returned" => lpc = "exited"

\* Whoever has to push a response has one, to the request it has; the writer
\* has one only between taking it and its fate.
ReaderHeld ==
  /\ Handling => rreq \in Reqs
  /\ rpc = "put" => rout \in Response /\ (rnext = "collect" => rreq \in Reqs)
WorkerHeld ==
  \A r \in Reqs : /\ answer[r] # None => answer[r].id = r
                  /\ work[r] \in {"err", "put"} => answer[r] # None
WriterHeld ==
  /\ wpc \in {"send", "requeue"} => wres # None
  /\ wpc \in {"off", "init", "select", "done"} => wres = None
HeldInv == ReaderHeld /\ WorkerHeld /\ WriterHeld

IInv == TypeInv /\ LoopInv /\ HeldInv

\* No request arrives twice: one the agent still has, or that is on the stream,
\* is not the reader's and has called nothing.
FreshInv ==
  \A r \in Reqs : r \in unsent \/ wire = r => /\ rreq # r /\ runs[r] = 0
                                              /\ ~(r \in unsent /\ wire = r)

\* The unit in c.units now, or the next one, is at least as young as the first
\* one any received request saw; so is the unit the reader found for its request.
YoungInv ==
  /\ \A r \in Reqs : since[r] <= IF unit # 0 THEN unit ELSE added + 1
  /\ rpc \in {"action", "hooks"} => rfound >= since[rreq]
  /\ NoRemovedUnit

\* With valid params a response the reader pushes is its last word on the
\* request; and each request is in one place.
PlaceInv ==
  /\ ~BadDiagParams
  /\ rpc = "put" => rnext = "recv"
  /\ \A r \in Reqs : \E p : Places(r) = {p}

-----------------------------------------------------------------------------
(* Type correctness and the loop *)

LEMMA ConstantFacts ==
  /\ IsFiniteSet(Reqs) /\ Cap \in Nat \ {0} /\ MaxEvents \in Nat /\ MaxStarts \in Nat \ {0}
  /\ None \notin Reqs /\ None \notin Response
BY ActionsAssumption DEF ActionsAssumption

\* A response is what it was made of.
LEMMA ResponseType ==
  ASSUME NEW r \in Reqs, NEW result \in Results
  PROVE  /\ Ok(r, result) \in Response /\ Failed(r, result) \in Response
         /\ Ok(r, result).id = r /\ Failed(r, result).id = r
         /\ Ok(r, result) # None /\ Failed(r, result) # None
<1>1. Ok(r, result) \in Response /\ Failed(r, result) \in Response
  BY DEF Ok, Failed, Response
<1>2. Ok(r, result).id = r /\ Failed(r, result).id = r
  BY DEF Ok, Failed
<1>3. QED BY <1>1, <1>2, ConstantFacts

\* A put keeps the queue to its capacity.
LEMMA PutFits ==
  ASSUME NEW S, IsFiniteSet(S), Cardinality(S) < Cap, NEW x
  PROVE  IsFiniteSet(S \cup {x}) /\ Cardinality(S \cup {x}) <= Cap
<1>1. Cardinality(S) \in Nat /\ Cap \in Nat
  BY FS_CardinalityType, ConstantFacts
<1>2. IsFiniteSet(S \cup {x}) /\ Cardinality(S \cup {x}) \in {Cardinality(S), Cardinality(S) + 1}
  BY FS_AddElement
<1>3. QED BY <1>1, <1>2

LEMMA InitInv == Init => IInv
<1> SUFFICES ASSUME Init PROVE IInv
  OBVIOUS
<1>1. AgentType /\ ReaderType /\ WriterType /\ LoopType
  BY DEF Init, AgentType, ReaderType, WriterType, LoopType
<1>2. RegistryType
  <2>1. added = 1 /\ events = 0 /\ unit = 1 /\ rfound = 0 /\ clientHook = FALSE
    BY DEF Init
  <2>2. runs \in [Reqs -> {0}] /\ since \in [Reqs -> {0}]
    BY DEF Init
  <2>3. runs \in [Reqs -> 0..added] /\ since \in [Reqs -> 0..MaxEvents + 2]
    BY <2>1, <2>2, ConstantFacts
  <2>4. handlers \in [Units -> SUBSET {"action", "hook"}]
    BY DEF Init
  <2>5. added \in 1..events + 1 /\ events \in 0..MaxEvents /\ unit \in {0, added} /\ rfound \in 0..added
    BY <2>1, ConstantFacts
  <2>6. clientHook \in BOOLEAN
    BY <2>1
  <2>7. QED BY <2>3, <2>4, <2>5, <2>6 DEF RegistryType
<1>3. WorkerType
  BY DEF Init, WorkerType
<1>4. QueueType
  BY FS_EmptySet, ConstantFacts DEF Init, QueueType
<1>5. LoopInv /\ HeldInv
  BY ConstantFacts DEF Init, LoopInv, HeldInv, ReaderHeld, WorkerHeld, WriterHeld, Handling
<1>6. QED BY <1>1, <1>2, <1>3, <1>4, <1>5 DEF IInv, TypeInv

\* The loop: every goroutine of a stream starts and ends with it.
LEMMA StepLoop == LoopInv /\ [Next]_vars => LoopInv'
<1> SUFFICES ASSUME LoopInv, [Next]_vars PROVE LoopInv'
  OBVIOUS
<1> USE DEF LoopInv
<1>1. CASE Loop \/ Stop \/ Start
  BY <1>1 DEF Loop, LoopCheck, Connect, ConnectFails, RoundTripDone, Backoff, StopReturns, Stop, Start
<1>2. CASE Registry
  BY <1>2 DEF Registry, AddUnit, RemoveUnit, RegisterDiagnosticHook, RegisterAction, RegisterUnitHook
<1>3. CASE Reader
  BY <1>3 DEF Reader, Recv, RecvFails, TryPerformAction, TryPerformDiagnostics, CollectHooks, FindUnit,
     LookupAction, UnitHooks, UnknownType, Put, Goes, Push, Spawn
<1>4. CASE Writer
  BY <1>4 DEF Writer, SendInit, ReaderDone, SendResponse, Requeue, TakeResponse
<1>5. CASE TakeError
  BY <1>5 DEF TakeError
<1>6. CASE Agent
  BY <1>6 DEF Agent, AgentClose, Break, AgentSend
<1>7. ASSUME NEW r \in Reqs, Worker(r) PROVE LoopInv'
  BY <1>7 DEF Worker, Execute, CallHooks, WorkerPut
<1>8. CASE UNCHANGED vars
  BY <1>8 DEF vars
<1>9. QED BY <1>1, <1>2, <1>3, <1>4, <1>5, <1>6, <1>7, <1>8 DEF Next, Terminated

\* What an action takes, holds and pushes is a request or a response to it.
LEMMA StepHeld == IInv /\ [Next]_vars => HeldInv'
<1> SUFFICES ASSUME IInv, [Next]_vars PROVE HeldInv'
  OBVIOUS
<1> USE ConstantFacts DEF IInv, HeldInv
<1>1. CASE Loop \/ Stop
  BY <1>1 DEF Loop, LoopCheck, Connect, ConnectFails, RoundTripDone, Backoff, StopReturns, Stop,
     LoopInv, ReaderHeld, WorkerHeld, WriterHeld, Handling
<1>2. CASE Start
  BY <1>2 DEF Start, ReaderHeld, WorkerHeld, WriterHeld, Handling
<1>3. CASE Registry
  BY <1>3 DEF Registry, AddUnit, RemoveUnit, RegisterDiagnosticHook, RegisterAction, RegisterUnitHook,
     ReaderHeld, WorkerHeld, WriterHeld, Handling
<1>4. CASE Reader
  <2>1. WriterHeld'
    BY <1>4 DEF Reader, Recv, RecvFails, TryPerformAction, TryPerformDiagnostics, CollectHooks, FindUnit,
       LookupAction, UnitHooks, UnknownType, Put, WriterHeld
  <2>2. ReaderHeld'
    <3>1. ASSUME NEW why \in Results, NEW pc, pc = "collect" \/ pc = "recv", Handling,
                 Push(Failed(rreq, why), pc), rreq' = rreq
          PROVE  ReaderHeld'
      BY <3>1, ResponseType DEF Push, ReaderHeld, Handling
    <3>2. CASE Recv \/ RecvFails
      BY <3>2 DEF Recv, RecvFails, TypeInv, AgentType, ReaderHeld, Handling
    <3>3. CASE TryPerformAction \/ TryPerformDiagnostics \/ UnknownType
      BY <3>1, <3>3 DEF TryPerformAction, TryPerformDiagnostics, UnknownType, Results, Goes,
         ReaderHeld, Handling
    <3>4. CASE CollectHooks \/ UnitHooks
      BY <3>4 DEF CollectHooks, UnitHooks, Goes, Spawn, ReaderHeld, Handling
    <3>5. CASE FindUnit \/ LookupAction
      BY <3>1, <3>5 DEF FindUnit, LookupAction, Results, Goes, Spawn, ReaderHeld, Handling
    <3>6. CASE Put
      BY <3>6 DEF Put, TypeInv, ReaderType, ReaderHeld, Handling
    <3>7. QED BY <1>4, <3>2, <3>3, <3>4, <3>5, <3>6 DEF Reader
  <2>3. WorkerHeld'
    <3>1. CASE Recv \/ RecvFails \/ Put
      BY <3>1 DEF Recv, RecvFails, Put, WorkerHeld
    <3>2. CASE TryPerformAction \/ TryPerformDiagnostics \/ UnknownType \/ FindUnit \/ LookupAction
      <4>1. answer' = answer /\ (work' = work \/ work' = [work EXCEPT ![rreq] = "exec"])
        BY <3>2 DEF TryPerformAction, TryPerformDiagnostics, UnknownType, FindUnit, LookupAction,
           Goes, Push, Spawn
      <4>2. QED BY <4>1 DEF WorkerHeld, TypeInv, WorkerType
    <3>3. CASE CollectHooks \/ UnitHooks
      <4>1. /\ rreq \in Reqs /\ \/ work' = work
                                \/ work' = [work EXCEPT ![rreq] = "exec"]
            /\ \/ answer' = answer
               \/ \E x \in Response : answer' = [answer EXCEPT ![rreq] = x] /\ x.id = rreq
        BY <3>3, ResponseType DEF CollectHooks, UnitHooks, Goes, Spawn, ReaderHeld, Handling, Results
      <4>2. ASSUME NEW q \in Reqs
            PROVE  /\ answer'[q] # None => answer'[q].id = q
                   /\ work'[q] \in {"err", "put"} => answer'[q] # None
        <5>1. answer'[q] = answer[q] \/ (answer'[q] \in Response /\ answer'[q].id = q)
          BY <4>1 DEF TypeInv, WorkerType
        <5>2. work'[q] \in {"err", "put"} => work'[q] = work[q]
          BY <4>1 DEF TypeInv, WorkerType
        <5>3. QED BY <5>1, <5>2 DEF WorkerHeld
      <4>3. QED BY <4>2 DEF WorkerHeld
    <3>4. QED BY <1>4, <3>1, <3>2, <3>3 DEF Reader
  <2>4. QED BY <2>1, <2>2, <2>3
<1>5. CASE Writer
  <2>1. ASSUME NEW x \in queue, TakeResponse(x) PROVE WriterHeld'
    BY <2>1 DEF TakeResponse, TypeInv, QueueType, WriterHeld
  <2>2. WriterHeld'
    BY <1>5, <2>1 DEF Writer, SendInit, ReaderDone, SendResponse, Requeue, WriterHeld
  <2>3. UNCHANGED <<readerVars, workVars>>
    BY <1>5 DEF Writer, SendInit, ReaderDone, SendResponse, Requeue, TakeResponse
  <2>4. QED BY <2>2, <2>3 DEF ReaderHeld, WorkerHeld, Handling
<1>6. CASE TakeError
  <2>1. ReaderHeld' /\ WriterHeld'
    BY <1>6 DEF TakeError, ReaderHeld, WriterHeld, Handling
  <2>2. WorkerHeld'
    BY <1>6 DEF TakeError, WorkerHeld, TypeInv, WorkerType
  <2>3. QED BY <2>1, <2>2
<1>7. CASE Agent
  BY <1>7 DEF Agent, AgentClose, Break, AgentSend, ReaderHeld, WorkerHeld, WriterHeld, Handling
<1>8. ASSUME NEW r \in Reqs, Worker(r) PROVE HeldInv'
  <2>1. ReaderHeld' /\ WriterHeld'
    BY <1>8 DEF Worker, Execute, CallHooks, WorkerPut, ReaderHeld, WriterHeld, Handling
  <2>2. \A q \in Reqs \ {r} : answer'[q] = answer[q] /\ work'[q] = work[q]
    BY <1>8 DEF Worker, Execute, CallHooks, WorkerPut, TypeInv, WorkerType
  <2>3. CASE Execute(r)
    <3>1. PICK x \in Response : x.id = r /\ answer' = [answer EXCEPT ![r] = x]
      BY <2>3, ResponseType DEF Execute, Results
    <3>2. answer'[r] # None /\ answer'[r].id = r
      BY <3>1 DEF TypeInv, WorkerType
    <3>3. QED BY <2>1, <2>2, <3>2 DEF WorkerHeld
  <2>4. CASE CallHooks(r) \/ WorkerPut(r)
    <3>1. (answer'[r] = answer[r] /\ answer[r] # None) \/ (answer'[r] = None /\ work'[r] = "done")
      BY <2>4 DEF CallHooks, WorkerPut, TypeInv, WorkerType
    <3>2. QED BY <2>1, <2>2, <3>1 DEF WorkerHeld
  <2>5. QED BY <1>8, <2>3, <2>4 DEF Worker
<1>9. CASE UNCHANGED vars
  BY <1>9 DEF vars, ReaderHeld, WorkerHeld, WriterHeld, Handling
<1>10. QED BY <1>1, <1>2, <1>3, <1>4, <1>5, <1>6, <1>7, <1>8, <1>9 DEF Next, Terminated

\* Every step keeps the types, part by part.
LEMMA StepAgentType == IInv /\ [Next]_vars => AgentType'
<1> SUFFICES ASSUME IInv, [Next]_vars PROVE AgentType'
  OBVIOUS
<1> USE DEF IInv, TypeInv, AgentType
<1>1. CASE Loop \/ Stop
  BY <1>1 DEF Loop, LoopCheck, Connect, ConnectFails, RoundTripDone, Backoff, StopReturns, Stop
<1>2. CASE Start
  BY <1>2 DEF Start, QueueType, Response
<1>3. CASE Registry
  BY <1>3 DEF Registry, AddUnit, RemoveUnit, RegisterDiagnosticHook, RegisterAction, RegisterUnitHook
<1>4. CASE Reader
  BY <1>4 DEF Reader, Recv, RecvFails, TryPerformAction, TryPerformDiagnostics, CollectHooks, FindUnit,
     LookupAction, UnitHooks, UnknownType, Put
<1>5. CASE Writer \/ TakeError
  BY <1>5 DEF Writer, SendInit, ReaderDone, SendResponse, Requeue, TakeResponse, CloseSend, TakeError
<1>6. CASE Agent
  BY <1>6 DEF Agent, AgentClose, Break, AgentSend
<1>7. ASSUME NEW r \in Reqs, Worker(r) PROVE AgentType'
  BY <1>7 DEF Worker, Execute, CallHooks, WorkerPut
<1>8. CASE UNCHANGED vars
  BY <1>8 DEF vars
<1>9. QED BY <1>1, <1>2, <1>3, <1>4, <1>5, <1>6, <1>7, <1>8 DEF Next, Terminated

LEMMA StepReaderType == IInv /\ [Next]_vars => ReaderType'
<1> SUFFICES ASSUME IInv, [Next]_vars PROVE ReaderType'
  OBVIOUS
<1> USE DEF IInv, TypeInv, ReaderType
<1>1. CASE Loop \/ Stop \/ Start \/ TakeError
  BY <1>1 DEF Loop, LoopCheck, Connect, ConnectFails, RoundTripDone, Backoff, StopReturns, Stop, Start,
     TakeError
<1>2. CASE Registry
  BY <1>2 DEF Registry, AddUnit, RemoveUnit, RegisterDiagnosticHook, RegisterAction, RegisterUnitHook
<1>3. CASE Reader
  <2>1. ASSUME Handling, NEW why \in Results, NEW pc, pc = "collect" \/ pc = "recv",
               Push(Failed(rreq, why), pc), rreq' = rreq, rhook' \in BOOLEAN
        PROVE  ReaderType'
    <3>1. rreq \in Reqs /\ Failed(rreq, why) \in Response
      BY <2>1, ResponseType DEF HeldInv, ReaderHeld
    <3>2. QED BY <2>1, <3>1 DEF Push
  <2>2. CASE Recv \/ RecvFails
    BY <2>2 DEF Recv, RecvFails, AgentType
  <2>3. CASE TryPerformAction \/ TryPerformDiagnostics \/ UnknownType
    BY <2>1, <2>3 DEF TryPerformAction, TryPerformDiagnostics, UnknownType, Goes, Results, Handling
  <2>4. CASE CollectHooks \/ UnitHooks
    BY <2>4 DEF CollectHooks, UnitHooks, Goes, Spawn, RegistryType
  <2>5. CASE FindUnit \/ LookupAction
    BY <2>1, <2>5 DEF FindUnit, LookupAction, Goes, Spawn, Results, Handling
  <2>6. CASE Put
    BY <2>6 DEF Put
  <2>7. QED BY <1>3, <2>2, <2>3, <2>4, <2>5, <2>6 DEF Reader
<1>4. CASE Writer
  BY <1>4 DEF Writer, SendInit, ReaderDone, SendResponse, Requeue, TakeResponse
<1>5. CASE Agent
  BY <1>5 DEF Agent, AgentClose, Break, AgentSend
<1>6. ASSUME NEW r \in Reqs, Worker(r) PROVE ReaderType'
  BY <1>6 DEF Worker, Execute, CallHooks, WorkerPut
<1>7. CASE UNCHANGED vars
  BY <1>7 DEF vars
<1>8. QED BY <1>1, <1>2, <1>3, <1>4, <1>5, <1>6, <1>7 DEF Next, Terminated

LEMMA StepRegistryType == IInv /\ [Next]_vars => RegistryType'
<1> SUFFICES ASSUME IInv, [Next]_vars PROVE RegistryType'
  OBVIOUS
<1> USE ConstantFacts DEF IInv, TypeInv, RegistryType
<1>1. CASE Loop \/ Stop \/ Start \/ TakeError
  BY <1>1 DEF Loop, LoopCheck, Connect, ConnectFails, Event, RoundTripDone, Backoff, StopReturns, Stop,
     Start, TakeError
<1>2. CASE Registry
  <2>1. CASE AddUnit
    <3>1. /\ added' = added + 1 /\ events' = events + 1 /\ unit' = added' /\ events < MaxEvents
          /\ UNCHANGED <<rfound, runs, since, handlers, clientHook>>
      BY <2>1 DEF AddUnit, Event
    <3>2. added \in Nat /\ 0..added \subseteq 0..added'
      BY <3>1
    <3>3. runs' \in [Reqs -> 0..added'] /\ rfound' \in 0..added'
      BY <3>1, <3>2
    <3>4. QED BY <3>1, <3>2, <3>3
  <2>4. CASE RemoveUnit \/ RegisterDiagnosticHook
    <3>1. /\ unit' \in {0, unit} /\ events' = events + 1 /\ events < MaxEvents /\ clientHook' \in BOOLEAN
          /\ UNCHANGED <<added, rfound, runs, since, handlers>>
      BY <2>4 DEF RemoveUnit, RegisterDiagnosticHook, Event
    <3>2. QED BY <3>1
  <2>2. ASSUME NEW u \in Units, RegisterAction(u) \/ RegisterUnitHook(u) PROVE RegistryType'
    <3>1. handlers' \in [Units -> SUBSET {"action", "hook"}]
      BY <2>2 DEF RegisterAction, RegisterUnitHook
    <3>2. QED BY <2>2, <3>1 DEF RegisterAction, RegisterUnitHook, Event
  <2>3. QED BY <1>2, <2>1, <2>2, <2>4 DEF Registry
<1>3. CASE Reader
  <2>1. UNCHANGED <<unit, added, handlers, clientHook, events>>
    BY <1>3 DEF Reader, Recv, RecvFails, TryPerformAction, TryPerformDiagnostics, CollectHooks, FindUnit,
       LookupAction, UnitHooks, UnknownType, Put
  <2>2. since' \in [Reqs -> 0..MaxEvents + 2]
    <3>1. CASE Recv
      <4>1. (IF unit # 0 THEN unit ELSE added + 1) \in 0..MaxEvents + 2
        OBVIOUS
      <4>2. QED BY <3>1, <4>1 DEF Recv
    <3>2. QED BY <1>3, <3>1 DEF Reader, RecvFails, TryPerformAction, TryPerformDiagnostics, CollectHooks,
             FindUnit, LookupAction, UnitHooks, UnknownType, Put
  <2>3. rfound' \in {0, rfound, unit}
    BY <1>3 DEF Reader, Recv, RecvFails, TryPerformAction, TryPerformDiagnostics, CollectHooks, FindUnit,
       FoundUnit, LookupAction, UnitHooks, UnknownType, Put
  <2>4. runs' = runs \/ \E u \in 0..added : runs' = [runs EXCEPT ![rreq] = u]
    <3>1. CASE CollectHooks \/ LookupAction \/ UnitHooks
      <4>1. runs' = runs \/ runs' = [runs EXCEPT ![rreq] = 0] \/ runs' = [runs EXCEPT ![rreq] = rfound]
        BY <3>1 DEF CollectHooks, LookupAction, UnitHooks, Goes, Push, Spawn
      <4>2. QED BY <4>1
    <3>2. QED BY <1>3, <3>1 DEF Reader, Recv, RecvFails, TryPerformAction, TryPerformDiagnostics, FindUnit,
             UnknownType, Put, Goes, Push
  <2>5. runs' \in [Reqs -> 0..added]
    BY <2>4
  <2>6. QED BY <2>1, <2>2, <2>3, <2>5
<1>4. CASE Writer
  BY <1>4 DEF Writer, SendInit, ReaderDone, SendResponse, Requeue, TakeResponse
<1>5. CASE Agent
  BY <1>5 DEF Agent, AgentClose, Break, AgentSend, Event
<1>6. ASSUME NEW r \in Reqs, Worker(r) PROVE RegistryType'
  BY <1>6 DEF Worker, Execute, CallHooks, WorkerPut
<1>7. CASE UNCHANGED vars
  BY <1>7 DEF vars
<1>8. QED BY <1>1, <1>2, <1>3, <1>4, <1>5, <1>6, <1>7 DEF Next, Terminated

LEMMA StepWorkerType == IInv /\ [Next]_vars => WorkerType'
<1> SUFFICES ASSUME IInv, [Next]_vars PROVE WorkerType'
  OBVIOUS
<1> USE ConstantFacts DEF IInv, TypeInv, WorkerType
<1>1. CASE Loop \/ Stop \/ Start \/ TakeError
  BY <1>1 DEF Loop, LoopCheck, Connect, ConnectFails, RoundTripDone, Backoff, StopReturns, Stop, Start,
     TakeError
<1>2. CASE Registry
  BY <1>2 DEF Registry, AddUnit, RemoveUnit, RegisterDiagnosticHook, RegisterAction, RegisterUnitHook
<1>3. CASE Reader
  <2>1. work' = work \/ work' = [work EXCEPT ![rreq] = "exec"]
    BY <1>3 DEF Reader, Recv, RecvFails, TryPerformAction, TryPerformDiagnostics, CollectHooks, FindUnit,
       LookupAction, UnitHooks, UnknownType, Put, Goes, Push, Spawn
  <2>2. CASE CollectHooks \/ UnitHooks
    <3>1. answer' = answer \/ \E x \in Response : answer' = [answer EXCEPT ![rreq] = x]
      BY <2>2, ResponseType DEF CollectHooks, UnitHooks, HeldInv, ReaderHeld, Handling, Results
    <3>2. QED BY <2>1, <3>1
  <2>3. CASE ~(CollectHooks \/ UnitHooks)
    <3>1. answer' = answer
      BY <1>3, <2>3 DEF Reader, Recv, RecvFails, TryPerformAction, TryPerformDiagnostics, FindUnit,
         LookupAction, UnknownType, Put
    <3>2. QED BY <2>1, <3>1
  <2>4. QED BY <2>2, <2>3
<1>4. CASE Writer
  BY <1>4 DEF Writer, SendInit, ReaderDone, SendResponse, Requeue, TakeResponse
<1>5. CASE Agent
  BY <1>5 DEF Agent, AgentClose, Break, AgentSend
<1>6. ASSUME NEW r \in Reqs, Worker(r) PROVE WorkerType'
  <2>1. CASE Execute(r)
    <3>1. \E x \in Response : answer' = [answer EXCEPT ![r] = x]
      BY <2>1, ResponseType DEF Execute, Results
    <3>2. QED BY <2>1, <3>1 DEF Execute
  <2>2. QED BY <1>6, <2>1 DEF Worker, CallHooks, WorkerPut
<1>7. CASE UNCHANGED vars
  BY <1>7 DEF vars
<1>8. QED BY <1>1, <1>2, <1>3, <1>4, <1>5, <1>6, <1>7 DEF Next, Terminated

\* The queue grows by Put, WorkerPut and Requeue only, when there is room.
LEMMA StepQueueType == IInv /\ [Next]_vars => QueueType'
<1> SUFFICES ASSUME IInv, [Next]_vars PROVE QueueType'
  OBVIOUS
<1> USE DEF IInv, TypeInv
<1>1. ASSUME NEW x \in Response, Room, queue' = queue \cup {x} PROVE QueueType'
  BY <1>1, PutFits DEF QueueType, Room
<1>2. CASE Put
  BY <1>1, <1>2 DEF Put, HeldInv, ReaderHeld
<1>3. CASE Requeue
  BY <1>1, <1>3 DEF Requeue, HeldInv, WriterHeld, WriterType
<1>4. ASSUME NEW r \in Reqs, WorkerPut(r) PROVE QueueType'
  BY <1>1, <1>4 DEF WorkerPut, HeldInv, WorkerHeld, WorkerType
<1>5. ASSUME NEW x \in queue, TakeResponse(x) PROVE QueueType'
  <2>1. /\ IsFiniteSet(queue') /\ Cardinality(queue') = Cardinality(queue) - 1
        /\ Cardinality(queue) \in Nat /\ Cardinality(queue) <= Cap /\ Cap \in Nat
    BY <1>5, FS_RemoveElement, FS_CardinalityType, ConstantFacts DEF TakeResponse, QueueType
  <2>2. QED BY <1>5, <2>1 DEF TakeResponse, QueueType
<1>6. CASE Start
  BY <1>6, FS_EmptySet, ConstantFacts DEF Start, QueueType
<1>7. CASE queue' = queue
  BY <1>7 DEF QueueType
<1>8. CASE Loop \/ Stop \/ Registry \/ TakeError
  BY <1>7, <1>8 DEF Loop, LoopCheck, Connect, ConnectFails, RoundTripDone, Backoff, StopReturns, Stop,
     Registry, AddUnit, RemoveUnit, RegisterDiagnosticHook, RegisterAction, RegisterUnitHook, TakeError
<1>9. CASE Reader
  BY <1>2, <1>7, <1>9 DEF Reader, Recv, RecvFails, TryPerformAction, TryPerformDiagnostics, CollectHooks,
     FindUnit, LookupAction, UnitHooks, UnknownType
<1>10. CASE Writer
  BY <1>3, <1>5, <1>7, <1>10 DEF Writer, SendInit, ReaderDone, SendResponse
<1>11. CASE Agent
  BY <1>7, <1>11 DEF Agent, AgentClose, Break, AgentSend
<1>12. ASSUME NEW r \in Reqs, Worker(r) PROVE QueueType'
  BY <1>4, <1>7, <1>12 DEF Worker, Execute, CallHooks
<1>13. CASE UNCHANGED vars
  BY <1>7, <1>13 DEF vars
<1>14. QED BY <1>6, <1>8, <1>9, <1>10, <1>11, <1>12, <1>13 DEF Next, Terminated

LEMMA StepWriterLoopType == IInv /\ [Next]_vars => WriterType' /\ LoopType'
<1> SUFFICES ASSUME IInv, [Next]_vars PROVE WriterType' /\ LoopType'
  OBVIOUS
<1> USE DEF IInv, TypeInv, WriterType, LoopType
<1>1. CASE Loop \/ Stop \/ Start \/ TakeError
  BY <1>1 DEF Loop, LoopCheck, Connect, ConnectFails, RoundTripDone, Backoff, StopReturns, Stop, Start,
     TakeError
<1>2. CASE Registry
  BY <1>2 DEF Registry, AddUnit, RemoveUnit, RegisterDiagnosticHook, RegisterAction, RegisterUnitHook
<1>3. CASE Reader
  BY <1>3 DEF Reader, Recv, RecvFails, TryPerformAction, TryPerformDiagnostics, CollectHooks, FindUnit,
     LookupAction, UnitHooks, UnknownType, Put
<1>4. CASE Writer
  BY <1>4 DEF Writer, SendInit, ReaderDone, SendResponse, Requeue, TakeResponse, QueueType, HeldInv,
     WriterHeld
<1>5. CASE Agent
  BY <1>5 DEF Agent, AgentClose, Break, AgentSend
<1>6. ASSUME NEW r \in Reqs, Worker(r) PROVE WriterType' /\ LoopType'
  BY <1>6 DEF Worker, Execute, CallHooks, WorkerPut
<1>7. CASE UNCHANGED vars
  BY <1>7 DEF vars
<1>8. QED BY <1>1, <1>2, <1>3, <1>4, <1>5, <1>6, <1>7 DEF Next, Terminated

\* The inductive invariant of types, loop and held responses.
LEMMA ActionsInvariant == Spec => []IInv
<1>1. IInv /\ [Next]_vars => TypeInv'
  BY StepAgentType, StepReaderType, StepRegistryType, StepWorkerType, StepQueueType, StepWriterLoopType
     DEF TypeInv
<1>2. IInv /\ [Next]_vars => IInv'
  BY <1>1, StepLoop, StepHeld DEF IInv
<1>3. QED BY InitInv, <1>2, PTL DEF Spec

\* Every variable has its type and actionResults keeps to its capacity, for
\* every number of requests, streams, errors, restarts and registrations
\* (client_v2.go:823-1118).
THEOREM TypeCorrect == Spec => []TypeOK
<1>1. IInv => TypeOK
  BY DEF IInv, TypeInv, AgentType, ReaderType, RegistryType, WorkerType, QueueType, WriterType, LoopType,
     TypeOK
<1>2. QED BY ActionsInvariant, <1>1, PTL

-----------------------------------------------------------------------------
(* No removed unit *)

\* Only AgentSend puts a request on the stream, and only the reader takes it.
LEMMA StepFresh == IInv /\ FreshInv /\ [Next]_vars => FreshInv'
<1> SUFFICES ASSUME IInv, FreshInv, [Next]_vars PROVE FreshInv'
  OBVIOUS
<1> USE ConstantFacts DEF FreshInv
<1>1. CASE Loop \/ Stop \/ Start \/ TakeError
  BY <1>1 DEF Loop, LoopCheck, Connect, ConnectFails, RoundTripDone, Backoff, StopReturns, Stop, Start,
     TakeError
<1>2. CASE Registry
  BY <1>2 DEF Registry, AddUnit, RemoveUnit, RegisterDiagnosticHook, RegisterAction, RegisterUnitHook
<1>3. CASE Reader
  <2>1. CASE Recv
    BY <2>1 DEF Recv
  <2>2. CASE ~Recv
    <3>1. UNCHANGED <<unsent, rreq, wire>>
      BY <1>3, <2>2 DEF Reader, RecvFails, TryPerformAction, TryPerformDiagnostics, CollectHooks, FindUnit,
         LookupAction, UnitHooks, UnknownType, Put
    <3>2. runs' = runs \/ \E u \in 0..added : runs' = [runs EXCEPT ![rreq] = u]
      <4>1. CASE CollectHooks \/ LookupAction \/ UnitHooks
        <5>1. \/ runs' = runs \/ runs' = [runs EXCEPT ![rreq] = 0]
              \/ runs' = [runs EXCEPT ![rreq] = rfound]
          BY <4>1 DEF CollectHooks, LookupAction, UnitHooks, Goes, Push, Spawn
        <5>2. QED BY <5>1 DEF IInv, TypeInv, RegistryType
      <4>2. QED BY <1>3, <2>2, <4>1 DEF Reader, RecvFails, TryPerformAction, TryPerformDiagnostics,
               FindUnit, UnknownType, Put, Goes, Push
    <3>3. \A r \in Reqs : r # rreq => runs'[r] = runs[r]
      BY <3>2 DEF IInv, TypeInv, RegistryType
    <3>4. QED BY <3>1, <3>3
  <2>3. QED BY <2>1, <2>2
<1>4. CASE Writer
  BY <1>4 DEF Writer, SendInit, ReaderDone, SendResponse, Requeue, TakeResponse
<1>5. CASE Agent
  BY <1>5 DEF Agent, AgentClose, Break, AgentSend
<1>6. ASSUME NEW r \in Reqs, Worker(r) PROVE FreshInv'
  BY <1>6 DEF Worker, Execute, CallHooks, WorkerPut
<1>7. CASE UNCHANGED vars
  BY <1>7 DEF vars
<1>8. QED BY <1>1, <1>2, <1>3, <1>4, <1>5, <1>6, <1>7 DEF Next, Terminated

\* A step that only removes or adds a unit keeps the order of since, rfound and
\* runs; a request starts with the units that come now.
LEMMA StepYoung == IInv /\ FreshInv /\ YoungInv /\ [Next]_vars => YoungInv'
<1> SUFFICES ASSUME IInv, FreshInv, YoungInv, [Next]_vars PROVE YoungInv'
  OBVIOUS
<1> USE ConstantFacts DEF YoungInv, NoRemovedUnit
<1> DEFINE Young == IF unit # 0 THEN unit ELSE added + 1
<1>0. /\ added \in Nat /\ unit \in {0, added} /\ rfound \in Nat
      /\ runs \in [Reqs -> Nat] /\ since \in [Reqs -> Nat]
  BY DEF IInv, TypeInv, RegistryType
<1>1. CASE Loop \/ Stop \/ Start \/ TakeError
  BY <1>1 DEF Loop, LoopCheck, Connect, ConnectFails, RoundTripDone, Backoff, StopReturns, Stop, Start,
     TakeError
<1>2. CASE Registry
  <2>1. CASE AddUnit \/ RemoveUnit
    <3>1. UNCHANGED <<since, rpc, rfound, rreq, runs>> /\ Young <= Young'
      BY <1>0, <2>1 DEF AddUnit, RemoveUnit
    <3>2. \A r \in Reqs : since[r] <= Young'
      <4>1. Young \in Nat /\ Young' \in Nat
        BY <1>0, <2>1 DEF AddUnit, RemoveUnit
      <4>2. QED BY <1>0, <3>1, <4>1
    <3>3. QED BY <3>1, <3>2
  <2>2. CASE ~(AddUnit \/ RemoveUnit)
    BY <1>2, <2>2 DEF Registry, RegisterDiagnosticHook, RegisterAction, RegisterUnitHook
  <2>3. QED BY <2>1, <2>2
<1>3. CASE Reader
  <2>0. UNCHANGED <<unit, added>>
    BY <1>3 DEF Reader, Recv, RecvFails, TryPerformAction, TryPerformDiagnostics, CollectHooks, FindUnit,
       LookupAction, UnitHooks, UnknownType, Put
  <2>1. CASE Recv
    <3>1. /\ wire \in Reqs /\ runs[wire] = 0 /\ runs' = runs /\ rpc' = "dispatch"
          /\ since' = [since EXCEPT ![wire] = Young]
      BY <2>1 DEF Recv, FreshInv, IInv, TypeInv, AgentType
    <3>2. \A r \in Reqs : since'[r] = IF r = wire THEN Young ELSE since[r]
      BY <1>0, <3>1
    <3>3. Young \in Nat
      BY <1>0
    <3>4. QED BY <1>0, <2>0, <3>1, <3>2, <3>3
  <2>2. CASE FindUnit
    <3>1. UNCHANGED <<since, runs, rreq>>
      BY <2>2 DEF FindUnit, Goes, Push
    <3>2. rpc' \in {"action", "hooks"} => rfound' = unit /\ unit # 0
      BY <2>2 DEF FindUnit, FoundUnit, Goes, Push
    <3>3. rreq \in Reqs
      BY <2>2 DEF FindUnit, IInv, HeldInv, ReaderHeld, Handling
    <3>4. QED BY <2>0, <3>1, <3>2, <3>3
  <2>3. CASE CollectHooks \/ LookupAction \/ UnitHooks
    <3>1. /\ UNCHANGED <<since, rreq>> /\ rreq \in Reqs /\ rpc' \notin {"action", "hooks"}
          /\ \/ runs' = runs
             \/ runs' = [runs EXCEPT ![rreq] = 0]
             \/ runs' = [runs EXCEPT ![rreq] = rfound] /\ rpc \in {"action", "hooks"}
      BY <2>3 DEF CollectHooks, LookupAction, UnitHooks, Goes, Push, Spawn, IInv, HeldInv, ReaderHeld,
         Handling
    <3>2. ASSUME NEW r \in Reqs PROVE runs'[r] # 0 => runs'[r] >= since[r]
      BY <1>0, <3>1
    <3>3. QED BY <2>0, <3>1, <3>2
  <2>4. CASE RecvFails \/ TryPerformAction \/ TryPerformDiagnostics \/ UnknownType \/ Put
    <3>1. UNCHANGED <<since, runs>> /\ rpc' \notin {"action", "hooks"}
      BY <2>4 DEF RecvFails, TryPerformAction, TryPerformDiagnostics, UnknownType, Put, Goes, Push, IInv,
         TypeInv, ReaderType
    <3>2. QED BY <2>0, <3>1
  <2>5. QED BY <1>3, <2>1, <2>2, <2>3, <2>4 DEF Reader
<1>4. CASE Writer
  BY <1>4 DEF Writer, SendInit, ReaderDone, SendResponse, Requeue, TakeResponse
<1>5. CASE Agent
  BY <1>5 DEF Agent, AgentClose, Break, AgentSend
<1>6. ASSUME NEW r \in Reqs, Worker(r) PROVE YoungInv'
  BY <1>6 DEF Worker, Execute, CallHooks, WorkerPut
<1>7. CASE UNCHANGED vars
  BY <1>7 DEF vars
<1>8. QED BY <1>1, <1>2, <1>3, <1>4, <1>5, <1>6, <1>7 DEF Next, Terminated

\* What a request calls belongs to a unit the client had at some time since it
\* received the request, however often units come and go
\* (client_v2.go:959-961, 1069-1071).
THEOREM NoRemovedUnitIsCalled == Spec => []NoRemovedUnit
<1>1. Init => FreshInv /\ YoungInv
  BY ConstantFacts DEF Init, FreshInv, YoungInv, NoRemovedUnit
<1>2. YoungInv => NoRemovedUnit
  BY DEF YoungInv
<1>3. QED BY ActionsInvariant, <1>1, <1>2, StepFresh, StepYoung, PTL DEF Spec

-----------------------------------------------------------------------------
(* Custody *)

\* Who may have request r, or response x to it.
InReader(r) == Handling /\ rreq = r
Pushed(r, x) == rpc = "put" /\ rout = x /\ x.id = r
Working(r) == work[r] \in {"exec", "err", "put"}
Queued(r, x) == x \in queue /\ x.id = r
InWriter(r, x) == wres # None /\ wres = x /\ x.id = r
Taken(r, x) == x \in accepted /\ x.id = r

\* The places of a request, one by one.
LEMMA PlaceMember ==
  ASSUME NEW r \in Reqs, NEW p
  PROVE  p \in Places(r) <=>
           \/ r \in unsent /\ p = <<"agent", r>>
           \/ wire = r /\ p = <<"wire", r>>
           \/ r \in dropped /\ p = <<"dropped", r>>
           \/ r \in lost /\ p = <<"lost", r>>
           \/ InReader(r) /\ p = <<"reader", r>>
           \/ \E x : Pushed(r, x) /\ p = <<"reader", x>>
           \/ Working(r) /\ p = <<"worker", r>>
           \/ \E x : Queued(r, x) /\ p = <<"queue", x>>
           \/ \E x : InWriter(r, x) /\ p = <<"writer", x>>
           \/ \E x : Taken(r, x) /\ p = <<"sent", x>>
BY DEF Places, InReader, Pushed, Working, Queued, InWriter, Taken

LEMMA PlaceMemberNext ==
  ASSUME NEW r \in Reqs, NEW p
  PROVE  p \in Places(r)' <=>
           \/ r \in unsent' /\ p = <<"agent", r>>
           \/ wire' = r /\ p = <<"wire", r>>
           \/ r \in dropped' /\ p = <<"dropped", r>>
           \/ r \in lost' /\ p = <<"lost", r>>
           \/ InReader(r)' /\ p = <<"reader", r>>
           \/ \E x : Pushed(r, x)' /\ p = <<"reader", x>>
           \/ Working(r)' /\ p = <<"worker", r>>
           \/ \E x : Queued(r, x)' /\ p = <<"queue", x>>
           \/ \E x : InWriter(r, x)' /\ p = <<"writer", x>>
           \/ \E x : Taken(r, x)' /\ p = <<"sent", x>>
BY DEF Places, InReader, Pushed, Working, Queued, InWriter, Taken

\* Each place by itself, before and after a step.
LEMMA PlaceIs ==
  ASSUME NEW r \in Reqs, NEW x
  PROVE  /\ <<"agent", r>> \in Places(r) <=> r \in unsent
         /\ <<"wire", r>> \in Places(r) <=> wire = r
         /\ <<"reader", x>> \in Places(r) <=> (InReader(r) /\ x = r) \/ Pushed(r, x)
         /\ <<"worker", r>> \in Places(r) <=> Working(r)
         /\ <<"queue", x>> \in Places(r) <=> Queued(r, x)
         /\ <<"writer", x>> \in Places(r) <=> InWriter(r, x)
BY PlaceMember

LEMMA PlaceIsNext ==
  ASSUME NEW r \in Reqs, NEW x
  PROVE  /\ <<"agent", r>> \in Places(r)' <=> r \in unsent'
         /\ <<"wire", r>> \in Places(r)' <=> wire' = r
         /\ <<"dropped", r>> \in Places(r)' <=> r \in dropped'
         /\ <<"lost", r>> \in Places(r)' <=> r \in lost'
         /\ <<"reader", x>> \in Places(r)' <=> (InReader(r)' /\ x = r) \/ Pushed(r, x)'
         /\ <<"worker", r>> \in Places(r)' <=> Working(r)'
         /\ <<"queue", x>> \in Places(r)' <=> Queued(r, x)'
         /\ <<"writer", x>> \in Places(r)' <=> InWriter(r, x)'
         /\ <<"sent", x>> \in Places(r)' <=> Taken(r, x)'
BY PlaceMemberNext

\* A request nobody touches stays where it is.
LEMMA Stays ==
  ASSUME NEW r \in Reqs, \E p : Places(r) = {p},
         (r \in unsent') <=> (r \in unsent), (wire' = r) <=> (wire = r),
         (r \in dropped') <=> (r \in dropped), (r \in lost') <=> (r \in lost),
         InReader(r)' <=> InReader(r), \A x : Pushed(r, x)' <=> Pushed(r, x),
         Working(r)' <=> Working(r), \A x : Queued(r, x)' <=> Queued(r, x),
         \A x : InWriter(r, x)' <=> InWriter(r, x), \A x : Taken(r, x)' <=> Taken(r, x)
  PROVE  \E p : Places(r)' = {p}
<1>1. \A p : p \in Places(r)' <=> p \in Places(r)
  BY PlaceMember, PlaceMemberNext
<1>2. PICK p : Places(r) = {p}
  OBVIOUS
<1>3. Places(r)' = {p}
  BY <1>1, <1>2
<1>4. QED BY <1>3

\* A request that leaves a for b, and goes nowhere else, is in one place.
LEMMA Moves ==
  ASSUME NEW r \in Reqs, \E p : Places(r) = {p},
         NEW a \in Places(r), NEW b \in Places(r)', a \in Places(r)' => a = b,
         r \in unsent' => r \in unsent, wire' = r => wire = r \/ b = <<"wire", r>>,
         r \in dropped' => r \in dropped \/ b = <<"dropped", r>>,
         r \in lost' => r \in lost \/ b = <<"lost", r>>,
         InReader(r)' => InReader(r) \/ b = <<"reader", r>>,
         \A x : Pushed(r, x)' => Pushed(r, x) \/ b = <<"reader", x>>,
         Working(r)' => Working(r) \/ b = <<"worker", r>>,
         \A x : Queued(r, x)' => Queued(r, x) \/ b = <<"queue", x>>,
         \A x : InWriter(r, x)' => InWriter(r, x) \/ b = <<"writer", x>>,
         \A x : Taken(r, x)' => Taken(r, x) \/ b = <<"sent", x>>
  PROVE  \E p : Places(r)' = {p}
<1>1. \A p \in Places(r)' : p = b \/ p \in Places(r)
  BY PlaceMember, PlaceMemberNext
<1>2. Places(r) = {a}
  OBVIOUS
<1>3. Places(r)' = {b}
  BY <1>1, <1>2
<1>4. QED BY <1>3

\* What moves a request, and from where to where.
LEMMA ReaderMoves ==
  ASSUME IInv, PlaceInv, Reader, NEW r \in Reqs
  PROVE  \E p : Places(r)' = {p}
<1> USE DEF InReader, Pushed, Working, Queued, InWriter, Taken, PlaceInv
<1>0. /\ UNCHANGED <<unsent, dropped, lost, accepted, wres>>
      /\ work \in [Reqs -> {"none", "exec", "err", "put", "done"}]
  BY DEF Reader, Recv, RecvFails, TryPerformAction, TryPerformDiagnostics, CollectHooks, FindUnit,
     LookupAction, UnitHooks, UnknownType, Put, IInv, TypeInv, WorkerType
<1>1. CASE Recv
  <2>1. /\ rpc = "recv" /\ rpc' = "dispatch" /\ wire # None /\ wire' = None /\ rreq' = wire
        /\ UNCHANGED <<work, queue>>
    BY <1>1 DEF Recv
  <2>2. CASE r = wire
    <3>1. <<"wire", r>> \in Places(r) /\ <<"reader", r>> \in Places(r)'
      BY <2>1, <2>2, PlaceIs, PlaceIsNext DEF Handling
    <3>2. <<"wire", r>> \in Places(r)' => <<"wire", r>> = <<"reader", r>>
      BY <1>0, <2>1, <2>2, ConstantFacts, PlaceIsNext DEF Handling
    <3>3. QED BY <3>1, <3>2, <1>0, <2>1, <2>2, ConstantFacts, Moves DEF Handling
  <2>3. CASE r # wire
    BY <1>0, <2>1, <2>3, Stays, ConstantFacts DEF Handling
  <2>4. QED BY <2>2, <2>3
<1>2. ASSUME Handling, Handling', UNCHANGED <<wire, rreq, work, queue>> PROVE \E p : Places(r)' = {p}
  BY <1>0, <1>2, Stays DEF Handling
<1>3. ASSUME Handling, NEW x \in Response, x.id = rreq, rpc' = "put", rout' = x,
             UNCHANGED <<wire, rreq, work, queue>>
      PROVE  \E p : Places(r)' = {p}
  <2>1. CASE r = rreq
    <3>1. <<"reader", r>> \in Places(r) /\ <<"reader", x>> \in Places(r)'
      BY <1>3, <2>1, PlaceIs, PlaceIsNext
    <3>2. <<"reader", r>> \in Places(r)' => <<"reader", r>> = <<"reader", x>>
      BY <1>0, <1>3, <2>1, PlaceIsNext DEF Handling
    <3>3. QED BY <3>1, <3>2, <1>0, <1>3, <2>1, Moves DEF Handling
  <2>2. CASE r # rreq
    BY <1>0, <1>3, <2>2, Stays DEF Handling
  <2>3. QED BY <2>1, <2>2
<1>4. ASSUME Handling, rpc' = "recv", rreq \in Reqs, work' = [work EXCEPT ![rreq] = "exec"],
             UNCHANGED <<wire, rreq, queue>>
      PROVE  \E p : Places(r)' = {p}
  <2>1. \A q \in Reqs : work'[q] = IF q = rreq THEN "exec" ELSE work[q]
    BY <1>0, <1>4
  <2>2. CASE r = rreq
    <3>1. <<"reader", r>> \in Places(r) /\ <<"worker", r>> \in Places(r)'
      <4>1. InReader(r) /\ Working(r)'
        BY <1>4, <2>1, <2>2
      <4>2. QED BY <4>1, PlaceIs, PlaceIsNext
    <3>2. <<"reader", r>> \in Places(r)' => <<"reader", r>> = <<"worker", r>>
      BY <1>0, <1>4, <2>2, PlaceIsNext DEF Handling
    <3>3. QED BY <3>1, <3>2, <1>0, <1>4, <2>2, Moves DEF Handling
  <2>3. CASE r # rreq
    BY <1>0, <1>4, <2>1, <2>3, Stays DEF Handling
  <2>4. QED BY <2>2, <2>3
<1>5. CASE RecvFails
  <2>1. rpc = "recv" /\ rpc' \in {"done", "err"} /\ UNCHANGED <<wire, rreq, work, queue>>
    BY <1>5 DEF RecvFails
  <2>2. QED BY <1>0, <2>1, Stays DEF Handling
<1>6. CASE Put
  <2>1. /\ rpc = "put" /\ rpc' = "recv" /\ rout \in Response /\ queue' = queue \cup {rout}
        /\ UNCHANGED <<wire, rreq, work>>
    BY <1>6 DEF Put, IInv, HeldInv, ReaderHeld
  <2>2. CASE r = rout.id
    <3>1. <<"reader", rout>> \in Places(r) /\ <<"queue", rout>> \in Places(r)'
      BY <2>1, <2>2, PlaceIs, PlaceIsNext
    <3>2. <<"reader", rout>> \in Places(r)' => <<"reader", rout>> = <<"queue", rout>>
      BY <1>0, <2>1, <2>2, PlaceIsNext DEF Handling
    <3>3. QED BY <3>1, <3>2, <1>0, <2>1, <2>2, Moves DEF Handling
  <2>3. CASE r # rout.id
    BY <1>0, <2>1, <2>3, Stays DEF Handling
  <2>4. QED BY <2>2, <2>3
<1>7. CASE TryPerformAction
  BY <1>2, <1>7 DEF TryPerformAction, Goes, Handling
<1>8. CASE TryPerformDiagnostics
  <2>1. BadDiagParams = FALSE
    BY ActionsAssumption DEF ActionsAssumption
  <2>2. Goes("collect")
    BY <1>8, <2>1, Zenon DEF TryPerformDiagnostics
  <2>3. QED BY <1>2, <1>8, <2>2 DEF TryPerformDiagnostics, Goes, Handling
<1>9. ASSUME Handling, NEW why \in Results, Push(Failed(rreq, why), "recv"),
             UNCHANGED <<wire, rreq, queue>>
      PROVE  \E p : Places(r)' = {p}
  <2>1. rreq \in Reqs
    BY <1>9 DEF IInv, HeldInv, ReaderHeld
  <2>2. QED BY <1>3, <1>9, <2>1, ResponseType DEF Push
<1>10. ASSUME Handling, NEW u, Spawn(u), UNCHANGED <<wire, rreq, queue>>
       PROVE  \E p : Places(r)' = {p}
  BY <1>4, <1>10 DEF Spawn, IInv, HeldInv, ReaderHeld
<1>11. CASE UnknownType
  BY <1>9, <1>11 DEF UnknownType, Results, Handling
<1>12. CASE CollectHooks
  BY <1>2, <1>10, <1>12 DEF CollectHooks, Goes, Handling
<1>13. CASE FindUnit
  BY <1>2, <1>9, <1>13 DEF FindUnit, Goes, Results, Handling
<1>14. CASE LookupAction
  BY <1>9, <1>10, <1>14 DEF LookupAction, Results, Handling
<1>15. CASE UnitHooks
  BY <1>10, <1>15 DEF UnitHooks, Handling
<1>16. QED BY <1>1, <1>5, <1>6, <1>7, <1>8, <1>11, <1>12, <1>13, <1>14, <1>15 DEF Reader

LEMMA WorkerMoves ==
  ASSUME IInv, PlaceInv, NEW q \in Reqs, Worker(q), NEW r \in Reqs
  PROVE  \E p : Places(r)' = {p}
<1> USE DEF InReader, Pushed, Working, Queued, InWriter, Taken, PlaceInv
<1>0. /\ UNCHANGED <<unsent, wire, dropped, lost, rpc, rreq, rout, wres, accepted>>
      /\ work \in [Reqs -> {"none", "exec", "err", "put", "done"}]
      /\ answer \in [Reqs -> Response \cup {None}]
  BY DEF Worker, Execute, CallHooks, WorkerPut, IInv, TypeInv, WorkerType
<1>1. CASE Execute(q) \/ CallHooks(q)
  <2>1. queue' = queue /\ \A i \in Reqs : Working(i)' <=> Working(i)
    BY <1>0, <1>1 DEF Execute, CallHooks
  <2>2. QED BY <1>0, <2>1, Stays DEF Handling
<1>2. CASE WorkerPut(q)
  <2>1. /\ work[q] = "put" /\ answer[q] \in Response /\ answer[q].id = q
        /\ queue' = queue \cup {answer[q]}
        /\ \A i \in Reqs : work'[i] = IF i = q THEN "done" ELSE work[i]
    BY <1>0, <1>2 DEF WorkerPut, IInv, HeldInv, WorkerHeld
  <2>2. CASE r = q
    <3>1. <<"worker", r>> \in Places(r) /\ <<"queue", answer[q]>> \in Places(r)'
      BY <2>1, <2>2, PlaceIs, PlaceIsNext
    <3>2. <<"worker", r>> \in Places(r)' => <<"worker", r>> = <<"queue", answer[q]>>
      BY <1>0, <2>1, <2>2, PlaceIsNext DEF Handling
    <3>3. QED BY <3>1, <3>2, <1>0, <2>1, <2>2, Moves DEF Handling
  <2>3. CASE r # q
    BY <1>0, <2>1, <2>3, Stays DEF Handling
  <2>4. QED BY <2>2, <2>3
<1>3. QED BY <1>1, <1>2 DEF Worker

LEMMA WriterMoves ==
  ASSUME IInv, PlaceInv, Writer, NEW r \in Reqs
  PROVE  \E p : Places(r)' = {p}
<1> USE DEF InReader, Pushed, Working, Queued, InWriter, Taken, PlaceInv
<1>0. UNCHANGED <<unsent, wire, dropped, lost, rpc, rreq, rout, work>>
  BY DEF Writer, SendInit, ReaderDone, SendResponse, Requeue, TakeResponse
<1>1. ASSUME UNCHANGED <<queue, wres, accepted>> PROVE \E p : Places(r)' = {p}
  BY <1>0, <1>1, Stays DEF Handling
<1>2. CASE SendInit \/ ReaderDone
  BY <1>1, <1>2 DEF SendInit, ReaderDone
<1>3. ASSUME NEW x \in queue, TakeResponse(x) PROVE \E p : Places(r)' = {p}
  <2>1. queue' = queue \ {x} /\ wres' = x /\ wres = None /\ x # None /\ accepted' = accepted
    BY <1>3, ConstantFacts DEF TakeResponse, IInv, HeldInv, WriterHeld, TypeInv, QueueType
  <2>2. CASE r = x.id
    <3>1. <<"queue", x>> \in Places(r) /\ <<"writer", x>> \in Places(r)'
      BY <2>1, <2>2, PlaceIs, PlaceIsNext
    <3>2. <<"queue", x>> \in Places(r)' => <<"queue", x>> = <<"writer", x>>
      BY <1>0, <2>1, <2>2, PlaceIsNext DEF Handling
    <3>3. QED BY <3>1, <3>2, <1>0, <2>1, <2>2, Moves DEF Handling
  <2>3. CASE r # x.id
    BY <1>0, <2>1, <2>3, Stays DEF Handling
  <2>4. QED BY <2>2, <2>3
<1>4. CASE SendResponse
  <2>1. CASE UNCHANGED <<accepted, wres>>
    BY <1>1, <1>4, <2>1 DEF SendResponse
  <2>2. CASE accepted' = accepted \cup {wres} /\ wres' = None
    <3>1. wres # None /\ queue' = queue
      BY <1>4 DEF SendResponse, IInv, HeldInv, WriterHeld
    <3>2. CASE r = wres.id
      <4>1. <<"writer", wres>> \in Places(r) /\ <<"sent", wres>> \in Places(r)'
        BY <2>2, <3>1, <3>2, PlaceIs, PlaceIsNext
      <4>2. <<"writer", wres>> \in Places(r)' => <<"writer", wres>> = <<"sent", wres>>
        BY <1>0, <2>2, <3>1, <3>2, PlaceIsNext DEF Handling
      <4>3. QED BY <4>1, <4>2, <1>0, <2>2, <3>1, <3>2, Moves DEF Handling
    <3>3. CASE r # wres.id
      BY <1>0, <2>2, <3>1, <3>3, Stays DEF Handling
    <3>4. QED BY <3>2, <3>3
  <2>3. QED BY <1>4, <2>1, <2>2 DEF SendResponse
<1>5. CASE Requeue
  <2>1. wres # None /\ queue' = queue \cup {wres} /\ wres' = None /\ accepted' = accepted
    BY <1>5 DEF Requeue, IInv, HeldInv, WriterHeld
  <2>2. CASE r = wres.id
    <3>1. <<"writer", wres>> \in Places(r) /\ <<"queue", wres>> \in Places(r)'
      BY <2>1, <2>2, PlaceIs, PlaceIsNext
    <3>2. <<"writer", wres>> \in Places(r)' => <<"writer", wres>> = <<"queue", wres>>
      BY <1>0, <2>1, <2>2, PlaceIsNext DEF Handling
    <3>3. QED BY <3>1, <3>2, <1>0, <2>1, <2>2, Moves DEF Handling
  <2>3. CASE r # wres.id
    BY <1>0, <2>1, <2>3, Stays DEF Handling
  <2>4. QED BY <2>2, <2>3
<1>6. QED BY <1>2, <1>3, <1>4, <1>5 DEF Writer

LEMMA AgentMoves ==
  ASSUME PlaceInv, Agent, NEW r \in Reqs
  PROVE  \E p : Places(r)' = {p}
<1> USE DEF InReader, Pushed, Working, Queued, InWriter, Taken, PlaceInv
<1>0. UNCHANGED <<lost, rpc, rreq, rout, work, queue, wres, accepted>>
  BY DEF Agent, AgentClose, Break, AgentSend
<1>1. CASE AgentClose
  BY <1>0, <1>1, Stays DEF AgentClose, Handling
<1>2. CASE Break
  <2>1. wire' = None /\ dropped' = dropped \cup ({wire} \ {None}) /\ unsent' = unsent
    BY <1>2 DEF Break
  <2>2. CASE r = wire
    <3>1. <<"wire", r>> \in Places(r) /\ <<"dropped", r>> \in Places(r)'
      BY <2>1, <2>2, PlaceIs, PlaceIsNext, ConstantFacts
    <3>2. <<"wire", r>> \notin Places(r)'
      BY <2>1, <2>2, PlaceIsNext, ConstantFacts
    <3>3. QED BY <1>0, <2>1, <2>2, <3>1, <3>2, Moves, ConstantFacts DEF Handling
  <2>3. CASE r # wire
    BY <1>0, <2>1, <2>3, Stays, ConstantFacts DEF Handling
  <2>4. QED BY <2>2, <2>3
<1>3. ASSUME NEW q \in Reqs, AgentSend(q) PROVE \E p : Places(r)' = {p}
  <2>1. wire = None /\ wire' = q /\ q \in unsent /\ unsent' = unsent \ {q} /\ dropped' = dropped
    BY <1>3 DEF AgentSend
  <2>2. CASE r = q
    <3>1. <<"agent", r>> \in Places(r) /\ <<"wire", r>> \in Places(r)'
      BY <2>1, <2>2, PlaceIs, PlaceIsNext
    <3>2. <<"agent", r>> \notin Places(r)'
      BY <2>1, <2>2, PlaceIsNext
    <3>3. QED BY <1>0, <2>1, <2>2, <3>1, <3>2, Moves DEF Handling
  <2>3. CASE r # q
    BY <1>0, <2>1, <2>3, Stays, ConstantFacts DEF Handling
  <2>4. QED BY <2>2, <2>3
<1>4. QED BY <1>1, <1>2, <1>3 DEF Agent

LEMMA LoopMoves ==
  ASSUME IInv, PlaceInv, Loop \/ Stop \/ TakeError, NEW r \in Reqs
  PROVE  \E p : Places(r)' = {p}
<1> USE DEF InReader, Pushed, Working, Queued, InWriter, Taken, PlaceInv
<1>0. UNCHANGED <<unsent, lost, rreq, rout, queue, accepted>>
  BY DEF Loop, LoopCheck, Connect, ConnectFails, RoundTripDone, Backoff, StopReturns, Stop, TakeError
<1>1. CASE RoundTripDone
  <2>1. /\ wire' = None /\ dropped' = dropped \cup ({wire} \ {None}) /\ rpc = "done" /\ rpc' = "off"
        /\ UNCHANGED <<work, wres>>
    BY <1>1 DEF RoundTripDone
  <2>2. CASE r = wire
    <3>1. <<"wire", r>> \in Places(r) /\ <<"dropped", r>> \in Places(r)'
      BY <2>1, <2>2, PlaceIs, PlaceIsNext, ConstantFacts
    <3>2. <<"wire", r>> \notin Places(r)'
      BY <2>1, <2>2, PlaceIsNext, ConstantFacts
    <3>3. QED BY <1>0, <2>1, <2>2, <3>1, <3>2, Moves, ConstantFacts DEF Handling
  <2>3. CASE r # wire
    BY <1>0, <2>1, <2>3, Stays, ConstantFacts DEF Handling
  <2>4. QED BY <2>2, <2>3
<1>2. CASE Connect
  <2>1. /\ rpc = "off" /\ rpc' = "recv" /\ wres = None /\ wres' = None
        /\ UNCHANGED <<wire, dropped, work>>
    BY <1>2 DEF Connect, IInv, LoopInv, HeldInv, WriterHeld
  <2>2. QED BY <1>0, <2>1, Stays DEF Handling
<1>3. CASE LoopCheck \/ ConnectFails \/ Backoff \/ StopReturns \/ Stop
  BY <1>0, <1>3, Stays DEF LoopCheck, ConnectFails, Backoff, StopReturns, Stop, Handling
<1>4. CASE TakeError
  <2>1. /\ UNCHANGED <<wire, dropped, wres>> /\ (rpc' = rpc \/ (rpc = "err" /\ rpc' = "done"))
        /\ \/ work' = work
           \/ \E q \in Reqs : work[q] = "err" /\ work' = [work EXCEPT ![q] = "put"]
    BY <1>4 DEF TakeError
  <2>2. Working(r)' <=> Working(r)
    BY <2>1 DEF IInv, TypeInv, WorkerType
  <2>3. QED BY <1>0, <2>1, <2>2, Stays DEF Handling
<1>5. QED BY <1>1, <1>2, <1>3, <1>4 DEF Loop

\* Start gives up what the queue had and what its goroutines would put in it.
LEMMA StartMoves ==
  ASSUME IInv, PlaceInv, Start, NEW r \in Reqs
  PROVE  \E p : Places(r)' = {p}
<1> USE DEF InReader, Pushed, Working, Queued, InWriter, Taken, PlaceInv
<1>1. /\ UNCHANGED <<unsent, wire, dropped, rpc, rreq, rout, wres, accepted>> /\ queue' = {}
      /\ lost' = lost \cup {x.id : x \in queue} \cup {q \in Reqs : work[q] \notin {"none", "done"}}
      /\ ~Working(r)'
  BY DEF Start
<1>2. Working(r) <=> work[r] \notin {"none", "done"}
  BY DEF IInv, TypeInv, WorkerType
<1>3. CASE Working(r)
  <2>1. <<"worker", r>> \in Places(r) /\ <<"lost", r>> \in Places(r)' /\ <<"worker", r>> \notin Places(r)'
    BY <1>1, <1>2, <1>3, PlaceIs, PlaceIsNext
  <2>2. QED BY <1>1, <2>1, Moves DEF Handling
<1>4. ASSUME NEW x \in queue, x.id = r PROVE \E p : Places(r)' = {p}
  <2>1. <<"queue", x>> \in Places(r) /\ <<"lost", r>> \in Places(r)' /\ <<"queue", x>> \notin Places(r)'
    <3>1. Queued(r, x) /\ ~Queued(r, x)' /\ r \in lost'
      BY <1>1, <1>4
    <3>2. QED BY <3>1, PlaceIs, PlaceIsNext
  <2>2. QED BY <1>1, <2>1, Moves DEF Handling
<1>5. CASE ~Working(r) /\ \A x \in queue : x.id # r
  BY <1>1, <1>2, <1>5, Stays DEF Handling
<1>6. QED BY <1>3, <1>4, <1>5

\* PlaceInv is inductive relative to IInv.
LEMMA StepPlace == IInv /\ PlaceInv /\ [Next]_vars => PlaceInv'
<1> SUFFICES ASSUME IInv, PlaceInv, [Next]_vars PROVE PlaceInv'
  OBVIOUS
<1>1. rpc' = "put" => rnext' = "recv"
  <2>1. CASE TryPerformDiagnostics
    <3>1. BadDiagParams = FALSE
      BY ActionsAssumption DEF ActionsAssumption, PlaceInv
    <3>2. Goes("collect")
      BY <2>1, <3>1, Zenon DEF TryPerformDiagnostics
    <3>3. QED BY <3>2 DEF Goes
  <2>2. CASE Reader /\ ~TryPerformDiagnostics
    BY <2>2 DEF Reader, Recv, RecvFails, TryPerformAction, CollectHooks, FindUnit, LookupAction, UnitHooks,
       UnknownType, Put, Goes, Push, Spawn, PlaceInv
  <2>3. CASE Loop \/ Stop \/ Start \/ TakeError
    BY <2>3 DEF Loop, LoopCheck, Connect, ConnectFails, RoundTripDone, Backoff, StopReturns, Stop, Start,
       TakeError, PlaceInv
  <2>4. CASE Registry
    BY <2>4 DEF Registry, AddUnit, RemoveUnit, RegisterDiagnosticHook, RegisterAction, RegisterUnitHook,
       PlaceInv
  <2>5. CASE Writer \/ Agent
    BY <2>5 DEF Writer, SendInit, ReaderDone, SendResponse, Requeue, TakeResponse, Agent, AgentClose, Break,
       AgentSend, PlaceInv
  <2>6. ASSUME NEW q \in Reqs, Worker(q) PROVE rpc' = "put" => rnext' = "recv"
    BY <2>6 DEF Worker, Execute, CallHooks, WorkerPut, PlaceInv
  <2>7. CASE UNCHANGED vars
    BY <2>7 DEF vars, PlaceInv
  <2>8. QED BY <2>1, <2>2, <2>3, <2>4, <2>5, <2>6, <2>7 DEF Next, Terminated
<1>2. ASSUME NEW r \in Reqs PROVE \E p : Places(r)' = {p}
  <2>1. CASE Registry \/ UNCHANGED vars
    <3>1. UNCHANGED <<unsent, wire, dropped, lost, rpc, rreq, rout, work, queue, wres, accepted>>
      BY <2>1 DEF Registry, AddUnit, RemoveUnit, RegisterDiagnosticHook, RegisterAction, RegisterUnitHook, vars
    <3>2. QED BY <3>1, Stays DEF InReader, Pushed, Working, Queued, InWriter, Taken, Handling, PlaceInv
  <2>2. QED BY <2>1, LoopMoves, StartMoves, ReaderMoves, WorkerMoves, WriterMoves, AgentMoves
           DEF Next, Terminated
<1>3. QED BY <1>1, <1>2 DEF PlaceInv

LEMMA PlaceInvariant == Spec /\ ~BadDiagParams => []PlaceInv
<1>1. Init /\ ~BadDiagParams => PlaceInv
  <2> SUFFICES ASSUME Init, ~BadDiagParams PROVE PlaceInv
    OBVIOUS
  <2>1. ASSUME NEW r \in Reqs PROVE Places(r) = {<<"agent", r>>}
    <3>1. \A p : p \in Places(r) <=> p = <<"agent", r>>
      BY PlaceMember, ConstantFacts DEF Init, InReader, Pushed, Working, Queued, InWriter, Taken, Handling
    <3>2. QED BY <3>1
  <2>2. QED BY <2>1 DEF Init, PlaceInv
<1>2. QED BY ActionsInvariant, <1>1, StepPlace, PTL DEF Spec

\* With valid params, every request is in exactly one place, or its one
\* response is: sent once, or on its way, or lost only to a stream or to a Start
\* (client_v2.go:826-829, 950-954).
THEOREM EveryRequestInOnePlace == Spec /\ ~BadDiagParams => []Custody
<1>1. PlaceInv => Custody
  BY FS_Singleton DEF PlaceInv, Custody
<1>2. QED BY PlaceInvariant, <1>1, PTL

\* With valid params, a request is answered at most once
\* (elastic-agent-client.proto:441-442).
THEOREM AnsweredOnce == Spec /\ ~BadDiagParams => []AtMostOneResponse
<1>1. ASSUME PlaceInv, NEW r \in Reqs
      PROVE  Cardinality({x \in queue \cup accepted : x.id = r}) <= 1
  <2> DEFINE S == {x \in queue \cup accepted : x.id = r}
  <2>1. \A x, y \in S : x = y
    <3>1. \A x \in S : <<"queue", x>> \in Places(r) \/ <<"sent", x>> \in Places(r)
      BY PlaceMember DEF Queued, Taken
    <3>2. PICK p : Places(r) = {p}
      BY <1>1 DEF PlaceInv
    <3>3. \A x \in S : p = <<"queue", x>> \/ p = <<"sent", x>>
      BY <3>1, <3>2
    <3>4. QED BY <3>3
  <2>2. S = {} \/ \E x : S = {x}
    BY <2>1
  <2>3. Cardinality(S) \in {0, 1}
    BY <2>2, FS_EmptySet, FS_Singleton
  <2>4. QED BY <2>3
<1>2. PlaceInv => AtMostOneResponse
  BY <1>1 DEF AtMostOneResponse
<1>3. QED BY PlaceInvariant, <1>2, PTL
=============================================================================
