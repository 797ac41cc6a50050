---------------------------- MODULE ClientV1Proofs ----------------------------
(* Safety of the deprecated client for every set of requests, every capacity  *)
(* of the queue and every number of events and restarts: TypeOK,              *)
(* StoppedIsFinal and Custody.                                                *)
EXTENDS ClientV1, FiniteSetTheorems, TLAPS

\* What a step leaves alone is expanded everywhere.
USE DEF checkinVars, checkinReader, checkinWriter, checkinFields, checkinAgentVars,
        actsVars, clientVars, ReaderFrame, WriterFrame, AgentFrame,
        Acts!actionsReader, Acts!actionsWork, Acts!actionsWriter, Acts!actionsAgent,
        Acts!ReaderFrame, Acts!LookupFrame, Acts!WorkFrame, Acts!WriterFrame, Acts!AgentFrame

-----------------------------------------------------------------------------
(* The inductive invariants *)

LoopType ==
  /\ ctx \in {"live", "cancelled"} /\ events \in 0..MaxEvents
  /\ spc \in {"none", "waiting", "returned"} /\ starts \in 1..MaxStarts
CheckinType ==
  /\ cloop \in {"loop", "running", "exited"}
  /\ crd \in {"off", "recv", "handle", "onconfig", "done"} /\ cin \in Expected \cup {None}
  /\ cwr \in {"off", "sleep", "status", "compare", "done"}
  /\ widx \in Configs /\ wstat \in Configs /\ lastSent \in Report \cup {None}
  /\ expected \in {"RUNNING", "STOPPING"} /\ stops \in Nat
  /\ cfgs \in 0..events /\ observed \in 0..events /\ cdown \in Expected \cup {None}

\* Configs reach OnConfig in the order the agent has them: each one that is on
\* its way is at least as new as those before it.
ConfigInv ==
  /\ cfgIdx \in 0..cfgs /\ applied \in 0..cfgIdx
  /\ crd \in {"handle", "onconfig"} <=> cin # None
  /\ cin # None => cin.idx \in cfgIdx..cfgs
  /\ cdown # None => cdown.idx \in cfgIdx..cfgs
  /\ cin # None /\ cdown # None => cin.idx <= cdown.idx
  /\ crd = "onconfig" => cin.idx = cfgIdx

\* OnStop was called only by a reader that noted it, and no config is in the
\* hands of a reader that did.
StopInv ==
  /\ stops > 0 => expected = "STOPPING"
  /\ crd = "onconfig" => expected = "RUNNING"

ActsType ==
  /\ aloop \in {"loop", "running", "exited"}
  /\ ard \in {"off", "recv", "lookup", "put", "done"} /\ ain \in Reqs \cup {None}
  /\ aout \in Acts!Response \cup {None}
  /\ work \in [Reqs -> {"none", "exec", "put", "done"}]
  /\ answer \in [Reqs -> Acts!Response \cup {None}]
  /\ awr \in {"off", "init", "select", "send", "requeue", "done"}
  /\ held \in Acts!Response \cup {None} /\ accepted \subseteq Acts!Response
WireType == awire \in Reqs \cup {None}
QueueType == IsFiniteSet(queue) /\ queue \subseteq Acts!Response /\ Cardinality(queue) <= Cap

\* Who has to push or send a response has one, to the request it has.
HeldInv ==
  /\ ard \in {"lookup", "put"} <=> ain # None
  /\ ard = "put" => aout # None /\ aout.id = ain
  /\ \A r \in Reqs : work[r] = "put" => answer[r] # None /\ answer[r].id = r
  /\ awr \in {"send", "requeue"} <=> held # None

\* The goroutines of a stream run inside a round trip only; Stop waits for both
\* loops.
LoopInv ==
  /\ cloop # "running" => crd = "off"
  /\ aloop # "running" => ard = "off" /\ awr = "off"
  /\ spc = "returned" => cloop = "exited" /\ aloop = "exited"

IInv ==
  LoopType /\ CheckinType /\ ConfigInv /\ StopInv /\ ActsType /\ WireType /\ QueueType /\ HeldInv
  /\ LoopInv

\* Each request is in one place.
PlaceInv == \A r \in Reqs : \E p : Places(r) = {p}

-----------------------------------------------------------------------------
(* The start                                                                 *)

LEMMA ConstantFacts ==
  /\ IsFiniteSet(Reqs) /\ Cap \in Nat \ {0} /\ MaxStarts \in Nat \ {0} /\ MaxEvents \in Nat
  /\ None \notin Reqs /\ None \notin Acts!Response /\ None \notin Report /\ None \notin Expected
BY ClientV1Assumption, CheckinV1Assumption DEF ClientV1Assumption, CheckinV1Assumption

\* A response is one to its request.
LEMMA AnswerType ==
  ASSUME NEW r \in Reqs, NEW result \in {"success", "error", "action undefined", "bad params"}
  PROVE  Acts!Answer(r, result) \in Acts!Response /\ Acts!Answer(r, result).id = r
BY DEF Acts!Answer, Acts!Response

\* The actions count as the client does.
LEMMA SameCardinality == ASSUME NEW S PROVE Acts!Cardinality(S) = Cardinality(S)
BY DEF Acts!Cardinality, Cardinality

\* A put keeps the queue to its capacity.
LEMMA PutFits ==
  ASSUME QueueType, Acts!Room, NEW x \in Acts!Response, queue' = queue \cup {x}
  PROVE  QueueType'
<1>1. Cardinality(queue) \in Nat /\ Cardinality(queue) < Cap /\ IsFiniteSet(queue) /\ Cap \in Nat
  BY FS_CardinalityType, SameCardinality, ConstantFacts DEF QueueType, Acts!Room
<1>2. IsFiniteSet(queue') /\ Cardinality(queue') \in {Cardinality(queue), Cardinality(queue) + 1}
  BY <1>1, FS_AddElement
<1>3. Cardinality(queue') <= Cap
  BY <1>1, <1>2
<1>4. queue' \subseteq Acts!Response
  BY DEF QueueType
<1>5. QED BY <1>2, <1>3, <1>4 DEF QueueType

LEMMA InitInv == Init => IInv
<1> SUFFICES ASSUME Init PROVE IInv
  OBVIOUS
<1> USE ConstantFacts DEF Init, CheckinInit, Acts!ActionsInit
<1>1. LoopType
  BY DEF LoopType
<1>2. CheckinType
  BY DEF CheckinType, Configs
<1>3. ConfigInv /\ StopInv
  BY DEF ConfigInv, StopInv
<1>4. ActsType /\ WireType
  BY DEF ActsType, WireType
<1>5. QueueType
  BY FS_EmptySet DEF QueueType
<1>6. HeldInv /\ LoopInv
  BY DEF HeldInv, LoopInv
<1>7. QED BY <1>1, <1>2, <1>3, <1>4, <1>5, <1>6 DEF IInv

-----------------------------------------------------------------------------
(* The check-in                                                              *)

LEMMA EventBound ==
  ASSUME events \in 0..MaxEvents, Event
  PROVE  events' \in 0..MaxEvents /\ events' = events + 1
BY ConstantFacts DEF Event

\* The check-in leaves the loop of the client and the actions alone.
LEMMA CheckinEvents ==
  ASSUME IInv, CheckinNext
  PROVE  events' \in 0..MaxEvents /\ events' \in {events, events + 1}
<1>1. events \in 0..MaxEvents
  BY DEF IInv, LoopType
<1>2. CASE UNCHANGED events
  BY <1>1, <1>2
<1>3. CASE Event
  BY <1>1, <1>3, EventBound
<1>4. CheckinNext => UNCHANGED events \/ Event
  BY DEF CheckinNext, CheckinReader, CheckinRecv, CheckinRecvFails, Ignore, OnStop, StoreConfig, OnConfig,
     CheckinWriter, Tick, ReadStatus, WriterStops, SendReport, NothingNew,
     CheckinRetry, CheckinExits, Dial, DialFails, CheckinDone,
     CheckinAgent, AgentWants, AgentHears, AgentExpects, CheckinLost, Status
<1>5. QED BY <1>2, <1>3, <1>4

LEMMA CheckinReaderStep ==
  ASSUME IInv, CheckinReader PROVE CheckinType' /\ ConfigInv' /\ StopInv'
<1> USE ConstantFacts DEF IInv, CheckinType, LoopType
<1>1. cin # None => cin.state \in {"RUNNING", "STOPPING"} /\ cin.idx \in Nat
  BY DEF Expected, Configs
<1>2. cdown # None => cdown.idx \in Nat
  BY DEF Expected, Configs
<1>3. cfgs \in Nat /\ cfgIdx \in Nat /\ applied \in Nat
  BY DEF ConfigInv
<1>4. CASE CheckinRecv
  BY <1>1, <1>2, <1>3, <1>4 DEF CheckinRecv, ConfigInv, StopInv
<1>5. CASE CheckinRecvFails
  BY <1>5 DEF CheckinRecvFails, ConfigInv, StopInv
<1>6. CASE Ignore
  BY <1>6 DEF Ignore, ConfigInv, StopInv
<1>7. CASE OnStop
  BY <1>7 DEF OnStop, ConfigInv, StopInv
<1>8. CASE StoreConfig
  BY <1>1, <1>2, <1>3, <1>8 DEF StoreConfig, TakesConfig, ConfigInv, StopInv
<1>9. CASE OnConfig
  BY <1>1, <1>2, <1>3, <1>9 DEF OnConfig, ConfigInv, StopInv
<1>10. QED BY <1>4, <1>5, <1>6, <1>7, <1>8, <1>9 DEF CheckinReader

LEMMA CheckinWriterStep ==
  ASSUME IInv, CheckinWriter PROVE CheckinType' /\ ConfigInv' /\ StopInv'
<1> USE ConstantFacts DEF IInv, CheckinType, LoopType
<1>1. UNCHANGED <<events, cloop, checkinReader, checkinFields, cfgs, cdown>>
  BY DEF CheckinWriter, Tick, ReadStatus, WriterStops, SendReport, NothingNew
<1>2. ConfigInv' /\ StopInv'
  BY <1>1 DEF ConfigInv, StopInv
<1>3. cfgIdx \in Configs /\ observed \in Configs /\ 0 \in Configs
  BY DEF ConfigInv, Configs
<1>4. Current \in Report
  BY DEF Current, Report, Configs
<1>5. widx' \in Configs /\ wstat' \in Configs
  BY <1>3 DEF CheckinWriter, Tick, ReadStatus, WriterStops, SendReport, NothingNew
<1>6. lastSent' \in Report \cup {None} /\ cwr' \in {"off", "sleep", "status", "compare", "done"}
  BY <1>4 DEF CheckinWriter, Tick, ReadStatus, WriterStops, SendReport, NothingNew
<1>7. QED BY <1>1, <1>2, <1>5, <1>6

LEMMA CheckinRetryStep ==
  ASSUME IInv, CheckinRetry, events' \in {events, events + 1}
  PROVE  CheckinType' /\ ConfigInv' /\ StopInv'
<1> USE ConstantFacts DEF IInv, CheckinType, LoopType
<1>1. UNCHANGED <<cin, widx, wstat, checkinFields, cfgs>>
  BY DEF CheckinRetry, CheckinExits, Dial, DialFails, CheckinDone
<1>2. cdown' \in {cdown, None} /\ lastSent' \in {lastSent, None}
  BY DEF CheckinRetry, CheckinExits, Dial, DialFails, CheckinDone
<1>3. CheckinType'
  BY <1>1, <1>2 DEF CheckinRetry, CheckinExits, Dial, DialFails, CheckinDone
<1>4. crd' = crd \/ (cin = None /\ crd' \in {"recv", "off"})
  <2>1. CASE Dial
    BY <2>1 DEF Dial, LoopInv, ConfigInv
  <2>2. CASE CheckinDone
    BY <2>2 DEF CheckinDone, ConfigInv
  <2>3. CASE CheckinExits \/ DialFails
    BY <2>3 DEF CheckinExits, DialFails
  <2>4. QED BY <2>1, <2>2, <2>3 DEF CheckinRetry
<1>5. QED BY <1>1, <1>2, <1>3, <1>4 DEF ConfigInv, StopInv

LEMMA CheckinEnvironmentStep ==
  ASSUME IInv, CheckinAgent \/ Status
  PROVE  CheckinType' /\ ConfigInv' /\ StopInv'
<1> USE ConstantFacts DEF IInv, CheckinType, LoopType
<1>1. UNCHANGED <<cloop, checkinReader, checkinWriter, cfgIdx, expected, stops, applied>>
  BY DEF CheckinAgent, AgentWants, AgentHears, AgentExpects, CheckinLost, Status
<1>2. cin # None => cin.idx \in Nat
  BY DEF Expected, Configs
<1>3. cfgs \in Nat /\ cfgIdx \in Nat /\ events \in Nat
  BY DEF ConfigInv
<1>4. CASE AgentWants
  <2>1. cfgs' \in {cfgs, cfgs + 1} /\ events' = events + 1 /\ UNCHANGED <<cdown, observed>>
    BY <1>4, EventBound DEF AgentWants
  <2>2. QED BY <1>1, <1>2, <1>3, <2>1 DEF ConfigInv, StopInv
<1>5. CASE AgentHears
  BY <1>1, <1>5 DEF AgentHears, ConfigInv, StopInv
<1>6. CASE AgentExpects
  <2>1. PICK st \in {"RUNNING", "STOPPING"} : cdown' = [state |-> st, idx |-> cfgs]
    BY <1>6 DEF AgentExpects
  <2>2. cdown' \in Expected /\ cdown'.idx = cfgs
    BY <1>3, <2>1 DEF Expected, Configs
  <2>3. UNCHANGED <<events, cfgs, observed>>
    BY <1>6 DEF AgentExpects
  <2>4. QED BY <1>1, <1>2, <1>3, <2>2, <2>3 DEF ConfigInv, StopInv
<1>7. CASE CheckinLost
  <2>1. cdown' \in {cdown, None} /\ events' = events + 1 /\ UNCHANGED <<cfgs, observed>>
    BY <1>7, EventBound DEF CheckinLost
  <2>2. QED BY <1>1, <1>3, <2>1 DEF ConfigInv, StopInv
<1>8. CASE Status
  <2>1. observed' = observed + 1 /\ events' = events + 1 /\ UNCHANGED <<cfgs, cdown>>
    BY <1>8, EventBound DEF Status
  <2>2. QED BY <1>1, <1>3, <2>1 DEF ConfigInv, StopInv
<1>9. QED BY <1>4, <1>5, <1>6, <1>7, <1>8 DEF CheckinAgent

-----------------------------------------------------------------------------
(* The actions                                                               *)

\* The names of the steps of the actions, taken apart.
LEMMA ActionsEvents ==
  ASSUME IInv, Acts!ActionsNext
  PROVE  events' \in 0..MaxEvents /\ events' \in {events, events + 1}
<1>1. events \in 0..MaxEvents
  BY DEF IInv, LoopType
<1>2. Acts!ActionsNext => UNCHANGED events \/ Acts!Event
  BY DEF Acts!ActionsNext, Acts!ActionsReader, Acts!ActionsRecv, Acts!ActionsRecvFails, Acts!StartWork, Acts!Refuse,
     Acts!ReaderPut, Acts!ActionsWriter, Acts!ActionsSendInit, Acts!ActionsWriterStops, Acts!ActionsSend,
     Acts!PutBack, Acts!Take, Acts!ActionsWorker, Acts!Execute, Acts!WorkerPut, Acts!ActionsRetry,
     Acts!ActionsExit, Acts!ActionsDial, Acts!ActionsDialFails, Acts!ActionsDone, Acts!ActionsLost,
     Acts!AgentRequests, Acts!Register
<1>3. QED BY <1>1, <1>2, ConstantFacts DEF Acts!Event

LEMMA ActionsReaderStep ==
  ASSUME IInv, Acts!ActionsReader PROVE ActsType' /\ QueueType' /\ HeldInv'
<1> USE ConstantFacts DEF IInv, ActsType, HeldInv
<1>1. UNCHANGED <<aloop, awr, held, accepted, answer>>
  BY DEF Acts!ActionsReader, Acts!ActionsRecv, Acts!ActionsRecvFails, Acts!StartWork, Acts!Refuse, Acts!ReaderPut
<1>2. CASE Acts!ActionsRecv
  BY <1>1, <1>2 DEF Acts!ActionsRecv, WireType, QueueType
<1>3. CASE Acts!ActionsRecvFails
  BY <1>1, <1>3 DEF Acts!ActionsRecvFails, QueueType
<1>4. CASE Acts!StartWork
  BY <1>1, <1>4 DEF Acts!StartWork, QueueType
<1>5. CASE Acts!Refuse
  <2>1. ain \in Reqs /\ ard' = "put" /\ UNCHANGED <<ain, work, queue>>
    BY <1>5 DEF Acts!Refuse
  <2>2. PICK why \in {"bad params", "action undefined"} : aout' = Acts!Answer(ain, why)
    BY <1>5 DEF Acts!Refuse
  <2>3. aout' \in Acts!Response /\ aout'.id = ain
    BY <2>1, <2>2, AnswerType
  <2>4. QED BY <1>1, <2>1, <2>3 DEF QueueType
<1>6. CASE Acts!ReaderPut
  <2>1. aout \in Acts!Response
    BY <1>6 DEF Acts!ReaderPut
  <2>2. QueueType'
    BY <1>6, <2>1, PutFits DEF Acts!ReaderPut
  <2>3. QED BY <1>1, <1>6, <2>2 DEF Acts!ReaderPut
<1>7. QED BY <1>2, <1>3, <1>4, <1>5, <1>6 DEF Acts!ActionsReader

LEMMA ActionsWorkerStep ==
  ASSUME IInv, NEW r \in Reqs, Acts!ActionsWorker(r) PROVE ActsType' /\ QueueType' /\ HeldInv'
<1> USE ConstantFacts DEF IInv, ActsType, HeldInv
<1>1. UNCHANGED <<aloop, ard, ain, aout, awr, held, accepted>>
  BY DEF Acts!ActionsWorker, Acts!Execute, Acts!WorkerPut
<1>2. CASE Acts!Execute(r)
  <2>1. PICK result \in {"success", "error"} : answer' = [answer EXCEPT ![r] = Acts!Answer(r, result)]
    BY <1>2 DEF Acts!Execute
  <2>2. Acts!Answer(r, result) \in Acts!Response /\ Acts!Answer(r, result).id = r
    BY AnswerType
  <2>3. work' = [work EXCEPT ![r] = "put"] /\ queue' = queue
    BY <1>2 DEF Acts!Execute
  <2>4. ActsType' /\ QueueType'
    BY <1>1, <2>1, <2>2, <2>3 DEF QueueType
  <2>5. \A q \in Reqs : work'[q] = "put" => answer'[q] # None /\ answer'[q].id = q
    BY <2>1, <2>2, <2>3
  <2>6. QED BY <1>1, <2>4, <2>5
<1>3. CASE Acts!WorkerPut(r)
  <2>1. answer[r] \in Acts!Response
    BY <1>3 DEF Acts!WorkerPut
  <2>2. QueueType'
    BY <1>3, <2>1, PutFits DEF Acts!WorkerPut
  <2>3. answer' = [answer EXCEPT ![r] = None] /\ work' = [work EXCEPT ![r] = "done"]
    BY <1>3 DEF Acts!WorkerPut
  <2>4. \A q \in Reqs : work'[q] = "put" => answer'[q] # None /\ answer'[q].id = q
    BY <2>3
  <2>5. QED BY <1>1, <2>2, <2>3, <2>4
<1>4. QED BY <1>2, <1>3 DEF Acts!ActionsWorker

LEMMA ActionsWriterStep ==
  ASSUME IInv, Acts!ActionsWriter PROVE ActsType' /\ QueueType' /\ HeldInv'
<1> USE ConstantFacts DEF IInv, ActsType, HeldInv
<1>1. UNCHANGED <<aloop, ard, ain, aout, work, answer>>
  BY DEF Acts!ActionsWriter, Acts!ActionsSendInit, Acts!ActionsWriterStops, Acts!ActionsSend, Acts!PutBack, Acts!Take
<1>2. CASE Acts!ActionsSendInit \/ Acts!ActionsWriterStops
  BY <1>1, <1>2 DEF Acts!ActionsSendInit, Acts!ActionsWriterStops, QueueType
<1>3. CASE Acts!ActionsSend
  BY <1>1, <1>3 DEF Acts!ActionsSend, QueueType
<1>4. CASE Acts!PutBack
  <2>1. held \in Acts!Response
    BY <1>4 DEF Acts!PutBack
  <2>2. QueueType'
    BY <1>4, <2>1, PutFits DEF Acts!PutBack
  <2>3. QED BY <1>1, <1>4, <2>2 DEF Acts!PutBack
<1>5. ASSUME NEW x \in queue, Acts!Take(x) PROVE ActsType' /\ QueueType' /\ HeldInv'
  <2>1. queue' = queue \ {x} /\ held' = x /\ awr' = "send" /\ accepted' = accepted
    BY <1>5 DEF Acts!Take
  <2>2. x \in Acts!Response
    BY <1>5 DEF QueueType
  <2>3. QueueType'
    <3>1. IsFiniteSet(queue) /\ Cardinality(queue) \in Nat /\ Cardinality(queue) <= Cap
      BY FS_CardinalityType DEF QueueType
    <3>2. IsFiniteSet(queue') /\ Cardinality(queue') = Cardinality(queue) - 1
      BY <1>5, <2>1, <3>1, FS_RemoveElement
    <3>3. Cardinality(queue') <= Cap
      BY <3>1, <3>2
    <3>4. QED BY <2>1, <3>2, <3>3 DEF QueueType
  <2>4. QED BY <1>1, <2>1, <2>2, <2>3
<1>6. QED BY <1>2, <1>3, <1>4, <1>5 DEF Acts!ActionsWriter

LEMMA ActionsRetryStep ==
  ASSUME IInv, Acts!ActionsRetry PROVE ActsType' /\ QueueType' /\ HeldInv'
<1>1. UNCHANGED <<ain, aout, work, answer, queue, held, accepted>>
  BY DEF Acts!ActionsRetry, Acts!ActionsExit, Acts!ActionsDial, Acts!ActionsDialFails, Acts!ActionsDone
<1>2. /\ aloop' \in {"loop", "running", "exited"}
      /\ \/ UNCHANGED <<ard, awr>>
         \/ ard \in {"off", "done"} /\ awr \in {"off", "done"} /\ ard' \in {"off", "recv"} /\ awr' \in {"off", "init"}
  BY DEF IInv, LoopInv, ActsType, Acts!ActionsRetry, Acts!ActionsExit, Acts!ActionsDial, Acts!ActionsDialFails, Acts!ActionsDone
<1>3. ActsType'
  BY <1>1, <1>2 DEF IInv, ActsType
<1>4. QueueType'
  BY <1>1 DEF IInv, QueueType
<1>5. HeldInv'
  BY <1>1, <1>2 DEF IInv, HeldInv
<1>6. QED BY <1>3, <1>4, <1>5

LEMMA ActionsEnvironmentStep ==
  ASSUME IInv, Acts!ActionsLost \/ (\E r \in Reqs : Acts!AgentRequests(r) \/ Acts!Register(r))
  PROVE  ActsType' /\ QueueType' /\ HeldInv'
<1>1. UNCHANGED <<aloop, ard, ain, aout, work, answer, queue, awr, held, accepted>>
  BY DEF Acts!ActionsLost, Acts!AgentRequests, Acts!Register
<1>2. QED BY <1>1 DEF IInv, ActsType, QueueType, HeldInv

-----------------------------------------------------------------------------
(* The client                                                                *)

LEMMA StepLoop == LoopInv /\ [Next]_vars => LoopInv'
<1> SUFFICES ASSUME LoopInv, [Next]_vars PROVE LoopInv'
  OBVIOUS
<1> USE DEF LoopInv
<1>1. CASE CheckinNext /\ UNCHANGED <<actsVars, clientVars>>
  BY <1>1 DEF CheckinNext, CheckinReader, CheckinRecv, CheckinRecvFails, Ignore, OnStop, StoreConfig, TakesConfig,
     OnConfig, CheckinWriter, Tick, ReadStatus, WriterStops, SendReport, NothingNew,
     CheckinRetry, CheckinExits, Dial, DialFails, CheckinDone,
     CheckinAgent, AgentWants, AgentHears, AgentExpects, CheckinLost, Status
<1>2. CASE Acts!ActionsNext /\ UNCHANGED <<checkinVars, clientVars>>
  BY <1>2 DEF Acts!ActionsNext, Acts!ActionsReader, Acts!ActionsRecv, Acts!ActionsRecvFails, Acts!StartWork,
     Acts!Refuse, Acts!ReaderPut, Acts!ActionsWriter, Acts!ActionsSendInit, Acts!ActionsWriterStops,
     Acts!ActionsSend, Acts!PutBack, Acts!Take, Acts!ActionsWorker, Acts!Execute, Acts!WorkerPut,
     Acts!ActionsRetry, Acts!ActionsExit, Acts!ActionsDial, Acts!ActionsDialFails, Acts!ActionsDone,
     Acts!ActionsLost, Acts!AgentRequests, Acts!Register
<1>3. CASE Stop \/ StopReturns \/ Start \/ Terminated \/ UNCHANGED vars
  BY <1>3 DEF Stop, StopReturns, Start, Terminated, vars
<1>4. QED BY <1>1, <1>2, <1>3 DEF Next

LEMMA StepCheckin ==
  ASSUME IInv, CheckinNext, UNCHANGED <<actsVars, clientVars>> PROVE IInv'
<1>1. events' \in 0..MaxEvents /\ events' \in {events, events + 1}
  BY CheckinEvents
<1>2. CheckinType' /\ ConfigInv' /\ StopInv'
  BY <1>1, CheckinReaderStep, CheckinWriterStep, CheckinRetryStep, CheckinEnvironmentStep DEF CheckinNext
<1>3. LoopType'
  BY <1>1 DEF IInv, LoopType
<1>4. ActsType' /\ WireType' /\ QueueType' /\ HeldInv'
  BY DEF IInv, ActsType, WireType, QueueType, HeldInv
<1>5. LoopInv'
  BY StepLoop DEF IInv, Next
<1>6. QED BY <1>2, <1>3, <1>4, <1>5 DEF IInv

LEMMA StepActions ==
  ASSUME IInv, Acts!ActionsNext, UNCHANGED <<checkinVars, clientVars>> PROVE IInv'
<1>1. events' \in 0..MaxEvents /\ events' \in {events, events + 1}
  BY ActionsEvents
<1>2. ActsType' /\ QueueType' /\ HeldInv'
  BY ActionsReaderStep, ActionsWriterStep, ActionsRetryStep, ActionsWorkerStep, ActionsEnvironmentStep
     DEF Acts!ActionsNext
<1>3. WireType'
  BY DEF IInv, WireType, Acts!ActionsNext, Acts!ActionsReader, Acts!ActionsRecv, Acts!ActionsRecvFails,
     Acts!StartWork, Acts!Refuse, Acts!ReaderPut, Acts!ActionsWriter, Acts!ActionsSendInit,
     Acts!ActionsWriterStops, Acts!ActionsSend, Acts!PutBack, Acts!Take, Acts!ActionsWorker, Acts!Execute,
     Acts!WorkerPut, Acts!ActionsRetry, Acts!ActionsExit, Acts!ActionsDial, Acts!ActionsDialFails,
     Acts!ActionsDone, Acts!ActionsLost, Acts!AgentRequests, Acts!Register
<1>4. LoopType'
  BY <1>1 DEF IInv, LoopType
<1>5. CheckinType'
  BY <1>1, ConstantFacts DEF IInv, CheckinType, LoopType
<1>6. ConfigInv' /\ StopInv'
  BY DEF IInv, ConfigInv, StopInv
<1>7. LoopInv'
  BY StepLoop DEF IInv, Next
<1>8. QED BY <1>2, <1>3, <1>4, <1>5, <1>6, <1>7 DEF IInv

\* Start makes a queue; what was before it in the old one is lost.
LEMMA StepStart == ASSUME IInv, Start PROVE IInv'
<1>1. LoopType'
  BY ConstantFacts DEF IInv, LoopType, Start
<1>2. CheckinType' /\ ConfigInv' /\ StopInv'
  BY DEF IInv, CheckinType, ConfigInv, StopInv, Start
<1>3. work' \in [Reqs -> {"none", "exec", "put", "done"}] /\ answer' \in [Reqs -> Acts!Response \cup {None}]
  BY DEF Start
<1>4. UNCHANGED <<ard, ain, aout, awr, held, accepted, awire>> /\ aloop' = "loop" /\ queue' = {}
  BY DEF Start
<1>5. ActsType' /\ WireType'
  BY <1>3, <1>4 DEF IInv, ActsType, WireType
<1>6. QueueType'
  BY <1>4, FS_EmptySet, ConstantFacts DEF QueueType
<1>7. \A r \in Reqs : work'[r] # "put"
  BY DEF Start
<1>8. HeldInv'
  BY <1>4, <1>7 DEF IInv, HeldInv
<1>9. LoopInv'
  BY StepLoop DEF IInv, Next
<1>10. QED BY <1>1, <1>2, <1>5, <1>6, <1>8, <1>9 DEF IInv

LEMMA StepInv == IInv /\ [Next]_vars => IInv'
<1> SUFFICES ASSUME IInv, [Next]_vars PROVE IInv'
  OBVIOUS
<1>1. CASE Stop \/ StopReturns \/ Terminated \/ UNCHANGED vars
  <2>1. UNCHANGED <<checkinVars, actsVars, starts, lost, events>>
    BY <1>1 DEF Stop, StopReturns, Terminated, vars
  <2>2. LoopType'
    BY <1>1, <2>1 DEF IInv, LoopType, Stop, StopReturns, Terminated, vars
  <2>3. CheckinType' /\ ConfigInv' /\ StopInv'
    BY <2>1 DEF IInv, CheckinType, ConfigInv, StopInv
  <2>4. ActsType' /\ WireType' /\ QueueType' /\ HeldInv'
    BY <2>1 DEF IInv, ActsType, WireType, QueueType, HeldInv
  <2>5. LoopInv'
    BY StepLoop DEF IInv
  <2>6. QED BY <2>2, <2>3, <2>4, <2>5 DEF IInv
<1>2. QED BY <1>1, StepCheckin, StepActions, StepStart DEF Next

LEMMA ClientInvariant == Spec => []IInv
BY InitInv, StepInv, PTL DEF Spec

\* Every variable of the deprecated client has its type; the queue keeps to its
\* capacity, and no config is applied before it is stored, or stored before the
\* agent has it (client.go:220-236).
THEOREM TypeCorrect == Spec => []TypeOK
<1>1. IInv => TypeOK
  BY DEF IInv, LoopType, CheckinType, ConfigInv, ActsType, QueueType, TypeOK, Configs
<1>2. QED BY ClientInvariant, <1>1, PTL

\* Once a client was asked to stop, no reader of any later stream, before or after
\* a restart, calls OnStop or OnConfig (client.go:220-229).
THEOREM StopIsForGood == Spec => StoppedIsFinal
<1>1. IInv /\ [Next]_vars => [stops > 0 => UNCHANGED <<stops, applied>>]_vars
  <2> SUFFICES ASSUME IInv, [Next]_vars, stops > 0 PROVE UNCHANGED <<stops, applied>>
    OBVIOUS
  <2>1. expected = "STOPPING" /\ crd # "onconfig"
    BY DEF IInv, StopInv
  <2>2. CASE CheckinNext
    BY <2>1, <2>2 DEF CheckinNext, CheckinReader, CheckinRecv, CheckinRecvFails, Ignore, OnStop, StoreConfig,
       TakesConfig, OnConfig, CheckinWriter, Tick, ReadStatus, WriterStops, SendReport, NothingNew,
       CheckinRetry, CheckinExits, Dial, DialFails, CheckinDone,
       CheckinAgent, AgentWants, AgentHears, AgentExpects, CheckinLost, Status
  <2>3. CASE UNCHANGED checkinVars \/ Stop \/ StopReturns \/ Start \/ Terminated \/ UNCHANGED vars
    BY <2>3 DEF Stop, StopReturns, Start, Terminated, vars
  <2>4. QED BY <2>2, <2>3 DEF Next
<1>2. QED BY ClientInvariant, <1>1, PTL DEF Spec, StoppedIsFinal

-----------------------------------------------------------------------------
(* Custody                                                                   *)

\* Who may have request r, or response x to it.
InReader(r) == ard \in {"lookup", "put"} /\ ain = r
Working(r) == work[r] \in {"exec", "put"}
Queued(r, x) == x \in queue /\ x.id = r
InWriter(r, x) == held # None /\ held = x /\ x.id = r
Taken(r, x) == x \in accepted /\ x.id = r

LEMMA PlaceMember ==
  ASSUME NEW r \in Reqs, NEW p
  PROVE  p \in Places(r) <=>
           \/ r \in unsent /\ p = <<"agent", r>>
           \/ awire = r /\ p = <<"wire", r>>
           \/ r \in agone /\ p = <<"gone", r>>
           \/ r \in lost /\ p = <<"lost", r>>
           \/ InReader(r) /\ p = <<"reader", r>>
           \/ Working(r) /\ p = <<"worker", r>>
           \/ \E x : Queued(r, x) /\ p = <<"queue", x>>
           \/ \E x : InWriter(r, x) /\ p = <<"writer", x>>
           \/ \E x : Taken(r, x) /\ p = <<"sent", x>>
BY DEF Places, InReader, Working, Queued, InWriter, Taken

LEMMA PlaceMemberNext ==
  ASSUME NEW r \in Reqs, NEW p
  PROVE  p \in Places(r)' <=>
           \/ r \in unsent' /\ p = <<"agent", r>>
           \/ awire' = r /\ p = <<"wire", r>>
           \/ r \in agone' /\ p = <<"gone", r>>
           \/ r \in lost' /\ p = <<"lost", r>>
           \/ InReader(r)' /\ p = <<"reader", r>>
           \/ Working(r)' /\ p = <<"worker", r>>
           \/ \E x : Queued(r, x)' /\ p = <<"queue", x>>
           \/ \E x : InWriter(r, x)' /\ p = <<"writer", x>>
           \/ \E x : Taken(r, x)' /\ p = <<"sent", x>>
BY DEF Places, InReader, Working, Queued, InWriter, Taken

\* A request nobody touches stays where it is.
LEMMA Stays ==
  ASSUME NEW r \in Reqs, \E p : Places(r) = {p},
         (r \in unsent') <=> (r \in unsent), (awire' = r) <=> (awire = r),
         (r \in agone') <=> (r \in agone), (r \in lost') <=> (r \in lost),
         InReader(r)' <=> InReader(r), Working(r)' <=> Working(r),
         \A x : Queued(r, x)' <=> Queued(r, x), \A x : InWriter(r, x)' <=> InWriter(r, x),
         \A x : Taken(r, x)' <=> Taken(r, x)
  PROVE  \E p : Places(r)' = {p}
<1>1. \A p : p \in Places(r)' <=> p \in Places(r)
  BY PlaceMember, PlaceMemberNext
<1>2. PICK p : Places(r) = {p}
  OBVIOUS
<1>3. Places(r)' = {p}
  BY <1>1, <1>2
<1>4. QED BY <1>3

\* A request that leaves a for b, and goes nowhere else, is in one place.
LEMMA Moves ==
  ASSUME NEW r \in Reqs, \E p : Places(r) = {p},
         NEW a \in Places(r), NEW b \in Places(r)', a \notin Places(r)',
         r \in unsent' => r \in unsent, awire' = r => awire = r \/ b = <<"wire", r>>,
         r \in agone' => r \in agone \/ b = <<"gone", r>>,
         r \in lost' => r \in lost \/ b = <<"lost", r>>,
         InReader(r)' => InReader(r) \/ b = <<"reader", r>>,
         Working(r)' => Working(r) \/ b = <<"worker", r>>,
         \A x : Queued(r, x)' => Queued(r, x) \/ b = <<"queue", x>>,
         \A x : InWriter(r, x)' => InWriter(r, x) \/ b = <<"writer", x>>,
         \A x : Taken(r, x)' => Taken(r, x) \/ b = <<"sent", x>>
  PROVE  \E p : Places(r)' = {p}
<1>1. \A p \in Places(r)' : p = b \/ p \in Places(r)
  BY PlaceMember, PlaceMemberNext
<1>2. Places(r) = {a}
  OBVIOUS
<1>3. Places(r)' = {b}
  BY <1>1, <1>2
<1>4. QED BY <1>3

\* Each place by itself, before and after a step.
LEMMA PlaceIs ==
  ASSUME NEW r \in Reqs, NEW x
  PROVE  /\ <<"agent", r>> \in Places(r) <=> r \in unsent
         /\ <<"wire", r>> \in Places(r) <=> awire = r
         /\ <<"reader", r>> \in Places(r) <=> InReader(r)
         /\ <<"worker", r>> \in Places(r) <=> Working(r)
         /\ <<"queue", x>> \in Places(r) <=> Queued(r, x)
         /\ <<"writer", x>> \in Places(r) <=> InWriter(r, x)
BY PlaceMember

LEMMA PlaceIsNext ==
  ASSUME NEW r \in Reqs, NEW x
  PROVE  /\ <<"agent", r>> \in Places(r)' <=> r \in unsent'
         /\ <<"wire", r>> \in Places(r)' <=> awire' = r
         /\ <<"gone", r>> \in Places(r)' <=> r \in agone'
         /\ <<"lost", r>> \in Places(r)' <=> r \in lost'
         /\ <<"reader", r>> \in Places(r)' <=> InReader(r)'
         /\ <<"worker", r>> \in Places(r)' <=> Working(r)'
         /\ <<"queue", x>> \in Places(r)' <=> Queued(r, x)'
         /\ <<"writer", x>> \in Places(r)' <=> InWriter(r, x)'
         /\ <<"sent", x>> \in Places(r)' <=> Taken(r, x)'
BY PlaceMemberNext

LEMMA ReaderMoves ==
  ASSUME IInv, PlaceInv, Acts!ActionsReader, UNCHANGED lost, NEW r \in Reqs
  PROVE  \E p : Places(r)' = {p}
<1> USE ConstantFacts DEF InReader, Working, Queued, InWriter, Taken, PlaceInv
<1>0. UNCHANGED <<unsent, agone, held, accepted>> /\ work \in [Reqs -> {"none", "exec", "put", "done"}]
  BY DEF Acts!ActionsReader, Acts!ActionsRecv, Acts!ActionsRecvFails, Acts!StartWork, Acts!Refuse, Acts!ReaderPut,
     IInv, ActsType
<1>1. CASE Acts!ActionsRecv
  <2>1. /\ ard = "recv" /\ ard' = "lookup" /\ ain' = awire /\ awire' = None
        /\ UNCHANGED <<work, queue>>
    BY <1>1 DEF Acts!ActionsRecv
  <2>2. CASE r = awire
    <3>1. <<"wire", r>> \in Places(r) /\ <<"reader", r>> \in Places(r)' /\ <<"wire", r>> \notin Places(r)'
      BY <2>1, <2>2, PlaceIs, PlaceIsNext
    <3>2. QED BY <3>1, <1>0, <2>1, <2>2, Moves
  <2>3. CASE r # awire
    BY <1>0, <2>1, <2>3, Stays
  <2>4. QED BY <2>2, <2>3
<1>2. CASE Acts!ActionsRecvFails
  <2>1. ard = "recv" /\ ard' = "done" /\ UNCHANGED <<ain, awire, work, queue>>
    BY <1>2 DEF Acts!ActionsRecvFails
  <2>2. QED BY <1>0, <2>1, Stays
<1>3. CASE Acts!StartWork
  <2>1. /\ ard = "lookup" /\ ard' = "recv" /\ ain \in Reqs /\ UNCHANGED <<awire, queue>>
        /\ \A q \in Reqs : work'[q] = IF q = ain THEN "exec" ELSE work[q]
    BY <1>0, <1>3 DEF Acts!StartWork, IInv, HeldInv, ActsType
  <2>2. CASE r = ain
    <3>1. <<"reader", r>> \in Places(r) /\ <<"worker", r>> \in Places(r)' /\ <<"reader", r>> \notin Places(r)'
      BY <2>1, <2>2, PlaceIs, PlaceIsNext
    <3>2. QED BY <3>1, <1>0, <2>1, <2>2, Moves
  <2>3. CASE r # ain
    BY <1>0, <2>1, <2>3, Stays
  <2>4. QED BY <2>2, <2>3
<1>4. CASE Acts!Refuse
  <2>1. ard = "lookup" /\ ard' = "put" /\ UNCHANGED <<ain, awire, work, queue>>
    BY <1>4 DEF Acts!Refuse
  <2>2. QED BY <1>0, <2>1, Stays
<1>5. CASE Acts!ReaderPut
  <2>1. /\ ard = "put" /\ ard' = "recv" /\ aout.id = ain /\ queue' = queue \cup {aout}
        /\ UNCHANGED <<awire, work>>
    BY <1>5 DEF Acts!ReaderPut, IInv, HeldInv
  <2>2. CASE r = ain
    <3>1. <<"reader", r>> \in Places(r) /\ <<"queue", aout>> \in Places(r)' /\ <<"reader", r>> \notin Places(r)'
      BY <2>1, <2>2, PlaceIs, PlaceIsNext
    <3>2. QED BY <3>1, <1>0, <2>1, <2>2, Moves
  <2>3. CASE r # ain
    BY <1>0, <2>1, <2>3, Stays
  <2>4. QED BY <2>2, <2>3
<1>6. QED BY <1>1, <1>2, <1>3, <1>4, <1>5 DEF Acts!ActionsReader

LEMMA WorkerMoves ==
  ASSUME IInv, PlaceInv, NEW q \in Reqs, Acts!ActionsWorker(q), UNCHANGED lost, NEW r \in Reqs
  PROVE  \E p : Places(r)' = {p}
<1> USE ConstantFacts DEF InReader, Working, Queued, InWriter, Taken, PlaceInv
<1>0. /\ UNCHANGED <<unsent, awire, agone, ard, ain, held, accepted>>
      /\ work \in [Reqs -> {"none", "exec", "put", "done"}]
  BY DEF Acts!ActionsWorker, Acts!Execute, Acts!WorkerPut, IInv, ActsType
<1>1. CASE Acts!Execute(q)
  <2>1. queue' = queue /\ \A i \in Reqs : Working(i)' <=> Working(i)
    BY <1>0, <1>1 DEF Acts!Execute
  <2>2. QED BY <1>0, <2>1, Stays
<1>2. CASE Acts!WorkerPut(q)
  <2>1. /\ work[q] = "put" /\ answer[q].id = q /\ queue' = queue \cup {answer[q]}
        /\ \A i \in Reqs : work'[i] = IF i = q THEN "done" ELSE work[i]
    BY <1>0, <1>2 DEF Acts!WorkerPut, IInv, HeldInv
  <2>2. CASE r = q
    <3>1. <<"worker", r>> \in Places(r) /\ <<"queue", answer[q]>> \in Places(r)' /\ <<"worker", r>> \notin Places(r)'
      BY <2>1, <2>2, PlaceIs, PlaceIsNext
    <3>2. QED BY <3>1, <1>0, <2>1, <2>2, Moves
  <2>3. CASE r # q
    BY <1>0, <2>1, <2>3, Stays
  <2>4. QED BY <2>2, <2>3
<1>3. QED BY <1>1, <1>2 DEF Acts!ActionsWorker

LEMMA WriterMoves ==
  ASSUME IInv, PlaceInv, Acts!ActionsWriter, UNCHANGED lost, NEW r \in Reqs
  PROVE  \E p : Places(r)' = {p}
<1> USE ConstantFacts DEF InReader, Working, Queued, InWriter, Taken, PlaceInv
<1>0. UNCHANGED <<unsent, awire, agone, ard, ain, work>>
  BY DEF Acts!ActionsWriter, Acts!ActionsSendInit, Acts!ActionsWriterStops, Acts!ActionsSend, Acts!PutBack, Acts!Take
<1>1. ASSUME UNCHANGED <<queue, held, accepted>> PROVE \E p : Places(r)' = {p}
  BY <1>0, <1>1, Stays
<1>2. CASE Acts!ActionsSendInit \/ Acts!ActionsWriterStops
  BY <1>1, <1>2 DEF Acts!ActionsSendInit, Acts!ActionsWriterStops
<1>3. CASE Acts!ActionsSend
  <2>1. CASE UNCHANGED <<accepted, held>>
    BY <1>1, <1>3, <2>1 DEF Acts!ActionsSend
  <2>2. CASE accepted' = accepted \cup {held} /\ held' = None
    <3>1. held # None /\ queue' = queue
      BY <1>3 DEF Acts!ActionsSend, IInv, HeldInv
    <3>2. CASE r = held.id
      <4>1. <<"writer", held>> \in Places(r) /\ <<"sent", held>> \in Places(r)' /\ <<"writer", held>> \notin Places(r)'
        BY <2>2, <3>1, <3>2, PlaceIs, PlaceIsNext
      <4>2. QED BY <4>1, <1>0, <2>2, <3>1, <3>2, Moves
    <3>3. CASE r # held.id
      BY <1>0, <2>2, <3>1, <3>3, Stays
    <3>4. QED BY <3>2, <3>3
  <2>3. QED BY <1>3, <2>1, <2>2 DEF Acts!ActionsSend
<1>4. CASE Acts!PutBack
  <2>1. held # None /\ queue' = queue \cup {held} /\ held' = None /\ accepted' = accepted
    BY <1>4 DEF Acts!PutBack, IInv, HeldInv
  <2>2. CASE r = held.id
    <3>1. <<"writer", held>> \in Places(r) /\ <<"queue", held>> \in Places(r)' /\ <<"writer", held>> \notin Places(r)'
      BY <2>1, <2>2, PlaceIs, PlaceIsNext
    <3>2. QED BY <3>1, <1>0, <2>1, <2>2, Moves
  <2>3. CASE r # held.id
    BY <1>0, <2>1, <2>3, Stays
  <2>4. QED BY <2>2, <2>3
<1>5. ASSUME NEW x \in queue, Acts!Take(x) PROVE \E p : Places(r)' = {p}
  <2>1. queue' = queue \ {x} /\ held' = x /\ held = None /\ x # None /\ accepted' = accepted
    BY <1>5 DEF Acts!Take, IInv, HeldInv, QueueType
  <2>2. CASE r = x.id
    <3>1. <<"queue", x>> \in Places(r) /\ <<"writer", x>> \in Places(r)' /\ <<"queue", x>> \notin Places(r)'
      BY <2>1, <2>2, PlaceIs, PlaceIsNext
    <3>2. QED BY <3>1, <1>0, <2>1, <2>2, Moves
  <2>3. CASE r # x.id
    BY <1>0, <2>1, <2>3, Stays
  <2>4. QED BY <2>2, <2>3
<1>6. QED BY <1>2, <1>3, <1>4, <1>5 DEF Acts!ActionsWriter

\* A stream that breaks, or ends, takes the request on it along.
LEMMA StreamMoves ==
  ASSUME PlaceInv, NEW r \in Reqs, awire' = None, agone' = agone \cup ({awire} \ {None}),
         InReader(r)' <=> InReader(r), UNCHANGED <<unsent, lost, work, queue, held, accepted>>
  PROVE  \E p : Places(r)' = {p}
<1> USE ConstantFacts DEF Working, Queued, InWriter, Taken, PlaceInv
<1>1. CASE r = awire
  <2>1. <<"wire", r>> \in Places(r) /\ <<"gone", r>> \in Places(r)' /\ <<"wire", r>> \notin Places(r)'
    BY <1>1, PlaceIs, PlaceIsNext
  <2>2. QED BY <1>1, <2>1, Moves
<1>2. CASE r # awire
  BY <1>2, Stays
<1>3. QED BY <1>1, <1>2

LEMMA RetryMoves ==
  ASSUME IInv, PlaceInv, Acts!ActionsRetry \/ Acts!ActionsLost, UNCHANGED lost, NEW r \in Reqs
  PROVE  \E p : Places(r)' = {p}
<1>1. UNCHANGED <<unsent, ain, work, queue, held, accepted>>
  BY DEF Acts!ActionsRetry, Acts!ActionsExit, Acts!ActionsDial, Acts!ActionsDialFails, Acts!ActionsDone,
     Acts!ActionsLost
<1>2. InReader(r)' <=> InReader(r)
  BY <1>1 DEF InReader, IInv, LoopInv, Acts!ActionsRetry, Acts!ActionsExit, Acts!ActionsDial,
     Acts!ActionsDialFails, Acts!ActionsDone, Acts!ActionsLost
<1>3. UNCHANGED <<awire, agone>> \/ (awire' = None /\ agone' = agone \cup ({awire} \ {None}))
  BY DEF Acts!ActionsRetry, Acts!ActionsExit, Acts!ActionsDial, Acts!ActionsDialFails, Acts!ActionsDone,
     Acts!ActionsLost
<1>4. CASE UNCHANGED <<awire, agone>>
  BY <1>1, <1>2, <1>4, Stays DEF Working, Queued, InWriter, Taken, PlaceInv
<1>5. QED BY <1>1, <1>2, <1>3, <1>4, StreamMoves

LEMMA AgentMoves ==
  ASSUME PlaceInv, NEW q \in Reqs, Acts!AgentRequests(q), UNCHANGED lost, NEW r \in Reqs
  PROVE  \E p : Places(r)' = {p}
<1> USE ConstantFacts DEF InReader, Working, Queued, InWriter, Taken, PlaceInv
<1>1. /\ awire = None /\ awire' = q /\ q \in unsent /\ unsent' = unsent \ {q}
      /\ UNCHANGED <<agone, ard, ain, work, queue, held, accepted>>
  BY DEF Acts!AgentRequests
<1>2. CASE r = q
  <2>1. <<"agent", r>> \in Places(r) /\ <<"wire", r>> \in Places(r)' /\ <<"agent", r>> \notin Places(r)'
    BY <1>1, <1>2, PlaceIs, PlaceIsNext
  <2>2. QED BY <1>1, <1>2, <2>1, Moves
<1>3. CASE r # q
  BY <1>1, <1>3, Stays
<1>4. QED BY <1>2, <1>3

\* Start gives up what the queue had and what its goroutines would put in it.
LEMMA StartMoves ==
  ASSUME IInv, PlaceInv, Start, NEW r \in Reqs
  PROVE  \E p : Places(r)' = {p}
<1> USE DEF InReader, Working, Queued, InWriter, Taken, PlaceInv
<1>1. /\ UNCHANGED <<unsent, awire, agone, ard, ain, held, accepted>> /\ queue' = {}
      /\ lost' = lost \cup {x.id : x \in queue} \cup {q \in Reqs : Working(q)}
      /\ ~Working(r)'
  BY DEF Start
<1>2. CASE Working(r)
  <2>1. <<"worker", r>> \in Places(r) /\ <<"lost", r>> \in Places(r)' /\ <<"worker", r>> \notin Places(r)'
    BY <1>1, <1>2, PlaceIs, PlaceIsNext
  <2>2. QED BY <1>1, <2>1, Moves
<1>3. ASSUME NEW x \in queue, x.id = r PROVE \E p : Places(r)' = {p}
  <2>1. <<"queue", x>> \in Places(r) /\ <<"lost", r>> \in Places(r)' /\ <<"queue", x>> \notin Places(r)'
    <3>1. Queued(r, x) /\ ~Queued(r, x)' /\ r \in lost'
      BY <1>1, <1>3
    <3>2. QED BY <3>1, PlaceIs, PlaceIsNext
  <2>2. QED BY <1>1, <2>1, Moves
<1>4. CASE ~Working(r) /\ \A x \in queue : x.id # r
  BY <1>1, <1>4, Stays
<1>5. QED BY <1>2, <1>3, <1>4

LEMMA StepPlace == IInv /\ PlaceInv /\ [Next]_vars => PlaceInv'
<1> SUFFICES ASSUME IInv, PlaceInv, [Next]_vars, NEW r \in Reqs PROVE \E p : Places(r)' = {p}
  BY DEF PlaceInv
<1>1. ASSUME UNCHANGED <<actsVars, lost>> PROVE \E p : Places(r)' = {p}
  BY <1>1, Stays DEF InReader, Working, Queued, InWriter, Taken, PlaceInv
<1>2. CASE Acts!ActionsNext /\ UNCHANGED <<checkinVars, clientVars>>
  <2>1. ASSUME NEW q \in Reqs, Acts!Register(q) PROVE \E p : Places(r)' = {p}
    <3>1. UNCHANGED <<unsent, awire, agone, lost, ard, ain, work, queue, held, accepted>>
      BY <1>2, <2>1 DEF Acts!Register
    <3>2. QED BY <3>1, Stays DEF InReader, Working, Queued, InWriter, Taken, PlaceInv
  <2>2. QED BY <1>2, <2>1, ReaderMoves, WriterMoves, RetryMoves, WorkerMoves, AgentMoves DEF Acts!ActionsNext
<1>3. CASE CheckinNext /\ UNCHANGED <<actsVars, clientVars>>
  BY <1>1, <1>3
<1>4. CASE Stop \/ StopReturns \/ Terminated \/ UNCHANGED vars
  BY <1>1, <1>4 DEF Stop, StopReturns, Terminated, vars
<1>5. QED BY <1>2, <1>3, <1>4, StartMoves DEF Next

\* Every request, or its one response, is in one place: sent once, or on its way,
\* or lost to a stream or to a Start; a failed send and a reconnect neither lose
\* nor repeat it (client.go:332-334).
THEOREM EveryRequestInOnePlace == Spec => []Custody
<1>1. Init => PlaceInv
  <2> SUFFICES ASSUME Init, NEW r \in Reqs PROVE \E p : Places(r) = {p}
    BY DEF PlaceInv
  <2>1. \A p : p \in Places(r) <=> p = <<"agent", r>>
    BY PlaceMember, ConstantFacts DEF Init, Acts!ActionsInit, InReader, Working, Queued, InWriter, Taken
  <2>2. Places(r) = {<<"agent", r>>}
    BY <2>1
  <2>3. QED BY <2>2
<1>2. PlaceInv => Custody
  BY FS_Singleton DEF PlaceInv, Custody
<1>3. QED BY ClientInvariant, <1>1, <1>2, StepPlace, PTL DEF Spec
=============================================================================
