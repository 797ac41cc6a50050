--------------------------- MODULE CheckinProofs ---------------------------
(* Safety of the check-in for every set of ids and states, every script of *)
(* policies and every bound: TypeOK, NoLostStateChange,                    *)
(* AnnouncedMatchesRegistry, VersionInfoFirst, RemovedStaysRemoved and     *)
(* ViewCurrent, each from an inductive invariant.                          *)
EXTENDS Checkin, TLAPS

\* What a step leaves alone is expanded everywhere.
USE DEF LoopFrame, ReaderFrame, WriterFrame, AgentFrame, registryVars, componentVars,
        syncVars, wmsgVars, writerVars, loopVars, streamVars, connVars, userVars

-----------------------------------------------------------------------------
(* The inductive invariants *)

\* The integration only knows allocated units, and one nobody was told of is
\* still in the state newUnit gave it.
HandleInv ==
  \A h \in Handles : ident[h] = None => view[h] = None /\ state[h] = Starting

\* The reader changes c.units, and the writer walks it, never both.
LockExclusion == ~(WriteLocked /\ ReadLocked)

\* The goroutines run inside a round trip only; Stop waits for the loop.
LoopInv ==
  /\ lpc # "running" => rpc = "off" /\ wpc = "off"
  /\ spc = "returned" => lpc = "exited"

\* What the writer has read so far, and what it has when it is done, is
\* current unless a signal is waiting for it.
ReportInv ==
  /\ wpc \in {"off", "lock"} => Read = {}
  /\ wpc = "collect" => /\ Read \subseteq units
                        /\ ~signal => \A h \in Read : wobs[h].state = state[h]
  /\ wpc \in {"component", "send", "select"} /\ ~signal => Reported

IInv == TypeOK /\ HandleInv /\ LockExclusion /\ LoopInv /\ ReportInv

\* While the reader removes, the integration holds the units that remain, those
\* still to be announced and the one being announced; while it adds, all of
\* c.units but the one being announced.
AnnounceInv ==
  /\ rpc = "remove" =>
       /\ rgone \subseteq units \ Remaining
       /\ change # None => /\ change.type = "removed"
                           /\ change.unit \in units \ (Remaining \cup rgone)
       /\ told = Remaining \cup rgone \cup (IF change = None THEN {} ELSE {change.unit})
  /\ rpc = "units" =>
       /\ change # None => /\ change.type \in {"added", "modified"}
                           /\ change.unit \in units
       /\ told = units \ (IF change # None /\ change.type = "added"
                          THEN {change.unit} ELSE {})
  /\ ~WriteLocked => told = units
  /\ \A g, h \in units : ident[g] = ident[h] => g = h

\* The version of the client is on its way with the first message of a stream,
\* or the agent has it; a stream that is still open and was not sent it has
\* carried nothing.
VersionInv ==
  /\ lpc # "running" => up = None /\ obs = None
  /\ up # None => up.version \/ hasVersion
  /\ obs # None => hasVersion
  /\ versionInfoSent /\ link = "open" => up # None \/ hasVersion

\* A unit announced as added is one the integration never saw.
AddedIsNew == change # None /\ change.type = "added" => view[change.unit] = None

\* What the triggers of a change on its way do not name has not changed since
\* the integration read it.
ViewInv ==
  /\ ViewCurrent
  /\ change # None /\ change.type = "modified" =>
       \A f \in Fields \ change.triggers :
         view[change.unit][f] = Seen(expected[change.unit])[f]

-----------------------------------------------------------------------------
(* Type correctness and the loop *)

\* There is a first policy; None is no id and no change.
LEMMA ConstantFacts ==
  Len(Script) \in Nat \ {0} /\ Starting \in States /\ None \notin Ids /\ None \notin UnitChanged
BY CheckinAssumption DEF CheckinAssumption

\* A change is not None.
LEMMA ChangedIsValue ==
  ASSUME NEW type \in {"added", "modified", "removed"}, NEW h \in Handles,
         NEW triggers \in SUBSET (Fields \cup {"agentInfo"})
  PROVE  /\ Changed(type, h, triggers) \in UnitChanged /\ Changed(type, h, triggers) # None
         /\ Changed(type, h, triggers).type = type /\ Changed(type, h, triggers).unit = h
BY ConstantFacts DEF Changed, UnitChanged

\* Init has every variable typed.
LEMMA InitFields == Init => FieldsOK
<1> SUFFICES ASSUME Init PROVE FieldsOK
  OBVIOUS
<1>1. /\ ident \in [Handles -> Ids \cup {None}] /\ state \in [Handles -> States]
      /\ DOMAIN expected = Handles /\ DOMAIN wobs = Handles /\ DOMAIN view = Handles
  BY ConstantFacts DEF Init, NothingRead
<1>2. units \subseteq {h \in Handles : ident[h] # None} /\ rgone \subseteq units
      /\ rtodo \subseteq Ids /\ told \subseteq Handles /\ change = None
  BY DEF Init
<1>3. ver \in 1..Len(Script)
  BY ConstantFacts DEF Init
<1>4. QED BY <1>1, <1>2, <1>3 DEF Init, FieldsOK

\* A step keeps every variable typed: the interesting cases are those that send a
\* change or release unitsMu.
LEMMA StepFields == FieldsOK /\ LoopInv /\ [Next]_vars => FieldsOK'
<1> SUFFICES ASSUME FieldsOK, LoopInv, [Next]_vars PROVE FieldsOK'
  OBVIOUS
<1> USE ConstantFacts DEF FieldsOK
<1>1. CASE Loop
  <2>1. CASE LoopCheck \/ ConnectFails \/ Backoff \/ StopReturns
    BY <2>1 DEF LoopCheck, ConnectFails, Backoff, StopReturns, WriteLocked
  <2>2. CASE Connect
    BY <2>2 DEF Connect, WriteLocked, LoopInv, NothingRead, ResetVersionInfoSent
  <2>3. CASE RoundTripDone
    BY <2>3 DEF RoundTripDone, WriteLocked, LoopInv, Forget, NothingRead
  <2>4. QED BY <1>1, <2>1, <2>2, <2>3 DEF Loop
<1>2. CASE Stop \/ Start
  BY <1>2 DEF Stop, Start, WriteLocked
<1>3. CASE Reader
  <2>1. CASE RecvExpected \/ RecvFails \/ SyncComponent \/ SyncUnitsLock
    BY <2>1 DEF RecvExpected, RecvFails, SyncComponent, SyncUnitsLock, WriteLocked
  <2>2. CASE RemovalsDone
    BY <2>2 DEF RemovalsDone, Remaining, SignalRemovals, WriteLocked
  <2>3. CASE SyncUnitsDone
    BY <2>3 DEF SyncUnitsDone, Sent, WriteLocked
  <2>4. ASSUME NEW h \in Handles, AnnounceRemoval(h) PROVE FieldsOK'
    <3>1. change' \in UnitChanged /\ change'.unit = h
      BY <2>4, ChangedIsValue DEF AnnounceRemoval
    <3>2. QED BY <2>4, <3>1 DEF AnnounceRemoval, WriteLocked
  <2>5. ASSUME NEW i \in Ids, NEW h \in Handles, AddUnit(i, h) PROVE FieldsOK'
    <3>1. change' \in UnitChanged /\ change'.unit = h
      BY <2>5, ChangedIsValue DEF AddUnit, Fields
    <3>2. QED BY <2>5, <3>1 DEF AddUnit, WriteLocked
  <2>6. ASSUME NEW i \in Ids, NEW h \in Handles, ModifyUnit(i, h) PROVE FieldsOK'
    <3>1. (change' \in UnitChanged /\ change'.unit = h) \/ change' = None
      BY <2>6, ChangedIsValue DEF ModifyUnit, Triggers, Fields
    <3>2. QED BY <2>6, <3>1 DEF ModifyUnit, WriteLocked, FindUnit
  <2>7. QED BY <1>3, <2>1, <2>2, <2>3, <2>4, <2>5, <2>6 DEF Reader
<1>4. CASE Writer
  <2>1. CASE CollectLock
    BY <2>1 DEF CollectLock, WriteLocked
  <2>2. CASE CollectDone
    BY <2>2 DEF CollectDone, WriteLocked
  <2>3. CASE ReadComponentIdx
    BY <2>3 DEF ReadComponentIdx, WriteLocked
  <2>4. CASE SendObserved
    BY <2>4 DEF SendObserved, WriteLocked
  <2>5. CASE SendEOF
    BY <2>5 DEF SendEOF, CloseSend, WriteLocked
  <2>6. CASE SendFails
    BY <2>6 DEF SendFails, WriteLocked
  <2>7. CASE WakeReaderDone
    BY <2>7 DEF WakeReaderDone, CloseSend, WriteLocked
  <2>8. CASE WakeSignal
    <3>1. signal' \in BOOLEAN /\ wpc' = "lock" /\ wobs' = NothingRead
      BY <2>8 DEF WakeSignal, Forget
    <3>2. UNCHANGED <<registryVars, state, rpc, syncVars, loopVars, link, ver, userVars,
                      versionInfoSent>>
      BY <2>8 DEF WakeSignal
    <3>3. QED BY <3>1, <3>2 DEF NothingRead, WriteLocked
  <2>9. CASE WakeTicker
    BY <2>9 DEF WakeTicker, Forget, NothingRead, WriteLocked
  <2>10. ASSUME NEW h \in Handles, ToObserved(h) PROVE FieldsOK'
    BY <2>10 DEF ToObserved, WriteLocked
  <2>11. QED BY <1>4, <2>1, <2>2, <2>3, <2>4, <2>5, <2>6, <2>7, <2>8, <2>9, <2>10 DEF Writer
<1>5. CASE Integration
  <2>1. CASE TakeChange
    <3>1. change.unit \in Handles /\ change.type \in {"added", "modified", "removed"}
      BY <2>1 DEF TakeChange, UnitChanged
    <3>2. told' \subseteq Handles /\ DOMAIN view' = Handles
      BY <2>1, <3>1 DEF TakeChange
    <3>3. /\ change' = None
          /\ UNCHANGED <<registryVars, state, signal, rpc, rgone, rtodo, writerVars, loopVars,
                         link, ver>>
      BY <2>1 DEF TakeChange
    <3>4. QED BY <3>2, <3>3 DEF WriteLocked
  <2>2. CASE TakeError
    BY <2>2 DEF TakeError, CloseSend, WriteLocked
  <2>3. ASSUME NEW h \in Handles, NEW s \in States, UpdateState(h, s) PROVE FieldsOK'
    BY <2>3 DEF UpdateState, unitsStateChanged, WriteLocked
  <2>4. QED BY <1>5, <2>1, <2>2, <2>3 DEF Integration
<1>6. CASE Agent
  BY <1>6 DEF Agent, AgentPolicy, AgentRecv, AgentSend, AgentClose, Break, WriteLocked
<1>7. CASE UNCHANGED vars
  BY <1>7 DEF vars, WriteLocked
<1>8. QED BY <1>1, <1>2, <1>3, <1>4, <1>5, <1>6, <1>7 DEF Next, Terminated

-----------------------------------------------------------------------------
(* The messages *)

\* The policies of the script have the types the assumption gives them.
LEMMA ScriptFacts ==
  ASSUME NEW v \in 1..Len(Script)
  PROVE  /\ v \in DOMAIN Script
         /\ Script[v].units \in [Ids -> UnitPolicy \cup {None}]
         /\ Script[v].featuresIdx \in Nat \ {0} /\ Script[v].componentIdx \in Nat \ {0}
BY CheckinAssumption DEF CheckinAssumption

\* The agent sends what the protocol has, whatever it omits.
LEMMA ExpectedMsgType ==
  ASSUME NEW v \in 1..Len(Script), NEW o, NEW first \in BOOLEAN
  PROVE  ExpectedMsg(Script[v], o, first) \in CheckinExpected
<1> DEFINE p == Script[v]
           m == ExpectedMsg(p, o, first)
<1>1. p.units \in [Ids -> UnitPolicy \cup {None}] /\ v \in DOMAIN Script
  BY ScriptFacts
<1>2. m.units \in [Ids -> UnitExpected \cup {None}]
  <2>1. ASSUME NEW i \in Ids, p.units[i] # None
        PROVE  [state |-> p.units[i].state, log |-> p.units[i].log, cfgIdx |-> p.units[i].cfgIdx,
                cfg |-> IF /\ "config" \in Omit
                           /\ \E r \in o.units : r.id = i /\ r.cfgIdx = p.units[i].cfgIdx
                        THEN None ELSE p.units[i].cfgIdx] \in UnitExpected
    BY <1>1, <2>1 DEF UnitPolicy, UnitExpected
  <2>2. QED BY <1>1, <2>1 DEF ExpectedMsg
<1>3. m.features \in Features /\ m.component \in Component /\ m.info \in AgentInfo
  BY <1>1 DEF ExpectedMsg, Features, Component, AgentInfo
<1>4. m.featuresIdx \in Nat \ {0} /\ m.componentIdx \in Nat \ {0}
  BY ScriptFacts DEF ExpectedMsg
<1>5. m = [units |-> m.units, features |-> m.features, featuresIdx |-> m.featuresIdx,
           component |-> m.component, componentIdx |-> m.componentIdx, info |-> m.info]
  BY DEF ExpectedMsg
<1>6. QED BY <1>2, <1>3, <1>4, <1>5 DEF CheckinExpected

\* newUnit and updateState give a Unit typed fields.
LEMMA UnitType ==
  ASSUME NEW u \in UnitExpected, NEW m \in CheckinExpected, NEW c \in Component
  PROVE  /\ NewUnit(u, m, ApmOf(c)) \in ExpectedState
         /\ \A e \in ExpectedState : UpdatedUnit(e, u, m, ApmOf(c)) \in ExpectedState
BY DEF UnitExpected, CheckinExpected, ExpectedState, NewUnit, UpdatedUnit, ApmOf

\* The nil Unit is not a Unit.
LEMMA NoneIsNoUnit == None \notin ExpectedState
BY CheckinAssumption DEF CheckinAssumption

\* Steps that leave messages and what is made of them alone.
LEMMA MessagesFrame ==
  ASSUME MessagesOK,
         UNCHANGED <<rmsg, down, rpc, rtodo, up, obs, wmsgVars, featuresIdx, component, expected, ident>>
  PROVE  MessagesOK'
BY DEF MessagesOK

\* Init has no message.
LEMMA InitMessages == Init => MessagesOK
<1> SUFFICES ASSUME Init PROVE MessagesOK
  OBVIOUS
<1>1. None \in Component
  BY DEF Component
<1>2. QED BY <1>1 DEF Init, MessagesOK, NothingRead

\* A step keeps every message typed.
LEMMA StepMessages == FieldsOK /\ MessagesOK /\ LoopInv /\ [Next]_vars => MessagesOK'
<1> SUFFICES ASSUME FieldsOK, MessagesOK, LoopInv, [Next]_vars PROVE MessagesOK'
  OBVIOUS
<1>1. CASE Loop
  <2>1. CASE RoundTripDone
    BY <2>1 DEF RoundTripDone, MessagesOK, Forget, NothingRead
  <2>2. CASE Connect
    BY <2>2 DEF Connect, MessagesOK
  <2>3. CASE LoopCheck \/ ConnectFails \/ Backoff \/ StopReturns
    BY <2>3, MessagesFrame DEF LoopCheck, ConnectFails, Backoff, StopReturns
  <2>4. QED BY <1>1, <2>1, <2>2, <2>3 DEF Loop
<1>2. CASE Stop \/ Start
  BY <1>2, MessagesFrame DEF Stop, Start
<1>3. CASE Reader
  <2>1. CASE RecvExpected
    BY <2>1 DEF RecvExpected, MessagesOK
  <2>2. CASE RecvFails
    BY <2>2 DEF RecvFails, MessagesOK
  <2>3. CASE SyncComponent
    <3>1. rmsg \in CheckinExpected
      BY <2>3 DEF SyncComponent, MessagesOK
    <3>2. component' \in [config : Component, idx : Nat]
      BY <2>3, <3>1 DEF SyncComponent, CheckinExpected
    <3>3. QED BY <2>3, <3>2 DEF SyncComponent, MessagesOK
  <2>4. CASE SyncUnitsLock
    BY <2>4 DEF SyncUnitsLock, MessagesOK
  <2>5. CASE RemovalsDone
    BY <2>5 DEF RemovalsDone, MessagesOK
  <2>6. CASE SyncUnitsDone
    <3>1. rmsg \in CheckinExpected
      BY <2>6 DEF SyncUnitsDone, MessagesOK
    <3>2. featuresIdx' \in Nat
      BY <2>6, <3>1 DEF SyncUnitsDone, CheckinExpected
    <3>3. QED BY <2>6, <3>2 DEF SyncUnitsDone, MessagesOK
  <2>7. ASSUME NEW h \in Handles, AnnounceRemoval(h) PROVE MessagesOK'
    BY <2>7 DEF AnnounceRemoval, MessagesOK
  <2>8. ASSUME NEW i \in Ids, NEW h \in Handles, AddUnit(i, h) PROVE MessagesOK'
    <3>1. rmsg \in CheckinExpected /\ rmsg.units[i] # None /\ component.config \in Component
      BY <2>8 DEF AddUnit, MessagesOK
    <3>2. rmsg.units[i] \in UnitExpected
      BY <3>1 DEF CheckinExpected
    <3>3. NewUnit(rmsg.units[i], rmsg, ApmOf(component.config)) \in ExpectedState
      BY <3>1, <3>2, UnitType
    <3>4. expected' \in [Handles -> ExpectedState \cup {None}]
      BY <2>8, <3>3 DEF AddUnit, MessagesOK
    <3>5. \A g \in Handles : ident'[g] # None => expected'[g] # None
      <4>1. NewUnit(rmsg.units[i], rmsg, ApmOf(component.config)) # None
        BY <3>3, NoneIsNoUnit
      <4>2. QED BY <2>8, <4>1 DEF AddUnit, MessagesOK, FieldsOK
    <3>6. QED BY <2>8, <3>4, <3>5 DEF AddUnit, MessagesOK
  <2>9. ASSUME NEW i \in Ids, NEW h \in Handles, ModifyUnit(i, h) PROVE MessagesOK'
    <3>1. rmsg \in CheckinExpected /\ rmsg.units[i] # None /\ component.config \in Component
      BY <2>9 DEF ModifyUnit, MessagesOK
    <3>2. rmsg.units[i] \in UnitExpected
      BY <3>1 DEF CheckinExpected
    <3>3. h \in units /\ ident[h] # None
      BY <2>9 DEF ModifyUnit, FindUnit, FieldsOK
    <3>4. expected[h] \in ExpectedState
      BY <3>3 DEF MessagesOK
    <3>5. UpdatedUnit(expected[h], rmsg.units[i], rmsg, ApmOf(component.config)) \in ExpectedState
      BY <3>1, <3>2, <3>4, UnitType
    <3>6. expected' \in [Handles -> ExpectedState \cup {None}]
      BY <2>9, <3>5 DEF ModifyUnit, MessagesOK
    <3>7. \A g \in Handles : ident'[g] # None => expected'[g] # None
      BY <2>9, <3>5, NoneIsNoUnit DEF ModifyUnit, MessagesOK, FieldsOK
    <3>8. QED BY <2>9, <3>6, <3>7 DEF ModifyUnit, MessagesOK
  <2>10. QED BY <1>3, <2>1, <2>2, <2>3, <2>4, <2>5, <2>6, <2>7, <2>8, <2>9 DEF Reader
<1>4. CASE Writer
  <2>1. CASE CollectLock \/ SendEOF \/ SendFails \/ WakeReaderDone
    BY <2>1, MessagesFrame DEF CollectLock, SendEOF, SendFails, WakeReaderDone
  <2>2. CASE CollectDone
    BY <2>2 DEF CollectDone, MessagesOK
  <2>3. CASE ReadComponentIdx
    BY <2>3 DEF ReadComponentIdx, MessagesOK
  <2>4. CASE SendObserved
    <3>1. {wobs[h] : h \in Read} \in SUBSET UnitObserved
      BY DEF MessagesOK, Read
    <3>2. up' \in CheckinObserved
      BY <2>4, <3>1 DEF SendObserved, CheckinObserved, MessagesOK, FieldsOK
    <3>3. QED BY <2>4, <3>2 DEF SendObserved, MessagesOK
  <2>5. CASE WakeSignal \/ WakeTicker
    BY <2>5 DEF WakeSignal, WakeTicker, Forget, NothingRead, MessagesOK
  <2>6. ASSUME NEW h \in Handles, ToObserved(h) PROVE MessagesOK'
    <3>1. h \in units /\ ident[h] \in Ids /\ ident[h] # None
      BY <2>6 DEF ToObserved, FieldsOK
    <3>2. expected[h] \in ExpectedState
      BY <3>1 DEF MessagesOK
    <3>3. [id |-> ident[h], cfgIdx |-> expected[h].cfgIdx, state |-> state[h]] \in UnitObserved
      BY <3>1, <3>2 DEF ExpectedState, UnitObserved, FieldsOK
    <3>4. wobs' \in [Handles -> UnitObserved \cup {None}]
      BY <2>6, <3>3 DEF ToObserved, MessagesOK
    <3>5. QED BY <2>6, <3>4 DEF ToObserved, MessagesOK
  <2>7. QED BY <1>4, <2>1, <2>2, <2>3, <2>4, <2>5, <2>6 DEF Writer
<1>5. CASE Integration
  <2>1. CASE TakeError
    BY <2>1 DEF TakeError, MessagesOK
  <2>2. CASE TakeChange
    BY <2>2, MessagesFrame DEF TakeChange
  <2>3. ASSUME NEW h \in Handles, NEW s \in States, UpdateState(h, s) PROVE MessagesOK'
    BY <2>3, MessagesFrame DEF UpdateState
  <2>4. QED BY <1>5, <2>1, <2>2, <2>3 DEF Integration
<1>6. CASE Agent
  <2>1. CASE AgentSend
    <3>1. ver \in 1..Len(Script) /\ (~greeted) \in BOOLEAN
      BY DEF FieldsOK
    <3>2. down' \in CheckinExpected
      BY <2>1, <3>1, ExpectedMsgType DEF AgentSend
    <3>3. QED BY <2>1, <3>2 DEF AgentSend, MessagesOK
  <2>2. CASE AgentRecv
    BY <2>2 DEF AgentRecv, MessagesOK
  <2>3. CASE AgentClose \/ Break
    BY <2>3 DEF AgentClose, Break, MessagesOK
  <2>4. CASE AgentPolicy
    BY <2>4, MessagesFrame DEF AgentPolicy
  <2>5. QED BY <1>6, <2>1, <2>2, <2>3, <2>4 DEF Agent
<1>7. CASE UNCHANGED vars
  BY <1>7, MessagesFrame DEF vars
<1>8. QED BY <1>1, <1>2, <1>3, <1>4, <1>5, <1>6, <1>7 DEF Next, Terminated

\* Init is typed, and a step keeps it so.
LEMMA InitType == Init => TypeOK
BY InitFields, InitMessages DEF TypeOK

LEMMA StepType == TypeOK /\ LoopInv /\ [Next]_vars => TypeOK'
BY StepFields, StepMessages DEF TypeOK

-----------------------------------------------------------------------------
(* The lock, the loop and the handles *)

\* The goroutines start and end with the round trip.
LEMMA StepLoop == TypeOK /\ LoopInv /\ [Next]_vars => LoopInv'
<1> SUFFICES ASSUME TypeOK, LoopInv, [Next]_vars PROVE LoopInv'
  OBVIOUS
<1> USE DEF LoopInv
<1>1. CASE Loop
  BY <1>1 DEF Loop, LoopCheck, Connect, ConnectFails, RoundTripDone, Backoff, StopReturns
<1>2. CASE Stop \/ Start
  BY <1>2 DEF Stop, Start
<1>3. CASE Reader
  <2>1. CASE RecvExpected \/ RecvFails \/ SyncComponent \/ SyncUnitsLock
    BY <2>1 DEF RecvExpected, RecvFails, SyncComponent, SyncUnitsLock
  <2>2. CASE RemovalsDone \/ SyncUnitsDone \/ \E h \in Handles : AnnounceRemoval(h)
    BY <2>2 DEF RemovalsDone, SyncUnitsDone, AnnounceRemoval
  <2>3. CASE \E i \in Ids, h \in Handles : AddUnit(i, h) \/ ModifyUnit(i, h)
    BY <2>3 DEF AddUnit, ModifyUnit
  <2>4. QED BY <1>3, <2>1, <2>2, <2>3 DEF Reader
<1>4. CASE Writer
  <2>1. CASE CollectLock \/ CollectDone \/ ReadComponentIdx
    BY <2>1 DEF CollectLock, CollectDone, ReadComponentIdx
  <2>2. CASE SendObserved \/ SendEOF \/ SendFails
    BY <2>2 DEF SendObserved, SendEOF, SendFails
  <2>3. CASE WakeSignal \/ WakeTicker \/ WakeReaderDone
    BY <2>3 DEF WakeSignal, WakeTicker, WakeReaderDone
  <2>4. CASE \E h \in Handles : ToObserved(h)
    BY <2>4 DEF ToObserved
  <2>5. QED BY <1>4, <2>1, <2>2, <2>3, <2>4 DEF Writer
<1>5. CASE Integration
  BY <1>5 DEF Integration, TakeChange, TakeError, UpdateState
<1>6. CASE Agent
  BY <1>6 DEF Agent, AgentPolicy, AgentRecv, AgentSend, AgentClose, Break
<1>7. CASE UNCHANGED vars
  BY <1>7 DEF vars
<1>8. QED BY <1>1, <1>2, <1>3, <1>4, <1>5, <1>6, <1>7 DEF Next, Terminated

\* Each side takes unitsMu only when the other does not hold it.
LEMMA StepLock == LoopInv /\ LockExclusion /\ [Next]_vars => LockExclusion'
<1> SUFFICES ASSUME LoopInv, LockExclusion, [Next]_vars PROVE LockExclusion'
  OBVIOUS
<1> USE DEF LoopInv, LockExclusion, WriteLocked, ReadLocked
<1>1. CASE Loop
  BY <1>1 DEF Loop, LoopCheck, Connect, ConnectFails, RoundTripDone, Backoff, StopReturns
<1>2. CASE Stop \/ Start
  BY <1>2 DEF Stop, Start
<1>3. CASE Reader
  <2>1. CASE RecvExpected \/ RecvFails \/ SyncComponent \/ SyncUnitsLock
    BY <2>1 DEF RecvExpected, RecvFails, SyncComponent, SyncUnitsLock, CanLock
  <2>2. CASE RemovalsDone \/ SyncUnitsDone \/ \E h \in Handles : AnnounceRemoval(h)
    BY <2>2 DEF RemovalsDone, SyncUnitsDone, AnnounceRemoval
  <2>3. CASE \E i \in Ids, h \in Handles : AddUnit(i, h) \/ ModifyUnit(i, h)
    BY <2>3 DEF AddUnit, ModifyUnit
  <2>4. QED BY <1>3, <2>1, <2>2, <2>3 DEF Reader
<1>4. CASE Writer
  <2>1. CASE CollectLock \/ CollectDone \/ ReadComponentIdx
    BY <2>1 DEF CollectLock, CollectDone, ReadComponentIdx, CanRLock
  <2>2. CASE SendObserved \/ SendEOF \/ SendFails
    BY <2>2 DEF SendObserved, SendEOF, SendFails
  <2>3. CASE WakeSignal \/ WakeTicker \/ WakeReaderDone
    BY <2>3 DEF WakeSignal, WakeTicker, WakeReaderDone
  <2>4. CASE \E h \in Handles : ToObserved(h)
    BY <2>4 DEF ToObserved
  <2>5. QED BY <1>4, <2>1, <2>2, <2>3, <2>4 DEF Writer
<1>5. CASE Integration
  BY <1>5 DEF Integration, TakeChange, TakeError, UpdateState
<1>6. CASE Agent
  BY <1>6 DEF Agent, AgentPolicy, AgentRecv, AgentSend, AgentClose, Break
<1>7. CASE UNCHANGED vars
  BY <1>7 DEF vars
<1>8. QED BY <1>1, <1>2, <1>3, <1>4, <1>5, <1>6, <1>7 DEF Next, Terminated

\* Only AddUnit allocates, TakeChange tells of a registered unit, and
\* UpdateState needs a unit the integration was told of.
LEMMA StepHandle == TypeOK /\ HandleInv /\ [Next]_vars => HandleInv'
<1> SUFFICES ASSUME TypeOK, HandleInv, [Next]_vars PROVE HandleInv'
  OBVIOUS
<1> USE DEF HandleInv
<1>1. ASSUME UNCHANGED <<ident, view, state>> PROVE HandleInv'
  BY <1>1
<1>2. CASE Loop \/ Stop \/ Start \/ Writer \/ Agent
  BY <1>1, <1>2 DEF Loop, LoopCheck, Connect, ConnectFails, RoundTripDone, Backoff, StopReturns,
     Stop, Start, Writer, CollectLock, CollectDone, ReadComponentIdx, SendObserved, SendEOF,
     SendFails, WakeSignal, WakeTicker, WakeReaderDone, ToObserved,
     Agent, AgentPolicy, AgentRecv, AgentSend, AgentClose, Break
<1>3. CASE Reader
  <2>1. ASSUME NEW i \in Ids, NEW h \in Handles, AddUnit(i, h) PROVE HandleInv'
    BY <2>1, ConstantFacts DEF AddUnit, TypeOK, FieldsOK
  <2>2. CASE ~(\E i \in Ids, h \in Handles : AddUnit(i, h))
    BY <1>1, <1>3, <2>2 DEF Reader, RecvExpected, RecvFails, SyncComponent, SyncUnitsLock,
       RemovalsDone, SyncUnitsDone, AnnounceRemoval, ModifyUnit
  <2>3. QED BY <2>1, <2>2
<1>4. CASE Integration
  <2>1. CASE TakeChange
    <3>1. change.unit \in Handles /\ ident[change.unit] # None
      BY <2>1 DEF TakeChange, TypeOK, FieldsOK
    <3>2. \A h \in Handles \ {change.unit} : view'[h] = view[h]
      BY <2>1 DEF TakeChange, TypeOK, FieldsOK, UnitChanged
    <3>3. ident' = ident /\ state' = state
      BY <2>1 DEF TakeChange
    <3>4. QED BY <3>1, <3>2, <3>3
  <2>2. CASE TakeError
    BY <1>1, <2>2 DEF TakeError
  <2>3. ASSUME NEW h \in Handles, NEW s \in States, UpdateState(h, s) PROVE HandleInv'
    BY <2>3 DEF UpdateState, TypeOK, FieldsOK
  <2>4. QED BY <1>4, <2>1, <2>2, <2>3 DEF Integration
<1>5. CASE UNCHANGED vars
  BY <1>1, <1>5 DEF vars
<1>6. QED BY <1>2, <1>3, <1>4, <1>5 DEF Next, Terminated

-----------------------------------------------------------------------------
(* No lost wake-up *)

\* Where the writer is, the units and the states are as before, and a signal
\* still there: what was reported stays reported.
LEMMA ReportFrame ==
  ReportInv /\ UNCHANGED <<wpc, wobs, units, state, signal>> => ReportInv'
BY DEF ReportInv, Reported, Read

\* The steps of the writer: each read is of the current state; the walk ends
\* when every unit is read; a signal is taken only to read everything again.
LEMMA StepReportWriter == IInv /\ Writer => ReportInv'
<1> SUFFICES ASSUME IInv, Writer PROVE ReportInv'
  OBVIOUS
<1> USE DEF IInv, TypeOK, FieldsOK
<1>1. CASE CollectLock
  BY <1>1 DEF CollectLock, ReportInv, Read
<1>2. CASE CollectDone
  BY <1>2 DEF CollectDone, ReportInv, Reported, Read
<1>3. CASE ReadComponentIdx \/ SendObserved
  BY <1>3 DEF ReadComponentIdx, SendObserved, ReportInv, Reported, Read
<1>4. CASE SendEOF \/ SendFails \/ WakeReaderDone
  BY <1>4 DEF SendEOF, SendFails, WakeReaderDone, ReportInv
<1>5. CASE WakeSignal \/ WakeTicker
  BY <1>5 DEF WakeSignal, WakeTicker, Forget, NothingRead, ReportInv, Read
<1>6. ASSUME NEW h \in Handles, ToObserved(h) PROVE ReportInv'
  <2>1. wpc' = "collect" /\ UNCHANGED <<units, state, signal>> /\ h \in units
    BY <1>6 DEF ToObserved
  <2>2. wobs'[h].state = state[h] /\ \A g \in Handles \ {h} : wobs'[g] = wobs[g]
    BY <1>6 DEF ToObserved
  <2>3. Read' \subseteq Read \cup {h}
    BY <2>2 DEF Read
  <2>4. QED BY <1>6, <2>1, <2>2, <2>3 DEF ToObserved, ReportInv, Read
<1>7. QED BY <1>1, <1>2, <1>3, <1>4, <1>5, <1>6 DEF Writer

\* The steps of the reader: a removal leaves a signal; an added unit is
\* unread and Starting; the writer does not walk while the reader changes.
LEMMA StepReportReader == IInv /\ Reader => ReportInv'
<1> SUFFICES ASSUME IInv, Reader PROVE ReportInv'
  OBVIOUS
<1> USE DEF IInv
<1>1. CASE RecvExpected \/ RecvFails \/ SyncComponent \/ SyncUnitsLock \/ SyncUnitsDone
  BY <1>1, ReportFrame DEF RecvExpected, RecvFails, SyncComponent, SyncUnitsLock, SyncUnitsDone
<1>2. CASE RemovalsDone
  <2>1. wpc # "collect" /\ UNCHANGED <<wpc, wobs, state>>
    BY <1>2 DEF RemovalsDone, LockExclusion, WriteLocked, ReadLocked
  <2>2. CASE Remaining = units
    <3>1. UNCHANGED <<units, signal>>
      BY <1>2, <2>2 DEF RemovalsDone, SignalRemovals, TypeOK, FieldsOK
    <3>2. QED BY <2>1, <3>1, ReportFrame
  <2>3. CASE Remaining # units
    BY <1>2, <2>1, <2>3 DEF RemovalsDone, SignalRemovals, ReportInv, Read
  <2>4. QED BY <2>2, <2>3
<1>3. ASSUME NEW i \in Ids, NEW h \in Handles, AddUnit(i, h) PROVE ReportInv'
  <2>1. wpc # "collect" /\ UNCHANGED <<wpc, wobs, state, signal>> /\ units' = units \cup {h}
    BY <1>3 DEF AddUnit, LockExclusion, WriteLocked, ReadLocked
  <2>2. ident[h] = None /\ h \notin units /\ state[h] = Starting
    BY <1>3 DEF AddUnit, Fresh, HandleInv, TypeOK, FieldsOK
  <2>3. QED BY <2>1, <2>2 DEF ReportInv, Reported, Read
<1>4. ASSUME NEW h \in Handles, AnnounceRemoval(h) PROVE ReportInv'
  BY <1>4, ReportFrame DEF AnnounceRemoval
<1>5. ASSUME NEW i \in Ids, NEW h \in Handles, ModifyUnit(i, h) PROVE ReportInv'
  BY <1>5, ReportFrame DEF ModifyUnit
<1>6. QED BY <1>1, <1>2, <1>3, <1>4, <1>5 DEF Reader

\* An update leaves a signal; nothing else touches states or units.
LEMMA StepReport == IInv /\ [Next]_vars => ReportInv'
<1> SUFFICES ASSUME IInv, [Next]_vars PROVE ReportInv'
  OBVIOUS
<1> USE DEF IInv
<1>1. CASE Loop
  <2>1. CASE Connect
    BY <2>1 DEF Connect, LoopInv, ReportInv, Read
  <2>2. CASE RoundTripDone
    BY <2>2 DEF RoundTripDone, Forget, NothingRead, ReportInv, Read
  <2>3. CASE LoopCheck \/ ConnectFails \/ Backoff \/ StopReturns
    BY <2>3, ReportFrame DEF LoopCheck, ConnectFails, Backoff, StopReturns
  <2>4. QED BY <1>1, <2>1, <2>2, <2>3 DEF Loop
<1>2. CASE Stop \/ Start
  BY <1>2, ReportFrame DEF Stop, Start
<1>3. CASE Integration
  <2>1. CASE TakeChange
    BY <2>1, ReportFrame DEF TakeChange
  <2>2. CASE TakeError
    <3>1. CASE wpc = wpc'
      BY <2>2, <3>1, ReportFrame DEF TakeError
    <3>2. CASE wpc # wpc'
      BY <2>2, <3>2 DEF TakeError, ReportInv
    <3>3. QED BY <3>1, <3>2
  <2>3. ASSUME NEW h \in Handles, NEW s \in States, UpdateState(h, s) PROVE ReportInv'
    <3>1. signal' /\ UNCHANGED <<wpc, wobs, units>>
      BY <2>3 DEF UpdateState, unitsStateChanged
    <3>2. QED BY <3>1 DEF ReportInv, Read
  <2>4. QED BY <1>3, <2>1, <2>2, <2>3 DEF Integration
<1>4. CASE Agent
  BY <1>4, ReportFrame DEF Agent, AgentPolicy, AgentRecv, AgentSend, AgentClose, Break
<1>5. CASE UNCHANGED vars
  BY <1>5, ReportFrame DEF vars
<1>6. QED BY <1>1, <1>2, <1>3, <1>4, <1>5, StepReportReader, StepReportWriter
          DEF Next, Terminated

\* Init satisfies every part of IInv.
LEMMA InitIInv == Init => IInv
BY InitType DEF Init, IInv, HandleInv, LockExclusion, WriteLocked, ReadLocked, LoopInv,
   ReportInv, Read, NothingRead

\* IInv is inductive.
LEMMA StepIInv == IInv /\ [Next]_vars => IInv'
BY StepType, StepLoop, StepLock, StepHandle, StepReport DEF IInv

\* Every reachable state has the types of TypeOK: in particular a change is
\* sent on changesCh only under unitsMu, and only of a registered unit.
THEOREM TypeCorrect == Spec => []TypeOK
<1>1. IInv => TypeOK
  BY DEF IInv
<1>2. QED BY InitIInv, StepIInv, <1>1, PTL DEF Spec

\* However UpdateState, the reader and the writer interleave, a sleeping
\* writer without a pending signal has reported the state of every registered
\* unit and the absence of every removed one (client_v2.go:569-580, 806-814).
THEOREM NoLostWakeUp == Spec => []NoLostStateChange
<1>1. IInv => NoLostStateChange
  BY DEF IInv, ReportInv, NoLostStateChange
<1>2. QED BY InitIInv, StepIInv, <1>1, PTL DEF Spec

-----------------------------------------------------------------------------
(* Events and registry *)

\* Where the reader, the registry and the integration are as before.
LEMMA AnnounceFrame ==
  AnnounceInv /\ UNCHANGED <<ident, units, rpc, rmsg, rgone, change, told>> => AnnounceInv'
BY DEF AnnounceInv, Remaining, InExpected, WriteLocked

\* The loop starts and ends the reader only where it does not hold unitsMu.
LEMMA StepAnnounceLoop == AnnounceInv /\ LoopInv /\ (Loop \/ Stop \/ Start) => AnnounceInv'
<1> SUFFICES ASSUME AnnounceInv, LoopInv, Loop \/ Stop \/ Start PROVE AnnounceInv'
  OBVIOUS
<1>1. CASE Connect
  BY <1>1 DEF Connect, LoopInv, AnnounceInv, WriteLocked
<1>2. CASE RoundTripDone
  BY <1>2 DEF RoundTripDone, LoopInv, AnnounceInv, WriteLocked
<1>3. CASE LoopCheck \/ ConnectFails \/ Backoff \/ StopReturns \/ Stop \/ Start
  BY <1>3, AnnounceFrame DEF LoopCheck, ConnectFails, Backoff, StopReturns, Stop, Start
<1>4. QED BY <1>1, <1>2, <1>3 DEF Loop

\* The reader's steps: the lock is taken with registry and integration in
\* agreement; each event is sent before the next; releasing restores it.
LEMMA StepAnnounceReader == TypeOK /\ AnnounceInv /\ Reader => AnnounceInv'
<1> SUFFICES ASSUME TypeOK, AnnounceInv, Reader PROVE AnnounceInv'
  OBVIOUS
<1>1. CASE RecvExpected \/ RecvFails \/ SyncComponent
  BY <1>1 DEF RecvExpected, RecvFails, SyncComponent, AnnounceInv, WriteLocked
<1>2. CASE SyncUnitsLock
  <2>1. rpc = "lock" /\ rpc' = "remove" /\ change = None /\ told = units
    BY <1>2 DEF SyncUnitsLock, TypeOK, FieldsOK, AnnounceInv, WriteLocked
  <2>2. rgone' = units \ Remaining /\ Remaining \subseteq units /\ Remaining' = Remaining
    BY <1>2 DEF SyncUnitsLock, Remaining, InExpected
  <2>3. QED BY <1>2, <2>1, <2>2 DEF SyncUnitsLock, AnnounceInv, WriteLocked
<1>3. CASE RemovalsDone
  <2>1. rpc' = "units" /\ change' = None /\ told' = Remaining /\ units' = Remaining
    BY <1>3 DEF RemovalsDone, AnnounceInv
  <2>2. Remaining \subseteq units /\ ident' = ident
    BY <1>3 DEF RemovalsDone, Remaining
  <2>3. QED BY <2>1, <2>2 DEF AnnounceInv, WriteLocked
<1>4. CASE SyncUnitsDone
  BY <1>4 DEF SyncUnitsDone, Sent, AnnounceInv, WriteLocked
<1>5. ASSUME NEW h \in Handles, AnnounceRemoval(h) PROVE AnnounceInv'
  <2>1. /\ rpc = "remove" /\ rpc' = "remove" /\ change = None /\ change' # None
        /\ change'.type = "removed" /\ change'.unit = h /\ h \in rgone /\ rgone' = rgone \ {h}
        /\ UNCHANGED <<ident, units, rmsg, told>>
    BY <1>5, ChangedIsValue DEF AnnounceRemoval
  <2>2. Remaining' = Remaining
    BY <2>1 DEF Remaining, InExpected
  <2>3. rgone \subseteq units \ Remaining /\ told = Remaining \cup rgone
    BY <2>1 DEF AnnounceInv
  <2>4. QED BY <2>1, <2>2, <2>3 DEF AnnounceInv, WriteLocked
<1>6. ASSUME NEW i \in Ids, NEW h \in Handles, AddUnit(i, h) PROVE AnnounceInv'
  <2>1. /\ rpc = "units" /\ rpc' = "units" /\ change = None
        /\ change'.type = "added" /\ change'.unit = h /\ units' = units \cup {h}
        /\ told' = told /\ told = units
    BY <1>6 DEF AddUnit, Changed, AnnounceInv
  <2>2. h \notin units /\ ident'[h] = i /\ \A g \in units : ident'[g] = ident[g] /\ ident[g] # i
    BY <1>6 DEF AddUnit, Fresh, FindUnit, TypeOK, FieldsOK
  <2>3. \A f, g \in units' : ident'[f] = ident'[g] => f = g
    BY <2>1, <2>2 DEF AnnounceInv
  <2>4. change' # None
    BY <1>6, ChangedIsValue DEF AddUnit, Fields
  <2>5. QED BY <2>1, <2>2, <2>3, <2>4 DEF AnnounceInv, WriteLocked
<1>7. ASSUME NEW i \in Ids, NEW h \in Handles, ModifyUnit(i, h) PROVE AnnounceInv'
  <2>1. /\ rpc = "units" /\ rpc' = "units" /\ change = None /\ told = units
        /\ change' # None => change'.type = "modified" /\ change'.unit = h
        /\ h \in units /\ UNCHANGED <<ident, units, told>>
    BY <1>7 DEF ModifyUnit, Changed, FindUnit, AnnounceInv
  <2>2. QED BY <2>1 DEF AnnounceInv, WriteLocked
<1>8. QED BY <1>1, <1>2, <1>3, <1>4, <1>5, <1>6, <1>7 DEF Reader

\* Taking the change puts the integration where the reader already is.
LEMMA StepAnnounceTake == TypeOK /\ AnnounceInv /\ TakeChange => AnnounceInv'
<1> SUFFICES ASSUME TypeOK, AnnounceInv, TakeChange PROVE AnnounceInv'
  OBVIOUS
<1> DEFINE h == change.unit
<1>1. /\ change # None /\ change' = None /\ h \in units
      /\ UNCHANGED <<ident, units, rpc, rmsg, rgone>> /\ rpc \in {"remove", "units"}
  BY DEF TakeChange, TypeOK, FieldsOK, WriteLocked
<1>2. Remaining' = Remaining
  BY <1>1 DEF Remaining, InExpected
<1>3. CASE rpc = "remove"
  <2>1. change.type = "removed" /\ told' = told \ {h}
    BY <1>1, <1>3 DEF AnnounceInv, TakeChange
  <2>2. told = Remaining \cup rgone \cup {h} /\ h \notin Remaining \cup rgone
    BY <1>1, <1>3 DEF AnnounceInv
  <2>3. told' = Remaining \cup rgone
    BY <2>1, <2>2
  <2>4. QED BY <1>1, <1>2, <1>3, <2>3 DEF AnnounceInv, WriteLocked
<1>4. CASE rpc = "units"
  <2>1. CASE change.type = "added"
    <3>1. told' = told \cup {h} /\ told = units \ {h}
      BY <1>1, <1>4, <2>1 DEF AnnounceInv, TakeChange
    <3>2. QED BY <1>1, <1>4, <3>1 DEF AnnounceInv, WriteLocked
  <2>2. CASE change.type = "modified"
    <3>1. told' = told /\ told = units
      BY <1>1, <1>4, <2>2 DEF AnnounceInv, TakeChange
    <3>2. QED BY <1>1, <1>4, <3>1 DEF AnnounceInv, WriteLocked
  <2>3. QED BY <1>1, <1>4, <2>1, <2>2 DEF AnnounceInv
<1>5. QED BY <1>1, <1>3, <1>4

\* AnnounceInv is inductive relative to IInv.
LEMMA StepAnnounce == IInv /\ AnnounceInv /\ [Next]_vars => AnnounceInv'
<1> SUFFICES ASSUME IInv, AnnounceInv, [Next]_vars PROVE AnnounceInv'
  OBVIOUS
<1> USE DEF IInv
<1>1. CASE Writer \/ Agent \/ UNCHANGED vars
  BY <1>1, AnnounceFrame DEF vars, Writer, CollectLock, CollectDone, ReadComponentIdx,
     SendObserved, SendEOF, SendFails, WakeSignal, WakeTicker, WakeReaderDone, ToObserved,
     Agent, AgentPolicy, AgentRecv, AgentSend, AgentClose, Break
<1>2. CASE Integration
  <2>1. CASE TakeError
    <3>1. CASE rpc' = rpc
      BY <2>1, <3>1, AnnounceFrame DEF TakeError
    <3>2. CASE rpc' # rpc
      BY <2>1, <3>2 DEF TakeError, AnnounceInv, WriteLocked
    <3>3. QED BY <3>1, <3>2
  <2>2. ASSUME NEW h \in Handles, NEW s \in States, UpdateState(h, s) PROVE AnnounceInv'
    BY <2>2, AnnounceFrame DEF UpdateState
  <2>3. QED BY <1>2, <2>1, <2>2, StepAnnounceTake DEF Integration
<1>3. QED BY <1>1, <1>2, StepAnnounceLoop, StepAnnounceReader DEF Next, Terminated

\* Whenever unitsMu is free the integration holds exactly the registered
\* units, and never two with one id, whatever it does between the events
\* (client_v2.go:638-657, 696-791).
THEOREM EventsMatchRegistry == Spec => []AnnouncedMatchesRegistry
<1>1. Init => AnnounceInv
  BY DEF Init, AnnounceInv, WriteLocked
<1>2. AnnounceInv => AnnouncedMatchesRegistry
  <2> SUFFICES ASSUME AnnounceInv PROVE AnnouncedMatchesRegistry
    OBVIOUS
  <2>1. told \subseteq units
    BY DEF AnnounceInv, WriteLocked, Remaining
  <2>2. QED BY <2>1 DEF AnnounceInv, AnnouncedMatchesRegistry
<1>3. QED BY InitIInv, StepIInv, <1>1, StepAnnounce, <1>2, PTL DEF Spec
-----------------------------------------------------------------------------
(* The version of the client *)

\* What SendObserved makes is a message.
LEMMA ObservedType ==
  TypeOK => LET m == [units |-> {wobs[h] : h \in Read}, featuresIdx |-> wfeat,
                      componentIdx |-> wcomp, version |-> ~versionInfoSent]
            IN  m \in CheckinObserved /\ m # None
<1> SUFFICES ASSUME TypeOK
             PROVE  LET m == [units |-> {wobs[h] : h \in Read}, featuresIdx |-> wfeat,
                              componentIdx |-> wcomp, version |-> ~versionInfoSent]
                    IN  m \in CheckinObserved /\ m # None
  OBVIOUS
<1>1. {wobs[h] : h \in Read} \in SUBSET UnitObserved
  BY DEF TypeOK, MessagesOK, Read
<1>2. wfeat \in Nat /\ wcomp \in Nat /\ (~versionInfoSent) \in BOOLEAN
  BY DEF TypeOK, MessagesOK, FieldsOK
<1>3. None \notin CheckinObserved
  BY CheckinAssumption DEF CheckinAssumption
<1>4. [units |-> {wobs[h] : h \in Read}, featuresIdx |-> wfeat,
       componentIdx |-> wcomp, version |-> ~versionInfoSent] \in CheckinObserved
  BY <1>1, <1>2 DEF CheckinObserved
<1>5. QED BY <1>3, <1>4

\* A step keeps VersionInv: only SendObserved fills the message on its way, and
\* CloseSend leaves no stream open.
LEMMA StepVersion == TypeOK /\ LoopInv /\ VersionInv /\ [Next]_vars => VersionInv'
<1> SUFFICES ASSUME TypeOK, LoopInv, VersionInv, [Next]_vars PROVE VersionInv'
  OBVIOUS
<1> USE DEF VersionInv
<1>1. ASSUME UNCHANGED <<lpc, up, obs, hasVersion, versionInfoSent, link>> PROVE VersionInv'
  BY <1>1
<1>2. CASE Loop
  <2>1. CASE Connect
    BY <2>1 DEF Connect, ResetVersionInfoSent
  <2>2. CASE RoundTripDone
    BY <2>2 DEF RoundTripDone
  <2>3. CASE LoopCheck \/ ConnectFails \/ Backoff \/ StopReturns
    BY <2>3 DEF LoopCheck, ConnectFails, Backoff, StopReturns
  <2>4. QED BY <1>2, <2>1, <2>2, <2>3 DEF Loop
<1>3. CASE Stop \/ Start
  BY <1>3 DEF Stop, Start, LoopInv
<1>4. CASE Reader
  <2>1. UNCHANGED <<lpc, up, obs, hasVersion, versionInfoSent, link>>
    BY <1>4 DEF Reader, RecvExpected, RecvFails, SyncComponent, SyncUnitsLock,
       RemovalsDone, SyncUnitsDone, AnnounceRemoval, AddUnit, ModifyUnit
  <2>2. QED BY <1>1, <2>1
<1>5. CASE Writer
  <2>1. CASE SendObserved
    <3>1. lpc = "running" /\ lpc' = lpc
      BY <2>1 DEF SendObserved, LoopInv
    <3>2. /\ up' # None => up'.version = ~versionInfoSent
          /\ versionInfoSent /\ link = "open" => hasVersion
      BY <2>1 DEF SendObserved
    <3>3. /\ link = "open" /\ UNCHANGED <<obs, hasVersion, link>>
          /\ up' = [units |-> {wobs[h] : h \in Read}, featuresIdx |-> wfeat,
                    componentIdx |-> wcomp, version |-> ~versionInfoSent]
      BY <2>1 DEF SendObserved
    <3>4. up' # None
      BY <3>3, ObservedType
    <3>5. QED BY <3>1, <3>2, <3>3, <3>4
  <2>2. CASE SendEOF \/ WakeReaderDone
    BY <2>2 DEF SendEOF, WakeReaderDone, CloseSend
  <2>3. CASE CollectLock \/ CollectDone \/ ReadComponentIdx \/ SendFails \/ WakeSignal
             \/ WakeTicker \/ \E h \in Handles : ToObserved(h)
    BY <1>1, <2>3 DEF CollectLock, CollectDone, ReadComponentIdx, SendFails, WakeSignal,
       WakeTicker, ToObserved
  <2>4. QED BY <1>5, <2>1, <2>2, <2>3 DEF Writer
<1>6. CASE Integration
  <2>1. CASE TakeError
    BY <2>1 DEF TakeError, CloseSend
  <2>2. CASE TakeChange \/ \E h \in Handles, s \in States : UpdateState(h, s)
    BY <1>1, <2>2 DEF TakeChange, UpdateState
  <2>3. QED BY <1>6, <2>1, <2>2 DEF Integration
<1>7. CASE Agent
  <2>1. CASE AgentRecv
    <3>1. up # None /\ obs' = up /\ up' = None /\ UNCHANGED <<lpc, versionInfoSent, link>>
      BY <2>1 DEF AgentRecv
    <3>2. hasVersion' <=> hasVersion \/ up.version
      BY <2>1 DEF AgentRecv
    <3>3. QED BY <3>1, <3>2
  <2>2. CASE AgentPolicy \/ AgentSend
    BY <1>1, <2>2 DEF AgentPolicy, AgentSend
  <2>3. CASE AgentClose \/ Break
    BY <2>3 DEF AgentClose, Break
  <2>4. QED BY <1>7, <2>1, <2>2, <2>3 DEF Agent
<1>8. CASE UNCHANGED vars
  BY <1>1, <1>8 DEF vars
<1>9. QED BY <1>2, <1>3, <1>4, <1>5, <1>6, <1>7, <1>8 DEF Next, Terminated

\* An agent that has a message of a stream has the version of the client, after
\* any number of reconnects and failed sends (client_v2.go:565-566, 608-624).
THEOREM VersionWithFirstMessage == Spec => []VersionInfoFirst
<1>1. Init => VersionInv
  BY DEF Init, VersionInv
<1>2. IInv /\ VersionInv /\ [Next]_vars => VersionInv'
  BY StepVersion DEF IInv
<1>3. VersionInv => VersionInfoFirst
  BY DEF VersionInv, VersionInfoFirst
<1>4. QED BY InitIInv, StepIInv, <1>1, <1>2, <1>3, PTL DEF Spec

-----------------------------------------------------------------------------
(* What the integration has read *)

\* The steps that neither send nor take a change, nor write a Unit.
LEMMA EventFrame ==
  [Next]_vars =>
    \/ UNCHANGED <<ident, expected, change, told, view>>
    \/ TakeChange
    \/ \E h \in Handles : AnnounceRemoval(h)
    \/ \E i \in Ids, h \in Handles : AddUnit(i, h) \/ ModifyUnit(i, h)
<1> SUFFICES ASSUME [Next]_vars, ~TakeChange, ~(\E h \in Handles : AnnounceRemoval(h)),
                    ~(\E i \in Ids, h \in Handles : AddUnit(i, h) \/ ModifyUnit(i, h))
             PROVE UNCHANGED <<ident, expected, change, told, view>>
  OBVIOUS
<1>1. CASE Loop \/ Stop \/ Start
  BY <1>1 DEF Loop, LoopCheck, Connect, ConnectFails, RoundTripDone, Backoff, StopReturns,
     Stop, Start
<1>2. CASE Reader
  BY <1>2 DEF Reader, RecvExpected, RecvFails, SyncComponent, SyncUnitsLock, RemovalsDone,
     SyncUnitsDone
<1>3. CASE Writer
  BY <1>3 DEF Writer, CollectLock, CollectDone, ReadComponentIdx, SendObserved, SendEOF,
     SendFails, WakeSignal, WakeTicker, WakeReaderDone, ToObserved
<1>4. CASE Integration
  BY <1>4 DEF Integration, TakeError, UpdateState
<1>5. CASE Agent
  BY <1>5 DEF Agent, AgentPolicy, AgentRecv, AgentSend, AgentClose, Break
<1>6. CASE UNCHANGED vars
  BY <1>6 DEF vars
<1>7. QED BY <1>1, <1>2, <1>3, <1>4, <1>5, <1>6 DEF Next, Terminated

\* A new Unit is one the integration cannot have seen.
LEMMA StepAddedIsNew == IInv /\ AddedIsNew /\ [Next]_vars => AddedIsNew'
<1> SUFFICES ASSUME IInv, AddedIsNew, [Next]_vars PROVE AddedIsNew'
  OBVIOUS
<1> USE DEF AddedIsNew
<1>1. CASE UNCHANGED <<ident, expected, change, told, view>>
  BY <1>1
<1>2. CASE TakeChange
  BY <1>2 DEF TakeChange
<1>3. ASSUME NEW h \in Handles, AnnounceRemoval(h) PROVE AddedIsNew'
  BY <1>3, ChangedIsValue DEF AnnounceRemoval
<1>4. ASSUME NEW i \in Ids, NEW h \in Handles, AddUnit(i, h) PROVE AddedIsNew'
  <2>1. ident[h] = None /\ view' = view
    BY <1>4 DEF AddUnit, Fresh
  <2>2. view[h] = None
    BY <2>1 DEF IInv, HandleInv
  <2>3. change'.unit = h
    BY <1>4 DEF AddUnit, Changed
  <2>4. QED BY <2>1, <2>2, <2>3
<1>5. ASSUME NEW i \in Ids, NEW h \in Handles, ModifyUnit(i, h) PROVE AddedIsNew'
  BY <1>5 DEF ModifyUnit, Changed
<1>6. QED BY <1>1, <1>2, <1>3, <1>4, <1>5, EventFrame

\* The step property of RemovedStaysRemoved: the integration only hears of units
\* it holds, or of new ones.
LEMMA StepRemoved ==
  IInv /\ AnnounceInv /\ AddedIsNew /\ [Next]_vars =>
    \A h \in Handles : view[h] # None /\ h \notin told => h \notin told' /\ view'[h] = view[h]
<1> SUFFICES ASSUME IInv, AnnounceInv, AddedIsNew, [Next]_vars,
                    NEW h \in Handles, view[h] # None, h \notin told
             PROVE  h \notin told' /\ view'[h] = view[h]
  OBVIOUS
<1>1. CASE UNCHANGED <<told, view>>
  BY <1>1
<1>2. CASE TakeChange
  <2>1. change # None /\ change.unit \in Handles /\ DOMAIN view = Handles
        /\ rpc \in {"remove", "units"}
    BY <1>2 DEF TakeChange, IInv, TypeOK, FieldsOK, WriteLocked
  <2>2. change.type \in {"added", "modified", "removed"}
    BY <2>1 DEF AnnounceInv
  <2>3. CASE change.type = "added"
    <3>1. change.unit # h
      BY <2>1, <2>3 DEF AddedIsNew
    <3>2. told' = told \cup {change.unit} /\ view'[h] = view[h]
      BY <1>2, <2>1, <2>3, <3>1 DEF TakeChange
    <3>3. QED BY <3>1, <3>2
  <2>4. CASE change.type = "modified"
    <3>1. change.unit \in told
      BY <2>1, <2>4 DEF AnnounceInv
    <3>2. told' = told /\ view'[h] = view[h]
      BY <1>2, <2>1, <2>4, <3>1 DEF TakeChange
    <3>3. QED BY <3>2
  <2>5. CASE change.type = "removed"
    BY <1>2, <2>5 DEF TakeChange
  <2>6. QED BY <2>2, <2>3, <2>4, <2>5
<1>3. CASE \/ \E g \in Handles : AnnounceRemoval(g)
           \/ \E i \in Ids, g \in Handles : AddUnit(i, g) \/ ModifyUnit(i, g)
  BY <1>3 DEF AnnounceRemoval, AddUnit, ModifyUnit
<1>4. QED BY <1>1, <1>2, <1>3, EventFrame

\* A handle the integration was told to drop is never added, modified or removed
\* again, even when a unit with its id returns (client_v2.go:696-791).
THEOREM RemovedForGood == Spec => RemovedStaysRemoved
<1>1. Init => AnnounceInv /\ AddedIsNew
  BY DEF Init, AnnounceInv, WriteLocked, AddedIsNew
<1>2. QED BY InitIInv, StepIInv, <1>1, StepAnnounce, StepAddedIsNew, StepRemoved, PTL
          DEF Spec, RemovedStaysRemoved

-----------------------------------------------------------------------------
(* Triggers are complete *)

\* What Unit.Expected() returns is its fields.
LEMMA SeenByField ==
  ASSUME NEW e
  PROVE  Seen(e) = [f \in Fields |-> Seen(e)[f]]
BY DEF Seen, Fields

\* A field that updateState changes is among the triggers it returns.
LEMMA TriggersNameChanges ==
  ASSUME NEW e, NEW u, NEW m, NEW apm, NEW f \in Fields \ Triggers(e, u, m, apm)
  PROVE  Seen(UpdatedUnit(e, u, m, apm))[f] = Seen(e)[f]
<1>1. CASE f = "config"
  BY <1>1 DEF Seen, UpdatedUnit, Triggers
<1>2. CASE f = "features"
  BY <1>2 DEF Seen, UpdatedUnit, Triggers
<1>3. CASE f \in {"log", "state", "apm"}
  BY <1>3 DEF Seen, UpdatedUnit, Triggers
<1>4. QED BY <1>1, <1>2, <1>3 DEF Fields

\* updateState leaves either triggers or a Unit that looks as before; the triggers
\* are those of the change that is sent.
LEMMA StepViewModify ==
  ASSUME TypeOK, AnnounceInv, ViewInv, NEW i \in Ids, NEW h \in Handles, ModifyUnit(i, h)
  PROVE  ViewInv'
<1> DEFINE apm == ApmOf(component.config)
           e == expected[h]
           new == UpdatedUnit(e, rmsg.units[i], rmsg, apm)
           triggers == Triggers(e, rmsg.units[i], rmsg, apm)
                         \cup (IF rinfo THEN {"agentInfo"} ELSE {})
<1>1. /\ change = None /\ told' = told /\ view' = view
      /\ h \in units /\ rpc = "units"
      /\ expected' = [expected EXCEPT ![h] = new]
      /\ change' = IF triggers # {} THEN Changed("modified", h, triggers) ELSE None
  BY DEF ModifyUnit, FindUnit
<1>2. h \in told /\ view[h] = Seen(e)
  BY <1>1 DEF AnnounceInv, ViewInv, ViewCurrent
<1>3. \A f \in Fields \ triggers : Seen(new)[f] = view[h][f]
  BY <1>2, TriggersNameChanges
<1>4. /\ expected'[h] = new
      /\ \A g \in Handles \ {h} : expected'[g] = expected[g]
  BY <1>1 DEF TypeOK, FieldsOK
<1>5. \A g \in told \ {h} : view'[g] = Seen(expected'[g])
  BY <1>1, <1>4 DEF ViewInv, ViewCurrent, TypeOK, FieldsOK
<1>6. CASE triggers = {}
  <2>1. Seen(new) = Seen(e)
    <3>1. \A f \in Fields : Seen(new)[f] = Seen(e)[f]
      BY <1>2, <1>3, <1>6
    <3>2. QED BY ONLY <3>1, SeenByField
  <2>2. change' = None
    BY <1>1, <1>6
  <2>3. QED BY <1>1, <1>2, <1>4, <1>5, <2>1, <2>2 DEF ViewInv, ViewCurrent
<1>7. CASE triggers # {}
  <2>1. change'.unit = h /\ change'.triggers = triggers /\ change' # None
    <3>1. triggers \in SUBSET (Fields \cup {"agentInfo"})
      BY DEF Triggers, Fields
    <3>2. change' = Changed("modified", h, triggers)
      BY <1>1, <1>7
    <3>3. QED BY ONLY <3>1, <3>2, ChangedIsValue DEF Changed
  <2>2. ViewCurrent'
    <3>1. told' = told
      BY <1>1
    <3>2. QED BY ONLY <1>5, <2>1, <3>1 DEF ViewCurrent
  <2>3. \A f \in Fields \ change'.triggers : view'[h][f] = Seen(expected'[h])[f]
    BY ONLY <1>1, <1>3, <1>4, <2>1
  <2>4. QED BY <2>1, <2>2, <2>3 DEF ViewInv
<1>8. QED BY <1>6, <1>7

\* Reading what the triggers name brings the view of that unit up to date.
LEMMA StepViewTake == IInv /\ AnnounceInv /\ ViewInv /\ TakeChange => ViewInv'
<1> SUFFICES ASSUME IInv, AnnounceInv, ViewInv, TakeChange PROVE ViewInv'
  OBVIOUS
<1> DEFINE h == change.unit
           now == Seen(expected[h])
<1>1. /\ change # None /\ change' = None /\ expected' = expected
      /\ h \in Handles /\ told \subseteq Handles /\ DOMAIN view = Handles
      /\ rpc \in {"remove", "units"}
  BY DEF TakeChange, IInv, TypeOK, FieldsOK, WriteLocked
<1>2. \A g \in told \ {h} : view[g] = Seen(expected[g])
  BY DEF ViewInv, ViewCurrent
<1>3. change.type \in {"added", "modified", "removed"}
  BY <1>1 DEF AnnounceInv
<1>4. CASE change.type = "added"
  <2>1. told' = told \cup {h} /\ view' = [view EXCEPT ![h] = now]
    BY <1>4 DEF TakeChange
  <2>2. view'[h] = now /\ \A g \in told \ {h} : view'[g] = view[g]
    BY <1>1, <2>1
  <2>3. QED BY <1>1, <1>2, <2>1, <2>2 DEF ViewInv, ViewCurrent
<1>5. CASE change.type = "modified"
  <2>1. /\ told' = told
        /\ view' = [view EXCEPT ![h] =
                     [f \in Fields |-> IF f \in change.triggers THEN now[f] ELSE view[h][f]]]
    BY <1>5 DEF TakeChange
  <2>2. \A f \in Fields \ change.triggers : view[h][f] = now[f]
    BY <1>1, <1>5 DEF ViewInv
  <2>3. [f \in Fields |-> IF f \in change.triggers THEN now[f] ELSE view[h][f]]
          = [f \in Fields |-> now[f]]
    BY <2>2
  <2>4. now = [f \in Fields |-> now[f]]
    BY SeenByField
  <2>5. view'[h] = now /\ \A g \in told \ {h} : view'[g] = view[g]
    BY <1>1, <2>1, <2>3, <2>4
  <2>6. QED BY <1>1, <1>2, <2>1, <2>5 DEF ViewInv, ViewCurrent
<1>6. CASE change.type = "removed"
  <2>1. told' = told \ {h} /\ view' = view
    BY <1>6 DEF TakeChange
  <2>2. QED BY <1>1, <1>2, <2>1 DEF ViewInv, ViewCurrent
<1>7. QED BY <1>3, <1>4, <1>5, <1>6

\* ViewInv is inductive relative to IInv and AnnounceInv.
LEMMA StepView == IInv /\ AnnounceInv /\ ViewInv /\ [Next]_vars => ViewInv'
<1> SUFFICES ASSUME IInv, AnnounceInv, ViewInv, [Next]_vars PROVE ViewInv'
  OBVIOUS
<1>1. CASE UNCHANGED <<ident, expected, change, told, view>>
  BY <1>1 DEF ViewInv, ViewCurrent
<1>2. ASSUME NEW h \in Handles, AnnounceRemoval(h) PROVE ViewInv'
  <2>1. /\ change = None /\ UNCHANGED <<expected, told, view>>
        /\ change' # None /\ change'.type = "removed"
    BY <1>2, ChangedIsValue DEF AnnounceRemoval
  <2>2. QED BY <2>1 DEF ViewInv, ViewCurrent
<1>3. ASSUME NEW i \in Ids, NEW h \in Handles, AddUnit(i, h) PROVE ViewInv'
  <2>1. /\ change = None /\ UNCHANGED <<told, view>> /\ rpc = "units"
        /\ change'.type = "added" /\ change'.unit = h
        /\ ident[h] = None
    BY <1>3 DEF AddUnit, Changed, Fresh
  <2>2. told = units /\ h \notin units
    BY <2>1 DEF AnnounceInv, IInv, TypeOK, FieldsOK
  <2>3. \A g \in Handles \ {h} : expected'[g] = expected[g]
    BY <1>3 DEF AddUnit, IInv, TypeOK, FieldsOK
  <2>4. told \subseteq Handles
    BY DEF IInv, TypeOK, FieldsOK
  <2>5. QED BY <2>1, <2>2, <2>3, <2>4 DEF ViewInv, ViewCurrent
<1>4. ASSUME NEW i \in Ids, NEW h \in Handles, ModifyUnit(i, h) PROVE ViewInv'
  BY <1>4, StepViewModify DEF IInv
<1>5. QED BY <1>1, <1>2, <1>3, <1>4, StepViewTake, EventFrame

\* An integration that rereads only what triggers name never holds a stale field,
\* except of the unit whose change is on its way (unit.go:293-336,
\* client_v2.go:749-782).
THEOREM TriggersAreComplete == Spec => []ViewCurrent
<1>1. Init => AnnounceInv /\ ViewInv
  BY DEF Init, AnnounceInv, WriteLocked, ViewInv, ViewCurrent
<1>2. ViewInv => ViewCurrent
  BY DEF ViewInv
<1>3. QED BY InitIInv, StepIInv, <1>1, StepAnnounce, StepView, <1>2, PTL DEF Spec

=============================================================================
