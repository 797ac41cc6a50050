------------------------------ MODULE Checkin ------------------------------
(***************************************************************************)
(* The V2 check-in of the client (pkg/client/client_v2.go, unit.go): the   *)
(* retry loop, the goroutine that receives and applies expected messages   *)
(* (the reader), the goroutine that reports observed state (the writer),   *)
(* Unit.UpdateState, Start and Stop.  The Elastic Agent, the gRPC stream   *)
(* and the integration that uses the client are its environment.           *)
(*                                                                         *)
(* The mutexes are the program counters: the reader holds unitsMu for      *)
(* writing in "remove" and "units", the writer holds it for reading in     *)
(* "collect".  A channel send without a buffer (changesCh, errCh) is a     *)
(* pending value the sender waits on until the integration takes it.       *)
(* The order of c.units and of a message's units decides nothing but the   *)
(* order of visits, so both are sets visited in any order.  Durations are  *)
(* left out: the ticker and the retry timer may fire at any time.          *)
(***************************************************************************)
EXTENDS Naturals, Sequences, FiniteSets

CONSTANTS
  Ids,        \* (unit id, unit type) pairs a policy can name
  MaxUnits,   \* bound: Unit objects ever allocated
  States,     \* observed states (state, message and payload together)
  Starting,   \* the state newUnit gives: STARTING, "Starting"
  Script,     \* the policies the agent goes through, in order
  Omit,       \* acknowledged parts the agent leaves out of a message
  NumCPU,     \* runtime.NumCPU()
  InitialInfo,\* agent info the client was created with
  MaxFaults,  \* bound: failed dials, broken or closed streams, failed sends
  MaxStarts,  \* bound: calls of Start
  MaxUpdates, \* bound: calls of UpdateState that change something
  None        \* Go's nil, and "no value" elsewhere

Handles == 1..MaxUnits    \* Unit objects, in order of allocation
Parts == {"config", "features", "component"}
Fields == {"config", "features", "log", "state", "apm"}

\* What is sent on changesCh.
UnitChanged == [type : {"added", "modified", "removed"}, unit : Handles,
                triggers : SUBSET (Fields \cup {"agentInfo"})]

UnitPolicy == [state : {"healthy", "stopped"}, log : Nat, cfgIdx : Nat \ {0}]

\* The messages of the check-in.  Features, components, APM configs and agent
\* infos are values of the script.
UnitExpected == [state : {"healthy", "stopped"}, log : Nat, cfgIdx : Nat \ {0}, cfg : Nat \cup {None}]
Features == {Script[v].features : v \in DOMAIN Script} \cup {None}
Component == {Script[v].component : v \in DOMAIN Script} \cup {None}
AgentInfo == {Script[v].info : v \in DOMAIN Script} \cup {None}
CheckinExpected ==
  [units : [Ids -> UnitExpected \cup {None}], features : Features, featuresIdx : Nat \ {0},
   component : Component, componentIdx : Nat \ {0}, info : AgentInfo]
UnitObserved == [id : Ids, cfgIdx : Nat \ {0}, state : States]
CheckinObserved ==
  [units : SUBSET UnitObserved, featuresIdx : Nat, componentIdx : Nat, version : BOOLEAN]

\* The fields of a Unit that expectedStateMu guards.
ExpectedState ==
  [state : {"healthy", "stopped"}, log : Nat, cfg : Nat \cup {None}, cfgIdx : Nat \ {0},
   features : Features, featuresIdx : Nat, apm : {c.apm : c \in Component \ {None}} \cup {None}]

\* What Unit.Expected() returns of them.
UnitView ==
  [config : Nat \cup {None}, features : Features, log : Nat, state : {"healthy", "stopped"},
   apm : {c.apm : c \in Component \ {None}} \cup {None}]

ASSUME CheckinAssumption ==
  /\ MaxUnits \in Nat /\ NumCPU \in Nat \ {0}
  /\ MaxFaults \in Nat /\ MaxUpdates \in Nat /\ MaxStarts \in Nat \ {0}
  /\ Starting \in States
  /\ Omit \subseteq Parts
  /\ None \notin Ids \cup UnitPolicy \cup UnitChanged \cup ExpectedState
  /\ None \notin UnitExpected \cup CheckinExpected \cup UnitObserved
              \cup CheckinObserved \cup UnitView
  /\ \A v \in DOMAIN Script :
       /\ Script[v].units \in [Ids -> UnitPolicy \cup {None}]
       /\ Script[v].featuresIdx \in Nat \ {0}
       /\ Script[v].componentIdx \in Nat \ {0}
  /\ Script \in Seq({Script[v] : v \in DOMAIN Script}) /\ Script # <<>>

(* The agent's side of the protocol: what the theorems of CheckinPolicyProofs *)
(* assume of the script.                                                       *)

\* The indexes the agent gives never go back while it runs: it increments them
\* (elastic-agent-client.proto:193-195, 304-306).
IndexesGrow ==
  \A v, w \in DOMAIN Script : v <= w =>
    /\ Script[v].componentIdx <= Script[w].componentIdx
    /\ \A i \in Ids : Script[v].units[i] # None /\ Script[w].units[i] # None =>
         Script[v].units[i].cfgIdx <= Script[w].units[i].cfgIdx

\* A unit that returns has a new index: the client forgot it, and the agent
\* must not leave its config out.
ReturnsAreNew ==
  \A u, v, w \in DOMAIN Script : u <= v /\ v <= w => \A i \in Ids :
    Script[u].units[i] # None /\ Script[v].units[i] = None /\ Script[w].units[i] # None =>
      Script[u].units[i].cfgIdx # Script[w].units[i].cfgIdx

\* The agent always sends features, and never two under one index.
FeaturesSent ==
  /\ "features" \notin Omit
  /\ \A v, w \in DOMAIN Script :
       /\ Script[v].features # None
       /\ Script[v].featuresIdx = Script[w].featuresIdx => Script[v].features = Script[w].features

VARIABLES
  \* The Unit objects and the client's registry of them.
  ident,         \* handle -> id of the unit, None if not allocated
  expected,      \* handle -> fields guarded by expectedStateMu
  state,         \* handle -> fields guarded by stateMu
  units,         \* c.units
  featuresIdx,   \* c.featuresIdx
  component,     \* c.componentConfig and c.componentIdx
  goMaxProcs,    \* the process's GOMAXPROCS
  agentInfo,     \* c.agentInfo
  signal,        \* stateChangeObservedCh holds a value
  \* The reader goroutine.
  rpc, rmsg,     \* where it is; the message it applies
  rgone, rtodo,  \* units still to remove; ids still to sync
  rinfo,         \* agentInfoChanged
  change,        \* the UnitChanged it is sending on changesCh
  \* The writer goroutine.
  wpc, wobs,     \* where it is; handle -> what toObserved returned
  wfeat, wcomp,  \* featuresIdx and componentIdx of its message
  versionInfoSent,
  \* The retry loop, Start and Stop.
  lpc, ctx, spc, starts,
  \* The stream and the agent.
  link, up, down,
  ver, obs, greeted, hasVersion, faults,
  \* The integration.
  told,          \* units it was told about and not told were removed
  view,          \* handle -> what it has read of Unit.Expected()
  updates

registryVars == <<ident, expected, units, featuresIdx, agentInfo>>
componentVars == <<component, goMaxProcs>>
syncVars == <<rmsg, rgone, rtodo, rinfo, change>>
wmsgVars == <<wobs, wfeat, wcomp>>
writerVars == <<wpc, wmsgVars, versionInfoSent>>
loopVars == <<lpc, ctx, spc, starts>>
streamVars == <<link, up, down>>
connVars == <<obs, greeted, hasVersion>>
userVars == <<told, view, updates>>
vars == <<registryVars, state, componentVars, signal, rpc, syncVars, writerVars,
          loopVars, streamVars, ver, connVars, faults, userVars>>

\* What no step of the loop, of the reader, of the writer, of the agent changes.
LoopFrame == UNCHANGED <<registryVars, state, componentVars, signal, syncVars, ver, userVars>>
ReaderFrame == UNCHANGED <<state, writerVars, loopVars, link, up, ver, connVars, faults, userVars>>
WriterFrame == UNCHANGED <<registryVars, state, componentVars, rpc, syncVars, loopVars, down,
                           ver, connVars, userVars>>
AgentFrame == UNCHANGED <<registryVars, state, componentVars, signal, rpc, syncVars,
                          writerVars, loopVars, userVars>>

-----------------------------------------------------------------------------
(* Operators.  An operator whose comment starts with "Mutant" is a plausible *)
(* mistake in the one that follows it; no specification uses it.            *)

NothingRead == [h \in Handles |-> None]
Forget == wobs' = NothingRead /\ wfeat' = 0 /\ wcomp' = 0
Read == {h \in Handles : wobs[h] # None}
InExpected(h, m) == m.units[ident[h]] # None
\* Mutant: a cache of units that removals do not clear.
FindUnitStale(i) == {h \in Handles : ident[h] = i}
FindUnit(i) == {h \in units : ident[h] = i}
Fresh == {h \in Handles : ident[h] = None /\ \A g \in 1..(h - 1) : ident[g] # None}

LimitsOf(c) == IF c = None THEN 0 ELSE c.limits
ApmOf(c) == IF c = None THEN None ELSE c.apm
Procs(n) == IF n = 0 THEN NumCPU ELSE n

\* unitsMu is held, and may be taken.
WriteLocked == rpc \in {"remove", "units"}
ReadLocked == wpc = "collect"
\* Mutant: unitsMu is not taken.
NoMutex == TRUE
CanLock == ~ReadLocked
CanRLock == ~WriteLocked

\* The view Unit.Expected() gives.
Seen(e) == [config |-> e.cfg, features |-> e.features, log |-> e.log,
            state |-> e.state, apm |-> e.apm]

\* The CheckinExpected the agent sends for policy p when the client last
\* reported o: what o acknowledges may be left out.
ExpectedMsg(p, o, first) ==
  [units |-> [i \in Ids |->
      IF p.units[i] = None THEN None
      ELSE [state |-> p.units[i].state, log |-> p.units[i].log,
            cfgIdx |-> p.units[i].cfgIdx,
            cfg |-> IF /\ "config" \in Omit
                       /\ \E r \in o.units : r.id = i /\ r.cfgIdx = p.units[i].cfgIdx
                    THEN None ELSE p.units[i].cfgIdx]],
   features |-> IF "features" \in Omit /\ o.featuresIdx = p.featuresIdx
                THEN None ELSE p.features,
   featuresIdx |-> p.featuresIdx,
   component |-> IF "component" \in Omit /\ o.componentIdx = p.componentIdx
                 THEN None ELSE p.component,
   componentIdx |-> p.componentIdx,
   info |-> IF first THEN p.info ELSE None]

\* Mutant: the index without the features.
NewUnitNoFeatures(u, m, apm) ==
  [state |-> u.state, log |-> u.log, cfg |-> u.cfg, cfgIdx |-> u.cfgIdx,
   features |-> None, featuresIdx |-> m.featuresIdx, apm |-> apm]

\* The fields of newUnit: its featuresIdx stays zero.
NewUnit(u, m, apm) ==
  [state |-> u.state, log |-> u.log, cfg |-> u.cfg, cfgIdx |-> u.cfgIdx,
   features |-> m.features, featuresIdx |-> 0, apm |-> apm]

\* Unit.updateState: the new fields ...
UpdatedUnit(e, u, m, apm) ==
  [state |-> u.state, log |-> u.log,
   cfg |-> IF e.cfgIdx # u.cfgIdx THEN u.cfg ELSE e.cfg, cfgIdx |-> u.cfgIdx,
   features |-> IF e.featuresIdx # m.featuresIdx /\ m.features # None
                THEN m.features ELSE e.features,
   featuresIdx |-> m.featuresIdx, apm |-> apm]

\* Mutant: a new APM config does not trigger.
TriggersNoAPM(e, u, m, apm) ==
  (IF e.state # u.state THEN {"state"} ELSE {}) \cup
  (IF e.log # u.log THEN {"log"} ELSE {}) \cup
  (IF e.featuresIdx # m.featuresIdx /\ m.features \notin {None, e.features}
   THEN {"features"} ELSE {}) \cup
  (IF e.cfgIdx # u.cfgIdx THEN {"config"} ELSE {})

\* ... and the triggers it returns.
Triggers(e, u, m, apm) ==
  (IF e.state # u.state THEN {"state"} ELSE {}) \cup
  (IF e.log # u.log THEN {"log"} ELSE {}) \cup
  (IF e.featuresIdx # m.featuresIdx /\ m.features \notin {None, e.features}
   THEN {"features"} ELSE {}) \cup
  (IF e.cfgIdx # u.cfgIdx THEN {"config"} ELSE {}) \cup
  (IF e.apm # apm THEN {"apm"} ELSE {})

Changed(type, h, triggers) == [type |-> type, unit |-> h, triggers |-> triggers]

-----------------------------------------------------------------------------
Init ==
  /\ ident = [h \in Handles |-> None]
  /\ expected = [h \in Handles |-> None]
  /\ state = [h \in Handles |-> Starting]
  /\ units = {} /\ featuresIdx = 0
  /\ component = [config |-> None, idx |-> 0] /\ goMaxProcs = NumCPU
  /\ agentInfo = InitialInfo
  /\ signal = FALSE
  /\ rpc = "off" /\ rmsg = None /\ rgone = {} /\ rtodo = {} /\ rinfo = FALSE
  /\ change = None
  /\ wpc = "off" /\ wobs = NothingRead /\ wfeat = 0 /\ wcomp = 0
  /\ versionInfoSent = FALSE
  /\ lpc = "check" /\ ctx = "live" /\ spc = "none" /\ starts = 1
  /\ link = "none" /\ up = None /\ down = None
  /\ ver = 1 /\ obs = None /\ greeted = FALSE /\ hasVersion = FALSE /\ faults = 0
  /\ told = {} /\ view = [h \in Handles |-> None] /\ updates = 0

-----------------------------------------------------------------------------
(* The retry loop: startCheckin and checkinRoundTrip *)

\* Mutant: for { ... }
LoopForever == TRUE
LoopContinues == ctx = "live"

\* for c.ctx.Err() == nil
LoopCheck ==
  /\ lpc = "check"
  /\ lpc' = IF LoopContinues THEN "dial" ELSE "exited"
  /\ LoopFrame
  /\ UNCHANGED <<rpc, writerVars, ctx, spc, starts, streamVars, connVars, faults>>

\* Mutant: the version info of the last stream counts as sent.
KeepVersionInfoSent == UNCHANGED versionInfoSent
ResetVersionInfoSent == versionInfoSent' = FALSE

\* CheckinV2 opens the stream; the reader and the writer start.
Connect ==
  /\ lpc = "dial" /\ ctx = "live"
  /\ lpc' = "running" /\ link' = "open"
  /\ rpc' = "recv" /\ wpc' = "lock" /\ ResetVersionInfoSent
  /\ LoopFrame
  /\ UNCHANGED <<wmsgVars, ctx, spc, starts, up, down, connVars, faults>>

\* CheckinV2 fails: its error goes to errCh before the loop goes on.
ConnectFails ==
  /\ lpc = "dial"
  /\ \/ ctx = "cancelled" /\ UNCHANGED faults
     \/ faults < MaxFaults /\ faults' = faults + 1
  /\ lpc' = "err"
  /\ LoopFrame /\ UNCHANGED <<rpc, writerVars, ctx, spc, starts, streamVars, connVars>>

\* wg.Wait() of checkinRoundTrip, and the deferred checkinCancel.  What the
\* goroutines held in local variables goes, and what the agent knew of them.
RoundTripDone ==
  /\ lpc = "running" /\ rpc = "done" /\ wpc = "done"
  /\ lpc' = "backoff" /\ rpc' = "off" /\ wpc' = "off" /\ Forget
  /\ link' = "none" /\ up' = None /\ down' = None
  /\ obs' = None /\ greeted' = FALSE /\ hasVersion' = FALSE
  /\ LoopFrame /\ UNCHANGED <<versionInfoSent, ctx, spc, starts, faults>>

\* Mutant: a round trip that ended is not repeated.
BackoffExit ==
  /\ lpc = "backoff" /\ lpc' = "exited"
  /\ LoopFrame
  /\ UNCHANGED <<rpc, writerVars, ctx, spc, starts, streamVars, connVars, faults>>

\* The retry timer, or ctx.Done().
Backoff ==
  /\ lpc = "backoff" /\ lpc' = "check"
  /\ LoopFrame
  /\ UNCHANGED <<rpc, writerVars, ctx, spc, starts, streamVars, connVars, faults>>

Stop ==
  /\ spc = "none" /\ spc' = "waiting" /\ ctx' = "cancelled"
  /\ LoopFrame /\ UNCHANGED <<rpc, writerVars, lpc, starts, streamVars, connVars, faults>>

StopReturns ==
  /\ spc = "waiting" /\ lpc = "exited" /\ spc' = "returned"
  /\ LoopFrame
  /\ UNCHANGED <<rpc, writerVars, lpc, ctx, starts, streamVars, connVars, faults>>

\* Mutant: Start empties the registry, and tells nobody.
StartEmpty ==
  /\ spc = "returned" /\ starts < MaxStarts
  /\ spc' = "none" /\ ctx' = "live" /\ lpc' = "check" /\ starts' = starts + 1
  /\ units' = {}
  /\ UNCHANGED <<ident, expected, featuresIdx, agentInfo, state, componentVars, signal, rpc,
                 syncVars, writerVars, streamVars, ver, connVars, faults, userVars>>

\* Start after Stop: the registry is as Stop left it.
Start ==
  /\ spc = "returned" /\ starts < MaxStarts
  /\ spc' = "none" /\ ctx' = "live" /\ lpc' = "check" /\ starts' = starts + 1
  /\ LoopFrame /\ UNCHANGED <<rpc, writerVars, streamVars, connVars, faults>>

-----------------------------------------------------------------------------
(* The reader: RecvExpected, applyExpected *)

RecvExpected ==
  /\ rpc = "recv" /\ down # None
  /\ rmsg' = down /\ down' = None /\ rpc' = "component"
  /\ ReaderFrame
  /\ UNCHANGED <<registryVars, componentVars, signal, rgone, rtodo, rinfo, change>>

\* Mutant: the loop goes on after io.EOF.
NeverEOF == FALSE
AtEOF == link = "closed" /\ down = None

\* io.EOF is not reported, any other error goes to errCh.
RecvFails ==
  /\ rpc = "recv"
  /\ \/ AtEOF /\ rpc' = "done"
     \/ (link = "broken" \/ ctx = "cancelled") /\ rpc' = "err"
  /\ ReaderFrame /\ UNCHANGED <<registryVars, componentVars, signal, syncVars, down>>

\* Mutant: the config is stored before the limits are compared.
LimitsChangedLate == FALSE
LimitsChanged == LimitsOf(rmsg.component) # LimitsOf(component.config)

SyncComponent ==
  /\ rpc = "component" /\ rpc' = "lock"
  /\ goMaxProcs' = IF LimitsChanged THEN Procs(LimitsOf(rmsg.component)) ELSE goMaxProcs
  /\ component' = [config |-> rmsg.component, idx |-> rmsg.componentIdx]
  /\ ReaderFrame /\ UNCHANGED <<registryVars, signal, syncVars, down>>

\* unitsMu.Lock(), then the loop of removeUnexpectedUnits.
SyncUnitsLock ==
  /\ rpc = "lock" /\ CanLock
  /\ rpc' = "remove" /\ rgone' = {h \in units : ~InExpected(h, rmsg)}
  /\ ReaderFrame
  /\ UNCHANGED <<registryVars, componentVars, signal, rmsg, rtodo, rinfo, change, down>>

AnnounceRemoval(h) ==
  /\ rpc = "remove" /\ change = None /\ h \in rgone
  /\ change' = Changed("removed", h, {}) /\ rgone' = rgone \ {h}
  /\ ReaderFrame
  /\ UNCHANGED <<registryVars, componentVars, signal, rpc, rmsg, rtodo, rinfo, down>>

\* Mutant: the list is not truncated.
RemainingAll == units
Remaining == {h \in units : InExpected(h, rmsg)}
\* Mutant: removals do not wake the writer.
SignalRemovalsNot == UNCHANGED signal
SignalRemovals == signal' = (signal \/ Remaining # units)

\* The list is truncated; the writer is woken if anything went; the agent
\* info is compared and stored.
RemovalsDone ==
  /\ rpc = "remove" /\ change = None /\ rgone = {}
  /\ units' = Remaining /\ SignalRemovals
  /\ rinfo' = (rmsg.info # None /\ rmsg.info # agentInfo)
  /\ agentInfo' = IF rmsg.info # None THEN rmsg.info ELSE agentInfo
  /\ rtodo' = {i \in Ids : rmsg.units[i] # None} /\ rpc' = "units"
  /\ ReaderFrame
  /\ UNCHANGED <<ident, expected, featuresIdx, componentVars, rmsg, rgone, change, down>>

AddUnit(i, h) ==
  LET apm == ApmOf(component.config) IN
  /\ rpc = "units" /\ change = None /\ i \in rtodo
  /\ FindUnit(i) = {} /\ h \in Fresh
  /\ ident' = [ident EXCEPT ![h] = i]
  /\ expected' = [expected EXCEPT ![h] = NewUnit(rmsg.units[i], rmsg, apm)]
  /\ units' = units \cup {h} /\ rtodo' = rtodo \ {i}
  /\ change' = Changed("added", h,
       (IF rmsg.features # None THEN {"features"} ELSE {}) \cup
       (IF apm # None THEN {"apm"} ELSE {}))
  /\ ReaderFrame
  /\ UNCHANGED <<featuresIdx, agentInfo, componentVars, signal, rpc, rmsg, rgone, rinfo, down>>

ModifyUnit(i, h) ==
  LET apm == ApmOf(component.config)
      u == rmsg.units[i]
      triggers == Triggers(expected[h], u, rmsg, apm)
                    \cup (IF rinfo THEN {"agentInfo"} ELSE {})
  IN
  /\ rpc = "units" /\ change = None /\ i \in rtodo /\ h \in FindUnit(i)
  /\ expected' = [expected EXCEPT ![h] = UpdatedUnit(expected[h], u, rmsg, apm)]
  /\ change' = IF triggers # {} THEN Changed("modified", h, triggers) ELSE None
  /\ rtodo' = rtodo \ {i}
  /\ ReaderFrame
  /\ UNCHANGED <<ident, units, featuresIdx, agentInfo, componentVars, signal, rpc, rmsg,
                 rgone, rinfo, down>>

\* Mutant: the reader does not wait for the integration.
SentAnyway == TRUE
Sent == change = None

\* The features index is recorded last, and unitsMu released.
SyncUnitsDone ==
  /\ rpc = "units" /\ Sent /\ rtodo = {}
  /\ featuresIdx' = rmsg.featuresIdx
  /\ rpc' = "recv" /\ rmsg' = None /\ rinfo' = FALSE
  /\ ReaderFrame
  /\ UNCHANGED <<ident, expected, units, agentInfo, componentVars, signal, rgone, rtodo,
                 change, down>>

-----------------------------------------------------------------------------
(* The writer: checkinWriter, sendObserved *)

\* unitsMu.RLock() of sendObserved.
CollectLock ==
  /\ wpc = "lock" /\ CanRLock /\ wpc' = "collect"
  /\ WriterFrame /\ UNCHANGED <<signal, wmsgVars, versionInfoSent, link, up, faults>>

\* Unit.toObserved; configIdx cannot change while unitsMu is read-locked.
ToObserved(h) ==
  /\ wpc = "collect" /\ h \in units \ Read
  /\ wobs' = [wobs EXCEPT ![h] =
       [id |-> ident[h], cfgIdx |-> expected[h].cfgIdx, state |-> state[h]]]
  /\ WriterFrame /\ UNCHANGED <<signal, wpc, wfeat, wcomp, versionInfoSent, link, up, faults>>

CollectDone ==
  /\ wpc = "collect" /\ units \subseteq Read
  /\ wfeat' = featuresIdx /\ wpc' = "component"
  /\ WriterFrame /\ UNCHANGED <<signal, wobs, wcomp, versionInfoSent, link, up, faults>>

\* Mutant: featuresIdx is read after unitsMu is released.
ReadBothIdx ==
  /\ wpc = "component"
  /\ wcomp' = component.idx /\ wfeat' = featuresIdx /\ wpc' = "send"
  /\ WriterFrame /\ UNCHANGED <<signal, wobs, versionInfoSent, link, up, faults>>

\* componentIdx is read under its own mutex, after unitsMu is released.
ReadComponentIdx ==
  /\ wpc = "component"
  /\ wcomp' = component.idx /\ wpc' = "send"
  /\ WriterFrame /\ UNCHANGED <<signal, wobs, wfeat, versionInfoSent, link, up, faults>>

SendObserved ==
  /\ wpc = "send" /\ link = "open" /\ ctx = "live" /\ up = None
  /\ up' = [units |-> {wobs[h] : h \in Read}, featuresIdx |-> wfeat,
            componentIdx |-> wcomp, version |-> ~versionInfoSent]
  /\ versionInfoSent' = TRUE /\ wpc' = "select"
  /\ WriterFrame /\ UNCHANGED <<signal, wmsgVars, link, faults>>

CloseSend == link' = IF link = "open" THEN "halfclosed" ELSE link

\* io.EOF says the stream is over and is left to the reader to report.
SendEOF ==
  /\ wpc = "send" /\ (link \in {"closed", "broken"} \/ ctx = "cancelled")
  /\ versionInfoSent' = TRUE /\ wpc' = "done" /\ CloseSend
  /\ WriterFrame /\ UNCHANGED <<signal, wmsgVars, up, faults>>

\* Any other error: the message cannot be chunked, the call is cancelled.  A
\* message that cannot be encoded ends the stream, as Break does.
SendFails ==
  /\ wpc = "send"
  /\ \/ ctx = "cancelled" /\ UNCHANGED faults
     \/ faults < MaxFaults /\ faults' = faults + 1
  /\ wpc' = "err"
  /\ WriterFrame /\ UNCHANGED <<signal, wmsgVars, versionInfoSent, link, up>>

\* The three cases of the select.
WakeSignal ==
  /\ wpc = "select" /\ signal
  /\ signal' = FALSE /\ wpc' = "lock" /\ Forget
  /\ WriterFrame /\ UNCHANGED <<versionInfoSent, link, up, faults>>

WakeTicker ==
  /\ wpc = "select" /\ wpc' = "lock" /\ Forget
  /\ WriterFrame /\ UNCHANGED <<signal, versionInfoSent, link, up, faults>>

WakeReaderDone ==
  /\ wpc = "select" /\ rpc = "done"
  /\ wpc' = "done" /\ CloseSend
  /\ WriterFrame /\ UNCHANGED <<signal, wmsgVars, versionInfoSent, up, faults>>

-----------------------------------------------------------------------------
(* The integration *)

\* It takes the change the reader is sending, and reads of Unit.Expected()
\* the fields the triggers name (all of them for an added unit).
TakeChange ==
  /\ change # None /\ change' = None
  /\ LET h == change.unit
         now == Seen(expected[h]) IN
     /\ told' = CASE change.type = "added" -> told \cup {h}
                  [] change.type = "modified" -> told
                  [] change.type = "removed" -> told \ {h}
     /\ view' = CASE change.type = "added" -> [view EXCEPT ![h] = now]
                  [] change.type = "modified" -> [view EXCEPT ![h] =
                       [f \in Fields |-> IF f \in change.triggers THEN now[f] ELSE view[h][f]]]
                  [] change.type = "removed" -> view
  /\ UNCHANGED <<registryVars, state, componentVars, signal, rpc, rmsg, rgone, rtodo, rinfo,
                 writerVars, loopVars, streamVars, ver, connVars, faults, updates>>

\* It takes an error from errCh: the sender goes on.
TakeError ==
  /\ \/ lpc = "err" /\ lpc' = "backoff" /\ UNCHANGED <<rpc, wpc, link>>
     \/ rpc = "err" /\ rpc' = "done" /\ UNCHANGED <<lpc, wpc, link>>
     \/ wpc = "err" /\ wpc' = "done" /\ CloseSend /\ UNCHANGED <<lpc, rpc>>
  /\ LoopFrame
  /\ UNCHANGED <<wmsgVars, versionInfoSent, ctx, spc, starts, up, down, connVars, faults>>

\* Mutant: stateChangeObservedCh has no buffer.
NotifyUnbuffered == signal' = (wpc = "select")
unitsStateChanged == signal' = TRUE

\* Unit.UpdateState on a handle it was given, removed or not.  state is
\* written and the signal sent under stateMu, which toObserved needs, so the
\* two are one step.
UpdateState(h, s) ==
  /\ view[h] # None /\ state[h] # s /\ updates < MaxUpdates
  /\ state' = [state EXCEPT ![h] = s] /\ unitsStateChanged /\ updates' = updates + 1
  /\ UNCHANGED <<registryVars, componentVars, rpc, syncVars, writerVars, loopVars, streamVars,
                 ver, connVars, faults, told, view>>

-----------------------------------------------------------------------------
(* The agent and the stream *)

Streaming == link \in {"open", "halfclosed"}

AgentPolicy ==
  /\ ver < Len(Script) /\ ver' = ver + 1
  /\ AgentFrame /\ UNCHANGED <<streamVars, connVars, faults>>

AgentRecv ==
  /\ Streaming /\ up # None
  /\ obs' = up /\ up' = None /\ hasVersion' = (hasVersion \/ up.version)
  /\ AgentFrame /\ UNCHANGED <<link, down, ver, greeted, faults>>

\* The agent knows the client by the token of its first message; it sends
\* agent info on its own first message only.
AgentSend ==
  /\ Streaming /\ obs # None /\ down = None
  /\ down' = ExpectedMsg(Script[ver], obs, ~greeted) /\ greeted' = TRUE
  /\ AgentFrame /\ UNCHANGED <<link, up, ver, obs, hasVersion, faults>>

\* The agent ends the stream: what the client sent last may be lost.
AgentClose ==
  /\ \/ link = "open" /\ faults < MaxFaults /\ faults' = faults + 1
     \/ link = "halfclosed" /\ UNCHANGED faults
  /\ link' = "closed" /\ up' = None
  /\ AgentFrame /\ UNCHANGED <<down, ver, connVars>>

\* The connection breaks: what is in flight either way is lost.
Break ==
  /\ Streaming /\ faults < MaxFaults /\ faults' = faults + 1
  /\ link' = "broken" /\ up' = None /\ down' = None
  /\ AgentFrame /\ UNCHANGED <<ver, connVars>>

-----------------------------------------------------------------------------
Loop == LoopCheck \/ Connect \/ ConnectFails \/ RoundTripDone \/ Backoff \/ StopReturns

Reader ==
  \/ RecvExpected \/ RecvFails \/ SyncComponent \/ SyncUnitsLock \/ RemovalsDone
  \/ SyncUnitsDone
  \/ \E h \in Handles : AnnounceRemoval(h)
  \/ \E i \in Ids, h \in Handles : AddUnit(i, h) \/ ModifyUnit(i, h)

Writer ==
  \/ CollectLock \/ CollectDone \/ ReadComponentIdx \/ SendObserved \/ SendEOF \/ SendFails
  \/ WakeSignal \/ WakeTicker \/ WakeReaderDone
  \/ \E h \in Handles : ToObserved(h)

Integration ==
  \/ TakeChange \/ TakeError
  \/ \E h \in Handles, s \in States : UpdateState(h, s)

Agent == AgentPolicy \/ AgentRecv \/ AgentSend \/ AgentClose \/ Break

\* Stopped, with no Start left within the bound.
Terminated == spc = "returned" /\ starts = MaxStarts /\ UNCHANGED vars

Next == Loop \/ Stop \/ Start \/ Reader \/ Writer \/ Integration \/ Agent \/ Terminated

Spec == Init /\ [][Next]_vars

-----------------------------------------------------------------------------
(* Properties *)

\* Every variable has its type ...
FieldsOK ==
  /\ ident \in [Handles -> Ids \cup {None}]
  /\ DOMAIN expected = Handles
  /\ state \in [Handles -> States]
  /\ units \subseteq {h \in Handles : ident[h] # None}
  /\ signal \in BOOLEAN /\ versionInfoSent \in BOOLEAN
  /\ rpc \in {"off", "recv", "component", "lock", "remove", "units", "err", "done"}
  /\ rgone \subseteq units /\ rtodo \subseteq Ids
  /\ change \in UnitChanged \cup {None}
  /\ change # None => WriteLocked /\ change.unit \in units
  /\ wpc \in {"off", "lock", "collect", "component", "send", "err", "select", "done"}
  /\ DOMAIN wobs = Handles
  /\ lpc \in {"check", "dial", "err", "running", "backoff", "exited"}
  /\ ctx \in {"live", "cancelled"} /\ spc \in {"none", "waiting", "returned"}
  /\ link \in {"none", "open", "halfclosed", "closed", "broken"}
  /\ ver \in 1..Len(Script)
  /\ told \subseteq Handles /\ DOMAIN view = Handles

\* ... and so has every message, and what is made of messages and goes into them.
MessagesOK ==
  /\ rmsg \in CheckinExpected \cup {None} /\ down \in CheckinExpected \cup {None}
  /\ rpc \in {"component", "lock", "remove", "units"} => rmsg # None
  /\ rpc = "units" => \A i \in rtodo : rmsg.units[i] # None
  /\ up \in CheckinObserved \cup {None} /\ obs \in CheckinObserved \cup {None}
  /\ wobs \in [Handles -> UnitObserved \cup {None}] /\ wfeat \in Nat /\ wcomp \in Nat
  /\ featuresIdx \in Nat /\ component \in [config : Component, idx : Nat]
  /\ expected \in [Handles -> ExpectedState \cup {None}]
  /\ \A h \in Handles : ident[h] # None => expected[h] # None

\* The types; what is registered or announced is an allocated unit, and
\* changesCh is used under unitsMu only.
TypeOK == FieldsOK /\ MessagesOK

\* What the writer last reported of the registry is what is there now: each
\* unit it read has the state it read, each it has not is still Starting,
\* and it read nothing that is gone.
Reported ==
  /\ Read \subseteq units
  /\ \A h \in units : state[h] = IF h \in Read THEN wobs[h].state ELSE Starting

\* No lost wake-up (client_v2.go:569-580, 806-814): a writer that sleeps with
\* nothing in stateChangeObservedCh has nothing to report, whatever the
\* order of UpdateState, removals, additions and its own walk over the units.
NoLostStateChange == wpc = "select" /\ ~signal => Reported

\* Events and registry agree (client_v2.go:638-657, 742-757): whenever
\* unitsMu is free the integration holds exactly the units of c.units, and
\* it never holds two units with one id.
AnnouncedMatchesRegistry ==
  /\ ~WriteLocked => told = units
  /\ \A g, h \in told : ident[g] = ident[h] => g = h

\* Triggers are complete (unit.go:293-336, client_v2.go:749-782): an
\* integration that rereads only what triggers name is never left with a
\* stale field, except of the unit whose change is on its way to it.
ViewCurrent ==
  \A h \in told : (change = None \/ change.unit # h) => view[h] = Seen(expected[h])

\* A unit is reported with a config index only after the integration was
\* told of that config or of a later one (client_v2.go:587-595, 757, 781).
ReportedAfterTold ==
  wpc # "off" => \A h \in Read :
    view[h] # None /\ view[h].config \in Nat /\ view[h].config >= wobs[h].cfgIdx

\* A report is one policy (client_v2.go:592-599): its units, their config
\* indexes and the features index are those of one applied message, never
\* of one half applied; only the component index may be of a later one.
ReportIsOnePolicy ==
  wpc \in {"component", "send", "select"} =>
    \/ Read = {} /\ wfeat = 0
    \/ \E v \in 1..ver :
         /\ {[id |-> wobs[h].id, cfgIdx |-> wobs[h].cfgIdx] : h \in Read}
              = {[id |-> i, cfgIdx |-> Script[v].units[i].cfgIdx] :
                   i \in {j \in Ids : Script[v].units[j] # None}}
         /\ wfeat = Script[v].featuresIdx
         /\ wpc # "component" => wcomp >= Script[v].componentIdx

\* Reporting a features index says every unit has those features
\* (client_v2.go:786-790).
FeaturesFollowIdx ==
  ~WriteLocked => \A h \in units : \E v \in 1..ver :
    Script[v].featuresIdx = featuresIdx /\ Script[v].features = expected[h].features

\* Reporting a component index says the process runs with that component's
\* limits (client_v2.go:680-692).
LimitsFollowIdx ==
  component.idx # 0 => \E v \in 1..ver :
    /\ Script[v].componentIdx = component.idx
    /\ goMaxProcs = Procs(LimitsOf(Script[v].component))

\* What the client acknowledges is in force, also when the agent then omits
\* it (elastic-agent-client.proto:290, 301).
AcknowledgedInForce == FeaturesFollowIdx /\ LimitsFollowIdx

\* The agent learns the version of the client with the first message of
\* every stream (client_v2.go:565-566, 608-624).
VersionInfoFirst == obs # None => hasVersion

\* A removed unit stays removed: a handle the integration was told to drop
\* is never announced, modified or removed again, even when its id returns.
RemovedStaysRemoved ==
  [][\A h \in Handles : view[h] # None /\ h \notin told =>
       h \notin told' /\ view'[h] = view[h]]_vars

-----------------------------------------------------------------------------
(* Liveness.  Every goroutine that can run runs; a timer fires.  RWMutex    *)
(* hands unitsMu to a waiting writer before new readers and to waiting      *)
(* readers after it, so both acquisitions are strongly fair.  The           *)
(* integration must read both channels (client_v2.go:218, 222).  The agent  *)
(* reads, answers, and ends a stream the client has closed.  Nothing makes  *)
(* a fault, a Stop, a Start or a new policy happen.                         *)
Fairness ==
  /\ WF_vars(LoopCheck) /\ WF_vars(Connect) /\ WF_vars(ConnectFails /\ ctx = "cancelled")
  /\ WF_vars(RoundTripDone) /\ WF_vars(Backoff) /\ WF_vars(StopReturns)
  /\ WF_vars(Reader) /\ SF_vars(SyncUnitsLock)
  /\ WF_vars(Writer /\ faults' = faults) /\ SF_vars(CollectLock)
  /\ WF_vars(TakeChange) /\ WF_vars(TakeError)
  /\ WF_vars(AgentRecv) /\ WF_vars(AgentSend) /\ WF_vars(AgentClose /\ faults' = faults)

FairSpec == Spec /\ Fairness

\* A state that an integration keeps is reported: if a unit stays registered
\* in state s while the client runs, the agent ends up knowing that state,
\* through any broken streams before.
StableStateReported ==
  \A h \in Handles, s \in States :
    <>[](h \in units /\ state[h] = s /\ ctx = "live") =>
      <>[](obs # None /\ \E r \in obs.units : r.id = ident[h] /\ r.state = s)

\* The policy the agent is at is applied and acknowledged: while the client
\* runs, it ends up with exactly the policy's units, each with its config read
\* by the integration, and the agent with their indexes.
Converges ==
  <>[](ctx = "live") =>
    <>[](/\ {ident[h] : h \in told} = {i \in Ids : Script[ver].units[i] # None}
         /\ \A h \in told : view[h].config = Script[ver].units[ident[h]].cfgIdx
         /\ obs # None /\ obs.featuresIdx = Script[ver].featuresIdx
         /\ \A h \in told : \E r \in obs.units :
              r.id = ident[h] /\ r.cfgIdx = Script[ver].units[ident[h]].cfgIdx)

\* Stop returns (client_v2.go:389-395) whatever the goroutines were doing,
\* the integration still reading its channels.
StopTerminates == spc = "waiting" ~> spc = "returned"

=============================================================================
