------------------------ MODULE CheckinPolicyProofs ------------------------
(* What the client reports of the agent's policies, for every script that  *)
(* keeps the agent's side of the protocol: ReportIsOnePolicy,              *)
(* ReportedAfterTold, FeaturesFollowIdx and LimitsFollowIdx.  The policies *)
(* move through the client in order, from the agent to the message on the  *)
(* stream, to the one the reader applies, to the component, to the         *)
(* registry: the inductive invariant says which policy is where.           *)
EXTENDS CheckinProofs

USE DEF LoopFrame, ReaderFrame, WriterFrame, AgentFrame, registryVars, componentVars,
        syncVars, wmsgVars, writerVars, loopVars, streamVars, connVars, userVars

-----------------------------------------------------------------------------
(* Which policy is where *)

\* Policy 0 is the one of a client that has applied nothing.
UnitsOf(v) == IF v = 0 THEN [i \in Ids |-> None] ELSE Script[v].units
FeaturesIdxOf(v) == IF v = 0 THEN 0 ELSE Script[v].featuresIdx
ComponentIdxOf(v) == IF v = 0 THEN 0 ELSE Script[v].componentIdx

\* A policy up to v gave unit i the config index c.
Known(i, c, v) == \E w \in 0..v : UnitsOf(w)[i] # None /\ UnitsOf(w)[i].cfgIdx = c

\* Message m is policy v; a config it leaves out is of a policy up to a.
IsPolicy(m, v, a) ==
  /\ m.featuresIdx = FeaturesIdxOf(v) /\ m.componentIdx = ComponentIdxOf(v)
  /\ \A i \in Ids :
       /\ m.units[i] = None <=> UnitsOf(v)[i] = None
       /\ m.units[i] # None => /\ m.units[i].cfgIdx = UnitsOf(v)[i].cfgIdx
                               /\ \/ m.units[i].cfg = m.units[i].cfgIdx
                                  \/ m.units[i].cfg = None /\ Known(i, m.units[i].cfgIdx, a)

\* c.units and c.featuresIdx are policy v.
Holds(v) ==
  /\ featuresIdx = FeaturesIdxOf(v)
  /\ \A h \in units : /\ UnitsOf(v)[ident[h]] # None
                      /\ expected[h].cfgIdx = UnitsOf(v)[ident[h]].cfgIdx
  /\ \A i \in Ids : UnitsOf(v)[i] # None => \E h \in units : ident[h] = i

\* c.units on the way from policy v to policy w: the ids of rtodo are still to do.
Syncs(v, w) ==
  /\ \A i \in rtodo : UnitsOf(w)[i] # None
  /\ \A h \in units :
       /\ UnitsOf(w)[ident[h]] # None
       /\ ident[h] \in rtodo => /\ UnitsOf(v)[ident[h]] # None
                                /\ expected[h].cfgIdx = UnitsOf(v)[ident[h]].cfgIdx
       /\ ident[h] \notin rtodo => expected[h].cfgIdx = UnitsOf(w)[ident[h]].cfgIdx
  /\ \A i \in Ids : UnitsOf(w)[i] # None /\ (i \in rtodo => UnitsOf(v)[i] # None) =>
       \E h \in units : ident[h] = i

\* Policy a is registered, c in the component, r with the reader, d on the stream.
Ordered(a, c, r, d) == /\ a \in 0..c /\ c \in 0..r /\ r \in 0..d /\ d \in 0..ver
RegistryIs(a, r) == IF rpc = "units" THEN Syncs(a, r) ELSE Holds(a)
ComponentIs(c, r) ==
  /\ component.idx = ComponentIdxOf(c)
  /\ rpc \in {"lock", "remove", "units"} => c = r
MessagesAre(a, r, d) ==
  /\ rmsg # None => IsPolicy(rmsg, r, a)
  /\ down # None => IsPolicy(down, d, a)
ReportsAre(a) ==
  /\ \A h \in Read : Known(wobs[h].id, wobs[h].cfgIdx, a)
  /\ up # None => \A q \in up.units : Known(q.id, q.cfgIdx, a)
  /\ obs # None => \A q \in obs.units : Known(q.id, q.cfgIdx, a)

Chain(a, c, r, d) ==
  Ordered(a, c, r, d) /\ RegistryIs(a, r) /\ ComponentIs(c, r) /\ MessagesAre(a, r, d)
  /\ ReportsAre(a)

PolicyInv == \E d \in 0..ver : \E r \in 0..d : \E c \in 0..r : \E a \in 0..c : Chain(a, c, r, d)

\* The config a Unit has is the one of its index.
ConfigInv == \A h \in Handles : ident[h] # None => expected[h].cfg = expected[h].cfgIdx

\* While the writer walks, what it read is what is there.
CollectInv ==
  wpc = "collect" => \A h \in Read : wobs[h].id = ident[h] /\ wobs[h].cfgIdx = expected[h].cfgIdx

\* What the writer read of a unit, the integration has read, and the unit has
\* that config or a later one.
ReadInv ==
  \A h \in Read : /\ view[h] # None /\ view[h].config \in Nat
                  /\ view[h].config >= wobs[h].cfgIdx /\ expected[h].cfgIdx >= wobs[h].cfgIdx

\* The report is policy v, and the component of v or a later one goes with it.
ReportIs(v) ==
  /\ {[id |-> wobs[h].id, cfgIdx |-> wobs[h].cfgIdx] : h \in Read}
       = {[id |-> i, cfgIdx |-> UnitsOf(v)[i].cfgIdx] : i \in {j \in Ids : UnitsOf(v)[j] # None}}
  /\ wfeat = FeaturesIdxOf(v)
  /\ IF wpc = "component" THEN component.idx >= ComponentIdxOf(v) ELSE wcomp >= ComponentIdxOf(v)
OneReportInv == wpc \in {"component", "send", "select"} => \E v \in 0..ver : ReportIs(v)

\* Features f were sent with index idx, component config k likewise.
FeaturesAre(idx, f) == \E v \in 1..ver : Script[v].featuresIdx = idx /\ Script[v].features = f
ComponentConfigIs(idx, k) == \E v \in 1..ver : Script[v].componentIdx = idx /\ Script[v].component = k

\* Every unit has features the agent sent; those synced have the message's.
FeaturesInv ==
  /\ rmsg # None => FeaturesAre(rmsg.featuresIdx, rmsg.features)
  /\ down # None => FeaturesAre(down.featuresIdx, down.features)
  /\ \A h \in units : \/ expected[h].featuresIdx = 0
                      \/ FeaturesAre(expected[h].featuresIdx, expected[h].features)
  /\ rpc = "units" => \A h \in units : ident[h] \notin rtodo => expected[h].features = rmsg.features
  /\ ~WriteLocked => \A h \in units : FeaturesAre(featuresIdx, expected[h].features)

\* The process runs with the limits of the component the client holds.
LimitsInv ==
  /\ rmsg # None => ComponentConfigIs(rmsg.componentIdx, rmsg.component)
  /\ down # None => ComponentConfigIs(down.componentIdx, down.component)
  /\ goMaxProcs = Procs(LimitsOf(component.config))
  /\ component.idx # 0 => ComponentConfigIs(component.idx, component.config)

\* What most steps do to what Chain is about: messages and reports may go, what
\* the agent received it has; nothing new comes.
Quiet ==
  /\ ver' \in {ver, ver + 1}
  /\ rpc' = "units" <=> rpc = "units"
  /\ rpc' \in {"lock", "remove", "units"} => rpc \in {"lock", "remove", "units"}
  /\ rpc = "remove" => rpc' = "remove"
  /\ UNCHANGED <<ident, expected, units, featuresIdx, componentVars, rmsg, rtodo>>
  /\ down' \in {down, None} /\ wobs' \in {wobs, NothingRead}
  /\ up' \in {up, None} /\ obs' \in {obs, up, None}

-----------------------------------------------------------------------------
(* Policies and indexes *)

\* The policies, with the empty one, have the types of the script's.
LEMMA PolicyFacts ==
  ASSUME NEW v \in 0..Len(Script)
  PROVE  /\ UnitsOf(v) \in [Ids -> UnitPolicy \cup {None}]
         /\ FeaturesIdxOf(v) \in Nat /\ ComponentIdxOf(v) \in Nat
         /\ \A i \in Ids : UnitsOf(v)[i] # None => UnitsOf(v)[i].cfgIdx \in Nat
         /\ v # 0 => v \in DOMAIN Script
<1>1. CASE v = 0
  BY <1>1 DEF UnitsOf, FeaturesIdxOf, ComponentIdxOf
<1>2. CASE v # 0
  <2>1. v \in 1..Len(Script)
    BY <1>2, ConstantFacts
  <2>2. /\ v \in DOMAIN Script /\ Script[v].units \in [Ids -> UnitPolicy \cup {None}]
        /\ Script[v].featuresIdx \in Nat /\ Script[v].componentIdx \in Nat
    BY <2>1, ScriptFacts
  <2>3. UnitsOf(v) = Script[v].units
    BY <1>2 DEF UnitsOf
  <2>4. \A i \in Ids : UnitsOf(v)[i] # None => UnitsOf(v)[i].cfgIdx \in Nat
    BY <2>2, <2>3 DEF UnitPolicy
  <2>5. QED BY <1>2, <2>2, <2>3, <2>4 DEF FeaturesIdxOf, ComponentIdxOf
<1>3. QED BY <1>1, <1>2

\* Indexes grow from the empty policy on.
LEMMA GrowFacts ==
  ASSUME IndexesGrow, NEW v \in 0..Len(Script), NEW w \in 0..Len(Script), v <= w
  PROVE  /\ ComponentIdxOf(v) <= ComponentIdxOf(w)
         /\ \A i \in Ids : UnitsOf(v)[i] # None /\ UnitsOf(w)[i] # None =>
              UnitsOf(v)[i].cfgIdx <= UnitsOf(w)[i].cfgIdx
<1>1. CASE v = 0
  <2>1. ComponentIdxOf(v) = 0 /\ ComponentIdxOf(w) \in Nat
    BY <1>1, PolicyFacts DEF ComponentIdxOf
  <2>2. \A i \in Ids : UnitsOf(v)[i] = None
    BY <1>1 DEF UnitsOf
  <2>3. QED BY <2>1, <2>2
<1>2. CASE v # 0
  <2>1. v \in DOMAIN Script /\ w \in DOMAIN Script /\ w # 0
    BY <1>2, PolicyFacts
  <2>2. QED BY <1>2, <2>1 DEF IndexesGrow, ComponentIdxOf, UnitsOf
<1>3. QED BY <1>1, <1>2

\* An index once known stays known.
LEMMA KnownGrows ==
  ASSUME NEW i, NEW k, NEW a \in Nat, NEW b \in Nat, a <= b, Known(i, k, a)
  PROVE  Known(i, k, b)
BY DEF Known

\* If policy r has a config index that an earlier policy had, then so have all
\* policies between.
LEMMA KnownStays ==
  ASSUME IndexesGrow, ReturnsAreNew, NEW i \in Ids,
         NEW a \in 0..Len(Script), NEW r \in 0..Len(Script), a <= r,
         UnitsOf(r)[i] # None, Known(i, UnitsOf(r)[i].cfgIdx, a)
  PROVE  UnitsOf(a)[i] # None /\ UnitsOf(a)[i].cfgIdx = UnitsOf(r)[i].cfgIdx
<1>1. PICK w \in 0..a : UnitsOf(w)[i] # None /\ UnitsOf(w)[i].cfgIdx = UnitsOf(r)[i].cfgIdx
  BY DEF Known
<1>2. w \in 0..Len(Script) /\ w <= a /\ w <= r
  BY <1>1, ConstantFacts
<1>3. w # 0
  BY <1>1 DEF UnitsOf
<1>4. w \in DOMAIN Script /\ a \in DOMAIN Script /\ r \in DOMAIN Script /\ a # 0 /\ r # 0
  BY <1>2, <1>3, PolicyFacts
<1>5. UnitsOf(a)[i] # None
  BY <1>1, <1>2, <1>3, <1>4 DEF ReturnsAreNew, UnitsOf
<1>6. /\ UnitsOf(w)[i].cfgIdx <= UnitsOf(a)[i].cfgIdx
      /\ UnitsOf(a)[i].cfgIdx <= UnitsOf(r)[i].cfgIdx
  BY <1>1, <1>2, <1>5, GrowFacts
<1>7. UnitsOf(a)[i].cfgIdx \in Nat /\ UnitsOf(r)[i].cfgIdx \in Nat
  BY <1>5, PolicyFacts
<1>8. QED BY <1>1, <1>5, <1>6, <1>7

\* A message stays what it is when more is applied.
LEMMA IsPolicyGrows ==
  ASSUME NEW m, NEW v, NEW a \in Nat, NEW b \in Nat, a <= b, IsPolicy(m, v, a)
  PROVE  IsPolicy(m, v, b)
BY KnownGrows DEF IsPolicy

\* The agent's message is its policy; what it leaves out, a report named.
LEMMA SentIsPolicy ==
  ASSUME NEW v \in 1..Len(Script), NEW a, NEW o, NEW first,
         \A q \in o.units : Known(q.id, q.cfgIdx, a)
  PROVE  IsPolicy(ExpectedMsg(Script[v], o, first), v, a)
<1> DEFINE p == Script[v]
           m == ExpectedMsg(p, o, first)
<1>1. UnitsOf(v) = p.units /\ FeaturesIdxOf(v) = p.featuresIdx /\ ComponentIdxOf(v) = p.componentIdx
  BY DEF UnitsOf, FeaturesIdxOf, ComponentIdxOf
<1>2. m.featuresIdx = p.featuresIdx /\ m.componentIdx = p.componentIdx
  BY DEF ExpectedMsg
<1>3. ASSUME NEW i \in Ids, p.units[i] = None
      PROVE  m.units[i] = None
  BY <1>3 DEF ExpectedMsg
<1>4. ASSUME NEW i \in Ids, p.units[i] # None
      PROVE  /\ m.units[i] # None /\ m.units[i].cfgIdx = p.units[i].cfgIdx
             /\ \/ m.units[i].cfg = m.units[i].cfgIdx
                \/ m.units[i].cfg = None /\ Known(i, m.units[i].cfgIdx, a)
  <2> DEFINE omit == /\ "config" \in Omit
                     /\ \E q \in o.units : q.id = i /\ q.cfgIdx = p.units[i].cfgIdx
             u == [state |-> p.units[i].state, log |-> p.units[i].log,
                   cfgIdx |-> p.units[i].cfgIdx,
                   cfg |-> IF omit THEN None ELSE p.units[i].cfgIdx]
  <2>1. m.units[i] = u
    BY <1>4 DEF ExpectedMsg
  <2>2. u # None
    <3>1. p.units[i] \in UnitPolicy
      BY <1>4, ScriptFacts
    <3>2. u \in UnitExpected
      BY <3>1 DEF UnitPolicy, UnitExpected
    <3>3. QED BY <3>2, CheckinAssumption DEF CheckinAssumption
  <2>3. u.cfgIdx = p.units[i].cfgIdx /\ u.cfg = IF omit THEN None ELSE p.units[i].cfgIdx
    OBVIOUS
  <2>4. omit => Known(i, p.units[i].cfgIdx, a)
    OBVIOUS
  <2>5. QED BY <2>1, <2>2, <2>3, <2>4
<1>5. QED BY <1>1, <1>2, <1>3, <1>4 DEF IsPolicy

-----------------------------------------------------------------------------
(* The policies move in order *)

\* All other steps are quiet.
LEMMA QuietSteps ==
  TypeOK /\ LoopInv /\ [Next]_vars =>
    \/ Quiet
    \/ RecvExpected \/ SyncComponent \/ RemovalsDone \/ SyncUnitsDone
    \/ \E i \in Ids, h \in Handles : AddUnit(i, h) \/ ModifyUnit(i, h)
    \/ \E h \in Handles : ToObserved(h)
    \/ SendObserved \/ AgentSend
<1> SUFFICES ASSUME TypeOK, LoopInv, [Next]_vars,
                    ~(RecvExpected \/ SyncComponent \/ RemovalsDone \/ SyncUnitsDone),
                    ~(\E i \in Ids, h \in Handles : AddUnit(i, h) \/ ModifyUnit(i, h)),
                    ~(\E h \in Handles : ToObserved(h)), ~SendObserved, ~AgentSend
             PROVE Quiet
  OBVIOUS
<1> USE DEF Quiet
<1>1. CASE Loop
  <2>1. CASE Connect
    BY <2>1 DEF Connect, LoopInv
  <2>2. CASE RoundTripDone
    BY <2>2 DEF RoundTripDone, Forget
  <2>3. CASE LoopCheck \/ ConnectFails \/ Backoff \/ StopReturns
    BY <2>3 DEF LoopCheck, ConnectFails, Backoff, StopReturns
  <2>4. QED BY <1>1, <2>1, <2>2, <2>3 DEF Loop
<1>2. CASE Stop \/ Start
  BY <1>2 DEF Stop, Start
<1>3. CASE Reader
  <2>1. CASE RecvFails
    BY <2>1 DEF RecvFails
  <2>2. CASE SyncUnitsLock \/ \E h \in Handles : AnnounceRemoval(h)
    BY <2>2 DEF SyncUnitsLock, AnnounceRemoval
  <2>3. QED BY <1>3, <2>1, <2>2 DEF Reader
<1>4. CASE Writer
  <2>1. CASE WakeSignal \/ WakeTicker
    BY <2>1 DEF WakeSignal, WakeTicker, Forget
  <2>2. CASE CollectLock \/ CollectDone \/ ReadComponentIdx
    BY <2>2 DEF CollectLock, CollectDone, ReadComponentIdx
  <2>3. CASE SendEOF \/ SendFails \/ WakeReaderDone
    BY <2>3 DEF SendEOF, SendFails, WakeReaderDone
  <2>4. QED BY <1>4, <2>1, <2>2, <2>3 DEF Writer
<1>5. CASE Integration
  <2>1. CASE TakeError
    BY <2>1 DEF TakeError
  <2>2. CASE TakeChange \/ \E h \in Handles, s \in States : UpdateState(h, s)
    BY <2>2 DEF TakeChange, UpdateState
  <2>3. QED BY <1>5, <2>1, <2>2 DEF Integration
<1>6. CASE Agent
  <2>1. CASE AgentPolicy
    BY <2>1 DEF AgentPolicy
  <2>2. CASE AgentRecv
    BY <2>2 DEF AgentRecv
  <2>3. CASE AgentClose \/ Break
    BY <2>3 DEF AgentClose, Break
  <2>4. QED BY <1>6, <2>1, <2>2, <2>3 DEF Agent
<1>7. CASE UNCHANGED vars
  BY <1>7 DEF vars
<1>8. QED BY <1>1, <1>2, <1>3, <1>4, <1>5, <1>6, <1>7 DEF Next, Terminated

\* Each part of Chain, where what it is about is left alone.
LEMMA RegistryFrame ==
  ASSUME NEW a, NEW r, RegistryIs(a, r), rpc' = "units" <=> rpc = "units",
         UNCHANGED <<ident, expected, units, featuresIdx, rtodo>>
  PROVE  RegistryIs(a, r)'
BY DEF RegistryIs, Holds, Syncs

LEMMA ComponentFrame ==
  ASSUME NEW c, NEW r, ComponentIs(c, r), component' = component,
         rpc' \in {"lock", "remove", "units"} => rpc \in {"lock", "remove", "units"}
  PROVE  ComponentIs(c, r)'
BY DEF ComponentIs

LEMMA ChainMessages ==
  ASSUME NEW a, NEW r, NEW d, MessagesAre(a, r, d), rmsg' = rmsg, down' \in {down, None}
  PROVE  MessagesAre(a, r, d)'
BY DEF MessagesAre

LEMMA ReportsFrame ==
  ASSUME NEW a, ReportsAre(a), wobs' \in {wobs, NothingRead},
         up' \in {up, None}, obs' \in {obs, up, None}
  PROVE  ReportsAre(a)'
BY DEF ReportsAre, Read, NothingRead

\* A step that is quiet moves no policy.
LEMMA StepQuiet ==
  ASSUME NEW a, NEW c, NEW r, NEW d, FieldsOK, Chain(a, c, r, d), Quiet
  PROVE  Chain(a, c, r, d)'
<1>1. Ordered(a, c, r, d)'
  <2>1. ver \in Nat /\ ver' \in {ver, ver + 1}
    BY ConstantFacts DEF FieldsOK, Quiet
  <2>2. QED BY <2>1 DEF Chain, Ordered
<1>2. RegistryIs(a, r)' /\ ComponentIs(c, r)' /\ MessagesAre(a, r, d)' /\ ReportsAre(a)'
  BY RegistryFrame, ComponentFrame, ChainMessages, ReportsFrame DEF Chain, Quiet
<1>3. QED BY <1>1, <1>2 DEF Chain

\* A chain gives the invariant, in the next state too.
LEMMA ChainInv ==
  ASSUME NEW a, NEW c, NEW r, NEW d, Chain(a, c, r, d)'
  PROVE  PolicyInv'
BY DEF PolicyInv, Chain, Ordered

\* The bounds of the policies of a chain.
LEMMA ChainBounds ==
  ASSUME NEW a, NEW c, NEW r, NEW d, FieldsOK, Ordered(a, c, r, d)
  PROVE  /\ a \in 0..Len(Script) /\ c \in 0..Len(Script) /\ r \in 0..Len(Script)
         /\ d \in 0..Len(Script) /\ ver \in 1..Len(Script)
         /\ a \in Nat /\ c \in Nat /\ r \in Nat /\ d \in Nat
         /\ a <= c /\ c <= r /\ r <= d /\ d <= ver
BY ConstantFacts DEF Ordered, FieldsOK

\* The agent sends its current policy.
LEMMA ChainAgentSend ==
  ASSUME NEW a, NEW c, NEW r, NEW d, FieldsOK, Chain(a, c, r, d), AgentSend
  PROVE  Chain(a, c, r, ver)'
<1>1. /\ UNCHANGED <<ver, ident, expected, units, featuresIdx, component, rpc, rtodo, rmsg,
                     wobs, up, obs>>
      /\ obs # None /\ down' = ExpectedMsg(Script[ver], obs, ~greeted)
  BY DEF AgentSend
<1>2. Ordered(a, c, r, ver)'
  BY <1>1, ChainBounds DEF Chain, Ordered
<1>3. RegistryIs(a, r)' /\ ComponentIs(c, r)' /\ ReportsAre(a)'
  BY <1>1, RegistryFrame, ComponentFrame, ReportsFrame DEF Chain
<1>4. IsPolicy(down', ver, a)
  <2>1. ver \in 1..Len(Script) /\ \A q \in obs.units : Known(q.id, q.cfgIdx, a)
    BY <1>1, ChainBounds DEF Chain, ReportsAre
  <2>2. QED BY <1>1, <2>1, SentIsPolicy
<1>5. MessagesAre(a, r, ver)'
  BY <1>1, <1>4 DEF MessagesAre, Chain
<1>6. QED BY <1>2, <1>3, <1>5 DEF Chain

\* The reader takes the message from the stream.
LEMMA ChainRecv ==
  ASSUME NEW a, NEW c, NEW r, NEW d, FieldsOK, Chain(a, c, r, d), RecvExpected
  PROVE  Chain(a, c, d, d)'
<1>1. /\ rmsg' = down /\ down' = None /\ rpc = "recv" /\ rpc' = "component"
      /\ UNCHANGED <<ver, ident, expected, units, featuresIdx, component, rtodo, wobs, up, obs>>
  BY DEF RecvExpected
<1>2. Ordered(a, c, d, d)'
  BY <1>1, ChainBounds DEF Chain, Ordered
<1>3. RegistryIs(a, d)'
  BY <1>1 DEF Chain, RegistryIs, Holds
<1>4. ComponentIs(c, d)' /\ MessagesAre(a, d, d)' /\ ReportsAre(a)'
  BY <1>1, ReportsFrame DEF Chain, ComponentIs, MessagesAre
<1>5. QED BY <1>2, <1>3, <1>4 DEF Chain

\* The component of the reader's message goes first.
LEMMA ChainComponent ==
  ASSUME NEW a, NEW c, NEW r, NEW d, TypeOK, Chain(a, c, r, d), SyncComponent
  PROVE  Chain(a, r, r, d)'
<1>1. /\ rpc = "component" /\ rpc' = "lock" /\ rmsg # None
      /\ component' = [config |-> rmsg.component, idx |-> rmsg.componentIdx]
      /\ UNCHANGED <<ver, ident, expected, units, featuresIdx, rtodo, rmsg, down, wobs, up, obs>>
  BY DEF SyncComponent, TypeOK, MessagesOK
<1>2. Ordered(a, r, r, d)'
  BY <1>1, ChainBounds DEF Chain, Ordered, TypeOK
<1>3. RegistryIs(a, r)' /\ MessagesAre(a, r, d)' /\ ReportsAre(a)'
  BY <1>1, RegistryFrame, ChainMessages, ReportsFrame DEF Chain
<1>4. ComponentIs(r, r)'
  BY <1>1 DEF Chain, ComponentIs, MessagesAre, IsPolicy
<1>5. QED BY <1>2, <1>3, <1>4 DEF Chain

\* Where nothing but the reader's progress in c.units changes.
LEMMA ChainReader ==
  ASSUME NEW a, NEW c, NEW r, NEW d, Chain(a, c, r, d), RegistryIs(a, r)', rpc' = rpc \/ c = r,
         UNCHANGED <<ver, component, rmsg, down, wobs, up, obs>>
  PROVE  Chain(a, c, r, d)'
<1>1. Ordered(a, c, r, d)'
  BY DEF Chain, Ordered
<1>2. ComponentIs(c, r)' /\ MessagesAre(a, r, d)' /\ ReportsAre(a)'
  BY ChainMessages, ReportsFrame DEF Chain, ComponentIs
<1>3. QED BY <1>1, <1>2 DEF Chain

\* What remains after the removals is in both policies.
LEMMA ChainRemovals ==
  ASSUME NEW a, NEW c, NEW r, NEW d, TypeOK, Chain(a, c, r, d), RemovalsDone
  PROVE  Chain(a, c, r, d)'
<1>1. /\ rpc = "remove" /\ rpc' = "units" /\ rmsg # None
      /\ units' = Remaining /\ rtodo' = {i \in Ids : rmsg.units[i] # None}
      /\ UNCHANGED <<ver, ident, expected, component, rmsg, down, wobs, up, obs>>
  BY DEF RemovalsDone, TypeOK, MessagesOK
<1>2. Holds(a) /\ IsPolicy(rmsg, r, a) /\ c = r
  BY <1>1 DEF Chain, RegistryIs, MessagesAre, ComponentIs
<1>3. \A h \in units : ident[h] \in Ids
  BY DEF TypeOK, FieldsOK
<1>4. \A i \in Ids : i \in rtodo' <=> UnitsOf(r)[i] # None
  BY <1>1, <1>2 DEF IsPolicy
<1>5. \A h \in units' : h \in units /\ ident[h] \in rtodo'
  BY <1>1, <1>3 DEF Remaining, InExpected
<1>6. ASSUME NEW i \in Ids, UnitsOf(r)[i] # None, UnitsOf(a)[i] # None
      PROVE  \E h \in units' : ident'[h] = i
  <2>1. PICK h \in units : ident[h] = i
    BY <1>2, <1>6 DEF Holds
  <2>2. rmsg.units[i] # None
    BY <1>2, <1>6 DEF IsPolicy
  <2>3. h \in units'
    BY <1>1, <2>1, <2>2 DEF Remaining, InExpected
  <2>4. QED BY <1>1, <2>1, <2>3
<1>7. \A i \in Ids : UnitsOf(r)[i] # None /\ (i \in rtodo' => UnitsOf(a)[i] # None)
                       => \E h \in units' : ident'[h] = i
  BY <1>4, <1>6
<1>8. \A h \in units' : /\ UnitsOf(a)[ident[h]] # None
                        /\ expected[h].cfgIdx = UnitsOf(a)[ident[h]].cfgIdx
  BY <1>2, <1>5 DEF Holds
<1>9. rtodo' \subseteq Ids
  BY <1>1
<1>10. Syncs(a, r)'
  BY <1>1, <1>3, <1>4, <1>5, <1>7, <1>8, <1>9 DEF Syncs
<1>11. RegistryIs(a, r)'
  BY <1>1, <1>10 DEF RegistryIs
<1>12. QED BY <1>1, <1>2, <1>11, ChainReader

\* What AddUnit and ModifyUnit know while they sync.
LEMMA SyncFacts ==
  ASSUME NEW a, NEW c, NEW r, NEW d, TypeOK, Chain(a, c, r, d), rpc = "units",
         NEW i \in rtodo
  PROVE  /\ Syncs(a, r) /\ IsPolicy(rmsg, r, a) /\ c = r
         /\ i \in Ids /\ rmsg.units[i] # None /\ UnitsOf(r)[i] # None
         /\ rmsg.units[i].cfgIdx = UnitsOf(r)[i].cfgIdx
<1>1. Syncs(a, r) /\ c = r
  BY DEF Chain, RegistryIs, ComponentIs
<1>2. IsPolicy(rmsg, r, a)
  BY DEF Chain, MessagesAre, TypeOK, MessagesOK
<1>3. i \in Ids /\ rmsg.units[i] # None
  BY DEF TypeOK, MessagesOK, FieldsOK
<1>4. QED BY <1>1, <1>2, <1>3 DEF IsPolicy

\* An added unit is as the message has it.
LEMMA ChainAdd ==
  ASSUME NEW a, NEW c, NEW r, NEW d, TypeOK, Chain(a, c, r, d),
         NEW i \in Ids, NEW h \in Handles, AddUnit(i, h)
  PROVE  Chain(a, c, r, d)'
<1>1. /\ rpc = "units" /\ rpc' = rpc /\ i \in rtodo
      /\ units' = units \cup {h} /\ rtodo' = rtodo \ {i}
      /\ UNCHANGED <<ver, featuresIdx, component, rmsg, down, wobs, up, obs>>
  BY DEF AddUnit
<1>2. ident[h] = None /\ h \notin units /\ \A g \in units : ident[g] # i
  BY DEF AddUnit, Fresh, FindUnit, TypeOK, FieldsOK
<1>3. /\ ident'[h] = i /\ expected'[h].cfgIdx = rmsg.units[i].cfgIdx
      /\ \A g \in units : ident'[g] = ident[g] /\ expected'[g] = expected[g]
  BY <1>2 DEF AddUnit, NewUnit, TypeOK, FieldsOK
<1>4. /\ Syncs(a, r) /\ c = r /\ UnitsOf(r)[i] # None
      /\ rmsg.units[i].cfgIdx = UnitsOf(r)[i].cfgIdx
  BY <1>1, SyncFacts
<1>5. \A g \in units : ident[g] \in rtodo <=> ident[g] \in rtodo'
  BY <1>1, <1>2
<1>6. ASSUME NEW j \in Ids, UnitsOf(r)[j] # None, j \in rtodo' => UnitsOf(a)[j] # None
      PROVE  \E g \in units' : ident'[g] = j
  <2>1. CASE j = i
    BY <1>1, <1>3, <2>1
  <2>2. CASE j # i
    <3>1. PICK g \in units : ident[g] = j
      BY <1>1, <1>4, <1>6, <2>2 DEF Syncs
    <3>2. QED BY <1>1, <1>3, <3>1
  <2>3. QED BY <2>1, <2>2
<1>7. \A g \in units' :
        /\ UnitsOf(r)[ident'[g]] # None
        /\ ident'[g] \in rtodo' => /\ UnitsOf(a)[ident'[g]] # None
                                   /\ expected'[g].cfgIdx = UnitsOf(a)[ident'[g]].cfgIdx
        /\ ident'[g] \notin rtodo' => expected'[g].cfgIdx = UnitsOf(r)[ident'[g]].cfgIdx
  <2>1. ASSUME NEW g \in units
        PROVE  /\ UnitsOf(r)[ident'[g]] # None
               /\ ident'[g] \in rtodo' => /\ UnitsOf(a)[ident'[g]] # None
                                          /\ expected'[g].cfgIdx = UnitsOf(a)[ident'[g]].cfgIdx
               /\ ident'[g] \notin rtodo' => expected'[g].cfgIdx = UnitsOf(r)[ident'[g]].cfgIdx
    BY <1>3, <1>4, <1>5 DEF Syncs
  <2>2. ident'[h] \notin rtodo' /\ expected'[h].cfgIdx = UnitsOf(r)[ident'[h]].cfgIdx
        /\ UnitsOf(r)[ident'[h]] # None
    BY <1>1, <1>3, <1>4
  <2>3. QED BY <1>1, <2>1, <2>2
<1>8. \A j \in rtodo' : UnitsOf(r)[j] # None
  BY <1>1, <1>4 DEF Syncs
<1>9. Syncs(a, r)'
  BY <1>6, <1>7, <1>8 DEF Syncs
<1>10. RegistryIs(a, r)'
  BY <1>1, <1>9 DEF RegistryIs
<1>11. QED BY <1>1, <1>10, ChainReader

\* A modified unit is as the message has it, and no other unit has its id.
LEMMA ChainModify ==
  ASSUME NEW a, NEW c, NEW r, NEW d, TypeOK, AnnounceInv, Chain(a, c, r, d),
         NEW i \in Ids, NEW h \in Handles, ModifyUnit(i, h)
  PROVE  Chain(a, c, r, d)'
<1>1. /\ rpc = "units" /\ rpc' = rpc /\ i \in rtodo /\ rtodo' = rtodo \ {i}
      /\ h \in units /\ ident[h] = i
      /\ UNCHANGED <<ver, ident, units, featuresIdx, component, rmsg, down, wobs, up, obs>>
  BY DEF ModifyUnit, FindUnit
<1>2. \A g \in units \ {h} : ident[g] # i
  BY <1>1 DEF AnnounceInv
<1>3. /\ expected'[h].cfgIdx = rmsg.units[i].cfgIdx
      /\ \A g \in units \ {h} : expected'[g] = expected[g]
  BY DEF ModifyUnit, UpdatedUnit, TypeOK, FieldsOK
<1>4. /\ Syncs(a, r) /\ c = r /\ UnitsOf(r)[i] # None
      /\ rmsg.units[i].cfgIdx = UnitsOf(r)[i].cfgIdx
  BY <1>1, SyncFacts
<1>5. \A g \in units \ {h} : ident[g] \in rtodo <=> ident[g] \in rtodo'
  BY <1>1, <1>2
<1>6. ASSUME NEW j \in Ids, UnitsOf(r)[j] # None, j \in rtodo' => UnitsOf(a)[j] # None
      PROVE  \E g \in units' : ident'[g] = j
  <2>1. CASE j = i
    BY <1>1, <2>1
  <2>2. CASE j # i
    BY <1>1, <1>4, <1>6, <2>2 DEF Syncs
  <2>3. QED BY <2>1, <2>2
<1>7. \A g \in units' :
        /\ UnitsOf(r)[ident'[g]] # None
        /\ ident'[g] \in rtodo' => /\ UnitsOf(a)[ident'[g]] # None
                                   /\ expected'[g].cfgIdx = UnitsOf(a)[ident'[g]].cfgIdx
        /\ ident'[g] \notin rtodo' => expected'[g].cfgIdx = UnitsOf(r)[ident'[g]].cfgIdx
  <2>1. ASSUME NEW g \in units \ {h}
        PROVE  /\ UnitsOf(r)[ident'[g]] # None
               /\ ident'[g] \in rtodo' => /\ UnitsOf(a)[ident'[g]] # None
                                          /\ expected'[g].cfgIdx = UnitsOf(a)[ident'[g]].cfgIdx
               /\ ident'[g] \notin rtodo' => expected'[g].cfgIdx = UnitsOf(r)[ident'[g]].cfgIdx
    BY <1>1, <1>3, <1>4, <1>5 DEF Syncs
  <2>2. ident'[h] \notin rtodo' /\ expected'[h].cfgIdx = UnitsOf(r)[ident'[h]].cfgIdx
        /\ UnitsOf(r)[ident'[h]] # None
    BY <1>1, <1>3, <1>4
  <2>3. QED BY <1>1, <2>1, <2>2
<1>8. \A j \in rtodo' : UnitsOf(r)[j] # None
  BY <1>1, <1>4 DEF Syncs
<1>9. Syncs(a, r)'
  BY <1>6, <1>7, <1>8 DEF Syncs
<1>10. RegistryIs(a, r)'
  BY <1>1, <1>9 DEF RegistryIs
<1>11. QED BY <1>1, <1>10, ChainReader

\* When every id is synced the registry is the message's policy.
LEMMA ChainDone ==
  ASSUME NEW a, NEW c, NEW r, NEW d, TypeOK, Chain(a, c, r, d), SyncUnitsDone
  PROVE  Chain(r, r, r, d)'
<1>1. /\ rpc = "units" /\ rpc' = "recv" /\ rtodo = {} /\ rmsg # None
      /\ featuresIdx' = rmsg.featuresIdx /\ rmsg' = None
      /\ UNCHANGED <<ver, ident, expected, units, component, down, wobs, up, obs>>
  BY DEF SyncUnitsDone, TypeOK, MessagesOK
<1>2. Syncs(a, r) /\ IsPolicy(rmsg, r, a) /\ c = r
  BY <1>1 DEF Chain, RegistryIs, MessagesAre, ComponentIs
<1>3. Holds(r)'
  BY <1>1, <1>2 DEF Holds, Syncs, IsPolicy
<1>4. Ordered(r, r, r, d)'
  BY <1>1, ChainBounds DEF Chain, Ordered, TypeOK
<1>5. a \in Nat /\ r \in Nat /\ a <= r
  BY ChainBounds DEF Chain, TypeOK
<1>6. MessagesAre(r, r, d)'
  BY <1>1, <1>5, IsPolicyGrows DEF Chain, MessagesAre
<1>7. ReportsAre(r)'
  <2>1. Read' = Read
    BY <1>1 DEF Read
  <2>2. QED BY <1>1, <1>5, <2>1, KnownGrows DEF Chain, ReportsAre
<1>8. RegistryIs(r, r)' /\ ComponentIs(r, r)'
  BY <1>1, <1>2, <1>3 DEF RegistryIs, ComponentIs, Chain
<1>9. QED BY <1>4, <1>6, <1>7, <1>8 DEF Chain

\* The writer reads what is registered: the applied policy.
LEMMA ChainObserve ==
  ASSUME NEW a, NEW c, NEW r, NEW d, TypeOK, LockExclusion, Chain(a, c, r, d),
         NEW h \in Handles, ToObserved(h)
  PROVE  Chain(a, c, r, d)'
<1>1. /\ rpc # "units" /\ h \in units
      /\ wobs' = [wobs EXCEPT ![h] =
                   [id |-> ident[h], cfgIdx |-> expected[h].cfgIdx, state |-> state[h]]]
      /\ UNCHANGED <<ver, ident, expected, units, featuresIdx, component, rpc, rtodo, rmsg, down,
                     up, obs>>
  BY DEF ToObserved, LockExclusion, WriteLocked, ReadLocked
<1>2. wobs'[h].id = ident[h] /\ wobs'[h].cfgIdx = expected[h].cfgIdx
      /\ \A g \in Handles \ {h} : wobs'[g] = wobs[g]
  BY <1>1 DEF TypeOK, FieldsOK
<1>3. Known(ident[h], expected[h].cfgIdx, a)
  <2>1. Holds(a) /\ a \in 0..a
    BY <1>1, ChainBounds DEF Chain, RegistryIs, TypeOK
  <2>2. UnitsOf(a)[ident[h]] # None /\ UnitsOf(a)[ident[h]].cfgIdx = expected[h].cfgIdx
    BY <1>1, <2>1 DEF Holds
  <2>3. QED BY <2>1, <2>2 DEF Known
<1>4. \A g \in Read' : Known(wobs'[g].id, wobs'[g].cfgIdx, a)
  BY <1>2, <1>3 DEF Chain, ReportsAre, Read
<1>5. ReportsAre(a)'
  BY <1>1, <1>4 DEF Chain, ReportsAre
<1>6. Ordered(a, c, r, d)' /\ RegistryIs(a, r)' /\ ComponentIs(c, r)' /\ MessagesAre(a, r, d)'
  BY <1>1, RegistryFrame, ComponentFrame, ChainMessages DEF Chain, Ordered
<1>7. QED BY <1>5, <1>6 DEF Chain

\* The report is what the writer read.
LEMMA ChainSend ==
  ASSUME NEW a, NEW c, NEW r, NEW d, Chain(a, c, r, d), SendObserved
  PROVE  Chain(a, c, r, d)'
<1>1. /\ up'.units = {wobs[h] : h \in Read}
      /\ UNCHANGED <<ver, ident, expected, units, featuresIdx, component, rpc, rtodo, rmsg, down,
                     wobs, obs>>
  BY DEF SendObserved
<1>2. \A q \in up'.units : Known(q.id, q.cfgIdx, a)
  BY <1>1 DEF Chain, ReportsAre
<1>3. ReportsAre(a)'
  BY <1>1, <1>2 DEF Chain, ReportsAre, Read
<1>4. Ordered(a, c, r, d)' /\ RegistryIs(a, r)' /\ ComponentIs(c, r)' /\ MessagesAre(a, r, d)'
  BY <1>1, RegistryFrame, ComponentFrame, ChainMessages DEF Chain, Ordered
<1>5. QED BY <1>3, <1>4 DEF Chain

\* PolicyInv is inductive relative to the invariants of CheckinProofs.
LEMMA StepPolicy == IInv /\ AnnounceInv /\ PolicyInv /\ [Next]_vars => PolicyInv'
<1> SUFFICES ASSUME IInv, AnnounceInv, PolicyInv, [Next]_vars PROVE PolicyInv'
  OBVIOUS
<1>1. PICK d, r, c, a : Chain(a, c, r, d)
  BY DEF PolicyInv
<1>2. TypeOK /\ FieldsOK /\ LoopInv /\ LockExclusion
  BY DEF IInv, TypeOK
<1>3. CASE Quiet
  BY <1>1, <1>2, <1>3, StepQuiet, ChainInv
<1>4. CASE RecvExpected
  BY <1>1, <1>2, <1>4, ChainRecv, ChainInv
<1>5. CASE SyncComponent
  BY <1>1, <1>2, <1>5, ChainComponent, ChainInv
<1>6. CASE RemovalsDone
  BY <1>1, <1>2, <1>6, ChainRemovals, ChainInv
<1>7. CASE SyncUnitsDone
  BY <1>1, <1>2, <1>7, ChainDone, ChainInv
<1>8. ASSUME NEW i \in Ids, NEW h \in Handles, AddUnit(i, h) PROVE PolicyInv'
  BY <1>1, <1>2, <1>8, ChainAdd, ChainInv
<1>9. ASSUME NEW i \in Ids, NEW h \in Handles, ModifyUnit(i, h) PROVE PolicyInv'
  BY <1>1, <1>2, <1>9, ChainModify, ChainInv
<1>10. ASSUME NEW h \in Handles, ToObserved(h) PROVE PolicyInv'
  BY <1>1, <1>2, <1>10, ChainObserve, ChainInv
<1>11. CASE SendObserved
  BY <1>1, <1>2, <1>11, ChainSend, ChainInv
<1>12. CASE AgentSend
  BY <1>1, <1>2, <1>12, ChainAgentSend, ChainInv
<1>13. QED BY <1>2, <1>3, <1>4, <1>5, <1>6, <1>7, <1>8, <1>9, <1>10, <1>11, <1>12, QuietSteps

\* At first every policy is the empty one.
LEMMA InitPolicy == Init => PolicyInv
<1> SUFFICES ASSUME Init PROVE PolicyInv
  OBVIOUS
<1>1. Ordered(0, 0, 0, 0) /\ ComponentIs(0, 0) /\ MessagesAre(0, 0, 0) /\ ReportsAre(0)
  BY DEF Init, Ordered, ComponentIs, ComponentIdxOf, MessagesAre, ReportsAre, Read, NothingRead
<1>2. Holds(0) /\ RegistryIs(0, 0)
  BY DEF Init, Holds, RegistryIs, UnitsOf, FeaturesIdxOf
<1>3. Chain(0, 0, 0, 0)
  BY <1>1, <1>2 DEF Chain
<1>4. QED BY <1>3 DEF PolicyInv, Chain, Ordered

-----------------------------------------------------------------------------
(* A report is one policy *)

\* The steps that move the writer, or write a Unit.
LEMMA WriterSteps ==
  [Next]_vars =>
    \/ /\ UNCHANGED <<wpc, wobs, wfeat, wcomp>>
       /\ \/ UNCHANGED <<ident, expected>>
          \/ \E i \in Ids, h \in Handles : AddUnit(i, h) \/ ModifyUnit(i, h)
       /\ component' = component \/ SyncComponent
    \/ CollectLock \/ CollectDone \/ ReadComponentIdx \/ SendObserved
    \/ \E h \in Handles : ToObserved(h)
    \/ /\ wpc' \in {"off", "lock"} /\ UNCHANGED <<ident, expected>>
       /\ wobs' = NothingRead \/ Connect
    \/ /\ wpc' \in {"err", "done"} /\ UNCHANGED <<wobs, ident, expected>>
<1> SUFFICES ASSUME [Next]_vars
             PROVE  \/ /\ UNCHANGED <<wpc, wobs, wfeat, wcomp>>
                       /\ \/ UNCHANGED <<ident, expected>>
                          \/ \E i \in Ids, h \in Handles : AddUnit(i, h) \/ ModifyUnit(i, h)
                       /\ component' = component \/ SyncComponent
                    \/ CollectLock \/ CollectDone \/ ReadComponentIdx \/ SendObserved
                    \/ \E h \in Handles : ToObserved(h)
                    \/ /\ wpc' \in {"off", "lock"} /\ UNCHANGED <<ident, expected>>
                       /\ wobs' = NothingRead \/ Connect
                    \/ /\ wpc' \in {"err", "done"} /\ UNCHANGED <<wobs, ident, expected>>
  OBVIOUS
<1>1. CASE Loop
  BY <1>1 DEF Loop, LoopCheck, Connect, ConnectFails, RoundTripDone, Backoff, StopReturns, Forget
<1>2. CASE Stop \/ Start
  BY <1>2 DEF Stop, Start
<1>3. CASE Reader
  <2>1. CASE RecvExpected \/ RecvFails \/ SyncUnitsLock
    BY <2>1 DEF RecvExpected, RecvFails, SyncUnitsLock
  <2>2. CASE RemovalsDone \/ SyncUnitsDone \/ \E h \in Handles : AnnounceRemoval(h)
    BY <2>2 DEF RemovalsDone, SyncUnitsDone, AnnounceRemoval
  <2>3. CASE SyncComponent
    <3>1. UNCHANGED <<wpc, wobs, wfeat, wcomp, ident, expected>>
      BY <2>3 DEF SyncComponent
    <3>2. QED BY <2>3, <3>1
  <2>4. ASSUME NEW i \in Ids, NEW h \in Handles, AddUnit(i, h) \/ ModifyUnit(i, h)
        PROVE  UNCHANGED <<wpc, wobs, wfeat, wcomp, component>>
    BY <2>4 DEF AddUnit, ModifyUnit
  <2>5. QED BY <1>3, <2>1, <2>2, <2>3, <2>4 DEF Reader
<1>4. CASE Writer
  <2>1. CASE WakeSignal \/ WakeTicker
    BY <2>1 DEF WakeSignal, WakeTicker, Forget
  <2>2. CASE SendEOF \/ SendFails \/ WakeReaderDone
    BY <2>2 DEF SendEOF, SendFails, WakeReaderDone
  <2>3. QED BY <1>4, <2>1, <2>2 DEF Writer
<1>5. CASE Integration
  BY <1>5 DEF Integration, TakeChange, TakeError, UpdateState
<1>6. CASE Agent
  BY <1>6 DEF Agent, AgentPolicy, AgentRecv, AgentSend, AgentClose, Break
<1>7. CASE UNCHANGED vars
  BY <1>7 DEF vars
<1>8. QED BY <1>1, <1>2, <1>3, <1>4, <1>5, <1>6, <1>7 DEF Next, Terminated

\* unitsMu keeps ids and indexes as the writer reads them.
LEMMA StepCollect == IInv /\ CollectInv /\ [Next]_vars => CollectInv'
<1> SUFFICES ASSUME IInv, CollectInv, [Next]_vars, wpc' = "collect" PROVE CollectInv'
  BY DEF CollectInv
<1>1. CASE UNCHANGED <<wpc, wobs, ident, expected>>
  BY <1>1 DEF CollectInv, Read
<1>2. ASSUME NEW i \in Ids, NEW h \in Handles, AddUnit(i, h) \/ ModifyUnit(i, h) PROVE FALSE
  <2>1. rpc = "units" /\ wpc' = wpc
    BY <1>2 DEF AddUnit, ModifyUnit
  <2>2. QED BY <2>1 DEF IInv, LockExclusion, WriteLocked, ReadLocked
<1>3. CASE CollectLock
  BY <1>3 DEF CollectLock, IInv, ReportInv, CollectInv, Read
<1>4. ASSUME NEW h \in Handles, ToObserved(h) PROVE CollectInv'
  <2>1. /\ wpc = "collect" /\ UNCHANGED <<ident, expected>>
        /\ wobs'[h].id = ident[h] /\ wobs'[h].cfgIdx = expected[h].cfgIdx
        /\ \A g \in Handles \ {h} : wobs'[g] = wobs[g]
    BY <1>4 DEF ToObserved, IInv, TypeOK, FieldsOK
  <2>2. QED BY <2>1 DEF CollectInv, Read
<1>5. CASE Connect
  BY <1>5 DEF Connect
<1>6. CASE CollectDone \/ ReadComponentIdx \/ SendObserved
  BY <1>6 DEF CollectDone, ReadComponentIdx, SendObserved
<1>7. QED BY <1>1, <1>2, <1>3, <1>4, <1>5, <1>6, WriterSteps

\* A walk that is done has read the applied policy.
LEMMA WalkIsPolicy ==
  ASSUME TypeOK, NEW a, Holds(a), Read = units,
         \A h \in Read : wobs[h].id = ident[h] /\ wobs[h].cfgIdx = expected[h].cfgIdx
  PROVE  {[id |-> wobs[h].id, cfgIdx |-> wobs[h].cfgIdx] : h \in Read}
           = {[id |-> i, cfgIdx |-> UnitsOf(a)[i].cfgIdx] : i \in {j \in Ids : UnitsOf(a)[j] # None}}
<1> DEFINE R == {[id |-> wobs[h].id, cfgIdx |-> wobs[h].cfgIdx] : h \in Read}
           P == {[id |-> i, cfgIdx |-> UnitsOf(a)[i].cfgIdx] : i \in {j \in Ids : UnitsOf(a)[j] # None}}
<1>1. ASSUME NEW h \in Read PROVE [id |-> wobs[h].id, cfgIdx |-> wobs[h].cfgIdx] \in P
  <2>1. /\ wobs[h].id = ident[h] /\ ident[h] \in Ids /\ UnitsOf(a)[ident[h]] # None
        /\ wobs[h].cfgIdx = UnitsOf(a)[ident[h]].cfgIdx
    BY DEF Holds, TypeOK, FieldsOK
  <2>2. QED BY <2>1
<1>2. ASSUME NEW i \in Ids, UnitsOf(a)[i] # None
      PROVE  [id |-> i, cfgIdx |-> UnitsOf(a)[i].cfgIdx] \in R
  <2>1. PICK h \in units : ident[h] = i
    BY <1>2 DEF Holds
  <2>2. h \in Read /\ wobs[h].id = i /\ wobs[h].cfgIdx = UnitsOf(a)[i].cfgIdx
    BY <2>1 DEF Holds
  <2>3. QED BY <2>2
<1>3. R \subseteq P
  BY <1>1
<1>4. P \subseteq R
  BY <1>2
<1>5. QED BY <1>3, <1>4

\* The index of the component never goes back.
LEMMA ComponentGrows ==
  IndexesGrow /\ IInv /\ PolicyInv /\ [Next]_vars =>
    component.idx \in Nat /\ component'.idx \in Nat /\ component'.idx >= component.idx
<1> SUFFICES ASSUME IndexesGrow, IInv, PolicyInv, [Next]_vars
             PROVE  component.idx \in Nat /\ component'.idx \in Nat
                    /\ component'.idx >= component.idx
  OBVIOUS
<1>1. component.idx \in Nat
  BY DEF IInv, TypeOK, MessagesOK
<1>2. CASE component' = component
  BY <1>1, <1>2
<1>3. CASE SyncComponent
  <2>1. PICK d, r, c, a : Chain(a, c, r, d)
    BY DEF PolicyInv
  <2>2. c \in 0..Len(Script) /\ r \in 0..Len(Script) /\ c <= r
    BY <2>1, ChainBounds DEF Chain, IInv, TypeOK
  <2>3. rmsg # None /\ component'.idx = rmsg.componentIdx
    BY <1>3 DEF SyncComponent, IInv, TypeOK, MessagesOK
  <2>4. component.idx = ComponentIdxOf(c) /\ component'.idx = ComponentIdxOf(r)
    BY <2>1, <2>3 DEF Chain, ComponentIs, MessagesAre, IsPolicy
  <2>5. QED BY <2>2, <2>4, GrowFacts, PolicyFacts
<1>4. component' = component \/ SyncComponent
  <2>1. CASE Quiet
    BY <2>1 DEF Quiet
  <2>2. CASE RecvExpected \/ RemovalsDone \/ SyncUnitsDone
             \/ \E i \in Ids, h \in Handles : AddUnit(i, h) \/ ModifyUnit(i, h)
    BY <2>2 DEF RecvExpected, RemovalsDone, SyncUnitsDone, AddUnit, ModifyUnit
  <2>3. CASE SendObserved \/ AgentSend \/ \E h \in Handles : ToObserved(h)
    BY <2>3 DEF SendObserved, AgentSend, ToObserved
  <2>4. QED BY <2>1, <2>2, <2>3, QuietSteps DEF IInv
<1>5. QED BY <1>2, <1>3, <1>4

\* The walk ends with the applied policy, whose component the client already has;
\* what is reported stays one policy while the component may go on.
LEMMA StepOneReport ==
  IndexesGrow /\ IInv /\ PolicyInv /\ CollectInv /\ OneReportInv /\ [Next]_vars => OneReportInv'
<1> SUFFICES ASSUME IndexesGrow, IInv, PolicyInv, CollectInv, OneReportInv, [Next]_vars,
                    wpc' \in {"component", "send", "select"}
             PROVE  \E v \in 0..ver' : ReportIs(v)'
  BY DEF OneReportInv
<1>1. ver \in 1..Len(Script) /\ ver' \in 1..Len(Script) /\ ver' >= ver
  <2>1. ver \in 1..Len(Script) /\ ver' \in 1..Len(Script)
    BY StepIInv DEF IInv, TypeOK, FieldsOK
  <2>2. ver' \in {ver, ver + 1}
    BY QuietSteps DEF IInv, Quiet, RecvExpected, SyncComponent, RemovalsDone, SyncUnitsDone,
       AddUnit, ModifyUnit, ToObserved, SendObserved, AgentSend
  <2>3. QED BY <2>1, <2>2, ConstantFacts
<1>2. component.idx \in Nat /\ component'.idx \in Nat /\ component'.idx >= component.idx
  BY ComponentGrows
<1>3. CASE UNCHANGED <<wpc, wobs, wfeat, wcomp>>
  <2>1. PICK v \in 0..ver : ReportIs(v)
    BY <1>3 DEF OneReportInv
  <2>2. v \in 0..Len(Script) /\ v \in 0..ver'
    BY <1>1, <2>1, ConstantFacts
  <2>3. ComponentIdxOf(v) \in Nat /\ Read' = Read
    BY <1>3, <2>2, PolicyFacts DEF Read
  <2>4. ReportIs(v)'
    BY <1>2, <1>3, <2>1, <2>3 DEF ReportIs
  <2>5. QED BY <2>2, <2>4
<1>4. CASE CollectDone
  <2>1. PICK d, r, c, a : Chain(a, c, r, d)
    BY DEF PolicyInv
  <2>2. /\ wpc = "collect" /\ wpc' = "component" /\ units \subseteq Read /\ wfeat' = featuresIdx
        /\ UNCHANGED <<wobs, component, ver>>
    BY <1>4 DEF CollectDone
  <2>3. rpc # "units" /\ Read = units /\ Read' = Read
    BY <2>2 DEF IInv, LockExclusion, WriteLocked, ReadLocked, ReportInv, Read
  <2>4. Holds(a) /\ component.idx = ComponentIdxOf(c)
    BY <2>1, <2>3 DEF Chain, RegistryIs, ComponentIs
  <2>5. {[id |-> wobs[h].id, cfgIdx |-> wobs[h].cfgIdx] : h \in Read}
          = {[id |-> i, cfgIdx |-> UnitsOf(a)[i].cfgIdx] : i \in {j \in Ids : UnitsOf(a)[j] # None}}
    BY <2>2, <2>3, <2>4, WalkIsPolicy DEF IInv, CollectInv
  <2>6. a \in 0..Len(Script) /\ c \in 0..Len(Script) /\ a <= c /\ a \in 0..ver'
    BY <1>1, <2>1, <2>2, ChainBounds DEF Chain, IInv, TypeOK
  <2>7. ComponentIdxOf(a) \in Nat /\ ComponentIdxOf(a) <= ComponentIdxOf(c)
    BY <2>6, PolicyFacts, GrowFacts
  <2>8. component'.idx >= ComponentIdxOf(a)
    BY <1>2, <2>2, <2>4, <2>7
  <2>9. ReportIs(a)'
    BY <2>2, <2>3, <2>4, <2>5, <2>8 DEF ReportIs, Holds
  <2>10. QED BY <2>6, <2>9
<1>5. CASE ReadComponentIdx
  <2>1. PICK v \in 0..ver : ReportIs(v)
    BY <1>5 DEF OneReportInv, ReadComponentIdx
  <2>2. /\ wpc = "component" /\ wpc' = "send" /\ wcomp' = component.idx
        /\ UNCHANGED <<wobs, wfeat, ver>> /\ Read' = Read
    BY <1>5 DEF ReadComponentIdx, Read
  <2>3. QED BY <2>1, <2>2 DEF ReportIs
<1>6. CASE SendObserved
  <2>1. PICK v \in 0..ver : ReportIs(v)
    BY <1>6 DEF OneReportInv, SendObserved
  <2>2. /\ wpc = "send" /\ wpc' = "select" /\ UNCHANGED <<wobs, wfeat, wcomp, ver>> /\ Read' = Read
    BY <1>6 DEF SendObserved, Read
  <2>3. QED BY <2>1, <2>2 DEF ReportIs
<1>7. CASE CollectLock \/ Connect \/ \E h \in Handles : ToObserved(h)
  BY <1>7 DEF CollectLock, Connect, ToObserved
<1>8. QED BY <1>3, <1>4, <1>5, <1>6, <1>7, WriterSteps

\* For every script whose indexes grow: what the writer has collected and sends is
\* one applied policy, units, config indexes and features index, with the component
\* index of that policy or of a later one (client_v2.go:587-599).
THEOREM EveryReportIsOnePolicy ==
  ASSUME IndexesGrow
  PROVE  Spec => []ReportIsOnePolicy
<1>1. Init => AnnounceInv /\ PolicyInv /\ CollectInv /\ OneReportInv
  BY InitPolicy DEF Init, AnnounceInv, WriteLocked, CollectInv, OneReportInv
<1>2. IInv /\ AnnounceInv /\ PolicyInv /\ CollectInv /\ OneReportInv /\ [Next]_vars =>
        AnnounceInv' /\ PolicyInv' /\ CollectInv' /\ OneReportInv'
  BY StepAnnounce, StepPolicy, StepCollect, StepOneReport
<1>3. IInv /\ OneReportInv => ReportIsOnePolicy
  <2> SUFFICES ASSUME IInv, OneReportInv, wpc \in {"component", "send", "select"}
               PROVE  \/ Read = {} /\ wfeat = 0
                      \/ \E v \in 1..ver :
                           /\ {[id |-> wobs[h].id, cfgIdx |-> wobs[h].cfgIdx] : h \in Read}
                                = {[id |-> i, cfgIdx |-> Script[v].units[i].cfgIdx] :
                                     i \in {j \in Ids : Script[v].units[j] # None}}
                           /\ wfeat = Script[v].featuresIdx
                           /\ wpc # "component" => wcomp >= Script[v].componentIdx
    BY DEF ReportIsOnePolicy
  <2>1. PICK v \in 0..ver : ReportIs(v)
    BY DEF OneReportInv
  <2>2. CASE v = 0
    <3>1. {j \in Ids : UnitsOf(v)[j] # None} = {} /\ wfeat = 0
      BY <2>1, <2>2 DEF UnitsOf, ReportIs, FeaturesIdxOf
    <3>2. {[id |-> wobs[h].id, cfgIdx |-> wobs[h].cfgIdx] : h \in Read} = {}
      BY <2>1, <3>1 DEF ReportIs
    <3>3. QED BY <3>1, <3>2
  <2>3. CASE v # 0
    <3>1. v \in 1..ver
      BY <2>1, <2>3 DEF IInv, TypeOK, FieldsOK
    <3>2. /\ UnitsOf(v) = Script[v].units /\ FeaturesIdxOf(v) = Script[v].featuresIdx
          /\ ComponentIdxOf(v) = Script[v].componentIdx
      BY <2>3 DEF UnitsOf, FeaturesIdxOf, ComponentIdxOf
    <3>3. QED BY <2>1, <3>1, <3>2 DEF ReportIs
  <2>4. QED BY <2>2, <2>3
<1>4. QED BY InitIInv, StepIInv, <1>1, <1>2, <1>3, PTL DEF Spec

-----------------------------------------------------------------------------
(* A config is reported after the integration was told of it *)

\* What a message leaves out, the client still has: the unit exists and its
\* index is the message's.
LEMMA OmittedConfig ==
  ASSUME IndexesGrow, ReturnsAreNew, TypeOK, NEW a, NEW c, NEW r, NEW d, Chain(a, c, r, d),
         rpc = "units", NEW i \in rtodo
  PROVE  \/ rmsg.units[i].cfg = rmsg.units[i].cfgIdx
         \/ /\ \E h \in units : ident[h] = i
            /\ \A h \in units : ident[h] = i => expected[h].cfgIdx = rmsg.units[i].cfgIdx
<1>1. /\ Syncs(a, r) /\ IsPolicy(rmsg, r, a) /\ i \in Ids
      /\ rmsg.units[i] # None /\ UnitsOf(r)[i] # None
      /\ rmsg.units[i].cfgIdx = UnitsOf(r)[i].cfgIdx
  BY SyncFacts
<1>2. SUFFICES ASSUME rmsg.units[i].cfg # rmsg.units[i].cfgIdx
               PROVE  /\ \E h \in units : ident[h] = i
                      /\ \A h \in units : ident[h] = i => expected[h].cfgIdx = rmsg.units[i].cfgIdx
  OBVIOUS
<1>3. Known(i, UnitsOf(r)[i].cfgIdx, a)
  BY <1>1, <1>2 DEF IsPolicy
<1>4. a \in 0..Len(Script) /\ r \in 0..Len(Script) /\ a <= r
  BY ChainBounds DEF Chain, TypeOK
<1>5. UnitsOf(a)[i] # None /\ UnitsOf(a)[i].cfgIdx = UnitsOf(r)[i].cfgIdx
  BY <1>1, <1>3, <1>4, KnownStays
<1>6. QED BY <1>1, <1>5 DEF Syncs

\* A sync only moves the config index of a unit on.
LEMMA ConfigGrows ==
  ASSUME IndexesGrow, TypeOK, NEW a, NEW c, NEW r, NEW d, Chain(a, c, r, d),
         NEW i \in Ids, NEW h \in Handles, ModifyUnit(i, h)
  PROVE  /\ expected[h].cfgIdx \in Nat /\ expected'[h].cfgIdx \in Nat
         /\ expected'[h].cfgIdx >= expected[h].cfgIdx
<1>1. rpc = "units" /\ i \in rtodo /\ h \in units /\ ident[h] = i
  BY DEF ModifyUnit, FindUnit
<1>2. expected'[h].cfgIdx = rmsg.units[i].cfgIdx
  BY DEF ModifyUnit, UpdatedUnit, TypeOK, FieldsOK
<1>3. /\ Syncs(a, r) /\ UnitsOf(r)[i] # None /\ rmsg.units[i].cfgIdx = UnitsOf(r)[i].cfgIdx
  BY <1>1, SyncFacts
<1>4. UnitsOf(a)[i] # None /\ expected[h].cfgIdx = UnitsOf(a)[i].cfgIdx
  BY <1>1, <1>3 DEF Syncs
<1>5. a \in 0..Len(Script) /\ r \in 0..Len(Script) /\ a <= r
  BY ChainBounds DEF Chain, TypeOK
<1>6. QED BY <1>2, <1>3, <1>4, <1>5, GrowFacts, PolicyFacts

\* The steps that write a Unit give it the config of its index.
LEMMA StepConfig ==
  IndexesGrow /\ ReturnsAreNew /\ IInv /\ PolicyInv /\ ConfigInv /\ [Next]_vars => ConfigInv'
<1> SUFFICES ASSUME IndexesGrow, ReturnsAreNew, IInv, PolicyInv, ConfigInv, [Next]_vars
             PROVE  ConfigInv'
  OBVIOUS
<1>1. PICK d, r, c, a : Chain(a, c, r, d)
  BY DEF PolicyInv
<1>2. CASE UNCHANGED <<ident, expected>>
  BY <1>2 DEF ConfigInv
<1>3. ASSUME NEW i \in Ids, NEW h \in Handles, AddUnit(i, h) PROVE ConfigInv'
  <2>1. rpc = "units" /\ i \in rtodo /\ ~(\E g \in units : ident[g] = i)
    BY <1>3 DEF AddUnit, FindUnit, IInv, TypeOK, FieldsOK
  <2>2. rmsg.units[i].cfg = rmsg.units[i].cfgIdx
    BY <1>1, <2>1, OmittedConfig DEF IInv
  <2>3. expected'[h].cfg = expected'[h].cfgIdx
    BY <1>3, <2>2 DEF AddUnit, NewUnit, IInv, TypeOK, FieldsOK
  <2>4. \A g \in Handles \ {h} : ident'[g] = ident[g] /\ expected'[g] = expected[g]
    BY <1>3 DEF AddUnit, IInv, TypeOK, FieldsOK
  <2>5. QED BY <2>3, <2>4 DEF ConfigInv
<1>4. ASSUME NEW i \in Ids, NEW h \in Handles, ModifyUnit(i, h) PROVE ConfigInv'
  <2>1. rpc = "units" /\ i \in rtodo /\ h \in units /\ ident[h] = i /\ ident[h] # None
    BY <1>4 DEF ModifyUnit, FindUnit, IInv, TypeOK, FieldsOK
  <2>2. \/ rmsg.units[i].cfg = rmsg.units[i].cfgIdx
        \/ expected[h].cfgIdx = rmsg.units[i].cfgIdx
    BY <1>1, <2>1, OmittedConfig DEF IInv
  <2>3. expected[h].cfg = expected[h].cfgIdx
    BY <2>1 DEF ConfigInv
  <2>4. expected'[h].cfg = expected'[h].cfgIdx
    BY <1>4, <2>2, <2>3 DEF ModifyUnit, UpdatedUnit, IInv, TypeOK, FieldsOK
  <2>5. /\ ident' = ident
        /\ \A g \in Handles \ {h} : expected'[g] = expected[g]
    BY <1>4 DEF ModifyUnit, IInv, TypeOK, FieldsOK
  <2>6. QED BY <2>4, <2>5 DEF ConfigInv
<1>5. CASE TakeChange \/ \E h \in Handles : AnnounceRemoval(h)
  BY <1>2, <1>5 DEF TakeChange, AnnounceRemoval
<1>6. QED BY <1>2, <1>3, <1>4, <1>5, EventFrame

\* The view of a Unit is a view.
LEMMA SeenType ==
  ASSUME NEW e \in ExpectedState
  PROVE  Seen(e) # None /\ Seen(e).config = e.cfg
<1>1. Seen(e) \in UnitView
  BY DEF Seen, ExpectedState, UnitView
<1>2. None \notin UnitView
  BY CheckinAssumption DEF CheckinAssumption
<1>3. QED BY <1>1, <1>2 DEF Seen

\* Taking a change of a unit reads the config it has, or leaves the one read.
LEMMA TakeReads ==
  ASSUME IInv, AnnounceInv, ViewInv, ConfigInv, TakeChange, NEW h \in Handles, view[h] # None
  PROVE  /\ view'[h] # None
         /\ view'[h] = view[h] \/ view'[h].config = expected[h].cfgIdx
<1>1. /\ change # None /\ change' = None /\ expected' = expected /\ DOMAIN view = Handles
      /\ change.unit \in Handles /\ ident[change.unit] # None /\ rpc \in {"remove", "units"}
      /\ change.unit \in units
  BY DEF TakeChange, IInv, TypeOK, FieldsOK, WriteLocked
<1>2. change.type \in {"added", "modified", "removed"}
  BY <1>1 DEF AnnounceInv
<1>3. CASE change.unit # h \/ change.type = "removed"
  <2>1. view'[h] = view[h]
    BY <1>1, <1>2, <1>3 DEF TakeChange
  <2>2. QED BY <2>1
<1>4. CASE change.unit = h /\ change.type \in {"added", "modified"}
  <2>1. /\ expected[h] \in ExpectedState /\ expected[h].cfg = expected[h].cfgIdx
    BY <1>1, <1>4 DEF IInv, TypeOK, MessagesOK, ConfigInv
  <2>2. Seen(expected[h]) # None /\ Seen(expected[h]).config = expected[h].cfgIdx
    BY <2>1, SeenType
  <2>3. h \in told'
    <3>1. CASE change.type = "added"
      BY <1>4, <3>1 DEF TakeChange
    <3>2. CASE change.type = "modified"
      BY <1>1, <1>4, <3>2 DEF TakeChange, AnnounceInv
    <3>3. QED BY <1>4, <3>1, <3>2
  <2>4. view'[h] = Seen(expected[h])
    BY <1>1, <2>3, StepViewTake DEF ViewInv, ViewCurrent
  <2>5. QED BY <2>2, <2>4
<1>5. QED BY <1>2, <1>3, <1>4

\* When the writer reads a unit the integration has read its config; afterwards
\* both only move on.
LEMMA StepRead ==
  IndexesGrow /\ ReturnsAreNew /\ IInv /\ AnnounceInv /\ ViewInv /\ PolicyInv /\ ConfigInv
    /\ ReadInv /\ [Next]_vars => ReadInv'
<1> SUFFICES ASSUME IndexesGrow, ReturnsAreNew, IInv, AnnounceInv, ViewInv, PolicyInv,
                    ConfigInv, ReadInv, [Next]_vars, NEW h \in Read'
             PROVE  /\ view'[h] # None /\ view'[h].config \in Nat
                    /\ view'[h].config >= wobs'[h].cfgIdx
                    /\ expected'[h].cfgIdx >= wobs'[h].cfgIdx
  BY DEF ReadInv, Read
<1>1. h \in Handles /\ wobs'[h] # None
  BY DEF Read
<1>2. ASSUME NEW g \in Handles, ToObserved(g), g = h
      PROVE  /\ view'[h] # None /\ view'[h].config \in Nat
             /\ view'[h].config >= wobs'[h].cfgIdx
             /\ expected'[h].cfgIdx >= wobs'[h].cfgIdx
  <2>1. /\ h \in units /\ wobs'[h].cfgIdx = expected[h].cfgIdx /\ ~WriteLocked
        /\ UNCHANGED <<view, expected>>
    BY <1>2 DEF ToObserved, IInv, LockExclusion, ReadLocked, TypeOK, FieldsOK
  <2>2. h \in told /\ change = None /\ ident[h] # None
    BY <2>1 DEF AnnounceInv, IInv, TypeOK, FieldsOK
  <2>3. expected[h] \in ExpectedState /\ expected[h].cfg = expected[h].cfgIdx
    BY <1>1, <2>2 DEF IInv, TypeOK, MessagesOK, ConfigInv
  <2>4. view[h] = Seen(expected[h])
    BY <2>2 DEF ViewInv, ViewCurrent
  <2>5. view[h] # None /\ view[h].config = expected[h].cfgIdx
    BY <2>3, <2>4, SeenType
  <2>6. expected[h].cfgIdx \in Nat
    BY <2>3 DEF ExpectedState
  <2>7. QED BY <2>1, <2>5, <2>6
<1>3. CASE h \in Read /\ wobs'[h] = wobs[h]
  <2>1. /\ view[h] # None /\ view[h].config \in Nat /\ wobs[h].cfgIdx \in Nat
        /\ view[h].config >= wobs[h].cfgIdx /\ expected[h].cfgIdx >= wobs[h].cfgIdx
        /\ ident[h] # None
    BY <1>1, <1>3 DEF ReadInv, IInv, TypeOK, MessagesOK, UnitObserved, HandleInv, Read
  <2>2. expected[h] \in ExpectedState /\ expected[h].cfgIdx \in Nat
    BY <1>1, <2>1 DEF IInv, TypeOK, MessagesOK, ExpectedState
  <2>3. CASE UNCHANGED <<expected, view>>
    BY <1>3, <2>1, <2>3
  <2>4. CASE TakeChange
    <3>1. expected' = expected
      BY <2>4 DEF TakeChange
    <3>2. view'[h] # None /\ (view'[h] = view[h] \/ view'[h].config = expected[h].cfgIdx)
      BY <1>1, <2>1, <2>4, TakeReads
    <3>3. QED BY <1>3, <2>1, <2>2, <3>1, <3>2
  <2>5. ASSUME NEW i \in Ids, NEW g \in Handles, AddUnit(i, g)
        PROVE  view' = view /\ expected'[h] = expected[h]
    BY <1>1, <2>1, <2>5 DEF AddUnit, Fresh, IInv, TypeOK, FieldsOK
  <2>6. ASSUME NEW i \in Ids, NEW g \in Handles, ModifyUnit(i, g)
        PROVE  view' = view /\ expected'[h].cfgIdx \in Nat
               /\ expected'[h].cfgIdx >= expected[h].cfgIdx
    <3>1. view' = view
      BY <2>6 DEF ModifyUnit
    <3>2. CASE g = h
      <4>1. PICK d, r, c, a : Chain(a, c, r, d)
        BY DEF PolicyInv
      <4>2. QED BY <2>6, <3>1, <3>2, <4>1, ConfigGrows DEF IInv
    <3>3. CASE g # h
      <4>1. expected'[h] = expected[h]
        BY <1>1, <2>6, <3>3 DEF ModifyUnit, IInv, TypeOK, FieldsOK
      <4>2. QED BY <2>2, <3>1, <4>1
    <3>4. QED BY <3>2, <3>3
  <2>7. CASE \E g \in Handles : AnnounceRemoval(g)
    BY <2>3, <2>7 DEF AnnounceRemoval
  <2>8. CASE \E i \in Ids, g \in Handles : AddUnit(i, g)
    BY <1>3, <2>1, <2>5, <2>8
  <2>9. CASE \E i \in Ids, g \in Handles : ModifyUnit(i, g)
    BY <1>3, <2>1, <2>2, <2>6, <2>9
  <2>10. QED BY <2>3, <2>4, <2>7, <2>8, <2>9, EventFrame
<1>4. \/ \E g \in Handles : ToObserved(g) /\ g = h
      \/ h \in Read /\ wobs'[h] = wobs[h]
  <2>1. CASE wobs' = wobs
    BY <1>1, <2>1 DEF Read
  <2>2. CASE wobs' = NothingRead
    BY <1>1, <2>2 DEF NothingRead
  <2>3. ASSUME NEW g \in Handles, ToObserved(g)
        PROVE  g = h \/ (h \in Read /\ wobs'[h] = wobs[h])
    BY <1>1, <2>3 DEF ToObserved, Read, IInv, TypeOK, FieldsOK
  <2>4. CASE CollectLock \/ CollectDone \/ ReadComponentIdx \/ SendObserved \/ Connect
    BY <2>1, <2>4 DEF CollectLock, CollectDone, ReadComponentIdx, SendObserved, Connect
  <2>5. QED BY <2>1, <2>2, <2>3, <2>4, WriterSteps
<1>5. QED BY <1>2, <1>3, <1>4

\* For every script whose indexes grow, and in which a unit that returns has a new
\* index: no config index is reported before the integration was told of that
\* config or of a later one, also when configs are left out (client_v2.go:587-595,
\* 757, 781).
THEOREM ConfigsReportedAfterTold ==
  ASSUME IndexesGrow, ReturnsAreNew
  PROVE  Spec => []ReportedAfterTold
<1>1. Init => AnnounceInv /\ ViewInv /\ PolicyInv /\ ConfigInv /\ ReadInv
  BY InitPolicy DEF Init, AnnounceInv, WriteLocked, ViewInv, ViewCurrent, ConfigInv, ReadInv, Read,
     NothingRead
<1>2. IInv /\ AnnounceInv /\ ViewInv /\ PolicyInv /\ ConfigInv /\ ReadInv /\ [Next]_vars =>
        AnnounceInv' /\ ViewInv' /\ PolicyInv' /\ ConfigInv' /\ ReadInv'
  BY StepAnnounce, StepView, StepPolicy, StepConfig, StepRead
<1>3. ReadInv => ReportedAfterTold
  BY DEF ReadInv, ReportedAfterTold
<1>4. QED BY InitIInv, StepIInv, <1>1, <1>2, <1>3, PTL DEF Spec

-----------------------------------------------------------------------------
(* What is acknowledged is in force *)

\* A policy that the agent had it still knows.
LEMMA StepVersions ==
  TypeOK /\ LoopInv /\ [Next]_vars => ver \in 1..Len(Script) /\ ver' \in Nat /\ ver <= ver'
<1> SUFFICES ASSUME TypeOK, LoopInv, [Next]_vars
             PROVE  ver \in 1..Len(Script) /\ ver' \in Nat /\ ver <= ver'
  OBVIOUS
<1>1. ver \in 1..Len(Script) /\ ver \in Nat
  BY ConstantFacts DEF TypeOK, FieldsOK
<1>2. ver' \in {ver, ver + 1}
  BY QuietSteps DEF Quiet, RecvExpected, SyncComponent, RemovalsDone, SyncUnitsDone,
     AddUnit, ModifyUnit, ToObserved, SendObserved, AgentSend
<1>3. QED BY <1>1, <1>2

\* Where neither a Unit nor a message changes.
LEMMA FeaturesFrame ==
  ASSUME FeaturesInv, ver \in Nat, ver' \in Nat, ver <= ver', ~WriteLocked' => ~WriteLocked,
         rpc' = "units" <=> rpc = "units", down' \in {down, None},
         UNCHANGED <<ident, expected, units, featuresIdx, rtodo, rmsg>>
  PROVE  FeaturesInv'
<1>1. 1..ver \subseteq 1..ver'
  OBVIOUS
<1>2. \A h \in units' : expected'[h].featuresIdx = 0
                        \/ FeaturesAre(expected[h].featuresIdx, expected[h].features)'
  BY <1>1 DEF FeaturesInv, FeaturesAre
<1>3. ~WriteLocked' => \A h \in units' : FeaturesAre(featuresIdx, expected[h].features)'
  BY <1>1 DEF FeaturesInv, FeaturesAre
<1>4. /\ rmsg' # None => FeaturesAre(rmsg.featuresIdx, rmsg.features)'
      /\ down' # None => FeaturesAre(down.featuresIdx, down.features)'
  BY <1>1 DEF FeaturesInv, FeaturesAre
<1>5. rpc' = "units" => \A h \in units' : ident'[h] \notin rtodo' => expected'[h].features = rmsg'.features
  BY DEF FeaturesInv
<1>6. QED BY <1>2, <1>3, <1>4, <1>5 DEF FeaturesInv

\* A sync gives a Unit the features of the message, whether it reads them or
\* finds their index unchanged.
LEMMA SyncedFeatures ==
  ASSUME FeaturesSent, TypeOK, AnnounceInv, FeaturesInv, NEW i \in Ids, NEW h \in Handles,
         AddUnit(i, h) \/ ModifyUnit(i, h)
  PROVE  /\ expected'[h].features = rmsg.features /\ expected'[h].featuresIdx \in {0, rmsg.featuresIdx}
         /\ \A g \in units \ {h} : expected'[g] = expected[g] /\ ident'[g] = ident[g] /\ ident[g] # i
<1>1. rmsg # None
  BY DEF AddUnit, ModifyUnit, TypeOK, MessagesOK
<1>2. PICK v \in 1..ver : Script[v].featuresIdx = rmsg.featuresIdx /\ Script[v].features = rmsg.features
  BY <1>1 DEF FeaturesInv, FeaturesAre
<1>3. v \in DOMAIN Script /\ rmsg.features # None /\ rmsg.featuresIdx # 0
  <2>1. v \in 1..Len(Script)
    BY <1>2, ConstantFacts DEF TypeOK, FieldsOK
  <2>2. QED BY <1>2, <2>1, ScriptFacts DEF FeaturesSent
<1>4. CASE AddUnit(i, h)
  <2>1. expected'[h].features = rmsg.features /\ expected'[h].featuresIdx = 0
    BY <1>4 DEF AddUnit, NewUnit, TypeOK, FieldsOK
  <2>2. \A g \in units \ {h} : expected'[g] = expected[g] /\ ident'[g] = ident[g] /\ ident[g] # i
    BY <1>4 DEF AddUnit, FindUnit, TypeOK, FieldsOK
  <2>3. QED BY <2>1, <2>2
<1>5. CASE ModifyUnit(i, h)
  <2>1. h \in units /\ ident[h] = i
    BY <1>5 DEF ModifyUnit, FindUnit
  <2>2. expected'[h].featuresIdx = rmsg.featuresIdx
    BY <1>5 DEF ModifyUnit, UpdatedUnit, TypeOK, FieldsOK
  <2>3. ASSUME expected[h].featuresIdx # rmsg.featuresIdx
        PROVE  expected'[h].features = rmsg.features
    BY <1>3, <1>5, <2>3 DEF ModifyUnit, UpdatedUnit, TypeOK, FieldsOK
  <2>4. ASSUME expected[h].featuresIdx = rmsg.featuresIdx
        PROVE  expected'[h].features = rmsg.features
    <3>1. PICK w \in 1..ver : /\ Script[w].featuresIdx = expected[h].featuresIdx
                              /\ Script[w].features = expected[h].features
      BY <1>3, <2>1, <2>4 DEF FeaturesInv, FeaturesAre
    <3>2. w \in DOMAIN Script
      <4>1. w \in 1..Len(Script)
        BY <3>1, ConstantFacts DEF TypeOK, FieldsOK
      <4>2. QED BY <4>1, ScriptFacts
    <3>3. expected[h].features = rmsg.features
      BY <1>2, <1>3, <2>4, <3>1, <3>2 DEF FeaturesSent
    <3>4. expected'[h].features = expected[h].features
      BY <1>5, <2>4 DEF ModifyUnit, UpdatedUnit, TypeOK, FieldsOK
    <3>5. QED BY <3>3, <3>4
  <2>5. expected'[h].features = rmsg.features
    BY <2>3, <2>4
  <2>6. \A g \in units \ {h} : expected'[g] = expected[g] /\ ident'[g] = ident[g] /\ ident[g] # i
    BY <1>5, <2>1 DEF ModifyUnit, AnnounceInv, TypeOK, FieldsOK
  <2>7. QED BY <2>2, <2>5, <2>6
<1>6. QED BY <1>4, <1>5
\* The steps of the reader keep FeaturesInv: each synced unit has the features of
\* the message, and the index is recorded when all are synced.
LEMMA StepFeaturesSync ==
  ASSUME FeaturesSent, IInv, AnnounceInv, FeaturesInv, ver' = ver,
         NEW i \in Ids, NEW h \in Handles, AddUnit(i, h) \/ ModifyUnit(i, h)
  PROVE  FeaturesInv'
<1>1. /\ rpc = "units" /\ rpc' = "units" /\ rtodo' = rtodo \ {i} /\ rmsg # None
      /\ units' = units \cup {h} /\ UNCHANGED <<rmsg, down>>
  BY DEF AddUnit, ModifyUnit, FindUnit, IInv, TypeOK, MessagesOK
<1>2. /\ expected'[h].features = rmsg.features
      /\ expected'[h].featuresIdx \in {0, rmsg.featuresIdx}
      /\ \A g \in units \ {h} : expected'[g] = expected[g] /\ ident'[g] = ident[g] /\ ident[g] # i
  BY SyncedFeatures DEF IInv
<1>3. \A g \in units' : expected'[g].featuresIdx = 0
                        \/ FeaturesAre(expected[g].featuresIdx, expected[g].features)'
  <2>1. FeaturesAre(rmsg.featuresIdx, rmsg.features)
    BY <1>1 DEF FeaturesInv
  <2>2. QED BY <1>1, <1>2, <2>1 DEF FeaturesInv, FeaturesAre
<1>4. \A g \in units' : ident'[g] \notin rtodo' => expected'[g].features = rmsg'.features
  BY <1>1, <1>2 DEF FeaturesInv
<1>5. /\ rmsg' # None => FeaturesAre(rmsg.featuresIdx, rmsg.features)'
      /\ down' # None => FeaturesAre(down.featuresIdx, down.features)'
  BY <1>1 DEF FeaturesInv, FeaturesAre
<1>6. QED BY <1>1, <1>3, <1>4, <1>5 DEF FeaturesInv, WriteLocked

\* FeaturesInv is inductive relative to the invariants of CheckinProofs.
LEMMA StepFeatures ==
  FeaturesSent /\ IInv /\ AnnounceInv /\ FeaturesInv /\ [Next]_vars => FeaturesInv'
<1> SUFFICES ASSUME FeaturesSent, IInv, AnnounceInv, FeaturesInv, [Next]_vars
             PROVE  FeaturesInv'
  OBVIOUS
<1>1. ver \in 1..Len(Script) /\ ver \in Nat /\ ver' \in Nat /\ ver <= ver'
  BY StepVersions, ConstantFacts DEF IInv
<1>2. CASE Quiet
  <2>1. ~WriteLocked' => ~WriteLocked
    BY <1>2 DEF Quiet, WriteLocked
  <2>2. QED BY <1>1, <1>2, <2>1, FeaturesFrame DEF Quiet
<1>3. CASE SyncComponent \/ SendObserved \/ \E h \in Handles : ToObserved(h)
  <2>1. /\ UNCHANGED <<ident, expected, units, featuresIdx, rtodo, rmsg, down>>
        /\ rpc' = "units" <=> rpc = "units"
        /\ ~WriteLocked' => ~WriteLocked
    BY <1>3 DEF SyncComponent, SendObserved, ToObserved, WriteLocked
  <2>2. QED BY <1>1, <2>1, FeaturesFrame
<1>4. CASE RecvExpected
  <2>1. /\ rmsg' = down /\ down' = None /\ rpc = "recv" /\ rpc' = "component"
        /\ UNCHANGED <<ver, ident, expected, units, featuresIdx, rtodo>>
    BY <1>4 DEF RecvExpected
  <2>2. QED BY <2>1 DEF FeaturesInv, FeaturesAre, WriteLocked
<1>5. CASE AgentSend
  <2>1. /\ down' = ExpectedMsg(Script[ver], obs, ~greeted)
        /\ UNCHANGED <<ver, ident, expected, units, featuresIdx, rtodo, rmsg, rpc>>
    BY <1>5 DEF AgentSend
  <2>2. down'.featuresIdx = Script[ver].featuresIdx /\ down'.features = Script[ver].features
    BY <2>1 DEF ExpectedMsg, FeaturesSent
  <2>3. FeaturesAre(down.featuresIdx, down.features)'
    BY <1>1, <2>1, <2>2 DEF FeaturesAre
  <2>4. QED BY <2>1, <2>3 DEF FeaturesInv, FeaturesAre, WriteLocked
<1>6. CASE RemovalsDone
  <2>1. /\ rpc = "remove" /\ rpc' = "units" /\ units' = Remaining
        /\ rtodo' = {i \in Ids : rmsg.units[i] # None}
        /\ UNCHANGED <<ver, ident, expected, rmsg, down>>
    BY <1>6 DEF RemovalsDone
  <2>2. \A h \in units' : h \in units /\ ident'[h] \in rtodo'
    BY <2>1 DEF Remaining, InExpected, IInv, TypeOK, FieldsOK
  <2>3. QED BY <2>1, <2>2 DEF FeaturesInv, FeaturesAre, WriteLocked
<1>7. CASE SyncUnitsDone
  <2>1. /\ rpc = "units" /\ rpc' = "recv" /\ rtodo = {} /\ rmsg # None
        /\ featuresIdx' = rmsg.featuresIdx /\ rmsg' = None
        /\ UNCHANGED <<ver, ident, expected, units, down>>
    BY <1>7 DEF SyncUnitsDone, IInv, TypeOK, MessagesOK
  <2>2. FeaturesAre(rmsg.featuresIdx, rmsg.features) /\ \A h \in units : expected[h].features = rmsg.features
    BY <2>1 DEF FeaturesInv
  <2>3. \A h \in units' : FeaturesAre(featuresIdx, expected[h].features)'
    BY <2>1, <2>2 DEF FeaturesAre
  <2>4. QED BY <2>1, <2>3 DEF FeaturesInv, FeaturesAre
<1>8. ASSUME NEW i \in Ids, NEW h \in Handles, AddUnit(i, h) \/ ModifyUnit(i, h)
      PROVE  FeaturesInv'
  <2>1. ver' = ver
    BY <1>8 DEF AddUnit, ModifyUnit
  <2>2. QED BY <1>8, <2>1, StepFeaturesSync
<1>9. QED BY <1>2, <1>3, <1>4, <1>5, <1>6, <1>7, <1>8, QuietSteps DEF IInv

\* When the agent always sends features, one under each index: a features index is
\* reported only when every unit has those features (client_v2.go:786-790).
THEOREM AcknowledgedFeaturesInForce ==
  ASSUME FeaturesSent
  PROVE  Spec => []FeaturesFollowIdx
<1>1. Init => AnnounceInv /\ FeaturesInv
  BY DEF Init, AnnounceInv, FeaturesInv, WriteLocked
<1>2. IInv /\ AnnounceInv /\ FeaturesInv /\ [Next]_vars => AnnounceInv' /\ FeaturesInv'
  BY StepAnnounce, StepFeatures
<1>3. FeaturesInv => FeaturesFollowIdx
  BY DEF FeaturesInv, FeaturesFollowIdx, FeaturesAre
<1>4. QED BY InitIInv, StepIInv, <1>1, <1>2, <1>3, PTL DEF Spec

\* The limits are those of the component stored, whether it changed or not.
LEMMA StepLimits ==
  "component" \notin Omit /\ IInv /\ LimitsInv /\ [Next]_vars => LimitsInv'
<1> SUFFICES ASSUME "component" \notin Omit, IInv, LimitsInv, [Next]_vars PROVE LimitsInv'
  OBVIOUS
<1>1. ver \in 1..Len(Script) /\ ver \in Nat /\ ver' \in Nat /\ 1..ver \subseteq 1..ver'
  BY StepVersions, ConstantFacts DEF IInv
<1>2. ASSUME UNCHANGED <<component, goMaxProcs, rmsg>>, down' \in {down, None}
      PROVE  LimitsInv'
  BY <1>1, <1>2 DEF LimitsInv, ComponentConfigIs
<1>3. CASE SyncComponent
  <2>1. /\ rmsg # None /\ UNCHANGED <<ver, rmsg, down>>
        /\ goMaxProcs' = IF LimitsChanged THEN Procs(LimitsOf(rmsg.component)) ELSE goMaxProcs
        /\ component' = [config |-> rmsg.component, idx |-> rmsg.componentIdx]
    BY <1>3 DEF SyncComponent, IInv, TypeOK, MessagesOK
  <2>2. goMaxProcs' = Procs(LimitsOf(rmsg.component))
    BY <2>1 DEF LimitsInv, LimitsChanged
  <2>3. component'.config = rmsg.component /\ component'.idx = rmsg.componentIdx
    BY <2>1
  <2>4. QED BY <2>1, <2>2, <2>3 DEF LimitsInv, ComponentConfigIs
<1>4. CASE RecvExpected
  <2>1. rmsg' = down /\ down' = None /\ UNCHANGED <<ver, component, goMaxProcs>>
    BY <1>4 DEF RecvExpected
  <2>2. QED BY <2>1 DEF LimitsInv, ComponentConfigIs
<1>5. CASE AgentSend
  <2>1. /\ down' = ExpectedMsg(Script[ver], obs, ~greeted)
        /\ UNCHANGED <<ver, component, goMaxProcs, rmsg>>
    BY <1>5 DEF AgentSend
  <2>2. down'.componentIdx = Script[ver].componentIdx /\ down'.component = Script[ver].component
    BY <2>1 DEF ExpectedMsg
  <2>3. QED BY <1>1, <2>1, <2>2 DEF LimitsInv, ComponentConfigIs
<1>6. CASE SyncUnitsDone
  <2>1. rmsg' = None /\ UNCHANGED <<ver, component, goMaxProcs, down>>
    BY <1>6 DEF SyncUnitsDone
  <2>2. QED BY <2>1 DEF LimitsInv, ComponentConfigIs
<1>7. CASE RemovalsDone \/ SendObserved \/ \E h \in Handles : ToObserved(h)
  BY <1>2, <1>7 DEF RemovalsDone, SendObserved, ToObserved
<1>8. CASE \E i \in Ids, h \in Handles : AddUnit(i, h) \/ ModifyUnit(i, h)
  BY <1>2, <1>8 DEF AddUnit, ModifyUnit
<1>9. CASE Quiet
  BY <1>2, <1>9 DEF Quiet
<1>10. QED BY <1>3, <1>4, <1>5, <1>6, <1>7, <1>8, <1>9, QuietSteps DEF IInv

\* When the agent always sends the component: a component index is reported only
\* when the process runs with the limits of that component, also after it went back
\* to a component without limits (client_v2.go:680-692).
THEOREM AcknowledgedLimitsInForce ==
  ASSUME "component" \notin Omit
  PROVE  Spec => []LimitsFollowIdx
<1>1. Init => LimitsInv
  BY DEF Init, LimitsInv, LimitsOf, Procs
<1>2. IInv /\ LimitsInv /\ [Next]_vars => LimitsInv'
  BY StepLimits
<1>3. LimitsInv => LimitsFollowIdx
  BY DEF LimitsInv, LimitsFollowIdx, ComponentConfigIs
<1>4. QED BY InitIInv, StepIInv, <1>1, <1>2, <1>3, PTL DEF Spec

=============================================================================
