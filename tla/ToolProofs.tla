----------------------------- MODULE ToolProofs -----------------------------
(* Safety of v2tool for every number of units and streams and every rule:  *)
(* TypeOK, in which the state of a unit is that of its done flag;          *)
(* ServerFirst; and StopIsFinal.                                           *)
EXTENDS Tool, TLAPS

USE DEF managerVars, serverVars, toolVars, clientVars, RunFrame, ClientFrame

-----------------------------------------------------------------------------
(* The inductive invariants *)

Handler ==
  [pc : {"off", "recv", "lock", "look", "decide", "send"}, report : PartialFcns(UnitStates),
   at : Nat, saw : BOOLEAN, resp : PartialFcns(Expected)]

\* What the tool expects of a unit is decided by its done flag.
ExpectedOf(d) == IF d THEN [state |-> "STOPPED", idx |-> 1] ELSE [state |-> "HEALTHY", idx |-> 0]

ManagerType ==
  /\ passed \subseteq Units \X {"start", "stop"} /\ done \in [Units -> BOOLEAN]
  /\ expected = [u \in Units |-> ExpectedOf(done[u])]
ServerType ==
  /\ mut \in 0..NumStreams /\ handler \in [Streams -> Handler]
  /\ link \in [Streams -> {"none", "open", "closed"}]
  /\ up \in [Streams -> {None} \cup PartialFcns(UnitStates)]
  /\ down \in [Streams -> {None} \cup PartialFcns(Expected)]
ClientType ==
  /\ stream \in 0..NumStreams /\ events \in 0..MaxEvents
  /\ told \in PartialFcns(Expected) /\ stopped \subseteq Units
  /\ reports \in [DOMAIN told -> UnitStates]

\* Who is in Checkin holds the mutex; the done flag it copied is the unit's.
MutexInv ==
  \A s \in Streams :
    /\ handler[s].pc \in {"look", "decide"} => mut = s
    /\ handler[s].pc = "decide" => handler[s].at \in Units /\ handler[s].saw = done[handler[s].at]

\* A stream that was never opened has no handler, and nothing on it.
UnusedInv == \A s \in Streams : s > stream => handler[s] = Idle /\ down[s] = None

IInv == ManagerType /\ ServerType /\ ClientType /\ MutexInv /\ UnusedInv

\* The tool listens from StartServer to the end of the client, and only then can
\* the client have its information.
RunInv ==
  /\ phase \in {"write", "wait"} => listening
  /\ info => phase \in {"wait", "exited"}
  /\ phase = "exited" => client = "ended"
  /\ phase \in {"config", "process"} => client = "none"
  /\ client = "running" => phase = "wait"

\* Unit u is stopped in message m.
Stops(m, u) == u \in DOMAIN m /\ m[u].state = "STOPPED"
Runs(m, u) == u \in DOMAIN m /\ m[u].state # "STOPPED"

\* Who is told to stop is done.  On the stream of the client, nothing runs a unit
\* that the client was told to stop, and what the handler makes runs none that the
\* message before it stops.
StopInv ==
  /\ \A u \in stopped : done[u] /\ ~Runs(told, u)
  /\ stream # 0 => \A u \in Units :
       /\ Stops(handler[stream].resp, u) => done[u]
       /\ u \in stopped => ~Runs(handler[stream].resp, u)
       /\ down[stream] # None =>
            /\ Stops(down[stream], u) => done[u] /\ ~Runs(handler[stream].resp, u)
            /\ u \in stopped => ~Runs(down[stream], u)

-----------------------------------------------------------------------------
(* The data *)

LEMMA ConstantFacts == NumUnits \in Nat \ {0} /\ NumStreams \in Nat \ {0} /\ MaxEvents \in Nat
BY ManagerAssumption, ToolAssumption DEF ManagerAssumption, ToolAssumption

\* A message about some of the units.
LEMMA PartialFcn ==
  ASSUME NEW S, NEW f
  PROVE  f \in PartialFcns(S) <=> f \in [DOMAIN f -> S] /\ DOMAIN f \subseteq Units
BY DEF PartialFcns

LEMMA EmptyFcn == ASSUME NEW S PROVE <<>> \in PartialFcns(S)
<1>1. <<>> \in [{} -> S]
  OBVIOUS
<1>2. QED BY <1>1 DEF PartialFcns

LEMMA IdleType == Idle \in Handler /\ [Idle EXCEPT !.pc = "recv"] \in Handler
<1>1. <<>> \in PartialFcns(UnitStates) /\ <<>> \in PartialFcns(Expected)
  BY EmptyFcn
<1>2. QED BY <1>1, Zenon DEF Idle, Handler

LEMMA ExpectedType ==
  ASSUME ManagerType, NEW u \in Units
  PROVE  expected[u] \in Expected /\ (expected[u].state = "STOPPED" <=> done[u])
<1>1. done[u] \in BOOLEAN /\ expected[u] = ExpectedOf(done[u])
  BY DEF ManagerType
<1>2. CASE done[u]
  BY <1>1, <1>2 DEF ExpectedOf, Expected
<1>3. CASE ~done[u]
  BY <1>1, <1>3 DEF ExpectedOf, Expected
<1>4. QED BY <1>2, <1>3

LEMMA ExpectedOfType == ManagerType' => \A u \in Units : expected'[u] \in Expected
<1> SUFFICES ASSUME ManagerType', NEW u \in Units PROVE expected'[u] \in Expected
  OBVIOUS
<1>1. done'[u] \in BOOLEAN /\ expected'[u] = ExpectedOf(done'[u])
  BY DEF ManagerType
<1>2. CASE done'[u]
  BY <1>1, <1>2 DEF ExpectedOf, Expected
<1>3. CASE ~done'[u]
  BY <1>1, <1>3 DEF ExpectedOf, Expected
<1>4. QED BY <1>2, <1>3

\* A step of the handler of stream s is no other stream's.
LEMMA GoesOnlyThere ==
  ASSUME ServerType, NEW s \in Streams, NEW h \in Handler, Goes(s, h)
  PROVE  /\ handler' \in [Streams -> Handler] /\ handler'[s] = h
         /\ \A t \in Streams : t # s => handler'[t] = handler[t]
BY DEF Goes, ServerType

\* Going on to the next unit, and leaving Checkin.
LEMMA NextUnitType ==
  ASSUME ServerType, NEW s \in Streams, NEW resp \in PartialFcns(Expected), NextUnit(s, resp)
  PROVE  /\ handler' \in [Streams -> Handler]
         /\ handler'[s].pc = "look" /\ handler'[s].resp = resp
         /\ \A t \in Streams : t # s => handler'[t] = handler[t]
<1> DEFINE n == handler[s].at + 1
           h == [handler[s] EXCEPT !.pc = "look", !.at = n, !.saw = FALSE, !.resp = resp]
<1>1. handler[s] \in Handler
  BY DEF ServerType
<1>2. n \in Nat
  BY <1>1 DEF Handler
<1>3. Goes(s, h)
  BY DEF NextUnit
<1> HIDE DEF n
<1>4. h \in Handler /\ h.pc = "look" /\ h.resp = resp
  BY <1>1, <1>2 DEF Handler
<1> HIDE DEF h
<1>5. QED BY <1>3, <1>4, GoesOnlyThere

LEMMA UnlockType ==
  ASSUME ServerType, NEW s \in Streams, NEW resp \in PartialFcns(Expected), Unlock(s, resp)
  PROVE  /\ handler' \in [Streams -> Handler] /\ mut' = 0
         /\ handler'[s].pc = "send" /\ handler'[s].resp = resp
         /\ \A t \in Streams : t # s => handler'[t] = handler[t]
         /\ UNCHANGED <<managerVars, link, up, down>>
<1> DEFINE h == [handler[s] EXCEPT !.pc = "send", !.resp = resp, !.report = <<>>]
<1>1. handler[s] \in Handler /\ <<>> \in PartialFcns(UnitStates)
  BY EmptyFcn DEF ServerType
<1>2. h \in Handler /\ h.pc = "send" /\ h.resp = resp
  BY <1>1 DEF Handler
<1>3. Goes(s, h) /\ mut' = 0 /\ UNCHANGED <<managerVars, link, up, down>>
  BY DEF Unlock
<1> HIDE DEF h
<1>4. QED BY <1>2, <1>3, GoesOnlyThere

\* A response with one more unit is a response.
LEMMA AppendedType ==
  ASSUME NEW s \in Streams, NEW u \in Units, ServerType, expected'[u] \in Expected
  PROVE  /\ Appended(s, u) \in PartialFcns(Expected)
         /\ DOMAIN Appended(s, u) = DOMAIN handler[s].resp \cup {u}
         /\ Appended(s, u)[u] = expected'[u]
         /\ \A x \in DOMAIN handler[s].resp \ {u} : Appended(s, u)[x] = handler[s].resp[x]
<1>1. handler[s].resp \in PartialFcns(Expected)
  BY DEF ServerType, Handler
<1>2. handler[s].resp \in [DOMAIN handler[s].resp -> Expected] /\ DOMAIN handler[s].resp \subseteq Units
  BY <1>1, PartialFcn
<1>3. Appended(s, u) \in [DOMAIN handler[s].resp \cup {u} -> Expected]
  BY <1>2 DEF Appended
<1>4. DOMAIN Appended(s, u) = DOMAIN handler[s].resp \cup {u}
  BY DEF Appended
<1>5. Appended(s, u) \in PartialFcns(Expected)
  BY <1>2, <1>3, <1>4, PartialFcn
<1>6. QED BY <1>4, <1>5 DEF Appended

-----------------------------------------------------------------------------
(* The handlers *)

\* What every step of a handler keeps.
HandlerInv == ManagerType /\ ServerType /\ MutexInv
HandlerStep(s) ==
  /\ HandlerInv'
  /\ \A t \in Streams : t # s => handler'[t] = handler[t] /\ down'[t] = down[t]

LEMMA RecvStep ==
  ASSUME HandlerInv, NEW s \in Streams, Recv(s) PROVE HandlerStep(s)
<1> DEFINE h == [handler[s] EXCEPT !.pc = "lock", !.report = up[s]]
<1>1. handler[s] \in Handler /\ up[s] \in PartialFcns(UnitStates)
  BY DEF HandlerInv, ServerType, Recv
<1>2. h \in Handler /\ h.pc = "lock"
  BY <1>1 DEF Handler
<1>3. Goes(s, h) /\ ServerType
  BY DEF Recv, HandlerInv
<1> HIDE DEF h
<1>4. /\ handler' \in [Streams -> Handler] /\ handler'[s].pc = "lock"
      /\ \A t \in Streams : t # s => handler'[t] = handler[t]
  BY <1>2, <1>3, GoesOnlyThere
<1>5. up' \in [Streams -> {None} \cup PartialFcns(UnitStates)] /\ UNCHANGED <<managerVars, mut, link, down>>
  BY DEF Recv, HandlerInv, ServerType
<1>6. ManagerType'
  BY <1>5 DEF HandlerInv, ManagerType
<1>7. ServerType'
  BY <1>4, <1>5 DEF HandlerInv, ServerType
<1>8. MutexInv'
  BY <1>4, <1>5 DEF HandlerInv, MutexInv
<1>9. QED BY <1>4, <1>5, <1>6, <1>7, <1>8 DEF HandlerStep, HandlerInv

LEMMA RecvFailsStep ==
  ASSUME HandlerInv, NEW s \in Streams, RecvFails(s) PROVE HandlerStep(s)
<1>1. Goes(s, Idle) /\ ServerType
  BY DEF RecvFails, HandlerInv
<1>2. /\ handler' \in [Streams -> Handler] /\ handler'[s] = Idle
      /\ \A t \in Streams : t # s => handler'[t] = handler[t]
  BY <1>1, IdleType, GoesOnlyThere
<1>3. up' \in [Streams -> {None} \cup PartialFcns(UnitStates)] /\ UNCHANGED <<managerVars, mut, link, down>>
  BY DEF RecvFails, HandlerInv, ServerType
<1>4. ManagerType'
  BY <1>3 DEF HandlerInv, ManagerType
<1>5. ServerType'
  BY <1>2, <1>3 DEF HandlerInv, ServerType
<1>6. Idle.pc = "off"
  BY DEF Idle
<1>7. MutexInv'
  BY <1>2, <1>3, <1>6 DEF HandlerInv, MutexInv
<1>8. QED BY <1>2, <1>3, <1>4, <1>5, <1>7 DEF HandlerStep, HandlerInv

LEMMA LockStep ==
  ASSUME HandlerInv, NEW s \in Streams, Lock(s) PROVE HandlerStep(s)
<1> DEFINE h == [handler[s] EXCEPT !.pc = "look", !.at = 1, !.resp = <<>>]
<1>1. handler[s] \in Handler /\ <<>> \in PartialFcns(Expected)
  BY EmptyFcn DEF HandlerInv, ServerType
<1>2. h \in Handler /\ h.pc = "look"
  BY <1>1 DEF Handler
<1>3. Goes(s, h) /\ ServerType
  BY DEF Lock, HandlerInv
<1> HIDE DEF h
<1>4. /\ handler' \in [Streams -> Handler] /\ handler'[s].pc = "look"
      /\ \A t \in Streams : t # s => handler'[t] = handler[t]
  BY <1>2, <1>3, GoesOnlyThere
<1>5. mut = 0 /\ mut' = s /\ UNCHANGED <<managerVars, link, up, down>>
  BY DEF Lock
<1>6. ManagerType'
  BY <1>5 DEF HandlerInv, ManagerType
<1>7. ServerType'
  BY <1>4, <1>5, ConstantFacts DEF HandlerInv, ServerType, Streams
<1>8. \A t \in Streams : handler[t].pc \notin {"look", "decide"}
  BY <1>5, ConstantFacts DEF HandlerInv, MutexInv, Streams
<1>9. MutexInv'
  BY <1>4, <1>5, <1>8 DEF MutexInv
<1>10. QED BY <1>4, <1>5, <1>6, <1>7, <1>9 DEF HandlerStep, HandlerInv

\* Whoever leaves Checkin had the mutex.
LEMMA UnlockStep ==
  ASSUME HandlerInv, NEW s \in Streams, NEW resp \in PartialFcns(Expected),
         handler[s].pc = "look", Unlock(s, resp)
  PROVE  HandlerStep(s)
<1>1. /\ handler' \in [Streams -> Handler] /\ mut' = 0
      /\ handler'[s].pc = "send" /\ handler'[s].resp = resp
      /\ \A t \in Streams : t # s => handler'[t] = handler[t]
      /\ UNCHANGED <<managerVars, link, up, down>>
  BY UnlockType DEF HandlerInv
<1>2. ManagerType'
  BY <1>1 DEF HandlerInv, ManagerType
<1>3. ServerType'
  BY <1>1, ConstantFacts DEF HandlerInv, ServerType
<1>4. \A t \in Streams : t # s => handler[t].pc \notin {"look", "decide"}
  BY DEF HandlerInv, MutexInv
<1>5. MutexInv'
  BY <1>1, <1>4 DEF MutexInv
<1>6. QED BY <1>1, <1>2, <1>3, <1>5 DEF HandlerStep, HandlerInv

LEMMA StartupConfigStep ==
  ASSUME HandlerInv, NEW s \in Streams, StartupConfig(s) PROVE HandlerStep(s)
<1> DEFINE resp == [u \in {x \in Units : StartPasses(x)} |-> expected[u]]
<1>1. \A u \in Units : expected[u] \in Expected
  BY ExpectedType DEF HandlerInv
<1>2. DOMAIN resp \subseteq Units /\ resp \in [DOMAIN resp -> Expected]
  BY <1>1
<1>3. handler[s].pc = "look" /\ Unlock(s, resp)
  BY DEF StartupConfig
<1> HIDE DEF resp
<1>4. resp \in PartialFcns(Expected)
  BY <1>2, PartialFcn
<1>5. QED BY <1>3, <1>4, UnlockStep

LEMMA ReturnStep ==
  ASSUME HandlerInv, NEW s \in Streams, Return(s) PROVE HandlerStep(s)
<1>1. handler[s].resp \in PartialFcns(Expected)
  BY DEF HandlerInv, ServerType, Handler
<1>2. handler[s].pc = "look" /\ Unlock(s, handler[s].resp)
  BY DEF Return
<1>3. QED BY <1>1, <1>2, UnlockStep

LEMMA LookStep ==
  ASSUME HandlerInv, NEW s \in Streams, Look(s) PROVE HandlerStep(s)
<1> DEFINE h == [handler[s] EXCEPT !.pc = "decide", !.saw = done[handler[s].at]]
<1>1. handler[s] \in Handler /\ handler[s].at \in Units /\ done[handler[s].at] \in BOOLEAN
  BY DEF HandlerInv, ServerType, ManagerType, Look
<1>2. h \in Handler /\ h.at = handler[s].at /\ h.saw = done[handler[s].at]
  BY <1>1 DEF Handler
<1>3. Goes(s, h) /\ ServerType
  BY DEF Look, HandlerInv
<1> HIDE DEF h
<1>4. /\ handler' \in [Streams -> Handler] /\ handler'[s] = h
      /\ \A t \in Streams : t # s => handler'[t] = handler[t]
  BY <1>2, <1>3, GoesOnlyThere
<1>5. UNCHANGED <<managerVars, mut, link, up, down>> /\ mut = s
  BY DEF Look, HandlerInv, MutexInv
<1>6. ManagerType'
  BY <1>5 DEF HandlerInv, ManagerType
<1>7. ServerType'
  BY <1>4, <1>5 DEF HandlerInv, ServerType
<1>8. MutexInv'
  <2>1. handler'[s].at \in Units /\ handler'[s].saw = done'[handler'[s].at]
    BY <1>1, <1>2, <1>4, <1>5
  <2>2. QED BY <1>4, <1>5, <2>1 DEF HandlerInv, MutexInv
<1>9. QED BY <1>4, <1>5, <1>6, <1>7, <1>8 DEF HandlerStep, HandlerInv

\* Going on to the next unit with the units as they are.
LEMMA GoOnStep ==
  ASSUME HandlerInv, NEW s \in Streams, NEW resp \in PartialFcns(Expected),
         handler[s].pc = "decide", NextUnit(s, resp), UNCHANGED <<managerVars, mut, link, up, down>>
  PROVE  HandlerStep(s)
<1>1. /\ handler' \in [Streams -> Handler] /\ handler'[s].pc = "look"
      /\ \A t \in Streams : t # s => handler'[t] = handler[t]
  BY NextUnitType DEF HandlerInv
<1>2. ManagerType'
  BY DEF HandlerInv, ManagerType
<1>3. ServerType'
  BY <1>1 DEF HandlerInv, ServerType
<1>4. mut' = s
  BY DEF HandlerInv, MutexInv
<1>5. MutexInv'
  BY <1>1, <1>4 DEF HandlerInv, MutexInv
<1>6. QED BY <1>1, <1>2, <1>3, <1>5 DEF HandlerStep, HandlerInv

LEMMA LeaveOutStep ==
  ASSUME HandlerInv, NEW s \in Streams, LeaveOut(s) PROVE HandlerStep(s)
<1>1. handler[s].resp \in PartialFcns(Expected)
  BY DEF HandlerInv, ServerType, Handler
<1>2. /\ handler[s].pc = "decide" /\ NextUnit(s, handler[s].resp)
      /\ UNCHANGED <<managerVars, mut, link, up, down>>
  BY DEF LeaveOut
<1>3. QED BY <1>1, <1>2, GoOnStep

LEMMA AppendStep ==
  ASSUME HandlerInv, NEW s \in Streams, Append(s) PROVE HandlerStep(s)
<1>1. handler[s].pc = "decide" /\ handler[s].at \in Units
  BY DEF HandlerInv, MutexInv, Append
<1>2. /\ NextUnit(s, Appended(s, handler[s].at))
      /\ UNCHANGED <<managerVars, mut, link, up, down>>
  BY DEF Append
<1>3. expected'[handler[s].at] \in Expected
  BY <1>1, <1>2, ExpectedType DEF HandlerInv
<1>4. Appended(s, handler[s].at) \in PartialFcns(Expected)
  BY <1>1, <1>3, AppendedType DEF HandlerInv
<1>5. QED BY <1>1, <1>2, <1>4, GoOnStep

\* The unit was not done: its index goes from 0 to 1, once.
LEMMA AskToStopUnits ==
  ASSUME HandlerInv, NEW s \in Streams, AskToStop(s)
  PROVE  /\ handler[s].at \in Units /\ mut = s /\ ManagerType'
         /\ done' = [done EXCEPT ![handler[s].at] = TRUE]
         /\ \A u \in Units : u # handler[s].at => done'[u] = done[u] /\ expected'[u] = expected[u]
<1> DEFINE u == handler[s].at
<1>1. u \in Units /\ mut = s /\ handler[s].saw = done[u] /\ ~handler[s].saw
  BY DEF HandlerInv, MutexInv, AskToStop, WantsStop
<1>2. done' = [done EXCEPT ![u] = TRUE] /\ UNCHANGED passed
  BY DEF AskToStop
<1>3. expected' = [expected EXCEPT ![u].state = "STOPPED", ![u].idx = @ + 1]
  BY DEF AskToStop
<1>4. done \in [Units -> BOOLEAN] /\ expected = [x \in Units |-> ExpectedOf(done[x])]
  BY DEF HandlerInv, ManagerType
<1>5. ~done[u]
  BY <1>1
<1>6. expected[u] = [state |-> "HEALTHY", idx |-> 0]
  BY <1>1, <1>4, <1>5 DEF ExpectedOf
<1> HIDE DEF u
<1>7. expected' = [expected EXCEPT ![u] = [state |-> "STOPPED", idx |-> 1]]
  <2> DEFINE n == expected[u].idx + 1
  <2>1. n = 1
    BY <1>6
  <2>2. expected' = [expected EXCEPT ![u].state = "STOPPED", ![u].idx = n]
    BY <1>3
  <2> HIDE DEF n
  <2>3. expected' = [expected EXCEPT ![u] = [expected[u] EXCEPT !.state = "STOPPED", !.idx = 1]]
    BY <1>1, <1>4, <2>1, <2>2
  <2> DEFINE e == [expected[u] EXCEPT !.state = "STOPPED", !.idx = 1]
  <2>4. expected[u] \in [state : {"HEALTHY", "STOPPED"}, idx : {0, 1}]
    BY <1>6
  <2>5. e \in [state : {"HEALTHY", "STOPPED"}, idx : {0, 1}] /\ e.state = "STOPPED" /\ e.idx = 1
    BY <2>4
  <2>6. expected' = [expected EXCEPT ![u] = e]
    BY <2>3
  <2> HIDE DEF e
  <2>7. e = [state |-> "STOPPED", idx |-> 1]
    BY <2>5
  <2>8. QED BY <2>6, <2>7
<1>8. \A x \in Units : x # u => done'[x] = done[x] /\ expected'[x] = expected[x]
  BY <1>2, <1>4, <1>7
<1>9. done'[u] /\ expected'[u] = ExpectedOf(TRUE)
  BY <1>1, <1>2, <1>4, <1>7 DEF ExpectedOf
<1>10. \A x \in Units : expected'[x] = ExpectedOf(done'[x])
  BY <1>4, <1>8, <1>9 DEF ExpectedOf
<1>11. expected' = [x \in Units |-> ExpectedOf(done'[x])]
  BY <1>4, <1>7, <1>10
<1>12. done' \in [Units -> BOOLEAN]
  BY <1>2, <1>4
<1>13. ManagerType'
  BY <1>2, <1>11, <1>12 DEF HandlerInv, ManagerType
<1>14. QED BY <1>1, <1>2, <1>8, <1>13 DEF u

LEMMA AskToStopStep ==
  ASSUME HandlerInv, NEW s \in Streams, AskToStop(s) PROVE HandlerStep(s)
<1>1. handler[s].at \in Units /\ mut = s /\ ManagerType'
  BY AskToStopUnits
<1>2. expected'[handler[s].at] \in Expected
  BY <1>1, ExpectedOfType
<1>3. Appended(s, handler[s].at) \in PartialFcns(Expected)
  BY <1>1, <1>2, AppendedType DEF HandlerInv
<1>4. NextUnit(s, Appended(s, handler[s].at)) /\ UNCHANGED <<mut, link, up, down>>
  BY DEF AskToStop
<1>5. /\ handler' \in [Streams -> Handler] /\ handler'[s].pc = "look"
      /\ \A t \in Streams : t # s => handler'[t] = handler[t]
  BY <1>3, <1>4, NextUnitType DEF HandlerInv
<1>6. ServerType'
  BY <1>4, <1>5 DEF HandlerInv, ServerType
<1>7. \A t \in Streams : t # s => handler[t].pc \notin {"look", "decide"}
  BY <1>1 DEF HandlerInv, MutexInv
<1>8. MutexInv'
  BY <1>1, <1>4, <1>5, <1>7 DEF MutexInv
<1>9. QED BY <1>1, <1>4, <1>5, <1>6, <1>8 DEF HandlerStep, HandlerInv

\* What is sent is a message, however torn.
LEMMA EncodingType ==
  ASSUME HandlerInv, NEW s \in Streams, NEW m \in Encodings(handler[s].resp)
  PROVE  m \in PartialFcns(Expected) /\ DOMAIN m = DOMAIN handler[s].resp
<1>1. handler[s].resp \in PartialFcns(Expected)
  BY DEF HandlerInv, ServerType, Handler
<1>2. DOMAIN handler[s].resp \subseteq Units
  BY <1>1, PartialFcn
<1>3. m \in [DOMAIN handler[s].resp -> Expected]
  BY DEF Encodings
<1>4. QED BY <1>2, <1>3, PartialFcn

LEMMA SendStep ==
  ASSUME HandlerInv, NEW s \in Streams, Send(s) PROVE HandlerStep(s)
<1>1. PICK m \in Encodings(handler[s].resp) : down' = [down EXCEPT ![s] = m]
  BY DEF Send
<1>2. m \in PartialFcns(Expected)
  BY EncodingType
<1>3. Goes(s, [Idle EXCEPT !.pc = "recv"]) /\ UNCHANGED <<managerVars, mut, link, up>> /\ ServerType
  BY DEF Send, HandlerInv
<1>4. /\ handler' \in [Streams -> Handler] /\ handler'[s] = [Idle EXCEPT !.pc = "recv"]
      /\ \A t \in Streams : t # s => handler'[t] = handler[t]
  BY <1>3, IdleType, GoesOnlyThere
<1>5. handler'[s].pc = "recv"
  BY <1>4 DEF Idle
<1>6. /\ down' \in [Streams -> {None} \cup PartialFcns(Expected)]
      /\ \A t \in Streams : t # s => down'[t] = down[t]
  BY <1>1, <1>2 DEF HandlerInv, ServerType
<1>7. ManagerType'
  BY <1>3 DEF HandlerInv, ManagerType
<1>8. ServerType'
  BY <1>3, <1>4, <1>6 DEF ServerType
<1>9. MutexInv'
  BY <1>3, <1>4, <1>5 DEF HandlerInv, MutexInv
<1>10. QED BY <1>4, <1>6, <1>7, <1>8, <1>9 DEF HandlerStep, HandlerInv

LEMMA SendFailsStep ==
  ASSUME HandlerInv, NEW s \in Streams, SendFails(s) PROVE HandlerStep(s)
<1>1. Goes(s, Idle) /\ UNCHANGED <<managerVars, mut, up, down>> /\ ServerType
  BY DEF SendFails, HandlerInv
<1>2. link' \in [Streams -> {"none", "open", "closed"}]
  BY DEF SendFails, HandlerInv, ServerType
<1>3. /\ handler' \in [Streams -> Handler] /\ handler'[s] = Idle
      /\ \A t \in Streams : t # s => handler'[t] = handler[t]
  BY <1>1, IdleType, GoesOnlyThere
<1>4. Idle.pc = "off"
  BY DEF Idle
<1>5. ManagerType'
  BY <1>1 DEF HandlerInv, ManagerType
<1>6. ServerType'
  BY <1>1, <1>2, <1>3 DEF ServerType
<1>7. MutexInv'
  BY <1>1, <1>3, <1>4 DEF HandlerInv, MutexInv
<1>8. QED BY <1>1, <1>3, <1>5, <1>6, <1>7 DEF HandlerStep, HandlerInv

LEMMA StepHandle ==
  ASSUME HandlerInv, NEW s \in Streams, Handle(s) PROVE HandlerStep(s) /\ handler[s].pc # "off"
<1>1. HandlerStep(s)
  BY RecvStep, RecvFailsStep, LockStep, StartupConfigStep, LookStep, LeaveOutStep, AppendStep,
     AskToStopStep, ReturnStep, SendStep, SendFailsStep DEF Handle
<1>2. handler[s].pc # "off"
  BY DEF Handle, Recv, RecvFails, Lock, StartupConfig, Look, LeaveOut, Append, AskToStop, Return,
     Send, SendFails
<1>3. QED BY <1>1, <1>2

-----------------------------------------------------------------------------
(* The client                                                                *)

LEMMA ConnectStep == IInv /\ Connect => IInv'
<1> SUFFICES ASSUME IInv, Connect PROVE IInv'
  OBVIOUS
<1> USE ConstantFacts DEF IInv
<1> DEFINE h == [Idle EXCEPT !.pc = "recv"]
<1>1. stream' = stream + 1 /\ stream' \in Streams /\ stream \in 0..NumStreams /\ stream' \in 0..NumStreams
  BY DEF Connect, ClientType, Streams
<1>2. h \in Handler /\ h.pc = "recv"
  BY IdleType DEF Idle
<1>3. link' = [link EXCEPT ![stream'] = "open"] /\ handler' = [handler EXCEPT ![stream'] = h]
  BY DEF Connect
<1>4. UNCHANGED <<managerVars, mut, up, down, told, reports, stopped, events>>
  BY DEF Connect
<1> HIDE DEF h
<1>5. /\ handler' \in [Streams -> Handler] /\ handler'[stream'] = h
      /\ \A t \in Streams : t # stream' => handler'[t] = handler[t]
  BY <1>1, <1>2, <1>3 DEF ServerType
<1>6. ServerType'
  BY <1>1, <1>3, <1>4, <1>5 DEF ServerType
<1>7. ManagerType' /\ ClientType'
  BY <1>1, <1>4 DEF ManagerType, ClientType
<1>8. MutexInv'
  BY <1>2, <1>4, <1>5 DEF MutexInv
<1>9. UnusedInv'
  BY <1>1, <1>4, <1>5 DEF UnusedInv, Streams
<1>10. QED BY <1>6, <1>7, <1>8, <1>9

LEMMA ApplyStep == IInv /\ Apply => IInv'
<1> SUFFICES ASSUME IInv, Apply PROVE IInv'
  OBVIOUS
<1> USE DEF IInv
<1>1. stream \in Streams /\ down[stream] # None
  BY DEF Apply, Connected, ClientType, Streams
<1>2. told' = down[stream] /\ down[stream] \in PartialFcns(Expected)
  BY <1>1 DEF Apply, ServerType
<1>3. DOMAIN told' \subseteq Units /\ told' \in PartialFcns(Expected)
  BY <1>2, PartialFcn
<1>4. stopped' \subseteq Units
  BY <1>3 DEF Apply, ClientType
<1>5. reports' \in [DOMAIN told' -> UnitStates]
  BY DEF Apply, ClientType, UnitStates
<1>6. UNCHANGED <<managerVars, mut, handler, link, up, stream, events>>
  BY DEF Apply
<1>7. down' = [down EXCEPT ![stream] = None]
  BY DEF Apply
<1>8. ServerType'
  BY <1>6, <1>7 DEF ServerType
<1>9. ManagerType' /\ ClientType' /\ MutexInv'
  BY <1>3, <1>4, <1>5, <1>6 DEF ManagerType, ClientType, MutexInv
<1>10. UnusedInv'
  BY <1>1, <1>6, <1>7 DEF UnusedInv, ServerType
<1>11. QED BY <1>8, <1>9, <1>10

LEMMA ReportStep == IInv /\ Report => IInv'
<1> SUFFICES ASSUME IInv, Report PROVE IInv'
  OBVIOUS
<1> USE DEF IInv
<1>1. told \in PartialFcns(Expected) /\ reports \in [DOMAIN told -> UnitStates]
  BY DEF ClientType
<1>2. DOMAIN told \subseteq Units
  BY <1>1, PartialFcn
<1>3. reports \in PartialFcns(UnitStates)
  BY <1>1, <1>2, PartialFcn
<1>4. up' \in [Streams -> {None} \cup PartialFcns(UnitStates)]
  BY <1>3 DEF Report, ServerType
<1>5. UNCHANGED <<managerVars, mut, handler, link, down, stream, told, reports, stopped, events>>
  BY DEF Report
<1>6. QED BY <1>4, <1>5 DEF ManagerType, ServerType, ClientType, MutexInv, UnusedInv

LEMMA StreamLostStep == IInv /\ StreamLost => IInv'
<1> SUFFICES ASSUME IInv, StreamLost PROVE IInv'
  OBVIOUS
<1> USE ConstantFacts DEF IInv
<1>1. UNCHANGED <<managerVars, mut, handler, stream, told, reports, stopped>>
  BY DEF StreamLost
<1>2. events' \in 0..MaxEvents
  BY DEF StreamLost, ClientType
<1>3. link' \in [Streams -> {"none", "open", "closed"}] /\ up' \in [Streams -> {None} \cup PartialFcns(UnitStates)]
  BY DEF StreamLost, ServerType
<1>4. down' = [down EXCEPT ![stream] = None]
  BY DEF StreamLost
<1>5. ServerType'
  BY <1>1, <1>3, <1>4 DEF ServerType
<1>6. ManagerType' /\ ClientType' /\ MutexInv'
  BY <1>1, <1>2 DEF ManagerType, ClientType, MutexInv
<1>7. UnusedInv'
  BY <1>1, <1>4 DEF UnusedInv, ServerType
<1>8. QED BY <1>5, <1>6, <1>7

LEMMA UnitStep ==
  ASSUME IInv, NEW u \in Units, UnitStops(u) \/ UnitChanges(u) PROVE IInv'
<1> USE ConstantFacts DEF IInv
<1>1. UNCHANGED <<managerVars, mut, handler, link, up, down, stream, told, stopped>>
  BY DEF UnitStops, UnitChanges
<1>2. reports \in [DOMAIN told -> UnitStates] /\ "STOPPED" \in UnitStates
  BY DEF ClientType, UnitStates
<1>3. PICK st \in UnitStates : reports' = [reports EXCEPT ![u] = st]
  BY <1>2 DEF UnitStops, UnitChanges
<1>4. reports' \in [DOMAIN told -> UnitStates]
  BY <1>2, <1>3
<1>5. events' \in 0..MaxEvents
  BY DEF UnitStops, UnitChanges, ClientType
<1>6. QED BY <1>1, <1>4, <1>5 DEF ManagerType, ServerType, ClientType, MutexInv, UnusedInv

\* What is left of the handlers once the client and Run are as they were.
LEMMA StepServer ==
  ASSUME IInv, NEW s \in Streams, Handle(s), Serve PROVE IInv'
<1>1. HandlerStep(s) /\ handler[s].pc # "off"
  BY StepHandle DEF IInv, HandlerInv
<1>2. UNCHANGED clientVars
  BY DEF Serve
<1>3. ClientType'
  BY <1>2 DEF IInv, ClientType
<1>4. Idle.pc = "off"
  BY DEF Idle
<1>5. ~(s > stream)
  BY <1>1, <1>4 DEF IInv, UnusedInv
<1>6. UnusedInv'
  BY <1>1, <1>2, <1>5 DEF IInv, UnusedInv, HandlerStep
<1>7. QED BY <1>1, <1>3, <1>6 DEF IInv, HandlerStep, HandlerInv

LEMMA InitInv == Init => IInv /\ RunInv /\ StopInv
<1> SUFFICES ASSUME Init PROVE IInv /\ RunInv /\ StopInv
  OBVIOUS
<1> USE ConstantFacts DEF Init, ManagerInit
<1>1. ManagerType
  BY DEF ManagerType, ExpectedOf
<1>2. ServerType
  BY IdleType DEF ServerType
<1>3. ClientType
  <2>1. told = <<>> /\ reports = <<>>
    OBVIOUS
  <2>2. told \in PartialFcns(Expected)
    BY <2>1, EmptyFcn
  <2>3. reports \in [DOMAIN told -> UnitStates]
    BY <2>1
  <2>4. QED BY <2>2, <2>3 DEF ClientType
<1>4. Idle.pc = "off"
  BY DEF Idle
<1>5. MutexInv /\ UnusedInv
  BY <1>4 DEF MutexInv, UnusedInv
<1>6. RunInv
  BY DEF RunInv
<1>7. StopInv
  BY DEF StopInv
<1>8. QED BY <1>1, <1>2, <1>3, <1>5, <1>6, <1>7 DEF IInv

LEMMA StepInv == IInv /\ [Next]_vars => IInv'
<1> SUFFICES ASSUME IInv, [Next]_vars PROVE IInv'
  OBVIOUS
<1>1. CASE Run
  BY <1>1 DEF IInv, ManagerType, ServerType, ClientType, MutexInv, UnusedInv, Run, LoadConfig, StartInputProcess,
     NewToolServer, StartServer, writeConnInfo, WriteToClient, WaitForClientClose, Fails
<1>2. ASSUME NEW s \in Streams, Handle(s), Serve PROVE IInv'
  BY <1>2, StepServer
<1>3. ASSUME NEW u \in Units, NEW which \in {"start", "stop"}, Elapses(u, which), TimePasses PROVE IInv'
  <2>1. UNCHANGED <<done, expected, serverVars, clientVars>> /\ passed' = passed \cup {<<u, which>>}
    BY <1>3 DEF Elapses, TimePasses
  <2>2. passed' \subseteq Units \X {"start", "stop"}
    BY <1>3, <2>1 DEF IInv, ManagerType
  <2>3. QED BY <2>1, <2>2 DEF IInv, ManagerType, ServerType, ClientType, MutexInv, UnusedInv
<1>4. CASE ReadInfo
  BY <1>4 DEF IInv, ManagerType, ServerType, ClientType, MutexInv, UnusedInv, ReadInfo
<1>5. CASE ClientEnds
  BY <1>5 DEF IInv, ManagerType, ServerType, ClientType, MutexInv, UnusedInv, ClientEnds
<1>6. ASSUME NEW u \in Units, UnitStops(u) \/ UnitChanges(u) PROVE IInv'
  BY <1>6, UnitStep
<1>7. CASE UNCHANGED vars
  BY <1>7 DEF vars, IInv, ManagerType, ServerType, ClientType, MutexInv, UnusedInv
<1>8. QED BY <1>1, <1>2, <1>3, <1>4, <1>5, <1>6, <1>7, ConnectStep, ReportStep, ApplyStep, StreamLostStep
       DEF Next, Terminated

LEMMA SpecInv == Spec => []IInv
<1>1. Init => IInv
  BY InitInv
<1>2. QED BY <1>1, StepInv, PTL DEF Spec

LEMMA TypeFollows == IInv => TypeOK
<1> SUFFICES ASSUME IInv PROVE TypeOK
  OBVIOUS
<1>1. \A u \in Units : expected[u] = IF done[u] THEN [state |-> "STOPPED", idx |-> 1]
                                     ELSE [state |-> "HEALTHY", idx |-> 0]
  BY DEF IInv, ManagerType, ExpectedOf
<1>2. \A s \in Streams : /\ link[s] \in {"none", "open", "closed"}
                         /\ up[s] \in {None} \cup PartialFcns(UnitStates)
                         /\ down[s] \in {None} \cup PartialFcns(Expected)
                         /\ handler[s].pc \in {"off", "recv", "lock", "look", "decide", "send"}
  BY DEF IInv, ServerType, Handler
<1>3. QED BY <1>1, <1>2 DEF IInv, ManagerType, ServerType, ClientType, TypeOK

\* Every variable of the tool has its type, and at any time, whoever is in
\* Checkin or sends without the mutex, what is expected of a unit is that it
\* stops with index 1 if its done flag is set, and that it is healthy with
\* index 0 if not (manager.go:172-178).
THEOREM TypeCorrect == Spec => []TypeOK
BY SpecInv, TypeFollows, PTL

-----------------------------------------------------------------------------
(* Run *)

LEMMA StepRun == RunInv /\ [Next]_vars => RunInv'
<1> SUFFICES ASSUME RunInv, [Next]_vars PROVE RunInv'
  OBVIOUS
<1> USE DEF RunInv
<1>1. CASE Run
  BY <1>1 DEF Run, LoadConfig, StartInputProcess, NewToolServer, StartServer, writeConnInfo, WriteToClient,
     WaitForClientClose, Fails
<1>2. CASE (\E s \in Streams : Handle(s) /\ Serve) \/ Terminated \/ UNCHANGED vars
  BY <1>2 DEF Serve, Terminated, vars
<1>3. CASE \E u \in Units, which \in {"start", "stop"} : Elapses(u, which) /\ TimePasses
  BY <1>3 DEF TimePasses
<1>4. CASE ReadInfo \/ ClientEnds \/ Connect \/ Report \/ Apply \/ StreamLost
  BY <1>4 DEF ReadInfo, ClientEnds, Connect, Report, Apply, StreamLost
<1>5. CASE \E u \in Units : UnitStops(u) \/ UnitChanges(u)
  BY <1>5 DEF UnitStops, UnitChanges
<1>6. QED BY <1>1, <1>2, <1>3, <1>4, <1>5 DEF Next

\* A client that has its information, and so runs, finds the server listening:
\* Run writes it after StartServer, and the server goes only once Run waits for
\* the client no more (tool.go:80-86).
THEOREM ServerListensFirst == Spec => []ServerFirst
<1>1. Init => RunInv
  BY InitInv
<1>2. RunInv => ServerFirst
  BY DEF RunInv, ServerFirst
<1>3. QED BY <1>1, <1>2, StepRun, PTL DEF Spec

-----------------------------------------------------------------------------
(* Stopping                                                                  *)

\* Done is for good, and nothing that is done is expected to run.
LEMMA DoneStays ==
  ASSUME IInv, NEW s \in Streams, Handle(s), NEW u \in Units, done[u] PROVE done'[u]
<1>1. CASE AskToStop(s)
  <2>1. done' = [done EXCEPT ![handler[s].at] = TRUE]
    BY <1>1, AskToStopUnits DEF IInv, HandlerInv
  <2>2. QED BY <2>1 DEF IInv, ManagerType
<1>2. CASE ~AskToStop(s)
  <2>1. UNCHANGED done
    BY <1>2 DEF Handle, Recv, RecvFails, Lock, StartupConfig, Look, LeaveOut, Append, Return, Send,
       SendFails, Unlock
  <2>2. QED BY <2>1
<1>3. QED BY <1>1, <1>2

LEMMA ExpectedLater ==
  ASSUME ManagerType', NEW u \in Units PROVE expected'[u].state = "STOPPED" <=> done'[u]
<1>1. done'[u] \in BOOLEAN /\ expected'[u] = ExpectedOf(done'[u])
  BY DEF ManagerType
<1>2. CASE done'[u]
  BY <1>1, <1>2 DEF ExpectedOf
<1>3. CASE ~done'[u]
  BY <1>1, <1>3 DEF ExpectedOf
<1>4. QED BY <1>2, <1>3

\* Each unit of a response was in it before, or is as the manager has it now.
Made(s, u) ==
  \/ u \in DOMAIN handler[s].resp /\ handler'[s].resp[u] = handler[s].resp[u]
  \/ handler'[s].resp[u] = expected'[u]

LEMMA AppendedMade ==
  ASSUME HandlerInv, ManagerType', NEW s \in Streams, handler[s].at \in Units,
         NextUnit(s, Appended(s, handler[s].at)), NEW u \in DOMAIN handler'[s].resp
  PROVE  u \in Units /\ Made(s, u)
<1>1. expected'[handler[s].at] \in Expected
  BY ExpectedOfType
<1>2. /\ Appended(s, handler[s].at) \in PartialFcns(Expected)
      /\ DOMAIN Appended(s, handler[s].at) = DOMAIN handler[s].resp \cup {handler[s].at}
      /\ Appended(s, handler[s].at)[handler[s].at] = expected'[handler[s].at]
      /\ \A x \in DOMAIN handler[s].resp \ {handler[s].at} :
           Appended(s, handler[s].at)[x] = handler[s].resp[x]
  BY <1>1, AppendedType DEF HandlerInv
<1>3. handler'[s].resp = Appended(s, handler[s].at)
  BY <1>2, NextUnitType DEF HandlerInv
<1>4. DOMAIN Appended(s, handler[s].at) \subseteq Units
  BY <1>2, PartialFcn
<1>5. CASE u = handler[s].at
  BY <1>2, <1>3, <1>5 DEF Made
<1>6. CASE u # handler[s].at
  BY <1>2, <1>3, <1>4, <1>6 DEF Made
<1>7. QED BY <1>5, <1>6

LEMMA ResponseMade ==
  ASSUME IInv, NEW s \in Streams, Handle(s), NEW u \in DOMAIN handler'[s].resp
  PROVE  u \in Units /\ Made(s, u)
<1>1. HandlerInv /\ HandlerInv' /\ ManagerType' /\ ServerType
  BY StepHandle DEF IInv, HandlerInv, HandlerStep
<1>2. handler[s] \in Handler /\ handler[s].resp \in PartialFcns(Expected) /\ handler' \in [Streams -> Handler]
  BY <1>1 DEF HandlerInv, ServerType, Handler
<1>3. DOMAIN handler[s].resp \subseteq Units
  BY <1>2, PartialFcn
<1>4. handler'[s].resp \in PartialFcns(Expected)
  BY <1>2 DEF Handler
<1>5. u \in Units
  BY <1>4, PartialFcn
<1>6. CASE handler'[s].resp = handler[s].resp
  BY <1>3, <1>6 DEF Made
<1>7. CASE handler'[s].resp = <<>>
  BY <1>7
<1>8. CASE Recv(s) \/ Look(s)
  <2>1. /\ [handler[s] EXCEPT !.pc = "lock", !.report = up[s]].resp = handler[s].resp
        /\ [handler[s] EXCEPT !.pc = "decide", !.saw = done[handler[s].at]].resp = handler[s].resp
    BY <1>2 DEF Handler
  <2>2. handler'[s].resp = handler[s].resp
    BY <1>1, <1>8, <2>1 DEF Recv, Look, Goes, ServerType
  <2>3. QED BY <2>2, <1>6
<1>9. CASE RecvFails(s) \/ Lock(s) \/ Send(s) \/ SendFails(s)
  <2>1. Idle.resp = <<>> /\ [Idle EXCEPT !.pc = "recv"].resp = <<>>
    BY DEF Idle
  <2>2. [handler[s] EXCEPT !.pc = "look", !.at = 1, !.resp = <<>>].resp = <<>>
    BY <1>2 DEF Handler
  <2>3. handler'[s].resp = <<>>
    BY <1>1, <1>9, <2>1, <2>2 DEF RecvFails, Lock, Send, SendFails, Goes, ServerType
  <2>4. QED BY <2>3, <1>7
<1>10. CASE StartupConfig(s)
  <2> DEFINE resp == [x \in {x \in Units : StartPasses(x)} |-> expected[x]]
  <2>1. \A x \in Units : expected[x] \in Expected
    BY ExpectedType DEF IInv
  <2>2. DOMAIN resp \subseteq Units /\ resp \in [DOMAIN resp -> Expected]
    BY <2>1
  <2>3. \A x \in DOMAIN resp : resp[x] = expected[x]
    OBVIOUS
  <2>4. Unlock(s, resp)
    BY <1>10 DEF StartupConfig
  <2> HIDE DEF resp
  <2>5. resp \in PartialFcns(Expected)
    BY <2>2, PartialFcn
  <2>6. handler'[s].resp = resp /\ UNCHANGED managerVars
    BY <1>1, <2>4, <2>5, UnlockType
  <2>7. QED BY <1>5, <2>3, <2>6 DEF Made
<1>11. CASE LeaveOut(s)
  <2>1. handler'[s].resp = handler[s].resp
    BY <1>1, <1>2, <1>11, NextUnitType DEF LeaveOut
  <2>2. QED BY <2>1, <1>6
<1>12. CASE Append(s)
  BY <1>1, <1>12, AppendedMade DEF Append, HandlerInv, MutexInv
<1>13. CASE AskToStop(s)
  BY <1>1, <1>13, AppendedMade DEF AskToStop, HandlerInv, MutexInv
<1>14. CASE Return(s)
  <2>1. Unlock(s, handler[s].resp)
    BY <1>14 DEF Return
  <2>2. handler'[s].resp = handler[s].resp
    BY <1>1, <1>2, <2>1, UnlockType
  <2>3. QED BY <2>2, <1>6
<1>15. QED BY <1>8, <1>9, <1>10, <1>11, <1>12, <1>13, <1>14 DEF Handle

\* What Send puts on the stream: a unit that is done is stopped in it unless the
\* response runs it, and a unit stopped in it is done.
LEMMA SentOf ==
  ASSUME IInv, NEW s \in Streams, NEW m \in Encodings(handler[s].resp), NEW u \in Units,
         Stops(handler[s].resp, u) => done[u]
  PROVE  /\ Stops(m, u) => done[u]
         /\ done[u] /\ ~Runs(handler[s].resp, u) => ~Runs(m, u)
<1>1. DOMAIN m = DOMAIN handler[s].resp
  BY EncodingType DEF IInv, HandlerInv
<1>2. u \in DOMAIN m => m[u].state \in {handler[s].resp[u].state, expected[u].state}
  BY <1>1 DEF Encodings
<1>3. expected[u].state = "STOPPED" <=> done[u]
  BY ExpectedType DEF IInv
<1>4. QED BY <1>1, <1>2, <1>3 DEF Stops, Runs

LEMMA ServerStopStep ==
  ASSUME IInv, StopInv, NEW s \in Streams, Handle(s), Serve PROVE StopInv'
<1>1. HandlerStep(s) /\ ManagerType' /\ UNCHANGED clientVars
  BY StepHandle DEF IInv, HandlerInv, HandlerStep, Serve
<1>2. \A u \in Units : done[u] => done'[u]
  BY DoneStays
<1>3. stopped \subseteq Units
  BY DEF IInv, ClientType
<1>4. \A u \in stopped' : done'[u] /\ ~Runs(told', u)
  BY <1>1, <1>2, <1>3 DEF StopInv, Runs
<1>5. ASSUME stream # 0, NEW u \in Units
      PROVE  /\ Stops(handler'[stream].resp, u) => done'[u]
             /\ u \in stopped => ~Runs(handler'[stream].resp, u)
             /\ down'[stream] # None =>
                  /\ Stops(down'[stream], u) => done'[u] /\ ~Runs(handler'[stream].resp, u)
                  /\ u \in stopped => ~Runs(down'[stream], u)
  <2>1. stream \in Streams
    BY <1>5 DEF IInv, ClientType, Streams
  <2>2. /\ Stops(handler[stream].resp, u) => done[u]
        /\ u \in stopped => done[u] /\ ~Runs(handler[stream].resp, u)
        /\ down[stream] # None =>
             /\ Stops(down[stream], u) => done[u] /\ ~Runs(handler[stream].resp, u)
             /\ u \in stopped => ~Runs(down[stream], u)
    BY <1>5 DEF StopInv
  <2>3. done[u] => done'[u]
    BY <1>2, <1>5
  <2>4. CASE s # stream
    BY <1>1, <2>1, <2>2, <2>3, <2>4 DEF HandlerStep
  <2>5. CASE s = stream /\ ~Send(s)
    <3>1. UNCHANGED down
      BY <2>5 DEF Handle, Recv, RecvFails, Lock, StartupConfig, Look, LeaveOut, Append, AskToStop, Return,
         SendFails, Unlock
    <3>2. u \in DOMAIN handler'[s].resp => Made(s, u)
      BY <2>5, ResponseMade
    <3>3. expected'[u].state = "STOPPED" <=> done'[u]
      BY <1>1, <1>5, ExpectedLater
    <3>4. Stops(handler'[s].resp, u) => done'[u]
      BY <2>2, <2>3, <2>5, <3>2, <3>3 DEF Stops, Made
    <3>5. Runs(handler'[s].resp, u) => Runs(handler[s].resp, u) \/ ~done'[u]
      BY <3>2, <3>3 DEF Runs, Made
    <3>6. QED BY <2>2, <2>3, <2>5, <3>1, <3>4, <3>5
  <2>6. CASE s = stream /\ Send(s)
    <3>1. PICK m \in Encodings(handler[s].resp) : down' = [down EXCEPT ![s] = m]
      BY <2>6 DEF Send
    <3>2. down'[s] = m
      BY <3>1 DEF IInv, ServerType
    <3>3. UNCHANGED done /\ Goes(s, [Idle EXCEPT !.pc = "recv"])
      BY <2>6 DEF Send
    <3>4. handler'[s] = [Idle EXCEPT !.pc = "recv"]
      BY <3>3, IdleType, GoesOnlyThere DEF IInv
    <3>5. handler'[s].resp = <<>>
      BY <3>4 DEF Idle
    <3>6. ~Stops(handler'[s].resp, u) /\ ~Runs(handler'[s].resp, u)
      BY <3>5 DEF Stops, Runs
    <3>7. /\ Stops(m, u) => done[u]
          /\ done[u] /\ ~Runs(handler[s].resp, u) => ~Runs(m, u)
      BY <2>2, <2>6, SentOf
    <3>8. QED BY <2>2, <2>6, <3>2, <3>3, <3>6, <3>7
  <2>7. QED BY <2>4, <2>5, <2>6
<1>6. QED BY <1>1, <1>4, <1>5 DEF StopInv

\* The client knows what it was told; a new stream has no handler and no message
\* yet.
LEMMA ApplyStopStep ==
  ASSUME IInv, StopInv, Apply PROVE StopInv'
<1>1. stream \in Streams /\ stream # 0 /\ down[stream] # None
  BY DEF Apply, Connected, IInv, ClientType, Streams
<1>2. /\ told' = down[stream] /\ down'[stream] = None /\ UNCHANGED <<done, handler, stream>>
      /\ stopped' = stopped \cup {u \in DOMAIN told' : told'[u].state = "STOPPED"}
  BY <1>1 DEF Apply, IInv, ServerType
<1>3. DOMAIN told' \subseteq Units /\ stopped \subseteq Units
  BY <1>1, <1>2, PartialFcn DEF IInv, ServerType, ClientType
<1>4. ASSUME NEW u \in stopped' PROVE u \in Units /\ (u \in stopped \/ Stops(down[stream], u))
  BY <1>2, <1>3, <1>4 DEF Stops
<1>5. \A u \in Units : /\ Stops(handler[stream].resp, u) => done[u]
                       /\ u \in stopped => done[u] /\ ~Runs(handler[stream].resp, u)
                       /\ Stops(down[stream], u) => done[u] /\ ~Runs(handler[stream].resp, u)
                       /\ u \in stopped => ~Runs(down[stream], u)
  BY <1>1 DEF StopInv
<1>6. \A u \in Units : Stops(down[stream], u) => ~Runs(down[stream], u)
  BY DEF Stops, Runs
<1>7. \A u \in stopped' : done'[u] /\ ~Runs(told', u) /\ ~Runs(handler'[stream'].resp, u)
  BY <1>2, <1>4, <1>5, <1>6
<1>8. QED BY <1>1, <1>2, <1>5, <1>7 DEF StopInv

LEMMA ConnectStopStep ==
  ASSUME IInv, StopInv, Connect PROVE StopInv'
<1>1. stream' = stream + 1 /\ stream' \in Streams /\ stream' > stream
  BY ConstantFacts DEF Connect, IInv, ClientType, Streams
<1>2. UNCHANGED <<done, told, stopped, down>>
  BY DEF Connect
<1>3. down[stream'] = None
  BY <1>1 DEF IInv, UnusedInv
<1>4. handler'[stream'] = [Idle EXCEPT !.pc = "recv"]
  BY <1>1 DEF Connect, IInv, ServerType
<1>5. handler'[stream'].resp = <<>>
  BY <1>4 DEF Idle
<1>6. \A u \in Units : ~Stops(handler'[stream'].resp, u) /\ ~Runs(handler'[stream'].resp, u)
  BY <1>5 DEF Stops, Runs
<1>7. QED BY <1>2, <1>3, <1>6 DEF StopInv

LEMMA StepStop == IInv /\ StopInv /\ [Next]_vars => StopInv'
<1> SUFFICES ASSUME IInv, StopInv, [Next]_vars PROVE StopInv'
  OBVIOUS
<1>1. CASE Run
  BY <1>1 DEF StopInv, Run, LoadConfig, StartInputProcess, NewToolServer, StartServer, writeConnInfo,
     WriteToClient, WaitForClientClose, Fails
<1>2. ASSUME NEW s \in Streams, Handle(s), Serve PROVE StopInv'
  BY <1>2, ServerStopStep
<1>3. ASSUME NEW u \in Units, NEW which \in {"start", "stop"}, Elapses(u, which), TimePasses PROVE StopInv'
  BY <1>3 DEF Elapses, TimePasses, StopInv
<1>4. CASE StreamLost
  <2>1. stream # 0 => stream \in Streams
    BY DEF IInv, ClientType, Streams
  <2>2. down' = [down EXCEPT ![stream] = None] /\ UNCHANGED <<done, handler, stream, told, stopped>>
    BY <1>4 DEF StreamLost
  <2>3. stream # 0 => down'[stream] = None
    BY <2>1, <2>2 DEF IInv, ServerType
  <2>4. QED BY <2>2, <2>3 DEF StopInv
<1>5. CASE ReadInfo \/ ClientEnds \/ Report \/ UNCHANGED vars
  BY <1>5 DEF vars, ReadInfo, ClientEnds, Report, StopInv
<1>6. ASSUME NEW u \in Units, UnitStops(u) \/ UnitChanges(u) PROVE StopInv'
  BY <1>6 DEF UnitStops, UnitChanges, StopInv
<1>7. QED BY <1>1, <1>2, <1>3, <1>4, <1>5, <1>6, ConnectStopStep, ApplyStopStep DEF Next, Terminated

\* A client that was once told to stop a unit is never told to run it again,
\* however many streams it opens, whatever it reports on them, and whichever unit
\* another handler stops while a response is encoded (manager.go:150, 174-178).
THEOREM StopForGood == Spec => []StopIsFinal
<1>1. Init => IInv /\ StopInv
  BY InitInv
<1>2. StopInv /\ IInv => StopIsFinal
  BY DEF StopInv, StopIsFinal, Runs
<1>3. IInv /\ StopInv /\ [Next]_vars => IInv' /\ StopInv'
  BY StepInv, StepStop
<1>4. QED BY <1>1, <1>2, <1>3, PTL DEF Spec
=============================================================================
