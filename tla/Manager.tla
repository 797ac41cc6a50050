------------------------------ MODULE Manager ------------------------------
(***************************************************************************)
(* The InputManager of v2tool (dev-tools/v2tool/manager/manager.go) with   *)
(* its rules, as the check-in handler of the stub server calls it: one     *)
(* handler per stream, Checkin under the mutex of NewToolServer, and Send  *)
(* outside of it, of a response that points to the manager's own units.    *)
(***************************************************************************)
EXTENDS Naturals

CONSTANTS
  NumUnits,   \* units of the configuration, in its order
  NumStreams, \* bound: check-in streams the client opens
  RuleSets,   \* the rules of the units: the configurations considered
  None

Units == 1..NumUnits
Streams == 1..NumStreams

VARIABLES
  rules,    \* unit -> its start and its stop rule, "OnStart" or "After"
  passed,   \* the After rules whose time is over
  done,     \* unit -> it was asked to stop
  expected, \* unit -> State and ConfigStateIdx of its UnitExpected
  mut,      \* the mutex of NewToolServer: the stream that holds it, or 0
  handler,  \* stream -> the goroutine of its CheckinV2
  link,     \* stream -> "none", "open" or "closed"
  up, down  \* stream -> the report, the response on it, or None

managerVars == <<rules, passed, done, expected>>
serverVars == <<mut, handler, link, up, down>>

RuleKinds == {"OnStart", "After"}
UnitStates == {"RUNNING", "STOPPED", "FAILED"}  \* any other is "RUNNING"
Expected == [state : {"HEALTHY", "STOPPED"}, idx : 0..1]
PartialFcns(S) == UNION {[U -> S] : U \in SUBSET Units}

\* A goroutine: where it is, the report, the unit it is at, the done it
\* copied, what it answers.
Idle == [pc |-> "off", report |-> <<>>, at |-> 1, saw |-> FALSE, resp |-> <<>>]

ASSUME ManagerAssumption ==
  /\ NumUnits \in Nat \ {0} /\ NumStreams \in Nat \ {0}
  /\ RuleSets \subseteq [Units -> [start : RuleKinds, stop : RuleKinds]]

ManagerInit ==
  /\ rules \in RuleSets /\ passed = {} /\ done = [u \in Units |-> FALSE]
  /\ expected = [u \in Units |-> [state |-> "HEALTHY", idx |-> 0]]
  /\ mut = 0 /\ handler = [s \in Streams |-> Idle] /\ link = [s \in Streams |-> "none"]
  /\ up = [s \in Streams |-> None] /\ down = [s \in Streams |-> None]

-----------------------------------------------------------------------------
(* The rules: OnStart holds of a unit that is not observed, After whenever   *)
(* its time is over.                                                         *)

StartPasses(u) == rules[u].start = "OnStart" \/ <<u, "start">> \in passed
StopPasses(u) == rules[u].stop = "After" /\ <<u, "stop">> \in passed

Elapses(u, which) ==
  /\ rules[u][which] = "After" /\ <<u, which>> \notin passed
  /\ passed' = passed \cup {<<u, which>>}
  /\ UNCHANGED <<rules, done, expected, serverVars>>

-----------------------------------------------------------------------------
(* The handler of stream s                                                   *)

Goes(s, changes) == handler' = [handler EXCEPT ![s] = changes]

Recv(s) ==
  /\ handler[s].pc = "recv" /\ up[s] # None
  /\ Goes(s, [handler[s] EXCEPT !.pc = "lock", !.report = up[s]])
  /\ up' = [up EXCEPT ![s] = None]
  /\ UNCHANGED <<managerVars, mut, link, down>>

RecvFails(s) ==
  /\ handler[s].pc = "recv" /\ link[s] = "closed"
  /\ Goes(s, Idle) /\ up' = [up EXCEPT ![s] = None]
  /\ UNCHANGED <<managerVars, mut, link, down>>

\* Mutant: Checkin without the mutex.
LockNot(s) ==
  /\ handler[s].pc = "lock"
  /\ mut' = s /\ Goes(s, [handler[s] EXCEPT !.pc = "look", !.at = 1, !.resp = <<>>])
  /\ UNCHANGED <<managerVars, link, up, down>>

Lock(s) ==
  /\ handler[s].pc = "lock" /\ mut = 0
  /\ mut' = s /\ Goes(s, [handler[s] EXCEPT !.pc = "look", !.at = 1, !.resp = <<>>])
  /\ UNCHANGED <<managerVars, link, up, down>>

Unlock(s, resp) ==
  /\ mut' = 0 /\ Goes(s, [handler[s] EXCEPT !.pc = "send", !.resp = resp, !.report = <<>>])
  /\ UNCHANGED <<managerVars, link, up, down>>

\* Mutant: the units are generated anew for a client that reports none.
StartupFresh(s) ==
  /\ handler[s].pc = "look" /\ handler[s].report = <<>>
  /\ Unlock(s, [u \in {x \in Units : StartPasses(x)} |-> [state |-> "HEALTHY", idx |-> 0]])

\* startupConfig: a client that reports no unit gets all that may start, those
\* that are done too.
StartupConfig(s) ==
  /\ handler[s].pc = "look" /\ handler[s].report = <<>>
  /\ Unlock(s, [u \in {x \in Units : StartPasses(x)} |-> expected[u]])

\* configFromObserved: the loop copies the unit.
Look(s) ==
  /\ handler[s].pc = "look" /\ handler[s].report # <<>> /\ handler[s].at \in Units
  /\ Goes(s, [handler[s] EXCEPT !.pc = "decide", !.saw = done[handler[s].at]])
  /\ UNCHANGED <<managerVars, mut, link, up, down>>

Observed(s) == LET u == handler[s].at IN
  IF u \in DOMAIN handler[s].report THEN handler[s].report[u] ELSE None

NextUnit(s, resp) ==
  Goes(s, [handler[s] EXCEPT !.pc = "look", !.at = @ + 1, !.saw = FALSE, !.resp = resp])

\* What the response has when unit u is appended to it.
Appended(s, u) == [x \in DOMAIN handler[s].resp \cup {u} |->
                     IF x = u THEN expected'[u] ELSE handler[s].resp[x]]

WantsStop(s) == Observed(s) = "RUNNING" /\ ~handler[s].saw /\ StopPasses(handler[s].at)

\* Mutant: only a client without units gets new ones.
MayStartNever(s) == FALSE
MayStart(s) == Observed(s) = None /\ ~handler[s].saw /\ StartPasses(handler[s].at)

\* A unit that ended, or is done and gone, or may not start yet, is left out.
LeaveOut(s) ==
  /\ handler[s].pc = "decide"
  /\ \/ Observed(s) \in {"STOPPED", "FAILED"}
     \/ Observed(s) = None /\ ~MayStart(s)
  /\ NextUnit(s, handler[s].resp) /\ UNCHANGED <<managerVars, mut, link, up, down>>

Append(s) ==
  /\ handler[s].pc = "decide" /\ ~WantsStop(s)
  /\ Observed(s) = "RUNNING" \/ MayStart(s)
  /\ UNCHANGED <<managerVars, mut, link, up, down>>
  /\ NextUnit(s, Appended(s, handler[s].at))

AskToStop(s) == LET u == handler[s].at IN
  /\ handler[s].pc = "decide" /\ WantsStop(s)
  /\ expected' = [expected EXCEPT ![u].state = "STOPPED", ![u].idx = @ + 1]
  /\ done' = [done EXCEPT ![u] = TRUE]
  /\ UNCHANGED <<rules, passed, mut, link, up, down>>
  /\ NextUnit(s, Appended(s, u))

Return(s) ==
  /\ handler[s].pc = "look" /\ handler[s].report # <<>> /\ handler[s].at \notin Units
  /\ Unlock(s, handler[s].resp)

\* The response is encoded without the mutex: a unit another handler asks to
\* stop meanwhile is sent as it was, as it is, or torn.
Encodings(resp) ==
  {m \in [DOMAIN resp -> Expected] :
     \A u \in DOMAIN resp : /\ m[u].state \in {resp[u].state, expected[u].state}
                            /\ m[u].idx \in {resp[u].idx, expected[u].idx}}
Raced(resp) == \E u \in DOMAIN resp : resp[u] # expected[u]

Send(s) ==
  /\ handler[s].pc = "send" /\ link[s] = "open" /\ down[s] = None
  /\ \E m \in Encodings(handler[s].resp) : down' = [down EXCEPT ![s] = m]
  /\ Goes(s, [Idle EXCEPT !.pc = "recv"])
  /\ UNCHANGED <<managerVars, mut, link, up>>

\* A stream that is over, or a size that changed while it was encoded.
SendFails(s) ==
  /\ handler[s].pc = "send" /\ (link[s] = "closed" \/ Raced(handler[s].resp))
  /\ Goes(s, Idle) /\ link' = [link EXCEPT ![s] = "closed"]
  /\ UNCHANGED <<managerVars, mut, up, down>>

Handle(s) ==
  \/ Recv(s) \/ RecvFails(s) \/ Lock(s) \/ StartupConfig(s) \/ Look(s) \/ LeaveOut(s)
  \/ Append(s) \/ AskToStop(s) \/ Return(s) \/ Send(s) \/ SendFails(s)
=============================================================================
