------------------------------ MODULE ClientV1 ------------------------------
(***************************************************************************)
(* The deprecated client (pkg/client/client.go): Start runs the check-in   *)
(* and the actions under one context, Stop cancels it and waits for both   *)
(* loops, not for the goroutines of requests.  Status, Register and        *)
(* OnConfig run beside them.                                               *)
(***************************************************************************)
EXTENDS CheckinV1, FiniteSets

CONSTANTS Reqs, Cap,
          MaxStarts  \* bound: calls of Start

VARIABLES
  registry, aloop, ard, ain, aout, work, answer, queue, awr, held, accepted,
  unsent, awire, agone, alink, aknown,
  spc, starts,  \* Stop: "none", "waiting", "returned"; calls of Start
  lost          \* requests whose response went with the queue of a Start

Acts == INSTANCE ActionsV1
actsVars == <<registry, aloop, ard, ain, aout, work, answer, queue, awr, held, accepted,
              unsent, awire, agone, alink, aknown>>
clientVars == <<ctx, spc, starts, lost>>
vars == <<checkinVars, actsVars, clientVars, events>>

ASSUME ClientV1Assumption ==
  /\ IsFiniteSet(Reqs) /\ Cap \in Nat \ {0}
  /\ MaxStarts \in Nat \ {0} /\ None \notin Reqs \cup Acts!Response

Init ==
  /\ CheckinInit /\ Acts!ActionsInit
  /\ ctx = "live" /\ events = 0 /\ spc = "none" /\ starts = 1 /\ lost = {}

Stop ==
  /\ spc = "none" /\ spc' = "waiting" /\ ctx' = "cancelled"
  /\ UNCHANGED <<checkinVars, actsVars, starts, lost, events>>

\* wg.Wait(), and the connection is closed.
StopReturns ==
  /\ spc = "waiting" /\ cloop = "exited" /\ aloop = "exited" /\ spc' = "returned"
  /\ UNCHANGED <<checkinVars, actsVars, ctx, starts, lost, events>>

\* A new queue; the fields of the check-in, expected among them, are kept.
Start ==
  /\ spc = "returned" /\ starts < MaxStarts
  /\ spc' = "none" /\ ctx' = "live" /\ starts' = starts + 1
  /\ cloop' = "loop" /\ aloop' = "loop" /\ queue' = {}
  /\ lost' = lost \cup {x.id : x \in queue} \cup {r \in Reqs : work[r] \in {"exec", "put"}}
  /\ work' = [r \in Reqs |-> IF work[r] = "none" THEN "none" ELSE "done"]
  /\ answer' = [r \in Reqs |-> None]
  /\ UNCHANGED <<checkinReader, checkinWriter, checkinFields, checkinAgentVars, events,
                 registry, ard, ain, aout, awr, held, accepted, unsent, awire, agone, alink, aknown>>

\* Stopped for good, and nothing runs.
Terminated ==
  /\ spc = "returned" /\ starts = MaxStarts /\ UNCHANGED vars

Next ==
  \/ CheckinNext /\ UNCHANGED <<actsVars, clientVars>>
  \/ Acts!ActionsNext /\ UNCHANGED <<checkinVars, clientVars>>
  \/ Stop \/ StopReturns \/ Start \/ Terminated

Spec == Init /\ [][Next]_vars

-----------------------------------------------------------------------------
(* Fairness: every goroutine that can run runs; OnConfig, OnStop, OnError    *)
(* and actions return; the agent hears reports and answers one that is not   *)
(* what it expects.  minCheckTimeout is not relied on.                       *)
CheckinOnly == UNCHANGED <<actsVars, clientVars>>
ActsOnly == UNCHANGED <<checkinVars, clientVars>>

Fairness ==
  /\ WF_vars(CheckinReader /\ CheckinOnly) /\ WF_vars(CheckinWriter /\ CheckinOnly)
  /\ WF_vars((CheckinExits \/ Dial \/ CheckinDone) /\ CheckinOnly)
  /\ WF_vars(AgentHears /\ CheckinOnly)
  /\ WF_vars(AgentExpects /\ (heard.idx # cfgs \/ stopping) /\ CheckinOnly)
  /\ WF_vars(Acts!ActionsReader /\ ActsOnly) /\ WF_vars(Acts!ActionsWriter /\ ActsOnly)
  /\ WF_vars((Acts!ActionsExit \/ Acts!ActionsDial \/ Acts!ActionsDone) /\ ActsOnly)
  /\ \A r \in Reqs : WF_vars(Acts!ActionsWorker(r) /\ ActsOnly)
  /\ WF_vars(StopReturns)

FairSpec == Spec /\ Fairness

-----------------------------------------------------------------------------
(* Properties *)

TypeOK ==
  /\ ctx \in {"live", "cancelled"} /\ events \in 0..MaxEvents
  /\ cloop \in {"loop", "running", "exited"} /\ aloop \in {"loop", "running", "exited"}
  /\ crd \in {"off", "recv", "handle", "onconfig", "done"} /\ cin \in Expected \cup {None}
  /\ cwr \in {"off", "sleep", "status", "compare", "done"}
  /\ widx \in Configs /\ wstat \in 0..MaxEvents /\ lastSent \in Report \cup {None}
  /\ cfgIdx \in 0..cfgs /\ applied \in 0..cfgIdx /\ expected \in {"RUNNING", "STOPPING"}
  /\ ard \in {"off", "recv", "lookup", "put", "done"}
  /\ awr \in {"off", "init", "select", "send", "requeue", "done"}
  /\ queue \subseteq Acts!Response /\ Cardinality(queue) <= Cap
  /\ spc \in {"none", "waiting", "returned"} /\ starts \in 1..MaxStarts

\* Once asked to stop, the client calls neither OnStop nor OnConfig again,
\* through reconnects and restarts (client.go:220-229).
StoppedIsFinal == [][stops > 0 => UNCHANGED <<stops, applied>>]_vars

\* Where request r, or a response to it, is.
Places(r) ==
  {<<"agent", x>> : x \in unsent \cap {r}} \cup
  {<<"wire", x>> : x \in {awire} \cap {r}} \cup
  {<<"gone", x>> : x \in agone \cap {r}} \cup
  {<<"lost", x>> : x \in lost \cap {r}} \cup
  {<<"reader", x>> : x \in {y \in {ain} : ard \in {"lookup", "put"} /\ y = r}} \cup
  {<<"worker", x>> : x \in {y \in {r} : work[r] \in {"exec", "put"}}} \cup
  {<<"queue", x>> : x \in {y \in queue : y.id = r}} \cup
  {<<"writer", x>> : x \in {y \in {held} : held # None /\ y.id = r}} \cup
  {<<"sent", x>> : x \in {y \in accepted : y.id = r}}

\* A request, or its one response, is in one place: failed sends and
\* reconnects neither lose nor repeat it (client.go:332-334).
Custody == \A r \in Reqs : Cardinality(Places(r)) = 1

Running == spc = "none"

\* A client that keeps running ends up told to stop, or with the config of an
\* agent that does not want it stopped (client.go:220-236).
ConfigApplied == <>[](Running => expected = "STOPPING" \/ (~stopping /\ applied = cfgs))

\* What it reports last is its config and its status as they are.
StatusReported == <>[](Running => heard = [idx |-> cfgIdx, status |-> observed])

\* Stop returns, whatever the loops do when it is called.
StopTerminates == spc = "waiting" ~> spc = "returned"
=============================================================================
