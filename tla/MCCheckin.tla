----------------------------- MODULE MCCheckin -----------------------------
(* Small instances of Checkin: two ids and short scripts of policies.      *)
EXTENDS Checkin, TLC

CONSTANTS u1, u2, i0, i1, f1, f2, apm1

U(s, l, c) == [state |-> s, log |-> l, cfgIdx |-> c]
Pol(a, b, f, fi, comp, ci) ==
  [units |-> (u1 :> a @@ u2 :> b), features |-> f, featuresIdx |-> fi,
   component |-> comp, componentIdx |-> ci, info |-> i1]
C1 == [limits |-> 2, apm |-> apm1]
C2 == [limits |-> 0, apm |-> None]

P1 == Pol(U("healthy", 1, 1), None, f1, 1, C1, 1)
\* u2 appears, nothing else changes.
P2 == Pol(U("healthy", 1, 1), U("healthy", 1, 1), f1, 1, C1, 1)
\* u1 goes; u2 gets a new config; new features and component.
P3 == Pol(None, U("healthy", 2, 2), f2, 2, C2, 2)
\* u1 returns as a new unit; u2 is to stop.
P4 == Pol(U("healthy", 1, 2), U("stopped", 2, 2), f2, 2, C2, 2)

\* A unit goes while another comes, then comes back as a new unit; an agent
\* that skips a policy adds, modifies and removes in one message.
ReturnScript == <<P1, P3, P4>>
\* A unit is added and nothing else changes.
AddScript == <<P1, P2>>
OneScript == <<P1>>
TestIds == {u1, u2}
OmitConfig == {"config"}
OmitGlobals == {"features", "component"}

\* The scripts are those of an agent that keeps its side of the protocol.
ASSUME ScriptsKeepProtocol ==
  IndexesGrow /\ ReturnsAreNew /\ ("features" \notin Omit => FeaturesSent)
=============================================================================
