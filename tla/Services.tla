------------------------------ MODULE Services ------------------------------
(***************************************************************************)
(* The clients that share the connection of the V2 client beside check-in  *)
(* and actions (client_v2.go:372-401): the store's transactions (Store)    *)
(* and the artifacts (Fetch).  Stop closes the connection under both.      *)
(***************************************************************************)
EXTENDS Store, Sequences

CONSTANTS Artifact, MaxFetches

ASSUME ServicesAssumption == MaxFetches \in Nat /\ Artifact \in Seq(STRING)

VARIABLES fpc, data, fetched, fetches, inflight, sent, stream

Artifacts == INSTANCE Fetch

artifactVars == <<fpc, data, fetched, fetches, inflight, sent, stream>>
vars == <<storeVars, artifactVars>>

Init == StoreInit /\ Artifacts!FetchInit

Next ==
  \/ StoreNext /\ UNCHANGED artifactVars
  \/ Artifacts!FetchNext /\ UNCHANGED storeVars

Spec == Init /\ [][Next]_vars

(* Fairness: calls return, on a closed connection with an error. *)
Fairness ==
  /\ WF_vars(Artifacts!Fetcher /\ fpc # "idle" /\ UNCHANGED storeVars)
  /\ \A t \in Tx :
       WF_vars((Begun(t) \/ Done(t) \/ (Fail(t) /\ (conn = "closed" \/ reply[t] = "error")))
               /\ UNCHANGED artifactVars)

FairSpec == Spec /\ Fairness

TypeOK == StoreTypeOK /\ Artifacts!FetchTypeOK
FetchedWhole == Artifacts!FetchedWhole

\* Stop leaves no caller waiting: once it closed the connection, every call of
\* a transaction and every Fetch returns, unless the client is started again.
CloseEndsCalls ==
  conn = "closed" ~> (conn = "open" \/ (fpc = "idle" /\ \A t \in Tx : call[t] = None))
=============================================================================
