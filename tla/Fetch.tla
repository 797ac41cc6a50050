------------------------------- MODULE Fetch -------------------------------
(***************************************************************************)
(* The artifacts client (pkg/client/artifacts.go): Fetch concatenates the  *)
(* parts of an artifact until the agent says eof.  The stream is external: *)
(* it may end before eof, break, or carry a message of no known type.      *)
(* Fetch does not check the sha256 it asks for.                            *)
(***************************************************************************)
EXTENDS Naturals, Sequences

CONSTANTS
  Artifact,   \* the parts of the artifact, in order
  None,
  MaxFetches  \* bound: calls of Fetch

VARIABLES
  conn,       \* the connection, shared with the other clients
  fpc,        \* "idle", "opening" or "recv"
  data,       \* the parts received
  fetched,    \* the error and the data the last Fetch returned
  fetches,
  inflight,   \* messages on the stream
  sent,       \* parts the agent has sent
  stream      \* "none", "open", "ended" (io.EOF follows) or "broken"

agentFetchVars == <<inflight, sent, stream>>

Part(p) == [type |-> "content", part |-> p]
Eof == [type |-> "eof", part |-> None]
Other == [type |-> "unknown", part |-> None]

FetchInit ==
  /\ fpc = "idle" /\ data = <<>> /\ fetched = [err |-> "none", data |-> <<>>] /\ fetches = 0
  /\ inflight = <<>> /\ sent = 0 /\ stream = "none"

FetchBegin ==
  /\ fpc = "idle" /\ fetches < MaxFetches /\ fetches' = fetches + 1
  /\ fpc' = "opening" /\ data' = <<>>
  /\ UNCHANGED <<fetched, agentFetchVars>>

FetchOpened ==
  /\ fpc = "opening" /\ conn = "open"
  /\ fpc' = "recv" /\ stream' = "open" /\ inflight' = <<>> /\ sent' = 0
  /\ UNCHANGED <<data, fetched, fetches>>

FetchReturns(err, result) ==
  /\ fpc' = "idle" /\ fetched' = [err |-> err, data |-> result]
  /\ stream' = "none" /\ inflight' = <<>> /\ UNCHANGED <<fetches, sent>>

\* Mutant: the end of the stream is taken for the end of the artifact.
FetchFailsNot ==
  /\ fpc = "recv" /\ inflight = <<>> /\ (stream = "ended" \/ conn = "closed")
  /\ FetchReturns("nil", data) /\ UNCHANGED data

\* Mutant: Recv is tried again when the connection is gone.
FetchFailsNever ==
  /\ \/ fpc = "opening"
     \/ fpc = "recv" /\ stream = "ended" /\ inflight = <<>>
  /\ FetchReturns("failed", <<>>) /\ UNCHANGED data

\* Opening the stream, or Recv, fails: the connection, the caller's context,
\* or a stream that ended without eof (Recv returns io.EOF).
FetchFails ==
  /\ \/ fpc = "opening"
     \/ fpc = "recv" /\ (conn = "closed" \/ stream = "broken")
     \/ fpc = "recv" /\ stream = "ended" /\ inflight = <<>>
  /\ FetchReturns("failed", <<>>) /\ UNCHANGED data

FetchRecv ==
  /\ fpc = "recv" /\ inflight # <<>>
  /\ LET msg == Head(inflight) IN
     \/ /\ msg.type = "content" /\ data' = Append(data, msg.part)
        /\ inflight' = Tail(inflight) /\ UNCHANGED <<fpc, fetched, fetches, sent, stream>>
     \/ msg.type = "eof" /\ FetchReturns("nil", data) /\ UNCHANGED data
     \/ msg.type = "unknown" /\ FetchReturns("failed", <<>>) /\ UNCHANGED data

-----------------------------------------------------------------------------
(* The agent *)

AgentStreams ==
  /\ stream = "open" /\ UNCHANGED <<fpc, data, fetched, fetches>>
  /\ \/ /\ sent < Len(Artifact) /\ sent' = sent + 1
        /\ inflight' = Append(inflight, Part(Artifact[sent + 1])) /\ UNCHANGED stream
     \/ /\ sent = Len(Artifact) /\ stream' = "ended"
        /\ inflight' = Append(inflight, Eof) /\ UNCHANGED sent
     \/ inflight' = Append(inflight, Other) /\ stream' = "ended" /\ UNCHANGED sent
     \/ stream' = "ended" /\ UNCHANGED <<inflight, sent>>
     \/ stream' = "broken" /\ UNCHANGED <<inflight, sent>>

Fetcher == FetchBegin \/ FetchOpened \/ FetchFails \/ FetchRecv
FetchNext == (Fetcher \/ AgentStreams) /\ UNCHANGED conn

-----------------------------------------------------------------------------
(* Properties *)

FetchTypeOK ==
  /\ fpc \in {"idle", "opening", "recv"} /\ data \in Seq({Artifact[i] : i \in DOMAIN Artifact})
  /\ fetches \in 0..MaxFetches /\ sent \in 0..Len(Artifact)
  /\ stream \in {"none", "open", "ended", "broken"}
  /\ \A i \in DOMAIN inflight : inflight[i].type \in {"content", "eof", "unknown"}

\* Fetch returns the whole artifact or an error, never a part of it, however
\* the stream ends (artifacts.go:37-51).
FetchedWhole == fetched.err = "nil" => fetched.data = Artifact
=============================================================================
