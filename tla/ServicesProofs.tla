--------------------------- MODULE ServicesProofs ---------------------------
(* Safety of the store client and the artifact client together, for every  *)
(* set of transactions, keys, values and parts of the artifact: TypeOK,    *)
(* FetchedWhole, and what StoreProofs says of the store, which the         *)
(* artifact client leaves alone.                                           *)
EXTENDS Services, StoreProofs, SequenceTheorems, TLAPS

USE DEF artifactVars, storeVars, connVars, clientVars, agentVars, Artifacts!agentFetchVars

-----------------------------------------------------------------------------
(* The store *)

\* A step of the artifact client is none of the store.
LEMMA StoreInServices == Spec => StoreSpec
<1>1. Init => StoreInit
  BY DEF Init
<1>2. [Next]_vars => [StoreNext]_storeVars
  BY DEF Next, vars
<1>3. QED BY <1>1, <1>2, PTL DEF Spec, StoreSpec

\* No request of a transaction that is over is on its way, with the artifact
\* client on the same connection (store.go:107-214).
THEOREM NothingAfterTheEnd == Spec => []QuietAfterEnd
BY StoreInServices, QuietTransactions, PTL

\* The transactions of the store keep their promise on the connection they
\* share (store.go:27-48).
THEOREM TransactionsKeepPromise == Spec => Implements
BY StoreInServices, StoreKeepsPromise, PTL

-----------------------------------------------------------------------------
(* The artifact *)

Parts == {Artifact[i] : i \in DOMAIN Artifact}
Message == [type : {"content", "eof", "unknown"}, part : Parts \cup {None}]

FetchType ==
  /\ fpc \in {"idle", "opening", "recv"} /\ data \in Seq(Parts)
  /\ fetches \in 0..MaxFetches /\ sent \in 0..Len(Artifact)
  /\ stream \in {"none", "open", "ended", "broken"} /\ inflight \in Seq(Message)

\* Only a Fetch that receives has a stream, and one that opens it has nothing yet.
StreamInv == (stream # "none" => fpc = "recv") /\ (fpc = "opening" => data = <<>>)

\* What Fetch has are the first parts; what is on the stream are the next ones that
\* the agent sent, and after them its last word.  It says eof only when it has sent
\* all of them.
PartsInv ==
  fpc = "recv" =>
    /\ Len(data) <= sent /\ \A i \in 1..Len(data) : data[i] = Artifact[i]
    /\ Len(inflight) \in {sent - Len(data), sent - Len(data) + 1}
    /\ \A i \in 1..sent - Len(data) : inflight[i] = Artifacts!Part(Artifact[Len(data) + i])
    /\ Len(inflight) = sent - Len(data) + 1 =>
         /\ stream = "ended"
         /\ \/ inflight[Len(inflight)] = Artifacts!Other
            \/ inflight[Len(inflight)] = Artifacts!Eof /\ sent = Len(Artifact)

FetchInv == FetchType /\ StreamInv /\ PartsInv /\ FetchedWhole

LEMMA ArtifactType ==
  /\ MaxFetches \in Nat /\ Artifact \in Seq(Parts) /\ Len(Artifact) \in Nat
  /\ \A i \in 1..Len(Artifact) : Artifact[i] \in Parts
<1>1. Artifact \in Seq(STRING) /\ MaxFetches \in Nat
  BY ServicesAssumption DEF ServicesAssumption
<1>2. Len(Artifact) \in Nat /\ DOMAIN Artifact = 1..Len(Artifact) /\ Artifact \in [1..Len(Artifact) -> STRING]
  BY <1>1, LenProperties
<1>3. \A i \in 1..Len(Artifact) : Artifact[i] \in Parts
  BY <1>2 DEF Parts
<1>4. Artifact \in Seq(Parts)
  BY <1>2, <1>3, IsASeq
<1>5. QED BY <1>1, <1>2, <1>3, <1>4

LEMMA MessageType ==
  /\ \A p \in Parts : Artifacts!Part(p) \in Message /\ Artifacts!Part(p).type = "content" /\ Artifacts!Part(p).part = p
  /\ Artifacts!Eof \in Message /\ Artifacts!Eof.type = "eof"
  /\ Artifacts!Other \in Message /\ Artifacts!Other.type = "unknown"
BY DEF Artifacts!Part, Artifacts!Eof, Artifacts!Other, Message

LEMMA FetchInit == Init => FetchInv
<1> SUFFICES ASSUME Init PROVE FetchInv
  OBVIOUS
<1> USE DEF Init, Artifacts!FetchInit
<1>1. data \in Seq(Parts) /\ inflight \in Seq(Message)
  BY EmptySeq
<1>2. FetchType
  BY <1>1, ArtifactType DEF FetchType
<1>3. StreamInv /\ PartsInv /\ FetchedWhole
  BY DEF StreamInv, PartsInv, FetchedWhole, Artifacts!FetchedWhole
<1>4. QED BY <1>2, <1>3 DEF FetchInv

\* What Fetch returns is an error, or the data when the agent said eof.
LEMMA ReturnStep ==
  ASSUME FetchInv, UNCHANGED data, NEW err, NEW result, Artifacts!FetchReturns(err, result),
         err = "nil" => result = Artifact
  PROVE  FetchInv'
<1>1. inflight' = <<>> /\ fpc' = "idle" /\ stream' = "none" /\ fetched' = [err |-> err, data |-> result]
      /\ UNCHANGED <<fetches, sent, data>>
  BY DEF Artifacts!FetchReturns
<1>2. inflight' \in Seq(Message)
  BY <1>1, EmptySeq
<1>3. FetchType'
  BY <1>1, <1>2 DEF FetchInv, FetchType
<1>4. fetched'.err = err /\ fetched'.data = result
  BY <1>1
<1>5. FetchedWhole'
  BY <1>4 DEF FetchedWhole, Artifacts!FetchedWhole
<1>6. StreamInv' /\ PartsInv'
  BY <1>1 DEF StreamInv, PartsInv
<1>7. QED BY <1>3, <1>5, <1>6 DEF FetchInv

LEMMA BeginStep ==
  ASSUME FetchInv, Artifacts!FetchBegin \/ Artifacts!FetchOpened PROVE FetchInv'
<1> USE DEF FetchInv
<1>1. CASE Artifacts!FetchBegin
  <2>1. data' = <<>> /\ fpc' = "opening" /\ fpc = "idle" /\ fetches' \in 0..MaxFetches
        /\ UNCHANGED <<fetched, inflight, sent, stream>>
    BY <1>1, ArtifactType DEF Artifacts!FetchBegin, FetchType
  <2>2. data' \in Seq(Parts)
    BY <2>1, EmptySeq
  <2>3. FetchType'
    BY <2>1, <2>2 DEF FetchType
  <2>4. QED BY <2>1, <2>3 DEF StreamInv, PartsInv, FetchedWhole, Artifacts!FetchedWhole
<1>2. CASE Artifacts!FetchOpened
  <2>1. fpc = "opening" /\ fpc' = "recv" /\ stream' = "open" /\ inflight' = <<>> /\ sent' = 0
        /\ UNCHANGED <<data, fetched, fetches>>
    BY <1>2 DEF Artifacts!FetchOpened
  <2>2. inflight' \in Seq(Message) /\ Len(inflight') = 0
    BY <2>1, EmptySeq
  <2>3. FetchType'
    BY <2>1, <2>2, ArtifactType DEF FetchType
  <2>4. data = <<>>
    BY <2>1 DEF StreamInv
  <2>5. Len(data') = 0
    BY <2>1, <2>4, EmptySeq
  <2>6. PartsInv'
    BY <2>1, <2>2, <2>5 DEF PartsInv
  <2>7. QED BY <2>1, <2>3, <2>6 DEF StreamInv, FetchedWhole, Artifacts!FetchedWhole
<1>3. QED BY <1>1, <1>2

LEMMA FailStep ==
  ASSUME FetchInv, Artifacts!FetchFails PROVE FetchInv'
<1>1. Artifacts!FetchReturns("failed", <<>>) /\ UNCHANGED data
  BY DEF Artifacts!FetchFails
<1>2. QED BY <1>1, ReturnStep

\* A part is the next one; an eof comes when there is none left.
LEMMA RecvStep ==
  ASSUME FetchInv, Artifacts!FetchRecv PROVE FetchInv'
<1> USE DEF FetchInv
<1> DEFINE msg == Head(inflight)
<1>1. fpc = "recv" /\ inflight # <<>> /\ inflight \in Seq(Message) /\ data \in Seq(Parts)
      /\ sent \in 0..Len(Artifact) /\ Len(data) \in Nat
  BY LenProperties DEF Artifacts!FetchRecv, FetchType
<1>2. Len(inflight) \in Nat /\ Len(inflight) >= 1 /\ msg = inflight[1] /\ msg \in Message
      /\ Tail(inflight) \in Seq(Message) /\ Len(Tail(inflight)) = Len(inflight) - 1
      /\ \A i \in 1..Len(Tail(inflight)) : Tail(inflight)[i] = inflight[i + 1]
  BY <1>1, EmptySeq, HeadTailProperties
<1>3. /\ Len(data) <= sent /\ \A i \in 1..Len(data) : data[i] = Artifact[i]
      /\ Len(inflight) \in {sent - Len(data), sent - Len(data) + 1}
      /\ \A i \in 1..sent - Len(data) : inflight[i] = Artifacts!Part(Artifact[Len(data) + i])
      /\ Len(inflight) = sent - Len(data) + 1 =>
           /\ stream = "ended"
           /\ \/ inflight[Len(inflight)] = Artifacts!Other
              \/ inflight[Len(inflight)] = Artifacts!Eof /\ sent = Len(Artifact)
  BY <1>1 DEF PartsInv
<1> HIDE DEF msg
<1>4. CASE msg.type = "content" /\ data' = Append(data, msg.part) /\ inflight' = Tail(inflight)
           /\ UNCHANGED <<fpc, fetched, fetches, sent, stream>>
  <2>1. Len(data) < sent
    <3>1. CASE Len(data) = sent
      <4>1. Len(inflight) = 1 /\ (inflight[1] = Artifacts!Other \/ inflight[1] = Artifacts!Eof)
        BY <1>1, <1>2, <1>3, <3>1
      <4>2. QED BY <1>2, <1>4, <4>1, MessageType
    <3>2. QED BY <1>1, <1>3, <3>1
  <2>2. Len(data) + 1 \in 1..Len(Artifact) /\ msg = Artifacts!Part(Artifact[Len(data) + 1])
    BY <1>1, <1>2, <1>3, <2>1, ArtifactType
  <2>3. msg.part = Artifact[Len(data) + 1] /\ msg.part \in Parts
    BY <2>2, MessageType, ArtifactType
  <2>4. /\ data' \in Seq(Parts) /\ Len(data') = Len(data) + 1
        /\ \A i \in 1..Len(data) : data'[i] = data[i]
        /\ data'[Len(data) + 1] = Artifact[Len(data) + 1]
    BY <1>1, <1>4, <2>3, AppendProperties
  <2>5. FetchType'
    <3>1. UNCHANGED <<fpc, fetches, sent, stream>> /\ inflight' \in Seq(Message)
      BY <1>2, <1>4
    <3>2. FetchType /\ data' \in Seq(Parts)
      BY <2>4
    <3> QED BY ONLY <3>1, <3>2 DEF FetchType
  <2>6. \A i \in 1..Len(data') : data'[i] = Artifact[i]
    <3>1. \A i \in 1..Len(data') : i \in 1..Len(data) \/ i = Len(data) + 1
      BY <1>1, <2>4
    <3>2. \A i \in 1..Len(data) : data[i] = Artifact[i]
      BY <1>3
    <3> QED BY ONLY <2>4, <3>1, <3>2
  <2>7. Len(data') <= sent' /\ Len(inflight') \in {sent' - Len(data'), sent' - Len(data') + 1}
    BY <1>1, <1>2, <1>3, <1>4, <2>1, <2>4
  <2>8. ASSUME NEW i \in 1..sent' - Len(data')
        PROVE  inflight'[i] = Artifacts!Part(Artifact[Len(data') + i])
    <3>1. i + 1 \in 1..sent - Len(data) /\ i \in 1..Len(Tail(inflight)) /\ Len(data') + i = Len(data) + (i + 1)
      BY <1>1, <1>2, <1>3, <1>4, <2>4
    <3>2. QED BY <1>2, <1>3, <1>4, <3>1
  <2>9. ASSUME Len(inflight') = sent' - Len(data') + 1
        PROVE  /\ stream' = "ended"
               /\ \/ inflight'[Len(inflight')] = Artifacts!Other
                  \/ inflight'[Len(inflight')] = Artifacts!Eof /\ sent' = Len(Artifact)
    <3>1. Len(inflight) = sent - Len(data) + 1 /\ Len(inflight') + 1 = Len(inflight)
          /\ Len(inflight') \in 1..Len(Tail(inflight))
      BY <1>1, <1>2, <1>3, <1>4, <2>1, <2>4, <2>9
    <3>2. inflight'[Len(inflight')] = inflight[Len(inflight)]
      BY <1>2, <1>4, <3>1
    <3>3. QED BY <1>3, <1>4, <3>1, <3>2
  <2>10. PartsInv'
    BY <2>6, <2>7, <2>8, <2>9 DEF PartsInv
  <2>11. QED BY <1>1, <1>4, <2>5, <2>10 DEF StreamInv, FetchedWhole, Artifacts!FetchedWhole
<1>5. CASE msg.type = "eof" /\ Artifacts!FetchReturns("nil", data) /\ UNCHANGED data
  <2>1. Len(data) = sent
    <3>1. CASE Len(data) < sent
      <4>1. 1 \in 1..sent - Len(data) /\ Len(data) + 1 \in 1..Len(Artifact)
        BY <1>1, <3>1, ArtifactType
      <4>2. msg = Artifacts!Part(Artifact[Len(data) + 1]) /\ Artifact[Len(data) + 1] \in Parts
        BY <1>2, <1>3, <4>1, ArtifactType
      <4>3. msg.type = "content"
        BY <4>2, MessageType
      <4>4. QED BY <1>5, <4>3
    <3>2. QED BY <1>1, <1>3, <3>1
  <2>2. Len(inflight) = 1 /\ Len(inflight) = sent - Len(data) + 1
    BY <1>1, <1>2, <1>3, <2>1
  <2>3. msg # Artifacts!Other
    BY <1>5, MessageType
  <2>4. sent = Len(Artifact)
    BY <1>2, <1>3, <2>2, <2>3
  <2>5. data = Artifact
    BY <1>1, <1>3, <2>1, <2>4, ArtifactType, SeqEqual
  <2>6. QED BY <1>5, <2>5, ReturnStep
<1>6. CASE msg.type = "unknown" /\ Artifacts!FetchReturns("failed", <<>>) /\ UNCHANGED data
  BY <1>6, ReturnStep
<1>7. QED BY <1>4, <1>5, <1>6 DEF Artifacts!FetchRecv, msg

\* The agent sends the parts in order, and says eof after the last one.
LEMMA StreamStep ==
  ASSUME FetchInv, Artifacts!AgentStreams PROVE FetchInv'
<1> USE DEF FetchInv
<1>1. stream = "open" /\ fpc = "recv" /\ UNCHANGED <<fpc, data, fetched, fetches>>
  BY DEF Artifacts!AgentStreams, StreamInv
<1>2. inflight \in Seq(Message) /\ Len(inflight) \in Nat /\ sent \in 0..Len(Artifact) /\ Len(data) \in Nat
      /\ Len(Artifact) \in Nat
  BY LenProperties, ArtifactType DEF FetchType
<1>3. /\ Len(data) <= sent /\ \A i \in 1..Len(data) : data[i] = Artifact[i]
      /\ Len(inflight) = sent - Len(data)
      /\ \A i \in 1..sent - Len(data) : inflight[i] = Artifacts!Part(Artifact[Len(data) + i])
  BY <1>1, <1>2 DEF PartsInv
<1>4. StreamInv' /\ FetchedWhole'
  BY <1>1 DEF StreamInv, FetchedWhole, Artifacts!FetchedWhole
<1>5. CASE sent < Len(Artifact) /\ sent' = sent + 1 /\ UNCHANGED stream
           /\ inflight' = Append(inflight, Artifacts!Part(Artifact[sent + 1]))
  <2> DEFINE p == Artifacts!Part(Artifact[sent + 1])
  <2>1. sent + 1 \in 1..Len(Artifact)
    BY <1>2, <1>5
  <2>2. p \in Message
    BY <2>1, ArtifactType, MessageType
  <2>3. /\ inflight' \in Seq(Message) /\ Len(inflight') = Len(inflight) + 1
        /\ \A i \in 1..Len(inflight) : inflight'[i] = inflight[i]
        /\ inflight'[Len(inflight) + 1] = p
    <3> HIDE DEF p
    <3>1. inflight' = Append(inflight, p)
      BY <1>5 DEF p
    <3>2. QED BY <1>2, <2>2, <3>1, AppendProperties
  <2>4. FetchType'
    BY <1>1, <1>5, <2>1, <2>3 DEF FetchType
  <2>5. ASSUME NEW i \in 1..sent' - Len(data')
        PROVE  inflight'[i] = Artifacts!Part(Artifact[Len(data') + i])
    <3>1. CASE i = Len(inflight) + 1
      <4>1. Len(data') + i = sent + 1
        BY <1>1, <1>2, <1>3, <3>1
      <4>2. QED BY <2>3, <3>1, <4>1
    <3>2. CASE i # Len(inflight) + 1
      <4>1. i \in 1..sent - Len(data) /\ i \in 1..Len(inflight)
        BY <1>1, <1>2, <1>3, <1>5, <3>2
      <4>2. QED BY <1>1, <1>3, <2>3, <4>1
    <3>3. QED BY <3>1, <3>2
  <2>6. Len(inflight') = sent' - Len(data') /\ Len(data') <= sent'
    BY <1>1, <1>2, <1>3, <1>5, <2>3
  <2>7. PartsInv'
    BY <1>1, <1>2, <1>3, <1>5, <2>5, <2>6 DEF PartsInv
  <2>8. QED BY <1>4, <2>4, <2>7
<1>6. ASSUME NEW w \in Message, inflight' = Append(inflight, w), stream' = "ended", UNCHANGED sent,
             w = Artifacts!Other \/ (w = Artifacts!Eof /\ sent = Len(Artifact))
      PROVE  FetchInv'
  <2>1. /\ inflight' \in Seq(Message) /\ Len(inflight') = Len(inflight) + 1
        /\ \A i \in 1..Len(inflight) : inflight'[i] = inflight[i]
        /\ inflight'[Len(inflight')] = w
    BY <1>2, <1>6, AppendProperties
  <2>2. FetchType'
    BY <1>1, <1>6, <2>1 DEF FetchType
  <2>3. PartsInv'
    BY <1>1, <1>2, <1>3, <1>6, <2>1 DEF PartsInv
  <2>4. QED BY <1>4, <2>2, <2>3
<1>7. CASE UNCHANGED <<inflight, sent>> /\ stream' \in {"ended", "broken"}
  <2>1. FetchType'
    BY <1>1, <1>7 DEF FetchType
  <2>2. PartsInv'
    BY <1>1, <1>2, <1>3, <1>7 DEF PartsInv
  <2>3. QED BY <1>4, <2>1, <2>2
<1>8. QED BY <1>5, <1>6, <1>7, MessageType DEF Artifacts!AgentStreams

LEMMA StepFetch == FetchInv /\ [Next]_vars => FetchInv'
<1> SUFFICES ASSUME FetchInv, [Next]_vars PROVE FetchInv'
  OBVIOUS
<1>1. CASE UNCHANGED artifactVars
  BY <1>1 DEF FetchInv, FetchType, StreamInv, PartsInv, FetchedWhole, Artifacts!FetchedWhole
<1>2. CASE Artifacts!FetchNext
  BY <1>2, BeginStep, FailStep, RecvStep, StreamStep DEF Artifacts!FetchNext, Artifacts!Fetcher
<1>3. QED BY <1>1, <1>2 DEF Next, vars

LEMMA FetchInvariant == Spec => []FetchInv
BY FetchInit, StepFetch, PTL DEF Spec

\* Every variable of the store client, of the artifact client and of the agent
\* has its type.
THEOREM TypeCorrect == Spec => []TypeOK
<1>1. FetchInv => Artifacts!FetchTypeOK
  <2> SUFFICES ASSUME FetchInv PROVE Artifacts!FetchTypeOK
    OBVIOUS
  <2>1. \A i \in DOMAIN inflight : inflight[i].type \in {"content", "eof", "unknown"}
    <3>1. \A i \in DOMAIN inflight : inflight[i] \in Message
      BY ElementOfSeq, LenProperties DEF FetchInv, FetchType
    <3>2. \A m \in Message : m.type \in {"content", "eof", "unknown"}
      BY DEF Message
    <3>3. QED BY <3>1, <3>2
  <2>2. QED BY <2>1 DEF FetchInv, FetchType, Artifacts!FetchTypeOK, Parts
<1>2. IInv /\ FetchInv => TypeOK
  BY <1>1 DEF IInv, TypeOK
<1>3. QED BY StoreInServices, StoreInvariant, FetchInvariant, <1>2, PTL

\* A Fetch that returns no error returns the whole artifact: however many parts
\* it has, and whether the stream ends early, breaks, or goes with the connection
\* (artifacts.go:37-51).
THEOREM WholeOrError == Spec => []FetchedWhole
<1>1. FetchInv => FetchedWhole
  BY DEF FetchInv
<1>2. QED BY FetchInvariant, <1>1, PTL
=============================================================================
