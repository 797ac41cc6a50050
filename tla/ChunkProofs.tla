---------------------------- MODULE ChunkProofs ----------------------------
(* Chunks and messages for every set of units, sizes and limits: TypeOK    *)
(* and OversizeExplained; Intact and Delivered, if no unit alone in a      *)
(* chunk makes it exactly MaxSize (MCChunk_drop shows what happens then).  *)
EXTENDS Chunk, FiniteSetTheorems, SequenceTheorems, WellFoundedInduction, TLAPS

\* The units that Observed does not refuse (observed.go:44-48).
Accepted == {u \in Units : Size[u] < MaxSize}

Batches == [of : Nat, stamp : Stamps, units : SUBSET (Nat \X Units), fields : BOOLEAN, bytes : Nat]
Explained(m) == TooLong(m) => Alone(m) \/ Unpadded(m)

\* The messages a sender may hold: those of a batch, and those sent whole.
Sendable ==
  {m \in Batches : Explained(m)} \cup
  [of : Nat, stamp : {None}, units : SUBSET (Nat \X Units), fields : BOOLEAN,
   bytes : {Whole(us) : us \in Messages}]

\* The size of a chunk is never more than what the code takes for it, unless the
\* padding was too small for a unit in it; and that is more than MaxSize only for
\* a unit alone.
Measured(m, s, us) ==
  /\ m \in Batches /\ m.units # {} /\ \A x \in m.units : x[2] \notin us
  /\ s \in Nat /\ (m.bytes <= s \/ Unpadded(m)) /\ (s <= MaxSize \/ Alone(m))

FitInv ==
  /\ sent \in Seq(Messages) /\ stamps \in Seq(Stamps) /\ Len(stamps) = Len(sent)
  /\ out \in Seq(Sendable)
  /\ spc = "fill" =>
       /\ Number \in 1..MaxMessages /\ rest \subseteq Units /\ Header <= MaxSize
       /\ Measured(cur, size, rest)

-----------------------------------------------------------------------------
(* Operators *)

\* The size of an entry is a number.
LEMMA EntryType == \A u \in Units : Entry(u) \in Nat
BY ChunkAssumption DEF ChunkAssumption, Entry

\* A set of units that is not empty has a smallest one.
LEMMA SmallestExists ==
  ASSUME NEW us \in SUBSET Units, us # {}
  PROVE  Smallest(us) \in us
<1> DEFINE Sizes == {Size[u] : u \in us}
<1>1. Sizes \subseteq Nat /\ Sizes # {}
  BY ChunkAssumption DEF ChunkAssumption
<1>2. PICK n \in Sizes : \A k \in Sizes : ~(<<k, n>> \in OpToRel(<, Nat))
  <2>1. IsWellFoundedOn(OpToRel(<, Nat), Nat)
    BY NatLessThanWellFounded
  <2> HIDE DEF Sizes
  <2>2. QED BY <1>1, <2>1, WFMin
<1>3. \A k \in Sizes : n <= k
  <2> HIDE DEF Sizes
  <2>1. \A k \in Sizes : ~(k < n)
    BY <1>1, <1>2, Zenon DEF OpToRel
  <2>2. QED BY <1>1, <2>1
<1>4. \E u \in us : \A v \in us : Size[u] <= Size[v]
  BY <1>3
<1>5. QED BY <1>4 DEF Smallest

\* A message that is not sent whole has units.
LEMMA SplitHasUnits ==
  ASSUME NEW us \in Messages, ~SendsWhole(us)
  PROVE  us # {} /\ us \subseteq Units
BY ChunkAssumption, FS_EmptySet DEF ChunkAssumption, SendsWhole

\* One or two elements of a set are a sequence over it.
LEMMA ShortSeq ==
  ASSUME NEW S, NEW x \in S, NEW y \in S
  PROVE  <<x>> \in Seq(S) /\ <<x, y>> \in Seq(S)
OBVIOUS

\* A chunk begins with one unit, and is measured.
LEMMA StartedChunk ==
  ASSUME NEW n \in Nat, NEW t \in Stamps, NEW u \in Units, NEW f \in BOOLEAN, NEW b \in Nat,
         NEW us, u \notin us, b <= MaxSize \/ ~f
  PROVE  Measured(Message(n, t, {u}, f, b), b, us)
<1> DEFINE m == Message(n, t, {u}, f, b)
<1>1. m.units = {<<n, u>>} /\ m.stamp = t /\ m.fields = f /\ m.bytes = b /\ m \in Batches
  BY DEF Message, Batches
<1>2. Alone(m) \/ f
  BY <1>1 DEF Alone
<1> HIDE DEF m
<1>3. \A x \in m.units : x[2] \notin us
  BY <1>1
<1>4. Measured(m, b, us)
  BY <1>1, <1>2, <1>3 DEF Measured
<1>5. QED BY <1>4 DEF m

\* A chunk with one more unit of those left is measured while it fits.
LEMMA GrownChunk ==
  ASSUME NEW m, NEW s, NEW us, Measured(m, s, us), NEW n \in Nat, NEW u \in us, u \in Units,
         s + Size[u] + Padding < MaxSize,
         NEW c, c = [of |-> m.of, stamp |-> m.stamp, fields |-> m.fields,
                     units |-> m.units \cup {<<n, u>>}, bytes |-> m.bytes + Entry(u)]
  PROVE  Measured(c, s + Size[u] + Padding, us \ {u})
<1>1. /\ m.bytes \in Nat /\ s \in Nat /\ Entry(u) \in Nat
      /\ Size[u] \in Nat /\ Padding \in Nat /\ MaxSize \in Nat
  BY EntryType, ChunkAssumption DEF ChunkAssumption, Measured, Batches
<1>2. c \in Batches /\ c.units = m.units \cup {<<n, u>>} /\ c.bytes = m.bytes + Entry(u)
  BY <1>1 DEF Measured, Batches
<1>3. c.units # {} /\ \A x \in c.units : x[2] \notin us \ {u}
  BY <1>2 DEF Measured
<1>4. c.bytes <= s + Size[u] + Padding \/ Unpadded(c)
  <2>1. CASE Unpadded(m)
    BY <1>2, <2>1 DEF Unpadded
  <2>2. CASE Entry(u) > Size[u] + Padding
    <3>1. PICK x \in m.units : x # <<n, u>>
      BY DEF Measured
    <3>2. x \in c.units /\ <<n, u>> \in c.units /\ <<n, u>>[2] = u
      BY <1>2
    <3>3. QED BY <2>2, <3>1, <3>2 DEF Unpadded
  <2>3. CASE m.bytes <= s /\ ~(Entry(u) > Size[u] + Padding)
    BY <1>1, <1>2, <2>3
  <2>4. QED BY <2>1, <2>2, <2>3 DEF Measured
<1>5. QED BY <1>1, <1>2, <1>3, <1>4 DEF Measured

\* A measured chunk may be sent.
LEMMA MeasuredSendable ==
  ASSUME NEW m, NEW s, NEW us, Measured(m, s, us)
  PROVE  m \in Sendable
<1>1. m.bytes \in Nat /\ s \in Nat /\ MaxSize \in Nat
  BY ChunkAssumption DEF ChunkAssumption, Measured, Batches
<1>2. Explained(m)
  BY <1>1 DEF Measured, Explained, TooLong
<1>3. QED BY <1>2 DEF Measured, Sendable

-----------------------------------------------------------------------------
(* The invariant *)

\* Begin: a message sent whole is no batch; the first chunk is measured.
LEMMA StepBegin ==
  ASSUME FitInv, NEW us \in Messages, NEW now \in Stamps, Begin(us, now)
  PROVE  FitInv'
<1>1. sent' \in Seq(Messages) /\ stamps' \in Seq(Stamps) /\ Len(stamps') = Len(sent')
      /\ Len(sent') \in 1..MaxMessages /\ Number + 1 \in Nat
  BY ChunkAssumption, AppendProperties DEF ChunkAssumption, Begin, FitInv, Number
<1>2. CASE SendsWhole(us) /\ spc' = "send"
           /\ out' = <<Message(Number + 1, None, us, TRUE, Whole(us))>>
  <2>1. Message(Number + 1, None, us, TRUE, Whole(us)) \in Sendable
    BY <1>1, ChunkAssumption DEF ChunkAssumption, Message, Sendable
  <2>2. out' \in Seq(Sendable)
    BY <1>2, <2>1, ShortSeq
  <2>3. QED BY <1>1, <1>2, <2>2 DEF FitInv
<1>3. CASE spc' = "failed" /\ UNCHANGED out
  BY <1>1, <1>3 DEF FitInv
<1>4. CASE /\ ~SendsWhole(us) /\ ~Refused(us) /\ spc' = "fill"
           /\ LET u == Smallest(us) IN
                /\ cur' = Message(Number + 1, now, {u}, TRUE, First + Entry(u))
                /\ size' = First + Entry(u) /\ rest' = us \ {u}
           /\ UNCHANGED out
  <2>1. PICK u \in us : u = Smallest(us) /\ u \in Units /\ us \subseteq Units
    BY <1>4, SplitHasUnits, SmallestExists
  <2>2. First + Entry(u) \in Nat /\ First + Entry(u) <= MaxSize /\ Header <= MaxSize
    BY <1>4, <2>1, EntryType, ChunkAssumption DEF ChunkAssumption, Refused
  <2>3. PICK b \in Nat : b = First + Entry(u)
    BY <2>2
  <2>4. cur' = Message(Number + 1, now, {u}, TRUE, b) /\ size' = b /\ rest' = us \ {u}
    BY <1>4, <2>1, <2>3
  <2>5. Measured(Message(Number + 1, now, {u}, TRUE, b), b, us \ {u})
    BY <1>1, <2>1, <2>2, <2>3, StartedChunk
  <2>6. Measured(cur', size', rest')
    BY <2>4, <2>5
  <2>7. rest' \subseteq Units /\ Number' \in 1..MaxMessages
    BY <1>1, <2>1, <2>4 DEF Number
  <2>8. QED BY <1>1, <1>4, <2>2, <2>6, <2>7 DEF FitInv
<1>5. QED BY <1>2, <1>3, <1>4 DEF Begin

\* PlaceUnit: what the unit adds is counted, or the padding is too small for it.
LEMMA StepPlace ==
  ASSUME FitInv, PlaceUnit
  PROVE  FitInv'
<1>1. PICK u \in rest : u = Smallest(rest) /\ u \in Units
  BY SmallestExists DEF PlaceUnit, Filling, FitInv
<1>2. /\ Number \in Nat /\ Now \in Stamps /\ Measured(cur, size, rest) /\ cur \in Sendable
      /\ Header + Entry(u) \in Nat
  BY <1>1, ElementOfSeq, EntryType, MeasuredSendable, ChunkAssumption
    DEF ChunkAssumption, PlaceUnit, FitInv, Number, Now
<1>3. /\ UNCHANGED <<sent, stamps, spc>> /\ rest' = rest \ {u} /\ rest' \subseteq Units
      /\ Number' = Number
  BY <1>1 DEF PlaceUnit, FitInv, Number
<1>4. CASE Fits(u) /\ size' = size + Counted(u) /\ UNCHANGED out
           /\ cur' = [of |-> cur.of, stamp |-> cur.stamp, fields |-> cur.fields,
                      units |-> cur.units \cup {<<Number, u>>}, bytes |-> cur.bytes + Entry(u)]
  <2>1. size' = size + Size[u] + Padding /\ size + Size[u] + Padding < MaxSize
    BY <1>1, <1>2, <1>4, ChunkAssumption DEF ChunkAssumption, Fits, Counted, Measured
  <2>2. Measured(cur', size + Size[u] + Padding, rest \ {u})
    BY <1>1, <1>2, <1>4, <2>1, GrownChunk
  <2>3. Measured(cur', size', rest')
    BY <1>3, <2>1, <2>2
  <2>4. QED BY <1>3, <1>4, <2>3 DEF FitInv
<1>5. CASE out' = Append(out, cur) /\ cur' = Message(Number, Now, {u}, FALSE, Header + Entry(u))
           /\ size' = Header + Entry(u)
  <2>1. out' \in Seq(Sendable)
    BY <1>2, <1>5, AppendProperties DEF FitInv
  <2>2. PICK b \in Nat : b = Header + Entry(u)
    BY <1>2
  <2>3. Measured(Message(Number, Now, {u}, FALSE, b), b, rest \ {u})
    BY <1>1, <1>2, StartedChunk
  <2>4. Measured(cur', size', rest')
    BY <1>3, <1>5, <2>2, <2>3
  <2>5. QED BY <1>3, <2>1, <2>4 DEF FitInv
<1>6. QED BY <1>1, <1>4, <1>5 DEF PlaceUnit

\* FillDone: the last chunk is measured, the empty one fits.
LEMMA StepDone ==
  ASSUME FitInv, FillDone
  PROVE  FitInv'
<1>1. Number \in Nat /\ Now \in Stamps /\ cur \in Sendable /\ Header <= MaxSize
  BY ElementOfSeq, MeasuredSendable DEF FillDone, FitInv, Number, Now
<1>2. PICK m : m = Message(Number, Now, {}, FALSE, Header)
  OBVIOUS
<1>3. m \in Sendable
  <2>1. m \in Batches /\ m.bytes = Header
    BY <1>1, <1>2, ChunkAssumption DEF ChunkAssumption, Message, Batches
  <2>2. Explained(m)
    BY <1>1, <2>1, ChunkAssumption DEF ChunkAssumption, Explained, TooLong
  <2>3. QED BY <2>1, <2>2 DEF Sendable
<1>4. Ending \in Seq(Sendable)
  BY <1>1, <1>2, <1>3, ShortSeq DEF Ending
<1>5. out' \in Seq(Sendable)
  BY <1>4, ConcatProperties DEF FillDone, FitInv
<1>6. QED BY <1>5 DEF FillDone, FitInv

\* FitInv is inductive: the other steps add nothing to out.
LEMMA StepFit == FitInv /\ [Next]_vars => FitInv'
<1> SUFFICES ASSUME FitInv, [Next]_vars PROVE FitInv'
  OBVIOUS
<1>1. CASE Send
  <2>1. CASE out' = Tail(out) /\ spc' \in {"idle", "send"}
    BY <1>1, <2>1, HeadTailProperties DEF Send, FitInv
  <2>2. CASE UNCHANGED <<out, spc>>
    BY <1>1, <2>2 DEF Send, FitInv
  <2>3. QED BY <1>1, <2>1, <2>2 DEF Send
<1>2. CASE Abandon \/ Reconnect
  <2>1. out' \in Seq(Sendable)
    BY <1>2, EmptySeq DEF Abandon, Reconnect
  <2>2. UNCHANGED <<sent, stamps>> /\ spc' = "idle"
    BY <1>2 DEF Abandon, Reconnect
  <2>3. QED BY <2>1, <2>2 DEF FitInv
<1>3. CASE Break \/ Recv \/ Done \/ UNCHANGED vars
  BY <1>3 DEF Break, Recv, Done, vars, senderVars, FitInv, Number
<1>4. QED BY <1>1, <1>2, <1>3, StepBegin, StepPlace, StepDone DEF Next

\* For all units, sizes and limits: a chunk that gRPC does not send is a unit that
\* is too long with the header of a chunk of its own, or has units that add more
\* than the padding counts for them (observed.go:58-97).
THEOREM OversizeOnlyAtTheLimits == Spec => []OversizeExplained
<1>1. Init => FitInv
  BY DEF Init, FitInv
<1>2. FitInv /\ [Next]_vars => FitInv'
  BY StepFit
<1>3. FitInv => OversizeExplained
  BY DEF FitInv, OversizeExplained, Sendable, Explained, TooLong
<1>4. QED BY <1>1, <1>2, <1>3, PTL DEF Spec

-----------------------------------------------------------------------------
(* What is on its way: the stream, the chunks to send, the chunk being filled. *)

Chunks == [of : 1..MaxMessages, stamp : 1..MaxMessages,
           units : SUBSET ((1..MaxMessages) \X Units), fields : BOOLEAN, bytes : Nat]

Wholes == [of : 1..MaxMessages, stamp : {None},
           units : SUBSET ((1..MaxMessages) \X Units), fields : BOOLEAN,
           bytes : {Whole(us) : us \in Messages}]
Pieces == Chunks \cup Wholes

Held == IF spc = "fill" THEN <<cur>> ELSE <<>>
Flow == wire \o out \o Held

\* The units of the n-th message.
Own(n) == {<<n, u>> : u \in sent[n]}

\* The last piece of its message.
Ends(m) == m.stamp = None \/ m.units = {}

SenderInv ==
  /\ sent \in Seq(Messages) /\ stamps \in Seq(Stamps) /\ Len(stamps) = Len(sent)
  /\ Len(sent) <= MaxMessages
  /\ \A i, j \in 1..Number : stamps[i] = stamps[j] => i = j

\* gRPC sent all that is on the stream.
WireFits == \A i \in 1..Len(wire) : ~TooLong(wire[i])

ChunkInv ==
  /\ spc \in {"idle", "fill", "send", "failed"} /\ link \in {"open", "broken"}
  /\ size \in Nat /\ rest \subseteq Units
  /\ wire \in Seq(Pieces) /\ out \in Seq(Pieces)
  /\ out # <<>> => spc \in {"fill", "send"}
  /\ link = "broken" => wire = <<>>
  /\ WireFits
  /\ IF spc = "fill" THEN cur \in Chunks /\ Number \in 1..MaxMessages ELSE cur = None

BaseInv == SenderInv /\ ChunkInv

\* While a chunk is filled there is room, and no unit that was refused.
RoomInv == spc = "fill" => rest \subseteq Accepted /\ (size < MaxSize \/ TooLong(cur))

\* A piece has units of one message; the first piece of a batch has some.
PieceOK(m) ==
  /\ m.of \in 1..Number /\ m.units \subseteq Own(m.of)
  /\ m.stamp = None => m.units = Own(m.of) /\ m.fields
  /\ m.stamp # None => m.stamp = stamps[m.of] /\ (m.fields => m.units # {})

FlowPieces == \A i \in 1..Len(Flow) : PieceOK(Flow[i])

FlowOrder ==
  \A i, j \in 1..Len(Flow) : i < j =>
    Flow[i].of <= Flow[j].of /\ (Ends(Flow[i]) => Flow[i].of < Flow[j].of)

FirstInv ==
  first # None =>
    /\ first \in Chunks /\ PieceOK(first) /\ first.fields
    /\ \A i \in 1..Len(Flow) : first.of <= Flow[i].of

\* RecvObserved passes the batch over that the stream begins with.
Passed(n) == first # None /\ first.stamp > stamps[n] /\ Flow[1].of = n

Started(n, k) ==
  \/ \E j \in 1..k : Flow[j].of = n /\ Flow[j].fields
  \/ first # None /\ first.of = n
  \/ Passed(n)

\* A unit is in a piece, or is not sent because that piece of its message is not.
Holds(m, x) == x \in m.units \/ (TooLong(m) /\ m.of = x[1])
Gathered(x, k) == (\E j \in 1..k : Holds(Flow[j], x)) \/ (first # None /\ x \in first.units)

\* Before a chunk there is the first one of its batch; before the end of a batch
\* there are all its units.
FlowStarted == \A i \in 1..Len(Flow) : Flow[i].stamp # None => Started(Flow[i].of, i)
FlowComplete ==
  \A i \in 1..Len(Flow) : Flow[i].stamp # None /\ Flow[i].units = {} =>
    Passed(Flow[i].of) \/ \A x \in Own(Flow[i].of) : Gathered(x, i - 1)

\* Of the message being split, each unit is left or in a chunk.
FillInv ==
  spc = "fill" =>
    /\ cur.of = Number /\ cur.units # {} /\ rest \subseteq sent[Number]
    /\ \/ Passed(Number)
       \/ \A x \in Own(Number) : x \in {<<Number, u>> : u \in rest} \/ Gathered(x, Len(Flow))

ReceivedInv ==
  /\ received \in Seq(Pieces)
  /\ \A k \in 1..Len(received) :
       received[k].of \in 1..Number /\ received[k].units = Own(received[k].of) /\ received[k].fields
  /\ \A j, k \in 1..Len(received) : j < k => received[j].of < received[k].of

\* What is on its way comes after what was received.
AfterReceived ==
  \A k \in 1..Len(received) :
    /\ \A i \in 1..Len(Flow) : received[k].of < Flow[i].of
    /\ first # None => received[k].of < first.of

FlowInv ==
  /\ FlowPieces /\ FlowOrder /\ FirstInv /\ FlowStarted /\ FlowComplete /\ AfterReceived

IInv == BaseInv /\ RoomInv /\ ReceivedInv /\ (link = "open" => FlowInv /\ FillInv)

\* With nothing refused, given up or broken, the messages are received in order, and
\* each one that was not has its last piece on the way or is being split.
OrderedInv ==
  ~lossy =>
    /\ link = "open" /\ spc # "failed"
    /\ \A k \in 1..Len(received) : received[k].of = k
    /\ \A n \in 1..Number : n > Len(received) =>
         \/ n = Number /\ spc = "fill"
         \/ \E i \in 1..Len(Flow) : Flow[i].of = n /\ Ends(Flow[i])

-----------------------------------------------------------------------------
(* Types *)

LEMMA WholeType ==
  ASSUME NEW n \in 1..MaxMessages, NEW us \in Messages
  PROVE  Message(n, None, us, TRUE, Whole(us)) \in Pieces
BY ChunkAssumption DEF ChunkAssumption, Message, Wholes, Pieces

LEMMA ChunkType ==
  ASSUME NEW n \in 1..MaxMessages, NEW t \in Stamps, NEW us \in SUBSET Units,
         NEW f \in BOOLEAN, NEW b \in Nat
  PROVE  Message(n, t, us, f, b) \in Chunks
BY DEF Message, Chunks, Stamps

\* A chunk is a piece, and not None.
LEMMA ChunksArePieces ==
  /\ Chunks \subseteq Pieces /\ None \notin Chunks
  /\ \A m \in Chunks : m.stamp \in Stamps /\ m.stamp \in Nat /\ m.stamp # None /\ m.fields \in BOOLEAN
  /\ \A m \in Pieces : m.fields \in BOOLEAN /\ (m.stamp # None => m \in Chunks)
BY ChunkAssumption DEF ChunkAssumption, Chunks, Pieces, Wholes, Stamps

LEMMA GrownType ==
  ASSUME NEW m \in Chunks, NEW n \in 1..MaxMessages, NEW u \in Units, NEW b \in Nat,
         NEW c, c = [of |-> m.of, stamp |-> m.stamp, fields |-> m.fields,
                     units |-> m.units \cup {<<n, u>>}, bytes |-> b]
  PROVE  c \in Chunks
BY DEF Chunks

LEMMA BaseBegin ==
  ASSUME BaseInv, NEW us \in Messages, NEW now \in Stamps, Begin(us, now)
  PROVE  BaseInv'
<1>1. Len(sent) \in Nat /\ Number' = Number + 1 /\ Number + 1 \in 1..MaxMessages
      /\ Len(stamps) = Number /\ us \subseteq Units
  BY ChunkAssumption, AppendProperties, LenProperties
  DEF ChunkAssumption, Begin, BaseInv, SenderInv, Number
<1>2. SenderInv'
  <2>1. sent' \in Seq(Messages) /\ stamps' \in Seq(Stamps) /\ Len(stamps') = Number'
    BY <1>1, AppendProperties DEF Begin, BaseInv, SenderInv, Number
  <2>2. stamps'[Number'] = now /\ \A k \in 1..Number : stamps'[k] = stamps[k] /\ stamps[k] # now
    BY <1>1, AppendProperties DEF Begin, BaseInv, SenderInv, Number
  <2>3. \A i, j \in 1..Number' : stamps'[i] = stamps'[j] => i = j
    BY <1>1, <2>2 DEF BaseInv, SenderInv
  <2>4. QED BY <1>1, <2>1, <2>3 DEF SenderInv, Number
<1>3. /\ out = <<>> /\ cur = None /\ size \in Nat /\ rest \subseteq Units /\ out \in Seq(Pieces)
      /\ UNCHANGED <<wire, link>> /\ link = "open" /\ wire \in Seq(Pieces) /\ WireFits'
  BY DEF Begin, BaseInv, ChunkInv, WireFits
<1>4. CASE SendsWhole(us) /\ spc' = "send"
           /\ out' = <<Message(Number + 1, None, us, TRUE, Whole(us))>>
           /\ UNCHANGED <<cur, size, rest>>
  <2>1. Message(Number + 1, None, us, TRUE, Whole(us)) \in Pieces
    BY <1>1, WholeType
  <2>2. out' \in Seq(Pieces)
    BY <1>4, <2>1, ShortSeq
  <2>3. ChunkInv'
    BY <1>3, <1>4, <2>2 DEF ChunkInv
  <2>4. QED BY <1>2, <2>3 DEF BaseInv
<1>5. CASE spc' = "failed" /\ UNCHANGED <<cur, size, rest, out>>
  <2>1. ChunkInv'
    BY <1>3, <1>5 DEF ChunkInv
  <2>2. QED BY <1>2, <2>1 DEF BaseInv
<1>6. CASE /\ ~SendsWhole(us) /\ spc' = "fill"
           /\ LET u == Smallest(us) IN
                /\ cur' = Message(Number + 1, now, {u}, TRUE, First + Entry(u))
                /\ size' = First + Entry(u) /\ rest' = us \ {u}
           /\ UNCHANGED out
  <2>1. PICK u \in us : u = Smallest(us) /\ u \in Units
    BY <1>6, SplitHasUnits, SmallestExists
  <2>2. First + Entry(u) \in Nat
    BY <2>1, EntryType, ChunkAssumption DEF ChunkAssumption
  <2>3. cur' \in Chunks
    <3>1. {u} \in SUBSET Units
      BY <2>1
    <3>2. Message(Number + 1, now, {u}, TRUE, First + Entry(u)) \in Chunks
      BY <1>1, <2>2, <3>1, ChunkType
    <3>3. QED BY <1>6, <2>1, <3>2
  <2>4. size' \in Nat /\ rest' \subseteq Units
    BY <1>1, <1>6, <2>1, <2>2
  <2>5. ChunkInv'
    BY <1>1, <1>3, <1>6, <2>3, <2>4 DEF ChunkInv
  <2>6. QED BY <1>2, <2>5 DEF BaseInv
<1>7. QED BY <1>4, <1>5, <1>6 DEF Begin

LEMMA BasePlace ==
  ASSUME BaseInv, PlaceUnit
  PROVE  BaseInv'
<1>1. PICK u \in rest : u = Smallest(rest) /\ u \in Units
  BY SmallestExists DEF PlaceUnit, Filling, BaseInv, ChunkInv
<1>2. Entry(u) \in Nat /\ Counted(u) \in Nat /\ Header \in Nat
  BY <1>1, EntryType, ChunkAssumption DEF ChunkAssumption, Counted
<1>3. Number \in 1..MaxMessages /\ Now \in Stamps /\ cur \in Chunks /\ cur.bytes \in Nat /\ cur \in Pieces
  BY ElementOfSeq, ChunksArePieces DEF PlaceUnit, BaseInv, SenderInv, ChunkInv, Number, Now, Chunks
<1>4. SenderInv'
  BY DEF PlaceUnit, BaseInv, SenderInv, Number
<1>5. /\ spc = "fill" /\ UNCHANGED <<spc, wire, link, sent>> /\ rest' \subseteq Units /\ size \in Nat
      /\ link \in {"open", "broken"} /\ (link = "broken" => wire = <<>>)
      /\ wire \in Seq(Pieces) /\ out \in Seq(Pieces) /\ WireFits'
  BY DEF PlaceUnit, BaseInv, ChunkInv, WireFits
<1>6. CASE size' = size + Counted(u) /\ UNCHANGED out
           /\ cur' = [of |-> cur.of, stamp |-> cur.stamp, fields |-> cur.fields,
                      units |-> cur.units \cup {<<Number, u>>}, bytes |-> cur.bytes + Entry(u)]
  <2>1. size' \in Nat
    BY <1>2, <1>5, <1>6
  <2>2. cur' \in Chunks
    BY <1>1, <1>2, <1>3, <1>6, GrownType
  <2>3. ChunkInv'
    BY <1>3, <1>5, <1>6, <2>1, <2>2 DEF ChunkInv, Number
  <2>4. QED BY <1>4, <2>3 DEF BaseInv
<1>7. CASE out' = Append(out, cur) /\ cur' = Message(Number, Now, {u}, FALSE, Header + Entry(u))
           /\ size' = Header + Entry(u)
  <2>1. out' \in Seq(Pieces)
    BY <1>3, <1>5, <1>7, AppendProperties
  <2>2. cur' \in Chunks /\ size' \in Nat
    <3>1. {u} \in SUBSET Units /\ Header + Entry(u) \in Nat
      BY <1>1, <1>2
    <3>2. QED BY <1>3, <1>7, <3>1, ChunkType
  <2>3. ChunkInv'
    BY <1>3, <1>5, <2>1, <2>2 DEF ChunkInv, Number
  <2>4. QED BY <1>4, <2>3 DEF BaseInv
<1>8. QED BY <1>1, <1>6, <1>7 DEF PlaceUnit

LEMMA BaseDone ==
  ASSUME BaseInv, FillDone
  PROVE  BaseInv'
<1>1. Number \in 1..MaxMessages /\ Now \in Stamps /\ cur \in Pieces
  BY ElementOfSeq, ChunksArePieces DEF FillDone, BaseInv, SenderInv, ChunkInv, Number, Now
<1>2. Message(Number, Now, {}, FALSE, Header) \in Pieces
  BY <1>1, ChunkType, ChunksArePieces, ChunkAssumption DEF ChunkAssumption
<1>3. Ending \in Seq(Pieces)
  BY <1>1, <1>2, ShortSeq DEF Ending
<1>4. out' \in Seq(Pieces)
  BY <1>3, ConcatProperties DEF FillDone, BaseInv, ChunkInv
<1>5. SenderInv'
  BY DEF FillDone, BaseInv, SenderInv, Number
<1>6. ChunkInv'
  BY <1>4 DEF FillDone, BaseInv, ChunkInv, WireFits
<1>7. QED BY <1>5, <1>6 DEF BaseInv

LEMMA BaseSend ==
  ASSUME BaseInv, Send
  PROVE  BaseInv'
<1>1. Head(out) \in Pieces /\ Tail(out) \in Seq(Pieces) /\ Append(wire, Head(out)) \in Seq(Pieces)
      /\ <<>> \in Seq(Pieces)
  BY HeadTailProperties, AppendProperties, EmptySeq DEF Send, BaseInv, ChunkInv
<1>2. SenderInv'
  BY DEF Send, BaseInv, SenderInv, Number
<1>3. CASE wire' = Append(wire, Head(out)) /\ out' = Tail(out) /\ UNCHANGED link
           /\ spc' = (IF Tail(out) = <<>> THEN "idle" ELSE "send") /\ Head(out).bytes <= MaxSize
  <2>1. ~TooLong(Head(out))
    <3>1. Head(out) \in Pieces
      BY <1>1
    <3>2. SUFFICES ASSUME Head(out).stamp # None PROVE ~(Head(out).bytes > MaxSize)
      BY DEF TooLong
    <3>3. Head(out) \in Chunks
      BY <3>1, <3>2, ChunksArePieces
    <3>4. Head(out).bytes \in Nat
      BY <3>3 DEF Chunks
    <3>5. QED BY <1>3, <3>4, ChunkAssumption DEF ChunkAssumption
  <2>2. WireFits'
    BY <1>1, <1>3, <2>1, AppendProperties DEF BaseInv, ChunkInv, WireFits
  <2>3. ChunkInv'
    BY <1>1, <1>3, <2>2 DEF Send, BaseInv, ChunkInv
  <2>4. QED BY <1>2, <2>3 DEF BaseInv
<1>4. CASE link' = "broken" /\ wire' = <<>> /\ UNCHANGED <<out, spc>>
  <2>1. WireFits'
    BY <1>4 DEF WireFits
  <2>2. QED BY <1>1, <1>2, <1>4, <2>1 DEF Send, BaseInv, ChunkInv
<1>5. QED BY <1>3, <1>4 DEF Send

LEMMA StepBase == BaseInv /\ [Next]_vars => BaseInv'
<1> SUFFICES ASSUME BaseInv, [Next]_vars PROVE BaseInv'
  OBVIOUS
<1>1. CASE Abandon \/ Reconnect \/ Break
  <2>1. SenderInv'
    BY <1>1 DEF Abandon, Reconnect, Break, senderVars, BaseInv, SenderInv, Number
  <2>2. <<>> \in Seq(Pieces) /\ 0 \in Nat /\ {} \subseteq Units /\ WireFits'
    BY <1>1, EmptySeq DEF Abandon, Reconnect, Break, BaseInv, ChunkInv, WireFits
  <2>3. ASSUME Abandon PROVE ChunkInv'
    BY <2>2, <2>3 DEF Abandon, BaseInv, ChunkInv
  <2>4. ASSUME Reconnect PROVE ChunkInv'
    BY <2>2, <2>4 DEF Reconnect, BaseInv, ChunkInv
  <2>5. ASSUME Break PROVE ChunkInv'
    BY <2>2, <2>5 DEF Break, senderVars, BaseInv, ChunkInv, Number
  <2>6. QED BY <1>1, <2>1, <2>3, <2>4, <2>5 DEF BaseInv
<1>2. CASE Recv
  <2>1. Tail(wire) \in Seq(Pieces) /\ link # "broken"
    BY <1>2, HeadTailProperties DEF Recv, BaseInv, ChunkInv
  <2>2. WireFits'
    <3>1. Len(Tail(wire)) = Len(wire) - 1 /\ \A i \in 1..Len(wire) - 1 : Tail(wire)[i] = wire[i + 1]
      BY <1>2, HeadTailProperties DEF Recv, BaseInv, ChunkInv
    <3>2. QED BY <1>2, <3>1 DEF Recv, BaseInv, ChunkInv, WireFits
  <2>3. QED BY <1>2, <2>1, <2>2 DEF Recv, senderVars, BaseInv, SenderInv, ChunkInv, Number
<1>3. CASE Done \/ UNCHANGED vars
  BY <1>3 DEF Done, vars, senderVars, BaseInv, SenderInv, ChunkInv, WireFits, Number
<1>4. QED BY <1>1, <1>2, <1>3, BaseBegin, BasePlace, BaseDone, BaseSend DEF Next

LEMMA InitBase == Init => BaseInv
BY EmptySeq, ChunkAssumption DEF Init, BaseInv, SenderInv, ChunkInv, WireFits, ChunkAssumption, Number

\* Every variable of the sender and of the stream has its type, and chunks wait only
\* for a sender that is splitting a message or sending one.
THEOREM TypeCorrect == Spec => []TypeOK
<1>1. BaseInv => TypeOK
  BY ChunksArePieces DEF BaseInv, SenderInv, ChunkInv, TypeOK
<1>2. QED BY InitBase, StepBase, <1>1, PTL DEF Spec

-----------------------------------------------------------------------------
(* How the steps change what is on its way *)

\* Three sequences after each other, place by place.
LEMMA ThreeParts ==
  ASSUME NEW S, NEW w \in Seq(S), NEW o \in Seq(S), NEW h \in Seq(S)
  PROVE  /\ (w \o o) \o h \in Seq(S)
         /\ Len((w \o o) \o h) = Len(w) + Len(o) + Len(h)
         /\ \A i \in 1..Len(w) + Len(o) + Len(h) :
              ((w \o o) \o h)[i] = IF i <= Len(w) THEN w[i]
                                   ELSE IF i <= Len(w) + Len(o) THEN o[i - Len(w)]
                                   ELSE h[i - Len(w) - Len(o)]
<1>1. /\ w \o o \in Seq(S) /\ Len(w \o o) = Len(w) + Len(o)
      /\ \A i \in 1..Len(w) + Len(o) : (w \o o)[i] = IF i <= Len(w) THEN w[i] ELSE o[i - Len(w)]
  BY ConcatProperties
<1>2. Len(w) \in Nat /\ Len(o) \in Nat /\ Len(h) \in Nat
  BY LenProperties
<1> DEFINE f == w \o o
<1> HIDE DEF f
<1>3. /\ f \o h \in Seq(S) /\ Len(f \o h) = Len(f) + Len(h)
      /\ \A i \in 1..Len(f) + Len(h) : (f \o h)[i] = IF i <= Len(f) THEN f[i] ELSE h[i - Len(f)]
  BY <1>1, ConcatProperties DEF f
<1>4. Len(f) = Len(w) + Len(o)
  BY <1>1 DEF f
<1>5. \A i \in 1..Len(w) + Len(o) : f[i] = IF i <= Len(w) THEN w[i] ELSE o[i - Len(w)]
  BY <1>1 DEF f
<1>6. QED BY <1>2, <1>3, <1>4, <1>5 DEF f

\* G is F and one more piece, m.
Adds(F, G, m) ==
  Len(G) = Len(F) + 1 /\ G[Len(F) + 1] = m /\ \A i \in 1..Len(F) : G[i] = F[i]

LEMMA FlowType ==
  ASSUME BaseInv
  PROVE  /\ Held \in Seq(Pieces) /\ Flow \in Seq(Pieces) /\ Len(Flow) \in Nat
         /\ Number \in Nat /\ Len(stamps) = Number
         /\ \A i \in 1..Len(Flow) : Flow[i] \in Pieces
<1>1. Held \in Seq(Pieces)
  BY EmptySeq, ShortSeq, ChunksArePieces DEF BaseInv, ChunkInv, Held
<1>2. Flow \in Seq(Pieces)
  BY <1>1, ThreeParts DEF BaseInv, ChunkInv, Flow
<1>3. QED BY <1>1, <1>2, LenProperties, ElementOfSeq DEF BaseInv, SenderInv, Number

\* Begin with a message that is sent whole or split.
LEMMA FlowBegin ==
  ASSUME BaseInv, NEW us \in Messages, NEW now \in Stamps, Begin(us, now)
  PROVE  \/ spc' = "send" /\ Adds(Flow, Flow', Message(Number + 1, None, us, TRUE, Whole(us)))
         \/ spc' = "failed" /\ Flow' = Flow
         \/ spc' = "fill" /\ Adds(Flow, Flow', cur')
<1>1. BaseInv' /\ spc = "idle" /\ out = <<>> /\ wire \in Seq(Pieces) /\ UNCHANGED wire /\ Held = <<>>
  BY BaseBegin DEF Begin, BaseInv, ChunkInv, Held
<1>2. Flow = wire
  BY <1>1, ConcatEmptySeq, EmptySeq DEF Flow
<1>3. ASSUME NEW m \in Pieces, Flow' = wire \o <<m>> PROVE Adds(Flow, Flow', m)
  <2>1. <<m>> \in Seq(Pieces) /\ Len(<<m>>) = 1 /\ <<m>>[1] = m /\ Len(wire) \in Nat
    BY <1>1, ShortSeq, LenProperties
  <2>2. QED BY <1>1, <1>2, <1>3, <2>1, ConcatProperties DEF Adds
<1>4. CASE spc' = "send" /\ out' = <<Message(Number + 1, None, us, TRUE, Whole(us))>>
  <2>1. Message(Number + 1, None, us, TRUE, Whole(us)) \in Pieces
    <3>1. Number + 1 \in 1..MaxMessages
      BY FlowType, ChunkAssumption DEF ChunkAssumption, Begin
    <3>2. QED BY <3>1, WholeType
  <2>2. Held' = <<>> /\ out' \in Seq(Pieces)
    BY <1>1, <1>4 DEF Held, BaseInv, ChunkInv
  <2>3. Flow' = wire \o out'
    BY <1>1, <2>2, ConcatEmptySeq, ConcatProperties DEF Flow
  <2>4. QED BY <1>3, <1>4, <2>1, <2>3
<1>5. CASE spc' = "failed" /\ UNCHANGED out
  <2>1. Held' = <<>>
    BY <1>5 DEF Held
  <2>2. QED BY <1>1, <1>5, <2>1 DEF Flow
<1>6. CASE spc' = "fill" /\ UNCHANGED out
  <2>1. Held' = <<cur'>> /\ cur' \in Pieces
    BY <1>1, <1>6, ChunksArePieces DEF Held, BaseInv, ChunkInv
  <2>2. Flow' = wire \o <<cur'>>
    BY <1>1, <1>6, <2>1, ConcatEmptySeq DEF Flow
  <2>3. QED BY <1>3, <1>6, <2>1, <2>2
<1>7. QED BY <1>4, <1>5, <1>6 DEF Begin

\* While a chunk is filled it is the last piece.
LEMMA FlowFill ==
  ASSUME BaseInv, spc = "fill"
  PROVE  /\ Len(Flow) = Len(wire) + Len(out) + 1 /\ Len(wire) \in Nat /\ Len(out) \in Nat
         /\ Flow[Len(Flow)] = cur
         /\ \A i \in 1..Len(wire) + Len(out) :
              Flow[i] = IF i <= Len(wire) THEN wire[i] ELSE out[i - Len(wire)]
<1>1. wire \in Seq(Pieces) /\ out \in Seq(Pieces) /\ Held \in Seq(Pieces) /\ Held = <<cur>>
      /\ Len(Held) = 1 /\ Held[1] = cur /\ Len(wire) \in Nat /\ Len(out) \in Nat
  BY FlowType, LenProperties DEF BaseInv, ChunkInv, Held
<1>2. QED BY <1>1, ThreeParts DEF Flow

\* The chunk with one more unit, and the next one.
Grown(u) == [of |-> cur.of, stamp |-> cur.stamp, fields |-> cur.fields,
             units |-> cur.units \cup {<<Number, u>>}, bytes |-> cur.bytes + Entry(u)]
Fresh(u) == Message(Number, Now, {u}, FALSE, Header + Entry(u))

\* PlaceUnit: the last piece grows, or there is one more.
LEMMA FlowPlace ==
  ASSUME BaseInv, PlaceUnit
  PROVE  \/ /\ cur' = Grown(Smallest(rest)) /\ Len(Flow') = Len(Flow) /\ Flow'[Len(Flow)] = cur'
            /\ \A i \in 1..Len(Flow) - 1 : Flow'[i] = Flow[i]
         \/ cur' = Fresh(Smallest(rest)) /\ Adds(Flow, Flow', cur')
<1>1. BaseInv' /\ spc = "fill" /\ UNCHANGED <<spc, wire>> /\ out \in Seq(Pieces) /\ cur \in Pieces
  BY BasePlace, ChunksArePieces DEF PlaceUnit, BaseInv, ChunkInv
<1>2. /\ Len(Flow) = Len(wire) + Len(out) + 1 /\ Len(wire) \in Nat /\ Len(out) \in Nat
      /\ Flow[Len(Flow)] = cur
      /\ \A i \in 1..Len(wire) + Len(out) :
           Flow[i] = IF i <= Len(wire) THEN wire[i] ELSE out[i - Len(wire)]
  BY <1>1, FlowFill
<1>3. Held' = <<cur'>> /\ cur' \in Pieces /\ out' \in Seq(Pieces) /\ wire \in Seq(Pieces)
      /\ Flow' = (wire \o out') \o <<cur'>> /\ <<cur'>> \in Seq(Pieces) /\ Len(<<cur'>>) = 1
      /\ <<cur'>>[1] = cur' /\ Len(out') \in Nat
  BY <1>1, ChunksArePieces, ShortSeq, LenProperties DEF Held, Flow, BaseInv, ChunkInv
<1>4. /\ Len(Flow') = Len(wire) + Len(out') + 1 /\ Flow'[Len(Flow')] = cur'
      /\ \A i \in 1..Len(wire) + Len(out') :
           Flow'[i] = IF i <= Len(wire) THEN wire[i] ELSE out'[i - Len(wire)]
  <2> DEFINE h == <<cur'>>
  <2>1. h \in Seq(Pieces) /\ Len(h) = 1 /\ h[1] = cur' /\ Flow' = (wire \o out') \o h
    BY <1>3
  <2> HIDE DEF h
  <2>2. QED BY <1>2, <1>3, <2>1, ThreeParts
<1>5. CASE UNCHANGED out /\ cur' = Grown(Smallest(rest))
  BY <1>2, <1>4, <1>5
<1>6. CASE out' = Append(out, cur) /\ cur' = Fresh(Smallest(rest))
  <2>1. Len(out') = Len(out) + 1 /\ out'[Len(out) + 1] = cur /\ \A i \in 1..Len(out) : out'[i] = out[i]
    BY <1>1, <1>6, AppendProperties
  <2>2. Len(Flow') = Len(Flow) + 1 /\ Flow'[Len(Flow) + 1] = cur'
    BY <1>2, <1>4, <2>1
  <2>3. ASSUME NEW i \in 1..Len(wire) + Len(out) PROVE Flow'[i] = Flow[i]
    <3>1. i \in 1..Len(wire) + Len(out') /\ (i > Len(wire) => i - Len(wire) \in 1..Len(out))
      BY <1>2, <2>1
    <3>2. QED BY <1>2, <1>4, <2>1, <3>1
  <2>4. Flow'[Len(Flow)] = Flow[Len(Flow)]
    <3>1. Len(Flow) \in 1..Len(wire) + Len(out') /\ Len(Flow) - Len(wire) = Len(out) + 1
          /\ ~(Len(Flow) <= Len(wire))
      BY <1>2, <2>1
    <3>2. QED BY <1>2, <1>4, <2>1, <3>1
  <2>5. \A i \in 1..Len(Flow) : i \in 1..Len(wire) + Len(out) \/ i = Len(Flow)
    BY <1>2
  <2>6. QED BY <1>6, <2>2, <2>3, <2>4, <2>5 DEF Adds
<1>7. QED BY <1>5, <1>6 DEF PlaceUnit, Grown, Fresh

\* FillDone: the empty chunk is one more.
LEMMA FlowDone ==
  ASSUME BaseInv, FillDone
  PROVE  Adds(Flow, Flow', Message(Number, Now, {}, FALSE, Header))
<1> DEFINE m == Message(Number, Now, {}, FALSE, Header)
<1>1. Number \in 1..MaxMessages /\ Now \in Stamps /\ cur \in Pieces
  BY ElementOfSeq, ChunksArePieces DEF FillDone, BaseInv, SenderInv, ChunkInv, Number, Now
<1>2. m \in Pieces
  BY <1>1, ChunkType, ChunksArePieces, ChunkAssumption DEF ChunkAssumption
<1>3. Ending = <<cur, m>> /\ out' = out \o Ending
  BY DEF Ending, FillDone
<1> HIDE DEF m
<1>4. /\ Ending \in Seq(Pieces) /\ Len(Ending) = 2 /\ Ending[1] = cur /\ Ending[2] = m
      /\ out \in Seq(Pieces) /\ wire \in Seq(Pieces) /\ UNCHANGED wire /\ spc = "fill" /\ spc' = "send"
  BY <1>1, <1>2, <1>3, ShortSeq DEF FillDone, BaseInv, ChunkInv
<1>5. /\ out' \in Seq(Pieces) /\ Len(out) \in Nat /\ Len(wire) \in Nat /\ Len(out') = Len(out) + 2
      /\ \A i \in 1..Len(out) + 2 : out'[i] = IF i <= Len(out) THEN out[i] ELSE Ending[i - Len(out)]
  <2>1. /\ out \o Ending \in Seq(Pieces) /\ Len(out \o Ending) = Len(out) + Len(Ending)
        /\ \A i \in 1..Len(out) + Len(Ending) :
             (out \o Ending)[i] = IF i <= Len(out) THEN out[i] ELSE Ending[i - Len(out)]
    BY <1>4, ConcatProperties
  <2>2. QED BY <1>3, <1>4, <2>1, LenProperties
<1>6. /\ Len(Flow') = Len(wire) + Len(out')
      /\ \A i \in 1..Len(wire) + Len(out') :
           Flow'[i] = IF i <= Len(wire) THEN wire[i] ELSE out'[i - Len(wire)]
  <2>1. Flow' = wire \o out'
    BY <1>4, <1>5, ConcatEmptySeq, ConcatProperties DEF Flow, Held
  <2>2. QED BY <1>4, <1>5, <2>1, ConcatProperties
<1>7. /\ Len(Flow) = Len(wire) + Len(out) + 1
      /\ Flow[Len(Flow)] = cur
      /\ \A i \in 1..Len(wire) + Len(out) :
           Flow[i] = IF i <= Len(wire) THEN wire[i] ELSE out[i - Len(wire)]
  BY <1>4, FlowFill
<1>8. out'[Len(out) + 1] = cur /\ out'[Len(out) + 2] = m
  <2>1. Len(out) + 1 - Len(out) = 1 /\ Len(out) + 2 - Len(out) = 2
        /\ Len(out) + 1 \in 1..Len(out) + 2 /\ Len(out) + 2 \in 1..Len(out) + 2
        /\ ~(Len(out) + 1 <= Len(out)) /\ ~(Len(out) + 2 <= Len(out))
    BY <1>5
  <2>2. QED BY <1>4, <1>5, <2>1
<1>9. Adds(Flow, Flow', m)
  <2>1. Len(Flow') = Len(Flow) + 1
    BY <1>5, <1>6, <1>7
  <2>2. ASSUME NEW k \in {1, 2} PROVE Flow'[Len(wire) + Len(out) + k] = out'[Len(out) + k]
    <3>1. Len(wire) + Len(out) + k \in 1..Len(wire) + Len(out')
          /\ ~(Len(wire) + Len(out) + k <= Len(wire))
          /\ Len(wire) + Len(out) + k - Len(wire) = Len(out) + k
      BY <1>5
    <3>2. QED BY <1>6, <3>1
  <2>3. Flow'[Len(Flow)] = Flow[Len(Flow)] /\ Flow'[Len(Flow) + 1] = m
    <3>1. Len(Flow) = Len(wire) + Len(out) + 1 /\ Len(Flow) + 1 = Len(wire) + Len(out) + 2
      BY <1>5, <1>7
    <3>2. QED BY <1>7, <1>8, <2>2, <3>1
  <2>4. ASSUME NEW i \in 1..Len(wire) + Len(out) PROVE Flow'[i] = Flow[i]
    <3>1. i \in 1..Len(wire) + Len(out') /\ (i > Len(wire) => i - Len(wire) \in 1..Len(out))
      BY <1>5
    <3>2. i > Len(wire) => out'[i - Len(wire)] = out[i - Len(wire)]
      BY <1>5, <3>1
    <3>3. QED BY <1>5, <1>6, <1>7, <3>1, <3>2
  <2>5. \A i \in 1..Len(Flow) : i \in 1..Len(wire) + Len(out) \/ i = Len(Flow)
    BY <1>5, <1>7
  <2>6. QED BY <2>1, <2>3, <2>4, <2>5 DEF Adds
<1>10. QED BY <1>9 DEF m

\* Send moves a piece along.
LEMMA FlowSend ==
  ASSUME BaseInv, Send, wire' = Append(wire, Head(out)), out' = Tail(out),
         spc' = IF Tail(out) = <<>> THEN "idle" ELSE "send"
  PROVE  Flow' = Flow
<1>1. /\ out \in Seq(Pieces) /\ wire \in Seq(Pieces) /\ out # <<>> /\ Held = <<>> /\ Held' = <<>>
      /\ Len(out) \in Nat /\ Len(wire) \in Nat /\ out' \in Seq(Pieces) /\ Len(out') = Len(out) - 1
      /\ \A i \in 1..Len(out') : out'[i] = out[i + 1]
  BY HeadTailProperties, LenProperties DEF Send, Held, BaseInv, ChunkInv
<1>2. /\ wire' \in Seq(Pieces) /\ Len(wire') = Len(wire) + 1 /\ wire'[Len(wire) + 1] = out[1]
      /\ \A i \in 1..Len(wire) : wire'[i] = wire[i]
  <2>1. Head(out) \in Pieces /\ Head(out) = out[1]
    BY <1>1, HeadTailProperties
  <2>2. QED BY <1>1, <2>1, AppendProperties
<1>3. Flow = wire \o out /\ Flow' = wire' \o out'
  BY <1>1, <1>2, ConcatEmptySeq, ConcatProperties DEF Flow
<1>4. /\ wire \o out \in Seq(Pieces) /\ Len(wire \o out) = Len(wire) + Len(out)
      /\ \A i \in 1..Len(wire) + Len(out) :
           (wire \o out)[i] = IF i <= Len(wire) THEN wire[i] ELSE out[i - Len(wire)]
  BY <1>1, ConcatProperties
<1>5. /\ wire' \o out' \in Seq(Pieces) /\ Len(wire' \o out') = Len(wire') + Len(out')
      /\ \A i \in 1..Len(wire') + Len(out') :
           (wire' \o out')[i] = IF i <= Len(wire') THEN wire'[i] ELSE out'[i - Len(wire')]
  BY <1>1, <1>2, ConcatProperties
<1>6. Len(Flow') = Len(Flow) /\ \A i \in 1..Len(Flow) : Flow'[i] = Flow[i]
  <2>1. Len(Flow') = Len(Flow) /\ Len(Flow) = Len(wire) + Len(out)
    BY <1>1, <1>2, <1>3, <1>4, <1>5
  <2>2. ASSUME NEW i \in 1..Len(wire) PROVE Flow'[i] = Flow[i]
    BY <1>1, <1>2, <1>3, <1>4, <1>5
  <2>3. Flow'[Len(wire) + 1] = out[1] /\ Flow[Len(wire) + 1] = out[1]
    <3>1. Len(out) >= 1
      BY <1>1, EmptySeq
    <3>2. QED BY <1>1, <1>2, <1>3, <1>4, <1>5, <3>1
  <2>4. ASSUME NEW i \in Len(wire) + 2..Len(wire) + Len(out) PROVE Flow'[i] = Flow[i]
    <3>1. i - Len(wire') \in 1..Len(out') /\ i - Len(wire') + 1 = i - Len(wire)
      BY <1>1, <1>2
    <3>2. QED BY <1>1, <1>2, <1>3, <1>4, <1>5, <3>1
  <2>5. \A i \in 1..Len(Flow) : i \in 1..Len(wire) \/ i = Len(wire) + 1 \/ i \in Len(wire) + 2..Len(wire) + Len(out)
    BY <1>1, <2>1
  <2>6. QED BY <2>1, <2>2, <2>3, <2>4, <2>5
<1>7. QED BY <1>3, <1>4, <1>5, <1>6, SeqEqual

\* Recv takes the first piece.
LEMMA FlowRecv ==
  ASSUME BaseInv, Recv
  PROVE  /\ Len(Flow) \in Nat \ {0} /\ Flow[1] = Head(wire) /\ Len(Flow') = Len(Flow) - 1
         /\ \A i \in 1..Len(Flow') : Flow'[i] = Flow[i + 1]
<1>1. /\ wire \in Seq(Pieces) /\ wire # <<>> /\ wire' = Tail(wire) /\ out \in Seq(Pieces)
      /\ Held \in Seq(Pieces) /\ UNCHANGED <<out, Held>>
  BY FlowType DEF Recv, senderVars, Held, BaseInv, ChunkInv
<1>2. /\ wire' \in Seq(Pieces) /\ Len(wire) \in Nat \ {0} /\ Len(wire') = Len(wire) - 1 /\ Len(out) \in Nat
      /\ Len(Held) \in Nat /\ \A i \in 1..Len(wire') : wire'[i] = wire[i + 1]
  BY <1>1, HeadTailProperties, LenProperties, EmptySeq
<1>3. /\ Len(Flow) = Len(wire) + Len(out) + Len(Held)
      /\ \A i \in 1..Len(wire) + Len(out) + Len(Held) :
           Flow[i] = IF i <= Len(wire) THEN wire[i]
                     ELSE IF i <= Len(wire) + Len(out) THEN out[i - Len(wire)]
                     ELSE Held[i - Len(wire) - Len(out)]
  BY <1>1, ThreeParts DEF Flow
<1>4. Flow' = (wire' \o out) \o Held
  BY <1>1 DEF Flow
<1>5. /\ Len(Flow') = Len(wire') + Len(out) + Len(Held)
      /\ \A i \in 1..Len(wire') + Len(out) + Len(Held) :
           Flow'[i] = IF i <= Len(wire') THEN wire'[i]
                      ELSE IF i <= Len(wire') + Len(out) THEN out[i - Len(wire')]
                      ELSE Held[i - Len(wire') - Len(out)]
  <2>1. PICK w \in Seq(Pieces) : w = wire'
    BY <1>2
  <2>2. Flow' = (w \o out) \o Held /\ out \in Seq(Pieces) /\ Held \in Seq(Pieces)
    BY <1>1, <1>4, <2>1
  <2>3. QED BY ONLY <2>1, <2>2, ThreeParts
<1>6. Flow[1] = Head(wire)
  BY <1>1, <1>2, <1>3
<1>7. ASSUME NEW i \in 1..Len(Flow') PROVE Flow'[i] = Flow[i + 1]
  <2>1. i + 1 \in 1..Len(Flow) /\ i - Len(wire') = i + 1 - Len(wire)
        /\ (i <= Len(wire') <=> i + 1 <= Len(wire))
    BY <1>2, <1>3, <1>5
  <2>2. CASE i <= Len(wire')
    BY <1>2, <1>3, <1>5, <2>1, <2>2
  <2>3. CASE ~(i <= Len(wire'))
    <3>1. (i <= Len(wire') + Len(out) <=> i + 1 <= Len(wire) + Len(out))
          /\ i - Len(wire') - Len(out) = i + 1 - Len(wire) - Len(out)
          /\ i \in 1..Len(wire') + Len(out) + Len(Held)
          /\ i + 1 \in 1..Len(wire) + Len(out) + Len(Held)
      BY <1>2, <1>5
    <3>2. Flow'[i] = IF i <= Len(wire') + Len(out) THEN out[i - Len(wire')]
                     ELSE Held[i - Len(wire') - Len(out)]
      BY <1>5, <2>3, <3>1
    <3>3. Flow[i + 1] = IF i + 1 <= Len(wire) + Len(out) THEN out[i + 1 - Len(wire)]
                        ELSE Held[i + 1 - Len(wire) - Len(out)]
      BY <1>3, <2>1, <2>3, <3>1
    <3>4. i <= Len(wire') + Len(out) => i - Len(wire') = i + 1 - Len(wire)
      BY <2>1
    <3>5. CASE i <= Len(wire') + Len(out)
      BY <3>1, <3>2, <3>3, <3>4, <3>5
    <3>6. CASE ~(i <= Len(wire') + Len(out))
      BY <3>1, <3>2, <3>3, <3>6
    <3>7. QED BY <3>5, <3>6
  <2>4. QED BY <2>2, <2>3
<1>8. QED BY <1>2, <1>3, <1>5, <1>6, <1>7

\* Abandon leaves what is on the stream.
LEMMA FlowAbandon ==
  ASSUME BaseInv, Abandon
  PROVE  Len(Flow') \in Nat /\ Len(Flow') <= Len(Flow) /\ \A i \in 1..Len(Flow') : Flow'[i] = Flow[i]
<1>1. /\ wire \in Seq(Pieces) /\ out \in Seq(Pieces) /\ Held \in Seq(Pieces) /\ UNCHANGED wire
      /\ out' = <<>> /\ Held' = <<>> /\ Len(wire) \in Nat /\ Len(out) \in Nat /\ Len(Held) \in Nat
  BY FlowType, LenProperties DEF Abandon, Held, BaseInv, ChunkInv
<1>2. Flow' = wire
  BY <1>1, ConcatEmptySeq, EmptySeq DEF Flow
<1>3. QED BY <1>1, <1>2, ThreeParts DEF Flow

-----------------------------------------------------------------------------
(* Room in a chunk *)

\* No unit makes a chunk of its own exactly as long as a message may be: one that
\* does ends the loop of observed.go:73 with units left.
NoExactFit == \A u \in Accepted : Header + Entry(u) # MaxSize

LEMMA StepRoom ==
  ASSUME NoExactFit, BaseInv, RoomInv, [Next]_vars
  PROVE  RoomInv'
<1>1. ASSUME NEW us \in Messages, NEW now \in Stamps, Begin(us, now) PROVE RoomInv'
  <2>1. CASE spc' # "fill"
    BY <2>1 DEF RoomInv
  <2>2. CASE ~SendsWhole(us) /\ ~Refused(us) /\ size' = First + Entry(Smallest(us))
             /\ rest' = us \ {Smallest(us)}
    <3>1. us \subseteq Accepted
      BY <2>2, SplitHasUnits, ChunkAssumption DEF ChunkAssumption, Refused, Accepted
    <3>2. Smallest(us) \in Units
      BY <2>2, SplitHasUnits, SmallestExists
    <3>3. First + Entry(Smallest(us)) < MaxSize
      BY <2>2, <3>2, EntryType, ChunkAssumption DEF ChunkAssumption, Refused
    <3>4. QED BY <2>2, <3>1, <3>3 DEF RoomInv
  <2>3. QED BY <1>1, <2>1, <2>2 DEF Begin
<1>2. ASSUME PlaceUnit PROVE RoomInv'
  <2>1. PICK u \in rest : u = Smallest(rest) /\ u \in Units
    BY <1>2, SmallestExists DEF PlaceUnit, Filling, BaseInv, ChunkInv
  <2>2. rest' \subseteq Accepted /\ u \in Accepted
    BY <1>2, <2>1 DEF PlaceUnit, RoomInv
  <2>3. CASE Fits(u) /\ size' = size + Counted(u)
    BY <2>2, <2>3 DEF RoomInv, Fits
  <2>4. CASE size' = Header + Entry(u) /\ cur' = Message(Number, Now, {u}, FALSE, Header + Entry(u))
    <3>1. Header + Entry(u) \in Nat /\ Header + Entry(u) # MaxSize /\ MaxSize \in Nat
      BY <2>1, <2>2, EntryType, ChunkAssumption DEF ChunkAssumption, NoExactFit
    <3>2. Now \in Stamps
      BY <1>2, ElementOfSeq DEF PlaceUnit, BaseInv, SenderInv, ChunkInv, Number, Now
    <3>3. cur'.stamp # None /\ cur'.bytes = Header + Entry(u)
      BY <2>4, <3>2, ChunkAssumption DEF ChunkAssumption, Message, Stamps
    <3>4. size' < MaxSize \/ TooLong(cur')
      <4>1. PICK b : b = Header + Entry(u)
        OBVIOUS
      <4>2. b \in Nat /\ b # MaxSize /\ MaxSize \in Nat /\ size' = b /\ cur'.bytes = b
        BY <2>4, <3>1, <3>3, <4>1
      <4>3. b < MaxSize \/ b > MaxSize
        BY <4>2
      <4>4. QED BY <3>3, <4>2, <4>3 DEF TooLong
    <3>5. QED BY <2>2, <3>4 DEF RoomInv, TooLong
  <2>5. QED BY <1>2, <2>1, <2>3, <2>4 DEF PlaceUnit
<1>3. CASE FillDone \/ Send \/ Abandon \/ Reconnect
  BY <1>3 DEF FillDone, Send, Abandon, Reconnect, RoomInv
<1>4. CASE Break \/ Recv \/ Done \/ UNCHANGED vars
  BY <1>4 DEF Break, Recv, Done, vars, senderVars, RoomInv
<1>5. QED BY <1>1, <1>2, <1>3, <1>4 DEF Next

-----------------------------------------------------------------------------
(* What is on its way stays in order *)

\* The messages given so far are as they were.
Kept ==
  /\ Number \in Nat /\ Number' \in Nat /\ Number <= Number'
  /\ \A n \in 1..Number : sent'[n] = sent[n] /\ stamps'[n] = stamps[n]

LEMMA OwnKept ==
  ASSUME Kept, NEW n \in 1..Number
  PROVE  Own(n)' = Own(n)
BY DEF Kept, Own

\* What holds of a batch through its first k pieces goes on to hold while they stay,
\* but for units that are added.
LEMMA Persist ==
  ASSUME Kept, UNCHANGED first, NEW k \in Nat, NEW n \in 1..Number, NEW x,
         k >= 1 \/ Flow'[1].of = Flow[1].of,
         \A j \in 1..k : /\ Flow'[j].of = Flow[j].of /\ Flow'[j].fields = Flow[j].fields
                         /\ Flow[j].units \subseteq Flow'[j].units
                         /\ (TooLong(Flow[j]) => TooLong(Flow'[j]))
  PROVE  (Started(n, k) => Started(n, k)') /\ (Passed(n) => Passed(n)')
         /\ (Gathered(x, k) => Gathered(x, k)')
<1>1. stamps'[n] = stamps[n] /\ Flow'[1].of = Flow[1].of
  BY DEF Kept
<1>2. Passed(n) => Passed(n)'
  BY <1>1 DEF Passed
<1>3. Started(n, k) => Started(n, k)'
  BY <1>2 DEF Started
<1>4. Gathered(x, k) => Gathered(x, k)'
  BY DEF Gathered, Holds, TooLong
<1>5. QED BY <1>2, <1>3, <1>4

\* The pieces stay, or the first of them, or units are added to some.
LEMMA FlowStays ==
  ASSUME BaseInv, FlowInv, Kept, UNCHANGED <<first, received>>, NEW L \in Nat, Len(Flow') = L,
         L <= Len(Flow),
         \A i \in 1..L :
           /\ Flow'[i].of = Flow[i].of /\ Flow'[i].stamp = Flow[i].stamp
           /\ Flow'[i].fields = Flow[i].fields /\ Flow[i].units \subseteq Flow'[i].units
           /\ Flow'[i].units \subseteq Own(Flow[i].of)
           /\ (Flow'[i].units = {} <=> Flow[i].units = {})
           /\ (TooLong(Flow[i]) => TooLong(Flow'[i]))
  PROVE  FlowInv'
<1>1. Len(Flow) \in Nat /\ \A i \in 1..L : i \in 1..Len(Flow) /\ PieceOK(Flow[i])
  BY FlowType DEF FlowInv, FlowPieces
<1>2. FlowPieces'
  <2> SUFFICES ASSUME NEW i \in 1..L PROVE PieceOK(Flow[i])'
    BY DEF FlowPieces
  <2>1. PICK n \in 1..Number : n = Flow[i].of /\ n = Flow'[i].of
    BY <1>1 DEF PieceOK
  <2>2. n \in 1..Number' /\ stamps'[n] = stamps[n]
    BY DEF Kept
  <2>3. Own(n)' = Own(n) /\ Own(Flow[i].of)' = Own(n) /\ Own(Flow[i].of) = Own(n)
    <3>1. Own(n)' = Own(n)
      BY OwnKept
    <3>2. Own(Flow[i].of)' = Own(n)' /\ Own(Flow[i].of) = Own(n)
      BY <2>1 DEF Own
    <3>3. QED BY <3>1, <3>2
  <2>4. /\ Flow[i].units \subseteq Own(n)
        /\ Flow[i].stamp = None => Flow[i].units = Own(n) /\ Flow[i].fields
        /\ Flow[i].stamp # None => Flow[i].stamp = stamps[n] /\ (Flow[i].fields => Flow[i].units # {})
    BY <1>1, <2>1, <2>3 DEF PieceOK
  <2>5. /\ Flow'[i].stamp = Flow[i].stamp /\ Flow'[i].fields = Flow[i].fields
        /\ Flow[i].units \subseteq Flow'[i].units /\ Flow'[i].units \subseteq Own(n)
        /\ (Flow'[i].units = {} <=> Flow[i].units = {})
    BY <2>3
  <2>6. /\ Flow'[i].units \subseteq Own(n)
        /\ Flow'[i].stamp = None => Flow'[i].units = Own(n) /\ Flow'[i].fields
        /\ Flow'[i].stamp # None =>
             Flow'[i].stamp = stamps'[n] /\ (Flow'[i].fields => Flow'[i].units # {})
    BY ONLY <2>2, <2>4, <2>5
  <2>7. QED BY <2>1, <2>2, <2>3, <2>6 DEF PieceOK
<1>3. FlowOrder'
  <2>1. \A i \in 1..L : Ends(Flow[i])' => Ends(Flow[i])
    BY DEF Ends
  <2>2. QED BY <1>1, <2>1 DEF FlowInv, FlowOrder
<1>4. FirstInv'
  <2>1. first # None => PieceOK(first)'
    <3> SUFFICES ASSUME first # None PROVE PieceOK(first)'
      OBVIOUS
    <3>1. PICK n \in 1..Number : n = first.of /\ PieceOK(first)
      BY DEF FlowInv, FirstInv, PieceOK
    <3>2. n \in 1..Number' /\ stamps'[n] = stamps[n]
      BY DEF Kept
    <3>3. Own(first.of)' = Own(n) /\ Own(first.of) = Own(n)
      <4>1. Own(n)' = Own(n)
        BY OwnKept
      <4>2. Own(first.of)' = Own(n)' /\ Own(first.of) = Own(n)
        BY <3>1 DEF Own
      <4>3. QED BY <4>1, <4>2
    <3>4. QED BY <3>1, <3>2, <3>3 DEF PieceOK
  <2>2. QED BY <1>1, <2>1 DEF FlowInv, FirstInv
<1>5. FlowStarted'
  <2> SUFFICES ASSUME NEW i \in 1..L, Flow'[i].stamp # None PROVE Started(Flow[i].of, i)'
    BY DEF FlowStarted
  <2>1. PICK n \in 1..Number : n = Flow[i].of /\ n = Flow'[i].of
    BY <1>1 DEF PieceOK
  <2>2. Started(n, i)
    BY <1>1, <2>1 DEF FlowInv, FlowStarted
  <2>3. Started(n, i)'
    BY <2>2, Persist
  <2>4. QED BY <2>1, <2>3 DEF Started, Passed
<1>6. FlowComplete'
  <2> SUFFICES ASSUME NEW i \in 1..L, Flow'[i].stamp # None, Flow'[i].units = {}
               PROVE  (Passed(Flow[i].of) \/ \A x \in Own(Flow[i].of) : Gathered(x, i - 1))'
    BY DEF FlowComplete
  <2>1. PICK n \in 1..Number : n = Flow[i].of /\ n = Flow'[i].of
    BY <1>1 DEF PieceOK
  <2>2. Passed(n) \/ \A x \in Own(n) : Gathered(x, i - 1)
    BY <1>1, <2>1 DEF FlowInv, FlowComplete
  <2>3. i - 1 \in Nat /\ Flow'[1].of = Flow[1].of /\ \A j \in 1..i - 1 : j \in 1..L
    BY <1>1
  <2>4. Passed(n)' \/ \A x \in Own(n) : Gathered(x, i - 1)'
    BY <2>2, <2>3, Persist
  <2>5. (\A x \in Own(n) : Gathered(x, i - 1)') => (\A x \in Own(Flow[i].of) : Gathered(x, i - 1))'
    <3>1. Own(Flow[i].of)' = Own(n)
      <4>1. Own(n)' = Own(n)
        BY OwnKept
      <4>2. Own(Flow[i].of)' = Own(n)'
        BY <2>1 DEF Own
      <4>3. QED BY <4>1, <4>2
    <3>2. QED BY <3>1
  <2>6. Passed(n)' => Passed(Flow[i].of)'
    BY <2>1 DEF Passed
  <2>7. QED BY <2>4, <2>5, <2>6
<1>7. AfterReceived'
  BY <1>1 DEF FlowInv, AfterReceived
<1>8. QED BY <1>2, <1>3, <1>4, <1>5, <1>6, <1>7 DEF FlowInv

LEMMA PieceKept ==
  ASSUME Kept, NEW m, PieceOK(m)
  PROVE  PieceOK(m)'
<1>1. m.of \in 1..Number' /\ stamps'[m.of] = stamps[m.of] /\ Own(m.of)' = Own(m.of)
  BY OwnKept DEF PieceOK, Kept
<1>2. QED BY <1>1 DEF PieceOK

\* One more piece, of a message that comes after the others or of the last one.
LEMMA AddPiece ==
  ASSUME BaseInv, FlowInv, Kept, UNCHANGED <<first, received>>, NEW m, NEW n, m.of = n,
         Adds(Flow, Flow', m), PieceOK(m)',
         \A i \in 1..Len(Flow) : Flow[i].of <= n /\ (Ends(Flow[i]) => Flow[i].of < n),
         first # None => first.of <= n,
         \A k \in 1..Len(received) : received[k].of < n,
         m.stamp # None /\ ~m.fields =>
           n \in 1..Number /\ Len(Flow) >= 1 /\ Started(n, Len(Flow)),
         m.stamp # None /\ m.units = {} =>
           n \in 1..Number /\ Len(Flow) >= 1
           /\ (Passed(n) \/ \A x \in Own(n) : Gathered(x, Len(Flow)))
  PROVE  FlowInv'
<1>1. PICK L \in Nat : L = Len(Flow)
  BY FlowType
<1>2. /\ Len(Flow') = L + 1 /\ Flow'[L + 1] = m
      /\ \A i \in 1..L : Flow'[i] = Flow[i] /\ PieceOK(Flow[i])
      /\ \A i \in 1..L + 1 : i \in 1..L \/ i = L + 1
  BY <1>1 DEF Adds, FlowInv, FlowPieces
<1>3. ASSUME NEW k \in 1..Number, NEW j \in Nat, j <= L, L >= 1, NEW x
      PROVE  (Started(k, j) => Started(k, j)') /\ (Passed(k) => Passed(k)')
             /\ (Gathered(x, j) => Gathered(x, j)')
  <2>1. Flow'[1].of = Flow[1].of
    BY <1>2, <1>3
  <2>2. \A i \in 1..j : /\ Flow'[i].of = Flow[i].of /\ Flow'[i].fields = Flow[i].fields
                        /\ Flow[i].units \subseteq Flow'[i].units
                        /\ (TooLong(Flow[i]) => TooLong(Flow'[i]))
    BY <1>2, <1>3
  <2>3. QED BY <1>3, <2>1, <2>2, Persist
<1>4. FlowPieces'
  <2> SUFFICES ASSUME NEW i \in 1..L + 1 PROVE PieceOK(Flow[i])'
    BY <1>2 DEF FlowPieces
  <2>1. PICK p : p = Flow'[i] /\ PieceOK(p)'
    <3>1. CASE i \in 1..L
      BY <1>2, <3>1, PieceKept
    <3>2. CASE i = L + 1
      BY <1>2, <3>2
    <3>3. QED BY <1>2, <3>1, <3>2
  <2>2. QED BY <2>1 DEF PieceOK, Own
<1>5. FlowOrder'
  <2>1. ASSUME NEW i \in 1..L + 1, NEW j \in 1..L + 1, i < j
        PROVE  Flow'[i].of <= Flow'[j].of /\ (Ends(Flow'[i]) => Flow'[i].of < Flow'[j].of)
    <3>1. i \in 1..L /\ Flow'[i] = Flow[i]
      BY <1>2, <2>1
    <3>2. CASE j \in 1..L
      BY <1>1, <1>2, <2>1, <3>1, <3>2 DEF FlowInv, FlowOrder
    <3>3. CASE j = L + 1
      BY <1>1, <1>2, <3>1, <3>3
    <3>4. QED BY <1>2, <3>2, <3>3
  <2>2. QED BY <1>2, <2>1 DEF FlowOrder, Ends
<1>6. FirstInv'
  <2>1. first # None => PieceOK(first)'
    <3>1. PICK p : p = first /\ p = first'
      OBVIOUS
    <3>2. PieceOK(p) => PieceOK(p)'
      BY PieceKept
    <3>3. QED BY <3>1, <3>2 DEF FlowInv, FirstInv, PieceOK, Own
  <2>2. first # None => \A i \in 1..L + 1 : first.of <= Flow'[i].of
    BY <1>1, <1>2 DEF FlowInv, FirstInv
  <2>3. first # None => first \in Chunks /\ first.fields
    BY DEF FlowInv, FirstInv
  <2>4. QED BY <1>2, <2>1, <2>2, <2>3 DEF FirstInv
<1>7. FlowStarted'
  <2> SUFFICES ASSUME NEW i \in 1..L + 1, Flow'[i].stamp # None PROVE Started(Flow[i].of, i)'
    BY <1>2 DEF FlowStarted
  <2>1. CASE i \in 1..L
    <3>1. PICK k \in 1..Number : k = Flow[i].of /\ k = Flow'[i].of
      BY <1>2, <2>1 DEF PieceOK
    <3>2. Started(k, i)
      BY <1>1, <1>2, <2>1, <3>1 DEF FlowInv, FlowStarted
    <3>3. Started(k, i)'
      BY <1>3, <2>1, <3>2
    <3>4. QED BY <3>1, <3>3 DEF Started, Passed
  <2>2. CASE i = L + 1
    <3>1. Flow'[i] = m
      BY <1>2, <2>2
    <3>2. CASE m.fields
      BY <3>1, <3>2 DEF Started
    <3>3. CASE ~m.fields
      <4>1. Started(n, L) /\ n \in 1..Number /\ L >= 1
        BY <1>1, <3>1, <3>3
      <4>2. Started(n, L)'
        BY <1>3, <4>1
      <4>3. Started(n, i)'
        BY <2>2, <4>2 DEF Started
      <4>4. QED BY <3>1, <4>3 DEF Started, Passed
    <3>4. QED BY <3>2, <3>3
  <2>3. QED BY <1>2, <2>1, <2>2
<1>8. FlowComplete'
  <2> SUFFICES ASSUME NEW i \in 1..L + 1, Flow'[i].stamp # None, Flow'[i].units = {}
               PROVE  (Passed(Flow[i].of) \/ \A x \in Own(Flow[i].of) : Gathered(x, i - 1))'
    BY <1>2 DEF FlowComplete
  <2>1. PICK k \in 1..Number : k = Flow'[i].of /\ L >= 1
                               /\ (Passed(k) \/ \A x \in Own(k) : Gathered(x, i - 1))
    <3>1. CASE i \in 1..L
      <4>1. Flow'[i] = Flow[i] /\ Flow[i].of \in 1..Number /\ L >= 1
        BY <1>2, <3>1 DEF PieceOK
      <4>2. Passed(Flow[i].of) \/ \A x \in Own(Flow[i].of) : Gathered(x, i - 1)
        BY <1>1, <3>1, <4>1 DEF FlowInv, FlowComplete
      <4>3. QED BY <4>1, <4>2
    <3>2. CASE i = L + 1
      <4>1. Flow'[i] = m /\ i - 1 = L
        BY <1>2, <3>2
      <4>2. QED BY <1>1, <4>1
    <3>3. QED BY <1>2, <3>1, <3>2
  <2>2. Passed(k)' \/ \A x \in Own(k) : Gathered(x, i - 1)'
    <3>1. i - 1 \in Nat /\ i - 1 <= L
      OBVIOUS
    <3>2. QED BY <1>3, <2>1, <3>1
  <2>3. Own(Flow[i].of)' = Own(k)
    <3>1. Own(k)' = Own(k)
      BY OwnKept
    <3>2. Own(Flow[i].of)' = Own(k)'
      BY <2>1 DEF Own
    <3>3. QED BY <3>1, <3>2
  <2>4. Passed(k)' => Passed(Flow[i].of)'
    BY <2>1 DEF Passed
  <2>5. QED BY <2>2, <2>3, <2>4
<1>9. AfterReceived'
  <2>1. \A k \in 1..Len(received) : \A i \in 1..L + 1 : received[k].of < Flow'[i].of
    BY <1>1, <1>2 DEF FlowInv, AfterReceived
  <2>2. QED BY <1>2, <2>1 DEF FlowInv, AfterReceived
<1>10. QED BY <1>4, <1>5, <1>6, <1>7, <1>8, <1>9 DEF FlowInv

\* While a message is split, the chunk being filled is the last piece and of the last
\* message, and what was received comes before it.
LEMMA LastPiece ==
  ASSUME BaseInv, FlowInv, FillInv, spc = "fill", NEW L, L = Len(Flow)
  PROVE  /\ L \in Nat /\ L >= 1 /\ Flow[L] = cur /\ Number \in 1..MaxMessages
         /\ cur \in Chunks /\ cur \in Pieces /\ cur.stamp # None /\ cur.units # {}
         /\ cur.of = Number /\ cur.stamp = stamps[Number] /\ cur.units \subseteq Own(Number)
         /\ Started(Number, L)
         /\ \A i \in 1..L : Flow[i].of <= Number /\ (Ends(Flow[i]) => Flow[i].of < Number)
         /\ first # None => first.of <= Number
         /\ \A k \in 1..Len(received) : received[k].of < Number
<1>1. L \in Nat /\ L >= 1 /\ Flow[L] = cur
  BY FlowFill
<1>2. /\ Number \in 1..MaxMessages /\ cur \in Chunks /\ cur \in Pieces /\ cur.stamp # None
      /\ cur.units # {} /\ cur.of = Number
  BY ChunksArePieces DEF BaseInv, ChunkInv, FillInv
<1>3. PieceOK(cur)
  BY <1>1 DEF FlowInv, FlowPieces
<1>4. cur.stamp = stamps[Number] /\ cur.units \subseteq Own(Number)
  BY <1>2, <1>3 DEF PieceOK
<1>5. Started(Number, L)
  BY <1>1, <1>2 DEF FlowInv, FlowStarted
<1>6. ASSUME NEW i \in 1..L PROVE Flow[i].of <= Number /\ (Ends(Flow[i]) => Flow[i].of < Number)
  <2>1. CASE i = L
    BY <1>1, <1>2, <2>1 DEF Ends
  <2>2. CASE i < L
    BY <1>1, <1>2, <2>2 DEF FlowInv, FlowOrder
  <2>3. QED BY <1>1, <2>1, <2>2
<1>7. first # None => first.of <= Number
  BY <1>1, <1>2 DEF FlowInv, FirstInv
<1>8. \A k \in 1..Len(received) : received[k].of < Number
  BY <1>1, <1>2 DEF FlowInv, AfterReceived
<1>9. QED BY <1>1, <1>2, <1>4, <1>5, <1>6, <1>7, <1>8

LEMMA StepFlowBegin ==
  ASSUME BaseInv, ReceivedInv, FlowInv, NEW us \in Messages, NEW now \in Stamps, Begin(us, now)
  PROVE  FlowInv' /\ FillInv'
<1>1. PICK n \in 1..MaxMessages :
        n = Number + 1 /\ n = Number' /\ sent'[n] = us /\ stamps'[n] = now
  <2>1. /\ sent \in Seq(Messages) /\ stamps \in Seq(Stamps) /\ Number \in Nat /\ Len(sent) = Number
        /\ Len(stamps) = Number /\ Number < MaxMessages /\ MaxMessages \in Nat
        /\ sent' = Append(sent, us) /\ stamps' = Append(stamps, now)
    BY FlowType, ChunkAssumption DEF ChunkAssumption, Begin, BaseInv, SenderInv, Number
  <2>2. Len(sent') = Number + 1 /\ sent'[Number + 1] = us /\ stamps'[Number + 1] = now
    BY <2>1, AppendProperties
  <2>3. Number + 1 \in 1..MaxMessages
    BY <2>1
  <2>4. QED BY <2>2, <2>3 DEF Number
<1>2. Kept
  <2>1. \A k \in 1..Number : sent'[k] = sent[k] /\ stamps'[k] = stamps[k]
    BY FlowType, AppendProperties DEF Begin, BaseInv, SenderInv, Number
  <2>2. QED BY <1>1, <2>1, FlowType DEF Kept
<1>3. UNCHANGED <<first, received>> /\ n \in Nat /\ Number \in Nat /\ us \subseteq Units
  BY <1>1, FlowType, ChunkAssumption DEF ChunkAssumption, Begin
<1>4. /\ \A i \in 1..Len(Flow) : Flow[i].of <= n /\ Flow[i].of < n
      /\ first # None => first.of <= n
      /\ \A k \in 1..Len(received) : received[k].of < n
  <2>1. \A i \in 1..Len(Flow) : Flow[i].of \in 1..Number
    BY DEF FlowInv, FlowPieces, PieceOK
  <2>2. first # None => first.of \in 1..Number
    BY DEF FlowInv, FirstInv, PieceOK
  <2>3. \A k \in 1..Len(received) : received[k].of \in 1..Number
    BY DEF ReceivedInv
  <2>4. QED BY <1>1, <1>3, <2>1, <2>2, <2>3
<1>5. Own(n)' = {<<n, u>> : u \in us}
  BY <1>1 DEF Own
<1>6. CASE spc' = "send" /\ Adds(Flow, Flow', Message(Number + 1, None, us, TRUE, Whole(us)))
  <2>1. PICK m : m = Message(n, None, us, TRUE, Whole(us))
    OBVIOUS
  <2>. /\ m.of = n /\ m.stamp = None /\ m.units = {<<n, u>> : u \in us} /\ m.fields = TRUE
    BY <2>1 DEF Message
  <2>2. Adds(Flow, Flow', m)
    BY <1>1, <1>6, <2>1
  <2>3. PieceOK(m)'
    <3>1. Own(m.of)' = Own(n)'
      BY DEF Own
    <3>2. m.of \in 1..Number' /\ m.units = Own(m.of)'
      BY <1>1, <1>3, <1>5, <3>1
    <3>3. QED BY <3>2 DEF PieceOK
  <2>4. FlowInv'
    BY <1>2, <1>3, <1>4, <2>1, <2>2, <2>3, AddPiece
  <2>5. QED BY <1>6, <2>4 DEF FillInv
<1>7. CASE spc' = "failed" /\ Flow' = Flow
  <2>1. PICK L \in Nat : L = Len(Flow)
    BY FlowType
  <2>2. \A i \in 1..L :
          /\ Flow'[i].of = Flow[i].of /\ Flow'[i].stamp = Flow[i].stamp
          /\ Flow'[i].fields = Flow[i].fields /\ Flow[i].units \subseteq Flow'[i].units
          /\ Flow'[i].units \subseteq Own(Flow[i].of)
          /\ (Flow'[i].units = {} <=> Flow[i].units = {})
    BY <1>7, <2>1 DEF FlowInv, FlowPieces, PieceOK
  <2>3. FlowInv'
    BY <1>2, <1>3, <1>7, <2>1, <2>2, FlowStays
  <2>4. QED BY <1>7, <2>3 DEF FillInv
<1>8. CASE spc' = "fill" /\ Adds(Flow, Flow', cur')
  <2>1. /\ ~SendsWhole(us) /\ cur' = Message(n, now, {Smallest(us)}, TRUE, First + Entry(Smallest(us)))
        /\ rest' = us \ {Smallest(us)}
    BY <1>1, <1>8 DEF Begin
  <2>2. PICK u \in us : u = Smallest(us)
    BY <2>1, SplitHasUnits, SmallestExists
  <2>3. PICK m : m = cur' /\ m.of = n /\ m.stamp = now /\ m.units = {<<n, u>>} /\ m.fields
    BY <2>1, <2>2 DEF Message
  <2>4. PieceOK(m)'
    <3>1. m.of \in 1..Number' /\ m.units \subseteq Own(m.of)'
      BY <1>1, <1>3, <1>5, <2>3 DEF Own
    <3>2. m.stamp # None /\ m.stamp = stamps'[m.of] /\ m.units # {}
      BY <1>1, <2>3, ChunkAssumption DEF ChunkAssumption, Stamps
    <3>3. QED BY <3>1, <3>2 DEF PieceOK
  <2>5. FlowInv'
    BY <1>2, <1>3, <1>4, <1>8, <2>3, <2>4, AddPiece
  <2>6. \A x \in Own(n)' : x \in {<<n, v>> : v \in rest'} \/ x \in m.units
    BY <1>5, <2>1, <2>2, <2>3
  <2>7. Len(Flow') >= 1 /\ Flow'[Len(Flow')] = m /\ Len(Flow') \in Nat
    BY <1>8, <2>3, FlowType DEF Adds
  <2>8. \A x \in m.units : Gathered(x, Len(Flow))'
    BY <2>7 DEF Gathered, Holds
  <2>9. Own(Number)' = Own(n)'
    BY <1>1 DEF Own
  <2>10. {<<Number, v>> : v \in rest}' = {<<n, v>> : v \in rest'}
    BY <1>1
  <2>11. \A x \in Own(Number)' : x \in {<<Number, v>> : v \in rest}' \/ Gathered(x, Len(Flow))'
    BY <2>6, <2>8, <2>9, <2>10
  <2>12. cur'.of = Number' /\ cur'.units # {} /\ rest' \subseteq sent'[Number']
    BY <1>1, <2>1, <2>3
  <2>13. FillInv'
    BY <2>11, <2>12 DEF FillInv
  <2>14. QED BY <2>5, <2>13
<1>9. QED BY <1>6, <1>7, <1>8, FlowBegin

LEMMA StepFlowPlace ==
  ASSUME BaseInv, FlowInv, FillInv, PlaceUnit
  PROVE  FlowInv' /\ FillInv'
<1>1. PICK L : L = Len(Flow)
  OBVIOUS
<1>2. PICK n : n = Number
  OBVIOUS
<1>3. spc = "fill" /\ UNCHANGED <<spc, sent, stamps, first, received>>
  BY DEF PlaceUnit
<1>4. /\ L \in Nat /\ L >= 1 /\ Flow[L] = cur /\ n \in 1..MaxMessages /\ n = Number'
      /\ cur \in Chunks /\ cur \in Pieces /\ cur.stamp # None /\ cur.units # {}
      /\ cur.of = n /\ cur.stamp = stamps[n] /\ cur.units \subseteq Own(n)
      /\ Started(n, L)
      /\ \A i \in 1..L : Flow[i].of <= n /\ (Ends(Flow[i]) => Flow[i].of < n)
      /\ first # None => first.of <= n
      /\ \A k \in 1..Len(received) : received[k].of < n
  BY <1>1, <1>2, <1>3, LastPiece DEF Number
<1>5. PICK u \in rest : u = Smallest(rest) /\ rest' = rest \ {u} /\ u \in Units
  BY SmallestExists DEF PlaceUnit, Filling, BaseInv, ChunkInv
<1>6. Kept /\ n \in 1..Number
  BY <1>2, <1>3, <1>4, FlowType DEF Kept, Number
<1>7. Own(n)' = Own(n) /\ Own(Number)' = Own(n) /\ Own(Number) = Own(n)
  <2>1. Own(n)' = Own(n)
    BY <1>6, OwnKept
  <2>2. Own(Number)' = Own(n)'
    BY <1>4 DEF Own
  <2>3. QED BY <1>2, <2>1, <2>2
<1>8. {<<Number, v>> : v \in rest}' = {<<n, v>> : v \in rest'}
      /\ {<<Number, v>> : v \in rest} = {<<n, v>> : v \in rest}
  <2>1. n = Number /\ n = Number'
    BY <1>2, <1>4
  <2>2. QED BY <2>1
<1>9. Passed(n) \/ \A x \in Own(n) : x \in {<<n, v>> : v \in rest} \/ Gathered(x, L)
  BY <1>1, <1>2, <1>3, <1>7, <1>8 DEF FillInv
<1>10. rest \subseteq sent[n] /\ rest' \subseteq sent'[n] /\ <<n, u>> \in Own(n)
  BY <1>2, <1>3, <1>5 DEF FillInv, Own
<1>11. ASSUME cur'.of = n, <<n, u>> \in cur'.units,
              Len(Flow') \in Nat, Len(Flow') >= L, Flow'[Len(Flow')] = cur',
              \A j \in 1..L : /\ Flow'[j].of = Flow[j].of /\ Flow'[j].fields = Flow[j].fields
                              /\ Flow[j].units \subseteq Flow'[j].units
                              /\ (TooLong(Flow[j]) => TooLong(Flow'[j]))
       PROVE  FillInv'
  <2>1. \A x : (Passed(n) => Passed(n)') /\ (Gathered(x, L) => Gathered(x, L)')
    BY <1>3, <1>4, <1>6, <1>11, Persist
  <2>2. \A x : Gathered(x, L)' => Gathered(x, Len(Flow))'
    BY <1>4, <1>11 DEF Gathered
  <2>3. Gathered(<<n, u>>, Len(Flow))'
    BY <1>4, <1>11 DEF Gathered, Holds
  <2>4. Passed(n)' => Passed(Number)'
    BY <1>4 DEF Passed
  <2>5. {<<n, v>> : v \in rest} \subseteq {<<n, v>> : v \in rest'} \cup {<<n, u>>}
    BY <1>5
  <2>6. Passed(n)' \/ \A x \in Own(n) : x \in {<<n, v>> : v \in rest'} \/ Gathered(x, Len(Flow))'
    BY <1>9, <2>1, <2>2, <2>3, <2>5
  <2>7. Passed(Number)'
        \/ \A x \in Own(Number)' : x \in {<<Number, v>> : v \in rest}' \/ Gathered(x, Len(Flow))'
    BY <1>7, <1>8, <2>4, <2>6
  <2>8. cur'.of = Number' /\ cur'.units # {} /\ rest' \subseteq sent'[Number']
    BY <1>4, <1>10, <1>11
  <2>9. QED BY <2>7, <2>8 DEF FillInv
<1>12. CASE cur' = Grown(Smallest(rest)) /\ Len(Flow') = Len(Flow) /\ Flow'[Len(Flow)] = cur'
            /\ \A i \in 1..Len(Flow) - 1 : Flow'[i] = Flow[i]
  <2>1. /\ cur'.of = n /\ cur'.stamp = cur.stamp /\ cur'.fields = cur.fields
        /\ cur'.units = cur.units \cup {<<n, u>>} /\ cur'.bytes = cur.bytes + Entry(u)
    <3>1. cur' = Grown(u) /\ cur.of = n
      BY <1>4, <1>5, <1>12
    <3>2. /\ Grown(u).of = cur.of /\ Grown(u).stamp = cur.stamp /\ Grown(u).fields = cur.fields
          /\ Grown(u).units = cur.units \cup {<<Number, u>>} /\ Grown(u).bytes = cur.bytes + Entry(u)
      BY DEF Grown
    <3>3. QED BY <1>2, <3>1, <3>2
  <2>2. \A i \in 1..L :
          /\ Flow'[i].of = Flow[i].of /\ Flow'[i].stamp = Flow[i].stamp
          /\ Flow'[i].fields = Flow[i].fields /\ Flow[i].units \subseteq Flow'[i].units
          /\ Flow'[i].units \subseteq Own(Flow[i].of)
          /\ (Flow'[i].units = {} <=> Flow[i].units = {})
          /\ (TooLong(Flow[i]) => TooLong(Flow'[i]))
    <3>1. ASSUME NEW i \in 1..L - 1 PROVE Flow'[i] = Flow[i] /\ Flow[i].units \subseteq Own(Flow[i].of)
      BY <1>1, <1>4, <1>12 DEF FlowInv, FlowPieces, PieceOK
    <3>2. /\ Flow'[L].of = Flow[L].of /\ Flow'[L].stamp = Flow[L].stamp
          /\ Flow'[L].fields = Flow[L].fields /\ Flow[L].units \subseteq Flow'[L].units
          /\ Flow'[L].units # {} /\ Flow[L].units # {}
      BY <1>1, <1>4, <1>12, <2>1
    <3>3. Flow'[L].units \subseteq Own(n) /\ Flow[L].of = n
      BY <1>1, <1>4, <1>10, <1>12, <2>1
    <3>4. \A i \in 1..L : i \in 1..L - 1 \/ i = L
      BY <1>4
    <3>5. TooLong(Flow[L]) => TooLong(Flow'[L])
      <4>1. cur.bytes \in Nat /\ Entry(u) \in Nat /\ MaxSize \in Nat
        BY <1>4, <1>5, EntryType, ChunkAssumption DEF ChunkAssumption, Chunks
      <4>2. Flow[L] = cur /\ Flow'[L] = cur'
        BY <1>1, <1>4, <1>12
      <4>3. QED BY <1>4, <2>1, <4>1, <4>2 DEF TooLong
    <3>6. QED BY <3>1, <3>2, <3>3, <3>4, <3>5
  <2>3. FlowInv'
    <3>1. L \in Nat /\ Len(Flow') = L /\ L <= Len(Flow) /\ UNCHANGED <<first, received>>
      BY <1>1, <1>3, <1>4, <1>12
    <3>2. QED BY <1>6, <2>2, <3>1, FlowStays
  <2>4. FillInv'
    <3>1. Len(Flow') \in Nat /\ Len(Flow') >= L /\ Flow'[Len(Flow')] = cur'
      BY <1>1, <1>4, <1>12
    <3>2. <<n, u>> \in cur'.units
      BY <2>1
    <3>3. QED BY <1>11, <2>1, <2>2, <3>1, <3>2
  <2>5. QED BY <2>3, <2>4
<1>13. CASE cur' = Fresh(Smallest(rest)) /\ Adds(Flow, Flow', cur')
  <2>1. PICK m : /\ m = cur' /\ m.of = n /\ m.stamp = Now /\ m.units = {<<n, u>>} /\ ~m.fields
    <3>1. PICK m : m = cur' /\ m = Message(Number, Now, {u}, FALSE, Header + Entry(u))
      BY <1>5, <1>13 DEF Fresh
    <3>2. /\ m.of = Number /\ m.stamp = Now /\ m.units = {<<Number, v>> : v \in {u}}
          /\ m.fields = FALSE
      BY <3>1 DEF Message
    <3>3. {<<Number, v>> : v \in {u}} = {<<Number, u>>}
      OBVIOUS
    <3>4. QED BY <1>2, <3>1, <3>2, <3>3
  <2>2. PieceOK(m)'
    <3>1. m.of \in 1..Number' /\ m.units \subseteq Own(m.of)' /\ m.units # {}
      <4>1. Own(m.of)' = Own(n)' /\ n \in 1..Number'
        BY <1>4, <2>1 DEF Own
      <4>2. QED BY <1>7, <1>10, <2>1, <4>1
    <3>2. m.stamp # None /\ m.stamp = stamps'[m.of]
      <4>1. Now = cur.stamp
        BY <1>2, <1>4 DEF Now
      <4>2. QED BY <1>2, <1>3, <1>4, <2>1, <4>1
    <3>3. QED BY <2>1, <3>1, <3>2 DEF PieceOK
  <2>3. FlowInv'
    BY <1>1, <1>3, <1>4, <1>6, <1>13, <2>1, <2>2, AddPiece
  <2>4. FillInv'
    <3>1. Len(Flow') = L + 1 /\ Flow'[L + 1] = cur' /\ \A j \in 1..L : Flow'[j] = Flow[j]
      BY <1>1, <1>13 DEF Adds
    <3>2. <<n, u>> \in cur'.units /\ cur'.of = n
      BY <2>1
    <3>3. Len(Flow') \in Nat /\ Len(Flow') >= L /\ Flow'[Len(Flow')] = cur'
      BY <1>4, <3>1
    <3>4. QED BY <1>11, <3>1, <3>2, <3>3
  <2>5. QED BY <2>3, <2>4
<1>14. QED BY <1>12, <1>13, FlowPlace

LEMMA StepFlowDone ==
  ASSUME BaseInv, RoomInv, FlowInv, FillInv, FillDone
  PROVE  FlowInv' /\ FillInv'
<1>1. PICK L : L = Len(Flow)
  OBVIOUS
<1>2. PICK n : n = Number
  OBVIOUS
<1>3. spc = "fill" /\ spc' = "send" /\ UNCHANGED <<sent, stamps, first, received>>
  BY DEF FillDone
<1>4. /\ L \in Nat /\ L >= 1 /\ n \in 1..MaxMessages /\ n = Number'
      /\ cur.stamp # None /\ cur.stamp = stamps[n] /\ Started(n, L)
      /\ \A i \in 1..L : Flow[i].of <= n /\ (Ends(Flow[i]) => Flow[i].of < n)
      /\ first # None => first.of <= n
      /\ \A k \in 1..Len(received) : received[k].of < n
  BY <1>1, <1>2, <1>3, LastPiece DEF Number
<1>5. Kept /\ n \in 1..Number
  BY <1>2, <1>3, <1>4, FlowType DEF Kept, Number
<1>6. rest = {} \/ TooLong(cur)
  BY <1>3 DEF FillDone, Filling, RoomInv
<1>7. Passed(n) \/ \A x \in Own(n) : Gathered(x, L)
  <2>1. CASE rest = {}
    BY <1>1, <1>2, <1>3, <2>1 DEF FillInv
  <2>2. CASE TooLong(cur)
    <3>1. Flow[L] = cur /\ cur.of = n
      BY <1>1, <1>2, <1>3, LastPiece
    <3>2. ASSUME NEW x \in Own(n) PROVE Gathered(x, L)
      <4>1. x[1] = n
        BY <3>2 DEF Own
      <4>2. Holds(Flow[L], x) /\ L \in 1..L
        BY <1>4, <2>2, <3>1, <4>1 DEF Holds
      <4>3. QED BY <4>2 DEF Gathered
    <3>3. QED BY <3>2
  <2>3. QED BY <1>6, <2>1, <2>2
<1>8. PICK m : m = Message(Number, Now, {}, FALSE, Header) /\ m.of = n /\ m.stamp = stamps[n]
               /\ m.units = {} /\ ~m.fields
  <2>1. PICK m : m = Message(Number, Now, {}, FALSE, Header)
    OBVIOUS
  <2>2. /\ m.of = Number /\ m.stamp = Now /\ m.units = {<<Number, v>> : v \in {}}
        /\ m.fields = FALSE
    BY <2>1 DEF Message
  <2>3. {<<Number, v>> : v \in {}} = {}
    OBVIOUS
  <2>4. QED BY <1>2, <2>1, <2>2, <2>3 DEF Now
<1>9. PieceOK(m)'
  <2>1. n \in 1..Number' /\ stamps'[n] = stamps[n] /\ stamps[n] # None
    BY <1>3, <1>4
  <2>2. m.of \in 1..Number' /\ m.stamp = stamps'[m.of] /\ m.stamp # None
    BY <1>8, <2>1
  <2>3. QED BY <1>8, <2>2 DEF PieceOK
<1>10. Adds(Flow, Flow', m)
  BY <1>8, FlowDone
<1>11. FlowInv'
  BY <1>1, <1>3, <1>4, <1>5, <1>7, <1>8, <1>9, <1>10, AddPiece
<1>12. QED BY <1>3, <1>11 DEF FillInv

-----------------------------------------------------------------------------
(* RecvObserved *)

\* What the first piece m of a batch or message n does: a message is returned, whole;
\* the batch goes on; or it is passed over.
Returns(m, n) ==
  /\ Ends(m) /\ first' = None
  /\ \E p \in Pieces : p.of = n /\ p.units = Own(n) /\ p.fields = TRUE /\ received' = Append(received, p)
Collects(m, n) ==
  /\ ~Passed(n) /\ UNCHANGED received
  /\ first' \in Chunks /\ first'.of = n /\ first'.stamp = stamps[n] /\ first'.fields
  /\ first'.units # {} /\ first'.units \subseteq Own(n) /\ m.units \subseteq first'.units
  /\ first # None /\ first.of = n => first.units \subseteq first'.units
PassesOver(n) == first # None /\ first.stamp > stamps[n] /\ UNCHANGED <<first, received>>

LEMMA RecvCases ==
  ASSUME BaseInv, FlowInv, Recv, NEW m, m = Flow[1], NEW n, n = m.of
  PROVE  Returns(m, n) \/ Collects(m, n) \/ PassesOver(n)
<1>1. /\ m = Head(wire) /\ 1 \in 1..Len(Flow) /\ m \in Pieces /\ PieceOK(m) /\ n \in 1..Number
  <2>1. m = Head(wire) /\ 1 \in 1..Len(Flow)
    BY FlowRecv
  <2>2. QED BY <2>1, FlowType DEF FlowInv, FlowPieces, PieceOK
<1>2. CASE m.stamp = None
  <2>1. received' = Append(received, m) /\ first' = None
    BY <1>1, <1>2 DEF Recv, Return
  <2>2. m.units = Own(n) /\ m.fields = TRUE /\ Ends(m)
    BY <1>1, <1>2, ChunksArePieces DEF PieceOK, Ends
  <2>3. QED BY <1>1, <2>1, <2>2 DEF Returns
<1>3. CASE m.stamp # None
  <2>1. m.stamp = stamps[n] /\ m \in Chunks /\ m.stamp \in Nat /\ stamps[n] \in Nat
    BY <1>1, <1>3, ChunksArePieces DEF PieceOK
  <2>2. first # None =>
          /\ first \in Chunks /\ first.of \in 1..Number /\ first.stamp = stamps[first.of]
          /\ first.fields /\ first.units # {} /\ first.units \subseteq Own(first.of)
          /\ first.stamp \in Nat /\ first.of <= n /\ first \in Pieces
    <3> SUFFICES ASSUME first # None
                 PROVE  /\ first \in Chunks /\ first.of \in 1..Number /\ first.stamp = stamps[first.of]
                        /\ first.fields /\ first.units # {} /\ first.units \subseteq Own(first.of)
                        /\ first.stamp \in Nat /\ first.of <= n /\ first \in Pieces
      OBVIOUS
    <3>1. first \in Chunks /\ PieceOK(first) /\ first.fields /\ first.of <= n
      BY <1>1 DEF FlowInv, FirstInv
    <3>2. first.stamp \in Nat /\ first.stamp # None /\ first \in Pieces
      BY <3>1, ChunksArePieces
    <3>3. QED BY <3>1, <3>2 DEF PieceOK
  <2>3. m.fields \/ (first # None /\ (first.of = n \/ first.stamp > m.stamp))
    <3>1. Started(n, 1)
      BY <1>1, <1>3 DEF FlowInv, FlowStarted
    <3>2. QED BY <2>1, <3>1 DEF Started, Passed
  <2>4. m.fields \in BOOLEAN /\ (m.fields => m.units # {}) /\ m.units \subseteq Own(n)
    BY <1>1, <1>3, ChunksArePieces DEF PieceOK
  <2>5. CASE NewBatch(m)
    <3>1. first = None \/ m.stamp > first.stamp
      BY <2>5 DEF NewBatch
    <3>2. m.fields
      BY <2>1, <2>2, <2>3, <3>1
    <3>3. m.units # {} /\ ~OldBatch(m)
      BY <2>1, <2>2, <2>4, <3>1, <3>2 DEF OldBatch
    <3>4. first' = m /\ UNCHANGED received
      BY <1>1, <1>3, <2>5, <3>3 DEF Recv
    <3>5. ~Passed(n) /\ ~(first # None /\ first.of = n)
      BY <2>1, <2>2, <3>1 DEF Passed
    <3>6. first' \in Chunks
      BY <2>1, <3>4
    <3>7. QED BY <2>1, <2>4, <3>2, <3>3, <3>4, <3>5, <3>6 DEF Collects
  <2>6. CASE ~NewBatch(m) /\ OldBatch(m)
    <3>1. first # None /\ first.stamp > m.stamp
      BY <2>1, <2>2, <2>6 DEF OldBatch
    <3>2. UNCHANGED <<first, received>>
      BY <1>1, <1>3, <2>6 DEF Recv
    <3>3. QED BY <2>1, <3>1, <3>2 DEF PassesOver
  <2>7. CASE ~NewBatch(m) /\ ~OldBatch(m)
    <3>1. first # None /\ first.stamp = m.stamp
      BY <2>1, <2>2, <2>7 DEF NewBatch, OldBatch
    <3>2. first.of = n
      BY <1>1, <2>1, <2>2, <3>1 DEF BaseInv, SenderInv
    <3>3. ~Passed(n)
      BY <2>1, <3>1 DEF Passed
    <3>4. CASE m.units = {}
      <4>1. received' = Append(received, first) /\ first' = None
        BY <1>1, <1>3, <2>7, <3>4 DEF Recv, Return
      <4>2. \A x \in Own(n) : Gathered(x, 0)
        <5>1. 1 \in 1..Len(Flow) /\ Flow[1].stamp # None /\ Flow[1].units = {} /\ Flow[1].of = n
          BY <1>1, <1>3, <3>4
        <5>2. Passed(n) \/ \A x \in Own(n) : Gathered(x, 1 - 1)
          BY <5>1 DEF FlowInv, FlowComplete
        <5>3. 1 - 1 = 0
          OBVIOUS
        <5>4. QED BY <3>3, <5>2, <5>3
      <4>3. first.units = Own(n)
        BY <2>2, <3>1, <3>2, <4>2 DEF Gathered
      <4>4. first \in Pieces /\ first.fields = TRUE
        BY <2>2, <3>1, ChunksArePieces DEF Chunks
      <4>5. QED BY <3>2, <3>4, <4>1, <4>3, <4>4 DEF Returns, Ends
    <3>5. CASE m.units # {}
      <4>1. first' = [first EXCEPT !.units = @ \cup m.units] /\ UNCHANGED received
        BY <1>1, <1>3, <2>7, <3>5 DEF Recv
      <4>2. first \in Chunks /\ m.units \subseteq (1..MaxMessages) \X Units
        BY <2>1, <2>2, <3>1 DEF Chunks
      <4>3. /\ first' \in Chunks /\ first'.of = first.of /\ first'.stamp = first.stamp
            /\ first'.fields = first.fields /\ first'.units = first.units \cup m.units
        BY <4>1, <4>2 DEF Chunks
      <4>4. QED BY <2>1, <2>2, <2>4, <3>1, <3>2, <3>3, <4>1, <4>3 DEF Collects
    <3>6. QED BY <3>4, <3>5
  <2>8. QED BY <2>5, <2>6, <2>7
<1>4. QED BY <1>2, <1>3

\* What was complete with the first piece is complete without it: of a message
\* that comes later, or of this one when the batch goes on or is passed over.
LEMMA CompleteWithout ==
  ASSUME BaseInv, FlowInv, Recv, NEW m, m = Flow[1], NEW n, n = m.of,
         Collects(m, n) \/ PassesOver(n) \/ Returns(m, n),
         NEW k \in 1..Number, n <= k, Ends(m) => n < k,
         NEW p \in 2..Len(Flow), Flow[p].of = k,
         NEW i \in 1..Len(Flow), NEW E,
         Passed(k) \/ \A x \in Own(k) : x \in E \/ Gathered(x, i)
  PROVE  Passed(k)' \/ \A x \in Own(k) : x \in E \/ Gathered(x, i - 1)'
<1>1. /\ Len(Flow) \in Nat \ {0} /\ Len(Flow') = Len(Flow) - 1 /\ UNCHANGED <<sent, stamps>>
      /\ \A j \in 1..Len(Flow) - 1 : Flow'[j] = Flow[j + 1]
      /\ \A j \in 2..Len(Flow) : Flow'[j - 1] = Flow[j]
  <2>1. /\ Len(Flow) \in Nat \ {0} /\ Len(Flow') = Len(Flow) - 1
        /\ \A j \in 1..Len(Flow) - 1 : Flow'[j] = Flow[j + 1]
    BY FlowRecv
  <2>2. \A j \in 2..Len(Flow) : j - 1 \in 1..Len(Flow) - 1 /\ (j - 1) + 1 = j
    BY <2>1
  <2>3. UNCHANGED <<sent, stamps>>
    BY DEF Recv, senderVars
  <2>4. QED BY <2>1, <2>2, <2>3
<1>2. /\ PieceOK(m) /\ n \in 1..Number /\ Number \in Nat
      /\ first # None => first.of \in 1..Number /\ first.of <= n /\ first.units \subseteq Own(first.of)
  <2>1. PieceOK(m) /\ n \in 1..Number /\ Number \in Nat /\ 1 \in 1..Len(Flow)
    BY <1>1, FlowType DEF FlowInv, FlowPieces, PieceOK
  <2>2. QED BY <2>1 DEF FlowInv, FirstInv, PieceOK
<1>3. ~TooLong(m)
  BY FlowRecv, LenProperties DEF Recv, BaseInv, ChunkInv, WireFits
<1>4. CASE n < k
  <2>1. ~Passed(k)
    BY <1>2, <1>4 DEF Passed
  <2>2. \A x \in Own(k) : x \notin m.units /\ (first # None => x \notin first.units)
    <3>1. ASSUME NEW j \in 1..Number, j # k PROVE \A x \in Own(k) : x \notin Own(j)
      BY <3>1 DEF Own
    <3>2. m.units \subseteq Own(n) /\ n # k /\ (first # None => first.of # k)
      BY <1>2, <1>4 DEF PieceOK
    <3>3. QED BY <1>2, <3>1, <3>2
  <2>3. ASSUME NEW x \in Own(k), Gathered(x, i) PROVE Gathered(x, i - 1)'
    <3>1. PICK j \in 1..i : Holds(Flow[j], x)
      BY <2>2, <2>3 DEF Gathered
    <3>2. j # 1
      BY <1>3, <2>2, <3>1 DEF Holds
    <3>3. j \in 2..Len(Flow) /\ j - 1 \in 1..i - 1
      BY <1>1, <3>2
    <3>4. Holds(Flow'[j - 1], x)
      BY <1>1, <3>1, <3>3
    <3>5. QED BY <3>3, <3>4 DEF Gathered, Holds, TooLong
  <2>4. QED BY <2>1, <2>3
<1>5. CASE n = k
  <2>1. CASE PassesOver(n)
    <3>1. Flow'[1].of = n
      <4>1. 2 \in 1..Len(Flow) /\ 2 <= p /\ 1 \in 1..Len(Flow)
        BY <1>1
      <4>2. Flow[1].of <= Flow[2].of /\ Flow[2].of <= Flow[p].of
        <5>1. p = 2 \/ Flow[2].of <= Flow[p].of
          BY <4>1 DEF FlowInv, FlowOrder
        <5>2. Flow[2].of \in 1..Number
          BY <4>1 DEF FlowInv, FlowPieces, PieceOK
        <5>3. QED BY <4>1, <5>1, <5>2 DEF FlowInv, FlowOrder
      <4>3. Flow[2].of = n
        <5>1. Flow[2].of \in 1..Number
          BY <4>1 DEF FlowInv, FlowPieces, PieceOK
        <5>2. QED BY <1>2, <1>5, <4>2, <5>1
      <4>4. Flow'[2 - 1] = Flow[2]
        BY <1>1, <4>1
      <4>5. QED BY <4>3, <4>4
    <3>2. Passed(k)'
      BY <1>1, <1>5, <2>1, <3>1 DEF PassesOver, Passed
    <3>3. QED BY <3>2
  <2>2. CASE Collects(m, n)
    <3>1. ~Passed(k) /\ first' # None /\ m.units \subseteq first'.units
          /\ (first # None /\ first.of = n => first.units \subseteq first'.units)
      BY <1>5, <2>2, ChunksArePieces DEF Collects
    <3>2. ASSUME NEW x \in Own(k), Gathered(x, i) PROVE Gathered(x, i - 1)'
      <4>1. CASE x \in m.units
        BY <3>1, <4>1 DEF Gathered
      <4>2. CASE first # None /\ x \in first.units
        <5>1. x \in Own(first.of)
          BY <1>2, <4>2
        <5>2. first.of = k
          BY <5>1 DEF Own
        <5>3. x \in first'.units
          BY <1>5, <3>1, <4>2, <5>2
        <5>4. QED BY <3>1, <5>3 DEF Gathered
      <4>3. CASE x \notin m.units /\ ~(first # None /\ x \in first.units)
        <5>1. PICK j \in 1..i : Holds(Flow[j], x)
          BY <3>2, <4>3 DEF Gathered
        <5>2. j # 1
          BY <1>3, <4>3, <5>1 DEF Holds
        <5>3. j \in 2..Len(Flow) /\ j - 1 \in 1..i - 1
          BY <1>1, <5>2
        <5>4. Holds(Flow'[j - 1], x)
          BY <1>1, <5>1, <5>3
        <5>5. QED BY <5>3, <5>4 DEF Gathered, Holds, TooLong
      <4>4. QED BY <4>1, <4>2, <4>3
    <3>3. QED BY <3>1, <3>2
  <2>3. CASE Returns(m, n)
    BY <1>2, <1>5, <2>3 DEF Returns
  <2>4. QED BY <2>1, <2>2, <2>3
<1>6. QED BY <1>2, <1>4, <1>5

LEMMA StartedWithout ==
  ASSUME BaseInv, FlowInv, Recv, NEW m, m = Flow[1], NEW n, n = m.of,
         Collects(m, n) \/ PassesOver(n) \/ Returns(m, n),
         NEW k \in 1..Number, n <= k, Ends(m) => n < k,
         NEW i \in 2..Len(Flow), Flow[i].of = k, Started(k, i)
  PROVE  Started(k, i - 1)'
<1>1. /\ Len(Flow) \in Nat \ {0} /\ Len(Flow') = Len(Flow) - 1 /\ UNCHANGED <<sent, stamps>>
      /\ \A j \in 2..Len(Flow) : Flow'[j - 1] = Flow[j]
  <2>1. /\ Len(Flow) \in Nat \ {0} /\ Len(Flow') = Len(Flow) - 1
        /\ \A j \in 1..Len(Flow) - 1 : Flow'[j] = Flow[j + 1]
    BY FlowRecv
  <2>2. \A j \in 2..Len(Flow) : j - 1 \in 1..Len(Flow) - 1 /\ (j - 1) + 1 = j
    BY <2>1
  <2>3. UNCHANGED <<sent, stamps>>
    BY DEF Recv, senderVars
  <2>4. QED BY <2>1, <2>2, <2>3
<1>2. n \in 1..Number /\ Number \in Nat /\ (first # None => first.of \in 1..Number /\ first.of <= n)
  <2>1. n \in 1..Number /\ Number \in Nat /\ 1 \in 1..Len(Flow)
    BY <1>1, FlowType DEF FlowInv, FlowPieces, PieceOK
  <2>2. QED BY <2>1 DEF FlowInv, FirstInv, PieceOK
<1>3. CASE n < k
  <2>1. ~Passed(k) /\ ~(first # None /\ first.of = k)
    BY <1>2, <1>3 DEF Passed
  <2>2. PICK j \in 1..i : Flow[j].of = k /\ Flow[j].fields
    BY <2>1 DEF Started
  <2>3. j # 1
    BY <1>2, <1>3, <2>2
  <2>4. j \in 2..Len(Flow) /\ j - 1 \in 1..i - 1
    BY <1>1, <2>3
  <2>5. Flow'[j - 1].of = k /\ Flow'[j - 1].fields
    BY <1>1, <2>2, <2>4
  <2>6. QED BY <2>4, <2>5 DEF Started
<1>4. CASE n = k
  <2>1. CASE PassesOver(n)
    <3>1. \A j \in 1..Len(Flow) : Flow[j].of \in 1..Number
      BY DEF FlowInv, FlowPieces, PieceOK
    <3>2. 2 \in 1..Len(Flow) /\ 1 \in 1..Len(Flow) /\ (2 < i \/ i = 2) /\ 2 \in 2..Len(Flow)
      BY <1>1
    <3>3. Flow[1].of <= Flow[2].of /\ (i = 2 \/ Flow[2].of <= Flow[i].of)
      BY <3>2 DEF FlowInv, FlowOrder
    <3>4. Flow[2].of = n
      BY <1>2, <1>4, <3>1, <3>2, <3>3
    <3>5. Flow'[2 - 1] = Flow[2]
      BY <1>1, <3>2
    <3>6. Passed(k)'
      BY <1>1, <1>4, <2>1, <3>4, <3>5 DEF PassesOver, Passed
    <3>7. QED BY <3>6 DEF Started
  <2>2. CASE Collects(m, n)
    BY <1>4, <2>2, ChunksArePieces DEF Collects, Started
  <2>3. CASE Returns(m, n)
    BY <1>2, <1>4, <2>3 DEF Returns
  <2>4. QED BY <2>1, <2>2, <2>3
<1>5. QED BY <1>2, <1>3, <1>4

LEMMA StepFlowRecv ==
  ASSUME BaseInv, ReceivedInv, FlowInv, Recv
  PROVE  FlowInv' /\ ReceivedInv'
<1>1. PICK m : m = Flow[1]
  OBVIOUS
<1>2. PICK n : n = m.of
  OBVIOUS
<1>3. PICK L : L = Len(Flow)
  OBVIOUS
<1>4. /\ L \in Nat \ {0} /\ Len(Flow') = L - 1 /\ UNCHANGED <<sent, stamps>>
      /\ \A i \in 1..L - 1 : Flow'[i] = Flow[i + 1] /\ i \in 1..L /\ i + 1 \in 2..L /\ i + 1 \in 1..L
      /\ 1 \in 1..L
  BY <1>3, FlowRecv DEF Recv, senderVars
<1>5. PieceOK(m) /\ n \in 1..Number /\ Number \in Nat
  BY <1>1, <1>2, <1>3, <1>4, FlowType DEF FlowInv, FlowPieces, PieceOK
<1>6. Returns(m, n) \/ Collects(m, n) \/ PassesOver(n)
  BY <1>1, <1>2, RecvCases
<1>7. \A i \in 2..L : PieceOK(Flow[i]) /\ Flow[i].of \in 1..Number /\ n <= Flow[i].of
                      /\ (Ends(m) => n < Flow[i].of)
  <2>1. \A i \in 2..L : i \in 1..L /\ 1 < i
    BY <1>4
  <2>2. QED BY <1>1, <1>2, <1>3, <1>4, <2>1 DEF FlowInv, FlowPieces, FlowOrder, PieceOK
<1>8. Kept
  BY <1>4, <1>5 DEF Kept, Number
<1>9. FlowPieces'
  <2> SUFFICES ASSUME NEW i \in 1..L - 1 PROVE PieceOK(Flow[i])'
    BY <1>4 DEF FlowPieces
  <2>1. PICK p : p = Flow'[i] /\ PieceOK(p)
    BY <1>4, <1>7
  <2>2. PieceOK(p)'
    BY <1>8, <2>1, PieceKept
  <2>3. QED BY <2>1, <2>2 DEF PieceOK, Own
<1>10. FlowOrder'
  <2>1. ASSUME NEW i \in 1..L - 1, NEW j \in 1..L - 1, i < j
        PROVE  Flow'[i].of <= Flow'[j].of /\ (Ends(Flow'[i]) => Flow'[i].of < Flow'[j].of)
    <3>1. i + 1 \in 1..L /\ j + 1 \in 1..L /\ i + 1 < j + 1
      BY <1>4, <2>1
    <3>2. QED BY <1>3, <1>4, <3>1 DEF FlowInv, FlowOrder
  <2>2. QED BY <1>4, <2>1 DEF FlowOrder, Ends
<1>11. FirstInv'
  <2>1. CASE Returns(m, n)
    BY <2>1 DEF Returns, FirstInv
  <2>2. CASE Collects(m, n)
    <3>1. PICK p : p = first' /\ p \in Chunks /\ p.of = n /\ p.stamp = stamps[n] /\ p.fields
                   /\ p.units # {} /\ p.units \subseteq Own(n)
      BY <2>2 DEF Collects
    <3>2. p.stamp # None
      BY <3>1, ChunksArePieces
    <3>3. PieceOK(p)
      BY <1>5, <3>1, <3>2 DEF PieceOK
    <3>4. PieceOK(p)'
      BY <1>8, <3>3, PieceKept
    <3>5. PieceOK(first)'
      BY <3>1, <3>4 DEF PieceOK, Own
    <3>6. \A i \in 1..L - 1 : first'.of <= Flow'[i].of
      BY <1>4, <1>7, <3>1
    <3>7. QED BY <1>4, <3>1, <3>5, <3>6 DEF FirstInv
  <2>3. CASE PassesOver(n)
    <3>1. PICK p : p = first /\ p = first' /\ p \in Chunks /\ PieceOK(p) /\ p.fields
      BY <2>3 DEF PassesOver, FlowInv, FirstInv
    <3>2. PieceOK(p)'
      BY <1>8, <3>1, PieceKept
    <3>3. PieceOK(first)'
      BY <3>1, <3>2 DEF PieceOK, Own
    <3>4. \A i \in 1..L - 1 : first'.of <= Flow'[i].of
      BY <1>3, <1>4, <2>3 DEF PassesOver, FlowInv, FirstInv
    <3>5. QED BY <1>4, <3>1, <3>3, <3>4 DEF FirstInv
  <2>4. QED BY <1>6, <2>1, <2>2, <2>3
<1>12. FlowStarted'
  <2> SUFFICES ASSUME NEW i \in 1..L - 1, Flow'[i].stamp # None PROVE Started(Flow[i].of, i)'
    BY <1>4 DEF FlowStarted
  <2>1. PICK k \in 1..Number : k = Flow[i + 1].of /\ k = Flow'[i].of /\ n <= k /\ (Ends(m) => n < k)
    BY <1>4, <1>7
  <2>2. PICK j \in 2..L : j = i + 1 /\ j - 1 = i
    BY <1>4
  <2>3. Started(k, j)
    <3>1. j \in 1..L /\ Flow[j].stamp # None /\ Flow[j].of = k
      BY <1>4, <2>1, <2>2
    <3>2. QED BY <1>3, <3>1 DEF FlowInv, FlowStarted
  <2>4. Started(k, j - 1)'
    BY <1>1, <1>2, <1>3, <1>6, <2>1, <2>2, <2>3, StartedWithout
  <2>5. QED BY <2>1, <2>2, <2>4 DEF Started, Passed
<1>13. FlowComplete'
  <2> SUFFICES ASSUME NEW i \in 1..L - 1, Flow'[i].stamp # None, Flow'[i].units = {}
               PROVE  (Passed(Flow[i].of) \/ \A x \in Own(Flow[i].of) : Gathered(x, i - 1))'
    BY <1>4 DEF FlowComplete
  <2>1. PICK k \in 1..Number : k = Flow[i + 1].of /\ k = Flow'[i].of /\ n <= k /\ (Ends(m) => n < k)
    BY <1>4, <1>7
  <2>2. PICK j \in 2..L : j = i + 1 /\ j - 1 = i
    BY <1>4
  <2>3. Passed(k) \/ \A x \in Own(k) : x \in {} \/ Gathered(x, i)
    <3>1. j \in 1..L /\ Flow[j].stamp # None /\ Flow[j].units = {} /\ Flow[j].of = k
      BY <1>4, <2>1, <2>2
    <3>2. Passed(k) \/ \A x \in Own(k) : Gathered(x, j - 1)
      BY <1>3, <3>1 DEF FlowInv, FlowComplete
    <3>3. QED BY <2>2, <3>2
  <2>4. Passed(k)' \/ \A x \in Own(k) : x \in {} \/ Gathered(x, i - 1)'
    <3>1. i \in 1..Len(Flow) /\ j \in 2..Len(Flow) /\ Flow[j].of = k
      BY <1>3, <1>4, <2>1, <2>2
    <3>2. QED BY <1>1, <1>2, <1>6, <2>1, <2>3, <3>1, CompleteWithout
  <2>5. Own(Flow[i].of)' = Own(k)
    <3>1. Own(k)' = Own(k)
      BY <1>8, OwnKept
    <3>2. Own(Flow[i].of)' = Own(k)'
      BY <2>1 DEF Own
    <3>3. QED BY <3>1, <3>2
  <2>6. Passed(k)' => Passed(Flow[i].of)'
    BY <2>1 DEF Passed
  <2>7. QED BY <2>4, <2>5, <2>6
<1>14. ASSUME NEW k \in 1..Len(received) PROVE received[k].of < n /\ \A i \in 2..L : received[k].of < Flow[i].of
  <2>1. received[k].of < n
    BY <1>1, <1>2, <1>3, <1>4 DEF FlowInv, AfterReceived
  <2>2. \A i \in 2..L : i \in 1..L
    BY <1>4
  <2>3. QED BY <1>3, <2>1, <2>2 DEF FlowInv, AfterReceived
<1>15. CASE Returns(m, n)
  <2>1. PICK p \in Pieces : p.of = n /\ p.units = Own(n) /\ p.fields = TRUE /\ received' = Append(received, p)
    BY <1>15 DEF Returns
  <2>2. /\ received' \in Seq(Pieces) /\ Len(received') = Len(received) + 1 /\ Len(received) \in Nat
        /\ received'[Len(received) + 1] = p
        /\ \A k \in 1..Len(received) : received'[k] = received[k]
        /\ \A k \in 1..Len(received') : k \in 1..Len(received) \/ k = Len(received) + 1
    <3>1. received \in Seq(Pieces) /\ Len(received) \in Nat
      BY LenProperties DEF ReceivedInv
    <3>2. QED BY <2>1, <3>1, AppendProperties
  <2>3. ASSUME NEW k \in 1..Len(received')
        PROVE  /\ received'[k].of \in 1..Number' /\ received'[k].units = Own(received[k].of)'
               /\ received'[k].fields
    <3>1. PICK j \in 1..Number : j = received'[k].of /\ received'[k].units = Own(j) /\ received'[k].fields
      <4>1. CASE k \in 1..Len(received)
        BY <2>2, <4>1 DEF ReceivedInv
      <4>2. CASE k = Len(received) + 1
        BY <1>5, <2>1, <2>2, <4>2
      <4>3. QED BY <2>2, <4>1, <4>2
    <3>2. Own(j)' = Own(j) /\ j \in 1..Number'
      BY <1>8, OwnKept DEF Kept
    <3>3. Own(received[k].of)' = Own(j)'
      BY <3>1 DEF Own
    <3>4. QED BY <3>1, <3>2, <3>3
  <2>4. \A j, k \in 1..Len(received') : j < k => received'[j].of < received'[k].of
    <3>1. ASSUME NEW j \in 1..Len(received'), NEW k \in 1..Len(received'), j < k
          PROVE  received'[j].of < received'[k].of
      <4>1. j \in 1..Len(received)
        BY <2>2, <3>1
      <4>2. CASE k \in 1..Len(received)
        BY <2>2, <3>1, <4>1, <4>2 DEF ReceivedInv
      <4>3. CASE k = Len(received) + 1
        BY <1>14, <2>1, <2>2, <4>1, <4>3
      <4>4. QED BY <2>2, <4>2, <4>3
    <3>2. QED BY <3>1
  <2>5. ReceivedInv'
    BY <2>2, <2>3, <2>4 DEF ReceivedInv
  <2>6. \A k \in 1..Len(received') : \A i \in 1..L - 1 : received'[k].of < Flow'[i].of
    <3>1. ASSUME NEW k \in 1..Len(received'), NEW i \in 1..L - 1 PROVE received'[k].of < Flow'[i].of
      <4>1. Flow'[i] = Flow[i + 1] /\ i + 1 \in 2..L /\ n < Flow[i + 1].of
        BY <1>4, <1>7, <1>15 DEF Returns
      <4>2. CASE k \in 1..Len(received)
        BY <1>14, <2>2, <4>1, <4>2
      <4>3. CASE k = Len(received) + 1
        BY <2>1, <2>2, <4>1, <4>3
      <4>4. QED BY <2>2, <4>2, <4>3
    <3>2. QED BY <3>1
  <2>7. AfterReceived'
    BY <1>4, <1>15, <2>6 DEF AfterReceived, Returns
  <2>8. QED BY <1>9, <1>10, <1>11, <1>12, <1>13, <2>5, <2>7 DEF FlowInv
<1>16. CASE Collects(m, n) \/ PassesOver(n)
  <2>1. UNCHANGED received /\ (first' # None => first'.of = n \/ (first # None /\ first' = first))
    BY <1>16 DEF Collects, PassesOver
  <2>2. ReceivedInv'
    BY <1>4, <2>1 DEF ReceivedInv, Number, Own
  <2>3. \A k \in 1..Len(received) : \A i \in 1..L - 1 : received[k].of < Flow'[i].of
    BY <1>4, <1>14
  <2>4. \A k \in 1..Len(received) : first' # None => received[k].of < first'.of
    BY <1>14, <2>1 DEF FlowInv, AfterReceived
  <2>5. AfterReceived'
    BY <1>4, <2>1, <2>3, <2>4 DEF AfterReceived
  <2>6. QED BY <1>9, <1>10, <1>11, <1>12, <1>13, <2>2, <2>5 DEF FlowInv
<1>17. QED BY <1>6, <1>15, <1>16

LEMMA StepFillRecv ==
  ASSUME BaseInv, FlowInv, FillInv, Recv
  PROVE  FillInv'
<1> SUFFICES ASSUME spc = "fill" PROVE FillInv'
  BY DEF FillInv, Recv, senderVars
<1>1. PICK m : m = Flow[1]
  OBVIOUS
<1>2. PICK n : n = m.of
  OBVIOUS
<1>3. PICK L : L = Len(Flow)
  OBVIOUS
<1>4. PICK k : k = Number
  OBVIOUS
<1>5. /\ L \in Nat /\ k \in Nat /\ k \in 1..Number /\ k = Number' /\ Flow[L] = cur /\ cur.of = k
      /\ \A i \in 1..L : Flow[i].of <= k /\ (Ends(Flow[i]) => Flow[i].of < k)
  BY <1>3, <1>4, LastPiece DEF Recv, senderVars, Number
<1>6. 2 <= L
  BY <1>3, FlowFill, EmptySeq DEF Recv, BaseInv, ChunkInv
<1>7. Returns(m, n) \/ Collects(m, n) \/ PassesOver(n)
  BY <1>1, <1>2, RecvCases
<1>8. L \in 2..L /\ L \in 1..L /\ 1 \in 1..L /\ n <= k /\ (Ends(m) => n < k)
  BY <1>1, <1>2, <1>5, <1>6
<1>9. PICK E : E = {<<k, u>> : u \in rest}
  OBVIOUS
<1>10. {<<Number, u>> : u \in rest} = E /\ {<<Number, u>> : u \in rest}' = E
  <2>1. rest' = rest /\ Number = k /\ Number' = k
    BY <1>4, <1>5 DEF Recv, senderVars
  <2>2. QED BY <1>9, <2>1
<1>11. Passed(k) \/ \A x \in Own(k) : x \in E \/ Gathered(x, L)
  BY <1>3, <1>4, <1>10 DEF FillInv
<1>12. Passed(k)' \/ \A x \in Own(k) : x \in E \/ Gathered(x, L - 1)'
  <2>1. L \in 2..Len(Flow) /\ L \in 1..Len(Flow) /\ Flow[L].of = k
    BY <1>3, <1>5, <1>8
  <2>2. QED BY <1>1, <1>2, <1>5, <1>7, <1>8, <1>11, <2>1, CompleteWithout
<1>13. Len(Flow') = L - 1
  BY <1>3, FlowRecv
<1>14. Own(Number)' = Own(k) /\ (Passed(k)' => Passed(Number)')
  BY <1>5 DEF Own, Passed, Recv, senderVars
<1>15. cur'.of = Number' /\ cur'.units # {} /\ rest' \subseteq sent'[Number']
  BY DEF FillInv, Recv, senderVars, Number
<1>16. Passed(Number)' \/ \A x \in Own(Number)' :
         x \in {<<Number, u>> : u \in rest}' \/ Gathered(x, Len(Flow))'
  BY <1>10, <1>12, <1>13, <1>14 DEF Gathered
<1>17. QED BY <1>15, <1>16 DEF FillInv

-----------------------------------------------------------------------------
(* What is returned *)

LEMMA StepReceived ==
  ASSUME ReceivedInv, UNCHANGED received, Kept
  PROVE  ReceivedInv'
<1>1. ASSUME NEW k \in 1..Len(received)
      PROVE  /\ received'[k].of \in 1..Number' /\ received'[k].units = Own(received[k].of)'
             /\ received'[k].fields
  <2>1. PICK j \in 1..Number : j = received[k].of /\ j = received'[k].of
                               /\ received[k].units = Own(j) /\ received[k].fields
    BY DEF ReceivedInv
  <2>2. Own(j)' = Own(j) /\ j \in 1..Number'
    BY OwnKept DEF Kept
  <2>3. Own(received[k].of)' = Own(j)'
    BY <2>1 DEF Own
  <2>4. QED BY <2>1, <2>2, <2>3
<1>2. QED BY <1>1 DEF ReceivedInv

\* The messages given to Observed stay.
LEMMA StepKept ==
  ASSUME BaseInv, [Next]_vars
  PROVE  Kept
<1>1. CASE UNCHANGED <<sent, stamps>>
  BY <1>1, FlowType DEF Kept, Number
<1>2. ASSUME NEW us \in Messages, NEW now \in Stamps, Begin(us, now) PROVE Kept
  <2>1. /\ sent \in Seq(Messages) /\ stamps \in Seq(Stamps) /\ Number \in Nat /\ Len(sent) = Number
        /\ Len(stamps) = Number /\ sent' = Append(sent, us) /\ stamps' = Append(stamps, now)
    BY <1>2, FlowType DEF Begin, BaseInv, SenderInv, Number
  <2>2. QED BY <2>1, AppendProperties DEF Kept, Number
<1>3. QED
  BY <1>1, <1>2
  DEF Next, PlaceUnit, FillDone, Send, Abandon, Break, Reconnect, Recv, Done, vars, senderVars

\* Send that succeeds and Abandon: nothing is added.
LEMMA StepFlowLess ==
  ASSUME BaseInv, FlowInv, FillInv, Kept, Send \/ Abandon \/ UNCHANGED vars, link' = "open"
  PROVE  FlowInv' /\ FillInv'
<1>1. PICK L \in Nat : L = Len(Flow') /\ L <= Len(Flow) /\ \A i \in 1..L : Flow'[i] = Flow[i]
  <2>1. CASE Send
    <3>1. Flow' = Flow
      BY <2>1, FlowSend DEF Send
    <3>2. QED BY <3>1, FlowType
  <2>2. CASE Abandon
    BY <2>2, FlowAbandon
  <2>3. CASE UNCHANGED vars
    <3>1. Flow' = Flow
      BY <2>3 DEF vars, senderVars, Flow, Held
    <3>2. QED BY <3>1, FlowType
  <2>4. QED BY <2>1, <2>2, <2>3
<1>2. Len(Flow) \in Nat /\ UNCHANGED <<first, received>>
  BY FlowType DEF Send, Abandon, vars
<1>3. \A i \in 1..L :
        /\ Flow'[i].of = Flow[i].of /\ Flow'[i].stamp = Flow[i].stamp
        /\ Flow'[i].fields = Flow[i].fields /\ Flow[i].units \subseteq Flow'[i].units
        /\ Flow'[i].units \subseteq Own(Flow[i].of)
        /\ (Flow'[i].units = {} <=> Flow[i].units = {})
  BY <1>1, <1>2 DEF FlowInv, FlowPieces, PieceOK
<1>4. FlowInv'
  BY <1>1, <1>2, <1>3, FlowStays
<1>5. CASE Send \/ Abandon
  <2>1. spc' # "fill"
    BY <1>5 DEF Send, Abandon
  <2>2. QED BY <1>4, <2>1 DEF FillInv
<1>6. CASE UNCHANGED vars
  <2>1. Flow' = Flow /\ UNCHANGED <<first, received, sent, stamps, spc, cur, rest>>
    BY <1>6 DEF vars, senderVars, Flow, Held
  <2>2. FillInv'
    BY <2>1 DEF FillInv, Own, Number, Passed, Gathered
  <2>3. QED BY <1>4, <2>2
<1>7. QED BY <1>5, <1>6

\* A new stream has nothing of an earlier one.
LEMMA StepFlowNone ==
  ASSUME BaseInv, ReceivedInv, Reconnect
  PROVE  FlowInv' /\ FillInv'
<1>1. Len(Flow') = 0 /\ first' = None /\ spc' = "idle"
  <2>1. wire' = <<>> /\ out' = <<>> /\ Held' = <<>> /\ first' = None /\ spc' = "idle"
    BY DEF Reconnect, Held
  <2>2. Flow' = <<>>
    BY <2>1, ConcatEmptySeq, EmptySeq DEF Flow
  <2>3. QED BY <2>1, <2>2
<1>2. \A i \in 1..Len(Flow') : FALSE
  BY <1>1
<1>3. QED BY <1>1, <1>2 DEF FlowInv, FillInv, FlowPieces, FlowOrder, FirstInv, FlowStarted,
             FlowComplete, AfterReceived

LEMMA StepInv ==
  ASSUME NoExactFit
  PROVE  IInv /\ [Next]_vars => IInv'
<1> SUFFICES ASSUME IInv, [Next]_vars PROVE IInv'
  OBVIOUS
<1>1. BaseInv /\ RoomInv /\ ReceivedInv /\ (link = "open" => FlowInv /\ FillInv)
  BY DEF IInv
<1>2. BaseInv' /\ RoomInv' /\ Kept
  BY <1>1, StepBase, StepRoom, StepKept
<1>3. CASE Recv
  <2>1. link = "open" /\ FlowInv /\ FillInv
    BY <1>1, <1>3 DEF Recv, BaseInv, ChunkInv
  <2>2. FlowInv' /\ ReceivedInv' /\ FillInv'
    BY <1>1, <1>3, <2>1, StepFlowRecv, StepFillRecv
  <2>3. QED BY <1>2, <2>2 DEF IInv
<1>4. CASE ~Recv
  <2>1. UNCHANGED received
    BY <1>4 DEF Next, Begin, PlaceUnit, FillDone, Send, Abandon, Break, Reconnect, Done, vars, senderVars
  <2>2. ReceivedInv'
    BY <1>1, <1>2, <2>1, StepReceived
  <2>3. ASSUME link' = "open" PROVE FlowInv' /\ FillInv'
    <3>1. ASSUME NEW us \in Messages, NEW now \in Stamps, Begin(us, now) PROVE FlowInv' /\ FillInv'
      <4>1. FlowInv
        BY <1>1, <3>1 DEF Begin
      <4>2. QED BY <1>1, <3>1, <4>1, StepFlowBegin
    <3>2. ASSUME PlaceUnit PROVE FlowInv' /\ FillInv'
      BY <1>1, <2>3, <3>2, StepFlowPlace DEF PlaceUnit
    <3>3. ASSUME FillDone PROVE FlowInv' /\ FillInv'
      BY <1>1, <2>3, <3>3, StepFlowDone DEF FillDone
    <3>4. ASSUME Send \/ Abandon \/ UNCHANGED vars PROVE FlowInv' /\ FillInv'
      <4>1. link = "open"
        BY <2>3, <3>4 DEF Send, Abandon, vars
      <4>2. QED BY <1>1, <1>2, <2>3, <3>4, <4>1, StepFlowLess
    <3>5. ASSUME Reconnect PROVE FlowInv' /\ FillInv'
      BY <1>1, <3>5, StepFlowNone
    <3>6. ~Break
      BY <2>3 DEF Break
    <3>7. Done => UNCHANGED vars
      BY DEF Done
    <3>8. QED BY <1>4, <3>1, <3>2, <3>3, <3>4, <3>5, <3>6, <3>7 DEF Next
  <2>4. QED BY <1>2, <2>2, <2>3 DEF IInv
<1>5. QED BY <1>3, <1>4

LEMMA InitInv == Init => IInv
<1> SUFFICES ASSUME Init PROVE IInv
  OBVIOUS
<1>1. BaseInv /\ RoomInv
  BY InitBase DEF Init, RoomInv
<1>2. ReceivedInv
  BY EmptySeq DEF Init, ReceivedInv
<1>3. Len(Flow) = 0 /\ first = None /\ spc = "idle"
  <2>1. wire = <<>> /\ out = <<>> /\ Held = <<>> /\ first = None /\ spc = "idle"
    BY DEF Init, Held
  <2>2. Flow = <<>>
    BY <2>1, ConcatEmptySeq, EmptySeq DEF Flow
  <2>3. QED BY <2>1, <2>2
<1>4. \A i \in 1..Len(Flow) : FALSE
  BY <1>3
<1>5. FlowInv /\ FillInv
  BY <1>3, <1>4 DEF FlowInv, FillInv, FlowPieces, FlowOrder, FirstInv, FlowStarted, FlowComplete,
                    AfterReceived
<1>6. QED BY <1>1, <1>2, <1>5 DEF IInv

LEMMA Invariant == ASSUME NoExactFit PROVE Spec => []IInv
BY InitInv, StepInv, PTL DEF Spec

\* If no unit alone in a chunk makes it exactly MaxSize, what RecvObserved
\* returns is one whole message, with its units and its other fields,
\* and not one it returned before: whatever was refused, given up or lost with a
\* stream, and although the clock may step back (observed.go:104-136).
THEOREM OneWholeMessage ==
  ASSUME NoExactFit
  PROVE  Spec => []Intact
<1>1. BaseInv /\ ReceivedInv => Intact
  <2> SUFFICES ASSUME BaseInv, ReceivedInv, NEW k \in DOMAIN received
               PROVE  \E n \in 1..Number :
                        /\ received[k].units = {<<n, u>> : u \in sent[n]} /\ received[k].fields
                        /\ \A j \in 1..(k - 1) : received[j].units = {} \/ received[j].units \cap received[k].units = {}
    BY DEF Intact
  <2>1. k \in 1..Len(received) /\ Len(received) \in Nat
    BY LenProperties DEF ReceivedInv
  <2>2. PICK n \in 1..Number : n = received[k].of /\ received[k].units = Own(n) /\ received[k].fields
    BY <2>1 DEF ReceivedInv
  <2>3. ASSUME NEW j \in 1..k - 1 PROVE received[j].units \cap received[k].units = {}
    <3>1. j \in 1..Len(received) /\ j < k
      BY <2>1
    <3>2. received[j].units = Own(received[j].of) /\ received[j].of < n /\ received[j].of \in 1..Number
      BY <2>1, <2>2, <3>1 DEF ReceivedInv
    <3>3. received[j].of # n
      BY <3>2, FlowType
    <3>4. QED BY <2>2, <3>2, <3>3 DEF Own
  <2>4. QED BY <2>2, <2>3 DEF Own
<1>2. IInv => Intact
  BY <1>1 DEF IInv
<1>3. QED BY Invariant, <1>2, PTL

-----------------------------------------------------------------------------
(* Every message is returned *)

\* The last piece of the n-th message is on its way.
Coming(n) == \E i \in 1..Len(Flow) : Flow[i].of = n /\ Ends(Flow[i])
Splitting(n) == n = Number /\ spc = "fill"

LEMMA OrderedBegin ==
  ASSUME IInv, OrderedInv, NEW us \in Messages, NEW now \in Stamps, Begin(us, now), ~lossy'
  PROVE  OrderedInv'
<1>1. /\ Number' = Number + 1 /\ Number \in Nat /\ UNCHANGED <<received, link>> /\ link = "open"
      /\ spc = "idle" /\ BaseInv
  BY FlowType, AppendProperties DEF Begin, IInv, BaseInv, SenderInv, Number
<1>2. ~lossy /\ (spc' = "send" \/ spc' = "fill")
  <2>1. ((spc' = "send" \/ spc' = "fill") /\ lossy' = lossy) \/ lossy'
    BY DEF Begin
  <2>2. (spc' = "send" \/ spc' = "fill") /\ lossy' = lossy
    BY <2>1
  <2>3. ~lossy
    BY <2>2, Zenon
  <2>4. QED BY <2>2, <2>3
<1>3. PICK m : Adds(Flow, Flow', m) /\ (spc' = "send" => m.of = Number' /\ Ends(m))
  <2>1. CASE spc' = "send"
    <3>1. PICK p : p = Message(Number + 1, None, us, TRUE, Whole(us))
      OBVIOUS
    <3>2. p.of = Number + 1 /\ p.stamp = None
      BY <3>1 DEF Message
    <3>3. Adds(Flow, Flow', p)
      BY <1>1, <2>1, <3>1, FlowBegin
    <3>4. QED BY <1>1, <3>2, <3>3 DEF Ends
  <2>2. CASE spc' = "fill"
    <3>1. Adds(Flow, Flow', cur')
      BY <1>1, <2>2, FlowBegin
    <3>2. QED BY <2>2, <3>1
  <2>3. QED BY <1>2, <2>1, <2>2
<1>4. Len(Flow) \in Nat /\ Len(Flow') = Len(Flow) + 1 /\ Flow'[Len(Flow) + 1] = m
      /\ \A i \in 1..Len(Flow) : Flow'[i] = Flow[i]
  BY <1>1, <1>3, FlowType DEF Adds
<1>5. ASSUME NEW n \in 1..Number', n > Len(received') PROVE Splitting(n)' \/ Coming(n)'
  <2>1. CASE n \in 1..Number
    <3>1. PICK i \in 1..Len(Flow) : Flow[i].of = n /\ Ends(Flow[i])
      BY <1>1, <1>2, <1>5, <2>1 DEF OrderedInv
    <3>2. QED BY <1>4, <3>1 DEF Coming, Ends
  <2>2. CASE n = Number'
    <3>1. CASE spc' = "fill"
      BY <2>2, <3>1 DEF Splitting
    <3>2. CASE spc' = "send"
      BY <1>3, <1>4, <2>2, <3>2 DEF Coming, Ends
    <3>3. QED BY <1>2, <3>1, <3>2
  <2>3. QED BY <1>1, <2>1, <2>2
<1>6. \A k \in 1..Len(received') : received'[k].of = k
  BY <1>1, <1>2 DEF OrderedInv
<1>7. QED BY <1>1, <1>2, <1>5, <1>6 DEF OrderedInv, Splitting, Coming

LEMMA OrderedFill ==
  ASSUME IInv, OrderedInv, PlaceUnit \/ FillDone, ~lossy'
  PROVE  OrderedInv'
<1>1. /\ ~lossy /\ link = "open" /\ spc = "fill" /\ UNCHANGED <<received, link, sent, lossy>>
      /\ BaseInv /\ FlowInv /\ FillInv /\ Number' = Number /\ spc' \in {"fill", "send"}
  <2>1. lossy' = lossy
    BY DEF PlaceUnit, FillDone
  <2>2. ~lossy
    BY <2>1, Zenon
  <2>3. link = "open"
    BY <2>2 DEF OrderedInv
  <2>4. spc = "fill" /\ UNCHANGED <<received, link, sent>> /\ spc' \in {"fill", "send"}
    BY DEF PlaceUnit, FillDone
  <2>5. BaseInv /\ FlowInv /\ FillInv
    BY <2>3 DEF IInv
  <2>6. QED BY <2>1, <2>2, <2>3, <2>4, <2>5 DEF Number
<1>2. PICK L : L = Len(Flow)
  OBVIOUS
<1>3. /\ L \in Nat /\ L >= 1 /\ Flow[L] = cur /\ ~Ends(Flow[L])
  BY <1>1, <1>2, LastPiece DEF Ends
<1>4. /\ Len(Flow') \in Nat /\ Len(Flow') >= L /\ \A i \in 1..L - 1 : Flow'[i] = Flow[i]
      /\ PlaceUnit => spc' = "fill"
      /\ FillDone => Flow'[Len(Flow')].of = Number /\ Ends(Flow[Len(Flow)])'
  <2>1. CASE PlaceUnit
    <3>1. spc' = "fill" /\ ~FillDone
      BY <2>1 DEF PlaceUnit, FillDone
    <3>2. Len(Flow') \in Nat /\ Len(Flow') >= L /\ \A i \in 1..L - 1 : Flow'[i] = Flow[i]
      BY <1>1, <1>2, <1>3, <2>1, FlowPlace DEF Adds
    <3>3. QED BY <3>1, <3>2
  <2>2. CASE FillDone
    <3>1. PICK m : m = Message(Number, Now, {}, FALSE, Header)
      OBVIOUS
    <3>2. m.of = Number /\ m.units = {<<Number, u>> : u \in {}}
      BY <3>1 DEF Message
    <3>3. {<<Number, u>> : u \in {}} = {}
      OBVIOUS
    <3>4. Len(Flow') = L + 1 /\ Flow'[L + 1] = m /\ \A i \in 1..L : Flow'[i] = Flow[i]
      BY <1>1, <1>2, <2>2, <3>1, FlowDone DEF Adds
    <3>5. ~PlaceUnit
      BY <2>2 DEF PlaceUnit, FillDone
    <3>6. Len(Flow') \in Nat /\ Len(Flow') >= L /\ \A i \in 1..L - 1 : Flow'[i] = Flow[i]
      BY <1>3, <3>4
    <3>7. Flow'[Len(Flow')] = m
      BY <3>4
    <3>8. QED BY <3>2, <3>3, <3>5, <3>6, <3>7 DEF Ends
  <2>3. QED BY <2>1, <2>2
<1>5. ASSUME NEW n \in 1..Number', n > Len(received') PROVE Splitting(n)' \/ Coming(n)'
  <2>1. CASE n = Number /\ spc = "fill"
    <3>1. CASE PlaceUnit
      BY <1>1, <1>4, <2>1, <3>1 DEF Splitting
    <3>2. CASE FillDone
      <4>1. Len(Flow') \in 1..Len(Flow')
        BY <1>3, <1>4
      <4>2. QED BY <1>4, <2>1, <3>2, <4>1 DEF Coming, Ends
    <3>3. QED BY <3>1, <3>2
  <2>2. CASE \E i \in 1..Len(Flow) : Flow[i].of = n /\ Ends(Flow[i])
    <3>1. PICK i \in 1..Len(Flow) : Flow[i].of = n /\ Ends(Flow[i])
      BY <2>2
    <3>2. i \in 1..L - 1 /\ i \in 1..Len(Flow')
      BY <1>2, <1>3, <1>4, <3>1
    <3>3. QED BY <1>4, <3>1, <3>2 DEF Coming, Ends
  <2>3. QED BY <1>1, <1>5, <2>1, <2>2 DEF OrderedInv
<1>6. link' = "open" /\ spc' # "failed" /\ \A k \in 1..Len(received') : received'[k].of = k
  BY <1>1 DEF OrderedInv
<1>7. QED BY <1>5, <1>6 DEF OrderedInv, Splitting, Coming

\* Recv: the first piece is of the message after those received.
LEMMA OrderedRecv ==
  ASSUME IInv, OrderedInv, Recv, ~lossy'
  PROVE  OrderedInv'
<1>1. /\ ~lossy /\ link = "open" /\ link' = "open" /\ UNCHANGED <<spc, sent, stamps>> /\ spc' # "failed"
      /\ BaseInv /\ FlowInv /\ FillInv /\ ReceivedInv /\ Number' = Number
  BY DEF Recv, senderVars, OrderedInv, IInv, Number
<1>2. PICK m : m = Flow[1]
  OBVIOUS
<1>3. PICK n : n = m.of
  OBVIOUS
<1>4. PICK L : L = Len(Flow)
  OBVIOUS
<1>5. PICK R : R = Len(received)
  OBVIOUS
<1>6. /\ L \in Nat \ {0} /\ 1 \in 1..L /\ Len(Flow') = L - 1 /\ R \in Nat
      /\ \A i \in 1..L - 1 : Flow'[i] = Flow[i + 1]
  BY <1>1, <1>4, <1>5, FlowRecv, LenProperties DEF ReceivedInv
<1>7. PieceOK(m) /\ n \in 1..Number /\ Number \in Nat
  BY <1>1, <1>2, <1>3, <1>4, <1>6, FlowType DEF FlowInv, FlowPieces, PieceOK
<1>8. \A i \in 1..L : n <= Flow[i].of /\ (Ends(m) /\ i # 1 => n < Flow[i].of)
  <2>1. \A i \in 1..L : i = 1 \/ 1 < i
    BY <1>6
  <2>2. QED BY <1>1, <1>2, <1>3, <1>4, <1>6, <1>7, <2>1 DEF FlowInv, FlowOrder
<1>9. n = R + 1
  <2>1. R + 1 <= n
    <3>1. CASE R = 0
      BY <1>7, <3>1
    <3>2. CASE R > 0
      <4>1. R \in 1..Len(received) /\ received[R].of = R
        BY <1>1, <1>5, <1>6, <3>2 DEF OrderedInv
      <4>2. R < n
        BY <1>1, <1>2, <1>3, <1>4, <1>6, <4>1 DEF FlowInv, AfterReceived
      <4>3. QED BY <1>6, <1>7, <4>2
    <3>3. QED BY <1>6, <3>1, <3>2
  <2>2. R + 1 \in 1..Number /\ R + 1 > Len(received)
    BY <1>5, <1>6, <1>7, <2>1
  <2>3. CASE \E i \in 1..Len(Flow) : Flow[i].of = R + 1 /\ Ends(Flow[i])
    BY <1>4, <1>6, <1>7, <1>8, <2>1, <2>3
  <2>4. CASE R + 1 = Number
    BY <1>6, <1>7, <2>1, <2>4
  <2>5. QED BY <1>1, <2>2, <2>3, <2>4 DEF OrderedInv
<1>10. first # None => first.of = n
  <2> SUFFICES ASSUME first # None PROVE first.of = n
    OBVIOUS
  <2>1. first.of <= n /\ first.of \in 1..Number
    BY <1>1, <1>2, <1>3, <1>4, <1>6 DEF FlowInv, FirstInv, PieceOK
  <2>2. CASE R = 0
    BY <1>9, <2>1, <2>2
  <2>3. CASE R > 0
    <3>1. R \in 1..Len(received) /\ received[R].of = R
      BY <1>1, <1>5, <1>6, <2>3 DEF OrderedInv
    <3>2. R < first.of
      BY <1>1, <3>1 DEF FlowInv, AfterReceived
    <3>3. QED BY <1>6, <1>7, <1>9, <2>1, <3>2
  <2>4. QED BY <1>6, <2>2, <2>3
<1>11. ~PassesOver(n)
  <2> SUFFICES ASSUME first # None PROVE ~(first.stamp > stamps[n])
    BY DEF PassesOver
  <2>1. PieceOK(first) /\ first \in Chunks
    BY <1>1 DEF FlowInv, FirstInv
  <2>2. first.stamp = stamps[n] /\ first.stamp \in Nat
    BY <1>10, <2>1, ChunksArePieces DEF PieceOK
  <2>3. QED BY <2>2
<1>12. Ends(m) => Returns(m, n)
  <2> SUFFICES ASSUME Ends(m), ~Returns(m, n) PROVE FALSE
    OBVIOUS
  <2>1. Collects(m, n) /\ ~Passed(n)
    BY <1>1, <1>2, <1>3, <1>11, RecvCases DEF Collects
  <2>2. m = Head(wire)
    BY <1>1, <1>2, FlowRecv
  <2>3. CASE m.stamp = None
    <3>1. received' = Append(received, m) /\ UNCHANGED received
      BY <2>1, <2>2, <2>3 DEF Recv, Return, Collects
    <3>2. received \in Seq(Pieces)
      BY <1>1 DEF ReceivedInv
    <3>3. Len(Append(received, m)) = R + 1
      BY <1>5, <3>2
    <3>4. QED BY <1>5, <1>6, <3>1, <3>3
  <2>4. CASE m.stamp # None /\ m.units = {}
    <3>1. m.stamp = stamps[n]
      BY <1>3, <1>7, <2>4 DEF PieceOK
    <3>2. Started(n, 1)
      BY <1>1, <1>2, <1>3, <1>4, <1>6, <2>4 DEF FlowInv, FlowStarted
    <3>3. ~m.fields
      BY <1>7, <2>4 DEF PieceOK
    <3>4. first # None
      BY <1>2, <2>1, <3>2, <3>3 DEF Started
    <3>5. PieceOK(first) /\ first \in Chunks
      BY <1>1, <3>4 DEF FlowInv, FirstInv
    <3>6. first.stamp = m.stamp /\ first.stamp \in Nat
      BY <1>10, <3>1, <3>4, <3>5, ChunksArePieces DEF PieceOK
    <3>7. first' = None
      BY <2>2, <2>4, <3>4, <3>6 DEF Recv, NewBatch, OldBatch, Return
    <3>8. QED BY <2>1, <3>7, ChunksArePieces DEF Collects
  <2>5. QED BY <2>3, <2>4 DEF Ends
<1>13. CASE Ends(m)
  <2>1. PICK p \in Pieces : p.of = n /\ received' = Append(received, p)
    BY <1>12, <1>13 DEF Returns
  <2>2. /\ Len(received') = R + 1 /\ received'[R + 1] = p
        /\ \A k \in 1..R : received'[k] = received[k]
    BY <1>1, <1>5, <2>1, AppendProperties DEF ReceivedInv
  <2>3. ASSUME NEW k \in 1..Len(received') PROVE received'[k].of = k
    <3>1. CASE k \in 1..R
      BY <1>1, <1>5, <2>2, <3>1 DEF OrderedInv
    <3>2. CASE k = R + 1
      BY <1>9, <2>1, <2>2, <3>2
    <3>3. QED BY <1>6, <2>2, <3>1, <3>2
  <2>4. ASSUME NEW k \in 1..Number', k > Len(received') PROVE Splitting(k)' \/ Coming(k)'
    <3>1. k \in 1..Number /\ k > Len(received) /\ k > n
      BY <1>1, <1>5, <1>6, <1>9, <2>2, <2>4
    <3>2. CASE k = Number /\ spc = "fill"
      BY <1>1, <3>2 DEF Splitting
    <3>3. CASE \E i \in 1..Len(Flow) : Flow[i].of = k /\ Ends(Flow[i])
      <4>1. PICK i \in 1..L : Flow[i].of = k /\ Ends(Flow[i])
        BY <1>4, <3>3
      <4>2. i # 1
        BY <1>2, <1>3, <1>7, <3>1, <4>1
      <4>3. i - 1 \in 1..L - 1 /\ (i - 1) + 1 = i
        BY <1>6, <4>2
      <4>4. Flow'[i - 1] = Flow[i]
        BY <1>6, <4>3
      <4>5. QED BY <1>6, <4>1, <4>3, <4>4 DEF Coming, Ends
    <3>4. QED BY <1>1, <3>1, <3>2, <3>3 DEF OrderedInv
  <2>5. QED BY <1>1, <2>3, <2>4 DEF OrderedInv, Splitting, Coming
<1>14. CASE ~Ends(m)
  <2>1. UNCHANGED received
    BY <1>1, <1>2, <1>3, <1>14, RecvCases DEF Returns, Collects, PassesOver
  <2>2. ASSUME NEW k \in 1..Number', k > Len(received') PROVE Splitting(k)' \/ Coming(k)'
    <3>1. CASE k = Number /\ spc = "fill"
      BY <1>1, <3>1 DEF Splitting
    <3>2. CASE \E i \in 1..Len(Flow) : Flow[i].of = k /\ Ends(Flow[i])
      <4>1. PICK i \in 1..L : Flow[i].of = k /\ Ends(Flow[i])
        BY <1>4, <3>2
      <4>2. i # 1
        BY <1>2, <1>14, <4>1
      <4>3. i - 1 \in 1..L - 1 /\ (i - 1) + 1 = i
        BY <1>6, <4>2
      <4>4. Flow'[i - 1] = Flow[i]
        BY <1>6, <4>3
      <4>5. QED BY <1>6, <4>1, <4>3, <4>4 DEF Coming, Ends
    <3>3. QED BY <1>1, <2>1, <2>2, <3>1, <3>2 DEF OrderedInv
  <2>3. \A k \in 1..Len(received') : received'[k].of = k
    BY <1>1, <2>1 DEF OrderedInv
  <2>4. QED BY <1>1, <2>2, <2>3 DEF OrderedInv, Splitting, Coming
<1>15. QED BY <1>13, <1>14

LEMMA OrderedSame ==
  ASSUME OrderedInv, ~lossy, Flow' = Flow, UNCHANGED <<received, link, sent>>,
         spc' # "failed", spc = "fill" => spc' = "fill"
  PROVE  OrderedInv'
<1>1. link = "open" /\ \A k \in 1..Len(received) : received[k].of = k
  BY DEF OrderedInv
<1>2. \A n \in 1..Number : n > Len(received) => Splitting(n) \/ Coming(n)
  BY DEF OrderedInv, Splitting, Coming
<1>3. ASSUME NEW n \in 1..Number', n > Len(received') PROVE Splitting(n)' \/ Coming(n)'
  <2>1. n \in 1..Number /\ n > Len(received)
    BY <1>3 DEF Number
  <2>2. Splitting(n) => Splitting(n)'
    BY DEF Splitting, Number
  <2>3. Coming(n) => Coming(n)'
    BY DEF Coming, Ends
  <2>4. QED BY <1>2, <2>1, <2>2, <2>3
<1>4. QED BY <1>1, <1>3 DEF OrderedInv, Splitting, Coming

LEMMA StepOrdered == IInv /\ OrderedInv /\ [Next]_vars => OrderedInv'
<1> SUFFICES ASSUME IInv, OrderedInv, [Next]_vars, ~lossy' PROVE OrderedInv'
  BY DEF OrderedInv
<1>1. CASE Send
  <2>1. /\ ~lossy
        /\ wire' = Append(wire, Head(out)) /\ out' = Tail(out)
        /\ spc' = IF Tail(out) = <<>> THEN "idle" ELSE "send"
        /\ UNCHANGED <<received, link, sent>> /\ spc = "send" /\ spc' \in {"idle", "send"}
    BY <1>1 DEF Send
  <2>2. Flow' = Flow
    BY <1>1, <2>1, FlowSend DEF IInv
  <2>3. QED BY <2>1, <2>2, OrderedSame
<1>2. CASE Abandon \/ Break
  BY <1>2 DEF Abandon, Break
<1>3. CASE Reconnect
  BY <1>3 DEF Reconnect, OrderedInv
<1>4. CASE Done \/ UNCHANGED vars
  <2>1. Flow' = Flow /\ UNCHANGED <<received, link, sent, spc>> /\ lossy' = lossy
    BY <1>4 DEF Done, vars, senderVars, Flow, Held
  <2>2. ~lossy
    BY <2>1, Zenon
  <2>3. spc' # "failed"
    BY <2>1, <2>2 DEF OrderedInv
  <2>4. QED BY <2>1, <2>2, <2>3, OrderedSame
<1>5. QED BY <1>1, <1>2, <1>3, <1>4, OrderedBegin, OrderedFill, OrderedRecv DEF Next

LEMMA InitOrdered == Init => OrderedInv
BY DEF Init, OrderedInv, Number

\* On the same condition a batch that is sent is returned: with nothing refused, given
\* up or broken, once the sender is idle and the stream is empty RecvObserved has
\* returned each message (observed.go:90-97).
THEOREM SentIsReceived ==
  ASSUME NoExactFit
  PROVE  Spec => []Delivered
<1>1. IInv /\ OrderedInv => Delivered
  <2> SUFFICES ASSUME IInv, OrderedInv, spc = "idle", wire = <<>>, ~lossy
               PROVE  Len(received) = Number
    BY DEF Delivered
  <2>1. BaseInv /\ ReceivedInv /\ out = <<>> /\ Held = <<>> /\ Number \in Nat /\ Len(received) \in Nat
    BY FlowType, LenProperties DEF IInv, BaseInv, ChunkInv, ReceivedInv, Held
  <2>2. Flow = <<>>
    BY <2>1, ConcatEmptySeq, EmptySeq DEF Flow
  <2>3. \A n \in 1..Number : n <= Len(received)
    BY <2>1, <2>2 DEF OrderedInv
  <2>4. Len(received) > 0 => Len(received) \in 1..Number
    BY <2>1 DEF OrderedInv, ReceivedInv
  <2>5. Number > 0 => Number <= Len(received)
    BY <2>1, <2>3
  <2>6. QED BY <2>1, <2>4, <2>5
<1>2. IInv /\ IInv' /\ OrderedInv /\ [Next]_vars => OrderedInv'
  BY StepOrdered
<1>3. QED BY Invariant, InitOrdered, <1>1, <1>2, PTL DEF Spec

=============================================================================
