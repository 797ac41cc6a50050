------------------------------- MODULE Chunk -------------------------------
(***************************************************************************)
(* Chunked messages (pkg/client/chunk/observed.go): Observed splits a      *)
(* message whose units do not fit in one, sendObservedChunked sends the    *)
(* chunks one by one, RecvObserved puts them together.  Expected and       *)
(* RecvExpected (chunk/expected.go) are the same for the other direction.  *)
(*                                                                         *)
(* A message is the set of its units; the order of the units is not kept   *)
(* by the code either.  bytes is what protobuf.Size returns.  The stream   *)
(* delivers in order until it breaks.  A sender may give a batch up and    *)
(* start another (elastic-agent-client.proto:308-312).                     *)
(***************************************************************************)
EXTENDS Naturals, Sequences, FiniteSets, FiniteSetsExt

CONSTANTS
  Units,       \* what a message may carry
  Size,        \* unit -> its size
  MaxSize,     \* maxSize
  Padding,     \* repeatPadding
  Plain,       \* size without units: of a message sent whole,
  First,       \* ... of the first chunk, with all other fields,
  Header,      \* ... of any other chunk, with two of these: token and timestamp
  Messages,    \* the sets of units the messages have
  MaxMessages, \* bound: messages
  MaxBreaks,   \* bound: broken streams, batches given up
  None

ASSUME ChunkAssumption ==
  /\ Size \in [Units -> Nat]
  /\ {MaxSize, Padding, Plain, First, Header, MaxMessages, MaxBreaks} \subseteq Nat
  /\ Header <= First
  /\ Messages \subseteq SUBSET Units /\ \A us \in Messages : IsFiniteSet(us)
  /\ None \notin Nat
  /\ None \notin [of : 1..MaxMessages, stamp : 1..MaxMessages,
                 units : SUBSET ((1..MaxMessages) \X Units), fields : BOOLEAN, bytes : Nat]

Stamps == 1..MaxMessages

VARIABLES
  sent,      \* the messages given to Observed, in order
  stamps,    \* the timestamp of each; the clock may step back
  spc,       \* the sender
  cur, size, \* the chunk being filled, and what the code takes for its size
  rest,      \* units in no chunk yet
  out,       \* msgs: chunks still to send
  wire, link,
  first,     \* first of RecvObserved
  received,  \* what RecvObserved returned, in order
  lossy,     \* a message was refused, given up or lost with a stream
  breaks

senderVars == <<sent, stamps, spc, cur, size, rest, out>>
vars == <<senderVars, wire, link, first, received, lossy, breaks>>

\* What a unit adds to a message: its bytes, a tag and its length as a varint.
Entry(u) ==
  Size[u] + (IF Size[u] < 128 THEN 2 ELSE IF Size[u] < 16384 THEN 3
             ELSE IF Size[u] < 2097152 THEN 4 ELSE 5)
Whole(us) == Plain + MapThenSumSet(Entry, us)

\* Mutant: what each unit adds besides its bytes is not counted.
CountedBare(u) == Size[u]
Counted(u) == Size[u] + Padding

Smallest(us) == CHOOSE u \in us : \A v \in us : Size[u] <= Size[v]

\* n says which message the units are of; no action reads `of'.
Message(n, stamp, us, fields, bytes) ==
  [of |-> n, stamp |-> stamp, units |-> {<<n, u>> : u \in us}, fields |-> fields,
   bytes |-> bytes]

Init ==
  /\ sent = <<>> /\ stamps = <<>> /\ spc = "idle" /\ cur = None /\ size = 0 /\ rest = {}
  /\ out = <<>> /\ wire = <<>> /\ link = "open"
  /\ first = None /\ received = <<>> /\ lossy = FALSE /\ breaks = 0

-----------------------------------------------------------------------------
(* Observed *)

Number == Len(sent)
Now == stamps[Number]

SendsWhole(us) == Whole(us) <= MaxSize \/ Cardinality(us) <= 1

Refused(us) ==
  \/ \E u \in us : Size[u] >= MaxSize
  \/ First + Entry(Smallest(us)) >= MaxSize

Begin(us, now) ==
  /\ spc = "idle" /\ link = "open" /\ Number < MaxMessages
  /\ \A k \in 1..Number : stamps[k] # now
  /\ sent' = Append(sent, us) /\ stamps' = Append(stamps, now)
  /\ \/ /\ SendsWhole(us) /\ spc' = "send"
        /\ out' = <<Message(Number + 1, None, us, TRUE, Whole(us))>>
        /\ UNCHANGED <<cur, size, rest, lossy>>
     \/ /\ ~SendsWhole(us) /\ Refused(us) /\ spc' = "failed" /\ lossy' = TRUE
        /\ UNCHANGED <<cur, size, rest, out>>
     \/ /\ ~SendsWhole(us) /\ ~Refused(us) /\ spc' = "fill"
        /\ LET u == Smallest(us) IN
             /\ cur' = Message(Number + 1, now, {u}, TRUE, First + Entry(u))
             /\ size' = First + Entry(u) /\ rest' = us \ {u}
        /\ UNCHANGED <<out, lossy>>
  /\ UNCHANGED <<wire, link, first, received, breaks>>

Filling == size < MaxSize /\ rest # {}
Fits(u) == size + Counted(u) < MaxSize

\* The smallest unit left goes to this chunk if it fits, or starts the next.
PlaceUnit ==
  /\ spc = "fill" /\ Filling
  /\ LET u == Smallest(rest) IN
       /\ rest' = rest \ {u}
       /\ \/ /\ Fits(u) /\ size' = size + Counted(u) /\ UNCHANGED out
             /\ cur' = [of |-> cur.of, stamp |-> cur.stamp, fields |-> cur.fields,
                        units |-> cur.units \cup {<<Number, u>>},
                        bytes |-> cur.bytes + Entry(u)]
          \/ /\ ~Fits(u) /\ out' = Append(out, cur)
             /\ cur' = Message(Number, Now, {u}, FALSE, Header + Entry(u))
             /\ size' = Header + Entry(u)
  /\ UNCHANGED <<sent, stamps, spc, wire, link, first, received, lossy, breaks>>

\* Mutant: no empty chunk ends the batch.
NoEnd == <<cur>>
Ending == <<cur, Message(Number, Now, {}, FALSE, Header)>>

FillDone ==
  /\ spc = "fill" /\ ~Filling
  /\ out' = out \o Ending
  /\ spc' = "send" /\ cur' = None /\ size' = 0 /\ rest' = {}
  /\ UNCHANGED <<sent, stamps, wire, link, first, received, lossy, breaks>>

-----------------------------------------------------------------------------
(* sendObservedChunked, and the stream *)

\* gRPC sends a message of at most maxMessageSize and ends the stream for any
\* other.
Send ==
  /\ spc = "send" /\ out # <<>> /\ link = "open"
  /\ \/ /\ Head(out).bytes <= MaxSize
        /\ wire' = Append(wire, Head(out)) /\ out' = Tail(out)
        /\ spc' = IF Tail(out) = <<>> THEN "idle" ELSE "send"
        /\ UNCHANGED <<link, lossy>>
     \/ /\ Head(out).bytes > MaxSize
        /\ link' = "broken" /\ wire' = <<>> /\ lossy' = TRUE /\ UNCHANGED <<out, spc>>
  /\ UNCHANGED <<sent, stamps, cur, size, rest, first, received, breaks>>

\* The sender gives the rest of a batch up.
Abandon ==
  /\ spc = "send" /\ out # <<>> /\ breaks < MaxBreaks /\ breaks' = breaks + 1
  /\ out' = <<>> /\ spc' = "idle" /\ lossy' = TRUE
  /\ UNCHANGED <<sent, stamps, cur, size, rest, wire, link, first, received>>

Break ==
  /\ link = "open" /\ breaks < MaxBreaks /\ breaks' = breaks + 1
  /\ link' = "broken" /\ wire' = <<>> /\ lossy' = TRUE
  /\ UNCHANGED <<senderVars, first, received>>

\* Mutant: what is left of a batch goes to the next stream.
ReconnectResumes ==
  /\ link = "broken" \/ spc = "failed"
  /\ link' = "open" /\ wire' = <<>> /\ first' = None
  /\ spc' = "idle" /\ cur' = None /\ size' = 0 /\ rest' = {} /\ UNCHANGED out
  /\ UNCHANGED <<sent, stamps, received, lossy, breaks>>

\* An error ends the round trip at either end; the next has a new stream.
Reconnect ==
  /\ link = "broken" \/ spc = "failed"
  /\ link' = "open" /\ wire' = <<>> /\ first' = None
  /\ spc' = "idle" /\ cur' = None /\ size' = 0 /\ rest' = {} /\ out' = <<>>
  /\ UNCHANGED <<sent, stamps, received, lossy, breaks>>

-----------------------------------------------------------------------------
(* RecvObserved *)

\* Mutant: the timestamps are not compared.
FirstOfCall(m) == first = None
NewBatch(m) == IF first = None THEN TRUE ELSE m.stamp > first.stamp
OldBatch(m) == IF first = None THEN FALSE ELSE m.stamp < first.stamp

Return(m) == received' = Append(received, m) /\ first' = None

\* A message of its own; the first chunk of a batch; a chunk of an older
\* batch; another chunk of this one.  A chunk without units ends the batch.
Recv ==
  /\ wire # <<>> /\ wire' = Tail(wire)
  /\ LET m == Head(wire) IN
     IF m.stamp = None THEN Return(m)
     ELSE \/ /\ NewBatch(m)
             /\ IF m.units = {} THEN Return(m) ELSE first' = m /\ UNCHANGED received
          \/ /\ ~NewBatch(m) /\ OldBatch(m) /\ UNCHANGED <<first, received>>
          \/ /\ ~NewBatch(m) /\ ~OldBatch(m)
             /\ IF m.units = {} THEN Return(first)
                ELSE /\ first' = [first EXCEPT !.units = @ \cup m.units]
                     /\ UNCHANGED received
  /\ UNCHANGED <<senderVars, link, lossy, breaks>>

-----------------------------------------------------------------------------
Done == Number = MaxMessages /\ spc = "idle" /\ wire = <<>> /\ link = "open" /\ UNCHANGED vars

Next ==
  \/ \E us \in Messages, now \in Stamps : Begin(us, now)
  \/ PlaceUnit \/ FillDone \/ Send \/ Abandon \/ Break \/ Reconnect \/ Recv \/ Done

Spec == Init /\ [][Next]_vars

-----------------------------------------------------------------------------
(* Properties *)

\* Every variable has its type, and chunks wait only for a sender that sends.
TypeOK ==
  /\ sent \in Seq(Messages) /\ Len(stamps) = Len(sent) /\ size \in Nat /\ rest \subseteq Units
  /\ spc \in {"idle", "fill", "send", "failed"} /\ link \in {"open", "broken"}
  /\ out # <<>> => spc \in {"fill", "send"}
  /\ cur # None <=> spc = "fill"

\* What RecvObserved returns is one whole message with its other fields,
\* never a part of one or parts of two (observed_test.go:246), whatever was
\* given up or lost before; and no message is returned twice.
Intact ==
  \A k \in DOMAIN received : \E n \in 1..Number :
    /\ received[k].units = {<<n, u>> : u \in sent[n]} /\ received[k].fields
    /\ \A j \in 1..(k - 1) : received[j].units = {} \/ received[j].units \cap received[k].units = {}

\* A batch that is sent is returned (observed.go:91-97): with nothing refused,
\* given up or broken, once the stream is empty every message was received.
Delivered ==
  spc = "idle" /\ wire = <<>> /\ ~lossy => Len(received) = Number

TooLong(m) == m.stamp # None /\ m.bytes > MaxSize

\* A message is split so that gRPC sends each chunk, as
\* TestObserved_RepeatPadding expects (observed_test.go:350-388).  Not so for
\* units near maxSize (observed.go:87), nor for units of 16384 bytes or more
\* (option.go:9).
ChunksFit == spc = "send" => \A k \in DOMAIN out : ~TooLong(out[k])

Alone(m) == ~m.fields /\ m.units # {} /\ \A x, y \in m.units : x = y
\* A unit that adds more than the padding counts for it, beside another.
Unpadded(m) == \E x, y \in m.units : x # y /\ Entry(y[2]) > Size[y[2]] + Padding

\* Those are the only chunks that gRPC does not send: a unit that is too long
\* with the header of a chunk of its own, and units with more around them than
\* the padding; never the first chunk with one unit, and never the chunk that
\* ends a batch (observed.go:58-97).
OversizeExplained == \A k \in DOMAIN out : TooLong(out[k]) => Alone(out[k]) \/ Unpadded(out[k])

=============================================================================
