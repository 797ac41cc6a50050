---------------------------- MODULE StoreProofs ----------------------------
(***************************************************************************)
(* Proofs about Store, for every set of transactions, keys and values and  *)
(* any number of restarts: the client implements Transactions, and sends   *)
(* nothing on a transaction that is over.                                  *)
(*                                                                         *)
(* The inductive invariant says what a request in flight can be: the call  *)
(* its caller waits for, or the last call of a transaction that broke.     *)
(***************************************************************************)
EXTENDS Store, TLAPS

Pending(t) == handle[t] = "have" /\ brokenErr[t] = None /\ t \notin committed \cup discarded

\* A request is the call its caller waits for, or the one that failed last.
Live(m) == call[m.tx] = m.call /\ reply[m.tx] = None
Late(m) ==
  /\ call[m.tx] = None
  /\ \/ handle[m.tx] = "failed" /\ m.call.op = "begin"
     \/ handle[m.tx] = "have" /\ brokenErr[m.tx] = m.call.op

RequestOf(m) ==
  /\ Live(m) \/ Late(m)
  /\ fate[m.tx] \notin {"applied", "dropped"}
  /\ \A n \in requests : n.tx = m.tx => n = m
RequestInv == \A m \in requests : RequestOf(m)

CallOf(t) ==
  call[t] # None =>
    \/ handle[t] = "none" /\ call[t].op = "begin"
    \/ /\ Pending(t) /\ call[t] \in Asked /\ call[t].op # "begin"
       /\ call[t].op = "write" => t \in readWrite
CallInv == \A t \in Tx : CallOf(t)

\* What the agent made of a transaction agrees with what its caller knows.
FateOf(t) ==
  /\ handle[t] = "have" => fate[t] # "none"
  /\ handle[t] # "have" =>
       /\ t \notin committed \cup discarded /\ brokenErr[t] = None
       /\ fate[t] \in {"none", "open"}
       /\ call[t] # None /\ reply[t] = "ok" => fate[t] = "open"
  /\ t \in committed => fate[t] = "applied" /\ brokenErr[t] = None
  /\ t \in discarded => fate[t] = "dropped" /\ brokenErr[t] = None
  /\ fate[t] = "applied" =>
       t \in committed \/ brokenErr[t] = "commit" \/ (call[t] # None /\ call[t].op = "commit")
  /\ Pending(t) /\ (call[t] # None => call[t].op \in {"get", "write"}) => fate[t] = "open"
  /\ call[t] # None /\ reply[t] = "ok" =>
       /\ call[t].op = "commit" => fate[t] = "applied"
       /\ call[t].op = "discard" => fate[t] = "dropped"
FateInv == \A t \in Tx : FateOf(t)

\* The agent's buffer holds the writes the caller was told of, and the one it
\* waits for if the agent has answered.
BufferOf(t) ==
  /\ handle[t] # "have" => buffer[t] = Untouched /\ written[t] = Untouched
  /\ handle[t] = "have" /\ brokenErr[t] \in {None, "commit"} =>
       IF call[t] # None /\ call[t].op = "write"
       THEN /\ reply[t] = None => buffer[t] = written[t]
            /\ reply[t] = "ok" =>
                 buffer[t] = [written[t] EXCEPT ![call[t].key] = call[t].entry]
       ELSE buffer[t] = written[t]
BufferInv == \A t \in Tx : BufferOf(t)

IInv == StoreTypeOK /\ RequestInv /\ CallInv /\ FateInv /\ BufferInv

-----------------------------------------------------------------------------
\* For all constants, every reachable state satisfies the inductive invariant.
THEOREM StoreInvariant == StoreSpec => []IInv
<1>1. StoreInit => IInv
  BY StoreAssumption DEF StoreInit, IInv, StoreTypeOK, RequestInv, CallInv, CallOf, FateInv,
    FateOf,
    BufferInv, BufferOf, Pending, Untouched, Overlay, Entry
<1>2. IInv /\ [StoreNext]_storeVars => IInv'
  <2> SUFFICES ASSUME IInv, [StoreNext]_storeVars PROVE IInv'
    OBVIOUS
  <2> USE StoreAssumption DEF IInv, StoreTypeOK, RequestInv, RequestOf, CallInv, CallOf, FateInv, FateOf,
    Live, Late, Pending, Plain, storeVars, connVars, clientVars, agentVars
  <2>1. ASSUME UNCHANGED storeVars \/ Stop \/ Start PROVE IInv'
    <3>1. UNCHANGED <<clientVars, agentVars>> /\ conn' \in {"open", "closed"} /\ starts' \in Nat
      BY <2>1 DEF StoreTypeOK, Stop, Start, storeVars, connVars
    <3>2. StoreTypeOK'
      BY <3>1 DEF StoreTypeOK, clientVars, agentVars
    <3>3. RequestInv' /\ CallInv'
      BY <3>1 DEF RequestInv, RequestOf, CallInv, CallOf, Live, Late, Pending, clientVars,
        agentVars
    <3>4. FateInv' /\ BufferInv'
      BY <3>1 DEF FateInv, FateOf, BufferInv, BufferOf, Pending, clientVars, agentVars
    <3>5. QED BY <3>2, <3>3, <3>4
  <2>2. ASSUME NEW t \in Tx, BeginTx(t) PROVE IInv'
    <3>1. StoreTypeOK'
      BY <2>2 DEF Call, Overlay, Entry, Write, Asked, Untouched, BeginTx, Send
    <3>2. RequestInv'
      <4> SUFFICES ASSUME NEW u \in requests' PROVE RequestOf(u)'
        BY DEF RequestInv
      <4>1. CASE u.tx = t
        BY <2>2, <4>1 DEF BeginTx, Send
      <4>2. CASE u.tx # t
        BY <2>2, <4>2 DEF BeginTx, Send
      <4>3. QED BY <4>1, <4>2
    <3>3. CallInv'
      <4> SUFFICES ASSUME NEW u \in Tx PROVE CallOf(u)'
        BY DEF CallInv
      <4>1. CASE u = t
        BY <2>2, <4>1 DEF BeginTx, Send
      <4>2. CASE u # t
        BY <2>2, <4>2 DEF BeginTx, Send
      <4>3. QED BY <4>1, <4>2
    <3>4. FateInv'
      <4> SUFFICES ASSUME NEW u \in Tx PROVE FateOf(u)'
        BY DEF FateInv
      <4>1. CASE u = t
        BY <2>2, <4>1 DEF BeginTx, Send
      <4>2. CASE u # t
        BY <2>2, <4>2 DEF BeginTx, Send
      <4>3. QED BY <4>1, <4>2
    <3>5. BufferInv'
      <4> SUFFICES ASSUME NEW u \in Tx PROVE BufferOf(u)'
        BY DEF BufferInv
      <4>1. CASE u = t
        BY <2>2, <4>1 DEF BufferInv, BufferOf, Untouched, Overlay, Entry, BeginTx, Send
      <4>2. CASE u # t
        BY <2>2, <4>2 DEF BufferInv, BufferOf, Untouched, Overlay, Entry, BeginTx, Send
      <4>3. QED BY <4>1, <4>2
    <3>6. QED BY <3>1, <3>2, <3>3, <3>4, <3>5 DEF IInv
  <2>3. ASSUME NEW t \in Tx, Begun(t) PROVE IInv'
    <3>1. StoreTypeOK'
      BY <2>3 DEF Call, Overlay, Entry, Write, Asked, Untouched, Begun
    <3>2. RequestInv'
      <4> SUFFICES ASSUME NEW u \in requests' PROVE RequestOf(u)'
        BY DEF RequestInv
      <4>1. CASE u.tx = t
        BY <2>3, <4>1 DEF Begun, Call
      <4>2. CASE u.tx # t
        BY <2>3, <4>2 DEF Begun, Call
      <4>3. QED BY <4>1, <4>2
    <3>3. CallInv'
      <4> SUFFICES ASSUME NEW u \in Tx PROVE CallOf(u)'
        BY DEF CallInv
      <4>1. CASE u = t
        BY <2>3, <4>1 DEF Begun, Call
      <4>2. CASE u # t
        BY <2>3, <4>2 DEF Begun, Call
      <4>3. QED BY <4>1, <4>2
    <3>4. FateInv'
      <4> SUFFICES ASSUME NEW u \in Tx PROVE FateOf(u)'
        BY DEF FateInv
      <4>1. CASE u = t
        BY <2>3, <4>1 DEF Begun, Call
      <4>2. CASE u # t
        BY <2>3, <4>2 DEF Begun, Call
      <4>3. QED BY <4>1, <4>2
    <3>5. BufferInv'
      <4> SUFFICES ASSUME NEW u \in Tx PROVE BufferOf(u)'
        BY DEF BufferInv
      <4>1. CASE u = t
        BY <2>3, <4>1 DEF BufferInv, BufferOf, Untouched, Overlay, Entry, Begun, Call
      <4>2. CASE u # t
        BY <2>3, <4>2 DEF BufferInv, BufferOf, Untouched, Overlay, Entry, Begun, Call
      <4>3. QED BY <4>1, <4>2
    <3>6. QED BY <3>1, <3>2, <3>3, <3>4, <3>5 DEF IInv
  <2>4. ASSUME NEW t \in Tx, Done(t) PROVE IInv'
    <3>1. StoreTypeOK'
      BY <2>4 DEF Call, Overlay, Entry, Write, Asked, Untouched, Done
    <3>2. RequestInv'
      <4> SUFFICES ASSUME NEW u \in requests' PROVE RequestOf(u)'
        BY DEF RequestInv
      <4>1. CASE u.tx = t
        BY <2>4, <4>1 DEF Done, Asked, Write
      <4>2. CASE u.tx # t
        BY <2>4, <4>2 DEF Done, Asked, Write
      <4>3. QED BY <4>1, <4>2
    <3>3. CallInv'
      <4> SUFFICES ASSUME NEW u \in Tx PROVE CallOf(u)'
        BY DEF CallInv
      <4>1. CASE u = t
        BY <2>4, <4>1 DEF Done, Asked, Write
      <4>2. CASE u # t
        BY <2>4, <4>2 DEF Done, Asked, Write
      <4>3. QED BY <4>1, <4>2
    <3>4. FateInv'
      <4> SUFFICES ASSUME NEW u \in Tx PROVE FateOf(u)'
        BY DEF FateInv
      <4>1. CASE u = t
        BY <2>4, <4>1 DEF Done, Asked, Write
      <4>2. CASE u # t
        BY <2>4, <4>2 DEF Done, Asked, Write
      <4>3. QED BY <4>1, <4>2
    <3>5. BufferInv'
      <4> SUFFICES ASSUME NEW u \in Tx PROVE BufferOf(u)'
        BY DEF BufferInv
      <4>1. CASE u = t
        BY <2>4, <4>1 DEF BufferInv, BufferOf, Untouched, Overlay, Entry, Done, Asked,
          Write
      <4>2. CASE u # t
        BY <2>4, <4>2 DEF BufferInv, BufferOf, Untouched, Overlay, Entry, Done, Asked,
          Write
      <4>3. QED BY <4>1, <4>2
    <3>6. QED BY <3>1, <3>2, <3>3, <3>4, <3>5 DEF IInv
  <2>5. ASSUME NEW t \in Tx, Fail(t) PROVE IInv'
    <3>1. StoreTypeOK'
      <4>1. handle[t] # "none" => call[t].op \in {"get", "write", "commit", "discard"}
        BY <2>5 DEF Fail, Asked, Write
      <4>2. handle' \in [Tx -> {"none", "have", "failed"}] /\ call' \in [Tx -> Call \cup {None}]
        BY <2>5 DEF Fail
      <4>3. brokenErr' \in [Tx -> {"get", "write", "commit", "discard", None}]
        BY <2>5, <4>1 DEF Fail
      <4>4. QED BY <2>5, <4>2, <4>3 DEF Fail
    <3>2. RequestInv'
      <4> SUFFICES ASSUME NEW u \in requests' PROVE RequestOf(u)'
        BY DEF RequestInv
      <4>1. CASE u.tx = t
        BY <2>5, <4>1 DEF Fail, Asked, Write
      <4>2. CASE u.tx # t
        BY <2>5, <4>2 DEF Fail, Asked, Write
      <4>3. QED BY <4>1, <4>2
    <3>3. CallInv'
      <4> SUFFICES ASSUME NEW u \in Tx PROVE CallOf(u)'
        BY DEF CallInv
      <4>1. CASE u = t
        BY <2>5, <4>1 DEF Fail, Asked, Write
      <4>2. CASE u # t
        BY <2>5, <4>2 DEF Fail, Asked, Write
      <4>3. QED BY <4>1, <4>2
    <3>4. FateInv'
      <4> SUFFICES ASSUME NEW u \in Tx PROVE FateOf(u)'
        BY DEF FateInv
      <4>1. CASE u = t
        BY <2>5, <4>1 DEF Fail, Asked, Write
      <4>2. CASE u # t
        BY <2>5, <4>2 DEF Fail, Asked, Write
      <4>3. QED BY <4>1, <4>2
    <3>5. BufferInv'
      <4> SUFFICES ASSUME NEW u \in Tx PROVE BufferOf(u)'
        BY DEF BufferInv
      <4>1. CASE u = t
        BY <2>5, <4>1 DEF BufferInv, BufferOf, Untouched, Overlay, Entry, Fail, Asked, Write
      <4>2. CASE u # t
        BY <2>5, <4>2 DEF BufferInv, BufferOf, Untouched, Overlay, Entry, Fail, Asked, Write
      <4>3. QED BY <4>1, <4>2
    <3>6. QED BY <3>1, <3>2, <3>3, <3>4, <3>5 DEF IInv
  <2>6. ASSUME NEW t \in Tx, NEW c \in Asked, Ask(t, c) PROVE IInv'
    <3>1. StoreTypeOK'
      BY <2>6 DEF Call, Overlay, Entry, Write, Asked, Untouched, Ask, Send, Idle, Checked
    <3>2. RequestInv'
      <4> SUFFICES ASSUME NEW u \in requests' PROVE RequestOf(u)'
        BY DEF RequestInv
      <4>1. CASE u.tx = t
        BY <2>6, <4>1 DEF Ask, Send, Idle, Checked, Asked, Write, Call
      <4>2. CASE u.tx # t
        BY <2>6, <4>2 DEF Ask, Send, Idle, Checked, Asked, Write, Call
      <4>3. QED BY <4>1, <4>2
    <3>3. CallInv'
      <4> SUFFICES ASSUME NEW u \in Tx PROVE CallOf(u)'
        BY DEF CallInv
      <4>1. CASE u = t
        BY <2>6, <4>1 DEF Ask, Send, Idle, Checked, Asked, Write, Call
      <4>2. CASE u # t
        BY <2>6, <4>2 DEF Ask, Send, Idle, Checked, Asked, Write, Call
      <4>3. QED BY <4>1, <4>2
    <3>4. FateInv'
      <4> SUFFICES ASSUME NEW u \in Tx PROVE FateOf(u)'
        BY DEF FateInv
      <4>1. CASE u = t
        BY <2>6, <4>1 DEF Ask, Send, Idle, Checked, Asked, Write, Call
      <4>2. CASE u # t
        BY <2>6, <4>2 DEF Ask, Send, Idle, Checked, Asked, Write, Call
      <4>3. QED BY <4>1, <4>2
    <3>5. BufferInv'
      <4> SUFFICES ASSUME NEW u \in Tx PROVE BufferOf(u)'
        BY DEF BufferInv
      <4>1. CASE u = t
        BY <2>6, <4>1 DEF BufferInv, BufferOf, Untouched, Overlay, Entry, Ask, Send, Idle,
          Checked, Asked, Write, Call
      <4>2. CASE u # t
        BY <2>6, <4>2 DEF BufferInv, BufferOf, Untouched, Overlay, Entry, Ask, Send, Idle,
          Checked, Asked, Write, Call
      <4>3. QED BY <4>1, <4>2
    <3>6. QED BY <3>1, <3>2, <3>3, <3>4, <3>5 DEF IInv
  <2>7. ASSUME NEW t \in Tx, NEW c \in Asked, Refuse(t, c) PROVE IInv'
    <3>1. StoreTypeOK'
      BY <2>7 DEF Call, Overlay, Entry, Write, Asked, Untouched, Refuse, Idle
    <3>2. RequestInv'
      <4> SUFFICES ASSUME NEW u \in requests' PROVE RequestOf(u)'
        BY DEF RequestInv
      <4>1. CASE u.tx = t
        BY <2>7, <4>1 DEF Refuse, Idle
      <4>2. CASE u.tx # t
        BY <2>7, <4>2 DEF Refuse, Idle
      <4>3. QED BY <4>1, <4>2
    <3>3. CallInv'
      <4> SUFFICES ASSUME NEW u \in Tx PROVE CallOf(u)'
        BY DEF CallInv
      <4>1. CASE u = t
        BY <2>7, <4>1 DEF Refuse, Idle
      <4>2. CASE u # t
        BY <2>7, <4>2 DEF Refuse, Idle
      <4>3. QED BY <4>1, <4>2
    <3>4. FateInv'
      <4> SUFFICES ASSUME NEW u \in Tx PROVE FateOf(u)'
        BY DEF FateInv
      <4>1. CASE u = t
        BY <2>7, <4>1 DEF Refuse, Idle
      <4>2. CASE u # t
        BY <2>7, <4>2 DEF Refuse, Idle
      <4>3. QED BY <4>1, <4>2
    <3>5. BufferInv'
      <4> SUFFICES ASSUME NEW u \in Tx PROVE BufferOf(u)'
        BY DEF BufferInv
      <4>1. CASE u = t
        BY <2>7, <4>1 DEF BufferInv, BufferOf, Untouched, Overlay, Entry, Refuse, Idle
      <4>2. CASE u # t
        BY <2>7, <4>2 DEF BufferInv, BufferOf, Untouched, Overlay, Entry, Refuse, Idle
      <4>3. QED BY <4>1, <4>2
    <3>6. QED BY <3>1, <3>2, <3>3, <3>4, <3>5 DEF IInv
  <2>8. ASSUME NEW m \in requests, AgentBegin(m) PROVE IInv'
    <3>1. StoreTypeOK'
      BY <2>8 DEF Call, Overlay, Entry, Write, Asked, Untouched, AgentBegin, Handled, Respond
    <3>2. RequestInv'
      <4> SUFFICES ASSUME NEW u \in requests' PROVE RequestOf(u)'
        BY DEF RequestInv
      <4>1. CASE u.tx = m.tx
        BY <2>8, <4>1 DEF AgentBegin, Handled, Respond
      <4>2. CASE u.tx # m.tx
        BY <2>8, <4>2 DEF AgentBegin, Handled, Respond
      <4>3. QED BY <4>1, <4>2
    <3>3. CallInv'
      <4> SUFFICES ASSUME NEW u \in Tx PROVE CallOf(u)'
        BY DEF CallInv
      <4>1. CASE u = m.tx
        BY <2>8, <4>1 DEF AgentBegin, Handled, Respond
      <4>2. CASE u # m.tx
        BY <2>8, <4>2 DEF AgentBegin, Handled, Respond
      <4>3. QED BY <4>1, <4>2
    <3>4. FateInv'
      <4> SUFFICES ASSUME NEW u \in Tx PROVE FateOf(u)'
        BY DEF FateInv
      <4>1. CASE u = m.tx
        BY <2>8, <4>1 DEF AgentBegin, Handled, Respond
      <4>2. CASE u # m.tx
        BY <2>8, <4>2 DEF AgentBegin, Handled, Respond
      <4>3. QED BY <4>1, <4>2
    <3>5. BufferInv'
      <4> SUFFICES ASSUME NEW u \in Tx PROVE BufferOf(u)'
        BY DEF BufferInv
      <4>1. CASE u = m.tx
        BY <2>8, <4>1 DEF BufferInv, BufferOf, Untouched, Overlay, Entry, AgentBegin, Handled,
          Respond
      <4>2. CASE u # m.tx
        BY <2>8, <4>2 DEF BufferInv, BufferOf, Untouched, Overlay, Entry, AgentBegin, Handled,
          Respond
      <4>3. QED BY <4>1, <4>2
    <3>6. QED BY <3>1, <3>2, <3>3, <3>4, <3>5 DEF IInv
  <2>9. ASSUME NEW m \in requests, AgentGet(m) PROVE IInv'
    <3>1. StoreTypeOK'
      BY <2>9 DEF Call, Overlay, Entry, Write, Asked, Untouched, AgentGet, Handled, Respond
    <3>2. RequestInv'
      <4> SUFFICES ASSUME NEW u \in requests' PROVE RequestOf(u)'
        BY DEF RequestInv
      <4>1. CASE u.tx = m.tx
        BY <2>9, <4>1 DEF AgentGet, Handled, Respond
      <4>2. CASE u.tx # m.tx
        BY <2>9, <4>2 DEF AgentGet, Handled, Respond
      <4>3. QED BY <4>1, <4>2
    <3>3. CallInv'
      <4> SUFFICES ASSUME NEW u \in Tx PROVE CallOf(u)'
        BY DEF CallInv
      <4>1. CASE u = m.tx
        BY <2>9, <4>1 DEF AgentGet, Handled, Respond
      <4>2. CASE u # m.tx
        BY <2>9, <4>2 DEF AgentGet, Handled, Respond
      <4>3. QED BY <4>1, <4>2
    <3>4. FateInv'
      <4> SUFFICES ASSUME NEW u \in Tx PROVE FateOf(u)'
        BY DEF FateInv
      <4>1. CASE u = m.tx
        BY <2>9, <4>1 DEF AgentGet, Handled, Respond
      <4>2. CASE u # m.tx
        BY <2>9, <4>2 DEF AgentGet, Handled, Respond
      <4>3. QED BY <4>1, <4>2
    <3>5. BufferInv'
      <4> SUFFICES ASSUME NEW u \in Tx PROVE BufferOf(u)'
        BY DEF BufferInv
      <4>1. CASE u = m.tx
        BY <2>9, <4>1 DEF BufferInv, BufferOf, Untouched, Overlay, Entry, AgentGet, Handled,
          Respond
      <4>2. CASE u # m.tx
        BY <2>9, <4>2 DEF BufferInv, BufferOf, Untouched, Overlay, Entry, AgentGet, Handled,
          Respond
      <4>3. QED BY <4>1, <4>2
    <3>6. QED BY <3>1, <3>2, <3>3, <3>4, <3>5 DEF IInv
  <2>10. ASSUME NEW m \in requests, AgentWrite(m) PROVE IInv'
    <3>1. StoreTypeOK'
      <4>1. m.tx \in Tx /\ m.call.entry \in Entry \cup {None}
        BY DEF Call
      <4>2. buffer' \in [Tx -> Overlay]
        BY <2>10, <4>1 DEF AgentWrite, Overlay
      <4>3. QED BY <2>10, <4>2 DEF AgentWrite, Handled, Respond
    <3>2. RequestInv'
      <4> SUFFICES ASSUME NEW u \in requests' PROVE RequestOf(u)'
        BY DEF RequestInv
      <4>1. CASE u.tx = m.tx
        BY <2>10, <4>1 DEF AgentWrite, Handled, Respond
      <4>2. CASE u.tx # m.tx
        BY <2>10, <4>2 DEF AgentWrite, Handled, Respond
      <4>3. QED BY <4>1, <4>2
    <3>3. CallInv'
      <4> SUFFICES ASSUME NEW u \in Tx PROVE CallOf(u)'
        BY DEF CallInv
      <4>1. CASE u = m.tx
        BY <2>10, <4>1 DEF AgentWrite, Handled, Respond
      <4>2. CASE u # m.tx
        BY <2>10, <4>2 DEF AgentWrite, Handled, Respond
      <4>3. QED BY <4>1, <4>2
    <3>4. FateInv'
      <4> SUFFICES ASSUME NEW u \in Tx PROVE FateOf(u)'
        BY DEF FateInv
      <4>1. CASE u = m.tx
        BY <2>10, <4>1 DEF AgentWrite, Handled, Respond
      <4>2. CASE u # m.tx
        BY <2>10, <4>2 DEF AgentWrite, Handled, Respond
      <4>3. QED BY <4>1, <4>2
    <3>5. BufferInv'
      <4> SUFFICES ASSUME NEW u \in Tx PROVE BufferOf(u)'
        BY DEF BufferInv
      <4>1. CASE u = m.tx
        <5>1. BufferOf(u) /\ RequestOf(m) /\ m.call.op = "write"
          BY <2>10, <4>1 DEF AgentWrite, BufferInv
        <5>2. /\ buffer' = [buffer EXCEPT ![u][m.call.key] = m.call.entry]
              /\ UNCHANGED <<handle, brokenErr, call, written>>
          BY <2>10, <4>1 DEF AgentWrite
        <5>3. CASE Live(m)
          <6>1. call[u] = m.call /\ reply' = [reply EXCEPT ![u] = "ok"]
            BY <2>10, <4>1, <5>3 DEF AgentWrite, Respond
          <6>2. handle[u] = "have"
            BY <6>1, <5>1 DEF Call
          <6>3. buffer'[u] = [buffer[u] EXCEPT ![call[u].key] = call[u].entry] /\ reply'[u] = "ok"
            BY <5>2, <6>1
          <6>4. QED BY <5>1, <5>2, <5>3, <6>1, <6>2, <6>3, <4>1 DEF BufferOf
        <5>4. CASE Late(m)
          BY <4>1, <5>1, <5>2, <5>4 DEF BufferOf
        <5>5. QED BY <5>1, <5>3, <5>4
      <4>2. CASE u # m.tx
        BY <2>10, <4>2 DEF BufferInv, BufferOf, Untouched, Overlay, Entry, AgentWrite, Handled,
          Respond
      <4>3. QED BY <4>1, <4>2
    <3>6. QED BY <3>1, <3>2, <3>3, <3>4, <3>5 DEF IInv
  <2>11. ASSUME NEW m \in requests, AgentCommit(m) PROVE IInv'
    <3>1. StoreTypeOK'
      BY <2>11 DEF Call, Overlay, Entry, Write, Asked, Untouched, AgentCommit, Handled, Respond,
        Merge
    <3>2. RequestInv'
      <4> SUFFICES ASSUME NEW u \in requests' PROVE RequestOf(u)'
        BY DEF RequestInv
      <4>1. CASE u.tx = m.tx
        BY <2>11, <4>1 DEF AgentCommit, Handled, Respond, Merge
      <4>2. CASE u.tx # m.tx
        BY <2>11, <4>2 DEF AgentCommit, Handled, Respond, Merge
      <4>3. QED BY <4>1, <4>2
    <3>3. CallInv'
      <4> SUFFICES ASSUME NEW u \in Tx PROVE CallOf(u)'
        BY DEF CallInv
      <4>1. CASE u = m.tx
        BY <2>11, <4>1 DEF AgentCommit, Handled, Respond, Merge
      <4>2. CASE u # m.tx
        BY <2>11, <4>2 DEF AgentCommit, Handled, Respond, Merge
      <4>3. QED BY <4>1, <4>2
    <3>4. FateInv'
      <4> SUFFICES ASSUME NEW u \in Tx PROVE FateOf(u)'
        BY DEF FateInv
      <4>1. CASE u = m.tx
        BY <2>11, <4>1 DEF AgentCommit, Handled, Respond, Merge
      <4>2. CASE u # m.tx
        BY <2>11, <4>2 DEF AgentCommit, Handled, Respond, Merge
      <4>3. QED BY <4>1, <4>2
    <3>5. BufferInv'
      <4> SUFFICES ASSUME NEW u \in Tx PROVE BufferOf(u)'
        BY DEF BufferInv
      <4>1. CASE u = m.tx
        BY <2>11, <4>1 DEF BufferInv, BufferOf, Untouched, Overlay, Entry, AgentCommit, Handled,
          Respond, Merge
      <4>2. CASE u # m.tx
        BY <2>11, <4>2 DEF BufferInv, BufferOf, Untouched, Overlay, Entry, AgentCommit, Handled,
          Respond, Merge
      <4>3. QED BY <4>1, <4>2
    <3>6. QED BY <3>1, <3>2, <3>3, <3>4, <3>5 DEF IInv
  <2>12. ASSUME NEW m \in requests, AgentDiscard(m) PROVE IInv'
    <3>1. StoreTypeOK'
      BY <2>12 DEF Call, Overlay, Entry, Write, Asked, Untouched, AgentDiscard, Handled, Respond
    <3>2. RequestInv'
      <4> SUFFICES ASSUME NEW u \in requests' PROVE RequestOf(u)'
        BY DEF RequestInv
      <4>1. CASE u.tx = m.tx
        BY <2>12, <4>1 DEF AgentDiscard, Handled, Respond
      <4>2. CASE u.tx # m.tx
        BY <2>12, <4>2 DEF AgentDiscard, Handled, Respond
      <4>3. QED BY <4>1, <4>2
    <3>3. CallInv'
      <4> SUFFICES ASSUME NEW u \in Tx PROVE CallOf(u)'
        BY DEF CallInv
      <4>1. CASE u = m.tx
        BY <2>12, <4>1 DEF AgentDiscard, Handled, Respond
      <4>2. CASE u # m.tx
        BY <2>12, <4>2 DEF AgentDiscard, Handled, Respond
      <4>3. QED BY <4>1, <4>2
    <3>4. FateInv'
      <4> SUFFICES ASSUME NEW u \in Tx PROVE FateOf(u)'
        BY DEF FateInv
      <4>1. CASE u = m.tx
        BY <2>12, <4>1 DEF AgentDiscard, Handled, Respond
      <4>2. CASE u # m.tx
        BY <2>12, <4>2 DEF AgentDiscard, Handled, Respond
      <4>3. QED BY <4>1, <4>2
    <3>5. BufferInv'
      <4> SUFFICES ASSUME NEW u \in Tx PROVE BufferOf(u)'
        BY DEF BufferInv
      <4>1. CASE u = m.tx
        BY <2>12, <4>1 DEF BufferInv, BufferOf, Untouched, Overlay, Entry, AgentDiscard,
          Handled, Respond
      <4>2. CASE u # m.tx
        BY <2>12, <4>2 DEF BufferInv, BufferOf, Untouched, Overlay, Entry, AgentDiscard,
          Handled, Respond
      <4>3. QED BY <4>1, <4>2
    <3>6. QED BY <3>1, <3>2, <3>3, <3>4, <3>5 DEF IInv
  <2>13. ASSUME NEW m \in requests, AgentRefuses(m) PROVE IInv'
    <3>1. StoreTypeOK'
      BY <2>13 DEF Call, Overlay, Entry, Write, Asked, Untouched, AgentRefuses, Handled, Respond
    <3>2. RequestInv'
      <4> SUFFICES ASSUME NEW u \in requests' PROVE RequestOf(u)'
        BY DEF RequestInv
      <4>1. CASE u.tx = m.tx
        BY <2>13, <4>1 DEF AgentRefuses, Handled, Respond
      <4>2. CASE u.tx # m.tx
        BY <2>13, <4>2 DEF AgentRefuses, Handled, Respond
      <4>3. QED BY <4>1, <4>2
    <3>3. CallInv'
      <4> SUFFICES ASSUME NEW u \in Tx PROVE CallOf(u)'
        BY DEF CallInv
      <4>1. CASE u = m.tx
        BY <2>13, <4>1 DEF AgentRefuses, Handled, Respond
      <4>2. CASE u # m.tx
        BY <2>13, <4>2 DEF AgentRefuses, Handled, Respond
      <4>3. QED BY <4>1, <4>2
    <3>4. FateInv'
      <4> SUFFICES ASSUME NEW u \in Tx PROVE FateOf(u)'
        BY DEF FateInv
      <4>1. CASE u = m.tx
        BY <2>13, <4>1 DEF AgentRefuses, Handled, Respond
      <4>2. CASE u # m.tx
        BY <2>13, <4>2 DEF AgentRefuses, Handled, Respond
      <4>3. QED BY <4>1, <4>2
    <3>5. BufferInv'
      <4> SUFFICES ASSUME NEW u \in Tx PROVE BufferOf(u)'
        BY DEF BufferInv
      <4>1. CASE u = m.tx
        BY <2>13, <4>1 DEF BufferInv, BufferOf, Untouched, Overlay, Entry, AgentRefuses,
          Handled, Respond
      <4>2. CASE u # m.tx
        BY <2>13, <4>2 DEF BufferInv, BufferOf, Untouched, Overlay, Entry, AgentRefuses,
          Handled, Respond
      <4>3. QED BY <4>1, <4>2
    <3>6. QED BY <3>1, <3>2, <3>3, <3>4, <3>5 DEF IInv
  <2>14. QED
    BY <2>1, <2>2, <2>3, <2>4, <2>5, <2>6, <2>7, <2>8, <2>9, <2>10, <2>11, <2>12, <2>13
    DEF StoreNext, Caller, Agent
<1>3. QED BY <1>1, <1>2, PTL DEF StoreSpec

-----------------------------------------------------------------------------
\* For all constants, a request in flight is of a transaction the agent has not
\* ended: what a flag, an error or a late request lets through comes in time.
THEOREM QuietTransactions == StoreSpec => []QuietAfterEnd
<1>1. IInv => QuietAfterEnd
  BY DEF IInv, RequestInv, RequestOf, QuietAfterEnd
<1>2. QED BY <1>1, StoreInvariant, PTL

-----------------------------------------------------------------------------
(* The refinement *)

AbstractFate == [t \in Tx |-> IF fate[t] = "none" THEN "open" ELSE fate[t]]
AbstractReadWrite == {t \in readWrite : handle[t] = "have"}

\* The flags of a transaction give what its caller was told.
LEMMA ToldPending ==
  ASSUME IInv, NEW t \in Tx, Pending(t)
  PROVE  Told[t] = "pending"
BY StoreAssumption DEF Told, Pending

\* A step that leaves a transaction's flags alone leaves alone what was told.
LEMMA StutterStep ==
  ASSUME IInv,
         UNCHANGED <<store, fate, handle, brokenErr, committed, discarded, readWrite, written>>
  PROVE  UNCHANGED Promise!vars
BY DEF Promise!vars, Told

\* A step of Store that starts from the invariant is a step of the promise, or
\* leaves it alone: replies and refusals the caller does not see stutter.
LEMMA StepRefines ==
  ASSUME IInv, [StoreNext]_storeVars
  PROVE  [Promise!Next]_(Promise!vars)
<1>1. CASE UNCHANGED storeVars \/ Stop \/ Start
  BY <1>1, StutterStep DEF Stop, Start, storeVars, connVars, clientVars, agentVars
<1>2. ASSUME NEW t \in Tx, BeginTx(t) PROVE UNCHANGED Promise!vars
  <2>1. AbstractReadWrite' = AbstractReadWrite
    BY <1>2 DEF BeginTx, AbstractReadWrite
  <2>2. QED BY <1>2, <2>1 DEF BeginTx, Promise!vars, Told, AbstractReadWrite
<1>3. ASSUME NEW t \in Tx, Begun(t) PROVE Promise!Begin(t)
  <2>1. handle[t] = "none" /\ t \notin committed \cup discarded /\ brokenErr[t] = None
    BY <1>3, StoreAssumption DEF IInv, StoreTypeOK, CallInv, CallOf, FateInv, FateOf, Begun,
      Plain, Call
  <2>2. handle' = [handle EXCEPT ![t] = "have"]
    BY <1>3 DEF Begun
  <2>3. Told[t] = "none" /\ Told' = [Told EXCEPT ![t] = "pending"]
    <3>1. UNCHANGED <<brokenErr, committed, discarded>>
      BY <1>3 DEF Begun
    <3>2. handle[t] # "have" /\ handle'[t] = "have" /\ \A u \in Tx \ {t} : handle'[u] = handle[u]
      BY <2>1, <2>2 DEF IInv, StoreTypeOK
    <3>3. QED BY <2>1, <3>1, <3>2, StoreAssumption DEF Told
  <2>4. AbstractReadWrite' \in {AbstractReadWrite, AbstractReadWrite \cup {t}}
    <3>1. CASE t \in readWrite
      BY <1>3, <2>2, <3>1 DEF Begun, AbstractReadWrite, IInv, StoreTypeOK
    <3>2. CASE t \notin readWrite
      BY <1>3, <2>2, <3>2 DEF Begun, AbstractReadWrite, IInv, StoreTypeOK
    <3>3. QED BY <3>1, <3>2
  <2>5. QED
    BY <1>3, <2>3, <2>4 DEF Promise!Begin, Promise!Learns, Begun, AbstractReadWrite, agentVars
<1>4. ASSUME NEW t \in Tx, Done(t) PROVE [Promise!Next]_(Promise!vars)
  <2>1. Pending(t) /\ call[t] \in Asked /\ Told[t] = "pending"
    BY <1>4, ToldPending DEF IInv, CallInv, CallOf, Done
  <2>2. UNCHANGED <<store, fate, handle, brokenErr, readWrite>>
    BY <1>4 DEF Done, agentVars
  <2>3. CASE call[t].op = "get"
    BY <1>4, <2>2, <2>3, StutterStep DEF Done
  <2>4. CASE call[t].op = "write"
    <3>1. PICK k \in Keys, e \in Entry : call[t] = Write(k, e)
      BY <2>1, <2>4 DEF Asked, Plain
    <3>2. written' = [written EXCEPT ![t][k] = e] /\ UNCHANGED <<committed, discarded>>
      BY <1>4, <2>4, <3>1 DEF Done, Write
    <3>3. fate[t] = "open" /\ t \in AbstractReadWrite
      BY <1>4, <2>1, <2>4 DEF Done, IInv, FateInv, FateOf, CallInv, CallOf, Pending,
        AbstractReadWrite
    <3>4. Promise!Write(t, k, e)
      BY <2>1, <2>2, <3>2, <3>3 DEF Promise!Write, Told, AbstractReadWrite
    <3>5. QED BY <3>1, <3>4 DEF Promise!Next, Promise!Entry, Entry
  <2>5. CASE call[t].op = "commit"
    <3>1. committed' = committed \cup {t} /\ UNCHANGED <<discarded, written>> /\ fate[t] = "applied"
      BY <1>4, <2>5 DEF Done, IInv, FateInv, FateOf
    <3>2. Told' = [Told EXCEPT ![t] = "committed"]
      BY <2>1, <2>2, <3>1 DEF Told, Pending
    <3>3. Promise!Committed(t)
      BY <2>1, <2>2, <3>1, <3>2 DEF Promise!Committed, Promise!Learns
    <3>4. QED BY <3>3 DEF Promise!Next
  <2>6. CASE call[t].op = "discard"
    <3>1. discarded' = discarded \cup {t} /\ UNCHANGED <<committed, written>> /\ fate[t] = "dropped"
      BY <1>4, <2>6 DEF Done, IInv, FateInv, FateOf
    <3>2. Told' = [Told EXCEPT ![t] = "discarded"]
      BY <2>1, <2>2, <3>1 DEF Told, Pending
    <3>3. Promise!Discarded(t)
      BY <2>1, <2>2, <3>1, <3>2 DEF Promise!Discarded, Promise!Learns
    <3>4. QED BY <3>3 DEF Promise!Next
  <2>7. QED BY <2>1, <2>3, <2>4, <2>5, <2>6 DEF Asked, Plain, Write
<1>5. ASSUME NEW t \in Tx, Fail(t) PROVE [Promise!Next]_(Promise!vars)
  <2>1. UNCHANGED <<store, fate, committed, discarded, readWrite, written>>
    BY <1>5 DEF Fail, agentVars
  <2>2. CASE handle[t] = "none"
    <3>1. handle' = [handle EXCEPT ![t] = "failed"] /\ UNCHANGED brokenErr
      BY <1>5, <2>2 DEF Fail
    <3>2. UNCHANGED <<Told, AbstractReadWrite>>
      BY <2>1, <2>2, <3>1 DEF Told, AbstractReadWrite, IInv, StoreTypeOK
    <3>3. QED BY <2>1, <3>2 DEF Promise!vars, AbstractReadWrite
  <2>3. CASE handle[t] # "none"
    <3>1. Pending(t) /\ Told[t] = "pending"
      BY <1>5, <2>3, ToldPending DEF IInv, CallInv, CallOf, Fail
    <3>2. brokenErr' = [brokenErr EXCEPT ![t] = call[t].op] /\ UNCHANGED handle
      BY <1>5, <2>3 DEF Fail
    <3>3. CASE call[t].op = "commit"
      <4>1. Told' = [Told EXCEPT ![t] = "in doubt"]
        BY <2>1, <3>1, <3>2, <3>3 DEF Told, Pending, IInv, StoreTypeOK
      <4>2. Promise!Doubt(t)
        BY <2>1, <3>1, <3>2, <4>1 DEF Promise!Doubt, Promise!Learns
      <4>3. QED BY <4>2 DEF Promise!Next
    <3>4. CASE call[t].op # "commit"
      <4>1. call[t].op # None
        BY <1>5, StoreAssumption DEF Fail, IInv, StoreTypeOK, Call
      <4>2. Told' = [Told EXCEPT ![t] = "broken"]
        BY <2>1, <3>1, <3>2, <3>4, <4>1 DEF Told, Pending, IInv, StoreTypeOK
      <4>3. fate[t] # "applied"
        BY <3>1, <3>4, StoreAssumption DEF IInv, FateInv, FateOf, Pending
      <4>4. Promise!Break(t)
        BY <2>1, <3>1, <3>2, <4>2, <4>3 DEF Promise!Break, Promise!Learns
      <4>5. QED BY <4>4 DEF Promise!Next
    <3>5. QED BY <3>3, <3>4
  <2>4. QED BY <2>2, <2>3
<1>6. ASSUME NEW t \in Tx, NEW c \in Asked, Ask(t, c) \/ Refuse(t, c) PROVE UNCHANGED Promise!vars
  BY <1>6, StutterStep DEF Ask, Refuse, agentVars
<1>7. ASSUME NEW m \in requests, AgentBegin(m) PROVE UNCHANGED Promise!vars
  <2>1. AbstractFate' = AbstractFate
    BY <1>7 DEF AgentBegin, AbstractFate, IInv, StoreTypeOK
  <2>2. QED BY <1>7, <2>1 DEF AgentBegin, Promise!vars, Told, AbstractFate, clientVars
<1>8. ASSUME NEW m \in requests, AgentGet(m) \/ AgentWrite(m) PROVE UNCHANGED Promise!vars
  BY <1>8, StutterStep DEF AgentGet, AgentWrite, clientVars
<1>9. ASSUME NEW m \in requests, AgentCommit(m) PROVE Promise!Apply(m.tx)
  <2> DEFINE t == m.tx
  <2>1. t \in Tx /\ fate[t] = "open" /\ m.call.op = "commit"
    BY <1>9 DEF AgentCommit, IInv, StoreTypeOK
  <2>2. /\ handle[t] = "have" /\ brokenErr[t] \in {None, "commit"} /\ buffer[t] = written[t]
        /\ Told[t] \in {"pending", "in doubt"}
    <3>1. CASE Live(m)
      BY <2>1, <3>1, ToldPending, StoreAssumption
      DEF Live, IInv, CallInv, CallOf, StoreTypeOK, Pending, BufferInv, BufferOf
    <3>2. CASE Late(m)
      BY <2>1, <3>2 DEF Late, IInv, BufferInv, BufferOf, Told
    <3>3. QED BY <3>1, <3>2 DEF IInv, RequestInv, RequestOf
  <2>3. store' = Promise!Merge(store, written[t])
    BY <1>9, <2>2 DEF AgentCommit, Merge, Promise!Merge
  <2>4. AbstractFate' = [AbstractFate EXCEPT ![t] = "applied"] /\ AbstractFate[t] = "open"
    BY <1>9, <2>1 DEF AgentCommit, AbstractFate, IInv, StoreTypeOK
  <2>5. UNCHANGED <<Told, AbstractReadWrite, written>>
    BY <1>9 DEF AgentCommit, clientVars, Told, AbstractReadWrite
  <2>6. QED BY <2>2, <2>3, <2>4, <2>5 DEF Promise!Apply, AbstractFate, AbstractReadWrite
<1>10. ASSUME NEW m \in requests, AgentDiscard(m) \/ AgentRefuses(m)
       PROVE  Promise!Drop(m.tx) \/ UNCHANGED Promise!vars
  <2>1. m.tx \in Tx /\ UNCHANGED <<Told, AbstractReadWrite, written, store>>
    BY <1>10 DEF AgentDiscard, AgentRefuses, clientVars, Told, AbstractReadWrite, IInv,
      StoreTypeOK
  <2>2. CASE fate' = [fate EXCEPT ![m.tx] = "dropped"] /\ fate[m.tx] = "open"
    <3>1. AbstractFate' = [AbstractFate EXCEPT ![m.tx] = "dropped"] /\ AbstractFate[m.tx] = "open"
      BY <2>1, <2>2 DEF AbstractFate, IInv, StoreTypeOK
    <3>2. QED BY <2>1, <3>1 DEF Promise!Drop, AbstractFate, AbstractReadWrite
  <2>3. CASE fate' = fate
    BY <1>10, <2>3, StutterStep DEF AgentDiscard, AgentRefuses, clientVars
  <2>4. QED BY <1>10, <2>2, <2>3 DEF AgentDiscard, AgentRefuses
<1>11. ASSUME NEW m \in requests, Agent(m) PROVE [Promise!Next]_(Promise!vars)
  <2>1. m.tx \in Tx
    BY DEF IInv, StoreTypeOK
  <2>2. QED BY <1>7, <1>8, <1>9, <1>10, <1>11, <2>1 DEF Agent, Promise!Next
<1>12. ASSUME NEW t \in Tx, Caller(t) PROVE [Promise!Next]_(Promise!vars)
  BY <1>2, <1>3, <1>4, <1>5, <1>6, <1>12 DEF Caller, Promise!Next
<1>13. QED BY <1>1, <1>11, <1>12 DEF StoreNext

\* For all constants, the client implements the promise of a transaction:
\* written whole, as its caller was told, or not at all.
THEOREM StoreKeepsPromise == StoreSpec => Implements
<1>1. StoreInit => Promise!Init
  BY StoreAssumption DEF StoreInit, Promise!Init, Promise!Untouched, Untouched, Told
<1>2. IInv /\ [StoreNext]_storeVars => [Promise!Next]_(Promise!vars)
  BY StepRefines
<1>3. QED BY <1>1, <1>2, StoreInvariant, PTL DEF StoreSpec, Implements, Promise!Spec
=============================================================================
