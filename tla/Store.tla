------------------------------- MODULE Store -------------------------------
(***************************************************************************)
(* Transactions of the key-value store (pkg/client/store.go): the flags of *)
(* storeClientTx, the calls they let through, and what an error does to    *)
(* them.  Each transaction has one caller, which makes one call at a time  *)
(* (storeClientTx has no lock); the transactions interleave.               *)
(*                                                                         *)
(* The agent is external.  A call that fails says nothing of its request:  *)
(* the agent may have handled it, may never see it, or may handle it later,*)
(* so a request stays in flight after its call returned.  Values are       *)
(* opaque; what GetKey reads and the ttl of a key are the agent's affair.  *)
(***************************************************************************)
EXTENDS Naturals

CONSTANTS
  Tx,        \* transactions
  Keys, Values,
  Absent,    \* a key that is not in the store
  None,
  MaxStarts  \* bound: calls of Start

VARIABLES
  conn, starts,   \* the gRPC connection; calls of Start
  handle,         \* tx -> what BeginTx returned: "none" yet, a handle, "failed"
  readWrite,      \* the transactions begun with write
  brokenErr,      \* tx -> the call whose error brokenErr holds
  discarded, committed,
  call,           \* tx -> the call its caller waits for
  reply,          \* tx -> the response the agent gave to it
  written,        \* tx -> the writes its caller was told of
  requests,       \* requests the agent may yet handle
  fate, buffer, store \* the agent's transactions, their writes, the store

connVars == <<conn, starts>>
clientVars == <<handle, readWrite, brokenErr, discarded, committed, call, written>>
agentVars == <<reply, requests, fate, buffer, store>>
storeVars == <<connVars, clientVars, agentVars>>

Entry == Values \cup {Absent}
Overlay == [Keys -> Entry \cup {None}]
Untouched == [k \in Keys |-> None]

Call == [op : {"begin", "get", "write", "commit", "discard"},
         key : Keys \cup {None}, entry : Entry \cup {None}]
Plain(op) == [op |-> op, key |-> None, entry |-> None]
\* SetKey, and DeleteKey when e is Absent.
Write(k, e) == [op |-> "write", key |-> k, entry |-> e]

ASSUME StoreAssumption ==
  /\ None \notin Keys \cup Entry \cup Call /\ MaxStarts \in Nat
  /\ None \notin {"ok", "error", "begin", "get", "write", "commit", "discard"}

StoreInit ==
  /\ conn = "open" /\ starts = 1
  /\ handle = [t \in Tx |-> "none"] /\ readWrite = {}
  /\ brokenErr = [t \in Tx |-> None] /\ discarded = {} /\ committed = {}
  /\ call = [t \in Tx |-> None] /\ reply = [t \in Tx |-> None]
  /\ written = [t \in Tx |-> Untouched]
  /\ requests = {}
  /\ fate = [t \in Tx |-> "none"] /\ buffer = [t \in Tx |-> Untouched]
  /\ store = [k \in Keys |-> Absent]

-----------------------------------------------------------------------------
(* The client *)

\* Stop closes the connection; transactions outlive it.
Stop ==
  /\ conn = "open" /\ conn' = "closed"
  /\ UNCHANGED <<starts, clientVars, agentVars>>

Start ==
  /\ conn = "closed" /\ starts < MaxStarts
  /\ conn' = "open" /\ starts' = starts + 1
  /\ UNCHANGED <<clientVars, agentVars>>

\* The RPC is sent; on a closed connection it can only fail.
Send(t, c) ==
  /\ call' = [call EXCEPT ![t] = c]
  /\ requests' = IF conn = "open" THEN requests \cup {[tx |-> t, call |-> c]} ELSE requests
  /\ reply' = [reply EXCEPT ![t] = None]

BeginTx(t) ==
  /\ handle[t] = "none" /\ call[t] = None
  /\ readWrite' \in {readWrite, readWrite \cup {t}}
  /\ Send(t, Plain("begin"))
  /\ UNCHANGED <<connVars, handle, brokenErr, discarded, committed, written, fate, buffer, store>>

Idle(t) == handle[t] = "have" /\ call[t] = None

\* What the flags return for an op before any RPC is made; "rpc" if they let
\* the call through.
Checked(t, op) ==
  IF brokenErr[t] # None THEN "ErrStoreTxBroken"
  ELSE IF t \in discarded THEN IF op = "discard" THEN "nil" ELSE "ErrStoreTxDiscarded"
  ELSE IF t \in committed THEN IF op \in {"commit", "discard"} THEN "nil" ELSE "ErrStoreTxCommitted"
  ELSE IF op = "write" /\ t \notin readWrite THEN "ErrStoreTxReadOnly"
  ELSE "rpc"

\* GetKey, SetKey, DeleteKey, Commit or Discard, refused or done already.
Refuse(t, c) ==
  /\ Idle(t) /\ Checked(t, c.op) # "rpc"
  /\ UNCHANGED <<connVars, handle, readWrite, brokenErr, discarded, committed, call, written, agentVars>>

Ask(t, c) ==
  /\ Idle(t) /\ Checked(t, c.op) = "rpc"
  /\ Send(t, c)
  /\ UNCHANGED <<connVars, handle, readWrite, brokenErr, discarded, committed, written, fate, buffer, store>>

\* What the caller may ask of a transaction.
Asked == {Plain(op) : op \in {"get", "commit", "discard"}} \cup
         {Write(k, e) : k \in Keys, e \in Entry}

Begun(t) ==
  /\ call[t] = Plain("begin") /\ reply[t] = "ok"
  /\ handle' = [handle EXCEPT ![t] = "have"] /\ call' = [call EXCEPT ![t] = None]
  /\ UNCHANGED <<connVars, readWrite, brokenErr, discarded, committed, written, agentVars>>

\* Mutant: Commit leaves its flag unset.
DoneForgets(t) ==
  LET c == call[t] IN
  /\ handle[t] = "have" /\ c # None /\ reply[t] = "ok"
  /\ written' = IF c.op = "write" THEN [written EXCEPT ![t][c.key] = c.entry] ELSE written
  /\ call' = [call EXCEPT ![t] = None]
  /\ UNCHANGED <<connVars, handle, readWrite, brokenErr, committed, discarded, agentVars>>

\* The RPC of a transaction succeeds.
Done(t) ==
  LET c == call[t] IN
  /\ handle[t] = "have" /\ c # None /\ reply[t] = "ok"
  /\ committed' = IF c.op = "commit" THEN committed \cup {t} ELSE committed
  /\ discarded' = IF c.op = "discard" THEN discarded \cup {t} ELSE discarded
  /\ written' = IF c.op = "write" THEN [written EXCEPT ![t][c.key] = c.entry] ELSE written
  /\ call' = [call EXCEPT ![t] = None]
  /\ UNCHANGED <<connVars, handle, readWrite, brokenErr, agentVars>>

\* Mutant: BeginTx returns a handle along with its error.
FailKeepsHandle(t) ==
  LET c == call[t] IN
  /\ c # None /\ brokenErr' = [brokenErr EXCEPT ![t] = c.op]
  /\ handle' = [handle EXCEPT ![t] = "have"] /\ call' = [call EXCEPT ![t] = None]
  /\ UNCHANGED <<connVars, readWrite, discarded, committed, written, agentVars>>

\* Mutant: an error of Discard counts as discarded.
FailDiscards(t) ==
  LET c == call[t] IN
  /\ c # None
  /\ handle' = IF handle[t] = "none" THEN [handle EXCEPT ![t] = "failed"] ELSE handle
  /\ IF c.op = "discard" THEN discarded' = discarded \cup {t} /\ UNCHANGED brokenErr
     ELSE IF handle[t] = "have" THEN brokenErr' = [brokenErr EXCEPT ![t] = c.op] /\ UNCHANGED discarded
     ELSE UNCHANGED <<brokenErr, discarded>>
  /\ call' = [call EXCEPT ![t] = None]
  /\ UNCHANGED <<connVars, readWrite, committed, written, agentVars>>

\* The RPC fails: the agent answered so, the connection is closed, or the
\* caller's context is over.  GetKey takes an unknown status for an error.
Fail(t) ==
  LET c == call[t] IN
  /\ c # None
  /\ IF handle[t] = "none" THEN handle' = [handle EXCEPT ![t] = "failed"] /\ UNCHANGED brokenErr
     ELSE brokenErr' = [brokenErr EXCEPT ![t] = c.op] /\ UNCHANGED handle
  /\ call' = [call EXCEPT ![t] = None]
  /\ UNCHANGED <<connVars, readWrite, discarded, committed, written, agentVars>>

-----------------------------------------------------------------------------
(* The agent *)

Merge(s, w) == [k \in Keys |-> IF w[k] = None THEN s[k] ELSE w[k]]

\* The response is of use only to a call that still waits.
Respond(m, answer) ==
  reply' = IF call[m.tx] = m.call THEN [reply EXCEPT ![m.tx] = answer] ELSE reply

Handled(m) == m \in requests /\ requests' = requests \ {m}

AgentBegin(m) ==
  /\ Handled(m) /\ m.call.op = "begin" /\ fate[m.tx] = "none"
  /\ fate' = [fate EXCEPT ![m.tx] = "open"] /\ Respond(m, "ok")
  /\ UNCHANGED <<connVars, clientVars, buffer, store>>

AgentGet(m) ==
  /\ Handled(m) /\ m.call.op = "get" /\ fate[m.tx] = "open"
  /\ Respond(m, "ok")
  /\ UNCHANGED <<connVars, clientVars, fate, buffer, store>>

AgentWrite(m) ==
  /\ Handled(m) /\ m.call.op = "write" /\ fate[m.tx] = "open"
  /\ buffer' = [buffer EXCEPT ![m.tx][m.call.key] = m.call.entry] /\ Respond(m, "ok")
  /\ UNCHANGED <<connVars, clientVars, fate, store>>

AgentCommit(m) ==
  /\ Handled(m) /\ m.call.op = "commit" /\ fate[m.tx] = "open"
  /\ fate' = [fate EXCEPT ![m.tx] = "applied"] /\ store' = Merge(store, buffer[m.tx])
  /\ Respond(m, "ok")
  /\ UNCHANGED <<connVars, clientVars, buffer>>

AgentDiscard(m) ==
  /\ Handled(m) /\ m.call.op = "discard" /\ fate[m.tx] = "open"
  /\ fate' = [fate EXCEPT ![m.tx] = "dropped"] /\ Respond(m, "ok")
  /\ UNCHANGED <<connVars, clientVars, buffer, store>>

\* The agent refuses a request.  A commit it refuses is discarded
\* (elastic-agent-client-future.proto:119-121).
AgentRefuses(m) ==
  /\ Handled(m) /\ Respond(m, "error")
  /\ fate' = IF m.call.op = "commit" /\ fate[m.tx] = "open" THEN [fate EXCEPT ![m.tx] = "dropped"]
             ELSE fate
  /\ UNCHANGED <<connVars, clientVars, buffer, store>>

-----------------------------------------------------------------------------
Caller(t) == BeginTx(t) \/ Begun(t) \/ Done(t) \/ Fail(t) \/ \E c \in Asked : Ask(t, c) \/ Refuse(t, c)
Agent(m) ==
  AgentBegin(m) \/ AgentGet(m) \/ AgentWrite(m) \/ AgentCommit(m) \/ AgentDiscard(m) \/ AgentRefuses(m)

StoreNext == Stop \/ Start \/ (\E t \in Tx : Caller(t)) \/ \E m \in requests : Agent(m)

StoreSpec == StoreInit /\ [][StoreNext]_storeVars

-----------------------------------------------------------------------------
(* Properties *)

StoreTypeOK ==
  /\ conn \in {"open", "closed"} /\ starts \in Nat
  /\ handle \in [Tx -> {"none", "have", "failed"}]
  /\ readWrite \subseteq Tx /\ discarded \subseteq Tx /\ committed \subseteq Tx
  /\ brokenErr \in [Tx -> {"get", "write", "commit", "discard", None}]
  /\ call \in [Tx -> Call \cup {None}]
  /\ reply \in [Tx -> {"ok", "error", None}]
  /\ written \in [Tx -> Overlay] /\ buffer \in [Tx -> Overlay]
  /\ requests \subseteq [tx : Tx, call : Call]
  /\ fate \in [Tx -> {"none", "open", "applied", "dropped"}]
  /\ store \in [Keys -> Entry]

\* The caller's view of the flags.
Told == [t \in Tx |->
  IF handle[t] # "have" THEN "none"
  ELSE IF brokenErr[t] = "commit" THEN "in doubt"
  ELSE IF brokenErr[t] # None THEN "broken"
  ELSE IF t \in committed THEN "committed"
  ELSE IF t \in discarded THEN "discarded" ELSE "pending"]

Promise == INSTANCE Transactions WITH
  told <- Told,
  fate <- [t \in Tx |-> IF fate[t] = "none" THEN "open" ELSE fate[t]],
  readWrite <- {t \in readWrite : handle[t] = "have"}

\* The client keeps the promise of the store (store.go:27-48), although calls
\* time out and their requests arrive late: a transaction is written whole,
\* with just the writes its caller was told of, and never after an error
\* other than that of Commit.
Implements == Promise!Spec

\* The agent hears no more of a transaction once it has ended it: no flag, error or
\* late request sends a call on a transaction that is over (store.go:107-214).
QuietAfterEnd == \A m \in requests : fate[m.tx] \notin {"applied", "dropped"}

=============================================================================
