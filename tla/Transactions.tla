---------------------------- MODULE Transactions ----------------------------
(***************************************************************************)
(* What the key-value store promises the caller of a transaction           *)
(* (pkg/client/store.go:27-48): the writes it was told of reach the store  *)
(* together or not at all, a call that fails before Commit means never,    *)
(* and only a Commit that fails leaves it open.  Store implements this.    *)
(***************************************************************************)
CONSTANTS Tx, Keys, Values, Absent, None

Entry == Values \cup {Absent}
Overlay == [Keys -> Entry \cup {None}]

VARIABLES
  store,    \* key -> entry
  fate,     \* what became of the transaction: "open", "applied", "dropped"
  told,     \* what its caller knows of it
  readWrite,\* the transactions begun with write
  written   \* the writes its caller was told of
vars == <<store, fate, told, readWrite, written>>

Untouched == [k \in Keys |-> None]
\* The store with the writes of w.
Merge(s, w) == [k \in Keys |-> IF w[k] = None THEN s[k] ELSE w[k]]

Init ==
  /\ store = [k \in Keys |-> Absent]
  /\ fate = [t \in Tx |-> "open"] /\ told = [t \in Tx |-> "none"]
  /\ readWrite = {} /\ written = [t \in Tx |-> Untouched]

Learns(t, from, to) == told[t] = from /\ told' = [told EXCEPT ![t] = to]

Begin(t) ==
  /\ Learns(t, "none", "pending") /\ readWrite' \in {readWrite, readWrite \cup {t}}
  /\ UNCHANGED <<store, fate, written>>

Write(t, k, e) ==
  /\ told[t] = "pending" /\ fate[t] = "open" /\ t \in readWrite
  /\ written' = [written EXCEPT ![t][k] = e]
  /\ UNCHANGED <<store, fate, told, readWrite>>

\* A call other than Commit fails: nothing of t is written, now or later.
Break(t) ==
  /\ Learns(t, "pending", "broken") /\ fate[t] # "applied"
  /\ UNCHANGED <<store, fate, readWrite, written>>

\* Commit fails: t may have been, or may yet be, written.
Doubt(t) == Learns(t, "pending", "in doubt") /\ UNCHANGED <<store, fate, readWrite, written>>

Committed(t) ==
  /\ Learns(t, "pending", "committed") /\ fate[t] = "applied"
  /\ UNCHANGED <<store, fate, readWrite, written>>

Discarded(t) ==
  /\ Learns(t, "pending", "discarded") /\ fate[t] = "dropped"
  /\ UNCHANGED <<store, fate, readWrite, written>>

\* The store takes all the writes of t at once.
Apply(t) ==
  /\ fate[t] = "open" /\ told[t] \in {"pending", "in doubt"}
  /\ fate' = [fate EXCEPT ![t] = "applied"] /\ store' = Merge(store, written[t])
  /\ UNCHANGED <<told, readWrite, written>>

Drop(t) ==
  /\ fate[t] = "open" /\ fate' = [fate EXCEPT ![t] = "dropped"]
  /\ UNCHANGED <<store, told, readWrite, written>>

Next ==
  \E t \in Tx :
    \/ Begin(t) \/ Break(t) \/ Doubt(t) \/ Committed(t) \/ Discarded(t) \/ Apply(t) \/ Drop(t)
    \/ \E k \in Keys, e \in Entry : Write(t, k, e)

Spec == Init /\ [][Next]_vars
=============================================================================
