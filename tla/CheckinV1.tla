----------------------------- MODULE CheckinV1 -----------------------------
(***************************************************************************)
(* The check-in of the deprecated client (pkg/client/client.go:158-320):   *)
(* the retry loop, the goroutine that receives what the agent expects (the *)
(* reader), the one that reports what is observed (the writer), and Status.*)
(* The agent, the stream and the integration (StateInterface) are the      *)
(* environment.  A status, its message and its payload are one value, and  *)
(* configs are numbered as the agent numbers them: the text of a config is *)
(* that of its index.  A local that is dead has its first value again.     *)
(***************************************************************************)
EXTENDS Naturals

CONSTANTS
  MaxEvents,  \* bound: calls of Status and of the registry, changes of what
              \* the agent wants, its requests, failed dials, lost streams
  None

VARIABLES
  ctx, events,       \* the client's context, the bound; shared with the actions
  cloop,             \* the retry loop: "loop", "running", "exited"
  crd, cin,          \* the reader: where it is, the message it handles
  cwr, widx, wstat,  \* the writer: where it is, cfgIdx and the status it read
  lastSent,          \* what the writer sent last on this stream, or None
  cfgIdx, expected, observed, \* fields of the client
  stops, applied,    \* calls of OnStop; the config given to OnConfig last
  cfgs, stopping,    \* the agent: its config, that it wants the client stopped
  heard,             \* the last report the agent received on this stream
  cdown, cup,        \* what is on the stream, in each direction
  clink              \* the stream: "none", "open", "closed" or "broken"

checkinAgentVars == <<cfgs, stopping, heard, cdown, cup, clink>>
checkinFields == <<cfgIdx, expected, observed, stops, applied>>
checkinReader == <<crd, cin>>
checkinWriter == <<cwr, widx, wstat, lastSent>>
checkinVars == <<cloop, checkinReader, checkinWriter, checkinFields, checkinAgentVars>>

Configs == 0..MaxEvents
Report == [idx : Configs, status : 0..MaxEvents]
Expected == [state : {"RUNNING", "STOPPING"}, idx : Configs]

ASSUME CheckinV1Assumption ==
  MaxEvents \in Nat /\ None \notin Report \cup Expected

\* One more of what MaxEvents bounds.
Event == events < MaxEvents /\ events' = events + 1

CheckinInit ==
  /\ cloop = "loop" /\ crd = "off" /\ cin = None
  /\ cwr = "off" /\ widx = 0 /\ wstat = 0 /\ lastSent = None
  /\ cfgIdx = 0 /\ expected = "RUNNING" /\ observed = 0 /\ stops = 0 /\ applied = 0
  /\ cfgs = 0 /\ stopping = FALSE /\ heard = None /\ cdown = None /\ cup = None /\ clink = "none"

-----------------------------------------------------------------------------
(* The retry loop *)

\* Mutant: for { ... }
LoopForever == TRUE
LoopContinues == ctx = "live"

CheckinExits ==
  /\ cloop = "loop" /\ ~LoopContinues /\ cloop' = "exited"
  /\ UNCHANGED <<events, checkinReader, checkinWriter, checkinFields, checkinAgentVars>>

\* Mutant: each stream starts with nothing expected.
DialForgetsStop ==
  /\ cloop = "loop" /\ ctx = "live"
  /\ cloop' = "running" /\ crd' = "recv" /\ cwr' = "sleep" /\ clink' = "open"
  /\ expected' = "RUNNING" /\ UNCHANGED <<cfgIdx, observed, stops, applied>>
  /\ UNCHANGED <<events, cin, widx, wstat, lastSent, cfgs, stopping, heard, cdown, cup>>

Dial ==
  /\ cloop = "loop" /\ ctx = "live"
  /\ cloop' = "running" /\ crd' = "recv" /\ cwr' = "sleep" /\ clink' = "open"
  /\ UNCHANGED <<events, cin, widx, wstat, lastSent, checkinFields, cfgs, stopping, heard, cdown, cup>>

\* OnError, and the loop goes on at once.
DialFails ==
  /\ cloop = "loop"
  /\ Event \/ (ctx = "cancelled" /\ UNCHANGED events)
  /\ UNCHANGED <<cloop, checkinReader, checkinWriter, checkinFields, checkinAgentVars>>

\* Mutant: what was sent last outlives the stream.
DoneKeepsLast ==
  /\ cloop = "running" /\ crd = "done" /\ cwr = "done"
  /\ cloop' = "loop" /\ crd' = "off" /\ cwr' = "off" /\ clink' = "none"
  /\ cdown' = None /\ cup' = None /\ heard' = None
  /\ UNCHANGED <<events, cin, widx, wstat, lastSent, checkinFields, cfgs, stopping>>

\* checkinWG.Wait() and CloseSend; lastSent and the like were of this stream.
CheckinDone ==
  /\ cloop = "running" /\ crd = "done" /\ cwr = "done"
  /\ cloop' = "loop" /\ crd' = "off" /\ cwr' = "off" /\ clink' = "none"
  /\ lastSent' = None /\ cdown' = None /\ cup' = None /\ heard' = None
  /\ UNCHANGED <<events, cin, widx, wstat, checkinFields, cfgs, stopping>>

-----------------------------------------------------------------------------
(* The reader *)

ReaderFrame == UNCHANGED <<events, cloop, checkinWriter, observed, cfgs, stopping, heard, cup, clink>>

CheckinRecv ==
  /\ crd = "recv" /\ cdown # None
  /\ crd' = "handle" /\ cin' = cdown /\ cdown' = None
  /\ ReaderFrame /\ UNCHANGED <<cfgIdx, expected, stops, applied>>

\* OnError unless the stream ended with io.EOF; then done is closed.
CheckinRecvFails ==
  /\ crd = "recv"
  /\ clink = "broken" \/ ctx = "cancelled" \/ (clink = "closed" /\ cdown = None)
  /\ crd' = "done"
  /\ ReaderFrame /\ UNCHANGED <<cin, cdown, cfgIdx, expected, stops, applied>>

\* A client asked to stop, once, does nothing with what follows, on this
\* stream and on any other.
Ignore ==
  /\ crd = "handle" /\ crd' = "recv" /\ cin' = None
  /\ expected = "STOPPING" \/ (cin.state = "RUNNING" /\ cin.idx = cfgIdx)
  /\ ReaderFrame /\ UNCHANGED <<cdown, cfgIdx, expected, stops, applied>>

OnStop ==
  /\ crd = "handle" /\ expected # "STOPPING" /\ cin.state = "STOPPING"
  /\ expected' = "STOPPING" /\ stops' = stops + 1 /\ crd' = "recv" /\ cin' = None
  /\ ReaderFrame /\ UNCHANGED <<cdown, cfgIdx, applied>>

TakesConfig == crd = "handle" /\ expected # "STOPPING" /\ cin.state = "RUNNING" /\ cin.idx # cfgIdx

\* Mutant: a config beyond the first is stored, and OnConfig not called.
StoreFirst ==
  /\ TakesConfig
  /\ cfgIdx' = cin.idx /\ crd' = IF cfgIdx = 0 THEN "onconfig" ELSE "recv"
  /\ cin' = IF cfgIdx = 0 THEN cin ELSE None
  /\ ReaderFrame /\ UNCHANGED <<cdown, expected, stops, applied>>

\* Mutant: the index is not stored.
StoreNothing ==
  /\ TakesConfig /\ crd' = "onconfig"
  /\ ReaderFrame /\ UNCHANGED <<cin, cdown, cfgIdx, expected, stops, applied>>

\* The index is stored under cfgMu, where the writer reads it, and OnConfig is
\* called after.
StoreConfig ==
  /\ TakesConfig
  /\ cfgIdx' = cin.idx /\ crd' = "onconfig"
  /\ ReaderFrame /\ UNCHANGED <<cin, cdown, expected, stops, applied>>

OnConfig ==
  /\ crd = "onconfig" /\ crd' = "recv" /\ applied' = cin.idx /\ cin' = None
  /\ ReaderFrame /\ UNCHANGED <<cdown, cfgIdx, expected, stops>>

-----------------------------------------------------------------------------
(* The writer *)

WriterFrame == UNCHANGED <<events, cloop, checkinReader, checkinFields, cfgs, stopping, heard, cdown, clink>>

\* 500 ms are over and done is not closed: the writer reads the index, then
\* the status.
Tick ==
  /\ cwr = "sleep" /\ crd # "done" /\ cwr' = "status" /\ widx' = cfgIdx
  /\ WriterFrame /\ UNCHANGED <<wstat, lastSent, cup>>

ReadStatus ==
  /\ cwr = "status" /\ cwr' = "compare" /\ wstat' = observed
  /\ WriterFrame /\ UNCHANGED <<widx, lastSent, cup>>

WriterStops ==
  /\ cwr = "sleep" /\ crd = "done" /\ cwr' = "done"
  /\ WriterFrame /\ UNCHANGED <<widx, wstat, lastSent, cup>>

Current == [idx |-> widx, status |-> wstat]

Changed == lastSent # Current

\* The first report of a stream, a change, or minCheckTimeout is over.
SendReport ==
  /\ cwr = "compare" /\ widx' = 0 /\ wstat' = 0
  /\ \/ /\ clink = "open" /\ ctx = "live" /\ cup = None
        /\ cup' = Current /\ lastSent' = Current /\ cwr' = "sleep"
     \/ /\ clink # "open" \/ ctx = "cancelled"
        /\ cwr' = "done" /\ UNCHANGED <<cup, lastSent>>
  /\ WriterFrame

NothingNew ==
  /\ cwr = "compare" /\ ~Changed /\ cwr' = "sleep" /\ widx' = 0 /\ wstat' = 0
  /\ WriterFrame /\ UNCHANGED <<lastSent, cup>>

-----------------------------------------------------------------------------
(* The integration, the agent and the stream *)

Status ==
  /\ Event /\ observed' = observed + 1
  /\ UNCHANGED <<cloop, checkinReader, checkinWriter, cfgIdx, expected, stops, applied, checkinAgentVars>>

AgentFrame == UNCHANGED <<cloop, checkinReader, checkinWriter, checkinFields>>

\* The agent wants the client stopped, or another config, and may with that
\* want it to run again.
AgentWants ==
  /\ Event
  /\ \/ cfgs' = cfgs + 1 /\ stopping' \in {stopping, FALSE}
     \/ ~stopping /\ stopping' = TRUE /\ UNCHANGED cfgs
  /\ AgentFrame /\ UNCHANGED <<heard, cdown, cup, clink>>

AgentHears ==
  /\ cup # None /\ heard' = cup /\ cup' = None
  /\ AgentFrame /\ UNCHANGED <<events, cfgs, stopping, cdown, clink>>

\* The agent sends what it expects to a client whose token it has; what it
\* sends on a cancelled stream does not arrive.
AgentExpects ==
  /\ clink = "open" /\ ctx = "live" /\ cdown = None /\ heard # None
  /\ cdown' = [state |-> IF stopping THEN "STOPPING" ELSE "RUNNING", idx |-> cfgs]
  /\ AgentFrame /\ UNCHANGED <<events, cfgs, stopping, heard, cup, clink>>

CheckinLost ==
  /\ clink = "open" /\ Event
  /\ \/ clink' = "closed" /\ UNCHANGED cdown
     \/ clink' = "broken" /\ cdown' = None
  /\ cup' \in {cup, None}
  /\ AgentFrame /\ UNCHANGED <<cfgs, stopping, heard>>

-----------------------------------------------------------------------------
CheckinReader == CheckinRecv \/ CheckinRecvFails \/ Ignore \/ OnStop \/ StoreConfig \/ OnConfig
CheckinWriter == Tick \/ ReadStatus \/ WriterStops \/ SendReport \/ NothingNew
CheckinRetry == CheckinExits \/ Dial \/ DialFails \/ CheckinDone
CheckinAgent == AgentWants \/ AgentHears \/ AgentExpects \/ CheckinLost
CheckinNext == CheckinReader \/ CheckinWriter \/ CheckinRetry \/ CheckinAgent \/ Status
=============================================================================
