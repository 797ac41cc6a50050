# TLA+ model of the Elastic Agent client

Specifications, TLC configurations and TLAPS proofs for `elastic-agent-client`, the Go library with
which a process that the Elastic Agent supervises (the *integration*) talks to the agent. Line
numbers refer to `src/`; `client_v2.go` is `src/pkg/client/client_v2.go`.

## Inventory

| Part | State | Operations | Interacts with |
|---|---|---|---|
| V2 check-in (`client_v2.go:290-814`) | `units`, `featuresIdx` under `unitsMu`; `componentConfig`, `componentIdx` under `componentMu`; `agentInfo`; `stateChangeObservedCh` (one slot); `versionInfoSent` | retry loop, reader (`RecvExpected`, `applyExpected`), writer (`checkinWriter`, `sendObserved`), `Start`, `Stop` | agent over one bidirectional stream; integration over the unbuffered `changesCh` and `errCh` |
| `Unit` (`unit.go`) | expected fields under `expectedStateMu`; state under `stateMu`; action and hook maps | `UpdateState`, `Expected`, `updateState`, `toObserved` | wakes the check-in writer |
| V2 actions (`client_v2.go:815-1118`) | `actionResults` (100 slots, outlives streams); `actionResponse` of the writer | retry loop, reader, a goroutine per request, writer | agent over a second stream; looks units up under `unitsMu`; `errCh` |
| Chunking (`chunk/`) | the batch being filled; `first` of the receiver | `Observed`, `Expected`, `RecvObserved`, `RecvExpected` | used by both directions of the check-in |
| `Unit`: actions and hooks (`unit.go:218-289`) | the maps of a unit's actions and diagnostic hooks, each under its mutex | `RegisterAction`, `UnregisterAction`, `RegisterDiagnosticHook` | looked up by the actions reader |
| Store (`store.go`) | `discarded`, `committed`, `brokenErr`, `write` of a transaction | `BeginTx`, `GetKey`, `SetKey`, `DeleteKey`, `Commit`, `Discard` | agent over unary calls on the client's connection |
| Artifacts (`artifacts.go`) | the bytes received so far | `Fetch` | agent over a server stream on the client's connection |
| V1 client (`client.go`) | `cfgIdx`, `expected`, `observed`; `actions`; a queue of responses | check-in and action loops, `Status`, `OnConfig`, `OnStop`, `Start`, `Stop` | agent over two streams |
| v2tool (`dev-tools/v2tool`) | the manager's units: expected state, index, `done`; their rules; the client process | `Run`, `Checkin`, the rules' `Check` | starts a client and serves its check-ins with the V2 stub server |
| Mock servers (`mock/`) | handlers, queues of actions | `Start`, `CheckinV2`, ... | doubles of the agent; v2tool serves with the V2 one |
| Start-up (`reader.go`, `common.go`, `dial*.go`, `util*.go`) | none | read connection information, dial | standard input, file system |
| Logs, diagnostics profiles, generated code, build | none worth a model | | |

What is hard in it: six goroutines of the client, any number of goroutines of the integration and one
per running action share a registry, three channels and a queue; three of the channels block their
sender; streams end at any point, at either end, and everything reconnects; `Stop` waits for all of it
and `Start` may follow. What makes each part correct:

* check-in: no state change is forgotten, events and registry agree, acknowledged indexes say what is
  true, the latest policy is applied and reported through failures, `Stop` returns;
* actions: a request gets one response, none is lost with a stream, the goroutines never wait on each
  other for ever;
* chunking: what is put together is exactly what was split, and each chunk can be sent (it cannot always);
* store: a transaction is written whole, with what its caller was told of, or not at all, whatever calls
  fail, and one that is over does nothing more;
* artifacts: what is returned is whole;
* V1: the last config is applied, the last status is sent, the stop callback comes once and is the last;
* v2tool: the client ends up with the units the rules ask for, and neither waits for the other for ever.

## Modules

| Module | What it is |
|---|---|
| `Checkin` | the check-in and `Unit`, with agent, stream and integration as environment |
| `MCCheckin` | scripts of policies for TLC; `MCCheckin_*.cfg` |
| `CheckinProofs` | theorems about `Checkin`, for every script of policies |
| `CheckinPolicyProofs` | what it reports of policies, for scripts that keep the protocol |
| `Actions`, `MCActions` | the action stream, its queue and goroutines, with the units and registrations they look up |
| `ActionsProofs` | theorems about `Actions` |
| `Chunk`, `MCChunk` | splitting a message, sending the chunks, putting them together |
| `ChunkProofs` | theorems about `Chunk` |
| `Transactions` | what the store promises the caller of a transaction |
| `Store` | the transactions of `store.go`, with late and failing calls |
| `StoreProofs` | `Store` implements `Transactions` |
| `Fetch` | the artifact client |
| `Services`, `MCServices` | `Store` and `Fetch` on the one connection that `Stop` closes |
| `ServicesProofs` | theorems about `Services`, those of `Store` among them |
| `CheckinV1`, `ActionsV1` | the two streams of the deprecated client |
| `ClientV1`, `MCClientV1` | both under one context, with `Start` and `Stop` |
| `ClientV1Proofs` | theorems about `ClientV1` |
| `Manager` | v2tool's `InputManager` and rules, behind the stub server's check-in handlers |
| `Tool`, `MCTool` | `Run` of v2tool, `Manager` and the client it starts |
| `ToolProofs` | theorems about `Tool` |

The proofs are checked by TLAPS, everything else by TLC.

An operator whose comment begins with "Mutant" is a plausible mistake in the operator after it. It is
in no specification; substituting it must make the property named in `PROJECT.json` fail.

### Checkin

A program counter per goroutine: `lpc` (retry loop), `rpc` (reader), `wpc` (writer), `spc` (`Stop`).
The mutexes are those counters: the reader holds `unitsMu` in `"remove"` and `"units"`, the writer
holds it for reading in `"collect"`. A send on an unbuffered channel is a value that waits: `change`
for `changesCh`, a counter at `"err"` for `errCh`; `TakeChange` and `TakeError` are the integration
receiving it. Unit objects are *handles*, numbered as they are allocated; `ident` gives the id, so a
unit that is removed and returns has two handles with one id. `expected[h]` and `state[h]` are the
fields under the two mutexes of a unit. The integration keeps `told` (units announced and not
removed) and `view` (what it last read with `Expected()`: everything for an added unit, only what the
triggers name for a modified one).

`applyExpected` is `SyncComponent`, `SyncUnitsLock`, `AnnounceRemoval` per removed unit,
`RemovalsDone`, `AddUnit` or `ModifyUnit` per unit of the message, `SyncUnitsDone`; between any two of
them other goroutines run as far as the locks let them. `sendObserved` is `CollectLock`, `ToObserved`
per unit, `CollectDone`, `ReadComponentIdx`, then `SendObserved`, `SendEOF` or `SendFails`.
The new state and the signal of `UpdateState` are written under `stateMu`, which `toObserved` needs, so they are
one step.

The agent goes through `Script`, a sequence of policies, at any time. `Omit` lists the parts it leaves
out of a message when the client has acknowledged their index. It answers once it has read a report,
because it knows the client by the token in it. The stream holds one message per direction.

### Actions

The queue is a set with a capacity: each response differs and their order does not matter to the
protocol; that the channel is first in first out is kept as strong fairness of taking each response.
The reader blocks in `"put"` when it has to answer by itself; `work[r]` is the goroutine of request
`r`. A response that `Send` took is in `accepted`. `Start` makes a new queue: what the old one held is
in `lost`.

The registry is the part of the check-in's that an action needs: `unit` is the one in `c.units` (units
of one id follow each other, `AddUnit` and `RemoveUnit`), `handlers[u]` what the integration registered
on it. The lookups are separate steps, as in the code: the unit under `unitsMu`
(`TryPerformAction`, `FindUnit`), the action or hook under the unit's own mutex (`LookupAction`,
`UnitHooks`), the call in a goroutine (`Execute`, `CallHooks`), and units and registrations may change
between any two. `since[r]` is the first unit that was there once request `r` was received, and
`runs[r]` the one whose action it calls.

### Chunk

The sender fills chunks one unit at a time, smallest first (`PlaceUnit`), keeping two sizes: `size`,
what the code computes, and `bytes`, what `protobuf.Size` would return. gRPC ends the stream for a
message longer than `MaxSize`. The receiver is one step per message received. Units carry the number
of their message, so a mixture of two messages is visible; `of` is that number on the message itself, for
the proofs, and no action reads it. `Abandon` is a sender that starts a new
batch before the old one is complete; timestamps differ but may go back.

### Store, Fetch and Services

`Checked` is the sequence of flag tests each method of `storeClientTx` starts with: the sentinel error,
`nil`, or a call. `Ask` makes the call, `Done` and `Fail` end it. A call that fails leaves its request in
`requests`: the agent may have handled it, may handle it later (`Agent`), or never. The agent's
side is external: `fate` and `buffer` are its transaction. `Transactions` knows nothing of calls, only
what becomes of a transaction and what its caller knows; `Told` maps the flags to that. `conn` belongs to
the client: `Stop` closes it, `Start` opens a new one, and handles outlive both.

`Fetch` appends the parts of an artifact until the message that says `eof`. The stream may end before
it, break, or carry a message of no known type.

### The V1 client

`CheckinV1` and `ActionsV1` have a program counter per goroutine, like the V2 modules, and `ClientV1`
joins them with one context, one bound for what comes from outside, and one `Stop`. The status with its
message and payload
is one value. The writer reads index and status in two steps, as it does under two mutexes
(`client.go:260-268`). The config is stored and `OnConfig` called in two steps (`StoreConfig`,
`OnConfig`): the writer may report the index in between. `Start` does not reset `expected`.

### v2tool

`Manager` has a handler per check-in stream, since the handler of a lost stream may still run when the
client opens the next. `Checkin` runs under the mutex of `NewToolServer` (`mut`), unit by unit
(`Look`, then `LeaveOut`, `Append` or `AskToStop`), with the copy of `done` the loop makes. The
response points to the manager's own units and is encoded after the mutex is released, so `Send`
chooses each field from its value then or now (`Encodings`). The rules are `StartPasses` and `StopPasses`;
their clock is `Elapses`. `Tool` has each call of `Run` with its failure, and a client as environment:
it reads its input to the end, connects, reports units, applies what it is told, loses streams, ends.

## Runs

| Run | Checks | Shows |
|---|---|---|
| `checkin_safety` | 8 invariants, 1 action property | units that go, come, change and return while one state is updated |
| `checkin_live` | 3 invariants, 3 liveness properties | one policy through one failed dial, stream or send and a restart: the latest state reaches the agent, both sides agree again on that policy; `Stop` returns |
| `checkin_omitted` | `AcknowledgedInForce`, **violated** | an omitted component resets the limits |
| `actions_safety` | `TypeOK`, `Custody`, `NoRemovedUnit` | each request, or its one response, is in exactly one place; a unit removed before a request came is not called by it |
| `actions_live` | `EveryRequestAnswered`, `StopTerminates` | answers through three events, if the queue has room, invalid diagnostics params included |
| `actions_wedge` | `EveryRequestAnswered`, **violated** | the writer waits for room that only it can make |
| `chunk_safety` | 4 invariants | messages of up to five units: what is returned is whole, nothing is lost silently, and only units near a limit make a chunk too long |
| `chunk_limits` | `ChunksFit`, **violated** | units of 16384 bytes are more than the padding counts for, and a unit smaller than `maxSize` is larger with the header of its own chunk |
| `chunk_drop` | `Intact`, **violated** | a chunk of exactly `maxSize` drops the units after it |
| `services_safety` | 3 invariants, a refinement, 1 liveness property | the store keeps its promise through failed and late calls; fetches are whole; `Stop` leaves no caller waiting |
| `clientv1_client` | 2 invariants, 1 action property, 3 liveness properties | the deprecated client through two events and a restart |
| `tool_manager` | 3 invariants, 2 liveness properties | the client ends up with the units the rules ask for, and the tool ends with it |

### What the violations say

* `AcknowledgedInForce` is `FeaturesFollowIdx` and `LimitsFollowIdx`. `client_v2.go:691` stores a
  missing component as "no limits", and `:739` gives a new unit the
  features of the message only; the protocol file lets the agent omit both once acknowledged
  (`elastic-agent-client.proto:290-293, 300-303`). With neither omitted both hold
  (`checkin_safety`). The trace of the run shows the limits, which go with the first message that omits them.
* `client_v2.go:950-954`: the writer returns the response it could not send to the queue, and blocks if
  the queue is full. Nobody else receives from the queue, so no later stream is opened and `Stop` does
  not return. A queue with room for every response (`actions_live`) does not have the problem.
* `chunk/observed.go:73`, `expected.go:73`: the condition `s < maxSize` of the loop is false when a
  chunk is exactly `maxSize` long after its first unit; the rest of the units are dropped and the batch
  is ended as complete.
* `ChunksFit` is what `observed_test.go:350-388` expects of a chunk: that gRPC sends it. `observed.go:75` counts
  3 bytes per unit besides its own (`option.go:9`), and from 16384 bytes on they are 4, so that a chunk of such
  units exceeds `maxSize`, the first of the trace. `observed.go:44` refuses a unit of `maxSize` because of the overhead,
  but not one that is smaller by less than that overhead, and `:87` does not compare its chunk with `maxSize`
  (the third of the trace). In both cases gRPC ends the stream; the next one gets the same chunks.
  `OversizeExplained` says that there is no third case.

Two more disagreements have no run of their own:

* `client_v2.go:1042`: no `return` after the response to invalid diagnostics params, so a second response to the
  request follows, while `elastic-agent-client.proto:441` speaks of one result. The model does it with
  `BadDiagParams` (`actions_live`); `AnsweredOnce` proves that there is no other way to answer twice.
* `store.go:197`: `Discard` of a transaction that broke returns `ErrStoreTxBroken` and makes no call, and
  neither does `Commit`, so the agent is never told to drop it, while
  `elastic-agent-client-future.proto:36` wants every transaction committed or discarded. `QuietAfterEnd` and
  `Implements` speak of what is written, not of what stays open, and hold with it.

### What else the code does that a reader may not expect

These contradict no statement of the repository, and the properties hold with them.

* `store.go:186`: a `Commit` that fails may have been, or may later be, carried out: the caller is "in
  doubt" in `Transactions`. Every other failure means the writes never appear.
* `client_v2.go:959`: an action may run in a unit that is removed after its request was received;
  `NoRemovedUnit` says that is the furthest it goes.
* `manager.go:156, 194`: a done unit that is gone is left out, but a client that reports no unit at all is sent
  every unit whose start rule holds, done ones as `STOPPED` again. A unit that failed is left out once (`:167`)
  and started again when it is gone and its start rule holds. `UnitsFollowRules` is stated with
  both in mind. `OnStart` as a stop rule never holds: it asks for a unit that is not observed.
* `serve.go:58`: the error of `InputManagerFromCfg` is overwritten, and the next call panics (`LoadConfig`).
  `rules/config.go:56` drops the error of a rule's body in the same way.
* `client.go:187`: the V1 loops reconnect without a pause.
* `client.go:464`: the V1 writer puts a response back into the queue it alone empties, as the V2 writer
  does. The run's queue of one, with one request, always has room for it.

### Bounds, and why they are enough

* Units: two ids. The registry treats units alike, so a hazard needs one that stays and one that goes,
  or an id that returns. `MaxUnits` bounds allocated handles at what the script can create.
* Scripts: three policies in `checkin_safety`: remove and add and modify in one message, then the
  return of an id as a new unit and a unit told to stop. An agent that skips the second policy does all of it
  in one message. `OneScript` (one) is for liveness, where the product
  with the fairness conditions is the cost: `Converges` says there that a client agrees with the agent again on
  the policy it had, not that it gets over to another. `AddScript` (two) is for what an agent omits.
* `MaxFaults`: failed dials, streams that close or break and sends that fail, together. One is
  enough to cut every stream at every point. A second adds a fault during the recovery.
* `MaxEvents`: in `Actions`, `Tool` and the V1 client, faults, registrations, units that come and go,
  and what the
  agent asks for, together: two or three, which gives every pair of them at every point.
* `MaxStarts`: two, so that what `Stop` leaves behind meets `Start`.
* `MaxUpdates`: one, at any point of the writer's walk.
* `Cap`: instead of 100, 1 in `actions_safety` and `actions_wedge`, so that two requests fill the queue, and 2 in
  `actions_live`, which one request never fills, with both its responses.
* `MCActions_safety.cfg` does not check deadlock: the goroutines really can stop with the queue full,
  which is what `actions_wedge` is about. The same holds for that run.
* `Chunk`: `Sizes` has units on both sides of each length at which protobuf needs another byte, where
  `defaultRepeatPadding` of 3 is enough and where it is not (from 16384 on); a unit that makes its own chunk
  exactly `MaxSize` long, two that make it longer without being refused, one that is refused. `MaxSize` is such
  that two units of 16384 bytes and two small ones exceed it unnoticed, and that a message of five is split in
  three where it would be two with the padding forgotten.
* `Services`: one transaction, two keys, one value besides absence: a write that is lost or torn shows with
  two keys. Transactions share nothing but the store and the connection; the proofs cover any number. Two
  fetches of two parts: a part that is missing, or left from the fetch before, shows.
  `CHECK_DEADLOCK FALSE`: a client whose transaction is over and that is not started again has nothing to do.
* `ClientV1`: one request, two events, two starts: an agent that stops the client may then want it to run another
  config, which comes to nothing. `Tool`: two units, one that is stopped and one that starts
  later, two streams, so that the handler of the lost one overlaps the next, and one event.

### Fairness

Weak fairness for each goroutine: Go runs what can run, timers fire. Strong fairness for taking
`unitsMu`: `sync.RWMutex` lets a waiting writer in before new readers and waiting readers in after a
writer. Strong fairness for taking each queued response: the channel is first in first out. Weak
fairness for the integration's receives: the interface demands them (`client_v2.go:218, 222`). Weak
fairness for an agent that reads, answers and ends a stream that the client has closed. No fairness for
faults, policy changes, `Stop` or `Start`.

`Services`: calls return, on a closed connection with an error, as gRPC has it; none for calls to be made or for
the agent to answer. `ClientV1`: its goroutines, `OnConfig`, `OnStop` and actions that return
(`client.go:30-44`), and an
agent that answers a report which is not what it expects; `minCheckTimeout` is not relied on. `Tool`: `Run` and
the handlers, the rules' clock, and a client that reads its input, connects, reports, applies what it is
told and
stops its units when told; none for its end.

## Proofs

Each theorem holds for every value of the constants that the module's assumption allows, and under no
other hypothesis than those named here. The larger inductive invariants were tried with TLC on the
small instances of the runs first; a run shows the property itself.

| Property | Theorem | Beyond the module's assumption |
|---|---|---|
| `Checkin`: `TypeOK`, `NoLostStateChange`, `AnnouncedMatchesRegistry`, `VersionInfoFirst`, `RemovedStaysRemoved`, `ViewCurrent` | `CheckinProofs` | |
| `ReportIsOnePolicy` | `EveryReportIsOnePolicy` | `IndexesGrow` |
| `ReportedAfterTold` | `ConfigsReportedAfterTold` | `IndexesGrow`, `ReturnsAreNew` |
| `FeaturesFollowIdx` | `AcknowledgedFeaturesInForce` | `FeaturesSent` |
| `LimitsFollowIdx` | `AcknowledgedLimitsInForce` | the component is never left out |
| `Actions`: `TypeOK`, `NoRemovedUnit` | `ActionsProofs` | |
| `Custody`, `AtMostOneResponse` | `EveryRequestInOnePlace`, `AnsweredOnce` | no invalid params |
| `Chunk`: `TypeOK` | `ChunkProofs` | |
| `OversizeExplained` | `OversizeOnlyAtTheLimits` | |
| `Intact`, `Delivered` | `OneWholeMessage`, `SentIsReceived` | `NoExactFit` |
| `Store`: `QuietAfterEnd`, `Implements` | `StoreProofs`, and for the composition `ServicesProofs` | |
| `Services`: `TypeOK`, `FetchedWhole` | `ServicesProofs` | |
| `ClientV1`: `TypeOK`, `StoppedIsFinal`, `Custody` | `ClientV1Proofs` | |
| `Tool`: `TypeOK`, `ServerFirst`, `StopIsFinal` | `ToolProofs` | |

### Check-in

`TypeCorrect` includes the types of every message in both directions and of every unit's expected state:
`MessagesOK` is inductive together with `FieldsOK` (`StepFields`, `StepMessages`), because an expected
state is put together from messages and a report from expected states.

`NoLostStateChange` speaks of a writer that sleeps and is not inductive. `ReportInv` follows the writer
through its walk: with no signal pending, all it has read is current (`"collect"`), and once the walk is
over it has read everything (`"component"`, `"send"`, `"select"`). It needs the exclusion of reader and
writer (`LockExclusion`: no unit is added or removed during the walk), that both run only inside a
round trip (`LoopInv`), and that a unit which is allocated but was never announced is still `Starting`
(`HandleInv`), so that a unit added behind the writer's back needs no report. `IInv` is their conjunction with
`TypeOK`. Three invariants are inductive relative to it: `AnnounceInv` says, for each phase of the reader,
which units of the registry the integration does not yet, or still, hold; `VersionInv` where the
version of the client is until the agent has it; `ViewInv` that what the integration read last differs
from the unit only in the fields the change on its way names.

Each step lemma has a step per action; actions that leave an invariant's variables alone share one
(`ReportFrame`, `AnnounceFrame`).

What is reported of policies depends on the agent, so those theorems have conditions on the script, which TLC
evaluates on the scripts of the runs (`ScriptsKeepProtocol` of `MCCheckin`):
`IndexesGrow` (an index never goes back: it is the agent's count of its changes), `ReturnsAreNew` (a unit that
comes back has another index than before; the code forgets the old one with the unit) and `FeaturesSent`
(every policy has features, and other features have another index). Without the last, or with a component
left out, an index is acknowledged that nobody applied: what `FeaturesFollowIdx` and `LimitsFollowIdx` are
about, and why the runs check them where nothing is left out. The argument is that policies move in
order: agent, stream, reader, component, registry. `PolicyInv` gives the policy at each of these stages, each
no later than the one before; `ConfigInv` bounds the index that a unit has by the policy the reader
is applying; `CollectInv` and `ReadInv` say that what the writer has collected under `unitsMu` is of
the policy the registry is at, and stays one policy when the reader goes on (`OneReportInv`). `FeaturesInv` and
`LimitsInv` follow the index and the value it stands for through the same stages.

### Actions

`LoopInv` says which of the reader, the goroutines and the writer run in which phase of the round trip, and
`HeldInv` what each of them holds. `YoungInv` says that the unit a lookup found is not older than `since`,
and with `FreshInv`, that nothing is known of a request not yet received, gives `NoRemovedUnit`.
`Custody` is a conservation law, and `PlaceInv` makes it inductive: the set of places of each request,
written as pairs of a kind and the goroutine or the position, has one element. Most steps move
one request or none; the end of a stream and `Start`, which makes a new queue, move many. The hypothesis is
that the agent sends no invalid parameters: with them the code answers twice (`client_v2.go:1042`), so it cannot
be dropped, and `AnsweredOnce` shows that nothing else makes it answer twice.

### Chunks

`FitInv` is the induction for `OversizeExplained`. Of the chunk being filled it says (`Measured`) that the size
the code counts is never below its size, unless it has two units and one of them adds more than the padding
(`Unpadded`); that this count is above `MaxSize` only for a unit in a chunk of its own (`Alone`); and that no unit
left is in the chunk, so that one which is added is another. The first chunk is compared with `MaxSize`, and the
empty one is no longer than it (`Header <= First`: it has two of its fields). Nothing is assumed of the sizes.

`Intact` and `Delivered` are about all that is on its way, `Flow`: what is on the stream, what waits to be
sent and the chunk being filled, as one sequence. `FlowInv` says that each piece is of one message, in order,
that the first chunk of a batch comes before its others and all its units before its end, unless the
receiver is passing that batch over; and that it comes after what was received. `FillInv` adds that a unit
of the message being split is left or in a chunk. The actions of the sender append to `Flow`
or leave it as it is, `Recv` takes its head. Both theorems need `NoExactFit`: a chunk of one unit that is exactly
full ends the loop, and the units after it are lost (`chunk_drop` violates `Intact` on an instance whose sizes do
not meet it). A chunk that is longer ends the loop too, but gRPC does not send it, and the end of the batch
comes after it: `WireFits`, and `Gathered` counts the units of a message as accounted for where such a chunk is still
to be sent. The units of `chunk_safety` and `chunk_limits` meet
the condition. `OrderedInv` adds for `Delivered` that with nothing lossy the
receiver passes no batch over.

### Store and artifacts

The difficulty is the request that outlives its call. `RequestInv` says what can be in flight: one request per
transaction, either the call its caller waits for and the agent has not answered (`Live`), or the call that
broke it (`Late`); the flags allow no other after it. `CallInv` says which calls the flags let through,
`FateInv` that the agent's fate of a transaction agrees with what the caller knows, `BufferInv` that the agent's
buffer holds the writes the caller was told of, with the one just answered. Each needs the others: a
late commit must find the buffer the caller knows (`BufferInv`), which holds because nothing else can be
in flight (`RequestInv`). `StepRefines` then maps each action to one of `Transactions` or to a stutter.

`ServicesProofs` carries this over to the composition (`StoreInServices`: each of its steps is one of
the store or leaves the store's variables alone). For `FetchedWhole`, `PartsInv` says that
the parts received and those on the stream are together the first parts of the artifact.

### V1 client and v2tool

`StopInv` of `ClientV1` says that a client which was asked to stop keeps `STOPPING` in its own field,
whatever the stream, so a later reader reaches none of the guarded callbacks; `ConfigInv` orders the indexes of the config that is
applied, stored and sent. `Custody` has the same form, and the same argument, as that of `Actions`, without its
hypothesis.

In `ToolProofs`, `MutexInv` says which handler holds the manager's mutex. `TypeOK` needs it and is the
link to the rules: what is expected of a unit is what its done flag says, at every moment, also while another
handler encodes it. `RunInv` ties the client to the phase of `Run`, for `ServerFirst`. `StopInv` says
that a unit the client was told to stop is done for the manager, and in what every handler still
has to send it is not told to run.

### Only model-checked

Every liveness property (`StableStateReported`, `Converges` and `StopTerminates` of the check-in,
those of the actions, of the closed connection, of V1 and of v2tool): the prover has no rule for fairness or
`ENABLED`. Facts about sums over sets (`Chunk!Whole`) would need induction with an operator parameter,
which is out of its reach too; `OversizeExplained` does not need them, since it speaks of chunks, whose sizes the
model adds up unit by unit. Of the store's abstract specification the proof covers safety; it states no liveness.


## Not modelled

* Durations: the ticker may fire at any time and the backoff is one step, so the interval arithmetic
  (`client_v2.go:464-509`) is not checked.
* `Start` that fails to dial, and calls of `Start` without `Stop` between them.
* Unit ids twice in one message; an agent whose indexes restart, where the comparison with the last
  index (`unit.go:325`) takes other content for the same.
* The check-in and the actions in one model: `Actions` has the registry as the check-in changes it, but `errCh`
  and `Stop` are in both models separately. The context an action gets (`client_v2.go:1001`, which
  `Stop` sets to nil
  after its wait; `client.go:404` likewise) is the integration's to use.
* An integration that stops reading its channels: the code documents that it blocks. One that calls `Stop`
  from `OnStop` (`client.go:226`) waits for itself.
* Sizes of action responses, and values, ttl and sha256 of store and artifacts: opaque to this code.
* The log client: one stateless call. Dialling, TLS, certificates, service flags, YAML and flags of v2tool:
  I/O without state that anything else could see. The profiles diagnostics collect: no state.
* The V1 stub server and the action handlers of the V2 one: doubles that only tests call; v2tool sends no
  actions. Generated code beyond the message types and the clients' sends: descriptors and registration.

## Plan

1. Done: the models, their runs, and a theorem for every state invariant that a passing run checks.
2. Proofs left: an abstract check-in (what the agent knows of a unit follows the unit's state) refined by
   `Checkin`, and an abstract mailbox (each request is answered once, or lost with a stream or a `Start`)
   refined by `Actions` and by `ActionsV1`. `PlaceInv` of either proof is most of the latter.
3. `Retry`: the interval of the backoff and the timer that starts before the round trip.
