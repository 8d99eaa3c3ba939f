# MapReduceIndex-Demo: specifications, model checks and proofs

The repository holds the files that add JavaScript map functions to Couchbase's
secondary indexes: the indexer's KV sender, the projector's evaluator with its
V8 library, and the eventing service manager that stores the functions and their
user interface. The rest of both programs (cluster cache, metakv, projector,
supervisor, `service.Manager` glue) is not in the repository; where a model needs
it, it is *external*: described from how the code here calls it.

`PROJECT.json` lists components, runs, mutants, findings, hazards and theorems,
and maps each definition to the lines it models. Run a check with
`tlc -config X.cfg MCModule.tla`, a proof with `tlapm XProofs.tla`.

## 1. Inventory

| Component | State | Operations | What is hard | What makes it correct |
|---|---|---|---|---|
| **KV sender** `kv_sender.go` | command channel, config; per request: closure variables (error, active / rollback / current time-stamps, abort flag), stop channel, response channel | six stream commands, config update, shutdown, unknown; a worker goroutine per request calls the projectors in turn, with retries | requests that overlap, a stop between two calls, errors of several projectors and rounds overwriting each other, lost replies, a topology that is stale when used | answers tell the truth: success is complete, a roll back is never lost, a delete took effect; every command is acknowledged and every request answered |
| **Service manager** `manager.go`, `defs.go` | revisioned state (task, rebalance ID), context, rebalancer, waiters, metakv token; one mutex | prepare, start, cancel, callbacks, `wait()` | callbacks that get the lock late, a cancel that waits while it holds the lock, polls against updates | the four pieces of a rebalance stay in step, no nil is followed, a cancel is final and returns, no poll misses an update |
| **JavaScript engine** `CGOTRY/*`, `JSEvaluate.go` | global engine pointer, ticket counter, per isolate: global `OnMap`, the function per file, response buffer | create, compile, route, run, collate | unlocked creation, compilation isolate by isolate, a buffer read after its lock is released, a wrapping counter | a document is run by its own function in any isolate and gets its own result |
| **Function store** `http_handlers.go` | metakv: definition, settings, draft of each function | REST and UI handlers that save, delete, set; cleanup | three keys without a transaction, unlocked check-then-write, partial failure, repeated calls, the supervisor acting on settings | ok is true, repeating a DELETE cleans up, a definition has settings, settings are the function's own |
| **JavaScript evaluator** `indexjs.go` | the vbucket worker's byte buffer, used for every key | `TransformRoute` (new document, old document, routing by opcode), the control messages | one buffer for both keys, all instances and all events; recovered panics; endpoints that read late | a key holds its own document's bytes when it is read; every instance is heard once about every event |
| **Response encoding** `v8Instance.cpp`, `JSEvaluate.go` | tagged slots of a response | `Generate` / `Emit` (C++), `CollateIt` (Go) | reader and writer out of step; Go slices that do or do not share memory | the reader rebuilds the last `emit()` |
| **Projector requests** `projector.go` | none of its own; locals of `getEvaluators` | requests, vbucket maps, failover logs, topic responses, `getEvaluators`, `AddRollbackTimestamp` | a variable that survives a loop iteration; code read from metakv while it is rewritten | each instance gets its own evaluator, running the stored code; what rolls back is not active |
| **Index definitions** `index.go` | index definition and instance | `Clone`, `IsEquivalentIndex`, predicates; conversion to protobuf | fields forgotten by one of them | a clone is equivalent; equivalent definitions evaluate alike |
| **View library store** `http_handlers.go` | one metakv key per view | save, delete, list | list-then-fetch, find-then-delete, dropped write error | a listing shows what was there |
| Statistics, debugger, tracing | tracing token (one slot) | start, stop | stop without a start | not modelled |
| User interface `*.js`, `*.html` | page state | deploy, undeploy, delete dialogs | order of calls | not modelled: a client like any other |
| Start-up, generated protobuf, `queue.h`, patch, binary, a second copy of `kv_sender.go` | | | I/O, generated, unused, repeated | not modelled |

How they meet: the indexer sends the KV sender commands whose index instances
carry the path of a map function; the sender passes them to projectors; a
projector makes an evaluator for each, which loads the function's code into the
engine and runs mutations through it. The functions' code is kept by the store,
which the user interface edits; the supervisor deploys what the store's settings
say. Inside each part concurrency is by goroutines (or threads in V8 isolates);
between parts by channels, HTTP and metakv.

## 2. Modules and how they correspond to the code

| Module | Models | Theorems in |
|---|---|---|
| `KVSender` | `kv_sender.go`, all of it but the conversion of instances | `KVSenderProofs`, `KVSenderAnswerProofs` |
| `StreamRequests` | what the sender promises its caller (abstract) | `KVSenderAnswerProofs` |
| `ServiceMgr` | rebalance state and polls of `manager.go` | `ServiceMgrProofs` |
| `FunctionStore` | function handlers of `http_handlers.go` | `FunctionStoreProofs` |
| `JSEngine` | engine, isolates and runs: `CGOTRY/*.cpp`, `JSEvaluate.go` | `JSEngineProofs` |
| `Evaluator` | from a change to messages: `indexjs.go`, `CollateIt`, `Generate`, `Emit` | `EvaluatorProofs` |
| `FoldTheorems` | nothing of the code: induction, and what a fold computes | itself |
| `IndexDefn` | definitions and instances of `index.go` (operators) | `MapIndexProofs` |
| `ProtoInstances` | their conversion to protobuf in `kv_sender.go`; extends `IndexDefn` (operators) | `MapIndexProofs` |
| `TopicMessages` | requests and responses of `projector.go` (operators) | `MapIndexProofs` |
| `MapIndex` | views, and the projectors that evaluate indexes with them; extends the two above | `MapIndexProofs` |
| `MC...` | model values and bounds of the runs | |

**KVSender.** `supv`, `command`, `loop` are the command channel and `run()`; `w[r]`
holds a worker's locals and the variables its closures share, with `calls`, a
history of what projectors returned to it. A worker goes through
`AnswerEmptyList`, `FetchTopology`, `MakeRestartTs` (or `PrepareFails`), then
rounds: `SkipNode` or `EnterCall` for each projector (the test of the stop channel
in `execWithStopCh`), `ShutdownVbuckets` (only a restart with connection errors),
a reply (`TopicReply`, `AddReply`, `DeleteReply`) or `CallFails`; `EndRound` retries
or goes on to the answer, which the caller is assumed to receive. `BeginRound`, `Returned`, `Short`, `OpenResult`,
`AddResult`, `RestartResult` and the answers follow the closures of each request
kind; what differs between them (which variables a retry clears, which errors count
as done, whether a skipped call is remembered) is kept, because the properties turn
on it. A time-stamp is the set of vbuckets it covers. The projector keeps, per
node, whether the topic has a feed (`topic`) and the vbuckets streaming on it
(`running`); a failed call may still have taken effect. All requests are about one
topic and bucket. The configuration may be replaced at any time: an add tests the
collected time-stamp against `numVb` when its round ends and sends it with the
length `numVb` has when it answers (`size`); the history `replaced` names requests
for which it was replaced between the two. `CrashOnError` ends the process (`alive`) while an
index list is converted, as the code does when the cluster cache cannot be
fetched; projectors and cluster live on.

**StreamRequests.** A request is pending, may be stopped, may see a demand to roll
back, and is answered once, by a message its kind permits, unless the process
crashes while an open or add is pending. `KVSender` instantiates
it with a mapping that forgets workers and rounds (`Requests`).

**ServiceMgr.** A critical section is one action; the cancel is two, since it waits
for the rebalancer while holding the lock (`CancelRunning`, `FinishCancel`).
`pending` holds callbacks whose goroutine has not got the lock yet; `BodyRuns` is
the test of the cancel channel made after it got it. `chan` holds the one-slot
channel of each poll; a cancelled poll leaves its channel registered, as the
code does (`removeWaiter` is not called). External: the entry points that take the
lock, and the rebalancer goroutine, which may stop at any call.

**JSEngine.** `CreateEngine` is three steps (test, make, assign and return), a
compilation one step per isolate, a run seven: route, lock and call `OnMap`, write
values, write the length, unlock, and read length and values *after* unlocking. Code either
defines `OnMap` or leaves the isolate's global one alone. A response is reduced to
the run whose `emit()` wrote it: enough to tell whose result a run returns.

**Evaluator** looks inside a response and leaves out its sharing. A value is the sequence of
tokens `Generate` walks through, and the loops over it (`Generate`, `Emit`, `CollateIt`) are
folds of one operator per round; `Emit` writes one slot per token that has a value, and
only the field of its type, so a slot keeps what earlier runs left in its other fields.
`CollateIt` walks the types and takes slots as it goes. Bytes are *cells*, each naming
the text it belongs to, so that a property can tell whose bytes are in a key. A Go slice
is in place up to its capacity and a copy beyond (`GoAppend`); `Extend` is the reslicing
that panics there. `EvaluateNew` and `EvaluateOld` run the function over the two documents
into the same buffer, a panic drops the instance, `Route` is the switch over opcodes, and
`Deliver` is the moment an endpoint reads the bytes. External: the vbucket worker, which
reuses its buffer and walks the instances in any order; the endpoints' queues; and
`UpsertEndpoints`, of which all or no endpoints accept a mutation. Left out: the old
value of partition keys (external), `TreatAsJSON`, the encoding that is made twice in
`Run`, and `doc = append(doc, CTerminator)`, which writes past `m.Value` into memory
no other part of the model has.

**IndexDefn, ProtoInstances, TopicMessages** have no state: definitions and messages are
records, the methods operators on them. `ConvertIndexListToProto` is stated once for all
instances; `ConvertByLoops` is the two loops of the code, and `LoopsConvert` proves that
they are the same.

**MapIndex.** Views are keys in metakv, and each handler is taken apart where other
handlers can come between: a delete finds the view and then removes it, a listing
fetches name by name. The indexer's rounds call projectors one by one;
`MakeEvaluator` is one turn of the loop in `getEvaluators`, whose variable `ie` survives
turns (`call.ie`), and reads the view's code then and only then. `Subscribed` is the
(external) feed that registers what a call made, `CancelAt` and `RestartProjector` take
it away. Three histories: `during` (what a view held since the listing began),
`outdated` and `call.outdated` (the view was written after that call began).

**FunctionStore.** Each access to metakv and each question to the supervisor is a
step of its handler, since nothing excludes other handlers in between: for a save
`CheckDeployed`, `Compile`, `PutSettings`, `PutApp`, `CheckBuckets`, `PutDraft`; for
a delete `FindApp` ... `DropApp`, then `FindDraft` ... `DropDraft` if `Continues` says
so; for settings `ListDrafts`, `ReadDraft` (one per draft), `Validate`, then the
writes. The same steps serve bulk calls (`todo`) and the handlers the user
interface calls for a part of the work. A failed write may have taken effect.
Settings are reduced to the two statuses and the functions they stem from,
`Unmarshal` is what `json.Unmarshal` does with a map that is already there, and settings
may be posted with an empty payload, which assigns nothing. Two
histories say when a property can be asked: `alone` (no other call touched the
name meanwhile) and `unset` (settings were removed under a definition).

## 3. What the runs check

All runs are exhaustive. Bounds are constants named in the modules.

| Run | Instance | Question and result |
|---|---|---|
| `kvsender_rounds` | 1 request, 2 projectors, 2 vbuckets, 1 retry | Every outcome of every call, the stop channel closed and the configuration (1 or 2 vbuckets) replaced anywhere. Ten properties: success is complete (`OpenSuccessIsComplete`, `AddSuccessIsComplete`, `RestartSuccessReachedAll`, `DeleteTakesEffect`), a roll back survives rounds (`RollbackNeverLost`, `RollbackKept`), an abort is answered exactly when the last round was cut short and a repair only when justified, streams end only as asked. |
| `kvsender_races` | 2 requests of any kind, 1 projector | Overlapping requests do not spoil each other's deletes, and the workers implement `StreamRequests`. |
| `kvsender_loop` | 1 request, every command, config changes, 1 move or restart, a crash, fairness | Unless the process crashed, known commands are acknowledged and requests are answered, also after the loop has left. |
| `kvsender_repair` | 2 projectors, no retry | *Violated*, see findings. |
| `servicemgr_safety` | 2 rebalances, 2 polls, 1 progress report each | Cancels, failures and late callbacks in any order: state coherent, no nil, no lost update, no blocked notification; a cancel that succeeded has told the consumers, and nothing is published without a new revision. |
| `servicemgr_live` | 2 rebalances, 1 poll, fairness | The cancel that holds the lock returns; an outdated poll returns. |
| `functionstore_requests` | 1 function, 3 calls of any of 8 operations, 1 failed write | Ok means done (in every store the call names), a repeated DELETE heals a failed one, a definition has settings. |
| `functionstore_bulk` | 2 functions, 2 calls, singly or in bulk, 1 failed write | Ok means done, with lists, where one function fails and the next goes on. |
| `functionstore_leak` | 2 functions, 3 calls | *Violated*, see findings. |
| `jsengine` | 2 evaluators, 2 files, 2 good and 1 bad script, 2 isolates; 2 runs, or 4 runs when there is one evaluator; a counter of 2 bits | A ready evaluator is bound in every isolate of its engine, isolates agree unless compilations overlapped, a foreign function is bound only after code that defines none; while fewer runs overlap than there are isolates, each returns its own result, also when the counter wraps below zero. |
| `evaluator` | 2 instances, 2 endpoints, 1 isolate, 2 events of any kind, responses of 4 slots, a buffer of 14 bytes | Whose bytes a key has when it is read: its own document's, unless the buffer was written again (`KeysAreOwnUnlessOverwritten` names by whom). No endpoint of an instance is left without a word or told twice. |
| `mapindex` | 2 views, 2 codes, 4 instances of 3 expression types, 2 projectors, 2 rounds | Views are saved, deleted and listed while projectors make evaluators, fail, restart and are cancelled: evaluators are their instance's own, an engine runs the stored code unless a write came after, listings are true. Three `ASSUME`s of `MCMapIndex` evaluate operators over all small inputs, one of them against the code's loops. |

Why the bounds are enough. What goes wrong between projectors shows with two: one
that answers before and one that answers after (or is skipped). Between rounds it
shows with one retry, which is one more than `MAX_KV_REQUEST_RETRY` (0 in this
revision; the retry code is checked because a change of the constant turns it on);
`kvsender_races` uses the code's 0. Vbuckets matter only as sets, and two give every
relation between demanded, active and requested ones. Late callbacks need one rebalance to be late from and one
to disturb. Two isolates are the number `NewJSEvaluator` asks for; a counter with the
values -2..1 wraps within the four runs. In the store, a mess takes one call
that fails and one to be repeated, on a function that a first one saved: three.
The 14 bytes of the evaluator's buffer hold the shorter keys and not the
longest, and an instance that gets no buffer starts from Go's smallest allocation, so
in-place, moved and panicking encodings all occur; two events suffice for a later event to overwrite an
earlier key. `FewRuns` and `ListingsFirst` are state constraints. The first keeps four runs apart from
the race of two evaluators: responses are shared by the runs of one engine, and one run is
enough to find a function unbound. The second keeps the listing apart from the requests, with
which it shares only the views, written by neither. What the two runs check is proved
without the constraints.
Symmetry is used in safety runs only. Deadlock is not
checked where calls and events are finite, since every behaviour then ends in a quiet state.

**Fairness.** `KVSender`: weak fairness of the command loop and of each worker; the Go
scheduler runs a runnable goroutine, and projector calls return because the client
has a timeout. A worker's answer is a send on the request's channel, so its fairness
assumes that the caller receives; nothing else is assumed of callers, and nothing of the
supervisor, the cluster or the absence of crashes.
`ServiceMgr`: weak fairness of the cancel, of the rebalancer (which watches its
cancel channel in every select), of callbacks and of the return of a poll; none of
those who start or cancel rebalances. Both specifications also check safety
without fairness.

## 4. What is proved

For every value of the constants (any number of requests, projectors, vbuckets,
retries, rebalances, polls, functions, isolates, runs, views, instances, map functions), from the named
assumptions of each module only. Every invariant and action property of a passing run
is a theorem; the liveness properties are not.

* `KVSenderProofs`
  * `TypeCorrect`: `Spec => []TypeOK`, one lemma per group of actions.
  * `RollbackCollected`: `RollbackKept` is invariant. It is inductive given the types:
    what a call returned is in the worker's collection, a new round does not clear
    that collection, only opens and restarts collect, and an abort has a stop
    behind it. It is a conjunction over workers, so `KeptStep` reduces a step to
    the one worker that moves.
  * `RollbackReachesCaller`: `RollbackNeverLost` follows. The caller sees only the
    answer, and the answer says nothing of earlier rounds; hence the strengthening.
* `KVSenderAnswerProofs`
  * `WorkersKeepTrack`: the invariant `AllKeep` behind the answers. Per worker it says where
    a round begins, what the round has collected from the projectors it is past,
    which of their failures the error variable remembers, and what is known when the
    round ends. The answers alone are not inductive: an open's answer is decided by
    calls of several rounds ago.
  * `OpensAreComplete`, `DeletesTakeEffect`, `AddsAreComplete`, `RestartsReachAll`,
    `AbortsAreExact`, `RepairsAreJustified` follow from it and the step that answers, for any
    number of moves and restarts of the cluster (the runs that check them have none).
    `AbortsAreExact` holds for every answer of a restart, errors included. `AddsAreComplete` needs
    `AddsAreSized` besides: the length tested at the end of the round is the one sent,
    unless the configuration was replaced between (`Sized`).
  * `StreamsEndOnlyAsAsked`: an action property. It rests on a second invariant, that the
    vbuckets a restart takes for broken are among the `connErrVbs` it was asked about.
  * `WorkersImplementRequests`: the refinement of `StreamRequests`. Initial states map to
    initial states, every step to a step of the abstract machine or a stutter.
* `ServiceMgrProofs`
  * `RebalanceInvariant`: `TypeOK /\ RebalanceCoherent`, the inductive invariant of
    the rebalance. `NoNilDereference` alone is not inductive: whether a late callback
    finds its context depends on which rebalancer is current, which cancel is under
    way, and what may still be pending. `TypeCorrect`, `NeverNil` and `CancelIsFinal` follow.
  * `CancelsTell` adds what a cancel has told the consumers by the time it returns.
  * `SendsNeverBlock` and `PollsMissNothing` follow from `Waits`: a registered channel
    is empty, a channel's content is newer than its poll's revision, a poll with an
    empty channel is registered and up to date.
  * `ChangesAreRevisions`: one step per action, from the types.
* `FunctionStoreProofs`
  * `InvariantHolds`: where each handler is in its calls (`Form`, `Place`), what it has
    written already if nobody else touched its function (`Own`, `Stored`), and that two handlers
    are never both alone with one function (`Apart`), without which one handler's write could
    spoil what another relies on. Each step is split into the handler that moves, the
    functions it touched and the histories.
  * `TypeCorrect`, `DefinitionsHaveSettings`, `OkIsTrue` and `DeletesHeal` follow,
    for bulk calls of any length.
* `JSEngineProofs`
  * `ReadyIsBound`, `ForeignNeedsBadCode`, `RoutingMakesNoDifference` from the bindings'
    invariant `BoundInv`: what a compilation has reached is bound there, unless code
    without `OnMap` or an overlapping compilation came between.
  * `RunsKeepApart`: the invariant of the runs. Isolates are routed in turn, so while
    the process lives, the distance from a run's isolate to the next one routed is at most
    one more than the runs it has overlapped; two runs that meet in an isolate
    therefore overlap each other and one of them overlaps at least as many as there are
    isolates. Where the counter wraps below zero the remainder either goes on round or is
    negative, and then the process dies. A run that meets nobody finds its own values in the
    response.
  * `TypeCorrect` and `LightLoadIsSafe` follow.
* `MapIndexProofs`
  * `CloneIsEquivalent`, `EquivalentIndexesEvaluateAlike`: facts
    about the operators. The second is what lets the indexer treat equivalent
    definitions as one index: nothing a projector evaluates differs between them.
  * `RollbacksReplaceActive`: any list of roll backs added to a topic response, in any order and
    for several buckets, moves just the vbuckets it names from active to rolled back; by
    induction over the list. That `FilterByVbuckets` takes those vbuckets out is assumed: it
    is not part of the source.
  * `TypeCorrect`, which includes that a call in progress is well typed (`CallTyped`).
  * `EvaluatorsAreOwn`: registered evaluators are the instance's own only because those made
    so far in a call, and the surviving variable, are of instances of that request.
  * `OnlyWritesOutdate`: what a call has made is made of the stored code unless
    `call.outdated`.
  * `ListingsAreTrue`: names not fetched yet are empty, and `during` contains the view's
    present code.
  * `LoopsConvert`: the loops that convert a list of instances give each the partitions of
    all its proxies, in any order of the list. By induction over the list: a proxy more
    either joins those there are already, which leaves the first of them (and with it
    the endpoints) alone, or is the first itself.
  * `LocatedIsHosted`, `LogStartsWithLatest`: what is computed from vbucket maps and failover
    logs, for lists of any length.
* `FoldTheorems` (lemmas that say nothing of the code; the theorems about its loops rest on them)
  * `NaturalsByAdding`, `SequencesByAppending`: induction, stated with a set in place of a
    predicate. A predicate would be an operator parameter, which the provers do not instantiate;
    a set is a term like any other, and the statement to be proved is its comprehension.
  * `FoldEmpty`, `FoldAppend`: the two equations of `FoldLeft`, for one operator `op` that is a
    constant of the module. A module with a fold of its own instantiates it `WITH op <- ...`.
* `EvaluatorProofs`
  * `CollateItRebuilds`: writer and reader are in step. Whatever an array of slots held,
    what `CollateIt` makes of it after `Generate` wrote a call of `emit()` is that call's
    encoding, or the code has panicked, which it does not if the encoding fits
    the room a key has at first. The induction over the tokens runs writer, reader and
    encoding side by side (`Agrees`): the slots below the reader's position will not be
    written again, the slice's bytes are the encoding so far, and a slice in the
    worker's buffer is mirrored there (`Sound`). `NoShift` excludes what makes the two
    disagree: a Map, and an object the JSON codec refuses.
  * `TypeCorrect`, which needs `Holding`: an instance whose route is in progress has not seen
    the event.
  * `KeysCorrect`: `KeysAreOwnUnlessOverwritten` speaks of keys in queues; the invariant
    `KeyInv` follows a key from the run that makes it (`AtRight`) through the event's
    messages (`Pending`) to the queues (`Waiting`). What may still write to the
    buffer is among the instances left, each message's `rest` contains them, and every
    batch in a queue is of an earlier event as soon as there is a new one. A key that had to
    move is not in the buffer at all, since one that is is no longer than it (`KeyKept`).
  * `ChangesHeard`: each instance handled has one message per endpoint, and none that is left has any
    (`Pending` again); an instance that panicked was not `Short`, by `CollateItRebuilds`.

Only model-checked: liveness (`KnownCommandAcked`, `ImplementsFairRequests`,
`CancelReturns`, `OutdatedPollReturns`), which is out of the prover's reach, since it has neither
`ENABLED` nor fairness; and the two expected violations. The three `ASSUME`s of `MCMapIndex`
are theorems too; TLC evaluates them for small inputs first.

## 5. Findings

* `kvsender_repair` (comment against code). "if there is a topicMissing/genServer.Closed
  error, a fresh MutationTopicRequest is required" (`kv_sender.go:416`). `restartVbuckets`
  keeps only the error of the last projector that failed; with TopicMissing from one and
  another error from a later one the answer is a fatal error, not a repair.
* `functionstore_leak` (bug). "Get the app from temp store and update its settings with
  those provided" (`http_handlers.go:769`). `getTempStore` decodes each draft it passes
  into one variable; settings of functions listed earlier stay in the map and are stored
  as the function's own.

## 6. Not modelled

* The handlers of the temporary view store (`deleteViewTempStore`,
  `deleteTempLibraryHandler`): nothing writes that store, since `/saveTempView/` is
  registered for the handler that lists.
* The router map of the projector, made of the same instances by the same loop as the
  evaluators; marshalling of messages and their `Err` field; `CreateMeta`.
* Responses beyond `Room` slots. `Generate` does not test the bound, so what follows is
  undefined behaviour without a set of outcomes to choose from; `RoomAssumption` excludes it.
* Malformed request bodies and bad permissions, which change nothing, and one
  name given twice in a bulk save.
* A delete with an empty index list: `indexInstList[0]` panics in its error messages
  (`kv_sender.go:508`, 532, 552), which the code shows without a model.
* The tracing token: one channel and two handlers, of which a model could only
  repeat the code.
* Statistics and debugger handlers, HTTP and TLS start-up: reads and I/O. The user interface:
  a client, and the models let clients call in any order. Generated code, `queue.h`
  (used nowhere), the patch (repeats the sources) and the compiled library.
* The copies of `kv_sender.go` and `projector.go` under `src/Projector`: they differ from
  the modelled files in paths of JavaScript files, an import and a log line.

## 7. Plan

Left, by importance:

1. `Evaluator` composed with the shared responses of `JSEngine`: which keys are wrong when
   two runs share a response. Today one module has the sharing and the other the contents.
2. A store whose calls are atomic, implemented by `FunctionStore` when calls do not
   overlap; an engine in which a run returns its own result at once, implemented by
   `JSEngine` under light load.
3. The user interface's dialogs as a client of `FunctionStore` and `MapIndex`.
4. The wire conversions of index definitions.
