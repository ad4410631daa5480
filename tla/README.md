# TLA+ models of Alloy's controller, reload flow, worker pool, positions tracker, WAL batch, gelf source and spanmetrics arguments

This directory holds TLA+ models of the concurrent and stateful parts of the
Go sources under `src/`. It has TLC configurations that model-check them on
small instances, and TLAPS proofs of the main safety properties, of the
worker pool's refinement of an abstract evaluation round, and of type
correctness.
`PROJECT.json` lists:

- every component and its status;
- every run, with the properties it checks;
- a mutant for each property;
- the source lines each definition models;
- the findings;
- the hazards, at the line where they bite;
- the proved theorems.

## 1. The system and its parts

| Part | Source | State | Operations | Module |
|---|---|---|---|---|
| Runtime controller | `src/internal/runtime/alloy.go` | `loadedOnce`, `loadFinished` (chan, cap 1), `loadMut`, the loader's graph, the update queue, the scheduler's running set | `Run` (select over ctx, queue signal, loadFinished; `Synchronize`), `LoadSource` / `applyLoaderConfig`, `Ready`, `OnBlockNodeUpdate` | `AlloyRuntime`, `AlloyRuntimeProofs` |
| Loader, dependency graph, update queue, scheduler | outside `src/` (spec §4.1–4.5) | committed graph; queued nodes; running tasks | `Apply` (fails on a cycle or an unresolved reference), `Enqueue` / `DequeueAll`, `Synchronize` | inside `AlloyRuntime`, modelled from the spec |
| Reload flow of `alloy run` | `src/internal/alloycli/cmd_run.go` | the `reload` closure's progress on each goroutine, `reloadSignal` (cap 1), sources shown by the HTTP service | initial reload (exit on error), `ChangeState`, SIGHUP loop, `/-/reload` | `ConfigReload` |
| Positions tracker | `src/internal/component/common/loki/positions/positions.go` | `positions` map under `mtx`, the positions file, `quit` / `done` | `New` (`readPositionsFile`), `Put` / `PutString`, `Remove`, `Stop`, `run` (tick: `save` then `cleanup`; quit: final `save`, close `done`) | `Positions` |
| WAL batch format | `src/internal/component/prometheus/remotewrite/batch/batch.go` | string dictionary, per-name label-id sets, samples per timestamp | `AddMetric`, `Reset`, `Serialize`, `Deserialize` | `Batch` |
| Worker pool | outside `src/` (spec §4.4) | per-node dependency counters of the round, the task queue, what each worker runs | submit a round, take a task, complete it (decrement dependants, submit those at zero) | `WorkerPool` refining `EvalOrder`, `WorkerPoolProofs` |
| gelf source | `src/internal/component/loki/source/gelf/gelf.go` | `c.mut` (RWMutex), `c.target`, `c.receivers`, the targets' running state | `Run` (receive, `RLock`, fan-out, `RUnlock`, exit with the deferred `c.target.Stop()`), `Update` (`Lock`, stop old target, swap receivers, `NewTarget`) | `Gelf`, `GelfProofs` |
| spanmetrics arguments | `src/internal/component/otelcol/connector/spanmetrics/spanmetrics.go` | the decoded `Arguments`, the converted connector config | `SetToDefault` + decode, `Validate`, `Convert`, the temporality conversion both ways | `SpanMetrics`, `SpanMetricsProofs` |
| otlphttp converter, tests | see `PROJECT.json` | — | — | not modelled (§6) |

How the parts interact:

1. `alloy run` builds the controller and assigns the `reload` closure. The closure reads the files, parses them, calls `httpService.SetSources` and then `f.LoadSource`.
2. `LoadSource` runs the loader under `loadMut`. Unless the very first load has errors, it sets `loadedOnce` and signals `loadFinished`.
3. The controller's `Run` goroutine receives that signal. It reads the runnables from the loader and hands them to `Scheduler.Synchronize`.
4. Running components change their exports, which enqueues them on the update queue. `Run` drains the queue and re-evaluates their dependants.
5. Once the first load has succeeded, the HTTP service runs. It is one of the services `Synchronize` starts, and its `/-/reload` handler calls `reload` on its own goroutine, concurrently with the SIGHUP loop.

The positions tracker, the batch format, the gelf source and the
spanmetrics connector are used by or are components. They do not interact
with the controller beyond being built, updated and stopped by it. The
worker pool is how the controller evaluates a round of nodes (step 4).

### Hard behaviours, per part

**Controller.**
- Loads are serialized by `loadMut`, but `Run` reads the loader's runnables at one time and synchronizes them later.
- `loadFinished` coalesces refreshes: capacity 1, and the send has a default case.
- The first load is fail-closed.
- Go's `select` picks among ready cases at random.

**Reload.**
- Two goroutines can reload at once.
- Reads of the file happen outside `loadMut`.
- SIGHUPs coalesce in a one-slot channel.
- A SIGHUP before `signal.Notify` is registered kills the process.

**Positions.**
- `save` copies the map under the lock and writes the file without it.
- `cleanup` races with `Put`.
- `Stop` waits for the final save.
- A crash loses what was not saved, and a corrupt file either fails `New` or, with `IgnoreInvalidYaml`, drops every position.

**Worker pool.**
- Completions of several workers decrement shared counters in any order.
- A node is submitted only when its last upstream node in the round completes.

**gelf.**
- `Run` holds the read lock across blocking sends to every receiver.
- `Update` takes the write lock; Go's RWMutex blocks new readers once a writer waits.
- `Run`'s deferred `c.target.Stop()` reads `c.target` without the lock.
- `Update` stops the old target before it builds the new one, which may fail.

**spanmetrics.**
- `Validate` and `Convert` run at different steps; the DELTA cache check lives only in `Validate`.
- The temporality is converted by one switch and mapped back by another.

**Batch.**
- The per-timestamp grouping is shared by several metric names.
- Ids are handed out in insertion order.
- The label alignment writes a none value for absent labels.

## 2. Modules

| Module | Role |
|---|---|
| `AlloyRuntime` | The controller: the `Run` goroutine, `applyLoaderConfig` in two steps under `loadMut`, and the collaborators from the spec. |
| `MCAlloyRuntime` | Instance with blocks `a`, `b`, `c` (b reads a; b and c read each other) and one service. |
| `AlloyRuntimeProofs` | TLAPS proofs about `AlloyRuntime` (§4). |
| `Positions`, `MCPositions` | The positions tracker, with crashes and restarts. |
| `Batch`, `MCBatch` | The batch format; `Deserialize` is a RECURSIVE reader, so this module is for TLC only. |
| `ConfigReload` | The reload flow. |
| `ConfigReloadProofs` | TLAPS proofs: type correctness, and Participant only after a successful load. |
| `EvalOrder` | The abstract evaluation round: each node of a round is evaluated once, atomically, after its upstream nodes in the round. |
| `WorkerPool`, `MCWorkerPool` | The worker pool, written from spec §4.4. It instantiates `EvalOrder` with a refinement mapping. |
| `WorkerPoolProofs` | TLAPS proofs: the counters are exact, and the pool refines `EvalOrder`'s safety part. |
| `PositionsProofs` | TLAPS proofs that `Stop` flushes unless the final write fails (`StopFlushes`) and that the maps keep their type, with lemmas about the map operations. |
| `Gelf`, `MCGelf` | The gelf source: `Run` and `Update` as two processes over an RWMutex. |
| `GelfProofs` | TLAPS proofs of the gelf safety invariants and type correctness. |
| `SpanMetrics`, `MCSpanMetrics` | The spanmetrics arguments: decode, `Validate`, `Convert`. |
| `SpanMetricsProofs` | TLAPS proofs of type correctness, and that every converted config is usable and keeps its temporality. |

### How state and actions correspond to the code

**AlloyRuntime.**

- `LoadSource(D, evalErr)` is `LoadSource` → `applyLoaderConfig` up to the return of `loader.Apply`:
  - it takes `loadMut`, which is held until `ApplyFinish`, so `applyPc` is the lock;
  - the graph becomes `D`, or stays as it was on a configuration error.
- `ApplyFinish` is the rest of `applyLoaderConfig`:
  - the early return of a failed first load;
  - `loadedOnce.Store(true)`;
  - the non-blocking send on `loadFinished`.
- The `Run` select cases are `RunCtxDone`, `RunUpdateQueue` + `RunDequeueAll`, and `RunLoadFinished` + `RunSynchronize`. The step between reading the runnables and `Synchronize` is kept, so another load can interleave there.
- Evaluation of dependants is abstracted to draining the queue.
- `RunnableExit` is a component's `Run` returning.
- `cleanLoad` is a history variable: some load finished without errors.

**Positions.**

- `Tick` + `Write` + `Cleanup` is one ticker case of `run`, split where the lock is released.
- `Quit` + `FinalWrite` is the quit case and the deferred save, ending with `close(done)`.
- `Stop` closes `quit`; `StopReturn` is its `<-done`.
- `Crash` loses memory and goroutines. `Restart` is `New` over the file left on disk.
- The file is a record: absent, corrupt or a valid map. `writePositionFile` is outside `src/`. It is taken as atomic: a write either replaces the file or fails and leaves it as it was.
- `Write(ok)` and `FinalWrite(ok)` may fail (`ok = FALSE`). As in `save` (positions.go:254-256), a failure is only logged. `FinalWrite` closes `done` either way, so `Stop` can return over an older file.
- `saveErr` is a history variable: the final save's write failed.
- `stopMem` and `touched` are history variables: the map when `Stop` was called, and the entries changed since.

**WorkerPool / EvalOrder.**

- `StartRound(R)` is the controller submitting a round: each node's counter is the number of its upstream nodes in `R`, and those at zero go into the queue.
- `Take(w)` is a pool worker taking a task; `Complete(w)` is the task's completion handler: it decrements the counters of the node's dependants in the round and submits those that reach zero. Success and failure are handled alike, so they are one action.
- The refinement mapping sends `round` to `batch`, `completed` to `evaluated` and `rounds` to `started`. `Take` is a stutter of `EvalOrder`; `Complete` is its `Evaluate`.

**Gelf.**

- `Run` is a program counter over `select` → `rlock` → `send` (one step per receiver, over the slice read at `RLock`) → `select`, and `exited` after `ctx.Done()`.
- `Update` is `idle` → `lock` (blocked in `Lock`) → `locked` → `stopped` (old target stopped, receivers swapped) → `idle` (`NewTarget` succeeded or failed, deferred `Unlock`).
- The mutex is `free`, `read` or `write`. `RunRLock` also waits while `Update` is in `lock`, because Go's RWMutex makes new readers queue behind a waiting writer.
- Targets are numbered in the order they are built; each is `none`, `running` or `stopped`. `RunExit` stops whichever target `c.target` names at that moment, without the lock.

**SpanMetrics.**

- `Decode` is `SetToDefault` followed by the attributes of the block: each checked field is the default or one of the values the cfg lists.
- `RunValidate` is `Validate`; `Convert(histOk)` converts the histogram (outside the file, so its success is a free choice) and then the temporality, and copies the checked fields.

**Batch.**

- The byte stream is a token sequence: one token per `addUint`, `addInt`, `addUInt64` or string written. The little-endian encoding of a fixed-width integer is read back by the matching read call, so the tokens keep what can go wrong: which values are written, in which order, and how many the reader expects.
- `Serialize` ranges over the timestamp map in every order a Go map may give.
- `Deserialize` checks the version and TTL, then reads the groups.

**ConfigReload.**

- The file is a version number, incremented by `WriteFile`. `BadParse` and `BadLoad` are the versions that fail to parse and that `LoadSource` rejects.
- Each goroutine (`main`, `http`) goes through `ReadFiles` → `ParseFail` | `SetSources` → `LoadSource`.
- `LoadSource` is one step, because `loadMut` serializes it.
- `Sighup` models `signal.Notify` on a buffered channel of capacity 1, and Go's default action before registration.
- `loaded` is the version of the last load that `LoadSource` accepted without errors. After the first successful load, `applyLoaderConfig` still applies a configuration that has errors (alloy.go:348). What such a load leaves running is modelled in `AlloyRuntime` (`ApplyFinish`), not here.

## 3. Runs

| Run | Checks | Result and meaning |
|---|---|---|
| `alloy_runtime` | `TypeOK`, `FailClosed`, `RefreshNotLost`, `RemovedEventuallyStopped` | Passes (about 2.5k states). Up to 3 loads of any node set, with or without errors; export changes; exits; shutdown. The bootstrap is fail-closed, no refresh is lost to the one-slot channel, and a runnable removed by a load is eventually stopped. |
| `positions` | `TypeOK`, `StopFlushes`, `StopTerminates` | Passes (about 620k states). Two entries (one a cursor), offsets 0..1, one crash, files deleted and recreated, every write free to fail. `Stop` returns, even when the final write fails. Once it has returned after a final write that succeeded, the file holds every position recorded before `Stop` that was not changed since. |
| `batch` | `TypeOK`, `NoLabelMisattributed` | Passes (about 114k states). Three label lists over two metric names, two timestamps, up to 3 samples per batch, resets. No label is ever attached to the wrong sample. |
| `batch_roundtrip` | `RoundTrip` | **Violation.** `m1{}` and `m2{inst="x"}` at the same timestamp: the second is read back without `inst` (batch.go:196). This is a code bug; see the findings in `PROJECT.json`. |
| `config_reload` | `ParticipantLoaded`, `SighupServed` | Passes (about 5.8k states). Four file versions, one unparsable and one rejected; two SIGHUPs and one `/-/reload`. Every SIGHUP sent after registration leads to a reload of a version at least as new. The node becomes a Participant only after a successful load. |
| `worker_pool` | `TypeOK`, `CountsExact`, `EvalOrderSpec` | Passes (about 260 states). A diamond `a → b, c → d` plus an independent `e`, two workers, three rounds (the whole graph, then partial rounds). Every counter is exact under any interleaving of completions, and the pool implements `EvalOrder` including its liveness: every round ends. |
| `gelf` | `TypeOK`, `SingleListener`, `RemovedReceiverNotSent`, `UpdateReturns` | Passes (about 7.3k states). Two receivers, three `forward_to` lists, three Updates that may succeed or fail, cancellation at any point. At most one target listens, no entry is sent to a receiver Update has removed, and an Update blocked in `Lock` returns. |
| `gelf_orphan` | `NoOrphanTarget` | **Violation.** The context is cancelled while an Update is anywhere before `c.target = t` (gelf.go:89): still waiting in `Lock`, or having stopped target 1. `Run` returns, and its deferred Stop reads `c.target` (still 1) and stops target 1, which Update stops too. Update then builds target 2, which nobody stops (gelf.go:45). TLC may report either case. |
| `gelf_failed_update` | `FailedUpdateKeepsTarget` | **Violation.** Update stops the running target, then `NewTarget` fails: Update returns the error with no target listening, though the spec says a failed update keeps the last good instance (gelf.go:76). |
| `spanmetrics` | `TypeOK`, `TemporalityRoundTrip`, `ConvertFailsOnlyOnHistogram` | Passes (about 4k states). Every checked field set to a bad, a boundary and a good value (and a temporality in the wrong case), reloaded any number of times. What Convert returns maps back to the same temporality, and Convert fails only in the histogram. |
| `config_reload_newest` | `NewestReadApplied` | **Violation.** An HTTP reload reads v0; the file moves to v3 (v1 does not parse, v2 is rejected); a SIGHUP reload loads v3; then the HTTP reload loads v0. Alloy now runs v0 although the newest read was v3. Each reload reads outside `loadMut`. |

Each property has a mutant: an operator next to the definition it replaces,
listed in `PROJECT.json`. Each mutant is a plausible bug, and TLC finds the
property violated under it:

- a dropped first-load check;
- a refresh signalled only once;
- a `Synchronize` that never stops anything;
- `done` closed before the final save;
- a missing `close(done)`;
- a worker pool counter that counts upstream nodes outside the round;
- an RLock that ignores a waiting writer, a Lock that ignores the reader, an Update that does not stop the old target;
- a `Validate` without its DELTA check;
- position-based label alignment;
- an unbuffered signal channel;
- a reload that drops `LoadSource`'s error, or ignores `ParseSources`' error;
- and others.

### Why the bounds suffice

**Controller.** The three blocks realise every kind of load:

- a valid load with an edge;
- a cycle (`b`, `c`);
- an unresolved reference (`b` without `a`);
- the empty load.

Three loads give a failed first load, a success, and a later change racing a pending refresh.

**Positions.** The bounds give:

- both branches of `cleanup`: a cursor, and a file that is gone;
- a `Put` between the copy and the write;
- a crash at every point of the protocol.

**Batch.** The bounds give:

- two names sharing and not sharing a timestamp;
- a label set that grows after ids were assigned;
- a reset between batches.

**Worker pool.** The diamond gives a node with two upstream nodes completed by different workers in either order, and two nodes ready at once for two workers. The independent `e` is ready from the start. The partial rounds `{b, d}` and `{d, e}` have upstream nodes outside the round, which the counter must not count.

**gelf.** Three Updates give an Update racing each `Run` step: a send in progress, a `Run` blocked behind a waiting writer, and a cancellation between stopping the old target and building the new one. A failed `NewTarget` is among them. Two receivers and three lists give a receiver that is removed and one that is added.

**spanmetrics.** Each checked field takes a value each check rejects (negative), the boundary (zero) and an accepted value, besides the default. The temporality is one of the two accepted names or a name in the wrong case.

**Reload.** The bounds give:

- a signal while another is buffered;
- a signal during a reload;
- an HTTP reload overlapping a SIGHUP reload, with versions that fail at each stage.

### Fairness and why the code justifies it

- **Controller.** `Run` is one goroutine in a `for`/`select`. Go chooses uniformly among ready cases, so a case ready infinitely often is eventually taken: strong fairness for each case, and weak fairness for the steps inside a case.
  - A reloader holding `loadMut` finishes, so `ApplyFinish` is weakly fair.
  - Reloads, exits, export changes and interrupts are the environment's choice and carry no fairness.
- **Positions.**
  - The run goroutine's save and cleanup steps and `<-done` are weakly fair.
  - The quit case is strongly fair, because the ticker keeps the other case ready.
  - Ticks are not forced.
- **Worker pool.** Pool workers loop until shutdown, so each worker's `Take` and `Complete` are weakly fair. Rounds are the controller's choice and carry no fairness.
- **gelf.** `RLock`, each send (receivers take what is sent to them), `RUnlock`, `Lock` once the lock is free, and the rest of `Update` are weakly fair. `Run`'s exit case is strongly fair, because its select picks uniformly and the other case may be ready forever. Entries arriving, Updates and cancellation are the environment's choice.
- **spanmetrics.** No liveness is claimed, so there is no fairness.
- **Reload.** Both goroutines' reload steps and the main loop steps are weakly fair, and its select cases strongly fair.

## 4. Proofs (TLAPS)

`AlloyRuntimeProofs` proves, for all constants that satisfy `RuntimeAssumption`
(node and service sets are disjoint, references are pairs of nodes, and
`MaxLoads` is a natural number):

- `TypeCorrect`: `Spec => []TypeOK`.
  - `TypeOK` is split into its Boolean part (proved with Zenon) and the rest (proved with SMT).
  - `NextBoolOK` and `NextDataOK` have one step per action.
- `FailClosedHolds`: `Spec => []FailClosed`.
  - `FailClosed` is not inductive on its own, because `loadFinished` or `runPc = "sync"` could start tasks.
  - The strengthening `FailClosedInv` says that before any clean load, the controller is not loaded, no refresh is buffered, `Run` is not about to synchronize, and nothing runs.
  - `IInv == TypeOK /\ FailClosedInv` was checked with TLC first.
  - The step proof goes action by action. The key case is `ApplyFinish` without a clean load: that can only be a failed first load, which changes nothing.

`WorkerPoolProofs` proves, for every graph, set of rounds and pool size
allowed by `PoolAssumption`:

- `CountsExactHolds`: `Spec => []CountsExact`.
  - `CountsExact` is not inductive: a `Complete` could decrement the counter of a node that is already queued, running or done.
  - The strengthening `IInv` says: completed, queued and running nodes are disjoint parts of the round; no two workers run the same node; every node that has been queued, is running or is done has all its upstream nodes in the round completed.
  - With those, `Complete(w)` decrements exactly the dependants still waiting, and a dependant whose counter was 1 has no other upstream node left. `CardRemove` and `CardZero` are the cardinality lemmas this needs.
- `Refinement`: `Spec => A!ASafe`, where `A` is `EvalOrder` under the mapping above. The initial state maps to `AInit`. `StartRound` maps to `AStartRound`. `Take` is a stutter. `Complete(w)` maps to `Evaluate(running[w])`, whose guard (the node's upstream nodes in the round are done) is a conjunct of `IInv`.

`PositionsProofs` proves `StopFlushesHolds`: `Spec => []StopFlushes`, for
every entry set, offset bound, configuration and crash bound
(`PositionsAssumption`). The invariant is in two parts:

- `Ctl`: `quit` is closed exactly when `Stop` was called; nothing is touched before; `done` is closed only after `quit` and with `run` exited; `Stop` returns only after `done`; the final save runs only after `quit`, in a live process.
- `Snap`: the snapshot `stopMem` agrees, outside the entries touched since, first with `p.positions` while the process is up, then with the copy the deferred save took, and once `done` is closed after a final write that succeeded with the file.

`StopFlushes` alone is not inductive, because it says nothing until `Stop`
returns. `Snap` carries the snapshot through the three places it lives in
turn. `MemStep` proves once, for `Put`, `Remove` and `cleanup`, that a change
limited to touched entries keeps `IInv`. The other actions have a lemma
each, split into the Boolean part (Zenon) and the map part (SMT).

`GelfProofs` proves, for every set of receivers, `forward_to` lists and
bound on Updates (`GelfAssumption`):

- `TypeCorrect`;
- `SingleListenerHolds`;
- `RemovedReceiverNotSentHolds`.

Their invariant `IInv` ties the lock to the program counters: the lock is
`read` exactly when `Run` is sending, and `write` exactly when `Update` holds
it. While `Run` sends, its slice is `c.receivers`. The running targets are at
most `c.target`, and none runs while `Update` is between stopping and
building.

`SpanMetricsProofs` proves `TypeCorrect`,
`TemporalityRoundTripHolds` and the action property
`ConvertFailsOnlyOnHistogramHolds` for all value sets
(`SpanMetricsAssumption`).
The invariant says `Validate` holds of the arguments from acceptance until
the next decode, and that the converted config copies them.
`ValidTemporality` is the lemma that an accepted temporality converts to one
of the two collector names.

`SpanMetrics`' `TypeOK` gives the converted temporality as one of three
explicit strings, not `STRING`: the provers cannot show that a string
literal is in `STRING`. The stronger `TypeOK` is checked by the
`spanmetrics` run. `IntFields` exposes the integer part of
`SpanMetricsAssumption`. The provers cannot show that a record field drawn
from `FlushValues \cup {60}` is an integer directly, so the field steps
first prove that every member of that set is one.

`AlloyRuntimeProofs` also proves `RefreshNotLostHolds`:
`Spec => []RefreshNotLost`. `RefreshNotLost` is inductive together with
`TypeOK`. The step proof has one case per action. The cases that matter are
these:

- `ApplyFinish` leaves a refresh buffered: a load after which the controller is loaded is not a failed first load (`FirstLoadFailed`). `LoadSource` cannot end in an idle apply.
- `RunLoadFinished` takes the snapshot.
- `RunSynchronize` hands the snapshot to the Scheduler.

`WorkerPoolProofs` also proves `TypeCorrect`, from its `IInv`.

`PositionsProofs` also proves `TypeCorrect`: `TypeOK` is inductive. It rests
on lemmas about the operators of the model:

- `PosMapIntro` and `PosMapElim` say what a positions map is: a function from a subset of the entries to offsets.
- `SetPosType` and `DropPosType` say that `Put`, `Remove` and `cleanup` keep that shape.
- `EmptyMapType` covers the empty map.
- `FileType` covers reading and writing the file.

`ConfigReloadProofs` proves, for every bound and every set of bad versions
(`ReloadAssumption`):

- `TypeCorrect`;
- `ParticipantLoadedHolds`: `Spec => []ParticipantLoaded`.

The `config_reload` run does not check `TypeOK`. The only way to break it
would be to drop one of the model's own bounds, which no bug in
`cmd_run.go` could do. The proof still needs it, as part of `IInv`.

The inductive invariant `IInv` adds three facts to `TypeOK` and
`ParticipantLoaded`:

- a running reload has read a version no newer than the file;
- a reload at `LoadSource` has a version that parsed;
- once the initial reload has returned without error, something is loaded. Only the main goroutine writes `err["main"]`, and the HTTP goroutine serves only after a load.

There is one lemma each for the reload closure, the main goroutine and the
environment.

Each inductive invariant was checked with TLC as an invariant of the
module's run before it was proved.

Left to TLC:

- Liveness (`RemovedEventuallyStopped`, `StopTerminates`, `SighupServed`, `UpdateReturns`, the liveness part of `EvalOrderSpec`): TLAPS does not handle fairness or ENABLED here.
- The `Batch` properties: its reader is RECURSIVE, and a module with a theorem may not use it.

## 5. Plan for the next sittings

1. Refine the abstract "drain the queue" step of `AlloyRuntime` by the worker pool, composing the two modules.
2. An abstract specification for the positions tracker: the file holds some earlier snapshot of the in-memory map, whether writes fail or not.
3. A model of the gelf target's `Stop` from its package, to decide the deadlock hazard (gelf.go:52).
4. A bound on what a crash loses in `Positions`, and the legacy-file migration.

## 6. Not modelled, and why

- **The gelf target.** Its package is outside `src/`. A target is a running/stopped flag whose reader may hand an entry to `Run`. Whether `Update` can deadlock (gelf.go:52) depends on whether `Stop` waits for that reader, so it stays a hazard without a property.
- **The otlphttp converter.** A field-by-field copy with no state and no checks.
- **Positions' legacy-file migration** (`ConvertLegacyPositionsFile`), a one-off step before `New`. `Init` already starts from any file content it could leave.
- **Module registry and nested controllers.** Modules are controllers with `IsModule = TRUE`, and the model is parameterised by `IsModule`.
- **Process bootstrap and services.** Flag parsing, services, clustering and usage reporting are bootstrapping that the spec excludes.
- **Object pools in `batch.go`.** Pooled objects are reset before reuse, except `pm.name` (a hazard in `PROJECT.json`).
- **Test files.**
