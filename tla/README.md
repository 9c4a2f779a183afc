# opbox: TLA+ models, checks and proofs

opbox keeps a directory of text files in step between several machines. Every
machine runs a daemon; the daemons meet only on a shared append-only log (an S2
stream). This directory holds TLA+ models of the daemon and of several daemons together, the TLC configurations
that check them on small instances, and TLAPS proofs. `PROJECT.json` maps every
definition to the lines it models.

    tlc -workers 4 -config OutboxPrompt.cfg MCOutboxPipeline    # one run
    tlapm OutboxDeliveryProofs.tla                              # one module of proofs

Proofs are in `OutboxPipelineProofs`, `OutboxFacts`, `OutboxDeliveryProofs`,
`LogIngestProofs`, `LifecycleProofs`, `CycleFacts`, `CycleProofs` and `ReplicaProofs`; each
is checked on its own, the longest (`CycleProofs` and `ReplicaProofs`) in some minutes.

Source paths below are relative to `src/crates/core/src/` unless they name a crate.

## 1. Inventory

A daemon is a set of actors (tokio tasks) with channels between them, one SQLite
database and one directory.

| component | state it keeps | operations | talks to |
|---|---|---|---|
| engine (`engine/actor.rs`) | phase (`EnginePhase`), pending scan scope, link states, timers, read/release flags, message buffer | one handler per branch of its select loop | all other actors; never touches database or disk itself |
| semantic actor and service (`semantic/`) | the database; in memory only the active import or projection epoch | ApplyScan, CommitImportAction/Epoch, GetNextWork, CommitProjectionAction/Epoch, ApplySharedMessageBatch, ReadStableCursor, Read/Release/TrimOutbox; one transaction each, in mailbox order | replies and two events, OutboxReady and ProjectionChanged |
| log writer (`log/writer.rs`) | session: next expected id, pending appends, upload in progress | Append, Reconnect; reports Connected, Disconnected, Durable | engine, S2 |
| log reader (`log/reader.rs`) | session: next sequence number | forwards records; Reconnect at a cursor | engine (bounded channel), S2 |
| filesystem actor (`fs/`) | temporary files only | scan, guarded read, guarded write, guarded delete | engine, the directory |
| watcher (`notify/`) | none that matters | sends scan hints | engine |
| text documents (`crdt/text_doc.rs`, over yrs) | CRDT operations | capture a text change, merge an update | called by the semantic service |
| namespace (`crdt/namespace.rs`) | CRDT map of paths to objects | merge, materialize paths, conflict paths | called by the semantic service |
| init and clone engines (`engine/init.rs`, `engine/clone.rs`) | one-shot phase machines | bootstrap a workspace or a checkout, then exit | the same actors |
| runtime (`app/runtime.rs`, `app/db.rs`) | tasks | start, clear scratch tables, stop everything on the first error | all |
| workspace, IPC and control (`app/workspace.rs`, `app/ipc.rs`, `app/control.rs`), CLI and daemon binary (`crates/client`, `crates/daemon`) | `.opbox/`: metadata directory, database, `daemon.lock`, `daemon.pid`, the socket and a link to it | init, clone, start, stop, status; taking the lock, publishing the pid, serving, closing | processes of one checkout, through these files and the socket |
| simulation harness (`src/sim/src/main.rs`) | in-memory directories, injected faults, a controller per workload | one `run_` function per workload, `wait_for_` checks | whole daemons over one in-memory log |
| record codec, encryption, configuration, spy | none | conversions, settings, a status stream | user, S2 |

What is in the database: `stable_*` (the merged state: log up to `stable_cursor`
plus committed local mutations), `prior_*` (what the daemon believes is on disk),
`outbox` (local mutations to publish, with an `inflight` mark), staged imports,
and the journal of projection writes.

What is hard:

* concurrency: the engine decides on answers that were computed earlier. A read of
  the outbox, an applied batch, a "no work" or a scan result may be stale when it
  arrives; links go down and come back in between;
* the user is a process without locks: files change between scan, guard, rename and
  verification;
* failure: the daemon can stop between any two transactions, and between a disk
  effect or a durable append and the transaction that records it;
* delivery: records of a dead session may land late, and the SDK retries;
* identity: two daemons name the same path at once, a file is renamed or saved through a
  temporary file, a path is used again after its file is gone;
* leftovers: lock, pid, socket and half-made databases of processes that died;
* limits: bounded reader channel and message buffer, batches, a writer that takes no
  request while it uploads.

What makes it correct, by component:

* outbox: nothing committed is lost; the log gets messages in commit order; the
  writer's and the database's contiguity assertions hold; every row leaves at last;
* ingest: every foreign record is applied exactly once and in order, the cursor tells
  the truth, and nothing gets stuck behind a full buffer;
* cycle: the user's edits are imported before they are overwritten, remote edits are
  never taken for removals, operation ids are never given out twice, prior describes
  the disk, the protocol between engine and semantic actor has no illegal step, and
  the disk converges to the stable state;
* namespace: the materialized tree is a function of the merged map, every object has
  one path, and conflicts are resolved alike everywhere;
* replicas: daemons that have sent and applied everything have the same state, and at rest
  their directories show the same files; no text is lost or doubled on the way;
* bootstrap: init and clone leave a database from which sync can start, or fail, and a
  clone harms no local file;
* lifecycle: at most one process works on a checkout, `daemon.pid` names the daemon that
  answers, leftovers keep nobody from starting, and a started daemon comes up or ends.

The hazards behind these properties are listed line by line in `PROJECT.json`.

## 2. Modules

**`OutboxDelivery`** is the abstract promise of the outbox: `Mint` the next id,
`Publish` a record whose predecessors are on the log, `Retire` a row that is on the
log.

**`OutboxPipeline`** is the code that keeps it. `rows`/`reserved`/`nextId` are the
outbox table, its `inflight` marks and `next_outbox_id`; `engine` is the engine's
writer link, its four read/release flags, the reconnect timer and its requests in the
semantic mailbox; `replies` are answers the engine has not polled (in any order, as
`FuturesUnordered` yields them); `writer`, `toWriter`, `fromWriter` are the writer's
session and channels; `log` and `late` are the stream and the records of dead sessions
that may still arrive. A message is its id. Each handler of the select loop and each
transaction is one action; `maybe_start_outbox_read` and its siblings are functions on
the engine record so that a handler's trailing calls are part of its action. S2 itself
is external: submitted records land in order, an SDK retry submits again what is not
acknowledged, and what a dead session submitted lands later, in order, or never.

**`OutboxInvariant`** states the inductive invariant `DeliveryInv`. The proofs are in
**`OutboxPipelineProofs`** (types and the shape of the table), **`OutboxFacts`** (lemmas
about mailboxes, channels, sessions and the log, without state) and
**`OutboxDeliveryProofs`** (one lemma per action, and the delivery theorems).

**`LogIngest`** is the way in: the reader's session and bounded channel, the engine's
buffer with its drain timer, the apply transaction (batch and cursor together or
nothing), and the reconnect that first asks for the stable cursor. A record is its
sequence number and whether this daemon wrote it (an echo, skipped); `applied` counts how
often each record has been applied. The module also states the inductive invariant
`IngestInv`; **`LogIngestProofs`** has the proofs.

**`SyncCycle`** is the scan/import/project cycle of a few files: engine phases
(`EnterBoundary`, `DrivePhase` and one action per response), the semantic transactions
with epochs, staged rows and write intents, and the filesystem actor one system call
at a time, against a user, remote edits, I/O errors and crashes. A text is a bag of
words and every edit types a new word; a CRDT document is the set of its insert and
delete operations with their (client, clock), which is what merging, diffing and
duplicate detection tell apart. `Capture` takes its clocks from the prior document
alone, as `capture_text_change` does; clocks have no bound of their own. `stat` changes with
every change of a file.

**`CycleInvariant`** states the inductive invariant `CycleInv` of the cycle, **`CycleFacts`**
has lemmas about documents, queues of results and the engine's functions, and
**`CycleProofs`** one lemma per action and the theorems.

Simplifications of `SyncCycle`: a path has one object (a path that reappears is
matched with its recent tombstone); objects that move, and two objects that claim one
path, are in `Replicas`. One filesystem request is in flight at a time, as in the code:
`FsClient` accepts a projection only when no other is in flight (`fs/client.rs`). The
order of words is left to yrs. The user adds words or deletes a file and starts it anew; such
an edit either keeps the old text whole or shares nothing with it, so the fallback of
`apply_string_diff`, which replaces a text that is hardly retained, does the same as the diff.

**`Namespace`** is the CRDT of paths: three grow-only sets (objects, claims, removed
claims), merge, the order of the claims of one path, conflict paths, and the tree derived
from them. Ids are ordered by creation, where the program draws them at random: one of the
possible outcomes. `Sorted` lists a set in a strict total order. **`TextDoc`** is the text CRDT
as operators, with texts as bags of words.

**`Replicas`** is several daemons over one log, each a record of its directory, its tables
and the state of its engine; the operations are operators on such records. Where `SyncCycle`
follows the actors of one daemon message by message, `Replicas` keeps a scan and the import
it leads to in one step and follows what `SyncCycle` leaves out: objects and claims, conflict
paths, safe saves and renames (a file key that turns up at another path), tombstones and
their reuse, ignored files (binary, too large, not readable), the temporary names of a
guarded write, projection epochs one write at a time, the write-intent journal, and links
that fail in one or both directions. What the file layer reports and what the simulation
injects into it is `faults`. What the code does in a loop is a fold with a name of its own
(`ReadAll` over the files to read, `CommitRows` over the staged rows, `UpsertIntents` and
`CommitActions` over the actions of an epoch), with the body of the loop as an operator.

Simplifications of `Replicas`: a sync daemon's message is trimmed in the step that appends it,
so records that land without being acknowledged, and the copies that follow, are only in
`OutboxPipeline`; the copies after an interrupted init are here too. A reader takes one record at a
time.

**`Bootstrap`** adds the one-shot engines: init (refusal when the tables are not empty,
import of the directory, drain of the outbox: messages appended one by one, trimmed when the
last is durable, so that a lost connection leaves any part of the batch on the log and all of it
in the outbox; `sent` counts what is on the log) and clone (the check of the directory, the pull
up to the tail, the guarded or clobbering projection), with their errors, and the sync daemon
that starts on what they leave. Init drains in one batch; the code's batches are of 1024.

**`SimWorkloads`** has one definition per `run_` function of the simulation harness, as parts
that hold the commands given to each daemon and the checks waited for; counts of files,
rounds and edits are cut to one or two. Eight definitions are histories the harness does not
have: init followed by clone, an init and a clone that are interrupted and repeated, a clone
that races with its user, a restart during a projection, the first round of
`orphaned_projection_write` alone, and two that the violation runs use. **`Simulation`** composes them with the daemons: a controller that gives commands
and checks, and every interleaving of it with the engines, readers and writers, where the
program tries one schedule per seed. `IsWorkload` says what any workload is: daemons that start
with empty tables on some finite directory, and parts that give them commands out of `Commands`.

**`ReplicaInvariant`** states the inductive invariant `SharedInv` of `Simulation`, and
**`ReplicaProofs`** proves it, with one lemma per operator of `Namespace`, `TextDoc`, `Replicas`
and `Bootstrap` that changes a daemon.

**`Lifecycle`** is the processes of one checkout. Every system call on a file of `.opbox` is a
step; a process may die before any of them. Clients run init, clone, start, stop or status;
start spawns a daemon, which takes the lock (`DaemonLock::acquire`, the stale-lock removal
included), publishes its pid, loads, and then has two tasks that interleave freely: the main
task (`pc`), which waits for a reason to stop and gives back pid file and lock, and the control
task (`ctl`), which removes the old socket, binds, replaces the link and serves. As in the code,
the control task has no await before its select loop, so cancelling and aborting it does nothing
until then, the main task does not wait for it, and only the end of the runtime does: it may
bind and link when the lock is already another daemon's. `late` is history: the daemons whose
control tasks were in that section when this one took the lock. Builds may match or differ, which decides between a request and a signal in stop. Process ids
are not used again. `Orderly` says that a command starts only when no other command runs and
no daemon is still acquiring the lock. The module ends with its inductive invariant
`LifecycleInv`; **`LifecycleProofs`** has the proofs. The database's own exclusive lock is left
out, of start (which opens the database before it spawns) as of the daemon: the model lets
processes go on that the program would stop there, and its theorems do not rest on that lock.

`MC*` modules only instantiate these for TLC. Operators marked "Mutant" are wrong
variants of the definition below them, kept to show that each property can fail.

## 3. Runs

| run | checks | expected |
|---|---|---|
| `OutboxPrompt` | `TypeOK`, `NothingLost`, `LogInOrder`, `WriterSeesContiguousIds`, `DeliveryInv`, refinement `DeliverySpec` | pass, 0.7 M states |
| `OutboxAnyTiming` | `ReservationsArePrefix`, `EventuallyTrimmed` | pass, 0.2 M |
| `OutboxSlowReadLoss` | `NothingLost` | violated |
| `Ingest` | `TypeOK`, `PromptBatchesFit`, `StatusFollowsCursor`, `AppliedExactlyOnce`, `IngestInv`, `EventuallyApplied` | pass, 0.1 M |
| `IngestSlowApply` | `BatchesFit` | violated |
| `CycleSafety` | `TypeOK`, `NoProtocolPanic`, `IdleIsQuiet`, `PriorIsHonest`, `OpIdsUnique`, `NoUserEditLost`, `NoSpuriousRemoval` | pass, 1.6 M |
| `CycleConverges` | `CycleInv`, `Converges` | pass, 0.7 M |
| `Workloads` | `SameLogSameState`, `TypedIsKept`, `MarkersOnce`, `QuietDisksAgree`, `OneFilePerObject`, `PriorBehindStable`, `BootstrapIsComplete`, `SharedInv`, `CloneKeepsLocalFiles`, `Completes` | pass, 0.3 M |
| `RenameReuse` | `QuietDisksAgree` | violated |
| `IgnoredBlocks` | `Completes` | violated |
| `OrphanEcho` | `MarkersOnce` | violated |
| `Lifecycle` | `OneWriter`, `PidNamesDaemon`, `StartsCleanly`, `LifecycleInv`, `StartSettles` | pass, 0.1 M |

**Two timing regimes.** The engine's reconnect timer is 5 s; a semantic transaction
normally takes milliseconds. `PromptReads` (a constant of the outbox) and `prompt` (a
variable of the ingest, chosen in the initial state among `Timings`) state exactly this: the
timer does not fire while the answer in question is outstanding. With it the pipelines are
safe. Without it (a database locked for seconds, a suspended machine) two runs show what
breaks:

* `OutboxSlowReadLoss`: a `ReadOutbox` answer from before a disconnect arrives when the link
  is online again. The engine sends its rows, say 2 and 3, into the new session although they
  were released; the release frees 0 .. 3 and the next read reserves 0, 1 again. The
  acknowledgement of 2 trims every reserved row up to 2, which deletes 0 and 1: committed
  mutations that are neither in the outbox nor on the log. With a single batch the rows are
  sent twice and the writer's `assert_eq!` on consecutive ids fails; `WriterNeverPanics` below
  is therefore proved under the same assumption. Both are reached, too, when the engine polls
  answers strictly in the order they were given; the model lets it take them in any order.
* `IngestSlowApply`: the reader is restarted at the stable cursor while a batch is in
  flight and later messages are buffered; these are read twice, the next batch is
  refused ("unexpected batch") and the daemon stops. It recovers at restart: `Ingest` shows,
  for both timings, that nothing is applied twice or lost.

**The workloads.** `Workloads` runs every workload of the harness but two on all schedules:
`wrong_cipher_clone` is not modelled and `orphaned_projection_write` is in `OrphanEcho`.
`Completes` is the harness's own criterion, that each `wait_for_` is reached; the invariants
hold at every state on the way and not only at the end. One workload of the harness and two
histories next to it fail:

* `RenameReuse`: a file is renamed and a new file takes its old name. The scan finds a recent
  tombstone of that path and continues its object whatever the file key, so one object has two
  claims; the directories of two daemons then differ at rest. `docs/design-notes.md:29` says
  that such a path is a new file.
* `IgnoredBlocks`: a remote file whose path holds an ignored binary. The projection is planned
  against "no file", the guard finds one, the conflict drops the rest of the plan and asks for
  a scan, the scan skips the binary, and the same plan is made again, for ever. Files planned
  after it never arrive. The harness says that a binary must not lead to an endless retry
  (`src/sim/src/main.rs:1283`).
* `OrphanEcho`: the harness's `orphaned_projection_write`, with two of its four rounds. In every
  round B edits all files and A edits while the burst arrives; no round waits for the one before
  to converge. A's projection of the first burst is aborted after some of its writes, and before
  the scan the second burst is merged. The journal recognizes a write only while the stable
  document is the one that was written, so A imports its own write and the text is doubled
  everywhere, which is what the harness tests for (`marker_count_violations`,
  `src/sim/src/main.rs:2829`). The harness pauses 0.4 s between rounds, which makes the schedule
  unlikely there; the model leaves no schedule out. One round alone (`OrphanedFirstRound`)
  passes in `Workloads`: without a newer edit the journal does its work.

**One writer.** `Lifecycle` passes for orderly commands, with deaths anywhere. Without `Orderly`
`OneWriter` and `PidNamesDaemon` fail in the model: init and clone take no `DaemonLock`, and of two
overlapping starts one may find the lock file of the other between `create_new` and the write of
the pid, take it for stale and remove it, so that both hold the lock. That is not yet two writers
of one checkout in the program: a process that works on the database has it locked exclusively
(`app/ipc.rs:60-62`, `crates/client/src/main.rs:723-725`), and the second one fails when it opens it. The
model, which has no such lock, shows what the lock file alone gives: exclusion for commands that
do not overlap. That a running daemon can always be reached is not claimed.

**Late control tasks.** A daemon may be told to stop while its control task makes the socket. The
task cannot be aborted there and nobody waits for it, so its bind or link can come when the lock
is the next daemon's, which then ends with an error although nothing of a dead process is in its
way. `StartsCleanly` says that this is the only way: a daemon fails over a socket or a link only
if such a task was under way when it took the lock (`late`). `StartSettles` holds with it: the
daemon that fails ends, and the next start finds the way free.

**The swap race.** The code checks a file, then renames over it; an edit between the two
is lost and noticed only afterwards, which the documentation concedes. `CycleSafety`
excludes this one race (`QuietSwap`); `CycleConverges` includes it (`CycleInv` has been checked
on the larger instance of `CycleSafety` as well, where it takes too long for a regular run). Only `NoUserEditLost`
needs the exclusion: the other theorems about the cycle are proved with and without it.

**Bounds and why they are enough.** Outbox: three ids with batches of two and at most two
commits per transaction give full and partial batches, a batch that ends in the middle of
a commit, one large message, and two faults allow a disconnect followed by a crash or a
second disconnect. Ingest: four records with channel and buffer of two fill both; three
faults. Cycle: two paths (one that exists, one to be created), two words, one hint, one
delete, two faults: a crash after a conflict, or two crashes in one projection. Workloads: one or two files, rounds and edits where the
harness has up to dozens; each workload's conflict, fault or partition still happens, since
it needs one or two of each and the schedules supply the rest. Lifecycle: six processes, enough
for a bootstrap, two starts with their daemons and a stop, with leftovers of each and a late
control task. The outbox, ingest and lifecycle runs switch
deadlock checking off because those systems do come to rest when nothing is left to publish or
no process is left; the cycle never does (the full-scan timer) and a workload must not before it
is finished, and deadlock is checked there.

**Fairness.** The actors are tasks whose select loops poll every ready branch, so each of
their steps is weakly fair: per action in the pipelines, where S2 is also taken to answer
while a session lives, and for the daemon as a whole in the cycle, where at most one thing
can happen next apart from scans of different paths. A stopped daemon is started again. In
`Workloads` even less is assumed (`Progress`): some step that changes the state is taken until
the workload has ended, no task in particular is promised a turn, and every workload still
completes. `IgnoredBlocks` is under weak fairness of every engine, reader, writer and command
(`Fairness`), so that its endless loop is not a task that was never run; `EngineReady` is
`ENABLED` of the engine written out, which TLC evaluates too slowly. In `Lifecycle` some
daemon takes a step as long as one can; that each of them gets its turn is not needed.
Nothing is assumed of the user, of remote daemons, of hints, of faults or of late records;
the finite fault bound stands for "faults stop".

## 4. Proofs

The runs show each component on a small instance; the theorems hold for every value of the
constants: any number of ids, records, paths, edits, processes, faults and crashes, every
batch size and capacity. They rest on the named assumptions that the modules make about
their constants (each is of its kind; batches, capacities and numbers of paths are not
zero), which TLC evaluates in the runs.

| theorem | says | needs |
|---|---|---|
| `TypeAndShape` | `Spec => [](TypeOK /\ ShapeInv)` (outbox) | nothing more |
| `ReservationSafety` | `Spec => []ReservationsArePrefix` | nothing more |
| `DeliveryInvariant` | `Spec => []DeliveryInv` | `PromptReads` |
| `OutboxLosesNothing` | `Spec => []NothingLost` | `PromptReads` |
| `LogKeepsOrder` | `Spec => []LogInOrder` | `PromptReads` |
| `WriterNeverPanics` | `Spec => []WriterSeesContiguousIds` | `PromptReads` |
| `PipelineDelivers` | `Spec => DeliverySpec` (refinement, safety) | `PromptReads` |
| `IngestInvariant` | `Spec => [](TypeOK /\ IngestInv)` | nothing more |
| `IngestTypes` | `Spec => []TypeOK` (ingest) | nothing more |
| `IngestAppliesOnce` | `Spec => []AppliedExactlyOnce` | nothing more |
| `IngestStatus` | `Spec => []StatusFollowsCursor` | nothing more |
| `IngestBatchesFit` | `Spec => []PromptBatchesFit` | the property itself assumes `prompt` |
| `LifecycleInvariant` | `Spec => []LifecycleInv` | `Orderly` |
| `LockExcludes` | `Spec => []OneWriter` | `Orderly` |
| `PidFileNames` | `Spec => []PidNamesDaemon` | `Orderly` |
| `ServesCleanly` | `Spec => []StartsCleanly` | `Orderly` |
| `CycleHolds` | `Spec => [](Types /\ CycleInv)` | nothing more |
| `CycleTypes` | `Spec => []TypeOK` (cycle) | nothing more |
| `CycleProtocol` | `Spec => []NoProtocolPanic` | nothing more |
| `CycleQuiet` | `Spec => []IdleIsQuiet` | nothing more |
| `CycleHonest` | `Spec => []PriorIsHonest` | nothing more |
| `CycleIds` | `Spec => []OpIdsUnique` | nothing more |
| `CycleRemoves` | `Spec => []NoSpuriousRemoval` | nothing more |
| `CycleKeepsEdits` | `Spec => []NoUserEditLost` | `QuietSwap` |
| `SharedInvariant` | `Spec => []SharedInv` (several daemons) | nothing more |
| `PriorBehind` | `Spec => []PriorBehindStable` | nothing more |
| `SameLog` | `Spec => []SameLogSameState` | nothing more |

None of the assumptions in the last column can be dropped. `OutboxSlowReadLoss` is the counterexample for
`PromptReads`, `IngestSlowApply` the one for `prompt`; section 3 says what overlapping commands
do without `Orderly` and an edit between guard and rename without `QuietSwap`. The delivery
proof uses `PromptReads` in one place, the reconnect timer (`WriterReconnectTimerDelivery`),
and from there it is carried by one conjunct of `Requested`: a link that is reconnecting has no
read in flight.

**The table.** `ReservationsArePrefix` is not inductive: it does not say that a trim
removes a prefix of what is reserved, or that the next commit continues the table.
`ShapeInv` does: the rows are an interval `lo .. nextId - 1` and the reserved ones are
`lo .. mid - 1`. A read moves `mid` up, a trim moves `lo` up to at most `mid`, a release and
a restart set `mid` to `lo`, a commit moves `nextId`.

**Delivery.** A trim deletes reserved rows up to an acknowledged id, so nothing is lost only
if every id below `lo` is on the log and every acknowledgement vouches for all ids up to its
own. `DeliveryInv` says why it does:

* `SessionInv`, `LateInv`: what a session has submitted is a run of successive ids that
  starts where the log has no gap, and so is what a dead session left behind; a record that
  lands, late or not, therefore repeats or continues the log (`LogInOrder`);
* `AckInv`: every acknowledgement and every trim under way has all ids up to its own on the
  log;
* `TableInv`: every id below `lo` is on the log, and in a session the engine knows of, what
  the writer has taken, what is in its channel and what is in a read answer form one chain of
  successive ids that ends at the reservation frontier `mid` (`Chain`, `SentUpTo`);
* `RequestInv`: one read and one release at a time, no read behind a release in the mailbox,
  and nothing reserved when the link is down and no release is under way. This is where the
  four flags of the engine are right or wrong;
* `LinkInv`: how far the engine's idea of the link and the writer's state may differ;
* `BoundsInv`: only ids that were minted travel.

Each action has a lemma; each part that the action touches is a step of it. The parts are
predicates of the records and sequences they are about, so most steps cite a fact of
`OutboxFacts`.

**Ingest.** That a record is applied exactly once needs little: the transaction moves cursor
and stable state together and refuses a batch that does not start at the cursor. It needs more
to see that the status cursor is right and that nothing is refused. `BatchInv`: of a batch in
flight there is one request or one reply, and the reply tells what the transaction did.
`RunInv`: from the stable cursor, through the batch, the buffer and the reader's channel, the
sequence numbers form one unbroken run that the reader's session continues. `SessionInv`: the
cursor is asked for only when the session it replaces is over and nothing is left to apply;
this is where a reconnect during a transaction breaks the run, so `RunInv` and `SessionInv` are
claimed for prompt transactions only. `StockInv` ties the drain timer to a buffer that is not
empty.

**Lifecycle.** `OneWriter` says nothing of the moments at which a process is about to remove,
stamp or release the lock. `LockInv` does: who holds the lock is in the file, and whoever is
about to remove it as stale, or cleans up after a daemon it has stopped, finds nobody holding
it. `CommandInv` says that at most one command and one acquiring daemon exist, and that the
daemon is the command's child: the content of `Orderly`, carried through all later steps.
`DatabaseInv` keeps daemons and bootstraps apart, `FilesInv` says that the pid file is the
holder's, and socket and link what it has made of them unless a late control task came in
between: whoever is still making a socket while another daemon has the lock is in that daemon's
`late`, at its bind there is no socket or one of those daemons', and at its link there is no link
or there are such daemons. Socket and link of all others were removed by its own control task.

**The cycle.** `CycleInv` has these parts:

* `ProtocolInv`, one conjunct per phase: what may be in the filesystem, in the queue to the
  semantic actor, in the replies and in the epoch. While an epoch is worked on, its actions are
  split without overlap into those done, those in the queue, the one in the filesystem and those
  to come (`Working`); a queue that ends with a commit holds all that is owed, unless the plan
  was dropped (`Committing`). `NoProtocolPanic` and the bound on the queue follow;
* `DocInv`: `OpIdsUnique`, and that this daemon's insertions of a word are numbered without a
  gap in every document (`WellFormed`), in stable, prior, rows, targets and intents alike. A row
  is prior with own operations; a projection's target lies between prior and stable. Then the
  clocks that an import takes from prior are new in stable as well;
* `HonestInv`: what a table or a message says of a file was true when its stat was taken, and
  stats are never used again, so it is true of any file that still has that stat (`Seen`). What
  such a text holds and the file no longer does was in a file that was removed (`Covered`). This
  holds for prior, staged rows, reads under way, results in the queue, the stats a projection
  expects and, as long as no action has failed, the results it has collected (`ResultInv`): the
  reason why an exhausted plan may become prior and an invalidated one may not;
* `WordsInv`: words typed here and words from the log are different, and under `QuietSwap` a
  file whose guard has been passed is still the expected one, so a swap replaces only text that
  prior, and therefore stable, has;
* `QuietInv`: a "no work" in the replies is still true, or the engine is dirty, or a change is on
  its way.

`CaptureExact` and `CaptureRemoves` are the facts about documents: prior and the captured
operations together have exactly the text of the file, and what is removed is what the file has
less of. Each of the 29 actions has a lemma that proves each part it can disturb.

**Several daemons.** The constant of `Simulation` is the set of workloads. The theorems are about
every such set under `ScriptsAssumption`, which says that each is a workload (`IsWorkload`):
any finite directories to start from, any number of parts and any commands of the controller in
any order, on every schedule, with every injected fault, partition, restart and bootstrap. The
three for which other properties fail are among them. The number of daemons is that of the
workload.

`SameLogSameState` says something only of daemons that have caught up, and is not inductive.
`SharedInv` says what the tables are on the way there:

* a daemon *knows* a message when it applied it (it is below the cursor) or wrote it itself (in the
  log or still in the outbox). `Reflects`: the stable namespace and documents are exactly the union
  of what the known messages say, so they depend on the set of these messages and not on the
  order in which own and foreign ones were merged. For this every local change of stable must
  send what it changed, and a skipped echo must have been applied when it was written;
* `TablesOK`: the tree is the materialization of the namespace at all times, so that equal
  namespaces have equal trees. A step that changes the namespace without deriving the tree again
  breaks it;
* `WordsOK`: an operation has the word of the first message in log order that inserts it. That ids
  are never used twice is proved for one daemon in `SyncCycle` (`CycleIds`); here the argument
  does not need it, since a daemon appends its own messages in the order in which it applied
  them, and messages of different daemons have different client ids (`IsMessage`);
* `PriorOK`, `EpochOK`: prior, the namespace and the documents of an epoch under way and of its
  finished actions are parts of stable. Stable only grows, so an epoch that was planned before
  other messages arrived still leaves prior behind stable when it commits;
* `SentOK`: what an init under way has appended and not trimmed is on the log, so that the append
  of the next message, or of a copy after a restart, is still the append of a message its author
  has applied. A copy adds nothing to the set of known messages and is never the first to insert
  an operation.

`Reflects` leaves open whether an object of which no text message is known has a document: such
a document is empty, and the operators read a missing one as empty (`Lookup`), so
`SameLogSameState` compares documents that way.

With empty outboxes and both cursors at the end of the log two daemons know the same messages,
and `SameTables` concludes that their tables are equal. The lemmas about loops are inductions
along the fold: `ReadFold`, `RowFold`, `ActionFold` and `LoserFold` give one step of it, and `UpTo`,
the induction principle for a set of indices, puts the steps together; it follows from the
existence of a least element (`WFMin`) and needs no operator parameter.

**Only model-checked.**

* Liveness (`EventuallyTrimmed`, `EventuallyApplied`, `Converges`, `Completes`, `StartSettles`) and
  `ENABLED` are out of this prover's reach. So are the induction theorems of the library that take
  an operator as parameter, and recursive definitions over data; the folds above are the
  exception, because what is shown of them can be said of a set of indices.
* `MarkersOnce` and `QuietDisksAgree` do not hold for every workload: `OrphanEcho` and
  `RenameReuse` are counterexamples. They are claims about the histories of `Workloads`, which a
  theorem about all workloads cannot make. In a cycle of one daemon, `PriorIsHonest` says that prior
  does not advance for writes that did not happen; that completed writes do not come back as
  edits is `MarkersOnce` and nothing else.
* `OneFilePerObject` fails along with them: in `RenameThenReuse` one object has two claims.
* `TypedIsKept` relates the words to the workload's own script (what a user deletes or
  replaces is not kept), and needs the race-free part of `CycleKeepsEdits` for every file
  operation of `Replicas`; a theorem exists for the cycle of one daemon only.
* `BootstrapIsComplete` depends on the script as well, for example on whether a checkout is cloned
  again while it still has messages to send.
* `CloneKeepsLocalFiles` likewise: a clone of a directory that a sync daemon has worked on, or
  with injected faults in the guarded write, is outside of what it claims.

## 5. Not modelled

* the order of characters within a text, and yrs itself: external;
* directories and the rules of `.opboxignore`: they change which paths take part and not how;
* tombstones older than the five minutes in which they may be reused; retries of a database
  transaction; a commit that waits for staged actions is one step with them;
* record codec, encryption, migrations, configuration, credentials, share tokens, the spy,
  the Windows variant of the socket: formats and settings with no protocol of their own;
* the exclusive lock of the database engine, and errors of `accept` in the control server, which end
  it like a failed bind;
* in the simulation: the workload `wrong_cipher_clone` (it is about encryption), the injected
  failure of a cleanup, and the meta, parallel and sweep runners, which choose seeds;
* byte limits are numbers of messages; the multipart upload is one step that keeps the
  writer from taking requests;
* a change of a file that keeps size, mtime and file key: `stat` changes with every change.

## 6. Plan

1. Proofs: `OneFilePerObject` for workloads that never reuse a renamed path, and
   `TypedIsKept` for those without injected faults.
2. A run on hints that keep arriving: does a projection still happen.
3. The writer's multipart upload by parts, and the reader that puts them together.
4. The semantic actor's deferred commits, and transaction retries.
