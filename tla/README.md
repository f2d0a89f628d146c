# NetbaDB: TLA+ models, model checks and proofs

NetbaDB is an embedded database engine in Rust with several independent
storages (heap tables, LSM tables), each with its own write-ahead log, and a
server around it. This directory models what makes them one database that
survives failures: the commit protocols and their durable log, the recovery and
multi-version reads of the heap, the LSM tree, change streams and columnar
projections, and the threads of the server.

Paths are relative to the repository root; `PROJECT.json` maps every definition
to the lines it models, and lists the hazards each property is about.

## 1. The system

| Part | Source | Module |
|---|---|---|
| Transaction coordinator | `netbadb-core/src/transaction.rs`, `lib.rs` | `GlobalCommit` |
| Coordinator log (NBCO) | `netbadb-core/src/coordinator_log.rs` | `DecisionLog`, `CoordinatorLog` |
| Explicit group commit | `lib.rs` 2810–3536, both `transaction.rs` | `GroupCommit` |
| Heap WAL, buffer pool, recovery | `netbadb-heap/src/wal.rs`, `buffer.rs`, `recovery.rs` | `HeapRecovery` |
| Heap row versions, views, vacuum | `mvcc.rs`, `txn_status.rs`, `heap.rs` | `HeapMvcc` |
| LSM storage | `netbadb-lsm/src/engine.rs` | `LsmStorage` |
| Change streams | `netbadb-change-stream/src/lib.rs` | `ChangeHistory`, `ChangeStream` |
| Columnar projections | `netbadb-columnar`, `columnar.rs`, `projection_catalog.rs` | `Projections` |
| Server threads and sessions | `netbadb-server/src/runtime.rs`, `adaptive_driver.rs` | `ServerRuntime` |

The engine is synchronous and single-threaded: a call runs to its return, so
interleavings are between *calls* of different transactions, and between the
*steps* of one call and failures. Every write or sync can fail, which ends the
call with an error and leaves the transaction in a state from which it may be
retried, rolled back or dropped, while other transactions go on. The process
can die between any two steps. Only the server has threads.

A commit that writes runs: prepare every participant in storage order (durable
Prepare in each WAL); append and sync one Decision in the coordinator log,
which numbers the transaction G; commit the participants one by one; append
Complete, whose sync is deferred; publish G with a vector of storage boundaries.
Recovery reads the log, validates it against the WALs of all storages, resolves
prepared participants, completes every decision and publishes. A group does the
same for several transactions with one prepare barrier and one record. Each
storage contributes its own WAL, versions and change batches; projections follow
the change batches; the server feeds all of it through one worker thread.

What a power loss keeps, in every module: the synced part of a file and any
prefix of what was written after; either side of a rename whose directory is not
yet synced. Pages are written whole. The end of the process alone keeps
everything that was written; `LsmStorage` and `Projections` tell the two apart.

## 2. Modules

`MC*` modules add symmetry sets and constant values for TLC and nothing else.
`*Proofs`, `*Invariant` and `*Ends` hold proofs (section 4).

**DecisionLog** says what the coordinator log promises: `seqOf[t]` the commit
sequence in t's decision record (0: none), `last` the last one given out,
`stable` the durable prefix, `completed` and `stableC` the Completes in the file
and the durable ones, `pending` the code's `pending_complete_checkpoints`,
`authority` whether the file handle is held. Each method has one action per way
it can return: `DecideOk`, `DecideUnsynced` (appended, sync failed),
`DecideFailed` (nothing appended, the handle possibly given up), and likewise for
defer, complete, flush and the group decision. Its operators are the log actions
of `GlobalCommit` and `GroupCommit`.

**CoordinatorLog** is the log itself: records, append failure and truncation,
sync, scan, Complete repair, and `compact` taken apart into its durable steps
(write the replacement, sync, release the old handle, rename, directory sync,
reopen) with a failure or a crash between any two. It is checked to implement
`DecisionLog` (`ImplementsDecisionLog`).

**GlobalCommit**: `state[t]` is the handle's `TransactionState` ("Dropped": no
handle), `wset[t]` its `write_participants`, `part[t][s]` the storage-level
state, `wal[t][s]` the strongest record that became durable, `recycled[s]` the
committed transactions whose records the WAL of s no longer holds, `writer`,
`blocked`, `poisoned` the lease, `RecoveryRequired` and a failed status file,
`snap` the published snapshot, `caller` the running call, `reply[t]` what the
client was told. `commit_multi_write` is one action per step (`StartCommit`,
`PrepareOk`/`Fails`, `DecisionOk`/`Fails`, `ApplyOk`/`Fails`, `FinishOk`/`Fails`);
rollback, dropping and opening likewise. In global-visibility mode a transaction
that wrote one storage takes the same path (`transaction.rs:484`). `flush`,
`checkpoint` and `compact` may run between any two calls, fail after some of the
storages, or die there (`MaintenanceCrash`), and a write to an LSM may flush its
memtable. Between the steps of one call nothing but a crash happens (`Running`),
between calls anything can (`Quiet`). `CommitDecided` and `ApplyingCommit` are one
state, since no failure separates them; a rollback's `Abort` and
`RollbackComplete` count as one record, because an incomplete rollback of an
undecided transaction is aborted again by recovery. A write is the enlistment of
a storage. `MissingParticipant` and `Contradicts` are the errors of
`validate_coordinator_recovery`.

**GroupCommit**: `group`, `prepare`, `finalize`, `barrier`, `durable`,
`authoritative`, `sequences`, `resolving` are fields of `GroupCommitBatch`, both
modes being chosen when a group begins or its first member parks; `chain[s]` is the
storage's parked deque; `call`, `pos` the running call and the member it is at.
Recovery is one step here, having been taken apart in `GlobalCommit`. The
storages are heaps; the LSM side of a group is in `LsmStorage`. Three constants choose what surrounds a group: `Readers` the
storages where other transactions read and commit meanwhile, `StatusFaults`
whether the status file can fail in a batch, and `LateAbort` whether a caller
aborts a group although the record of its decision may have been written.
`LateAbort` is FALSE in `group` and TRUE in `group_late_abort`: the documents
forbid such a call, and the code accepts it (section 3).

**HeapRecovery**: the WAL with its two generation files, the dirty frames, the
data file as the process sees it (`file`) and as a power loss may leave it
(`maybe`), transactions with their undo position, the parked group, the status
file. A page is named by the record that wrote it. Recovery is a sequence of
steps (analysis with the coordinator's decisions, redo, undo, completion), each
of which a crash can end, and a crash inside completion keeps any prefix of its
records.

**HeapMvcc**: tuple headers, `live` versions, index `entries`, transaction
statuses, `pins` and open `views`, the writer lease with the page images its
rollback restores. History variables hold what was committed at each sequence
(`committed`), the writer's own rows (`pend`), where a Repeatable Read
transaction read first (`first`), and the versions whose committed `xmax` a later
write has overwritten (`restamped`). `global` is whether snapshots are published
by the coordinator; then `published` can lag behind an applied commit.

**LsmStorage**: WAL generations, memtable, SSTables, the manifest and those a
power failure may leave, sequence reservations, transaction handles with prepare
and group parking, flush and compaction as steps that can fail one by one.

**ChangeStream**: Prepared records, Finalize markers, the header, the rewrite by
garbage collection and the guard file, beside the transactions that feed the log,
alone or in groups. A crash gives the identifiers of transactions whose Begin was
lost out again (`stray` are the records they left), and a rewrite that fails after
its rename leaves the process with a file the directory may not name (`named`,
`lost`). It is checked to implement **ChangeHistory**, a numbered append-only
history per generation.

**Projections**: the catalog, build intents, manifests, segment and delta files,
the registry, attachment at open, and change-history retention, for calls that
build, advance, compact, refresh, attach and drop, each taken apart into its
durable steps, each of which can fail or be the last. `man[l]` and `disk` are the
contents since the last directory sync: the end of the process keeps the newest,
a power failure any of them. `parted` (history) are the projections whose
registry entry, catalog entry and manifest may disagree, because a call failed
behind the manifest's rename or removal or in recording its generation, or
because an open took up a manifest that was not synced.

**ServerRuntime**: worker, listener, connection threads, operator listener and
the owner of the `ServerHandle`, the command queue and every reply channel. A
request is what it does to its session's transaction: nothing, open it, end it,
or leave it decided and unfinished. Panics, fatal errors and dropped handles are
faults.

## 3. Runs

| Run | Instance | Distinct states | Shows |
|---|---|---|---|
| `commit` | 2 txns (one structural), a heap and an LSM storage, 2 faults, 2 crashes | 326,401 | atomicity, the commit point, acknowledged outcomes, why an open can be refused, snapshots show what is settled and only grow, sequences stay, an open gives decisions their effect |
| `log` | 2 txns, 2 faults, 2 crashes | 20,234 | every crash leaves a file that scans, the checkpoint spares unresolved decisions, `DecisionLog` is implemented |
| `group` | 2 members, 2 storages, both prepare and finalization modes, readers on one storage, failing status file, 2 faults, 1 crash | 429,880 | the group record governs, groups are not split or shown in part, reports are final, why an open can be refused |
| `stream` | 3 txns, 2 generations, 2 faults or crashes | 1,304,290 | readers see the committed history, reopening keeps it, `ChangeHistory` is implemented |
| `heap` | 2 txns, 2 pages, 6 records, 1 checkpoint, 1 fault, 2 crashes | 1,232,254 | recovered pages are those of committed transactions, reported commits survive, why recovery can refuse, writers are known, the WAL goes first |
| `mvcc` | 3 row versions, 2 views, 4 txns, both isolation levels, with and without published snapshots | 470,409 | a view shows exactly the rows of its sequence, keeps them, indexes agree, Repeatable Read repeats |
| `lsm` | 2 keys, 3 txns, 4 tables, 3 WAL generations, 2 levels, 1 fault | 595,554 | reads are exact, prepared transactions survive, open accepts |
| `projections` | 2 locations, 2 ids, 2 data versions, 1 fault, 2 crashes, 4 units of work | 1,283,284 | what a projection shows is exact, history it needs is kept, acknowledged projections open, build intents resolve |
| `server` | 2 sessions, 2 connections, 1 fault, 2 units of work | 112,998 | no session is orphaned, the queue is bounded, the result is true, the server stops, a disconnect resolves its transaction; no deadlock |

Three runs are expected to violate their property, and show where the code departs
from its documents (`findings` in `PROJECT.json` quotes them):

| Run | Property | What happens |
|---|---|---|
| `torn_snapshot` | `SnapshotUntorn` | the retry of A publishes the boundary of a storage in which B, decided later, has committed, and not that of the other storage B wrote |
| `recovery_refused` | `RecoveryNeverRefuses` | a commit is acknowledged with its Complete deferred, a flush or checkpoint starts a new WAL in a storage it wrote, the process ends before the Complete is written: the next open finds a decision whose participant is in no WAL, and refuses |
| `group_late_abort` | `NoRollbackOnceDecided` | `abort_group` is accepted after a group record whose sync failed; when the record survives, the next open is refused |

### Where a property has an exception

Some passing properties say what the code guarantees *and* name the one case in
which it does not. The case is a behaviour of the code, it is a step of the
specification in the run itself, and it was checked to be reachable there: the
property without its exception is violated.

| Property | Exception | Behaviour of the code |
|---|---|---|
| `RefusalIsRecycling` (`commit`, `group`) | a decision without a durable Complete whose committed participant has left its WAL | `flush` (`lib.rs:3637`), `checkpoint`, `compact` and an LSM memtable flush recycle WALs before the deferred Completes are written; `flush`, which would write them, is rejected while a group is active |
| `PagesAreCommitted` | `Parted`: a crash kept the completion record of a loser and not that of a younger loser on the same page | `recovery.rs:586` appends the records of all losers before one sync; the next recovery puts back the younger one's before image, which is the older loser's page. `docs/architecture.md:3338-3345` says the undo is repeatable, `docs/crash-consistency-audit.md:31` that repeated recovery skips completed undo |
| `RefusalIsGroupGrowth` | `BuiltOn`: two rolled back members of a group, one having written at or past a page the other added | redo accepts a page past the end of the file only from the transaction that allocated it (`recovery.rs:930`) |
| `HistoryExact`, `ReopenKeepsStream` | `stray`: records of transactions whose Begin a crash lost | the next transaction with that id finds the record and its own changes are not recorded (change stream `lib.rs:1757`); `docs/columnar-phase2a-change-stream.md:162-163`: "Aborted or incomplete prepared batches are never exposed" |
| `HistoryExact`, `ImplementsHistory` | `lost`, `hRisk`: a rewrite failed after its rename | the stream goes on with the unlinked file (`lib.rs:1532-1538`); what it records there is gone after a crash; the same document, 150-151: "a committed authoritative transition cannot lack recoverable change payload" |
| `ViewExact` | `restamped`: a version whose committed `xmax` was overwritten | a Repeatable Read transaction updates or deletes a version expired after its snapshot (`heap.rs:2834`), and readers of later snapshots get the version back |
| `ViewExact` | `Overtaken`: a version expired after the published boundary, already removed | vacuum takes the newest commit as horizon while nothing is pinned, also when the published boundary is behind it; `docs/phase3a-global-snapshot.md:82-84` speaks of views that already hold their pin |
| `RetentionCovers`, `AcknowledgedOpens`, `PendingResolves` | `parted` | a failed replacement leaves the old projection in use without requiring recovery (`columnar.rs:457`), an open records an unsynced manifest (`lib.rs:1905`), `drop_files` fails before its directory sync (columnar `lib.rs:2749`); `docs/columnar-phase2c-compaction-retention.md:57-60` knows a generation N or a complete N+1 only |

Further behaviours, in the models and without a property of their own:

- Completing one transaction clears the set of missing Completes
  (`coordinator_log.rs:637`), another's among them: flush no longer writes it, and
  later Completes are refused as a sequence gap. A reader that commits during a group pops the
  parked deque (`transaction.rs:845` of the heap), a per-member finalization that
  fails, and a member parked after the decision, make retries of the group be
  refused. Each is repaired by reopening; what that gives is
  `OpenSettlesDecisions`. Nothing in the engine retries, flushes or reopens by
  itself, so no liveness is claimed for the commit protocols.
- The planner admits a projection that has applied the storage's *current* version
  (`lib.rs:6512`), and `advance` follows that version, not the published one. While
  a commit is applied and not yet published, a projection can be ahead of the
  published vector; `docs/phase3a-global-snapshot.md:110-115` says it never makes
  such data visible. `ShownExact` compares a projection with the table at the
  version it has applied and does not speak of the published one.
- In `LsmStorage`, `acquire_writer` flushes a full memtable while other
  transactions are prepared; that is safe only because of the group barrier of the
  core. In the server, a client whose COMMIT failed after the decision and who
  disconnects stops the worker and with it the server, as
  `docs/architecture.md:3502-3504` says.

### Bounds

Two transactions sharing storages give every pairwise interference: lease
conflict, overlapping decisions, a Complete behind another, publication over a
half-applied commit. Two storages let one participant fail after another
committed; `torn_snapshot` takes three, so that the two transactions share one
and differ in another. Two faults are what it takes to lose a Complete, or to
fail an append and its repair; one crash reaches every crash point and the
recovery after it, two a crash inside recovery. Two members tell the head of the
deque from its tail; readers on one of two storages disturb one deque and
leave the other to be compared with it. In `stream`, two troubles are a crash that
reuses an identifier, or a failed rewrite, and the crash that shows it. In `heap`,
two losers on one page and two crashes are what `Parted` takes. In `mvcc`, four
transactions are the loader, a writer, an overwriter and a reader; in `lsm`, three
transactions with a flush threshold of one and an L0 trigger of two reach flush
and two levels of compaction; in `projections`, `MaxWork = 4` calls, failures and
crashes together reach build, advance, compact and a crash in each. Every such
constant bounds only how much happens, never what a step does.

Deadlock is checked for the server, where everyone waiting on everyone is the
question. Elsewhere the system may stop: the transactions or the budget are used
up.

### Fairness

Only `ServerRuntime` has liveness properties. Each thread runs on when it can
(weak fairness per thread: operating-system threads); nobody has to connect, send
a request or call shutdown. Failures are bounded, so they end.

## 4. Proofs

The theorems hold for every value of the constants that satisfies the named
assumptions: any sets of transactions, storages, rows, views and sessions, any
bounds. A property with an exception (section 3) is proved with it.

| Module | Theorem | States |
|---|---|---|
| `DecisionLogProofs` | `LogCorrect` | `LogSpec => [](LogTypeOK /\ LogInv)` |
| `GlobalCommitProofs` | `TypeCorrect`, `AlwaysAgree` | `[]TypeOK`, `[]Agreement` |
| | `CommitPoint` | `[]DecisionGoverns` |
| | `AtomicCommitment` | `[]Atomicity` |
| | `AcknowledgedForever` | `[]AcknowledgedOutcome` |
| | `OnlyRecyclingRefuses` | `[]RefusalIsRecycling` |
| | `OpenGivesEffect` | `OpenSettlesDecisions` |
| | `SequenceNeverChanges` | `SequenceFixed` |
| | `SnapshotSettled`, `SnapshotNeverShrinks` | `[]SnapshotShowsSettled`, `SnapshotGrows` |
| `GroupCommitProofs` (`~LateAbort`) | `TypeCorrect` | `[](TypeOK /\ LogInv)` |
| | `GroupCommitPoint` | `[]GroupDecisionGoverns` |
| | `GroupIsAtomic` | `[]GroupAtomicity` |
| | `GroupRefusals` | `[]RefusalIsRecycling` |
| | `GroupShownWhole` | `[]GroupVisibleWhole` |
| | `ReportsAreFinal` | `[]ReportedOutcome` |
| | `NoRollbackAfterDecision` | `[]NoRollbackOnceDecided` |
| `HeapMvccProofs` | `TypeCorrect` | `[]TypeOK` |
| | `SnapshotReads` | `[]ViewExact` |
| | `ReadersKeepRows` | `SeenStays` |
| | `IndexesComplete` | `[]IndexCoversViews` |
| | `RepeatableReads` | `[]RepeatableSnapshot` |
| `ServerRuntimeProofs` | `TypeCorrect` | `[]TypeOK` |
| | `NoOrphanSession` | `[]SessionsOwned` |
| | `OneCommandEach` | `[]QueueBounded` |
| | `TruthfulResult` | `[]ResultTruthful` |

Each `*Proofs` module also has `Inductive`: its invariant holds in every
reachable state (and `SnapshotInductive`, `RecycledInductive`: the additions to it
for readers and for recycled WALs). The invariants were model-checked before they
were proved.

**Assumptions.** Storages are numbers (their order is the commit order), LSM
storages are storages, `NoTxn` is not a transaction, structural transactions are
transactions, loaded rows are rows, bounds are naturals, at least one connection
is allowed. Every theorem of `GroupCommitProofs` also assumes `~LateAbort`, the
documented rule that the code does not enforce; `group_late_abort` shows what
happens without it.

**The log.** Both commit protocols take their log steps from `DecisionLog`, so
what a step of the log does (numbers are kept, `stable` is never lowered, a crash
keeps the durable prefix, at most one accepted Complete is missing) is proved
once per operation in `DecisionLogProofs` and cited by both.

**Global commit.** Atomicity alone is not inductive: a step that makes a Commit
durable in one storage says nothing about the others. `Agreement` ties the four
places that record an outcome together: a participant's state determines its WAL
record (`WalAgrees`) and is compatible with the log (`LogAgrees`: decided means
prepared or further, committing means durably decided); a handle's state bounds
both (`HandleAgrees`: one that may still roll back has no decision in the log);
where a transaction has not written there is nothing. `IInv` adds `Settled` for
the time without handles: after a crash, participants are what their WALs say.
Every action touches one transaction, so a lemma (`StepOf`) reduces preservation
to that transaction and the log operation. `SnapInv` builds on it for readers:
what the snapshot shows is committed and decided, and what was acknowledged is
shown. `RecycledOK` says that only committed participants leave a WAL, and
`AsInspected` that an open works on what its inspection of the WALs found: with
them a refusal can only be a missing, committed participant
(`OnlyRecyclingRefuses`), and an open that ends has settled every decision.

**Group commit.** The same agreement, for every member, and four more parts.
`GroupAgrees`: members with a known sequence are a prefix of the group and being
applied; storages past the barrier hold durable Prepares of every member still
parked; storages past the batch commit hold the Commit of every member being
applied. `OrderAgrees`: only members of a group are decided after a member of it,
which is what lets a crash that cuts the log keep a group record whole.
`CallAgrees`: how far `commit_group`, `abort_group` and `abort_group_tail` have
come, member by member. `HistoryAgrees` and `SnapAgrees`: a record's members share
their fate, reports match handles, readers see whole groups. `RecycledOK` is as
above. `MemberStep`,
`StorageStep`, `ApplyStep` and `DecisionStep` are the shapes of step the actions
have; each shape has one preservation lemma. The order of the deque
(`chain`) is not part of the invariant: readers disturb it, and no safety property
rests on it.

**Heap reads.** `ViewExact` needs to know that what vacuum removes no reader
needs, and that what rollback restores is what was there. `IInv` says: versions
are the work of committed transactions and the lease holder (`Authors`); the
writer's marks are its pending changes (`PendingMarked`); undo restores the heap
without them (`UndoRestores`); only a failed insert has no index entry
(`IndexComplete`); at every sequence that is current, pinned or published the
headers show exactly what was committed, of the versions neither restamped nor
overtaken (`Exact`); a removed version keeps the transaction that expired it
(`Removed`), which is how `Overtaken` can be told; open views hold their pins
(`Pinned`). No assumption excludes stale writes or an early vacuum: both are steps
of the specification the theorems are about, and `restamped` and `Overtaken` say
exactly which rows they cost.

**Server.** `Queue`: a command in the queue belongs to a caller that waits for
it and was not answered. `Books`: the listener's connections are those with a
thread. `Owned`: a session is registered from the reply to OpenSession until the
reply to CloseSession. `Ends`: why and in which order worker and listener end.

### Only model-checked

- Liveness (`ServerStops`, `DisconnectResolves`): fairness and ENABLED are out of
  the prover's reach.
- The refinements `ImplementsDecisionLog` and `ImplementsHistory`, and the other
  properties of `log` and `stream`: what a file holds is the result of scanning it
  record by record, a fold whose value for every file needs induction over
  sequences.
- `projections` and `lsm`: overlays and reads are folds over deltas and tables,
  with the same difficulty.
- `heap`: recovery is a fold over the log; its invariants are model-checked only.

## 5. Not modelled

- The schema mutation journal: it spans coordinator log, catalog and storages, and
  needs those three in one module.
- Parsing, planning, execution: functions of a statement and a snapshot.
- Page and tree layouts, splits, wire and block encoding, checksums; savepoints and
  statement-level undo.
- Of the commit path: local (non-global) visibility mode and the single-participant
  commit without a decision. Of projections: unmanaged mode, foreign attachment.
  Of the LSM: what a failed WAL creation leaves beside the files in use, and a
  change-stream publication that fails once a commit was applied (`FinishCommit`
  has applied and published in one step). `PreparedSurvives` is about decisions
  that have not taken effect; that the flush in `acquire_writer` drops the records
  of applied ones is what `recovery_refused` is about. Of the server: a failed
  cleanup of the operator's socket after shutdown, which counts as a clean end,
  and startup, TLS, the admission gate, exhaustion of session ids, metrics and
  audit, the operator protocol and durable receipts. Of adaptive maintenance:
  evidence, scoring and advice.
- A sync that fails and drops data: a successful sync is taken to mean that
  everything appended before it is durable, also after an earlier failure.
