# TLA+ verification of BQEMU

BQEMU is a local BigQuery emulator written in Go. This directory holds TLA+ models of its stateful
parts, TLC configurations that check them on small instances, and TLAPS proofs for every instance.
`PROJECT.json` is the index: components, runs, the lines each definition stands for, what the runs
found, hazards and theorems.

## The system

Requests enter through a REST transport (catalog, jobs, queries, loads) and a gRPC transport (Storage
Read and Storage Write). Transports convert messages and call application services; the services own
state transitions and compensation and reach the outside through ports; adapters implement the ports.

| Part | Code (`src/`) | State | Runs concurrently with |
| --- | --- | --- | --- |
| Storage Write service | `internal/storagewrite/application` | streams, offsets, commit groups, cleanup phases | its own calls, the orphan sweeper, Close |
| Storage Write ledger | `internal/adapters/sqlite/write_state.go`, `state.go` | stream, receipt and commit tables | survives the process |
| Storage Write coordinator | `internal/adapters/duckdb/storage_write*.go` | staging tables, destination rows, one worker and its queue | callers that time out |
| Storage Read service | `internal/storageread/application` | sessions, reservations, byte budget | readers, the sweeper, Close |
| Storage Read ledger | `internal/adapters/sqlite/read_sessions.go` | session lifecycle | survives the process |
| Query jobs | `internal/application/query.go`, `adapters/sqlite/query_jobs.go` | job records, running queries | shutdown |
| Load jobs | `internal/loadjob`, `adapters/sqlite/load_jobs.go`, `adapters/duckdb/load.go` | job records, idempotency keys | restarts |
| Catalog | `internal/application/catalog.go`, `ddl.go`, `adapters/*/catalog.go`, `adapters/duckdb/warehouse.go` | metadata, physical tables | queries that publish tables |
| Local token issuer | `internal/auth/issuer/local`, `cmd/bqemu-auth-fixture` | fixture files | other processes on the same directory |
| Emulator process | `cmd/emulator` | composition, start-up, shutdown order | everything |
| SQL engine | `internal/adapters/googlesql`, `internal/querylang`, `internal/engine` | none | - |
| Values and schemas | `internal/domain`, `internal/tabledata` | none | - |
| Configuration, contract inventory, observability, object store, clock and IDs, connector profile | the remaining packages | none that other parts read | - |

What makes the stateful parts hard: an append or a commit crosses three stores (memory, SQLite,
DuckDB) with no common transaction; a caller's deadline ends its wait and not the worker's operation;
the sweepers decide under one lock and act under another; and both services must come back from a stop
at any point. `hazards` in `PROJECT.json` lists these at the line where they bite, with the properties
that cover them or the module planned for them.

## Modules

### StorageWrite

The Storage Write service, its ledger and the effects of the coordinator. One variable, `led`, stands
for a stream's record in memory and in SQLite: the service assigns the first only after the repository
wrote the second, under the same lock and with the same values. What only lives in memory (the cached
descriptor, locks, the sweep, running calls) is in variables a crash clears.

| Variables | Code |
| --- | --- |
| `led`, `applied`, `receipt` | `bqemu_write_streams`, `bqemu_write_append_receipts`, `streamState` and its `unacknowledged` receipt |
| `groups` | `bqemu_write_commit_groups`, `bqemu_write_commit_members`, `Service.commitGroups` |
| `staged`, `visible` | the hidden staging schema and the destination tables of DuckDB |
| `late` | the operation the worker still runs for a caller whose context ended |
| `lock`, `descriptor`, `idle`, `pending` | `streamState.mu` and how far its holder came, the cached descriptor, `LastActivity`, `Service.pending` |
| `sweep` | the position of `SweepOrphans`, which owns `cleanupGate` |
| `process`, `closing`, `stragglers`, `restarts`, `lost` | shutdown, calls admitted before it, crashes, history |

| Actions | Code |
| --- | --- |
| `CreateStream`, `CreateDefault` | `CreateStream`, `lookupOrCreateDefault` |
| `AppendBegin`, `AppendApplied`, `AppendComplete`, `AppendAbort`, `AppendUnresolved`, `AppendUnrecorded` | `Append`: the PREPARED receipt; the coordinator's transaction; the three kinds of answer; a ledger that refuses the last write |
| `Finalize` | `Finalize` |
| `CommitBegin`, `CommitRetry`, `CommitApplied`, `CommitComplete`, `CommitAbort`, `CommitUnresolved`, `CommitUnrecorded` | `BatchCommit`, in the same steps |
| `SweepStart`, `SweepVisit`, `SweepMark`, `SweepMarkFails`, `SweepDiscard`, `SweepDiscardFails`, `SweepDelete`, `SweepDeleteFails`, `SweepEnd` | `SweepOrphans`, one step for each lock it takes |
| `WorkerFinishes` | the abandoned operation runs, or fails |
| `Age` | time passes `OrphanTTL` |
| `Close`, `CloseVisit`, `StopCoordinator`, `Crash`, `Restart` | `Service.Close`, the coordinator's `Close`, a stop anywhere, `ReconcileStartup` with `validateWriteSnapshot` |

Abstracted: rows are payload digests with a row count; wire decoding, schema comparison beyond "same
fingerprint", naming and logging are left out. The compare-and-set on `revision` cannot fail in this
model (the lock excludes it) and is left out. A SQLite COMMIT that reports an error although it took
effect is not modelled; neither is the coordinator's queue (only its single worker is). The
conflict branch of `lookupOrCreateDefault` adopts a row that the same function wrote, which comes to
creating it, and has no action of its own. `ValidSnapshot` leaves out the checks that cannot fail on
the records of the model (two counters that are one field here, member counts of a set).

### WriteLocks

The mutexes of the same service. A call is the sequence of lock operations it performs, one sequence
for each of its paths; the actions are the operations of `sync.Mutex`, of `sync.RWMutex` (a writer that
announces itself shuts new readers out; its unlock admits the parked readers before the next writer)
and of the cleanup token, whose wait ends with the caller's context. `Request` gives each committer
the streams of its request in its order; the lock order is the sorted one, as in the code. Streams are
fixed for an instance: creating or deleting one changes a map, not the locks a running call holds.

### StorageRead

Read sessions: admission against a session limit and a byte budget (`Reserve`), materialization with no lock
held (`Materialize`, `MaterializeFails`), the commit of the reservation (`Commit`, `CommitRejected`,
`ReleaseRejected`), reads that hold the session's lock (`ReadBegin`, `ReadEnd`), `SweepExpired`, `Close`
with `CloseReleases` and `CloseReturns`, the three steps of `closeSnapshots` (`NextSnapshot` settles on a
session, `CloseSnapshot` waits for that session's lock even when others are free, `ReleaseSnapshotBudget`
takes the service's lock again), the end of the process (`Exit`) and `ReconcilePersistedSessions`
(`Restart`). `TransitionSessions` refuses the whole set when one session is in a third state
(`Transitionable`) and changes the ACTIVE ones only (`Transitioned`). A session is identified with the call
that creates it (IDs are fresh), time is the set `stale` of sessions whose `ExpireTime` has passed, a
snapshot is its size and whether it is open, closed, or leaked because its Close failed. The division of
rows into streams and the batches of a read are data and left out. A snapshot that is refused for its size
or its metadata goes in one step from materialization to refusal.

`MCStorageWrite`, `MCWriteLocks` and `MCStorageRead` instantiate the three for TLC; `StorageWriteProofs`,
`StorageWriteDelivery` (what the destination tables receive), `StorageWriteLedger` (start-up and slots) and
`StorageReadProofs` hold the theorems. The lemmas of the first are in `StorageWriteInvariant` (the inductive
invariant, frame lemmas, stream lifecycle), `StorageWriteAppends`, `StorageWriteCommits` and
`StorageWriteCleanup` (sweep, shutdown, crash, restart). Operators introduced by a comment "Mutant:" are
slips of the code (a dropped guard, a wrong bound) that no action uses; each shows that a property would
notice.

## Runs

Run one with `tlc -config X.cfg M`; all finish within three minutes on two workers.

| Run | Configuration, module | Checks |
| --- | --- | --- |
| `write_groups` | `StorageWriteGroups.cfg`, `MCStorageWrite` | `ExactlyOnce`, `CommittedForever` |
| `write_restart` | `StorageWriteRestart.cfg`, `MCStorageWrite` | `TypeOK`, `StartupAccepted`, `StagedAhead`, `CommittedRowsVisible`, `ExactlyOnce`, `StreamSlots`, `DeletedLeavesNothing` |
| `write_default` | `StorageWriteDefault.cfg`, `MCStorageWrite` | `DefaultAtLeastOnce`, `DefaultInOrder` |
| `write_reclaim` | `StorageWriteReclaim.cfg`, `MCStorageWrite` | `StreamSlots`, and with fairness `OrphanReclaimed` |
| `locks_all` | `WriteLocksAll.cfg`, `MCWriteLocks` | `ReturnsReleased`, `CirclesAreInversions` |
| `locks_return` | `WriteLocksReturn.cfg`, `MCWriteLocks` | `CallsReturn`, with fairness |
| `read_budget` | `StorageReadBudget.cfg`, `MCStorageRead` | `TypeOK`, `BudgetExact`, `BytesBounded`, `SessionsBounded` |
| `read_ledger` | `StorageReadLedger.cfg`, `MCStorageRead` | `ReadsOpenSnapshots`, `LedgerServed`, `RefusedForever`, `EndedForever`, and with fairness `ExpiredReclaimed` |
| `write_claim_dispose`, `write_claim_invisible`, `write_claim_all_or_none`, `locks_claim_cleanup` | `StorageWriteClaim*.cfg`, `WriteLocksClaimCleanup.cfg` | one sentence of a comment or document each; TLC refutes it (see Findings) |

What they show:

- **Exactly once.** However timeouts, lost answers, retries, aborts, sweeps, Close and a crash interleave,
  the rows of a PENDING stream reach the table in at most one transaction, all the acknowledged ones and
  no other, after the stream was finalized. The reason is visible in `StagedAhead`: the backend is
  at most one batch ahead of the ledger, at the next offset, so a retry either finds its own receipt or
  is refused. A COMMITTED stream's rows are there, except those a restart dropped with the staging schema
  before the commit.
- **Restart.** A stop at any point leaves a ledger `validateWriteSnapshot` accepts.
- **Default streams** are at-least-once: an acknowledged batch is in the table. A lost answer may put a batch
  there several times, but every copy is inserted while the ledger still stands at its offset, an abandoned
  append that the worker finishes late included: none lands behind a later batch (`DefaultInOrder`).
- **Resources.** `pending` counts the live streams exactly and stays within the limit, through commits,
  sweeps and the recount at start; a swept stream leaves neither rows nor an
  abandoned operation that could bring them back; an eligible orphan that no commit named is reclaimed.
- **Locks.** Commits that overlap do not deadlock among themselves. The only circle of waits is a commit
  that holds its streams and asks for the service lock while a sweep or Close holds it and asks for a
  stream. Apart from it every call returns and has released everything.
- **Read sessions.** The byte budget is exact through every failure and race (the underflow branches of
  the two release functions are dead); neither limit is passed; no read meets a closed snapshot; ledger
  and service agree about what is served; a stream once refused stays refused; the snapshot of an expired
  session is closed, or given up when its Close fails, and its charge returned.

### Bounds

- `write_groups`: two streams, one payload of one row, two commit groups. Overlapping, nested and equal
  groups, and a second attempt after an abort, need two of each. One row is enough: offsets matter in the
  next run. No crash and no Close here, and slots for both streams.
- `write_restart`: one stream and one slot, payloads of one and two rows, two schemas, three rows, one crash
  and Close. Two sizes make "number of batches" and "number of rows" differ, three rows allow two batches
  and a third refused one; a second crash starts from a ledger the first one already produced.
- `write_default`: one default and one PENDING stream share the worker; two rows and three
  transactions for each stream (`MaxCopies`) let a batch be inserted twice before or after another one.
- `write_reclaim`: two streams for one slot, two commit groups and a restart, so that the limit refuses
  a stream, and a slot is used again after a commit, a sweep and a recount. At most one stream is live at a
  time: appends to other streams may keep the worker busy and refuse the discard for ever, and
  `OrphanReclaimed` is about failures, not about overload.
- `locks_all`: two commits over the same two streams, in opposite request orders, and Close, which
  visits and then sweeps. `locks_return`: one commit, one client, the sweeper, one stream. Contention of
  two sweeps for the cleanup token is in neither.
- `read_budget`: four creators for three places; the budget of 5 admits two reservations of 2 and a third
  only after a smaller snapshot was committed; sessions are interchangeable (symmetry; only invariants are
  checked). `read_ledger`: two sessions, two readers, so that one sweep has work left while a reader
  holds the other session. Restarts are unbounded in both.

### Fairness

- `write_reclaim`: `RunCleanup` sweeps at every tick; a mutex is granted to a waiter in the end; every
  append and commit returns, since it carries a deadline (apart from the circle of locks that
  `locks_claim_cleanup` finds, which this run leaves out); a ledger write or discard that is retried for ever
  succeeds some time (strong fairness). Clients are not obliged to do anything.
- `locks_return`, `locks_claim_cleanup`: strong fairness of each goroutine's next lock operation. Go's
  mutexes hand over to a starving waiter. Nobody is obliged to call.
- `read_ledger`: the sweeper sweeps and its ledger update does not fail for ever; a janitor goes on when
  the session's lock is free; a ReadRows call ends. The last one is an assumption about clients and
  their transport; a reader that never ends stops the sweep, as the test
  `TestCloseKnownGapStalledReadCanOutliveShutdownDeadline` of the repository records.

Deadlock is checked in every passing run except the two about locks: there a stop is a real outcome
of the code, and `CirclesAreInversions` says exactly which.

## Findings

Each is a run in which TLC refutes a sentence of the repository; `PROJECT.json` quotes it.

- `locks_claim_cleanup` (`CleanupReturns`): BatchCommit holds stream mutexes while it takes the service
  mutex; SweepOrphans and Close hold the service mutex while they take stream mutexes. They can block
  each other for ever, no context ends the wait, and every later call blocks on the service mutex. The
  documentation says that the close timeout bounds orphan cleanup.
- `write_claim_dispose` (`DisposesUncommittedOnly`): SweepOrphans collects its victims, releases the
  locks, and later marks each one without looking again. A stream committed in between becomes a tombstone
  that answers "discarded" and is never deleted. Its data are safe (`CommittedForever`).
- `write_claim_invisible` (`UncommittedInvisible`): a commit took effect and its answer was lost; the retry
  ends in a definite error (a full queue, say), so AbortCommit records the group ABORTED and the streams
  uncommitted, with their rows in the table.
- `write_claim_all_or_none` (`CommitAllOrNone`): the staging schema is dropped at start while the ledger
  keeps the streams; a group of one stream written before the restart and one written after it commits the
  rows of the second only, and both are recorded COMMITTED.

Noted while modelling, without a run of their own: an append retry that ends in a definite error drops the
receipt of the attempt that may have been staged, so Finalize succeeds over rows the ledger does not
count, and the row-count proof of commitPending refuses every later commit of that stream. A stream
named by an aborted group can never be deleted (the foreign key of `bqemu_write_commit_members` has no
ON DELETE action), so its tombstone and its slot stay; `OrphanReclaimed` is therefore about streams no
commit named. A stream whose last append stays UNRESOLVED is never eligible for the sweep: if its client does
not come back, its slot and its staged rows are kept, over restarts too. `OrphanReclaimed` is about
streams whose operation is settled, and allows for an append that slips in between the sweep's choice and its
mark. A read session that answered NOT_FOUND because it expired answers UNAVAILABLE after
a Close that came before the sweep. `docs/en/operations.md` says that abrupt termination can lose Read
sessions and Write streams, and `docs/en/architecture.md` that the Write ledger is not restart-durable
yet; the code keeps both in SQLite.

## Proofs

`StorageWriteProofs`, with the four modules it extends, `StorageWriteDelivery` and `StorageWriteLedger`, which
extend it, and `StorageReadProofs` prove, for any sets of streams, schemas, payloads, sessions and readers and
any limits, without the bounds of the runs having a particular value:

| Theorem | Statement |
| --- | --- |
| `StorageWriteProofs!TypeCorrect` | `Spec => []TypeOK` |
| `StorageWriteProofs!ExactlyOnceHolds` | `Spec => []ExactlyOnce` |
| `StorageWriteProofs!DeletedLeavesNothingHolds` | `Spec => []DeletedLeavesNothing` |
| `StorageWriteProofs!CommittedForeverHolds` | `Spec => CommittedForever` |
| `StorageWriteDelivery!StagedAheadHolds` | `Spec => []StagedAhead` |
| `StorageWriteDelivery!CommittedRowsVisibleHolds` | `Spec => []CommittedRowsVisible` |
| `StorageWriteDelivery!DefaultAtLeastOnceHolds` | `Spec => []DefaultAtLeastOnce` |
| `StorageWriteDelivery!DefaultInOrderHolds` | `Spec => DefaultInOrder` |
| `StorageWriteLedger!StartupAcceptedHolds` | `Spec => []StartupAccepted` |
| `StorageWriteLedger!StreamSlotsHolds` | `Spec => []StreamSlots` |
| `StorageReadProofs!SessionsBoundedHolds` | `Spec => []SessionsBounded` |
| `StorageReadProofs!ReadsOpenSnapshotsHolds` | `Spec => []ReadsOpenSnapshots` |
| `StorageReadProofs!LedgerServedHolds` | `Spec => []LedgerServed` |
| `StorageReadProofs!RefusedForeverHolds` | `Spec => RefusedForever` |
| `StorageReadProofs!EndedForeverHolds` | `Spec => EndedForever` |

**Assumptions.** StorageWrite: streams are naturals, PENDING and DEFAULT ones disjoint, the PENDING ones
finitely many; every payload has at least one row; the bounds are naturals; `None` is no schema and
no batch. StorageRead: the limits are naturals, at least one session and one byte, a snapshot's limit
within the total (`validateConfig`); `None` is no session. TLC evaluates them on every run.

**StorageWrite.** `ExactlyOnce` is not inductive: whether Publish may insert depends on what is
staged, which depends on every append before it. The inductive invariant `IInv` says of every stream
whose rows are not published that its staging table is absent, equal to the ledger, or ahead by exactly
one batch at the ledger's next offset (`Tracked`). To keep that through every step it also says what
each lock, unacknowledged receipt, commit group, abandoned operation and position of the sweep implies:
a receipt is at the next offset (`LedgerInv`); an abandoned append belongs to a stream not yet published
(`BackendInv`); members of a group are finalized and no longer grow, with the expected counts of
the ledger (`GroupInv`); the stream the sweep deletes has nothing staged and no append left on the worker
(`SweepInv`). The row-count proof of commitPending then excludes the third case of `Tracked`, since a batch
has at least one row. One lemma per action shows that it keeps `IInv`; frame lemmas cover the streams
an action does not touch. `CommittedForever` follows from `GroupInv`: a committed stream is in a group,
so it can neither grow nor be deleted.

Four more invariants are inductive relative to `IInv`. `DestInv` follows a stream no restart emptied: before
its rows are published the staging table is the ledger's, or one batch ahead; a commit whose answer is in
hand, or acknowledged, has published them. `DefaultInv` adds the batch whose answer the caller has in hand
to those the ledger acknowledged. `DefaultInOrder` needs `LedgerInv` only: a receipt, and an abandoned
append, is at the ledger's count. `Acceptable` says that operations, receipts and groups name each other and
that receipts tile the row count, and `Phased` that a record has a phase exactly when it has an operation.
`LiveInv` says that a stream a commit will release is still counted and that the sweep holds no stream it
deleted, so that no slot is returned twice; the count itself then follows from the cardinality of a finite
set that gains or loses the streams of one step.

**StorageRead.** A reader keeps its session while a janitor takes it out of the service, so
`ReadsOpenSnapshots` needs to know where a session can be: `PlaceInv` says served, waiting with the sweeper
or with Close, or the one a janitor is closing, in exactly one of these, and its snapshot is open in the
first two and until the janitor has its lock. `LifeInv` ties the ledger to the calls (a session has a row
exactly when it was created, ACTIVE while served, none served unless the service is up); `SlotInv` carries
the finiteness behind the cardinalities. `RefusedForever` rests on one fact: only Commit brings a session
into the service, and only once.

**Only model-checked.** Liveness (`OrphanReclaimed`, `CallsReturn`, `ExpiredReclaimed`): fairness is out of
the prover's reach. `BudgetExact` and `BytesBounded`: sums over a set need induction over data, which the
provers cannot instantiate. The two safety properties of the locks are not proved yet.

## Not modelled

The SQL engine, the connector profile, the contract inventory, configuration, object store, observability
and the clock hold no state that interleaves with anything; what could be wrong in them is data
TLC cannot enumerate. The transports convert messages. Reasons for every part are in `components`.

## Plan

In this order; what each would add:

1. **WriteCoordinator** (`adapters/duckdb/storage_write.go`, `storage_write_staging.go`, the AppendRows
   stream of `transport/grpc/storage_write.go`): queue, worker, admission of operations and bytes,
   deadlines before and after the worker starts, Close draining the queue. Properties: charges are exact,
   a result is never reported as not executed, every submitter gets an answer. StorageWrite's answers
   (`AppendApplied`, `WorkerFinishes`) become its abstract specification, with a refinement mapping.
2. **LoadJob** (`loadjob/application`, `adapters/sqlite/load_jobs.go`): idempotent submission, states, the
   crash between the load and its terminal record, interrupted jobs at start.
3. **QueryJobs** (`application/query.go`, `adapters/sqlite/query_jobs.go`): admission, cancellation, the
   terminal record against shutdown, publication of destination tables.
4. **Catalog** (`application/catalog.go`, `ddl.go`, `metadata_update.go`, the repositories and
   `adapters/duckdb/warehouse.go`): metadata against physical tables, compensation when one of two steps
   fails, expiration, etags. Composed with QueryJobs for publication.
5. **Emulator** (`cmd/emulator`): start-up (migrations, reconciliation) and the order of shutdown.
6. **AuthFixture** (`auth/issuer/local`): creation and rotation under the file lock and the directory swap.
7. **Pure operators**: partitionStreams and negotiateStreamCount, schema evolution, page tokens, decimal
   bounds, each against a reference definition.
8. **An abstract specification** of a PENDING stream (append, finalize, commit, each atomic and
   exactly once) that StorageWrite implements.
9. **Proofs**: the lock order of WriteLocks; the refinements of 1 and 8; then the safety of 2 to 5.
