---------------------------- MODULE StorageWrite ----------------------------
(***************************************************************************)
(* The Storage Write service of the emulator: its per-stream offset ledger *)
(* (internal/storagewrite/application), the SQLite tables the ledger is    *)
(* kept in (internal/adapters/sqlite/write_state.go) and the transactions  *)
(* of the DuckDB coordinator (internal/adapters/duckdb/storage_write*.go). *)
(*                                                                         *)
(* A stream's in-memory streamState and its SQLite row carry the same      *)
(* fields; the service assigns the first only after the repository wrote   *)
(* the second, under the same lock and with the same values, and returns   *)
(* without assigning when the repository failed.  One variable, `led',     *)
(* stands for both.  What lives in memory only (the cached descriptor, the *)
(* locks, the sweeper, the running calls) is in variables that a crash     *)
(* clears.  The CAS on `revision' therefore never fails here and the       *)
(* counter is left out.                                                    *)
(***************************************************************************)
EXTENDS Integers, Sequences, FiniteSets

CONSTANTS
    Pending,      \* names of PENDING streams the ID generator may produce
    Default,      \* names of DEFAULT streams, one per table
    Schemas,      \* writer descriptors
    Payloads,     \* digests of append payloads
    RowsOf,       \* rows in the payload with a digest
    None,         \* an absent value
    MaxStreams,   \* config: open PENDING streams the service admits
    MaxRows,      \* bound: rows of a stream
    MaxCopies,    \* bound: transactions that insert into one stream's table
    MaxGroups,    \* bound: commit groups ever prepared
    MaxRestarts,  \* bound: crashes
    MayClose      \* bound: whether Service.Close is called

ASSUME StreamsAssumption ==
    /\ Pending \subseteq Nat /\ Default \subseteq Nat
    /\ Pending \cap Default = {}
    /\ IsFiniteSet(Pending)
ASSUME RowsAssumption == RowsOf \in [Payloads -> Nat \ {0}]
ASSUME BoundsAssumption ==
    /\ {MaxStreams, MaxRows, MaxCopies, MaxGroups, MaxRestarts} \subseteq Nat
    /\ MayClose \in BOOLEAN

VARIABLES
    led,          \* stream records: bqemu_write_streams and streamState
    applied,      \* APPLIED append receipts of a stream
    receipt,      \* its PREPARED or UNRESOLVED receipt: `unacknowledged'
    groups,       \* commit groups, in the order they were prepared
    staged,       \* DuckDB: hidden staging table and receipts of a stream
    visible,      \* DuckDB: row sets inserted into the destination, in order
    late,         \* operation the worker still runs for a caller that left
    descriptor,   \* descriptor cached by streamState
    lock,         \* holder of streamState.mu, and how far it got
    idle,         \* streams whose LastActivity is older than OrphanTTL
    sweep,        \* the sweeper that owns cleanupGate
    process,      \* running, closed, draining or down: how far it is shut down
    closing,      \* streams Close has still to visit
    stragglers,   \* streams with calls that passed lookup before Close
    pending,      \* Service.pending
    restarts,     \* crashes so far
    lost          \* history: acknowledged rows dropped with the staging schema

ledgerVars == <<led, applied, receipt, groups>>
duckVars == <<staged, visible, late>>
memoryVars == <<descriptor, lock, sweep, pending>>
lifeVars == <<process, closing, stragglers, restarts, lost>>
vars == <<led, applied, receipt, groups, staged, visible, late, descriptor,
          lock, idle, sweep, process, closing, stragglers, pending,
          restarts, lost>>

Streams == Pending \cup Default

Batch == [off : Nat, schema : Schemas, payload : Payloads]

ASSUME NoneAssumption == None \notin Schemas /\ None \notin Batch

\* A NONE operation has phase NONE and the empty token, here 0; the offset of
\* an APPEND and the group of a COMMIT are its token.  RowCount and NextOffset
\* are equal by a CHECK of the table and move together: both are `rows'.
Record(state) ==
    [state |-> state, rows |-> 0, fp |-> None, op |-> "NONE",
     phase |-> "NONE", token |-> 0, cleanup |-> "ACTIVE"]

WithOp(rec, op, phase, token) ==
    [rec EXCEPT !.op = op, !.phase = phase, !.token = token]

Settled(rec) == WithOp(rec, "NONE", "NONE", 0)

\* MarkAppendUnresolved, MarkCommitUnresolved and ReconcileStartup
Unresolved(rec) ==
    IF rec.phase = "PREPARED" THEN [rec EXCEPT !.phase = "UNRESOLVED"] ELSE rec

UnresolvedGroup(grp) ==
    IF grp.phase = "PREPARED" THEN [grp EXCEPT !.phase = "UNRESOLVED"] ELSE grp

Exists(s) == led[s].state \in {"OPEN", "FINALIZED", "COMMITTED"}
Existing == {s \in Streams : Exists(s)}

Uncommitted(s) == s \in Pending /\ led[s].state \in {"OPEN", "FINALIZED"}

Members(g) == groups[g].members

InSomeGroup(s) == \E g \in 1..Len(groups) : s \in Members(g)

NoRows == [rows |-> 0, receipts |-> {}]

SweepOff == [pc |-> "off", todo |-> {}, orphans |-> {}, cur |-> None]

Init ==
    /\ led = [s \in Streams |-> Record("UNBORN")]
    /\ applied = [s \in Streams |-> {}]
    /\ receipt = [s \in Streams |-> None]
    /\ groups = <<>>
    /\ staged = [s \in Streams |-> NoRows]
    /\ visible = [s \in Streams |-> <<>>]
    /\ late = None
    /\ descriptor = [s \in Streams |-> None]
    /\ lock = [s \in Streams |-> "free"]
    /\ idle = {}
    /\ sweep = SweepOff
    /\ process = "running"
    /\ closing = {} /\ stragglers = {}
    /\ pending = 0 /\ restarts = 0
    /\ lost = {}

----------------------------------------------------------------------------
(* Creating streams and looking them up. *)

\* lookup: calls that read Service.closed before Close set it go on after it.
Up == process # "down"

\* Service.closed; "draining" once the coordinator was closed too.
Closed == process \in {"closed", "draining"}

Admitted(s) == Up /\ Exists(s) /\ (Closed => s \in stragglers)

\* Mutant: the limit is off by one.
SlotFreeOffByOne == pending <= MaxStreams

\* The limit of open and finalized streams, read under the service's lock.
SlotFree == pending < MaxStreams

CreateStream(s) ==
    /\ process = "running"
    /\ s \in Pending /\ led[s].state = "UNBORN"
    /\ SlotFree
    /\ led' = [led EXCEPT ![s] = Record("OPEN")]
    /\ pending' = pending + 1
    /\ idle' = idle \ {s}
    /\ UNCHANGED <<applied, receipt, groups, duckVars, descriptor, lock,
                   sweep, lifeVars>>

\* lookupOrCreateDefault, on the first call for a table's default stream.  A
\* row that is there already (ErrStateConflict) was written by this same
\* function and is not used yet, so adopting it comes to creating it.
CreateDefault(s) ==
    /\ process = "running"
    /\ s \in Default /\ led[s].state = "UNBORN"
    /\ led' = [led EXCEPT ![s] = Record("COMMITTED")]
    /\ idle' = idle \ {s}
    /\ UNCHANGED <<applied, receipt, groups, duckVars, memoryVars, lifeVars>>

----------------------------------------------------------------------------
(* Append.  The stream's lock is held from AppendBegin until the call      *)
(* returns; "append" means submitted to the coordinator, "appended" that   *)
(* its transaction committed.  receipt[s] is the batch of the call.        *)

\* A request names a descriptor or relies on the one of an earlier append.
WriterSchema(s, schema) == IF schema # None THEN schema ELSE led[s].fp

\* Mutant: the first append may omit the writer schema.
SchemaAcceptedUnchecked(s, schema) ==
    led[s].fp \in {None, WriterSchema(s, schema)}

SchemaAccepted(s, schema) ==
    IF schema = None THEN descriptor[s] # None
                     ELSE led[s].fp \in {None, schema}

AppendBegin(s, off, schema, p) ==
    LET b == [off |-> led[s].rows, schema |-> WriterSchema(s, schema),
              payload |-> p]
    IN  /\ Admitted(s) /\ lock[s] = "free"
        /\ led[s].cleanup = "ACTIVE"
        /\ s \in Pending => led[s].state = "OPEN"
        /\ s \in Default => off = None
        /\ SchemaAccepted(s, schema)
        /\ receipt[s] \in {None, b}
        /\ off \in {None, led[s].rows}
        /\ led[s].rows + RowsOf[p] <= MaxRows
        /\ IF receipt[s] = None    \* PrepareAppend
              THEN /\ led' = [led EXCEPT ![s] =
                                WithOp(@, "APPEND", "PREPARED", led[s].rows)]
                   /\ receipt' = [receipt EXCEPT ![s] = b]
              ELSE UNCHANGED <<led, receipt>>
        /\ lock' = [lock EXCEPT ![s] = "append"]
        /\ UNCHANGED <<applied, groups, duckVars, descriptor, idle, sweep,
                       pending, lifeVars>>

\* stagePending: the exact receipt again is a success that inserts nothing,
\* another receipt at the offset or a gap is an error.
Stageable(s, b) ==
    \/ b \in staged[s].receipts
    \/ /\ \A r \in staged[s].receipts : r.off # b.off
       /\ b.off = staged[s].rows

\* Mutant: a retried receipt is inserted again.
StageAgain(s, b) ==
    /\ Stageable(s, b)
    /\ staged' = [staged EXCEPT ![s] = [rows |-> @.rows + RowsOf[b.payload],
                                       receipts |-> @.receipts \cup {b}]]
    /\ UNCHANGED visible

Stage(s, b) ==
    /\ Stageable(s, b)
    /\ staged' = IF b \in staged[s].receipts THEN staged
                 ELSE [staged EXCEPT ![s] =
                         [rows |-> @.rows + RowsOf[b.payload],
                          receipts |-> @.receipts \cup {b}]]
    /\ UNCHANGED visible

\* Mutant: an unresolved default append is taken for an applied one.
InsertDefaultOnce(s, b) ==
    /\ visible' = IF led[s].phase = "UNRESOLVED" THEN visible
                  ELSE [visible EXCEPT ![s] = Append(@, {b})]
    /\ UNCHANGED staged

\* AppendDefault: no receipt, so a retry of an applied append inserts again.
InsertDefault(s, b) ==
    /\ Len(visible[s]) < MaxCopies
    /\ visible' = [visible EXCEPT ![s] = Append(@, {b})]
    /\ UNCHANGED staged

ApplyAppend(s, b) ==
    IF s \in Pending THEN Stage(s, b) ELSE InsertDefault(s, b)

\* Mutant: an operation whose caller has left no longer occupies the worker.
WorkerFreeWhenAbandoned == process \in {"running", "closed"}

\* The worker takes the next operation.
WorkerFree == process \in {"running", "closed"} /\ late = None

Release(S) == lock' = [s \in Streams |-> IF s \in S THEN "free" ELSE lock[s]]

\* The worker ran the call and its answer reaches the caller.
AppendApplied(s) ==
    /\ lock[s] = "append" /\ WorkerFree
    /\ ApplyAppend(s, receipt[s])
    /\ lock' = [lock EXCEPT ![s] = "appended"]
    /\ UNCHANGED <<ledgerVars, late, descriptor, idle, sweep, pending,
                   lifeVars>>

\* Mutant: the ledger counts batches instead of rows.
AdvancedByOne(rec, b) ==
    [Settled(rec) EXCEPT !.rows = rec.rows + 1, !.fp = b.schema]

Advanced(rec, b) ==
    [Settled(rec) EXCEPT !.rows = rec.rows + RowsOf[b.payload],
                         !.fp = IF rec.fp = None THEN b.schema ELSE rec.fp]

AppendComplete(s) ==
    /\ lock[s] = "appended"
    /\ led' = [led EXCEPT ![s] = Advanced(@, receipt[s])]
    /\ applied' = [applied EXCEPT ![s] = @ \cup {receipt[s]}]
    /\ receipt' = [receipt EXCEPT ![s] = None]
    /\ descriptor' = [descriptor EXCEPT
                        ![s] = IF @ = None THEN receipt[s].schema ELSE @]
    /\ idle' = idle \ {s}
    /\ Release({s})
    /\ UNCHANGED <<groups, duckVars, sweep, pending, lifeVars>>

\* A definite error: admission, queue wait, bad rows, a receipt conflict, an
\* offset gap, or the closed coordinator, which also answers for operations
\* that were applied: waitCoordinatorResult selects between the result and
\* `done'.  The receipt goes, whatever earlier attempt it stood for.
AppendAbort(s) ==
    /\ \/ lock[s] = "append"
       \/ process = "draining" /\ lock[s] = "appended"
    /\ led' = [led EXCEPT ![s] = Settled(@)]
    /\ receipt' = [receipt EXCEPT ![s] = None]
    /\ Release({s})
    /\ UNCHANGED <<applied, groups, duckVars, descriptor, idle, sweep,
                   pending, lifeVars>>

\* The caller of a submitted operation may leave it running on the worker;
\* one still queued is skipped, its context being cancelled.
MayKeepRunning(submitted, operation) ==
    \/ UNCHANGED late
    \/ submitted /\ WorkerFree /\ late' = operation

\* An ambiguous outcome: operation timeout, deadline or cancellation, before
\* or after the transaction committed.
AppendAmbiguous(s) ==
    /\ lock[s] \in {"append", "appended"}
    /\ MayKeepRunning(lock[s] = "append",
                      [kind |-> "append", stream |-> s, batch |-> receipt[s]])
    /\ Release({s})
    /\ UNCHANGED <<applied, receipt, groups, staged, visible, descriptor,
                   idle, sweep, pending, lifeVars>>

AppendUnresolved(s) ==
    /\ AppendAmbiguous(s)
    /\ led' = [led EXCEPT ![s] = Unresolved(@)]

\* MarkAppendUnresolved, AbortAppend or CompleteAppend failed.
AppendUnrecorded(s) == AppendAmbiguous(s) /\ UNCHANGED led

Finalize(s) ==
    /\ Admitted(s) /\ lock[s] = "free"
    /\ s \in Pending
    /\ led[s].cleanup = "ACTIVE"
    /\ led[s].state # "COMMITTED"
    /\ receipt[s] = None
    /\ led' = [led EXCEPT ![s].state = "FINALIZED"]
    /\ idle' = idle \ {s}
    /\ UNCHANGED <<applied, receipt, groups, duckVars, memoryVars, lifeVars>>

----------------------------------------------------------------------------
(* BatchCommit.  All locks of the group are held, taken in name order;     *)
(* "commit" means submitted, "committed" that the transaction committed.   *)

CommitReady(s) ==
    /\ Admitted(s) /\ lock[s] = "free"
    /\ led[s].cleanup = "ACTIVE"
    /\ led[s].state = "FINALIZED"

Acquire(S) == lock' = [s \in Streams |-> IF s \in S THEN "commit" ELSE lock[s]]

\* A group none of whose streams has an operation: PrepareCommit.
CommitBegin(S) ==
    LET g == Len(groups) + 1
    IN  /\ g <= MaxGroups
        /\ \A s \in S : CommitReady(s) /\ led[s].op = "NONE"
        /\ groups' = Append(groups,
                       [members |-> S, phase |-> "PREPARED",
                        expected |-> [s \in Pending |->
                                        IF s \in S THEN led[s].rows ELSE 0]])
        /\ led' = [s \in Streams |->
                     IF s \in S THEN WithOp(led[s], "COMMIT", "PREPARED", g)
                                ELSE led[s]]
        /\ Acquire(S)
        /\ UNCHANGED <<applied, receipt, duckVars, descriptor, idle, sweep,
                       pending, lifeVars>>

\* A retry must name exactly the streams of the unresolved group.
CommitRetry(g) ==
    /\ g <= Len(groups)
    /\ groups[g].phase \in {"PREPARED", "UNRESOLVED"}
    /\ \A s \in Members(g) :
          /\ CommitReady(s)
          /\ led[s].op = "COMMIT" /\ led[s].token = g
          /\ groups[g].expected[s] = led[s].rows
    /\ Acquire(Members(g))
    /\ UNCHANGED <<ledgerVars, duckVars, descriptor, idle, sweep, pending,
                   lifeVars>>

\* The streams whose calls hold the locks of group g at step `at'.
Holds(g, at) ==
    /\ g <= Len(groups)
    /\ \A s \in Members(g) : lock[s] = at /\ led[s].token = g

\* Mutant: the row-count proof is left out.
PublishUnproved(g) ==
    /\ visible' = [s \in Streams |->
                     IF s \in Members(g) /\ staged[s].receipts # {}
                       THEN Append(visible[s], staged[s].receipts)
                       ELSE visible[s]]
    /\ staged' = [s \in Streams |->
                    IF s \in Members(g) THEN NoRows ELSE staged[s]]

\* Mutant: only the streams whose row count is proved are applied.
PublishPartly(g) ==
    LET proved == {s \in Members(g) :
                     /\ staged[s].receipts # {}
                     /\ staged[s].rows = groups[g].expected[s]}
    IN  /\ visible' = [s \in Streams |->
                         IF s \in proved
                           THEN Append(visible[s], staged[s].receipts)
                           ELSE visible[s]]
        /\ staged' = [s \in Streams |->
                        IF s \in proved THEN NoRows ELSE staged[s]]

\* commitPending, one transaction: a stream without receipts is skipped, one
\* whose row count differs from the expected one fails the whole commit.
Publish(g) ==
    /\ \A s \in Members(g) : \/ staged[s].receipts = {}
                             \/ staged[s].rows = groups[g].expected[s]
    /\ visible' = [s \in Streams |->
                     IF s \in Members(g) /\ staged[s].receipts # {}
                       THEN Append(visible[s], staged[s].receipts)
                       ELSE visible[s]]
    /\ staged' = [s \in Streams |->
                    IF s \in Members(g) /\ staged[s].receipts # {}
                      THEN NoRows ELSE staged[s]]

CommitApplied(g) ==
    /\ Holds(g, "commit") /\ WorkerFree
    /\ Publish(g)
    /\ lock' = [s \in Streams |->
                  IF s \in Members(g) THEN "committed" ELSE lock[s]]
    /\ UNCHANGED <<ledgerVars, late, descriptor, idle, sweep, pending,
                   lifeVars>>

CommitComplete(g) ==
    /\ Holds(g, "committed")
    /\ led' = [s \in Streams |->
                 IF s \in Members(g)
                   THEN [Settled(led[s]) EXCEPT !.state = "COMMITTED"]
                   ELSE led[s]]
    /\ groups' = [groups EXCEPT ![g].phase = "APPLIED"]
    /\ pending' = pending - Cardinality(Members(g))
    /\ idle' = idle \ Members(g)
    /\ Release(Members(g))
    /\ UNCHANGED <<applied, receipt, duckVars, descriptor, sweep, lifeVars>>

CommitAbort(g) ==
    /\ \/ Holds(g, "commit")
       \/ process = "draining" /\ Holds(g, "committed")
    /\ led' = [s \in Streams |->
                 IF s \in Members(g) THEN Settled(led[s]) ELSE led[s]]
    /\ groups' = [groups EXCEPT ![g].phase = "ABORTED"]
    /\ Release(Members(g))
    /\ UNCHANGED <<applied, receipt, duckVars, descriptor, idle, sweep,
                   pending, lifeVars>>

CommitAmbiguous(g) ==
    /\ Holds(g, "commit") \/ Holds(g, "committed")
    /\ MayKeepRunning(Holds(g, "commit"), [kind |-> "commit", group |-> g])
    /\ Release(Members(g))
    /\ UNCHANGED <<applied, receipt, staged, visible, descriptor, idle, sweep,
                   pending, lifeVars>>

CommitUnresolved(g) ==
    /\ CommitAmbiguous(g)
    /\ led' = [s \in Streams |->
                 IF s \in Members(g) THEN Unresolved(led[s]) ELSE led[s]]
    /\ groups' = [groups EXCEPT ![g] = UnresolvedGroup(@)]

\* MarkCommitUnresolved, AbortCommit or CompleteCommit failed.
CommitUnrecorded(g) == CommitAmbiguous(g) /\ UNCHANGED <<led, groups>>

----------------------------------------------------------------------------
(* Orphan disposal.  cleanupGate admits one sweeper.  It collects orphans  *)
(* first, one lock at a time, and then takes each lock again to dispose of *)
(* the stream, without looking at its eligibility a second time.           *)

\* Mutant: a tombstone whose discard failed is not collected again.
EligibleActiveOnly(s) ==
    /\ Uncommitted(s)
    /\ led[s].op = "NONE"
    /\ led[s].cleanup = "ACTIVE" /\ s \in idle

Eligible(s) ==
    /\ Uncommitted(s)
    /\ led[s].op = "NONE"
    /\ led[s].cleanup = "PENDING" \/ s \in idle

SweepStart ==
    /\ Up /\ sweep.pc = "off"
    /\ sweep' = [SweepOff EXCEPT !.pc = "collect", !.todo = Existing]
    /\ UNCHANGED <<ledgerVars, duckVars, descriptor, lock, idle, pending,
                   lifeVars>>

SweepVisit(s) ==
    /\ sweep.pc = "collect" /\ s \in sweep.todo /\ lock[s] = "free"
    /\ sweep' = [sweep EXCEPT
                   !.todo = @ \ {s},
                   !.orphans = IF Eligible(s) THEN @ \cup {s} ELSE @]
    /\ UNCHANGED <<ledgerVars, duckVars, descriptor, lock, idle, pending,
                   lifeVars>>

NextOrphan(s) ==
    /\ sweep.pc \in {"collect", "next"} /\ sweep.todo = {}
    /\ s \in sweep.orphans /\ \A t \in sweep.orphans : s <= t
    /\ lock[s] = "free"

SweepMark(s) ==
    /\ NextOrphan(s)
    /\ led' = [led EXCEPT ![s].cleanup = "PENDING"]
    /\ sweep' = [sweep EXCEPT !.pc = "discard", !.cur = s,
                              !.orphans = @ \ {s}]
    /\ UNCHANGED <<applied, receipt, groups, duckVars, descriptor, lock, idle,
                   pending, lifeVars>>

\* UpdateStream failed: the stream is left for the next sweep.
SweepMarkFails(s) ==
    /\ NextOrphan(s)
    /\ sweep' = [sweep EXCEPT !.pc = "next", !.orphans = @ \ {s}]
    /\ UNCHANGED <<ledgerVars, duckVars, descriptor, lock, idle, pending,
                   lifeVars>>

Discard(s) ==
    /\ staged' = [staged EXCEPT ![s] = NoRows]
    /\ UNCHANGED visible

SweepGoes(pc) == sweep' = [sweep EXCEPT !.pc = pc,
                             !.cur = IF pc = "next" THEN None ELSE @]

\* DiscardPending, acknowledged or not; no lock is held.
SweepDiscard ==
    /\ sweep.pc = "discard" /\ WorkerFree
    /\ Discard(sweep.cur)
    /\ SweepGoes("delete") \/ SweepGoes("next")
    /\ UNCHANGED <<ledgerVars, late, descriptor, lock, idle, pending,
                   lifeVars>>

\* Mutant: a failed discard is taken for a successful one.
SweepDiscardIgnored ==
    /\ sweep.pc = "discard"
    /\ MayKeepRunning(TRUE, [kind |-> "discard", stream |-> sweep.cur])
    /\ SweepGoes("delete")
    /\ UNCHANGED <<ledgerVars, staged, visible, descriptor, lock, idle,
                   pending, lifeVars>>

SweepDiscardFails ==
    /\ sweep.pc = "discard"
    /\ MayKeepRunning(TRUE, [kind |-> "discard", stream |-> sweep.cur])
    /\ SweepGoes("next")
    /\ UNCHANGED <<ledgerVars, staged, visible, descriptor, lock, idle,
                   pending, lifeVars>>

\* Mutant: commit members are deleted with their stream.
DeletableAnyway(s) == led[s].op = "NONE"

\* DeleteStream needs operation NONE, and the foreign key of the commit
\* members, which has no ON DELETE, needs a stream no group ever named.  The
\* append receipts go with the stream.
Deletable(s) == led[s].op = "NONE" /\ ~InSomeGroup(s)

SweepDelete ==
    /\ sweep.pc = "delete" /\ lock[sweep.cur] = "free"
    /\ led[sweep.cur].cleanup = "PENDING"
    /\ Deletable(sweep.cur)
    /\ led' = [led EXCEPT ![sweep.cur] = Record("DELETED")]
    /\ applied' = [applied EXCEPT ![sweep.cur] = {}]
    /\ pending' = pending - 1
    /\ idle' = idle \ {sweep.cur}
    /\ SweepGoes("next")
    /\ UNCHANGED <<receipt, groups, duckVars, descriptor, lock, lifeVars>>

SweepDeleteFails ==
    /\ sweep.pc = "delete" /\ lock[sweep.cur] = "free"
    /\ SweepGoes("next")
    /\ UNCHANGED <<ledgerVars, duckVars, descriptor, lock, idle, pending,
                   lifeVars>>

\* All orphans seen, or the sweep's context ended between two of them.
SweepEnd ==
    /\ sweep.pc \in {"collect", "next"} /\ sweep.todo = {}
    /\ sweep' = SweepOff
    /\ UNCHANGED <<ledgerVars, duckVars, descriptor, lock, idle, pending,
                   lifeVars>>

----------------------------------------------------------------------------
(* The worker, time, shutdown and restart. *)

\* The worker finishes the operation whose caller left: it commits or not,
\* before it takes up another one.
ApplyLate ==
    \/ late.kind = "append" /\ ApplyAppend(late.stream, late.batch)
    \/ late.kind = "commit" /\ Publish(late.group)
    \/ late.kind = "discard" /\ Discard(late.stream)

WorkerFinishes ==
    /\ late # None
    /\ ApplyLate \/ UNCHANGED <<staged, visible>>
    /\ late' = None
    /\ UNCHANGED <<ledgerVars, memoryVars, idle, lifeVars>>

\* OrphanTTL passes without activity on a stream.
Age(s) ==
    /\ Uncommitted(s) /\ s \notin idle
    /\ idle' = idle \cup {s}
    /\ UNCHANGED <<ledgerVars, duckVars, memoryVars, lifeVars>>

\* Close sets closed, then visits every stream under its lock; its sweep is
\* one more turn of the sweeper.  A second Close visits them again.
Close ==
    /\ MayClose
    /\ Up /\ closing = {}
    /\ process' = IF process = "running" THEN "closed" ELSE process
    /\ closing' = Existing
    /\ stragglers' \in IF Closed THEN {stragglers} ELSE SUBSET Existing
    /\ UNCHANGED <<ledgerVars, duckVars, memoryVars, idle, restarts, lost>>

CloseVisit(s) ==
    /\ s \in closing /\ lock[s] = "free"
    /\ closing' = closing \ {s}
    /\ \/ UNCHANGED idle
       \/ Uncommitted(s) /\ led[s].op = "NONE" /\ idle' = idle \cup {s}
    /\ UNCHANGED <<ledgerVars, duckVars, memoryVars, process,
                   stragglers, restarts, lost>>

\* Streams with rows that are acknowledged, or just about to be, and not yet
\* in the destination.
Unpublished == {s \in Pending : /\ applied[s] # {} \/ lock[s] = "appended"
                                /\ visible[s] = <<>>}

\* StorageWriteCoordinator.Close, after Service.Close: the last operation of
\* the queue drops the staging schema, unless its context ends first; the
\* worker finishes what it runs, and every later answer is `closed'.
StopCoordinator ==
    /\ process = "closed" /\ closing = {}
    /\ process' = "draining"
    /\ \/ UNCHANGED <<staged, lost>>
       \/ /\ late = None
          /\ staged' = [s \in Streams |-> NoRows]
          /\ lost' = Unpublished
    /\ UNCHANGED <<ledgerVars, visible, late, memoryVars, idle,
                   closing, stragglers, restarts>>

\* The process stops, at once or after Close; both databases keep what they
\* committed.
Crash ==
    /\ Up /\ restarts < MaxRestarts
    /\ process' = "down" /\ restarts' = restarts + 1
    /\ late' = None
    /\ descriptor' = [s \in Streams |-> None]
    /\ Release(Streams)
    /\ sweep' = SweepOff
    /\ closing' = {} /\ stragglers' = {}
    /\ pending' = 0
    /\ UNCHANGED <<ledgerVars, staged, visible, idle, lost>>

\* validateWriteSnapshot, over the ledger ReconcileStartup has classified.
Covered(s, o) ==
    \E b \in applied[s] : o \in b.off .. b.off + RowsOf[b.payload] - 1

ContinuousReceipts(s) ==
    /\ \A b \in applied[s] : b.off + RowsOf[b.payload] <= led[s].rows
    /\ \A o \in 0 .. led[s].rows - 1 : Covered(s, o)
    /\ \A a, b \in applied[s] :
          a.off <= b.off /\ b.off < a.off + RowsOf[a.payload] => a = b

\* An unresolved receipt is at the next offset; the operation is the one its
\* token names, and ReconcileStartup has made its phase UNRESOLVED.
ReconcilableOperation(s) ==
    /\ receipt[s] # None => receipt[s].off = led[s].rows
    /\ CASE led[s].op = "NONE" -> receipt[s] = None
         [] led[s].op = "APPEND" ->
               /\ Unresolved(led[s]).phase = "UNRESOLVED"
               /\ receipt[s] # None /\ led[s].token = led[s].rows
         [] led[s].op = "COMMIT" ->
               /\ Unresolved(led[s]).phase = "UNRESOLVED"
               /\ led[s].token \in 1..Len(groups)
               /\ UnresolvedGroup(groups[led[s].token]).phase = "UNRESOLVED"
               /\ s \in Members(led[s].token)

\* validateWriteStreamRecord.  Its other checks, and the member counts of the
\* groups, cannot fail on the records of this model: NextOffset and RowCount
\* are one field, and a group is the set of its members.
WellFormed(s) == (led[s].op = "NONE") <=> (led[s].phase = "NONE")

ValidSnapshot ==
    /\ \A s \in Existing : WellFormed(s)
    /\ \A g \in 1..Len(groups) : \A s \in Members(g) :
          Exists(s) /\ led[s].rows = groups[g].expected[s]
    /\ \A s \in Existing : ContinuousReceipts(s) /\ ReconcilableOperation(s)

\* Mutant: only the open streams are counted.
RecountOpen == Cardinality({s \in Pending : led[s].state = "OPEN"})

\* Service.pending of the new process, from the records it installs.
Recount == Cardinality({s \in Pending : Uncommitted(s)})

\* NewStorageWriteCoordinator drops the staging schema, then
\* ReconcilePersistedState classifies and installs the ledger, or refuses to
\* start on an inconsistent one.
Restart ==
    /\ ~Up /\ ValidSnapshot
    /\ process' = "running"
    /\ staged' = [s \in Streams |-> NoRows]
    /\ led' = [s \in Streams |-> Unresolved(led[s])]
    /\ groups' = [g \in 1..Len(groups) |-> UnresolvedGroup(groups[g])]
    /\ pending' = Recount
    /\ lost' = Unpublished
    /\ UNCHANGED <<applied, receipt, visible, late, descriptor, lock, idle,
                   sweep, closing, stragglers, restarts>>

----------------------------------------------------------------------------
Offsets == 0..MaxRows \cup {None}

AppendStep(s) ==
    \/ \E off \in Offsets, schema \in Schemas \cup {None}, p \in Payloads :
          AppendBegin(s, off, schema, p)
    \/ AppendApplied(s)
    \/ AppendComplete(s)
    \/ AppendAbort(s)
    \/ AppendUnresolved(s)
    \/ AppendUnrecorded(s)

CommitStep(g) ==
    \/ CommitRetry(g)
    \/ CommitApplied(g)
    \/ CommitComplete(g)
    \/ CommitAbort(g)
    \/ CommitUnresolved(g)
    \/ CommitUnrecorded(g)

SweepStep ==
    \/ SweepStart
    \/ \E s \in Streams : SweepVisit(s) \/ SweepMark(s) \/ SweepMarkFails(s)
    \/ SweepDiscard
    \/ SweepDiscardFails
    \/ SweepDelete
    \/ SweepDeleteFails
    \/ SweepEnd

Next ==
    \/ \E s \in Streams : \/ CreateStream(s)
                          \/ CreateDefault(s)
                          \/ AppendStep(s)
                          \/ Finalize(s)
                          \/ Age(s)
                          \/ CloseVisit(s)
    \/ \E S \in SUBSET Pending \ {{}} : CommitBegin(S)
    \/ \E g \in 1..MaxGroups : CommitStep(g)
    \/ SweepStep
    \/ WorkerFinishes
    \/ Close
    \/ StopCoordinator
    \/ Crash
    \/ Restart

Spec == Init /\ [][Next]_vars

\* RunCleanup sweeps at every tick; locks are granted in turn; every call
\* returns, at the latest at its operation timeout; a write or a discard that
\* is retried for ever succeeds some time.
AppendReturns(s) == \/ AppendComplete(s) \/ AppendAbort(s)
                    \/ AppendUnresolved(s) \/ AppendUnrecorded(s)

CommitReturns(g) == \/ CommitComplete(g) \/ CommitAbort(g)
                    \/ CommitUnresolved(g) \/ CommitUnrecorded(g)

SweepFairness ==
    /\ WF_vars(SweepStart) /\ WF_vars(SweepEnd)
    /\ \A s \in Streams : SF_vars(SweepVisit(s)) /\ SF_vars(SweepMark(s))
    /\ SF_vars(SweepDiscard /\ sweep'.pc = "delete")
    /\ SF_vars(SweepDelete) /\ WF_vars(SweepDeleteFails)

FairSpec ==
    /\ Spec
    /\ SweepFairness
    /\ WF_vars(WorkerFinishes)
    /\ \A s \in Streams : WF_vars(AppendReturns(s))
    /\ \A g \in 1..MaxGroups : WF_vars(CommitReturns(g))

----------------------------------------------------------------------------
(* Properties. *)

StreamRecord ==
    [state : {"UNBORN", "OPEN", "FINALIZED", "COMMITTED", "DELETED"},
     rows : Nat, fp : Schemas \cup {None},
     op : {"NONE", "APPEND", "COMMIT"},
     phase : {"NONE", "PREPARED", "UNRESOLVED"},
     token : Nat,
     cleanup : {"ACTIVE", "PENDING"}]

CommitGroup ==
    [members : SUBSET Pending,
     phase : {"PREPARED", "UNRESOLVED", "APPLIED", "ABORTED"},
     expected : [Pending -> Nat]]

LateOperation ==
    [kind : {"append"}, stream : Streams, batch : Batch]
        \cup [kind : {"commit"}, group : 1..Len(groups)]
        \cup [kind : {"discard"}, stream : Pending]

Sweep ==
    [pc : {"off", "collect", "next", "discard", "delete"},
     todo : SUBSET Streams, orphans : SUBSET Pending,
     cur : Pending \cup {None}]

\* Every variable keeps its type: the columns of the ledger tables and the
\* fields of Service and streamState.
TypeOK ==
    /\ led \in [Streams -> StreamRecord]
    /\ applied \in [Streams -> SUBSET Batch]
    /\ receipt \in [Streams -> Batch \cup {None}]
    /\ groups \in Seq(CommitGroup)
    /\ staged \in [Streams -> [rows : Nat, receipts : SUBSET Batch]]
    /\ visible \in [Streams -> Seq(SUBSET Batch)]
    /\ late \in LateOperation \cup {None}
    /\ descriptor \in [Streams -> Schemas \cup {None}]
    /\ lock \in [Streams -> {"free", "append", "appended", "commit",
                             "committed"}]
    /\ sweep \in Sweep
    /\ idle \cup closing \cup stragglers \cup lost \subseteq Streams
    /\ process \in {"running", "closed", "draining", "down"}
    /\ pending \in Int /\ restarts \in Nat

\* Offset retries are exactly-once: whatever timeouts, lost answers, retries,
\* aborts, sweeps and crashes happen, the destination receives the rows of a
\* PENDING stream in at most one transaction, all of them and only the ones
\* the append ledger acknowledged, and never while the stream is open.
ExactlyOnce ==
    \A s \in Pending :
        visible[s] # <<>> => /\ visible[s] = <<applied[s]>>
                             /\ led[s].state \in {"FINALIZED", "COMMITTED"}

\* A COMMITTED stream's acknowledged rows are in the destination, unless a
\* restart dropped them with the staging schema before the commit.
CommittedRowsVisible ==
    \A s \in Pending \ lost :
        led[s].state = "COMMITTED" /\ applied[s] # {}
            => visible[s] = <<applied[s]>>

\* AppendDefault is at-least-once: every acknowledged batch of a default
\* stream is in the table, also when its first answer was lost.
DefaultAtLeastOnce ==
    \A s \in Default : \A b \in applied[s] :
        \E i \in 1..Len(visible[s]) : b \in visible[s][i]

\* Whenever the process stops, the ledger it leaves passes
\* validateWriteSnapshot: receipts tile the row count, an unresolved receipt
\* is at the next offset, operations and commit groups name each other.  A
\* ledger that failed it would keep the emulator from starting.
StartupAccepted == ValidSnapshot

\* The backend is at most one batch ahead of the ledger: what is staged for
\* a live stream is what the ledger acknowledged plus at most the one batch
\* whose answer was lost, at the next offset.
StagedAhead ==
    \A s \in Pending \ lost :
        Uncommitted(s) /\ led[s].cleanup = "ACTIVE" /\ visible[s] = <<>> =>
            \/ staged[s] = [rows |-> led[s].rows, receipts |-> applied[s]]
            \/ \E b \in staged[s].receipts :
                  /\ b.off = led[s].rows
                  /\ staged[s] = [rows |-> led[s].rows + RowsOf[b.payload],
                                  receipts |-> applied[s] \cup {b}]

\* MaxStreams admission: `pending' counts the open and finalized streams,
\* through commits, sweeps, Close and the recount of a restart, so a slot is
\* neither leaked nor given out twice, and no more streams live than that.
StreamSlots ==
    Up => /\ pending = Cardinality({s \in Pending : Uncommitted(s)})
          /\ pending <= MaxStreams

\* A stream whose record the sweep deleted leaves nothing in the backend,
\* and no operation a caller abandoned can bring its rows back.
DeletedLeavesNothing ==
    \A s \in Pending : led[s].state = "DELETED" =>
        /\ staged[s] = NoRows /\ visible[s] = <<>>
        /\ late # None /\ late.kind = "append" => late.stream # s

\* AppendDefault has no receipts, so a lost answer and a retry insert a batch
\* twice; but every insert, also by an attempt whose caller has left, is at
\* the ledger's next offset: the copies of a batch follow one another in the
\* table, and none arrives once the batch has been acknowledged.
DefaultInOrder ==
    [][\A s \in Default : visible'[s] # visible[s] =>
         \A b \in visible'[s][Len(visible'[s])] : b.off = led[s].rows]_vars

\* A COMMITTED stream stays COMMITTED and keeps its row count, though a sweep
\* that collected it before the commit goes on to dispose of it.
CommittedForever ==
    [][\A s \in Pending : led[s].state = "COMMITTED" =>
         /\ led'[s].state = "COMMITTED"
         /\ led'[s].rows = led[s].rows
         /\ applied'[s] = applied[s]]_vars

\* A stream that is eligible for disposal, and was never named by a commit, is
\* in the end deleted, its staging discarded, unless a client uses it again
\* (an append that slips in before the mark and stays UNRESOLVED included) or
\* the process stops, and the next one takes it up: no failed write or discard
\* of the sweep drops it for good.
OrphanReclaimed ==
    \A s \in Pending :
        Eligible(s) /\ Deletable(s)
            ~> \/ led[s].state = "DELETED"
               \/ led[s].cleanup = "ACTIVE" /\ ~Eligible(s)
               \/ ~Deletable(s)
               \/ process # "running"

----------------------------------------------------------------------------
(* What comments of the code say and the model refutes. *)

\* lifecycle.go:3: "Orphan cleanup models server-side disposal of uncommitted
\* PENDING streams."  No COMMITTED stream is in cleanup, where GetStream,
\* Finalize and BatchCommit answer that it was discarded.
DisposesUncommittedOnly ==
    \A s \in Pending : led[s].state = "COMMITTED" => led[s].cleanup = "ACTIVE"

\* lifecycle.go:4-5: "finalized-but-uncommitted data remains invisible".  A
\* stream with no commit under way and none completed has no visible rows.
UncommittedInvisible ==
    \A s \in Pending : visible[s] # <<>> =>
        led[s].state = "COMMITTED" \/ led[s].op = "COMMIT"

\* ports/coordinator.go:101-102: "CommitPending must make every named stream
\* visible in one transaction or make none visible."  The members of an
\* APPLIED group that had rows are visible, all of them or none.
CommitAllOrNone ==
    \A g \in 1..Len(groups) : groups[g].phase = "APPLIED" =>
        \A s, t \in Members(g) :
            visible[s] # <<>> /\ applied[t] # {} => visible[t] # <<>>

=============================================================================
