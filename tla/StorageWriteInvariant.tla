----------------------- MODULE StorageWriteInvariant -----------------------
(***************************************************************************)
(* The inductive invariant of StorageWrite, the lemmas that say what a     *)
(* step leaves alone, and the steps that touch the ledger or the sweep's   *)
(* own position only.  StorageWriteProofs has the theorems.                *)
(***************************************************************************)
EXTENDS StorageWrite, TLAPS

\* The worker runs an append, or a discard, of stream s that nobody awaits.
LateAppend(s) == late # None /\ late.kind = "append" /\ late.stream = s
LateDiscard(s) == late # None /\ late.kind = "discard" /\ late.stream = s

\* A call to append holds the stream's lock.
Appending(s) == lock[s] \in {"append", "appended"}

\* Batch b is staged and the ledger does not count it yet.
Ahead(s, b) ==
    /\ b.off = led[s].rows
    /\ staged[s] = [rows |-> led[s].rows + RowsOf[b.payload],
                    receipts |-> applied[s] \cup {b}]

\* What may be staged for a stream whose rows are not published.
Tracked(s) ==
    \/ staged[s] = NoRows
    \/ staged[s] = [rows |-> led[s].rows, receipts |-> applied[s]]
    \/ \E b \in staged[s].receipts : Ahead(s, b)

\* The stream's record against its receipt, its lock and the worker.
LedgerInv(s) ==
    /\ led[s].state = "UNBORN" =>
          /\ led[s].rows = 0 /\ led[s].op = "NONE" /\ led[s].fp = None
          /\ led[s].cleanup = "ACTIVE"
          /\ descriptor[s] = None
    /\ led[s].cleanup = "PENDING" => lock[s] = "free"
    /\ receipt[s] # None =>
          receipt[s].off = led[s].rows /\ led[s].op = "APPEND"
    /\ Appending(s) => /\ receipt[s] # None
                       /\ s \in Pending => led[s].state = "OPEN"
    /\ lock[s] \in {"commit", "committed"} => led[s].op = "COMMIT"
    /\ \A b \in applied[s] : b.off + RowsOf[b.payload] <= led[s].rows
    /\ Exists(s) /\ descriptor[s] # None => led[s].fp # None
    /\ LateAppend(s) => /\ late.batch.off = led[s].rows
                        /\ lock[s] # "appended"
                        /\ led[s].state # "UNBORN"

\* The backend against the ledger of a PENDING stream.
BackendInv(s) ==
    /\ visible[s] = <<>> => Tracked(s)
    /\ visible[s] # <<>> => /\ visible[s] = <<applied[s]>>
                            /\ staged[s] = NoRows
                            /\ InSomeGroup(s)
    /\ lock[s] = "appended" => staged[s] = NoRows \/ Ahead(s, receipt[s])
    /\ LateAppend(s) => visible[s] = <<>>
    /\ led[s].state = "DELETED" => /\ staged[s] = NoRows /\ visible[s] = <<>>
                                   /\ ~LateAppend(s)
    /\ LateDiscard(s) => led[s].cleanup = "PENDING" /\ sweep.pc # "delete"

\* Members of a commit group are finalized and no longer grow.
GroupInv ==
    /\ \A g \in 1..Len(groups) : \A s \in Members(g) :
          /\ led[s].state \in {"FINALIZED", "COMMITTED"}
          /\ groups[g].expected[s] = led[s].rows
    /\ \A s \in Pending : led[s].state = "COMMITTED" => InSomeGroup(s)

\* What the sweep did so far for the stream it disposes of still holds.
SweepInv ==
    /\ \A s \in sweep.orphans : led[s].state # "UNBORN"
    /\ sweep.pc \in {"discard", "delete"} =>
          /\ sweep.cur \in Pending
          /\ led[sweep.cur].cleanup = "PENDING"
    /\ sweep.pc = "delete" =>
          /\ staged[sweep.cur] = NoRows
          /\ ~LateAppend(sweep.cur)

\* The inductive invariant.
IInv ==
    /\ TypeOK
    /\ \A s \in Streams : LedgerInv(s)
    /\ \A s \in Pending : BackendInv(s)
    /\ GroupInv
    /\ SweepInv

----------------------------------------------------------------------------
(* What the operators on stream records change. *)

States == {"UNBORN", "OPEN", "FINALIZED", "COMMITTED", "DELETED"}

\* The fields of the record CreateStream and DeleteStream write.
LEMMA RecordFields ==
    ASSUME NEW st \in States
    PROVE  /\ Record(st) \in StreamRecord
           /\ Record(st).state = st /\ Record(st).rows = 0
           /\ Record(st).fp = None /\ Record(st).op = "NONE"
           /\ Record(st).cleanup = "ACTIVE"
BY DEF Record, StreamRecord, States

\* CompleteAppend, AbortAppend and their commit counterparts clear the
\* operation and nothing else.
LEMMA SettledFields ==
    ASSUME NEW rec \in StreamRecord
    PROVE  /\ Settled(rec) \in StreamRecord
           /\ Settled(rec).state = rec.state /\ Settled(rec).rows = rec.rows
           /\ Settled(rec).fp = rec.fp /\ Settled(rec).cleanup = rec.cleanup
           /\ Settled(rec).op = "NONE"
BY DEF Settled, WithOp, StreamRecord

\* MarkAppendUnresolved, MarkCommitUnresolved and ReconcileStartup change the
\* phase of the operation and nothing else.
LEMMA UnresolvedFields ==
    ASSUME NEW rec \in StreamRecord
    PROVE  /\ Unresolved(rec) \in StreamRecord
           /\ Unresolved(rec).state = rec.state
           /\ Unresolved(rec).rows = rec.rows
           /\ Unresolved(rec).fp = rec.fp
           /\ Unresolved(rec).cleanup = rec.cleanup
           /\ Unresolved(rec).op = rec.op
BY DEF Unresolved, StreamRecord

\* A commit group names PENDING streams and an expected row count of each.
LEMMA MemberTypes ==
    ASSUME TypeOK, NEW g \in 1..Len(groups)
    PROVE  /\ groups[g] \in CommitGroup
           /\ Members(g) \subseteq Pending /\ Members(g) \subseteq Streams
           /\ groups[g].expected \in [Pending -> Nat]
<1>1. groups[g] \in CommitGroup
    BY DEF TypeOK
<1> QED
    BY <1>1 DEF CommitGroup, Members, Streams

\* The empty ledger and backend the emulator starts with satisfy the
\* inductive invariant.
LEMMA InitIInv == Init => IInv
<1> SUFFICES ASSUME Init PROVE IInv
    OBVIOUS
<1>1. TypeOK
  <2>1. led \in [Streams -> StreamRecord]
    BY RecordFields DEF Init, States
  <2>2. staged \in [Streams -> [rows : Nat, receipts : SUBSET Batch]]
    BY DEF Init, NoRows
  <2>3. sweep \in Sweep
    BY DEF Init, SweepOff, Sweep
  <2>4. visible \in [Streams -> Seq(SUBSET Batch)] /\ groups \in Seq(CommitGroup)
    BY DEF Init
  <2> QED
    BY <2>1, <2>2, <2>3, <2>4 DEF Init, TypeOK
<1>2. \A s \in Streams : LedgerInv(s)
    BY RecordFields DEF Init, LedgerInv, States, Appending, LateAppend, Exists
<1>3. \A s \in Pending : BackendInv(s)
    BY DEF Init, BackendInv, Tracked, LateAppend, LateDiscard, Streams
<1>4. GroupInv /\ SweepInv
    BY RecordFields DEF Init, GroupInv, SweepInv, SweepOff, States, Streams
<1> QED
    BY <1>1, <1>2, <1>3, <1>4 DEF IInv

\* Unlocking streamState.mu of some streams.
LEMMA Released ==
    ASSUME TypeOK, NEW S \in SUBSET Streams, Release(S)
    PROVE  /\ lock' \in [Streams -> {"free", "append", "appended", "commit",
                                     "committed"}]
           /\ \A t \in S : lock'[t] = "free"
           /\ \A t \in Streams \ S : lock'[t] = lock[t]
BY DEF Release, TypeOK

\* An absent staging table has the type of one.
LEMMA NoRowsType == NoRows \in [rows : Nat, receipts : SUBSET Batch]
BY DEF NoRows

----------------------------------------------------------------------------
(* What a step leaves alone stays true. *)

SameRows(t) == led'[t].state = led[t].state /\ led'[t].rows = led[t].rows

SameLedger(t) ==
    /\ SameRows(t)
    /\ led'[t].fp = led[t].fp /\ led'[t].op = led[t].op
    /\ led'[t].cleanup = led[t].cleanup
    /\ applied'[t] = applied[t] /\ receipt'[t] = receipt[t]

LateKept(t) ==
    /\ LateAppend(t)' => LateAppend(t) /\ late' = late
    /\ LateDiscard(t)' => LateDiscard(t)

\* A step that changes neither the ledger of a stream nor its lock.
LEMMA LedgerFrame ==
    ASSUME NEW t, LedgerInv(t), SameLedger(t), LateKept(t), lock'[t] = lock[t],
           descriptor'[t] = descriptor[t]
    PROVE  LedgerInv(t)'
BY DEF LedgerInv, SameLedger, SameRows, LateKept, LateAppend, Appending, Exists

\* A step that neither stages, publishes nor acknowledges rows of a stream.
LEMMA BackendFrame ==
    ASSUME NEW t, BackendInv(t), SameRows(t), LateKept(t),
           applied'[t] = applied[t],
           staged'[t] = staged[t], visible'[t] = visible[t],
           lock'[t] = "appended" => /\ lock[t] = "appended"
                                    /\ receipt'[t] = receipt[t],
           led[t].cleanup = "PENDING" => led'[t].cleanup = "PENDING",
           sweep'.pc = "delete" => sweep.pc = "delete",
           InSomeGroup(t) => InSomeGroup(t)'
    PROVE  BackendInv(t)'
<1>1. Tracked(t) => Tracked(t)'
    BY DEF Tracked, Ahead, SameRows
<1>2. Ahead(t, receipt[t]) /\ lock'[t] = "appended" => Ahead(t, receipt[t])'
    BY DEF Ahead, SameRows
<1> QED
    BY <1>1, <1>2 DEF BackendInv, SameRows, LateKept

\* A step that keeps the commit groups, and the rows and states of streams.
LEMMA GroupFrame ==
    ASSUME TypeOK, GroupInv, groups' = groups,
           \A t \in Pending : SameRows(t)
    PROVE  GroupInv'
BY MemberTypes DEF GroupInv, SameRows, InSomeGroup, Members

\* A step outside the sweep that keeps every tombstone and stages nothing for
\* a stream whose staging table is gone.
LEMMA SweepFrame ==
    ASSUME TypeOK, SweepInv, sweep' = sweep,
           \A t \in Streams :
              /\ led[t].state # "UNBORN" => led'[t].state # "UNBORN"
              /\ led'[t].cleanup = led[t].cleanup
              /\ LateAppend(t)' => LateAppend(t)
              /\ staged[t] = NoRows => staged'[t] = NoRows
    PROVE  SweepInv'
<1>1. sweep.orphans \subseteq Streams /\ (sweep.cur \in Pending => sweep.cur \in Streams)
    BY DEF TypeOK, Sweep, Streams
<1> QED
    BY <1>1 DEF SweepInv

----------------------------------------------------------------------------
(* The steps that touch the ledger only. *)

\* A step outside the ledger and the backend: of a sweep between two streams,
\* of Close, or of time.
LEMMA QuietStep ==
    ASSUME IInv, UNCHANGED <<ledgerVars, duckVars, descriptor, lock>>, TypeOK',
           \A t \in sweep'.orphans : led[t].state # "UNBORN",
           sweep' = sweep \/ sweep'.pc \notin {"discard", "delete"}
    PROVE  IInv'
<1> USE DEF ledgerVars, duckVars
<1>1. ASSUME NEW t \in Streams PROVE LedgerInv(t)'
    BY LedgerFrame
       DEF IInv, SameLedger, SameRows, LateKept, LateAppend, LateDiscard
<1>2. ASSUME NEW t \in Pending PROVE BackendInv(t)'
    BY BackendFrame
       DEF IInv, SameRows, LateKept, LateAppend, LateDiscard, InSomeGroup, Members
<1>3. GroupInv'
    BY GroupFrame DEF IInv, SameRows
<1>4. SweepInv'
    BY DEF IInv, SweepInv, LateAppend
<1> QED
    BY <1>1, <1>2, <1>3, <1>4 DEF IInv

\* SweepOrphans while it collects orphans, passes one over, or ends.
LEMMA SweepQuietSteps ==
    ASSUME IInv,
           \/ SweepStart
           \/ \E s \in Streams : SweepVisit(s) \/ SweepMarkFails(s)
           \/ SweepDeleteFails
           \/ SweepEnd
    PROVE  IInv'
<1>1. /\ TypeOK /\ SweepInv
      /\ UNCHANGED <<ledgerVars, duckVars, descriptor, lock, idle, pending, lifeVars>>
    BY DEF IInv, SweepStart, SweepVisit, SweepMarkFails, SweepDeleteFails, SweepEnd
<1>2. /\ sweep' \in Sweep
      /\ sweep'.pc \notin {"discard", "delete"}
      /\ \A t \in sweep'.orphans : led[t].state # "UNBORN"
  <2>0. sweep \in Sweep /\ \A t \in sweep.orphans : led[t].state # "UNBORN"
    BY <1>1 DEF TypeOK, SweepInv
  <2>1. CASE SweepStart
    BY <2>1 DEF SweepStart, SweepOff, Sweep, Existing
  <2>2. CASE \E s \in Streams : SweepVisit(s)
    <3> PICK s \in Streams : SweepVisit(s)
      BY <2>2
    <3>1. /\ sweep.pc = "collect"
          /\ sweep' = [sweep EXCEPT !.todo = @ \ {s}, !.orphans =
                         IF Eligible(s) THEN @ \cup {s} ELSE @]
      BY DEF SweepVisit
    <3>2. Eligible(s) => s \in Pending /\ led[s].state # "UNBORN"
      BY DEF Eligible, Uncommitted
    <3> QED
      BY <2>0, <3>1, <3>2 DEF Sweep
  <2>3. CASE \E s \in Streams : SweepMarkFails(s)
    <3> PICK s \in Streams : SweepMarkFails(s)
      BY <2>3
    <3>1. sweep' = [sweep EXCEPT !.pc = "next", !.orphans = @ \ {s}]
      BY DEF SweepMarkFails
    <3> QED
      BY <2>0, <3>1 DEF Sweep
  <2>4. CASE SweepDeleteFails
    BY <2>0, <2>4 DEF SweepDeleteFails, SweepGoes, Sweep
  <2>5. CASE SweepEnd
    BY <2>5 DEF SweepEnd, SweepOff, Sweep
  <2> QED
    BY <2>1, <2>2, <2>3, <2>4, <2>5
<1>3. TypeOK'
    BY <1>1, <1>2
       DEF TypeOK, ledgerVars, duckVars, lifeVars, LateOperation
<1> QED
    BY <1>1, <1>2, <1>3, QuietStep

\* OrphanTTL passing, and Close setting closed and visiting the streams.
LEMMA LifeSteps ==
    ASSUME IInv, \/ \E s \in Streams : Age(s) \/ CloseVisit(s)
                 \/ Close
    PROVE  IInv'
<1>1. TypeOK /\ UNCHANGED <<ledgerVars, duckVars, memoryVars, restarts, lost>>
    BY DEF IInv, Age, CloseVisit, Close, lifeVars
<1>2. /\ idle' \cup closing' \cup stragglers' \subseteq Streams
      /\ process' \in {"running", "closed", "draining", "down"}
  <2>1. CASE \E s \in Streams : Age(s)
    BY <1>1, <2>1 DEF Age, TypeOK, lifeVars
  <2>2. CASE \E s \in Streams : CloseVisit(s)
    BY <1>1, <2>2 DEF CloseVisit, TypeOK
  <2>3. CASE Close
    BY <1>1, <2>3 DEF Close, TypeOK, Existing
  <2> QED
    BY <2>1, <2>2, <2>3
<1>3. TypeOK'
    BY <1>1, <1>2 DEF TypeOK, ledgerVars, duckVars, memoryVars, LateOperation
<1> QED
    BY <1>1, <1>3, QuietStep DEF memoryVars, IInv, SweepInv

\* The steps that write one stream's ledger record and leave the backend
\* alone: nobody else's facts change.
OnlyLedgerOf(s) ==
    /\ UNCHANGED <<groups, duckVars, sweep>>
    /\ \A t \in Streams \ {s} :
          /\ led'[t] = led[t] /\ applied'[t] = applied[t]
          /\ receipt'[t] = receipt[t] /\ lock'[t] = lock[t]
          /\ descriptor'[t] = descriptor[t]

\* A step on the ledger of one stream disturbs no other stream.
LEMMA OthersKeepLedger ==
    ASSUME IInv, NEW s \in Streams, OnlyLedgerOf(s), NEW t \in Streams, t # s
    PROVE  LedgerInv(t)' /\ (t \in Pending => BackendInv(t)')
<1>1. LedgerInv(t)'
    BY LedgerFrame DEF IInv, OnlyLedgerOf, SameLedger, SameRows, LateKept,
       LateAppend, LateDiscard, duckVars
<1>2. ASSUME t \in Pending PROVE BackendInv(t)'
    BY <1>2, BackendFrame DEF IInv, OnlyLedgerOf, SameRows, LateKept, LateAppend,
       LateDiscard, InSomeGroup, Members, duckVars
<1> QED
    BY <1>1, <1>2

\* CreateStream, and lookupOrCreateDefault for a new default stream.
LEMMA CreateSteps ==
    ASSUME IInv, NEW s \in Streams, CreateStream(s) \/ CreateDefault(s)
    PROVE  IInv'
<1> DEFINE st == IF s \in Pending THEN "OPEN" ELSE "COMMITTED"
<1>1. TypeOK /\ LedgerInv(s) /\ GroupInv /\ SweepInv
    BY DEF IInv
<1>2. /\ led[s].state = "UNBORN" /\ led' = [led EXCEPT ![s] = Record(st)]
      /\ UNCHANGED <<applied, receipt, groups, duckVars, descriptor, lock, sweep,
                     lifeVars>>
      /\ idle' = idle \ {s} /\ pending' \in Int
    BY <1>1, StreamsAssumption
       DEF CreateStream, CreateDefault, memoryVars, TypeOK, Streams
<1>3. /\ Record(st) \in StreamRecord /\ Record(st).state = st
      /\ Record(st).rows = 0 /\ Record(st).fp = None
      /\ Record(st).op = "NONE" /\ Record(st).cleanup = "ACTIVE"
    BY RecordFields DEF States
<1> HIDE DEF st
<1>4. /\ led' \in [Streams -> StreamRecord] /\ led'[s] = Record(st)
      /\ \A t \in Streams \ {s} : led'[t] = led[t]
    BY <1>1, <1>2, <1>3 DEF TypeOK
<1>5. TypeOK'
    BY <1>1, <1>2, <1>4 DEF TypeOK, duckVars, lifeVars, LateOperation
<1>6. OnlyLedgerOf(s)
    BY <1>2, <1>4 DEF OnlyLedgerOf
<1>7. LedgerInv(s)'
    BY <1>1, <1>2, <1>3, <1>4
       DEF LedgerInv, LateAppend, Appending, Exists, duckVars, st
<1>8. ASSUME s \in Pending PROVE BackendInv(s)'
  <2>1. /\ BackendInv(s) /\ led[s].cleanup = "ACTIVE" /\ lock[s] # "appended"
        /\ led'[s].rows = led[s].rows /\ led'[s].state = "OPEN"
    BY <1>1, <1>3, <1>4, <1>8, <1>2 DEF IInv, LedgerInv, Appending, st
  <2>2. Tracked(s) => Tracked(s)'
    BY <1>2, <2>1 DEF Tracked, Ahead, duckVars
  <2> QED
    BY <1>2, <2>1, <2>2
       DEF BackendInv, LateAppend, LateDiscard, duckVars, InSomeGroup, Members
<1>9. GroupInv'
    BY <1>1, <1>2, <1>3, <1>4, MemberTypes
       DEF GroupInv, InSomeGroup, Members, st, Streams
<1>10. SweepInv'
    BY <1>1, <1>2, <1>3, <1>4
       DEF SweepInv, LedgerInv, LateAppend, duckVars, TypeOK, Sweep, Streams, st
<1> QED
    BY <1>5, <1>6, <1>7, <1>8, <1>9, <1>10, OthersKeepLedger DEF IInv, Streams

\* Finalize moves an open stream without an unresolved append.
LEMMA FinalizeStep ==
    ASSUME IInv, NEW s \in Streams, Finalize(s)
    PROVE  IInv'
<1>1. /\ TypeOK /\ LedgerInv(s) /\ GroupInv /\ SweepInv
      /\ s \in Pending /\ BackendInv(s)
    BY DEF IInv, Finalize
<1>2. /\ led' = [led EXCEPT ![s].state = "FINALIZED"] /\ Exists(s)
      /\ led[s].state # "COMMITTED"
      /\ idle' = idle \ {s} /\ receipt[s] = None /\ lock[s] = "free"
      /\ UNCHANGED <<applied, receipt, groups, duckVars, memoryVars, lifeVars>>
    BY DEF Finalize, Admitted
<1>3. /\ led' \in [Streams -> StreamRecord] /\ led'[s].state = "FINALIZED"
      /\ led'[s].rows = led[s].rows /\ led'[s].cleanup = led[s].cleanup
      /\ led'[s].fp = led[s].fp
      /\ \A t \in Streams \ {s} : led'[t] = led[t]
  <2> DEFINE new == [led[s] EXCEPT !.state = "FINALIZED"]
  <2>1. /\ new \in StreamRecord /\ new.state = "FINALIZED"
        /\ new.rows = led[s].rows /\ new.cleanup = led[s].cleanup
        /\ new.fp = led[s].fp
    <3>1. led[s] \in StreamRecord
      BY <1>1 DEF TypeOK
    <3> QED
      BY <3>1 DEF StreamRecord
  <2>2. led' = [led EXCEPT ![s] = new]
    BY <1>2
  <2> HIDE DEF new
  <2> QED
    BY <1>1, <2>1, <2>2 DEF TypeOK
<1>4. TypeOK'
    BY <1>1, <1>2, <1>3 DEF TypeOK, duckVars, memoryVars, lifeVars, LateOperation
<1>5. OnlyLedgerOf(s)
    BY <1>2, <1>3 DEF OnlyLedgerOf, memoryVars
<1>6. LedgerInv(s)'
    BY <1>1, <1>2, <1>3
       DEF LedgerInv, LateAppend, Appending, Exists, duckVars, memoryVars
<1>7. BackendInv(s)'
  <2>1. Tracked(s) => Tracked(s)'
    BY <1>2, <1>3 DEF Tracked, Ahead, duckVars
  <2> QED
    BY <1>1, <1>2, <1>3, <2>1 DEF BackendInv, LateAppend, LateDiscard, duckVars,
       memoryVars, InSomeGroup, Members
<1>8. GroupInv'
    BY <1>1, <1>2, <1>3, MemberTypes DEF GroupInv, InSomeGroup, Members, Streams
<1>9. SweepInv'
    BY <1>1, <1>2, <1>3
       DEF SweepInv, LateAppend, duckVars, memoryVars, TypeOK, Sweep, Streams
<1> QED
    BY <1>4, <1>5, <1>6, <1>7, <1>8, <1>9, OthersKeepLedger DEF IInv, Streams

============================================================================
