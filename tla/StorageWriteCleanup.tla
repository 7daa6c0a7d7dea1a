------------------------ MODULE StorageWriteCleanup ------------------------
(***************************************************************************)
(* The steps that throw staging tables away (the sweep, the shutdown of    *)
(* the coordinator, a crash and the restart after it) preserve the         *)
(* inductive invariant of StorageWrite.                                    *)
(***************************************************************************)
EXTENDS StorageWriteInvariant, FiniteSetTheorems

\* The sweep writes the tombstone of an orphan, under its lock.
LEMMA SweepMarkStep ==
    ASSUME IInv, NEW s \in Streams, SweepMark(s)
    PROVE  IInv'
<1> DEFINE new == [led[s] EXCEPT !.cleanup = "PENDING"]
<1>1. /\ TypeOK /\ LedgerInv(s) /\ GroupInv /\ SweepInv
      /\ s \in sweep.orphans /\ lock[s] = "free"
    BY DEF IInv, SweepMark, NextOrphan
<1>2. /\ led' = [led EXCEPT ![s] = new]
      /\ sweep' = [sweep EXCEPT !.pc = "discard", !.cur = s,
                                !.orphans = sweep.orphans \ {s}]
      /\ UNCHANGED <<applied, receipt, groups, duckVars, descriptor, lock, idle,
                     pending, lifeVars>>
    BY DEF SweepMark
<1>3. /\ s \in Pending /\ BackendInv(s) /\ sweep \in Sweep
      /\ led[s].state # "UNBORN" /\ led[s] \in StreamRecord
    BY <1>1 DEF IInv, TypeOK, Sweep, SweepInv
<1>4. /\ new \in StreamRecord /\ new.state = led[s].state
      /\ new.rows = led[s].rows /\ new.fp = led[s].fp /\ new.op = led[s].op
      /\ new.cleanup = "PENDING"
    BY <1>3 DEF StreamRecord
<1> HIDE DEF new
<1>5. /\ led' \in [Streams -> StreamRecord] /\ led'[s] = new
      /\ \A t \in Streams \ {s} : led'[t] = led[t]
    BY <1>1, <1>2, <1>4 DEF TypeOK
<1>6. /\ sweep' \in Sweep /\ sweep'.pc = "discard" /\ sweep'.cur = s
      /\ sweep'.orphans \subseteq sweep.orphans
    BY <1>2, <1>3 DEF Sweep
<1>7. TypeOK'
    BY <1>1, <1>2, <1>5, <1>6 DEF TypeOK, duckVars, lifeVars, LateOperation
<1>8. ASSUME NEW t \in Streams
      PROVE  /\ SameRows(t) /\ LateKept(t)
             /\ led[t].cleanup = "PENDING" => led'[t].cleanup = "PENDING"
    BY <1>2, <1>4, <1>5
       DEF SameRows, LateKept, LateAppend, LateDiscard, duckVars
<1>9. ASSUME NEW t \in Streams PROVE LedgerInv(t)'
  <2>1. CASE t = s
    BY <1>1, <1>2, <1>3, <1>4, <1>5, <2>1
       DEF LedgerInv, Appending, LateAppend, Exists, duckVars
  <2>2. CASE t # s
    BY <1>2, <1>5, <1>8, <2>2, LedgerFrame DEF IInv, SameLedger
  <2> QED
    BY <2>1, <2>2
<1>10. ASSUME NEW t \in Pending PROVE BackendInv(t)'
    BY <1>2, <1>6, <1>8, BackendFrame
       DEF IInv, duckVars, InSomeGroup, Members, Streams
<1>11. GroupInv'
    BY <1>1, <1>2, <1>8, GroupFrame DEF Streams
<1>12. SweepInv'
  <2>1. \A t \in sweep'.orphans : t \in Streams /\ t \in sweep.orphans
    BY <1>3, <1>6 DEF Sweep, Streams
  <2> QED
    BY <1>1, <1>3, <1>4, <1>5, <1>6, <1>8, <2>1 DEF SweepInv, SameRows
<1> QED
    BY <1>7, <1>9, <1>10, <1>11, <1>12 DEF IInv

\* Discarding the staging table of a stream in cleanup, in the sweep's own
\* call or later.
LEMMA DiscardStep ==
    ASSUME IInv, NEW s \in Pending, Discard(s), TypeOK',
           UNCHANGED <<ledgerVars, descriptor, lock>>, late' = None,
           /\ sweep'.orphans = sweep.orphans
           /\ \/ sweep' = sweep
              \/ sweep'.pc = "next"
              \/ sweep.pc = "discard" /\ sweep'.cur = s /\ sweep.cur = s
    PROVE  IInv'
<1>1. TypeOK /\ SweepInv /\ GroupInv
    BY DEF IInv
<1>2. /\ staged'[s] = NoRows /\ visible' = visible
      /\ \A t \in Streams \ {s} : staged'[t] = staged[t]
    BY <1>1 DEF Discard, TypeOK, Streams
<1>3. ASSUME NEW t \in Streams
      PROVE  /\ SameLedger(t) /\ SameRows(t) /\ LateKept(t)
             /\ ~LateAppend(t)' /\ ~LateDiscard(t)'
    BY DEF ledgerVars, SameLedger, SameRows, LateKept, LateAppend, LateDiscard
<1>4. ASSUME NEW t \in Streams PROVE LedgerInv(t)'
    BY <1>3, LedgerFrame DEF IInv
<1>5. ASSUME NEW t \in Pending PROVE BackendInv(t)'
  <2>1. BackendInv(t) /\ t \in Streams
    BY DEF IInv, Streams
  <2>2. CASE t = s
    BY <1>2, <1>3, <2>1, <2>2
       DEF BackendInv, Tracked, InSomeGroup, Members, ledgerVars
  <2>3. CASE t # s
    <3>1. Tracked(t) => Tracked(t)'
      BY <1>2, <2>1, <2>3 DEF Tracked, Ahead, ledgerVars
    <3>2. Ahead(t, receipt[t]) => Ahead(t, receipt[t])'
      BY <1>2, <2>1, <2>3 DEF Ahead, ledgerVars
    <3> QED
      BY <1>2, <1>3, <2>1, <2>3, <3>1, <3>2
         DEF BackendInv, InSomeGroup, Members, ledgerVars
  <2> QED
    BY <2>2, <2>3
<1>6. GroupInv'
    BY <1>1, <1>3, GroupFrame DEF ledgerVars, Streams
<1>7. SweepInv'
    BY <1>1, <1>2, <1>3 DEF SweepInv, ledgerVars, Streams
<1> QED
    BY <1>4, <1>5, <1>6, <1>7 DEF IInv

\* DiscardPending committed, answered or not.
LEMMA SweepDiscardStep ==
    ASSUME IInv, SweepDiscard
    PROVE  IInv'
<1>1. /\ TypeOK /\ sweep \in Sweep /\ sweep.pc = "discard" /\ sweep.cur \in Pending
      /\ late = None /\ Discard(sweep.cur)
      /\ UNCHANGED <<ledgerVars, late, descriptor, lock, idle, pending, lifeVars>>
    BY DEF IInv, SweepInv, SweepDiscard, WorkerFree, TypeOK
<1>2. /\ sweep' \in Sweep /\ sweep'.orphans = sweep.orphans
      /\ sweep'.pc = "next" \/ sweep'.cur = sweep.cur
  <2>1. CASE SweepGoes("delete")
    BY <1>1, <2>1 DEF SweepGoes, Sweep
  <2>2. CASE SweepGoes("next")
    BY <1>1, <2>2 DEF SweepGoes, Sweep
  <2> QED
    BY <2>1, <2>2 DEF SweepDiscard
<1>3. staged' \in [Streams -> [rows : Nat, receipts : SUBSET Batch]]
    BY <1>1, NoRowsType DEF Discard, TypeOK
<1>4. TypeOK'
    BY <1>1, <1>2, <1>3
       DEF TypeOK, Discard, ledgerVars, lifeVars, LateOperation
<1> QED
    BY <1>1, <1>2, <1>4, DiscardStep

\* DiscardPending failed, or still runs on the worker.
LEMMA SweepDiscardFailsStep ==
    ASSUME IInv, SweepDiscardFails
    PROVE  IInv'
<1> DEFINE op == [kind |-> "discard", stream |-> sweep.cur]
<1>1. /\ TypeOK /\ SweepInv /\ GroupInv
      /\ sweep \in Sweep /\ sweep.pc = "discard" /\ sweep.cur \in Pending
      /\ led[sweep.cur].cleanup = "PENDING"
      /\ late' = late \/ late' = op
      /\ UNCHANGED <<ledgerVars, staged, visible, descriptor, lock, idle, pending,
                     lifeVars>>
    BY DEF IInv, SweepInv, SweepDiscardFails, MayKeepRunning, TypeOK
<1>2. /\ sweep' \in Sweep /\ sweep'.pc = "next" /\ sweep'.orphans = sweep.orphans
    BY <1>1 DEF SweepDiscardFails, SweepGoes, Sweep
<1>3. late' \in LateOperation' \cup {None}
    BY <1>1 DEF TypeOK, LateOperation, ledgerVars
<1>4. TypeOK'
    BY <1>1, <1>2, <1>3 DEF TypeOK, ledgerVars, lifeVars
<1>5. ASSUME NEW t \in Streams
      PROVE  /\ SameLedger(t) /\ SameRows(t)
             /\ LateAppend(t)' => LateAppend(t) /\ late' = late
             /\ LateDiscard(t)' => LateDiscard(t) \/ t = sweep.cur
    BY <1>1 DEF ledgerVars, SameLedger, SameRows, LateAppend, LateDiscard
<1>6. ASSUME NEW t \in Streams PROVE LedgerInv(t)'
  <2>1. LedgerInv(t)
    BY DEF IInv
  <2> QED
    BY <1>1, <1>5, <2>1
       DEF LedgerInv, SameLedger, SameRows, LateAppend, Appending, Exists
<1>7. ASSUME NEW t \in Pending PROVE BackendInv(t)'
  <2>1. BackendInv(t) /\ t \in Streams
    BY DEF IInv, Streams
  <2>2. Tracked(t) => Tracked(t)'
    BY <1>1, <2>1 DEF Tracked, Ahead, ledgerVars
  <2>3. Ahead(t, receipt[t]) => Ahead(t, receipt[t])'
    BY <1>1 DEF Ahead, ledgerVars
  <2> QED
    BY <1>1, <1>2, <1>5, <2>1, <2>2, <2>3
       DEF BackendInv, InSomeGroup, Members, ledgerVars
<1>8. GroupInv'
    BY <1>1, <1>5, GroupFrame DEF ledgerVars, Streams
<1>9. SweepInv'
    BY <1>1, <1>2 DEF SweepInv, ledgerVars
<1> QED
    BY <1>4, <1>6, <1>7, <1>8, <1>9 DEF IInv

\* DeleteStream, after an acknowledged discard.
LEMMA SweepDeleteStep ==
    ASSUME IInv, SweepDelete
    PROVE  IInv'
<1> DEFINE s == sweep.cur
<1>1. /\ TypeOK /\ GroupInv /\ SweepInv /\ sweep \in Sweep /\ sweep.pc = "delete"
      /\ s \in Pending /\ s \in Streams
    BY DEF IInv, TypeOK, SweepInv, SweepDelete, Streams
<1>2. /\ LedgerInv(s) /\ BackendInv(s) /\ staged[s] = NoRows /\ ~LateAppend(s)
      /\ lock[s] = "free" /\ led[s].op = "NONE" /\ ~InSomeGroup(s)
      /\ receipt[s] = None
    BY <1>1 DEF IInv, SweepInv, SweepDelete, Deletable, LedgerInv
<1>3. visible[s] = <<>> /\ ~LateDiscard(s)
    BY <1>1, <1>2 DEF BackendInv
<1>4. /\ led' = [led EXCEPT ![s] = Record("DELETED")]
      /\ applied' = [applied EXCEPT ![s] = {}]
      /\ idle' = idle \ {s} /\ pending' = pending - 1 /\ SweepGoes("next")
      /\ UNCHANGED <<receipt, groups, duckVars, descriptor, lock, lifeVars>>
    BY DEF SweepDelete
<1>5. /\ sweep' \in Sweep /\ sweep'.pc = "next" /\ sweep'.orphans = sweep.orphans
    BY <1>1, <1>4 DEF SweepGoes, Sweep
<1> HIDE DEF s
<1>6. /\ Record("DELETED") \in StreamRecord /\ Record("DELETED").state = "DELETED"
      /\ Record("DELETED").rows = 0 /\ Record("DELETED").cleanup = "ACTIVE"
      /\ Record("DELETED").op = "NONE"
    BY RecordFields DEF States
<1>7. /\ led' \in [Streams -> StreamRecord] /\ led'[s] = Record("DELETED")
      /\ \A t \in Streams \ {s} : led'[t] = led[t]
      /\ applied' \in [Streams -> SUBSET Batch] /\ applied'[s] = {}
      /\ \A t \in Streams \ {s} : applied'[t] = applied[t]
    BY <1>1, <1>4, <1>6 DEF TypeOK
<1>8. TypeOK'
    BY <1>1, <1>4, <1>5, <1>7 DEF TypeOK, duckVars, lifeVars, LateOperation
<1>9. ASSUME NEW t \in Streams PROVE LateKept(t)
    BY <1>4 DEF LateKept, LateAppend, LateDiscard, duckVars
<1>10. ASSUME NEW t \in Streams PROVE LedgerInv(t)'
  <2>1. CASE t = s
    BY <1>2, <1>4, <1>6, <1>7, <1>9, <2>1
       DEF LedgerInv, LateKept, Appending, Exists
  <2>2. CASE t # s
    BY <1>4, <1>7, <1>9, <2>2, LedgerFrame DEF IInv, SameLedger, SameRows
  <2> QED
    BY <2>1, <2>2
<1>11. ASSUME NEW t \in Pending PROVE BackendInv(t)'
  <2>1. CASE t = s
    BY <1>1, <1>2, <1>3, <1>4, <1>9, <2>1
       DEF BackendInv, Tracked, LateKept, duckVars
  <2>2. CASE t # s
    BY <1>4, <1>5, <1>7, <1>9, <2>2, BackendFrame
       DEF IInv, SameRows, duckVars, InSomeGroup, Members, Streams
  <2> QED
    BY <2>1, <2>2
<1>12. GroupInv'
  <2>1. ASSUME NEW g \in 1..Len(groups), NEW t \in Members(g)
        PROVE  t \in Streams /\ t # s
    BY <1>1, <1>2, MemberTypes DEF InSomeGroup
  <2>2. /\ \A t \in Streams \ {s} : led'[t] = led[t]
        /\ \A t \in Pending : led'[t].state = "COMMITTED" => led[t].state = "COMMITTED"
    BY <1>6, <1>7 DEF Streams
  <2> QED
    BY <1>1, <1>4, <2>1, <2>2 DEF GroupInv, InSomeGroup, Members
<1>13. SweepInv'
    BY <1>1, <1>5, <1>6, <1>7 DEF SweepInv, Sweep, Streams
<1> QED
    BY <1>8, <1>10, <1>11, <1>12, <1>13 DEF IInv

----------------------------------------------------------------------------
(* The worker, shutdown and restart. *)

\* The worker gives up the operation whose caller left.
LEMMA LateDropped ==
    ASSUME IInv, UNCHANGED <<ledgerVars, staged, visible, memoryVars, idle, lifeVars>>,
           late' = None
    PROVE  IInv'
<1>1. TypeOK /\ GroupInv /\ SweepInv
    BY DEF IInv
<1>2. TypeOK'
    BY <1>1 DEF TypeOK, ledgerVars, memoryVars, lifeVars
<1>3. ASSUME NEW t \in Streams PROVE LateKept(t) /\ SameLedger(t) /\ SameRows(t)
    BY DEF LateKept, LateAppend, LateDiscard, SameLedger, SameRows, ledgerVars
<1>4. ASSUME NEW t \in Streams PROVE LedgerInv(t)'
    BY <1>3, LedgerFrame DEF IInv, memoryVars
<1>5. ASSUME NEW t \in Pending PROVE BackendInv(t)'
    BY <1>3, BackendFrame
       DEF IInv, ledgerVars, memoryVars, InSomeGroup, Members, Streams
<1>6. GroupInv'
    BY <1>1, <1>3, GroupFrame DEF ledgerVars, Streams
<1>7. SweepInv'
    BY <1>1 DEF SweepInv, LateAppend, ledgerVars, memoryVars
<1> QED
    BY <1>2, <1>4, <1>5, <1>6, <1>7 DEF IInv

\* Dropping every staging table leaves each stream with none.
LEMMA DropBackend ==
    ASSUME IInv, NEW t \in Pending,
           staged'[t] = NoRows, visible'[t] = visible[t], LateKept(t), SameRows(t),
           applied'[t] = applied[t], led'[t].cleanup = led[t].cleanup,
           sweep'.pc = "delete" => sweep.pc = "delete",
           InSomeGroup(t) => InSomeGroup(t)'
    PROVE  BackendInv(t)'
<1>1. BackendInv(t)
    BY DEF IInv
<1> QED
    BY <1>1 DEF BackendInv, Tracked, LateKept, SameRows

\* StorageWriteCoordinator.Close, with its cleanup of the staging schema.
LEMMA StopCoordinatorStep ==
    ASSUME IInv, StopCoordinator
    PROVE  IInv'
<1>1. /\ TypeOK /\ GroupInv /\ SweepInv
      /\ UNCHANGED <<ledgerVars, visible, late, memoryVars, idle, closing,
                     stragglers, restarts>>
      /\ process' = "draining"
    BY DEF IInv, StopCoordinator
<1>2. /\ lost' \subseteq Streams
      /\ staged' \in [Streams -> [rows : Nat, receipts : SUBSET Batch]]
      /\ staged' = staged \/ \A t \in Streams : staged'[t] = NoRows
    BY <1>1, NoRowsType DEF StopCoordinator, TypeOK, Unpublished, Streams
<1>3. TypeOK'
    BY <1>1, <1>2 DEF TypeOK, ledgerVars, memoryVars, LateOperation
<1>4. ASSUME NEW t \in Streams PROVE LateKept(t) /\ SameLedger(t) /\ SameRows(t)
    BY <1>1 DEF LateKept, LateAppend, LateDiscard, SameLedger, SameRows, ledgerVars
<1>5. ASSUME NEW t \in Streams PROVE LedgerInv(t)'
    BY <1>1, <1>4, LedgerFrame DEF IInv, memoryVars
<1>6. ASSUME NEW t \in Pending PROVE BackendInv(t)'
  <2>1. t \in Streams /\ (InSomeGroup(t) => InSomeGroup(t)')
    BY <1>1 DEF Streams, InSomeGroup, Members, ledgerVars
  <2>2. CASE staged' = staged
    BY <1>1, <1>4, <2>1, <2>2, BackendFrame DEF IInv, ledgerVars, memoryVars
  <2>3. CASE \A u \in Streams : staged'[u] = NoRows
    BY <1>1, <1>4, <2>1, <2>3, DropBackend DEF ledgerVars, memoryVars
  <2> QED
    BY <1>2, <2>2, <2>3
<1>7. GroupInv'
    BY <1>1, <1>4, GroupFrame DEF ledgerVars, Streams
<1>8. SweepInv'
    BY <1>1, <1>2 DEF SweepInv, LateAppend, ledgerVars, memoryVars, Streams
<1> QED
    BY <1>3, <1>5, <1>6, <1>7, <1>8 DEF IInv

\* The process stops at any point.
LEMMA CrashStep ==
    ASSUME IInv, Crash
    PROVE  IInv'
<1>1. /\ TypeOK /\ GroupInv /\ late' = None /\ process' = "down"
      /\ restarts' = restarts + 1
      /\ descriptor' = [s \in Streams |-> None] /\ Release(Streams)
      /\ sweep' = SweepOff /\ closing' = {} /\ stragglers' = {} /\ pending' = 0
      /\ UNCHANGED <<ledgerVars, staged, visible, idle, lost>>
    BY DEF IInv, Crash
<1>2. \A t \in Streams : lock'[t] = "free"
    BY <1>1, Released
<1>3. sweep' \in Sweep /\ sweep'.pc = "off" /\ sweep'.orphans = {}
    BY <1>1 DEF SweepOff, Sweep
<1>4. TypeOK'
    BY <1>1, <1>3, Released DEF TypeOK, ledgerVars
<1>5. ASSUME NEW t \in Streams PROVE LateKept(t) /\ SameLedger(t) /\ SameRows(t)
    BY <1>1 DEF LateKept, LateAppend, LateDiscard, SameLedger, SameRows, ledgerVars
<1>6. ASSUME NEW t \in Streams PROVE LedgerInv(t)'
  <2>1. LedgerInv(t) /\ lock'[t] = "free" /\ descriptor'[t] = None
    BY <1>1, <1>2 DEF IInv
  <2>2. ~LateAppend(t)'
    BY <1>1 DEF LateAppend
  <2> QED
    BY <1>5, <2>1, <2>2 DEF LedgerInv, SameLedger, SameRows, Appending, Exists
<1>7. ASSUME NEW t \in Pending PROVE BackendInv(t)'
    BY <1>1, <1>2, <1>3, <1>5, BackendFrame
       DEF IInv, ledgerVars, InSomeGroup, Members, Streams
<1>8. GroupInv'
    BY <1>1, <1>5, GroupFrame DEF ledgerVars, Streams
<1>9. SweepInv'
    BY <1>3 DEF SweepInv
<1> QED
    BY <1>4, <1>6, <1>7, <1>8, <1>9 DEF IInv

\* Startup drops the staging schema and classifies what was PREPARED.
LEMMA RestartStep ==
    ASSUME IInv, Restart
    PROVE  IInv'
<1>1. /\ TypeOK /\ GroupInv /\ SweepInv /\ process' = "running"
      /\ staged' = [s \in Streams |-> NoRows]
      /\ led' = [s \in Streams |-> Unresolved(led[s])]
      /\ groups' = [g \in 1..Len(groups) |-> UnresolvedGroup(groups[g])]
      /\ pending' = Cardinality({s \in Pending : Uncommitted(s)})
      /\ lost' \subseteq Streams
      /\ UNCHANGED <<applied, receipt, visible, late, descriptor, lock, idle, sweep,
                     closing, stragglers, restarts>>
    BY DEF IInv, Restart, Recount, Unpublished, Streams
<1>2. /\ staged' \in [Streams -> [rows : Nat, receipts : SUBSET Batch]]
      /\ \A t \in Streams : staged'[t] = NoRows
    BY <1>1, NoRowsType
<1>3. ASSUME NEW t \in Streams
      PROVE  /\ led'[t] \in StreamRecord /\ SameLedger(t) /\ SameRows(t)
             /\ led'[t].cleanup = led[t].cleanup
  <2>1. led[t] \in StreamRecord /\ led'[t] = Unresolved(led[t])
    BY <1>1 DEF TypeOK
  <2> QED
    BY <1>1, <2>1, UnresolvedFields DEF SameLedger, SameRows
<1>4. led' \in [Streams -> StreamRecord]
    BY <1>1, <1>3
<1>5. ASSUME NEW g \in 1..Len(groups)
      PROVE  /\ groups'[g] \in CommitGroup
             /\ groups'[g].members = groups[g].members
             /\ groups'[g].expected = groups[g].expected
  <2>1. groups[g] \in CommitGroup /\ groups'[g] = UnresolvedGroup(groups[g])
    BY <1>1, MemberTypes
  <2> QED
    BY <2>1 DEF UnresolvedGroup, CommitGroup
<1>6. groups' \in Seq(CommitGroup) /\ Len(groups') = Len(groups)
  <2>1. Len(groups) \in Nat
    BY <1>1 DEF TypeOK
  <2>2. groups' \in [1..Len(groups) -> CommitGroup]
    BY <1>1, <1>5
  <2> QED
    BY <2>1, <2>2
<1>7. pending' \in Int
  <2>1. {s \in Pending : Uncommitted(s)} \in SUBSET Pending
    OBVIOUS
  <2>2. Cardinality({s \in Pending : Uncommitted(s)}) \in Nat
    BY <2>1, StreamsAssumption, FS_Subset, FS_CardinalityType
  <2> QED
    BY <1>1, <2>2
<1>8. late' \in LateOperation' \cup {None}
    BY <1>1, <1>6 DEF TypeOK, LateOperation
<1>9. TypeOK'
    BY <1>1, <1>2, <1>4, <1>6, <1>7, <1>8 DEF TypeOK
<1>10. ASSUME NEW t \in Streams PROVE LateKept(t)
    BY <1>1 DEF LateKept, LateAppend, LateDiscard
<1>11. ASSUME NEW t \in Streams PROVE LedgerInv(t)'
    BY <1>1, <1>3, <1>10, LedgerFrame DEF IInv
<1>12. ASSUME NEW t \in Pending PROVE InSomeGroup(t)' = InSomeGroup(t)
    BY <1>5, <1>6 DEF InSomeGroup, Members
<1>13. ASSUME NEW t \in Pending PROVE BackendInv(t)'
    BY <1>1, <1>2, <1>3, <1>10, <1>12, DropBackend DEF Streams
<1>14. GroupInv'
  <2>1. ASSUME NEW g \in 1..Len(groups'), NEW t \in Members(g)'
        PROVE  /\ led'[t].state \in {"FINALIZED", "COMMITTED"}
               /\ groups'[g].expected[t] = led'[t].rows
    <3>1. g \in 1..Len(groups) /\ t \in Members(g)
      BY <1>5, <1>6 DEF Members
    <3>2. t \in Streams
      BY <1>1, <3>1, MemberTypes
    <3> QED
      BY <1>1, <1>3, <1>5, <3>1, <3>2 DEF GroupInv, SameRows
  <2>2. \A t \in Pending : led'[t].state = "COMMITTED" => InSomeGroup(t)'
    BY <1>1, <1>3, <1>12 DEF GroupInv, SameRows, Streams
  <2> QED
    BY <2>1, <2>2 DEF GroupInv
<1>15. SweepInv'
    BY <1>1, <1>2, <1>3, <1>10, SweepFrame DEF SameRows, LateKept
<1> QED
    BY <1>9, <1>11, <1>13, <1>14, <1>15 DEF IInv

============================================================================
