------------------------- MODULE StorageWriteProofs -------------------------
(***************************************************************************)
(* Proofs about StorageWrite, for any streams, payloads and bounds: type   *)
(* correctness, exactly-once delivery of PENDING streams, that a deleted   *)
(* stream leaves nothing behind and that a commit is final.                *)
(*                                                                         *)
(* ExactlyOnce is not inductive.  The row-count proof of commitPending     *)
(* compares the staged rows with the ledger's count; that it excludes a    *)
(* batch the ledger never acknowledged needs to be known of every state:   *)
(* the staging table is absent, equal to the ledger, or exactly one batch  *)
(* ahead of it, at the ledger's next offset.  IInv says so, together with  *)
(* what each lock, receipt, commit group, abandoned operation and position *)
(* of the sweep implies about the stream it stands for.                    *)
(***************************************************************************)
EXTENDS StorageWriteAppends, StorageWriteCommits, StorageWriteCleanup

\* The worker settles the operation whose caller left.
LEMMA WorkerFinishesStep ==
    ASSUME IInv, WorkerFinishes
    PROVE  IInv'
<1>1. /\ TypeOK /\ late # None /\ late \in LateOperation /\ late' = None
      /\ UNCHANGED <<ledgerVars, memoryVars, idle, lifeVars>>
    BY DEF IInv, TypeOK, WorkerFinishes
<1>2. CASE UNCHANGED <<staged, visible>>
    BY <1>1, <1>2, LateDropped
<1>3. CASE late.kind = "append" /\ ApplyAppend(late.stream, late.batch)
    BY <1>1, <1>3, LateAppendStep
<1>4. CASE late.kind = "commit" /\ Publish(late.group)
  <2>1. late.group \in 1..Len(groups)
    BY <1>1, <1>4 DEF LateOperation
  <2>2. /\ staged' \in [Streams -> [rows : Nat, receipts : SUBSET Batch]]
        /\ visible' \in [Streams -> Seq(SUBSET Batch)]
    BY <1>4, <2>1, PublishExact
  <2>3. TypeOK'
    BY <1>1, <2>2 DEF TypeOK, ledgerVars, memoryVars, lifeVars
  <2> QED
    BY <1>1, <1>4, <2>1, <2>3, PublishStep DEF memoryVars
<1>5. CASE late.kind = "discard" /\ Discard(late.stream)
  <2>1. late.stream \in Pending
    BY <1>1, <1>5 DEF LateOperation
  <2>2. staged' \in [Streams -> [rows : Nat, receipts : SUBSET Batch]]
    BY <1>1, <1>5, NoRowsType DEF Discard, TypeOK
  <2>3. TypeOK'
    BY <1>1, <1>5, <2>2 DEF TypeOK, Discard, ledgerVars, memoryVars, lifeVars
  <2> QED
    BY <1>1, <1>5, <2>1, <2>3, DiscardStep DEF memoryVars
<1> QED
    BY <1>2, <1>3, <1>4, <1>5 DEF WorkerFinishes, ApplyLate

----------------------------------------------------------------------------
(* The theorems. *)

\* Every step of the service, the worker, the sweeper and the process keeps
\* the inductive invariant.
LEMMA NextIInv == IInv /\ [Next]_vars => IInv'
<1> SUFFICES ASSUME IInv, [Next]_vars PROVE IInv'
    OBVIOUS
<1>1. CASE \E s \in Streams : \/ CreateStream(s) \/ CreateDefault(s)
                              \/ AppendStep(s) \/ Finalize(s)
                              \/ Age(s) \/ CloseVisit(s)
  <2> PICK s \in Streams : \/ CreateStream(s) \/ CreateDefault(s)
                           \/ AppendStep(s) \/ Finalize(s)
                           \/ Age(s) \/ CloseVisit(s)
    BY <1>1
  <2>1. CASE AppendStep(s)
    BY <2>1, AppendBeginStep, AppendAppliedStep, AppendCompleteStep,
       AppendAbortStep, AppendAmbiguousSteps DEF AppendStep
  <2> QED
    BY <2>1, CreateSteps, FinalizeStep, LifeSteps
<1>2. CASE \E S \in SUBSET Pending \ {{}} : CommitBegin(S)
    BY <1>2, CommitBeginStep
<1>3. CASE \E g \in 1..MaxGroups : CommitStep(g)
    BY <1>3, CommitRetryStep, CommitAppliedStep, CommitReturnsStep DEF CommitStep
<1>4. CASE SweepStep
    BY <1>4, SweepQuietSteps, SweepMarkStep, SweepDiscardStep,
       SweepDiscardFailsStep, SweepDeleteStep DEF SweepStep
<1>5. CASE WorkerFinishes \/ Close \/ StopCoordinator \/ Crash \/ Restart
    BY <1>5, WorkerFinishesStep, LifeSteps, StopCoordinatorStep, CrashStep,
       RestartStep
<1>6. CASE UNCHANGED vars
  <2>1. TypeOK'
    BY <1>6 DEF vars, IInv, TypeOK, LateOperation
  <2> QED
    BY <1>6, <2>1, QuietStep
       DEF vars, ledgerVars, duckVars, IInv, SweepInv
<1> QED
    BY <1>1, <1>2, <1>3, <1>4, <1>5, <1>6 DEF Next

\* The inductive invariant holds of every behaviour of the service.
THEOREM InductiveInvariant == Spec => []IInv
BY InitIInv, NextIInv, PTL DEF Spec

\* Every variable keeps its type, for any set of streams, any payloads and
\* any bounds.
THEOREM TypeCorrect == Spec => []TypeOK
<1>1. IInv => TypeOK
    BY DEF IInv
<1> QED
    BY <1>1, InductiveInvariant, PTL

\* CommitPending and the append ledger together are exactly-once: the
\* destination receives the rows of a PENDING stream in one transaction at
\* most, the acknowledged rows and no others, once the stream is finalized.
THEOREM ExactlyOnceHolds == Spec => []ExactlyOnce
<1>1. IInv => ExactlyOnce
  <2> SUFFICES ASSUME IInv, NEW s \in Pending, visible[s] # <<>>
               PROVE  /\ visible[s] = <<applied[s]>>
                      /\ led[s].state \in {"FINALIZED", "COMMITTED"}
    BY DEF ExactlyOnce
  <2>1. visible[s] = <<applied[s]>> /\ InSomeGroup(s)
    BY DEF IInv, BackendInv
  <2> QED
    BY <2>1 DEF IInv, GroupInv, InSomeGroup
<1> QED
    BY <1>1, InductiveInvariant, PTL

\* DeleteStream after an acknowledged DiscardPending: a deleted stream has no
\* rows in the backend, and no abandoned append is left that could stage some.
THEOREM DeletedLeavesNothingHolds == Spec => []DeletedLeavesNothing
<1>1. IInv => DeletedLeavesNothing
    BY DEF IInv, BackendInv, DeletedLeavesNothing, LateAppend
<1> QED
    BY <1>1, InductiveInvariant, PTL

\* No step touches the row count, the receipts or the state of a COMMITTED
\* PENDING stream.
LEMMA CommittedKept ==
    ASSUME IInv, [Next]_vars, NEW s \in Pending, led[s].state = "COMMITTED"
    PROVE  /\ led'[s].state = "COMMITTED" /\ led'[s].rows = led[s].rows
           /\ applied'[s] = applied[s]
<1>1. /\ TypeOK /\ s \in Streams /\ led[s] \in StreamRecord /\ InSomeGroup(s)
      /\ s \notin Default
    BY StreamsAssumption DEF IInv, TypeOK, GroupInv, Streams
<1>2. /\ Settled(led[s]).state = "COMMITTED" /\ Settled(led[s]).rows = led[s].rows
      /\ Unresolved(led[s]).state = "COMMITTED"
      /\ Unresolved(led[s]).rows = led[s].rows
    BY <1>1, SettledFields, UnresolvedFields
<1>3. CASE \E t \in Streams : \/ CreateStream(t) \/ CreateDefault(t)
                              \/ AppendStep(t) \/ Finalize(t)
                              \/ Age(t) \/ CloseVisit(t)
  <2> PICK t \in Streams : \/ CreateStream(t) \/ CreateDefault(t)
                           \/ AppendStep(t) \/ Finalize(t)
                           \/ Age(t) \/ CloseVisit(t)
    BY <1>3
  <2>1. CASE CreateStream(t) \/ CreateDefault(t) \/ Finalize(t)
    BY <1>1, <2>1 DEF CreateStream, CreateDefault, Finalize, TypeOK
  <2>2. CASE Age(t) \/ CloseVisit(t)
    BY <2>2 DEF Age, CloseVisit, ledgerVars
  <2>3. CASE \E off \in Offsets, schema \in Schemas \cup {None}, p \in Payloads :
                AppendBegin(t, off, schema, p)
    <3>1. t # s /\ applied' = applied
      BY <1>1, <2>3 DEF AppendBegin
    <3>2. led'[s] = led[s]
      BY <1>1, <2>3, <3>1 DEF AppendBegin, TypeOK
    <3> QED
      BY <3>1, <3>2
  <2>4. CASE AppendApplied(t)
    BY <2>4 DEF AppendApplied, ledgerVars
  <2>5. CASE AppendComplete(t) \/ AppendAbort(t) \/ AppendUnresolved(t)
    <3>1. t # s
      <4>1. Appending(t)
        BY <2>5 DEF AppendComplete, AppendAbort, AppendUnresolved,
           AppendAmbiguous, Appending
      <4> QED
        BY <4>1, AppendHolds
    <3> QED
      BY <1>1, <2>5, <3>1
         DEF AppendComplete, AppendAbort, AppendUnresolved, AppendAmbiguous, TypeOK
  <2>6. CASE AppendUnrecorded(t)
    BY <2>6 DEF AppendUnrecorded, AppendAmbiguous
  <2> QED
    BY <2>1, <2>2, <2>3, <2>4, <2>5, <2>6 DEF AppendStep
<1>4. CASE \E S \in SUBSET Pending \ {{}} : CommitBegin(S)
    BY <1>1, <1>4 DEF CommitBegin, CommitReady
<1>5. CASE \E g \in 1..MaxGroups : CommitStep(g)
  <2> PICK g \in 1..MaxGroups : CommitStep(g)
    BY <1>5
  <2>1. CASE CommitRetry(g) \/ CommitApplied(g) \/ CommitUnrecorded(g)
    BY <2>1 DEF CommitRetry, CommitApplied, CommitUnrecorded, CommitAmbiguous,
       ledgerVars
  <2>2. CASE CommitComplete(g)
    <3>1. /\ [Settled(led[s]) EXCEPT !.state = "COMMITTED"].state = "COMMITTED"
          /\ [Settled(led[s]) EXCEPT !.state = "COMMITTED"].rows = led[s].rows
      BY <1>1, <1>2, SettledFields DEF StreamRecord
    <3> QED
      BY <1>1, <2>2, <3>1 DEF CommitComplete
  <2>3. CASE CommitAbort(g)
    BY <1>1, <1>2, <2>3 DEF CommitAbort
  <2>4. CASE CommitUnresolved(g)
    BY <1>1, <1>2, <2>4 DEF CommitUnresolved, CommitAmbiguous
  <2> QED
    BY <2>1, <2>2, <2>3, <2>4 DEF CommitStep
<1>6. CASE SweepStep
  <2>1. CASE \E t \in Streams : SweepMark(t)
    <3> PICK t \in Streams : SweepMark(t)
      BY <2>1
    <3>1. /\ [led[s] EXCEPT !.cleanup = "PENDING"].state = "COMMITTED"
          /\ [led[s] EXCEPT !.cleanup = "PENDING"].rows = led[s].rows
      BY <1>1 DEF StreamRecord
    <3>2. led' = [led EXCEPT ![t] = [led[t] EXCEPT !.cleanup = "PENDING"]]
          /\ applied' = applied
      BY DEF SweepMark
    <3>3. led'[s] = led[s] \/ led'[s] = [led[s] EXCEPT !.cleanup = "PENDING"]
      BY <1>1, <3>2 DEF TypeOK
    <3> QED
      BY <3>1, <3>2, <3>3
  <2>2. CASE SweepDelete
    BY <1>1, <2>2 DEF SweepDelete, Deletable, TypeOK
  <2>3. CASE ~(\E t \in Streams : SweepMark(t)) /\ ~SweepDelete
    BY <1>6, <2>3 DEF SweepStep, SweepStart, SweepVisit, SweepMarkFails,
       SweepDiscard, SweepDiscardFails, SweepDeleteFails, SweepEnd, ledgerVars
  <2> QED
    BY <2>1, <2>2, <2>3
<1>7. CASE WorkerFinishes \/ Close \/ StopCoordinator \/ Crash \/ UNCHANGED vars
    BY <1>7 DEF WorkerFinishes, Close, StopCoordinator, Crash, vars, ledgerVars
<1>8. CASE Restart
    BY <1>1, <1>2, <1>8 DEF Restart
<1> QED
    BY <1>3, <1>4, <1>5, <1>6, <1>7, <1>8 DEF Next

\* CompleteCommit is final: no append, abort, retry, sweep, crash or restart
\* takes a PENDING stream out of COMMITTED or changes what it holds.
THEOREM CommittedForeverHolds == Spec => CommittedForever
<1>1. IInv /\ [Next]_vars =>
        [\A s \in Pending : led[s].state = "COMMITTED" =>
           /\ led'[s].state = "COMMITTED"
           /\ led'[s].rows = led[s].rows
           /\ applied'[s] = applied[s]]_vars
    BY CommittedKept
<1> QED
    BY <1>1, InductiveInvariant, PTL DEF Spec, CommittedForever

============================================================================
