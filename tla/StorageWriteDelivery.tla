------------------------ MODULE StorageWriteDelivery ------------------------
(***************************************************************************)
(* What the destination tables receive, for any streams, payloads and      *)
(* bounds: the rows of every committed stream no restart dropped, every    *)
(* acknowledged batch of a default stream, and repeated batches of a       *)
(* default stream only where they belong; and what is staged before it.    *)
(***************************************************************************)
EXTENDS StorageWriteProofs

\* The rows of batch b reached the destination through stream s.
Reached(s, b) == \E i \in 1..Len(visible[s]) : b \in visible[s][i]

\* The worker appends to what a stream made visible, or leaves it alone.
Grows(s) ==
    \/ visible'[s] = visible[s]
    \/ \E rows \in SUBSET Batch : visible'[s] = Append(visible[s], rows)

\* AppendPending and AppendDefault extend the destination.
LEMMA ApplyAppendGrows ==
    ASSUME TypeOK, NEW t \in Streams, NEW b \in Batch, ApplyAppend(t, b), NEW s \in Streams
    PROVE  Grows(s)
<1>1. visible' = visible \/ visible' = [visible EXCEPT ![t] = Append(visible[t], {b})]
    BY Zenon DEF ApplyAppend, Stage, InsertDefault
<1>2. {b} \in SUBSET Batch
    BY Zenon
<1> QED
    BY <1>1, <1>2, Zenon DEF Grows, TypeOK

\* CommitPending extends the destination by the staged rows of its streams.
LEMMA PublishGrows ==
    ASSUME TypeOK, NEW g, Publish(g), NEW s \in Streams
    PROVE  Grows(s)
<1>1. staged[s].receipts \in SUBSET Batch
    BY Zenon DEF TypeOK
<1>2. visible'[s] = visible[s] \/ visible'[s] = Append(visible[s], staged[s].receipts)
    BY Zenon DEF Publish
<1> QED
    BY <1>1, <1>2, Zenon DEF Grows

\* Only the worker's appends and commits write to the destination.
LEMMA OthersLeaveVisible ==
    ASSUME [Next]_vars,
           ~ \E t \in Streams : AppendApplied(t),
           ~ \E g \in 1..MaxGroups : CommitApplied(g),
           ~ WorkerFinishes
    PROVE  visible' = visible
<1>1. CASE \E t \in Streams : \/ CreateStream(t) \/ CreateDefault(t) \/ Finalize(t)
                              \/ Age(t) \/ CloseVisit(t)
    BY <1>1, Zenon DEF CreateStream, CreateDefault, Finalize, Age, CloseVisit, duckVars
<1>2. CASE \E t \in Streams : AppendStep(t)
    BY <1>2, SMTT(30) DEF AppendStep, AppendBegin, AppendComplete, AppendAbort,
       AppendUnresolved, AppendUnrecorded, AppendAmbiguous, duckVars
<1>3. CASE \E S \in SUBSET Pending \ {{}} : CommitBegin(S)
    BY <1>3, Zenon DEF CommitBegin, duckVars
<1>4. CASE \E g \in 1..MaxGroups : CommitStep(g)
    BY <1>4, Zenon DEF CommitStep, CommitRetry, CommitComplete, CommitAbort,
       CommitUnresolved, CommitUnrecorded, CommitAmbiguous, duckVars
<1>5. CASE SweepStep
    BY <1>5, Zenon DEF SweepStep, SweepStart, SweepVisit, SweepMark, SweepMarkFails,
       SweepDiscard, SweepDiscardFails, SweepDelete, SweepDeleteFails, SweepEnd,
       Discard, duckVars
<1>6. CASE Close \/ StopCoordinator \/ Crash \/ Restart \/ UNCHANGED vars
    BY <1>6, Zenon DEF Close, StopCoordinator, Crash, Restart, vars, duckVars
<1> QED
    BY <1>1, <1>2, <1>3, <1>4, <1>5, <1>6, Zenon DEF Next

\* No step does anything else to the destination.
LEMMA VisibleGrows ==
    ASSUME IInv, [Next]_vars, NEW s \in Streams
    PROVE  Grows(s)
<1>1. TypeOK
    BY Zenon DEF IInv
<1>2. CASE \E t \in Streams : AppendApplied(t)
  <2> PICK t \in Streams : AppendApplied(t)
    BY <1>2, Zenon
  <2>1. receipt[t] \in Batch
    BY <1>1, Zenon DEF AppendApplied, IInv, LedgerInv, Appending, TypeOK
  <2> QED
    BY <1>1, <2>1, ApplyAppendGrows, Zenon DEF AppendApplied
<1>3. CASE \E g \in 1..MaxGroups : CommitApplied(g)
    BY <1>1, <1>3, PublishGrows, Zenon DEF CommitApplied
<1>4. CASE WorkerFinishes
  <2>1. CASE UNCHANGED <<staged, visible>>
    BY <2>1, Zenon DEF Grows
  <2>2. CASE late.kind = "append" /\ ApplyAppend(late.stream, late.batch)
    <3>1. late.stream \in Streams /\ late.batch \in Batch
      BY <1>1, <1>4, <2>2, Zenon DEF WorkerFinishes, TypeOK, LateOperation
    <3> QED
      BY <1>1, <2>2, <3>1, ApplyAppendGrows, Zenon
  <2>3. CASE late.kind = "commit" /\ Publish(late.group)
    BY <1>1, <2>3, PublishGrows, Zenon
  <2>4. CASE late.kind = "discard" /\ Discard(late.stream)
    BY <2>4, Zenon DEF Discard, Grows
  <2> QED
    BY <1>4, <2>1, <2>2, <2>3, <2>4, Zenon DEF WorkerFinishes, ApplyLate
<1>5. CASE /\ ~ \E t \in Streams : AppendApplied(t)
           /\ ~ \E g \in 1..MaxGroups : CommitApplied(g)
           /\ ~ WorkerFinishes
    BY <1>5, OthersLeaveVisible, Zenon DEF Grows
<1> QED
    BY <1>2, <1>3, <1>4, <1>5, Zenon

\* An acknowledged batch of a default stream reached the table, and so did one
\* whose answer the caller has in hand.
DefaultInv ==
    \A s \in Default :
        /\ \A b \in applied[s] : Reached(s, b)
        /\ lock[s] = "appended" => Reached(s, receipt[s])

\* What reached the destination stays there.
LEMMA ReachedStays ==
    ASSUME IInv, [Next]_vars, NEW s \in Streams, NEW b, Reached(s, b)
    PROVE  Reached(s, b)'
<1>1. visible[s] \in Seq(SUBSET Batch) /\ Grows(s)
    BY VisibleGrows, Zenon DEF IInv, TypeOK
<1> QED
    BY <1>1 DEF Reached, Grows

\* A receipt is counted only by the call that was answered, and an answer is
\* given only after the insert.
LEMMA AnsweredFirst ==
    ASSUME IInv, [Next]_vars, NEW s \in Default
    PROVE  /\ \A b \in applied'[s] : \/ b \in applied[s]
                                     \/ lock[s] = "appended" /\ b = receipt[s]
           /\ lock'[s] = "appended" => \/ lock[s] = "appended" /\ receipt'[s] = receipt[s]
                                       \/ Reached(s, receipt[s])'
<1>1. TypeOK /\ s \in Streams /\ s \notin Pending
    BY StreamsAssumption, Zenon DEF IInv, Streams
<1>2. CASE \E t \in Streams : AppendApplied(t)
  <2> PICK t \in Streams : AppendApplied(t)
    BY <1>2, Zenon
  <2>1. applied' = applied /\ receipt' = receipt
    BY Zenon DEF AppendApplied, ledgerVars
  <2>2. CASE t # s
    BY <1>1, <2>1, <2>2, Zenon DEF AppendApplied, TypeOK
  <2>3. CASE t = s
    <3>1. receipt[s] \in Batch /\ visible[s] \in Seq(SUBSET Batch)
      BY <1>1, <2>3, Zenon DEF AppendApplied, IInv, LedgerInv, Appending, TypeOK
    <3>2. visible'[s] = Append(visible[s], {receipt[s]})
      BY <1>1, <2>3, Zenon DEF AppendApplied, ApplyAppend, InsertDefault, TypeOK
    <3>3. /\ Len(visible'[s]) = Len(visible[s]) + 1
          /\ visible'[s][Len(visible[s]) + 1] = {receipt[s]}
      BY <3>1, <3>2
    <3>4. Reached(s, receipt[s])'
      BY <2>1, <3>1, <3>3 DEF Reached
    <3> QED
      BY <2>1, <3>4, Zenon
  <2> QED
    BY <2>2, <2>3, Zenon
<1>3. CASE \E t \in Streams : \/ CreateStream(t) \/ CreateDefault(t) \/ Finalize(t)
                              \/ Age(t) \/ CloseVisit(t)
    BY <1>1, <1>3, Zenon DEF CreateStream, CreateDefault, Finalize, Age, CloseVisit, TypeOK,
       ledgerVars, memoryVars
<1>4. CASE \E t \in Streams : AppendStep(t) /\ ~AppendApplied(t)
  <2> PICK t \in Streams : AppendStep(t) /\ ~AppendApplied(t)
    BY <1>4, Zenon
  <2>1. CASE \E off \in Offsets, schema \in Schemas \cup {None}, p \in Payloads :
                AppendBegin(t, off, schema, p)
    BY <1>1, <2>1, Zenon DEF AppendBegin, TypeOK
  <2>2. CASE AppendComplete(t)
    BY <1>1, <2>2, Zenon DEF AppendComplete, Release, TypeOK
  <2>3. CASE AppendAbort(t)
    BY <1>1, <2>3, Zenon DEF AppendAbort, Release, TypeOK
  <2>4. CASE AppendUnresolved(t) \/ AppendUnrecorded(t)
    BY <1>1, <2>4, Zenon DEF AppendUnresolved, AppendUnrecorded, AppendAmbiguous, Release
  <2> QED
    BY <2>1, <2>2, <2>3, <2>4, Zenon DEF AppendStep
<1>5. CASE \E S \in SUBSET Pending \ {{}} : CommitBegin(S)
    BY <1>1, <1>5, Zenon DEF CommitBegin, Acquire
<1>6. CASE \E g \in 1..MaxGroups : CommitStep(g)
    BY <1>1, <1>6, Zenon DEF CommitStep, CommitRetry, CommitApplied, CommitComplete, CommitAbort,
       CommitUnresolved, CommitUnrecorded, CommitAmbiguous, Acquire, Release, ledgerVars
<1>7. CASE SweepStep
    BY <1>1, <1>7, Zenon DEF SweepStep, SweepStart, SweepVisit, SweepMark, SweepMarkFails,
       SweepDiscard, SweepDiscardFails, SweepDelete, SweepDeleteFails, SweepEnd,
       TypeOK, ledgerVars
<1>8. CASE WorkerFinishes \/ Close \/ StopCoordinator \/ Crash \/ Restart \/ UNCHANGED vars
    BY <1>1, <1>8, Zenon DEF WorkerFinishes, Close, StopCoordinator, Crash, Restart, Release, vars,
       ledgerVars, memoryVars
<1> QED
    BY <1>2, <1>3, <1>4, <1>5, <1>6, <1>7, <1>8, Zenon DEF Next

\* AppendDefault is at-least-once: whatever answers are lost and however often
\* an append is repeated, a batch the ledger acknowledged is in the table.
THEOREM DefaultAtLeastOnceHolds == Spec => []DefaultAtLeastOnce
<1>1. Init => DefaultInv
    BY StreamsAssumption, Zenon DEF Init, DefaultInv, Streams
<1>2. ASSUME IInv, DefaultInv, [Next]_vars PROVE DefaultInv'
  <2> SUFFICES ASSUME NEW s \in Default
               PROVE  /\ \A b \in applied'[s] : Reached(s, b)'
                      /\ lock'[s] = "appended" => Reached(s, receipt[s])'
    BY Zenon DEF DefaultInv
  <2>1. s \in Streams
    BY Zenon DEF Streams
  <2> QED
    BY <1>2, <2>1, AnsweredFirst, ReachedStays, Zenon DEF DefaultInv
<1>3. DefaultInv => DefaultAtLeastOnce
    BY Zenon DEF DefaultInv, DefaultAtLeastOnce, Reached
<1> QED
    BY <1>1, <1>2, <1>3, InductiveInvariant, PTL DEF Spec

\* A default stream inserts a batch where the ledger's count stands.
LEMMA InsertedInPlace ==
    ASSUME TypeOK, NEW t \in Streams, NEW b \in Batch, ApplyAppend(t, b),
           b.off = led[t].rows, NEW s \in Default, visible'[s] # visible[s]
    PROVE  \A a \in visible'[s][Len(visible'[s])] : a.off = led[s].rows
<1>1. s \in Streams /\ visible \in [Streams -> Seq(SUBSET Batch)]
    BY Zenon DEF Streams, TypeOK
<1>2. CASE t = s
  <2>1. s \notin Pending
    BY StreamsAssumption, Zenon
  <2>2. visible' = [visible EXCEPT ![s] = Append(visible[s], {b})]
    BY <1>2, <2>1, Zenon DEF ApplyAppend, InsertDefault
  <2>3. visible'[s] = Append(visible[s], {b}) /\ visible[s] \in Seq(SUBSET Batch)
    BY <1>1, <2>2, Zenon
  <2>4. visible'[s][Len(visible'[s])] = {b}
    BY <2>3
  <2> QED
    BY <1>2, <2>4, Zenon
<1>3. CASE t # s
    BY <1>1, <1>3, Zenon DEF ApplyAppend, Stage, InsertDefault
<1> QED
    BY <1>2, <1>3, Zenon

\* CommitPending publishes PENDING streams only.
LEMMA PublishSparesDefault ==
    ASSUME IInv, NEW g \in 1..Len(groups), Publish(g), NEW s \in Default
    PROVE  visible'[s] = visible[s]
<1>1. s \in Streams /\ s \notin Pending
    BY StreamsAssumption, Zenon DEF Streams
<1>2. Members(g) \subseteq Pending
    BY MemberTypes, Zenon DEF IInv
<1> QED
    BY <1>1, <1>2, Zenon DEF Publish

\* Whatever repeats an append to a default stream (a retry of an unresolved
\* one, or the worker finishing what its caller gave up) inserts the batch
\* where the stream's next row belongs, never behind a later batch.
THEOREM DefaultInOrderHolds == Spec => DefaultInOrder
<1>1. ASSUME IInv, [Next]_vars, NEW s \in Default, visible'[s] # visible[s]
      PROVE  \A b \in visible'[s][Len(visible'[s])] : b.off = led[s].rows
  <2>1. TypeOK /\ s \in Streams
    BY <1>1, Zenon DEF IInv, Streams
  <2>2. CASE \E t \in Streams : AppendApplied(t)
    <3> PICK t \in Streams : AppendApplied(t)
      BY <2>2, Zenon
    <3>1. receipt[t] \in Batch /\ receipt[t].off = led[t].rows
      BY <1>1, <2>1, Zenon DEF AppendApplied, IInv, LedgerInv, Appending, TypeOK
    <3> QED
      BY <1>1, <2>1, <3>1, InsertedInPlace, Zenon DEF AppendApplied
  <2>3. CASE \E g \in 1..MaxGroups : CommitApplied(g)
    <3> PICK g \in 1..MaxGroups : CommitApplied(g)
      BY <2>3, Zenon
    <3>1. g \in 1..Len(groups)
      BY <2>1, SMT DEF CommitApplied, Holds, TypeOK
    <3> QED
      BY <1>1, <3>1, PublishSparesDefault, Zenon DEF CommitApplied
  <2>4. CASE WorkerFinishes
    <3>1. CASE UNCHANGED <<staged, visible>>
      BY <1>1, <3>1, Zenon
    <3>2. CASE late.kind = "append" /\ ApplyAppend(late.stream, late.batch)
      <4>1. late.stream \in Streams /\ late.batch \in Batch
        BY <2>1, <2>4, <3>2, Zenon DEF WorkerFinishes, TypeOK, LateOperation
      <4>2. late.batch.off = led[late.stream].rows
        BY <1>1, <2>4, <3>2, <4>1, Zenon DEF WorkerFinishes, IInv, LedgerInv, LateAppend
      <4> QED
        BY <1>1, <2>1, <3>2, <4>1, <4>2, InsertedInPlace, Zenon
    <3>3. CASE late.kind = "commit" /\ Publish(late.group)
      <4>1. late.group \in 1..Len(groups)
        BY <2>1, <2>4, <3>3, Zenon DEF WorkerFinishes, TypeOK, LateOperation
      <4> QED
        BY <1>1, <3>3, <4>1, PublishSparesDefault, Zenon
    <3>4. CASE late.kind = "discard" /\ Discard(late.stream)
      BY <1>1, <3>4, Zenon DEF Discard
    <3> QED
      BY <2>4, <3>1, <3>2, <3>3, <3>4, Zenon DEF WorkerFinishes, ApplyLate
  <2> QED
    BY <1>1, <2>2, <2>3, <2>4, OthersLeaveVisible, Zenon
<1>2. IInv /\ [Next]_vars =>
        [\A s \in Default : visible'[s] # visible[s] =>
           \A b \in visible'[s][Len(visible'[s])] : b.off = led[s].rows]_vars
    BY <1>1, Zenon
<1> QED
    BY <1>2, InductiveInvariant, PTL DEF Spec, DefaultInOrder

----------------------------------------------------------------------------
(* What is staged, and what a commit makes of it. *)

\* Exactly what the ledger acknowledged is staged.
Exact(s) == staged[s] = [rows |-> led[s].rows, receipts |-> applied[s]]

\* The backend has every row the ledger counts, unless the staging schema was
\* dropped: staged, until they are published, and one batch more while an
\* answer is on its way or lost.
DestInv(s) ==
    /\ applied[s] = {} => led[s].rows = 0
    /\ s \notin lost =>
          /\ led[s].cleanup = "ACTIVE" /\ visible[s] = <<>> =>
                Exact(s) \/ \E b \in staged[s].receipts : Ahead(s, b)
          /\ lock[s] = "appended" => Ahead(s, receipt[s])
          /\ led[s].state = "COMMITTED" \/ lock[s] = "committed" =>
                applied[s] = {} \/ visible[s] # <<>>

\* A step that neither stages, publishes nor acknowledges rows of a stream.
LEMMA DestFrame ==
    ASSUME NEW t, DestInv(t), lost' = lost, led'[t].rows = led[t].rows,
           applied'[t] = applied[t], staged'[t] = staged[t], visible'[t] = visible[t],
           led'[t].state = "COMMITTED" => led[t].state = "COMMITTED" \/ lock[t] = "committed",
           led'[t].cleanup = "ACTIVE" => led[t].cleanup = "ACTIVE",
           lock'[t] = "committed" => lock[t] = "committed",
           lock'[t] = "appended" => lock[t] = "appended" /\ receipt'[t] = receipt[t]
    PROVE  DestInv(t)'
<1>1. Exact(t) => Exact(t)'
    BY Zenon DEF Exact
<1>2. \A b : Ahead(t, b) => Ahead(t, b)'
    BY Zenon DEF Ahead
<1>3. lock'[t] = "appended" /\ Ahead(t, receipt[t]) => Ahead(t, receipt[t])'
    BY <1>2, Zenon
<1> QED
    BY <1>1, <1>2, <1>3, Zenon DEF DestInv

\* The staging schema is dropped: the streams that lose rows are recorded.
LEMMA DestDropped ==
    ASSUME IInv, NEW t \in Pending, DestInv(t), lost' = Unpublished,
           led'[t].rows = led[t].rows, applied'[t] = applied[t],
           staged'[t] = NoRows, visible'[t] = visible[t], lock'[t] = lock[t],
           led'[t].state = led[t].state
    PROVE  DestInv(t)'
<1>1. t \notin lost' => (applied[t] = {} /\ lock[t] # "appended") \/ visible[t] # <<>>
    BY Zenon DEF Unpublished
<1>2. visible[t] # <<>> => lock[t] # "appended"
    BY AppendHolds, Zenon DEF Appending, Streams
<1>3. applied[t] = {} => Exact(t)'
    BY Zenon DEF DestInv, Exact, NoRows
<1> QED
    BY <1>1, <1>2, <1>3, Zenon DEF DestInv

\* Staging the batch at the next offset keeps the backend one batch ahead.
LEMMA DestStaged ==
    ASSUME IInv, NEW t \in Pending, DestInv(t), NEW b \in Batch, b.off = led[t].rows,
           visible[t] = <<>>, Stage(t, b), lost' = lost, led' = led, applied' = applied,
           receipt' = receipt, lock'[t] # "committed",
           led[t].state # "COMMITTED" \/ lock'[t] = lock[t],
           lock'[t] = "appended" => b = receipt[t]
    PROVE  DestInv(t)'
<1>1. Tracked(t) /\ LedgerInv(t) /\ TypeOK
    BY Zenon DEF IInv, BackendInv, Streams
<1>2. staged'[t] = [rows |-> led[t].rows + RowsOf[b.payload], receipts |-> applied[t] \cup {b}]
    BY <1>1, StageAhead, Zenon
<1>3. Ahead(t, b)' /\ b \in staged'[t].receipts
    BY <1>2 DEF Ahead
<1>4. visible' = visible
    BY Zenon DEF Stage
<1> QED
    BY <1>3, <1>4, Zenon DEF DestInv

\* Publishing a group publishes every row its streams acknowledged.
LEMMA DestPublished ==
    ASSUME IInv, NEW g \in 1..Len(groups), Publish(g), NEW t \in Pending, DestInv(t),
           lost' = lost, led' = led, applied' = applied, receipt' = receipt,
           lock'[t] = "appended" => lock[t] = "appended",
           lock'[t] = "committed" =>
              \/ lock[t] = "committed"
              \/ t \in Members(g) /\ led[t].cleanup = "ACTIVE"
    PROVE  DestInv(t)'
<1>1. t \in Streams /\ TypeOK /\ BackendInv(t) /\ GroupInv
    BY Zenon DEF IInv, Streams
<1>2. CASE visible'[t] # <<>>
  <2>1. t \notin lost /\ lock[t] = "appended" => visible[t] = <<>> /\ t \notin Members(g)
    BY <1>1, AppendHolds, Zenon DEF Appending, GroupInv
  <2>2. lock'[t] # "appended"
    BY <1>1, <1>2, <2>1, AppendHolds, Zenon DEF Publish, Appending, GroupInv
  <2> QED
    BY <1>2, <2>2, Zenon DEF DestInv
<1>3. CASE visible'[t] = <<>>
  <2>1. staged'[t] = staged[t] /\ visible[t] = <<>>
    <3>1. <<applied[t]>> # <<>>
      BY Zenon
    <3> QED
      BY <1>1, <1>3, <3>1, PublishExact, Zenon
  <2>2. t \in Members(g) => staged[t].receipts = {}
    BY <1>1, <2>1 DEF Publish, NoRows
  <2>3. Exact(t) => Exact(t)'
    BY <2>1, Zenon DEF Exact
  <2>4. \A b : Ahead(t, b) => Ahead(t, b)'
    BY <2>1, Zenon DEF Ahead
  <2>5. t \notin lost /\ lock'[t] = "committed" /\ lock[t] # "committed" => applied[t] = {}
    <3>1. Exact(t) => staged[t].receipts = applied[t]
      BY DEF Exact
    <3> QED
      BY <2>1, <2>2, <3>1, Zenon DEF DestInv
  <2> QED
    BY <1>3, <2>1, <2>3, <2>4, <2>5, Zenon DEF DestInv
<1> QED
    BY <1>2, <1>3, Zenon

\* The steps that only move a stream's record and its lock.
LEMMA DestRecordSteps ==
    ASSUME IInv, NEW t \in Pending, DestInv(t), NEW s \in Streams,
           \/ CreateStream(s) \/ CreateDefault(s) \/ Finalize(s)
           \/ \E off \in Offsets, schema \in Schemas \cup {None}, p \in Payloads :
                 AppendBegin(s, off, schema, p)
           \/ AppendAbort(s) \/ AppendUnresolved(s) \/ AppendUnrecorded(s)
    PROVE  DestInv(t)'
<1>1. /\ TypeOK /\ t \in Streams /\ t \notin Default /\ led[t] \in StreamRecord /\ led[t].rows \in Nat
      /\ LedgerInv(t)
    BY StreamsAssumption, Zenon DEF IInv, TypeOK, Streams, StreamRecord
<1>2. /\ applied' = applied /\ staged' = staged /\ visible' = visible /\ lost' = lost
    BY Zenon DEF CreateStream, CreateDefault, Finalize, AppendBegin, AppendAbort, AppendUnresolved,
       AppendUnrecorded, AppendAmbiguous, duckVars, lifeVars
<1>3. /\ led'[t].rows = led[t].rows
      /\ led'[t].cleanup = "ACTIVE" => led[t].cleanup = "ACTIVE"
      /\ led'[t].state = "COMMITTED" => led[t].state = "COMMITTED"
  <2>1. CASE CreateStream(s) \/ CreateDefault(s)
    BY <1>1, <2>1, RecordFields, Zenon
       DEF CreateStream, CreateDefault, LedgerInv, TypeOK, States
  <2>2. CASE Finalize(s)
    <3>1. LET new == [led[t] EXCEPT !.state = "FINALIZED"]
          IN  new.rows = led[t].rows /\ new.cleanup = led[t].cleanup /\ new.state = "FINALIZED"
      BY <1>1, Zenon DEF StreamRecord
    <3>2. led' = [led EXCEPT ![s] = [led[s] EXCEPT !.state = "FINALIZED"]]
      BY <2>2, Zenon DEF Finalize
    <3>3. led'[t] = led[t] \/ led'[t] = [led[t] EXCEPT !.state = "FINALIZED"]
      BY <1>1, <3>2, Zenon DEF TypeOK
    <3> QED
      BY <3>1, <3>3, Zenon
  <2>3. CASE \E off \in Offsets, schema \in Schemas \cup {None}, p \in Payloads :
                AppendBegin(s, off, schema, p)
    <3>1. LET new == WithOp(led[t], "APPEND", "PREPARED", led[t].rows)
          IN  new.rows = led[t].rows /\ new.cleanup = led[t].cleanup /\ new.state = led[t].state
      BY <1>1, Zenon DEF WithOp, StreamRecord
    <3>2. \/ led' = led
          \/ led' = [led EXCEPT ![s] = WithOp(led[s], "APPEND", "PREPARED", led[s].rows)]
      BY <2>3, Zenon DEF AppendBegin
    <3>3. led'[t] = led[t] \/ led'[t] = WithOp(led[t], "APPEND", "PREPARED", led[t].rows)
      BY <1>1, <3>2, Zenon DEF TypeOK
    <3> QED
      BY <3>1, <3>3, Zenon
  <2>4. CASE AppendAbort(s) \/ AppendUnresolved(s) \/ AppendUnrecorded(s)
    <3>1. led'[t] \in {led[t], Settled(led[t]), Unresolved(led[t])}
      BY <1>1, <2>4 DEF AppendAbort, AppendUnresolved, AppendUnrecorded, TypeOK
    <3> QED
      BY <1>1, <3>1, SettledFields, UnresolvedFields, SMTT(30)
  <2> QED
    BY <2>1, <2>2, <2>3, <2>4, Zenon
<1>4. /\ lock'[t] = "committed" => lock[t] = "committed"
      /\ lock'[t] = "appended" => lock[t] = "appended" /\ receipt'[t] = receipt[t]
    BY <1>1, Zenon DEF CreateStream, CreateDefault, Finalize, AppendBegin, AppendAbort,
       AppendUnresolved, AppendUnrecorded, AppendAmbiguous, Release, memoryVars, TypeOK
<1> QED
    BY <1>2, <1>3, <1>4, DestFrame, Zenon

\* BatchCommit, but for the transaction itself.
LEMMA DestCommitSteps ==
    ASSUME IInv, NEW t \in Pending, DestInv(t),
           \/ \E S \in SUBSET Pending \ {{}} : CommitBegin(S)
           \/ \E g \in 1..MaxGroups : \/ CommitRetry(g) \/ CommitComplete(g) \/ CommitAbort(g)
                                      \/ CommitUnresolved(g) \/ CommitUnrecorded(g)
    PROVE  DestInv(t)'
<1>1. TypeOK /\ t \in Streams /\ led[t] \in StreamRecord
    BY Zenon DEF IInv, TypeOK, Streams
<1>2. /\ applied' = applied /\ receipt' = receipt /\ staged' = staged /\ visible' = visible
      /\ lost' = lost
    BY Zenon DEF CommitBegin, CommitRetry, CommitComplete, CommitAbort, CommitUnresolved,
       CommitUnrecorded, CommitAmbiguous, ledgerVars, duckVars, lifeVars
<1> DEFINE done == [Settled(led[t]) EXCEPT !.state = "COMMITTED"]
<1>3. done.rows = led[t].rows /\ done.cleanup = led[t].cleanup
    BY <1>1, SettledFields, Zenon DEF StreamRecord
<1>4. \A g : LET new == WithOp(led[t], "COMMIT", "PREPARED", g)
             IN  new.rows = led[t].rows /\ new.cleanup = led[t].cleanup /\ new.state = led[t].state
    BY <1>1, Zenon DEF WithOp, StreamRecord
<1>5. \/ led'[t] \in {led[t], Settled(led[t]), Unresolved(led[t])}
      \/ \E g : led'[t] = WithOp(led[t], "COMMIT", "PREPARED", g)
      \/ led'[t] = done /\ lock[t] = "committed"
    BY <1>1, Zenon DEF CommitBegin, CommitRetry, CommitComplete, CommitAbort, CommitUnresolved,
       CommitUnrecorded, CommitAmbiguous, Holds, ledgerVars
<1> HIDE DEF done
<1>6. /\ led'[t].rows = led[t].rows /\ led'[t].cleanup = led[t].cleanup
      /\ led'[t].state = "COMMITTED" => led[t].state = "COMMITTED" \/ lock[t] = "committed"
    BY <1>1, <1>3, <1>4, <1>5, SettledFields, UnresolvedFields
<1>7. lock'[t] \in {lock[t], "free", "commit"}
    BY <1>1, Zenon DEF CommitBegin, CommitRetry, CommitComplete, CommitAbort, CommitUnresolved,
       CommitUnrecorded, CommitAmbiguous, Acquire, Release
<1> QED
    BY <1>2, <1>6, <1>7, DestFrame, Zenon

\* CompleteAppend counts the batch that is staged ahead.
LEMMA DestAppendComplete ==
    ASSUME IInv, NEW t \in Pending, DestInv(t), NEW s \in Streams, AppendComplete(s)
    PROVE  DestInv(t)'
<1>1. TypeOK /\ t \in Streams /\ led[t] \in StreamRecord /\ led[t].rows \in Nat
    BY Zenon DEF IInv, TypeOK, Streams, StreamRecord
<1>2. staged' = staged /\ visible' = visible /\ lost' = lost
    BY Zenon DEF AppendComplete, duckVars, lifeVars
<1>3. CASE s # t
  <2>1. /\ led'[t] = led[t] /\ applied'[t] = applied[t] /\ receipt'[t] = receipt[t]
        /\ lock'[t] = lock[t]
    BY <1>1, <1>3, Zenon DEF AppendComplete, Release, TypeOK
  <2> QED
    BY <1>2, <2>1, DestFrame, Zenon
<1>4. CASE s = t
  <2> DEFINE b == receipt[t]
             new == Advanced(led[t], b)
  <2>1. lock[t] = "appended" /\ Appending(t)
    BY <1>4, Zenon DEF AppendComplete, Appending
  <2>2. /\ b \in Batch /\ led[t].state = "OPEN" /\ visible[t] = <<>>
    BY <1>1, <2>1, AppendHolds, Zenon
  <2>3. new.rows = led[t].rows + RowsOf[b.payload] /\ new.state = "OPEN"
    BY <1>1, <2>2, SettledFields, Zenon DEF Advanced, StreamRecord
  <2>4. led'[t] = new /\ applied'[t] = applied[t] \cup {b} /\ lock'[t] = "free"
    BY <1>1, <1>4, Zenon DEF AppendComplete, Release, TypeOK
  <2> HIDE DEF new
  <2>5. t \notin lost => Exact(t)'
    <3>1. ASSUME t \notin lost PROVE staged[t] = [rows |-> led[t].rows + RowsOf[b.payload],
                                                 receipts |-> applied[t] \cup {b}]
      BY <2>1, <3>1, Zenon DEF DestInv, Ahead
    <3> QED
      BY <1>2, <2>3, <2>4, <3>1, Zenon DEF Exact
  <2> QED
    BY <1>2, <2>3, <2>4, <2>5, Zenon DEF DestInv
<1> QED
    BY <1>3, <1>4, Zenon

\* The transaction of an append, in time or late.
LEMMA DestWorkerAppends ==
    ASSUME IInv, NEW t \in Pending, DestInv(t), (\E s \in Streams : AppendApplied(s))
              \/ (WorkerFinishes /\ late.kind = "append" /\ ApplyAppend(late.stream, late.batch))
    PROVE  DestInv(t)'
<1>1. TypeOK /\ t \in Streams /\ t \notin Default
    BY StreamsAssumption, Zenon DEF IInv, Streams
<1>2. lost' = lost /\ led' = led /\ applied' = applied /\ receipt' = receipt
    BY Zenon DEF AppendApplied, WorkerFinishes, ledgerVars, lifeVars
<1>3. CASE \E s \in Streams : AppendApplied(s)
  <2> PICK s \in Streams : AppendApplied(s)
    BY <1>3, Zenon
  <2>1. CASE s = t
    <3>1. Appending(t) /\ Stage(t, receipt[t]) /\ lock'[t] = "appended"
      BY <1>1, <2>1, Zenon DEF AppendApplied, Appending, ApplyAppend, TypeOK
    <3>2. /\ receipt[t] \in Batch /\ receipt[t].off = led[t].rows /\ led[t].state = "OPEN"
          /\ visible[t] = <<>>
      BY <1>1, <3>1, AppendHolds, Zenon
    <3> QED
      BY <1>2, <3>1, <3>2, DestStaged, Zenon
  <2>2. CASE s # t
    <3>1. /\ DOMAIN lock = Streams /\ DOMAIN staged = Streams
          /\ DOMAIN visible = Streams
      BY <1>1, Zenon DEF TypeOK
    <3>2. ApplyAppend(s, receipt[s]) /\ lock' = [lock EXCEPT ![s] = "appended"]
      BY Zenon DEF AppendApplied
    <3>3. lock'[t] = lock[t]
      BY <1>1, <2>2, <3>1, <3>2, Zenon
    <3>4. staged'[t] = staged[t] /\ visible'[t] = visible[t]
      <4>1. CASE Stage(s, receipt[s])
        BY <1>1, <2>2, <3>1, <4>1, Zenon DEF Stage
      <4>2. CASE InsertDefault(s, receipt[s])
        BY <1>1, <2>2, <3>1, <4>2, Zenon DEF InsertDefault
      <4> QED
        BY <3>2, <4>1, <4>2, Zenon DEF ApplyAppend
    <3> QED
      BY <1>2, <3>3, <3>4, DestFrame, Zenon
  <2> QED
    BY <2>1, <2>2, Zenon
<1>4. CASE WorkerFinishes /\ late.kind = "append" /\ ApplyAppend(late.stream, late.batch)
  <2>1. /\ late # None /\ late.stream \in Streams /\ late.batch \in Batch /\ lock' = lock
    BY <1>1, <1>4, Zenon DEF WorkerFinishes, TypeOK, LateOperation, memoryVars
  <2>2. CASE late.stream = t
    <3>1. LateAppend(t) /\ Stage(t, late.batch)
      BY <1>4, <2>1, <2>2, Zenon DEF LateAppend, ApplyAppend
    <3>2. late.batch.off = led[t].rows /\ lock[t] # "appended" /\ visible[t] = <<>>
      BY <1>1, <3>1, Zenon DEF IInv, LedgerInv, BackendInv
    <3>3. Tracked(t) /\ LedgerInv(t)
      BY <1>1, <3>2, Zenon DEF IInv, BackendInv
    <3>4. staged'[t] = [rows |-> led[t].rows + RowsOf[late.batch.payload],
                        receipts |-> applied[t] \cup {late.batch}]
      BY <1>1, <2>1, <3>1, <3>2, <3>3, StageAhead, Zenon
    <3>5. \E b \in staged'[t].receipts : Ahead(t, b)'
      <4> DEFINE b == late.batch
      <4>1. /\ b.off = led[t].rows
            /\ staged'[t] = [rows |-> led[t].rows + RowsOf[b.payload],
                             receipts |-> applied[t] \cup {b}]
        BY <3>2, <3>4, Zenon
      <4> HIDE DEF b
      <4>2. b \in staged'[t].receipts
        BY <4>1
      <4> QED
        BY <1>2, <4>1, <4>2, Zenon DEF Ahead
    <3>6. visible' = visible
      BY <3>1, Zenon DEF Stage
    <3> QED
      BY <1>2, <2>1, <3>2, <3>5, <3>6, Zenon DEF DestInv
  <2>3. CASE late.stream # t
    <3>1. staged'[t] = staged[t] /\ visible'[t] = visible[t]
      BY <1>1, <1>4, <2>1, <2>3, Zenon DEF ApplyAppend, Stage, InsertDefault, TypeOK
    <3> QED
      BY <1>2, <2>1, <3>1, DestFrame, Zenon
  <2> QED
    BY <2>2, <2>3, Zenon
<1> QED
    BY <1>3, <1>4, Zenon

\* The transaction of a commit, in time or late.
LEMMA DestWorkerCommits ==
    ASSUME IInv, NEW t \in Pending, DestInv(t), (\E g \in 1..MaxGroups : CommitApplied(g))
              \/ (WorkerFinishes /\ late.kind = "commit" /\ Publish(late.group))
    PROVE  DestInv(t)'
<1>1. TypeOK /\ t \in Streams /\ LedgerInv(t)
    BY Zenon DEF IInv, Streams
<1>2. lost' = lost /\ led' = led /\ applied' = applied /\ receipt' = receipt
    BY Zenon DEF CommitApplied, WorkerFinishes, ledgerVars, lifeVars
<1>3. CASE \E g \in 1..MaxGroups : CommitApplied(g)
  <2> PICK g \in 1..MaxGroups : CommitApplied(g)
    BY <1>3, Zenon
  <2>1. g \in 1..Len(groups) /\ Publish(g)
    <3>1. g <= Len(groups) /\ Publish(g)
      BY Zenon DEF CommitApplied, Holds
    <3>2. Len(groups) \in Nat
      BY <1>1 DEF TypeOK
    <3> QED
      BY <3>1, <3>2, BoundsAssumption
  <2>2. lock'[t] = IF t \in Members(g) THEN "committed" ELSE lock[t]
    BY <1>1, Zenon DEF CommitApplied
  <2>3. t \in Members(g) => lock[t] = "commit"
    BY Zenon DEF CommitApplied, Holds
  <2>4. lock[t] = "commit" => led[t].cleanup # "PENDING" /\ led[t] \in StreamRecord
    BY <1>1, Zenon DEF LedgerInv, TypeOK
  <2>5. lock[t] = "commit" => led[t].cleanup = "ACTIVE"
    BY <2>4, Zenon DEF StreamRecord
  <2> QED
    BY <1>2, <2>1, <2>2, <2>3, <2>5, DestPublished, Zenon
<1>4. CASE WorkerFinishes /\ late.kind = "commit" /\ Publish(late.group)
  <2>1. late.group \in 1..Len(groups) /\ lock' = lock
    BY <1>1, <1>4, Zenon DEF WorkerFinishes, TypeOK, LateOperation, memoryVars
  <2> QED
    BY <1>2, <1>4, <2>1, DestPublished, Zenon
<1> QED
    BY <1>3, <1>4, Zenon

\* The sweep discards and deletes streams in cleanup only.
LEMMA DestCleanupSteps ==
    ASSUME IInv, NEW t \in Pending, DestInv(t),
           SweepStep \/ (WorkerFinishes /\ late.kind = "discard" /\ Discard(late.stream))
    PROVE  DestInv(t)'
<1>1. TypeOK /\ t \in Streams /\ led[t] \in StreamRecord /\ LedgerInv(t) /\ SweepInv
    BY Zenon DEF IInv, TypeOK, Streams
<1>2. lost' = lost /\ receipt' = receipt /\ lock' = lock /\ visible' = visible
    BY Zenon DEF SweepStep, SweepStart, SweepVisit, SweepMark, SweepMarkFails, SweepDiscard,
       SweepDiscardFails, SweepDelete, SweepDeleteFails, SweepEnd, WorkerFinishes, Discard,
       ledgerVars, duckVars, memoryVars, lifeVars
<1>3. CASE \E s \in Streams : SweepMark(s)
  <2> PICK s \in Streams : SweepMark(s)
    BY <1>3, Zenon
  <2>1. LET new == [led[t] EXCEPT !.cleanup = "PENDING"]
        IN  new.rows = led[t].rows /\ new.cleanup = "PENDING" /\ new.state = led[t].state
    BY <1>1, Zenon DEF StreamRecord
  <2>2. led' = [led EXCEPT ![s] = [led[s] EXCEPT !.cleanup = "PENDING"]]
        /\ applied' = applied /\ staged' = staged
    BY Zenon DEF SweepMark, duckVars
  <2>3. led'[t] = led[t] \/ led'[t] = [led[t] EXCEPT !.cleanup = "PENDING"]
    BY <1>1, <2>2, Zenon DEF TypeOK
  <2> QED
    BY <1>2, <2>1, <2>2, <2>3, DestFrame, Zenon
<1>4. CASE SweepDelete
  <2>1. sweep.cur \in Pending /\ staged[sweep.cur] = NoRows /\ lock[sweep.cur] = "free"
    BY <1>1, <1>4, Zenon DEF SweepDelete, SweepInv
  <2>2. staged' = staged /\ led' = [led EXCEPT ![sweep.cur] = Record("DELETED")]
        /\ applied' = [applied EXCEPT ![sweep.cur] = {}]
    BY <1>4, Zenon DEF SweepDelete, duckVars
  <2>3. CASE t = sweep.cur
    <3>1. led'[t].rows = 0 /\ led'[t].state = "DELETED" /\ applied'[t] = {}
      BY <1>1, <2>2, <2>3, RecordFields, Zenon DEF TypeOK, States
    <3>2. Exact(t)'
      BY <2>1, <2>2, <2>3, <3>1, Zenon DEF Exact, NoRows
    <3> QED
      BY <1>2, <2>1, <2>3, <3>1, <3>2, Zenon DEF DestInv
  <2>4. CASE t # sweep.cur
    <3>1. led'[t] = led[t] /\ applied'[t] = applied[t]
      BY <1>1, <2>2, <2>4, Zenon DEF TypeOK
    <3> QED
      BY <1>2, <2>2, <3>1, DestFrame, Zenon
  <2> QED
    BY <2>3, <2>4, Zenon
<1>5. CASE \/ SweepDiscard
           \/ WorkerFinishes /\ late.kind = "discard" /\ Discard(late.stream)
  <2>1. led' = led /\ applied' = applied
    BY <1>5, Zenon DEF SweepDiscard, WorkerFinishes, ledgerVars
  <2>2. CASE staged'[t] = staged[t]
    BY <1>2, <2>1, <2>2, DestFrame, Zenon
  <2>3. CASE staged'[t] # staged[t]
    <3>1. led[t].cleanup = "PENDING"
      <4>1. CASE SweepDiscard
        BY <1>1, <2>3, <4>1, Zenon DEF SweepDiscard, SweepInv, Discard, TypeOK
      <4>2. CASE WorkerFinishes /\ late.kind = "discard" /\ Discard(late.stream)
        <5>1. LateDiscard(t)
          BY <1>1, <2>3, <4>2, Zenon DEF WorkerFinishes, LateDiscard, Discard, TypeOK
        <5> QED
          BY <5>1, Zenon DEF IInv, BackendInv
      <4> QED
        BY <1>5, <4>1, <4>2, Zenon
    <3> QED
      BY <1>1, <1>2, <2>1, <3>1, Zenon DEF DestInv, LedgerInv
  <2> QED
    BY <2>2, <2>3, Zenon
<1>6. CASE SweepStep /\ ~SweepDiscard /\ ~SweepDelete /\ ~ \E s \in Streams : SweepMark(s)
  <2>1. led' = led /\ applied' = applied /\ staged' = staged
    BY <1>6, Zenon DEF SweepStep, SweepStart, SweepVisit, SweepMarkFails, SweepDiscardFails,
       SweepDeleteFails, SweepEnd, ledgerVars, duckVars
  <2> QED
    BY <1>2, <2>1, DestFrame, Zenon
<1> QED
    BY <1>3, <1>4, <1>5, <1>6, Zenon

\* Every step keeps DestInv.
LEMMA DestStep ==
    ASSUME IInv, [Next]_vars, NEW t \in Pending, DestInv(t)
    PROVE  DestInv(t)'
<1>1. TypeOK /\ t \in Streams /\ led[t] \in StreamRecord
    BY Zenon DEF IInv, TypeOK, Streams
<1>2. CASE \E s \in Streams : CreateStream(s) \/ CreateDefault(s) \/ AppendStep(s) \/ Finalize(s)
    BY <1>2, DestRecordSteps, DestAppendComplete, DestWorkerAppends, Zenon DEF AppendStep
<1>3. CASE \/ \E S \in SUBSET Pending \ {{}} : CommitBegin(S)
           \/ \E g \in 1..MaxGroups : CommitStep(g)
    BY <1>3, DestCommitSteps, DestWorkerCommits, Zenon DEF CommitStep
<1>4. CASE SweepStep
    BY <1>4, DestCleanupSteps, Zenon
<1>5. CASE WorkerFinishes
  <2>1. CASE UNCHANGED <<staged, visible>>
    BY <1>5, <2>1, DestFrame, Zenon DEF WorkerFinishes, ledgerVars, memoryVars, lifeVars
  <2> QED
    BY <1>5, <2>1, DestWorkerAppends, DestWorkerCommits, DestCleanupSteps, Zenon
       DEF WorkerFinishes, ApplyLate
<1>6. CASE \/ \E s \in Streams : Age(s) \/ CloseVisit(s)
           \/ Close \/ UNCHANGED vars
  <2>1. UNCHANGED <<ledgerVars, staged, visible, lock, lost>>
    BY <1>6, Zenon DEF Age, CloseVisit, Close, vars, ledgerVars, duckVars, memoryVars, lifeVars
  <2> QED
    BY <2>1, DestFrame, Zenon DEF ledgerVars
<1>7. CASE StopCoordinator
  <2>1. UNCHANGED <<led, applied, receipt, visible, lock>>
    BY <1>7, Zenon DEF StopCoordinator, ledgerVars, memoryVars
  <2>2. CASE UNCHANGED <<staged, lost>>
    BY <2>1, <2>2, DestFrame, Zenon
  <2>3. CASE staged' = [s \in Streams |-> NoRows] /\ lost' = Unpublished
    BY <1>1, <2>1, <2>3, DestDropped, Zenon
  <2> QED
    BY <1>7, <2>2, <2>3, Zenon DEF StopCoordinator
<1>8. CASE Crash
  <2>1. UNCHANGED <<ledgerVars, staged, visible, lost>> /\ lock'[t] = "free"
    BY <1>1, <1>8, Zenon DEF Crash, Release
  <2> QED
    BY <2>1, DestFrame, Zenon DEF ledgerVars
<1>9. CASE Restart
  <2>1. /\ UNCHANGED <<applied, visible, lock>> /\ staged'[t] = NoRows /\ lost' = Unpublished
        /\ led'[t] = Unresolved(led[t])
    BY <1>1, <1>9, Zenon DEF Restart
  <2> QED
    BY <1>1, <2>1, UnresolvedFields, DestDropped, Zenon
<1> QED
    BY <1>2, <1>3, <1>4, <1>5, <1>6, <1>7, <1>8, <1>9, Zenon DEF Next

\* DestInv holds in every reachable state.
LEMMA DestInvariant == Spec => [](\A s \in Pending : DestInv(s))
<1>1. Init => \A s \in Pending : DestInv(s)
  <2> SUFFICES ASSUME Init, NEW s \in Pending PROVE DestInv(s)
    BY Zenon
  <2>1. s \in Streams /\ led[s] = Record("UNBORN") /\ applied[s] = {} /\ staged[s] = NoRows
        /\ lock[s] = "free"
    BY Zenon DEF Init, Streams
  <2>2. led[s].rows = 0 /\ led[s].state = "UNBORN"
    BY <2>1, RecordFields, Zenon DEF States
  <2> QED
    BY <2>1, <2>2, Zenon DEF DestInv, Exact, NoRows
<1>2. IInv /\ (\A s \in Pending : DestInv(s)) /\ [Next]_vars => (\A s \in Pending : DestInv(s))'
    BY DestStep, Zenon
<1> QED
    BY <1>1, <1>2, InductiveInvariant, PTL, SMTT(30) DEF Spec

\* What is staged for a live stream is what the ledger acknowledged, plus at
\* most the one batch whose answer was lost, at the next offset: a retry can
\* always tell an applied append from one that was not.
THEOREM StagedAheadHolds == Spec => []StagedAhead
<1>1. (\A s \in Pending : DestInv(s)) => StagedAhead
    BY Zenon DEF DestInv, StagedAhead, Exact, Ahead
<1> QED
    BY <1>1, DestInvariant, PTL, SMTT(30)

\* BatchCommit loses nothing: the acknowledged rows of a COMMITTED stream are
\* in the destination, in one transaction, unless a restart dropped them with
\* the staging schema before the commit.
THEOREM CommittedRowsVisibleHolds == Spec => []CommittedRowsVisible
<1>1. IInv /\ (\A s \in Pending : DestInv(s)) => CommittedRowsVisible
    BY Zenon DEF IInv, BackendInv, DestInv, CommittedRowsVisible
<1> QED
    BY <1>1, InductiveInvariant, DestInvariant, PTL

=============================================================================
