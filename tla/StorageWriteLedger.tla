------------------------- MODULE StorageWriteLedger -------------------------
(***************************************************************************)
(* The bookkeeping of the Storage Write service, for any streams and any   *)
(* limit: every ledger a stop leaves behind is accepted at the next start, *)
(* and the counter `pending` is the number of PENDING streams neither      *)
(* committed nor deleted, and never exceeds MaxStreams.                    *)
(*                                                                         *)
(* Beside IInv the first needs that operations, receipts and commit groups *)
(* name each other (OperationInv); the second that no two paths give back  *)
(* the same slot: a stream that a commit will release is still counted,    *)
(* and the sweep holds no stream it deleted (LiveInv).                     *)
(***************************************************************************)
EXTENDS StorageWriteProofs

(* The ledger a stop leaves behind. *)

\* What the operation of a stream's record stands for is there: the receipt of
\* an append, the group of a commit.
OperationInv(s) ==
    /\ led[s].op = "APPEND" => receipt[s] # None /\ led[s].token = led[s].rows
    /\ led[s].op = "COMMIT" =>
          /\ led[s].token \in 1..Len(groups)
          /\ groups[led[s].token].phase \in {"PREPARED", "UNRESOLVED"}
          /\ s \in Members(led[s].token)

\* A record has a phase exactly when it has an operation.
Phased(rec) == (rec.op = "NONE") <=> (rec.phase = "NONE")

\* What validateWriteSnapshot asks of a stream, beyond what IInv says of it.
Acceptable(s) == OperationInv(s) /\ ContinuousReceipts(s)

\* A step that touches neither the operation, the rows and the receipts of a
\* stream nor the groups.
LEMMA AcceptedFrame ==
    ASSUME NEW t \in Streams, Acceptable(t), groups' = groups,
           led'[t].op = led[t].op, led'[t].token = led[t].token,
           led'[t].rows = led[t].rows,
           applied'[t] = applied[t], receipt'[t] = receipt[t]
    PROVE  Acceptable(t)'
<1>1. OperationInv(t)'
    BY Zenon DEF Acceptable, OperationInv, Members
<1>2. ContinuousReceipts(t)'
    BY Zenon DEF Acceptable, ContinuousReceipts, Covered
<1> QED
    BY <1>1, <1>2, Zenon DEF Acceptable

\* A step that ends the operation of a stream, or begins with none.
LEMMA AcceptedSettled ==
    ASSUME NEW t \in Streams, Acceptable(t), led'[t].op = "NONE",
           led'[t].rows = led[t].rows, applied'[t] = applied[t]
    PROVE  Acceptable(t)'
<1>1. OperationInv(t)'
    BY Zenon DEF OperationInv
<1>2. ContinuousReceipts(t)'
    BY Zenon DEF Acceptable, ContinuousReceipts, Covered
<1> QED
    BY <1>1, <1>2, Zenon DEF Acceptable

\* A group that goes on, while others begin or end.
LEMMA AcceptedGroups ==
    ASSUME NEW t \in Streams, Acceptable(t),
           led'[t].op = led[t].op, led'[t].token = led[t].token,
           led'[t].rows = led[t].rows,
           applied'[t] = applied[t], receipt'[t] = receipt[t],
           led[t].op = "COMMIT" =>
              /\ led[t].token \in 1..Len(groups')
              /\ groups'[led[t].token].phase \in {"PREPARED", "UNRESOLVED"}
              /\ groups'[led[t].token].members = groups[led[t].token].members
    PROVE  Acceptable(t)'
<1>1. OperationInv(t)'
    BY Zenon DEF Acceptable, OperationInv, Members
<1>2. ContinuousReceipts(t)'
    BY Zenon DEF Acceptable, ContinuousReceipts, Covered
<1> QED
    BY <1>1, <1>2, Zenon DEF Acceptable

\* The token of an operation stays when its outcome becomes unknown.
LEMMA UnresolvedToken ==
    ASSUME NEW rec \in StreamRecord
    PROVE  Unresolved(rec).token = rec.token
BY Zenon DEF Unresolved, StreamRecord

\* Preparing an operation writes its kind, phase and token.
LEMMA WithOpFields ==
    ASSUME NEW rec \in StreamRecord, NEW op, NEW phase, NEW token
    PROVE  /\ WithOp(rec, op, phase, token).op = op
           /\ WithOp(rec, op, phase, token).token = token
           /\ WithOp(rec, op, phase, token).rows = rec.rows
           /\ WithOp(rec, op, phase, token).state = rec.state
BY Zenon DEF WithOp, StreamRecord

\* The rows of a recorded batch follow those recorded before: the receipts
\* still tile the row count.
LEMMA TiledFurther ==
    ASSUME TypeOK, NEW s \in Streams, ContinuousReceipts(s), NEW b \in Batch,
           b.off = led[s].rows, led'[s].rows = led[s].rows + RowsOf[b.payload],
           applied'[s] = applied[s] \cup {b}
    PROVE  ContinuousReceipts(s)'
<1>1. /\ led[s].rows \in Nat /\ RowsOf[b.payload] \in Nat \ {0}
      /\ \A a \in applied[s] : /\ a.off \in Nat /\ RowsOf[a.payload] \in Nat \ {0}
                               /\ a.off + RowsOf[a.payload] <= led[s].rows
    BY RowsAssumption, SMTT(30) DEF TypeOK, StreamRecord, Batch, ContinuousReceipts
<1> DEFINE rows == led[s].rows
           more == RowsOf[b.payload]
<1>2. \A a \in applied'[s] : a.off + RowsOf[a.payload] <= led'[s].rows
    BY <1>1, SMTT(30)
<1>3. \A o \in 0 .. led'[s].rows - 1 : Covered(s, o)'
  <2> SUFFICES ASSUME NEW o \in 0 .. led'[s].rows - 1 PROVE Covered(s, o)'
    BY Zenon
  <2>1. CASE o < led[s].rows
    <3>1. o \in 0 .. led[s].rows - 1
      BY <1>1, <2>1, SMTT(30)
    <3>2. PICK a \in applied[s] : o \in a.off .. a.off + RowsOf[a.payload] - 1
      BY <3>1, Zenon DEF ContinuousReceipts, Covered
    <3> QED
      BY <3>2, Zenon DEF Covered
  <2>2. CASE ~(o < led[s].rows)
    <3>1. o \in b.off .. b.off + RowsOf[b.payload] - 1
      BY <1>1, <2>2, SMTT(30)
    <3> QED
      BY <3>1, Zenon DEF Covered
  <2> QED
    BY <2>1, <2>2, Zenon
<1>4. \A x, y \in applied'[s] :
         x.off <= y.off /\ y.off < x.off + RowsOf[x.payload] => x = y
  <2> SUFFICES ASSUME NEW x \in applied'[s], NEW y \in applied'[s],
                      x.off <= y.off, y.off < x.off + RowsOf[x.payload]
               PROVE  x = y
    BY Zenon
  <2>1. CASE x \in applied[s] /\ y \in applied[s]
    BY <2>1, Zenon DEF ContinuousReceipts
  <2>2. CASE x \in applied[s] /\ y = b
    BY <1>1, <2>2, SMTT(30)
  <2>3. CASE x = b /\ y \in applied[s]
    BY <1>1, <2>3, SMTT(30)
  <2> QED
    BY <2>1, <2>2, <2>3
<1> QED
    BY <1>2, <1>3, <1>4, Zenon DEF ContinuousReceipts

\* Steps of one stream's calls.
LEMMA AcceptedStreamSteps ==
    ASSUME IInv, NEW s \in Streams, NEW t \in Streams, Acceptable(t),
           CreateStream(s) \/ CreateDefault(s) \/ AppendStep(s) \/ Finalize(s)
    PROVE  Acceptable(t)'
<1>1. /\ TypeOK /\ LedgerInv(s) /\ led[s] \in StreamRecord /\ led[t] \in StreamRecord
      /\ receipt[s] \in Batch \cup {None} /\ led \in [Streams -> StreamRecord]
      /\ applied \in [Streams -> SUBSET Batch] /\ receipt \in [Streams -> Batch \cup {None}]
    BY Zenon DEF IInv, TypeOK
<1>2. CASE CreateStream(s) \/ CreateDefault(s)
  <2>1. /\ led[s].state = "UNBORN" /\ applied' = applied /\ receipt' = receipt /\ groups' = groups
    BY <1>2, Zenon DEF CreateStream, CreateDefault
  <2>2. led[s].rows = 0 /\ led[s].op = "NONE"
    BY <1>1, <2>1, Zenon DEF LedgerInv
  <2>3. PICK st \in States : led' = [led EXCEPT ![s] = Record(st)]
    BY <1>2, Zenon DEF CreateStream, CreateDefault, States
  <2>4. CASE t = s
    <3>1. led'[t] = Record(st)
      BY <1>1, <2>3, <2>4, Zenon
    <3> QED
      BY <2>1, <2>2, <2>4, <3>1, RecordFields, AcceptedSettled, Zenon
  <2>5. CASE t # s
    <3>1. led'[t] = led[t]
      BY <1>1, <2>3, <2>5, Zenon
    <3> QED
      BY <2>1, <3>1, AcceptedFrame, Zenon
  <2> QED
    BY <2>4, <2>5, Zenon
<1>3. CASE \E off \in Offsets, schema \in Schemas \cup {None}, p \in Payloads :
              AppendBegin(s, off, schema, p)
  <2>1. PICK off \in Offsets, schema \in Schemas \cup {None}, p \in Payloads :
              AppendBegin(s, off, schema, p)
    BY <1>3, Zenon
  <2>2. applied' = applied /\ groups' = groups
    BY <2>1, Zenon DEF AppendBegin
  <2>3. CASE UNCHANGED <<led, receipt>>
    BY <2>2, <2>3, AcceptedFrame, Zenon
  <2>4. CASE t # s
    <3>1. led'[t] = led[t] /\ receipt'[t] = receipt[t]
      BY <1>1, <2>1, <2>4, Zenon DEF AppendBegin
    <3> QED
      BY <2>2, <3>1, AcceptedFrame, Zenon
  <2>5. CASE t = s /\ ~UNCHANGED <<led, receipt>>
    <3> DEFINE b == [off |-> led[s].rows, schema |-> WriterSchema(s, schema), payload |-> p]
    <3>1. /\ led' = [led EXCEPT ![s] = WithOp(led[s], "APPEND", "PREPARED", led[s].rows)]
          /\ receipt' = [receipt EXCEPT ![s] = b]
      BY <2>1, <2>5, Zenon DEF AppendBegin
    <3>2. led'[t] = WithOp(led[s], "APPEND", "PREPARED", led[s].rows) /\ receipt'[t] = b
      BY <1>1, <2>5, <3>1, Zenon
    <3>b. /\ WithOp(led[s], "APPEND", "PREPARED", led[s].rows).op = "APPEND"
          /\ WithOp(led[s], "APPEND", "PREPARED", led[s].rows).token = led[s].rows
          /\ WithOp(led[s], "APPEND", "PREPARED", led[s].rows).rows = led[s].rows
      BY <1>1, WithOpFields, SMTT(30)
    <3>3. /\ led'[t].op = "APPEND" /\ led'[t].token = led[t].rows /\ led'[t].rows = led[t].rows
      BY <2>5, <3>2, <3>b, Zenon
    <3>4. WriterSchema(s, schema) \in Schemas
      BY <1>1, <2>1, Zenon
         DEF AppendBegin, WriterSchema, SchemaAccepted, Admitted, LedgerInv, StreamRecord
    <3>5. b \in Batch
      BY <1>1, <3>4, Zenon DEF Batch, StreamRecord
    <3>a. receipt'[t] # None
      BY <3>2, <3>5, NoneAssumption, Zenon
    <3>6. OperationInv(t)'
      BY <3>3, <3>a, Zenon DEF OperationInv
    <3>7. ContinuousReceipts(t)'
      BY <2>2, <3>3, Zenon DEF Acceptable, ContinuousReceipts, Covered
    <3> QED
      BY <3>6, <3>7, Zenon DEF Acceptable
  <2> QED
    BY <2>3, <2>4, <2>5, Zenon
<1>4. CASE AppendApplied(s) \/ AppendUnrecorded(s)
  <2>1. UNCHANGED ledgerVars
    BY <1>4, Zenon DEF AppendApplied, AppendUnrecorded, AppendAmbiguous, ledgerVars
  <2> QED
    BY <2>1, AcceptedFrame, Zenon DEF ledgerVars
<1>5. CASE AppendComplete(s)
  <2>1. /\ led' = [led EXCEPT ![s] = Advanced(led[s], receipt[s])]
        /\ applied' = [applied EXCEPT ![s] = applied[s] \cup {receipt[s]}]
        /\ receipt' = [receipt EXCEPT ![s] = None] /\ groups' = groups
        /\ lock[s] = "appended"
    BY <1>5, Zenon DEF AppendComplete
  <2>2. CASE t # s
    <3>1. led'[t] = led[t] /\ applied'[t] = applied[t] /\ receipt'[t] = receipt[t]
      BY <1>1, <2>1, <2>2, Zenon
    <3> QED
      BY <2>1, <3>1, AcceptedFrame, Zenon
  <2>3. CASE t = s
    <3>1. /\ led'[s] = Advanced(led[s], receipt[s])
          /\ applied'[s] = applied[s] \cup {receipt[s]}
      BY <1>1, <2>1, Zenon
    <3>2. /\ Settled(led[s]) \in StreamRecord /\ Settled(led[s]).op = "NONE"
      BY <1>1, SettledFields, Zenon
    <3>3. /\ led'[s].op = "NONE" /\ led'[s].rows = led[s].rows + RowsOf[receipt[s].payload]
      BY <3>1, <3>2, Zenon DEF Advanced, StreamRecord
    <3>4. receipt[s] \in Batch /\ receipt[s].off = led[s].rows
      BY <1>1, <2>1, Zenon DEF LedgerInv, Appending
    <3>5. ContinuousReceipts(s)'
      BY <1>1, <2>3, <3>1, <3>3, <3>4, TiledFurther, Zenon DEF Acceptable
    <3>6. OperationInv(s)'
      BY <3>3, Zenon DEF OperationInv
    <3> QED
      BY <2>3, <3>5, <3>6, Zenon DEF Acceptable
  <2> QED
    BY <2>2, <2>3, Zenon
<1>6. CASE AppendAbort(s)
  <2>1. /\ led' = [led EXCEPT ![s] = Settled(led[s])] /\ applied' = applied
        /\ receipt' = [receipt EXCEPT ![s] = None] /\ groups' = groups
    BY <1>6, Zenon DEF AppendAbort
  <2>2. CASE t # s
    <3>1. led'[t] = led[t] /\ applied'[t] = applied[t] /\ receipt'[t] = receipt[t]
      BY <1>1, <2>1, <2>2, Zenon
    <3> QED
      BY <2>1, <3>1, AcceptedFrame, Zenon
  <2>3. CASE t = s
    <3>1. led'[t] = Settled(led[t]) /\ applied'[t] = applied[t]
      BY <1>1, <2>1, <2>3, Zenon
    <3> QED
      BY <1>1, <3>1, SettledFields, AcceptedSettled, Zenon
  <2> QED
    BY <2>2, <2>3, Zenon
<1>7. CASE AppendUnresolved(s)
  <2>1. /\ led' = [led EXCEPT ![s] = Unresolved(led[s])] /\ applied' = applied
        /\ receipt' = receipt /\ groups' = groups
    BY <1>7, Zenon DEF AppendUnresolved, AppendAmbiguous
  <2>2. led'[t] = led[t] \/ led'[t] = Unresolved(led[t])
    BY <1>1, <2>1, Zenon
  <2> QED
    BY <1>1, <2>1, <2>2, UnresolvedFields, UnresolvedToken, AcceptedFrame, Zenon
<1>8. CASE Finalize(s)
  <2>1. /\ led' = [led EXCEPT ![s] = [led[s] EXCEPT !.state = "FINALIZED"]] /\ applied' = applied
        /\ receipt' = receipt /\ groups' = groups
    BY <1>8, Zenon DEF Finalize
  <2>2. led'[t] = led[t] \/ led'[t] = [led[t] EXCEPT !.state = "FINALIZED"]
    BY <1>1, <2>1, Zenon
  <2>3. /\ led'[t].op = led[t].op /\ led'[t].token = led[t].token /\ led'[t].rows = led[t].rows
    BY <1>1, <2>2, Zenon DEF StreamRecord
  <2> QED
    BY <2>1, <2>3, AcceptedFrame, Zenon
<1> QED
    BY <1>2, <1>3, <1>4, <1>5, <1>6, <1>7, <1>8, Zenon DEF AppendStep

\* Steps of a commit.
LEMMA AcceptedCommitSteps ==
    ASSUME IInv, NEW t \in Streams, Acceptable(t),
           \/ \E S \in SUBSET Pending \ {{}} : CommitBegin(S)
           \/ \E g \in 1..MaxGroups : CommitStep(g)
    PROVE  Acceptable(t)'
<1>1. TypeOK /\ led[t] \in StreamRecord /\ groups \in Seq(CommitGroup)
    BY Zenon DEF IInv, TypeOK
<1>2. CASE \E S \in SUBSET Pending \ {{}} : CommitBegin(S)
  <2>1. PICK S \in SUBSET Pending \ {{}} : CommitBegin(S)
    BY <1>2, Zenon
  <2> DEFINE g == Len(groups) + 1
             grp == [members |-> S, phase |-> "PREPARED",
                     expected |-> [s \in Pending |-> IF s \in S THEN led[s].rows ELSE 0]]
  <2>2. /\ groups' = Append(groups, grp) /\ applied' = applied /\ receipt' = receipt
        /\ led'[t] = IF t \in S THEN WithOp(led[t], "COMMIT", "PREPARED", g) ELSE led[t]
    BY <2>1, Zenon DEF CommitBegin
  <2>3. /\ Len(groups') = g /\ groups'[g] = grp
        /\ \A h \in 1..Len(groups) : h \in 1..Len(groups') /\ groups'[h] = groups[h]
    <3> HIDE DEF grp
    <3> QED
      BY <1>1, <2>2, SMTT(30)
  <2>4. CASE t \in S
    <3>1. /\ WithOp(led[t], "COMMIT", "PREPARED", g).op = "COMMIT"
          /\ WithOp(led[t], "COMMIT", "PREPARED", g).token = g
          /\ WithOp(led[t], "COMMIT", "PREPARED", g).rows = led[t].rows
      BY <1>1, WithOpFields, SMTT(30)
    <3>2. led'[t].op = "COMMIT" /\ led'[t].token = g /\ led'[t].rows = led[t].rows
      BY <2>2, <2>4, <3>1, Zenon
    <3>3. g \in 1..Len(groups') /\ grp.phase = "PREPARED" /\ grp.members = S
      BY <1>1, <2>3, SMTT(30)
    <3>4. OperationInv(t)'
      <4> HIDE DEF grp, g
      <4> QED
        BY <2>3, <2>4, <3>2, <3>3, Zenon DEF OperationInv, Members
    <3>5. ContinuousReceipts(t)'
      BY <2>2, <3>2, Zenon DEF Acceptable, ContinuousReceipts, Covered
    <3> QED
      BY <3>4, <3>5, Zenon DEF Acceptable
  <2>5. CASE t \notin S
    <3>1. led'[t] = led[t]
      BY <2>2, <2>5, Zenon
    <3>2. led[t].op = "COMMIT" =>
            /\ led[t].token \in 1..Len(groups')
            /\ groups'[led[t].token] = groups[led[t].token]
            /\ groups[led[t].token].phase \in {"PREPARED", "UNRESOLVED"}
      BY <2>3, Zenon DEF Acceptable, OperationInv
    <3> QED
      BY <2>2, <3>1, <3>2, AcceptedGroups, Zenon
  <2> QED
    BY <2>4, <2>5, Zenon
<1>3. CASE \E g \in 1..MaxGroups : CommitStep(g)
  <2>1. PICK g \in 1..MaxGroups : CommitStep(g)
    BY <1>3, Zenon
  <2>2. CASE CommitRetry(g) \/ CommitApplied(g) \/ CommitUnrecorded(g)
    <3>1. UNCHANGED ledgerVars
      BY <2>2, Zenon DEF CommitRetry, CommitApplied, CommitUnrecorded, CommitAmbiguous, ledgerVars
    <3> QED
      BY <3>1, AcceptedFrame, Zenon DEF ledgerVars
  <2>3. CASE CommitComplete(g) \/ CommitAbort(g)
    <3>1. PICK ph \in {"APPLIED", "ABORTED"} : groups' = [groups EXCEPT ![g].phase = ph]
      BY <2>3, Zenon DEF CommitComplete, CommitAbort
    <3>2. applied' = applied /\ receipt' = receipt /\ g \in 1..Len(groups)
      BY <2>1, <2>3, SMTT(30) DEF CommitComplete, CommitAbort, Holds
    <3>3. \A h \in 1..Len(groups) : h # g => groups'[h] = groups[h] /\ h \in 1..Len(groups')
      BY <1>1, <3>1, SMTT(30)
    <3>4. CASE t \in Members(g)
      <4>1. led'[t] = Settled(led[t]) \/ led'[t] = [Settled(led[t]) EXCEPT !.state = "COMMITTED"]
        BY <2>3, <3>4, Zenon DEF CommitComplete, CommitAbort
      <4>2. led'[t].op = "NONE" /\ led'[t].rows = led[t].rows
        BY <1>1, <4>1, SettledFields, SMTT(30) DEF StreamRecord
      <4> QED
        BY <3>2, <4>2, AcceptedSettled, Zenon
    <3>5. CASE t \notin Members(g)
      <4>1. led'[t] = led[t]
        BY <2>3, <3>5, Zenon DEF CommitComplete, CommitAbort
      <4>2. led[t].op = "COMMIT" => led[t].token # g /\ led[t].token \in 1..Len(groups)
        BY <3>5, Zenon DEF Acceptable, OperationInv
      <4>3. led[t].op = "COMMIT" =>
              /\ led[t].token \in 1..Len(groups')
              /\ groups'[led[t].token] = groups[led[t].token]
              /\ groups[led[t].token].phase \in {"PREPARED", "UNRESOLVED"}
        BY <3>3, <4>2, Zenon DEF Acceptable, OperationInv
      <4> QED
        BY <3>2, <4>1, <4>3, AcceptedGroups, Zenon
    <3> QED
      BY <3>4, <3>5, Zenon
  <2>4. CASE CommitUnresolved(g)
    <3>1. /\ groups' = [groups EXCEPT ![g] = UnresolvedGroup(groups[g])]
          /\ applied' = applied /\ receipt' = receipt
          /\ led'[t] = led[t] \/ led'[t] = Unresolved(led[t])
      BY <2>4, Zenon DEF CommitUnresolved, CommitAmbiguous
    <3>2. /\ led'[t].op = led[t].op /\ led'[t].token = led[t].token /\ led'[t].rows = led[t].rows
      BY <1>1, <3>1, UnresolvedFields, UnresolvedToken, Zenon
    <3>3. \A h \in 1..Len(groups) :
            h \in 1..Len(groups') /\ (groups'[h] = groups[h] \/ groups'[h] = UnresolvedGroup(groups[h]))
      BY <1>1, <3>1, SMTT(30)
    <3>4. led[t].op = "COMMIT" =>
            /\ led[t].token \in 1..Len(groups') /\ led[t].token \in 1..Len(groups)
            /\ (groups'[led[t].token] = groups[led[t].token]
                 \/ groups'[led[t].token] = UnresolvedGroup(groups[led[t].token]))
            /\ groups[led[t].token].phase \in {"PREPARED", "UNRESOLVED"}
      BY <3>3, Zenon DEF Acceptable, OperationInv
    <3>5. \A h \in 1..Len(groups) :
            groups[h].phase \in {"PREPARED", "UNRESOLVED"} =>
              /\ UnresolvedGroup(groups[h]).phase \in {"PREPARED", "UNRESOLVED"}
              /\ UnresolvedGroup(groups[h]).members = groups[h].members
      BY <1>1, SMTT(30) DEF UnresolvedGroup, CommitGroup
    <3> QED
      BY <3>1, <3>2, <3>4, <3>5, AcceptedGroups, Zenon
  <2> QED
    BY <2>1, <2>2, <2>3, <2>4, Zenon DEF CommitStep
<1> QED
    BY <1>2, <1>3, Zenon

\* Steps of the sweep, and the restart.
LEMMA AcceptedCleanupSteps ==
    ASSUME IInv, NEW t \in Streams, Acceptable(t), SweepStep \/ Restart
    PROVE  Acceptable(t)'
<1>1. /\ TypeOK /\ led[t] \in StreamRecord /\ groups \in Seq(CommitGroup)
      /\ led \in [Streams -> StreamRecord] /\ applied \in [Streams -> SUBSET Batch]
    BY Zenon DEF IInv, TypeOK
<1>2. CASE \E s \in Streams : SweepMark(s)
  <2>1. PICK s \in Streams : SweepMark(s)
    BY <1>2, Zenon
  <2>2. /\ led' = [led EXCEPT ![s] = [led[s] EXCEPT !.cleanup = "PENDING"]]
        /\ applied' = applied /\ receipt' = receipt /\ groups' = groups
    BY <2>1, Zenon DEF SweepMark
  <2>3. led'[t] = led[t] \/ led'[t] = [led[t] EXCEPT !.cleanup = "PENDING"]
    BY <1>1, <2>2, Zenon
  <2>4. led'[t].op = led[t].op /\ led'[t].token = led[t].token /\ led'[t].rows = led[t].rows
    BY <1>1, <2>3, Zenon DEF StreamRecord
  <2> QED
    BY <2>2, <2>4, AcceptedFrame, Zenon
<1>3. CASE SweepDelete
  <2>1. /\ led' = [led EXCEPT ![sweep.cur] = Record("DELETED")]
        /\ applied' = [applied EXCEPT ![sweep.cur] = {}] /\ receipt' = receipt /\ groups' = groups
    BY <1>3, Zenon DEF SweepDelete
  <2>2. CASE t = sweep.cur
    <3>1. led'[t] = Record("DELETED") /\ applied'[t] = {}
      BY <1>1, <2>1, <2>2, Zenon
    <3>2. led'[t].op = "NONE" /\ led'[t].rows = 0
      BY <3>1, RecordFields, Zenon DEF States
    <3>3. OperationInv(t)'
      BY <3>2, Zenon DEF OperationInv
    <3>4. ContinuousReceipts(t)'
      BY <3>1, <3>2, SMTT(30) DEF ContinuousReceipts
    <3> QED
      BY <3>3, <3>4, Zenon DEF Acceptable
  <2>3. CASE t # sweep.cur
    <3>1. led'[t] = led[t] /\ applied'[t] = applied[t]
      BY <1>1, <2>1, <2>3, Zenon
    <3> QED
      BY <2>1, <3>1, AcceptedFrame, Zenon
  <2> QED
    BY <2>2, <2>3, Zenon
<1>4. CASE SweepStep /\ ~(\E s \in Streams : SweepMark(s)) /\ ~SweepDelete
  <2>1. UNCHANGED ledgerVars
    BY <1>4, Zenon DEF SweepStep, SweepStart, SweepVisit, SweepMarkFails,
       SweepDiscard, SweepDiscardFails, SweepDeleteFails, SweepEnd
  <2> QED
    BY <2>1, AcceptedFrame, Zenon DEF ledgerVars
<1>5. CASE Restart
  <2>1. /\ led'[t] = Unresolved(led[t]) /\ applied' = applied /\ receipt' = receipt
        /\ groups' = [g \in 1..Len(groups) |-> UnresolvedGroup(groups[g])]
    BY <1>5, Zenon DEF Restart
  <2>2. \A h \in 1..Len(groups) : h \in 1..Len(groups') /\ groups'[h] = UnresolvedGroup(groups[h])
    BY <1>1, <2>1, SMTT(30)
  <2>3. \A h \in 1..Len(groups) :
          groups[h].phase \in {"PREPARED", "UNRESOLVED"} =>
            /\ UnresolvedGroup(groups[h]).phase \in {"PREPARED", "UNRESOLVED"}
            /\ UnresolvedGroup(groups[h]).members = groups[h].members
    BY <1>1, SMTT(30) DEF UnresolvedGroup, CommitGroup
  <2>4. /\ led'[t].op = led[t].op /\ led'[t].token = led[t].token /\ led'[t].rows = led[t].rows
    BY <1>1, <2>1, UnresolvedFields, UnresolvedToken, Zenon
  <2>5. led[t].op = "COMMIT" =>
          /\ led[t].token \in 1..Len(groups)
          /\ groups[led[t].token].phase \in {"PREPARED", "UNRESOLVED"}
    BY Zenon DEF Acceptable, OperationInv
  <2>6. led[t].op = "COMMIT" =>
          /\ led[t].token \in 1..Len(groups')
          /\ groups'[led[t].token].phase \in {"PREPARED", "UNRESOLVED"}
          /\ groups'[led[t].token].members = groups[led[t].token].members
    BY <2>2, <2>3, <2>5, Zenon
  <2> QED
    BY <2>1, <2>4, <2>6, AcceptedGroups, Zenon
<1> QED
    BY <1>2, <1>3, <1>4, <1>5, Zenon

\* Every step leaves every stream as validateWriteSnapshot wants it.
LEMMA AcceptedStep ==
    ASSUME IInv, [Next]_vars, NEW t \in Streams, Acceptable(t)
    PROVE  Acceptable(t)'
<1>1. CASE \E s \in Streams : CreateStream(s) \/ CreateDefault(s) \/ AppendStep(s) \/ Finalize(s)
    BY <1>1, AcceptedStreamSteps, Zenon
<1>2. CASE \/ \E S \in SUBSET Pending \ {{}} : CommitBegin(S)
           \/ \E g \in 1..MaxGroups : CommitStep(g)
    BY <1>2, AcceptedCommitSteps, Zenon
<1>3. CASE SweepStep \/ Restart
    BY <1>3, AcceptedCleanupSteps, Zenon
<1>4. CASE \/ \E s \in Streams : Age(s) \/ CloseVisit(s)
           \/ WorkerFinishes \/ Close \/ StopCoordinator \/ Crash \/ UNCHANGED vars
  <2>1. UNCHANGED ledgerVars
    BY <1>4, Zenon DEF Age, CloseVisit, WorkerFinishes, Close, StopCoordinator, Crash, vars, ledgerVars
  <2> QED
    BY <2>1, AcceptedFrame, Zenon DEF ledgerVars
<1> QED
    BY <1>1, <1>2, <1>3, <1>4, Zenon DEF Next

\* Every way of writing a record keeps its operation and its phase together.
LEMMA PhasedRecords ==
    ASSUME NEW rec \in StreamRecord
    PROVE  /\ Phased(Settled(rec))
           /\ Phased([Settled(rec) EXCEPT !.state = "COMMITTED"])
           /\ \A b : Phased(Advanced(rec, b))
           /\ \A op \in {"APPEND", "COMMIT"} : \A token :
                 Phased(WithOp(rec, op, "PREPARED", token))
           /\ Phased(rec) => /\ Phased(Unresolved(rec))
                             /\ Phased([rec EXCEPT !.state = "FINALIZED"])
                             /\ Phased([rec EXCEPT !.cleanup = "PENDING"])
BY SMTT(30) DEF Phased, Settled, WithOp, Advanced, Unresolved, StreamRecord

LEMMA PhasedFresh == \A st : Phased(Record(st))
BY SMT DEF Phased, Record

\* No step leaves a record with a phase but no operation, or the reverse.
LEMMA PhasedStep ==
    ASSUME IInv, [Next]_vars, NEW t \in Streams, Phased(led[t])
    PROVE  Phased(led'[t])
<1>1. led \in [Streams -> StreamRecord] /\ led[t] \in StreamRecord
    BY Zenon DEF IInv, TypeOK
<1>3. CASE \E s \in Streams : CreateStream(s) \/ CreateDefault(s)
  <2>1. \E st : led'[t] = led[t] \/ led'[t] = Record(st)
    BY <1>1, <1>3, Zenon DEF CreateStream, CreateDefault
  <2> QED
    BY <2>1, PhasedFresh, Zenon
<1>4. CASE \E s \in Streams : AppendStep(s) \/ Finalize(s)
  <2> PICK s \in Streams : AppendStep(s) \/ Finalize(s)
    BY <1>4, Zenon
  <2>1. CASE \E off \in Offsets, schema \in Schemas \cup {None}, p \in Payloads :
                AppendBegin(s, off, schema, p)
    <3>1. \/ led' = led
          \/ led' = [led EXCEPT ![s] = WithOp(led[s], "APPEND", "PREPARED", led[s].rows)]
      BY <2>1, Zenon DEF AppendBegin
    <3>2. Phased(WithOp(led[t], "APPEND", "PREPARED", led[t].rows))
      BY <1>1, PhasedRecords, Zenon
    <3>3. led'[t] = led[t] \/ led'[t] = WithOp(led[t], "APPEND", "PREPARED", led[t].rows)
      BY <1>1, <3>1, Zenon
    <3> QED
      BY <3>2, <3>3, Zenon
  <2>2. CASE AppendApplied(s) \/ AppendUnrecorded(s)
    BY <2>2, Zenon DEF AppendApplied, AppendUnrecorded, AppendAmbiguous, ledgerVars
  <2>3. CASE AppendComplete(s)
    <3>1. led' = [led EXCEPT ![s] = Advanced(led[s], receipt[s])]
      BY <2>3, Zenon DEF AppendComplete
    <3> QED
      BY <1>1, <3>1, PhasedRecords, Zenon
  <2>4. CASE AppendAbort(s)
    <3>1. led' = [led EXCEPT ![s] = Settled(led[s])]
      BY <2>4, Zenon DEF AppendAbort
    <3> QED
      BY <1>1, <3>1, PhasedRecords, Zenon
  <2>5. CASE AppendUnresolved(s)
    <3>1. led' = [led EXCEPT ![s] = Unresolved(led[s])]
      BY <2>5, Zenon DEF AppendUnresolved, AppendAmbiguous
    <3> QED
      BY <1>1, <3>1, PhasedRecords, Zenon
  <2>6. CASE Finalize(s)
    <3>1. led' = [led EXCEPT ![s] = [led[s] EXCEPT !.state = "FINALIZED"]]
      BY <2>6, Zenon DEF Finalize
    <3> QED
      BY <1>1, <3>1, PhasedRecords, Zenon
  <2> QED
    BY <2>1, <2>2, <2>3, <2>4, <2>5, <2>6, Zenon DEF AppendStep
<1>5. CASE \/ \E S \in SUBSET Pending \ {{}} : CommitBegin(S)
           \/ \E g \in 1..MaxGroups : CommitStep(g)
  <2>1. \/ led'[t] = led[t]
        \/ led'[t] = WithOp(led[t], "COMMIT", "PREPARED", Len(groups) + 1)
        \/ led'[t] = [Settled(led[t]) EXCEPT !.state = "COMMITTED"]
        \/ led'[t] = Settled(led[t])
        \/ led'[t] = Unresolved(led[t])
    BY <1>1, <1>5, Zenon DEF CommitBegin, CommitStep, CommitRetry, CommitApplied,
       CommitComplete, CommitAbort, CommitUnresolved, CommitUnrecorded,
       CommitAmbiguous, ledgerVars
  <2> QED
    BY <1>1, <2>1, PhasedRecords, Zenon
<1>6. CASE SweepStep
  <2>1. \/ led'[t] = led[t]
        \/ led'[t] = [led[t] EXCEPT !.cleanup = "PENDING"]
        \/ led'[t] = Record("DELETED")
    BY <1>1, <1>6, Zenon DEF SweepStep, SweepStart, SweepVisit, SweepMark, SweepMarkFails,
       SweepDiscard, SweepDiscardFails, SweepDelete, SweepDeleteFails, SweepEnd, ledgerVars
  <2> QED
    BY <1>1, <2>1, PhasedRecords, PhasedFresh, Zenon
<1>7. CASE Restart
  <2>1. led'[t] = Unresolved(led[t])
    BY <1>7, Zenon DEF Restart
  <2> QED
    BY <1>1, <2>1, PhasedRecords, Zenon
<1>8. CASE \/ \E s \in Streams : Age(s) \/ CloseVisit(s)
           \/ WorkerFinishes \/ Close \/ StopCoordinator \/ Crash \/ UNCHANGED vars
  <2>1. led' = led
    BY <1>8, Zenon DEF Age, CloseVisit, WorkerFinishes, Close, StopCoordinator, Crash,
       vars, ledgerVars
  <2> QED
    BY <2>1, Zenon
<1> QED
    BY <1>3, <1>4, <1>5, <1>6, <1>7, <1>8, Zenon DEF Next

\* validateWriteSnapshot asks for no more.
LEMMA AcceptedSnapshot ==
    ASSUME IInv, \A s \in Streams : Acceptable(s) /\ Phased(led[s])
    PROVE  ValidSnapshot
<1>1. \A g \in 1..Len(groups) : \A s \in Members(g) :
         Exists(s) /\ led[s].rows = groups[g].expected[s]
    BY Zenon DEF IInv, GroupInv, Exists
<1>2. ASSUME NEW s \in Streams PROVE ReconcilableOperation(s)
  <2>1. /\ LedgerInv(s) /\ OperationInv(s) /\ led[s] \in StreamRecord
    BY Zenon DEF IInv, TypeOK, Acceptable
  <2>2. led[s].op \in {"NONE", "APPEND", "COMMIT"}
    BY <2>1, Zenon DEF StreamRecord
  <2>3. /\ led[s].op = "NONE" => receipt[s] = None
        /\ led[s].op = "COMMIT" => receipt[s] = None
        /\ led[s].op = "APPEND" => receipt[s] # None /\ receipt[s].off = led[s].rows
    BY <2>1, Zenon DEF LedgerInv, OperationInv
  <2>4. CASE led[s].op = "NONE"
    BY <2>3, <2>4, Zenon DEF ReconcilableOperation
  <2>5. led[s].op # "NONE" => Unresolved(led[s]).phase = "UNRESOLVED"
    BY <2>1, SMTT(30) DEF Phased, Unresolved, StreamRecord
  <2>6. CASE led[s].op = "APPEND"
    BY <2>1, <2>3, <2>5, <2>6, Zenon DEF ReconcilableOperation, OperationInv
  <2>7. CASE led[s].op = "COMMIT"
    <3>1. /\ led[s].token \in 1..Len(groups) /\ s \in Members(led[s].token)
          /\ groups[led[s].token].phase \in {"PREPARED", "UNRESOLVED"}
      BY <2>1, <2>7, Zenon DEF OperationInv
    <3>2. groups[led[s].token] \in CommitGroup
      BY <3>1, SMT DEF IInv, TypeOK
    <3>3. UnresolvedGroup(groups[led[s].token]).phase = "UNRESOLVED"
      BY <3>1, <3>2, SMT DEF UnresolvedGroup, CommitGroup
    <3> QED
      BY <2>3, <2>5, <2>7, <3>1, <3>3, Zenon DEF ReconcilableOperation
  <2> QED
    BY <2>2, <2>4, <2>6, <2>7, Zenon
<1> QED
    BY <1>1, <1>2, Zenon DEF ValidSnapshot, WellFormed, Phased, Existing, Acceptable

\* Whenever the process stops, the ledger it leaves is one validateWriteSnapshot
\* accepts, so that the emulator starts again: receipts tile the row count, and
\* operations, receipts and commit groups name each other.
THEOREM StartupAcceptedHolds == Spec => []StartupAccepted
<1> DEFINE AcceptInv == \A s \in Streams : Acceptable(s) /\ Phased(led[s])
<1>1. Init => AcceptInv
  <2> SUFFICES ASSUME Init, NEW s \in Streams PROVE Acceptable(s) /\ Phased(led[s])
    BY Zenon
  <2>1. led[s] = Record("UNBORN") /\ applied[s] = {}
    BY Zenon DEF Init
  <2>2. led[s].op = "NONE" /\ led[s].rows = 0
    BY <2>1, RecordFields, Zenon DEF States
  <2>3. Acceptable(s)
    BY <2>1, <2>2, SMTT(30) DEF Acceptable, OperationInv, ContinuousReceipts
  <2> QED
    BY <2>1, <2>3, PhasedFresh, Zenon
<1>2. IInv /\ AcceptInv /\ [Next]_vars => AcceptInv'
    BY AcceptedStep, PhasedStep, Zenon
<1>3. IInv /\ AcceptInv => StartupAccepted
    BY AcceptedSnapshot, Zenon DEF StartupAccepted
<1> QED
    BY <1>1, <1>2, <1>3, InductiveInvariant, PTL DEF Spec

-----------------------------------------------------------------------------
(* The slots of the service. *)

\* The streams that hold a slot.
Live == {s \in Pending : Uncommitted(s)}

\* A stream in a commit is finalized, one that was deleted is none of the
\* sweep's, and the one it works on is no longer to be visited.
LiveInv ==
    /\ \A s \in Pending :
          /\ led[s].op = "COMMIT" => led[s].state = "FINALIZED"
          /\ led[s].state = "DELETED" => s \notin sweep.orphans /\ led[s].cleanup = "ACTIVE"
    /\ sweep.pc \in {"discard", "delete"} => sweep.cur \notin sweep.orphans

\* The limit holds of the streams in the ledger, and while the process runs its
\* counter is exact.
SlotInv ==
    /\ Cardinality(Live) <= MaxStreams
    /\ Up => pending = Cardinality(Live)

\* Only finitely many streams hold a slot.
LEMMA LiveFinite == IsFiniteSet(Live) /\ Cardinality(Live) \in Nat
<1>1. IsFiniteSet(Live)
    BY StreamsAssumption, FS_Subset, Zenon DEF Live
<1> QED
    BY <1>1, FS_CardinalityType, Zenon

\* A step that changes no stream's hold on its slot, nor the counter.
LEMMA SlotsSame ==
    ASSUME SlotInv, pending' = pending, Up' => Up,
           \A s \in Pending : led'[s].state = led[s].state
    PROVE  SlotInv'
<1>1. Live' = Live
    BY Zenon DEF Live, Uncommitted
<1> QED
    BY <1>1, Zenon DEF SlotInv

\* The parts of LiveInv that speak of one stream, and of the sweep.
LEMMA LiveFrame ==
    ASSUME LiveInv, sweep' = sweep,
           \A s \in Pending : /\ led'[s].op = "COMMIT" => led'[s].state = "FINALIZED"
                              /\ led'[s].state = "DELETED" =>
                                    led[s].state = "DELETED" /\ led'[s].cleanup = led[s].cleanup
    PROVE  LiveInv'
BY Zenon DEF LiveInv

\* Steps of one stream's calls.
LEMMA SlotStreamSteps ==
    ASSUME IInv, LiveInv, SlotInv, NEW s \in Streams,
           CreateStream(s) \/ CreateDefault(s) \/ AppendStep(s) \/ Finalize(s)
    PROVE  LiveInv' /\ SlotInv'
<1>1. /\ TypeOK /\ led[s] \in StreamRecord /\ led \in [Streams -> StreamRecord]
      /\ Pending \subseteq Streams /\ LedgerInv(s)
    BY Zenon DEF IInv, TypeOK, Streams
<1>2. CASE CreateStream(s)
  <2>1. /\ led' = [led EXCEPT ![s] = Record("OPEN")] /\ sweep' = sweep /\ process' = process
        /\ s \in Pending /\ led[s].state = "UNBORN" /\ pending < MaxStreams /\ pending' = pending + 1
        /\ process = "running"
    BY <1>2, Zenon DEF CreateStream, SlotFree, lifeVars
  <2>2. /\ led'[s] = Record("OPEN") /\ \A t \in Pending \ {s} : led'[t] = led[t]
    BY <1>1, <2>1, Zenon
  <2>3. led'[s].state = "OPEN" /\ led'[s].op = "NONE"
    BY <2>2, RecordFields, Zenon DEF States
  <2>4. LiveInv'
    <3>1. \A t \in Pending : /\ led'[t].op = "COMMIT" => led'[t].state = "FINALIZED"
                             /\ led'[t].state = "DELETED" =>
                                   led[t].state = "DELETED" /\ led'[t].cleanup = led[t].cleanup
      BY <2>2, <2>3, Zenon DEF LiveInv
    <3> QED
      BY <2>1, <3>1, LiveFrame, Zenon
  <2>5. Live' = Live \cup {s} /\ s \notin Live
    BY <2>1, <2>2, <2>3, Zenon DEF Live, Uncommitted
  <2>6. Cardinality(Live') = Cardinality(Live) + 1
    BY <2>5, LiveFinite, FS_AddElement, Zenon
  <2>7. SlotInv'
    BY <2>1, <2>6, LiveFinite, BoundsAssumption, SMTT(30) DEF SlotInv, Up
  <2> QED
    BY <2>4, <2>7, Zenon
<1>3. CASE CreateDefault(s)
  <2>1. /\ led' = [led EXCEPT ![s] = Record("COMMITTED")] /\ s \notin Pending
        /\ UNCHANGED <<sweep, pending, process>>
    BY <1>3, StreamsAssumption, Zenon DEF CreateDefault, memoryVars, lifeVars
  <2>2. \A t \in Pending : led'[t] = led[t]
    BY <1>1, <2>1, Zenon
  <2>3. LiveInv'
    BY <2>1, <2>2, LiveFrame, Zenon DEF LiveInv
  <2>4. SlotInv'
    BY <2>1, <2>2, SlotsSame, Zenon DEF Up
  <2> QED
    BY <2>3, <2>4, Zenon
<1>4. CASE AppendStep(s)
  <2>1. UNCHANGED <<sweep, pending, process>>
    BY <1>4, Zenon DEF AppendStep, AppendBegin, AppendApplied, AppendComplete, AppendAbort,
       AppendUnresolved, AppendUnrecorded, AppendAmbiguous, lifeVars
  <2>2. \/ led' = led
        \/ led' = [led EXCEPT ![s] = WithOp(led[s], "APPEND", "PREPARED", led[s].rows)]
        \/ led' = [led EXCEPT ![s] = Advanced(led[s], receipt[s])]
        \/ led' = [led EXCEPT ![s] = Settled(led[s])]
        \/ led' = [led EXCEPT ![s] = Unresolved(led[s])]
    BY <1>4, ZenonT(30) DEF AppendStep, AppendBegin, AppendApplied, AppendComplete, AppendAbort,
       AppendUnresolved, AppendUnrecorded, AppendAmbiguous, ledgerVars
  <2>3. ASSUME NEW rec \in {WithOp(led[s], "APPEND", "PREPARED", led[s].rows),
                            Advanced(led[s], receipt[s]), Settled(led[s]), Unresolved(led[s])}
        PROVE  /\ rec.state = led[s].state /\ rec.cleanup = led[s].cleanup
               /\ rec.op \in {"NONE", "APPEND", led[s].op}
    <3>1. CASE rec = WithOp(led[s], "APPEND", "PREPARED", led[s].rows)
      BY <1>1, <3>1, Zenon DEF WithOp, StreamRecord
    <3>2. CASE rec = Advanced(led[s], receipt[s])
      <4>1. PICK r \in StreamRecord : r = Settled(led[s])
        BY <1>1, SettledFields, Zenon
      <4>2. r.state = led[s].state /\ r.cleanup = led[s].cleanup /\ r.op = "NONE"
        BY <1>1, <4>1, SettledFields, Zenon
      <4>3. rec.state = r.state /\ rec.cleanup = r.cleanup /\ rec.op = r.op
        BY <3>2, <4>1, Zenon DEF Advanced, StreamRecord
      <4> QED
        BY <4>2, <4>3, Zenon
    <3>3. CASE rec = Settled(led[s])
      BY <1>1, <3>3, SettledFields, Zenon
    <3>4. CASE rec = Unresolved(led[s])
      BY <1>1, <3>4, UnresolvedFields, Zenon
    <3> QED
      BY <3>1, <3>2, <3>3, <3>4, Zenon
  <2>4. \/ led' = led
        \/ \E rec \in {WithOp(led[s], "APPEND", "PREPARED", led[s].rows),
                       Advanced(led[s], receipt[s]), Settled(led[s]), Unresolved(led[s])} :
              led' = [led EXCEPT ![s] = rec]
    BY <2>2, Zenon
  <2>5. \A t \in Pending : /\ led'[t].state = led[t].state /\ led'[t].cleanup = led[t].cleanup
                           /\ led'[t].op \in {"NONE", "APPEND", led[t].op}
    <3>1. CASE led' = led
      <4>1. \A t \in Pending : led[t].op \in {"NONE", "APPEND", led[t].op}
        BY Zenon
      <4> QED
        BY <3>1, <4>1, Zenon
    <3>2. CASE \E rec \in {WithOp(led[s], "APPEND", "PREPARED", led[s].rows),
                           Advanced(led[s], receipt[s]), Settled(led[s]), Unresolved(led[s])} :
                  led' = [led EXCEPT ![s] = rec]
      <4>1. PICK rec \in {WithOp(led[s], "APPEND", "PREPARED", led[s].rows),
                          Advanced(led[s], receipt[s]), Settled(led[s]), Unresolved(led[s])} :
                  led' = [led EXCEPT ![s] = rec]
        BY <3>2, Zenon
      <4>2. /\ rec.state = led[s].state /\ rec.cleanup = led[s].cleanup
            /\ rec.op \in {"NONE", "APPEND", led[s].op}
        BY <2>3, Zenon
      <4>3. ASSUME NEW t \in Pending
            PROVE  /\ led'[t].state = led[t].state /\ led'[t].cleanup = led[t].cleanup
                   /\ led'[t].op \in {"NONE", "APPEND", led[t].op}
        <5>1. CASE t = s
          <6>1. led'[t] = rec
            BY <1>1, <4>1, <5>1, Zenon
          <6> QED
            BY <4>2, <5>1, <6>1, Zenon
        <5>2. CASE t # s
          <6>1. led'[t] = led[t]
            BY <1>1, <4>1, <5>2, Zenon
          <6> QED
            BY <6>1, Zenon
        <5> QED
          BY <5>1, <5>2, Zenon
      <4> QED
        BY <4>3, Zenon
    <3> QED
      BY <2>4, <3>1, <3>2, Zenon
  <2>6. LiveInv'
    <3>1. \A t \in Pending : /\ led'[t].op = "COMMIT" => led'[t].state = "FINALIZED"
                             /\ led'[t].state = "DELETED" =>
                                   led[t].state = "DELETED" /\ led'[t].cleanup = led[t].cleanup
      BY <2>5, Zenon DEF LiveInv
    <3> QED
      BY <2>1, <3>1, LiveFrame, Zenon
  <2>7. SlotInv'
    BY <2>1, <2>5, SlotsSame, Zenon DEF Up
  <2> QED
    BY <2>6, <2>7, Zenon
<1>5. CASE Finalize(s)
  <2>1. /\ led' = [led EXCEPT ![s] = [led[s] EXCEPT !.state = "FINALIZED"]]
        /\ s \in Pending /\ led[s].state \in {"OPEN", "FINALIZED"}
        /\ UNCHANGED <<sweep, pending, process>>
    BY <1>5, Zenon DEF Finalize, Admitted, Exists, memoryVars, lifeVars
  <2>2. led'[s] = [led[s] EXCEPT !.state = "FINALIZED"] /\ \A t \in Pending \ {s} : led'[t] = led[t]
    BY <1>1, <2>1, Zenon
  <2>3. led'[s].state = "FINALIZED"
    BY <1>1, <2>2, Zenon DEF StreamRecord
  <2>4. LiveInv'
    <3>1. \A t \in Pending : /\ led'[t].op = "COMMIT" => led'[t].state = "FINALIZED"
                             /\ led'[t].state = "DELETED" =>
                                   led[t].state = "DELETED" /\ led'[t].cleanup = led[t].cleanup
      <4> SUFFICES ASSUME NEW t \in Pending
                   PROVE  /\ led'[t].op = "COMMIT" => led'[t].state = "FINALIZED"
                          /\ led'[t].state = "DELETED" =>
                                led[t].state = "DELETED" /\ led'[t].cleanup = led[t].cleanup
        BY Zenon
      <4>1. CASE t = s
        BY <2>3, <4>1, Zenon
      <4>2. CASE t # s
        <5>1. led'[t] = led[t]
          BY <2>2, <4>2, Zenon
        <5> QED
          BY <5>1, Zenon DEF LiveInv
      <4> QED
        BY <4>1, <4>2, Zenon
    <3> QED
      BY <2>1, <3>1, LiveFrame, Zenon
  <2>5. Live' = Live
    BY <2>1, <2>2, <2>3, Zenon DEF Live, Uncommitted
  <2>6. SlotInv'
    BY <2>1, <2>5, Zenon DEF SlotInv, Up
  <2> QED
    BY <2>4, <2>6, Zenon
<1> QED
    BY <1>2, <1>3, <1>4, <1>5, Zenon

\* Steps of a commit.
LEMMA SlotCommitSteps ==
    ASSUME IInv, LiveInv, SlotInv,
           \/ \E S \in SUBSET Pending \ {{}} : CommitBegin(S)
           \/ \E g \in 1..MaxGroups : CommitStep(g)
    PROVE  LiveInv' /\ SlotInv'
<1>1. /\ TypeOK /\ led \in [Streams -> StreamRecord] /\ Pending \subseteq Streams
      /\ \A t \in Pending : t \in Streams /\ led[t] \in StreamRecord
    BY Zenon DEF IInv, TypeOK, Streams
<1>2. CASE \E S \in SUBSET Pending \ {{}} : CommitBegin(S)
  <2>1. PICK S \in SUBSET Pending \ {{}} : CommitBegin(S)
    BY <1>2, Zenon
  <2>2. PICK g : g = Len(groups) + 1
    BY Zenon
  <2>3. /\ UNCHANGED <<sweep, pending, process>>
        /\ \A t \in Streams :
              led'[t] = IF t \in S THEN WithOp(led[t], "COMMIT", "PREPARED", g) ELSE led[t]
        /\ \A t \in S : led[t].state = "FINALIZED"
    BY <2>1, <2>2, Zenon DEF CommitBegin, CommitReady, lifeVars
  <2>4. ASSUME NEW t \in Pending
        PROVE  /\ led'[t].state = led[t].state /\ led'[t].cleanup = led[t].cleanup
               /\ led'[t].op = "COMMIT" => led'[t].state = "FINALIZED"
    <3>1. CASE t \in S
      <4>1. led'[t] = WithOp(led[t], "COMMIT", "PREPARED", g) /\ led[t].state = "FINALIZED"
        BY <1>1, <2>3, <3>1, Zenon
      <4>2. led'[t].state = led[t].state /\ led'[t].cleanup = led[t].cleanup
        BY <1>1, <4>1, Zenon DEF WithOp, StreamRecord
      <4> QED
        BY <4>1, <4>2, Zenon
    <3>2. CASE t \notin S
      <4>1. led'[t] = led[t]
        BY <1>1, <2>3, <3>2, Zenon
      <4> QED
        BY <4>1, Zenon DEF LiveInv
    <3> QED
      BY <3>1, <3>2, Zenon
  <2>5. LiveInv'
    BY <2>3, <2>4, LiveFrame, Zenon
  <2>6. SlotInv'
    BY <2>3, <2>4, SlotsSame, Zenon DEF Up
  <2> QED
    BY <2>5, <2>6, Zenon
<1>3. CASE \E g \in 1..MaxGroups : CommitStep(g)
  <2>1. PICK g \in 1..MaxGroups : CommitStep(g)
    BY <1>3, Zenon
  <2>2. CASE CommitRetry(g) \/ CommitApplied(g) \/ CommitUnrecorded(g)
    <3>1. UNCHANGED <<led, sweep, pending, process>>
      BY <2>2, Zenon DEF CommitRetry, CommitApplied, CommitUnrecorded, CommitAmbiguous,
         ledgerVars, lifeVars
    <3>2. LiveInv'
      BY <3>1, LiveFrame, Zenon DEF LiveInv
    <3>3. SlotInv'
      BY <3>1, SlotsSame, Zenon DEF Up
    <3> QED
      BY <3>2, <3>3, Zenon
  <2>3. CASE CommitAbort(g) \/ CommitUnresolved(g)
    <3>1. /\ UNCHANGED <<sweep, pending, process>>
          /\ \A t \in Streams : led'[t] \in {led[t], Settled(led[t]), Unresolved(led[t])}
      BY <2>3, Zenon DEF CommitAbort, CommitUnresolved, CommitAmbiguous, lifeVars
    <3>2. ASSUME NEW t \in Pending
          PROVE  /\ led'[t].state = led[t].state /\ led'[t].cleanup = led[t].cleanup
                 /\ led'[t].op = "COMMIT" => led'[t].state = "FINALIZED"
      <4>1. led[t] \in StreamRecord /\ led'[t] \in {led[t], Settled(led[t]), Unresolved(led[t])}
        BY <1>1, <3>1, Zenon
      <4>2. CASE led'[t] = led[t]
        BY <4>2, Zenon DEF LiveInv
      <4>3. CASE led'[t] = Settled(led[t])
        BY <4>1, <4>3, SettledFields, Zenon
      <4>4. CASE led'[t] = Unresolved(led[t])
        <5>1. /\ led'[t].state = led[t].state /\ led'[t].cleanup = led[t].cleanup
              /\ led'[t].op = led[t].op
          BY <4>1, <4>4, UnresolvedFields, Zenon
        <5> QED
          BY <5>1, Zenon DEF LiveInv
      <4> QED
        BY <4>1, <4>2, <4>3, <4>4, Zenon
    <3>3. LiveInv'
      BY <3>1, <3>2, LiveFrame, Zenon
    <3>4. SlotInv'
      BY <3>1, <3>2, SlotsSame, Zenon DEF Up
    <3> QED
      BY <3>3, <3>4, Zenon
  <2>4. CASE CommitComplete(g)
    <3>1. /\ UNCHANGED <<sweep, process>> /\ pending' = pending - Cardinality(Members(g))
          /\ \A t \in Streams :
                led'[t] = IF t \in Members(g) THEN [Settled(led[t]) EXCEPT !.state = "COMMITTED"]
                          ELSE led[t]
          /\ Holds(g, "committed")
      BY <2>4, Zenon DEF CommitComplete, lifeVars
    <3>2. g \in 1..Len(groups) /\ Members(g) \subseteq Pending
      BY <1>1, <2>1, <3>1, MemberTypes, SMTT(30) DEF Holds
    <3>3. Members(g) \subseteq Live
      <4> SUFFICES ASSUME NEW t \in Members(g) PROVE t \in Live
        BY Zenon
      <4>1. t \in Pending /\ t \in Streams /\ lock[t] = "committed"
        BY <1>1, <3>1, <3>2, Zenon DEF Holds
      <4>2. led[t].op = "COMMIT"
        BY <4>1, Zenon DEF IInv, LedgerInv
      <4>3. led[t].state = "FINALIZED"
        BY <4>1, <4>2, Zenon DEF LiveInv
      <4> QED
        BY <4>1, <4>3, Zenon DEF Live, Uncommitted
    <3>4. ASSUME NEW t \in Pending
          PROVE  IF t \in Members(g) THEN led'[t].state = "COMMITTED" /\ led'[t].op = "NONE"
                 ELSE led'[t] = led[t]
      <4>1. CASE t \in Members(g)
        <5>1. PICK r \in StreamRecord : r = Settled(led[t]) /\ r.op = "NONE"
          BY <1>1, SettledFields, Zenon
        <5>2. led'[t] = [r EXCEPT !.state = "COMMITTED"]
          BY <1>1, <3>1, <4>1, <5>1, Zenon
        <5> QED
          BY <4>1, <5>1, <5>2, Zenon DEF StreamRecord
      <4>2. CASE t \notin Members(g)
        BY <1>1, <3>1, <4>2, Zenon
      <4> QED
        BY <4>1, <4>2, Zenon
    <3>5. LiveInv'
      <4>1. ASSUME NEW t \in Pending
            PROVE  /\ led'[t].op = "COMMIT" => led'[t].state = "FINALIZED"
                   /\ led'[t].state = "DELETED" =>
                         led[t].state = "DELETED" /\ led'[t].cleanup = led[t].cleanup
        <5>1. CASE t \in Members(g)
          BY <3>4, <5>1, Zenon
        <5>2. CASE t \notin Members(g)
          BY <3>4, <5>2, Zenon DEF LiveInv
        <5> QED
          BY <5>1, <5>2, Zenon
      <4> QED
        BY <3>1, <4>1, LiveFrame, Zenon
    <3>6. Live' = Live \ Members(g)
      BY <3>4, Zenon DEF Live, Uncommitted
    <3>7. Live \cap Members(g) = Members(g)
      BY <3>3, Zenon
    <3>8. /\ Cardinality(Live') = Cardinality(Live) - Cardinality(Members(g))
          /\ Cardinality(Members(g)) \in Nat
      <4>1. IsFiniteSet(Members(g))
        BY <3>3, LiveFinite, FS_Subset, Zenon
      <4>2. Cardinality(Live \ Members(g)) = Cardinality(Live) - Cardinality(Live \cap Members(g))
        BY LiveFinite, FS_Difference, Zenon
      <4> QED
        BY <3>6, <3>7, <4>1, <4>2, FS_CardinalityType, Zenon
    <3>9. SlotInv'
      BY <3>1, <3>8, LiveFinite, BoundsAssumption, SMTT(30) DEF SlotInv, Up
    <3> QED
      BY <3>5, <3>9, Zenon
  <2> QED
    BY <2>1, <2>2, <2>3, <2>4, Zenon DEF CommitStep
<1> QED
    BY <1>2, <1>3, Zenon

\* Steps of the sweep.
LEMMA SlotSweepSteps ==
    ASSUME IInv, LiveInv, SlotInv, SweepStep
    PROVE  LiveInv' /\ SlotInv'
<1>1. /\ TypeOK /\ led \in [Streams -> StreamRecord] /\ Pending \subseteq Streams
      /\ \A t \in Pending : t \in Streams /\ led[t] \in StreamRecord
      /\ sweep \in Sweep
    BY Zenon DEF IInv, TypeOK, Streams
<1>2. CASE \E s \in Streams : SweepMark(s)
  <2>1. PICK s \in Streams : SweepMark(s)
    BY <1>2, Zenon
  <2>2. /\ led' = [led EXCEPT ![s] = [led[s] EXCEPT !.cleanup = "PENDING"]]
        /\ sweep' = [sweep EXCEPT !.pc = "discard", !.cur = s, !.orphans = sweep.orphans \ {s}]
        /\ s \in sweep.orphans /\ UNCHANGED <<pending, process>>
    BY <2>1, Zenon DEF SweepMark, NextOrphan, lifeVars
  <2>3. s \in Pending /\ sweep'.orphans = sweep.orphans \ {s} /\ sweep'.cur = s
    BY <1>1, <2>2, Zenon DEF Sweep
  <2>4. led[s].state # "DELETED"
    BY <2>2, <2>3, Zenon DEF LiveInv
  <2>5. ASSUME NEW t \in Pending
        PROVE  /\ led'[t].state = led[t].state /\ led'[t].op = led[t].op
               /\ t # s => led'[t] = led[t]
    <3>1. CASE t = s
      <4>1. led'[t] = [led[t] EXCEPT !.cleanup = "PENDING"]
        BY <1>1, <2>2, <3>1, Zenon
      <4> QED
        BY <1>1, <3>1, <4>1, Zenon DEF StreamRecord
    <3>2. CASE t # s
      <4>1. led'[t] = led[t]
        BY <1>1, <2>2, <3>2, Zenon
      <4> QED
        BY <4>1, Zenon
    <3> QED
      BY <3>1, <3>2, Zenon
  <2>6. ASSUME NEW t \in Pending
        PROVE  /\ led'[t].op = "COMMIT" => led'[t].state = "FINALIZED"
               /\ led'[t].state = "DELETED" => t \notin sweep'.orphans /\ led'[t].cleanup = "ACTIVE"
    <3>1. led'[t].op = "COMMIT" => led'[t].state = "FINALIZED"
      BY <2>5, Zenon DEF LiveInv
    <3>2. ASSUME led'[t].state = "DELETED"
          PROVE  t \notin sweep'.orphans /\ led'[t].cleanup = "ACTIVE"
      <4>1. t # s /\ led'[t] = led[t]
        BY <2>4, <2>5, <3>2, Zenon
      <4>2. t \notin sweep.orphans /\ led[t].cleanup = "ACTIVE"
        BY <3>2, <4>1, Zenon DEF LiveInv
      <4> QED
        BY <2>3, <4>1, <4>2, Zenon
    <3> QED
      BY <3>1, <3>2, Zenon
  <2>7. sweep'.cur \notin sweep'.orphans
    BY <2>3, Zenon
  <2>8. LiveInv'
    BY <2>6, <2>7, Zenon DEF LiveInv
  <2>9. SlotInv'
    BY <2>2, <2>5, SlotsSame, Zenon DEF Up
  <2> QED
    BY <2>8, <2>9, Zenon
<1>3. CASE SweepDelete
  <2>1. PICK s : s = sweep.cur
    BY Zenon
  <2>2. /\ led' = [led EXCEPT ![s] = Record("DELETED")] /\ sweep.pc = "delete"
        /\ pending' = pending - 1 /\ process' = process
        /\ led[s].cleanup = "PENDING" /\ Deletable(s)
        /\ sweep' = [sweep EXCEPT !.pc = "next", !.cur = None]
    BY <1>3, <2>1, Zenon DEF SweepDelete, SweepGoes, lifeVars
  <2>3. s \in Pending /\ s \notin sweep.orphans
    BY <2>1, <2>2, Zenon DEF IInv, SweepInv, LiveInv
  <2>4. sweep'.orphans = sweep.orphans /\ sweep'.pc = "next"
    BY <1>1, <2>2, Zenon DEF Sweep
  <2>5. led'[s] = Record("DELETED") /\ \A t \in Pending \ {s} : led'[t] = led[t]
    BY <1>1, <2>2, <2>3, Zenon
  <2>6. led'[s].state = "DELETED" /\ led'[s].op = "NONE" /\ led'[s].cleanup = "ACTIVE"
    BY <2>5, RecordFields, Zenon DEF States
  <2>7. s \in Live
    <3>1. led[s].state # "DELETED"
      BY <2>2, <2>3, Zenon DEF LiveInv
    <3>2. led[s].state # "UNBORN"
      BY <1>1, <2>2, <2>3, Zenon DEF IInv, LedgerInv
    <3>3. led[s].state # "COMMITTED"
      BY <2>2, <2>3, Zenon DEF IInv, GroupInv, Deletable
    <3>4. led[s].state \in {"UNBORN", "OPEN", "FINALIZED", "COMMITTED", "DELETED"}
      BY <1>1, <2>3, Zenon DEF StreamRecord
    <3> QED
      BY <2>3, <3>1, <3>2, <3>3, <3>4, Zenon DEF Live, Uncommitted
  <2>8. LiveInv'
    <3>1. ASSUME NEW t \in Pending
          PROVE  /\ led'[t].op = "COMMIT" => led'[t].state = "FINALIZED"
                 /\ led'[t].state = "DELETED" => t \notin sweep'.orphans /\ led'[t].cleanup = "ACTIVE"
      <4>1. CASE t = s
        BY <2>3, <2>4, <2>6, <4>1, Zenon
      <4>2. CASE t # s
        <5>1. led'[t] = led[t]
          BY <2>5, <4>2, Zenon
        <5> QED
          BY <2>4, <5>1, Zenon DEF LiveInv
      <4> QED
        BY <4>1, <4>2, Zenon
    <3> QED
      BY <2>4, <3>1, Zenon DEF LiveInv
  <2>9. Live' = Live \ {s}
    BY <2>5, <2>6, Zenon DEF Live, Uncommitted
  <2>10. Cardinality(Live') = Cardinality(Live) - 1
    BY <2>7, <2>9, LiveFinite, FS_RemoveElement, Zenon
  <2>11. SlotInv'
    BY <2>2, <2>10, LiveFinite, BoundsAssumption, SMTT(30) DEF SlotInv, Up
  <2> QED
    BY <2>8, <2>11, Zenon
<1>4. CASE ~(\E s \in Streams : SweepMark(s)) /\ ~SweepDelete
  <2>1. UNCHANGED <<led, pending, process>>
    BY <1>4, Zenon DEF SweepStep, SweepStart, SweepVisit, SweepMarkFails, SweepDiscard,
       SweepDiscardFails, SweepDeleteFails, SweepEnd, ledgerVars, lifeVars
  <2>2. /\ \A t \in sweep'.orphans : t \in sweep.orphans \/ Uncommitted(t)
        /\ sweep'.pc \in {"discard", "delete"} =>
              /\ sweep.pc \in {"discard", "delete"} /\ sweep'.cur = sweep.cur
              /\ sweep'.orphans = sweep.orphans
    <3>1. CASE SweepStart
      BY <3>1, Zenon DEF SweepStart, SweepOff
    <3>2. CASE \E s \in Streams : SweepVisit(s)
      BY <1>1, <3>2, SMTT(30) DEF SweepVisit, Sweep, Eligible
    <3>3. CASE \E s \in Streams : SweepMarkFails(s)
      BY <1>1, <3>3, Zenon DEF SweepMarkFails, Sweep
    <3>4. CASE SweepDiscard \/ SweepDiscardFails \/ SweepDeleteFails
      <4>1. sweep.pc \in {"discard", "delete"} /\ (SweepGoes("delete") \/ SweepGoes("next"))
        BY <3>4, Zenon DEF SweepDiscard, SweepDiscardFails, SweepDeleteFails
      <4>2. CASE SweepGoes("delete")
        <5>1. sweep' = [sweep EXCEPT !.pc = "delete", !.cur = sweep.cur]
          BY <4>2, Zenon DEF SweepGoes
        <5> QED
          BY <1>1, <4>1, <5>1, Zenon DEF Sweep
      <4>3. CASE SweepGoes("next")
        <5>1. sweep' = [sweep EXCEPT !.pc = "next", !.cur = None]
          BY <4>3, Zenon DEF SweepGoes
        <5> QED
          BY <1>1, <5>1, Zenon DEF Sweep
      <4> QED
        BY <4>1, <4>2, <4>3, Zenon
    <3>5. CASE SweepEnd
      BY <3>5, Zenon DEF SweepEnd, SweepOff
    <3> QED
      BY <1>4, <3>1, <3>2, <3>3, <3>4, <3>5, Zenon DEF SweepStep
  <2>3. LiveInv'
    BY <2>1, <2>2, Zenon DEF LiveInv, Uncommitted
  <2>4. SlotInv'
    BY <2>1, SlotsSame, Zenon DEF Up
  <2> QED
    BY <2>3, <2>4, Zenon
<1> QED
    BY <1>2, <1>3, <1>4, Zenon

\* Every step keeps slots and counter in agreement.
LEMMA SlotStep ==
    ASSUME IInv, LiveInv, SlotInv, [Next]_vars
    PROVE  LiveInv' /\ SlotInv'
<1>1. /\ TypeOK /\ \A t \in Pending : t \in Streams /\ led[t] \in StreamRecord
    BY Zenon DEF IInv, TypeOK, Streams
<1>2. CASE \E s \in Streams : CreateStream(s) \/ CreateDefault(s) \/ AppendStep(s) \/ Finalize(s)
    BY <1>2, SlotStreamSteps, Zenon
<1>3. CASE \/ \E S \in SUBSET Pending \ {{}} : CommitBegin(S)
           \/ \E g \in 1..MaxGroups : CommitStep(g)
    BY <1>3, SlotCommitSteps, Zenon
<1>4. CASE SweepStep
    BY <1>4, SlotSweepSteps, Zenon
<1>5. CASE \/ \E s \in Streams : Age(s) \/ CloseVisit(s)
           \/ WorkerFinishes \/ Close \/ StopCoordinator \/ UNCHANGED vars
  <2>1. UNCHANGED <<led, sweep, pending>> /\ (Up' => Up)
    BY <1>5, Zenon DEF Age, CloseVisit, WorkerFinishes, Close, StopCoordinator, vars, ledgerVars,
       memoryVars, lifeVars, Up
  <2>2. LiveInv'
    BY <2>1, LiveFrame, Zenon DEF LiveInv
  <2>3. SlotInv'
    BY <2>1, SlotsSame, Zenon
  <2> QED
    BY <2>2, <2>3, Zenon
<1>6. CASE Crash
  <2>1. led' = led /\ sweep' = SweepOff /\ ~Up'
    BY <1>6, Zenon DEF Crash, ledgerVars, Up
  <2>2. SweepOff.orphans = {} /\ SweepOff.pc = "off"
    BY Zenon DEF SweepOff
  <2>3. LiveInv'
    BY <2>1, <2>2, Zenon DEF LiveInv
  <2>4. Live' = Live
    BY <2>1, Zenon DEF Live, Uncommitted
  <2>5. SlotInv'
    BY <2>1, <2>4, Zenon DEF SlotInv
  <2> QED
    BY <2>3, <2>5, Zenon
<1>7. CASE Restart
  <2>1. /\ sweep' = sweep /\ pending' = Cardinality(Live)
        /\ \A t \in Streams : led'[t] = Unresolved(led[t])
    BY <1>7, Zenon DEF Restart, Recount, Live
  <2>2. ASSUME NEW t \in Pending
        PROVE  /\ led'[t].state = led[t].state /\ led'[t].cleanup = led[t].cleanup
               /\ led'[t].op = led[t].op
    BY <1>1, <2>1, UnresolvedFields, Zenon
  <2>3. LiveInv'
    <3>1. \A t \in Pending : /\ led'[t].op = "COMMIT" => led'[t].state = "FINALIZED"
                             /\ led'[t].state = "DELETED" =>
                                   led[t].state = "DELETED" /\ led'[t].cleanup = led[t].cleanup
      BY <2>2, Zenon DEF LiveInv
    <3> QED
      BY <2>1, <3>1, LiveFrame, Zenon
  <2>4. Live' = Live
    BY <2>2, Zenon DEF Live, Uncommitted
  <2>5. SlotInv'
    BY <2>1, <2>4, Zenon DEF SlotInv
  <2> QED
    BY <2>3, <2>5, Zenon
<1> QED
    BY <1>2, <1>3, <1>4, <1>5, <1>6, <1>7, Zenon DEF Next

\* MaxStreams admission, for any number of streams: while the process runs
\* `pending' is the number of open and finalized streams and within the limit,
\* through commits, sweeps, Close and restarts, so no slot is leaked or given
\* out twice.
THEOREM StreamSlotsHolds == Spec => []StreamSlots
<1>1. Init => LiveInv /\ SlotInv
  <2> SUFFICES ASSUME Init PROVE LiveInv /\ SlotInv
    BY Zenon
  <2>1. \A t \in Pending : led[t] = Record("UNBORN")
    BY Zenon DEF Init, Streams
  <2>2. \A t \in Pending : led[t].state = "UNBORN" /\ led[t].op = "NONE"
    BY <2>1, RecordFields, Zenon DEF States
  <2>3. sweep.pc = "off" /\ pending = 0
    BY Zenon DEF Init, SweepOff
  <2>4. LiveInv
    BY <2>2, <2>3, Zenon DEF LiveInv
  <2>5. Live = {}
    BY <2>2, Zenon DEF Live, Uncommitted
  <2>6. SlotInv
    BY <2>3, <2>5, FS_EmptySet, BoundsAssumption, SMTT(30) DEF SlotInv
  <2> QED
    BY <2>4, <2>6, Zenon
<1>2. IInv /\ LiveInv /\ SlotInv /\ [Next]_vars => LiveInv' /\ SlotInv'
    BY SlotStep, Zenon
<1>3. SlotInv => StreamSlots
    BY Zenon DEF SlotInv, StreamSlots, Live
<1> QED
    BY <1>1, <1>2, <1>3, InductiveInvariant, PTL DEF Spec
=============================================================================
