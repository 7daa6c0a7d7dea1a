------------------------ MODULE StorageWriteAppends ------------------------
(***************************************************************************)
(* The steps of Append, up to the answer of the worker and after it, and   *)
(* the append the worker commits when its caller has left, preserve the    *)
(* inductive invariant of StorageWrite.                                    *)
(***************************************************************************)
EXTENDS StorageWriteInvariant

\* Append up to the submission: the receipt is at the next offset.
LEMMA AppendBeginStep ==
    ASSUME IInv, NEW s \in Streams, NEW off \in Offsets,
           NEW schema \in Schemas \cup {None}, NEW p \in Payloads,
           AppendBegin(s, off, schema, p)
    PROVE  IInv'
<1> DEFINE b == [off |-> led[s].rows, schema |-> WriterSchema(s, schema),
                 payload |-> p]
<1>1. TypeOK /\ (\A t \in Streams : LedgerInv(t))
    BY DEF IInv
<1>2. b \in Batch
  <2>1. WriterSchema(s, schema) \in Schemas
    BY <1>1 DEF AppendBegin, TypeOK, LedgerInv, WriterSchema, SchemaAccepted,
       Admitted, StreamRecord
  <2> QED
    BY <2>1, <1>1 DEF Batch, TypeOK, StreamRecord
<1>3. /\ led' \in [Streams -> StreamRecord]
      /\ \A t \in Streams : /\ led'[t].state = led[t].state
                            /\ led'[t].rows = led[t].rows
                            /\ led'[t].fp = led[t].fp
                            /\ led'[t].cleanup = led[t].cleanup
                            /\ t # s => led'[t] = led[t]
      /\ receipt' \in [Streams -> Batch \cup {None}]
      /\ receipt'[s] = b
      /\ led'[s].op = "APPEND"
      /\ \A t \in Streams \ {s} : receipt'[t] = receipt[t]
  <2>1. CASE receipt[s] = None
    <3> DEFINE new == WithOp(led[s], "APPEND", "PREPARED", led[s].rows)
    <3>1. led' = [led EXCEPT ![s] = new] /\ receipt' = [receipt EXCEPT ![s] = b]
      BY <2>1 DEF AppendBegin
    <3>2. /\ new \in StreamRecord /\ new.state = led[s].state
          /\ new.rows = led[s].rows /\ new.fp = led[s].fp
          /\ new.cleanup = led[s].cleanup /\ new.op = "APPEND"
      <4>1. led[s] \in StreamRecord /\ led[s].rows \in Nat
        BY <1>1 DEF TypeOK, StreamRecord
      <4> QED
        BY <4>1 DEF WithOp, StreamRecord
    <3> HIDE DEF new, b
    <3> QED
      BY <1>1, <1>2, <3>1, <3>2 DEF TypeOK
  <2>2. CASE receipt[s] # None
    BY <1>1, <2>2 DEF AppendBegin, TypeOK, LedgerInv
  <2> QED
    BY <2>1, <2>2
<1>4. lock' = [lock EXCEPT ![s] = "append"] /\ lock[s] = "free"
    BY DEF AppendBegin
<1>5. /\ UNCHANGED <<applied, groups, duckVars, descriptor, idle, sweep, lifeVars,
                     pending>>
      /\ led[s].cleanup = "ACTIVE" /\ Exists(s)
      /\ s \in Pending => led[s].state = "OPEN"
    BY DEF AppendBegin, Admitted
<1>6. TypeOK'
    BY <1>1, <1>3, <1>4, <1>5 DEF TypeOK, duckVars, lifeVars, LateOperation
<1> HIDE DEF b
<1>7. ASSUME NEW t \in Streams PROVE LedgerInv(t)'
  <2>1. CASE t = s
    <3>1. b # None /\ b.off = led[s].rows
      BY <1>2, NoneAssumption DEF b
    <3>2. LedgerInv(s) /\ lock'[s] = "append" /\ lock[s] = "free"
      BY <1>1, <1>4 DEF TypeOK
    <3> QED
      BY <1>3, <1>5, <2>1, <3>1, <3>2
         DEF LedgerInv, Appending, LateAppend, Exists, duckVars
  <2>2. CASE t # s
    BY <1>1, <1>3, <1>4, <1>5, <2>2, LedgerFrame
       DEF SameLedger, SameRows, LateKept, LateAppend, LateDiscard, duckVars, TypeOK
  <2> QED
    BY <2>1, <2>2
<1>8. ASSUME NEW t \in Pending PROVE BackendInv(t)'
    BY <1>1, <1>3, <1>4, <1>5, BackendFrame
       DEF IInv, SameRows, LateKept, LateAppend, LateDiscard, InSomeGroup, Members,
           duckVars, TypeOK, Streams
<1>9. GroupInv'
    BY <1>1, <1>3, <1>5, GroupFrame DEF IInv, SameRows, Streams
<1>10. SweepInv'
    BY <1>1, <1>3, <1>5 DEF IInv, SweepInv, LateAppend, duckVars, TypeOK, Sweep,
       Streams
<1> QED
    BY <1>6, <1>7, <1>8, <1>9, <1>10 DEF IInv

\* The rows of an open stream are in nobody's destination table.
LEMMA OpenUnpublished ==
    ASSUME IInv, NEW s \in Pending, led[s].state = "OPEN"
    PROVE  visible[s] = <<>> /\ Tracked(s) /\ ~InSomeGroup(s)
BY DEF IInv, BackendInv, GroupInv, InSomeGroup

\* Staging the batch at the ledger's offset, for the first time or again,
\* leaves the backend exactly that batch ahead of the ledger.
LEMMA StageAhead ==
    ASSUME TypeOK, NEW s \in Pending, LedgerInv(s), Tracked(s),
           NEW b \in Batch, b.off = led[s].rows, Stage(s, b)
    PROVE  /\ staged' \in [Streams -> [rows : Nat, receipts : SUBSET Batch]]
           /\ \A t \in Streams \ {s} : staged'[t] = staged[t]
           /\ staged'[s] = [rows |-> led[s].rows + RowsOf[b.payload],
                            receipts |-> applied[s] \cup {b}]
<1>1. /\ RowsOf[b.payload] \in Nat /\ RowsOf[b.payload] > 0
      /\ led[s].rows \in Nat /\ s \in Streams
    BY RowsAssumption DEF Batch, TypeOK, StreamRecord, Streams
<1>2. \A a \in applied[s] :
         a.off + RowsOf[a.payload] <= led[s].rows /\ RowsOf[a.payload] > 0
         /\ a.off \in Nat /\ RowsOf[a.payload] \in Nat
    BY <1>1, RowsAssumption DEF LedgerInv, TypeOK, Batch
<1>3. b \notin applied[s]
    BY <1>1, <1>2
<1>4. staged[s].rows \in Nat /\ staged[s].receipts \in SUBSET Batch
    BY <1>1 DEF TypeOK
<1>5. CASE b \in staged[s].receipts
  <2>1. PICK c \in staged[s].receipts : Ahead(s, c)
    BY <1>3, <1>5 DEF Tracked, NoRows
  <2>2. c = b
    BY <1>3, <1>5, <2>1 DEF Ahead
  <2> QED
    BY <1>1, <1>5, <2>1, <2>2 DEF Stage, Ahead, TypeOK
<1>6. CASE b \notin staged[s].receipts
  <2>1. /\ \A r \in staged[s].receipts : r.off # b.off
        /\ b.off = staged[s].rows
        /\ staged' = [staged EXCEPT ![s] =
                        [rows |-> staged[s].rows + RowsOf[b.payload],
                         receipts |-> staged[s].receipts \cup {b}]]
    BY <1>6 DEF Stage, Stageable
  <2>2. ~ \E c \in staged[s].receipts : Ahead(s, c)
    BY <2>1 DEF Ahead
  <2>3. staged[s] = NoRows => applied[s] = {}
    BY <1>1, <1>2, <2>1 DEF NoRows
  <2>4. staged[s].rows = led[s].rows /\ staged[s].receipts = applied[s]
    BY <2>1, <2>2, <2>3 DEF Tracked, NoRows
  <2>5. [rows |-> staged[s].rows + RowsOf[b.payload],
         receipts |-> staged[s].receipts \cup {b}]
            \in [rows : Nat, receipts : SUBSET Batch]
    BY <1>1, <1>4
  <2> QED
    BY <1>1, <2>1, <2>4, <2>5 DEF TypeOK
<1> QED
    BY <1>5, <1>6

\* What is known while a call to append holds the stream.
LEMMA AppendHolds ==
    ASSUME IInv, NEW s \in Streams, Appending(s)
    PROVE  /\ receipt[s] \in Batch /\ receipt[s].off = led[s].rows
           /\ led[s].op = "APPEND" /\ led[s].state # "UNBORN"
           /\ led[s].cleanup = "ACTIVE"
           /\ s \in Pending => /\ led[s].state = "OPEN" /\ visible[s] = <<>>
                               /\ Tracked(s)
           /\ ~InSomeGroup(s)
           /\ sweep.pc \in {"discard", "delete"} => sweep.cur # s
<1>1. TypeOK /\ LedgerInv(s) /\ SweepInv
    BY DEF IInv
<1>2. /\ receipt[s] \in Batch /\ receipt[s].off = led[s].rows
      /\ led[s].op = "APPEND" /\ led[s].state # "UNBORN"
      /\ led[s].cleanup = "ACTIVE"
      /\ s \in Pending => led[s].state = "OPEN"
    BY <1>1 DEF LedgerInv, Appending, TypeOK, StreamRecord
<1>3. s \in Pending => visible[s] = <<>> /\ Tracked(s) /\ ~InSomeGroup(s)
    BY <1>2, OpenUnpublished
<1>4. InSomeGroup(s) => s \in Pending
    BY <1>1, MemberTypes DEF InSomeGroup
<1> QED
    BY <1>1, <1>2, <1>3, <1>4 DEF SweepInv

\* StagePending or AppendDefault answered: the backend is one batch ahead.
LEMMA AppendAppliedStep ==
    ASSUME IInv, NEW s \in Streams, AppendApplied(s)
    PROVE  IInv'
<1> DEFINE b == receipt[s]
<1>1. TypeOK /\ LedgerInv(s) /\ SweepInv /\ GroupInv /\ Appending(s)
    BY DEF IInv, AppendApplied, Appending
<1>2. /\ ApplyAppend(s, b) /\ late = None
      /\ lock' = [lock EXCEPT ![s] = "appended"]
      /\ UNCHANGED <<ledgerVars, late, descriptor, idle, sweep, pending, lifeVars>>
    BY DEF AppendApplied, WorkerFree
<1>3. /\ staged' \in [Streams -> [rows : Nat, receipts : SUBSET Batch]]
      /\ visible' \in [Streams -> Seq(SUBSET Batch)]
      /\ \A t \in Streams \ {s} : staged'[t] = staged[t] /\ visible'[t] = visible[t]
      /\ s \in Pending => Ahead(s, b)' /\ visible'[s] = <<>> /\ b \in staged'[s].receipts
  <2>1. CASE s \in Pending
    <3>1. Stage(s, b) /\ UNCHANGED visible
      BY <1>2, <2>1 DEF ApplyAppend, Stage
    <3>2. b \in Batch /\ b.off = led[s].rows /\ visible[s] = <<>> /\ Tracked(s)
      BY <1>1, <2>1, AppendHolds
    <3>3. /\ staged' \in [Streams -> [rows : Nat, receipts : SUBSET Batch]]
          /\ \A t \in Streams \ {s} : staged'[t] = staged[t]
          /\ staged'[s] = [rows |-> led[s].rows + RowsOf[b.payload],
                           receipts |-> applied[s] \cup {b}]
      BY <1>1, <2>1, <3>1, <3>2, StageAhead
    <3>4. Ahead(s, b)' /\ b \in staged'[s].receipts
      BY <1>2, <3>2, <3>3 DEF Ahead, ledgerVars
    <3> QED
      BY <1>1, <3>1, <3>2, <3>3, <3>4 DEF TypeOK
  <2>2. CASE s \notin Pending
    <3>1. /\ visible' = [visible EXCEPT ![s] = Append(visible[s], {b})]
          /\ UNCHANGED staged
      BY <1>2, <2>2 DEF ApplyAppend, InsertDefault
    <3>2. Append(visible[s], {b}) \in Seq(SUBSET Batch)
      BY <1>1, AppendHolds DEF TypeOK
    <3> QED
      BY <1>1, <2>2, <3>1, <3>2 DEF TypeOK
  <2> QED
    BY <2>1, <2>2
<1>4. lock' \in [Streams -> {"free", "append", "appended", "commit", "committed"}]
      /\ lock'[s] = "appended" /\ \A t \in Streams \ {s} : lock'[t] = lock[t]
    BY <1>1, <1>2 DEF TypeOK
<1>5. TypeOK'
    BY <1>1, <1>2, <1>3, <1>4 DEF TypeOK, ledgerVars, lifeVars, LateOperation
<1> HIDE DEF b
<1>6. ASSUME NEW t \in Streams PROVE LedgerInv(t)'
  <2>1. CASE t = s
    BY <1>1, <1>2, <1>4, <2>1 DEF LedgerInv, Appending, ledgerVars, LateAppend, Exists
  <2>2. CASE t # s
    BY <1>2, <1>4, <2>2, LedgerFrame DEF IInv, ledgerVars, SameLedger, SameRows,
       LateKept, LateAppend, LateDiscard
  <2> QED
    BY <2>1, <2>2
<1>7. ASSUME NEW t \in Pending PROVE BackendInv(t)'
  <2>1. CASE t = s
    <3>1. Tracked(s)' /\ led'[s].state # "DELETED"
      BY <1>1, <1>2, <1>3, <2>1, AppendHolds DEF Tracked, ledgerVars, b
    <3> QED
      BY <1>1, <1>2, <1>3, <2>1, <3>1
         DEF BackendInv, LateAppend, LateDiscard, ledgerVars, b
  <2>2. CASE t # s
    BY <1>2, <1>3, <1>4, <2>2, BackendFrame
       DEF IInv, ledgerVars, SameRows, LateKept, LateAppend, LateDiscard,
           InSomeGroup, Members, Streams
  <2> QED
    BY <2>1, <2>2
<1>8. GroupInv'
    BY <1>1, <1>2, GroupFrame DEF ledgerVars, SameRows
<1>9. SweepInv'
    BY <1>1, <1>2, <1>3, AppendHolds
       DEF SweepInv, ledgerVars, LateAppend, Streams
<1> QED
    BY <1>5, <1>6, <1>7, <1>8, <1>9 DEF IInv

\* CompleteAppend: the ledger catches up with the staged batch.
LEMMA AppendCompleteStep ==
    ASSUME IInv, NEW s \in Streams, AppendComplete(s)
    PROVE  IInv'
<1> DEFINE b == receipt[s]
           n == led[s].rows + RowsOf[b.payload]
           new == Advanced(led[s], b)
<1>1. /\ TypeOK /\ LedgerInv(s) /\ SweepInv /\ GroupInv /\ Appending(s)
      /\ s \in Pending => BackendInv(s)
    BY DEF IInv, AppendComplete, Appending
<1>2. /\ b \in Batch /\ b.off = led[s].rows /\ led[s].state # "UNBORN"
      /\ s \in Pending => led[s].state = "OPEN" /\ visible[s] = <<>>
      /\ ~InSomeGroup(s) /\ led[s].cleanup = "ACTIVE"
      /\ sweep.pc \in {"discard", "delete"} => sweep.cur # s
    BY <1>1, AppendHolds
<1>3. /\ led[s] \in StreamRecord /\ led[s].rows \in Nat
      /\ RowsOf[b.payload] \in Nat /\ b.schema \in Schemas
    BY <1>1, <1>2, RowsAssumption DEF TypeOK, StreamRecord, Batch
<1>4. /\ lock[s] = "appended" /\ led' = [led EXCEPT ![s] = new]
      /\ applied' = [applied EXCEPT ![s] = applied[s] \cup {b}]
      /\ receipt' = [receipt EXCEPT ![s] = None]
      /\ descriptor' = [descriptor EXCEPT
            ![s] = IF descriptor[s] = None THEN b.schema ELSE descriptor[s]]
      /\ idle' = idle \ {s} /\ Release({s})
      /\ UNCHANGED <<groups, duckVars, sweep, pending, lifeVars>>
    BY DEF AppendComplete
<1>5. /\ new \in StreamRecord /\ new.state = led[s].state /\ new.rows = n
      /\ new.fp # None /\ new.op = "NONE" /\ new.cleanup = "ACTIVE"
      /\ n \in Nat
  <2> DEFINE rec == Settled(led[s])
             fp == IF led[s].fp = None THEN b.schema ELSE led[s].fp
  <2>1. /\ rec \in StreamRecord /\ rec.state = led[s].state /\ rec.op = "NONE"
        /\ rec.cleanup = "ACTIVE" /\ new = [rec EXCEPT !.rows = n, !.fp = fp]
    BY <1>2, <1>3, SettledFields DEF Advanced
  <2>2. fp \in Schemas \cup {None} /\ fp # None /\ n \in Nat
    BY <1>3, NoneAssumption DEF StreamRecord
  <2> HIDE DEF rec, fp, n, new
  <2> QED
    BY <2>1, <2>2 DEF StreamRecord
<1> HIDE DEF new
<1>6. /\ led' \in [Streams -> StreamRecord] /\ led'[s] = new
      /\ applied' \in [Streams -> SUBSET Batch]
      /\ applied'[s] = applied[s] \cup {b}
      /\ receipt' \in [Streams -> Batch \cup {None}] /\ receipt'[s] = None
      /\ descriptor' \in [Streams -> Schemas \cup {None}]
      /\ lock'[s] = "free"
      /\ OnlyLedgerOf(s)
  <2>1. lock'[s] = "free" /\ \A t \in Streams \ {s} : lock'[t] = lock[t]
    BY <1>1, <1>4, Released
  <2>2. /\ led' \in [Streams -> StreamRecord] /\ led'[s] = new
        /\ \A t \in Streams \ {s} : led'[t] = led[t]
    BY <1>1, <1>4, <1>5 DEF TypeOK
  <2>3. /\ applied' \in [Streams -> SUBSET Batch]
        /\ applied'[s] = applied[s] \cup {b}
        /\ \A t \in Streams \ {s} : applied'[t] = applied[t]
    BY <1>1, <1>2, <1>4 DEF TypeOK
  <2>4. /\ receipt' \in [Streams -> Batch \cup {None}] /\ receipt'[s] = None
        /\ descriptor' \in [Streams -> Schemas \cup {None}]
        /\ \A t \in Streams \ {s} : /\ receipt'[t] = receipt[t]
                                    /\ descriptor'[t] = descriptor[t]
    BY <1>1, <1>3, <1>4 DEF TypeOK
  <2> QED
    BY <1>4, <2>1, <2>2, <2>3, <2>4 DEF OnlyLedgerOf
<1>7. TypeOK'
  <2>1. late' \in LateOperation' \cup {None}
    BY <1>1, <1>4 DEF TypeOK, duckVars, LateOperation
  <2>2. lock' \in [Streams -> {"free", "append", "appended", "commit", "committed"}]
    BY <1>1, <1>4, Released
  <2> QED
    BY <1>1, <1>4, <1>6, <2>1, <2>2 DEF TypeOK, duckVars, lifeVars
<1>8. LedgerInv(s)'
  <2>1. ~LateAppend(s)'
    BY <1>1, <1>4 DEF LedgerInv, LateAppend, duckVars
  <2>2. \A a \in applied'[s] : a.off + RowsOf[a.payload] <= n
    <3>1. ASSUME NEW a \in applied[s] PROVE a.off + RowsOf[a.payload] <= n
      <4>1. a.off \in Nat /\ RowsOf[a.payload] \in Nat
        BY <1>1, RowsAssumption DEF TypeOK, Batch
      <4>2. a.off + RowsOf[a.payload] <= led[s].rows
        BY <1>1 DEF LedgerInv
      <4> QED
        BY <1>3, <4>1, <4>2
    <3> QED
      BY <1>2, <1>3, <1>6, <3>1
  <2> QED
    BY <1>2, <1>5, <1>6, <2>1, <2>2 DEF LedgerInv, Appending
<1>9. ASSUME s \in Pending PROVE BackendInv(s)'
  <2>1. Tracked(s)'
    BY <1>1, <1>4, <1>5, <1>6, <1>9 DEF BackendInv, Tracked, Ahead, duckVars
  <2> QED
    BY <1>1, <1>2, <1>4, <1>5, <1>6, <1>9, <2>1
       DEF BackendInv, LateAppend, LateDiscard, duckVars
<1>10. GroupInv'
  <2>1. ASSUME NEW g \in 1..Len(groups), NEW t \in Members(g)
        PROVE  t \in Streams \ {s}
    BY <1>1, <1>2, MemberTypes DEF InSomeGroup
  <2>2. \A t \in Pending : led'[t].state = led[t].state
    BY <1>5, <1>6 DEF OnlyLedgerOf, Streams
  <2> QED
    BY <1>1, <1>4, <1>6, <2>1, <2>2
       DEF GroupInv, OnlyLedgerOf, InSomeGroup, Members
<1>11. SweepInv'
  <2>1. \A t \in Streams : /\ led'[t].state = led[t].state
                           /\ led'[t].cleanup = led[t].cleanup
    BY <1>2, <1>5, <1>6 DEF OnlyLedgerOf
  <2> QED
    BY <1>1, <1>4, <2>1, SweepFrame DEF LateAppend, duckVars
<1> QED
    BY <1>6, <1>7, <1>8, <1>9, <1>10, <1>11, OthersKeepLedger DEF IInv, Streams

\* AbortAppend drops the receipt; a staged batch stays one ahead.
LEMMA AppendAbortStep ==
    ASSUME IInv, NEW s \in Streams, AppendAbort(s)
    PROVE  IInv'
<1> DEFINE new == Settled(led[s])
<1>1. /\ TypeOK /\ LedgerInv(s) /\ SweepInv /\ GroupInv /\ Appending(s)
      /\ s \in Pending => BackendInv(s)
    BY DEF IInv, AppendAbort, Appending
<1>2. /\ led' = [led EXCEPT ![s] = new]
      /\ receipt' = [receipt EXCEPT ![s] = None] /\ Release({s})
      /\ UNCHANGED <<applied, groups, duckVars, descriptor, idle, sweep, pending,
                     lifeVars>>
    BY DEF AppendAbort
<1>3. /\ new \in StreamRecord /\ new.state = led[s].state
      /\ new.rows = led[s].rows /\ new.fp = led[s].fp
      /\ new.cleanup = led[s].cleanup /\ new.op = "NONE"
    BY <1>1, SettledFields DEF TypeOK
<1> HIDE DEF new
<1>4. /\ led' \in [Streams -> StreamRecord] /\ led'[s] = new
      /\ receipt' \in [Streams -> Batch \cup {None}] /\ receipt'[s] = None
      /\ lock'[s] = "free" /\ OnlyLedgerOf(s)
    BY <1>1, <1>2, <1>3, Released DEF TypeOK, OnlyLedgerOf
<1>5. TypeOK'
    BY <1>1, <1>2, <1>4, Released DEF TypeOK, duckVars, lifeVars, LateOperation
<1>6. LedgerInv(s)'
    BY <1>1, <1>2, <1>3, <1>4, AppendHolds
       DEF LedgerInv, Appending, LateAppend, Exists, duckVars
<1>7. ASSUME s \in Pending PROVE BackendInv(s)'
    BY <1>1, <1>2, <1>3, <1>4, <1>7, BackendFrame
       DEF SameRows, LateKept, LateAppend, LateDiscard, InSomeGroup, Members,
           duckVars
<1>8. GroupInv'
  <2>1. \A t \in Pending : SameRows(t)
    BY <1>3, <1>4 DEF SameRows, OnlyLedgerOf, Streams
  <2> QED
    BY <1>1, <1>2, <2>1, GroupFrame
<1>9. SweepInv'
  <2>1. \A t \in Streams : /\ led'[t].state = led[t].state
                           /\ led'[t].cleanup = led[t].cleanup
    BY <1>3, <1>4 DEF OnlyLedgerOf
  <2> QED
    BY <1>1, <1>2, <2>1, SweepFrame DEF LateAppend, duckVars
<1> QED
    BY <1>4, <1>5, <1>6, <1>7, <1>8, <1>9, OthersKeepLedger DEF IInv, Streams

\* A timed-out append keeps its receipt, and may still be running.
LEMMA AppendAmbiguousSteps ==
    ASSUME IInv, NEW s \in Streams, AppendUnresolved(s) \/ AppendUnrecorded(s)
    PROVE  IInv'
<1> DEFINE op == [kind |-> "append", stream |-> s, batch |-> receipt[s]]
<1>1. /\ TypeOK /\ LedgerInv(s) /\ SweepInv /\ GroupInv /\ Appending(s)
      /\ s \in Pending => BackendInv(s)
    BY DEF IInv, AppendUnresolved, AppendUnrecorded, AppendAmbiguous, Appending
<1>2. /\ late' = late \/ late' = op
      /\ Release({s})
      /\ UNCHANGED <<applied, receipt, groups, staged, visible, descriptor, idle,
                     sweep, pending, lifeVars>>
    BY DEF AppendUnresolved, AppendUnrecorded, AppendAmbiguous, MayKeepRunning
<1>3. /\ led' \in [Streams -> StreamRecord] /\ SameLedger(s)
      /\ \A t \in Streams \ {s} : led'[t] = led[t]
  <2>1. CASE led' = [led EXCEPT ![s] = Unresolved(led[s])]
    BY <1>1, <1>2, <2>1, UnresolvedFields DEF TypeOK, SameLedger, SameRows
  <2>2. CASE UNCHANGED led
    BY <1>1, <1>2, <2>2 DEF TypeOK, SameLedger, SameRows
  <2> QED
    BY <2>1, <2>2 DEF AppendUnresolved, AppendUnrecorded
<1>4. \A t \in Streams : /\ SameLedger(t) /\ SameRows(t)
                         /\ led[t].cleanup = led'[t].cleanup
    BY <1>2, <1>3 DEF SameLedger, SameRows
<1>5. /\ receipt[s] \in Batch /\ receipt[s].off = led[s].rows
      /\ led[s].op = "APPEND" /\ led[s].state # "UNBORN"
      /\ s \in Pending => led[s].state = "OPEN" /\ visible[s] = <<>>
      /\ sweep.pc \in {"discard", "delete"} => sweep.cur # s
    BY <1>1, AppendHolds
<1>6. /\ \A t \in Streams \ {s} : LateKept(t)
      /\ LateAppend(s)' => \/ LateAppend(s) /\ late' = late
                           \/ late'.batch = receipt[s]
      /\ LateDiscard(s)' => LateDiscard(s)
  <2>1. CASE late' = late
    BY <2>1 DEF LateKept, LateAppend, LateDiscard
  <2>2. CASE late' = op
    BY <2>2 DEF LateKept, LateAppend, LateDiscard
  <2> QED
    BY <1>2, <2>1, <2>2
<1>7. late' \in LateOperation' \cup {None}
  <2>1. LateOperation' = LateOperation
    BY <1>2 DEF LateOperation
  <2>2. op \in LateOperation
    BY <1>5 DEF LateOperation
  <2> QED
    BY <1>1, <1>2, <2>1, <2>2 DEF TypeOK
<1>8. lock'[s] = "free" /\ \A t \in Streams \ {s} : lock'[t] = lock[t]
    BY <1>1, <1>2, Released
<1> HIDE DEF op
<1>9. TypeOK'
    BY <1>1, <1>2, <1>3, <1>7, Released DEF TypeOK, lifeVars
<1>10. ASSUME NEW t \in Streams PROVE LedgerInv(t)'
  <2>1. CASE t = s
    BY <1>1, <1>2, <1>4, <1>5, <1>6, <1>8, <2>1
       DEF LedgerInv, SameLedger, SameRows, LateAppend, Appending, Exists
  <2>2. CASE t # s
    BY <1>2, <1>4, <1>6, <1>8, <2>2, LedgerFrame DEF IInv
  <2> QED
    BY <2>1, <2>2
<1>11. ASSUME NEW t \in Pending PROVE BackendInv(t)'
  <2>1. CASE t = s
    <3>1. Tracked(s) => Tracked(s)'
      BY <1>2, <1>4 DEF Tracked, Ahead, SameRows
    <3> QED
      BY <1>1, <1>2, <1>4, <1>5, <1>6, <1>8, <2>1, <3>1
         DEF BackendInv, SameRows
  <2>2. CASE t # s
    BY <1>2, <1>4, <1>6, <1>8, <2>2, BackendFrame
       DEF IInv, InSomeGroup, Members, Streams
  <2> QED
    BY <2>1, <2>2
<1>12. GroupInv'
    BY <1>1, <1>2, <1>4, GroupFrame DEF Streams
<1>13. SweepInv'
    BY <1>1, <1>2, <1>4, <1>5, <1>6
       DEF SweepInv, SameRows, LateKept, TypeOK, Sweep, Streams
<1> QED
    BY <1>9, <1>10, <1>11, <1>12, <1>13 DEF IInv

\* It commits an append whose caller left.
LEMMA LateAppendStep ==
    ASSUME IInv, late # None, late.kind = "append",
           ApplyAppend(late.stream, late.batch), late' = None,
           UNCHANGED <<ledgerVars, memoryVars, idle, lifeVars>>
    PROVE  IInv'
<1> DEFINE s == late.stream
           b == late.batch
<1>1. /\ TypeOK /\ GroupInv /\ SweepInv /\ LateAppend(s)
      /\ s \in Streams /\ b \in Batch
    BY DEF IInv, TypeOK, LateOperation, LateAppend
<1>2. /\ LedgerInv(s) /\ b.off = led[s].rows /\ lock[s] # "appended"
    BY <1>1 DEF IInv, LedgerInv
<1>3. s \in Pending => /\ BackendInv(s) /\ visible[s] = <<>> /\ Tracked(s)
                       /\ led[s].state # "DELETED"
    BY <1>1 DEF IInv, BackendInv
<1> HIDE DEF s, b
<1>4. /\ staged' \in [Streams -> [rows : Nat, receipts : SUBSET Batch]]
      /\ visible' \in [Streams -> Seq(SUBSET Batch)]
      /\ \A t \in Streams \ {s} : staged'[t] = staged[t] /\ visible'[t] = visible[t]
      /\ s \in Pending => /\ visible'[s] = <<>> /\ b \in staged'[s].receipts
                          /\ staged'[s] = [rows |-> led[s].rows + RowsOf[b.payload],
                                           receipts |-> applied[s] \cup {b}]
  <2>1. CASE s \in Pending
    <3>1. Stage(s, b) /\ UNCHANGED visible
      BY <2>1 DEF ApplyAppend, Stage, s, b
    <3>2. /\ staged' \in [Streams -> [rows : Nat, receipts : SUBSET Batch]]
          /\ \A t \in Streams \ {s} : staged'[t] = staged[t]
          /\ staged'[s] = [rows |-> led[s].rows + RowsOf[b.payload],
                           receipts |-> applied[s] \cup {b}]
      BY <1>1, <1>2, <1>3, <2>1, <3>1, StageAhead
    <3>3. visible' \in [Streams -> Seq(SUBSET Batch)] /\ visible'[s] = <<>>
      BY <1>1, <1>3, <2>1, <3>1 DEF TypeOK
    <3>4. b \in staged'[s].receipts
      <4> DEFINE k == led[s].rows + RowsOf[b.payload]
                 all == applied[s] \cup {b}
      <4>1. staged'[s] = [rows |-> k, receipts |-> all]
        BY <3>2
      <4> HIDE DEF k, all
      <4>2. staged'[s].receipts = all
        BY <4>1
      <4> QED
        BY <4>2 DEF all
    <3> QED
      BY <3>1, <3>2, <3>3, <3>4
  <2>2. CASE s \notin Pending
    <3>1. /\ visible' = [visible EXCEPT ![s] = Append(visible[s], {b})]
          /\ UNCHANGED staged
      BY <2>2 DEF ApplyAppend, InsertDefault, s, b
    <3>2. Append(visible[s], {b}) \in Seq(SUBSET Batch)
      BY <1>1 DEF TypeOK
    <3> QED
      BY <1>1, <2>2, <3>1, <3>2 DEF TypeOK
  <2> QED
    BY <2>1, <2>2
<1>5. TypeOK'
    BY <1>1, <1>4 DEF TypeOK, ledgerVars, memoryVars, lifeVars
<1>6. ASSUME NEW t \in Streams
      PROVE  /\ LateKept(t) /\ SameLedger(t) /\ SameRows(t)
             /\ ~LateAppend(t)' /\ ~LateDiscard(t)'
    BY DEF LateKept, LateAppend, LateDiscard, SameLedger, SameRows, ledgerVars
<1>7. ASSUME NEW t \in Streams PROVE LedgerInv(t)'
    BY <1>6, LedgerFrame DEF IInv, memoryVars
<1>8. ASSUME NEW t \in Pending PROVE BackendInv(t)'
  <2>1. CASE t = s
    <3>1. Tracked(t)'
      BY <1>2, <1>4, <2>1 DEF Tracked, Ahead, ledgerVars
    <3> QED
      BY <1>2, <1>3, <1>4, <1>6, <2>1, <3>1
         DEF BackendInv, ledgerVars, memoryVars, Streams
  <2>2. CASE t # s
    BY <1>4, <1>6, <2>2, BackendFrame
       DEF IInv, ledgerVars, memoryVars, InSomeGroup, Members, Streams
  <2> QED
    BY <2>1, <2>2
<1>9. GroupInv'
    BY <1>1, <1>6, GroupFrame DEF ledgerVars, Streams
<1>10. SweepInv'
  <2>1. sweep.pc = "delete" => sweep.cur # s
    BY <1>1 DEF SweepInv
  <2> QED
    BY <1>1, <1>4, <1>6, <2>1 DEF SweepInv, ledgerVars, memoryVars, Streams
<1> QED
    BY <1>5, <1>7, <1>8, <1>9, <1>10 DEF IInv

============================================================================
