------------------------ MODULE StorageWriteCommits ------------------------
(***************************************************************************)
(* The steps of BatchCommit, and of the worker for it, preserve the        *)
(* inductive invariant of StorageWrite.                                    *)
(***************************************************************************)
EXTENDS StorageWriteInvariant, FiniteSetTheorems

\* Taking the locks of streams that are free.
LEMMA Acquired ==
    ASSUME TypeOK, NEW S \in SUBSET Streams, Acquire(S)
    PROVE  /\ lock' \in [Streams -> {"free", "append", "appended", "commit",
                                     "committed"}]
           /\ \A t \in S : lock'[t] = "commit"
           /\ \A t \in Streams \ S : lock'[t] = lock[t]
BY DEF Acquire, TypeOK

\* PrepareCommit: the new group expects the row counts of its members.
LEMMA CommitBeginStep ==
    ASSUME IInv, NEW S \in SUBSET Pending, CommitBegin(S)
    PROVE  IInv'
<1> DEFINE g == Len(groups) + 1
           grp == [members |-> S, phase |-> "PREPARED",
                   expected |-> [s \in Pending |->
                                   IF s \in S THEN led[s].rows ELSE 0]]
<1>1. TypeOK /\ SweepInv /\ GroupInv /\ S \subseteq Streams
    BY DEF IInv, Streams
<1>2. /\ groups' = Append(groups, grp) /\ Acquire(S)
      /\ led' = [s \in Streams |->
                   IF s \in S THEN WithOp(led[s], "COMMIT", "PREPARED", g)
                              ELSE led[s]]
      /\ \A s \in S : /\ lock[s] = "free" /\ led[s].cleanup = "ACTIVE"
                      /\ led[s].state = "FINALIZED" /\ led[s].op = "NONE"
      /\ UNCHANGED <<applied, receipt, duckVars, descriptor, idle, sweep, pending,
                     lifeVars>>
    BY DEF CommitBegin, CommitReady
<1>3. groups \in Seq(CommitGroup) /\ Len(groups) \in Nat
    BY <1>1 DEF TypeOK
<1>4. grp \in CommitGroup
  <2>1. ASSUME NEW s \in Pending PROVE led[s].rows \in Nat
    BY <1>1 DEF TypeOK, StreamRecord, Streams
  <2> QED
    BY <2>1 DEF CommitGroup
<1>5. /\ groups' \in Seq(CommitGroup) /\ Len(groups') = g /\ groups'[g] = grp
      /\ \A h \in 1..Len(groups) : groups'[h] = groups[h]
  <2> HIDE DEF grp
  <2> QED
    BY <1>2, <1>3, <1>4
<1>6. ASSUME NEW t \in Streams
      PROVE  /\ led'[t] \in StreamRecord
             /\ SameRows(t) /\ led'[t].fp = led[t].fp
             /\ led'[t].cleanup = led[t].cleanup
             /\ t \in S => led'[t].op = "COMMIT"
             /\ t \notin S => led'[t].op = led[t].op
  <2>1. led[t] \in StreamRecord /\ g \in Nat
    BY <1>1, <1>3 DEF TypeOK
  <2>2. CASE t \in S
    <3>1. led'[t] = WithOp(led[t], "COMMIT", "PREPARED", g)
      BY <1>2, <2>2
    <3> HIDE DEF g
    <3> QED
      BY <2>1, <2>2, <3>1 DEF SameRows, WithOp, StreamRecord
  <2>3. CASE t \notin S
    BY <1>2, <2>1, <2>3 DEF SameRows
  <2> QED
    BY <2>2, <2>3
<1>7. led' \in [Streams -> StreamRecord]
  <2>1. led' = [t \in Streams |-> led'[t]]
    BY <1>2
  <2> QED
    BY <1>6, <2>1
<1>8. late' \in LateOperation' \cup {None}
  <2>1. 1..Len(groups) \subseteq 1..Len(groups')
    BY <1>3, <1>5
  <2> QED
    BY <1>1, <1>2, <2>1 DEF TypeOK, LateOperation, duckVars
<1>9. TypeOK'
    BY <1>1, <1>2, <1>5, <1>7, <1>8, Acquired DEF TypeOK, duckVars, lifeVars
<1>10. ASSUME NEW t \in Streams PROVE LateKept(t)
    BY <1>2 DEF LateKept, LateAppend, LateDiscard, duckVars
<1>11. /\ \A t \in S : lock'[t] = "commit"
       /\ \A t \in Streams \ S : lock'[t] = lock[t]
    BY <1>1, <1>2, Acquired
<1>12. ASSUME NEW t \in Streams PROVE LedgerInv(t)'
  <2>1. CASE t \in S
    <3>1. LedgerInv(t) /\ receipt'[t] = receipt[t] /\ receipt[t] = None
      BY <1>2, <2>1 DEF IInv, LedgerInv
    <3> QED
      BY <1>2, <1>6, <1>10, <1>11, <2>1, <3>1
         DEF LedgerInv, SameRows, LateKept, LateAppend, Appending, Exists, duckVars
  <2>2. CASE t \notin S
    BY <1>2, <1>6, <1>10, <1>11, <2>2, LedgerFrame DEF IInv, SameLedger
  <2> QED
    BY <2>1, <2>2
<1>13. \A t \in Pending : InSomeGroup(t) => InSomeGroup(t)'
    BY <1>3, <1>5 DEF InSomeGroup, Members
<1>14. ASSUME NEW t \in Pending PROVE BackendInv(t)'
  <2>1. t \in Streams /\ (lock'[t] = "appended" => lock[t] = "appended")
    BY <1>11 DEF Streams
  <2> QED
    BY <1>2, <1>6, <1>10, <1>13, <2>1, BackendFrame DEF IInv, duckVars
<1>15. GroupInv'
  <2>1. ASSUME NEW h \in 1..Len(groups'), NEW t \in Members(h)'
        PROVE  /\ led'[t].state \in {"FINALIZED", "COMMITTED"}
               /\ groups'[h].expected[t] = led'[t].rows
    <3>1. CASE h = g
      <4>1. t \in S /\ t \in Pending /\ t \in Streams
        BY <1>1, <1>5, <3>1 DEF Members
      <4> QED
        BY <1>2, <1>5, <1>6, <3>1, <4>1 DEF SameRows
    <3>2. CASE h # g
      <4>1. h \in 1..Len(groups) /\ groups'[h] = groups[h]
        BY <1>3, <1>5, <3>2
      <4>2. t \in Members(h) /\ t \in Streams
        BY <1>1, <4>1, MemberTypes DEF Members
      <4> QED
        BY <1>1, <1>6, <4>1, <4>2 DEF GroupInv, SameRows
    <3> QED
      BY <3>1, <3>2
  <2>2. ASSUME NEW t \in Pending, led'[t].state = "COMMITTED"
        PROVE  InSomeGroup(t)'
    BY <1>1, <1>6, <1>13, <2>2 DEF GroupInv, SameRows, Streams
  <2> QED
    BY <2>1, <2>2 DEF GroupInv
<1>16. SweepInv'
    BY <1>1, <1>2, <1>6, <1>10, SweepFrame DEF SameRows, LateKept, duckVars
<1> QED
    BY <1>9, <1>12, <1>14, <1>15, <1>16 DEF IInv

\* BatchCommit called again for an unresolved group.
LEMMA CommitRetryStep ==
    ASSUME IInv, NEW g \in 1..MaxGroups, CommitRetry(g)
    PROVE  IInv'
<1>1. TypeOK /\ SweepInv /\ GroupInv /\ g \in 1..Len(groups)
    BY BoundsAssumption DEF IInv, CommitRetry, TypeOK
<1>2. /\ Members(g) \subseteq Streams /\ Acquire(Members(g))
      /\ \A s \in Members(g) : /\ lock[s] = "free" /\ led[s].cleanup = "ACTIVE"
                               /\ led[s].op = "COMMIT"
      /\ UNCHANGED <<ledgerVars, duckVars, descriptor, idle, sweep, pending, lifeVars>>
    BY <1>1, MemberTypes DEF CommitRetry, CommitReady
<1>3. /\ \A t \in Members(g) : lock'[t] = "commit"
      /\ \A t \in Streams \ Members(g) : lock'[t] = lock[t]
    BY <1>1, <1>2, Acquired
<1>4. TypeOK'
    BY <1>1, <1>2, Acquired
       DEF TypeOK, ledgerVars, duckVars, lifeVars, LateOperation
<1>5. ASSUME NEW t \in Streams
      PROVE  LateKept(t) /\ SameLedger(t) /\ SameRows(t)
    BY <1>2 DEF LateKept, LateAppend, LateDiscard, SameLedger, SameRows, ledgerVars,
       duckVars
<1>6. ASSUME NEW t \in Streams PROVE LedgerInv(t)'
  <2>1. CASE t \in Members(g)
    <3>1. LedgerInv(t) /\ receipt[t] = None /\ lock'[t] = "commit"
      BY <1>2, <1>3, <2>1 DEF IInv, LedgerInv
    <3> QED
      BY <1>2, <1>5, <2>1, <3>1
         DEF LedgerInv, SameLedger, SameRows, LateKept, LateAppend, Appending, Exists
  <2>2. CASE t \notin Members(g)
    BY <1>2, <1>3, <1>5, <2>2, LedgerFrame DEF IInv
  <2> QED
    BY <2>1, <2>2
<1>7. ASSUME NEW t \in Pending PROVE BackendInv(t)'
  <2>1. t \in Streams /\ (lock'[t] = "appended" => lock[t] = "appended")
    BY <1>3 DEF Streams
  <2> QED
    BY <1>2, <1>5, <2>1, BackendFrame
       DEF IInv, ledgerVars, duckVars, InSomeGroup, Members
<1>8. GroupInv'
    BY <1>1, <1>2, <1>5, GroupFrame DEF ledgerVars, Streams
<1>9. SweepInv'
    BY <1>1, <1>2 DEF SweepInv, LateAppend, ledgerVars, duckVars
<1> QED
    BY <1>4, <1>6, <1>7, <1>8, <1>9 DEF IInv

\* The first transaction of a stream.
LEMMA FirstOf ==
    ASSUME NEW T, NEW x \in T
    PROVE  Append(<<>>, x) = <<x>> /\ <<x>> \in Seq(T)
OBVIOUS

\* Publishing a group moves exactly what the ledger acknowledged.
LEMMA PublishExact ==
    ASSUME IInv, NEW g \in 1..Len(groups), Publish(g)
    PROVE  /\ staged' \in [Streams -> [rows : Nat, receipts : SUBSET Batch]]
           /\ visible' \in [Streams -> Seq(SUBSET Batch)]
           /\ \A t \in Streams :
                 \/ staged'[t] = staged[t] /\ visible'[t] = visible[t]
                 \/ /\ t \in Members(g) /\ visible[t] = <<>>
                    /\ staged[t] # NoRows
                    /\ visible'[t] = <<applied[t]>> /\ staged'[t] = NoRows
<1>1. TypeOK /\ GroupInv
    BY DEF IInv
<1>2. Members(g) \subseteq Pending /\ Members(g) \subseteq Streams
    BY <1>1, MemberTypes
<1>3. ASSUME NEW t \in Streams, t \in Members(g), staged[t].receipts # {}
      PROVE  visible[t] = <<>> /\ staged[t] # NoRows
             /\ staged[t].receipts = applied[t]
  <2>1. BackendInv(t) /\ staged[t] # NoRows
    BY <1>2, <1>3 DEF IInv, NoRows
  <2>2. staged[t].rows = led[t].rows /\ led[t].rows \in Nat
    BY <1>1, <1>3 DEF Publish, GroupInv, TypeOK, StreamRecord
  <2>3. ~ \E b \in staged[t].receipts : Ahead(t, b)
    <3>1. ASSUME NEW b \in staged[t].receipts, Ahead(t, b) PROVE FALSE
      <4>1. RowsOf[b.payload] \in Nat /\ RowsOf[b.payload] > 0
        BY <1>1, RowsAssumption DEF TypeOK, Batch
      <4> QED
        BY <2>2, <3>1, <4>1 DEF Ahead
    <3> QED
      BY <3>1
  <2> QED
    BY <2>1, <2>3 DEF BackendInv, Tracked
<1>4. ASSUME NEW t \in Streams
      PROVE  \/ staged'[t] = staged[t] /\ visible'[t] = visible[t]
             \/ /\ t \in Members(g) /\ visible[t] = <<>> /\ staged[t] # NoRows
                /\ visible'[t] = <<applied[t]>> /\ staged'[t] = NoRows
  <2>1. CASE t \in Members(g) /\ staged[t].receipts # {}
    <3>1. visible'[t] = Append(visible[t], staged[t].receipts) /\ staged'[t] = NoRows
      BY <2>1 DEF Publish
    <3>2. applied[t] \in SUBSET Batch
      BY <1>1 DEF TypeOK
    <3>3. Append(<<>>, applied[t]) = <<applied[t]>>
      BY <3>2, FirstOf
    <3> QED
      BY <1>3, <2>1, <3>1, <3>3
  <2>2. CASE ~(t \in Members(g) /\ staged[t].receipts # {})
    BY <2>2 DEF Publish
  <2> QED
    BY <2>1, <2>2
<1>5. staged' \in [Streams -> [rows : Nat, receipts : SUBSET Batch]]
  <2>1. NoRows \in [rows : Nat, receipts : SUBSET Batch]
    BY DEF NoRows
  <2> QED
    BY <1>1, <2>1 DEF Publish, TypeOK
<1>6. visible' \in [Streams -> Seq(SUBSET Batch)]
  <2>1. ASSUME NEW t \in Streams PROVE visible'[t] \in Seq(SUBSET Batch)
    <3>1. applied[t] \in SUBSET Batch /\ visible[t] \in Seq(SUBSET Batch)
      BY <1>1 DEF TypeOK
    <3>2. <<applied[t]>> \in Seq(SUBSET Batch)
      BY <3>1, FirstOf
    <3> QED
      BY <1>4, <3>1, <3>2
  <2>2. visible' = [t \in Streams |-> visible'[t]]
    BY DEF Publish
  <2> QED
    BY <2>1, <2>2
<1> QED
    BY <1>4, <1>5, <1>6

\* A publishing transaction, with its answer or without.
LEMMA PublishStep ==
    ASSUME IInv, NEW g \in 1..Len(groups), Publish(g), TypeOK',
           UNCHANGED <<ledgerVars, descriptor, sweep>>, late' = None,
           \A t \in Streams : \/ lock'[t] = lock[t]
                              \/ lock[t] = "commit" /\ lock'[t] = "committed"
    PROVE  IInv'
<1>1. TypeOK /\ SweepInv /\ GroupInv
    BY DEF IInv
<1>2. ASSUME NEW t \in Streams
      PROVE  \/ staged'[t] = staged[t] /\ visible'[t] = visible[t]
             \/ /\ t \in Members(g) /\ visible[t] = <<>> /\ staged[t] # NoRows
                /\ visible'[t] = <<applied[t]>> /\ staged'[t] = NoRows
    BY PublishExact
<1>3. ASSUME NEW t \in Streams
      PROVE  SameLedger(t) /\ SameRows(t) /\ LateKept(t) /\ ~LateAppend(t)'
    BY DEF ledgerVars, SameLedger, SameRows, LateKept, LateAppend, LateDiscard
<1>4. ASSUME NEW t \in Streams PROVE LedgerInv(t)'
    BY <1>3 DEF IInv, LedgerInv, SameLedger, SameRows, Appending, Exists
<1>5. ASSUME NEW t \in Pending PROVE BackendInv(t)'
  <2>1. t \in Streams /\ BackendInv(t)
    BY DEF IInv, Streams
  <2>2. CASE staged'[t] = staged[t] /\ visible'[t] = visible[t]
    BY <1>3, <2>1, <2>2, BackendFrame DEF ledgerVars, InSomeGroup, Members
  <2>3. CASE /\ t \in Members(g) /\ visible[t] = <<>> /\ staged[t] # NoRows
             /\ visible'[t] = <<applied[t]>> /\ staged'[t] = NoRows
    <3>1. InSomeGroup(t)' /\ led'[t].state # "DELETED"
      BY <1>1, <2>3 DEF InSomeGroup, Members, GroupInv, ledgerVars
    <3>2. visible'[t] = <<applied'[t]>> /\ ~LateDiscard(t)' /\ <<applied[t]>> # <<>>
      BY <2>3 DEF ledgerVars, LateDiscard
    <3> QED
      BY <1>3, <2>1, <2>3, <3>1, <3>2 DEF BackendInv
  <2> QED
    BY <1>2, <2>1, <2>2, <2>3
<1>6. GroupInv'
    BY <1>1, <1>3, GroupFrame DEF ledgerVars, Streams
<1>7. SweepInv'
    BY <1>1, <1>2, <1>3 DEF SweepInv, ledgerVars, Streams
<1> QED
    BY <1>4, <1>5, <1>6, <1>7 DEF IInv

\* CommitPending answered.
LEMMA CommitAppliedStep ==
    ASSUME IInv, NEW g \in 1..MaxGroups, CommitApplied(g)
    PROVE  IInv'
<1>1. TypeOK /\ g \in 1..Len(groups)
    BY BoundsAssumption DEF IInv, CommitApplied, Holds, TypeOK
<1>2. /\ Publish(g) /\ late = None
      /\ lock' = [s \in Streams |->
                    IF s \in Members(g) THEN "committed" ELSE lock[s]]
      /\ \A s \in Members(g) : lock[s] = "commit"
      /\ UNCHANGED <<ledgerVars, late, descriptor, idle, sweep, pending, lifeVars>>
    BY DEF CommitApplied, Holds, WorkerFree
<1>3. TypeOK'
    BY <1>1, <1>2, PublishExact DEF TypeOK, ledgerVars, lifeVars, LateOperation
<1> QED
    BY <1>1, <1>2, <1>3, PublishStep

\* A BatchCommit call returns: its streams keep their rows, settle or keep
\* their operation, and may become COMMITTED.
CommitReturn(g) ==
    /\ \A s \in Members(g) : lock[s] \in {"commit", "committed"}
    /\ led' \in [Streams -> StreamRecord]
    /\ \A t \in Streams \ Members(g) : led'[t] = led[t]
    /\ \A t \in Members(g) :
          /\ led'[t].rows = led[t].rows /\ led'[t].fp = led[t].fp
          /\ led'[t].cleanup = led[t].cleanup
          /\ led'[t].state \in {led[t].state, "COMMITTED"}
          /\ led'[t].op \in {led[t].op, "NONE"}
    /\ groups' \in Seq(CommitGroup) /\ Len(groups') = Len(groups)
    /\ \A h \in 1..Len(groups) : /\ groups'[h].members = groups[h].members
                                 /\ groups'[h].expected = groups[h].expected
    /\ late' = late \/ late' = [kind |-> "commit", group |-> g]
    /\ Release(Members(g))
    /\ UNCHANGED <<applied, receipt, staged, visible, descriptor, sweep, lifeVars>>
    /\ pending' \in Int /\ idle' \subseteq idle

\* Whatever way it returns, BatchCommit keeps the inductive invariant.
LEMMA CommitReturnStep ==
    ASSUME IInv, NEW g \in 1..Len(groups), CommitReturn(g)
    PROVE  IInv'
<1>1. TypeOK /\ SweepInv /\ GroupInv
    BY DEF IInv
<1>2. Members(g) \subseteq Pending /\ Members(g) \subseteq Streams
    BY <1>1, MemberTypes
<1>3. ASSUME NEW t \in Streams
      PROVE  /\ led'[t].rows = led[t].rows /\ led'[t].fp = led[t].fp
             /\ led'[t].cleanup = led[t].cleanup
             /\ led'[t].state = "DELETED" => led[t].state = "DELETED"
             /\ led'[t].state = "UNBORN" => led[t].state = "UNBORN"
             /\ Exists(t)' => Exists(t)
             /\ t \in Members(g) => /\ led'[t].state \in {"FINALIZED", "COMMITTED"}
                                    /\ Exists(t)
  <2>1. CASE t \in Members(g)
    BY <1>1, <2>1 DEF CommitReturn, GroupInv, Exists
  <2>2. CASE t \notin Members(g)
    BY <2>2 DEF CommitReturn, Exists
  <2> QED
    BY <2>1, <2>2
<1>4. ASSUME NEW t \in Streams PROVE LateKept(t)
    BY DEF CommitReturn, LateKept, LateAppend, LateDiscard
<1>5. /\ \A t \in Members(g) : lock'[t] = "free"
      /\ \A t \in Streams \ Members(g) : lock'[t] = lock[t]
    BY <1>1, <1>2, Released DEF CommitReturn
<1>6. TypeOK'
  <2>1. late' \in LateOperation' \cup {None}
    BY <1>1 DEF TypeOK, LateOperation, CommitReturn
  <2> QED
    BY <1>1, <1>2, <2>1, Released DEF TypeOK, CommitReturn, lifeVars
<1>7. ASSUME NEW t \in Streams PROVE LedgerInv(t)'
  <2>1. LedgerInv(t)
    BY DEF IInv
  <2>2. CASE t \in Members(g)
    <3>1. receipt[t] = None /\ receipt'[t] = None
      BY <2>1, <2>2 DEF LedgerInv, CommitReturn
    <3> QED
      BY <1>3, <1>4, <1>5, <2>1, <2>2, <3>1 DEF LedgerInv, CommitReturn, LateKept,
         LateAppend, Appending
  <2>3. CASE t \notin Members(g)
    BY <1>4, <1>5, <2>1, <2>3, LedgerFrame DEF CommitReturn, SameLedger, SameRows
  <2> QED
    BY <2>2, <2>3
<1>8. ASSUME NEW t \in Pending PROVE InSomeGroup(t)' = InSomeGroup(t)
    BY DEF CommitReturn, InSomeGroup, Members
<1>9. ASSUME NEW t \in Pending PROVE BackendInv(t)'
  <2>1. BackendInv(t) /\ t \in Streams
    BY DEF IInv, Streams
  <2>2. Tracked(t) => Tracked(t)'
    BY <1>3, <2>1 DEF Tracked, Ahead, CommitReturn
  <2>3. lock'[t] = "appended" => lock[t] = "appended"
    BY <1>5, <2>1
  <2>4. Ahead(t, receipt[t]) => Ahead(t, receipt[t])'
    BY <1>3, <2>1 DEF Ahead, CommitReturn
  <2> QED
    BY <1>3, <1>4, <1>8, <2>1, <2>2, <2>3, <2>4 DEF BackendInv, CommitReturn, LateKept
<1>10. GroupInv'
  <2>1. ASSUME NEW h \in 1..Len(groups'), NEW t \in Members(h)'
        PROVE  /\ led'[t].state \in {"FINALIZED", "COMMITTED"}
               /\ groups'[h].expected[t] = led'[t].rows
    <3>1. h \in 1..Len(groups) /\ t \in Members(h)
      BY DEF CommitReturn, Members
    <3>2. t \in Streams
      BY <1>1, <3>1, MemberTypes
    <3>3. groups'[h].expected = groups[h].expected
      BY <3>1 DEF CommitReturn
    <3>4. /\ led[t].state \in {"FINALIZED", "COMMITTED"}
          /\ groups[h].expected[t] = led[t].rows
      BY <1>1, <3>1 DEF GroupInv
    <3>5. led'[t].state \in {led[t].state, "COMMITTED"}
      BY <3>2 DEF CommitReturn
    <3> QED
      BY <1>3, <3>2, <3>3, <3>4, <3>5
  <2>2. ASSUME NEW t \in Pending, led'[t].state = "COMMITTED"
        PROVE  InSomeGroup(t)
    <3>1. CASE t \in Members(g)
      BY <3>1 DEF InSomeGroup
    <3>2. CASE t \notin Members(g)
      BY <1>1, <2>2, <3>2 DEF GroupInv, CommitReturn, Streams
    <3> QED
      BY <3>1, <3>2
  <2> QED
    BY <1>8, <2>1, <2>2 DEF GroupInv
<1>11. SweepInv'
    BY <1>1, <1>3, <1>4
       DEF SweepInv, CommitReturn, LateKept, TypeOK, Sweep, Streams
<1> QED
    BY <1>6, <1>7, <1>9, <1>10, <1>11 DEF IInv

\* Every way for BatchCommit to return is a CommitReturn.
LEMMA CommitReturnsStep ==
    ASSUME IInv, NEW g \in 1..MaxGroups,
           CommitComplete(g) \/ CommitAbort(g) \/ CommitUnresolved(g)
               \/ CommitUnrecorded(g)
    PROVE  IInv'
<1>1. /\ TypeOK /\ g \in 1..Len(groups)
      /\ \A s \in Members(g) : lock[s] \in {"commit", "committed"}
  <2>1. Holds(g, "commit") \/ Holds(g, "committed")
    BY DEF CommitComplete, CommitAbort, CommitUnresolved, CommitUnrecorded,
       CommitAmbiguous
  <2>2. TypeOK /\ Len(groups) \in Nat /\ g <= Len(groups)
    BY <2>1 DEF IInv, TypeOK, Holds
  <2> QED
    BY <2>1, <2>2, BoundsAssumption DEF Holds
<1>2. /\ Members(g) \subseteq Pending /\ Members(g) \subseteq Streams
      /\ groups[g] \in CommitGroup
    BY <1>1, MemberTypes
<1>3. Cardinality(Members(g)) \in Nat
    BY <1>2, StreamsAssumption, FS_Subset, FS_CardinalityType
<1>4. ASSUME NEW t \in Streams PROVE led[t] \in StreamRecord
    BY <1>1 DEF TypeOK
<1>5. CASE CommitComplete(g)
  <2> DEFINE new(t) == [Settled(led[t]) EXCEPT !.state = "COMMITTED"]
  <2>1. ASSUME NEW t \in Streams
        PROVE  /\ new(t) \in StreamRecord /\ new(t).rows = led[t].rows
               /\ new(t).fp = led[t].fp /\ new(t).cleanup = led[t].cleanup
               /\ new(t).state = "COMMITTED" /\ new(t).op = "NONE"
    <3>1. /\ Settled(led[t]) \in StreamRecord
          /\ Settled(led[t]).rows = led[t].rows /\ Settled(led[t]).fp = led[t].fp
          /\ Settled(led[t]).cleanup = led[t].cleanup
          /\ Settled(led[t]).op = "NONE"
      BY <1>4, SettledFields
    <3> QED
      BY <3>1 DEF StreamRecord
  <2>2. led' = [t \in Streams |-> IF t \in Members(g) THEN new(t) ELSE led[t]]
    BY <1>5 DEF CommitComplete
  <2>3. /\ groups' \in Seq(CommitGroup) /\ Len(groups') = Len(groups)
        /\ \A h \in 1..Len(groups) : /\ groups'[h].members = groups[h].members
                                     /\ groups'[h].expected = groups[h].expected
    <3> DEFINE grp == [groups[g] EXCEPT !.phase = "APPLIED"]
    <3>1. /\ groups' = [groups EXCEPT ![g] = grp]
          /\ groups \in Seq(CommitGroup)
      BY <1>1, <1>5 DEF CommitComplete, TypeOK
    <3>2. /\ grp \in CommitGroup /\ grp.members = groups[g].members
          /\ grp.expected = groups[g].expected
      BY <1>2 DEF CommitGroup
    <3> HIDE DEF grp
    <3> QED
      BY <1>1, <3>1, <3>2
  <2> HIDE DEF new
  <2>4. /\ led' \in [Streams -> StreamRecord]
        /\ \A t \in Streams \ Members(g) : led'[t] = led[t]
        /\ \A t \in Members(g) : led'[t] = new(t)
    BY <1>2, <1>4, <2>1, <2>2
  <2>5. pending' \in Int /\ idle' \subseteq idle
    BY <1>1, <1>3, <1>5 DEF CommitComplete, TypeOK
  <2>6. \A t \in Members(g) :
           /\ led'[t].rows = led[t].rows /\ led'[t].fp = led[t].fp
           /\ led'[t].cleanup = led[t].cleanup
           /\ led'[t].state = "COMMITTED" /\ led'[t].op = "NONE"
    BY <1>2, <2>1, <2>4
  <2>7. /\ late' = late /\ Release(Members(g))
        /\ UNCHANGED <<applied, receipt, staged, visible, descriptor, sweep,
                       lifeVars>>
    BY <1>5 DEF CommitComplete, duckVars
  <2>8. CommitReturn(g)
    BY <1>1, <2>3, <2>4, <2>5, <2>6, <2>7 DEF CommitReturn
  <2> QED
    BY <1>1, <2>8, CommitReturnStep
<1>6. CASE CommitAbort(g)
  <2>1. /\ groups' \in Seq(CommitGroup) /\ Len(groups') = Len(groups)
        /\ \A h \in 1..Len(groups) : /\ groups'[h].members = groups[h].members
                                     /\ groups'[h].expected = groups[h].expected
    <3> DEFINE grp == [groups[g] EXCEPT !.phase = "ABORTED"]
    <3>1. /\ groups' = [groups EXCEPT ![g] = grp]
          /\ groups \in Seq(CommitGroup)
      BY <1>1, <1>6 DEF CommitAbort, TypeOK
    <3>2. /\ grp \in CommitGroup /\ grp.members = groups[g].members
          /\ grp.expected = groups[g].expected
      BY <1>2 DEF CommitGroup
    <3> HIDE DEF grp
    <3> QED
      BY <1>1, <3>1, <3>2
  <2>2. CommitReturn(g)
    BY <1>1, <1>2, <1>4, <1>6, <2>1, SettledFields
       DEF CommitReturn, CommitAbort, duckVars, TypeOK
  <2> QED
    BY <1>1, <2>2, CommitReturnStep
<1>7. CASE CommitUnresolved(g)
  <2>1. /\ groups' \in Seq(CommitGroup) /\ Len(groups') = Len(groups)
        /\ \A h \in 1..Len(groups) : /\ groups'[h].members = groups[h].members
                                     /\ groups'[h].expected = groups[h].expected
    <3>1. /\ groups' = [groups EXCEPT ![g] = UnresolvedGroup(groups[g])]
          /\ groups \in Seq(CommitGroup)
      BY <1>1, <1>7 DEF CommitUnresolved, TypeOK
    <3>2. /\ UnresolvedGroup(groups[g]) \in CommitGroup
          /\ UnresolvedGroup(groups[g]).members = groups[g].members
          /\ UnresolvedGroup(groups[g]).expected = groups[g].expected
      BY <1>2 DEF CommitGroup, UnresolvedGroup
    <3> QED
      BY <1>1, <3>1, <3>2
  <2>2. CommitReturn(g)
    BY <1>1, <1>2, <1>4, <1>7, <2>1, UnresolvedFields
       DEF CommitReturn, CommitUnresolved, CommitAmbiguous, MayKeepRunning, TypeOK
  <2> QED
    BY <1>1, <2>2, CommitReturnStep
<1>8. CASE CommitUnrecorded(g)
  <2>1. CommitReturn(g)
    BY <1>1, <1>2, <1>8
       DEF CommitReturn, CommitUnrecorded, CommitAmbiguous, MayKeepRunning, TypeOK
  <2> QED
    BY <1>1, <2>1, CommitReturnStep
<1> QED
    BY <1>5, <1>6, <1>7, <1>8

============================================================================
