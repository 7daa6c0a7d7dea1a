-------------------------- MODULE StorageReadProofs --------------------------
(***************************************************************************)
(* Proofs about StorageRead, for any number of sessions and readers and    *)
(* any limits: reads see open snapshots only, the ledger and the service   *)
(* agree, the session limit holds, and an ended session stays ended.       *)
(*                                                                         *)
(* A reader keeps its session while the sweeper or Close takes it out of   *)
(* the service, so what must be known is where a session can be: served,   *)
(* or in the work of exactly one of the two janitors, or the one session   *)
(* it is closing, and its snapshot is open until the janitor has its lock. *)
(***************************************************************************)
EXTENDS StorageRead, FiniteSetTheorems, TLAPS

\* The session whose lock janitor p waits for.
Awaited(p) == {c \in Sessions : current[p] = c /\ snap[c] = "open"}

\* The sessions that no janitor has come to.
Unclosed == sessions \cup work["sweep"] \cup work["close"]

\* The sessions whose snapshot may be read.
Held == Unclosed \cup Awaited("sweep") \cup Awaited("close")

\* A session is in one place, and its snapshot is open there.
PlaceInv ==
    /\ sessions \cap work["sweep"] = {} /\ sessions \cap work["close"] = {}
    /\ work["sweep"] \cap work["close"] = {}
    /\ \A p \in Janitors : current[p] # None =>
          current[p] \notin Unclosed /\ create[current[p]] = "created"
    /\ current["sweep"] # None => current["sweep"] # current["close"]
    /\ \A c \in Unclosed : snap[c] = "open" /\ create[c] = "created"
    /\ \A c \in Sessions : create[c] = "materialized" => snap[c] = "open"
    /\ \A r \in Readers : reading[r] # None => reading[r] \in Held
    /\ process \in {"up", "down"} =>
          work["close"] = {} /\ current["close"] = None

\* The ledger names the sessions that were created, ACTIVE while served.
LifeInv ==
    /\ \A c \in Sessions : create[c] = "created" <=> life[c] # "none"
    /\ \A c \in sessions : life[c] = "ACTIVE"
    /\ process = "up" =>
          \A c \in Sessions : life[c] = "ACTIVE" => c \in sessions
    /\ process # "up" => sessions = {}

\* The session limit, with the finiteness that cardinalities need.
SlotInv ==
    /\ IsFiniteSet(sessions) /\ IsFiniteSet(reservations)
    /\ SessionsBounded

IInv == TypeOK /\ PlaceInv /\ LifeInv /\ SlotInv

-----------------------------------------------------------------------------
\* The empty service satisfies the inductive invariant.
LEMMA InitIInv == Init => IInv
<1> SUFFICES ASSUME Init PROVE IInv
    OBVIOUS
<1>1. TypeOK
    BY LimitsAssumption DEF Init, TypeOK
<1>2. PlaceInv
    BY DEF Init, PlaceInv, Unclosed, Held, Awaited, Janitors
<1>3. LifeInv
    BY DEF Init, LifeInv
<1>4. SlotInv
    BY FS_EmptySet, LimitsAssumption DEF Init, SlotInv, SessionsBounded
<1> QED
    BY <1>1, <1>2, <1>3, <1>4 DEF IInv

\* Every action keeps the types.
LEMMA TypeStep == TypeOK /\ [Next]_vars => TypeOK'
<1> SUFFICES ASSUME TypeOK, [Next]_vars PROVE TypeOK'
    OBVIOUS
<1> USE LimitsAssumption
<1>1. ASSUME NEW c \in Sessions, Reserve(c) PROVE TypeOK'
    BY <1>1 DEF TypeOK, Reserve
<1>2. ASSUME NEW c \in Sessions, MaterializeFails(c) PROVE TypeOK'
    BY <1>2 DEF TypeOK, MaterializeFails, Release
<1>3. ASSUME NEW c \in Sessions, Materialize(c) PROVE TypeOK'
    BY <1>3 DEF TypeOK, Materialize
<1>4. ASSUME NEW c \in Sessions, Commit(c) PROVE TypeOK'
    BY <1>4 DEF TypeOK, Commit
<1>5. ASSUME NEW c \in Sessions, CommitRejected(c) PROVE TypeOK'
    BY <1>5 DEF TypeOK, CommitRejected
<1>6. ASSUME NEW c \in Sessions, ReleaseRejected(c) PROVE TypeOK'
    BY <1>6 DEF TypeOK, ReleaseRejected, Release
<1>7. ASSUME NEW c \in Sessions, Expire(c) PROVE TypeOK'
    BY <1>7 DEF TypeOK, Expire
<1>8. ASSUME NEW c \in Sessions, CloseReleases(c) PROVE TypeOK'
    BY <1>8 DEF TypeOK, CloseReleases, Release
<1>9. ASSUME NEW r \in Readers, NEW c \in Sessions, ReadBegin(r, c)
      PROVE  TypeOK'
    BY <1>9 DEF TypeOK, ReadBegin
<1>10. ASSUME NEW r \in Readers, ReadEnd(r) PROVE TypeOK'
    BY <1>10 DEF TypeOK, ReadEnd
<1>11. CASE SweepExpired
    BY <1>11 DEF TypeOK, SweepExpired, Transitioned, Janitors
<1>12. CASE Close
    BY <1>12 DEF TypeOK, Close, Transitioned, Janitors
<1>13. CASE CloseReturns
    BY <1>13 DEF TypeOK, CloseReturns
<1>14. ASSUME NEW p \in Janitors, NEW c \in Sessions, NextSnapshot(p, c)
       PROVE  TypeOK'
    BY <1>14 DEF TypeOK, NextSnapshot
<1>19. ASSUME NEW p \in Janitors, CloseSnapshot(p) PROVE TypeOK'
    BY <1>19 DEF TypeOK, CloseSnapshot
<1>15. ASSUME NEW p \in Janitors, ReleaseSnapshotBudget(p) PROVE TypeOK'
    BY <1>15 DEF TypeOK, ReleaseSnapshotBudget
<1>16. CASE Exit
    BY <1>16 DEF TypeOK, Exit, Gone, Broken
<1>17. CASE Restart
    BY <1>17 DEF TypeOK, Restart, Reconciled
<1>18. CASE UNCHANGED vars
    BY <1>18 DEF TypeOK, vars
<1> QED
    BY <1>1, <1>2, <1>3, <1>4, <1>5, <1>6, <1>7, <1>8, <1>9, <1>10, <1>11,
       <1>12, <1>13, <1>14, <1>15, <1>16, <1>17, <1>18, <1>19
       DEF Next, CreateSession, Janitor

\* Every action keeps a session in one place, and its snapshot open there.
LEMMA PlaceStep == TypeOK /\ PlaceInv /\ LifeInv /\ [Next]_vars => PlaceInv'
<1> SUFFICES ASSUME TypeOK, PlaceInv, LifeInv, [Next]_vars PROVE PlaceInv'
    OBVIOUS
<1>1. ASSUME NEW c \in Sessions, Reserve(c) PROVE PlaceInv'
    BY <1>1 DEF TypeOK, PlaceInv, Unclosed, Held, Awaited, Janitors, Reserve
<1>2. ASSUME NEW c \in Sessions, MaterializeFails(c) PROVE PlaceInv'
    BY <1>2 DEF TypeOK, PlaceInv, Unclosed, Held, Awaited, Janitors, MaterializeFails
<1>3. ASSUME NEW c \in Sessions, Materialize(c) PROVE PlaceInv'
    BY <1>3 DEF TypeOK, PlaceInv, Unclosed, Held, Awaited, Janitors, Materialize
<1>4. ASSUME NEW c \in Sessions, Commit(c) PROVE PlaceInv'
  <2> USE <1>4 DEF Commit, Committable
  <2>1. c \notin Unclosed /\ \A p \in Janitors : current[p] # c
      BY NoneAssumption DEF PlaceInv
  <2>2. /\ Unclosed' = Unclosed \cup {c} /\ Held' = Held \cup {c}
        /\ UNCHANGED <<work, current, snap, reading, process>>
      BY DEF Unclosed, Held, Awaited
  <2>3. sessions' \cap work["sweep"] = {} /\ sessions' \cap work["close"] = {}
      BY <2>1 DEF PlaceInv, Unclosed
  <2>4. \A d \in Unclosed' : snap'[d] = "open" /\ create'[d] = "created"
      BY <2>2 DEF PlaceInv, TypeOK
  <2>5. \A d \in Sessions : create'[d] = "materialized" => snap'[d] = "open"
      BY DEF PlaceInv, TypeOK
  <2>6. \A p \in Janitors : current'[p] # None =>
           current'[p] \notin Unclosed' /\ create'[current'[p]] = "created"
      BY <2>1, <2>2 DEF PlaceInv, TypeOK
  <2> QED
      BY <2>2, <2>3, <2>4, <2>5, <2>6 DEF PlaceInv
<1>5. ASSUME NEW c \in Sessions, CommitRejected(c) PROVE PlaceInv'
    BY <1>5 DEF TypeOK, PlaceInv, Unclosed, Held, Awaited, Janitors, CommitRejected
<1>6. ASSUME NEW c \in Sessions, ReleaseRejected(c) PROVE PlaceInv'
    BY <1>6 DEF TypeOK, PlaceInv, Unclosed, Held, Awaited, Janitors, ReleaseRejected
<1>7. ASSUME NEW c \in Sessions, Expire(c) PROVE PlaceInv'
    BY <1>7 DEF PlaceInv, Unclosed, Held, Awaited, Janitors, Expire
<1>8. ASSUME NEW c \in Sessions, CloseReleases(c) PROVE PlaceInv'
    BY <1>8 DEF PlaceInv, Unclosed, Held, Awaited, Janitors, CloseReleases
<1>9. ASSUME NEW r \in Readers, NEW c \in Sessions, ReadBegin(r, c)
      PROVE  PlaceInv'
    BY <1>9 DEF TypeOK, PlaceInv, Unclosed, Held, Awaited, Janitors, ReadBegin, Answer
<1>10. ASSUME NEW r \in Readers, ReadEnd(r) PROVE PlaceInv'
    BY <1>10 DEF TypeOK, PlaceInv, Unclosed, Held, Awaited, Janitors, ReadEnd
<1>11. CASE SweepExpired
    BY <1>11 DEF TypeOK, PlaceInv, Unclosed, Held, Awaited, Janitors, SweepExpired
<1>12. CASE Close
    BY <1>12 DEF TypeOK, PlaceInv, Unclosed, Held, Awaited, Janitors, Close
<1>13. CASE CloseReturns
    BY <1>13 DEF PlaceInv, Unclosed, Held, Awaited, Janitors, CloseReturns
<1>14. ASSUME NEW p \in Janitors, NEW c \in Sessions, NextSnapshot(p, c)
       PROVE  PlaceInv'
    BY <1>14, NoneAssumption DEF TypeOK, PlaceInv, Unclosed, Held, Awaited, Janitors, NextSnapshot
<1>19. ASSUME NEW p \in Janitors, CloseSnapshot(p) PROVE PlaceInv'
  <2>1. \A r \in Readers : reading[r] # current[p]
      BY <1>19 DEF CloseSnapshot, Quiescent
  <2> QED
      BY <1>19, <2>1, NoneAssumption DEF TypeOK, PlaceInv, Unclosed, Held, Awaited, Janitors, CloseSnapshot
<1>15. ASSUME NEW p \in Janitors, ReleaseSnapshotBudget(p) PROVE PlaceInv'
    BY <1>15 DEF PlaceInv, Unclosed, Held, Awaited, Janitors, ReleaseSnapshotBudget
<1>16. CASE Exit
    BY <1>16 DEF PlaceInv, Unclosed, Held, Awaited, Janitors, Exit, Broken
<1>17. CASE Restart
    BY <1>17 DEF PlaceInv, Unclosed, Held, Awaited, Janitors, Restart
<1>18. CASE UNCHANGED vars
    BY <1>18 DEF PlaceInv, Unclosed, Held, Awaited, Janitors, vars
<1> QED
    BY <1>1, <1>2, <1>3, <1>4, <1>5, <1>6, <1>7, <1>8, <1>9, <1>10, <1>11,
       <1>12, <1>13, <1>14, <1>15, <1>16, <1>17, <1>18, <1>19
       DEF Next, CreateSession, Janitor

\* Every action keeps the ledger in step with the service.
LEMMA LifeStep == TypeOK /\ PlaceInv /\ LifeInv /\ [Next]_vars => LifeInv'
<1> SUFFICES ASSUME TypeOK, PlaceInv, LifeInv, [Next]_vars PROVE LifeInv'
    OBVIOUS
<1>1. ASSUME NEW c \in Sessions, Reserve(c) PROVE LifeInv'
    BY <1>1 DEF TypeOK, LifeInv, Reserve
<1>2. ASSUME NEW c \in Sessions, MaterializeFails(c) PROVE LifeInv'
    BY <1>2 DEF TypeOK, LifeInv, MaterializeFails
<1>3. ASSUME NEW c \in Sessions, Materialize(c) PROVE LifeInv'
    BY <1>3 DEF TypeOK, LifeInv, Materialize
<1>4. ASSUME NEW c \in Sessions, Commit(c) PROVE LifeInv'
    BY <1>4 DEF TypeOK, LifeInv, Commit, Committable
<1>5. ASSUME NEW c \in Sessions, CommitRejected(c) PROVE LifeInv'
    BY <1>5 DEF TypeOK, LifeInv, CommitRejected
<1>6. ASSUME NEW c \in Sessions, ReleaseRejected(c) PROVE LifeInv'
    BY <1>6 DEF TypeOK, LifeInv, ReleaseRejected
<1>7. ASSUME NEW c \in Sessions, Expire(c) PROVE LifeInv'
    BY <1>7 DEF LifeInv, Expire
<1>8. ASSUME NEW c \in Sessions, CloseReleases(c) PROVE LifeInv'
    BY <1>8 DEF LifeInv, CloseReleases
<1>9. ASSUME NEW r \in Readers, NEW c \in Sessions, ReadBegin(r, c)
      PROVE  LifeInv'
    BY <1>9 DEF LifeInv, ReadBegin
<1>10. ASSUME NEW r \in Readers, ReadEnd(r) PROVE LifeInv'
    BY <1>10 DEF LifeInv, ReadEnd
<1>11. CASE SweepExpired
    BY <1>11 DEF TypeOK, LifeInv, SweepExpired, Transitioned
<1>12. CASE Close
    BY <1>12 DEF TypeOK, LifeInv, Close, Transitioned
<1>13. CASE CloseReturns
    BY <1>13 DEF LifeInv, CloseReturns
<1>14. ASSUME NEW p \in Janitors, NEW c \in Sessions, NextSnapshot(p, c)
       PROVE  LifeInv'
    BY <1>14 DEF LifeInv, NextSnapshot
<1>19. ASSUME NEW p \in Janitors, CloseSnapshot(p) PROVE LifeInv'
    BY <1>19 DEF LifeInv, CloseSnapshot
<1>15. ASSUME NEW p \in Janitors, ReleaseSnapshotBudget(p) PROVE LifeInv'
    BY <1>15 DEF LifeInv, ReleaseSnapshotBudget
<1>16. CASE Exit
    BY <1>16 DEF TypeOK, LifeInv, Exit, Broken
<1>17. CASE Restart
    BY <1>17 DEF TypeOK, LifeInv, Restart, Reconciled
<1>18. CASE UNCHANGED vars
    BY <1>18 DEF LifeInv, vars
<1> QED
    BY <1>1, <1>2, <1>3, <1>4, <1>5, <1>6, <1>7, <1>8, <1>9, <1>10, <1>11,
       <1>12, <1>13, <1>14, <1>15, <1>16, <1>17, <1>18, <1>19
       DEF Next, CreateSession, Janitor

-----------------------------------------------------------------------------
\* Every action keeps the session limit.  Reserve is admitted under it; Commit
\* trades a reservation for a session; nothing else adds to either set.
LEMMA SlotStep == TypeOK /\ SlotInv /\ [Next]_vars => SlotInv'
<1> SUFFICES ASSUME TypeOK, SlotInv, [Next]_vars PROVE SlotInv'
    OBVIOUS
<1> USE LimitsAssumption
<1>a. /\ Cardinality(sessions) \in Nat /\ Cardinality(reservations) \in Nat
      /\ IsFiniteSet(sessions) /\ IsFiniteSet(reservations)
      /\ Cardinality(sessions) + Cardinality(reservations) <= MaxSessions
    BY FS_CardinalityType DEF SlotInv, SessionsBounded
<1>b. ASSUME sessions' \in SUBSET sessions,
             reservations' \in SUBSET reservations
      PROVE  SlotInv'
  <2>1. /\ IsFiniteSet(sessions') /\ Cardinality(sessions') \in Nat
        /\ Cardinality(sessions') <= Cardinality(sessions)
      BY <1>a, <1>b, FS_Subset, FS_CardinalityType
  <2>2. /\ IsFiniteSet(reservations') /\ Cardinality(reservations') \in Nat
        /\ Cardinality(reservations') <= Cardinality(reservations)
      BY <1>a, <1>b, FS_Subset, FS_CardinalityType
  <2> QED
      BY <1>a, <2>1, <2>2 DEF SlotInv, SessionsBounded
<1>1. ASSUME NEW c \in Sessions, Reserve(c) PROVE SlotInv'
  <2>1. /\ sessions' = sessions /\ reservations' = reservations \cup {c}
        /\ Cardinality(sessions) + Cardinality(reservations) < MaxSessions
      BY <1>1 DEF Reserve, Admissible
  <2>2. /\ IsFiniteSet(reservations \cup {c})
        /\ \/ Cardinality(reservations \cup {c}) = Cardinality(reservations)
           \/ Cardinality(reservations \cup {c})
                 = Cardinality(reservations) + 1
      BY <1>a, FS_AddElement
  <2> QED
      BY <1>a, <2>1, <2>2 DEF SlotInv, SessionsBounded
<1>2. ASSUME NEW c \in Sessions, Commit(c) PROVE SlotInv'
  <2>1. /\ sessions' = sessions \cup {c} /\ reservations' = reservations \ {c}
        /\ c \in reservations
      BY <1>2 DEF Commit, Committable
  <2>2. /\ IsFiniteSet(sessions \cup {c})
        /\ \/ Cardinality(sessions \cup {c}) = Cardinality(sessions)
           \/ Cardinality(sessions \cup {c}) = Cardinality(sessions) + 1
      BY <1>a, FS_AddElement
  <2>3. /\ IsFiniteSet(reservations \ {c})
        /\ Cardinality(reservations \ {c}) = Cardinality(reservations) - 1
      BY <1>a, <2>1, FS_RemoveElement
  <2> QED
      BY <1>a, <2>1, <2>2, <2>3 DEF SlotInv, SessionsBounded
<1>3. ASSUME NEW c \in Sessions,
             \/ MaterializeFails(c) \/ Materialize(c) \/ CommitRejected(c)
             \/ ReleaseRejected(c) \/ Expire(c) \/ CloseReleases(c)
      PROVE  SlotInv'
    BY <1>3, <1>b DEF MaterializeFails, Materialize, CommitRejected,
          ReleaseRejected, Expire, CloseReleases, Release
<1>4. ASSUME NEW r \in Readers, NEW c \in Sessions, ReadBegin(r, c)
      PROVE  SlotInv'
    BY <1>4, <1>b DEF ReadBegin
<1>5. ASSUME NEW r \in Readers, ReadEnd(r) PROVE SlotInv'
    BY <1>5, <1>b DEF ReadEnd
<1>6. ASSUME NEW p \in Janitors, Janitor(p) PROVE SlotInv'
    BY <1>6, <1>b DEF Janitor, NextSnapshot, CloseSnapshot, ReleaseSnapshotBudget
<1>7. CASE SweepExpired \/ Close \/ CloseReturns \/ Exit \/ Restart
    BY <1>7, <1>b DEF SweepExpired, Close, CloseReturns, Exit, Restart
<1>8. CASE UNCHANGED vars
    BY <1>8, <1>b DEF vars
<1> QED
    BY <1>1, <1>2, <1>3, <1>4, <1>5, <1>6, <1>7, <1>8 DEF Next, CreateSession

\* IInv is an invariant of the Storage Read service: its four parts hold when
\* the process starts and each handler step keeps all of them.
THEOREM InductiveInvariant == Spec => []IInv
<1>1. IInv /\ [Next]_vars => IInv'
    BY TypeStep, PlaceStep, LifeStep, SlotStep DEF IInv
<1> QED
    BY InitIInv, <1>1, PTL DEF Spec

\* Sessions served and reservations in flight never exceed MaxSessions, however
\* many creators are between reserveSession and commitReservedSession.
THEOREM SessionsBoundedHolds == Spec => []SessionsBounded
<1>1. IInv => SessionsBounded
    BY DEF IInv, SlotInv
<1> QED
    BY InductiveInvariant, <1>1, PTL

\* ReadRows only ever reads a snapshot that is open, for any number of readers
\* racing the sweeper, Close and the end of the process.
THEOREM ReadsOpenSnapshotsHolds == Spec => []ReadsOpenSnapshots
<1>1. IInv => ReadsOpenSnapshots
    BY DEF IInv, PlaceInv, Held, Awaited, ReadsOpenSnapshots
<1> QED
    BY InductiveInvariant, <1>1, PTL

\* While the service is open the ACTIVE sessions of the ledger are exactly the
\* sessions it serves, each with an open snapshot, after every restart too.
THEOREM LedgerServedHolds == Spec => []LedgerServed
<1>1. IInv => LedgerServed
  <2> SUFFICES ASSUME IInv, process = "up"
      PROVE  /\ {c \in Sessions : life[c] = "ACTIVE"} = sessions
             /\ \A c \in sessions : snap[c] = "open"
      BY DEF LedgerServed
  <2>1. {c \in Sessions : life[c] = "ACTIVE"} = sessions
      BY DEF IInv, LifeInv, TypeOK
  <2> QED
      BY <2>1 DEF IInv, PlaceInv, Unclosed
<1> QED
    BY InductiveInvariant, <1>1, PTL

-----------------------------------------------------------------------------
\* The only way into the service is Commit, for a session not yet created, and
\* no action makes an expired session young again.
LEMMA ServedOnce ==
    ASSUME [Next]_vars, NEW d \in Sessions, create[d] = "created"
    PROVE  /\ d \notin sessions => d \notin sessions'
           /\ d \in stale => d \in stale'
<1>1. ASSUME NEW c \in Sessions, CreateSession(c)
      PROVE  /\ d \notin sessions => d \notin sessions'
             /\ stale' = stale
    BY <1>1 DEF CreateSession, Reserve, MaterializeFails, Materialize, Commit,
          Committable, CommitRejected, ReleaseRejected
<1>2. ASSUME NEW c \in Sessions, Expire(c) \/ CloseReleases(c)
      PROVE  /\ sessions' = sessions
             /\ d \in stale => d \in stale'
    BY <1>2 DEF Expire, CloseReleases
<1>3. ASSUME NEW r \in Readers, NEW c \in Sessions, ReadBegin(r, c)
      PROVE  sessions' = sessions /\ stale' = stale
    BY <1>3 DEF ReadBegin
<1>4. ASSUME NEW r \in Readers, ReadEnd(r)
      PROVE  sessions' = sessions /\ stale' = stale
    BY <1>4 DEF ReadEnd
<1>5. ASSUME NEW p \in Janitors, Janitor(p)
      PROVE  sessions' = sessions /\ stale' = stale
    BY <1>5 DEF Janitor, NextSnapshot, CloseSnapshot, ReleaseSnapshotBudget
<1>6. CASE SweepExpired \/ Close \/ CloseReturns \/ Exit \/ Restart
    BY <1>6 DEF SweepExpired, Close, CloseReturns, Exit, Restart
<1>7. CASE UNCHANGED vars
    BY <1>7 DEF vars
<1> QED
    BY <1>1, <1>2, <1>3, <1>4, <1>5, <1>6, <1>7 DEF Next

\* A stream that ReadRows has refused is refused for ever, across sweeps,
\* failed transitions of the ledger, Close, crashes and restarts.
THEOREM RefusedForeverHolds == Spec => RefusedForever
<1>1. ASSUME [Next]_vars, NEW d \in Sessions, create[d] = "created",
             Answer(d) # "ROWS"
      PROVE  Answer(d)' # "ROWS"
  <2>1. d \notin sessions \/ d \in stale
      BY <1>1 DEF Answer
  <2>2. d \notin sessions' \/ d \in stale'
      BY <1>1, <2>1, ServedOnce
  <2> QED
      BY <2>2 DEF Answer
<1>2. [Next]_vars => [\A c \in Sessions :
          create[c] = "created" /\ Answer(c) # "ROWS"
             => Answer(c)' # "ROWS"]_vars
    BY <1>1
<1> QED
    BY <1>2, PTL DEF Spec, RefusedForever

\* EXPIRED and UNAVAILABLE are final: no step of the service, in this process
\* or a later one, gives an ended session another lifecycle, so the trigger of
\* the ledger never has to abort an update.
THEOREM EndedForeverHolds == Spec => EndedForever
<1>1. ASSUME IInv, [Next]_vars, NEW d \in Sessions,
             life[d] \in {"EXPIRED", "UNAVAILABLE"}
      PROVE  life'[d] = life[d]
  <2>1. d \notin sessions /\ create[d] = "created"
      BY <1>1 DEF IInv, LifeInv
  <2> USE <1>1, <2>1
  <2>2. ASSUME NEW c \in Sessions, Commit(c) PROVE life'[d] = life[d]
      BY <2>2 DEF Commit, Committable, IInv, TypeOK
  <2>3. ASSUME NEW c \in Sessions, CreateSession(c), ~ Commit(c)
        PROVE  life'[d] = life[d]
      BY <2>3 DEF CreateSession, Reserve, MaterializeFails, Materialize,
            CommitRejected, ReleaseRejected
  <2>4. ASSUME NEW c \in Sessions, Expire(c) \/ CloseReleases(c)
        PROVE  life'[d] = life[d]
      BY <2>4 DEF Expire, CloseReleases
  <2>5. ASSUME NEW r \in Readers, NEW c \in Sessions, ReadBegin(r, c)
        PROVE  life'[d] = life[d]
      BY <2>5 DEF ReadBegin
  <2>6. ASSUME NEW r \in Readers, ReadEnd(r) PROVE life'[d] = life[d]
      BY <2>6 DEF ReadEnd
  <2>7. ASSUME NEW p \in Janitors, Janitor(p) PROVE life'[d] = life[d]
      BY <2>7 DEF Janitor, NextSnapshot, CloseSnapshot, ReleaseSnapshotBudget
  <2>8. CASE SweepExpired
      BY <2>8 DEF SweepExpired, Transitioned
  <2>9. CASE Close
      BY <2>9 DEF Close, Transitioned
  <2>10. CASE CloseReturns \/ Exit
      BY <2>10 DEF CloseReturns, Exit
  <2>11. CASE Restart
      BY <2>11 DEF Restart, Reconciled
  <2>12. CASE UNCHANGED vars
      BY <2>12 DEF vars
  <2> QED
      BY <2>2, <2>3, <2>4, <2>5, <2>6, <2>7, <2>8, <2>9, <2>10, <2>11, <2>12
         DEF Next
<1>2. IInv /\ [Next]_vars => [\A c \in Sessions :
          life[c] \in {"EXPIRED", "UNAVAILABLE"} => life'[c] = life[c]]_vars
    BY <1>1
<1> QED
    BY InductiveInvariant, <1>2, PTL DEF Spec, EndedForever

=============================================================================
