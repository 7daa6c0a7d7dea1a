----------------------------- MODULE StorageRead -----------------------------
(***************************************************************************)
(* Read sessions of the Storage Read service: admission against a session  *)
(* limit and a byte budget, materialization outside the service lock,      *)
(* reads that hold the session's lock, the sweeper of expired sessions,    *)
(* Close, and the durable lifecycle ledger across crashes and restarts.    *)
(*                                                                         *)
(* A session is identified with the one CreateReadSession call that makes  *)
(* it, because session IDs are fresh.  Time is the set of sessions whose   *)
(* ExpireTime has passed.  What a snapshot holds is its size.              *)
(***************************************************************************)
EXTENDS Integers, FiniteSets, FiniteSetsExt

CONSTANTS
    Sessions,               \* the CreateReadSession calls
    Readers,                \* concurrent ReadRows calls
    MaxSessions,            \* storage.read.maxSessions
    MaxSnapshotBytes,       \* what a reservation charges
    MaxTotalSnapshotBytes,  \* the byte budget of all sessions
    None                    \* no session

ASSUME LimitsAssumption ==    \* validateConfig
    /\ MaxSessions \in Nat \ {0} /\ MaxSnapshotBytes \in Nat \ {0}
    /\ MaxTotalSnapshotBytes \in Nat
    /\ MaxSnapshotBytes <= MaxTotalSnapshotBytes
ASSUME NoneAssumption == None \notin Sessions

VARIABLES
    \* Service and its sessionStates
    sessions,      \* Service.sessions, and with it Service.streams
    reservations,  \* Service.reservations
    retained,      \* Service.retainedSnapshotBytes
    bytes,         \* bytes[c]: sessionState.retainedBytes
    snap,          \* snap[c]: the snapshot behind the session
    \* the goroutines
    create,        \* create[c]: how far CreateReadSession has come
    reading,       \* reading[r]: the session whose lock ReadRows holds
    work,          \* work[p]: the sessions the sweeper or Close has taken out
                   \* of the service and not closed yet
    current,       \* current[p]: the one it is closing: it waits for its lock
                   \* while the snapshot is open, then discharges it
    releasing,     \* the reservations Close still has to give back
    process,       \* "up", "closing", "closed", "down"
    \* durable, and the clock
    life,          \* life[c]: bqemu_read_sessions.lifecycle_state
    stale          \* the sessions whose ExpireTime has passed

vars == <<sessions, reservations, retained, bytes, snap, create, reading,
          work, current, releasing, process, life, stale>>

Janitors == {"sweep", "close"}

Init ==
    /\ sessions = {} /\ reservations = {} /\ retained = 0
    /\ bytes = [c \in Sessions |-> 0]
    /\ snap = [c \in Sessions |-> "none"]
    /\ create = [c \in Sessions |-> "new"]
    /\ reading = [r \in Readers |-> None]
    /\ work = [p \in Janitors |-> {}]
    /\ current = [p \in Janitors |-> None]
    /\ releasing = {} /\ process = "up"
    /\ life = [c \in Sessions |-> "none"]
    /\ stale = {}

-----------------------------------------------------------------------------
(* CreateReadSession                                                       *)

\* Mutant: the reservations in flight are not counted.
AdmissibleIgnoringReservations ==
    /\ process = "up" /\ Cardinality(sessions) < MaxSessions
    /\ MaxSnapshotBytes <= MaxTotalSnapshotBytes - retained

\* Mutant: the byte budget is not consulted.
AdmissibleIgnoringBytes ==
    /\ process = "up"
    /\ Cardinality(sessions) + Cardinality(reservations) < MaxSessions

Admissible ==
    /\ process = "up"
    /\ Cardinality(sessions) + Cardinality(reservations) < MaxSessions
    /\ MaxSnapshotBytes <= MaxTotalSnapshotBytes - retained

Reserve(c) ==
    /\ create[c] = "new" /\ Admissible
    /\ create' = [create EXCEPT ![c] = "materializing"]
    /\ reservations' = reservations \cup {c}
    /\ retained' = retained + MaxSnapshotBytes
    /\ UNCHANGED <<sessions, bytes, snap, reading, work, current, releasing,
                   process, life, stale>>

\* Mutant: a reservation that Close has given back is given back again.
ReleaseAlways(c) ==
    /\ retained' = IF MaxSnapshotBytes > retained
                      THEN 0 ELSE retained - MaxSnapshotBytes
    /\ reservations' = reservations \ {c}

\* releaseReservation: by the creator, or by Close; whoever comes first.
Release(c) ==
    /\ retained' = IF c \notin reservations THEN retained
                   ELSE IF MaxSnapshotBytes > retained THEN 0
                   ELSE retained - MaxSnapshotBytes
    /\ reservations' = reservations \ {c}

\* The materializer fails (Close cancels it, too), or it returns a snapshot
\* that is refused and closed at once.
MaterializeFails(c) ==
    /\ create[c] = "materializing"
    /\ \E s \in {"none", "closed", "leaked"} : snap' = [snap EXCEPT ![c] = s]
    /\ create' = [create EXCEPT ![c] = "failed"]
    /\ Release(c)
    /\ UNCHANGED <<sessions, bytes, reading, work, current, releasing,
                   process, life, stale>>

\* Mutant: the size of the snapshot is not compared with the limit.
MaterializeUnchecked(c) ==
    /\ create[c] = "materializing"
    /\ \E n \in 0..MaxSnapshotBytes + 1 : bytes' = [bytes EXCEPT ![c] = n]
    /\ snap' = [snap EXCEPT ![c] = "open"]
    /\ create' = [create EXCEPT ![c] = "materialized"]
    /\ UNCHANGED <<sessions, reservations, retained, reading, work, current,
                   releasing, process, life, stale>>

Materialize(c) ==
    /\ create[c] = "materializing"
    /\ \E n \in 0..MaxSnapshotBytes : bytes' = [bytes EXCEPT ![c] = n]
    /\ snap' = [snap EXCEPT ![c] = "open"]
    /\ create' = [create EXCEPT ![c] = "materialized"]
    /\ UNCHANGED <<sessions, reservations, retained, reading, work, current,
                   releasing, process, life, stale>>

Committable(c) ==
    /\ create[c] = "materialized" /\ c \in reservations /\ process = "up"
    /\ bytes[c] <= MaxSnapshotBytes /\ c \notin sessions

Commit(c) ==
    /\ Committable(c)
    /\ life' = [life EXCEPT ![c] = "ACTIVE"]
    /\ retained' = retained - MaxSnapshotBytes + bytes[c]
    /\ reservations' = reservations \ {c}
    /\ sessions' = sessions \cup {c}
    /\ create' = [create EXCEPT ![c] = "created"]
    /\ UNCHANGED <<bytes, snap, reading, work, current, releasing, process,
                   stale>>

\* The reservation is gone, the service is closed, or CreateSession of the
\* ledger fails: the snapshot is closed, the reservation given back after it.
CommitRejected(c) ==
    /\ create[c] = "materialized"
    /\ \E s \in {"closed", "leaked"} : snap' = [snap EXCEPT ![c] = s]
    /\ create' = [create EXCEPT ![c] = "rejected"]
    /\ UNCHANGED <<sessions, reservations, retained, bytes, reading, work,
                   current, releasing, process, life, stale>>

ReleaseRejected(c) ==
    /\ create[c] = "rejected"
    /\ create' = [create EXCEPT ![c] = "failed"]
    /\ bytes' = [bytes EXCEPT ![c] = 0]    \* its sessionState is garbage
    /\ Release(c)
    /\ UNCHANGED <<sessions, snap, reading, work, current, releasing,
                   process, life, stale>>

-----------------------------------------------------------------------------
(* ReadRows                                                                *)

\* What ReadRows answers for a stream of c: rows, or the status of its error.
Answer(c) ==
    IF c \in sessions
       THEN IF c \in stale THEN "NOT_FOUND" ELSE "ROWS"
       ELSE IF life[c] \in {"ACTIVE", "UNAVAILABLE"}
               THEN "UNAVAILABLE" ELSE "NOT_FOUND"

\* The lookup takes the session's lock before it gives up the service's.
ReadBegin(r, c) ==
    /\ reading[r] = None /\ Answer(c) = "ROWS"
    /\ reading' = [reading EXCEPT ![r] = c]
    /\ UNCHANGED <<sessions, reservations, retained, bytes, snap, create,
                   work, current, releasing, process, life, stale>>

\* The last batch is sent, or the iterator or the client fails.
ReadEnd(r) ==
    /\ reading[r] # None
    /\ reading' = [reading EXCEPT ![r] = None]
    /\ UNCHANGED <<sessions, reservations, retained, bytes, snap, create,
                   work, current, releasing, process, life, stale>>

-----------------------------------------------------------------------------
(* SweepExpired and Close                                                  *)

\* TransitionSessions, one transaction: a session that is neither ACTIVE nor
\* in the new state already is a conflict, and none of them changes.
Transitionable(set, to) == \A c \in set : life[c] \in {"ACTIVE", to}

Transitioned(set, to) ==
    [c \in Sessions |->
       IF c \in set /\ life[c] = "ACTIVE" THEN to ELSE life[c]]

Expire(c) ==    \* the clock passes session.ExpireTime
    /\ life[c] # "none" /\ c \notin stale
    /\ stale' = stale \cup {c}
    /\ UNCHANGED <<sessions, reservations, retained, bytes, snap, create,
                   reading, work, current, releasing, process, life>>

\* Mutant: the snapshots of the swept sessions are not closed.
SweepExpiredForgetting ==
    /\ process = "up" /\ work["sweep"] = {} /\ current["sweep"] = None
    /\ sessions \cap stale # {}
    /\ Transitionable(sessions \cap stale, "EXPIRED")
    /\ life' = Transitioned(sessions \cap stale, "EXPIRED")
    /\ sessions' = sessions \ stale
    /\ UNCHANGED <<reservations, retained, bytes, snap, create, reading, work,
                   current, releasing, process, stale>>

\* A failed or refused transition of the ledger leaves everything as it was.
SweepExpired ==
    /\ process = "up" /\ work["sweep"] = {} /\ current["sweep"] = None
    /\ sessions \cap stale # {}
    /\ Transitionable(sessions \cap stale, "EXPIRED")
    /\ life' = Transitioned(sessions \cap stale, "EXPIRED")
    /\ sessions' = sessions \ stale
    /\ work' = [work EXCEPT !["sweep"] = sessions \cap stale]
    /\ UNCHANGED <<reservations, retained, bytes, snap, create, reading,
                   current, releasing, process, stale>>

\* The ledger's transition may fail; the sessions are dropped all the same.
Close ==
    /\ process = "up"
    /\ process' = "closing"
    /\ \/ UNCHANGED life
       \/ /\ Transitionable(sessions, "UNAVAILABLE")
          /\ life' = Transitioned(sessions, "UNAVAILABLE")
    /\ sessions' = {}
    /\ work' = [work EXCEPT !["close"] = sessions]
    /\ releasing' = reservations
    /\ UNCHANGED <<reservations, retained, bytes, snap, create, reading,
                   current, stale>>

CloseReleases(c) ==
    /\ c \in releasing
    /\ releasing' = releasing \ {c}
    /\ Release(c)
    /\ UNCHANGED <<sessions, bytes, snap, create, reading, work, current,
                   process, life, stale>>

\* Mutant: closeSnapshots does not take the session's lock.
QuiescentAlways(c) == TRUE

Quiescent(c) == \A r \in Readers : reading[r] # c

\* closeSnapshots takes the sessions one by one, in the order of the map
\* iteration that collected them, ...
NextSnapshot(p, c) ==
    /\ c \in work[p] /\ current[p] = None
    /\ p = "close" => releasing = {}
    /\ work' = [work EXCEPT ![p] = @ \ {c}]
    /\ current' = [current EXCEPT ![p] = c]
    /\ UNCHANGED <<sessions, reservations, retained, bytes, snap, create,
                   reading, releasing, process, life, stale>>

\* ... waits for the lock of that one, even if others are free, closes ...
CloseSnapshot(p) ==
    /\ current[p] # None /\ snap[current[p]] = "open"
    /\ Quiescent(current[p])
    /\ \E s \in {"closed", "leaked"} :
          snap' = [snap EXCEPT ![current[p]] = s]
    /\ UNCHANGED <<sessions, reservations, retained, bytes, create, reading,
                   work, current, releasing, process, life, stale>>

\* ... and, under the service's lock again, returns its charge.
ReleaseSnapshotBudget(p) ==
    /\ current[p] # None /\ snap[current[p]] # "open"
    /\ retained' = IF bytes[current[p]] > retained
                      THEN 0 ELSE retained - bytes[current[p]]
    /\ bytes' = [bytes EXCEPT ![current[p]] = 0]
    /\ current' = [current EXCEPT ![p] = None]
    /\ UNCHANGED <<sessions, reservations, snap, create, reading, work,
                   releasing, process, life, stale>>

\* Close has waited for the creators, or for the end of its context.
CloseReturns ==
    /\ process = "closing" /\ releasing = {}
    /\ work["close"] = {} /\ current["close"] = None
    /\ process' = "closed"
    /\ UNCHANGED <<sessions, reservations, retained, bytes, snap, create,
                   reading, work, current, releasing, life, stale>>

-----------------------------------------------------------------------------
(* The process ends, after Close or without it, and is started again.      *)

Gone(c) == IF snap[c] = "open" THEN "closed" ELSE snap[c]
Broken(c) ==
    IF create[c] \in {"materializing", "materialized", "rejected"}
       THEN "failed" ELSE create[c]

Exit ==
    /\ process # "down"
    /\ process' = "down"
    /\ sessions' = {} /\ reservations' = {} /\ retained' = 0
    /\ bytes' = [c \in Sessions |-> 0]
    /\ snap' = [c \in Sessions |-> Gone(c)]
    /\ create' = [c \in Sessions |-> Broken(c)]
    /\ reading' = [r \in Readers |-> None]
    /\ work' = [p \in Janitors |-> {}]
    /\ current' = [p \in Janitors |-> None]
    /\ releasing' = {}
    /\ UNCHANGED <<life, stale>>

\* Mutant: only the sessions that have expired are reconciled.
ReconciledExpiredOnly(c) ==
    IF life[c] = "ACTIVE" /\ c \in stale THEN "EXPIRED" ELSE life[c]

\* Mutant: the update is not limited to the ACTIVE sessions.
ReconciledAll(c) ==
    IF life[c] = "none" THEN "none"
    ELSE IF c \in stale THEN "EXPIRED" ELSE "UNAVAILABLE"

Reconciled(c) ==
    IF life[c] # "ACTIVE" THEN life[c]
    ELSE IF c \in stale THEN "EXPIRED" ELSE "UNAVAILABLE"

\* Mutant: the sessions of the ledger are served again, without snapshots.
RestartServing ==
    /\ process = "down"
    /\ process' = "up"
    /\ sessions' = {c \in Sessions : life[c] = "ACTIVE"}
    /\ UNCHANGED <<reservations, retained, bytes, snap, create, reading, work,
                   current, releasing, life, stale>>

\* ReconcilePersistedSessions, before the first request is admitted.
Restart ==
    /\ process = "down"
    /\ process' = "up"
    /\ life' = [c \in Sessions |-> Reconciled(c)]
    /\ UNCHANGED <<sessions, reservations, retained, bytes, snap, create,
                   reading, work, current, releasing, stale>>

-----------------------------------------------------------------------------
CreateSession(c) ==
    \/ Reserve(c) \/ MaterializeFails(c) \/ Materialize(c)
    \/ Commit(c) \/ CommitRejected(c) \/ ReleaseRejected(c)

Janitor(p) ==
    \/ \E c \in Sessions : NextSnapshot(p, c)
    \/ CloseSnapshot(p)
    \/ ReleaseSnapshotBudget(p)

Next ==
    \/ \E c \in Sessions : CreateSession(c)
    \/ \E c \in Sessions : Expire(c)
    \/ \E c \in Sessions : CloseReleases(c)
    \/ \E r \in Readers, c \in Sessions : ReadBegin(r, c)
    \/ \E r \in Readers : ReadEnd(r)
    \/ SweepExpired \/ Close \/ CloseReturns
    \/ \E p \in Janitors : Janitor(p)
    \/ Exit \/ Restart

Spec == Init /\ [][Next]_vars

\* The cleanup goroutine keeps sweeping, and its ledger update does not fail
\* for ever; a janitor goes on when the session's lock is free; Close runs to
\* its end; a ReadRows call ends, because its client drains it or goes away.
FairSpec ==
    /\ Spec
    /\ WF_vars(SweepExpired) /\ WF_vars(CloseReturns)
    /\ \A c \in Sessions : WF_vars(CloseReleases(c))
    /\ \A p \in Janitors : WF_vars(Janitor(p))
    /\ \A r \in Readers : WF_vars(ReadEnd(r))

-----------------------------------------------------------------------------
(* Properties                                                              *)

Charged == sessions \cup UNION {work[p] : p \in Janitors}
           \cup ({current[p] : p \in Janitors} \ {None})

\* Every variable keeps its type.
TypeOK ==
    /\ sessions \cup reservations \cup releasing \cup stale \subseteq Sessions
    /\ retained \in Int
    /\ bytes \in [Sessions -> 0..MaxSnapshotBytes]
    /\ snap \in [Sessions -> {"none", "open", "closed", "leaked"}]
    /\ create \in [Sessions -> {"new", "materializing", "materialized",
                                "rejected", "created", "failed"}]
    /\ reading \in [Readers -> Sessions \cup {None}]
    /\ work \in [Janitors -> SUBSET Sessions]
    /\ current \in [Janitors -> Sessions \cup {None}]
    /\ process \in {"up", "closing", "closed", "down"}
    /\ life \in [Sessions -> {"none", "ACTIVE", "EXPIRED", "UNAVAILABLE"}]

\* The budget is exact: retainedSnapshotBytes is the reservations at their full
\* size plus the snapshots of the sessions that are served or being closed.  No
\* failure, rejection, sweep or Close loses a charge or returns one twice, and
\* the underflow branches of the two release functions are never taken.
BudgetExact ==
    retained = MaxSnapshotBytes * Cardinality(reservations)
               + MapThenSumSet(LAMBDA c : bytes[c], Charged)

\* The snapshots that were accepted and are not closed yet never hold more than
\* the budget, although Close gives reservations back while their creators
\* still run (admission.go).
BytesBounded ==
    MapThenSumSet(LAMBDA c : bytes[c], {c \in Sessions : snap[c] = "open"})
        <= MaxTotalSnapshotBytes

\* Concurrent creators, each between its admission and its commit, never take
\* the service past storage.read.maxSessions (reserveSession).
SessionsBounded ==
    Cardinality(sessions) + Cardinality(reservations) <= MaxSessions

\* ReadRows never reads a snapshot that the sweeper or Close has closed: the
\* session's lock is taken under the service's, and closing takes it in turn.
ReadsOpenSnapshots ==
    \A r \in Readers : reading[r] # None => snap[reading[r]] = "open"

\* While the service is open the ledger's ACTIVE sessions are exactly those it
\* serves, each with an open snapshot; one left ACTIVE by a crash or by a Close
\* whose transition failed is ended before the next request is admitted.
LedgerServed ==
    process = "up" =>
        /\ {c \in Sessions : life[c] = "ACTIVE"} = sessions
        /\ \A c \in sessions : snap[c] = "open"

\* A stream that has once been refused is never readable again, whatever
\* sweeps, failures and restarts follow (ReadRows, persistedStreamError).
RefusedForever ==
    [][\A c \in Sessions : create[c] = "created" /\ Answer(c) # "ROWS"
          => Answer(c)' # "ROWS"]_vars

\* The ledger ends a session once: EXPIRED and UNAVAILABLE are final, also for
\* a session that expires after it became UNAVAILABLE and is met again by
\* ReconcileActive or by a late sweep.
EndedForever ==
    [][\A c \in Sessions : life[c] \in {"EXPIRED", "UNAVAILABLE"}
          => life'[c] = life[c]]_vars

\* closeSnapshots reaches every expired session: its snapshot is eventually
\* closed, or given up where its Close failed, and its charge returned, so
\* that expired sessions do not exhaust the budget for ever.
ExpiredReclaimed ==
    \A c \in Sessions :
        c \in stale ~> snap[c] # "open" /\ c \notin Charged

=============================================================================
