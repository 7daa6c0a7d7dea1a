----------------------------- MODULE WriteLocks -----------------------------
(***************************************************************************)
(* The mutex discipline of the Storage Write service.  A call of the       *)
(* service is the sequence of mutex operations it performs; what it does   *)
(* in between (ledger, coordinator) always returns, because every one of   *)
(* those calls carries a deadline, whereas a mutex operation waits for as  *)
(* long as the holder pleases.                                             *)
(*                                                                         *)
(*   Service  Service.mu, a sync.RWMutex: a writer that asks shuts new     *)
(*            readers out, and its Unlock lets the parked readers in       *)
(*            before the next writer;                                      *)
(*   streams  streamState.mu, one sync.Mutex for each stream;              *)
(*   Gate     Service.cleanupGate, a channel with one token; the only wait *)
(*            of the three that ends when the caller's context does.       *)
(*                                                                         *)
(* Streams are positive integers, ordered as their names are.              *)
(***************************************************************************)
EXTENDS Integers, Sequences, FiniteSets, SequencesExt

CONSTANTS
    Streams,      \* the keys of Service.streams
    Writers,      \* clients that append, finalize, look up or create
    Committers,   \* clients that call BatchCommitWriteStreams
    Request,      \* Request[c]: the streams of c's request, in its order
    Cleaner,      \* the goroutine of RunCleanup: a set of at most one element
    Closer,       \* the goroutine that calls Close: at most one element
    None          \* no process

Service == 0
Gate == -1
Procs == Writers \cup Committers \cup Cleaner \cup Closer

ASSUME StreamsOrdered == Streams \subseteq Nat \ {0}
ASSUME ProcsDisjoint ==
    /\ Cardinality(Procs) = Cardinality(Writers) + Cardinality(Committers)
                            + Cardinality(Cleaner) + Cardinality(Closer)
    /\ None \notin Procs
    /\ Cardinality(Cleaner) <= 1 /\ Cardinality(Closer) <= 1
ASSUME RequestType ==    \* a repeated stream ends the call before any lock
    \A c \in Committers : /\ Request[c] \in Seq(Streams) \ {<<>>}
                          /\ IsInjective(Request[c])

VARIABLES
    todo,      \* todo[p]: the mutex operations left of p's call
    owner,     \* owner[s]: the holder of the stream's mutex
    writer,    \* the holder of the RWMutex's inner mutex (rw.w): it has
               \* announced itself and holds the lock once readers = {}
    readers,   \* the processes that hold the lock for reading
    parked,    \* the readers that wait for the writer's Unlock
    gate,      \* the holder of the cleanup token
    closed     \* the goroutine that calls Close has done so

vars == <<todo, owner, writer, readers, parked, gate, closed>>

-----------------------------------------------------------------------------
(* The calls.  An operation is <<name, lock>>.                             *)

Reading == <<<<"RLock", Service>>, <<"RUnlock", Service>>>>
Writing == <<<<"Lock", Service>>, <<"Unlock", Service>>>>
Holding(s) == <<<<"Lock", s>>, <<"Unlock", s>>>>

\* CreateWriteStream: ensureStateReconciled, admissionError, the insertion.
\* Each prefix that leaves no lock behind is an early return.
CreateCalls == {Reading, Reading \o Reading, Reading \o Reading \o Writing}

\* GetWriteStream, AppendRows, FinalizeWriteStream: ensureStateReconciled,
\* then lookup or lookupOrCreateDefault, then the work under the stream's lock.
StreamCalls(s) ==
    {Reading, Reading \o Reading, Reading \o Reading \o Writing,
     Reading \o Reading \o Holding(s),
     Reading \o Reading \o Writing \o Holding(s)}

\* Mutant: the streams are locked in the order of the request.
LockOrderOfRequest(c) == Request[c]

LockOrder(c) == SetToSortSeq(ToSet(Request[c]), LAMBDA s, t : s < t)

Acquire(order) == [i \in DOMAIN order |-> <<"Lock", order[i]>>]

\* Mutant: the deferred loop stops before the first stream (index > 0).
ReleaseAllButFirst(order) ==
    [i \in 1..Len(order) - 1 |-> <<"Unlock", order[Len(order) + 1 - i]>>]

Release(order) ==
    [i \in DOMAIN order |-> <<"Unlock", order[Len(order) + 1 - i]>>]

\* BatchCommitWriteStreams.  A name that is refused is not looked up, and the
\* call ends after the others.  With the streams locked: nothing more when a
\* stream is unfit or the ledger refuses; a retry reads the group, a fresh
\* commit stores it; the outcome stores the group once more, unless it is
\* ambiguous for the second time or the ledger refuses it.
CommitCalls(c) ==
    LET lookups == [i \in 1..2 * Len(Request[c]) |->
                       Reading[IF i % 2 = 1 THEN 1 ELSE 2]]
        order   == LockOrder(c)
    IN  {Reading \o SubSeq(lookups, 1, 2 * k) : k \in 0..Len(Request[c])} \cup
        {Reading \o lookups \o Acquire(order) \o work \o Release(order) :
            work \in {<<>>, Reading, Writing,
                      Reading \o Writing, Writing \o Writing}}

\* SweepOrphans reads every stream under both locks, in the order of a map
\* iteration; marks each orphan under its own lock; and after the discard, if
\* it succeeds, forgets the orphan under both.
Visit(order) ==
    <<<<"Lock", Service>>>> \o
    FlattenSeq([i \in DOMAIN order |-> Holding(order[i])]) \o
    <<<<"Unlock", Service>>>>

\* Mutant: a failed UpdateStream returns without unlocking the stream.
MarkForgetting(s) == {<<<<"Lock", s>>>>, Holding(s) \o Visit(<<s>>)}

Mark(s) == {Holding(s), Holding(s) \o Visit(<<s>>)}

Dispose(orphans) ==
    {FlattenSeq(f) : f \in {g \in [DOMAIN orphans ->
                                     UNION {Mark(s) : s \in ToSet(orphans)}] :
                               \A i \in DOMAIN orphans :
                                  g[i] \in Mark(orphans[i])}}

\* A context that ends at the gate or right behind it ends the sweep.
SweepCalls ==
    {Reading \o <<<<"Take", Gate>>>> \o body \o <<<<"Give", Gate>>>> :
        body \in {<<>>} \cup
            {Visit(order) \o work :
                order \in SetToSeqs(Streams),
                work \in UNION {Dispose(SetToSortSeq(O, LAMBDA s, t : s < t)) :
                                    O \in SUBSET Streams}}}

\* Close marks every stream idle under both locks, then sweeps.
CloseCalls ==
    {Reading \o Visit(order) \o sweep :
        order \in SetToSeqs(Streams), sweep \in SweepCalls}

Calls(p) ==
    CASE p \in Writers    -> CreateCalls \cup
                             UNION {StreamCalls(s) : s \in Streams}
      [] p \in Committers -> CommitCalls(p)
      [] p \in Cleaner    -> SweepCalls
      [] p \in Closer     -> CloseCalls

-----------------------------------------------------------------------------
Init ==
    /\ todo = [p \in Procs |-> <<>>]
    /\ owner = [s \in Streams |-> None]
    /\ writer = None
    /\ readers = {} /\ parked = {}
    /\ gate = None /\ closed = FALSE

Start(p) ==
    /\ todo[p] = <<>>
    /\ p \in Closer => ~closed
    /\ \E call \in Calls(p) : todo' = [todo EXCEPT ![p] = call]
    /\ closed' = (closed \/ p \in Closer)
    /\ UNCHANGED <<owner, writer, readers, parked, gate>>

At(p, op, lock) == todo[p] # <<>> /\ Head(todo[p]) = <<op, lock>>
Advance(p) == todo' = [todo EXCEPT ![p] = Tail(@)]

\* sync.Mutex
LockStream(p, s) ==
    /\ At(p, "Lock", s) /\ owner[s] = None
    /\ owner' = [owner EXCEPT ![s] = p]
    /\ Advance(p)
    /\ UNCHANGED <<writer, readers, parked, gate, closed>>

UnlockStream(p, s) ==
    /\ At(p, "Unlock", s)
    /\ owner' = [owner EXCEPT ![s] = None]
    /\ Advance(p)
    /\ UNCHANGED <<writer, readers, parked, gate, closed>>

\* sync.RWMutex: RLock parks behind an announced writer.
RLock(p) ==
    /\ At(p, "RLock", Service)
    /\ IF writer = None
          THEN readers' = readers \cup {p} /\ UNCHANGED parked
          ELSE parked' = parked \cup {p} /\ UNCHANGED readers
    /\ Advance(p)
    /\ UNCHANGED <<owner, writer, gate, closed>>

RUnlock(p) ==
    /\ At(p, "RUnlock", Service) /\ p \in readers
    /\ readers' = readers \ {p}
    /\ Advance(p)
    /\ UNCHANGED <<owner, writer, parked, gate, closed>>

Announce(p) ==
    /\ At(p, "Lock", Service) /\ writer = None
    /\ writer' = p
    /\ UNCHANGED <<todo, owner, readers, parked, gate, closed>>

Enter(p) ==
    /\ At(p, "Lock", Service) /\ writer = p /\ readers = {}
    /\ Advance(p)
    /\ UNCHANGED <<owner, writer, readers, parked, gate, closed>>

Unlock(p) ==
    /\ At(p, "Unlock", Service)
    /\ writer' = None
    /\ readers' = parked /\ parked' = {}
    /\ Advance(p)
    /\ UNCHANGED <<owner, gate, closed>>

\* The token of cleanupGate, or the end of the caller's context.
TakeGate(p) ==
    /\ At(p, "Take", Gate) /\ gate = None
    /\ gate' = p
    /\ Advance(p)
    /\ UNCHANGED <<owner, writer, readers, parked, closed>>

DeadlineAtGate(p) ==
    /\ At(p, "Take", Gate)
    /\ todo' = [todo EXCEPT ![p] = <<>>]
    /\ UNCHANGED <<owner, writer, readers, parked, gate, closed>>

GiveGate(p) ==
    /\ At(p, "Give", Gate)
    /\ gate' = None
    /\ Advance(p)
    /\ UNCHANGED <<owner, writer, readers, parked, closed>>

Operate(p) ==
    \/ \E s \in Streams : LockStream(p, s)
    \/ \E s \in Streams : UnlockStream(p, s)
    \/ RLock(p) \/ RUnlock(p)
    \/ Announce(p) \/ Enter(p) \/ Unlock(p)
    \/ TakeGate(p) \/ GiveGate(p)
    \/ DeadlineAtGate(p)

Next == \E p \in Procs : Start(p) \/ Operate(p)

Spec == Init /\ [][Next]_vars

\* A goroutine that can go on does; one that is overtaken at a mutex again and
\* again gets it in the end (sync.Mutex hands over to a waiter that starves).
\* No caller is obliged to call.
FairSpec == Spec /\ \A p \in Procs : SF_vars(Operate(p))

-----------------------------------------------------------------------------
(* Who waits for whom.                                                     *)

Blocks(q, p) ==
    \/ \E s \in Streams : At(p, "Lock", s) /\ owner[s] = q
    \/ At(p, "Lock", Service) /\ writer # p /\ writer = q
    \/ At(p, "Lock", Service) /\ writer = p /\ q \in readers
    \/ p \in parked /\ writer = q

\* Each process of C waits for another of C, for ever.
Circle(C) == C # {} /\ \A p \in C : \E q \in C : Blocks(q, p)

Idle(p) == todo[p] = <<>>

\* Whatever way a call returns (an early return, a failed ledger update, a
\* failed discard, the end of the context at the gate), it has released every
\* lock and the cleanup token: the deferred and the explicit unlocks of
\* BatchCommit, SweepOrphans and Close match their locks on every path.
ReturnsReleased ==
    \A p \in Procs : Idle(p) =>
        /\ p \notin readers \cup parked \cup {writer, gate}
        /\ \A s \in Streams : owner[s] # p

\* Commits that overlap in their streams never wait for each other in a
\* circle: BatchCommit sorts the streams before it locks them.  A circle of
\* waits always holds a commit that asks for the service lock while it keeps
\* its streams, and a sweep or a Close that keeps the service lock.
CirclesAreInversions ==
    \A C \in SUBSET Procs : Circle(C) =>
        /\ writer \in C \cap (Cleaner \cup Closer)
        /\ \E c \in C \cap Committers, s \in Streams : owner[s] = c

\* Every call that was made returns, unless the service comes to a circle of
\* waits: no unlock is missed on any path, and neither a reader nor an
\* announced writer starves (service.go, lifecycle.go).
CallsReturn ==
    \A p \in Procs :
        ~Idle(p) ~> (Idle(p) \/ \E C \in SUBSET Procs : Circle(C))

\* docs/en/operations.md: the close budget "bounds Read snapshot cleanup,
\* Write orphan cleanup, and coordinator close": a sweep and Close return.
CleanupReturns == \A p \in Cleaner \cup Closer : ~Idle(p) ~> Idle(p)

=============================================================================
