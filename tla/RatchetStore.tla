--------------------------- MODULE RatchetStore ----------------------------
(***************************************************************************)
(* InMemoryRatchetStore (src/store.ts) and the calls made to it by         *)
(* sendDirectMessage and scanForMessages (src/client.ts).                  *)
(*                                                                         *)
(* JavaScript runs one microtask at a time, in the order in which they     *)
(* were queued, and every `await' ends a microtask.  `ready' is that       *)
(* queue.  An action is what one microtask does up to its next await.  All *)
(* the store's promises are already resolved when they are awaited (or are *)
(* resolved by a release), so an await costs exactly one turn of the       *)
(* queue.  A new call may come in between any two microtasks.              *)
(*                                                                         *)
(* sendDirectMessage calls update, which locks, but encrypts and saves the *)
(* advanced state after update has returned and released the lock: whether *)
(* that is safe depends on the order of the queue, and is what this module *)
(* is about.                                                               *)
(***************************************************************************)
EXTENDS Naturals, Sequences, FiniteSets

CONSTANTS
    Peer,           \* keys of the store
    Sender,         \* calls of sendDirectMessage
    Receiver,       \* events being processed by scanForMessages
    Optimist,       \* calls of optimisticUpdate
    PeerOf,         \* PeerOf[c]: the peer that call c is about
    maxRetries,     \* default 3
    None            \* undefined: no state in the store, no lock, no index

Caller == Sender \union Receiver \union Optimist

\* No peer's state is updated both under its lock and optimistically.
ASSUME StoreAssumption ==
    /\ IsFiniteSet(Caller)
    /\ Sender \intersect Receiver = {}
    /\ PeerOf \in [Caller -> Peer]
    /\ \A o \in Optimist, c \in Sender \union Receiver : PeerOf[o] # PeerOf[c]
    /\ maxRetries \in Nat \ {0}
    /\ None \notin Caller
    /\ None \notin [sent : Nat, recv : Nat, version : Nat]
    /\ None \notin [sent : Nat, recv : Nat]

VARIABLES
    store,          \* store[p]: the Map entry, or None
    locks,          \* locks[p]: the call whose lock promise is in the Map, or None
    waiting,        \* waiting[p]: calls awaiting that promise, first come first
    ready,          \* the microtask queue: calls whose continuation is due
    pc,             \* pc[c]: where call c stands
    local,          \* local[c]: the state c holds in a local variable
    attempt,        \* attempt[c]: optimisticUpdate's loop counter
    header          \* header[c]: the msgIndex c encrypted under, or None

lockVars == <<locks, waiting>>
callVars == <<local, attempt, header>>
vars == <<store, lockVars, ready, pc, callVars>>

State == [sent : 0..Cardinality(Caller), recv : 0..Cardinality(Caller),
          version : 0..(2 * Cardinality(Caller))]

Place == {"idle", "waiting", "woken", "locked", "loaded", "saved", "returned",
          "read", "backoff", "done", "failed"}

\* Continuations in the queue are of distinct calls: a call waits for one
\* thing at a time.
TypeOK ==
    /\ store \in [Peer -> State \union {None}]
    /\ locks \in [Peer -> Caller \union {None}]
    /\ waiting \in [Peer -> Seq(Caller)]
    /\ ready \in Seq(Caller)
    /\ \A i, j \in 1..Len(ready) : ready[i] = ready[j] => i = j
    /\ pc \in [Caller -> Place]
    /\ local \in [Caller -> State \union {None}]
    /\ attempt \in [Caller -> 0..maxRetries]
    /\ header \in [Caller -> 0..Cardinality(Caller) \union {None}]

Init ==
    /\ store = [p \in Peer |-> None]
    /\ locks = [p \in Peer |-> None]
    /\ waiting = [p \in Peer |-> <<>>]
    /\ ready = <<>>
    /\ pc = [c \in Caller |-> "idle"]
    /\ local = [c \in Caller |-> None]
    /\ attempt = [c \in Caller |-> 0]
    /\ header = [c \in Caller |-> None]

-----------------------------------------------------------------------------

\* initRatchet, as far as the counts go
NewState == [sent |-> 0, recv |-> 0, version |-> 0]

OrNew(state) == IF state = None THEN NewState ELSE state

VersionOf(state) == IF state = None THEN 0 ELSE state.version

\* The state `save' puts in the Map, whatever version the caller's copy has.
Saved(p, state) == [state EXCEPT !.version = VersionOf(store[p]) + 1]

\* c's continuation is the next microtask and c stands at `place'.
Running(c, place) ==
    /\ ready # <<>>
    /\ Head(ready) = c
    /\ pc[c] = place

GoTo(c, place) == pc' = [pc EXCEPT ![c] = place]

-----------------------------------------------------------------------------
(* lock                                                                    *)

\* The Map has no lock: put ours there.  lock() then returns to its caller,
\* one microtask later.
Acquire(c, queue) ==
    /\ locks[PeerOf[c]] = None
    /\ locks' = [locks EXCEPT ![PeerOf[c]] = c]
    /\ GoTo(c, "locked")
    /\ ready' = Append(queue, c)
    /\ UNCHANGED waiting

\* Await the promise of the lock that is there.
Await(c, queue) ==
    /\ locks[PeerOf[c]] # None
    /\ waiting' = [waiting EXCEPT ![PeerOf[c]] = Append(@, c)]
    /\ GoTo(c, "waiting")
    /\ ready' = queue
    /\ UNCHANGED locks

\* update or updateWithResult is called, at any time.
Call(c) ==
    /\ c \in Sender \union Receiver
    /\ pc[c] = "idle"
    /\ Acquire(c, ready) \/ Await(c, ready)
    /\ UNCHANGED <<store, callVars>>

\* Mutant: `if' for `while', so a woken call takes the lock unseen.
RelockUnseen(c) ==
    /\ Running(c, "woken")
    /\ locks' = [locks EXCEPT ![PeerOf[c]] = c]
    /\ GoTo(c, "locked")
    /\ ready' = Append(Tail(ready), c)
    /\ UNCHANGED <<waiting, store, callVars>>

\* The while loop of lock: a woken call looks again.
Relock(c) ==
    /\ Running(c, "woken")
    /\ Acquire(c, Tail(ready)) \/ Await(c, Tail(ready))
    /\ UNCHANGED <<store, callVars>>

\* Mutant: the promise keeps its waiters, so the next release wakes them again.
ReleaseKeepsWaiters(c, place, after) ==
    LET p == PeerOf[c]
    IN  /\ locks' = [locks EXCEPT ![p] = None]
        /\ ready' = Tail(ready) \o waiting[p] \o after
        /\ pc' = [d \in Caller |->
                      IF d = c THEN place
                      ELSE IF \E i \in 1..Len(waiting[p]) : waiting[p][i] = d THEN "woken"
                      ELSE pc[d]]
        /\ UNCHANGED waiting

\* The release function: delete the lock, then resolve its promise, which
\* queues every call that awaits it.  Last comes the continuation of whoever
\* awaits c's own call, if any.
Release(c, place, after) ==
    LET p == PeerOf[c]
    IN  /\ locks' = [locks EXCEPT ![p] = None]
        /\ waiting' = [waiting EXCEPT ![p] = <<>>]
        /\ ready' = Tail(ready) \o waiting[p] \o after
        /\ pc' = [d \in Caller |->
                      IF d = c THEN place
                      ELSE IF \E i \in 1..Len(waiting[p]) : waiting[p][i] = d THEN "woken"
                      ELSE pc[d]]

-----------------------------------------------------------------------------
(* update and updateWithResult                                             *)

Load(c) ==
    /\ Running(c, "locked")
    /\ local' = [local EXCEPT ![c] = store[PeerOf[c]]]
    /\ GoTo(c, "loaded")
    /\ ready' = Append(Tail(ready), c)
    /\ UNCHANGED <<store, lockVars, attempt, header>>

\* The updater runs on the state that was loaded, and its result is saved.
Save(c, state) ==
    /\ Running(c, "loaded")
    /\ store' = [store EXCEPT ![PeerOf[c]] = Saved(PeerOf[c], state)]
    /\ local' = [local EXCEPT ![c] = Saved(PeerOf[c], state)]
    /\ GoTo(c, "saved")
    /\ ready' = Append(Tail(ready), c)
    /\ UNCHANGED <<lockVars, attempt, header>>

\* sendDirectMessage's updater: existing ?? initRatchet(...)
SaveExisting(c) ==
    /\ c \in Sender
    /\ Save(c, OrNew(local[c]))

\* scanForMessages' updater: ratchetDecrypt succeeds ...
SaveDecrypted(c) ==
    /\ c \in Receiver
    /\ Save(c, [OrNew(local[c]) EXCEPT !.recv = @ + 1])

\* Mutant: no `finally', so the lock stays.
ThrowKeepsLock(c) ==
    /\ c \in Receiver
    /\ Running(c, "loaded")
    /\ GoTo(c, "failed")
    /\ ready' = Tail(ready)
    /\ UNCHANGED <<lockVars, store, callVars>>

\* ... or throws: nothing is saved, and `finally' releases the lock.
UpdaterThrows(c) ==
    /\ c \in Receiver
    /\ Running(c, "loaded")
    /\ Release(c, "failed", <<>>)
    /\ UNCHANGED <<store, callVars>>

\* `finally' releases the lock; the sender that awaits update goes on later.
Return(c) ==
    /\ Running(c, "saved")
    /\ \/ c \in Sender /\ Release(c, "returned", <<c>>)
       \/ c \in Receiver /\ Release(c, "done", <<>>)
    /\ UNCHANGED <<store, callVars>>

\* sendDirectMessage goes on with the state update gave it: ratchetEncrypt
\* takes the next index and `save' stores the advanced state, with no lock.
EncryptAndSave(c) ==
    /\ Running(c, "returned")
    /\ header' = [header EXCEPT ![c] = local[c].sent]
    /\ store' = [store EXCEPT ![PeerOf[c]] =
                     Saved(PeerOf[c], [local[c] EXCEPT !.sent = @ + 1])]
    /\ GoTo(c, "done")
    /\ ready' = Tail(ready)
    /\ UNCHANGED <<lockVars, local, attempt>>

-----------------------------------------------------------------------------
(* optimisticUpdate, which takes no lock                                   *)

\* One turn of the loop starts: load, then await.
OptimisticLoad(c, queue) ==
    /\ local' = [local EXCEPT ![c] = store[PeerOf[c]]]
    /\ GoTo(c, "read")
    /\ ready' = Append(queue, c)
    /\ UNCHANGED <<store, lockVars, attempt, header>>

CallOptimistic(c) ==
    /\ c \in Optimist
    /\ pc[c] = "idle"
    /\ OptimisticLoad(c, ready)

\* Mutant: the version is not compared.
SetWithoutCompare(c) ==
    /\ Running(c, "read")
    /\ store' = [store EXCEPT ![PeerOf[c]] =
                     [OrNew(local[c]) EXCEPT !.sent = @ + 1,
                                             !.version = VersionOf(local[c]) + 1]]
    /\ header' = [header EXCEPT ![c] = OrNew(local[c]).sent]
    /\ GoTo(c, "done")
    /\ ready' = Tail(ready)
    /\ UNCHANGED <<lockVars, local, attempt>>

\* No one changed the version since the load: store the updater's result.
CompareAndSet(c) ==
    /\ Running(c, "read")
    /\ VersionOf(store[PeerOf[c]]) = VersionOf(local[c])
    /\ store' = [store EXCEPT ![PeerOf[c]] =
                     [OrNew(local[c]) EXCEPT !.sent = @ + 1,
                                             !.version = VersionOf(local[c]) + 1]]
    /\ header' = [header EXCEPT ![c] = OrNew(local[c]).sent]
    /\ GoTo(c, "done")
    /\ ready' = Tail(ready)
    /\ UNCHANGED <<lockVars, local, attempt>>

\* Someone did: wait on a timer.
Mismatch(c) ==
    /\ Running(c, "read")
    /\ VersionOf(store[PeerOf[c]]) # VersionOf(local[c])
    /\ attempt' = [attempt EXCEPT ![c] = @ + 1]
    /\ GoTo(c, "backoff")
    /\ ready' = Tail(ready)
    /\ UNCHANGED <<store, lockVars, local, header>>

\* The timer fires: try again, or give up after maxRetries turns.
Timer(c) ==
    /\ pc[c] = "backoff"
    /\ \/ /\ attempt[c] < maxRetries
          /\ OptimisticLoad(c, ready)
       \/ /\ attempt[c] = maxRetries
          /\ GoTo(c, "failed")
          /\ UNCHANGED <<store, lockVars, ready, callVars>>

-----------------------------------------------------------------------------

Microtask(c) ==
    \/ Relock(c)
    \/ Load(c)
    \/ SaveExisting(c) \/ SaveDecrypted(c) \/ UpdaterThrows(c)
    \/ Return(c)
    \/ EncryptAndSave(c)
    \/ CompareAndSet(c) \/ Mismatch(c)

Next ==
    \E c \in Caller :
        Call(c) \/ CallOptimistic(c) \/ Microtask(c) \/ Timer(c)

\* The event loop runs what is queued and timers fire; nobody has to call.
Fairness ==
    /\ WF_vars(\E c \in Caller : Microtask(c))
    /\ \A c \in Caller : WF_vars(Timer(c))

Spec == Init /\ [][Next]_vars /\ Fairness

-----------------------------------------------------------------------------
(* Properties.                                                             *)

InUpdate(c) == pc[c] \in {"locked", "loaded", "saved"}

(***************************************************************************)
(* One call at a time is between taking a peer's lock and releasing it,    *)
(* and the Map holds that call's lock for exactly as long.  lock looks at  *)
(* the Map again after every wake-up because one release wakes every       *)
(* waiter and a new call may come in before them.                          *)
(***************************************************************************)
MutualExclusion ==
    \A c \in Caller : InUpdate(c) <=> locks[PeerOf[c]] = c

Atomic == INSTANCE AtomicSession WITH
    session <- [p \in Peer |->
                    IF store[p] = None THEN None
                    ELSE [sent |-> store[p].sent, recv |-> store[p].recv]],
    index <- header

(***************************************************************************)
(* No call's update is lost and no two sends to a peer take one index,     *)
(* although sendDirectMessage saves after its lock is released: a call     *)
(* that gets the lock in between loads the state only after the sender's   *)
(* continuation, queued at the release, has run.                           *)
(***************************************************************************)
ImplementsAtomicSession == Atomic!Init /\ [][Atomic!Next]_Atomic!vars

(***************************************************************************)
(* Every call ends, whoever throws while holding the lock and however many *)
(* calls wait for it.                                                      *)
(***************************************************************************)
EveryCallEnds ==
    \A c \in Caller : pc[c] # "idle" ~> pc[c] \in {"done", "failed"}
=============================================================================
