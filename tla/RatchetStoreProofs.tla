------------------------ MODULE RatchetStoreProofs -------------------------
(***************************************************************************)
(* For any callers, peers and number of retries: locks exclude, and no     *)
(* update is lost, although a sender saves after its lock is released.     *)
(***************************************************************************)
EXTENDS RatchetStore, SequenceTheorems, FiniteSetTheorems, TLAPS

-----------------------------------------------------------------------------
(* Queues                                                                  *)

\* x is in front of y.
Before(s, x, y) == \E i, j \in 1..Len(s) : i < j /\ s[i] = x /\ s[j] = y

LEMMA TailQueue ==
    ASSUME NEW s \in Seq(Caller), IsInjective(s), s # <<>>
    PROVE  /\ Tail(s) \in Seq(Caller)
           /\ IsInjective(Tail(s))
           /\ Range(Tail(s)) = Range(s) \ {Head(s)}
           /\ Head(s) \in Range(s)
           /\ \A x, y : Before(s, x, y) /\ x # Head(s) => Before(Tail(s), x, y)
           /\ \A x : ~Before(s, x, Head(s))
<1> DEFINE t == Tail(s)
           k == Len(s)
<1>1. /\ k \in Nat \ {0} /\ DOMAIN s = 1..k /\ Head(s) = s[1]
      /\ t \in Seq(Caller) /\ DOMAIN t = 1..(k - 1) /\ Len(t) = k - 1
      /\ \A i \in 1..(k - 1) : t[i] = s[i + 1]
  BY HeadTailProperties, LenProperties, EmptySeq
<1>2. \A i, j \in 1..k : s[i] = s[j] => i = j
  BY <1>1 DEF IsInjective
<1> HIDE DEF t, k
<1>3. IsInjective(t)
  BY <1>1, <1>2 DEF IsInjective
<1>4. Range(t) = Range(s) \ {Head(s)}
  <2>1. ASSUME NEW x \in Range(t) PROVE x \in Range(s) \ {Head(s)}
    <3>1. PICK i \in 1..(k - 1) : x = t[i]
      BY <1>1 DEF Range
    <3>2. i + 1 \in 1..k /\ x = s[i + 1] /\ i + 1 # 1 /\ 1 \in 1..k
      BY <1>1, <3>1
    <3> QED
      BY <1>1, <1>2, <3>2 DEF Range
  <2>2. ASSUME NEW x \in Range(s) \ {Head(s)} PROVE x \in Range(t)
    <3>1. PICK i \in 1..k : x = s[i]
      BY <1>1 DEF Range
    <3>2. i - 1 \in 1..(k - 1) /\ t[i - 1] = x
      BY <1>1, <2>2, <3>1
    <3> QED
      BY <1>1, <3>2 DEF Range
  <2> QED
    BY <2>1, <2>2
<1>5. Head(s) \in Range(s)
  BY <1>1 DEF Range
<1>6. ASSUME NEW x, NEW y, Before(s, x, y), x # Head(s) PROVE Before(t, x, y)
  <2>1. PICK i, j \in 1..k : i < j /\ s[i] = x /\ s[j] = y
    BY <1>6 DEF Before, k
  <2>2. i - 1 \in 1..(k - 1) /\ j - 1 \in 1..(k - 1) /\ i - 1 < j - 1 /\ t[i - 1] = x /\ t[j - 1] = y
    BY <1>1, <1>6, <2>1
  <2> QED
    BY <1>1, <2>2 DEF Before
<1>7. ASSUME NEW x, Before(s, x, Head(s)) PROVE FALSE
  <2>1. PICK i, j \in 1..k : i < j /\ s[j] = s[1]
    BY <1>1, <1>7 DEF Before, k
  <2> QED
    BY <1>1, <1>2, <2>1
<1> QED
  BY <1>1, <1>3, <1>4, <1>5, <1>6, <1>7 DEF t

LEMMA JoinQueue ==
    ASSUME NEW s \in Seq(Caller), NEW t \in Seq(Caller), IsInjective(s), IsInjective(t),
           Range(s) \intersect Range(t) = {}
    PROVE  /\ s \o t \in Seq(Caller)
           /\ IsInjective(s \o t)
           /\ Range(s \o t) = Range(s) \union Range(t)
           /\ \A x, y : Before(s, x, y) => Before(s \o t, x, y)
           /\ \A x \in Range(s), y \in Range(t) : Before(s \o t, x, y)
<1> DEFINE u == s \o t
           k == Len(s)
           n == Len(t)
<1>1. /\ u \in Seq(Caller) /\ Len(u) = k + n /\ DOMAIN u = 1..(k + n)
      /\ k \in Nat /\ n \in Nat /\ DOMAIN s = 1..k /\ DOMAIN t = 1..n
      /\ \A i \in 1..k : i \in 1..(k + n) /\ u[i] = s[i]
      /\ \A i \in 1..n : k + i \in 1..(k + n) /\ u[k + i] = t[i]
      /\ \A i \in 1..(k + n) : i > k => i - k \in 1..n /\ u[i] = t[i - k]
  BY ConcatProperties, LenProperties
<1>2. Range(u) = Range(s) \union Range(t)
  BY RangeConcatenation
<1> HIDE DEF u, k, n
<1>3. IsInjective(u)
  <2>1. \A i, j \in 1..k : s[i] = s[j] => i = j
    BY <1>1 DEF IsInjective
  <2>2. \A i, j \in 1..n : t[i] = t[j] => i = j
    BY <1>1 DEF IsInjective
  <2>3. \A i \in 1..k : \A j \in 1..n : s[i] # t[j]
    BY <1>1 DEF Range
  <2>4. ASSUME NEW i \in 1..(k + n), NEW j \in 1..(k + n), u[i] = u[j], i <= j PROVE i = j
    <3>1. CASE j <= k
      BY <1>1, <2>1, <2>4, <3>1
    <3>2. CASE i <= k /\ j > k
      BY <1>1, <2>3, <2>4, <3>2
    <3>3. CASE i > k
      <4>1. i - k \in 1..n /\ j - k \in 1..n /\ t[i - k] = t[j - k]
        BY <1>1, <2>4, <3>3
      <4>2. i - k = j - k
        BY <2>2, <4>1
      <4> QED
        BY <1>1, <4>2
    <3> QED
      BY <1>1, <3>1, <3>2, <3>3
  <2> QED
    BY <1>1, <2>4 DEF IsInjective
<1>4. ASSUME NEW x, NEW y, Before(s, x, y) PROVE Before(u, x, y)
  <2>1. PICK i, j \in 1..k : i < j /\ s[i] = x /\ s[j] = y
    BY <1>4 DEF Before, k
  <2> QED
    BY <1>1, <2>1 DEF Before
<1>5. ASSUME NEW x \in Range(s), NEW y \in Range(t) PROVE Before(u, x, y)
  <2>1. PICK i \in 1..k : s[i] = x
    BY <1>1 DEF Range
  <2>2. PICK j \in 1..n : t[j] = y
    BY <1>1 DEF Range
  <2> QED
    BY <1>1, <2>1, <2>2 DEF Before
<1> QED
  BY <1>1, <1>2, <1>3, <1>4, <1>5 DEF u

LEMMA OneInQueue ==
    ASSUME NEW c \in Caller
    PROVE  /\ <<c>> \in Seq(Caller) /\ IsInjective(<<c>>) /\ Range(<<c>>) = {c}
           /\ <<>> \in Seq(Caller) /\ IsInjective(<<>>) /\ Range(<<>>) = {}
           /\ \A s \in Seq(Caller) : Append(s, c) = s \o <<c>> /\ s \o <<>> = s
BY DEF IsInjective, Range

\* c is put at the end of the queue.
LEMMA AppendQueue ==
    ASSUME NEW s \in Seq(Caller), IsInjective(s), NEW c \in Caller, c \notin Range(s)
    PROVE  /\ Append(s, c) \in Seq(Caller)
           /\ IsInjective(Append(s, c))
           /\ Range(Append(s, c)) = Range(s) \union {c}
           /\ \A x, y : Before(s, x, y) => Before(Append(s, c), x, y)
           /\ \A x \in Range(s) : Before(Append(s, c), x, c)
<1>1. Append(s, c) = s \o <<c>> /\ <<c>> \in Seq(Caller) /\ IsInjective(<<c>>)
  BY OneInQueue
<1>2. Range(<<c>>) = {c}
  BY OneInQueue
<1>3. Range(s) \intersect Range(<<c>>) = {}
  BY <1>2
<1>4. /\ s \o <<c>> \in Seq(Caller)
      /\ IsInjective(s \o <<c>>)
      /\ Range(s \o <<c>>) = Range(s) \union Range(<<c>>)
      /\ \A x, y : Before(s, x, y) => Before(s \o <<c>>, x, y)
      /\ \A x \in Range(s), y \in Range(<<c>>) : Before(s \o <<c>>, x, y)
  BY <1>1, <1>3, JoinQueue
<1> QED
  BY <1>1, <1>2, <1>4

-----------------------------------------------------------------------------
(* Control: who runs, waits, and holds a lock                              *)

\* A call in one of these places is in the microtask queue.
Due == {"woken", "locked", "loaded", "saved", "returned", "read"}

Locking == Sender \union Receiver

PlaceInv ==
    /\ pc \in [Caller -> Place]
    /\ \A c \in Caller :
           /\ c \in Optimist => pc[c] \in {"idle", "read", "backoff", "done", "failed"}
           /\ c \in Locking => pc[c] \notin {"read", "backoff"}
           /\ pc[c] = "returned" => c \in Sender

\* Queues hold each call once, and exactly the calls that their places say.
QueueInv ==
    /\ ready \in Seq(Caller)
    /\ IsInjective(ready)
    /\ Range(ready) = {c \in Caller : pc[c] \in Due}

WaitInv ==
    /\ waiting \in [Peer -> Seq(Caller)]
    /\ \A p \in Peer :
           /\ IsInjective(waiting[p])
           /\ Range(waiting[p]) = {c \in Caller : PeerOf[c] = p /\ pc[c] = "waiting"}

LockInv ==
    /\ locks \in [Peer -> Caller \union {None}]
    /\ MutualExclusion

\* A sender that has released its lock and not saved yet is alone with its
\* peer's state, and in front of whoever has the lock by now.
OrderInv ==
    \A c, d \in Caller :
        (pc[c] = "returned" /\ d # c /\ PeerOf[d] = PeerOf[c]) =>
            /\ pc[d] \notin {"loaded", "saved", "returned"}
            /\ pc[d] = "locked" => Before(ready, c, d)

ControlInv == PlaceInv /\ QueueInv /\ WaitInv /\ LockInv /\ OrderInv

LEMMA Types ==
    /\ PeerOf \in [Caller -> Peer]
    /\ \A c \in Optimist : c \in Caller /\ c \notin Locking
    /\ \A c \in Caller : c \notin Locking => c \in Optimist
    /\ \A c \in Locking : c \in Caller
    /\ None \notin Caller
<1>1. PeerOf \in [Caller -> Peer] /\ None \notin Caller
  BY StoreAssumption
<1>2. ASSUME NEW c \in Optimist PROVE c \in Caller /\ c \notin Locking
  BY StoreAssumption DEF Caller, Locking
<1> QED
  BY <1>1, <1>2 DEF Caller, Locking

\* The microtask that runs is the first of the queue.
LEMMA HeadFacts ==
    ASSUME ControlInv, NEW c \in Caller, NEW place, Running(c, place)
    PROVE  /\ Tail(ready) \in Seq(Caller)
           /\ IsInjective(Tail(ready))
           /\ Range(Tail(ready)) = {d \in Caller : pc[d] \in Due} \ {c}
           /\ \A x, y : Before(ready, x, y) /\ x # c => Before(Tail(ready), x, y)
           /\ \A x : ~Before(ready, x, c)
           /\ pc[c] = place
BY TailQueue DEF ControlInv, QueueInv, Running

\* An update goes on to its next await, and to the end of the queue.
LEMMA RequeueKeepsControl ==
    ASSUME ControlInv, NEW c \in Caller, NEW from, NEW to, Running(c, from), GoTo(c, to),
           <<from, to>> \in {<<"locked", "loaded">>, <<"loaded", "saved">>},
           ready' = Append(Tail(ready), c), UNCHANGED lockVars
    PROVE  ControlInv'
<1> USE DEF ControlInv
<1>1. /\ from \in {"locked", "loaded"} /\ to \in {"loaded", "saved"}
      /\ from = "locked" \/ from = "loaded"
      /\ pc[c] = from /\ pc' = [pc EXCEPT ![c] = to] /\ pc \in [Caller -> Place]
      /\ waiting' = waiting /\ locks' = locks
  BY DEF Running, GoTo, lockVars, PlaceInv
<1>2. /\ pc'[c] = to
      /\ \A d \in Caller \ {c} : pc'[d] = pc[d]
  BY <1>1
<1>3. PlaceInv'
  BY <1>1, <1>2, Types DEF PlaceInv, Place
<1>4. /\ ready' \in Seq(Caller) /\ IsInjective(ready')
      /\ Range(ready') = {d \in Caller : pc[d] \in Due}
      /\ \A x, y : Before(ready, x, y) /\ x # c => Before(ready', x, y)
  <2>1. /\ Tail(ready) \in Seq(Caller) /\ IsInjective(Tail(ready))
        /\ Range(Tail(ready)) = {d \in Caller : pc[d] \in Due} \ {c}
        /\ \A x, y : Before(ready, x, y) /\ x # c => Before(Tail(ready), x, y)
        /\ c \notin Range(Tail(ready)) /\ c \in {d \in Caller : pc[d] \in Due}
    BY <1>1, HeadFacts DEF Due
  <2>2. /\ ready' \in Seq(Caller) /\ IsInjective(ready')
        /\ Range(ready') = Range(Tail(ready)) \union {c}
        /\ \A x, y : Before(Tail(ready), x, y) => Before(ready', x, y)
    BY <2>1, AppendQueue
  <2> QED
    BY <2>1, <2>2
<1>5. QueueInv'
  BY <1>1, <1>2, <1>4 DEF QueueInv, Due
<1>6. WaitInv'
  BY <1>1, <1>2 DEF WaitInv
<1>7. LockInv'
  BY <1>1, <1>2 DEF LockInv, MutualExclusion, InUpdate
<1>8. OrderInv'
  <2> SUFFICES ASSUME NEW r \in Caller, NEW d \in Caller, pc'[r] = "returned", d # r,
                      PeerOf[d] = PeerOf[r]
               PROVE  /\ pc'[d] \notin {"loaded", "saved", "returned"}
                      /\ pc'[d] = "locked" => Before(ready', r, d)
    BY DEF OrderInv
  <2>1. r # c /\ pc[r] = "returned"
    BY <1>1, <1>2
  <2>2. d # c
    BY <1>1, <2>1, HeadFacts DEF OrderInv
  <2> QED
    BY <1>2, <1>4, <2>1, <2>2 DEF OrderInv
<1> QED
  BY <1>3, <1>5, <1>6, <1>7, <1>8

\* A call leaves the queue without a lock.
LEMMA LeaveKeepsControl ==
    ASSUME ControlInv, NEW c \in Caller, NEW from, NEW to, Running(c, from), GoTo(c, to),
           <<from, to>> \in {<<"returned", "done">>, <<"read", "done">>, <<"read", "backoff">>},
           ready' = Tail(ready), UNCHANGED lockVars
    PROVE  ControlInv'
<1> USE DEF ControlInv
<1>1. /\ from \in {"returned", "read"} /\ to \in {"done", "backoff"}
      /\ from = "returned" => to = "done"
      /\ pc[c] = from /\ pc' = [pc EXCEPT ![c] = to] /\ pc \in [Caller -> Place]
      /\ waiting' = waiting /\ locks' = locks
  BY DEF Running, GoTo, lockVars, PlaceInv
<1>2. /\ pc'[c] = to
      /\ \A d \in Caller \ {c} : pc'[d] = pc[d]
  BY <1>1
<1>3. PlaceInv'
  BY <1>1, <1>2, Types DEF PlaceInv, Place
<1>4. /\ ready' \in Seq(Caller) /\ IsInjective(ready')
      /\ Range(ready') = {d \in Caller : pc[d] \in Due} \ {c}
      /\ \A x, y : Before(ready, x, y) /\ x # c => Before(ready', x, y)
  BY HeadFacts
<1>5. QueueInv'
  BY <1>1, <1>2, <1>4 DEF QueueInv, Due
<1>6. WaitInv'
  BY <1>1, <1>2 DEF WaitInv
<1>7. LockInv'
  BY <1>1, <1>2 DEF LockInv, MutualExclusion, InUpdate
<1>8. OrderInv'
  BY <1>1, <1>2, <1>4 DEF OrderInv
<1> QED
  BY <1>3, <1>5, <1>6, <1>7, <1>8

\* A turn of optimisticUpdate's loop starts.
LEMMA EnterKeepsControl ==
    ASSUME ControlInv, NEW c \in Optimist, pc[c] \in {"idle", "backoff"}, GoTo(c, "read"),
           ready' = Append(ready, c), UNCHANGED lockVars
    PROVE  ControlInv'
<1> USE DEF ControlInv
<1>1. /\ c \in Caller /\ c \notin Locking
      /\ pc' = [pc EXCEPT ![c] = "read"] /\ pc \in [Caller -> Place]
      /\ waiting' = waiting /\ locks' = locks
  BY Types DEF GoTo, lockVars, PlaceInv
<1>2. /\ pc'[c] = "read"
      /\ \A d \in Caller \ {c} : pc'[d] = pc[d]
  BY <1>1
<1>3. PlaceInv'
  BY <1>1, <1>2, Types DEF PlaceInv, Place
<1>4. c \notin Range(ready)
  BY DEF QueueInv, Due
<1>5. /\ ready' \in Seq(Caller) /\ IsInjective(ready')
      /\ Range(ready') = Range(ready) \union {c}
      /\ \A x, y : Before(ready, x, y) => Before(ready', x, y)
  BY <1>1, <1>4, AppendQueue DEF QueueInv
<1>6. QueueInv'
  BY <1>1, <1>2, <1>5 DEF QueueInv, Due
<1>7. WaitInv'
  BY <1>1, <1>2 DEF WaitInv
<1>8. LockInv'
  BY <1>1, <1>2 DEF LockInv, MutualExclusion, InUpdate
<1>9. OrderInv'
  BY <1>1, <1>2, <1>5 DEF OrderInv
<1> QED
  BY <1>3, <1>6, <1>7, <1>8, <1>9

\* lock(), called for the first time or woken, with what is left of the queue.
LockCalled(c, queue) ==
    /\ c \in Locking
    /\ queue \in Seq(Caller)
    /\ IsInjective(queue)
    /\ pc[c] \in {"idle", "woken"}
    /\ Range(queue) = {d \in Caller : pc[d] \in Due} \ {c}
    /\ \A x, y : Before(ready, x, y) /\ x # c => Before(queue, x, y)

LEMMA AcquireKeepsControl ==
    ASSUME ControlInv, NEW c, NEW queue, LockCalled(c, queue), Acquire(c, queue)
    PROVE  ControlInv'
<1> USE DEF ControlInv
<1>1. /\ c \in Caller /\ c \notin Optimist
      /\ PeerOf[c] \in Peer
      /\ pc' = [pc EXCEPT ![c] = "locked"] /\ pc \in [Caller -> Place]
      /\ locks[PeerOf[c]] = None
      /\ locks' = [locks EXCEPT ![PeerOf[c]] = c]
      /\ ready' = Append(queue, c)
      /\ waiting' = waiting
  BY Types DEF GoTo, LockCalled, Acquire, PlaceInv
<1>2. /\ pc'[c] = "locked"
      /\ \A d \in Caller \ {c} : pc'[d] = pc[d]
  BY <1>1
<1>3. PlaceInv'
  BY <1>1, <1>2, Types DEF PlaceInv, Place
<1>4. /\ ready' \in Seq(Caller) /\ IsInjective(ready')
      /\ Range(ready') = Range(queue) \union {c}
      /\ \A x, y : Before(queue, x, y) => Before(ready', x, y)
      /\ \A x \in Range(queue) : Before(ready', x, c)
  <2>1. c \notin Range(queue)
    BY DEF LockCalled
  <2> QED
    BY <1>1, <2>1, AppendQueue DEF LockCalled
<1>5. QueueInv'
  BY <1>1, <1>2, <1>4 DEF QueueInv, Due, LockCalled
<1>6. WaitInv'
  BY <1>1, <1>2 DEF WaitInv, LockCalled
<1>7. LockInv'
  BY <1>1, <1>2, Types DEF LockInv, MutualExclusion, InUpdate
<1>8. OrderInv'
  <2> SUFFICES ASSUME NEW r \in Caller, NEW d \in Caller, pc'[r] = "returned", d # r,
                      PeerOf[d] = PeerOf[r]
               PROVE  /\ pc'[d] \notin {"loaded", "saved", "returned"}
                      /\ pc'[d] = "locked" => Before(ready', r, d)
    BY DEF OrderInv
  <2>1. r # c /\ pc[r] = "returned" /\ r \in Range(queue)
    BY <1>1, <1>2 DEF LockCalled, Due
  <2>2. CASE d = c
    BY <1>2, <1>4, <2>1, <2>2
  <2>3. CASE d # c
    BY <1>2, <1>4, <2>1, <2>3 DEF OrderInv, LockCalled
  <2> QED
    BY <2>2, <2>3
<1> QED
  BY <1>3, <1>5, <1>6, <1>7, <1>8

LEMMA AwaitKeepsControl ==
    ASSUME ControlInv, NEW c, NEW queue, LockCalled(c, queue), Await(c, queue)
    PROVE  ControlInv'
<1> USE DEF ControlInv
<1>1. /\ c \in Caller /\ c \notin Optimist
      /\ PeerOf[c] \in Peer
      /\ pc' = [pc EXCEPT ![c] = "waiting"] /\ pc \in [Caller -> Place]
      /\ waiting' = [waiting EXCEPT ![PeerOf[c]] = Append(@, c)]
      /\ waiting \in [Peer -> Seq(Caller)]
      /\ ready' = queue
      /\ locks' = locks
  BY Types DEF GoTo, LockCalled, Await, PlaceInv, WaitInv
<1>2. /\ pc'[c] = "waiting"
      /\ \A d \in Caller \ {c} : pc'[d] = pc[d]
  BY <1>1
<1>3. PlaceInv'
  BY <1>1, <1>2, Types DEF PlaceInv, Place
<1>4. QueueInv'
  BY <1>1, <1>2 DEF QueueInv, Due, LockCalled
<1>5. WaitInv'
  <2> DEFINE w == waiting[PeerOf[c]]
  <2>1. w \in Seq(Caller) /\ IsInjective(w) /\ c \notin Range(w)
    BY <1>1 DEF WaitInv, LockCalled
  <2>2. /\ Append(w, c) \in Seq(Caller) /\ IsInjective(Append(w, c))
        /\ Range(Append(w, c)) = Range(w) \union {c}
    BY <1>1, <2>1, AppendQueue
  <2>3. waiting' = [waiting EXCEPT ![PeerOf[c]] = Append(w, c)]
    BY <1>1
  <2> HIDE DEF w
  <2>4. waiting' \in [Peer -> Seq(Caller)]
    BY <1>1, <2>2, <2>3
  <2>5. ASSUME NEW p \in Peer
        PROVE  /\ IsInjective(waiting'[p])
               /\ Range(waiting'[p]) = {d \in Caller : PeerOf[d] = p /\ pc'[d] = "waiting"}
    <3>1. CASE p = PeerOf[c]
      BY <1>1, <1>2, <2>2, <2>3, <3>1 DEF WaitInv, w
    <3>2. CASE p # PeerOf[c]
      BY <1>1, <1>2, <2>3, <3>2 DEF WaitInv
    <3> QED
      BY <3>1, <3>2
  <2> QED
    BY <2>4, <2>5 DEF WaitInv
<1>6. LockInv'
  BY <1>1, <1>2, Types DEF LockInv, MutualExclusion, InUpdate, LockCalled
<1>7. OrderInv'
  BY <1>1, <1>2 DEF OrderInv, LockCalled
<1> QED
  BY <1>3, <1>4, <1>5, <1>6, <1>7

\* The lock is released, and all that wait for it are woken.
LEMMA ReleaseKeepsControl ==
    ASSUME ControlInv, NEW c \in Caller, NEW place, NEW after,
           Running(c, "loaded") \/ Running(c, "saved"),
           \/ place = "returned" /\ after = <<c>> /\ c \in Sender
           \/ place \in {"done", "failed"} /\ after = <<>>,
           Release(c, place, after)
    PROVE  /\ ControlInv'
           /\ pc' \in [Caller -> Place]
           /\ pc'[c] = place
           /\ \A d \in Caller \ {c} : pc'[d] = pc[d] \/ (pc[d] = "waiting" /\ pc'[d] = "woken")
<1> USE DEF ControlInv
<1> DEFINE p == PeerOf[c]
           w == waiting[p]
           rest == Tail(ready)
<1>1. /\ pc[c] \in {"loaded", "saved"} /\ pc \in [Caller -> Place] /\ p \in Peer
      /\ place \in {"returned", "done", "failed"} /\ c \notin Optimist
      /\ locks' = [locks EXCEPT ![p] = None]
      /\ waiting' = [waiting EXCEPT ![p] = <<>>]
      /\ ready' = rest \o w \o after
      /\ locks[p] = c
  BY Types DEF Running, Release, PlaceInv, LockInv, MutualExclusion, InUpdate
<1>2. /\ w \in Seq(Caller) /\ IsInjective(w)
      /\ Range(w) = {d \in Caller : PeerOf[d] = p /\ pc[d] = "waiting"}
  BY <1>1 DEF WaitInv
<1>3. /\ rest \in Seq(Caller) /\ IsInjective(rest)
      /\ Range(rest) = {d \in Caller : pc[d] \in Due} \ {c}
      /\ \A x, y : Before(ready, x, y) /\ x # c => Before(rest, x, y)
  BY HeadFacts
<1>4. pc' = [d \in Caller |-> IF d = c THEN place
                              ELSE IF PeerOf[d] = p /\ pc[d] = "waiting" THEN "woken"
                              ELSE pc[d]]
  <2>1. DOMAIN w = 1..Len(w)
    BY <1>2, LenProperties
  <2>2. ASSUME NEW d \in Caller
        PROVE  (\E i \in 1..Len(w) : w[i] = d) <=> (PeerOf[d] = p /\ pc[d] = "waiting")
    BY <1>2, <2>1 DEF Range
  <2>3. pc' = [d \in Caller |-> IF d = c THEN place
                                ELSE IF \E i \in 1..Len(w) : w[i] = d THEN "woken"
                                ELSE pc[d]]
    BY DEF Release
  <2> HIDE DEF w, p
  <2> QED
    BY <2>2, <2>3
<1> HIDE DEF p, w, rest
<1>5. /\ pc'[c] = place
      /\ \A d \in Caller \ {c} :
             IF PeerOf[d] = p /\ pc[d] = "waiting" THEN pc'[d] = "woken" ELSE pc'[d] = pc[d]
  BY <1>4
<1>6. pc' \in [Caller -> Place]
  BY <1>1, <1>4 DEF Place
<1>7. PlaceInv'
  BY <1>1, <1>5, <1>6, Types DEF PlaceInv, Locking
<1>8. /\ ready' \in Seq(Caller) /\ IsInjective(ready')
      /\ Range(ready') = Range(rest) \union Range(w) \union (IF place = "returned" THEN {c} ELSE {})
      /\ \A x, y : Before(ready, x, y) /\ x # c => Before(ready', x, y)
  <2>1. Range(rest) \intersect Range(w) = {} /\ c \notin Range(rest) /\ c \notin Range(w)
    BY <1>1, <1>2, <1>3 DEF Due
  <2>2. /\ rest \o w \in Seq(Caller) /\ IsInjective(rest \o w)
        /\ Range(rest \o w) = Range(rest) \union Range(w)
        /\ \A x, y : Before(rest, x, y) => Before(rest \o w, x, y)
    BY <1>2, <1>3, <2>1, JoinQueue
  <2>3. CASE place = "returned" /\ after = <<c>>
    <3>1. ready' = Append(rest \o w, c)
      BY <1>1, <2>2, <2>3, OneInQueue
    <3>2. /\ ready' \in Seq(Caller) /\ IsInjective(ready')
          /\ Range(ready') = Range(rest \o w) \union {c}
          /\ \A x, y : Before(rest \o w, x, y) => Before(ready', x, y)
      BY <2>1, <2>2, <3>1, AppendQueue
    <3> QED
      BY <1>3, <2>2, <2>3, <3>2
  <2>4. CASE place # "returned" /\ after = <<>>
    <3>1. ready' = rest \o w
      BY <1>1, <2>2, <2>4, OneInQueue
    <3> QED
      BY <1>3, <2>2, <2>4, <3>1
  <2> QED
    BY <2>3, <2>4
<1>9. QueueInv'
  BY <1>1, <1>2, <1>3, <1>5, <1>8 DEF QueueInv, Due
<1>10. WaitInv'
  <2>1. waiting' \in [Peer -> Seq(Caller)]
    BY <1>1, OneInQueue DEF WaitInv
  <2>2. ASSUME NEW q \in Peer
        PROVE  /\ IsInjective(waiting'[q])
               /\ Range(waiting'[q]) = {d \in Caller : PeerOf[d] = q /\ pc'[d] = "waiting"}
    <3>1. CASE q = p
      <4>1. waiting'[q] = <<>>
        BY <1>1, <3>1 DEF WaitInv
      <4>2. {d \in Caller : PeerOf[d] = q /\ pc'[d] = "waiting"} = {}
        BY <1>1, <1>5, <3>1
      <4> QED
        BY <4>1, <4>2, OneInQueue
    <3>2. CASE q # p
      <4>1. waiting'[q] = waiting[q]
        BY <1>1, <3>2 DEF WaitInv
      <4>2. \A d \in Caller : PeerOf[d] = q => (pc'[d] = "waiting" <=> pc[d] = "waiting")
        BY <1>1, <1>5, <3>2 DEF p
      <4> QED
        BY <4>1, <4>2 DEF WaitInv
    <3> QED
      BY <3>1, <3>2
  <2> QED
    BY <2>1, <2>2 DEF WaitInv
<1>11. LockInv'
  <2>1. locks' \in [Peer -> Caller \union {None}]
    BY <1>1 DEF LockInv
  <2>2. ASSUME NEW d \in Caller PROVE InUpdate(d)' <=> locks'[PeerOf[d]] = d
    <3>1. PeerOf[d] \in Peer
      BY Types
    <3>2. CASE PeerOf[d] = p
      <4>1. locks'[PeerOf[d]] = None /\ (d # c => ~InUpdate(d))
        BY <1>1, <3>1, <3>2 DEF LockInv, MutualExclusion
      <4> QED
        BY <1>1, <1>5, <4>1, Types DEF InUpdate
    <3>3. CASE PeerOf[d] # p
      <4>1. locks'[PeerOf[d]] = locks[PeerOf[d]] /\ d # c
        BY <1>1, <3>1, <3>3 DEF LockInv, p
      <4> QED
        BY <1>5, <3>3, <4>1 DEF LockInv, MutualExclusion, InUpdate
    <3> QED
      BY <3>2, <3>3
  <2> QED
    BY <2>1, <2>2 DEF LockInv, MutualExclusion
<1>12. OrderInv'
  <2> SUFFICES ASSUME NEW r \in Caller, NEW d \in Caller, pc'[r] = "returned", d # r,
                      PeerOf[d] = PeerOf[r]
               PROVE  /\ pc'[d] \notin {"loaded", "saved", "returned"}
                      /\ pc'[d] = "locked" => Before(ready', r, d)
    BY DEF OrderInv
  <2>1. CASE r = c
    <3>1. ~InUpdate(d)
      BY <1>1, <2>1 DEF LockInv, MutualExclusion, p
    <3>2. pc[d] # "returned"
      BY <1>1, <2>1 DEF OrderInv
    <3> QED
      BY <1>5, <2>1, <3>1, <3>2 DEF InUpdate
  <2>2. CASE r # c
    <3>1. pc[r] = "returned"
      BY <1>5, <2>2
    <3>2. d # c
      BY <1>1, <2>2, <3>1 DEF OrderInv
    <3> QED
      BY <1>5, <1>8, <2>2, <3>1, <3>2 DEF OrderInv
  <2> QED
    BY <2>1, <2>2
<1> QED
  BY <1>5, <1>6, <1>7, <1>9, <1>10, <1>11, <1>12

\* Every step of a call does one of these to the queue and the locks.
LEMMA ControlStep == ControlInv /\ [Next]_vars => ControlInv'
<1> SUFFICES ASSUME ControlInv, [Next]_vars PROVE ControlInv'
  OBVIOUS
<1>1. CASE UNCHANGED vars
  BY <1>1 DEF vars, lockVars, ControlInv, PlaceInv, QueueInv, WaitInv, LockInv, MutualExclusion,
              InUpdate, OrderInv, Before
<1>2. ASSUME NEW c \in Caller, Call(c) PROVE ControlInv'
  <2>1. LockCalled(c, ready)
    BY <1>2 DEF Call, LockCalled, ControlInv, QueueInv, Locking, Due
  <2> QED
    BY <1>2, <2>1, AcquireKeepsControl, AwaitKeepsControl DEF Call
<1>3. ASSUME NEW c \in Caller, Relock(c) PROVE ControlInv'
  <2>1. Running(c, "woken") /\ c \in Locking
    BY <1>3, Types DEF Relock, Running, ControlInv, PlaceInv
  <2>2. LockCalled(c, Tail(ready))
    BY <2>1, HeadFacts DEF LockCalled
  <2> QED
    BY <1>3, <2>2, AcquireKeepsControl, AwaitKeepsControl DEF Relock
<1>4. ASSUME NEW c \in Caller, Load(c) PROVE ControlInv'
  BY <1>4, RequeueKeepsControl DEF Load
<1>5. ASSUME NEW c \in Caller, SaveExisting(c) \/ SaveDecrypted(c) PROVE ControlInv'
  BY <1>5, RequeueKeepsControl DEF SaveExisting, SaveDecrypted, Save
<1>6. ASSUME NEW c \in Caller, UpdaterThrows(c) PROVE ControlInv'
  BY <1>6, ReleaseKeepsControl DEF UpdaterThrows
<1>7. ASSUME NEW c \in Caller, Return(c) PROVE ControlInv'
  BY <1>7, ReleaseKeepsControl DEF Return
<1>8. ASSUME NEW c \in Caller, EncryptAndSave(c) PROVE ControlInv'
  BY <1>8, LeaveKeepsControl DEF EncryptAndSave
<1>9. ASSUME NEW c \in Caller, CompareAndSet(c) \/ Mismatch(c) PROVE ControlInv'
  BY <1>9, LeaveKeepsControl DEF CompareAndSet, Mismatch
<1>10. ASSUME NEW c \in Caller, CallOptimistic(c) PROVE ControlInv'
  BY <1>10, EnterKeepsControl DEF CallOptimistic, OptimisticLoad
<1>11. ASSUME NEW c \in Caller, Timer(c) PROVE ControlInv'
  <2>1. c \in Optimist
    BY <1>11, Types DEF Timer, ControlInv, PlaceInv
  <2>2. CASE OptimisticLoad(c, ready)
    BY <1>11, <2>1, <2>2, EnterKeepsControl DEF Timer, OptimisticLoad
  <2>3. CASE GoTo(c, "failed") /\ UNCHANGED <<lockVars, ready>>
    <3>1. /\ pc[c] = "backoff" /\ pc' = [pc EXCEPT ![c] = "failed"] /\ pc \in [Caller -> Place]
          /\ ready' = ready /\ waiting' = waiting /\ locks' = locks
      BY <1>11, <2>3 DEF Timer, GoTo, lockVars, ControlInv, PlaceInv
    <3>2. pc'[c] = "failed" /\ \A d \in Caller \ {c} : pc'[d] = pc[d]
      BY <3>1
    <3>3. PlaceInv' /\ QueueInv'
      BY <3>1, <3>2 DEF ControlInv, PlaceInv, QueueInv, Place, Due
    <3>4. WaitInv' /\ LockInv' /\ OrderInv'
      BY <3>1, <3>2 DEF ControlInv, WaitInv, LockInv, MutualExclusion, InUpdate, OrderInv, Before
    <3> QED
      BY <3>3, <3>4 DEF ControlInv
  <2> QED
    BY <1>11, <2>2, <2>3 DEF Timer
<1> QED
  BY <1>1, <1>2, <1>3, <1>4, <1>5, <1>6, <1>7, <1>8, <1>9, <1>10, <1>11 DEF Next, Microtask

LEMMA ControlInit == Init => ControlInv
<1> SUFFICES ASSUME Init PROVE ControlInv
  OBVIOUS
<1>1. PlaceInv /\ LockInv /\ OrderInv
  BY Types DEF Init, PlaceInv, Place, LockInv, MutualExclusion, InUpdate, OrderInv
<1>2. QueueInv /\ WaitInv
  <2>1. <<>> \in Seq(Caller) /\ IsInjective(<<>>) /\ Range(<<>>) = {}
    BY DEF IsInjective, Range
  <2> QED
    BY <2>1 DEF Init, QueueInv, WaitInv, Due
<1> QED
  BY <1>1, <1>2 DEF ControlInv

\* One call at a time holds a peer's lock, for any number of callers and
\* however calls, wake-ups, throws and releases interleave.
THEOREM LocksExclude == Spec => []MutualExclusion
<1>1. ControlInv => MutualExclusion
  BY DEF ControlInv, LockInv
<1> QED
  BY <1>1, ControlInit, ControlStep, PTL DEF Spec

-----------------------------------------------------------------------------
(* Data: what a call holds of its peer's state                             *)

Stored == [sent : Nat, recv : Nat, version : Nat \ {0}]

\* An update, from its load until a sender's own save, has the state that is
\* in the store.  optimisticUpdate has it if its version is still the one.
DataInv ==
    /\ store \in [Peer -> Stored \union {None}]
    /\ local \in [Caller -> Stored \union {None}]
    /\ \A c \in Caller :
           /\ pc[c] = "loaded" => local[c] = store[PeerOf[c]]
           /\ pc[c] \in {"saved", "returned"} =>
                  local[c] = store[PeerOf[c]] /\ local[c] # None
           /\ pc[c] = "read" =>
                  /\ VersionOf(local[c]) <= VersionOf(store[PeerOf[c]])
                  /\ VersionOf(local[c]) = VersionOf(store[PeerOf[c]])
                         => local[c] = store[PeerOf[c]]

LEMMA StateTypes ==
    /\ None \notin Stored
    /\ NewState \in [sent : Nat, recv : Nat, version : Nat]
    /\ Stored \subseteq [sent : Nat, recv : Nat, version : Nat]
    /\ \A s \in Stored \union {None} :
           /\ OrNew(s) \in [sent : Nat, recv : Nat, version : Nat]
           /\ VersionOf(s) \in Nat
           /\ VersionOf(s) = 0 <=> s = None
           /\ VersionOf(s) = OrNew(s).version
<1>1. None \notin [sent : Nat, recv : Nat, version : Nat]
  BY StoreAssumption
<1> QED
  BY <1>1 DEF Stored, NewState, OrNew, VersionOf

\* One more message sent, or received.
LEMMA CountFacts ==
    ASSUME NEW s \in [sent : Nat, recv : Nat, version : Nat], NEW v \in Nat
    PROVE  /\ [s EXCEPT !.sent = @ + 1]
                  = [sent |-> s.sent + 1, recv |-> s.recv, version |-> s.version]
           /\ [s EXCEPT !.recv = @ + 1]
                  = [sent |-> s.sent, recv |-> s.recv + 1, version |-> s.version]
           /\ [s EXCEPT !.sent = @ + 1] \in [sent : Nat, recv : Nat, version : Nat]
           /\ [s EXCEPT !.recv = @ + 1] \in [sent : Nat, recv : Nat, version : Nat]
           /\ [s EXCEPT !.sent = @ + 1, !.version = v + 1]
                  = [sent |-> s.sent + 1, recv |-> s.recv, version |-> v + 1]
<1>1. [s EXCEPT !.sent = @ + 1] = [sent |-> s.sent + 1, recv |-> s.recv, version |-> s.version]
  OBVIOUS
<1>2. [s EXCEPT !.recv = @ + 1] = [sent |-> s.sent, recv |-> s.recv + 1, version |-> s.version]
  OBVIOUS
<1>3. [s EXCEPT !.sent = @ + 1, !.version = v + 1]
          = [sent |-> s.sent + 1, recv |-> s.recv, version |-> v + 1]
  <2> DEFINE a == [s EXCEPT !.sent = @ + 1]
  <2>1. /\ a.sent = s.sent + 1 /\ a.recv = s.recv
        /\ a \in [sent : Nat, recv : Nat, version : Nat]
    BY <1>1
  <2>2. [s EXCEPT !.sent = @ + 1, !.version = v + 1] = [a EXCEPT !.version = v + 1]
    OBVIOUS
  <2> HIDE DEF a
  <2>3. [a EXCEPT !.version = v + 1] = [sent |-> a.sent, recv |-> a.recv, version |-> v + 1]
    BY <2>1
  <2> QED
    BY <2>1, <2>2, <2>3
<1> QED
  BY <1>1, <1>2, <1>3

\* `save' keeps the counts and takes the next version.
LEMMA SavedFacts ==
    ASSUME DataInv, NEW p \in Peer, NEW s \in [sent : Nat, recv : Nat, version : Nat]
    PROVE  Saved(p, s) = [sent |-> s.sent, recv |-> s.recv, version |-> VersionOf(store[p]) + 1]
           /\ Saved(p, s) \in Stored
<1>1. VersionOf(store[p]) \in Nat
  BY StateTypes DEF DataInv
<1> QED
  BY <1>1 DEF Saved, Stored

\* While c has loaded its peer's state under the lock, or has released the
\* lock and not saved yet, nobody else has it.
LEMMA NobodyElse ==
    ASSUME ControlInv, NEW c \in Caller, pc[c] \in {"loaded", "returned"},
           NEW d \in Caller, d # c, PeerOf[d] = PeerOf[c]
    PROVE  pc[d] \notin {"loaded", "saved", "returned", "read"}
<1> USE DEF ControlInv
<1>1. pc[d] # "read"
  BY StoreAssumption, Types DEF PlaceInv, Locking
<1>2. CASE pc[c] = "loaded"
  BY <1>1, <1>2 DEF LockInv, MutualExclusion, InUpdate, OrderInv
<1>3. CASE pc[c] = "returned"
  BY <1>1, <1>3 DEF OrderInv
<1> QED
  BY <1>2, <1>3

\* The store as c's step leaves it: its peer's state is s.
Writes(c, s) == store' = [store EXCEPT ![PeerOf[c]] = s]

\* The other calls' data, after c wrote: those that work under a lock, ...
LEMMA WriteKeepsData ==
    ASSUME ControlInv, DataInv, NEW c \in Caller, pc[c] \in {"loaded", "returned"},
           NEW s \in Stored, Writes(c, s), NEW to \in {"saved", "done"}, GoTo(c, to),
           to = "saved" => local' = [local EXCEPT ![c] = s],
           to = "done" => local' = local
    PROVE  DataInv'
<1>1. /\ PeerOf[c] \in Peer /\ PeerOf \in [Caller -> Peer]
      /\ pc' = [pc EXCEPT ![c] = to] /\ pc \in [Caller -> Place]
      /\ store' = [store EXCEPT ![PeerOf[c]] = s]
      /\ store \in [Peer -> Stored \union {None}]
      /\ local \in [Caller -> Stored \union {None}]
      /\ s # None
  BY Types, StateTypes DEF Writes, GoTo, ControlInv, PlaceInv, DataInv
<1>2. /\ pc'[c] = to /\ store'[PeerOf[c]] = s
      /\ to = "saved" => local'[c] = s
      /\ \A d \in Caller \ {c} : pc'[d] = pc[d] /\ local'[d] = local[d]
      /\ \A d \in Caller : PeerOf[d] # PeerOf[c] => store'[PeerOf[d]] = store[PeerOf[d]]
  BY <1>1
<1>3. store' \in [Peer -> Stored \union {None}] /\ local' \in [Caller -> Stored \union {None}]
  BY <1>1
<1>4. ASSUME NEW d \in Caller
      PROVE  /\ pc'[d] = "loaded" => local'[d] = store'[PeerOf[d]]
             /\ pc'[d] \in {"saved", "returned"} =>
                    local'[d] = store'[PeerOf[d]] /\ local'[d] # None
             /\ pc'[d] = "read" =>
                    /\ VersionOf(local'[d]) <= VersionOf(store'[PeerOf[d]])
                    /\ VersionOf(local'[d]) = VersionOf(store'[PeerOf[d]])
                           => local'[d] = store'[PeerOf[d]]
  <2>1. CASE d = c
    BY <1>1, <1>2, <2>1
  <2>2. CASE d # c /\ PeerOf[d] = PeerOf[c]
    BY <1>2, <2>2, NobodyElse
  <2>3. CASE d # c /\ PeerOf[d] # PeerOf[c]
    BY <1>2, <2>3 DEF DataInv
  <2> QED
    BY <2>1, <2>2, <2>3
<1> QED
  BY <1>3, <1>4 DEF DataInv, VersionOf

\* ... and those of another optimistic update.
LEMMA CompareAndSetKeepsData ==
    ASSUME ControlInv, DataInv, NEW c \in Caller, CompareAndSet(c)
    PROVE  DataInv'
<1> DEFINE s == [OrNew(local[c]) EXCEPT !.sent = @ + 1, !.version = VersionOf(local[c]) + 1]
<1>1. /\ PeerOf[c] \in Peer /\ PeerOf \in [Caller -> Peer] /\ c \in Optimist
      /\ pc' = [pc EXCEPT ![c] = "done"] /\ pc \in [Caller -> Place] /\ pc[c] = "read"
      /\ store' = [store EXCEPT ![PeerOf[c]] = s]
      /\ store \in [Peer -> Stored \union {None}]
      /\ local \in [Caller -> Stored \union {None}] /\ local' = local
      /\ VersionOf(store[PeerOf[c]]) = VersionOf(local[c])
  BY Types DEF CompareAndSet, Running, GoTo, ControlInv, PlaceInv, DataInv
<1>2. s \in Stored /\ VersionOf(s) = VersionOf(store[PeerOf[c]]) + 1
  <2>1. OrNew(local[c]) \in [sent : Nat, recv : Nat, version : Nat] /\ VersionOf(local[c]) \in Nat
    BY <1>1, StateTypes
  <2>2. s = [sent |-> OrNew(local[c]).sent + 1, recv |-> OrNew(local[c]).recv,
             version |-> VersionOf(local[c]) + 1]
    BY <2>1, CountFacts
  <2> HIDE DEF s
  <2>3. s \in Stored /\ s.version = VersionOf(local[c]) + 1
    BY <2>1, <2>2 DEF Stored
  <2> QED
    BY <1>1, <2>3, StateTypes DEF VersionOf
<1> HIDE DEF s
<1>3. /\ pc'[c] = "done" /\ store'[PeerOf[c]] = s
      /\ \A d \in Caller \ {c} : pc'[d] = pc[d]
      /\ \A d \in Caller : PeerOf[d] # PeerOf[c] => store'[PeerOf[d]] = store[PeerOf[d]]
  BY <1>1
<1>4. store' \in [Peer -> Stored \union {None}]
  BY <1>1, <1>2
<1>5. ASSUME NEW d \in Caller
      PROVE  /\ pc'[d] = "loaded" => local[d] = store'[PeerOf[d]]
             /\ pc'[d] \in {"saved", "returned"} =>
                    local[d] = store'[PeerOf[d]] /\ local[d] # None
             /\ pc'[d] = "read" =>
                    /\ VersionOf(local[d]) <= VersionOf(store'[PeerOf[d]])
                    /\ VersionOf(local[d]) = VersionOf(store'[PeerOf[d]])
                           => local[d] = store'[PeerOf[d]]
  <2>1. CASE d = c
    BY <1>3, <2>1
  <2>2. CASE d # c /\ PeerOf[d] = PeerOf[c]
    <3>1. d \in Optimist /\ pc'[d] = pc[d]
      BY <1>1, <1>3, <2>2, StoreAssumption, Types DEF Locking
    <3>2. VersionOf(local[d]) \in Nat /\ VersionOf(store[PeerOf[d]]) \in Nat
      BY <1>1, StateTypes
    <3>3. pc[d] = "read" => VersionOf(local[d]) < VersionOf(store'[PeerOf[d]])
      BY <1>2, <1>3, <2>2, <3>2 DEF DataInv
    <3> QED
      BY <3>1, <3>2, <3>3, <1>2, <1>3, <2>2 DEF ControlInv, PlaceInv
  <2>3. CASE d # c /\ PeerOf[d] # PeerOf[c]
    BY <1>3, <2>3 DEF DataInv
  <2> QED
    BY <2>1, <2>2, <2>3
<1> QED
  BY <1>1, <1>4, <1>5 DEF DataInv, VersionOf

\* Steps that do not write: c loads, or holds what it did.
LEMMA ReadKeepsData ==
    ASSUME DataInv, UNCHANGED store, NEW c \in Caller,
           local' = local \/ local' = [local EXCEPT ![c] = store[PeerOf[c]]],
           \A d \in Caller \ {c} : pc'[d] \in {"loaded", "saved", "returned", "read"}
                                       => pc'[d] = pc[d],
           \/ pc'[c] \in {"loaded", "read"} /\ local'[c] = store[PeerOf[c]]
           \/ pc'[c] = "returned" /\ pc[c] = "saved" /\ local' = local
           \/ pc'[c] \notin {"loaded", "saved", "returned", "read"}
    PROVE  DataInv'
<1>1. /\ PeerOf[c] \in Peer /\ store' = store
      /\ store \in [Peer -> Stored \union {None}]
      /\ local \in [Caller -> Stored \union {None}]
  BY Types DEF DataInv
<1>2. \A d \in Caller \ {c} : local'[d] = local[d]
  BY <1>1
<1>3. local' \in [Caller -> Stored \union {None}]
  BY <1>1
<1>4. VersionOf(store[PeerOf[c]]) \in Nat
  BY <1>1, StateTypes
<1>5. ASSUME NEW d \in Caller
      PROVE  /\ pc'[d] = "loaded" => local'[d] = store[PeerOf[d]]
             /\ pc'[d] \in {"saved", "returned"} =>
                    local'[d] = store[PeerOf[d]] /\ local'[d] # None
             /\ pc'[d] = "read" =>
                    /\ VersionOf(local'[d]) <= VersionOf(store[PeerOf[d]])
                    /\ VersionOf(local'[d]) = VersionOf(store[PeerOf[d]])
                           => local'[d] = store[PeerOf[d]]
  <2>1. CASE d = c
    BY <1>4, <2>1 DEF DataInv
  <2>2. CASE d # c
    BY <1>2, <2>2 DEF DataInv
  <2> QED
    BY <2>1, <2>2
<1> QED
  BY <1>1, <1>3, <1>5 DEF DataInv, VersionOf

LEMMA DataStep == ControlInv /\ DataInv /\ [Next]_vars => DataInv'
<1> SUFFICES ASSUME ControlInv, DataInv, [Next]_vars PROVE DataInv'
  OBVIOUS
<1> pc \in [Caller -> Place]
  BY DEF ControlInv, PlaceInv
<1>1. CASE UNCHANGED vars
  BY <1>1 DEF vars, callVars, DataInv, VersionOf
<1>2. ASSUME NEW c \in Caller, NEW queue, Acquire(c, queue) \/ Await(c, queue), UNCHANGED <<store, callVars>>
      PROVE  DataInv'
  BY <1>2, ReadKeepsData DEF Acquire, Await, GoTo, callVars
<1>3. ASSUME NEW c \in Caller, Load(c) PROVE DataInv'
  <2>1. local'[c] = store[PeerOf[c]]
    BY <1>3 DEF Load, DataInv
  <2> QED
    BY <1>3, <2>1, ReadKeepsData DEF Load, GoTo
<1>4. ASSUME NEW c \in Caller, NEW s \in [sent : Nat, recv : Nat, version : Nat], Save(c, s)
      PROVE  DataInv'
  <2>1. Saved(PeerOf[c], s) \in Stored
    BY SavedFacts, Types
  <2> QED
    BY <1>4, <2>1, WriteKeepsData DEF Save, Running, Writes
<1>5. ASSUME NEW c \in Caller, SaveExisting(c) PROVE DataInv'
  <2>1. OrNew(local[c]) \in [sent : Nat, recv : Nat, version : Nat]
    BY StateTypes DEF DataInv
  <2> QED
    BY <1>4, <1>5, <2>1 DEF SaveExisting
<1>6. ASSUME NEW c \in Caller, SaveDecrypted(c) PROVE DataInv'
  <2>1. OrNew(local[c]) \in [sent : Nat, recv : Nat, version : Nat]
    BY StateTypes DEF DataInv
  <2>2. [OrNew(local[c]) EXCEPT !.recv = @ + 1] \in [sent : Nat, recv : Nat, version : Nat]
    BY <2>1, CountFacts
  <2> QED
    BY <1>4, <1>6, <2>2 DEF SaveDecrypted
<1>7. ASSUME NEW c \in Caller, UpdaterThrows(c) \/ Return(c) PROVE DataInv'
  <2>1. PICK place, after :
            /\ Running(c, "loaded") \/ Running(c, "saved")
            /\ \/ place = "returned" /\ after = <<c>> /\ c \in Sender /\ Running(c, "saved")
               \/ place \in {"done", "failed"} /\ after = <<>>
            /\ Release(c, place, after)
            /\ UNCHANGED <<store, local>>
    BY <1>7 DEF UpdaterThrows, Return, callVars
  <2>2. /\ pc'[c] = place
        /\ \A d \in Caller \ {c} : pc'[d] = pc[d] \/ (pc[d] = "waiting" /\ pc'[d] = "woken")
    BY <2>1, ReleaseKeepsControl
  <2>3. place = "returned" => pc[c] = "saved"
    BY <2>1 DEF Running
  <2> QED
    BY <2>1, <2>2, <2>3, ReadKeepsData
<1>8. ASSUME NEW c \in Caller, EncryptAndSave(c) PROVE DataInv'
  <2>1. pc[c] = "returned" /\ local[c] \in Stored
    BY <1>8 DEF EncryptAndSave, Running, DataInv
  <2>2. [local[c] EXCEPT !.sent = @ + 1] \in [sent : Nat, recv : Nat, version : Nat]
    BY <2>1, CountFacts, StateTypes
  <2>3. Saved(PeerOf[c], [local[c] EXCEPT !.sent = @ + 1]) \in Stored
    BY <2>2, SavedFacts, Types
  <2> QED
    BY <1>8, <2>1, <2>3, WriteKeepsData DEF EncryptAndSave, Writes
<1>9. ASSUME NEW c \in Caller, CompareAndSet(c) PROVE DataInv'
  BY <1>9, CompareAndSetKeepsData
<1>10. ASSUME NEW c \in Caller, Mismatch(c) PROVE DataInv'
  BY <1>10, ReadKeepsData DEF Mismatch, GoTo
<1>11. ASSUME NEW c \in Caller, NEW queue, OptimisticLoad(c, queue) PROVE DataInv'
  <2>1. local'[c] = store[PeerOf[c]]
    BY <1>11 DEF OptimisticLoad, DataInv
  <2> QED
    BY <1>11, <2>1, ReadKeepsData DEF OptimisticLoad, GoTo
<1>12. ASSUME NEW c \in Caller, GoTo(c, "failed"), UNCHANGED <<store, callVars>> PROVE DataInv'
  BY <1>12, ReadKeepsData DEF GoTo, callVars
<1> QED
  BY <1>1, <1>2, <1>3, <1>5, <1>6, <1>7, <1>8, <1>9, <1>10, <1>11, <1>12
     DEF Next, Microtask, Call, Relock, CallOptimistic, Timer

-----------------------------------------------------------------------------
(* Indices and retries                                                     *)

\* A call takes its index in its last step, and has turns left when it reads.
CallInv ==
    /\ DOMAIN header = Caller
    /\ attempt \in [Caller -> 0..maxRetries]
    /\ \A c \in Caller : /\ pc[c] # "done" => header[c] = None
                         /\ pc[c] = "idle" => attempt[c] = 0
                         /\ pc[c] = "read" => attempt[c] < maxRetries

\* What a step does to the header of its call and to the places of others.
LEMMA CallStep == ControlInv /\ CallInv /\ [Next]_vars => CallInv'
<1> SUFFICES ASSUME ControlInv, CallInv, [Next]_vars PROVE CallInv'
  OBVIOUS
<1> maxRetries \in Nat \ {0} /\ pc \in [Caller -> Place]
  BY StoreAssumption DEF ControlInv, PlaceInv
<1>1. CASE UNCHANGED vars
  BY <1>1 DEF vars, callVars, CallInv
<1>2. ASSUME NEW c \in Caller, NEW to \in {"locked", "waiting", "loaded", "saved", "failed"},
             GoTo(c, to), UNCHANGED <<attempt, header>>, pc[c] # "done"
      PROVE  CallInv'
  BY <1>2 DEF CallInv, GoTo
<1>3. ASSUME NEW c \in Caller, Call(c) \/ Relock(c) PROVE CallInv'
  BY <1>2, <1>3 DEF Call, Relock, Acquire, Await, Running, callVars
<1>4. ASSUME NEW c \in Caller, Load(c) \/ SaveExisting(c) \/ SaveDecrypted(c) PROVE CallInv'
  BY <1>2, <1>4 DEF Load, SaveExisting, SaveDecrypted, Save, Running
<1>5. ASSUME NEW c \in Caller, UpdaterThrows(c) \/ Return(c) PROVE CallInv'
  <2>1. PICK place, after :
            /\ Running(c, "loaded") \/ Running(c, "saved")
            /\ \/ place = "returned" /\ after = <<c>> /\ c \in Sender
               \/ place \in {"done", "failed"} /\ after = <<>>
            /\ Release(c, place, after)
            /\ UNCHANGED <<attempt, header>>
    BY <1>5 DEF UpdaterThrows, Return, callVars
  <2>2. /\ pc'[c] = place
        /\ \A d \in Caller \ {c} : pc'[d] = pc[d] \/ (pc[d] = "waiting" /\ pc'[d] = "woken")
    BY <2>1, ReleaseKeepsControl
  <2> QED
    BY <2>1, <2>2 DEF CallInv, Running
<1>6. ASSUME NEW c \in Caller, EncryptAndSave(c) \/ CompareAndSet(c) PROVE CallInv'
  BY <1>6 DEF EncryptAndSave, CompareAndSet, GoTo, CallInv
<1>7. ASSUME NEW c \in Caller, Mismatch(c) PROVE CallInv'
  BY <1>7 DEF Mismatch, GoTo, CallInv, Running
<1>8. ASSUME NEW c \in Caller, CallOptimistic(c) \/ Timer(c) PROVE CallInv'
  BY <1>8 DEF CallOptimistic, Timer, OptimisticLoad, GoTo, CallInv, callVars
<1> QED
  BY <1>1, <1>3, <1>4, <1>5, <1>6, <1>7, <1>8 DEF Next, Microtask

StoreInv == ControlInv /\ DataInv /\ CallInv

LEMMA StoreInit == Init => StoreInv
<1> SUFFICES ASSUME Init PROVE StoreInv
  OBVIOUS
<1>1. DataInv
  BY DEF Init, DataInv
<1>2. CallInv
  BY StoreAssumption DEF Init, CallInv
<1> QED
  BY <1>1, <1>2, ControlInit DEF StoreInv

LEMMA StoreStep == StoreInv /\ [Next]_vars => StoreInv'
BY ControlStep, DataStep, CallStep DEF StoreInv

-----------------------------------------------------------------------------
(* Refinement: each caller works as if it were alone                       *)

Session(s) == IF s = None THEN None ELSE [sent |-> s.sent, recv |-> s.recv]

\* The session that the refinement gives a peer, and how a write changes it.
LEMMA SessionFacts ==
    ASSUME DataInv
    PROVE  /\ \A p \in Peer :
                  Atomic!Existing(p) = [sent |-> OrNew(store[p]).sent, recv |-> OrNew(store[p]).recv]
           /\ \A p \in Peer, s \in Stored :
                  store' = [store EXCEPT ![p] = s] =>
                      [q \in Peer |-> Session(store[q])']
                          = [[q \in Peer |-> Session(store[q])] EXCEPT
                                ![p] = [sent |-> s.sent, recv |-> s.recv]]
<1>1. /\ None \notin [sent : Nat, recv : Nat] /\ None \notin Stored
      /\ store \in [Peer -> Stored \union {None}]
  BY StoreAssumption, StateTypes DEF DataInv
<1>2. ASSUME NEW p \in Peer
      PROVE  Atomic!Existing(p) = [sent |-> OrNew(store[p]).sent, recv |-> OrNew(store[p]).recv]
  <2>1. CASE store[p] = None
    BY <2>1 DEF Atomic!Existing, Atomic!NewSession, OrNew, NewState
  <2>2. CASE store[p] # None
    <3>1. store[p] \in Stored
      BY <1>1, <2>2
    <3>2. [sent |-> store[p].sent, recv |-> store[p].recv] # None
      BY <1>1, <3>1 DEF Stored
    <3> QED
      BY <2>2, <3>2 DEF Atomic!Existing, OrNew
  <2> QED
    BY <2>1, <2>2
<1>3. ASSUME NEW p \in Peer, NEW s \in Stored, store' = [store EXCEPT ![p] = s]
      PROVE  [q \in Peer |-> Session(store[q])']
                 = [[q \in Peer |-> Session(store[q])] EXCEPT
                       ![p] = [sent |-> s.sent, recv |-> s.recv]]
  <2>1. \A q \in Peer : store'[q] = IF q = p THEN s ELSE store[q]
    BY <1>1, <1>3
  <2>2. s # None
    BY <1>1
  <2> QED
    BY <2>1, <2>2 DEF Session
<1> QED
  BY <1>2, <1>3

\* The refinement mapping, for the store as it is and as it will be.
LEMMA SessionIs ==
    /\ [p \in Peer |-> IF store[p] = None THEN None
                       ELSE [sent |-> store[p].sent, recv |-> store[p].recv]]
           = [p \in Peer |-> Session(store[p])]
    /\ [p \in Peer |-> IF store'[p] = None THEN None
                       ELSE [sent |-> store'[p].sent, recv |-> store'[p].recv]]
           = [p \in Peer |-> Session(store[p])']
BY DEF Session

\* A sender that had no session opens one; one that had leaves it as it is.
LEMMA OpenStep ==
    ASSUME StoreInv, NEW c \in Caller, SaveExisting(c)
    PROVE  Atomic!Open(PeerOf[c]) \/ UNCHANGED Atomic!vars
<1> DEFINE p == PeerOf[c]
           s == Saved(p, OrNew(local[c]))
<1>1. /\ p \in Peer /\ local[c] = store[p] /\ header' = header
      /\ store \in [Peer -> Stored \union {None}]
      /\ store' = [store EXCEPT ![p] = s]
  BY Types DEF SaveExisting, Save, Running, StoreInv, DataInv
<1>2. /\ s \in Stored /\ s.sent = OrNew(store[p]).sent /\ s.recv = OrNew(store[p]).recv
  BY <1>1, SavedFacts, StateTypes DEF StoreInv
<1> HIDE DEF s, p
<1>3. [q \in Peer |-> Session(store[q])']
          = [[q \in Peer |-> Session(store[q])] EXCEPT ![p] = [sent |-> s.sent, recv |-> s.recv]]
  BY <1>1, <1>2, SessionFacts DEF StoreInv
<1>4. CASE store[p] = None
  <2>1. s.sent = 0 /\ s.recv = 0
    BY <1>2, <1>4 DEF OrNew, NewState
  <2>2. [q \in Peer |-> Session(store[q])][p] = None
    BY <1>1, <1>4 DEF Session
  <2> QED
    BY <1>1, <1>3, <2>1, <2>2, SessionIs DEF Atomic!Open, Atomic!NewSession, p
<1>5. CASE store[p] # None
  <2>1. [q \in Peer |-> Session(store[q])][p] = [sent |-> s.sent, recv |-> s.recv]
    BY <1>1, <1>2, <1>5 DEF Session, OrNew
  <2>2. [q \in Peer |-> Session(store[q])'] = [q \in Peer |-> Session(store[q])]
    BY <1>1, <1>3, <2>1
  <2> QED
    BY <1>1, <2>2, SessionIs DEF Atomic!vars
<1> QED
  BY <1>4, <1>5

\* Somebody's new state of a peer is the old one with one more message.
LEMMA SentStep ==
    ASSUME StoreInv, NEW c \in Caller, NEW p, p = PeerOf[c], header[c] = None,
           NEW s \in Stored, store' = [store EXCEPT ![p] = s],
           header' = [header EXCEPT ![c] = OrNew(store[p]).sent],
           s.sent = OrNew(store[p]).sent + 1, s.recv = OrNew(store[p]).recv
    PROVE  Atomic!Send(c)
<1>1. p \in Peer
  BY Types
<1>2. Atomic!Existing(p) = [sent |-> OrNew(store[p]).sent, recv |-> OrNew(store[p]).recv]
  BY <1>1, SessionFacts DEF StoreInv
<1>3. [q \in Peer |-> Session(store[q])']
          = [[q \in Peer |-> Session(store[q])] EXCEPT ![p] = [sent |-> s.sent, recv |-> s.recv]]
  BY <1>1, SessionFacts DEF StoreInv
<1>4. [Atomic!Existing(p) EXCEPT !.sent = @ + 1] = [sent |-> s.sent, recv |-> s.recv]
  BY <1>2
<1>5. Atomic!Existing(p).sent = OrNew(store[p]).sent
  BY <1>2
<1> HIDE DEF Atomic!Existing
<1> QED
  BY <1>3, <1>4, <1>5, SessionIs DEF Atomic!Send

LEMMA ReceivedStep ==
    ASSUME StoreInv, NEW c \in Caller, SaveDecrypted(c)
    PROVE  Atomic!Receive(PeerOf[c])
<1> DEFINE p == PeerOf[c]
           o == OrNew(store[p])
           s == Saved(p, [o EXCEPT !.recv = @ + 1])
<1>1. /\ p \in Peer /\ local[c] = store[p] /\ header' = header
      /\ store \in [Peer -> Stored \union {None}]
      /\ store' = [store EXCEPT ![p] = s]
  BY Types DEF SaveDecrypted, Save, Running, StoreInv, DataInv
<1>2. o \in [sent : Nat, recv : Nat, version : Nat]
  BY <1>1, StateTypes
<1>3. [o EXCEPT !.recv = @ + 1] = [sent |-> o.sent, recv |-> o.recv + 1, version |-> o.version]
      /\ [o EXCEPT !.recv = @ + 1] \in [sent : Nat, recv : Nat, version : Nat]
  BY <1>2, CountFacts
<1> HIDE DEF o
<1>4. s \in Stored /\ s.sent = o.sent /\ s.recv = o.recv + 1
  BY <1>1, <1>3, SavedFacts DEF StoreInv
<1> HIDE DEF s
<1>5. Atomic!Existing(p) = [sent |-> o.sent, recv |-> o.recv]
  BY <1>1, SessionFacts DEF StoreInv, o
<1>6. [q \in Peer |-> Session(store[q])']
          = [[q \in Peer |-> Session(store[q])] EXCEPT ![p] = [sent |-> s.sent, recv |-> s.recv]]
  BY <1>1, <1>4, SessionFacts DEF StoreInv
<1>7. [Atomic!Existing(p) EXCEPT !.recv = @ + 1] = [sent |-> s.sent, recv |-> s.recv]
  BY <1>4, <1>5
<1> QED
  BY <1>1, <1>6, <1>7, SessionIs DEF Atomic!Receive

LEMMA AtomicStep ==
    ASSUME StoreInv, [Next]_vars
    PROVE  [Atomic!Next]_Atomic!vars
<1>1. CASE UNCHANGED <<store, header>>
  BY <1>1 DEF Atomic!vars
<1>2. ASSUME NEW c \in Caller, SaveExisting(c) PROVE [Atomic!Next]_Atomic!vars
  BY <1>2, OpenStep, Types DEF Atomic!Next
<1>3. ASSUME NEW c \in Caller, SaveDecrypted(c) PROVE [Atomic!Next]_Atomic!vars
  BY <1>3, ReceivedStep, Types DEF Atomic!Next
<1>4. ASSUME NEW c \in Caller, EncryptAndSave(c) PROVE [Atomic!Next]_Atomic!vars
  <2> DEFINE p == PeerOf[c]
             s == Saved(p, [store[p] EXCEPT !.sent = @ + 1])
  <2>1. /\ p \in Peer /\ local[c] = store[p] /\ store[p] \in Stored /\ store[p] # None
        /\ header[c] = None /\ header' = [header EXCEPT ![c] = store[p].sent]
        /\ store' = [store EXCEPT ![p] = s]
    BY <1>4, Types DEF EncryptAndSave, Running, StoreInv, DataInv, CallInv
  <2>2. OrNew(store[p]) = store[p]
    BY <2>1 DEF OrNew
  <2>3. [store[p] EXCEPT !.sent = @ + 1]
            = [sent |-> store[p].sent + 1, recv |-> store[p].recv, version |-> store[p].version]
        /\ [store[p] EXCEPT !.sent = @ + 1] \in [sent : Nat, recv : Nat, version : Nat]
    BY <2>1, CountFacts, StateTypes
  <2>4. s \in Stored /\ s.sent = store[p].sent + 1 /\ s.recv = store[p].recv
    BY <2>1, <2>3, SavedFacts DEF StoreInv
  <2> HIDE DEF s
  <2>5. Atomic!Send(c)
    BY <2>1, <2>2, <2>4, SentStep
  <2> QED
    BY <2>5 DEF Atomic!Next
<1>5. ASSUME NEW c \in Caller, CompareAndSet(c) PROVE [Atomic!Next]_Atomic!vars
  <2> DEFINE p == PeerOf[c]
             o == OrNew(store[p])
             s == [o EXCEPT !.sent = @ + 1, !.version = VersionOf(store[p]) + 1]
  <2>1. /\ p \in Peer /\ local[c] = store[p] /\ store[p] \in Stored \union {None}
        /\ header[c] = None /\ header' = [header EXCEPT ![c] = o.sent]
        /\ store' = [store EXCEPT ![p] = s]
    BY <1>5, Types DEF CompareAndSet, Running, StoreInv, DataInv, CallInv
  <2>2. o \in [sent : Nat, recv : Nat, version : Nat] /\ VersionOf(store[p]) \in Nat
    BY <2>1, StateTypes
  <2>3. s = [sent |-> o.sent + 1, recv |-> o.recv, version |-> VersionOf(store[p]) + 1]
    BY <2>2, CountFacts
  <2>4. s \in Stored /\ s.sent = o.sent + 1 /\ s.recv = o.recv
    BY <2>2, <2>3 DEF Stored
  <2> HIDE DEF s
  <2>5. Atomic!Send(c)
    BY <2>1, <2>4, SentStep
  <2> QED
    BY <2>5 DEF Atomic!Next
<1> QED
  BY <1>1, <1>2, <1>3, <1>4, <1>5
     DEF Next, Call, CallOptimistic, OptimisticLoad, Microtask, Relock, Load, UpdaterThrows, Return,
         Mismatch, Timer, callVars, vars

\* No update is lost and no two sends of a session take one index, for any
\* callers, although a sender encrypts and saves without the lock.
THEOREM AtomicRefinement == Spec => ImplementsAtomicSession
<1>1. Init => Atomic!Init
  BY DEF Init, Atomic!Init
<1>2. StoreInv /\ [Next]_vars => [Atomic!Next]_Atomic!vars
  BY AtomicStep
<1> QED
  BY <1>1, <1>2, StoreInit, StoreStep, PTL DEF Spec, ImplementsAtomicSession

-----------------------------------------------------------------------------
(* Counts: the store has counted every call that is over                   *)

Sent(p) == {c \in Sender \union Optimist : PeerOf[c] = p /\ pc[c] = "done"}
Received(p) == {c \in Receiver : PeerOf[c] = p /\ pc[c] \in {"saved", "done"}}

\* Calls that have saved, and senders that have for the second time.
Wrote(p) == {c \in Caller : PeerOf[c] = p /\ pc[c] \in {"saved", "returned", "done"}}
WroteTwice(p) == {c \in Sender : PeerOf[c] = p /\ pc[c] = "done"}

CountInv ==
    \A p \in Peer :
        /\ OrNew(store[p]).sent = Cardinality(Sent(p))
        /\ OrNew(store[p]).recv = Cardinality(Received(p))
        /\ VersionOf(store[p]) = Cardinality(Wrote(p)) + Cardinality(WroteTwice(p))

LEMMA CallsAreFinite ==
    ASSUME NEW S, S \subseteq Caller
    PROVE  /\ IsFiniteSet(S) /\ Cardinality(S) \in Nat /\ Cardinality(S) <= Cardinality(Caller)
           /\ \A c : c \notin S => Cardinality(S \union {c}) = Cardinality(S) + 1
<1>1. IsFiniteSet(Caller)
  BY StoreAssumption
<1>2. IsFiniteSet(S) /\ Cardinality(S) <= Cardinality(Caller)
  BY <1>1, FS_Subset
<1> QED
  BY <1>2, FS_CardinalityType, FS_AddElement

LEMMA AreCalls ==
    \A p : /\ Sent(p) \subseteq Caller /\ Received(p) \subseteq Caller
           /\ Wrote(p) \subseteq Caller /\ WroteTwice(p) \subseteq Caller
BY DEF Sent, Received, Wrote, WroteTwice, Caller

\* Steps that save nothing, as far as counts go.
LEMMA QuietStep ==
    ASSUME CountInv, UNCHANGED store,
           \A c \in Caller :
               /\ c \notin Receiver => (pc'[c] = "done" <=> pc[c] = "done")
               /\ c \in Receiver => (pc'[c] \in {"saved", "done"} <=> pc[c] \in {"saved", "done"})
               /\ pc'[c] \in {"saved", "returned", "done"} <=> pc[c] \in {"saved", "returned", "done"}
    PROVE  CountInv'
<1>1. ASSUME NEW p \in Peer
      PROVE  /\ Sent(p)' = Sent(p) /\ Received(p)' = Received(p)
             /\ Wrote(p)' = Wrote(p) /\ WroteTwice(p)' = WroteTwice(p)
  <2>1. \A c \in Sender \union Optimist : c \in Caller /\ c \notin Receiver
    BY StoreAssumption DEF Caller
  <2>2. Sent(p)' = Sent(p) /\ WroteTwice(p)' = WroteTwice(p)
    BY <2>1 DEF Sent, WroteTwice
  <2>3. Received(p)' = Received(p) /\ Wrote(p)' = Wrote(p)
    BY DEF Received, Wrote, Caller
  <2> QED
    BY <2>2, <2>3
<1> QED
  BY <1>1 DEF CountInv, OrNew, VersionOf

\* c's step saves s for its peer: of the four sets of that peer, c joins the
\* ones that say so, and the others stay.
LEMMA WriteStep ==
    ASSUME ControlInv, DataInv, CountInv, NEW c \in Caller, NEW s \in Stored, Writes(c, s),
           NEW to \in {"saved", "done"}, GoTo(c, to),
           \/ /\ c \in Sender /\ pc[c] = "loaded" /\ to = "saved"
              /\ s.sent = OrNew(store[PeerOf[c]]).sent /\ s.recv = OrNew(store[PeerOf[c]]).recv
           \/ /\ c \in Receiver /\ pc[c] = "loaded" /\ to = "saved"
              /\ s.sent = OrNew(store[PeerOf[c]]).sent /\ s.recv = OrNew(store[PeerOf[c]]).recv + 1
           \/ /\ c \in Sender /\ pc[c] = "returned" /\ to = "done"
              /\ s.sent = OrNew(store[PeerOf[c]]).sent + 1 /\ s.recv = OrNew(store[PeerOf[c]]).recv
           \/ /\ c \in Optimist /\ pc[c] = "read" /\ to = "done"
              /\ s.sent = OrNew(store[PeerOf[c]]).sent + 1 /\ s.recv = OrNew(store[PeerOf[c]]).recv,
           s.version = VersionOf(store[PeerOf[c]]) + 1
    PROVE  CountInv'
<1> DEFINE p == PeerOf[c]
<1>1. /\ p \in Peer
      /\ pc' = [pc EXCEPT ![c] = to] /\ pc \in [Caller -> Place]
      /\ store' = [store EXCEPT ![p] = s] /\ store \in [Peer -> Stored \union {None}]
      /\ c \in Sender => c \notin Receiver /\ c \notin Optimist
      /\ c \in Receiver => c \notin Sender /\ c \notin Optimist
      /\ c \in Optimist => c \notin Sender /\ c \notin Receiver
  BY StoreAssumption, Types DEF Writes, GoTo, ControlInv, PlaceInv, DataInv, Locking
<1>2. /\ pc'[c] = to /\ store'[p] = s
      /\ \A d \in Caller \ {c} : pc'[d] = pc[d]
      /\ \A q \in Peer \ {p} : store'[q] = store[q]
  BY <1>1
<1>3. /\ Sender \subseteq Caller /\ Receiver \subseteq Caller /\ Optimist \subseteq Caller
  BY DEF Caller
<1>4. ASSUME NEW q \in Peer \ {p}
      PROVE  /\ Sent(q)' = Sent(q) /\ Received(q)' = Received(q)
             /\ Wrote(q)' = Wrote(q) /\ WroteTwice(q)' = WroteTwice(q)
  BY <1>2, <1>3 DEF Sent, Received, Wrote, WroteTwice
<1>5. /\ OrNew(s) = s /\ VersionOf(s) = s.version
  BY StateTypes DEF OrNew, VersionOf
<1>6. /\ OrNew(store[p]).sent = Cardinality(Sent(p))
      /\ OrNew(store[p]).recv = Cardinality(Received(p))
      /\ VersionOf(store[p]) = Cardinality(Wrote(p)) + Cardinality(WroteTwice(p))
      /\ Cardinality(Sent(p)) \in Nat /\ Cardinality(Received(p)) \in Nat
      /\ Cardinality(Wrote(p)) \in Nat /\ Cardinality(WroteTwice(p)) \in Nat
  BY <1>1, CallsAreFinite, AreCalls DEF CountInv
<1>7. ASSUME NEW S, S \subseteq Caller, c \notin S
      PROVE  Cardinality(S \union {c}) = Cardinality(S) + 1
  BY <1>7, CallsAreFinite
<1> HIDE DEF p
<1>8. /\ s.sent = Cardinality(Sent(p)')
      /\ s.recv = Cardinality(Received(p)')
      /\ s.version = Cardinality(Wrote(p)') + Cardinality(WroteTwice(p)')
  <2>1. CASE c \in Sender /\ pc[c] = "loaded" /\ to = "saved"
    <3>1. /\ Sent(p)' = Sent(p) /\ Received(p)' = Received(p)
          /\ Wrote(p)' = Wrote(p) \union {c} /\ WroteTwice(p)' = WroteTwice(p)
          /\ c \notin Wrote(p)
      BY <1>1, <1>2, <1>3, <2>1 DEF Sent, Received, Wrote, WroteTwice, p
    <3>2. Cardinality(Wrote(p) \union {c}) = Cardinality(Wrote(p)) + 1
      BY <1>7, <3>1, AreCalls
    <3> QED
      BY <1>1, <1>6, <2>1, <3>1, <3>2 DEF p
  <2>2. CASE c \in Receiver /\ pc[c] = "loaded" /\ to = "saved"
    <3>1. /\ Sent(p)' = Sent(p) /\ Received(p)' = Received(p) \union {c}
          /\ Wrote(p)' = Wrote(p) \union {c} /\ WroteTwice(p)' = WroteTwice(p)
          /\ c \notin Wrote(p) /\ c \notin Received(p)
      BY <1>1, <1>2, <1>3, <2>2 DEF Sent, Received, Wrote, WroteTwice, p
    <3>2. /\ Cardinality(Wrote(p) \union {c}) = Cardinality(Wrote(p)) + 1
          /\ Cardinality(Received(p) \union {c}) = Cardinality(Received(p)) + 1
      BY <1>7, <3>1, AreCalls
    <3> QED
      BY <1>1, <1>6, <2>2, <3>1, <3>2 DEF p
  <2>3. CASE c \in Sender /\ pc[c] = "returned" /\ to = "done"
    <3>1. /\ Sent(p)' = Sent(p) \union {c} /\ Received(p)' = Received(p)
          /\ Wrote(p)' = Wrote(p) /\ WroteTwice(p)' = WroteTwice(p) \union {c}
          /\ c \notin Sent(p) /\ c \notin WroteTwice(p)
      BY <1>1, <1>2, <1>3, <2>3 DEF Sent, Received, Wrote, WroteTwice, p
    <3>2. /\ Cardinality(Sent(p) \union {c}) = Cardinality(Sent(p)) + 1
          /\ Cardinality(WroteTwice(p) \union {c}) = Cardinality(WroteTwice(p)) + 1
      BY <1>7, <3>1, AreCalls
    <3> QED
      BY <1>1, <1>6, <2>3, <3>1, <3>2 DEF p
  <2>4. CASE c \in Optimist /\ pc[c] = "read" /\ to = "done"
    <3>1. /\ Sent(p)' = Sent(p) \union {c} /\ Received(p)' = Received(p)
          /\ Wrote(p)' = Wrote(p) \union {c} /\ WroteTwice(p)' = WroteTwice(p)
          /\ c \notin Sent(p) /\ c \notin Wrote(p)
      BY <1>1, <1>2, <1>3, <2>4 DEF Sent, Received, Wrote, WroteTwice, p
    <3>2. /\ Cardinality(Sent(p) \union {c}) = Cardinality(Sent(p)) + 1
          /\ Cardinality(Wrote(p) \union {c}) = Cardinality(Wrote(p)) + 1
      BY <1>7, <3>1, AreCalls
    <3> QED
      BY <1>1, <1>6, <2>4, <3>1, <3>2 DEF p
  <2> QED
    BY <2>1, <2>2, <2>3, <2>4
<1> QED
  <2> SUFFICES ASSUME NEW q \in Peer
               PROVE  /\ OrNew(store'[q]).sent = Cardinality(Sent(q)')
                      /\ OrNew(store'[q]).recv = Cardinality(Received(q)')
                      /\ VersionOf(store'[q]) = Cardinality(Wrote(q)') + Cardinality(WroteTwice(q)')
    BY DEF CountInv, OrNew, VersionOf
  <2>1. CASE q = p
    BY <1>2, <1>5, <1>8, <2>1
  <2>2. CASE q # p
    BY <1>2, <1>4, <2>2 DEF CountInv
  <2> QED
    BY <2>1, <2>2

\* What a step that does not save says of the place its call goes to.
LEMMA QuietMove ==
    ASSUME ControlInv, CountInv, UNCHANGED store, NEW c \in Caller, NEW from, NEW to,
           pc[c] = from, GoTo(c, to),
           {from, to} \subseteq {"idle", "waiting", "woken", "locked", "loaded", "read",
                                 "backoff", "failed"}
    PROVE  CountInv'
<1>1. pc \in [Caller -> Place] /\ pc' = [pc EXCEPT ![c] = to]
  BY DEF ControlInv, PlaceInv, GoTo
<1>2. pc'[c] = to /\ \A d \in Caller \ {c} : pc'[d] = pc[d]
  BY <1>1
<1>3. {from, to} \intersect {"saved", "returned", "done"} = {}
  OBVIOUS
<1> QED
  BY <1>2, <1>3, QuietStep

LEMMA CountStep == StoreInv /\ CountInv /\ [Next]_vars => CountInv'
<1> SUFFICES ASSUME ControlInv, DataInv, CountInv, [Next]_vars PROVE CountInv'
  BY DEF StoreInv
<1> pc \in [Caller -> Place]
  BY DEF ControlInv, PlaceInv
<1>1. CASE UNCHANGED vars
  BY <1>1, QuietStep DEF vars
<1>2. ASSUME NEW c \in Caller, Call(c) \/ Relock(c) PROVE CountInv'
  BY <1>2, QuietMove DEF Call, Relock, Acquire, Await, Running
<1>3. ASSUME NEW c \in Caller, Load(c) \/ CallOptimistic(c) \/ Mismatch(c) \/ Timer(c)
      PROVE  CountInv'
  BY <1>3, QuietMove DEF Load, CallOptimistic, Mismatch, Timer, OptimisticLoad, Running
<1>4. ASSUME NEW c \in Caller, UpdaterThrows(c) \/ Return(c) PROVE CountInv'
  <2>1. PICK place, after :
            /\ Running(c, "loaded") \/ Running(c, "saved")
            /\ \/ place = "returned" /\ after = <<c>> /\ c \in Sender /\ Running(c, "saved")
               \/ place = "done" /\ after = <<>> /\ c \in Receiver /\ Running(c, "saved")
               \/ place = "failed" /\ after = <<>> /\ Running(c, "loaded")
            /\ Release(c, place, after)
            /\ UNCHANGED store
    BY <1>4 DEF UpdaterThrows, Return
  <2>2. /\ pc'[c] = place
        /\ \A d \in Caller \ {c} : pc'[d] = pc[d] \/ (pc[d] = "waiting" /\ pc'[d] = "woken")
    BY <2>1, ReleaseKeepsControl
  <2>3. c \in Sender => c \notin Receiver
    BY StoreAssumption
  <2> QED
    BY <2>1, <2>2, <2>3, QuietStep DEF Running
<1>5. ASSUME NEW c \in Caller, SaveExisting(c) PROVE CountInv'
  <2> DEFINE o == OrNew(store[PeerOf[c]])
             s == Saved(PeerOf[c], o)
  <2>1. /\ c \in Sender /\ pc[c] = "loaded" /\ PeerOf[c] \in Peer /\ local[c] = store[PeerOf[c]]
        /\ GoTo(c, "saved") /\ Writes(c, s)
        /\ o \in [sent : Nat, recv : Nat, version : Nat]
    BY <1>5, Types, StateTypes DEF SaveExisting, Save, Running, Writes, DataInv
  <2> HIDE DEF o
  <2>2. /\ s \in Stored /\ s.sent = o.sent /\ s.recv = o.recv
        /\ s.version = VersionOf(store[PeerOf[c]]) + 1
    BY <2>1, SavedFacts
  <2> HIDE DEF s
  <2> QED
    BY <2>1, <2>2, WriteStep DEF o
<1>6. ASSUME NEW c \in Caller, SaveDecrypted(c) PROVE CountInv'
  <2> DEFINE o == OrNew(store[PeerOf[c]])
             one == [o EXCEPT !.recv = @ + 1]
             s == Saved(PeerOf[c], one)
  <2>1. /\ c \in Receiver /\ pc[c] = "loaded" /\ PeerOf[c] \in Peer /\ local[c] = store[PeerOf[c]]
        /\ GoTo(c, "saved") /\ Writes(c, s)
        /\ o \in [sent : Nat, recv : Nat, version : Nat]
    BY <1>6, Types, StateTypes DEF SaveDecrypted, Save, Running, Writes, DataInv
  <2> HIDE DEF o
  <2>2. /\ one = [sent |-> o.sent, recv |-> o.recv + 1, version |-> o.version]
        /\ one \in [sent : Nat, recv : Nat, version : Nat]
    BY <2>1, CountFacts
  <2> HIDE DEF one
  <2>3. /\ s \in Stored /\ s.sent = o.sent /\ s.recv = o.recv + 1
        /\ s.version = VersionOf(store[PeerOf[c]]) + 1
    BY <2>1, <2>2, SavedFacts
  <2> HIDE DEF s
  <2> QED
    BY <2>1, <2>3, WriteStep DEF o
<1>7. ASSUME NEW c \in Caller, EncryptAndSave(c) PROVE CountInv'
  <2> DEFINE o == store[PeerOf[c]]
             one == [o EXCEPT !.sent = @ + 1]
             s == Saved(PeerOf[c], one)
  <2>1. /\ c \in Sender /\ pc[c] = "returned" /\ PeerOf[c] \in Peer /\ local[c] = o
        /\ GoTo(c, "done") /\ Writes(c, s)
        /\ o \in [sent : Nat, recv : Nat, version : Nat] /\ o # None /\ OrNew(o) = o
    BY <1>7, Types, StateTypes
       DEF EncryptAndSave, Running, Writes, DataInv, ControlInv, PlaceInv, OrNew
  <2> HIDE DEF o
  <2>2. /\ one = [sent |-> o.sent + 1, recv |-> o.recv, version |-> o.version]
        /\ one \in [sent : Nat, recv : Nat, version : Nat]
    BY <2>1, CountFacts
  <2> HIDE DEF one
  <2>3. /\ s \in Stored /\ s.sent = o.sent + 1 /\ s.recv = o.recv
        /\ s.version = VersionOf(store[PeerOf[c]]) + 1
    BY <2>1, <2>2, SavedFacts
  <2> HIDE DEF s
  <2> QED
    BY <2>1, <2>3, WriteStep DEF o
<1>8. ASSUME NEW c \in Caller, CompareAndSet(c) PROVE CountInv'
  <2> DEFINE o == OrNew(store[PeerOf[c]])
             v == VersionOf(store[PeerOf[c]])
             s == [o EXCEPT !.sent = @ + 1, !.version = v + 1]
  <2>1. /\ c \in Optimist /\ pc[c] = "read" /\ PeerOf[c] \in Peer /\ local[c] = store[PeerOf[c]]
        /\ GoTo(c, "done") /\ Writes(c, s)
        /\ o \in [sent : Nat, recv : Nat, version : Nat] /\ v \in Nat
    BY <1>8, Types, StateTypes
       DEF CompareAndSet, Running, Writes, DataInv, ControlInv, PlaceInv
  <2> HIDE DEF o, v
  <2>2. s = [sent |-> o.sent + 1, recv |-> o.recv, version |-> v + 1]
    BY <2>1, CountFacts
  <2> HIDE DEF s
  <2>3. /\ s \in Stored /\ s.sent = o.sent + 1 /\ s.recv = o.recv /\ s.version = v + 1
    BY <2>1, <2>2 DEF Stored
  <2> QED
    BY <2>1, <2>3, WriteStep DEF o, v
<1> QED
  BY <1>1, <1>2, <1>3, <1>4, <1>5, <1>6, <1>7, <1>8 DEF Next, Microtask

LEMMA CountInit == Init => CountInv
<1> SUFFICES ASSUME Init, NEW p \in Peer
             PROVE  /\ OrNew(store[p]).sent = Cardinality(Sent(p))
                    /\ OrNew(store[p]).recv = Cardinality(Received(p))
                    /\ VersionOf(store[p]) = Cardinality(Wrote(p)) + Cardinality(WroteTwice(p))
  BY DEF CountInv
<1>1. Sent(p) = {} /\ Received(p) = {} /\ Wrote(p) = {} /\ WroteTwice(p) = {}
  BY DEF Init, Sent, Received, Wrote, WroteTwice, Caller
<1>2. store[p] = None
  BY DEF Init
<1> QED
  BY <1>1, <1>2, FS_EmptySet DEF OrNew, NewState, VersionOf

\* So no count passes the number of callers, in the store ...
StoreBound == store \in [Peer -> State \union {None}]

LEMMA StoreIsBounded == StoreInv /\ CountInv => StoreBound
<1> SUFFICES ASSUME StoreInv, CountInv, NEW p \in Peer, store[p] # None
             PROVE  store[p] \in State
  BY DEF StoreInv, DataInv, StoreBound
<1> DEFINE n == Cardinality(Caller)
<1>1. /\ store[p] \in Stored /\ OrNew(store[p]) = store[p] /\ VersionOf(store[p]) = store[p].version
  BY DEF StoreInv, DataInv, OrNew, VersionOf
<1>2. n \in Nat
  BY StoreAssumption, FS_CardinalityType
<1>3. /\ Cardinality(Sent(p)) \in 0..n /\ Cardinality(Received(p)) \in 0..n
      /\ Cardinality(Wrote(p)) \in 0..n /\ Cardinality(WroteTwice(p)) \in 0..n
  BY <1>2, CallsAreFinite, AreCalls
<1> HIDE DEF n
<1>4. store[p].sent \in 0..n /\ store[p].recv \in 0..n
  BY <1>1, <1>3 DEF CountInv
<1>5. store[p].version = Cardinality(Wrote(p)) + Cardinality(WroteTwice(p))
  BY <1>1 DEF CountInv
<1>6. store[p].version \in 0..(2 * n)
  BY <1>2, <1>3, <1>5
<1> QED
  BY <1>1, <1>4, <1>6 DEF Stored, State, n

\* ... nor in what the calls took from it.
CallBound ==
    /\ local \in [Caller -> State \union {None}]
    /\ header \in [Caller -> 0..Cardinality(Caller) \union {None}]

LEMMA CallBoundStep ==
    ASSUME StoreInv, StoreBound, StoreBound', CallBound, [Next]_vars
    PROVE  CallBound'
<1>1. /\ \A c \in Caller : PeerOf[c] \in Peer
      /\ \A p \in Peer : store[p] \in State \union {None} /\ store'[p] \in State \union {None}
      /\ local \in [Caller -> State \union {None}]
      /\ header \in [Caller -> 0..Cardinality(Caller) \union {None}]
  BY Types DEF StoreBound, CallBound
<1>2. \A s \in State \union {None} : OrNew(s).sent \in 0..Cardinality(Caller)
  <2>1. Cardinality(Caller) \in Nat
    BY StoreAssumption, FS_CardinalityType
  <2> QED
    BY <2>1 DEF State, OrNew, NewState
<1>3. CASE UNCHANGED <<local, header>>
  BY <1>1, <1>3 DEF CallBound
<1>4. ASSUME NEW c \in Caller, NEW p \in Peer, local' = [local EXCEPT ![c] = store[p]],
             UNCHANGED header
      PROVE  CallBound'
  BY <1>1, <1>4 DEF CallBound
<1>5. ASSUME NEW c \in Caller, NEW s, Save(c, s) PROVE CallBound'
  <2>1. /\ store'[PeerOf[c]] = Saved(PeerOf[c], s)
        /\ local' = [local EXCEPT ![c] = Saved(PeerOf[c], s)] /\ header' = header
    BY <1>1, <1>5 DEF Save, StoreInv, DataInv
  <2>2. local' = [local EXCEPT ![c] = store'[PeerOf[c]]]
    BY <2>1
  <2> QED
    BY <1>1, <2>1, <2>2 DEF CallBound
<1>6. ASSUME NEW c \in Caller, EncryptAndSave(c) PROVE CallBound'
  <2>1. /\ local[c] # None /\ header' = [header EXCEPT ![c] = local[c].sent] /\ local' = local
    BY <1>6 DEF EncryptAndSave, Running, StoreInv, DataInv
  <2>2. local[c].sent \in 0..Cardinality(Caller)
    BY <1>1, <2>1 DEF State
  <2> QED
    BY <1>1, <2>1, <2>2 DEF CallBound
<1>7. ASSUME NEW c \in Caller, CompareAndSet(c) PROVE CallBound'
  <2>1. header' = [header EXCEPT ![c] = OrNew(local[c]).sent] /\ local' = local
    BY <1>7 DEF CompareAndSet
  <2> QED
    BY <1>1, <1>2, <2>1 DEF CallBound
<1> QED
  BY <1>1, <1>3, <1>4, <1>5, <1>6, <1>7
     DEF Next, Microtask, Call, CallOptimistic, OptimisticLoad, Relock, Load, SaveExisting,
         SaveDecrypted, UpdaterThrows, Return, Mismatch, Timer, callVars, vars

\* Every state of every call and of the Map is of its type: the Map counts each
\* call at most once, and no call's continuation is queued twice.
THEOREM TypeCorrect == Spec => []TypeOK
<1>1. Init => CallBound
  BY DEF Init, CallBound
<1>2. StoreInv /\ StoreBound /\ StoreBound' /\ CallBound /\ [Next]_vars => CallBound'
  BY CallBoundStep
<1>3. StoreInv /\ StoreBound /\ CallBound => TypeOK
  <2> SUFFICES ASSUME StoreInv, StoreBound, CallBound PROVE TypeOK
    OBVIOUS
  <2>1. /\ ready \in Seq(Caller) /\ DOMAIN ready = 1..Len(ready)
        /\ \A i, j \in 1..Len(ready) : ready[i] = ready[j] => i = j
    BY DEF StoreInv, ControlInv, QueueInv, IsInjective
  <2> QED
    BY <2>1 DEF StoreInv, ControlInv, PlaceInv, WaitInv, LockInv, CallInv, StoreBound, CallBound, TypeOK
<1> QED
  BY <1>1, <1>2, <1>3, StoreInit, StoreStep, CountInit, CountStep, StoreIsBounded, PTL DEF Spec
=============================================================================
