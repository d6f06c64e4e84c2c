------------------------ MODULE RatchetSessionProofs -----------------------
(***************************************************************************)
(* Theorems about RatchetSession.  The invariant ties every state of a     *)
(* party to the other's: whatever was rejected, skipped, repeated or       *)
(* pruned, a party's receive chain is the other's send chain, as far as    *)
(* the party has counted, and a cached key is the chain's key of the index *)
(* it is cached under.                                                     *)
(***************************************************************************)
EXTENDS RatchetSession, TLAPS

\* The way of the chain q sends on, and its key of position n.
Way(q) == IF q = "initiator" THEN 1 ELSE 2
ChainAt(q, n) == [root |-> SessionKey, way |-> Way(q), n |-> n]

Alien == "other pair"
Entry == [dhPub : Party \union {Alien}, msgIndex : Nat, key : Key]

\* The keys of q's messages that a party which expects number n has cached,
\* and those it cached by mistake.
CacheOK(keys, q, n) ==
    /\ keys \in Seq(Entry)
    /\ Len(keys) <= MAX_SKIP
    /\ \A i \in 1..Len(keys) :
           /\ keys[i].dhPub \in {q, Alien}
           /\ keys[i].key = ChainAt(q, keys[i].msgIndex)
           /\ keys[i].dhPub = q => keys[i].msgIndex < n
    /\ \A i, j \in 1..Len(keys) :
           /\ keys[i].dhPub = q
           /\ keys[j].dhPub = q
           /\ keys[i].msgIndex = keys[j].msgIndex
           => i = j

\* The key of q's message number n is in the cache.
Holds(keys, q, n) ==
    \E i \in 1..Len(keys) : keys[i].dhPub = q /\ keys[i].msgIndex = n

RatchetState ==
    [ rootKey : {SessionKey}, sendChainKey : Key, recvChainKey : Key, dhPair : Party,
      theirDhPub : {NoKey}, sendCount : Nat, recvCount : Nat, skippedKeys : Seq(Entry) ]

\* The state of p, in which it may receive.
PartyOK(s, p) ==
    /\ s \in RatchetState
    /\ s.dhPair = p
    /\ s.sendChainKey = ChainAt(p, s.sendCount)
    /\ s.recvChainKey = ChainAt(Other(p), s.recvCount)
    /\ CacheOK(s.skippedKeys, Other(p), s.recvCount)

LEMMA Parties ==
    \A p \in Party : /\ Other(p) \in Party /\ Other(p) # p /\ Other(p) # Alien
                     /\ Other(Other(p)) = p
BY DEF Party, Other, Alien

LEMMA ChainFacts ==
    ASSUME NEW q \in Party, NEW n \in Nat
    PROVE  /\ ChainAt(q, n) \in Key /\ ChainAt(q, n).n = n
           /\ \A k \in Nat : Advance(ChainAt(q, n), k) = ChainAt(q, n + k)
           /\ \A k : ChainAt(q, n) = ChainAt(q, k) => n = k
<1>1. ChainAt(q, n) \in Key /\ ChainAt(q, n).n = n
  BY DEF ChainAt, Key, Way, Party
<1>2. ASSUME NEW k \in Nat PROVE Advance(ChainAt(q, n), k) = ChainAt(q, n + k)
  BY DEF ChainAt, Advance
<1>3. ASSUME NEW k, ChainAt(q, n) = ChainAt(q, k) PROVE n = k
  <2>1. ChainAt(q, k).n = k
    BY DEF ChainAt
  <2> QED
    BY <1>1, <1>3, <2>1
<1> QED
  BY <1>1, <1>2, <1>3

LEMMA LesserOf ==
    ASSUME NEW a \in Int, NEW b \in Int
    PROVE  Min({a, b}) = IF a <= b THEN a ELSE b
<1>1. CASE a <= b
  <2>1. \E x \in {a, b} : \A y \in {a, b} : x =< y
    BY <1>1
  <2> QED
    BY <1>1, <2>1 DEF Min
<1>2. CASE b < a
  <2>1. \E x \in {a, b} : \A y \in {a, b} : x =< y
    BY <1>2
  <2> QED
    BY <1>2, <2>1 DEF Min
<1> QED
  BY <1>1, <1>2

-----------------------------------------------------------------------------
(* What the operations on the cache keep of it                             *)

\* Some of the cached keys, in whatever order.
LEMMA PartOfCache ==
    ASSUME NEW q \in Party, NEW n \in Nat, NEW keys, CacheOK(keys, q, n),
           NEW t \in Seq(Entry), Len(t) <= Len(keys), NEW at \in [1..Len(t) -> 1..Len(keys)],
           \A i, j \in 1..Len(t) : at[i] = at[j] => i = j,
           \A i \in 1..Len(t) : t[i] = keys[at[i]]
    PROVE  /\ CacheOK(t, q, n)
           /\ \A k : Holds(t, q, k) => Holds(keys, q, k)
<1>1. ASSUME NEW i \in 1..Len(t)
      PROVE  /\ t[i].dhPub \in {q, Alien}
             /\ t[i].key = ChainAt(q, t[i].msgIndex)
             /\ t[i].dhPub = q => t[i].msgIndex < n
  <2>1. PICK j \in 1..Len(keys) : t[i] = keys[j]
    BY <1>1
  <2> QED
    BY <2>1 DEF CacheOK
<1>2. ASSUME NEW i \in 1..Len(t), NEW j \in 1..Len(t), t[i].dhPub = q, t[j].dhPub = q,
             t[i].msgIndex = t[j].msgIndex
      PROVE  i = j
  <2>1. PICK a \in 1..Len(keys) : a = at[i] /\ t[i] = keys[a]
    OBVIOUS
  <2>2. PICK b \in 1..Len(keys) : b = at[j] /\ t[j] = keys[b]
    OBVIOUS
  <2>3. a = b
    BY <1>2, <2>1, <2>2 DEF CacheOK
  <2> QED
    BY <2>1, <2>2, <2>3
<1>3. Len(t) <= MAX_SKIP
  BY RatchetAssumption DEF CacheOK
<1>4. ASSUME NEW k, Holds(t, q, k) PROVE Holds(keys, q, k)
  <2>1. PICK i \in 1..Len(t) : t[i].dhPub = q /\ t[i].msgIndex = k
    BY <1>4 DEF Holds
  <2>2. PICK j \in 1..Len(keys) : t[i] = keys[j]
    BY <2>1
  <2> QED
    BY <2>1, <2>2 DEF Holds
<1> QED
  BY <1>1, <1>2, <1>3, <1>4 DEF CacheOK

LEMMA KeepLastFacts ==
    ASSUME NEW q \in Party, NEW n \in Nat, NEW keys, CacheOK(keys, q, n), NEW max \in Nat
    PROVE  /\ CacheOK(KeepLast(keys, max), q, n)
           /\ \A k : Holds(KeepLast(keys, max), q, k) => Holds(keys, q, k)
           /\ Len(keys) <= max => KeepLast(keys, max) = keys
<1> DEFINE d == Len(keys) - max
           t == SubSeq(keys, d + 1, Len(keys))
<1>1. keys \in Seq(Entry) /\ Len(keys) \in Nat
  BY DEF CacheOK
<1>2. CASE Len(keys) <= max
  BY <1>2 DEF KeepLast
<1>3. CASE ~(Len(keys) <= max)
  <2>1. KeepLast(keys, max) = t
    BY <1>1, <1>3 DEF KeepLast
  <2>2. /\ t \in Seq(Entry) /\ Len(t) = max /\ d \in Nat /\ Len(t) <= Len(keys)
        /\ \A i \in 1..Len(t) : i + d \in 1..Len(keys) /\ t[i] = keys[i + d]
    BY <1>1, <1>3
  <2> HIDE DEF t, d
  <2> DEFINE at == [i \in 1..Len(t) |-> i + d]
  <2>3. /\ at \in [1..Len(t) -> 1..Len(keys)]
        /\ \A i, j \in 1..Len(t) : at[i] = at[j] => i = j
        /\ \A i \in 1..Len(t) : t[i] = keys[at[i]]
    BY <2>2
  <2> HIDE DEF at
  <2> QED
    <3>1. t \in Seq(Entry) /\ Len(t) <= Len(keys)
      BY <2>2
    <3>2. /\ CacheOK(t, q, n)
          /\ \A k : Holds(t, q, k) => Holds(keys, q, k)
      BY <3>1, <2>3, PartOfCache
    <3> QED
      BY <1>3, <2>1, <3>2
<1> QED
  BY <1>2, <1>3

LEMMA JoinFacts ==
    ASSUME NEW a \in Seq(Entry), NEW b \in Seq(Entry)
    PROVE  /\ a \o b \in Seq(Entry) /\ Len(a \o b) = Len(a) + Len(b)
           /\ \A i \in 1..Len(a) : (a \o b)[i] = a[i]
           /\ \A i \in 1..Len(b) : (a \o b)[Len(a) + i] = b[i]
OBVIOUS

\* A sequence without its entry at x: where the others are now.
LEMMA WithoutIndex ==
    ASSUME NEW keys \in Seq(Entry), NEW x \in 1..Len(keys), NEW t, t = WithoutEntry(keys, x)
    PROVE  /\ t \in Seq(Entry) /\ Len(t) = Len(keys) - 1
           /\ \A i \in 1..Len(t) : t[i] = IF i < x THEN keys[i] ELSE keys[i + 1]
<1> DEFINE a == SubSeq(keys, 1, x - 1)
           b == SubSeq(keys, x + 1, Len(keys))
<1>1. /\ a \in Seq(Entry) /\ Len(a) = x - 1 /\ \A i \in 1..(x - 1) : a[i] = keys[i]
      /\ b \in Seq(Entry) /\ Len(b) = Len(keys) - x
      /\ \A i \in 1..(Len(keys) - x) : b[i] = keys[i + x]
  OBVIOUS
<1>2. t = a \o b
  BY DEF WithoutEntry
<1> HIDE DEF a, b
<1>3. /\ t \in Seq(Entry) /\ Len(t) = Len(keys) - 1
      /\ \A i \in 1..Len(a) : t[i] = a[i]
      /\ \A i \in 1..Len(b) : t[Len(a) + i] = b[i]
  <2>1. Len(a) + Len(b) = Len(keys) - 1
    BY <1>1
  <2> QED
    BY ONLY <1>1, <1>2, <2>1, JoinFacts
<1>4. ASSUME NEW i \in 1..Len(t) PROVE t[i] = IF i < x THEN keys[i] ELSE keys[i + 1]
  <2>1. CASE i < x
    <3>1. i \in 1..Len(a) /\ i \in 1..(x - 1)
      BY <1>1, <2>1
    <3>2. t[i] = a[i] /\ a[i] = keys[i]
      BY ONLY <1>1, <1>3, <3>1
    <3> QED
      BY <2>1, <3>2
  <2>2. CASE ~(i < x)
    <3>1. i - x + 1 \in 1..Len(b) /\ Len(a) + (i - x + 1) = i /\ (i - x + 1) + x = i + 1
      BY <1>1, <1>3, <2>2
    <3>2. t[i] = b[i - x + 1] /\ b[i - x + 1] = keys[i + 1]
      BY <1>1, <1>3, <3>1
    <3> QED
      BY <2>2, <3>2
  <2> QED
    BY <2>1, <2>2
<1> QED
  BY <1>3, <1>4

\* The used key goes, and no other.
LEMMA WithoutEntryFacts ==
    ASSUME NEW q \in Party, NEW n \in Nat, NEW keys, CacheOK(keys, q, n),
           NEW x \in 1..Len(keys), keys[x].dhPub = q
    PROVE  /\ CacheOK(WithoutEntry(keys, x), q, n)
           /\ \A k : Holds(WithoutEntry(keys, x), q, k)
                         <=> Holds(keys, q, k) /\ k # keys[x].msgIndex
<1> DEFINE t == WithoutEntry(keys, x)
           at == [i \in 1..Len(t) |-> IF i < x THEN i ELSE i + 1]
<1>1. keys \in Seq(Entry) /\ Len(keys) \in Nat /\ x \in Nat
  BY DEF CacheOK
<1>2. /\ t \in Seq(Entry) /\ Len(t) = Len(keys) - 1
      /\ \A i \in 1..Len(t) : t[i] = IF i < x THEN keys[i] ELSE keys[i + 1]
  BY <1>1, WithoutIndex
<1> HIDE DEF t
<1>3. /\ at \in [1..Len(t) -> 1..Len(keys)]
      /\ \A i, j \in 1..Len(t) : at[i] = at[j] => i = j
      /\ \A i \in 1..Len(t) : t[i] = keys[at[i]] /\ at[i] # x
  BY <1>1, <1>2
<1>4. ASSUME NEW j \in 1..Len(keys), j # x PROVE \E i \in 1..Len(t) : at[i] = j
  <2>1. CASE j < x
    <3>1. j \in 1..Len(t) /\ at[j] = j
      BY <1>1, <1>2, <2>1
    <3> QED
      BY <3>1
  <2>2. CASE j > x
    <3>1. j - 1 \in 1..Len(t) /\ at[j - 1] = j
      BY <1>1, <1>2, <2>2
    <3> QED
      BY <3>1
  <2> QED
    BY <1>1, <1>4, <2>1, <2>2
<1> HIDE DEF at
<1>5. CacheOK(t, q, n) /\ \A k : Holds(t, q, k) => Holds(keys, q, k)
  <2>1. Len(t) <= Len(keys) /\ t \in Seq(Entry)
    BY <1>1, <1>2
  <2>2. \A i \in 1..Len(t) : t[i] = keys[at[i]]
    BY <1>3
  <2> QED
    BY <1>3, <2>1, <2>2, PartOfCache
<1>6. ASSUME NEW k, Holds(t, q, k) PROVE k # keys[x].msgIndex
  <2>1. PICK i \in 1..Len(t) : t[i].dhPub = q /\ t[i].msgIndex = k
    BY <1>6 DEF Holds
  <2>2. PICK j \in 1..Len(keys) : t[i] = keys[j] /\ j # x
    BY <1>3, <2>1
  <2> QED
    BY <2>1, <2>2 DEF CacheOK
<1>7. ASSUME NEW k, Holds(keys, q, k), k # keys[x].msgIndex PROVE Holds(t, q, k)
  <2>1. PICK j \in 1..Len(keys) : keys[j].dhPub = q /\ keys[j].msgIndex = k
    BY <1>7 DEF Holds
  <2>2. PICK i \in 1..Len(t) : at[i] = j
    BY <1>4, <1>7, <2>1
  <2>3. t[i] = keys[j]
    BY <1>3, <2>2
  <2> QED
    BY <2>1, <2>3 DEF Holds
<1> QED
  BY <1>5, <1>6, <1>7 DEF t

\* The keys that skipping k positions from n on caches, under d.
SkippedKeys(q, d, n, k) ==
    [i \in 1..k |-> [dhPub |-> d, msgIndex |-> n + i - 1, key |-> ChainAt(q, n + i - 1)]]

\* The cache t is the cache keys, grown by as many of them as there is room for.
Grown(keys, t, q, d, n, k) ==
    /\ t \in Seq(Entry)
    /\ Len(t) = IF Len(keys) + k <= MAX_SKIP THEN Len(keys) + k ELSE MAX_SKIP
    /\ \A i \in 1..Len(keys) : t[i] = keys[i]
    /\ \A x \in 1..(Len(t) - Len(keys)) :
           /\ t[Len(keys) + x].dhPub = d
           /\ t[Len(keys) + x].msgIndex = n + x - 1
           /\ t[Len(keys) + x].key = ChainAt(q, n + x - 1)

\* What a cache that has grown holds of q's messages.
HoldsMore(keys, t, q, d, n, k) ==
    /\ \A j : Holds(keys, q, j) => Holds(t, q, j)
    /\ \A j : Holds(t, q, j) => Holds(keys, q, j) \/ (d = q /\ j \in n..(n + k - 1))
    /\ Len(keys) + k <= MAX_SKIP =>
           /\ Len(t) = Len(keys) + k
           /\ d = q => \A j \in n..(n + k - 1) : Holds(t, q, j)

LEMMA GrownCache ==
    ASSUME NEW q \in Party, NEW n \in Nat, NEW k \in Nat, NEW d \in {q, Alien},
           NEW keys, CacheOK(keys, q, n), NEW t, Grown(keys, t, q, d, n, k)
    PROVE  /\ CacheOK(t, q, n + (IF d = q THEN k ELSE 0))
           /\ HoldsMore(keys, t, q, d, n, k)
<1> DEFINE bound == n + (IF d = q THEN k ELSE 0)
<1>1. /\ keys \in Seq(Entry) /\ Len(keys) \in Nat /\ Len(t) \in Nat /\ t \in Seq(Entry)
      /\ Len(keys) <= Len(t) /\ Len(t) <= MAX_SKIP /\ Len(t) <= Len(keys) + k
      /\ Len(keys) + k <= MAX_SKIP => Len(t) = Len(keys) + k
  BY RatchetAssumption DEF CacheOK, Grown
<1>0. /\ \A i \in 1..Len(keys) : t[i] = keys[i]
      /\ \A x \in 1..(Len(t) - Len(keys)) :
             /\ t[Len(keys) + x].dhPub = d
             /\ t[Len(keys) + x].msgIndex = n + x - 1
             /\ t[Len(keys) + x].key = ChainAt(q, n + x - 1)
  BY DEF Grown
<1>2. ASSUME NEW i \in 1..Len(t)
      PROVE  \/ i \in 1..Len(keys) /\ t[i] = keys[i]
             \/ \E x \in 1..(Len(t) - Len(keys)) : i = Len(keys) + x
  <2>1. CASE i <= Len(keys)
    BY <1>0, <1>1, <2>1
  <2>2. CASE i > Len(keys)
    <3>1. i - Len(keys) \in 1..(Len(t) - Len(keys)) /\ i = Len(keys) + (i - Len(keys))
      BY <1>1, <2>2
    <3> QED
      BY <3>1
  <2> QED
    BY <1>1, <2>1, <2>2
<1>3. ASSUME NEW i \in 1..Len(keys)
      PROVE  /\ i \in 1..Len(t) /\ keys[i].msgIndex \in Nat
             /\ keys[i].dhPub \in {q, Alien} /\ keys[i].key = ChainAt(q, keys[i].msgIndex)
             /\ keys[i].dhPub = q => keys[i].msgIndex < n
  <2>1. keys[i] \in Entry
    BY <1>1
  <2> QED
    BY <1>1, <2>1 DEF CacheOK, Entry
<1>4. ASSUME NEW x \in 1..(Len(t) - Len(keys))
      PROVE  /\ x \in Nat /\ 1 <= x /\ x <= k
             /\ n <= n + x - 1 /\ n + x - 1 < n + k /\ n + x - 1 \in n..(n + k - 1)
  BY <1>1
<1>5. ASSUME NEW i \in 1..Len(t)
      PROVE  /\ t[i].dhPub \in {q, Alien}
             /\ t[i].key = ChainAt(q, t[i].msgIndex)
             /\ t[i].dhPub = q => t[i].msgIndex < bound
  <2>1. CASE i \in 1..Len(keys) /\ t[i] = keys[i]
    BY <1>3, <2>1
  <2>2. ASSUME NEW x \in 1..(Len(t) - Len(keys)), i = Len(keys) + x
        PROVE  /\ t[i].dhPub \in {q, Alien}
               /\ t[i].key = ChainAt(q, t[i].msgIndex)
               /\ t[i].dhPub = q => t[i].msgIndex < bound
    BY <1>0, <1>4, <2>2
  <2> QED
    BY <1>2, <2>1, <2>2
<1>6. ASSUME NEW i \in 1..Len(t), NEW j \in 1..Len(t), t[i].dhPub = q, t[j].dhPub = q,
             t[i].msgIndex = t[j].msgIndex
      PROVE  i = j
  <2>1. CASE i \in 1..Len(keys) /\ t[i] = keys[i] /\ j \in 1..Len(keys) /\ t[j] = keys[j]
    BY <1>6, <2>1 DEF CacheOK
  <2>2. ASSUME NEW x \in 1..(Len(t) - Len(keys)), i = Len(keys) + x
        PROVE  i = j
    <3>1. t[i].msgIndex = n + x - 1 /\ n <= n + x - 1
      BY <1>0, <1>4, <2>2
    <3>2. CASE j \in 1..Len(keys) /\ t[j] = keys[j]
      <4>1. t[j].msgIndex \in Nat /\ t[j].msgIndex < n
        BY <1>3, <1>6, <3>2
      <4> QED
        BY <1>6, <3>1, <4>1
    <3>3. ASSUME NEW y \in 1..(Len(t) - Len(keys)), j = Len(keys) + y
          PROVE  i = j
      <4>1. t[j].msgIndex = n + y - 1
        BY <1>0, <3>3
      <4> QED
        BY <1>4, <1>6, <2>2, <3>1, <3>3, <4>1
    <3> QED
      BY <1>2, <3>2, <3>3
  <2>3. ASSUME NEW x \in 1..(Len(t) - Len(keys)), j = Len(keys) + x,
               i \in 1..Len(keys), t[i] = keys[i]
        PROVE  i = j
    <3>1. t[j].msgIndex = n + x - 1 /\ n <= n + x - 1
      BY <1>0, <1>4, <2>3
    <3>2. t[i].msgIndex \in Nat /\ t[i].msgIndex < n
      BY <1>3, <1>6, <2>3
    <3> QED
      BY <1>6, <3>1, <3>2
  <2> QED
    BY <1>2, <2>1, <2>2, <2>3
<1>7. CacheOK(t, q, bound)
  BY <1>1, <1>5, <1>6 DEF CacheOK
<1>8. ASSUME NEW j, Holds(keys, q, j) PROVE Holds(t, q, j)
  <2>1. PICK i \in 1..Len(keys) : keys[i].dhPub = q /\ keys[i].msgIndex = j
    BY <1>8 DEF Holds
  <2> QED
    BY <1>0, <1>3, <2>1 DEF Holds
<1>9. ASSUME NEW j, Holds(t, q, j) PROVE Holds(keys, q, j) \/ (d = q /\ j \in n..(n + k - 1))
  <2>1. PICK i \in 1..Len(t) : t[i].dhPub = q /\ t[i].msgIndex = j
    BY <1>9 DEF Holds
  <2>2. CASE i \in 1..Len(keys) /\ t[i] = keys[i]
    BY <2>1, <2>2 DEF Holds
  <2>3. ASSUME NEW x \in 1..(Len(t) - Len(keys)), i = Len(keys) + x
        PROVE  d = q /\ j \in n..(n + k - 1)
    BY <1>0, <1>4, <2>1, <2>3
  <2> QED
    BY <1>2, <2>2, <2>3
<1>10. ASSUME d = q, Len(t) = Len(keys) + k, NEW j \in n..(n + k - 1) PROVE Holds(t, q, j)
  <2> DEFINE x == j - n + 1
  <2>1. x \in 1..(Len(t) - Len(keys)) /\ n + x - 1 = j /\ Len(keys) + x \in 1..Len(t)
    BY <1>1, <1>10
  <2> HIDE DEF x
  <2> QED
    BY <1>0, <1>10, <2>1 DEF Holds
<1> QED
  BY <1>1, <1>7, <1>8, <1>9, <1>10 DEF HoldsMore

LEMMA ListFacts ==
    ASSUME NEW S, NEW k \in Nat, NEW f \in [1..k -> S]
    PROVE  f \in Seq(S) /\ Len(f) = k
OBVIOUS

LEMMA FrontFacts ==
    ASSUME NEW c \in Seq(Entry), NEW len \in Nat, len <= Len(c), NEW t, t = SubSeq(c, 1, len)
    PROVE  /\ t \in Seq(Entry) /\ Len(t) = len
           /\ \A i \in 1..len : t[i] = c[i]
OBVIOUS

\* What skipping k positions pushes, while there is room.
LEMMA PushFacts ==
    ASSUME NEW q \in Party, NEW n \in Nat, NEW d \in {q, Alien}, NEW k \in Nat,
           NEW keys \in Seq(Entry), Len(keys) <= MAX_SKIP,
           NEW passed, passed = SkippedKeys(q, d, n, k),
           NEW t, t = SubSeq(keys \o passed, 1, Min({Len(keys \o passed), MAX_SKIP}))
    PROVE  Grown(keys, t, q, d, n, k)
<1> DEFINE len == IF Len(keys) + k <= MAX_SKIP THEN Len(keys) + k ELSE MAX_SKIP
           cache == keys \o passed
<1>1. Len(keys) \in Nat /\ MAX_SKIP \in Nat
  BY RatchetAssumption
<1>2. ASSUME NEW i \in 1..k
      PROVE  /\ passed[i] \in Entry
             /\ passed[i].dhPub = d /\ passed[i].msgIndex = n + i - 1
             /\ passed[i].key = ChainAt(q, n + i - 1)
  <2>1. n + i - 1 \in Nat
    OBVIOUS
  <2>2. ChainAt(q, n + i - 1) \in Key
    BY <2>1, ChainFacts
  <2>3. passed[i] = [dhPub |-> d, msgIndex |-> n + i - 1, key |-> ChainAt(q, n + i - 1)]
    BY DEF SkippedKeys
  <2> QED
    BY <2>1, <2>2, <2>3 DEF Entry
<1>3. passed \in Seq(Entry) /\ Len(passed) = k
  <2>1. passed \in [1..k -> Entry]
    BY <1>2 DEF SkippedKeys
  <2> QED
    BY <2>1, ListFacts
<1> HIDE DEF cache
<1>4. /\ cache \in Seq(Entry) /\ Len(cache) = Len(keys) + k
      /\ \A i \in 1..Len(keys) : cache[i] = keys[i]
      /\ \A i \in 1..k : cache[Len(keys) + i] = passed[i]
  <2>1. /\ cache \in Seq(Entry) /\ Len(cache) = Len(keys) + Len(passed)
        /\ \A i \in 1..Len(keys) : cache[i] = keys[i]
        /\ \A i \in 1..Len(passed) : cache[Len(keys) + i] = passed[i]
    BY <1>3, JoinFacts DEF cache
  <2> QED
    BY <1>3, <2>1
<1>5. Min({Len(cache), MAX_SKIP}) = len
  BY <1>1, <1>4, LesserOf
<1>6. len \in Nat /\ Len(keys) <= len /\ len <= Len(keys) + k
  BY <1>1
<1>7. t = SubSeq(cache, 1, len)
  BY <1>5 DEF cache
<1> HIDE DEF len
<1>8. /\ t \in Seq(Entry) /\ Len(t) = len
      /\ \A i \in 1..len : t[i] = cache[i]
  <2>1. len <= Len(cache)
    BY <1>4, <1>6
  <2> QED
    BY ONLY <1>4, <1>6, <1>7, <2>1, FrontFacts
<1>9. \A i \in 1..Len(keys) : t[i] = keys[i]
  BY <1>1, <1>4, <1>6, <1>8
<1>10. ASSUME NEW x \in 1..(Len(t) - Len(keys))
       PROVE  /\ t[Len(keys) + x].dhPub = d
              /\ t[Len(keys) + x].msgIndex = n + x - 1
              /\ t[Len(keys) + x].key = ChainAt(q, n + x - 1)
  <2>1. x \in 1..k /\ Len(keys) + x \in 1..len
    BY <1>1, <1>6, <1>8
  <2>2. t[Len(keys) + x] = passed[x]
    BY <1>4, <1>8, <2>1
  <2> QED
    BY <1>2, <2>1, <2>2
<1> QED
  BY <1>8, <1>9, <1>10 DEF len, Grown

-----------------------------------------------------------------------------
(* Assignments to a state's fields                                         *)

SameBut(s, t, fields) ==
    /\ "rootKey" \in fields \/ t.rootKey = s.rootKey
    /\ "sendChainKey" \in fields \/ t.sendChainKey = s.sendChainKey
    /\ "recvChainKey" \in fields \/ t.recvChainKey = s.recvChainKey
    /\ "dhPair" \in fields \/ t.dhPair = s.dhPair
    /\ "theirDhPub" \in fields \/ t.theirDhPub = s.theirDhPub
    /\ "sendCount" \in fields \/ t.sendCount = s.sendCount
    /\ "recvCount" \in fields \/ t.recvCount = s.recvCount
    /\ "skippedKeys" \in fields \/ t.skippedKeys = s.skippedKeys

LEMMA SetRecvChainKey ==
    ASSUME NEW s \in RatchetState, NEW v \in Key, NEW t, t = [s EXCEPT !.recvChainKey = v]
    PROVE  t \in RatchetState /\ t.recvChainKey = v /\ SameBut(s, t, {"recvChainKey"})
BY DEF RatchetState, SameBut

LEMMA SetSendChainKey ==
    ASSUME NEW s \in RatchetState, NEW v \in Key, NEW t, t = [s EXCEPT !.sendChainKey = v]
    PROVE  t \in RatchetState /\ t.sendChainKey = v /\ SameBut(s, t, {"sendChainKey"})
BY DEF RatchetState, SameBut

LEMMA SetSendCount ==
    ASSUME NEW s \in RatchetState, NEW v \in Nat, NEW t, t = [s EXCEPT !.sendCount = v]
    PROVE  t \in RatchetState /\ t.sendCount = v /\ SameBut(s, t, {"sendCount"})
BY DEF RatchetState, SameBut

LEMMA SetRecvCount ==
    ASSUME NEW s \in RatchetState, NEW v \in Nat, NEW t, t = [s EXCEPT !.recvCount = v]
    PROVE  t \in RatchetState /\ t.recvCount = v /\ SameBut(s, t, {"recvCount"})
BY DEF RatchetState, SameBut

LEMMA SetSkippedKeys ==
    ASSUME NEW s \in RatchetState, NEW v \in Seq(Entry), NEW t, t = [s EXCEPT !.skippedKeys = v]
    PROVE  t \in RatchetState /\ t.skippedKeys = v /\ SameBut(s, t, {"skippedKeys"})
BY DEF RatchetState, SameBut

\* Two assignments are one after the other.
LEMMA TwoFields ==
    ASSUME NEW s \in RatchetState, NEW v, NEW w
    PROVE  /\ [s EXCEPT !.recvChainKey = v, !.skippedKeys = w]
                  = [[s EXCEPT !.recvChainKey = v] EXCEPT !.skippedKeys = w]
           /\ [s EXCEPT !.sendChainKey = v, !.sendCount = w]
                  = [[s EXCEPT !.sendChainKey = v] EXCEPT !.sendCount = w]
OBVIOUS

LEMMA ThreeFields ==
    ASSUME NEW s \in RatchetState, NEW u, NEW v, NEW w
    PROVE  [s EXCEPT !.recvChainKey = u, !.recvCount = v, !.skippedKeys = w]
               = [[[s EXCEPT !.recvChainKey = u] EXCEPT !.recvCount = v] EXCEPT !.skippedKeys = w]
OBVIOUS

-----------------------------------------------------------------------------
(* What the operations do to a state                                       *)

LEMMA StateFacts ==
    ASSUME NEW p \in Party, NEW s, PartyOK(s, p)
    PROVE  /\ s \in RatchetState
           /\ s.theirDhPub = NoKey /\ s.sendCount \in Nat /\ s.recvCount \in Nat
           /\ s.skippedKeys \in Seq(Entry) /\ Len(s.skippedKeys) \in Nat
           /\ Len(s.skippedKeys) <= MAX_SKIP
           /\ \A m : /\ ~NeedsDhRatchet(s, m) /\ SkippedInOldChain(s, m) = 0
                     /\ \A d : InChain(s, m, d) = s
<1>1. /\ s \in RatchetState
      /\ s.theirDhPub = NoKey /\ s.sendCount \in Nat /\ s.recvCount \in Nat
      /\ s.skippedKeys \in Seq(Entry) /\ Len(s.skippedKeys) \in Nat
      /\ Len(s.skippedKeys) <= MAX_SKIP
  BY DEF PartyOK, RatchetState, CacheOK
<1>2. \A m : ~NeedsDhRatchet(s, m)
  BY <1>1 DEF NeedsDhRatchet
<1> QED
  BY <1>1, <1>2 DEF SkippedInOldChain, InChain

LEMMA SealedFacts ==
    ASSUME NEW p \in Party, NEW s, PartyOK(s, p)
    PROVE  /\ PartyOK(Sealed(s), p)
           /\ Sealed(s).sendCount = s.sendCount + 1
           /\ Sealed(s).recvCount = s.recvCount
           /\ Sealed(s).skippedKeys = s.skippedKeys
<1> DEFINE c == Advance(s.sendChainKey, 1)
           a == [s EXCEPT !.sendChainKey = c]
           t == Sealed(s)
<1>1. /\ s \in RatchetState /\ s.sendCount \in Nat /\ s.sendChainKey = ChainAt(p, s.sendCount)
  BY StateFacts DEF PartyOK
<1>2. c = ChainAt(p, s.sendCount + 1) /\ c \in Key /\ s.sendCount + 1 \in Nat
  BY <1>1, ChainFacts
<1> HIDE DEF c
<1>3. t = [a EXCEPT !.sendCount = s.sendCount + 1]
  <2>1. t = [s EXCEPT !.sendChainKey = c, !.sendCount = s.sendCount + 1]
    BY DEF Sealed, c
  <2> QED
    BY <1>1, <2>1, TwoFields
<1>4. a \in RatchetState /\ a.sendChainKey = c /\ SameBut(s, a, {"sendChainKey"})
  BY <1>1, <1>2, SetSendChainKey
<1> HIDE DEF a, t
<1>5. t \in RatchetState /\ t.sendCount = s.sendCount + 1 /\ SameBut(a, t, {"sendCount"})
  BY <1>2, <1>3, <1>4, SetSendCount
<1>6. /\ t.sendChainKey = ChainAt(p, t.sendCount) /\ t.recvChainKey = s.recvChainKey
      /\ t.dhPair = s.dhPair /\ t.recvCount = s.recvCount /\ t.skippedKeys = s.skippedKeys
  BY <1>2, <1>4, <1>5 DEF SameBut
<1>7. PartyOK(t, p)
  BY <1>5, <1>6 DEF PartyOK
<1> QED
  BY <1>5, <1>6, <1>7 DEF t

\* Skipping k positions: the chain moves, the keys passed over are cached.
LEMMA SkipFacts ==
    ASSUME NEW p \in Party, NEW s, PartyOK(s, p), NEW d \in {Other(p), Alien}, NEW k \in Nat,
           NEW t, t = SkipKeys(s, d, k)
    PROVE  /\ t \in RatchetState
           /\ SameBut(s, t, {"recvChainKey", "skippedKeys"})
           /\ t.recvChainKey = ChainAt(Other(p), s.recvCount + k)
           /\ CacheOK(t.skippedKeys, Other(p), s.recvCount + (IF d = Other(p) THEN k ELSE 0))
           /\ HoldsMore(s.skippedKeys, t.skippedKeys, Other(p), d, s.recvCount, k)
<1> DEFINE q == Other(p)
           n == s.recvCount
           keys == s.skippedKeys
           skipped == SkippedKeys(q, d, n, k)
           cache == SubSeq(keys \o skipped, 1, Min({Len(keys \o skipped), MAX_SKIP}))
           c == Advance(s.recvChainKey, k)
           a == [s EXCEPT !.recvChainKey = c]
<1>1. /\ q \in Party /\ s \in RatchetState /\ n \in Nat /\ k \in Nat
      /\ keys \in Seq(Entry) /\ Len(keys) \in Nat /\ Len(keys) <= MAX_SKIP
      /\ s.recvChainKey = ChainAt(q, n) /\ CacheOK(keys, q, n) /\ d \in {q, Alien}
  BY StateFacts, Parties DEF PartyOK
<1>2. t = [s EXCEPT !.recvChainKey = c,
                    !.skippedKeys =
                        LET passed == [i \in 1..k |->
                                 [ dhPub |-> d, msgIndex |-> n + i - 1,
                                   key |-> MessageKey(Advance(s.recvChainKey, i - 1)) ]]
                        IN  SubSeq(keys \o passed, 1, Min({Len(keys \o passed), MAX_SKIP}))]
  BY DEF SkipKeys
<1>3. skipped = [i \in 1..k |-> [ dhPub |-> d, msgIndex |-> n + i - 1,
                                   key |-> MessageKey(Advance(s.recvChainKey, i - 1)) ]]
  <2> SUFFICES ASSUME NEW i \in 1..k
               PROVE  MessageKey(Advance(s.recvChainKey, i - 1)) = ChainAt(q, n + i - 1)
    BY DEF SkippedKeys
  <2> HIDE DEF skipped, cache, c, a, keys, n, q
  <2>1. i - 1 \in Nat /\ n + (i - 1) = n + i - 1
    BY <1>1
  <2>2. Advance(ChainAt(q, n), i - 1) = ChainAt(q, n + (i - 1))
    BY <1>1, <2>1, ChainFacts
  <2> QED
    BY <1>1, <2>1, <2>2 DEF MessageKey
<1>4. t = [s EXCEPT !.recvChainKey = c, !.skippedKeys = cache]
  BY <1>2, <1>3
<1>5. /\ skipped = SkippedKeys(q, d, n, k)
      /\ cache = SubSeq(keys \o skipped, 1, Min({Len(keys \o skipped), MAX_SKIP}))
  OBVIOUS
<1> HIDE DEF skipped, cache, n, keys, q
<1>6. c = ChainAt(q, n + k) /\ c \in Key
  <2>1. n + k \in Nat
    BY <1>1
  <2> QED
    BY <1>1, <2>1, ChainFacts
<1> HIDE DEF c
<1>7. t = [a EXCEPT !.skippedKeys = cache]
  BY <1>1, <1>4, TwoFields
<1>8. a \in RatchetState /\ a.recvChainKey = c /\ SameBut(s, a, {"recvChainKey"})
  BY <1>1, <1>6, SetRecvChainKey
<1> HIDE DEF a
<1>9. Grown(keys, cache, q, d, n, k)
  BY ONLY <1>1, <1>5, PushFacts
<1>10. t \in RatchetState /\ t.skippedKeys = cache /\ SameBut(a, t, {"skippedKeys"})
  BY <1>7, <1>8, <1>9, SetSkippedKeys DEF Grown
<1>11. /\ SameBut(s, t, {"recvChainKey", "skippedKeys"})
       /\ t.recvChainKey = ChainAt(q, n + k)
  BY <1>6, <1>8, <1>10 DEF SameBut
<1>12. /\ CacheOK(cache, q, n + (IF d = q THEN k ELSE 0))
       /\ HoldsMore(keys, cache, q, d, n, k)
  BY ONLY <1>1, <1>9, GrownCache
<1> QED
  BY <1>10, <1>11, <1>12 DEF n, keys, q

\* A message that q sealed in this session.
SealedBy(m, q) ==
    /\ m.dhPub = q
    /\ m.msgIndex \in Nat
    /\ m.key = ChainAt(q, m.msgIndex)

LEMMA CachedIsHeld ==
    ASSUME NEW s, NEW m
    PROVE  IsCached(s, m) <=> Holds(s.skippedKeys, m.dhPub, m.msgIndex)
BY DEF IsCached, CachedAt, Holds

\* There is one cached key for a message, and findIndex finds it.
LEMMA CachedFacts ==
    ASSUME NEW q \in Party, NEW n \in Nat, NEW s, CacheOK(s.skippedKeys, q, n),
           NEW m, SealedBy(m, q), IsCached(s, m), NEW x, x = CachedIndex(s, m)
    PROVE  /\ x \in 1..Len(s.skippedKeys)
           /\ s.skippedKeys[x].dhPub = q /\ s.skippedKeys[x].msgIndex = m.msgIndex
           /\ s.skippedKeys[x].key = m.key
<1>1. PICK y : y \in CachedAt(s, m)
  BY DEF IsCached
<1>2. CachedAt(s, m) = {y}
  BY <1>1 DEF CachedAt, CacheOK, SealedBy
<1>3. y \in 1..Len(s.skippedKeys) /\ y \in Nat
  BY <1>1 DEF CachedAt
<1>4. Min({y}) = y
  BY <1>3 DEF Min
<1>5. x = y
  BY <1>2, <1>4 DEF CachedIndex
<1> QED
  BY <1>1, <1>3, <1>5 DEF CachedAt, CacheOK, SealedBy

\* A message opens if its key is cached, or is not more than MAX_SKIP ahead.
LEMMA OpensFacts ==
    ASSUME NEW p \in Party, NEW s, PartyOK(s, p), NEW m, SealedBy(m, Other(p))
    PROVE  /\ Opens(s, m, p) <=>
                  \/ Holds(s.skippedKeys, Other(p), m.msgIndex)
                  \/ s.recvCount <= m.msgIndex /\ m.msgIndex - s.recvCount <= MAX_SKIP
           /\ IsCached(s, m) <=> Holds(s.skippedKeys, Other(p), m.msgIndex)
<1> DEFINE q == Other(p)
           k == m.msgIndex - s.recvCount
<1>1. /\ q \in Party /\ s.recvCount \in Nat /\ m.msgIndex \in Nat /\ m.dhPub = q
      /\ MAX_SKIP \in Nat /\ CacheOK(s.skippedKeys, q, s.recvCount)
  BY StateFacts, Parties, RatchetAssumption DEF PartyOK, SealedBy
<1>2. IsCached(s, m) <=> Holds(s.skippedKeys, q, m.msgIndex)
  BY <1>1, CachedIsHeld
<1>3. CASE IsCached(s, m)
  <2>1. s.skippedKeys[CachedIndex(s, m)].key = m.key
    BY <1>1, <1>3, CachedFacts
  <2> QED
    BY <1>2, <1>3, <2>1 DEF Opens
<1>4. CASE ~IsCached(s, m)
  <2>1. /\ BeforeExpected(s, m, p) <=> m.msgIndex < s.recvCount
        /\ SkipLimitExceeded(s, m, p) <=> k > MAX_SKIP
        /\ AtMessage(s, m, p) = SkipKeys(s, q, k)
    <3>1. SkippedInOldChain(s, m) = 0 /\ InChain(s, m, p) = s
      BY StateFacts
    <3> QED
      BY <1>1, <3>1 DEF BeforeExpected, SkipLimitExceeded, AtMessage
  <2>2. ASSUME s.recvCount <= m.msgIndex
        PROVE  MessageKey(AtMessage(s, m, p).recvChainKey) = m.key
    <3>1. k \in Nat /\ s.recvCount + k = m.msgIndex
      BY <1>1, <2>2
    <3>2. SkipKeys(s, q, k).recvChainKey = ChainAt(q, s.recvCount + k)
      BY <3>1, SkipFacts
    <3> QED
      BY <2>1, <3>1, <3>2 DEF MessageKey, SealedBy
  <2>3. Opens(s, m, p) <=> /\ ~BeforeExpected(s, m, p)
                           /\ ~SkipLimitExceeded(s, m, p)
                           /\ MessageKey(AtMessage(s, m, p).recvChainKey) = m.key
    BY <1>4 DEF Opens
  <2> HIDE DEF k
  <2>4. m.msgIndex < s.recvCount <=> ~(s.recvCount <= m.msgIndex)
    BY <1>1
  <2>5. k \in Int /\ (k > MAX_SKIP <=> ~(k <= MAX_SKIP))
    BY <1>1 DEF k
  <2> QED
    BY <1>2, <1>4, <2>1, <2>2, <2>3, <2>4, <2>5 DEF k
<1> QED
  BY <1>2, <1>3, <1>4

\* Opening a message takes its key and no other, unless there is no room.
LEMMA OpenedFacts ==
    ASSUME NEW p \in Party, NEW s, PartyOK(s, p), NEW m, SealedBy(m, Other(p)),
           Opens(s, m, p), NEW t, t = Opened(s, m, p)
    PROVE  /\ PartyOK(t, p) /\ t.sendCount = s.sendCount
           /\ s.recvCount <= t.recvCount /\ m.msgIndex < t.recvCount
           /\ t.recvCount = s.recvCount \/ t.recvCount = m.msgIndex + 1
           /\ ~Holds(t.skippedKeys, Other(p), m.msgIndex)
           /\ \A j : Holds(t.skippedKeys, Other(p), j) =>
                         Holds(s.skippedKeys, Other(p), j) \/ j >= s.recvCount
           /\ \/ /\ ~IsCached(s, m)
                 /\ Len(s.skippedKeys) + m.msgIndex - s.recvCount > Min({MAX_SKIP, MAX_SKIPPED_KEYS})
              \/ \A j \in 0..(t.recvCount - 1) :
                     \/ j = m.msgIndex
                     \/ Holds(t.skippedKeys, Other(p), j)
                     \/ j < s.recvCount /\ ~Holds(s.skippedKeys, Other(p), j)
<1> DEFINE q == Other(p)
           n == s.recvCount
           keys == s.skippedKeys
           i == m.msgIndex
<1>1. /\ q \in Party /\ q # Alien /\ s \in RatchetState /\ n \in Nat /\ i \in Nat
      /\ m.dhPub = q
      /\ keys \in Seq(Entry) /\ Len(keys) \in Nat /\ CacheOK(keys, q, n)
      /\ s.dhPair = p /\ s.sendChainKey = ChainAt(p, s.sendCount) /\ s.recvChainKey = ChainAt(q, n)
      /\ MAX_SKIP \in Nat /\ MAX_SKIPPED_KEYS \in Nat
  BY StateFacts, Parties, RatchetAssumption DEF PartyOK, SealedBy
<1>2. CASE IsCached(s, m)
  <2> DEFINE x == CachedIndex(s, m)
             kept == WithoutEntry(keys, x)
  <2>1. x \in 1..Len(keys) /\ keys[x].dhPub = q /\ keys[x].msgIndex = i
    BY <1>1, <1>2, CachedFacts
  <2>2. t = [s EXCEPT !.skippedKeys = kept]
    BY <1>2 DEF Opened
  <2> HIDE DEF x, kept, keys, n, i
  <2>3. /\ CacheOK(kept, q, n)
        /\ \A j : Holds(kept, q, j) <=> Holds(keys, q, j) /\ j # i
    BY <1>1, <2>1, WithoutEntryFacts DEF kept
  <2>4. /\ t \in RatchetState /\ t.skippedKeys = kept /\ SameBut(s, t, {"skippedKeys"})
    BY <1>1, <2>2, <2>3, SetSkippedKeys DEF CacheOK
  <2>5. /\ t.dhPair = p /\ t.sendChainKey = s.sendChainKey /\ t.sendCount = s.sendCount
        /\ t.recvChainKey = s.recvChainKey /\ t.recvCount = n
    BY <1>1, <2>4 DEF SameBut, n
  <2>6. PartyOK(t, p)
    BY <1>1, <2>3, <2>4, <2>5 DEF PartyOK, n, q
  <2>7. i < n
    BY <1>1, <2>1 DEF CacheOK
  <2> QED
    BY <1>1, <2>3, <2>4, <2>5, <2>6, <2>7 DEF n, keys, i, q
<1>3. CASE ~IsCached(s, m)
  <2> DEFINE k == i - n
             a == SkipKeys(s, q, k)
             kept == KeepLast(a.skippedKeys, MAX_SKIPPED_KEYS)
             c == Advance(a.recvChainKey, 1)
             b1 == [a EXCEPT !.recvChainKey = c]
             b2 == [b1 EXCEPT !.recvCount = i + 1]
  <2>1. n <= i /\ ~Holds(keys, q, i)
    BY <1>3, OpensFacts
  <2>2. k \in Nat /\ n + k = i /\ n <= i + 1 /\ i + 1 \in Nat
    BY <1>1, <2>1
  <2>3. /\ a \in RatchetState /\ SameBut(s, a, {"recvChainKey", "skippedKeys"})
        /\ a.recvChainKey = ChainAt(q, n + k)
        /\ CacheOK(a.skippedKeys, q, n + k)
        /\ HoldsMore(keys, a.skippedKeys, q, q, n, k)
    BY <2>2, SkipFacts
  <2>4. t = [a EXCEPT !.recvChainKey = c, !.recvCount = i + 1, !.skippedKeys = kept]
    <3>1. InChain(s, m, p) = s
      BY StateFacts
    <3>2. AtMessage(s, m, p) = a
      BY <1>1, <3>1 DEF AtMessage
    <3> HIDE DEF a
    <3> QED
      BY <1>3, <3>2 DEF Opened
  <2> HIDE DEF k, a, keys, n, i, q, c
  <2>5. t = [b2 EXCEPT !.skippedKeys = kept]
    BY <2>3, <2>4, ThreeFields
  <2>6. c = ChainAt(q, i + 1) /\ c \in Key
    <3>1. ChainAt(q, i + 1) \in Key
      BY <1>1, <2>2, ChainFacts
    <3>2. Advance(ChainAt(q, i), 1) = ChainAt(q, i + 1)
      BY <1>1, ChainFacts
    <3> QED
      BY <2>2, <2>3, <3>1, <3>2 DEF c
  <2>7. /\ CacheOK(kept, q, i)
        /\ \A j : Holds(kept, q, j) => Holds(a.skippedKeys, q, j)
        /\ Len(a.skippedKeys) <= MAX_SKIPPED_KEYS => kept = a.skippedKeys
    <3>1. CacheOK(a.skippedKeys, q, i)
      BY <2>2, <2>3
    <3> QED
      BY ONLY <1>1, <3>1, KeepLastFacts
  <2> HIDE DEF kept
  <2>8. b1 \in RatchetState /\ b1.recvChainKey = c /\ SameBut(a, b1, {"recvChainKey"})
    BY <2>3, <2>6, SetRecvChainKey
  <2> HIDE DEF b1
  <2>9. b2 \in RatchetState /\ b2.recvCount = i + 1 /\ SameBut(b1, b2, {"recvCount"})
    BY <2>2, <2>8, SetRecvCount
  <2> HIDE DEF b2
  <2>10. t \in RatchetState /\ t.skippedKeys = kept /\ SameBut(b2, t, {"skippedKeys"})
    BY <2>5, <2>7, <2>9, SetSkippedKeys DEF CacheOK
  <2>11. /\ t.dhPair = p /\ t.sendChainKey = s.sendChainKey /\ t.sendCount = s.sendCount
         /\ t.recvChainKey = ChainAt(q, i + 1) /\ t.recvCount = i + 1
    BY <1>1, <2>3, <2>6, <2>8, <2>9, <2>10 DEF SameBut
  <2>12. CacheOK(kept, q, i + 1)
    <3>1. \A x \in 1..Len(kept) : kept[x] \in Entry
      BY <2>7 DEF CacheOK
    <3>2. \A x \in 1..Len(kept) : kept[x].dhPub = q => kept[x].msgIndex < i + 1
      BY <1>1, <2>7, <3>1 DEF CacheOK, Entry
    <3> QED
      BY <2>7, <3>2 DEF CacheOK
  <2>13. PartyOK(t, p)
    BY <1>1, <2>10, <2>11, <2>12 DEF PartyOK, q
  <2>14. ~Holds(kept, q, i) /\ \A j : Holds(kept, q, j) => Holds(keys, q, j) \/ j >= n
    <3>1. \A j : Holds(kept, q, j) => Holds(keys, q, j) \/ j \in n..(n + k - 1)
      BY <2>3, <2>7 DEF HoldsMore
    <3>2. ~(i \in n..(n + k - 1)) /\ \A j \in n..(n + k - 1) : j >= n
      BY <1>1, <2>2
    <3> QED
      BY <2>1, <3>1, <3>2
  <2>15. \/ Len(keys) + i - n > Min({MAX_SKIP, MAX_SKIPPED_KEYS})
         \/ \A j \in 0..(t.recvCount - 1) :
                j = i \/ Holds(kept, q, j) \/ (j < n /\ ~Holds(keys, q, j))
    <3> SUFFICES ASSUME ~(Len(keys) + i - n > Min({MAX_SKIP, MAX_SKIPPED_KEYS})),
                        NEW j \in 0..(t.recvCount - 1), j # i, j >= n \/ Holds(keys, q, j)
                 PROVE  Holds(kept, q, j)
      BY <1>1
    <3>1. Len(keys) + k <= MAX_SKIP /\ Len(keys) + k <= MAX_SKIPPED_KEYS
      BY <1>1, LesserOf DEF k
    <3>2. kept = a.skippedKeys
      BY <2>3, <2>7, <3>1 DEF HoldsMore
    <3>3. CASE Holds(keys, q, j)
      BY <2>3, <3>2, <3>3 DEF HoldsMore
    <3>4. CASE j >= n
      <4>1. j \in n..(n + k - 1)
        BY <1>1, <2>2, <2>11, <3>4
      <4> QED
        BY <2>3, <3>1, <3>2, <4>1 DEF HoldsMore
    <3> QED
      BY <3>3, <3>4
  <2>16. i < i + 1
    BY <1>1
  <2> QED
    BY <1>3, <2>2, <2>10, <2>11, <2>13, <2>14, <2>15, <2>16 DEF n, keys, i, q
<1> QED
  BY <1>2, <1>3

\* A message of the session that does not open leaves the state as it is.
LEMMA LeftFacts ==
    ASSUME NEW p \in Party, NEW s, PartyOK(s, p), NEW m, SealedBy(m, Other(p)), ~Opens(s, m, p)
    PROVE  Left(s, m, p) = s
<1> DEFINE i == m.msgIndex
           n == s.recvCount
<1>1. /\ n \in Nat /\ i \in Nat /\ MAX_SKIP \in Nat /\ s \in RatchetState
      /\ SkippedInOldChain(s, m) = 0 /\ InChain(s, m, p) = s
  BY StateFacts, RatchetAssumption DEF SealedBy
<1>2. BeforeExpected(s, m, p) \/ SkipLimitExceeded(s, m, p)
  BY <1>1, OpensFacts DEF BeforeExpected, SkipLimitExceeded
<1>3. Left(s, m, p) = [s EXCEPT !.skippedKeys = s.skippedKeys]
  BY <1>1, <1>2 DEF Left
<1> QED
  BY <1>1, <1>3 DEF RatchetState

\* A message of another session leaves at most some keys under its own name.
LEMMA ForeignFacts ==
    ASSUME NEW p \in Party, NEW s, PartyOK(s, p), NEW m, m.dhPub = Alien, m.msgIndex \in Nat,
           NEW t, t = Left(s, m, p)
    PROVE  /\ PartyOK(t, p) /\ t.sendCount = s.sendCount /\ t.recvCount = s.recvCount
           /\ \A j : Holds(t.skippedKeys, Other(p), j) <=> Holds(s.skippedKeys, Other(p), j)
<1> DEFINE q == Other(p)
           i == m.msgIndex
           n == s.recvCount
           a == SkipKeys(s, Alien, i - n)
<1>1. /\ n \in Nat /\ i \in Nat /\ MAX_SKIP \in Nat /\ s \in RatchetState
      /\ q \in Party /\ q # Alien /\ CacheOK(s.skippedKeys, q, n)
      /\ InChain(s, m, p) = s
  BY StateFacts, Parties, RatchetAssumption DEF PartyOK
<1>2. AtMessage(s, m, p) = a
  BY <1>1 DEF AtMessage
<1>3. PICK keys : /\ t = [s EXCEPT !.skippedKeys = keys]
                  /\ keys = s.skippedKeys \/ (keys = a.skippedKeys /\ ~BeforeExpected(s, m, p))
  <2> HIDE DEF a
  <2>1. CASE IsCached(s, m) \/ SkippedInOldChain(s, m) > MAX_SKIP
    BY <1>1, <2>1 DEF Left
  <2>2. CASE /\ ~(IsCached(s, m) \/ SkippedInOldChain(s, m) > MAX_SKIP)
             /\ BeforeExpected(s, m, p) \/ SkipLimitExceeded(s, m, p)
    BY <1>1, <2>2 DEF Left
  <2>3. CASE /\ ~(IsCached(s, m) \/ SkippedInOldChain(s, m) > MAX_SKIP)
             /\ ~(BeforeExpected(s, m, p) \/ SkipLimitExceeded(s, m, p))
    BY <1>2, <2>3 DEF Left
  <2> QED
    BY <2>1, <2>2, <2>3
<1>4. /\ CacheOK(keys, q, n)
      /\ \A j : Holds(keys, q, j) <=> Holds(s.skippedKeys, q, j)
  <2>1. CASE keys = s.skippedKeys
    BY <1>1, <2>1
  <2>2. CASE keys = a.skippedKeys /\ ~BeforeExpected(s, m, p)
    <3>1. i - n \in Nat
      BY <1>1, <2>2 DEF BeforeExpected
    <3>2. CacheOK(a.skippedKeys, q, n + (IF Alien = q THEN i - n ELSE 0))
          /\ HoldsMore(s.skippedKeys, a.skippedKeys, q, Alien, n, i - n)
      BY <3>1, SkipFacts
    <3>3. n + (IF Alien = q THEN i - n ELSE 0) = n
      BY <1>1
    <3> HIDE DEF a
    <3> QED
      BY <1>1, <2>2, <3>2, <3>3 DEF HoldsMore
  <2> QED
    BY <1>3, <2>1, <2>2
<1> HIDE DEF a, n, i
<1>5. /\ t \in RatchetState /\ t.skippedKeys = keys /\ SameBut(s, t, {"skippedKeys"})
  BY <1>1, <1>3, <1>4, SetSkippedKeys DEF CacheOK
<1>6. /\ t.dhPair = p /\ t.sendChainKey = ChainAt(p, t.sendCount) /\ t.sendCount = s.sendCount
      /\ t.recvChainKey = ChainAt(q, n) /\ t.recvCount = n
  BY <1>5 DEF SameBut, PartyOK, n
<1> QED
  BY <1>4, <1>5, <1>6 DEF PartyOK, n

LEMMA PrunedFacts ==
    ASSUME NEW p \in Party, NEW s, PartyOK(s, p), NEW max \in Nat, NEW t, t = Pruned(s, max)
    PROVE  /\ PartyOK(t, p) /\ t.sendCount = s.sendCount /\ t.recvCount = s.recvCount
           /\ \A j : Holds(t.skippedKeys, Other(p), j) => Holds(s.skippedKeys, Other(p), j)
<1> DEFINE q == Other(p)
           n == s.recvCount
           keys == KeepLast(s.skippedKeys, max)
<1>1. /\ n \in Nat /\ s \in RatchetState /\ q \in Party /\ CacheOK(s.skippedKeys, q, n)
      /\ t = [s EXCEPT !.skippedKeys = keys]
  BY StateFacts, Parties DEF PartyOK, Pruned
<1>2. CacheOK(keys, q, n) /\ \A j : Holds(keys, q, j) => Holds(s.skippedKeys, q, j)
  BY <1>1, KeepLastFacts
<1> HIDE DEF keys, n
<1>3. /\ t \in RatchetState /\ t.skippedKeys = keys /\ SameBut(s, t, {"skippedKeys"})
  BY <1>1, <1>2, SetSkippedKeys DEF CacheOK
<1>4. /\ t.dhPair = p /\ t.sendChainKey = ChainAt(p, t.sendCount) /\ t.sendCount = s.sendCount
      /\ t.recvChainKey = ChainAt(q, n) /\ t.recvCount = n
  BY <1>3 DEF SameBut, PartyOK, n
<1> QED
  BY <1>2, <1>3, <1>4 DEF PartyOK, n

-----------------------------------------------------------------------------
(* The invariant of the session                                            *)

PartyInv ==
    /\ state \in [Party -> RatchetState]
    /\ \A p \in Party : PartyOK(state[p], p) /\ state[p].sendCount <= MaxSend[p]

SentInv ==
    /\ DOMAIN sent = Party
    /\ \A p \in Party :
           /\ \A m \in sent[p] : SealedBy(m, p) /\ m.msgIndex < state[p].sendCount
           /\ \A m, k \in sent[p] : m.msgIndex = k.msgIndex => m = k
           /\ state[Other(p)].recvCount <= state[p].sendCount

\* What was read is behind the chain, and its key is not cached.
ReadInv ==
    /\ DOMAIN read = Party
    /\ \A p \in Party :
           /\ read[p] \subseteq sent[Other(p)]
           /\ \A m \in read[p] : /\ m.msgIndex < state[p].recvCount
                                 /\ ~Holds(state[p].skippedKeys, Other(p), m.msgIndex)

\* What is behind the chain and was not read is cached.
UnreadInv ==
    \A p \in Party :
        \/ full[p]
        \/ \A m \in sent[Other(p)] \ read[p] :
               \/ m.msgIndex >= state[p].recvCount
               \/ Holds(state[p].skippedKeys, Other(p), m.msgIndex)

BoundInv ==
    /\ full \in [Party -> BOOLEAN]
    /\ foreign \in [Party -> 0..MaxForeign]

SessionInv == PartyInv /\ SentInv /\ ReadInv /\ UnreadInv /\ BoundInv

LEMMA SessionInit == Init => SessionInv
<1> SUFFICES ASSUME Init PROVE SessionInv
  OBVIOUS
<1>1. ASSUME NEW p \in Party
      PROVE  /\ PartyOK(state[p], p) /\ state[p].sendCount = 0 /\ state[p].recvCount = 0
  <2> DEFINE s == initRatchet(SessionKey, p, p = "initiator")
  <2>1. s = [ rootKey |-> SessionKey, sendChainKey |-> ChainAt(p, 0),
              recvChainKey |-> ChainAt(Other(p), 0), dhPair |-> p, theirDhPub |-> NoKey,
              sendCount |-> 0, recvCount |-> 0, skippedKeys |-> <<>> ]
    BY DEF initRatchet, ChainAt, Chain, Way, Other, Party
  <2>2. /\ ChainAt(p, 0) \in Key /\ ChainAt(Other(p), 0) \in Key
        /\ <<>> \in Seq(Entry) /\ CacheOK(<<>>, Other(p), 0)
    BY Parties, ChainFacts, RatchetAssumption DEF CacheOK
  <2> HIDE DEF s
  <2>3. s \in RatchetState
    BY <2>1, <2>2 DEF RatchetState
  <2>4. PartyOK(s, p) /\ s.sendCount = 0 /\ s.recvCount = 0
    BY <2>1, <2>2, <2>3 DEF PartyOK
  <2> QED
    BY <2>4 DEF Init, s
<1>2. \A p \in Party : MaxSend[p] \in Nat
  BY SessionAssumption DEF Party
<1>3. PartyInv
  <2>1. DOMAIN state = Party /\ state = [p \in Party |-> state[p]]
    BY DEF Init
  <2>2. state \in [Party -> RatchetState]
    BY <1>1, <2>1 DEF PartyOK
  <2> QED
    BY <1>1, <1>2, <2>2 DEF PartyInv
<1>4. SentInv /\ ReadInv /\ UnreadInv /\ BoundInv
  BY <1>1, Parties, SessionAssumption DEF Init, SentInv, ReadInv, UnreadInv, BoundInv
<1> QED
  BY <1>3, <1>4 DEF SessionInv

\* A step of p that gives it the state t and reads what is in `more'; `over'
\* says that there was no room.
Moves(p, t, more, over) ==
    /\ state' = [state EXCEPT ![p] = t]
    /\ sent' = sent
    /\ DOMAIN read' = Party
    /\ read'[p] = read[p] \union more
    /\ \A r \in Party \ {p} : read'[r] = read[r]
    /\ full' \in [Party -> BOOLEAN]
    /\ full'[p] <=> full[p] \/ over
    /\ \A r \in Party \ {p} : full'[r] <=> full[r]

\* In t the keys of `more' are gone, no other that s could have is if there was
\* room, and none is there that was gone in s.
Takes(s, t, p, more, over) ==
    /\ t.sendCount = s.sendCount
    /\ s.recvCount <= t.recvCount
    /\ t.recvCount <= state[Other(p)].sendCount
    /\ \A m \in more : /\ m.msgIndex < t.recvCount
                       /\ ~Holds(t.skippedKeys, Other(p), m.msgIndex)
    /\ \A j : Holds(t.skippedKeys, Other(p), j) =>
                  Holds(s.skippedKeys, Other(p), j) \/ j >= s.recvCount
    /\ \/ over
       \/ \A m \in sent[Other(p)] \ more :
              \/ m.msgIndex >= t.recvCount
              \/ Holds(t.skippedKeys, Other(p), m.msgIndex)
              \/ m.msgIndex < s.recvCount /\ ~Holds(s.skippedKeys, Other(p), m.msgIndex)

LEMMA StepKeepsSession ==
    ASSUME SessionInv, NEW p \in Party, NEW t, PartyOK(t, p), NEW more,
           more \subseteq sent[Other(p)], NEW over \in BOOLEAN, Moves(p, t, more, over),
           Takes(state[p], t, p, more, over)
    PROVE  PartyInv' /\ SentInv' /\ ReadInv' /\ UnreadInv' /\ full' \in [Party -> BOOLEAN]
<1> USE DEF SessionInv
<1>1. /\ state'[p] = t /\ \A r \in Party \ {p} : state'[r] = state[r]
      /\ read'[p] = read[p] \union more /\ \A r \in Party \ {p} : read'[r] = read[r]
      /\ DOMAIN read' = Party /\ sent' = sent
      /\ full'[p] <=> full[p] \/ over
      /\ \A r \in Party \ {p} : full'[r] <=> full[r]
      /\ full' \in [Party -> BOOLEAN] /\ Other(p) \in Party
      /\ t.sendCount = state[p].sendCount
      /\ state[p].recvCount <= t.recvCount /\ t.recvCount <= state[Other(p)].sendCount
  BY Parties DEF PartyInv, Moves, Takes
<1>2. PartyInv'
  <2>1. state' \in [Party -> RatchetState]
    BY DEF PartyInv, PartyOK, Moves
  <2>2. ASSUME NEW r \in Party PROVE PartyOK(state'[r], r) /\ state'[r].sendCount <= MaxSend[r]
    <3>1. CASE r = p
      BY <1>1, <3>1 DEF PartyInv
    <3>2. CASE r # p
      BY <1>1, <3>2 DEF PartyInv
    <3> QED
      BY <3>1, <3>2
  <2> QED
    BY <2>1, <2>2 DEF PartyInv
<1>3. \A r \in Party : state'[r].sendCount = state[r].sendCount
  BY <1>1
<1>4. SentInv'
  <2>1. \A r \in Party : state'[Other(r)].recvCount <= state[r].sendCount
    BY <1>1, Parties DEF SentInv
  <2> QED
    BY <1>1, <1>3, <2>1 DEF SentInv
<1>5. /\ state[p].recvCount \in Nat /\ t.recvCount \in Nat
      /\ \A m \in sent[Other(p)] : m.msgIndex \in Nat
  BY <1>1 DEF PartyInv, PartyOK, RatchetState, SentInv, SealedBy
<1>6. ReadInv'
  <2>1. ASSUME NEW r \in Party
        PROVE  /\ read'[r] \subseteq sent[Other(r)]
               /\ \A m \in read'[r] : /\ m.msgIndex < state'[r].recvCount
                                      /\ ~Holds(state'[r].skippedKeys, Other(r), m.msgIndex)
    <3>1. CASE r # p
      BY <1>1, <3>1 DEF ReadInv
    <3>2. CASE r = p
      <4>1. ASSUME NEW m \in read[p]
            PROVE  m.msgIndex < t.recvCount /\ ~Holds(t.skippedKeys, Other(p), m.msgIndex)
        <5>1. /\ m \in sent[Other(p)] /\ m.msgIndex < state[p].recvCount
              /\ ~Holds(state[p].skippedKeys, Other(p), m.msgIndex)
          BY DEF ReadInv
        <5>2. m.msgIndex \in Nat /\ ~(m.msgIndex >= state[p].recvCount)
          BY <1>5, <5>1
        <5>3. m.msgIndex < t.recvCount
          BY <1>1, <1>5, <5>1
        <5> QED
          BY <5>1, <5>2, <5>3 DEF Takes
      <4>2. read[p] \subseteq sent[Other(p)]
        BY DEF ReadInv
      <4> QED
        BY <1>1, <3>2, <4>1, <4>2 DEF Takes
    <3> QED
      BY <3>1, <3>2
  <2> QED
    BY <1>1, <2>1 DEF ReadInv
<1>7. UnreadInv'
  <2>1. ASSUME NEW r \in Party, ~full'[r], NEW m \in sent[Other(r)] \ read'[r]
        PROVE  m.msgIndex >= state'[r].recvCount \/ Holds(state'[r].skippedKeys, Other(r), m.msgIndex)
    <3>1. CASE r # p
      BY <1>1, <2>1, <3>1 DEF UnreadInv
    <3>2. CASE r = p
      <4>1. /\ m \in sent[Other(p)] \ more /\ m \in sent[Other(p)] \ read[p]
            /\ ~full[p] /\ ~over /\ m.msgIndex \in Nat
        BY <1>1, <1>5, <2>1, <3>2
      <4>2. ~(m.msgIndex < state[p].recvCount /\ ~Holds(state[p].skippedKeys, Other(p), m.msgIndex))
        BY <1>5, <4>1 DEF UnreadInv
      <4> QED
        BY <1>1, <3>2, <4>1, <4>2 DEF Takes
    <3> QED
      BY <3>1, <3>2
  <2> QED
    BY <1>1, <2>1 DEF UnreadInv
<1> QED
  BY <1>1, <1>2, <1>4, <1>6, <1>7

LEMMA EncryptStep ==
    ASSUME SessionInv, NEW p \in Party, Encrypt(p)
    PROVE  SessionInv'
<1> USE DEF SessionInv
<1> DEFINE s == state[p]
           t == Sealed(s)
           new == Seal(s)
<1>1. /\ state' = [state EXCEPT ![p] = t] /\ sent' = [sent EXCEPT ![p] = @ \union {new}]
      /\ read' = read /\ foreign' = foreign /\ full' = full
      /\ s.sendCount < MaxSend[p] /\ MaxSend[p] \in Nat
  BY SessionAssumption DEF Encrypt, Party
<1>2. /\ PartyOK(s, p) /\ s.sendCount \in Nat
      /\ PartyOK(t, p) /\ t.sendCount = s.sendCount + 1 /\ t.recvCount = s.recvCount
      /\ t.skippedKeys = s.skippedKeys
  BY SealedFacts, StateFacts DEF PartyInv
<1>3. SealedBy(new, p) /\ new.msgIndex = s.sendCount
  BY <1>2 DEF SealedBy, Seal, MessageKey, PartyOK
<1> HIDE DEF s, t, new
<1>4. /\ state'[p] = t /\ \A r \in Party \ {p} : state'[r] = state[r]
      /\ sent'[p] = sent[p] \union {new} /\ \A r \in Party \ {p} : sent'[r] = sent[r]
      /\ DOMAIN sent' = Party
  BY <1>1 DEF PartyInv, SentInv
<1>5. PartyInv'
  <2>1. state' \in [Party -> RatchetState]
    BY <1>1, <1>2 DEF PartyInv, PartyOK
  <2>2. ASSUME NEW r \in Party PROVE PartyOK(state'[r], r) /\ state'[r].sendCount <= MaxSend[r]
    <3>1. CASE r = p
      BY <1>1, <1>2, <1>4, <3>1
    <3>2. CASE r # p
      BY <1>4, <3>2 DEF PartyInv
    <3> QED
      BY <3>1, <3>2
  <2> QED
    BY <2>1, <2>2 DEF PartyInv
<1>6. /\ \A m \in sent[p] : m.msgIndex \in Nat /\ m.msgIndex < s.sendCount
  BY DEF SentInv, SealedBy, s
<1>8. \A r \in Party : /\ state'[r].recvCount = state[r].recvCount
                       /\ state'[r].skippedKeys = state[r].skippedKeys
  BY <1>2, <1>4 DEF s
<1>7. SentInv'
  <2>1. ASSUME NEW r \in Party
        PROVE  /\ \A m \in sent'[r] : SealedBy(m, r) /\ m.msgIndex < state'[r].sendCount
               /\ \A m, k \in sent'[r] : m.msgIndex = k.msgIndex => m = k
               /\ state'[Other(r)].recvCount <= state'[r].sendCount
    <3> /\ state'[Other(r)].recvCount = state[Other(r)].recvCount /\ Other(r) # r
        /\ state[Other(r)].recvCount <= state[r].sendCount
        /\ state[Other(r)].recvCount \in Nat /\ state[r].sendCount \in Nat
      BY <1>8, Parties, StateFacts DEF SentInv, PartyInv
    <3>1. CASE r = p
      <4>1. ASSUME NEW m \in sent[p] PROVE m.msgIndex < t.sendCount /\ m.msgIndex # new.msgIndex
        BY <1>2, <1>3, <1>6
      <4>2. new.msgIndex < t.sendCount
        BY <1>2, <1>3
      <4>3. t.recvCount = s.recvCount /\ state[Other(p)].recvCount <= t.sendCount
        BY <1>2, <3>1 DEF s
      <4> QED
        BY <1>3, <1>4, <3>1, <4>1, <4>2, <4>3 DEF SentInv
    <3>2. CASE r # p
      BY <1>4, <3>2 DEF SentInv
    <3> QED
      BY <3>1, <3>2
  <2> QED
    BY <1>4, <2>1 DEF SentInv
<1>9. ReadInv'
  <2>1. \A r \in Party : Other(r) \in Party /\ sent[r] \subseteq sent'[r]
    BY <1>4, Parties
  <2> QED
    BY <1>1, <1>8, <2>1 DEF ReadInv
<1>10. UnreadInv'
  <2>1. ASSUME NEW r \in Party, ~full[r], NEW m \in sent'[Other(r)] \ read[r]
        PROVE  m.msgIndex >= state[r].recvCount \/ Holds(state[r].skippedKeys, Other(r), m.msgIndex)
    <3>1. CASE m \in sent[Other(r)]
      BY <2>1, <3>1 DEF UnreadInv
    <3>2. CASE m \notin sent[Other(r)]
      <4>1. Other(r) = p /\ m = new /\ Other(r) \in Party
        BY <1>4, <2>1, <3>2, Parties
      <4>2. state[r].recvCount <= s.sendCount
        BY <4>1, Parties DEF SentInv, s
      <4> QED
        BY <1>2, <1>3, <4>1, <4>2, StateFacts DEF PartyInv
    <3> QED
      BY <3>1, <3>2
  <2> QED
    BY <1>1, <1>8, <2>1 DEF UnreadInv
<1> QED
  BY <1>1, <1>5, <1>7, <1>9, <1>10 DEF BoundInv

LEMMA ReceiveStep ==
    ASSUME SessionInv, NEW p \in Party, NEW m, Receive(p, m)
    PROVE  SessionInv'
<1> USE DEF SessionInv
<1> DEFINE s == state[p]
           q == Other(p)
<1>1. /\ q \in Party /\ PartyOK(s, p) /\ s.recvCount \in Nat
      /\ m \in sent[q] /\ SealedBy(m, q) /\ m.msgIndex \in Nat
      /\ m.msgIndex < state[q].sendCount /\ s.recvCount <= state[q].sendCount
      /\ state[q].sendCount \in Nat
      /\ sent' = sent /\ foreign' = foreign
      /\ DOMAIN state = Party /\ DOMAIN read = Party
  BY Parties, StateFacts DEF Receive, PartyInv, SentInv, ReadInv, SealedBy
<1>2. CASE Opens(s, m, p) /\ state' = [state EXCEPT ![p] = Opened(@, m, p)]
           /\ read' = [read EXCEPT ![p] = @ \union {m}]
           /\ full' = [full EXCEPT ![p] = @ \/ Overflows(p, m)]
  <2> DEFINE t == Opened(s, m, p)
             over == Overflows(p, m)
  <2>1. /\ PartyOK(t, p) /\ t.sendCount = s.sendCount
        /\ s.recvCount <= t.recvCount /\ m.msgIndex < t.recvCount
        /\ t.recvCount = s.recvCount \/ t.recvCount = m.msgIndex + 1
        /\ ~Holds(t.skippedKeys, q, m.msgIndex)
        /\ \A j : Holds(t.skippedKeys, q, j) => Holds(s.skippedKeys, q, j) \/ j >= s.recvCount
        /\ \/ over
           \/ \A j \in 0..(t.recvCount - 1) :
                  \/ j = m.msgIndex
                  \/ Holds(t.skippedKeys, q, j)
                  \/ j < s.recvCount /\ ~Holds(s.skippedKeys, q, j)
    BY <1>1, <1>2, OpenedFacts DEF Overflows
  <2>2. t.recvCount <= state[q].sendCount
    BY <1>1, <2>1
  <2>3. state' = [state EXCEPT ![p] = t]
    BY <1>2
  <2>4. over \in BOOLEAN /\ full' = [full EXCEPT ![p] = @ \/ over]
    BY <1>2 DEF Overflows
  <2> HIDE DEF t, over
  <2>5. \/ over
        \/ \A k \in sent[q] \ {m} :
               \/ k.msgIndex >= t.recvCount
               \/ Holds(t.skippedKeys, q, k.msgIndex)
               \/ k.msgIndex < s.recvCount /\ ~Holds(s.skippedKeys, q, k.msgIndex)
    <3> SUFFICES ASSUME ~over, NEW k \in sent[q] \ {m}, ~(k.msgIndex >= t.recvCount)
                 PROVE  \/ Holds(t.skippedKeys, q, k.msgIndex)
                        \/ k.msgIndex < s.recvCount /\ ~Holds(s.skippedKeys, q, k.msgIndex)
      OBVIOUS
    <3>1. k.msgIndex # m.msgIndex /\ k.msgIndex \in Nat
      BY <1>1 DEF SentInv, SealedBy
    <3>2. t.recvCount \in Nat
      BY <2>1, StateFacts
    <3>3. k.msgIndex \in 0..(t.recvCount - 1)
      BY <3>1, <3>2
    <3> QED
      BY <2>1, <3>1, <3>3
  <2>6. Takes(s, t, p, {m}, over)
    BY <2>1, <2>2, <2>5 DEF Takes
  <2>7. Moves(p, t, {m}, over)
    BY <1>1, <1>2, <2>3, <2>4 DEF Moves, BoundInv
  <2>8. PartyInv' /\ SentInv' /\ ReadInv' /\ UnreadInv' /\ full' \in [Party -> BOOLEAN]
    BY <1>1, <2>1, <2>4, <2>6, <2>7, StepKeepsSession
  <2> QED
    BY <1>1, <2>8 DEF BoundInv
<1>3. CASE ~Opens(s, m, p) /\ state' = [state EXCEPT ![p] = Left(@, m, p)]
           /\ UNCHANGED <<read, full>>
  <2>1. Left(s, m, p) = s
    BY <1>1, <1>3, LeftFacts
  <2>2. state' = [state EXCEPT ![p] = s]
    BY <1>3, <2>1
  <2>3. state' = state
    <3>1. state = [x \in Party |-> state[x]]
      BY DEF PartyInv
    <3> QED
      BY <2>2, <3>1
  <2> QED
    BY <1>1, <1>3, <2>3 DEF PartyInv, SentInv, ReadInv, UnreadInv, BoundInv
<1> QED
  BY <1>2, <1>3 DEF Receive

\* A message of the session a, under whatever key it is sealed.
Numbered(a, i, key) == [dhPub |-> a, msgIndex |-> i, prevChainLen |-> 0, key |-> key]

LEMMA NumberedFacts ==
    ASSUME NEW a, NEW i, NEW key
    PROVE  Numbered(a, i, key).dhPub = a /\ Numbered(a, i, key).msgIndex = i
BY DEF Numbered

LEMMA ForeignNumbered ==
    ASSUME NEW m \in ForeignMessages
    PROVE  m.dhPub = Alien /\ m.msgIndex \in Nat
<1>1. PICK i \in 0..1 : m = Numbered(Alien, i, Advance(Chain(ForeignKey, 1), i))
  BY Zenon DEF ForeignMessages, Numbered, Alien
<1>2. m.dhPub = Alien /\ m.msgIndex = i
  BY <1>1, NumberedFacts
<1> QED
  BY <1>2

\* A step that reads nothing and takes no key of the session's away.
LEMMA ReceiveForeignStep ==
    ASSUME SessionInv, NEW p \in Party, NEW m, ReceiveForeign(p, m)
    PROVE  SessionInv'
<1> USE DEF SessionInv
<1> DEFINE s == state[p]
           q == Other(p)
           t == Left(s, m, p)
<1>1. /\ PartyOK(s, p) /\ s.recvCount \in Nat /\ m.dhPub = Alien /\ m.msgIndex \in Nat
      /\ state' = [state EXCEPT ![p] = t] /\ foreign[p] < MaxForeign
      /\ foreign' = [foreign EXCEPT ![p] = @ + 1]
      /\ sent' = sent /\ read' = read /\ full' = full /\ q \in Party
      /\ s.recvCount <= state[q].sendCount
  <2>1. m.dhPub = Alien /\ m.msgIndex \in Nat
    BY ForeignNumbered DEF ReceiveForeign
  <2>2. PartyOK(s, p) /\ s.recvCount \in Nat /\ q \in Party /\ s.recvCount <= state[q].sendCount
    BY Parties, StateFacts DEF PartyInv, SentInv
  <2> QED
    BY <2>1, <2>2 DEF ReceiveForeign
<1>2. /\ PartyOK(t, p) /\ t.sendCount = s.sendCount /\ t.recvCount = s.recvCount
      /\ \A j : Holds(t.skippedKeys, q, j) <=> Holds(s.skippedKeys, q, j)
  BY <1>1, ForeignFacts
<1> HIDE DEF t
<1>3. Moves(p, t, {}, FALSE)
  BY <1>1 DEF Moves, ReadInv, BoundInv
<1>4. \A k \in sent[q] : k.msgIndex \in Nat
  BY <1>1 DEF SentInv, SealedBy
<1>5. Takes(s, t, p, {}, FALSE)
  BY <1>1, <1>2, <1>4 DEF Takes
<1>6. PartyInv' /\ SentInv' /\ ReadInv' /\ UnreadInv' /\ full' \in [Party -> BOOLEAN]
  BY <1>1, <1>2, <1>3, <1>5, StepKeepsSession
<1>7. foreign' \in [Party -> 0..MaxForeign]
  BY <1>1, SessionAssumption DEF BoundInv
<1> QED
  BY <1>6, <1>7 DEF BoundInv

LEMMA PruneStep ==
    ASSUME SessionInv, NEW p \in Party, Prune(p)
    PROVE  SessionInv'
<1> USE DEF SessionInv
<1> DEFINE s == state[p]
           q == Other(p)
           t == Pruned(s, maxAge)
<1>1. /\ PartyOK(s, p) /\ s.recvCount \in Nat /\ state' = [state EXCEPT ![p] = t]
      /\ full' = [full EXCEPT ![p] = TRUE]
      /\ sent' = sent /\ read' = read /\ foreign' = foreign
      /\ s.recvCount <= state[q].sendCount
  BY Parties, StateFacts DEF Prune, PartyInv, SentInv
<1>2. /\ PartyOK(t, p) /\ t.sendCount = s.sendCount /\ t.recvCount = s.recvCount
      /\ \A j : Holds(t.skippedKeys, q, j) => Holds(s.skippedKeys, q, j)
  BY <1>1, SessionAssumption, PrunedFacts
<1> HIDE DEF t
<1>3. Moves(p, t, {}, TRUE) /\ Takes(s, t, p, {}, TRUE)
  BY <1>1, <1>2 DEF Moves, Takes, ReadInv, BoundInv
<1>4. PartyInv' /\ SentInv' /\ ReadInv' /\ UnreadInv' /\ full' \in [Party -> BOOLEAN]
  BY <1>1, <1>2, <1>3, StepKeepsSession
<1> QED
  BY <1>1, <1>4 DEF BoundInv

LEMMA SessionStep == SessionInv /\ [Next]_vars => SessionInv'
<1> SUFFICES ASSUME SessionInv, [Next]_vars PROVE SessionInv'
  OBVIOUS
<1>1. CASE UNCHANGED vars
  BY <1>1 DEF vars, SessionInv, PartyInv, SentInv, ReadInv, UnreadInv, BoundInv
<1>2. CASE Next
  BY <1>2, EncryptStep, ReceiveStep, ReceiveForeignStep, PruneStep DEF Next
<1> QED
  BY <1>1, <1>2

LEMMA SessionAlways == Spec => []SessionInv
BY SessionInit, SessionStep, PTL DEF Spec

-----------------------------------------------------------------------------
(* Theorems                                                                *)

\* Every state of a session is of its type, and the counts of a state and the
\* positions of its chains and of its cached keys are the same numbers.
THEOREM TypeCorrect == Spec => []TypeOK
<1>1. SessionInv => TypeOK
  <2> SUFFICES ASSUME SessionInv, NEW p \in Party
               PROVE  /\ state[p].sendCount = state[p].sendChainKey.n
                      /\ state[p].recvCount = state[p].recvChainKey.n
                      /\ state[p].sendCount \in 0..MaxSend[p]
                      /\ state[p].theirDhPub = NoKey
                      /\ \A i \in 1..Len(state[p].skippedKeys) :
                             /\ state[p].skippedKeys[i].key \in Key
                             /\ state[p].skippedKeys[i].msgIndex = state[p].skippedKeys[i].key.n
                      /\ Len(state[p].skippedKeys) <= MAX_SKIP
                      /\ full[p] \in BOOLEAN
                      /\ foreign[p] \in 0..MaxForeign
    BY DEF TypeOK
  <2>1. /\ PartyOK(state[p], p) /\ state[p].sendCount <= MaxSend[p] /\ MaxSend[p] \in Nat
        /\ full[p] \in BOOLEAN /\ foreign[p] \in 0..MaxForeign
    BY SessionAssumption DEF SessionInv, PartyInv, BoundInv, Party
  <2>2. /\ state[p].theirDhPub = NoKey /\ state[p].sendCount \in Nat /\ state[p].recvCount \in Nat
        /\ state[p].skippedKeys \in Seq(Entry) /\ Len(state[p].skippedKeys) <= MAX_SKIP
    BY <2>1, StateFacts
  <2>3. /\ state[p].sendCount = state[p].sendChainKey.n
        /\ state[p].recvCount = state[p].recvChainKey.n
    BY <2>1 DEF PartyOK, ChainAt
  <2>4. ASSUME NEW i \in 1..Len(state[p].skippedKeys)
        PROVE  /\ state[p].skippedKeys[i].key \in Key
               /\ state[p].skippedKeys[i].msgIndex = state[p].skippedKeys[i].key.n
    <3>1. state[p].skippedKeys[i] \in Entry
      BY <2>2
    <3>2. state[p].skippedKeys[i].key = ChainAt(Other(p), state[p].skippedKeys[i].msgIndex)
      BY <2>1 DEF PartyOK, CacheOK
    <3> QED
      BY <3>1, <3>2 DEF Entry, ChainAt
  <2> QED
    BY <2>1, <2>2, <2>3, <2>4
<1> QED
  BY <1>1, SessionAlways, PTL

\* No message opens twice, for any limits, whatever is skipped, rejected,
\* repeated or pruned.
THEOREM NoReplayHolds == Spec => []NoReplay
<1>1. SessionInv => NoReplay
  <2> SUFFICES ASSUME SessionInv, NEW p \in Party, NEW m \in read[p]
               PROVE  ~Opens(state[p], m, p)
    BY DEF NoReplay
  <2>1. /\ PartyOK(state[p], p) /\ SealedBy(m, Other(p)) /\ m.msgIndex < state[p].recvCount
        /\ ~Holds(state[p].skippedKeys, Other(p), m.msgIndex)
    BY Parties DEF SessionInv, PartyInv, SentInv, ReadInv
  <2>2. ~(state[p].recvCount <= m.msgIndex)
    BY <2>1, StateFacts DEF SealedBy
  <2> QED
    BY <2>1, <2>2, OpensFacts
<1> QED
  BY <1>1, SessionAlways, PTL

\* A message that was not read still opens, while the limits were not met: no
\* message that came before it, of this session or another, takes it away.
THEOREM UnreadOpens == Spec => []UnreadStillOpens
<1>1. SessionInv => UnreadStillOpens
  <2> SUFFICES ASSUME SessionInv, NEW p \in Party, NEW m \in sent[Other(p)] \ read[p], ~full[p],
                      ~(m.msgIndex - state[p].recvCount > MAX_SKIP)
               PROVE  Opens(state[p], m, p)
    BY DEF UnreadStillOpens
  <2>1. /\ PartyOK(state[p], p) /\ SealedBy(m, Other(p))
        /\ \/ m.msgIndex >= state[p].recvCount
           \/ Holds(state[p].skippedKeys, Other(p), m.msgIndex)
    BY Parties DEF SessionInv, PartyInv, SentInv, UnreadInv
  <2>2. CASE m.msgIndex >= state[p].recvCount
    <3>1. state[p].recvCount <= m.msgIndex /\ m.msgIndex - state[p].recvCount <= MAX_SKIP
      BY <2>1, <2>2, StateFacts, RatchetAssumption DEF SealedBy
    <3> QED
      BY <2>1, <3>1, OpensFacts
  <2>3. CASE Holds(state[p].skippedKeys, Other(p), m.msgIndex)
    BY <2>1, <2>3, OpensFacts
  <2> QED
    BY <2>1, <2>2, <2>3
<1> QED
  BY <1>1, SessionAlways, PTL

\* The key of a message that was read is behind the chains, and cached at most
\* under the name of another session's message: only the root key, which stays
\* in the state, leads back to it.
THEOREM OnlyRootLeads == Spec => []OnlyRootLeadsBack
<1>1. SessionInv => OnlyRootLeadsBack
  <2> SUFFICES ASSUME SessionInv, NEW p \in Party, NEW m \in read[p]
               PROVE  /\ ~FromChain(state[p], m.key)
                      /\ CachedFor(state[p], m.key) \subseteq {"other pair"}
    BY DEF OnlyRootLeadsBack
  <2>1. /\ PartyOK(state[p], p) /\ SealedBy(m, Other(p)) /\ m.msgIndex < state[p].recvCount
        /\ ~Holds(state[p].skippedKeys, Other(p), m.msgIndex) /\ Other(p) \in Party
    BY Parties DEF SessionInv, PartyInv, SentInv, ReadInv
  <2>2. /\ m.key.n = m.msgIndex /\ m.key.way = Way(Other(p))
        /\ state[p].recvChainKey.n = state[p].recvCount
        /\ state[p].sendChainKey.way = Way(p)
    BY <2>1 DEF SealedBy, PartyOK, ChainAt
  <2>3. state[p].recvCount > m.msgIndex /\ ~(state[p].recvCount <= m.msgIndex)
    BY <2>1, StateFacts DEF SealedBy
  <2>4. Way(p) # Way(Other(p))
    BY DEF Way, Other, Party
  <2>5. ~FromChain(state[p], m.key)
    BY <2>2, <2>3, <2>4 DEF FromChain
  <2>6. ASSUME NEW i \in 1..Len(state[p].skippedKeys), state[p].skippedKeys[i].key = m.key
        PROVE  state[p].skippedKeys[i].dhPub = "other pair"
    <3> DEFINE e == state[p].skippedKeys[i]
    <3>1. e.dhPub \in {Other(p), Alien} /\ e.key = ChainAt(Other(p), e.msgIndex)
      BY <2>1 DEF PartyOK, CacheOK
    <3>2. e.msgIndex = m.msgIndex
      BY <2>2, <2>6, <3>1 DEF ChainAt
    <3> QED
      BY <2>1, <3>1, <3>2 DEF Holds, Alien
  <2>7. CachedFor(state[p], m.key) \subseteq {"other pair"}
    BY <2>6 DEF CachedFor
  <2> QED
    BY <2>5, <2>7
<1> QED
  BY <1>1, SessionAlways, PTL
=============================================================================
