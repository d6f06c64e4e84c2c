------------------------ MODULE MessageClientProofs ------------------------
(***************************************************************************)
(* Theorems about MessageClient, for any clients, limits and bounds.       *)
(*                                                                         *)
(* The invariant has two halves.  Of what is sent: every message is on a   *)
(* chain from its sender to its recipient, who may be one, under the key   *)
(* of its number, and messages that were sealed by different pages or with *)
(* different key pairs can be told apart.  Of what is read: a number that  *)
(* a page has counted was opened, is cached, or was lost to a limit, and   *)
(* what was opened stays shut.  A message that was rejected may leave keys *)
(* of the page's chain in its cache under the name of another chain.  They *)
(* are never used, but they take the room of others: the page is stuck     *)
(* from then on, no scan comes past that message, and so nothing further   *)
(* is lost.                                                                *)
(***************************************************************************)
EXTENDS MessageClient, FiniteSetTheorems, WellFoundedInduction, TLAPS

KeyAt(root, way, n) == [root |-> root, way |-> way, n |-> n]

LEMMA KeyFacts ==
    ASSUME NEW root \in Root, NEW way \in {1, 2}, NEW n \in Nat
    PROVE  KeyAt(root, way, n) \in Key
BY DEF KeyAt, Key

LEMMA KeyParts ==
    ASSUME NEW root, NEW way, NEW n
    PROVE  /\ KeyAt(root, way, n).root = root
           /\ KeyAt(root, way, n).way = way
           /\ KeyAt(root, way, n).n = n
BY DEF KeyAt

LEMMA Advanced ==
    ASSUME NEW root, NEW way, NEW n, NEW k
    PROVE  Advance(KeyAt(root, way, n), k) = KeyAt(root, way, n + k)
BY DEF KeyAt, Advance

LEMMA LesserOf ==
    ASSUME NEW a \in Int, NEW b \in Int
    PROVE  Min({a, b}) = IF a <= b THEN a ELSE b
<1>1. CASE a <= b
  <2>1. \E x \in {a, b} : \A y \in {a, b} : x =< y
    BY <1>1
  <2> QED
    BY <1>1, <2>1 DEF Min
<1>2. CASE b < a
  <2>1. \E x \in {a, b} : \A y \in {a, b} : x =< y
    BY <1>2
  <2> QED
    BY <1>2, <2>1 DEF Min
<1> QED
  BY <1>1, <1>2

LEMMA LeastNumber ==
    ASSUME NEW S \in SUBSET Nat, S # {}
    PROVE  \E x \in S : \A y \in S : x <= y
<1> DEFINE R == {pair \in Nat \X Nat : pair[1] < pair[2]}
<1>1. IsWellFoundedOn(R, Nat)
  BY NatLessThanWellFounded DEF OpToRel
<1>2. \A x, y \in Nat : <<y, x>> \in R <=> y < x
  OBVIOUS
<1> HIDE DEF R
<1>3. \E x \in S : \A y \in S : ~(<<y, x>> \in R)
  BY <1>1, WFMin
<1>4. PICK x \in S : \A y \in S : ~(<<y, x>> \in R)
  BY <1>3
<1>5. ASSUME NEW y \in S PROVE x <= y
  <2>1. x \in Nat /\ y \in Nat /\ ~(y < x)
    BY <1>2, <1>4
  <2> QED
    BY <2>1
<1> QED
  BY <1>5

-----------------------------------------------------------------------------
(* Sequences of cached keys                                                *)

LEMMA ListFacts ==
    ASSUME NEW S, NEW k \in Nat, NEW f \in [1..k -> S]
    PROVE  f \in Seq(S) /\ Len(f) = k
OBVIOUS

LEMMA JoinFacts ==
    ASSUME NEW S, NEW a \in Seq(S), NEW b \in Seq(S)
    PROVE  /\ a \o b \in Seq(S) /\ Len(a \o b) = Len(a) + Len(b)
           /\ \A i \in 1..Len(a) : (a \o b)[i] = a[i]
           /\ \A i \in 1..Len(b) : (a \o b)[Len(a) + i] = b[i]
OBVIOUS

LEMMA FrontFacts ==
    ASSUME NEW S, NEW c \in Seq(S), NEW len \in Nat, len <= Len(c), NEW t, t = SubSeq(c, 1, len)
    PROVE  /\ t \in Seq(S) /\ Len(t) = len
           /\ \A i \in 1..len : t[i] = c[i]
OBVIOUS

LEMMA AppendFacts ==
    ASSUME NEW S, NEW s \in Seq(S), NEW e \in S, NEW t, t = Append(s, e)
    PROVE  /\ t \in Seq(S) /\ Len(s) \in Nat /\ Len(t) = Len(s) + 1
           /\ \A i \in 1..Len(s) : t[i] = s[i]
           /\ t[Len(s) + 1] = e
           /\ \A i \in 1..Len(t) : i \in 1..Len(s) \/ i = Len(s) + 1
OBVIOUS

\* t is keys without its entry at x.
Without(keys, t, x) ==
    /\ t \in Seq(SkippedKey)
    /\ Len(t) = Len(keys) - 1
    /\ \A i \in 1..Len(t) : t[i] = IF i < x THEN keys[i] ELSE keys[i + 1]

LEMMA WithoutFacts ==
    ASSUME NEW keys \in Seq(SkippedKey), NEW x \in 1..Len(keys), NEW t, t = WithoutEntry(keys, x)
    PROVE  Without(keys, t, x)
<1> DEFINE a == SubSeq(keys, 1, x - 1)
           b == SubSeq(keys, x + 1, Len(keys))
<1>1. /\ a \in Seq(SkippedKey) /\ Len(a) = x - 1 /\ \A i \in 1..(x - 1) : a[i] = keys[i]
      /\ b \in Seq(SkippedKey) /\ Len(b) = Len(keys) - x
      /\ \A i \in 1..(Len(keys) - x) : b[i] = keys[i + x]
  OBVIOUS
<1>2. t = a \o b
  BY DEF WithoutEntry
<1> HIDE DEF a, b
<1>3. /\ t \in Seq(SkippedKey) /\ Len(t) = Len(keys) - 1
      /\ \A i \in 1..Len(a) : t[i] = a[i]
      /\ \A i \in 1..Len(b) : t[Len(a) + i] = b[i]
  <2>1. Len(a) + Len(b) = Len(keys) - 1
    BY <1>1
  <2> QED
    BY ONLY <1>1, <1>2, <2>1, JoinFacts
<1>4. ASSUME NEW i \in 1..Len(t) PROVE t[i] = IF i < x THEN keys[i] ELSE keys[i + 1]
  <2>1. CASE i < x
    <3>1. i \in 1..Len(a) /\ i \in 1..(x - 1)
      BY <1>1, <2>1
    <3>2. t[i] = a[i] /\ a[i] = keys[i]
      BY ONLY <1>1, <1>3, <3>1
    <3> QED
      BY <2>1, <3>2
  <2>2. CASE ~(i < x)
    <3>1. i - x + 1 \in 1..Len(b) /\ Len(a) + (i - x + 1) = i /\ (i - x + 1) + x = i + 1
      BY <1>1, <1>3, <2>2
    <3>2. t[i] = b[i - x + 1] /\ b[i - x + 1] = keys[i + 1]
      BY <1>1, <1>3, <3>1
    <3> QED
      BY <2>2, <3>2
  <2> QED
    BY <2>1, <2>2
<1> QED
  BY <1>3, <1>4 DEF Without

\* t is what a cache g of any length is cut to: d keys are gone.
Cut(g, t, d) ==
    /\ d \in Nat
    /\ t \in Seq(SkippedKey)
    /\ Len(t) = Len(g) - d
    /\ Len(t) <= MAX_SKIPPED_KEYS
    /\ d > 0 => Len(t) = MAX_SKIPPED_KEYS
    /\ \A i \in 1..Len(t) : t[i] = g[i + d]

LEMMA CutFacts ==
    ASSUME NEW g \in Seq(SkippedKey), NEW t, t = KeepLast(g, MAX_SKIPPED_KEYS)
    PROVE  \E d \in 0..Len(g) : Cut(g, t, d)
<1>1. MAX_SKIPPED_KEYS \in Nat /\ Len(g) \in Nat
  BY RatchetAssumption
<1>2. CASE Len(g) <= MAX_SKIPPED_KEYS
  <2>1. Cut(g, t, 0)
    BY <1>1, <1>2 DEF KeepLast, Cut
  <2> QED
    BY <1>1, <2>1
<1>3. CASE ~(Len(g) <= MAX_SKIPPED_KEYS)
  <2> DEFINE d == Len(g) - MAX_SKIPPED_KEYS
  <2>1. t = SubSeq(g, d + 1, Len(g))
    BY <1>3 DEF KeepLast
  <2>2. d \in 0..Len(g) /\ d > 0
    BY <1>1, <1>3
  <2>3. Cut(g, t, d)
    BY <1>1, <2>1, <2>2 DEF Cut
  <2> QED
    BY <2>2, <2>3
<1> QED
  BY <1>2, <1>3

\* The cache g is the cache keys, grown by as many of the k keys from number n
\* on as there is room for, under d.
Grown(keys, g, d, root, way, n, k) ==
    /\ g \in Seq(SkippedKey)
    /\ Len(g) = IF Len(keys) + k <= MAX_SKIP THEN Len(keys) + k ELSE MAX_SKIP
    /\ \A i \in 1..Len(keys) : g[i] = keys[i]
    /\ \A x \in 1..(Len(g) - Len(keys)) :
           /\ g[Len(keys) + x].dhPub = d
           /\ g[Len(keys) + x].msgIndex = n + x - 1
           /\ g[Len(keys) + x].key = KeyAt(root, way, n + x - 1)

Passed(d, root, way, n, k) ==
    [i \in 1..k |-> [dhPub |-> d, msgIndex |-> n + i - 1, key |-> KeyAt(root, way, n + i - 1)]]

LEMMA PushFacts ==
    ASSUME NEW d \in Pair, NEW root \in Root, NEW way \in {1, 2}, NEW n \in Nat, NEW k \in Nat,
           NEW keys \in Seq(SkippedKey), Len(keys) <= MAX_SKIP,
           NEW passed, passed = Passed(d, root, way, n, k),
           NEW g, g = SubSeq(keys \o passed, 1, Min({Len(keys \o passed), MAX_SKIP}))
    PROVE  Grown(keys, g, d, root, way, n, k)
<1> DEFINE len == IF Len(keys) + k <= MAX_SKIP THEN Len(keys) + k ELSE MAX_SKIP
           cache == keys \o passed
<1>1. Len(keys) \in Nat /\ MAX_SKIP \in Nat
  BY RatchetAssumption
<1>2. ASSUME NEW i \in 1..k
      PROVE  /\ passed[i] \in SkippedKey
             /\ passed[i].dhPub = d /\ passed[i].msgIndex = n + i - 1
             /\ passed[i].key = KeyAt(root, way, n + i - 1)
  <2>1. n + i - 1 \in Nat
    OBVIOUS
  <2>2. KeyAt(root, way, n + i - 1) \in Key
    BY <2>1, KeyFacts
  <2>3. passed[i] = [dhPub |-> d, msgIndex |-> n + i - 1, key |-> KeyAt(root, way, n + i - 1)]
    BY DEF Passed
  <2> QED
    BY <2>1, <2>2, <2>3 DEF SkippedKey
<1>3. passed \in Seq(SkippedKey) /\ Len(passed) = k
  <2>1. passed \in [1..k -> SkippedKey]
    BY <1>2 DEF Passed
  <2> QED
    BY <2>1, ListFacts
<1> HIDE DEF cache
<1>4. /\ cache \in Seq(SkippedKey) /\ Len(cache) = Len(keys) + k
      /\ \A i \in 1..Len(keys) : cache[i] = keys[i]
      /\ \A i \in 1..k : cache[Len(keys) + i] = passed[i]
  <2>1. /\ cache \in Seq(SkippedKey) /\ Len(cache) = Len(keys) + Len(passed)
        /\ \A i \in 1..Len(keys) : cache[i] = keys[i]
        /\ \A i \in 1..Len(passed) : cache[Len(keys) + i] = passed[i]
    BY <1>3, JoinFacts DEF cache
  <2> QED
    BY <1>3, <2>1
<1>5. Min({Len(cache), MAX_SKIP}) = len
  BY <1>1, <1>4, LesserOf
<1>6. len \in Nat /\ Len(keys) <= len /\ len <= Len(keys) + k
  BY <1>1
<1>7. g = SubSeq(cache, 1, len)
  BY <1>5 DEF cache
<1> HIDE DEF len
<1>8. /\ g \in Seq(SkippedKey) /\ Len(g) = len
      /\ \A i \in 1..len : g[i] = cache[i]
  <2>1. len <= Len(cache)
    BY <1>4, <1>6
  <2> QED
    BY ONLY <1>4, <1>6, <1>7, <2>1, FrontFacts
<1>9. \A i \in 1..Len(keys) : g[i] = keys[i]
  BY <1>1, <1>4, <1>6, <1>8
<1>10. ASSUME NEW x \in 1..(Len(g) - Len(keys))
       PROVE  /\ g[Len(keys) + x].dhPub = d
              /\ g[Len(keys) + x].msgIndex = n + x - 1
              /\ g[Len(keys) + x].key = KeyAt(root, way, n + x - 1)
  <2>1. x \in 1..k /\ Len(keys) + x \in 1..len
    BY <1>1, <1>6, <1>8
  <2>2. g[Len(keys) + x] = passed[x]
    BY <1>4, <1>8, <2>1
  <2> QED
    BY <1>2, <2>1, <2>2
<1> QED
  BY <1>8, <1>9, <1>10 DEF len, Grown

\* Where the entries of a grown cache come from.
GrownFrom(keys, g, d, root, way, n, k) ==
    /\ g \in Seq(SkippedKey)
    /\ Len(keys) \in Nat /\ Len(g) \in Nat /\ Len(keys) <= Len(g) /\ Len(g) <= MAX_SKIP
    /\ Len(g) <= Len(keys) + k /\ (Len(g) < Len(keys) + k => Len(g) = MAX_SKIP)
    /\ \A i \in 1..Len(g) :
           \/ i \in 1..Len(keys) /\ g[i] = keys[i]
           \/ \E x \in 1..(Len(g) - Len(keys)) :
                  /\ i = Len(keys) + x
                  /\ x \in 1..k
                  /\ g[i].dhPub = d
                  /\ g[i].msgIndex = n + x - 1
                  /\ g[i].key = KeyAt(root, way, g[i].msgIndex)

LEMMA GrownEntries ==
    ASSUME NEW keys \in Seq(SkippedKey), Len(keys) <= MAX_SKIP, NEW g, NEW d, NEW root, NEW way,
           NEW n \in Nat, NEW k \in Nat, Grown(keys, g, d, root, way, n, k)
    PROVE  GrownFrom(keys, g, d, root, way, n, k)
<1>1. /\ g \in Seq(SkippedKey)
      /\ Len(keys) \in Nat /\ Len(g) \in Nat /\ Len(keys) <= Len(g) /\ Len(g) <= MAX_SKIP
      /\ Len(g) <= Len(keys) + k /\ (Len(g) < Len(keys) + k => Len(g) = MAX_SKIP)
  BY RatchetAssumption DEF Grown
<1>2. ASSUME NEW i \in 1..Len(g)
      PROVE  \/ i \in 1..Len(keys) /\ g[i] = keys[i]
             \/ \E x \in 1..(Len(g) - Len(keys)) :
                    /\ i = Len(keys) + x
                    /\ x \in 1..k
                    /\ g[i].dhPub = d
                    /\ g[i].msgIndex = n + x - 1
                    /\ g[i].key = KeyAt(root, way, g[i].msgIndex)
  <2>1. CASE i <= Len(keys)
    <3>1. i \in 1..Len(keys)
      BY <1>1, <2>1
    <3> QED
      BY <3>1 DEF Grown
  <2>2. CASE i > Len(keys)
    <3> DEFINE x == i - Len(keys)
    <3>1. x \in 1..(Len(g) - Len(keys)) /\ i = Len(keys) + x /\ x \in 1..k
      BY <1>1, <2>2
    <3> HIDE DEF x
    <3>2. g[i].dhPub = d /\ g[i].msgIndex = n + x - 1 /\ g[i].key = KeyAt(root, way, n + x - 1)
      BY <3>1 DEF Grown
    <3> QED
      BY <3>1, <3>2
  <2> QED
    BY <1>1, <2>1, <2>2
<1> QED
  BY <1>1, <1>2 DEF GrownFrom

-----------------------------------------------------------------------------
(* Assignments to a state's fields                                         *)

SameBut(s, t, fields) ==
    /\ "rootKey" \in fields \/ t.rootKey = s.rootKey
    /\ "sendChainKey" \in fields \/ t.sendChainKey = s.sendChainKey
    /\ "recvChainKey" \in fields \/ t.recvChainKey = s.recvChainKey
    /\ "dhPair" \in fields \/ t.dhPair = s.dhPair
    /\ "sendCount" \in fields \/ t.sendCount = s.sendCount
    /\ "recvCount" \in fields \/ t.recvCount = s.recvCount
    /\ "skippedKeys" \in fields \/ t.skippedKeys = s.skippedKeys

LEMMA SetRecvChainKey ==
    ASSUME NEW s \in RatchetState, NEW v \in Key, NEW t, t = [s EXCEPT !.recvChainKey = v]
    PROVE  t \in RatchetState /\ t.recvChainKey = v /\ SameBut(s, t, {"recvChainKey"})
BY DEF RatchetState, SameBut

LEMMA SetSendChainKey ==
    ASSUME NEW s \in RatchetState, NEW v \in Key, NEW t, t = [s EXCEPT !.sendChainKey = v]
    PROVE  t \in RatchetState /\ t.sendChainKey = v /\ SameBut(s, t, {"sendChainKey"})
BY DEF RatchetState, SameBut

LEMMA SetSendCount ==
    ASSUME NEW s \in RatchetState, NEW v \in Nat, NEW t, t = [s EXCEPT !.sendCount = v]
    PROVE  t \in RatchetState /\ t.sendCount = v /\ SameBut(s, t, {"sendCount"})
BY DEF RatchetState, SameBut

LEMMA SetRecvCount ==
    ASSUME NEW s \in RatchetState, NEW v \in Nat, NEW t, t = [s EXCEPT !.recvCount = v]
    PROVE  t \in RatchetState /\ t.recvCount = v /\ SameBut(s, t, {"recvCount"})
BY DEF RatchetState, SameBut

LEMMA SetSkippedKeys ==
    ASSUME NEW s \in RatchetState, NEW v \in Seq(SkippedKey), NEW t, t = [s EXCEPT !.skippedKeys = v]
    PROVE  t \in RatchetState /\ t.skippedKeys = v /\ SameBut(s, t, {"skippedKeys"})
BY DEF RatchetState, SameBut

\* Two assignments are one after the other.
LEMMA TwoFields ==
    ASSUME NEW s \in RatchetState, NEW v, NEW w
    PROVE  /\ [s EXCEPT !.recvChainKey = v, !.skippedKeys = w]
                  = [[s EXCEPT !.recvChainKey = v] EXCEPT !.skippedKeys = w]
           /\ [s EXCEPT !.sendChainKey = v, !.sendCount = w]
                  = [[s EXCEPT !.sendChainKey = v] EXCEPT !.sendCount = w]
OBVIOUS

LEMMA ThreeFields ==
    ASSUME NEW s \in RatchetState, NEW u, NEW v, NEW w
    PROVE  [s EXCEPT !.recvChainKey = u, !.recvCount = v, !.skippedKeys = w]
               = [[[s EXCEPT !.recvChainKey = u] EXCEPT !.recvCount = v] EXCEPT !.skippedKeys = w]
OBVIOUS

-----------------------------------------------------------------------------
(* What the operations do to a state                                       *)

\* s expects number recvCount of the chain way of its root.
Ready(s, way) ==
    /\ s \in RatchetState
    /\ way \in {1, 2}
    /\ s.recvChainKey = KeyAt(s.rootKey, way, s.recvCount)
    /\ Len(s.skippedKeys) <= MAX_SKIP

LEMMA StateFacts ==
    ASSUME NEW s \in RatchetState
    PROVE  /\ s.rootKey \in Root /\ s.sendChainKey \in Key /\ s.recvChainKey \in Key
           /\ s.dhPair \in Pair /\ s.sendCount \in Nat /\ s.recvCount \in Nat
           /\ s.skippedKeys \in Seq(SkippedKey) /\ Len(s.skippedKeys) \in Nat
           /\ \A i \in 1..Len(s.skippedKeys) :
                  /\ s.skippedKeys[i].dhPub \in Pair
                  /\ s.skippedKeys[i].msgIndex \in Nat
                  /\ s.skippedKeys[i].key \in Key
           /\ \A m : SkippedInOldChain(s, m) = 0 /\ \A d : InChain(s, m, d) = s
<1>1. /\ s.rootKey \in Root /\ s.sendChainKey \in Key /\ s.recvChainKey \in Key
      /\ s.dhPair \in Pair /\ s.sendCount \in Nat /\ s.recvCount \in Nat
      /\ s.skippedKeys \in Seq(SkippedKey) /\ s.theirDhPub = NoKey
  BY DEF RatchetState
<1>2. \A m : ~NeedsDhRatchet(s, m)
  BY <1>1 DEF NeedsDhRatchet
<1>3. ASSUME NEW i \in 1..Len(s.skippedKeys)
      PROVE  /\ s.skippedKeys[i].dhPub \in Pair
             /\ s.skippedKeys[i].msgIndex \in Nat
             /\ s.skippedKeys[i].key \in Key
  <2>1. s.skippedKeys[i] \in SkippedKey
    BY <1>1
  <2> QED
    BY <2>1 DEF SkippedKey
<1> QED
  BY <1>1, <1>2, <1>3 DEF SkippedInOldChain, InChain

LEMMA MessageFacts ==
    ASSUME NEW m \in Message
    PROVE  /\ m.from \in Client /\ m.to \in Client /\ m.eph \in Pair /\ m.page \in Nat
           /\ m.dhPub \in Pair /\ m.msgIndex \in Nat /\ m.key \in Key /\ m.key.root \in Root
BY DEF Message, Key

LEMMA SealedFacts ==
    ASSUME NEW s \in RatchetState, NEW way \in {1, 2},
           s.sendChainKey = KeyAt(s.rootKey, way, s.sendCount), NEW t, t = Sealed(s)
    PROVE  /\ t \in RatchetState
           /\ SameBut(s, t, {"sendChainKey", "sendCount"})
           /\ t.sendCount = s.sendCount + 1
           /\ t.sendChainKey = KeyAt(s.rootKey, way, t.sendCount)
<1> DEFINE c == Advance(s.sendChainKey, 1)
           a == [s EXCEPT !.sendChainKey = c]
<1>1. s.rootKey \in Root /\ s.sendCount \in Nat
  BY StateFacts
<1>2. c = KeyAt(s.rootKey, way, s.sendCount + 1) /\ c \in Key /\ s.sendCount + 1 \in Nat
  <2>1. c = KeyAt(s.rootKey, way, s.sendCount + 1)
    BY Advanced
  <2>2. s.sendCount + 1 \in Nat
    BY <1>1
  <2> QED
    BY <1>1, <2>1, <2>2, KeyFacts
<1> HIDE DEF c
<1>3. t = [a EXCEPT !.sendCount = s.sendCount + 1]
  <2>1. t = [s EXCEPT !.sendChainKey = c, !.sendCount = s.sendCount + 1]
    BY DEF Sealed, c
  <2> QED
    BY <1>1, <2>1, TwoFields
<1>4. a \in RatchetState /\ a.sendChainKey = c /\ SameBut(s, a, {"sendChainKey"})
  BY <1>1, <1>2, SetSendChainKey
<1> HIDE DEF a
<1>5. t \in RatchetState /\ t.sendCount = s.sendCount + 1 /\ SameBut(a, t, {"sendCount"})
  BY <1>2, <1>3, <1>4, SetSendCount
<1>6. SameBut(s, t, {"sendChainKey", "sendCount"}) /\ t.sendChainKey = c
  BY <1>4, <1>5 DEF SameBut
<1> QED
  BY <1>2, <1>5, <1>6

\* Skipping k positions: the chain moves, the keys passed over are cached.
LEMMA SkipFacts ==
    ASSUME NEW s, NEW way, Ready(s, way), NEW d \in Pair, NEW k \in Nat,
           NEW t, t = SkipKeys(s, d, k)
    PROVE  /\ t \in RatchetState
           /\ SameBut(s, t, {"recvChainKey", "skippedKeys"})
           /\ t.recvChainKey = KeyAt(s.rootKey, way, s.recvCount + k)
           /\ Grown(s.skippedKeys, t.skippedKeys, d, s.rootKey, way, s.recvCount, k)
<1> DEFINE root == s.rootKey
           n == s.recvCount
           keys == s.skippedKeys
           skipped == Passed(d, root, way, n, k)
           cache == SubSeq(keys \o skipped, 1, Min({Len(keys \o skipped), MAX_SKIP}))
           c == Advance(s.recvChainKey, k)
           a == [s EXCEPT !.recvChainKey = c]
<1>1. /\ root \in Root /\ way \in {1, 2} /\ s \in RatchetState /\ n \in Nat /\ k \in Nat
      /\ keys \in Seq(SkippedKey) /\ Len(keys) \in Nat /\ Len(keys) <= MAX_SKIP
      /\ s.recvChainKey = KeyAt(root, way, n)
  BY StateFacts DEF Ready
<1>2. t = [s EXCEPT !.recvChainKey = c,
                    !.skippedKeys =
                        LET passed == [i \in 1..k |->
                                 [ dhPub |-> d, msgIndex |-> n + i - 1,
                                   key |-> MessageKey(Advance(s.recvChainKey, i - 1)) ]]
                        IN  SubSeq(keys \o passed, 1, Min({Len(keys \o passed), MAX_SKIP}))]
  BY DEF SkipKeys
<1>3. skipped = [i \in 1..k |-> [ dhPub |-> d, msgIndex |-> n + i - 1,
                                   key |-> MessageKey(Advance(s.recvChainKey, i - 1)) ]]
  <2> SUFFICES ASSUME NEW i \in 1..k
               PROVE  MessageKey(Advance(s.recvChainKey, i - 1)) = KeyAt(root, way, n + i - 1)
    BY DEF Passed
  <2> HIDE DEF skipped, cache, c, a, keys, n, root
  <2>1. i - 1 \in Nat /\ n + (i - 1) = n + i - 1
    BY <1>1
  <2>2. Advance(KeyAt(root, way, n), i - 1) = KeyAt(root, way, n + (i - 1))
    BY Advanced
  <2> QED
    BY <1>1, <2>1, <2>2 DEF MessageKey
<1>4. t = [s EXCEPT !.recvChainKey = c, !.skippedKeys = cache]
  BY <1>2, <1>3
<1>5. /\ skipped = Passed(d, root, way, n, k)
      /\ cache = SubSeq(keys \o skipped, 1, Min({Len(keys \o skipped), MAX_SKIP}))
  OBVIOUS
<1> HIDE DEF skipped, cache, n, keys, root, c
<1>6. c = KeyAt(root, way, n + k) /\ c \in Key
  <2>1. n + k \in Nat
    BY <1>1
  <2>2. c = KeyAt(root, way, n + k)
    BY <1>1, Advanced DEF c
  <2> QED
    BY <1>1, <2>1, <2>2, KeyFacts
<1>7. t = [a EXCEPT !.skippedKeys = cache]
  BY <1>1, <1>4, TwoFields
<1>8. a \in RatchetState /\ a.recvChainKey = c /\ SameBut(s, a, {"recvChainKey"})
  BY <1>1, <1>6, SetRecvChainKey
<1> HIDE DEF a
<1>9. Grown(keys, cache, d, root, way, n, k)
  BY ONLY <1>1, <1>5, d \in Pair, PushFacts
<1>10. t \in RatchetState /\ t.skippedKeys = cache /\ SameBut(a, t, {"skippedKeys"})
  BY <1>7, <1>8, <1>9, SetSkippedKeys DEF Grown
<1>11. /\ SameBut(s, t, {"recvChainKey", "skippedKeys"})
       /\ t.recvChainKey = KeyAt(root, way, n + k)
  BY <1>6, <1>8, <1>10 DEF SameBut
<1> QED
  BY <1>9, <1>10, <1>11 DEF n, keys, root

\* The entry that findIndex finds.
LEMMA CachedFacts ==
    ASSUME NEW s \in RatchetState, NEW m, IsCached(s, m), NEW x, x = CachedIndex(s, m)
    PROVE  /\ x \in 1..Len(s.skippedKeys)
           /\ s.skippedKeys[x].dhPub = m.dhPub
           /\ s.skippedKeys[x].msgIndex = m.msgIndex
<1> DEFINE A == CachedAt(s, m)
<1>1. A # {} /\ A \subseteq 1..Len(s.skippedKeys) /\ Len(s.skippedKeys) \in Nat
  BY StateFacts DEF IsCached, CachedAt
<1>2. A \subseteq Nat
  BY <1>1
<1> HIDE DEF A
<1>3. \E y \in A : \A z \in A : y <= z
  BY <1>1, <1>2, LeastNumber
<1>4. x \in A
  BY <1>3 DEF CachedIndex, Min, A
<1> QED
  BY <1>4 DEF CachedAt, A

LEMMA CachedIsThere ==
    ASSUME NEW s, NEW m
    PROVE  IsCached(s, m) <=> \E i \in 1..Len(s.skippedKeys) :
                                  /\ s.skippedKeys[i].dhPub = m.dhPub
                                  /\ s.skippedKeys[i].msgIndex = m.msgIndex
BY DEF IsCached, CachedAt

\* A message whose key is not cached opens if it is of this chain, and not
\* more than MAX_SKIP ahead.
LEMMA OpensAhead ==
    ASSUME NEW s, NEW way, Ready(s, way), NEW m \in Message, NEW d, ~IsCached(s, m)
    PROVE  Opens(s, m, d) <=> /\ s.recvCount <= m.msgIndex
                              /\ m.msgIndex <= s.recvCount + MAX_SKIP
                              /\ m.key = KeyAt(s.rootKey, way, m.msgIndex)
<1> DEFINE k == m.msgIndex - s.recvCount
<1>1. /\ s \in RatchetState /\ s.recvCount \in Nat /\ m.msgIndex \in Nat /\ m.dhPub \in Pair
      /\ MAX_SKIP \in Nat
  BY StateFacts, MessageFacts, RatchetAssumption DEF Ready
<1>2. /\ BeforeExpected(s, m, d) <=> m.msgIndex < s.recvCount
      /\ SkipLimitExceeded(s, m, d) <=> k > MAX_SKIP
      /\ AtMessage(s, m, d) = SkipKeys(s, m.dhPub, k)
  <2>1. SkippedInOldChain(s, m) = 0 /\ InChain(s, m, d) = s
    BY <1>1, StateFacts
  <2> QED
    BY <1>1, <2>1 DEF BeforeExpected, SkipLimitExceeded, AtMessage
<1>3. ASSUME s.recvCount <= m.msgIndex
      PROVE  MessageKey(AtMessage(s, m, d).recvChainKey) = KeyAt(s.rootKey, way, m.msgIndex)
  <2>1. k \in Nat /\ s.recvCount + k = m.msgIndex
    BY <1>1, <1>3
  <2> HIDE DEF k
  <2>2. SkipKeys(s, m.dhPub, k).recvChainKey = KeyAt(s.rootKey, way, s.recvCount + k)
    BY <1>1, <2>1, SkipFacts
  <2> QED
    BY <1>2, <2>1, <2>2 DEF MessageKey
<1>4. Opens(s, m, d) <=> /\ ~BeforeExpected(s, m, d)
                         /\ ~SkipLimitExceeded(s, m, d)
                         /\ MessageKey(AtMessage(s, m, d).recvChainKey) = m.key
  BY DEF Opens
<1>5. /\ ~(m.msgIndex < s.recvCount) <=> s.recvCount <= m.msgIndex
      /\ ~(k > MAX_SKIP) <=> m.msgIndex <= s.recvCount + MAX_SKIP
  BY <1>1
<1> HIDE DEF k
<1> QED
  BY <1>2, <1>3, <1>4, <1>5

\* The two ways to open a message: its key was cached, or its number is next or
\* further ahead.
OpenedCached(s, t, m, x) ==
    /\ x \in 1..Len(s.skippedKeys)
    /\ s.skippedKeys[x].dhPub = m.dhPub
    /\ s.skippedKeys[x].msgIndex = m.msgIndex
    /\ s.skippedKeys[x].key = m.key
    /\ SameBut(s, t, {"skippedKeys"})
    /\ Without(s.skippedKeys, t.skippedKeys, x)

OpenedAhead(s, t, m, way, g, d) ==
    /\ s.recvCount <= m.msgIndex
    /\ m.key = KeyAt(s.rootKey, way, m.msgIndex)
    /\ SameBut(s, t, {"recvChainKey", "recvCount", "skippedKeys"})
    /\ t.recvCount = m.msgIndex + 1
    /\ t.recvChainKey = KeyAt(s.rootKey, way, t.recvCount)
    /\ Grown(s.skippedKeys, g, m.dhPub, s.rootKey, way, s.recvCount, m.msgIndex - s.recvCount)
    /\ Cut(g, t.skippedKeys, d)
    /\ Len(t.skippedKeys) <= MAX_SKIP

LEMMA OpenedFacts ==
    ASSUME NEW s, NEW way, Ready(s, way), NEW m \in Message, NEW pair, Opens(s, m, pair),
           NEW t, t = Opened(s, m, pair)
    PROVE  /\ t \in RatchetState
           /\ \/ \E x : OpenedCached(s, t, m, x)
              \/ \E g, d : OpenedAhead(s, t, m, way, g, d)
<1> DEFINE root == s.rootKey
           n == s.recvCount
           keys == s.skippedKeys
           i == m.msgIndex
<1>1. /\ s \in RatchetState /\ root \in Root /\ way \in {1, 2} /\ n \in Nat /\ i \in Nat
      /\ m.dhPub \in Pair /\ keys \in Seq(SkippedKey) /\ Len(keys) \in Nat /\ Len(keys) <= MAX_SKIP
      /\ s.recvChainKey = KeyAt(root, way, n)
      /\ MAX_SKIP \in Nat /\ MAX_SKIPPED_KEYS \in Nat
  BY StateFacts, MessageFacts, RatchetAssumption DEF Ready
<1>2. CASE IsCached(s, m)
  <2> DEFINE x == CachedIndex(s, m)
             kept == WithoutEntry(keys, x)
  <2>1. x \in 1..Len(keys) /\ keys[x].dhPub = m.dhPub /\ keys[x].msgIndex = i
    BY <1>1, <1>2, CachedFacts
  <2>2. keys[x].key = m.key
    BY <1>2 DEF Opens
  <2>3. t = [s EXCEPT !.skippedKeys = kept]
    BY <1>2 DEF Opened
  <2> HIDE DEF x, kept, keys, n, i
  <2>4. Without(keys, kept, x)
    BY <1>1, <2>1, WithoutFacts DEF kept
  <2>5. t \in RatchetState /\ t.skippedKeys = kept /\ SameBut(s, t, {"skippedKeys"})
    BY <1>1, <2>3, <2>4, SetSkippedKeys DEF Without
  <2>6. OpenedCached(s, t, m, x)
    BY <2>1, <2>2, <2>4, <2>5 DEF OpenedCached, keys, i
  <2> QED
    BY <2>5, <2>6
<1>3. CASE ~IsCached(s, m)
  <2> DEFINE k == i - n
             a == SkipKeys(s, m.dhPub, k)
             kept == KeepLast(a.skippedKeys, MAX_SKIPPED_KEYS)
             c == Advance(a.recvChainKey, 1)
             b1 == [a EXCEPT !.recvChainKey = c]
             b2 == [b1 EXCEPT !.recvCount = i + 1]
  <2>1. n <= i /\ m.key = KeyAt(root, way, i)
    BY <1>3, OpensAhead
  <2>2. k \in Nat /\ n + k = i /\ n <= i + 1 /\ i + 1 \in Nat
    BY <1>1, <2>1
  <2>3. /\ a \in RatchetState /\ SameBut(s, a, {"recvChainKey", "skippedKeys"})
        /\ a.recvChainKey = KeyAt(root, way, n + k)
        /\ Grown(keys, a.skippedKeys, m.dhPub, root, way, n, k)
    <3> HIDE DEF k
    <3>1. a = SkipKeys(s, m.dhPub, k)
      OBVIOUS
    <3> HIDE DEF a
    <3>2. m.dhPub \in Pair /\ k \in Nat /\ Ready(s, way)
      BY <1>1, <2>2
    <3> QED
      BY ONLY <3>1, <3>2, SkipFacts
  <2>4. t = [a EXCEPT !.recvChainKey = c, !.recvCount = i + 1, !.skippedKeys = kept]
    <3>1. InChain(s, m, pair) = s
      BY <1>1, StateFacts
    <3>2. AtMessage(s, m, pair) = a
      BY <1>1, <3>1 DEF AtMessage
    <3> HIDE DEF a
    <3> QED
      BY <1>3, <3>2 DEF Opened
  <2>k. k = m.msgIndex - s.recvCount
    OBVIOUS
  <2> HIDE DEF k, a, keys, n, i, root, c
  <2>5. t = [b2 EXCEPT !.skippedKeys = kept]
    BY <2>3, <2>4, ThreeFields
  <2>6. c = KeyAt(root, way, i + 1) /\ c \in Key
    <3>1. KeyAt(root, way, i + 1) \in Key
      BY <1>1, <2>2, KeyFacts
    <3>2. Advance(KeyAt(root, way, i), 1) = KeyAt(root, way, i + 1)
      BY Advanced
    <3> QED
      BY <2>2, <2>3, <3>1, <3>2 DEF c
  <2>7. PICK d \in 0..Len(a.skippedKeys) : Cut(a.skippedKeys, kept, d)
    <3>1. a.skippedKeys \in Seq(SkippedKey)
      BY <2>3, StateFacts
    <3> QED
      BY <3>1, CutFacts
  <2>8. kept \in Seq(SkippedKey) /\ Len(kept) <= MAX_SKIP
    <3>1. Len(a.skippedKeys) \in Nat /\ Len(a.skippedKeys) <= MAX_SKIP
      BY <1>1, <2>2, <2>3, GrownEntries DEF GrownFrom
    <3>2. d \in Nat /\ kept \in Seq(SkippedKey) /\ Len(kept) = Len(a.skippedKeys) - d
      BY <2>7 DEF Cut
    <3> QED
      BY <1>1, <3>1, <3>2
  <2> HIDE DEF kept
  <2>9. b1 \in RatchetState /\ b1.recvChainKey = c /\ SameBut(a, b1, {"recvChainKey"})
    BY <2>3, <2>6, SetRecvChainKey
  <2> HIDE DEF b1
  <2>10. b2 \in RatchetState /\ b2.recvCount = i + 1 /\ SameBut(b1, b2, {"recvCount"})
    BY <2>2, <2>9, SetRecvCount
  <2> HIDE DEF b2
  <2>11. t \in RatchetState /\ t.skippedKeys = kept /\ SameBut(b2, t, {"skippedKeys"})
    BY <2>5, <2>8, <2>10, SetSkippedKeys
  <2>12. /\ SameBut(s, t, {"recvChainKey", "recvCount", "skippedKeys"})
         /\ t.recvCount = i + 1 /\ t.recvChainKey = KeyAt(root, way, t.recvCount)
    BY <2>3, <2>6, <2>9, <2>10, <2>11 DEF SameBut
  <2>13. OpenedAhead(s, t, m, way, a.skippedKeys, d)
    BY <2>1, <2>3, <2>7, <2>8, <2>11, <2>12, <2>k DEF OpenedAhead, n, keys, i, root
  <2> QED
    BY <2>11, <2>13
<1> QED
  BY <1>2, <1>3

\* What a rejected message leaves: at most some keys of the chain under its
\* own name.
LEMMA LeftFacts ==
    ASSUME NEW s, NEW way, Ready(s, way), NEW m \in Message, NEW pair, ~Opens(s, m, pair),
           NEW t, t = Left(s, m, pair)
    PROVE  /\ t \in RatchetState
           /\ SameBut(s, t, {"skippedKeys"})
           /\ \/ t.skippedKeys = s.skippedKeys
              \/ /\ ~IsCached(s, m)
                 /\ s.recvCount <= m.msgIndex
                 /\ m.key # KeyAt(s.rootKey, way, m.msgIndex)
                 /\ Grown(s.skippedKeys, t.skippedKeys, m.dhPub, s.rootKey, way,
                          s.recvCount, m.msgIndex - s.recvCount)
<1> DEFINE i == m.msgIndex
           n == s.recvCount
           pushed == SkipKeys(s, m.dhPub, i - n)
<1>1. /\ n \in Nat /\ i \in Nat /\ MAX_SKIP \in Nat /\ s \in RatchetState /\ m.dhPub \in Pair
      /\ SkippedInOldChain(s, m) = 0 /\ InChain(s, m, pair) = s
  BY StateFacts, MessageFacts, RatchetAssumption DEF Ready
<1>2. CASE IsCached(s, m) \/ BeforeExpected(s, m, pair) \/ SkipLimitExceeded(s, m, pair)
  <2>1. t = [s EXCEPT !.skippedKeys = s.skippedKeys]
    BY <1>1, <1>2 DEF Left
  <2>2. t = s
    BY <1>1, <2>1 DEF RatchetState
  <2> QED
    BY <1>1, <2>2 DEF SameBut
<1>3. CASE ~(IsCached(s, m) \/ BeforeExpected(s, m, pair) \/ SkipLimitExceeded(s, m, pair))
  <2>1. n <= i /\ i - n <= MAX_SKIP /\ i - n \in Nat /\ i <= n + MAX_SKIP
    BY <1>1, <1>3 DEF BeforeExpected, SkipLimitExceeded
  <2>2. AtMessage(s, m, pair) = pushed
    BY <1>1 DEF AtMessage
  <2> HIDE DEF pushed
  <2>3. t = [s EXCEPT !.skippedKeys = pushed.skippedKeys]
    BY <1>1, <1>3, <2>2 DEF Left
  <2>4. Grown(s.skippedKeys, pushed.skippedKeys, m.dhPub, s.rootKey, way, n, i - n)
    BY <1>1, <2>1, SkipFacts DEF pushed
  <2>5. pushed.skippedKeys \in Seq(SkippedKey)
    BY <2>4 DEF Grown
  <2>6. t \in RatchetState /\ t.skippedKeys = pushed.skippedKeys /\ SameBut(s, t, {"skippedKeys"})
    BY <1>1, <2>3, <2>5, SetSkippedKeys
  <2>7. m.key # KeyAt(s.rootKey, way, i)
    BY <1>3, <2>1, OpensAhead
  <2> QED
    BY <1>3, <2>1, <2>4, <2>6, <2>7
<1> QED
  BY <1>2, <1>3

-----------------------------------------------------------------------------
(* What is sent                                                            *)

\* c sends on chain way of session root, and p receives on it.
Side(root, way, c, p) ==
    \/ way = 1 /\ root[1] = c /\ root[2] = p
    \/ way = 2 /\ root[1] = p /\ root[2] = c

OnChain(m, root, way) == m.key.root = root /\ m.key.way = way

SamePage(m1, m2) == m1.from = m2.from /\ m1.to = m2.to /\ m1.page = m2.page

\* A DH pair is of one side of a session, a page has one session with a peer, it
\* numbers its messages, and a session it starts is of no other page.
Apart(m1, m2) ==
    /\ m1.dhPub = m2.dhPub => m1.key.root = m2.key.root /\ m1.key.way = m2.key.way
    /\ SamePage(m1, m2) => m1.dhPub = m2.dhPub
    /\ SamePage(m1, m2) /\ m1.msgIndex = m2.msgIndex => m1 = m2
    /\ m1.key.root = m2.key.root /\ m1.key.way = 1 /\ m2.key.way = 1 => m1.page = m2.page

\* Messages of S are of sessions of their two parties, under the keys of their
\* numbers.
TalkOK(S) ==
    /\ S \subseteq Message
    /\ \A m \in S : /\ Side(m.key.root, m.key.way, m.from, m.to)
                    /\ m.key = KeyAt(m.key.root, m.key.way, m.msgIndex)
    /\ \A m1, m2 \in S : Apart(m1, m2)

\* c drew the pair, when it has drawn D[c] pairs.
DrawnBy(D, c, pair) == pair[1] = c /\ pair[2] <= D[c]

\* The message is of its sender's pairs and of no later page.
MadeOf(m, D, P) ==
    /\ m.page <= P[m.from]
    /\ DrawnBy(D, m.from, m.dhPub)
    /\ m.key.way = 1 => DrawnBy(D, m.from, m.key.root[3])

\* c's state with p is of a session of the two and of pairs that c has drawn.
StateOK(s, c, p, D) ==
    /\ Side(s.rootKey, s.sendChainKey.way, c, p)
    /\ Side(s.rootKey, s.recvChainKey.way, p, c)
    /\ s.recvChainKey.way # s.sendChainKey.way
    /\ s.sendChainKey = KeyAt(s.rootKey, s.sendChainKey.way, s.sendCount)
    /\ DrawnBy(D, c, s.dhPair)
    /\ s.sendChainKey.way = 1 => DrawnBy(D, c, s.rootKey[3])

OfPage(m, c, p, P) == m.from = c /\ m.to = p /\ m.page = P[c]

\* c's state with p goes with what c's page has sealed for p.
SendOK(s, c, p, S, P) ==
    \A m \in S :
        /\ OfPage(m, c, p, P) => m.dhPub = s.dhPair /\ m.msgIndex < s.sendCount
        /\ m.dhPub = s.dhPair => OnChain(m, s.rootKey, s.sendChainKey.way)
        /\ OnChain(m, s.rootKey, 1) /\ s.sendChainKey.way = 1 => m.page = P[c]

SealedInv ==
    /\ IsFiniteSet(sealed)
    /\ TalkOK(sealed)
    /\ \A m \in sealed : MadeOf(m, drawn, page)
    /\ \A c, p \in Client : store[c][p] = None => \A m \in sealed : ~OfPage(m, c, p, page)
    /\ \A c, p \in Client : store[c][p] # None =>
           StateOK(store[c][p], c, p, drawn) /\ SendOK(store[c][p], c, p, sealed, page)
    /\ \A c, p, q \in Client :
           store[c][p] # None /\ store[c][q] # None /\ store[c][p].dhPair = store[c][q].dhPair => p = q

-----------------------------------------------------------------------------
(* What is read: a client's row of states, the log H, and the messages S   *)
(* that were ever sealed.                                                  *)

\* The pairs that messages of a chain were sealed with.
PairsOf(S, root, way) == {m.dhPub : m \in {x \in S : OnChain(x, root, way)}}

\* The cached keys of a state that expects number n of the chain: each is the
\* chain's key of its number, and one that is cached under a pair of the chain
\* is of a number passed over, and there is one for each.
CacheOK(keys, S, root, way, n) ==
    /\ Len(keys) <= MAX_SKIP
    /\ \A i \in 1..Len(keys) :
           /\ \E m \in S : m.dhPub = keys[i].dhPub
           /\ keys[i].key = KeyAt(root, way, keys[i].msgIndex)
           /\ keys[i].dhPub \in PairsOf(S, root, way) => keys[i].msgIndex < n
    /\ \A i, j \in 1..Len(keys) :
           /\ keys[i].dhPub \in PairsOf(S, root, way)
           /\ keys[j].dhPub \in PairsOf(S, root, way)
           /\ keys[i].msgIndex = keys[j].msgIndex
           => i = j

\* A message of the chain may find the key of number k.
Holds(keys, S, root, way, k) ==
    \E i \in 1..Len(keys) : keys[i].dhPub \in PairsOf(S, root, way) /\ keys[i].msgIndex = k

\* c's state s with p.
ReceiveOK(s, S, H, c, p) ==
    /\ Ready(s, s.recvChainKey.way)
    /\ CacheOK(s.skippedKeys, S, s.rootKey, s.recvChainKey.way, s.recvCount)
    /\ s.recvCount > 0 =>
           \E i \in 1..Len(H) :
               /\ H[i].from = p /\ H[i].to = c /\ OnChain(H[i], s.rootKey, s.recvChainKey.way)
               /\ H[i].msgIndex = s.recvCount - 1

\* Message m does not open in state s, nor will it.
Shut(s, S, m) ==
    /\ s # None
    /\ \/ ~OnChain(m, s.rootKey, s.recvChainKey.way)
       \/ /\ m.msgIndex < s.recvCount
          /\ ~Holds(s.skippedKeys, S, s.rootKey, s.recvChainKey.way, m.msgIndex)
       \/ m.msgIndex > s.recvCount + MAX_SKIP

\* The messages that were opened, in the order they were.
ReadBy(op, H) == [t \in 1..Len(op) |-> H[op[t]]]

\* What was opened is of the chain the page receives on, and is shut.
ReadOK(R, row, S, c) ==
    \A t \in 1..Len(R) :
        /\ R[t].to = c
        /\ row[R[t].from] # None
        /\ OnChain(R[t], row[R[t].from].rootKey, row[R[t].from].recvChainKey.way)
        /\ R[t].msgIndex < row[R[t].from].recvCount
        /\ Shut(row[R[t].from], S, R[t])

Once(op) == \A t, u \in 1..Len(op) : op[t] = op[u] => t = u

\* A scan has opened all it has come past.
Scanned(op, sc, H, c) ==
    sc # None =>
        \A i \in 1..(sc.pos - 1) : H[i].to = c => \E t \in 1..Len(op) : op[t] = i

\* A message of p's that was sealed with pair was opened.
Answered(R, p, pair) == \E t \in 1..Len(R) : R[t].from = p /\ R[t].dhPub = pair

\* The cached keys are in the order of their numbers, and there is no more of
\* them than numbers between.
Spaced(keys, n) ==
    /\ \A i, j \in 1..Len(keys) : i < j => keys[i].msgIndex + (j - i) <= keys[j].msgIndex
    /\ \A i \in 1..Len(keys) : keys[i].msgIndex + (Len(keys) - i) < n - 1

\* The cache as long as no message of another chain was rejected.
CalmState(s, R, p) ==
    /\ Len(s.skippedKeys) <= MAX_SKIPPED_KEYS
    /\ \A i \in 1..Len(s.skippedKeys) : Answered(R, p, s.skippedKeys[i].dhPub)
    /\ Spaced(s.skippedKeys, s.recvCount)

Calm(R, row) == \A p \in Client : row[p] # None => CalmState(row[p], R, p)

\* Afterwards: no scan comes past that message, nor opens what is before it.
StuckAt(f, row, sc, H, S, c) ==
    /\ H[f].to = c
    /\ \A i \in 1..f : H[i].to = c => Shut(row[H[i].from], S, H[i])
    /\ sc # None => sc.pos <= f

Stuck(row, sc, H, S, c) == \E f \in 1..Len(H) : StuckAt(f, row, sc, H, S, c)

\* A number that state s with p has passed was opened, or its key is cached, or
\* was lost since there was no room for it.
Accounted(R, s, p, k) ==
    \/ \E t \in 1..Len(R) : R[t].from = p /\ R[t].msgIndex = k
    \/ \E i \in 1..Len(s.skippedKeys) :
           s.skippedKeys[i].msgIndex = k /\ Answered(R, p, s.skippedKeys[i].dhPub)
    \/ k + MAX_SKIPPED_KEYS < s.recvCount - 1
    \/ \E t \in 1..Len(R) :
           /\ R[t].from = p
           /\ R[t].msgIndex > k
           /\ \A u \in 1..(t - 1) :
                  R[u].from = p => R[u].msgIndex + (MAX_SKIP - MAX_SKIPPED_KEYS) < k

AllAccounted(R, row) ==
    \A p \in Client : row[p] # None => \A k \in 0..(row[p].recvCount - 1) : Accounted(R, row[p], p, k)

RowOK(row, S, H, c) == \A p \in Client : row[p] # None => ReceiveOK(row[p], S, H, c, p)

Reading(row, op, sc, H, S, c) ==
    /\ RowOK(row, S, H, c)
    /\ ReadOK(ReadBy(op, H), row, S, c)
    /\ Once(op)
    /\ Scanned(op, sc, H, c)
    /\ Calm(ReadBy(op, H), row) \/ Stuck(row, sc, H, S, c)
    /\ AllAccounted(ReadBy(op, H), row)

ReadInv == \A c \in Client : Reading(store[c], opened[c], scan[c], hub, sealed, c)

LogTyped ==
    /\ sealed \subseteq Message
    /\ hub \in Seq(sealed)
    /\ outbox \subseteq sealed \ Posted
    /\ others \subseteq Other
    /\ drawn \in [Client -> Nat]
    /\ page \in [Client -> Nat]
    /\ store \in [Client -> [Client -> RatchetState \union {None}]]

PagesTyped ==
    /\ opened \in [Client -> Seq(1..Len(hub))]
    /\ view \in [Client -> Seq(1..Len(hub))]
    /\ scan \in [Client -> Scan \union {None}]
    /\ \A c \in Client :
           scan[c] # None =>
               /\ scan[c].upTo <= Len(hub)
               /\ scan[c].pos \in 1..(scan[c].upTo + 1)
               /\ scan[c].found \in Seq(1..Len(hub))

Inv == LogTyped /\ PagesTyped /\ Within(Sends, page, others) /\ SealedInv /\ ReadInv

-----------------------------------------------------------------------------
(* Caches                                                                  *)

LEMMA PairOfChain ==
    ASSUME NEW S, TalkOK(S), NEW m \in S, NEW root, NEW way
    PROVE  m.dhPub \in PairsOf(S, root, way) <=> OnChain(m, root, way)
<1>1. ASSUME m.dhPub \in PairsOf(S, root, way) PROVE OnChain(m, root, way)
  <2>1. PICK x \in S : OnChain(x, root, way) /\ x.dhPub = m.dhPub
    BY <1>1 DEF PairsOf
  <2>2. Apart(x, m)
    BY DEF TalkOK
  <2> QED
    BY <2>1, <2>2 DEF Apart, OnChain
<1> QED
  BY <1>1 DEF PairsOf

LEMMA PairsStay ==
    ASSUME NEW S, NEW S2, S \subseteq S2, TalkOK(S2), NEW root, NEW way, NEW m \in S
    PROVE  m.dhPub \in PairsOf(S, root, way) <=> m.dhPub \in PairsOf(S2, root, way)
<1>1. TalkOK(S)
  BY DEF TalkOK
<1> QED
  BY <1>1, PairOfChain

LEMMA ReadyWay ==
    ASSUME NEW s, NEW way, Ready(s, way)
    PROVE  s.recvChainKey.way = way
BY KeyParts DEF Ready

\* Where the entries of a cache are after one was taken out.
WithoutFrom(keys, t, x) ==
    /\ t \in Seq(SkippedKey) /\ Len(t) \in Nat /\ Len(t) < Len(keys)
    /\ \A i \in 1..Len(t) : /\ i + 1 \in 1..Len(keys) /\ i \in 1..Len(keys)
                            /\ \/ i < x /\ t[i] = keys[i]
                               \/ i >= x /\ t[i] = keys[i + 1]
    /\ \A i \in 1..Len(keys) : i # x => \E j \in 1..Len(t) : t[j] = keys[i]

LEMMA WithoutEntries ==
    ASSUME NEW keys \in Seq(SkippedKey), NEW t, NEW x \in 1..Len(keys), Without(keys, t, x)
    PROVE  WithoutFrom(keys, t, x)
<1>1. /\ t \in Seq(SkippedKey) /\ Len(t) \in Nat /\ Len(t) = Len(keys) - 1 /\ Len(keys) \in Nat
      /\ x \in Nat
      /\ \A i \in 1..Len(t) : t[i] = IF i < x THEN keys[i] ELSE keys[i + 1]
  BY DEF Without
<1>2. ASSUME NEW i \in 1..Len(t)
      PROVE  /\ i + 1 \in 1..Len(keys) /\ i \in 1..Len(keys)
             /\ \/ i < x /\ t[i] = keys[i]
                \/ i >= x /\ t[i] = keys[i + 1]
  BY <1>1
<1>3. ASSUME NEW i \in 1..Len(keys), i # x PROVE \E j \in 1..Len(t) : t[j] = keys[i]
  <2>1. CASE i < x
    <3>1. i \in 1..Len(t)
      BY <1>1, <2>1
    <3> QED
      BY <1>1, <2>1, <3>1
  <2>2. CASE i > x
    <3>1. i - 1 \in 1..Len(t) /\ ~(i - 1 < x) /\ (i - 1) + 1 = i
      BY <1>1, <2>2
    <3>2. t[i - 1] = keys[i]
      BY <1>1, <3>1
    <3> QED
      BY <3>1, <3>2
  <2> QED
    BY <1>1, <1>3, <2>1, <2>2
<1> QED
  BY <1>1, <1>2, <1>3 DEF WithoutFrom

\* What opening a message keeps of the cache, and that the message is shut then.
CacheAfter(s, t, m, S, way) ==
    /\ OnChain(m, s.rootKey, way)
    /\ t.rootKey = s.rootKey
    /\ s.recvCount <= t.recvCount
    /\ m.msgIndex < t.recvCount
    /\ t.recvCount = s.recvCount \/ t.recvCount = m.msgIndex + 1
    /\ CacheOK(t.skippedKeys, S, s.rootKey, way, t.recvCount)
    /\ ~Holds(t.skippedKeys, S, s.rootKey, way, m.msgIndex)
    /\ \A k \in Nat : k < s.recvCount /\ Holds(t.skippedKeys, S, s.rootKey, way, k)
                          => Holds(s.skippedKeys, S, s.rootKey, way, k)

LEMMA CachedAfter ==
    ASSUME NEW S, TalkOK(S), NEW m \in S, NEW s, NEW way, Ready(s, way),
           CacheOK(s.skippedKeys, S, s.rootKey, way, s.recvCount),
           NEW t \in RatchetState, NEW x, OpenedCached(s, t, m, x)
    PROVE  CacheAfter(s, t, m, S, way)
<1> DEFINE keys == s.skippedKeys
           rest == t.skippedKeys
           root == s.rootKey
           n == s.recvCount
<1>1. /\ x \in 1..Len(keys) /\ keys[x].dhPub = m.dhPub /\ keys[x].msgIndex = m.msgIndex
      /\ keys[x].key = m.key /\ Without(keys, rest, x)
      /\ t.rootKey = root /\ t.recvCount = n
  BY DEF OpenedCached, SameBut
<1>2. /\ keys \in Seq(SkippedKey) /\ Len(keys) \in Nat /\ n \in Nat /\ m.msgIndex \in Nat
      /\ \A i \in 1..Len(keys) : keys[i].msgIndex \in Nat
  <2>1. m \in Message /\ s \in RatchetState
    BY DEF TalkOK, Ready
  <2> QED
    BY <2>1, StateFacts, MessageFacts
<1>3. /\ rest \in Seq(SkippedKey) /\ Len(rest) \in Nat /\ Len(rest) < Len(keys)
      /\ \A i \in 1..Len(rest) : /\ i + 1 \in 1..Len(keys) /\ i \in 1..Len(keys)
                                 /\ \/ i < x /\ rest[i] = keys[i]
                                    \/ i >= x /\ rest[i] = keys[i + 1]
  BY ONLY <1>1, <1>2, WithoutEntries DEF WithoutFrom
<1>4. OnChain(m, root, way)
  BY <1>1, KeyParts DEF CacheOK, OnChain
<1>5. m.dhPub \in PairsOf(S, root, way)
  BY <1>4, PairOfChain
<1>6. m.msgIndex < n
  BY <1>1, <1>5 DEF CacheOK
<1> HIDE DEF keys, rest, root, n
<1>c. CacheOK(keys, S, root, way, n)
  BY DEF keys, root, n
<1>7. ASSUME NEW i \in 1..Len(rest)
      PROVE  \E j \in 1..Len(keys) : j # x /\ rest[i] = keys[j]
  <2>1. CASE i < x /\ rest[i] = keys[i]
    BY <1>3, <2>1
  <2>2. CASE i >= x /\ rest[i] = keys[i + 1]
    <3>1. i + 1 # x /\ i + 1 \in 1..Len(keys)
      BY <1>1, <1>3, <2>2
    <3> QED
      BY <2>2, <3>1
  <2> QED
    BY <1>3, <2>1, <2>2
<1>8. ASSUME NEW i \in 1..Len(rest), NEW j \in 1..Len(rest),
             rest[i].dhPub \in PairsOf(S, root, way), rest[j].dhPub \in PairsOf(S, root, way),
             rest[i].msgIndex = rest[j].msgIndex
      PROVE  i = j
  <2>1. \A a, b \in 1..Len(keys) : keys[a] = rest[i] /\ keys[b] = rest[j] => a = b
    BY <1>8, <1>c DEF CacheOK
  <2>2. (i < x /\ rest[i] = keys[i]) \/ (i >= x /\ rest[i] = keys[i + 1])
    BY <1>3
  <2>3. (j < x /\ rest[j] = keys[j]) \/ (j >= x /\ rest[j] = keys[j + 1])
    BY <1>3
  <2>4. i \in 1..Len(keys) /\ i + 1 \in 1..Len(keys) /\ j \in 1..Len(keys) /\ j + 1 \in 1..Len(keys)
    BY <1>3
  <2>5. i \in Int /\ j \in Int /\ x \in Int
    BY <1>1
  <2>6. CASE i < x /\ rest[i] = keys[i] /\ j < x /\ rest[j] = keys[j]
    BY <2>1, <2>4, <2>6
  <2>7. CASE i < x /\ rest[i] = keys[i] /\ j >= x /\ rest[j] = keys[j + 1]
    <3>1. i = j + 1
      BY <2>1, <2>4, <2>7
    <3> QED
      BY <2>5, <2>7, <3>1
  <2>8. CASE i >= x /\ rest[i] = keys[i + 1] /\ j < x /\ rest[j] = keys[j]
    <3>1. i + 1 = j
      BY <2>1, <2>4, <2>8
    <3> QED
      BY <2>5, <2>8, <3>1
  <2>9. CASE i >= x /\ rest[i] = keys[i + 1] /\ j >= x /\ rest[j] = keys[j + 1]
    <3>1. i + 1 = j + 1
      BY <2>1, <2>4, <2>9
    <3> QED
      BY <2>5, <3>1
  <2> QED
    BY <2>2, <2>3, <2>6, <2>7, <2>8, <2>9
<1>9. CacheOK(rest, S, root, way, n)
  <2>1. Len(rest) <= MAX_SKIP
    BY <1>2, <1>3, <1>c, RatchetAssumption DEF CacheOK
  <2>2. ASSUME NEW i \in 1..Len(rest)
        PROVE  /\ \E y \in S : y.dhPub = rest[i].dhPub
               /\ rest[i].key = KeyAt(root, way, rest[i].msgIndex)
               /\ rest[i].dhPub \in PairsOf(S, root, way) => rest[i].msgIndex < n
    BY <1>7, <1>c DEF CacheOK
  <2> QED
    BY <2>1, <2>2, <1>8 DEF CacheOK
<1>10. ASSUME Holds(rest, S, root, way, m.msgIndex) PROVE FALSE
  <2>1. PICK i \in 1..Len(rest) : rest[i].dhPub \in PairsOf(S, root, way) /\ rest[i].msgIndex = m.msgIndex
    BY <1>10 DEF Holds
  <2>2. PICK j \in 1..Len(keys) : j # x /\ rest[i] = keys[j]
    BY <1>7
  <2> QED
    BY <1>1, <1>5, <1>c, <2>1, <2>2 DEF CacheOK, keys, root
<1>11. ASSUME NEW k, Holds(rest, S, root, way, k) PROVE Holds(keys, S, root, way, k)
  BY <1>7, <1>11 DEF Holds
<1>12. n <= n
  BY <1>2
<1> QED
  BY <1>1, <1>4, <1>6, <1>9, <1>10, <1>11, <1>12 DEF CacheAfter, keys, rest, root, n

\* Where the entries of a cache come from after a message ahead was opened.
LEMMA AheadEntries ==
    ASSUME NEW s, NEW way, Ready(s, way), NEW m \in Message, NEW t, NEW g, NEW d,
           OpenedAhead(s, t, m, way, g, d)
    PROVE  /\ d \in Nat /\ Len(g) \in Nat /\ Len(g) = Len(t.skippedKeys) + d
           /\ Len(s.skippedKeys) \in Nat /\ Len(s.skippedKeys) <= Len(g)
           /\ t.skippedKeys \in Seq(SkippedKey) /\ Len(t.skippedKeys) \in Nat
           /\ Len(g) <= Len(s.skippedKeys) + (m.msgIndex - s.recvCount)
           /\ Len(g) < Len(s.skippedKeys) + (m.msgIndex - s.recvCount) => Len(g) = MAX_SKIP
           /\ \A i \in 1..Len(g) : g[i] \in SkippedKey
           /\ \A i \in 1..Len(g) :
                  \/ i \in 1..Len(s.skippedKeys) /\ g[i] = s.skippedKeys[i]
                  \/ \E x \in 1..(Len(g) - Len(s.skippedKeys)) :
                         /\ i = Len(s.skippedKeys) + x
                         /\ x \in 1..(m.msgIndex - s.recvCount)
                         /\ g[i].dhPub = m.dhPub
                         /\ g[i].msgIndex = s.recvCount + x - 1
                         /\ g[i].key = KeyAt(s.rootKey, way, g[i].msgIndex)
           /\ \A j \in 1..Len(t.skippedKeys) : j + d \in 1..Len(g) /\ t.skippedKeys[j] = g[j + d]
<1> DEFINE keys == s.skippedKeys
           n == s.recvCount
           k == m.msgIndex - n
<1>1. /\ keys \in Seq(SkippedKey) /\ Len(keys) <= MAX_SKIP /\ n \in Nat /\ k \in Nat
  BY StateFacts, MessageFacts DEF Ready, OpenedAhead
<1>2. Grown(keys, g, m.dhPub, s.rootKey, way, n, k)
  BY DEF OpenedAhead
<1>3. /\ d \in Nat /\ t.skippedKeys \in Seq(SkippedKey) /\ Len(t.skippedKeys) = Len(g) - d
      /\ \A j \in 1..Len(t.skippedKeys) : t.skippedKeys[j] = g[j + d]
  BY DEF OpenedAhead, Cut
<1> HIDE DEF keys, n, k
<1>4. /\ g \in Seq(SkippedKey)
      /\ Len(keys) \in Nat /\ Len(g) \in Nat /\ Len(keys) <= Len(g) /\ Len(g) <= MAX_SKIP
      /\ Len(g) <= Len(keys) + k /\ (Len(g) < Len(keys) + k => Len(g) = MAX_SKIP)
      /\ \A i \in 1..Len(g) :
             \/ i \in 1..Len(keys) /\ g[i] = keys[i]
             \/ \E x \in 1..(Len(g) - Len(keys)) :
                    /\ i = Len(keys) + x
                    /\ x \in 1..k
                    /\ g[i].dhPub = m.dhPub
                    /\ g[i].msgIndex = n + x - 1
                    /\ g[i].key = KeyAt(s.rootKey, way, g[i].msgIndex)
  <2>1. GrownFrom(keys, g, m.dhPub, s.rootKey, way, n, k)
    BY ONLY <1>1, <1>2, GrownEntries
  <2> QED
    BY ONLY <2>1 DEF GrownFrom
<1>5. Len(t.skippedKeys) \in Nat
  BY <1>3
<1>6. \A j \in 1..Len(t.skippedKeys) : j + d \in 1..Len(g)
  BY <1>3, <1>4, <1>5
<1>7. Len(g) = Len(t.skippedKeys) + d
  BY <1>3, <1>4, <1>5
<1>8. \A i \in 1..Len(g) : g[i] \in SkippedKey
  BY <1>4
<1> QED
  BY <1>3, <1>4, <1>5, <1>6, <1>7, <1>8 DEF keys, n, k

LEMMA AheadAfter ==
    ASSUME NEW S, TalkOK(S), NEW m \in S, NEW s, NEW way, Ready(s, way),
           CacheOK(s.skippedKeys, S, s.rootKey, way, s.recvCount),
           NEW t \in RatchetState, NEW g, NEW d, OpenedAhead(s, t, m, way, g, d)
    PROVE  CacheAfter(s, t, m, S, way)
<1> DEFINE keys == s.skippedKeys
           rest == t.skippedKeys
           root == s.rootKey
           n == s.recvCount
           i0 == m.msgIndex
<1>1. /\ n <= i0 /\ m.key = KeyAt(root, way, i0) /\ t.rootKey = root /\ t.recvCount = i0 + 1
      /\ Len(rest) <= MAX_SKIP
  BY DEF OpenedAhead, SameBut
<1>2. /\ keys \in Seq(SkippedKey) /\ Len(keys) \in Nat /\ n \in Nat /\ i0 \in Nat
      /\ m \in Message
  <2>1. m \in Message /\ s \in RatchetState
    BY DEF TalkOK, Ready
  <2> QED
    BY <2>1, StateFacts, MessageFacts
<1>3. OnChain(m, root, way)
  BY <1>1, KeyParts DEF OnChain
<1>4. /\ d \in Nat /\ Len(g) \in Nat /\ Len(rest) \in Nat
      /\ \A i \in 1..Len(g) :
             \/ i \in 1..Len(keys) /\ g[i] = keys[i]
             \/ \E x \in 1..(Len(g) - Len(keys)) :
                    /\ i = Len(keys) + x
                    /\ x \in 1..(i0 - n)
                    /\ g[i].dhPub = m.dhPub
                    /\ g[i].msgIndex = n + x - 1
                    /\ g[i].key = KeyAt(root, way, g[i].msgIndex)
      /\ \A j \in 1..Len(rest) : j + d \in 1..Len(g) /\ rest[j] = g[j + d]
  BY <1>2, AheadEntries
<1> HIDE DEF keys, rest, root, n, i0
<1>c. CacheOK(keys, S, root, way, n)
  BY DEF keys, root, n
<1>5. ASSUME NEW i \in 1..Len(g)
      PROVE  /\ \E y \in S : y.dhPub = g[i].dhPub
             /\ g[i].key = KeyAt(root, way, g[i].msgIndex)
             /\ g[i].dhPub \in PairsOf(S, root, way) => g[i].msgIndex < i0
  <2>1. CASE i \in 1..Len(keys) /\ g[i] = keys[i]
    <3>1. keys[i] \in SkippedKey
      BY <1>2, <2>1
    <3>2. keys[i].msgIndex \in Nat
      BY <3>1 DEF SkippedKey
    <3>3. keys[i].dhPub \in PairsOf(S, root, way) => keys[i].msgIndex < n
      BY <1>c, <2>1 DEF CacheOK
    <3>4. keys[i].dhPub \in PairsOf(S, root, way) => keys[i].msgIndex < i0
      BY <1>1, <1>2, <3>2, <3>3
    <3> QED
      BY <1>c, <2>1, <3>4 DEF CacheOK
  <2>2. ASSUME NEW x \in 1..(i0 - n), g[i].dhPub = m.dhPub, g[i].msgIndex = n + x - 1,
               g[i].key = KeyAt(root, way, g[i].msgIndex)
        PROVE  /\ \E y \in S : y.dhPub = g[i].dhPub
               /\ g[i].key = KeyAt(root, way, g[i].msgIndex)
               /\ g[i].dhPub \in PairsOf(S, root, way) => g[i].msgIndex < i0
    <3>1. n + x - 1 < i0
      BY <1>2
    <3> QED
      BY <2>2, <3>1
  <2> QED
    BY <1>4, <2>1, <2>2
<1>6. ASSUME NEW a \in 1..Len(g), NEW b \in 1..Len(g),
             g[a].dhPub \in PairsOf(S, root, way), g[b].dhPub \in PairsOf(S, root, way),
             g[a].msgIndex = g[b].msgIndex
      PROVE  a = b
  <2>1. ASSUME NEW i \in 1..Len(keys), g[i].dhPub \in PairsOf(S, root, way), g[i] = keys[i]
        PROVE  g[i].msgIndex \in Nat /\ g[i].msgIndex < n
    <3>1. keys[i] \in SkippedKey
      BY <1>2, <2>1
    <3> QED
      BY <1>c, <2>1, <3>1 DEF CacheOK, SkippedKey
  <2>2. CASE a \in 1..Len(keys) /\ g[a] = keys[a] /\ b \in 1..Len(keys) /\ g[b] = keys[b]
    BY <1>6, <1>c, <2>2 DEF CacheOK
  <2>3. ASSUME NEW x \in 1..(i0 - n), a = Len(keys) + x, g[a].msgIndex = n + x - 1 PROVE a = b
    <3>1. CASE b \in 1..Len(keys) /\ g[b] = keys[b]
      <4>1. g[b].msgIndex \in Nat /\ g[b].msgIndex < n
        BY <1>6, <2>1, <3>1
      <4> QED
        BY <1>2, <1>6, <2>3, <4>1
    <3>2. ASSUME NEW y \in 1..(i0 - n), b = Len(keys) + y, g[b].msgIndex = n + y - 1 PROVE a = b
      <4>1. n + x - 1 = n + y - 1
        BY <1>6, <2>3, <3>2
      <4>2. x = y
        BY <1>2, <4>1
      <4> QED
        BY <2>3, <3>2, <4>2
    <3> QED
      BY <1>4, <3>1, <3>2
  <2>4. ASSUME NEW x \in 1..(i0 - n), b = Len(keys) + x, g[b].msgIndex = n + x - 1,
               a \in 1..Len(keys), g[a] = keys[a]
        PROVE  a = b
    <3>1. g[a].msgIndex \in Nat /\ g[a].msgIndex < n
      BY <1>6, <2>1, <2>4
    <3> QED
      BY <1>2, <1>6, <2>4, <3>1
  <2> QED
    BY <1>4, <2>2, <2>3, <2>4
<1>7. CacheOK(rest, S, root, way, i0)
  <2>1. ASSUME NEW i \in 1..Len(rest)
        PROVE  /\ \E y \in S : y.dhPub = rest[i].dhPub
               /\ rest[i].key = KeyAt(root, way, rest[i].msgIndex)
               /\ rest[i].dhPub \in PairsOf(S, root, way) => rest[i].msgIndex < i0
    BY <1>4, <1>5
  <2>2. ASSUME NEW a \in 1..Len(rest), NEW b \in 1..Len(rest),
               rest[a].dhPub \in PairsOf(S, root, way), rest[b].dhPub \in PairsOf(S, root, way),
               rest[a].msgIndex = rest[b].msgIndex
        PROVE  a = b
    <3>1. a + d = b + d
      BY <1>4, <1>6, <2>2
    <3> QED
      BY <1>4, <3>1
  <2> QED
    BY <1>1, <2>1, <2>2 DEF CacheOK
<1>8. ASSUME NEW i \in 1..Len(rest), rest[i].dhPub \in PairsOf(S, root, way)
      PROVE  rest[i].msgIndex \in Nat /\ rest[i].msgIndex < i0
  <2>1. rest \in Seq(SkippedKey)
    BY StateFacts DEF rest
  <2>2. rest[i] \in SkippedKey
    BY <2>1
  <2> QED
    BY <1>7, <1>8, <2>2 DEF CacheOK, SkippedKey
<1>9. CacheOK(rest, S, root, way, i0 + 1)
  <2>1. ASSUME NEW i \in 1..Len(rest), rest[i].dhPub \in PairsOf(S, root, way)
        PROVE  rest[i].msgIndex < i0 + 1
    BY <1>2, <1>8, <2>1
  <2> QED
    BY <1>7, <2>1 DEF CacheOK
<1>10. ASSUME Holds(rest, S, root, way, i0) PROVE FALSE
  <2>1. PICK i \in 1..Len(rest) : rest[i].dhPub \in PairsOf(S, root, way) /\ rest[i].msgIndex = i0
    BY <1>10 DEF Holds
  <2> QED
    BY <1>2, <1>8, <2>1
<1>11. ASSUME NEW k \in Nat, k < n, Holds(rest, S, root, way, k) PROVE Holds(keys, S, root, way, k)
  <2>1. PICK i \in 1..Len(rest) : rest[i].dhPub \in PairsOf(S, root, way) /\ rest[i].msgIndex = k
    BY <1>11 DEF Holds
  <2>2. CASE i + d \in 1..Len(keys) /\ g[i + d] = keys[i + d]
    BY <1>4, <2>1, <2>2 DEF Holds
  <2>3. ASSUME NEW x \in 1..(i0 - n), g[i + d].msgIndex = n + x - 1 PROVE FALSE
    <3>1. k = n + x - 1
      BY <1>4, <2>1, <2>3
    <3> QED
      BY <1>2, <1>11, <3>1
  <2> QED
    BY <1>4, <2>2, <2>3
<1>12. n <= i0 + 1 /\ i0 < i0 + 1
  BY <1>1, <1>2
<1> QED
  BY <1>1, <1>3, <1>9, <1>10, <1>11, <1>12 DEF CacheAfter, keys, rest, root, n, i0

LEMMA OpenedAfter ==
    ASSUME NEW S, TalkOK(S), NEW m \in S, NEW s, NEW way, Ready(s, way),
           CacheOK(s.skippedKeys, S, s.rootKey, way, s.recvCount),
           NEW pair, Opens(s, m, pair), NEW t, t = Opened(s, m, pair)
    PROVE  /\ Ready(t, way)
           /\ SameBut(s, t, {"recvChainKey", "recvCount", "skippedKeys"})
           /\ CacheAfter(s, t, m, S, way)
<1>1. m \in Message
  BY DEF TalkOK
<1>2. /\ t \in RatchetState
      /\ (\E x : OpenedCached(s, t, m, x)) \/ (\E g, d : OpenedAhead(s, t, m, way, g, d))
  BY <1>1, OpenedFacts
<1>3. ASSUME NEW x, OpenedCached(s, t, m, x)
      PROVE  /\ Ready(t, way)
             /\ SameBut(s, t, {"recvChainKey", "recvCount", "skippedKeys"})
             /\ CacheAfter(s, t, m, S, way)
  <2>1. CacheAfter(s, t, m, S, way)
    BY <1>2, <1>3, CachedAfter
  <2>2. SameBut(s, t, {"skippedKeys"})
    BY <1>3 DEF OpenedCached
  <2>3. SameBut(s, t, {"recvChainKey", "recvCount", "skippedKeys"})
    BY <2>2 DEF SameBut
  <2>4. t.rootKey = s.rootKey /\ t.recvCount = s.recvCount /\ t.recvChainKey = s.recvChainKey
    BY <2>2 DEF SameBut
  <2>5. Ready(t, way)
    BY <1>2, <2>1, <2>4 DEF Ready, CacheAfter, CacheOK
  <2> QED
    BY <2>1, <2>3, <2>5
<1>4. ASSUME NEW g, NEW d, OpenedAhead(s, t, m, way, g, d)
      PROVE  /\ Ready(t, way)
             /\ SameBut(s, t, {"recvChainKey", "recvCount", "skippedKeys"})
             /\ CacheAfter(s, t, m, S, way)
  <2>1. CacheAfter(s, t, m, S, way)
    BY <1>2, <1>4, AheadAfter
  <2>2. SameBut(s, t, {"recvChainKey", "recvCount", "skippedKeys"})
    BY <1>4 DEF OpenedAhead
  <2>3. Ready(t, way)
    BY <1>2, <1>4, <2>2 DEF Ready, OpenedAhead, SameBut
  <2> QED
    BY <2>1, <2>2, <2>3
<1> QED
  BY <1>2, <1>3, <1>4

\* Reading on forgets nothing.
LEMMA ReadOn ==
    ASSUME NEW R \in Seq(Message), NEW m \in Message, NEW R2, R2 = Append(R, m), NEW p
    PROVE  /\ R2 \in Seq(Message) /\ Len(R) \in Nat /\ Len(R2) = Len(R) + 1
           /\ \A pair : Answered(R, p, pair) => Answered(R2, p, pair)
           /\ \A s, k : Accounted(R, s, p, k) => Accounted(R2, s, p, k)
<1>1. /\ R2 \in Seq(Message) /\ Len(R) \in Nat /\ Len(R2) = Len(R) + 1
      /\ \A t \in 1..Len(R) : R2[t] = R[t] /\ t \in 1..Len(R2)
  BY AppendFacts
<1>2. ASSUME NEW pair, Answered(R, p, pair) PROVE Answered(R2, p, pair)
  BY <1>1, <1>2 DEF Answered
<1>3. ASSUME NEW s, NEW k, Accounted(R, s, p, k) PROVE Accounted(R2, s, p, k)
  <2>1. CASE \E t \in 1..Len(R) : R[t].from = p /\ R[t].msgIndex = k
    BY <1>1, <2>1 DEF Accounted
  <2>2. CASE \E i \in 1..Len(s.skippedKeys) :
                 s.skippedKeys[i].msgIndex = k /\ Answered(R, p, s.skippedKeys[i].dhPub)
    BY <1>2, <2>2 DEF Accounted
  <2>3. CASE k + MAX_SKIPPED_KEYS < s.recvCount - 1
    BY <2>3 DEF Accounted
  <2>4. ASSUME NEW t \in 1..Len(R), R[t].from = p, R[t].msgIndex > k,
               \A u \in 1..(t - 1) :
                   R[u].from = p => R[u].msgIndex + (MAX_SKIP - MAX_SKIPPED_KEYS) < k
        PROVE  Accounted(R2, s, p, k)
    <3>1. t \in 1..Len(R2) /\ R2[t].from = p /\ R2[t].msgIndex > k
      BY <1>1, <2>4
    <3>2. \A u \in 1..(t - 1) : R2[u] = R[u]
      BY <1>1
    <3>3. \A u \in 1..(t - 1) :
              R2[u].from = p => R2[u].msgIndex + (MAX_SKIP - MAX_SKIPPED_KEYS) < k
      BY <2>4, <3>2
    <3> QED
      BY <3>1, <3>3 DEF Accounted
  <2> QED
    BY <1>3, <2>1, <2>2, <2>3, <2>4 DEF Accounted
<1> QED
  BY <1>1, <1>2, <1>3

LEMMA NewIsAnswered ==
    ASSUME NEW R \in Seq(Message), NEW m \in Message, NEW R2, R2 = Append(R, m), NEW s
    PROVE  /\ Answered(R2, m.from, m.dhPub)
           /\ Accounted(R2, s, m.from, m.msgIndex)
<1>1. Len(R) + 1 \in 1..Len(R2) /\ R2[Len(R) + 1] = m
  <2>1. Len(R) \in Nat /\ Len(R2) = Len(R) + 1 /\ R2[Len(R) + 1] = m
    BY AppendFacts
  <2> QED
    BY <2>1
<1> QED
  BY <1>1 DEF Answered, Accounted

\* A calm cache stays so, and loses no account of a number.
LEMMA CachedCalm ==
    ASSUME NEW R \in Seq(Message), NEW m \in Message, NEW R2, R2 = Append(R, m),
           NEW s \in RatchetState, CalmState(s, R, m.from),
           \A k \in 0..(s.recvCount - 1) : Accounted(R, s, m.from, k),
           NEW t \in RatchetState, NEW x, OpenedCached(s, t, m, x)
    PROVE  /\ CalmState(t, R2, m.from)
           /\ \A k \in 0..(t.recvCount - 1) : Accounted(R2, t, m.from, k)
<1> DEFINE keys == s.skippedKeys
           rest == t.skippedKeys
           n == s.recvCount
           p == m.from
<1>1. /\ x \in 1..Len(keys) /\ keys[x].msgIndex = m.msgIndex /\ Without(keys, rest, x)
      /\ t.recvCount = n
  BY DEF OpenedCached, SameBut
<1>2. /\ keys \in Seq(SkippedKey) /\ Len(keys) \in Nat /\ n \in Nat
      /\ \A i \in 1..Len(keys) : keys[i].msgIndex \in Nat
  BY StateFacts
<1>3. /\ rest \in Seq(SkippedKey) /\ Len(rest) \in Nat /\ Len(rest) < Len(keys)
      /\ \A i \in 1..Len(rest) : /\ i + 1 \in 1..Len(keys) /\ i \in 1..Len(keys)
                                 /\ \/ i < x /\ rest[i] = keys[i]
                                    \/ i >= x /\ rest[i] = keys[i + 1]
      /\ \A i \in 1..Len(keys) : i # x => \E j \in 1..Len(rest) : rest[j] = keys[i]
  <2>1. WithoutFrom(keys, rest, x)
    BY ONLY <1>1, <1>2, WithoutEntries
  <2> QED
    BY ONLY <2>1 DEF WithoutFrom
<1>4. /\ Len(keys) <= MAX_SKIPPED_KEYS
      /\ \A i \in 1..Len(keys) : Answered(R, p, keys[i].dhPub)
      /\ \A i, j \in 1..Len(keys) : i < j => keys[i].msgIndex + (j - i) <= keys[j].msgIndex
      /\ \A i \in 1..Len(keys) : keys[i].msgIndex + (Len(keys) - i) < n - 1
  BY DEF CalmState, Spaced
<1>5. /\ \A pair : Answered(R, p, pair) => Answered(R2, p, pair)
      /\ \A k : Accounted(R, s, p, k) => Accounted(R2, s, p, k)
  BY ReadOn
<1>6. Accounted(R2, t, p, m.msgIndex)
  BY NewIsAnswered
<1>a. \A k \in 0..(n - 1) : Accounted(R, s, p, k)
  OBVIOUS
<1> HIDE DEF keys, rest, n, p
<1>7. Len(rest) <= MAX_SKIPPED_KEYS /\ \A i \in 1..Len(rest) : Answered(R2, p, rest[i].dhPub)
  <2>1. Len(rest) <= MAX_SKIPPED_KEYS
    BY <1>2, <1>3, <1>4, RatchetAssumption
  <2> QED
    BY <1>3, <1>4, <1>5, <2>1
<1>g. ASSUME NEW a \in 1..Len(keys), NEW b \in 1..Len(keys), a < b
      PROVE  keys[a].msgIndex + (b - a) <= keys[b].msgIndex
  BY <1>4, <1>g
<1>8. ASSUME NEW i \in 1..Len(rest), NEW j \in 1..Len(rest), i < j
      PROVE  rest[i].msgIndex + (j - i) <= rest[j].msgIndex
  <2>1. /\ i \in 1..Len(keys) /\ j \in 1..Len(keys) /\ i + 1 \in 1..Len(keys) /\ j + 1 \in 1..Len(keys)
        /\ keys[i].msgIndex \in Nat /\ keys[j].msgIndex \in Nat
        /\ keys[i + 1].msgIndex \in Nat /\ keys[j + 1].msgIndex \in Nat
    BY <1>2, <1>3
  <2>2. CASE i < x /\ rest[i] = keys[i] /\ j < x /\ rest[j] = keys[j]
    BY <1>8, <1>g, <2>1, <2>2
  <2>3. CASE i < x /\ rest[i] = keys[i] /\ j >= x /\ rest[j] = keys[j + 1]
    <3> DEFINE b == j + 1
    <3>0. i < b /\ b \in 1..Len(keys)
      BY <1>8, <2>1
    <3> HIDE DEF b
    <3>2. keys[i].msgIndex + (b - i) <= keys[b].msgIndex
      BY <1>g, <2>1, <3>0
    <3>1. keys[i].msgIndex + ((j + 1) - i) <= keys[j + 1].msgIndex
      BY <3>2 DEF b
    <3>3. rest[i].msgIndex = keys[i].msgIndex /\ rest[j].msgIndex = keys[j + 1].msgIndex
      BY <2>3
    <3>4. \A u, v \in Nat : u + ((j + 1) - i) <= v => u + (j - i) <= v
      BY <2>1
    <3> QED
      BY <2>1, <3>1, <3>3, <3>4
  <2>4. CASE i >= x /\ rest[i] = keys[i + 1] /\ j < x /\ rest[j] = keys[j]
    BY <1>1, <1>8, <2>4
  <2>5. CASE i >= x /\ rest[i] = keys[i + 1] /\ j >= x /\ rest[j] = keys[j + 1]
    <3> DEFINE a == i + 1
               b == j + 1
    <3>0. a < b /\ a \in 1..Len(keys) /\ b \in 1..Len(keys)
      BY <1>8, <2>1
    <3> HIDE DEF a, b
    <3>2. keys[a].msgIndex + (b - a) <= keys[b].msgIndex
      BY <1>g, <3>0
    <3>1. keys[i + 1].msgIndex + ((j + 1) - (i + 1)) <= keys[j + 1].msgIndex
      BY <3>2 DEF a, b
    <3> QED
      BY <2>1, <2>5, <3>1
  <2>6. /\ (i < x /\ rest[i] = keys[i]) \/ (i >= x /\ rest[i] = keys[i + 1])
        /\ (j < x /\ rest[j] = keys[j]) \/ (j >= x /\ rest[j] = keys[j + 1])
    BY <1>3
  <2> QED
    BY <2>2, <2>3, <2>4, <2>5, <2>6
<1>9. ASSUME NEW i \in 1..Len(rest)
      PROVE  rest[i].msgIndex + (Len(rest) - i) < n - 1
  <2>1. /\ i \in 1..Len(keys) /\ i + 1 \in 1..Len(keys)
        /\ keys[i].msgIndex \in Nat /\ keys[i + 1].msgIndex \in Nat
    BY <1>2, <1>3
  <2>2. /\ keys[i].msgIndex + (Len(keys) - i) < n - 1
        /\ keys[i + 1].msgIndex + (Len(keys) - (i + 1)) < n - 1
    BY <1>4, <2>1
  <2>3. rest[i].msgIndex = keys[i].msgIndex \/ rest[i].msgIndex = keys[i + 1].msgIndex
    BY <1>3
  <2>4. Len(rest) + 1 <= Len(keys)
    BY <1>2, <1>3
  <2> QED
    BY <1>2, <1>3, <2>1, <2>2, <2>3, <2>4
<1>10. CalmState(t, R2, p)
  BY <1>1, <1>7, <1>8, <1>9 DEF CalmState, Spaced, rest
<1>11. ASSUME NEW k \in 0..(n - 1) PROVE Accounted(R2, t, p, k)
  <2>1. Accounted(R2, s, p, k)
    BY <1>5, <1>a
  <2>2. CASE \E i \in 1..Len(keys) : keys[i].msgIndex = k /\ Answered(R2, p, keys[i].dhPub)
    <3>1. PICK i \in 1..Len(keys) : keys[i].msgIndex = k /\ Answered(R2, p, keys[i].dhPub)
      BY <2>2
    <3>2. CASE i = x
      BY <1>1, <1>6, <3>1, <3>2
    <3>3. CASE i # x
      <4>1. PICK j \in 1..Len(rest) : rest[j] = keys[i]
        BY <1>3, <3>3
      <4> QED
        BY <3>1, <4>1 DEF Accounted, rest
    <3> QED
      BY <3>2, <3>3
  <2> QED
    BY <1>1, <2>1, <2>2 DEF Accounted, keys, n
<1> QED
  BY <1>1, <1>10, <1>11 DEF n, p

LEMMA AheadCalm ==
    ASSUME NEW R \in Seq(Message), NEW m \in Message, NEW R2, R2 = Append(R, m),
           NEW s, NEW way, Ready(s, way), CalmState(s, R, m.from),
           \A k \in 0..(s.recvCount - 1) : Accounted(R, s, m.from, k),
           \A u \in 1..Len(R) : R[u].from = m.from => R[u].msgIndex < s.recvCount,
           NEW t \in RatchetState, NEW g, NEW d, OpenedAhead(s, t, m, way, g, d)
    PROVE  /\ CalmState(t, R2, m.from)
           /\ \A k \in 0..(t.recvCount - 1) : Accounted(R2, t, m.from, k)
<1> DEFINE keys == s.skippedKeys
           rest == t.skippedKeys
           n == s.recvCount
           i0 == m.msgIndex
           p == m.from
<1>1. /\ n <= i0 /\ t.recvCount = i0 + 1 /\ Len(rest) <= MAX_SKIPPED_KEYS
      /\ d > 0 => Len(rest) = MAX_SKIPPED_KEYS
  BY DEF OpenedAhead, Cut
<1>2. /\ s \in RatchetState /\ keys \in Seq(SkippedKey) /\ Len(keys) \in Nat /\ n \in Nat /\ i0 \in Nat
      /\ \A i \in 1..Len(keys) : keys[i].msgIndex \in Nat
      /\ MAX_SKIP \in Nat /\ MAX_SKIPPED_KEYS \in Nat
  BY StateFacts, MessageFacts, RatchetAssumption DEF Ready
<1>3. /\ d \in Nat /\ Len(g) \in Nat /\ Len(g) = Len(rest) + d /\ Len(keys) <= Len(g)
      /\ Len(rest) \in Nat
      /\ Len(g) <= Len(keys) + (i0 - n)
      /\ Len(g) < Len(keys) + (i0 - n) => Len(g) = MAX_SKIP
      /\ \A i \in 1..Len(g) :
             \/ i \in 1..Len(keys) /\ g[i] = keys[i]
             \/ \E x \in 1..(Len(g) - Len(keys)) :
                    /\ i = Len(keys) + x
                    /\ x \in 1..(i0 - n)
                    /\ g[i].dhPub = m.dhPub
                    /\ g[i].msgIndex = n + x - 1
                    /\ g[i].key = KeyAt(s.rootKey, way, g[i].msgIndex)
      /\ \A j \in 1..Len(rest) : j + d \in 1..Len(g) /\ rest[j] = g[j + d]
  BY AheadEntries
<1>4. /\ Len(keys) <= MAX_SKIPPED_KEYS
      /\ \A i \in 1..Len(keys) : Answered(R, p, keys[i].dhPub)
      /\ \A i, j \in 1..Len(keys) : i < j => keys[i].msgIndex + (j - i) <= keys[j].msgIndex
      /\ \A i \in 1..Len(keys) : keys[i].msgIndex + (Len(keys) - i) < n - 1
  BY DEF CalmState, Spaced
<1>5. /\ \A pair : Answered(R, p, pair) => Answered(R2, p, pair)
      /\ \A k : Accounted(R, s, p, k) => Accounted(R2, s, p, k)
      /\ Len(R) \in Nat /\ Len(R2) = Len(R) + 1
  BY ReadOn
<1>6. Accounted(R2, t, p, i0) /\ Answered(R2, p, m.dhPub)
  BY NewIsAnswered
<1>a. /\ \A k \in 0..(n - 1) : Accounted(R, s, p, k)
      /\ \A u \in 1..Len(R) : R[u].from = p => R[u].msgIndex < n
  OBVIOUS
<1> HIDE DEF keys, rest, n, i0, p
\* The grown cache, before it is cut.
<1>7. ASSUME NEW i \in 1..Len(g)
      PROVE  /\ g[i].msgIndex \in Nat /\ Answered(R2, p, g[i].dhPub)
             /\ g[i].msgIndex + (Len(g) - i) < i0
             /\ i \in 1..Len(keys) => g[i] = keys[i] /\ g[i].msgIndex + (Len(keys) - i) < n - 1
             /\ i > Len(keys) => g[i].msgIndex = n + (i - Len(keys)) - 1
  <2>1. CASE i \in 1..Len(keys) /\ g[i] = keys[i]
    <3>1. keys[i].msgIndex \in Nat /\ keys[i].msgIndex + (Len(keys) - i) < n - 1
      BY <1>2, <1>4, <2>1
    <3>2. keys[i].msgIndex + (Len(g) - i) < i0 /\ ~(i > Len(keys))
      BY <1>2, <1>3, <2>1, <3>1
    <3> QED
      BY <1>4, <1>5, <2>1, <3>1, <3>2
  <2>2. ASSUME NEW x \in 1..(Len(g) - Len(keys)), i = Len(keys) + x, x \in 1..(i0 - n),
               g[i].dhPub = m.dhPub, g[i].msgIndex = n + x - 1
        PROVE  /\ g[i].msgIndex \in Nat /\ Answered(R2, p, g[i].dhPub)
               /\ g[i].msgIndex + (Len(g) - i) < i0
               /\ ~(i \in 1..Len(keys))
               /\ g[i].msgIndex = n + (i - Len(keys)) - 1
    <3>1. n + x - 1 \in Nat /\ n + x - 1 + (Len(g) - i) < i0 /\ ~(i \in 1..Len(keys))
      BY <1>2, <1>3, <2>2
    <3>2. n + x - 1 = n + (i - Len(keys)) - 1
      BY <1>2, <2>2
    <3> QED
      BY <1>6, <2>2, <3>1, <3>2
  <2> QED
    <3>1. \/ i \in 1..Len(keys) /\ g[i] = keys[i]
          \/ \E x \in 1..(Len(g) - Len(keys)) :
                    /\ i = Len(keys) + x
                    /\ x \in 1..(i0 - n)
                    /\ g[i].dhPub = m.dhPub
                    /\ g[i].msgIndex = n + x - 1
      BY <1>3
    <3> QED
      BY <2>1, <2>2, <3>1
<1>8. ASSUME NEW i \in 1..Len(g), NEW j \in 1..Len(g), i < j
      PROVE  g[i].msgIndex + (j - i) <= g[j].msgIndex
  <2>1. g[i].msgIndex \in Nat /\ g[j].msgIndex \in Nat
    BY <1>7
  <2>2. CASE i \in 1..Len(keys) /\ j \in 1..Len(keys)
    BY <1>4, <1>7, <1>8, <2>2
  <2>3. CASE i \in 1..Len(keys) /\ j > Len(keys)
    <3>1. g[i].msgIndex + (Len(keys) - i) < n - 1 /\ g[j].msgIndex = n + (j - Len(keys)) - 1
      BY <1>7, <2>3
    <3> QED
      BY <1>2, <2>1, <3>1
  <2>4. CASE i > Len(keys) /\ j > Len(keys)
    <3>1. g[i].msgIndex = n + (i - Len(keys)) - 1 /\ g[j].msgIndex = n + (j - Len(keys)) - 1
      BY <1>7, <2>4
    <3> QED
      BY <1>2, <3>1
  <2> QED
    BY <1>2, <1>8, <2>2, <2>3, <2>4
<1>9. Spaced(rest, i0 + 1)
  <2>1. ASSUME NEW i \in 1..Len(rest), NEW j \in 1..Len(rest), i < j
        PROVE  rest[i].msgIndex + (j - i) <= rest[j].msgIndex
    <3>1. /\ i + d \in 1..Len(g) /\ rest[i] = g[i + d]
          /\ j + d \in 1..Len(g) /\ rest[j] = g[j + d]
      BY <1>3
    <3>2. i + d < j + d /\ (j + d) - (i + d) = j - i
      BY <1>3, <2>1
    <3>3. g[i + d].msgIndex + ((j + d) - (i + d)) <= g[j + d].msgIndex
      BY <1>8, <3>1, <3>2
    <3> QED
      BY <3>1, <3>2, <3>3
  <2>2. ASSUME NEW i \in 1..Len(rest)
        PROVE  rest[i].msgIndex + (Len(rest) - i) < (i0 + 1) - 1
    <3>1. i + d \in 1..Len(g) /\ rest[i] = g[i + d]
      BY <1>3
    <3>2. g[i + d].msgIndex + (Len(g) - (i + d)) < i0 /\ g[i + d].msgIndex \in Nat
      BY <1>7, <3>1
    <3>3. Len(g) - (i + d) = Len(rest) - i /\ (i0 + 1) - 1 = i0
      BY <1>2, <1>3
    <3> QED
      BY <3>1, <3>2, <3>3
  <2> QED
    BY <2>1, <2>2 DEF Spaced
<1>10. CalmState(t, R2, p)
  <2>1. \A i \in 1..Len(rest) : Answered(R2, p, rest[i].dhPub)
    BY <1>3, <1>7
  <2> QED
    BY <1>1, <1>9, <2>1 DEF CalmState, rest
\* An entry of the grown cache is still there, or was cut.
<1>11. ASSUME NEW i \in 1..Len(g) PROVE Accounted(R2, t, p, g[i].msgIndex)
  <2>1. CASE i > d
    <3>1. i - d \in 1..Len(rest) /\ (i - d) + d = i
      BY <1>3, <2>1
    <3>2. rest[i - d] = g[i]
      BY <1>3, <3>1
    <3>3. rest[i - d].msgIndex = g[i].msgIndex /\ Answered(R2, p, rest[i - d].dhPub)
      BY <1>7, <3>2
    <3> QED
      BY <3>1, <3>3 DEF Accounted, rest
  <2>2. CASE i <= d
    <3>1. Len(rest) = MAX_SKIPPED_KEYS
      BY <1>1, <1>3, <2>2
    <3>2. g[i].msgIndex + (Len(g) - i) < i0 /\ g[i].msgIndex \in Nat
      BY <1>7
    <3>3. g[i].msgIndex + MAX_SKIPPED_KEYS < (i0 + 1) - 1
      BY <1>2, <1>3, <2>2, <3>1, <3>2
    <3> QED
      BY <1>1, <3>3 DEF Accounted
  <2> QED
    BY <1>3, <2>1, <2>2
<1>12. ASSUME NEW k \in 0..(n - 1) PROVE Accounted(R2, t, p, k)
  <2>1. Accounted(R2, s, p, k)
    BY <1>5, <1>a
  <2>2. CASE \E i \in 1..Len(keys) : keys[i].msgIndex = k
    <3>1. PICK i \in 1..Len(keys) : keys[i].msgIndex = k
      BY <2>2
    <3>2. i \in 1..Len(g)
      BY <1>2, <1>3
    <3>3. g[i].msgIndex = k
      BY <1>7, <3>1, <3>2
    <3> QED
      BY <1>11, <3>2, <3>3
  <2>3. CASE k + MAX_SKIPPED_KEYS < n - 1
    <3>1. k + MAX_SKIPPED_KEYS < (i0 + 1) - 1
      BY <1>1, <1>2, <2>3
    <3> QED
      BY <1>1, <3>1 DEF Accounted
  <2> QED
    BY <2>1, <2>2, <2>3 DEF Accounted, keys, n
<1>13. ASSUME NEW k \in n..(i0 - 1) PROVE Accounted(R2, t, p, k)
  <2> DEFINE i == Len(keys) + (k - n) + 1
  <2>1. i \in Nat /\ i > Len(keys) /\ i >= 1 /\ n + (i - Len(keys)) - 1 = k
    BY <1>2
  <2>2. CASE i <= Len(g)
    <3>1. i \in 1..Len(g)
      BY <1>3, <2>1, <2>2
    <3> HIDE DEF i
    <3>2. g[i].msgIndex = k
      BY <1>7, <2>1, <3>1
    <3> QED
      BY <1>11, <3>1, <3>2
  <2>3. CASE i > Len(g)
    <3>1. Len(g) < Len(keys) + (i0 - n)
      BY <1>2, <1>3, <2>3
    <3>2. Len(g) = MAX_SKIP
      BY <1>3, <3>1
    <3>3. n + (MAX_SKIP - MAX_SKIPPED_KEYS) <= k
      BY <1>2, <1>3, <1>4, <2>3, <3>2
    <3> DEFINE last == Len(R) + 1
    <3>4. /\ last \in 1..Len(R2) /\ R2[last] = m /\ last - 1 = Len(R)
          /\ \A u \in 1..Len(R) : R2[u] = R[u]
      BY <1>5, AppendFacts
    <3>5. ASSUME NEW u \in 1..(last - 1), R2[u].from = p
          PROVE  R2[u].msgIndex + (MAX_SKIP - MAX_SKIPPED_KEYS) < k
      <4>1. u \in 1..Len(R) /\ R2[u] = R[u]
        BY <3>4
      <4>2. R[u].msgIndex < n
        BY <1>a, <3>5, <4>1
      <4>3. R[u] \in Message
        BY <4>1
      <4>4. R[u].msgIndex \in Nat
        BY <4>3, MessageFacts
      <4> QED
        BY <1>2, <3>3, <4>1, <4>2, <4>4
    <3>6. R2[last].from = p /\ R2[last].msgIndex > k
      <4>1. i0 > k
        BY <1>2
      <4> QED
        BY <3>4, <4>1 DEF p, i0
    <3> HIDE DEF last
    <3> QED
      BY <3>4, <3>5, <3>6 DEF Accounted
  <2> QED
    BY <1>3, <2>1, <2>2, <2>3
<1>14. ASSUME NEW k \in 0..i0 PROVE Accounted(R2, t, p, k)
  <2>1. k \in 0..(n - 1) \/ k \in n..(i0 - 1) \/ k = i0
    BY <1>1, <1>2
  <2> QED
    BY <1>6, <1>12, <1>13, <2>1
<1>15. 0..(t.recvCount - 1) = 0..i0
  BY <1>1, <1>2
<1> QED
  BY <1>10, <1>14, <1>15 DEF p

-----------------------------------------------------------------------------
(* What each step keeps of a client's reading                              *)

LEMMA ReadByFacts ==
    ASSUME NEW S, NEW H \in Seq(S), NEW op \in Seq(1..Len(H)), NEW R, R = ReadBy(op, H)
    PROVE  /\ R \in Seq(S) /\ Len(R) = Len(op) /\ Len(op) \in Nat
           /\ \A t \in 1..Len(op) : op[t] \in 1..Len(H) /\ R[t] = H[op[t]] /\ R[t] \in S
<1>1. Len(op) \in Nat /\ \A t \in 1..Len(op) : op[t] \in 1..Len(H)
  OBVIOUS
<1>2. \A i \in 1..Len(H) : H[i] \in S
  OBVIOUS
<1>3. R \in [1..Len(op) -> S]
  BY <1>1, <1>2 DEF ReadBy
<1>4. R \in Seq(S) /\ Len(R) = Len(op)
  BY <1>1, <1>3, ListFacts
<1> QED
  BY <1>1, <1>2, <1>4 DEF ReadBy

LEMMA ReadByAppend ==
    ASSUME NEW S, NEW H \in Seq(S), NEW op \in Seq(1..Len(H)), NEW i \in 1..Len(H)
    PROVE  /\ Append(op, i) \in Seq(1..Len(H))
           /\ ReadBy(Append(op, i), H) = Append(ReadBy(op, H), H[i])
<1> DEFINE op2 == Append(op, i)
           R == ReadBy(op, H)
           R2 == Append(R, H[i])
<1>1. /\ R \in Seq(S) /\ Len(R) = Len(op) /\ Len(op) \in Nat
      /\ \A t \in 1..Len(op) : R[t] = H[op[t]]
  BY ReadByFacts
<1>2. H[i] \in S
  OBVIOUS
<1>3. /\ op2 \in Seq(1..Len(H)) /\ Len(op2) = Len(op) + 1
      /\ \A t \in 1..Len(op) : op2[t] = op[t]
      /\ op2[Len(op) + 1] = i
  OBVIOUS
<1> HIDE DEF R, op2
<1>4. /\ R2 \in Seq(S) /\ Len(R2) = Len(op) + 1
      /\ \A t \in 1..Len(op) : R2[t] = R[t]
      /\ R2[Len(op) + 1] = H[i]
  BY <1>1, <1>2
<1> HIDE DEF R2
<1>5. ASSUME NEW t \in 1..(Len(op) + 1) PROVE R2[t] = H[op2[t]]
  <2>1. CASE t \in 1..Len(op)
    BY <1>1, <1>3, <1>4, <2>1
  <2>2. CASE t = Len(op) + 1
    BY <1>3, <1>4, <2>2
  <2> QED
    BY <1>1, <2>1, <2>2
<1>6. R2 = [t \in 1..Len(op2) |-> H[op2[t]]]
  <2>1. R2 = [t \in 1..Len(R2) |-> R2[t]]
    BY <1>4
  <2> QED
    BY <1>3, <1>4, <1>5, <2>1
<1> QED
  BY <1>3, <1>6 DEF ReadBy, op2, R2, R

\* A message that opens is not shut.
LEMMA NotShut ==
    ASSUME NEW S, TalkOK(S), NEW m \in S, NEW s, NEW way, Ready(s, way),
           CacheOK(s.skippedKeys, S, s.rootKey, way, s.recvCount),
           NEW pair, Opens(s, m, pair), OnChain(m, s.rootKey, way)
    PROVE  ~Shut(s, S, m)
<1>1. m \in Message /\ s \in RatchetState
  BY DEF TalkOK, Ready
<1>2. m.msgIndex \in Nat /\ s.recvCount \in Nat /\ MAX_SKIP \in Nat
  BY <1>1, StateFacts, MessageFacts, RatchetAssumption
<1>3. m.dhPub \in PairsOf(S, s.rootKey, way) /\ s.recvChainKey.way = way
  BY PairOfChain, ReadyWay
<1>4. CASE IsCached(s, m)
  <2>1. PICK x \in 1..Len(s.skippedKeys) : /\ s.skippedKeys[x].dhPub = m.dhPub
                                          /\ s.skippedKeys[x].msgIndex = m.msgIndex
    BY <1>4, CachedIsThere
  <2>2. Holds(s.skippedKeys, S, s.rootKey, way, m.msgIndex)
    BY <1>3, <2>1 DEF Holds
  <2>3. m.msgIndex < s.recvCount
    BY <1>3, <2>1 DEF CacheOK
  <2>4. ~(m.msgIndex > s.recvCount + MAX_SKIP)
    BY <1>2, <2>3
  <2> QED
    BY <1>3, <2>2, <2>4 DEF Shut
<1>5. CASE ~IsCached(s, m)
  <2>1. s.recvCount <= m.msgIndex /\ m.msgIndex <= s.recvCount + MAX_SKIP
    BY <1>1, <1>5, OpensAhead
  <2>2. ~(m.msgIndex < s.recvCount) /\ ~(m.msgIndex > s.recvCount + MAX_SKIP)
    BY <1>2, <2>1
  <2> QED
    BY <1>3, <2>2 DEF Shut
<1> QED
  BY <1>4, <1>5

\* A client's row, what it has opened and its scan have their types.
Typed(row, op, sc, H, S) ==
    /\ row \in [Client -> RatchetState \union {None}]
    /\ H \in Seq(S)
    /\ op \in Seq(1..Len(H))
    /\ sc # None => sc.pos \in Nat /\ sc.pos >= 1

\* A state that was just made, for c to receive from p.
FreshState(s, S, H, c, p) ==
    /\ ReceiveOK(s, S, H, c, p)
    /\ s.recvCount = 0
    /\ s.skippedKeys = <<>>

LEMMA FreshIsCalm ==
    ASSUME NEW s, NEW S, NEW H, NEW c, NEW p, FreshState(s, S, H, c, p), NEW R
    PROVE  /\ CalmState(s, R, p)
           /\ \A k \in 0..(s.recvCount - 1) : Accounted(R, s, p, k)
<1>1. s.skippedKeys = <<>> /\ Len(s.skippedKeys) = 0 /\ s.recvCount = 0
  BY DEF FreshState
<1>2. 1..Len(s.skippedKeys) = {} /\ Len(s.skippedKeys) <= MAX_SKIPPED_KEYS
  BY <1>1, RatchetAssumption
<1>3. CalmState(s, R, p)
  BY <1>2 DEF CalmState, Spaced
<1>4. 0..(s.recvCount - 1) = {}
  BY <1>1
<1> QED
  BY <1>3, <1>4

LEMMA DecryptReads ==
    ASSUME NEW S, TalkOK(S), NEW H, NEW row, NEW op, NEW sc, sc # None, Typed(row, op, sc, H, S),
           NEW c \in Client, Reading(row, op, sc, H, S, c),
           sc.pos <= Len(H), NEW m, m = H[sc.pos], m.to = c,
           NEW s, IF row[m.from] # None THEN s = row[m.from] ELSE FreshState(s, S, H, c, m.from),
           NEW pair, Opens(s, m, pair),
           NEW t, t = Opened(s, m, pair), NEW row2, row2 = [row EXCEPT ![m.from] = t],
           NEW op2, op2 = Append(op, sc.pos), NEW sc2, sc2.pos = sc.pos + 1
    PROVE  Reading(row2, op2, sc2, H, S, c)
<1> DEFINE p == m.from
           way == s.recvChainKey.way
           R == ReadBy(op, H)
           R2 == ReadBy(op2, H)
<1>1. /\ H \in Seq(S) /\ op \in Seq(1..Len(H)) /\ sc.pos \in 1..Len(H)
      /\ row \in [Client -> RatchetState \union {None}]
  BY DEF Typed
<1>2. m \in S /\ m \in Message /\ p \in Client /\ m.msgIndex \in Nat
  <2>1. m \in S
    BY <1>1
  <2>2. m \in Message
    BY <2>1 DEF TalkOK
  <2> QED
    BY <2>1, <2>2, MessageFacts
<1>3. /\ R \in Seq(S) /\ Len(R) = Len(op) /\ Len(op) \in Nat
      /\ \A u \in 1..Len(op) : op[u] \in 1..Len(H) /\ R[u] = H[op[u]] /\ R[u] \in S
  BY <1>1, ReadByFacts
<1>4. op2 \in Seq(1..Len(H)) /\ R2 = Append(R, m)
  BY <1>1, ReadByAppend
<1>5. R \in Seq(Message)
  BY <1>3 DEF TalkOK
<1>6. /\ R2 \in Seq(S) /\ Len(R2) = Len(R) + 1
      /\ \A u \in 1..Len(R) : R2[u] = R[u]
      /\ R2[Len(R) + 1] = m
      /\ \A u \in 1..Len(R2) : u \in 1..Len(R) \/ u = Len(R) + 1
  BY <1>2, <1>3, <1>4, AppendFacts
<1>r. /\ RowOK(row, S, H, c) /\ ReadOK(R, row, S, c) /\ Once(op) /\ Scanned(op, sc, H, c)
      /\ Calm(R, row) \/ Stuck(row, sc, H, S, c)
      /\ AllAccounted(R, row)
  BY DEF Reading
<1> HIDE DEF p, R, R2, way
<1>7. ReceiveOK(s, S, H, c, p)
  BY <1>2, <1>r DEF RowOK, FreshState, p
<1>8. Ready(s, way) /\ CacheOK(s.skippedKeys, S, s.rootKey, way, s.recvCount)
  BY <1>7 DEF ReceiveOK, way
<1>9. Ready(t, way) /\ CacheAfter(s, t, m, S, way)
  BY <1>2, <1>8, OpenedAfter
<1>w. s.recvChainKey.way = way /\ t.recvChainKey.way = way
  BY <1>8, <1>9, ReadyWay
<1>10. /\ OnChain(m, s.rootKey, way) /\ t.rootKey = s.rootKey
       /\ s.recvCount <= t.recvCount /\ m.msgIndex < t.recvCount
       /\ t.recvCount = s.recvCount \/ t.recvCount = m.msgIndex + 1
       /\ CacheOK(t.skippedKeys, S, t.rootKey, way, t.recvCount)
       /\ ~Holds(t.skippedKeys, S, t.rootKey, way, m.msgIndex)
       /\ \A k \in Nat : k < s.recvCount /\ Holds(t.skippedKeys, S, s.rootKey, way, k)
                             => Holds(s.skippedKeys, S, s.rootKey, way, k)
  BY <1>9 DEF CacheAfter
<1>11. s \in RatchetState /\ t \in RatchetState /\ t # None /\ s.recvCount \in Nat /\ t.recvCount \in Nat
       /\ MAX_SKIP \in Nat
  BY <1>8, <1>9, StateFacts, ClientAssumption, RatchetAssumption DEF Ready
<1>12. /\ row2 \in [Client -> RatchetState \union {None}] /\ row2[p] = t
       /\ \A q \in Client : q # p => row2[q] = row[q]
  BY <1>1, <1>2, <1>11 DEF p
<1>13. ~Shut(s, S, m)
  BY <1>2, <1>8, <1>10, NotShut
<1>14. Calm(R, row)
  <2> SUFFICES ASSUME NEW f \in 1..Len(H), StuckAt(f, row, sc, H, S, c)
               PROVE  FALSE
    BY <1>r DEF Stuck
  <2>1. sc.pos <= f /\ \A i \in 1..f : H[i].to = c => Shut(row[H[i].from], S, H[i])
    BY DEF StuckAt
  <2>2. sc.pos \in 1..f
    BY <1>1, <2>1
  <2>3. Shut(row[p], S, m)
    BY <2>1, <2>2 DEF p
  <2>4. row[p] # None
    BY <2>3 DEF Shut
  <2> QED
    BY <1>13, <2>3, <2>4 DEF p
<1>15. RowOK(row2, S, H, c)
  <2>1. t.recvCount > 0 =>
           \E i \in 1..Len(H) :
               /\ H[i].from = p /\ H[i].to = c /\ OnChain(H[i], t.rootKey, way)
               /\ H[i].msgIndex = t.recvCount - 1
    <3>1. CASE t.recvCount = s.recvCount
      BY <1>7, <1>10, <1>w, <3>1 DEF ReceiveOK
    <3>2. CASE t.recvCount = m.msgIndex + 1
      <4>1. m.msgIndex = t.recvCount - 1
        BY <1>2, <3>2
      <4> QED
        BY <1>1, <1>10, <4>1 DEF p
    <3> QED
      BY <1>10, <3>1, <3>2
  <2>2. ReceiveOK(t, S, H, c, p)
    BY <1>9, <1>10, <1>w, <2>1 DEF ReceiveOK
  <2> QED
    BY <1>12, <1>r, <2>2 DEF RowOK
<1>16. ReadOK(R2, row2, S, c)
  <2>1. ASSUME NEW u \in 1..Len(R)
        PROVE  /\ R[u].to = c /\ row2[R[u].from] # None
               /\ OnChain(R[u], row2[R[u].from].rootKey, row2[R[u].from].recvChainKey.way)
               /\ R[u].msgIndex < row2[R[u].from].recvCount
               /\ Shut(row2[R[u].from], S, R[u])
    <3>1. /\ R[u].to = c /\ row[R[u].from] # None
          /\ OnChain(R[u], row[R[u].from].rootKey, row[R[u].from].recvChainKey.way)
          /\ R[u].msgIndex < row[R[u].from].recvCount
          /\ Shut(row[R[u].from], S, R[u])
      BY <1>r DEF ReadOK
    <3>2. R[u] \in Message /\ R[u].from \in Client /\ R[u].msgIndex \in Nat
      <4>1. R[u] \in Message
        BY <1>5
      <4> QED
        BY <4>1, MessageFacts
    <3>3. CASE R[u].from # p
      BY <1>12, <3>1, <3>2, <3>3
    <3>4. CASE R[u].from = p
      <4>1. /\ OnChain(R[u], s.rootKey, way) /\ R[u].msgIndex < s.recvCount /\ Shut(s, S, R[u])
        BY <1>w, <3>1, <3>4 DEF p
      <4>2. ~(R[u].msgIndex > s.recvCount + MAX_SKIP) /\ R[u].msgIndex < t.recvCount
        BY <1>10, <1>11, <3>2, <4>1
      <4>3. ~Holds(s.skippedKeys, S, s.rootKey, way, R[u].msgIndex)
        BY <1>w, <4>1, <4>2 DEF Shut
      <4>4. ~Holds(t.skippedKeys, S, t.rootKey, way, R[u].msgIndex)
        BY <1>10, <3>2, <4>1, <4>3
      <4>5. Shut(t, S, R[u])
        BY <1>11, <1>w, <4>2, <4>4 DEF Shut
      <4> QED
        BY <1>10, <1>11, <1>12, <1>w, <3>1, <3>4, <4>1, <4>2, <4>5
    <3> QED
      BY <3>3, <3>4
  <2>2. /\ m.to = c /\ row2[m.from] # None
        /\ OnChain(m, row2[m.from].rootKey, row2[m.from].recvChainKey.way)
        /\ m.msgIndex < row2[m.from].recvCount
        /\ Shut(row2[m.from], S, m)
    BY <1>10, <1>11, <1>12, <1>w DEF Shut, p
  <2> QED
    BY <1>6, <2>1, <2>2 DEF ReadOK
<1>17. ASSUME NEW u \in 1..Len(op) PROVE op[u] # sc.pos
  <2> SUFFICES ASSUME op[u] = sc.pos PROVE FALSE
    OBVIOUS
  <2>1. u \in 1..Len(R) /\ R[u] = m
    BY <1>3
  <2>2. row[p] # None /\ Shut(row[p], S, m)
    BY <1>r, <2>1 DEF ReadOK, p
  <2> QED
    BY <1>13, <2>2 DEF p
<1>18. /\ Len(op2) = Len(op) + 1
       /\ \A u \in 1..Len(op) : op2[u] = op[u] /\ u \in 1..Len(op2)
       /\ op2[Len(op) + 1] = sc.pos /\ Len(op) + 1 \in 1..Len(op2)
       /\ \A u \in 1..Len(op2) : u \in 1..Len(op) \/ u = Len(op) + 1
  BY <1>1, <1>3
<1>19. Once(op2)
  <2> SUFFICES ASSUME NEW u \in 1..Len(op2), NEW v \in 1..Len(op2), op2[u] = op2[v]
               PROVE  u = v
    BY DEF Once
  <2>1. CASE u \in 1..Len(op) /\ v \in 1..Len(op)
    BY <1>r, <1>18, <2>1 DEF Once
  <2>2. CASE u \in 1..Len(op) /\ v = Len(op) + 1
    BY <1>17, <1>18, <2>2
  <2>3. CASE u = Len(op) + 1 /\ v \in 1..Len(op)
    BY <1>17, <1>18, <2>3
  <2> QED
    BY <1>18, <2>1, <2>2, <2>3
<1>20. Scanned(op2, sc2, H, c)
  <2> SUFFICES ASSUME NEW i \in 1..(sc2.pos - 1), H[i].to = c
               PROVE  \E u \in 1..Len(op2) : op2[u] = i
    BY DEF Scanned
  <2>1. i \in 1..(sc.pos - 1) \/ i = sc.pos
    BY <1>1
  <2>2. CASE i \in 1..(sc.pos - 1)
    <3>1. PICK u \in 1..Len(op) : op[u] = i
      BY <1>r, <2>2 DEF Scanned
    <3> QED
      BY <1>18, <3>1
  <2>3. CASE i = sc.pos
    BY <1>18, <2>3
  <2> QED
    BY <2>1, <2>2, <2>3
<1>21. /\ CalmState(s, R, p)
       /\ \A k \in 0..(s.recvCount - 1) : Accounted(R, s, p, k)
       /\ \A u \in 1..Len(R) : R[u].from = p => R[u].msgIndex < s.recvCount
  <2>1. CASE row[p] # None
    <3>1. s = row[p]
      BY <2>1 DEF p
    <3>2. CalmState(s, R, p) /\ \A k \in 0..(s.recvCount - 1) : Accounted(R, s, p, k)
      BY <1>2, <1>14, <1>r, <2>1, <3>1 DEF Calm, AllAccounted
    <3>3. \A u \in 1..Len(R) : R[u].from = p => R[u].msgIndex < s.recvCount
      BY <1>r, <3>1 DEF ReadOK
    <3> QED
      BY <3>2, <3>3
  <2>2. CASE row[p] = None
    <3>1. FreshState(s, S, H, c, p)
      BY <2>2 DEF p
    <3>2. \A u \in 1..Len(R) : R[u].from # p
      BY <1>r, <2>2 DEF ReadOK
    <3> QED
      BY <3>1, <3>2, FreshIsCalm
  <2> QED
    BY <2>1, <2>2
<1>22. CalmState(t, R2, p) /\ \A k \in 0..(t.recvCount - 1) : Accounted(R2, t, p, k)
  <2>1. (\E x : OpenedCached(s, t, m, x)) \/ (\E g, d : OpenedAhead(s, t, m, way, g, d))
    BY <1>2, <1>8, OpenedFacts
  <2>2. ASSUME NEW x, OpenedCached(s, t, m, x)
        PROVE  CalmState(t, R2, p) /\ \A k \in 0..(t.recvCount - 1) : Accounted(R2, t, p, k)
    BY <1>2, <1>4, <1>5, <1>11, <1>21, <2>2, CachedCalm DEF p
  <2>3. ASSUME NEW g, NEW d, OpenedAhead(s, t, m, way, g, d)
        PROVE  CalmState(t, R2, p) /\ \A k \in 0..(t.recvCount - 1) : Accounted(R2, t, p, k)
    BY <1>2, <1>4, <1>5, <1>8, <1>11, <1>21, <2>3, AheadCalm DEF p
  <2> QED
    BY <2>1, <2>2, <2>3
<1>23. Calm(R2, row2)
  <2> SUFFICES ASSUME NEW q \in Client, row2[q] # None PROVE CalmState(row2[q], R2, q)
    BY DEF Calm
  <2>1. CASE q = p
    BY <1>12, <1>22, <2>1
  <2>2. CASE q # p
    <3>1. CalmState(row[q], R, q) /\ row2[q] = row[q]
      BY <1>12, <1>14, <2>2 DEF Calm
    <3>2. \A a : Answered(R, q, a) => Answered(R2, q, a)
      BY <1>2, <1>4, <1>5, ReadOn
    <3> QED
      BY <3>1, <3>2 DEF CalmState
  <2> QED
    BY <2>1, <2>2
<1>24. AllAccounted(R2, row2)
  <2> SUFFICES ASSUME NEW q \in Client, row2[q] # None, NEW k \in 0..(row2[q].recvCount - 1)
               PROVE  Accounted(R2, row2[q], q, k)
    BY DEF AllAccounted
  <2>1. CASE q = p
    BY <1>12, <1>22, <2>1
  <2>2. CASE q # p
    <3>1. Accounted(R, row[q], q, k) /\ row2[q] = row[q]
      BY <1>12, <1>r, <2>2 DEF AllAccounted
    <3>2. \A z, j : Accounted(R, z, q, j) => Accounted(R2, z, q, j)
      BY <1>2, <1>4, <1>5, ReadOn
    <3> QED
      BY <3>1, <3>2
  <2> QED
    BY <2>1, <2>2
<1> QED
  BY <1>15, <1>16, <1>19, <1>20, <1>23, <1>24 DEF Reading, R2

\* c's scan is at m, s is the state it is opened with, t the one it leaves.
Reads(row, op, sc, S, H, c, m, s, t, row2, op2, sc2) ==
    /\ sc # None
    /\ sc.pos <= Len(H)
    /\ m = H[sc.pos]
    /\ m.to = c
    /\ row[m.from] # None => s = row[m.from]
    /\ row[m.from] = None => FreshState(s, S, H, c, m.from)
    /\ \E pair : Opens(s, m, pair) /\ t = Opened(s, m, pair)
    /\ row2 = [row EXCEPT ![m.from] = t]
    /\ op2 = Append(op, sc.pos)
    /\ sc2.pos = sc.pos + 1

LEMMA DecryptingReads ==
    ASSUME NEW S, TalkOK(S), NEW H, NEW row, NEW op, NEW sc, Typed(row, op, sc, H, S),
           NEW c \in Client, Reading(row, op, sc, H, S, c), NEW m, NEW s, NEW t,
           NEW row2, NEW op2, NEW sc2, Reads(row, op, sc, S, H, c, m, s, t, row2, op2, sc2)
    PROVE  Reading(row2, op2, sc2, H, S, c)
<1>1. PICK pair : Opens(s, m, pair) /\ t = Opened(s, m, pair)
  BY DEF Reads
<1>2. /\ sc # None /\ sc.pos <= Len(H) /\ m = H[sc.pos] /\ m.to = c
      /\ IF row[m.from] # None THEN s = row[m.from] ELSE FreshState(s, S, H, c, m.from)
      /\ row2 = [row EXCEPT ![m.from] = t]
      /\ op2 = Append(op, sc.pos)
      /\ sc2.pos = sc.pos + 1
  BY DEF Reads
<1> QED
  BY <1>1, <1>2, DecryptReads

\* What was shut stays so, since no state comes to hold a key it did not hold.
KeepsShut(row, row2, S) ==
    \A q \in Client : row[q] # None =>
        /\ row2[q] # None
        /\ row2[q].rootKey = row[q].rootKey
        /\ row2[q].recvChainKey = row[q].recvChainKey
        /\ row2[q].recvCount = row[q].recvCount
        /\ \A k : Holds(row2[q].skippedKeys, S, row2[q].rootKey, row2[q].recvChainKey.way, k)
                      => Holds(row[q].skippedKeys, S, row[q].rootKey, row[q].recvChainKey.way, k)

LEMMA ShutStays ==
    ASSUME NEW S, NEW row, NEW row2, KeepsShut(row, row2, S), NEW q \in Client, NEW m, Shut(row[q], S, m)
    PROVE  Shut(row2[q], S, m)
BY DEF Shut, KeepsShut

LEMMA ReadStays ==
    ASSUME NEW S, NEW row, NEW row2, KeepsShut(row, row2, S), NEW R \in Seq(Message), NEW c,
           ReadOK(R, row, S, c)
    PROVE  ReadOK(R, row2, S, c)
<1> SUFFICES ASSUME NEW t \in 1..Len(R)
             PROVE  /\ R[t].to = c /\ row2[R[t].from] # None
                    /\ OnChain(R[t], row2[R[t].from].rootKey, row2[R[t].from].recvChainKey.way)
                    /\ R[t].msgIndex < row2[R[t].from].recvCount
                    /\ Shut(row2[R[t].from], S, R[t])
  BY DEF ReadOK
<1>1. /\ R[t].to = c /\ row[R[t].from] # None
      /\ OnChain(R[t], row[R[t].from].rootKey, row[R[t].from].recvChainKey.way)
      /\ R[t].msgIndex < row[R[t].from].recvCount
      /\ Shut(row[R[t].from], S, R[t])
  BY DEF ReadOK
<1>2. R[t] \in Message
  OBVIOUS
<1>3. R[t].from \in Client
  BY <1>2, MessageFacts
<1>4. Shut(row2[R[t].from], S, R[t])
  BY <1>1, <1>3, ShutStays
<1> QED
  BY <1>1, <1>3, <1>4 DEF KeepsShut

LEMMA StuckStays ==
    ASSUME NEW S, S \subseteq Message, NEW H \in Seq(S), NEW row, NEW row2, KeepsShut(row, row2, S),
           NEW sc, NEW c, Stuck(row, sc, H, S, c)
    PROVE  Stuck(row2, sc, H, S, c)
<1>1. PICK f \in 1..Len(H) : StuckAt(f, row, sc, H, S, c)
  BY DEF Stuck
<1>2. ASSUME NEW i \in 1..f, H[i].to = c PROVE Shut(row2[H[i].from], S, H[i])
  <2>1. i \in 1..Len(H)
    OBVIOUS
  <2>2. H[i] \in Message
    BY <2>1
  <2>3. H[i].from \in Client
    BY <2>2, MessageFacts
  <2>4. Shut(row[H[i].from], S, H[i])
    BY <1>1, <1>2 DEF StuckAt
  <2> QED
    BY <2>3, <2>4, ShutStays
<1>3. StuckAt(f, row2, sc, H, S, c)
  BY <1>1, <1>2 DEF StuckAt
<1> QED
  BY <1>3 DEF Stuck

\* row2 is row as far as receiving goes, and perhaps some fresh states.
SameRow(row, row2, S, H, c) ==
    /\ \A q \in Client : row[q] # None =>
           /\ row2[q] \in RatchetState
           /\ SameBut(row[q], row2[q], {"sendChainKey", "sendCount"})
    /\ \A q \in Client : row[q] = None /\ row2[q] # None => FreshState(row2[q], S, H, c, q)

LEMMA SameReads ==
    ASSUME NEW S, TalkOK(S), NEW H, NEW row, NEW op, NEW sc, Typed(row, op, sc, H, S),
           NEW c \in Client, Reading(row, op, sc, H, S, c),
           NEW row2, SameRow(row, row2, S, H, c)
    PROVE  Reading(row2, op, sc, H, S, c)
<1> DEFINE R == ReadBy(op, H)
<1>1. /\ H \in Seq(S) /\ op \in Seq(1..Len(H)) /\ S \subseteq Message
  BY DEF Typed, TalkOK
<1>2. R \in Seq(Message)
  <2>1. R \in Seq(S)
    BY <1>1, ReadByFacts
  <2> QED
    BY <1>1, <2>1
<1>r. /\ RowOK(row, S, H, c) /\ ReadOK(R, row, S, c) /\ Once(op) /\ Scanned(op, sc, H, c)
      /\ Calm(R, row) \/ Stuck(row, sc, H, S, c)
      /\ AllAccounted(R, row)
  BY DEF Reading
<1> HIDE DEF R
<1>3. ASSUME NEW q \in Client, row[q] # None
      PROVE  /\ row2[q] \in RatchetState /\ row2[q] # None
             /\ row2[q].rootKey = row[q].rootKey /\ row2[q].recvChainKey = row[q].recvChainKey
             /\ row2[q].recvCount = row[q].recvCount /\ row2[q].skippedKeys = row[q].skippedKeys
  BY <1>3, ClientAssumption DEF SameRow, SameBut
<1>4. KeepsShut(row, row2, S)
  BY <1>3 DEF KeepsShut
<1>5. RowOK(row2, S, H, c)
  <2> SUFFICES ASSUME NEW q \in Client, row2[q] # None PROVE ReceiveOK(row2[q], S, H, c, q)
    BY DEF RowOK
  <2>1. CASE row[q] # None
    <3>1. ReceiveOK(row[q], S, H, c, q)
      BY <1>r, <2>1 DEF RowOK
    <3> QED
      BY <1>3, <2>1, <3>1 DEF ReceiveOK, Ready
  <2>2. CASE row[q] = None
    BY <2>2 DEF SameRow, FreshState
  <2> QED
    BY <2>1, <2>2
<1>6. ReadOK(R, row2, S, c)
  BY <1>2, <1>4, <1>r, ReadStays
<1>7. Calm(R, row2) \/ Stuck(row2, sc, H, S, c)
  <2>1. CASE Calm(R, row)
    <3>1. ASSUME NEW q \in Client, row2[q] # None PROVE CalmState(row2[q], R, q)
      <4>1. CASE row[q] # None
        <5>1. CalmState(row[q], R, q)
          BY <2>1, <4>1 DEF Calm
        <5> QED
          BY <1>3, <4>1, <5>1 DEF CalmState
      <4>2. CASE row[q] = None
        BY <3>1, <4>2, FreshIsCalm DEF SameRow
      <4> QED
        BY <4>1, <4>2
    <3> QED
      BY <3>1 DEF Calm
  <2>2. CASE Stuck(row, sc, H, S, c)
    BY <1>1, <1>4, <2>2, StuckStays
  <2> QED
    BY <1>r, <2>1, <2>2
<1>8. AllAccounted(R, row2)
  <2> SUFFICES ASSUME NEW q \in Client, row2[q] # None, NEW k \in 0..(row2[q].recvCount - 1)
               PROVE  Accounted(R, row2[q], q, k)
    BY DEF AllAccounted
  <2>1. CASE row[q] # None
    <3>1. k \in 0..(row[q].recvCount - 1)
      BY <1>3, <2>1
    <3>2. Accounted(R, row[q], q, k)
      BY <1>r, <2>1, <3>1 DEF AllAccounted
    <3> QED
      BY <1>3, <2>1, <3>2 DEF Accounted
  <2>2. CASE row[q] = None
    BY <2>2, FreshIsCalm DEF SameRow
  <2> QED
    BY <2>1, <2>2
<1> QED
  BY <1>r, <1>5, <1>6, <1>7, <1>8 DEF Reading, R

LEMMA ScanReads ==
    ASSUME NEW S, NEW H, NEW row, NEW op, NEW sc, NEW c, Reading(row, op, sc, H, S, c),
           NEW sc2, Scanned(op, sc2, H, c),
           \A f \in 1..Len(H) : H[f].to = c /\ (sc # None => sc.pos <= f) /\ sc2 # None => sc2.pos <= f
    PROVE  Reading(row, op, sc2, H, S, c)
<1>1. ASSUME NEW f \in 1..Len(H), StuckAt(f, row, sc, H, S, c) PROVE StuckAt(f, row, sc2, H, S, c)
  BY <1>1 DEF StuckAt
<1>2. Stuck(row, sc, H, S, c) => Stuck(row, sc2, H, S, c)
  BY <1>1 DEF Stuck
<1> QED
  BY <1>2 DEF Reading

\* A message that was rejected: either its state is as it was, or it got keys
\* under the message's pair, which is of another chain.
LEMMA AbortReads ==
    ASSUME NEW S, TalkOK(S), NEW H, NEW row, NEW op, NEW sc, sc # None, Typed(row, op, sc, H, S),
           NEW c \in Client, Reading(row, op, sc, H, S, c),
           sc.pos <= Len(H), NEW m, m = H[sc.pos], m.to = c,
           NEW s, s = row[m.from], s # None, NEW pair, ~Opens(s, m, pair),
           NEW t, t = Left(s, m, pair), NEW row2, row2 = [row EXCEPT ![m.from] = t]
    PROVE  Reading(row2, op, None, H, S, c)
<1> DEFINE p == m.from
           root == s.rootKey
           way == s.recvChainKey.way
           keys == s.skippedKeys
           g == t.skippedKeys
           n == s.recvCount
           R == ReadBy(op, H)
<1>1. /\ H \in Seq(S) /\ op \in Seq(1..Len(H)) /\ sc.pos \in 1..Len(H) /\ S \subseteq Message
      /\ row \in [Client -> RatchetState \union {None}]
  BY DEF Typed, TalkOK
<1>2. m \in S /\ m \in Message /\ p \in Client /\ m.msgIndex \in Nat
  <2>1. m \in S
    BY <1>1
  <2>2. m \in Message
    BY <1>1, <2>1
  <2> QED
    BY <2>1, <2>2, MessageFacts
<1>3. /\ R \in Seq(S) /\ R \in Seq(Message) /\ Len(R) = Len(op)
      /\ \A u \in 1..Len(op) : R[u] = H[op[u]]
  <2>1. R \in Seq(S) /\ Len(R) = Len(op) /\ \A u \in 1..Len(op) : R[u] = H[op[u]]
    BY <1>1, ReadByFacts
  <2> QED
    BY <1>1, <2>1
<1>r. /\ RowOK(row, S, H, c) /\ ReadOK(R, row, S, c) /\ Once(op) /\ Scanned(op, sc, H, c)
      /\ Calm(R, row) \/ Stuck(row, sc, H, S, c)
      /\ AllAccounted(R, row)
  BY DEF Reading
<1> HIDE DEF p, R, way
<1>4. ReceiveOK(s, S, H, c, p)
  BY <1>2, <1>r DEF RowOK, p
<1>5. Ready(s, way) /\ CacheOK(keys, S, root, way, n)
  BY <1>4 DEF ReceiveOK, way
<1>6. /\ t \in RatchetState /\ SameBut(s, t, {"skippedKeys"})
      /\ \/ g = keys
         \/ /\ n <= m.msgIndex
            /\ m.key # KeyAt(root, way, m.msgIndex)
            /\ Grown(keys, g, m.dhPub, root, way, n, m.msgIndex - n)
  BY <1>2, <1>5, LeftFacts
<1>7. /\ row2[p] = t /\ t # None
      /\ \A q \in Client : q # p => row2[q] = row[q]
      /\ row2 \in [Client -> RatchetState \union {None}]
      /\ row[p] = s
  BY <1>1, <1>2, <1>6, ClientAssumption DEF p
<1>8. /\ t.rootKey = root /\ t.recvChainKey = s.recvChainKey /\ t.recvCount = n
  BY <1>6 DEF SameBut
<1>9. CASE g = keys
  <2>1. SameBut(s, t, {"sendChainKey", "sendCount"})
    BY <1>6, <1>9 DEF SameBut
  <2>2. ASSUME NEW q \in Client, row[q] # None
        PROVE  row2[q] \in RatchetState /\ SameBut(row[q], row2[q], {"sendChainKey", "sendCount"})
    <3>1. CASE q = p
      BY <1>6, <1>7, <2>1, <3>1
    <3>2. CASE q # p
      BY <1>1, <1>7, <2>2, <3>2 DEF SameBut
    <3> QED
      BY <3>1, <3>2
  <2>3. SameRow(row, row2, S, H, c)
    BY <1>7, <2>2 DEF SameRow
  <2>4. Reading(row2, op, sc, H, S, c)
    BY <2>3, SameReads
  <2>5. Scanned(op, None, H, c)
    BY DEF Scanned
  <2> QED
    BY <2>4, <2>5, ScanReads
<1>10. CASE /\ n <= m.msgIndex
            /\ m.key # KeyAt(root, way, m.msgIndex)
            /\ Grown(keys, g, m.dhPub, root, way, n, m.msgIndex - n)
  <2> DEFINE k0 == m.msgIndex - n
  <2>1. /\ keys \in Seq(SkippedKey) /\ Len(keys) <= MAX_SKIP /\ n \in Nat /\ k0 \in Nat
    <3>1. s \in RatchetState /\ Len(keys) <= MAX_SKIP
      BY <1>5 DEF Ready
    <3>2. keys \in Seq(SkippedKey) /\ n \in Nat
      BY <3>1, StateFacts
    <3>3. k0 \in Nat
      BY <1>2, <1>10, <3>2
    <3> QED
      BY <3>1, <3>2, <3>3
  <2>2. GrownFrom(keys, g, m.dhPub, root, way, n, k0)
    BY <1>10, <2>1, GrownEntries
  <2>3. ~OnChain(m, root, way) /\ m.dhPub \notin PairsOf(S, root, way)
    <3>1. ~OnChain(m, root, way)
      BY <1>2, <1>10 DEF TalkOK, OnChain
    <3> QED
      BY <1>2, <3>1, PairOfChain
  <2> HIDE DEF keys, g, n, root, k0
  <2>4. ASSUME NEW i \in 1..Len(g)
        PROVE  \/ i \in 1..Len(keys) /\ g[i] = keys[i]
               \/ g[i].dhPub = m.dhPub /\ g[i].key = KeyAt(root, way, g[i].msgIndex)
    BY <2>2 DEF GrownFrom
  <2>5. Len(g) <= MAX_SKIP /\ \A i \in 1..Len(keys) : i \in 1..Len(g) /\ g[i] = keys[i]
    <3>1. Len(g) <= MAX_SKIP /\ Len(g) \in Nat /\ Len(keys) \in Nat /\ Len(keys) <= Len(g)
      BY <2>2 DEF GrownFrom
    <3>2. \A i \in 1..Len(keys) : i \in 1..Len(g)
      BY <3>1
    <3> QED
      BY <1>10, <3>1, <3>2 DEF Grown
  <2>c. CacheOK(keys, S, root, way, n)
    BY <1>5
  <2>6. CacheOK(g, S, root, way, n)
    <3>1. ASSUME NEW i \in 1..Len(g)
          PROVE  /\ \E y \in S : y.dhPub = g[i].dhPub
                 /\ g[i].key = KeyAt(root, way, g[i].msgIndex)
                 /\ g[i].dhPub \in PairsOf(S, root, way) => g[i].msgIndex < n
      <4>1. CASE i \in 1..Len(keys) /\ g[i] = keys[i]
        BY <2>c, <4>1 DEF CacheOK
      <4>2. CASE g[i].dhPub = m.dhPub /\ g[i].key = KeyAt(root, way, g[i].msgIndex)
        BY <1>2, <2>3, <4>2
      <4> QED
        BY <2>4, <4>1, <4>2
    <3>2. ASSUME NEW i \in 1..Len(g), NEW j \in 1..Len(g),
                 g[i].dhPub \in PairsOf(S, root, way), g[j].dhPub \in PairsOf(S, root, way),
                 g[i].msgIndex = g[j].msgIndex
          PROVE  i = j
      <4>1. i \in 1..Len(keys) /\ g[i] = keys[i] /\ j \in 1..Len(keys) /\ g[j] = keys[j]
        BY <2>3, <2>4, <3>2
      <4> QED
        BY <2>c, <3>2, <4>1 DEF CacheOK
    <3> QED
      BY <2>5, <3>1, <3>2 DEF CacheOK
  <2>7. ASSUME NEW k, Holds(g, S, root, way, k) PROVE Holds(keys, S, root, way, k)
    <3>1. PICK i \in 1..Len(g) : g[i].dhPub \in PairsOf(S, root, way) /\ g[i].msgIndex = k
      BY <2>7 DEF Holds
    <3>2. i \in 1..Len(keys) /\ g[i] = keys[i]
      BY <2>3, <2>4, <3>1
    <3> QED
      BY <3>1, <3>2 DEF Holds
  <2>8. KeepsShut(row, row2, S)
    <3> SUFFICES ASSUME NEW q \in Client, row[q] # None
                 PROVE  /\ row2[q] # None /\ row2[q].rootKey = row[q].rootKey
                        /\ row2[q].recvChainKey = row[q].recvChainKey
                        /\ row2[q].recvCount = row[q].recvCount
                        /\ \A k : Holds(row2[q].skippedKeys, S, row2[q].rootKey, row2[q].recvChainKey.way, k)
                                      => Holds(row[q].skippedKeys, S, row[q].rootKey, row[q].recvChainKey.way, k)
      BY DEF KeepsShut
    <3>1. CASE q = p
      BY <1>7, <1>8, <2>7, <3>1 DEF keys, g, root, n, way
    <3>2. CASE q # p
      BY <1>7, <3>2
    <3> QED
      BY <3>1, <3>2
  <2>9. ReceiveOK(t, S, H, c, p)
    <3>1. Ready(t, way)
      BY <1>5, <1>6, <1>8, <2>5 DEF Ready, g, root, n
    <3> QED
      BY <1>4, <1>8, <2>6, <3>1 DEF ReceiveOK, way, g, root, n
  <2>10. RowOK(row2, S, H, c)
    BY <1>7, <1>r, <2>9 DEF RowOK
  <2>11. ReadOK(R, row2, S, c)
    BY <1>3, <1>r, <2>8, ReadStays
  <2>12. Stuck(row2, None, H, S, c)
    <3>1. CASE Calm(R, row)
      <4> DEFINE f == sc.pos
      <4>1. ASSUME NEW i \in 1..f, H[i].to = c PROVE Shut(row2[H[i].from], S, H[i])
        <5>1. CASE i = f
          <6>1. Shut(t, S, m)
            BY <1>7, <1>8, <2>3 DEF Shut, root, way
          <6> QED
            BY <1>7, <5>1, <6>1 DEF p
        <5>2. CASE i # f
          <6>1. i \in 1..(sc.pos - 1)
            BY <1>1, <5>2
          <6>2. PICK u \in 1..Len(op) : op[u] = i
            BY <1>r, <4>1, <6>1 DEF Scanned
          <6>3. u \in 1..Len(R) /\ R[u] = H[i]
            BY <1>3, <6>2
          <6> QED
            BY <2>11, <6>3 DEF ReadOK
        <5> QED
          BY <5>1, <5>2
      <4>2. StuckAt(f, row2, None, H, S, c)
        BY <1>1, <4>1 DEF StuckAt
      <4> QED
        BY <1>1, <4>2 DEF Stuck
    <3>2. CASE Stuck(row, sc, H, S, c)
      <4>1. Stuck(row, None, H, S, c)
        BY <3>2 DEF Stuck, StuckAt
      <4> QED
        BY <1>1, <2>8, <4>1, StuckStays
    <3> QED
      BY <1>r, <3>1, <3>2
  <2>13. AllAccounted(R, row2)
    <3> SUFFICES ASSUME NEW q \in Client, row2[q] # None, NEW k \in 0..(row2[q].recvCount - 1)
                 PROVE  Accounted(R, row2[q], q, k)
      BY DEF AllAccounted
    <3>1. CASE q # p
      BY <1>7, <1>r, <3>1 DEF AllAccounted
    <3>2. CASE q = p
      <4>1. k \in 0..(row[p].recvCount - 1)
        BY <1>7, <1>8, <3>2 DEF n
      <4>2. Accounted(R, s, p, k)
        BY <1>2, <1>7, <1>r, <4>1 DEF AllAccounted
      <4>3. Accounted(R, t, p, k)
        <5>1. CASE \E i \in 1..Len(keys) : keys[i].msgIndex = k /\ Answered(R, p, keys[i].dhPub)
          <6>1. PICK i \in 1..Len(keys) : keys[i].msgIndex = k /\ Answered(R, p, keys[i].dhPub)
            BY <5>1
          <6>2. i \in 1..Len(g) /\ g[i] = keys[i]
            BY <2>5
          <6> QED
            BY <6>1, <6>2 DEF Accounted, g
        <5>2. CASE ~\E i \in 1..Len(keys) : keys[i].msgIndex = k /\ Answered(R, p, keys[i].dhPub)
          BY <1>8, <4>2, <5>2 DEF Accounted, keys, n
        <5> QED
          BY <5>1, <5>2
      <4> QED
        BY <1>7, <3>2, <4>3
    <3> QED
      BY <3>1, <3>2
  <2>14. Scanned(op, None, H, c)
    BY DEF Scanned
  <2> QED
    BY <1>r, <2>10, <2>11, <2>12, <2>13, <2>14 DEF Reading, R
<1> QED
  BY <1>6, <1>9, <1>10

\* c's scan is at m, which state s rejects and leaves as t.
Rejects(row, sc, H, c, m, s, t, row2) ==
    /\ sc # None
    /\ sc.pos <= Len(H)
    /\ m = H[sc.pos]
    /\ m.to = c
    /\ s = row[m.from] /\ s # None
    /\ \E pair : ~Opens(s, m, pair) /\ t = Left(s, m, pair)
    /\ row2 = [row EXCEPT ![m.from] = t]

LEMMA RejectingReads ==
    ASSUME NEW S, TalkOK(S), NEW H, NEW row, NEW op, NEW sc, Typed(row, op, sc, H, S),
           NEW c \in Client, Reading(row, op, sc, H, S, c), NEW m, NEW s, NEW t, NEW row2,
           Rejects(row, sc, H, c, m, s, t, row2)
    PROVE  Reading(row2, op, None, H, S, c)
<1>1. PICK pair : ~Opens(s, m, pair) /\ t = Left(s, m, pair)
  BY DEF Rejects
<1>2. /\ sc # None /\ sc.pos <= Len(H) /\ m = H[sc.pos] /\ m.to = c
      /\ s = row[m.from] /\ s # None /\ row2 = [row EXCEPT ![m.from] = t]
  BY DEF Rejects
<1> QED
  BY <1>1, <1>2, AbortReads

\* A cache is what it was when more is sealed.
LEMMA CacheGrows ==
    ASSUME NEW S, NEW S2, S \subseteq S2, TalkOK(S2), NEW keys, NEW root, NEW way, NEW n,
           CacheOK(keys, S, root, way, n)
    PROVE  /\ CacheOK(keys, S2, root, way, n)
           /\ \A k : Holds(keys, S2, root, way, k) => Holds(keys, S, root, way, k)
<1>1. ASSUME NEW i \in 1..Len(keys)
      PROVE  /\ \E m \in S2 : m.dhPub = keys[i].dhPub
             /\ keys[i].dhPub \in PairsOf(S2, root, way) => keys[i].dhPub \in PairsOf(S, root, way)
  <2>1. PICK m \in S : m.dhPub = keys[i].dhPub
    BY DEF CacheOK
  <2>2. m.dhPub \in PairsOf(S, root, way) <=> m.dhPub \in PairsOf(S2, root, way)
    BY PairsStay
  <2> QED
    BY <2>1, <2>2
<1>2. CacheOK(keys, S2, root, way, n)
  BY <1>1 DEF CacheOK
<1>3. ASSUME NEW k, Holds(keys, S2, root, way, k) PROVE Holds(keys, S, root, way, k)
  BY <1>1, <1>3 DEF Holds
<1> QED
  BY <1>2, <1>3

\* More is sealed and more is posted: a client's reading is what it was.
LEMMA GrowthReads ==
    ASSUME NEW S, NEW S2, S \subseteq S2, TalkOK(S2),
           NEW H, NEW H2 \in Seq(S2), Len(H) <= Len(H2), \A i \in 1..Len(H) : H2[i] = H[i],
           NEW row, NEW op, NEW sc, Typed(row, op, sc, H, S), sc # None => sc.pos <= Len(H) + 1,
           NEW c \in Client, Reading(row, op, sc, H, S, c)
    PROVE  Reading(row, op, sc, H2, S2, c)
<1> DEFINE R == ReadBy(op, H)
<1>1. /\ H \in Seq(S) /\ op \in Seq(1..Len(H)) /\ S2 \subseteq Message /\ S \subseteq Message
      /\ Len(H) \in Nat /\ Len(H2) \in Nat
      /\ sc # None => sc.pos \in Nat /\ sc.pos >= 1
      /\ \A i \in 1..Len(H) : i \in 1..Len(H2)
  BY DEF Typed, TalkOK
<1>2. ReadBy(op, H2) = R
  <2>1. \A t \in 1..Len(op) : op[t] \in 1..Len(H)
    BY <1>1
  <2>2. \A t \in 1..Len(op) : H2[op[t]] = H[op[t]]
    BY <2>1
  <2> QED
    BY <2>2 DEF ReadBy
<1>3. R \in Seq(Message)
  <2>1. R \in Seq(S)
    BY <1>1, ReadByFacts
  <2> QED
    BY <1>1, <2>1
<1>r. /\ RowOK(row, S, H, c) /\ ReadOK(R, row, S, c) /\ Once(op) /\ Scanned(op, sc, H, c)
      /\ Calm(R, row) \/ Stuck(row, sc, H, S, c)
      /\ AllAccounted(R, row)
  BY DEF Reading
<1> HIDE DEF R
<1>4. ASSUME NEW q \in Client, row[q] # None
      PROVE  /\ ReceiveOK(row[q], S, H, c, q)
             /\ CacheOK(row[q].skippedKeys, S2, row[q].rootKey, row[q].recvChainKey.way, row[q].recvCount)
             /\ \A k : Holds(row[q].skippedKeys, S2, row[q].rootKey, row[q].recvChainKey.way, k)
                           => Holds(row[q].skippedKeys, S, row[q].rootKey, row[q].recvChainKey.way, k)
  <2>1. ReceiveOK(row[q], S, H, c, q)
    BY <1>4, <1>r DEF RowOK
  <2>2. CacheOK(row[q].skippedKeys, S, row[q].rootKey, row[q].recvChainKey.way, row[q].recvCount)
    BY <2>1 DEF ReceiveOK
  <2>3. /\ CacheOK(row[q].skippedKeys, S2, row[q].rootKey, row[q].recvChainKey.way, row[q].recvCount)
        /\ \A k : Holds(row[q].skippedKeys, S2, row[q].rootKey, row[q].recvChainKey.way, k)
                      => Holds(row[q].skippedKeys, S, row[q].rootKey, row[q].recvChainKey.way, k)
    BY ONLY <2>2, S \subseteq S2, TalkOK(S2), CacheGrows
  <2> QED
    BY <2>1, <2>3
<1>5. ASSUME NEW q \in Client, NEW m, Shut(row[q], S, m) PROVE Shut(row[q], S2, m)
  <2>1. row[q] # None
    BY <1>5 DEF Shut
  <2> QED
    BY <1>4, <1>5, <2>1 DEF Shut
<1>6. RowOK(row, S2, H2, c)
  <2> SUFFICES ASSUME NEW q \in Client, row[q] # None PROVE ReceiveOK(row[q], S2, H2, c, q)
    BY DEF RowOK
  <2>1. Ready(row[q], row[q].recvChainKey.way)
    BY <1>4 DEF ReceiveOK
  <2>2. ASSUME row[q].recvCount > 0
        PROVE  \E i \in 1..Len(H2) :
                   /\ H2[i].from = q /\ H2[i].to = c /\ OnChain(H2[i], row[q].rootKey, row[q].recvChainKey.way)
                   /\ H2[i].msgIndex = row[q].recvCount - 1
    <3>1. PICK i \in 1..Len(H) : /\ H[i].from = q /\ H[i].to = c 
                                 /\ OnChain(H[i], row[q].rootKey, row[q].recvChainKey.way)
                                 /\ H[i].msgIndex = row[q].recvCount - 1
      BY <1>4, <2>2 DEF ReceiveOK
    <3>2. i \in 1..Len(H2) /\ H2[i] = H[i]
      BY <1>1
    <3> QED
      BY <3>1, <3>2
  <2> QED
    BY <1>4, <2>1, <2>2 DEF ReceiveOK
<1>7. ReadOK(R, row, S2, c)
  <2> SUFFICES ASSUME NEW t \in 1..Len(R)
               PROVE  /\ R[t].to = c /\ row[R[t].from] # None
                      /\ OnChain(R[t], row[R[t].from].rootKey, row[R[t].from].recvChainKey.way)
                      /\ R[t].msgIndex < row[R[t].from].recvCount
                      /\ Shut(row[R[t].from], S2, R[t])
    BY DEF ReadOK
  <2>1. R[t] \in Message
    BY <1>3
  <2>2. R[t].from \in Client
    BY <2>1, MessageFacts
  <2> QED
    BY <1>5, <1>r, <2>2 DEF ReadOK
<1>8. Scanned(op, sc, H2, c)
  <2> SUFFICES ASSUME sc # None, NEW i \in 1..(sc.pos - 1), H2[i].to = c
               PROVE  \E t \in 1..Len(op) : op[t] = i
    BY DEF Scanned
  <2>1. i \in 1..Len(H)
    BY <1>1
  <2> QED
    BY <1>r, <2>1 DEF Scanned
<1>9. ASSUME Stuck(row, sc, H, S, c) PROVE Stuck(row, sc, H2, S2, c)
  <2>1. PICK f \in 1..Len(H) : StuckAt(f, row, sc, H, S, c)
    BY <1>9 DEF Stuck
  <2>2. f \in 1..Len(H2) /\ H2[f] = H[f]
    BY <1>1
  <2>3. ASSUME NEW i \in 1..f, H2[i].to = c PROVE Shut(row[H2[i].from], S2, H2[i])
    <3>1. i \in 1..Len(H)
      BY <1>1
    <3>2. H2[i] = H[i] /\ H[i] \in S
      BY <1>1, <3>1
    <3>3. H[i].from \in Client
      BY <1>1, <3>2, MessageFacts
    <3>4. Shut(row[H[i].from], S, H[i])
      BY <2>1, <2>3, <3>2 DEF StuckAt
    <3> QED
      BY <1>5, <3>2, <3>3, <3>4
  <2>4. StuckAt(f, row, sc, H2, S2, c)
    BY <2>1, <2>2, <2>3 DEF StuckAt
  <2> QED
    BY <2>2, <2>4 DEF Stuck
<1> QED
  BY <1>2, <1>6, <1>7, <1>8, <1>9, <1>r DEF Reading, R

\* A page that was just loaded.
LEMMA NewReads ==
    ASSUME NEW S, NEW H, NEW row, \A p \in Client : row[p] = None, NEW c
    PROVE  Reading(row, <<>>, None, H, S, c)
<1>1. Len(<<>>) = 0 /\ 1..Len(<<>>) = {}
  OBVIOUS
<1>2. ReadBy(<<>>, H) = <<>>
  BY <1>1 DEF ReadBy
<1>3. /\ RowOK(row, S, H, c) /\ ReadOK(<<>>, row, S, c) /\ Once(<<>>) /\ Scanned(<<>>, None, H, c)
      /\ Calm(<<>>, row) /\ AllAccounted(<<>>, row)
  BY <1>1 DEF RowOK, ReadOK, Once, Scanned, Calm, AllAccounted
<1> QED
  BY <1>2, <1>3 DEF Reading

-----------------------------------------------------------------------------
(* What the steps keep of what was sent                                    *)

More(D, D2) == \A c \in Client : D[c] \in Nat /\ D2[c] \in Nat /\ D[c] <= D2[c]

LEMMA PairFacts ==
    ASSUME NEW pair \in Pair
    PROVE  pair[1] \in Client /\ pair[2] \in Nat /\ pair = <<pair[1], pair[2]>>
BY DEF Pair

LEMMA RootFacts ==
    ASSUME NEW root \in Root
    PROVE  root[1] \in Client /\ root[2] \in Client /\ root[3] \in Pair
BY DEF Root

LEMMA DrawnMore ==
    ASSUME NEW D, NEW D2, More(D, D2), NEW c \in Client, NEW pair \in Pair, DrawnBy(D, c, pair)
    PROVE  DrawnBy(D2, c, pair)
<1>1. pair[2] \in Nat /\ pair[2] <= D[c] /\ D[c] \in Nat /\ D2[c] \in Nat /\ D[c] <= D2[c] /\ pair[1] = c
  BY PairFacts DEF DrawnBy, More
<1>2. pair[2] <= D2[c]
  BY <1>1
<1> QED
  BY <1>1, <1>2 DEF DrawnBy

LEMMA MadeOfMore ==
    ASSUME NEW D, NEW D2, More(D, D2), NEW P, NEW m \in Message, MadeOf(m, D, P)
    PROVE  MadeOf(m, D2, P)
<1>1. m.from \in Client /\ m.dhPub \in Pair /\ m.key.root[3] \in Pair
  BY MessageFacts, RootFacts
<1> QED
  BY <1>1, DrawnMore DEF MadeOf

LEMMA StateOKMore ==
    ASSUME NEW D, NEW D2, More(D, D2), NEW s \in RatchetState, NEW c \in Client, NEW p, StateOK(s, c, p, D)
    PROVE  StateOK(s, c, p, D2)
<1>1. s.dhPair \in Pair /\ s.rootKey[3] \in Pair
  BY StateFacts, RootFacts
<1> QED
  BY <1>1, DrawnMore DEF StateOK

\* A pair is drawn by nobody before it is.
LEMMA NotDrawn ==
    ASSUME NEW D, NEW c \in Client, D[c] \in Nat, NEW k \in Nat \ {0}, NEW b
    PROVE  ~DrawnBy(D, b, KeyPair(c, D[c] + k))
<1>1. ~(D[c] + k <= D[c])
  OBVIOUS
<1> QED
  BY <1>1 DEF DrawnBy, KeyPair

\* s is fit to be c's state with p, when D[c] pairs are drawn.
Session(s, c, p, D) ==
    /\ s \in RatchetState
    /\ StateOK(s, c, p, D)
    /\ SendOK(s, c, p, sealed, page)
    /\ \A q \in Client \ {p} : store[c][q] # None => store[c][q].dhPair # s.dhPair

LEMMA StoreFacts ==
    ASSUME LogTyped, NEW c \in Client, NEW p \in Client
    PROVE  /\ store[c] \in [Client -> RatchetState \union {None}]
           /\ store[c][p] # None => store[c][p] \in RatchetState
BY DEF LogTyped

LEMMA StoreChange ==
    ASSUME LogTyped, NEW c \in Client, NEW p \in Client, NEW t \in RatchetState,
           store' = [store EXCEPT ![c][p] = t]
    PROVE  /\ store' \in [Client -> [Client -> RatchetState \union {None}]]
           /\ store'[c] = [store[c] EXCEPT ![p] = t]
           /\ store'[c][p] = t
           /\ \A q \in Client : q # p => store'[c][q] = store[c][q]
           /\ \A b \in Client : b # c => store'[b] = store[b]
           /\ t # None
<1>1. store \in [Client -> [Client -> RatchetState \union {None}]] /\ t # None
  BY ClientAssumption DEF LogTyped
<1> QED
  BY <1>1

LEMMA ExistingSession ==
    ASSUME LogTyped, SealedInv, NEW c \in Client, NEW p \in Client, store[c][p] # None,
           NEW D, More(drawn, D)
    PROVE  Session(store[c][p], c, p, D)
<1>1. store[c][p] \in RatchetState
  BY StoreFacts
<1>2. StateOK(store[c][p], c, p, drawn) /\ SendOK(store[c][p], c, p, sealed, page)
  BY DEF SealedInv
<1>3. StateOK(store[c][p], c, p, D)
  BY <1>1, <1>2, StateOKMore
<1>4. \A q \in Client \ {p} : store[c][q] # None => store[c][q].dhPair # store[c][p].dhPair
  BY DEF SealedInv
<1> QED
  BY <1>1, <1>2, <1>3, <1>4 DEF Session

\* c and p have the two sides of s.
Sides(s, c, p) ==
    /\ Side(s.rootKey, s.sendChainKey.way, c, p)
    /\ Side(s.rootKey, s.recvChainKey.way, p, c)
    /\ s.recvChainKey.way # s.sendChainKey.way

\* A session of a new pair, made of an ephemeral key that is new if it is one's
\* own.
LEMMA NewSession ==
    ASSUME LogTyped, SealedInv, NEW c \in Client, NEW p \in Client, store[c][p] = None,
           NEW D, More(drawn, D), NEW k \in Nat \ {0}, drawn[c] + k <= D[c],
           NEW s \in RatchetState, s.dhPair = KeyPair(c, drawn[c] + k),
           Sides(s, c, p), s.sendChainKey = KeyAt(s.rootKey, s.sendChainKey.way, s.sendCount),
           NEW j \in 1..k, s.sendChainKey.way = 1 => s.rootKey[3] = KeyPair(c, drawn[c] + j)
    PROVE  Session(s, c, p, D)
<1>1. drawn[c] \in Nat /\ D[c] \in Nat /\ j \in Nat \ {0} /\ drawn[c] + j <= D[c]
  BY DEF LogTyped, More
<1>2. StateOK(s, c, p, D)
  BY <1>1 DEF StateOK, Sides, DrawnBy, KeyPair
<1>3. SendOK(s, c, p, sealed, page)
  <2> SUFFICES ASSUME NEW m \in sealed
               PROVE  /\ ~OfPage(m, c, p, page)
                      /\ m.dhPub # s.dhPair
                      /\ ~(OnChain(m, s.rootKey, 1) /\ s.sendChainKey.way = 1)
    BY DEF SendOK
  <2>1. MadeOf(m, drawn, page)
    BY DEF SealedInv
  <2>2. ~OfPage(m, c, p, page)
    BY DEF SealedInv
  <2>3. m.dhPub # s.dhPair
    BY <1>1, <2>1, NotDrawn DEF MadeOf
  <2>4. ~(OnChain(m, s.rootKey, 1) /\ s.sendChainKey.way = 1)
    BY <1>1, <2>1, NotDrawn DEF MadeOf, OnChain
  <2> QED
    BY <2>2, <2>3, <2>4
<1>4. ASSUME NEW q \in Client, store[c][q] # None PROVE store[c][q].dhPair # s.dhPair
  <2>1. DrawnBy(drawn, c, store[c][q].dhPair)
    BY <1>4 DEF SealedInv, StateOK
  <2> QED
    BY <1>1, <2>1, NotDrawn
<1> QED
  BY <1>2, <1>3, <1>4 DEF Session

\* c's state with p changes from s to t, and messages are sealed in s at most.
LEMMA SealedStep ==
    ASSUME LogTyped, SealedInv, NEW c \in Client, NEW p \in Client,
           page' = page, More(drawn, drawn'),
           NEW s, Session(s, c, p, drawn'),
           NEW t \in RatchetState, t.rootKey = s.rootKey, t.dhPair = s.dhPair,
           t.sendChainKey = KeyAt(t.rootKey, t.sendChainKey.way, t.sendCount),
           t.sendChainKey.way = s.sendChainKey.way, t.recvChainKey.way = s.recvChainKey.way,
           store' = [store EXCEPT ![c][p] = t],
           IsFiniteSet(sealed'), TalkOK(sealed'), sealed \subseteq sealed',
           SendOK(t, c, p, sealed', page),
           \A m \in sealed' \ sealed : /\ m.from = c /\ m.to = p /\ m.page = page[c]
                                       /\ m.dhPub = s.dhPair
                                       /\ OnChain(m, s.rootKey, s.sendChainKey.way)
    PROVE  SealedInv'
<1>1. /\ store'[c][p] = t /\ t # None
      /\ \A q \in Client : q # p => store'[c][q] = store[c][q]
      /\ \A b \in Client : b # c => store'[b] = store[b]
  BY StoreChange
<1>2. StateOK(s, c, p, drawn') /\ \A q \in Client \ {p} : store[c][q] # None => store[c][q].dhPair # s.dhPair
  BY DEF Session
<1>3. StateOK(t, c, p, drawn')
  BY <1>2 DEF StateOK
<1>4. ASSUME NEW m \in sealed' PROVE MadeOf(m, drawn', page)
  <2>1. CASE m \in sealed
    <3>1. MadeOf(m, drawn, page) /\ m \in Message
      BY <2>1 DEF SealedInv, LogTyped
    <3> QED
      BY <3>1, MadeOfMore
  <2>2. CASE m \notin sealed
    <3>1. page[c] \in Nat
      BY DEF LogTyped
    <3>2. m.page <= page[m.from]
      BY <2>2, <3>1
    <3>3. DrawnBy(drawn', c, s.dhPair) /\ (s.sendChainKey.way = 1 => DrawnBy(drawn', c, s.rootKey[3]))
      BY <1>2 DEF StateOK
    <3> QED
      BY <2>2, <3>2, <3>3 DEF MadeOf, OnChain
  <2> QED
    BY <2>1, <2>2
<1>5. ASSUME NEW a \in Client, NEW b \in Client, a # c \/ b # p, NEW m \in sealed' PROVE OfPage(m, a, b, page) => m \in sealed
  BY <1>5 DEF OfPage
<1>6. ASSUME NEW a \in Client, NEW b \in Client, a # c \/ b # p PROVE store'[a][b] = store[a][b]
  BY <1>1, <1>6
<1>7. ASSUME NEW a \in Client, NEW b \in Client, store'[a][b] = None, NEW m \in sealed'
      PROVE  ~OfPage(m, a, b, page)
  <2>1. a # c \/ b # p
    BY <1>1, <1>7
  <2>2. store[a][b] = None
    BY <1>6, <1>7, <2>1
  <2> QED
    BY <1>5, <2>1, <2>2 DEF SealedInv
<1>8. ASSUME NEW a \in Client, NEW b \in Client, store'[a][b] # None
      PROVE  StateOK(store'[a][b], a, b, drawn') /\ SendOK(store'[a][b], a, b, sealed', page)
  <2>1. CASE a = c /\ b = p
    BY <1>1, <1>3, <2>1
  <2>2. CASE a # c \/ b # p
    <3> DEFINE z == store[a][b]
    <3>1. store'[a][b] = z /\ z # None
      BY <1>6, <1>8, <2>2
    <3>2. StateOK(z, a, b, drawn) /\ SendOK(z, a, b, sealed, page) /\ z \in RatchetState
      BY <3>1, StoreFacts DEF SealedInv
    <3>3. StateOK(z, a, b, drawn')
      BY <3>2, StateOKMore
    <3>4. SendOK(z, a, b, sealed', page)
      <4> SUFFICES ASSUME NEW m \in sealed'
                   PROVE  /\ OfPage(m, a, b, page) => m.dhPub = z.dhPair /\ m.msgIndex < z.sendCount
                          /\ m.dhPub = z.dhPair => OnChain(m, z.rootKey, z.sendChainKey.way)
                          /\ OnChain(m, z.rootKey, 1) /\ z.sendChainKey.way = 1 => m.page = page[a]
        BY DEF SendOK
      <4>1. CASE m \in sealed
        BY <3>2, <4>1 DEF SendOK
      <4>2. CASE m \notin sealed
        <5>1. ~OfPage(m, a, b, page)
          BY <1>5, <2>2, <4>2
        <5>2. m.dhPub # z.dhPair
          <6>1. CASE a # c
            <7>1. z.dhPair[1] = a /\ s.dhPair[1] = c
              BY <1>2, <3>2 DEF StateOK, DrawnBy
            <7> QED
              BY <4>2, <6>1, <7>1
          <6>2. CASE a = c
            BY <1>2, <2>2, <3>1, <4>2, <6>2
          <6> QED
            BY <6>1, <6>2
        <5>3. OnChain(m, z.rootKey, 1) /\ z.sendChainKey.way = 1 => m.page = page[a]
          <6> SUFFICES ASSUME OnChain(m, z.rootKey, 1), z.sendChainKey.way = 1 PROVE m.page = page[a]
            OBVIOUS
          <6>1. s.rootKey = z.rootKey /\ s.sendChainKey.way = 1
            BY <4>2 DEF OnChain
          <6>2. z.rootKey[1] = a /\ s.rootKey[1] = c
            BY <1>2, <3>2, <6>1 DEF StateOK, Side
          <6> QED
            BY <4>2, <6>1, <6>2
        <5> QED
          BY <5>1, <5>2, <5>3
      <4> QED
        BY <4>1, <4>2
    <3> QED
      BY <3>1, <3>3, <3>4
  <2> QED
    BY <2>1, <2>2
<1>9. ASSUME NEW a \in Client, NEW b \in Client, NEW q \in Client, store'[a][b] # None, store'[a][q] # None,
             store'[a][b].dhPair = store'[a][q].dhPair
      PROVE  b = q
  <2>1. CASE a # c
    BY <1>1, <1>9, <2>1 DEF SealedInv
  <2>2. CASE a = c /\ b # p /\ q # p
    BY <1>1, <1>9, <2>2 DEF SealedInv
  <2>3. CASE a = c /\ (b = p \/ q = p)
    <3> SUFFICES ASSUME b # q PROVE FALSE
      OBVIOUS
    <3>1. CASE b = p
      BY <1>1, <1>2, <1>9, <2>3, <3>1
    <3>2. CASE q = p
      BY <1>1, <1>2, <1>9, <2>3, <3>2
    <3> QED
      BY <2>3, <3>1, <3>2
  <2> QED
    BY <2>1, <2>2, <2>3
<1> QED
  BY <1>4, <1>7, <1>8, <1>9 DEF SealedInv

-----------------------------------------------------------------------------
(* The steps                                                               *)

\* A state whose chains are at their beginning.
NewState(root, d, out, in) ==
    [ rootKey |-> root, sendChainKey |-> KeyAt(root, out, 0), recvChainKey |-> KeyAt(root, in, 0),
      dhPair |-> d, theirDhPub |-> NoKey, sendCount |-> 0, recvCount |-> 0, skippedKeys |-> <<>> ]

LEMMA NewStateFacts ==
    ASSUME NEW root \in Root, NEW d \in Pair, NEW out \in {1, 2}, NEW in \in {1, 2},
           NEW s, s = NewState(root, d, out, in)
    PROVE  /\ s \in RatchetState /\ s.rootKey = root /\ s.dhPair = d
           /\ s.sendCount = 0 /\ s.recvCount = 0 /\ s.skippedKeys = <<>>
           /\ s.sendChainKey = KeyAt(s.rootKey, out, 0)
           /\ s.recvChainKey = KeyAt(s.rootKey, in, 0)
<1>1. KeyAt(root, out, 0) \in Key /\ KeyAt(root, in, 0) \in Key
  BY KeyFacts
<1>2. <<>> \in Seq(SkippedKey)
  OBVIOUS
<1>3. s \in RatchetState
  BY <1>1, <1>2 DEF RatchetState, NewState
<1> QED
  BY <1>3 DEF NewState

LEMMA InitFacts ==
    ASSUME NEW a \in Client, NEW b \in Client, NEW eph \in Pair, NEW d
    PROVE  /\ <<a, b, eph>> \in Root
           /\ initRatchet(SessionKey(a, b, eph), d, TRUE) = NewState(<<a, b, eph>>, d, 1, 2)
           /\ initRatchet(SessionKey(a, b, eph), d, FALSE) = NewState(<<a, b, eph>>, d, 2, 1)
BY DEF Root, SessionKey, initRatchet, Chain, KeyAt, NewState

LEMMA WayFacts ==
    ASSUME NEW s \in RatchetState
    PROVE  s.sendChainKey.way \in {1, 2} /\ s.recvChainKey.way \in {1, 2}
BY StateFacts DEF Key

LEMMA FreshFacts ==
    ASSUME NEW s \in RatchetState, s.recvCount = 0, s.skippedKeys = <<>>, NEW p,
           s.recvChainKey = KeyAt(s.rootKey, s.recvChainKey.way, 0), NEW S, NEW H, NEW c
    PROVE  FreshState(s, S, H, c, p)
<1>1. Len(s.skippedKeys) = 0 /\ 1..Len(s.skippedKeys) = {} /\ s.recvChainKey.way \in {1, 2} /\ 0 <= MAX_SKIP
  BY WayFacts, RatchetAssumption
<1>2. Ready(s, s.recvChainKey.way)
  BY <1>1 DEF Ready
<1>3. CacheOK(s.skippedKeys, S, s.rootKey, s.recvChainKey.way, s.recvCount)
  BY <1>1 DEF CacheOK
<1>4. ~(s.recvCount > 0)
  OBVIOUS
<1> QED
  BY <1>2, <1>3, <1>4 DEF FreshState, ReceiveOK

\* What a client's page has is typed.
LEMMA RowTyped ==
    ASSUME LogTyped, PagesTyped, NEW c \in Client
    PROVE  /\ Typed(store[c], opened[c], scan[c], hub, sealed)
           /\ scan[c] # None => scan[c].pos <= Len(hub) + 1
<1>1. /\ store[c] \in [Client -> RatchetState \union {None}] /\ hub \in Seq(sealed)
      /\ opened[c] \in Seq(1..Len(hub)) /\ Len(hub) \in Nat
  BY DEF LogTyped, PagesTyped
<1>2. ASSUME scan[c] # None PROVE scan[c].pos \in Nat /\ scan[c].pos >= 1 /\ scan[c].pos <= Len(hub) + 1
  <2>1. scan[c] \in Scan /\ scan[c].upTo <= Len(hub) /\ scan[c].pos \in 1..(scan[c].upTo + 1)
    BY <1>2 DEF PagesTyped
  <2>2. scan[c].upTo \in Nat
    BY <2>1 DEF Scan
  <2> QED
    BY <1>1, <2>1, <2>2
<1> QED
  BY <1>1, <1>2 DEF Typed

\* c seals m in its state s with p, which moves on to t.
Sealing(c, p, s, t, m) ==
    /\ Session(s, c, p, drawn')
    /\ IF store[c][p] # None THEN s = store[c][p]
       ELSE s.recvCount = 0 /\ s.skippedKeys = <<>>
            /\ s.recvChainKey = KeyAt(s.rootKey, s.recvChainKey.way, 0)
    /\ t \in RatchetState
    /\ SameBut(s, t, {"sendChainKey", "sendCount"})
    /\ t.sendCount = s.sendCount + 1
    /\ t.sendChainKey = KeyAt(t.rootKey, s.sendChainKey.way, t.sendCount)
    /\ m \in Message
    /\ m.from = c /\ m.to = p /\ m.page = page[c] /\ m.dhPub = s.dhPair
    /\ m.msgIndex = s.sendCount
    /\ m.key = KeyAt(s.rootKey, s.sendChainKey.way, s.sendCount)
    /\ store' = [store EXCEPT ![c][p] = t]
    /\ outbox' = outbox \union {m}
    /\ sealed' = sealed \union {m}
    /\ UNCHANGED <<hub, others, scan, view, opened, page>>

LEMMA DrawnFacts ==
    ASSUME LogTyped, NEW c \in Client, NEW k \in Nat, drawn' = [drawn EXCEPT ![c] = @ + k]
    PROVE  /\ drawn' \in [Client -> Nat] /\ More(drawn, drawn') /\ drawn'[c] = drawn[c] + k
           /\ drawn[c] \in Nat
<1>1. drawn \in [Client -> Nat]
  BY DEF LogTyped
<1>2. drawn[c] \in Nat /\ drawn'[c] = drawn[c] + k
  BY <1>1
<1>3. \A b \in Client : b # c => drawn'[b] = drawn[b]
  BY <1>1
<1>4. drawn' \in [Client -> Nat]
  BY <1>1
<1>5. More(drawn, drawn')
  <2> SUFFICES ASSUME NEW b \in Client PROVE drawn[b] \in Nat /\ drawn'[b] \in Nat /\ drawn[b] <= drawn'[b]
    BY DEF More
  <2>1. drawn[b] \in Nat
    BY <1>1
  <2>2. CASE b = c
    BY <1>2, <2>2
  <2>3. CASE b # c
    BY <1>3, <2>1, <2>3
  <2> QED
    BY <2>2, <2>3
<1> QED
  BY <1>2, <1>4, <1>5

LEMMA EncryptSeals ==
    ASSUME LogTyped, SealedInv, NEW c \in Client, NEW p \in Client, Encrypt(c, p)
    PROVE  /\ \E s, t, m : Sealing(c, p, s, t, m)
           /\ drawn' \in [Client -> Nat] /\ More(drawn, drawn')
           /\ Within([Sends EXCEPT ![<<c, p>>] = @ + 1], page, others)
<1> DEFINE eph == KeyPair(c, drawn[c] + 1)
           d == KeyPair(c, drawn[c] + 2)
           s == ExistingOrNew(c, p, eph, d)
           t == Sealed(s)
           m == MessageOf(c, p, eph, s)
           way == s.sendChainKey.way
<1>1. /\ Within([Sends EXCEPT ![<<c, p>>] = @ + 1], page, others)
      /\ store' = [store EXCEPT ![c][p] = t]
      /\ outbox' = outbox \union {m} /\ sealed' = sealed \union {m}
      /\ drawn' = [drawn EXCEPT ![c] = @ + 2]
      /\ UNCHANGED <<hub, others, scan, view, opened, page>>
  BY DEF Encrypt
<1>2. drawn' \in [Client -> Nat] /\ More(drawn, drawn') /\ drawn'[c] = drawn[c] + 2 /\ drawn[c] \in Nat
  BY <1>1, DrawnFacts
<1>3. eph \in Pair /\ d \in Pair
  BY <1>2 DEF KeyPair, Pair
<1>4. /\ Session(s, c, p, drawn')
      /\ IF store[c][p] # None THEN s = store[c][p]
         ELSE s.recvCount = 0 /\ s.skippedKeys = <<>>
              /\ s.recvChainKey = KeyAt(s.rootKey, s.recvChainKey.way, 0)
  <2>1. CASE store[c][p] # None
    <3>1. s = store[c][p]
      BY <2>1 DEF ExistingOrNew
    <3> HIDE DEF s
    <3> QED
      BY <1>2, <2>1, <3>1, ExistingSession
  <2>2. CASE store[c][p] = None
    <3>1. s = initRatchet(SessionKey(c, p, eph), d, TRUE)
      BY <2>2 DEF ExistingOrNew
    <3>e. eph = KeyPair(c, drawn[c] + 1) /\ d = KeyPair(c, drawn[c] + 2)
      OBVIOUS
    <3> HIDE DEF s, eph, d
    <3> DEFINE root == <<c, p, eph>>
    <3>i. root \in Root /\ s = NewState(root, d, 1, 2)
      BY <1>3, <3>1, InitFacts
    <3>r. root[1] = c /\ root[2] = p /\ root[3] = eph
      OBVIOUS
    <3> HIDE DEF root
    <3>2. /\ s \in RatchetState /\ s.rootKey = root /\ s.dhPair = d
          /\ s.sendCount = 0 /\ s.recvCount = 0 /\ s.skippedKeys = <<>>
          /\ s.sendChainKey = KeyAt(s.rootKey, 1, 0)
          /\ s.recvChainKey = KeyAt(s.rootKey, 2, 0)
      BY <1>3, <3>i, NewStateFacts
    <3>3. s.sendChainKey.way = 1 /\ s.recvChainKey.way = 2 /\ Sides(s, c, p)
      <4>1. s.sendChainKey.way = 1 /\ s.recvChainKey.way = 2
        BY <3>2, KeyParts
      <4> QED
        BY <3>2, <3>r, <4>1 DEF Sides, Side
    <3>4. s.rootKey[3] = KeyPair(c, drawn[c] + 1)
      BY <3>2, <3>e, <3>r
    <3>5. Session(s, c, p, drawn')
      <4>1. 2 \in Nat \ {0} /\ 1 \in 1..2 /\ drawn[c] + 2 <= drawn'[c]
        BY <1>2
      <4>2. s.sendChainKey = KeyAt(s.rootKey, s.sendChainKey.way, s.sendCount)
        BY <3>2, <3>3
      <4>3. s.dhPair = KeyPair(c, drawn[c] + 2)
        BY <3>2, <3>e
      <4> QED
        BY <1>2, <2>2, <3>2, <3>3, <3>4, <4>1, <4>2, <4>3, NewSession
    <3> QED
      BY <2>2, <3>2, <3>3, <3>5
  <2> QED
    BY <2>1, <2>2
<1> HIDE DEF s, eph
<1>5. /\ s \in RatchetState /\ way \in {1, 2} /\ s.sendChainKey = KeyAt(s.rootKey, way, s.sendCount)
      /\ s.sendCount \in Nat /\ s.recvCount \in Nat /\ s.dhPair \in Pair /\ s.sendChainKey \in Key
  <2>1. s \in RatchetState /\ s.sendChainKey = KeyAt(s.rootKey, way, s.sendCount)
    BY <1>4 DEF Session, StateOK
  <2> QED
    BY <2>1, StateFacts, WayFacts
<1>6. /\ t \in RatchetState /\ SameBut(s, t, {"sendChainKey", "sendCount"})
      /\ t.sendCount = s.sendCount + 1 /\ t.sendChainKey = KeyAt(s.rootKey, way, t.sendCount)
  BY <1>5, SealedFacts
<1> HIDE DEF t, way
<1>7. m = [ from |-> c, to |-> p, eph |-> eph, page |-> page[c], dhPub |-> s.dhPair,
            msgIndex |-> s.sendCount, prevChainLen |-> s.recvCount, key |-> s.sendChainKey ]
  BY DEF MessageOf, Seal, MessageKey
<1> HIDE DEF m
<1>8. page[c] \in Nat
  BY DEF LogTyped
<1>9. m \in Message
  BY <1>3, <1>5, <1>7, <1>8 DEF Message
<1>10. t.rootKey = s.rootKey
  BY <1>6 DEF SameBut
<1>11. /\ m.from = c /\ m.to = p /\ m.page = page[c] /\ m.dhPub = s.dhPair
       /\ m.msgIndex = s.sendCount /\ m.key = KeyAt(s.rootKey, way, s.sendCount)
  BY <1>5, <1>7
<1>12. Sealing(c, p, s, t, m)
  BY <1>1, <1>4, <1>6, <1>9, <1>10, <1>11 DEF Sealing, way
<1> QED
  BY <1>1, <1>2, <1>12

\* A message that is sealed next can be told from all before it.
LEMMA NextApart ==
    ASSUME TalkOK(sealed), NEW c, NEW p, NEW s, NEW D, Session(s, c, p, D),
           NEW m, m.from = c, m.to = p, m.page = page[c], m.dhPub = s.dhPair,
           m.msgIndex = s.sendCount, OnChain(m, s.rootKey, s.sendChainKey.way),
           NEW x \in sealed
    PROVE  Apart(m, x) /\ Apart(x, m) /\ x # m
<1>1. /\ OfPage(x, c, p, page) => x.dhPub = s.dhPair /\ x.msgIndex < s.sendCount
      /\ x.dhPub = s.dhPair => OnChain(x, s.rootKey, s.sendChainKey.way)
      /\ OnChain(x, s.rootKey, 1) /\ s.sendChainKey.way = 1 => x.page = page[c]
  BY DEF Session, SendOK
<1>2. x.msgIndex \in Nat /\ s.sendCount \in Nat
  BY MessageFacts, StateFacts DEF TalkOK, Session
<1>3. SamePage(m, x) \/ SamePage(x, m) => x.msgIndex # m.msgIndex /\ x.dhPub = m.dhPub
  <2>1. SamePage(m, x) \/ SamePage(x, m) => OfPage(x, c, p, page)
    BY DEF SamePage, OfPage
  <2>2. x.msgIndex < s.sendCount => x.msgIndex # s.sendCount
    BY <1>2
  <2> QED
    BY <1>1, <2>1, <2>2
<1>4. x # m
  BY <1>3 DEF SamePage
<1> QED
  BY <1>1, <1>3, <1>4 DEF Apart, OnChain

LEMMA EncryptSealed ==
    ASSUME LogTyped, SealedInv, NEW c \in Client, NEW p \in Client, More(drawn, drawn'),
           NEW s, NEW t, NEW m, Sealing(c, p, s, t, m)
    PROVE  SealedInv' /\ m \notin sealed
<1>1. /\ Session(s, c, p, drawn')
      /\ t \in RatchetState /\ SameBut(s, t, {"sendChainKey", "sendCount"})
      /\ t.sendCount = s.sendCount + 1
      /\ t.sendChainKey = KeyAt(t.rootKey, s.sendChainKey.way, t.sendCount)
      /\ m \in Message /\ m.from = c /\ m.to = p /\ m.page = page[c] /\ m.dhPub = s.dhPair
      /\ m.msgIndex = s.sendCount
      /\ m.key = KeyAt(s.rootKey, s.sendChainKey.way, s.sendCount)
      /\ store' = [store EXCEPT ![c][p] = t]
      /\ sealed' = sealed \union {m} /\ page' = page
  BY DEF Sealing
<1>2. /\ OnChain(m, s.rootKey, s.sendChainKey.way) /\ t.rootKey = s.rootKey /\ t.dhPair = s.dhPair
      /\ t.sendChainKey.way = s.sendChainKey.way /\ t.recvChainKey = s.recvChainKey
  BY <1>1, KeyParts DEF SameBut, OnChain
<1>3. TalkOK(sealed) /\ IsFiniteSet(sealed)
  BY DEF SealedInv
<1>4. \A x \in sealed : Apart(m, x) /\ Apart(x, m) /\ x # m
  BY <1>1, <1>2, <1>3, NextApart
<1>5. TalkOK(sealed')
  <2>1. Apart(m, m)
    BY DEF Apart
  <2>2. Side(m.key.root, m.key.way, m.from, m.to)
    BY <1>1, <1>2 DEF Session, StateOK, OnChain
  <2>3. m.key = KeyAt(m.key.root, m.key.way, m.msgIndex)
    BY <1>1, <1>2 DEF OnChain
  <2>4. \A x, y \in sealed' : Apart(x, y)
    BY <1>1, <1>3, <1>4, <2>1 DEF TalkOK
  <2>5. \A x \in sealed' : /\ x \in Message /\ Side(x.key.root, x.key.way, x.from, x.to)
                           /\ x.key = KeyAt(x.key.root, x.key.way, x.msgIndex)
    BY <1>1, <1>3, <2>2, <2>3 DEF TalkOK
  <2> QED
    BY <2>4, <2>5 DEF TalkOK
<1>6. SendOK(t, c, p, sealed', page)
  <2> SUFFICES ASSUME NEW x \in sealed'
               PROVE  /\ OfPage(x, c, p, page) => x.dhPub = t.dhPair /\ x.msgIndex < t.sendCount
                      /\ x.dhPub = t.dhPair => OnChain(x, t.rootKey, t.sendChainKey.way)
                      /\ OnChain(x, t.rootKey, 1) /\ t.sendChainKey.way = 1 => x.page = page[c]
    BY DEF SendOK
  <2>1. s.sendCount \in Nat
    BY <1>1, StateFacts DEF Session
  <2>2. CASE x = m
    <3>1. m.msgIndex < t.sendCount
      BY <1>1, <2>1
    <3> QED
      BY <1>1, <1>2, <2>2, <3>1
  <2>3. CASE x \in sealed
    <3>1. /\ OfPage(x, c, p, page) => x.dhPub = s.dhPair /\ x.msgIndex < s.sendCount
          /\ x.dhPub = s.dhPair => OnChain(x, s.rootKey, s.sendChainKey.way)
          /\ OnChain(x, s.rootKey, 1) /\ s.sendChainKey.way = 1 => x.page = page[c]
      BY <1>1, <2>3 DEF Session, SendOK
    <3>2. x.msgIndex \in Nat
      BY <1>3, <2>3, MessageFacts DEF TalkOK
    <3>3. x.msgIndex < s.sendCount => x.msgIndex < t.sendCount
      BY <1>1, <2>1, <3>2
    <3> QED
      BY <1>2, <3>1, <3>3
  <2> QED
    BY <1>1, <2>2, <2>3
<1>7. IsFiniteSet(sealed')
  BY <1>1, <1>3, FS_AddElement
<1>8. sealed \subseteq sealed' /\ \A x \in sealed' \ sealed :
          /\ x.from = c /\ x.to = p /\ x.page = page[c] /\ x.dhPub = s.dhPair
          /\ OnChain(x, s.rootKey, s.sendChainKey.way)
  BY <1>1, <1>2
<1>h. /\ page' = page /\ t.rootKey = s.rootKey /\ t.dhPair = s.dhPair
      /\ t.sendChainKey = KeyAt(t.rootKey, t.sendChainKey.way, t.sendCount)
      /\ t.sendChainKey.way = s.sendChainKey.way /\ t.recvChainKey.way = s.recvChainKey.way
      /\ store' = [store EXCEPT ![c][p] = t]
      /\ IsFiniteSet(sealed') /\ TalkOK(sealed') /\ sealed \subseteq sealed'
      /\ SendOK(t, c, p, sealed', page)
      /\ \A x \in sealed' \ sealed : /\ x.from = c /\ x.to = p /\ x.page = page[c]
                                       /\ x.dhPub = s.dhPair
                                       /\ OnChain(x, s.rootKey, s.sendChainKey.way)
  BY <1>1, <1>2, <1>5, <1>6, <1>7, <1>8
<1>s. Session(s, c, p, drawn') /\ t \in RatchetState
  BY <1>1
<1>9. SealedInv'
  BY ONLY LogTyped, SealedInv, c \in Client, p \in Client, More(drawn, drawn'),
          <1>h, <1>s, SealedStep, Zenon
<1> QED
  BY <1>4, <1>9

\* The log grows, or more is sealed.
LEMMA GrowthOf ==
    ASSUME LogTyped, PagesTyped, ReadInv, sealed \subseteq sealed', TalkOK(sealed'),
           hub' \in Seq(sealed'), Len(hub) <= Len(hub'), \A i \in 1..Len(hub) : hub'[i] = hub[i],
           NEW c \in Client
    PROVE  Reading(store[c], opened[c], scan[c], hub', sealed', c)
<1>1. /\ Typed(store[c], opened[c], scan[c], hub, sealed)
      /\ scan[c] # None => scan[c].pos <= Len(hub) + 1
  BY RowTyped
<1>2. Reading(store[c], opened[c], scan[c], hub, sealed, c)
  BY DEF ReadInv
<1> QED
  BY <1>1, <1>2, GrowthReads

LEMMA WiderLog ==
    ASSUME NEW S, NEW S2, S \subseteq S2, NEW H \in Seq(S)
    PROVE  H \in Seq(S2)
<1>1. \A i \in 1..Len(H) : H[i] \in S2
  OBVIOUS
<1>2. H \in [1..Len(H) -> S2] /\ Len(H) \in Nat
  BY <1>1
<1> QED
  BY <1>2, ListFacts

\* One more message from c to p is counted.
LEMMA OneMoreSent ==
    ASSUME sealed \subseteq Message, IsFiniteSet(sealed), NEW c \in Client, NEW p \in Client,
           NEW m, m.from = c, m.to = p, m \notin sealed, sealed' = sealed \union {m}
    PROVE  Sends' = [Sends EXCEPT ![<<c, p>>] = @ + 1]
<1> DEFINE By(w) == {x \in sealed : x.from = w[1] /\ x.to = w[2]}
           By2(w) == {x \in sealed' : x.from = w[1] /\ x.to = w[2]}
           cp == <<c, p>>
<1>1. ASSUME NEW w \in Client \X Client, w # cp PROVE By2(w) = By(w)
  <2>1. ~(m.from = w[1] /\ m.to = w[2])
    BY <1>1
  <2> QED
    BY <2>1
<1>2. Cardinality(By2(cp)) = Cardinality(By(cp)) + 1
  <2>1. IsFiniteSet(By(cp))
    <3>1. By(cp) \subseteq sealed
      OBVIOUS
    <3> QED
      BY <3>1, FS_Subset
  <2>2. By2(cp) = By(cp) \union {m} /\ m \notin By(cp)
    OBVIOUS
  <2> HIDE DEF By, By2, cp
  <2>3. Cardinality(By(cp) \union {m}) = Cardinality(By(cp)) + 1
    BY <2>1, <2>2, FS_AddElement
  <2> QED
    BY <2>2, <2>3
<1>3. /\ Sends = [w \in Client \X Client |-> Cardinality(By(w))]
      /\ Sends' = [w \in Client \X Client |-> Cardinality(By2(w))]
  BY DEF Sends
<1>4. cp \in Client \X Client
  OBVIOUS
<1> HIDE DEF By, By2
<1>5. Sends' = [Sends EXCEPT ![cp] = @ + 1]
  <2> HIDE DEF cp
  <2> QED
    BY <1>1, <1>2, <1>3, <1>4
<1> QED
  BY <1>5

LEMMA EncryptTyped ==
    ASSUME LogTyped, PagesTyped, IsFiniteSet(sealed), NEW c \in Client, NEW p \in Client,
           NEW s, NEW t, NEW m, Sealing(c, p, s, t, m), m \notin sealed,
           drawn' \in [Client -> Nat], Within([Sends EXCEPT ![<<c, p>>] = @ + 1], page, others)
    PROVE  LogTyped' /\ PagesTyped' /\ Within(Sends, page, others)'
<1>1. /\ m \in Message /\ m.from = c /\ m.to = p /\ t \in RatchetState
      /\ store' = [store EXCEPT ![c][p] = t]
      /\ outbox' = outbox \union {m} /\ sealed' = sealed \union {m}
      /\ UNCHANGED <<hub, others, scan, view, opened, page>>
  BY DEF Sealing
<1>2. store' \in [Client -> [Client -> RatchetState \union {None}]]
  BY <1>1, StoreChange
<1>3. sealed' \subseteq Message /\ hub' \in Seq(sealed')
  BY <1>1, WiderLog DEF LogTyped
<1>4. outbox' \subseteq sealed' \ Posted'
  <2>1. Posted \subseteq sealed /\ Posted' = Posted
    BY <1>1 DEF LogTyped, Posted
  <2> QED
    BY <1>1, <2>1 DEF LogTyped
<1>5. LogTyped'
  BY <1>1, <1>2, <1>3, <1>4 DEF LogTyped
<1>6. PagesTyped'
  BY <1>1 DEF PagesTyped
<1>7. Within(Sends, page, others)'
  <2>1. Sends' = [Sends EXCEPT ![<<c, p>>] = @ + 1]
    BY <1>1, OneMoreSent DEF LogTyped
  <2> QED
    BY <1>1, <2>1
<1> QED
  BY <1>5, <1>6, <1>7

LEMMA EncryptReads ==
    ASSUME LogTyped, PagesTyped, ReadInv, LogTyped', PagesTyped', TalkOK(sealed'),
           NEW c \in Client, NEW p \in Client,
           NEW s, NEW t, NEW m, Sealing(c, p, s, t, m)
    PROVE  ReadInv'
<1>1. /\ t \in RatchetState /\ SameBut(s, t, {"sendChainKey", "sendCount"})
      /\ IF store[c][p] # None THEN s = store[c][p]
         ELSE s.recvCount = 0 /\ s.skippedKeys = <<>>
              /\ s.recvChainKey = KeyAt(s.rootKey, s.recvChainKey.way, 0)
      /\ store' = [store EXCEPT ![c][p] = t] /\ sealed' = sealed \union {m}
      /\ UNCHANGED <<hub, others, scan, view, opened, page>>
  BY DEF Sealing
<1>2. /\ store'[c][p] = t /\ t # None
      /\ \A q \in Client : q # p => store'[c][q] = store[c][q]
      /\ \A b \in Client : b # c => store'[b] = store[b]
  <2>1. t \in RatchetState /\ store' = [store EXCEPT ![c][p] = t]
    BY <1>1
  <2> QED
    BY ONLY LogTyped, c \in Client, p \in Client, <2>1, StoreChange
<1>3. ASSUME NEW a \in Client
      PROVE  /\ Reading(store[a], opened[a], scan[a], hub', sealed', a)
             /\ Typed(store[a], opened[a], scan[a], hub', sealed')
  <2>1. /\ sealed \subseteq sealed' /\ hub' = hub /\ Len(hub) <= Len(hub') /\ hub' \in Seq(sealed')
    BY <1>1 DEF LogTyped
  <2>2. Reading(store[a], opened[a], scan[a], hub', sealed', a)
    BY <2>1, GrowthOf
  <2>3. Typed(store[a], opened[a], scan[a], hub, sealed)
    BY RowTyped
  <2>4. Typed(store[a], opened[a], scan[a], hub', sealed')
    BY <2>1, <2>3 DEF Typed
  <2> QED
    BY <2>2, <2>4
<1>4. SameRow(store[c], store'[c], sealed', hub', c)
  <2>1. ASSUME NEW q \in Client, store[c][q] # None
        PROVE  /\ store'[c][q] \in RatchetState
               /\ SameBut(store[c][q], store'[c][q], {"sendChainKey", "sendCount"})
    <3>1. CASE q = p
      BY <1>1, <1>2, <2>1, <3>1
    <3>2. CASE q # p
      BY <1>2, <2>1, <3>2, StoreFacts DEF SameBut
    <3> QED
      BY <3>1, <3>2
  <2>2. ASSUME NEW q \in Client, store[c][q] = None, store'[c][q] # None
        PROVE  FreshState(store'[c][q], sealed', hub', c, q)
    <3>1. q = p
      BY <1>2, <2>2
    <3>2. /\ t.recvCount = 0 /\ t.skippedKeys = <<>>
          /\ t.recvChainKey = KeyAt(t.rootKey, t.recvChainKey.way, 0)
      BY <1>1, <2>2, <3>1 DEF SameBut
    <3>3. FreshState(t, sealed', hub', c, p)
      BY <1>1, <3>2, FreshFacts
    <3> QED
      BY <1>2, <3>1, <3>3
  <2> QED
    BY <2>1, <2>2 DEF SameRow
<1>5. ASSUME NEW a \in Client PROVE Reading(store'[a], opened'[a], scan'[a], hub', sealed', a)
  <2>1. CASE a = c
    <3>1. Reading(store'[c], opened[c], scan[c], hub', sealed', c)
      BY <1>3, <1>4, SameReads
    <3> QED
      BY <1>1, <2>1, <3>1
  <2>2. CASE a # c
    BY <1>1, <1>2, <1>3, <2>2
  <2> QED
    BY <2>1, <2>2
<1> QED
  BY <1>5 DEF ReadInv

LEMMA EncryptStep ==
    ASSUME Inv, NEW c \in Client, NEW p \in Client, Encrypt(c, p)
    PROVE  Inv'
<1>1. LogTyped /\ PagesTyped /\ SealedInv /\ ReadInv /\ IsFiniteSet(sealed)
  BY DEF Inv, SealedInv
<1>2. PICK s, t, m : Sealing(c, p, s, t, m)
  BY <1>1, EncryptSeals
<1>3. drawn' \in [Client -> Nat] /\ More(drawn, drawn') /\ Within([Sends EXCEPT ![<<c, p>>] = @ + 1], page, others)
  BY <1>1, EncryptSeals
<1>4. SealedInv' /\ m \notin sealed
  BY <1>1, <1>2, <1>3, EncryptSealed
<1>5. LogTyped' /\ PagesTyped' /\ Within(Sends, page, others)'
  BY <1>1, <1>2, <1>3, <1>4, EncryptTyped
<1>6. TalkOK(sealed')
  BY <1>4 DEF SealedInv
<1>7. ReadInv'
  BY <1>1, <1>2, <1>5, <1>6, EncryptReads
<1> QED
  BY <1>4, <1>5, <1>7 DEF Inv

\* Steps that change neither what is sealed nor a state keep what was sent.
LEMMA SealedSame ==
    ASSUME SealedInv, UNCHANGED <<store, sealed, drawn, page>>
    PROVE  SealedInv'
BY DEF SealedInv

LEMMA LogSame ==
    ASSUME LogTyped, UNCHANGED <<sealed, hub, outbox, others, page>>, drawn' \in [Client -> Nat],
           store' \in [Client -> [Client -> RatchetState \union {None}]]
    PROVE  LogTyped'
BY DEF LogTyped, Posted

LEMMA WithinSame ==
    ASSUME Within(Sends, page, others), UNCHANGED <<sealed, page, others>>
    PROVE  Within(Sends, page, others)'
BY DEF Sends

LEMMA PostStep ==
    ASSUME Inv, NEW m \in outbox, Post(m)
    PROVE  Inv'
<1>1. /\ LogTyped /\ PagesTyped /\ SealedInv /\ ReadInv /\ Within(Sends, page, others) /\ TalkOK(sealed)
  BY DEF Inv, SealedInv
<1>2. /\ hub' = Append(hub, m) /\ outbox' = outbox \ {m}
      /\ UNCHANGED <<store, scan, view, opened, others, sealed, drawn, page>>
  BY DEF Post, pageVars
<1>3. m \in sealed /\ hub \in Seq(sealed) /\ m \notin Posted
  BY <1>1 DEF LogTyped
<1>4. /\ hub' \in Seq(sealed) /\ Len(hub) \in Nat /\ Len(hub') = Len(hub) + 1
      /\ \A i \in 1..Len(hub) : hub'[i] = hub[i]
      /\ hub'[Len(hub) + 1] = m
  BY <1>2, <1>3, AppendFacts
<1>5. Posted' = Posted \union {m}
  <2>1. Posted' = {hub'[i] : i \in 1..Len(hub')} /\ Posted = {hub[i] : i \in 1..Len(hub)}
    BY DEF Posted
  <2>2. 1..Len(hub') = (1..Len(hub)) \union {Len(hub) + 1}
    BY <1>4
  <2> QED
    BY <1>4, <2>1, <2>2
<1>6. LogTyped'
  BY <1>1, <1>2, <1>4, <1>5 DEF LogTyped
<1>7. PagesTyped'
  <2>1. Len(hub) <= Len(hub') /\ 1..Len(hub) \subseteq 1..Len(hub') /\ Len(hub') \in Nat
    BY <1>4
  <2>2. ASSUME NEW l \in Seq(1..Len(hub)) PROVE l \in Seq(1..Len(hub'))
    BY <2>1, WiderLog
  <2>3. opened' \in [Client -> Seq(1..Len(hub'))] /\ view' \in [Client -> Seq(1..Len(hub'))]
    BY <1>1, <1>2, <2>2 DEF PagesTyped
  <2>4. ASSUME NEW c \in Client, scan[c] # None
        PROVE  scan[c].upTo <= Len(hub') /\ scan[c].found \in Seq(1..Len(hub'))
    <3>1. scan[c] \in Scan /\ scan[c].upTo <= Len(hub) /\ scan[c].found \in Seq(1..Len(hub))
      BY <1>1, <2>4 DEF PagesTyped
    <3>2. scan[c].upTo \in Nat
      BY <3>1 DEF Scan
    <3> QED
      BY <1>4, <2>1, <2>2, <3>1, <3>2
  <2> QED
    BY <1>1, <1>2, <2>3, <2>4 DEF PagesTyped
<1>8. ReadInv'
  <2> SUFFICES ASSUME NEW c \in Client PROVE Reading(store'[c], opened'[c], scan'[c], hub', sealed', c)
    BY DEF ReadInv
  <2>1. Len(hub) <= Len(hub') /\ sealed' = sealed
    BY <1>2, <1>4
  <2> QED
    BY <1>1, <1>2, <1>4, <2>1, GrowthOf
<1>9. SealedInv' /\ Within(Sends, page, others)'
  BY <1>1, <1>2, SealedSame, WithinSame
<1> QED
  BY <1>6, <1>7, <1>8, <1>9 DEF Inv

LEMMA SendFailsStep ==
    ASSUME Inv, NEW m \in outbox, SendFails(m)
    PROVE  Inv'
<1>1. outbox' = outbox \ {m} /\ UNCHANGED <<hub, others, store, scan, view, opened, sealed, drawn, page>>
  BY DEF SendFails, pageVars
<1>2. LogTyped'
  <2>1. Posted' = Posted
    BY <1>1 DEF Posted
  <2> QED
    BY <1>1, <2>1 DEF Inv, LogTyped
<1>3. PagesTyped' /\ ReadInv'
  BY <1>1 DEF Inv, PagesTyped, ReadInv
<1>4. SealedInv' /\ Within(Sends, page, others)'
  BY <1>1, SealedSame, WithinSame DEF Inv
<1> QED
  BY <1>2, <1>3, <1>4 DEF Inv

LEMMA PostOtherStep ==
    ASSUME Inv, NEW ends \in {Client} \union {{c} : c \in Client}, PostOther(ends)
    PROVE  Inv'
<1> DEFINE e == [after |-> Len(hub), ends |-> ends]
<1>1. /\ others' = others \union {e} /\ Within(Sends, page, others')
      /\ UNCHANGED <<hub, outbox, store, scan, view, opened, sealed, drawn, page>>
  BY DEF PostOther, pageVars
<1>2. LogTyped /\ PagesTyped /\ SealedInv /\ ReadInv
  BY DEF Inv
<1>3. e \in Other
  <2>1. Len(hub) \in Nat
    BY <1>2 DEF LogTyped
  <2> QED
    BY <2>1 DEF Other
<1> HIDE DEF e
<1>4. LogTyped'
  BY <1>1, <1>2, <1>3 DEF LogTyped, Posted
<1>5. PagesTyped' /\ ReadInv' /\ SealedInv'
  BY <1>1, <1>2 DEF PagesTyped, ReadInv, SealedInv
<1>6. Within(Sends, page, others)'
  <2>1. Sends' = Sends
    BY <1>1 DEF Sends
  <2> QED
    BY <1>1, <2>1
<1> QED
  BY <1>4, <1>5, <1>6 DEF Inv

-----------------------------------------------------------------------------
(* Scans                                                                   *)

\* Scans of other clients and what the log, the states and the opened messages
\* are do not matter to a step of c's scan alone.
LEMMA ScanStepOf ==
    ASSUME Inv, NEW c \in Client, UNCHANGED <<store, opened, outbox, hub, others, sealed, drawn, page>>,
           scan' \in [Client -> Scan \union {None}], \A a \in Client : a # c => scan'[a] = scan[a],
           view' \in [Client -> Seq(1..Len(hub))],
           scan'[c] # None => /\ scan'[c].upTo <= Len(hub)
                              /\ scan'[c].pos \in 1..(scan'[c].upTo + 1)
                              /\ scan'[c].found \in Seq(1..Len(hub)),
           Scanned(opened[c], scan'[c], hub, c),
           \A f \in 1..Len(hub) :
               hub[f].to = c /\ (scan[c] # None => scan[c].pos <= f) /\ scan'[c] # None
                   => scan'[c].pos <= f
    PROVE  Inv'
<1>1. LogTyped /\ PagesTyped /\ SealedInv /\ ReadInv /\ Within(Sends, page, others)
  BY DEF Inv
<1>2. LogTyped'
  BY <1>1, LogSame DEF LogTyped
<1>3. PagesTyped'
  <2>1. ASSUME NEW a \in Client, scan'[a] # None
        PROVE  /\ scan'[a].upTo <= Len(hub)
               /\ scan'[a].pos \in 1..(scan'[a].upTo + 1)
               /\ scan'[a].found \in Seq(1..Len(hub))
    <3>1. CASE a = c
      BY <2>1, <3>1
    <3>2. CASE a # c
      BY <1>1, <2>1, <3>2 DEF PagesTyped
    <3> QED
      BY <3>1, <3>2
  <2> QED
    BY <1>1, <2>1 DEF PagesTyped
<1>4. ReadInv'
  <2> SUFFICES ASSUME NEW a \in Client PROVE Reading(store'[a], opened'[a], scan'[a], hub', sealed', a)
    BY DEF ReadInv
  <2>1. Reading(store[a], opened[a], scan[a], hub, sealed, a)
    BY <1>1 DEF ReadInv
  <2>2. CASE a = c
    <3>1. Reading(store[c], opened[c], scan'[c], hub, sealed, c)
      BY <2>1, <2>2, ScanReads
    <3> QED
      BY <2>2, <3>1
  <2>3. CASE a # c
    BY <2>1, <2>3
  <2> QED
    BY <2>2, <2>3
<1>5. SealedInv' /\ Within(Sends, page, others)'
  BY <1>1, SealedSame, WithinSame
<1> QED
  BY <1>2, <1>3, <1>4, <1>5 DEF Inv

LEMMA ScanOf ==
    ASSUME LogTyped, PagesTyped, NEW c \in Client
    PROVE  /\ hub \in Seq(sealed) /\ Len(hub) \in Nat
           /\ scan \in [Client -> Scan \union {None}]
           /\ scan[c] # None =>
                  /\ scan[c] \in Scan /\ scan[c].upTo \in Nat /\ scan[c].upTo <= Len(hub)
                  /\ scan[c].pos \in Nat /\ scan[c].pos \in 1..(scan[c].upTo + 1)
                  /\ scan[c].found \in Seq(1..Len(hub))
<1>1. hub \in Seq(sealed) /\ scan \in [Client -> Scan \union {None}] /\ Len(hub) \in Nat
  BY DEF LogTyped, PagesTyped
<1>2. ASSUME scan[c] # None
      PROVE  /\ scan[c] \in Scan /\ scan[c].upTo \in Nat /\ scan[c].pos \in Nat
             /\ scan[c].upTo <= Len(hub) /\ scan[c].pos \in 1..(scan[c].upTo + 1)
             /\ scan[c].found \in Seq(1..Len(hub))
  <2>1. scan[c] \in Scan
    BY <1>1, <1>2
  <2> QED
    BY <1>2, <2>1 DEF PagesTyped, Scan
<1> QED
  BY <1>1, <1>2

LEMMA ScanningFacts ==
    ASSUME LogTyped, PagesTyped, NEW c \in Client, NEW m, Scanning(c, m)
    PROVE  /\ scan[c] # None /\ scan[c].pos \in 1..Len(hub) /\ scan[c].pos <= scan[c].upTo
           /\ m = hub[scan[c].pos] /\ m \in sealed /\ m \in Message
<1>1. scan[c] # None /\ scan[c].pos <= scan[c].upTo /\ m = hub[scan[c].pos]
  BY DEF Scanning
<1>2. /\ hub \in Seq(sealed) /\ Len(hub) \in Nat /\ scan[c].upTo \in Nat /\ scan[c].upTo <= Len(hub)
      /\ scan[c].pos \in 1..(scan[c].upTo + 1)
  BY <1>1, ScanOf
<1>3. scan[c].pos \in 1..Len(hub)
  BY <1>1, <1>2
<1>4. m \in sealed
  BY <1>1, <1>2, <1>3
<1>5. m \in Message
  BY <1>4 DEF LogTyped
<1> QED
  BY <1>1, <1>3, <1>4, <1>5

LEMMA StartScanStep ==
    ASSUME Inv, NEW c \in Client, StartScan(c)
    PROVE  Inv'
<1> DEFINE new == [upTo |-> Len(hub), pos |-> 1, found |-> <<>>, others |-> others]
<1>1. /\ scan[c] = None /\ scan' = [scan EXCEPT ![c] = new]
      /\ UNCHANGED <<store, view, opened, outbox, hub, others, sealed, drawn, page>>
  BY DEF StartScan
<1>2. LogTyped /\ PagesTyped
  BY DEF Inv
<1>3. Len(hub) \in Nat /\ scan \in [Client -> Scan \union {None}]
  BY <1>2, ScanOf
<1>4. /\ new \in Scan /\ new.upTo = Len(hub) /\ new.pos = 1 /\ new.found = <<>>
      /\ new.found \in Seq(1..Len(hub))
  <2>1. others \subseteq Other
    BY <1>2 DEF LogTyped
  <2>2. <<>> \in Seq(Nat) /\ <<>> \in Seq(1..Len(hub))
    OBVIOUS
  <2> QED
    BY <1>3, <2>1, <2>2 DEF Scan
<1> HIDE DEF new
<1>5. /\ scan' \in [Client -> Scan \union {None}] /\ scan'[c] = new
      /\ \A a \in Client : a # c => scan'[a] = scan[a]
  BY <1>1, <1>3, <1>4
<1>6. /\ scan'[c].upTo <= Len(hub) /\ scan'[c].pos \in 1..(scan'[c].upTo + 1)
      /\ scan'[c].found \in Seq(1..Len(hub))
  <2>1. Len(hub) <= Len(hub) /\ 1 \in 1..(Len(hub) + 1)
    BY <1>3
  <2> QED
    BY <1>4, <1>5, <2>1
<1>7. Scanned(opened[c], scan'[c], hub, c)
  BY <1>4, <1>5 DEF Scanned
<1>8. view' \in [Client -> Seq(1..Len(hub))]
  BY <1>1, <1>2 DEF PagesTyped
<1>9. \A f \in 1..Len(hub) : scan'[c].pos <= f
  BY <1>4, <1>5
<1> QED
  BY <1>1, <1>5, <1>6, <1>7, <1>8, <1>9, ScanStepOf

LEMMA NotMineStep ==
    ASSUME Inv, NEW c \in Client, NEW m, NotMine(c, m)
    PROVE  Inv'
<1> DEFINE new == [scan[c] EXCEPT !.pos = @ + 1]
<1>1. /\ Scanning(c, m) /\ m.to # c /\ scan' = [scan EXCEPT ![c] = new]
      /\ UNCHANGED <<store, view, opened, outbox, hub, others, sealed, drawn, page>>
  BY DEF NotMine
<1>2. LogTyped /\ PagesTyped /\ ReadInv
  BY DEF Inv
<1>3. /\ scan[c] # None /\ scan[c].pos \in 1..Len(hub) /\ scan[c].pos <= scan[c].upTo
      /\ m = hub[scan[c].pos]
  BY <1>1, <1>2, ScanningFacts
<1>4. /\ Len(hub) \in Nat /\ scan \in [Client -> Scan \union {None}]
      /\ scan[c] \in Scan /\ scan[c].upTo \in Nat /\ scan[c].upTo <= Len(hub)
      /\ scan[c].pos \in Nat /\ scan[c].pos \in 1..(scan[c].upTo + 1)
      /\ scan[c].found \in Seq(1..Len(hub))
  BY <1>2, <1>3, ScanOf
<1>5. /\ new \in Scan /\ new.upTo = scan[c].upTo /\ new.pos = scan[c].pos + 1
      /\ new.found = scan[c].found
  BY <1>4 DEF Scan
<1> HIDE DEF new
<1>6. /\ scan' \in [Client -> Scan \union {None}] /\ scan'[c] = new
      /\ \A a \in Client : a # c => scan'[a] = scan[a]
  BY <1>1, <1>4, <1>5
<1>7. /\ scan'[c].upTo <= Len(hub) /\ scan'[c].pos \in 1..(scan'[c].upTo + 1)
      /\ scan'[c].found \in Seq(1..Len(hub))
  <2>1. scan[c].pos + 1 \in 1..(scan[c].upTo + 1)
    BY <1>3, <1>4
  <2> QED
    BY <1>4, <1>5, <1>6, <2>1
<1>8. Scanned(opened[c], scan'[c], hub, c)
  <2>1. Scanned(opened[c], scan[c], hub, c)
    BY <1>2 DEF ReadInv, Reading
  <2> SUFFICES ASSUME NEW i \in 1..(scan'[c].pos - 1), hub[i].to = c
               PROVE  \E t \in 1..Len(opened[c]) : opened[c][t] = i
    BY DEF Scanned
  <2>2. i \in 1..(scan[c].pos - 1) \/ i = scan[c].pos
    BY <1>4, <1>5, <1>6
  <2> QED
    BY <1>1, <1>3, <2>1, <2>2 DEF Scanned
<1>9. view' \in [Client -> Seq(1..Len(hub))]
  BY <1>1, <1>2 DEF PagesTyped
<1>10. ASSUME NEW f \in 1..Len(hub), hub[f].to = c, scan[c].pos <= f PROVE scan'[c].pos <= f
  <2>1. f # scan[c].pos
    BY <1>1, <1>3, <1>10
  <2> QED
    BY <1>4, <1>5, <1>6, <1>10, <2>1
<1> QED
  BY <1>1, <1>3, <1>6, <1>7, <1>8, <1>9, <1>10, ScanStepOf

LEMMA FinishStep ==
    ASSUME Inv, NEW c \in Client, Finish(c)
    PROVE  Inv'
<1>1. /\ scan[c] # None
      /\ view' = [view EXCEPT ![c] = scan[c].found] /\ scan' = [scan EXCEPT ![c] = None]
      /\ UNCHANGED <<store, opened, outbox, hub, others, sealed, drawn, page>>
  BY DEF Finish
<1>2. LogTyped /\ PagesTyped
  BY DEF Inv
<1>3. scan \in [Client -> Scan \union {None}] /\ scan[c].found \in Seq(1..Len(hub))
  BY <1>1, <1>2, ScanOf
<1>4. /\ scan' \in [Client -> Scan \union {None}] /\ scan'[c] = None
      /\ \A a \in Client : a # c => scan'[a] = scan[a]
  BY <1>1, <1>3
<1>5. view' \in [Client -> Seq(1..Len(hub))]
  BY <1>1, <1>2, <1>3 DEF PagesTyped
<1>6. Scanned(opened[c], scan'[c], hub, c)
  BY <1>4 DEF Scanned
<1> QED
  BY <1>1, <1>4, <1>5, <1>6, ScanStepOf

LEMMA AbortAtOtherStep ==
    ASSUME Inv, NEW c \in Client, AbortAtOther(c)
    PROVE  Inv'
<1>1. /\ scan' = [scan EXCEPT ![c] = None]
      /\ UNCHANGED <<store, view, opened, outbox, hub, others, sealed, drawn, page>>
  BY DEF AbortAtOther
<1>2. LogTyped /\ PagesTyped
  BY DEF Inv
<1>3. /\ scan' \in [Client -> Scan \union {None}] /\ scan'[c] = None
      /\ \A a \in Client : a # c => scan'[a] = scan[a]
  BY <1>1, <1>2 DEF PagesTyped
<1>4. view' \in [Client -> Seq(1..Len(hub))]
  BY <1>1, <1>2 DEF PagesTyped
<1>5. Scanned(opened[c], scan'[c], hub, c)
  BY <1>3 DEF Scanned
<1> QED
  BY <1>1, <1>3, <1>4, <1>5, ScanStepOf

LEMMA PairIsNoMatter ==
    ASSUME NEW s \in RatchetState, NEW m, NEW d, NEW e
    PROVE  Opens(s, m, d) <=> Opens(s, m, e)
<1>1. InChain(s, m, d) = s /\ InChain(s, m, e) = s
  BY StateFacts
<1> QED
  BY <1>1 DEF Opens, BeforeExpected, SkipLimitExceeded, AtMessage

\* Receiving leaves alone what is sent.
LEMMA ReceivingSealed ==
    ASSUME LogTyped, SealedInv, NEW c \in Client, NEW p \in Client,
           UNCHANGED <<sealed, page>>, More(drawn, drawn'),
           NEW s, Session(s, c, p, drawn'),
           NEW t \in RatchetState, SameBut(s, t, {"recvChainKey", "recvCount", "skippedKeys"}),
           t.recvChainKey.way = s.recvChainKey.way,
           store' = [store EXCEPT ![c][p] = t]
    PROVE  SealedInv'
<1>1. /\ t.rootKey = s.rootKey /\ t.dhPair = s.dhPair /\ t.sendCount = s.sendCount
      /\ t.sendChainKey = s.sendChainKey
  BY DEF SameBut
<1>2. StateOK(s, c, p, drawn') /\ SendOK(s, c, p, sealed, page)
  BY DEF Session
<1>3. SendOK(t, c, p, sealed', page)
  BY <1>1, <1>2 DEF SendOK
<1>h. /\ page' = page /\ t.rootKey = s.rootKey /\ t.dhPair = s.dhPair
      /\ t.sendChainKey = KeyAt(t.rootKey, t.sendChainKey.way, t.sendCount)
      /\ t.sendChainKey.way = s.sendChainKey.way /\ t.recvChainKey.way = s.recvChainKey.way
      /\ store' = [store EXCEPT ![c][p] = t]
      /\ IsFiniteSet(sealed') /\ TalkOK(sealed') /\ sealed \subseteq sealed'
      /\ SendOK(t, c, p, sealed', page)
      /\ \A x \in sealed' \ sealed : /\ x.from = c /\ x.to = p /\ x.page = page[c]
                                       /\ x.dhPub = s.dhPair
                                       /\ OnChain(x, s.rootKey, s.sendChainKey.way)
  BY <1>1, <1>2, <1>3 DEF SealedInv, StateOK
<1>s. Session(s, c, p, drawn') /\ t \in RatchetState
  OBVIOUS
<1> QED
  BY ONLY LogTyped, SealedInv, c \in Client, p \in Client, More(drawn, drawn'),
          <1>h, <1>s, SealedStep, Zenon

\* Who finds no state makes one of the message.
LEMMA MadeOfMessage ==
    ASSUME LogTyped, SealedInv, NEW c \in Client, NEW m \in sealed, m.to = c,
           store[c][m.from] = None, NEW s, s = ReceivingState(c, m)
    PROVE  /\ s \in RatchetState /\ s.dhPair = KeyPair(c, drawn[c] + 1)
           /\ s.sendChainKey = KeyAt(s.rootKey, s.sendChainKey.way, s.sendCount)
           /\ Sides(s, c, m.from) /\ s.sendChainKey.way = 2
           /\ FreshState(s, sealed, hub, c, m.from)
<1> DEFINE p == m.from
           d == KeyPair(c, drawn[c] + 1)
           root == <<p, c, m.eph>>
<1>1. p \in Client /\ m.eph \in Pair
  <2>1. m \in Message
    BY DEF SealedInv, TalkOK
  <2> QED
    BY <2>1, MessageFacts
<1>2. d \in Pair
  <2>1. drawn[c] \in Nat
    BY DEF LogTyped
  <2> QED
    BY <2>1 DEF KeyPair, Pair
<1>d. d = KeyPair(c, drawn[c] + 1)
  OBVIOUS
<1>3. s = initRatchet(SessionKey(p, c, m.eph), d, FALSE)
  BY DEF ReceivingState
<1> HIDE DEF p, d
<1>4. root \in Root /\ s = NewState(root, d, 2, 1)
  BY ONLY c \in Client, <1>1, <1>3, InitFacts
<1>5. root[1] = p /\ root[2] = c
  OBVIOUS
<1> HIDE DEF root
<1>6. /\ s \in RatchetState /\ s.rootKey = root /\ s.dhPair = d
      /\ s.sendCount = 0 /\ s.recvCount = 0 /\ s.skippedKeys = <<>>
      /\ s.sendChainKey = KeyAt(s.rootKey, 2, 0)
      /\ s.recvChainKey = KeyAt(s.rootKey, 1, 0)
  BY <1>2, <1>4, NewStateFacts
<1>7. s.sendChainKey.way = 2 /\ s.recvChainKey.way = 1 /\ Sides(s, c, p)
  <2>1. s.sendChainKey.way = 2 /\ s.recvChainKey.way = 1
    BY <1>6, KeyParts
  <2> QED
    BY <1>5, <1>6, <2>1 DEF Sides, Side
<1>8. FreshState(s, sealed, hub, c, p)
  BY <1>6, <1>7, FreshFacts
<1> QED
  BY <1>6, <1>7, <1>8, <1>d DEF p

\* The state an event is decrypted with.
LEMMA ReceivingFacts ==
    ASSUME LogTyped, SealedInv, NEW c \in Client, NEW m \in sealed, m.to = c,
           drawn' = [drawn EXCEPT ![c] = @ + Draws(c, m)], NEW s, s = ReceivingState(c, m)
    PROVE  /\ drawn' \in [Client -> Nat] /\ More(drawn, drawn')
           /\ Session(s, c, m.from, drawn')
           /\ IF store[c][m.from] # None THEN s = store[c][m.from]
              ELSE FreshState(s, sealed, hub, c, m.from)
<1> DEFINE p == m.from
           k == Draws(c, m)
<1>1. p \in Client
  <2>1. m \in Message
    BY DEF SealedInv, TalkOK
  <2> QED
    BY <2>1, MessageFacts
<1>2. k \in Nat
  BY DEF Draws
<1>d. drawn' = [drawn EXCEPT ![c] = @ + k]
  OBVIOUS
<1> HIDE DEF k
<1>3. drawn' \in [Client -> Nat] /\ More(drawn, drawn') /\ drawn'[c] = drawn[c] + k /\ drawn[c] \in Nat
  BY <1>2, <1>d, DrawnFacts
<1> HIDE DEF p
<1>4. CASE store[c][p] # None
  <2>1. s = store[c][p]
    BY <1>4 DEF ReceivingState, p
  <2>2. Session(s, c, p, drawn')
    BY <1>1, <1>3, <1>4, <2>1, ExistingSession
  <2> QED
    BY <1>3, <1>4, <2>1, <2>2 DEF p
<1>5. CASE store[c][p] = None
  <2>1. k = 1
    BY <1>5 DEF Draws, k, p
  <2>2. /\ s \in RatchetState /\ s.dhPair = KeyPair(c, drawn[c] + 1)
        /\ s.sendChainKey = KeyAt(s.rootKey, s.sendChainKey.way, s.sendCount)
        /\ Sides(s, c, p) /\ s.sendChainKey.way = 2
        /\ FreshState(s, sealed, hub, c, p)
    BY <1>5, MadeOfMessage DEF p
  <2>3. 1 \in Nat \ {0} /\ 1 \in 1..1 /\ drawn[c] + 1 <= drawn'[c]
    BY <1>1, <1>3, <2>1
  <2>4. Session(s, c, p, drawn')
    BY ONLY LogTyped, SealedInv, c \in Client, <1>1, <1>3, <1>5, <2>2, <2>3, NewSession
  <2> QED
    BY <1>3, <1>5, <2>2, <2>4 DEF p
<1> QED
  BY <1>4, <1>5

LEMMA DecryptStep ==
    ASSUME Inv, NEW c \in Client, NEW m, Decrypt(c, m)
    PROVE  Inv'
<1> DEFINE p == m.from
           s == ReceivingState(c, m)
           pair == KeyPair(c, drawn[c] + 1)
           t == Opened(s, m, pair)
           sc == scan[c]
           new == [sc EXCEPT !.pos = @ + 1, !.found = Append(@, sc.pos)]
           op == Append(opened[c], sc.pos)
<1>1. /\ Scanning(c, m) /\ m.to = c /\ Opens(s, m, pair)
      /\ store' = [store EXCEPT ![c][p] = t]
      /\ opened' = [opened EXCEPT ![c] = op]
      /\ drawn' = [drawn EXCEPT ![c] = @ + Draws(c, m)]
      /\ UNCHANGED <<view, outbox, hub, others, sealed, page>>
  BY DEF Decrypt, CanOpen
<1>2. LogTyped /\ PagesTyped /\ SealedInv /\ ReadInv /\ Within(Sends, page, others) /\ TalkOK(sealed)
  BY DEF Inv, SealedInv
<1>3. /\ sc # None /\ sc.pos \in 1..Len(hub) /\ sc.pos <= sc.upTo
      /\ m = hub[sc.pos] /\ m \in sealed /\ m \in Message /\ p \in Client
  BY <1>1, <1>2, ScanningFacts, MessageFacts
<1>4. /\ hub \in Seq(sealed) /\ Len(hub) \in Nat /\ scan \in [Client -> Scan \union {None}]
      /\ sc \in Scan /\ sc.upTo \in Nat /\ sc.upTo <= Len(hub)
      /\ sc.pos \in Nat /\ sc.pos \in 1..(sc.upTo + 1) /\ sc.found \in Seq(1..Len(hub))
  BY <1>2, <1>3, ScanOf
<1>5. scan' = [scan EXCEPT ![c] = new]
  BY <1>4 DEF Decrypt
<1> HIDE DEF sc
<1>6. /\ new \in Scan /\ new.upTo = sc.upTo /\ new.pos = sc.pos + 1
      /\ new.found \in Seq(1..Len(hub))
  <2> DEFINE found == Append(sc.found, sc.pos)
  <2>1. found \in Seq(1..Len(hub)) /\ found \in Seq(Nat)
    BY <1>3, <1>4 DEF Scan
  <2>2. new = [sc EXCEPT !.pos = sc.pos + 1, !.found = found]
    OBVIOUS
  <2> HIDE DEF found, new
  <2>3. sc.pos + 1 \in Nat
    BY <1>4
  <2> QED
    BY <1>4, <2>1, <2>2, <2>3 DEF Scan
<1>n. sc = scan[c] /\ t = Opened(s, m, pair) /\ s = ReceivingState(c, m) /\ op = Append(opened[c], sc.pos) /\ p = m.from
  BY DEF sc
<1> HIDE DEF new, t, s, pair, op, p
<1>7. /\ drawn' \in [Client -> Nat] /\ More(drawn, drawn') /\ Session(s, c, p, drawn')
      /\ IF store[c][p] # None THEN s = store[c][p] ELSE FreshState(s, sealed, hub, c, p)
  BY <1>1, <1>2, <1>3, <1>n, ReceivingFacts
<1>8. /\ Typed(store[c], opened[c], sc, hub, sealed)
      /\ Reading(store[c], opened[c], sc, hub, sealed, c)
  BY <1>2, <1>n, RowTyped DEF ReadInv
<1>9. ReceiveOK(s, sealed, hub, c, p)
  <2>1. CASE store[c][p] # None
    BY <1>3, <1>7, <1>8, <2>1 DEF Reading, RowOK
  <2>2. CASE store[c][p] = None
    BY <1>7, <2>2 DEF FreshState
  <2> QED
    BY <2>1, <2>2
<1>10. /\ t \in RatchetState
       /\ SameBut(s, t, {"recvChainKey", "recvCount", "skippedKeys"})
       /\ t.recvChainKey.way = s.recvChainKey.way
  <2>1. /\ Ready(s, s.recvChainKey.way)
        /\ CacheOK(s.skippedKeys, sealed, s.rootKey, s.recvChainKey.way, s.recvCount)
    BY <1>9 DEF ReceiveOK
  <2>2. /\ Ready(t, s.recvChainKey.way)
        /\ SameBut(s, t, {"recvChainKey", "recvCount", "skippedKeys"})
    BY <1>1, <1>2, <1>3, <1>n, <2>1, OpenedAfter
  <2> QED
    BY <2>2, ReadyWay DEF Ready
<1>11. SealedInv'
  <2>1. store' = [store EXCEPT ![c][p] = t] /\ UNCHANGED <<sealed, page>>
    BY <1>1
  <2> QED
    BY ONLY <1>2, <1>3, c \in Client, <1>7, <1>10, <2>1, ReceivingSealed
<1>12. /\ store' \in [Client -> [Client -> RatchetState \union {None}]]
       /\ store'[c] = [store[c] EXCEPT ![p] = t]
       /\ \A b \in Client : b # c => store'[b] = store[b]
  <2>1. store' = [store EXCEPT ![c][p] = t]
    BY <1>1
  <2> QED
    BY ONLY <1>2, <1>3, c \in Client, <1>10, <2>1, StoreChange
<1>13. LogTyped'
  BY <1>1, <1>2, <1>7, <1>12, LogSame
<1>14. /\ scan' \in [Client -> Scan \union {None}] /\ scan'[c] = new
       /\ \A a \in Client : a # c => scan'[a] = scan[a]
  BY <1>4, <1>5, <1>6
<1>15. /\ opened \in [Client -> Seq(1..Len(hub))] /\ op \in Seq(1..Len(hub))
       /\ opened'[c] = op /\ \A a \in Client : a # c => opened'[a] = opened[a]
       /\ opened' \in [Client -> Seq(1..Len(hub))]
  <2>1. opened \in [Client -> Seq(1..Len(hub))]
    BY <1>2 DEF PagesTyped
  <2>2. op \in Seq(1..Len(hub))
    BY <1>3, <1>n, <2>1, AppendFacts
  <2> QED
    BY <1>1, <2>1, <2>2
<1>16. PagesTyped'
  <2>1. ASSUME NEW a \in Client, scan'[a] # None
        PROVE  /\ scan'[a].upTo <= Len(hub)
               /\ scan'[a].pos \in 1..(scan'[a].upTo + 1)
               /\ scan'[a].found \in Seq(1..Len(hub))
    <3>1. CASE a = c
      <4>1. sc.pos + 1 \in 1..(sc.upTo + 1)
        BY <1>3, <1>4
      <4> QED
        BY <1>4, <1>6, <1>14, <3>1, <4>1
    <3>2. CASE a # c
      BY <1>2, <1>14, <2>1, <3>2 DEF PagesTyped
    <3> QED
      BY <3>1, <3>2
  <2> QED
    BY <1>1, <1>2, <1>14, <1>15, <2>1 DEF PagesTyped
<1>17. Reading(store'[c], op, new, hub, sealed, c)
  <2>1. sc.pos <= Len(hub) /\ new.pos = sc.pos + 1
    BY <1>3, <1>4, <1>6
  <2>2. Opens(s, m, pair) /\ t = Opened(s, m, pair)
    BY <1>1, <1>n
  <2>3. Reads(store[c], opened[c], sc, sealed, hub, c, m, s, t, store'[c], op, new)
    BY <1>1, <1>3, <1>7, <1>12, <1>n, <2>1, <2>2 DEF Reads
  <2> QED
    BY ONLY <1>2, <1>8, <2>3, c \in Client, DecryptingReads
<1>18. ReadInv'
  <2> SUFFICES ASSUME NEW a \in Client PROVE Reading(store'[a], opened'[a], scan'[a], hub', sealed', a)
    BY DEF ReadInv
  <2>1. CASE a = c
    BY <1>1, <1>14, <1>15, <1>17, <2>1
  <2>2. CASE a # c
    BY <1>1, <1>2, <1>12, <1>14, <1>15, <2>2 DEF ReadInv
  <2> QED
    BY <2>1, <2>2
<1>19. Within(Sends, page, others)'
  BY <1>1, <1>2, WithinSame
<1> QED
  BY <1>11, <1>13, <1>16, <1>18, <1>19 DEF Inv

LEMMA AbortStep ==
    ASSUME Inv, NEW c \in Client, NEW m, Abort(c, m)
    PROVE  Inv'
<1> DEFINE p == m.from
           s == store[c][p]
           pair == KeyPair(c, drawn[c] + 1)
           t == Left(s, m, None)
           sc == scan[c]
<1>1. /\ Scanning(c, m) /\ m.to = c /\ ~CanOpen(c, m)
      /\ store' = IF s = None THEN store ELSE [store EXCEPT ![c][p] = t]
      /\ scan' = [scan EXCEPT ![c] = None]
      /\ UNCHANGED <<view, opened, outbox, hub, others, sealed, drawn, page>>
  BY DEF Abort
<1>2. LogTyped /\ PagesTyped /\ SealedInv /\ ReadInv /\ Within(Sends, page, others) /\ TalkOK(sealed)
  BY DEF Inv, SealedInv
<1>3. /\ sc # None /\ sc.pos \in 1..Len(hub) /\ sc.pos <= sc.upTo
      /\ m = hub[sc.pos] /\ m \in sealed /\ m \in Message /\ p \in Client
  BY <1>1, <1>2, ScanningFacts, MessageFacts
<1>4. /\ scan' \in [Client -> Scan \union {None}] /\ scan'[c] = None
      /\ \A a \in Client : a # c => scan'[a] = scan[a]
  <2>1. scan \in [Client -> Scan \union {None}]
    BY <1>2 DEF PagesTyped
  <2> QED
    BY <1>1, <2>1
<1>5. view' \in [Client -> Seq(1..Len(hub))]
  BY <1>1, <1>2 DEF PagesTyped
<1>6. Scanned(opened[c], scan'[c], hub, c)
  BY <1>4 DEF Scanned
<1>7. CASE s = None
  <2>1. store' = store
    BY <1>1, <1>7
  <2> QED
    BY <1>1, <1>4, <1>5, <1>6, <2>1, ScanStepOf
<1>8. CASE s # None
  <2>n. s = store[c][p] /\ t = Left(s, m, None) /\ sc = scan[c] /\ p = m.from
    OBVIOUS
  <2>1. store' = [store EXCEPT ![c][p] = t] /\ UNCHANGED <<sealed, page>>
    BY <1>1, <1>8
  <2>2. ~Opens(s, m, pair)
    BY <1>1, <1>8 DEF CanOpen, ReceivingState
  <2> HIDE DEF s, t, sc, p, pair
  <2>3. s \in RatchetState
    BY <1>2, <1>3, <1>8, <2>n, StoreFacts
  <2>4. ~Opens(s, m, None)
    BY <2>2, <2>3, PairIsNoMatter
  <2>5. /\ Typed(store[c], opened[c], sc, hub, sealed)
        /\ Reading(store[c], opened[c], sc, hub, sealed, c)
    BY <1>2, <2>n, RowTyped DEF ReadInv
  <2>6. ReceiveOK(s, sealed, hub, c, p)
    BY <1>3, <1>8, <2>5, <2>n DEF Reading, RowOK
  <2>7. t \in RatchetState /\ SameBut(s, t, {"skippedKeys"})
    <3>1. Ready(s, s.recvChainKey.way)
      BY <2>6 DEF ReceiveOK
    <3> QED
      BY ONLY <1>3, <2>4, <2>n, <3>1, LeftFacts
  <2>8. /\ SameBut(s, t, {"recvChainKey", "recvCount", "skippedKeys"})
        /\ t.recvChainKey.way = s.recvChainKey.way
    BY <2>7 DEF SameBut
  <2>9. More(drawn, drawn') /\ drawn' \in [Client -> Nat]
    <3>1. drawn \in [Client -> Nat] /\ drawn' = drawn
      BY <1>1, <1>2 DEF LogTyped
    <3>2. \A b \in Client : drawn[b] \in Nat
      BY <3>1
    <3>3. \A b \in Client : drawn[b] <= drawn[b]
      BY <3>2
    <3> QED
      BY <3>1, <3>2, <3>3 DEF More
  <2>10. Session(s, c, p, drawn')
    BY <1>2, <1>3, <1>8, <2>9, <2>n, ExistingSession
  <2>11. SealedInv'
    BY ONLY <1>2, <1>3, c \in Client, <2>1, <2>7, <2>8, <2>9, <2>10, ReceivingSealed
  <2>12. /\ store' \in [Client -> [Client -> RatchetState \union {None}]]
         /\ store'[c] = [store[c] EXCEPT ![p] = t]
         /\ \A b \in Client : b # c => store'[b] = store[b]
    BY ONLY <1>2, <1>3, c \in Client, <2>1, <2>7, StoreChange
  <2>13. LogTyped'
    BY <1>1, <1>2, <2>9, <2>12, LogSame
  <2>14. PagesTyped'
    BY <1>1, <1>2, <1>4, <1>5 DEF PagesTyped
  <2>15. Reading(store'[c], opened[c], None, hub, sealed, c)
    <3>1. sc.pos <= Len(hub)
      BY <1>2, <1>3 DEF LogTyped
    <3>2. Rejects(store[c], sc, hub, c, m, s, t, store'[c])
      BY <1>1, <1>3, <1>8, <2>4, <2>n, <2>12, <3>1 DEF Rejects
    <3> QED
      BY ONLY <1>2, <2>5, <3>2, c \in Client, RejectingReads
  <2>16. ReadInv'
    <3> SUFFICES ASSUME NEW a \in Client PROVE Reading(store'[a], opened'[a], scan'[a], hub', sealed', a)
      BY DEF ReadInv
    <3>1. CASE a = c
      BY <1>1, <1>4, <2>15, <3>1
    <3>2. CASE a # c
      BY <1>1, <1>2, <1>4, <2>12, <3>2 DEF ReadInv
    <3> QED
      BY <3>1, <3>2
  <2>17. Within(Sends, page, others)'
    BY <1>1, <1>2, WithinSame
  <2> QED
    BY <2>11, <2>13, <2>14, <2>16, <2>17 DEF Inv
<1> QED
  BY <1>7, <1>8

-----------------------------------------------------------------------------

LEMMA ReloadSealed ==
    ASSUME LogTyped, SealedInv, NEW c \in Client, UNCHANGED <<sealed, drawn>>,
           page' = [page EXCEPT ![c] = @ + 1],
           store' = [store EXCEPT ![c] = [p \in Client |-> None]]
    PROVE  SealedInv'
<1>1. /\ page[c] \in Nat /\ page'[c] = page[c] + 1 /\ \A a \in Client : page[a] \in Nat
      /\ \A a \in Client : a # c => page'[a] = page[a]
  BY DEF LogTyped
<1>2. /\ \A p \in Client : store'[c][p] = None
      /\ \A a \in Client : a # c => store'[a] = store[a]
  BY DEF LogTyped
<1>3. ASSUME NEW m \in sealed
      PROVE  m.page \in Nat /\ m.from \in Client /\ m.page <= page[m.from] /\ m.page <= page'[m.from]
  <2>1. m.page \in Nat /\ m.from \in Client /\ m.page <= page[m.from]
    <3>1. MadeOf(m, drawn, page) /\ m \in Message
      BY DEF SealedInv, LogTyped
    <3> QED
      BY <3>1, MessageFacts DEF MadeOf
  <2>2. page[m.from] <= page'[m.from] /\ page'[m.from] \in Nat /\ page[m.from] \in Nat
    <3>1. CASE m.from = c
      BY <1>1, <3>1
    <3>2. CASE m.from # c
      <4>1. page'[m.from] = page[m.from] /\ page[m.from] \in Nat
        BY <1>1, <2>1, <3>2
      <4> QED
        BY <4>1
    <3> QED
      BY <3>1, <3>2
  <2>3. m.page <= page'[m.from]
    BY <2>1, <2>2
  <2> QED
    BY <2>1, <2>3
<1>4. \A m \in sealed' : MadeOf(m, drawn', page')
  BY <1>3 DEF SealedInv, MadeOf
<1>5. ASSUME NEW a \in Client, NEW b \in Client, store'[a][b] = None, NEW m \in sealed
      PROVE  ~OfPage(m, a, b, page')
  <2>1. CASE a = c
    <3> SUFFICES ASSUME m.from = c, m.page = page'[c] PROVE FALSE
      BY <2>1 DEF OfPage
    <3>1. m.page <= page[c] /\ m.page = page[c] + 1
      BY <1>1, <1>3
    <3> QED
      BY <1>1, <3>1
  <2>2. CASE a # c
    BY <1>1, <1>2, <1>5, <2>2 DEF SealedInv, OfPage
  <2> QED
    BY <2>1, <2>2
<1>6. ASSUME NEW a \in Client, NEW b \in Client, store'[a][b] # None
      PROVE  StateOK(store'[a][b], a, b, drawn) /\ SendOK(store'[a][b], a, b, sealed, page')
  <2>1. a # c
    BY <1>2, <1>6
  <2>2. page'[a] = page[a] /\ store'[a] = store[a]
    BY <1>1, <1>2, <2>1
  <2>3. StateOK(store[a][b], a, b, drawn) /\ SendOK(store[a][b], a, b, sealed, page)
    BY <1>6, <2>2 DEF SealedInv
  <2> QED
    BY <2>2, <2>3 DEF SendOK, OfPage
<1>7. ASSUME NEW a \in Client, NEW b \in Client, NEW q \in Client, store'[a][b] # None, store'[a][q] # None,
             store'[a][b].dhPair = store'[a][q].dhPair
      PROVE  b = q
  <2>1. store'[a] = store[a]
    BY <1>2, <1>7
  <2> QED
    BY <1>7, <2>1 DEF SealedInv
<1>8. IsFiniteSet(sealed') /\ TalkOK(sealed')
  BY DEF SealedInv
<1> QED
  BY <1>4, <1>5, <1>6, <1>7, <1>8 DEF SealedInv

LEMMA ReloadStep ==
    ASSUME Inv, NEW c \in Client, Reload(c)
    PROVE  Inv'
<1>1. /\ Within(Sends, [page EXCEPT ![c] = @ + 1], others) /\ page' = [page EXCEPT ![c] = @ + 1]
      /\ store' = [store EXCEPT ![c] = [p \in Client |-> None]]
      /\ scan' = [scan EXCEPT ![c] = None]
      /\ view' = [view EXCEPT ![c] = <<>>]
      /\ opened' = [opened EXCEPT ![c] = <<>>]
      /\ outbox' = {m \in outbox : m.from # c}
      /\ UNCHANGED <<hub, others, sealed, drawn>>
  BY DEF Reload
<1>2. LogTyped /\ PagesTyped /\ SealedInv /\ ReadInv
  BY DEF Inv
<1>3. SealedInv'
  BY <1>1, <1>2, ReloadSealed
<1>4. Within(Sends, page, others)'
  BY <1>1 DEF Sends
<1>5. LogTyped'
  <2>1. page' \in [Client -> Nat]
    BY <1>1, <1>2 DEF LogTyped
  <2>2. store' \in [Client -> [Client -> RatchetState \union {None}]]
    BY <1>1, <1>2 DEF LogTyped
  <2>3. outbox' \subseteq sealed' \ Posted'
    BY <1>1, <1>2 DEF LogTyped, Posted
  <2> QED
    BY <1>1, <1>2, <2>1, <2>2, <2>3 DEF LogTyped
<1>6. /\ opened'[c] = <<>> /\ scan'[c] = None /\ \A p \in Client : store'[c][p] = None
      /\ \A a \in Client : a # c => /\ opened'[a] = opened[a] /\ scan'[a] = scan[a]
                                    /\ store'[a] = store[a]
  BY <1>1, <1>2 DEF LogTyped, PagesTyped
<1>7. PagesTyped'
  <2>1. <<>> \in Seq(1..Len(hub))
    OBVIOUS
  <2>2. /\ opened' \in [Client -> Seq(1..Len(hub))] /\ view' \in [Client -> Seq(1..Len(hub))]
        /\ scan' \in [Client -> Scan \union {None}]
    BY <1>1, <1>2, <2>1 DEF PagesTyped
  <2>3. ASSUME NEW a \in Client, scan'[a] # None
        PROVE  /\ scan'[a].upTo <= Len(hub)
               /\ scan'[a].pos \in 1..(scan'[a].upTo + 1)
               /\ scan'[a].found \in Seq(1..Len(hub))
    <3>1. a # c
      BY <1>6, <2>3
    <3> QED
      BY <1>2, <1>6, <2>3, <3>1 DEF PagesTyped
  <2> QED
    BY <1>1, <2>2, <2>3 DEF PagesTyped
<1>8. ReadInv'
  <2> SUFFICES ASSUME NEW a \in Client PROVE Reading(store'[a], opened'[a], scan'[a], hub', sealed', a)
    BY DEF ReadInv
  <2>1. CASE a = c
    BY <1>6, <2>1, NewReads
  <2>2. CASE a # c
    BY <1>1, <1>2, <1>6, <2>2 DEF ReadInv
  <2> QED
    BY <2>1, <2>2
<1> QED
  BY <1>3, <1>4, <1>5, <1>7, <1>8 DEF Inv

LEMMA InitHolds ==
    ASSUME Init
    PROVE  Inv
<1>1. /\ sealed = {} /\ hub = <<>> /\ outbox = {} /\ others = {} /\ drawn = [c \in Client |-> 0]
      /\ page = [c \in Client |-> 0] /\ opened = [c \in Client |-> <<>>]
      /\ view = [c \in Client |-> <<>>] /\ scan = [c \in Client |-> None]
      /\ store = [c \in Client |-> [p \in Client |-> None]]
  BY DEF Init
<1>2. LogTyped
  BY <1>1 DEF LogTyped
<1>3. PagesTyped
  <2>1. <<>> \in Seq(1..Len(hub))
    OBVIOUS
  <2> QED
    BY <1>1, <2>1 DEF PagesTyped
<1>4. SealedInv
  <2>1. IsFiniteSet(sealed)
    BY <1>1, FS_EmptySet
  <2>2. TalkOK(sealed)
    BY <1>1 DEF TalkOK
  <2> QED
    BY <1>1, <2>1, <2>2 DEF SealedInv
<1>5. ReadInv
  <2> SUFFICES ASSUME NEW c \in Client PROVE Reading(store[c], opened[c], scan[c], hub, sealed, c)
    BY DEF ReadInv
  <2>1. opened[c] = <<>> /\ scan[c] = None /\ \A p \in Client : store[c][p] = None
    BY <1>1
  <2> QED
    BY <2>1, NewReads
<1>6. Within(Sends, page, others)
  <2>1. PICK b \in Bounds : TRUE
    BY ClientAssumption
  <2>2. b.send \in [Client \X Client -> Nat] /\ b.reloads \in [Client -> Nat] /\ b.others \in Nat
    BY ClientAssumption
  <2>3. ASSUME NEW w \in Client \X Client PROVE Sends[w] <= b.send[w]
    <3>1. {m \in sealed : m.from = w[1] /\ m.to = w[2]} = {}
      BY <1>1
    <3>2. Sends[w] = 0
      BY <3>1, FS_EmptySet DEF Sends
    <3>3. b.send[w] \in Nat
      BY <2>2
    <3> QED
      BY <3>2, <3>3
  <2>4. ASSUME NEW c \in Client PROVE page[c] <= b.reloads[c]
    <3>1. page[c] = 0 /\ b.reloads[c] \in Nat
      BY <1>1, <2>2
    <3> QED
      BY <3>1
  <2>5. Cardinality(others) <= b.others
    BY <1>1, <2>2, FS_EmptySet
  <2> QED
    BY <2>3, <2>4, <2>5 DEF Within
<1> QED
  BY <1>2, <1>3, <1>4, <1>5, <1>6 DEF Inv

\* Every step keeps the invariant.
LEMMA NextKeeps ==
    ASSUME Inv, [Next]_vars
    PROVE  Inv'
<1>1. ASSUME NEW c \in Client, NEW p \in Client, Encrypt(c, p) PROVE Inv'
  BY <1>1, EncryptStep
<1>2. ASSUME NEW m \in outbox, Post(m) PROVE Inv'
  BY <1>2, PostStep
<1>3. ASSUME NEW m \in outbox, SendFails(m) PROVE Inv'
  BY <1>3, SendFailsStep
<1>4. ASSUME NEW c \in Client, StartScan(c) PROVE Inv'
  BY <1>4, StartScanStep
<1>5. ASSUME NEW c \in Client, NEW m, NotMine(c, m) PROVE Inv'
  BY <1>5, NotMineStep
<1>6. ASSUME NEW c \in Client, NEW m, Decrypt(c, m) PROVE Inv'
  BY <1>6, DecryptStep
<1>7. ASSUME NEW c \in Client, NEW m, Abort(c, m) PROVE Inv'
  BY <1>7, AbortStep
<1>8. ASSUME NEW c \in Client, Finish(c) PROVE Inv'
  BY <1>8, FinishStep
<1>9. ASSUME NEW c \in Client, Reload(c) PROVE Inv'
  BY <1>9, ReloadStep
<1>o. ASSUME NEW ends \in {Client} \union {{c} : c \in Client}, PostOther(ends) PROVE Inv'
  BY <1>o, PostOtherStep
<1>a. ASSUME NEW c \in Client, AbortAtOther(c) PROVE Inv'
  BY <1>a, AbortAtOtherStep
<1>10. ASSUME UNCHANGED vars PROVE Inv'
  BY <1>10 DEF vars, pageVars, Inv, LogTyped, Posted, PagesTyped, Sends, SealedInv, ReadInv
<1> QED
  BY <1>1, <1>2, <1>3, <1>4, <1>5, <1>6, <1>7, <1>8, <1>9, <1>o, <1>a, <1>10 DEF Next, ScanStep

\* Inv holds of every state.
LEMMA Invariant == Spec => []Inv
<1>1. Init => Inv
  BY InitHolds
<1>2. Inv /\ [Next]_vars => Inv'
  BY NextKeeps
<1> QED
  BY <1>1, <1>2, PTL DEF Spec

-----------------------------------------------------------------------------
(* What the invariant says                                                 *)

(***************************************************************************)
(* Every variable has its type, both chains of a state are where its       *)
(* counters say, and its cache is within MAX_SKIP.                         *)
(***************************************************************************)
THEOREM TypeCorrect == Spec => []TypeOK
<1>1. ASSUME Inv PROVE TypeOK
  <2>1. LogTyped /\ PagesTyped /\ SealedInv /\ ReadInv /\ Within(Sends, page, others)
    BY <1>1 DEF Inv
  <2>2. ASSUME NEW c \in Client, NEW p \in Client, store[c][p] # None
        PROVE  /\ store[c][p].sendChainKey.n = store[c][p].sendCount
               /\ store[c][p].recvChainKey.n = store[c][p].recvCount
               /\ Len(store[c][p].skippedKeys) <= MAX_SKIP
    <3>1. StateOK(store[c][p], c, p, drawn)
      BY <2>1, <2>2 DEF SealedInv
    <3>2. Reading(store[c], opened[c], scan[c], hub, sealed, c)
      BY <2>1 DEF ReadInv
    <3>3. Ready(store[c][p], store[c][p].recvChainKey.way)
      BY <2>2, <3>2 DEF Reading, RowOK, ReceiveOK
    <3> QED
      BY <3>1, <3>3, KeyParts DEF StateOK, Ready
  <2> QED
    BY <2>1, <2>2 DEF TypeOK, LogTyped, PagesTyped
<1> QED
  BY <1>1, Invariant, PTL

(***************************************************************************)
(* A key seals two messages only if a responder's page was reloaded        *)
(* between them.                                                           *)
(***************************************************************************)
THEOREM KeyReuseHolds == Spec => []KeyReuseNeedsReload
<1>1. ASSUME Inv PROVE KeyReuseNeedsReload
  <2> SUFFICES ASSUME NEW m1 \in sealed, NEW m2 \in sealed, m1.key = m2.key, m1 # m2
               PROVE  m1.from = m2.from /\ m1.page # m2.page /\ m1.key.way = 2
    BY DEF KeyReuseNeedsReload
  <2>1. TalkOK(sealed)
    BY <1>1 DEF Inv, SealedInv
  <2> DEFINE root == m1.key.root
             way == m1.key.way
  <2>2. /\ Side(root, way, m1.from, m1.to) /\ m1.key = KeyAt(root, way, m1.msgIndex)
        /\ Side(root, way, m2.from, m2.to) /\ m2.key = KeyAt(root, way, m2.msgIndex)
        /\ Apart(m1, m2)
    BY <2>1 DEF TalkOK
  <2>3. way \in {1, 2}
    BY <2>1, MessageFacts DEF TalkOK, Key
  <2> HIDE DEF root, way
  <2>4. m1.msgIndex = m2.msgIndex
    <3>1. KeyAt(root, way, m1.msgIndex).n = m1.msgIndex /\ KeyAt(root, way, m2.msgIndex).n = m2.msgIndex
      BY KeyParts
    <3> QED
      BY <2>2, <3>1
  <2>5. m1.from = m2.from /\ m1.to = m2.to
    BY <2>2, <2>3 DEF Side
  <2>6. m1.page # m2.page
    BY <2>2, <2>4, <2>5 DEF Apart, SamePage
  <2>7. way # 1
    BY <2>2, <2>6 DEF Apart, way
  <2> QED
    BY <2>3, <2>5, <2>6, <2>7 DEF way
<1> QED
  BY <1>1, Invariant, PTL

(***************************************************************************)
(* A page decrypts an event at most once.                                  *)
(***************************************************************************)
THEOREM OpenedOnceHolds == Spec => []OpenedOnce
<1>1. ASSUME Inv PROVE OpenedOnce
  BY <1>1 DEF Inv, ReadInv, Reading, Once, OpenedOnce
<1> QED
  BY <1>1, Invariant, PTL

(***************************************************************************)
(* What a page counts as received was sealed for it by its peer, and was   *)
(* posted.                                                                 *)
(***************************************************************************)
THEOREM ReceivedHolds == Spec => []ReceivedWasSent
<1>1. ASSUME Inv PROVE ReceivedWasSent
  <2> SUFFICES ASSUME NEW c \in Client, NEW p \in Client, store[c][p] # None, store[c][p].recvCount > 0
               PROVE  \E m \in Posted : /\ m.from = p /\ m.to = c
                                        /\ m.key = Advance(store[c][p].recvChainKey, -1)
    BY DEF ReceivedWasSent
  <2> DEFINE s == store[c][p]
             root == s.rootKey
             way == s.recvChainKey.way
  <2>1. LogTyped /\ TalkOK(sealed) /\ ReadInv
    BY <1>1 DEF Inv, SealedInv
  <2>2. ReceiveOK(s, sealed, hub, c, p)
    BY <2>1 DEF ReadInv, Reading, RowOK
  <2>3. s.recvChainKey = KeyAt(root, way, s.recvCount)
    BY <2>2 DEF ReceiveOK, Ready
  <2>4. PICK i \in 1..Len(hub) : /\ hub[i].from = p /\ hub[i].to = c /\ OnChain(hub[i], root, way)
                                 /\ hub[i].msgIndex = s.recvCount - 1
    BY <2>2 DEF ReceiveOK
  <2> DEFINE m == hub[i]
  <2>5. m \in sealed /\ m \in Posted
    BY <2>1 DEF LogTyped, Posted
  <2>6. m.key = KeyAt(root, way, s.recvCount - 1)
    BY <2>1, <2>4, <2>5 DEF TalkOK, OnChain
  <2>7. s.recvCount \in Nat
    BY <2>1, StoreFacts, StateFacts
  <2> HIDE DEF s, root, way
  <2>8. s.recvCount + -1 = s.recvCount - 1
    BY <2>7
  <2>9. Advance(KeyAt(root, way, s.recvCount), -1) = KeyAt(root, way, s.recvCount + -1)
    BY Advanced
  <2>10. m.key = Advance(s.recvChainKey, -1)
    BY <2>3, <2>6, <2>8, <2>9
  <2> QED
    BY <2>4, <2>5, <2>10 DEF s
<1> QED
  BY <1>1, Invariant, PTL

\* A message of the chain the page receives on opens unless its number was passed or is
\* too far ahead.
LEMMA Passes ==
    ASSUME NEW S, TalkOK(S), NEW m \in S, NEW s, NEW way, Ready(s, way),
           CacheOK(s.skippedKeys, S, s.rootKey, way, s.recvCount),
           OnChain(m, s.rootKey, way), NEW pair, ~Opens(s, m, pair)
    PROVE  /\ ~IsCached(s, m)
           /\ m.msgIndex < s.recvCount \/ m.msgIndex - s.recvCount > MAX_SKIP
<1>1. m \in Message /\ m.key = KeyAt(s.rootKey, way, m.msgIndex) /\ s \in RatchetState
  BY DEF TalkOK, Ready, OnChain
<1>2. m.msgIndex \in Nat /\ s.recvCount \in Nat /\ MAX_SKIP \in Nat
  BY <1>1, StateFacts, MessageFacts, RatchetAssumption
<1>3. ASSUME IsCached(s, m) PROVE FALSE
  <2> DEFINE x == CachedIndex(s, m)
  <2>1. /\ x \in 1..Len(s.skippedKeys) /\ s.skippedKeys[x].msgIndex = m.msgIndex
    BY <1>1, <1>3, CachedFacts
  <2>2. s.skippedKeys[x].key = m.key
    BY <1>1, <2>1 DEF CacheOK
  <2> QED
    BY <1>3, <2>2 DEF Opens
<1>4. ~(s.recvCount <= m.msgIndex /\ m.msgIndex <= s.recvCount + MAX_SKIP)
  BY <1>1, <1>3, OpensAhead
<1> QED
  BY <1>2, <1>3, <1>4

LEMMA AbortIsExplained ==
    ASSUME Inv, NEW c \in Client, NEW m, Abort(c, m)
    PROVE  Undecipherable(c, m)
<1> DEFINE s == ReceivingState(c, m)
           p == m.from
           op == opened[c]
           R == ReadBy(op, hub)
           pair == KeyPair(c, drawn[c] + 1)
<1>1. Scanning(c, m) /\ m.to = c /\ ~Opens(s, m, pair)
  BY DEF Abort, CanOpen
<1> SUFFICES ASSUME ~OwnSide(c, m), ~OfOtherSession(c, m), ~TooFarAhead(c, m)
             PROVE  KeyOpened(c, m) \/ PeerReloaded(c, m) \/ LeftBehind(c, m) \/ JumpedOver(c, m)
  BY <1>1 DEF Undecipherable
<1>2. LogTyped /\ PagesTyped /\ SealedInv /\ TalkOK(sealed)
  BY DEF Inv, SealedInv
<1>3. m \in sealed /\ m \in Message /\ p \in Client /\ m.msgIndex \in Nat
  BY <1>1, <1>2, ScanningFacts, MessageFacts
<1>4. /\ hub \in Seq(sealed) /\ op \in Seq(1..Len(hub))
      /\ Reading(store[c], op, scan[c], hub, sealed, c)
  BY <1>2 DEF Inv, LogTyped, PagesTyped, ReadInv
<1>5. /\ RowOK(store[c], sealed, hub, c) /\ ReadOK(R, store[c], sealed, c)
      /\ AllAccounted(R, store[c])
  BY <1>4 DEF Reading
<1>6. /\ Len(R) = Len(op)
      /\ \A t \in 1..Len(op) : R[t] = hub[op[t]] /\ R[t] \in sealed
  BY <1>4, ReadByFacts
<1>7. ReceiveOK(s, sealed, hub, c, p) /\ (store[c][p] = None => s.recvCount = 0)
  <2>1. CASE store[c][p] # None
    <3>1. s = store[c][p]
      BY <2>1 DEF ReceivingState
    <3> QED
      BY <1>3, <1>5, <2>1, <3>1 DEF RowOK
  <2>2. CASE store[c][p] = None
    <3>1. FreshState(s, sealed, hub, c, p)
      BY <1>1, <1>2, <1>3, <2>2, MadeOfMessage
    <3> QED
      BY <3>1 DEF FreshState
  <2> QED
    BY <2>1, <2>2
<1>8. /\ m.key.root = s.rootKey /\ ~(m.msgIndex - s.recvCount > MAX_SKIP)
      /\ ~(m.from = c /\ m.key.way = s.sendChainKey.way)
  BY DEF OwnSide, OfOtherSession, TooFarAhead
<1>w. Sides(s, c, p)
  <2>1. CASE store[c][p] # None
    <3>1. s = store[c][p]
      BY <2>1 DEF ReceivingState
    <3> QED
      BY <1>2, <1>3, <2>1, <3>1 DEF SealedInv, StateOK, Sides
  <2>2. CASE store[c][p] = None
    BY <1>1, <1>2, <1>3, <2>2, MadeOfMessage
  <2> QED
    BY <2>1, <2>2
<1>s. store[c][p] # None => s = store[c][p]
  BY DEF ReceivingState
<1>l. LeftBehind(c, m) <=> m.msgIndex + MAX_SKIPPED_KEYS < s.recvCount - 1
  BY DEF LeftBehind
<1> HIDE DEF s, pair, p, R
<1>9. s \in RatchetState /\ s.recvCount \in Nat
  BY <1>7, StateFacts DEF ReceiveOK, Ready
<1>c. OnChain(m, s.rootKey, s.recvChainKey.way)
  <2>1. Side(s.rootKey, m.key.way, p, c) /\ m.key.way \in {1, 2}
    BY <1>1, <1>2, <1>3, <1>8, MessageFacts DEF TalkOK, Key, p
  <2>2. s.sendChainKey.way \in {1, 2} /\ s.recvChainKey.way \in {1, 2}
    BY <1>9, WayFacts
  <2>3. m.key.way # s.sendChainKey.way
    BY <1>8, <1>w, <2>1 DEF Sides, Side, p
  <2> QED
    BY <1>8, <1>w, <2>1, <2>2, <2>3 DEF OnChain, Sides
<1>10. ~IsCached(s, m) /\ m.msgIndex < s.recvCount
  <2>1. /\ Ready(s, s.recvChainKey.way)
        /\ CacheOK(s.skippedKeys, sealed, s.rootKey, s.recvChainKey.way, s.recvCount)
    BY <1>7 DEF ReceiveOK
  <2> QED
    BY ONLY <1>1, <1>2, <1>3, <1>8, <1>c, <2>1, Passes
<1>11. store[c][p] # None /\ s = store[c][p]
  BY <1>3, <1>7, <1>10, <1>s
<1>12. Accounted(R, s, p, m.msgIndex)
  <2>1. m.msgIndex \in 0..(s.recvCount - 1)
    BY <1>3, <1>9, <1>10
  <2> QED
    BY <1>3, <1>5, <1>11, <2>1 DEF AllAccounted
<1>13. ASSUME NEW t \in 1..Len(R), R[t].from = p, R[t].msgIndex = m.msgIndex
       PROVE  KeyOpened(c, m)
  <2>1. OnChain(R[t], s.rootKey, s.recvChainKey.way)
    BY <1>5, <1>11, <1>13 DEF ReadOK
  <2>2. R[t] \in sealed /\ R[t] = hub[op[t]] /\ t \in 1..Len(op)
    BY <1>6
  <2>3. R[t].key = m.key
    BY <1>2, <1>3, <1>c, <1>13, <2>1, <2>2 DEF TalkOK, OnChain
  <2> QED
    BY <2>2, <2>3 DEF KeyOpened
<1>14. ASSUME NEW i \in 1..Len(s.skippedKeys), s.skippedKeys[i].msgIndex = m.msgIndex,
              NEW t \in 1..Len(R), R[t].from = p, R[t].dhPub = s.skippedKeys[i].dhPub
       PROVE  PeerReloaded(c, m)
  <2>1. R[t].dhPub # m.dhPub
    BY <1>10, <1>14, CachedIsThere
  <2>2. R[t].to = c
    BY <1>5 DEF ReadOK
  <2>3. R[t] \in sealed /\ R[t] = hub[op[t]] /\ t \in 1..Len(op)
    BY <1>6
  <2>4. Apart(R[t], m)
    BY <1>2, <1>3, <2>3 DEF TalkOK
  <2>5. R[t].page # m.page
    BY <1>1, <1>14, <2>1, <2>2, <2>4 DEF Apart, SamePage, p
  <2> QED
    BY <1>14, <2>3, <2>5 DEF PeerReloaded, p
<1>15. ASSUME NEW t \in 1..Len(R), R[t].from = p, R[t].msgIndex > m.msgIndex,
              \A u \in 1..(t - 1) :
                  R[u].from = p => R[u].msgIndex + (MAX_SKIP - MAX_SKIPPED_KEYS) < m.msgIndex
       PROVE  JumpedOver(c, m)
  <2>1. t \in 1..Len(op) /\ R[t] = hub[op[t]]
    BY <1>6
  <2>2. \A u \in 1..(t - 1) : u \in 1..Len(op) /\ R[u] = hub[op[u]]
    <3>1. Len(op) \in Nat
      BY <1>4
    <3>2. \A u \in 1..(t - 1) : u \in 1..Len(op)
      BY <2>1, <3>1
    <3> QED
      BY <1>6, <3>2
  <2> QED
    BY <1>15, <2>1, <2>2 DEF JumpedOver, p
<1> QED
  BY <1>12, <1>13, <1>14, <1>15, <1>l DEF Accounted, Answered

\* A scan that goes on is one.
LEMMA ScanMoves ==
    ASSUME NEW sc \in Scan
    PROVE  /\ [sc EXCEPT !.pos = @ + 1] # None
           /\ [sc EXCEPT !.pos = @ + 1, !.found = Append(@, sc.pos)] # None
<1>1. sc.pos \in Nat /\ sc.pos + 1 \in Nat /\ sc.found \in Seq(Nat) /\ Append(sc.found, sc.pos) \in Seq(Nat)
  BY DEF Scan
<1>2. /\ [sc EXCEPT !.pos = @ + 1] \in Scan
      /\ [sc EXCEPT !.pos = @ + 1, !.found = Append(@, sc.pos)] \in Scan
  BY <1>1 DEF Scan
<1> QED
  BY <1>2, ClientAssumption

LEMMA ThrewIsExplained ==
    ASSUME Inv, Next, NEW c \in Client, Threw(c)
    PROVE  AtOther(c) \/ Undecipherable(c, hub[scan[c].pos])
<1>1. /\ scan[c] # None /\ scan'[c] = None /\ page'[c] = page[c]
      /\ scan[c].pos <= scan[c].upTo \/ view'[c] # scan[c].found
  BY DEF Threw
<1>2. LogTyped /\ PagesTyped
  BY DEF Inv
<1>3. /\ scan \in [Client -> Scan \union {None}] /\ view \in [Client -> Seq(1..Len(hub))]
      /\ scan[c] \in Scan /\ page \in [Client -> Nat] /\ page[c] \in Nat
      /\ scan[c].pos \in Nat /\ scan[c].upTo \in Nat
  BY <1>1, <1>2 DEF LogTyped, PagesTyped, Scan
<1>4. scan' # scan
  BY <1>1
<1>5. ASSUME NEW a \in Client, NEW z, scan' = [scan EXCEPT ![a] = z] PROVE a = c
  BY <1>1, <1>3, <1>5
<1>6. ASSUME NEW a \in Client, NEW p \in Client, Encrypt(a, p) PROVE FALSE
  BY <1>4, <1>6 DEF Encrypt
<1>7. ASSUME NEW m \in outbox, Post(m) \/ SendFails(m) PROVE FALSE
  BY <1>4, <1>7 DEF Post, SendFails, pageVars
<1>8. ASSUME NEW ends, PostOther(ends) PROVE FALSE
  BY <1>4, <1>8 DEF PostOther, pageVars
<1>9. ASSUME NEW a \in Client, StartScan(a) PROVE FALSE
  BY <1>1, <1>5, <1>9 DEF StartScan
<1>10. ASSUME NEW a \in Client, NEW m, NotMine(a, m) PROVE FALSE
  <2>1. a = c
    BY <1>5, <1>10 DEF NotMine
  <2>2. scan'[c] = [scan[c] EXCEPT !.pos = @ + 1]
    BY <1>3, <1>10, <2>1 DEF NotMine
  <2> QED
    BY <1>1, <1>3, <2>2, ScanMoves
<1>11. ASSUME NEW a \in Client, NEW m, Decrypt(a, m) PROVE FALSE
  <2>1. scan' = [scan EXCEPT ![a] = [scan[a] EXCEPT !.pos = @ + 1, !.found = Append(@, scan[a].pos)]]
    BY <1>3, <1>11 DEF Decrypt
  <2>2. a = c
    BY <1>5, <2>1
  <2>3. scan'[c] = [scan[c] EXCEPT !.pos = @ + 1, !.found = Append(@, scan[c].pos)]
    BY <1>3, <2>1, <2>2
  <2> QED
    BY <1>1, <1>3, <2>3, ScanMoves
<1>12. ASSUME NEW a \in Client, NEW m, Abort(a, m) PROVE Undecipherable(c, hub[scan[c].pos])
  <2>1. a = c
    BY <1>5, <1>12 DEF Abort
  <2>2. m = hub[scan[c].pos]
    BY <1>12, <2>1 DEF Abort, Scanning
  <2> QED
    BY <1>12, <2>1, <2>2, AbortIsExplained
<1>13. ASSUME NEW a \in Client, AbortAtOther(a) PROVE AtOther(c)
  BY <1>5, <1>13 DEF AbortAtOther
<1>14. ASSUME NEW a \in Client, Finish(a) PROVE FALSE
  <2>1. a = c
    BY <1>5, <1>14 DEF Finish
  <2>2. scan[c].pos > scan[c].upTo /\ view'[c] = scan[c].found
    BY <1>3, <1>14, <2>1 DEF Finish
  <2> QED
    BY <1>1, <1>3, <2>2
<1>15. ASSUME NEW a \in Client, Reload(a) PROVE FALSE
  <2>1. a = c
    BY <1>5, <1>15 DEF Reload
  <2>2. page'[c] = page[c] + 1
    BY <1>3, <1>15, <2>1 DEF Reload
  <2> QED
    BY <1>1, <1>3, <2>2
<1> QED
  BY <1>6, <1>7, <1>8, <1>9, <1>10, <1>11, <1>12, <1>13, <1>14, <1>15 DEF Next, ScanStep

(***************************************************************************)
(* A scan that does not come to its end has met another program's event    *)
(* that it cannot read, or a message of its client's whose key was used,   *)
(* that the page wrote itself, whose sender was reloaded, that is of       *)
(* another session, or whose key was out of the limits' reach.             *)
(***************************************************************************)
THEOREM AbortExplainedHolds == Spec => AbortExplained
<1>1. ASSUME Inv, [Next]_vars
      PROVE  [\A c \in Client : Threw(c) => AtOther(c) \/ Undecipherable(c, hub[scan[c].pos])]_vars
  BY <1>1, ThrewIsExplained
<1> QED
  BY <1>1, Invariant, PTL DEF Spec, AbortExplained
=============================================================================
