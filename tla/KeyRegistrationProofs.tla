----------------------- MODULE KeyRegistrationProofs -----------------------
(***************************************************************************)
(* For any accounts and bounds: registering, storing and loading key sets  *)
(* in any order only calls the registry as the registry allows, stores no  *)
(* key set that was not registered, and leaves the two roles of X3DH with  *)
(* the same session key; and backups and restores (KeyBackup) change       *)
(* nothing of this.                                                        *)
(*                                                                         *)
(* The session keys agree because an identity key is drawn together with   *)
(* one pre-key.  The invariant follows such pairs everywhere they go, and  *)
(* says of a bundle that if its pre-key is signed by its identity key, the *)
(* two are such a pair; a rotated one is signed by the wallet.             *)
(***************************************************************************)
EXTENDS KeyBackup, FiniteSetTheorems, TLAPS

-----------------------------------------------------------------------------
(***************************************************************************)
(* The StealthRegistry, whoever calls it with whatever: its types, and     *)
(* that the two counters of a bundle leave room for every pre-key that     *)
(* shows as available.                                                     *)
(*                                                                         *)
(* The second is not inductive: after a refill the flags and the counters  *)
(* have nothing to do with one another.  What is kept is that no more keys *)
(* are counted as consumed than have their flag set.                       *)
(***************************************************************************)

\* The indices of the current batch whose flag is set.
Marked(a) == {i \in 0..(oneTimePreKeyCount[a] - 1) : i \in consumedOneTimePreKeys[a]}

CountedAreMarked ==
    \A a \in Account : oneTimePreKeyConsumed[a] <= Cardinality(Marked(a))

RegistryInv == RegistryTypeOK /\ CountedAreMarked

-----------------------------------------------------------------------------

\* A part of a batch is a finite set.
LEMMA PartOfBatch ==
    ASSUME NEW n \in Nat, NEW S \in SUBSET (0..(n - 1))
    PROVE  IsFiniteSet(S) /\ Cardinality(S) \in Nat
<1>1. IsFiniteSet(0..(n - 1))
  BY FS_Interval
<1>2. IsFiniteSet(S)
  BY <1>1, FS_Subset
<1> QED
  BY <1>2, FS_CardinalityType

\* As many keys are marked as are not available.
LEMMA MarkedOrAvailable ==
    ASSUME RegistryTypeOK, NEW a \in Account
    PROVE  Cardinality(Marked(a)) + Cardinality(Available(a)) = oneTimePreKeyCount[a]
<1> DEFINE n == oneTimePreKeyCount[a]
           B == 0..(n - 1)
<1>1. n \in Nat
  BY DEF RegistryTypeOK
<1>2. /\ Marked(a) \in SUBSET B
      /\ Available(a) \in SUBSET B
  BY DEF Marked, Available
<1>3. Marked(a) \union Available(a) = B
  BY <1>1 DEF Marked, Available, isOneTimePreKeyAvailable
<1>4. Marked(a) \intersect Available(a) = {}
  BY DEF Marked, Available, isOneTimePreKeyAvailable
<1>5. IsFiniteSet(Marked(a)) /\ Cardinality(Marked(a)) \in Nat
  BY <1>1, <1>2, PartOfBatch
<1>6. IsFiniteSet(Available(a)) /\ Cardinality(Available(a)) \in Nat
  BY <1>1, <1>2, PartOfBatch
<1>7. Cardinality(B) = Cardinality(Marked(a)) + Cardinality(Available(a))
                         - Cardinality(Marked(a) \intersect Available(a))
  BY <1>3, <1>5, <1>6, FS_Union
<1>8. Cardinality(Marked(a) \intersect Available(a)) = 0
  BY <1>4, FS_EmptySet
<1>9. Cardinality(B) = n
  BY <1>1, FS_Interval
<1> QED
  BY <1>5, <1>6, <1>7, <1>8, <1>9

-----------------------------------------------------------------------------

\* Every deployed registry starts with the invariant.
LEMMA RegistryInitInv == RegistryInit => RegistryInv
<1> SUFFICES ASSUME RegistryInit PROVE RegistryInv
  OBVIOUS
<1>1. RegistryTypeOK
  BY StealthAssumption DEF RegistryInit, RegistryTypeOK
<1>2. CountedAreMarked
  <2> SUFFICES ASSUME NEW a \in Account
               PROVE  oneTimePreKeyConsumed[a] <= Cardinality(Marked(a))
    BY DEF CountedAreMarked
  <2>1. oneTimePreKeyCount[a] = 0 /\ oneTimePreKeyConsumed[a] = 0
    BY DEF RegistryInit
  <2>2. Marked(a) \in SUBSET (0..(0 - 1))
    BY <2>1 DEF Marked
  <2>3. Cardinality(Marked(a)) \in Nat
    BY <2>2, PartOfBatch
  <2> QED
    BY <2>1, <2>3
<1> QED
  BY <1>1, <1>2 DEF RegistryInv

\* A call that does not consume a pre-key sets the consumed count of one
\* account to zero, or leaves counters and flags alone.
LEMMA ResetKeepsMarked ==
    ASSUME RegistryInv, RegistryTypeOK',
           consumedOneTimePreKeys' = consumedOneTimePreKeys,
           \A b \in Account :
               \/ oneTimePreKeyConsumed'[b] = 0
               \/ /\ oneTimePreKeyConsumed'[b] = oneTimePreKeyConsumed[b]
                  /\ oneTimePreKeyCount'[b] = oneTimePreKeyCount[b]
    PROVE  CountedAreMarked'
<1> SUFFICES ASSUME NEW b \in Account
             PROVE  oneTimePreKeyConsumed'[b] <= Cardinality(Marked(b)')
  BY DEF CountedAreMarked
<1>1. CASE oneTimePreKeyConsumed'[b] = 0
  <2>1. oneTimePreKeyCount'[b] \in Nat
    BY DEF RegistryTypeOK
  <2>2. Marked(b)' \in SUBSET (0..(oneTimePreKeyCount'[b] - 1))
    BY DEF Marked
  <2>3. Cardinality(Marked(b)') \in Nat
    BY <2>1, <2>2, PartOfBatch
  <2> QED
    BY <1>1, <2>3
<1>2. CASE /\ oneTimePreKeyConsumed'[b] = oneTimePreKeyConsumed[b]
           /\ oneTimePreKeyCount'[b] = oneTimePreKeyCount[b]
  <2>1. Marked(b)' = Marked(b)
    BY <1>2 DEF Marked
  <2> QED
    BY <1>2, <2>1 DEF RegistryInv, CountedAreMarked
<1> QED
  BY <1>1, <1>2

\* Consuming a pre-key marks one more and counts one more.
LEMMA ConsumeKeepsMarked ==
    ASSUME RegistryInv, NEW owner \in Account, NEW i \in Nat, Consume(owner, i)
    PROVE  RegistryInv'
<1>1. RegistryTypeOK'
  BY DEF RegistryInv, RegistryTypeOK, Consume, keyVars
<1>2. CountedAreMarked'
  <2> SUFFICES ASSUME NEW b \in Account
               PROVE  oneTimePreKeyConsumed'[b] <= Cardinality(Marked(b)')
    BY DEF CountedAreMarked
  <2>1. oneTimePreKeyConsumed[b] <= Cardinality(Marked(b))
    BY DEF RegistryInv, CountedAreMarked
  <2>2. CASE b = owner
    <3>1. /\ Marked(b)' = Marked(b) \union {i}
          /\ i \notin Marked(b)
      BY <2>2 DEF Consume, Marked, RegistryInv, RegistryTypeOK
    <3>2. oneTimePreKeyCount[b] \in Nat /\ Marked(b) \in SUBSET (0..(oneTimePreKeyCount[b] - 1))
      BY DEF Marked, RegistryInv, RegistryTypeOK
    <3>3. IsFiniteSet(Marked(b)) /\ Cardinality(Marked(b)) \in Nat
      BY <3>2, PartOfBatch
    <3>4. Cardinality(Marked(b)') = Cardinality(Marked(b)) + 1
      BY <3>1, <3>3, FS_AddElement
    <3>5. oneTimePreKeyConsumed[b] \in Nat /\ oneTimePreKeyConsumed'[b] = oneTimePreKeyConsumed[b] + 1
      BY <2>2 DEF Consume, RegistryInv, RegistryTypeOK
    <3> QED
      BY <2>1, <3>3, <3>4, <3>5
  <2>3. CASE b # owner
    <3>1. Marked(b)' = Marked(b) /\ oneTimePreKeyConsumed'[b] = oneTimePreKeyConsumed[b]
      BY <2>3 DEF Consume, Marked, RegistryInv, RegistryTypeOK
    <3> QED
      BY <2>1, <3>1
  <2> QED
    BY <2>2, <2>3
<1> QED
  BY <1>1, <1>2 DEF RegistryInv

\* Every call, and the clock, keeps the invariant.
LEMMA RegistryNextInv == RegistryInv /\ [RegistryNext]_registryVars => RegistryInv'
<1> SUFFICES ASSUME RegistryInv, [RegistryNext]_registryVars PROVE RegistryInv'
  OBVIOUS
<1> USE StealthAssumption
<1>1. ASSUME NEW a \in Account, NEW ik \in Key \union {NoKey}, NEW spk \in Key \union {NoKey},
             NEW signature \in Signature \union {NoKey}, NEW n \in Nat,
             registerKeyBundle(a, ik, spk, signature, n)
      PROVE  RegistryInv'
  <2>1. RegistryTypeOK'
    BY <1>1 DEF RegistryInv, RegistryTypeOK, registerKeyBundle
  <2>2. CountedAreMarked'
    BY <1>1, <2>1, ResetKeepsMarked DEF RegistryInv, RegistryTypeOK, registerKeyBundle
  <2> QED
    BY <2>1, <2>2 DEF RegistryInv
<1>2. ASSUME NEW a \in Account, NEW spk \in Key, NEW signature \in Signature,
             rotateSignedPreKey(a, spk, signature)
      PROVE  RegistryInv'
  <2>1. RegistryTypeOK'
    BY <1>2 DEF RegistryInv, RegistryTypeOK, rotateSignedPreKey, countVars
  <2>2. CountedAreMarked'
    BY <1>2, <2>1, ResetKeepsMarked DEF rotateSignedPreKey, countVars
  <2> QED
    BY <2>1, <2>2 DEF RegistryInv
<1>3. CASE ConsumeNext
  <2>1. ASSUME NEW a \in Account, NEW i \in 0..(MaxCount[a] - 1), consumeOwnOneTimePreKey(a, i)
        PROVE  RegistryInv'
    BY <2>1, ConsumeKeepsMarked DEF consumeOwnOneTimePreKey
  <2>2. ASSUME NEW a \in Account, NEW owner \in Account, NEW i \in 0..(MaxCount[owner] - 1),
               NEW signature, consumeOneTimePreKey(a, owner, i, signature)
        PROVE  RegistryInv'
    BY <2>2, ConsumeKeepsMarked DEF consumeOneTimePreKey
  <2> QED
    BY <1>3, <2>1, <2>2 DEF ConsumeNext
<1>4. ASSUME NEW a \in Account, NEW n \in Nat, refillOneTimePreKeys(a, n)
      PROVE  RegistryInv'
  <2>1. RegistryTypeOK'
    BY <1>4 DEF RegistryInv, RegistryTypeOK, refillOneTimePreKeys, keyVars
  <2>2. CountedAreMarked'
    BY <1>4, <2>1, ResetKeepsMarked DEF RegistryInv, RegistryTypeOK, refillOneTimePreKeys
  <2> QED
    BY <2>1, <2>2 DEF RegistryInv
<1>5. ASSUME NEW a \in Account, revokeKeyBundle(a)
      PROVE  RegistryInv'
  <2>1. RegistryTypeOK'
    BY <1>5 DEF RegistryInv, RegistryTypeOK, revokeKeyBundle
  <2>2. CountedAreMarked'
    BY <1>5, <2>1, ResetKeepsMarked DEF RegistryInv, RegistryTypeOK, revokeKeyBundle
  <2> QED
    BY <2>1, <2>2 DEF RegistryInv
<1>6. CASE Tick
  <2>1. RegistryTypeOK'
    BY <1>6 DEF RegistryInv, RegistryTypeOK, Tick, keyVars, countVars
  <2>2. CountedAreMarked'
    BY <1>6, <2>1, ResetKeepsMarked DEF Tick, countVars
  <2> QED
    BY <2>1, <2>2 DEF RegistryInv
<1>7. CASE UNCHANGED registryVars
  BY <1>7 DEF RegistryInv, RegistryTypeOK, CountedAreMarked, Marked, registryVars, keyVars, countVars
<1> QED
  BY <1>1, <1>2, <1>3, <1>4, <1>5, <1>6, <1>7 DEF RegistryNext

-----------------------------------------------------------------------------

\* The fields of every bundle have their types, the counters in order, after
\* any sequence of calls.
THEOREM RegistryTypeCorrect == RegistrySpec => []RegistryTypeOK
<1>1. RegistryInv => RegistryTypeOK
  BY DEF RegistryInv
<1> QED
  BY <1>1, RegistryInitInv, RegistryNextInv, PTL DEF RegistrySpec

\* After any sequence of calls, a pre-key that shows as available can be
\* consumed, whatever was refilled or registered again in between.
THEOREM RemainingCovers == RegistrySpec => []RemainingCoversAvailable
<1>1. RegistryInv => RemainingCoversAvailable
  <2> SUFFICES ASSUME RegistryInv, NEW a \in Account
               PROVE  Cardinality(Available(a)) <= getRemainingOneTimePreKeys(a)
    BY DEF RemainingCoversAvailable
  <2>1. Cardinality(Marked(a)) + Cardinality(Available(a)) = oneTimePreKeyCount[a]
    BY MarkedOrAvailable DEF RegistryInv
  <2>2. oneTimePreKeyConsumed[a] <= Cardinality(Marked(a))
    BY DEF RegistryInv, CountedAreMarked
  <2>3. oneTimePreKeyCount[a] \in Nat /\ oneTimePreKeyConsumed[a] \in Nat
    BY DEF RegistryInv, RegistryTypeOK
  <2>4. Cardinality(Marked(a)) \in Nat /\ Cardinality(Available(a)) \in Nat
    BY <2>3, PartOfBatch DEF Marked, Available
  <2> QED
    BY <2>1, <2>2, <2>3, <2>4 DEF getRemainingOneTimePreKeys
<1> QED
  BY <1>1, RegistryInitInv, RegistryNextInv, PTL DEF RegistrySpec

-----------------------------------------------------------------------------
(***************************************************************************)
(* The pages and owners that call it.                                      *)
(***************************************************************************)

KeySetOf(a, n) == [identity |-> IdentityKey(a, n), preKey |-> PreKey(a, n)]

DrawnKeySets == {k \in KeySet : \E a \in Account : \E n \in 1..MaxKeys[a] : k = KeySetOf(a, n)}

Phase == {"idle", "signing", "confirming", "saving", "reinit", "done"}

KeysAreDrawn ==
    /\ drawn \in [Account -> Nat]
    /\ phase \in [Account -> Phase]
    /\ draft \in [Account -> DrawnKeySets \union {NoKey}]
    /\ mempool \in [Account -> Seq(DrawnKeySets)]
    /\ stored \in [Account -> DrawnKeySets \union {NoKey}]
    /\ seen \in [Account -> DrawnKeySets \union {NoKey}]
    /\ client \in [Account -> DrawnKeySets \union {NoKey}]
    /\ \A a \in Account :
           phase[a] \in {"signing", "confirming", "saving"} => draft[a] \in DrawnKeySets

MinedFirst ==
    /\ mined \in [Account -> SUBSET DrawnKeySets]
    /\ \A a \in Account :
           /\ phase[a] = "saving" => draft[a] \in mined[a]
           /\ stored[a] # NoKey => stored[a] \in mined[a]
           /\ seen[a] # NoKey => seen[a] \in mined[a]

VerifiedArePairs ==
    \A a \in Account :
        hasKeyBundle(a) /\ verifySignedPreKeySignature(a) =>
            \E k \in DrawnKeySets : identityKey[a] = k.identity /\ signedPreKey[a] = k.preKey

\* The session of a first message is with the pre-key that was drawn with
\* the identity key it is for.
Fits(m) ==
    /\ m \in Greeting
    /\ \E k \in DrawnKeySets :
           /\ m.stealth = k.identity
           /\ m.sessionKey = SessionKey(m.senderIdentity, m.eph, k.identity, k.preKey)

GreetingsFit == IsFiniteSet(greetings) /\ \A m \in greetings : Fits(m)

Inv ==
    /\ RegistryInv
    /\ KeysAreDrawn
    /\ MinedFirst
    /\ VerifiedArePairs
    /\ GreetingsFit

-----------------------------------------------------------------------------

\* A key set is two keys, and no key.
LEMMA KeySetsAreKeys ==
    ASSUME NEW k \in DrawnKeySets
    PROVE  k \in KeySet /\ k.identity \in Key /\ k.preKey \in Key
BY DEF DrawnKeySets, KeySet

\* The key set that register draws.
LEMMA DrawIsDrawn ==
    ASSUME KeysAreDrawn, NEW a \in Account, drawn[a] < MaxKeys[a]
    PROVE  KeySetOf(a, drawn[a] + 1) \in DrawnKeySets
<1>1. drawn[a] + 1 \in 1..MaxKeys[a]
  BY RegistrationAssumption DEF KeysAreDrawn
<1>2. KeySetOf(a, drawn[a] + 1) \in KeySet
  BY <1>1, RegistrationAssumption DEF KeySetOf, KeySet
<1> QED
  BY <1>1, <1>2 DEF DrawnKeySets

\* An identity key is drawn once, with one pre-key.
LEMMA IdentityHasOnePreKey ==
    ASSUME NEW k \in DrawnKeySets, NEW l \in DrawnKeySets, k.identity = l.identity
    PROVE  k.preKey = l.preKey
<1>1. PICK a \in Account : \E n \in 1..MaxKeys[a] : k = KeySetOf(a, n)
  BY DEF DrawnKeySets
<1>2. PICK b \in Account : \E n \in 1..MaxKeys[b] : l = KeySetOf(b, n)
  BY DEF DrawnKeySets
<1>3. PICK n \in 1..MaxKeys[a] : k = KeySetOf(a, n)
  BY <1>1
<1>4. PICK o \in 1..MaxKeys[b] : l = KeySetOf(b, o)
  BY <1>2
<1>5. a = b /\ n = o
  BY <1>3, <1>4 DEF KeySetOf, IdentityKey
<1> QED
  BY <1>3, <1>4, <1>5

-----------------------------------------------------------------------------

\* What the pages and the owners do to the registry is what it allows.
LEMMA RegistryStep == Inv /\ [Next]_vars => [RegistryNext]_registryVars
<1> SUFFICES ASSUME Inv, [Next]_vars PROVE [RegistryNext]_registryVars
  OBVIOUS
<1>1. ASSUME NEW a \in Account, Mine(a) PROVE RegistryNext
  <2> DEFINE k == Head(mempool[a])
             s == [signer |-> k.identity, over |-> k.preKey]
  <2>1. mempool[a] \in Seq(DrawnKeySets) /\ mempool[a] # <<>>
    BY <1>1 DEF Inv, KeysAreDrawn, Mine
  <2>2. k \in DrawnKeySets
    BY <2>1
  <2>3. k.identity \in Key /\ k.preKey \in Key
    BY <2>2, KeySetsAreKeys
  <2>4. s \in Signature
    BY <2>3 DEF Signature
  <2>5. registerKeyBundle(a, k.identity, k.preKey, s, 0)
    BY <1>1 DEF Mine
  <2>6. 0 \in Nat /\ 0 <= MaxCount[a]
    BY StealthAssumption
  <2> QED
    BY <2>3, <2>4, <2>5, <2>6 DEF RegistryNext
<1>2. ASSUME NEW a \in Account, Rotate(a) PROVE RegistryNext
  <2> DEFINE k == PreKey(a, drawn[a] + 1)
             s == [signer |-> a, over |-> k]
  <2>1. drawn[a] + 1 \in 1..MaxKeys[a]
    <3>1. drawn[a] \in Nat
      BY DEF Inv, KeysAreDrawn
    <3>2. MaxKeys[a] \in Nat
      BY RegistrationAssumption
    <3>3. drawn[a] < MaxKeys[a]
      BY <1>2 DEF Rotate
    <3> QED
      BY <3>1, <3>2, <3>3
  <2>2. k \in Key
    BY <2>1, RegistrationAssumption
  <2>3. s \in Signature
    BY <2>2 DEF Signature
  <2>4. rotateSignedPreKey(a, k, s)
    BY <1>2 DEF Rotate
  <2> QED
    BY <2>2, <2>3, <2>4 DEF RegistryNext
<1>3. CASE ContractCall
  <2>1. ASSUME NEW a \in Account, NEW n \in 0..MaxCount[a], refillOneTimePreKeys(a, n)
        PROVE  RegistryNext
    <3>1. n \in Nat /\ n <= MaxCount[a]
      BY StealthAssumption
    <3> QED
      BY <2>1, <3>1 DEF RegistryNext
  <2> QED
    BY <1>3, <2>1 DEF ContractCall, RegistryNext
<1>4. ASSUME NEW a \in Account,
             \/ StartRegister(a) \/ WalletRejects(a) \/ Submit(a) \/ WaitFails(a)
             \/ Confirm(a) \/ Saved(a) \/ SaveFails(a) \/ Reload(a) \/ Reinitialize(a)
             \/ SavePage(a) \/ \E b \in Account : Greet(a, b)
      PROVE  UNCHANGED registryVars
  BY <1>4 DEF StartRegister, WalletRejects, Submit, WaitFails, Confirm, Saved, SaveFails,
              Reload, Reinitialize, SavePage, Greet
<1>5. CASE UNCHANGED vars
  BY <1>5 DEF vars
<1> QED
  BY <1>1, <1>2, <1>3, <1>4, <1>5 DEF Next, PageStep

\* Key sets are drawn before anything else is done with them.
LEMMA DrawnStep == Inv /\ [Next]_vars => KeysAreDrawn'
<1> SUFFICES ASSUME Inv, [Next]_vars PROVE KeysAreDrawn'
  OBVIOUS
<1> USE DEF Inv, KeysAreDrawn, Phase
<1>1. ASSUME NEW a \in Account, StartRegister(a) PROVE KeysAreDrawn'
  <2>1. KeySetOf(a, drawn[a] + 1) \in DrawnKeySets
    BY <1>1, DrawIsDrawn DEF StartRegister
  <2> QED
    BY <1>1, <2>1 DEF StartRegister, KeySetOf
<1>2. ASSUME NEW a \in Account, Submit(a) PROVE KeysAreDrawn'
  <2>1. mempool[a] \in Seq(DrawnKeySets) /\ draft[a] \in DrawnKeySets
    BY <1>2 DEF Submit
  <2>2. Append(mempool[a], draft[a]) \in Seq(DrawnKeySets)
    BY <2>1
  <2> QED
    BY <1>2, <2>2 DEF Submit
<1>3. ASSUME NEW a \in Account, Mine(a) PROVE KeysAreDrawn'
  <2>1. mempool[a] \in Seq(DrawnKeySets) /\ mempool[a] # <<>>
    BY <1>3 DEF Mine
  <2>2. Tail(mempool[a]) \in Seq(DrawnKeySets)
    BY <2>1
  <2> QED
    BY <1>3, <2>2 DEF Mine, pageVars
<1>4. ASSUME NEW a \in Account, Rotate(a) PROVE KeysAreDrawn'
  BY <1>4 DEF Rotate, pageVars
<1>5. ASSUME NEW a \in Account, WalletRejects(a) \/ WaitFails(a) \/ Confirm(a) \/ Saved(a) \/ SaveFails(a)
      PROVE  KeysAreDrawn'
  <2>1. CASE WalletRejects(a) \/ WaitFails(a)
    BY <2>1 DEF WalletRejects, WaitFails
  <2>2. CASE Confirm(a)
    BY <2>2 DEF Confirm
  <2>3. CASE Saved(a) \/ SaveFails(a)
    BY <2>3 DEF Saved, SaveFails
  <2> QED
    BY <1>5, <2>1, <2>2, <2>3
<1>6. ASSUME NEW a \in Account, Reload(a) \/ Reinitialize(a) \/ SavePage(a) PROVE KeysAreDrawn'
  <2>1. CASE Reload(a)
    BY <2>1 DEF Reload
  <2>2. CASE Reinitialize(a)
    BY <2>2 DEF Reinitialize, MakeClient
  <2>3. CASE SavePage(a)
    BY <2>3 DEF SavePage
  <2> QED
    BY <1>6, <2>1, <2>2, <2>3
<1>7. ASSUME NEW a \in Account, NEW b \in Account, Greet(a, b) PROVE KeysAreDrawn'
  BY <1>7 DEF Greet, pageVars
<1>8. CASE ContractCall
  BY <1>8 DEF ContractCall, pageVars
<1>9. CASE UNCHANGED vars
  BY <1>9 DEF vars, pageVars
<1> QED
  BY <1>1, <1>2, <1>3, <1>4, <1>5, <1>6, <1>7, <1>8, <1>9 DEF Next, PageStep

\* A key set is stored, or loaded, only once its transaction is mined.
LEMMA MinedStep == Inv /\ [Next]_vars => MinedFirst'
<1> SUFFICES ASSUME Inv, [Next]_vars PROVE MinedFirst'
  OBVIOUS
<1> USE DEF Inv, MinedFirst
<1>1. ASSUME NEW a \in Account, Mine(a) PROVE MinedFirst'
  <2>1. Head(mempool[a]) \in DrawnKeySets
    BY <1>1 DEF Mine, KeysAreDrawn
  <2> QED
    BY <1>1, <2>1 DEF Mine, pageVars
<1>2. ASSUME NEW a \in Account, StartRegister(a) \/ WalletRejects(a) \/ Submit(a) \/ WaitFails(a)
      PROVE  MinedFirst'
  BY <1>2 DEF StartRegister, WalletRejects, Submit, WaitFails, KeysAreDrawn
<1>3. ASSUME NEW a \in Account, Confirm(a) \/ Saved(a) \/ SaveFails(a) PROVE MinedFirst'
  BY <1>3 DEF Confirm, Saved, SaveFails, KeysAreDrawn
<1>4. ASSUME NEW a \in Account, Reload(a) \/ Reinitialize(a) \/ SavePage(a) PROVE MinedFirst'
  BY <1>4 DEF Reload, Reinitialize, MakeClient, SavePage, KeysAreDrawn
<1>5. ASSUME NEW a \in Account, Rotate(a) \/ \E b \in Account : Greet(a, b) PROVE MinedFirst'
  BY <1>5 DEF Rotate, Greet, pageVars
<1>6. CASE ContractCall
  BY <1>6 DEF ContractCall, pageVars
<1>7. CASE UNCHANGED vars
  BY <1>7 DEF vars, pageVars
<1> QED
  BY <1>1, <1>2, <1>3, <1>4, <1>5, <1>6, <1>7 DEF Next, PageStep

\* Registering writes a pair; rotating writes a pre-key that the wallet signed,
\* which no identity key is.
LEMMA VerifiedStep == Inv /\ [Next]_vars => VerifiedArePairs'
<1> SUFFICES ASSUME Inv, [Next]_vars PROVE VerifiedArePairs'
  OBVIOUS
<1> USE DEF VerifiedArePairs, hasKeyBundle, verifySignedPreKeySignature
<1>t. /\ identityKey \in [Account -> Key \union {NoKey}]
      /\ signedPreKey \in [Account -> Key \union {NoKey}]
      /\ signedPreKeySignature \in [Account -> Signature \union {NoKey}]
  BY DEF Inv, RegistryInv, RegistryTypeOK
<1>1. ASSUME NEW a \in Account, Mine(a) PROVE VerifiedArePairs'
  <2> DEFINE k == Head(mempool[a])
  <2>1. k \in DrawnKeySets
    BY <1>1 DEF Mine, Inv, KeysAreDrawn
  <2>2. /\ identityKey' = [identityKey EXCEPT ![a] = k.identity]
        /\ signedPreKey' = [signedPreKey EXCEPT ![a] = k.preKey]
        /\ \E s : signedPreKeySignature' = [signedPreKeySignature EXCEPT ![a] = s]
    BY <1>1 DEF Mine, registerKeyBundle
  <2> QED
    BY <1>t, <2>1, <2>2 DEF Inv
<1>2. ASSUME NEW a \in Account, Rotate(a) PROVE VerifiedArePairs'
  <2>1. PICK k : rotateSignedPreKey(a, k, [signer |-> a, over |-> k])
    BY <1>2 DEF Rotate
  <2>2. /\ identityKey' = identityKey
        /\ identityKey[a] \in Key
        /\ signedPreKey' = [signedPreKey EXCEPT ![a] = k]
        /\ signedPreKeySignature' = [signedPreKeySignature EXCEPT ![a] = [signer |-> a, over |-> k]]
    BY <1>t, <2>1 DEF rotateSignedPreKey
  <2>3. identityKey[a] # a
    BY <2>2, RegistrationAssumption
  <2>4. signedPreKeySignature'[a].signer # identityKey'[a]
    BY <1>t, <2>2, <2>3
  <2> QED
    BY <1>t, <2>2, <2>4 DEF Inv
<1>3. CASE ContractCall
  <2>1. ASSUME NEW a \in Account, revokeKeyBundle(a) PROVE VerifiedArePairs'
    BY <1>t, <2>1 DEF revokeKeyBundle, Inv
  <2>2. CASE ConsumeNext \/ Tick \/ \E a \in Account : \E n \in 0..MaxCount[a] : refillOneTimePreKeys(a, n)
    <3>1. UNCHANGED keyVars
      BY <2>2 DEF ConsumeNext, consumeOwnOneTimePreKey, consumeOneTimePreKey, Consume,
                  Tick, refillOneTimePreKeys
    <3> QED
      BY <3>1 DEF keyVars, Inv
  <2> QED
    BY <1>3, <2>1, <2>2 DEF ContractCall
<1>4. ASSUME NEW a \in Account,
             \/ StartRegister(a) \/ WalletRejects(a) \/ Submit(a) \/ WaitFails(a)
             \/ Confirm(a) \/ Saved(a) \/ SaveFails(a) \/ Reload(a) \/ Reinitialize(a)
             \/ SavePage(a) \/ \E b \in Account : Greet(a, b)
      PROVE  VerifiedArePairs'
  <2>1. UNCHANGED keyVars
    BY <1>4 DEF StartRegister, WalletRejects, Submit, WaitFails, Confirm, Saved, SaveFails,
                Reload, Reinitialize, SavePage, Greet, registryVars
  <2> QED
    BY <2>1 DEF keyVars, Inv
<1>5. CASE UNCHANGED vars
  BY <1>5 DEF vars, registryVars, keyVars, Inv
<1> QED
  BY <1>1, <1>2, <1>3, <1>4, <1>5 DEF Next, PageStep

\* A first message is for a verified bundle.
LEMMA GreetingsStep == Inv /\ [Next]_vars => GreetingsFit'
<1> SUFFICES ASSUME Inv, [Next]_vars PROVE GreetingsFit'
  OBVIOUS
<1>1. CASE UNCHANGED greetings
  BY <1>1 DEF Inv, GreetingsFit, Fits
<1>2. ASSUME NEW a \in Account, NEW b \in Account, Greet(a, b) PROVE GreetingsFit'
  <2> DEFINE i == client[a].identity
             eph == Cardinality(greetings)
             m == [senderIdentity |-> i, eph |-> eph, stealth |-> identityKey[b],
                   sessionKey |-> SessionKey(i, eph, identityKey[b], signedPreKey[b])]
  <2>1. IsFiniteSet(greetings) /\ eph \in Nat
    BY FS_CardinalityType DEF Inv, GreetingsFit
  <2>2. greetings' = greetings \union {m}
    BY <1>2 DEF Greet
  <2>3. PICK k \in DrawnKeySets : identityKey[b] = k.identity /\ signedPreKey[b] = k.preKey
    BY <1>2 DEF Greet, resolveRecipientBundle, Inv, VerifiedArePairs
  <2>4. k.identity \in Key /\ k.preKey \in Key
    BY KeySetsAreKeys
  <2>5. client[a] \in DrawnKeySets
    BY <1>2 DEF Greet, Inv, KeysAreDrawn
  <2>6. i \in Key
    BY <2>5, KeySetsAreKeys
  <2>7. m \in Greeting
    BY <2>1, <2>3, <2>4, <2>6 DEF Greeting, SessionKey
  <2>8. Fits(m)
    BY <2>3, <2>7 DEF Fits
  <2>9. IsFiniteSet(greetings')
    BY <2>1, <2>2, FS_AddElement
  <2> QED
    BY <2>2, <2>8, <2>9 DEF Inv, GreetingsFit, Fits
<1> QED
  BY <1>1, <1>2 DEF Next, PageStep, StartRegister, WalletRejects, Submit, Mine, WaitFails, Confirm,
      Saved, SaveFails, Reload, Reinitialize, SavePage, Rotate, ContractCall, vars

-----------------------------------------------------------------------------

\* The invariant holds at the start.
LEMMA InitInv == Init => Inv
<1> SUFFICES ASSUME Init PROVE Inv
  OBVIOUS
<1>1. RegistryInv
  BY RegistryInitInv DEF Init
<1>2. KeysAreDrawn
  BY DEF Init, KeysAreDrawn, Phase
<1>3. MinedFirst
  BY DEF Init, MinedFirst
<1>4. VerifiedArePairs
  BY DEF Init, RegistryInit, VerifiedArePairs, hasKeyBundle
<1>5. GreetingsFit
  BY FS_EmptySet DEF Init, GreetingsFit
<1> QED
  BY <1>1, <1>2, <1>3, <1>4, <1>5 DEF Inv

\* Every step keeps the invariant.
LEMMA NextInv == Inv /\ [Next]_vars => Inv'
BY RegistryStep, RegistryNextInv, DrawnStep, MinedStep, VerifiedStep, GreetingsStep DEF Inv

\* The invariant holds in every reachable state.
THEOREM Invariance == Spec => []Inv
BY InitInv, NextInv, PTL DEF Spec

\* interrupted is only ever TRUE or FALSE.
LEMMA InterruptedStep ==
    ASSUME interrupted \in [Account -> BOOLEAN], [Next]_vars
    PROVE  interrupted' \in [Account -> BOOLEAN]
<1>1. CASE UNCHANGED interrupted
  BY <1>1
<1>2. ASSUME NEW a \in Account, WaitFails(a) \/ Saved(a) \/ SaveFails(a)
      PROVE  interrupted' \in [Account -> BOOLEAN]
  BY <1>2 DEF WaitFails, Saved, SaveFails
<1>3. ASSUME NEW a \in Account, Reload(a) \/ SavePage(a)
      PROVE  interrupted' \in [Account -> BOOLEAN]
  <2>1. PICK v \in BOOLEAN : interrupted' = [interrupted EXCEPT ![a] = v]
    <3>1. CASE Reload(a)
      BY <3>1, Zenon DEF Reload
    <3>2. CASE SavePage(a)
      BY <3>2, Zenon DEF SavePage
    <3> QED
      BY <1>3, <3>1, <3>2
  <2> QED
    BY <2>1
<1> QED
  BY <1>1, <1>2, <1>3 DEF Next, PageStep, StartRegister, WalletRejects, Submit, Mine, Confirm,
      Reinitialize, Rotate, Greet, ContractCall, vars, pageVars

LEMMA InterruptedType == Spec => [](interrupted \in [Account -> BOOLEAN])
<1> DEFINE T == interrupted \in [Account -> BOOLEAN]
<1>1. Init => T
  BY DEF Init
<1>2. T /\ [Next]_vars => T'
  BY InterruptedStep
<1> QED
  BY <1>1, <1>2, PTL DEF Spec

\* Every variable of the registry and of the pages keeps its type, for any
\* accounts and bounds.
THEOREM TypeCorrect == Spec => []TypeOK
<1>1. Inv /\ interrupted \in [Account -> BOOLEAN] => TypeOK
  <2> SUFFICES ASSUME Inv, interrupted \in [Account -> BOOLEAN] PROVE TypeOK
    OBVIOUS
  <2>1. DrawnKeySets \subseteq KeySet
    BY DEF DrawnKeySets
  <2>2. Seq(DrawnKeySets) \subseteq Seq(KeySet)
    BY <2>1
  <2>3. greetings \subseteq Greeting
    BY DEF Inv, GreetingsFit, Fits
  <2> QED
    BY <2>1, <2>2, <2>3 DEF Inv, RegistryInv, KeysAreDrawn, MinedFirst, Phase, TypeOK
<1> QED
  BY <1>1, Invariance, InterruptedType, PTL

\* Pages and owners use the contract in ways the contract's own specification
\* allows, so that what is proved of the contract holds here.
THEOREM ImplementsRegistry == Spec => RegistrySpec
<1>1. Init => RegistryInit
  BY DEF Init
<1> QED
  BY <1>1, RegistryStep, Invariance, PTL DEF Spec, RegistrySpec

\* Pre-keys that show as available can be consumed, for any accounts, batch
\* sizes and sequence of registrations, refills and revocations.
THEOREM PreKeysCovered == Spec => []RemainingCoversAvailable
BY ImplementsRegistry, RemainingCovers, PTL

\* No page ever stores or loads a key set whose transaction was not mined,
\* however registrations, failures and reloads follow one another.
THEOREM StoredHolds == Spec => []StoredWasRegistered
<1>1. Inv => StoredWasRegistered
  BY DEF Inv, MinedFirst, StoredWasRegistered
<1> QED
  BY <1>1, Invariance, PTL

\* Sender and receiver of a first message agree on the session key, for any
\* number of accounts, registrations, rotations, revocations and reloads.
THEOREM AgreementHolds == Spec => []SessionsAgree
<1>1. Inv => SessionsAgree
  <2> SUFFICES ASSUME Inv, NEW m \in greetings, NEW b \in Account, ForMe(b, m)
               PROVE  x3dhResponder(b, m) = m.sessionKey
    BY DEF SessionsAgree
  <2>1. PICK k \in DrawnKeySets :
           /\ m.stealth = k.identity
           /\ m.sessionKey = SessionKey(m.senderIdentity, m.eph, k.identity, k.preKey)
    BY DEF Inv, GreetingsFit, Fits
  <2>2. client[b] \in DrawnKeySets /\ client[b].identity = k.identity
    BY <2>1 DEF ForMe, Inv, KeysAreDrawn
  <2>3. client[b].preKey = k.preKey
    BY <2>2, IdentityHasOnePreKey
  <2> QED
    BY <2>1, <2>2, <2>3 DEF x3dhResponder
<1> QED
  BY <1>1, Invariance, PTL

-----------------------------------------------------------------------------
(* A bundle that can be answered for.  A key set is sent once, in the      *)
(* order it was drawn, and mined in that order: while a page waits, its    *)
(* draft is the last one sent, and once it is mined nothing is left that   *)
(* could overwrite its bundle.                                             *)

\* The key sets that a has drawn so far.
Own(a) == {KeySetOf(a, n) : n \in 1..drawn[a]}

Sent(a) == {mempool[a][i] : i \in 1..Len(mempool[a])} \union mined[a]

\* The draft is the last transaction of the mempool, and in no earlier one.
LastSent(a) ==
    /\ mempool[a] # <<>>
    /\ mempool[a][Len(mempool[a])] = draft[a]
    /\ \A i \in 1..(Len(mempool[a]) - 1) : mempool[a][i] # draft[a]
    /\ draft[a] \notin mined[a]

\* Nothing is left to be mined, and a's bundle, if it has one, is of k.
BundleIs(a, k) ==
    /\ mempool[a] = <<>>
    /\ hasKeyBundle(a) => k # NoKey /\ k.identity = identityKey[a]

Answerable(a) ==
    /\ Sent(a) \subseteq Own(a)
    /\ phase[a] = "signing" => draft[a] \in Own(a) /\ draft[a] \notin Sent(a)
    /\ phase[a] = "confirming" => LastSent(a) \/ BundleIs(a, draft[a])
    /\ phase[a] = "saving" => BundleIs(a, draft[a])
    /\ phase[a] \notin {"confirming", "saving"} /\ ~interrupted[a] => BundleIs(a, stored[a])

AnswerInv ==
    /\ interrupted \in [Account -> BOOLEAN]
    /\ \A a \in Account : Answerable(a)

\* What is in a queue after a key set joins it.
LEMMA QueueAppend ==
    ASSUME NEW S, NEW q \in Seq(S), NEW e \in S
    PROVE  /\ Append(q, e) # <<>>
           /\ Append(q, e)[Len(Append(q, e))] = e
           /\ \A i \in 1..(Len(Append(q, e)) - 1) : i \in 1..Len(q) /\ Append(q, e)[i] = q[i]
           /\ \A i \in 1..Len(Append(q, e)) : Append(q, e)[i] = e \/ \E j \in 1..Len(q) : Append(q, e)[i] = q[j]
OBVIOUS

\* What is in a queue after its head has left it.
LEMMA QueueTail ==
    ASSUME NEW S, NEW q \in Seq(S), q # <<>>
    PROVE  /\ Len(q) \in Nat \ {0} /\ Head(q) = q[1]
           /\ Tail(q) \in Seq(S) /\ Len(Tail(q)) = Len(q) - 1
           /\ \A i \in 1..Len(Tail(q)) : i + 1 \in 1..Len(q) /\ Tail(q)[i] = q[i + 1]
           /\ Len(q) = 1 => Tail(q) = <<>>
           /\ Len(q) # 1 => Tail(q) # <<>>
<1>1. Len(q) \in Nat \ {0} /\ Head(q) = q[1]
  OBVIOUS
<1>2. Tail(q) \in Seq(S) /\ Len(Tail(q)) = Len(q) - 1
  OBVIOUS
<1>3. \A i \in 1..Len(Tail(q)) : i + 1 \in 1..Len(q) /\ Tail(q)[i] = q[i + 1]
  OBVIOUS
<1>4. \A t \in Seq(S) : Len(t) = 0 <=> t = <<>>
  OBVIOUS
<1>5. /\ Len(q) = 1 => Tail(q) = <<>>
      /\ Len(q) # 1 => Tail(q) # <<>>
  <2>1. Tail(q) = <<>> <=> Len(Tail(q)) = 0
    BY <1>2, <1>4
  <2> QED
    BY <2>1, <1>1, <1>2
<1> QED
  BY <1>1, <1>2, <1>3, <1>5

\* An account of which nothing changes stays as it is, whatever it draws.
LEMMA AnswerableFrame ==
    ASSUME KeysAreDrawn, NEW b \in Account, Answerable(b),
           drawn'[b] \in Nat, drawn'[b] >= drawn[b],
           UNCHANGED <<phase[b], draft[b], mempool[b], mined[b], stored[b], identityKey[b], interrupted[b]>>
    PROVE  Answerable(b)'
<1>1. Own(b) \subseteq Own(b)'
  BY DEF Own, KeysAreDrawn
<1>2. Sent(b)' = Sent(b)
  BY DEF Sent
<1> QED
  BY <1>1, <1>2 DEF Answerable, LastSent, BundleIs, hasKeyBundle

\* A new key set is in no transaction yet.
LEMMA AnswerableStart ==
    ASSUME Inv, AnswerInv, NEW a \in Account, StartRegister(a)
    PROVE  Answerable(a)'
<1> DEFINE k == KeySetOf(a, drawn[a] + 1)
<1>1. /\ drawn[a] \in Nat
      /\ drawn'[a] = drawn[a] + 1
      /\ phase'[a] = "signing"
      /\ UNCHANGED <<mempool, mined, stored, identityKey, interrupted>>
  BY DEF StartRegister, Inv, KeysAreDrawn, registryVars, keyVars
<1>2. draft'[a] = k
  BY DEF StartRegister, Inv, KeysAreDrawn, KeySetOf
<1>3. Own(a) \subseteq Own(a)' /\ k \in Own(a)'
  BY <1>1 DEF Own
<1>4. Sent(a)' = Sent(a) /\ Sent(a) \subseteq Own(a)
  BY <1>1 DEF Sent, AnswerInv, Answerable
<1>5. k \notin Own(a)
  <2> SUFFICES ASSUME NEW n \in 1..drawn[a], k = KeySetOf(a, n) PROVE FALSE
    BY DEF Own
  <2>1. k.identity = IdentityKey(a, drawn[a] + 1) /\ KeySetOf(a, n).identity = IdentityKey(a, n)
    BY DEF KeySetOf
  <2>2. drawn[a] + 1 = n
    BY <2>1 DEF IdentityKey
  <2> QED
    BY <2>2, <1>1
<1>6. phase[a] \notin {"confirming", "saving"}
  BY DEF StartRegister
<1>7. ~interrupted'[a] => BundleIs(a, stored[a])'
  BY <1>1, <1>6 DEF AnswerInv, Answerable, BundleIs, hasKeyBundle
<1> QED
  BY <1>1, <1>2, <1>3, <1>4, <1>5, <1>7 DEF Answerable

\* It is the last in the mempool once it is sent.
LEMMA AnswerableSubmit ==
    ASSUME Inv, AnswerInv, NEW a \in Account, Submit(a)
    PROVE  Answerable(a)'
<1> DEFINE q == mempool[a]
<1>1. /\ phase[a] = "signing" /\ phase'[a] = "confirming"
      /\ mempool'[a] = Append(q, draft[a])
      /\ UNCHANGED <<draft, mined, drawn>>
  BY DEF Submit, Inv, KeysAreDrawn
<1>2. q \in Seq(DrawnKeySets) /\ draft[a] \in DrawnKeySets
  BY <1>1 DEF Inv, KeysAreDrawn
<1>3. draft[a] \in Own(a) /\ draft[a] \notin Sent(a) /\ Sent(a) \subseteq Own(a)
  BY <1>1 DEF AnswerInv, Answerable
<1>4. Sent(a)' \subseteq Sent(a) \union {draft[a]}
  BY <1>1, <1>2, QueueAppend DEF Sent
<1>5. Own(a)' = Own(a)
  BY <1>1 DEF Own
<1>6. LastSent(a)'
  <2>1. draft[a] \notin mined[a] /\ \A i \in 1..Len(q) : q[i] # draft[a]
    BY <1>3 DEF Sent
  <2> QED
    BY <2>1, <1>1, <1>2, QueueAppend DEF LastSent
<1> QED
  BY <1>1, <1>3, <1>4, <1>5, <1>6 DEF Answerable

\* When the last transaction is mined, the bundle is that of its key set.
LEMMA AnswerableMine ==
    ASSUME Inv, AnswerInv, NEW a \in Account, Mine(a)
    PROVE  Answerable(a)'
<1> DEFINE q == mempool[a]
<1>1. /\ q # <<>>
      /\ mempool'[a] = Tail(q)
      /\ UNCHANGED <<phase, draft, stored, interrupted, drawn>>
  BY DEF Mine, Inv, KeysAreDrawn, pageVars
<1>2. q \in Seq(DrawnKeySets)
  BY DEF Inv, KeysAreDrawn
<1>3. mined'[a] = mined[a] \union {Head(q)}
  BY DEF Mine, Inv, MinedFirst
<1>4. identityKey'[a] = Head(q).identity
  BY DEF Mine, registerKeyBundle, Inv, RegistryInv, RegistryTypeOK
<1>5. Own(a)' = Own(a)
  BY <1>1 DEF Own
<1>6. Sent(a)' \subseteq Sent(a)
  BY <1>1, <1>2, <1>3, QueueTail DEF Sent
<1>7. Answerable(a)
  BY DEF AnswerInv
<1>8. phase[a] # "saving" /\ (phase[a] = "confirming" => LastSent(a))
      /\ (phase[a] # "confirming" => interrupted[a])
  BY <1>1, <1>7 DEF Answerable, BundleIs
<1>9. ASSUME LastSent(a) PROVE LastSent(a)' \/ BundleIs(a, draft[a])'
  <2>1. CASE Len(q) = 1
    <3>1. draft[a] = Head(q) /\ mempool'[a] = <<>>
      BY <2>1, <1>1, <1>2, <1>9, QueueTail DEF LastSent
    <3>2. draft[a] # NoKey
      <4>1. draft[a] \in DrawnKeySets
        BY <3>1, <1>1, <1>2
      <4> QED
        BY <4>1, RegistrationAssumption DEF DrawnKeySets
    <3> QED
      BY <3>1, <3>2, <1>1, <1>4 DEF BundleIs
  <2>2. CASE Len(q) # 1
    <3>1. /\ Tail(q) # <<>>
          /\ Len(q) \in Nat \ {0} /\ Len(Tail(q)) = Len(q) - 1
          /\ Head(q) = q[1]
          /\ \A i \in 1..Len(Tail(q)) : Tail(q)[i] = q[i + 1]
      BY <2>2, <1>1, <1>2, QueueTail
    <3>2. Tail(q)[Len(Tail(q))] = draft[a]
      BY <3>1, <2>2, <1>9 DEF LastSent
    <3>3. \A i \in 1..(Len(Tail(q)) - 1) : Tail(q)[i] # draft[a]
      BY <3>1, <2>2, <1>9 DEF LastSent
    <3>4. draft[a] \notin mined'[a]
      BY <3>1, <2>2, <1>3, <1>9 DEF LastSent
    <3> QED
      BY <3>1, <3>2, <3>3, <3>4, <1>1 DEF LastSent
  <2> QED
    BY <2>1, <2>2
<1> QED
  BY <1>1, <1>5, <1>6, <1>7, <1>8, <1>9 DEF Answerable

\* Every other step of an account's page leaves its bundle answered for, or
\* remembers that it was interrupted.
LEMMA AnswerablePage ==
    ASSUME Inv, AnswerInv, NEW a \in Account,
           \/ WalletRejects(a) \/ WaitFails(a) \/ Confirm(a) \/ Saved(a) \/ SaveFails(a)
           \/ Reload(a) \/ Reinitialize(a) \/ SavePage(a)
    PROVE  Answerable(a)'
<1>1. UNCHANGED <<draft, mempool, mined, drawn, identityKey>>
  BY DEF WalletRejects, WaitFails, Confirm, Saved, SaveFails, Reload, Reinitialize, SavePage,
      registryVars, keyVars
<1>2. Own(a)' = Own(a) /\ Sent(a)' = Sent(a)
  BY <1>1 DEF Own, Sent
<1>3. LastSent(a)' = LastSent(a) /\ BundleIs(a, draft[a])' = BundleIs(a, draft[a])
  BY <1>1 DEF LastSent, BundleIs, hasKeyBundle
<1>4. stored'[a] = stored[a] => BundleIs(a, stored[a])' = BundleIs(a, stored[a])
  BY <1>1 DEF BundleIs, hasKeyBundle
<1>5. stored'[a] = draft[a] => BundleIs(a, stored[a])' = BundleIs(a, draft[a])
  BY <1>1 DEF BundleIs, hasKeyBundle
<1>6. Answerable(a)
  BY DEF AnswerInv
<1>t. phase \in [Account -> Phase] /\ interrupted \in [Account -> BOOLEAN]
      /\ stored \in [Account -> DrawnKeySets \union {NoKey}]
  BY DEF Inv, KeysAreDrawn, AnswerInv
<1>7. CASE WalletRejects(a)
  <2>1. phase[a] = "signing" /\ phase'[a] = "idle" /\ UNCHANGED <<stored, interrupted>>
    BY <1>7, <1>t DEF WalletRejects
  <2> QED
    BY <2>1, <1>1, <1>2, <1>4, <1>6 DEF Answerable
<1>8. CASE WaitFails(a)
  <2>1. phase'[a] = "idle" /\ interrupted'[a]
    BY <1>8, <1>t DEF WaitFails
  <2> QED
    BY <2>1, <1>1, <1>2, <1>6 DEF Answerable
<1>9. CASE Confirm(a)
  <2>1. phase[a] = "confirming" /\ phase'[a] = "saving" /\ draft[a] \in mined[a]
    BY <1>9, <1>t DEF Confirm
  <2>2. BundleIs(a, draft[a])
    BY <2>1, <1>6 DEF Answerable, LastSent
  <2> QED
    BY <2>1, <2>2, <1>1, <1>2, <1>3, <1>6 DEF Answerable
<1>10. CASE Saved(a)
  <2>1. phase[a] = "saving" /\ phase'[a] = "reinit" /\ stored'[a] = draft[a]
    BY <1>10, <1>t DEF Saved
  <2> QED
    BY <2>1, <1>1, <1>2, <1>5, <1>6 DEF Answerable
<1>11. CASE SaveFails(a)
  <2>1. phase'[a] = "reinit" /\ interrupted'[a]
    BY <1>11, <1>t DEF SaveFails
  <2> QED
    BY <2>1, <1>1, <1>2, <1>6 DEF Answerable
<1>12. CASE Reload(a)
  <2>1. phase'[a] = "idle" /\ UNCHANGED stored
    BY <1>12, <1>t DEF Reload
  <2>2. ~interrupted'[a] => ~interrupted[a] /\ phase[a] \notin {"confirming", "saving"}
    <3>1. interrupted'[a] = (interrupted[a] \/ phase[a] \in {"confirming", "saving"})
      BY <1>12, <1>t, Zenon DEF Reload
    <3> QED
      BY <3>1
  <2> QED
    BY <2>1, <2>2, <1>1, <1>2, <1>4, <1>6 DEF Answerable
<1>13. CASE Reinitialize(a)
  <2>1. phase[a] = "reinit" /\ phase'[a] = "done" /\ UNCHANGED <<stored, interrupted>>
    BY <1>13, <1>t DEF Reinitialize
  <2> QED
    BY <2>1, <1>1, <1>2, <1>4, <1>6 DEF Answerable
<1>14. CASE SavePage(a)
  <2>1. stored'[a] = seen[a] /\ UNCHANGED phase
    BY <1>14, <1>t DEF SavePage
  <2>2. ~interrupted'[a] => ~interrupted[a] /\ seen[a] = stored[a]
    <3>1. interrupted'[a] = (interrupted[a] \/ seen[a] # stored[a])
      BY <1>14, <1>t, Zenon DEF SavePage
    <3> QED
      BY <3>1
  <2> QED
    BY <2>1, <2>2, <1>1, <1>2, <1>3, <1>4, <1>6 DEF Answerable
<1> QED
  BY <1>7, <1>8, <1>9, <1>10, <1>11, <1>12, <1>13, <1>14

\* Every step keeps the accounts answerable.
LEMMA AnswerStep == Inv /\ AnswerInv /\ [Next]_vars => AnswerInv'
<1> SUFFICES ASSUME Inv, AnswerInv, [Next]_vars PROVE AnswerInv'
  OBVIOUS
<1>i. interrupted \in [Account -> BOOLEAN] => interrupted' \in [Account -> BOOLEAN]
  BY InterruptedStep
<1>t. KeysAreDrawn /\ MinedFirst /\ RegistryTypeOK /\ interrupted \in [Account -> BOOLEAN]
  BY DEF Inv, RegistryInv, AnswerInv
<1> DEFINE Still(b) == UNCHANGED <<phase[b], draft[b], mempool[b], mined[b], stored[b],
                                   identityKey[b], interrupted[b]>>
<1>d. \A b \in Account : drawn[b] \in Nat /\ drawn'[b] \in Nat /\ drawn'[b] >= drawn[b]
  <2>1. ASSUME NEW a \in Account, StartRegister(a) \/ Rotate(a) PROVE drawn' = [drawn EXCEPT ![a] = @ + 1]
    BY <2>1 DEF StartRegister, Rotate
  <2>2. CASE UNCHANGED drawn
    BY <2>2, <1>t DEF KeysAreDrawn
  <2>3. ASSUME NEW a \in Account, StartRegister(a) \/ Rotate(a)
        PROVE  \A b \in Account : drawn[b] \in Nat /\ drawn'[b] \in Nat /\ drawn'[b] >= drawn[b]
    <3>1. drawn' = [drawn EXCEPT ![a] = @ + 1]
      BY <2>1, <2>3
    <3>2. drawn \in [Account -> Nat]
      BY <1>t DEF KeysAreDrawn
    <3> QED
      BY <3>1, <3>2
  <2>4. ASSUME NEW a \in Account,
               \/ WalletRejects(a) \/ Submit(a) \/ Mine(a) \/ WaitFails(a) \/ Confirm(a)
               \/ Saved(a) \/ SaveFails(a) \/ Reload(a) \/ Reinitialize(a) \/ SavePage(a)
               \/ \E b \in Account : Greet(a, b)
        PROVE  UNCHANGED drawn
    BY <2>4 DEF WalletRejects, Submit, Mine, WaitFails, Confirm, Saved, SaveFails, Reload,
       Reinitialize, SavePage, Greet
  <2>5. CASE ContractCall \/ UNCHANGED vars
    BY <2>2, <2>5 DEF ContractCall, vars
  <2> QED
    BY <2>2, <2>3, <2>4, <2>5 DEF Next, PageStep
<1>f. ASSUME NEW b \in Account, Still(b) PROVE Answerable(b)'
  BY <1>d, <1>f, AnswerableFrame DEF AnswerInv, Inv
<1>1. ASSUME NEW a \in Account,
             \/ StartRegister(a) \/ Submit(a) \/ Mine(a)
             \/ WalletRejects(a) \/ WaitFails(a) \/ Confirm(a) \/ Saved(a) \/ SaveFails(a)
             \/ Reload(a) \/ Reinitialize(a) \/ SavePage(a)
      PROVE  AnswerInv'
  <2>1. Answerable(a)'
    BY <1>1, AnswerableStart, AnswerableSubmit, AnswerableMine, AnswerablePage
  <2>2. ASSUME NEW b \in Account, b # a PROVE Still(b)
    <3>1. CASE StartRegister(a) \/ Submit(a)
      BY <3>1, <2>2, <1>t DEF StartRegister, Submit, KeysAreDrawn, registryVars, keyVars
    <3>2. CASE Mine(a)
      BY <3>2, <2>2, <1>t DEF Mine, registerKeyBundle, KeysAreDrawn, MinedFirst, RegistryTypeOK, pageVars
    <3>3. CASE WalletRejects(a) \/ WaitFails(a) \/ Confirm(a) \/ Saved(a) \/ SaveFails(a)
      BY <3>3, <2>2, <1>t DEF WalletRejects, WaitFails, Confirm, Saved, SaveFails, KeysAreDrawn,
         registryVars, keyVars
    <3>4. CASE Reload(a) \/ Reinitialize(a) \/ SavePage(a)
      <4>1. interrupted'[b] = interrupted[b]
        BY <3>4, <2>2, <1>t, Zenon DEF Reload, Reinitialize, SavePage
      <4> QED
        BY <3>4, <4>1, <2>2, <1>t DEF Reload, Reinitialize, SavePage, KeysAreDrawn, registryVars, keyVars
    <3> QED
      BY <1>1, <3>1, <3>2, <3>3, <3>4
  <2> QED
    BY <1>i, <1>f, <2>1, <2>2 DEF AnswerInv
<1>2. CASE \/ \E a \in Account : Rotate(a) \/ \E b \in Account : Greet(a, b)
           \/ ConsumeNext /\ ContractCall
           \/ (\E a \in Account : \E n \in 0..MaxCount[a] : refillOneTimePreKeys(a, n)) /\ ContractCall
           \/ Tick /\ ContractCall
           \/ UNCHANGED vars
  <2>1. UNCHANGED <<phase, draft, mempool, mined, stored, interrupted, identityKey>>
    BY <1>2 DEF Rotate, rotateSignedPreKey, Greet, ContractCall, ConsumeNext, consumeOwnOneTimePreKey,
       consumeOneTimePreKey, Consume, refillOneTimePreKeys, Tick, vars, pageVars, registryVars, keyVars
  <2> QED
    BY <2>1, <1>i, <1>f DEF AnswerInv
<1>3. ASSUME NEW a \in Account, revokeKeyBundle(a), ContractCall PROVE AnswerInv'
  <2>1. UNCHANGED <<phase, draft, mempool, mined, stored, interrupted>>
    BY <1>3 DEF ContractCall, pageVars
  <2>2. \A b \in Account : identityKey'[b] = IF b = a THEN NoKey ELSE identityKey[b]
    BY <1>3, <1>t DEF revokeKeyBundle, RegistryTypeOK
  <2>3. ASSUME NEW b \in Account, b # a PROVE Answerable(b)'
    BY <1>f, <2>1, <2>2, <2>3
  <2>4. Answerable(a)'
    <3>1. Own(a) \subseteq Own(a)' /\ Sent(a)' = Sent(a) /\ LastSent(a)' = LastSent(a)
      BY <1>d, <2>1 DEF Own, Sent, LastSent
    <3>2. BundleIs(a, draft[a]) => BundleIs(a, draft[a])'
      BY <2>1, <2>2 DEF BundleIs, hasKeyBundle
    <3>3. BundleIs(a, stored[a]) => BundleIs(a, stored[a])'
      BY <2>1, <2>2 DEF BundleIs, hasKeyBundle
    <3>4. Answerable(a)
      BY DEF AnswerInv
    <3> QED
      BY <2>1, <3>1, <3>2, <3>3, <3>4 DEF Answerable
  <2> QED
    BY <1>i, <2>3, <2>4 DEF AnswerInv
<1> QED
  BY <1>1, <1>2, <1>3 DEF Next, PageStep, ContractCall

\* A page at rest whose last registration was not cut short has stored the
\* keys of its account's bundle, its pre-key too while senders can use it: for
\* any accounts, in any order of registrations, rotations, reloads, failures,
\* saves and revocations, whether or not transactions of an earlier page are
\* still to be mined.
THEOREM AnswerableHolds == Spec => []AnswerableUnlessInterrupted
<1>1. Init => AnswerInv
  BY DEF Init, RegistryInit, AnswerInv, Answerable, Sent, Own, BundleIs, hasKeyBundle
<1>2. Inv /\ AnswerInv => AnswerableUnlessInterrupted
  <2> SUFFICES ASSUME Inv, AnswerInv, NEW a \in Account, hasKeyBundle(a),
                      phase[a] \notin {"confirming", "saving"}, ~interrupted[a]
               PROVE  /\ stored[a] # NoKey
                      /\ stored[a].identity = identityKey[a]
                      /\ verifySignedPreKeySignature(a) => stored[a].preKey = signedPreKey[a]
    BY DEF AnswerableUnlessInterrupted
  <2>1. stored[a] # NoKey /\ stored[a].identity = identityKey[a]
    BY DEF AnswerInv, Answerable, BundleIs
  <2>2. stored[a] \in DrawnKeySets
    BY <2>1 DEF Inv, KeysAreDrawn
  <2>3. ASSUME verifySignedPreKeySignature(a) PROVE stored[a].preKey = signedPreKey[a]
    <3>1. PICK k \in DrawnKeySets : identityKey[a] = k.identity /\ signedPreKey[a] = k.preKey
      BY <2>3 DEF Inv, VerifiedArePairs
    <3> QED
      BY <2>1, <2>2, <3>1, IdentityHasOnePreKey
  <2> QED
    BY <2>1, <2>3
<1> QED
  BY <1>1, <1>2, Invariance, AnswerStep, PTL DEF Spec

-----------------------------------------------------------------------------
(* The key dialog.  With backups every step is still a step of             *)
(* KeyRegistration, or none of it, so that what is proved above holds with *)
(* them; and backups hold only key sets that were registered.              *)

\* What serializeKeys and JSON are given.
DialogKeys == [set : KeySet, bytes : BOOLEAN]

\* Backups are of accounts and cannot be serialized, which
\* BackupsWereRegistered does not say.
BackupInv ==
    /\ BackupsWereRegistered
    /\ keys \in [Account -> DialogKeys \union {NoKey}]
    /\ \A b \in backups : /\ b.address \in Account
                          /\ b.keys \in DialogKeys
                          /\ ~b.keys.bytes

\* What a user does in the dialog leaves registry, pages and storage as they
\* are; a restored backup too, because its keys cannot be serialized.
LEMMA DialogStep ==
    ASSUME BackupInv, NEW a \in Account,
           \/ OpenDialog(a) \/ CloseDialog(a) \/ LoadKeys(a) \/ backupKeys(a)
           \/ \E b \in createStorage : restoreKeys(a, b)
    PROVE  UNCHANGED vars
<1>1. ASSUME NEW b \in createStorage, restoreKeys(a, b) PROVE UNCHANGED vars
  <2>1. ~serializeKeys(b.keys)
    BY DEF BackupInv, createStorage, serializeKeys
  <2> QED
    BY <1>1, <2>1 DEF restoreKeys, setKeys, vars, pageVars
<1> QED
  BY <1>1 DEF OpenDialog, CloseDialog, LoadKeys, backupKeys

\* Registering is what it was.
LEMMA RefinesStep == BackupInv /\ [BackupNext]_<<vars, backupVars>> => [Next]_vars
<1> SUFFICES ASSUME BackupInv, [BackupNext]_<<vars, backupVars>> PROVE [Next]_vars
  OBVIOUS
<1>1. CASE RegistrationStep
  BY <1>1 DEF RegistrationStep, Next
<1>2. ASSUME NEW a \in Account,
             \/ OpenDialog(a) \/ CloseDialog(a) \/ LoadKeys(a) \/ backupKeys(a)
             \/ \E b \in createStorage : restoreKeys(a, b)
      PROVE  UNCHANGED vars
  BY <1>2, DialogStep
<1> QED
  BY <1>1, <1>2 DEF BackupNext

\* What was registered stays so.
LEMMA MinedGrows ==
    ASSUME Inv, [Next]_vars, NEW a \in Account
    PROVE  mined[a] \subseteq mined'[a]
<1>1. ASSUME NEW c \in Account, Mine(c) PROVE mined[a] \subseteq mined'[a]
  <2>1. mined \in [Account -> SUBSET DrawnKeySets]
    BY DEF Inv, MinedFirst
  <2>2. PICK k : mined' = [mined EXCEPT ![c] = @ \union {k}]
    BY <1>1, Zenon DEF Mine
  <2> QED
    BY <2>1, <2>2
<1>2. CASE UNCHANGED mined
  BY <1>2
<1> QED
  BY <1>1, <1>2 DEF Next, PageStep, StartRegister, WalletRejects, Submit, WaitFails, Confirm,
     Saved, SaveFails, Reload, Reinitialize, SavePage, Rotate, Greet, ContractCall, vars, pageVars

\* What the storage holds was registered, and is a key set.
LEMMA StoredIsMined ==
    ASSUME Inv, NEW a \in Account, stored[a] # NoKey
    PROVE  stored[a] \in mined[a] /\ stored[a] \in KeySet
<1>1. stored[a] \in DrawnKeySets /\ stored[a] \in mined[a]
  BY DEF Inv, KeysAreDrawn, MinedFirst
<1> QED
  BY <1>1, KeySetsAreKeys

LEMMA BackupStep == Inv /\ BackupInv /\ [BackupNext]_<<vars, backupVars>> => BackupInv'
<1> SUFFICES ASSUME Inv, BackupInv, [BackupNext]_<<vars, backupVars>> PROVE BackupInv'
  OBVIOUS
<1> USE DEF BackupInv, BackupsWereRegistered
<1>1. \A a \in Account : mined[a] \subseteq mined'[a]
  BY MinedGrows, RefinesStep
<1>2. CASE UNCHANGED <<keys, backups>>
  BY <1>1, <1>2
<1>3. ASSUME NEW a \in Account, Unmount(a), UNCHANGED backups PROVE BackupInv'
  <2>1. keys' = [keys EXCEPT ![a] = NoKey]
    BY <1>3 DEF Unmount
  <2> QED
    BY <1>1, <1>3, <2>1
<1>4. ASSUME NEW a \in Account, LoadKeys(a) PROVE BackupInv'
  <2>1. CASE stored[a] # NoKey /\ keys' = [keys EXCEPT ![a] = deserializeKeys(stored[a])]
    <3>1. stored[a] \in mined'[a] /\ stored[a] \in KeySet
      BY <1>1, <2>1, StoredIsMined
    <3>2. UNCHANGED backups
      BY <1>4 DEF LoadKeys
    <3> QED
      BY <1>1, <2>1, <3>1, <3>2 DEF deserializeKeys, DialogKeys
  <2> QED
    BY <1>2, <1>4, <2>1 DEF LoadKeys
<1>5. ASSUME NEW a \in Account, backupKeys(a) PROVE BackupInv'
  <2>1. backups' = backups \union {createBackup(a, createKeyBackupData(a, keys[a]))} /\ keys[a] # NoKey /\ UNCHANGED keys
    BY <1>5 DEF backupKeys
  <2> DEFINE b == createBackup(a, createKeyBackupData(a, keys[a]))
  <2>2. b.address = a /\ b.keys = [keys[a] EXCEPT !.bytes = FALSE]
    BY DEF createBackup, createKeyBackupData
  <2>3. b.keys \in DialogKeys /\ ~b.keys.bytes /\ b.keys.set = keys[a].set
    BY <2>1, <2>2 DEF DialogKeys
  <2> QED
    BY <1>1, <2>1, <2>2, <2>3
<1>6. ASSUME NEW a \in Account, NEW b \in createStorage, restoreKeys(a, b) PROVE BackupInv'
  <2>1. b \in backups /\ b.keys.set \in mined[a]
    BY <1>6 DEF createStorage, restoreKeys, Restorable
  <2>2. keys' = [keys EXCEPT ![a] = b.keys] /\ UNCHANGED backups
    BY <1>6 DEF restoreKeys, setKeys
  <2> QED
    BY <1>1, <2>1, <2>2
<1>7. CASE RegistrationStep
  BY <1>2, <1>3, <1>7 DEF RegistrationStep
<1> QED
  BY <1>2, <1>3, <1>4, <1>5, <1>6, <1>7 DEF BackupNext, OpenDialog, CloseDialog, backupVars

\* The two invariants hold together: that a step is one of Next needs the
\* second, and what Next does with the storage needs the first.
LEMMA BothHold == BackupSpec => [](Inv /\ BackupInv)
<1>1. BackupInit => Inv /\ BackupInv
  BY InitInv DEF BackupInit, BackupInv, BackupsWereRegistered
<1>2. Inv /\ BackupInv /\ [BackupNext]_<<vars, backupVars>> => Inv'
  BY RefinesStep, NextInv
<1> QED
  BY <1>1, <1>2, BackupStep, PTL DEF BackupSpec

\* Backups change nothing of what the registry, the pages and the storage do:
\* every theorem about registering keys holds with them.
THEOREM ImplementsRegistration == BackupSpec => Spec
<1>1. BackupInit => Init
  BY DEF BackupInit
<1> QED
  BY <1>1, BothHold, RefinesStep, PTL DEF BackupSpec, Spec

\* The dialog and all backups hold only key sets that their account has
\* registered, for any accounts, CIDs entered, failures and reloads.
THEOREM BackupsHold == BackupSpec => []BackupsWereRegistered
<1>1. BackupInv => BackupsWereRegistered
  BY DEF BackupInv
<1> QED
  BY <1>1, BothHold, PTL
=============================================================================
