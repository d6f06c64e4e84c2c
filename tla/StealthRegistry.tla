-------------------------- MODULE StealthRegistry --------------------------
(***************************************************************************)
(* contracts/core/StealthRegistry.sol: the key bundle of each account and  *)
(* its one-time pre-keys.                                                  *)
(*                                                                         *)
(* A bundle says how many one-time pre-keys it has and how many of them    *)
(* were consumed; which ones were is kept in a mapping of its own, which   *)
(* no call ever clears: registering, refilling and revoking set the two    *)
(* counters and leave the flags.  One variable per field that matters; a   *)
(* call that reverts leaves every variable unchanged and is not an action. *)
(* identityKey stands for the stealth keys too, which no call writes       *)
(* without it.                                                             *)
(***************************************************************************)
EXTENDS Integers, FiniteSets

CONSTANTS
    Account,                \* owners and callers
    Key,                    \* public keys
    NoKey,                  \* the empty byte string
    MaxCount,               \* MaxCount[a]: bound on a's oneTimePreKeyCount (2^256 - 1)
    MIN_UPDATE_INTERVAL,    \* 1 hour
    MaxTime                 \* bound on block.timestamp

ASSUME StealthAssumption ==
    /\ NoKey \notin Key
    /\ MaxCount \in [Account -> Nat]
    /\ MIN_UPDATE_INTERVAL \in Nat
    /\ MaxTime \in Nat

VARIABLES
    identityKey,            \* identityKey[a]; NoKey: no bundle registered
    signedPreKey,           \* signedPreKey[a]
    signedPreKeySignature,  \* signedPreKeySignature[a]: who signed which key
    updatedAt,              \* updatedAt[a]
    oneTimePreKeyCount,     \* oneTimePreKeyCount[a]
    oneTimePreKeyConsumed,  \* oneTimePreKeyConsumed[a]
    consumedOneTimePreKeys, \* consumedOneTimePreKeys[a]: the indices whose flag is set
    timestamp               \* block.timestamp

keyVars == <<identityKey, signedPreKey, signedPreKeySignature, updatedAt>>
countVars == <<oneTimePreKeyCount, oneTimePreKeyConsumed>>
registryVars == <<keyVars, countVars, consumedOneTimePreKeys, timestamp>>

\* A signature by a wallet or an identity key over a public key.
Signature == [signer : Account \union Key, over : Key]

RegistryTypeOK ==
    /\ identityKey \in [Account -> Key \union {NoKey}]
    /\ signedPreKey \in [Account -> Key \union {NoKey}]
    /\ signedPreKeySignature \in [Account -> Signature \union {NoKey}]
    /\ updatedAt \in [Account -> 0..timestamp]
    /\ oneTimePreKeyCount \in [Account -> Nat]
    /\ oneTimePreKeyConsumed \in [Account -> Nat]
    /\ \A a \in Account : oneTimePreKeyConsumed[a] <= oneTimePreKeyCount[a]
    /\ consumedOneTimePreKeys \in [Account -> SUBSET Nat]
    /\ timestamp \in 0..MaxTime

RegistryInit ==
    /\ identityKey = [a \in Account |-> NoKey]
    /\ signedPreKey = [a \in Account |-> NoKey]
    /\ signedPreKeySignature = [a \in Account |-> NoKey]
    /\ updatedAt = [a \in Account |-> 0]
    /\ oneTimePreKeyCount = [a \in Account |-> 0]
    /\ oneTimePreKeyConsumed = [a \in Account |-> 0]
    /\ consumedOneTimePreKeys = [a \in Account |-> {}]
    /\ timestamp = 0

-----------------------------------------------------------------------------

hasKeyBundle(a) == identityKey[a] # NoKey

\* A checked subtraction, which reverts where it would go below zero.
getRemainingOneTimePreKeys(a) == oneTimePreKeyCount[a] - oneTimePreKeyConsumed[a]

isOneTimePreKeyAvailable(a, i) ==
    i < oneTimePreKeyCount[a] /\ i \notin consumedOneTimePreKeys[a]

Available(a) == {i \in 0..(oneTimePreKeyCount[a] - 1) : isOneTimePreKeyAvailable(a, i)}

-----------------------------------------------------------------------------
(* Transactions.                                                           *)

\* The whole bundle is written.  The pre-key's signature is stored unread.
registerKeyBundle(a, ik, spk, signature, count) ==
    /\ identityKey' = [identityKey EXCEPT ![a] = ik]
    /\ signedPreKey' = [signedPreKey EXCEPT ![a] = spk]
    /\ signedPreKeySignature' = [signedPreKeySignature EXCEPT ![a] = signature]
    /\ updatedAt' = [updatedAt EXCEPT ![a] = timestamp]
    /\ oneTimePreKeyCount' = [oneTimePreKeyCount EXCEPT ![a] = count]
    /\ oneTimePreKeyConsumed' = [oneTimePreKeyConsumed EXCEPT ![a] = 0]
    /\ UNCHANGED <<consumedOneTimePreKeys, timestamp>>

\* The signature must be one by the account's wallet.
rotateSignedPreKey(a, spk, signature) ==
    /\ hasKeyBundle(a)
    /\ timestamp >= updatedAt[a] + MIN_UPDATE_INTERVAL
    /\ signature = [signer |-> a, over |-> spk]
    /\ signedPreKey' = [signedPreKey EXCEPT ![a] = spk]
    /\ signedPreKeySignature' = [signedPreKeySignature EXCEPT ![a] = signature]
    /\ updatedAt' = [updatedAt EXCEPT ![a] = timestamp]
    /\ UNCHANGED <<identityKey, countVars, consumedOneTimePreKeys, timestamp>>

\* Mutant: the index is not marked as consumed.
ConsumeUnmarked(owner, i) ==
    /\ hasKeyBundle(owner)
    /\ i < oneTimePreKeyCount[owner]
    /\ i \notin consumedOneTimePreKeys[owner]
    /\ oneTimePreKeyConsumed[owner] < oneTimePreKeyCount[owner]
    /\ oneTimePreKeyConsumed' = [oneTimePreKeyConsumed EXCEPT ![owner] = @ + 1]
    /\ UNCHANGED <<keyVars, oneTimePreKeyCount, consumedOneTimePreKeys, timestamp>>

\* What the two ways to consume a pre-key have in common.  The last guard is
\* that of the checked subtraction that follows the increment.
Consume(owner, i) ==
    /\ hasKeyBundle(owner)
    /\ i < oneTimePreKeyCount[owner]
    /\ i \notin consumedOneTimePreKeys[owner]
    /\ oneTimePreKeyConsumed[owner] < oneTimePreKeyCount[owner]
    /\ consumedOneTimePreKeys' = [consumedOneTimePreKeys EXCEPT ![owner] = @ \union {i}]
    /\ oneTimePreKeyConsumed' = [oneTimePreKeyConsumed EXCEPT ![owner] = @ + 1]
    /\ UNCHANGED <<keyVars, oneTimePreKeyCount, timestamp>>

consumeOneTimePreKey(sender, owner, i, signature) ==
    /\ signature = [signer |-> owner, sender |-> sender, index |-> i,
                    nonce |-> oneTimePreKeyConsumed[owner]]
    /\ Consume(owner, i)

consumeOwnOneTimePreKey(a, i) == Consume(a, i)

\* Mutant: the consumed count is not reset.
RefillKeepsConsumed(a, newCount) ==
    /\ hasKeyBundle(a)
    /\ oneTimePreKeyCount' = [oneTimePreKeyCount EXCEPT ![a] = newCount]
    /\ UNCHANGED <<keyVars, oneTimePreKeyConsumed, consumedOneTimePreKeys, timestamp>>

refillOneTimePreKeys(a, newCount) ==
    /\ hasKeyBundle(a)
    /\ oneTimePreKeyCount' = [oneTimePreKeyCount EXCEPT ![a] = newCount]
    /\ oneTimePreKeyConsumed' = [oneTimePreKeyConsumed EXCEPT ![a] = 0]
    /\ UNCHANGED <<keyVars, consumedOneTimePreKeys, timestamp>>

revokeKeyBundle(a) ==
    /\ identityKey' = [identityKey EXCEPT ![a] = NoKey]
    /\ signedPreKey' = [signedPreKey EXCEPT ![a] = NoKey]
    /\ signedPreKeySignature' = [signedPreKeySignature EXCEPT ![a] = NoKey]
    /\ updatedAt' = [updatedAt EXCEPT ![a] = 0]
    /\ oneTimePreKeyCount' = [oneTimePreKeyCount EXCEPT ![a] = 0]
    /\ oneTimePreKeyConsumed' = [oneTimePreKeyConsumed EXCEPT ![a] = 0]
    /\ UNCHANGED <<consumedOneTimePreKeys, timestamp>>

Tick ==
    /\ timestamp < MaxTime
    /\ timestamp' = timestamp + 1
    /\ UNCHANGED <<keyVars, countVars, consumedOneTimePreKeys>>

\* The ways to consume a pre-key, by any account and for any that has signed.
ConsumeNext ==
    \E a \in Account :
        \/ \E i \in 0..(MaxCount[a] - 1) : consumeOwnOneTimePreKey(a, i)
        \/ \E owner \in Account : \E i, nonce \in 0..(MaxCount[owner] - 1) :
               consumeOneTimePreKey(a, owner, i, [signer |-> owner, sender |-> a,
                                                  index |-> i, nonce |-> nonce])

RegistryNext ==
    \/ \E a \in Account, ik, spk \in Key \union {NoKey},
           signature \in Signature \union {NoKey}, n \in Nat :
           n <= MaxCount[a] /\ registerKeyBundle(a, ik, spk, signature, n)
    \/ \E a \in Account, spk \in Key, signature \in Signature :
           rotateSignedPreKey(a, spk, signature)
    \/ ConsumeNext
    \/ \E a \in Account, n \in Nat : n <= MaxCount[a] /\ refillOneTimePreKeys(a, n)
    \/ \E a \in Account : revokeKeyBundle(a)
    \/ Tick

\* The contract called by anybody with anything.
RegistrySpec == RegistryInit /\ [][RegistryNext]_registryVars

-----------------------------------------------------------------------------

\* A pre-key that shows as available can be consumed: the counters leave room
\* for every one of them, although a refill sets the consumed count back and
\* keeps the flags, so that the subtraction in the two consuming calls never
\* reverts.
RemainingCoversAvailable ==
    \A a \in Account : Cardinality(Available(a)) <= getRemainingOneTimePreKeys(a)
=============================================================================
