------------------------------ MODULE Ratchet ------------------------------
(***************************************************************************)
(* The message ratchet of src/ratchet.ts, as operators on ratchet states.  *)
(*                                                                         *)
(* Key derivation is symbolic.  A chain key is the triple of the root it   *)
(* was derived from, which of the two chains of that root it belongs to,   *)
(* and its position; the message key of a position is the chain key of     *)
(* that position.  So two keys are equal exactly when they were derived    *)
(* the same way, and a ciphertext opens exactly under the key and header   *)
(* it was sealed with.                                                     *)
(***************************************************************************)
EXTENDS Integers, Sequences, FiniteSetsExt

CONSTANTS
    MAX_SKIP,           \* most keys skipped at once, and most keys cached (1000)
    MAX_SKIPPED_KEYS,   \* keys kept after a successful decryption (500)
    NoKey               \* undefined

\* slice(-0) would keep every key.
ASSUME RatchetAssumption ==
    /\ MAX_SKIP \in Nat
    /\ MAX_SKIPPED_KEYS \in Nat \ {0}

-----------------------------------------------------------------------------
(* Key derivation.                                                         *)

Chain(root, way) == [root |-> root, way |-> way, n |-> 0]

\* kdfChain: the key of the position, and the chain moved on by k positions.
MessageKey(chain) == chain
Advance(chain, k) == [chain EXCEPT !.n = @ + k]

\* Mutant: the responder's chains are not swapped.
initRatchetUnswapped(sessionKey, dhPair, isInitiator) ==
    [ rootKey      |-> sessionKey,
      sendChainKey |-> Chain(sessionKey, 1),
      recvChainKey |-> Chain(sessionKey, 2),
      dhPair       |-> dhPair,
      theirDhPub   |-> NoKey,
      sendCount    |-> 0,
      recvCount    |-> 0,
      skippedKeys  |-> <<>> ]

\* The initiator's first chain is the responder's second one.
initRatchet(sessionKey, dhPair, isInitiator) ==
    [ rootKey      |-> sessionKey,
      sendChainKey |-> Chain(sessionKey, IF isInitiator THEN 1 ELSE 2),
      recvChainKey |-> Chain(sessionKey, IF isInitiator THEN 2 ELSE 1),
      dhPair       |-> dhPair,
      theirDhPub   |-> NoKey,
      sendCount    |-> 0,
      recvCount    |-> 0,
      skippedKeys  |-> <<>> ]

\* A new root from the Diffie-Hellman of both pairs.  The send chain comes
\* first on both sides.
dhRatchet(state, theirDhPub, newDhPair) ==
    LET root == <<state.rootKey, {state.dhPair, theirDhPub}>>
    IN  [ state EXCEPT !.rootKey = root,
                       !.sendChainKey = Chain(root, 1),
                       !.recvChainKey = Chain(root, 2),
                       !.dhPair = newDhPair,
                       !.theirDhPub = theirDhPub,
                       !.sendCount = 0,
                       !.recvCount = 0 ]

-----------------------------------------------------------------------------
(* ratchetEncrypt                                                          *)

\* The header and the key of the next message.  prevChainLen is the number
\* of messages received, as in the code.
Seal(state) ==
    [ dhPub        |-> state.dhPair,
      msgIndex     |-> state.sendCount,
      prevChainLen |-> state.recvCount,
      key          |-> MessageKey(state.sendChainKey) ]

Sealed(state) ==
    [state EXCEPT !.sendChainKey = Advance(@, 1), !.sendCount = @ + 1]

-----------------------------------------------------------------------------
(* ratchetDecrypt.  Opens says whether it returns, Opened is the state it  *)
(* returns, and Left is what it leaves of the state it was given when it   *)
(* throws: it pushes skipped keys onto that state's own array before it    *)
(* knows whether the message opens.                                        *)

CachedAt(state, m) ==
    {i \in 1..Len(state.skippedKeys) :
        /\ state.skippedKeys[i].dhPub = m.dhPub
        /\ state.skippedKeys[i].msgIndex = m.msgIndex}

IsCached(state, m) == CachedAt(state, m) # {}

\* findIndex takes the first entry.
CachedIndex(state, m) == Min(CachedAt(state, m))

WithoutEntry(keys, i) ==
    SubSeq(keys, 1, i - 1) \o SubSeq(keys, i + 1, Len(keys))

\* slice(-n)
KeepLast(keys, n) ==
    IF Len(keys) <= n THEN keys ELSE SubSeq(keys, Len(keys) - n + 1, Len(keys))

\* Mutant: the skipped keys are cached one index too high.
SkipKeysOffByOne(state, dhPub, k) ==
    LET passed == [i \in 1..k |->
                      [ dhPub    |-> dhPub,
                        msgIndex |-> state.recvCount + i,
                        key      |-> MessageKey(Advance(state.recvChainKey, i - 1)) ]]
        cache  == state.skippedKeys \o passed
    IN  [state EXCEPT !.recvChainKey = Advance(@, k),
                      !.skippedKeys = SubSeq(cache, 1, Min({Len(cache), MAX_SKIP}))]

\* Move the receive chain k positions on, caching the keys passed over under
\* dhPub while there is room.  recvCount is not touched.
SkipKeys(state, dhPub, k) ==
    LET passed == [i \in 1..k |->
                      [ dhPub    |-> dhPub,
                        msgIndex |-> state.recvCount + i - 1,
                        key      |-> MessageKey(Advance(state.recvChainKey, i - 1)) ]]
        cache  == state.skippedKeys \o passed
    IN  [state EXCEPT !.recvChainKey = Advance(@, k),
                      !.skippedKeys = SubSeq(cache, 1, Min({Len(cache), MAX_SKIP}))]

\* Only a state that dhRatchet made before knows the other side's DH key.
NeedsDhRatchet(state, m) == state.theirDhPub \notin {NoKey, m.dhPub}

SkippedInOldChain(state, m) ==
    IF NeedsDhRatchet(state, m)
    THEN Max({0, m.prevChainLen - state.recvCount})
    ELSE 0

\* The state after steps 2 and 3: in the chain the message belongs to.
InChain(state, m, newDhPair) ==
    IF NeedsDhRatchet(state, m)
    THEN dhRatchet(SkipKeys(state, state.theirDhPub, SkippedInOldChain(state, m)),
                   m.dhPub, newDhPair)
    ELSE state

\* The state after step 4: the receive chain is at the message's position.
AtMessage(state, m, newDhPair) ==
    LET here == InChain(state, m, newDhPair)
    IN  SkipKeys(here, m.dhPub, m.msgIndex - here.recvCount)

BeforeExpected(state, m, newDhPair) ==
    m.msgIndex < InChain(state, m, newDhPair).recvCount

SkipLimitExceeded(state, m, newDhPair) ==
    \/ SkippedInOldChain(state, m) > MAX_SKIP
    \/ m.msgIndex - InChain(state, m, newDhPair).recvCount > MAX_SKIP

Opens(state, m, newDhPair) ==
    IF IsCached(state, m)
    THEN state.skippedKeys[CachedIndex(state, m)].key = m.key
    ELSE /\ ~BeforeExpected(state, m, newDhPair)
         /\ ~SkipLimitExceeded(state, m, newDhPair)
         /\ MessageKey(AtMessage(state, m, newDhPair).recvChainKey) = m.key

\* Mutant: the chain is not moved past the message.
OpenedStays(state, m, newDhPair) ==
    IF IsCached(state, m)
    THEN [state EXCEPT !.skippedKeys = WithoutEntry(@, CachedIndex(state, m))]
    ELSE [AtMessage(state, m, newDhPair) EXCEPT
             !.recvCount = m.msgIndex,
             !.skippedKeys = KeepLast(@, MAX_SKIPPED_KEYS)]

\* Mutant: the message is counted twice.
OpenedCountsTwo(state, m, newDhPair) ==
    IF IsCached(state, m)
    THEN [state EXCEPT !.skippedKeys = WithoutEntry(@, CachedIndex(state, m))]
    ELSE [AtMessage(state, m, newDhPair) EXCEPT
             !.recvChainKey = Advance(@, 1),
             !.recvCount = m.msgIndex + 2,
             !.skippedKeys = KeepLast(@, MAX_SKIPPED_KEYS)]

\* Mutant: a cached key stays in the cache when it was used.
OpenedKeepsKey(state, m, newDhPair) ==
    IF IsCached(state, m)
    THEN state
    ELSE [AtMessage(state, m, newDhPair) EXCEPT
             !.recvChainKey = Advance(@, 1),
             !.recvCount = m.msgIndex + 1,
             !.skippedKeys = KeepLast(@, MAX_SKIPPED_KEYS)]

Opened(state, m, newDhPair) ==
    IF IsCached(state, m)
    THEN [state EXCEPT !.skippedKeys = WithoutEntry(@, CachedIndex(state, m))]
    ELSE [AtMessage(state, m, newDhPair) EXCEPT
             !.recvChainKey = Advance(@, 1),
             !.recvCount = m.msgIndex + 1,
             !.skippedKeys = KeepLast(@, MAX_SKIPPED_KEYS)]

Left(state, m, newDhPair) ==
    LET pushed ==
            CASE IsCached(state, m) \/ SkippedInOldChain(state, m) > MAX_SKIP ->
                     state
              [] BeforeExpected(state, m, newDhPair)
                 \/ SkipLimitExceeded(state, m, newDhPair) ->
                     InChain(state, m, newDhPair)
              [] OTHER -> AtMessage(state, m, newDhPair)
    IN  [state EXCEPT !.skippedKeys = pushed.skippedKeys]

\* pruneSkippedKeys
Pruned(state, maxAge) == [state EXCEPT !.skippedKeys = KeepLast(@, maxAge)]
=============================================================================
