----------------------------- MODULE MessageHub -----------------------------
(***************************************************************************)
(* contracts/core/MessageHub.sol: the log of direct and group messages,    *)
(* the nullifiers it has seen and the index of direct messages by view     *)
(* tag.  The events are the log, which clients read; the contract keeps    *)
(* only positions in it.                                                   *)
(***************************************************************************)
EXTENDS ZKVerifier, Sequences, SequencesExt

CONSTANTS
    ViewTag,                    \* bytes1 values in use
    MAX_MESSAGES_PER_VIEW_TAG,  \* 10000
    MAX_BATCH_SIZE,             \* 100
    MaxUint                     \* the largest uint256

ASSUME HubAssumption ==
    /\ MAX_MESSAGES_PER_VIEW_TAG \in Nat
    /\ MaxUint \in Nat
    /\ 2 * MAX_MESSAGES_PER_VIEW_TAG <= MaxUint

VARIABLES
    usedNullifiers,         \* {n : usedNullifiers[n]}
    commitmentTimestamp,    \* {c : commitmentTimestamp[c] # 0}
    messagesByViewTag,      \* messagesByViewTag[t]: positions in the log, from 0
    viewTagArrayLength,     \* viewTagArrayLength[t]
    totalMessages,
    log                     \* the events, oldest first

tagVars == <<messagesByViewTag, viewTagArrayLength>>
hubVars == <<usedNullifiers, commitmentTimestamp, tagVars, totalMessages, log>>

HubInit ==
    /\ usedNullifiers = {}
    /\ commitmentTimestamp = {}
    /\ messagesByViewTag = [t \in ViewTag |-> <<>>]
    /\ viewTagArrayLength = [t \in ViewTag |-> 0]
    /\ totalMessages = 0
    /\ log = <<>>

\* The places of the direct messages with a tag.
Tagged(msgs, t) == {i \in DOMAIN msgs : msgs[i].kind = "direct" /\ msgs[i].viewTag = t}

\* The loop of a batch pushes them from the first on.
Increasing(s) == \A i, j \in DOMAIN s : i < j => s[i] < s[j]
InOrder(places) == CHOOSE s \in [1..Cardinality(places) -> places] : Increasing(s)

\* A message is its event: kind, viewTag, commitment, nullifier, and whatever
\* clients read in it.  postDirectMessage is the batch of one: the checks of
\* a message come after the effects of those before it.
PostDirect(msgs) ==
    /\ Len(msgs) <= MAX_BATCH_SIZE
    /\ \A i \in DOMAIN msgs :
           /\ msgs[i].nullifier \notin usedNullifiers
           /\ \A j \in 1..i - 1 : msgs[j].nullifier # msgs[i].nullifier
           /\ viewTagArrayLength[msgs[i].viewTag]
                  + Cardinality({j \in 1..i - 1 : msgs[j].viewTag = msgs[i].viewTag})
                  < MAX_MESSAGES_PER_VIEW_TAG
    /\ usedNullifiers' = usedNullifiers \union {msgs[i].nullifier : i \in DOMAIN msgs}
    /\ commitmentTimestamp' = commitmentTimestamp \union {msgs[i].commitment : i \in DOMAIN msgs}
    /\ messagesByViewTag' = [t \in ViewTag |->
           messagesByViewTag[t] \o InOrder({totalMessages + i - 1 : i \in Tagged(msgs, t)})]
    /\ viewTagArrayLength' = [t \in ViewTag |->
           viewTagArrayLength[t] + Cardinality(Tagged(msgs, t))]
    /\ totalMessages' = totalMessages + Len(msgs)
    /\ log' = log \o msgs

postDirectMessage(m) ==
    /\ PostDirect(<<m>>)
    /\ UNCHANGED verifierVars

postDirectMessageBatch(msgs) ==
    /\ PostDirect(msgs)
    /\ UNCHANGED verifierVars

\* Mutant: totalMessages counts direct messages only.
postGroupMessageUncounted(m, proof, root) ==
    /\ m.nullifier \notin usedNullifiers
    /\ verifyMembership(proof, root, m.group, m.nullifier)
    /\ usedNullifiers' = usedNullifiers \union {m.nullifier}
    /\ log' = Append(log, m)
    /\ UNCHANGED <<totalMessages, commitmentTimestamp, tagVars, verifierVars>>

\* Mutant: left to the verifier, which does not consume it.
postGroupMessageUnspent(m, proof, root) ==
    /\ verifyMembership(proof, root, m.group, m.nullifier)
    /\ totalMessages' = totalMessages + 1
    /\ log' = Append(log, m)
    /\ UNCHANGED <<usedNullifiers, commitmentTimestamp, tagVars, verifierVars>>

\* A group message counts in totalMessages and is in no index.
postGroupMessage(m, proof, root) ==
    /\ m.nullifier \notin usedNullifiers
    /\ verifyMembership(proof, root, m.group, m.nullifier)
    /\ usedNullifiers' = usedNullifiers \union {m.nullifier}
    /\ totalMessages' = totalMessages + 1
    /\ log' = Append(log, m)
    /\ UNCHANGED <<commitmentTimestamp, tagVars, verifierVars>>

\* offset + limit is computed with a check: a page that would end past
\* MaxUint is refused, unless it starts past the index.
PageReverts(t, offset, limit) ==
    offset < Len(messagesByViewTag[t]) /\ offset + limit > MaxUint

\* Mutant: the end of the page does not count the offset.
pageUpToLimit(t, offset, limit) ==
    LET length == Len(messagesByViewTag[t])
    IN  SubSeq(messagesByViewTag[t], offset + 1, IF limit > length THEN length ELSE limit)

\* A page of a tag's index.
getMessagesByViewTag(t, offset, limit) ==
    LET length == Len(messagesByViewTag[t])
        end == IF offset + limit > length THEN length ELSE offset + limit
    IN  IF offset >= length THEN <<>>
        ELSE SubSeq(messagesByViewTag[t], offset + 1, end)

-----------------------------------------------------------------------------
(* Properties                                                              *)

\* No nullifier is in the log twice, whether its messages were posted alone,
\* in one batch or to a group.
NullifierOnce ==
    \A i, j \in DOMAIN log : log[i].nullifier = log[j].nullifier => i = j

\* The pages of a tag, read one after the other with any limit, give the
\* place in the log of every direct message with the tag, each once and in
\* order, and no other: group messages are counted and not listed.  None of
\* them reverts, and after one that is not full come empty ones only.
PagesCoverLog ==
    \A t \in ViewTag : \A limit \in 1..MaxUint :
        LET pages == 1..Len(messagesByViewTag[t]) + 1
            page(k) == getMessagesByViewTag(t, (k - 1) * limit, limit)
        IN  /\ \A k \in pages : ~PageReverts(t, (k - 1) * limit, limit)
            /\ UNION {Range(page(k)) : k \in pages} = {i - 1 : i \in Tagged(log, t)}
            /\ \A k \in pages : Increasing(page(k))
            /\ \A k, l \in pages : k < l =>
                   /\ \A i \in Range(page(k)), j \in Range(page(l)) : i < j
                   /\ Len(page(k)) < limit => page(l) = <<>>
=============================================================================
