---------------------------- MODULE GroupMessages ----------------------------
(***************************************************************************)
(* Group messages from the identity tree to the reader: the tree of        *)
(* src/zkProof.ts and its proofs, the contracts ZKVerifier and MessageHub, *)
(* and sendGroupMessage and scanForMessages of src/client.ts, in which the *)
(* direct messages share the log and the scan with the group's.            *)
(*                                                                         *)
(* The prover is external: it has a proof for a group member who has a     *)
(* path that opens a root, of the statement of circuits/GroupMember.circom *)
(* (root, group and the nullifier that computeGroupNullifier computes).    *)
(* The contract accepts none of these: the group messages in the log are   *)
(* of clients that make their proofs for the equation it checks.  One      *)
(* reader scans, with a groupKeyResolver that answers with the current key *)
(* of the event's group, or fails.  The ratchets of direct messages are    *)
(* those of module MessageClient, of which the one thing kept is that a    *)
(* key opens its message once.                                             *)
(***************************************************************************)
EXTENDS MessageHub, MerkleTree, StealthAddress

CONSTANTS
    Member,             \* identities that may be in the tree, by their commitment
    Recipient,          \* recipients of direct messages
    reader,             \* the recipient who scans
    viewingKey,         \* viewingKey[r], a private key
    spendingKey,        \* spendingKey[r]
    Ephemeral,          \* ephemeral keys that senders draw
    DirectNullifier,    \* nullifiers of direct messages
    NoProof,            \* no getProof is under way
    NoSend,             \* no sendGroupMessage is under way
    NoRoot,             \* getProof has not read the root yet
    Bounds              \* bounds of the behaviours, of which each has one: identities
                        \* in the tree, proofs, messages of the log, epochs of the
                        \* group's key, transactions that configure the verifier,
                        \* whether the reader scans and whether sendGroupMessage is
                        \* called

ASSUME GroupMessagesAssumption ==
    /\ reader \in Recipient
    /\ viewingKey \in [Recipient -> PrivateKey]
    /\ spendingKey \in [Recipient -> PrivateKey]
    /\ Ephemeral \subseteq PrivateKey
    /\ ZeroLeaf \notin Member
    /\ Bounds \subseteq [leaves : Nat, proofs : Nat, messages : Nat, epochs : Nat,
                          settings : Nat, reads : BOOLEAN, sends : BOOLEAN]

VARIABLES
    leaves,     \* the identity commitments inserted so far
    path,       \* the call of getProof under way: NoProof or what it holds
    proofs,     \* proofs made so far, which anybody may have seen
    epoch,      \* epoch[g] of the group's key, which names the key
    sending,    \* the sendGroupMessage under way, or NoSend
    scan,       \* the reader's scanForMessages
    opened,     \* nullifiers of direct messages whose key the reader has spent
    shown,      \* nullifiers of the messages that scans returned
    failed,     \* history: a call of a scan failed: node, storage or resolver
    configured, \* transactions that configured the verifier
    bound       \* the bounds of this behaviour

treeVars == <<leaves, path, proofs>>
readerVars == <<scan, opened, shown, failed>>
limits == <<configured, bound>>
vars == <<verifierVars, hubVars, treeVars, epoch, sending, readerVars, limits>>

-----------------------------------------------------------------------------
(* Identities and proofs                                                   *)

\* The circuit's nullifier: one for each member, group and epoch.
computeGroupNullifier(m, g, e) == <<"group", m, g, e>>

\* The client's: one for each message, of its author and the hash of its
\* content, which is encrypted with a random iv.
buildNullifier(m, cid) == <<"content", m, cid>>

Insert(m) ==
    /\ m \notin Range(leaves)
    /\ Len(leaves) < bound.leaves
    /\ leaves' = insert(leaves, m)
    /\ UNCHANGED <<verifierVars, hubVars, path, proofs, epoch, sending, readerVars, limits>>

\* getProof copies the leaves and walks up, with an await at every hash ...
\* Calls change nothing of each other, so one at a time will do.
StartProof ==
    /\ path = NoProof
    /\ Cardinality(proofs) < bound.proofs
    /\ \E place \in DOMAIN leaves :
           path' = [place    |-> place,
                    elements |-> pathElements(leaves, place),
                    copied   |-> leaves,
                    root     |-> NoRoot]
    /\ UNCHANGED <<verifierVars, hubVars, leaves, proofs, epoch, sending, readerVars, limits>>

\* ... and then asks the tree for its root, as it is by now.
ReadRoot ==
    /\ path # NoProof
    /\ path.root = NoRoot
    /\ path' = [path EXCEPT !.root = getRoot(leaves)]
    /\ UNCHANGED <<verifierVars, hubVars, leaves, proofs, epoch, sending, readerVars, limits>>

Prover == path.copied[path.place]
PathOpens == verify(Prover, path.elements, path.place - 1, path.root)

Proof(root, g, nullifier, equation) ==
    [root |-> root, group |-> g, nullifier |-> nullifier, equation |-> equation]

\* External: the prover makes a proof if the circuit can be satisfied.
Prove(g) ==
    /\ path # NoProof
    /\ path.root # NoRoot
    /\ LET nullifier == computeGroupNullifier(Prover, g, epoch[g])
       IN  proofs' = IF PathOpens
                     THEN proofs \union {Proof(path.root, g, nullifier,
                                               Groth16(path.root, g, nullifier))}
                     ELSE proofs
    /\ path' = NoProof
    /\ UNCHANGED <<verifierVars, hubVars, leaves, epoch, sending, readerVars, limits>>

\* External: a client makes its proof for the equation that the contract checks.
ProveAsChecked(m, g) ==
    /\ Cardinality(proofs) < bound.proofs
    /\ LET nullifier == computeGroupNullifier(m, g, epoch[g])
       IN  proofs' = proofs \union {Proof(getRoot(leaves), g, nullifier,
                                          Checked(getRoot(leaves), g, nullifier))}
    /\ UNCHANGED <<verifierVars, hubVars, leaves, path, epoch, sending, readerVars, limits>>

-----------------------------------------------------------------------------
(* Posting                                                                 *)

Room(k) == Len(log) + k <= bound.messages

Derived(r, e) == deriveStealthAddress(e, viewingKey[r], spendingKey[r])

\* What a sender posts for recipient r, having drawn the ephemeral key e.
\* payload is what the reader finds in it: a message, nothing that it can
\* parse, or something it cannot decrypt, sealed or signed as none of its
\* senders does.
DirectMessage(r, e, x, payload) ==
    [kind |-> "direct", to |-> r, stealthRecipient |-> Derived(r, e).stealthAddress,
     viewTag |-> Derived(r, e).viewTag, ephemeralPubKey |-> e,
     commitment |-> x, nullifier |-> x, payload |-> payload]

\* Of an ephemeral key the hub looks at the length only.
WithoutPoint(m) == [m EXCEPT !.ephemeralPubKey = Invalid]

DirectMessages ==
    LET drawn == {d \in Recipient \X Ephemeral \X DirectNullifier : Derived(d[1], d[2]) # Invalid}
        sound == {DirectMessage(d[1], d[2], d[3], "text") : d \in drawn}
        forReader == {m \in sound : m.to = reader}
    IN  sound \union {WithoutPoint(m) : m \in sound}
              \union {[m EXCEPT !.payload = p] : m \in forReader, p \in {"nothing", "garbage"}}

PostDirectMessage ==
    /\ Room(1)
    /\ \E m \in DirectMessages : postDirectMessage(m)
    /\ UNCHANGED <<treeVars, epoch, sending, readerVars, limits>>

PostBatch ==
    /\ Room(2)
    /\ \E m1, m2 \in DirectMessages : postDirectMessageBatch(<<m1, m2>>)
    /\ UNCHANGED <<treeVars, epoch, sending, readerVars, limits>>

\* The event of a group message.  key is the epoch whose key sealed it;
\* payload is what the reader finds in it: nothing that it can parse, a
\* signature that is none, one of the 32 bytes of the metadata's hash, or of
\* the text of that hash, and then a message or content that does not open.
GroupMessage(p, nullifier, key, payload) ==
    [kind |-> "group", group |-> p.group, nullifier |-> nullifier, key |-> key,
     payload |-> payload]

Payloads == {"nothing", "malformed", "bytes", "garbage", "text"}

\* The client signs the bytes ...
signMetadata == "bytes"

\* ... and its reader recovers the signer of the text, which is the author
\* of what other clients signed so and of nothing that signMetadata signed.
RecoversAuthor(m) == m.payload \in {"garbage", "text"}

\* External: a member posts with the proof's own nullifier and today's key.
PostWithProof(p, payload) ==
    /\ Room(1)
    /\ postGroupMessage(GroupMessage(p, p.nullifier, epoch[p.group], payload), p, p.root)
    /\ UNCHANGED <<treeVars, epoch, sending, readerVars, limits>>

\* sendGroupMessage is called with the key, the root and the proof ...
StartSend(m, p) ==
    /\ bound.sends
    /\ sending = NoSend
    /\ sending' = [by |-> m, key |-> epoch[p.group], proof |-> p]
    /\ UNCHANGED <<verifierVars, hubVars, treeVars, epoch, readerVars, limits>>

\* ... and the storage does not take the content, or the wallet does not sign.
SendFails ==
    /\ sending # NoSend
    /\ sending' = NoSend
    /\ UNCHANGED <<verifierVars, hubVars, treeVars, epoch, readerVars, limits>>

\* The hub takes a group message with a proof.
Accepted(p, nullifier) ==
    /\ nullifier \notin usedNullifiers
    /\ verifyMembership(p, p.root, p.group, nullifier)

\* What sendGroupMessage posts.  A cid is named by the length of the log.
Sent == GroupMessage(sending.proof, buildNullifier(sending.by, Len(log)),
                     sending.key, signMetadata)

\* The content is stored and the metadata signed, and the transaction is posted
\* or reverts.
PostSend ==
    /\ sending # NoSend
    /\ Room(1)
    /\ IF Accepted(sending.proof, Sent.nullifier)
       THEN postGroupMessage(Sent, sending.proof, sending.proof.root)
       ELSE UNCHANGED <<verifierVars, hubVars>>
    /\ sending' = NoSend
    /\ UNCHANGED <<treeVars, epoch, readerVars, limits>>

\* Anybody calls the verifier itself.
Consume(p) ==
    /\ verifyAndConsumeNullifier(p, p.root, p.group, p.nullifier)
    /\ UNCHANGED <<hubVars, treeVars, epoch, sending, readerVars, limits>>

\* The owner, and the registrars it names, configure the verifier: with the
\* root the tree has now.
Configure ==
    /\ configured < bound.settings
    /\ configured' = configured + 1
    /\ \E a \in Account :
           \/ setVerifyingKey(a)
           \/ \E b \in BOOLEAN : setRootValidationEnabled(a, b)
           \/ \E r \in Account, b \in BOOLEAN : setAuthorizedRootRegistrar(a, r, b)
           \/ \E g \in Group, b \in BOOLEAN : setValidRoot(a, g, getRoot(leaves), b)
           \/ \E gs \in SUBSET Group : registerRoots(a, gs \X {getRoot(leaves)})
    /\ UNCHANGED <<hubVars, treeVars, epoch, sending, readerVars, bound>>

\* External: rotateGroupKey of module GroupRegistry.
RotateGroupKey(g) ==
    /\ epoch[g] < bound.epochs
    /\ epoch' = [epoch EXCEPT ![g] = @ + 1]
    /\ UNCHANGED <<verifierVars, hubVars, treeVars, sending, readerVars, limits>>

-----------------------------------------------------------------------------
(* The reader                                                              *)

\* A scan: the places in the log of the events it has queried and not yet
\* read, how long the log was at the last query, and what it has collected:
\* the nullifiers of direct messages and the places of group messages.
NoScan == [step |-> "idle", todo |-> {}, seen |-> 0, direct |-> {}, texts |-> <<>>]

Query(step, kind) ==
    scan' = [scan EXCEPT !.step = step, !.seen = Len(log),
                         !.todo = {i \in DOMAIN log : log[i].kind = kind}]

\* The place of the event that the loop is at: the oldest that is left.
Reading(i) == i \in scan.todo /\ \A j \in scan.todo : i <= j

\* What the scan derives of a direct message; Invalid if that throws.
Derivation(m) ==
    IF m.ephemeralPubKey = Invalid THEN Invalid
    ELSE deriveStealthFromEphemeral(m.ephemeralPubKey, viewingKey[reader], spendingKey[reader])

\* The view tag and the stealth address are the reader's.
ForReader(m) ==
    /\ m.kind = "direct"
    /\ Derivation(m) = [stealthAddress |-> m.stealthRecipient, viewTag |-> m.viewTag]

\* The first queryFilter.
ScanDirect ==
    /\ bound.reads
    /\ scan.step = "idle"
    /\ Query("direct", "direct")
    /\ UNCHANGED <<verifierVars, hubVars, treeVars, epoch, sending, opened, shown, failed, limits>>

\* An exception at any event of either loop ends the scan, which loses what
\* it has collected.
Throws ==
    /\ scan' = NoScan
    /\ UNCHANGED <<verifierVars, hubVars, treeVars, epoch, sending, opened, shown, limits>>

\* Nothing can be derived from its ephemeral key, or what it has for the
\* reader is not to be decrypted.
ThrowsAlways(m) ==
    /\ m.kind = "direct"
    /\ Derivation(m) = Invalid \/ (ForReader(m) /\ m.payload = "garbage")

Opens(m) == ForReader(m) /\ m.payload = "text"

\* A message that does not open, or whose key is spent.
DirectThrows ==
    /\ scan.step = "direct"
    /\ \E i \in scan.todo :
           /\ Reading(i)
           /\ ThrowsAlways(log[i]) \/ (Opens(log[i]) /\ log[i].nullifier \in opened)
    /\ Throws
    /\ UNCHANGED failed

\* The ratchet gives its key, once, and what it opens is collected.
OpenDirect ==
    /\ scan.step = "direct"
    /\ \E i \in scan.todo :
           /\ Reading(i)
           /\ Opens(log[i]) /\ log[i].nullifier \notin opened
           /\ opened' = opened \union {log[i].nullifier}
           /\ scan' = [scan EXCEPT !.todo = @ \ {i}, !.direct = @ \union {log[i].nullifier}]
    /\ UNCHANGED <<verifierVars, hubVars, treeVars, epoch, sending, shown, failed, limits>>

\* A message for somebody else, or with nothing in it.
PassDirect ==
    /\ scan.step = "direct"
    /\ \E i \in scan.todo :
           /\ Reading(i)
           /\ ~ThrowsAlways(log[i]) /\ ~Opens(log[i])
           /\ scan' = [scan EXCEPT !.todo = @ \ {i}]
    /\ UNCHANGED <<verifierVars, hubVars, treeVars, epoch, sending, opened, shown, failed, limits>>

\* The second queryFilter.
ScanGroups ==
    /\ scan.step = "direct"
    /\ scan.todo = {}
    /\ Query("groups", "group")
    /\ UNCHANGED <<verifierVars, hubVars, treeVars, epoch, sending, opened, shown, failed, limits>>

\* The metadata are not sealed with the key that the resolver gives now, their
\* signature is none, or the content does not open.
Undecryptable(m) ==
    /\ m.payload # "nothing"
    /\ m.key # epoch[m.group] \/ m.payload \in {"malformed", "garbage"}

GroupThrows ==
    /\ scan.step = "groups"
    /\ \E i \in scan.todo : Reading(i) /\ Undecryptable(log[i])
    /\ Throws
    /\ UNCHANGED failed

\* Mutant: an event that cannot be decrypted is passed over.
ScanEventLeniently ==
    /\ scan.step = "groups"
    /\ \E i \in scan.todo :
           /\ Reading(i)
           /\ scan' = [scan EXCEPT !.todo = @ \ {i},
                           !.texts = IF RecoversAuthor(log[i]) /\ ~Undecryptable(log[i])
                                     THEN Append(@, i) ELSE @]
    /\ UNCHANGED <<verifierVars, hubVars, treeVars, epoch, sending, opened, shown, failed, limits>>

\* An event that is read, or passed over if its signature is not its author's.
ScanEvent ==
    /\ scan.step = "groups"
    /\ \E i \in scan.todo :
           /\ Reading(i)
           /\ ~Undecryptable(log[i])
           /\ scan' = [scan EXCEPT !.todo = @ \ {i},
                           !.texts = IF RecoversAuthor(log[i]) THEN Append(@, i) ELSE @]
    /\ UNCHANGED <<verifierVars, hubVars, treeVars, epoch, sending, opened, shown, failed, limits>>

\* The node does not answer the second query, the storage has not the content
\* of a message, or the resolver throws or gives another key.
CallFails ==
    /\ \/ scan.step = "direct" /\ scan.todo = {}
       \/ \E i \in scan.todo : /\ Reading(i)
                               /\ scan.step = "groups" \/ Opens(log[i])
    /\ Throws
    /\ failed' = TRUE

\* What it has collected of group messages.
Texts == {log[i].nullifier : i \in Range(scan.texts)}

\* Mutant: the list is started again for the group messages.
ScanReturnsTexts ==
    /\ scan.step = "groups"
    /\ scan.todo = {}
    /\ shown' = shown \union Texts
    /\ scan' = NoScan
    /\ UNCHANGED <<verifierVars, hubVars, treeVars, epoch, sending, opened, failed, limits>>

ScanReturns ==
    /\ scan.step = "groups"
    /\ scan.todo = {}
    /\ shown' = shown \union scan.direct \union Texts
    /\ scan' = NoScan
    /\ UNCHANGED <<verifierVars, hubVars, treeVars, epoch, sending, opened, failed, limits>>

\* A new client: its ratchet store is empty.
Reload ==
    /\ bound.reads
    /\ scan' = NoScan
    /\ opened' = {}
    /\ UNCHANGED <<verifierVars, hubVars, treeVars, epoch, sending, shown, failed, limits>>

-----------------------------------------------------------------------------

Init ==
    /\ VerifierInit
    /\ HubInit
    /\ leaves = <<>>
    /\ path = NoProof
    /\ proofs = {}
    /\ epoch = [g \in Group |-> 0]
    /\ sending = NoSend
    /\ scan = NoScan
    /\ opened = {}
    /\ shown = {}
    /\ failed = FALSE
    /\ configured = 0
    /\ bound \in Bounds

Next ==
    \/ \E m \in Member :
           \/ Insert(m)
           \/ \E g \in Group : ProveAsChecked(m, g)
           \/ \E p \in proofs : StartSend(m, p)
    \/ StartProof \/ ReadRoot \/ \E g \in Group : Prove(g) \/ RotateGroupKey(g)
    \/ PostDirectMessage \/ PostBatch
    \/ \E p \in proofs :
           \/ \E payload \in Payloads : PostWithProof(p, payload)
           \/ Consume(p)
    \/ SendFails \/ PostSend \/ Configure
    \/ ScanDirect \/ DirectThrows \/ OpenDirect \/ PassDirect
    \/ ScanGroups \/ GroupThrows \/ ScanEvent \/ CallFails \/ ScanReturns \/ Reload

Spec == Init /\ [][Next]_vars

-----------------------------------------------------------------------------
(* Properties                                                              *)

Nullifiers == DirectNullifier \union {log[i].nullifier : i \in DOMAIN log}

TypeOK ==
    /\ vkInitialized \in BOOLEAN
    /\ rootValidationEnabled \in BOOLEAN
    /\ authorizedRootRegistrars \subseteq Account
    /\ usedNullifiers \subseteq Nullifiers
    /\ commitmentTimestamp \subseteq DirectNullifier
    /\ \A t \in ViewTag :
           /\ viewTagArrayLength[t] = Len(messagesByViewTag[t])
           /\ viewTagArrayLength[t] \in 0..MAX_MESSAGES_PER_VIEW_TAG
    /\ totalMessages = Len(log)
    /\ Range(leaves) \subseteq Member
    /\ \A p \in proofs : p.group \in Group
    /\ epoch \in [Group -> 0..bound.epochs]
    /\ sending # NoSend => /\ sending.by \in Member
                           /\ sending.key \in 0..epoch[sending.proof.group]
    /\ scan.step \in {"idle", "direct", "groups"}
    /\ opened \subseteq DirectNullifier
    /\ shown \subseteq Nullifiers
    /\ failed \in BOOLEAN
    /\ configured \in 0..bound.settings
    /\ bound \in Bounds

AnyTreeIsComplete ==
    \A k \in 0..width[TREE_HEIGHT] + 1 : TreeIsComplete([i \in 1..k |-> <<"leaf", i>>])

\* The tree's root and paths are those of the complete tree, now and with
\* any number of leaves up to one more than it has places.
TreeIsRight == AnyTreeIsComplete /\ TreeIsComplete(leaves)

\* A path opens the root it came with unless an identity was inserted while
\* getProof was walking, or its leaf is one that the tree has no place for.
PathOpensUnlessInserted ==
    (path # NoProof /\ path.root # NoRoot) =>
        (PathOpens <=> /\ path.root = getRoot(path.copied)
                       /\ path.place <= width[TREE_HEIGHT])

\* A recipient knows its messages by view tag and stealth address: the scan's
\* filter passes over none of them that came with a point.
ReaderRecognises ==
    \A i \in DOMAIN log :
        (log[i].kind = "direct" /\ log[i].to = reader /\ log[i].ephemeralPubKey # Invalid) =>
            ForReader(log[i])

Readable(m) == m.kind = "group" /\ m.payload = "text"

\* A scan that returns has, of other clients than this one, every readable group
\* message of the log it queried, in order.
ScanIsComplete ==
    (scan.step = "groups" /\ scan.todo = {}) =>
        /\ Range(scan.texts) = {i \in 1..scan.seen : Readable(log[i])}
        /\ Increasing(scan.texts)

\* A direct message that was opened and never shown was lost to an event that
\* ends every scan that meets it, or to a failure of the node, the storage or
\* the resolver.  Such events are direct messages of whose ephemeral key nothing
\* can be derived, or with a payload for the reader that does not decrypt, and
\* group messages of an earlier epoch, without a signature or with content
\* that does not open.  A key that is spent never costs another message.
LostDirectExplained ==
    (scan.step = "idle" /\ ~(opened \subseteq shown)) =>
        \/ failed
        \/ \E i \in DOMAIN log :
               \/ ThrowsAlways(log[i])
               \/ log[i].kind = "group" /\ Undecryptable(log[i])
=============================================================================
