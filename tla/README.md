# Verification of the onchain-messaging system

TLA+ models of the messaging client with its direct and group messages, its
ratchet and ratchet store, key registration, backup and encrypted storage, the
page that uses them, and all five contracts. TLC checks them on small instances;
TLAPS proves the properties of four contracts, of the registration, the backup,
the ratchet, its store, the message client, the encrypted storage and the page for
every value of the constants. `PROJECT.json` lists the
components, the runs, the lines every definition models, the mutants that show
each property can fail, the findings, the hazards and the theorems.

    tlc -workers 2 -config MCGroupRegistry.cfg MCGroupRegistry    # one run
    tlapm GroupRegistryProofs.tla                                 # one set of proofs

## 1. The system

A user registers a key bundle on chain, sends sealed messages to stealth
addresses through a contract's event log, and reads that log to find and open
messages for itself. Keys and conversations are kept, encrypted, on IPFS.

| Component | State it keeps | Operations | Depends on |
|---|---|---|---|
| Message ratchet, `src/ratchet.ts` | root key, two chain keys with counters, `prevChainLen`, `skippedKeys` | `initRatchet`, `ratchetEncrypt`, `ratchetDecrypt` (skip, cache, DH step), `pruneSkippedKeys` | - |
| Ratchet store, `src/store.ts` | `states`, `versions`, `locks` with waiters | `load`, `save`, `update`, `updateWithResult`, `optimisticUpdate` | microtask queue, timers |
| Key agreement, `src/x3dh.ts` | none | `x3dhInitiator`, `x3dhResponder`, `verifySignedPreKeySignature` | - |
| Message client, `src/client.ts`, `useMessages.ts` | none but the store it was given | `sendDirectMessage`, `sendGroupMessage`, `scanForMessages` | all of the above, IPFS, MessageHub |
| Client start-up, `useMessageClient.ts` | the client and its in-memory store | `initClient`, `reinitialize`, `register` | storage |
| Key registration, `useRegisterKeys.ts` | `keys`, `txHash`, stored keys | `register`, `setKeys` | StealthRegistry, storage |
| Encrypted IPFS storage, `encrypted-ipfs-storage.ts`, `useIpfsStorage.ts` | manifest, its CID and history, pointer in localStorage | `initialize`, `put`, `get`, `saveManifest`, `restoreFromManifest` | IPFS node, wallet |
| StealthRegistry.sol | key bundles, counters and flags of one-time pre-keys | register, rotate, consume, refill, revoke | - |
| GroupRegistry.sol | admin, member mappings, Merkle root, key epoch | create, add, remove, rotate key, transfer admin | - |
| MessageHub.sol | used nullifiers, per-view-tag message lists | direct, group and batch posts, paging | ZKVerifier |
| ZKVerifier.sol | verifying key, valid roots, nullifiers, registrars | register roots, verify, consume | - |
| ProtocolDAO.sol | proposals, votes, timelocked operations, signers, pause | create, vote, queue, execute, cancel, pause, signer changes | - |
| Merkle tree, `zkProof.ts`, `MerkleTree.sol` | leaves | insert, root, proof, verify | Poseidon |
| Stealth addresses, `stealth.ts` | none | `deriveStealthAddress`, `deriveStealthFromEphemeral` | - |
| Backup, `backup.ts`, `useBackup.ts` | the dialog's keys, backups on IPFS | `backupKeys`, `restoreKeys` | wallet, storage, IPFS |
| Main page, `page.tsx`, `AccountContext.tsx` | lists of conversations and messages, account, storage object | load, save after a delay, send, scan, new channel | client, storage |
| Attachments | none | encode, decode | IPFS |
| Circuits, crypto primitives, deployment | - | - | - |

Components interact by calls and by three shared stores: the chain (contracts
and their event log), the IPFS node, and localStorage. Within a page everything
runs on one JavaScript thread, so that the interleavings are those of awaits.

### What is hard here, and what correctness means

* **Ratchet.** The log delivers in any order and repeatedly. Each message is to
  open exactly once, late ones through a cache with two limits, and a rejected
  message must not cost a genuine one. Keys of read messages are to be gone from
  chains and cache.
* **Ratchet store.** A lock made of promises, where one release wakes every
  waiter; an update that throws; an optimistic variant with retries. And
  `sendDirectMessage` (client.ts:174-185) saves what it encrypted *after*
  `update` has released the lock. Calls must not lose each other's updates and
  must all end.
* **Client.** A send awaits IPFS and the wallet between encrypting and posting,
  so that posts are reordered or never happen; both users may write first; a
  page reload empties the ratchet store but not the log; each scan starts at the
  first event; anybody may post an event at which it throws; a user may write to
  himself. No key may be used twice, nothing be read twice, and a message be read
  in the end.
* **Registration.** Public half on chain, private half on IPFS, with awaits and
  failures between; hooks that do not share a manifest. A bundle on chain ought
  to be answerable, and both sides of X3DH ought to agree.
* **Storage.** A manifest is read before an await and overwritten after it, by
  several objects. No put may lose what another stored.
* **GroupRegistry.** Removal from the middle moves the last member; three
  mappings, the count and the member's ciphertext have to agree. Slot 0 doubles
  as "absent" and `bytes32(0)` is a legal commitment.
* **StealthRegistry.** Counters and flags of pre-keys are reset by different
  calls; the subtraction of the consumed count must not revert.
* **Main page.** React effects load the lists and save them after a delay, while
  accounts and storage objects change under them. What is shown ought to be saved,
  one account's lists ought not to replace another's.
* **Backup.** A dialog with a key state of its own, keys that pass through JSON. A
  backup ought to be of keys that are in use.
* **MessageHub, ZKVerifier.** A nullifier is to be spent once over direct, group
  and batch posts, though anybody may consume it at the verifier too; pages of a
  view tag are to skip and repeat nothing.
* **Merkle tree.** Roots computed in TypeScript have to be those the contract
  computes, at every number of leaves; `getProof` awaits at every hash while
  identities are inserted.
* **Group messages.** A scan reads direct and group messages in one pass, with keys
  that rotate; a message it cannot read must not cost the others.
* **ProtocolDAO.** Proposals share a timelock if they share an operation, and can
  be queued again in any state; signatures never expire; signers come and go.

## 2. Modules

    Ratchet ----------> RatchetSession      one session, hostile network
       |
       +--------------> MessageClient       two pages, the hub's log, reloads
    RatchetStore =====> AtomicSession       (refines)
    GroupRegistry ====> GroupRoster         (refines; GroupRegistryProofs)
    StealthRegistry --> KeyRegistration     (composes; refines the contract's Spec)
                             +--> KeyBackup (composes; refines KeyRegistration)
    EncryptedIpfsStorage --> ConversationPage           (composes)
    ZKVerifier --> MessageHub --+
    MerkleTree -----------------+--> GroupMessages      (composes)
    StealthAddress -------------+
    ProtocolDAO

The theorems about a module `M` are in `MProofs`; those about `StealthRegistry` and
`KeyBackup`, which `KeyRegistration` refines and is refined by, are in
`KeyRegistrationProofs`, and those about `EncryptedIpfsStorage`, which has no
next-state relation of its own, in `ConversationPageProofs`.

### Ratchet, RatchetSession

`Ratchet` is `src/ratchet.ts` as operators on a state record with the code's
field names. Key derivation is symbolic: a chain key is its root, its direction
and the number of steps from its start, a message key is the chain key it is
derived from. `Opened` is the state after a message that decrypts, `Left` the
state after one that does not: `ratchetDecrypt` pushes skipped keys onto the
array of the state it was given (ratchet.ts:271), so that a message that is
rejected later still leaves *real* keys of the chain in the stored cache. That
is faithful and harmless only because they are the right keys, which
`UnreadStillOpens` checks.

The branch for a new DH key is modelled (`dhRatchet`, `InChain`) but is never
taken: nothing sets `theirDhPub` from null (ratchet.ts:217 tests it first), so
that the "double" ratchet has one chain each way. `rootKey` is therefore the
session key for ever, from which both chains are derived with constants
(ratchet.ts:58-69): whoever comes by a state can derive every key of the session
again, those of messages read long ago too. `OnlyRootLeadsBack` says what is left
of forward secrecy: chains and cache lead to no key of a read message, the root
does (see "Where the code is not what its documents say").

`RatchetSession` has two parties, `Encrypt`, `Receive` of any message ever sent
(delay, loss, reordering and repetition in one), `ReceiveForeign` of a message
of another session, and `Prune`.

### RatchetStore, AtomicSession

Every await of `store.ts` is a place in `pc`; `ready` is the microtask queue, and
only its head runs. A caller is a `sendDirectMessage` (an update, then a save
outside the lock), a received message (`updateWithResult`, which may throw) or
an `optimisticUpdate`. `AtomicSession` says what callers rely on: each send takes
the next index, each receive counts once, in one step. The save outside the lock
is safe, and only because `await` order makes it so: the release queues the
sender's continuation *before* any later owner's load can run. The run shows
this; a store with a real round trip in `load` or `save` order (IndexedDB, say)
would have to take the encryption inside `update`.

### MessageClient

Two clients over the hub's event log. `Encrypt` is `sendDirectMessage` up to the
wallet, with X3DH for a first message; `Post` and `SendFails` what the chain
does with it; `StartScan`, `NotMine`, `Decrypt`, `Abort`, `Finish` the loop of
`scanForMessages`, event by event, so that scans, sends and posts interleave;
`Reload` a new page with an empty `InMemoryRatchetStore` (useMessageClient.ts:305).
A client may write to itself. `others` are events of other programs at which scans
throw (`PostOther`, `AbortAtOther`), each at its place in the log and with the
clients whose scans it ends: all of them if its ephemeral key is no point
(client.ts:349; the hub looks at its length), the recipient if its metadata do not
decrypt (:418), lack a field or have a malformed signature (:426). The hub is
external: a sequence of events. `sealed` and `opened` are history. `Bounds` is a
set of alternatives for how much each client may send to whom, how often it may
reload, and how many events others may post.

`AbortExplained` gives the only reasons for which a scan may end before it has read
the log: an event of `others`; or a message of the clients whose key was used
before, which the page itself wrote (a session with oneself has one state for both
sides, so that a page never reads what it sent to itself), which its peer sealed on
the other side of a reload, which is of another session, or which meets one of
three limits. Beyond `MAX_SKIP`
it is too far ahead; it is left behind when more than `MAX_SKIPPED_KEYS` keys were
passed over after its own; and it is jumped over when a later message came from
more than `MAX_SKIP - MAX_SKIPPED_KEYS` further on. The last is the least obvious:
`skipMessageKeys` stops pushing at `MAX_SKIP` entries of an array that may hold
`MAX_SKIPPED_KEYS` older ones already, so that of a long gap the *newest* keys are
not kept (500 and 1000 in the code: a gap of more than 500).

What the model makes plain: when the first message of a session is not the first
one posted, or both users write first, or the first one never gets posted, the
two pages hold different sessions and scans stop at the first message of the
other one (`AbortExplained`, disjunct `OfOtherSession`).

Not in the model: other programs' events that are well made, as those of a client
or of its ratchet, and the requests to IPFS of a scan for contents that are stored
there (`GroupMessages` has those).

### StealthRegistry, KeyRegistration

`StealthRegistry` is the contract, one action per transaction. The consumed flags
outlive a refill or a new registration while the counter starts again, so count
and flags disagree (a refilled index may show as consumed: the comment at
StealthRegistry.sol:238 calls the flags irrelevant). What still holds is
`RemainingCoversAvailable`.

`KeyRegistration` composes it with one page per account: `StartRegister`,
`Submit`, `Mine`, `Confirm`, `Saved` are the awaits of `register`, each with its
failure; `Reload`, `Reinitialize`, `SavePage` what the rest of the page does to
the stored and the loaded keys; `Greet` and `x3dhResponder` the two roles of X3DH
for a bundle that changes meanwhile. "Rotate Key" (page.tsx:418-425) registers a
whole new bundle and is `StartRegister` again. `Rotate` is the contract's own
rotation, called by an owner, after which nobody has the private half of the
pre-key, nor uses the bundle, whose signature no longer verifies.
`AnswerableUnlessInterrupted` compares both key pairs, identity and pre-key, of
every bundle that verifies with those stored.

One-time pre-keys are kept in the contract only: no code of the frontend offers
or asks for one. A client that has a `oneTimePreKeyPair` would add a fourth
secret to a first message that the initiator never adds; no caller passes one.
`useMessages` makes a client of its own (useMessages.ts:19), which
`reinitialize` of the page's does not reach.

### KeyBackup

`KeyBackup` adds the key dialog to `KeyRegistration`: its hook loads the stored
keys once (`LoadKeys`), `backupKeys` puts them on IPFS under a signature of the
wallet, `restoreKeys` fetches them by a CID. A backup is symbolic: who it names,
whose signature encrypts it, and its keys. What the model makes plain:

* A byte array comes out of JSON as an object (`bytes` FALSE), `serializeKeys`
  throws inside `setKeys`' try, nothing is stored, and the user reads "Keys
  restored successfully!" (BackupRestore.tsx:39). This is why a restore disturbs
  nothing else.
* The dialog does not see what the page registers while it is open, so that a
  backup made after "Rotate Key" is of the former keys.
* Without `NEXT_PUBLIC_IPFS_URL` every call makes a `MockStorage` of its own: a CID
  is shown and nothing can be restored from it.

### EncryptedIpfsStorage, ConversationPage

`EncryptedIpfsStorage` has objects with a manifest each. `initialize` and `Load`
are the two sides of its await, `put`, `Record` and `saveManifest` the awaits of
`put`; what is uploaded is the manifest as it was at `Record`, while history, CID
and pointer change at `saveManifest`. CIDs are numbers, since a fresh IV makes
each new. There is a pointer per account; entries are by kind, because `put`,
`has` and `get` do not look at the account in the path. `restoreFromManifest` has
no caller yet in the frontend.

`ConversationPage` is its user. A change of the page's state and the effects of
the render that follows are one step (`Commit`: `LoadEffect`, `SaveEffects`),
because React runs them before the next event; timers, `initialize` and `put` are
steps of their own. A list is the set of changes it has seen; a change may also set
a new array that reads as the old one did (`renewed`: handleSendMessage maps the
conversations, page.tsx:1243-1250). What the runs show of the code:

* The effect that loads the lists runs in the first render with an account, when
  no storage is ready, and then never again (run page_load). What was saved is
  never shown, and the first save of a later page replaces it.
* A list counts as saved when its timer *starts*. A change of account or storage,
  or a new array of the same text, clears the timer; a timer may find no storage;
  a put may fail: none is repeated before the text changes again (`dropped`).
* An `initialize` that ends late installs the former account's object, through
  which the new account's lists are saved, into the former's manifest.
  `SavedUnlessDropped` counts that as lost: it asks for a manifest of the page's
  own account.
* Of two overlapping puts of one object, when the one serialized first ends last,
  the manifest that the pointer names lacks the other's entry (run
  storage_manifest) until that object's next put. Two objects of one account do
  the same to each other, and a manifest that cannot be loaded is taken for empty.
  A saved manifest never names its direct predecessor in its history (line 364
  comes after the serialization).
* A change of account shows all scanned messages once more, under new ids.

### MerkleTree, StealthAddress, ZKVerifier, MessageHub, GroupMessages

`MerkleTree` has the TypeScript tree as recursive functions and the contract's
`computeRoot`, with Poseidon as pairing; the reference (`Nodes`) is the complete tree
of the given height. `halved` has `currentIndex` of `getProof` and `index` of
`computeRoot`, round by round. A full tree takes more leaves, whose paths open
nothing. `StealthAddress` is the arithmetic of one-time addresses in a small
group. `ZKVerifier` and `MessageHub` are the contracts, one action per
transaction, and the events are the log that clients read. A proof is the equation
it satisfies, named term by term: `Groth16` is what a prover's points satisfy,
`Checked` what `_verify` compares. They differ: the contract pairs neither alpha
nor beta (ZKVerifier.sol:242-266) and multiplies `gammaABC[i]` with input i, so
that the constant term is missing and every point of the key is at the wrong input
(:236-239). Points that satisfy the checked equation can be had for any inputs,
without a member's secret. The loop of a batch is `PostDirect`: it pushes the places
of a tag's messages `InOrder`.

`GroupMessages` composes them with `getProof` in two steps (its walk over a copy of
the leaves, and the root it asks for last), an external prover of
`GroupMember.circom` (`Prove`), clients that make their proofs for the equation that
is checked (`ProveAsChecked`), `sendGroupMessage` and `scanForMessages`. No page
calls `sendGroupMessage` or passes a `groupKeyResolver`; the library's functions are
modelled as they are, with a reader whose resolver answers with today's key of the
event's group, fails or gives another (`CallFails`). A scan opens one event after
another, of direct messages first: it holds the places of the log that it queried
and has not read (`todo`), the direct messages it has opened (`direct`) and the
group messages whose text it has collected (`texts`). Every exception of either loop
ends it: an invalid ephemeral key, metadata that do not decrypt, a ratchet that
refuses, another epoch's key, a malformed signature, content that does not open, a
node or storage that does not answer. It shows:

* A prover's proof is refused, so that group messages of the log are those of
  clients that make proofs for the checked equation (`PostWithProof`).
  `generateGroupMemberProof` is not implemented.
* `sendGroupMessage` posts another nullifier than was proved: a hash of a CID that
  is made inside it, where the circuit's is of group and epoch
  (PROTOCOL_DESIGN.md:554-575 posts the proof's).
* `signMetadata` signs the bytes of a hash, the reader recovers the signer of its
  text, and passes over a message of this client if there were one.
* Whatever ends a scan, a group event of another epoch for one, does so after the
  keys of direct messages were spent; these are never shown
  (`LostDirectExplained`).
* A path taken while an identity is inserted does not open its root.
* `verifyMembership` is a view: that a group nullifier is posted once rests on the
  hub's own set. No contract registers roots: `GroupRegistry` never calls
  `registerRoots`, and `deploy.js` sets no verifying key.

### ProtocolDAO

One action per call. `timelocked` is per operation, so that proposals of the same
operation share it. It shows that a canceled or executed proposal can be queued
and executed again (ProtocolDAO.sol:225 looks at no state), with the signatures
of the first time, but not sooner than a timelock after it. Anybody votes, a
quorum of four in a hundred signers is 0 below 25 of them, and `Defeated`,
`Succeeded` and `Expired` are never set. The constructor accepts a signer twice and
sets one flag for both places: its list is a sequence here, and the instance that is
checked repeats one. `ThresholdWithinList` says how far list and flags come apart:
by what that list repeats, never more. With a list of different people the required
signatures can therefore always be had; otherwise a removal that is not refused may
leave too few.

### GroupRegistry, GroupRoster

`GroupRegistry` is the contract, one action per transaction, with Solidity's zero
defaults in its mappings. `GroupRoster` is the promise to a reader who knows
nothing of indices: a set of members, each with its ciphertext. `SignAcceptance`
is the new admin's off-chain signature, which holds no nonce and is good for
ever. `addMember` starts no new epoch and `removeMember` re-encrypts nothing;
PROTOCOL_DESIGN.md:522 asks for a rotation on both. That is a difference of
intent and is stated here, not in a run.

## 3. Runs

| Run | Shows | Bounds, and why they are enough |
|---|---|---|
| ratchet_session | nothing opens twice; every unread message within the limits still opens; neither chain nor cache leads to the key of a read one | 5 messages one way exceed the skip limit (3), what is cached at once (3) and what is kept (2); 1 the other way; 2 foreign messages |
| ratchet_store | one owner per lock; concurrent calls behave as atomic ones; all end | 2 sends and a receive contend for one lock (a waiter, an overtaking call, a throw); 3 optimistic callers exhaust 2 retries |
| message_client | keys repeat only across a reload; nothing opens twice; what is received was posted; a scan ends early only for the reasons listed | `Instances`: 3 messages and 1 back with a reload each, which give gaps, reordering, crossing first messages and answers; 6 one way and no reload, which fill the cache and overrun it; 2 and 1 back with an event of another program; 3 to oneself with a reload. Skip limit 2, cache 1 |
| message_keys (violation) | "Each message uses a new key" (README.md:249) | `Reloaded`: the first of these |
| message_read (violation) | a message for me is read (README.md:182-187) | `TwoFromAlice`: 2 messages, no reload |
| group_registry | mappings inverse, freed slots cleared, roster implemented | 3 commitments, `bytes32(0)` among them: first, middle and last slot, moved member removed and added again |
| key_registration | session keys agree; stored keys and backups were registered; both keys of a usable bundle are stored unless interrupted; pre-key counters | alice 1 key set, bob 2 (registers again or rotates while alice writes), batches of up to 2 pre-keys, 1 rotation interval, 2 greetings; or, `withBackups`, 2 backups without greetings, pre-keys and time: every order of registering, backing up, restoring, failing and reloading |
| ipfs_storage | which saves of the page are lost and why; history is recoverable; a save that found the pointer where its object expected it loses nothing | 2 objects of the page for one account and 1 of another hook, 2 accounts; 2 changes with 2 puts, down to no change with 4 puts (`Small`): two overlap in one object while the other saves; history of 2 is cut (10 in the code) |
| page_load (violation) | the lists are loaded from IPFS on mount (page.tsx:1055) | same |
| storage_manifest (violation) | the manifest tracks all CIDs (encrypted-ipfs-storage.ts:121-122) | same |
| group_messages | no nullifier is posted twice; pages cover the log; tree, paths and addresses are right; scans are complete, or lose direct messages for a reason | five scenarios (`BoundsDef`): 2 leaves and 2 proofs and no post (inserts during `getProof`, epochs); 1 post with 3 settings of the verifier and `sendGroupMessage`; and a reader with 2 posts while the key rotates, with 2 posts and 2 proofs (two groups), and with 3 posts (one opened, one refused, one never reached). 2 members, groups and direct nullifiers. Trees of every size up to 5 leaves of height 2 in `TreeIsRight`; pages of every offset and limit of a tag's 2 places |
| protocol_dao | list, flags and threshold stay together; executions were agreed; repetitions are a timelock apart | a list of three places that names one of 2 signers twice, and a person who may become one; 2 proposals with one call of the owner, one with two, none with three (`Small`); 4 ticks: vote, queue, execute, queue and execute again |

Deadlock is checked except in ratchet_store, where every call is made once and
has ended, and in key_registration, group_messages and protocol_dao, where keys,
time, calls or messages run out. The constraints named `Small` cut the sums of
bounds, not single behaviours: each kind of step is reached in every combination
listed.

### Findings

1. **message_keys** A user who answered, reloads and scans again makes the same
   session from the log with `sendCount` 0, and seals its next message under the
   key of its first answer.
2. **message_read** A second scan hands already read events to
   `ratchetDecrypt`, which throws; the exception ends the scan, so that newer
   messages are never shown.
3. **page_load** The page takes its lists for loaded in the first render with an
   account, when no storage can be ready: what was saved is never shown.
4. **storage_manifest** Of two puts under way at once, as when a message changes both
   lists, the one serialized first may be saved last: the pointer then names a
   manifest without the other's entry.

### Where the code is not what its documents say

What the models contain, and no run is made for, because each follows from one or
two lines once these are read together:

* README.md:248-249, PROTOCOL_DESIGN.md:648: "If someone steals your keys tomorrow,
  they can't read yesterday's messages". The root key stays in the state
  (ratchet.ts:87) and leads to all keys of the session. PROTOCOL_DESIGN.md:159 and
  README.md:251-252 describe a DH step, which is never made.
* PROTOCOL_DESIGN.md:86: "Signed Pre-Key (SPK) - medium-term, rotated weekly".
  `rotateSignedPreKey` demands and stores a wallet's signature where
  `x3dhInitiator` (x3dh.ts:69-80) verifies one of the identity key: nobody can
  write to the owner of a rotated bundle (`verifySignedPreKeySignature`).
* page.tsx:1300-1301: "This ensures the client uses the same keys that were
  registered on-chain". `reinitialize` looks for the keys in another storage object,
  with a manifest loaded before, than the one `register` stored them through
  (useIpfsStorage.ts:67): the client is missing or has former keys until the page is
  loaded again (`Reinitialize`, `seen`).
* useRegisterKeys.ts:294: "Store keys using setKeys (saves to IPFS automatically)".
  `putJson` reports a failure by null, which `setKeys` does not look at: `register`
  succeeds and the keys are nowhere (`Saved`, `interrupted`).
* BackupRestore.tsx:39: "Keys restored successfully!" A restore stores nothing
  (`bytes`, above).
* useIpfsStorage.ts:86: "Cleanup on unmount or address change". The clean-up does not
  stop an `initialize` under way, whose object becomes the page's (`Resolved`).
* ZKVerifier.sol:163: "@return True if proof is valid". A prover's proof is refused,
  and what is accepted says nothing about the circuit (`Groth16`, `Checked`).
* PROTOCOL_DESIGN.md:573 posts the proof's nullifier, client.ts:287 another one
  (`computeGroupNullifier`, `buildNullifier`).
* client.ts:553: "Verify signature on group message metadata". Signer and verifier
  sign different bytes (`signMetadata`, `RecoversAuthor`).
* ProtocolDAO.sol:384: "Would break threshold" compares with a list that may name a
  signer twice.

### Fairness

Only two specifications have any. `RatchetStore`: the microtask queue is
processed and pending timers fire, which the event loop guarantees; nobody is
obliged to call. `MessageClient`: a user keeps scanning, and a scan that runs
makes steps; nothing is assumed of sends, posts or reloads. It serves
`DecryptAndRead`, whose counterexample is therefore not one of a user who stopped.

## 4. Proofs

Each set of proofs is an inductive invariant, one step per action.

* **GroupRegistryProofs.** `RegistryInv` is `TypeOK`, `IndexBijection` and
  `UncreatedIsBlank` (a group without an admin has no members, which
  `createGroup` needs as it does not reset anything). The hard case is
  `removeMember`: `RemoveKeepsBijection` splits on whether the removed slot is
  the last. `RosterRefinement` then shows every transaction to be a step of the
  roster. Theorems: `TypeCorrect`, `BijectionHolds`, `RosterRefinement`.
* **KeyRegistrationProofs**, the contract. `RemainingCoversAvailable` is not
  inductive: it is strengthened by `CountedAreMarked`, that at least as many flags
  are set below the batch's size as the counter says. `ConsumeKeepsMarked` counts one
  more of each; a reset sets the counter to 0 and clears no flag. Theorems:
  `RegistryTypeCorrect`, `RemainingCovers`.

  The pages. First, the composition's steps are steps of the
  contract (`ImplementsRegistry`), so that the contract's theorem carries over
  (`PreKeysCovered`). Then `Inv`: every key set in a page, a transaction or the
  store is one that was drawn (`KeysAreDrawn`), was mined if it was stored
  (`MinedFirst`), a bundle that verifies is a pair drawn together
  (`VerifiedArePairs`), and so is what a greeting was made for (`GreetingsFit`).
  A rotation, signed by a wallet, never verifies because no wallet has an
  identity key (`RegistrationAssumption`). Theorems: `Invariance`,
  `TypeCorrect`, `StoredHolds`, `AgreementHolds`.

  `AnswerInv` gives `AnswerableUnlessInterrupted`: transactions of an account are
  mined in the order in which its key sets were drawn, the bundle on chain has the
  identity of the last one mined unless it was revoked, and a page at rest that was
  not interrupted has stored that one. That the stored pre-key is the bundle's too,
  if the bundle verifies, comes from `VerifiedArePairs`: a bundle that verifies is a
  pair drawn together, and an identity was drawn with one pre-key
  (`IdentityHasOnePreKey`). It needs that `NoKey` is no key set, and that what is
  still in the pool is newer than all that was mined. Theorem: `AnswerableHolds`.

  The backup. `BackupInv` adds to `BackupsWereRegistered` that backups are of
  accounts and hold no byte arrays. From it every step of the dialog leaves
  registry, pages and storage as they are, so that a step of `BackupNext` is one of
  `KeyRegistration` (`ImplementsRegistration`), and conversely `BackupInv` is kept
  because what is stored was mined, which is `Inv`: the two are proved together
  (`BothHold`). Theorems: `ImplementsRegistration`, `BackupsHold`.
* **RatchetSessionProofs.** `PartyInv`: a party's receive chain is the other's send
  chain at the position it has counted, and a cached key is the chain's key of the
  index it is cached under, at most once for each index. That is what makes the keys
  harmless which a rejected message leaves behind (`LeftFacts`, `ForeignFacts`).
  `SentInv` says what a sealed message is, `ReadInv` that a read message is behind the
  chain and not cached, `UnreadInv` that an unread one is ahead of it or cached unless
  a limit was met. The lemmas below it say what `SkipKeys`, `KeepLast` and
  `WithoutEntry` do to a cache of any length; `StepKeepsSession` is the one place that
  puts a step of one party against the other's messages. Theorems: `NoReplayHolds`,
  `UnreadOpens`, `OnlyRootLeads`, `TypeCorrect`.
* **MessageClientProofs**, the largest. `SealedInv` is about what was sent. A chain
  is a root and one of its two ways, and is from one party to another (`Side`), who
  may be the same. A message is on a chain from its sender to its recipient, under
  the key of its number (`TalkOK`), each state's send counter is ahead of what its
  page sealed (`SendOK`), and any two messages are `Apart`: a key pair is of one
  session, a page has one key pair for a peer and numbers its messages, and a
  session it starts is of no other page. `ReadInv` is about what a page has read
  since its last reload: its receive chain is where its counter says, no number it
  has opened can be opened again (`Shut`), a cached key is there under the sender's
  key pair or can never be used, the running scan has opened what it has passed
  (`Scanned`), and every number below the counter is accounted for as opened,
  cached, or lost to a limit (`AllAccounted`). The case that makes it hard is a
  rejected message (`Left`), which may push keys of the page's own chain into its
  cache under a foreign key pair: those do not serve the genuine messages and take
  the room of later ones. A page is therefore either calm, with no such keys, or
  stuck: the rejected message is in the log that each scan starts over, so that
  nothing after it is opened until a reload. A message to oneself is on the chain
  the page sends on, and never opens. `ThrewIsExplained` goes through the steps
  after which a scan is gone: a reload, the end of the log, an event of another
  program, or a message that is `Shut`, for which `AllAccounted` has the reason. The
  lemmas on caches are for any `MAX_SKIP` and `MAX_SKIPPED_KEYS`. Theorems:
  `KeyReuseHolds`, `OpenedOnceHolds`, `ReceivedHolds`, `AbortExplainedHolds`,
  `TypeCorrect`.
* **RatchetStoreProofs.** `ControlInv` says who waits where: the microtask queue holds
  exactly the calls that are due, and a lock is held by the call its place says.
  `OrderInv` is the point of it: a sender that has released the lock and has not yet
  saved is ahead, in that queue, of whoever holds the lock now, so that it saves
  before the other loads. With `DataInv` (what a call has loaded is what the store
  holds) each load and save is a step of `AtomicSession` or none. `CallInv` and
  `CountInv` bound indices and counts by the calls that are over. It assumes finitely
  many callers of three kinds and a `None` that is no state. Theorems: `LocksExclude`,
  `AtomicRefinement`, `TypeCorrect`.
* **ConversationPageProofs.** Contents are numbered as they come, so that the numbers
  order manifests. `OrderInv`: an object's manifest is at least as new as the one it
  was loaded from or saved last, and as each snapshot of its puts, which is newer than
  its base; a restore in the middle of a put breaks this until the next load of the
  page (`crossed`). `HistoryInv` extends `HistoryIsRecoverable` to every manifest on
  IPFS and to the snapshots, which may be loaded or restored later. `CountInv` counts
  puts, since `started` bounds the content. `AccountInv`: manifests of an object, of a
  pointer and of what is being read are of the object's account. `TextInv`: while
  there is an account, the text of a list is the one last to be saved, or empty; a
  list that waits for its timer is to be saved for this account. `SaveInv`: a text
  whose save was not lost waits for its timer, is on its way to a manifest of the
  account it was to be saved for, or is in one. `MountInv`: the page has an object
  only after its lists count as loaded, from which `NothingLoads`: lists only grow by
  what is new with a step, or empty at a reload. Theorems: `NoSaveBack`,
  `HistoryHolds`, `RestIsSaved`, `NothingLoads`, `TypeCorrect`.
* **ProtocolDAOProofs.** `SignerInv` is that everybody with a flag is in `signers`,
  that the list is longer than there are flags by `Repeated`, the surplus of the
  constructor's list, and that the threshold is within it. The hard case is
  `removeSigner`, which moves the last signer into the first place of the removed
  one: nobody else leaves the list, even if somebody is in it twice
  (`RemovedKeeps`). The surplus stays because a removal takes one place and one flag,
  an addition gives one of each. That the counters of a
  proposal are the sizes of its votes needs `Person` and the voters who voted to be
  finite. `RepeatInv` gives `RepeatNeedsTimelock`: whenever an operation may run
  again, its `readyTime` is at least a timelock after all its runs so far. `Agreed`
  says that a proposal queued or executed has won a vote that is over, and
  `EnoughSigned` that each run had its signers. Theorems: `ThresholdHolds`,
  `TypeCorrect`, `RepeatHolds`, `AgreementHolds`.
* **GroupMessagesProofs.** `LogInv` adds to `NullifierOnce` that the nullifiers in
  the log are used ones, in a log that anybody may write to and with nullifiers that
  anybody may consume; it needs nothing of what `_verify` accepts. `EventsInv` types
  the log's events by kind: no group message is of a later epoch than today's, which
  makes the one that ends a scan one of an earlier. `HalfRead` is the loop invariant
  of the second half of a scan: what can be read of the part it queried, and is not
  left to be read, has been collected, in order, and what is left comes later.
  `HalfOpened` is that of the first: what it has passed is opened, and once it has
  opened one, what is left is not. The latter holds because messages open in the
  order of the log (`PrefixInv`: what was opened since a reload is a prefix of what
  opens), so that a scan that meets a spent key has opened nothing and loses
  nothing. `OpenedInv`: what was opened was shown or is held by the scan, unless
  there is a reason for its loss, which stays one. `IndexInv` relates a tag's list
  to the log; a batch keeps it since its places come after all others and every one
  of its messages found room, the last of a tag too (`RoomForAll`). From it follow
  the pages for every limit, and with `2 * MAX_MESSAGES_PER_VIEW_TAG <= MaxUint`
  that none of them reverts.

  The tree is proved right for every height. The prover takes no induction over
  data, so that an induction over levels is one over the set of levels that fail,
  which has no least member (`AllLevels`); in the same way each recursive function
  of `MerkleTree` is shown to exist and to be its own next round (`LevelStep`,
  `HalvedStep`, `WidthStep`, `NodesStep`, `HashSteps`). Then: what `computeRoot` has
  after a round is the node above the leaf (`PathLeads`); a level is the complete
  tree's without the zero hashes at its end (`LevelsComplete`); different leaves
  have different nodes above them (`LevelsDistinct`), so that a leaf past the last
  place leads to another root; and the root of a full tree stays (`FullRoot`).
  `TreeInv` says of a path on its way that it is that of the leaves it was begun
  with, which today's begin with, and that no identity is in the tree twice.
  Theorems: `NullifierOnceHolds`, `ScanCompleteHolds`, `LostDirectHolds`,
  `RecognisesHolds`, `IndexHolds`, `PagesHold`, `TreeHolds`, `PathHolds`,
  `TypeCorrect`.

The constants' assumptions are those named in the modules (`...Assumption`): key
pairs are never drawn twice, bounds are natural numbers, the zero values belong
to their sets. They hold in the runs, where TLC evaluates them.

Only model-checked: liveness (`EveryCallEnds`, `DecryptAndRead`) and ENABLED, which
are out of the prover's reach.

## 5. What is not modelled

* Attachments: `decryptAttachment` derives IV and tag from the CID, which never
  matches what `encryptAttachment` used; a unit test is enough to show it.
* Cryptography is ideal: a key opens what it sealed and nothing else, and keys drawn
  never repeat. Only the verifier's equation is looked into, term by term. The
  constraints of the circuits are arithmetic over a prime field; no code proves with
  `AnonymousSender.circom`.
* `deriveStealthFromEphemeralX` (deprecated, takes one of two square roots always)
  and the formatting of proofs.
* ProtocolDAO's table of contracts, which nothing reads, and the transfer of
  ownership of the contracts.
* Rendering, modals, errors shown, and the deployment script, a fixed sequence.
  The pages' disabled buttons are not relied on.
* The storage key's cache (`deriveEncryptionKey`, `clearCache`) and the HTTP
  requests of the adapter. That a wallet's signer may be a new object at each
  render of its provider is in `MakeStorage`, which may happen at any time.
* The second `register`, of `useMessageClient.ts`, which no component calls.
* Not pursued by a property: the acceptance of an admin's role holds no nonce
  (GroupRegistry.sol:161), and members added or removed start no new epoch.

## 6. Plan

Every property of the passing runs is a theorem, liveness apart. What is left: the
handover of an admin's role as a message that may be repeated
(GroupRegistry.sol:161), and attachments, if `decryptAttachment` comes to use the IV
that `encryptAttachment` drew.
