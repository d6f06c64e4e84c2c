-------------------------- MODULE KeyRegistration --------------------------
(***************************************************************************)
(* How an account comes to its keys: register of                           *)
(* frontend/src/hooks/useRegisterKeys.ts, which draws a key set, puts its  *)
(* public half in the StealthRegistry and then its private half in the     *)
(* encrypted storage; useMessageClient.ts, which makes a client of the     *)
(* stored keys; and the two halves of src/x3dh.ts that use them.           *)
(*                                                                         *)
(* Each account has one open page.  The hooks of a page share no storage   *)
(* object: each has its own manifest, loaded when the page was, and saves  *)
(* all of it.  seen[a] is the keys entry of the manifests of a's page that *)
(* are not the registering hook's.  Transactions of one account are mined  *)
(* in the order they were sent.                                            *)
(***************************************************************************)
EXTENDS StealthRegistry, Sequences

CONSTANTS
    MaxKeys,        \* MaxKeys[a]: bound on the key pairs a draws
    MaxGreetings    \* bound on the first messages ever sent

IdentityKey(a, n) == <<"identity", a, n>>
PreKey(a, n) == <<"prekey", a, n>>

KeySet == [identity : Key, preKey : Key]

\* Key pairs are never drawn twice, no wallet has the key of a key set, and to
\* have no key set is not to have one.
ASSUME RegistrationAssumption ==
    /\ MaxKeys \in [Account -> Nat]
    /\ MaxGreetings \in Nat
    /\ \A a \in Account : \A n \in 1..MaxKeys[a] :
           {IdentityKey(a, n), PreKey(a, n)} \subseteq Key
    /\ Account \intersect Key = {}
    /\ NoKey \notin KeySet

VARIABLES
    phase,      \* phase[a]: where register is in a's page
    draft,      \* draft[a]: the key set that register last drew, or NoKey
    mempool,    \* mempool[a]: key sets in transactions that are not mined yet
    mined,      \* history: mined[a]: the key sets a ever registered
    stored,     \* stored[a]: keys entry of the manifest that a load finds, or NoKey
    seen,       \* seen[a]: keys entry that a's page loaded, or NoKey
    client,     \* client[a]: key set of a's message client, or NoKey
    interrupted,\* history: a's last registration, or what it stored, was cut short
    drawn,      \* drawn[a]: how many key pairs a has drawn
    greetings   \* the first messages sent so far

pageVars == <<phase, draft, stored, seen, client, interrupted>>
vars == <<registryVars, pageVars, mempool, mined, drawn, greetings>>

Greeting == [senderIdentity : Key, eph : Nat, stealth : Key,
             sessionKey : Key \X Nat \X Key \X Key]

TypeOK ==
    /\ RegistryTypeOK
    /\ phase \in [Account -> {"idle", "signing", "confirming", "saving", "reinit", "done"}]
    /\ draft \in [Account -> KeySet \union {NoKey}]
    /\ mempool \in [Account -> Seq(KeySet)]
    /\ mined \in [Account -> SUBSET KeySet]
    /\ stored \in [Account -> KeySet \union {NoKey}]
    /\ seen \in [Account -> KeySet \union {NoKey}]
    /\ client \in [Account -> KeySet \union {NoKey}]
    /\ interrupted \in [Account -> BOOLEAN]
    /\ drawn \in [Account -> Nat]
    /\ greetings \subseteq Greeting

Init ==
    /\ RegistryInit
    /\ phase = [a \in Account |-> "idle"]
    /\ draft = [a \in Account |-> NoKey]
    /\ mempool = [a \in Account |-> <<>>]
    /\ mined = [a \in Account |-> {}]
    /\ stored = [a \in Account |-> NoKey]
    /\ seen = [a \in Account |-> NoKey]
    /\ client = [a \in Account |-> NoKey]
    /\ interrupted = [a \in Account |-> FALSE]
    /\ drawn = [a \in Account |-> 0]
    /\ greetings = {}

-----------------------------------------------------------------------------
(* register                                                                *)

\* Everything up to the wallet's signature.  "Rotate Key" does the same.
StartRegister(a) ==
    /\ phase[a] \in {"idle", "done"}
    /\ drawn[a] < MaxKeys[a]
    /\ phase' = [phase EXCEPT ![a] = "signing"]
    /\ drawn' = [drawn EXCEPT ![a] = @ + 1]
    /\ draft' = [draft EXCEPT ![a] = [identity |-> IdentityKey(a, drawn[a] + 1),
                                      preKey   |-> PreKey(a, drawn[a] + 1)]]
    /\ UNCHANGED <<registryVars, mempool, mined, stored, seen, client, interrupted, greetings>>

\* The user rejects the signature or the transaction.
WalletRejects(a) ==
    /\ phase[a] = "signing"
    /\ phase' = [phase EXCEPT ![a] = "idle"]
    /\ UNCHANGED <<registryVars, draft, mempool, mined, stored, seen, client, interrupted,
                   drawn, greetings>>

Submit(a) ==
    /\ phase[a] = "signing"
    /\ phase' = [phase EXCEPT ![a] = "confirming"]
    /\ mempool' = [mempool EXCEPT ![a] = Append(@, draft[a])]
    /\ UNCHANGED <<registryVars, draft, mined, stored, seen, client, interrupted,
                   drawn, greetings>>

\* The transaction of register is mined, whether a page waits for it or not.
\* Its pre-key is signed by the identity key, and it has no one-time keys.
Mine(a) ==
    /\ mempool[a] # <<>>
    /\ LET k == Head(mempool[a])
       IN  /\ registerKeyBundle(a, k.identity, k.preKey,
                                [signer |-> k.identity, over |-> k.preKey], 0)
           /\ mined' = [mined EXCEPT ![a] = @ \union {k}]
    /\ mempool' = [mempool EXCEPT ![a] = Tail(@)]
    /\ UNCHANGED <<pageVars, drawn, greetings>>

\* tx.wait throws: the node cannot be reached.
WaitFails(a) ==
    /\ phase[a] = "confirming"
    /\ phase' = [phase EXCEPT ![a] = "idle"]
    /\ interrupted' = [interrupted EXCEPT ![a] = TRUE]
    /\ UNCHANGED <<registryVars, draft, mempool, mined, stored, seen, client, drawn, greetings>>

\* Mutant: looks whether the account is registered, not whether this
\* transaction is mined.
ConfirmAnyBundle(a) ==
    /\ phase[a] = "confirming"
    /\ hasKeyBundle(a)
    /\ phase' = [phase EXCEPT ![a] = "saving"]
    /\ UNCHANGED <<registryVars, draft, mempool, mined, stored, seen, client, interrupted,
                   drawn, greetings>>

\* tx.wait returns.
Confirm(a) ==
    /\ phase[a] = "confirming"
    /\ draft[a] \in mined[a]
    /\ phase' = [phase EXCEPT ![a] = "saving"]
    /\ UNCHANGED <<registryVars, draft, mempool, mined, stored, seen, client, interrupted,
                   drawn, greetings>>

\* Mutant: the pre-key that was stored before is kept.
SavedMerged(a) ==
    /\ phase[a] = "saving"
    /\ phase' = [phase EXCEPT ![a] = "reinit"]
    /\ stored' = [stored EXCEPT ![a] =
           [identity |-> draft[a].identity,
            preKey   |-> IF @ = NoKey THEN draft[a].preKey ELSE @.preKey]]
    /\ interrupted' = [interrupted EXCEPT ![a] = FALSE]
    /\ UNCHANGED <<registryVars, draft, mempool, mined, seen, client, drawn, greetings>>

\* putJson has stored the keys and the manifest that names them.
Saved(a) ==
    /\ phase[a] = "saving"
    /\ phase' = [phase EXCEPT ![a] = "reinit"]
    /\ stored' = [stored EXCEPT ![a] = draft[a]]
    /\ interrupted' = [interrupted EXCEPT ![a] = FALSE]
    /\ UNCHANGED <<registryVars, draft, mempool, mined, seen, client, drawn, greetings>>

\* putJson returns null, which nobody looks at: register still succeeds.
SaveFails(a) ==
    /\ phase[a] = "saving"
    /\ phase' = [phase EXCEPT ![a] = "reinit"]
    /\ interrupted' = [interrupted EXCEPT ![a] = TRUE]
    /\ UNCHANGED <<registryVars, draft, mempool, mined, stored, seen, client, drawn, greetings>>

-----------------------------------------------------------------------------
(* useMessageClient                                                        *)

\* The keys are looked up in the manifest that the page loaded.
MakeClient(a) == client' = [client EXCEPT ![a] = IF seen[a] # NoKey THEN seen[a] ELSE @]

\* The page starts again.  Its manifests are loaded, or cannot be, and are
\* then new and empty.  What register was doing is lost.
Reload(a) ==
    /\ \E loaded \in {stored[a], NoKey} :
           /\ seen' = [seen EXCEPT ![a] = loaded]
           /\ client' = [client EXCEPT ![a] = loaded]
    /\ phase' = [phase EXCEPT ![a] = "idle"]
    /\ interrupted' = [interrupted EXCEPT ![a] = @ \/ phase[a] \in {"confirming", "saving"}]
    /\ UNCHANGED <<registryVars, draft, mempool, mined, stored, drawn, greetings>>

\* handleRegister makes the client again after register succeeded.
Reinitialize(a) ==
    /\ phase[a] = "reinit"
    /\ phase' = [phase EXCEPT ![a] = "done"]
    /\ MakeClient(a)
    /\ UNCHANGED <<registryVars, draft, mempool, mined, stored, seen, interrupted, drawn, greetings>>

\* The page saves conversations or messages, and with them the rest of the
\* manifest it loaded.
SavePage(a) ==
    /\ stored' = [stored EXCEPT ![a] = seen[a]]
    /\ interrupted' = [interrupted EXCEPT ![a] = @ \/ seen[a] # stored[a]]
    /\ UNCHANGED <<registryVars, phase, draft, mempool, mined, seen, client, drawn, greetings>>

-----------------------------------------------------------------------------
(* x3dh                                                                    *)

\* Mutant: any signature will do.
verifyNothing(a) == hasKeyBundle(a)

verifySignedPreKeySignature(a) ==
    signedPreKeySignature[a] = [signer |-> identityKey[a], over |-> signedPreKey[a]]

\* Both roles derive the key of the same four shared secrets.  The ephemeral
\* key is fresh.
SessionKey(senderIdentity, eph, identity, preKey) == <<senderIdentity, eph, identity, preKey>>

\* It returns a bundle; of an account that has none, the keys are empty and it
\* throws.
resolveRecipientBundle(b) == hasKeyBundle(b)

\* a sends its first message to b: x3dhInitiator with b's bundle, for the
\* stealth address that goes with it.
Greet(a, b) ==
    /\ client[a] # NoKey
    /\ resolveRecipientBundle(b)
    /\ verifySignedPreKeySignature(b)
    /\ Cardinality(greetings) < MaxGreetings
    /\ LET eph == Cardinality(greetings)
       IN  greetings' = greetings \union
               {[senderIdentity |-> client[a].identity,
                 eph            |-> eph,
                 stealth        |-> identityKey[b],
                 sessionKey     |-> SessionKey(client[a].identity, eph,
                                               identityKey[b], signedPreKey[b])]}
    /\ UNCHANGED <<registryVars, pageVars, mempool, mined, drawn>>

\* The view tag and the stealth address are those of client b's keys.
ForMe(b, m) == client[b] # NoKey /\ m.stealth = client[b].identity

x3dhResponder(b, m) ==
    SessionKey(m.senderIdentity, m.eph, client[b].identity, client[b].preKey)

-----------------------------------------------------------------------------

\* The owner calls the contract itself, with a new pre-key that its wallet
\* signs, as the contract wants it.
Rotate(a) ==
    /\ drawn[a] < MaxKeys[a]
    /\ LET k == PreKey(a, drawn[a] + 1)
       IN  rotateSignedPreKey(a, k, [signer |-> a, over |-> k])
    /\ drawn' = [drawn EXCEPT ![a] = @ + 1]
    /\ UNCHANGED <<pageVars, mempool, mined, greetings>>

\* Other calls of the contract.
ContractCall ==
    /\ \/ ConsumeNext
       \/ \E a \in Account : \E n \in 0..MaxCount[a] : refillOneTimePreKeys(a, n)
       \/ \E a \in Account : revokeKeyBundle(a)
       \/ Tick
    /\ UNCHANGED <<pageVars, mempool, mined, drawn, greetings>>

\* What a's page and its owner do, but for loading the page again.
PageStep(a) ==
    \/ StartRegister(a) \/ WalletRejects(a) \/ Submit(a) \/ Mine(a)
    \/ WaitFails(a) \/ Confirm(a) \/ Saved(a) \/ SaveFails(a)
    \/ Reinitialize(a) \/ SavePage(a) \/ Rotate(a)
    \/ \E b \in Account : Greet(a, b)

Next ==
    \/ \E a \in Account : PageStep(a) \/ Reload(a)
    \/ ContractCall

Spec == Init /\ [][Next]_vars

-----------------------------------------------------------------------------
(* Properties                                                              *)

\* Whoever takes a first message for its own derives the session key that
\* the sender did, whatever was registered, rotated, revoked or loaded since
\* the sender read the bundle.
SessionsAgree ==
    \A m \in greetings : \A b \in Account :
        ForMe(b, m) => x3dhResponder(b, m) = m.sessionKey

\* The storage never holds keys whose bundle did not make it to the chain.
StoredWasRegistered ==
    \A a \in Account : stored[a] # NoKey => stored[a] \in mined[a]

\* A page at rest holds, in its storage, both key pairs of its account's
\* bundle, so that it can answer for it after a reload: in whatever order
\* transactions of this page and of earlier ones are mined, and however often
\* the account registers.  That holds of the undisturbed course only: it is
\* exempt while the last registration was cut short after its transaction was
\* sent, its storing failed, or the page then saved a manifest that it had
\* loaded before (interrupted): register reports success all the same.  Nobody
\* stores a pre-key that the owner rotates in at the contract; it is compared as
\* long as a sender can use the bundle, which it cannot after a rotation, whose
\* signature is the wallet's.
AnswerableUnlessInterrupted ==
    \A a \in Account :
        (hasKeyBundle(a) /\ phase[a] \notin {"confirming", "saving"} /\ ~interrupted[a]) =>
            /\ stored[a] # NoKey
            /\ stored[a].identity = identityKey[a]
            /\ verifySignedPreKeySignature(a) => stored[a].preKey = signedPreKey[a]
=============================================================================
