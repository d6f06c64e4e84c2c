-------------------------- MODULE ConversationPage --------------------------
(***************************************************************************)
(* The main page, frontend/app/page.tsx: its lists of conversations and of *)
(* messages, the effects that load them from the encrypted storage and     *)
(* save them there, and useIpfsStorage.ts and AccountContext.tsx, which    *)
(* give the page an account and a storage object.                          *)
(*                                                                         *)
(* React runs the effects of a render before the next event, so a change   *)
(* of the page's state and the effects it causes are one step.  A list is  *)
(* named by the changes it has seen, which are numbered.                   *)
(***************************************************************************)
EXTENDS EncryptedIpfsStorage

CONSTANTS
    Kind,           \* the lists that the page saves
    PageStorage,    \* objects that the page's own useIpfsStorage may make
    NoAccount,
    NoStorage,
    MaxChanges      \* bound on the changes of lists

ASSUME PageAssumption ==
    /\ Kind = {"conversations", "messages"}
    /\ Kind \subseteq Entry
    /\ PageStorage \subseteq Storage
    /\ NoAccount \notin Account
    /\ NoStorage \notin Storage
    /\ MaxChanges \in Nat
    /\ SUBSET (1..MaxChanges) \subseteq Data

VARIABLES
    address,        \* the account of the page, or NoAccount
    made,           \* the storage objects that hooks have made since the page was loaded
    latest,         \* the one that the page's last effect made, or NoStorage
    storage,        \* the one that the page uses, or NoStorage: the storage is not ready
    lists,          \* lists[k]: conversations, messages
    dataLoaded,
    lastSaved,      \* lastSavedConversations, lastSavedMessages
    savedFor,       \* history: the account for which that was to be saved
    timers,         \* lists whose save waits for its timer
    scanned,        \* a scan has returned messages
    changes,        \* how many changes there were
    dropped         \* history: lists whose last save was cancelled, skipped or
                    \* misdirected, or failed

hookVars == <<address, made, latest, storage>>
listVars == <<lists, dataLoaded, lastSaved, savedFor, timers, dropped>>
counters == <<scanned, changes>>
vars == <<storageVars, hookVars, listVars, counters>>

TypeOK ==
    /\ StorageTypeOK
    /\ address \in Account \union {NoAccount}
    /\ made \subseteq Storage
    /\ latest \in PageStorage \union {NoStorage}
    /\ storage \in PageStorage \union {NoStorage}
    /\ lists \in [Kind -> SUBSET (1..changes)]
    /\ dataLoaded \in BOOLEAN
    /\ lastSaved \in [Kind -> SUBSET (1..changes)]
    /\ savedFor \in [Kind -> Account \union {NoAccount}]
    /\ timers \subseteq Kind
    /\ scanned \in BOOLEAN
    /\ changes \in 0..MaxChanges
    /\ dropped \subseteq Kind

None == [k \in Kind |-> {}]

Init ==
    /\ StorageInit
    /\ address = NoAccount
    /\ made = {}
    /\ latest = NoStorage
    /\ storage = NoStorage
    /\ lists = None
    /\ dataLoaded = FALSE
    /\ lastSaved = None
    /\ savedFor = [k \in Kind |-> NoAccount]
    /\ timers = {}
    /\ scanned = FALSE
    /\ changes = 0
    /\ dropped = {}

-----------------------------------------------------------------------------
(* Effects.  shown are the lists after the change that causes them, and    *)
(* renewed those that are new arrays, whatever they hold.                  *)

\* What getJson returns, or else the list stays as it is.  The path names the
\* account, which put, has and get do not look at.
Read(s, shown) == [k \in Kind |-> IF has(s, k) THEN get(s, k) ELSE shown[k]]

\* The lists are read once, when there is an account: if the storage is not
\* ready in that render, they count as loaded all the same.  A render for
\* another account still has the old account's object.
LoadEffect(shown) ==
    IF dataLoaded \/ address' = NoAccount
    THEN lists' = shown /\ UNCHANGED dataLoaded
    ELSE /\ lists' = IF storage = NoStorage THEN shown ELSE Read(storage, shown)
         /\ dataLoaded' = TRUE

\* A dependency of the effect that saves list k has changed, so that a timer
\* it had started is cleared.
Runs(k, renewed) ==
    \/ address' # address
    \/ storage' # storage
    \/ dataLoaded' # dataLoaded
    \/ lists'[k] # lists[k]
    \/ k \in renewed

\* It starts a timer, unless it did for the very same text before.
Starts(k) ==
    /\ address' # NoAccount
    /\ dataLoaded'
    /\ lists'[k] # {}
    /\ lists'[k] # lastSaved[k]

SaveEffects(renewed) ==
    LET begun == {k \in Kind : Runs(k, renewed) /\ Starts(k)}
    IN  /\ timers' = begun \union {k \in timers : ~Runs(k, renewed)}
        /\ lastSaved' = [k \in Kind |-> IF k \in begun THEN lists'[k] ELSE lastSaved[k]]
        /\ savedFor' = [k \in Kind |-> IF k \in begun THEN address' ELSE savedFor[k]]
        /\ dropped' = (dropped \union {k \in timers : Runs(k, renewed)}) \ begun

Commit(shown, renewed) == LoadEffect(shown) /\ SaveEffects(renewed)

-----------------------------------------------------------------------------
(* AccountContext and useIpfsStorage                                       *)

\* The effect that shows scanned messages runs again for another account and
\* adds them once more: the ids it makes are new.
Rescanned(a) ==
    IF scanned /\ a # address
    THEN [lists EXCEPT !["messages"] = @ \union {changes + 1}]
    ELSE lists

\* The wallet connects, disconnects or changes its account, or a test user is
\* chosen.  The object that was made for the old account is let go; one that
\* came late stays, if the new account has a signer at once.
SetAddress(a) ==
    /\ a # address
    /\ scanned => changes < MaxChanges
    /\ address' = a
    /\ latest' = NoStorage
    /\ \/ storage' = NoStorage
       \/ latest = NoStorage /\ a # NoAccount /\ UNCHANGED storage
    /\ changes' = IF scanned THEN changes + 1 ELSE changes
    /\ UNCHANGED <<storageVars, made, scanned>>
    /\ Commit(Rescanned(a), {})

\* The effect of useIpfsStorage makes an object and asks for a signature: IPFS
\* was found, there is an account, or its signer is a new object, which it is
\* whenever the provider renders.
MakeStorage(s) ==
    /\ s \notin made
    /\ s \in PageStorage => address = addressOf[s]
    /\ made' = made \union {s}
    /\ IF s \in PageStorage
       THEN /\ latest' = s
            /\ storage' = IF latest # NoStorage THEN NoStorage ELSE storage
       ELSE UNCHANGED <<latest, storage>>
    /\ UNCHANGED <<storageVars, address, counters>>
    /\ Commit(lists, {})

\* initialize has returned: the page takes the object, whoever its account is
\* by now.
Resolved(s) ==
    /\ storage' = IF Loaded(s)' /\ s \in PageStorage THEN s ELSE storage
    /\ UNCHANGED <<address, made, latest, counters>>
    /\ Commit(lists, {})

Initialize(s) ==
    /\ s \in made
    /\ initialize(s)
    /\ Resolved(s)

LoadManifest(s) ==
    /\ Load(s)
    /\ Resolved(s)

-----------------------------------------------------------------------------
(* The user                                                                *)

Change(shown, renewed) ==
    /\ changes < MaxChanges
    /\ changes' = changes + 1
    /\ UNCHANGED <<storageVars, hookVars>>
    /\ Commit(shown, renewed)

WithChange(ks) == [k \in Kind |-> IF k \in ks THEN lists[k] \union {changes + 1} ELSE lists[k]]

\* With an address that has no channel yet; no account is needed.
handleCreateChannel ==
    /\ Change(WithChange({"conversations"}), {"conversations"})
    /\ UNCHANGED scanned

\* The transaction was mined; without a client or a recipient nothing is sent.
sendMessage == address # NoAccount /\ lists["conversations"] # {}

\* The message was sent: it is shown, and as the last one of its conversation.
\* The conversations are a new array even if that reads as it did.
handleSendMessage ==
    /\ sendMessage
    /\ \E ks \in {{"messages"}, {"conversations", "messages"}} :
           Change(WithChange(ks), {"conversations", "messages"})
    /\ UNCHANGED scanned

\* The messages a scan returned stay with the hook.
scanMessages == address # NoAccount /\ scanned' = TRUE

\* All messages of the scan are added to those shown.
handleScan ==
    /\ scanMessages
    /\ Change(WithChange({"messages"}), {"messages"})

-----------------------------------------------------------------------------
(* Saving                                                                  *)

\* The timer of a list runs out.  If the storage is not ready the list is not
\* saved, and nobody tries again before it changes.  If it is an object of
\* another account, which came late, the list goes to that account's manifest.
SaveTimer(k) ==
    /\ k \in timers
    /\ timers' = timers \ {k}
    /\ IF storage = NoStorage
       THEN /\ dropped' = dropped \union {k}
            /\ UNCHANGED storageVars
       ELSE /\ put(storage, k, lists[k])
            /\ dropped' = IF addressOf[storage] = address THEN dropped ELSE dropped \union {k}
    /\ UNCHANGED <<hookVars, lists, dataLoaded, lastSaved, savedFor, counters>>

\* Other hooks put entries of their own.
PutElsewhere(s, e) ==
    /\ s \notin PageStorage
    /\ put(s, e, {})
    /\ UNCHANGED <<hookVars, listVars, counters>>

\* putJson returns null, which nobody looks at.
SaveFails(p) ==
    /\ PutFails(p)
    /\ dropped' = dropped \union ({p.entry} \intersect Kind)
    /\ UNCHANGED <<hookVars, lists, dataLoaded, lastSaved, savedFor, timers, counters>>

StorageStep ==
    /\ \/ \E p \in puts : Record(p) \/ saveManifest(p)
       \/ \E s \in Storage : \E cid \in History(s) : restoreFromManifest(s, cid)
    /\ UNCHANGED <<hookVars, listVars, counters>>

ReloadPage ==
    /\ Reload
    /\ address' = NoAccount
    /\ made' = {}
    /\ latest' = NoStorage
    /\ storage' = NoStorage
    /\ lists' = None
    /\ dataLoaded' = FALSE
    /\ lastSaved' = None
    /\ savedFor' = [k \in Kind |-> NoAccount]
    /\ timers' = {}
    /\ scanned' = FALSE
    /\ dropped' = {}
    /\ UNCHANGED changes

Next ==
    \/ \E a \in Account \union {NoAccount} : SetAddress(a)
    \/ \E s \in Storage : MakeStorage(s) \/ Initialize(s) \/ LoadManifest(s)
    \/ \E s \in Storage, e \in Entry : PutElsewhere(s, e)
    \/ handleCreateChannel \/ handleSendMessage \/ handleScan
    \/ \E k \in Kind : SaveTimer(k)
    \/ \E p \in puts : SaveFails(p)
    \/ StorageStep \/ ReloadPage

Spec == Init /\ [][Next]_vars

-----------------------------------------------------------------------------
(* Properties                                                              *)

\* page.tsx:1055: "Load conversations and messages from IPFS on mount".  When
\* the lists count as loaded, they are those that the account's manifest names.
LoadedOnMount ==
    [][\A k \in Kind :
           LET a == address'
           IN  ~dataLoaded /\ dataLoaded' /\ pointer[a] # 0 /\ ipfs[pointer[a]].entries[k] # 0 =>
                   lists'[k] = content[ipfs[pointer[a]].entries[k]]]_vars

\* A page at rest has saved what it shows, in some manifest of its account,
\* unless the save was lost: its timer was cleared, by another account or
\* storage or by a new array of the same text, and not started again; when it
\* ran out, the storage was not ready or another account's; or an upload
\* failed.  It was never to be saved for this account if it has not changed
\* since there was another one.
SavedUnlessDropped ==
    (address # NoAccount /\ timers = {} /\ puts = {}) =>
        \A k \in Kind \ dropped : lists[k] # {} /\ savedFor[k] = address =>
            \E i \in DOMAIN ipfs : /\ ipfs[i].address = address
                                   /\ ipfs[i].entries[k] # 0
                                   /\ content[ipfs[i].entries[k]] = lists[k]
=============================================================================
