------------------------ MODULE EncryptedIpfsStorage ------------------------
(***************************************************************************)
(* frontend/src/lib/encrypted-ipfs-storage.ts, as the page uses it: each   *)
(* hook that needs storage makes an object of its own (useIpfsStorage.ts). *)
(*                                                                         *)
(* A manifest names the content of every entry.  An object loads the       *)
(* manifest that its account's pointer in localStorage names, changes its  *)
(* own copy, saves all of it to IPFS and moves the pointer there.  Both uploads of a *)
(* put are awaited, and puts of one object or of several overlap; the      *)
(* manifest that is uploaded is the copy as it was when the upload began.  *)
(* Content and manifests are encrypted with a fresh IV, so no CID ever     *)
(* repeats.  They are numbers here: a manifest's is its place on IPFS, and *)
(* content is numbered in the order in which it came into a manifest.  An  *)
(* object belongs to the account whose signer initialized it.              *)
(***************************************************************************)
EXTENDS Integers, Sequences, FiniteSets

CONSTANTS
    Account,
    Storage,        \* the storage objects that a page may make
    addressOf,      \* addressOf[s]: the account of s
    Entry,          \* keys, conversations, messages, a payload
    Writes,         \* Writes[s]: entries that the hook with object s puts
    Data,           \* what can be put
    NotLoaded,
    MaxHistory,     \* 10
    MaxPuts         \* bound on the puts ever started

Manifest == [address : Account, entries : [Entry -> Nat], manifestHistory : Seq(Nat)]

ASSUME StorageAssumption ==
    /\ addressOf \in [Storage -> Account]
    /\ Writes \in [Storage -> SUBSET Entry]
    /\ MaxHistory \in Nat \ {0}
    /\ MaxPuts \in Nat
    /\ NotLoaded \notin Manifest

VARIABLES
    ipfs,           \* the manifests on IPFS, by CID
    pointer,        \* pointer[a] in localStorage: CID of a's last saved manifest, or 0
    manifest,       \* manifest[s], or NotLoaded
    manifestCid,    \* manifestCid[s], or 0
    reading,        \* reading[s]: the manifest that initialize fetches, or 0
    puts,           \* puts that are awaiting an upload
    started,        \* how many puts were started
    content,        \* what was put under each number
    crossed         \* history: the objects restored while they had a put under way

storageVars == <<ipfs, pointer, manifest, manifestCid, reading, puts, started, content, crossed>>

Empty(a) == [address |-> a, entries |-> [e \in Entry |-> 0], manifestHistory |-> <<>>]

\* base: manifestCid when the snapshot was taken.
Adding == [storage : Storage, entry : Entry, id : Nat, data : Data]
Saving == [storage : Storage, entry : Entry, id : Nat, data : Data,
           base : Nat, snapshot : Manifest]

InOrder(history) == \A j \in 1..Len(history) : \A i \in 1..(j - 1) : history[i] < history[j]

StorageTypeOK ==
    /\ ipfs \in Seq(Manifest)
    /\ pointer \in [Account -> 0..Len(ipfs)]
    /\ manifest \in [Storage -> Manifest \union {NotLoaded}]
    /\ manifestCid \in [Storage -> 0..Len(ipfs)]
    /\ reading \in [Storage -> 0..Len(ipfs)]
    /\ puts \subseteq Adding \union Saving
    /\ started \in 0..MaxPuts
    /\ content \in Seq(Data)
    /\ Len(content) <= started
    /\ crossed \subseteq Storage

StorageInit ==
    /\ ipfs = <<>>
    /\ pointer = [a \in Account |-> 0]
    /\ manifest = [s \in Storage |-> NotLoaded]
    /\ manifestCid = [s \in Storage |-> 0]
    /\ reading = [s \in Storage |-> 0]
    /\ puts = {}
    /\ started = 0
    /\ content = <<>>
    /\ crossed = {}

Loaded(s) == manifest[s] # NotLoaded

-----------------------------------------------------------------------------
(* initialize                                                              *)

\* The pointer is read, and its manifest is being fetched; without one the
\* object starts from an empty manifest.
initialize(s) ==
    /\ ~Loaded(s)
    /\ reading[s] = 0
    /\ IF pointer[addressOf[s]] # 0
       THEN reading' = [reading EXCEPT ![s] = pointer[addressOf[s]]] /\ UNCHANGED manifest
       ELSE manifest' = [manifest EXCEPT ![s] = Empty(addressOf[s])] /\ UNCHANGED reading
    /\ UNCHANGED <<ipfs, pointer, manifestCid, puts, started, content, crossed>>

\* Mutant: the CID is the pointer's when the manifest has arrived.
LoadLatest(s) ==
    /\ reading[s] # 0
    /\ \/ /\ manifest' = [manifest EXCEPT ![s] = ipfs[reading[s]]]
          /\ manifestCid' = [manifestCid EXCEPT ![s] = pointer[addressOf[s]]]
       \/ /\ manifest' = [manifest EXCEPT ![s] = Empty(addressOf[s])]
          /\ UNCHANGED manifestCid
    /\ reading' = [reading EXCEPT ![s] = 0]
    /\ UNCHANGED <<ipfs, pointer, puts, started, content, crossed>>

\* The manifest arrives and is decrypted; when that fails, the object starts
\* from an empty one.
Load(s) ==
    /\ reading[s] # 0
    /\ \/ /\ manifest' = [manifest EXCEPT ![s] = ipfs[reading[s]]]
          /\ manifestCid' = [manifestCid EXCEPT ![s] = reading[s]]
       \/ /\ manifest' = [manifest EXCEPT ![s] = Empty(addressOf[s])]
          /\ UNCHANGED manifestCid
    /\ reading' = [reading EXCEPT ![s] = 0]
    /\ UNCHANGED <<ipfs, pointer, puts, started, content, crossed>>

\* The page starts again: all objects are gone, with what they were doing.
Reload ==
    /\ manifest' = [s \in Storage |-> NotLoaded]
    /\ manifestCid' = [s \in Storage |-> 0]
    /\ reading' = [s \in Storage |-> 0]
    /\ puts' = {}
    /\ crossed' = {}
    /\ UNCHANGED <<ipfs, pointer, started, content>>

-----------------------------------------------------------------------------
(* get, has, put                                                           *)

has(s, e) == Loaded(s) /\ manifest[s].entries[e] # 0

get(s, e) == content[manifest[s].entries[e]]

\* The content is being uploaded.
put(s, e, data) ==
    /\ Loaded(s)
    /\ e \in Writes[s]
    /\ started < MaxPuts
    /\ started' = started + 1
    /\ puts' = puts \union {[storage |-> s, entry |-> e, id |-> started + 1, data |-> data]}
    /\ UNCHANGED <<ipfs, pointer, manifest, manifestCid, reading, content, crossed>>

\* Either upload fails: put throws, and the hook returns null.  What the
\* manifest in memory says stays as it is.
PutFails(p) ==
    /\ puts' = puts \ {p}
    /\ UNCHANGED <<ipfs, pointer, manifest, manifestCid, reading, started, content, crossed>>

\* Mutant: an entry that exists keeps its CID.
RecordOnce(p) ==
    /\ p \in Adding
    /\ LET s       == p.storage
           changed == IF has(s, p.entry)
                      THEN manifest[s]
                      ELSE [manifest[s] EXCEPT !.entries[p.entry] = Len(content) + 1]
       IN  /\ manifest' = [manifest EXCEPT ![s] = changed]
           /\ puts' = (puts \ {p}) \union
                  {[storage |-> s, entry |-> p.entry, id |-> p.id, data |-> p.data,
                    base |-> manifestCid[s], snapshot |-> changed]}
    /\ content' = Append(content, p.data)
    /\ UNCHANGED <<ipfs, pointer, manifestCid, reading, started, crossed>>

\* The content is uploaded: its CID goes into the manifest, and the manifest
\* as it is now starts on its way.
Record(p) ==
    /\ p \in Adding
    /\ LET s       == p.storage
           changed == [manifest[s] EXCEPT !.entries[p.entry] = Len(content) + 1]
       IN  /\ manifest' = [manifest EXCEPT ![s] = changed]
           /\ puts' = (puts \ {p}) \union
                  {[storage |-> s, entry |-> p.entry, id |-> p.id, data |-> p.data,
                    base |-> manifestCid[s], snapshot |-> changed]}
    /\ content' = Append(content, p.data)
    /\ UNCHANGED <<ipfs, pointer, manifestCid, reading, started, crossed>>

\* Mutant: the history is not cut.
PushUncut(history, old) == IF old = 0 THEN history ELSE Append(history, old)

\* The manifest's history after another save: the previous manifest is added
\* and the last MaxHistory are kept.
Pushed(history, old) ==
    LET pushed == IF old = 0 THEN history ELSE Append(history, old)
    IN  SubSeq(pushed, IF Len(pushed) > MaxHistory THEN Len(pushed) - MaxHistory + 1 ELSE 1,
               Len(pushed))

\* Mutant: the pointer moves to a manifest whose upload failed.
saveNoUpload(p) ==
    /\ p \in Saving
    /\ pointer' = [pointer EXCEPT ![manifest[p.storage].address] = Len(ipfs) + 1]
    /\ puts' = puts \ {p}
    /\ UNCHANGED <<ipfs, manifest, manifestCid, reading, started, content, crossed>>

\* The snapshot is uploaded.  History and CID of the object are brought up to
\* date, the pointer is moved, and put returns.
saveManifest(p) ==
    /\ p \in Saving
    /\ LET s   == p.storage
           new == Len(ipfs) + 1
       IN  /\ ipfs' = Append(ipfs, p.snapshot)
           /\ pointer' = [pointer EXCEPT ![manifest[s].address] = new]
           /\ manifestCid' = [manifestCid EXCEPT ![s] = new]
           /\ manifest' = [manifest EXCEPT ![s].manifestHistory = Pushed(@, manifestCid[s])]
    /\ puts' = puts \ {p}
    /\ UNCHANGED <<reading, started, content, crossed>>

-----------------------------------------------------------------------------

\* A manifest of the object's history is fetched and becomes the current one,
\* unless it is of another account.
restoreFromManifest(s, cid) ==
    /\ Loaded(s)
    /\ ipfs[cid].address = addressOf[s]
    /\ manifest' = [manifest EXCEPT ![s] = ipfs[cid]]
    /\ manifestCid' = [manifestCid EXCEPT ![s] = cid]
    /\ pointer' = [pointer EXCEPT ![addressOf[s]] = cid]
    /\ crossed' = IF \E p \in puts : p.storage = s THEN crossed \union {s} ELSE crossed
    /\ UNCHANGED <<ipfs, reading, puts, started, content>>

History(s) ==
    IF Loaded(s)
    THEN {manifest[s].manifestHistory[i] : i \in 1..Len(manifest[s].manifestHistory)}
    ELSE {}

-----------------------------------------------------------------------------
(* Properties                                                              *)

\* All data is tracked by the manifest that the pointer names: what a save
\* makes it name instead has a content for each entry that had one.
EveryEntryIsTracked ==
    [][\A p \in puts :
           LET a   == addressOf[p.storage]
               old == pointer[a]
           IN  (saveManifest(p) /\ old # 0) =>
                   \A e \in Entry :
                       ipfs[old].entries[e] # 0 => ipfs'[pointer'[a]].entries[e] # 0]_storageVars

\* A put loses or sets back no entry, its own included, as long as the
\* pointer is where its object had left or found it when the manifest was
\* serialized: overlapping puts, another object's save, a failed load and a
\* restore in the middle of a put are the only ways to lose one.
NoSaveGoesBack ==
    [][\A p \in puts :
           LET a   == addressOf[p.storage]
               old == pointer[a]
               new == pointer'[a]
           IN  (saveManifest(p) /\ p.base = old /\ p.storage \notin crossed) =>
                   /\ old # 0 => \A e \in Entry : ipfs'[new].entries[e] >= ipfs[old].entries[e]
                   /\ ipfs'[new].entries[p.entry] > 0
                   /\ old # 0 =>
                          ipfs'[new].entries[p.entry] > ipfs[old].entries[p.entry]]_storageVars

\* What getManifestHistory offers for recovery are manifests that exist, each
\* once, oldest first, all older than the current one, and no more than
\* MaxHistory of them, whatever puts overlapped and was restored.
HistoryIsRecoverable ==
    \A s \in Storage : Loaded(s) =>
        LET history == manifest[s].manifestHistory
        IN  /\ Len(history) <= MaxHistory
            /\ InOrder(history)
            /\ \A cid \in History(s) : cid < manifestCid[s]
=============================================================================
