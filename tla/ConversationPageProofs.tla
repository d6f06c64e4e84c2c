----------------------- MODULE ConversationPageProofs -----------------------
(***************************************************************************)
(* For any accounts, objects, entries, lists and bounds: what a save of    *)
(* the encrypted storage may do to what the pointer names, which manifests *)
(* are kept for recovery, and what becomes of the lists of the page that   *)
(* uses it.                                                                *)
(*                                                                         *)
(* Contents are numbered as they come, so that an entry's number tells how *)
(* new it is.  The invariant orders three manifests by their entries: the  *)
(* one an object was loaded from or last saved, the snapshot of a put, and *)
(* the object's own one.  A restore in the middle of a put breaks this     *)
(* order for its object until the page is loaded again (crossed).          *)
(***************************************************************************)
EXTENDS ConversationPage, FiniteSetTheorems, TLAPS

-----------------------------------------------------------------------------
(* The invariant of the storage                                            *)

\* The puts that are uploading their content, or their manifest.
Waiting == {p \in puts : p \in Adding}
Uploading == {p \in puts : p \in Saving}

\* Puts are of objects that are loaded, and an object that loads holds nothing.
LoadInv ==
    /\ \A p \in puts : Loaded(p.storage)
    /\ \A s \in Storage : ~Loaded(s) => manifestCid[s] = 0
    /\ \A s \in Storage : reading[s] # 0 => ~Loaded(s)

\* The manifests of objects, of pointers and of what is being read are of the
\* account.
AccountInv ==
    /\ \A s \in Storage : Loaded(s) => manifest[s].address = addressOf[s]
    /\ \A s \in Storage : reading[s] # 0 => ipfs[reading[s]].address = addressOf[s]
    /\ \A a \in Account : pointer[a] # 0 => ipfs[pointer[a]].address = a
    /\ \A p \in Uploading : p.snapshot.address = addressOf[p.storage]

\* Every put that was started adds to the content at most once.
CountInv ==
    /\ IsFiniteSet(puts)
    /\ Len(content) + Cardinality(Waiting) <= started

\* A history as it may be in the manifest n, or one that is saved next.
HistoryOK(h, n) ==
    /\ Len(h) <= MaxHistory
    /\ InOrder(h)
    /\ \A i \in 1..Len(h) : 0 < h[i] /\ h[i] < n

HistoryInv ==
    /\ \A c \in 1..Len(ipfs) : HistoryOK(ipfs[c].manifestHistory, c)
    /\ \A s \in Storage : Loaded(s) => HistoryOK(manifest[s].manifestHistory, manifestCid[s])
    /\ \A p \in Uploading : HistoryOK(p.snapshot.manifestHistory, Len(ipfs) + 1)

\* No manifest names content that did not come yet; a snapshot has its own.
ContentInv ==
    /\ \A c \in 1..Len(ipfs) : \A e \in Entry : ipfs[c].entries[e] <= Len(content)
    /\ \A s \in Storage : Loaded(s) => \A e \in Entry : manifest[s].entries[e] <= Len(content)
    /\ \A p \in Uploading :
           /\ \A e \in Entry : p.snapshot.entries[e] <= Len(content)
           /\ p.snapshot.entries[p.entry] > 0
           /\ content[p.snapshot.entries[p.entry]] = p.data

\* Each entry of m is at least as new as that of n.
AsNew(m, n) == \A e \in Entry : m.entries[e] >= n.entries[e]

\* The order of what an object was loaded from, its puts and itself.
OrderInv ==
    /\ \A s \in Storage \ crossed :
           Loaded(s) /\ manifestCid[s] # 0 => AsNew(manifest[s], ipfs[manifestCid[s]])
    /\ \A p \in Uploading :
           /\ p.base <= Len(ipfs)
           /\ p.storage \notin crossed => AsNew(manifest[p.storage], p.snapshot)
           /\ p.storage \notin crossed /\ p.base # 0 =>
                  /\ AsNew(p.snapshot, ipfs[p.base])
                  /\ p.snapshot.entries[p.entry] > ipfs[p.base].entries[p.entry]

-----------------------------------------------------------------------------
(* The invariant of the page                                               *)

PageTypes ==
    /\ address \in Account \union {NoAccount}
    /\ made \subseteq Storage
    /\ latest \in PageStorage \union {NoStorage}
    /\ storage \in PageStorage \union {NoStorage}
    /\ lists \in [Kind -> SUBSET (1..changes)]
    /\ dataLoaded \in BOOLEAN
    /\ lastSaved \in [Kind -> SUBSET (1..changes)]
    /\ savedFor \in [Kind -> Account \union {NoAccount}]
    /\ timers \subseteq Kind
    /\ scanned \in BOOLEAN
    /\ changes \in 0..MaxChanges
    /\ dropped \subseteq Kind

\* The page has an object only after it has taken its lists for loaded.
MountInv ==
    /\ address # NoAccount => dataLoaded
    /\ ~dataLoaded => storage = NoStorage /\ made \intersect PageStorage = {}
    /\ \A s \in Storage : reading[s] # 0 => s \in made

\* The list l of kind k is on its way to a manifest of account a, or in one.
OnItsWay(ps, k, l, a) == \E p \in ps : p.entry = k /\ p.data = l /\ addressOf[p.storage] = a
InManifest(ms, c, k, l, a) ==
    \E i \in 1..Len(ms) :
        ms[i].address = a /\ ms[i].entries[k] # 0 /\ c[ms[i].entries[k]] = l

\* While there is an account, the text of each list is the one that was last
\* to be saved, for this account if it waits for its timer.
TextInv ==
    \A k \in Kind :
        /\ address # NoAccount => lists[k] = {} \/ lists[k] = lastSaved[k]
        /\ k \in timers => lists[k] = lastSaved[k] /\ savedFor[k] = address

\* Text that was to be saved, and was not lost, waits for its timer, is being
\* saved or was saved.
SaveInv ==
    \A k \in Kind \ dropped :
        \/ lastSaved[k] = {}
        \/ k \in timers
        \/ OnItsWay(puts, k, lastSaved[k], savedFor[k])
        \/ InManifest(ipfs, content, k, lastSaved[k], savedFor[k])

StorageInv == StorageTypeOK /\ LoadInv /\ AccountInv /\ CountInv /\ HistoryInv /\ ContentInv /\ OrderInv

PageInv == PageTypes /\ MountInv /\ TextInv /\ SaveInv

-----------------------------------------------------------------------------
(* Manifests, histories and puts                                           *)

LEMMA EmptyFacts ==
    \A a \in Account :
        /\ Empty(a) \in Manifest /\ Empty(a).address = a
        /\ \A e \in Entry : Empty(a).entries[e] = 0
        /\ \A n \in Int : HistoryOK(Empty(a).manifestHistory, n)
<1>1. ASSUME NEW a \in Account
      PROVE  /\ Empty(a) \in Manifest /\ Empty(a).address = a /\ Empty(a).manifestHistory = <<>>
             /\ \A e \in Entry : Empty(a).entries[e] = 0
  BY DEF Empty, Manifest
<1>2. MaxHistory \in Nat
  BY StorageAssumption
<1>3. \A n \in Int : HistoryOK(<<>>, n)
  BY <1>2 DEF HistoryOK, InOrder
<1> QED
  BY <1>1, <1>3

\* A manifest after put has given e a new content.
LEMMA WithEntry ==
    ASSUME NEW m \in Manifest, NEW e \in Entry, NEW n \in Nat,
           NEW c, c = [m EXCEPT !.entries[e] = n]
    PROVE  /\ c \in Manifest
           /\ c.manifestHistory = m.manifestHistory /\ c.address = m.address
           /\ c.entries[e] = n
           /\ \A f \in Entry : f # e => c.entries[f] = m.entries[f]
BY DEF Manifest

\* A manifest after a save has changed its history.
LEMMA WithHistory ==
    ASSUME NEW m \in Manifest, NEW h \in Seq(Nat), NEW c, c = [m EXCEPT !.manifestHistory = h]
    PROVE  /\ c \in Manifest
           /\ c.manifestHistory = h /\ c.address = m.address
           /\ c.entries = m.entries
BY DEF Manifest

\* The last elements of a history in order are in order.
LEMMA Suffix ==
    ASSUME NEW g \in Seq(Nat), NEW new \in Nat, InOrder(g),
           \A i \in 1..Len(g) : 0 < g[i] /\ g[i] < new,
           NEW m \in 1..(Len(g) + 1), Len(g) - m + 1 <= MaxHistory
    PROVE  LET h == SubSeq(g, m, Len(g)) IN h \in Seq(Nat) /\ HistoryOK(h, new)
<1> DEFINE h == SubSeq(g, m, Len(g))
<1>1. h \in Seq(Nat) /\ Len(h) = Len(g) - m + 1 /\ \A i \in 1..Len(h) : h[i] = g[m + i - 1]
  OBVIOUS
<1> HIDE DEF h
<1>2. Len(g) \in Nat /\ m \in Nat /\ Len(h) \in Nat
  BY <1>1
<1>3. \A i \in 1..Len(h) : m + i - 1 \in 1..Len(g)
  BY <1>1, <1>2
<1>4. InOrder(h)
  <2> SUFFICES ASSUME NEW j \in 1..Len(h), NEW i \in 1..(j - 1) PROVE h[i] < h[j]
    BY DEF InOrder
  <2>1. i \in 1..Len(h) /\ m + i - 1 \in 1..((m + j - 1) - 1)
    BY <1>2
  <2>2. g[m + i - 1] < g[m + j - 1]
    BY <1>3, <2>1 DEF InOrder
  <2> QED
    BY <1>1, <2>1, <2>2
<1>5. \A i \in 1..Len(h) : 0 < h[i] /\ h[i] < new
  BY <1>1, <1>3
<1>6. h \in Seq(Nat) /\ HistoryOK(h, new)
  BY <1>1, <1>4, <1>5 DEF HistoryOK
<1> QED
  BY <1>6 DEF h

\* The history after a save: the manifest saved before is its last.
LEMMA PushedFacts ==
    ASSUME NEW h \in Seq(Nat), NEW old \in Nat, HistoryOK(h, old), NEW new \in Nat, old < new
    PROVE  Pushed(h, old) \in Seq(Nat) /\ HistoryOK(Pushed(h, old), new)
<1> DEFINE g == IF old = 0 THEN h ELSE Append(h, old)
           m == IF Len(g) > MaxHistory THEN Len(g) - MaxHistory + 1 ELSE 1
<1>0. MaxHistory \in Nat \ {0}
  BY StorageAssumption
<1>1. g \in Seq(Nat) /\ InOrder(g) /\ \A i \in 1..Len(g) : 0 < g[i] /\ g[i] < new
  <2>1. CASE old = 0
    BY <2>1 DEF HistoryOK
  <2>2. CASE old # 0
    <3>1. /\ g \in Seq(Nat) /\ Len(g) = Len(h) + 1 /\ Len(h) \in Nat /\ g[Len(h) + 1] = old
          /\ \A i \in 1..Len(h) : g[i] = h[i]
      BY <2>2
    <3> HIDE DEF g
    <3>2. InOrder(h) /\ \A i \in 1..Len(h) : 0 < h[i] /\ h[i] < old /\ h[i] \in Nat
      BY DEF HistoryOK
    <3>3. \A i \in 1..Len(g) : 0 < g[i] /\ g[i] < new
      <4> SUFFICES ASSUME NEW i \in 1..Len(g) PROVE 0 < g[i] /\ g[i] < new
        OBVIOUS
      <4>1. i \in 1..Len(h) \/ i = Len(h) + 1
        BY <3>1
      <4> QED
        BY <2>2, <3>1, <3>2, <4>1
    <3>4. InOrder(g)
      <4> SUFFICES ASSUME NEW j \in 1..Len(g), NEW i \in 1..(j - 1) PROVE g[i] < g[j]
        BY DEF InOrder
      <4>1. i \in 1..Len(h) /\ (j \in 1..Len(h) \/ j = Len(h) + 1)
        BY <3>1
      <4> QED
        BY <3>1, <3>2, <4>1 DEF InOrder
    <3> QED
      BY <3>1, <3>3, <3>4
  <2> QED
    BY <2>1, <2>2
<1> HIDE DEF g
<1>2. Len(g) \in Nat
  BY <1>1
<1>3. m \in 1..(Len(g) + 1) /\ Len(g) - m + 1 <= MaxHistory
  BY <1>0, <1>2
<1> HIDE DEF m
<1>4. Pushed(h, old) = SubSeq(g, m, Len(g))
  BY DEF Pushed, g, m
<1> QED
  BY <1>1, <1>3, <1>4, Suffix

\* A put that uploads its content is not one that uploads its manifest.
LEMMA PutKinds ==
    /\ Adding \intersect Saving = {}
    /\ \A p \in Adding : p.storage \in Storage /\ p.entry \in Entry /\ p.id \in Nat /\ p.data \in Data
    /\ \A p \in Saving : /\ p.storage \in Storage /\ p.entry \in Entry /\ p.data \in Data
                         /\ p.base \in Nat /\ p.snapshot \in Manifest
<1>1. ASSUME NEW p \in Adding PROVE p \notin Saving
  <2>1. DOMAIN p = {"storage", "entry", "id", "data"}
    BY DEF Adding
  <2>2. p \in Saving => "base" \in DOMAIN p
    BY DEF Saving
  <2> QED
    BY <2>1, <2>2
<1>2. \A p \in Adding : p.storage \in Storage /\ p.entry \in Entry /\ p.id \in Nat /\ p.data \in Data
  BY DEF Adding
<1>3. \A p \in Saving : /\ p.storage \in Storage /\ p.entry \in Entry /\ p.data \in Data
                        /\ p.base \in Nat /\ p.snapshot \in Manifest
  BY DEF Saving
<1> QED
  BY <1>1, <1>2, <1>3

-----------------------------------------------------------------------------
(* Steps of the storage                                                    *)

\* What is known of puts and objects from their types.
LEMMA StorageFacts ==
    ASSUME StorageTypeOK, LoadInv
    PROVE  /\ Len(ipfs) \in Nat /\ Len(content) \in Nat
           /\ \A c \in 1..Len(ipfs) : ipfs[c] \in Manifest
           /\ \A s \in Storage : /\ manifestCid[s] \in 0..Len(ipfs) /\ reading[s] \in 0..Len(ipfs)
                                 /\ addressOf[s] \in Account
                                 /\ Loaded(s) => manifest[s] \in Manifest
           /\ \A p \in puts : p.storage \in Storage /\ p.entry \in Entry /\ manifest[p.storage] \in Manifest
           /\ \A p \in Uploading : p \in Saving /\ p.base \in Nat /\ p.snapshot \in Manifest
           /\ \A m \in Manifest : /\ \A e \in Entry : m.entries[e] \in Nat
                                  /\ m.manifestHistory \in Seq(Nat)
                                  /\ m # NotLoaded
<1>1. /\ \A c \in 1..Len(ipfs) : ipfs[c] \in Manifest
      /\ Len(ipfs) \in Nat /\ Len(content) \in Nat
  BY DEF StorageTypeOK
<1>2. \A s \in Storage : /\ manifestCid[s] \in 0..Len(ipfs) /\ reading[s] \in 0..Len(ipfs)
                         /\ addressOf[s] \in Account
                         /\ Loaded(s) => manifest[s] \in Manifest
  BY StorageAssumption DEF StorageTypeOK, Loaded
<1>3. \A p \in puts : p.storage \in Storage /\ p.entry \in Entry
  BY PutKinds DEF StorageTypeOK
<1>4. \A p \in puts : manifest[p.storage] \in Manifest
  BY <1>2, <1>3 DEF LoadInv
<1>5. \A p \in Uploading : p \in Saving /\ p.base \in Nat /\ p.snapshot \in Manifest
  BY PutKinds DEF Uploading
<1>6. \A m \in Manifest : /\ \A e \in Entry : m.entries[e] \in Nat
                          /\ m.manifestHistory \in Seq(Nat)
                          /\ m # NotLoaded
  BY StorageAssumption DEF Manifest
<1> QED
  BY <1>1, <1>2, <1>3, <1>4, <1>5, <1>6

\* An object is given a manifest, and a CID that goes with it: that of an
\* upload, or none and an empty manifest.  If it has a put, it is crossed.
LEMMA TakesManifest ==
    ASSUME StorageInv, NEW s \in Storage, NEW m \in Manifest, NEW cid \in 0..Len(ipfs),
           cid # 0 => m = ipfs[cid],
           cid = 0 => m = Empty(addressOf[s]),
           m.address = addressOf[s],
           crossed' = IF \E p \in puts : p.storage = s THEN crossed \union {s} ELSE crossed,
           pointer' = pointer \/ (cid # 0 /\ pointer' = [pointer EXCEPT ![addressOf[s]] = cid]),
           manifest' = [manifest EXCEPT ![s] = m],
           manifestCid' = [manifestCid EXCEPT ![s] = cid],
           reading' = [reading EXCEPT ![s] = 0],
           UNCHANGED <<ipfs, puts, started, content>>
    PROVE  StorageInv'
<1> USE DEF StorageInv
<1>1. Waiting' = Waiting /\ Uploading' = Uploading
  BY DEF Waiting, Uploading
<1>2. /\ manifest'[s] = m /\ \A x \in Storage : x # s => manifest'[x] = manifest[x]
      /\ manifestCid'[s] = cid /\ \A x \in Storage : x # s => manifestCid'[x] = manifestCid[x]
      /\ reading'[s] = 0 /\ \A x \in Storage : x # s => reading'[x] = reading[x]
  BY DEF StorageTypeOK
<1>3. m # NotLoaded
  BY StorageFacts
<1>4. StorageTypeOK'
  <2>1. pointer' \in [Account -> 0..Len(ipfs)]
    BY DEF StorageTypeOK
  <2> QED
    BY <2>1, StorageFacts DEF StorageTypeOK
<1>5. LoadInv'
  BY <1>2, <1>3, StorageFacts DEF LoadInv, Loaded
<1>a. AccountInv'
  <2>1. \A a \in Account : pointer'[a] # 0 => ipfs'[pointer'[a]].address = a
    <3>1. CASE pointer' = pointer
      BY <3>1 DEF AccountInv
    <3>2. CASE cid # 0 /\ pointer' = [pointer EXCEPT ![addressOf[s]] = cid]
      BY <3>2, StorageFacts DEF AccountInv, StorageTypeOK
    <3> QED
      BY <3>1, <3>2
  <2> QED
    BY <1>1, <1>2, <2>1 DEF AccountInv, Loaded
<1>6. CountInv'
  BY <1>1 DEF CountInv
<1>7. HistoryInv'
  <2>1. HistoryOK(m.manifestHistory, cid)
    <3>1. CASE cid = 0
      <4>1. m = Empty(addressOf[s]) /\ addressOf[s] \in Account
        BY <3>1, StorageAssumption
      <4> QED
        BY ONLY <3>1, <4>1, EmptyFacts
    <3>2. CASE cid # 0
      <4>1. cid \in 1..Len(ipfs)
        BY <3>2, StorageFacts
      <4> QED
        BY <3>2, <4>1 DEF HistoryInv
    <3> QED
      BY <3>1, <3>2
  <2> QED
    BY <1>1, <1>2, <2>1 DEF HistoryInv, Loaded
<1>8. ContentInv'
  <2>1. \A e \in Entry : m.entries[e] <= Len(content)
    <3>1. CASE cid = 0
      <4>1. m = Empty(addressOf[s]) /\ addressOf[s] \in Account
        BY <3>1, StorageAssumption
      <4> QED
        BY ONLY <3>1, <4>1, EmptyFacts
    <3>2. CASE cid # 0
      <4>1. cid \in 1..Len(ipfs)
        BY <3>2, StorageFacts
      <4> QED
        BY <3>2, <4>1 DEF ContentInv
    <3> QED
      BY <3>1, <3>2
  <2> QED
    BY <1>1, <1>2, <2>1 DEF ContentInv, Loaded
<1>9. OrderInv'
  <2>1. cid # 0 => AsNew(m, ipfs[cid])
    BY StorageFacts DEF AsNew
  <2>2. /\ \A p \in Uploading : p.storage \notin crossed' => p.storage # s /\ p.storage \in Storage
        /\ crossed \subseteq crossed'
    BY StorageFacts DEF Uploading
  <2>3. ASSUME NEW x \in Storage \ crossed', Loaded(x)', manifestCid'[x] # 0
        PROVE  AsNew(manifest'[x], ipfs'[manifestCid'[x]])
    <3>1. CASE x = s
      BY <1>2, <2>1, <2>3, <3>1
    <3>2. CASE x # s
      BY <1>2, <2>2, <2>3, <3>2 DEF OrderInv, Loaded
    <3> QED
      BY <3>1, <3>2
  <2>4. ASSUME NEW p \in Uploading
        PROVE  /\ p.base <= Len(ipfs)
               /\ p.storage \notin crossed' => AsNew(manifest'[p.storage], p.snapshot)
               /\ p.storage \notin crossed' /\ p.base # 0 =>
                      /\ AsNew(p.snapshot, ipfs[p.base])
                      /\ p.snapshot.entries[p.entry] > ipfs[p.base].entries[p.entry]
    BY <1>2, <2>2 DEF OrderInv
  <2> QED
    BY <1>1, <2>3, <2>4 DEF OrderInv, AsNew
<1> QED
  BY <1>4, <1>5, <1>a, <1>6, <1>7, <1>8, <1>9

LEMMA InitializeStep ==
    ASSUME StorageInv, NEW s \in Storage, initialize(s)
    PROVE  StorageInv'
<1> USE DEF StorageInv
<1>1. CASE pointer[addressOf[s]] # 0
  <2>1. /\ reading' = [reading EXCEPT ![s] = pointer[addressOf[s]]]
        /\ UNCHANGED <<manifest, ipfs, pointer, manifestCid, puts, started, content, crossed>>
        /\ ~Loaded(s)
    BY <1>1 DEF initialize
  <2>2. pointer[addressOf[s]] \in 0..Len(ipfs)
    BY StorageFacts DEF StorageTypeOK
  <2>3. StorageTypeOK' /\ LoadInv'
    BY <2>1, <2>2 DEF StorageTypeOK, LoadInv, Loaded
  <2>4. Waiting' = Waiting /\ Uploading' = Uploading
    BY <2>1 DEF Waiting, Uploading
  <2>5. AccountInv'
    BY <1>1, <2>1, <2>4, StorageFacts DEF AccountInv, StorageTypeOK, Loaded
  <2> QED
    BY <2>1, <2>3, <2>4, <2>5 DEF CountInv, HistoryInv, ContentInv, OrderInv, AsNew, Loaded
<1>2. CASE pointer[addressOf[s]] = 0
  <2>1. /\ manifest' = [manifest EXCEPT ![s] = Empty(addressOf[s])] /\ reading[s] = 0 /\ ~Loaded(s)
        /\ UNCHANGED <<reading, ipfs, pointer, manifestCid, puts, started, content, crossed>>
    BY <1>2 DEF initialize
  <2>2. manifestCid[s] = 0 /\ \A p \in puts : p.storage # s
    BY <2>1 DEF LoadInv
  <2>3. /\ manifestCid' = [manifestCid EXCEPT ![s] = 0]
        /\ reading' = [reading EXCEPT ![s] = 0]
        /\ 0 \in 0..Len(ipfs) /\ addressOf[s] \in Account
    BY <2>1, <2>2, StorageFacts DEF StorageTypeOK
  <2>4. crossed' = IF \E p \in puts : p.storage = s THEN crossed \union {s} ELSE crossed
    BY <2>1, <2>2
  <2> QED
    BY <2>1, <2>3, <2>4, TakesManifest, EmptyFacts
<1> QED
  BY <1>1, <1>2

LEMMA LoadStep ==
    ASSUME StorageInv, NEW s \in Storage, Load(s)
    PROVE  StorageInv'
<1> USE DEF StorageInv
<1>1. /\ reading' = [reading EXCEPT ![s] = 0] /\ reading[s] # 0
      /\ UNCHANGED <<ipfs, pointer, puts, started, content, crossed>>
  BY DEF Load
<1>2. ~Loaded(s) /\ manifestCid[s] = 0 /\ \A p \in puts : p.storage # s
  BY <1>1 DEF LoadInv
<1>3. crossed' = IF \E p \in puts : p.storage = s THEN crossed \union {s} ELSE crossed
  BY <1>1, <1>2
<1>4. /\ 0 \in 0..Len(ipfs) /\ addressOf[s] \in Account
      /\ reading[s] \in 0..Len(ipfs) /\ ipfs[reading[s]] \in Manifest
      /\ ipfs[reading[s]].address = addressOf[s]
  BY <1>1, StorageFacts DEF AccountInv
<1>5. CASE /\ manifest' = [manifest EXCEPT ![s] = ipfs[reading[s]]]
           /\ manifestCid' = [manifestCid EXCEPT ![s] = reading[s]]
  BY <1>1, <1>3, <1>4, <1>5, TakesManifest
<1>6. CASE /\ manifest' = [manifest EXCEPT ![s] = Empty(addressOf[s])]
           /\ UNCHANGED manifestCid
  <2>1. manifestCid' = [manifestCid EXCEPT ![s] = 0]
    BY <1>2, <1>6 DEF StorageTypeOK
  <2> QED
    BY <1>1, <1>3, <1>4, <1>6, <2>1, TakesManifest, EmptyFacts
<1> QED
  BY <1>5, <1>6 DEF Load

LEMMA RestoreStep ==
    ASSUME StorageInv, NEW s \in Storage, NEW cid \in History(s), restoreFromManifest(s, cid)
    PROVE  StorageInv'
<1> USE DEF StorageInv
<1>1. /\ Loaded(s) /\ ipfs[cid].address = addressOf[s]
      /\ manifest' = [manifest EXCEPT ![s] = ipfs[cid]]
      /\ manifestCid' = [manifestCid EXCEPT ![s] = cid]
      /\ pointer' = [pointer EXCEPT ![addressOf[s]] = cid]
      /\ crossed' = IF \E p \in puts : p.storage = s THEN crossed \union {s} ELSE crossed
      /\ UNCHANGED <<ipfs, reading, puts, started, content>>
  BY DEF restoreFromManifest
<1>2. cid \in 1..Len(ipfs)
  <2>1. PICK i \in 1..Len(manifest[s].manifestHistory) : cid = manifest[s].manifestHistory[i]
    BY <1>1 DEF History
  <2>2. manifest[s].manifestHistory \in Seq(Nat) /\ manifestCid[s] \in 0..Len(ipfs) /\ Len(ipfs) \in Nat
    BY <1>1, StorageFacts
  <2>3. cid \in Nat /\ 0 < cid /\ cid < manifestCid[s]
    BY <1>1, <2>1, <2>2 DEF HistoryInv, HistoryOK
  <2> QED
    BY <2>2, <2>3
<1>3. ipfs[cid] \in Manifest /\ cid \in 0..Len(ipfs) /\ cid # 0
  BY <1>2, StorageFacts
<1>4. reading' = [reading EXCEPT ![s] = 0]
  BY <1>1 DEF StorageTypeOK, LoadInv
<1> QED
  BY <1>1, <1>3, <1>4, TakesManifest

LEMMA ReloadStep ==
    ASSUME StorageInv, Reload
    PROVE  StorageInv'
<1> USE DEF StorageInv
<1>1. /\ \A s \in Storage : manifest'[s] = NotLoaded /\ manifestCid'[s] = 0 /\ reading'[s] = 0
      /\ puts' = {} /\ crossed' = {}
      /\ UNCHANGED <<ipfs, pointer, started, content>>
  BY DEF Reload
<1>2. Waiting' = {} /\ Uploading' = {}
  BY <1>1 DEF Waiting, Uploading
<1>3. StorageTypeOK'
  BY StorageFacts DEF Reload, StorageTypeOK
<1>4. LoadInv'
  BY <1>1 DEF LoadInv, Loaded
<1>5. CountInv'
  <2>1. Cardinality(Waiting) \in Nat
    BY FS_Subset, FS_CardinalityType DEF CountInv, Waiting
  <2>2. IsFiniteSet({}) /\ Cardinality({}) = 0
    BY FS_EmptySet
  <2> QED
    BY <1>1, <1>2, <2>1, <2>2, StorageFacts DEF CountInv, StorageTypeOK
<1>6. HistoryInv' /\ ContentInv' /\ AccountInv'
  BY <1>1, <1>2 DEF HistoryInv, ContentInv, AccountInv, Loaded
<1>7. OrderInv'
  BY <1>1, <1>2 DEF OrderInv, Loaded
<1> QED
  BY <1>3, <1>4, <1>5, <1>6, <1>7

LEMMA PutFailsStep ==
    ASSUME StorageInv, NEW p \in puts, PutFails(p)
    PROVE  StorageInv'
<1> USE DEF StorageInv
<1>1. /\ puts' = puts \ {p}
      /\ UNCHANGED <<ipfs, pointer, manifest, manifestCid, reading, started, content, crossed>>
  BY DEF PutFails
<1>2. Waiting' \subseteq Waiting /\ Uploading' \subseteq Uploading
  BY <1>1 DEF Waiting, Uploading
<1>3. StorageTypeOK' /\ LoadInv'
  BY <1>1 DEF StorageTypeOK, LoadInv, Loaded
<1>4. CountInv'
  <2>1. IsFiniteSet(Waiting) /\ IsFiniteSet(puts')
    BY <1>1, FS_Subset DEF CountInv, Waiting
  <2>2. Cardinality(Waiting') <= Cardinality(Waiting) /\ Cardinality(Waiting) \in Nat /\ Cardinality(Waiting') \in Nat
    BY <1>2, <2>1, FS_Subset, FS_CardinalityType
  <2> QED
    BY <1>1, <2>1, <2>2, StorageFacts DEF CountInv, StorageTypeOK
<1>5. HistoryInv' /\ ContentInv' /\ AccountInv'
  BY <1>1, <1>2 DEF HistoryInv, ContentInv, AccountInv, Loaded
<1>6. OrderInv'
  BY <1>1, <1>2 DEF OrderInv, Loaded, AsNew
<1> QED
  BY <1>3, <1>4, <1>5, <1>6

LEMMA PutStep ==
    ASSUME StorageInv, NEW s \in Storage, NEW e \in Entry, NEW data \in Data, put(s, e, data)
    PROVE  StorageInv'
<1> USE DEF StorageInv
<1> DEFINE n == [storage |-> s, entry |-> e, id |-> started + 1, data |-> data]
<1>1. /\ Loaded(s) /\ started < MaxPuts /\ started' = started + 1
      /\ puts' = puts \union {n}
      /\ UNCHANGED <<ipfs, pointer, manifest, manifestCid, reading, content, crossed>>
  BY DEF put
<1>2. started \in Nat /\ started' \in 0..MaxPuts
  BY <1>1, StorageAssumption DEF StorageTypeOK
<1>3. n \in Adding /\ n.storage = s
  BY <1>2 DEF Adding
<1> HIDE DEF n
<1>4. Waiting' = Waiting \union {n} /\ Uploading' = Uploading
  BY <1>1, <1>3, PutKinds DEF Waiting, Uploading
<1>5. StorageTypeOK' /\ LoadInv'
  BY <1>1, <1>2, <1>3 DEF StorageTypeOK, LoadInv, Loaded
<1>6. CountInv'
  <2>1. IsFiniteSet(Waiting) /\ IsFiniteSet(puts')
    BY <1>1, FS_Subset, FS_AddElement DEF CountInv, Waiting
  <2>2. Cardinality(Waiting') <= Cardinality(Waiting) + 1 /\ Cardinality(Waiting) \in Nat
        /\ Cardinality(Waiting') \in Nat
    <3>1. Cardinality(Waiting \union {n}) \in {Cardinality(Waiting), Cardinality(Waiting) + 1}
      BY <2>1, FS_AddElement
    <3>2. Cardinality(Waiting) \in Nat
      BY <2>1, FS_CardinalityType
    <3> QED
      BY <1>4, <3>1, <3>2
  <2> QED
    BY <1>1, <1>2, <2>1, <2>2, StorageFacts DEF CountInv
<1>7. HistoryInv' /\ ContentInv' /\ AccountInv'
  BY <1>1, <1>4 DEF HistoryInv, ContentInv, AccountInv, Loaded
<1>8. OrderInv'
  BY <1>1, <1>4 DEF OrderInv, Loaded, AsNew
<1> QED
  BY <1>5, <1>6, <1>7, <1>8

\* A put has got its number: its object's manifest is as it was but for one
\* entry, which is newer than everything, and the snapshot is that manifest.
LEMMA RecordStep ==
    ASSUME StorageInv, NEW p \in puts, Record(p)
    PROVE  StorageInv'
<1> USE DEF StorageInv
<1> DEFINE s == p.storage
           n == Len(content) + 1
           c == [manifest[s] EXCEPT !.entries[p.entry] = n]
           q == [storage |-> s, entry |-> p.entry, id |-> p.id, data |-> p.data,
                 base |-> manifestCid[s], snapshot |-> c]
<1>1. /\ p \in Adding
      /\ manifest' = [manifest EXCEPT ![s] = c]
      /\ puts' = (puts \ {p}) \union {q}
      /\ content' = Append(content, p.data)
      /\ UNCHANGED <<ipfs, pointer, manifestCid, reading, started, crossed>>
  BY DEF Record
<1>2. /\ s \in Storage /\ p.entry \in Entry /\ p.id \in Nat /\ p.data \in Data
      /\ manifest[s] \in Manifest /\ n \in Nat /\ Loaded(s)
      /\ manifestCid[s] \in 0..Len(ipfs) /\ Len(ipfs) \in Nat /\ Len(content) \in Nat
  BY <1>1, PutKinds, StorageFacts DEF LoadInv
<1>c. c = [manifest[s] EXCEPT !.entries[p.entry] = n]
  OBVIOUS
<1> HIDE DEF c
<1>3. /\ c \in Manifest /\ c.manifestHistory = manifest[s].manifestHistory
      /\ c.entries[p.entry] = n /\ c.address = manifest[s].address
      /\ \A f \in Entry : f # p.entry => c.entries[f] = manifest[s].entries[f]
  BY <1>c, <1>2, WithEntry
<1>4. /\ q \in Saving /\ q.storage = s /\ q.entry = p.entry /\ q.data = p.data
      /\ q.base = manifestCid[s] /\ q.snapshot = c
  BY <1>2, <1>3 DEF Saving
<1> HIDE DEF q
<1>5. /\ content' \in Seq(Data) /\ Len(content') = n /\ content'[n] = p.data
      /\ \A i \in 1..Len(content) : content'[i] = content[i]
  BY <1>1, <1>2 DEF StorageTypeOK
<1>6. Waiting' = Waiting \ {p} /\ p \in Waiting /\ Uploading' = Uploading \union {q}
  BY <1>1, <1>4, PutKinds DEF Waiting, Uploading
<1>7. /\ manifest'[s] = c /\ \A x \in Storage : x # s => manifest'[x] = manifest[x]
      /\ \A x \in Storage : Loaded(x)' <=> Loaded(x)
  BY <1>1, <1>2, <1>3, StorageFacts DEF StorageTypeOK, Loaded
<1>8. c.entries[p.entry] > Len(content) /\ AsNew(c, manifest[s])
      /\ \A e \in Entry : c.entries[e] \in Nat /\ c.entries[e] <= n
  <2>1. \A e \in Entry : manifest[s].entries[e] <= Len(content) /\ manifest[s].entries[e] \in Nat
    BY <1>2, StorageFacts DEF ContentInv
  <2> QED
    BY <1>2, <1>3, <2>1 DEF AsNew
<1>9. CountInv' /\ Len(content') <= started
  <2>1. IsFiniteSet(Waiting) /\ IsFiniteSet(puts')
    <3>1. IsFiniteSet(puts \ {p})
      BY FS_RemoveElement DEF CountInv
    <3> QED
      BY <1>1, <3>1, FS_Subset, FS_AddElement DEF CountInv, Waiting
  <2>2. Cardinality(Waiting') = Cardinality(Waiting) - 1 /\ Cardinality(Waiting) \in Nat
        /\ Cardinality(Waiting') \in Nat
    BY <1>6, <2>1, FS_RemoveElement, FS_CardinalityType
  <2>3. started \in Nat
    BY StorageAssumption DEF StorageTypeOK
  <2> QED
    BY <1>1, <1>2, <1>5, <2>1, <2>2, <2>3 DEF CountInv
<1>10. StorageTypeOK'
  <2>1. manifest' \in [Storage -> Manifest \union {NotLoaded}]
    BY <1>1, <1>3 DEF StorageTypeOK
  <2>2. puts' \subseteq Adding \union Saving
    BY <1>1, <1>4 DEF StorageTypeOK
  <2> QED
    BY <1>1, <1>5, <1>9, <2>1, <2>2 DEF StorageTypeOK
<1>11. LoadInv'
  BY <1>1, <1>2, <1>4, <1>7, StorageFacts DEF LoadInv
<1>12. HistoryInv'
  <2>1. HistoryOK(c.manifestHistory, manifestCid[s]) /\ HistoryOK(c.manifestHistory, Len(ipfs) + 1)
    <3>1. HistoryOK(c.manifestHistory, manifestCid[s]) /\ c.manifestHistory \in Seq(Nat)
      BY <1>2, <1>3, StorageFacts DEF HistoryInv
    <3> QED
      BY <1>2, <3>1 DEF HistoryOK
  <2> QED
    BY <1>1, <1>4, <1>6, <1>7, <2>1 DEF HistoryInv
<1>13. ContentInv'
  <2>1. ASSUME NEW i \in 1..Len(ipfs), NEW e \in Entry PROVE ipfs'[i].entries[e] <= Len(content')
    BY <1>1, <1>2, <1>5, StorageFacts DEF ContentInv
  <2>2. ASSUME NEW x \in Storage, Loaded(x)', NEW e \in Entry
        PROVE  manifest'[x].entries[e] <= Len(content')
    <3>1. CASE x = s
      BY <1>5, <1>7, <1>8, <3>1
    <3>2. CASE x # s
      BY <1>2, <1>5, <1>7, <2>2, <3>2, StorageFacts DEF ContentInv
    <3> QED
      BY <3>1, <3>2
  <2>3. ASSUME NEW r \in Uploading
        PROVE  /\ \A e \in Entry : r.snapshot.entries[e] <= Len(content')
               /\ r.snapshot.entries[r.entry] > 0
               /\ content'[r.snapshot.entries[r.entry]] = r.data
    <3>1. r.snapshot \in Manifest /\ r.entry \in Entry
      BY StorageFacts DEF Uploading
    <3>2. r.snapshot.entries[r.entry] \in 1..Len(content)
      BY <1>2, <3>1, StorageFacts DEF ContentInv
    <3> QED
      BY <1>2, <1>5, <3>1, <3>2, StorageFacts DEF ContentInv
  <2>4. /\ \A e \in Entry : q.snapshot.entries[e] <= Len(content')
        /\ q.snapshot.entries[q.entry] > 0
        /\ content'[q.snapshot.entries[q.entry]] = q.data
    BY <1>2, <1>3, <1>4, <1>5, <1>8
  <2> QED
    BY <1>1, <1>6, <2>1, <2>2, <2>3, <2>4 DEF ContentInv
<1>14. OrderInv'
  <2>0. \A m, o, r \in Manifest : AsNew(m, o) /\ AsNew(o, r) => AsNew(m, r)
    BY StorageFacts DEF AsNew
  <2>1. ASSUME NEW x \in Storage \ crossed, Loaded(x)', manifestCid[x] # 0
        PROVE  AsNew(manifest'[x], ipfs[manifestCid[x]])
    <3>1. AsNew(manifest[x], ipfs[manifestCid[x]]) /\ ipfs[manifestCid[x]] \in Manifest
      BY <1>7, <2>1, StorageFacts DEF OrderInv
    <3>2. CASE x = s
      BY <1>2, <1>3, <1>7, <1>8, <2>0, <3>1, <3>2
    <3> QED
      BY <1>7, <3>1, <3>2
  <2>2. ASSUME NEW r \in Uploading
        PROVE  /\ r.base <= Len(ipfs)
               /\ r.storage \notin crossed => AsNew(manifest'[r.storage], r.snapshot)
               /\ r.storage \notin crossed /\ r.base # 0 =>
                      /\ AsNew(r.snapshot, ipfs[r.base])
                      /\ r.snapshot.entries[r.entry] > ipfs[r.base].entries[r.entry]
    <3>1. r.snapshot \in Manifest /\ r.storage \in Storage
      BY StorageFacts DEF Uploading
    <3>2. r.storage \notin crossed => AsNew(manifest'[r.storage], r.snapshot)
      <4>1. CASE r.storage = s
        BY <1>2, <1>3, <1>7, <1>8, <2>0, <3>1, <4>1 DEF OrderInv
      <4> QED
        BY <1>7, <3>1, <4>1 DEF OrderInv
    <3> QED
      BY <3>2 DEF OrderInv
  <2>3. /\ q.base <= Len(ipfs)
        /\ q.storage \notin crossed => AsNew(manifest'[q.storage], q.snapshot)
        /\ q.storage \notin crossed /\ q.base # 0 =>
               /\ AsNew(q.snapshot, ipfs[q.base])
               /\ q.snapshot.entries[q.entry] > ipfs[q.base].entries[q.entry]
    <3>1. AsNew(c, c)
      BY <1>8 DEF AsNew
    <3>2. ASSUME s \notin crossed, manifestCid[s] # 0
          PROVE  AsNew(c, ipfs[manifestCid[s]]) /\ c.entries[p.entry] > ipfs[manifestCid[s]].entries[p.entry]
      <4>1. manifestCid[s] \in 1..Len(ipfs) /\ ipfs[manifestCid[s]] \in Manifest
        BY <1>2, <3>2, StorageFacts
      <4>2. AsNew(manifest[s], ipfs[manifestCid[s]])
        BY <1>2, <3>2 DEF OrderInv
      <4>3. ipfs[manifestCid[s]].entries[p.entry] <= Len(content) /\ ipfs[manifestCid[s]].entries[p.entry] \in Nat
        BY <1>2, <4>1, StorageFacts DEF ContentInv
      <4> QED
        BY <1>2, <1>3, <1>8, <2>0, <4>1, <4>2, <4>3
    <3> QED
      BY <1>2, <1>4, <1>7, <3>1, <3>2
  <2> QED
    BY <1>1, <1>6, <2>1, <2>2, <2>3 DEF OrderInv
<1>15. AccountInv'
  <2>1. c.address = addressOf[s]
    BY <1>2, <1>3 DEF AccountInv
  <2> QED
    BY <1>1, <1>4, <1>6, <1>7, <2>1 DEF AccountInv
<1> QED
  BY <1>9, <1>10, <1>11, <1>12, <1>13, <1>14, <1>15

\* A snapshot has become the newest manifest, which the pointer names.
LEMMA SaveStep ==
    ASSUME StorageInv, NEW p \in puts, saveManifest(p)
    PROVE  StorageInv'
<1> USE DEF StorageInv
<1> DEFINE s == p.storage
           n == Len(ipfs) + 1
           h == Pushed(manifest[s].manifestHistory, manifestCid[s])
           c == [manifest[s] EXCEPT !.manifestHistory = h]
<1>1. /\ p \in Saving /\ p \in Uploading
      /\ ipfs' = Append(ipfs, p.snapshot)
      /\ pointer' = [pointer EXCEPT ![manifest[s].address] = n]
      /\ manifestCid' = [manifestCid EXCEPT ![s] = n]
      /\ manifest' = [manifest EXCEPT ![s] = c]
      /\ puts' = puts \ {p}
      /\ UNCHANGED <<reading, started, content, crossed>>
  BY DEF saveManifest, Uploading
<1>c. c = [manifest[s] EXCEPT !.manifestHistory = h]
  OBVIOUS
<1> HIDE DEF c
<1>2. /\ s \in Storage /\ p.snapshot \in Manifest /\ manifest[s] \in Manifest /\ n \in Nat
      /\ Loaded(s) /\ Len(ipfs) \in Nat /\ Len(content) \in Nat /\ addressOf[s] \in Account
      /\ manifestCid[s] \in Nat /\ manifestCid[s] < n /\ manifest[s].manifestHistory \in Seq(Nat)
  BY <1>1, StorageFacts DEF LoadInv
<1>3. h \in Seq(Nat) /\ HistoryOK(h, n)
  BY <1>2, PushedFacts DEF HistoryInv
<1> HIDE DEF h
<1>4. /\ c \in Manifest /\ c.manifestHistory = h /\ c.entries = manifest[s].entries
      /\ c.address = manifest[s].address /\ manifest[s].address = addressOf[s]
  BY <1>c, <1>2, <1>3, WithHistory DEF AccountInv
<1>5. /\ ipfs' \in Seq(Manifest) /\ Len(ipfs') = n /\ ipfs'[n] = p.snapshot
      /\ \A i \in 1..Len(ipfs) : ipfs'[i] = ipfs[i]
  BY <1>1, <1>2 DEF StorageTypeOK
<1>6. Waiting' = Waiting /\ Uploading' = Uploading \ {p}
  BY <1>1, PutKinds DEF Waiting, Uploading
<1>7. /\ manifest'[s] = c /\ \A x \in Storage : x # s => manifest'[x] = manifest[x]
      /\ manifestCid'[s] = n /\ \A x \in Storage : x # s => manifestCid'[x] = manifestCid[x]
      /\ \A x \in Storage : Loaded(x)' <=> Loaded(x)
  BY <1>1, <1>2, <1>4, StorageFacts DEF StorageTypeOK, Loaded
<1>8. StorageTypeOK'
  <2>1. manifest' \in [Storage -> Manifest \union {NotLoaded}]
    BY <1>1, <1>4 DEF StorageTypeOK
  <2>2. n \in 0..n /\ 0..Len(ipfs) \subseteq 0..n
    BY <1>2
  <2>3. /\ pointer' \in [Account -> 0..n] /\ manifestCid' \in [Storage -> 0..n]
        /\ reading' \in [Storage -> 0..n]
    BY <1>1, <1>2, <1>4, <2>2 DEF StorageTypeOK
  <2> QED
    BY <1>1, <1>5, <2>1, <2>3 DEF StorageTypeOK
<1>9. LoadInv'
  BY <1>1, <1>2, <1>7, StorageFacts DEF LoadInv
<1>10. CountInv'
  <2>1. IsFiniteSet(puts')
    BY <1>1, FS_RemoveElement DEF CountInv
  <2> QED
    BY <1>1, <1>6, <2>1 DEF CountInv
<1>11. HistoryInv'
  <2>1. ASSUME NEW i \in 1..n PROVE HistoryOK(ipfs'[i].manifestHistory, i)
    <3>1. CASE i = n
      BY <1>1, <1>5, <3>1 DEF HistoryInv
    <3>2. CASE i \in 1..Len(ipfs)
      BY <1>5, <3>2 DEF HistoryInv
    <3> QED
      BY <1>2, <3>1, <3>2
  <2>2. ASSUME NEW x \in Storage, Loaded(x)'
        PROVE  HistoryOK(manifest'[x].manifestHistory, manifestCid'[x])
    BY <1>3, <1>4, <1>7, <2>2 DEF HistoryInv
  <2>3. ASSUME NEW r \in Uploading PROVE HistoryOK(r.snapshot.manifestHistory, n + 1)
    <3>1. HistoryOK(r.snapshot.manifestHistory, n) /\ r.snapshot.manifestHistory \in Seq(Nat)
      BY StorageFacts DEF HistoryInv
    <3> QED
      BY <1>2, <3>1 DEF HistoryOK
  <2> QED
    BY <1>5, <1>6, <2>1, <2>2, <2>3 DEF HistoryInv
<1>12. ContentInv'
  <2>1. ASSUME NEW i \in 1..n, NEW e \in Entry PROVE ipfs'[i].entries[e] <= Len(content)
    <3>1. CASE i = n
      BY <1>1, <1>5, <3>1 DEF ContentInv
    <3>2. CASE i \in 1..Len(ipfs)
      BY <1>5, <3>2 DEF ContentInv
    <3> QED
      BY <1>2, <3>1, <3>2
  <2>2. ASSUME NEW x \in Storage, Loaded(x)', NEW e \in Entry
        PROVE  manifest'[x].entries[e] <= Len(content)
    BY <1>2, <1>4, <1>7, <2>2 DEF ContentInv
  <2> QED
    BY <1>1, <1>5, <1>6, <2>1, <2>2 DEF ContentInv
<1>13. OrderInv'
  <2>1. ASSUME NEW x \in Storage \ crossed, Loaded(x)', manifestCid'[x] # 0
        PROVE  AsNew(manifest'[x], ipfs'[manifestCid'[x]])
    <3>1. CASE x = s
      BY <1>1, <1>4, <1>5, <1>7, <2>1, <3>1 DEF OrderInv, AsNew
    <3>2. CASE x # s
      <4>1. manifestCid[x] \in 1..Len(ipfs)
        BY <1>7, <2>1, <3>2, StorageFacts
      <4> QED
        BY <1>5, <1>7, <2>1, <3>2, <4>1 DEF OrderInv
    <3> QED
      BY <3>1, <3>2
  <2>2. ASSUME NEW r \in Uploading
        PROVE  /\ r.base <= n
               /\ r.storage \notin crossed => AsNew(manifest'[r.storage], r.snapshot)
               /\ r.storage \notin crossed /\ r.base # 0 =>
                      /\ AsNew(r.snapshot, ipfs'[r.base])
                      /\ r.snapshot.entries[r.entry] > ipfs'[r.base].entries[r.entry]
    <3>1. r.base \in Nat /\ r.base <= Len(ipfs) /\ r.storage \in Storage
      BY StorageFacts DEF OrderInv, Uploading
    <3>2. r.base # 0 => r.base \in 1..Len(ipfs)
      BY <1>2, <3>1
    <3>3. r.storage \notin crossed => AsNew(manifest'[r.storage], r.snapshot)
      BY <1>4, <1>7, <3>1 DEF OrderInv, AsNew
    <3> QED
      BY <1>2, <1>5, <3>1, <3>2, <3>3 DEF OrderInv
  <2> QED
    BY <1>1, <1>5, <1>6, <2>1, <2>2 DEF OrderInv
<1>14. AccountInv'
  <2>1. \A a \in Account : pointer'[a] # 0 => ipfs'[pointer'[a]].address = a
    <3> SUFFICES ASSUME NEW a \in Account, pointer'[a] # 0 PROVE ipfs'[pointer'[a]].address = a
      OBVIOUS
    <3>1. CASE a = addressOf[s]
      <4>1. pointer'[a] = n
        BY <1>1, <1>4, <3>1 DEF StorageTypeOK
      <4> QED
        BY <1>1, <1>5, <3>1, <4>1 DEF AccountInv
    <3>2. CASE a # addressOf[s]
      <4>1. pointer'[a] = pointer[a] /\ pointer[a] \in 0..Len(ipfs)
        BY <1>1, <1>4, <3>2 DEF StorageTypeOK
      <4>2. pointer[a] \in 1..Len(ipfs)
        BY <1>2, <4>1
      <4> QED
        BY <1>5, <4>1, <4>2 DEF AccountInv
    <3> QED
      BY <3>1, <3>2
  <2>2. ASSUME NEW x \in Storage, reading'[x] # 0 PROVE ipfs'[reading'[x]].address = addressOf[x]
    <3>1. reading[x] \in 1..Len(ipfs) /\ reading'[x] = reading[x]
      BY <1>1, <1>2, <2>2, StorageFacts
    <3> QED
      BY <1>5, <3>1 DEF AccountInv
  <2>3. ASSUME NEW x \in Storage, Loaded(x)' PROVE manifest'[x].address = addressOf[x]
    BY <1>4, <1>7, <2>3 DEF AccountInv
  <2> QED
    BY <1>6, <2>1, <2>2, <2>3 DEF AccountInv
<1> QED
  BY <1>8, <1>9, <1>10, <1>11, <1>12, <1>13, <1>14

-----------------------------------------------------------------------------
(* The storage as the page uses it                                         *)

StorageAction ==
    \/ \E s \in Storage : initialize(s) \/ Load(s)
    \/ \E s \in Storage, e \in Entry, data \in Data : put(s, e, data)
    \/ \E p \in puts : PutFails(p) \/ Record(p) \/ saveManifest(p)
    \/ \E s \in Storage : \E cid \in History(s) : restoreFromManifest(s, cid)
    \/ Reload

\* Whatever it does to the storage, the page only calls it.
LEMMA PageCalls == PageTypes /\ [Next]_vars => [StorageAction]_storageVars
<1> SUFFICES ASSUME PageTypes, [Next]_vars PROVE [StorageAction]_storageVars
  OBVIOUS
<1>1. /\ PageStorage \subseteq Storage /\ Kind \subseteq Entry /\ NoStorage \notin Storage
      /\ MaxChanges \in Nat /\ SUBSET (1..MaxChanges) \subseteq Data
  BY PageAssumption
<1>2. ASSUME NEW k \in Kind, SaveTimer(k) PROVE [StorageAction]_storageVars
  <2>1. CASE storage = NoStorage
    BY <1>2, <2>1 DEF SaveTimer
  <2>2. CASE storage # NoStorage
    <3>1. put(storage, k, lists[k])
      BY <1>2, <2>2 DEF SaveTimer
    <3>2. storage \in Storage /\ k \in Entry
      BY <1>1, <2>2 DEF PageTypes
    <3>3. lists[k] \in Data
      <4>1. lists[k] \subseteq 1..changes /\ changes \in 0..MaxChanges
        BY DEF PageTypes
      <4>2. lists[k] \subseteq 1..MaxChanges
        BY <1>1, <4>1
      <4> QED
        BY <1>1, <4>2
    <3> QED
      BY <3>1, <3>2, <3>3 DEF StorageAction
  <2> QED
    BY <2>1, <2>2
<1>3. ASSUME NEW s \in Storage, NEW e \in Entry, PutElsewhere(s, e) PROVE StorageAction
  <2>1. {} \in Data
    BY <1>1
  <2> QED
    BY <1>3, <2>1 DEF PutElsewhere, StorageAction
<1>4. ASSUME NEW a \in Account \union {NoAccount}, SetAddress(a) PROVE UNCHANGED storageVars
  BY <1>4 DEF SetAddress
<1>5. ASSUME NEW s \in Storage, MakeStorage(s) \/ Initialize(s) \/ LoadManifest(s)
      PROVE  [StorageAction]_storageVars
  BY <1>5 DEF MakeStorage, Initialize, LoadManifest, StorageAction
<1>6. CASE handleCreateChannel \/ handleSendMessage \/ handleScan
  BY <1>6 DEF handleCreateChannel, handleSendMessage, handleScan, Change
<1>7. CASE StorageStep \/ ReloadPage \/ \E p \in puts : SaveFails(p)
  BY <1>7 DEF StorageStep, ReloadPage, SaveFails, StorageAction
<1>8. CASE UNCHANGED vars
  BY <1>8 DEF vars
<1> QED
  BY <1>2, <1>3, <1>4, <1>5, <1>6, <1>7, <1>8 DEF Next

LEMMA StorageInvStep == StorageInv /\ [StorageAction]_storageVars => StorageInv'
<1> SUFFICES ASSUME StorageInv, [StorageAction]_storageVars PROVE StorageInv'
  OBVIOUS
<1>1. CASE UNCHANGED storageVars
  <2>1. Waiting' = Waiting /\ Uploading' = Uploading
    BY <1>1 DEF storageVars, Waiting, Uploading
  <2> QED
    BY <1>1, <2>1 DEF storageVars, StorageInv, StorageTypeOK, LoadInv, AccountInv, CountInv, HistoryInv,
       ContentInv, OrderInv, AsNew, Loaded
<1>2. CASE StorageAction
  BY <1>2, InitializeStep, LoadStep, PutStep, PutFailsStep, RecordStep, SaveStep, RestoreStep, ReloadStep
     DEF StorageAction
<1> QED
  BY <1>1, <1>2

-----------------------------------------------------------------------------
(* What becomes of a list                                                  *)

\* The step of a put brings what is on its way further, and keeps what has
\* arrived.
LEMMA PutMoves ==
    ASSUME StorageInv, NEW p \in puts, Record(p) \/ saveManifest(p), NEW k \in Entry, NEW l, NEW a,
           OnItsWay(puts, k, l, a) \/ InManifest(ipfs, content, k, l, a)
    PROVE  OnItsWay(puts', k, l, a) \/ InManifest(ipfs', content', k, l, a)
<1> USE DEF StorageInv
<1>0. Len(ipfs) \in Nat /\ Len(content) \in Nat
  BY StorageFacts
<1>1. CASE Record(p)
  <2>1. PICK q : /\ puts' = (puts \ {p}) \union {q}
               /\ q.entry = p.entry /\ q.data = p.data /\ q.storage = p.storage
    <3> DEFINE c == [manifest[p.storage] EXCEPT !.entries[p.entry] = Len(content) + 1]
               q == [storage |-> p.storage, entry |-> p.entry, id |-> p.id, data |-> p.data,
                     base |-> manifestCid[p.storage], snapshot |-> c]
    <3>1. puts' = (puts \ {p}) \union {q}
      BY <1>1 DEF Record
    <3> HIDE DEF c
    <3>2. q.entry = p.entry /\ q.data = p.data /\ q.storage = p.storage
      OBVIOUS
    <3> QED
      BY <3>1, <3>2
  <2>2. content' = Append(content, p.data) /\ ipfs' = ipfs /\ p.data \in Data
    BY <1>1, PutKinds DEF Record
  <2>3. \A i \in 1..Len(content) : content'[i] = content[i]
    BY <2>2 DEF StorageTypeOK
  <2>4. OnItsWay(puts, k, l, a) => OnItsWay(puts', k, l, a)
    BY <2>1 DEF OnItsWay
  <2>5. ASSUME NEW i \in 1..Len(ipfs), ipfs[i].entries[k] # 0, content[ipfs[i].entries[k]] = l
        PROVE  content'[ipfs[i].entries[k]] = l
    <3>1. ipfs[i].entries[k] \in Nat /\ ipfs[i].entries[k] <= Len(content)
      BY StorageFacts DEF ContentInv
    <3> QED
      BY <1>0, <2>3, <2>5, <3>1
  <2> QED
    BY <2>2, <2>4, <2>5 DEF InManifest
<1>2. CASE saveManifest(p)
  <2>1. /\ p \in Uploading /\ puts' = puts \ {p} /\ content' = content
        /\ ipfs' = Append(ipfs, p.snapshot) /\ p.snapshot \in Manifest
    BY <1>2, PutKinds DEF saveManifest, Uploading
  <2>2. /\ Len(ipfs') = Len(ipfs) + 1 /\ ipfs'[Len(ipfs) + 1] = p.snapshot
        /\ \A i \in 1..Len(ipfs) : i \in 1..Len(ipfs') /\ ipfs'[i] = ipfs[i]
        /\ Len(ipfs) + 1 \in 1..Len(ipfs')
    BY <1>0, <2>1 DEF StorageTypeOK
  <2>3. InManifest(ipfs, content, k, l, a) => InManifest(ipfs', content', k, l, a)
    BY <2>1, <2>2 DEF InManifest
  <2>4. ASSUME p.entry = k, p.data = l, addressOf[p.storage] = a PROVE InManifest(ipfs', content', k, l, a)
    <3>1. p.snapshot.entries[k] > 0 /\ content[p.snapshot.entries[k]] = l /\ p.snapshot.entries[k] \in Nat
      BY <2>1, <2>4, StorageFacts DEF ContentInv
    <3>2. p.snapshot.address = a
      BY <2>1, <2>4 DEF AccountInv
    <3> QED
      BY <2>1, <2>2, <3>1, <3>2 DEF InManifest
  <2>5. OnItsWay(puts, k, l, a) => OnItsWay(puts', k, l, a) \/ InManifest(ipfs', content', k, l, a)
    BY <2>1, <2>4 DEF OnItsWay
  <2> QED
    BY <2>3, <2>5
<1> QED
  BY <1>1, <1>2

\* The lists after a change are the former ones, or have a change more.
Grown(shown) ==
    /\ changes' \in 0..MaxChanges /\ changes' >= changes
    /\ shown \in [Kind -> SUBSET (1..changes')]
    /\ \A k \in Kind : shown[k] = lists[k] \/ (shown[k] = lists[k] \union {changes + 1}
                                               /\ changes' = changes + 1)

\* A list gains nothing but what is new with the step.
OnlyAdded == \A k \in Kind : lists'[k] \subseteq lists[k] \union (changes + 1)..changes'

\* A change of the page's state with the effects of its render: the lists are
\* never loaded, and a list whose text is not the saved one's is saved again.
LEMMA CommitStep ==
    ASSUME PageInv, NEW shown, Grown(shown), NEW renewed, Commit(shown, renewed),
           address' \in Account \union {NoAccount}, made' \subseteq Storage,
           latest' \in PageStorage \union {NoStorage}, storage' \in PageStorage \union {NoStorage},
           scanned' \in BOOLEAN, UNCHANGED <<ipfs, content, puts>>,
           dataLoaded \/ address' # NoAccount \/
               (storage' = NoStorage /\ made' \intersect PageStorage = {}),
           \A s \in Storage : reading'[s] # 0 => s \in made'
    PROVE  PageInv' /\ OnlyAdded
<1> USE DEF PageInv
<1> DEFINE begun == {k \in Kind : Runs(k, renewed) /\ Starts(k)}
<1>1. /\ lists \in [Kind -> SUBSET (1..changes)] /\ lastSaved \in [Kind -> SUBSET (1..changes)]
      /\ changes \in Nat /\ changes' \in Nat /\ changes <= changes'
      /\ 1..changes \subseteq 1..changes'
      /\ dataLoaded \in BOOLEAN
  BY PageAssumption DEF PageTypes, Grown
<1>2. lists' = shown /\ dataLoaded' = (dataLoaded \/ address' # NoAccount) /\ dataLoaded' \in BOOLEAN
  BY <1>1 DEF Commit, LoadEffect, MountInv
<1>3. /\ timers' = begun \union {k \in timers : ~Runs(k, renewed)}
      /\ lastSaved' = [k \in Kind |-> IF k \in begun THEN lists'[k] ELSE lastSaved[k]]
      /\ savedFor' = [k \in Kind |-> IF k \in begun THEN address' ELSE savedFor[k]]
      /\ dropped' = (dropped \union {k \in timers : Runs(k, renewed)}) \ begun
  BY DEF Commit, SaveEffects
<1>4. \A k \in begun : Starts(k)
  OBVIOUS
<1>5. \A k \in Kind \ begun : ~(Runs(k, renewed) /\ Starts(k))
  OBVIOUS
<1>6. begun \subseteq Kind
  OBVIOUS
<1> HIDE DEF begun
<1>7. PageTypes'
  <2>1. lists' \in [Kind -> SUBSET (1..changes')]
    BY <1>2 DEF Grown
  <2>2. lastSaved' \in [Kind -> SUBSET (1..changes')]
    <3>1. \A k \in Kind : lists'[k] \subseteq 1..changes' /\ lastSaved[k] \subseteq 1..changes'
      BY <1>1, <2>1
    <3>2. \A k \in Kind : (IF k \in begun THEN lists'[k] ELSE lastSaved[k]) \in SUBSET (1..changes')
      BY <3>1
    <3> QED
      BY <1>3, <3>2
  <2>3. changes' \in 0..MaxChanges
    BY DEF Grown
  <2>4. timers' \subseteq Kind /\ dropped' \subseteq Kind
    BY <1>3, <1>6 DEF PageTypes
  <2>5. savedFor' \in [Kind -> Account \union {NoAccount}]
    BY <1>3 DEF PageTypes
  <2> QED
    BY <1>2, <2>1, <2>2, <2>3, <2>4, <2>5 DEF PageTypes
<1>8. MountInv'
  BY <1>2 DEF MountInv
<1>9. TextInv'
  <2> SUFFICES ASSUME NEW k \in Kind
               PROVE  /\ address' # NoAccount => lists'[k] = {} \/ lists'[k] = lastSaved'[k]
                      /\ k \in timers' => lists'[k] = lastSaved'[k] /\ savedFor'[k] = address'
    BY DEF TextInv
  <2>1. CASE k \in begun
    BY <1>3, <2>1
  <2>2. CASE k \notin begun /\ Runs(k, renewed)
    <3>1. lastSaved'[k] = lastSaved[k] /\ k \notin timers'
      BY <1>3, <2>2
    <3>2. ~Starts(k)
      BY <1>5, <2>2
    <3> QED
      BY <1>2, <3>1, <3>2 DEF Starts
  <2>3. CASE k \notin begun /\ ~Runs(k, renewed)
    <3>1. lastSaved'[k] = lastSaved[k] /\ savedFor'[k] = savedFor[k] /\ (k \in timers' => k \in timers)
      BY <1>3, <2>3
    <3>2. address' = address /\ lists'[k] = lists[k]
      BY <2>3 DEF Runs
    <3> QED
      BY <3>1, <3>2 DEF TextInv
  <2> QED
    BY <2>1, <2>2, <2>3
<1>10. SaveInv'
  <2> SUFFICES ASSUME NEW k \in Kind, k \notin dropped', k \notin timers', lastSaved'[k] # {}
               PROVE  \/ OnItsWay(puts, k, lastSaved'[k], savedFor'[k])
                      \/ InManifest(ipfs, content, k, lastSaved'[k], savedFor'[k])
    BY DEF SaveInv
  <2>1. k \notin begun /\ k \notin dropped /\ k \notin timers
    BY <1>3
  <2>2. lastSaved'[k] = lastSaved[k] /\ savedFor'[k] = savedFor[k]
    BY <1>3, <2>1
  <2> QED
    BY <2>1, <2>2 DEF SaveInv
<1>11. OnlyAdded
  <2> SUFFICES ASSUME NEW k \in Kind PROVE lists'[k] \subseteq lists[k] \union (changes + 1)..changes'
    BY DEF OnlyAdded
  <2>1. lists'[k] = lists[k] \/ (lists'[k] = lists[k] \union {changes + 1} /\ changes' = changes + 1)
    BY <1>2 DEF Grown
  <2>2. changes' = changes + 1 => changes + 1 \in (changes + 1)..changes'
    BY <1>1
  <2> QED
    BY <2>1, <2>2
<1> QED
  BY <1>7, <1>8, <1>9, <1>10, <1>11

\* Nothing is shown that was not before.
LEMMA SameLists == PageTypes /\ UNCHANGED changes => Grown(lists)
BY PageAssumption DEF PageTypes, Grown

LEMMA SetAddressStep ==
    ASSUME PageInv, NEW a \in Account \union {NoAccount}, SetAddress(a)
    PROVE  PageInv' /\ OnlyAdded
<1> USE DEF PageInv
<1>1. /\ address' = a /\ latest' = NoStorage /\ (storage' = NoStorage \/ storage' = storage)
      /\ UNCHANGED <<storageVars, made, scanned>>
      /\ Commit(Rescanned(a), {}) /\ a # address
      /\ changes' = IF scanned THEN changes + 1 ELSE changes
      /\ scanned => changes < MaxChanges
  BY DEF SetAddress
<1>2. Grown(Rescanned(a))
  <2>1. CASE scanned
    <3>1. /\ changes' = changes + 1 /\ changes < MaxChanges /\ changes \in Nat /\ MaxChanges \in Nat
          /\ lists \in [Kind -> SUBSET (1..changes)] /\ "messages" \in Kind
      BY <1>1, <2>1, PageAssumption DEF PageTypes
    <3>2. Rescanned(a) = [lists EXCEPT !["messages"] = @ \union {changes + 1}]
      BY <1>1, <2>1 DEF Rescanned
    <3>3. 1..changes \subseteq 1..changes' /\ changes + 1 \in 1..changes'
      BY <3>1
    <3> QED
      BY <3>1, <3>2, <3>3 DEF Grown
  <2>2. CASE ~scanned
    <3>1. Rescanned(a) = lists /\ changes' = changes
      BY <1>1, <2>2 DEF Rescanned
    <3> QED
      BY <3>1, SameLists
  <2> QED
    BY <2>1, <2>2
<1>3. /\ dataLoaded \/ (storage' = NoStorage /\ made' \intersect PageStorage = {})
      /\ \A s \in Storage : reading'[s] # 0 => s \in made'
  BY <1>1 DEF MountInv, storageVars
<1> QED
  BY <1>1, <1>2, <1>3, CommitStep DEF PageTypes, storageVars

LEMMA MakeStorageStep ==
    ASSUME PageInv, NEW s \in Storage, MakeStorage(s)
    PROVE  PageInv' /\ OnlyAdded
<1> USE DEF PageInv
<1>1. /\ s \in PageStorage => address = addressOf[s] /\ latest' = s
      /\ made' = made \union {s}
      /\ s \notin PageStorage => UNCHANGED <<latest, storage>>
      /\ storage' = storage \/ storage' = NoStorage
      /\ UNCHANGED <<storageVars, address, counters>> /\ Commit(lists, {})
  BY DEF MakeStorage
<1>2. s \in PageStorage => dataLoaded
  BY <1>1, StorageAssumption, PageAssumption DEF MountInv
<1>3. /\ dataLoaded \/ (storage' = NoStorage /\ made' \intersect PageStorage = {})
      /\ \A x \in Storage : reading'[x] # 0 => x \in made'
  BY <1>1, <1>2 DEF MountInv, storageVars
<1>4. Grown(lists)
  BY <1>1, SameLists DEF counters
<1> QED
  BY <1>1, <1>3, <1>4, CommitStep DEF PageTypes, storageVars, counters

LEMMA ResolvedStep ==
    ASSUME PageInv, NEW s \in Storage, Initialize(s) \/ LoadManifest(s), StorageTypeOK
    PROVE  PageInv' /\ OnlyAdded
<1> USE DEF PageInv
<1>1. s \in made
  BY DEF Initialize, LoadManifest, Load, MountInv
<1>2. /\ storage' = storage \/ (storage' = s /\ s \in PageStorage)
      /\ UNCHANGED <<address, made, latest, counters>> /\ Commit(lists, {})
  BY DEF Initialize, LoadManifest, Resolved
<1>3. UNCHANGED <<ipfs, content, puts>> /\ \A x \in Storage : x # s => reading'[x] = reading[x]
  BY DEF Initialize, LoadManifest, initialize, Load, StorageTypeOK
<1>4. /\ dataLoaded \/ (storage' = NoStorage /\ made' \intersect PageStorage = {})
      /\ \A x \in Storage : reading'[x] # 0 => x \in made'
  BY <1>1, <1>2, <1>3 DEF MountInv
<1>5. Grown(lists)
  BY <1>2, SameLists DEF counters
<1> QED
  BY <1>2, <1>3, <1>4, <1>5, CommitStep DEF PageTypes, counters

LEMMA ChangeStep ==
    ASSUME PageInv, handleCreateChannel \/ handleSendMessage \/ handleScan
    PROVE  PageInv' /\ OnlyAdded
<1> USE DEF PageInv
<1>1. PICK ks \in SUBSET Kind, renewed \in SUBSET Kind :
          Change(WithChange(ks), renewed) /\ scanned' \in BOOLEAN
  <2>1. {"conversations"} \subseteq Kind /\ {"messages"} \subseteq Kind
        /\ {"conversations", "messages"} \subseteq Kind
    BY PageAssumption
  <2> QED
    BY <2>1 DEF handleCreateChannel, handleSendMessage, handleScan, scanMessages, PageTypes
<1>2. /\ changes < MaxChanges /\ changes' = changes + 1
      /\ UNCHANGED <<storageVars, hookVars>> /\ Commit(WithChange(ks), renewed)
  BY <1>1 DEF Change
<1>3. Grown(WithChange(ks))
  <2>1. /\ changes \in Nat /\ MaxChanges \in Nat /\ lists \in [Kind -> SUBSET (1..changes)]
    BY PageAssumption DEF PageTypes
  <2>2. 1..changes \subseteq 1..changes' /\ changes + 1 \in 1..changes'
    BY <1>2, <2>1
  <2>3. \A k \in Kind : lists[k] \subseteq 1..changes' /\ lists[k] \union {changes + 1} \subseteq 1..changes'
    BY <2>1, <2>2
  <2> QED
    BY <1>2, <2>1, <2>3 DEF Grown, WithChange
<1>4. /\ dataLoaded \/ (storage' = NoStorage /\ made' \intersect PageStorage = {})
      /\ \A x \in Storage : reading'[x] # 0 => x \in made'
  BY <1>2 DEF MountInv, hookVars, storageVars
<1> QED
  BY <1>1, <1>2, <1>3, <1>4, CommitStep DEF PageTypes, hookVars, storageVars

\* A step that leaves the page as it is, but for timers that ran out and
\* saves that were lost.
LEMMA QuietStep ==
    ASSUME PageInv,
           UNCHANGED <<hookVars, lists, dataLoaded, lastSaved, savedFor, counters>>,
           timers' \subseteq timers, dropped' \subseteq Kind, dropped \subseteq dropped',
           \A s \in Storage : reading'[s] # 0 => reading[s] # 0,
           \A k \in Kind \ dropped' :
               lastSaved[k] # {} /\ k \notin timers'
               /\ (\/ k \in timers
                   \/ OnItsWay(puts, k, lastSaved[k], savedFor[k])
                   \/ InManifest(ipfs, content, k, lastSaved[k], savedFor[k]))
               => \/ OnItsWay(puts', k, lastSaved[k], savedFor[k])
                  \/ InManifest(ipfs', content', k, lastSaved[k], savedFor[k])
    PROVE  PageInv' /\ OnlyAdded
<1> USE DEF PageInv, hookVars, counters
<1>1. PageTypes'
  BY DEF PageTypes
<1>2. MountInv' /\ TextInv'
  BY DEF MountInv, TextInv
<1>3. SaveInv'
  <2> SUFFICES ASSUME NEW k \in Kind, k \notin dropped', lastSaved[k] # {}, k \notin timers'
               PROVE  \/ OnItsWay(puts', k, lastSaved[k], savedFor[k])
                      \/ InManifest(ipfs', content', k, lastSaved[k], savedFor[k])
    BY DEF SaveInv
  <2>1. \/ k \in timers
        \/ OnItsWay(puts, k, lastSaved[k], savedFor[k])
        \/ InManifest(ipfs, content, k, lastSaved[k], savedFor[k])
    BY DEF SaveInv
  <2> QED
    BY <2>1
<1>4. OnlyAdded
  BY DEF OnlyAdded
<1> QED
  BY <1>1, <1>2, <1>3, <1>4

LEMMA SaveTimerStep ==
    ASSUME PageInv, NEW k \in Kind, SaveTimer(k)
    PROVE  PageInv' /\ OnlyAdded
<1>1. /\ k \in timers /\ timers' = timers \ {k}
      /\ UNCHANGED <<hookVars, lists, dataLoaded, lastSaved, savedFor, counters>>
  BY DEF SaveTimer
<1>2. dropped \subseteq Kind
  BY DEF PageInv, PageTypes
<1>3. CASE storage = NoStorage
  <2>1. dropped' = dropped \union {k} /\ UNCHANGED storageVars
    BY <1>3 DEF SaveTimer
  <2> QED
    BY <1>1, <1>2, <2>1, QuietStep DEF storageVars
<1>4. CASE storage # NoStorage
  <2>1. /\ put(storage, k, lists[k])
        /\ dropped' = IF addressOf[storage] = address THEN dropped ELSE dropped \union {k}
    BY <1>4 DEF SaveTimer
  <2> DEFINE p == [storage |-> storage, entry |-> k, id |-> started + 1, data |-> lists[k]]
  <2>2. /\ puts' = puts \union {p} /\ p.entry = k /\ p.data = lists[k] /\ p.storage = storage
        /\ ipfs' = ipfs /\ content' = content /\ reading' = reading
    BY <2>1 DEF put
  <2> HIDE DEF p
  <2>3. k \notin dropped' => OnItsWay(puts', k, lastSaved[k], savedFor[k])
    BY <1>1, <2>1, <2>2 DEF OnItsWay, PageInv, TextInv
  <2>4. \A j, l, a : OnItsWay(puts, j, l, a) => OnItsWay(puts', j, l, a)
    BY <2>2 DEF OnItsWay
  <2>5. dropped' \subseteq Kind /\ dropped \subseteq dropped'
    BY <1>2, <2>1
  <2>6. \A j \in Kind : j # k => (j \in timers <=> j \in timers')
    BY <1>1
  <2> QED
    BY <1>1, <2>2, <2>3, <2>4, <2>5, <2>6, QuietStep
<1> QED
  BY <1>3, <1>4

LEMMA PutElsewhereStep ==
    ASSUME PageInv, NEW s \in Storage, NEW e \in Entry, PutElsewhere(s, e)
    PROVE  PageInv' /\ OnlyAdded
<1>1. UNCHANGED <<hookVars, listVars, counters>> /\ put(s, e, {})
  BY DEF PutElsewhere
<1>2. puts \subseteq puts' /\ ipfs' = ipfs /\ content' = content /\ reading' = reading
  BY <1>1 DEF put
<1>3. \A j, l, a : OnItsWay(puts, j, l, a) => OnItsWay(puts', j, l, a)
  BY <1>2 DEF OnItsWay
<1>4. dropped \subseteq Kind
  BY DEF PageInv, PageTypes
<1> QED
  BY <1>1, <1>2, <1>3, <1>4, QuietStep DEF listVars

LEMMA SaveFailsStep ==
    ASSUME PageInv, NEW p \in puts, SaveFails(p)
    PROVE  PageInv' /\ OnlyAdded
<1>1. /\ UNCHANGED <<hookVars, lists, dataLoaded, lastSaved, savedFor, timers, counters>>
      /\ dropped' = dropped \union ({p.entry} \intersect Kind)
      /\ puts' = puts \ {p} /\ ipfs' = ipfs /\ content' = content /\ reading' = reading
  BY DEF SaveFails, PutFails
<1>2. \A j \in Kind \ dropped' : \A l, a : OnItsWay(puts, j, l, a) => OnItsWay(puts', j, l, a)
  BY <1>1 DEF OnItsWay
<1>3. dropped \subseteq Kind
  BY DEF PageInv, PageTypes
<1> QED
  BY <1>1, <1>2, <1>3, QuietStep

LEMMA StorageStepStep ==
    ASSUME PageInv, StorageInv, StorageStep
    PROVE  PageInv' /\ OnlyAdded
<1>1. UNCHANGED <<hookVars, listVars, counters>>
  BY DEF StorageStep
<1>2. /\ reading' = reading
      /\ \A k \in Kind : \A l, a :
             OnItsWay(puts, k, l, a) \/ InManifest(ipfs, content, k, l, a)
             => OnItsWay(puts', k, l, a) \/ InManifest(ipfs', content', k, l, a)
  <2>1. CASE \E p \in puts : Record(p) \/ saveManifest(p)
    <3>1. Kind \subseteq Entry
      BY PageAssumption
    <3>2. reading' = reading
      BY <2>1 DEF Record, saveManifest
    <3> QED
      BY <2>1, <3>1, <3>2, PutMoves
  <2>2. CASE \E s \in Storage : \E cid \in History(s) : restoreFromManifest(s, cid)
    BY <2>2 DEF restoreFromManifest
  <2> QED
    BY <2>1, <2>2 DEF StorageStep
<1>3. dropped \subseteq Kind
  BY DEF PageInv, PageTypes
<1> QED
  BY <1>1, <1>2, <1>3, QuietStep DEF listVars

LEMMA ReloadPageStep ==
    ASSUME PageInv, ReloadPage
    PROVE  PageInv' /\ OnlyAdded
<1> USE DEF PageInv
<1>1. /\ address' = NoAccount /\ made' = {} /\ latest' = NoStorage /\ storage' = NoStorage
      /\ lists' = [k \in Kind |-> {}] /\ dataLoaded' = FALSE /\ lastSaved' = [k \in Kind |-> {}]
      /\ savedFor' = [k \in Kind |-> NoAccount]
      /\ timers' = {} /\ scanned' = FALSE /\ dropped' = {}
      /\ changes' = changes /\ \A s \in Storage : reading'[s] = 0
  BY DEF ReloadPage, None, Reload
<1>2. changes \in Nat /\ changes \in 0..MaxChanges
  BY PageAssumption DEF PageTypes
<1>3. PageTypes'
  <2>1. lists' \in [Kind -> SUBSET (1..changes')] /\ lastSaved' \in [Kind -> SUBSET (1..changes')]
    BY <1>1
  <2>2. changes' \in 0..MaxChanges
    BY <1>1, <1>2
  <2> QED
    BY <1>1, <2>1, <2>2 DEF PageTypes
<1>4. MountInv' /\ TextInv'
  BY <1>1 DEF MountInv, TextInv
<1>5. SaveInv'
  BY <1>1 DEF SaveInv
<1>6. OnlyAdded
  BY <1>1 DEF OnlyAdded
<1> QED
  BY <1>3, <1>4, <1>5, <1>6

LEMMA PageStep == PageInv /\ StorageInv /\ [Next]_vars => PageInv' /\ OnlyAdded
<1> SUFFICES ASSUME PageInv, StorageInv, [Next]_vars PROVE PageInv' /\ OnlyAdded
  OBVIOUS
<1>1. CASE UNCHANGED vars
  BY <1>1 DEF vars, storageVars, hookVars, listVars, counters, PageInv, PageTypes, MountInv,
     TextInv, SaveInv, OnlyAdded
<1>2. CASE Next
  BY <1>2, SetAddressStep, MakeStorageStep, ResolvedStep, ChangeStep, SaveTimerStep, PutElsewhereStep,
     SaveFailsStep, StorageStepStep, ReloadPageStep DEF Next, StorageInv
<1> QED
  BY <1>1, <1>2

LEMMA InitHolds == Init => StorageInv /\ PageInv
<1> SUFFICES ASSUME Init PROVE StorageInv /\ PageInv
  OBVIOUS
<1>1. /\ ipfs = <<>> /\ puts = {} /\ content = <<>> /\ started = 0 /\ crossed = {}
      /\ pointer = [a \in Account |-> 0] /\ manifest = [s \in Storage |-> NotLoaded]
      /\ manifestCid = [s \in Storage |-> 0] /\ reading = [s \in Storage |-> 0]
  BY DEF Init, StorageInit
<1>2. Waiting = {} /\ Uploading = {} /\ Len(ipfs) = 0 /\ Len(content) = 0
  BY <1>1 DEF Waiting, Uploading
<1>3. StorageTypeOK
  BY <1>1, <1>2, StorageAssumption DEF StorageTypeOK
<1>4. CountInv
  BY <1>1, <1>2, FS_EmptySet DEF CountInv
<1>5. LoadInv /\ AccountInv /\ HistoryInv /\ ContentInv /\ OrderInv
  BY <1>1, <1>2 DEF LoadInv, AccountInv, HistoryInv, ContentInv, OrderInv, Loaded
<1>6. /\ address = NoAccount /\ made = {} /\ latest = NoStorage /\ storage = NoStorage
      /\ lists = [k \in Kind |-> {}] /\ dataLoaded = FALSE /\ lastSaved = [k \in Kind |-> {}]
      /\ savedFor = [k \in Kind |-> NoAccount]
      /\ timers = {} /\ scanned = FALSE /\ dropped = {} /\ changes = 0
  BY DEF Init, None
<1>7. PageTypes
  <2>1. lists \in [Kind -> SUBSET (1..changes)] /\ lastSaved \in [Kind -> SUBSET (1..changes)]
    BY <1>6
  <2>2. changes \in 0..MaxChanges
    BY <1>6, PageAssumption
  <2> QED
    BY <1>6, <2>1, <2>2 DEF PageTypes
<1>8. MountInv /\ TextInv /\ SaveInv
  BY <1>1, <1>6 DEF MountInv, TextInv, SaveInv
<1> QED
  BY <1>3, <1>4, <1>5, <1>7, <1>8 DEF StorageInv, PageInv

LEMMA Always == Spec => [](StorageInv /\ PageInv)
<1>1. StorageInv /\ PageInv /\ [Next]_vars => StorageInv'
  BY PageCalls, StorageInvStep DEF PageInv
<1> QED
  BY <1>1, InitHolds, PageStep, PTL DEF Spec

-----------------------------------------------------------------------------
(* Theorems                                                                *)

\* Every variable of the storage and of the page keeps its type; the content
\* never comes to more than the puts that were started.
THEOREM TypeCorrect == Spec => []TypeOK
<1>1. StorageInv /\ PageInv => TypeOK
  BY DEF StorageInv, PageInv, PageTypes, TypeOK
<1> QED
  BY <1>1, Always, PTL

\* What getManifestHistory offers are manifests that exist, oldest first and
\* not too many, for any puts that overlap and any restores.
THEOREM HistoryHolds == Spec => []HistoryIsRecoverable
<1>1. StorageInv => HistoryIsRecoverable
  <2> SUFFICES ASSUME StorageInv, NEW s \in Storage, Loaded(s)
               PROVE  /\ Len(manifest[s].manifestHistory) <= MaxHistory
                      /\ InOrder(manifest[s].manifestHistory)
                      /\ \A cid \in History(s) : cid < manifestCid[s]
    BY DEF HistoryIsRecoverable
  <2>1. HistoryOK(manifest[s].manifestHistory, manifestCid[s])
    BY DEF StorageInv, HistoryInv
  <2> QED
    BY <2>1 DEF HistoryOK, History
<1> QED
  BY <1>1, Always, PTL

\* A save whose manifest was serialized when the pointer was where it is sets
\* no entry back and brings its own further, for any objects and puts.
THEOREM NoSaveBack == Spec => NoSaveGoesBack
<1> DEFINE Back(p) ==
        LET a   == addressOf[p.storage]
            old == pointer[a]
            new == pointer'[a]
        IN  (saveManifest(p) /\ p.base = old /\ p.storage \notin crossed) =>
                /\ old # 0 => \A e \in Entry : ipfs'[new].entries[e] >= ipfs[old].entries[e]
                /\ ipfs'[new].entries[p.entry] > 0
                /\ old # 0 => ipfs'[new].entries[p.entry] > ipfs[old].entries[p.entry]
<1>1. ASSUME StorageInv, NEW p \in puts PROVE Back(p)
  <2> DEFINE a == addressOf[p.storage]
  <2> SUFFICES ASSUME saveManifest(p), p.base = pointer[a], p.storage \notin crossed
               PROVE  /\ p.base # 0 => \A e \in Entry : ipfs'[pointer'[a]].entries[e] >= ipfs[p.base].entries[e]
                      /\ ipfs'[pointer'[a]].entries[p.entry] > 0
                      /\ p.base # 0 => ipfs'[pointer'[a]].entries[p.entry] > ipfs[p.base].entries[p.entry]
    OBVIOUS
  <2>1. /\ p \in Uploading /\ ipfs' = Append(ipfs, p.snapshot) /\ p.snapshot \in Manifest
        /\ pointer' = [pointer EXCEPT ![a] = Len(ipfs) + 1]
    BY <1>1, PutKinds DEF saveManifest, Uploading, StorageInv, AccountInv, LoadInv, StorageTypeOK
  <2>2. a \in Account /\ Len(ipfs) \in Nat
    BY <1>1, StorageFacts DEF StorageInv
  <2>3. pointer'[a] = Len(ipfs) + 1 /\ ipfs'[Len(ipfs) + 1] = p.snapshot
    BY <1>1, <2>1, <2>2 DEF StorageInv, StorageTypeOK
  <2>4. /\ p.snapshot.entries[p.entry] > 0
        /\ p.base # 0 => /\ AsNew(p.snapshot, ipfs[p.base])
                         /\ p.snapshot.entries[p.entry] > ipfs[p.base].entries[p.entry]
    BY <1>1, <2>1 DEF StorageInv, ContentInv, OrderInv
  <2> QED
    BY <2>3, <2>4 DEF AsNew
<1>2. StorageInv => [\A p \in puts : Back(p)]_storageVars
  BY <1>1
<1> QED
  BY <1>2, Always, PTL DEF NoSaveGoesBack

\* Whatever account, storage or number of changes, a list of the page comes to
\* hold only what is new with the step: nothing that was saved is ever loaded.
THEOREM NothingLoads ==
    Spec => [][\A k \in Kind : lists'[k] \subseteq lists[k] \union (changes + 1)..changes']_vars
<1> DEFINE Added == \A k \in Kind : lists'[k] \subseteq lists[k] \union (changes + 1)..changes'
<1>1. PageInv /\ StorageInv => ([Next]_vars => [Added]_vars)
  BY PageStep DEF OnlyAdded
<1> HIDE DEF Added
<1>2. Spec => [][Added]_vars
  BY <1>1, Always, PTL DEF Spec
<1> QED
  BY <1>2 DEF Added

\* A page at rest has saved what it shows for its account, unless that save was
\* lost.
THEOREM RestIsSaved == Spec => []SavedUnlessDropped
<1>1. PageInv => SavedUnlessDropped
  <2> SUFFICES ASSUME PageInv, address # NoAccount, timers = {}, puts = {},
                      NEW k \in Kind \ dropped, lists[k] # {}, savedFor[k] = address
               PROVE  \E i \in DOMAIN ipfs : /\ ipfs[i].address = address
                                             /\ ipfs[i].entries[k] # 0
                                             /\ content[ipfs[i].entries[k]] = lists[k]
    BY DEF SavedUnlessDropped
  <2>1. ~OnItsWay(puts, k, lastSaved[k], savedFor[k])
    BY DEF OnItsWay
  <2>2. lists[k] = lastSaved[k]
    BY DEF PageInv, TextInv
  <2>3. InManifest(ipfs, content, k, lastSaved[k], savedFor[k])
    BY <2>1, <2>2 DEF PageInv, SaveInv
  <2> QED
    BY <2>2, <2>3 DEF InManifest
<1> QED
  BY <1>1, Always, PTL
=============================================================================
