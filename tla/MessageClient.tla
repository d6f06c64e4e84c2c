--------------------------- MODULE MessageClient ---------------------------
(***************************************************************************)
(* sendDirectMessage and scanForMessages of src/client.ts, the ratchets    *)
(* they keep, the hub's event log between them and the message list of     *)
(* frontend/src/hooks/useMessages.ts.                                      *)
(*                                                                         *)
(* Every send runs X3DH with a fresh ephemeral key and publishes that key  *)
(* with the message, but only the first send to a peer makes a session of  *)
(* it.  The receiver makes its session of the ephemeral key of the first   *)
(* message it comes across.  Between encrypting and posting a send awaits  *)
(* the wallet, so messages are posted in any order, or never.  A scan      *)
(* reads the hub's log from its beginning each time, and a message that    *)
(* ratchetDecrypt rejects ends it, as does an event of another program     *)
(* that it cannot read.  The ratchet store is memory: a page reload        *)
(* empties it.  A user may write to himself.                               *)
(*                                                                         *)
(* The store's operations are atomic here, which module RatchetStore       *)
(* shows of them.  Both parties have registered their keys.                *)
(***************************************************************************)
EXTENDS Ratchet

CONSTANTS
    Client,         \* users, each with one open page
    Bounds          \* bounds on the messages from each client to each, the page
                    \* reloads of each, and the events of other programs

None == NoKey

\* A root is the two parties of the session and the ephemeral key it is of.
Pair == Client \X Nat
Root == Client \X Client \X Pair
Key == [root : Root, way : {1, 2}, n : Nat]
SkippedKey == [dhPub : Pair, msgIndex : Nat, key : Key]

\* No state knows the other side's DH key: only dhRatchet sets it, and it
\* runs only in a state that knows one.
RatchetState ==
    [ rootKey : Root, sendChainKey : Key, recvChainKey : Key, dhPair : Pair, theirDhPub : {NoKey},
      sendCount : Nat, recvCount : Nat, skippedKeys : Seq(SkippedKey) ]

\* An event that another program posts when the log has this many messages,
\* and the clients whose scans throw at it: everyone's when its ephemeral key
\* is no point of the curve, or its recipient's when its metadata does not
\* decrypt, lacks a field or has a malformed signature.
Other == [after : Nat, ends : {Client} \union {{c} : c \in Client}]

Scan == [upTo : Nat, pos : Nat, found : Seq(Nat), others : SUBSET Other]

Message ==
    [ from : Client, to : Client, eph : Pair, page : Nat,
      dhPub : Pair, msgIndex : Nat, prevChainLen : Nat, key : Key ]

\* A run stays within one of the bounds.
ASSUME ClientAssumption ==
    /\ Bounds \subseteq
           [send : [Client \X Client -> Nat], reloads : [Client -> Nat], others : Nat]
    /\ Bounds # {}
    /\ None \notin RatchetState \union Scan

VARIABLES
    store,      \* store[c][p]: c's ratchet state with peer p, or None
    outbox,     \* encrypted messages whose transaction is not sent yet
    hub,        \* the MessagePosted events of the clients, in chain order
    others,     \* those of other programs at which a scan throws
    scan,       \* scan[c]: the scan c is in, or None
    view,       \* view[c]: log positions of the messages c's page shows
    sealed,     \* history: every message ever encrypted, with the page it is from
    opened,     \* history: opened[c]: log positions c decrypted since its reload
    drawn,      \* drawn[c]: how many key pairs c has generated
    page        \* page[c]: how often c's page was reloaded

pageVars == <<store, scan, view, opened>>
vars == <<pageVars, outbox, hub, others, sealed, drawn, page>>

Init ==
    /\ store = [c \in Client |-> [p \in Client |-> None]]
    /\ outbox = {}
    /\ hub = <<>>
    /\ others = {}
    /\ scan = [c \in Client |-> None]
    /\ view = [c \in Client |-> <<>>]
    /\ sealed = {}
    /\ opened = [c \in Client |-> <<>>]
    /\ drawn = [c \in Client |-> 0]
    /\ page = [c \in Client |-> 0]

-----------------------------------------------------------------------------

\* x3dhInitiator and x3dhResponder agree exactly on the parties, whose
\* identity and signed pre-keys are registered, and the ephemeral key.
SessionKey(initiator, responder, eph) == <<initiator, responder, eph>>

KeyPair(c, n) == <<c, n>>

Sends ==
    [w \in Client \X Client |-> Cardinality({m \in sealed : m.from = w[1] /\ m.to = w[2]})]

Within(sends, reloads, foreign) ==
    \E b \in Bounds :
        /\ \A w \in Client \X Client : sends[w] <= b.send[w]
        /\ \A c \in Client : reloads[c] <= b.reloads[c]
        /\ Cardinality(foreign) <= b.others

-----------------------------------------------------------------------------
(* sendDirectMessage                                                       *)

\* The updater: the state there is, or a session of this send's own X3DH.
ExistingOrNew(c, p, eph, dhPair) ==
    IF store[c][p] # None
    THEN store[c][p]
    ELSE initRatchet(SessionKey(c, p, eph), dhPair, TRUE)

\* The event of a message that c's page encrypts for p with state.
MessageOf(c, p, eph, state) ==
    LET header == Seal(state)
    IN  [ from         |-> c,
          to           |-> p,
          eph          |-> eph,
          page         |-> page[c],
          dhPub        |-> header.dhPub,
          msgIndex     |-> header.msgIndex,
          prevChainLen |-> header.prevChainLen,
          key          |-> header.key ]

\* Mutant: the state is not saved after ratchetEncrypt.
EncryptUnsaved(c, p) ==
    LET eph    == KeyPair(c, drawn[c] + 1)
        dhPair == KeyPair(c, drawn[c] + 2)
        before == ExistingOrNew(c, p, eph, dhPair)
        m      == MessageOf(c, p, eph, before)
    IN  /\ Within([Sends EXCEPT ![<<c, p>>] = @ + 1], page, others)
        /\ store' = [store EXCEPT ![c][p] = before]
        /\ outbox' = outbox \union {m}
        /\ sealed' = sealed \union {m}
        /\ drawn' = [drawn EXCEPT ![c] = @ + 2]
        /\ UNCHANGED <<hub, others, scan, view, opened, page>>

\* Everything up to the first await of the wallet.
Encrypt(c, p) ==
    LET eph    == KeyPair(c, drawn[c] + 1)
        dhPair == KeyPair(c, drawn[c] + 2)
        before == ExistingOrNew(c, p, eph, dhPair)
        m      == MessageOf(c, p, eph, before)
    IN  /\ Within([Sends EXCEPT ![<<c, p>>] = @ + 1], page, others)
        /\ store' = [store EXCEPT ![c][p] = Sealed(before)]
        /\ outbox' = outbox \union {m}
        /\ sealed' = sealed \union {m}
        /\ drawn' = [drawn EXCEPT ![c] = @ + 2]
        /\ UNCHANGED <<hub, others, scan, view, opened, page>>

\* Mutant: a message that was posted is still to be posted.
PostStays(m) ==
    /\ m \in outbox
    /\ hub' = Append(hub, m)
    /\ UNCHANGED <<outbox, others, pageVars, sealed, drawn, page>>

\* The transaction goes through.  Its nullifier is a hash of the ciphertext,
\* so the hub never finds it used.
Post(m) ==
    /\ m \in outbox
    /\ hub' = Append(hub, m)
    /\ outbox' = outbox \ {m}
    /\ UNCHANGED <<others, pageVars, sealed, drawn, page>>

\* The user rejects the signature or the transaction, or the node fails: the
\* send throws, and the ratchet stays where it is.
SendFails(m) ==
    /\ m \in outbox
    /\ outbox' = outbox \ {m}
    /\ UNCHANGED <<pageVars, hub, others, sealed, drawn, page>>

\* The hub looks at the lengths of what it is given, not at what it is.
PostOther(ends) ==
    /\ others' = others \union {[after |-> Len(hub), ends |-> ends]}
    /\ Within(Sends, page, others')
    /\ UNCHANGED <<pageVars, outbox, hub, sealed, drawn, page>>

-----------------------------------------------------------------------------
(* scanForMessages and useMessages                                         *)

\* queryFilter: the whole log as it is now.
StartScan(c) ==
    /\ scan[c] = None
    /\ scan' = [scan EXCEPT ![c] =
                    [upTo |-> Len(hub), pos |-> 1, found |-> <<>>, others |-> others]]
    /\ UNCHANGED <<store, view, opened, outbox, hub, others, sealed, drawn, page>>

\* Before the next message comes an event that c's scan throws at.
AtOther(c) ==
    \E e \in scan[c].others : e.after = scan[c].pos - 1 /\ c \in e.ends

\* c's scan is at event m.
Scanning(c, m) ==
    /\ scan[c] # None
    /\ ~AtOther(c)
    /\ scan[c].pos <= scan[c].upTo
    /\ m = hub[scan[c].pos]

\* View tag or stealth address mismatch: the event is for someone else.
NotMine(c, m) ==
    /\ Scanning(c, m)
    /\ m.to # c
    /\ scan' = [scan EXCEPT ![c].pos = @ + 1]
    /\ UNCHANGED <<store, view, opened, outbox, hub, others, sealed, drawn, page>>

\* The state the event is decrypted with: the one there is, or, only if
\* there is none, a session of the event's ephemeral key.
ReceivingState(c, m) ==
    IF store[c][m.from] # None
    THEN store[c][m.from]
    ELSE initRatchet(SessionKey(m.from, c, m.eph), KeyPair(c, drawn[c] + 1), FALSE)

Draws(c, m) == IF store[c][m.from] = None THEN 1 ELSE 0

CanOpen(c, m) == Opens(ReceivingState(c, m), m, KeyPair(c, drawn[c] + 1))

\* Mutant: the new state is not saved.
DecryptUnsaved(c, m) ==
    /\ Scanning(c, m)
    /\ m.to = c
    /\ CanOpen(c, m)
    /\ store' = [store EXCEPT ![c][m.from] = ReceivingState(c, m)]
    /\ opened' = [opened EXCEPT ![c] = Append(@, scan[c].pos)]
    /\ scan' = [scan EXCEPT ![c].pos = @ + 1,
                            ![c].found = Append(@, scan[c].pos)]
    /\ drawn' = [drawn EXCEPT ![c] = @ + Draws(c, m)]
    /\ UNCHANGED <<view, outbox, hub, others, sealed, page>>

\* ratchetDecrypt returns: the new state is saved, the message collected.
Decrypt(c, m) ==
    /\ Scanning(c, m)
    /\ m.to = c
    /\ CanOpen(c, m)
    /\ store' = [store EXCEPT ![c][m.from] =
                     Opened(ReceivingState(c, m), m, KeyPair(c, drawn[c] + 1))]
    /\ opened' = [opened EXCEPT ![c] = Append(@, scan[c].pos)]
    /\ scan' = [scan EXCEPT ![c].pos = @ + 1,
                            ![c].found = Append(@, scan[c].pos)]
    /\ drawn' = [drawn EXCEPT ![c] = @ + Draws(c, m)]
    /\ UNCHANGED <<view, outbox, hub, others, sealed, page>>

\* Mutant: the state is moved past a message that was rejected.
AbortMovesOn(c, m) ==
    /\ Scanning(c, m)
    /\ m.to = c
    /\ ~CanOpen(c, m)
    /\ store' = [store EXCEPT ![c][m.from] =
                     Opened(ReceivingState(c, m), m, KeyPair(c, drawn[c] + 1))]
    /\ scan' = [scan EXCEPT ![c] = None]
    /\ UNCHANGED <<view, opened, outbox, hub, others, sealed, drawn, page>>

\* ratchetDecrypt throws: nothing is saved, and the exception leaves
\* scanForMessages with all it had collected.  A state that was in the store
\* keeps the keys that were pushed onto its array; a new one is forgotten.
Abort(c, m) ==
    /\ Scanning(c, m)
    /\ m.to = c
    /\ ~CanOpen(c, m)
    /\ store' = IF store[c][m.from] = None THEN store
                ELSE [store EXCEPT ![c][m.from] = Left(@, m, None)]
    /\ scan' = [scan EXCEPT ![c] = None]
    /\ UNCHANGED <<view, opened, outbox, hub, others, sealed, drawn, page>>

\* The scan throws at an event of another program before it comes to a ratchet.
AbortAtOther(c) ==
    /\ scan[c] # None
    /\ AtOther(c)
    /\ scan' = [scan EXCEPT ![c] = None]
    /\ UNCHANGED <<store, view, opened, outbox, hub, others, sealed, drawn, page>>

\* The scan returns and setMessages replaces the list that is shown.
Finish(c) ==
    /\ scan[c] # None
    /\ ~AtOther(c)
    /\ scan[c].pos > scan[c].upTo
    /\ view' = [view EXCEPT ![c] = scan[c].found]
    /\ scan' = [scan EXCEPT ![c] = None]
    /\ UNCHANGED <<store, opened, outbox, hub, others, sealed, drawn, page>>

-----------------------------------------------------------------------------

\* useMessageClient makes a client with a new InMemoryRatchetStore, when the
\* page is loaded and again when the account or its storage changes; the keys
\* of the account come back from storage.  Sends under way die with the page.
Reload(c) ==
    /\ Within(Sends, [page EXCEPT ![c] = @ + 1], others)
    /\ page' = [page EXCEPT ![c] = @ + 1]
    /\ store' = [store EXCEPT ![c] = [p \in Client |-> None]]
    /\ scan' = [scan EXCEPT ![c] = None]
    /\ view' = [view EXCEPT ![c] = <<>>]
    /\ opened' = [opened EXCEPT ![c] = <<>>]
    /\ outbox' = {m \in outbox : m.from # c}
    /\ UNCHANGED <<hub, others, sealed, drawn>>

ScanStep(c) ==
    \/ \E m \in {hub[i] : i \in 1..Len(hub)} : NotMine(c, m) \/ Decrypt(c, m) \/ Abort(c, m)
    \/ AbortAtOther(c)
    \/ Finish(c)

Next ==
    \/ \E c, p \in Client : Encrypt(c, p)
    \/ \E m \in outbox : Post(m) \/ SendFails(m)
    \/ \E ends \in {Client} \union {{c} : c \in Client} : PostOther(ends)
    \/ \E c \in Client : StartScan(c) \/ ScanStep(c) \/ Reload(c)

\* A user keeps scanning, and a scan that has started goes on.  Nobody has to
\* send, and a transaction may never go through.
Fairness ==
    \A c \in Client : WF_vars(StartScan(c)) /\ WF_vars(ScanStep(c))

Spec == Init /\ [][Next]_vars /\ Fairness

-----------------------------------------------------------------------------
(* Properties.                                                             *)

Posted == {hub[i] : i \in 1..Len(hub)}

TypeOK ==
    /\ sealed \subseteq Message
    /\ hub \in Seq(sealed)
    /\ outbox \subseteq sealed \ Posted
    /\ others \subseteq Other
    /\ drawn \in [Client -> Nat]
    /\ page \in [Client -> Nat]
    /\ store \in [Client -> [Client -> RatchetState \union {None}]]
    /\ \A c, p \in Client :
           store[c][p] # None =>
               /\ store[c][p].sendChainKey.n = store[c][p].sendCount
               /\ store[c][p].recvChainKey.n = store[c][p].recvCount
               /\ Len(store[c][p].skippedKeys) <= MAX_SKIP
    /\ opened \in [Client -> Seq(1..Len(hub))]
    /\ view \in [Client -> Seq(1..Len(hub))]
    /\ scan \in [Client -> Scan \union {None}]
    /\ \A c \in Client :
           scan[c] # None =>
               /\ scan[c].upTo <= Len(hub)
               /\ scan[c].pos \in 1..(scan[c].upTo + 1)
               /\ scan[c].found \in Seq(1..Len(hub))
    /\ Within(Sends, page, others)

(***************************************************************************)
(* README.md: "Each message uses a new key."  No two messages are ever     *)
(* encrypted under one message key.                                        *)
(***************************************************************************)
EachMessageNewKey ==
    \A m1, m2 \in sealed : m1.key = m2.key => m1 = m2

(***************************************************************************)
(* A message key is used twice only by a page that was reloaded after it   *)
(* had answered in a session its peer started, and that then made the same *)
(* session again of the same event.  Concurrent and failed sends, crossing *)
(* first messages and the initiator's reloads never reuse a key.           *)
(***************************************************************************)
KeyReuseNeedsReload ==
    \A m1, m2 \in sealed :
        (m1.key = m2.key /\ m1 # m2) =>
            /\ m1.from = m2.from
            /\ m1.page # m2.page
            /\ m1.key.way = 2

(***************************************************************************)
(* However often the log is scanned from its beginning, a page decrypts    *)
(* every event at most once.                                               *)
(***************************************************************************)
OpenedOnce ==
    \A c \in Client :
        \A i, j \in 1..Len(opened[c]) : opened[c][i] = opened[c][j] => i = j

(***************************************************************************)
(* A page's receive chain is never past what its peer has sealed on the    *)
(* crossed chain of the same session: the last message it counts as        *)
(* received was sealed, for it, by that peer, and was posted.              *)
(***************************************************************************)
ReceivedWasSent ==
    \A c, p \in Client :
        (store[c][p] # None /\ store[c][p].recvCount > 0) =>
            \E m \in Posted :
                /\ m.from = p /\ m.to = c
                /\ m.key = Advance(store[c][p].recvChainKey, -1)

\* Why a message for c may be undecipherable to c's page.
KeyOpened(c, m) == \E i \in 1..Len(opened[c]) : hub[opened[c][i]].key = m.key
PeerReloaded(c, m) ==
    \E i \in 1..Len(opened[c]) :
        /\ hub[opened[c][i]].from = m.from
        /\ hub[opened[c][i]].page # m.page
OwnSide(c, m) == m.from = c /\ m.key.way = ReceivingState(c, m).sendChainKey.way
OfOtherSession(c, m) == ReceivingState(c, m).rootKey # m.key.root
TooFarAhead(c, m) == m.msgIndex - ReceivingState(c, m).recvCount > MAX_SKIP

\* More keys were passed over after m's than the cache keeps.
LeftBehind(c, m) == m.msgIndex + MAX_SKIPPED_KEYS < ReceivingState(c, m).recvCount - 1

\* A message opened on this page was so far ahead of those opened before that
\* the cache had no room for m's key among those passed over.
JumpedOver(c, m) ==
    LET Nth(i) == hub[opened[c][i]]
    IN  \E i \in 1..Len(opened[c]) :
            /\ Nth(i).from = m.from
            /\ Nth(i).msgIndex > m.msgIndex
            /\ \A j \in 1..(i - 1) :
                   Nth(j).from = m.from =>
                       Nth(j).msgIndex + (MAX_SKIP - MAX_SKIPPED_KEYS) < m.msgIndex

\* c's message cannot be opened in its page's state.
Undecipherable(c, m) ==
    /\ m.to = c
    /\ \/ KeyOpened(c, m)
       \/ OwnSide(c, m)
       \/ PeerReloaded(c, m)
       \/ OfOtherSession(c, m)
       \/ TooFarAhead(c, m)
       \/ LeftBehind(c, m)
       \/ JumpedOver(c, m)

\* c's scan is gone, before it has read the whole log.
Threw(c) ==
    /\ scan[c] # None
    /\ scan'[c] = None
    /\ page'[c] = page[c]
    /\ scan[c].pos <= scan[c].upTo \/ view'[c] # scan[c].found

(***************************************************************************)
(* A scan that does not come to its end, on a page that stays, throws at   *)
(* an event that its program cannot read, or at a message of its client's  *)
(* whose key has opened a message on this page before, that the page       *)
(* itself wrote, that its peer sealed on the other side of a reload from   *)
(* those decrypted, that is of a session other than the one the page       *)
(* holds, or that is too far ahead, too far behind or jumped over too far  *)
(* for the cache of skipped keys.  No order of posts, failure of a send or *)
(* earlier failed scan makes it miss another message of the page's own     *)
(* session.                                                                *)
(***************************************************************************)
AbortExplained ==
    [][\A c \in Client : Threw(c) => AtOther(c) \/ Undecipherable(c, hub[scan[c].pos])]_vars

\* The peer's messages up to event i were posted from the first on, in order.
PostedInOrder(i) ==
    \A k \in 1..i :
        hub[k].from = hub[i].from =>
            hub[k].msgIndex = Cardinality({j \in 1..(k - 1) : hub[j].from = hub[i].from})

MaxLog == Max({MapThenSumSet(LAMBDA w : b.send[w], Client \X Client) : b \in Bounds})

(***************************************************************************)
(* README.md, the receiver: "This is for me!" is followed by "Decrypt and  *)
(* read".  A message to c is shown by c's page as long as its user keeps   *)
(* scanning, at least when the peer's messages were posted from the first  *)
(* on, in the order they were encrypted.                                   *)
(***************************************************************************)
DecryptAndRead ==
    \A c \in Client : \A i \in 1..MaxLog :
        (i <= Len(hub) /\ hub[i].to = c /\ PostedInOrder(i))
            ~> (\E j \in 1..Len(view[c]) : view[c][j] = i)
=============================================================================
