--------------------------- MODULE RatchetSession --------------------------
(***************************************************************************)
(* Two ratchets of one session (src/ratchet.ts) and a network between them *)
(* that delays, reorders, repeats and loses messages.  A party is also     *)
(* handed messages its peer sealed in other sessions (after a reload the   *)
(* peer starts a new one, and both share one peer id): ratchetDecrypt must *)
(* reject them, but it changes the state it was given on the way.          *)
(***************************************************************************)
EXTENDS Ratchet

CONSTANTS
    MaxSend,        \* MaxSend[p]: bound on the messages p seals
    MaxForeign,     \* bound on the foreign messages handed to a party
    maxAge          \* argument of pruneSkippedKeys (default 100)

ASSUME SessionAssumption ==
    /\ MaxSend \in [{"initiator", "responder"} -> Nat]
    /\ MaxForeign \in Nat
    /\ maxAge \in Nat \ {0}

Party == {"initiator", "responder"}
Other(p) == IF p = "initiator" THEN "responder" ELSE "initiator"

VARIABLES
    state,      \* state[p]: p's ratchet state
    sent,       \* sent[p]: the messages p has sealed
    read,       \* read[p]: the messages p has opened
    foreign,    \* foreign[p]: how many foreign messages p was handed
    full        \* full[p]: p had more keys to cache than it may keep

vars == <<state, sent, read, foreign, full>>

\* The session key and the peer's other session.
SessionKey == "session"
ForeignKey == "other session"

Init ==
    /\ state = [p \in Party |-> initRatchet(SessionKey, p, p = "initiator")]
    /\ sent = [p \in Party |-> {}]
    /\ read = [p \in Party |-> {}]
    /\ foreign = [p \in Party |-> 0]
    /\ full = [p \in Party |-> FALSE]

Encrypt(p) ==
    /\ state[p].sendCount < MaxSend[p]
    /\ sent' = [sent EXCEPT ![p] = @ \union {Seal(state[p])}]
    /\ state' = [state EXCEPT ![p] = Sealed(@)]
    /\ UNCHANGED <<read, foreign, full>>

\* Reading m from the chain asks more of the cache than it holds.
Overflows(p, m) ==
    /\ ~IsCached(state[p], m)
    /\ Len(state[p].skippedKeys) + m.msgIndex - state[p].recvCount
           > Min({MAX_SKIP, MAX_SKIPPED_KEYS})

\* Any message the peer has sealed arrives, again or for the first time.
Receive(p, m) ==
    /\ m \in sent[Other(p)]
    /\ \/ /\ Opens(state[p], m, p)
          /\ state' = [state EXCEPT ![p] = Opened(@, m, p)]
          /\ read' = [read EXCEPT ![p] = @ \union {m}]
          /\ full' = [full EXCEPT ![p] = @ \/ Overflows(p, m)]
       \/ /\ ~Opens(state[p], m, p)
          /\ state' = [state EXCEPT ![p] = Left(@, m, p)]
          /\ UNCHANGED <<read, full>>
    /\ UNCHANGED <<sent, foreign>>

ForeignMessages ==
    {[dhPub |-> "other pair", msgIndex |-> i, prevChainLen |-> 0,
      key |-> Advance(Chain(ForeignKey, 1), i)] : i \in 0..1}

ReceiveForeign(p, m) ==
    /\ foreign[p] < MaxForeign
    /\ m \in ForeignMessages
    /\ ~Opens(state[p], m, p)
    /\ state' = [state EXCEPT ![p] = Left(@, m, p)]
    /\ foreign' = [foreign EXCEPT ![p] = @ + 1]
    /\ UNCHANGED <<sent, read, full>>

Prune(p) ==
    /\ Len(state[p].skippedKeys) > maxAge
    /\ state' = [state EXCEPT ![p] = Pruned(@, maxAge)]
    /\ full' = [full EXCEPT ![p] = TRUE]
    /\ UNCHANGED <<sent, read, foreign>>

Next ==
    \E p \in Party :
        \/ Encrypt(p)
        \/ \E m \in sent[Other(p)] : Receive(p, m)
        \/ \E m \in ForeignMessages : ReceiveForeign(p, m)
        \/ Prune(p)

Spec == Init /\ [][Next]_vars

-----------------------------------------------------------------------------
(* Properties.                                                             *)

Key == [root : {SessionKey, ForeignKey}, way : {1, 2}, n : Nat]

TypeOK ==
    \A p \in Party :
        /\ state[p].sendCount = state[p].sendChainKey.n
        /\ state[p].recvCount = state[p].recvChainKey.n
        /\ state[p].sendCount \in 0..MaxSend[p]
        /\ state[p].theirDhPub = NoKey
        /\ \A i \in 1..Len(state[p].skippedKeys) :
               /\ state[p].skippedKeys[i].key \in Key
               /\ state[p].skippedKeys[i].msgIndex = state[p].skippedKeys[i].key.n
        /\ Len(state[p].skippedKeys) <= MAX_SKIP
        /\ full[p] \in BOOLEAN
        /\ foreign[p] \in 0..MaxForeign

(***************************************************************************)
(* No message opens twice, in whatever order messages come, whatever was   *)
(* skipped, pruned or rejected in between.                                 *)
(***************************************************************************)
NoReplay ==
    \A p \in Party : \A m \in read[p] : ~Opens(state[p], m, p)

(***************************************************************************)
(* Every message of the session that was not read yet still opens, early   *)
(* or late, unless it is more than MAX_SKIP ahead or there were once more  *)
(* keys to cache than the cache may keep.  In particular a message that is *)
(* rejected takes nothing away from the ones that follow.                  *)
(***************************************************************************)
UnreadStillOpens ==
    \A p \in Party : \A m \in sent[Other(p)] \ read[p] :
        \/ full[p]
        \/ m.msgIndex - state[p].recvCount > MAX_SKIP
        \/ Opens(state[p], m, p)

(***************************************************************************)
(* From where a message key can still be had, in a state somebody else     *)
(* comes by: by moving a chain on, or out of the cache.                    *)
(***************************************************************************)
FromChain(s, key) ==
    \E chain \in {s.sendChainKey, s.recvChainKey} :
        chain.root = key.root /\ chain.way = key.way /\ chain.n <= key.n

CachedFor(s, key) ==
    {s.skippedKeys[i].dhPub : i \in {j \in 1..Len(s.skippedKeys) : s.skippedKeys[j].key = key}}

(***************************************************************************)
(* The key of a message that was read is behind both chains and out of the *)
(* cache, whatever was skipped, rejected or pruned.  This is not forward   *)
(* secrecy, whatever README.md:248 says: the root key, which initRatchet   *)
(* keeps (ratchet.ts:87) and which no DH step replaces, leads to every key *)
(* of the session.  Exempt are the keys that a rejected message of another *)
(* session made the party cache under that message's key pair: nothing but *)
(* the limit of the cache removes those.                                   *)
(***************************************************************************)
OnlyRootLeadsBack ==
    \A p \in Party : \A m \in read[p] :
        /\ ~FromChain(state[p], m.key)
        /\ CachedFor(state[p], m.key) \subseteq {"other pair"}
=============================================================================
