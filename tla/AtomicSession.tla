--------------------------- MODULE AtomicSession ---------------------------
(***************************************************************************)
(* What the ratchet store promises its callers: each of them works on a    *)
(* peer's session as if it were alone.  A sender takes the next message    *)
(* index and moves the session past it in one step; a receiver moves the   *)
(* receive count in one step; no step undoes another's.                    *)
(***************************************************************************)
EXTENDS Naturals

CONSTANTS
    Peer,           \* identity keys of the peers
    Caller,         \* calls in progress
    PeerOf,         \* PeerOf[c]: the peer a call is about
    None            \* no session yet; no index taken yet

VARIABLES
    session,        \* session[p]: None or the counts of p's session
    index           \* index[c]: the message index c encrypted under, or None

vars == <<session, index>>

NewSession == [sent |-> 0, recv |-> 0]
Existing(p) == IF session[p] = None THEN NewSession ELSE session[p]

Init ==
    /\ session = [p \in Peer |-> None]
    /\ index = [c \in Caller |-> None]

\* The first sender creates the session before it encrypts.
Open(p) ==
    /\ session[p] = None
    /\ session' = [session EXCEPT ![p] = NewSession]
    /\ UNCHANGED index

Send(c) ==
    LET p == PeerOf[c]
    IN  /\ index[c] = None
        /\ index' = [index EXCEPT ![c] = Existing(p).sent]
        /\ session' = [session EXCEPT ![p] = [Existing(p) EXCEPT !.sent = @ + 1]]

Receive(p) ==
    /\ session' = [session EXCEPT ![p] = [Existing(p) EXCEPT !.recv = @ + 1]]
    /\ UNCHANGED index

Next ==
    \/ \E p \in Peer : Open(p) \/ Receive(p)
    \/ \E c \in Caller : Send(c)

Spec == Init /\ [][Next]_vars
=============================================================================
