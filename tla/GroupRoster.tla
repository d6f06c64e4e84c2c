---------------------------- MODULE GroupRoster ----------------------------
(***************************************************************************)
(* What contracts/core/GroupRegistry.sol promises about a group, with no   *)
(* arrays and no indices: a group has at most one admin, a roster that     *)
(* gives each member the key ciphertext the admin uploaded for that member *)
(* when it was added, and an epoch that grows whenever the group key is    *)
(* replaced.  GroupRegistry implements this module.                        *)
(***************************************************************************)
EXTENDS Naturals

CONSTANTS
    Group,          \* group identifiers
    Account,        \* accounts that may administer a group
    Commitment,     \* identity commitments
    Ciphertext,     \* encrypted group keys, as the admin uploads them
    NoAccount,      \* admin of a group that was not created
    NotMember       \* roster entry of a commitment outside the group

VARIABLES
    owner,          \* owner[g]: the admin of g
    roster,         \* roster[g][c]: c's own key ciphertext, or NotMember
    period          \* period[g]: the key epoch of g

vars == <<owner, roster, period>>

Init ==
    /\ owner = [g \in Group |-> NoAccount]
    /\ roster = [g \in Group |-> [c \in Commitment |-> NotMember]]
    /\ period = [g \in Group |-> 0]

Create(g, a) ==
    /\ owner[g] = NoAccount
    /\ owner' = [owner EXCEPT ![g] = a]
    /\ UNCHANGED <<roster, period>>

\* A member joins with its own ciphertext; nobody else's entry changes.
Join(g, c, k) ==
    /\ owner[g] # NoAccount
    /\ roster[g][c] = NotMember
    /\ roster' = [roster EXCEPT ![g][c] = k]
    /\ UNCHANGED <<owner, period>>

\* A member leaves: the epoch moves on and every other member keeps its entry.
Leave(g, c) ==
    /\ roster[g][c] # NotMember
    /\ roster' = [roster EXCEPT ![g][c] = NotMember]
    /\ period' = [period EXCEPT ![g] = @ + 1]
    /\ UNCHANGED owner

Rekey(g) ==
    /\ owner[g] # NoAccount
    /\ period' = [period EXCEPT ![g] = @ + 1]
    /\ UNCHANGED <<owner, roster>>

HandOver(g, a) ==
    /\ owner[g] \notin {NoAccount, a}
    /\ owner' = [owner EXCEPT ![g] = a]
    /\ UNCHANGED <<roster, period>>

Next ==
    \E g \in Group :
        \/ \E a \in Account : Create(g, a) \/ HandOver(g, a)
        \/ \E c \in Commitment : Leave(g, c) \/ \E k \in Ciphertext : Join(g, c, k)
        \/ Rekey(g)

Spec == Init /\ [][Next]_vars
=============================================================================
