--------------------------- MODULE GroupRegistry ---------------------------
(***************************************************************************)
(* contracts/core/GroupRegistry.sol.                                       *)
(*                                                                         *)
(* A group's members are kept in two mappings that must stay inverse to    *)
(* each other: memberIndex (commitment -> slot) and memberByIdentity (slot *)
(* -> commitment), with slot 0 standing for "not found".  The ciphertext   *)
(* of the group key that a member must fetch is in a third mapping, keyed  *)
(* by the slot.  removeMember fills the hole with the last member, so the  *)
(* three mappings change together.  One variable per field of struct       *)
(* Group; a call that reverts leaves every variable unchanged and is not   *)
(* an action.                                                              *)
(***************************************************************************)
EXTENDS Naturals

CONSTANTS
    Group,              \* bytes32 group identifiers
    Account,            \* callers
    Commitment,         \* bytes32 identity commitments, bytes32(0) included
    Root,               \* bytes32 Merkle roots, bytes32(0) included
    Ciphertext,         \* encrypted keys an admin uploads
    NoAccount,          \* address(0)
    ZeroCommitment,     \* bytes32(0) as a commitment
    ZeroRoot,           \* bytes32(0) as a root
    Empty,              \* the empty byte string a deleted slot holds
    MaxMembers,         \* bound on memberCount (2^256 - 1 in the contract)
    MaxEpoch            \* bound on epoch (2^256 - 1 in the contract)

ASSUME RegistryAssumption ==
    /\ NoAccount \notin Account
    /\ ZeroCommitment \in Commitment
    /\ ZeroRoot \in Root
    /\ Empty \notin Ciphertext
    /\ MaxMembers \in Nat
    /\ MaxEpoch \in Nat

\* Slots of a group.  Slot 0 is never assigned.
Slot == 0..MaxMembers

VARIABLES
    admin,                  \* admin[g]
    merkleRoot,             \* merkleRoot[g]
    memberCount,            \* memberCount[g]
    isPublic,               \* isPublic[g]
    encryptedGroupKey,      \* encryptedGroupKey[g]
    epoch,                  \* epoch[g]
    memberIndex,            \* memberIndex[g][c]
    memberByIdentity,       \* memberByIdentity[g][i]
    memberEncryptedKeys,    \* memberEncryptedKeys[g][i]
    accepted                \* signatures that exist: <<g, from, to>> says that
                            \* `to' signed to take g over from `from'

keyVars == <<encryptedGroupKey, epoch>>
memberVars == <<merkleRoot, memberCount, memberIndex, memberByIdentity,
                memberEncryptedKeys>>
vars == <<admin, isPublic, keyVars, memberVars, accepted>>

TypeOK ==
    /\ admin \in [Group -> Account \union {NoAccount}]
    /\ merkleRoot \in [Group -> Root]
    /\ memberCount \in [Group -> Slot]
    /\ isPublic \in [Group -> BOOLEAN]
    /\ encryptedGroupKey \in [Group -> Ciphertext \union {Empty}]
    /\ epoch \in [Group -> 0..MaxEpoch]
    /\ memberIndex \in [Group -> [Commitment -> Slot]]
    /\ memberByIdentity \in [Group -> [Slot -> Commitment]]
    /\ memberEncryptedKeys \in [Group -> [Slot -> Ciphertext \union {Empty}]]
    /\ accepted \subseteq Group \X Account \X Account

\* Contract storage before any call: every mapping holds its zero value.
Init ==
    /\ admin = [g \in Group |-> NoAccount]
    /\ merkleRoot = [g \in Group |-> ZeroRoot]
    /\ memberCount = [g \in Group |-> 0]
    /\ isPublic = [g \in Group |-> FALSE]
    /\ encryptedGroupKey = [g \in Group |-> Empty]
    /\ epoch = [g \in Group |-> 0]
    /\ memberIndex = [g \in Group |-> [c \in Commitment |-> 0]]
    /\ memberByIdentity = [g \in Group |-> [i \in Slot |-> ZeroCommitment]]
    /\ memberEncryptedKeys = [g \in Group |-> [i \in Slot |-> Empty]]
    /\ accepted = {}

-----------------------------------------------------------------------------
(* Modifiers and views.                                                    *)

\* groupExists and onlyAdmin
OnlyAdmin(g, sender) ==
    /\ admin[g] # NoAccount
    /\ sender = admin[g]

\* The commitment's slot is live and holds the commitment itself.
HoldsSlot(g, c) ==
    /\ memberIndex[g][c] <= memberCount[g]
    /\ memberByIdentity[g][memberIndex[g][c]] = c

\* Mutant: without the test for slot 0, which stands for "not found".
isMemberNoZeroTest(g, c) == HoldsSlot(g, c)

isMember(g, c) ==
    /\ memberIndex[g][c] > 0
    /\ HoldsSlot(g, c)

\* The three requires at the head of addMember.
NotAlreadyMember(g, c) ==
    /\ memberIndex[g][c] = 0 \/ memberByIdentity[g][0] = c
    /\ memberCount[g] = 0 => memberIndex[g][c] = 0
    /\ memberCount[g] # 0 /\ memberIndex[g][c] # 0 => ~HoldsSlot(g, c)

-----------------------------------------------------------------------------
(* Transactions.                                                           *)

createGroup(sender, g, public, key) ==
    /\ admin[g] = NoAccount
    /\ admin' = [admin EXCEPT ![g] = sender]
    /\ merkleRoot' = [merkleRoot EXCEPT ![g] = ZeroRoot]
    /\ memberCount' = [memberCount EXCEPT ![g] = 0]
    /\ isPublic' = [isPublic EXCEPT ![g] = public]
    /\ encryptedGroupKey' = [encryptedGroupKey EXCEPT ![g] = key]
    /\ epoch' = [epoch EXCEPT ![g] = 0]
    /\ UNCHANGED <<memberIndex, memberByIdentity, memberEncryptedKeys, accepted>>

\* The new member takes the slot after the last one.  The epoch stays.
addMember(sender, g, c, root, key) ==
    /\ OnlyAdmin(g, sender)
    /\ NotAlreadyMember(g, c)
    /\ memberCount[g] < MaxMembers
    /\ LET index == memberCount[g] + 1
       IN  /\ memberIndex' = [memberIndex EXCEPT ![g][c] = index]
           /\ memberByIdentity' = [memberByIdentity EXCEPT ![g][index] = c]
           /\ memberEncryptedKeys' = [memberEncryptedKeys EXCEPT ![g][index] = key]
           /\ memberCount' = [memberCount EXCEPT ![g] = index]
    /\ merkleRoot' = [merkleRoot EXCEPT ![g] = root]
    /\ UNCHANGED <<admin, isPublic, keyVars, accepted>>

\* Mutant: the moved member's index is not updated.
SwapKeepsIndex(g, c, index) ==
    LET last == memberCount[g]
    IN  /\ memberByIdentity' =
               [memberByIdentity EXCEPT ![g][index] = memberByIdentity[g][last],
                                        ![g][last] = ZeroCommitment]
        /\ memberIndex' = [memberIndex EXCEPT ![g][c] = 0]
        /\ memberEncryptedKeys' =
               [memberEncryptedKeys EXCEPT
                   ![g][index] = memberEncryptedKeys[g][last],
                   ![g][last] = Empty]

\* Mutant: the moved member's key ciphertext stays in the slot that is cleared.
SwapLosesKey(g, c, index) ==
    LET last       == memberCount[g]
        lastMember == memberByIdentity[g][last]
    IN  /\ memberByIdentity' =
               [memberByIdentity EXCEPT ![g][index] = lastMember,
                                        ![g][last] = ZeroCommitment]
        /\ memberIndex' =
               [memberIndex EXCEPT ![g][lastMember] = index, ![g][c] = 0]
        /\ memberEncryptedKeys' =
               [memberEncryptedKeys EXCEPT ![g][last] = Empty]

\* Move the last member into slot `index', then clear the last slot and c.
\* For the last member itself the move is a no-op.
SwapWithLast(g, c, index) ==
    LET last       == memberCount[g]
        lastMember == memberByIdentity[g][last]
    IN  /\ memberByIdentity' =
               [memberByIdentity EXCEPT ![g][index] = lastMember,
                                        ![g][last] = ZeroCommitment]
        /\ memberIndex' =
               [memberIndex EXCEPT ![g][lastMember] = index, ![g][c] = 0]
        /\ memberEncryptedKeys' =
               [memberEncryptedKeys EXCEPT
                   ![g][index] = memberEncryptedKeys[g][last],
                   ![g][last] = Empty]

removeMember(sender, g, c, root, key) ==
    /\ OnlyAdmin(g, sender)
    /\ isMember(g, c)
    /\ epoch[g] < MaxEpoch
    /\ SwapWithLast(g, c, memberIndex[g][c])
    /\ memberCount' = [memberCount EXCEPT ![g] = @ - 1]
    /\ merkleRoot' = [merkleRoot EXCEPT ![g] = root]
    /\ encryptedGroupKey' = [encryptedGroupKey EXCEPT ![g] = key]
    /\ epoch' = [epoch EXCEPT ![g] = @ + 1]
    /\ UNCHANGED <<admin, isPublic, accepted>>

rotateGroupKey(sender, g, key) ==
    /\ OnlyAdmin(g, sender)
    /\ epoch[g] < MaxEpoch
    /\ encryptedGroupKey' = [encryptedGroupKey EXCEPT ![g] = key]
    /\ epoch' = [epoch EXCEPT ![g] = @ + 1]
    /\ UNCHANGED <<admin, isPublic, memberVars, accepted>>

\* The acceptance names the group and both parties but no nonce, so one
\* signature serves every later handover between the same two accounts.
transferAdmin(sender, g, newAdmin) ==
    /\ OnlyAdmin(g, sender)
    /\ newAdmin # sender
    /\ <<g, sender, newAdmin>> \in accepted
    /\ admin' = [admin EXCEPT ![g] = newAdmin]
    /\ UNCHANGED <<isPublic, keyVars, memberVars, accepted>>

\* Off chain: an account signs that it would take the group over.
SignAcceptance(g, from, to) ==
    /\ accepted' = accepted \union {<<g, from, to>>}
    /\ UNCHANGED <<admin, isPublic, keyVars, memberVars>>

Next ==
    \E g \in Group, sender \in Account :
        \/ \E public \in BOOLEAN, key \in Ciphertext : createGroup(sender, g, public, key)
        \/ \E c \in Commitment, root \in Root, key \in Ciphertext :
               addMember(sender, g, c, root, key) \/ removeMember(sender, g, c, root, key)
        \/ \E key \in Ciphertext : rotateGroupKey(sender, g, key)
        \/ \E other \in Account :
               transferAdmin(sender, g, other) \/ SignAcceptance(g, other, sender)

Spec == Init /\ [][Next]_vars

-----------------------------------------------------------------------------
(* Properties.                                                             *)

IndexHasSlot(g) ==
    \A c \in Commitment : memberIndex[g][c] # 0 => HoldsSlot(g, c)

SlotHasIndex(g) ==
    \A i \in 1..memberCount[g] : memberIndex[g][memberByIdentity[g][i]] = i

FreeSlotsCleared(g) ==
    \A i \in Slot :
        (i = 0 \/ i > memberCount[g]) =>
            /\ memberByIdentity[g][i] = ZeroCommitment
            /\ memberEncryptedKeys[g][i] = Empty

(***************************************************************************)
(* The two member mappings of a group are inverse to each other on the     *)
(* slots 1..memberCount, a commitment outside the group has slot 0, and    *)
(* every other slot (slot 0 and those freed by removeMember) is cleared in *)
(* memberByIdentity and memberEncryptedKeys.  A removal from the middle    *)
(* that forgot one of the swapped entries would break it only several      *)
(* calls later, when the moved member is itself removed or added again.    *)
(***************************************************************************)
IndexBijection ==
    \A g \in Group :
        /\ IndexHasSlot(g)
        /\ SlotHasIndex(g)
        /\ FreeSlotsCleared(g)

\* The ciphertext that c fetches, as the roster sees it.
RosterEntry(g, c) ==
    IF isMember(g, c) THEN <<memberEncryptedKeys[g][memberIndex[g][c]]>> ELSE <<>>

Roster == INSTANCE GroupRoster WITH
    Ciphertext <- {<<k>> : k \in Ciphertext},
    NotMember <- <<>>,
    owner <- admin,
    roster <- [g \in Group |-> [c \in Commitment |-> RosterEntry(g, c)]],
    period <- epoch

(***************************************************************************)
(* The contract implements the roster: adding or removing one member never *)
(* changes which ciphertext any other member fetches, whatever slots they  *)
(* are moved to, and a member's departure always starts a new epoch.       *)
(***************************************************************************)
ImplementsRoster == Roster!Spec
=============================================================================
