------------------------ MODULE GroupRegistryProofs ------------------------
(***************************************************************************)
(* Proofs about contracts/core/GroupRegistry.sol for every set of groups,  *)
(* accounts and commitments.                                               *)
(***************************************************************************)
EXTENDS GroupRegistry, TLAPS

-----------------------------------------------------------------------------
(* Type correctness.                                                       *)

\* Two slots of a group written, one after the other.
LEMMA TwoUpdates ==
    ASSUME NEW I, NEW S, NEW T, NEW f \in [I -> [S -> T]], NEW h, NEW g \in I,
           NEW i \in S, NEW j \in S, NEW x \in T, NEW y \in T,
           h = [f EXCEPT ![g][i] = x, ![g][j] = y]
    PROVE  h \in [I -> [S -> T]]
<1> DEFINE row == [[f[g] EXCEPT ![i] = x] EXCEPT ![j] = y]
<1>1. row \in [S -> T]
  OBVIOUS
<1>2. h = [f EXCEPT ![g] = row]
  OBVIOUS
<1> HIDE DEF row
<1> QED
  BY <1>1, <1>2

\* The zero storage of a deployed contract is of the right types.
LEMMA InitType == Init => TypeOK
BY RegistryAssumption DEF Init, TypeOK, Slot

\* Every transaction keeps the types; no count underflows or passes its bound.
LEMMA NextType == TypeOK /\ [Next]_vars => TypeOK'
<1> SUFFICES ASSUME TypeOK, [Next]_vars PROVE TypeOK'
  OBVIOUS
<1> USE RegistryAssumption
<1>1. ASSUME NEW g \in Group, NEW sender \in Account,
             NEW public \in BOOLEAN, NEW key \in Ciphertext,
             createGroup(sender, g, public, key)
      PROVE  TypeOK'
  <2>1. isPublic' \in [Group -> BOOLEAN]
    BY <1>1, Zenon DEF createGroup, TypeOK
  <2>2. 0 \in Slot /\ 0 \in 0..MaxEpoch
    BY DEF Slot
  <2> QED
    BY <1>1, <2>1, <2>2 DEF createGroup, TypeOK
<1>2. ASSUME NEW g \in Group, NEW sender \in Account, NEW c \in Commitment,
             NEW root \in Root, NEW key \in Ciphertext,
             addMember(sender, g, c, root, key)
      PROVE  TypeOK'
  <2>1. memberCount[g] + 1 \in Slot
    BY <1>2 DEF addMember, TypeOK, Slot
  <2> QED
    BY <1>2, <2>1 DEF addMember, TypeOK, keyVars
<1>3. ASSUME NEW g \in Group, NEW sender \in Account, NEW c \in Commitment,
             NEW root \in Root, NEW key \in Ciphertext,
             removeMember(sender, g, c, root, key)
      PROVE  TypeOK'
  <2>1. /\ memberIndex[g][c] \in Slot
        /\ memberCount[g] \in Slot
        /\ memberCount[g] - 1 \in Slot
        /\ 0 \in Slot
    <3>1. memberIndex[g][c] \in Slot /\ memberCount[g] \in Slot
      BY DEF TypeOK
    <3>2. memberIndex[g][c] > 0 /\ memberIndex[g][c] <= memberCount[g]
      BY <1>3 DEF removeMember, isMember, HoldsSlot
    <3> QED
      BY <3>1, <3>2 DEF Slot
  <2>2. epoch[g] + 1 \in 0..MaxEpoch
    BY <1>3 DEF removeMember, TypeOK
  <2>3. memberByIdentity[g][memberCount[g]] \in Commitment
    BY <2>1 DEF TypeOK
  <2>t. /\ memberIndex \in [Group -> [Commitment -> Slot]]
        /\ memberByIdentity \in [Group -> [Slot -> Commitment]]
        /\ memberEncryptedKeys \in [Group -> [Slot -> Ciphertext \union {Empty}]]
        /\ memberEncryptedKeys[g][memberCount[g]] \in Ciphertext \union {Empty}
        /\ ZeroCommitment \in Commitment
    BY <2>1, <1>3, RegistryAssumption DEF TypeOK
  <2>4. memberIndex' \in [Group -> [Commitment -> Slot]]
    BY <1>3, <2>1, <2>3, <2>t, TwoUpdates DEF removeMember, SwapWithLast
  <2>5. memberByIdentity' \in [Group -> [Slot -> Commitment]]
    BY <1>3, <2>1, <2>3, <2>t, TwoUpdates DEF removeMember, SwapWithLast
  <2>6. memberEncryptedKeys' \in [Group -> [Slot -> Ciphertext \union {Empty}]]
    BY <1>3, <2>1, <2>t, TwoUpdates DEF removeMember, SwapWithLast
  <2> QED
    BY <1>3, <2>1, <2>2, <2>4, <2>5, <2>6 DEF removeMember, TypeOK
<1>4. ASSUME NEW g \in Group, NEW sender \in Account, NEW key \in Ciphertext,
             rotateGroupKey(sender, g, key)
      PROVE  TypeOK'
  <2>1. epoch[g] + 1 \in 0..MaxEpoch
    BY <1>4 DEF rotateGroupKey, TypeOK
  <2> QED
    BY <1>4, <2>1 DEF rotateGroupKey, TypeOK, memberVars
<1>5. ASSUME NEW g \in Group, NEW sender \in Account, NEW newAdmin \in Account,
             transferAdmin(sender, g, newAdmin)
      PROVE  TypeOK'
  BY <1>5 DEF transferAdmin, TypeOK, memberVars, keyVars
<1>6. ASSUME NEW g \in Group, NEW from \in Account, NEW to \in Account,
             SignAcceptance(g, from, to)
      PROVE  TypeOK'
  BY <1>6 DEF SignAcceptance, TypeOK, memberVars, keyVars
<1>7. CASE UNCHANGED vars
  BY <1>7 DEF vars, memberVars, keyVars, TypeOK
<1> QED
  BY <1>1, <1>2, <1>3, <1>4, <1>5, <1>6, <1>7 DEF Next

\* Every reachable storage of the contract has the types of its declarations;
\* in particular memberCount never underflows in removeMember.
THEOREM TypeCorrect == Spec => []TypeOK
<1>1. Init => TypeOK
  BY InitType
<1>2. TypeOK /\ [Next]_vars => TypeOK'
  BY NextType
<1> QED
  BY <1>1, <1>2, PTL DEF Spec

-----------------------------------------------------------------------------
(* The member mappings are inverse to each other.                          *)

\* A commitment the guards of addMember let through has slot 0: the clause
\* about memberByIdentity[0] never lets a listed one pass.
LEMMA AddedHadNoSlot ==
    ASSUME TypeOK, IndexBijection, NEW g \in Group, NEW c \in Commitment,
           NotAlreadyMember(g, c)
    PROVE  memberIndex[g][c] = 0
BY RegistryAssumption DEF NotAlreadyMember, IndexBijection, IndexHasSlot

\* addMember keeps the two member mappings inverse to each other.
LEMMA AddKeepsBijection ==
    ASSUME TypeOK, IndexBijection, NEW g \in Group, NEW sender \in Account,
           NEW c \in Commitment, NEW root \in Root, NEW key \in Ciphertext,
           addMember(sender, g, c, root, key)
    PROVE  IndexBijection'
<1> DEFINE n == memberCount[g]
           idx == memberIndex[g]
           by == memberByIdentity[g]
<1>1. /\ n \in Nat /\ n + 1 \in Slot /\ Slot \subseteq Nat
      /\ idx \in [Commitment -> Slot]
      /\ by \in [Slot -> Commitment]
  <2>1. n \in Slot /\ idx \in [Commitment -> Slot] /\ by \in [Slot -> Commitment]
    BY DEF TypeOK
  <2>2. n < MaxMembers /\ MaxMembers \in Nat
    BY RegistryAssumption DEF addMember
  <2>3. n \in 0..MaxMembers
    BY <2>1 DEF Slot
  <2>4. n \in Nat /\ n + 1 \in 0..MaxMembers /\ 0..MaxMembers \subseteq Nat
    BY <2>2, <2>3
  <2> QED
    BY <2>1, <2>4 DEF Slot
<1>2. idx[c] = 0
  BY AddedHadNoSlot DEF addMember
<1>3. SUFFICES ASSUME NEW h \in Group
               PROVE  IndexHasSlot(h)' /\ SlotHasIndex(h)' /\ FreeSlotsCleared(h)'
  BY DEF IndexBijection
<1>4. CASE h # g
  BY <1>4 DEF addMember, TypeOK, IndexBijection, IndexHasSlot, HoldsSlot,
              SlotHasIndex, FreeSlotsCleared
<1>5. CASE h = g
  <2>1. /\ memberCount'[g] = n + 1
        /\ \A d \in Commitment : memberIndex'[g][d] = IF d = c THEN n + 1 ELSE idx[d]
        /\ \A i \in Slot : memberByIdentity'[g][i] = IF i = n + 1 THEN c ELSE by[i]
        /\ \A i \in Slot : i # n + 1 =>
               memberEncryptedKeys'[g][i] = memberEncryptedKeys[g][i]
    BY <1>1 DEF addMember, TypeOK
  <2>2. IndexHasSlot(g) /\ SlotHasIndex(g) /\ FreeSlotsCleared(g)
    BY DEF IndexBijection
  <2>3. IndexHasSlot(g)'
    <3>1. SUFFICES ASSUME NEW d \in Commitment, memberIndex'[g][d] # 0
                   PROVE  /\ memberIndex'[g][d] <= n + 1
                          /\ memberByIdentity'[g][memberIndex'[g][d]] = d
      BY <2>1 DEF IndexHasSlot, HoldsSlot
    <3>2. CASE d = c
      BY <1>1, <2>1, <3>2
    <3>3. CASE d # c
      <4>1. memberIndex'[g][d] = idx[d] /\ idx[d] <= n /\ by[idx[d]] = d
        BY <2>1, <2>2, <3>1, <3>3 DEF IndexHasSlot, HoldsSlot
      <4>2. idx[d] \in Slot /\ idx[d] \in Nat
        BY <1>1
      <4> QED
        BY <1>1, <2>1, <4>1, <4>2
    <3> QED
      BY <3>2, <3>3
  <2>4. SlotHasIndex(g)'
    <3>1. SUFFICES ASSUME NEW i \in 1..(n + 1)
                   PROVE  memberIndex'[g][memberByIdentity'[g][i]] = i
      BY <2>1 DEF SlotHasIndex
    <3>2. i \in Slot
      BY <1>1, RegistryAssumption DEF Slot
    <3>3. CASE i = n + 1
      BY <2>1, <3>2, <3>3
    <3>4. CASE i # n + 1
      <4>1. i \in 1..n
        BY <1>1, <3>4
      <4>2. memberByIdentity'[g][i] = by[i] /\ idx[by[i]] = i /\ by[i] \in Commitment
        BY <1>1, <2>1, <2>2, <3>2, <3>4, <4>1 DEF SlotHasIndex
      <4>3. by[i] # c
        BY <1>2, <4>1, <4>2
      <4> QED
        BY <2>1, <4>2, <4>3
    <3> QED
      BY <3>3, <3>4
  <2>5. FreeSlotsCleared(g)'
    <3>1. SUFFICES ASSUME NEW i \in Slot, i = 0 \/ i > n + 1
                   PROVE  /\ memberByIdentity'[g][i] = ZeroCommitment
                          /\ memberEncryptedKeys'[g][i] = Empty
      BY <2>1 DEF FreeSlotsCleared
    <3>2. i # n + 1 /\ (i = 0 \/ i > n)
      BY <1>1, <3>1
    <3> QED
      BY <2>1, <2>2, <3>2 DEF FreeSlotsCleared
  <2> QED
    BY <1>5, <2>3, <2>4, <2>5
<1> QED
  BY <1>4, <1>5

\* removeMember's swap with the last member keeps them inverse, and clears the
\* slot it frees.
LEMMA RemoveKeepsBijection ==
    ASSUME TypeOK, IndexBijection, NEW g \in Group, NEW sender \in Account,
           NEW c \in Commitment, NEW root \in Root, NEW key \in Ciphertext,
           removeMember(sender, g, c, root, key)
    PROVE  IndexBijection'
<1> DEFINE n == memberCount[g]
           idx == memberIndex[g]
           by == memberByIdentity[g]
           keys == memberEncryptedKeys[g]
           m == memberIndex[g][c]
           last == memberByIdentity[g][memberCount[g]]
<1>1. /\ n \in Nat /\ n \in Slot /\ m \in 1..n /\ m \in Slot
      /\ Slot \subseteq Nat
      /\ idx \in [Commitment -> Slot]
      /\ by \in [Slot -> Commitment]
      /\ last \in Commitment
      /\ keys \in [Slot -> Ciphertext \union {Empty}]
  <2>1. idx \in [Commitment -> Slot] /\ n \in Slot /\ by \in [Slot -> Commitment]
        /\ keys \in [Slot -> Ciphertext \union {Empty}]
    BY DEF TypeOK
  <2>2. m > 0 /\ m <= n
    BY DEF removeMember, isMember, HoldsSlot
  <2>3. n \in 0..MaxMembers /\ m \in 0..MaxMembers /\ MaxMembers \in Nat
    BY <2>1, RegistryAssumption DEF Slot
  <2>4. n \in Nat /\ m \in 1..n /\ 0..MaxMembers \subseteq Nat
    BY <2>2, <2>3
  <2>5. last \in Commitment
    BY <2>1
  <2> QED
    BY <2>1, <2>3, <2>4, <2>5 DEF Slot
<1>2. IndexHasSlot(g) /\ SlotHasIndex(g) /\ FreeSlotsCleared(g)
  BY DEF IndexBijection
<1>3. by[m] = c /\ idx[last] = n
  BY <1>1, <1>2 DEF removeMember, isMember, HoldsSlot, SlotHasIndex
<1>4. SUFFICES ASSUME NEW h \in Group
               PROVE  IndexHasSlot(h)' /\ SlotHasIndex(h)' /\ FreeSlotsCleared(h)'
  BY DEF IndexBijection
<1>5. CASE h # g
  BY <1>5 DEF removeMember, SwapWithLast, TypeOK, IndexBijection, IndexHasSlot,
              HoldsSlot, SlotHasIndex, FreeSlotsCleared
<1>6. CASE h = g
  <2>1. /\ memberCount'[g] = n - 1
        /\ \A d \in Commitment :
               memberIndex'[g][d] = IF d = c THEN 0 ELSE IF d = last THEN m ELSE idx[d]
        /\ \A i \in Slot :
               memberByIdentity'[g][i] =
                   IF i = n THEN ZeroCommitment ELSE IF i = m THEN last ELSE by[i]
        /\ \A i \in Slot :
               memberEncryptedKeys'[g][i] =
                   IF i = n THEN Empty ELSE IF i = m THEN keys[n] ELSE keys[i]
    BY <1>1 DEF removeMember, SwapWithLast, TypeOK
  <2>2. IndexHasSlot(g)'
    <3>1. SUFFICES ASSUME NEW d \in Commitment, memberIndex'[g][d] # 0
                   PROVE  /\ memberIndex'[g][d] <= n - 1
                          /\ memberByIdentity'[g][memberIndex'[g][d]] = d
      BY <2>1 DEF IndexHasSlot, HoldsSlot
    <3>2. d # c
      BY <1>1, <2>1, <3>1
    <3>3. CASE d = last
      <4>1. memberIndex'[g][d] = m
        BY <2>1, <3>2, <3>3
      <4>2. m # n
        BY <1>3, <3>2, <3>3
      <4> QED
        BY <1>1, <2>1, <3>3, <4>1, <4>2
    <3>4. CASE d # last
      <4>1. /\ memberIndex'[g][d] = idx[d]
            /\ idx[d] # 0 /\ idx[d] <= n /\ by[idx[d]] = d
        BY <1>1, <1>2, <2>1, <3>1, <3>2, <3>4 DEF IndexHasSlot, HoldsSlot
      <4>2. idx[d] # n /\ idx[d] # m /\ idx[d] \in Slot /\ idx[d] \in Nat
        BY <1>1, <1>3, <3>2, <3>4, <4>1
      <4> QED
        BY <1>1, <2>1, <4>1, <4>2
    <3> QED
      BY <3>3, <3>4
  <2>3. SlotHasIndex(g)'
    <3>1. SUFFICES ASSUME NEW i \in 1..(n - 1)
                   PROVE  memberIndex'[g][memberByIdentity'[g][i]] = i
      BY <2>1 DEF SlotHasIndex
    <3>2. i \in Slot /\ i # n /\ i \in 1..n
      <4>1. n \in 0..MaxMembers /\ MaxMembers \in Nat
        BY <1>1, RegistryAssumption DEF Slot
      <4> QED
        BY <4>1 DEF Slot
    <3>3. CASE i = m
      BY <1>1, <1>3, <2>1, <3>2, <3>3
    <3>4. CASE i # m
      <4>1. memberByIdentity'[g][i] = by[i] /\ idx[by[i]] = i
        BY <1>1, <1>2, <2>1, <3>2, <3>4 DEF SlotHasIndex
      <4>2. by[i] # c /\ by[i] # last /\ by[i] \in Commitment
        BY <1>1, <1>3, <3>2, <3>4, <4>1
      <4> QED
        BY <1>1, <2>1, <4>1, <4>2
    <3> QED
      BY <3>3, <3>4
  <2>4. FreeSlotsCleared(g)'
    <3>1. SUFFICES ASSUME NEW i \in Slot, i = 0 \/ i > n - 1
                   PROVE  /\ memberByIdentity'[g][i] = ZeroCommitment
                          /\ memberEncryptedKeys'[g][i] = Empty
      BY <2>1 DEF FreeSlotsCleared
    <3>2. CASE i = n
      BY <2>1, <3>2
    <3>3. CASE i # n
      <4>1. i \in Nat
        BY <1>1
      <4>2. i # m /\ (i = 0 \/ i > n)
        BY <1>1, <3>1, <3>3, <4>1
      <4> QED
        BY <1>2, <2>1, <3>3, <4>2 DEF FreeSlotsCleared
    <3> QED
      BY <3>2, <3>3
  <2> QED
    BY <1>6, <2>2, <2>3, <2>4
<1> QED
  BY <1>5, <1>6

\* Nothing is recorded for a group before createGroup, so the zeros that
\* createGroup writes change nothing.
UncreatedIsBlank ==
    \A g \in Group : admin[g] = NoAccount => memberCount[g] = 0 /\ epoch[g] = 0

\* The inductive invariant.
RegistryInv == TypeOK /\ IndexBijection /\ UncreatedIsBlank

\* The inductive invariant holds in the zero storage.
LEMMA InitInv == Init => RegistryInv
<1> SUFFICES ASSUME Init PROVE IndexBijection /\ UncreatedIsBlank
  BY InitType DEF RegistryInv
<1>1. IndexBijection
  <2> SUFFICES ASSUME NEW g \in Group
               PROVE  IndexHasSlot(g) /\ SlotHasIndex(g) /\ FreeSlotsCleared(g)
    BY DEF IndexBijection
  <2>1. IndexHasSlot(g)
    BY DEF Init, IndexHasSlot
  <2>2. SlotHasIndex(g)
    BY DEF Init, SlotHasIndex
  <2>3. FreeSlotsCleared(g)
    BY DEF Init, FreeSlotsCleared
  <2> QED
    BY <2>1, <2>2, <2>3
<1>2. UncreatedIsBlank
  BY DEF Init, UncreatedIsBlank
<1> QED
  BY <1>1, <1>2

\* Steps that leave the member mappings alone keep both parts.
LEMMA SameMembersInv ==
    ASSUME RegistryInv, UNCHANGED <<memberCount, memberIndex, memberByIdentity,
                                    memberEncryptedKeys>>,
           \A g \in Group : admin'[g] = NoAccount =>
                               admin[g] = NoAccount /\ epoch'[g] = epoch[g]
    PROVE  IndexBijection' /\ UncreatedIsBlank'
<1>1. IndexBijection'
  BY DEF RegistryInv, IndexBijection, IndexHasSlot, HoldsSlot, SlotHasIndex,
         FreeSlotsCleared
<1>2. UncreatedIsBlank'
  BY DEF RegistryInv, UncreatedIsBlank
<1> QED
  BY <1>1, <1>2

\* Every transaction keeps the inductive invariant.
LEMMA NextInv ==
    ASSUME RegistryInv, [Next]_vars
    PROVE  RegistryInv'
<1> USE DEF RegistryInv
<1> SUFFICES IndexBijection' /\ UncreatedIsBlank'
  BY NextType
<1>1. ASSUME NEW g \in Group, NEW sender \in Account,
             NEW public \in BOOLEAN, NEW key \in Ciphertext,
             createGroup(sender, g, public, key)
      PROVE  IndexBijection' /\ UncreatedIsBlank'
  <2>1. memberCount[g] = 0 /\ epoch[g] = 0
    BY <1>1 DEF createGroup, UncreatedIsBlank
  <2>2. memberCount' = memberCount /\ epoch' = epoch
    BY <1>1, <2>1 DEF createGroup, TypeOK
  <2>3. \A h \in Group : admin'[h] = NoAccount => admin[h] = NoAccount
    BY <1>1, RegistryAssumption DEF createGroup, TypeOK
  <2> QED
    BY <1>1, <2>2, <2>3, SameMembersInv DEF createGroup
<1>2. ASSUME NEW g \in Group, NEW sender \in Account, NEW c \in Commitment,
             NEW root \in Root, NEW key \in Ciphertext,
             addMember(sender, g, c, root, key)
      PROVE  IndexBijection' /\ UncreatedIsBlank'
  <2>1. IndexBijection'
    BY <1>2, AddKeepsBijection
  <2>2. UncreatedIsBlank'
    BY <1>2 DEF addMember, OnlyAdmin, UncreatedIsBlank, TypeOK, keyVars
  <2> QED
    BY <2>1, <2>2
<1>3. ASSUME NEW g \in Group, NEW sender \in Account, NEW c \in Commitment,
             NEW root \in Root, NEW key \in Ciphertext,
             removeMember(sender, g, c, root, key)
      PROVE  IndexBijection' /\ UncreatedIsBlank'
  <2>1. IndexBijection'
    BY <1>3, RemoveKeepsBijection
  <2>2. UncreatedIsBlank'
    BY <1>3 DEF removeMember, OnlyAdmin, UncreatedIsBlank, TypeOK
  <2> QED
    BY <2>1, <2>2
<1>4. ASSUME NEW g \in Group, NEW sender \in Account, NEW key \in Ciphertext,
             rotateGroupKey(sender, g, key)
      PROVE  IndexBijection' /\ UncreatedIsBlank'
  <2>1. \A h \in Group : admin'[h] = NoAccount =>
                             admin[h] = NoAccount /\ epoch'[h] = epoch[h]
    BY <1>4 DEF rotateGroupKey, OnlyAdmin, TypeOK
  <2> QED
    BY <1>4, <2>1, SameMembersInv DEF rotateGroupKey, memberVars
<1>5. ASSUME NEW g \in Group, NEW sender \in Account, NEW newAdmin \in Account,
             transferAdmin(sender, g, newAdmin)
      PROVE  IndexBijection' /\ UncreatedIsBlank'
  <2>1. \A h \in Group : admin'[h] = NoAccount =>
                             admin[h] = NoAccount /\ epoch'[h] = epoch[h]
    BY <1>5, RegistryAssumption DEF transferAdmin, keyVars, TypeOK
  <2> QED
    BY <1>5, <2>1, SameMembersInv DEF transferAdmin, memberVars
<1>6. ASSUME NEW g \in Group, NEW from \in Account, NEW to \in Account,
             SignAcceptance(g, from, to)
      PROVE  IndexBijection' /\ UncreatedIsBlank'
  BY <1>6, SameMembersInv DEF SignAcceptance, memberVars, keyVars
<1>7. CASE UNCHANGED vars
  BY <1>7, SameMembersInv DEF vars, memberVars, keyVars
<1> QED
  BY <1>1, <1>2, <1>3, <1>4, <1>5, <1>6, <1>7 DEF Next

\* The inductive invariant holds after every sequence of transactions.
LEMMA RegistryInvariant == Spec => []RegistryInv
<1>1. Init => RegistryInv
  BY InitInv
<1>2. RegistryInv /\ [Next]_vars => RegistryInv'
  BY NextInv
<1> QED
  BY <1>1, <1>2, PTL DEF Spec

\* However members are added and removed, memberIndex and memberByIdentity
\* stay inverse to each other and freed slots stay cleared.
THEOREM BijectionHolds == Spec => []IndexBijection
<1>1. RegistryInv => IndexBijection
  BY DEF RegistryInv
<1> QED
  BY <1>1, RegistryInvariant, PTL

-----------------------------------------------------------------------------
(* The contract implements GroupRoster.                                    *)

\* isMember, whose three conditions guard against stale slots, is true
\* exactly of the commitments with a slot.
LEMMA MemberHasSlot ==
    ASSUME RegistryInv, NEW g \in Group, NEW c \in Commitment
    PROVE  isMember(g, c) <=> memberIndex[g][c] # 0
<1>1. memberIndex[g][c] \in Nat
  BY RegistryAssumption DEF RegistryInv, TypeOK, Slot
<1> QED
  BY <1>1 DEF RegistryInv, IndexBijection, IndexHasSlot, isMember

\* The same of the state after a step.
LEMMA MemberHasSlotNext ==
    ASSUME RegistryInv', NEW g \in Group, NEW c \in Commitment
    PROVE  isMember(g, c)' <=> memberIndex'[g][c] # 0
<1>1. memberIndex'[g][c] \in Nat
  BY RegistryAssumption DEF RegistryInv, TypeOK, Slot
<1> QED
  BY <1>1 DEF RegistryInv, IndexBijection, IndexHasSlot, isMember

\* A deployed contract is an empty roster.
LEMMA InitRoster == Init => Roster!Init
BY DEF Init, Roster!Init, RosterEntry, isMember

\* addMember changes the roster entry of the new member and no other.
LEMMA AddIsJoin ==
    ASSUME RegistryInv, RegistryInv', NEW g \in Group, NEW sender \in Account,
           NEW c \in Commitment, NEW root \in Root, NEW key \in Ciphertext,
           addMember(sender, g, c, root, key)
    PROVE  Roster!Join(g, c, <<key>>)
<1> DEFINE n == memberCount[g]
<1>1. memberIndex[g][c] = 0
  BY AddedHadNoSlot DEF addMember, RegistryInv
<1>2. n + 1 \in Slot /\ n \in Nat /\ n + 1 # 0
  <2>1. n \in Slot /\ n < MaxMembers /\ MaxMembers \in Nat
    BY RegistryAssumption DEF addMember, RegistryInv, TypeOK
  <2> QED
    BY <2>1 DEF Slot
<1>3. /\ \A h \in Group, d \in Commitment :
             memberIndex'[h][d] = IF h = g /\ d = c THEN n + 1 ELSE memberIndex[h][d]
      /\ \A h \in Group, i \in Slot : (h # g \/ i # n + 1) =>
             memberEncryptedKeys'[h][i] = memberEncryptedKeys[h][i]
      /\ memberEncryptedKeys'[g][n + 1] = key
  <2>1. /\ memberIndex \in [Group -> [Commitment -> Slot]]
        /\ memberIndex' = [memberIndex EXCEPT ![g][c] = n + 1]
    BY DEF addMember, RegistryInv, TypeOK
  <2>2. /\ memberEncryptedKeys \in [Group -> [Slot -> Ciphertext \union {Empty}]]
        /\ memberEncryptedKeys' = [memberEncryptedKeys EXCEPT ![g][n + 1] = key]
    BY DEF addMember, RegistryInv, TypeOK
  <2> QED
    BY <1>2, <2>1, <2>2
<1>4. \A h \in Group, d \in Commitment :
         RosterEntry(h, d)' = IF h = g /\ d = c THEN <<key>> ELSE RosterEntry(h, d)
  <2> SUFFICES ASSUME NEW h \in Group, NEW d \in Commitment
               PROVE  RosterEntry(h, d)' =
                          IF h = g /\ d = c THEN <<key>> ELSE RosterEntry(h, d)
    OBVIOUS
  <2>1. /\ isMember(h, d) <=> memberIndex[h][d] # 0
        /\ isMember(h, d)' <=> memberIndex'[h][d] # 0
    BY MemberHasSlot, MemberHasSlotNext
  <2>2. CASE h = g /\ d = c
    BY <1>2, <1>3, <2>1, <2>2 DEF RosterEntry
  <2>3. CASE ~(h = g /\ d = c)
    <3>1. memberIndex'[h][d] = memberIndex[h][d]
      BY <1>3, <2>3
    <3>2. memberIndex[h][d] # 0 /\ h = g => memberIndex[h][d] <= n
      BY DEF RegistryInv, IndexBijection, IndexHasSlot, HoldsSlot
    <3>3. memberIndex[h][d] \in Slot /\ memberIndex[h][d] \in Nat
      BY RegistryAssumption DEF RegistryInv, TypeOK, Slot
    <3>4. memberIndex[h][d] # 0 => (h # g \/ memberIndex[h][d] # n + 1)
      BY <1>2, <3>2, <3>3
    <3>5. memberIndex[h][d] # 0 =>
             memberEncryptedKeys'[h][memberIndex[h][d]]
                 = memberEncryptedKeys[h][memberIndex[h][d]]
      BY <1>3, <3>3, <3>4
    <3> QED
      BY <2>1, <2>3, <3>1, <3>5 DEF RosterEntry
  <2> QED
    BY <2>2, <2>3
<1>5. RosterEntry(g, c) = <<>>
  BY <1>1, MemberHasSlot DEF RosterEntry
<1> QED
  BY <1>4, <1>5 DEF Roster!Join, addMember, OnlyAdmin, keyVars

\* removeMember changes the roster entry of the member that leaves and no
\* other: the moved member keeps its ciphertext in its new slot.
LEMMA RemoveIsLeave ==
    ASSUME RegistryInv, RegistryInv', NEW g \in Group, NEW sender \in Account,
           NEW c \in Commitment, NEW root \in Root, NEW key \in Ciphertext,
           removeMember(sender, g, c, root, key)
    PROVE  Roster!Leave(g, c)
<1> DEFINE n == memberCount[g]
           m == memberIndex[g][c]
           last == memberByIdentity[g][memberCount[g]]
<1>1. /\ n \in Nat /\ n \in Slot /\ m \in 1..n /\ m \in Slot
      /\ last \in Commitment /\ Slot \subseteq Nat
  <2>1. m \in Slot /\ n \in Slot
    BY DEF RegistryInv, TypeOK
  <2>2. m > 0 /\ m <= n
    BY DEF removeMember, isMember, HoldsSlot
  <2>3. last \in Commitment
    BY <2>1 DEF RegistryInv, TypeOK
  <2> QED
    BY <2>1, <2>2, <2>3, RegistryAssumption DEF Slot
<1>2. memberByIdentity[g][m] = c /\ memberIndex[g][last] = n
  BY <1>1 DEF removeMember, isMember, HoldsSlot, RegistryInv, IndexBijection,
              SlotHasIndex
<1>3. /\ \A h \in Group, d \in Commitment :
             memberIndex'[h][d] = IF h # g THEN memberIndex[h][d]
                                  ELSE IF d = c THEN 0
                                  ELSE IF d = last THEN m
                                  ELSE memberIndex[h][d]
      /\ \A h \in Group, i \in Slot :
             memberEncryptedKeys'[h][i] =
                 IF h # g THEN memberEncryptedKeys[h][i]
                 ELSE IF i = n THEN Empty
                 ELSE IF i = m THEN memberEncryptedKeys[g][n]
                 ELSE memberEncryptedKeys[h][i]
  BY <1>1 DEF removeMember, SwapWithLast, RegistryInv, TypeOK
<1>4. \A h \in Group, d \in Commitment :
         RosterEntry(h, d)' = IF h = g /\ d = c THEN <<>> ELSE RosterEntry(h, d)
  <2> SUFFICES ASSUME NEW h \in Group, NEW d \in Commitment
               PROVE  RosterEntry(h, d)' =
                          IF h = g /\ d = c THEN <<>> ELSE RosterEntry(h, d)
    OBVIOUS
  <2>1. /\ isMember(h, d) <=> memberIndex[h][d] # 0
        /\ isMember(h, d)' <=> memberIndex'[h][d] # 0
    BY MemberHasSlot, MemberHasSlotNext
  <2>2. memberIndex[h][d] \in Slot /\ memberIndex[h][d] \in Nat
    BY RegistryAssumption DEF RegistryInv, TypeOK, Slot
  <2>3. CASE h = g /\ d = c
    BY <1>3, <2>1, <2>3 DEF RosterEntry
  <2>4. CASE h # g
    BY <1>3, <2>1, <2>2, <2>4 DEF RosterEntry
  <2>5. CASE h = g /\ d # c /\ d = last
    <3>1. memberIndex'[h][d] = m /\ memberIndex[h][d] = n /\ m # n
      BY <1>2, <1>3, <2>5
    <3>2. memberEncryptedKeys'[h][m] = memberEncryptedKeys[h][n]
      BY <1>1, <1>3, <2>5, <3>1
    <3> QED
      BY <1>1, <2>1, <2>5, <3>1, <3>2 DEF RosterEntry
  <2>6. CASE h = g /\ d # c /\ d # last
    <3>1. memberIndex'[h][d] = memberIndex[h][d]
      BY <1>3, <2>6
    <3>2. memberIndex[h][d] # 0 => memberByIdentity[h][memberIndex[h][d]] = d
      BY DEF RegistryInv, IndexBijection, IndexHasSlot, HoldsSlot
    <3>3. memberIndex[h][d] # 0 => memberIndex[h][d] # n /\ memberIndex[h][d] # m
      BY <1>2, <2>6, <3>2
    <3>4. memberIndex[h][d] # 0 =>
             memberEncryptedKeys'[h][memberIndex[h][d]]
                 = memberEncryptedKeys[h][memberIndex[h][d]]
      BY <1>3, <2>2, <2>6, <3>3
    <3> QED
      BY <2>1, <2>6, <3>1, <3>4 DEF RosterEntry
  <2> QED
    BY <2>3, <2>4, <2>5, <2>6
<1>5. RosterEntry(g, c) # <<>>
  BY DEF removeMember, RosterEntry
<1> QED
  BY <1>4, <1>5 DEF Roster!Leave, removeMember

\* Steps that leave the member mappings alone leave the roster alone.
LEMMA SameRoster ==
    ASSUME UNCHANGED <<memberCount, memberIndex, memberByIdentity, memberEncryptedKeys>>
    PROVE  \A g \in Group, c \in Commitment : RosterEntry(g, c)' = RosterEntry(g, c)
BY DEF RosterEntry, isMember, HoldsSlot

\* Every transaction is a step of the roster, or none.
LEMMA NextRoster ==
    ASSUME RegistryInv, RegistryInv', [Next]_vars
    PROVE  [Roster!Next]_Roster!vars
<1>1. ASSUME NEW g \in Group, NEW sender \in Account,
             NEW public \in BOOLEAN, NEW key \in Ciphertext,
             createGroup(sender, g, public, key)
      PROVE  Roster!Create(g, sender)
  <2>1. memberCount' = memberCount /\ epoch' = epoch
    BY <1>1 DEF createGroup, RegistryInv, UncreatedIsBlank, TypeOK
  <2> QED
    BY <1>1, <2>1, SameRoster DEF createGroup, Roster!Create
<1>2. ASSUME NEW g \in Group, NEW sender \in Account, NEW key \in Ciphertext,
             rotateGroupKey(sender, g, key)
      PROVE  Roster!Rekey(g)
  BY <1>2, SameRoster DEF rotateGroupKey, OnlyAdmin, memberVars, Roster!Rekey
<1>3. ASSUME NEW g \in Group, NEW sender \in Account, NEW newAdmin \in Account,
             transferAdmin(sender, g, newAdmin)
      PROVE  Roster!HandOver(g, newAdmin)
  BY <1>3, SameRoster DEF transferAdmin, OnlyAdmin, memberVars, keyVars, Roster!HandOver
<1>4. ASSUME NEW g \in Group, NEW from \in Account, NEW to \in Account,
             SignAcceptance(g, from, to)
      PROVE  UNCHANGED Roster!vars
  BY <1>4, SameRoster DEF SignAcceptance, memberVars, keyVars, Roster!vars
<1>5. CASE UNCHANGED vars
  BY <1>5, SameRoster DEF vars, memberVars, keyVars, Roster!vars
<1>6. CASE Next
  <2>1. PICK g \in Group, sender \in Account :
          \/ \E public \in BOOLEAN, key \in Ciphertext :
                 createGroup(sender, g, public, key)
          \/ \E c \in Commitment, root \in Root, key \in Ciphertext :
                 \/ addMember(sender, g, c, root, key)
                 \/ removeMember(sender, g, c, root, key)
          \/ \E key \in Ciphertext : rotateGroupKey(sender, g, key)
          \/ \E other \in Account :
                 transferAdmin(sender, g, other) \/ SignAcceptance(g, other, sender)
    BY <1>6 DEF Next
  <2>2. CASE \E public \in BOOLEAN, key \in Ciphertext :
                 createGroup(sender, g, public, key)
    BY <1>1, <2>2 DEF Roster!Next
  <2>3. CASE \E c \in Commitment, root \in Root, key \in Ciphertext :
                 addMember(sender, g, c, root, key)
    <3>1. PICK c \in Commitment, root \in Root, key \in Ciphertext :
                 addMember(sender, g, c, root, key)
      BY <2>3
    <3>2. Roster!Join(g, c, <<key>>) /\ <<key>> \in {<<k>> : k \in Ciphertext}
      BY <3>1, AddIsJoin
    <3> QED
      BY <3>2 DEF Roster!Next
  <2>4. CASE \E c \in Commitment, root \in Root, key \in Ciphertext :
                 removeMember(sender, g, c, root, key)
    BY <2>4, RemoveIsLeave DEF Roster!Next
  <2>5. CASE \E key \in Ciphertext : rotateGroupKey(sender, g, key)
    BY <1>2, <2>5 DEF Roster!Next
  <2>6. CASE \E other \in Account : transferAdmin(sender, g, other)
    BY <1>3, <2>6 DEF Roster!Next
  <2>7. CASE \E other \in Account : SignAcceptance(g, other, sender)
    BY <1>4, <2>7
  <2> QED
    BY <2>1, <2>2, <2>3, <2>4, <2>5, <2>6, <2>7
<1> QED
  BY <1>5, <1>6

\* Every behaviour of the contract is a behaviour of the roster: a member's
\* key ciphertext follows it through every swap, and a departure always moves
\* the epoch.
THEOREM RosterRefinement == Spec => ImplementsRoster
<1>1. Init => Roster!Init
  BY InitRoster
<1>2. RegistryInv /\ RegistryInv' /\ [Next]_vars => [Roster!Next]_Roster!vars
  BY NextRoster
<1> QED
  BY <1>1, <1>2, RegistryInvariant, PTL DEF Spec, ImplementsRoster, Roster!Spec
=============================================================================
