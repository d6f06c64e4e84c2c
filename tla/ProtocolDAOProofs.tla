------------------------- MODULE ProtocolDAOProofs -------------------------
(***************************************************************************)
(* For any people, operations, delays and bounds: the threshold stays      *)
(* within the list of signers, what runs was agreed on, and repetitions    *)
(* are a timelock apart.                                                   *)
(***************************************************************************)
EXTENDS ProtocolDAO, FiniteSetTheorems, WellFoundedInduction, TLAPS

-----------------------------------------------------------------------------
(* Lists of distinct people                                                *)

LEMMA MembersCounted ==
    ASSUME NEW list \in Seq(Person), Distinct(list)
    PROVE  IsFiniteSet(Members(list)) /\ Cardinality(Members(list)) = Len(list)
<1>1. Len(list) \in Nat /\ list \in [1..Len(list) -> Members(list)]
  BY DEF Members
<1>2. list \in Bijection(1..Len(list), Members(list))
  BY <1>1 DEF Distinct, Members, Bijection, Injection, Surjection, IsInjective
<1>3. ExistsBijection(1..Len(list), Members(list))
  BY <1>2 DEF ExistsBijection
<1>4. IsFiniteSet(1..Len(list))
  BY <1>1, FS_Interval
<1> QED
  BY <1>1, <1>3, <1>4, FS_Bijection, FS_CountingElements

LEMMA AppendNew ==
    ASSUME NEW list \in Seq(Person), NEW a \in Person
    PROVE  /\ Append(list, a) \in Seq(Person)
           /\ Len(Append(list, a)) = Len(list) + 1
           /\ Members(list) \union {a} \subseteq Members(Append(list, a))
<1> DEFINE n == Len(list)
           l == Append(list, a)
<1>1. /\ n \in Nat /\ l \in Seq(Person) /\ Len(l) = n + 1
      /\ \A i \in 1..n : l[i] = list[i]
      /\ l[n + 1] = a
  OBVIOUS
<1>2. \A i \in 1..n : i \in 1..(n + 1)
  BY <1>1
<1>3. n + 1 \in 1..(n + 1)
  BY <1>1
<1> HIDE DEF l
<1> QED
  BY <1>1, <1>2, <1>3 DEF Members, l

LEMMA LeastNumber ==
    ASSUME NEW S \in SUBSET Nat, S # {}
    PROVE  \E x \in S : \A y \in S : x <= y
<1> DEFINE R == {pair \in Nat \X Nat : pair[1] < pair[2]}
<1>1. IsWellFoundedOn(R, Nat)
  BY NatLessThanWellFounded DEF OpToRel
<1>2. \A x, y \in Nat : <<y, x>> \in R <=> y < x
  OBVIOUS
<1> HIDE DEF R
<1>3. PICK x \in S : \A y \in S : ~(<<y, x>> \in R)
  BY <1>1, WFMin
<1>4. ASSUME NEW y \in S PROVE x <= y
  <2>1. x \in Nat /\ y \in Nat /\ ~(y < x)
    BY <1>2, <1>3
  <2> QED
    BY <2>1
<1> QED
  BY <1>4

LEMMA LeastPlace ==
    ASSUME NEW list \in Seq(Person), NEW a \in Members(list)
    PROVE  \E j \in 1..Len(list) : list[j] = a /\ \A k \in 1..(j - 1) : list[k] # a
<1> DEFINE S == {j \in 1..Len(list) : list[j] = a}
<1>1. S \subseteq Nat /\ S # {}
  BY DEF Members
<1>2. PICK j \in S : \A i \in S : j <= i
  <2> HIDE DEF S
  <2>1. \E j \in S : \A i \in S : j <= i
    BY <1>1, LeastNumber
  <2> QED
    BY <2>1
<1>3. j \in 1..Len(list) /\ list[j] = a /\ Len(list) \in Nat
  OBVIOUS
<1>4. ASSUME NEW k \in 1..(j - 1) PROVE list[k] # a
  <2>1. k \in 1..Len(list) /\ ~(j <= k)
    BY <1>3
  <2> QED
    BY <1>2, <2>1
<1> QED
  BY <1>3, <1>4

\* removeSigner puts the last of the list in the place of the one removed, and
\* shortens it, whichever of them it was: nobody else is lost.
LEMMA RemovedKeeps ==
    ASSUME NEW list \in Seq(Person), NEW a \in Members(list)
    PROVE  /\ Removed(list, a) \in Seq(Person)
           /\ Members(list) \ {a} \subseteq Members(Removed(list, a))
           /\ Len(Removed(list, a)) = Len(list) - 1
<1> DEFINE n == Len(list)
           m == CHOOSE j \in 1..n : list[j] = a /\ \A k \in 1..(j - 1) : list[k] # a
           r == Removed(list, a)
<1>1. n \in Nat /\ m \in 1..n /\ list[m] = a /\ \A i \in 1..n : list[i] \in Person
  <2>1. \E j \in 1..n : list[j] = a /\ \A k \in 1..(j - 1) : list[k] # a
    BY LeastPlace
  <2>2. m \in 1..n /\ list[m] = a
    BY <2>1
  <2> QED
    BY <2>2
<1>2. /\ r \in Seq(Person)
      /\ Len(r) = n - 1
      /\ \A i \in 1..(n - 1) : r[i] = IF i = m THEN list[n] ELSE list[i]
  <2> DEFINE e == [list EXCEPT ![m] = list[n]]
  <2>1. /\ e \in Seq(Person) /\ Len(e) = n
        /\ \A i \in 1..n : e[i] = IF i = m THEN list[n] ELSE list[i]
    BY <1>1
  <2>2. r = SubSeq(e, 1, n - 1)
    BY DEF Removed
  <2> HIDE DEF e, r, m, n
  <2> QED
    BY <1>1, <2>1, <2>2
<1> HIDE DEF r, m
<1>3. ASSUME NEW x \in Members(list) \ {a} PROVE x \in Members(r)
  <2>1. PICK i \in 1..n : x = list[i] /\ i # m
    BY <1>1, <1>3 DEF Members
  <2>2. CASE i # n
    BY <1>1, <1>2, <2>1, <2>2 DEF Members
  <2>3. CASE i = n
    <3>1. m \in 1..(n - 1) /\ r[m] = x
      BY <1>1, <1>2, <2>1, <2>3
    <3> QED
      BY <1>2, <3>1 DEF Members
  <2> QED
    BY <2>2, <2>3
<1> QED
  BY <1>2, <1>3 DEF r

-----------------------------------------------------------------------------
(* Signers                                                                 *)

\* Whoever has a flag is in the list, which is longer than there are flags by
\* what the constructor's list repeats.
SignerInv ==
    /\ signers \in Seq(Person)
    /\ isSigner \subseteq Members(signers)
    /\ Len(signers) = Cardinality(isSigner) + Repeated
    /\ requiredSignatures \in 1..Len(signers)

LEMMA Flags ==
    ASSUME SignerInv
    PROVE  isSigner \subseteq Person /\ IsFiniteSet(isSigner) /\ Cardinality(isSigner) \in Nat
<1>1. isSigner \subseteq Person
  BY DEF SignerInv, Members
<1> QED
  BY <1>1, DAOAssumption, FS_Subset, FS_CardinalityType

LEMMA RepeatedIsNumber == Repeated \in Int
<1>1. Members(InitialSigners) \subseteq Person /\ Len(InitialSigners) \in Nat
  BY DAOAssumption DEF Members
<1>2. Cardinality(Members(InitialSigners)) \in Nat
  BY <1>1, DAOAssumption, FS_Subset, FS_CardinalityType
<1> QED
  BY <1>1, <1>2 DEF Repeated

LEMMA InitSigners == Init => SignerInv
<1> SUFFICES ASSUME Init PROVE SignerInv
  OBVIOUS
<1>1. Members(InitialSigners) \subseteq Person /\ Len(InitialSigners) \in Nat
  BY DAOAssumption DEF Members
<1>2. Cardinality(Members(InitialSigners)) \in Nat
  BY <1>1, DAOAssumption, FS_Subset, FS_CardinalityType
<1>3. signers = InitialSigners /\ isSigner = Members(InitialSigners)
      /\ requiredSignatures = InitialRequired
  BY DEF Init
<1>4. Len(signers) = Cardinality(isSigner) + Repeated
  BY <1>1, <1>2, <1>3 DEF Repeated
<1> QED
  BY <1>3, <1>4, DAOAssumption DEF SignerInv

LEMMA SignerStep == SignerInv /\ [Next]_vars => SignerInv'
<1> SUFFICES ASSUME SignerInv, [Next]_vars PROVE SignerInv'
  OBVIOUS
<1> USE DEF SignerInv
<1>0. IsFiniteSet(isSigner) /\ Cardinality(isSigner) \in Nat /\ Repeated \in Int
      /\ Len(signers) \in Nat
  BY Flags, RepeatedIsNumber
<1>1. ASSUME NEW a \in Person, addSigner(a) PROVE SignerInv'
  <2>1. /\ a \notin isSigner /\ isSigner' = isSigner \union {a}
        /\ signers' = Append(signers, a) /\ UNCHANGED requiredSignatures
    BY <1>1 DEF addSigner
  <2>2. signers' \in Seq(Person) /\ isSigner' \subseteq Members(signers')
        /\ Len(signers') = Len(signers) + 1
    BY <2>1, AppendNew
  <2>3. Cardinality(isSigner') = Cardinality(isSigner) + 1
    BY <1>0, <2>1, FS_AddElement
  <2>4. Members(signers)' = Members(signers')
    BY DEF Members
  <2> QED
    BY <1>0, <2>1, <2>2, <2>3, <2>4
<1>2. ASSUME NEW a \in Person, removeSigner(a) PROVE SignerInv'
  <2>1. a \in isSigner /\ signers' = Removed(signers, a) /\ isSigner' = isSigner \ {a}
        /\ Len(signers) > requiredSignatures /\ UNCHANGED requiredSignatures
    BY <1>2 DEF removeSigner
  <2>2. signers' \in Seq(Person) /\ isSigner' \subseteq Members(signers')
        /\ Len(signers') = Len(signers) - 1
    BY <2>1, RemovedKeeps
  <2>3. Cardinality(isSigner') = Cardinality(isSigner) - 1
    BY <1>0, <2>1, FS_RemoveElement
  <2>4. Members(signers)' = Members(signers')
    BY DEF Members
  <2> QED
    BY <1>0, <2>1, <2>2, <2>3, <2>4
<1>3. ASSUME NEW n \in 1..Len(signers), setRequiredSignatures(n) PROVE SignerInv'
  BY <1>3 DEF setRequiredSignatures, Members
<1>4. CASE UNCHANGED signerVars
  BY <1>4 DEF signerVars, Members
<1>5. ASSUME NEW a \in Person, NEW o \in Operation, createProposal(a, o) PROVE UNCHANGED signerVars
  BY <1>5 DEF createProposal
<1>6. ASSUME NEW i \in DOMAIN proposals,
             \/ \E a \in Voter, support \in BOOLEAN : castVote(i, a, support)
             \/ queueProposal(i)
             \/ \E signatures \in SignatureLists : executeProposal(i, signatures)
             \/ cancelProposal(i)
      PROVE  UNCHANGED signerVars
  BY <1>6 DEF castVote, queueProposal, executeProposal, cancelProposal
<1>7. ASSUME NEW d \in Duration, NEW signatures \in SignatureLists, emergencyPause(d, signatures)
      PROVE  UNCHANGED signerVars
  BY <1>7 DEF emergencyPause
<1>8. CASE unpause \/ Tick
  BY <1>4, <1>8 DEF unpause, Tick
<1>9. CASE UNCHANGED vars
  BY <1>4, <1>9 DEF vars
<1> QED
  BY <1>1, <1>2, <1>3, <1>4, <1>5, <1>6, <1>7, <1>8, <1>9 DEF Next

\* However signers come and go, the list covers the flags, is longer than they
\* are many by what the constructor's list repeats, and holds the threshold:
\* for a list of different people the required signatures can always be had.
THEOREM ThresholdHolds == Spec => []ThresholdWithinList
<1>1. SignerInv => ThresholdWithinList
  BY DEF SignerInv, ThresholdWithinList
<1> QED
  BY <1>1, InitSigners, SignerStep, PTL DEF Spec

-----------------------------------------------------------------------------
(* Types and votes                                                         *)

\* The counters of a proposal agree with its mappings of votes.
VotesCounted(p) ==
    /\ IsFiniteSet(p.hasVoted)
    /\ p.votedFor \subseteq p.hasVoted
    /\ p.forVotes = Cardinality(p.votedFor)
    /\ p.againstVotes = Cardinality(p.hasVoted \ p.votedFor)

ProposalInv ==
    /\ proposals \in Seq(Proposal)
    /\ \A i \in DOMAIN proposals : VotesCounted(proposals[i])

LEMMA VotedCounts ==
    ASSUME NEW p \in Proposal, VotesCounted(p), NEW a \in Person, a \notin p.hasVoted,
           NEW support \in BOOLEAN
    PROVE  Voted(p, a, support) \in Proposal /\ VotesCounted(Voted(p, a, support))
<1> DEFINE q == Voted(p, a, support)
<1>1. /\ q \in Proposal
      /\ q.hasVoted = p.hasVoted \union {a}
      /\ q.votedFor = IF support THEN p.votedFor \union {a} ELSE p.votedFor
      /\ q.forVotes = IF support THEN p.forVotes + 1 ELSE p.forVotes
      /\ q.againstVotes = IF support THEN p.againstVotes ELSE p.againstVotes + 1
  <2> DEFINE st == IF p.state = "Pending" THEN "Active" ELSE p.state
             vf == IF support THEN p.votedFor \union {a} ELSE p.votedFor
             fv == IF support THEN p.forVotes + 1 ELSE p.forVotes
             av == IF support THEN p.againstVotes ELSE p.againstVotes + 1
             hv == p.hasVoted \union {a}
  <2>1. st \in ProposalState /\ vf \in SUBSET Person /\ fv \in Nat /\ av \in Nat
        /\ hv \in SUBSET Person
    BY DEF Proposal, ProposalState
  <2>2. q = [p EXCEPT !.state = st, !.hasVoted = hv, !.votedFor = vf, !.forVotes = fv,
                      !.againstVotes = av]
    BY DEF Voted
  <2> HIDE DEF st, vf, fv, av, hv, q
  <2>3. q \in Proposal /\ q.hasVoted = hv /\ q.votedFor = vf /\ q.forVotes = fv
        /\ q.againstVotes = av
    BY <2>1, <2>2 DEF Proposal
  <2> QED
    BY <2>3 DEF vf, fv, av, hv
<1> HIDE DEF q
<1>2. IsFiniteSet(q.hasVoted) /\ q.votedFor \subseteq q.hasVoted
  BY <1>1, FS_AddElement DEF VotesCounted
<1>3. IsFiniteSet(p.votedFor) /\ IsFiniteSet(p.hasVoted \ p.votedFor)
  BY FS_Subset, FS_Difference DEF VotesCounted
<1>4. CASE support
  <2>1. q.hasVoted \ q.votedFor = p.hasVoted \ p.votedFor
    BY <1>1, <1>4
  <2>2. Cardinality(q.votedFor) = Cardinality(p.votedFor) + 1
    <3>1. q.votedFor = p.votedFor \union {a} /\ a \notin p.votedFor
      BY <1>1, <1>4 DEF VotesCounted
    <3> QED
      BY <3>1, <1>3, FS_AddElement
  <2> QED
    BY <1>1, <1>2, <1>4, <2>1, <2>2 DEF VotesCounted, q
<1>5. CASE ~support
  <2>1. q.hasVoted \ q.votedFor = (p.hasVoted \ p.votedFor) \union {a}
    BY <1>1, <1>5 DEF VotesCounted
  <2>2. Cardinality(q.hasVoted \ q.votedFor) = Cardinality(p.hasVoted \ p.votedFor) + 1
    BY <1>3, <2>1, FS_AddElement
  <2> QED
    BY <1>1, <1>2, <1>5, <2>2 DEF VotesCounted, q
<1> QED
  BY <1>4, <1>5

\* A change of one proposal that keeps its votes.
LEMMA OneProposal ==
    ASSUME ProposalInv, NEW i \in DOMAIN proposals, NEW q \in Proposal, VotesCounted(q),
           proposals' = [proposals EXCEPT ![i] = q]
    PROVE  ProposalInv' /\ DOMAIN proposals' = DOMAIN proposals
<1>1. proposals' \in Seq(Proposal) /\ DOMAIN proposals' = DOMAIN proposals
  BY DEF ProposalInv
<1> QED
  BY <1>1 DEF ProposalInv

LEMMA StateSet ==
    ASSUME ProposalInv, NEW i \in DOMAIN proposals, NEW s \in ProposalState,
           proposals' = [proposals EXCEPT ![i].state = s]
    PROVE  ProposalInv' /\ DOMAIN proposals' = DOMAIN proposals
<1> DEFINE q == [proposals[i] EXCEPT !.state = s]
<1>1. proposals[i] \in Proposal /\ VotesCounted(proposals[i])
  BY DEF ProposalInv
<1>2. /\ q \in Proposal
      /\ q.hasVoted = proposals[i].hasVoted /\ q.votedFor = proposals[i].votedFor
      /\ q.forVotes = proposals[i].forVotes /\ q.againstVotes = proposals[i].againstVotes
  BY <1>1 DEF Proposal
<1>3. VotesCounted(q)
  BY <1>1, <1>2 DEF VotesCounted
<1>4. proposals' = [proposals EXCEPT ![i] = q]
  OBVIOUS
<1> QED
  BY <1>2, <1>3, <1>4, OneProposal

\* What can be handed in as signatures.
LEMMA SignaturesAreLists ==
    ASSUME NEW signatures \in SignatureLists
    PROVE  signatures \in Seq(Person)
<1>1. Cardinality(Person) \in Nat
  BY DAOAssumption, FS_CardinalityType
<1> QED
  BY <1>1 DEF SignatureLists

-----------------------------------------------------------------------------
(* The type invariant                                                      *)

RestTyped ==
    /\ timelocked \in [Operation -> [readyTime : Nat, executed : BOOLEAN]]
    /\ paused \in BOOLEAN
    /\ pauseExpiry \in Nat
    /\ timestamp \in 0..MaxTime
    /\ calls \in 0..MaxCalls
    /\ runs \in Seq(Run)
    /\ \A i \in DOMAIN runs : runs[i].proposal \in DOMAIN proposals

TypeInv == SignerInv /\ ProposalInv /\ RestTyped

LEMMA Numbers ==
    /\ votingDelay \in Nat /\ votingPeriod \in Nat /\ timelockDelay \in Nat
    /\ MaxTime \in Nat /\ MaxCalls \in Nat /\ Duration \subseteq Nat
BY DAOAssumption

LEMMA InitTypeInv == Init => TypeInv
<1> SUFFICES ASSUME Init PROVE TypeInv
  OBVIOUS
<1>1. ProposalInv
  BY DEF Init, ProposalInv
<1>2. RestTyped
  <2>1. runs \in Seq(Run) /\ \A i \in DOMAIN runs : runs[i].proposal \in DOMAIN proposals
    BY DEF Init
  <2>2. timelocked \in [Operation -> [readyTime : Nat, executed : BOOLEAN]]
    BY DEF Init
  <2>3. paused \in BOOLEAN
    BY DEF Init
  <2>4. pauseExpiry \in Nat /\ timestamp \in 0..MaxTime /\ calls \in 0..MaxCalls
    BY Numbers DEF Init
  <2> QED
    BY <2>1, <2>2, <2>3, <2>4 DEF RestTyped
<1> QED
  BY <1>1, <1>2, InitSigners DEF TypeInv

LEMMA CreateStep ==
    ASSUME TypeInv, NEW a \in Person, NEW o \in Operation, createProposal(a, o)
    PROVE  ProposalInv' /\ DOMAIN proposals \subseteq DOMAIN proposals'
<1> DEFINE q == [operation |-> o, voteStart |-> timestamp + votingDelay, state |-> "Pending",
                 hasVoted |-> {}, votedFor |-> {}, forVotes |-> 0, againstVotes |-> 0]
           n == Len(proposals)
<1>1. proposals \in Seq(Proposal) /\ \A i \in DOMAIN proposals : VotesCounted(proposals[i])
  BY DEF TypeInv, ProposalInv
<1>2. q \in Proposal
  BY Numbers DEF TypeInv, RestTyped, Proposal, ProposalState
<1>3. VotesCounted(q)
  BY FS_EmptySet DEF VotesCounted
<1>4. proposals' = Append(proposals, q)
  BY DEF createProposal
<1> HIDE DEF q
<1>5. /\ proposals' \in Seq(Proposal)
      /\ DOMAIN proposals' = 1..(n + 1) /\ DOMAIN proposals = 1..n /\ n \in Nat
      /\ \A i \in 1..n : proposals'[i] = proposals[i]
      /\ proposals'[n + 1] = q
  BY <1>1, <1>2, <1>4
<1>6. 1..(n + 1) = 1..n \union {n + 1}
  BY <1>5
<1>7. \A i \in DOMAIN proposals' : VotesCounted(proposals'[i])
  BY <1>1, <1>3, <1>5, <1>6
<1> QED
  BY <1>5, <1>7 DEF ProposalInv

LEMMA VoteStep ==
    ASSUME TypeInv, NEW i \in DOMAIN proposals, NEW a \in Voter, NEW support \in BOOLEAN,
           castVote(i, a, support)
    PROVE  /\ ProposalInv'
           /\ DOMAIN proposals' = DOMAIN proposals
           /\ proposals' = [proposals EXCEPT ![i] = Voted(proposals[i], a, support)]
<1>1. a \in Person /\ a \notin proposals[i].hasVoted
  BY DAOAssumption DEF castVote
<1>2. proposals[i] \in Proposal /\ VotesCounted(proposals[i]) /\ ProposalInv
  BY DEF TypeInv, ProposalInv
<1>3. proposals' = [proposals EXCEPT ![i] = Voted(proposals[i], a, support)]
  BY DEF castVote
<1>4. /\ Voted(proposals[i], a, support) \in Proposal
      /\ VotesCounted(Voted(proposals[i], a, support))
  BY <1>1, <1>2, VotedCounts
<1> QED
  BY <1>2, <1>3, <1>4, OneProposal

LEMMA StateStep ==
    ASSUME TypeInv, NEW i \in DOMAIN proposals,
           \/ queueProposal(i)
           \/ \E signatures \in SignatureLists : executeProposal(i, signatures)
           \/ cancelProposal(i)
    PROVE  ProposalInv' /\ DOMAIN proposals' = DOMAIN proposals
<1>1. PICK s \in ProposalState : proposals' = [proposals EXCEPT ![i].state = s]
  BY DEF queueProposal, executeProposal, cancelProposal, ProposalState
<1> QED
  BY <1>1, StateSet DEF TypeInv

LEMMA ProposalStep ==
    TypeInv /\ [Next]_vars => ProposalInv' /\ DOMAIN proposals \subseteq DOMAIN proposals'
<1> SUFFICES ASSUME TypeInv, [Next]_vars
             PROVE  ProposalInv' /\ DOMAIN proposals \subseteq DOMAIN proposals'
  OBVIOUS
<1>1. CASE UNCHANGED proposals
  BY <1>1 DEF TypeInv, ProposalInv
<1>2. ASSUME NEW a \in Person, NEW o \in Operation, createProposal(a, o)
      PROVE  ProposalInv' /\ DOMAIN proposals \subseteq DOMAIN proposals'
  BY <1>2, CreateStep
<1>3. ASSUME NEW i \in DOMAIN proposals, NEW a \in Voter, NEW support \in BOOLEAN,
             castVote(i, a, support)
      PROVE  ProposalInv' /\ DOMAIN proposals \subseteq DOMAIN proposals'
  BY <1>3, VoteStep
<1>4. ASSUME NEW i \in DOMAIN proposals,
             \/ queueProposal(i)
             \/ \E signatures \in SignatureLists : executeProposal(i, signatures)
             \/ cancelProposal(i)
      PROVE  ProposalInv' /\ DOMAIN proposals \subseteq DOMAIN proposals'
  BY <1>4, StateStep
<1> QED
  BY <1>1, <1>2, <1>3, <1>4 DEF Next, emergencyPause, unpause, addSigner, removeSigner,
     setRequiredSignatures, Tick, vars

\* An execution adds one run, of a proposal that exists.
LEMMA RunAdded ==
    ASSUME TypeInv, NEW i \in DOMAIN proposals, NEW signatures \in SignatureLists,
           executeProposal(i, signatures)
    PROVE  LET r == [operation |-> proposals[i].operation, proposal |-> i, time |-> timestamp,
                     required |-> requiredSignatures, signedBy |-> Members(signatures)]
           IN  /\ r \in Run
               /\ runs' = Append(runs, r)
               /\ runs' \in Seq(Run)
               /\ Len(runs) \in Nat
               /\ DOMAIN runs' = DOMAIN runs \union {Len(runs) + 1}
               /\ \A j \in DOMAIN runs : runs'[j] = runs[j]
               /\ runs'[Len(runs) + 1] = r
<1> DEFINE r == [operation |-> proposals[i].operation, proposal |-> i, time |-> timestamp,
                 required |-> requiredSignatures, signedBy |-> Members(signatures)]
<1>1. runs \in Seq(Run) /\ runs' = Append(runs, r)
  BY DEF TypeInv, RestTyped, executeProposal
<1>2. proposals[i] \in Proposal /\ i \in Nat
  BY DEF TypeInv, ProposalInv
<1>3. timestamp \in Nat /\ requiredSignatures \in Nat
  BY Numbers DEF TypeInv, RestTyped, SignerInv
<1>4. Members(signatures) \subseteq Person
  BY SignaturesAreLists DEF Members
<1>5. r \in Run
  BY <1>2, <1>3, <1>4 DEF Run, Proposal
<1> HIDE DEF r
<1>6. /\ runs' \in Seq(Run) /\ Len(runs) \in Nat
      /\ DOMAIN runs' = 1..(Len(runs) + 1) /\ DOMAIN runs = 1..Len(runs)
      /\ \A j \in 1..Len(runs) : runs'[j] = runs[j]
      /\ runs'[Len(runs) + 1] = r
  BY <1>1, <1>5
<1>7. 1..(Len(runs) + 1) = 1..Len(runs) \union {Len(runs) + 1}
  BY <1>6
<1> QED
  BY <1>1, <1>5, <1>6, <1>7 DEF r

LEMMA RestStep == TypeInv /\ [Next]_vars => RestTyped'
<1> SUFFICES ASSUME TypeInv, [Next]_vars PROVE RestTyped'
  OBVIOUS
<1>1. DOMAIN proposals \subseteq DOMAIN proposals'
  BY ProposalStep
<1>2. RestTyped
  BY DEF TypeInv
<1>3. CASE UNCHANGED <<timelocked, pauseVars, timestamp, calls, runs>>
  BY <1>1, <1>2, <1>3 DEF RestTyped, pauseVars
<1>4. ASSUME NEW i \in DOMAIN proposals, queueProposal(i) PROVE RestTyped'
  <2> proposals[i] \in Proposal
    BY DEF TypeInv, ProposalInv
  <2>1. proposals[i].operation \in Operation
    BY DEF Proposal
  <2>2. timestamp + timelockDelay \in Nat
    BY <1>2, Numbers DEF RestTyped
  <2>3. timelocked' \in [Operation -> [readyTime : Nat, executed : BOOLEAN]]
    BY <1>2, <1>4, <2>1, <2>2 DEF queueProposal, RestTyped
  <2> QED
    BY <1>1, <1>2, <1>4, <2>3 DEF queueProposal, RestTyped, pauseVars
<1>5. ASSUME NEW i \in DOMAIN proposals, NEW signatures \in SignatureLists,
             executeProposal(i, signatures)
      PROVE  RestTyped'
  <2> proposals[i] \in Proposal
    BY DEF TypeInv, ProposalInv
  <2>1. proposals[i].operation \in Operation
    BY DEF Proposal
  <2>2. timelocked' \in [Operation -> [readyTime : Nat, executed : BOOLEAN]]
    BY <1>2, <1>5, <2>1 DEF executeProposal, RestTyped
  <2>3. runs' \in Seq(Run) /\ \A j \in DOMAIN runs' : runs'[j].proposal \in DOMAIN proposals'
    <3> DEFINE r == [operation |-> proposals[i].operation, proposal |-> i, time |-> timestamp,
                     required |-> requiredSignatures, signedBy |-> Members(signatures)]
    <3>1. /\ runs' \in Seq(Run)
          /\ DOMAIN runs' = DOMAIN runs \union {Len(runs) + 1}
          /\ \A j \in DOMAIN runs : runs'[j] = runs[j]
          /\ runs'[Len(runs) + 1] = r
      BY <1>5, RunAdded, Zenon
    <3>2. r.proposal = i
      OBVIOUS
    <3> HIDE DEF r
    <3> QED
      BY <1>1, <1>2, <3>1, <3>2 DEF RestTyped
  <2> QED
    BY <1>2, <1>5, <2>2, <2>3 DEF executeProposal, RestTyped, pauseVars
<1>6. ASSUME NEW d \in Duration, NEW signatures \in SignatureLists, emergencyPause(d, signatures)
      PROVE  RestTyped'
  <2>1. timestamp + d \in Nat
    BY <1>2, Numbers DEF RestTyped
  <2> QED
    BY <1>1, <1>2, <1>6, <2>1, Numbers DEF emergencyPause, RestTyped, Counted
<1>7. CASE unpause \/ Tick
  <2>1. CASE unpause
    <3>1. paused' \in BOOLEAN
      BY <2>1 DEF unpause
    <3>2. pauseExpiry' \in Nat /\ calls' \in 0..MaxCalls
      BY <1>2, <2>1, Numbers DEF unpause, RestTyped, Counted
    <3> QED
      BY <1>1, <1>2, <2>1, <3>1, <3>2 DEF unpause, RestTyped
  <2>2. CASE Tick
    BY <1>1, <1>2, <2>2, Numbers DEF Tick, RestTyped, pauseVars
  <2> QED
    BY <1>7, <2>1, <2>2
<1>8. ASSUME NEW a \in Person, addSigner(a) \/ removeSigner(a) PROVE RestTyped'
  BY <1>1, <1>2, <1>8, Numbers DEF addSigner, removeSigner, RestTyped, pauseVars, Counted
<1>9. ASSUME NEW n \in 1..Len(signers), setRequiredSignatures(n) PROVE RestTyped'
  BY <1>1, <1>2, <1>9, Numbers DEF setRequiredSignatures, RestTyped, pauseVars, Counted
<1> QED
  BY <1>3, <1>4, <1>5, <1>6, <1>7, <1>8, <1>9
     DEF Next, createProposal, castVote, cancelProposal, vars

\* The inductive invariant: types, votes that are counted, and signers as list and
\* as flags, after any calls of castVote, addSigner, removeSigner and the others.
THEOREM TypeInvariance == Spec => []TypeInv
<1>1. TypeInv /\ [Next]_vars => TypeInv'
  BY SignerStep, ProposalStep, RestStep DEF TypeInv
<1> QED
  BY <1>1, InitTypeInv, PTL DEF Spec

\* All state keeps its type, and every proposal's counters agree with the
\* mappings of its votes, for any voters and times.
THEOREM TypeCorrect == Spec => []TypeOK
<1>1. TypeInv => TypeOK
  <2> SUFFICES ASSUME TypeInv PROVE TypeOK
    OBVIOUS
  <2>1. isSigner \subseteq Person /\ requiredSignatures \in Nat /\ signers \in Seq(Person)
    BY DEF TypeInv, SignerInv, Members
  <2>2. \A i \in DOMAIN proposals :
            LET p == proposals[i]
            IN  /\ p.votedFor \subseteq p.hasVoted
                /\ p.forVotes = Cardinality(p.votedFor)
                /\ p.againstVotes = Cardinality(p.hasVoted \ p.votedFor)
    BY DEF TypeInv, ProposalInv, VotesCounted
  <2> QED
    BY <2>1, <2>2 DEF TypeInv, ProposalInv, RestTyped, TypeOK
<1> QED
  BY <1>1, TypeInvariance, PTL

-----------------------------------------------------------------------------
(* Repetitions                                                             *)

\* No run is in the future, and an operation that may run again is ready a
\* timelock after each of its runs.
RepeatInv ==
    /\ RepeatNeedsTimelock
    /\ \A j \in DOMAIN runs :
           /\ runs[j].time <= timestamp
           /\ LET o == runs[j].operation
              IN  ~timelocked[o].executed => timelocked[o].readyTime >= runs[j].time + timelockDelay

LEMMA RepeatStep == TypeInv /\ RepeatInv /\ [Next]_vars => RepeatInv'
<1> SUFFICES ASSUME TypeInv, RepeatInv, [Next]_vars PROVE RepeatInv'
  OBVIOUS
<1>1. /\ timestamp \in Nat /\ timelockDelay \in Nat
      /\ timelocked \in [Operation -> [readyTime : Nat, executed : BOOLEAN]]
      /\ runs \in Seq(Run)
      /\ \A j \in DOMAIN runs : runs[j].time \in Nat /\ runs[j].operation \in Operation
  <2>1. /\ timestamp \in Nat /\ timelockDelay \in Nat
        /\ timelocked \in [Operation -> [readyTime : Nat, executed : BOOLEAN]]
        /\ runs \in Seq(Run)
    BY Numbers DEF TypeInv, RestTyped
  <2>2. \A j \in DOMAIN runs : runs[j] \in Run
    BY <2>1
  <2>3. \A r \in Run : r.time \in Nat /\ r.operation \in Operation
    BY DEF Run
  <2> QED
    BY <2>1, <2>2, <2>3
<1>2. CASE UNCHANGED <<timelocked, runs>> /\ timestamp' \in Nat /\ timestamp' >= timestamp
  BY <1>1, <1>2 DEF RepeatInv, RepeatNeedsTimelock
<1>3. ASSUME NEW i \in DOMAIN proposals, queueProposal(i) PROVE RepeatInv'
  <2> DEFINE o == proposals[i].operation
  <2>1. /\ UNCHANGED <<runs, timestamp>>
        /\ timelocked' = [timelocked EXCEPT ![o] =
               [readyTime |-> timestamp + timelockDelay, executed |-> FALSE]]
    BY <1>3 DEF queueProposal
  <2> HIDE DEF o
  <2>2. ASSUME NEW j \in DOMAIN runs, ~timelocked'[runs[j].operation].executed
        PROVE  timelocked'[runs[j].operation].readyTime >= runs[j].time + timelockDelay
    <3>1. CASE runs[j].operation = o
      <4>1. timelocked'[o].readyTime = timestamp + timelockDelay
        BY <1>1, <2>1, <3>1
      <4>2. runs[j].time <= timestamp
        BY DEF RepeatInv
      <4> QED
        BY <1>1, <3>1, <4>1, <4>2
    <3>2. CASE runs[j].operation # o
      <4>1. timelocked'[runs[j].operation] = timelocked[runs[j].operation]
        BY <1>1, <2>1, <3>2
      <4> QED
        BY <2>2, <4>1 DEF RepeatInv
    <3> QED
      BY <3>1, <3>2
  <2> QED
    BY <2>1, <2>2 DEF RepeatInv, RepeatNeedsTimelock
<1>4. ASSUME NEW i \in DOMAIN proposals, NEW signatures \in SignatureLists,
             executeProposal(i, signatures)
      PROVE  RepeatInv'
  <2> DEFINE o == proposals[i].operation
             n == Len(runs) + 1
             r == [operation |-> o, proposal |-> i, time |-> timestamp,
                   required |-> requiredSignatures, signedBy |-> Members(signatures)]
  <2>1. /\ UNCHANGED timestamp
        /\ timestamp >= timelocked[o].readyTime
        /\ ~timelocked[o].executed
        /\ timelocked' = [timelocked EXCEPT ![o].executed = TRUE]
    BY <1>4 DEF executeProposal
  <2>2. /\ DOMAIN runs' = DOMAIN runs \union {n}
        /\ DOMAIN runs = 1..(n - 1) /\ n \in Nat
        /\ \A j \in DOMAIN runs : runs'[j] = runs[j]
        /\ runs'[n] = r
    <3>1. /\ DOMAIN runs' = DOMAIN runs \union {Len(runs) + 1}
          /\ \A j \in DOMAIN runs : runs'[j] = runs[j]
          /\ runs'[Len(runs) + 1] = r
      BY <1>4, RunAdded, Zenon
    <3> QED
      BY <1>1, <3>1
  <2>3. r.operation = o /\ r.time = timestamp
    OBVIOUS
  <2>4. \A p \in Operation : ~timelocked'[p].executed => p # o /\ timelocked'[p] = timelocked[p]
    BY <1>1, <2>1
  <2> HIDE DEF o, n, r
  <2>5. o \in Operation /\ timelocked[o].readyTime \in Nat
    <3>1. proposals[i] \in Proposal
      BY DEF TypeInv, ProposalInv
    <3>2. o \in Operation
      BY <3>1 DEF Proposal, o
    <3> QED
      BY <1>1, <3>2
  <2>6. \A j \in DOMAIN runs : runs[j].operation = o => timestamp >= runs[j].time + timelockDelay
    <3> SUFFICES ASSUME NEW j \in DOMAIN runs, runs[j].operation = o
                 PROVE  timestamp >= runs[j].time + timelockDelay
      OBVIOUS
    <3>1. timelocked[o].readyTime >= runs[j].time + timelockDelay
      BY <2>1 DEF RepeatInv
    <3> QED
      BY <1>1, <2>1, <2>5, <3>1
  <2>7. RepeatNeedsTimelock'
    <3> SUFFICES ASSUME NEW j \in DOMAIN runs', NEW k \in 1..(j - 1),
                        runs'[k].operation = runs'[j].operation
                 PROVE  runs'[j].time >= runs'[k].time + timelockDelay
      BY DEF RepeatNeedsTimelock
    <3>1. k \in DOMAIN runs
      BY <2>2
    <3>2. CASE j \in DOMAIN runs
      BY <2>2, <3>1, <3>2 DEF RepeatInv, RepeatNeedsTimelock
    <3>3. CASE j = n
      BY <2>2, <2>3, <2>6, <3>1, <3>3
    <3> QED
      BY <2>2, <3>2, <3>3
  <2>8. ASSUME NEW j \in DOMAIN runs'
        PROVE  /\ runs'[j].time <= timestamp'
               /\ ~timelocked'[runs'[j].operation].executed =>
                      timelocked'[runs'[j].operation].readyTime >= runs'[j].time + timelockDelay
    <3>1. CASE j \in DOMAIN runs
      BY <1>1, <2>1, <2>2, <2>4, <3>1 DEF RepeatInv
    <3>2. CASE j = n
      BY <1>1, <2>1, <2>2, <2>3, <2>4, <2>5, <3>2
    <3> QED
      BY <2>2, <3>1, <3>2
  <2> QED
    BY <2>7, <2>8 DEF RepeatInv
<1>5. CASE Tick
  BY <1>1, <1>2, <1>5 DEF Tick
<1>6. CASE UNCHANGED <<timelocked, runs, timestamp>>
  BY <1>1, <1>2, <1>6
<1> QED
  BY <1>3, <1>4, <1>5, <1>6 DEF Next, createProposal, castVote, cancelProposal,
     emergencyPause, unpause, addSigner, removeSigner, setRequiredSignatures, vars

\* Executions of one operation are a timelock apart, for any delays, proposals
\* of it and repeated queueing.
THEOREM RepeatHolds == Spec => []RepeatNeedsTimelock
<1>1. Init => RepeatInv
  BY DEF Init, RepeatInv, RepeatNeedsTimelock
<1>2. RepeatInv => RepeatNeedsTimelock
  BY DEF RepeatInv
<1> QED
  BY <1>1, <1>2, RepeatStep, TypeInvariance, PTL DEF Spec

-----------------------------------------------------------------------------
(* Agreement                                                               *)

\* What was voted on and enough people signed, in terms of one proposal.
Agreed(p) ==
    p.state \in {"Queued", "Executed"} =>
        /\ timestamp >= voteEnd(p)
        /\ Cardinality(p.votedFor) * 2 > Cardinality(p.hasVoted)

\* More votes for than against are more than half of all.
LEMMA MajorityOfVotes ==
    ASSUME NEW p \in Proposal, VotesCounted(p), p.forVotes > p.againstVotes
    PROVE  Cardinality(p.votedFor) * 2 > Cardinality(p.hasVoted)
<1>1. IsFiniteSet(p.hasVoted) /\ p.hasVoted \intersect p.votedFor = p.votedFor
  BY DEF VotesCounted
<1>2. Cardinality(p.hasVoted \ p.votedFor) = Cardinality(p.hasVoted) - Cardinality(p.votedFor)
  BY <1>1, FS_Difference
<1>3. Cardinality(p.hasVoted) \in Nat /\ Cardinality(p.votedFor) \in Nat
  BY <1>1, FS_CardinalityType, FS_Intersection
<1> QED
  BY <1>2, <1>3 DEF VotesCounted

LEMMA AgreedStep ==
    ASSUME TypeInv, [Next]_vars, \A i \in DOMAIN proposals : Agreed(proposals[i])
    PROVE  \A i \in DOMAIN proposals' : Agreed(proposals[i])'
<1> DEFINE Goal == \A i \in DOMAIN proposals' : Agreed(proposals[i])'
<1>1. /\ timestamp \in Nat /\ votingDelay \in Nat /\ votingPeriod \in Nat
      /\ proposals \in Seq(Proposal)
      /\ \A i \in DOMAIN proposals :
             /\ proposals[i] \in Proposal /\ VotesCounted(proposals[i])
             /\ voteEnd(proposals[i]) \in Nat
  <2>1. timestamp \in Nat /\ votingDelay \in Nat /\ votingPeriod \in Nat
    BY Numbers DEF TypeInv, RestTyped
  <2>2. /\ proposals \in Seq(Proposal)
        /\ \A i \in DOMAIN proposals : proposals[i] \in Proposal /\ VotesCounted(proposals[i])
    BY DEF TypeInv, ProposalInv
  <2>3. \A p \in Proposal : voteEnd(p) \in Nat
    BY <2>1 DEF Proposal, voteEnd
  <2> QED
    BY <2>1, <2>2, <2>3
<1>2. CASE UNCHANGED proposals /\ timestamp' \in Nat /\ timestamp' >= timestamp
  BY <1>1, <1>2 DEF Agreed, voteEnd
<1>3. ASSUME NEW a \in Person, NEW o \in Operation, createProposal(a, o) PROVE Goal
  <2> DEFINE q == [operation |-> o, voteStart |-> timestamp + votingDelay, state |-> "Pending",
                   hasVoted |-> {}, votedFor |-> {}, forVotes |-> 0, againstVotes |-> 0]
  <2>1. proposals' = Append(proposals, q) /\ q.state = "Pending" /\ UNCHANGED timestamp
    BY <1>3 DEF createProposal
  <2> HIDE DEF q
  <2>2. \A i \in DOMAIN proposals' :
            \/ i \in DOMAIN proposals /\ proposals'[i] = proposals[i]
            \/ proposals'[i] = q
    BY <1>1, <2>1
  <2> QED
    BY <2>1, <2>2 DEF Agreed, voteEnd
<1>4. ASSUME NEW i \in DOMAIN proposals, NEW a \in Voter, NEW support \in BOOLEAN,
             castVote(i, a, support)
      PROVE  Goal
  <2> DEFINE p == proposals[i]
             q == Voted(p, a, support)
  <2>1. /\ timestamp < voteEnd(p) /\ UNCHANGED timestamp
        /\ proposals' = [proposals EXCEPT ![i] = q]
    BY <1>4 DEF castVote
  <2>2. p.state \notin {"Queued", "Executed"}
    BY <1>1, <2>1 DEF Agreed
  <2>3. q.state \notin {"Queued", "Executed"}
    <3>1. q.state = IF p.state = "Pending" THEN "Active" ELSE p.state
      BY <1>1 DEF Voted, Proposal
    <3> QED
      BY <2>2, <3>1
  <2> HIDE DEF p, q
  <2> QED
    BY <1>1, <2>1, <2>3 DEF Agreed, voteEnd
<1>5. ASSUME NEW i \in DOMAIN proposals, NEW s \in ProposalState, UNCHANGED timestamp,
             proposals' = [proposals EXCEPT ![i].state = s],
             Passed(proposals[i]) \/ proposals[i].state = "Queued" \/ s = "Canceled"
      PROVE  Goal
  <2> DEFINE p == proposals[i]
             q == [p EXCEPT !.state = s]
  <2>1. proposals' = [proposals EXCEPT ![i] = q]
    BY <1>5
  <2>2. /\ q.state = s /\ q.votedFor = p.votedFor /\ q.hasVoted = p.hasVoted
        /\ voteEnd(q) = voteEnd(p)
    BY <1>1 DEF Proposal, voteEnd
  <2>3. Passed(p) => timestamp >= voteEnd(p) /\ Cardinality(p.votedFor) * 2 > Cardinality(p.hasVoted)
    BY <1>1, MajorityOfVotes DEF Passed
  <2>4. p.state = "Queued" =>
            timestamp >= voteEnd(p) /\ Cardinality(p.votedFor) * 2 > Cardinality(p.hasVoted)
    BY DEF Agreed
  <2> HIDE DEF q
  <2>5. Agreed(q)
    BY <1>5, <2>2, <2>3, <2>4 DEF Agreed
  <2> QED
    BY <1>1, <1>5, <2>1, <2>5 DEF Agreed, voteEnd
<1>6. ASSUME NEW i \in DOMAIN proposals, queueProposal(i) PROVE Goal
  BY <1>5, <1>6 DEF queueProposal, ProposalState
<1>7. ASSUME NEW i \in DOMAIN proposals, NEW signatures \in SignatureLists,
             executeProposal(i, signatures)
      PROVE  Goal
  BY <1>5, <1>7 DEF executeProposal, ProposalState
<1>8. ASSUME NEW i \in DOMAIN proposals, cancelProposal(i) PROVE Goal
  BY <1>5, <1>8 DEF cancelProposal, ProposalState
<1>9. CASE Tick
  BY <1>1, <1>2, <1>9 DEF Tick
<1> QED
  BY <1>1, <1>2, <1>3, <1>4, <1>6, <1>7, <1>8, <1>9 DEF Next, emergencyPause, unpause,
     addSigner, removeSigner, setRequiredSignatures, vars

\* Enough different people signed each run.
EnoughSigned == \A i \in DOMAIN runs : Cardinality(runs[i].signedBy) >= runs[i].required

LEMMA EnoughStep == TypeInv /\ EnoughSigned /\ [Next]_vars => EnoughSigned'
<1> SUFFICES ASSUME TypeInv, EnoughSigned, [Next]_vars PROVE EnoughSigned'
  OBVIOUS
<1>1. CASE UNCHANGED runs
  BY <1>1 DEF EnoughSigned
<1>2. ASSUME NEW i \in DOMAIN proposals, NEW signatures \in SignatureLists,
             executeProposal(i, signatures)
      PROVE  EnoughSigned'
  <2> DEFINE r == [operation |-> proposals[i].operation, proposal |-> i, time |-> timestamp,
                   required |-> requiredSignatures, signedBy |-> Members(signatures)]
  <2>1. /\ DOMAIN runs' = DOMAIN runs \union {Len(runs) + 1}
        /\ \A j \in DOMAIN runs : runs'[j] = runs[j]
        /\ runs'[Len(runs) + 1] = r
    BY <1>2, RunAdded, Zenon
  <2>2. r.signedBy = Members(signatures) /\ r.required = requiredSignatures
    OBVIOUS
  <2>3. Len(signatures) >= requiredSignatures /\ Distinct(signatures)
    BY <1>2 DEF executeProposal, _verifySignatures
  <2>4. Cardinality(Members(signatures)) = Len(signatures)
    BY <2>3, SignaturesAreLists, MembersCounted
  <2> HIDE DEF r
  <2> QED
    BY <2>1, <2>2, <2>3, <2>4 DEF EnoughSigned
<1> QED
  BY <1>1, <1>2 DEF Next, createProposal, castVote, queueProposal, cancelProposal,
     emergencyPause, unpause, addSigner, removeSigner, setRequiredSignatures, Tick, vars

\* Whatever is queued or ran has won a vote that is over, and enough different
\* people signed each run, for any votes, signers and thresholds.
THEOREM AgreementHolds == Spec => []ExecutionsWereAgreed
<1> DEFINE AllAgreed == \A i \in DOMAIN proposals : Agreed(proposals[i])
<1>1. Init => AllAgreed /\ EnoughSigned
  BY DEF Init, EnoughSigned
<1>2. TypeInv /\ AllAgreed /\ [Next]_vars => AllAgreed'
  BY AgreedStep
<1>3. AllAgreed /\ EnoughSigned => ExecutionsWereAgreed
  BY DEF ExecutionsWereAgreed, EnoughSigned, Agreed
<1> HIDE DEF AllAgreed
<1> QED
  BY <1>1, <1>2, <1>3, EnoughStep, TypeInvariance, PTL DEF Spec
=============================================================================
