---------------------------- MODULE ProtocolDAO ----------------------------
(***************************************************************************)
(* contracts/core/ProtocolDAO.sol: proposals that are voted on, queued     *)
(* behind a timelock and executed with the signatures of enough signers,   *)
(* the list of signers, and the pause.                                     *)
(*                                                                         *)
(* An operation is a target with call data and value.  The timelock is     *)
(* kept per operation and not per proposal, so that proposals of the same  *)
(* operation share it.  Signatures are made off chain, over an operation   *)
(* with nothing that changes when it is repeated: whoever signed once has  *)
(* signed for good.  Anybody may vote, queue, execute and hand in          *)
(* signatures.  A call that reverts, be it because the operation fails,    *)
(* leaves every variable unchanged and is not an action.                   *)
(***************************************************************************)
EXTENDS Integers, Sequences, FiniteSets

CONSTANTS
    Person,             \* who signs
    Voter,              \* who votes: anybody
    InitialSigners,     \* the constructor's list
    InitialRequired,
    Operation,
    votingDelay,        \* 1 day
    votingPeriod,       \* 7 days
    timelockDelay,      \* 2 days
    Duration,           \* for how long a pause may be asked
    MaxProposals,       \* bound on the proposals ever made
    MaxCalls,           \* bound on the calls that pause or change the signers
    MaxTime             \* bound on block.timestamp

quorumNumerator == 4

Members(list) == {list[i] : i \in 1..Len(list)}

Distinct(list) == \A i, j \in 1..Len(list) : i # j => list[i] # list[j]

\* The constructor does not look for repeated signers.
ASSUME DAOAssumption ==
    /\ IsFiniteSet(Person)
    /\ InitialSigners \in Seq(Person)
    /\ Voter \subseteq Person
    /\ InitialRequired \in 1..Len(InitialSigners)
    /\ {votingDelay, votingPeriod, timelockDelay, MaxProposals, MaxCalls, MaxTime} \subseteq Nat
    /\ Duration \subseteq Nat

VARIABLES
    proposals,          \* by number, from 1
    timelocked,         \* timelockedOperations[o]: readyTime and executed
    paused,
    pauseExpiry,
    requiredSignatures,
    isSigner,           \* whose flag is set
    signers,            \* the list
    timestamp,          \* block.timestamp
    calls,              \* how many calls paused or changed the signers
    runs                \* history: the executions

signerVars == <<requiredSignatures, isSigner, signers>>
pauseVars == <<paused, pauseExpiry>>
vars == <<proposals, timelocked, pauseVars, signerVars, timestamp, calls, runs>>

\* Defeated, Succeeded and Expired are never set.
ProposalState == {"Pending", "Active", "Canceled", "Queued", "Executed"}

Proposal == [operation : Operation, voteStart : Nat, state : ProposalState,
             hasVoted : SUBSET Person, votedFor : SUBSET Person,
             forVotes : Nat, againstVotes : Nat]

Run == [operation : Operation, proposal : Nat, time : Nat, required : Nat,
        signedBy : SUBSET Person]

\* The counters agree with the mappings of votes, and only created proposals
\* have run.
TypeOK ==
    /\ proposals \in Seq(Proposal)
    /\ \A i \in DOMAIN proposals :
           LET p == proposals[i]
           IN  /\ p.votedFor \subseteq p.hasVoted
               /\ p.forVotes = Cardinality(p.votedFor)
               /\ p.againstVotes = Cardinality(p.hasVoted \ p.votedFor)
    /\ timelocked \in [Operation -> [readyTime : Nat, executed : BOOLEAN]]
    /\ paused \in BOOLEAN
    /\ pauseExpiry \in Nat
    /\ requiredSignatures \in Nat
    /\ isSigner \subseteq Person
    /\ signers \in Seq(Person)
    /\ timestamp \in 0..MaxTime
    /\ calls \in 0..MaxCalls
    /\ runs \in Seq(Run)
    /\ \A i \in DOMAIN runs : runs[i].proposal \in DOMAIN proposals

Init ==
    /\ proposals = <<>>
    /\ timelocked = [o \in Operation |-> [readyTime |-> 0, executed |-> FALSE]]
    /\ paused = FALSE
    /\ pauseExpiry = 0
    /\ requiredSignatures = InitialRequired
    /\ isSigner = Members(InitialSigners)
    /\ signers = InitialSigners
    /\ timestamp = 0
    /\ calls = 0
    /\ runs = <<>>

NotPaused == ~paused \/ timestamp > pauseExpiry

-----------------------------------------------------------------------------
(* Proposals                                                               *)

\* Bound: a proposal is made in time to be queued.
createProposal(a, o) ==
    /\ a \in isSigner
    /\ Len(proposals) < MaxProposals
    /\ timestamp + votingDelay + votingPeriod <= MaxTime
    /\ proposals' = Append(proposals,
           [operation |-> o, voteStart |-> timestamp + votingDelay, state |-> "Pending",
            hasVoted |-> {}, votedFor |-> {}, forVotes |-> 0, againstVotes |-> 0])
    /\ UNCHANGED <<timelocked, pauseVars, signerVars, timestamp, calls, runs>>

voteEnd(p) == p.voteStart + votingPeriod

\* p after a vote.  A canceled one is voted on, too.
Voted(p, a, support) ==
    [p EXCEPT !.state = IF @ = "Pending" THEN "Active" ELSE @,
              !.hasVoted = @ \union {a},
              !.votedFor = IF support THEN @ \union {a} ELSE @,
              !.forVotes = IF support THEN @ + 1 ELSE @,
              !.againstVotes = IF support THEN @ ELSE @ + 1]

\* Mutant: nobody looks whether a has voted.
castVoteAgain(i, a, support) ==
    /\ NotPaused
    /\ timestamp >= proposals[i].voteStart
    /\ timestamp < voteEnd(proposals[i])
    /\ proposals' = [proposals EXCEPT ![i] = Voted(@, a, support)]
    /\ UNCHANGED <<timelocked, pauseVars, signerVars, timestamp, calls, runs>>

\* a need not be a signer.
castVote(i, a, support) ==
    /\ NotPaused
    /\ timestamp >= proposals[i].voteStart
    /\ timestamp < voteEnd(proposals[i])
    /\ a \notin proposals[i].hasVoted
    /\ proposals' = [proposals EXCEPT ![i] = Voted(@, a, support)]
    /\ UNCHANGED <<timelocked, pauseVars, signerVars, timestamp, calls, runs>>

Passed(p) ==
    /\ timestamp >= voteEnd(p)
    /\ p.forVotes > p.againstVotes
    /\ p.forVotes >= (Len(signers) * quorumNumerator) \div 100

\* Mutant: an operation that was queued before keeps its time.
queueProposalOnce(i) ==
    /\ Passed(proposals[i])
    /\ proposals' = [proposals EXCEPT ![i].state = "Queued"]
    /\ timelocked' = [timelocked EXCEPT ![proposals[i].operation] =
           [readyTime |-> IF @.readyTime = 0 THEN timestamp + timelockDelay ELSE @.readyTime,
            executed |-> FALSE]]
    /\ UNCHANGED <<pauseVars, signerVars, timestamp, calls, runs>>

\* The state is not looked at: a canceled or an executed proposal can be
\* queued.  The timelock of its operation starts again.
queueProposal(i) ==
    /\ Passed(proposals[i])
    /\ proposals' = [proposals EXCEPT ![i].state = "Queued"]
    /\ timelocked' = [timelocked EXCEPT ![proposals[i].operation] =
           [readyTime |-> timestamp + timelockDelay, executed |-> FALSE]]
    /\ UNCHANGED <<pauseVars, signerVars, timestamp, calls, runs>>

\* Mutant: signatures are counted, and not who made them.
verifySignatureCount(signatures) ==
    /\ Len(signatures) >= requiredSignatures
    /\ Members(signatures) \subseteq isSigner

\* Enough signatures, each by a signer, no two by the same.
_verifySignatures(signatures) ==
    /\ Len(signatures) >= requiredSignatures
    /\ Members(signatures) \subseteq isSigner
    /\ Distinct(signatures)

\* The call of the operation succeeds.
executeProposal(i, signatures) ==
    /\ NotPaused
    /\ proposals[i].state = "Queued"
    /\ LET o == proposals[i].operation
       IN  /\ timestamp >= timelocked[o].readyTime
           /\ ~timelocked[o].executed
           /\ _verifySignatures(signatures)
           /\ timelocked' = [timelocked EXCEPT ![o].executed = TRUE]
           /\ runs' = Append(runs, [operation |-> o, proposal |-> i, time |-> timestamp,
                                    required |-> requiredSignatures,
                                    signedBy |-> Members(signatures)])
    /\ proposals' = [proposals EXCEPT ![i].state = "Executed"]
    /\ UNCHANGED <<pauseVars, signerVars, timestamp, calls>>

\* By the proposer or the owner.
cancelProposal(i) ==
    /\ proposals[i].state \in {"Pending", "Active"}
    /\ proposals' = [proposals EXCEPT ![i].state = "Canceled"]
    /\ UNCHANGED <<timelocked, pauseVars, signerVars, timestamp, calls, runs>>

-----------------------------------------------------------------------------
(* Pause                                                                   *)

Counted == calls < MaxCalls /\ calls' = calls + 1

\* The signatures are over the duration and this very block's time.
emergencyPause(duration, signatures) ==
    /\ _verifySignatures(signatures)
    /\ paused' = TRUE
    /\ pauseExpiry' = timestamp + duration
    /\ UNCHANGED <<proposals, timelocked, signerVars, timestamp, runs>>
    /\ Counted

\* Without a pause it changes nothing.
unpause ==
    /\ paused
    /\ paused' = FALSE
    /\ pauseExpiry' = 0
    /\ UNCHANGED <<proposals, timelocked, signerVars, timestamp, runs>>
    /\ Counted

-----------------------------------------------------------------------------
(* Signers: calls of the owner                                             *)

addSigner(a) ==
    /\ a \notin isSigner
    /\ isSigner' = isSigner \union {a}
    /\ signers' = Append(signers, a)
    /\ UNCHANGED <<proposals, timelocked, pauseVars, requiredSignatures, timestamp, runs>>
    /\ Counted

\* The last of the list takes the first place of a.
Removed(list, a) ==
    LET i == CHOOSE j \in 1..Len(list) :
                 list[j] = a /\ \A k \in 1..(j - 1) : list[k] # a
    IN  SubSeq([list EXCEPT ![i] = list[Len(list)]], 1, Len(list) - 1)

\* Mutant: the list may become shorter than the threshold.
removeAnySigner(a) ==
    /\ a \in isSigner
    /\ isSigner' = isSigner \ {a}
    /\ signers' = Removed(signers, a)
    /\ UNCHANGED <<proposals, timelocked, pauseVars, requiredSignatures, timestamp, runs>>
    /\ Counted

removeSigner(a) ==
    /\ a \in isSigner
    /\ Len(signers) > requiredSignatures
    /\ isSigner' = isSigner \ {a}
    /\ signers' = Removed(signers, a)
    /\ UNCHANGED <<proposals, timelocked, pauseVars, requiredSignatures, timestamp, runs>>
    /\ Counted

setRequiredSignatures(n) ==
    /\ n \in 1..Len(signers) \ {requiredSignatures}
    /\ requiredSignatures' = n
    /\ UNCHANGED <<proposals, timelocked, pauseVars, isSigner, signers, timestamp, runs>>
    /\ Counted

-----------------------------------------------------------------------------

Tick ==
    /\ timestamp < MaxTime
    /\ timestamp' = timestamp + 1
    /\ UNCHANGED <<proposals, timelocked, pauseVars, signerVars, calls, runs>>

\* The lists of signatures that can be handed in.
SignatureLists == UNION {[1..n -> Person] : n \in 0..Cardinality(Person)}

Next ==
    \/ \E a \in Person, o \in Operation : createProposal(a, o)
    \/ \E i \in DOMAIN proposals :
           \/ \E a \in Voter, support \in BOOLEAN : castVote(i, a, support)
           \/ queueProposal(i)
           \/ \E signatures \in SignatureLists : executeProposal(i, signatures)
           \/ cancelProposal(i)
    \/ \E d \in Duration, signatures \in SignatureLists : emergencyPause(d, signatures)
    \/ unpause
    \/ \E a \in Person : addSigner(a) \/ removeSigner(a)
    \/ \E n \in 1..Len(signers) : setRequiredSignatures(n)
    \/ Tick

Spec == Init /\ [][Next]_vars

-----------------------------------------------------------------------------
(* Properties                                                              *)

\* By how much the constructor's list is longer than it has people.
Repeated == Len(InitialSigners) - Cardinality(Members(InitialSigners))

\* removeSigner and setRequiredSignatures compare the threshold with the length
\* of the list, _verifySignatures asks the flags.  In whatever order signers
\* come and go and the threshold changes, everybody with a flag is in the list,
\* the list is longer than there are flags by what the constructor was given
\* twice, no more and no less, and the threshold is within it: with a list of
\* different people the required signatures can always be had.
ThresholdWithinList ==
    /\ isSigner \subseteq Members(signers)
    /\ Len(signers) = Cardinality(isSigner) + Repeated
    /\ requiredSignatures \in 1..(Cardinality(isSigner) + Repeated)

\* What is queued or was executed is backed by a vote that cannot change any
\* more, and each execution by as many different people as were required.
ExecutionsWereAgreed ==
    /\ \A i \in DOMAIN proposals : proposals[i].state \in {"Queued", "Executed"} =>
           /\ timestamp >= voteEnd(proposals[i])
           /\ Cardinality(proposals[i].votedFor) * 2 > Cardinality(proposals[i].hasVoted)
    /\ \A i \in DOMAIN runs : Cardinality(runs[i].signedBy) >= runs[i].required

\* Executions of one operation are a timelock apart, through whichever
\* proposals it was queued and how often: queueing again gives everybody the
\* whole delay, and nothing runs twice for one queueing.
RepeatNeedsTimelock ==
    \A j \in DOMAIN runs : \A i \in 1..(j - 1) :
        runs[i].operation = runs[j].operation => runs[j].time >= runs[i].time + timelockDelay
=============================================================================
