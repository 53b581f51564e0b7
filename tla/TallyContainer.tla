--------------------------- MODULE TallyContainer ----------------------------
(***************************************************************************)
(* run() of the tally container (bacalhau-container/index.js): one job     *)
(* that reads the votes tile of a proposal, decrypts and counts the votes, *)
(* computes the rewards and reports the result to the bridge.              *)
(*                                                                         *)
(* Everything it needs from the chain it reads at a moment of its own: the *)
(* balances are those of the proposal's snapshot, but the quorum, the      *)
(* emission and each voter's APE balance are the ones of that moment.  The *)
(* variables of the second group belong to others and are only read here;  *)
(* APE is an external token, whose balances are any of ApeHoldings.        *)
(*                                                                         *)
(* Simplifications: the decryptions happen at one moment, since a round    *)
(* that was reached stays reached; the Merkle tree is the set of its       *)
(* leaves, as in Governor; abstainVotes is the rest of the supply.         *)
(***************************************************************************)
EXTENDS Integers, Sequences, Functions, Lists

CONSTANTS
    NoUser,     \* ethers.constants.AddressZero
    Ether,      \* parseEther("1")
    ApeHoldings \* what a voter's APE balance may be when it is read

VARIABLES
    step,            \* how far run() has come
    signedVotes, forVotes, againstVotes,
    quorum,          \* quorumPercentage as read
    majority, arrivedToConsensus,
    emission,        \* emissionPerVote as read
    toReward,        \* the leaves so far, one per rewarded vote
    next,            \* index of the vote the reward loop is at
    report,          \* the results sent to the bridge
    \* read only
    votesTile, beaconRound, snapshot, quorumPercentage, emissionPerVote

TallyInit ==
    /\ step = "start"
    /\ signedVotes = << >> /\ forVotes = 0 /\ againstVotes = 0
    /\ quorum = 0 /\ majority = "against" /\ arrivedToConsensus = FALSE
    /\ emission = 0 /\ toReward = << >> /\ next = 1
    /\ report = {}

-----------------------------------------------------------------------------
\* Mutant of Signed: the recovered address is not compared.
SignedAll(votes) == votes

\* The votes whose signature recovers to the account they name.
Signed(votes) == Selection(votes, {vote \in Range(votes) : vote.signer = vote.account})

\* The sum of the balances at the snapshot of those who voted so.
VotesOf(choice, votes) ==
    SumFunction([i \in DOMAIN votes |->
        IF votes[i].choice = choice THEN snapshot.balances[votes[i].account] ELSE 0])

Larger(x, y) == IF x > y THEN x ELSE y

\* Mutants of Consensus: a tie counts as one, and a quorum just reached does not.
ConsensusOnTie(percentage) ==
    Larger(forVotes, againstVotes) >= (snapshot.totalSupply * percentage) \div Ether

ConsensusBeyondQuorum(percentage) ==
    /\ forVotes # againstVotes
    /\ Larger(forVotes, againstVotes) > (snapshot.totalSupply * percentage) \div Ether

Consensus(percentage) ==
    /\ forVotes # againstVotes
    /\ Larger(forVotes, againstVotes) >= (snapshot.totalSupply * percentage) \div Ether

\* A run whose read, decryption or signature check throws ends without a report.
\* No vote at all is such a case (the tile's data is undefined), and a vote that
\* cannot be decrypted yet (it has no message to verify).
ReadVotes ==
    /\ step = "start"
    /\ votesTile # << >>
    /\ \A i \in DOMAIN votesTile : votesTile[i].round <= beaconRound
    /\ signedVotes' = Signed(votesTile)
    /\ step' = "count"
    /\ UNCHANGED <<forVotes, againstVotes, quorum, majority, arrivedToConsensus, emission,
                   toReward, next, report>>

CountVotes ==
    /\ step = "count"
    /\ forVotes' = VotesOf("for", signedVotes)
    /\ againstVotes' = VotesOf("against", signedVotes)
    /\ step' = "consensus"
    /\ UNCHANGED <<signedVotes, quorum, majority, arrivedToConsensus, emission, toReward,
                   next, report>>

\* Mutant of DecideConsensus: a third value for a tie.
DecideConsensusOrNone ==
    /\ step = "consensus"
    /\ quorum' = quorumPercentage
    /\ majority' = IF forVotes > againstVotes THEN "for"
                   ELSE IF againstVotes > forVotes THEN "against" ELSE "none"
    /\ arrivedToConsensus' = Consensus(quorumPercentage)
    /\ step' = "emission"
    /\ UNCHANGED <<signedVotes, forVotes, againstVotes, emission, toReward, next, report>>

DecideConsensus ==
    /\ step = "consensus"
    /\ quorum' = quorumPercentage
    /\ majority' = IF forVotes > againstVotes THEN "for" ELSE "against"
    /\ arrivedToConsensus' = Consensus(quorumPercentage)
    /\ step' = "emission"
    /\ UNCHANGED <<signedVotes, forVotes, againstVotes, emission, toReward, next, report>>

ReadEmission ==
    /\ step = "emission"
    /\ emission' = emissionPerVote
    /\ toReward' = IF arrivedToConsensus THEN << >> ELSE << <<NoUser, 0>> >>
    /\ step' = IF arrivedToConsensus /\ signedVotes # << >> THEN "reward" ELSE "report"
    /\ UNCHANGED <<signedVotes, forVotes, againstVotes, quorum, majority, arrivedToConsensus,
                   next, report>>

Reward(account, apeBalance) ==
    ((snapshot.balances[account] + apeBalance) * emission) \div Ether

\* Mutant of RewardNextVote: losers are rewarded as well.
RewardEveryVote(apeBalance) ==
    /\ step = "reward" /\ next <= Len(signedVotes)
    /\ LET vote == signedVotes[next] IN
       toReward' = Append(toReward, <<vote.account, Reward(vote.account, apeBalance)>>)
    /\ next' = next + 1
    /\ step' = IF next = Len(signedVotes) THEN "report" ELSE "reward"
    /\ UNCHANGED <<signedVotes, forVotes, againstVotes, quorum, majority, arrivedToConsensus,
                   emission, report>>

\* One turn of the loop; the APE balance is read in it.
RewardNextVote(apeBalance) ==
    /\ step = "reward" /\ next <= Len(signedVotes)
    /\ LET vote == signedVotes[next] IN
       toReward' = IF vote.choice = majority
                   THEN Append(toReward, <<vote.account, Reward(vote.account, apeBalance)>>)
                   ELSE toReward
    /\ next' = next + 1
    /\ step' = IF next = Len(signedVotes) THEN "report" ELSE "reward"
    /\ UNCHANGED <<signedVotes, forVotes, againstVotes, quorum, majority, arrivedToConsensus,
                   emission, report>>

\* The tree needs a leaf, and the ABI encoder refuses negative abstainVotes.
ReportResult ==
    /\ step = "report"
    /\ toReward # << >>
    /\ forVotes + againstVotes <= snapshot.totalSupply
    /\ report' = {[forVotes |-> forVotes, againstVotes |-> againstVotes,
                   voteMerkleRoot |-> Range(toReward)]}
    /\ step' = "done"
    /\ UNCHANGED <<signedVotes, forVotes, againstVotes, quorum, majority, arrivedToConsensus,
                   emission, toReward, next>>

\* Any request may fail, and nothing is caught: the process ends.
RunThrows ==
    /\ step \notin {"done", "failed"}
    /\ step' = "failed"
    /\ signedVotes' = << >> /\ forVotes' = 0 /\ againstVotes' = 0
    /\ quorum' = 0 /\ majority' = "against" /\ arrivedToConsensus' = FALSE
    /\ emission' = 0 /\ toReward' = << >> /\ next' = 1
    /\ UNCHANGED report

TallyNext ==
    \/ ReadVotes
    \/ CountVotes
    \/ DecideConsensus
    \/ ReadEmission
    \/ \E apeBalance \in ApeHoldings : RewardNextVote(apeBalance)
    \/ ReportResult
    \/ RunThrows
=============================================================================
