---------------------------- MODULE OffChainVote -----------------------------
(***************************************************************************)
(* The off-chain vote on one proposal from the voting pages to the report  *)
(* of the tally container: VoteTile and one run of TallyContainer, which   *)
(* share the votes tile and the beacon.  The job is requested, and the     *)
(* container started, only once the voting is over; what it then reads of  *)
(* the chain may change between two of its reads.                          *)
(*                                                                         *)
(* Simplification: of the chain only what the container reads is there.    *)
(***************************************************************************)
EXTENDS VoteTile, FiniteSetsExt

CONSTANTS
    NoUser, Ether,
    Snapshots,       \* possible snapshots of the KICK token
    Quorums, Emissions, ApeHoldings

VARIABLES
    step, signedVotes, forVotes, againstVotes, quorum, majority, arrivedToConsensus,
    emission, toReward, next, report,
    snapshot, quorumPercentage, emissionPerVote

Container == INSTANCE TallyContainer

runVars == <<step, signedVotes, forVotes, againstVotes, quorum, majority,
             arrivedToConsensus, emission, toReward, next, report>>
pageVars == <<voting, votesTile, beaconRound, votingOpen>>
chainVars == <<snapshot, quorumPercentage, emissionPerVote>>
vars == <<pageVars, runVars, chainVars>>

ASSUME OffChainAssumption ==
    /\ NoUser \notin Accounts
    /\ Ether \in Nat \ {0}
    /\ Quorums \subseteq Nat /\ Emissions \subseteq Nat
    /\ ApeHoldings \subseteq Nat
    /\ IsFiniteSet(Accounts) /\ Accounts # {}
    /\ Snapshots \subseteq [balances : [Accounts -> Nat], totalSupply : Nat]
    /\ \A s \in Snapshots : SumFunction(s.balances) <= s.totalSupply

Leaves == (Accounts \cup {NoUser}) \X Nat

OffChainTypeOK ==
    /\ VoteTileTypeOK
    /\ step \in {"start", "count", "consensus", "emission", "reward", "report", "done", "failed"}
    /\ signedVotes \in Seq(Vote)
    /\ forVotes \in Nat /\ againstVotes \in Nat /\ quorum \in Nat
    /\ majority \in VoteStrings /\ arrivedToConsensus \in BOOLEAN
    /\ emission \in Nat /\ toReward \in Seq(Leaves) /\ next \in Nat
    /\ report \subseteq [forVotes : Nat, againstVotes : Nat, voteMerkleRoot : SUBSET Leaves]

Init ==
    /\ VoteTileInit
    /\ Container!TallyInit
    /\ snapshot \in Snapshots
    /\ quorumPercentage \in Quorums
    /\ emissionPerVote \in Emissions

VotingStep == VoteTileNext /\ UNCHANGED <<runVars, chainVars>>

TallyStep == ~votingOpen /\ Container!TallyNext /\ UNCHANGED <<pageVars, chainVars>>

SetQuorumPercentage(percentage) ==
    /\ quorumPercentage' = percentage
    /\ UNCHANGED <<pageVars, runVars, snapshot, emissionPerVote>>

SetEmissionPerVote(rate) ==
    /\ emissionPerVote' = rate
    /\ UNCHANGED <<pageVars, runVars, snapshot, quorumPercentage>>

Next ==
    \/ VotingStep
    \/ TallyStep
    \/ \E percentage \in Quorums : SetQuorumPercentage(percentage)
    \/ \E rate \in Emissions : SetEmissionPerVote(rate)

Spec == Init /\ [][Next]_vars

-----------------------------------------------------------------------------
Voters(choice) ==
    {account \in Accounts : \E i \in DOMAIN signedVotes :
        /\ signedVotes[i].account = account /\ signedVotes[i].signer = account
        /\ signedVotes[i].choice = choice}

Weight(accounts) == SumFunctionOnSet(snapshot.balances, accounts)

\* The totals are those of the KICK balances at the snapshot, which is all that the
\* container adds up, each account counted once and on one side, whatever votes were
\* lost, signed with another account or stored late.  (APE, which the documents say is
\* voted with, is in no total: ApeVotesCount.)
CountIsExact ==
    step \notin {"start", "count", "failed"} =>
        /\ Voters("for") \cap Voters("against") = {}
        /\ forVotes = Weight(Voters("for"))
        /\ againstVotes = Weight(Voters("against"))

\* "They can also vote with ApeCoin" (README.md), and the voting page shows the totals as
\* "(KICK+APE)": what a side's voters hold of APE, each at least the least holding there
\* is, is part of its total.  The container reads APE for the rewards only.
ApeVotesCount ==
    step \notin {"start", "count", "failed"} =>
        /\ forVotes >= Weight(Voters("for")) + Min(ApeHoldings) * Cardinality(Voters("for"))
        /\ againstVotes >= Weight(Voters("against"))
                            + Min(ApeHoldings) * Cardinality(Voters("against"))

\* A tally that has been computed can be reported: the rest of the supply is not
\* negative and the Merkle tree has a leaf.
ReportNeverRefused ==
    step = "report" =>
        /\ forVotes + againstVotes <= snapshot.totalSupply
        /\ toReward # << >>

\* The Governor's _quorumReached and _voteSucceeded for a report.
Accepted(r) ==
    /\ r.forVotes >= (quorumPercentage * snapshot.totalSupply) \div Ether
    /\ r.forVotes > r.againstVotes

Rewarded(r) == {leaf[1] : leaf \in r.voteMerkleRoot} \ {NoUser}

\* Two programs, one verdict: at any time that the quorum is the one the
\* container read, the Governor accepts the proposal exactly when the report
\* rewards the voters for it.
RewardsFollowVerdict ==
    \A r \in report :
        quorumPercentage = quorum =>
            (Accepted(r) <=> Rewarded(r) # {} /\ Rewarded(r) = Voters("for"))

\* Only voters of the winning side are rewarded, all of them, each with one leaf.
RewardsAreTheWinners ==
    \A r \in report :
        /\ Rewarded(r) \in {{}, Voters(majority)}
        /\ Cardinality(r.voteMerkleRoot) = Max({1, Cardinality(Rewarded(r))})

-----------------------------------------------------------------------------
\* The inductive invariant: how far the run has come says what its variables hold.
SignedByAccount ==
    /\ OnePerAccount(signedVotes)
    /\ \A i \in DOMAIN signedVotes : signedVotes[i].signer = signedVotes[i].account

VerdictReached ==
    step \in {"emission", "reward", "report", "done"} =>
        /\ majority = IF forVotes > againstVotes THEN "for" ELSE "against"
        /\ arrivedToConsensus = Container!Consensus(quorum)

\* The accounts the first n votes reward.
Winners(n) ==
    {signedVotes[i].account : i \in {k \in 1 .. n : signedVotes[k].choice = majority}}

\* The loop has one leaf for each winner it has passed.
LeavesOfWinners ==
    /\ next \in 1 .. Len(signedVotes) + 1
    /\ step = "reward" <=> next <= Len(signedVotes)
    /\ {toReward[i][1] : i \in DOMAIN toReward} = Winners(next - 1)
    /\ \A i, k \in DOMAIN toReward : toReward[i][1] = toReward[k][1] => i = k

RewardsSoFar ==
    /\ step \in {"start", "count", "consensus", "emission", "failed"} => next = 1
    /\ step \in {"reward", "report", "done"} =>
         IF arrivedToConsensus
         THEN LeavesOfWinners
         ELSE step # "reward" /\ toReward = << <<NoUser, 0>> >>

ReportIsResult ==
    report # {} =>
        /\ step = "done"
        /\ report = {[forVotes |-> forVotes, againstVotes |-> againstVotes,
                      voteMerkleRoot |-> Range(toReward)]}

TallyInv ==
    /\ OffChainTypeOK
    /\ snapshot \in Snapshots /\ quorumPercentage \in Quorums /\ emissionPerVote \in Emissions
    /\ SignedByAccount
    /\ CountIsExact
    /\ VerdictReached
    /\ RewardsSoFar
    /\ ReportIsResult
=============================================================================
