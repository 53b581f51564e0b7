------------------------------ MODULE Governor -------------------------------
(***************************************************************************)
(* GovernorContract (contracts/contracts/GovernorContract.sol) together    *)
(* with the three contracts it talks to: it owns the token and the adapter *)
(* registry, and pays the bridge for the job that counts the votes.        *)
(*                                                                         *)
(* A transaction is atomic, so one action stands for an external function  *)
(* with every call it makes into the other contracts; a call that reverts  *)
(* disables the action.  Where the code does not look at its caller, the   *)
(* action is there for everybody: results for any id, jobs in anybody's    *)
(* name, and lilypadCancelled itself.                                      *)
(*                                                                         *)
(* Simplifications: a proposal id stands for the hash of its calls and its *)
(* description.  Its calls are any list of calls to the two contracts that *)
(* the Governor owns, of calls that revert (its own setters among them:    *)
(* its owner is the deployer) and of calls without an effect on what is    *)
(* modelled; but no proposal gives the ownership of the token or of the    *)
(* registry away, and what everybody may call of the Governor and the      *)
(* bridge is called in a transaction of its own.  A Merkle root is the set *)
(* of its leaves, {} the zero bytes32, so that a proof verifies exactly    *)
(* when the leaf is in the set.  The caller of requestVoteResolution sends *)
(* exactly the fee, as pages/vote does.  abstainVotes and the data string  *)
(* are emitted and never read.                                             *)
(***************************************************************************)
EXTENDS Integers, Sequences, FiniteSets, FiniteSetsExt, Functions

CONSTANTS
    ProposalIds,
    ZeroId,         \* bytes32(0): what jobIdToProposal holds for an unknown job
    Calls,          \* ProposalIds -> the calls the proposal makes, in their order
    MayPropose,     \* ProposalIds -> the users its description does not restrict
    NoUser,         \* address(0)
    Ether,          \* 1 ether, the scale of quorumPercentage
    VotingPeriods, Quorums, EmissionRates, DockerImages,  \* arguments of the setters
    DefaultImage, DefaultEmission,                        \* the declared initial values
    Responses,      \* the ResolutionResponses a job may report
    Undecodable,    \* a result string that does not decode to one
    ErrorMessages,
    MaxTime,        \* bound on the clock
    \* KickToken
    Users, Deployer, InitialSupply, TransferAmounts,
    \* AdapterRegistry
    Names, EmptyName, Hashes, NoHash,
    \* LilypadEvents
    Deployments, GovernorAddress, OtherClients, OtherSpec,
    Wallets, ZeroAddress, DefaultWallet, DefaultFee, DefaultMinAutoPay,
    MaxJobs, MaxReports,
    MaxOtherJobs    \* bound on the jobs that the Governor did not request

VARIABLES
    now,                \* block.timestamp
    votingPeriod, quorumPercentage, emissionPerVote, dockerImage,
    proposals, jobIdToProposal, alreadyClaimed,
    claimedRewards,     \* the ClaimedReward events
    balances, totalSupply, snapshots,
    adapters, adapterNames,
    initializable, hasAdmin, LILYPAD_FEE, escrowAmount, escrowMinAutoPay,
    escrowAddress, jobIds, lilypadJobHistory, lilypadJobResults, bridgeBalance, paid

Images == DockerImages \cup {DefaultImage}

\* The ids a report or a cancellation may come with.  One of the ends is never given to
\* a job, and stands for all ids that are not; the others may be used before they are.
JobIds == 0 .. MaxJobs

\* getSpecForProposalId: the only parts of the job's JSON that vary.
SpecFor(p) == [image |-> dockerImage, proposalId |-> p]

Clients == {GovernorAddress} \cup OtherClients
JobSpecs == [image : Images, proposalId : ProposalIds] \cup {OtherSpec}

Token == INSTANCE KickToken
Registry == INSTANCE AdapterRegistry WITH MaxNames <- Cardinality(Names)
\* Every job is paid with the fee, which is 0 behind a proxy.
Bridge == INSTANCE LilypadEvents WITH
    Requestors <- Clients,
    Specs <- JobSpecs,
    Results <- Responses \cup {Undecodable} \cup ErrorMessages,
    Payments <- {0, DefaultFee}, Fees <- {}, MinAutoPays <- {}, ReportIds <- JobIds

settings == <<votingPeriod, quorumPercentage, emissionPerVote, dockerImage>>
claimVars == <<alreadyClaimed, claimedRewards>>
governorVars == <<settings, proposals, jobIdToProposal, claimVars>>
tokenVars == <<balances, totalSupply, snapshots>>
registryVars == <<adapters, adapterNames>>
bridgeVars == <<initializable, hasAdmin, LILYPAD_FEE, escrowAmount, escrowMinAutoPay,
                escrowAddress, jobIds, lilypadJobHistory, lilypadJobResults,
                bridgeBalance, paid>>
vars == <<now, governorVars, tokenVars, registryVars, bridgeVars>>

-----------------------------------------------------------------------------
Leaves == (Users \cup {NoUser}) \X Nat

ResolutionResponse == [forVotes : Nat, againstVotes : Nat, voteMerkleRoot : SUBSET Leaves]

Call ==
    [op : {"add"}, name : Names, ipfsHash : Hashes]
    \cup [op : {"remove"}, name : Names]
    \cup [op : {"mint"}, wallet : Users, amount : Nat]
    \cup [op : {"snapshot", "other", "revert"}]

\* The container never reports a zero root: with nobody to reward the tree
\* still has the leaf of address(0).
ASSUME ResponsesAssumption ==
    /\ Responses \subseteq ResolutionResponse
    /\ \A response \in Responses : response.voteMerkleRoot # {}
    /\ Undecodable \notin Responses
    /\ NoUser \notin Users

ASSUME ProposalsAssumption ==
    /\ ZeroId \notin ProposalIds
    /\ Calls \in [ProposalIds -> Seq(Call)]
    /\ MayPropose \in [ProposalIds -> SUBSET Users]

ASSUME NumbersAssumption ==
    /\ Ether \in Nat \ {0} /\ InitialSupply \in Nat /\ Deployer \in Users
    /\ VotingPeriods \subseteq Nat /\ Quorums \subseteq Nat
    /\ EmissionRates \subseteq Nat /\ DefaultEmission \in Nat
    /\ TransferAmounts \subseteq Nat /\ MaxTime \in Nat

ASSUME BridgeAssumption ==
    /\ MaxJobs \in Nat /\ MaxReports \in Nat /\ MaxOtherJobs \in Nat
    /\ DefaultFee \in Nat /\ DefaultMinAutoPay \in Nat
    /\ Deployments \subseteq {"direct", "proxied"}

ProposalCore ==
    [voteStart : Nat, proposer : Users \cup {NoUser}, voteEnd : Nat,
     executed : BOOLEAN, canceled : BOOLEAN, forVotes : Nat, againstVotes : Nat,
     bridgeId : Nat, voteMerkleRoot : SUBSET Leaves, snapshotId : Nat]

\* What the mapping holds for an id that was never proposed.
NoProposal ==
    [voteStart |-> 0, proposer |-> NoUser, voteEnd |-> 0,
     executed |-> FALSE, canceled |-> FALSE, forVotes |-> 0, againstVotes |-> 0,
     bridgeId |-> 0, voteMerkleRoot |-> {}, snapshotId |-> 0]

GovernorTypeOK ==
    /\ now \in Nat \ {0}
    /\ votingPeriod \in Nat /\ quorumPercentage \in Nat /\ emissionPerVote \in Nat
    /\ dockerImage \in Images
    /\ proposals \in [ProposalIds \cup {ZeroId} -> ProposalCore]
    /\ jobIdToProposal \in [JobIds -> ProposalIds \cup {ZeroId}]
    /\ alreadyClaimed \in [ProposalIds \cup {ZeroId} -> SUBSET Users]
    /\ claimedRewards \subseteq
         [user : Users, amount : Nat, proposalId : ProposalIds \cup {ZeroId}]

\* After the constructors and the two transferOwnership calls of
\* deployContracts.ts; the script's two setter calls are steps of the deployer.
Init ==
    /\ now = 1
    /\ votingPeriod = 0 /\ quorumPercentage = 0
    /\ emissionPerVote = DefaultEmission
    /\ dockerImage = DefaultImage
    /\ proposals = [p \in ProposalIds \cup {ZeroId} |-> NoProposal]
    /\ jobIdToProposal = [id \in JobIds |-> ZeroId]
    /\ alreadyClaimed = [p \in ProposalIds \cup {ZeroId} |-> {}]
    /\ claimedRewards = {}
    /\ Token!TokenInit
    /\ Registry!RegistryInit
    /\ Bridge!BridgeInit

-----------------------------------------------------------------------------
\* Mutant of QuorumReached: of the live supply.
QuorumReachedNow(p) == proposals[p].forVotes >= (quorumPercentage * totalSupply) \div Ether

QuorumReached(p) ==
    proposals[p].forVotes >=
        (quorumPercentage * Token!TotalSupplyAt(proposals[p].snapshotId)) \div Ether

VoteSucceeded(p) == proposals[p].forVotes > proposals[p].againstVotes

Known(p) == proposals[p].voteStart # 0

\* Mutant of VotingOpen: an off-by-one at the deadline.
VotingOpenStrict(p) == proposals[p].voteEnd > now

VotingOpen(p) == proposals[p].voteEnd >= now

\* state(); "Unknown" where it reverts.  Nothing sets canceled, and no branch
\* returns Queued or Expired.
State(p) ==
    IF proposals[p].executed THEN "Executed"
    ELSE IF proposals[p].canceled THEN "Canceled"
    ELSE IF ~Known(p) THEN "Unknown"
    ELSE IF proposals[p].voteStart >= now THEN "Pending"
    ELSE IF VotingOpen(p) THEN "Active"
    ELSE IF proposals[p].bridgeId = 0 THEN "ResolutionToRequest"
    ELSE IF proposals[p].voteMerkleRoot = {} THEN "ResolutionRequested"
    ELSE IF QuorumReached(p) /\ VoteSucceeded(p) THEN "Succeeded"
    ELSE "Defeated"

\* The four setters, for the deployer: the Governor's own owner is never changed.
SetVotingPeriod(period) ==
    /\ votingPeriod' = period
    /\ UNCHANGED <<now, quorumPercentage, emissionPerVote, dockerImage, proposals,
                   jobIdToProposal, claimVars, tokenVars, registryVars,
                   bridgeVars>>

SetQuorumPercentage(percentage) ==
    /\ quorumPercentage' = percentage
    /\ UNCHANGED <<now, votingPeriod, emissionPerVote, dockerImage, proposals,
                   jobIdToProposal, claimVars, tokenVars, registryVars,
                   bridgeVars>>

SetEmissionPerVote(emission) ==
    /\ emissionPerVote' = emission
    /\ UNCHANGED <<now, votingPeriod, quorumPercentage, dockerImage, proposals,
                   jobIdToProposal, claimVars, tokenVars, registryVars,
                   bridgeVars>>

SetDockerImage(image) ==
    /\ dockerImage' = image
    /\ UNCHANGED <<now, votingPeriod, quorumPercentage, emissionPerVote, proposals,
                   jobIdToProposal, claimVars, tokenVars, registryVars,
                   bridgeVars>>

\* Mutant of Propose: the deadline computed with the wrong sign.
ProposeBackwards(p, proposer) ==
    /\ proposer \in MayPropose[p]
    /\ ~Known(p)
    /\ Token!Snapshot
    /\ proposals' = [proposals EXCEPT ![p] =
         [NoProposal EXCEPT !.proposer = proposer,
                            !.voteStart = now,
                            !.voteEnd = votingPeriod - now,
                            !.snapshotId = Len(snapshots')]]
    /\ UNCHANGED <<now, settings, jobIdToProposal, claimVars, registryVars, bridgeVars>>

Propose(p, proposer) ==
    /\ proposer \in MayPropose[p]
    /\ ~Known(p)
    /\ Token!Snapshot
    /\ proposals' = [proposals EXCEPT ![p] =
         [NoProposal EXCEPT !.proposer = proposer,
                            !.voteStart = now,
                            !.voteEnd = now + votingPeriod,
                            !.snapshotId = Len(snapshots')]]
    /\ UNCHANGED <<now, settings, jobIdToProposal, claimVars, registryVars,
                   bridgeVars>>

\* Mutant of RequestVoteResolution: the job is not remembered.
RequestVoteResolutionUnmapped(p) ==
    /\ State(p) = "ResolutionToRequest"
    /\ Bridge!RunLilypadJob(GovernorAddress, SpecFor(p), LILYPAD_FEE)
    /\ jobIds > 0
    /\ proposals' = [proposals EXCEPT ![p].bridgeId = jobIds]
    /\ UNCHANGED <<now, settings, jobIdToProposal, claimVars, tokenVars, registryVars>>

RequestVoteResolution(p) ==
    /\ State(p) = "ResolutionToRequest"
    /\ Bridge!RunLilypadJob(GovernorAddress, SpecFor(p), LILYPAD_FEE)
    /\ jobIds > 0    \* require(id > 0, "job didn't return a value")
    /\ proposals' = [proposals EXCEPT ![p].bridgeId = jobIds]
    /\ jobIdToProposal' = [jobIdToProposal EXCEPT ![jobIds] = p]
    /\ UNCHANGED <<now, settings, claimVars, tokenVars, registryVars>>

\* Mutant of LilypadFulfilled: one field is not copied.
LilypadFulfilledPartly(id, result) ==
    /\ result \in Responses
    /\ proposals' = [proposals EXCEPT
         ![jobIdToProposal[id]].voteMerkleRoot = result.voteMerkleRoot,
         ![jobIdToProposal[id]].forVotes = result.forVotes]

\* The result goes to whatever proposal the job id maps to, in any state of it.
LilypadFulfilled(id, result) ==
    /\ result \in Responses    \* hexStrToBytes and abi.decode revert otherwise
    /\ proposals' = [proposals EXCEPT
         ![jobIdToProposal[id]].voteMerkleRoot = result.voteMerkleRoot,
         ![jobIdToProposal[id]].forVotes = result.forVotes,
         ![jobIdToProposal[id]].againstVotes = result.againstVotes]

LilypadCancelled(id) ==
    proposals' = [proposals EXCEPT ![jobIdToProposal[id]].bridgeId = 0]

\* lilypadCancelled compares its argument _from with the bridge, not its caller: it need
\* not come from the bridge, where then nothing is recorded.
CancelDirectly(id) ==
    /\ LilypadCancelled(id)
    /\ UNCHANGED <<now, settings, jobIdToProposal, claimVars, tokenVars,
                   registryVars, bridgeVars>>

\* returnLilypadResults and returnLilypadError with their callback.
ReturnResults(id, result) ==
    /\ Bridge!ReturnLilypadResults(GovernorAddress, id, result)
    /\ LilypadFulfilled(id, result)
    /\ UNCHANGED <<now, settings, jobIdToProposal, claimVars, tokenVars,
                   registryVars>>

ReturnError(id, errorMsg) ==
    /\ Bridge!ReturnLilypadError(GovernorAddress, id, errorMsg)
    /\ LilypadCancelled(id)
    /\ UNCHANGED <<now, settings, jobIdToProposal, claimVars, tokenVars,
                   registryVars>>

\* Mutants of ClaimReward: the claim is not remembered, and the proof is not
\* bound to the caller.
ClaimRewardAgain(user, amount, p) ==
    /\ <<user, amount>> \in proposals[p].voteMerkleRoot
    /\ user \notin alreadyClaimed[p]
    /\ Token!Mint(user, amount)
    /\ claimedRewards' = claimedRewards \cup
         {[user |-> user, amount |-> amount, proposalId |-> p]}
    /\ UNCHANGED <<now, settings, proposals, jobIdToProposal, alreadyClaimed,
                   registryVars, bridgeVars>>

ClaimRewardOfAnother(user, amount, p) ==
    /\ \E leaf \in proposals[p].voteMerkleRoot : leaf[2] = amount
    /\ user \notin alreadyClaimed[p]
    /\ alreadyClaimed' = [alreadyClaimed EXCEPT ![p] = @ \cup {user}]
    /\ Token!Mint(user, amount)
    /\ claimedRewards' = claimedRewards \cup
         {[user |-> user, amount |-> amount, proposalId |-> p]}
    /\ UNCHANGED <<now, settings, proposals, jobIdToProposal, registryVars, bridgeVars>>

ClaimReward(user, amount, p) ==
    /\ <<user, amount>> \in proposals[p].voteMerkleRoot
    /\ user \notin alreadyClaimed[p]
    /\ alreadyClaimed' = [alreadyClaimed EXCEPT ![p] = @ \cup {user}]
    /\ Token!Mint(user, amount)
    /\ claimedRewards' = claimedRewards \cup
         {[user |-> user, amount |-> amount, proposalId |-> p]}
    /\ UNCHANGED <<now, settings, proposals, jobIdToProposal, registryVars,
                   bridgeVars>>

\* What a call does to the contracts the Governor owns, and when it reverts.
CallReverts(call, owned) ==
    \/ call.op = "add" /\ Registry!Exists(owned.registry, call.name)
    \/ call.op = "remove" /\ ~Registry!Exists(owned.registry, call.name)
    \/ call.op = "revert"

AfterCall(call, owned) ==
    [registry |-> CASE call.op = "add" ->
                         Registry!Added(owned.registry, call.name, call.ipfsHash)
                    [] call.op = "remove" -> Registry!Removed(owned.registry, call.name)
                    [] OTHER -> owned.registry,
     token    |-> CASE call.op = "mint" ->
                         Token!Minted(owned.token, call.wallet, call.amount)
                    [] call.op = "snapshot" -> Token!Snapshotted(owned.token)
                    [] OTHER -> owned.token]

\* The loop of _execute: what is there after each of the calls.
AfterCalls(calls, owned) ==
    LET after[i \in 0 .. Len(calls)] ==
          IF i = 0 THEN owned ELSE AfterCall(calls[i], after[i - 1])
    IN after

Owned == [registry |-> Registry!Storage, token |-> Token!Ledger]

SomeCallReverts(calls) ==
    \E i \in DOMAIN calls : CallReverts(calls[i], AfterCalls(calls, Owned)[i - 1])

\* One call that reverts reverts the transaction.
MakeCalls(calls) ==
    LET owned == AfterCalls(calls, Owned)[Len(calls)]
    IN  /\ ~SomeCallReverts(calls)
        /\ Registry!Becomes(owned.registry)
        /\ Token!TokenBecomes(owned.token)

\* Mutants of Execute: a defeated proposal passes the check, the execution is not
\* recorded, and the check asks for the state Queued alone, which no proposal has.
ExecuteAnyVerdict(p) ==
    /\ State(p) \in {"Succeeded", "Defeated"}
    /\ proposals' = [proposals EXCEPT ![p].executed = TRUE]
    /\ MakeCalls(Calls[p])
    /\ UNCHANGED <<now, settings, jobIdToProposal, claimVars, bridgeVars>>

ExecuteUnrecorded(p) ==
    /\ State(p) = "Succeeded"
    /\ MakeCalls(Calls[p])
    /\ UNCHANGED <<now, settings, proposals, jobIdToProposal, claimVars, bridgeVars>>

ExecuteQueued(p) ==
    /\ State(p) = "Queued"
    /\ proposals' = [proposals EXCEPT ![p].executed = TRUE]
    /\ MakeCalls(Calls[p])
    /\ UNCHANGED <<now, settings, jobIdToProposal, claimVars, bridgeVars>>

Execute(p) ==
    /\ State(p) = "Succeeded"
    /\ proposals' = [proposals EXCEPT ![p].executed = TRUE]
    /\ MakeCalls(Calls[p])
    /\ UNCHANGED <<now, settings, jobIdToProposal, claimVars, bridgeVars>>

Tick ==
    /\ now < MaxTime
    /\ now' = now + 1
    /\ UNCHANGED <<governorVars, tokenVars, registryVars, bridgeVars>>

-----------------------------------------------------------------------------
\* What others do with the token and the bridge.
TransferTokens(from, to, amount) ==
    /\ Token!Transfer(from, to, amount)
    /\ UNCHANGED <<now, governorVars, registryVars, bridgeVars>>

\* A job that nobody requested through the Governor, although it may name it.
OtherRequest(from, spec) ==
    /\ Cardinality({i \in DOMAIN lilypadJobHistory :
         jobIdToProposal[lilypadJobHistory[i].id] = ZeroId}) < MaxOtherJobs
    /\ Bridge!RunLilypadJob(from, spec, LILYPAD_FEE)
    /\ UNCHANGED <<now, governorVars, tokenVars, registryVars>>

InitializeBridge ==
    /\ Bridge!Initialize
    /\ UNCHANGED <<now, governorVars, tokenVars, registryVars>>

DeployerNext ==
    \/ \E period \in VotingPeriods : SetVotingPeriod(period)
    \/ \E percentage \in Quorums : SetQuorumPercentage(percentage)
    \/ \E emission \in EmissionRates : SetEmissionPerVote(emission)
    \/ \E image \in DockerImages : SetDockerImage(image)

UserNext ==
    \/ \E p \in ProposalIds, user \in Users : Propose(p, user)
    \/ \E p \in ProposalIds : RequestVoteResolution(p)
    \/ \E p \in ProposalIds : Execute(p)
    \/ \E p \in ProposalIds \cup {ZeroId}, user \in Users :
         \E amount \in {leaf[2] : leaf \in proposals[p].voteMerkleRoot} :
           ClaimReward(user, amount, p)
    \/ \E from, to \in Users, amount \in TransferAmounts : TransferTokens(from, to, amount)

BridgeNext ==
    \/ \E id \in JobIds, result \in Responses \cup {Undecodable} : ReturnResults(id, result)
    \/ \E id \in JobIds, errorMsg \in ErrorMessages : ReturnError(id, errorMsg)
    \/ \E id \in JobIds : CancelDirectly(id)
    \/ \E from \in Clients, spec \in JobSpecs : OtherRequest(from, spec)
    \/ InitializeBridge

Next == DeployerNext \/ UserNext \/ BridgeNext \/ Tick

Spec == Init /\ [][Next]_vars

-----------------------------------------------------------------------------
\* Two contracts agree on who asked for what: a job that the Governor maps to a proposal
\* is in the bridge's history once, from the Governor and with that proposal in its spec,
\* and the job a proposal waits for is mapped to it.  (The converse does not hold: anyone
\* may queue a job in the Governor's name, which the Governor never hears of.)
JobsMatchBridge ==
    /\ \A id \in JobIds : jobIdToProposal[id] # ZeroId =>
         \E i \in DOMAIN lilypadJobHistory :
           /\ lilypadJobHistory[i].requestor = GovernorAddress
           /\ \E image \in Images : lilypadJobHistory[i].spec =
                                      [image |-> image, proposalId |-> jobIdToProposal[id]]
           /\ \A k \in DOMAIN lilypadJobHistory : lilypadJobHistory[k].id = id <=> k = i
    /\ \A p \in ProposalIds : proposals[p].bridgeId # 0 =>
         jobIdToProposal[proposals[p].bridgeId] = p

\* The votes are never counted before the voting is over: a job is requested,
\* and so a result or a reward exists, only for a proposal past its deadline.
VotingClosedBeforeTally ==
    \A p \in ProposalIds :
        \/ \E id \in JobIds : jobIdToProposal[id] = p
        \/ proposals[p].voteMerkleRoot # {}
        \/ alreadyClaimed[p] # {}
        => Known(p) /\ proposals[p].voteEnd < now

\* A result the bridge recorded for a job of the proposal; for the zero id, which takes
\* what is reported for a job that is unknown, or not known yet, any result.
Reported(p) ==
    {r \in lilypadJobResults :
        /\ r.requestor = GovernorAddress
        /\ r.success
        /\ p \in {ZeroId, jobIdToProposal[r.id]}}

\* A proposal carries, as one piece, a result reported for a job that was
\* requested for it: results arriving late, twice, out of order, before their job or
\* under the id of no job never mix two proposals or two results.
TallyFromOwnJob ==
    \A p \in ProposalIds \cup {ZeroId} : proposals[p].voteMerkleRoot # {} =>
        \E r \in Reported(p) :
            /\ proposals[p].voteMerkleRoot = r.result.voteMerkleRoot
            /\ proposals[p].forVotes = r.result.forVotes
            /\ proposals[p].againstVotes = r.result.againstVotes

\* Every reward paid is a leaf of a result reported for that proposal, also
\* after a later result replaced the root it was claimed under.
ClaimsBacked ==
    \A claim \in claimedRewards :
        \E r \in Reported(claim.proposalId) :
            <<claim.user, claim.amount>> \in r.result.voteMerkleRoot

\* What a proposal's calls mint when they are made.
MintedBy(calls) ==
    SumFunction([i \in DOMAIN calls |-> IF calls[i].op = "mint" THEN calls[i].amount ELSE 0])

ExecutedProposals == {p \in ProposalIds : proposals[p].executed}

\* KICK enters circulation through the rewards, each user at most once per proposal,
\* whatever roots come and go between the claims, and through the calls of executed
\* proposals, each made once.
SupplyAccounted ==
    /\ totalSupply = InitialSupply
         + SumFunction([claim \in claimedRewards |-> claim.amount])
         + SumFunction([p \in ExecutedProposals |-> MintedBy(Calls[p])])
    /\ \A c, d \in claimedRewards :
         c.user = d.user /\ c.proposalId = d.proposalId => c = d

\* An approved adapter comes from an executed proposal to add exactly it.
RegistryGoverned ==
    \A name \in Names : Registry!Registered(name) =>
        \E p \in ProposalIds :
            /\ proposals[p].executed
            /\ \E i \in DOMAIN Calls[p] : Calls[p][i] =
                 [op |-> "add", name |-> name, ipfsHash |-> adapters[name].ipfsHash]

\* The registry changes only in a step that executes one proposal, which had
\* succeeded under the quorum of that moment.
ExecutionIsGoverned ==
    [][ adapters' # adapters \/ adapterNames' # adapterNames =>
          \E p \in ProposalIds :
            /\ State(p) = "Succeeded" /\ State(p)' = "Executed"
            /\ \A q \in ProposalIds \ {p} : proposals'[q] = proposals[q] ]_vars

\* A verdict, once shown, moves only when the proposal's own record or the quorum
\* percentage does: the rewards minted meanwhile, for this proposal or another,
\* and the other proposals' results do not shift it.
Verdict(p) == State(p) \in {"Succeeded", "Defeated"}

VerdictStable ==
    [][ \A p \in ProposalIds :
          Verdict(p) /\ proposals'[p] = proposals[p] /\ quorumPercentage' = quorumPercentage
          => State(p)' = State(p) ]_vars

-----------------------------------------------------------------------------
\* The inductive invariant.  The job counter tells the ids in use, each by one job, from
\* the next one; nothing is mapped beyond it, nor under the id 0, which no request of the
\* Governor is ever given; and an id is mapped only for a closed vote.
CounterBounds ==
    /\ jobIds <= Len(lilypadJobHistory) + 1
    /\ Len(lilypadJobHistory) <= MaxJobs
    /\ \A i \in DOMAIN lilypadJobHistory : lilypadJobHistory[i].id < jobIds
    /\ \A i, k \in DOMAIN lilypadJobHistory :
         lilypadJobHistory[i].id = lilypadJobHistory[k].id => i = k

MappedJobsClosed ==
    \A id \in JobIds : jobIdToProposal[id] # ZeroId =>
        /\ 0 < id /\ id < jobIds
        /\ Known(jobIdToProposal[id])
        /\ proposals[jobIdToProposal[id]].voteEnd < now

ClaimsHaveJob ==
    \A p \in ProposalIds : alreadyClaimed[p] # {} =>
        \E id \in JobIds : jobIdToProposal[id] = p

TypeInv ==
    /\ GovernorTypeOK
    /\ Token!TokenTypeOK
    /\ Registry!RegistryTypeOK
    /\ Bridge!BridgeTypeOK

CoreInv ==
    /\ CounterBounds
    /\ MappedJobsClosed
    /\ ClaimsHaveJob
    /\ JobsMatchBridge
    /\ TallyFromOwnJob
    /\ ClaimsBacked

IInv == TypeInv /\ CoreInv

-----------------------------------------------------------------------------
\* Fairness: blocks keep coming; somebody presses the "Request resolution" and "Execute"
\* buttons of pages/vote.tsx while they are offered.  Nothing is promised of the network:
\* a job may stay without a result.
Fairness ==
    /\ WF_vars(Tick)
    /\ \A p \in ProposalIds : WF_vars(RequestVoteResolution(p)) /\ WF_vars(Execute(p))

FairSpec == Spec /\ Fairness

OutOfJobs == Len(lilypadJobHistory) = MaxJobs

\* On a directly deployed bridge a proposal waits for nobody but the network.  Once its
\* voting has an end within the clock's bound, and again after each cancellation of its
\* job, it comes to wait for a result, is decided against, or is executed, unless one of
\* its calls reverts.  (OutOfJobs is the bound of the model, not a state of the code.)
ProposalResolves ==
    \A p \in ProposalIds :
        Bridge!Direct /\ Known(p) /\ proposals[p].voteEnd < MaxTime
        ~> \/ State(p) \in {"ResolutionRequested", "Defeated", "Executed"}
           \/ State(p) = "Succeeded" /\ SomeCallReverts(Calls[p])
           \/ State(p) = "ResolutionToRequest" /\ OutOfJobs
=============================================================================
