---------------------------- MODULE ProposalChain -----------------------------
(***************************************************************************)
(* The chain as the programs off it see it: several proposals, each of     *)
(* them a ProposalLifecycle, which is what Governor implements, and the    *)
(* jobs, which are not shared (Governor's JobsMatchBridge).                *)
(***************************************************************************)
EXTENDS Integers, Sequences, SequencesExt, FiniteSets

CONSTANTS
    ProposalIds,
    MaxJobs      \* bound on the job ids

VARIABLE chain   \* what ProposalLifecycle keeps, for each proposal

Lifecycle(p) == INSTANCE ProposalLifecycle WITH
    status <- chain[p].status, bridgeId <- chain[p].bridgeId,
    jobs <- chain[p].jobs, tallied <- chain[p].tallied

Statuses ==
    {"Unknown", "Pending", "Active", "ResolutionToRequest", "ResolutionRequested",
     "Succeeded", "Defeated", "Executed"}

Jobs == 1 .. MaxJobs

ASSUME ChainAssumption == MaxJobs \in Nat

ChainRecord ==
    [status : Statuses, bridgeId : {0} \cup Jobs, jobs : SUBSET Jobs, tallied : BOOLEAN]

ChainInit ==
    chain = [p \in ProposalIds |->
      [status |-> "Unknown", bridgeId |-> 0, jobs |-> {}, tallied |-> FALSE]]

KnownProposals == {p \in ProposalIds : chain[p].status # "Unknown"}

\* The bridge's counter gives an id to one job of one proposal.
NewJobs == Jobs \ UNION {chain[p].jobs : p \in ProposalIds}

\* A transaction or a new block that changes what state() of p returns; tallied is
\* whether p has a result then.
ChainChanges(p, tallied) ==
    \E state \in Statuses, id \in {0, chain[p].bridgeId} \cup NewJobs :
      /\ chain' = [chain EXCEPT ![p] =
           [status |-> state, bridgeId |-> id,
            jobs |-> @.jobs \cup ({id} \ {0}), tallied |-> tallied]]
      /\ Lifecycle(p)!Next
=============================================================================
