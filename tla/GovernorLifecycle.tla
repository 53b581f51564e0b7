-------------------------- MODULE GovernorLifecycle --------------------------
(***************************************************************************)
(* The Governor implements ProposalLifecycle, for each of its proposals.   *)
(***************************************************************************)
EXTENDS Governor

CONSTANT Subject    \* the proposal looked at

ASSUME SubjectAssumption == Subject \in ProposalIds

JobsFor(p) == {id \in JobIds : jobIdToProposal[id] = p}

Lifecycle == INSTANCE ProposalLifecycle WITH
    status <- State(Subject),
    bridgeId <- proposals[Subject].bridgeId,
    jobs <- JobsFor(Subject),
    tallied <- proposals[Subject].voteMerkleRoot # {}

\* Whatever the other proposals, the clients of the bridge, late and repeated
\* reports and the settings do, a proposal goes through its life cycle: no tally
\* before the deadline, no way back to the voting, one execution for good.
FollowsLifecycle == Lifecycle!Spec
=============================================================================
