----------------------------- MODULE MCTallyJobs ------------------------------
(* Symmetry for TallyJobs. *)
EXTENDS TallyJobs, TLC

JobsSymmetry ==
    Permutations(ProposalIds) \cup Permutations(Names) \cup Permutations(Containers)
=============================================================================
