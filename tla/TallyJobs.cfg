\* Two proposals that add one adapter or two, two runs at once.
SPECIFICATION Spec
CONSTANTS
    ProposalIds = {p1, p2}
    Names = {name1, name2}
    Containers = {c1, c2}
    MaxJobs = 2
    NoTally = NoTally
SYMMETRY JobsSymmetry
INVARIANTS
    JobsTypeOK
    TallyOfOwnVotes
    TallyAfterVoting
    SnapshotOfNamesake
