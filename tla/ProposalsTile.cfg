SPECIFICATION Spec
CONSTANTS
    p1 = p1
    p2 = p2
    ProposalIds = {p1, p2}
    Additions = {p1, p2}
    Undefined = undefined
    Pages = {page1, page2}
    MaxJobs = 1
INVARIANTS
    ProposalsTypeOK
    EntriesUnique
    JobIdsOwn
    ExecutedIsFinal
PROPERTY
    FollowsDocument
SYMMETRY TileSymmetry
CONSTRAINT OneOrOne
