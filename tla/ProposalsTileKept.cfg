SPECIFICATION Spec
CONSTANTS
    p1 = p1
    p2 = p2
    ProposalIds = {p1}
    Additions = {p1}
    Undefined = undefined
    Pages = {page1, page2}
    MaxJobs = 1
PROPERTIES
    EntriesKept
