\* The instance of OffChainVote.cfg with one page: every account holds APE, and the first
\* vote that is counted has a total without it.
SPECIFICATION Spec
CONSTANTS
    A = A
    B = B
    Pages = {page1}
    Accounts = {A, B}
    MaxRound = 1
    NoUser = nobody
    Ether = 2
    Snapshots <- MCSnapshots
    Quorums = {2}
    Emissions = {1}
    ApeHoldings = {1}
INVARIANT
    ApeVotesCount
CHECK_DEADLOCK FALSE
