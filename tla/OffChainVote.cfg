\* Two accounts, two pages, which may vote for the same account, and wallets that
\* may switch.  Two votes reach a quorum of everything exactly, and any vote one
\* of nothing; the beacon has one round, so a vote of that round stays closed.
SPECIFICATION Spec
CONSTANTS
    A = A
    B = B
    Pages = {page1, page2}
    Accounts = {A, B}
    MaxRound = 1
    NoUser = nobody
    Ether = 2
    Snapshots <- MCSnapshots
    Quorums = {0, 2}
    Emissions = {1}
    ApeHoldings = {1}
SYMMETRY PageSymmetry
INVARIANTS
    OffChainTypeOK
    OneVotePerAccount
    CountIsExact
    ReportNeverRefused
    RewardsFollowVerdict
    RewardsAreTheWinners
CHECK_DEADLOCK FALSE
