\* A single round of the beacon is enough to open a vote.
SPECIFICATION VoteTileSpec
CONSTANTS
    Pages = {page1, page2}
    Accounts = {A, B}
    MaxRound = 1
INVARIANT
    VotesHiddenWhileVoting
CHECK_DEADLOCK FALSE
