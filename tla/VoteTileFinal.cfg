\* Two pages voting at once with two accounts.
SPECIFICATION VoteTileSpec
CONSTANTS
    Pages = {page1, page2}
    Accounts = {A, B}
    MaxRound = 1
PROPERTY
    VoteIsFinal
CHECK_DEADLOCK FALSE
