------------------------------ MODULE VoteTile ------------------------------
(***************************************************************************)
(* Voting off chain on one proposal: vote() of the voting page             *)
(* (web/pages/vote.tsx) running in several browser pages, the votes tile   *)
(* they share (web/utils/tiles.ts) and the drand beacon a vote is          *)
(* encrypted to (web/utils/tlock.ts).                                      *)
(*                                                                         *)
(* vote() reads the whole list, waits for the wallet and for the beacon,   *)
(* and writes the whole list back, so other pages get in between.          *)
(*                                                                         *)
(* Simplifications: a page runs one vote() at a time, with whatever        *)
(* account its wallet has selected at the moment, so an account may be     *)
(* voting in several pages; a message is the choice it carries, a          *)
(* signature its signer, a cyphertext the round it opens at; the tile      *)
(* keeps the last content written.  A page offers its buttons by the       *)
(* status of its last refresh, so vote() may also run after the deadline.  *)
(***************************************************************************)
EXTENDS Integers, Sequences, Functions

CONSTANTS
    Pages,
    Accounts,
    MaxRound    \* bound on the beacon

VARIABLES
    voting,       \* the run of vote() in a page
    votesTile,    \* the tile's data; << >> also for a tile never written
    beaconRound,  \* the latest round of the beacon
    votingOpen    \* the proposal is Active on chain

voteTileVars == <<voting, votesTile, beaconRound, votingOpen>>

VoteStrings == {"for", "against"}

Vote == [account : Accounts, choice : VoteStrings, signer : Accounts, round : Nat]

\* The local variables of vote(); signer and round are filled in on the way.
Voting ==
    [step : {"idle", "sign", "store"}, newVotes : Seq(Vote), vote : Vote]

NotVoting(page) == voting[page].step = "idle"

VoteTileTypeOK ==
    /\ votesTile \in Seq(Vote)
    /\ voting \in [Pages -> Voting]
    /\ beaconRound \in Nat
    /\ votingOpen \in BOOLEAN

\* A vote before it is signed and encrypted.
Draft(account, choice) ==
    [account |-> account, choice |-> choice, signer |-> account, round |-> 0]

\* What the variables hold in a page that is not voting.
NoVoting ==
    [step |-> "idle", newVotes |-> << >>,
     vote |-> Draft(CHOOSE account \in Accounts : TRUE, "for")]

VoteTileInit ==
    /\ voting = [page \in Pages |-> NoVoting]
    /\ votesTile = << >>
    /\ beaconRound = 0
    /\ votingOpen = TRUE

HasVoted(account, votes) == \E i \in DOMAIN votes : votes[i].account = account

\* The account is the one of the click; it is told "You already voted" if the
\* list just read has a vote of it.
BeginVote(page, account, choice) ==
    /\ NotVoting(page)
    /\ ~HasVoted(account, votesTile)
    /\ voting' = [voting EXCEPT ![page] =
         [step |-> "sign", newVotes |-> votesTile, vote |-> Draft(account, choice)]]
    /\ UNCHANGED <<votesTile, beaconRound, votingOpen>>

\* The round timelockEncryption encrypts to: the one after the latest.  The
\* duration it is given only enters a roundNumber that is not used.
EncryptionRound == beaconRound + 1

\* The wallet signs with the account selected by now, and the signed message is
\* encrypted.  A signature touches nothing that is shared, so that it is one step
\* with the encryption.
SignAndEncrypt(page, signer) ==
    /\ voting[page].step = "sign"
    /\ voting' = [voting EXCEPT ![page].step = "store",
                                ![page].vote.signer = signer,
                                ![page].vote.round = EncryptionRound]
    /\ UNCHANGED <<votesTile, beaconRound, votingOpen>>

\* Mutant of StoreVotes: the vote is appended to the tile's present content,
\* which the page has not searched.
StoreVotesFresh(page) ==
    /\ voting[page].step = "store"
    /\ votesTile' = Append(votesTile, voting[page].vote)
    /\ voting' = [voting EXCEPT ![page] = NoVoting]
    /\ UNCHANGED <<beaconRound, votingOpen>>

StoreVotes(page) ==
    /\ voting[page].step = "store"
    /\ votesTile' = Append(voting[page].newVotes, voting[page].vote)
    /\ voting' = [voting EXCEPT ![page] = NoVoting]
    /\ UNCHANGED <<beaconRound, votingOpen>>

\* The user rejects the signature, a request fails, or the page is closed.
AbandonVote(page) ==
    /\ ~NotVoting(page)
    /\ voting' = [voting EXCEPT ![page] = NoVoting]
    /\ UNCHANGED <<votesTile, beaconRound, votingOpen>>

NewRound ==
    /\ beaconRound < MaxRound
    /\ beaconRound' = beaconRound + 1
    /\ UNCHANGED <<voting, votesTile, votingOpen>>

DeadlinePasses ==
    /\ votingOpen
    /\ votingOpen' = FALSE
    /\ UNCHANGED <<voting, votesTile, beaconRound>>

VoteTileNext ==
    \/ \E page \in Pages :
         \/ \E account \in Accounts, choice \in VoteStrings : BeginVote(page, account, choice)
         \/ \E signer \in Accounts : SignAndEncrypt(page, signer)
         \/ StoreVotes(page)
         \/ AbandonVote(page)
    \/ NewRound
    \/ DeadlinePasses

VoteTileSpec == VoteTileInit /\ [][VoteTileNext]_voteTileVars

-----------------------------------------------------------------------------
\* No account has two votes in a list.
OnePerAccount(votes) ==
    \A i, k \in DOMAIN votes : votes[i].account = votes[k].account => i = k

\* However the pages interleave, the tile never holds two votes of one account
\* (which the tally would count twice): a list is written whole, and the account
\* is missing from the list it is added to.
OneVotePerAccount == OnePerAccount(votesTile)

\* "You already voted" (vote.tsx:30): a vote that is in the tile stays in it, as
\* the account's only one.
VoteIsFinal ==
    [][Range(votesTile) \subseteq Range(votesTile')]_voteTileVars

\* "By hiding the votes during this phase" (README.md:108): no vote in the tile
\* can be decrypted while the voting is open.
VotesHiddenWhileVoting ==
    votingOpen => \A vote \in Range(votesTile) : beaconRound < vote.round

\* What makes OneVotePerAccount inductive: the lists held by the pages.
VoteTileInv ==
    /\ VoteTileTypeOK
    /\ OneVotePerAccount
    /\ \A page \in Pages :
         /\ OnePerAccount(voting[page].newVotes)
         /\ ~NotVoting(page) => ~HasVoted(voting[page].vote.account, voting[page].newVotes)
=============================================================================
