------------------------- MODULE OffChainVoteProofs --------------------------
(***************************************************************************)
(* The votes tile has one vote per account, for any number of pages and    *)
(* accounts, in the voting alone and beside the container; and what the    *)
(* container makes of it is exact, sent, paid out to the winners and in    *)
(* agreement with the Governor, for any votes, balances and settings.      *)
(* VoteTileInv is about the pages and the tile, TallyInv about the run.    *)
(***************************************************************************)
EXTENDS OffChainVote, FunctionTheorems, PureProofs

\* A list that was searched for the account may get its vote.
LEMMA AppendKeepsOnePerAccount ==
    ASSUME NEW votes \in Seq(Vote), NEW vote \in Vote,
           OnePerAccount(votes), ~HasVoted(vote.account, votes)
    PROVE  /\ Append(votes, vote) \in Seq(Vote)
           /\ OnePerAccount(Append(votes, vote))
<1> DEFINE longer == Append(votes, vote)
           n == Len(votes)
<1>1. /\ n \in Nat
      /\ DOMAIN votes = 1 .. n /\ DOMAIN longer = 1 .. n + 1
      /\ \A i \in 1 .. n : longer[i] = votes[i]
      /\ longer[n + 1] = vote
  OBVIOUS
<1> HIDE DEF longer, n
<1>2. \A i \in 1 .. n + 1 : i \in 1 .. n \/ i = n + 1
  BY <1>1
<1>3. OnePerAccount(longer)
  <2> SUFFICES ASSUME NEW i \in 1 .. n + 1, NEW k \in 1 .. n + 1,
                      longer[i].account = longer[k].account
               PROVE  i = k
    BY <1>1 DEF OnePerAccount
  <2>1. CASE i \in 1 .. n /\ k \in 1 .. n
    BY <1>1, <2>1 DEF OnePerAccount
  <2>2. CASE i = n + 1 /\ k \in 1 .. n
    BY <1>1, <2>2 DEF HasVoted
  <2>3. CASE i \in 1 .. n /\ k = n + 1
    BY <1>1, <2>3 DEF HasVoted
  <2> QED BY <1>2, <2>1, <2>2, <2>3
<1>4. longer \in Seq(Vote)
  BY DEF longer
<1> QED BY <1>3, <1>4 DEF longer

\* A page that is not voting, or has just read the list.
LEMMA DraftTypes ==
    ASSUME NEW account \in Accounts, NEW choice \in VoteStrings
    PROVE  Draft(account, choice) \in Vote /\ Draft(account, choice).account = account
BY DEF Draft, Vote

LEMMA NoVotingTypes ==
    Accounts # {} => NoVoting \in Voting /\ NoVoting.step = "idle" /\ NoVoting.newVotes = << >>
<1> SUFFICES ASSUME Accounts # {}
             PROVE  NoVoting \in Voting /\ NoVoting.step = "idle" /\ NoVoting.newVotes = << >>
  OBVIOUS
<1>1. (CHOOSE account \in Accounts : TRUE) \in Accounts
  OBVIOUS
<1>2. Draft(CHOOSE account \in Accounts : TRUE, "for") \in Vote
  BY <1>1, DraftTypes DEF VoteStrings
<1> QED BY <1>2 DEF NoVoting, Voting

LEMMA VoteTileInitInv ==
    ASSUME Accounts # {}, VoteTileInit
    PROVE  VoteTileInv
<1>1. VoteTileTypeOK
  BY NoVotingTypes DEF VoteTileInit, VoteTileTypeOK
<1> QED BY <1>1, NoVotingTypes
        DEF VoteTileInit, VoteTileInv, OneVotePerAccount, OnePerAccount, NotVoting

\* The list a page holds and the account it searched the list for stay.
SameList(page, run) ==
    /\ run \in Voting
    /\ ~NotVoting(page)
    /\ run.newVotes = voting[page].newVotes
    /\ run.vote.account = voting[page].vote.account

LEMMA VotingGoesOn ==
    ASSUME VoteTileInv, NEW page \in Pages, NEW run \in Voting, SameList(page, run),
           voting' = [voting EXCEPT ![page] = run],
           UNCHANGED <<votesTile, beaconRound, votingOpen>>
    PROVE  VoteTileInv'
BY DEF VoteTileInv, VoteTileTypeOK, SameList, NotVoting, OneVotePerAccount

LEMMA VoteTileStepInv ==
    ASSUME Accounts # {}, VoteTileInv, [VoteTileNext]_voteTileVars
    PROVE  VoteTileInv'
<1> USE DEF VoteTileInv, VoteTileTypeOK
<1>1. ASSUME NEW page \in Pages, NEW account \in Accounts, NEW choice \in VoteStrings,
             BeginVote(page, account, choice)
      PROVE  VoteTileInv'
  <2> DEFINE begun == [step |-> "sign", newVotes |-> votesTile, vote |-> Draft(account, choice)]
  <2>1. begun \in Voting
    BY DraftTypes DEF Voting
  <2>2. /\ voting' = [voting EXCEPT ![page] = begun]
        /\ UNCHANGED <<votesTile, beaconRound, votingOpen>>
        /\ ~HasVoted(begun.vote.account, begun.newVotes)
        /\ OnePerAccount(begun.newVotes)
    BY <1>1, DraftTypes DEF BeginVote, OneVotePerAccount
  <2> HIDE DEF begun
  <2> QED BY <2>1, <2>2 DEF NotVoting, OneVotePerAccount
<1>2. ASSUME NEW page \in Pages, NEW signer \in Accounts, SignAndEncrypt(page, signer)
      PROVE  VoteTileInv'
  <2> DEFINE signed == [voting[page] EXCEPT !.step = "store", !.vote.signer = signer,
                                           !.vote.round = EncryptionRound]
  <2>1. voting[page] \in Voting /\ voting[page].step = "sign" /\ EncryptionRound \in Nat
    BY <1>2 DEF SignAndEncrypt, EncryptionRound
  <2>2. SameList(page, signed)
    BY <2>1 DEF SameList, Voting, Vote, NotVoting
  <2>3. /\ voting' = [voting EXCEPT ![page] = signed]
        /\ UNCHANGED <<votesTile, beaconRound, votingOpen>>
    BY <1>2 DEF SignAndEncrypt
  <2>4. signed \in Voting
    BY <2>2 DEF SameList
  <2> HIDE DEF signed, VoteTileInv
  <2> QED BY <2>2, <2>3, <2>4, VotingGoesOn
<1>3. ASSUME NEW page \in Pages, voting' = [voting EXCEPT ![page] = NoVoting],
             UNCHANGED <<beaconRound, votingOpen>>,
             votesTile' \in Seq(Vote), OnePerAccount(votesTile')
      PROVE  VoteTileInv'
  BY <1>3, NoVotingTypes DEF NotVoting, OneVotePerAccount, OnePerAccount
<1>4. ASSUME NEW page \in Pages, StoreVotes(page) PROVE VoteTileInv'
  <2>1. /\ voting[page].newVotes \in Seq(Vote) /\ voting[page].vote \in Vote
        /\ OnePerAccount(voting[page].newVotes)
        /\ ~HasVoted(voting[page].vote.account, voting[page].newVotes)
    BY <1>4 DEF StoreVotes, NotVoting, Voting
  <2> QED BY <1>3, <1>4, <2>1, AppendKeepsOnePerAccount DEF StoreVotes
<1>5. ASSUME NEW page \in Pages, AbandonVote(page) PROVE VoteTileInv'
  BY <1>3, <1>5 DEF AbandonVote, OneVotePerAccount
<1>6. CASE NewRound \/ DeadlinePasses
  <2>1. UNCHANGED <<voting, votesTile>> /\ beaconRound' \in Nat /\ votingOpen' \in BOOLEAN
    <3>1. CASE NewRound
      BY <3>1 DEF NewRound
    <3>2. CASE DeadlinePasses
      BY <3>2 DEF DeadlinePasses
    <3> QED BY <1>6, <3>1, <3>2
  <2> QED BY <2>1 DEF NotVoting, OneVotePerAccount
<1>7. CASE UNCHANGED voteTileVars
  BY <1>7 DEF voteTileVars, NotVoting, OneVotePerAccount
<1> QED BY <1>1, <1>2, <1>4, <1>5, <1>6, <1>7 DEF VoteTileNext

\* Whatever pages read and write the votes tile in whatever order, it never holds
\* two votes of one account: lost votes are possible, double votes are not.
THEOREM VotingNeverDoubles ==
    ASSUME Accounts # {}
    PROVE  VoteTileSpec => []OneVotePerAccount
<1>1. VoteTileInit => VoteTileInv
  BY VoteTileInitInv
<1>2. VoteTileInv /\ [VoteTileNext]_voteTileVars => VoteTileInv'
  BY VoteTileStepInv
<1>3. VoteTileInv => OneVotePerAccount
  BY DEF VoteTileInv
<1> QED BY <1>1, <1>2, <1>3, PTL DEF VoteTileSpec

\* The container only reads the tile: the voting, seen from the composition, is
\* the voting alone, so that the list it counts has one vote per account.
THEOREM CountedListHasNoDoubles == Spec => []OneVotePerAccount
<1>1. Init => VoteTileInit
  BY DEF Init
<1>2. [Next]_vars => [VoteTileNext]_voteTileVars
  BY DEF Next, VotingStep, TallyStep, SetQuorumPercentage, SetEmissionPerVote, vars,
         pageVars, voteTileVars
<1>3. Spec => VoteTileSpec
  BY <1>1, <1>2, PTL DEF Spec, VoteTileSpec
<1>4. Accounts # {}
  BY OffChainAssumption
<1>5. VoteTileSpec => []OneVotePerAccount
  BY <1>4, VotingNeverDoubles
<1> QED BY <1>3, <1>5, PTL

-----------------------------------------------------------------------------
(* What the container counts. *)

ChoiceOf(choice, votes) == {i \in DOMAIN votes : votes[i].choice = choice}

AccountsOf(choice, votes) == {votes[i].account : i \in ChoiceOf(choice, votes)}

LEMMA SnapshotTypes ==
    ASSUME snapshot \in Snapshots
    PROVE  /\ snapshot.balances \in [Accounts -> Nat]
           /\ snapshot.totalSupply \in Nat
           /\ SumFunction(snapshot.balances) <= snapshot.totalSupply
BY OffChainAssumption

\* A total is the weight of the accounts that voted so, each of them once.
LEMMA TotalIsWeight ==
    ASSUME snapshot \in Snapshots, NEW votes \in Seq(Vote), OnePerAccount(votes),
           NEW choice \in VoteStrings
    PROVE  /\ Container!VotesOf(choice, votes) = Weight(AccountsOf(choice, votes))
           /\ Container!VotesOf(choice, votes) \in Nat
<1> DEFINE D == DOMAIN votes
           K == ChoiceOf(choice, votes)
           h == [i \in D |-> votes[i].account]
           v == snapshot.balances
           w == [i \in D |-> IF votes[i].choice = choice THEN v[votes[i].account] ELSE 0]
<1>1. /\ v \in [Accounts -> Nat] /\ D = 1 .. Len(votes) /\ Len(votes) \in Nat
      /\ \A i \in D : votes[i] \in Vote
  BY SnapshotTypes
<1>2. IsFiniteSet(D)
  BY <1>1, FS_Interval
<1>3. /\ K \in SUBSET D
      /\ \A i, k \in K : h[i] = h[k] => i = k
      /\ \A i \in K : v[h[i]] \in Int
      /\ \A i \in D : w[i] = IF i \in K THEN v[h[i]] ELSE 0
      /\ \A i \in D : w[i] \in Nat
      /\ DOMAIN w = D
      /\ \A y : y \in AccountsOf(choice, votes) <=> \E i \in K : y = h[i]
  BY <1>1 DEF ChoiceOf, AccountsOf, OnePerAccount, Vote
<1>4. Container!VotesOf(choice, votes) = SumFunctionOnSet(w, D)
  <2>1. Container!VotesOf(choice, votes) = SumFunction(w)
    BY DEF Container!VotesOf, Container!SumFunction, Container!SumFunctionOnSet,
           Container!FoldFunctionOnSet, Container!MapThenFoldSet,
           SumFunction, SumFunctionOnSet, FoldFunctionOnSet, MapThenFoldSet
  <2> HIDE DEF w, D
  <2> QED BY <1>3, <2>1 DEF SumFunction
<1> HIDE DEF D, K, h, v, w
<1>5. SumFunctionOnSet(w, D) = SumFunctionOnSet(v, AccountsOf(choice, votes))
  <2>1. CountedAs(w, D, K, h, v, AccountsOf(choice, votes))
    BY <1>3 DEF CountedAs
  <2> QED BY <1>2, <2>1, SumOfImages
<1>6. SumFunctionOnSet(w, D) \in Nat
  BY <1>2, <1>3, SumType
<1> QED BY <1>3, <1>4, <1>5, <1>6 DEF Weight, v

LEMMA VotersAreAccounts ==
    ASSUME signedVotes \in Seq(Vote), SignedByAccount, NEW choice \in VoteStrings
    PROVE  /\ Voters(choice) = AccountsOf(choice, signedVotes)
           /\ Voters(choice) \subseteq Accounts
<1>1. \A i \in DOMAIN signedVotes : /\ signedVotes[i].account \in Accounts
                                    /\ signedVotes[i].signer = signedVotes[i].account
  <2> TAKE i \in DOMAIN signedVotes
  <2>1. signedVotes[i] \in Vote
    OBVIOUS
  <2> QED BY <2>1 DEF SignedByAccount, Vote
<1> QED BY <1>1 DEF Voters, AccountsOf, ChoiceOf

LEMMA SidesDisjoint ==
    ASSUME signedVotes \in Seq(Vote), SignedByAccount
    PROVE  Voters("for") \cap Voters("against") = {}
BY DEF Voters, SignedByAccount, OnePerAccount

LEMMA CountExact ==
    ASSUME snapshot \in Snapshots, signedVotes \in Seq(Vote), SignedByAccount
    PROVE  /\ Container!VotesOf("for", signedVotes) = Weight(Voters("for"))
           /\ Container!VotesOf("against", signedVotes) = Weight(Voters("against"))
           /\ Container!VotesOf("for", signedVotes) \in Nat
           /\ Container!VotesOf("against", signedVotes) \in Nat
<1>1. "for" \in VoteStrings /\ "against" \in VoteStrings
  BY DEF VoteStrings
<1> QED BY <1>1, VotersAreAccounts, TotalIsWeight DEF SignedByAccount

\* Two sides never weigh more than the supply.
LEMMA SidesWithinSupply ==
    ASSUME snapshot \in Snapshots, NEW A \in SUBSET Accounts, NEW B \in SUBSET Accounts,
           A \cap B = {}
    PROVE  Weight(A) + Weight(B) <= snapshot.totalSupply
<1> DEFINE v == snapshot.balances
           rest == Accounts \ (A \cup B)
<1>1. /\ v \in [Accounts -> Nat] /\ \A a \in Accounts : v[a] \in Int
      /\ SumFunction(v) <= snapshot.totalSupply /\ snapshot.totalSupply \in Nat
      /\ IsFiniteSet(Accounts)
  BY SnapshotTypes, OffChainAssumption
<1>2. SumFunction(v) = SumFunctionOnSet(v, Accounts)
  BY <1>1 DEF SumFunction
<1> HIDE DEF v
<1>3. SumFunctionOnSet(v, A \cup B) = SumFunctionOnSet(v, A) + SumFunctionOnSet(v, B)
  BY <1>1, SumOfParts
<1>4. SumFunctionOnSet(v, Accounts) = SumFunctionOnSet(v, A \cup B) + SumFunctionOnSet(v, rest)
  <2>1. /\ A \cup B \in SUBSET Accounts /\ rest \in SUBSET Accounts
        /\ (A \cup B) \cap rest = {} /\ (A \cup B) \cup rest = Accounts
    OBVIOUS
  <2>2. SumFunctionOnSet(v, (A \cup B) \cup rest) =
          SumFunctionOnSet(v, A \cup B) + SumFunctionOnSet(v, rest)
    <3> HIDE DEF rest
    <3> QED BY <1>1, <2>1, SumOfParts
  <2> QED BY <2>1, <2>2
<1>5. \A s \in SUBSET Accounts : SumFunctionOnSet(v, s) \in Nat
  BY <1>1, SumType, FS_Subset
<1>6. /\ SumFunctionOnSet(v, rest) \in Nat /\ SumFunctionOnSet(v, A) \in Nat
      /\ SumFunctionOnSet(v, B) \in Nat
  BY <1>5
<1> HIDE DEF rest
<1> QED BY <1>1, <1>2, <1>3, <1>4, <1>6 DEF Weight, v

LEMMA NobodyWeighsNothing == Weight({}) = 0
BY SumOfNone DEF Weight

\* The votes that pass the signature check.
LEMMA SignedFacts ==
    ASSUME NEW votes \in Seq(Vote), OnePerAccount(votes)
    PROVE  LET signed == Container!Signed(votes) IN
           /\ signed \in Seq(Vote)
           /\ OnePerAccount(signed)
           /\ \A i \in DOMAIN signed : signed[i].signer = signed[i].account
<1> DEFINE kept == {vote \in Range(votes) : vote.signer = vote.account}
           signed == Selection(votes, kept)
<1> HIDE DEF kept, signed
<1>1. /\ signed \in Seq(Vote)
      /\ \E at \in [1 .. Len(signed) -> 1 .. Len(votes)] :
           /\ \A i \in 1 .. Len(signed) : signed[i] = votes[at[i]] /\ signed[i] \in kept
           /\ \A i, k \in 1 .. Len(signed) : i < k => at[i] < at[k]
  BY SelectionFacts DEF signed
<1>2. PICK at \in [1 .. Len(signed) -> 1 .. Len(votes)] :
           /\ \A i \in 1 .. Len(signed) : signed[i] = votes[at[i]] /\ signed[i] \in kept
           /\ \A i, k \in 1 .. Len(signed) : i < k => at[i] < at[k]
  BY <1>1
<1>3. /\ DOMAIN signed = 1 .. Len(signed) /\ Len(signed) \in Nat
      /\ DOMAIN votes = 1 .. Len(votes) /\ Len(votes) \in Nat
  BY <1>1
<1>4. OnePerAccount(signed)
  <2> SUFFICES ASSUME NEW i \in 1 .. Len(signed), NEW k \in 1 .. Len(signed),
                      signed[i].account = signed[k].account
               PROVE  i = k
    BY <1>3 DEF OnePerAccount
  <2>1. at[i] = at[k]
    BY <1>2, <1>3 DEF OnePerAccount
  <2> QED BY <1>2, <1>3, <2>1
<1>5. \A i \in DOMAIN signed : signed[i].signer = signed[i].account
  BY <1>2, <1>3 DEF kept
<1>6. Container!Signed(votes) = signed
  BY DEF Container!Signed, Container!Selection, Container!Range, Selection, Range, signed, kept
<1> QED BY <1>1, <1>4, <1>5, <1>6

-----------------------------------------------------------------------------
(* The run.  One lemma per step of the container. *)

LEMMA LeavesKept ==
    ASSUME LeavesOfWinners, UNCHANGED <<signedVotes, majority, toReward, next>>,
           step' = "reward" <=> step = "reward"
    PROVE  LeavesOfWinners'
<1>1. Winners(next - 1)' = Winners(next - 1)
  BY Zenon DEF Winners
<1>2. {toReward[i][1] : i \in DOMAIN toReward}' = {toReward[i][1] : i \in DOMAIN toReward}
  BY Zenon
<1>3. (\A i, k \in DOMAIN toReward : toReward[i][1] = toReward[k][1] => i = k)'
  BY Zenon DEF LeavesOfWinners
<1>4. /\ {toReward[i][1] : i \in DOMAIN toReward} = Winners(next - 1)
      /\ next \in 1 .. Len(signedVotes) + 1
      /\ step = "reward" <=> next <= Len(signedVotes)
  BY DEF LeavesOfWinners
<1>5. ({toReward[i][1] : i \in DOMAIN toReward} = Winners(next - 1))'
  BY <1>1, <1>2, <1>4, Zenon
<1> QED BY <1>3, <1>4, <1>5 DEF LeavesOfWinners

LEMMA OthersKeepRun ==
    ASSUME TallyInv, VoteTileTypeOK', UNCHANGED <<runVars, snapshot>>,
           quorumPercentage' \in Quorums, emissionPerVote' \in Emissions
    PROVE  TallyInv'
<1> USE DEF runVars, TallyInv
<1>1. OffChainTypeOK'
  BY DEF OffChainTypeOK
<1>2. SignedByAccount' /\ CountIsExact'
  BY DEF SignedByAccount, OnePerAccount, CountIsExact, Voters, Weight
<1>3. VerdictReached'
  BY DEF VerdictReached, Container!Consensus, Container!Larger
<1>4. RewardsSoFar'
  <2>1. LeavesOfWinners => LeavesOfWinners'
    BY LeavesKept
  <2> QED BY <2>1 DEF RewardsSoFar
<1>5. ReportIsResult'
  BY DEF ReportIsResult
<1> QED BY <1>1, <1>2, <1>3, <1>4, <1>5

LEMMA TileKept ==
    ASSUME TallyInv, UNCHANGED <<pageVars, chainVars>>
    PROVE  /\ VoteTileTypeOK'
           /\ snapshot' = snapshot /\ snapshot' \in Snapshots
           /\ quorumPercentage' \in Quorums /\ emissionPerVote' \in Emissions
BY DEF pageVars, chainVars, TallyInv, OffChainTypeOK, VoteTileTypeOK

LEMMA ReadVotesInv ==
    ASSUME VoteTileInv, TallyInv, Container!ReadVotes, UNCHANGED <<pageVars, chainVars>>
    PROVE  TallyInv'
<1>1. /\ step = "start" /\ step' = "count"
      /\ signedVotes' = Container!Signed(votesTile)
      /\ UNCHANGED <<forVotes, againstVotes, quorum, majority, arrivedToConsensus, emission,
                     toReward, next, report>>
  BY DEF Container!ReadVotes
<1>2. votesTile \in Seq(Vote) /\ OnePerAccount(votesTile)
  BY DEF VoteTileInv, VoteTileTypeOK, OneVotePerAccount
<1>3. signedVotes' \in Seq(Vote) /\ SignedByAccount'
  BY <1>1, <1>2, SignedFacts DEF SignedByAccount
<1>4. OffChainTypeOK'
  BY <1>1, <1>3, TileKept DEF TallyInv, OffChainTypeOK
<1>5. RewardsSoFar' /\ ReportIsResult'
  BY <1>1 DEF TallyInv, RewardsSoFar, ReportIsResult
<1>6. CountIsExact' /\ VerdictReached'
  BY <1>1 DEF CountIsExact, VerdictReached
<1> QED BY <1>3, <1>4, <1>5, <1>6, TileKept DEF TallyInv

LEMMA CountVotesInv ==
    ASSUME TallyInv, Container!CountVotes, UNCHANGED <<pageVars, chainVars>>
    PROVE  TallyInv'
<1>1. /\ step = "count" /\ step' = "consensus"
      /\ forVotes' = Container!VotesOf("for", signedVotes)
      /\ againstVotes' = Container!VotesOf("against", signedVotes)
      /\ UNCHANGED <<signedVotes, quorum, majority, arrivedToConsensus, emission, toReward,
                     next, report>>
  BY DEF Container!CountVotes
<1>2. signedVotes \in Seq(Vote) /\ SignedByAccount /\ snapshot \in Snapshots
  BY DEF TallyInv, OffChainTypeOK
<1>3. /\ forVotes' = Weight(Voters("for")) /\ forVotes' \in Nat
      /\ againstVotes' = Weight(Voters("against")) /\ againstVotes' \in Nat
      /\ Voters("for") \cap Voters("against") = {}
  BY <1>1, <1>2, CountExact, SidesDisjoint
<1>4. CountIsExact'
  BY <1>1, <1>3, TileKept DEF CountIsExact, Voters, Weight
<1>5. OffChainTypeOK' /\ SignedByAccount'
  BY <1>1, <1>3, TileKept DEF TallyInv, OffChainTypeOK, SignedByAccount, OnePerAccount
<1>6. RewardsSoFar' /\ ReportIsResult' /\ VerdictReached'
  BY <1>1 DEF TallyInv, RewardsSoFar, ReportIsResult, VerdictReached
<1> QED BY <1>4, <1>5, <1>6, TileKept DEF TallyInv

LEMMA DecideConsensusInv ==
    ASSUME TallyInv, Container!DecideConsensus, UNCHANGED <<pageVars, chainVars>>
    PROVE  TallyInv'
<1>1. /\ step = "consensus" /\ step' = "emission"
      /\ quorum' = quorumPercentage
      /\ majority' = IF forVotes > againstVotes THEN "for" ELSE "against"
      /\ arrivedToConsensus' = Container!Consensus(quorumPercentage)
      /\ UNCHANGED <<signedVotes, forVotes, againstVotes, emission, toReward, next, report>>
  BY DEF Container!DecideConsensus
<1>2. quorum' \in Nat /\ majority' \in VoteStrings
  BY <1>1, OffChainAssumption DEF TallyInv, VoteStrings
<1>3. arrivedToConsensus' \in BOOLEAN
  BY <1>1, Zenon DEF Container!Consensus
<1>4. OffChainTypeOK'
  BY <1>1, <1>2, <1>3, TileKept DEF TallyInv, OffChainTypeOK
<1>5. SignedByAccount' /\ CountIsExact'
  BY <1>1, TileKept
     DEF TallyInv, SignedByAccount, OnePerAccount, CountIsExact, Voters, Weight
<1>6. VerdictReached'
  BY <1>1, TileKept DEF VerdictReached, Container!Consensus, Container!Larger
<1>7. RewardsSoFar' /\ ReportIsResult'
  BY <1>1 DEF TallyInv, RewardsSoFar, ReportIsResult
<1> QED BY <1>4, <1>5, <1>6, <1>7, TileKept DEF TallyInv

LEMMA ReadEmissionInv ==
    ASSUME TallyInv, Container!ReadEmission, UNCHANGED <<pageVars, chainVars>>
    PROVE  TallyInv'
<1>1. /\ step = "emission" /\ emission' = emissionPerVote
      /\ toReward' = IF arrivedToConsensus THEN << >> ELSE << <<NoUser, 0>> >>
      /\ step' = IF arrivedToConsensus /\ signedVotes # << >> THEN "reward" ELSE "report"
      /\ UNCHANGED <<signedVotes, forVotes, againstVotes, quorum, majority, arrivedToConsensus,
                     next, report>>
  BY DEF Container!ReadEmission
<1>2. emission' \in Nat /\ toReward' \in Seq(Leaves)
  <2>1. <<NoUser, 0>> \in Leaves
    BY DEF Leaves
  <2>2. << <<NoUser, 0>> >> \in Seq(Leaves) /\ << >> \in Seq(Leaves)
    <3> DEFINE leaf == <<NoUser, 0>>
    <3>1. leaf \in Leaves
      BY <2>1
    <3> HIDE DEF leaf
    <3>2. <<leaf>> \in Seq(Leaves)
      BY <3>1
    <3> QED BY <3>2 DEF leaf
  <2> QED BY <1>1, <2>2, OffChainAssumption DEF TallyInv
<1>3. OffChainTypeOK'
  BY <1>1, <1>2, TileKept DEF TallyInv, OffChainTypeOK
<1>4. SignedByAccount' /\ CountIsExact'
  BY <1>1, TileKept
     DEF TallyInv, SignedByAccount, OnePerAccount, CountIsExact, Voters, Weight
<1>5. VerdictReached'
  BY <1>1, TileKept DEF TallyInv, VerdictReached, Container!Consensus, Container!Larger
<1>6. RewardsSoFar'
  <2>1. next' = 1 /\ signedVotes \in Seq(Vote)
    BY <1>1 DEF TallyInv, RewardsSoFar, OffChainTypeOK
  <2>2. CASE ~arrivedToConsensus
    BY <1>1, <2>1, <2>2 DEF RewardsSoFar
  <2>3. CASE arrivedToConsensus
    <3>1. toReward' = << >> /\ DOMAIN toReward' = {}
      BY <1>1, <2>3
    <3>2. Winners(next - 1)' = {}
      BY <2>1 DEF Winners
    <3>3. LeavesOfWinners'
      <4>1. step' = "reward" <=> next' <= Len(signedVotes')
        BY <1>1, <2>1, <2>3
      <4>2. next' \in 1 .. Len(signedVotes') + 1
        BY <1>1, <2>1
      <4> QED BY <3>1, <3>2, <4>1, <4>2 DEF LeavesOfWinners
    <3> QED BY <1>1, <2>1, <2>3, <3>3 DEF RewardsSoFar
  <2> QED BY <2>2, <2>3
<1>7. ReportIsResult'
  BY <1>1 DEF TallyInv, ReportIsResult
<1> QED BY <1>3, <1>4, <1>5, <1>6, <1>7, TileKept DEF TallyInv

LEMMA RewardType ==
    ASSUME TallyInv, NEW account \in Accounts, NEW apeBalance \in ApeHoldings
    PROVE  Container!Reward(account, apeBalance) \in Nat
<1> DEFINE held == snapshot.balances[account] + apeBalance
<1>1. /\ held \in Nat /\ emission \in Nat /\ Ether \in Nat \ {0}
  BY SnapshotTypes, OffChainAssumption DEF TallyInv, OffChainTypeOK
<1>2. Container!Reward(account, apeBalance) = (held * emission) \div Ether
  BY DEF Container!Reward
<1> HIDE DEF held
<1>3. held * emission \in Nat
  BY <1>1
<1> QED BY <1>1, <1>2, <1>3, Division

LEMMA RewardNextVoteInv ==
    ASSUME TallyInv, NEW apeBalance \in ApeHoldings, Container!RewardNextVote(apeBalance),
           UNCHANGED <<pageVars, chainVars>>
    PROVE  TallyInv'
<1> DEFINE n == Len(signedVotes)
           vote == signedVotes[next]
           leaf == <<vote.account, Container!Reward(vote.account, apeBalance)>>
<1>1. /\ step = "reward" /\ next <= n
      /\ toReward' = IF vote.choice = majority THEN Append(toReward, leaf) ELSE toReward
      /\ next' = next + 1
      /\ step' = IF next = n THEN "report" ELSE "reward"
      /\ UNCHANGED <<signedVotes, forVotes, againstVotes, quorum, majority, arrivedToConsensus,
                     emission, report>>
  BY DEF Container!RewardNextVote
<1>2. /\ signedVotes \in Seq(Vote) /\ n \in Nat /\ DOMAIN signedVotes = 1 .. n
      /\ next \in Nat /\ toReward \in Seq(Leaves)
      /\ arrivedToConsensus /\ LeavesOfWinners /\ next \in 1 .. n
      /\ SignedByAccount
  BY <1>1 DEF TallyInv, OffChainTypeOK, RewardsSoFar, LeavesOfWinners
<1>3. vote \in Vote /\ leaf \in Leaves /\ leaf[1] = vote.account
  <2>1. vote \in Vote
    <3> HIDE DEF n
    <3> QED BY <1>2
  <2> HIDE DEF vote
  <2>2. vote.account \in Accounts
    BY <2>1 DEF Vote
  <2> QED BY <2>1, <2>2, RewardType DEF Leaves
<1> HIDE DEF n, vote, leaf
<1>4. toReward' \in Seq(Leaves)
  <2>1. Append(toReward, leaf) \in Seq(Leaves)
    BY <1>2, <1>3
  <2> QED BY <1>1, <1>2, <2>1
<1>5. OffChainTypeOK'
  BY <1>1, <1>2, <1>4, TileKept DEF TallyInv, OffChainTypeOK
<1>6. SignedByAccount' /\ CountIsExact'
  BY <1>1, TileKept
     DEF TallyInv, SignedByAccount, OnePerAccount, CountIsExact, Voters, Weight
<1>7. VerdictReached'
  BY <1>1, TileKept DEF TallyInv, VerdictReached, Container!Consensus, Container!Larger
<1>8. ReportIsResult'
  BY <1>1 DEF TallyInv, ReportIsResult
<1>9. /\ Winners(next) = IF vote.choice = majority
                         THEN Winners(next - 1) \cup {vote.account} ELSE Winners(next - 1)
      /\ vote.account \notin Winners(next - 1)
  <2>1. \A i \in 1 .. next - 1 : i \in DOMAIN signedVotes /\ i # next
    BY <1>2
  <2>2. 1 .. next = (1 .. next - 1) \cup {next}
    BY <1>2
  <2>3. vote.account \notin Winners(next - 1)
    BY <1>2, <2>1 DEF Winners, SignedByAccount, OnePerAccount, vote
  <2> QED BY <2>2, <2>3 DEF Winners, vote
<1>10. LeavesOfWinners'
  <2> DEFINE m == Len(toReward)
  <2>1. next' \in 1 .. n + 1 /\ (step' = "reward" <=> next' <= n) /\ next' - 1 = next
    BY <1>1, <1>2
  <2>2. /\ {toReward[i][1] : i \in DOMAIN toReward} = Winners(next - 1)
        /\ \A i, k \in DOMAIN toReward : toReward[i][1] = toReward[k][1] => i = k
        /\ DOMAIN toReward = 1 .. m /\ m \in Nat
    BY <1>2 DEF LeavesOfWinners
  <2>3. Len(signedVotes') = n /\ Winners(next - 1)' = Winners(next)
    <3>1. signedVotes' = signedVotes /\ majority' = majority /\ next' - 1 = next
      BY <1>1, <2>1
    <3> QED BY <3>1 DEF Winners, n
  <2>4. CASE vote.choice # majority
    <3>1. toReward' = toReward /\ Winners(next) = Winners(next - 1)
      BY <1>1, <1>9, <2>4
    <3> QED BY <2>1, <2>2, <2>3, <3>1 DEF LeavesOfWinners
  <2>5. CASE vote.choice = majority
    <3>1. /\ toReward' = Append(toReward, leaf)
          /\ Winners(next) = Winners(next - 1) \cup {vote.account}
      BY <1>1, <1>9, <2>5
    <3> HIDE DEF m
    <3>2. /\ DOMAIN toReward' = 1 .. m + 1
          /\ \A i \in 1 .. m : toReward'[i] = toReward[i]
          /\ toReward'[m + 1] = leaf
      BY <1>2, <1>3, <3>1 DEF m
    <3>3. \A i \in 1 .. m + 1 : i \in 1 .. m \/ i = m + 1
      BY <2>2
    <3>4. m + 1 \in 1 .. m + 1 /\ 1 .. m \subseteq 1 .. m + 1
      BY <2>2
    <3>5. {toReward'[i][1] : i \in DOMAIN toReward'} = Winners(next)
      BY <1>3, <2>2, <3>1, <3>2, <3>3, <3>4
    <3>6. \A i \in 1 .. m : toReward[i][1] # vote.account
      BY <1>9, <2>2
    <3>7. \A i, k \in DOMAIN toReward' : toReward'[i][1] = toReward'[k][1] => i = k
      BY <1>3, <2>2, <3>2, <3>3, <3>6
    <3> QED BY <2>1, <2>3, <3>5, <3>7 DEF LeavesOfWinners
  <2> QED BY <2>4, <2>5
<1>11. RewardsSoFar'
  BY <1>1, <1>2, <1>10 DEF RewardsSoFar
<1> QED BY <1>5, <1>6, <1>7, <1>8, <1>11, TileKept DEF TallyInv

LEMMA ReportResultInv ==
    ASSUME TallyInv, Container!ReportResult, UNCHANGED <<pageVars, chainVars>>
    PROVE  TallyInv'
<1>1. /\ step = "report" /\ step' = "done"
      /\ report' = {[forVotes |-> forVotes, againstVotes |-> againstVotes,
                     voteMerkleRoot |-> Range(toReward)]}
      /\ UNCHANGED <<signedVotes, forVotes, againstVotes, quorum, majority, arrivedToConsensus,
                     emission, toReward, next>>
  BY DEF Container!ReportResult, Container!Range, Range
<1>2. Range(toReward) \subseteq Leaves
  BY DEF TallyInv, OffChainTypeOK, Range
<1>3. OffChainTypeOK'
  BY <1>1, <1>2, TileKept DEF TallyInv, OffChainTypeOK
<1>4. SignedByAccount' /\ CountIsExact'
  BY <1>1, TileKept
     DEF TallyInv, SignedByAccount, OnePerAccount, CountIsExact, Voters, Weight
<1>5. VerdictReached'
  BY <1>1, TileKept DEF TallyInv, VerdictReached, Container!Consensus, Container!Larger
<1>6. RewardsSoFar'
  <2>1. LeavesOfWinners => LeavesOfWinners'
    <3>1. LeavesOfWinners /\ arrivedToConsensus => step # "reward"
      BY <1>1
    <3> QED BY <1>1, LeavesKept
  <2> QED BY <1>1, <2>1 DEF TallyInv, RewardsSoFar
<1>7. ReportIsResult'
  BY <1>1 DEF ReportIsResult
<1> QED BY <1>3, <1>4, <1>5, <1>6, <1>7, TileKept DEF TallyInv

\* No variable of a run but the report survives its failure.
LEMMA FreshRun ==
    ASSUME VoteTileTypeOK, snapshot \in Snapshots, quorumPercentage \in Quorums,
           emissionPerVote \in Emissions, step \in {"start", "failed"},
           signedVotes = << >>, forVotes = 0, againstVotes = 0, quorum = 0,
           majority = "against", arrivedToConsensus = FALSE, emission = 0,
           toReward = << >>, next = 1, report = {}
    PROVE  TallyInv
<1>1. signedVotes \in Seq(Vote) /\ toReward \in Seq(Leaves) /\ DOMAIN signedVotes = {}
  OBVIOUS
<1>2. OffChainTypeOK
  BY <1>1 DEF OffChainTypeOK, VoteStrings
<1>3. SignedByAccount /\ CountIsExact
  BY <1>1 DEF SignedByAccount, OnePerAccount, CountIsExact
<1>4. VerdictReached /\ RewardsSoFar /\ ReportIsResult
  BY DEF VerdictReached, RewardsSoFar, ReportIsResult
<1> QED BY <1>2, <1>3, <1>4 DEF TallyInv

LEMMA RunThrowsInv ==
    ASSUME TallyInv, Container!RunThrows, UNCHANGED <<pageVars, chainVars>>
    PROVE  TallyInv'
<1>1. /\ step' = "failed" /\ report' = {}
      /\ signedVotes' = << >> /\ forVotes' = 0 /\ againstVotes' = 0
      /\ quorum' = 0 /\ majority' = "against" /\ arrivedToConsensus' = FALSE
      /\ emission' = 0 /\ toReward' = << >> /\ next' = 1
  BY DEF Container!RunThrows, TallyInv, ReportIsResult
<1>2. signedVotes' \in Seq(Vote) /\ toReward' \in Seq(Leaves) /\ DOMAIN signedVotes' = {}
  BY <1>1
<1>3. OffChainTypeOK'
  BY <1>1, <1>2, TileKept DEF OffChainTypeOK, VoteStrings
<1>4. SignedByAccount' /\ CountIsExact'
  BY <1>1, <1>2 DEF SignedByAccount, OnePerAccount, CountIsExact
<1>5. VerdictReached' /\ RewardsSoFar' /\ ReportIsResult'
  BY <1>1 DEF VerdictReached, RewardsSoFar, ReportIsResult
<1> QED BY <1>3, <1>4, <1>5, TileKept DEF TallyInv

LEMMA TallyStepInv ==
    ASSUME VoteTileInv, VoteTileInv', TallyInv, [Next]_vars
    PROVE  TallyInv'
<1>1. CASE VotingStep \/ UNCHANGED vars
  BY <1>1, OthersKeepRun
     DEF VotingStep, vars, chainVars, VoteTileInv, TallyInv
<1>2. CASE TallyStep
  BY <1>2, ReadVotesInv, CountVotesInv, DecideConsensusInv, ReadEmissionInv,
     RewardNextVoteInv, ReportResultInv, RunThrowsInv
     DEF TallyStep, Container!TallyNext
<1>3. ASSUME NEW percentage \in Quorums, SetQuorumPercentage(percentage) PROVE TallyInv'
  BY <1>3, OthersKeepRun DEF SetQuorumPercentage, VoteTileInv, TallyInv
<1>4. ASSUME NEW rate \in Emissions, SetEmissionPerVote(rate) PROVE TallyInv'
  BY <1>4, OthersKeepRun DEF SetEmissionPerVote, VoteTileInv, TallyInv
<1> QED BY <1>1, <1>2, <1>3, <1>4 DEF Next

LEMMA RunInit ==
    ASSUME Init
    PROVE  VoteTileInv /\ TallyInv
<1>1. VoteTileInv
  BY VoteTileInitInv, OffChainAssumption DEF Init
<1>2. /\ step = "start" /\ signedVotes = << >> /\ forVotes = 0 /\ againstVotes = 0
      /\ quorum = 0 /\ majority = "against" /\ arrivedToConsensus = FALSE
      /\ emission = 0 /\ toReward = << >> /\ next = 1 /\ report = {}
      /\ snapshot \in Snapshots /\ quorumPercentage \in Quorums /\ emissionPerVote \in Emissions
  BY DEF Init, Container!TallyInit
<1> QED BY <1>1, <1>2, FreshRun DEF VoteTileInv

\* The invariant of the voting and of the run, together.
THEOREM RunInvariant == Spec => [](VoteTileInv /\ TallyInv)
<1>1. Init => VoteTileInv /\ TallyInv
  BY RunInit
<1>2. VoteTileInv /\ TallyInv /\ [Next]_vars => (VoteTileInv /\ TallyInv)'
  <2> SUFFICES ASSUME VoteTileInv, TallyInv, [Next]_vars PROVE VoteTileInv' /\ TallyInv'
    OBVIOUS
  <2>1. [VoteTileNext]_voteTileVars
    BY DEF Next, VotingStep, TallyStep, SetQuorumPercentage, SetEmissionPerVote, vars,
           pageVars, voteTileVars
  <2>2. VoteTileInv'
    BY <2>1, VoteTileStepInv, OffChainAssumption
  <2> QED BY <2>2, TallyStepInv
<1> QED BY <1>1, <1>2, PTL DEF Spec

\* The variables of the voting and of the run keep their types: no total, index or reward
\* is negative, and every leaf has an account or address zero.
THEOREM OffChainTypes == Spec => []OffChainTypeOK
<1>1. TallyInv => OffChainTypeOK
  BY DEF TallyInv
<1> QED BY <1>1, RunInvariant, PTL

\* For any pages, accounts, balances and beacon: a total is the weight, at the snapshot, of
\* the accounts with a vote of their own in the list that was read, and no account is on
\* both sides.
THEOREM TotalsExact == Spec => []CountIsExact
<1>1. TallyInv => CountIsExact
  BY DEF TallyInv
<1> QED BY <1>1, RunInvariant, PTL

-----------------------------------------------------------------------------
(* What the report says. *)

\* Past the loop, all winners have a leaf, and there is one.
LEMMA AllWinnersRewarded ==
    ASSUME TallyInv, step \in {"report", "done"}, arrivedToConsensus
    PROVE  /\ {toReward[i][1] : i \in DOMAIN toReward} = Voters(majority)
           /\ Voters(majority) # {}
<1>1. /\ signedVotes \in Seq(Vote) /\ SignedByAccount /\ LeavesOfWinners
      /\ majority \in VoteStrings /\ Len(signedVotes) \in Nat /\ next \in Nat
  BY DEF TallyInv, OffChainTypeOK, RewardsSoFar
<1>2. next - 1 = Len(signedVotes)
  BY <1>1 DEF LeavesOfWinners
<1>3. Winners(next - 1) = Voters(majority)
  <2>1. Winners(next - 1) = AccountsOf(majority, signedVotes)
    <3>1. DOMAIN signedVotes = 1 .. next - 1
      BY <1>1, <1>2
    <3> QED BY <3>1 DEF Winners, AccountsOf, ChoiceOf
  <2> QED BY <1>1, <2>1, VotersAreAccounts
<1>4. Voters(majority) # {}
  <2>1. /\ forVotes # againstVotes
        /\ majority = IF forVotes > againstVotes THEN "for" ELSE "against"
        /\ forVotes = Weight(Voters("for")) /\ againstVotes = Weight(Voters("against"))
        /\ forVotes \in Nat /\ againstVotes \in Nat
    BY DEF TallyInv, VerdictReached, Container!Consensus, CountIsExact, OffChainTypeOK
  <2>2. Weight(Voters(majority)) # 0
    BY <2>1
  <2> QED BY <2>2, NobodyWeighsNothing
<1> QED BY <1>1, <1>3, <1>4 DEF LeavesOfWinners

LEMMA NeverRefused == TallyInv => ReportNeverRefused
<1> SUFFICES ASSUME TallyInv, step = "report"
             PROVE  forVotes + againstVotes <= snapshot.totalSupply /\ toReward # << >>
  BY DEF ReportNeverRefused
<1>1. forVotes + againstVotes <= snapshot.totalSupply
  <2>1. /\ signedVotes \in Seq(Vote) /\ SignedByAccount /\ snapshot \in Snapshots
        /\ Voters("for") \cap Voters("against") = {}
        /\ forVotes = Weight(Voters("for")) /\ againstVotes = Weight(Voters("against"))
    BY DEF TallyInv, CountIsExact, OffChainTypeOK
  <2>2. Voters("for") \in SUBSET Accounts /\ Voters("against") \in SUBSET Accounts
    BY <2>1, VotersAreAccounts DEF VoteStrings
  <2> QED BY <2>1, <2>2, SidesWithinSupply
<1>2. toReward # << >>
  <2>1. CASE arrivedToConsensus
    <3>1. PICK i \in DOMAIN toReward : TRUE
      BY <2>1, AllWinnersRewarded
    <3> QED BY <3>1
  <2>2. CASE ~arrivedToConsensus
    <3>1. toReward = << <<NoUser, 0>> >>
      BY <2>2 DEF TallyInv, RewardsSoFar
    <3> DEFINE leaf == <<NoUser, 0>>
    <3>2. toReward = <<leaf>>
      BY <3>1
    <3> HIDE DEF leaf
    <3>3. Len(toReward) = 1
      BY <3>2
    <3> QED BY <3>3
  <2> QED BY <2>1, <2>2
<1> QED BY <1>1, <1>2

\* The encoder never refuses a computed report: the sides never weigh more than the supply,
\* since no account is on both, and a consensus has a winner to reward.
THEOREM ReportsAreSent == Spec => []ReportNeverRefused
BY NeverRefused, RunInvariant, PTL

\* A report that rewards somebody rewards the winning side, each account by one leaf.
LEMMA ReportContents ==
    ASSUME TallyInv, NEW r \in report
    PROVE  /\ r.forVotes = forVotes /\ r.againstVotes = againstVotes
           /\ r.voteMerkleRoot = Range(toReward)
           /\ step = "done"
           /\ arrivedToConsensus => /\ Rewarded(r) = Voters(majority)
                                    /\ Voters(majority) # {}
           /\ ~arrivedToConsensus => /\ Rewarded(r) = {}
                                     /\ r.voteMerkleRoot = {<<NoUser, 0>>}
<1>1. /\ r.forVotes = forVotes /\ r.againstVotes = againstVotes
      /\ r.voteMerkleRoot = Range(toReward) /\ step = "done"
  BY DEF TallyInv, ReportIsResult
<1>2. {leaf[1] : leaf \in Range(toReward)} = {toReward[i][1] : i \in DOMAIN toReward}
  BY DEF Range
<1>3. ASSUME arrivedToConsensus
      PROVE  Rewarded(r) = Voters(majority) /\ Voters(majority) # {}
  <2>1. /\ {toReward[i][1] : i \in DOMAIN toReward} = Voters(majority)
        /\ Voters(majority) # {}
    BY <1>1, <1>3, AllWinnersRewarded
  <2>2. Voters(majority) \subseteq Accounts /\ NoUser \notin Accounts
    BY VotersAreAccounts, OffChainAssumption DEF TallyInv, OffChainTypeOK
  <2> QED BY <1>1, <1>2, <2>1, <2>2 DEF Rewarded
<1>4. ASSUME ~arrivedToConsensus
      PROVE  Rewarded(r) = {} /\ r.voteMerkleRoot = {<<NoUser, 0>>}
  <2>1. toReward = << <<NoUser, 0>> >>
    BY <1>1, <1>4 DEF TallyInv, RewardsSoFar
  <2>2. Range(toReward) = {<<NoUser, 0>>}
    BY <2>1 DEF Range
  <2> QED BY <1>1, <2>2 DEF Rewarded
<1> QED BY <1>1, <1>3, <1>4

LEMMA VerdictFollowed == TallyInv => RewardsFollowVerdict
<1> SUFFICES ASSUME TallyInv, NEW r \in report, quorumPercentage = quorum
             PROVE  Accepted(r) <=> Rewarded(r) # {} /\ Rewarded(r) = Voters("for")
  BY DEF RewardsFollowVerdict
<1> DEFINE enough == (quorumPercentage * snapshot.totalSupply) \div Ether
<1>1. /\ majority = IF forVotes > againstVotes THEN "for" ELSE "against"
      /\ arrivedToConsensus = Container!Consensus(quorum)
      /\ forVotes \in Nat /\ againstVotes \in Nat
      /\ Voters("for") \cap Voters("against") = {}
      /\ snapshot.totalSupply \in Nat /\ quorumPercentage \in Nat
      /\ r.forVotes = forVotes /\ r.againstVotes = againstVotes
  BY ReportContents, SnapshotTypes, OffChainAssumption
     DEF TallyInv, VerdictReached, CountIsExact, OffChainTypeOK
<1>2. arrivedToConsensus <=>
        /\ forVotes # againstVotes
        /\ Container!Larger(forVotes, againstVotes) >= enough
  <2>1. snapshot.totalSupply * quorum = quorumPercentage * snapshot.totalSupply
    BY <1>1
  <2> QED BY <1>1, <2>1 DEF Container!Consensus
<1>3. Accepted(r) <=> forVotes >= enough /\ forVotes > againstVotes
  BY <1>1 DEF Accepted
<1>4. enough \in Int
  <2>1. Ether \in Nat \ {0} /\ quorumPercentage * snapshot.totalSupply \in Int
    BY <1>1, OffChainAssumption
  <2> QED BY <2>1
<1> HIDE DEF enough
<1>5. CASE ~arrivedToConsensus
  <2>1. Rewarded(r) = {}
    BY <1>5, ReportContents
  <2>2. ~Accepted(r)
    BY <1>1, <1>2, <1>3, <1>4, <1>5 DEF Container!Larger
  <2> QED BY <2>1, <2>2
<1>6. CASE arrivedToConsensus
  <2>1. Rewarded(r) = Voters(majority) /\ Voters(majority) # {}
    BY <1>6, ReportContents
  <2>2. CASE forVotes > againstVotes
    BY <1>1, <1>2, <1>3, <1>4, <1>6, <2>1, <2>2 DEF Container!Larger
  <2>3. CASE ~(forVotes > againstVotes)
    <3>1. Rewarded(r) = Voters("against") /\ ~Accepted(r)
      BY <1>1, <1>3, <2>1, <2>3
    <3> QED BY <1>1, <2>1, <3>1
  <2> QED BY <2>2, <2>3
<1> QED BY <1>5, <1>6

\* The container's verdict and the Governor's are one, computed by two programs from two
\* formulas, as long as the quorum is the one the container read.
THEOREM VerdictsAgree == Spec => []RewardsFollowVerdict
BY VerdictFollowed, RunInvariant, PTL

LEMMA WinnersCounted == TallyInv => RewardsAreTheWinners
<1> SUFFICES ASSUME TallyInv, NEW r \in report
             PROVE  /\ Rewarded(r) \in {{}, Voters(majority)}
                    /\ Cardinality(r.voteMerkleRoot) = Max({1, Cardinality(Rewarded(r))})
  BY DEF RewardsAreTheWinners
<1>1. \A n \in Nat : Max({1, n}) = IF n > 1 THEN n ELSE 1
  <2> TAKE n \in Nat
  <2>1. \E x \in {1, n} : \A y \in {1, n} : x >= y
    OBVIOUS
  <2>2. Max({1, n}) \in {1, n} /\ \A y \in {1, n} : Max({1, n}) >= y
    BY <2>1 DEF Max
  <2> QED BY <2>2
<1>2. CASE ~arrivedToConsensus
  <2>1. Rewarded(r) = {} /\ r.voteMerkleRoot = {<<NoUser, 0>>}
    BY <1>2, ReportContents
  <2>2. Cardinality({}) = 0
    BY FS_EmptySet
  <2>3. Cardinality({<<NoUser, 0>>}) = 1
    <3> DEFINE leaf == <<NoUser, 0>>
    <3> HIDE DEF leaf
    <3>1. Cardinality({leaf}) = 1
      BY FS_Singleton
    <3> QED BY <3>1 DEF leaf
  <2> QED BY <1>1, <2>1, <2>2, <2>3
<1>3. CASE arrivedToConsensus
  <2> DEFINE root == r.voteMerkleRoot
             accountOf == [leaf \in root |-> leaf[1]]
  <2>1. /\ Rewarded(r) = Voters(majority) /\ Voters(majority) # {}
        /\ root = Range(toReward) /\ step = "done"
    BY <1>3, ReportContents
  <2>2. /\ {toReward[i][1] : i \in DOMAIN toReward} = Voters(majority)
        /\ \A i, k \in DOMAIN toReward : toReward[i][1] = toReward[k][1] => i = k
    BY <1>3, <2>1, AllWinnersRewarded DEF TallyInv, RewardsSoFar, LeavesOfWinners
  <2>3. accountOf \in Bijection(root, Voters(majority))
    <3>1. \A leaf \in root : leaf[1] \in Voters(majority)
      BY <2>1, <2>2 DEF Range
    <3>2. \A a, b \in root : a[1] = b[1] => a = b
      BY <2>1, <2>2 DEF Range
    <3>3. \A account \in Voters(majority) : \E leaf \in root : leaf[1] = account
      BY <2>1, <2>2 DEF Range
    <3> HIDE DEF root
    <3>4. accountOf \in [root -> Voters(majority)]
      BY <3>1
    <3>5. \A a, b \in root : accountOf[a] = accountOf[b] => a = b
      BY <3>2
    <3>6. \A account \in Voters(majority) : \E leaf \in root : accountOf[leaf] = account
      BY <3>3
    <3> HIDE DEF accountOf
    <3> QED BY <3>4, <3>5, <3>6, Fun_IsBij
  <2>4. IsFiniteSet(Voters(majority))
    <3>1. Voters(majority) \subseteq Accounts
      BY VotersAreAccounts DEF TallyInv, OffChainTypeOK
    <3> QED BY <3>1, FS_Subset, OffChainAssumption
  <2> HIDE DEF root, accountOf
  <2>5. ExistsBijection(root, Voters(majority))
    BY <2>3 DEF ExistsBijection
  <2>6. ExistsBijection(Voters(majority), root)
    BY <2>5, Fun_ExistsBijSymmetric
  <2>7. Cardinality(root) = Cardinality(Voters(majority))
    BY <2>4, <2>6, FS_Bijection
  <2>8. Cardinality(Voters(majority)) \in Nat \ {0}
    BY <2>1, <2>4, FS_CardinalityType, FS_EmptySet
  <2>9. Max({1, Cardinality(Voters(majority))}) = Cardinality(Voters(majority))
    BY <1>1, <2>8
  <2> QED BY <2>1, <2>7, <2>9 DEF root
<1> QED BY <1>2, <1>3

\* A report rewards the whole winning side or nobody, and the tree has one leaf for each
\* rewarded account, or the one of address zero.
THEOREM WinnersRewardedOnce == Spec => []RewardsAreTheWinners
BY WinnersCounted, RunInvariant, PTL
=============================================================================
