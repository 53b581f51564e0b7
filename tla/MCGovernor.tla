----------------------------- MODULE MCGovernor ------------------------------
(* Small instances of Governor for TLC, with the descriptions of ContractStrings. *)
EXTENDS GovernorLifecycle, GovernorProposers

CONSTANTS p1, p2, u1, u2, n1, h1

\* The first proposal adds an adapter and pays for it; the second removes the adapter
\* again, so it succeeds with a call that reverts whenever it is decided first, and
\* leaves a snapshot behind.
MCCalls == [p \in ProposalIds |->
    IF p = p1
    THEN <<[op |-> "mint", wallet |-> u2, amount |-> 1],
           [op |-> "add", name |-> n1, ipfsHash |-> h1]>>
    ELSE <<[op |-> "snapshot"], [op |-> "remove", name |-> n1], [op |-> "other"]>>]

\* Addresses of one byte, spelled with two digits.
MCAddress == [user \in Users |-> IF user = u1 THEN 26 ELSE 178]

\* "#proposer=0x1A" and "d#proposer=0xb2": digits of either case.
MCDescription == [p \in ProposalIds |->
    IF p = p1 THEN Marker \o <<49, 65>> ELSE <<100>> \o Marker \o <<98, 50>>]

MCMayPropose == [p \in ProposalIds |->
    {user \in Users : IsValidDescriptionForProposer(MCAddress[user], MCDescription[p], Digits)}]

\* With a supply of 5 and a quorum of 1/2 (floor(5/2) = 2): a result that reaches the
\* quorum exactly, and one without a majority that has another reward for the same user.
\* A reward of 1 minted later would move a quorum taken of the live supply to 3.  Under
\* the quorum of all the first one is defeated too.
Accepted == [forVotes |-> 2, againstVotes |-> 1, voteMerkleRoot |-> {<<u1, 1>>}]
Rejected == [forVotes |-> 1, againstVotes |-> 3, voteMerkleRoot |-> {<<u1, 2>>}]

AcceptedOnly == {Accepted}
MajorityOrNot == {Accepted, Rejected}
=============================================================================
