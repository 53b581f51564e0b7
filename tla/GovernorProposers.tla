-------------------------- MODULE GovernorProposers --------------------------
(***************************************************************************)
(* The Governor with the descriptions of its proposals: propose refuses    *)
(* whoever a description does not name.                                    *)
(***************************************************************************)
EXTENDS Governor, ContractStrings

CONSTANTS
    Digits,        \* of an address: 40
    Address,       \* Users -> their addresses
    Description    \* ProposalIds -> their descriptions

ASSUME DescriptionsAssumption ==
    /\ Digits \in Nat
    /\ Address \in [Users -> Nat]
    /\ \A user \in Users : Fits(Address[user], Digits)
    /\ \A user, other \in Users : Address[user] = Address[other] => user = other
    /\ Description \in [ProposalIds -> Seq(Byte)]
    /\ MayPropose = [p \in ProposalIds |->
         {user \in Users : IsValidDescriptionForProposer(Address[user], Description[p], Digits)}]

\* Nobody takes the proposal of another: the id is the hash of the call and the
\* description, so whoever proposes first owns the record, and a description that
\* reserves it is refused from everybody else (propose, GovernorContract.sol:181).
ProposerRespected ==
    \A p \in ProposalIds, user \in Users :
        Known(p) /\ EndsInProposer(Address[user], Description[p], Digits) =>
            proposals[p].proposer = user
=============================================================================
