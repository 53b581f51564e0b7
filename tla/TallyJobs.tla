------------------------------ MODULE TallyJobs -------------------------------
(***************************************************************************)
(* The way of a tally: which votes a container counts for which proposal,  *)
(* and to which proposal its report goes.  Runs of the container           *)
(* (bacalhau-container/index.js) next to the proposals on the chain, over  *)
(* the proposals document.                                                 *)
(*                                                                         *)
(* A run is given PROPOSAL_NAME, and PROPOSAL_ID or not, for a proposal.   *)
(* It takes the first entry with the name, reads the votes of that entry's *)
(* proposal, counts them with the snapshot of PROPOSAL_ID and reports      *)
(* under the entry's job id.                                               *)
(*                                                                         *)
(* Simplifications: the content of the document at the look-up is any that *)
(* ProposalsDocument allows; a tally is what it was made of, the counting  *)
(* itself is TallyContainer.                                               *)
(***************************************************************************)
EXTENDS ProposalChain

CONSTANTS
    Names,       \* of adapters
    Containers,
    NoTally

VARIABLES
    nameOf,      \* ProposalIds -> the adapter their call adds
    run,         \* the runs of the container
    tally        \* what the Governor stores for each proposal, or NoTally

tallyVars == <<chain, nameOf, run, tally>>

Document == INSTANCE ProposalsDocument WITH
    known <- KnownProposals,
    jobs <- [p \in ProposalIds |-> chain[p].jobs],
    executed <- {},
    document <- << >>

\* Whose votes were read, whether their voting was over, and whose snapshot gave
\* the balances.
Tally == [votes : ProposalIds, complete : BOOLEAN, snapshot : ProposalIds]

Run == {[step |-> "idle"]} \cup
    [step : {"getVotes"}, proposal : ProposalIds, proposalId : ProposalIds, jobId : {0} \cup Jobs]
    \cup [step : {"report"}, tally : Tally, jobId : {0} \cup Jobs]

JobsTypeOK ==
    /\ chain \in [ProposalIds -> ChainRecord]
    /\ nameOf \in [ProposalIds -> Names]
    /\ run \in [Containers -> Run]
    /\ tally \in [ProposalIds -> Tally \cup {NoTally}]

Init ==
    /\ ChainInit
    /\ nameOf \in [ProposalIds -> Names]
    /\ run = [c \in Containers |-> [step |-> "idle"]]
    /\ tally = [p \in ProposalIds |-> NoTally]

ChainStep(p) ==
    /\ ChainChanges(p, chain[p].tallied)
    /\ UNCHANGED <<nameOf, run, tally>>

-----------------------------------------------------------------------------
Lists == UNION {[1 .. n -> Document!Entry] : n \in 0 .. Cardinality(KnownProposals)}

\* Mutant of FirstNamed: whatever is first.
FirstListed(list, name) == {list[i] : i \in DOMAIN list \cap {1}}

\* The first entry with the name, if there is one.
FirstNamed(list, name) ==
    {list[i] : i \in {n \in DOMAIN list :
        /\ nameOf[list[n].id] = name
        /\ \A k \in 1 .. n - 1 : nameOf[list[k].id] # name}}

\* Mutant of FindProposal: the votes are those of PROPOSAL_ID.
FindProposalById(c, p, idGiven) ==
    /\ run[c].step = "idle"
    /\ \E list \in Lists :
         /\ Document!Acceptable(list)
         /\ \E entry \in FirstNamed(list, nameOf[p]) :
              LET proposalId == IF idGiven THEN p ELSE entry.id
              IN run' = [run EXCEPT ![c] =
                   [step |-> "getVotes", proposal |-> proposalId,
                    proposalId |-> proposalId, jobId |-> entry.jobId]]
    /\ UNCHANGED <<chain, nameOf, tally>>

\* Mutant of FindProposal: a run that finds no entry goes on without a job id.
FindProposalOptional(c, p, idGiven) ==
    /\ run[c].step = "idle"
    /\ \E list \in Lists :
         /\ Document!Acceptable(list)
         /\ LET found == FirstNamed(list, nameOf[p])
                jobId == IF found = {} THEN NoTally ELSE (CHOOSE entry \in found : TRUE).jobId
            IN run' = [run EXCEPT ![c] =
                 [step |-> "getVotes", proposal |-> p, proposalId |-> p, jobId |-> jobId]]
    /\ UNCHANGED <<chain, nameOf, tally>>

\* A run for p, with PROPOSAL_ID or without.  If there is no entry it throws.
FindProposal(c, p, idGiven) ==
    /\ run[c].step = "idle"
    /\ \E list \in Lists :
         /\ Document!Acceptable(list)
         /\ \E entry \in FirstNamed(list, nameOf[p]) :
              run' = [run EXCEPT ![c] =
                [step |-> "getVotes", proposal |-> entry.id,
                 proposalId |-> IF idGiven THEN p ELSE entry.id, jobId |-> entry.jobId]]
    /\ UNCHANGED <<chain, nameOf, tally>>

VotingOver(p) == chain[p].status \notin {"Unknown", "Pending", "Active"}

GetVotes(c) ==
    /\ run[c].step = "getVotes"
    /\ run' = [run EXCEPT ![c] =
         [step |-> "report",
          tally |-> [votes |-> run[c].proposal, complete |-> VotingOver(run[c].proposal),
                     snapshot |-> run[c].proposalId],
          jobId |-> run[c].jobId]]
    /\ UNCHANGED <<chain, nameOf, tally>>

\* Mutant of ReportedId: the job id is looked up again for the report.
ReportedIdAnew(c) == chain[run[c].tally.votes].bridgeId

ReportedId(c) == run[c].jobId

\* Through the bridge to the proposal that the job id maps to.
ReportTally(c, p) ==
    /\ run[c].step = "report"
    /\ ReportedId(c) \in chain[p].jobs
    /\ \E state \in Statuses :
         /\ chain' = [chain EXCEPT ![p].status = state, ![p].tallied = TRUE]
         /\ Lifecycle(p)!ReportResult
    /\ tally' = [tally EXCEPT ![p] = run[c].tally]
    /\ run' = [run EXCEPT ![c] = [step |-> "idle"]]
    /\ UNCHANGED nameOf

\* Nothing is mapped to the id 0, whose report is stored where nobody looks; or a
\* request fails and the run throws.
RunEnds(c) ==
    /\ run[c].step # "idle"
    /\ run' = [run EXCEPT ![c] = [step |-> "idle"]]
    /\ UNCHANGED <<chain, nameOf, tally>>

ContainerNext(c) ==
    \/ \E p \in KnownProposals, idGiven \in BOOLEAN : FindProposal(c, p, idGiven)
    \/ GetVotes(c)
    \/ \E p \in ProposalIds : ReportTally(c, p)
    \/ RunEnds(c)

Next ==
    \/ \E p \in ProposalIds : ChainStep(p)
    \/ \E c \in Containers : ContainerNext(c)

Spec == Init /\ [][Next]_tallyVars

-----------------------------------------------------------------------------
Tallied == {p \in ProposalIds : tally[p] # NoTally}

\* However old the document is and whoever shares the name, a proposal is decided
\* by the votes on it: the job id and the votes come from one entry.
TallyOfOwnVotes == \A p \in Tallied : tally[p].votes = p

\* A run may start at any time, and a job id may be looked up long before the
\* votes; yet no tally that counts was read while the voting went on.
TallyAfterVoting == \A p \in Tallied : tally[p].complete

\* Only a proposal to add an adapter of the same name can get its snapshot mixed
\* into the tally of another.
SnapshotOfNamesake == \A p \in Tallied : nameOf[tally[p].snapshot] = nameOf[p]
=============================================================================
