-------------------------- MODULE ProposalLifecycle --------------------------
(***************************************************************************)
(* What the Governor promises about one proposal: state() of               *)
(* GovernorContract.sol as a state machine of its own.                     *)
(*                                                                         *)
(* A proposal is voted on once, gets any number of jobs, each after the    *)
(* previous one was cancelled, and stays executed once it is.  The verdict *)
(* of a proposal that is not executed may change, with another report or   *)
(* another quorum.  Pending and Active have no job; nothing cancels,       *)
(* queues or expires a proposal.                                           *)
(***************************************************************************)
EXTENDS Integers

VARIABLES
    status,    \* state()
    bridgeId,  \* the job that is waited for, or 0
    jobs,      \* the jobs ever requested
    tallied    \* a result was reported

lifecycleVars == <<status, bridgeId, jobs, tallied>>

Verdicts == {"Succeeded", "Defeated"}

Statuses == Verdicts \cup
    {"Unknown", "Pending", "Active", "ResolutionToRequest", "ResolutionRequested", "Executed"}

Init ==
    /\ status = "Unknown"
    /\ bridgeId = 0
    /\ jobs = {}
    /\ tallied = FALSE

Propose ==
    /\ status = "Unknown"
    /\ status' = "Pending"
    /\ UNCHANGED <<bridgeId, jobs, tallied>>

OpenVoting ==
    /\ status = "Pending"
    /\ status' = "Active"
    /\ UNCHANGED <<bridgeId, jobs, tallied>>

\* With a voting period of 0 nobody sees it Active.
CloseVoting ==
    /\ status \in {"Pending", "Active"}
    /\ status' = "ResolutionToRequest"
    /\ UNCHANGED <<bridgeId, jobs, tallied>>

\* Of an earlier job, a result that came in spite of an error counts at once.
RequestJob(id) ==
    /\ status = "ResolutionToRequest"
    /\ id > 0 /\ id \notin jobs
    /\ bridgeId' = id
    /\ jobs' = jobs \cup {id}
    /\ status' \in IF tallied THEN Verdicts ELSE {"ResolutionRequested"}
    /\ UNCHANGED tallied

\* Without a job to wait for, and once executed, the result does not show.
ReportResult ==
    /\ jobs # {}
    /\ tallied' = TRUE
    /\ IF status = "ResolutionRequested" \/ status \in Verdicts
       THEN status' \in Verdicts
       ELSE UNCHANGED status
    /\ UNCHANGED <<bridgeId, jobs>>

\* Mutant of CancelJob: an executed proposal can be resolved again.
CancelJobReopening ==
    /\ jobs # {}
    /\ bridgeId' = 0
    /\ status' = "ResolutionToRequest"
    /\ UNCHANGED <<jobs, tallied>>

\* By an error of the bridge, or by anybody who calls lilypadCancelled.
CancelJob ==
    /\ jobs # {}
    /\ bridgeId' = 0
    /\ status' = IF status = "Executed" THEN "Executed" ELSE "ResolutionToRequest"
    /\ UNCHANGED <<jobs, tallied>>

ChangeQuorum ==
    /\ status \in Verdicts
    /\ status' \in Verdicts
    /\ UNCHANGED <<bridgeId, jobs, tallied>>

Execute ==
    /\ status = "Succeeded"
    /\ status' = "Executed"
    /\ UNCHANGED <<bridgeId, jobs, tallied>>

Next ==
    \/ Propose
    \/ OpenVoting
    \/ CloseVoting
    \/ \E id \in jobs' : RequestJob(id)
    \/ ReportResult
    \/ CancelJob
    \/ ChangeQuorum
    \/ Execute

Spec == Init /\ [][Next]_lifecycleVars
=============================================================================
