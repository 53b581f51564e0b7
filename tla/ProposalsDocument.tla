-------------------------- MODULE ProposalsDocument ---------------------------
(***************************************************************************)
(* What the readers of the proposals document may rely on: the document is *)
(* replaced at any moment by any list that says nothing untrue.  It may    *)
(* miss proposals, be in any order and be as old as it likes.              *)
(*                                                                         *)
(* The pages that write it (ProposalsTile) implement this; the tally       *)
(* container (TallyJobs) and the TVL runner (LitRunner) are checked        *)
(* against it.                                                             *)
(***************************************************************************)
EXTENDS Integers, Sequences

CONSTANT ProposalIds

VARIABLES
    known,     \* the proposals made
    jobs,      \* ProposalIds -> the jobs ever requested for it
    executed,  \* the proposals executed
    document

documentVars == <<known, jobs, executed, document>>

\* Once each, with a job id of its own or none, executed only if it is.
Entry ==
    [id : known, executed : BOOLEAN, jobId : {0} \cup UNION {jobs[p] : p \in known}]

Truthful(entry) ==
    /\ entry \in Entry
    /\ entry.jobId \in {0} \cup jobs[entry.id]
    /\ entry.executed => entry.id \in executed

Acceptable(list) ==
    /\ \A i \in DOMAIN list : Truthful(list[i])
    /\ \A i, k \in DOMAIN list : list[i].id = list[k].id => i = k

Init ==
    /\ known = {} /\ executed = {}
    /\ jobs = [p \in ProposalIds |-> {}]
    /\ document = << >>

Propose(p) ==
    /\ p \notin known
    /\ known' = known \cup {p}
    /\ UNCHANGED <<jobs, executed, document>>

RequestJob(p, id) ==
    /\ p \in known
    /\ id \notin UNION {jobs[q] : q \in ProposalIds}
    /\ jobs' = [jobs EXCEPT ![p] = @ \cup {id}]
    /\ UNCHANGED <<known, executed, document>>

Execute(p) ==
    /\ p \in known \ executed /\ jobs[p] # {}
    /\ executed' = executed \cup {p}
    /\ UNCHANGED <<known, jobs, document>>

Rewrite ==
    /\ Acceptable(document')
    /\ UNCHANGED <<known, jobs, executed>>

Next ==
    \/ \E p \in ProposalIds : Propose(p) \/ Execute(p)
    \/ \E p \in ProposalIds : \E id \in jobs'[p] : RequestJob(p, id)
    \/ Rewrite

Spec == Init /\ [][Next]_documentVars
=============================================================================
