--------------------------- MODULE TallyJobsProofs ----------------------------
(***************************************************************************)
(* A proposal is decided by its own votes, counted after its voting: for   *)
(* any proposals, names, runs of the container and jobs, over any document *)
(* that says nothing untrue.                                               *)
(***************************************************************************)
EXTENDS TallyJobs, TLAPS

\* No job of two proposals, and none of a proposal that is still voted on.
ChainInv ==
    /\ \A p \in ProposalIds :
         /\ chain[p].bridgeId \in {0} \cup chain[p].jobs
         /\ chain[p].jobs # {} => VotingOver(p)
    /\ \A p, q \in ProposalIds : p # q => chain[p].jobs \cap chain[q].jobs = {}

\* The job id a run holds is one of the proposal whose votes it reads, so that they
\* are complete if there is one.
RunInv ==
    \A c \in Containers :
        /\ run[c].step = "getVotes" =>
             /\ run[c].jobId \in {0} \cup chain[run[c].proposal].jobs
             /\ nameOf[run[c].proposalId] = nameOf[run[c].proposal]
        /\ run[c].step = "report" =>
             /\ run[c].jobId \in {0} \cup chain[run[c].tally.votes].jobs
             /\ run[c].jobId # 0 => run[c].tally.complete
             /\ nameOf[run[c].tally.snapshot] = nameOf[run[c].tally.votes]

TallyInv ==
    /\ JobsTypeOK /\ ChainInv /\ RunInv
    /\ TallyOfOwnVotes /\ TallyAfterVoting /\ SnapshotOfNamesake

-----------------------------------------------------------------------------
\* One proposal's record changes: what the life cycle lets happen to the jobs.
LEMMA ChangedRecord ==
    ASSUME chain \in [ProposalIds -> ChainRecord], ChainInv,
           NEW p \in ProposalIds, NEW tallied \in BOOLEAN,
           ChainChanges(p, tallied)
    PROVE  /\ chain' \in [ProposalIds -> ChainRecord]
           /\ \A q \in ProposalIds \ {p} : chain'[q] = chain[q]
           /\ chain[p].jobs \subseteq chain'[p].jobs
           /\ chain'[p].jobs \ chain[p].jobs \subseteq NewJobs
           /\ chain'[p].bridgeId \in {0} \cup chain'[p].jobs
           /\ chain'[p].jobs # {} => VotingOver(p)'
<1> PICK state \in Statuses, id \in {0, chain[p].bridgeId} \cup NewJobs :
      /\ chain' = [chain EXCEPT ![p] =
           [status |-> state, bridgeId |-> id,
            jobs |-> @.jobs \cup ({id} \ {0}), tallied |-> tallied]]
      /\ Lifecycle(p)!Next
  BY DEF ChainChanges
<1>1. /\ chain[p] \in ChainRecord
      /\ NewJobs \subseteq Jobs
      /\ id \in {0} \cup Jobs
  BY DEF ChainRecord, NewJobs
<1>2. chain'[p] = [status |-> state, bridgeId |-> id,
                   jobs |-> chain[p].jobs \cup ({id} \ {0}), tallied |-> tallied]
  OBVIOUS
<1>3. chain'[p] \in ChainRecord
  BY <1>1, <1>2 DEF ChainRecord
<1>4. chain' \in [ProposalIds -> ChainRecord] /\ \A q \in ProposalIds \ {p} : chain'[q] = chain[q]
  BY <1>2, <1>3
<1>5. chain'[p].jobs # {} => VotingOver(p)'
  <2> USE <1>2 DEF ChainInv, VotingOver
  <2>1. CASE Lifecycle(p)!Propose \/ Lifecycle(p)!OpenVoting
    BY <2>1 DEF Lifecycle!Propose, Lifecycle!OpenVoting
  <2>2. CASE Lifecycle(p)!CloseVoting
    BY <2>2 DEF Lifecycle!CloseVoting
  <2>3. CASE \E job \in chain'[p].jobs : Lifecycle(p)!RequestJob(job)
    BY <2>3 DEF Lifecycle!RequestJob, Lifecycle!Verdicts
  <2>4. CASE Lifecycle(p)!ReportResult
    BY <2>4 DEF Lifecycle!ReportResult, Lifecycle!Verdicts
  <2>5. CASE Lifecycle(p)!CancelJob
    BY <2>5 DEF Lifecycle!CancelJob
  <2>6. CASE Lifecycle(p)!ChangeQuorum \/ Lifecycle(p)!Execute
    BY <2>6 DEF Lifecycle!ChangeQuorum, Lifecycle!Execute, Lifecycle!Verdicts
  <2> QED
    BY <2>1, <2>2, <2>3, <2>4, <2>5, <2>6 DEF Lifecycle!Next
<1> QED
  BY <1>1, <1>2, <1>4, <1>5 DEF ChainInv

\* Nobody loses a job, and the new one was nobody's.
LEMMA ChangedChain ==
    ASSUME chain \in [ProposalIds -> ChainRecord], ChainInv,
           NEW p \in ProposalIds, NEW tallied \in BOOLEAN,
           ChainChanges(p, tallied)
    PROVE  /\ chain' \in [ProposalIds -> ChainRecord]
           /\ ChainInv'
           /\ \A q \in ProposalIds : chain[q].jobs \subseteq chain'[q].jobs
<1>1. /\ chain' \in [ProposalIds -> ChainRecord]
      /\ \A q \in ProposalIds \ {p} : chain'[q] = chain[q]
      /\ chain[p].jobs \subseteq chain'[p].jobs
      /\ chain'[p].jobs \ chain[p].jobs \subseteq NewJobs
      /\ chain'[p].bridgeId \in {0} \cup chain'[p].jobs
      /\ chain'[p].jobs # {} => VotingOver(p)'
  BY ChangedRecord
<1>2. \A q \in ProposalIds \ {p} : VotingOver(q)' = VotingOver(q)
  BY <1>1 DEF VotingOver
<1>3. \A q \in ProposalIds \ {p} : chain'[p].jobs \cap chain[q].jobs = {}
  BY <1>1 DEF ChainInv, NewJobs
<1>4. ChainInv'
  BY <1>1, <1>2, <1>3 DEF ChainInv
<1> QED
  BY <1>1, <1>4

\* What is known of the runs and the tallies stays true when jobs are added.
LEMMA LongerJobs ==
    ASSUME JobsTypeOK, RunInv,
           \A q \in ProposalIds : chain[q].jobs \subseteq chain'[q].jobs,
           UNCHANGED <<nameOf, run>>
    PROVE  RunInv'
<1> SUFFICES ASSUME NEW c \in Containers
             PROVE  /\ run[c].step = "getVotes" =>
                         /\ run[c].jobId \in {0} \cup chain'[run[c].proposal].jobs
                         /\ nameOf[run[c].proposalId] = nameOf[run[c].proposal]
                    /\ run[c].step = "report" =>
                         /\ run[c].jobId \in {0} \cup chain'[run[c].tally.votes].jobs
                         /\ run[c].jobId # 0 => run[c].tally.complete
                         /\ nameOf[run[c].tally.snapshot] = nameOf[run[c].tally.votes]
  BY DEF RunInv
<1>1. run[c] \in Run
  BY DEF JobsTypeOK
<1>2. CASE run[c].step = "getVotes"
  <2>1. run[c].proposal \in ProposalIds
    BY <1>1, <1>2 DEF Run
  <2> QED
    BY <1>2, <2>1 DEF RunInv
<1>3. CASE run[c].step = "report"
  <2>1. run[c].tally.votes \in ProposalIds
    BY <1>1, <1>3 DEF Run, Tally
  <2> QED
    BY <1>3, <2>1 DEF RunInv
<1> QED
  BY <1>2, <1>3

-----------------------------------------------------------------------------
LEMMA InitTallyInv ==
    ASSUME Init
    PROVE  TallyInv
<1>1. JobsTypeOK
  BY DEF Init, JobsTypeOK, ChainInit, ChainRecord, Statuses, Run
<1>2. ChainInv
  BY DEF Init, ChainInit, ChainInv
<1>3. RunInv
  BY DEF Init, RunInv
<1>4. Tallied = {}
  BY DEF Init, Tallied
<1> QED
  BY <1>1, <1>2, <1>3, <1>4
     DEF TallyInv, TallyOfOwnVotes, TallyAfterVoting, SnapshotOfNamesake

LEMMA ChainStepInv ==
    ASSUME TallyInv, NEW p \in ProposalIds, ChainStep(p)
    PROVE  TallyInv'
<1> USE DEF TallyInv, ChainStep
<1>1. chain[p].tallied \in BOOLEAN
  BY DEF JobsTypeOK, ChainRecord
<1>2. /\ chain' \in [ProposalIds -> ChainRecord]
      /\ ChainInv'
      /\ \A q \in ProposalIds : chain[q].jobs \subseteq chain'[q].jobs
  BY <1>1, ChangedChain DEF JobsTypeOK
<1>3. JobsTypeOK'
  BY <1>2 DEF JobsTypeOK
<1>4. RunInv'
  BY <1>2, LongerJobs
<1>5. TallyOfOwnVotes' /\ TallyAfterVoting' /\ SnapshotOfNamesake'
  BY DEF TallyOfOwnVotes, TallyAfterVoting, SnapshotOfNamesake, Tallied
<1> QED
  BY <1>2, <1>3, <1>4, <1>5

LEMMA FindProposalInv ==
    ASSUME TallyInv, NEW c \in Containers, NEW p \in ProposalIds, NEW idGiven \in BOOLEAN,
           FindProposal(c, p, idGiven)
    PROVE  TallyInv'
<1> USE DEF TallyInv
<1>1. PICK list \in Lists : /\ Document!Acceptable(list)
                            /\ \E entry \in FirstNamed(list, nameOf[p]) :
                                 run' = [run EXCEPT ![c] =
                                   [step |-> "getVotes", proposal |-> entry.id,
                                    proposalId |-> IF idGiven THEN p ELSE entry.id,
                                    jobId |-> entry.jobId]]
  BY DEF FindProposal
<1>2. PICK i \in DOMAIN list :
        /\ nameOf[list[i].id] = nameOf[p]
        /\ run' = [run EXCEPT ![c] =
             [step |-> "getVotes", proposal |-> list[i].id,
              proposalId |-> IF idGiven THEN p ELSE list[i].id, jobId |-> list[i].jobId]]
  BY <1>1 DEF FirstNamed
<1>3. /\ list[i].id \in ProposalIds
      /\ list[i].jobId \in {0} \cup chain[list[i].id].jobs
  BY <1>1, <1>2 DEF Document!Acceptable, Document!Truthful, Document!Entry, KnownProposals
<1>4. list[i].jobId \in {0} \cup Jobs
  BY <1>3 DEF JobsTypeOK, ChainRecord
<1> HIDE DEF TallyInv
<1> DEFINE found == [step |-> "getVotes", proposal |-> list[i].id,
                     proposalId |-> IF idGiven THEN p ELSE list[i].id, jobId |-> list[i].jobId]
<1>5. /\ found \in Run /\ found.step = "getVotes"
      /\ found.jobId \in {0} \cup chain[found.proposal].jobs
      /\ nameOf[found.proposalId] = nameOf[found.proposal]
  BY <1>2, <1>3, <1>4 DEF Run
<1>6. run' = [run EXCEPT ![c] = found]
  BY <1>2
<1> HIDE DEF found
<1>7. UNCHANGED <<chain, nameOf, tally>>
  BY DEF FindProposal
<1>8. JobsTypeOK' /\ ChainInv'
  BY <1>5, <1>6, <1>7 DEF TallyInv, JobsTypeOK, ChainInv, VotingOver
<1>9. RunInv'
  BY <1>5, <1>6, <1>7 DEF TallyInv, JobsTypeOK, RunInv
<1>10. TallyOfOwnVotes' /\ TallyAfterVoting' /\ SnapshotOfNamesake'
  BY <1>7 DEF TallyInv, TallyOfOwnVotes, TallyAfterVoting, SnapshotOfNamesake, Tallied
<1> QED
  BY <1>8, <1>9, <1>10 DEF TallyInv

LEMMA GetVotesInv ==
    ASSUME TallyInv, NEW c \in Containers, GetVotes(c)
    PROVE  TallyInv'
<1> DEFINE read == [step |-> "report",
                    tally |-> [votes |-> run[c].proposal, complete |-> VotingOver(run[c].proposal),
                               snapshot |-> run[c].proposalId],
                    jobId |-> run[c].jobId]
<1>1. run[c] \in Run /\ run[c].step = "getVotes"
  BY DEF TallyInv, JobsTypeOK, GetVotes
<1>2. /\ run[c].proposal \in ProposalIds /\ run[c].proposalId \in ProposalIds
      /\ run[c].jobId \in {0} \cup Jobs
  BY <1>1 DEF Run
<1>3. /\ run[c].jobId \in {0} \cup chain[run[c].proposal].jobs
      /\ nameOf[run[c].proposalId] = nameOf[run[c].proposal]
  BY <1>1 DEF TallyInv, RunInv
<1>4. run[c].jobId # 0 => VotingOver(run[c].proposal)
  BY <1>2, <1>3 DEF TallyInv, ChainInv
<1>5. VotingOver(run[c].proposal) \in BOOLEAN
  BY DEF VotingOver
<1>6. /\ read \in Run /\ read.step = "report"
      /\ read.jobId \in {0} \cup chain[read.tally.votes].jobs
      /\ read.jobId # 0 => read.tally.complete
      /\ nameOf[read.tally.snapshot] = nameOf[read.tally.votes]
  BY <1>2, <1>3, <1>4, <1>5 DEF Run, Tally
<1>7. run' = [run EXCEPT ![c] = read] /\ UNCHANGED <<chain, nameOf, tally>>
  BY DEF GetVotes
<1> HIDE DEF read
<1>8. JobsTypeOK' /\ ChainInv'
  BY <1>6, <1>7 DEF TallyInv, JobsTypeOK, ChainInv, VotingOver
<1>9. RunInv'
  BY <1>6, <1>7 DEF TallyInv, JobsTypeOK, RunInv
<1>10. TallyOfOwnVotes' /\ TallyAfterVoting' /\ SnapshotOfNamesake'
  BY <1>7 DEF TallyInv, TallyOfOwnVotes, TallyAfterVoting, SnapshotOfNamesake, Tallied
<1> QED
  BY <1>8, <1>9, <1>10 DEF TallyInv

\* The step that matters: the job is of one proposal only, the one whose votes were
\* read, and there is a job, so they were complete.
LEMMA ReportTallyInv ==
    ASSUME TallyInv, NEW c \in Containers, NEW p \in ProposalIds, ReportTally(c, p)
    PROVE  TallyInv'
<1> DEFINE made == run[c].tally
<1>1. /\ run[c] \in Run /\ run[c].step = "report"
      /\ run[c].jobId \in chain[p].jobs
  BY DEF TallyInv, JobsTypeOK, ReportTally, ReportedId
<1>2. made \in Tally /\ made.votes \in ProposalIds
  BY <1>1 DEF Run, Tally
<1>3. run[c].jobId # 0
  BY <1>1 DEF TallyInv, JobsTypeOK, ChainRecord, Jobs
<1>4. /\ run[c].jobId \in chain[made.votes].jobs
      /\ made.complete
      /\ nameOf[made.snapshot] = nameOf[made.votes]
  BY <1>1, <1>3 DEF TallyInv, RunInv
<1>5. made.votes = p
  BY <1>1, <1>2, <1>4 DEF TallyInv, ChainInv
<1>6. PICK state \in Statuses :
        /\ chain' = [chain EXCEPT ![p].status = state, ![p].tallied = TRUE]
        /\ Lifecycle(p)!ReportResult
  BY DEF ReportTally
<1>7. /\ chain' \in [ProposalIds -> ChainRecord]
      /\ \A q \in ProposalIds : /\ chain'[q].jobs = chain[q].jobs
                                /\ chain'[q].bridgeId = chain[q].bridgeId
                                /\ q # p => chain'[q] = chain[q]
      /\ chain'[p].status = state
  BY <1>6 DEF TallyInv, JobsTypeOK, ChainRecord
<1>8. VotingOver(p) => VotingOver(p)'
  BY <1>6, <1>7 DEF VotingOver, Lifecycle!ReportResult, Lifecycle!Verdicts
<1>9. ChainInv'
  BY <1>7, <1>8 DEF TallyInv, ChainInv, VotingOver
<1>10. /\ tally' = [tally EXCEPT ![p] = made]
       /\ run' = [run EXCEPT ![c] = [step |-> "idle"]]
       /\ nameOf' = nameOf
  BY DEF ReportTally
<1> HIDE DEF made
<1>11. JobsTypeOK'
  BY <1>2, <1>7, <1>10 DEF TallyInv, JobsTypeOK, Run
<1>12. RunInv'
  <2> SUFFICES ASSUME NEW d \in Containers
               PROVE  /\ run'[d].step = "getVotes" =>
                           /\ run'[d].jobId \in {0} \cup chain'[run'[d].proposal].jobs
                           /\ nameOf[run'[d].proposalId] = nameOf[run'[d].proposal]
                      /\ run'[d].step = "report" =>
                           /\ run'[d].jobId \in {0} \cup chain'[run'[d].tally.votes].jobs
                           /\ run'[d].jobId # 0 => run'[d].tally.complete
                           /\ nameOf[run'[d].tally.snapshot] = nameOf[run'[d].tally.votes]
    BY <1>10 DEF RunInv
  <2>1. CASE d = c
    BY <2>1, <1>10 DEF TallyInv, JobsTypeOK
  <2>2. CASE d # c
    <3>1. run'[d] = run[d] /\ run[d] \in Run
      BY <2>2, <1>10 DEF TallyInv, JobsTypeOK
    <3>2. run[d].step = "getVotes" => run[d].proposal \in ProposalIds
      BY <3>1 DEF Run
    <3>3. run[d].step = "report" => run[d].tally.votes \in ProposalIds
      BY <3>1 DEF Run, Tally
    <3> QED
      BY <3>1, <3>2, <3>3, <1>7 DEF TallyInv, RunInv
  <2> QED
    BY <2>1, <2>2
<1>13. \A q \in Tallied' : q # p => q \in Tallied /\ tally'[q] = tally[q]
  BY <1>10 DEF TallyInv, JobsTypeOK, Tallied
<1>14. tally'[p] = made
  BY <1>10 DEF TallyInv, JobsTypeOK
<1>15. TallyOfOwnVotes' /\ TallyAfterVoting' /\ SnapshotOfNamesake'
  BY <1>4, <1>5, <1>10, <1>13, <1>14
     DEF TallyInv, TallyOfOwnVotes, TallyAfterVoting, SnapshotOfNamesake
<1> QED
  BY <1>9, <1>11, <1>12, <1>15 DEF TallyInv

LEMMA RunEndsInv ==
    ASSUME TallyInv, NEW c \in Containers, RunEnds(c)
    PROVE  TallyInv'
<1>1. run' = [run EXCEPT ![c] = [step |-> "idle"]] /\ UNCHANGED <<chain, nameOf, tally>>
  BY DEF RunEnds
<1>2. JobsTypeOK' /\ ChainInv'
  BY <1>1 DEF TallyInv, JobsTypeOK, ChainInv, VotingOver, Run
<1>3. RunInv'
  BY <1>1 DEF TallyInv, JobsTypeOK, RunInv
<1>4. TallyOfOwnVotes' /\ TallyAfterVoting' /\ SnapshotOfNamesake'
  BY <1>1 DEF TallyInv, TallyOfOwnVotes, TallyAfterVoting, SnapshotOfNamesake, Tallied
<1> QED
  BY <1>2, <1>3, <1>4 DEF TallyInv

-----------------------------------------------------------------------------
\* The inductive invariant of the runs, the chain and the tallies together.
THEOREM TallyInductive == Spec => []TallyInv
<1>1. Init => TallyInv
  BY InitTallyInv
<1>2. TallyInv /\ [Next]_tallyVars => TallyInv'
  <2> SUFFICES ASSUME TallyInv, [Next]_tallyVars
               PROVE  TallyInv'
    OBVIOUS
  <2>1. CASE \E p \in ProposalIds : ChainStep(p)
    BY <2>1, ChainStepInv
  <2>2. ASSUME NEW c \in Containers, ContainerNext(c)
        PROVE  TallyInv'
    <3>1. CASE \E p \in KnownProposals, idGiven \in BOOLEAN : FindProposal(c, p, idGiven)
      BY <3>1, FindProposalInv DEF KnownProposals
    <3>2. CASE GetVotes(c)
      BY <3>2, GetVotesInv
    <3>3. CASE \E p \in ProposalIds : ReportTally(c, p)
      BY <3>3, ReportTallyInv
    <3>4. CASE RunEnds(c)
      BY <3>4, RunEndsInv
    <3> QED
      BY <2>2, <3>1, <3>2, <3>3, <3>4 DEF ContainerNext
  <2>3. CASE UNCHANGED tallyVars
    BY <2>3 DEF tallyVars, TallyInv, JobsTypeOK, ChainInv, VotingOver, RunInv,
                TallyOfOwnVotes, TallyAfterVoting, SnapshotOfNamesake, Tallied
  <2> QED
    BY <2>1, <2>2, <2>3 DEF Next
<1> QED
  BY <1>1, <1>2, PTL DEF Spec

\* The chain, the runs and the tallies have their types.
THEOREM JobsTypes == Spec => []JobsTypeOK
<1>1. TallyInv => JobsTypeOK
  BY DEF TallyInv
<1> QED
  BY <1>1, TallyInductive, PTL

\* Whatever the document says when a run looks its proposal up, and whoever shares the
\* name: the tally that decides a proposal is made of the votes on that proposal.
THEOREM DecidedByOwnVotes == Spec => []TallyOfOwnVotes
<1>1. TallyInv => TallyOfOwnVotes
  BY DEF TallyInv
<1> QED
  BY <1>1, TallyInductive, PTL

\* No tally that counts was read before the voting on it was over.
THEOREM DecidedAfterVoting == Spec => []TallyAfterVoting
<1>1. TallyInv => TallyAfterVoting
  BY DEF TallyInv
<1> QED
  BY <1>1, TallyInductive, PTL

\* The snapshot in a tally is the proposal's own or that of one with the same name.
THEOREM SnapshotByName == Spec => []SnapshotOfNamesake
<1>1. TallyInv => SnapshotOfNamesake
  BY DEF TallyInv
<1> QED
  BY <1>1, TallyInductive, PTL
=============================================================================
