----------------------- MODULE GovernorLifecycleProofs -----------------------
(***************************************************************************)
(* The Governor implements ProposalLifecycle, for any proposal among any   *)
(* others and any jobs, reports and settings.                              *)
(***************************************************************************)
EXTENDS GovernorLifecycle, GovernorProofs

\* What the types leave open: nothing is canceled, what is executed has had its
\* vote, a vote does not end before it starts, and a job is one of the bridge's.
LifeInv ==
    \A p \in ProposalIds :
        /\ ~proposals[p].canceled
        /\ proposals[p].executed => Known(p) /\ proposals[p].voteEnd < now
        /\ proposals[p].voteStart <= proposals[p].voteEnd
        /\ proposals[p].bridgeId \in JobIds

\* state() as a function of the record, the time and the verdict.
StateOf(r, time, accepted) ==
    IF r.executed THEN "Executed"
    ELSE IF r.canceled THEN "Canceled"
    ELSE IF r.voteStart = 0 THEN "Unknown"
    ELSE IF r.voteStart >= time THEN "Pending"
    ELSE IF r.voteEnd >= time THEN "Active"
    ELSE IF r.bridgeId = 0 THEN "ResolutionToRequest"
    ELSE IF r.voteMerkleRoot = {} THEN "ResolutionRequested"
    ELSE IF accepted THEN "Succeeded" ELSE "Defeated"

Accepted == QuorumReached(Subject) /\ VoteSucceeded(Subject)

LEMMA StateIsStateOf ==
    /\ State(Subject) = StateOf(proposals[Subject], now, Accepted)
    /\ State(Subject)' = StateOf(proposals'[Subject], now', Accepted')
BY DEF State, StateOf, Known, VotingOpen, Accepted

-----------------------------------------------------------------------------
(* The phases of a record. *)

ClosedAt(r, time) == r.voteStart # 0 /\ r.voteEnd < time

LEMMA StateOfClosed ==
    ASSUME NEW r \in ProposalCore, NEW time \in Nat, NEW accepted,
           ~r.canceled, r.voteStart <= r.voteEnd, ClosedAt(r, time)
    PROVE  /\ r.executed => StateOf(r, time, accepted) = "Executed"
           /\ ~r.executed /\ r.bridgeId = 0
                => StateOf(r, time, accepted) = "ResolutionToRequest"
           /\ ~r.executed /\ r.bridgeId # 0 /\ r.voteMerkleRoot = {}
                => StateOf(r, time, accepted) = "ResolutionRequested"
           /\ ~r.executed /\ r.bridgeId # 0 /\ r.voteMerkleRoot # {}
                => StateOf(r, time, accepted) \in {"Succeeded", "Defeated"}
<1>1. r.voteStart \in Nat /\ r.voteEnd \in Nat
  BY DEF ProposalCore
<1>2. ~(r.voteStart >= time) /\ ~(r.voteEnd >= time) /\ r.voteStart # 0
  BY <1>1 DEF ClosedAt
<1> QED BY <1>2 DEF StateOf

LEMMA StateOfOpen ==
    ASSUME NEW r \in ProposalCore, NEW time \in Nat, NEW accepted,
           ~r.canceled, ~r.executed, ~ClosedAt(r, time)
    PROVE  StateOf(r, time, accepted) =
             IF r.voteStart = 0 THEN "Unknown"
             ELSE IF r.voteStart >= time THEN "Pending" ELSE "Active"
<1>1. r.voteStart = 0 \/ r.voteEnd >= time
  BY DEF ProposalCore, ClosedAt
<1> QED BY <1>1 DEF StateOf

-----------------------------------------------------------------------------
(* The invariant of the records. *)

LEMMA LifeInit ==
    ASSUME Init
    PROVE  LifeInv
BY BridgeAssumption DEF Init, LifeInv, NoProposal, JobIds

\* Of a record that does not change, or only in its tally.
LEMMA LifeKept ==
    ASSUME TypeInv, LifeInv, now' \in Nat, now' >= now,
           NEW p \in ProposalIds,
           proposals'[p].canceled = proposals[p].canceled,
           proposals'[p].executed = proposals[p].executed,
           proposals'[p].voteStart = proposals[p].voteStart,
           proposals'[p].voteEnd = proposals[p].voteEnd,
           proposals'[p].bridgeId \in JobIds
    PROVE  /\ ~proposals'[p].canceled
           /\ proposals'[p].executed =>
                proposals'[p].voteStart # 0 /\ proposals'[p].voteEnd < now'
           /\ proposals'[p].voteStart <= proposals'[p].voteEnd
           /\ proposals'[p].bridgeId \in JobIds
<1>1. now \in Nat /\ proposals[p].voteEnd \in Nat
  BY DEF TypeInv, GovernorTypeOK, ProposalCore
<1> QED BY <1>1 DEF LifeInv, Known

LEMMA ProposeLife ==
    ASSUME TypeInv, LifeInv, NEW p \in ProposalIds, NEW proposer \in Users,
           Propose(p, proposer)
    PROVE  LifeInv'
<1>1. now \in Nat /\ now' = now /\ votingPeriod \in Nat
  BY DEF TypeInv, GovernorTypeOK, Propose
<1>2. /\ ~proposals'[p].canceled /\ ~proposals'[p].executed
      /\ proposals'[p].voteStart = now /\ proposals'[p].voteEnd = now + votingPeriod
      /\ proposals'[p].bridgeId = 0
      /\ \A q \in ProposalIds \ {p} : proposals'[q] = proposals[q]
  BY DEF Propose, NoProposal, TypeInv, GovernorTypeOK
<1>3. 0 \in JobIds
  BY BridgeAssumption DEF JobIds
<1> QED BY <1>1, <1>2, <1>3 DEF LifeInv, Known

LEMMA RequestLife ==
    ASSUME TypeInv, CounterBounds, LifeInv, NEW p \in ProposalIds, RequestVoteResolution(p)
    PROVE  LifeInv'
<1>1. now \in Nat /\ now' = now
  BY DEF TypeInv, GovernorTypeOK, RequestVoteResolution
<1>2. jobIds \in JobIds
  BY BridgeAssumption
     DEF RequestVoteResolution, Bridge!RunLilypadJob, TypeInv, Bridge!BridgeTypeOK,
         CounterBounds, JobIds
<1>3. \A q \in ProposalIds :
        /\ proposals'[q].canceled = proposals[q].canceled
        /\ proposals'[q].executed = proposals[q].executed
        /\ proposals'[q].voteStart = proposals[q].voteStart
        /\ proposals'[q].voteEnd = proposals[q].voteEnd
        /\ proposals'[q].bridgeId \in {jobIds, proposals[q].bridgeId}
  BY DEF RequestVoteResolution, TypeInv, GovernorTypeOK, ProposalCore
<1> QED BY <1>1, <1>2, <1>3, LifeKept DEF LifeInv, Known

\* Results and cancellations.
LEMMA ReportLife ==
    ASSUME TypeInv, LifeInv, NEW id \in JobIds,
           \/ \E result \in Responses \cup {Undecodable} : ReturnResults(id, result)
           \/ Cancellation(id)
    PROVE  LifeInv'
<1>1. now \in Nat /\ now' = now
  BY CancellationFacts DEF TypeInv, GovernorTypeOK, ReturnResults
<1>2. PICK p \in Ids : p = jobIdToProposal[id]
  BY DEF TypeInv, GovernorTypeOK, Ids
<1> DEFINE Kept == \A q \in Ids :
             /\ proposals'[q].canceled = proposals[q].canceled
             /\ proposals'[q].executed = proposals[q].executed
             /\ proposals'[q].voteStart = proposals[q].voteStart
             /\ proposals'[q].voteEnd = proposals[q].voteEnd
             /\ proposals'[q].bridgeId \in {0, proposals[q].bridgeId}
<1>3. Kept
  <2> USE DEF TypeInv, GovernorTypeOK, ProposalCore, Ids
  <2>1. ASSUME NEW result, ReturnResults(id, result) PROVE Kept
    <3>1. proposals' = [proposals EXCEPT ![p].voteMerkleRoot = result.voteMerkleRoot,
                                         ![p].forVotes = result.forVotes,
                                         ![p].againstVotes = result.againstVotes]
      BY <1>2, <2>1 DEF ReturnResults, LilypadFulfilled
    <3>2. \A q \in Ids \ {p} : proposals'[q] = proposals[q]
      BY <3>1
    <3>3. proposals'[p] = [proposals[p] EXCEPT !.voteMerkleRoot = result.voteMerkleRoot,
                                              !.forVotes = result.forVotes,
                                              !.againstVotes = result.againstVotes]
      BY <3>1
    <3>4. proposals[p] \in ProposalCore
      BY <1>2
    <3>5. /\ proposals'[p].canceled = proposals[p].canceled
          /\ proposals'[p].executed = proposals[p].executed
          /\ proposals'[p].voteStart = proposals[p].voteStart
          /\ proposals'[p].voteEnd = proposals[p].voteEnd
          /\ proposals'[p].bridgeId = proposals[p].bridgeId
      BY <3>3, <3>4
    <3> QED BY <3>2, <3>5 DEF Kept
  <2>2. CASE Cancellation(id)
    <3>1. proposals' = [proposals EXCEPT ![p].bridgeId = 0]
      BY <1>2, <2>2, CancellationFacts DEF LilypadCancelled
    <3> QED BY <1>2, <3>1
  <2> QED BY <2>1, <2>2
<1>4. 0 \in JobIds
  BY BridgeAssumption DEF JobIds
<1> QED BY <1>1, <1>3, <1>4, LifeKept DEF LifeInv, Known, Ids

LEMMA ExecuteLife ==
    ASSUME TypeInv, LifeInv, NEW p \in ProposalIds, Execute(p)
    PROVE  LifeInv'
<1>1. now \in Nat /\ now' = now /\ proposals[p].voteEnd \in Nat
  BY DEF TypeInv, GovernorTypeOK, ProposalCore, Execute
<1>2. Known(p) /\ proposals[p].voteEnd < now
  BY <1>1 DEF Execute, State, VotingOpen
<1>3. /\ \A q \in ProposalIds :
           /\ proposals'[q].canceled = proposals[q].canceled
           /\ proposals'[q].voteStart = proposals[q].voteStart
           /\ proposals'[q].voteEnd = proposals[q].voteEnd
           /\ proposals'[q].bridgeId = proposals[q].bridgeId
      /\ \A q \in ProposalIds \ {p} : proposals'[q].executed = proposals[q].executed
  BY DEF Execute, TypeInv, GovernorTypeOK, ProposalCore
<1> QED BY <1>1, <1>2, <1>3 DEF LifeInv, Known

\* Every other step leaves the records and the mapping of jobs alone.
RecordsStep ==
    \/ \E p \in ProposalIds, proposer \in Users : Propose(p, proposer)
    \/ \E p \in ProposalIds : RequestVoteResolution(p)
    \/ \E p \in ProposalIds : Execute(p)
    \/ \E id \in JobIds, result \in Responses \cup {Undecodable} : ReturnResults(id, result)
    \/ \E id \in JobIds : Cancellation(id)

RecordsFrame == UNCHANGED <<proposals, jobIdToProposal>> /\ now' \in Nat /\ now' >= now

LEMMA Steps ==
    ASSUME TypeInv, [Next]_vars
    PROVE  RecordsStep \/ RecordsFrame
<1>1. now \in Nat
  BY DEF TypeInv, GovernorTypeOK
<1>2. CASE DeployerNext \/ Tick \/ UNCHANGED vars
  BY <1>1, <1>2 DEF DeployerNext, SetVotingPeriod, SetQuorumPercentage, SetEmissionPerVote,
                    SetDockerImage, Tick, vars, governorVars, RecordsFrame
<1>3. ASSUME NEW p, NEW user, NEW amount,
             ClaimReward(user, amount, p) \/ \E to : TransferTokens(user, to, amount)
      PROVE  RecordsFrame
  BY <1>1, <1>3 DEF ClaimReward, TransferTokens, governorVars, RecordsFrame
<1>4. ASSUME NEW from, NEW spec, OtherRequest(from, spec) \/ InitializeBridge
      PROVE  RecordsFrame
  BY <1>1, <1>4 DEF OtherRequest, InitializeBridge, governorVars, RecordsFrame
<1>5. CASE UserNext
  BY <1>3, <1>5, Zenon DEF UserNext, RecordsStep
<1>6. CASE BridgeNext
  BY <1>4, <1>6, Zenon DEF BridgeNext, RecordsStep, Cancellation
<1> QED BY <1>2, <1>5, <1>6 DEF Next

LEMMA LifeStep ==
    ASSUME IInv, LifeInv, [Next]_vars
    PROVE  LifeInv'
<1>1. TypeInv /\ CounterBounds
  BY DEF IInv, CoreInv
<1>2. CASE RecordsStep
  BY <1>1, <1>2, ProposeLife, RequestLife, ExecuteLife, ReportLife DEF RecordsStep
<1>3. CASE RecordsFrame
  BY <1>1, <1>3, LifeKept DEF RecordsFrame, LifeInv, Known
<1> QED BY <1>1, <1>2, <1>3, Steps

-----------------------------------------------------------------------------
(* The refinement. *)

\* The record of the subject, the jobs it has and the phase it is in.
LEMMA SubjectRecord ==
    ASSUME IInv, LifeInv
    PROVE  /\ proposals[Subject] \in ProposalCore /\ now \in Nat
           /\ ~proposals[Subject].canceled
           /\ proposals[Subject].voteStart <= proposals[Subject].voteEnd
           /\ proposals[Subject].executed => ClosedAt(proposals[Subject], now)
           /\ JobsFor(Subject) # {} => ClosedAt(proposals[Subject], now)
           /\ proposals[Subject].bridgeId # 0 => JobsFor(Subject) # {}
           /\ proposals[Subject].voteMerkleRoot # {} => JobsFor(Subject) # {}
<1> USE SubjectAssumption DEF IInv, CoreInv
<1>1. proposals[Subject] \in ProposalCore /\ now \in Nat
  BY DEF TypeInv, GovernorTypeOK
<1>2. /\ ~proposals[Subject].canceled
      /\ proposals[Subject].voteStart <= proposals[Subject].voteEnd
      /\ proposals[Subject].executed => ClosedAt(proposals[Subject], now)
      /\ proposals[Subject].bridgeId \in JobIds
  BY DEF LifeInv, Known, ClosedAt
<1>3. JobsFor(Subject) # {} => ClosedAt(proposals[Subject], now)
  BY ProposalsAssumption DEF JobsFor, MappedJobsClosed, Known, ClosedAt
<1>4. proposals[Subject].bridgeId # 0 => JobsFor(Subject) # {}
  BY <1>2 DEF JobsFor, JobsMatchBridge
<1>5. ASSUME proposals[Subject].voteMerkleRoot # {} PROVE JobsFor(Subject) # {}
  <2>1. PICK r \in Reported(Subject) : TRUE
    BY <1>5 DEF TallyFromOwnJob
  <2>2. r \in lilypadJobResults /\ jobIdToProposal[r.id] = Subject
    BY <2>1, ProposalsAssumption DEF Reported
  <2>3. r.id \in JobIds
    BY <2>2 DEF TypeInv, Bridge!BridgeTypeOK, Bridge!LilypadJobResult
  <2> QED BY <2>2, <2>3 DEF JobsFor
<1> QED BY <1>1, <1>2, <1>3, <1>4, <1>5

\* Steps that change neither the subject's record nor its jobs.
LEMMA FrameRefines ==
    ASSUME IInv, LifeInv, now' \in Nat, now' >= now,
           UNCHANGED proposals[Subject], UNCHANGED JobsFor(Subject)
    PROVE  [Lifecycle!Next]_(Lifecycle!lifecycleVars)
<1> DEFINE r == proposals[Subject]
           status == StateOf(r, now, Accepted)
           next == StateOf(r, now', Accepted')
<1>1. r \in ProposalCore /\ r.voteStart \in Nat /\ r.voteEnd \in Nat /\ now \in Nat
  BY SubjectRecord DEF ProposalCore
<1>2. State(Subject) = status /\ State(Subject)' = next
  BY StateIsStateOf
<1>3. /\ UNCHANGED <<r.bridgeId, JobsFor(Subject)>>
      /\ (r.voteMerkleRoot # {})' = (r.voteMerkleRoot # {})
  OBVIOUS
<1>4. ~r.canceled /\ r.voteStart <= r.voteEnd
      /\ (r.executed => ClosedAt(r, now))
      /\ (r.bridgeId # 0 => ClosedAt(r, now))
  BY SubjectRecord
<1> HIDE DEF r, status, next
<1>5. CASE ClosedAt(r, now)
  <2>1. ClosedAt(r, now')
    BY <1>1, <1>5 DEF ClosedAt
  <2>2. status = next \/ {status, next} \subseteq Lifecycle!Verdicts
    BY <1>1, <1>4, <1>5, <2>1, StateOfClosed DEF Lifecycle!Verdicts, status, next
  <2> QED BY <1>2, <1>3, <2>2
          DEF Lifecycle!Next, Lifecycle!ChangeQuorum, Lifecycle!lifecycleVars, r
<1>6. CASE ~ClosedAt(r, now) /\ ClosedAt(r, now')
  <2>1. status \in {"Pending", "Active"}
    BY <1>1, <1>4, <1>6, StateOfOpen DEF ClosedAt, status
  <2>2. next = "ResolutionToRequest"
    BY <1>1, <1>4, <1>6, StateOfClosed DEF next
  <2> QED BY <1>2, <1>3, <2>1, <2>2
          DEF Lifecycle!Next, Lifecycle!CloseVoting, r
<1>7. CASE ~ClosedAt(r, now) /\ ~ClosedAt(r, now')
  <2>1. status = next \/ (status = "Pending" /\ next = "Active")
    BY <1>1, <1>4, <1>7, StateOfOpen DEF status, next
  <2> QED BY <1>2, <1>3, <2>1
          DEF Lifecycle!Next, Lifecycle!OpenVoting, Lifecycle!lifecycleVars, r
<1> QED BY <1>5, <1>6, <1>7

LEMMA ProposeRefines ==
    ASSUME IInv, LifeInv, NEW p \in ProposalIds, NEW proposer \in Users,
           Propose(p, proposer)
    PROVE  [Lifecycle!Next]_(Lifecycle!lifecycleVars)
<1> DEFINE r == proposals[Subject]
<1>1. now \in Nat \ {0} /\ now' = now /\ votingPeriod \in Nat
  BY DEF IInv, TypeInv, GovernorTypeOK, Propose
<1>2. UNCHANGED JobsFor(Subject)
  BY DEF Propose, JobsFor
<1>3. CASE p # Subject
  <2>1. UNCHANGED proposals[Subject]
    BY <1>3, SubjectAssumption DEF Propose, IInv, TypeInv, GovernorTypeOK
  <2> QED BY <1>1, <1>2, <2>1, FrameRefines
<1>4. CASE p = Subject
  <2>1. r.voteStart = 0 /\ r \in ProposalCore
    BY <1>4, SubjectRecord DEF Propose, Known
  <2>2. ~r.canceled /\ ~ClosedAt(r, now) /\ ~r.executed
        /\ r.bridgeId = 0 /\ r.voteMerkleRoot = {} /\ JobsFor(Subject) = {}
    BY <2>1, SubjectRecord DEF ClosedAt
  <2>3. State(Subject) = "Unknown"
    BY <1>1, <2>1, <2>2, StateIsStateOf DEF StateOf
  <2>4. /\ r'.voteStart = now /\ r'.voteEnd = now + votingPeriod
        /\ ~r'.executed /\ ~r'.canceled /\ r'.bridgeId = 0 /\ r'.voteMerkleRoot = {}
    BY <1>4, SubjectAssumption
       DEF Propose, NoProposal, IInv, TypeInv, GovernorTypeOK
  <2>5. State(Subject)' = "Pending"
    <3> HIDE DEF r
    <3>1. StateOf(r', now', Accepted') = "Pending"
      BY <1>1, <2>4 DEF StateOf
    <3> QED BY <3>1, StateIsStateOf DEF r
  <2> QED BY <1>2, <2>2, <2>3, <2>4, <2>5 DEF Lifecycle!Next, Lifecycle!Propose
<1> QED BY <1>3, <1>4

\* The id the bridge hands out was never mapped before.
LEMMA RequestRefines ==
    ASSUME IInv, LifeInv, NEW p \in ProposalIds, RequestVoteResolution(p)
    PROVE  [Lifecycle!Next]_(Lifecycle!lifecycleVars)
<1> DEFINE r == proposals[Subject]
<1>1. now \in Nat /\ now' = now
  BY DEF IInv, TypeInv, GovernorTypeOK, RequestVoteResolution
<1>2. jobIds \in JobIds /\ jobIds > 0
  BY BridgeAssumption
     DEF RequestVoteResolution, Bridge!RunLilypadJob, IInv, CoreInv, TypeInv,
         Bridge!BridgeTypeOK, CounterBounds, JobIds
<1>3. jobIdToProposal[jobIds] = ZeroId
  BY <1>2 DEF IInv, CoreInv, MappedJobsClosed, TypeInv, Bridge!BridgeTypeOK
<1>4. /\ jobIdToProposal'[jobIds] = p
      /\ \A id \in JobIds \ {jobIds} : jobIdToProposal'[id] = jobIdToProposal[id]
  BY <1>2 DEF RequestVoteResolution, IInv, TypeInv, GovernorTypeOK
<1>5. CASE p # Subject
  <2>1. UNCHANGED proposals[Subject]
    BY <1>5, SubjectAssumption DEF RequestVoteResolution, IInv, TypeInv, GovernorTypeOK
  <2>2. UNCHANGED JobsFor(Subject)
    BY <1>2, <1>3, <1>4, <1>5, SubjectAssumption, ProposalsAssumption DEF JobsFor
  <2> QED BY <1>1, <2>1, <2>2, FrameRefines
<1>6. CASE p = Subject
  <2>1. JobsFor(Subject)' = JobsFor(Subject) \cup {jobIds} /\ jobIds \notin JobsFor(Subject)
    BY <1>2, <1>3, <1>4, <1>6, ProposalsAssumption DEF JobsFor
  <2>2. r \in ProposalCore /\ ~r.canceled /\ r.voteStart <= r.voteEnd
    BY SubjectRecord
  <2>3. State(Subject) = "ResolutionToRequest"
    BY <1>6 DEF RequestVoteResolution
  <2>4. ClosedAt(r, now) /\ ~r.executed
    BY <1>1, <2>2, <2>3, StateIsStateOf DEF StateOf, ClosedAt, ProposalCore
  <2>5. r' = [r EXCEPT !.bridgeId = jobIds]
    BY <1>6, SubjectAssumption DEF RequestVoteResolution, IInv, TypeInv, GovernorTypeOK
  <2>6. /\ r' \in ProposalCore /\ ~r'.canceled /\ r'.voteStart <= r'.voteEnd
        /\ ClosedAt(r', now') /\ ~r'.executed
        /\ r'.bridgeId = jobIds /\ r'.voteMerkleRoot = r.voteMerkleRoot
    BY <1>1, <1>2, <2>2, <2>4, <2>5, BridgeAssumption DEF ProposalCore, ClosedAt, JobIds
  <2>7. State(Subject)' \in IF r.voteMerkleRoot # {} THEN Lifecycle!Verdicts
                                                     ELSE {"ResolutionRequested"}
    BY <1>1, <1>2, <2>6, StateIsStateOf, StateOfClosed DEF Lifecycle!Verdicts
  <2> QED BY <1>2, <2>1, <2>3, <2>6, <2>7 DEF Lifecycle!Next, Lifecycle!RequestJob
<1> QED BY <1>5, <1>6

LEMMA ExecuteRefines ==
    ASSUME IInv, LifeInv, NEW p \in ProposalIds, Execute(p)
    PROVE  [Lifecycle!Next]_(Lifecycle!lifecycleVars)
<1> DEFINE r == proposals[Subject]
<1>1. now \in Nat /\ now' = now /\ UNCHANGED JobsFor(Subject)
  BY DEF IInv, TypeInv, GovernorTypeOK, Execute, JobsFor
<1>2. CASE p # Subject
  <2>1. UNCHANGED proposals[Subject]
    BY <1>2, SubjectAssumption DEF Execute, IInv, TypeInv, GovernorTypeOK
  <2> QED BY <1>1, <2>1, FrameRefines
<1>3. CASE p = Subject
  <2>1. r' = [r EXCEPT !.executed = TRUE] /\ r \in ProposalCore
    BY <1>3, SubjectAssumption DEF Execute, IInv, TypeInv, GovernorTypeOK
  <2>2. r'.executed /\ r'.bridgeId = r.bridgeId /\ r'.voteMerkleRoot = r.voteMerkleRoot
    BY <2>1 DEF ProposalCore
  <2>3. State(Subject) = "Succeeded"
    BY <1>3 DEF Execute
  <2>4. State(Subject)' = "Executed"
    BY <2>2, StateIsStateOf DEF StateOf
  <2> QED BY <1>1, <2>2, <2>3, <2>4 DEF Lifecycle!Next, Lifecycle!Execute
<1> QED BY <1>2, <1>3

\* A report for a job of another proposal, or for an unknown job, is a stutter.
LEMMA ResultRefines ==
    ASSUME IInv, LifeInv, NEW id \in JobIds,
           NEW result \in Responses \cup {Undecodable}, ReturnResults(id, result)
    PROVE  [Lifecycle!Next]_(Lifecycle!lifecycleVars)
<1> DEFINE r == proposals[Subject]
<1>1. now \in Nat /\ now' = now /\ UNCHANGED JobsFor(Subject)
  BY DEF IInv, TypeInv, GovernorTypeOK, ReturnResults, JobsFor
<1>2. result \in ResolutionResponse /\ result.voteMerkleRoot # {}
  BY ResponsesAssumption DEF ReturnResults, LilypadFulfilled
<1>3. CASE jobIdToProposal[id] # Subject
  <2>1. UNCHANGED proposals[Subject]
    BY <1>3, SubjectAssumption
       DEF ReturnResults, LilypadFulfilled, IInv, TypeInv, GovernorTypeOK
  <2> QED BY <1>1, <2>1, FrameRefines
<1>4. CASE jobIdToProposal[id] = Subject
  <2>1. JobsFor(Subject) # {}
    BY <1>4 DEF JobsFor
  <2>2. /\ r \in ProposalCore /\ ~r.canceled /\ r.voteStart <= r.voteEnd
        /\ ClosedAt(r, now)
    BY <2>1, SubjectRecord
  <2>3. r' = [r EXCEPT !.voteMerkleRoot = result.voteMerkleRoot,
                       !.forVotes = result.forVotes,
                       !.againstVotes = result.againstVotes]
    BY <1>4, SubjectAssumption
       DEF ReturnResults, LilypadFulfilled, IInv, TypeInv, GovernorTypeOK
  <2>4. r' \in ProposalCore
    BY <1>2, <2>2, <2>3 DEF ProposalCore, ResolutionResponse
  <2>5. /\ ~r'.canceled /\ r'.voteStart <= r'.voteEnd /\ ClosedAt(r', now')
        /\ r'.executed = r.executed /\ r'.bridgeId = r.bridgeId /\ r'.voteMerkleRoot # {}
    BY <1>1, <1>2, <2>2, <2>3 DEF ProposalCore, ClosedAt
  <2>6. IF State(Subject) = "ResolutionRequested" \/ State(Subject) \in Lifecycle!Verdicts
        THEN State(Subject)' \in Lifecycle!Verdicts
        ELSE UNCHANGED State(Subject)
    BY <1>1, <2>2, <2>4, <2>5, StateIsStateOf, StateOfClosed DEF Lifecycle!Verdicts
  <2> QED BY <1>1, <2>1, <2>5, <2>6 DEF Lifecycle!Next, Lifecycle!ReportResult
<1> QED BY <1>3, <1>4

LEMMA CancellationRefines ==
    ASSUME IInv, LifeInv, NEW id \in JobIds, Cancellation(id)
    PROVE  [Lifecycle!Next]_(Lifecycle!lifecycleVars)
<1> DEFINE r == proposals[Subject]
<1>1. now \in Nat /\ now' = now /\ UNCHANGED JobsFor(Subject)
  BY CancellationFacts DEF IInv, TypeInv, GovernorTypeOK, JobsFor
<1>2. PICK p \in Ids : p = jobIdToProposal[id] /\ proposals' = [proposals EXCEPT ![p].bridgeId = 0]
  BY CancellationFacts DEF LilypadCancelled, IInv, TypeInv, GovernorTypeOK, Ids
<1>3. CASE jobIdToProposal[id] # Subject
  <2>1. UNCHANGED proposals[Subject]
    BY <1>2, <1>3, SubjectAssumption DEF IInv, TypeInv, GovernorTypeOK
  <2> QED BY <1>1, <2>1, FrameRefines
<1>4. CASE jobIdToProposal[id] = Subject
  <2>1. JobsFor(Subject) # {}
    BY <1>4 DEF JobsFor
  <2>2. /\ r \in ProposalCore /\ ~r.canceled /\ r.voteStart <= r.voteEnd
        /\ ClosedAt(r, now)
    BY <2>1, SubjectRecord
  <2>3. r' = [r EXCEPT !.bridgeId = 0]
    BY <1>2, <1>4, SubjectAssumption DEF IInv, TypeInv, GovernorTypeOK
  <2>4. /\ r' \in ProposalCore /\ ~r'.canceled /\ r'.voteStart <= r'.voteEnd
        /\ ClosedAt(r', now') /\ r'.executed = r.executed
        /\ r'.bridgeId = 0 /\ r'.voteMerkleRoot = r.voteMerkleRoot
    BY <1>1, <2>2, <2>3 DEF ProposalCore, ClosedAt
  <2>5. State(Subject)' = IF State(Subject) = "Executed" THEN "Executed"
                          ELSE "ResolutionToRequest"
    <3>1. r.executed <=> State(Subject) = "Executed"
      BY <1>1, <2>2, StateIsStateOf, StateOfClosed
    <3> QED BY <1>1, <2>2, <2>4, <3>1, StateIsStateOf, StateOfClosed
  <2> QED BY <1>1, <2>1, <2>4, <2>5 DEF Lifecycle!Next, Lifecycle!CancelJob
<1> QED BY <1>3, <1>4

LEMMA RefinesInit == Init => Lifecycle!Init
<1> SUFFICES ASSUME Init PROVE Lifecycle!Init
  OBVIOUS
<1>1. proposals[Subject] = NoProposal
  BY SubjectAssumption DEF Init
<1>2. State(Subject) = "Unknown"
  BY <1>1, StateIsStateOf DEF StateOf, NoProposal
<1>3. JobsFor(Subject) = {}
  BY SubjectAssumption, ProposalsAssumption DEF Init, JobsFor
<1> QED BY <1>1, <1>2, <1>3 DEF Lifecycle!Init, NoProposal

LEMMA RefinesStep ==
    ASSUME IInv, LifeInv, [Next]_vars
    PROVE  [Lifecycle!Next]_(Lifecycle!lifecycleVars)
<1>1. CASE RecordsStep
  BY <1>1, ProposeRefines, RequestRefines, ExecuteRefines, ResultRefines, CancellationRefines
     DEF RecordsStep
<1>2. CASE RecordsFrame
  BY <1>2, FrameRefines DEF RecordsFrame, JobsFor
<1> QED BY <1>1, <1>2, Steps DEF IInv

\* The Governor implements ProposalLifecycle: whatever happens to the other
\* proposals, the bridge, the token and the settings, each proposal is voted on
\* once, tallied only after its deadline and only from jobs requested for it, and
\* executed once, from a verdict that had succeeded.
THEOREM GovernorFollowsLifecycle == Spec => FollowsLifecycle
<1>1. Init => IInv /\ LifeInv
  BY InitIInv, LifeInit
<1>2. IInv /\ LifeInv /\ [Next]_vars => (IInv /\ LifeInv)'
  BY TypeStep, CoreStep, LifeStep DEF IInv
<1>3. Spec => [](IInv /\ LifeInv)
  BY <1>1, <1>2, PTL DEF Spec
<1> QED BY <1>3, RefinesInit, RefinesStep, PTL DEF Spec, FollowsLifecycle, Lifecycle!Spec
=============================================================================
