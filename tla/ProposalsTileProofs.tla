------------------------- MODULE ProposalsTileProofs -------------------------
(***************************************************************************)
(* The proposals document for any proposals, jobs and pages: no proposal   *)
(* twice, no job id of another proposal, nothing executed that is not, and *)
(* the refreshes of all pages together implement ProposalsDocument.        *)
(***************************************************************************)
EXTENDS ProposalsTile, FunctionTheorems, PureProofs

VotingOver(p) ==
    chain[p].status \in
        {"ResolutionToRequest", "ResolutionRequested", "Succeeded", "Defeated", "Executed"}

\* A job is requested after the voting, and there is one before a verdict.
ChainInv ==
    \A p \in ProposalIds :
        /\ chain[p].bridgeId \in {0} \cup chain[p].jobs
        /\ chain[p].jobs # {} => VotingOver(p)
        /\ chain[p].status \in {"Succeeded", "Defeated", "Executed"} => chain[p].jobs # {}

\* One event for each proposal.
EventsInv ==
    /\ \A i, k \in DOMAIN created : created[i] = created[k] => i = k
    /\ {created[i] : i \in DOMAIN created} = KnownProposals

\* What an entry says was true once, and nothing of it ever ceases to be true.
TrueEntry(entry, c) ==
    /\ c[entry.id].status # "Unknown"
    /\ entry.jobId \in {0} \cup c[entry.id].jobs
    /\ entry.status = "Executed" => c[entry.id].status = "Executed"

GoodList(list, c) ==
    /\ \A i \in DOMAIN list : TrueEntry(list[i], c)
    /\ \A i, k \in DOMAIN list : list[i].id = list[k].id => i = k

\* Not only the document: every list that a page holds and may still write.
GoodRefresh(run, c) ==
    /\ GoodList(run.old, c)
    /\ GoodList(run.merged, c)
    /\ Len(run.left) = Len(run.merged)

DocumentInv ==
    /\ ProposalsTypeOK
    /\ ChainInv
    /\ EventsInv
    /\ GoodList(proposalsTile, chain)
    /\ \A page \in Pages : GoodRefresh(refresh[page], chain)

-----------------------------------------------------------------------------
(* The chain. *)

\* What one change of a proposal is to the readers of the document.
Proposes(p) ==
    /\ chain[p].status = "Unknown"
    /\ chain'[p].status \notin {"Unknown", "Executed"}
    /\ chain'[p].jobs = chain[p].jobs

RequestsJob(p) ==
    /\ chain[p].status \notin {"Unknown", "Executed"}
    /\ chain'[p].status \notin {"Unknown", "Executed"}
    /\ \E id \in NewJobs : chain'[p].jobs = chain[p].jobs \cup {id}

Executes(p) ==
    /\ chain[p].status \notin {"Unknown", "Executed"}
    /\ chain'[p].status = "Executed"
    /\ chain'[p].jobs = chain[p].jobs

ShowsNothing(p) ==
    /\ chain[p].status # "Unknown" /\ chain'[p].status # "Unknown"
    /\ chain'[p].status = "Executed" <=> chain[p].status = "Executed"
    /\ chain'[p].jobs = chain[p].jobs

\* Each step of the life cycle is one of these, and keeps what is known of the chain.
LEMMA ChainChanged ==
    ASSUME chain \in [ProposalIds -> ChainRecord], ChainInv,
           NEW p \in ProposalIds, NEW tallied \in BOOLEAN, ChainChanges(p, tallied)
    PROVE  /\ chain' \in [ProposalIds -> ChainRecord]
           /\ ChainInv'
           /\ \A q \in ProposalIds \ {p} : chain'[q] = chain[q]
           /\ Proposes(p) \/ RequestsJob(p) \/ Executes(p) \/ ShowsNothing(p)
<1> PICK state \in Statuses, id \in {0, chain[p].bridgeId} \cup NewJobs :
      /\ chain' = [chain EXCEPT ![p] =
           [status |-> state, bridgeId |-> id,
            jobs |-> @.jobs \cup ({id} \ {0}), tallied |-> tallied]]
      /\ Lifecycle(p)!Next
  BY DEF ChainChanges
<1>1. /\ chain[p] \in ChainRecord
      /\ NewJobs \subseteq Jobs
      /\ id \in {0} \cup Jobs
  BY DEF ChainRecord, NewJobs
<1>2. chain'[p] = [status |-> state, bridgeId |-> id,
                   jobs |-> chain[p].jobs \cup ({id} \ {0}), tallied |-> tallied]
  OBVIOUS
<1>3. chain'[p] \in ChainRecord
  BY <1>1, <1>2 DEF ChainRecord
<1>4. chain' \in [ProposalIds -> ChainRecord] /\ \A q \in ProposalIds \ {p} : chain'[q] = chain[q]
  BY <1>2, <1>3
<1> DEFINE Fine ==
      /\ chain'[p].bridgeId \in {0} \cup chain'[p].jobs
      /\ chain'[p].jobs # {} => VotingOver(p)'
      /\ chain'[p].status \in {"Succeeded", "Defeated", "Executed"} => chain'[p].jobs # {}
<1>5. Fine /\ (Proposes(p) \/ RequestsJob(p) \/ Executes(p) \/ ShowsNothing(p))
  <2> USE <1>2 DEF ChainInv, VotingOver
  <2>1. chain'[p].bridgeId \in {0} \cup chain'[p].jobs
    OBVIOUS
  <2>2. CASE Lifecycle(p)!Propose
    BY <2>2 DEF Lifecycle!Propose, Proposes
  <2>3. CASE Lifecycle(p)!OpenVoting
    BY <2>3 DEF Lifecycle!OpenVoting, ShowsNothing
  <2>4. CASE Lifecycle(p)!CloseVoting
    BY <2>4 DEF Lifecycle!CloseVoting, ShowsNothing
  <2>5. ASSUME NEW job \in chain'[p].jobs, Lifecycle(p)!RequestJob(job)
        PROVE  Fine /\ RequestsJob(p)
    <3>1. /\ job = id /\ id \in NewJobs
          /\ chain'[p].jobs = chain[p].jobs \cup {id}
      BY <2>5 DEF Lifecycle!RequestJob
    <3>2. /\ chain[p].status = "ResolutionToRequest"
          /\ chain'[p].status \in {"ResolutionRequested", "Succeeded", "Defeated"}
      BY <2>5 DEF Lifecycle!RequestJob, Lifecycle!Verdicts
    <3> QED BY <2>1, <3>1, <3>2 DEF RequestsJob
  <2>6. CASE Lifecycle(p)!ReportResult
    BY <2>1, <2>6 DEF Lifecycle!ReportResult, Lifecycle!Verdicts, ShowsNothing
  <2>7. CASE Lifecycle(p)!CancelJob
    BY <2>1, <2>7 DEF Lifecycle!CancelJob, ShowsNothing
  <2>8. CASE Lifecycle(p)!ChangeQuorum
    BY <2>1, <2>8 DEF Lifecycle!ChangeQuorum, Lifecycle!Verdicts, ShowsNothing
  <2>9. CASE Lifecycle(p)!Execute
    BY <2>1, <2>9 DEF Lifecycle!Execute, Executes
  <2> HIDE DEF Fine
  <2> QED
    BY <2>2, <2>3, <2>4, <2>5, <2>6, <2>7, <2>8, <2>9 DEF Lifecycle!Next
<1>6. ChainInv'
  BY <1>4, <1>5 DEF ChainInv, VotingOver
<1> QED BY <1>4, <1>5, <1>6

\* What of the chain never ceases.
Later(c, d) ==
    \A p \in ProposalIds :
        /\ c[p].status # "Unknown" => d[p].status # "Unknown"
        /\ c[p].jobs \subseteq d[p].jobs
        /\ c[p].status = "Executed" => d[p].status = "Executed"

LEMMA GoodListStays ==
    ASSUME NEW c, NEW d, Later(c, d), NEW list \in Seq(Entry), GoodList(list, c)
    PROVE  GoodList(list, d)
<1>1. \A i \in DOMAIN list : list[i].id \in ProposalIds
  <2>1. \A i \in DOMAIN list : list[i] \in Entry
    OBVIOUS
  <2> QED BY <2>1 DEF Entry
<1> QED BY <1>1 DEF GoodList, TrueEntry, Later

LEMMA ChainStepInv ==
    ASSUME DocumentInv, NEW p \in ProposalIds, ChainStep(p)
    PROVE  /\ DocumentInv'
           /\ \A q \in ProposalIds \ {p} : chain'[q] = chain[q]
           /\ Proposes(p) \/ RequestsJob(p) \/ Executes(p) \/ ShowsNothing(p)
<1>1. PICK tallied \in BOOLEAN : ChainChanges(p, tallied)
  BY DEF ChainStep, DocumentInv, ProposalsTypeOK, ChainRecord
<1>2. /\ chain' \in [ProposalIds -> ChainRecord]
      /\ ChainInv'
      /\ \A q \in ProposalIds \ {p} : chain'[q] = chain[q]
      /\ Proposes(p) \/ RequestsJob(p) \/ Executes(p) \/ ShowsNothing(p)
  BY <1>1, ChainChanged DEF DocumentInv, ProposalsTypeOK
<1>3. Later(chain, chain')
  BY <1>2 DEF Later, Proposes, RequestsJob, Executes, ShowsNothing
<1>4. /\ created' = IF chain[p].status = "Unknown" THEN Append(created, p) ELSE created
      /\ UNCHANGED <<horizon, proposalsTile, refresh>>
  BY DEF ChainStep
<1>5. created' \in Seq(ProposalIds) /\ horizon' \in 0 .. Len(created')
  BY <1>4 DEF DocumentInv, ProposalsTypeOK
<1>6. EventsInv'
  <2>1. CASE chain[p].status = "Unknown"
    <3>1. KnownProposals' = KnownProposals \cup {p} /\ p \notin KnownProposals
      BY <1>2, <2>1 DEF KnownProposals, Proposes, RequestsJob, Executes, ShowsNothing
    <3>2. created \in Seq(ProposalIds) /\ EventsInv /\ created' = Append(created, p)
      BY <1>4, <2>1 DEF DocumentInv, ProposalsTypeOK
    <3> HIDE DEF KnownProposals
    <3>3. DOMAIN created' = DOMAIN created \cup {Len(created) + 1} /\ Len(created) \in Nat
      BY <3>2
    <3>4. /\ \A i \in DOMAIN created : created'[i] = created[i]
          /\ created'[Len(created) + 1] = p /\ Len(created) + 1 \notin DOMAIN created
      BY <3>2
    <3>5. \A i \in DOMAIN created : created[i] # p
      BY <3>1, <3>2 DEF EventsInv
    <3>6. {created'[i] : i \in DOMAIN created'} = {created[i] : i \in DOMAIN created} \cup {p}
      BY <3>3, <3>4
    <3>7. \A i, k \in DOMAIN created' : created'[i] = created'[k] => i = k
      BY <3>2, <3>3, <3>4, <3>5 DEF EventsInv
    <3> QED BY <3>1, <3>2, <3>6, <3>7 DEF EventsInv
  <2>2. CASE chain[p].status # "Unknown"
    <3>1. KnownProposals' = KnownProposals
      BY <1>2, <2>2 DEF KnownProposals, Proposes, RequestsJob, Executes, ShowsNothing
    <3>2. created' = created
      BY <1>4, <2>2
    <3> QED BY <3>1, <3>2 DEF EventsInv, DocumentInv
  <2> QED BY <2>1, <2>2
<1>7. GoodList(proposalsTile', chain')
  BY <1>3, <1>4, GoodListStays DEF DocumentInv, ProposalsTypeOK
<1>8. \A page \in Pages : GoodRefresh(refresh'[page], chain')
  <2> SUFFICES ASSUME NEW page \in Pages
               PROVE  GoodRefresh(refresh[page], chain')
    BY <1>4
  <2>1. refresh[page].old \in Seq(Entry) /\ refresh[page].merged \in Seq(Entry)
    BY DEF DocumentInv, ProposalsTypeOK, Refresh
  <2> QED BY <1>3, <2>1, GoodListStays DEF DocumentInv, GoodRefresh
<1>9. ProposalsTypeOK'
  BY <1>2, <1>4, <1>5 DEF DocumentInv, ProposalsTypeOK
<1> QED BY <1>2, <1>6, <1>7, <1>8, <1>9 DEF DocumentInv

-----------------------------------------------------------------------------
(* The refreshes. *)

\* A page goes on and writes at most a good list.
LEMMA RefreshGoesOn ==
    ASSUME DocumentInv, NEW page \in Pages, NEW run \in Refresh, GoodRefresh(run, chain),
           refresh' = [refresh EXCEPT ![page] = run], UNCHANGED chainVars,
           proposalsTile' \in Seq(Entry), GoodList(proposalsTile', chain)
    PROVE  DocumentInv'
<1>1. UNCHANGED <<chain, created, horizon>>
  BY DEF chainVars
<1>2. refresh' \in [Pages -> Refresh]
  BY DEF DocumentInv, ProposalsTypeOK
<1>3. \A other \in Pages : GoodRefresh(refresh'[other], chain)
  BY DEF DocumentInv, ProposalsTypeOK
<1>4. ProposalsTypeOK'
  BY <1>1, <1>2 DEF DocumentInv, ProposalsTypeOK
<1>5. ChainInv' /\ EventsInv'
  BY <1>1 DEF DocumentInv, ChainInv, VotingOver, EventsInv, KnownProposals
<1> QED BY <1>1, <1>3, <1>4, <1>5 DEF DocumentInv

LEMMA NoRefreshGood ==
    NoRefresh \in Refresh /\ GoodRefresh(NoRefresh, chain)
<1>1. /\ NoRefresh.old = << >> /\ NoRefresh.merged = << >> /\ NoRefresh.left = << >>
      /\ NoRefresh \in Refresh
  BY DEF NoRefresh, Refresh
<1> QED BY <1>1 DEF GoodRefresh, GoodList

LEMMA GetProposalsInv ==
    ASSUME DocumentInv, NEW page \in Pages, GetProposals(page)
    PROVE  DocumentInv'
<1> DEFINE run == [NoRefresh EXCEPT !.step = "query", !.old = proposalsTile]
<1>1. proposalsTile \in Seq(Entry) /\ GoodList(proposalsTile, chain)
  BY DEF DocumentInv, ProposalsTypeOK
<1>2. run \in Refresh /\ run.old = proposalsTile /\ run.merged = << >> /\ run.left = << >>
  <2>1. /\ NoRefresh \in [step : {"idle", "query", "read"}, old : Seq(Entry), recent : Nat,
                           merged : Seq(Entry), left : Seq({"status", "jobId", "nothing"})]
        /\ NoRefresh.merged = << >> /\ NoRefresh.left = << >>
    BY NoRefreshGood DEF Refresh, NoRefresh
  <2> QED BY <1>1, <2>1 DEF Refresh
<1>3. GoodRefresh(run, chain)
  BY <1>1, <1>2 DEF GoodRefresh, GoodList
<1>4. /\ refresh' = [refresh EXCEPT ![page] = run] /\ UNCHANGED chainVars
      /\ proposalsTile' = proposalsTile
  BY DEF GetProposals
<1> HIDE DEF run
<1> QED BY <1>1, <1>2, <1>3, <1>4, RefreshGoesOn

\* The entries of one proposal each that no recent event is about.
LEMMA OldEntriesGood ==
    ASSUME NEW c, NEW old \in Seq(Entry), GoodList(old, c), NEW recent \in Seq(ProposalIds)
    PROVE  LET kept == OldEntries(old, recent) IN
           /\ kept \in Seq(Entry)
           /\ GoodList(kept, c)
           /\ \A i \in DOMAIN kept : \A k \in DOMAIN recent : recent[k] # kept[i].id
<1> DEFINE among == {entry \in Range(old) : ~Contains(recent, entry.id)}
           kept == Selection(old, among)
<1>1. OldEntries(old, recent) = kept
  BY DEF OldEntries
<1>2. \A entry \in among : \A k \in DOMAIN recent : recent[k] # entry.id
  BY DEF Contains
<1> HIDE DEF among, kept
<1>3. /\ kept \in Seq(Entry)
      /\ \E at \in [1 .. Len(kept) -> 1 .. Len(old)] :
           /\ \A i \in 1 .. Len(kept) : kept[i] = old[at[i]] /\ kept[i] \in among
           /\ \A i, k \in 1 .. Len(kept) : i < k => at[i] < at[k]
  BY SelectionFacts DEF kept
<1>4. PICK at \in [1 .. Len(kept) -> 1 .. Len(old)] :
        /\ \A i \in 1 .. Len(kept) : kept[i] = old[at[i]] /\ kept[i] \in among
        /\ \A i, k \in 1 .. Len(kept) : i < k => at[i] < at[k]
  BY <1>3
<1>5. DOMAIN kept = 1 .. Len(kept) /\ DOMAIN old = 1 .. Len(old) /\ Len(kept) \in Nat
  BY <1>3
<1>6. \A i \in DOMAIN kept : TrueEntry(kept[i], c)
  BY <1>4, <1>5 DEF GoodList
<1>7. \A i, k \in DOMAIN kept : kept[i].id = kept[k].id => i = k
  <2> SUFFICES ASSUME NEW i \in DOMAIN kept, NEW k \in DOMAIN kept, kept[i].id = kept[k].id
               PROVE  i = k
    OBVIOUS
  <2>1. at[i] = at[k]
    BY <1>4, <1>5 DEF GoodList
  <2>2. ~(i < k) /\ ~(k < i) /\ i \in Nat /\ k \in Nat
    BY <1>4, <1>5, <2>1
  <2> QED BY <2>2
<1>8. \A i \in DOMAIN kept : \A k \in DOMAIN recent : recent[k] # kept[i].id
  BY <1>2, <1>4, <1>5
<1> QED BY <1>1, <1>3, <1>6, <1>7, <1>8 DEF GoodList

\* The recent proposals, and after them the old ones: none of them twice.
LEMMA QueryEventsInv ==
    ASSUME DocumentInv, NEW page \in Pages, QueryEvents(page)
    PROVE  DocumentInv'
<1> DEFINE recent == SubSeq(created, horizon + 1, Len(created))
           old == OldEntries(refresh[page].old, recent)
           news == [i \in DOMAIN recent |-> [id |-> recent[i], status |-> "Unknown", jobId |-> 0]]
           left == [i \in 1 .. Len(recent) + Len(old) |-> "status"]
           run == [step |-> "read", old |-> << >>, recent |-> Len(recent),
                   merged |-> news \o old, left |-> left]
<1>1. /\ created \in Seq(ProposalIds) /\ horizon \in 0 .. Len(created)
      /\ refresh[page].old \in Seq(Entry) /\ GoodList(refresh[page].old, chain)
      /\ proposalsTile \in Seq(Entry) /\ GoodList(proposalsTile, chain)
  BY DEF DocumentInv, ProposalsTypeOK, Refresh, GoodRefresh
<1>2. /\ recent \in Seq(ProposalIds)
      /\ \A i \in DOMAIN recent : /\ i + horizon \in DOMAIN created
                                  /\ recent[i] = created[i + horizon]
  BY <1>1
<1>3. /\ \A i \in DOMAIN recent : chain[recent[i]].status # "Unknown"
      /\ \A i, k \in DOMAIN recent : recent[i] = recent[k] => i = k
  <2>1. /\ \A i \in DOMAIN created : created[i] \in KnownProposals
        /\ \A i, k \in DOMAIN created : created[i] = created[k] => i = k
    BY DEF DocumentInv, EventsInv
  <2>2. \A i \in DOMAIN recent : i \in Int
    BY <1>2
  <2> HIDE DEF recent
  <2> QED BY <1>1, <1>2, <2>1, <2>2 DEF KnownProposals
<1>4. refresh' = [refresh EXCEPT ![page] = run] /\ UNCHANGED chainVars
      /\ proposalsTile' = proposalsTile
  BY DEF QueryEvents
<1> HIDE DEF recent
<1>5. /\ old \in Seq(Entry) /\ GoodList(old, chain)
      /\ \A i \in DOMAIN old : \A k \in DOMAIN recent : recent[k] # old[i].id
  <2> DEFINE listed == refresh[page].old
  <2>1. listed \in Seq(Entry) /\ GoodList(listed, chain) /\ recent \in Seq(ProposalIds)
    BY <1>1, <1>2
  <2>2. old = OldEntries(listed, recent)
    OBVIOUS
  <2> HIDE DEF listed, old
  <2> QED BY <2>1, <2>2, OldEntriesGood
<1> HIDE DEF old
<1>6. /\ news \in Seq(Entry) /\ Len(news) = Len(recent)
      /\ \A i \in DOMAIN news : TrueEntry(news[i], chain) /\ news[i].id = recent[i]
  <2>1. Len(recent) \in Nat /\ DOMAIN recent = 1 .. Len(recent)
        /\ \A i \in DOMAIN recent : recent[i] \in ProposalIds
    BY <1>2
  <2>2. \A i \in DOMAIN recent : [id |-> recent[i], status |-> "Unknown", jobId |-> 0] \in Entry
    BY <2>1 DEF Entry, Statuses
  <2>3. news \in [1 .. Len(recent) -> Entry]
    BY <2>1, <2>2
  <2>4. news \in Seq(Entry) /\ Len(news) = Len(recent)
    <3> HIDE DEF news
    <3> QED BY <2>1, <2>3
  <2>5. \A i \in DOMAIN news : news[i].id = recent[i] /\ TrueEntry(news[i], chain)
    BY <1>3 DEF TrueEntry
  <2> QED BY <2>4, <2>5
<1>7. /\ left \in Seq({"status", "jobId", "nothing"})
      /\ Len(left) = Len(recent) + Len(old) /\ Len(recent) \in Nat
  BY <1>2, <1>5
<1> HIDE DEF news, left
<1>8. /\ news \o old \in Seq(Entry) /\ Len(news \o old) = Len(recent) + Len(old)
      /\ DOMAIN news = 1 .. Len(recent) /\ DOMAIN old = 1 .. Len(old)
      /\ \A i \in 1 .. Len(recent) : (news \o old)[i] = news[i]
      /\ \A i \in Len(recent) + 1 .. Len(recent) + Len(old) :
           (news \o old)[i] = old[i - Len(recent)]
  <2>1. news \in Seq(Entry) /\ old \in Seq(Entry) /\ Len(news) = Len(recent)
    BY <1>5, <1>6
  <2> QED BY <2>1
<1>9. GoodList(news \o old, chain)
  <2> DEFINE n == Len(recent)
             merged == news \o old
  <2>1. DOMAIN merged = 1 .. n + Len(old) /\ n \in Nat /\ Len(old) \in Nat
    BY <1>5, <1>7, <1>8
  <2>2. \A i \in DOMAIN merged :
          \/ i \in DOMAIN news /\ merged[i] = news[i]
          \/ i \notin DOMAIN news /\ i - n \in DOMAIN old /\ merged[i] = old[i - n]
    BY <1>8, <2>1
  <2> HIDE DEF merged, n
  <2>3. \A i \in DOMAIN merged : TrueEntry(merged[i], chain)
    BY <1>5, <1>6, <2>2 DEF GoodList
  <2>4. \A i, k \in DOMAIN merged : merged[i].id = merged[k].id => i = k
    <3> SUFFICES ASSUME NEW i \in DOMAIN merged, NEW k \in DOMAIN merged,
                        merged[i].id = merged[k].id
                 PROVE  i = k
      OBVIOUS
    <3>1. i \in Int /\ k \in Int /\ n \in Int
      BY <2>1
    <3>2. CASE i \in DOMAIN news /\ k \in DOMAIN news
      <4>1. news[i].id = recent[i] /\ news[k].id = recent[k]
        BY <1>6, <3>2
      <4>2. i \in DOMAIN recent /\ k \in DOMAIN recent
        BY <1>2, <1>8, <3>2
      <4> QED BY <1>3, <2>2, <3>2, <4>1, <4>2
    <3>3. CASE i \notin DOMAIN news /\ k \notin DOMAIN news
      <4>1. i - n = k - n
        BY <1>5, <2>2, <3>3 DEF GoodList
      <4> QED BY <3>1, <4>1
    <3>4. CASE i \in DOMAIN news /\ k \notin DOMAIN news
      BY <1>2, <1>5, <1>6, <1>8, <2>2, <3>4
    <3>5. CASE i \notin DOMAIN news /\ k \in DOMAIN news
      BY <1>2, <1>5, <1>6, <1>8, <2>2, <3>5
    <3> QED BY <3>2, <3>3, <3>4, <3>5
  <2> QED BY <2>3, <2>4 DEF GoodList, merged
<1>10. run \in Refresh
  BY <1>7, <1>8 DEF Refresh
<1>11. GoodRefresh(run, chain)
  BY <1>7, <1>8, <1>9 DEF GoodRefresh, GoodList
<1> HIDE DEF run
<1> QED BY <1>1, <1>4, <1>10, <1>11, RefreshGoesOn

\* One entry says something else that is true of its proposal.
LEMMA ChangedEntryGood ==
    ASSUME NEW c, NEW list \in Seq(Entry), GoodList(list, c), NEW i \in DOMAIN list,
           NEW entry \in Entry, entry.id = list[i].id, TrueEntry(entry, c)
    PROVE  LET changed == [list EXCEPT ![i] = entry] IN
           changed \in Seq(Entry) /\ GoodList(changed, c) /\ Len(changed) = Len(list)
<1> DEFINE changed == [list EXCEPT ![i] = entry]
<1>1. /\ changed \in Seq(Entry) /\ Len(changed) = Len(list) /\ DOMAIN changed = DOMAIN list
      /\ changed[i] = entry /\ \A k \in DOMAIN list \ {i} : changed[k] = list[k]
  OBVIOUS
<1> HIDE DEF changed
<1>2. GoodList(changed, c)
  <2>1. \A k \in DOMAIN list : changed[k].id = list[k].id
    BY <1>1
  <2> QED BY <1>1, <2>1 DEF GoodList
<1> QED BY <1>1, <1>2 DEF changed

\* A page replaces its i-th entry by one that is as good.
PutsEntry(page, i, entry, todo) ==
    /\ entry \in Entry /\ TrueEntry(entry, chain)
    /\ entry.id = refresh[page].merged[i].id
    /\ todo \in {"status", "jobId", "nothing"}
    /\ refresh' = [refresh EXCEPT ![page] =
         [refresh[page] EXCEPT !.merged = [refresh[page].merged EXCEPT ![i] = entry],
                               !.left = [refresh[page].left EXCEPT ![i] = todo]]]
    /\ UNCHANGED <<chainVars, proposalsTile>>

LEMMA PutsEntryInv ==
    ASSUME DocumentInv, NEW page \in Pages, NEW i \in DOMAIN refresh[page].left,
           NEW entry, NEW todo, PutsEntry(page, i, entry, todo)
    PROVE  DocumentInv'
<1> DEFINE merged == [refresh[page].merged EXCEPT ![i] = entry]
           left == [refresh[page].left EXCEPT ![i] = todo]
           run == [refresh[page] EXCEPT !.merged = merged, !.left = left]
<1> USE DEF PutsEntry
<1>0. refresh' = [refresh EXCEPT ![page] = run]
  OBVIOUS
<1>1. refresh[page] \in Refresh /\ GoodRefresh(refresh[page], chain)
  BY DEF DocumentInv, ProposalsTypeOK
<1>2. /\ refresh[page].merged \in Seq(Entry) /\ GoodList(refresh[page].merged, chain)
      /\ refresh[page].left \in Seq({"status", "jobId", "nothing"})
      /\ Len(refresh[page].left) = Len(refresh[page].merged)
      /\ GoodList(refresh[page].old, chain)
  BY <1>1 DEF Refresh, GoodRefresh
<1>3. i \in DOMAIN refresh[page].merged
  BY <1>2
<1>4. merged \in Seq(Entry) /\ GoodList(merged, chain) /\ Len(merged) = Len(refresh[page].merged)
  BY <1>2, <1>3, ChangedEntryGood
<1>5. left \in Seq({"status", "jobId", "nothing"}) /\ Len(left) = Len(refresh[page].left)
  BY <1>2
<1> HIDE DEF merged, left
<1>6. /\ run \in Refresh /\ run.merged = merged /\ run.left = left /\ run.old = refresh[page].old
  BY <1>1, <1>4, <1>5 DEF Refresh
<1>7. GoodRefresh(run, chain)
  BY <1>2, <1>4, <1>5, <1>6 DEF GoodRefresh
<1>9. proposalsTile' \in Seq(Entry) /\ GoodList(proposalsTile', chain)
  BY DEF DocumentInv, ProposalsTypeOK
<1> HIDE DEF run
<1> QED BY <1>0, <1>6, <1>7, <1>9, RefreshGoesOn

LEMMA EntryRead ==
    ASSUME DocumentInv, NEW page \in Pages, NEW i \in DOMAIN refresh[page].left
    PROVE  /\ refresh[page] \in Refresh
           /\ i \in DOMAIN refresh[page].merged
           /\ refresh[page].merged[i] \in Entry
           /\ TrueEntry(refresh[page].merged[i], chain)
           /\ refresh[page].merged[i].id \in ProposalIds
           /\ chain[refresh[page].merged[i].id] \in ChainRecord
<1>1. refresh[page] \in Refresh /\ GoodRefresh(refresh[page], chain)
  BY DEF DocumentInv, ProposalsTypeOK
<1>2. /\ refresh[page].merged \in Seq(Entry) /\ GoodList(refresh[page].merged, chain)
      /\ refresh[page].left \in Seq({"status", "jobId", "nothing"})
      /\ Len(refresh[page].left) = Len(refresh[page].merged)
  BY <1>1 DEF Refresh, GoodRefresh
<1>3. i \in DOMAIN refresh[page].merged
  BY <1>2
<1>4. refresh[page].merged[i] \in Entry /\ TrueEntry(refresh[page].merged[i], chain)
  BY <1>2, <1>3 DEF GoodList
<1>5. refresh[page].merged[i].id \in ProposalIds
  BY <1>4 DEF Entry
<1> QED BY <1>1, <1>3, <1>4, <1>5 DEF DocumentInv, ProposalsTypeOK

LEMMA ReadStatusInv ==
    ASSUME DocumentInv, NEW page \in Pages, NEW i \in DOMAIN refresh[page].left,
           ReadStatus(page, i)
    PROVE  DocumentInv'
<1> DEFINE old == refresh[page].merged[i]
           entry == [old EXCEPT !.status = chain[old.id].status]
           todo == IF i <= refresh[page].recent THEN "jobId" ELSE "nothing"
<1>1. /\ old \in Entry /\ TrueEntry(old, chain) /\ old.id \in ProposalIds
      /\ chain[old.id] \in ChainRecord
  BY EntryRead
<1>2. entry \in Entry /\ entry.id = old.id /\ TrueEntry(entry, chain)
  <2>1. chain[old.id].status \in Statuses
    BY <1>1 DEF ChainRecord
  <2>2. /\ entry \in Entry /\ entry.id = old.id /\ entry.jobId = old.jobId
        /\ entry.status = chain[old.id].status
    BY <1>1, <2>1 DEF Entry
  <2> QED BY <1>1, <2>2 DEF TrueEntry
<1>3. /\ refresh' = [refresh EXCEPT
           ![page].merged[i].status = chain[refresh[page].merged[i].id].status,
           ![page].left[i] = todo]
      /\ refresh[page].step = "read" /\ UNCHANGED <<chainVars, proposalsTile>>
  BY DEF ReadStatus, Readable
<1>4. refresh' = [refresh EXCEPT ![page] =
        [refresh[page] EXCEPT !.merged = [refresh[page].merged EXCEPT ![i] = entry],
                              !.left = [refresh[page].left EXCEPT ![i] = todo]]]
  BY <1>3
<1>5. todo \in {"status", "jobId", "nothing"}
  OBVIOUS
<1> HIDE DEF entry, todo
<1>6. PutsEntry(page, i, entry, todo)
  BY <1>2, <1>3, <1>4, <1>5 DEF PutsEntry
<1> QED BY <1>6, PutsEntryInv

LEMMA ReadJobIdInv ==
    ASSUME DocumentInv, NEW page \in Pages, NEW i \in DOMAIN refresh[page].left,
           ReadJobId(page, i)
    PROVE  DocumentInv'
<1> DEFINE old == refresh[page].merged[i]
           entry == [old EXCEPT !.jobId = chain[old.id].bridgeId]
           todo == "nothing"
<1>1. /\ old \in Entry /\ TrueEntry(old, chain) /\ old.id \in ProposalIds
      /\ chain[old.id] \in ChainRecord
  BY EntryRead
<1>2. entry \in Entry /\ entry.id = old.id /\ TrueEntry(entry, chain)
  <2>1. chain[old.id].bridgeId \in {0} \cup Jobs
    BY <1>1 DEF ChainRecord
  <2>2. chain[old.id].bridgeId \in {0} \cup chain[old.id].jobs
    BY <1>1 DEF DocumentInv, ChainInv
  <2>3. /\ entry \in Entry /\ entry.id = old.id /\ entry.status = old.status
        /\ entry.jobId = chain[old.id].bridgeId
    <3> DEFINE read == chain[old.id].bridgeId
    <3>1. old \in Entry /\ read \in {0} \cup Jobs /\ entry = [old EXCEPT !.jobId = read]
      BY <1>1, <2>1
    <3> HIDE DEF old, read, entry
    <3>2. entry \in Entry /\ entry.id = old.id /\ entry.status = old.status /\ entry.jobId = read
      BY <3>1 DEF Entry
    <3> QED BY <3>2 DEF read
  <2> HIDE DEF entry
  <2> QED BY <1>1, <2>2, <2>3 DEF TrueEntry
<1>3. /\ refresh' = [refresh EXCEPT
           ![page].merged[i].jobId = chain[refresh[page].merged[i].id].bridgeId,
           ![page].left[i] = todo]
      /\ refresh[page].step = "read" /\ UNCHANGED <<chainVars, proposalsTile>>
  BY DEF ReadJobId, Readable
<1>4. refresh' = [refresh EXCEPT ![page] =
        [refresh[page] EXCEPT !.merged = [refresh[page].merged EXCEPT ![i] = entry],
                              !.left = [refresh[page].left EXCEPT ![i] = todo]]]
  BY <1>3
<1>5. todo \in {"status", "jobId", "nothing"}
  OBVIOUS
<1> HIDE DEF entry, todo
<1>6. PutsEntry(page, i, entry, todo)
  BY <1>2, <1>3, <1>4, <1>5 DEF PutsEntry
<1> QED BY <1>6, PutsEntryInv

LEMMA KeepOldInv ==
    ASSUME DocumentInv, NEW page \in Pages, NEW i \in DOMAIN refresh[page].left,
           KeepOld(page, i)
    PROVE  DocumentInv'
<1> DEFINE left == [refresh[page].left EXCEPT ![i] = "nothing"]
           run == [refresh[page] EXCEPT !.left = left]
<1>1. refresh[page] \in Refresh /\ GoodRefresh(refresh[page], chain)
  BY DEF DocumentInv, ProposalsTypeOK
<1>2. refresh[page].left \in Seq({"status", "jobId", "nothing"})
  BY <1>1 DEF Refresh
<1>3. left \in Seq({"status", "jobId", "nothing"}) /\ Len(left) = Len(refresh[page].left)
  BY <1>2
<1> HIDE DEF left
<1>4. /\ run \in Refresh /\ run.left = left /\ run.merged = refresh[page].merged
      /\ run.old = refresh[page].old
  BY <1>1, <1>3 DEF Refresh
<1>5. GoodRefresh(run, chain)
  BY <1>1, <1>3, <1>4 DEF GoodRefresh
<1>6. refresh' = [refresh EXCEPT ![page] = run]
  BY DEF KeepOld, left
<1>7. UNCHANGED chainVars /\ proposalsTile' \in Seq(Entry) /\ GoodList(proposalsTile', chain)
  BY DEF KeepOld, DocumentInv, ProposalsTypeOK
<1> HIDE DEF run
<1> QED BY <1>4, <1>5, <1>6, <1>7, RefreshGoesOn

\* The list a page has merged becomes the document.
LEMMA StoreProposalsInv ==
    ASSUME DocumentInv, NEW page \in Pages, StoreProposals(page)
    PROVE  DocumentInv'
<1>1. proposalsTile' \in Seq(Entry) /\ GoodList(proposalsTile', chain)
  BY DEF StoreProposals, DocumentInv, ProposalsTypeOK, Refresh, GoodRefresh
<1>2. refresh' = [refresh EXCEPT ![page] = NoRefresh] /\ UNCHANGED chainVars
  BY DEF StoreProposals
<1> QED BY <1>1, <1>2, NoRefreshGood, RefreshGoesOn

LEMMA RefreshFailsInv ==
    ASSUME DocumentInv, NEW page \in Pages, RefreshFails(page)
    PROVE  DocumentInv'
<1>1. proposalsTile' \in Seq(Entry) /\ GoodList(proposalsTile', chain)
  BY DEF RefreshFails, DocumentInv, ProposalsTypeOK
<1>2. refresh' = [refresh EXCEPT ![page] = NoRefresh] /\ UNCHANGED chainVars
  BY DEF RefreshFails
<1> QED BY <1>1, <1>2, NoRefreshGood, RefreshGoesOn

LEMMA EventAgesInv ==
    ASSUME DocumentInv, EventAges
    PROVE  DocumentInv'
<1>1. horizon' \in 0 .. Len(created) /\ UNCHANGED <<chain, created, proposalsTile, refresh>>
  BY DEF EventAges, DocumentInv, ProposalsTypeOK
<1> QED
  BY <1>1 DEF DocumentInv, ProposalsTypeOK, ChainInv, VotingOver, EventsInv, KnownProposals

LEMMA PageStepInv ==
    ASSUME DocumentInv, NEW page \in Pages, PageNext(page)
    PROVE  DocumentInv'
BY GetProposalsInv, QueryEventsInv, ReadStatusInv, ReadJobIdInv, KeepOldInv,
   StoreProposalsInv, RefreshFailsInv DEF PageNext

-----------------------------------------------------------------------------
LEMMA InitDocumentInv ==
    ASSUME Init
    PROVE  DocumentInv
<1>1. ProposalsTypeOK
  BY NoRefreshGood DEF Init, ProposalsTypeOK, ChainInit, ChainRecord, Statuses
<1>2. ChainInv
  BY DEF Init, ChainInit, ChainInv
<1>3. EventsInv
  BY DEF Init, ChainInit, EventsInv, KnownProposals
<1>4. GoodList(proposalsTile, chain)
  BY DEF Init, GoodList
<1>5. \A page \in Pages : GoodRefresh(refresh[page], chain)
  BY NoRefreshGood DEF Init
<1> QED BY <1>1, <1>2, <1>3, <1>4, <1>5 DEF DocumentInv

LEMMA DocumentStepInv ==
    ASSUME DocumentInv, [Next]_tileVars
    PROVE  DocumentInv'
<1>1. CASE \E p \in ProposalIds : ChainStep(p)
  BY <1>1, ChainStepInv
<1>2. CASE EventAges
  BY <1>2, EventAgesInv
<1>3. CASE \E page \in Pages : PageNext(page)
  BY <1>3, PageStepInv
<1>4. CASE UNCHANGED tileVars
  BY <1>4 DEF tileVars, chainVars, DocumentInv, ProposalsTypeOK, ChainInv, VotingOver,
              EventsInv, KnownProposals
<1> QED BY <1>1, <1>2, <1>3, <1>4 DEF Next

\* The inductive invariant of the chain, the document and all that the pages hold.
THEOREM DocumentInvariant == Spec => []DocumentInv
<1>1. Init => DocumentInv
  BY InitDocumentInv
<1>2. DocumentInv /\ [Next]_tileVars => DocumentInv'
  BY DocumentStepInv
<1> QED BY <1>1, <1>2, PTL DEF Spec

\* The document, the events and every page's lists have their types.
THEOREM DocumentTypes == Spec => []ProposalsTypeOK
<1>1. DocumentInv => ProposalsTypeOK
  BY DEF DocumentInv
<1> QED BY <1>1, DocumentInvariant, PTL

\* Whatever pages write their lists in whatever order, no proposal is ever in the
\* document twice.
THEOREM DocumentListsOnce == Spec => []EntriesUnique
<1>1. ASSUME DocumentInv
      PROVE  EntriesUnique
  <2> DEFINE n == Len(proposalsTile)
             idOf == [i \in 1 .. n |-> proposalsTile[i].id]
  <2>1. /\ n \in Nat /\ DOMAIN proposalsTile = 1 .. n
        /\ \A i, k \in 1 .. n : proposalsTile[i].id = proposalsTile[k].id => i = k
    BY <1>1 DEF DocumentInv, ProposalsTypeOK, GoodList
  <2>2. Listed = {proposalsTile[i].id : i \in 1 .. n}
    BY <2>1 DEF Listed, Range
  <2>3. idOf \in [1 .. n -> Listed]
    BY <2>2
  <2>4. \A i, k \in 1 .. n : idOf[i] = idOf[k] => i = k
    BY <2>1
  <2>5. \A id \in Listed : \E i \in 1 .. n : idOf[i] = id
    BY <2>2
  <2> HIDE DEF idOf, n
  <2>6. idOf \in Bijection(1 .. n, Listed)
    BY <2>3, <2>4, <2>5, Fun_IsBij
  <2>7. ExistsBijection(1 .. n, Listed)
    BY <2>6 DEF ExistsBijection
  <2>8. Cardinality(Listed) = n
    BY <2>1, <2>7, FS_CountingElements
  <2> QED BY <2>8 DEF EntriesUnique, n
<1> QED BY <1>1, DocumentInvariant, PTL

\* A job id in the document is one of the proposal it stands beside.
THEOREM DocumentJobsOwn == Spec => []JobIdsOwn
<1>1. DocumentInv => JobIdsOwn
  BY DEF DocumentInv, GoodList, TrueEntry, JobIdsOwn, Range
<1> QED BY <1>1, DocumentInvariant, PTL

\* What the document calls executed is executed.
THEOREM DocumentExecuted == Spec => []ExecutedIsFinal
<1>1. DocumentInv => ExecutedIsFinal
  BY DEF DocumentInv, GoodList, TrueEntry, ExecutedIsFinal, ExecutedAdapters, Range
<1> QED BY <1>1, DocumentInvariant, PTL

-----------------------------------------------------------------------------
(* The pages implement what the readers of the document rely on. *)

JobsOf == [p \in ProposalIds |-> chain[p].jobs]

ExecutedProposals == {p \in ProposalIds : chain[p].status = "Executed"}

Shown ==
    [i \in DOMAIN proposalsTile |->
      [id |-> proposalsTile[i].id,
       executed |-> proposalsTile[i].status = "Executed",
       jobId |-> proposalsTile[i].jobId]]

LEMMA InitIsDocument == Init => Document!Init
BY DEF Init, ChainInit, KnownProposals, Document!Init

\* A change of the chain is a proposal, a job, an execution or nothing.
LEMMA ChainStepIsDocument ==
    ASSUME DocumentInv, DocumentInv', NEW p \in ProposalIds,
           \A q \in ProposalIds \ {p} : chain'[q] = chain[q],
           Proposes(p) \/ RequestsJob(p) \/ Executes(p) \/ ShowsNothing(p),
           proposalsTile' = proposalsTile
    PROVE  Document!Next \/ UNCHANGED <<KnownProposals, JobsOf, ExecutedProposals, Shown>>
<1>1. Shown' = Shown
  BY DEF Shown
<1>2. (\A q \in ProposalIds : chain'[q].jobs = chain[q].jobs) => JobsOf' = JobsOf
  BY DEF JobsOf
<1>3. CASE Proposes(p)
  <2>1. KnownProposals' = KnownProposals \cup {p} /\ p \notin KnownProposals
    BY <1>3 DEF KnownProposals, Proposes
  <2>2. ExecutedProposals' = ExecutedProposals
    BY <1>3 DEF ExecutedProposals, Proposes
  <2>3. JobsOf' = JobsOf
    BY <1>2, <1>3 DEF Proposes
  <2>4. Document!Propose(p)
    BY <1>1, <2>1, <2>2, <2>3 DEF Document!Propose, ExecutedProposals, JobsOf, Shown
  <2> QED BY <2>4 DEF Document!Next
<1>4. CASE RequestsJob(p)
  <2>1. PICK id \in NewJobs : chain'[p].jobs = chain[p].jobs \cup {id}
    BY <1>4 DEF RequestsJob
  <2>2. KnownProposals' = KnownProposals /\ p \in KnownProposals
    BY <1>4 DEF KnownProposals, RequestsJob
  <2>3. ExecutedProposals' = ExecutedProposals
    BY <1>4 DEF ExecutedProposals, RequestsJob
  <2>4. /\ id \notin UNION {JobsOf[q] : q \in ProposalIds}
        /\ JobsOf' = [JobsOf EXCEPT ![p] = @ \cup {id}]
        /\ id \in JobsOf'[p]
    BY <2>1 DEF JobsOf, NewJobs
  <2>5. Document!RequestJob(p, id)
    BY <1>1, <2>2, <2>3, <2>4 DEF Document!RequestJob, ExecutedProposals, JobsOf, Shown
  <2> QED BY <2>4, <2>5 DEF Document!Next, JobsOf
<1>5. CASE Executes(p)
  <2>1. KnownProposals' = KnownProposals /\ p \in KnownProposals
    BY <1>5 DEF KnownProposals, Executes
  <2>2. ExecutedProposals' = ExecutedProposals \cup {p} /\ p \notin ExecutedProposals
    BY <1>5 DEF ExecutedProposals, Executes
  <2>3. JobsOf' = JobsOf
    BY <1>2, <1>5 DEF Executes
  <2>4. JobsOf[p] # {}
    BY <1>5 DEF JobsOf, Executes, DocumentInv, ChainInv
  <2>5. Document!Execute(p)
    BY <1>1, <2>1, <2>2, <2>3, <2>4 DEF Document!Execute, ExecutedProposals, JobsOf, Shown
  <2> QED BY <2>5 DEF Document!Next
<1>6. CASE ShowsNothing(p)
  <2>1. KnownProposals' = KnownProposals
    BY <1>6 DEF KnownProposals, ShowsNothing
  <2>2. ExecutedProposals' = ExecutedProposals
    BY <1>6 DEF ExecutedProposals, ShowsNothing
  <2>3. JobsOf' = JobsOf
    BY <1>2, <1>6 DEF ShowsNothing
  <2> QED BY <1>1, <2>1, <2>2, <2>3
<1> QED BY <1>3, <1>4, <1>5, <1>6

\* Any list that a page may write is acceptable.
LEMMA StoreIsDocument ==
    ASSUME DocumentInv', UNCHANGED chainVars
    PROVE  Document!Rewrite
<1>1. UNCHANGED <<KnownProposals, JobsOf, ExecutedProposals>>
  BY DEF chainVars, KnownProposals, JobsOf, ExecutedProposals
<1>2. Document!Acceptable(Shown')
  <2>1. /\ proposalsTile' \in Seq(Entry) /\ GoodList(proposalsTile', chain)
        /\ chain' = chain
    BY DEF DocumentInv, ProposalsTypeOK, chainVars
  <2> DEFINE list == proposalsTile'
  <2> HIDE DEF list
  <2>2. list \in Seq(Entry) /\ GoodList(list, chain)
    BY <2>1 DEF list
  <2>3. Shown' = [i \in DOMAIN list |-> [id |-> list[i].id,
                   executed |-> list[i].status = "Executed", jobId |-> list[i].jobId]]
    BY DEF Shown, list
  <2>4. DOMAIN Shown' = DOMAIN list
    BY <2>3
  <2>5. \A i \in DOMAIN list : list[i] \in Entry /\ TrueEntry(list[i], chain)
    BY <2>2 DEF GoodList
  <2>6. ASSUME NEW i \in DOMAIN list
        PROVE  Document!Truthful(Shown'[i]) /\ Shown'[i].id = list[i].id
    <3>1. /\ Shown'[i] = [id |-> list[i].id, executed |-> list[i].status = "Executed",
                          jobId |-> list[i].jobId]
          /\ (list[i].status = "Executed") \in BOOLEAN
      BY <2>3
    <3>2. list[i].id \in ProposalIds
      BY <2>5 DEF Entry
    <3>3. list[i].id \in KnownProposals
      BY <2>5, <3>2 DEF TrueEntry, KnownProposals
    <3>4. list[i].jobId \in {0} \cup chain[list[i].id].jobs
      BY <2>5 DEF TrueEntry
    <3>5. list[i].jobId \in {0} \cup UNION {JobsOf[p] : p \in KnownProposals}
      BY <3>2, <3>3, <3>4 DEF JobsOf
    <3>6. Shown'[i] \in Document!Entry
      BY <3>1, <3>3, <3>5 DEF Document!Entry, JobsOf
    <3>7. list[i].status = "Executed" => list[i].id \in ExecutedProposals
      BY <2>5, <3>2 DEF TrueEntry, ExecutedProposals
    <3>8. Shown'[i].id = list[i].id /\ Shown'[i].jobId = list[i].jobId
      BY <3>1
    <3>9. Shown'[i].executed => Shown'[i].id \in ExecutedProposals
      <4> DEFINE done == list[i].status = "Executed"
      <4>1. Shown'[i] = [id |-> list[i].id, executed |-> done, jobId |-> list[i].jobId]
        BY <3>1
      <4>2. done => Shown'[i].id \in ExecutedProposals
        BY <3>7, <3>8
      <4> HIDE DEF done
      <4>3. Shown'[i].executed = done
        BY <4>1
      <4> QED BY <4>2, <4>3, Zenon
    <3>10. Shown'[i].jobId \in {0} \cup JobsOf[Shown'[i].id]
      BY <3>2, <3>4, <3>8 DEF JobsOf
    <3> HIDE DEF Shown
    <3> QED BY <3>6, <3>8, <3>9, <3>10 DEF Document!Truthful, JobsOf, ExecutedProposals
  <2>7. \A i, k \in DOMAIN list : list[i].id = list[k].id => i = k
    BY <2>2 DEF GoodList
  <2> QED BY <2>4, <2>6, <2>7 DEF Document!Acceptable
<1> QED BY <1>1, <1>2 DEF Document!Rewrite, JobsOf, ExecutedProposals, Shown

LEMMA StepIsDocument ==
    ASSUME DocumentInv, DocumentInv', [Next]_tileVars
    PROVE  [Document!Next]_(Document!documentVars)
<1>1. UNCHANGED <<KnownProposals, JobsOf, ExecutedProposals, Shown>> =>
        UNCHANGED Document!documentVars
  BY DEF Document!documentVars, JobsOf, ExecutedProposals, Shown
<1>2. ASSUME UNCHANGED <<chain, proposalsTile>>
      PROVE  UNCHANGED <<KnownProposals, JobsOf, ExecutedProposals, Shown>>
  BY <1>2 DEF KnownProposals, JobsOf, ExecutedProposals, Shown
<1>3. ASSUME NEW p \in ProposalIds, ChainStep(p)
      PROVE  Document!Next \/ UNCHANGED <<KnownProposals, JobsOf, ExecutedProposals, Shown>>
  <2>1. proposalsTile' = proposalsTile
    BY <1>3 DEF ChainStep
  <2> QED BY <1>3, <2>1, ChainStepInv, ChainStepIsDocument
<1>4. CASE EventAges \/ UNCHANGED tileVars
  BY <1>1, <1>2, <1>4 DEF EventAges, tileVars, chainVars
<1>5. ASSUME NEW page \in Pages, PageNext(page)
      PROVE  [Document!Next]_(Document!documentVars)
  <2>1. CASE StoreProposals(page)
    BY <2>1, StoreIsDocument DEF StoreProposals, Document!Next
  <2>2. CASE ~StoreProposals(page)
    <3>1. UNCHANGED <<chain, proposalsTile>>
      <4>1. \/ GetProposals(page) \/ QueryEvents(page) \/ RefreshFails(page)
            \/ \E i \in DOMAIN refresh[page].left :
                 ReadStatus(page, i) \/ ReadJobId(page, i) \/ KeepOld(page, i)
        BY <1>5, <2>2, Zenon DEF PageNext
      <4>2. GetProposals(page) => UNCHANGED <<chain, proposalsTile>>
        BY DEF GetProposals, chainVars
      <4>3. QueryEvents(page) => UNCHANGED <<chain, proposalsTile>>
        BY DEF QueryEvents, chainVars
      <4>4. RefreshFails(page) => UNCHANGED <<chain, proposalsTile>>
        BY DEF RefreshFails, chainVars
      <4>5. \A i : ReadStatus(page, i) \/ ReadJobId(page, i) \/ KeepOld(page, i) =>
                    UNCHANGED <<chain, proposalsTile>>
        BY DEF ReadStatus, ReadJobId, KeepOld, chainVars
      <4> QED BY <4>1, <4>2, <4>3, <4>4, <4>5, Zenon
    <3> QED BY <1>1, <1>2, <3>1
  <2> QED BY <2>1, <2>2
<1> QED BY <1>1, <1>3, <1>4, <1>5 DEF Next

\* The refreshes of all pages, whatever the chain does between their reads, implement
\* the document that the tally container and the TVL runner are checked against.
THEOREM PagesFollowDocument == Spec => FollowsDocument
<1>1. Init => Document!Init
  BY InitIsDocument
<1>2. DocumentInv /\ DocumentInv' /\ [Next]_tileVars => [Document!Next]_(Document!documentVars)
  BY StepIsDocument
<1> QED BY <1>1, <1>2, DocumentInvariant, PTL DEF Spec, FollowsDocument, Document!Spec
=============================================================================
