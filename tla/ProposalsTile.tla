---------------------------- MODULE ProposalsTile ----------------------------
(***************************************************************************)
(* The proposals document: init() of web/hooks/useProposals.ts, which each *)
(* open page runs when it is loaded, on a change of account and on every   *)
(* message, over the chain's proposals.  A refresh reads the document, the *)
(* recent ProposalCreated events, each proposal, and writes the document   *)
(* back as a whole; between any two of these reads the chain and the other *)
(* pages go on.                                                            *)
(*                                                                         *)
(* Simplifications: an entry is the id, the status and the job id; name,   *)
(* link, texts and calldata are functions of the id, the totals are shown  *)
(* only.  The last 1000 blocks are the events after horizon.  A page that  *)
(* is not connected shows the document and writes nothing.  The rewards    *)
(* are looked up for display, between the reads and the write.             *)
(***************************************************************************)
EXTENDS ProposalChain, Lists

CONSTANTS
    Additions,   \* the proposals whose call is addAdapter
    Undefined,   \* what a function without a return yields
    Pages        \* the refreshes that may run at once; a page may run several

VARIABLES
    created,        \* the ProposalCreated events, oldest first
    horizon,        \* how many of them are too old to be queried
    proposalsTile,  \* the content of the document
    refresh         \* the local variables of init() in each page

chainVars == <<chain, created, horizon>>
tileVars == <<chainVars, proposalsTile, refresh>>

ASSUME ProposalsTileAssumption == Additions \subseteq ProposalIds

Entry == [id : ProposalIds, status : Statuses, jobId : {0} \cup Jobs]

\* merged holds the entries of the recent proposals, then those of the others;
\* left says what is still to be read of each.
Refresh ==
    [step : {"idle", "query", "read"}, old : Seq(Entry), recent : Nat,
     merged : Seq(Entry), left : Seq({"status", "jobId", "nothing"})]

NoRefresh == [step |-> "idle", old |-> << >>, recent |-> 0, merged |-> << >>, left |-> << >>]

ProposalsTypeOK ==
    /\ chain \in [ProposalIds -> ChainRecord]
    /\ created \in Seq(ProposalIds)
    /\ horizon \in 0 .. Len(created)
    /\ proposalsTile \in Seq(Entry)
    /\ refresh \in [Pages -> Refresh]

Init ==
    /\ ChainInit
    /\ created = << >> /\ horizon = 0
    /\ proposalsTile = << >>
    /\ refresh = [page \in Pages |-> NoRefresh]

-----------------------------------------------------------------------------
ChainStep(p) ==
    /\ \E tallied \in {chain[p].tallied, TRUE} : ChainChanges(p, tallied)
    /\ created' = IF chain[p].status = "Unknown" THEN Append(created, p) ELSE created
    /\ UNCHANGED <<horizon, proposalsTile, refresh>>

\* The block of the oldest event is now more than 1000 blocks ago.
EventAges ==
    /\ horizon < Len(created)
    /\ horizon' = horizon + 1
    /\ UNCHANGED <<chain, created, proposalsTile, refresh>>

-----------------------------------------------------------------------------
GetProposals(page) ==
    /\ refresh[page].step = "idle"
    /\ refresh' = [refresh EXCEPT ![page] =
         [NoRefresh EXCEPT !.step = "query", !.old = proposalsTile]]
    /\ UNCHANGED <<chainVars, proposalsTile>>

\* Mutant of OldEntries: the recent ones are not filtered out.
OldEntriesAll(old, recent) == old

\* The entries of the document that no recent event is about.
OldEntries(old, recent) ==
    Selection(old, {entry \in Range(old) : ~Contains(recent, entry.id)})

QueryEvents(page) ==
    /\ refresh[page].step = "query"
    /\ LET recent == SubSeq(created, horizon + 1, Len(created))
           old == OldEntries(refresh[page].old, recent)
       IN refresh' = [refresh EXCEPT ![page] =
            [step |-> "read",
             old |-> << >>,
             recent |-> Len(recent),
             merged |-> [i \in DOMAIN recent |->
                          [id |-> recent[i], status |-> "Unknown", jobId |-> 0]] \o old,
             left |-> [i \in 1 .. Len(recent) + Len(old) |-> "status"]]]
    /\ UNCHANGED <<chainVars, proposalsTile>>

\* The old proposals are read once all of the recent ones have been.
Readable(page, i, what) ==
    /\ refresh[page].step = "read" /\ refresh[page].left[i] = what
    /\ i > refresh[page].recent =>
         \A j \in 1 .. refresh[page].recent : refresh[page].left[j] = "nothing"

\* state(id); of a recent proposal the bridgeId is still to be read.
ReadStatus(page, i) ==
    /\ Readable(page, i, "status")
    /\ refresh' = [refresh EXCEPT
         ![page].merged[i].status = chain[refresh[page].merged[i].id].status,
         ![page].left[i] = IF i <= refresh[page].recent THEN "jobId" ELSE "nothing"]
    /\ UNCHANGED <<chainVars, proposalsTile>>

\* Mutant of ReadJobId: of whatever proposal is first in the list.
ReadFirstJobId(page, i) ==
    /\ Readable(page, i, "jobId")
    /\ refresh[page].merged[i].id \in Additions
    /\ refresh' = [refresh EXCEPT
         ![page].merged[i].jobId = chain[refresh[page].merged[1].id].bridgeId,
         ![page].left[i] = "nothing"]
    /\ UNCHANGED <<chainVars, proposalsTile>>

\* proposals(id), after the calldata was decoded as a call of addAdapter: for any
\* other call that throws, and the refresh fails.
ReadJobId(page, i) ==
    /\ Readable(page, i, "jobId")
    /\ refresh[page].merged[i].id \in Additions
    /\ refresh' = [refresh EXCEPT
         ![page].merged[i].jobId = chain[refresh[page].merged[i].id].bridgeId,
         ![page].left[i] = "nothing"]
    /\ UNCHANGED <<chainVars, proposalsTile>>

\* Mutant of KeepOld: the catch does not return the entry.
KeepOldUndefined(page, i) ==
    /\ Readable(page, i, "status")
    /\ i > refresh[page].recent
    /\ refresh' = [refresh EXCEPT ![page].merged[i] = Undefined, ![page].left[i] = "nothing"]
    /\ UNCHANGED <<chainVars, proposalsTile>>

\* proposals(id) throws for an old proposal: it is kept as it was.
KeepOld(page, i) ==
    /\ Readable(page, i, "status")
    /\ i > refresh[page].recent
    /\ refresh' = [refresh EXCEPT ![page].left[i] = "nothing"]
    /\ UNCHANGED <<chainVars, proposalsTile>>

StoreProposals(page) ==
    /\ refresh[page].step = "read"
    /\ \A i \in DOMAIN refresh[page].left : refresh[page].left[i] = "nothing"
    /\ proposalsTile' = refresh[page].merged
    /\ refresh' = [refresh EXCEPT ![page] = NoRefresh]
    /\ UNCHANGED chainVars

\* Another request fails, or the page is closed.
RefreshFails(page) ==
    /\ refresh[page].step # "idle"
    /\ refresh' = [refresh EXCEPT ![page] = NoRefresh]
    /\ UNCHANGED <<chainVars, proposalsTile>>

PageNext(page) ==
    \/ GetProposals(page)
    \/ QueryEvents(page)
    \/ \E i \in DOMAIN refresh[page].left :
         ReadStatus(page, i) \/ ReadJobId(page, i) \/ KeepOld(page, i)
    \/ StoreProposals(page)
    \/ RefreshFails(page)

Next ==
    \/ \E p \in ProposalIds : ChainStep(p)
    \/ EventAges
    \/ \E page \in Pages : PageNext(page)

Spec == Init /\ [][Next]_tileVars

-----------------------------------------------------------------------------
(* Who relies on the document. *)

\* The adapters that the data runner and the TVL page take for approved.
ExecutedAdapters ==
    {entry.id : entry \in {e \in Range(proposalsTile) : e.status = "Executed"}}

Listed == {entry.id : entry \in Range(proposalsTile)}

\* No proposal is listed twice, though every refresh concatenates two lists and
\* proposals move from the one to the other while pages hold old copies.
EntriesUnique == Cardinality(Listed) = Len(proposalsTile)

\* The job id that a container finds in the entry of a proposal, however stale, is
\* 0 or was given to that proposal: its votes are never reported for another one.
JobIdsOwn ==
    \A entry \in Range(proposalsTile) : entry.jobId \in {0} \cup chain[entry.id].jobs

\* Only adapters of executed proposals are run and shown, whatever entries are
\* overwritten by older ones.
ExecutedIsFinal == \A p \in ExecutedAdapters : chain[p].status = "Executed"

\* "merge old and new proposals": a refresh keeps the entries of the document.
EntriesKept == [][Listed \subseteq Listed']_tileVars

\* What the readers of the document are checked against.
Document == INSTANCE ProposalsDocument WITH
    known <- KnownProposals,
    jobs <- [p \in ProposalIds |-> chain[p].jobs],
    executed <- {p \in ProposalIds : chain[p].status = "Executed"},
    document <- [i \in DOMAIN proposalsTile |->
                  [id |-> proposalsTile[i].id,
                   executed |-> proposalsTile[i].status = "Executed",
                   jobId |-> proposalsTile[i].jobId]]

\* The refreshes of all pages together never do more than replace one truthful
\* list by another, whatever the chain does between their reads.
FollowsDocument == Document!Spec
=============================================================================
