------------------------------ MODULE LitRunner -------------------------------
(***************************************************************************)
(* The TVL runner: run() of lit-ceramic-stream/index.js in any number of   *)
(* programs that share one key, and the Ceramic documents of data points.  *)
(*                                                                         *)
(* A turn authenticates, takes the adapters of executed proposals from the *)
(* proposals document, and for one after the other runs its code as a Lit  *)
(* action, loads the adapter's document, appends the output and updates    *)
(* it.  Each of these fails now and then, and a failed attempt is repeated *)
(* from the start, whatever it has done; when the retries are used up the  *)
(* program ends.                                                           *)
(*                                                                         *)
(* Simplifications: which adapters a turn finds, and in which order, is    *)
(* any (ProposalsDocument: not all of them, but only executed ones); an    *)
(* output is the runner and the moment it was computed, and of two moments *)
(* one is earlier; a document keeps the last content written; an update    *)
(* whose request fails has been applied by then or never is; the           *)
(* comparison of the recovered address is only logged.                     *)
(***************************************************************************)
EXTENDS Integers, Sequences, FiniteSets, Functions

CONSTANTS
    Adapters,
    Broken,      \* the adapters whose code throws
    Runners,
    MaxRetries,  \* of withRetry
    MaxTurns     \* bound on the turns of all runners

VARIABLES
    runner,      \* the local variables of run() in each program
    dataPoints,  \* the content of each adapter's document
    clock,       \* the moments at which code was run so far
    turns

litVars == <<runner, dataPoints, clock, turns>>

ASSUME LitAssumption ==
    /\ IsFiniteSet(Adapters) /\ Broken \subseteq Adapters
    /\ MaxRetries \in Nat /\ MaxTurns \in Nat

DataPoint == [runner : Runners, timestamp : Nat]

\* Each adapter once, as the proposals are.
AdapterLists ==
    UNION {{list \in [1 .. n -> Adapters] : IsInjective(list)} : n \in 0 .. Cardinality(Adapters)}

\* adapters are the ones of the turn, of which at is the index of the one that is
\* run; output is the timestamp of the results, document the content as loaded,
\* since the moment at which the turn began.
RunnerState ==
    [step : {"authenticate", "getProposals", "executeJs", "load", "update", "sleep", "ended"},
     adapters : AdapterLists, at : Nat, retries : 0 .. MaxRetries,
     output : Nat, document : Seq(DataPoint), since : Nat]

LitTypeOK ==
    /\ runner \in [Runners -> RunnerState]
    /\ dataPoints \in [Adapters -> Seq(DataPoint)]
    /\ clock \in Nat /\ turns \in 0 .. MaxTurns

NewTurn ==
    [step |-> "authenticate", adapters |-> << >>, at |-> 1, retries |-> 0,
     output |-> 0, document |-> << >>, since |-> 0]

Init ==
    /\ runner = [r \in Runners |-> [NewTurn EXCEPT !.step = "sleep"]]
    /\ dataPoints = [a \in Adapters |-> << >>]
    /\ clock = 0 /\ turns = 0

Adapter(r) == runner[r].adapters[runner[r].at]

-----------------------------------------------------------------------------
\* A minute later, or when somebody starts the program again.
BeginTurn(r) ==
    /\ runner[r].step \in {"sleep", "ended"}
    /\ turns < MaxTurns
    /\ turns' = turns + 1
    /\ runner' = [runner EXCEPT ![r] = NewTurn]
    /\ UNCHANGED <<dataPoints, clock>>

Authenticate(r) ==
    /\ runner[r].step = "authenticate"
    /\ runner' = [runner EXCEPT ![r].step = "getProposals", ![r].retries = 0]
    /\ UNCHANGED <<dataPoints, clock, turns>>

GetProposals(r) ==
    /\ runner[r].step = "getProposals"
    /\ \E list \in AdapterLists :
         runner' = [runner EXCEPT ![r].adapters = list, ![r].since = clock,
                                  ![r].step = IF list = << >> THEN "sleep" ELSE "executeJs"]
    /\ UNCHANGED <<dataPoints, clock, turns>>

\* go() of toBundle.js: the code is evaluated, the result dated and signed.
ExecuteJs(r) ==
    /\ runner[r].step = "executeJs"
    /\ Adapter(r) \notin Broken
    /\ clock' = clock + 1
    /\ runner' = [runner EXCEPT ![r].output = clock', ![r].step = "load"]
    /\ UNCHANGED <<dataPoints, turns>>

LoadDocument(r) ==
    /\ runner[r].step = "load"
    /\ runner' = [runner EXCEPT ![r].document = dataPoints[Adapter(r)], ![r].step = "update"]
    /\ UNCHANGED <<dataPoints, clock, turns>>

\* Mutant of NewContent: the data points loaded are not copied.
NewContentOnly(r) == <<[runner |-> r, timestamp |-> runner[r].output]>>

NewContent(r) ==
    Append(runner[r].document, [runner |-> r, timestamp |-> runner[r].output])

\* The runner goes on to the next adapter, with a withRetry of its own.
Advanced(state) ==
    IF state.at < Len(state.adapters)
    THEN [state EXCEPT !.step = "executeJs", !.at = @ + 1, !.retries = 0,
                       !.output = 0, !.document = << >>]
    ELSE [state EXCEPT !.step = "sleep", !.retries = 0, !.output = 0, !.document = << >>]

UpdateDocument(r) ==
    /\ runner[r].step = "update"
    /\ dataPoints' = [dataPoints EXCEPT ![Adapter(r)] = NewContent(r)]
    /\ runner' = [runner EXCEPT ![r] = Advanced(@)]
    /\ UNCHANGED <<clock, turns>>

\* Mutants of AfterFailure: one retry too many, the attempt is not counted, the
\* adapter is skipped, or what was computed is kept.
AfterFailureOnceMore(state) ==
    IF state.retries <= MaxRetries
    THEN [state EXCEPT !.retries = @ + 1, !.output = 0, !.document = << >>,
                       !.step = IF @ = "authenticate" THEN @ ELSE "executeJs"]
    ELSE [state EXCEPT !.step = "ended", !.output = 0, !.document = << >>]

AfterFailureUncounted(state) ==
    [state EXCEPT !.output = 0, !.document = << >>,
                  !.step = IF @ = "authenticate" THEN @ ELSE "executeJs"]

AfterFailureSkip(state) ==
    IF state.retries < MaxRetries
    THEN [state EXCEPT !.retries = @ + 1, !.output = 0, !.document = << >>,
                       !.step = IF @ = "authenticate" THEN @ ELSE "executeJs"]
    ELSE IF state.step = "authenticate" THEN [state EXCEPT !.step = "ended"] ELSE Advanced(state)

AfterFailureReload(state) ==
    IF state.retries < MaxRetries
    THEN [state EXCEPT !.retries = @ + 1, !.step = IF @ = "update" THEN "load" ELSE @]
    ELSE [state EXCEPT !.step = "ended", !.output = 0, !.document = << >>]

\* withRetry: the whole body once more, or the error that ends run().
AfterFailure(state) ==
    IF state.retries < MaxRetries
    THEN [state EXCEPT !.retries = @ + 1, !.output = 0, !.document = << >>,
                       !.step = IF @ = "authenticate" THEN @ ELSE "executeJs"]
    ELSE [state EXCEPT !.step = "ended", !.output = 0, !.document = << >>]

\* A request fails or the adapter's code throws; the update may have been applied.
AttemptFails(r) ==
    /\ runner[r].step \in {"authenticate", "executeJs", "load", "update"}
    /\ runner' = [runner EXCEPT ![r] = AfterFailure(@)]
    /\ \/ UNCHANGED dataPoints
       \/ /\ runner[r].step = "update"
          /\ dataPoints' = [dataPoints EXCEPT ![Adapter(r)] = NewContent(r)]
    /\ UNCHANGED <<clock, turns>>

\* The proposals document is read without a retry.
GetProposalsFails(r) ==
    /\ runner[r].step = "getProposals"
    /\ runner' = [runner EXCEPT ![r].step = "ended"]
    /\ UNCHANGED <<dataPoints, clock, turns>>

RunnerStep(r) ==
    \/ Authenticate(r)
    \/ GetProposals(r)
    \/ ExecuteJs(r)
    \/ LoadDocument(r)
    \/ UpdateDocument(r)
    \/ AttemptFails(r)
    \/ GetProposalsFails(r)

Next == \E r \in Runners : BeginTurn(r) \/ RunnerStep(r)

\* Every request is answered or fails, and every delay ends.
Fairness == \A r \in Runners : WF_litVars(RunnerStep(r))

Spec == Init /\ [][Next]_litVars /\ Fairness

-----------------------------------------------------------------------------
Working(r) == runner[r].step \notin {"sleep", "ended"}

\* The outputs of one runner are in a document in the order in which they were
\* computed and once each, though attempts that were applied are repeated and
\* other runners write the same documents.
OwnOutputsInOrder ==
    \A a \in Adapters : \A i, k \in DOMAIN dataPoints[a] :
        i < k /\ dataPoints[a][i].runner = dataPoints[a][k].runner =>
            dataPoints[a][i].timestamp < dataPoints[a][k].timestamp

LastOf(list) == list[Len(list)]

\* A runner that writes a document twice in a row, because it is the only one or
\* because it repeats an update that had been applied, adds to what is there: with
\* one program no output is ever lost.  What others wrote in between may be.
OwnOutputsKept ==
    [][\A a \in Adapters :
         /\ dataPoints'[a] # dataPoints[a]
         /\ dataPoints[a] # << >>
         /\ LastOf(dataPoints[a]).runner = LastOf(dataPoints'[a]).runner
         => dataPoints'[a] = Append(dataPoints[a], LastOf(dataPoints'[a]))]_litVars

\* The document ends with an output of the turn, or with one of another runner, which
\* wrote after it or updated what it had loaded before.
Stored(r, a) ==
    /\ dataPoints[a] # << >>
    /\ LastOf(dataPoints[a]).runner = r => LastOf(dataPoints[a]).timestamp > runner[r].since

\* A turn that came to its end has been through each of its adapters: where the last
\* output is the runner's own, it is one of the turn.
TurnsAreComplete ==
    \A r \in Runners : runner[r].step = "sleep" =>
        \A a \in Range(runner[r].adapters) : Stored(r, a)

\* An adapter that always fails holds a turn up only for the retries: the turn comes
\* to its end or ends the program.
TurnsEnd == \A r \in Runners : Working(r) ~> ~Working(r)
=============================================================================
