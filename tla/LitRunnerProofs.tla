--------------------------- MODULE LitRunnerProofs ----------------------------
(***************************************************************************)
(* What the runners leave in the documents, for any number of programs,    *)
(* adapters, retries and turns.                                            *)
(***************************************************************************)
EXTENDS LitRunner, FiniteSetTheorems, TLAPS

\* The outputs of each runner in list are in the order of their moments.
Ordered(list) ==
    \A i, k \in DOMAIN list :
        i < k /\ list[i].runner = list[k].runner => list[i].timestamp < list[k].timestamp

UpTo(list, moment) == \A i \in DOMAIN list : list[i].timestamp <= moment

\* All outputs of r in list were computed before moment.
Before(list, r, moment) ==
    \A i \in DOMAIN list : list[i].runner = r => list[i].timestamp < moment

WithOutput == {"load", "update"}
WithAdapter == {"executeJs"} \cup WithOutput

OrderInv ==
    /\ \A a \in Adapters : Ordered(dataPoints[a]) /\ UpTo(dataPoints[a], clock)
    /\ \A r \in Runners : Ordered(runner[r].document) /\ UpTo(runner[r].document, clock)

\* An output that is not stored yet is newer than all of its runner, also those that
\* others have loaded and will write back.
OutputInv ==
    \A r \in Runners : runner[r].step \in WithOutput =>
        /\ runner[r].since < runner[r].output /\ runner[r].output <= clock
        /\ \A a \in Adapters : Before(dataPoints[a], r, runner[r].output)
        /\ \A s \in Runners : Before(runner[s].document, r, runner[r].output)

\* The position of a turn, and what it has stored so far.
TurnOf(r) ==
    /\ runner[r].since <= clock
    /\ runner[r].step # "update" => runner[r].document = << >>
    /\ runner[r].step \in {"authenticate", "getProposals"} => runner[r].at = 1
    /\ runner[r].step \in WithAdapter =>
         /\ runner[r].at \in DOMAIN runner[r].adapters
         /\ \A i \in DOMAIN runner[r].adapters :
              i < runner[r].at => Stored(r, runner[r].adapters[i])
    /\ runner[r].step = "sleep" =>
         \A i \in DOMAIN runner[r].adapters : Stored(r, runner[r].adapters[i])

TurnInv == \A r \in Runners : TurnOf(r)

\* If nobody else has written the document, what was loaded is what is there.
LoadInv ==
    \A r \in Runners :
        /\ runner[r].step = "update"
        /\ dataPoints[Adapter(r)] # << >> /\ LastOf(dataPoints[Adapter(r)]).runner = r
        => runner[r].document = dataPoints[Adapter(r)]

LitInv == LitTypeOK /\ OrderInv /\ OutputInv /\ TurnInv /\ LoadInv

-----------------------------------------------------------------------------
LEMMA ListsAreSequences ==
    ASSUME NEW list \in AdapterLists
    PROVE  /\ list \in Seq(Adapters) /\ Len(list) \in Nat /\ DOMAIN list = 1 .. Len(list)
           /\ \A i \in DOMAIN list : list[i] \in Adapters
<1>1. Cardinality(Adapters) \in Nat
  BY LitAssumption, FS_CardinalityType
<1>2. PICK n \in 0 .. Cardinality(Adapters) : list \in [1 .. n -> Adapters]
  BY DEF AdapterLists
<1>3. n \in Nat
  BY <1>1, <1>2
<1>4. list \in Seq(Adapters)
  BY <1>2, <1>3
<1> QED
  BY <1>4

LEMMA EmptyIsList == << >> \in AdapterLists
<1>1. Cardinality(Adapters) \in Nat
  BY LitAssumption, FS_CardinalityType
<1>2. 0 \in 0 .. Cardinality(Adapters)
  BY <1>1
<1>3. << >> \in [1 .. 0 -> Adapters] /\ IsInjective(<< >>)
  BY DEF IsInjective
<1> QED
  BY <1>2, <1>3 DEF AdapterLists

\* An output that is newer than those of its runner is appended.
LEMMA AppendedOutput ==
    ASSUME NEW list \in Seq(DataPoint), NEW r \in Runners, NEW moment \in Nat, NEW now \in Nat,
           Ordered(list), UpTo(list, now), Before(list, r, moment), moment <= now
    PROVE  LET longer == Append(list, [runner |-> r, timestamp |-> moment]) IN
           /\ longer \in Seq(DataPoint) /\ longer # << >>
           /\ LastOf(longer) = [runner |-> r, timestamp |-> moment]
           /\ Ordered(longer) /\ UpTo(longer, now)
           /\ \A q \in Runners, m \in Nat : q # r /\ Before(list, q, m) => Before(longer, q, m)
<1> DEFINE point == [runner |-> r, timestamp |-> moment]
           longer == Append(list, point)
           n == Len(list)
<1>1. point \in DataPoint
  BY DEF DataPoint
<1>2. /\ n \in Nat /\ longer \in Seq(DataPoint) /\ Len(longer) = n + 1
      /\ DOMAIN list = 1 .. n /\ DOMAIN longer = 1 .. n + 1
      /\ \A i \in 1 .. n : longer[i] = list[i]
      /\ longer[n + 1] = point
  BY <1>1
<1>3. \A i \in 1 .. n : list[i] \in DataPoint
  BY <1>2
<1>4. \A i \in 1 .. n + 1 : i \in 1 .. n \/ i = n + 1
  BY <1>2
<1>5. longer # << >> /\ LastOf(longer) = point
  BY <1>2 DEF LastOf
<1> HIDE DEF longer, n
<1>6. Ordered(longer)
  <2> SUFFICES ASSUME NEW i \in 1 .. n + 1, NEW k \in 1 .. n + 1,
                      i < k, longer[i].runner = longer[k].runner
               PROVE  longer[i].timestamp < longer[k].timestamp
    BY <1>2 DEF Ordered
  <2>1. i \in 1 .. n
    BY <1>2
  <2>2. CASE k \in 1 .. n
    BY <2>1, <2>2, <1>2 DEF Ordered
  <2>3. CASE k = n + 1
    BY <2>1, <2>3, <1>2 DEF Before
  <2> QED
    BY <1>4, <2>2, <2>3
<1>7. UpTo(longer, now)
  BY <1>2, <1>4 DEF UpTo
<1>8. \A q \in Runners, m \in Nat : q # r /\ Before(list, q, m) => Before(longer, q, m)
  BY <1>2, <1>4 DEF Before
<1> QED
  BY <1>2, <1>5, <1>6, <1>7, <1>8 DEF longer

LEMMA Retries ==
    /\ 0 \in 0 .. MaxRetries
    /\ \A n \in 0 .. MaxRetries : n < MaxRetries => n + 1 \in 0 .. MaxRetries
BY LitAssumption

LEMMA NothingToOrder ==
    /\ Ordered(<< >>)
    /\ \A m \in Nat : UpTo(<< >>, m) /\ \A r \in Runners : Before(<< >>, r, m)
BY DEF Ordered, UpTo, Before

\* The adapter that is run.
LEMMA AdapterOfTurn ==
    ASSUME LitTypeOK, TurnInv, NEW r \in Runners, runner[r].step \in WithAdapter
    PROVE  /\ Adapter(r) \in Adapters
           /\ runner[r].at \in 1 .. Len(runner[r].adapters)
           /\ Len(runner[r].adapters) \in Nat
<1>1. runner[r].adapters \in AdapterLists
  BY DEF LitTypeOK, RunnerState
<1> QED
  BY <1>1, ListsAreSequences DEF TurnInv, TurnOf, Adapter

-----------------------------------------------------------------------------
\* A step of one runner that writes nothing and ends without an output in hand.
LEMMA QuietStep ==
    ASSUME LitInv, NEW r \in Runners, NEW state \in RunnerState,
           state.step \notin WithOutput,
           runner' = [runner EXCEPT ![r] = state],
           dataPoints' = dataPoints, clock' = clock, turns' \in 0 .. MaxTurns,
           TurnOf(r)'
    PROVE  LitInv'
<1>1. /\ runner' \in [Runners -> RunnerState]
      /\ runner'[r] = state /\ \A s \in Runners \ {r} : runner'[s] = runner[s]
  BY DEF LitInv, LitTypeOK
<1>2. state.document = << >>
  BY <1>1 DEF TurnOf, WithOutput
<1>3. clock \in Nat /\ \A s \in Runners : runner[s].output \in Nat
  BY DEF LitInv, LitTypeOK, RunnerState
<1>4. LitTypeOK'
  BY <1>1 DEF LitInv, LitTypeOK
<1>5. OrderInv'
  BY <1>1, <1>2, <1>3, NothingToOrder DEF LitInv, OrderInv
<1>6. OutputInv'
  BY <1>1, <1>2, <1>3, NothingToOrder DEF LitInv, OutputInv
<1>7. TurnInv'
  <2> SUFFICES ASSUME NEW s \in Runners, s # r
               PROVE  TurnOf(s)'
    BY DEF TurnInv
  <2> QED
    BY <1>1 DEF LitInv, TurnInv, TurnOf, Stored
<1>8. LoadInv'
  <2> SUFFICES ASSUME NEW s \in Runners, runner'[s].step = "update",
                      dataPoints'[Adapter(s)'] # << >>,
                      LastOf(dataPoints'[Adapter(s)']).runner = s
               PROVE  runner'[s].document = dataPoints'[Adapter(s)']
    BY DEF LoadInv
  <2>1. s # r
    BY <1>1 DEF WithOutput
  <2> QED
    BY <1>1, <2>1 DEF LitInv, LoadInv, Adapter
<1> QED
  BY <1>4, <1>5, <1>6, <1>7, <1>8 DEF LitInv

\* What a document gains by an update of r.
LEMMA UpdatedDocument ==
    ASSUME LitInv, NEW r \in Runners, runner[r].step = "update",
           dataPoints' = [dataPoints EXCEPT ![Adapter(r)] = NewContent(r)]
    PROVE  LET new == dataPoints'[Adapter(r)] IN
           /\ Adapter(r) \in Adapters
           /\ dataPoints' \in [Adapters -> Seq(DataPoint)]
           /\ \A a \in Adapters \ {Adapter(r)} : dataPoints'[a] = dataPoints[a]
           /\ new = NewContent(r) /\ new # << >>
           /\ LastOf(new) = [runner |-> r, timestamp |-> runner[r].output]
           /\ Ordered(new) /\ UpTo(new, clock)
           /\ \A q \in Runners, m \in Nat :
                q # r /\ Before(runner[r].document, q, m) => Before(new, q, m)
<1>1. Adapter(r) \in Adapters
  BY AdapterOfTurn DEF LitInv, WithAdapter, WithOutput
<1>2. /\ runner[r].document \in Seq(DataPoint) /\ runner[r].output \in Nat /\ clock \in Nat
      /\ dataPoints \in [Adapters -> Seq(DataPoint)]
  BY DEF LitInv, LitTypeOK, RunnerState
<1>3. /\ Ordered(runner[r].document) /\ UpTo(runner[r].document, clock)
      /\ Before(runner[r].document, r, runner[r].output)
      /\ runner[r].output <= clock
  BY DEF LitInv, OrderInv, OutputInv, WithOutput
<1>4. /\ NewContent(r) \in Seq(DataPoint) /\ NewContent(r) # << >>
      /\ LastOf(NewContent(r)) = [runner |-> r, timestamp |-> runner[r].output]
      /\ Ordered(NewContent(r)) /\ UpTo(NewContent(r), clock)
      /\ \A q \in Runners, m \in Nat :
           q # r /\ Before(runner[r].document, q, m) => Before(NewContent(r), q, m)
  BY <1>2, <1>3, AppendedOutput DEF NewContent
<1>5. /\ dataPoints' \in [Adapters -> Seq(DataPoint)]
      /\ dataPoints'[Adapter(r)] = NewContent(r)
      /\ \A a \in Adapters \ {Adapter(r)} : dataPoints'[a] = dataPoints[a]
  BY <1>1, <1>2, <1>4
<1> QED
  BY <1>1, <1>4, <1>5

\* It counts for the turn of r and takes nothing from the turns of the others.
LEMMA StoredByUpdate ==
    ASSUME LitInv, NEW r \in Runners, runner[r].step = "update",
           dataPoints' = [dataPoints EXCEPT ![Adapter(r)] = NewContent(r)]
    PROVE  \A s \in Runners : runner'[s].since = runner[s].since =>
             \A a \in Adapters :
               Stored(s, a) \/ (s = r /\ a = Adapter(r)) => Stored(s, a)'
<1> DEFINE a0 == Adapter(r)
<1>1. /\ a0 \in Adapters
      /\ \A a \in Adapters \ {a0} : dataPoints'[a] = dataPoints[a]
      /\ dataPoints'[a0] # << >>
      /\ LastOf(dataPoints'[a0]) = [runner |-> r, timestamp |-> runner[r].output]
  BY UpdatedDocument
<1>2. /\ runner[r].since < runner[r].output
      /\ runner[r].since \in Nat /\ runner[r].output \in Nat
  BY DEF LitInv, OutputInv, WithOutput, LitTypeOK, RunnerState
<1> HIDE DEF a0
<1>3. ASSUME NEW s \in Runners, runner'[s].since = runner[s].since
      PROVE  /\ dataPoints'[a0] # << >>
             /\ LastOf(dataPoints'[a0]).runner = s =>
                  LastOf(dataPoints'[a0]).timestamp > runner'[s].since
  BY <1>1, <1>2, <1>3
<1>4. ASSUME NEW s \in Runners, runner'[s].since = runner[s].since, NEW a \in Adapters,
             Stored(s, a) \/ a = a0
      PROVE  Stored(s, a)'
  <2>1. CASE a = a0
    BY <2>1, <1>3, <1>4 DEF Stored
  <2>2. CASE a # a0
    BY <2>2, <1>1, <1>4 DEF Stored
  <2> QED
    BY <2>1, <2>2
<1> QED
  BY <1>4 DEF a0

\* A step of one runner that updates its document and ends without an output in hand.
LEMMA UpdateStep ==
    ASSUME LitInv, NEW r \in Runners, NEW state \in RunnerState,
           runner[r].step = "update", state.step \notin WithOutput,
           runner' = [runner EXCEPT ![r] = state],
           dataPoints' = [dataPoints EXCEPT ![Adapter(r)] = NewContent(r)],
           clock' = clock, turns' = turns,
           TurnOf(r)'
    PROVE  LitInv'
<1> DEFINE a0 == Adapter(r)
           new == dataPoints'[a0]
<1>1. /\ a0 \in Adapters
      /\ dataPoints' \in [Adapters -> Seq(DataPoint)]
      /\ \A a \in Adapters \ {a0} : dataPoints'[a] = dataPoints[a]
      /\ LastOf(new) = [runner |-> r, timestamp |-> runner[r].output]
      /\ Ordered(new) /\ UpTo(new, clock)
      /\ \A q \in Runners, m \in Nat :
           q # r /\ Before(runner[r].document, q, m) => Before(new, q, m)
  BY UpdatedDocument
<1>2. /\ runner' \in [Runners -> RunnerState]
      /\ runner'[r] = state /\ \A s \in Runners \ {r} : runner'[s] = runner[s]
  BY DEF LitInv, LitTypeOK
<1>3. state.document = << >>
  BY <1>2 DEF TurnOf, WithOutput
<1>4. clock \in Nat /\ \A s \in Runners : runner[s].output \in Nat
  BY DEF LitInv, LitTypeOK, RunnerState
<1> HIDE DEF a0
<1>5. LitTypeOK'
  BY <1>1, <1>2 DEF LitInv, LitTypeOK
<1>6. OrderInv'
  <2>1. \A a \in Adapters : Ordered(dataPoints'[a]) /\ UpTo(dataPoints'[a], clock)
    BY <1>1 DEF LitInv, OrderInv
  <2>2. \A s \in Runners : Ordered(runner'[s].document) /\ UpTo(runner'[s].document, clock)
    BY <1>2, <1>3, <1>4, NothingToOrder DEF LitInv, OrderInv
  <2> QED
    BY <2>1, <2>2 DEF OrderInv
<1>7. OutputInv'
  <2> SUFFICES ASSUME NEW q \in Runners, runner'[q].step \in WithOutput
               PROVE  /\ runner'[q].since < runner'[q].output /\ runner'[q].output <= clock
                      /\ \A a \in Adapters : Before(dataPoints'[a], q, runner'[q].output)
                      /\ \A s \in Runners : Before(runner'[s].document, q, runner'[q].output)
    BY DEF OutputInv
  <2>1. q # r /\ runner'[q] = runner[q]
    BY <1>2
  <2>2. /\ runner[q].since < runner[q].output /\ runner[q].output <= clock
        /\ \A a \in Adapters : Before(dataPoints[a], q, runner[q].output)
        /\ \A s \in Runners : Before(runner[s].document, q, runner[q].output)
    BY <2>1 DEF LitInv, OutputInv
  <2>3. \A a \in Adapters : Before(dataPoints'[a], q, runner[q].output)
    BY <1>1, <1>4, <2>1, <2>2
  <2>4. \A s \in Runners : Before(runner'[s].document, q, runner[q].output)
    BY <1>2, <1>3, <1>4, <2>2, NothingToOrder
  <2> QED
    BY <2>1, <2>2, <2>3, <2>4
<1>8. TurnInv'
  <2> SUFFICES ASSUME NEW s \in Runners, s # r
               PROVE  TurnOf(s)'
    BY DEF TurnInv
  <2>1. runner'[s] = runner[s] /\ runner[s].adapters \in AdapterLists
    BY <1>2 DEF LitInv, LitTypeOK, RunnerState
  <2>2. \A i \in DOMAIN runner[s].adapters :
          /\ runner[s].adapters[i] \in Adapters
          /\ Stored(s, runner[s].adapters[i]) => Stored(s, runner[s].adapters[i])'
    <3> SUFFICES ASSUME NEW i \in DOMAIN runner[s].adapters
                 PROVE  /\ runner[s].adapters[i] \in Adapters
                        /\ Stored(s, runner[s].adapters[i]) => Stored(s, runner[s].adapters[i])'
      OBVIOUS
    <3>1. runner[s].adapters[i] \in Adapters
      BY <2>1, ListsAreSequences
    <3>2. ASSUME NEW a \in Adapters, Stored(s, a) PROVE Stored(s, a)'
      BY <3>2, <2>1, StoredByUpdate
    <3>3. runner'[s].adapters[i] = runner[s].adapters[i]
      BY <2>1
    <3> QED
      BY <3>1, <3>2, <3>3 DEF Stored
  <2> QED
    BY <2>1, <2>2 DEF LitInv, TurnInv, TurnOf
<1>9. LoadInv'
  <2> SUFFICES ASSUME NEW s \in Runners, runner'[s].step = "update",
                      dataPoints'[Adapter(s)'] # << >>,
                      LastOf(dataPoints'[Adapter(s)']).runner = s
               PROVE  runner'[s].document = dataPoints'[Adapter(s)']
    BY DEF LoadInv
  <2>1. s # r /\ runner'[s] = runner[s] /\ Adapter(s)' = Adapter(s)
    BY <1>2 DEF WithOutput, Adapter
  <2>2. Adapter(s) \in Adapters
    BY <2>1, AdapterOfTurn DEF LitInv, WithAdapter, WithOutput
  <2>3. Adapter(s) # a0
    BY <1>1, <2>1
  <2> QED
    BY <1>1, <2>1, <2>2, <2>3 DEF LitInv, LoadInv
<1> QED
  BY <1>5, <1>6, <1>7, <1>8, <1>9 DEF LitInv

-----------------------------------------------------------------------------
\* Where a turn is after an adapter, and after an attempt.
LEMMA AdvancedTurn ==
    ASSUME LitInv, NEW r \in Runners, runner[r].step = "update",
           runner' = [runner EXCEPT ![r] = Advanced(runner[r])],
           dataPoints' = [dataPoints EXCEPT ![Adapter(r)] = NewContent(r)],
           clock' = clock
    PROVE  /\ Advanced(runner[r]) \in RunnerState
           /\ Advanced(runner[r]).step \notin WithOutput
           /\ TurnOf(r)'
<1> DEFINE state == Advanced(runner[r])
<1>1. runner[r] \in RunnerState /\ runner[r].adapters \in AdapterLists
  BY DEF LitInv, LitTypeOK, RunnerState
<1>2. /\ runner[r].at \in 1 .. Len(runner[r].adapters)
      /\ Len(runner[r].adapters) \in Nat
      /\ DOMAIN runner[r].adapters = 1 .. Len(runner[r].adapters)
      /\ \A i \in DOMAIN runner[r].adapters : runner[r].adapters[i] \in Adapters
  BY <1>1, AdapterOfTurn, ListsAreSequences DEF LitInv, WithAdapter, WithOutput
<1>3. state \in RunnerState
  <2>1. << >> \in Seq(DataPoint) /\ runner[r].at + 1 \in Nat
    BY <1>2
  <2>2. CASE runner[r].at < Len(runner[r].adapters)
    BY <1>1, <2>1, <2>2, Retries DEF Advanced, RunnerState
  <2>3. CASE ~(runner[r].at < Len(runner[r].adapters))
    BY <1>1, <2>1, <2>3, Retries DEF Advanced, RunnerState
  <2> QED
    BY <2>2, <2>3
<1>4. /\ state.adapters = runner[r].adapters /\ state.since = runner[r].since
      /\ state.document = << >>
      /\ \/ runner[r].at < Len(runner[r].adapters) /\ state.step = "executeJs"
            /\ state.at = runner[r].at + 1
         \/ runner[r].at = Len(runner[r].adapters) /\ state.step = "sleep"
  BY <1>1, <1>2 DEF Advanced, RunnerState
<1>5. runner'[r] = state
  BY DEF LitInv, LitTypeOK
<1> HIDE DEF state
<1>6. ASSUME NEW i \in DOMAIN runner[r].adapters, i <= runner[r].at
      PROVE  Stored(r, runner[r].adapters[i])'
  <2>1. runner[r].adapters[i] \in Adapters
    BY <1>2
  <2>2. Stored(r, runner[r].adapters[i]) \/ runner[r].adapters[i] = Adapter(r)
    <3>1. i < runner[r].at \/ i = runner[r].at
      BY <1>2, <1>6
    <3> QED
      BY <3>1 DEF LitInv, TurnInv, TurnOf, WithAdapter, WithOutput, Adapter
  <2>3. ASSUME NEW a \in Adapters, Stored(r, a) \/ a = Adapter(r)
        PROVE  Stored(r, a)'
    BY <2>3, <1>4, <1>5, StoredByUpdate
  <2>4. runner'[r].adapters[i] = runner[r].adapters[i]
    BY <1>4, <1>5
  <2> QED
    BY <2>1, <2>2, <2>3, <2>4 DEF Stored
<1>7. runner[r].since <= clock
  BY DEF LitInv, TurnInv, TurnOf
<1>8. /\ runner'[r].adapters = runner[r].adapters /\ runner'[r].since = runner[r].since
      /\ runner'[r].document = << >> /\ runner'[r].step = state.step /\ runner'[r].at = state.at
  BY <1>4, <1>5
<1>9. TurnOf(r)'
  <2>1. CASE state.step = "executeJs"
    <3>1. /\ runner'[r].at \in DOMAIN runner'[r].adapters
          /\ \A i \in DOMAIN runner[r].adapters : i < runner'[r].at => i <= runner[r].at
      BY <1>2, <1>4, <1>8, <2>1
    <3> QED
      BY <1>6, <1>7, <1>8, <2>1, <3>1 DEF TurnOf, WithAdapter, WithOutput
  <2>2. CASE state.step = "sleep"
    <3>1. \A i \in DOMAIN runner[r].adapters : i <= runner[r].at
      BY <1>2, <1>4, <2>2
    <3> QED
      BY <1>6, <1>7, <1>8, <2>2, <3>1 DEF TurnOf, WithAdapter, WithOutput
  <2> QED
    BY <1>4, <2>1, <2>2
<1> QED
  BY <1>3, <1>4, <1>9 DEF WithOutput, state

LEMMA FailedTurn ==
    ASSUME LitInv, NEW r \in Runners,
           runner[r].step \in {"authenticate", "executeJs", "load", "update"},
           runner' = [runner EXCEPT ![r] = AfterFailure(runner[r])],
           clock' = clock,
           \A a \in Adapters : Stored(r, a) => Stored(r, a)'
    PROVE  /\ AfterFailure(runner[r]) \in RunnerState
           /\ AfterFailure(runner[r]).step \notin WithOutput
           /\ TurnOf(r)'
<1> DEFINE state == AfterFailure(runner[r])
<1>1. runner[r] \in RunnerState /\ runner[r].adapters \in AdapterLists
  BY DEF LitInv, LitTypeOK, RunnerState
<1>2. state \in RunnerState
  <2>1. << >> \in Seq(DataPoint)
    OBVIOUS
  <2>2. CASE runner[r].retries < MaxRetries
    BY <1>1, <2>1, <2>2, Retries DEF AfterFailure, RunnerState
  <2>3. CASE ~(runner[r].retries < MaxRetries)
    BY <1>1, <2>1, <2>3 DEF AfterFailure, RunnerState
  <2> QED
    BY <2>2, <2>3
<1>3. /\ state.adapters = runner[r].adapters /\ state.since = runner[r].since
      /\ state.at = runner[r].at /\ state.document = << >>
      /\ \/ state.step = "ended"
         \/ runner[r].step = "authenticate" /\ state.step = "authenticate"
         \/ runner[r].step \in WithAdapter /\ state.step = "executeJs"
  BY <1>1 DEF AfterFailure, RunnerState, WithAdapter, WithOutput
<1>4. runner'[r] = state
  BY DEF LitInv, LitTypeOK
<1> HIDE DEF state
<1>5. ASSUME NEW i \in DOMAIN runner[r].adapters, Stored(r, runner[r].adapters[i])
      PROVE  Stored(r, runner[r].adapters[i])'
  <2>1. runner[r].adapters[i] \in Adapters
    BY <1>1, ListsAreSequences
  <2>2. ASSUME NEW a \in Adapters, Stored(r, a) PROVE Stored(r, a)'
    BY <2>2
  <2>3. runner'[r].adapters[i] = runner[r].adapters[i]
    BY <1>3, <1>4
  <2> QED
    BY <1>5, <2>1, <2>2, <2>3 DEF Stored
<1>6. TurnOf(r)
  BY DEF LitInv, TurnInv
<1>7. TurnOf(r)'
  BY <1>3, <1>4, <1>5, <1>6 DEF TurnOf, WithAdapter, WithOutput
<1> QED
  BY <1>2, <1>3, <1>7 DEF WithOutput, state

-----------------------------------------------------------------------------
LEMMA BeginTurnInv ==
    ASSUME LitInv, NEW r \in Runners, BeginTurn(r)
    PROVE  LitInv'
<1>1. NewTurn \in RunnerState /\ NewTurn.step \notin WithOutput
  BY EmptyIsList, LitAssumption DEF NewTurn, RunnerState, WithOutput
<1>2. /\ runner' = [runner EXCEPT ![r] = NewTurn]
      /\ dataPoints' = dataPoints /\ clock' = clock
      /\ turns' \in 0 .. MaxTurns
  BY LitAssumption DEF BeginTurn, LitInv, LitTypeOK
<1>3. runner'[r] = NewTurn /\ clock \in Nat
  BY <1>2 DEF LitInv, LitTypeOK
<1>4. TurnOf(r)'
  BY <1>2, <1>3 DEF TurnOf, NewTurn, WithAdapter, WithOutput
<1> QED
  BY <1>1, <1>2, <1>4, QuietStep

LEMMA AuthenticateInv ==
    ASSUME LitInv, NEW r \in Runners, Authenticate(r)
    PROVE  LitInv'
<1> DEFINE state == [runner[r] EXCEPT !.step = "getProposals", !.retries = 0]
<1>1. runner[r] \in RunnerState /\ runner[r].step = "authenticate" /\ turns \in 0 .. MaxTurns
  BY DEF LitInv, LitTypeOK, Authenticate
<1>2. state \in RunnerState /\ state.step \notin WithOutput
  BY <1>1, Retries DEF RunnerState, WithOutput
<1>3. /\ runner' = [runner EXCEPT ![r] = state]
      /\ dataPoints' = dataPoints /\ clock' = clock /\ turns' = turns
  BY DEF Authenticate
<1>4. runner'[r] = state
  BY <1>3 DEF LitInv, LitTypeOK
<1>5. TurnOf(r)
  BY DEF LitInv, TurnInv
<1>6. TurnOf(r)'
  BY <1>1, <1>3, <1>4, <1>5 DEF TurnOf, WithAdapter, WithOutput, RunnerState
<1> HIDE DEF state
<1> QED
  BY <1>1, <1>2, <1>3, <1>6, QuietStep

LEMMA GetProposalsInv ==
    ASSUME LitInv, NEW r \in Runners, GetProposals(r)
    PROVE  LitInv'
<1>1. PICK list \in AdapterLists :
        runner' = [runner EXCEPT ![r].adapters = list, ![r].since = clock,
                                 ![r].step = IF list = << >> THEN "sleep" ELSE "executeJs"]
  BY DEF GetProposals
<1> DEFINE state == [runner[r] EXCEPT !.adapters = list, !.since = clock,
                                      !.step = IF list = << >> THEN "sleep" ELSE "executeJs"]
<1>2. runner[r] \in RunnerState /\ runner[r].step = "getProposals" /\ clock \in Nat
      /\ turns \in 0 .. MaxTurns
  BY DEF LitInv, LitTypeOK, GetProposals
<1>3. state \in RunnerState /\ state.step \notin WithOutput
  BY <1>2 DEF RunnerState, WithOutput
<1>4. /\ runner' = [runner EXCEPT ![r] = state] /\ runner'[r] = state
      /\ dataPoints' = dataPoints /\ clock' = clock /\ turns' = turns
  BY <1>1 DEF GetProposals, LitInv, LitTypeOK
<1>5. TurnOf(r)
  BY DEF LitInv, TurnInv
<1>6. /\ state.adapters = list /\ state.since = clock /\ state.at = 1
      /\ state.document = << >>
      /\ state.step = IF list = << >> THEN "sleep" ELSE "executeJs"
  BY <1>2, <1>5 DEF TurnOf, RunnerState
<1>7. DOMAIN list = 1 .. Len(list) /\ Len(list) \in Nat /\ list \in Seq(Adapters)
  BY ListsAreSequences
<1>8. list # << >> => 1 \in DOMAIN list
  BY <1>7
<1>9. list = << >> => DOMAIN list = {}
  BY <1>7
<1> HIDE DEF state
<1>10. TurnOf(r)'
  BY <1>2, <1>4, <1>6, <1>7, <1>8, <1>9 DEF TurnOf, WithAdapter, WithOutput
<1> QED
  BY <1>2, <1>3, <1>4, <1>10, QuietStep

LEMMA GetProposalsFailsInv ==
    ASSUME LitInv, NEW r \in Runners, GetProposalsFails(r)
    PROVE  LitInv'
<1> DEFINE state == [runner[r] EXCEPT !.step = "ended"]
<1>1. runner[r] \in RunnerState /\ runner[r].step = "getProposals" /\ turns \in 0 .. MaxTurns
  BY DEF LitInv, LitTypeOK, GetProposalsFails
<1>2. state \in RunnerState /\ state.step \notin WithOutput
  BY <1>1 DEF RunnerState, WithOutput
<1>3. /\ runner' = [runner EXCEPT ![r] = state] /\ runner'[r] = state
      /\ dataPoints' = dataPoints /\ clock' = clock /\ turns' = turns
  BY DEF GetProposalsFails, LitInv, LitTypeOK
<1>4. TurnOf(r)
  BY DEF LitInv, TurnInv
<1>5. TurnOf(r)'
  BY <1>1, <1>3, <1>4 DEF TurnOf, WithAdapter, WithOutput, RunnerState
<1> HIDE DEF state
<1> QED
  BY <1>1, <1>2, <1>3, <1>5, QuietStep

\* The moment is later than those of all outputs so far.
LEMMA ExecuteJsInv ==
    ASSUME LitInv, NEW r \in Runners, ExecuteJs(r)
    PROVE  LitInv'
<1> DEFINE state == [runner[r] EXCEPT !.output = clock + 1, !.step = "load"]
<1>1. runner[r] \in RunnerState /\ runner[r].step = "executeJs" /\ clock \in Nat
  BY DEF LitInv, LitTypeOK, ExecuteJs
<1>2. state \in RunnerState
  <2>1. clock + 1 \in Nat
    BY <1>1
  <2> QED
    BY <1>1, <2>1 DEF RunnerState
<1>3. /\ runner' = [runner EXCEPT ![r] = state]
      /\ dataPoints' = dataPoints /\ clock' = clock + 1 /\ turns' = turns
  BY DEF ExecuteJs
<1>4. /\ runner' \in [Runners -> RunnerState]
      /\ \A s \in Runners \ {r} : runner'[s] = runner[s]
      /\ runner'[r].adapters = runner[r].adapters /\ runner'[r].since = runner[r].since
      /\ runner'[r].document = runner[r].document /\ runner'[r].step = "load"
      /\ runner'[r].at = runner[r].at /\ runner'[r].output = clock + 1
  BY <1>1, <1>2, <1>3 DEF LitInv, LitTypeOK, RunnerState
<1> HIDE DEF state
<1>5. TurnOf(r) /\ runner[r].document = << >>
  BY <1>1 DEF LitInv, TurnInv, TurnOf
<1>6. LitTypeOK'
  BY <1>1, <1>3, <1>4 DEF LitInv, LitTypeOK
<1>7. ASSUME NEW list \in Seq(DataPoint), UpTo(list, clock)
      PROVE  UpTo(list, clock + 1) /\ \A q \in Runners : Before(list, q, clock + 1)
  <2>1. \A i \in DOMAIN list : list[i] \in DataPoint /\ list[i].timestamp <= clock
    BY <1>7 DEF UpTo
  <2> QED
    BY <1>1, <2>1 DEF UpTo, Before, DataPoint
<1>8. /\ \A a \in Adapters : dataPoints[a] \in Seq(DataPoint) /\ UpTo(dataPoints[a], clock)
      /\ \A s \in Runners : runner[s].document \in Seq(DataPoint) /\ UpTo(runner[s].document, clock)
      /\ \A s \in Runners : runner'[s].document = runner[s].document
  BY <1>4 DEF LitInv, LitTypeOK, OrderInv, RunnerState
<1>9. OrderInv'
  BY <1>3, <1>7, <1>8 DEF LitInv, OrderInv
<1>10. OutputInv'
  <2> SUFFICES ASSUME NEW q \in Runners, runner'[q].step \in WithOutput
               PROVE  /\ runner'[q].since < runner'[q].output /\ runner'[q].output <= clock'
                      /\ \A a \in Adapters : Before(dataPoints[a], q, runner'[q].output)
                      /\ \A s \in Runners : Before(runner[s].document, q, runner'[q].output)
    BY <1>3, <1>8 DEF OutputInv
  <2>1. CASE q = r
    <3>1. runner[r].since \in Nat /\ runner[r].since <= clock
      BY <1>1, <1>5 DEF TurnOf, RunnerState
    <3> QED
      BY <1>1, <1>3, <1>4, <1>7, <1>8, <2>1, <3>1
  <2>2. CASE q # r
    <3>1. runner'[q] = runner[q] /\ runner[q].output \in Nat
      BY <1>4, <2>2 DEF LitInv, LitTypeOK, RunnerState
    <3>2. /\ runner[q].since < runner[q].output /\ runner[q].output <= clock
          /\ \A a \in Adapters : Before(dataPoints[a], q, runner[q].output)
          /\ \A s \in Runners : Before(runner[s].document, q, runner[q].output)
      BY <3>1 DEF LitInv, OutputInv
    <3> QED
      BY <1>1, <1>3, <3>1, <3>2
  <2> QED
    BY <2>1, <2>2
<1>11. TurnInv'
  <2> SUFFICES ASSUME NEW s \in Runners
               PROVE  TurnOf(s)'
    BY DEF TurnInv
  <2>1. runner[s].since \in Nat /\ runner[s].since <= clock'
    BY <1>1, <1>3 DEF LitInv, TurnInv, TurnOf, LitTypeOK, RunnerState
  <2>2. CASE s = r
    BY <1>1, <1>3, <1>4, <1>5, <2>1, <2>2 DEF TurnOf, Stored, WithAdapter, WithOutput
  <2>3. CASE s # r
    BY <1>3, <1>4, <2>1, <2>3 DEF LitInv, TurnInv, TurnOf, Stored
  <2> QED
    BY <2>2, <2>3
<1>12. LoadInv'
  <2> SUFFICES ASSUME NEW s \in Runners, runner'[s].step = "update",
                      dataPoints'[Adapter(s)'] # << >>,
                      LastOf(dataPoints'[Adapter(s)']).runner = s
               PROVE  runner'[s].document = dataPoints'[Adapter(s)']
    BY DEF LoadInv
  <2>1. s # r
    BY <1>4
  <2> QED
    BY <1>3, <1>4, <2>1 DEF LitInv, LoadInv, Adapter
<1> QED
  BY <1>6, <1>9, <1>10, <1>11, <1>12 DEF LitInv

LEMMA LoadDocumentInv ==
    ASSUME LitInv, NEW r \in Runners, LoadDocument(r)
    PROVE  LitInv'
<1> DEFINE loaded == dataPoints[Adapter(r)]
           state == [runner[r] EXCEPT !.document = loaded, !.step = "update"]
<1>1. runner[r] \in RunnerState /\ runner[r].step = "load"
  BY DEF LitInv, LitTypeOK, LoadDocument
<1>2. Adapter(r) \in Adapters /\ loaded \in Seq(DataPoint)
  BY <1>1, AdapterOfTurn DEF LitInv, LitTypeOK, WithAdapter, WithOutput
<1> HIDE DEF loaded
<1>3. state \in RunnerState
  BY <1>1, <1>2 DEF RunnerState
<1>4. /\ runner' = [runner EXCEPT ![r] = state]
      /\ dataPoints' = dataPoints /\ clock' = clock /\ turns' = turns
  BY DEF LoadDocument, loaded
<1>5. /\ runner' \in [Runners -> RunnerState]
      /\ \A s \in Runners \ {r} : runner'[s] = runner[s]
      /\ runner'[r].adapters = runner[r].adapters /\ runner'[r].since = runner[r].since
      /\ runner'[r].document = loaded /\ runner'[r].step = "update"
      /\ runner'[r].at = runner[r].at /\ runner'[r].output = runner[r].output
  BY <1>1, <1>3, <1>4 DEF LitInv, LitTypeOK, RunnerState
<1> HIDE DEF state
<1>6. LitTypeOK'
  BY <1>4, <1>5 DEF LitInv, LitTypeOK
<1>7. OrderInv'
  BY <1>2, <1>4, <1>5 DEF LitInv, OrderInv, loaded
<1>8. OutputInv'
  <2> SUFFICES ASSUME NEW q \in Runners, runner'[q].step \in WithOutput
               PROVE  /\ runner'[q].since < runner'[q].output /\ runner'[q].output <= clock
                      /\ \A a \in Adapters : Before(dataPoints[a], q, runner'[q].output)
                      /\ \A s \in Runners : Before(runner'[s].document, q, runner'[q].output)
    BY <1>4 DEF OutputInv
  <2>1. /\ runner[q].step \in WithOutput
        /\ runner'[q].since = runner[q].since /\ runner'[q].output = runner[q].output
    BY <1>1, <1>5 DEF WithOutput
  <2>2. /\ runner[q].since < runner[q].output /\ runner[q].output <= clock
        /\ \A a \in Adapters : Before(dataPoints[a], q, runner[q].output)
        /\ \A s \in Runners : Before(runner[s].document, q, runner[q].output)
    BY <2>1 DEF LitInv, OutputInv
  <2>3. \A s \in Runners : Before(runner'[s].document, q, runner[q].output)
    BY <1>2, <1>5, <2>2 DEF loaded
  <2> QED
    BY <2>1, <2>2, <2>3
<1>9. TurnInv'
  <2> SUFFICES ASSUME NEW s \in Runners
               PROVE  TurnOf(s)'
    BY DEF TurnInv
  <2>1. TurnOf(s)
    BY DEF LitInv, TurnInv
  <2>2. CASE s = r
    BY <1>1, <1>4, <1>5, <2>1, <2>2 DEF TurnOf, Stored, WithAdapter, WithOutput
  <2>3. CASE s # r
    BY <1>4, <1>5, <2>1, <2>3 DEF TurnOf, Stored
  <2> QED
    BY <2>2, <2>3
<1>10. LoadInv'
  <2> SUFFICES ASSUME NEW s \in Runners, runner'[s].step = "update",
                      dataPoints'[Adapter(s)'] # << >>,
                      LastOf(dataPoints'[Adapter(s)']).runner = s
               PROVE  runner'[s].document = dataPoints'[Adapter(s)']
    BY DEF LoadInv
  <2>1. CASE s = r
    BY <1>4, <1>5, <2>1 DEF Adapter, loaded
  <2>2. CASE s # r
    BY <1>4, <1>5, <2>2 DEF LitInv, LoadInv, Adapter
  <2> QED
    BY <2>1, <2>2
<1> QED
  BY <1>6, <1>7, <1>8, <1>9, <1>10 DEF LitInv

LEMMA UpdateDocumentInv ==
    ASSUME LitInv, NEW r \in Runners, UpdateDocument(r)
    PROVE  LitInv'
<1>1. /\ runner[r].step = "update"
      /\ runner' = [runner EXCEPT ![r] = Advanced(runner[r])]
      /\ dataPoints' = [dataPoints EXCEPT ![Adapter(r)] = NewContent(r)]
      /\ clock' = clock /\ turns' = turns
  BY DEF UpdateDocument
<1>2. /\ Advanced(runner[r]) \in RunnerState
      /\ Advanced(runner[r]).step \notin WithOutput
      /\ TurnOf(r)'
  BY <1>1, AdvancedTurn
<1> QED
  BY <1>1, <1>2, UpdateStep

LEMMA AttemptFailsInv ==
    ASSUME LitInv, NEW r \in Runners, AttemptFails(r)
    PROVE  LitInv'
<1>1. /\ runner[r].step \in {"authenticate", "executeJs", "load", "update"}
      /\ runner' = [runner EXCEPT ![r] = AfterFailure(runner[r])]
      /\ clock' = clock /\ turns' = turns
      /\ turns \in 0 .. MaxTurns
      /\ runner[r] \in RunnerState
  BY DEF AttemptFails, LitInv, LitTypeOK
<1>2. runner'[r].since = runner[r].since
  BY <1>1 DEF LitInv, LitTypeOK, AfterFailure, RunnerState
<1>3. CASE dataPoints' = dataPoints
  <2>1. \A a \in Adapters : Stored(r, a) => Stored(r, a)'
    BY <1>2, <1>3 DEF Stored
  <2>2. /\ AfterFailure(runner[r]) \in RunnerState
        /\ AfterFailure(runner[r]).step \notin WithOutput
        /\ TurnOf(r)'
    BY <1>1, <2>1, FailedTurn
  <2> QED
    BY <1>1, <1>3, <2>2, QuietStep
<1>4. CASE /\ runner[r].step = "update"
           /\ dataPoints' = [dataPoints EXCEPT ![Adapter(r)] = NewContent(r)]
  <2>1. \A a \in Adapters : Stored(r, a) => Stored(r, a)'
    BY <1>2, <1>4, StoredByUpdate
  <2>2. /\ AfterFailure(runner[r]) \in RunnerState
        /\ AfterFailure(runner[r]).step \notin WithOutput
        /\ TurnOf(r)'
    BY <1>1, <2>1, FailedTurn
  <2> QED
    BY <1>1, <1>4, <2>2, UpdateStep
<1> QED
  BY <1>3, <1>4 DEF AttemptFails

-----------------------------------------------------------------------------
LEMMA LitInit ==
    ASSUME Init
    PROVE  LitInv
<1> DEFINE state == [NewTurn EXCEPT !.step = "sleep"]
<1>1. state \in RunnerState
  <2>1. << >> \in Seq(DataPoint)
    OBVIOUS
  <2> QED
    BY <2>1, EmptyIsList, Retries DEF NewTurn, RunnerState
<1>2. /\ state.step = "sleep" /\ state.adapters = << >> /\ state.document = << >>
      /\ state.since = 0
  BY DEF NewTurn
<1>3. /\ runner = [r \in Runners |-> state]
      /\ dataPoints = [a \in Adapters |-> << >>] /\ clock = 0 /\ turns = 0
  BY DEF Init
<1> HIDE DEF state
<1>4. << >> \in Seq(DataPoint) /\ turns \in 0 .. MaxTurns /\ clock \in Nat
  BY <1>3, LitAssumption
<1>5. LitTypeOK
  BY <1>1, <1>3, <1>4 DEF LitTypeOK
<1>6. OrderInv
  BY <1>2, <1>3, <1>4, NothingToOrder DEF OrderInv
<1>7. OutputInv /\ LoadInv
  BY <1>2, <1>3 DEF OutputInv, LoadInv, WithOutput
<1>8. TurnInv
  <2> SUFFICES ASSUME NEW r \in Runners
               PROVE  TurnOf(r)
    BY DEF TurnInv
  <2>1. /\ runner[r].step = "sleep" /\ runner[r].document = << >>
        /\ runner[r].since = 0 /\ DOMAIN runner[r].adapters = {}
    BY <1>2, <1>3
  <2> QED
    BY <1>3, <2>1 DEF TurnOf, WithAdapter, WithOutput
<1> QED
  BY <1>5, <1>6, <1>7, <1>8 DEF LitInv

LEMMA LitStep ==
    ASSUME LitInv, [Next]_litVars
    PROVE  LitInv'
<1>1. ASSUME NEW r \in Runners, BeginTurn(r) \/ RunnerStep(r)
      PROVE  LitInv'
  BY <1>1, BeginTurnInv, AuthenticateInv, GetProposalsInv, ExecuteJsInv, LoadDocumentInv,
     UpdateDocumentInv, AttemptFailsInv, GetProposalsFailsInv DEF RunnerStep
<1>2. CASE UNCHANGED litVars
  BY <1>2 DEF litVars, LitInv, LitTypeOK, OrderInv, OutputInv, TurnInv, TurnOf, LoadInv,
              Stored, Adapter
<1> QED
  BY <1>1, <1>2 DEF Next

\* The inductive invariant of the runners and their documents.
THEOREM LitInductive == Spec => []LitInv
<1>1. Init => LitInv
  BY LitInit
<1>2. LitInv /\ [Next]_litVars => LitInv'
  BY LitStep
<1> QED
  BY <1>1, <1>2, PTL DEF Spec

\* The local variables of every runner and the documents have their types.
THEOREM LitTypes == Spec => []LitTypeOK
<1>1. LitInv => LitTypeOK
  BY DEF LitInv
<1> QED
  BY <1>1, LitInductive, PTL

\* The outputs of a runner are in every document in the order of their moments and
\* once each, with any number of runners writing the document and repeating updates.
THEOREM OutputsInOrder == Spec => []OwnOutputsInOrder
<1>1. LitInv => OwnOutputsInOrder
  BY DEF LitInv, OrderInv, Ordered, OwnOutputsInOrder
<1> QED
  BY <1>1, LitInductive, PTL

\* A turn that came to its end has stored an output of each of its adapters.
THEOREM EndedTurnsComplete == Spec => []TurnsAreComplete
<1>1. LitInv => TurnsAreComplete
  BY DEF LitInv, TurnInv, TurnOf, TurnsAreComplete, Range
<1> QED
  BY <1>1, LitInductive, PTL

\* Only an update writes, and it adds to what its runner has loaded.
LEMMA UpdatesAdd ==
    ASSUME LitInv, Next, NEW a \in Adapters, dataPoints'[a] # dataPoints[a],
           dataPoints[a] # << >>, LastOf(dataPoints[a]).runner = LastOf(dataPoints'[a]).runner
    PROVE  dataPoints'[a] = Append(dataPoints[a], LastOf(dataPoints'[a]))
<1>1. PICK r \in Runners :
        /\ runner[r].step = "update"
        /\ dataPoints' = [dataPoints EXCEPT ![Adapter(r)] = NewContent(r)]
  BY DEF Next, BeginTurn, RunnerStep, Authenticate, GetProposals, ExecuteJs, LoadDocument,
         UpdateDocument, AttemptFails, GetProposalsFails
<1>2. /\ Adapter(r) \in Adapters
      /\ \A b \in Adapters \ {Adapter(r)} : dataPoints'[b] = dataPoints[b]
      /\ dataPoints'[Adapter(r)] = NewContent(r)
      /\ LastOf(dataPoints'[Adapter(r)]) = [runner |-> r, timestamp |-> runner[r].output]
  BY <1>1, UpdatedDocument
<1>3. a = Adapter(r)
  BY <1>2
<1>4. runner[r].document = dataPoints[a]
  BY <1>1, <1>2, <1>3 DEF LitInv, LoadInv
<1> QED
  BY <1>2, <1>3, <1>4 DEF NewContent

\* A runner that writes a document twice in a row drops nothing of it.
THEOREM OutputsKept == Spec => OwnOutputsKept
<1>1. LitInv /\ [Next]_litVars =>
        [\A a \in Adapters :
           /\ dataPoints'[a] # dataPoints[a]
           /\ dataPoints[a] # << >>
           /\ LastOf(dataPoints[a]).runner = LastOf(dataPoints'[a]).runner
           => dataPoints'[a] = Append(dataPoints[a], LastOf(dataPoints'[a]))]_litVars
  BY UpdatesAdd
<1> QED
  BY <1>1, LitInductive, PTL DEF Spec, OwnOutputsKept
=============================================================================
