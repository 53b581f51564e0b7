--------------------------- MODULE GovernorProofs ----------------------------
(***************************************************************************)
(* Safety of the Governor with its token, registry and bridge, for any     *)
(* proposals and lists of calls, users, jobs, reports and settings, and    *)
(* for both deployments of the bridge.  The inductive invariant IInv is    *)
(* TypeInv, the types of the four contracts, and CoreInv, which ties       *)
(* proposals, jobs, reports and claims to each other.                      *)
(***************************************************************************)
EXTENDS GovernorProposers, PureProofs

Ids == ProposalIds \cup {ZeroId}
ReportedResults == Responses \cup {Undecodable} \cup ErrorMessages

\* The two contracts that a proposal's calls write, as one value.
OwnedTypes ==
    [registry : [adapters : [Names -> Registry!Adapter], adapterNames : Seq(Names)],
     token : [balances : [Users -> Nat], totalSupply : Nat, snapshots : Seq(Token!Snapshots)]]

-----------------------------------------------------------------------------
(* The calls of a proposal, one after the other. *)

LEMMA MintedTypes ==
    ASSUME NEW ledger \in [balances : [Users -> Nat], totalSupply : Nat,
                           snapshots : Seq(Token!Snapshots)],
           NEW wallet \in Users, NEW amount \in Nat
    PROVE  Token!Minted(ledger, wallet, amount) \in
             [balances : [Users -> Nat], totalSupply : Nat, snapshots : Seq(Token!Snapshots)]
<1>1. [ledger.balances EXCEPT ![wallet] = @ + amount] \in [Users -> Nat]
  OBVIOUS
<1> QED BY <1>1 DEF Token!Minted

LEMMA SnapshottedTypes ==
    ASSUME NEW ledger \in [balances : [Users -> Nat], totalSupply : Nat,
                           snapshots : Seq(Token!Snapshots)]
    PROVE  Token!Snapshotted(ledger) \in
             [balances : [Users -> Nat], totalSupply : Nat, snapshots : Seq(Token!Snapshots)]
<1> DEFINE taken == [balances |-> ledger.balances, totalSupply |-> ledger.totalSupply]
<1>1. taken \in Token!Snapshots
  BY DEF Token!Snapshots
<1> HIDE DEF taken
<1>2. Append(ledger.snapshots, taken) \in Seq(Token!Snapshots)
  BY <1>1
<1> QED BY <1>2 DEF Token!Snapshotted, taken

LEMMA AddedTypes ==
    ASSUME NEW storage \in [adapters : [Names -> Registry!Adapter], adapterNames : Seq(Names)],
           NEW name \in Names, NEW ipfsHash \in Hashes
    PROVE  Registry!Added(storage, name, ipfsHash) \in
             [adapters : [Names -> Registry!Adapter], adapterNames : Seq(Names)]
<1>1. [name |-> name, ipfsHash |-> ipfsHash] \in Registry!Adapter
  BY DEF Registry!Adapter
<1> QED BY <1>1 DEF Registry!Added

LEMMA RemovedTypes ==
    ASSUME NEW storage \in [adapters : [Names -> Registry!Adapter], adapterNames : Seq(Names)],
           NEW name \in Names
    PROVE  Registry!Removed(storage, name) \in
             [adapters : [Names -> Registry!Adapter], adapterNames : Seq(Names)]
<1> DEFINE names == storage.adapterNames
           slots == Registry!Slots(names, name)
<1>1. [storage.adapters EXCEPT ![name] = Registry!NoAdapter] \in [Names -> Registry!Adapter]
  BY DEF Registry!NoAdapter, Registry!Adapter
<1>2. ASSUME NEW i, slots # {}
      PROVE  Registry!SwapAndPop(names, i) \in Seq(Names)
  <2>1. Len(names) \in Nat \ {0}
    BY <1>2 DEF Registry!Slots
  <2>2. \A k \in 1 .. Len(names) - 1 : Registry!SwapAndPop(names, i)[k] \in Names
    BY <2>1 DEF Registry!SwapAndPop
  <2> QED BY <2>1, <2>2 DEF Registry!SwapAndPop
<1>3. names \in Seq(Names)
  OBVIOUS
<1> HIDE DEF slots
<1>4. (IF slots = {} THEN names
       ELSE Registry!SwapAndPop(names, CHOOSE i \in slots : \A k \in slots : i <= k))
        \in Seq(Names)
  BY <1>2, <1>3
<1> QED BY <1>1, <1>4 DEF Registry!Removed, slots

LEMMA AfterCallTypes ==
    ASSUME NEW call \in Call, NEW owned \in OwnedTypes
    PROVE  AfterCall(call, owned) \in OwnedTypes
<1>1. /\ owned.registry \in [adapters : [Names -> Registry!Adapter], adapterNames : Seq(Names)]
      /\ owned.token \in [balances : [Users -> Nat], totalSupply : Nat,
                          snapshots : Seq(Token!Snapshots)]
  BY DEF OwnedTypes
<1> SUFFICES /\ AfterCall(call, owned).registry \in
                  [adapters : [Names -> Registry!Adapter], adapterNames : Seq(Names)]
             /\ AfterCall(call, owned).token \in
                  [balances : [Users -> Nat], totalSupply : Nat, snapshots : Seq(Token!Snapshots)]
  BY DEF OwnedTypes, AfterCall
<1>2. CASE call.op = "add"
  <2>1. call.name \in Names /\ call.ipfsHash \in Hashes
    BY <1>2 DEF Call
  <2>2. /\ AfterCall(call, owned).registry = Registry!Added(owned.registry, call.name, call.ipfsHash)
        /\ AfterCall(call, owned).token = owned.token
    BY <1>2 DEF AfterCall
  <2> QED BY <1>1, <2>1, <2>2, AddedTypes
<1>3. CASE call.op = "remove"
  <2>1. call.name \in Names
    BY <1>3 DEF Call
  <2>2. /\ AfterCall(call, owned).registry = Registry!Removed(owned.registry, call.name)
        /\ AfterCall(call, owned).token = owned.token
    BY <1>3 DEF AfterCall
  <2> QED BY <1>1, <2>1, <2>2, RemovedTypes
<1>4. CASE call.op = "mint"
  <2>1. call.wallet \in Users /\ call.amount \in Nat
    BY <1>4 DEF Call
  <2>2. /\ AfterCall(call, owned).token = Token!Minted(owned.token, call.wallet, call.amount)
        /\ AfterCall(call, owned).registry = owned.registry
    BY <1>4 DEF AfterCall
  <2>3. Token!Minted(owned.token, call.wallet, call.amount) \in
          [balances : [Users -> Nat], totalSupply : Nat, snapshots : Seq(Token!Snapshots)]
    BY <1>1, <2>1, MintedTypes
  <2> QED BY <1>1, <2>2, <2>3
<1>5. CASE call.op = "snapshot"
  <2>1. /\ AfterCall(call, owned).token = Token!Snapshotted(owned.token)
        /\ AfterCall(call, owned).registry = owned.registry
    BY <1>5 DEF AfterCall
  <2> QED BY <1>1, <2>1, SnapshottedTypes
<1>6. CASE call.op \notin {"add", "remove", "mint", "snapshot"}
  <2>1. AfterCall(call, owned).token = owned.token /\ AfterCall(call, owned).registry = owned.registry
    BY <1>6 DEF AfterCall
  <2> QED BY <1>1, <2>1
<1> QED BY <1>2, <1>3, <1>4, <1>5, <1>6

LEMMA OwnedTyped ==
    ASSUME TypeInv
    PROVE  Owned \in OwnedTypes
BY DEF TypeInv, Token!TokenTypeOK, Registry!RegistryTypeOK, Owned, OwnedTypes,
       Registry!Storage, Token!Ledger

\* The function that the loop of _execute defines exists, and is what it should be.
LEMMA CallsRun ==
    ASSUME NEW calls \in Seq(Call), NEW owned \in OwnedTypes
    PROVE  /\ AfterCalls(calls, owned) \in [0 .. Len(calls) -> OwnedTypes]
           /\ AfterCalls(calls, owned)[0] = owned
           /\ \A i \in 1 .. Len(calls) :
                AfterCalls(calls, owned)[i] = AfterCall(calls[i], AfterCalls(calls, owned)[i - 1])
<1> DEFINE m == Len(calls)
           step == [q \in Nat \X OwnedTypes |->
                      IF q[1] \in 1 .. m THEN AfterCall(calls[q[1]], q[2]) ELSE q[2]]
           Run(f) == f = [i \in 0 .. m |-> IF i = 0 THEN owned ELSE AfterCall(calls[i], f[i - 1])]
           after == CHOOSE f : Run(f)
<1>1. m \in Nat /\ \A i \in 1 .. m : calls[i] \in Call
  OBVIOUS
<1> HIDE DEF m
<1>2. \A q \in Nat \X OwnedTypes :
        (IF q[1] \in 1 .. m THEN AfterCall(calls[q[1]], q[2]) ELSE q[2]) \in OwnedTypes
  BY <1>1, AfterCallTypes
<1>3. step \in [Nat \X OwnedTypes -> OwnedTypes]
  BY <1>2
<1>4. PICK f \in [0 .. m -> OwnedTypes] : Recursion(f, owned, step, m)
  <2> HIDE DEF step
  <2> QED BY <1>1, <1>3, RecursionExists
<1>5. Run(f)
  <2>1. \A i \in 0 .. m : f[i] = IF i = 0 THEN owned ELSE step[<<i, f[i - 1]>>]
    <3> HIDE DEF step
    <3> QED BY <1>4 DEF Recursion
  <2>2. \A i \in 1 .. m : step[<<i, f[i - 1]>>] = AfterCall(calls[i], f[i - 1])
    <3> SUFFICES ASSUME NEW i \in 1 .. m
                 PROVE  step[<<i, f[i - 1]>>] = AfterCall(calls[i], f[i - 1])
      OBVIOUS
    <3>1. i - 1 \in 0 .. m /\ i \in Nat
      BY <1>1
    <3>2. f[i - 1] \in OwnedTypes
      BY <3>1
    <3> QED BY <3>1, <3>2
  <2> HIDE DEF step
  <2>3. ASSUME NEW i \in 0 .. m
        PROVE  f[i] = IF i = 0 THEN owned ELSE AfterCall(calls[i], f[i - 1])
    <3>1. CASE i = 0
      BY <2>1, <3>1
    <3>2. CASE i # 0
      <4>1. i \in 1 .. m
        BY <1>1, <3>2
      <4> QED BY <2>1, <2>2, <3>2, <4>1
    <3> QED BY <3>1, <3>2
  <2> QED BY <2>3
<1>6. Run(after)
  <2> HIDE DEF Run
  <2> QED BY <1>5
<1>7. AfterCalls(calls, owned) = after
  BY DEF AfterCalls, m
<1> HIDE DEF after
<1>8. /\ DOMAIN after = 0 .. m /\ after[0] = owned
      /\ \A i \in 1 .. m : after[i] = AfterCall(calls[i], after[i - 1])
  <2>1. \A i \in 0 .. m : after[i] = IF i = 0 THEN owned ELSE AfterCall(calls[i], after[i - 1])
    BY <1>6, Zenon
  <2>2. DOMAIN after = 0 .. m /\ after = [i \in 0 .. m |-> after[i]]
    BY <1>6, Zenon
  <2> QED BY <1>1, <2>1, <2>2
<1>9. \A i \in 0 .. m : after[i] \in OwnedTypes
  <2> DEFINE N == {i \in Nat : i <= m => after[i] \in OwnedTypes}
  <2>1. 0 \in N
    BY <1>8
  <2>2. ASSUME NEW i \in Nat, i \in N PROVE i + 1 \in N
    <3> SUFFICES ASSUME i + 1 <= m PROVE after[i + 1] \in OwnedTypes
      OBVIOUS
    <3>1. i + 1 \in 1 .. m /\ after[i] \in OwnedTypes /\ i + 1 - 1 = i
      BY <1>1, <2>2
    <3> QED BY <1>1, <1>8, <3>1, AfterCallTypes
  <2> HIDE DEF N
  <2>3. Nat \subseteq N
    BY <2>1, <2>2, SetInduction
  <2> QED BY <1>1, <2>3 DEF N
<1>10. after \in [0 .. m -> OwnedTypes]
  BY <1>6, <1>8, <1>9
<1> QED BY <1>7, <1>8, <1>10 DEF m

\* What holds before the calls, and is kept by each of them that does not revert, holds
\* of the contracts after them.
LEMMA CallsKeep ==
    ASSUME TypeInv, NEW calls \in Seq(Call), MakeCalls(calls), NEW Kept, Owned \in Kept,
           \A call \in Call, owned \in OwnedTypes :
             (\E i \in DOMAIN calls : call = calls[i]) /\ owned \in Kept /\ ~CallReverts(call, owned)
             => AfterCall(call, owned) \in Kept
    PROVE  Owned' \in Kept /\ Owned' \in OwnedTypes
<1> DEFINE m == Len(calls)
           after == AfterCalls(calls, Owned)
           N == {i \in Nat : i <= m => after[i] \in Kept}
<1>1. /\ m \in Nat /\ DOMAIN calls = 1 .. m /\ \A i \in 1 .. m : calls[i] \in Call
      /\ after \in [0 .. m -> OwnedTypes] /\ after[0] = Owned
      /\ \A i \in 1 .. m : after[i] = AfterCall(calls[i], after[i - 1])
  BY OwnedTyped, CallsRun
<1>2. /\ \A i \in DOMAIN calls : ~CallReverts(calls[i], after[i - 1])
      /\ Registry!Becomes(after[m].registry) /\ Token!TokenBecomes(after[m].token)
  BY DEF MakeCalls, SomeCallReverts
<1> HIDE DEF m, after
<1>3. 0 \in N
  BY <1>1
<1>4. ASSUME NEW i \in Nat, i \in N PROVE i + 1 \in N
  <2> SUFFICES ASSUME i + 1 <= m PROVE after[i + 1] \in Kept
    OBVIOUS
  <2>1. i + 1 \in 1 .. m /\ i \in 0 .. m /\ i + 1 - 1 = i /\ after[i] \in Kept
    BY <1>1, <1>4
  <2>2. /\ after[i] \in OwnedTypes /\ calls[i + 1] \in Call
        /\ ~CallReverts(calls[i + 1], after[i])
    <3>1. after[i] \in OwnedTypes /\ calls[i + 1] \in Call
      BY <1>1, <2>1
    <3>2. i + 1 \in DOMAIN calls
      BY <1>1, <2>1
    <3>3. ~CallReverts(calls[i + 1], after[i + 1 - 1])
      BY <1>2, <3>2
    <3> QED BY <2>1, <3>1, <3>3
  <2>3. \E k \in DOMAIN calls : calls[i + 1] = calls[k]
    BY <1>1, <2>1
  <2>4. AfterCall(calls[i + 1], after[i]) \in Kept
    BY <2>1, <2>2, <2>3
  <2> QED BY <1>1, <2>1, <2>4
<1>5. Nat \subseteq N
  <2> HIDE DEF N
  <2> QED BY <1>3, <1>4, SetInduction
<1>6. after[m] \in Kept /\ after[m] \in OwnedTypes
  BY <1>1, <1>5
<1>7. Owned' = after[m]
  <2>1. after[m] = [registry |-> [adapters |-> after[m].registry.adapters,
                                  adapterNames |-> after[m].registry.adapterNames],
                    token |-> [balances |-> after[m].token.balances,
                               totalSupply |-> after[m].token.totalSupply,
                               snapshots |-> after[m].token.snapshots]]
    BY <1>6 DEF OwnedTypes
  <2> QED BY <1>2, <2>1 DEF Owned, Registry!Storage, Token!Ledger, Registry!Becomes,
                           Token!TokenBecomes
<1> QED BY <1>6, <1>7

-----------------------------------------------------------------------------
(* Types.  One lemma per contract: what the Governor's actions do to it. *)

LEMMA OwnedTypesKept ==
    ASSUME TypeInv, NEW p \in ProposalIds, MakeCalls(Calls[p])
    PROVE  Token!TokenTypeOK' /\ Registry!RegistryTypeOK'
<1>1. Calls[p] \in Seq(Call)
  BY ProposalsAssumption
<1>2. Owned' \in OwnedTypes
  BY <1>1, OwnedTyped, AfterCallTypes, CallsKeep
<1> QED BY <1>2 DEF Owned, OwnedTypes, Registry!Storage, Token!Ledger, Token!TokenTypeOK,
                   Registry!RegistryTypeOK

LEMMA TokenTypes ==
    ASSUME TypeInv,
           \/ Token!Snapshot
           \/ \E user \in Users, amount \in Nat : Token!Mint(user, amount)
           \/ \E from, to \in Users, amount \in Nat : Token!Transfer(from, to, amount)
           \/ UNCHANGED tokenVars
    PROVE  Token!TokenTypeOK'
<1>1. /\ balances \in [Users -> Nat]
      /\ totalSupply \in Nat
      /\ snapshots \in Seq(Token!Snapshots)
  BY DEF TypeInv, Token!TokenTypeOK
<1>2. CASE Token!Snapshot
  <2>1. [balances |-> balances, totalSupply |-> totalSupply] \in Token!Snapshots
    BY <1>1 DEF Token!Snapshots
  <2> QED BY <1>1, <1>2, <2>1 DEF Token!Snapshot, Token!TokenBecomes, Token!Snapshotted,
                                  Token!Ledger, Token!TokenTypeOK
<1>3. ASSUME NEW user \in Users, NEW amount \in Nat, Token!Mint(user, amount)
      PROVE  Token!TokenTypeOK'
  BY <1>1, <1>3 DEF Token!Mint, Token!TokenBecomes, Token!Minted, Token!Ledger, Token!TokenTypeOK
<1>4. ASSUME NEW from \in Users, NEW to \in Users, NEW amount \in Nat,
             Token!Transfer(from, to, amount)
      PROVE  Token!TokenTypeOK'
  BY <1>1, <1>4 DEF Token!Transfer, Token!TokenTypeOK
<1>5. CASE UNCHANGED tokenVars
  BY <1>1, <1>5 DEF tokenVars, Token!TokenTypeOK
<1> QED BY <1>2, <1>3, <1>4, <1>5

LEMMA RegistryTypes ==
    ASSUME TypeInv, UNCHANGED registryVars
    PROVE  Registry!RegistryTypeOK'
BY DEF TypeInv, registryVars, Registry!RegistryTypeOK

LEMMA BridgeTypes ==
    ASSUME TypeInv,
           \/ \E from \in Clients, spec \in JobSpecs :
                Bridge!RunLilypadJob(from, spec, LILYPAD_FEE)
           \/ \E id \in JobIds, success \in BOOLEAN, result \in ReportedResults :
                Bridge!RecordResult(GovernorAddress, id, success, result)
           \/ Bridge!Initialize
           \/ UNCHANGED bridgeVars
    PROVE  Bridge!BridgeTypeOK'
<1>1. Bridge!BridgeTypeOK
  BY DEF TypeInv
<1>2. ASSUME NEW from \in Clients, NEW spec \in JobSpecs,
             Bridge!RunLilypadJob(from, spec, LILYPAD_FEE)
      PROVE  Bridge!BridgeTypeOK'
  <2>1. [requestor |-> from, id |-> jobIds, spec |-> spec] \in Bridge!LilypadJob
    BY <1>1 DEF Bridge!BridgeTypeOK, Bridge!LilypadJob
  <2>2. lilypadJobHistory' \in Seq(Bridge!LilypadJob) /\ jobIds' \in Nat
    BY <1>1, <1>2, <2>1 DEF Bridge!BridgeTypeOK, Bridge!RunLilypadJob
  <2>3. escrowAmount' \in Nat /\ bridgeBalance' \in Nat /\ paid' \in [Bridge!Addresses -> Nat]
    BY <1>1, <1>2 DEF Bridge!BridgeTypeOK, Bridge!RunLilypadJob, Bridge!CollectFee
  <2> QED BY <1>1, <1>2, <2>2, <2>3
          DEF Bridge!BridgeTypeOK, Bridge!RunLilypadJob, Bridge!adminVars,
              Bridge!settingVars
<1>3. ASSUME NEW id \in JobIds, NEW success \in BOOLEAN, NEW result \in ReportedResults,
             Bridge!RecordResult(GovernorAddress, id, success, result)
      PROVE  Bridge!BridgeTypeOK'
  BY <1>1, <1>3
     DEF Bridge!BridgeTypeOK, Bridge!RecordResult, Bridge!LilypadJobResult, ReportedResults,
         Clients, Bridge!adminVars, Bridge!escrowVars, Bridge!settingVars, Bridge!jobVars
<1>4. CASE Bridge!Initialize
  BY <1>1, <1>4 DEF Bridge!BridgeTypeOK, Bridge!Initialize, Bridge!escrowVars,
                    Bridge!settingVars, Bridge!jobVars
<1>5. CASE UNCHANGED bridgeVars
  BY <1>1, <1>5 DEF Bridge!BridgeTypeOK, bridgeVars
<1> QED BY <1>2, <1>3, <1>4, <1>5

-----------------------------------------------------------------------------
(* Types of the Governor's own variables, one action at a time. *)

LEMMA ProposeTypes ==
    ASSUME TypeInv, NEW p \in ProposalIds, NEW proposer \in Users, Propose(p, proposer)
    PROVE  TypeInv'
<1>1. GovernorTypeOK /\ Token!TokenTypeOK
  BY DEF TypeInv
<1>2. Len(snapshots') \in Nat
  BY TokenTypes DEF Propose, Token!TokenTypeOK
<1>3. [NoProposal EXCEPT !.proposer = proposer, !.voteStart = now,
                         !.voteEnd = now + votingPeriod, !.snapshotId = Len(snapshots')]
        \in ProposalCore
  <2>1. now + votingPeriod \in Nat /\ now \in Nat
    BY <1>1 DEF GovernorTypeOK
  <2>2. NoProposal \in ProposalCore
    BY DEF NoProposal, ProposalCore
  <2> QED BY <1>2, <2>1, <2>2 DEF ProposalCore
<1>4. GovernorTypeOK'
  BY <1>1, <1>3 DEF Propose, GovernorTypeOK, settings, claimVars
<1> QED BY <1>4, TokenTypes, RegistryTypes, BridgeTypes DEF Propose, TypeInv

LEMMA RequestTypes ==
    ASSUME TypeInv, CounterBounds, NEW p \in ProposalIds, RequestVoteResolution(p)
    PROVE  TypeInv'
<1>1. GovernorTypeOK /\ Bridge!BridgeTypeOK
  BY DEF TypeInv
<1>2. jobIds \in JobIds
  BY <1>1, BridgeAssumption
     DEF RequestVoteResolution, Bridge!RunLilypadJob, Bridge!BridgeTypeOK, CounterBounds, JobIds
<1>3. GovernorTypeOK'
  <2>1. jobIds \in Nat
    BY <1>1 DEF Bridge!BridgeTypeOK
  <2>2. proposals' \in [ProposalIds \cup {ZeroId} -> ProposalCore]
    BY <1>1, <2>1 DEF RequestVoteResolution, GovernorTypeOK, ProposalCore
  <2>3. jobIdToProposal' \in [JobIds -> ProposalIds \cup {ZeroId}]
    BY <1>1, <1>2 DEF RequestVoteResolution, GovernorTypeOK
  <2> QED BY <1>1, <2>2, <2>3
          DEF RequestVoteResolution, GovernorTypeOK, settings, claimVars
<1>4. GovernorAddress \in Clients /\ SpecFor(p) \in JobSpecs
  BY <1>1 DEF GovernorTypeOK, Clients, JobSpecs, SpecFor
<1>5. Bridge!BridgeTypeOK'
  BY <1>4, BridgeTypes DEF RequestVoteResolution
<1> QED BY <1>3, <1>5, TokenTypes, RegistryTypes DEF RequestVoteResolution, TypeInv

LEMMA ReturnResultsTypes ==
    ASSUME TypeInv, NEW id \in JobIds,
           NEW result \in Responses \cup {Undecodable}, ReturnResults(id, result)
    PROVE  TypeInv'
<1>1. GovernorTypeOK
  BY DEF TypeInv
<1>2. result \in ResolutionResponse
  BY ResponsesAssumption DEF ReturnResults, LilypadFulfilled
<1>4. GovernorTypeOK'
  <2> DEFINE p == jobIdToProposal[id]
             root == [proposals EXCEPT ![p].voteMerkleRoot = result.voteMerkleRoot]
             for == [root EXCEPT ![p].forVotes = result.forVotes]
             against == [for EXCEPT ![p].againstVotes = result.againstVotes]
  <2>1. /\ proposals \in [Ids -> ProposalCore] /\ p \in Ids
        /\ result.voteMerkleRoot \in SUBSET Leaves
        /\ result.forVotes \in Nat /\ result.againstVotes \in Nat
    BY <1>1, <1>2 DEF GovernorTypeOK, Ids, ResolutionResponse
  <2>2. proposals' = against
    BY DEF ReturnResults, LilypadFulfilled
  <2> HIDE DEF p
  <2>3. root \in [Ids -> ProposalCore]
    BY <2>1 DEF ProposalCore
  <2> HIDE DEF root
  <2>4. for \in [Ids -> ProposalCore]
    BY <2>1, <2>3 DEF ProposalCore
  <2> HIDE DEF for
  <2>5. against \in [Ids -> ProposalCore]
    BY <2>1, <2>4 DEF ProposalCore
  <2> HIDE DEF against
  <2> QED BY <1>1, <2>2, <2>5 DEF ReturnResults, GovernorTypeOK, settings, claimVars, Ids
<1>5. Bridge!BridgeTypeOK'
  BY BridgeTypes DEF ReturnResults, Bridge!ReturnLilypadResults, ReportedResults
<1> QED BY <1>4, <1>5, TokenTypes, RegistryTypes DEF ReturnResults, TypeInv

LEMMA ReturnErrorTypes ==
    ASSUME TypeInv, NEW id \in JobIds,
           NEW errorMsg \in ErrorMessages, ReturnError(id, errorMsg)
    PROVE  TypeInv'
<1>1. GovernorTypeOK
  BY DEF TypeInv
<1>2. GovernorTypeOK'
  BY <1>1
     DEF ReturnError, LilypadCancelled, GovernorTypeOK, ProposalCore, settings, claimVars
<1>3. Bridge!BridgeTypeOK'
  BY BridgeTypes DEF ReturnError, Bridge!ReturnLilypadError, ReportedResults
<1> QED BY <1>2, <1>3, TokenTypes, RegistryTypes DEF ReturnError, TypeInv

LEMMA CancelDirectlyTypes ==
    ASSUME TypeInv, NEW id \in JobIds, CancelDirectly(id)
    PROVE  TypeInv'
<1>1. GovernorTypeOK'
  BY DEF TypeInv, CancelDirectly, LilypadCancelled, GovernorTypeOK, ProposalCore, settings,
         claimVars
<1> QED BY <1>1, TokenTypes, RegistryTypes, BridgeTypes DEF CancelDirectly, TypeInv

LEMMA ClaimRewardTypes ==
    ASSUME TypeInv, NEW p \in Ids, NEW user \in Users, NEW amount,
           ClaimReward(user, amount, p)
    PROVE  TypeInv'
<1>1. GovernorTypeOK
  BY DEF TypeInv
<1>2. amount \in Nat
  BY <1>1 DEF ClaimReward, GovernorTypeOK, ProposalCore, Leaves, Ids
<1>3. GovernorTypeOK'
  BY <1>1, <1>2 DEF ClaimReward, GovernorTypeOK, settings, Ids
<1>4. Token!TokenTypeOK'
  BY <1>2, TokenTypes DEF ClaimReward
<1> QED BY <1>3, <1>4, RegistryTypes, BridgeTypes DEF ClaimReward, TypeInv

LEMMA ExecuteTypes ==
    ASSUME TypeInv, NEW p \in ProposalIds, Execute(p)
    PROVE  TypeInv'
<1>1. GovernorTypeOK
  BY DEF TypeInv
<1>2. GovernorTypeOK'
  <2>1. proposals \in [Ids -> ProposalCore] /\ p \in Ids
    BY <1>1 DEF GovernorTypeOK, Ids
  <2>2. [proposals[p] EXCEPT !.executed = TRUE] \in ProposalCore
    BY <2>1 DEF ProposalCore
  <2>3. proposals' = [proposals EXCEPT ![p] = [proposals[p] EXCEPT !.executed = TRUE]]
    BY DEF Execute
  <2>4. proposals' \in [Ids -> ProposalCore]
    BY <2>1, <2>2, <2>3
  <2> QED BY <1>1, <2>4 DEF Execute, GovernorTypeOK, settings, claimVars, Ids
<1> QED BY <1>2, OwnedTypesKept, BridgeTypes DEF Execute, TypeInv

\* The setters and the clock.
LEMMA SettingsTypes ==
    ASSUME TypeInv, DeployerNext \/ Tick
    PROVE  TypeInv'
<1>1. GovernorTypeOK
  BY DEF TypeInv
<1>2. GovernorTypeOK' /\ UNCHANGED <<tokenVars, registryVars, bridgeVars>>
  <2>1. CASE DeployerNext
    BY <1>1, <2>1, NumbersAssumption
       DEF DeployerNext, SetVotingPeriod, SetQuorumPercentage, SetEmissionPerVote,
           SetDockerImage, GovernorTypeOK, claimVars, Images
  <2>2. CASE Tick
    BY <1>1, <2>2 DEF Tick, GovernorTypeOK, governorVars, settings, claimVars
  <2> QED BY <2>1, <2>2
<1> QED BY <1>2, TokenTypes, RegistryTypes, BridgeTypes DEF TypeInv

\* What the token's holders and the bridge's other users do.
LEMMA OthersTypes ==
    ASSUME TypeInv,
           \/ \E from, to \in Users, amount \in TransferAmounts : TransferTokens(from, to, amount)
           \/ \E from \in Clients, spec \in JobSpecs : OtherRequest(from, spec)
           \/ InitializeBridge
    PROVE  TypeInv'
<1>1. GovernorTypeOK /\ (UNCHANGED governorVars /\ UNCHANGED now => GovernorTypeOK')
  BY DEF TypeInv, GovernorTypeOK, governorVars, settings, claimVars
<1>2. ASSUME NEW from \in Users, NEW to \in Users, NEW amount \in TransferAmounts,
             TransferTokens(from, to, amount)
      PROVE  TypeInv'
  <2>1. Token!TokenTypeOK'
    BY <1>2, TokenTypes, NumbersAssumption DEF TransferTokens
  <2> QED BY <1>1, <1>2, <2>1, RegistryTypes, BridgeTypes DEF TransferTokens, TypeInv
<1>3. ASSUME NEW from \in Clients, NEW spec \in JobSpecs, OtherRequest(from, spec)
      PROVE  TypeInv'
  <2>1. Bridge!BridgeTypeOK'
    BY <1>3, BridgeTypes DEF OtherRequest
  <2> QED BY <1>1, <1>3, <2>1, TokenTypes, RegistryTypes DEF OtherRequest, TypeInv
<1>4. CASE InitializeBridge
  BY <1>1, <1>4, TokenTypes, RegistryTypes, BridgeTypes DEF InitializeBridge, TypeInv
<1> QED BY <1>2, <1>3, <1>4

LEMMA TypeStep ==
    ASSUME IInv, [Next]_vars
    PROVE  TypeInv'
<1>1. TypeInv /\ CounterBounds
  BY DEF IInv, CoreInv
<1>2. CASE DeployerNext \/ Tick
  BY <1>1, <1>2, SettingsTypes
<1>3. CASE UserNext
  BY <1>1, <1>3, ProposeTypes, RequestTypes, ExecuteTypes, ClaimRewardTypes, OthersTypes
     DEF UserNext, Ids
<1>4. CASE BridgeNext
  BY <1>1, <1>4, ReturnResultsTypes, ReturnErrorTypes, CancelDirectlyTypes,
     OthersTypes DEF BridgeNext
<1>5. CASE UNCHANGED vars
  <2>1. GovernorTypeOK'
    BY <1>1, <1>5 DEF TypeInv, GovernorTypeOK, vars, governorVars, settings, claimVars
  <2> QED BY <1>1, <1>5, <2>1, TokenTypes, RegistryTypes, BridgeTypes DEF TypeInv, vars
<1> QED BY <1>2, <1>3, <1>4, <1>5 DEF Next

-----------------------------------------------------------------------------
(* Jobs, reports and claims. *)

\* A job the Governor maps to a proposal, as the bridge knows it.
QueuedOnce(history, id, p) ==
    \E i \in DOMAIN history :
        /\ history[i].requestor = GovernorAddress
        /\ \E image \in Images : history[i].spec = [image |-> image, proposalId |-> p]
        /\ \A k \in DOMAIN history : history[k].id = id <=> k = i

LEMMA JobsMatchAs ==
    JobsMatchBridge <=>
      /\ \A id \in JobIds : jobIdToProposal[id] # ZeroId =>
           QueuedOnce(lilypadJobHistory, id, jobIdToProposal[id])
      /\ \A p \in ProposalIds : proposals[p].bridgeId # 0 =>
           jobIdToProposal[proposals[p].bridgeId] = p
BY DEF JobsMatchBridge, QueuedOnce

LEMMA InitIInv == Init => IInv
<1> SUFFICES ASSUME Init PROVE IInv
  OBVIOUS
<1> USE DEF Init
<1>1. GovernorTypeOK
  <2>1. NoProposal \in ProposalCore
    BY DEF NoProposal, ProposalCore
  <2> QED BY <2>1, NumbersAssumption DEF GovernorTypeOK, Images
<1>2. Token!TokenTypeOK
  BY NumbersAssumption DEF Token!TokenInit, Token!TokenTypeOK
<1>3. Registry!RegistryTypeOK
  BY DEF Registry!RegistryInit, Registry!RegistryTypeOK, Registry!Adapter, Registry!NoAdapter
<1>4. Bridge!BridgeTypeOK
  <2>1. Bridge!BridgeInit
    OBVIOUS
  <2>2. LILYPAD_FEE \in Nat /\ escrowMinAutoPay \in Nat /\ jobIds \in Nat
    BY <2>1, BridgeAssumption
       DEF Bridge!BridgeInit, Bridge!DirectStorage, Bridge!ProxiedStorage
  <2>3. escrowAddress \in Bridge!Addresses
    BY <2>1, Zenon
       DEF Bridge!BridgeInit, Bridge!DirectStorage, Bridge!ProxiedStorage, Bridge!Addresses
  <2>4. initializable \in BOOLEAN /\ hasAdmin \in BOOLEAN
    BY <2>1, Zenon DEF Bridge!BridgeInit, Bridge!DirectStorage, Bridge!ProxiedStorage
  <2>5. escrowAmount = 0 /\ bridgeBalance = 0 /\ paid = [wallet \in Bridge!Addresses |-> 0]
    BY <2>1, Zenon DEF Bridge!BridgeInit
  <2>6. lilypadJobHistory = << >> /\ lilypadJobResults = {}
    BY <2>1, Zenon DEF Bridge!BridgeInit
  <2>7. /\ escrowAmount \in Nat /\ bridgeBalance \in Nat
        /\ paid \in [Bridge!Addresses -> Nat]
    BY <2>5
  <2>8. lilypadJobHistory \in Seq(Bridge!LilypadJob)
    BY <2>6
  <2>9. lilypadJobResults \subseteq Bridge!LilypadJobResult
    BY <2>6
  <2> QED BY <2>2, <2>3, <2>4, <2>7, <2>8, <2>9 DEF Bridge!BridgeTypeOK
<1>5. lilypadJobHistory = << >> /\ lilypadJobResults = {} /\ jobIds \in {0, 1}
  BY DEF Bridge!BridgeInit, Bridge!DirectStorage, Bridge!ProxiedStorage
<1>6. CounterBounds /\ MappedJobsClosed /\ ClaimsHaveJob
  BY <1>5, BridgeAssumption DEF CounterBounds, MappedJobsClosed, ClaimsHaveJob
<1>7. JobsMatchBridge /\ TallyFromOwnJob /\ ClaimsBacked
  BY <1>5 DEF JobsMatchBridge, TallyFromOwnJob, ClaimsBacked, NoProposal
<1> QED BY <1>1, <1>2, <1>3, <1>4, <1>6, <1>7 DEF IInv, TypeInv, CoreInv

\* Steps that touch neither proposals nor jobs nor claims.
LEMMA CoreFrame ==
    ASSUME IInv, now' \in Nat, now' >= now,
           UNCHANGED <<proposals, jobIdToProposal, claimVars, jobIds, lilypadJobHistory,
                       lilypadJobResults>>
    PROVE  CoreInv'
<1> USE DEF IInv, CoreInv, claimVars
<1>1. CounterBounds' /\ ClaimsHaveJob'
  BY DEF CounterBounds, ClaimsHaveJob
<1>2. MappedJobsClosed'
  <2> SUFFICES ASSUME NEW id \in JobIds, jobIdToProposal[id] # ZeroId
               PROVE  /\ 0 < id /\ id < jobIds
                      /\ Known(jobIdToProposal[id])
                      /\ proposals[jobIdToProposal[id]].voteEnd < now'
    BY DEF MappedJobsClosed, Known
  <2>1. now \in Nat /\ proposals[jobIdToProposal[id]].voteEnd \in Nat
    BY DEF TypeInv, GovernorTypeOK, ProposalCore
  <2> QED BY <2>1 DEF MappedJobsClosed
<1>3. JobsMatchBridge' /\ TallyFromOwnJob' /\ ClaimsBacked'
  BY DEF JobsMatchBridge, TallyFromOwnJob, ClaimsBacked, Reported
<1> QED BY <1>1, <1>2, <1>3

\* A recorded report goes on speaking for the same proposal as long as no job id that
\* has a proposal is mapped anew; until then it speaks for the zero id only, as it does
\* for ever.
LEMMA ReportedKept ==
    ASSUME TypeInv, lilypadJobResults \subseteq lilypadJobResults',
           \A id \in JobIds :
               jobIdToProposal[id] = ZeroId \/ jobIdToProposal'[id] = jobIdToProposal[id],
           NEW p
    PROVE  Reported(p) \subseteq Reported(p)'
<1>1. \A r \in lilypadJobResults : r.id \in JobIds
  BY DEF TypeInv, Bridge!BridgeTypeOK, Bridge!LilypadJobResult
<1> QED BY <1>1 DEF Reported

LEMMA ProposeCore ==
    ASSUME IInv, NEW p \in ProposalIds, NEW proposer \in Users, Propose(p, proposer)
    PROVE  CoreInv'
<1> USE DEF IInv, CoreInv
<1>1. /\ UNCHANGED <<now, jobIdToProposal, claimVars, bridgeVars>>
      /\ ~Known(p)
  BY DEF Propose
<1>2. /\ \A q \in Ids \ {p} : proposals'[q] = proposals[q]
      /\ proposals'[p].bridgeId = 0 /\ proposals'[p].voteMerkleRoot = {}
  BY DEF Propose, TypeInv, GovernorTypeOK, NoProposal, Ids
<1>3. CounterBounds' /\ ClaimsHaveJob'
  BY <1>1 DEF CounterBounds, ClaimsHaveJob, bridgeVars, claimVars
<1>4. MappedJobsClosed'
  <2> SUFFICES ASSUME NEW id \in JobIds, jobIdToProposal[id] # ZeroId
               PROVE  /\ 0 < id /\ id < jobIds
                      /\ proposals'[jobIdToProposal[id]].voteStart # 0
                      /\ proposals'[jobIdToProposal[id]].voteEnd < now
    BY <1>1 DEF MappedJobsClosed, Known, bridgeVars
  <2>1. jobIdToProposal[id] \in Ids \ {p}
    BY <1>1 DEF MappedJobsClosed, TypeInv, GovernorTypeOK, Ids
  <2> QED BY <1>2, <2>1 DEF MappedJobsClosed, Known
<1>5. JobsMatchBridge'
  BY <1>1, <1>2 DEF JobsMatchBridge, bridgeVars, Ids
<1>6. TallyFromOwnJob' /\ ClaimsBacked'
  BY <1>1, <1>2 DEF TallyFromOwnJob, ClaimsBacked, Reported, bridgeVars, claimVars, Ids
<1> QED BY <1>3, <1>4, <1>5, <1>6

\* A new job, of whomever, is the only one with its id; the others stay what they are.
LEMMA JobQueued ==
    ASSUME TypeInv, CounterBounds, NEW from, NEW spec,
           Bridge!RunLilypadJob(from, spec, LILYPAD_FEE)
    PROVE  /\ jobIds \in JobIds /\ jobIds' = jobIds + 1
           /\ CounterBounds'
           /\ UNCHANGED lilypadJobResults
           /\ \E last \in DOMAIN lilypadJobHistory' :
                /\ lilypadJobHistory'[last] =
                     [requestor |-> from, id |-> jobIds, spec |-> spec]
                /\ last \notin DOMAIN lilypadJobHistory
                /\ DOMAIN lilypadJobHistory' = DOMAIN lilypadJobHistory \cup {last}
           /\ \A i \in DOMAIN lilypadJobHistory :
                /\ lilypadJobHistory'[i] = lilypadJobHistory[i]
                /\ lilypadJobHistory[i].id # jobIds
<1> DEFINE n == Len(lilypadJobHistory)
           job == [requestor |-> from, id |-> jobIds, spec |-> spec]
<1>1. /\ n \in Nat /\ n < MaxJobs
      /\ jobIds \in Nat /\ jobIds \in JobIds
      /\ jobIds' = jobIds + 1
      /\ lilypadJobHistory' = Append(lilypadJobHistory, job)
      /\ UNCHANGED lilypadJobResults
  BY BridgeAssumption
     DEF Bridge!RunLilypadJob, TypeInv, Bridge!BridgeTypeOK, CounterBounds, JobIds
<1>2. /\ DOMAIN lilypadJobHistory' = 1 .. n + 1
      /\ \A i \in 1 .. n : lilypadJobHistory'[i] = lilypadJobHistory[i]
      /\ lilypadJobHistory'[n + 1] = job
      /\ DOMAIN lilypadJobHistory = 1 .. n
      /\ Len(lilypadJobHistory') = n + 1
  BY <1>1 DEF TypeInv, Bridge!BridgeTypeOK
<1>3. \A i \in 1 .. n : lilypadJobHistory[i].id \in Nat /\ lilypadJobHistory[i].id < jobIds
  <2> SUFFICES ASSUME NEW i \in DOMAIN lilypadJobHistory
               PROVE  lilypadJobHistory[i].id \in Nat /\ lilypadJobHistory[i].id < jobIds
    BY <1>2
  <2>1. lilypadJobHistory[i] \in Bridge!LilypadJob
    BY DEF TypeInv, Bridge!BridgeTypeOK
  <2> QED BY <2>1 DEF Bridge!LilypadJob, CounterBounds
<1>4. job.id = jobIds
  OBVIOUS
<1>5. jobIds <= n + 1 /\ \A i, k \in 1 .. n :
        lilypadJobHistory[i].id = lilypadJobHistory[k].id => i = k
  BY <1>2 DEF CounterBounds
<1> HIDE DEF n, job
<1>6. /\ \A i \in 1 .. n + 1 : i \in 1 .. n \/ i = n + 1
      /\ n + 1 \in 1 .. n + 1 /\ n + 1 \notin 1 .. n
      /\ 1 .. n + 1 = 1 .. n \cup {n + 1}
  BY <1>1
<1>7. \A i \in 1 .. n : lilypadJobHistory[i].id # jobIds
  BY <1>1, <1>3
<1>8. CounterBounds'
  <2>1. \A i \in 1 .. n + 1 : lilypadJobHistory'[i].id < jobIds + 1
    BY <1>1, <1>2, <1>3, <1>4, <1>6
  <2>2. \A i, k \in 1 .. n + 1 :
          lilypadJobHistory'[i].id = lilypadJobHistory'[k].id => i = k
    BY <1>2, <1>4, <1>5, <1>6, <1>7
  <2>3. jobIds + 1 <= n + 1 + 1 /\ n + 1 <= MaxJobs
    BY <1>1, <1>5, BridgeAssumption
  <2> QED BY <1>1, <1>2, <2>1, <2>2, <2>3 DEF CounterBounds
<1>9. \A i \in DOMAIN lilypadJobHistory :
        lilypadJobHistory'[i] = lilypadJobHistory[i] /\ lilypadJobHistory[i].id # jobIds
  BY <1>2, <1>7
<1> QED BY <1>1, <1>2, <1>6, <1>8, <1>9 DEF job

\* What is known of the jobs of other ids stays known.
LEMMA QueuedKept ==
    ASSUME TypeInv, CounterBounds, NEW from, NEW spec,
           Bridge!RunLilypadJob(from, spec, LILYPAD_FEE),
           NEW id, id # jobIds, NEW p, QueuedOnce(lilypadJobHistory, id, p)
    PROVE  QueuedOnce(lilypadJobHistory', id, p)
<1> DEFINE job == [requestor |-> from, id |-> jobIds, spec |-> spec]
<1>1. PICK last \in DOMAIN lilypadJobHistory' :
        /\ lilypadJobHistory'[last] = job
        /\ last \notin DOMAIN lilypadJobHistory
        /\ DOMAIN lilypadJobHistory' = DOMAIN lilypadJobHistory \cup {last}
  BY JobQueued
<1> HIDE DEF job
<1>2. \A i \in DOMAIN lilypadJobHistory : lilypadJobHistory'[i] = lilypadJobHistory[i]
  BY JobQueued
<1>3. PICK i \in DOMAIN lilypadJobHistory :
        /\ lilypadJobHistory[i].requestor = GovernorAddress
        /\ \E image \in Images : lilypadJobHistory[i].spec = [image |-> image, proposalId |-> p]
        /\ \A k \in DOMAIN lilypadJobHistory : lilypadJobHistory[k].id = id <=> k = i
  BY DEF QueuedOnce
<1>4. job.id = jobIds
  BY DEF job
<1>5. \A k \in DOMAIN lilypadJobHistory' : lilypadJobHistory'[k].id = id <=> k = i
  BY <1>1, <1>2, <1>3, <1>4
<1> QED BY <1>1, <1>2, <1>3, <1>5 DEF QueuedOnce

LEMMA RequestCore ==
    ASSUME IInv, NEW p \in ProposalIds, RequestVoteResolution(p)
    PROVE  CoreInv'
<1> USE DEF IInv, CoreInv
<1>1. /\ Bridge!RunLilypadJob(GovernorAddress, SpecFor(p), LILYPAD_FEE)
      /\ jobIds > 0
      /\ UNCHANGED <<now, claimVars>>
      /\ jobIdToProposal' = [jobIdToProposal EXCEPT ![jobIds] = p]
      /\ proposals' = [proposals EXCEPT ![p].bridgeId = jobIds]
      /\ State(p) = "ResolutionToRequest"
  BY DEF RequestVoteResolution
<1>2. /\ jobIds \in JobIds /\ jobIds \in Nat /\ jobIds' = jobIds + 1
      /\ CounterBounds'
      /\ UNCHANGED lilypadJobResults
  BY <1>1, JobQueued, BridgeAssumption DEF JobIds
<1>3. /\ jobIdToProposal'[jobIds] = p
      /\ \A id \in JobIds \ {jobIds} : jobIdToProposal'[id] = jobIdToProposal[id]
      /\ \A id \in JobIds : jobIdToProposal[id] # ZeroId => id # jobIds
  BY <1>1, <1>2 DEF TypeInv, GovernorTypeOK, MappedJobsClosed
<1>4. Known(p) /\ proposals[p].voteEnd < now
  BY <1>1 DEF State, VotingOpen, TypeInv, GovernorTypeOK, ProposalCore
<1>5. \A q \in Ids :
        /\ proposals'[q].voteStart = proposals[q].voteStart
        /\ proposals'[q].voteEnd = proposals[q].voteEnd
        /\ proposals'[q].voteMerkleRoot = proposals[q].voteMerkleRoot
        /\ proposals'[q].forVotes = proposals[q].forVotes
        /\ proposals'[q].againstVotes = proposals[q].againstVotes
        /\ proposals'[q].bridgeId = IF q = p THEN jobIds ELSE proposals[q].bridgeId
  BY <1>1 DEF TypeInv, GovernorTypeOK, ProposalCore, Ids
<1>6. MappedJobsClosed'
  <2> SUFFICES ASSUME NEW id \in JobIds, jobIdToProposal'[id] # ZeroId
               PROVE  /\ 0 < id /\ id < jobIds + 1
                      /\ proposals'[jobIdToProposal'[id]].voteStart # 0
                      /\ proposals'[jobIdToProposal'[id]].voteEnd < now
    BY <1>1, <1>2 DEF MappedJobsClosed, Known
  <2>1. CASE id = jobIds
    BY <1>1, <1>2, <1>3, <1>4, <1>5, <2>1 DEF Known, Ids
  <2>2. CASE id # jobIds
    <3>1. jobIdToProposal'[id] = jobIdToProposal[id] /\ jobIdToProposal[id] \in Ids
      BY <1>3, <2>2 DEF TypeInv, GovernorTypeOK, Ids
    <3>2. 0 < id /\ id < jobIds /\ id \in Nat
      BY <3>1, BridgeAssumption DEF MappedJobsClosed, JobIds
    <3> QED BY <1>2, <1>5, <3>1, <3>2 DEF MappedJobsClosed, Known
  <2> QED BY <2>1, <2>2
<1>7. ClaimsHaveJob'
  <2> SUFFICES ASSUME NEW q \in ProposalIds, alreadyClaimed[q] # {}
               PROVE  \E id \in JobIds : jobIdToProposal'[id] = q
    BY <1>1 DEF ClaimsHaveJob, claimVars
  <2>1. PICK id \in JobIds : jobIdToProposal[id] = q
    BY DEF ClaimsHaveJob
  <2> QED BY <1>3, <2>1, ProposalsAssumption
<1>8. JobsMatchBridge'
  <2>1. ASSUME NEW id \in JobIds, jobIdToProposal'[id] # ZeroId
        PROVE  QueuedOnce(lilypadJobHistory', id, jobIdToProposal'[id])
    <3>1. CASE id = jobIds
      <4> DEFINE job == [requestor |-> GovernorAddress, id |-> jobIds, spec |-> SpecFor(p)]
      <4>1. /\ job.requestor = GovernorAddress /\ job.id = id
            /\ dockerImage \in Images
            /\ job.spec = [image |-> dockerImage, proposalId |-> p]
        BY <3>1 DEF TypeInv, GovernorTypeOK, SpecFor
      <4>2. PICK last \in DOMAIN lilypadJobHistory' :
              /\ lilypadJobHistory'[last] = job
              /\ last \notin DOMAIN lilypadJobHistory
              /\ DOMAIN lilypadJobHistory' = DOMAIN lilypadJobHistory \cup {last}
        <5>1. TypeInv /\ CounterBounds
          OBVIOUS
        <5>2. Bridge!RunLilypadJob(GovernorAddress, SpecFor(p), LILYPAD_FEE)
          BY <1>1
        <5> HIDE DEF IInv, CoreInv
        <5> QED BY <5>1, <5>2, JobQueued, Zenon
      <4> HIDE DEF job
      <4>3. \A k \in DOMAIN lilypadJobHistory : lilypadJobHistory'[k].id # id
        BY <1>1, <3>1, JobQueued
      <4>4. \A k \in DOMAIN lilypadJobHistory' : lilypadJobHistory'[k].id = id <=> k = last
        BY <4>1, <4>2, <4>3
      <4> QED BY <1>3, <3>1, <4>1, <4>2, <4>4 DEF QueuedOnce
    <3>2. CASE id # jobIds
      <4>1. QueuedOnce(lilypadJobHistory, id, jobIdToProposal[id])
        BY <1>3, <2>1, <3>2, JobsMatchAs
      <4> QED BY <1>1, <1>3, <3>2, <4>1, QueuedKept
    <3> QED BY <3>1, <3>2
  <2>2. ASSUME NEW q \in ProposalIds, proposals'[q].bridgeId # 0
        PROVE  jobIdToProposal'[proposals'[q].bridgeId] = q
    <3>1. CASE q = p
      BY <1>3, <1>5, <3>1 DEF Ids
    <3>2. CASE q # p
      <4>1. jobIdToProposal[proposals[q].bridgeId] = q /\ proposals[q].bridgeId \in Nat
        BY <1>5, <2>2, <3>2 DEF JobsMatchBridge, Ids, TypeInv, GovernorTypeOK, ProposalCore
      <4>2. jobIdToProposal[jobIds] = ZeroId
        BY <1>2, <1>3
      <4>3. proposals[q].bridgeId # jobIds
        BY <4>1, <4>2, ProposalsAssumption
      <4> QED BY <1>1, <1>5, <3>2, <4>1, <4>3 DEF TypeInv, GovernorTypeOK, Ids
    <3> QED BY <3>1, <3>2
  <2> QED BY <2>1, <2>2 DEF JobsMatchBridge, QueuedOnce
<1>9. \A q : Reported(q) \subseteq Reported(q)'
  BY <1>2, <1>3, ReportedKept
<1>10. TallyFromOwnJob'
  BY <1>5, <1>9 DEF TallyFromOwnJob, Ids
<1>11. ClaimsBacked'
  BY <1>1, <1>9 DEF ClaimsBacked, claimVars
<1> QED BY <1>2, <1>6, <1>7, <1>8, <1>10, <1>11

\* A report lands on the proposal its job id maps to, as one piece.
LEMMA ReturnResultsCore ==
    ASSUME IInv, NEW id \in JobIds,
           NEW result \in Responses \cup {Undecodable}, ReturnResults(id, result)
    PROVE  CoreInv'
<1> USE DEF IInv, CoreInv
<1> DEFINE report == [requestor |-> GovernorAddress, id |-> id, success |-> TRUE,
                      result |-> result]
<1>1. PICK q \in Ids : q = jobIdToProposal[id]
  BY DEF TypeInv, GovernorTypeOK, Ids
<1>3. /\ UNCHANGED <<now, jobIdToProposal, claimVars, jobIds, lilypadJobHistory>>
      /\ lilypadJobResults' = lilypadJobResults \cup {report}
  BY DEF ReturnResults, Bridge!ReturnLilypadResults, Bridge!RecordResult, Bridge!jobVars
<1>4. /\ \A p \in Ids \ {q} : proposals'[p] = proposals[p]
      /\ proposals'[q].voteMerkleRoot = result.voteMerkleRoot
      /\ proposals'[q].forVotes = result.forVotes
      /\ proposals'[q].againstVotes = result.againstVotes
      /\ \A p \in Ids : /\ proposals'[p].voteStart = proposals[p].voteStart
                       /\ proposals'[p].voteEnd = proposals[p].voteEnd
                       /\ proposals'[p].bridgeId = proposals[p].bridgeId
  BY <1>1 DEF ReturnResults, LilypadFulfilled, TypeInv, GovernorTypeOK, ProposalCore, Ids
<1>5. CounterBounds' /\ ClaimsHaveJob'
  BY <1>3 DEF CounterBounds, ClaimsHaveJob, claimVars
<1>6. MappedJobsClosed'
  BY <1>3, <1>4 DEF MappedJobsClosed, Known, TypeInv, GovernorTypeOK, Ids
<1>8. JobsMatchBridge'
  <2>1. \A p \in ProposalIds : proposals'[p].bridgeId = proposals[p].bridgeId
    BY <1>4 DEF Ids
  <2> QED BY <1>3, <2>1 DEF JobsMatchBridge
<1>9. \A p : Reported(p) \subseteq Reported(p)'
  BY <1>3, ReportedKept
<1>10. report \in Reported(q)'
  BY <1>1, <1>3 DEF Reported
<1>11. TallyFromOwnJob'
  <2> SUFFICES ASSUME NEW p \in Ids, proposals'[p].voteMerkleRoot # {}
               PROVE  \E r \in Reported(p)' :
                        /\ proposals'[p].voteMerkleRoot = r.result.voteMerkleRoot
                        /\ proposals'[p].forVotes = r.result.forVotes
                        /\ proposals'[p].againstVotes = r.result.againstVotes
    BY DEF TallyFromOwnJob, Ids
  <2>1. CASE p = q
    BY <1>4, <1>10, <2>1
  <2>2. CASE p # q
    BY <1>4, <1>9, <2>2 DEF TallyFromOwnJob, Ids
  <2> QED BY <2>1, <2>2
<1>12. ClaimsBacked'
  BY <1>3, <1>9 DEF ClaimsBacked, claimVars
<1> QED BY <1>5, <1>6, <1>8, <1>11, <1>12

\* A cancellation, with an error recorded or without, ends at most the wait for a job.
LEMMA CancelCore ==
    ASSUME IInv, NEW id \in JobIds, LilypadCancelled(id),
           UNCHANGED <<now, jobIdToProposal, claimVars, jobIds, lilypadJobHistory>>,
           lilypadJobResults \subseteq lilypadJobResults'
    PROVE  CoreInv'
<1> USE DEF IInv, CoreInv
<1>1. \A p \in Ids :
        /\ proposals'[p].voteStart = proposals[p].voteStart
        /\ proposals'[p].voteEnd = proposals[p].voteEnd
        /\ proposals'[p].voteMerkleRoot = proposals[p].voteMerkleRoot
        /\ proposals'[p].forVotes = proposals[p].forVotes
        /\ proposals'[p].againstVotes = proposals[p].againstVotes
        /\ proposals'[p].bridgeId \in {0, proposals[p].bridgeId}
  BY DEF LilypadCancelled, TypeInv, GovernorTypeOK, ProposalCore, Ids
<1>2. CounterBounds' /\ ClaimsHaveJob'
  BY DEF CounterBounds, ClaimsHaveJob, claimVars
<1>3. MappedJobsClosed'
  BY <1>1 DEF MappedJobsClosed, Known, TypeInv, GovernorTypeOK, Ids
<1>4. JobsMatchBridge'
  BY <1>1 DEF JobsMatchBridge, Ids
<1>5. \A p : Reported(p) \subseteq Reported(p)'
  BY ReportedKept
<1>6. TallyFromOwnJob' /\ ClaimsBacked'
  BY <1>1, <1>5 DEF TallyFromOwnJob, ClaimsBacked, claimVars, Ids
<1> QED BY <1>2, <1>3, <1>4, <1>6

LEMMA ReturnErrorCore ==
    ASSUME IInv, NEW id \in JobIds, NEW errorMsg \in ErrorMessages, ReturnError(id, errorMsg)
    PROVE  CoreInv'
BY CancelCore DEF ReturnError, Bridge!ReturnLilypadError, Bridge!RecordResult, Bridge!jobVars

LEMMA CancelDirectlyCore ==
    ASSUME IInv, NEW id \in JobIds, CancelDirectly(id)
    PROVE  CoreInv'
BY CancelCore DEF CancelDirectly, bridgeVars

\* The leaf that is claimed is a leaf of the result the proposal carries.
LEMMA ClaimRewardCore ==
    ASSUME IInv, NEW p \in Ids, NEW user \in Users, NEW amount,
           ClaimReward(user, amount, p)
    PROVE  CoreInv'
<1> USE DEF IInv, CoreInv
<1> DEFINE claim == [user |-> user, amount |-> amount, proposalId |-> p]
<1>1. /\ UNCHANGED <<now, proposals, jobIdToProposal, jobIds, lilypadJobHistory,
                     lilypadJobResults>>
      /\ <<user, amount>> \in proposals[p].voteMerkleRoot
      /\ alreadyClaimed' = [alreadyClaimed EXCEPT ![p] = @ \cup {user}]
      /\ claimedRewards' = claimedRewards \cup {claim}
  BY DEF ClaimReward, bridgeVars
<1>2. PICK r \in Reported(p) : proposals[p].voteMerkleRoot = r.result.voteMerkleRoot
  BY <1>1 DEF TallyFromOwnJob, Ids
<1>3. CounterBounds' /\ MappedJobsClosed' /\ JobsMatchBridge' /\ TallyFromOwnJob'
  BY <1>1 DEF CounterBounds, MappedJobsClosed, Known, JobsMatchBridge, TallyFromOwnJob, Reported
<1>4. ClaimsHaveJob'
  <2> SUFFICES ASSUME NEW q \in ProposalIds, alreadyClaimed'[q] # {}
               PROVE  \E id \in JobIds : jobIdToProposal[id] = q
    BY <1>1 DEF ClaimsHaveJob
  <2>1. CASE q # p
    BY <1>1, <2>1 DEF ClaimsHaveJob, TypeInv, GovernorTypeOK, Ids
  <2>2. CASE q = p
    <3>1. r \in lilypadJobResults /\ jobIdToProposal[r.id] = q
      BY <1>2, <2>2, ProposalsAssumption DEF Reported
    <3>2. r.id \in JobIds
      BY <3>1 DEF TypeInv, Bridge!BridgeTypeOK, Bridge!LilypadJobResult
    <3> QED BY <3>1, <3>2
  <2> QED BY <2>1, <2>2
<1>5. ClaimsBacked'
  BY <1>1, <1>2 DEF ClaimsBacked, Reported
<1> QED BY <1>3, <1>4, <1>5

LEMMA ExecuteCore ==
    ASSUME IInv, NEW p \in ProposalIds, Execute(p)
    PROVE  CoreInv'
<1> USE DEF IInv, CoreInv
<1>1. UNCHANGED <<now, jobIdToProposal, claimVars, bridgeVars>>
  BY DEF Execute
<1>2. \A q \in Ids :
        /\ proposals'[q].voteStart = proposals[q].voteStart
        /\ proposals'[q].voteEnd = proposals[q].voteEnd
        /\ proposals'[q].voteMerkleRoot = proposals[q].voteMerkleRoot
        /\ proposals'[q].forVotes = proposals[q].forVotes
        /\ proposals'[q].againstVotes = proposals[q].againstVotes
        /\ proposals'[q].bridgeId = proposals[q].bridgeId
  BY DEF Execute, TypeInv, GovernorTypeOK, ProposalCore, Ids
<1>3. CounterBounds' /\ ClaimsHaveJob'
  BY <1>1 DEF CounterBounds, ClaimsHaveJob, claimVars, bridgeVars
<1>4. MappedJobsClosed'
  BY <1>1, <1>2 DEF MappedJobsClosed, Known, TypeInv, GovernorTypeOK, Ids, bridgeVars
<1>5. JobsMatchBridge'
  BY <1>1, <1>2 DEF JobsMatchBridge, Ids, bridgeVars
<1>6. TallyFromOwnJob' /\ ClaimsBacked'
  BY <1>1, <1>2 DEF TallyFromOwnJob, ClaimsBacked, Reported, claimVars, bridgeVars, Ids
<1> QED BY <1>3, <1>4, <1>5, <1>6

\* A job of somebody else takes the next id, whoever it is said to be from.
LEMMA OtherRequestCore ==
    ASSUME IInv, NEW from \in Clients, NEW spec \in JobSpecs, OtherRequest(from, spec)
    PROVE  CoreInv'
<1> USE DEF IInv, CoreInv
<1>1. /\ Bridge!RunLilypadJob(from, spec, LILYPAD_FEE)
      /\ UNCHANGED <<now, proposals, jobIdToProposal, claimVars>>
  BY DEF OtherRequest, governorVars
<1>2. /\ jobIds \in Nat /\ jobIds' = jobIds + 1
      /\ CounterBounds'
      /\ UNCHANGED lilypadJobResults
  BY <1>1, JobQueued, BridgeAssumption DEF JobIds
<1>3. \A id \in JobIds : jobIdToProposal[id] # ZeroId => id \in Nat /\ id # jobIds
  BY <1>2, BridgeAssumption DEF MappedJobsClosed, JobIds
<1>4. MappedJobsClosed'
  BY <1>1, <1>2, BridgeAssumption DEF MappedJobsClosed, Known, JobIds
<1>5. JobsMatchBridge'
  <2>1. ASSUME NEW id \in JobIds, jobIdToProposal[id] # ZeroId
        PROVE  QueuedOnce(lilypadJobHistory', id, jobIdToProposal[id])
    BY <1>1, <1>3, <2>1, JobsMatchAs, QueuedKept
  <2>2. \A p \in ProposalIds : proposals[p].bridgeId # 0 =>
          jobIdToProposal[proposals[p].bridgeId] = p
    BY DEF JobsMatchBridge
  <2> QED BY <1>1, <2>1, <2>2 DEF JobsMatchBridge, QueuedOnce
<1>6. ClaimsHaveJob' /\ TallyFromOwnJob' /\ ClaimsBacked'
  BY <1>1, <1>2 DEF ClaimsHaveJob, TallyFromOwnJob, ClaimsBacked, Reported, claimVars
<1> QED BY <1>2, <1>4, <1>5, <1>6

\* Every step: the transactions of the Governor's own protocol, and all others.
LEMMA CoreStep ==
    ASSUME IInv, [Next]_vars
    PROVE  CoreInv'
<1>1. now \in Nat
  BY DEF IInv, TypeInv, GovernorTypeOK
<1>2. CASE DeployerNext \/ Tick
  <2>1. now' \in Nat /\ now' >= now
    BY <1>1, <1>2 DEF DeployerNext, SetVotingPeriod, SetQuorumPercentage,
                      SetEmissionPerVote, SetDockerImage, Tick
  <2>2. UNCHANGED <<proposals, jobIdToProposal, claimVars, bridgeVars>>
    BY <1>2 DEF DeployerNext, SetVotingPeriod, SetQuorumPercentage,
                SetEmissionPerVote, SetDockerImage, Tick, governorVars
  <2> QED BY <2>1, <2>2, CoreFrame DEF bridgeVars
<1>3. CASE UserNext
  <2>1. ASSUME NEW from \in Users, NEW to \in Users, NEW amount \in TransferAmounts,
               TransferTokens(from, to, amount)
        PROVE  CoreInv'
    BY <1>1, <2>1, CoreFrame DEF TransferTokens, governorVars, bridgeVars
  <2> QED BY <1>3, <2>1, ProposeCore, RequestCore, ExecuteCore, ClaimRewardCore
          DEF UserNext, Ids
<1>4. CASE BridgeNext
  <2>1. CASE InitializeBridge
    BY <1>1, <2>1, CoreFrame
       DEF InitializeBridge, Bridge!Initialize, Bridge!jobVars, governorVars
  <2> QED BY <1>4, <2>1, ReturnResultsCore, ReturnErrorCore, CancelDirectlyCore,
             OtherRequestCore
          DEF BridgeNext
<1>5. CASE UNCHANGED vars
  BY <1>1, <1>5, CoreFrame DEF vars, governorVars, bridgeVars
<1> QED BY <1>2, <1>3, <1>4, <1>5 DEF Next

-----------------------------------------------------------------------------
(* The theorems. *)

\* A proposal with a job, a result or a claim has a closed vote: a result speaks
\* for a job of the proposal, and every job was requested after the deadline.
LEMMA ClosedBeforeTally ==
    ASSUME IInv
    PROVE  VotingClosedBeforeTally
<1> USE DEF IInv, CoreInv
<1> SUFFICES ASSUME NEW p \in ProposalIds,
                    \/ \E id \in JobIds : jobIdToProposal[id] = p
                    \/ proposals[p].voteMerkleRoot # {}
                    \/ alreadyClaimed[p] # {}
             PROVE  Known(p) /\ proposals[p].voteEnd < now
  BY DEF VotingClosedBeforeTally
<1>1. ASSUME proposals[p].voteMerkleRoot # {}
      PROVE  \E id \in JobIds : jobIdToProposal[id] = p
  <2>1. PICK r \in lilypadJobResults : jobIdToProposal[r.id] = p
    BY <1>1, ProposalsAssumption DEF TallyFromOwnJob, Reported
  <2>2. r.id \in JobIds
    BY DEF TypeInv, Bridge!BridgeTypeOK, Bridge!LilypadJobResult
  <2> QED BY <2>1, <2>2
<1>2. PICK id \in JobIds : jobIdToProposal[id] = p
  BY <1>1 DEF ClaimsHaveJob
<1> QED BY <1>2, ProposalsAssumption DEF MappedJobsClosed

\* The inductive invariant: types of the four contracts, and what ties the jobs,
\* the reports, the proposals and the claims together.
THEOREM Inductive == Spec => []IInv
<1>1. IInv /\ [Next]_vars => IInv'
  BY TypeStep, CoreStep DEF IInv
<1> QED BY <1>1, InitIInv, PTL DEF Spec

\* Every variable of the Governor keeps its type; in particular a result that is
\* decoded into a proposal, for whatever job id, is one.
THEOREM GovernorTypes == Spec => []GovernorTypeOK
<1>1. IInv => GovernorTypeOK
  BY DEF IInv, TypeInv
<1> QED BY <1>1, Inductive, PTL

\* What jobIdToProposal and bridgeId say is in the bridge's job history, whoever else
\* queues jobs there, in the Governor's name too.
THEOREM JobsAgree == Spec => []JobsMatchBridge
<1>1. IInv => JobsMatchBridge
  BY DEF IInv, CoreInv
<1> QED BY <1>1, Inductive, PTL

\* No job, no result and no reward before the voting of a proposal is over, for
\* any deadline, any number of jobs and retries, and any order of the reports.
THEOREM NoTallyWhileVoting == Spec => []VotingClosedBeforeTally
<1>1. IInv => VotingClosedBeforeTally
  BY ClosedBeforeTally
<1> QED BY <1>1, Inductive, PTL

\* The result a proposal carries was reported, whole, for a job of that proposal, although
\* results come for any id at any time, before the id is given to a job too.
THEOREM TallyIsReported == Spec => []TallyFromOwnJob
<1>1. IInv => TallyFromOwnJob
  BY DEF IInv, CoreInv
<1> QED BY <1>1, Inductive, PTL

\* Every reward paid is a leaf of a result reported for the proposal it is
\* claimed under.
THEOREM RewardsAreReported == Spec => []ClaimsBacked
<1>1. IInv => ClaimsBacked
  BY DEF IInv, CoreInv
<1> QED BY <1>1, Inductive, PTL

\* The registry is written only by a step that takes one proposal from Succeeded
\* to Executed and leaves the records of all others alone.
THEOREM RegistryWrittenByExecution == Spec => ExecutionIsGoverned
<1> DEFINE Governed ==
      adapters' # adapters \/ adapterNames' # adapterNames =>
        \E p \in ProposalIds :
          /\ State(p) = "Succeeded" /\ State(p)' = "Executed"
          /\ \A q \in ProposalIds \ {p} : proposals'[q] = proposals[q]
<1>1. ASSUME IInv, Next PROVE Governed
  <2>1. ASSUME NEW p \in ProposalIds, Execute(p) PROVE Governed
    <3>1. proposals' = [proposals EXCEPT ![p].executed = TRUE]
      BY <2>1 DEF Execute
    <3>2. /\ proposals'[p].executed
          /\ \A q \in ProposalIds \ {p} : proposals'[q] = proposals[q]
      BY <1>1, <3>1 DEF IInv, TypeInv, GovernorTypeOK, ProposalCore
    <3>3. State(p)' = "Executed"
      BY <3>2 DEF State
    <3> QED BY <2>1, <3>2, <3>3 DEF Execute
  <2>2. CASE DeployerNext \/ BridgeNext \/ Tick
    BY <2>2 DEF DeployerNext, SetVotingPeriod, SetQuorumPercentage, SetEmissionPerVote,
                SetDockerImage, BridgeNext, ReturnResults, ReturnError, CancelDirectly,
                OtherRequest, InitializeBridge, Tick, registryVars
  <2>3. CASE UserNext
    BY <2>1, <2>3 DEF UserNext, Propose, RequestVoteResolution, ClaimReward,
                      TransferTokens, registryVars
  <2> QED BY <1>1, <2>1, <2>2, <2>3 DEF Next
<1>2. IInv /\ [Next]_vars => [Governed]_vars
  BY <1>1
<1> QED BY <1>2, Inductive, PTL DEF Spec, ExecutionIsGoverned

\* The Governor's bridge takes steps of the bridge's own specification, with the fee as
\* the payment of every job, so that what is proved of the escrow there holds here. Nobody
\* sets the fee in the composition: it is what the deployment left in the storage.
FeeAsDeployed == LILYPAD_FEE \in {0, DefaultFee}

THEOREM BridgeRefined == Spec => Bridge!BridgeSpec
<1>1. Init => Bridge!BridgeInit
  BY DEF Init
<1>2. Init => FeeAsDeployed
  BY DEF Init, Bridge!BridgeInit, Bridge!DirectStorage, Bridge!ProxiedStorage, FeeAsDeployed
<1>3. FeeAsDeployed /\ [Next]_vars => FeeAsDeployed'
  <2> SUFFICES ASSUME [Next]_vars PROVE UNCHANGED LILYPAD_FEE
    BY DEF FeeAsDeployed
  <2>1. CASE DeployerNext \/ Tick \/ UNCHANGED vars
    BY <2>1 DEF DeployerNext, SetVotingPeriod, SetQuorumPercentage, SetEmissionPerVote,
                SetDockerImage, Tick, vars, bridgeVars
  <2>2. CASE UserNext
    BY <2>2 DEF UserNext, Propose, RequestVoteResolution, Bridge!RunLilypadJob, Execute,
                ClaimReward, TransferTokens, bridgeVars, Bridge!settingVars
  <2>3. CASE BridgeNext
    BY <2>3 DEF BridgeNext, ReturnResults, ReturnError, CancelDirectly, OtherRequest,
                InitializeBridge, bridgeVars, Bridge!ReturnLilypadResults,
                Bridge!ReturnLilypadError, Bridge!RecordResult, Bridge!RunLilypadJob,
                Bridge!Initialize, Bridge!settingVars
  <2> QED BY <2>1, <2>2, <2>3 DEF Next
<1>4. IInv /\ FeeAsDeployed /\ [Next]_vars => [Bridge!BridgeNext]_Bridge!bridgeVars
  <2> SUFFICES ASSUME IInv, FeeAsDeployed, [Next]_vars
               PROVE  Bridge!BridgeNext \/ UNCHANGED bridgeVars
    BY DEF bridgeVars, Bridge!bridgeVars, Bridge!adminVars, Bridge!escrowVars,
           Bridge!settingVars, Bridge!jobVars
  <2>1. ASSUME NEW p \in ProposalIds, RequestVoteResolution(p) PROVE Bridge!BridgeNext
    <3>1. SpecFor(p) \in JobSpecs /\ GovernorAddress \in Clients
      BY DEF IInv, TypeInv, GovernorTypeOK, SpecFor, JobSpecs, Clients
    <3> QED BY <2>1, <3>1 DEF RequestVoteResolution, FeeAsDeployed, Bridge!BridgeNext
  <2>2. ASSUME NEW from \in Clients, NEW spec \in JobSpecs, OtherRequest(from, spec)
        PROVE  Bridge!BridgeNext
    BY <2>2 DEF OtherRequest, FeeAsDeployed, Bridge!BridgeNext
  <2>3. ASSUME NEW id \in JobIds,
               \/ \E result \in Responses \cup {Undecodable} : ReturnResults(id, result)
               \/ \E errorMsg \in ErrorMessages : ReturnError(id, errorMsg)
        PROVE  Bridge!BridgeNext
    <3>1. GovernorAddress \in Clients
      BY DEF Clients
    <3> QED BY <2>3, <3>1 DEF ReturnResults, ReturnError, Bridge!BridgeNext
  <2>4. ASSUME NEW id \in JobIds, CancelDirectly(id) PROVE UNCHANGED bridgeVars
    BY <2>4 DEF CancelDirectly
  <2>5. CASE InitializeBridge
    BY <2>5 DEF InitializeBridge, Bridge!BridgeNext
  <2>6. CASE DeployerNext \/ Tick \/ UNCHANGED vars
    BY <2>6 DEF DeployerNext, SetVotingPeriod, SetQuorumPercentage, SetEmissionPerVote,
                SetDockerImage, Tick, vars
  <2>7. CASE UserNext
    BY <2>1, <2>7 DEF UserNext, Propose, Execute, ClaimReward, TransferTokens
  <2> QED BY <2>1, <2>2, <2>3, <2>4, <2>5, <2>6, <2>7 DEF Next, BridgeNext
<1> QED BY <1>1, <1>2, <1>3, <1>4, Inductive, PTL DEF Spec, Bridge!BridgeSpec

-----------------------------------------------------------------------------
(* Properties with an invariant of their own beside IInv. *)

\* What is neither a proposal's, a job's nor a report's step changes no record.
LEMMA RecordsKept ==
    ASSUME \/ DeployerNext \/ Tick \/ UNCHANGED vars \/ InitializeBridge
           \/ \E from, to \in Users, amount \in TransferAmounts : TransferTokens(from, to, amount)
           \/ \E from \in Clients, spec \in JobSpecs : OtherRequest(from, spec)
           \/ \E p \in ProposalIds \cup {ZeroId}, user \in Users :
                \E amount \in {leaf[2] : leaf \in proposals[p].voteMerkleRoot} :
                  ClaimReward(user, amount, p)
    PROVE  /\ proposals' = proposals /\ jobIdToProposal' = jobIdToProposal
           /\ UNCHANGED registryVars
BY DEF DeployerNext, SetVotingPeriod, SetQuorumPercentage, SetEmissionPerVote, SetDockerImage,
       Tick, vars, governorVars, InitializeBridge, TransferTokens, OtherRequest, ClaimReward

\* lilypadCancelled, through the bridge or not.
Cancellation(id) ==
    CancelDirectly(id) \/ \E errorMsg \in ErrorMessages : ReturnError(id, errorMsg)

LEMMA CancellationFacts ==
    ASSUME NEW id, Cancellation(id)
    PROVE  /\ LilypadCancelled(id)
           /\ UNCHANGED <<now, settings, jobIdToProposal, claimVars, tokenVars, registryVars>>
BY DEF Cancellation, ReturnError, CancelDirectly

LEMMA AllSteps ==
    ASSUME [Next]_vars
    PROVE  \/ \E p \in ProposalIds, user \in Users : Propose(p, user)
           \/ \E p \in ProposalIds : RequestVoteResolution(p)
           \/ \E p \in ProposalIds : Execute(p)
           \/ \E id \in JobIds, result \in Responses \cup {Undecodable} : ReturnResults(id, result)
           \/ \E id \in JobIds : Cancellation(id)
           \/ \E from \in Clients, spec \in JobSpecs : OtherRequest(from, spec)
           \/ \/ DeployerNext \/ Tick \/ UNCHANGED vars \/ InitializeBridge
              \/ \E from, to \in Users, amount \in TransferAmounts : TransferTokens(from, to, amount)
              \/ \E p \in ProposalIds \cup {ZeroId}, user \in Users :
                   \E amount \in {leaf[2] : leaf \in proposals[p].voteMerkleRoot} :
                     ClaimReward(user, amount, p)
BY DEF Next, UserNext, BridgeNext, Cancellation

\* An executed proposal is a known one and stays executed; no other step executes one.
ExecutedKnown == \A p \in ProposalIds : proposals[p].executed => Known(p)

LEMMA ExecutedStays ==
    ASSUME IInv, ExecutedKnown, [Next]_vars
    PROVE  /\ ExecutedKnown'
           /\ \A p \in ProposalIds :
                /\ proposals[p].executed => proposals'[p].executed
                /\ proposals'[p].executed => proposals[p].executed \/ Execute(p)
<1> USE DEF ExecutedKnown, Known
<1>1. /\ proposals \in [ProposalIds \cup {ZeroId} -> ProposalCore]
      /\ jobIdToProposal \in [JobIds -> ProposalIds \cup {ZeroId}]
      /\ now \in Nat \ {0}
  BY DEF IInv, TypeInv, GovernorTypeOK
<1>2. ASSUME NEW p \in ProposalIds, NEW user \in Users, Propose(p, user)
      PROVE  /\ ExecutedKnown'
             /\ \A q \in ProposalIds :
                  /\ proposals[q].executed => proposals'[q].executed
                  /\ proposals'[q].executed => proposals[q].executed \/ Execute(q)
  <2>1. /\ ~proposals[p].executed /\ ~proposals'[p].executed /\ proposals'[p].voteStart # 0
        /\ \A q \in ProposalIds \ {p} : proposals'[q] = proposals[q]
    BY <1>1, <1>2 DEF Propose, NoProposal
  <2> QED BY <2>1
<1>3. ASSUME NEW p \in ProposalIds, RequestVoteResolution(p)
      PROVE  /\ ExecutedKnown'
             /\ \A q \in ProposalIds :
                  /\ proposals[q].executed => proposals'[q].executed
                  /\ proposals'[q].executed => proposals[q].executed \/ Execute(q)
  <2>1. \A q \in ProposalIds : /\ proposals'[q].executed = proposals[q].executed
                               /\ proposals'[q].voteStart = proposals[q].voteStart
    BY <1>1, <1>3 DEF RequestVoteResolution, ProposalCore
  <2> QED BY <2>1
<1>4. ASSUME NEW p \in ProposalIds, Execute(p)
      PROVE  /\ ExecutedKnown'
             /\ \A q \in ProposalIds :
                  /\ proposals[q].executed => proposals'[q].executed
                  /\ proposals'[q].executed => proposals[q].executed \/ Execute(q)
  <2>1. Known(p)
    BY <1>4 DEF Execute, State
  <2>2. \A q \in ProposalIds : /\ proposals'[q].executed = (q = p \/ proposals[q].executed)
                               /\ proposals'[q].voteStart = proposals[q].voteStart
    BY <1>1, <1>4 DEF Execute, ProposalCore
  <2> QED BY <1>4, <2>1, <2>2
<1>5. ASSUME NEW id \in JobIds,
             \/ \E result \in Responses \cup {Undecodable} : ReturnResults(id, result)
             \/ Cancellation(id)
      PROVE  /\ ExecutedKnown'
             /\ \A q \in ProposalIds :
                  /\ proposals[q].executed => proposals'[q].executed
                  /\ proposals'[q].executed => proposals[q].executed \/ Execute(q)
  <2>1. PICK r \in ProposalIds \cup {ZeroId} : r = jobIdToProposal[id]
    BY <1>1
  <2>2. ASSUME NEW result \in Responses \cup {Undecodable}, ReturnResults(id, result)
        PROVE  \A q \in ProposalIds : /\ proposals'[q].executed = proposals[q].executed
                                      /\ proposals'[q].voteStart = proposals[q].voteStart
    BY <1>1, <2>1, <2>2 DEF ReturnResults, LilypadFulfilled, ProposalCore
  <2>3. ASSUME Cancellation(id)
        PROVE  \A q \in ProposalIds : /\ proposals'[q].executed = proposals[q].executed
                                      /\ proposals'[q].voteStart = proposals[q].voteStart
    <3>1. proposals' = [proposals EXCEPT ![r].bridgeId = 0]
      BY <2>1, <2>3, CancellationFacts DEF LilypadCancelled
    <3> QED BY <1>1, <2>1, <3>1 DEF ProposalCore
  <2>4. \A q \in ProposalIds : /\ proposals'[q].executed = proposals[q].executed
                               /\ proposals'[q].voteStart = proposals[q].voteStart
    BY <1>5, <2>2, <2>3
  <2> QED BY <2>4
<1> QED BY <1>2, <1>3, <1>4, <1>5, AllSteps, RecordsKept

\* What the registry has after one more call was there before it, with its hash, or is
\* what the call adds.
LEMMA AddedByCall ==
    ASSUME NEW call \in Call, NEW owned \in OwnedTypes, NEW name \in Names,
           Registry!Exists(AfterCall(call, owned).registry, name)
    PROVE  \/ /\ Registry!Exists(owned.registry, name)
              /\ AfterCall(call, owned).registry.adapters[name] = owned.registry.adapters[name]
           \/ call = [op |-> "add", name |-> name,
                      ipfsHash |-> AfterCall(call, owned).registry.adapters[name].ipfsHash]
<1>1. owned.registry.adapters \in [Names -> Registry!Adapter]
  BY DEF OwnedTypes
<1>2. CASE call.op = "add"
  <2>1. /\ call \in [op : {"add"}, name : Names, ipfsHash : Hashes]
        /\ call.name \in Names
    BY <1>2 DEF Call
  <2>2. AfterCall(call, owned).registry.adapters =
          [owned.registry.adapters EXCEPT ![call.name] =
             [name |-> call.name, ipfsHash |-> call.ipfsHash]]
    BY <1>2 DEF AfterCall, Registry!Added
  <2>3. call = [op |-> "add", name |-> call.name, ipfsHash |-> call.ipfsHash]
    BY <2>1
  <2>4. CASE name = call.name
    <3>1. AfterCall(call, owned).registry.adapters[name].ipfsHash = call.ipfsHash
      BY <1>1, <2>1, <2>2, <2>4
    <3> QED BY <2>3, <2>4, <3>1
  <2>5. CASE name # call.name
    BY <1>1, <2>1, <2>2, <2>5 DEF Registry!Exists
  <2> QED BY <2>4, <2>5
<1>3. CASE call.op = "remove"
  <2>1. call.name \in Names
    BY <1>3 DEF Call
  <2>2. AfterCall(call, owned).registry.adapters =
          [owned.registry.adapters EXCEPT ![call.name] = Registry!NoAdapter]
    BY <1>3 DEF AfterCall, Registry!Removed
  <2>3. name # call.name
    BY <1>1, <2>1, <2>2 DEF Registry!Exists, Registry!NoAdapter
  <2> QED BY <1>1, <2>1, <2>2, <2>3 DEF Registry!Exists
<1>4. CASE call.op \notin {"add", "remove"}
  BY <1>4 DEF AfterCall
<1> QED BY <1>2, <1>3, <1>4

\* The registry changes with the calls of a proposal that is executed with them.
LEMMA GovernedStep ==
    ASSUME IInv, ExecutedKnown, RegistryGoverned, [Next]_vars
    PROVE  RegistryGoverned'
<1>1. \A p \in ProposalIds : proposals[p].executed => proposals'[p].executed
  BY ExecutedStays
<1>2. CASE UNCHANGED registryVars
  BY <1>1, <1>2 DEF RegistryGoverned, registryVars, Registry!Registered, Registry!Storage,
                    Registry!Exists
<1>3. ASSUME NEW p \in ProposalIds, Execute(p)
      PROVE  RegistryGoverned'
  <2> DEFINE Before(storage, name) ==
               /\ Registry!Exists(Registry!Storage, name)
               /\ storage.adapters[name] = adapters[name]
             InCalls(storage, name) ==
               \E i \in DOMAIN Calls[p] : Calls[p][i] =
                 [op |-> "add", name |-> name, ipfsHash |-> storage.adapters[name].ipfsHash]
             Explained(storage) ==
               \A name \in Names : Registry!Exists(storage, name) =>
                 Before(storage, name) \/ InCalls(storage, name)
             Kept == {owned \in OwnedTypes : Explained(owned.registry)}
  <2>1. /\ Calls[p] \in Seq(Call) /\ MakeCalls(Calls[p]) /\ proposals'[p].executed
        /\ TypeInv
    BY <1>3, ProposalsAssumption DEF Execute, IInv, TypeInv, GovernorTypeOK, ProposalCore
  <2>2. Owned \in Kept
    <3>1. Explained(Registry!Storage)
      BY DEF Registry!Storage
    <3>2. Owned \in OwnedTypes /\ Owned.registry = Registry!Storage
      BY <2>1, OwnedTyped DEF Owned
    <3> HIDE DEF Explained
    <3> QED BY <3>1, <3>2
  <2>3. ASSUME NEW call \in Call, NEW owned \in OwnedTypes,
               \E i \in DOMAIN Calls[p] : call = Calls[p][i], owned \in Kept
        PROVE  AfterCall(call, owned) \in Kept
    <3> DEFINE after == AfterCall(call, owned)
    <3>1. after \in OwnedTypes
      BY AfterCallTypes
    <3>2. \A name \in Names : Registry!Exists(after.registry, name) =>
            \/ /\ Registry!Exists(owned.registry, name)
               /\ after.registry.adapters[name] = owned.registry.adapters[name]
            \/ call = [op |-> "add", name |-> name,
                       ipfsHash |-> after.registry.adapters[name].ipfsHash]
      BY AddedByCall
    <3>3. Explained(owned.registry)
      BY <2>3
    <3> HIDE DEF after
    <3>4. ASSUME NEW name \in Names, Registry!Exists(after.registry, name)
          PROVE  Before(after.registry, name) \/ InCalls(after.registry, name)
      <4>1. CASE call = [op |-> "add", name |-> name,
                         ipfsHash |-> after.registry.adapters[name].ipfsHash]
        BY <2>3, <4>1
      <4>2. CASE /\ Registry!Exists(owned.registry, name)
                 /\ after.registry.adapters[name] = owned.registry.adapters[name]
        BY <3>3, <4>2
      <4> QED BY <3>2, <3>4, <4>1, <4>2
    <3> HIDE DEF Before, InCalls
    <3>5. Explained(after.registry)
      BY <3>4
    <3> HIDE DEF Explained
    <3> QED BY <3>1, <3>5 DEF after
  <2> HIDE DEF Kept
  <2>4. Owned' \in Kept
    BY <2>1, <2>2, <2>3, CallsKeep
  <2> USE DEF Kept
  <2>5. \A name \in Names : Registry!Registered(name)' =>
          \/ Registry!Registered(name) /\ adapters'[name] = adapters[name]
          \/ \E i \in DOMAIN Calls[p] : Calls[p][i] =
               [op |-> "add", name |-> name, ipfsHash |-> adapters'[name].ipfsHash]
    BY <2>4 DEF Owned, Registry!Registered, Registry!Storage
  <2> HIDE DEF Kept
  <2> SUFFICES ASSUME NEW name \in Names, Registry!Registered(name)'
               PROVE  \E q \in ProposalIds :
                        /\ proposals'[q].executed
                        /\ \E i \in DOMAIN Calls[q] : Calls[q][i] =
                             [op |-> "add", name |-> name, ipfsHash |-> adapters'[name].ipfsHash]
    BY DEF RegistryGoverned
  <2>6. CASE Registry!Registered(name) /\ adapters'[name] = adapters[name]
    BY <1>1, <2>6 DEF RegistryGoverned
  <2>7. CASE \E i \in DOMAIN Calls[p] : Calls[p][i] =
               [op |-> "add", name |-> name, ipfsHash |-> adapters'[name].ipfsHash]
    BY <2>1, <2>7
  <2> QED BY <2>5, <2>6, <2>7
<1>4. \/ UNCHANGED registryVars
      \/ \E p \in ProposalIds : Execute(p)
  BY AllSteps, RecordsKept, CancellationFacts
     DEF Propose, RequestVoteResolution, ReturnResults
<1> QED BY <1>2, <1>3, <1>4

\* An approved adapter is one that an executed proposal was made to add, with the
\* hash that was voted on, whatever was removed and added again, in one execution too.
THEOREM RegistryIsVoted == Spec => []RegistryGoverned
<1>1. Init => ExecutedKnown /\ RegistryGoverned
  BY DEF Init, NoProposal, ExecutedKnown, RegistryGoverned, Registry!RegistryInit,
         Registry!Registered, Registry!NoAdapter, Registry!Exists, Registry!Storage
<1>2. IInv /\ ExecutedKnown /\ RegistryGoverned /\ [Next]_vars
        => (ExecutedKnown /\ RegistryGoverned)'
  BY ExecutedStays, GovernedStep
<1> QED BY <1>1, <1>2, Inductive, PTL DEF Spec

-----------------------------------------------------------------------------
(* The registry's mapping and its array, written by lists of calls. *)

\* The registry's module has its own copy of the library's notions.
LEMMA ArrayNotions ==
    ASSUME NEW f
    PROVE  Registry!Range(f) = Range(f) /\ (Registry!IsInjective(f) <=> IsInjective(f))
BY DEF Registry!Range, Range, Registry!IsInjective, IsInjective

LEMMA AddedInStep ==
    ASSUME EmptyName \notin Names, NEW storage, Registry!InStep(storage),
           NEW name \in Names, NEW ipfsHash \in Hashes, ~Registry!Exists(storage, name)
    PROVE  Registry!InStep(Registry!Added(storage, name, ipfsHash))
<1> DEFINE after == Registry!Added(storage, name, ipfsHash)
           new == [name |-> name, ipfsHash |-> ipfsHash]
<1>1. /\ after.adapters = [storage.adapters EXCEPT ![name] = new]
      /\ after.adapterNames = Append(storage.adapterNames, name)
  BY DEF Registry!Added
<1> HIDE DEF after
<1>2. /\ after.adapterNames \in Seq(Names)
      /\ Range(after.adapterNames) = Range(storage.adapterNames) \cup {name}
      /\ IsInjective(after.adapterNames)
  BY <1>1, AppendAddsOne, ArrayNotions DEF Registry!InStep
<1>3. \A n \in Names : after.adapters[n] = IF n = name THEN new ELSE storage.adapters[n]
  BY <1>1 DEF Registry!InStep
<1>4. after.adapters \in [Names -> Registry!Adapter]
  BY <1>1 DEF Registry!InStep, Registry!Adapter
<1>5. {n \in Names : Registry!Exists(after, n)} =
        {n \in Names : Registry!Exists(storage, n)} \cup {name}
  BY <1>3 DEF Registry!Exists
<1>6. \A n \in Names : after.adapters[n].name \in {n, EmptyName}
  BY <1>3 DEF Registry!InStep
<1> QED BY <1>2, <1>4, <1>5, <1>6, ArrayNotions DEF Registry!InStep, after

LEMMA RemovedInStep ==
    ASSUME NEW storage, Registry!InStep(storage),
           NEW name \in Names, Registry!Exists(storage, name)
    PROVE  Registry!InStep(Registry!Removed(storage, name))
<1> DEFINE after == Registry!Removed(storage, name)
           names == storage.adapterNames
           slots == Registry!Slots(names, name)
<1>1. /\ names \in Seq(Names) /\ IsInjective(names)
      /\ \E i \in DOMAIN names : names[i] = name
  BY ArrayNotions DEF Registry!InStep, Range
<1>2. PICK i \in DOMAIN names : names[i] = name
  BY <1>1
<1>3. slots # {} /\ (CHOOSE k \in slots : \A l \in slots : k <= l) = i
  <2>1. slots = {k \in DOMAIN names : names[k] = names[i]}
    BY <1>2 DEF Registry!Slots
  <2> HIDE DEF slots
  <2> QED BY <1>1, <1>2, <2>1, OnlySlot
<1>4. /\ after.adapters = [storage.adapters EXCEPT ![name] = Registry!NoAdapter]
      /\ after.adapterNames = SwapAndPop(names, i)
  BY <1>3 DEF Registry!Removed, Registry!SwapAndPop, SwapAndPop
<1> HIDE DEF after
<1>5. /\ after.adapterNames \in Seq(Names)
      /\ Range(after.adapterNames) = Range(names) \ {name}
      /\ IsInjective(after.adapterNames)
  BY <1>1, <1>2, <1>4, SwapAndPopRemovesOne
<1>6. \A n \in Names : after.adapters[n] =
        IF n = name THEN Registry!NoAdapter ELSE storage.adapters[n]
  BY <1>4 DEF Registry!InStep
<1>7. after.adapters \in [Names -> Registry!Adapter]
  BY <1>4 DEF Registry!InStep, Registry!Adapter, Registry!NoAdapter
<1>8. {n \in Names : Registry!Exists(after, n)} =
        {n \in Names : Registry!Exists(storage, n)} \ {name}
  BY <1>6 DEF Registry!Exists, Registry!NoAdapter
<1>9. \A n \in Names : after.adapters[n].name \in {n, EmptyName}
  BY <1>6 DEF Registry!InStep, Registry!NoAdapter
<1> QED BY <1>5, <1>7, <1>8, <1>9, ArrayNotions DEF Registry!InStep, after

LEMMA RegistryInStepKept ==
    ASSUME EmptyName \notin Names, IInv, Registry!RegistryInv, [Next]_vars
    PROVE  Registry!RegistryInv'
<1>1. CASE UNCHANGED registryVars
  BY <1>1 DEF registryVars, Registry!RegistryInv, Registry!InStep, Registry!Storage,
              Registry!Exists
<1>2. ASSUME NEW p \in ProposalIds, Execute(p)
      PROVE  Registry!RegistryInv'
  <2> DEFINE Kept == {owned \in OwnedTypes : Registry!InStep(owned.registry)}
  <2>1. /\ Calls[p] \in Seq(Call) /\ MakeCalls(Calls[p]) /\ TypeInv
    BY <1>2, ProposalsAssumption DEF Execute, IInv
  <2>2. Owned \in Kept
    BY <2>1, OwnedTyped DEF Owned, Registry!RegistryInv
  <2>3. ASSUME NEW call \in Call, NEW owned \in Kept, ~CallReverts(call, owned)
        PROVE  AfterCall(call, owned) \in Kept
    <3>1. AfterCall(call, owned) \in OwnedTypes
      BY AfterCallTypes
    <3>2. CASE call.op = "add"
      <4>1. call.name \in Names /\ call.ipfsHash \in Hashes
        BY <3>2 DEF Call
      <4>2. ~Registry!Exists(owned.registry, call.name)
        BY <2>3, <3>2 DEF CallReverts
      <4>3. AfterCall(call, owned).registry =
              Registry!Added(owned.registry, call.name, call.ipfsHash)
        BY <3>2 DEF AfterCall
      <4> QED BY <3>1, <4>1, <4>2, <4>3, AddedInStep
    <3>3. CASE call.op = "remove"
      <4>1. call.name \in Names
        BY <3>3 DEF Call
      <4>2. Registry!Exists(owned.registry, call.name)
        BY <2>3, <3>3 DEF CallReverts
      <4>3. AfterCall(call, owned).registry = Registry!Removed(owned.registry, call.name)
        BY <3>3 DEF AfterCall
      <4> QED BY <3>1, <4>1, <4>2, <4>3, RemovedInStep
    <3>4. CASE call.op \notin {"add", "remove"}
      BY <3>1, <3>4 DEF AfterCall
    <3> QED BY <3>2, <3>3, <3>4
  <2> HIDE DEF Kept
  <2>4. Owned' \in Kept
    BY <2>1, <2>2, <2>3, CallsKeep
  <2>5. Registry!InStep(Registry!Storage')
    BY <2>4 DEF Kept, Owned
  <2> QED BY <2>5 DEF Registry!RegistryInv, Registry!InStep, Registry!Exists
<1>3. \/ UNCHANGED registryVars
      \/ \E p \in ProposalIds : Execute(p)
  BY AllSteps, RecordsKept, CancellationFacts
     DEF Propose, RequestVoteResolution, ReturnResults
<1> QED BY <1>1, <1>2, <1>3

\* The mapping and the array of names stay in step under any lists of calls that executed
\* proposals make, as they do under single calls: a list that would take them apart reverts.
THEOREM RegistryInStep ==
    ASSUME EmptyName \notin Names
    PROVE  Spec => []Registry!RegistryInv
<1>1. Init => Registry!RegistryInv
  <2> SUFFICES ASSUME Init PROVE Registry!RegistryInv
    OBVIOUS
  <2>1. adapterNames = << >> /\ adapterNames \in Seq(Names) /\ Range(adapterNames) = {}
    BY DEF Init, Registry!RegistryInit, Range
  <2>2. /\ adapters \in [Names -> Registry!Adapter]
        /\ \A name \in Names : adapters[name].name = EmptyName
    BY DEF Init, Registry!RegistryInit, Registry!NoAdapter, Registry!Adapter
  <2> QED BY <2>1, <2>2, ArrayNotions DEF Registry!RegistryInv, Registry!InStep,
                                         Registry!Storage, Registry!Exists, IsInjective
<1>2. IInv /\ Registry!RegistryInv /\ [Next]_vars => Registry!RegistryInv'
  BY RegistryInStepKept
<1> QED BY <1>1, <1>2, Inductive, PTL DEF Spec

-----------------------------------------------------------------------------
(* A reserved proposal is its owner's. *)

\* The two facts about propose that make it so: whoever made a proposal was let
\* through by its description, and the record of its maker is never written again.
ProposerInv ==
    \A p \in ProposalIds : Known(p) => proposals[p].proposer \in MayPropose[p]

\* A description that ends in the address of one user lets no other user propose.
LEMMA ReservedForOne ==
    ASSUME NEW p \in ProposalIds, NEW user \in Users, NEW other \in MayPropose[p],
           EndsInProposer(Address[user], Description[p], Digits)
    PROVE  other = user
<1> DEFINE description == Description[p]
           x == Address[user]
           len == Len(description)
           n == len - Digits
           start == n - 12
           suffix == SubSeq(description, n + 1, n + Digits)
           marker == SubSeq(description, start + 1, start + 12)
<1>1. /\ Digits \in Nat /\ x \in Nat /\ Fits(x, Digits)
      /\ description \in Seq(Byte)
      /\ IsValidDescriptionForProposer(Address[other], description, Digits)
      /\ other \in Users
  BY DescriptionsAssumption
<1>2. len \in Nat
  BY <1>1
<1>3. Len(Marker) = 12 /\ Marker = [i \in 1 .. 12 |-> Marker[i]]
  BY DEF Marker
<1>4. /\ n >= 12
      /\ \A i \in 1 .. 12 : description[start + i] = Marker[i]
      /\ \A i \in 1 .. Digits : ToLower(description[n + i]) = Spelled(x, Digits)[i]
  BY <1>3 DEF EndsInProposer
<1> HIDE DEF description, x, len, suffix, marker
<1>5. /\ n \in Nat /\ start \in Nat
      /\ len = n + Digits /\ n = start + 12
      /\ n + Digits <= len /\ start + 12 <= len
  <2>1. Digits \in Nat /\ n >= 12
    BY <1>1, <1>4
  <2> QED BY <1>2, <2>1
<1> HIDE DEF n, start
<1>6. /\ suffix \in Seq(Byte) /\ Len(suffix) = Digits
      /\ \A i \in 1 .. Digits : suffix[i] = description[n + i]
  BY <1>1, <1>5, SliceFacts DEF suffix, len
<1>7. marker = Marker
  <2> DEFINE twelve == 12
  <2>1. twelve \in Nat /\ start + twelve <= Len(description)
    BY <1>5 DEF len
  <2> HIDE DEF twelve
  <2>2. LET slice == SubSeq(description, start + 1, start + twelve) IN
        /\ slice \in Seq(Byte) /\ Len(slice) = twelve
        /\ \A i \in 1 .. twelve : slice[i] = description[start + i]
    BY <1>1, <1>5, <2>1, SliceFacts
  <2>3. /\ marker \in Seq(Byte) /\ Len(marker) = 12
        /\ \A i \in 1 .. 12 : marker[i] = description[start + i]
    BY <2>2 DEF marker, twelve
  <2>4. marker = [i \in 1 .. 12 |-> marker[i]]
    BY <2>3
  <2>5. \A i \in 1 .. 12 : marker[i] = Marker[i]
    BY <1>4, <2>3
  <2> QED BY <1>3, <2>4, <2>5, Zenon
<1>8. /\ \A i \in 1 .. Digits : TryHexToUint(suffix[i]).isHex
      /\ Recovered(suffix) = x
  <2>1. Fits(x, Len(suffix))
    BY <1>1, <1>6
  <2>2. \A i \in 1 .. Len(suffix) : ToLower(suffix[i]) = Spelled(x, Len(suffix))[i]
    BY <1>4, <1>6
  <2> QED BY <1>1, <1>6, <2>1, <2>2, SpelledIsRecovered
<1>9. Recovered(suffix) = Address[other]
  <2>1. \A i \in DOMAIN suffix : TryHexToUint(suffix[i]).isHex
    BY <1>6, <1>8
  <2>2. /\ ~(len < 12 + Digits)
        /\ len - Digits = n /\ n - 12 = start /\ n = start + 12 /\ len = n + Digits
    BY <1>1, <1>2, <1>5
  <2>3. SubSeq(description, len - Digits - 12 + 1, len - Digits) = Marker
    BY <1>7, <2>2 DEF marker
  <2>4. SubSeq(description, len - Digits + 1, len) = suffix
    BY <2>2 DEF suffix
  <2> QED BY <1>1, <1>3, <2>1, <2>2, <2>3, <2>4, Zenon
          DEF IsValidDescriptionForProposer, len
<1> QED BY <1>1, <1>8, <1>9, DescriptionsAssumption DEF x

\* Only Propose writes the start of the vote and the proposer of a record, once.
LEMMA ProposerKept ==
    ASSUME IInv, [Next]_vars
    PROVE  \A p \in ProposalIds :
             \/ /\ proposals'[p].voteStart = proposals[p].voteStart
                /\ proposals'[p].proposer = proposals[p].proposer
             \/ proposals'[p].proposer \in MayPropose[p]
<1> DEFINE Kept(p) == /\ proposals'[p].voteStart = proposals[p].voteStart
                      /\ proposals'[p].proposer = proposals[p].proposer
<1>1. /\ proposals \in [ProposalIds \cup {ZeroId} -> ProposalCore]
      /\ jobIdToProposal \in [JobIds -> ProposalIds \cup {ZeroId}]
  BY DEF IInv, TypeInv, GovernorTypeOK
<1>2. ASSUME NEW p \in ProposalIds, NEW user \in Users, Propose(p, user)
      PROVE  \A q \in ProposalIds : Kept(q) \/ proposals'[q].proposer \in MayPropose[q]
  <2>1. proposals'[p].proposer \in MayPropose[p]
    BY <1>1, <1>2 DEF Propose, NoProposal
  <2>2. \A q \in ProposalIds : q # p => Kept(q)
    BY <1>1, <1>2 DEF Propose
  <2> HIDE DEF Kept
  <2> QED BY <2>1, <2>2
<1>3. ASSUME NEW p \in ProposalIds, RequestVoteResolution(p) \/ Execute(p)
      PROVE  \A q \in ProposalIds : Kept(q)
  BY <1>1, <1>3 DEF RequestVoteResolution, Execute, ProposalCore
<1>4. ASSUME NEW id \in JobIds,
             NEW result \in Responses \cup {Undecodable}, ReturnResults(id, result)
      PROVE  \A q \in ProposalIds : Kept(q)
  <2>1. PICK r \in ProposalIds \cup {ZeroId} : r = jobIdToProposal[id]
    BY <1>1
  <2> QED BY <1>1, <1>4, <2>1 DEF ReturnResults, LilypadFulfilled, ProposalCore
<1>5. ASSUME NEW id \in JobIds, Cancellation(id)
      PROVE  \A q \in ProposalIds : Kept(q)
  <2>1. PICK r \in ProposalIds \cup {ZeroId} : r = jobIdToProposal[id]
    BY <1>1
  <2>2. proposals' = [proposals EXCEPT ![r].bridgeId = 0]
    BY <1>5, <2>1, CancellationFacts DEF LilypadCancelled
  <2> QED BY <1>1, <2>1, <2>2 DEF ProposalCore
<1>6. CASE proposals' = proposals
  BY <1>6
<1>7. CASE \E from \in Clients, spec \in JobSpecs : OtherRequest(from, spec)
  BY <1>6, <1>7 DEF OtherRequest, governorVars
<1> QED BY <1>2, <1>3, <1>4, <1>5, <1>6, <1>7, AllSteps, RecordsKept

\* A proposal whose description ends in "#proposer=0x" and an address, in whatever case
\* it is written and however long addresses are, is only ever made by that address.
THEOREM ProposalsReserved == Spec => []ProposerRespected
<1>1. Init => ProposerInv
  BY DEF Init, NoProposal, ProposerInv, Known
<1>2. IInv /\ ProposerInv /\ [Next]_vars => ProposerInv'
  BY ProposerKept DEF ProposerInv, Known
<1>3. ProposerInv => ProposerRespected
  BY ReservedForOne DEF ProposerInv, ProposerRespected
<1> QED BY <1>1, <1>2, <1>3, Inductive, PTL DEF Spec

-----------------------------------------------------------------------------
(* A verdict does not move by itself: the snapshot it is measured with stays. *)

SnapshotTaken ==
    \A p \in ProposalIds : Known(p) => proposals[p].snapshotId \in DOMAIN snapshots

Continued(before, after) ==
    \A id \in DOMAIN before : id \in DOMAIN after /\ after[id] = before[id]

\* No call takes a snapshot back.
LEMMA CallKeepsSnapshots ==
    ASSUME NEW call \in Call, NEW owned \in OwnedTypes,
           NEW before, Continued(before, owned.token.snapshots)
    PROVE  Continued(before, AfterCall(call, owned).token.snapshots)
<1>1. owned.token.snapshots \in Seq(Token!Snapshots)
  BY DEF OwnedTypes
<1>2. CASE call.op = "snapshot"
  <2>1. PICK taken : AfterCall(call, owned).token.snapshots = Append(owned.token.snapshots, taken)
    BY <1>2 DEF AfterCall, Token!Snapshotted
  <2> QED BY <1>1, <2>1 DEF Continued
<1>3. CASE call.op # "snapshot"
  <2>1. AfterCall(call, owned).token.snapshots = owned.token.snapshots
    BY <1>3 DEF AfterCall, Token!Minted
  <2> QED BY <2>1
<1> QED BY <1>2, <1>3

LEMMA ExecutionKeepsSnapshots ==
    ASSUME IInv, NEW p \in ProposalIds, Execute(p)
    PROVE  Continued(snapshots, snapshots')
<1> DEFINE Kept == {owned \in OwnedTypes : Continued(snapshots, owned.token.snapshots)}
<1>1. Calls[p] \in Seq(Call) /\ MakeCalls(Calls[p]) /\ TypeInv
  BY ProposalsAssumption DEF Execute, IInv
<1>2. Owned \in Kept
  BY <1>1, OwnedTyped DEF Owned, Token!Ledger, Continued
<1>3. \A call \in Call : \A owned \in Kept : AfterCall(call, owned) \in Kept
  BY CallKeepsSnapshots, AfterCallTypes
<1> HIDE DEF Kept
<1>4. Owned' \in Kept
  BY <1>1, <1>2, <1>3, CallsKeep
<1> QED BY <1>4 DEF Kept, Owned, Token!Ledger

\* The snapshots of a step's beginning are those of its end, and the clock goes on.
LEMMA SnapshotsKept ==
    ASSUME IInv, [Next]_vars
    PROVE  /\ Continued(snapshots, snapshots')
           /\ now' \in Nat /\ now' >= now
<1>1. now \in Nat /\ snapshots \in Seq(Token!Snapshots)
  BY DEF IInv, TypeInv, GovernorTypeOK, Token!TokenTypeOK
<1>2. CASE UNCHANGED snapshots /\ (Tick \/ UNCHANGED now)
  BY <1>1, <1>2 DEF Tick, Continued
<1>3. ASSUME NEW p \in ProposalIds, NEW user \in Users, Propose(p, user)
      PROVE  Continued(snapshots, snapshots') /\ now' = now
  BY <1>1, <1>3 DEF Propose, Token!Snapshot, Token!TokenBecomes, Token!Snapshotted,
                    Token!Ledger, Continued
<1>4. ASSUME NEW p \in ProposalIds, Execute(p)
      PROVE  Continued(snapshots, snapshots') /\ now' = now
  BY <1>4, ExecutionKeepsSnapshots DEF Execute
<1>5. \/ UNCHANGED snapshots /\ (Tick \/ UNCHANGED now)
      \/ \E p \in ProposalIds, user \in Users : Propose(p, user)
      \/ \E p \in ProposalIds : Execute(p)
  <2>1. ASSUME DeployerNext \/ Tick \/ UNCHANGED vars \/ InitializeBridge
        PROVE  UNCHANGED snapshots /\ (Tick \/ UNCHANGED now)
    BY <2>1 DEF DeployerNext, SetVotingPeriod, SetQuorumPercentage, SetEmissionPerVote,
                SetDockerImage, Tick, vars, tokenVars, InitializeBridge
  <2>2. ASSUME NEW p, NEW user, NEW amount, NEW from,
               \/ ClaimReward(user, amount, p)
               \/ TransferTokens(from, user, amount)
        PROVE  UNCHANGED <<snapshots, now>>
    BY <2>2 DEF ClaimReward, Token!Mint, Token!TokenBecomes, Token!Minted, Token!Ledger,
                TransferTokens, Token!Transfer
  <2>3. ASSUME NEW p, NEW result, NEW from,
               \/ RequestVoteResolution(p) \/ ReturnResults(p, result)
               \/ Cancellation(p) \/ OtherRequest(from, p)
        PROVE  UNCHANGED <<snapshots, now>>
    BY <2>3, CancellationFacts DEF RequestVoteResolution, ReturnResults, OtherRequest, tokenVars
  <2> QED BY <2>1, <2>2, <2>3, AllSteps, Zenon
<1> QED BY <1>1, <1>2, <1>3, <1>4, <1>5

\* Only Propose sets the start of the vote and the snapshot of a proposal.
LEMMA SnapshotIdKept ==
    ASSUME IInv, [Next]_vars
    PROVE  \A p \in ProposalIds :
             \/ /\ proposals'[p].voteStart = proposals[p].voteStart
                /\ proposals'[p].snapshotId = proposals[p].snapshotId
             \/ Token!Snapshot /\ proposals'[p].snapshotId = Len(snapshots')
<1> DEFINE Kept(p) == /\ proposals'[p].voteStart = proposals[p].voteStart
                      /\ proposals'[p].snapshotId = proposals[p].snapshotId
<1>1. /\ proposals \in [ProposalIds \cup {ZeroId} -> ProposalCore]
      /\ jobIdToProposal \in [JobIds -> ProposalIds \cup {ZeroId}]
  BY DEF IInv, TypeInv, GovernorTypeOK
<1>2. ASSUME NEW p \in ProposalIds, NEW user \in Users, Propose(p, user)
      PROVE  \A q \in ProposalIds :
               Kept(q) \/ (Token!Snapshot /\ proposals'[q].snapshotId = Len(snapshots'))
  <2>1. /\ Token!Snapshot
        /\ proposals'[p].snapshotId = Len(snapshots')
    BY <1>1, <1>2 DEF Propose, NoProposal
  <2>2. \A q \in ProposalIds : q # p => Kept(q)
    BY <1>1, <1>2 DEF Propose
  <2> HIDE DEF Kept
  <2> QED BY <2>1, <2>2
<1>3. ASSUME NEW p \in ProposalIds, RequestVoteResolution(p) \/ Execute(p)
      PROVE  \A q \in ProposalIds : Kept(q)
  BY <1>1, <1>3 DEF RequestVoteResolution, Execute, ProposalCore
<1>4. ASSUME NEW id \in JobIds,
             NEW result \in Responses \cup {Undecodable}, ReturnResults(id, result)
      PROVE  \A q \in ProposalIds : Kept(q)
  <2>1. PICK r \in ProposalIds \cup {ZeroId} : r = jobIdToProposal[id]
    BY <1>1
  <2> QED BY <1>1, <1>4, <2>1 DEF ReturnResults, LilypadFulfilled, ProposalCore
<1>5. ASSUME NEW id \in JobIds, Cancellation(id)
      PROVE  \A q \in ProposalIds : Kept(q)
  <2>1. PICK r \in ProposalIds \cup {ZeroId} : r = jobIdToProposal[id]
    BY <1>1
  <2>2. proposals' = [proposals EXCEPT ![r].bridgeId = 0]
    BY <1>5, <2>1, CancellationFacts DEF LilypadCancelled
  <2> QED BY <1>1, <2>1, <2>2 DEF ProposalCore
<1>6. CASE proposals' = proposals
  BY <1>6
<1>7. CASE \E from \in Clients, spec \in JobSpecs : OtherRequest(from, spec)
  BY <1>6, <1>7 DEF OtherRequest, governorVars
<1> QED BY <1>2, <1>3, <1>4, <1>5, <1>6, <1>7, AllSteps, RecordsKept

LEMMA SnapshotTakenStep ==
    ASSUME IInv, SnapshotTaken, [Next]_vars
    PROVE  SnapshotTaken'
<1>1. snapshots \in Seq(Token!Snapshots)
  BY DEF IInv, TypeInv, Token!TokenTypeOK
<1>2. Token!Snapshot => Len(snapshots') \in DOMAIN snapshots'
  BY <1>1 DEF Token!Snapshot, Token!TokenBecomes, Token!Snapshotted, Token!Ledger
<1> QED BY <1>2, SnapshotsKept, SnapshotIdKept DEF SnapshotTaken, Known, Continued

\* What a verdict is read from: the record, the quorum percentage, the clock that
\* has passed the deadline for good, and the supply of the proposal's snapshot.
LEMMA VerdictStep ==
    ASSUME IInv, SnapshotTaken, [Next]_vars, NEW p \in ProposalIds, Verdict(p),
           proposals'[p] = proposals[p], quorumPercentage' = quorumPercentage
    PROVE  State(p)' = State(p)
<1>1. proposals[p] \in ProposalCore /\ now \in Nat
  BY DEF IInv, TypeInv, GovernorTypeOK
<1>2. /\ ~proposals[p].executed /\ ~proposals[p].canceled /\ Known(p)
      /\ ~(proposals[p].voteStart >= now) /\ ~VotingOpen(p)
      /\ proposals[p].bridgeId # 0 /\ proposals[p].voteMerkleRoot # {}
  BY DEF Verdict, State
<1>3. now' \in Nat /\ now' >= now
  BY SnapshotsKept
<1>4. snapshots'[proposals[p].snapshotId] = snapshots[proposals[p].snapshotId]
  BY <1>2, SnapshotsKept DEF SnapshotTaken, Continued
<1>5. QuorumReached(p)' = QuorumReached(p)
  BY <1>4 DEF QuorumReached, Token!TotalSupplyAt
<1>6. VoteSucceeded(p)' = VoteSucceeded(p)
  BY DEF VoteSucceeded
<1>7. Known(p)' /\ ~(proposals'[p].voteStart >= now') /\ ~VotingOpen(p)'
  BY <1>1, <1>2, <1>3 DEF Known, VotingOpen, ProposalCore
<1>8. /\ State(p) = IF QuorumReached(p) /\ VoteSucceeded(p) THEN "Succeeded" ELSE "Defeated"
      /\ State(p)' = IF QuorumReached(p)' /\ VoteSucceeded(p)' THEN "Succeeded" ELSE "Defeated"
  BY <1>2, <1>7 DEF State
<1> QED BY <1>5, <1>6, <1>8

\* A verdict moves with the proposal's own record or the quorum percentage only.
THEOREM VerdictsStable == Spec => VerdictStable
<1>1. Init => SnapshotTaken
  BY DEF Init, NoProposal, SnapshotTaken, Known
<1>2. IInv /\ SnapshotTaken /\ [Next]_vars => SnapshotTaken'
  BY SnapshotTakenStep
<1> DEFINE Stable == \A p \in ProposalIds :
             Verdict(p) /\ proposals'[p] = proposals[p] /\ quorumPercentage' = quorumPercentage
             => State(p)' = State(p)
<1>3. IInv /\ SnapshotTaken /\ [Next]_vars => [Stable]_vars
  BY VerdictStep
<1> QED BY <1>1, <1>2, <1>3, Inductive, PTL DEF Spec, VerdictStable

-----------------------------------------------------------------------------
(* The money.  A claim is remembered with its event, so the events of one user *)
(* and proposal are one; a proposal's calls are made once; every other action  *)
(* leaves the supply alone.                                                    *)

Amounts(claims) == [claim \in claims |-> claim.amount]

MintedByCalls(executed) == [p \in executed |-> MintedBy(Calls[p])]

ClaimsRemembered ==
    \A claim \in claimedRewards : claim.user \in alreadyClaimed[claim.proposalId]

SupplyInv ==
    /\ IsFiniteSet(claimedRewards) /\ IsFiniteSet(ExecutedProposals)
    /\ ExecutedKnown
    /\ ClaimsRemembered
    /\ SupplyAccounted

\* One more term adds its value.
LEMMA OneMoreTerm ==
    ASSUME NEW D, IsFiniteSet(D), NEW x, x \notin D, NEW w, NEW v,
           DOMAIN w = D, DOMAIN v = D \cup {x}, v[x] \in Int,
           \A y \in D : w[y] \in Int /\ v[y] = w[y]
    PROVE  /\ SumFunction(w) \in Int
           /\ SumFunction(v) = v[x] + SumFunction(w)
<1>1. \A y \in D : v[y] \in Int
  OBVIOUS
<1>2. /\ SumFunctionOnSet(v, D) \in Int
      /\ SumFunctionOnSet(v, D \cup {x}) = v[x] + SumFunctionOnSet(v, D)
  BY <1>1, SumOfMore
<1>3. SumFunctionOnSet(v, D) = SumFunctionOnSet(w, D)
  BY <1>1, SumOfEqual
<1> QED BY <1>2, <1>3 DEF SumFunction

\* What one call adds to the supply.
MintedBySome(calls) ==
    [i \in DOMAIN calls |-> IF calls[i].op = "mint" THEN calls[i].amount ELSE 0]

LEMMA MintedByType ==
    ASSUME NEW calls \in Seq(Call)
    PROVE  /\ \A i \in DOMAIN calls : MintedBySome(calls)[i] \in Int
           /\ MintedBy(calls) = SumFunctionOnSet(MintedBySome(calls), 1 .. Len(calls))
           /\ MintedBy(calls) \in Int
<1>1. \A i \in DOMAIN calls : MintedBySome(calls)[i] \in Int
  <2> SUFFICES ASSUME NEW i \in DOMAIN calls PROVE MintedBySome(calls)[i] \in Int
    OBVIOUS
  <2>1. calls[i] \in Call
    OBVIOUS
  <2>2. calls[i].op = "mint" => calls[i].amount \in Nat
    BY <2>1 DEF Call
  <2> QED BY <2>2 DEF MintedBySome
<1>2. /\ DOMAIN MintedBySome(calls) = 1 .. Len(calls) /\ DOMAIN calls = 1 .. Len(calls)
      /\ Len(calls) \in Nat
  BY DEF MintedBySome
<1>3. MintedBy(calls) = SumFunctionOnSet(MintedBySome(calls), 1 .. Len(calls))
  BY <1>2 DEF MintedBy, MintedBySome, SumFunction
<1>4. IsFiniteSet(1 .. Len(calls))
  BY <1>2, FS_Interval
<1>5. SumFunctionOnSet(MintedBySome(calls), 1 .. Len(calls)) \in Int
  BY <1>1, <1>2, <1>4, SumType
<1> QED BY <1>1, <1>3, <1>5

LEMMA CallsMint ==
    ASSUME TypeInv, NEW calls \in Seq(Call), MakeCalls(calls)
    PROVE  totalSupply' = totalSupply + MintedBy(calls)
<1> DEFINE m == Len(calls)
           after == AfterCalls(calls, Owned)
           w == MintedBySome(calls)
           sum(i) == SumFunctionOnSet(w, 1 .. i)
           N == {i \in Nat : i <= m => /\ sum(i) \in Int
                                       /\ after[i].token.totalSupply = totalSupply + sum(i)}
<1>1. /\ m \in Nat /\ DOMAIN calls = 1 .. m /\ \A i \in 1 .. m : calls[i] \in Call
      /\ after \in [0 .. m -> OwnedTypes] /\ after[0] = Owned
      /\ \A i \in 1 .. m : after[i] = AfterCall(calls[i], after[i - 1])
  BY OwnedTyped, CallsRun
<1>2. /\ \A i \in 1 .. m : w[i] \in Int
      /\ \A i \in 1 .. m : w[i] = IF calls[i].op = "mint" THEN calls[i].amount ELSE 0
      /\ MintedBy(calls) = sum(m)
  BY <1>1, MintedByType DEF MintedBySome
<1>3. totalSupply' = after[m].token.totalSupply
  BY DEF MakeCalls, Token!TokenBecomes
<1>4. totalSupply \in Nat /\ Owned.token.totalSupply = totalSupply
  BY DEF TypeInv, Token!TokenTypeOK, Owned, Token!Ledger
<1> HIDE DEF m, after, w
<1>5. 0 \in N
  <2>1. 1 .. 0 = {}
    OBVIOUS
  <2>2. sum(0) = 0
    BY <2>1, SumOfNone
  <2> QED BY <1>1, <1>4, <2>2
<1>6. ASSUME NEW i \in Nat, i \in N PROVE i + 1 \in N
  <2> SUFFICES ASSUME i + 1 <= m
               PROVE  /\ sum(i + 1) \in Int
                      /\ after[i + 1].token.totalSupply = totalSupply + sum(i + 1)
    OBVIOUS
  <2>1. /\ i + 1 \in 1 .. m /\ i \in 0 .. m /\ i + 1 - 1 = i /\ i <= m
        /\ 1 .. i \subseteq 1 .. m /\ i + 1 \notin 1 .. i
        /\ 1 .. i + 1 = 1 .. i \cup {i + 1}
    BY <1>1
  <2>2. /\ sum(i) \in Int
        /\ after[i].token.totalSupply = totalSupply + sum(i)
    BY <1>6, <2>1
  <2>3. sum(i + 1) = w[i + 1] + sum(i)
    <3>1. IsFiniteSet(1 .. i)
      BY FS_Interval
    <3>2. (\A k \in 1 .. i : w[k] \in Int) /\ w[i + 1] \in Int
      BY <1>2, <2>1
    <3>3. SumFunctionOnSet(w, 1 .. i \cup {i + 1}) = w[i + 1] + SumFunctionOnSet(w, 1 .. i)
      BY <2>1, <3>1, <3>2, SumOfMore
    <3> QED BY <2>1, <3>3
  <2> HIDE DEF sum
  <2>4. after[i + 1] = AfterCall(calls[i + 1], after[i]) /\ calls[i + 1] \in Call
    BY <1>1, <2>1
  <2>5. after[i + 1].token.totalSupply = after[i].token.totalSupply + w[i + 1]
    <3>1. CASE calls[i + 1].op = "mint"
      <4>1. after[i + 1].token.totalSupply = after[i].token.totalSupply + calls[i + 1].amount
        BY <2>4, <3>1 DEF AfterCall, Token!Minted
      <4> QED BY <1>2, <2>1, <3>1, <4>1
    <3>2. CASE calls[i + 1].op # "mint"
      <4>1. after[i + 1].token.totalSupply = after[i].token.totalSupply
        BY <2>4, <3>2 DEF AfterCall, Token!Snapshotted
      <4>2. w[i + 1] = 0
        BY <1>2, <2>1, <3>2
      <4> QED BY <1>4, <2>2, <4>1, <4>2
    <3> QED BY <3>1, <3>2
  <2>6. w[i + 1] \in Int
    BY <1>2, <2>1
  <2> QED BY <1>4, <2>2, <2>3, <2>5, <2>6
<1> HIDE DEF N
<1>7. Nat \subseteq N
  BY <1>5, <1>6, SetInduction
<1> QED BY <1>1, <1>2, <1>3, <1>7 DEF N

\* The two sums of SupplyAccounted.
LEMMA AccountTypes ==
    ASSUME IInv, SupplyInv
    PROVE  /\ SumFunction(Amounts(claimedRewards)) \in Int
           /\ SumFunction(MintedByCalls(ExecutedProposals)) \in Int
           /\ totalSupply = InitialSupply + SumFunction(Amounts(claimedRewards))
                + SumFunction(MintedByCalls(ExecutedProposals))
<1>1. \A claim \in claimedRewards : claim.amount \in Int
  BY DEF IInv, TypeInv, GovernorTypeOK
<1>2. \A p \in ExecutedProposals : MintedBy(Calls[p]) \in Int
  BY ProposalsAssumption, MintedByType DEF ExecutedProposals
<1>3. SumFunction(Amounts(claimedRewards)) \in Int
  <2>1. DOMAIN Amounts(claimedRewards) = claimedRewards
    BY DEF Amounts
  <2>2. \A claim \in claimedRewards : Amounts(claimedRewards)[claim] \in Int
    BY <1>1 DEF Amounts
  <2> QED BY <2>1, <2>2, SumType DEF SumFunction, SupplyInv
<1>4. SumFunction(MintedByCalls(ExecutedProposals)) \in Int
  <2>1. DOMAIN MintedByCalls(ExecutedProposals) = ExecutedProposals
    BY DEF MintedByCalls
  <2>2. \A p \in ExecutedProposals : MintedByCalls(ExecutedProposals)[p] \in Int
    BY <1>2 DEF MintedByCalls
  <2> QED BY <2>1, <2>2, SumType DEF SumFunction, SupplyInv
<1> QED BY <1>3, <1>4 DEF SupplyInv, SupplyAccounted, Amounts, MintedByCalls

LEMMA ClaimAccounted ==
    ASSUME IInv, SupplyInv, NEW p \in Ids, NEW user \in Users,
           NEW amount \in {leaf[2] : leaf \in proposals[p].voteMerkleRoot},
           ClaimReward(user, amount, p)
    PROVE  SupplyInv'
<1> DEFINE claim == [user |-> user, amount |-> amount, proposalId |-> p]
<1>1. /\ alreadyClaimed \in [Ids -> SUBSET Users]
      /\ claimedRewards \subseteq [user : Users, amount : Nat, proposalId : Ids]
      /\ proposals \in [Ids -> ProposalCore]
      /\ totalSupply \in Nat
  BY DEF IInv, TypeInv, GovernorTypeOK, Token!TokenTypeOK, Ids
<1>2. amount \in Nat
  <2>1. proposals[p].voteMerkleRoot \subseteq Leaves
    BY <1>1 DEF ProposalCore
  <2> QED BY <2>1 DEF Leaves
<1>3. /\ user \notin alreadyClaimed[p]
      /\ alreadyClaimed' = [alreadyClaimed EXCEPT ![p] = @ \cup {user}]
      /\ totalSupply' = totalSupply + amount
      /\ claimedRewards' = claimedRewards \cup {claim}
  BY DEF ClaimReward, Token!Mint, Token!TokenBecomes, Token!Minted, Token!Ledger
<1>4. \A c \in claimedRewards : ~(c.user = user /\ c.proposalId = p)
  BY <1>3 DEF SupplyInv, ClaimsRemembered
<1>5. IsFiniteSet(claimedRewards')
  BY <1>3, FS_AddElement DEF SupplyInv
<1>6. ClaimsRemembered'
  <2> SUFFICES ASSUME NEW c \in claimedRewards'
               PROVE  c.user \in alreadyClaimed'[c.proposalId]
    BY DEF ClaimsRemembered
  <2>1. CASE c \in claimedRewards
    <3>1. c.user \in alreadyClaimed[c.proposalId] /\ c.proposalId \in Ids
      BY <1>1, <2>1 DEF SupplyInv, ClaimsRemembered
    <3> QED BY <1>1, <1>3, <3>1
  <2>2. CASE c = claim
    BY <1>1, <1>3, <2>2
  <2> QED BY <1>3, <2>1, <2>2
<1>7. \A c, d \in claimedRewards' : c.user = d.user /\ c.proposalId = d.proposalId => c = d
  BY <1>3, <1>4 DEF SupplyInv, SupplyAccounted
<1>8. ExecutedProposals' = ExecutedProposals /\ ExecutedKnown' /\ IsFiniteSet(ExecutedProposals')
  BY DEF ClaimReward, ExecutedProposals, ExecutedKnown, Known, SupplyInv
<1>9. totalSupply' = InitialSupply + SumFunction(Amounts(claimedRewards'))
        + SumFunction(MintedByCalls(ExecutedProposals))
  <2> DEFINE w == Amounts(claimedRewards)
             v == Amounts(claimedRewards')
  <2>1. /\ claim \notin claimedRewards
        /\ \A c \in claimedRewards : w[c] \in Int /\ v[c] = w[c]
        /\ DOMAIN w = claimedRewards /\ DOMAIN v = claimedRewards \cup {claim}
        /\ v[claim] = amount /\ v[claim] \in Int
    BY <1>1, <1>2, <1>3, <1>4 DEF Amounts
  <2> DEFINE D == claimedRewards
             x == claim
  <2>5. IsFiniteSet(D) /\ x \notin D
    BY <2>1 DEF SupplyInv
  <2>6. /\ DOMAIN w = D /\ DOMAIN v = D \cup {x} /\ v[x] \in Int
        /\ \A y \in D : w[y] \in Int /\ v[y] = w[y]
    BY <2>1
  <2> HIDE DEF claim, w, v, D, x
  <2>7. SumFunction(w) \in Int /\ SumFunction(v) = v[x] + SumFunction(w)
    BY <2>5, <2>6, OneMoreTerm
  <2>2. SumFunction(w) \in Int /\ SumFunction(v) = v[claim] + SumFunction(w)
    BY <2>7 DEF x
  <2>3. /\ SumFunction(MintedByCalls(ExecutedProposals)) \in Int
        /\ totalSupply = InitialSupply + SumFunction(w)
             + SumFunction(MintedByCalls(ExecutedProposals))
    BY AccountTypes DEF w
  <2>4. totalSupply' = InitialSupply + SumFunction(v)
          + SumFunction(MintedByCalls(ExecutedProposals))
    BY <1>2, <1>3, <2>1, <2>2, <2>3, NumbersAssumption
  <2> QED BY <2>4 DEF v
<1> QED BY <1>5, <1>6, <1>7, <1>8, <1>9
        DEF SupplyInv, SupplyAccounted, Amounts, MintedByCalls

\* An execution adds its proposal and what its calls mint.
LEMMA ExecutionAccounted ==
    ASSUME IInv, SupplyInv, NEW p \in ProposalIds, Execute(p)
    PROVE  SupplyInv'
<1> DEFINE w == MintedByCalls(ExecutedProposals)
           v == MintedByCalls(ExecutedProposals \cup {p})
<1>1. /\ proposals \in [ProposalIds \cup {ZeroId} -> ProposalCore]
      /\ TypeInv /\ totalSupply \in Nat
  BY DEF IInv, TypeInv, GovernorTypeOK, Token!TokenTypeOK
<1>2. /\ p \notin ExecutedProposals
      /\ ExecutedProposals' = ExecutedProposals \cup {p}
  <2>1. ~proposals[p].executed
    BY DEF Execute, State
  <2>2. \A q \in ProposalIds : proposals'[q].executed = (q = p \/ proposals[q].executed)
    BY <1>1 DEF Execute, ProposalCore
  <2> QED BY <2>1, <2>2 DEF ExecutedProposals
<1>3. totalSupply' = totalSupply + MintedBy(Calls[p]) /\ MintedBy(Calls[p]) \in Int
  BY <1>1, CallsMint, MintedByType, ProposalsAssumption DEF Execute
<1>4. /\ \A q \in ExecutedProposals : w[q] \in Int /\ v[q] = w[q]
      /\ DOMAIN w = ExecutedProposals /\ DOMAIN v = ExecutedProposals \cup {p}
      /\ v[p] = MintedBy(Calls[p]) /\ v[p] \in Int
  <2>1. \A q \in ExecutedProposals : MintedBy(Calls[q]) \in Int
    BY ProposalsAssumption, MintedByType DEF ExecutedProposals
  <2> QED BY <1>3, <2>1 DEF MintedByCalls
<1>5. UNCHANGED <<claimedRewards, alreadyClaimed>>
  BY DEF Execute, claimVars
<1>6. IsFiniteSet(ExecutedProposals')
  BY <1>2, FS_AddElement DEF SupplyInv
<1>7. ExecutedKnown'
  BY ExecutedStays DEF SupplyInv, Next, UserNext
<1>8. SumFunction(w) \in Int /\ SumFunction(v) = v[p] + SumFunction(w)
  <2> DEFINE D == ExecutedProposals
  <2>1. IsFiniteSet(D) /\ p \notin D
    BY <1>2 DEF SupplyInv
  <2>2. /\ DOMAIN w = D /\ DOMAIN v = D \cup {p} /\ v[p] \in Int
        /\ \A y \in D : w[y] \in Int /\ v[y] = w[y]
    BY <1>4
  <2> HIDE DEF w, v, D
  <2> QED BY <2>1, <2>2, OneMoreTerm
<1> HIDE DEF w, v
<1>9. /\ SumFunction(Amounts(claimedRewards)) \in Int
      /\ totalSupply = InitialSupply + SumFunction(Amounts(claimedRewards)) + SumFunction(w)
  BY AccountTypes DEF w
<1>10. totalSupply' = InitialSupply + SumFunction(Amounts(claimedRewards)) + SumFunction(v)
  BY <1>3, <1>4, <1>8, <1>9, NumbersAssumption
<1>11. ClaimsRemembered'
  BY <1>5 DEF SupplyInv, ClaimsRemembered
<1> QED BY <1>2, <1>5, <1>6, <1>7, <1>10, <1>11
        DEF SupplyInv, SupplyAccounted, Amounts, MintedByCalls, v

LEMMA SupplyStep ==
    ASSUME IInv, SupplyInv, [Next]_vars
    PROVE  SupplyInv'
<1>1. ASSUME UNCHANGED <<claimVars, totalSupply>>, \A p \in ProposalIds : ~Execute(p)
      PROVE  SupplyInv'
  <2>1. ExecutedKnown' /\ \A p \in ProposalIds : proposals'[p].executed = proposals[p].executed
    <3>1. /\ proposals \in [ProposalIds \cup {ZeroId} -> ProposalCore]
          /\ proposals' \in [ProposalIds \cup {ZeroId} -> ProposalCore]
      BY TypeStep DEF IInv, TypeInv, GovernorTypeOK
    <3>2. \A p \in ProposalIds : proposals'[p].executed \in BOOLEAN /\ proposals[p].executed \in BOOLEAN
      BY <3>1 DEF ProposalCore
    <3> QED BY <1>1, <3>2, ExecutedStays DEF SupplyInv
  <2>2. ExecutedProposals' = ExecutedProposals
    BY <2>1 DEF ExecutedProposals
  <2> QED BY <1>1, <2>1, <2>2 DEF claimVars, SupplyInv, ClaimsRemembered, SupplyAccounted
<1>2. \/ \E p \in Ids, user \in Users :
           \E amount \in {leaf[2] : leaf \in proposals[p].voteMerkleRoot} :
             ClaimReward(user, amount, p)
      \/ \E p \in ProposalIds : Execute(p)
      \/ UNCHANGED <<claimVars, totalSupply>>
  BY DEF Next, UserNext, BridgeNext, DeployerNext, SetVotingPeriod, SetQuorumPercentage,
         SetEmissionPerVote, SetDockerImage, Tick, vars, governorVars, tokenVars, claimVars,
         Propose, Token!Snapshot, Token!TokenBecomes, Token!Snapshotted, Token!Ledger,
         RequestVoteResolution, TransferTokens, Token!Transfer, ReturnResults, ReturnError,
         CancelDirectly, OtherRequest, InitializeBridge, Ids
<1> QED BY <1>1, <1>2, ClaimAccounted, ExecutionAccounted

LEMMA SupplyInit == Init => SupplyInv
<1> SUFFICES ASSUME Init PROVE SupplyInv
  OBVIOUS
<1>1. claimedRewards = {} /\ totalSupply = InitialSupply /\ InitialSupply \in Nat
  BY NumbersAssumption DEF Init, Token!TokenInit
<1>2. ExecutedProposals = {} /\ ExecutedKnown
  BY DEF Init, NoProposal, ExecutedProposals, ExecutedKnown
<1>3. SumFunction(Amounts({})) = 0 /\ SumFunction(MintedByCalls({})) = 0
  <2>1. DOMAIN Amounts({}) = {} /\ DOMAIN MintedByCalls({}) = {}
    BY DEF Amounts, MintedByCalls
  <2> QED BY <2>1, SumOfNone DEF SumFunction
<1>4. IsFiniteSet(claimedRewards) /\ IsFiniteSet(ExecutedProposals)
  BY <1>1, <1>2, FS_EmptySet
<1> QED BY <1>1, <1>2, <1>3, <1>4
        DEF SupplyInv, ClaimsRemembered, SupplyAccounted, Amounts, MintedByCalls

\* KICK is minted by claims and by the calls of executed proposals only, for any number of
\* them: each user is rewarded at most once per proposal, however often the root is
\* replaced, and the calls of a proposal mint once.
THEOREM SupplyIsRewards == Spec => []SupplyAccounted
<1>1. SupplyInv => SupplyAccounted
  BY DEF SupplyInv
<1> QED BY <1>1, SupplyInit, SupplyStep, Inductive, PTL DEF Spec

\* A holding, or one remembered by a snapshot, adds up to the supply.
AddsUp(holding) == SumFunction(holding.balances) = holding.totalSupply

HoldingsAddUp ==
    /\ AddsUp([balances |-> balances, totalSupply |-> totalSupply])
    /\ \A id \in DOMAIN snapshots : AddsUp(snapshots[id])

LEMMA SumOfBalance ==
    ASSUME IsFiniteSet(Users), NEW w \in [Users -> Int], NEW v \in [Users -> Int],
           NEW user \in Users, \A u \in Users : u # user => v[u] = w[u]
    PROVE  /\ SumFunction(w) \in Int
           /\ SumFunction(v) = SumFunction(w) - w[user] + v[user]
<1>1. /\ \A u \in Users \ {user} : v[u] = w[u]
      /\ \A u \in Users : w[u] \in Int
      /\ v[user] \in Int /\ DOMAIN v = Users /\ DOMAIN w = Users
  OBVIOUS
<1>2. SumFunctionOnSet(w, Users) \in Int
  BY <1>1, SumType
<1>3. SumFunctionOnSet(v, Users) = SumFunctionOnSet(w, Users) - w[user] + v[user]
  BY <1>1, SumChanged
<1> QED BY <1>1, <1>2, <1>3 DEF SumFunction

\* A ledger all of whose holdings add up, and what a snapshot and a mint make of it.
Balanced(ledger) ==
    /\ SumFunction(ledger.balances) = ledger.totalSupply
    /\ \A id \in DOMAIN ledger.snapshots : AddsUp(ledger.snapshots[id])

LedgerTypes ==
    [balances : [Users -> Nat], totalSupply : Nat, snapshots : Seq(Token!Snapshots)]

LEMMA SnapshotBalanced ==
    ASSUME NEW ledger \in LedgerTypes, Balanced(ledger)
    PROVE  Balanced(Token!Snapshotted(ledger))
<1> DEFINE taken == [balances |-> ledger.balances, totalSupply |-> ledger.totalSupply]
           after == Token!Snapshotted(ledger)
<1>1. /\ after.balances = ledger.balances /\ after.totalSupply = ledger.totalSupply
      /\ after.snapshots = Append(ledger.snapshots, taken)
      /\ AddsUp(taken)
  BY DEF Token!Snapshotted, Balanced, AddsUp
<1>2. ledger.snapshots \in Seq(Token!Snapshots)
  BY DEF LedgerTypes
<1> HIDE DEF taken, after
<1>3. \A id \in DOMAIN after.snapshots :
        \/ after.snapshots[id] = taken
        \/ \E k \in DOMAIN ledger.snapshots : after.snapshots[id] = ledger.snapshots[k]
  BY <1>1, <1>2
<1>4. \A id \in DOMAIN after.snapshots : AddsUp(after.snapshots[id])
  BY <1>1, <1>3 DEF Balanced
<1> QED BY <1>1, <1>4 DEF Balanced, after

LEMMA MintBalanced ==
    ASSUME IsFiniteSet(Users), NEW ledger \in LedgerTypes, Balanced(ledger),
           NEW user \in Users, NEW amount \in Nat
    PROVE  Balanced(Token!Minted(ledger, user, amount))
<1> DEFINE after == Token!Minted(ledger, user, amount)
           w == ledger.balances
           v == after.balances
<1>1. /\ w \in [Users -> Nat] /\ w \in [Users -> Int] /\ ledger.totalSupply \in Nat
      /\ SumFunction(w) = ledger.totalSupply
      /\ \A id \in DOMAIN ledger.snapshots : AddsUp(ledger.snapshots[id])
  BY DEF LedgerTypes, Balanced
<1>2. /\ v = [w EXCEPT ![user] = @ + amount]
      /\ after.totalSupply = ledger.totalSupply + amount
      /\ after.snapshots = ledger.snapshots
  BY DEF Token!Minted
<1> HIDE DEF after, w, v
<1>3. /\ v \in [Users -> Int] /\ v[user] = w[user] + amount
      /\ \A u \in Users : u # user => v[u] = w[u]
      /\ w[user] \in Int
  BY <1>1, <1>2
<1>4. SumFunction(v) = SumFunction(w) - w[user] + v[user]
  BY <1>1, <1>3, SumOfBalance
<1>5. SumFunction(v) = after.totalSupply
  BY <1>1, <1>2, <1>3, <1>4
<1> QED BY <1>1, <1>2, <1>5 DEF Balanced, after, v

LEMMA TransferBalanced ==
    ASSUME IsFiniteSet(Users), TypeInv, HoldingsAddUp, NEW from \in Users, NEW to \in Users,
           NEW amount \in Nat, Token!Transfer(from, to, amount)
    PROVE  HoldingsAddUp'
<1> DEFINE less == [balances EXCEPT ![from] = balances[from] - amount]
<1>1. /\ balances \in [Users -> Nat] /\ totalSupply \in Nat
      /\ SumFunction(balances) = totalSupply
      /\ \A id \in DOMAIN snapshots : AddsUp(snapshots[id])
  BY DEF TypeInv, Token!TokenTypeOK, HoldingsAddUp, AddsUp
<1>2. balances \in [Users -> Int]
  BY <1>1
<1>3. /\ less \in [Users -> Int] /\ less[from] = balances[from] - amount
      /\ \A u \in Users : u # from => less[u] = balances[u]
      /\ balances' = [less EXCEPT ![to] = less[to] + amount]
      /\ UNCHANGED <<totalSupply, snapshots>>
  BY <1>1 DEF Token!Transfer
<1> HIDE DEF less
<1>4. /\ balances' \in [Users -> Int] /\ balances'[to] = less[to] + amount
      /\ \A u \in Users : u # to => balances'[u] = less[u]
      /\ balances[from] \in Int /\ less[to] \in Int
  BY <1>1, <1>3
<1>5. SumFunction(less) = SumFunction(balances) - balances[from] + (balances[from] - amount)
  BY <1>2, <1>3, SumOfBalance
<1>6. /\ SumFunction(less) \in Int
      /\ SumFunction(balances') = SumFunction(less) - less[to] + (less[to] + amount)
  BY <1>3, <1>4, SumOfBalance
<1>7. SumFunction(balances') = totalSupply'
  BY <1>1, <1>3, <1>4, <1>5, <1>6
<1> QED BY <1>1, <1>3, <1>7 DEF HoldingsAddUp, AddsUp

LEMMA LedgerBalanced ==
    /\ HoldingsAddUp <=> Balanced(Token!Ledger)
    /\ TypeInv => Token!Ledger \in LedgerTypes
BY DEF HoldingsAddUp, AddsUp, Balanced, Token!Ledger, TypeInv, Token!TokenTypeOK, LedgerTypes

LEMMA BecomesBalanced ==
    ASSUME NEW ledger, Balanced(ledger), Token!TokenBecomes(ledger)
    PROVE  HoldingsAddUp'
BY DEF Token!TokenBecomes, Balanced, HoldingsAddUp, AddsUp

LEMMA ExecutionBalanced ==
    ASSUME IsFiniteSet(Users), IInv, HoldingsAddUp, NEW p \in ProposalIds, Execute(p)
    PROVE  HoldingsAddUp'
<1> DEFINE Kept == {owned \in OwnedTypes : Balanced(owned.token)}
<1>1. Calls[p] \in Seq(Call) /\ MakeCalls(Calls[p]) /\ TypeInv
  BY ProposalsAssumption DEF Execute, IInv
<1>2. Owned \in Kept
  BY <1>1, OwnedTyped, LedgerBalanced DEF Owned
<1>3. ASSUME NEW call \in Call, NEW owned \in Kept PROVE AfterCall(call, owned) \in Kept
  <2>1. AfterCall(call, owned) \in OwnedTypes /\ owned.token \in LedgerTypes
    BY AfterCallTypes DEF OwnedTypes, LedgerTypes
  <2>2. CASE call.op = "mint"
    <3>1. call.wallet \in Users /\ call.amount \in Nat
      BY <2>2 DEF Call
    <3>2. AfterCall(call, owned).token = Token!Minted(owned.token, call.wallet, call.amount)
      BY <2>2 DEF AfterCall
    <3> QED BY <2>1, <3>1, <3>2, MintBalanced
  <2>3. CASE call.op = "snapshot"
    <3>1. AfterCall(call, owned).token = Token!Snapshotted(owned.token)
      BY <2>3 DEF AfterCall
    <3> QED BY <2>1, <3>1, SnapshotBalanced
  <2>4. CASE call.op \notin {"mint", "snapshot"}
    <3>1. AfterCall(call, owned).token = owned.token
      BY <2>4 DEF AfterCall
    <3> QED BY <2>1, <3>1
  <2> QED BY <2>2, <2>3, <2>4
<1> HIDE DEF Kept
<1>4. Owned' \in Kept
  BY <1>1, <1>2, <1>3, CallsKeep
<1> QED BY <1>4 DEF Kept, Owned, Token!Ledger, Balanced, HoldingsAddUp, AddsUp

LEMMA HoldingsStep ==
    ASSUME IsFiniteSet(Users), IInv, HoldingsAddUp, [Next]_vars
    PROVE  HoldingsAddUp'
<1>1. TypeInv /\ Token!Ledger \in LedgerTypes /\ Balanced(Token!Ledger)
  BY LedgerBalanced DEF IInv
<1>2. CASE UNCHANGED tokenVars
  BY <1>2 DEF tokenVars, HoldingsAddUp, AddsUp
<1>3. CASE Token!Snapshot
  BY <1>1, <1>3, SnapshotBalanced, BecomesBalanced DEF Token!Snapshot
<1>4. ASSUME NEW user \in Users, NEW amount \in Nat, Token!Mint(user, amount)
      PROVE  HoldingsAddUp'
  BY <1>1, <1>4, MintBalanced, BecomesBalanced DEF Token!Mint
<1>5. ASSUME NEW p \in Ids, NEW user \in Users,
             NEW amount \in {leaf[2] : leaf \in proposals[p].voteMerkleRoot},
             ClaimReward(user, amount, p)
      PROVE  amount \in Nat /\ Token!Mint(user, amount)
  <2>1. proposals[p].voteMerkleRoot \subseteq Leaves
    BY DEF IInv, TypeInv, GovernorTypeOK, ProposalCore, Ids
  <2> QED BY <1>5, <2>1 DEF Leaves, ClaimReward
<1>6. \A amount \in TransferAmounts : amount \in Nat
  BY NumbersAssumption
<1>7. \/ UNCHANGED tokenVars
      \/ Token!Snapshot
      \/ \E p \in ProposalIds : Execute(p)
      \/ \E p \in Ids, user \in Users :
           \E amount \in {leaf[2] : leaf \in proposals[p].voteMerkleRoot} :
             ClaimReward(user, amount, p)
      \/ \E from, to \in Users, amount \in TransferAmounts : Token!Transfer(from, to, amount)
  BY DEF Next, UserNext, BridgeNext, DeployerNext, SetVotingPeriod, SetQuorumPercentage,
         SetEmissionPerVote, SetDockerImage, Tick, vars, Propose, RequestVoteResolution,
         TransferTokens, ReturnResults, ReturnError, CancelDirectly, OtherRequest,
         InitializeBridge, Ids
<1> QED BY <1>1, <1>2, <1>3, <1>4, <1>5, <1>6, <1>7, TransferBalanced, ExecutionBalanced

\* The balances add up to the supply, and so do those of every snapshot: a minted reward
\* adds to both, as does what a call mints, and a transfer, to oneself included, to
\* neither.  No tally can find more votes than the snapshot's supply.
THEOREM SnapshotsAddUp ==
    ASSUME IsFiniteSet(Users)
    PROVE  Spec => []HoldingsAddUp
<1>1. Init => HoldingsAddUp
  <2> SUFFICES ASSUME Init PROVE HoldingsAddUp
    OBVIOUS
  <2> DEFINE none == [user \in Users |-> 0]
  <2>1. /\ balances \in [Users -> Int] /\ balances[Deployer] = InitialSupply
        /\ \A user \in Users : user # Deployer => balances[user] = none[user]
        /\ totalSupply = InitialSupply /\ snapshots = << >>
        /\ none \in [Users -> Int] /\ InitialSupply \in Int /\ Deployer \in Users
        /\ none[Deployer] = 0
    BY NumbersAssumption DEF Init, Token!TokenInit
  <2>2. SumFunction(none) = 0
    <3>1. DOMAIN none = Users
      OBVIOUS
    <3>2. SumFunctionOnSet(none, Users) = SumFunctionOnSet(none, {})
      <4>1. \A u \in Users : none[u] = IF u \in {} THEN none[none[u]] ELSE 0
        OBVIOUS
      <4> HIDE DEF none
      <4>2. CountedAs(none, Users, {}, none, none, {})
        BY <4>1 DEF CountedAs
      <4> QED BY <4>2, SumOfImages
    <3> HIDE DEF none
    <3> QED BY <3>1, <3>2, SumOfNone DEF SumFunction
  <2> HIDE DEF none
  <2>3. SumFunction(balances) = 0 - 0 + InitialSupply
    BY <2>1, <2>2, SumOfBalance
  <2>4. SumFunction(balances) = totalSupply
    BY <2>1, <2>3
  <2> QED BY <2>1, <2>4 DEF HoldingsAddUp, AddsUp
<1>2. IInv /\ HoldingsAddUp /\ [Next]_vars => HoldingsAddUp'
  BY HoldingsStep
<1> QED BY <1>1, <1>2, Inductive, PTL DEF Spec
=============================================================================
