---------------------------- MODULE LilypadEvents ----------------------------
(***************************************************************************)
(* LilypadEventsUpgradeable (contracts/contracts/                          *)
(* LilypadEventsUpgradeable.sol): the bridge.  A client contract pays a    *)
(* fee and queues a Bacalhau job; the result or the error comes back       *)
(* through a callback on the requestor.  Fees pile up in an escrow that is *)
(* forwarded to a wallet once it exceeds a threshold.                      *)
(*                                                                         *)
(* The contract is written to sit behind a proxy, and is also deployed     *)
(* directly (scripts/deployContracts.ts, test/Governance.ts).  A proxy     *)
(* runs initialize but neither the constructor nor the declared initial    *)
(* values, so the two deployments start from different storage:            *)
(* Deployments says which are considered.                                  *)
(*                                                                         *)
(* Simplifications: specs, results and wallets are members of small sets;  *)
(* the two result histories, which nothing reads back in order, are one    *)
(* set; a callback that reverts disables the whole action, as it reverts   *)
(* the whole transaction; the roles a DEFAULT_ADMIN could grant later are  *)
(* left with the account that called initialize; ether enters through      *)
(* runLilypadJob only (there is no receive function).                      *)
(***************************************************************************)
EXTENDS Integers, Sequences, FiniteSets, Functions

CONSTANTS
    Deployments,         \* subset of {"direct", "proxied"}
    Requestors, Specs, Results,
    Wallets, ZeroAddress,
    DefaultWallet, DefaultFee, DefaultMinAutoPay,  \* the declared initial values
    Payments,            \* msg.value of a job request
    Fees, MinAutoPays,   \* arguments of the setters
    MaxJobs,             \* bound on the number of jobs
    ReportIds,           \* ids that are reported, whether or not a job has them yet
    MaxReports           \* bound on the different results recorded

ASSUME AmountsAssumption ==
    /\ Payments \subseteq Nat /\ Fees \subseteq Nat /\ MinAutoPays \subseteq Nat
    /\ DefaultFee \in Nat /\ DefaultMinAutoPay \in Nat
    /\ ReportIds \subseteq Nat

ASSUME WalletsAssumption == IsFiniteSet(Wallets)

VARIABLES
    initializable,       \* OpenZeppelin's initializer has not been used up
    hasAdmin,            \* somebody holds UPGRADER_ROLE
    LILYPAD_FEE, escrowAmount, escrowMinAutoPay, escrowAddress,
    jobIds,              \* Counters.Counter _jobIds
    lilypadJobHistory,
    lilypadJobResults,   \* lilypadJobResultHistory and lilypadJobResultByAddress
    bridgeBalance,       \* address(this).balance
    paid                 \* what each wallet has received

adminVars == <<initializable, hasAdmin>>
escrowVars == <<escrowAmount, bridgeBalance, paid>>
settingVars == <<LILYPAD_FEE, escrowMinAutoPay, escrowAddress>>
jobVars == <<jobIds, lilypadJobHistory>>
bridgeVars == <<adminVars, escrowVars, settingVars, jobVars, lilypadJobResults>>

Addresses == Wallets \cup {ZeroAddress, DefaultWallet}

LilypadJob == [requestor : Requestors, id : Nat, spec : Specs]
LilypadJobResult ==
    [requestor : Requestors, id : ReportIds, success : BOOLEAN, result : Results]

BridgeTypeOK ==
    /\ initializable \in BOOLEAN /\ hasAdmin \in BOOLEAN
    /\ LILYPAD_FEE \in Nat /\ escrowMinAutoPay \in Nat /\ escrowAddress \in Addresses
    /\ escrowAmount \in Nat /\ bridgeBalance \in Nat /\ paid \in [Addresses -> Nat]
    /\ jobIds \in Nat
    /\ lilypadJobHistory \in Seq(LilypadJob)
    /\ lilypadJobResults \subseteq LilypadJobResult

\* Deployed directly: the declared values hold and the constructor has run,
\* which disables initialize and moves the counter to 1.
DirectStorage ==
    /\ LILYPAD_FEE = DefaultFee
    /\ escrowMinAutoPay = DefaultMinAutoPay
    /\ escrowAddress = DefaultWallet
    /\ jobIds = 1
    /\ initializable = FALSE

\* A proxy's storage: all zero, and initialize still to be called.
ProxiedStorage ==
    /\ LILYPAD_FEE = 0
    /\ escrowMinAutoPay = 0
    /\ escrowAddress = ZeroAddress
    /\ jobIds = 0
    /\ initializable = TRUE

BridgeInit ==
    /\ \/ "direct" \in Deployments /\ DirectStorage
       \/ "proxied" \in Deployments /\ ProxiedStorage
    /\ hasAdmin = FALSE
    /\ escrowAmount = 0 /\ bridgeBalance = 0
    /\ paid = [wallet \in Addresses |-> 0]
    /\ lilypadJobHistory = << >>
    /\ lilypadJobResults = {}

\* The direct deployment never has an admin: nobody can initialize it.
Direct == ~initializable /\ ~hasAdmin

-----------------------------------------------------------------------------
Initialize ==
    /\ initializable
    /\ initializable' = FALSE
    /\ hasAdmin' = TRUE
    /\ UNCHANGED <<escrowVars, settingVars, jobVars, lilypadJobResults>>

SetEscrowMinAutoPay(minAmount) ==
    /\ hasAdmin
    /\ escrowMinAutoPay' = minAmount
    /\ UNCHANGED <<adminVars, escrowVars, LILYPAD_FEE, escrowAddress, jobVars, lilypadJobResults>>

SetEscrowWalletAddress(wallet) ==
    /\ hasAdmin
    /\ escrowAddress' = wallet
    /\ UNCHANGED <<adminVars, escrowVars, LILYPAD_FEE, escrowMinAutoPay, jobVars, lilypadJobResults>>

SetLilypadFee(newFee) ==
    /\ hasAdmin
    /\ LILYPAD_FEE' = newFee
    /\ UNCHANGED <<adminVars, escrowVars, escrowMinAutoPay, escrowAddress, jobVars, lilypadJobResults>>

WithdrawBalanceToEscrowAddress ==
    /\ hasAdmin
    /\ bridgeBalance > 0
    /\ escrowAmount' = 0
    /\ bridgeBalance' = 0
    /\ paid' = [paid EXCEPT ![escrowAddress] = @ + bridgeBalance]
    /\ UNCHANGED <<adminVars, settingVars, jobVars, lilypadJobResults>>

\* Mutants of CollectFee: the escrow is not reset, and the fees are paid to
\* the wallet while the contract's balance still counts them.
CollectFeeKeepEscrow(value) ==
    LET escrow == escrowAmount + value
        held   == bridgeBalance + value
        pays   == escrow > escrowMinAutoPay /\ held >= escrow
    IN  /\ escrowAmount' = escrow
        /\ bridgeBalance' = IF pays THEN held - escrow ELSE held
        /\ paid' = IF pays THEN [paid EXCEPT ![escrowAddress] = @ + escrow] ELSE paid

CollectFeeTwice(value) ==
    LET escrow == escrowAmount + value
        held   == bridgeBalance + value
        pays   == escrow > escrowMinAutoPay /\ held >= escrow
    IN  /\ escrowAmount' = IF pays THEN 0 ELSE escrow
        /\ bridgeBalance' = held
        /\ paid' = IF pays THEN [paid EXCEPT ![escrowAddress] = @ + escrow] ELSE paid

\* The escrow part of runLilypadJob: value is added, and the escrow is paid out
\* when it exceeds the threshold and the contract can afford it.
CollectFee(value) ==
    LET escrow == escrowAmount + value
        held   == bridgeBalance + value
        pays   == escrow > escrowMinAutoPay /\ held >= escrow
    IN  /\ escrowAmount' = IF pays THEN 0 ELSE escrow
        /\ bridgeBalance' = IF pays THEN held - escrow ELSE held
        /\ paid' = IF pays THEN [paid EXCEPT ![escrowAddress] = @ + escrow] ELSE paid

\* Anyone may call it, in the name of any from, who is not asked.  The new job's id,
\* the value runLilypadJob returns, is jobIds before the call.
RunLilypadJob(from, spec, value) ==
    /\ value >= LILYPAD_FEE
    /\ Len(lilypadJobHistory) < MaxJobs
    /\ lilypadJobHistory' = Append(lilypadJobHistory,
                                   [requestor |-> from, id |-> jobIds, spec |-> spec])
    /\ jobIds' = jobIds + 1
    /\ CollectFee(value)
    /\ UNCHANGED <<adminVars, settingVars, lilypadJobResults>>

\* Mutant of RecordResult: two fields of the struct swapped.
RecordResultSwapped(to, id, success, result) ==
    /\ lilypadJobResults' = lilypadJobResults \cup
         {[requestor |-> to, id |-> id, success |-> result, result |-> success]}
    /\ UNCHANGED <<adminVars, escrowVars, settingVars, jobVars>>

RecordResult(to, id, success, result) ==
    /\ lilypadJobResults' = lilypadJobResults \cup
         {[requestor |-> to, id |-> id, success |-> success, result |-> result]}
    /\ Cardinality(lilypadJobResults') <= MaxReports
    /\ UNCHANGED <<adminVars, escrowVars, settingVars, jobVars>>

\* Anyone may call it, for any requestor and any id: one with a result already, or
\* one that no job has, or not yet.  The requestor's lilypadFulfilled is called last.
ReturnLilypadResults(to, id, result) == RecordResult(to, id, TRUE, result)

\* The requestor's lilypadCancelled is called last.
ReturnLilypadError(to, id, errorMsg) ==
    /\ hasAdmin
    /\ RecordResult(to, id, FALSE, errorMsg)

BridgeNext ==
    \/ Initialize
    \/ \E minAmount \in MinAutoPays : SetEscrowMinAutoPay(minAmount)
    \/ \E wallet \in Wallets : SetEscrowWalletAddress(wallet)
    \/ \E newFee \in Fees : SetLilypadFee(newFee)
    \/ WithdrawBalanceToEscrowAddress
    \/ \E from \in Requestors, spec \in Specs, value \in Payments :
         RunLilypadJob(from, spec, value)
    \/ \E to \in Requestors, id \in ReportIds, result \in Results :
         ReturnLilypadResults(to, id, result)
    \/ \E to \in Requestors, id \in ReportIds, result \in Results :
         ReturnLilypadError(to, id, result)

BridgeSpec == BridgeInit /\ [][BridgeNext]_bridgeVars

-----------------------------------------------------------------------------
\* The amount the contract believes it holds in escrow is what it holds ("ecrow-
\* Amount and contract amount Should be the same", line 91), through automatic
\* payments, withdrawals and changes of the settings in any order.
EscrowMatchesBalance == escrowAmount = bridgeBalance

FeesSeen == bridgeBalance + SumFunction(paid)

\* No fee is lost or paid twice: what the contract holds and what the wallets
\* have received together grow with a new job only, by one payment that covers
\* the fee.
FeesConserved ==
    [][ FeesSeen' - FeesSeen \in
          IF lilypadJobHistory' = lilypadJobHistory
          THEN {0}
          ELSE {value \in Payments : value >= LILYPAD_FEE} ]_bridgeVars

\* The automatic payment is never skipped for want of balance: after a job is
\* queued the escrow is at most the threshold.
EscrowPaidOut ==
    [][lilypadJobHistory' # lilypadJobHistory => escrowAmount' <= escrowMinAutoPay]_bridgeVars
=============================================================================
