---------------------------- MODULE ContractProofs -----------------------------
(***************************************************************************)
(* The two contracts beside the Governor.  The registry's mapping and its  *)
(* array stay in step for any set of names that does not contain the empty *)
(* one, any hashes and any length; the bridge's escrow is its balance and  *)
(* no fee is lost, for any amounts, wallets, clients and number of jobs,   *)
(* in both deployments.                                                    *)
(***************************************************************************)
EXTENDS AdapterRegistry, LilypadEvents, PureProofs

-----------------------------------------------------------------------------
LEMMA RegistryInitInv == RegistryInit => RegistryInv
<1> SUFFICES ASSUME RegistryInit PROVE RegistryInv
  OBVIOUS
<1>1. adapterNames = << >> /\ adapterNames \in Seq(Names) /\ Range(adapterNames) = {}
  BY DEF RegistryInit, Range
<1>2. /\ adapters \in [Names -> Adapter]
      /\ \A name \in Names : adapters[name].name = EmptyName
  BY DEF RegistryInit, NoAdapter, Adapter
<1> QED BY <1>1, <1>2 DEF RegistryInv, InStep, Storage, Exists, IsInjective

LEMMA AddedInStep ==
    ASSUME EmptyName \notin Names, NEW storage, InStep(storage),
           NEW name \in Names, NEW ipfsHash \in Hashes, ~Exists(storage, name)
    PROVE  InStep(Added(storage, name, ipfsHash))
<1> DEFINE after == Added(storage, name, ipfsHash)
           new == [name |-> name, ipfsHash |-> ipfsHash]
<1>1. /\ after.adapters = [storage.adapters EXCEPT ![name] = new]
      /\ after.adapterNames = Append(storage.adapterNames, name)
  BY DEF Added
<1> HIDE DEF after
<1>2. /\ after.adapterNames \in Seq(Names)
      /\ Range(after.adapterNames) = Range(storage.adapterNames) \cup {name}
      /\ IsInjective(after.adapterNames)
  BY <1>1, AppendAddsOne DEF InStep
<1>3. \A n \in Names : after.adapters[n] = IF n = name THEN new ELSE storage.adapters[n]
  BY <1>1 DEF InStep
<1>4. after.adapters \in [Names -> Adapter]
  BY <1>1 DEF InStep, Adapter
<1>5. {n \in Names : Exists(after, n)} = {n \in Names : Exists(storage, n)} \cup {name}
  BY <1>3 DEF Exists
<1>6. \A n \in Names : after.adapters[n].name \in {n, EmptyName}
  BY <1>3 DEF InStep
<1> QED BY <1>2, <1>4, <1>5, <1>6 DEF InStep, after

LEMMA RemovedInStep ==
    ASSUME NEW storage, InStep(storage), NEW name \in Names, Exists(storage, name)
    PROVE  InStep(Removed(storage, name))
<1> DEFINE after == Removed(storage, name)
           names == storage.adapterNames
<1>1. PICK i \in DOMAIN names : names[i] = name
  BY DEF InStep, Range
<1>2. /\ Slots(names, name) # {}
      /\ (CHOOSE k \in Slots(names, name) : \A l \in Slots(names, name) : k <= l) = i
  <2>1. Slots(names, name) = {k \in DOMAIN names : names[k] = names[i]}
    BY <1>1 DEF Slots
  <2>2. names \in Seq(Names) /\ IsInjective(names)
    BY DEF InStep
  <2> QED BY <1>1, <2>1, <2>2, OnlySlot
<1>3. /\ after.adapters = [storage.adapters EXCEPT ![name] = NoAdapter]
      /\ after.adapterNames = SwapAndPop(names, i)
  BY <1>2 DEF Removed
<1> HIDE DEF after
<1>4. /\ after.adapterNames \in Seq(Names)
      /\ Range(after.adapterNames) = Range(names) \ {name}
      /\ IsInjective(after.adapterNames)
  BY <1>1, <1>3, SwapAndPopRemovesOne DEF InStep
<1>5. \A n \in Names : after.adapters[n] = IF n = name THEN NoAdapter ELSE storage.adapters[n]
  BY <1>3 DEF InStep
<1>6. after.adapters \in [Names -> Adapter]
  BY <1>3 DEF InStep, Adapter, NoAdapter
<1>7. {n \in Names : Exists(after, n)} = {n \in Names : Exists(storage, n)} \ {name}
  BY <1>5 DEF Exists, NoAdapter
<1>8. \A n \in Names : after.adapters[n].name \in {n, EmptyName}
  BY <1>5 DEF InStep, NoAdapter
<1> QED BY <1>4, <1>6, <1>7, <1>8 DEF InStep, after

\* The invariant is of the two data structures, which a step replaces as one.
LEMMA Replaced ==
    ASSUME NEW storage, InStep(storage), Becomes(storage)
    PROVE  RegistryInv'
BY DEF InStep, Becomes, RegistryInv, Storage, Exists

LEMMA RegistryInductive ==
    ASSUME EmptyName \notin Names
    PROVE  RegistrySpec => []RegistryInv
<1>1. RegistryInv /\ [RegistryNext]_registryVars => RegistryInv'
  <2> SUFFICES ASSUME RegistryInv, [RegistryNext]_registryVars PROVE RegistryInv'
    OBVIOUS
  <2>1. ASSUME NEW name \in Names, NEW ipfsHash \in Hashes, AddAdapter(name, ipfsHash)
        PROVE  RegistryInv'
    BY <2>1, AddedInStep, Replaced DEF AddAdapter, RegistryInv
  <2>2. ASSUME NEW name \in Names, RemoveAdapter(name) PROVE RegistryInv'
    BY <2>2, RemovedInStep, Replaced DEF RemoveAdapter, RegistryInv
  <2>3. CASE UNCHANGED registryVars
    BY <2>3, Replaced DEF registryVars, RegistryInv, Storage, Becomes
  <2> QED BY <2>1, <2>2, <2>3 DEF RegistryNext
<1> QED BY <1>1, RegistryInitInv, PTL DEF RegistrySpec

\* The mapping and the array have their types.
THEOREM RegistryTypes ==
    ASSUME EmptyName \notin Names
    PROVE  RegistrySpec => []RegistryTypeOK
<1>1. RegistryInv => RegistryTypeOK
  BY DEF RegistryInv, InStep, Storage, RegistryTypeOK
<1> QED BY <1>1, RegistryInductive, PTL

\* addAdapter and removeAdapter keep the mapping and the array of names in step,
\* provided the empty string is never added as a name (the propose page refuses it;
\* the contract does not).
THEOREM NamesInStep ==
    ASSUME EmptyName \notin Names
    PROVE  RegistrySpec => []NamesMatchAdapters
<1>1. RegistryInv => NamesMatchAdapters
  BY DEF RegistryInv, InStep, Storage, NamesMatchAdapters, Registered
<1> QED BY <1>1, RegistryInductive, PTL

\* Swap-and-pop and push never put a name into the array twice.
THEOREM NamesOnce ==
    ASSUME EmptyName \notin Names
    PROVE  RegistrySpec => []NamesUnique
<1>1. RegistryInv => NamesUnique
  BY DEF RegistryInv, InStep, Storage, NamesUnique
<1> QED BY <1>1, RegistryInductive, PTL

-----------------------------------------------------------------------------
EscrowInv == BridgeTypeOK /\ EscrowMatchesBalance

\* With as much in the contract as it believes to hold, the payment is never skipped.
LEMMA CollectFeeInv ==
    ASSUME EscrowInv, NEW value \in Nat, CollectFee(value)
    PROVE  /\ escrowAmount' \in Nat /\ escrowAmount' = bridgeBalance'
           /\ paid' \in [Addresses -> Nat]
           /\ escrowAmount' <= escrowMinAutoPay
<1> DEFINE escrow == escrowAmount + value
<1>1. /\ escrow \in Nat /\ bridgeBalance + value = escrow
      /\ escrowMinAutoPay \in Nat
      /\ paid \in [Addresses -> Nat] /\ escrowAddress \in Addresses
      /\ paid[escrowAddress] + escrow \in Nat
  BY DEF EscrowInv, BridgeTypeOK, EscrowMatchesBalance
<1>2. CASE escrow > escrowMinAutoPay
  BY <1>1, <1>2 DEF CollectFee
<1>3. CASE ~(escrow > escrowMinAutoPay)
  BY <1>1, <1>3 DEF CollectFee
<1> QED
  BY <1>2, <1>3

LEMMA JobStep ==
    ASSUME EscrowInv, NEW from \in Requestors, NEW spec \in Specs, NEW value \in Nat,
           RunLilypadJob(from, spec, value)
    PROVE  EscrowInv' /\ escrowAmount' <= escrowMinAutoPay
<1>1. /\ escrowAmount' \in Nat /\ escrowAmount' = bridgeBalance'
      /\ paid' \in [Addresses -> Nat]
      /\ escrowAmount' <= escrowMinAutoPay
  BY CollectFeeInv DEF RunLilypadJob
<1>2. lilypadJobHistory' \in Seq(LilypadJob) /\ jobIds' \in Nat
  BY DEF RunLilypadJob, EscrowInv, BridgeTypeOK, LilypadJob
<1>3. UNCHANGED <<adminVars, settingVars, lilypadJobResults>>
  BY DEF RunLilypadJob
<1> QED
  BY <1>1, <1>2, <1>3
     DEF EscrowInv, BridgeTypeOK, EscrowMatchesBalance, adminVars, settingVars, Addresses

LEMMA ReportStep ==
    ASSUME EscrowInv, NEW to \in Requestors, NEW id \in ReportIds, NEW success \in BOOLEAN,
           NEW result \in Results, RecordResult(to, id, success, result)
    PROVE  EscrowInv' /\ lilypadJobHistory' = lilypadJobHistory
<1>1. lilypadJobResults' \subseteq LilypadJobResult
  BY DEF RecordResult, EscrowInv, BridgeTypeOK, LilypadJobResult
<1>2. UNCHANGED <<adminVars, escrowVars, settingVars, jobVars>>
  BY DEF RecordResult
<1> QED
  BY <1>1, <1>2 DEF EscrowInv, BridgeTypeOK, EscrowMatchesBalance, adminVars, escrowVars,
                    settingVars, jobVars, Addresses

\* The administrator's calls and initialize queue no job.
LEMMA AdminStep ==
    ASSUME EscrowInv,
           \/ Initialize
           \/ \E minAmount \in MinAutoPays : SetEscrowMinAutoPay(minAmount)
           \/ \E wallet \in Wallets : SetEscrowWalletAddress(wallet)
           \/ \E newFee \in Fees : SetLilypadFee(newFee)
           \/ WithdrawBalanceToEscrowAddress
    PROVE  EscrowInv' /\ lilypadJobHistory' = lilypadJobHistory
<1> USE AmountsAssumption
    DEF EscrowInv, BridgeTypeOK, EscrowMatchesBalance, adminVars, escrowVars, settingVars, jobVars
<1>1. CASE Initialize
  BY <1>1 DEF Initialize
<1>2. CASE \E minAmount \in MinAutoPays : SetEscrowMinAutoPay(minAmount)
  BY <1>2 DEF SetEscrowMinAutoPay
<1>3. CASE \E wallet \in Wallets : SetEscrowWalletAddress(wallet)
  BY <1>3 DEF SetEscrowWalletAddress, Addresses
<1>4. CASE \E newFee \in Fees : SetLilypadFee(newFee)
  BY <1>4 DEF SetLilypadFee
<1>5. CASE WithdrawBalanceToEscrowAddress
  <2>1. paid[escrowAddress] + bridgeBalance \in Nat
    OBVIOUS
  <2> QED
    BY <1>5, <2>1 DEF WithdrawBalanceToEscrowAddress
<1> QED
  BY <1>1, <1>2, <1>3, <1>4, <1>5

LEMMA EscrowStep ==
    ASSUME EscrowInv, [BridgeNext]_bridgeVars
    PROVE  /\ EscrowInv'
           /\ lilypadJobHistory' # lilypadJobHistory => escrowAmount' <= escrowMinAutoPay
<1>1. CASE \/ Initialize
           \/ \E minAmount \in MinAutoPays : SetEscrowMinAutoPay(minAmount)
           \/ \E wallet \in Wallets : SetEscrowWalletAddress(wallet)
           \/ \E newFee \in Fees : SetLilypadFee(newFee)
           \/ WithdrawBalanceToEscrowAddress
  BY <1>1, AdminStep
<1>2. CASE \E from \in Requestors, spec \in Specs, value \in Payments :
             RunLilypadJob(from, spec, value)
  <2>1. PICK from \in Requestors, spec \in Specs, value \in Payments :
          RunLilypadJob(from, spec, value)
    BY <1>2
  <2>2. value \in Nat
    BY AmountsAssumption
  <2> QED
    BY <2>1, <2>2, JobStep
<1>3. ASSUME NEW to \in Requestors, NEW result \in Results, NEW id \in ReportIds,
             \/ ReturnLilypadResults(to, id, result)
             \/ ReturnLilypadError(to, id, result)
      PROVE  EscrowInv' /\ lilypadJobHistory' = lilypadJobHistory
  <2>1. PICK success \in BOOLEAN : RecordResult(to, id, success, result)
    BY <1>3 DEF ReturnLilypadResults, ReturnLilypadError
  <2> QED
    BY <2>1, ReportStep
<1>4. CASE UNCHANGED bridgeVars
  BY <1>4 DEF bridgeVars, EscrowInv, BridgeTypeOK, EscrowMatchesBalance, adminVars, escrowVars,
              settingVars, jobVars
<1> QED
  BY <1>1, <1>2, <1>3, <1>4 DEF BridgeNext

LEMMA EscrowInit ==
    ASSUME BridgeInit
    PROVE  EscrowInv
<1>1. /\ LILYPAD_FEE \in Nat /\ escrowMinAutoPay \in Nat
      /\ escrowAddress \in Addresses /\ jobIds \in Nat /\ initializable \in BOOLEAN
  <2>1. CASE DirectStorage
    BY <2>1, AmountsAssumption DEF DirectStorage, Addresses
  <2>2. CASE ProxiedStorage
    BY <2>2 DEF ProxiedStorage, Addresses
  <2> QED
    BY <2>1, <2>2 DEF BridgeInit
<1>2. hasAdmin \in BOOLEAN /\ escrowAmount \in Nat /\ escrowAmount = bridgeBalance
  BY DEF BridgeInit
<1>3. paid \in [Addresses -> Nat]
  BY DEF BridgeInit
<1>4. lilypadJobHistory \in Seq(LilypadJob)
  <2>1. lilypadJobHistory = << >>
    BY DEF BridgeInit
  <2> QED
    BY <2>1
<1>5. lilypadJobResults \subseteq LilypadJobResult
  BY DEF BridgeInit
<1> QED
  BY <1>1, <1>2, <1>3, <1>4, <1>5 DEF EscrowInv, BridgeTypeOK, EscrowMatchesBalance

-----------------------------------------------------------------------------
LEMMA EscrowInductive == BridgeSpec => []EscrowInv
<1>1. BridgeInit => EscrowInv
  BY EscrowInit
<1>2. EscrowInv /\ [BridgeNext]_bridgeVars => EscrowInv'
  BY EscrowStep
<1> QED BY <1>1, <1>2, PTL DEF BridgeSpec

\* The settings, the jobs, their results and the payments have their types.
THEOREM BridgeTypes == BridgeSpec => []BridgeTypeOK
<1>1. EscrowInv => BridgeTypeOK
  BY DEF EscrowInv
<1> QED BY <1>1, EscrowInductive, PTL

\* What the bridge believes to hold in escrow is what it holds, whatever order the
\* payments, the withdrawals and the changes of the settings come in.
THEOREM EscrowIsBalance == BridgeSpec => []EscrowMatchesBalance
<1>1. EscrowInv => EscrowMatchesBalance
  BY DEF EscrowInv
<1> QED BY <1>1, EscrowInductive, PTL

\* A job never leaves more than the threshold in the escrow: the condition on the
\* contract's balance (LilypadEventsUpgradeable.sol:136) never holds a payment back.
THEOREM PaymentNeverSkipped == BridgeSpec => EscrowPaidOut
<1>1. EscrowInv /\ [BridgeNext]_bridgeVars =>
        [lilypadJobHistory' # lilypadJobHistory => escrowAmount' <= escrowMinAutoPay]_bridgeVars
  BY EscrowStep
<1> QED
  BY <1>1, EscrowInductive, PTL DEF BridgeSpec, EscrowPaidOut

-----------------------------------------------------------------------------
\* A payment to one wallet.
LEMMA PaymentAdds ==
    ASSUME NEW D, IsFiniteSet(D), NEW received \in [D -> Nat], NEW after \in [D -> Nat],
           NEW wallet \in D, NEW amount \in Nat, after[wallet] = received[wallet] + amount,
           \A x \in D \ {wallet} : after[x] = received[x]
    PROVE  SumFunction(received) \in Nat /\ SumFunction(after) = SumFunction(received) + amount
<1>1. /\ \A x \in D : received[x] \in Int /\ received[x] \in Nat
      /\ after[wallet] \in Int
      /\ DOMAIN received = D /\ DOMAIN after = D
  OBVIOUS
<1>2. SumFunctionOnSet(received, D) \in Nat
  BY <1>1, SumType
<1>3. SumFunctionOnSet(after, D) = SumFunctionOnSet(received, D) - received[wallet] + after[wallet]
  BY <1>1, SumChanged
<1>4. SumFunctionOnSet(after, D) = SumFunctionOnSet(received, D) + amount
  BY <1>1, <1>2, <1>3
<1> QED BY <1>1, <1>2, <1>4 DEF SumFunction

LEMMA AddressesFinite == IsFiniteSet(Addresses)
<1>1. Addresses = (Wallets \cup {ZeroAddress}) \cup {DefaultWallet}
  BY DEF Addresses
<1> QED BY <1>1, WalletsAssumption, FS_AddElement

\* What runLilypadJob does with a payment keeps the fees together.
LEMMA CollectFeeConserves ==
    ASSUME EscrowInv, NEW value \in Nat, CollectFee(value)
    PROVE  FeesSeen' - FeesSeen = value
<1> DEFINE escrow == escrowAmount + value
           after == [paid EXCEPT ![escrowAddress] = @ + escrow]
<1>1. /\ escrow \in Nat /\ bridgeBalance \in Nat /\ bridgeBalance + value = escrow
      /\ escrowMinAutoPay \in Nat
      /\ paid \in [Addresses -> Nat] /\ escrowAddress \in Addresses
  BY DEF EscrowInv, BridgeTypeOK, EscrowMatchesBalance
<1>2. SumFunction(paid) \in Nat /\ SumFunction(after) = SumFunction(paid) + escrow
  <2>1. /\ after \in [Addresses -> Nat]
        /\ after[escrowAddress] = paid[escrowAddress] + escrow
        /\ \A x \in Addresses \ {escrowAddress} : after[x] = paid[x]
    BY <1>1
  <2> HIDE DEF after, escrow
  <2> QED BY <1>1, <2>1, AddressesFinite, PaymentAdds
<1>3. CASE escrow > escrowMinAutoPay
  <2>1. bridgeBalance' = 0 /\ paid' = after
    BY <1>1, <1>3 DEF CollectFee
  <2>2. SumFunction(paid') = SumFunction(paid) + escrow
    BY <1>2, <2>1
  <2> QED BY <1>1, <1>2, <2>1, <2>2 DEF FeesSeen
<1>4. CASE ~(escrow > escrowMinAutoPay)
  <2>1. bridgeBalance' = escrow /\ paid' = paid
    BY <1>1, <1>4 DEF CollectFee
  <2> QED BY <1>1, <1>2, <2>1 DEF FeesSeen
<1> QED BY <1>3, <1>4

LEMMA WithdrawalConserves ==
    ASSUME EscrowInv, WithdrawBalanceToEscrowAddress
    PROVE  FeesSeen' = FeesSeen
<1> DEFINE after == [paid EXCEPT ![escrowAddress] = @ + bridgeBalance]
<1>1. /\ bridgeBalance \in Nat /\ paid \in [Addresses -> Nat] /\ escrowAddress \in Addresses
  BY DEF EscrowInv, BridgeTypeOK
<1>2. SumFunction(paid) \in Nat /\ SumFunction(after) = SumFunction(paid) + bridgeBalance
  <2>1. /\ after \in [Addresses -> Nat]
        /\ after[escrowAddress] = paid[escrowAddress] + bridgeBalance
        /\ \A x \in Addresses \ {escrowAddress} : after[x] = paid[x]
    BY <1>1
  <2> HIDE DEF after
  <2> QED BY <1>1, <2>1, AddressesFinite, PaymentAdds
<1>3. bridgeBalance' = 0 /\ paid' = after
  BY DEF WithdrawBalanceToEscrowAddress
<1>4. SumFunction(paid') = SumFunction(paid) + bridgeBalance
  BY <1>2, <1>3
<1> QED BY <1>1, <1>2, <1>3, <1>4 DEF FeesSeen

LEMMA FeesStep ==
    ASSUME EscrowInv, BridgeNext
    PROVE  FeesSeen' - FeesSeen \in
             IF lilypadJobHistory' = lilypadJobHistory
             THEN {0}
             ELSE {value \in Payments : value >= LILYPAD_FEE}
<1>1. FeesSeen \in Nat
  <2>1. bridgeBalance \in Nat /\ paid \in [Addresses -> Nat] /\ escrowAddress \in Addresses
    BY DEF EscrowInv, BridgeTypeOK
  <2>2. SumFunctionOnSet(paid, Addresses) \in Nat /\ DOMAIN paid = Addresses
    BY <2>1, AddressesFinite, SumType
  <2> QED BY <2>1, <2>2 DEF FeesSeen, SumFunction
<1>2. ASSUME NEW from \in Requestors, NEW spec \in Specs, NEW value \in Payments,
             RunLilypadJob(from, spec, value)
      PROVE  /\ FeesSeen' - FeesSeen = value /\ value >= LILYPAD_FEE
             /\ lilypadJobHistory' # lilypadJobHistory
  <2>1. value \in Nat
    BY AmountsAssumption
  <2>2. FeesSeen' - FeesSeen = value
    BY <1>2, <2>1, CollectFeeConserves DEF RunLilypadJob
  <2>3. Len(lilypadJobHistory') = Len(lilypadJobHistory) + 1 /\ Len(lilypadJobHistory) \in Nat
    BY <1>2 DEF RunLilypadJob, EscrowInv, BridgeTypeOK, LilypadJob
  <2> QED BY <1>2, <2>2, <2>3 DEF RunLilypadJob
<1>3. CASE WithdrawBalanceToEscrowAddress
  <2>1. FeesSeen' = FeesSeen
    BY <1>3, WithdrawalConserves
  <2>2. lilypadJobHistory' = lilypadJobHistory
    BY <1>3 DEF WithdrawBalanceToEscrowAddress, jobVars
  <2> QED BY <1>1, <2>1, <2>2
<1>4. CASE \/ Initialize
           \/ \E minAmount \in MinAutoPays : SetEscrowMinAutoPay(minAmount)
           \/ \E wallet \in Wallets : SetEscrowWalletAddress(wallet)
           \/ \E newFee \in Fees : SetLilypadFee(newFee)
           \/ \E to \in Requestors, id \in ReportIds, result \in Results :
                ReturnLilypadResults(to, id, result) \/ ReturnLilypadError(to, id, result)
  <2>1. UNCHANGED <<escrowVars, jobVars>>
    BY <1>4 DEF Initialize, SetEscrowMinAutoPay, SetEscrowWalletAddress, SetLilypadFee,
                ReturnLilypadResults, ReturnLilypadError, RecordResult
  <2>2. FeesSeen' = FeesSeen /\ lilypadJobHistory' = lilypadJobHistory
    BY <2>1 DEF FeesSeen, escrowVars, jobVars
  <2> QED BY <1>1, <2>2
<1> QED BY <1>2, <1>3, <1>4 DEF BridgeNext

\* No fee is lost or paid twice: a job adds one payment that covers the fee to what the
\* contract holds and what the wallets have received together, and nothing else
\* changes the sum (runLilypadJob's automatic payment and withdrawBalanceToEscrowAddress
\* only move ether).
THEOREM FeesNeverLost == BridgeSpec => FeesConserved
<1>1. EscrowInv /\ [BridgeNext]_bridgeVars =>
        [FeesSeen' - FeesSeen \in
           IF lilypadJobHistory' = lilypadJobHistory
           THEN {0}
           ELSE {value \in Payments : value >= LILYPAD_FEE}]_bridgeVars
  BY FeesStep
<1> QED
  BY <1>1, EscrowInductive, PTL DEF BridgeSpec, FeesConserved
=============================================================================
