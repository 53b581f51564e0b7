----------------------------- MODULE KickToken ------------------------------
(***************************************************************************)
(* DefiKicksDataGovernanceToken (contracts/contracts/                      *)
(* DataGovernanceToken.sol): an OpenZeppelin ERC20Snapshot whose owner,    *)
(* the Governor, takes a snapshot for every proposal and mints the voting  *)
(* rewards.                                                                *)
(*                                                                         *)
(* Simplifications: ERC20Snapshot itself is a library.  It stores a value  *)
(* lazily, at the first change after a snapshot; here a snapshot is the    *)
(* copy of the balances and the supply that balanceOfAt and totalSupplyAt  *)
(* then report.  Allowances are not used by the system.  onlyOwner is the  *)
(* composing module's business.                                            *)
(***************************************************************************)
EXTENDS Integers, Sequences, Functions

CONSTANTS
    Users,          \* token holders
    Deployer,       \* the one that receives the initial supply
    InitialSupply   \* what the constructor mints

VARIABLES
    balances,      \* ERC20 _balances
    totalSupply,   \* ERC20 _totalSupply
    snapshots      \* what ERC20Snapshot remembers; the snapshot id is the index

tokenVars == <<balances, totalSupply, snapshots>>

Snapshots == [balances : [Users -> Nat], totalSupply : Nat]

TokenTypeOK ==
    /\ balances \in [Users -> Nat]
    /\ totalSupply \in Nat
    /\ snapshots \in Seq(Snapshots)

TokenInit ==
    /\ balances = [user \in Users |-> IF user = Deployer THEN InitialSupply ELSE 0]
    /\ totalSupply = InitialSupply
    /\ snapshots = << >>

\* The token's storage as one value, which the calls of a transaction hand on.
Ledger == [balances |-> balances, totalSupply |-> totalSupply, snapshots |-> snapshots]

TokenBecomes(ledger) ==
    /\ balances' = ledger.balances
    /\ totalSupply' = ledger.totalSupply
    /\ snapshots' = ledger.snapshots

\* Ids start at 1; the new id is the number of snapshots.
Snapshotted(ledger) ==
    [balances |-> ledger.balances, totalSupply |-> ledger.totalSupply,
     snapshots |-> Append(ledger.snapshots, [balances |-> ledger.balances,
                                             totalSupply |-> ledger.totalSupply])]

Minted(ledger, wallet, amount) ==
    [balances |-> [ledger.balances EXCEPT ![wallet] = @ + amount],
     totalSupply |-> ledger.totalSupply + amount,
     snapshots |-> ledger.snapshots]

Snapshot == TokenBecomes(Snapshotted(Ledger))

Mint(wallet, amount) == TokenBecomes(Minted(Ledger, wallet, amount))

Transfer(from, to, amount) ==
    /\ balances[from] >= amount
    /\ LET debited == [balances EXCEPT ![from] = @ - amount]
       IN  balances' = [debited EXCEPT ![to] = @ + amount]
    /\ UNCHANGED <<totalSupply, snapshots>>

BalanceOfAt(user, id) == snapshots[id].balances[user]

TotalSupplyAt(id) == snapshots[id].totalSupply

=============================================================================
