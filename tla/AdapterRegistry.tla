--------------------------- MODULE AdapterRegistry ---------------------------
(***************************************************************************)
(* DefiKicksAdapterRegistry (contracts/contracts/DefiKickAdapters.sol):    *)
(* the on-chain list of approved TVL adapters.  A mapping from a name to   *)
(* an Adapter, and beside it an array with the names in it, which          *)
(* removeAdapter keeps dense by moving the last name into the freed slot.  *)
(*                                                                         *)
(* Simplifications: a name and an IPFS hash are members of small sets; the *)
(* empty strings that Solidity's mapping default holds are EmptyName and   *)
(* NoHash.  onlyOwner is the composing module's business: the Governor's   *)
(* execute is the only caller once the ownership is transferred.           *)
(***************************************************************************)
EXTENDS Integers, Sequences, Functions, Lists

CONSTANTS
    Names,      \* names a caller passes; EmptyName may be one of them
    EmptyName,  \* the string of length 0
    Hashes,     \* IPFS hashes a caller passes
    NoHash,     \* the ipfsHash of a mapping entry that was never written
    MaxNames    \* bound on the length of adapterNames

VARIABLES
    adapters,      \* mapping(string => Adapter)
    adapterNames   \* string[]

registryVars == <<adapters, adapterNames>>

\* What `delete` leaves, and what a mapping holds before the first write.
NoAdapter == [name |-> EmptyName, ipfsHash |-> NoHash]

Adapter == [name : Names \cup {EmptyName}, ipfsHash : Hashes \cup {NoHash}]

RegistryTypeOK ==
    /\ adapters \in [Names -> Adapter]
    /\ adapterNames \in Seq(Names)

RegistryInit ==
    /\ adapters = [name \in Names |-> NoAdapter]
    /\ adapterNames = << >>

\* The two data structures as one value, which the calls of a transaction hand on.
Storage == [adapters |-> adapters, adapterNames |-> adapterNames]

Becomes(storage) == adapters' = storage.adapters /\ adapterNames' = storage.adapterNames

\* The contract's own existence test: bytes(adapter.name).length != 0.
Exists(storage, name) == storage.adapters[name].name # EmptyName

\* Mutant of Added: the struct's fields in the wrong order.
AddedSwapped(storage, name, ipfsHash) ==
    [adapters |-> [storage.adapters EXCEPT ![name] = [name |-> ipfsHash, ipfsHash |-> name]],
     adapterNames |-> Append(storage.adapterNames, name)]

Added(storage, name, ipfsHash) ==
    [adapters |-> [storage.adapters EXCEPT ![name] = [name |-> name, ipfsHash |-> ipfsHash]],
     adapterNames |-> Append(storage.adapterNames, name)]

Slots(names, name) == {i \in DOMAIN names : names[i] = name}

\* The loop stops at the first slot that holds the name.
Removed(storage, name) ==
    LET names == storage.adapterNames
        slots == Slots(names, name)
    IN  [adapters |-> [storage.adapters EXCEPT ![name] = NoAdapter],
         adapterNames |-> IF slots = {} THEN names
                          ELSE SwapAndPop(names, CHOOSE i \in slots : \A k \in slots : i <= k)]

\* Mutant of AddAdapter: no "Adapter already exists" check.
AddAdapterUnchecked(name, ipfsHash) ==
    /\ Len(adapterNames) < MaxNames
    /\ Becomes(Added(Storage, name, ipfsHash))

AddAdapter(name, ipfsHash) ==
    /\ ~Exists(Storage, name)
    /\ Len(adapterNames) < MaxNames
    /\ Becomes(Added(Storage, name, ipfsHash))

RemoveAdapter(name) ==
    /\ Exists(Storage, name)
    /\ Becomes(Removed(Storage, name))

RegistryNext ==
    \/ \E name \in Names, ipfsHash \in Hashes : AddAdapter(name, ipfsHash)
    \/ \E name \in Names : RemoveAdapter(name)

RegistrySpec == RegistryInit /\ [][RegistryNext]_registryVars

-----------------------------------------------------------------------------
Registered(name) == Exists(Storage, name)

\* The array lists exactly the names the mapping has an adapter for, and every
\* entry is filed under its own name: addAdapter and removeAdapter update the
\* two data structures by different code and must keep them in step.
NamesMatchAdapters ==
    /\ Range(adapterNames) = {name \in Names : Registered(name)}
    /\ \A name \in Names : adapters[name].name \in {name, EmptyName}

\* No name is listed twice.  removeAdapter pops one slot only, so a duplicate
\* would stay listed after its adapter is gone.
NamesUnique == IsInjective(adapterNames)

\* The three together, of any value of the storage.
InStep(storage) ==
    /\ storage.adapters \in [Names -> Adapter]
    /\ storage.adapterNames \in Seq(Names)
    /\ Range(storage.adapterNames) = {name \in Names : Exists(storage, name)}
    /\ \A name \in Names : storage.adapters[name].name \in {name, EmptyName}
    /\ IsInjective(storage.adapterNames)

RegistryInv == InStep(Storage)
=============================================================================
