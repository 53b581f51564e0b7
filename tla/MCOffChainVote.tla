--------------------------- MODULE MCOffChainVote ----------------------------
(* A small instance of OffChainVote for TLC. *)
EXTENDS OffChainVote, TLC

CONSTANTS A, B

\* Either one vote outweighs the other or the two tie; together they are the whole
\* supply.
MCSnapshots ==
    {[balances |-> A :> 2 @@ B :> 1, totalSupply |-> 3],
     [balances |-> A :> 1 @@ B :> 1, totalSupply |-> 2]}

PageSymmetry == Permutations(Pages)
=============================================================================
