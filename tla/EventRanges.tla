----------------------------- MODULE EventRanges ------------------------------
(***************************************************************************)
(* getPaginatedBlockRanges of web/utils/events.ts, which splits a query of *)
(* events into ranges of blocks that a node answers, and the filter that   *)
(* paginatedEventQuery applies to what the ranges yield.  Nothing in the   *)
(* repository calls them.                                                  *)
(*                                                                         *)
(* maxBlockLookBack is positive: without one there is a single range, and  *)
(* of 0 paginatedEventQuery makes a single query.                          *)
(***************************************************************************)
EXTENDS Integers, Sequences

FlooredStartBlock(fromBlock, lookBack) == (fromBlock \div lookBack) * lookBack

\* Math.ceil of a quotient.
Iterations(fromBlock, toBlock, lookBack) ==
    (toBlock + 1 - FlooredStartBlock(fromBlock, lookBack) + lookBack - 1) \div lookBack

Smaller(x, y) == IF x < y THEN x ELSE y

\* The i-th range, both ends included.
BlockRange(fromBlock, toBlock, lookBack, i) ==
    LET innerFromBlock == FlooredStartBlock(fromBlock, lookBack) + lookBack * (i - 1)
    IN <<innerFromBlock, Smaller(innerFromBlock + lookBack - 1, toBlock)>>

PaginatedBlockRanges(fromBlock, toBlock, lookBack) ==
    IF fromBlock > toBlock THEN << >>
    ELSE [i \in 1 .. Iterations(fromBlock, toBlock, lookBack) |->
            BlockRange(fromBlock, toBlock, lookBack, i)]

\* How the ranges are meant (the comments at lines 59-77): adjacent, in order, each
\* of at most lookBack blocks, from the floored start up to toBlock and not beyond.
Covers(ranges, b) == {i \in DOMAIN ranges : b \in ranges[i][1] .. ranges[i][2]}
=============================================================================
