-------------------------------- MODULE Lists ---------------------------------
(***************************************************************************)
(* Two ways of taking elements out of an array.  Array.prototype.filter,   *)
(* and a loop that pushes what it finds: SelectSeq with the elements to    *)
(* keep as a set, defined so that it can be reasoned about.  And Solidity's*)
(* swap and pop.                                                           *)
(***************************************************************************)
EXTENDS Integers, Sequences

Selection(list, kept) ==
    LET taken[n \in 0 .. Len(list)] ==
          IF n = 0 THEN << >>
          ELSE IF list[n] \in kept THEN Append(taken[n - 1], list[n])
          ELSE taken[n - 1]
    IN taken[Len(list)]

\* Mutant of SwapAndPop: the array is popped without the swap.
PopOnly(names, i) == SubSeq(names, 1, Len(names) - 1)

\* The last name takes slot i, then the array is popped.
SwapAndPop(names, i) ==
    [k \in 1 .. Len(names) - 1 |-> IF k = i THEN names[Len(names)] ELSE names[k]]
=============================================================================
