--------------------------- MODULE MCProposalsTile ---------------------------
EXTENDS ProposalsTile, TLC

CONSTANTS p1, p2

TileSymmetry == Permutations({p1, p2}) \cup Permutations(Pages)

\* Two refreshes at once, or two proposals; the product is out of reach.
OneOrOne ==
    \/ Len(created) <= 1
    \/ Cardinality({page \in Pages : refresh[page].step # "idle"}) <= 1

=============================================================================
