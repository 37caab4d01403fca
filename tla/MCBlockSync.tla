-------------------------- MODULE MCBlockSync --------------------------
EXTENDS BlockSync

CONSTANTS n1, n2

\* Two nodes that start from genesis; both mine, one of them further.
Pair == {n1, n2}
PairWired == {Pair}
PairStart == [n \in Pair |-> <<>>]
PairHeight == (n1 :> 2) @@ (n2 :> 1)
=========================================================================
