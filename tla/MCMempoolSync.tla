------------------------- MODULE MCMempoolSync -------------------------
EXTENDS MempoolSync

CONSTANTS n1, n2, pay, child, rival

\* n1 starts with a payment and one that spends its change; n2 may be given a
\* rival of the second.
Pair == {n1, n2}
PairWired == {Pair}
PairPool == (n1 :> <<pay, child>>) @@ (n2 :> <<>>)
PairHeight == (n1 :> 1) @@ (n2 :> 0)

MCTxs == {pay, child, rival}
MCParents == (pay :> {}) @@ (child :> {pay}) @@ (rival :> {pay})
MCRivals == (pay :> {}) @@ (child :> {rival}) @@ (rival :> {child})
=========================================================================
