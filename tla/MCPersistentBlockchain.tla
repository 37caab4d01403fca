-------------------- MODULE MCPersistentBlockchain --------------------
(***************************************************************************)
(* Two instances over one file.  Once "A" has mined at time 1, Pay and     *)
(* Rival compete for that coinbase, so that the order in which the         *)
(* instances commit matters.                                               *)
(***************************************************************************)
EXTENDS PersistentBlockchain

CONSTANTS p1, p2

Regular(name, amount) ==
    [txid |-> <<"tx", name>>,
     inputs |-> <<[outpoint |-> <<CreateCoinbase("A", 1, 50).txid, 0>>,
                   address |-> "A", verified |-> TRUE]>>,
     outputs |-> <<[amount |-> amount, recipient |-> "A"]>>,
     timestamp |-> 1, well_formed |-> TRUE, size |-> 1]

MCTransactions == {Regular("pay", 50), Regular("rival", 49)}

MCAddresses == {"A", "B"}

Instances == Permutations(Procs)
=============================================================================
