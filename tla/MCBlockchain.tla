------------------------- MODULE MCBlockchain -------------------------
(***************************************************************************)
(* A small ledger for TLC.  The transactions tell a story that starts with *)
(* the coinbase of a block mined by "A" at time 1:                         *)
(*   Pay    spends it, paying 30 to "B" and 15 back to "A", fee 5          *)
(*   Rival  spends it too, fee 1: it conflicts with Pay                    *)
(*   Child  spends the first output of Pay, fee 6                          *)
(*   Thief  spends the first output of Pay with a key of "A"               *)
(*   Joint  spends both outputs of Pay, signed by "B" and by "A", fee 1    *)
(*   Other  spends the coinbase of a block mined by "A" at time 2          *)
(***************************************************************************)
EXTENDS ChainView

In(txid, index, address) ==
    [outpoint |-> <<txid, index>>, address |-> address, verified |-> TRUE]

Out(amount, recipient) == [amount |-> amount, recipient |-> recipient]

Regular(name, inputs, outputs, size) ==
    [txid |-> <<"tx", name>>, inputs |-> inputs, outputs |-> outputs,
     timestamp |-> 1, well_formed |-> TRUE, size |-> size]

Reward == CreateCoinbase("A", 1, 50).txid

Pay == Regular("pay", <<In(Reward, 0, "A")>>, <<Out(30, "B"), Out(15, "A")>>, 2)

Rival == Regular("rival", <<In(Reward, 0, "A")>>, <<Out(49, "A")>>, 1)

Child == Regular("child", <<In(Pay.txid, 0, "B")>>, <<Out(24, "B")>>, 1)

Thief == Regular("thief", <<In(Pay.txid, 0, "A")>>, <<Out(30, "A")>>, 1)

Joint ==
    Regular("joint", <<In(Pay.txid, 0, "B"), In(Pay.txid, 1, "A")>>,
            <<Out(20, "B"), Out(24, "B")>>, 1)

Other ==
    Regular("other", <<In(CreateCoinbase("A", 2, 50).txid, 0, "A")>>,
            <<Out(20, "B"), Out(30, "B")>>, 1)

MCTransactions == {Pay, Rival, Child, Thief, Joint, Other}

MCAddresses == {"A", "B"}

MCRewards == {50, 55}
=============================================================================
