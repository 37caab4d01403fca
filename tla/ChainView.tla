--------------------------- MODULE ChainView ---------------------------
(***************************************************************************)
(* What the read side derives from the blocks: the ChainView index of the  *)
(* explorer (api/services/explorer_service.py), and the queries of the     *)
(* Blockchain class (blockchain/blockchain.py), the wallet's history among *)
(* them.  Two programs tell the story of an address, and a third, the UTXO *)
(* set, knows how it ends.                                                 *)
(* A view is the record of the indexes that populate fills.                *)
(***************************************************************************)
EXTENDS Blockchain

-----------------------------------------------------------------------------
(* The queries of Blockchain.  None stands for the code's None.              *)

None == -1

\* get_blocks; heights count from 0.
GetBlocks(chain, start_height, limit) ==
    IF limit \in 1 .. 100 /\ start_height \in 0 .. (Len(chain) - 1)
    THEN SubSeq(chain, start_height + 1,
                IF start_height + limit < Len(chain) THEN start_height + limit
                                                     ELSE Len(chain))
    ELSE <<>>

\* get_block_by_hash, get_block_info_by_hash: the height of the block, or None.
HeightOf(chain, hash) ==
    LET found == {i \in DOMAIN chain : BlockHash(chain[i]) = hash}
    IN  IF found = {} THEN None ELSE Min(found) - 1

\* get_address_info
GetAddressInfo(st, address) ==
    LET mine == {o \in DOMAIN st.utxos : st.utxos[o].recipient = address}
    IN  [utxos |-> mine,
         confirmed_balance |-> MapThenSumSet(LAMBDA o : st.utxos[o].amount, mine)]

\* find_transaction: the pool first, then the blocks.
FindTransaction(chain, st, pool, txid) ==
    LET heights == {i \in DOMAIN chain : txid \in ToSet(TxidOf(chain[i].transactions))}
    IN  CASE HasTransaction(pool, txid) -> [status |-> "pending", height |-> None]
          [] txid \in st.seen /\ heights # {} ->
               [status |-> "confirmed", height |-> Min(heights) - 1]
          [] OTHER -> [status |-> "none", height |-> None]

\* The sum of the outputs of tx to the addresses in a set.
Paid(tx, recipients) ==
    FoldLeft(LAMBDA sum, out : IF out.recipient \in recipients
                               THEN sum + out.amount ELSE sum,
             0, tx.outputs)

\* The owners of those inputs of tx whose source is known.
Senders(sources, tx) == {sources[o].recipient : o \in Spent(tx) \cap DOMAIN sources}

\* inspect, of get_wallet_history: at most one record for a transaction.
WalletRecords(sources, address, tx, height) ==
    LET sent == address \in Senders(sources, tx)
        received == Paid(tx, {address})
    IN  IF ~sent /\ received = 0 THEN <<>>
        ELSE <<[txid |-> tx.txid, height |-> height,
                direction |-> IF sent THEN "sent" ELSE "received",
                amount |-> IF sent THEN Paid(tx, Addresses \ {address}) ELSE received]>>

\* The transactions of a chain, in order, each with its height.
Confirmations(chain) ==
    FlattenSeq([i \in DOMAIN chain |->
        [j \in DOMAIN chain[i].transactions |->
            [tx |-> chain[i].transactions[j], height |-> i - 1]]])

\* get_wallet_history before the pages are cut: every transaction is inspected
\* with the outputs of the earlier ones, the pending ones last; newest first.
GetWalletHistory(chain, pool, address) ==
    LET pending == [i \in DOMAIN pool.entries |->
                       [tx |-> pool.entries[i].transaction, height |-> None]]
        Inspect(acc, c) ==
            [sources |-> AddOutputs(c.tx, acc.sources),
             records |-> acc.records \o
                             WalletRecords(acc.sources, address, c.tx, c.height)]
    IN  Reverse(FoldLeft(Inspect, [sources |-> EmptyUTXOSet, records |-> <<>>],
                         Confirmations(chain) \o pending).records)

-----------------------------------------------------------------------------
(* ChainView.populate.                                                       *)

\* get_chain_view without its awaits: the blocks up to the tip, in batches.
Snapshot(chain, batch_size) ==
    LET Fetch(got, i) ==
            got \o GetBlocks(chain, Len(got),
                             IF batch_size < Len(chain) - Len(got) THEN batch_size
                                                                   ELSE Len(chain) - Len(got))
    IN  FoldLeft(Fetch, <<>>, [i \in DOMAIN chain |-> i])

\* Pass 1: outputs_by_outpoint, spent or not.
OutputsByOutpoint(chain) ==
    FoldLeft(LAMBDA outputs, c : AddOutputs(c.tx, outputs), EmptyUTXOSet,
             Confirmations(chain))

\* tx_fees
TxFee(outputs, tx) ==
    LET known == SelectSeq(tx.inputs, LAMBDA in : in.outpoint \in DOMAIN outputs)
        amount == FoldLeft(LAMBDA sum, in : sum + outputs[in.outpoint].amount, 0, known)
    IN  IF tx.inputs = <<>> \/ amount < OutputTotal(tx) THEN 0
        ELSE amount - OutputTotal(tx)

\* Mutant: the change a sender gets back is reported as sent.
AddressRecordsWithChange(outputs, address, tx, height) ==
    LET senders == Senders(outputs, tx)
        Record(direction, amount) ==
            <<[txid |-> tx.txid, height |-> height, timestamp |-> tx.timestamp,
               direction |-> direction, amount |-> amount, fee |-> TxFee(outputs, tx)]>>
    IN  CASE tx.inputs = <<>> /\ Paid(tx, {address}) > 0 ->
               Record("mined", Paid(tx, {address}))
          [] address \in senders -> Record("sent", Paid(tx, Addresses))
          [] tx.inputs # <<>> /\ address \notin senders /\ Paid(tx, {address}) > 0 ->
               Record("received", Paid(tx, {address}))
          [] OTHER -> <<>>

\* Pass 2: what a transaction adds to the history of an address.
AddressRecords(outputs, address, tx, height) ==
    LET senders == Senders(outputs, tx)
        Record(direction, amount) ==
            <<[txid |-> tx.txid, height |-> height, timestamp |-> tx.timestamp,
               direction |-> direction, amount |-> amount, fee |-> TxFee(outputs, tx)]>>
    IN  CASE tx.inputs = <<>> /\ Paid(tx, {address}) > 0 ->
               Record("mined", Paid(tx, {address}))
          [] address \in senders -> Record("sent", Paid(tx, Addresses \ {address}))
          [] tx.inputs # <<>> /\ address \notin senders /\ Paid(tx, {address}) > 0 ->
               Record("received", Paid(tx, {address}))
          [] OTHER -> <<>>

\* records.sort(key = (block_height, timestamp), reverse = True), which leaves
\* records with equal keys in their order.
Later(r, s) ==
    r.height > s.height \/ (r.height = s.height /\ r.timestamp > s.timestamp)

SortedNewestFirst(records) ==
    LET Insert(sorted, r) ==
            LET ahead == SelectSeq(sorted, LAMBDA s : ~Later(r, s))
            IN  ahead \o <<r>> \o SubSeq(sorted, Len(ahead) + 1, Len(sorted))
    IN  FoldLeft(Insert, <<>>, records)

AddressHistory(chain, address) ==
    LET outputs == OutputsByOutpoint(chain)
        confirmations == Confirmations(chain)
    IN  SortedNewestFirst(FlattenSeq([i \in DOMAIN confirmations |->
            AddressRecords(outputs, address, confirmations[i].tx,
                           confirmations[i].height)]))

\* get_address_detail: the records of what is pending, before the others.  The
\* owners of the inputs are looked up among the confirmed outputs only, and the
\* fee is the one the pool keeps.
PendingRecords(chain, pool, address) ==
    LET outputs == OutputsByOutpoint(chain)
        Record(e) ==
            LET tx == e.transaction
                sent == address \in Senders(outputs, tx)
                amount == Paid(tx, IF sent THEN Addresses \ {address} ELSE {address})
            IN  IF ~sent /\ amount = 0 THEN <<>>
                ELSE <<[txid |-> tx.txid, height |-> None,
                        direction |-> IF sent THEN "sent" ELSE "received",
                        amount |-> amount, fee |-> e.fee]>>
    IN  FlattenSeq([i \in DOMAIN pool.entries |-> Record(pool.entries[i])])

\* _format_block_detail: total_fees, over all but a leading coinbase.
TotalFees(chain, block) ==
    LET outputs == OutputsByOutpoint(chain)
    IN  FoldLeft(LAMBDA sum, tx : sum + TxFee(outputs, tx), 0, Tail(block.transactions))

-----------------------------------------------------------------------------
(* Properties.                                                               *)

\* The addresses that never signed a transaction together with another one:
\* the records of a joint one do not say who paid the fee and for whom.
SoleSenders(chain) ==
    {a \in Addresses : \A c \in ToSet(Confirmations(chain)) :
        a \in Senders(OutputsByOutpoint(chain), c.tx) =>
            Senders(OutputsByOutpoint(chain), c.tx) = {a}}

\* The explorer's books agree with the ledger's: what an address mined and
\* received, less what it sent and paid in fees, is its balance in the UTXO
\* set; the fees shown for a block cover what its miner took beyond the
\* subsidy, so that no money is made.
BooksBalance ==
    /\ \A a \in SoleSenders(blocks) :
          LET Change(r) == IF r.direction = "sent" THEN -(r.amount + r.fee) ELSE r.amount
          IN  GetAddressInfo(state, a).confirmed_balance =
                  FoldLeft(LAMBDA sum, r : sum + Change(r), 0, AddressHistory(blocks, a))
    /\ \A i \in 2 .. Len(blocks) :
          OutputTotal(Head(blocks[i].transactions))
              <= BLOCK_SUBSIDY + TotalFees(blocks, blocks[i])
    /\ SupplyBounded

\* The explorer and the wallet tell the same story of every address (a mined
\* reward is "received" to the wallet), one record for a transaction, newest
\* block first, each where find_transaction says the transaction is.  Of what is
\* pending they tell the same unless it spends a pending output: the explorer
\* does not know the owner of that one.
HistoriesAgree ==
    \A a \in Addresses, batch_size \in {1, 2} :
        LET explorer == AddressHistory(Snapshot(blocks, batch_size), a)
            history == GetWalletHistory(blocks, mempool, a)
            wallet == SelectSeq(history, LAMBDA r : r.height # None)
            outputs == OutputsByOutpoint(blocks)
            rooted == {e.transaction.txid : e \in {e \in ToSet(mempool.entries) :
                          Spent(e.transaction) \subseteq DOMAIN outputs}}
            pending == ToSet(PendingRecords(blocks, mempool, a))
            Seen(r) == [txid |-> r.txid, height |-> r.height, amount |-> r.amount,
                        direction |-> IF r.direction = "mined" THEN "received"
                                                               ELSE r.direction]
        IN  /\ {Seen(r) : r \in ToSet(explorer)} = ToSet(wallet)
            /\ Len(explorer) = Len(wallet)
            /\ \A i, j \in DOMAIN explorer :
                  /\ i # j => explorer[i].txid # explorer[j].txid
                  /\ i < j => /\ explorer[i].height >= explorer[j].height
                              /\ wallet[i].height >= wallet[j].height
            /\ \A r \in ToSet(explorer) :
                  FindTransaction(blocks, state, mempool, r.txid) =
                      [status |-> "confirmed",
                       height |-> HeightOf(blocks, BlockHash(blocks[r.height + 1]))]
            /\ {[txid |-> r.txid, height |-> r.height, amount |-> r.amount,
                 direction |-> r.direction] : r \in {r \in pending : r.txid \in rooted}}
                   = {r \in ToSet(history) : r.height = None /\ r.txid \in rooted}
            /\ \A r \in pending : r.txid \in rooted =>
                  \A e \in ToSet(mempool.entries) : e.transaction.txid = r.txid =>
                      r.fee = TxFee(outputs, e.transaction)

\* What the explorer and the wallet compute from the blocks alone agrees with
\* the ledger's own state and with each other, to the last unit and record.
QueriesAgree == BooksBalance /\ HistoriesAgree

==========================================================================
