--------------------------- MODULE Mempool ---------------------------
(***************************************************************************)
(* The bounded pool of pending transactions (transaction/mempool.py) as    *)
(* pure operators on a pool record:                                        *)
(*   confirmed, seen : copies of the confirmed UTXO set and txids          *)
(*   working         : confirmed with every pending transaction applied;   *)
(*                     what is missing from it is reserved                 *)
(*   entries         : the pending transactions in insertion order, each   *)
(*                     with the fee and size computed when it was admitted *)
(*   total_bytes     : the running size                                    *)
(* The limits are those of the one configuration a database is created     *)
(* with; the code refuses to open or write it with any other.              *)
(***************************************************************************)
EXTENDS Transactions

CONSTANTS MempoolMaxTransactions, MempoolMaxBytes

ASSUME MempoolLimits ==
    /\ MempoolMaxTransactions \in Nat \ {0}
    /\ MempoolMaxBytes \in Nat \ {0}

NewMempool(state) ==
    [confirmed |-> state.utxos, seen |-> state.seen, working |-> state.utxos,
     entries |-> <<>>, total_bytes |-> 0]

GetTransactions(pool) ==
    [i \in DOMAIN pool.entries |-> pool.entries[i].transaction]

PendingTxids(pool) == ToSet(TxidOf(GetTransactions(pool)))

HasTransaction(pool, txid) == txid \in PendingTxids(pool)

\* The checks of add_transaction, in full; it changes nothing when one fails.
Admits(pool, tx) ==
    /\ Len(pool.entries) < MempoolMaxTransactions
    /\ ValidatedFee(tx, pool.working) # NoFee
    /\ tx.txid \notin pool.seen
    /\ ~HasTransaction(pool, tx.txid)
    /\ pool.total_bytes + tx.size <= MempoolMaxBytes
    /\ Applicable(tx, pool.working)

\* Mutant: the inputs of the new transaction are not reserved.
AddTransactionUnreserved(pool, tx) ==
    IF Admits(pool, tx)
    THEN [pool EXCEPT
            !.entries = Append(@, [transaction |-> tx,
                                   fee |-> ValidatedFee(tx, pool.working),
                                   size_bytes |-> tx.size]),
            !.total_bytes = @ + tx.size]
    ELSE pool

AddTransaction(pool, tx) ==
    IF Admits(pool, tx)
    THEN [pool EXCEPT
            !.entries = Append(@, [transaction |-> tx,
                                   fee |-> ValidatedFee(tx, pool.working),
                                   size_bytes |-> tx.size]),
            !.working = ApplyTransaction(tx, @),
            !.total_bytes = @ + tx.size]
    ELSE pool

\* One round of the loops that rebuild a pool: a transaction is passed over or
\* offered to the new pool, which may refuse it.
ReadmitNext(passed_over, pool, tx) ==
    IF tx.txid \in passed_over THEN pool ELSE AddTransaction(pool, tx)

Rebuild(txs, passed_over, state) ==
    FoldLeft(LAMBDA pool, tx : ReadmitNext(passed_over, pool, tx),
             NewMempool(state), txs)

\* read_mempool_rows offers every transaction.
Readmit(txs, state) == Rebuild(txs, {}, state)

\* Mutant: the rebuild stops at the removed transaction.
RemoveTransactionTruncates(pool, txid) ==
    LET before == SelectInSeq(pool.entries,
                              LAMBDA e : e.transaction.txid = txid) - 1
    IN  Readmit(SubSeq(GetTransactions(pool), 1, before),
                [utxos |-> pool.confirmed, seen |-> pool.seen])

\* remove_transaction keeps the pool's own copies of the confirmed state.
RemoveTransaction(pool, txid) ==
    LET rebuilt == Rebuild(GetTransactions(pool), {txid},
                           [utxos |-> pool.confirmed, seen |-> pool.seen])
    IN  IF HasTransaction(pool, txid)
        THEN [pool EXCEPT !.entries = rebuilt.entries,
                          !.working = rebuilt.working,
                          !.total_bytes = rebuilt.total_bytes]
        ELSE pool

\* revalidated: a pool over the new confirmed state, with what is still valid.
Revalidated(pool, state) == Rebuild(GetTransactions(pool), state.seen, state)

-----------------------------------------------------------------------------
(* Selection for a block: greedy by fee per byte over the entries whose      *)
(* pending parents are already selected.  Ties go to the smaller txid, an    *)
(* arbitrary but fixed order, hence CHOOSE.                                  *)

Parents(pool, tx) ==
    {o[1] : o \in Spent(tx)} \cap PendingTxids(pool)

\* Mutant: a child may be selected before its parent.
ReadyIgnoresParents(pool, selected, max_bytes) ==
    {e \in ToSet(pool.entries) :
        e.transaction.txid \notin ToSet(TxidOf(selected))}

Ready(pool, selected, max_bytes) ==
    LET chosen == ToSet(TxidOf(selected))
        bytes == SumFunction([i \in DOMAIN selected |-> selected[i].size])
    IN  {e \in ToSet(pool.entries) :
            /\ e.transaction.txid \notin chosen
            /\ Parents(pool, e.transaction) \subseteq chosen
            /\ bytes + e.size_bytes <= max_bytes}

BestFeeRate(entries) ==
    CHOOSE e \in entries :
        \A f \in entries : e.fee * f.size_bytes >= f.fee * e.size_bytes

\* One turn of the while loop: the best of what is ready, if there is any.
SelectNext(pool, max_transactions, max_bytes, selected, i) ==
    LET ready == Ready(pool, selected, max_bytes)
    IN  IF i > max_transactions \/ ready = {}
        THEN selected
        ELSE Append(selected, BestFeeRate(ready).transaction)

SelectTransactions(pool, max_transactions, max_bytes) ==
    FoldLeft(LAMBDA selected, i :
                 SelectNext(pool, max_transactions, max_bytes, selected, i),
             <<>>, [i \in DOMAIN pool.entries |-> i])
=============================================================================
