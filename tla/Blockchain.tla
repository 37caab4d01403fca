-------------------------- MODULE Blockchain --------------------------
(***************************************************************************)
(* One ledger: the Blockchain class of blockchain/blockchain.py without a  *)
(* store, every public mutation as one atomic step.  It is also what a     *)
(* database shared by several instances has to look like; see              *)
(* PersistentBlockchain.                                                   *)
(*   blocks  : _blocks, genesis first                                      *)
(*   state   : _state, the confirmed UTXO set and txids                    *)
(*   mempool : _mempool                                                    *)
(*   now     : the wall clock that add_block reads.  It may be stepped     *)
(*             either way, so a block timestamp can lie in its past or     *)
(*             its future.                                                 *)
(* Calls that return False change nothing and are stuttering steps.        *)
(***************************************************************************)
EXTENDS BlockRules

VARIABLES blocks, state, mempool, now

vars == <<blocks, state, mempool, now>>

Init ==
    /\ blocks = <<GENESIS>>
    /\ state = EmptyState
    /\ mempool = NewMempool(EmptyState)
    /\ now \in Times

SubmitTransaction(tx) ==
    /\ Admits(mempool, tx)
    /\ mempool' = AddTransaction(mempool, tx)
    /\ UNCHANGED <<blocks, state, now>>

RemovePendingTransaction(txid) ==
    /\ HasTransaction(mempool, txid)
    /\ mempool' = RemoveTransaction(mempool, txid)
    /\ UNCHANGED <<blocks, state, now>>

AddBlock(block) ==
    /\ Len(blocks) <= MaxHeight
    /\ Accepts(blocks, state, now, block)
    /\ blocks' = Append(blocks, block)
    /\ state' = StateAfter(state, block)
    /\ mempool' = Revalidated(mempool, StateAfter(state, block))
    /\ UNCHANGED now

\* Time passes, or an operator or NTP steps the clock.
SetClock(time) ==
    /\ now' = time
    /\ UNCHANGED <<blocks, state, mempool>>

Next ==
    \/ \E tx \in Transactions : SubmitTransaction(tx)
    \/ \E txid \in PendingTxids(mempool) : RemovePendingTransaction(txid)
    \/ \E block \in Candidates(blocks) : AddBlock(block)
    \/ \E time \in Times : SetClock(time)

Spec == Init /\ [][Next]_vars
-----------------------------------------------------------------------------
(* What the confirmed ledger has to say about its own history.  The          *)
(* definitions look at the blocks only, never at the replaying operators.    *)

Positions ==
    UNION {{<<i, j>> : j \in DOMAIN blocks[i].transactions} :
              i \in DOMAIN blocks}

TxAt(p) == blocks[p[1]].transactions[p[2]]

Before(p, q) == p[1] < q[1] \/ (p[1] = q[1] /\ p[2] < q[2])

\* Every confirmed input spends an output that the chain created before it and
\* that no other confirmed transaction spends; a coinbase never funds its own
\* block (apply_transactions and apply_block_transactions over a whole chain).
NoDoubleSpend ==
    \A q \in Positions :
        /\ \A p \in Positions \ {q} :
              /\ TxAt(p).txid # TxAt(q).txid
              /\ Spent(TxAt(p)) \cap Spent(TxAt(q)) = {}
        /\ \A o \in Spent(TxAt(q)) :
              \E p \in Positions :
                  /\ o \in Outpoints(TxAt(p))
                  /\ Before(p, q)
                  /\ p[2] = 1 => p[1] < q[1]

\* The cached UTXO set and txids are exactly what the blocks say: the outputs
\* created and not spent, with the amounts and owners they were created with.
\* So a replay from genesis (validate_chain) reproduces it, and fails only when
\* the clock reads too early for a timestamp already in the chain.
StateIsHistory ==
    LET created == UNION {Outpoints(TxAt(p)) : p \in Positions}
        spent == UNION {Spent(TxAt(p)) : p \in Positions}
    IN  /\ DOMAIN state.utxos = created \ spent
        /\ state.seen = {TxAt(p).txid : p \in Positions}
        /\ \A p \in Positions : \A o \in Outpoints(TxAt(p)) \ spent :
              state.utxos[o] = TxAt(p).outputs[o[2] + 1]
        /\ \A time \in Times :
              LET replay == RebuildChainState(blocks, time)
              IN  /\ replay.ok <=>
                        \A i \in 2..Len(blocks) :
                            blocks[i].timestamp <= time + MAX_FUTURE_BLOCK_TIME
                  /\ replay.ok => replay.state = state

\* No money is made: what is unspent is at most one subsidy for each block.
SupplyBounded == Total(state.utxos) <= BLOCK_SUBSIDY * (Len(blocks) - 1)

-----------------------------------------------------------------------------
(* The mempool against the ledger.                                           *)

Entry(i) == mempool.entries[i]

\* The pool's copies of the confirmed state are never stale (add_block
\* revalidates before it publishes), nothing is both pending and confirmed,
\* every output a pending transaction spends is reserved for it alone, and its
\* unconfirmed parents come before it, so the pool reloads in order.  The
\* running totals and the fees kept since admission are still right after any
\* number of removals and confirmations, and the limits hold.
PoolFollowsLedger ==
    /\ mempool.confirmed = state.utxos
    /\ mempool.seen = state.seen
    /\ PendingTxids(mempool) \cap state.seen = {}
    /\ \A i, j \in DOMAIN mempool.entries :
          i # j => /\ Entry(i).transaction.txid # Entry(j).transaction.txid
                   /\ Spent(Entry(i).transaction)
                          \cap Spent(Entry(j).transaction) = {}
    /\ \A i \in DOMAIN mempool.entries : \A o \in Spent(Entry(i).transaction) :
          \/ o \in DOMAIN state.utxos
          \/ \E j \in 1..(i - 1) : o \in Outpoints(Entry(j).transaction)
    /\ DOMAIN mempool.working =
          (DOMAIN state.utxos
              \cup UNION {Outpoints(e.transaction) : e \in ToSet(mempool.entries)})
          \ UNION {Spent(e.transaction) : e \in ToSet(mempool.entries)}
    /\ mempool.total_bytes =
          SumFunction([i \in DOMAIN mempool.entries |-> Entry(i).transaction.size])
    /\ mempool.total_bytes <= MempoolMaxBytes
    /\ Len(mempool.entries) <= MempoolMaxTransactions
    /\ Total(state.utxos) =
          Total(mempool.working)
              + SumFunction([i \in DOMAIN mempool.entries |-> Entry(i).fee])

\* A node can always mine what it holds: the default template over any
\* selection is built without an error, stays within its limits, and is
\* accepted on top of the chain unless the parent is so far ahead of the clock
\* that the next second is beyond the future limit.
TemplateAcceptable ==
    \A a \in Addresses, max_transactions \in 0..MempoolMaxTransactions,
       max_bytes \in {0, MempoolMaxBytes - 1, MempoolMaxBytes} :
        LET txs == SelectTransactions(mempool, max_transactions, max_bytes)
            timestamp == DefaultTimestamp(Last(blocks), now)
            template == CreateBlockTemplate(Last(blocks), a, txs, timestamp, state)
        IN  /\ template.ok
            /\ Len(txs) <= max_transactions
            /\ SumFunction([i \in DOMAIN txs |-> txs[i].size]) <= max_bytes
            /\ timestamp <= now + MAX_FUTURE_BLOCK_TIME =>
                   Accepts(blocks, state, now, template.block)

-----------------------------------------------------------------------------
(* What a step may never do.                                                 *)

\* The pending transactions that lose an input once the txids in roots are
\* gone, directly or through a pending parent: the least set with the roots and
\* with every child of one of its members.
Closed(gone, roots, pool) ==
    /\ roots \subseteq gone
    /\ \A tx \in ToSet(GetTransactions(pool)) :
          Parents(pool, tx) \cap gone # {} => tx.txid \in gone

Orphaned(roots, pool) ==
    {txid \in PendingTxids(pool) :
        \A gone \in SUBSET PendingTxids(pool) :
            Closed(gone, roots, pool) => txid \in gone}

\* The txids of a body, the outputs it spends, and the pending transactions
\* that want one of those and are not in the body.
Txids(mined) == {tx.txid : tx \in mined}

Consumed(mined) == UNION {Spent(tx) : tx \in mined}

Conflicting(mined, pool) ==
    {tx.txid : tx \in {t \in ToSet(GetTransactions(pool)) :
                          t.txid \notin Txids(mined) /\ Spent(t) \cap Consumed(mined) # {}}}

\* new is old without those in dropped.  The order tells that nothing is twice.
KeptInOrder(new, old, dropped) ==
    /\ ToSet(new) = {tx \in ToSet(old) : tx.txid \notin dropped}
    /\ \A i, j \in DOMAIN new, k, l \in DOMAIN old :
          new[i] = old[k] /\ new[j] = old[l] => (i < j <=> k < l)

\* The pool keeps, in order, everything a change does not touch.
\* remove_pending_transaction drops the transaction and its descendants only;
\* a block drops what it confirms and what it conflicts with, with the
\* descendants of the latter.
PoolKeepsTheRest ==
    [][/\ \A txid \in PendingTxids(mempool) :
             RemovePendingTransaction(txid) =>
                 KeptInOrder(GetTransactions(mempool'), GetTransactions(mempool),
                             Orphaned({txid}, mempool))
       /\ Len(blocks') > Len(blocks) =>
             LET mined == ToSet(Last(blocks').transactions)
             IN  KeptInOrder(GetTransactions(mempool'), GetTransactions(mempool),
                     Txids(mined) \cup Orphaned(Conflicting(mined, mempool), mempool))]_vars
=============================================================================
