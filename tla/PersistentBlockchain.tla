---------------------- MODULE PersistentBlockchain ----------------------
(***************************************************************************)
(* Blockchain objects over one SQLite file (blockchain/blockchain.py with  *)
(* storage/chain_store.py, chainstate_store.py, block_store.py and         *)
(* database.py).  Several instances, in one or several OS processes, may   *)
(* have the file open; any of them may be killed at any point; a COMMIT    *)
(* may succeed although the instance is told that it failed.               *)
(*                                                                         *)
(*   file : "absent", "empty" (created, schema not committed) or "ready"   *)
(*   db   : the committed rows: blocks, the cached confirmed state, the    *)
(*          mempool rows in order, and the metadata row                    *)
(*   inst : the instances.  status is                                      *)
(*            "down"    no object, closed, or the process died             *)
(*            "created" open_database created the file                     *)
(*            "opened"  connected, load_or_initialize has still to read    *)
(*            "live"    serving                                            *)
(*            "failed"  _storage_failed: every call raises                 *)
(*          and the other fields are _blocks, _state, _mempool, _revision  *)
(*   now  : the wall clock                                                 *)
(*                                                                         *)
(* A write is one step: the instance prepares it from its own memory,      *)
(* which nobody else changes, and the database decides it in one           *)
(* BEGIN IMMEDIATE transaction.                                            *)
(***************************************************************************)
EXTENDS BlockRules

CONSTANTS
    Procs,          \* the instances
    MaxRevision     \* bound on the number of writes

ASSUME RevisionAssumption == MaxRevision \in Nat

VARIABLES file, db, inst, now

vars == <<file, db, inst, now>>

-----------------------------------------------------------------------------
(* Rows.                                                                     *)

Rows(blocks, state, pool, height, tip, revision) ==
    [blocks |-> blocks, state |-> state, pool |-> pool, height |-> height,
     tip |-> tip, revision |-> revision, digest |-> TxidOf(pool)]

NoRows == Rows(<<>>, EmptyState, <<>>, 0, <<>>, 0)

\* The rows _initialize commits: genesis and an empty pool at revision 0.
InitialRows == Rows(<<GENESIS>>, EmptyState, <<>>, 0, BlockHash(GENESIS), 0)

Idle(status) ==
    [status |-> status, blocks |-> <<>>, state |-> EmptyState,
     mempool |-> NewMempool(EmptyState), revision |-> 0]

Live(blocks, state, mempool, revision) ==
    [status |-> "live", blocks |-> blocks, state |-> state,
     mempool |-> mempool, revision |-> revision]

Tip(chain) == chain[Len(chain)]

\* encode_chainstate_rows and encode_mempool_rows raise on anything else.
Encodable(state, mempool) ==
    /\ \A o \in DOMAIN state.utxos : o[1] \in state.seen
    /\ Len(mempool.entries) <= MempoolMaxTransactions
    /\ mempool.total_bytes <= MempoolMaxBytes

\* Mutant: the revision is not compared.
ExpectedIgnoresRevision(me) ==
    /\ <<db.height, db.tip>> = <<Len(me.blocks) - 1, BlockHash(Tip(me.blocks))>>
    /\ Len(db.blocks) = Len(me.blocks)

\* _check_expected: the metadata and the newest block row are those this
\* instance last read or wrote.
Expected(me) ==
    /\ <<db.height, db.tip, db.revision>> =
          <<Len(me.blocks) - 1, BlockHash(Tip(me.blocks)), me.revision>>
    /\ Len(db.blocks) = Len(me.blocks)
    /\ BlockHash(Tip(db.blocks)) = BlockHash(Tip(me.blocks))

\* Mutant: a pool is saved without a new revision.
WithPoolSameRevision(rows, mempool, revision) ==
    Rows(rows.blocks, rows.state, GetTransactions(mempool), rows.height,
         rows.tip, rows.revision)

\* replace_mempool: only the mempool rows, their digest and the revision.
WithPool(rows, mempool, revision) ==
    Rows(rows.blocks, rows.state, GetTransactions(mempool), rows.height,
         rows.tip, revision)

\* Mutant: a block is saved without the state after it.
WithBlockOldState(rows, block, state, mempool, revision) ==
    Rows(Append(rows.blocks, block), rows.state, GetTransactions(mempool),
         rows.height + 1, BlockHash(block), revision)

\* append_block: one more block row, the confirmed state and the pool replaced.
WithBlock(rows, block, state, mempool, revision) ==
    Rows(Append(rows.blocks, block), state, GetTransactions(mempool),
         rows.height + 1, BlockHash(block), revision)

\* Everything load_or_initialize checks before it returns.
Recoverable(rows, time) ==
    LET replay == RebuildChainState(rows.blocks, time)
        mempool == Readmit(rows.pool, replay.state)
    IN  /\ rows.revision >= rows.height
        /\ rows.blocks # <<>>
        /\ rows.blocks[1] = GENESIS
        /\ rows.height = Len(rows.blocks) - 1
        /\ rows.tip = BlockHash(Tip(rows.blocks))
        /\ replay.ok
        /\ replay.state = rows.state
        /\ Len(mempool.entries) = Len(rows.pool)
        /\ TxidOf(GetTransactions(mempool)) = rows.digest

-----------------------------------------------------------------------------
(* Opening and closing.                                                      *)

Init ==
    /\ file = "absent"
    /\ db = NoRows
    /\ inst = [p \in Procs |-> Idle("down")]
    /\ now \in Times

\* Mutant: the file is not created exclusively.
CreateFileAlways(p) ==
    /\ inst[p].status = "down"
    /\ file' = "empty"
    /\ inst' = [inst EXCEPT ![p] = Idle("created")]
    /\ UNCHANGED <<db, now>>

\* open_database creates the file exclusively; its contents come later.
CreateFile(p) ==
    /\ inst[p].status = "down"
    /\ file = "absent"
    /\ file' = "empty"
    /\ inst' = [inst EXCEPT ![p] = Idle("created")]
    /\ UNCHANGED <<db, now>>

\* _initialize: schema, genesis and metadata in one transaction.  When the
\* outcome of the COMMIT is uncertain the object is closed and discarded.
Initialize(p) ==
    /\ inst[p].status = "created"
    /\ file' = "ready"
    /\ db' = InitialRows
    /\ \E status \in {"opened", "down"} :
          inst' = [inst EXCEPT ![p] = Idle(status)]
    /\ UNCHANGED now

\* An existing file is never initialised: an empty one is refused for good.
OpenFile(p) ==
    /\ inst[p].status = "down"
    /\ file = "ready"
    /\ inst' = [inst EXCEPT ![p] = Idle("opened")]
    /\ UNCHANGED <<file, db, now>>

\* The read transaction of load_or_initialize.  The state kept is the one
\* replayed from the blocks; the pool is readmitted row by row.
Load(p) ==
    /\ inst[p].status = "opened"
    /\ Recoverable(db, now)
    /\ LET state == RebuildChainState(db.blocks, now).state
       IN  inst' = [inst EXCEPT ![p] =
                       Live(db.blocks, state, Readmit(db.pool, state),
                            db.revision)]
    /\ UNCHANGED <<file, db, now>>

\* StorageCorruptionError: the store is closed and the constructor raises.
LoadRefused(p) ==
    /\ inst[p].status = "opened"
    /\ ~Recoverable(db, now)
    /\ inst' = [inst EXCEPT ![p] = Idle("down")]
    /\ UNCHANGED <<file, db, now>>

\* close(), an error while opening, or the death of the process; SQLite rolls
\* an open transaction back.
Stop(p) ==
    /\ inst[p].status # "down"
    /\ inst' = [inst EXCEPT ![p] = Idle("down")]
    /\ UNCHANGED <<file, db, now>>

-----------------------------------------------------------------------------
(* Writing: _commit over append_block or replace_mempool.                    *)

\* The transition p prepared becomes the rows `rows` and the object `after`:
\* both, or the rows only (COMMIT took effect but raised, or the process died
\* before it returned), or neither (conflict, error or rollback).  Unless both
\* changed, the instance never serves again.
Commit(p, extends, rows, after) ==
    \/ /\ Expected(inst[p])
       /\ extends
       /\ Encodable(after.state, after.mempool)
       /\ db' = rows
       /\ \E outcome \in {after, Idle("failed"), Idle("down")} :
             inst' = [inst EXCEPT ![p] = outcome]
       /\ UNCHANGED <<file, now>>
    \/ /\ inst' = [inst EXCEPT ![p] = Idle("failed")]
       /\ UNCHANGED <<file, db, now>>

\* A prepared transition of the pool alone.
CommitPool(p, mempool) ==
    LET me == inst[p]
        revision == me.revision + 1
    IN  Commit(p, TRUE, WithPool(db, mempool, revision),
               Live(me.blocks, me.state, mempool, revision))

SubmitTransaction(p, tx) ==
    /\ inst[p].status = "live"
    /\ inst[p].revision < MaxRevision
    /\ Admits(inst[p].mempool, tx)
    /\ CommitPool(p, AddTransaction(inst[p].mempool, tx))

RemovePendingTransaction(p, txid) ==
    /\ inst[p].status = "live"
    /\ inst[p].revision < MaxRevision
    /\ HasTransaction(inst[p].mempool, txid)
    /\ CommitPool(p, RemoveTransaction(inst[p].mempool, txid))

AddBlock(p, block) ==
    LET me == inst[p]
        state == StateAfter(me.state, block)
        mempool == Revalidated(me.mempool, state)
        revision == me.revision + 1
    IN  /\ me.status = "live"
        /\ me.revision < MaxRevision
        /\ Len(me.blocks) <= MaxHeight
        /\ Accepts(me.blocks, me.state, now, block)
        /\ Commit(p, block.previous_block_hash = BlockHash(Tip(me.blocks)),
                  WithBlock(db, block, state, mempool, revision),
                  Live(Append(me.blocks, block), state, mempool, revision))

SetClock(time) ==
    /\ now' = time
    /\ UNCHANGED <<file, db, inst>>

Next ==
    \/ \E p \in Procs :
          \/ CreateFile(p)
          \/ Initialize(p)
          \/ OpenFile(p)
          \/ Load(p)
          \/ LoadRefused(p)
          \/ Stop(p)
          \/ \E tx \in Transactions : SubmitTransaction(p, tx)
          \/ \E txid \in PendingTxids(inst[p].mempool) :
                RemovePendingTransaction(p, txid)
          \/ \E block \in Candidates(inst[p].blocks) : AddBlock(p, block)
    \/ \E time \in Times : SetClock(time)

Spec == Init /\ [][Next]_vars
-----------------------------------------------------------------------------
(* Properties.                                                               *)

IsLive(p) == inst[p].status = "live"

\* The type invariant: the rows and the objects have the shape the code gives
\* them, and nobody serves before the file is ready.
TypeOK ==
    /\ file \in {"absent", "empty", "ready"}
    /\ file # "ready" => db = NoRows
    /\ db.blocks \in Seq(ToSet(db.blocks))
    /\ db.height \in Nat
    /\ db.revision \in Nat
    /\ DOMAIN inst = Procs
    /\ \A p \in Procs :
          /\ inst[p].status \in {"down", "created", "opened", "live", "failed"}
          /\ inst[p].revision \in Nat
          /\ inst[p].blocks \in Seq(ToSet(inst[p].blocks))
          /\ inst[p].status = "created" =>
                file = "empty" /\ \A q \in Procs \ {p} : inst[q].status # "created"
          /\ inst[p].status \in {"opened", "live"} => file = "ready"
    /\ now \in Times

\* The metadata row describes the other rows: the checks of read_metadata and
\* load_or_initialize that do not replay anything.
MetadataMatches ==
    file = "ready" =>
        /\ db.blocks # <<>>
        /\ db.blocks[1] = GENESIS
        /\ db.height = Len(db.blocks) - 1
        /\ db.tip = BlockHash(Tip(db.blocks))
        /\ db.digest = TxidOf(db.pool)
        /\ db.revision >= db.height

\* A revision number names one content: an instance that is at the revision of
\* the database serves exactly the committed chain, state and pending order,
\* whatever other instances committed, lost or left uncertain in between.
Agreement ==
    \A p \in Procs :
        IsLive(p) =>
            /\ inst[p].revision <= db.revision
            /\ inst[p].revision = db.revision =>
                   /\ inst[p].blocks = db.blocks
                   /\ inst[p].state = db.state
                   /\ TxidOf(GetTransactions(inst[p].mempool)) = db.digest

\* A block some instance acknowledged is durable: what any live instance shows,
\* stale or not, is a prefix of the committed chain.
AcknowledgedIsDurable ==
    \A p \in Procs : IsLive(p) => IsPrefix(inst[p].blocks, db.blocks)

\* A committed database always opens again, except while the clock reads too
\* early for a timestamp it holds (the detail in load_or_initialize's error),
\* and reloading reproduces the pool object that was saved, its reservations,
\* fees and totals included, not only its transactions.
AlwaysRecoverable ==
    /\ file = "ready" =>
         (Recoverable(db, now) <=>
            \A i \in 2..Len(db.blocks) :
                db.blocks[i].timestamp <= now + MAX_FUTURE_BLOCK_TIME)
    /\ \A p \in Procs :
        IsLive(p) /\ inst[p].revision = db.revision =>
            inst[p].mempool = Readmit(db.pool, db.state)

\* Every change of the committed rows takes the next revision and keeps the
\* committed chain: no write overwrites one its writer had not seen.
WritesAreSerial ==
    [][file = "ready" /\ db' # db =>
           /\ db'.revision = db.revision + 1
           /\ IsPrefix(db.blocks, db'.blocks)
           /\ db'.height \in {db.height, db.height + 1}]_vars

\* The committed rows behave as one Blockchain object: each commit, by whatever
\* instance and with whatever outcome reported, is one step of it.
CommittedChain == IF file = "ready" THEN db.blocks ELSE <<GENESIS>>

Ledger == INSTANCE Blockchain WITH
    blocks <- CommittedChain, state <- db.state,
    mempool <- Readmit(db.pool, db.state), now <- now

ImplementsBlockchain == Ledger!Spec
=============================================================================
