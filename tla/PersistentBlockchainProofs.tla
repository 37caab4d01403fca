------------------- MODULE PersistentBlockchainProofs -------------------
(***************************************************************************)
(* Theorems about PersistentBlockchain, for any number of instances, any   *)
(* transactions, clocks and bounds.                                        *)
(*                                                                         *)
(* The inductive invariant is IInv.  Agreement is its heart: a write takes *)
(* place only when the database is at the revision the writer knows        *)
(* (Expected), and it takes the next one, so every other instance falls    *)
(* behind and cannot write before it reloads.  It does not depend on what  *)
(* the replaying folds compute, only on the comparisons that               *)
(* load_or_initialize makes (Recoverable).                                 *)
(*                                                                         *)
(* That the rows can always be read back, and that they behave as the      *)
(* Blockchain object, does depend on the folds: Kept adds to IInv that the *)
(* blocks replay to the saved state and that the saved pool rows are       *)
(* re-admitted to the pool that was saved (LedgerLemmas).                  *)
(***************************************************************************)
EXTENDS PersistentBlockchain, LedgerLemmas

IInv ==
    /\ TypeOK
    /\ MetadataMatches
    /\ Agreement
    /\ AcknowledgedIsDurable

-----------------------------------------------------------------------------
(* Sequences.                                                                *)

\* Appending to a sequence gives a sequence, one longer, with the old elements.
LEMMA AppendSeq ==
    ASSUME NEW s, NEW b, s \in Seq(ToSet(s))
    PROVE  /\ Append(s, b) \in Seq(ToSet(Append(s, b)))
           /\ Append(s, b) # <<>>
           /\ Len(Append(s, b)) = Len(s) + 1
           /\ Append(s, b)[Len(s) + 1] = b
           /\ \A i \in 1..Len(s) : Append(s, b)[i] = s[i]
<1> DEFINE T == ToSet(s) \cup {b}
<1>1. s \in Seq(T) /\ Append(s, b) \in Seq(T)
  OBVIOUS
<1>2. /\ Len(Append(s, b)) = Len(s) + 1
      /\ Append(s, b)[Len(s) + 1] = b
      /\ \A i \in 1..Len(s) : Append(s, b)[i] = s[i]
      /\ Append(s, b) # <<>>
  BY <1>1
<1>3. \A i \in 1..Len(Append(s, b)) : Append(s, b)[i] \in ToSet(Append(s, b))
  BY <1>1 DEF ToSet
<1>4. Append(s, b) \in Seq(ToSet(Append(s, b)))
  <2> HIDE DEF T
  <2> QED BY <1>1, <1>3
<1> QED BY <1>2, <1>4

\* A prefix stays one when the longer sequence grows.
LEMMA PrefixAppend ==
    ASSUME NEW s, NEW t, NEW b,
           s \in Seq(ToSet(s)), t \in Seq(ToSet(t)), IsPrefix(s, t)
    PROVE  IsPrefix(s, Append(t, b))
BY AppendSeq DEF IsPrefix

\* A sequence is a prefix of itself.
LEMMA PrefixReflexive ==
    ASSUME NEW s, s \in Seq(ToSet(s))
    PROVE  IsPrefix(s, s)
BY DEF IsPrefix

-----------------------------------------------------------------------------
(* The invariant holds initially and is kept by every step.                  *)

\* The fields of an instance that does not serve.
LEMMA IdleType ==
    ASSUME NEW status
    PROVE  /\ Idle(status).status = status
           /\ Idle(status).revision = 0
           /\ Idle(status).blocks \in Seq(ToSet(Idle(status).blocks))
BY DEF Idle

\* IInv holds of an absent file with no instance.
LEMMA InitIInv == Init => IInv
<1> SUFFICES ASSUME Init PROVE IInv
  OBVIOUS
<1>1. TypeOK
  BY IdleType DEF Init, TypeOK, NoRows, Rows
<1>2. MetadataMatches
  BY DEF Init, MetadataMatches
<1>3. Agreement /\ AcknowledgedIsDurable
  BY DEF Init, Agreement, AcknowledgedIsDurable, IsLive, Idle
<1> QED BY <1>1, <1>2, <1>3 DEF IInv

\* Replacing an instance by one that does not serve keeps IInv, as long as
\* the rows do not change: opening, stopping, refusals and failed writes.
LEMMA IdleIInv ==
    ASSUME IInv, NEW p \in Procs,
           NEW status \in {"down", "opened", "failed"},
           inst' = [inst EXCEPT ![p] = Idle(status)],
           status = "opened" => file = "ready",
           UNCHANGED <<file, db, now>>
    PROVE  IInv'
<1>1. /\ inst'[p] = Idle(status)
      /\ \A q \in Procs \ {p} : inst'[q] = inst[q]
      /\ DOMAIN inst' = Procs
  BY DEF IInv, TypeOK
<1>2. TypeOK'
  BY <1>1, IdleType DEF IInv, TypeOK
<1>3. MetadataMatches'
  BY DEF IInv, MetadataMatches
<1>4. \A q \in Procs : IsLive(q)' => IsLive(q) /\ inst'[q] = inst[q]
  BY <1>1 DEF IsLive, Idle
<1>5. Agreement' /\ AcknowledgedIsDurable'
  BY <1>4 DEF IInv, Agreement, AcknowledgedIsDurable
<1> QED BY <1>2, <1>3, <1>5 DEF IInv

\* A successful load: what it read is what the database holds.
LEMMA LoadIInv ==
    ASSUME IInv, NEW p \in Procs, Load(p)
    PROVE  IInv'
<1> DEFINE st == RebuildChainState(db.blocks, now).state
           me == Live(db.blocks, st, Readmit(db.pool, st), db.revision)
<1>1. /\ inst' = [inst EXCEPT ![p] = me]
      /\ UNCHANGED <<file, db, now>>
      /\ file = "ready"
  BY DEF Load, IInv, TypeOK
<1>2. /\ inst'[p] = me
      /\ \A q \in Procs \ {p} : inst'[q] = inst[q]
      /\ DOMAIN inst' = Procs
  BY <1>1 DEF IInv, TypeOK
<1>3. /\ st = db.state
      /\ TxidOf(GetTransactions(Readmit(db.pool, st))) = db.digest
  BY DEF Load, Recoverable
<1>4. /\ me.status = "live"
      /\ me.blocks = db.blocks
      /\ me.state = db.state
      /\ TxidOf(GetTransactions(me.mempool)) = db.digest
      /\ me.revision = db.revision
  BY <1>3 DEF Live
<1> HIDE DEF st, me
<1>5. TypeOK'
  BY <1>1, <1>2, <1>4 DEF IInv, TypeOK
<1>6. MetadataMatches'
  BY <1>1 DEF IInv, MetadataMatches
<1>7. Agreement'
  BY <1>1, <1>2, <1>4 DEF IInv, TypeOK, Agreement, IsLive
<1>8. AcknowledgedIsDurable'
  BY <1>1, <1>2, <1>4, PrefixReflexive
     DEF IInv, TypeOK, AcknowledgedIsDurable, IsLive
<1> QED BY <1>5, <1>6, <1>7, <1>8 DEF IInv

\* Creating the file, and committing its first rows.
LEMMA CreateIInv ==
    ASSUME IInv, NEW p \in Procs, CreateFile(p) \/ Initialize(p)
    PROVE  IInv'
<1>0. file # "ready" /\ \A q \in Procs : ~IsLive(q)
  BY DEF IInv, TypeOK, CreateFile, Initialize, IsLive
<1>1. CASE CreateFile(p)
  <2>1. /\ inst'[p] = Idle("created")
        /\ \A q \in Procs \ {p} : inst'[q] = inst[q]
        /\ DOMAIN inst' = Procs
        /\ file' = "empty" /\ db' = db /\ now' = now /\ file = "absent"
    BY <1>1 DEF CreateFile, IInv, TypeOK
  <2>2. TypeOK'
    BY <1>0, <1>1, <2>1, IdleType DEF IInv, TypeOK, IsLive, CreateFile
  <2>3. \A q \in Procs : ~IsLive(q)'
    BY <1>0, <2>1 DEF IsLive, Idle
  <2> QED
    BY <2>1, <2>2, <2>3
       DEF IInv, MetadataMatches, Agreement, AcknowledgedIsDurable
<1>2. CASE Initialize(p)
  <2>1. PICK status \in {"opened", "down"} :
            inst' = [inst EXCEPT ![p] = Idle(status)]
    BY <1>2 DEF Initialize
  <2>2. /\ inst'[p] = Idle(status)
        /\ \A q \in Procs \ {p} : inst'[q] = inst[q]
        /\ DOMAIN inst' = Procs
        /\ file' = "ready" /\ db' = InitialRows /\ now' = now
        /\ file = "empty"
    BY <1>2, <2>1 DEF Initialize, IInv, TypeOK
  <2>3. /\ db'.blocks = <<GENESIS>>
        /\ db'.height = 0
        /\ db'.revision = 0
        /\ db'.tip = BlockHash(GENESIS)
        /\ db'.digest = TxidOf(db'.pool)
    BY <2>2 DEF InitialRows, Rows
  <2>4. db'.blocks \in Seq(ToSet(db'.blocks))
    BY <2>3 DEF ToSet
  <2>5. TypeOK'
    BY <1>0, <1>2, <2>2, <2>3, <2>4, IdleType DEF IInv, TypeOK, Initialize
  <2>6. MetadataMatches'
    BY <2>2, <2>3 DEF MetadataMatches, Tip
  <2>7. \A q \in Procs : ~IsLive(q)'
    BY <1>0, <2>2 DEF IsLive, Idle
  <2> QED
    BY <2>5, <2>6, <2>7 DEF IInv, Agreement, AcknowledgedIsDurable
<1> QED BY <1>1, <1>2

\* The object `after` shows exactly the rows.
Shows(after, rows) ==
    /\ after.status = "live"
    /\ after.blocks = rows.blocks
    /\ after.state = rows.state
    /\ after.revision = rows.revision
    /\ TxidOf(GetTransactions(after.mempool)) = rows.digest

\* The rows `rows` follow `db`: one revision later and at most one block longer.
Succeeds(rows) ==
    /\ rows.revision = db.revision + 1
    /\ rows.digest = TxidOf(rows.pool)
    /\ \/ /\ rows.blocks = db.blocks
          /\ rows.height = db.height
          /\ rows.tip = db.tip
       \/ \E block :
             /\ rows.blocks = Append(db.blocks, block)
             /\ rows.height = db.height + 1
             /\ rows.tip = BlockHash(block)

\* A commit keeps IInv whether or not the writer learns of it: everyone else
\* is now behind the database.
LEMMA SaveIInv ==
    ASSUME IInv, NEW p \in Procs, IsLive(p), NEW rows, NEW outcome,
           Succeeds(rows),
           outcome \in {Idle("failed"), Idle("down")} \/ Shows(outcome, rows),
           db' = rows, inst' = [inst EXCEPT ![p] = outcome],
           UNCHANGED <<file, now>>
    PROVE  IInv'
<1>1. /\ inst'[p] = outcome
      /\ \A q \in Procs \ {p} : inst'[q] = inst[q]
      /\ DOMAIN inst' = Procs
      /\ file = "ready" /\ file' = "ready" /\ now' = now
  BY DEF IInv, TypeOK, IsLive
<1>2. /\ rows.blocks \in Seq(ToSet(rows.blocks))
      /\ rows.blocks # <<>>
      /\ rows.blocks[1] = GENESIS
      /\ rows.height = Len(rows.blocks) - 1
      /\ rows.tip = BlockHash(Tip(rows.blocks))
      /\ rows.height \in Nat
      /\ rows.revision \in Nat
      /\ rows.revision >= rows.height
  <2>1. /\ db.blocks \in Seq(ToSet(db.blocks))
        /\ db.blocks # <<>>
        /\ db.blocks[1] = GENESIS
        /\ db.height = Len(db.blocks) - 1
        /\ db.tip = BlockHash(Tip(db.blocks))
        /\ db.height \in Nat
        /\ db.revision \in Nat
        /\ db.revision >= db.height
    BY <1>1 DEF IInv, TypeOK, MetadataMatches
  <2>2. CASE rows.blocks = db.blocks /\ rows.height = db.height /\ rows.tip = db.tip
    BY <2>1, <2>2 DEF Succeeds
  <2>3. ASSUME NEW block,
               rows.blocks = Append(db.blocks, block),
               rows.height = db.height + 1,
               rows.tip = BlockHash(block)
        PROVE  <1>2
    <3>1. /\ Len(rows.blocks) = Len(db.blocks) + 1
          /\ rows.blocks[Len(db.blocks) + 1] = block
          /\ rows.blocks[1] = db.blocks[1]
          /\ rows.blocks # <<>>
          /\ rows.blocks \in Seq(ToSet(rows.blocks))
      BY <2>1, <2>3, AppendSeq
    <3> QED BY <2>1, <2>3, <3>1 DEF Succeeds, Tip
  <2> QED BY <2>2, <2>3 DEF Succeeds
<1>3. \A q \in Procs : IsPrefix(inst[q].blocks, db.blocks)
                           => IsPrefix(inst[q].blocks, rows.blocks)
  BY PrefixAppend DEF IInv, TypeOK, Succeeds
<1>4. \A q \in Procs \ {p} : IsLive(q)' => IsLive(q) /\ inst'[q] = inst[q]
  BY <1>1 DEF IsLive
<1>5. IsLive(p)' => Shows(outcome, rows)
  BY <1>1 DEF IsLive, Idle
<1>6. TypeOK'
  <2>1. /\ outcome.status \in {"down", "live", "failed"}
        /\ outcome.revision \in Nat
        /\ outcome.blocks \in Seq(ToSet(outcome.blocks))
    BY <1>2, IdleType DEF Shows
  <2> QED BY <1>1, <1>2, <2>1 DEF IInv, TypeOK
<1>7. MetadataMatches'
  BY <1>1, <1>2 DEF MetadataMatches, Succeeds
<1>8. Agreement'
  <2>1. ASSUME NEW q \in Procs \ {p}, IsLive(q)'
        PROVE  inst'[q].revision < db'.revision /\ inst'[q].revision \in Nat
    <3>1. /\ inst'[q] = inst[q]
          /\ inst[q].revision <= db.revision
          /\ inst[q].revision \in Nat
          /\ db.revision \in Nat
      BY <1>4, <2>1 DEF IInv, TypeOK, Agreement
    <3> QED BY <3>1 DEF Succeeds
  <2>2. IsLive(p)' => Shows(inst'[p], db')
    BY <1>1, <1>5
  <2> QED BY <1>2, <2>1, <2>2 DEF Agreement, Shows
<1>9. AcknowledgedIsDurable'
  BY <1>1, <1>2, <1>3, <1>4, <1>5, PrefixReflexive
     DEF IInv, AcknowledgedIsDurable, Shows
<1> QED BY <1>6, <1>7, <1>8, <1>9 DEF IInv

-----------------------------------------------------------------------------
(* What a write does to the rows.                                            *)

\* A commit of the pool alone, or of one block accepted against the committed
\* chain and the committed state.
PoolWritten ==
    \E pool : db' = Rows(db.blocks, db.state, pool, db.height, db.tip,
                         db.revision + 1)

BlockWritten ==
    \E block \in Candidates(db.blocks) : \E pool :
        /\ Len(db.blocks) <= MaxHeight
        /\ Accepts(db.blocks, db.state, now, block)
        /\ db' = Rows(Append(db.blocks, block), StateAfter(db.state, block),
                      pool, db.height + 1, BlockHash(block), db.revision + 1)

\* What a live instance that finds the rows it expects knows of them.
LEMMA ExpectedAgrees ==
    ASSUME IInv, NEW p \in Procs, IsLive(p), Expected(inst[p])
    PROVE  /\ inst[p].blocks = db.blocks
           /\ inst[p].state = db.state
           /\ inst[p].revision = db.revision
BY DEF IInv, Agreement, Expected

\* A write of the pool: refused, or committed on what the writer had read.
LEMMA CommitPoolStep ==
    ASSUME IInv, NEW p \in Procs, IsLive(p), NEW mempool,
           CommitPool(p, mempool)
    PROVE  /\ IInv'
           /\ file' = file /\ now' = now
           /\ db' = db \/ PoolWritten
<1> DEFINE revision == inst[p].revision + 1
           rows == WithPool(db, mempool, revision)
           after == Live(inst[p].blocks, inst[p].state, mempool, revision)
<1>0. Commit(p, TRUE, rows, after)
  BY DEF CommitPool
<1> HIDE DEF rows, after
<1>1. CASE /\ Expected(inst[p])
           /\ db' = rows
           /\ \E outcome \in {after, Idle("failed"), Idle("down")} :
                 inst' = [inst EXCEPT ![p] = outcome]
           /\ UNCHANGED <<file, now>>
  <2>1. PICK outcome \in {after, Idle("failed"), Idle("down")} :
            inst' = [inst EXCEPT ![p] = outcome]
    BY <1>1
  <2>2. /\ inst[p].blocks = db.blocks
        /\ inst[p].state = db.state
        /\ revision = db.revision + 1
    BY <1>1, ExpectedAgrees
  <2>3. rows = Rows(db.blocks, db.state, GetTransactions(mempool), db.height,
                    db.tip, db.revision + 1)
    BY <2>2 DEF rows, WithPool
  <2>4. Succeeds(rows)
    BY <2>3 DEF Succeeds, Rows
  <2>5. Shows(after, rows)
    BY <2>2, <2>3 DEF after, Live, Shows, Rows
  <2>6. IInv'
    BY <1>1, <2>1, <2>4, <2>5, SaveIInv
  <2> QED BY <1>1, <2>3, <2>6 DEF PoolWritten
<1>2. CASE /\ inst' = [inst EXCEPT ![p] = Idle("failed")]
           /\ UNCHANGED <<file, db, now>>
  BY <1>2, IdleIInv
<1> QED BY <1>0, <1>1, <1>2 DEF Commit

\* A block: refused, or committed on top of the chain and the state it was
\* checked against.
LEMMA AddBlockStep ==
    ASSUME IInv, NEW p \in Procs, NEW block \in Candidates(inst[p].blocks),
           AddBlock(p, block)
    PROVE  /\ IInv'
           /\ file' = file /\ now' = now
           /\ db' = db \/ (file = "ready" /\ BlockWritten)
<1> DEFINE state == StateAfter(inst[p].state, block)
           mempool == Revalidated(inst[p].mempool, state)
           revision == inst[p].revision + 1
           extends == block.previous_block_hash = BlockHash(Tip(inst[p].blocks))
           rows == WithBlock(db, block, state, mempool, revision)
           after == Live(Append(inst[p].blocks, block), state, mempool, revision)
<1>0. /\ IsLive(p)
      /\ Len(inst[p].blocks) <= MaxHeight
      /\ Accepts(inst[p].blocks, inst[p].state, now, block)
      /\ Commit(p, extends, rows, after)
  BY DEF AddBlock, IsLive
<1> HIDE DEF mempool, extends, rows, after
<1>1. CASE /\ Expected(inst[p])
           /\ db' = rows
           /\ \E outcome \in {after, Idle("failed"), Idle("down")} :
                 inst' = [inst EXCEPT ![p] = outcome]
           /\ UNCHANGED <<file, now>>
  <2>1. PICK outcome \in {after, Idle("failed"), Idle("down")} :
            inst' = [inst EXCEPT ![p] = outcome]
    BY <1>1
  <2>2. /\ inst[p].blocks = db.blocks
        /\ inst[p].state = db.state
        /\ revision = db.revision + 1
    BY <1>0, <1>1, ExpectedAgrees
  <2>3. rows = Rows(Append(db.blocks, block), StateAfter(db.state, block),
                    GetTransactions(mempool), db.height + 1, BlockHash(block),
                    db.revision + 1)
    BY <2>2 DEF rows, WithBlock
  <2>4. Succeeds(rows)
    BY <2>3 DEF Succeeds, Rows
  <2>5. Shows(after, rows)
    BY <2>2, <2>3 DEF after, Live, Shows, Rows
  <2>6. IInv'
    BY <1>0, <1>1, <2>1, <2>4, <2>5, SaveIInv
  <2>7. file = "ready"
    BY <1>0 DEF IsLive, IInv, TypeOK
  <2>8. BlockWritten
    BY <1>0, <1>1, <2>2, <2>3 DEF BlockWritten
  <2> QED BY <1>1, <2>6, <2>7, <2>8
<1>2. CASE /\ inst' = [inst EXCEPT ![p] = Idle("failed")]
           /\ UNCHANGED <<file, db, now>>
  BY <1>2, IdleIInv
<1> QED BY <1>0, <1>1, <1>2 DEF Commit

-----------------------------------------------------------------------------
(* Every step.                                                               *)

\* The five things a step can do to the file, the rows and the clock.
StepEffect ==
    \/ file' = file /\ db' = db /\ now' \in Times
    \/ file # "ready" /\ file' # "ready" /\ db' = db /\ now' = now
    \/ file # "ready" /\ file' = "ready" /\ db' = InitialRows /\ now' = now
    \/ file = "ready" /\ file' = "ready" /\ PoolWritten /\ now' = now
    \/ file = "ready" /\ file' = "ready" /\ BlockWritten /\ now' = now

\* IInv is inductive, and no step has another effect.
LEMMA NextStep ==
    ASSUME IInv, [Next]_vars
    PROVE  IInv' /\ StepEffect
<1>0. now \in Times
  BY DEF IInv, TypeOK
<1>1. ASSUME NEW p \in Procs, CreateFile(p) \/ Initialize(p)
      PROVE  IInv' /\ StepEffect
  <2>1. IInv'
    BY <1>1, CreateIInv
  <2>2. StepEffect
    BY <1>1 DEF CreateFile, Initialize, StepEffect, IInv, TypeOK
  <2> QED BY <2>1, <2>2
<1>2. ASSUME NEW p \in Procs, OpenFile(p) \/ LoadRefused(p) \/ Stop(p)
      PROVE  IInv' /\ StepEffect
  BY <1>0, <1>2, IdleIInv DEF OpenFile, LoadRefused, Stop, StepEffect
<1>3. ASSUME NEW p \in Procs, Load(p)
      PROVE  IInv' /\ StepEffect
  BY <1>0, <1>3, LoadIInv DEF Load, StepEffect
<1>4. ASSUME NEW p \in Procs, NEW mempool, inst[p].status = "live",
             CommitPool(p, mempool)
      PROVE  IInv' /\ StepEffect
  <2>1. IsLive(p) /\ file = "ready"
    BY <1>4 DEF IsLive, IInv, TypeOK
  <2> QED BY <1>0, <1>4, <2>1, CommitPoolStep DEF StepEffect
<1>5. ASSUME NEW p \in Procs, NEW tx \in Transactions, SubmitTransaction(p, tx)
      PROVE  IInv' /\ StepEffect
  BY <1>4, <1>5 DEF SubmitTransaction
<1>6. ASSUME NEW p \in Procs, NEW txid, RemovePendingTransaction(p, txid)
      PROVE  IInv' /\ StepEffect
  BY <1>4, <1>6 DEF RemovePendingTransaction
<1>7. ASSUME NEW p \in Procs, NEW block \in Candidates(inst[p].blocks),
             AddBlock(p, block)
      PROVE  IInv' /\ StepEffect
  BY <1>0, <1>7, AddBlockStep DEF StepEffect
<1>8. ASSUME NEW time \in Times, SetClock(time)
      PROVE  IInv' /\ StepEffect
  <2>1. UNCHANGED <<file, db, inst>> /\ now' \in Times
    BY <1>8 DEF SetClock
  <2> QED
    BY <2>1 DEF IInv, TypeOK, MetadataMatches, Agreement, IsLive,
                AcknowledgedIsDurable, StepEffect
<1>9. CASE UNCHANGED vars
  BY <1>0, <1>9 DEF vars, IInv, TypeOK, MetadataMatches, Agreement, IsLive,
                    AcknowledgedIsDurable, StepEffect
<1> QED
  BY <1>1, <1>2, <1>3, <1>5, <1>6, <1>7, <1>8, <1>9 DEF Next

\* IInv, and with it each of its parts, is an invariant of the specification.
THEOREM InvariantTheorem == Spec => []IInv
<1>1. Init => IInv
  BY InitIInv
<1>2. IInv /\ [Next]_vars => IInv'
  BY NextStep
<1> QED BY <1>1, <1>2, PTL DEF Spec

\* The rows and objects keep their shape: at most one instance creates the
\* file, and none serves before it is ready.
THEOREM TypeCorrect == Spec => []TypeOK
BY InvariantTheorem, PTL DEF IInv

\* The metadata row always describes the block and mempool rows.
THEOREM MetadataTheorem == Spec => []MetadataMatches
BY InvariantTheorem, PTL DEF IInv

\* An instance at the revision of the database serves exactly its content.
THEOREM AgreementTheorem == Spec => []Agreement
BY InvariantTheorem, PTL DEF IInv

\* Whatever an instance shows as confirmed is in the committed chain for good.
THEOREM DurabilityTheorem == Spec => []AcknowledgedIsDurable
BY InvariantTheorem, PTL DEF IInv

\* Commits take consecutive revisions and only ever extend the chain.
THEOREM SerialWritesTheorem == Spec => WritesAreSerial
<1> DEFINE Serial ==
        file = "ready" /\ db' # db =>
            /\ db'.revision = db.revision + 1
            /\ IsPrefix(db.blocks, db'.blocks)
            /\ db'.height \in {db.height, db.height + 1}
<1>1. ASSUME IInv, [Next]_vars
      PROVE  Serial
  <2> SUFFICES ASSUME file = "ready", db' # db
               PROVE  /\ db'.revision = db.revision + 1
                      /\ IsPrefix(db.blocks, db'.blocks)
                      /\ db'.height \in {db.height, db.height + 1}
    OBVIOUS
  <2>0. db.blocks \in Seq(ToSet(db.blocks)) /\ IsPrefix(db.blocks, db.blocks)
    BY <1>1, PrefixReflexive DEF IInv, TypeOK
  <2>1. PoolWritten \/ BlockWritten
    BY <1>1, NextStep DEF StepEffect
  <2>2. CASE PoolWritten
    BY <2>0, <2>2 DEF PoolWritten, Rows
  <2>3. CASE BlockWritten
    BY <2>0, <2>3, PrefixAppend DEF BlockWritten, Rows
  <2> QED BY <2>1, <2>2, <2>3
<1>2. IInv /\ [Next]_vars => [Serial]_vars
  BY <1>1
<1> QED BY <1>2, InvariantTheorem, PTL DEF Spec, WritesAreSerial

-----------------------------------------------------------------------------
(* Reloading.  The rows stand for a pool object; Kept says that they can be  *)
(* read back: the chain replays to the cached state, and the pool is the one *)
(* that was saved and the one that every instance up to date works on.       *)

SavedPool == Readmit(db.pool, db.state)

Kept ==
    /\ \E sts : /\ Replayed(CommittedChain, sts)
                /\ sts[Len(CommittedChain)] = db.state
    /\ IsState(db.state)
    /\ Reloads(SavedPool, db.state)
    /\ GetTransactions(SavedPool) = db.pool
    /\ \A p \in Procs : IsLive(p) /\ inst[p].revision = db.revision =>
           inst[p].mempool = SavedPool

\* What a step does to the committed ledger and the pool the rows stand for.
Waits ==
    UNCHANGED <<CommittedChain, db.state, SavedPool>> /\ now' \in Times

Submits(tx) ==
    /\ Admits(SavedPool, tx)
    /\ SavedPool' = AddTransaction(SavedPool, tx)
    /\ UNCHANGED <<CommittedChain, db.state, now>>

Removes(txid) ==
    /\ HasTransaction(SavedPool, txid)
    /\ SavedPool' = RemoveTransaction(SavedPool, txid)
    /\ UNCHANGED <<CommittedChain, db.state, now>>

Confirms(block) ==
    /\ Len(CommittedChain) <= MaxHeight
    /\ Accepts(CommittedChain, db.state, now, block)
    /\ CommittedChain' = Append(CommittedChain, block)
    /\ db.state' = StateAfter(db.state, block)
    /\ SavedPool' = Revalidated(SavedPool, StateAfter(db.state, block))
    /\ UNCHANGED now

LedgerStep ==
    \/ Waits
    \/ \E tx \in Transactions : Submits(tx)
    \/ \E txid \in PendingTxids(SavedPool) : Removes(txid)
    \/ \E block \in Candidates(CommittedChain) : Confirms(block)

\* Rows without blocks and the first rows stand for the same empty ledger.
LEMMA NewKept ==
    ASSUME CommittedChain = <<GENESIS>>, db.state = EmptyState, db.pool = <<>>
    PROVE  /\ \E sts : /\ Replayed(CommittedChain, sts)
                       /\ sts[Len(CommittedChain)] = db.state
           /\ IsState(db.state)
           /\ Reloads(SavedPool, db.state)
           /\ GetTransactions(SavedPool) = db.pool
           /\ SavedPool = NewMempool(EmptyState)
<1>1. Len(CommittedChain) = 1 /\ CommittedChain[1] = GENESIS
  OBVIOUS
<1>2. Replayed(CommittedChain, <<EmptyState>>) /\ <<EmptyState>>[1] = db.state
  BY <1>1 DEF Replayed
<1>3. IsState(db.state)
  BY DEF IsState, EmptyState
<1>4. SavedPool = NewMempool(EmptyState)
  <2>1. DOMAIN db.pool = {}
    OBVIOUS
  <2> QED BY <2>1, RebuildNothing DEF SavedPool, Readmit
<1>5. Reloads(SavedPool, db.state) /\ GetTransactions(SavedPool) = db.pool
  BY <1>4, NewReloads
<1> QED BY <1>1, <1>2, <1>3, <1>4, <1>5

\* Before the file exists there is nothing to reload but genesis.
LEMMA InitKept == Init => Kept
<1> SUFFICES ASSUME Init PROVE Kept
  OBVIOUS
<1>1. CommittedChain = <<GENESIS>> /\ db.state = EmptyState /\ db.pool = <<>>
  BY DEF Init, CommittedChain, NoRows, Rows
<1>2. \A p \in Procs : ~IsLive(p)
  BY DEF Init, IsLive, Idle
<1> QED BY <1>1, <1>2, NewKept DEF Kept

\* Whatever leaves the rows alone keeps the pool they stand for.
LEMMA WaitKept ==
    ASSUME Kept, now' \in Times,
           CommittedChain' = CommittedChain, db'.state = db.state, db'.pool = db.pool,
           \A q \in Procs : IsLive(q)' /\ inst'[q].revision = db'.revision =>
               inst'[q].mempool = SavedPool
    PROVE  Kept' /\ LedgerStep
<1>1. SavedPool' = SavedPool
  BY DEF SavedPool
<1>2. Kept'
  BY <1>1 DEF Kept
<1> QED BY <1>1, <1>2 DEF LedgerStep, Waits

\* An instance that stops serving leaves the rows to the others.
LEMMA IdleKept ==
    ASSUME IInv, Kept, NEW p \in Procs, NEW status \in {"down", "opened", "failed"},
           inst' = [inst EXCEPT ![p] = Idle(status)],
           UNCHANGED <<file, db, now>>
    PROVE  Kept' /\ LedgerStep
<1>1. /\ inst'[p] = Idle(status)
      /\ \A q \in Procs \ {p} : inst'[q] = inst[q]
  BY DEF IInv, TypeOK
<1>2. \A q \in Procs : IsLive(q)' => IsLive(q) /\ inst'[q] = inst[q]
  BY <1>1 DEF IsLive, Idle
<1>3. \A q \in Procs : IsLive(q)' /\ inst'[q].revision = db'.revision =>
          inst'[q].mempool = SavedPool
  BY <1>2 DEF Kept
<1>4. CommittedChain' = CommittedChain /\ now' \in Times
  BY DEF CommittedChain, IInv, TypeOK
<1> QED BY <1>3, <1>4, WaitKept

\* Rows that a replay leads to, and that hold a pool that can be reloaded.
Replayable(rows, mempool) ==
    /\ Succeeds(rows) /\ rows.pool = GetTransactions(mempool)
    /\ IsState(rows.state) /\ Reloads(mempool, rows.state)
    /\ \E sts : Replayed(rows.blocks, sts) /\ sts[Len(rows.blocks)] = rows.state

\* A commit of such rows.
LEMMA SaveKept ==
    ASSUME IInv, Kept, NEW p \in Procs, IsLive(p), NEW rows, NEW mempool, NEW outcome,
           Replayable(rows, mempool),
           outcome.status = "live" => outcome.mempool = mempool,
           db' = rows, inst' = [inst EXCEPT ![p] = outcome],
           UNCHANGED <<file, now>>
    PROVE  Kept' /\ SavedPool' = mempool
<1>1. /\ inst'[p] = outcome
      /\ \A q \in Procs \ {p} : inst'[q] = inst[q]
      /\ file' = "ready"
  BY DEF IInv, TypeOK, IsLive
<1>2. SavedPool' = mempool
  BY DEF SavedPool, Reloads, Replayable
<1>3. CommittedChain' = rows.blocks
  BY <1>1 DEF CommittedChain
<1>4. ASSUME NEW q \in Procs, IsLive(q)', inst'[q].revision = db'.revision
      PROVE  inst'[q].mempool = mempool
  <2>1. CASE q = p
    BY <1>1, <1>4, <2>1 DEF IsLive
  <2>2. CASE q # p
    <3>1. inst'[q] = inst[q] /\ IsLive(q)
      BY <1>1, <1>4, <2>2 DEF IsLive
    <3>2. /\ inst[q].revision <= db.revision
          /\ inst[q].revision \in Nat /\ db.revision \in Nat
      BY <3>1 DEF IInv, TypeOK, Agreement
    <3>3. db'.revision = db.revision + 1
      BY DEF Succeeds, Replayable
    <3> QED BY <1>4, <3>1, <3>2, <3>3
  <2> QED BY <2>1, <2>2
<1>5. /\ (\E sts : /\ Replayed(CommittedChain, sts)
                   /\ sts[Len(CommittedChain)] = db.state)'
      /\ IsState(db.state)'
      /\ Reloads(SavedPool, db.state)'
      /\ (GetTransactions(SavedPool) = db.pool)'
  BY <1>2, <1>3 DEF Replayable
<1> QED BY <1>2, <1>4, <1>5 DEF Kept

\* A write of the pool that the writer made from the one it works on: failed,
\* or the rows now stand for the new pool.
LEMMA CommitPoolKept ==
    ASSUME IInv, Kept, NEW p \in Procs, IsLive(p), NEW mempool,
           CommitPool(p, mempool),
           Expected(inst[p]) => Reloads(mempool, db.state)
    PROVE  /\ Kept'
           /\ LedgerStep \/ (/\ inst[p].mempool = SavedPool
                             /\ SavedPool' = mempool
                             /\ UNCHANGED <<CommittedChain, db.state, now>>)
<1>0. PICK revision, rows, after :
          /\ revision = inst[p].revision + 1
          /\ rows = WithPool(db, mempool, revision)
          /\ after = Live(inst[p].blocks, inst[p].state, mempool, revision)
  OBVIOUS
<1>1. Commit(p, TRUE, rows, after)
  BY <1>0 DEF CommitPool
<1>2. CASE /\ Expected(inst[p])
           /\ db' = rows
           /\ \E outcome \in {after, Idle("failed"), Idle("down")} :
                 inst' = [inst EXCEPT ![p] = outcome]
           /\ UNCHANGED <<file, now>>
  <2>1. PICK outcome \in {after, Idle("failed"), Idle("down")} :
            inst' = [inst EXCEPT ![p] = outcome]
    BY <1>2
  <2>2. revision = db.revision + 1 /\ inst[p].revision = db.revision
    BY <1>0, <1>2, ExpectedAgrees
  <2>3. inst[p].mempool = SavedPool
    BY <2>2 DEF Kept
  <2>4. /\ rows.blocks = db.blocks /\ rows.state = db.state
        /\ rows.pool = GetTransactions(mempool)
        /\ Succeeds(rows)
    BY <1>0, <2>2 DEF WithPool, Rows, Succeeds
  <2>5. outcome.status = "live" => outcome.mempool = mempool
    BY <1>0 DEF Live, Idle
  <2>6. file = "ready" /\ CommittedChain = db.blocks
    BY DEF IInv, TypeOK, IsLive, CommittedChain
  <2>7. /\ IsState(db.state) /\ Reloads(mempool, db.state)
        /\ \E sts : Replayed(db.blocks, sts) /\ sts[Len(db.blocks)] = db.state
    BY <1>2, <2>6 DEF Kept
  <2>8. Kept' /\ SavedPool' = mempool
    <3>1. Replayable(rows, mempool)
      BY <2>4, <2>7 DEF Replayable
    <3>2. db' = rows /\ UNCHANGED <<file, now>>
      BY <1>2
    <3> QED BY <2>1, <2>5, <3>1, <3>2, SaveKept, Zenon
  <2>9. UNCHANGED <<CommittedChain, db.state, now>>
    BY <1>2, <2>4 DEF CommittedChain
  <2> QED BY <2>3, <2>8, <2>9
<1>3. CASE /\ inst' = [inst EXCEPT ![p] = Idle("failed")]
           /\ UNCHANGED <<file, db, now>>
  BY <1>3, IdleKept
<1> QED BY <1>1, <1>2, <1>3 DEF Commit

\* A submission saves the pool that a reload of the rows gives.
LEMMA SubmitKept ==
    ASSUME IInv, Kept, NEW p \in Procs, NEW tx \in Transactions, SubmitTransaction(p, tx)
    PROVE  Kept' /\ LedgerStep
<1>1. PICK mempool : mempool = AddTransaction(inst[p].mempool, tx)
  OBVIOUS
<1>2. /\ IsLive(p)
      /\ Admits(inst[p].mempool, tx)
      /\ CommitPool(p, mempool)
  BY <1>1 DEF SubmitTransaction, IsLive
<1>3. Expected(inst[p]) => Reloads(mempool, db.state)
  <2> SUFFICES ASSUME Expected(inst[p]) PROVE Reloads(mempool, db.state)
    OBVIOUS
  <2>1. inst[p].mempool = SavedPool /\ Reloads(SavedPool, db.state)
    BY <1>2, ExpectedAgrees DEF Kept
  <2> QED BY <1>1, <2>1, AddReloads
<1>4. /\ Kept'
      /\ LedgerStep \/ (/\ inst[p].mempool = SavedPool
                        /\ SavedPool' = mempool
                        /\ UNCHANGED <<CommittedChain, db.state, now>>)
  BY <1>2, <1>3, CommitPoolKept
<1>5. CASE /\ inst[p].mempool = SavedPool
           /\ SavedPool' = mempool
           /\ UNCHANGED <<CommittedChain, db.state, now>>
  <2>1. Submits(tx)
    BY <1>1, <1>2, <1>5 DEF Submits
  <2> QED BY <1>4, <2>1 DEF LedgerStep
<1> QED BY <1>4, <1>5

\* So does a removal.
LEMMA RemoveKept ==
    ASSUME IInv, Kept, NEW p \in Procs, NEW txid \in PendingTxids(inst[p].mempool),
           RemovePendingTransaction(p, txid)
    PROVE  Kept' /\ LedgerStep
<1>1. PICK mempool : mempool = RemoveTransaction(inst[p].mempool, txid)
  OBVIOUS
<1>2. /\ IsLive(p)
      /\ HasTransaction(inst[p].mempool, txid)
      /\ CommitPool(p, mempool)
  BY <1>1 DEF RemovePendingTransaction, IsLive
<1>3. Expected(inst[p]) => Reloads(mempool, db.state)
  <2> SUFFICES ASSUME Expected(inst[p]) PROVE Reloads(mempool, db.state)
    OBVIOUS
  <2>1. /\ inst[p].mempool = SavedPool /\ Reloads(SavedPool, db.state)
        /\ IsState(db.state)
    BY <1>2, ExpectedAgrees DEF Kept
  <2> QED BY <1>1, <2>1, RemoveReloads
<1>4. /\ Kept'
      /\ LedgerStep \/ (/\ inst[p].mempool = SavedPool
                        /\ SavedPool' = mempool
                        /\ UNCHANGED <<CommittedChain, db.state, now>>)
  BY <1>2, <1>3, CommitPoolKept
<1>5. CASE /\ inst[p].mempool = SavedPool
           /\ SavedPool' = mempool
           /\ UNCHANGED <<CommittedChain, db.state, now>>
  <2>1. Removes(txid) /\ txid \in PendingTxids(SavedPool)
    BY <1>1, <1>2, <1>5 DEF Removes
  <2> QED BY <1>4, <2>1 DEF LedgerStep
<1> QED BY <1>4, <1>5

\* A block saves its state and the revalidated pool with it.
LEMMA AddBlockKept ==
    ASSUME IInv, Kept, NEW p \in Procs, NEW block \in Candidates(inst[p].blocks),
           AddBlock(p, block)
    PROVE  Kept' /\ LedgerStep
<1>0. PICK state, mempool, revision, extends, rows, after :
          /\ state = StateAfter(inst[p].state, block)
          /\ mempool = Revalidated(inst[p].mempool, state)
          /\ revision = inst[p].revision + 1
          /\ extends = (block.previous_block_hash = BlockHash(Tip(inst[p].blocks)))
          /\ rows = WithBlock(db, block, state, mempool, revision)
          /\ after = Live(Append(inst[p].blocks, block), state, mempool, revision)
  OBVIOUS
<1>1. /\ IsLive(p)
      /\ Len(inst[p].blocks) <= MaxHeight
      /\ Accepts(inst[p].blocks, inst[p].state, now, block)
      /\ Commit(p, extends, rows, after)
  BY <1>0 DEF AddBlock, IsLive
<1>2. CASE /\ Expected(inst[p])
           /\ db' = rows
           /\ \E outcome \in {after, Idle("failed"), Idle("down")} :
                 inst' = [inst EXCEPT ![p] = outcome]
           /\ UNCHANGED <<file, now>>
  <2>1. PICK outcome \in {after, Idle("failed"), Idle("down")} :
            inst' = [inst EXCEPT ![p] = outcome]
    BY <1>2
  <2>2. /\ inst[p].blocks = db.blocks
        /\ inst[p].state = db.state
        /\ inst[p].revision = db.revision
    BY <1>1, <1>2, ExpectedAgrees
  <2>3. inst[p].mempool = SavedPool
    BY <1>1, <2>2 DEF Kept
  <2>4. file = "ready" /\ CommittedChain = db.blocks
    BY <1>1 DEF IInv, TypeOK, IsLive, CommittedChain
  <2>5. /\ rows.blocks = Append(db.blocks, block)
        /\ rows.state = state
        /\ rows.pool = GetTransactions(mempool)
        /\ Succeeds(rows)
    BY <1>0, <2>2 DEF WithBlock, Rows, Succeeds
  <2>a. PICK chain : chain = Append(db.blocks, block)
    OBVIOUS
  <2>6. outcome.status = "live" => outcome.mempool = mempool
    BY <1>0 DEF Live, Idle
  <2>7. IsState(state)
    BY <1>0 DEF IsState, StateAfter, ApplyBlockTransactions
  <2>8. Reloads(mempool, state)
    <3>1. PICK S : SavedPool.entries \in Seq(S)
      BY DEF Kept, Reloads
    <3> QED BY <1>0, <2>3, <3>1, RevalidatedReloads
  <2>9. \E sts : Replayed(chain, sts) /\ sts[Len(chain)] = state
    <3>1. PICK sts : Replayed(db.blocks, sts) /\ sts[Len(db.blocks)] = db.state
      BY <2>4 DEF Kept
    <3>2. db.blocks \in Seq(ToSet(db.blocks)) /\ db.blocks # <<>>
      BY <2>4 DEF IInv, TypeOK, MetadataMatches
    <3>3. Len(db.blocks) >= 1 /\ Len(Append(db.blocks, block)) = Len(db.blocks) + 1
      BY <3>2, AppendSeq
    <3>4. PICK new : /\ Replayed(Append(db.blocks, block), new)
                     /\ new[Len(db.blocks) + 1] = StateAfter(db.state, block)
      <4>1. block \in Candidates(db.blocks)
        BY <2>2
      <4>2. Accepts(db.blocks, sts[Len(db.blocks)], now, block)
        BY <1>1, <2>2, <3>1
      <4>3. PICK S : db.blocks \in Seq(S)
        BY <3>2
      <4>4. \E new :
                /\ Replayed(Append(db.blocks, block), new)
                /\ new[Len(db.blocks) + 1] = StateAfter(sts[Len(db.blocks)], block)
        BY <3>1, <3>3, <4>1, <4>2, <4>3, ReplayGrows, Zenon
      <4> QED BY <3>1, <4>4, Zenon
    <3> QED BY <1>0, <2>2, <2>a, <3>3, <3>4
  <2>10. Kept' /\ SavedPool' = mempool
    <3>1. Replayable(rows, mempool)
      BY <2>5, <2>a, <2>7, <2>8, <2>9 DEF Replayable
    <3>2. IsLive(p) /\ db' = rows /\ UNCHANGED <<file, now>>
      BY <1>1, <1>2
    <3> QED BY <2>1, <2>6, <3>1, <3>2, SaveKept, Zenon
  <2>11. CommittedChain' = Append(CommittedChain, block)
    BY <1>2, <2>4, <2>5 DEF CommittedChain
  <2>12. Confirms(block)
    BY <1>0, <1>1, <1>2, <2>2, <2>3, <2>4, <2>5, <2>10, <2>11 DEF Confirms
  <2> QED BY <2>2, <2>4, <2>10, <2>12 DEF LedgerStep
<1>3. CASE /\ inst' = [inst EXCEPT ![p] = Idle("failed")]
           /\ UNCHANGED <<file, db, now>>
  BY <1>3, IdleKept
<1> QED BY <1>1, <1>2, <1>3 DEF Commit

\* Kept is inductive on top of IInv, and every step is one of the ledger.
LEMMA KeptStep ==
    ASSUME IInv, Kept, [Next]_vars
    PROVE  Kept' /\ LedgerStep
<1>0. now \in Times
  BY DEF IInv, TypeOK
<1>1. ASSUME NEW p \in Procs, CreateFile(p) \/ Initialize(p)
      PROVE  Kept' /\ LedgerStep
  <2>1. file # "ready" /\ db = NoRows /\ \A q \in Procs : ~IsLive(q)
    BY <1>1 DEF IInv, TypeOK, CreateFile, Initialize, IsLive
  <2>2. \A q \in Procs : ~IsLive(q)'
    <3>1. \A q \in Procs : inst'[q] = inst[q] \/ \E status \in {"created", "opened", "down"} :
                                                    inst'[q] = Idle(status)
      BY <1>1 DEF CreateFile, Initialize, IInv, TypeOK
    <3> QED BY <2>1, <3>1 DEF IsLive, Idle
  <2>3. /\ CommittedChain = <<GENESIS>> /\ CommittedChain' = <<GENESIS>>
        /\ db.state = EmptyState /\ db'.state = EmptyState
        /\ db.pool = <<>> /\ db'.pool = <<>>
        /\ now' = now
    BY <1>1, <2>1 DEF CreateFile, Initialize, CommittedChain, NoRows, InitialRows, Rows
  <2> QED BY <1>0, <2>2, <2>3, WaitKept
<1>2. ASSUME NEW p \in Procs, OpenFile(p) \/ LoadRefused(p) \/ Stop(p)
      PROVE  Kept' /\ LedgerStep
  <2>1. PICK status \in {"down", "opened", "failed"} :
            inst' = [inst EXCEPT ![p] = Idle(status)] /\ UNCHANGED <<file, db, now>>
    BY <1>2 DEF OpenFile, LoadRefused, Stop
  <2> QED BY <2>1, IdleKept
<1>3. ASSUME NEW p \in Procs, Load(p)
      PROVE  Kept' /\ LedgerStep
  <2>1. PICK st : st = RebuildChainState(db.blocks, now).state
    OBVIOUS
  <2>2. /\ inst' = [inst EXCEPT ![p] =
                       Live(db.blocks, st, Readmit(db.pool, st), db.revision)]
        /\ UNCHANGED <<file, db, now>>
        /\ st = db.state
    BY <1>3, <2>1 DEF Load, Recoverable
  <2>3. /\ inst'[p].mempool = SavedPool
        /\ \A q \in Procs \ {p} : inst'[q] = inst[q]
    BY <2>2 DEF IInv, TypeOK, Live, SavedPool
  <2>4. \A q \in Procs : IsLive(q)' /\ inst'[q].revision = db'.revision =>
            inst'[q].mempool = SavedPool
    BY <2>2, <2>3 DEF Kept, IsLive
  <2>5. CommittedChain' = CommittedChain
    BY <2>2 DEF CommittedChain
  <2> QED BY <1>0, <2>2, <2>4, <2>5, WaitKept
<1>4. ASSUME NEW time \in Times, SetClock(time)
      PROVE  Kept' /\ LedgerStep
  <2>1. UNCHANGED <<file, db, inst>> /\ now' \in Times
    BY <1>4 DEF SetClock
  <2>2. CommittedChain' = CommittedChain
    BY <2>1 DEF CommittedChain
  <2>3. \A q \in Procs : IsLive(q)' /\ inst'[q].revision = db'.revision =>
            inst'[q].mempool = SavedPool
    BY <2>1 DEF Kept, IsLive
  <2> QED BY <2>1, <2>2, <2>3, WaitKept
<1>5. CASE UNCHANGED vars
  <2>1. UNCHANGED <<file, db, inst>> /\ now' \in Times
    BY <1>0, <1>5 DEF vars
  <2>2. CommittedChain' = CommittedChain
    BY <2>1 DEF CommittedChain
  <2>3. \A q \in Procs : IsLive(q)' /\ inst'[q].revision = db'.revision =>
            inst'[q].mempool = SavedPool
    BY <2>1 DEF Kept, IsLive
  <2> QED BY <2>1, <2>2, <2>3, WaitKept
<1> QED
  BY <1>1, <1>2, <1>3, <1>4, <1>5, SubmitKept, RemoveKept, AddBlockKept DEF Next

\* In every reachable state the committed blocks replay to the committed state,
\* and re-admitting the saved rows in order (load_or_initialize) gives the very
\* pool object that every live, up-to-date instance serves.
THEOREM KeptTheorem == Spec => [](IInv /\ Kept)
<1>1. Init => IInv /\ Kept
  BY InitIInv, InitKept
<1>2. IInv /\ Kept /\ [Next]_vars => (IInv /\ Kept)'
  BY NextStep, KeptStep
<1> QED BY <1>1, <1>2, PTL DEF Spec

\* The pool that was saved has the rows it was saved as.
LEMMA SavedLength ==
    ASSUME Kept
    PROVE  Len(SavedPool.entries) = Len(db.pool)
<1>1. PICK S : SavedPool.entries \in Seq(S)
  BY DEF Kept, Reloads
<1>2. PICK es : es = SavedPool.entries
  OBVIOUS
<1>3. PICK n \in Nat : n = Len(es) /\ DOMAIN es = 1 .. n
  BY <1>1, <1>2
<1>4. db.pool = [i \in 1 .. n |-> es[i].transaction]
  BY <1>2, <1>3 DEF Kept, GetTransactions
<1>5. Len(db.pool) = n
  BY <1>4
<1> QED BY <1>2, <1>3, <1>5

\* A committed database opens whenever the clock admits its timestamps, and
\* what is read back is the chain, the state and the pool object that were
\* saved (load_or_initialize after append_block and replace_mempool).
THEOREM RecoverableTheorem == Spec => []AlwaysRecoverable
<1>1. IInv /\ Kept => AlwaysRecoverable
  <2> SUFFICES ASSUME IInv, Kept PROVE AlwaysRecoverable
    OBVIOUS
  <2>1. ASSUME file = "ready"
        PROVE  Recoverable(db, now) <=>
                   \A i \in 2 .. Len(db.blocks) :
                       db.blocks[i].timestamp <= now + MAX_FUTURE_BLOCK_TIME
    <3>1. PICK sts : Replayed(db.blocks, sts) /\ sts[Len(db.blocks)] = db.state
      BY <2>1 DEF Kept, CommittedChain
    <3>2. now \in Nat
      BY TimesAssumption DEF IInv, TypeOK
    <3>3. /\ db.blocks \in Seq(ToSet(db.blocks))
          /\ db.blocks # <<>>
          /\ db.blocks[1] = GENESIS
          /\ db.height = Len(db.blocks) - 1
          /\ db.tip = BlockHash(Tip(db.blocks))
          /\ db.digest = TxidOf(db.pool)
          /\ db.revision >= db.height
      BY <2>1 DEF IInv, TypeOK, MetadataMatches
    <3>4. Len(db.blocks) \in Nat \ {0}
      BY <3>3
    <3>5. PICK replay : replay = RebuildChainState(db.blocks, now)
      OBVIOUS
    <3>6. /\ replay.ok <=> \A i \in 2 .. Len(db.blocks) :
                               db.blocks[i].timestamp <= now + MAX_FUTURE_BLOCK_TIME
          /\ replay.ok => replay.state = db.state
      BY <3>1, <3>2, <3>3, <3>4, <3>5, ReplayReproduces
    <3>7. /\ Len(SavedPool.entries) = Len(db.pool)
          /\ TxidOf(GetTransactions(SavedPool)) = db.digest
      BY <3>3, SavedLength DEF Kept
    <3>8. Recoverable(db, now) <=> replay.ok
      <4>1. replay.ok => Readmit(db.pool, replay.state) = SavedPool
        BY <3>6 DEF SavedPool
      <4> QED BY <3>3, <3>5, <3>6, <3>7, <4>1 DEF Recoverable
    <3> QED BY <3>6, <3>8
  <2>2. \A p \in Procs : IsLive(p) /\ inst[p].revision = db.revision =>
            inst[p].mempool = Readmit(db.pool, db.state)
    BY DEF Kept, SavedPool
  <2> QED BY <2>1, <2>2 DEF AlwaysRecoverable
<1> QED BY <1>1, KeptTheorem, PTL

-----------------------------------------------------------------------------
(* The ledger of a single object, Blockchain, as it is instantiated above.   *)
(* Its operators are copies of those above; each pair computes the same.     *)

\* The operators of the instance Ledger are those of this module: the two
\* differ in their variables and not in the rules.
LEMMA SameBatch ==
    ASSUME NEW txs, NEW st
    PROVE  Ledger!ApplyTransactions(txs, st) = ApplyTransactions(txs, st)
BY Zenon
     DEF ApplyTransactions, Ledger!ApplyTransactions, ApplyNext,
         Ledger!ApplyNext, FoldLeft, Ledger!FoldLeft, MapThenFoldSet,
         Ledger!MapThenFoldSet, Max, Ledger!Max, ValidatedFee,
         Ledger!ValidatedFee, Authorised, Ledger!Authorised, IsValidOutput,
         Ledger!IsValidOutput, InputTotal, Ledger!InputTotal, OutputTotal,
         Ledger!OutputTotal, NoFee, Ledger!NoFee, SumFunction,
         Ledger!SumFunction, SumFunctionOnSet, Ledger!SumFunctionOnSet,
         FoldFunctionOnSet, Ledger!FoldFunctionOnSet, ApplyTransaction,
         Ledger!ApplyTransaction, AddOutputs, Ledger!AddOutputs, Outpoints,
         Ledger!Outpoints, Spent, Ledger!Spent, Applicable, Ledger!Applicable

\* The questions asked of a pool.
LEMMA SameQuestions ==
    ASSUME NEW pool, NEW txid
    PROVE  /\ Ledger!PendingTxids(pool) = PendingTxids(pool)
           /\ Ledger!HasTransaction(pool, txid) <=> HasTransaction(pool, txid)
           /\ Ledger!GetTransactions(pool) = GetTransactions(pool)
BY DEF HasTransaction, Ledger!HasTransaction, PendingTxids,
         Ledger!PendingTxids, GetTransactions, Ledger!GetTransactions, TxidOf,
         Ledger!TxidOf, ToSet, Ledger!ToSet

\* Admission to a pool.
LEMMA SameAdmission ==
    ASSUME NEW pool, NEW tx
    PROVE  /\ Ledger!Admits(pool, tx) <=> Admits(pool, tx)
           /\ Ledger!AddTransaction(pool, tx) = AddTransaction(pool, tx)
BY Zenon
     DEF AddTransaction, Ledger!AddTransaction, Admits, Ledger!Admits,
         HasTransaction, Ledger!HasTransaction, PendingTxids,
         Ledger!PendingTxids, GetTransactions, Ledger!GetTransactions, TxidOf,
         Ledger!TxidOf, ToSet, Ledger!ToSet, ValidatedFee, Ledger!ValidatedFee,
         Authorised, Ledger!Authorised, IsValidOutput, Ledger!IsValidOutput,
         InputTotal, Ledger!InputTotal, OutputTotal, Ledger!OutputTotal, NoFee,
         Ledger!NoFee, SumFunction, Ledger!SumFunction, SumFunctionOnSet,
         Ledger!SumFunctionOnSet, FoldFunctionOnSet, Ledger!FoldFunctionOnSet,
         MapThenFoldSet, Ledger!MapThenFoldSet, ApplyTransaction,
         Ledger!ApplyTransaction, AddOutputs, Ledger!AddOutputs, Outpoints,
         Ledger!Outpoints, Spent, Ledger!Spent, Applicable, Ledger!Applicable

\* The rebuilding of a pool.
LEMMA SameRebuild ==
    ASSUME NEW txs, NEW passed_over, NEW st
    PROVE  /\ Ledger!Rebuild(txs, passed_over, st) = Rebuild(txs, passed_over, st)
           /\ Ledger!NewMempool(st) = NewMempool(st)
BY Zenon
     DEF Rebuild, Ledger!Rebuild, ReadmitNext, Ledger!ReadmitNext,
         AddTransaction, Ledger!AddTransaction, NewMempool, Ledger!NewMempool,
         Admits, Ledger!Admits, HasTransaction, Ledger!HasTransaction,
         PendingTxids, Ledger!PendingTxids, GetTransactions,
         Ledger!GetTransactions, TxidOf, Ledger!TxidOf, ToSet, Ledger!ToSet,
         FoldLeft, Ledger!FoldLeft, MapThenFoldSet, Ledger!MapThenFoldSet, Max,
         Ledger!Max, ValidatedFee, Ledger!ValidatedFee, Authorised,
         Ledger!Authorised, IsValidOutput, Ledger!IsValidOutput, InputTotal,
         Ledger!InputTotal, OutputTotal, Ledger!OutputTotal, NoFee,
         Ledger!NoFee, SumFunction, Ledger!SumFunction, SumFunctionOnSet,
         Ledger!SumFunctionOnSet, FoldFunctionOnSet, Ledger!FoldFunctionOnSet,
         ApplyTransaction, Ledger!ApplyTransaction, AddOutputs,
         Ledger!AddOutputs, Outpoints, Ledger!Outpoints, Spent, Ledger!Spent,
         Applicable, Ledger!Applicable

\* Removal and revalidation.
LEMMA SameRemoval ==
    ASSUME NEW pool, NEW txid, NEW st
    PROVE  /\ Ledger!RemoveTransaction(pool, txid) = RemoveTransaction(pool, txid)
           /\ Ledger!Revalidated(pool, st) = Revalidated(pool, st)
BY SameQuestions, SameRebuild
     DEF RemoveTransaction, Ledger!RemoveTransaction, Revalidated,
         Ledger!Revalidated

\* add_block's decision.
LEMMA SameDecision ==
    ASSUME NEW chain, NEW st, NEW time, NEW block
    PROVE  /\ Ledger!Accepts(chain, st, time, block) <=> Accepts(chain, st, time, block)
           /\ Ledger!StateAfter(st, block) = StateAfter(st, block)
<1>1. Ledger!ApplyBlockTransactions(block, st) = ApplyBlockTransactions(block, st)
  BY SameBatch
     DEF ApplyBlockTransactions, Ledger!ApplyBlockTransactions,
         ValidateCoinbase, Ledger!ValidateCoinbase, ValidateCoinbaseStructure,
         Ledger!ValidateCoinbaseStructure, IsValidOutput, Ledger!IsValidOutput,
         BLOCK_SUBSIDY, Ledger!BLOCK_SUBSIDY, AddOutputs, Ledger!AddOutputs,
         Outpoints, Ledger!Outpoints
<1> QED
  BY <1>1
     DEF Accepts, Ledger!Accepts, ValidBlock, Ledger!ValidBlock,
         ValidateBlockHeader, Ledger!ValidateBlockHeader,
         ValidateBlockStructure, Ledger!ValidateBlockStructure, IsInjective,
         Ledger!IsInjective, ValidateBody, Ledger!ValidateBody,
         ValidateCoinbaseStructure, Ledger!ValidateCoinbaseStructure,
         IsValidOutput, Ledger!IsValidOutput, BlockHash, Ledger!BlockHash,
         TxidOf, Ledger!TxidOf, StateAfter, Ledger!StateAfter

\* The blocks that may be offered.
LEMMA SameOffers ==
    ASSUME NEW chain
    PROVE  Ledger!Candidates(chain) = Candidates(chain)
BY DEF Candidates, Ledger!Candidates, Bodies, Ledger!Bodies, BoundedSeq,
         Ledger!BoundedSeq, SeqOf, Ledger!SeqOf, CreateCoinbase,
         Ledger!CreateCoinbase, BlockHash, Ledger!BlockHash, TxidOf,
         Ledger!TxidOf

\* The rows of any number of failing instances behave as one Blockchain object,
\* mempool included: every commit is one of its steps, whatever its outcome
\* looked like to the instance that made it.
THEOREM LedgerTheorem == Spec => ImplementsBlockchain
<1>1. Init => Ledger!Init
  <2> SUFFICES ASSUME Init PROVE Ledger!Init
    OBVIOUS
  <2>1. CommittedChain = <<GENESIS>> /\ db.state = EmptyState /\ db.pool = <<>>
    BY DEF Init, CommittedChain, NoRows, Rows
  <2>2. SavedPool = NewMempool(EmptyState)
    BY <2>1, NewKept
  <2>3. Ledger!GENESIS = GENESIS /\ Ledger!EmptyState = EmptyState
    BY DEF GENESIS, Ledger!GENESIS, EmptyState, Ledger!EmptyState, EmptyUTXOSet,
           Ledger!EmptyUTXOSet
  <2>4. now \in Times
    BY DEF Init
  <2> QED BY <2>1, <2>2, <2>3, <2>4, SameRebuild DEF Ledger!Init, SavedPool
<1>2. ASSUME IInv, Kept, [Next]_vars
      PROVE  [Ledger!Next]_(Ledger!vars)
  <2>1. LedgerStep
    BY <1>2, KeptStep
  <2>2. CASE Waits
    <3>1. /\ CommittedChain' = CommittedChain /\ db'.state = db.state
          /\ SavedPool' = SavedPool /\ now' \in Times
      BY <2>2 DEF Waits
    <3> QED BY <3>1 DEF Ledger!Next, Ledger!SetClock, SavedPool
  <2>3. ASSUME NEW tx \in Transactions, Submits(tx) PROVE Ledger!Next
    BY <2>3, SameAdmission DEF Submits, SavedPool, Ledger!Next, Ledger!SubmitTransaction
  <2>4. ASSUME NEW txid \in PendingTxids(SavedPool), Removes(txid) PROVE Ledger!Next
    BY <2>4, SameQuestions, SameRemoval
       DEF Removes, SavedPool, Ledger!Next, Ledger!RemovePendingTransaction
  <2>5. ASSUME NEW block \in Candidates(CommittedChain), Confirms(block) PROVE Ledger!Next
    BY <2>5, SameOffers, SameDecision, SameRemoval
       DEF Confirms, SavedPool, Ledger!Next, Ledger!AddBlock
  <2> QED BY <2>1, <2>2, <2>3, <2>4, <2>5 DEF LedgerStep
<1> QED
  BY <1>1, <1>2, KeptTheorem, PTL DEF Spec, ImplementsBlockchain, Ledger!Spec

=============================================================================
