-------------------------- MODULE MempoolSync --------------------------
(***************************************************************************)
(* Pending transactions between nodes (network/sync.py, network/node.py):  *)
(* the relay of new ones, and the paged download of a peer's whole pool    *)
(* from a snapshot that the peer keeps for the connection.  Sessions are   *)
(* established and connections are FIFO.                                   *)
(*                                                                         *)
(*   node[n] : chain, the blocks after genesis, each the set of the        *)
(*             transactions it confirms; the hash of a tip commits to its  *)
(*             history, so the chain stands for it                         *)
(*             pool, the pending transactions in insertion order           *)
(*             exports, downloads : exports[m] and downloads[m] hold the   *)
(*             ExportSnapshot and the PendingDownload of the connection    *)
(*             with m, or nothing                                          *)
(*             snapshot_bytes, the bytes reserved for exports              *)
(*             sess, of the Session of each peer the part used here:       *)
(*             remote is (remote_height, remote_tip), delayed says that    *)
(*             next_mempool and cooling that next_export lies ahead        *)
(*             accused, the peers closed for a Protocol- or                *)
(*             PolicyLimitError                                            *)
(*   chan    : chan[m][n], the messages from m to n                        *)
(*   links   : the pairs of nodes with an established connection           *)
(*   faults  : what is left of the budget of faults                        *)
(*                                                                         *)
(* The forks, batches and the single download slot of the block download   *)
(* are in BlockSync; here GET_BLOCKS brings a lagging node to the tip.     *)
(* What a transaction spends and creates is reduced to its parents and to  *)
(* the transactions it conflicts with.                                     *)
(***************************************************************************)
EXTENDS Naturals, Sequences, FiniteSets, SequencesExt

CONSTANTS
    Nodes,
    Wired,          \* the pairs of nodes that dial each other
    Readers,        \* the nodes that download pools: in the code, all of them
    Txs,
    Parents,        \* Parents[tx]: whose outputs tx spends
    Rivals,         \* Rivals[tx]: the transactions with an input in common
    Oversized,      \* pending transactions too large for a relayed item
    StartPool,      \* the pool each node loads when it starts
    mempool_page_size,
    mempool_max_transactions,
    snapshot_max_transactions,
    snapshot_global_bytes,
    MaxHeight,      \* bound on the chains: up to which height each node mines
    BlockSizes,     \* bound on the blocks: how many transactions they confirm
    MaxFaults       \* bound on timeouts, refusals, expiries and lost links

ASSUME MempoolSyncAssumption ==
    /\ \A w \in Wired : \E n, m \in Nodes : n # m /\ w = {n, m}
    /\ Readers \subseteq Nodes
    /\ Parents \in [Txs -> SUBSET Txs]
    /\ Rivals \in [Txs -> SUBSET Txs]
    /\ \A s, t \in Txs : s \in Rivals[t] => t \in Rivals[s]
    /\ Oversized \subseteq Txs
    /\ \A n \in Nodes : StartPool[n] \in Seq(Txs)
    /\ mempool_page_size \in Nat \ {0}
    /\ {mempool_max_transactions, snapshot_max_transactions,
        snapshot_global_bytes, MaxFaults} \subseteq Nat
    /\ MaxHeight \in [Nodes -> Nat]
    /\ BlockSizes \subseteq Nat

VARIABLES node, chan, links, faults

vars == <<node, chan, links, faults>>

NoId == 0

NoToken == 0

NewSession(remote) ==
    [remote |-> remote, pending |-> {}, expired |-> {}, delayed |-> FALSE,
     cooling |-> FALSE]

-----------------------------------------------------------------------------
(* The pool of a node (transaction/mempool.py, see Mempool).                 *)

Confirmed(chain) == UNION ToSet(chain)

\* What submit_transaction takes.
Admits(chain, pool, tx) ==
    /\ Len(pool) < mempool_max_transactions
    /\ tx \notin ToSet(pool) \cup Confirmed(chain)
    /\ Parents[tx] \subseteq ToSet(pool) \cup Confirmed(chain)
    /\ Rivals[tx] \cap (ToSet(pool) \cup Confirmed(chain)) = {}

\* Mempool.revalidated on a longer chain.
Revalidated(chain, pool) ==
    FoldLeft(LAMBDA kept, tx : IF Admits(chain, kept, tx) THEN Append(kept, tx)
                                                          ELSE kept,
             <<>>, pool)

\* A snapshot retains the signed bytes of its items; each counts as one here.
Bytes(items) == Len(items)

-----------------------------------------------------------------------------
(* A handler transforms a turn: the node's own state, with the peers it is   *)
(* connected to and the messages it sends.                                   *)

Peers(n) == {m \in Nodes : {n, m} \in links}

Turn(n) ==
    [self |-> n, peers |-> Peers(n), own |-> node[n],
     out |-> [m \in Nodes |-> <<>>]]

Send(t, m, msg) == [t EXCEPT !.out[m] = Append(@, msg)]

Broadcast(t, peers, msg) ==
    [t EXCEPT !.out = [m \in Nodes |-> IF m \in peers THEN Append(@[m], msg)
                                                       ELSE @[m]]]

\* _dispatch_loop closes the connection whose message raised.
Rejects(t, m) == [t EXCEPT !.own.accused = @ \cup {m}]

Refuse(t, m, id, code) == Send(t, m, [type |-> "ERROR", id |-> id, code |-> code])

Session(t, m) == t.own.sess[m]

HasRequest(t, m, kind) == \E r \in Session(t, m).pending : r.kind = kind

\* secrets.token_hex: a value that is not in use.
Fresh(used) ==
    CHOOSE i \in 1 .. Cardinality(used) + 1 :
        i \notin used /\ \A j \in 1 .. i - 1 : j \in used

\* _request: at most one of a kind is outstanding.
Request(t, m, kind, tip, token, cursor) ==
    LET s == Session(t, m)
        id == Fresh({r.id : r \in s.pending} \cup s.expired)
        r == [id |-> id, kind |-> kind, tip |-> tip]
    IN  IF HasRequest(t, m, kind) THEN t
        ELSE Send([t EXCEPT !.own.sess[m].pending = @ \cup {r}], m,
                  [type |-> kind, id |-> id, tip |-> tip, token |-> token,
                   cursor |-> cursor])

AskStatus(t, m) == Request(t, m, "GET_STATUS", <<>>, NoToken, 0)

\* _submit_transaction; a transaction over the relay limit is kept but not
\* announced.
Submitted(t, tx, source) ==
    IF ~Admits(t.own.chain, t.own.pool, tx) THEN t
    ELSE Broadcast([t EXCEPT !.own.pool = Append(@, tx)],
                   IF tx \in Oversized THEN {} ELSE t.peers \ source,
                   [type |-> "NEW_TRANSACTION", id |-> NoId, tx |-> tx])

\* Mutant: the snapshots of the old tip stay reserved.
TipChangedKeepsBytes(own) ==
    [own EXCEPT !.exports = [m \in Nodes |-> {}],
                !.downloads = [m \in Nodes |-> {}],
                !.sess = [m \in Nodes |-> [@[m] EXCEPT !.delayed = FALSE]]]

\* SyncManager.tip_changed
TipChanged(own) ==
    [own EXCEPT !.exports = [m \in Nodes |-> {}],
                !.snapshot_bytes = 0,
                !.downloads = [m \in Nodes |-> {}],
                !.sess = [m \in Nodes |-> [@[m] EXCEPT !.delayed = FALSE]]]

\* _accept_block of a block on the tip: add_block with its revalidation,
\* tip_changed, NEW_BLOCK to everyone but the source, STATUS to everyone.
Extended(t, block, source) ==
    LET chain == Append(t.own.chain, block)
        own == [t.own EXCEPT !.chain = chain, !.pool = Revalidated(chain, @)]
    IN  Broadcast(Broadcast([t EXCEPT !.own = TipChanged(own)], t.peers \ source,
                            [type |-> "NEW_BLOCK", id |-> NoId, chain |-> chain]),
                  t.peers, [type |-> "STATUS", id |-> NoId, tip |-> chain])

-----------------------------------------------------------------------------
(* Serving and reading the pages of a snapshot.                              *)

\* SyncManager._drop_export
DropExport(own, m) ==
    [own EXCEPT !.snapshot_bytes =
                    @ - FoldSet(LAMBDA s, sum : sum + Bytes(s.items), 0, own.exports[m]),
                !.exports[m] = {}]

\* Mutant: done one item too early.
PageOffByOne(t, m, msg, snapshot, count) ==
    LET next == snapshot.cursor + count
        done == next + 1 >= Len(snapshot.items)
        advanced == [t EXCEPT !.own.exports[m] = {[snapshot EXCEPT !.cursor = next]}]
    IN  Send(IF done THEN [t EXCEPT !.own = DropExport(advanced.own, m)]
                     ELSE advanced,
             m, [type |-> "MEMPOOL", id |-> msg.id, tip |-> t.own.chain,
                 token |-> snapshot.token, cursor |-> snapshot.cursor,
                 items |-> SubSeq(snapshot.items, snapshot.cursor + 1, next),
                 done |-> done])

\* serve_mempool once the snapshot is known: the next page, of count items.
\* The last page ends the snapshot.
Page(t, m, msg, snapshot, count) ==
    LET next == snapshot.cursor + count
        done == next = Len(snapshot.items)
        advanced == [t EXCEPT !.own.exports[m] = {[snapshot EXCEPT !.cursor = next]}]
    IN  Send(IF done THEN [t EXCEPT !.own = DropExport(advanced.own, m)]
                     ELSE advanced,
             m, [type |-> "MEMPOOL", id |-> msg.id, tip |-> t.own.chain,
                 token |-> snapshot.token, cursor |-> snapshot.cursor,
                 items |-> SubSeq(snapshot.items, snapshot.cursor + 1, next),
                 done |-> done])

\* How many items fit: the page size, the rest, or what the frame limit leaves
\* (every item fits alone: it was tried when the snapshot was made).
PageSizes(msg, snapshot) ==
    LET left == Len(snapshot.items) - snapshot.cursor
        most == IF left < mempool_page_size THEN left ELSE mempool_page_size
    IN  (IF left > 0 THEN 1 ELSE 0) .. most

\* Mutant: a first request goes on with a snapshot that is still there.
FirstPageResumes(t, m, msg, tokens) ==
    LET cooled == [t EXCEPT !.own.sess[m].cooling = TRUE]
        begun == [token |-> Fresh(tokens), tip |-> t.own.chain,
                  items |-> t.own.pool, cursor |-> 0]
        snapshot == IF t.own.exports[m] = {} THEN begun
                    ELSE CHOOSE s \in t.own.exports[m] : TRUE
        reserved == IF t.own.exports[m] # {} THEN t
                    ELSE [cooled EXCEPT !.own.snapshot_bytes = @ + Bytes(t.own.pool)]
    IN  IF msg.cursor # snapshot.cursor THEN {Rejects(t, m)}
        ELSE {Page(reserved, m, msg, snapshot, count) :
                 count \in PageSizes(msg, snapshot)}

\* SyncManager.serve_mempool: a first request.  The results of the handler are
\* a set, one for every size of the page.
FirstPage(t, m, msg, tokens) ==
    LET items == t.own.pool
        cooled == [t EXCEPT !.own.sess[m].cooling = TRUE]
        snapshot == [token |-> Fresh(tokens), tip |-> t.own.chain,
                     items |-> items, cursor |-> 0]
        reserved == [cooled EXCEPT !.own.snapshot_bytes = @ + Bytes(items)]
    IN  CASE t.own.exports[m] # {} \/ Session(t, m).cooling ->
               {Refuse(t, m, msg.id, "BUSY")}
          [] Len(items) > snapshot_max_transactions ->
               {Refuse(cooled, m, msg.id, "POLICY_LIMIT")}
          [] t.own.snapshot_bytes + Bytes(items) > snapshot_global_bytes ->
               {Refuse(cooled, m, msg.id, "BUSY")}
          [] ToSet(items) \cap Oversized # {} ->
               {Refuse(cooled, m, msg.id, "POLICY_LIMIT")}
          [] msg.cursor # 0 -> {Rejects(cooled, m)}
          [] OTHER -> {Page(reserved, m, msg, snapshot, count) :
                          count \in PageSizes(msg, snapshot)}

ServeMempool(t, m, msg, tokens) ==
    CASE msg.tip # t.own.chain ->
           {Refuse([t EXCEPT !.own = DropExport(@, m)], m, msg.id, "STALE_TIP")}
      [] msg.token = NoToken -> FirstPage(t, m, msg, tokens)
      [] ~\E s \in t.own.exports[m] : s.token = msg.token ->
           {Refuse(t, m, msg.id, "SNAPSHOT_EXPIRED")}
      [] OTHER ->
           LET snapshot == CHOOSE s \in t.own.exports[m] : TRUE
           IN  IF msg.cursor # snapshot.cursor THEN {Rejects(t, m)}
               ELSE {Page(t, m, msg, snapshot, count) :
                        count \in PageSizes(msg, snapshot)}

\* The items of a page, submitted in order.
Import(t, m, items) ==
    FoldLeft(LAMBDA u, tx : Submitted(u, tx, {m}), t, items)

\* SyncManager.receive_mempool; count, the number of items so far, is the
\* cursor.  A page for a tip that has been replaced meanwhile is dropped.
ReceiveMempool(t, m, r, msg) ==
    LET d == CHOOSE d \in t.own.downloads[m] : TRUE
        next == msg.cursor + Len(msg.items)
    IN  CASE t.own.chain # r.tip \/ t.own.downloads[m] = {} -> t
          [] \/ msg.tip # d.tip
             \/ msg.cursor # d.cursor
             \/ d.token \notin {NoToken, msg.token} -> Rejects(t, m)
          [] \/ Len(msg.items) > mempool_page_size
             \/ msg.items = <<>> /\ ~msg.done -> Rejects(t, m)
          [] next > snapshot_max_transactions -> Rejects(t, m)
          [] OTHER ->
               [Import(t, m, msg.items) EXCEPT
                  !.own.downloads[m] = IF msg.done THEN {} ELSE
                      {[d EXCEPT !.token = msg.token, !.cursor = next]},
                  !.own.sess[m].delayed = @ \/ msg.done]

\* SyncManager.failed_request
FailedRequest(t, m, r, code) ==
    IF r.kind # "GET_MEMPOOL" THEN t
    ELSE LET idle == [t EXCEPT !.own.downloads[m] = {},
                               !.own.sess[m].delayed = TRUE]
         IN  IF code = "STALE_TIP" THEN AskStatus(idle, m) ELSE idle

-----------------------------------------------------------------------------
(* Messages.                                                                 *)

\* _reap_peers, SyncManager.disconnected
Disconnected(own, m) ==
    [DropExport(own, m) EXCEPT !.downloads[m] = {}, !.sess[m] = NewSession(<<>>)]

\* The turn is over: its messages leave and a rejected connection is closed
\* on both sides.
Finish(turn, delivered) ==
    \E t \in {turn} :
    LET n == t.self
        bad == t.own.accused \ node[n].accused
        mine == FoldSet(LAMBDA m, own : Disconnected(own, m), t.own, bad)
    IN  /\ node' = [k \in Nodes |-> CASE k = n -> mine
                                      [] k \in bad -> Disconnected(node[k], n)
                                      [] OTHER -> node[k]]
        /\ chan' = [k \in Nodes |-> [l \in Nodes |->
                      CASE {k, l} \cap bad # {} /\ n \in {k, l} -> <<>>
                        [] k = n -> chan[k][l] \o t.out[l]
                        [] k \in delivered /\ l = n -> Tail(chan[k][l])
                        [] OTHER -> chan[k][l]]]
        /\ links' = links \ {{n, m} : m \in bad}

HasMessage(n, m, type) == chan[m][n] # <<>> /\ Head(chan[m][n]).type = type

Message(n, m) == Head(chan[m][n])

\* The tokens that a snapshot between n and m still goes by somewhere.
TokensInUse(n, m) ==
    {s.token : s \in node[n].exports[m]} \cup {d.token : d \in node[m].downloads[n]}
    \cup {msg.token : msg \in {c \in ToSet(chan[n][m]) \cup ToSet(chan[m][n]) :
                                  c.type \in {"MEMPOOL", "GET_MEMPOOL"}}}

\* _remote, GET_STATUS
ServeStatus(n, m) ==
    /\ HasMessage(n, m, "GET_STATUS")
    /\ Finish(Send(Turn(n), m, [type |-> "STATUS", id |-> Message(n, m).id,
                                tip |-> node[n].chain]), {m})
    /\ UNCHANGED faults

\* serve_blocks, in one batch; a peer with a prefix of the chain asks.
ServeBlocks(n, m) ==
    /\ HasMessage(n, m, "GET_BLOCKS")
    /\ Finish(Send(Turn(n), m, [type |-> "BLOCKS", id |-> Message(n, m).id,
                                chain |-> node[n].chain]), {m})
    /\ UNCHANGED faults

ServePage(n, m) ==
    /\ HasMessage(n, m, "GET_MEMPOOL")
    /\ \E t \in ServeMempool(Turn(n), m, Message(n, m), TokensInUse(n, m)) :
          Finish(t, {m})
    /\ UNCHANGED faults

\* _remote: the service bucket is empty.
RefusePage(n, m) ==
    /\ faults > 0
    /\ HasMessage(n, m, "GET_MEMPOOL")
    /\ Finish(Refuse(Turn(n), m, Message(n, m).id, "BUSY"), {m})
    /\ faults' = faults - 1

\* _remote, NEW_TRANSACTION
ReceiveTransaction(n, m) ==
    /\ HasMessage(n, m, "NEW_TRANSACTION")
    /\ Finish(Submitted(Turn(n), Message(n, m).tx, {m}), {m})
    /\ UNCHANGED faults

\* _accept_block of a peer's block.
AcceptRemote(t, m, chain) ==
    CASE Front(chain) = t.own.chain -> Extended(t, Last(chain), {m})
      [] IsPrefix(chain, t.own.chain) -> t
      [] OTHER -> AskStatus(t, m)

\* _remote, NEW_BLOCK
ReceiveBlock(n, m) ==
    /\ HasMessage(n, m, "NEW_BLOCK")
    /\ Finish(AcceptRemote(Turn(n), m, Message(n, m).chain), {m})
    /\ UNCHANGED faults

\* receive_blocks: unless the tip has changed, every block in turn.
ReceiveBlocks(t, m, r, msg) ==
    LET more == SubSeq(msg.chain, Len(t.own.chain) + 1, Len(msg.chain))
        taken == FoldLeft(LAMBDA u, block : Extended(u, block, {m}), t, more)
    IN  IF t.own.chain # r.tip THEN t
        ELSE AskStatus([taken EXCEPT !.own.sess[m].remote = msg.chain], m)

\* _remote: an answer is matched with the request of its id; the answer to one
\* that timed out is dropped.
Answered(t, m, msg) ==
    LET asked == {r \in Session(t, m).pending : r.id = msg.id}
        r == CHOOSE q \in asked : TRUE
        u == [t EXCEPT !.own.sess[m].pending = @ \ asked]
    IN  CASE msg.type = "STATUS" /\ msg.id = NoId ->
               [t EXCEPT !.own.sess[m].remote = msg.tip]
          [] asked = {} ->
               IF msg.id \in Session(t, m).expired
               THEN [t EXCEPT !.own.sess[m].expired = @ \ {msg.id}]
               ELSE Rejects(t, m)
          [] msg.type = "STATUS" -> [u EXCEPT !.own.sess[m].remote = msg.tip]
          [] msg.type = "BLOCKS" -> ReceiveBlocks(u, m, r, msg)
          [] msg.type = "MEMPOOL" -> ReceiveMempool(u, m, r, msg)
          [] OTHER -> FailedRequest(u, m, r, msg.code)

ReceiveAnswer(n, m) ==
    /\ \E type \in {"STATUS", "BLOCKS", "MEMPOOL", "ERROR"} : HasMessage(n, m, type)
    /\ Finish(Answered(Turn(n), m, Message(n, m)), {m})
    /\ UNCHANGED faults

-----------------------------------------------------------------------------
(* The timer and the local commands.                                         *)

\* SyncManager.tick for one session: GET_BLOCKS from a peer ahead, GET_MEMPOOL
\* from a peer on the same tip, continuing a download or beginning one.
Ask(t, m) ==
    LET s == Session(t, m)
        begun == {[tip |-> t.own.chain, token |-> NoToken, cursor |-> 0]}
        download == IF t.own.downloads[m] = {} THEN begun ELSE t.own.downloads[m]
        d == CHOOSE d \in download : TRUE
    IN  CASE Len(s.remote) > Len(t.own.chain) ->
               Request(t, m, "GET_BLOCKS", t.own.chain, NoToken, 0)
          [] /\ t.self \in Readers
             /\ s.remote = t.own.chain
             /\ ~s.delayed
             /\ ~HasRequest(t, m, "GET_MEMPOOL") ->
               Request([t EXCEPT !.own.downloads[m] = download],
                       m, "GET_MEMPOOL", d.tip, d.token, d.cursor)
          [] OTHER -> t

\* _tick: GET_STATUS where status_interval has passed (due), then the above.
Ticked(t, due) ==
    FoldLeft(Ask, FoldLeft(AskStatus, t, SetToSeq(due)), SetToSeq(t.peers))

Tick(n, due) == Finish(Ticked(Turn(n), due), {}) /\ UNCHANGED faults

\* The peers of which n knows an old tip.  Polls of the others are left out:
\* their answers would repeat what is known.
Outdated(n) == {m \in Peers(n) : node[n].sess[m].remote # node[m].chain}

\* _tick: a request is past its deadline.
Timeout(n, m) ==
    /\ faults > 0
    /\ \E r \in node[n].sess[m].pending :
          LET t == [Turn(n) EXCEPT !.own.sess[m].pending = @ \ {r},
                                   !.own.sess[m].expired = @ \cup {r.id}]
          IN  Finish(Ticked(FailedRequest(t, m, r, "TIMEOUT"), {}), {})
    /\ faults' = faults - 1

\* Nobody is going to ask for the rest of the snapshot.
Abandoned(n, m) ==
    /\ node[n].exports[m] # {}
    /\ LET token == (CHOOSE s \in node[n].exports[m] : TRUE).token
       IN  /\ \A d \in node[m].downloads[n] : d.token # token
           /\ \A c \in ToSet(chan[n][m]) \cup ToSet(chan[m][n]) :
                 c.type \in {"MEMPOOL", "GET_MEMPOOL"} => c.token # token

\* SyncManager.tick, and the same test in serve_mempool: snapshot_idle_timeout
\* has passed, or snapshot_lifetime while the peer still reads it, a fault.
Expire(n, m) ==
    /\ node[n].exports[m] # {}
    /\ node' = [node EXCEPT ![n] = DropExport(@, m)]
    /\ UNCHANGED <<chan, links>>

ExpireIdle(n, m) == Abandoned(n, m) /\ Expire(n, m) /\ UNCHANGED faults

ExpireInUse(n, m) ==
    faults > 0 /\ ~Abandoned(n, m) /\ Expire(n, m) /\ faults' = faults - 1

\* next_mempool is reached: mempool_refresh_interval after a download,
\* retry_delay after a failure.
RefreshDue(n, m) ==
    /\ node[n].sess[m].delayed
    /\ node' = [node EXCEPT ![n].sess[m].delayed = FALSE]
    /\ UNCHANGED <<chan, links, faults>>

\* snapshot_cooldown has passed.
CooldownOver(n, m) ==
    /\ node[n].sess[m].cooling
    /\ node' = [node EXCEPT ![n].sess[m].cooling = FALSE]
    /\ UNCHANGED <<chan, links, faults>>

\* The command "submit".
Submit(n, tx) ==
    /\ Admits(node[n].chain, node[n].pool, tx)
    /\ Finish(Submitted(Turn(n), tx, {}), {})
    /\ UNCHANGED faults

\* The command "block" with a block of the first pending transactions.
Mine(n, count) ==
    /\ Len(node[n].chain) < MaxHeight[n]
    /\ count <= Len(node[n].pool)
    /\ Finish(Extended(Turn(n), ToSet(SubSeq(node[n].pool, 1, count)), {}), {})
    /\ UNCHANGED faults

-----------------------------------------------------------------------------
(* Connections.                                                              *)

Disconnect(n, m) ==
    /\ faults > 0
    /\ {n, m} \in links
    /\ node' = [node EXCEPT ![n] = Disconnected(@, m), ![m] = Disconnected(@, n)]
    /\ chan' = [chan EXCEPT ![n][m] = <<>>, ![m][n] = <<>>]
    /\ links' = links \ {{n, m}}
    /\ faults' = faults - 1

\* A new connection.  VERSION told each side the other's tip when the socket
\* was attached, maybe some blocks ago.
Connect(n, m) ==
    /\ {n, m} \in Wired \ links
    /\ \E i \in 0 .. Len(node[n].chain), j \in 0 .. Len(node[m].chain) :
          node' = [node EXCEPT
              ![n].sess[m] = NewSession(SubSeq(node[m].chain, 1, j)),
              ![m].sess[n] = NewSession(SubSeq(node[n].chain, 1, i))]
    /\ links' = links \cup {{n, m}}
    /\ UNCHANGED <<chan, faults>>

Init ==
    /\ node = [n \in Nodes |->
                 [chain |-> <<>>, pool |-> StartPool[n], snapshot_bytes |-> 0,
                  exports |-> [m \in Nodes |-> {}],
                  downloads |-> [m \in Nodes |-> {}],
                  sess |-> [m \in Nodes |-> NewSession(<<>>)],
                  accused |-> {}]]
    /\ chan = [n \in Nodes |-> [m \in Nodes |-> <<>>]]
    /\ links = {}
    /\ faults = MaxFaults

Deliver(n, m) ==
    \/ ServeStatus(n, m)
    \/ ServeBlocks(n, m)
    \/ ServePage(n, m)
    \/ ReceiveTransaction(n, m)
    \/ ReceiveBlock(n, m)
    \/ ReceiveAnswer(n, m)

Next ==
    \/ \E n, m \in Nodes :
          \/ Deliver(n, m)
          \/ RefusePage(n, m)
          \/ Timeout(n, m)
          \/ ExpireIdle(n, m)
          \/ ExpireInUse(n, m)
          \/ RefreshDue(n, m)
          \/ CooldownOver(n, m)
          \/ Disconnect(n, m)
          \/ Connect(n, m)
    \/ \E n \in Nodes :
          \/ Tick(n, {})
          \/ Tick(n, Outdated(n))
          \/ \E tx \in Txs : Submit(n, tx)
          \/ \E count \in BlockSizes : Mine(n, count)

\* The dispatchers keep taking queued events, ticks are queued every
\* maintenance_interval and the timers elapse.
Fairness ==
    /\ WF_vars(\E n, m \in Nodes : Deliver(n, m))
    /\ WF_vars(\E n, m \in Nodes : ExpireIdle(n, m))
    /\ WF_vars(\E n, m \in Nodes : RefreshDue(n, m))
    /\ WF_vars(\E n, m \in Nodes : CooldownOver(n, m))
    /\ WF_vars(\E n, m \in Nodes : Connect(n, m))
    /\ WF_vars(\E n \in Nodes : Tick(n, Outdated(n)))

Spec == Init /\ [][Next]_vars /\ Fairness

-----------------------------------------------------------------------------
(* Properties.                                                               *)

\* Nodes that follow the protocol never close each other's connection over a
\* page, whatever expired, was refused, came late or was overtaken by a block
\* (the checks of serve_mempool and receive_mempool).
NeverRejected == \A n \in Nodes : node[n].accused = {}

\* snapshot_bytes is what the exports of the open connections hold, all of
\* them of the current tip, and never above the global limit: nothing stays
\* reserved after a block, a last page, an expiry or a lost connection.
SnapshotsAccounted ==
    \A n \in Nodes :
        /\ node[n].snapshot_bytes =
               FoldSet(LAMBDA m, sum : sum + FoldSet(
                           LAMBDA s, part : part + Bytes(s.items), 0,
                           node[n].exports[m]), 0, Nodes)
        /\ node[n].snapshot_bytes <= snapshot_global_bytes
        /\ \A m \in Nodes : \A s \in node[n].exports[m] :
               {n, m} \in links /\ s.tip = node[n].chain

\* In the end neighbours are on the same tip, and each holds every pending
\* transaction of the other that its own pool admits, although announcements
\* were lost with a connection and pages refused, expired or overtaken.  A
\* pending transaction over the relay limit stops every export of that node.
PoolsConverge ==
    <>[](\A w \in Wired : \A n, m \in w :
            /\ node[n].chain = node[m].chain
            /\ n \in Readers /\ ToSet(node[m].pool) \cap Oversized = {} =>
                  \A tx \in ToSet(node[m].pool) :
                      ~Admits(node[n].chain, node[n].pool, tx))

==========================================================================
