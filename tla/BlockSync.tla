--------------------------- MODULE BlockSync ---------------------------
(***************************************************************************)
(* Block propagation and download between nodes (network/node.py,          *)
(* network/sync.py), for established sessions over FIFO connections.       *)
(*                                                                         *)
(* A block hash commits to the whole history, so a block is represented by *)
(* the chain that ends with it: the sequence of the nodes that mined it    *)
(* and its ancestors, genesis being <<>>.  The pair (height, hash) of the  *)
(* code is then one value, and previous_block_hash is Front(block).        *)
(*                                                                         *)
(*   node[n] : chain; source, the peer of the one block download; sess,    *)
(*             the Session of each peer; accused, the peers closed for a   *)
(*             ProtocolError                                               *)
(*   chan    : chan[m][n], the messages from m to n                        *)
(*   links   : the pairs of nodes with an established connection           *)
(*   slow    : the nodes whose clock is so late that add_block rejects the *)
(*             others' blocks as too far in the future                     *)
(*   faults  : what is left of the budget of timeouts, refusals and drops  *)
(*                                                                         *)
(* Of a Session: remote is (remote_height, remote_tip); pending and        *)
(* expired are the dictionaries, an expired id being kept until its answer *)
(* comes (60 s in the code: PING and PONG share the connection and close   *)
(* it after 40 s of silence); diverged is sync_state = "DIVERGED"; delayed *)
(* says that sync_after lies in the future.                                *)
(***************************************************************************)
EXTENDS Naturals, Sequences, FiniteSets, SequencesExt

CONSTANTS
    Nodes,
    Wired,          \* the pairs of nodes that dial each other
    Start,          \* the chain each node loads when it starts
    Late,           \* the nodes whose clock starts late
    block_batch_size,
    MaxHeight,      \* bound on the chains: up to which height each node mines
    MaxFaults       \* bound on timeouts, BUSY answers and lost connections

ASSUME SyncAssumption ==
    /\ \A w \in Wired : \E n, m \in Nodes : n # m /\ w = {n, m}
    /\ \A n \in Nodes : Start[n] \in Seq(Nodes)
    /\ Late \subseteq Nodes
    /\ block_batch_size \in Nat \ {0}
    /\ MaxHeight \in [Nodes -> Nat]
    /\ MaxFaults \in Nat

VARIABLES node, chan, links, slow, faults

vars == <<node, chan, links, slow, faults>>

Genesis == <<>>

NoId == 0

\* Session.__init__, with what VERSION said of the peer's tip.
NewSession(remote) ==
    [remote |-> remote, pending |-> {}, expired |-> {}, diverged |-> FALSE,
     delayed |-> FALSE, rejected |-> {}]

-----------------------------------------------------------------------------
(* A handler transforms a turn: the node's own state, with the peers it is   *)
(* connected to, whether its clock is late and the messages it sends.        *)

Peers(n) == {m \in Nodes : {n, m} \in links}

Turn(n) ==
    [self |-> n, chain |-> node[n].chain, source |-> node[n].source,
     sess |-> node[n].sess, accused |-> node[n].accused, peers |-> Peers(n),
     out |-> [m \in Nodes |-> <<>>]]

Send(t, m, msg) == [t EXCEPT !.out[m] = Append(@, msg)]

Broadcast(t, peers, msg) ==
    [t EXCEPT !.out = [m \in Nodes |-> IF m \in peers THEN Append(@[m], msg)
                                                       ELSE @[m]]]

ProtocolError(t, m) == [t EXCEPT !.accused = @ \cup {m}]

HasRequest(s, kind) == \E r \in s.pending : r.kind = kind

\* secrets.token_hex: an id that is not in use.
FreshId(s) ==
    LET used == {r.id : r \in s.pending} \cup s.expired IN
    CHOOSE i \in 1 .. Cardinality(used) + 1 :
        i \notin used /\ \A j \in 1 .. i - 1 : j \in used

\* _request: at most one of a kind is outstanding, so that max_requests, the
\* number of kinds, is never what stops one.
Request(t, m, kind, anchor) ==
    LET r == [id |-> FreshId(t.sess[m]), kind |-> kind, anchor |-> anchor] IN
    IF HasRequest(t.sess[m], kind) THEN t
    ELSE Send([t EXCEPT !.sess[m].pending = @ \cup {r}], m,
              [type |-> kind, id |-> r.id, anchor |-> anchor])

\* Node._error
Refusal(id, code) == [type |-> "ERROR", id |-> id, code |-> code]

Status(id, tip) == [type |-> "STATUS", id |-> id, tip |-> tip]

\* Mutant: a failed download still occupies source.
FailedRequestKeepsSource(t, m, r, code) ==
    LET idle == [t EXCEPT !.sess[m].delayed = TRUE, !.sess[m].diverged = FALSE]
    IN  CASE r.kind # "GET_BLOCKS" -> t
          [] code = "UNKNOWN_ANCHOR" ->
               Request([idle EXCEPT !.sess[m].rejected = {r.anchor}],
                       m, "GET_STATUS", Genesis)
          [] OTHER -> idle

\* SyncManager.failed_request, for GET_BLOCKS; nothing follows a GET_STATUS.
FailedRequest(t, m, r, code) ==
    LET idle == [t EXCEPT !.source = {}, !.sess[m].delayed = TRUE,
                          !.sess[m].diverged = FALSE]
    IN  CASE r.kind # "GET_BLOCKS" -> t
          [] code = "UNKNOWN_ANCHOR" ->
               Request([idle EXCEPT !.sess[m].rejected = {r.anchor}],
                       m, "GET_STATUS", Genesis)
          [] OTHER -> idle

\* _accept_block of a block that add_block accepts: tip_changed (the mempool
\* downloads, not modelled here), NEW_BLOCK to everyone but the source, then
\* STATUS to everyone.
Extended(t, block, source) ==
    Broadcast(Broadcast([t EXCEPT !.chain = block], t.peers \ source,
                        [type |-> "NEW_BLOCK", id |-> NoId, block |-> block]),
              t.peers, Status(NoId, block))

\* Mutant: a longer chain of the peer replaces the node's own.
AcceptRemoteLonger(t, m, block) ==
    CASE Len(block) <= Len(t.chain) -> t
      [] t.self \in slow -> t
      [] OTHER -> Extended(t, block, {m})

\* _accept_block of a peer's block.
AcceptRemote(t, m, block) ==
    CASE Front(block) # t.chain ->
           IF IsPrefix(block, t.chain) THEN t
           ELSE Request(t, m, "GET_STATUS", Genesis)
      [] t.self \in slow -> t
      [] OTHER -> Extended(t, block, {m})

-----------------------------------------------------------------------------
(* Messages.                                                                 *)

\* _reap_peers, SyncManager.disconnected
Closed(n, m) == [node[n] EXCEPT !.sess[m] = NewSession(Genesis),
                                !.source = @ \ {m}]

\* The turn is over: its messages leave and, after a ProtocolError, the
\* connection is closed on both sides.
Finish(turn, delivered) ==
    \E t \in {turn} :
    LET n == t.self
        bad == t.accused \ node[n].accused
        mine == [chain |-> t.chain,  source |-> t.source \ bad,
                 accused |-> t.accused,
                 sess |-> [m \in Nodes |-> IF m \in bad THEN NewSession(Genesis)
                                                        ELSE t.sess[m]]]
    IN  /\ node' = [k \in Nodes |-> CASE k = n -> mine
                                      [] k \in bad -> Closed(k, n)
                                      [] OTHER -> node[k]]
        /\ chan' = [k \in Nodes |-> [l \in Nodes |->
                      CASE {k, l} \cap bad # {} /\ n \in {k, l} -> <<>>
                        [] k = n -> chan[k][l] \o t.out[l]
                        [] k \in delivered /\ l = n -> Tail(chan[k][l])
                        [] OTHER -> chan[k][l]]]
        /\ links' = links \ {{n, m} : m \in bad}
        /\ UNCHANGED slow

HasMessage(n, m, type) == chan[m][n] # <<>> /\ Head(chan[m][n]).type = type

\* _remote, GET_STATUS
ServeStatus(n, m) ==
    /\ HasMessage(n, m, "GET_STATUS")
    /\ Finish(Send(Turn(n), m, Status(Head(chan[m][n]).id, node[n].chain)), {m})
    /\ UNCHANGED faults

\* SyncManager.serve_blocks.  Where the frame limit bites before the batch
\* limit, fewer blocks are sent, but always one.
ServeBlocks(n, m) ==
    /\ HasMessage(n, m, "GET_BLOCKS")
    /\ LET msg == Head(chan[m][n])
           chain == node[n].chain
           first == Len(msg.anchor) + 1
           left == Len(chain) - Len(msg.anchor)
           full == IF left < block_batch_size THEN left ELSE block_batch_size
           Answer(count) ==
               [type |-> "BLOCKS", id |-> msg.id, anchor |-> msg.anchor,
                tip |-> chain, more |-> Len(msg.anchor) + count < Len(chain),
                blocks |-> [i \in 1 .. count |-> SubSeq(chain, 1, first + i - 1)]]
       IN  IF ~IsPrefix(msg.anchor, chain)
           THEN Finish(Send(Turn(n), m, Refusal(msg.id, "UNKNOWN_ANCHOR")), {m})
           ELSE \E count \in (IF full > 0 THEN 1 ELSE 0) .. full :
                    Finish(Send(Turn(n), m, Answer(count)), {m})
    /\ UNCHANGED faults

\* _remote: the service bucket is empty.
RefuseBlocks(n, m) ==
    /\ faults > 0
    /\ HasMessage(n, m, "GET_BLOCKS")
    /\ Finish(Send(Turn(n), m, Refusal(Head(chan[m][n]).id, "BUSY")), {m})
    /\ faults' = faults - 1

\* _remote, NEW_BLOCK
ReceiveBlock(n, m) ==
    /\ HasMessage(n, m, "NEW_BLOCK")
    /\ Finish(AcceptRemote(Turn(n), m, Head(chan[m][n]).block), {m})
    /\ UNCHANGED faults

-----------------------------------------------------------------------------
(* Answers are matched with the request of the same id.                      *)

Solicited(s, msg) == {r \in s.pending : r.id = msg.id}

\* (The code also keeps the id among the expired ones, for duplicates that a
\* FIFO connection does not deliver.)
Settled(t, m, r) == [t EXCEPT !.sess[m].pending = @ \ {r}]

\* An answer to a request that timed out is dropped; an unknown id is not.
Unmatched(t, m, id) ==
    IF id \in t.sess[m].expired
    THEN [t EXCEPT !.sess[m].expired = @ \ {id}]
    ELSE ProtocolError(t, m)

\* _remote, STATUS: announced (no id) or solicited.
NoteStatus(t, m, tip, solicited) ==
    LET refused == solicited /\ t.sess[m].rejected # {}
        forked == /\ refused
                  /\ t.sess[m].rejected = {t.chain}
                  /\ Len(tip) >= Len(t.chain)
    IN  [t EXCEPT !.sess[m].remote = tip,
                  !.sess[m].diverged = @ \/ forked,
                  !.sess[m].rejected = IF refused THEN {} ELSE @]

ReceiveStatus(n, m) ==
    /\ HasMessage(n, m, "STATUS")
    /\ LET msg == Head(chan[m][n])
           asked == Solicited(node[n].sess[m], msg)
       IN  Finish(CASE msg.id = NoId -> NoteStatus(Turn(n), m, msg.tip, FALSE)
                    [] asked = {} -> Unmatched(Turn(n), m, msg.id)
                    [] OTHER -> NoteStatus(
                          Settled(Turn(n), m, CHOOSE r \in asked : TRUE),
                          m, msg.tip, TRUE), {m})
    /\ UNCHANGED faults

ReceiveError(n, m) ==
    /\ HasMessage(n, m, "ERROR")
    /\ LET msg == Head(chan[m][n])
           asked == Solicited(node[n].sess[m], msg)
           r == CHOOSE q \in asked : TRUE
       IN  Finish(IF asked = {} THEN Unmatched(Turn(n), m, msg.id)
                  ELSE FailedRequest(Settled(Turn(n), m, r), m, r, msg.code), {m})
    /\ UNCHANGED faults

\* The loop of receive_blocks: one block after the other until one does not
\* extend the tip (ProtocolError) or is not accepted (failed_request).
TakeBlock(t, m, r, block) ==
    IF Front(block) # t.chain THEN ProtocolError(t, m)
    ELSE LET accepted == AcceptRemote(t, m, block) IN
         IF accepted.chain = block THEN accepted
         ELSE FailedRequest(accepted, m, r, "BAD_MESSAGE")

TakeBlocks(t, m, r, blocks) ==
    LET Step(a, b) == IF m \in a.turn.accused \/ a.stopped THEN a
                      ELSE LET u == TakeBlock(a.turn, m, r, b) IN
                           [turn |-> u, stopped |-> u.chain # b]
    IN  FoldLeft(Step, [turn |-> t, stopped |-> FALSE], blocks)

\* SyncManager.receive_blocks after the whole batch was accepted.
NoteBatch(t, m, msg) ==
    LET noted == [t EXCEPT !.sess[m].remote = msg.tip,
                           !.sess[m].delayed = (msg.blocks = <<>>)]
    IN  CASE ~msg.more /\ t.chain # msg.tip -> ProtocolError(t, m)
          [] ~msg.more -> Request(noted, m, "GET_STATUS", Genesis)
          [] OTHER -> noted

\* Mutant: the answer is used although the tip has changed since the request.
TakeAnswerStale(t, m, r, msg) ==
    LET idle == [t EXCEPT !.source = {}, !.sess[m].diverged = FALSE]
        taken == TakeBlocks(idle, m, r, msg.blocks)
    IN  IF m \in taken.turn.accused \/ taken.stopped THEN taken.turn
        ELSE NoteBatch(taken.turn, m, msg)

\* SyncManager.receive_blocks.  An answer for a tip that a local or announced
\* block has replaced meanwhile is dropped.
TakeAnswer(t, m, r, msg) ==
    LET idle == [t EXCEPT !.source = {}, !.sess[m].diverged = FALSE]
        end == Len(t.chain) + Len(msg.blocks)
        inconsistent ==
            \/ Len(msg.blocks) > block_batch_size
            \/ end > Len(msg.tip)
            \/ msg.more # (end < Len(msg.tip))
            \/ msg.more /\ msg.blocks = <<>>
        taken == TakeBlocks(idle, m, r, msg.blocks)
    IN  CASE msg.anchor # r.anchor -> ProtocolError(idle, m)
          [] t.chain # r.anchor -> idle
          [] inconsistent -> ProtocolError(idle, m)
          [] m \in taken.turn.accused \/ taken.stopped -> taken.turn
          [] OTHER -> NoteBatch(taken.turn, m, msg)

ReceiveBlocks(n, m) ==
    /\ HasMessage(n, m, "BLOCKS")
    /\ LET msg == Head(chan[m][n])
           asked == Solicited(node[n].sess[m], msg)
           r == CHOOSE q \in asked : TRUE
       IN  Finish(IF asked = {} THEN Unmatched(Turn(n), m, msg.id)
                  ELSE TakeAnswer(Settled(Turn(n), m, r), m, r, msg), {m})
    /\ UNCHANGED faults

-----------------------------------------------------------------------------
(* The timer and the local commands.                                         *)

\* _tick, the deadline of one outstanding request.
Expired(t, m, r) ==
    FailedRequest([t EXCEPT !.sess[m].pending = @ \ {r},
                            !.sess[m].expired = @ \cup {r.id}],
                  m, r, "TIMEOUT")

\* SyncManager.tick: from whom the next batch may be asked.
Candidates(t) ==
    {m \in t.peers : /\ t.source = {}
                     /\ Len(t.sess[m].remote) > Len(t.chain)
                     /\ ~t.sess[m].delayed
                     /\ ~t.sess[m].diverged
                     /\ ~HasRequest(t.sess[m], "GET_BLOCKS")}

Longest(t) ==
    {m \in Candidates(t) : \A k \in Candidates(t) :
                               Len(t.sess[k].remote) <= Len(t.sess[m].remote)}

Download(t, m) ==
    [Request(t, m, "GET_BLOCKS", t.chain) EXCEPT !.source = {m}]

\* Mutant: any tip that is not below ours and not ours is taken for a fork.
MarkedAnyHeight(t) ==
    [t EXCEPT !.sess = [m \in Nodes |->
        [@[m] EXCEPT !.diverged =
            @ \/ /\ m \in t.peers
                 /\ Len(t.sess[m].remote) >= Len(t.chain)
                 /\ t.sess[m].remote # t.chain]]]

\* SyncManager.tick: another block at the same height is a fork.
Marked(t) ==
    [t EXCEPT !.sess = [m \in Nodes |->
        [@[m] EXCEPT !.diverged =
            @ \/ /\ m \in t.peers
                 /\ Len(t.sess[m].remote) = Len(t.chain)
                 /\ t.sess[m].remote # t.chain]]]

\* _tick: requests past their deadline, GET_STATUS where status_interval has
\* passed (due), then SyncManager.tick.
Polled(t, due) ==
    LET Ask(u, m) == Request(u, m, "GET_STATUS", Genesis)
    IN  FoldLeft(Ask, t, SetToSeq(due))

TickEnd(turn) ==
    \E t \in {turn} :
       \/ Longest(t) = {} /\ Finish(Marked(t), {})
       \/ \E m \in Longest(t) : Finish(Marked(Download(t, m)), {})

Tick(n, due) == TickEnd(Polled(Turn(n), due)) /\ UNCHANGED faults

Timeout(n, m) ==
    /\ faults > 0
    /\ \E r \in node[n].sess[m].pending : TickEnd(Expired(Turn(n), m, r))
    /\ faults' = faults - 1

\* retry_delay has passed.
RetryDue(n, m) ==
    /\ node[n].sess[m].delayed
    /\ node' = [node EXCEPT ![n].sess[m].delayed = FALSE]
    /\ UNCHANGED <<chan, links, slow, faults>>

\* The command "block" with a block mined on the current tip.
Mine(n) ==
    /\ Len(node[n].chain) < MaxHeight[n]
    /\ Finish(Extended(Turn(n), Append(node[n].chain, n), {}), {})
    /\ UNCHANGED faults

ClockCatchesUp(n) ==
    /\ n \in slow
    /\ slow' = slow \ {n}
    /\ UNCHANGED <<node, chan, links, faults>>

-----------------------------------------------------------------------------
(* Connections.                                                              *)

\* The connection breaks: _reap_peers and SyncManager.disconnected.
Disconnect(n, m) ==
    /\ faults > 0
    /\ {n, m} \in links
    /\ node' = [node EXCEPT ![n] = Closed(n, m), ![m] = Closed(m, n)]
    /\ chan' = [chan EXCEPT ![n][m] = <<>>, ![m][n] = <<>>]
    /\ links' = links \ {{n, m}}
    /\ faults' = faults - 1
    /\ UNCHANGED slow

\* A new connection.  VERSION told each side the other's tip when the socket
\* was attached; blocks accepted since then, before the session was
\* established, have not been announced on it.
Connect(n, m) ==
    /\ {n, m} \in Wired \ links
    /\ \E i \in 0 .. Len(node[n].chain), j \in 0 .. Len(node[m].chain) :
          node' = [node EXCEPT
              ![n].sess[m] = NewSession(SubSeq(node[m].chain, 1, j)),
              ![m].sess[n] = NewSession(SubSeq(node[n].chain, 1, i))]
    /\ links' = links \cup {{n, m}}
    /\ UNCHANGED <<chan, slow, faults>>

Init ==
    /\ node = [n \in Nodes |->
                 [chain |-> Start[n], source |-> {}, accused |-> {},
                  sess |-> [m \in Nodes |-> NewSession(Genesis)]]]
    /\ chan = [n \in Nodes |-> [m \in Nodes |-> <<>>]]
    /\ links = {}
    /\ slow = Late
    /\ faults = MaxFaults

Deliver(n, m) ==
    \/ ServeStatus(n, m)
    \/ ServeBlocks(n, m)
    \/ ReceiveBlock(n, m)
    \/ ReceiveStatus(n, m)
    \/ ReceiveError(n, m)
    \/ ReceiveBlocks(n, m)

Next ==
    \/ \E n, m \in Nodes :
          \/ Deliver(n, m)
          \/ RefuseBlocks(n, m)
          \/ Timeout(n, m)
          \/ RetryDue(n, m)
          \/ Disconnect(n, m)
          \/ Connect(n, m)
    \/ \E n \in Nodes :
          \/ \E due \in {{}, Peers(n)} : Tick(n, due)
          \/ ClockCatchesUp(n)
          \/ Mine(n)

\* The dispatcher takes every queued event in turn, ticks are queued every
\* maintenance_interval and every timer elapses.
Fairness ==
    /\ \A n \in Nodes : \A m \in Nodes \ {n} :
          /\ WF_vars(Deliver(n, m))
          /\ WF_vars(RetryDue(n, m))
          /\ WF_vars(Connect(n, m))
    /\ \A n \in Nodes :
          /\ WF_vars(Tick(n, Peers(n)))
          /\ WF_vars(ClockCatchesUp(n))

Spec == Init /\ [][Next]_vars /\ Fairness

-----------------------------------------------------------------------------
(* Properties.                                                               *)

\* Nodes that follow the protocol never close each other's connection for a
\* ProtocolError, whatever they mine, however late an answer comes and
\* whatever changed the tip between request and answer (_remote's id
\* matching, receive_blocks' checks).
NeverAccused == \A n \in Nodes : node[n].accused = {}

Forked(n, m) == ~IsPrefix(node[n].chain, node[m].chain)
                /\ ~IsPrefix(node[m].chain, node[n].chain)

\* What a node records is true.  A session is reported DIVERGED (and never
\* again used for a download) only if the two chains have really parted: not
\* because of an old status, a refused anchor or a batch on its way.  And
\* source is exactly the peer with a GET_BLOCKS outstanding: there is never a
\* second download, and no download is forgotten while source blocks others.
SessionsAreTrue ==
    \A n \in Nodes :
        /\ \A m \in Nodes : node[n].sess[m].diverged => Forked(n, m)
        /\ node[n].source = {m \in Nodes :
                                HasRequest(node[n].sess[m], "GET_BLOCKS")}

\* A chain is never replaced or shortened by what a peer sends; a node's
\* recorded view of a peer never goes back while the connection lasts.
NothingGoesBack ==
    [][\A n \in Nodes :
          /\ IsPrefix(node[n].chain, node'[n].chain)
          /\ \A m \in Nodes :
                {n, m} \in links /\ {n, m} \in links' =>
                    IsPrefix(node[n].sess[m].remote, node'[n].sess[m].remote)]_vars

\* In the end no node is behind another one: their chains are equal or have
\* parted, through lost connections, timeouts, refusals and a clock that was
\* late for a while.  If two chains have parted, one of the two sides reports
\* it, again and again if a late answer resets sync_state.
Converges ==
    /\ <>[](\A n, m \in Nodes : node[n].chain = node[m].chain \/ Forked(n, m))
    /\ []<>(\A w \in Wired : \A n, m \in w :
               Forked(n, m) => node[n].sess[m].diverged \/ node[m].sess[n].diverged)

==========================================================================
