-------------------------- MODULE PeerSessions --------------------------
(***************************************************************************)
(* Connections between nodes (network/node.py): dialling, accepting, the   *)
(* VERSION/VERACK handshake, duplicate connections, closing and reaping,   *)
(* and what PeerManager (network/peer_manager.py) is told of it.  The      *)
(* state is that of PeerState.                                             *)
(***************************************************************************)
EXTENDS PeerState, FiniteSets

history == <<faults, accused>>
vars == <<end, dial, book, history>>

NoNode == 0

\* st: "none" no session, "wait" a socket not yet accepted, "open", "closed"
\* (peer.closed), "gone" (in _closed_peers, not yet reaped).
NoEnd == [st |-> "none", out |-> FALSE, peer |-> NoNode, version |-> FALSE,
          ack |-> FALSE, est |-> FALSE, inbox |-> <<>>]

\* pc: "connect" opening the socket, "shake" awaiting session.ready, "ready" or
\* "lost" when that has its result.
NoDial == [pc |-> "none", conn |-> 0]

Dialing(n) == {e \in Nodes : dial[n][e].pc # "none"}

\* A dial task counts only while no session is attached for it.
Occupied(n) ==
    Cardinality(Sessions(n)) +
    Cardinality({e \in Dialing(n) :
        \A c \in Sessions(n) : ~(end[c][n].out /\ end[c][n].peer = e)})

Free(c) ==
    \A n \in Nodes : /\ end[c][n].st = "none"
                     /\ \A e \in Nodes : dial[n][e].pc \in {"none", "connect"}
                                           \/ dial[n][e].conn # c

\* The session is marked closed: what was queued for it is not looked at.
Shut(s) == [s EXCEPT !.st = "closed", !.inbox = <<>>]

-----------------------------------------------------------------------------
(* PeerManager, for candidates that do not expire (seeds).  Of one: tried    *)
(* (next_attempt has been set), dialing, connected.  A backoff that was set  *)
(* may be over whenever it is looked at.                                     *)

NewCandidate == [connected |-> FALSE, dialing |-> FALSE, tried |-> FALSE]

\* Mutant: a candidate that has been tried is not dialled again.
DueOnce(b) == ~b.connected /\ ~b.dialing /\ ~b.tried

Due(b) == ~b.connected /\ ~b.dialing

MarkAttempt(b) == [b EXCEPT !.dialing = TRUE, !.tried = TRUE]

MarkConnected(b) == [connected |-> TRUE, dialing |-> FALSE, tried |-> TRUE]

MarkDisconnected(b) == [connected |-> FALSE, dialing |-> FALSE, tried |-> TRUE]

-----------------------------------------------------------------------------
(* _reap_peers, which begins every turn of the dispatcher.                   *)

ReapedEnd(n) ==
    [c \in Conns |-> IF end[c][n].st = "gone" THEN [end[c] EXCEPT ![n] = NoEnd] ELSE end[c]]

\* Mutant: the candidate is told although another connection is established.
LostEndpointsAll(n) ==
    {e \in Nodes : \E c \in Conns : end[c][n].st = "gone" /\ Leads(c, n, e)}

LostEndpoints(n) ==
    {e \in Nodes :
        /\ \E c \in Conns : end[c][n].st = "gone" /\ Leads(c, n, e)
        /\ ~\E c \in Conns : Established(c, n) /\ Leads(c, n, e)}

ReapedBook(n) ==
    [e \in Nodes |-> IF e \in LostEndpoints(n) THEN MarkDisconnected(book[n][e])
                                               ELSE book[n][e]]

-----------------------------------------------------------------------------
(* Dialling.                                                                 *)

\* A session to e that is not closed.
Reaches(n, e) == \E c \in Conns : Open(c, n) /\ Leads(c, n, e)

\* connect(): without a session and a task to share, it dials at once.
Connect(n, e) ==
    /\ n \in Callers /\ n # e
    /\ ~Reaches(n, e)
    /\ dial[n][e].pc = "none"
    /\ Occupied(n) < max_peers
    /\ Cardinality(Dialing(n)) < max_concurrent_dials
    /\ dial' = [dial EXCEPT ![n][e].pc = "connect"]
    /\ \/ Due(book[n][e]) /\ book' = [book EXCEPT ![n][e] = MarkAttempt(@)]
       \/ book[n][e].tried /\ UNCHANGED book
    /\ UNCHANGED <<end, history>>

\* The due candidates _tick may dial, and how many there is room for.
Eligible(n) ==
    {e \in Nodes \ {n} : /\ Due(ReapedBook(n)[e])
                         /\ dial[n][e].pc = "none"
                         /\ ~Reaches(n, e)}

Room(n) ==
    LET gone == Cardinality({c \in Conns : end[c][n].st = "gone"})
        peers == max_peers + gone - Occupied(n)
        dials == max_concurrent_dials - Cardinality(Dialing(n))
    IN  IF peers <= 0 \/ dials <= 0 THEN 0 ELSE IF peers < dials THEN peers ELSE dials

\* Of _tick: reaping, and dialling the candidates that are due.
Tick(n, due) ==
    /\ due \subseteq Eligible(n)
    /\ Cardinality(due) <= Room(n)
    /\ \A e \in Eligible(n) \ due :
          ReapedBook(n)[e].tried \/ Cardinality(due) = Room(n)
    /\ end' = ReapedEnd(n)
    /\ book' = [book EXCEPT ![n] =
          [e \in Nodes |-> IF e \in due THEN MarkAttempt(ReapedBook(n)[e])
                                        ELSE ReapedBook(n)[e]]]
    /\ dial' = [dial EXCEPT ![n] =
          [e \in Nodes |-> IF e \in due THEN [NoDial EXCEPT !.pc = "connect"]
                                        ELSE dial[n][e]]]
    /\ UNCHANGED history

\* The socket is open: the dialling side attaches its session and sends VERSION.
Opened(n, e, c) ==
    /\ dial[n][e].pc = "connect"
    /\ Free(c)
    /\ end' = [end EXCEPT
          ![c][n] = [NoEnd EXCEPT !.st = "open", !.out = TRUE, !.peer = e],
          ![c][e] = [NoEnd EXCEPT !.st = "wait", !.peer = n, !.inbox = <<"VERSION">>]]
    /\ dial' = [dial EXCEPT ![n][e] = [pc |-> "shake", conn |-> c]]
    /\ UNCHANGED <<book, history>>

Send(ends, c, n, message) ==
    IF ends[c][n].st \in {"wait", "open"}
    THEN [ends EXCEPT ![c][n].inbox = Append(@, message)]
    ELSE ends

\* _accepted_socket: a session that sends VERSION, or no slot.
Accepted(c, n) ==
    /\ end[c][n].st = "wait"
    /\ IF Occupied(n) < max_peers
       THEN end' = Send([end EXCEPT ![c][n].st = "open"], c, end[c][n].peer, "VERSION")
       ELSE end' = [end EXCEPT ![c][n] = NoEnd]
    /\ UNCHANGED <<dial, book, history>>

\* The dial task ends with an exception.
DialRaises(n, e) ==
    /\ LET c == dial[n][e].conn IN
       end' = IF dial[n][e].pc # "connect" /\ Open(c, n)
              THEN [end EXCEPT ![c][n] = Shut(@)] ELSE end
    /\ dial' = [dial EXCEPT ![n][e] = NoDial]
    /\ book' = [book EXCEPT ![n][e] = MarkDisconnected(@)]

\* session.ready has its result; another established session will do.
DialEnds(n, e) ==
    /\ dial[n][e].pc \in {"ready", "lost"}
    /\ IF \/ dial[n][e].pc = "ready" /\ Open(dial[n][e].conn, n)
          \/ \E c \in Conns : Established(c, n) /\ Leads(c, n, e)
       THEN /\ dial' = [dial EXCEPT ![n][e] = NoDial]
            /\ UNCHANGED <<end, book>>
       ELSE DialRaises(n, e)
    /\ UNCHANGED history

\* Fault: opening the socket fails, or the handshake takes too long.
DialFails(n, e) ==
    /\ faults < MaxFaults
    /\ dial[n][e].pc \in {"connect", "shake"}
    /\ DialRaises(n, e)
    /\ faults' = faults + 1
    /\ UNCHANGED accused

-----------------------------------------------------------------------------
(* The handshake: _remote and _handshake, in one turn of the dispatcher.     *)

Initiator(s, n) == IF s.out THEN n ELSE s.peer

\* Mutant: each side prefers the connection it dialled.
BeforeOwn(ends, n, c, d) ==
    \/ ends[c][n].out /\ ~ends[d][n].out
    \/ ends[c][n].out = ends[d][n].out /\ c < d

\* _connection_rank
Before(ends, n, c, d) ==
    LET i == Initiator(ends[c][n], n)  j == Initiator(ends[d][n], n) IN
    i < j \/ (i = j /\ c < d)

\* Mutant: only connections of the same direction are compared.
RivalsOneWay(ends, n, c) ==
    {d \in Conns : /\ ends[d][n].peer = ends[c][n].peer /\ ends[d][n].out = ends[c][n].out
                   /\ ends[d][n].version /\ ends[d][n].st = "open"}

\* The session and its duplicates.
Rivals(ends, n, c) ==
    {d \in Conns : /\ ends[d][n].peer = ends[c][n].peer
                   /\ ends[d][n].version /\ ends[d][n].st = "open"}

\* Both VERSION and VERACK are in: the first in rank survives; once it is
\* established, application messages follow.
Complete(ends, n, c) ==
    LET rivals == Rivals(ends, n, c)
        winner == CHOOSE w \in rivals :
                      \A d \in rivals \ {w} : Before(ends, n, w, d)
        rest == [d \in Conns |-> IF d \in rivals \ {winner}
                                 THEN [ends[d] EXCEPT ![n] = Shut(@)] ELSE ends[d]]
    IN  IF winner = c
        THEN Send([rest EXCEPT ![c][n].est = TRUE], c, ends[c][n].peer, "APP")
        ELSE rest

\* ProtocolError: a repeated or early message.
Unexpected(s, message) ==
    CASE message = "VERSION" -> s.est \/ s.version
      [] message = "VERACK" -> s.est \/ ~s.version \/ s.ack
      [] OTHER -> ~s.est

Received(ends, c, n, message) ==
    LET e == ends[c][n].peer
        got == CASE message = "VERSION" ->
                      Send([ends EXCEPT ![c][n].version = TRUE], c, e, "VERACK")
                 [] message = "VERACK" -> [ends EXCEPT ![c][n].ack = TRUE]
                 [] OTHER -> ends
    IN  IF got[c][n].version /\ got[c][n].ack /\ ~got[c][n].est
        THEN Complete(got, n, c) ELSE got

Deliver(c, n) ==
    /\ Open(c, n) /\ end[c][n].inbox # <<>>
    /\ LET message == Head(end[c][n].inbox)
           e == end[c][n].peer
           taken == [ReapedEnd(n) EXCEPT ![c][n].inbox = Tail(@)]
           bad == Unexpected(taken[c][n], message)
           after == IF bad THEN [taken EXCEPT ![c][n] = Shut(@)]
                           ELSE Received(taken, c, n, message)
           new == after[c][n].est /\ ~end[c][n].est
       IN  /\ end' = after
           /\ accused' = (accused \/ bad)
           /\ book' = [book EXCEPT ![n] =
                 IF new THEN [ReapedBook(n) EXCEPT ![e] = MarkConnected(@)]
                        ELSE ReapedBook(n)]
           /\ dial' = IF new /\ dial[n][e].pc = "shake" /\ dial[n][e].conn = c
                      THEN [dial EXCEPT ![n][e].pc = "ready"] ELSE dial
    /\ UNCHANGED faults

-----------------------------------------------------------------------------
(* The end of a connection.                                                  *)

\* The reader sees that the other side has closed, maybe before the dispatcher
\* has looked at what came before.
PeerGone(c, n) ==
    /\ Open(c, n)
    /\ end[c][end[c][n].peer].st \notin {"wait", "open"}
    /\ end' = [end EXCEPT ![c][n] = Shut(@)]
    /\ UNCHANGED <<dial, book, history>>

\* PeerConnection._cleanup is through: _on_close.
OnClose(c, n) ==
    /\ end[c][n].st = "closed"
    /\ end' = [end EXCEPT ![c][n].st = "gone"]
    /\ dial' = LET e == end[c][n].peer IN
               IF end[c][n].out /\ dial[n][e].pc = "shake" /\ dial[n][e].conn = c
               THEN [dial EXCEPT ![n][e].pc = "lost"] ELSE dial
    /\ UNCHANGED <<book, history>>

\* Fault: a reset, a missing PONG or a handshake that takes too long, seen on
\* one side first.
Reset(c, n) ==
    /\ faults < MaxFaults
    /\ Open(c, n)
    /\ end' = [end EXCEPT ![c][n] = Shut(@)]
    /\ faults' = faults + 1
    /\ UNCHANGED <<dial, book, accused>>

Init ==
    /\ end = [c \in Conns |-> [n \in Nodes |-> NoEnd]]
    /\ dial = [n \in Nodes |-> [e \in Nodes |-> NoDial]]
    /\ book = [n \in Nodes |-> [e \in Nodes |-> NewCandidate]]
    /\ faults = 0 /\ accused = FALSE

\* What the tasks of a dial and of a session's end do by themselves.
DialMoves(n, e) ==
    \/ \E c \in Conns : Opened(n, e, c)
    \/ DialEnds(n, e)

EndMoves(c, n) ==
    \/ Accepted(c, n)
    \/ Deliver(c, n)
    \/ PeerGone(c, n)
    \/ OnClose(c, n)

Next ==
    \/ \E n \in Nodes, due \in SUBSET Nodes : Tick(n, due)
    \/ \E n, e \in Nodes : Connect(n, e) \/ DialMoves(n, e) \/ DialFails(n, e)
    \/ \E c \in Conns, n \in Nodes : EndMoves(c, n) \/ Reset(c, n)

\* Tasks run, ticks come, backoffs end, and what is sent arrives.
Fairness ==
    /\ \A n \in Nodes : /\ WF_vars(Tick(n, {}))
                        /\ WF_vars(\E due \in SUBSET Nodes \ {{}} : Tick(n, due))
    /\ \A n, e \in Nodes : n # e => WF_vars(DialMoves(n, e))
    /\ \A c \in Conns, n \in Nodes : WF_vars(EndMoves(c, n))

Spec == Init /\ [][Next]_vars /\ Fairness

-----------------------------------------------------------------------------
(* Properties.                                                               *)

Linked(n, e) == \E c \in Conns : Established(c, n) /\ Established(c, e)
                                 /\ end[c][n].peer = e /\ end[c][e].peer = n

\* A dial between two running nodes yields an established session, whoever else
\* dials.
DialsSucceed ==
    [][\A n, e \in Nodes :
          dial[n][e].pc # "none" /\ dial'[n][e].pc = "none" /\ faults' = 0 =>
              \E c \in Conns : Established(c, n)' /\ Leads(c, n, e)']_vars

\* Two nodes at rest of which one has dialled the other share a connection if
\* nothing failed: they did not close each other's choice.
SameSurvivor ==
    \A n, e \in Nodes :
        n # e /\ Quiet(n, e) /\ Quiet(e, n) /\ faults = 0 /\ book[n][e].tried => Linked(n, e)

\* Duplicates end with the same survivor and, after the faults, any two nodes
\* with a connection that both have and keep.
Reconnects == []SameSurvivor /\ \A n, e \in Nodes : n < e => <>[]Linked(n, e)

=============================================================================
