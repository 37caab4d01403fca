-------------------------- MODULE NodeDispatcher --------------------------
(***************************************************************************)
(* The node's one queue (network/node.py): local calls with their futures, *)
(* frames of the peers' readers (network/peer.py) and ticks, all admitted  *)
(* under a budget of events and bytes, taken one at a time by the          *)
(* dispatcher, which sends through the peers' own bounded queues; start(), *)
(* stop(), and the cleanup that ends everything.                           *)
(*                                                                         *)
(*   phase   : Node.state                                                  *)
(*   starter : the startup task, "no" before start(); then where it is     *)
(*             suspended ("new", "listen", "serve") or how it ended        *)
(*   loop    : the dispatcher and maintenance tasks: "none", "run", "ended"*)
(*   cleaner : the cleanup task: "none", "new", "tasks", "peers", "done"   *)
(*   chain   : the Blockchain: "none", "open", "closed"                    *)
(*   queue   : the events; events, bytes: _inbound_events, _inbound_bytes  *)
(*   ticking : _tick_queued                                                *)
(*   call    : the future of each call; executed: history, the calls whose *)
(*             command was run                                             *)
(*   conn    : the connection of each peer (PeerConnection), NoConnection  *)
(*             where the node has no session; done but not yet reaped, it  *)
(*             is in _closed_peers                                         *)
(***************************************************************************)
EXTENDS PeerConnection, FiniteSets

CONSTANTS
    Calls,                  \* local calls, each made at most once
    Peers,
    Sizes,                  \* wire sizes of calls and frames
    inbound_max_events, inbound_max_bytes

ASSUME DispatcherAssumption ==
    /\ Sizes \subseteq Nat \ {0}
    /\ inbound_max_events \in Nat /\ inbound_max_bytes \in Nat
    /\ Calls \cap Peers = {}
    /\ IsFiniteSet(Peers)

VARIABLES phase, starter, loop, cleaner, chain, queue, events, bytes, ticking,
          call, executed, conn

lifecycle == <<phase, starter, loop, cleaner, chain>>
inbound == <<queue, events, bytes, ticking>>
callers == <<call, executed>>
vars == <<lifecycle, inbound, callers, conn>>

Event(kind, from, size) == [kind |-> kind, from |-> from, size |-> size]

Stopping == {"STOPPING", "STOPPED", "FAILED"}

-----------------------------------------------------------------------------
(* The budget.                                                               *)

\* _reserve returns True.
MayReserve(size) ==
    /\ phase = "RUNNING"
    /\ events < inbound_max_events
    /\ bytes + size <= inbound_max_bytes

Reserve(size) == events' = events + 1 /\ bytes' = bytes + size

Release(size) == events' = events - 1 /\ bytes' = bytes - size

-----------------------------------------------------------------------------
(* Life cycle.                                                               *)

\* _begin_stop, from a state that becomes `next` unless it has failed.
BeginStop(next) ==
    IF cleaner = "none"
    THEN cleaner' = "new" /\ phase' = next
    ELSE UNCHANGED <<cleaner, phase>>

\* _fatal
Fatal ==
    IF phase \in Stopping THEN UNCHANGED <<cleaner, phase>> ELSE BeginStop("FAILED")

Start ==
    /\ phase = "CREATED"
    /\ phase' = "STARTING"
    /\ starter' = "new"
    /\ UNCHANGED <<loop, cleaner, chain, inbound, callers, conn>>

\* The startup task raises: start() fails the node, unless it is being stopped.
StartupRaises ==
    /\ starter' = "raised"
    /\ Fatal

\* Blockchain(...), up to start_server.
StartupOpens ==
    /\ starter = "new"
    /\ \/ chain' = "open" /\ starter' = "listen" /\ UNCHANGED <<phase, cleaner>>
       \/ StartupRaises /\ UNCHANGED chain
    /\ UNCHANGED <<loop, inbound, callers, conn>>

\* The server exists; the tasks are created unless the node was stopped.
StartupListens ==
    /\ starter = "listen"
    /\ \/ /\ phase = "STARTING"
          /\ phase' = "RUNNING" /\ starter' = "serve" /\ loop' = "run"
          /\ UNCHANGED cleaner
       \/ StartupRaises /\ UNCHANGED loop
    /\ UNCHANGED <<chain, inbound, callers, conn>>

StartupEnds ==
    /\ starter = "serve"
    /\ IF phase = "RUNNING" THEN starter' = "ok" /\ UNCHANGED <<phase, cleaner>>
                            ELSE StartupRaises
    /\ UNCHANGED <<loop, chain, inbound, callers, conn>>

\* The caller of start() is cancelled; the startup task goes on until the
\* cleanup ends it.
CancelStart ==
    /\ starter \in {"new", "listen", "serve"}
    /\ Fatal
    /\ UNCHANGED <<starter, loop, chain, inbound, callers, conn>>

Stop ==
    /\ cleaner = "none"
    /\ BeginStop("STOPPING")
    /\ UNCHANGED <<starter, loop, chain, inbound, callers, conn>>

-----------------------------------------------------------------------------
(* Producers of events.                                                      *)

\* _call, when there is room.
Call(c, size) ==
    /\ call[c] = "no"
    /\ MayReserve(size)
    /\ Reserve(size)
    /\ queue' = Append(queue, Event("call", c, size))
    /\ call' = [call EXCEPT ![c] = "waiting"]
    /\ UNCHANGED <<lifecycle, ticking, executed, conn>>

\* The caller is cancelled, and its future with it; the event stays.
CancelCall(c) ==
    /\ call[c] = "waiting"
    /\ call' = [call EXCEPT ![c] = "cancelled"]
    /\ UNCHANGED <<lifecycle, inbound, executed, conn>>

\* _attach: VERSION is queued and the tasks are started.  (A peer stands for its
\* connections one after the other; the events of the last one are gone.)
Attach(p, size) ==
    /\ phase = "RUNNING"
    /\ conn[p] = NoConnection
    /\ \A i \in DOMAIN queue : queue[i].from # p
    /\ conn' = [conn EXCEPT ![p] = Started(Send(NoConnection, size))]
    /\ UNCHANGED <<lifecycle, inbound, callers>>

Update(p, c) == conn' = [conn EXCEPT ![p] = c]

\* asyncio.wait_for may return what has come although the task was cancelled.
Awaits(c, what) ==
    \/ c.reader = what
    \/ c.reader = "cancelled" /\ (c.held > 0) = (what = "body")

\* The length of a frame has come: room is reserved, or the peer is dropped.
ReadPrefix(p, size) ==
    /\ Awaits(conn[p], "prefix")
    /\ IF MayReserve(size)
       THEN Reserve(size) /\ Update(p, [conn[p] EXCEPT !.reader = "body", !.held = size])
       ELSE /\ Update(p, Ended([conn[p] EXCEPT !.reader = "ended"], FALSE))
            /\ UNCHANGED <<events, bytes>>
    /\ UNCHANGED <<lifecycle, queue, ticking, callers>>

\* The body has come: _on_message takes over the reservation, or the reader
\* gives it back.  The loop goes on unless the peer was closed meanwhile.
ReadBody(p) ==
    /\ Awaits(conn[p], "body")
    /\ IF phase = "RUNNING"
       THEN /\ queue' = Append(queue, Event("remote", p, conn[p].held))
            /\ UNCHANGED <<events, bytes>>
       ELSE Release(conn[p].held) /\ UNCHANGED queue
    /\ Update(p, IF conn[p].closed
                 THEN Ended([conn[p] EXCEPT !.reader = "ended", !.held = 0], FALSE)
                 ELSE [conn[p] EXCEPT !.reader = "prefix", !.held = 0])
    /\ UNCHANGED <<lifecycle, ticking, callers>>

GiveBack(p) ==
    IF conn[p].held > 0 THEN Release(conn[p].held) ELSE UNCHANGED <<events, bytes>>

\* The reader ends: timeout, bad frame, end of stream, an unexpected error.
ReaderEnds(p, unexpected) ==
    /\ conn[p].reader \in {"prefix", "body"}
    /\ GiveBack(p)
    /\ Update(p, Ended([conn[p] EXCEPT !.reader = "ended", !.held = 0], unexpected))
    /\ UNCHANGED <<lifecycle, queue, ticking, callers>>

ReaderCancelled(p) ==
    /\ conn[p].reader = "cancelled"
    /\ GiveBack(p)
    /\ Update(p, [conn[p] EXCEPT !.reader = "ended", !.held = 0])
    /\ UNCHANGED <<lifecycle, queue, ticking, callers>>

\* A dial whose handshake fails or that is cancelled closes its connection.
DialFails(p) ==
    /\ conn[p] # NoConnection
    /\ Update(p, BeginClose(conn[p]))
    /\ UNCHANGED <<lifecycle, inbound, callers>>

Write(p) ==
    /\ \E c \in WriterSteps(conn[p]) : Update(p, c)
    /\ UNCHANGED <<lifecycle, inbound, callers>>

\* The task of _close_peer, and the cleanup of the connection up to on_close.
CloseStep(p) ==
    /\ \/ conn[p].closing = "asked" /\ Update(p, BeginClose(conn[p]))
       \/ conn[p].closing = "new" /\ Update(p, CancelTasks(conn[p]))
       \/ /\ conn[p].closing = "tasks" /\ TasksEnded(conn[p])
          /\ Update(p, Discarded(conn[p]))
    /\ UNCHANGED <<lifecycle, inbound, callers>>

\* _on_close: the node will reap the session; an unexpected error fails it.
CloseEnds(p) ==
    /\ conn[p].closing = "socket"
    /\ Update(p, [conn[p] EXCEPT !.closing = "done"])
    /\ IF conn[p].error THEN Fatal ELSE UNCHANGED <<phase, cleaner>>
    /\ UNCHANGED <<starter, loop, chain, inbound, callers>>

\* _maintenance_loop
QueueTick ==
    /\ loop = "run"
    /\ ~ticking
    /\ MayReserve(1)
    /\ Reserve(1)
    /\ ticking' = TRUE
    /\ queue' = Append(queue, Event("tick", "timer", 1))
    /\ UNCHANGED <<lifecycle, callers, conn>>

-----------------------------------------------------------------------------
(* The dispatcher.                                                           *)

\* _reap_peers
Reaped == [p \in Peers |-> IF conn[p].closing = "done" THEN NoConnection ELSE conn[p]]

\* What a handler does to the connections: it sends to some of them, and closes
\* some (_close_peer: marked at once, closed by a task).
Marked(c) == IF c.closed THEN c ELSE [c EXCEPT !.closed = TRUE, !.closing = "asked"]

Handled(cs, sends, bad) ==
    [p \in Peers |->
        LET c == IF cs[p] # NoConnection /\ phase = "RUNNING" /\ p \in DOMAIN sends
                 THEN Send(cs[p], sends[p]) ELSE cs[p]
        IN  IF p \in bad /\ c # NoConnection THEN Marked(c) ELSE c]

Handles(cs, bad) ==
    \E to \in SUBSET Peers : \E sends \in [to -> Sizes] : conn' = Handled(cs, sends, bad)

\* Mutant: a call is run although its caller has gone.
TakeCallAnyway(c) ==
    /\ call' = [call EXCEPT ![c] = IF @ = "cancelled" THEN @ ELSE "ok"]
    /\ executed' = executed \cup {c}
    /\ conn' = Reaped
    /\ UNCHANGED <<phase, cleaner>>

\* A call whose future is cancelled is passed over; a command runs, or is told
\* of its error, or fails the node, before or after it has taken effect.
TakeCall(c) ==
    IF call[c] = "cancelled" THEN conn' = Reaped /\ UNCHANGED <<callers, phase, cleaner>>
    ELSE \/ /\ call' = [call EXCEPT ![c] = "ok"] /\ executed' = executed \cup {c}
            /\ Handles(Reaped, {})
            /\ UNCHANGED <<phase, cleaner>>
         \/ /\ call' = [call EXCEPT ![c] = "error"]
            /\ Handles(Reaped, {})
            /\ UNCHANGED <<executed, phase, cleaner>>
         \/ /\ call' = [call EXCEPT ![c] = "error"]
            /\ executed' \in {executed, executed \cup {c}}
            /\ Handles(Reaped, {})
            /\ Fatal

\* A frame of a closed peer is passed over; others are handled, close their
\* peer or fail the node.
TakeFrame(p) ==
    IF Reaped[p] = NoConnection \/ conn[p].closed
    THEN conn' = Reaped /\ UNCHANGED <<phase, cleaner>>
    ELSE \/ \E bad \in SUBSET {p} : Handles(Reaped, bad) /\ UNCHANGED <<phase, cleaner>>
         \/ Handles(Reaped, {}) /\ Fatal

\* _tick pings, asks, and closes peers that do not answer.
TakeTick ==
    \/ \E bad \in SUBSET Peers : Handles(Reaped, bad) /\ UNCHANGED <<phase, cleaner>>
    \/ \E bad \in SUBSET Peers : Handles(Reaped, bad) /\ Fatal

Turn(e) ==
    \/ e.kind = "call" /\ TakeCall(e.from) /\ UNCHANGED ticking
    \/ e.kind = "remote" /\ TakeFrame(e.from) /\ UNCHANGED <<ticking, callers>>
    \/ e.kind = "tick" /\ ticking' = FALSE /\ TakeTick /\ UNCHANGED callers

\* Mutant: what is passed over is not given back.
DispatchLeaks ==
    /\ loop = "run"
    /\ queue # <<>>
    /\ LET e == Head(queue) IN
       /\ queue' = Tail(queue)
       /\ Turn(e)
       /\ IF e.kind = "call" /\ UNCHANGED callers
          THEN UNCHANGED <<events, bytes>> ELSE Release(e.size)
    /\ loop' = IF phase' = "RUNNING" THEN "run" ELSE "ended"
    /\ UNCHANGED <<starter, chain>>

\* One turn, which may still be taken when the node has just been stopped.
Dispatch ==
    /\ loop = "run"
    /\ queue # <<>>
    /\ queue' = Tail(queue)
    /\ Turn(Head(queue))
    /\ Release(Head(queue).size)
    /\ loop' = IF phase' = "RUNNING" THEN "run" ELSE "ended"
    /\ UNCHANGED <<starter, chain>>

-----------------------------------------------------------------------------
(* _cleanup.                                                                 *)

\* The tasks are cancelled and awaited.
CleanTasks ==
    /\ cleaner = "new"
    /\ cleaner' = "tasks"
    /\ starter' = IF starter \in {"new", "listen", "serve"} THEN "cancelled" ELSE starter
    /\ loop' = IF loop = "run" THEN "ended" ELSE loop
    /\ UNCHANGED <<phase, chain, inbound, callers, conn>>

\* Every connection is closed, whether that was asked for before or not.
CleanPeers ==
    /\ cleaner = "tasks"
    /\ cleaner' = "peers"
    /\ conn' = [p \in Peers |-> IF conn[p] = NoConnection THEN conn[p]
                                ELSE BeginClose(conn[p])]
    /\ UNCHANGED <<phase, starter, loop, chain, inbound, callers>>

\* Whoever still waits in the queue is told that the node has stopped.
Answered ==
    [c \in Calls |-> IF call[c] = "waiting" /\ \E i \in DOMAIN queue : queue[i].from = c
                     THEN "closed" ELSE call[c]]

TotalSize == SumFunction([i \in DOMAIN queue |-> queue[i].size])

\* The rest, without an await: the queue is drained and the chain closed.
CleanRest ==
    /\ cleaner = "peers"
    /\ \A p \in Peers : conn[p] = NoConnection \/ conn[p].closing = "done"
    /\ cleaner' = "done"
    /\ conn' = [p \in Peers |-> NoConnection]
    /\ queue' = <<>>
    /\ events' = events - Len(queue) /\ bytes' = bytes - TotalSize
    /\ ticking' = FALSE
    /\ call' = Answered
    /\ chain' = IF chain = "open" THEN "closed" ELSE chain
    /\ phase' \in IF phase = "FAILED" \/ chain # "open"
                  THEN {IF phase = "FAILED" THEN "FAILED" ELSE "STOPPED"}
                  ELSE {"STOPPED", "FAILED"}
    /\ UNCHANGED <<starter, loop, executed>>

Init ==
    /\ phase = "CREATED" /\ starter = "no" /\ loop = "none"
    /\ cleaner = "none" /\ chain = "none"
    /\ queue = <<>> /\ events = 0 /\ bytes = 0 /\ ticking = FALSE
    /\ call = [c \in Calls |-> "no"] /\ executed = {}
    /\ conn = [p \in Peers |-> NoConnection]

Startup == StartupOpens \/ StartupListens \/ StartupEnds

Cleanup == CleanTasks \/ CleanPeers \/ CleanRest

\* What the tasks of a connection do in bounded time: write_timeout,
\* body_timeout and close_timeout see to that.
Connection(p) ==
    \/ ReaderCancelled(p)
    \/ Write(p)
    \/ CloseStep(p)
    \/ CloseEnds(p)

Next ==
    \/ Start \/ Startup \/ CancelStart \/ Stop
    \/ \E c \in Calls : CancelCall(c) \/ \E size \in Sizes : Call(c, size)
    \/ \E p \in Peers : \/ Connection(p) \/ ReadBody(p) \/ DialFails(p)
                        \/ \E unexpected \in BOOLEAN : ReaderEnds(p, unexpected)
                        \/ \E size \in Sizes : Attach(p, size) \/ ReadPrefix(p, size)
    \/ QueueTick
    \/ Dispatch
    \/ Cleanup

\* Tasks that can run do run; the network and callers promise nothing, except
\* that a reader of a closed peer does not get past body_timeout.
Fairness ==
    /\ WF_vars(Startup) /\ WF_vars(Dispatch) /\ WF_vars(Cleanup) /\ WF_vars(QueueTick)
    /\ \A p \in Peers :
          /\ WF_vars(Connection(p))
          /\ WF_vars(conn[p].closing = "tasks" /\ ReaderEnds(p, FALSE))

Spec == Init /\ [][Next]_vars /\ Fairness

-----------------------------------------------------------------------------
(* Properties.                                                               *)

Holding == {p \in Peers : conn[p].held > 0}

HeldSize == SumFunction([p \in Peers |-> conn[p].held])

\* The inbound budget in use is exactly what is queued and what readers have
\* reserved, and within the limits: nothing leaks or is given back twice,
\* however frames, calls, cancellations and the shutdown interleave.  So the
\* queue, whose size is the limit on events, is never full when an event is put
\* into it; and ticks take only one place of it.  The outbound budget of every
\* connection is exact as well, through slow writers, overflow, cancellation and
\* the one cleanup, and a connection is given up only when its tasks have ended.
BudgetExact ==
    /\ events = Len(queue) + Cardinality(Holding)
    /\ bytes = TotalSize + HeldSize
    /\ events <= inbound_max_events /\ bytes <= inbound_max_bytes
    /\ Cardinality({i \in DOMAIN queue : queue[i].kind = "tick"})
          = IF ticking THEN 1 ELSE 0
    /\ \A p \in Peers : OutboundExact(conn[p])

\* A caller is told the truth: a call that was answered took effect, and one
\* that was cancelled in time, or told that the node stopped, did not.
AnswersAreTrue ==
    \A c \in Calls :
        /\ call[c] = "ok" => c \in executed
        /\ c \in executed => call[c] \in {"ok", "error"}

NothingLeft ==
        /\ queue = <<>> /\ events = 0 /\ bytes = 0
        /\ \A c \in Calls : call[c] # "waiting"
        /\ \A p \in Peers : conn[p] = NoConnection
        /\ chain # "open" /\ loop # "run"
        /\ starter \notin {"new", "listen", "serve"}

\* Every call gets an answer, if only that the node has stopped; every closed
\* connection is given up; and every stop and every failure comes to its end,
\* whatever was under way.  Then nothing is left, for ever: no caller waits,
\* nothing is reserved, no task runs and the chain is closed.
StopEnds ==
    /\ \A c \in Calls : call[c] = "waiting" ~> call[c] # "waiting"
    /\ \A p \in Peers : conn[p].closed ~> conn[p] = NoConnection
    /\ cleaner # "none" ~> [](/\ cleaner = "done" /\ phase \in {"STOPPED", "FAILED"}
                             /\ NothingLeft)

=============================================================================
