-------------------------- MODULE PeerConnection --------------------------
(***************************************************************************)
(* One connection (PeerConnection in network/peer.py): the reader and the  *)
(* writer task, the bounded queue of outgoing frames, and the cleanup that *)
(* is run once, whoever asks for it first.  The operators transform the    *)
(* record of a connection; the node composes them (NodeDispatcher).        *)
(*                                                                         *)
(*   reader  : "prefix", "body": what it awaits; "ended"; "cancelled" by   *)
(*             the cleanup, until it has run; "none" before start()        *)
(*   held    : the wire size the reader has reserved with the node         *)
(*   writer  : "head" of its loop, "get", "drain", "cancelled", "ended"    *)
(*   frame   : the size of the frame it holds, 0 for none                  *)
(*   out     : the sizes of the frames in _outbound; frames, bytes are     *)
(*             _outbound_frames and _outbound_bytes                        *)
(*   closed  : the flag that send and both loops look at                   *)
(*   closing : the cleanup: "no"; "asked": the node has marked the peer    *)
(*             and a task will call close(); "new", "tasks", "socket",     *)
(*             "done": on_close has been called                            *)
(*   error   : unexpected_error is set                                     *)
(***************************************************************************)
EXTENDS Integers, Sequences, SequencesExt

CONSTANTS outbound_max_frames, outbound_max_bytes

ASSUME ConnectionAssumption ==
    outbound_max_frames \in Nat \ {0} /\ outbound_max_bytes \in Nat \ {0}

NoConnection ==
    [reader |-> "none", held |-> 0, writer |-> "none", frame |-> 0,
     out |-> <<>>, frames |-> 0, bytes |-> 0,
     closed |-> FALSE, closing |-> "no", error |-> FALSE]

Total(sizes) == SumFunction(sizes)

-----------------------------------------------------------------------------
(* Closing.                                                                  *)

\* _begin_close
BeginClose(c) ==
    IF c.closing \in {"no", "asked"} THEN [c EXCEPT !.closed = TRUE, !.closing = "new"]
                                     ELSE c

\* Mutant: the writer is left to end by itself.
CancelReader(c) ==
    [c EXCEPT !.closing = "tasks",
              !.reader = IF @ \in {"prefix", "body"} THEN "cancelled" ELSE @]

\* The cleanup starts: tasks that have not ended are cancelled.
CancelTasks(c) ==
    [c EXCEPT !.closing = "tasks",
              !.reader = IF @ \in {"prefix", "body"} THEN "cancelled" ELSE @,
              !.writer = IF @ \in {"head", "get", "drain"} THEN "cancelled" ELSE @]

TasksEnded(c) == {c.reader, c.writer} \subseteq {"none", "ended"}

\* Both tasks have ended: what was never written is given back, then
\* wait_closed is awaited for at most close_timeout.
Discarded(c) ==
    [c EXCEPT !.closing = "socket", !.out = <<>>,
              !.frames = @ - Len(c.out), !.bytes = @ - Total(c.out)]

\* start(), unless the connection is closed already.
Started(c) ==
    IF c.closed THEN c ELSE [c EXCEPT !.reader = "prefix", !.writer = "head"]

-----------------------------------------------------------------------------
(* Sending.                                                                  *)

Full(c, size) ==
    \/ c.frames >= outbound_max_frames
    \/ c.bytes + size > outbound_max_bytes

\* send: a peer that does not keep up is disconnected.
Send(c, size) ==
    IF c.closed THEN c
    ELSE IF Full(c, size) THEN BeginClose(c)
    ELSE [c EXCEPT !.out = Append(@, size), !.frames = @ + 1, !.bytes = @ + size]

\* The finally block around drain.
Written(c, next) ==
    [c EXCEPT !.writer = next, !.frame = 0, !.bytes = @ - c.frame,
              !.frames = IF c.frame > 0 THEN @ - 1 ELSE @]

\* A task has ended, by itself or with an exception of its own.
Ended(c, unexpected) == BeginClose([c EXCEPT !.error = @ \/ unexpected])

Take(c) == [c EXCEPT !.writer = "drain", !.frame = Head(c.out), !.out = Tail(@)]

\* The steps of _write_loop.  A writer that waits in get() is woken by a frame
\* without another look at closed.
WriterSteps(c) ==
    IF c.writer = "head" /\ c.closed THEN {Ended([c EXCEPT !.writer = "ended"], FALSE)}
    ELSE IF c.writer = "head" /\ c.out = <<>> THEN {[c EXCEPT !.writer = "get"]}
    ELSE IF c.writer \in {"head", "get"} /\ c.out # <<>> THEN {Take(c)}
    ELSE IF c.writer = "drain"
         THEN {Written(c, "head")} \cup {Ended(Written(c, "ended"), e) : e \in BOOLEAN}
    ELSE IF c.writer = "cancelled" THEN {Written(c, "ended")}
    ELSE {}

-----------------------------------------------------------------------------
(* What holds of every connection.                                           *)

\* The budget in use is what is queued and what the writer holds; it stays
\* within the limits, so that put_nowait never finds the queue full; and it is
\* zero when the connection is given up.
OutboundExact(c) ==
    /\ c.frames = Len(c.out) + (IF c.frame > 0 THEN 1 ELSE 0)
    /\ c.bytes = Total(c.out) + c.frame
    /\ c.frames <= outbound_max_frames /\ c.bytes <= outbound_max_bytes
    /\ c.closing = "done" => TasksEnded(c) /\ c.frames = 0 /\ c.bytes = 0 /\ c.held = 0

==========================================================================
