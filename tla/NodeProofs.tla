---------------------------- MODULE NodeProofs ----------------------------
(***************************************************************************)
(* Theorems about the node: NodeDispatcher, for any number of peers and    *)
(* local calls, any sizes and any limits of the queues, and PeerSessions,  *)
(* for any number of nodes and connections.                                *)
(*                                                                         *)
(* BudgetExact is a sum over the queue and over the readers.  It is not    *)
(* inductive: that a reader gives back exactly what it took depends on     *)
(* where it is suspended, and that a closed connection holds nothing on    *)
(* the order in which its cleanup ends its tasks (ConnInv).                *)
(*                                                                         *)
(* That no message of a handshake comes out of turn depends on what the    *)
(* other end has sent (InTransit), and that the books are right on a       *)
(* session that is established having seen VERSION, since only such a one  *)
(* is found when another is reaped or a dial ends (LinkedLeads).           *)
(***************************************************************************)
EXTENDS NodeDispatcher, PeerState, SequenceLemmas

-----------------------------------------------------------------------------
(* One connection.                                                           *)

Connections ==
    [reader : {"none", "prefix", "body", "cancelled", "ended"}, held : Nat,
     writer : {"none", "head", "get", "drain", "cancelled", "ended"}, frame : Nat,
     out : Seq(Nat \ {0}), frames : Int, bytes : Int, closed : BOOLEAN,
     closing : {"no", "asked", "new", "tasks", "socket", "done"}, error : BOOLEAN]

\* The outbound budget, with what it rests on: only a writer that drains or was
\* cancelled there holds a frame, only a reader that waits for a body holds a
\* reservation, nothing is sent once the connection is being closed, and the
\* socket is closed after both tasks have ended.
ConnInv(c) ==
    /\ c \in Connections
    /\ c.frame = 0 => c.frames = Len(c.out)
    /\ c.frame > 0 => c.frames = Len(c.out) + 1
    /\ c.bytes = Total(c.out) + c.frame
    /\ c.frames <= outbound_max_frames /\ c.bytes <= outbound_max_bytes
    /\ c.frame > 0 => c.writer \in {"drain", "cancelled"}
    /\ c.reader = "body" => c.held > 0
    /\ c.held > 0 => c.reader \in {"body", "cancelled"}
    /\ c.closing # "no" => c.closed
    /\ c.closing \in {"socket", "done"} => TasksEnded(c) /\ c.out = <<>>

\* The total of a queue of frames.
LEMMA TotalFacts ==
    ASSUME NEW out \in Seq(Nat \ {0})
    PROVE  /\ Total(out) \in Int
           /\ \A size \in Nat \ {0} : Total(Append(out, size)) = Total(out) + size
           /\ out # <<>> => /\ Total(Tail(out)) = Total(out) - Head(out)
                            /\ Head(out) \in Nat \ {0}
                            /\ Tail(out) \in Seq(Nat \ {0})
                            /\ Len(Tail(out)) = Len(out) - 1
  <1>1. /\ DOMAIN out = 1 .. Len(out) /\ Len(out) \in Nat
        /\ \A i \in DOMAIN out : out[i] \in Int
    OBVIOUS
  <1>2. IsFiniteSet(DOMAIN out)
    BY <1>1, FS_Interval
  <1>3. Total(out) \in Int
    BY <1>1, <1>2, SumType DEF Total
  <1>4. ASSUME NEW size \in Nat \ {0} PROVE Total(Append(out, size)) = Total(out) + size
    <2>1. PICK longer : longer = Append(out, size)
      OBVIOUS
    <2>2. /\ DOMAIN longer = DOMAIN out \cup {Len(out) + 1}
          /\ Len(out) + 1 \notin DOMAIN out
          /\ \A i \in DOMAIN out : longer[i] = out[i]
          /\ longer[Len(out) + 1] = size
      BY <1>1, <2>1
    <2>3. size \in Int
      OBVIOUS
    <2>4. SumFunction(longer) = SumFunction(out) + longer[Len(out) + 1]
      BY <1>1, <1>2, <2>2, <2>3, SumOfOneMore, SMTT(20)
    <2> QED BY <2>1, <2>2, <2>4 DEF Total
  <1>5. ASSUME out # <<>>
        PROVE  /\ Total(Tail(out)) = Total(out) - Head(out)
               /\ Head(out) \in Nat \ {0}
               /\ Tail(out) \in Seq(Nat \ {0})
               /\ Len(Tail(out)) = Len(out) - 1
    <2>1. PICK n \in Nat : Len(out) = n + 1
      <3>1. Len(out) # 0
        BY <1>5, EmptySeq
      <3>2. Len(out) - 1 \in Nat /\ Len(out) = (Len(out) - 1) + 1
        BY <1>1, <3>1
      <3> QED BY <3>2
    <2>2. /\ Tail(out) \in Seq(Nat \ {0}) /\ Len(Tail(out)) = n
          /\ \A i \in 1 .. n : Tail(out)[i] = out[i + 1]
          /\ Head(out) = out[1] /\ out[1] \in Nat \ {0}
      BY <1>5, <2>1
    <2>3. Shifted(Tail(out), out, n)
      BY <1>1, <2>1, <2>2 DEF Shifted
    <2>4. Total(out) = Head(out) + Total(Tail(out)) /\ Total(Tail(out)) \in Int
      BY <2>2, <2>3, SumOfShifted DEF Total
    <2> QED BY <2>1, <2>2, <2>4
  <1> QED BY <1>3, <1>4, <1>5

\* An empty queue has no bytes.
LEMMA TotalOfNothing == Total(<<>>) = 0
  <1>1. DOMAIN <<>> = {}
    OBVIOUS
  <1> QED BY <1>1, SumOfNothing DEF Total

\* A connection that does not exist holds nothing.
LEMMA NoConnectionInv == ConnInv(NoConnection)
  <1>1. <<>> \in Seq(Nat \ {0}) /\ Len(<<>>) = 0
    OBVIOUS
  <1> QED BY <1>1, TotalOfNothing, ConnectionAssumption
          DEF ConnInv, NoConnection, Connections

\* Asking for a close changes no budget.
LEMMA BeginCloseInv ==
    ASSUME NEW c, ConnInv(c)
    PROVE  ConnInv(BeginClose(c)) /\ BeginClose(c).held = c.held
  <1>1. CASE c.closing \notin {"no", "asked"}
    BY <1>1 DEF BeginClose
  <1>2. CASE c.closing \in {"no", "asked"}
    <2>1. PICK d : d = [c EXCEPT !.closed = TRUE, !.closing = "new"]
      OBVIOUS
    <2>2. /\ d \in Connections /\ d.frame = c.frame /\ d.out = c.out
          /\ d.bytes = c.bytes /\ d.frames = c.frames
          /\ d.reader = c.reader /\ d.writer = c.writer /\ d.held = c.held
          /\ d.closed /\ d.closing = "new"
      BY <2>1 DEF ConnInv, Connections
    <2>3. ConnInv(d)
      BY <2>2 DEF ConnInv
    <2> QED BY <1>2, <2>1, <2>2, <2>3 DEF BeginClose
  <1> QED BY <1>1, <1>2

\* Nor does marking a peer that is to be reaped.
LEMMA MarkedInv ==
    ASSUME NEW c, ConnInv(c)
    PROVE  ConnInv(Marked(c)) /\ Marked(c).held = c.held
  <1>1. CASE c.closed
    BY <1>1 DEF Marked
  <1>2. CASE ~c.closed
    <2>1. PICK d : d = [c EXCEPT !.closed = TRUE, !.closing = "asked"]
      OBVIOUS
    <2>2. /\ d \in Connections /\ d.frame = c.frame /\ d.out = c.out
          /\ d.bytes = c.bytes /\ d.frames = c.frames
          /\ d.reader = c.reader /\ d.writer = c.writer /\ d.held = c.held
          /\ d.closed /\ d.closing = "asked"
      BY <2>1 DEF ConnInv, Connections
    <2>3. ConnInv(d)
      BY <2>2 DEF ConnInv
    <2> QED BY <1>2, <2>1, <2>2, <2>3 DEF Marked
  <1> QED BY <1>1, <1>2

\* A cancelled task keeps what it holds until it ends.
LEMMA CancelTasksInv ==
    ASSUME NEW c, ConnInv(c), c.closing = "new"
    PROVE  ConnInv(CancelTasks(c)) /\ CancelTasks(c).held = c.held
  BY ZenonT(40) DEF ConnInv, CancelTasks, Connections, TasksEnded

\* When both tasks have ended, the cleanup gives back the whole queue.
LEMMA DiscardedInv ==
    ASSUME NEW c, ConnInv(c), c.closing = "tasks", TasksEnded(c)
    PROVE  ConnInv(Discarded(c)) /\ Discarded(c).held = c.held
  <1>1. c.frame = 0 /\ c.frames = Len(c.out) /\ c.bytes = Total(c.out)
    <2>1. c.writer \in {"none", "ended"} /\ c.frame \in Nat /\ c.out \in Seq(Nat \ {0})
      BY DEF TasksEnded, ConnInv, Connections
    <2>2. Total(c.out) \in Int /\ Len(c.out) \in Nat
      BY <2>1, TotalFacts
    <2>3. ~(c.frame > 0)
      BY <2>1 DEF ConnInv
    <2>4. c.frame = 0
      BY <2>1, <2>3
    <2> QED BY <2>2, <2>3, <2>4 DEF ConnInv
  <1>2. Total(c.out) \in Int /\ Len(c.out) \in Nat /\ c \in Connections
    BY TotalFacts DEF ConnInv, Connections
  <1>3. <<>> \in Seq(Nat \ {0}) /\ Len(<<>>) = 0
    OBVIOUS
  <1>4. PICK d : d = Discarded(c)
    OBVIOUS
  <1>5. /\ d \in Connections /\ d.frames = 0 /\ d.bytes = 0 /\ d.out = <<>> /\ d.frame = 0
        /\ d.reader = c.reader /\ d.writer = c.writer /\ d.held = c.held
        /\ d.closed = c.closed /\ d.closing = "socket"
    <2>1. c.frames - Len(c.out) = 0 /\ c.bytes - Total(c.out) = 0
      BY <1>1, <1>2
    <2>2. PICK empty \in Seq(Nat \ {0}) : empty = <<>>
      BY <1>3
    <2>3. d = [c EXCEPT !.closing = "socket", !.out = empty, !.frames = 0, !.bytes = 0]
      BY <1>4, <2>1, <2>2 DEF Discarded
    <2>4. d.out = empty
      BY <1>2, <2>3 DEF Connections
    <2>5. d \in Connections /\ d.frames = 0 /\ d.bytes = 0 /\ d.frame = c.frame
      <3>1. empty \in Seq(Nat \ {0}) /\ 0 \in Int
        BY <2>2
      <3> QED BY <1>2, <2>3, <3>1 DEF Connections
    <2>6. /\ d.reader = c.reader /\ d.writer = c.writer /\ d.held = c.held
          /\ d.closed = c.closed /\ d.closing = "socket"
      BY <1>2, <2>3 DEF Connections
    <2>7. d.out = <<>> /\ d.frame = 0
      BY <1>1, <2>2, <2>4, <2>5
    <2> QED BY <2>5, <2>6, <2>7
  <1>6. ConnInv(d)
    BY <1>3, <1>5, TotalOfNothing, ConnectionAssumption DEF ConnInv, TasksEnded
  <1> QED BY <1>4, <1>5, <1>6

\* A frame is counted when it is queued, or the connection is closed.
LEMMA SendInv ==
    ASSUME NEW c, ConnInv(c), NEW size \in Nat \ {0}
    PROVE  ConnInv(Send(c, size)) /\ Send(c, size).held = c.held
  <1>1. CASE c.closed
    BY <1>1 DEF Send
  <1>2. CASE ~c.closed /\ Full(c, size)
    BY <1>2, BeginCloseInv DEF Send
  <1>3. CASE ~c.closed /\ ~Full(c, size)
    <2>1. c.out \in Seq(Nat \ {0}) /\ c.frames \in Int /\ c.bytes \in Int /\ c.frame \in Nat
      BY DEF ConnInv, Connections
    <2>0. c \in Connections
      BY DEF ConnInv
    <2>2. /\ Append(c.out, size) \in Seq(Nat \ {0})
          /\ Len(Append(c.out, size)) = Len(c.out) + 1 /\ Len(c.out) \in Nat
      BY <2>1
    <2>3. Total(Append(c.out, size)) = Total(c.out) + size /\ Total(c.out) \in Int
      BY <2>1, TotalFacts
    <2>4. c.frames + 1 <= outbound_max_frames /\ c.bytes + size <= outbound_max_bytes
      BY <1>3, <2>1, ConnectionAssumption DEF Full
    <2>5. PICK d : d = [c EXCEPT !.out = Append(@, size), !.frames = @ + 1,
                                 !.bytes = @ + size]
      OBVIOUS
    <2>6. /\ d \in Connections
          /\ d.out = Append(c.out, size) /\ d.frames = c.frames + 1
          /\ d.bytes = c.bytes + size /\ d.frame = c.frame
          /\ d.reader = c.reader /\ d.writer = c.writer /\ d.held = c.held
          /\ d.closed = c.closed /\ d.closing = c.closing
      <3>0. PICK out : out = Append(c.out, size)
        OBVIOUS
      <3>1. PICK fs \in Int, bs \in Int :
                fs = c.frames + 1 /\ bs = c.bytes + size
        BY <2>1
      <3>2. d = [c EXCEPT !.out = out, !.frames = fs, !.bytes = bs]
        BY <2>5, <3>0, <3>1
      <3> QED BY <2>0, <2>2, <3>0, <3>1, <3>2 DEF Connections
    <2>7. ConnInv(d)
      <3>1. /\ d.frame = 0 => d.frames = Len(d.out)
          /\ d.frame > 0 => d.frames = Len(d.out) + 1
        BY <2>1, <2>2, <2>6 DEF ConnInv
      <3>2. d.bytes = Total(d.out) + d.frame
        BY <2>1, <2>3, <2>6 DEF ConnInv
      <3>3. d.frames <= outbound_max_frames /\ d.bytes <= outbound_max_bytes
        BY <2>4, <2>6
      <3>4. d.closing = "no"
        BY <1>3, <2>6 DEF ConnInv
      <3> QED BY <2>6, <3>1, <3>2, <3>3, <3>4 DEF ConnInv
    <2> QED BY <1>3, <2>5, <2>6, <2>7 DEF Send
  <1> QED BY <1>1, <1>2, <1>3

\* The connection _attach starts.
LEMMA AttachInv ==
    ASSUME NEW size \in Nat \ {0}
    PROVE  LET c == Started(Send(NoConnection, size))
           IN  ConnInv(c) /\ c.held = 0
  <1>1. PICK c : c = Send(NoConnection, size)
    OBVIOUS
  <1>2. ConnInv(c) /\ c.held = 0
    BY <1>1, NoConnectionInv, SendInv DEF NoConnection
  <1>3. c.frame = 0
    BY <1>1 DEF Send, BeginClose, NoConnection
  <1>4. ConnInv(Started(c)) /\ Started(c).held = 0
    <2>1. CASE c.closed
      BY <1>2, <2>1 DEF Started
    <2>2. CASE ~c.closed
      <3>1. PICK d : d = [c EXCEPT !.reader = "prefix", !.writer = "head"]
        OBVIOUS
      <3>2. /\ d \in Connections /\ d.frame = c.frame /\ d.out = c.out
            /\ d.bytes = c.bytes /\ d.frames = c.frames
            /\ d.reader = "prefix" /\ d.writer = "head" /\ d.held = c.held
            /\ d.closed = c.closed /\ d.closing = c.closing
        BY <1>2, <3>1 DEF ConnInv, Connections
      <3>3. d.closing = "no"
        BY <1>2, <2>2, <3>2 DEF ConnInv
      <3>4. ConnInv(d)
        BY <1>2, <1>3, <3>2, <3>3 DEF ConnInv
      <3> QED BY <1>2, <2>2, <3>1, <3>2, <3>4 DEF Started
    <2> QED BY <2>1, <2>2
  <1> QED BY <1>1, <1>4

\* A task that ends asks for the cleanup.
LEMMA EndedInv ==
    ASSUME NEW c, ConnInv(c), NEW e \in BOOLEAN
    PROVE  ConnInv(Ended(c, e)) /\ Ended(c, e).held = c.held
  <1>1. PICK d : d = [c EXCEPT !.error = @ \/ e]
    OBVIOUS
  <1>2. ConnInv(d) /\ d.held = c.held
    BY <1>1 DEF ConnInv, Connections, TasksEnded
  <1> QED BY <1>1, <1>2, BeginCloseInv DEF Ended

\* The reader goes on or ends.
Reads(c, reader, held) == [c EXCEPT !.reader = reader, !.held = held]

\* The reader reserves and gives back at its own awaits only.
LEMMA ReaderInv ==
    ASSUME NEW c, ConnInv(c), NEW held \in Nat,
           NEW reader \in {"prefix", "body", "ended"},
           c.reader \notin {"none", "ended"},
           reader = "body" => held > 0, reader # "body" => held = 0
    PROVE  ConnInv(Reads(c, reader, held)) /\ Reads(c, reader, held).held = held
  <1>1. PICK d : d = Reads(c, reader, held)
    OBVIOUS
  <1>2. /\ d \in Connections /\ d.frame = c.frame /\ d.out = c.out
        /\ d.bytes = c.bytes /\ d.frames = c.frames
        /\ d.reader = reader /\ d.writer = c.writer /\ d.held = held
        /\ d.closed = c.closed /\ d.closing = c.closing
    BY <1>1 DEF Reads, ConnInv, Connections
  <1>3. d.closing \notin {"socket", "done"}
    BY <1>2 DEF ConnInv, TasksEnded
  <1>4. ConnInv(d)
    BY <1>2, <1>3 DEF ConnInv
  <1> QED BY <1>1, <1>2, <1>4

\* The writer gives back the frame in its hands.
LEMMA WrittenInv ==
    ASSUME NEW c, ConnInv(c), c.writer \in {"drain", "cancelled"},
           NEW next \in {"head", "ended"}
    PROVE  ConnInv(Written(c, next)) /\ Written(c, next).held = c.held
  <1>1. c.out \in Seq(Nat \ {0}) /\ c.frames \in Int /\ c.bytes \in Int /\ c.frame \in Nat
    BY DEF ConnInv, Connections
  <1>2. Total(c.out) \in Int /\ Len(c.out) \in Nat /\ c \in Connections
    BY <1>1, TotalFacts DEF ConnInv
  <1>3. PICK d : d = Written(c, next)
    OBVIOUS
  <1>4. /\ d \in Connections /\ d.frame = 0 /\ d.out = c.out /\ d.bytes = c.bytes - c.frame
        /\ d.frames = (IF c.frame > 0 THEN c.frames - 1 ELSE c.frames)
        /\ d.reader = c.reader /\ d.writer = next /\ d.held = c.held
        /\ d.closed = c.closed /\ d.closing = c.closing
    <2>1. PICK fs \in Int, bs \in Int :
              /\ fs = (IF c.frame > 0 THEN c.frames - 1 ELSE c.frames)
              /\ bs = c.bytes - c.frame
      BY <1>1
    <2>2. d = [c EXCEPT !.writer = next, !.frame = 0, !.bytes = bs, !.frames = fs]
      BY <1>3, <2>1 DEF Written
    <2> QED BY <1>2, <2>1, <2>2 DEF Connections
  <1>5. ConnInv(d)
    <2>1. /\ d.frame = 0 => d.frames = Len(d.out)
          /\ d.frame > 0 => d.frames = Len(d.out) + 1
      BY <1>1, <1>2, <1>4 DEF ConnInv
    <2>2. d.bytes = Total(d.out) + d.frame
      BY <1>1, <1>2, <1>4 DEF ConnInv
    <2>3. d.frames <= outbound_max_frames /\ d.bytes <= outbound_max_bytes
      BY <1>1, <1>4, ConnectionAssumption DEF ConnInv
    <2>4. d.closing \notin {"socket", "done"}
      BY <1>4 DEF ConnInv, TasksEnded
    <2> QED BY <1>4, <2>1, <2>2, <2>3, <2>4 DEF ConnInv
  <1> QED BY <1>3, <1>4, <1>5

\* A frame the writer takes from the queue stays counted.
LEMMA TakeInv ==
    ASSUME NEW c, ConnInv(c), c.writer \in {"head", "get"}, c.out # <<>>
    PROVE  ConnInv(Take(c)) /\ Take(c).held = c.held
  <1>1. c.out \in Seq(Nat \ {0}) /\ c.frames \in Int /\ c.bytes \in Int
    BY DEF ConnInv, Connections
  <1>2. /\ Total(c.out) \in Int
        /\ Total(Tail(c.out)) = Total(c.out) - Head(c.out)
        /\ Head(c.out) \in Nat \ {0}
        /\ Tail(c.out) \in Seq(Nat \ {0})
        /\ Len(Tail(c.out)) = Len(c.out) - 1
    BY <1>1, TotalFacts
  <1>3. Len(c.out) \in Nat /\ c \in Connections
    BY <1>1 DEF ConnInv
  <1>4. PICK d : d = Take(c)
    OBVIOUS
  <1>5. /\ d \in Connections /\ d.frame = Head(c.out) /\ d.out = Tail(c.out)
        /\ d.bytes = c.bytes /\ d.frames = c.frames
        /\ d.reader = c.reader /\ d.writer = "drain" /\ d.held = c.held
        /\ d.closed = c.closed /\ d.closing = c.closing
    BY <1>1, <1>2, <1>3, <1>4 DEF Take, Connections
  <1>6. c.frame = 0
    BY DEF ConnInv, Connections
  <1>7. ConnInv(d)
    <2>1. /\ d.frame = 0 => d.frames = Len(d.out)
          /\ d.frame > 0 => d.frames = Len(d.out) + 1
      BY <1>1, <1>2, <1>3, <1>5, <1>6 DEF ConnInv
    <2>2. d.bytes = Total(d.out) + d.frame
      BY <1>1, <1>2, <1>5, <1>6 DEF ConnInv
    <2>3. d.closing \notin {"socket", "done"}
      BY <1>5 DEF ConnInv, TasksEnded
    <2> QED BY <1>5, <2>1, <2>2, <2>3 DEF ConnInv
  <1> QED BY <1>4, <1>5, <1>7

\* Every step of the writer keeps the connection's invariant.
LEMMA WriterInv ==
    ASSUME NEW c, ConnInv(c), NEW d \in WriterSteps(c)
    PROVE  ConnInv(d) /\ d.held = c.held
  <1>1. CASE c.writer = "head" /\ c.closed
    <2>1. PICK e : e = [c EXCEPT !.writer = "ended"]
      OBVIOUS
    <2>2. ConnInv(e) /\ e.held = c.held
      BY <1>1, <2>1 DEF ConnInv, Connections, TasksEnded
    <2>3. d = Ended(e, FALSE)
      BY <1>1, <2>1 DEF WriterSteps
    <2> QED BY <2>2, <2>3, EndedInv
  <1>2. CASE c.writer = "head" /\ ~c.closed /\ c.out = <<>>
    <2>1. d = [c EXCEPT !.writer = "get"]
      BY <1>2 DEF WriterSteps
    <2> QED BY <1>2, <2>1 DEF ConnInv, Connections, TasksEnded
  <1>3. CASE c.writer \in {"head", "get"} /\ c.out # <<>> /\ d = Take(c)
    BY <1>3, TakeInv
  <1>4. CASE c.writer = "drain"
    <2>1. d = Written(c, "head") \/ \E e \in BOOLEAN : d = Ended(Written(c, "ended"), e)
      BY <1>4 DEF WriterSteps
    <2> QED BY <1>4, <2>1, WrittenInv, EndedInv
  <1>5. CASE c.writer = "cancelled"
    <2>1. d = Written(c, "ended")
      BY <1>5 DEF WriterSteps
    <2> QED BY <1>5, <2>1, WrittenInv
  <1> QED BY <1>1, <1>2, <1>3, <1>4, <1>5 DEF WriterSteps

-----------------------------------------------------------------------------
(* The invariant.                                                            *)

QueuedEvents ==
    [kind : {"call", "remote", "tick"}, from : Calls \cup Peers \cup {"timer"},
     size : Nat \ {0}]

TypeInv ==
    /\ queue \in Seq(QueuedEvents)
    /\ events \in Int /\ bytes \in Int /\ ticking \in BOOLEAN
    /\ call \in [Calls -> {"no", "waiting", "cancelled", "ok", "error", "closed"}]

ConnsInv ==
    /\ conn \in [Peers -> Connections]
    /\ \A p \in Peers : ConnInv(conn[p])

\* What is reserved is what is queued and what the readers hold.
BudgetInv ==
    /\ events = Len(queue) + Cardinality(Holding)
    /\ bytes = TotalSize + HeldSize
    /\ events <= inbound_max_events /\ bytes <= inbound_max_bytes

\* _tick_queued tells whether there is a tick in the queue, never two.
TickInv ==
    /\ \A i \in DOMAIN queue : queue[i].kind = "tick" => ticking
    /\ \A i, j \in DOMAIN queue :
          queue[i].kind = "tick" /\ queue[j].kind = "tick" => i = j
    /\ ticking => \E i \in DOMAIN queue : queue[i].kind = "tick"

\* The call of a queued event is not answered yet, and queued only once.
CallInv ==
    /\ \A i \in DOMAIN queue :
          queue[i].kind = "call" =>
              queue[i].from \in Calls /\ call[queue[i].from] \in {"waiting", "cancelled"}
    /\ \A i, j \in DOMAIN queue :
          /\ queue[i].kind = "call" /\ queue[j].kind = "call"
          /\ queue[i].from = queue[j].from
          => i = j
    /\ AnswersAreTrue

IInv == TypeInv /\ ConnsInv /\ BudgetInv /\ TickInv /\ CallInv

-----------------------------------------------------------------------------
(* Sums over the queue and over the readers.                                 *)

SizeOf(q) == SumFunction([i \in DOMAIN q |-> q[i].size])

\* The bytes of a queue of events as it grows and shrinks.
LEMMA SizeFacts ==
    ASSUME NEW q \in Seq(QueuedEvents)
    PROVE  /\ SizeOf(q) \in Int
           /\ \A e \in QueuedEvents : SizeOf(Append(q, e)) = SizeOf(q) + e.size
           /\ q # <<>> => SizeOf(Tail(q)) = SizeOf(q) - Head(q).size
  <1>1. PICK f : f = [i \in DOMAIN q |-> q[i].size]
    OBVIOUS
  <1>2. /\ DOMAIN f = 1 .. Len(q) /\ DOMAIN q = 1 .. Len(q) /\ Len(q) \in Nat
        /\ \A i \in DOMAIN f : f[i] = q[i].size /\ f[i] \in Int
    <2>1. DOMAIN q = 1 .. Len(q) /\ Len(q) \in Nat /\ \A i \in DOMAIN q : q[i] \in QueuedEvents
      OBVIOUS
    <2>2. \A e \in QueuedEvents : e.size \in Int
      BY DEF QueuedEvents
    <2> QED BY <1>1, <2>1, <2>2
  <1>3. IsFiniteSet(DOMAIN f)
    BY <1>2, FS_Interval
  <1>4. SizeOf(q) = SumFunction(f) /\ SumFunction(f) \in Int
    BY <1>1, <1>2, <1>3, SumType DEF SizeOf
  <1>5. ASSUME NEW e \in QueuedEvents PROVE SizeOf(Append(q, e)) = SizeOf(q) + e.size
    <2>1. PICK r : r = Append(q, e)
      OBVIOUS
    <2>2. PICK h : h = [i \in DOMAIN r |-> r[i].size]
      OBVIOUS
    <2>3. /\ DOMAIN r = DOMAIN f \cup {Len(q) + 1} /\ Len(q) + 1 \notin DOMAIN f
          /\ \A i \in DOMAIN f : r[i] = q[i]
          /\ r[Len(q) + 1] = e
      BY <1>2, <2>1
    <2>4. /\ DOMAIN h = DOMAIN f \cup {Len(q) + 1}
          /\ \A i \in DOMAIN f : h[i] = f[i]
          /\ h[Len(q) + 1] = e.size
      BY <1>2, <2>2, <2>3
    <2>5. e.size \in Int
      BY DEF QueuedEvents
    <2>6. SumFunction(h) = SumFunction(f) + h[Len(q) + 1]
      <3>1. PICK k : k = Len(q) + 1
        OBVIOUS
      <3>2. /\ k \notin DOMAIN f /\ DOMAIN h = DOMAIN f \cup {k} /\ h[k] \in Int
            /\ \A i \in DOMAIN f : f[i] \in Int /\ h[i] = f[i]
        BY <1>2, <2>3, <2>4, <2>5, <3>1
      <3>3. SumFunction(h) = SumFunction(f) + h[k]
        BY <1>3, <3>2, SumOfOneMore
      <3> QED BY <3>1, <3>3
    <2> QED BY <1>4, <2>1, <2>2, <2>4, <2>6 DEF SizeOf
  <1>6. ASSUME q # <<>> PROVE SizeOf(Tail(q)) = SizeOf(q) - Head(q).size
    <2>1. Len(q) - 1 \in Nat /\ Len(q) = (Len(q) - 1) + 1
      <3>1. Len(q) # 0
        BY <1>6, EmptySeq
      <3> QED BY <1>2, <3>1
    <2>2. PICK n \in Nat : n = Len(q) - 1
      BY <2>1
    <2>3. PICK r : r = Tail(q)
      OBVIOUS
    <2>4. PICK h : h = [i \in DOMAIN r |-> r[i].size]
      OBVIOUS
    <2>5. /\ DOMAIN r = 1 .. n
          /\ \A i \in 1 .. n : r[i] = q[i + 1]
          /\ Head(q) = q[1]
      BY <1>6, <2>1, <2>2, <2>3
    <2>6. DOMAIN f = 1 .. (n + 1) /\ 1 \in DOMAIN f /\ \A i \in 1 .. n : i + 1 \in DOMAIN f
      BY <1>2, <2>1, <2>2
    <2>7. \A i \in 1 .. n : h[i] = f[i + 1]
      BY <1>2, <2>4, <2>5, <2>6
    <2>8. DOMAIN h = 1 .. n
      BY <2>4, <2>5
    <2>9. Shifted(h, f, n)
      BY <1>2, <2>6, <2>7, <2>8 DEF Shifted
    <2>10. SumFunction(f) = f[1] + SumFunction(h) /\ SumFunction(h) \in Int
      BY <2>9, SumOfShifted
    <2>11. f[1] = Head(q).size /\ f[1] \in Int
      BY <1>2, <2>5, <2>6
    <2>12. SizeOf(Tail(q)) = SumFunction(h)
      BY <2>3, <2>4 DEF SizeOf
    <2> QED BY <1>4, <2>10, <2>11, <2>12
  <1> QED BY <1>4, <1>5, <1>6

\* An empty queue of events has no bytes.
LEMMA SizeOfNothing == SizeOf(<<>>) = 0
  <1>1. DOMAIN [i \in DOMAIN <<>> |-> <<>>[i].size] = {}
    OBVIOUS
  <1> QED BY <1>1, SumOfNothing DEF SizeOf

\* The readers' reservations are numbers.
LEMMA HeldFacts ==
    ASSUME ConnsInv
    PROVE  /\ HeldSize \in Int /\ IsFiniteSet(Holding) /\ Cardinality(Holding) \in Nat
           /\ \A p \in Peers : conn[p].held \in Nat
  <1>1. \A p \in Peers : conn[p].held \in Nat
    BY DEF ConnsInv, ConnInv, Connections
  <1>2. PICK f : f = [p \in Peers |-> conn[p].held]
    OBVIOUS
  <1>3. DOMAIN f = Peers /\ \A p \in DOMAIN f : f[p] \in Int
    BY <1>1, <1>2
  <1>4. SumFunction(f) \in Int
    BY <1>3, SumType, DispatcherAssumption
  <1>5. IsFiniteSet(Holding) /\ Cardinality(Holding) \in Nat
    BY DispatcherAssumption, FS_Subset, FS_CardinalityType DEF Holding
  <1> QED BY <1>1, <1>2, <1>4, <1>5 DEF HeldSize

\* Readers that hold nothing hold nothing together.
LEMMA ZeroHeld ==
    ASSUME ConnsInv, Holding = {}
    PROVE  HeldSize = 0
  <1>1. PICK f : f = [p \in Peers |-> conn[p].held]
    OBVIOUS
  <1>2. \A p \in Peers : conn[p].held = 0
    BY HeldFacts DEF Holding
  <1>3. DOMAIN f = Peers /\ \A p \in DOMAIN f : f[p] = 0
    BY <1>1, <1>2
  <1>4. SumFunction(f) = 0
    BY <1>3, SumOfZeros, DispatcherAssumption
  <1> QED BY <1>1, <1>4 DEF HeldSize

\* No reader takes or gives back anything.
LEMMA HeldSame ==
    ASSUME ConnsInv, ConnsInv', \A p \in Peers : conn'[p].held = conn[p].held
    PROVE  Holding' = Holding /\ HeldSize' = HeldSize
  <1>1. Holding' = Holding
    BY DEF Holding
  <1>2. [p \in Peers |-> conn'[p].held] = [p \in Peers |-> conn[p].held]
    OBVIOUS
  <1> QED BY <1>1, <1>2, Zenon DEF HeldSize

\* One reader does.
LEMMA HeldChanges ==
    ASSUME ConnsInv, NEW p \in Peers, NEW d, ConnInv(d),
           conn' = [conn EXCEPT ![p] = d]
    PROVE  /\ ConnsInv'
           /\ HeldSize' = HeldSize - conn[p].held + d.held
           /\ conn[p].held = 0 /\ d.held > 0 =>
                 Cardinality(Holding') = Cardinality(Holding) + 1
           /\ conn[p].held > 0 /\ d.held = 0 =>
                 Cardinality(Holding') = Cardinality(Holding) - 1
           /\ conn[p].held = d.held => Holding' = Holding
  <1>1. d \in Connections /\ d.held \in Nat
    BY DEF ConnInv, Connections
  <1>2. conn'[p] = d /\ \A q \in Peers \ {p} : conn'[q] = conn[q]
    BY DEF ConnsInv
  <1>3. ConnsInv'
    BY <1>1, <1>2 DEF ConnsInv
  <1>4. HeldSize' = HeldSize - conn[p].held + d.held
    <2>1. PICK f : f = [q \in Peers |-> conn[q].held]
      OBVIOUS
    <2>2. PICK h : h = [q \in Peers |-> conn'[q].held]
      OBVIOUS
    <2>3. /\ DOMAIN f = Peers /\ DOMAIN h = DOMAIN f /\ p \in DOMAIN f
          /\ \A q \in DOMAIN f : f[q] \in Int
          /\ \A q \in DOMAIN f \ {p} : h[q] = f[q]
          /\ f[p] = conn[p].held /\ h[p] = d.held /\ h[p] \in Int
      BY <1>1, <1>2, <2>1, <2>2, HeldFacts
    <2>4. SumFunction(h) = SumFunction(f) - f[p] + h[p]
      BY <2>3, SumOfChange, DispatcherAssumption
    <2> QED BY <2>1, <2>2, <2>3, <2>4 DEF HeldSize
  <1>5. IsFiniteSet(Holding) /\ Cardinality(Holding) \in Nat
    BY HeldFacts
  <1>6. CASE conn[p].held = 0 /\ d.held > 0
    <2>1. Holding' = Holding \cup {p} /\ p \notin Holding
      BY <1>2, <1>6 DEF Holding
    <2>2. Cardinality(Holding \cup {p}) = Cardinality(Holding) + 1
      BY <1>5, <2>1, FS_AddElement
    <2>3. Cardinality(Holding') = Cardinality(Holding) + 1
      BY <2>1, <2>2
    <2> QED BY <1>3, <1>4, <1>6, <2>3
  <1>7. CASE conn[p].held > 0 /\ d.held = 0
    <2>1. Holding' = Holding \ {p} /\ p \in Holding
      BY <1>2, <1>7 DEF Holding
    <2>2. Cardinality(Holding \ {p}) = Cardinality(Holding) - 1
      BY <1>5, <2>1, FS_RemoveElement
    <2>3. Cardinality(Holding') = Cardinality(Holding) - 1
      BY <2>1, <2>2
    <2> QED BY <1>3, <1>4, <1>7, <2>3
  <1>8. conn[p].held = d.held => Holding' = Holding
    BY <1>2 DEF Holding
  <1> QED BY <1>3, <1>4, <1>6, <1>7, <1>8

-----------------------------------------------------------------------------
(* The queue.                                                                *)

\* What an event more does to the queue.
LEMMA Appended ==
    ASSUME TypeInv, NEW e \in QueuedEvents, queue' = Append(queue, e)
    PROVE  /\ queue' \in Seq(QueuedEvents)
           /\ Len(queue') = Len(queue) + 1 /\ Len(queue) \in Nat
           /\ DOMAIN queue' = DOMAIN queue \cup {Len(queue) + 1}
           /\ Len(queue) + 1 \notin DOMAIN queue
           /\ \A i \in DOMAIN queue : queue'[i] = queue[i]
           /\ queue'[Len(queue) + 1] = e
           /\ TotalSize' = TotalSize + e.size /\ TotalSize \in Int
  <1>1. queue \in Seq(QueuedEvents)
    BY DEF TypeInv
  <1>2. TotalSize' = TotalSize + e.size /\ TotalSize \in Int
    <2>1. SizeOf(Append(queue, e)) = SizeOf(queue) + e.size /\ SizeOf(queue) \in Int
      BY <1>1, SizeFacts
    <2>2. TotalSize = SizeOf(queue) /\ TotalSize' = SizeOf(queue')
      BY DEF TotalSize, SizeOf
    <2> QED BY <2>1, <2>2
  <1>3. /\ Append(queue, e) \in Seq(QueuedEvents)
        /\ Len(Append(queue, e)) = Len(queue) + 1 /\ Len(queue) \in Nat
        /\ \A i \in 1 .. Len(queue) : Append(queue, e)[i] = queue[i]
        /\ Append(queue, e)[Len(queue) + 1] = e
        /\ DOMAIN queue = 1 .. Len(queue)
        /\ DOMAIN Append(queue, e) = 1 .. (Len(queue) + 1)
    BY <1>1
  <1>4. DOMAIN queue' = DOMAIN queue \cup {Len(queue) + 1} /\ Len(queue) + 1 \notin DOMAIN queue
    BY <1>3
  <1> QED BY <1>2, <1>3, <1>4

\* What a step that leaves the queue alone does to its total.
LEMMA QueueSame ==
    ASSUME TypeInv, queue' = queue
    PROVE  TotalSize' = TotalSize /\ TotalSize \in Int /\ Len(queue) \in Nat
  <1>1. queue \in Seq(QueuedEvents)
    BY DEF TypeInv
  <1>2. SizeOf(queue) \in Int /\ Len(queue) \in Nat
    BY <1>1, SizeFacts
  <1>3. TotalSize = SizeOf(queue) /\ TotalSize' = SizeOf(queue')
    BY DEF TotalSize, SizeOf
  <1> QED BY <1>2, <1>3

\* What taking the first event does to the queue.
LEMMA Popped ==
    ASSUME TypeInv, queue # <<>>, queue' = Tail(queue)
    PROVE  /\ queue' \in Seq(QueuedEvents)
           /\ Len(queue') = Len(queue) - 1 /\ Len(queue) \in Nat
           /\ \A i \in DOMAIN queue' : i + 1 \in DOMAIN queue /\ i + 1 # 1 /\ queue'[i] = queue[i + 1]
           /\ \A i \in DOMAIN queue : i # 1 => i - 1 \in DOMAIN queue' /\ (i - 1) + 1 = i
           /\ 1 \in DOMAIN queue /\ Head(queue) = queue[1] /\ Head(queue) \in QueuedEvents
           /\ TotalSize' = TotalSize - Head(queue).size /\ TotalSize \in Int
  <1>1. queue \in Seq(QueuedEvents)
    BY DEF TypeInv
  <1>2. TotalSize' = TotalSize - Head(queue).size /\ TotalSize \in Int
    <2>1. SizeOf(Tail(queue)) = SizeOf(queue) - Head(queue).size /\ SizeOf(queue) \in Int
      BY <1>1, SizeFacts
    <2>2. TotalSize = SizeOf(queue) /\ TotalSize' = SizeOf(queue')
      BY DEF TotalSize, SizeOf
    <2> QED BY <2>1, <2>2
  <1>3. Len(queue) \in Nat /\ Len(queue) # 0 /\ DOMAIN queue = 1 .. Len(queue)
    BY <1>1, EmptySeq
  <1>4. /\ queue' \in Seq(QueuedEvents) /\ Len(queue') = Len(queue) - 1
        /\ DOMAIN queue' = 1 .. (Len(queue) - 1)
        /\ \A i \in 1 .. (Len(queue) - 1) : queue'[i] = queue[i + 1]
        /\ Head(queue) = queue[1]
    BY <1>1, <1>3
  <1>5. 1 \in DOMAIN queue /\ Head(queue) \in QueuedEvents
    BY <1>1, <1>3, <1>4
  <1>6. \A i \in DOMAIN queue' : i + 1 \in DOMAIN queue /\ i + 1 # 1 /\ queue'[i] = queue[i + 1]
    BY <1>3, <1>4
  <1>7. \A i \in DOMAIN queue : i # 1 => i - 1 \in DOMAIN queue' /\ (i - 1) + 1 = i
    BY <1>3, <1>4
  <1> QED BY <1>2, <1>3, <1>4, <1>5, <1>6, <1>7

-----------------------------------------------------------------------------
(* Each step keeps the invariant.                                            *)

\* A node that was never started has empty books.
LEMMA InitInv == Init => IInv
  <1> SUFFICES ASSUME Init PROVE IInv
    OBVIOUS
  <1>1. queue \in Seq(QueuedEvents) /\ Len(queue) = 0 /\ DOMAIN queue = {}
    BY DEF Init
  <1>2. TypeInv
    <2>1. events \in Int /\ bytes \in Int
      BY DEF Init
    <2>2. /\ ticking \in BOOLEAN
          /\ call \in [Calls -> {"no", "waiting", "cancelled", "ok", "error", "closed"}]
      BY DEF Init
    <2> QED BY <1>1, <2>1, <2>2 DEF TypeInv
  <1>3. ConnsInv
    <2>1. NoConnection \in Connections
      BY NoConnectionInv DEF ConnInv
    <2> QED BY <2>1, NoConnectionInv DEF Init, ConnsInv
  <1>4. TotalSize = 0
    BY SizeOfNothing DEF Init, SizeOf, TotalSize
  <1>5. Holding = {} /\ Cardinality(Holding) = 0
    <2>1. \A p \in Peers : conn[p].held = 0
      BY DEF Init, NoConnection
    <2>2. Holding = {}
      BY <2>1 DEF Holding
    <2> QED BY <2>2, FS_EmptySet
  <1>6. HeldSize = 0
    BY ZeroHeld, <1>3, <1>5
  <1>7. BudgetInv
    BY <1>1, <1>4, <1>5, <1>6, DispatcherAssumption DEF Init, BudgetInv
  <1>8. TickInv /\ CallInv
    BY <1>1 DEF Init, TickInv, CallInv, AnswersAreTrue
  <1> QED BY <1>2, <1>3, <1>7, <1>8 DEF IInv

\* A step that leaves the queue, the budget and the calls alone, and no reader
\* takes or gives back anything.
LEMMA QuietInv ==
    ASSUME IInv, UNCHANGED <<inbound, callers>>, ConnsInv',
           \A p \in Peers : conn'[p].held = conn[p].held
    PROVE  IInv'
  <1>1. UNCHANGED <<queue, events, bytes, ticking, call, executed>>
    BY DEF inbound, callers
  <1>2. Holding' = Holding /\ HeldSize' = HeldSize
    BY HeldSame DEF IInv
  <1>3. TotalSize' = TotalSize
    BY <1>1 DEF TotalSize
  <1>4. BudgetInv'
    BY <1>1, <1>2, <1>3 DEF IInv, BudgetInv
  <1> QED BY <1>1, <1>4 DEF IInv, TypeInv, TickInv, CallInv, AnswersAreTrue

\* The same for one connection.
LEMMA QuietConnection ==
    ASSUME IInv, UNCHANGED <<inbound, callers>>, NEW p \in Peers, NEW d, ConnInv(d),
           d.held = conn[p].held, conn' = [conn EXCEPT ![p] = d]
    PROVE  IInv'
  <1>1. ConnsInv'
    BY HeldChanges DEF IInv
  <1>2. \A q \in Peers : conn'[q].held = conn[q].held
    BY DEF IInv, ConnsInv
  <1> QED BY <1>1, <1>2, QuietInv

\* Life cycle steps do not touch the queue, the calls or the connections.
LEMMA LifecycleInv ==
    ASSUME IInv, UNCHANGED <<inbound, callers, conn>>
    PROVE  IInv'
  <1>1. ConnsInv'
    BY DEF IInv, ConnsInv
  <1> QED BY <1>1, QuietInv

\* The steps of connections that touch neither the queue nor the calls.
LEMMA ConnectionInv ==
    ASSUME IInv, NEW p \in Peers,
           \/ Write(p) \/ CloseStep(p) \/ CloseEnds(p) \/ DialFails(p)
           \/ \E size \in Sizes : Attach(p, size)
    PROVE  IInv'
  <1>0. ConnInv(conn[p])
    BY DEF IInv, ConnsInv
  <1>1. CASE Write(p)
    <2>1. PICK d \in WriterSteps(conn[p]) : conn' = [conn EXCEPT ![p] = d]
      BY <1>1 DEF Write, Update
    <2> QED BY <1>0, <1>1, <2>1, WriterInv, QuietConnection DEF Write
  <1>2. CASE CloseStep(p)
    <2>1. PICK d : /\ ConnInv(d) /\ d.held = conn[p].held
                   /\ conn' = [conn EXCEPT ![p] = d]
      BY <1>0, <1>2, BeginCloseInv, CancelTasksInv, DiscardedInv DEF CloseStep, Update
    <2> QED BY <1>2, <2>1, QuietConnection DEF CloseStep
  <1>3. CASE CloseEnds(p)
    <2>1. PICK d : d = [conn[p] EXCEPT !.closing = "done"]
      OBVIOUS
    <2>2. ConnInv(d) /\ d.held = conn[p].held
      BY <1>0, <1>3, <2>1 DEF CloseEnds, ConnInv, Connections, TasksEnded
    <2> QED BY <1>3, <2>1, <2>2, QuietConnection DEF CloseEnds, Update
  <1>4. CASE DialFails(p)
    BY <1>0, <1>4, BeginCloseInv, QuietConnection DEF DialFails, Update
  <1>5. ASSUME NEW size \in Sizes, Attach(p, size) PROVE IInv'
    <2>1. size \in Nat \ {0}
      BY DispatcherAssumption
    <2>2. PICK d : d = Started(Send(NoConnection, size))
      OBVIOUS
    <2>3. ConnInv(d) /\ d.held = 0
      BY <2>1, <2>2, AttachInv
    <2>4. conn[p].held = 0
      BY <1>5 DEF Attach, NoConnection
    <2> QED BY <1>5, <2>2, <2>3, <2>4, QuietConnection DEF Attach
  <1> QED BY <1>1, <1>2, <1>3, <1>4, <1>5

\* Room is reserved, and an event takes it.
LEMMA EnqueueInv ==
    ASSUME IInv, NEW e \in QueuedEvents, MayReserve(e.size), Reserve(e.size),
           queue' = Append(queue, e), UNCHANGED conn
    PROVE  BudgetInv' /\ ConnsInv'
  <1>1. /\ Len(queue') = Len(queue) + 1 /\ Len(queue) \in Nat
        /\ TotalSize' = TotalSize + e.size /\ TotalSize \in Int
    BY Appended DEF IInv
  <1>2. ConnsInv' /\ Holding' = Holding /\ HeldSize' = HeldSize
    BY DEF IInv, ConnsInv, Holding, HeldSize
  <1>3. HeldSize \in Int /\ Cardinality(Holding) \in Nat
    BY HeldFacts DEF IInv
  <1>4. e.size \in Nat
    BY DEF QueuedEvents
  <1>5. events \in Int /\ bytes \in Int
    BY DEF IInv, TypeInv
  <1>6. events' = Len(queue') + Cardinality(Holding') /\ bytes' = TotalSize' + HeldSize'
    <2>1. events = Len(queue) + Cardinality(Holding) /\ bytes = TotalSize + HeldSize
      BY DEF IInv, BudgetInv
    <2>2. events' = events + 1 /\ bytes' = bytes + e.size
      BY DEF Reserve
    <2>3. Cardinality(Holding') = Cardinality(Holding)
      BY <1>2
    <2>4. events' = Len(queue') + Cardinality(Holding')
      BY <1>1, <1>3, <2>1, <2>2, <2>3
    <2>5. bytes' = TotalSize' + HeldSize'
      <3>1. /\ bytes = TotalSize + HeldSize /\ bytes' = bytes + e.size
            /\ TotalSize' = TotalSize + e.size /\ HeldSize' = HeldSize
        BY <1>1, <1>2, <2>1, <2>2
      <3>2. TotalSize \in Int /\ HeldSize \in Int /\ e.size \in Int
        BY <1>1, <1>3, <1>4
      <3> QED BY <3>1, <3>2
    <2> QED BY <2>4, <2>5
  <1>7. events' <= inbound_max_events /\ bytes' <= inbound_max_bytes
    BY <1>5, DispatcherAssumption DEF Reserve, MayReserve
  <1> QED BY <1>2, <1>6, <1>7 DEF BudgetInv

\* A caller enters the queue, or is refused.
LEMMA CallStepInv ==
    ASSUME IInv, NEW c \in Calls, NEW size \in Sizes, Call(c, size)
    PROVE  IInv'
  <1>1. PICK e : e = Event("call", c, size)
    OBVIOUS
  <1>2. size \in Nat \ {0}
    BY DispatcherAssumption
  <1>3. e \in QueuedEvents /\ e.kind = "call" /\ e.from = c /\ e.size = size
    BY <1>1, <1>2 DEF Event, QueuedEvents
  <1>4. /\ MayReserve(e.size) /\ Reserve(e.size) /\ queue' = Append(queue, e)
        /\ call[c] = "no" /\ call' = [call EXCEPT ![c] = "waiting"]
        /\ UNCHANGED <<ticking, executed, conn>>
    BY <1>1, <1>3 DEF Call
  <1>5. BudgetInv' /\ ConnsInv'
    BY <1>3, <1>4, EnqueueInv
  <1>6. /\ queue' \in Seq(QueuedEvents)
        /\ DOMAIN queue' = DOMAIN queue \cup {Len(queue) + 1}
        /\ Len(queue) + 1 \notin DOMAIN queue
        /\ \A i \in DOMAIN queue : queue'[i] = queue[i]
        /\ queue'[Len(queue) + 1] = e
    BY <1>3, <1>4, Appended DEF IInv
  <1>7. TypeInv'
    <2>1. events' \in Int /\ bytes' \in Int
      BY <1>2, <1>3, <1>4 DEF Reserve, IInv, TypeInv
    <2> QED BY <1>4, <1>6, <2>1 DEF IInv, TypeInv
  <1>8. TickInv'
    BY <1>3, <1>4, <1>6 DEF IInv, TickInv
  <1>9. CallInv'
    <2>1. \A i \in DOMAIN queue : queue[i].kind = "call" => queue[i].from # c
      BY <1>4 DEF IInv, CallInv
    <2>2. call'[c] = "waiting" /\ \A d \in Calls \ {c} : call'[d] = call[d]
      BY <1>4 DEF IInv, TypeInv
    <2>3. \A i \in DOMAIN queue' :
            queue'[i].kind = "call" =>
                queue'[i].from \in Calls /\ call'[queue'[i].from] \in {"waiting", "cancelled"}
      BY <1>3, <1>6, <2>1, <2>2 DEF IInv, CallInv
    <2>4. \A i, j \in DOMAIN queue' :
            /\ queue'[i].kind = "call" /\ queue'[j].kind = "call"
            /\ queue'[i].from = queue'[j].from
            => i = j
      BY <1>3, <1>6, <2>1 DEF IInv, CallInv
    <2>5. AnswersAreTrue'
      BY <1>4, <2>2 DEF IInv, CallInv, AnswersAreTrue
    <2> QED BY <2>3, <2>4, <2>5 DEF CallInv
  <1> QED BY <1>5, <1>7, <1>8, <1>9 DEF IInv

\* A caller that gives up leaves its command queued.
LEMMA CancelCallInv ==
    ASSUME IInv, NEW c \in Calls, CancelCall(c)
    PROVE  IInv'
  <1>1. /\ call[c] = "waiting" /\ call' = [call EXCEPT ![c] = "cancelled"]
        /\ UNCHANGED <<queue, events, bytes, ticking, executed, conn>>
    BY DEF CancelCall, inbound
  <1>2. TypeInv' /\ ConnsInv' /\ TickInv'
    BY <1>1 DEF IInv, TypeInv, ConnsInv, TickInv
  <1>3. BudgetInv'
    BY <1>1 DEF IInv, BudgetInv, Holding, TotalSize, HeldSize
  <1>4. CallInv'
    <2>1. call'[c] = "cancelled" /\ \A d \in Calls \ {c} : call'[d] = call[d]
      BY <1>1 DEF IInv, TypeInv
    <2> QED BY <1>1, <2>1 DEF IInv, CallInv, AnswersAreTrue
  <1> QED BY <1>2, <1>3, <1>4 DEF IInv

\* At most one tick is queued.
LEMMA QueueTickInv ==
    ASSUME IInv, QueueTick
    PROVE  IInv'
  <1>1. PICK e : e = Event("tick", "timer", 1)
    OBVIOUS
  <1>2. e \in QueuedEvents /\ e.kind = "tick" /\ e.size = 1
    BY <1>1 DEF Event, QueuedEvents
  <1>3. /\ MayReserve(e.size) /\ Reserve(e.size) /\ queue' = Append(queue, e)
        /\ ~ticking /\ ticking' = TRUE /\ UNCHANGED <<call, executed, conn>>
    BY <1>1, <1>2 DEF QueueTick, callers
  <1>4. BudgetInv' /\ ConnsInv'
    BY <1>2, <1>3, EnqueueInv
  <1>5. /\ queue' \in Seq(QueuedEvents)
        /\ DOMAIN queue' = DOMAIN queue \cup {Len(queue) + 1}
        /\ Len(queue) + 1 \notin DOMAIN queue
        /\ \A i \in DOMAIN queue : queue'[i] = queue[i]
        /\ queue'[Len(queue) + 1] = e
    BY <1>2, <1>3, Appended DEF IInv
  <1>6. TypeInv'
    <2>1. events' \in Int /\ bytes' \in Int
      BY <1>2, <1>3 DEF Reserve, IInv, TypeInv
    <2> QED BY <1>3, <1>5, <2>1 DEF IInv, TypeInv
  <1>7. TickInv'
    BY <1>2, <1>3, <1>5 DEF IInv, TickInv
  <1>8. CallInv'
    BY <1>2, <1>3, <1>5 DEF IInv, CallInv, AnswersAreTrue
  <1> QED BY <1>4, <1>6, <1>7, <1>8 DEF IInv

\* A reader reserves room for the frame whose length it has read.
LEMMA ReadPrefixInv ==
    ASSUME IInv, NEW p \in Peers, NEW size \in Sizes, ReadPrefix(p, size)
    PROVE  IInv'
  <1>1. ConnInv(conn[p])
    BY DEF IInv, ConnsInv
  <1>2. size \in Nat \ {0}
    BY DispatcherAssumption
  <1>3. conn[p].held = 0 /\ conn[p].reader \in {"prefix", "cancelled"}
    BY <1>1 DEF ReadPrefix, Awaits, ConnInv, Connections
  <1>4. UNCHANGED <<queue, ticking, call, executed>>
    BY DEF ReadPrefix, callers
  <1>5. CASE MayReserve(size)
    <2>1. PICK d : d = Reads(conn[p], "body", size)
      OBVIOUS
    <2>2. ConnInv(d) /\ d.held = size
      <3>1. size \in Nat /\ size > 0
        BY <1>2
      <3> QED BY <1>1, <1>3, <2>1, <3>1, ReaderInv
    <2>3. conn' = [conn EXCEPT ![p] = d] /\ Reserve(size)
      BY <1>5, <2>1 DEF ReadPrefix, Update, Reads
    <2>4. /\ ConnsInv' /\ HeldSize' = HeldSize - conn[p].held + d.held
          /\ Cardinality(Holding') = Cardinality(Holding) + 1
      <3>1. conn[p].held = 0 /\ d.held > 0
        BY <1>2, <1>3, <2>2
      <3> QED BY <2>2, <2>3, <3>1, HeldChanges DEF IInv
    <2>5. HeldSize \in Int /\ Cardinality(Holding) \in Nat
      BY HeldFacts DEF IInv
    <2>6. TotalSize' = TotalSize /\ TotalSize \in Int /\ Len(queue) \in Nat
      BY <1>4, QueueSame DEF IInv
    <2>7. events \in Int /\ bytes \in Int
      BY DEF IInv, TypeInv
    <2>8. events' = Len(queue') + Cardinality(Holding') /\ bytes' = TotalSize' + HeldSize'
      BY <1>2, <1>3, <1>4, <2>2, <2>3, <2>4, <2>5, <2>6, <2>7
         DEF Reserve, IInv, BudgetInv
    <2>9. events' <= inbound_max_events /\ bytes' <= inbound_max_bytes
      BY <1>5, <2>3, <2>7, DispatcherAssumption DEF Reserve, MayReserve
    <2>10. events' \in Int /\ bytes' \in Int
      BY <1>2, <2>3, <2>7 DEF Reserve
    <2> QED BY <1>4, <2>4, <2>8, <2>9, <2>10
            DEF IInv, TypeInv, BudgetInv, TickInv, CallInv, AnswersAreTrue
  <1>6. CASE ~MayReserve(size)
    <2>1. PICK d : d = [conn[p] EXCEPT !.reader = "ended"]
      OBVIOUS
    <2>2. ConnInv(d) /\ d.held = conn[p].held
      BY <1>1, <1>3, <2>1 DEF ConnInv, Connections, TasksEnded
    <2>3. ConnInv(Ended(d, FALSE)) /\ Ended(d, FALSE).held = conn[p].held
      BY <2>2, EndedInv
    <2>4. conn' = [conn EXCEPT ![p] = Ended(d, FALSE)] /\ UNCHANGED <<inbound, callers>>
      BY <1>6, <2>1 DEF ReadPrefix, Update, inbound, callers
    <2> QED BY <2>3, <2>4, QuietConnection
  <1> QED BY <1>5, <1>6

\* A reader gives back what it holds.
LEMMA GivesBackInv ==
    ASSUME IInv, NEW p \in Peers, NEW d, ConnInv(d), d.held = 0, GiveBack(p),
           conn' = [conn EXCEPT ![p] = d], UNCHANGED <<queue, ticking, callers>>
    PROVE  IInv'
  <1>1. conn[p].held \in Nat /\ HeldSize \in Int /\ Cardinality(Holding) \in Nat
    BY HeldFacts DEF IInv
  <1>2. UNCHANGED <<queue, ticking, call, executed>>
    BY DEF callers
  <1>3. CASE conn[p].held = 0
    <2>1. UNCHANGED <<inbound, callers>>
      BY <1>3 DEF GiveBack, inbound
    <2> QED BY <1>3, <2>1, QuietConnection
  <1>4. CASE conn[p].held > 0
    <2>1. Release(conn[p].held)
      BY <1>4 DEF GiveBack
    <2>2. /\ ConnsInv' /\ HeldSize' = HeldSize - conn[p].held
          /\ Cardinality(Holding') = Cardinality(Holding) - 1
      <3>1. /\ ConnsInv' /\ HeldSize' = HeldSize - conn[p].held + d.held
            /\ Cardinality(Holding') = Cardinality(Holding) - 1
        BY <1>4, HeldChanges DEF IInv
      <3> QED BY <1>1, <3>1
    <2>3. TotalSize' = TotalSize /\ TotalSize \in Int /\ Len(queue) \in Nat
      BY <1>2, QueueSame DEF IInv
    <2>4. events \in Int /\ bytes \in Int
      BY DEF IInv, TypeInv
    <2>5. events' = Len(queue') + Cardinality(Holding') /\ bytes' = TotalSize' + HeldSize'
      <3>1. events = Len(queue) + Cardinality(Holding) /\ bytes = TotalSize + HeldSize
        BY DEF IInv, BudgetInv
      <3>2. events' = events - 1 /\ bytes' = bytes - conn[p].held
        BY <2>1 DEF Release
      <3>3. Len(queue') = Len(queue)
        BY <1>2
      <3>4. events' = Len(queue') + Cardinality(Holding')
        BY <1>1, <2>2, <2>3, <3>1, <3>2, <3>3
      <3>5. bytes' = TotalSize' + HeldSize'
        <4>1. /\ bytes = TotalSize + HeldSize /\ bytes' = bytes - conn[p].held
              /\ TotalSize' = TotalSize /\ HeldSize' = HeldSize - conn[p].held
          BY <2>2, <2>3, <3>1, <3>2
        <4>2. TotalSize \in Int /\ HeldSize \in Int /\ conn[p].held \in Int
          BY <1>1, <2>3
        <4> QED BY <4>1, <4>2
      <3> QED BY <3>4, <3>5
    <2>6. events' <= inbound_max_events /\ bytes' <= inbound_max_bytes
      <3>1. events <= inbound_max_events /\ bytes <= inbound_max_bytes
        BY DEF IInv, BudgetInv
      <3>2. events' = events - 1 /\ bytes' = bytes - conn[p].held
        BY <2>1 DEF Release
      <3>3. inbound_max_events \in Nat /\ inbound_max_bytes \in Nat
        BY DispatcherAssumption
      <3> QED BY <1>1, <2>4, <3>1, <3>2, <3>3
    <2>7. events' \in Int /\ bytes' \in Int
      BY <1>1, <2>1, <2>4 DEF Release
    <2> QED BY <1>2, <2>2, <2>5, <2>6, <2>7
            DEF IInv, TypeInv, BudgetInv, TickInv, CallInv, AnswersAreTrue
  <1> QED BY <1>1, <1>3, <1>4

\* A reader that ends gives its reservation back.
LEMMA ReaderEndsInv ==
    ASSUME IInv, NEW p \in Peers,
           ReaderCancelled(p) \/ \E unexpected \in BOOLEAN : ReaderEnds(p, unexpected)
    PROVE  IInv'
  <1>1. ConnInv(conn[p])
    BY DEF IInv, ConnsInv
  <1>2. conn[p].reader \notin {"none", "ended"}
    BY DEF ReaderCancelled, ReaderEnds
  <1>3. PICK d : d = Reads(conn[p], "ended", 0)
    OBVIOUS
  <1>4. ConnInv(d) /\ d.held = 0
    BY <1>1, <1>2, <1>3, ReaderInv
  <1>5. CASE ReaderCancelled(p)
    BY <1>3, <1>4, <1>5, GivesBackInv DEF ReaderCancelled, Update, Reads
  <1>6. ASSUME NEW unexpected \in BOOLEAN, ReaderEnds(p, unexpected) PROVE IInv'
    <2>1. ConnInv(Ended(d, unexpected)) /\ Ended(d, unexpected).held = 0
      BY <1>4, EndedInv
    <2> QED BY <1>3, <1>6, <2>1, GivesBackInv DEF ReaderEnds, Update, Reads
  <1> QED BY <1>5, <1>6

\* A reader hands its reservation over to the event it queues.
LEMMA ReadBodyInv ==
    ASSUME IInv, NEW p \in Peers, ReadBody(p)
    PROVE  IInv'
  <1>1. ConnInv(conn[p])
    BY DEF IInv, ConnsInv
  <1>2. /\ conn[p].held \in Nat \ {0} /\ conn[p].held > 0
        /\ conn[p].reader \in {"body", "cancelled"}
    BY <1>1 DEF ReadBody, Awaits, ConnInv, Connections
  <1>3. PICK d : /\ ConnInv(d) /\ d.held = 0
                 /\ conn' = [conn EXCEPT ![p] = d]
    <2>1. CASE conn[p].closed
      <3>1. PICK c : c = Reads(conn[p], "ended", 0)
        OBVIOUS
      <3>2. ConnInv(c) /\ c.held = 0
        BY <1>1, <1>2, <3>1, ReaderInv
      <3>3. conn' = [conn EXCEPT ![p] = Ended(c, FALSE)]
        BY <2>1, <3>1 DEF ReadBody, Update, Reads
      <3> QED BY <3>2, <3>3, EndedInv
    <2>2. CASE ~conn[p].closed
      <3>1. PICK c : c = Reads(conn[p], "prefix", 0)
        OBVIOUS
      <3>2. ConnInv(c) /\ c.held = 0
        BY <1>1, <1>2, <3>1, ReaderInv
      <3> QED BY <2>2, <3>1, <3>2 DEF ReadBody, Update, Reads
    <2> QED BY <2>1, <2>2
  <1>4. CASE phase = "RUNNING"
    <2>1. PICK e : e = Event("remote", p, conn[p].held)
      OBVIOUS
    <2>2. e \in QueuedEvents /\ e.kind = "remote" /\ e.size = conn[p].held
      BY <1>2, <2>1 DEF Event, QueuedEvents
    <2>3. queue' = Append(queue, e) /\ UNCHANGED <<events, bytes, ticking, call, executed>>
      BY <1>4, <2>1 DEF ReadBody, callers
    <2>4. /\ queue' \in Seq(QueuedEvents)
          /\ Len(queue') = Len(queue) + 1 /\ Len(queue) \in Nat
          /\ DOMAIN queue' = DOMAIN queue \cup {Len(queue) + 1}
          /\ Len(queue) + 1 \notin DOMAIN queue
          /\ \A i \in DOMAIN queue : queue'[i] = queue[i]
          /\ queue'[Len(queue) + 1] = e
          /\ TotalSize' = TotalSize + e.size /\ TotalSize \in Int
      BY <2>2, <2>3, Appended DEF IInv
    <2>5. /\ ConnsInv' /\ HeldSize' = HeldSize - conn[p].held + d.held
          /\ Cardinality(Holding') = Cardinality(Holding) - 1
      BY <1>2, <1>3, HeldChanges DEF IInv
    <2>6. HeldSize \in Int /\ Cardinality(Holding) \in Nat
      BY HeldFacts DEF IInv
    <2>7. events \in Int /\ bytes \in Int
      BY DEF IInv, TypeInv
    <2>8. events' = Len(queue') + Cardinality(Holding') /\ bytes' = TotalSize' + HeldSize'
      <3>1. HeldSize' = HeldSize - conn[p].held /\ TotalSize' = TotalSize + conn[p].held
        BY <1>2, <1>3, <2>2, <2>4, <2>5, <2>6
      <3>2. events = Len(queue) + Cardinality(Holding) /\ bytes = TotalSize + HeldSize
        BY DEF IInv, BudgetInv
      <3>3. events' = events /\ bytes' = bytes
        BY <2>3
      <3>4. events' = Len(queue') + Cardinality(Holding')
        BY <2>4, <2>5, <2>6, <3>2, <3>3
      <3>5. bytes' = TotalSize' + HeldSize'
        <4>1. /\ bytes = TotalSize + HeldSize /\ bytes' = bytes
              /\ TotalSize' = TotalSize + conn[p].held
              /\ HeldSize' = HeldSize - conn[p].held
          BY <3>1, <3>2, <3>3
        <4>2. TotalSize \in Int /\ HeldSize \in Int /\ conn[p].held \in Int
          BY <1>2, <2>4, <2>6
        <4> QED BY <4>1, <4>2
      <3> QED BY <3>4, <3>5
    <2>9. BudgetInv'
      BY <2>3, <2>8 DEF IInv, BudgetInv
    <2>10. TypeInv' /\ TickInv' /\ CallInv'
      BY <2>2, <2>3, <2>4 DEF IInv, TypeInv, TickInv, CallInv, AnswersAreTrue
    <2> QED BY <2>5, <2>9, <2>10 DEF IInv
  <1>5. CASE phase # "RUNNING"
    <2>1. GiveBack(p) /\ UNCHANGED <<queue, ticking, callers>>
      BY <1>2, <1>5 DEF ReadBody, GiveBack
    <2> QED BY <1>3, <2>1, GivesBackInv
  <1> QED BY <1>4, <1>5

-----------------------------------------------------------------------------
(* The dispatcher and the cleanup.                                           *)

\* A connection that is given up holds nothing.
LEMMA ReapedInv ==
    ASSUME ConnsInv
    PROVE  /\ DOMAIN Reaped = Peers
           /\ \A p \in Peers : ConnInv(Reaped[p]) /\ Reaped[p].held = conn[p].held
  <1> SUFFICES ASSUME NEW p \in Peers
               PROVE  ConnInv(Reaped[p]) /\ Reaped[p].held = conn[p].held
    BY DEF Reaped
  <1>1. ConnInv(conn[p])
    BY DEF ConnsInv
  <1>2. CASE conn[p].closing = "done"
    <2>1. conn[p].held = 0
      BY <1>1, <1>2 DEF ConnInv, Connections, TasksEnded
    <2>2. Reaped[p] = NoConnection /\ NoConnection.held = 0
      BY <1>2 DEF Reaped, NoConnection
    <2> QED BY <2>1, <2>2, NoConnectionInv
  <1>3. CASE conn[p].closing # "done"
    BY <1>1, <1>3 DEF Reaped
  <1> QED BY <1>2, <1>3

\* Neither does a handler take from the readers.
LEMMA HandlesInv ==
    ASSUME ConnsInv, conn' = Reaped \/ \E bad : Handles(Reaped, bad)
    PROVE  ConnsInv' /\ \A p \in Peers : conn'[p].held = conn[p].held
  <1>1. /\ DOMAIN Reaped = Peers
        /\ \A p \in Peers : ConnInv(Reaped[p]) /\ Reaped[p].held = conn[p].held
    BY ReapedInv
  <1>2. CASE conn' = Reaped
    <2>1. conn' \in [Peers -> Connections]
      BY <1>1, <1>2 DEF ConnInv, Reaped
    <2> QED BY <1>1, <1>2, <2>1 DEF ConnsInv
  <1>3. ASSUME NEW bad, Handles(Reaped, bad)
        PROVE  ConnsInv' /\ \A p \in Peers : conn'[p].held = conn[p].held
    <2>1. PICK to \in SUBSET Peers : \E sends \in [to -> Sizes] :
              conn' = Handled(Reaped, sends, bad)
      BY <1>3 DEF Handles
    <2>2. PICK sends \in [to -> Sizes] : conn' = Handled(Reaped, sends, bad)
      BY <2>1
    <2>3. ASSUME NEW p \in Peers PROVE ConnInv(conn'[p]) /\ conn'[p].held = conn[p].held
      <3>1. PICK c : c = IF /\ Reaped[p] # NoConnection /\ phase = "RUNNING"
                            /\ p \in DOMAIN sends
                         THEN Send(Reaped[p], sends[p]) ELSE Reaped[p]
        OBVIOUS
      <3>2. p \in DOMAIN sends => sends[p] \in Nat \ {0}
        BY <2>2, DispatcherAssumption
      <3>3. ConnInv(c) /\ c.held = conn[p].held
        BY <1>1, <2>3, <3>1, <3>2, SendInv
      <3>4. conn'[p] = c \/ conn'[p] = Marked(c)
        BY <2>2, <3>1 DEF Handled
      <3> QED BY <3>3, <3>4, MarkedInv
    <2>4. conn' = [p \in Peers |-> conn'[p]]
      BY <2>2 DEF Handled
    <2>5. conn' \in [Peers -> Connections]
      BY <2>3, <2>4 DEF ConnInv
    <2> QED BY <2>3, <2>5 DEF ConnsInv
  <1> QED BY <1>2, <1>3

\* What a turn does to the call it takes.
Answers(c) ==
    \/ call[c] = "cancelled" /\ UNCHANGED <<call, executed>>
    \/ call' = [call EXCEPT ![c] = "ok"] /\ executed' = executed \cup {c}
    \/ call' = [call EXCEPT ![c] = "error"] /\ executed' \in {executed, executed \cup {c}}

\* What a turn changes, by the kind of its event.
LEMMA TurnFacts ==
    ASSUME NEW e \in QueuedEvents, Turn(e)
    PROVE  /\ conn' = Reaped \/ \E bad : Handles(Reaped, bad)
           /\ e.kind = "call" => Answers(e.from) /\ UNCHANGED ticking
           /\ e.kind = "remote" => UNCHANGED <<call, executed, ticking>>
           /\ e.kind = "tick" => UNCHANGED <<call, executed>> /\ ticking' = FALSE
  <1>1. CASE e.kind = "call"
    <2>1. TakeCall(e.from) /\ UNCHANGED ticking
      BY <1>1 DEF Turn
    <2>2. conn' = Reaped \/ \E bad : Handles(Reaped, bad)
      BY <2>1, Zenon DEF TakeCall
    <2>3. Answers(e.from)
      BY <2>1 DEF TakeCall, Answers, callers
    <2> QED BY <1>1, <2>1, <2>2, <2>3
  <1>2. CASE e.kind = "remote"
    <2>1. TakeFrame(e.from) /\ UNCHANGED <<ticking, callers>>
      BY <1>2 DEF Turn
    <2>2. conn' = Reaped \/ \E bad : Handles(Reaped, bad)
      BY <2>1, Zenon DEF TakeFrame
    <2> QED BY <1>2, <2>1, <2>2 DEF callers
  <1>3. CASE e.kind = "tick"
    <2>1. TakeTick /\ ticking' = FALSE /\ UNCHANGED callers
      BY <1>3 DEF Turn
    <2>2. \E bad : Handles(Reaped, bad)
      BY <2>1, Zenon DEF TakeTick
    <2> QED BY <1>3, <2>1, <2>2 DEF callers
  <1> QED BY <1>1, <1>2, <1>3 DEF QueuedEvents

\* A turn takes an event, answers it and gives its room back.
LEMMA DispatchInv ==
    ASSUME IInv, Dispatch
    PROVE  IInv'
  <1>1. PICK e : e = Head(queue)
    OBVIOUS
  <1>2. /\ queue # <<>> /\ queue' = Tail(queue) /\ Turn(e) /\ Release(e.size)
    BY <1>1 DEF Dispatch
  <1>3. /\ queue' \in Seq(QueuedEvents)
        /\ Len(queue') = Len(queue) - 1 /\ Len(queue) \in Nat
        /\ \A i \in DOMAIN queue' : i + 1 \in DOMAIN queue /\ i + 1 # 1 /\ queue'[i] = queue[i + 1]
        /\ \A i \in DOMAIN queue : i # 1 => i - 1 \in DOMAIN queue' /\ (i - 1) + 1 = i
        /\ 1 \in DOMAIN queue /\ e = queue[1] /\ e \in QueuedEvents
        /\ TotalSize' = TotalSize - e.size /\ TotalSize \in Int
    BY <1>1, <1>2, Popped DEF IInv
  <1>4. /\ conn' = Reaped \/ \E bad : Handles(Reaped, bad)
        /\ e.kind = "call" => Answers(e.from) /\ UNCHANGED ticking
        /\ e.kind = "remote" => UNCHANGED <<call, executed, ticking>>
        /\ e.kind = "tick" => UNCHANGED <<call, executed>> /\ ticking' = FALSE
    BY <1>2, <1>3, TurnFacts
  <1>5. ConnsInv' /\ \A p \in Peers : conn'[p].held = conn[p].held
    BY <1>4, HandlesInv DEF IInv
  <1>6. Holding' = Holding /\ HeldSize' = HeldSize
    BY <1>5, HeldSame DEF IInv
  <1>7. e.size \in Nat /\ e.kind \in {"call", "remote", "tick"}
    BY <1>3 DEF QueuedEvents
  <1>8. events \in Int /\ bytes \in Int /\ HeldSize \in Int /\ Cardinality(Holding) \in Nat
    BY HeldFacts DEF IInv, TypeInv
  <1>9. BudgetInv'
    <2>1. events = Len(queue) + Cardinality(Holding) /\ bytes = TotalSize + HeldSize
      BY DEF IInv, BudgetInv
    <2>a. events' = events - 1 /\ bytes' = bytes - e.size /\ e.size \in Nat
      BY <1>2, <1>7 DEF Release
    <2>b. /\ Len(queue') = Len(queue) - 1 /\ Len(queue) \in Nat
          /\ TotalSize' = TotalSize - e.size /\ TotalSize \in Int
          /\ Cardinality(Holding') = Cardinality(Holding) /\ HeldSize' = HeldSize
      BY <1>3, <1>6
    <2>2. events' = Len(queue') + Cardinality(Holding')
      BY <1>8, <2>1, <2>a, <2>b
    <2>3. bytes' = TotalSize' + HeldSize'
      <3>1. /\ bytes = TotalSize + HeldSize /\ bytes' = bytes - e.size
            /\ TotalSize' = TotalSize - e.size /\ HeldSize' = HeldSize
        BY <2>1, <2>a, <2>b
      <3>2. TotalSize \in Int /\ HeldSize \in Int /\ e.size \in Int
        BY <1>8, <2>a, <2>b
      <3> QED BY <3>1, <3>2
    <2>4. events' <= inbound_max_events /\ bytes' <= inbound_max_bytes
      <3>1. events <= inbound_max_events /\ bytes <= inbound_max_bytes
        BY DEF IInv, BudgetInv
      <3>2. inbound_max_events \in Nat /\ inbound_max_bytes \in Nat
        BY DispatcherAssumption
      <3> QED BY <1>8, <2>a, <3>1, <3>2
    <2> QED BY <2>2, <2>3, <2>4 DEF BudgetInv
  <1>10. TickInv'
    <2>1. CASE e.kind = "tick"
      <3>1. \A i \in DOMAIN queue' : queue'[i].kind # "tick"
        BY <1>3, <2>1 DEF IInv, TickInv
      <3> QED BY <1>4, <2>1, <3>1 DEF TickInv
    <2>2. CASE e.kind # "tick"
      <3>1. ticking' = ticking
        BY <1>4, <1>7, <2>2
      <3>2. \A i \in DOMAIN queue' : queue'[i].kind = "tick" => ticking
        BY <1>3 DEF IInv, TickInv
      <3>3. ASSUME NEW i \in DOMAIN queue', NEW j \in DOMAIN queue',
                   queue'[i].kind = "tick", queue'[j].kind = "tick"
            PROVE  i = j
        <4>1. i + 1 = j + 1
          BY <1>3, <3>3 DEF IInv, TickInv
        <4>2. i \in Int /\ j \in Int
          BY <1>3
        <4> QED BY <4>1, <4>2
      <3>4. ASSUME ticking PROVE \E i \in DOMAIN queue' : queue'[i].kind = "tick"
        <4>1. PICK i \in DOMAIN queue : queue[i].kind = "tick"
          BY <3>4 DEF IInv, TickInv
        <4>2. i # 1
          BY <1>3, <2>2, <4>1
        <4>3. i - 1 \in DOMAIN queue' /\ queue'[i - 1] = queue[i]
          BY <1>3, <4>2
        <4> QED BY <4>1, <4>3
      <3> QED BY <3>1, <3>2, <3>3, <3>4 DEF TickInv
    <2> QED BY <2>1, <2>2
  <1>11. \A i \in DOMAIN queue' :
            queue'[i].kind = "call" =>
               /\ queue'[i].from \in Calls
               /\ call[queue'[i].from] \in {"waiting", "cancelled"}
               /\ e.kind = "call" => queue'[i].from # e.from
    <2> SUFFICES ASSUME NEW i \in DOMAIN queue', queue'[i].kind = "call"
                 PROVE  /\ queue'[i].from \in Calls
                        /\ call[queue'[i].from] \in {"waiting", "cancelled"}
                        /\ e.kind = "call" => queue'[i].from # e.from
      OBVIOUS
    <2>1. PICK j \in DOMAIN queue : j = i + 1 /\ j # 1 /\ queue'[i] = queue[j]
      BY <1>3
    <2>2. queue[j].from \in Calls /\ call[queue[j].from] \in {"waiting", "cancelled"}
      BY <2>1 DEF IInv, CallInv
    <2>3. e.kind = "call" => queue[j].from # e.from
      BY <1>3, <2>1 DEF IInv, CallInv
    <2> QED BY <2>1, <2>2, <2>3
  <1>12. \A i, j \in DOMAIN queue' :
            /\ queue'[i].kind = "call" /\ queue'[j].kind = "call"
            /\ queue'[i].from = queue'[j].from
            => i = j
    <2> SUFFICES ASSUME NEW i \in DOMAIN queue', NEW j \in DOMAIN queue',
                        queue'[i].kind = "call", queue'[j].kind = "call",
                        queue'[i].from = queue'[j].from
                 PROVE  i = j
      OBVIOUS
    <2>1. i + 1 = j + 1
      BY <1>3 DEF IInv, CallInv
    <2>2. i \in Int /\ j \in Int
      BY <1>3
    <2> QED BY <2>1, <2>2
  <1>13. TypeInv' /\ CallInv'
    <2>0. events' \in Int /\ bytes' \in Int
      BY <1>2, <1>7, <1>8 DEF Release
    <2>1. CASE e.kind # "call"
      <3>1. UNCHANGED <<call, executed>>
        BY <1>4, <1>7, <2>1
      <3>2. ticking' \in BOOLEAN
        BY <1>4, <1>7, <2>1 DEF IInv, TypeInv
      <3> QED BY <1>3, <1>11, <1>12, <2>0, <3>1, <3>2
              DEF IInv, TypeInv, CallInv, AnswersAreTrue
    <2>2. CASE e.kind = "call"
      <3>1. Answers(e.from) /\ ticking' = ticking
        BY <1>4, <2>2
      <3>2. e.from \in Calls /\ call[e.from] \in {"waiting", "cancelled"}
        BY <1>3, <2>2 DEF IInv, CallInv
      <3>3. /\ call' \in [Calls -> {"no", "waiting", "cancelled", "ok", "error", "closed"}]
            /\ \A c \in Calls \ {e.from} : call'[c] = call[c] /\ (c \in executed' <=> c \in executed)
        BY <3>1, <3>2 DEF Answers, IInv, TypeInv
      <3>4. /\ call'[e.from] = "ok" => e.from \in executed'
            /\ e.from \in executed' => call'[e.from] \in {"ok", "error"}
        BY <3>1, <3>2 DEF Answers, IInv, TypeInv, CallInv, AnswersAreTrue
      <3>5. AnswersAreTrue'
        BY <3>3, <3>4 DEF IInv, CallInv, AnswersAreTrue
      <3>6. \A i \in DOMAIN queue' :
              queue'[i].kind = "call" =>
                 queue'[i].from \in Calls /\ call'[queue'[i].from] \in {"waiting", "cancelled"}
        BY <1>11, <2>2, <3>3
      <3>7. CallInv'
        BY <1>12, <3>5, <3>6 DEF CallInv
      <3> QED BY <1>3, <2>0, <3>1, <3>3, <3>7 DEF IInv, TypeInv
    <2> QED BY <2>1, <2>2
  <1> QED BY <1>5, <1>9, <1>10, <1>13 DEF IInv

\* The cleanup drains the queue and answers every call with an error.
LEMMA CleanupInv ==
    ASSUME IInv, Cleanup
    PROVE  IInv'
  <1>1. CASE CleanTasks
    BY <1>1, LifecycleInv DEF CleanTasks
  <1>2. CASE CleanPeers
    <2>1. \A p \in Peers : conn'[p] = conn[p] \/ conn'[p] = BeginClose(conn[p])
      BY <1>2 DEF CleanPeers
    <2>2. \A p \in Peers : ConnInv(conn'[p]) /\ conn'[p].held = conn[p].held
      BY <2>1, BeginCloseInv DEF IInv, ConnsInv
    <2>3. conn' = [p \in Peers |-> conn'[p]]
      BY <1>2 DEF CleanPeers
    <2>4. ConnsInv'
      BY <2>2, <2>3 DEF ConnsInv, ConnInv
    <2> QED BY <1>2, <2>2, <2>4, QuietInv DEF CleanPeers
  <1>3. CASE CleanRest
    <2>1. /\ queue' = <<>> /\ events' = events - Len(queue) /\ bytes' = bytes - TotalSize
          /\ ticking' = FALSE /\ call' = Answered /\ executed' = executed
          /\ conn' = [p \in Peers |-> NoConnection]
      BY <1>3 DEF CleanRest
    <2>2. \A p \in Peers : conn[p].held = 0
      <3> SUFFICES ASSUME NEW p \in Peers PROVE conn[p].held = 0
        OBVIOUS
      <3>1. CASE conn[p] = NoConnection
        BY <3>1 DEF NoConnection
      <3>2. CASE conn[p].closing = "done"
        <4>1. ConnInv(conn[p])
          BY DEF IInv, ConnsInv
        <4> QED BY <3>2, <4>1 DEF ConnInv, Connections, TasksEnded
      <3> QED BY <1>3, <3>1, <3>2 DEF CleanRest
    <2>3. ConnsInv' /\ \A p \in Peers : conn'[p].held = conn[p].held
      <3>1. NoConnection \in Connections /\ NoConnection.held = 0
        BY NoConnectionInv DEF ConnInv, NoConnection
      <3> QED BY <2>1, <2>2, <3>1, NoConnectionInv DEF ConnsInv
    <2>4. Holding' = Holding /\ HeldSize' = HeldSize
      BY <2>3, HeldSame DEF IInv
    <2>5. TotalSize' = 0 /\ Len(queue') = 0 /\ queue' \in Seq(QueuedEvents) /\ DOMAIN queue' = {}
      <3>1. TotalSize' = SizeOf(queue')
        BY DEF TotalSize, SizeOf
      <3>2. TotalSize' = 0
        BY <2>1, <3>1, SizeOfNothing
      <3> QED BY <2>1, <3>2
    <2>6. TotalSize \in Int /\ Len(queue) \in Nat
      <3>1. SizeOf(queue) \in Int /\ Len(queue) \in Nat
        BY SizeFacts DEF IInv, TypeInv
      <3> QED BY <3>1 DEF TotalSize, SizeOf
    <2>7. events \in Int /\ bytes \in Int /\ HeldSize \in Int /\ Cardinality(Holding) \in Nat
      BY HeldFacts DEF IInv, TypeInv
    <2>8. Holding = {} /\ Cardinality(Holding) = 0 /\ HeldSize = 0
      <3>1. Holding = {}
        BY <2>2 DEF Holding
      <3> QED BY <3>1, ZeroHeld, FS_EmptySet DEF IInv
    <2>9. BudgetInv'
      <3>1. events' = 0 /\ bytes' = 0
        BY <2>1, <2>6, <2>7, <2>8 DEF IInv, BudgetInv
      <3> QED BY <2>4, <2>5, <2>8, <3>1, DispatcherAssumption DEF BudgetInv
    <2>10. TickInv'
      BY <2>1, <2>5 DEF TickInv
    <2>11. CallInv'
      <3>1. \A c \in Calls : call'[c] = call[c] \/ (call[c] = "waiting" /\ call'[c] = "closed")
        BY <2>1 DEF Answered
      <3>2. AnswersAreTrue'
        BY <2>1, <3>1 DEF IInv, CallInv, AnswersAreTrue
      <3> QED BY <2>5, <3>2 DEF CallInv
    <2>12. TypeInv'
      <3>1. call' \in [Calls -> {"no", "waiting", "cancelled", "ok", "error", "closed"}]
        BY <2>1 DEF Answered, IInv, TypeInv
      <3>2. events' \in Int /\ bytes' \in Int
        BY <2>1, <2>6, <2>7
      <3>3. ticking' \in BOOLEAN
        BY <2>1
      <3> QED BY <2>5, <3>1, <3>2, <3>3 DEF TypeInv
    <2> QED BY <2>3, <2>9, <2>10, <2>11, <2>12 DEF IInv
  <1> QED BY <1>1, <1>2, <1>3 DEF Cleanup

\* IInv is inductive.
LEMMA StepInv == IInv /\ [Next]_vars => IInv'
  <1> SUFFICES ASSUME IInv, [Next]_vars PROVE IInv'
    OBVIOUS
  <1>1. CASE Start \/ Startup \/ CancelStart \/ Stop
    <2>1. UNCHANGED <<inbound, callers, conn>>
      BY <1>1 DEF Start, Startup, StartupOpens, StartupListens, StartupEnds,
                  CancelStart, Stop
    <2> QED BY <2>1, LifecycleInv
  <1>2. ASSUME NEW c \in Calls, CancelCall(c) \/ \E size \in Sizes : Call(c, size)
        PROVE  IInv'
    BY <1>2, CancelCallInv, CallStepInv
  <1>3. ASSUME NEW p \in Peers,
               \/ Connection(p) \/ ReadBody(p) \/ DialFails(p)
               \/ \E unexpected \in BOOLEAN : ReaderEnds(p, unexpected)
               \/ \E size \in Sizes : Attach(p, size) \/ ReadPrefix(p, size)
        PROVE  IInv'
    BY <1>3, ConnectionInv, ReaderEndsInv, ReadBodyInv, ReadPrefixInv DEF Connection
  <1>4. CASE UNCHANGED vars
    BY <1>4, LifecycleInv DEF vars
  <1> QED BY <1>1, <1>2, <1>3, <1>4, QueueTickInv, DispatchInv, CleanupInv DEF Next

-----------------------------------------------------------------------------
(* The theorems.                                                             *)

\* Queue, budget, connections and calls agree in every reachable state.
THEOREM Invariance == Spec => []IInv
  <1>1. Init /\ [][Next]_vars => []IInv
    BY InitInv, StepInv, PTL
  <1> QED BY <1>1, PTL DEF Spec

\* The bytes and events that _reserve and _release count, and those of every
\* PeerConnection, are exactly what is queued and held, within the limits:
\* nothing leaks, however frames, calls, cancellations and the shutdown
\* interleave.
THEOREM BudgetTheorem == Spec => []BudgetExact
  <1>1. IInv => BudgetExact
    <2> SUFFICES ASSUME IInv PROVE BudgetExact
      OBVIOUS
    <2>1. /\ events = Len(queue) + Cardinality(Holding)
          /\ bytes = TotalSize + HeldSize
          /\ events <= inbound_max_events /\ bytes <= inbound_max_bytes
      BY DEF IInv, BudgetInv
    <2>2. Cardinality({i \in DOMAIN queue : queue[i].kind = "tick"})
              = IF ticking THEN 1 ELSE 0
      <3>1. CASE ticking
        <4>1. PICK i \in DOMAIN queue : queue[i].kind = "tick"
          BY <3>1 DEF IInv, TickInv
        <4>2. {j \in DOMAIN queue : queue[j].kind = "tick"} = {i}
          BY <4>1 DEF IInv, TickInv
        <4> QED BY <3>1, <4>2, FS_Singleton
      <3>2. CASE ~ticking
        <4>1. {j \in DOMAIN queue : queue[j].kind = "tick"} = {}
          BY <3>2 DEF IInv, TickInv
        <4> QED BY <3>2, <4>1, FS_EmptySet
      <3> QED BY <3>1, <3>2
    <2>3. ASSUME NEW p \in Peers PROVE OutboundExact(conn[p])
      <3>1. PICK c : c = conn[p]
        OBVIOUS
      <3>2. ConnInv(c)
        BY <3>1 DEF IInv, ConnsInv
      <3>3. c.frame \in Nat /\ c.held \in Nat /\ Len(c.out) \in Nat
        BY <3>2 DEF ConnInv, Connections
      <3>4. c.frames = Len(c.out) + (IF c.frame > 0 THEN 1 ELSE 0)
        <4>1. CASE c.frame > 0
          BY <3>2, <4>1 DEF ConnInv
        <4>2. CASE ~(c.frame > 0)
          <5>1. c.frame = 0
            BY <3>3, <4>2
          <5> QED BY <3>2, <3>3, <4>2, <5>1 DEF ConnInv
        <4> QED BY <4>1, <4>2
      <3>5. ASSUME c.closing = "done"
            PROVE  TasksEnded(c) /\ c.frames = 0 /\ c.bytes = 0 /\ c.held = 0
        <4>1. TasksEnded(c) /\ c.out = <<>>
          BY <3>2, <3>5 DEF ConnInv
        <4>2. c.frame = 0 /\ c.held = 0
          BY <3>2, <3>3, <4>1 DEF ConnInv, TasksEnded
        <4>3. c.frames = 0
          BY <3>2, <4>1, <4>2 DEF ConnInv
        <4>4. c.bytes = 0
          BY <3>2, <4>1, <4>2, TotalOfNothing DEF ConnInv
        <4> QED BY <4>1, <4>2, <4>3, <4>4
      <3> QED BY <3>1, <3>2, <3>4, <3>5 DEF ConnInv, OutboundExact
    <2> QED BY <2>1, <2>2, <2>3 DEF BudgetExact
  <1> QED BY <1>1, Invariance, PTL

\* A caller of the node that got an answer got the true one: its command ran
\* if the answer says so, and never ran if the call was cancelled in time or
\* the node stopped before its turn.
THEOREM AnswersTheorem == Spec => []AnswersAreTrue
  <1>1. IInv => AnswersAreTrue
    BY DEF IInv, CallInv
  <1> QED BY <1>1, Invariance, PTL

-----------------------------------------------------------------------------
(* Connections between nodes (PeerSessions), for any number of nodes and     *)
(* connections and any limits.  The state is that of PeerState, which this   *)
(* module extends; the steps are instantiated.                               *)

PS == INSTANCE PeerSessions

\* What one side of a connection sends, in this order.
Handshake == <<"VERSION", "VERACK", "APP">>

Frames(i, j) == SubSeq(Handshake, i, j)

Inboxes == Seq({"VERSION", "VERACK", "APP"})

Ends ==
    [st : {"none", "wait", "open", "closed", "gone"}, out : BOOLEAN,
     peer : Nodes \cup {0}, version : BOOLEAN, ack : BOOLEAN, est : BOOLEAN,
     inbox : Inboxes]

AllEnds == [Conns -> [Nodes -> Ends]]

Active(s) == s.st \in {"wait", "open"}

\* How many frames of the other side a session has taken, a first APP not
\* counted, and how many it has sent itself.
Seen(s) == IF s.ack THEN 2 ELSE IF s.version THEN 1 ELSE 0

Sent(s) == IF s.st = "wait" THEN 0
           ELSE IF s.est THEN 3 ELSE IF s.version THEN 2 ELSE 1

\* One session: its flags are set in order, both together settle an open one,
\* and what is on the way continues what it has taken.
EndFits(s) ==
    /\ s.st = "none" => ~s.est /\ ~s.version
    /\ s.st # "none" => s.peer \in Nodes
    /\ s.st = "wait" => ~s.version
    /\ s.ack => s.version
    /\ s.est => s.ack
    /\ s.st = "open" /\ s.ack => s.est
    /\ \/ \E j \in 0 .. 3 : s.inbox = Frames(Seen(s) + 1, j)
       \/ s.ack /\ s.inbox = <<>>

\* Two ends of a connection: what is on the way to t is what s has sent and t
\* has not taken.
InTransit(s, t) ==
    \/ Seen(t) <= Sent(s) /\ t.inbox = Frames(Seen(t) + 1, Sent(s))
    \/ s.est /\ t.ack /\ t.inbox = <<>>

Paired(ends, c, n, m) ==
    n # m /\ ends[c][n].st # "none" /\ ends[c][m].st # "none" =>
        ends[c][n].peer = m /\ (Active(ends[c][m]) => InTransit(ends[c][n], ends[c][m]))

EndsInv(ends) ==
    /\ ends \in AllEnds
    /\ \A c \in Conns, n \in Nodes : EndFits(ends[c][n]) /\ ends[c][n].peer # n
    /\ \A c \in Conns, n, m \in Nodes : Paired(ends, c, n, m)

\* The established sessions of node n.
Links(ends, n) == {c \in Conns : ends[c][n].st = "open" /\ ends[c][n].est}

OneLink(ends, n) ==
    \A c, d \in Links(ends, n) : ends[c][n].peer = ends[d][n].peer => c = d

\* Node n has an established session with e, or one that was established and is
\* not yet reaped.
Linked(ends, n, e) == \E c \in Links(ends, n) : ends[c][n].peer = e

Known(ends, n, e) ==
    \E c \in Conns : /\ ends[c][n].st \in {"open", "closed", "gone"}
                     /\ ends[c][n].est /\ ends[c][n].peer = e

Dials == [pc : {"none", "connect", "shake", "ready", "lost"}, conn : Nat]

Books == [connected : BOOLEAN, dialing : BOOLEAN, tried : BOOLEAN]

\* A candidate b against the sessions and the dial task.
BookFits(b, pc, linked, known, failures) ==
    /\ b.connected => known
    /\ b.dialing => pc # "none"
    /\ failures = 0 /\ linked => b.connected
    /\ b.dialing => pc # "ready" /\ ~linked

BooksInv ==
    /\ faults \in Nat
    /\ dial \in [Nodes -> [Nodes -> Dials]]
    /\ book \in [Nodes -> [Nodes -> Books]]
    /\ \A n \in Nodes : dial[n][n].pc = "none"
    /\ \A n, e \in Nodes :
          BookFits(book[n][e], dial[n][e].pc, Linked(end, n, e), Known(end, n, e), faults)

SessionsInv ==
    /\ EndsInv(end)
    /\ \A n \in Nodes : OneLink(end, n)
    /\ ~accused
    /\ BooksInv

\* The frames from the a-th to the b-th, as a sequence s.
IsSlice(s, a, b) ==
    /\ s \in Inboxes
    /\ a <= b + 1 => Len(s) = b - a + 1
    /\ b < a => Len(s) = 0
    /\ \A k \in 1 .. b - a + 1 : s[k] = Handshake[a + k - 1]

LEMMA FrameFacts ==
    ASSUME NEW i \in 1 .. 4, NEW j \in 0 .. 3
    PROVE  /\ Frames(i, j) \in Inboxes
           /\ j < i => Frames(i, j) = <<>>
           /\ i <= j => /\ Frames(i, j) # <<>>
                        /\ Head(Frames(i, j)) = Handshake[i]
                        /\ Tail(Frames(i, j)) = Frames(i + 1, j)
           /\ j < 3 /\ i <= j + 1 => Append(Frames(i, j), Handshake[j + 1]) = Frames(i, j + 1)
  <1>1. /\ Handshake \in Inboxes /\ Len(Handshake) = 3
        /\ \A k \in 1 .. 3 : Handshake[k] \in {"VERSION", "VERACK", "APP"}
    BY DEF Handshake, Inboxes
  <1>2. ASSUME NEW a \in 1 .. 5, NEW b \in 0 .. 3
        PROVE  IsSlice(Frames(a, b), a, b)
    BY <1>1 DEF Frames, Inboxes, IsSlice
  <1>s. i \in 1 .. 5 /\ IsSlice(Frames(i, j), i, j)
    <2>1. i \in 1 .. 5
      OBVIOUS
    <2> QED BY <1>2, <2>1
  <1>3. j < i => Frames(i, j) = <<>>
    <2> SUFFICES ASSUME j < i PROVE Frames(i, j) = <<>>
      OBVIOUS
    <2>1. Frames(i, j) \in Seq({"VERSION", "VERACK", "APP"}) /\ Len(Frames(i, j)) = 0
      BY <1>s DEF IsSlice, Inboxes
    <2> QED BY <2>1, EmptySeq
  <1>4. ASSUME NEW s \in Inboxes, NEW next \in 1 .. 5, s = Frames(i, j), next = i + 1, i <= j
        PROVE  s # <<>> /\ Head(s) = Handshake[i] /\ Tail(s) = Frames(next, j)
    <2>1. /\ Len(s) = j - i + 1
          /\ \A k \in 1 .. j - i + 1 : s[k] = Handshake[i + k - 1]
      <3>1. IsSlice(s, i, j) /\ i <= j + 1
        BY <1>4, <1>s
      <3> QED BY <3>1 DEF IsSlice
    <2>2. /\ Frames(next, j) \in Inboxes /\ Len(Frames(next, j)) = j - next + 1
          /\ \A k \in 1 .. j - next + 1 : Frames(next, j)[k] = Handshake[next + k - 1]
      <3>1. IsSlice(Frames(next, j), next, j)
        BY <1>2
      <3>2. next <= j + 1
        BY <1>4
      <3> QED BY <3>1, <3>2 DEF IsSlice
    <2>4. Len(s) >= 1 /\ s # <<>> /\ s[1] = Handshake[i]
      BY <1>4, <2>1 DEF Inboxes
    <2>5. /\ Head(s) = s[1] /\ Tail(s) \in Inboxes /\ Len(Tail(s)) = Len(s) - 1
          /\ \A k \in 1 .. Len(s) - 1 : Tail(s)[k] = s[k + 1]
      BY <2>4 DEF Inboxes
    <2>6. \A k \in 1 .. Len(Tail(s)) : Tail(s)[k] = Frames(next, j)[k]
      BY <1>4, <2>1, <2>2, <2>5
    <2>7. Tail(s) = Frames(next, j)
      <3>1. Len(Tail(s)) = Len(Frames(next, j))
        BY <1>4, <2>1, <2>2, <2>5
      <3> QED BY <2>2, <2>5, <2>6, <3>1, SeqEqual DEF Inboxes
    <2> QED BY <2>4, <2>5, <2>7
  <1>5. ASSUME NEW s \in Inboxes, NEW next \in 1 .. 3, s = Frames(i, j), next = j + 1, i <= next
        PROVE  Append(s, Handshake[next]) = Frames(i, next)
    <2>1. /\ Len(s) = j - i + 1
          /\ \A k \in 1 .. j - i + 1 : s[k] = Handshake[i + k - 1]
      <3>1. IsSlice(s, i, j) /\ i <= j + 1
        BY <1>5, <1>s
      <3> QED BY <3>1 DEF IsSlice
    <2>2. /\ Frames(i, next) \in Inboxes /\ Len(Frames(i, next)) = next - i + 1
          /\ \A k \in 1 .. next - i + 1 : Frames(i, next)[k] = Handshake[i + k - 1]
      <3>1. IsSlice(Frames(i, next), i, next)
        <4>1. next \in 0 .. 3
          OBVIOUS
        <4> QED BY <1>2, <1>s, <4>1
      <3>2. i <= next + 1
        BY <1>5
      <3> QED BY <3>1, <3>2 DEF IsSlice
    <2>3. PICK t \in Inboxes : t = Append(s, Handshake[next])
      <3>1. Handshake[next] \in {"VERSION", "VERACK", "APP"}
        BY <1>1
      <3>2. Append(s, Handshake[next]) \in Inboxes
        BY <3>1, AppendProperties DEF Inboxes
      <3> QED BY <3>2
    <2>4. /\ Len(t) = Len(s) + 1 /\ t[Len(s) + 1] = Handshake[next]
          /\ \A k \in 1 .. Len(s) : t[k] = s[k]
      BY <1>1, <2>3 DEF Inboxes
    <2>5. Len(t) = Len(Frames(i, next))
      BY <1>5, <2>1, <2>2, <2>4
    <2>6. ASSUME NEW k \in 1 .. Len(t) PROVE t[k] = Frames(i, next)[k]
      <3>1. k \in Int /\ 1 <= k /\ k <= next - i + 1
        BY <1>5, <2>1, <2>4
      <3>2. CASE k = Len(s) + 1
        BY <1>5, <2>1, <2>2, <2>4, <3>1, <3>2
      <3>3. CASE k # Len(s) + 1
        BY <1>5, <2>1, <2>2, <2>4, <3>1, <3>3
      <3> QED BY <3>2, <3>3
    <2>7. t = Frames(i, next)
      BY <2>2, <2>5, <2>6, SeqEqual DEF Inboxes
    <2> QED BY <2>3, <2>7
  <1>6. i <= j => /\ Frames(i, j) # <<>>
                  /\ Head(Frames(i, j)) = Handshake[i]
                  /\ Tail(Frames(i, j)) = Frames(i + 1, j)
    <2>1. Frames(i, j) \in Inboxes
      BY <1>s DEF IsSlice
    <2>2. PICK next \in 1 .. 5 : next = i + 1
      OBVIOUS
    <2>3. i <= j => /\ Frames(i, j) # <<>>
                    /\ Head(Frames(i, j)) = Handshake[i]
                    /\ Tail(Frames(i, j)) = Frames(next, j)
      BY <1>4, <2>1, <2>2
    <2> QED BY <2>2, <2>3
  <1>7. j < 3 /\ i <= j + 1 => Append(Frames(i, j), Handshake[j + 1]) = Frames(i, j + 1)
    <2>1. Frames(i, j) \in Inboxes
      BY <1>s DEF IsSlice
    <2> SUFFICES ASSUME j < 3, i <= j + 1
                 PROVE  Append(Frames(i, j), Handshake[j + 1]) = Frames(i, j + 1)
      OBVIOUS
    <2>2. PICK next \in 1 .. 3 : next = j + 1
      OBVIOUS
    <2>3. Append(Frames(i, j), Handshake[next]) = Frames(i, next)
      BY <1>5, <2>1, <2>2
    <2> QED BY <2>2, <2>3
  <1>8. Frames(i, j) \in Inboxes
    BY <1>s DEF IsSlice
  <1> QED BY <1>3, <1>6, <1>7, <1>8

-----------------------------------------------------------------------------
(* Sessions that are closed, reaped or refused.                              *)

Fades(s, t) ==
    \/ t = s
    \/ t = PS!NoEnd
    \/ /\ s.st \in {"open", "closed", "gone"} /\ t.st \in {"closed", "gone"}
       /\ t.peer = s.peer /\ t.version = s.version /\ t.ack = s.ack /\ t.est = s.est
       /\ t.inbox \in {<<>>, s.inbox}

LEMMA FadedFits ==
    ASSUME NEW s \in Ends, NEW t \in Ends, EndFits(s), Fades(s, t)
    PROVE  EndFits(t)
  <1>1. CASE t = s
    BY <1>1
  <1>2. CASE t = PS!NoEnd
    <2>1. Frames(1, 0) = <<>>
      BY FrameFacts
    <2>2. t.st = "none" /\ ~t.version /\ ~t.ack /\ ~t.est /\ t.inbox = <<>> /\ Seen(t) = 0
      BY <1>2 DEF PS!NoEnd, Seen
    <2>3. t.inbox = Frames(Seen(t) + 1, 0)
      BY <2>1, <2>2
    <2> QED BY <2>2, <2>3 DEF EndFits
  <1>3. CASE /\ s.st \in {"open", "closed", "gone"} /\ t.st \in {"closed", "gone"}
             /\ t.peer = s.peer /\ t.version = s.version /\ t.ack = s.ack /\ t.est = s.est
             /\ t.inbox \in {<<>>, s.inbox}
    <2>1. /\ t.st # "none" /\ t.st # "wait" /\ t.st # "open" /\ t.peer \in Nodes
          /\ t.ack => t.version
          /\ t.est => t.ack
      BY <1>3 DEF EndFits
    <2>2. Seen(t) = Seen(s) /\ Seen(t) \in 0 .. 2
      BY <1>3 DEF Seen
    <2>3. Frames(Seen(t) + 1, 0) = <<>>
      <3>1. PICK i \in 1 .. 4 : i = Seen(t) + 1
        BY <2>2
      <3>2. 0 \in 0 .. 3 /\ 0 < i
        OBVIOUS
      <3>3. Frames(i, 0) = <<>>
        BY <3>2, FrameFacts
      <3> QED BY <3>1, <3>3
    <2>4. \/ \E j \in 0 .. 3 : t.inbox = Frames(Seen(t) + 1, j)
          \/ t.ack /\ t.inbox = <<>>
      <3>1. CASE t.inbox = <<>>
        BY <2>3, <3>1
      <3>2. CASE t.inbox = s.inbox
        BY <1>3, <2>2, <3>2 DEF EndFits
      <3> QED BY <1>3, <3>1, <3>2
    <2> QED BY <2>1, <2>4 DEF EndFits
  <1> QED BY <1>1, <1>2, <1>3 DEF Fades

LEMMA FadedPair ==
    ASSUME NEW s, NEW t, NEW s2, NEW t2, Fades(s, s2), Fades(t, t2),
           s2.st # "none", t2.st # "none"
    PROVE  /\ s.st # "none" /\ t.st # "none" /\ s2.peer = s.peer
           /\ Active(t2) => t2 = t
           /\ Active(t2) /\ InTransit(s, t) => InTransit(s2, t2)
  <1>1. s.st # "none" /\ s2.peer = s.peer /\ s2.est = s.est /\ Sent(s2) = Sent(s)
    BY DEF Fades, PS!NoEnd, Sent
  <1>2. t.st # "none" /\ (Active(t2) => t2 = t)
    BY DEF Fades, PS!NoEnd, Active
  <1> QED BY <1>1, <1>2 DEF InTransit

\* Whatever closes, an end that is left has the messages it had.
LEMMA FadeKeeps ==
    ASSUME NEW ends, EndsInv(ends), NEW after \in AllEnds, 0 \notin Nodes,
           \A c \in Conns, n \in Nodes : Fades(ends[c][n], after[c][n])
    PROVE  EndsInv(after)
  <1>1. ASSUME NEW c \in Conns, NEW n \in Nodes
        PROVE  EndFits(after[c][n]) /\ after[c][n].peer # n
    <2>1. ends[c][n] \in Ends /\ after[c][n] \in Ends
      BY DEF EndsInv, AllEnds
    <2>2. EndFits(after[c][n])
      BY <2>1, FadedFits DEF EndsInv
    <2>3. after[c][n].peer = ends[c][n].peer \/ after[c][n].peer = 0
      BY DEF Fades, PS!NoEnd, PS!NoNode
    <2> QED BY <2>2, <2>3 DEF EndsInv
  <1>2. ASSUME NEW c \in Conns, NEW n \in Nodes, NEW m \in Nodes
        PROVE  Paired(after, c, n, m)
    <2> SUFFICES ASSUME n # m, after[c][n].st # "none", after[c][m].st # "none"
                 PROVE  /\ after[c][n].peer = m
                        /\ Active(after[c][m]) => InTransit(after[c][n], after[c][m])
      BY DEF Paired
    <2>1. Paired(ends, c, n, m) /\ Fades(ends[c][n], after[c][n])
                                /\ Fades(ends[c][m], after[c][m])
      BY DEF EndsInv
    <2>2. PICK s, t, s2, t2 : s = ends[c][n] /\ t = ends[c][m]
                              /\ s2 = after[c][n] /\ t2 = after[c][m]
      OBVIOUS
    <2>3. /\ s.st # "none" /\ t.st # "none" /\ s2.peer = s.peer
          /\ Active(t2) => t2 = t
          /\ Active(t2) /\ InTransit(s, t) => InTransit(s2, t2)
      BY <2>1, <2>2, FadedPair
    <2> QED BY <2>1, <2>2, <2>3 DEF Paired
  <1> QED BY <1>1, <1>2 DEF EndsInv

\* One end moves on, and the other one may be sent a message.
Exchanged(ends, after, c, n, e) ==
    /\ n # e /\ ends[c][n].peer = e
    /\ ends[c][n].st # "none" /\ after[c][n].st # "none" /\ after[c][n].peer = e
    /\ EndFits(after[c][n]) /\ EndFits(after[c][e])
    /\ after[c][e].st = ends[c][e].st /\ after[c][e].peer = ends[c][e].peer
    /\ after[c][e].st # "none" => Paired(after, c, n, e) /\ Paired(after, c, e, n)
    /\ \A d \in Conns, m \in Nodes :
           d # c \/ m \notin {n, e} => after[d][m] = ends[d][m]

LEMMA ExchangeKeeps ==
    ASSUME NEW ends, EndsInv(ends), NEW after \in AllEnds,
           NEW c \in Conns, NEW n \in Nodes, NEW e \in Nodes, Exchanged(ends, after, c, n, e)
    PROVE  EndsInv(after)
  <1> USE DEF Exchanged
  <1>1. ASSUME NEW d \in Conns, NEW m \in Nodes
        PROVE  EndFits(after[d][m]) /\ after[d][m].peer # m
    BY DEF EndsInv
  <1>2. ASSUME NEW d \in Conns, NEW m \in Nodes, NEW k \in Nodes
        PROVE  Paired(after, d, m, k)
    <2>1. CASE d # c
      BY <2>1 DEF EndsInv, Paired
    <2>2. CASE d = c /\ {m, k} \subseteq {n, e}
      BY <2>2 DEF Paired
    <2>3. CASE d = c /\ ~({m, k} \subseteq {n, e})
      <3> SUFFICES ASSUME m # k, after[c][m].st # "none", after[c][k].st # "none"
                   PROVE  FALSE
        BY <2>3 DEF Paired
      <3>1. PICK o \in Nodes : o \notin {n, e} /\ ends[c][o].st # "none"
        BY <2>3
      <3>2. Paired(ends, c, n, o)
        BY DEF EndsInv
      <3> QED BY <3>1, <3>2 DEF Paired
    <2> QED BY <2>1, <2>2, <2>3
  <1> QED BY <1>1, <1>2 DEF EndsInv

-----------------------------------------------------------------------------
(* Messages.                                                                 *)

\* What an end becomes that is sent a message.
Told(t, message) == IF Active(t) THEN [t EXCEPT !.inbox = Append(@, message)] ELSE t

LEMMA Counts ==
    ASSUME NEW s \in Ends
    PROVE  /\ Seen(s) \in 0 .. 2 /\ Sent(s) \in 0 .. 3
           /\ Handshake[1] = "VERSION" /\ Handshake[2] = "VERACK" /\ Handshake[3] = "APP"
  BY DEF Seen, Sent, Handshake

\* The other end t has become t2, and knows what s2 has sent.
Advances(s2, t, t2) ==
    /\ t2 \in Ends /\ EndFits(t2)
    /\ t2.st = t.st /\ t2.peer = t.peer /\ t2.est = t.est
    /\ t2.version = t.version /\ t2.ack = t.ack /\ Sent(t2) = Sent(t)
    /\ Active(t2) => InTransit(s2, t2)

\* A message that is sent in its turn arrives after those sent before.
LEMMA Sending ==
    ASSUME NEW s \in Ends, NEW s2 \in Ends, NEW t \in Ends, EndFits(t),
           ~s.est, Sent(s2) = Sent(s) + 1, Active(t) => InTransit(s, t),
           NEW t2, t2 = Told(t, Handshake[Sent(s) + 1])
    PROVE  Advances(s2, t, t2)
  <1>1. CASE ~Active(t)
    BY <1>1 DEF Told, Advances
  <1>2. CASE Active(t)
    <2>1. PICK k \in 0 .. 2 : k = Sent(s)
      BY Counts
    <2>2. PICK i \in 1 .. 3 : i = Seen(t) + 1
      BY Counts
    <2>3. i <= k + 1 /\ t.inbox = Frames(i, k)
      <3>1. Seen(t) <= Sent(s) /\ t.inbox = Frames(Seen(t) + 1, Sent(s))
        BY <1>2 DEF InTransit
      <3>2. Seen(t) \in Int /\ Sent(s) \in Int
        BY Counts
      <3> QED BY <2>1, <2>2, <3>1, <3>2
    <2>4. Append(t.inbox, Handshake[k + 1]) = Frames(i, k + 1) /\ Frames(i, k + 1) \in Inboxes
      <3>1. PICK next \in 0 .. 3 : next = k + 1
        OBVIOUS
      <3>2. i \in 1 .. 4 /\ k \in 0 .. 3 /\ k < 3
        OBVIOUS
      <3>3. Append(t.inbox, Handshake[k + 1]) = Frames(i, k + 1)
        BY <2>3, <3>2, FrameFacts
      <3>4. Frames(i, next) \in Inboxes
        BY <3>2, FrameFacts
      <3> QED BY <3>1, <3>3, <3>4
    <2>5. t2 = [t EXCEPT !.inbox = Frames(i, k + 1)]
      BY <1>2, <2>1, <2>4 DEF Told
    <2>7. t2 \in Ends
      BY <2>4, <2>5 DEF Ends
    <2>8. /\ t2.st = t.st /\ t2.peer = t.peer /\ t2.est = t.est /\ t2.version = t.version
          /\ t2.ack = t.ack /\ t2.inbox = Frames(i, k + 1)
      BY <2>5 DEF Ends
    <2>9. Seen(t2) = Seen(t) /\ Sent(t2) = Sent(t)
      BY <2>8 DEF Seen, Sent
    <2>10. EndFits(t2)
      <3>1. k + 1 \in 0 .. 3 /\ t2.inbox = Frames(Seen(t2) + 1, k + 1)
        BY <2>2, <2>8, <2>9
      <3> QED BY <2>8, <3>1 DEF EndFits
    <2>11. InTransit(s2, t2)
      <3>1. Seen(t2) \in Int /\ Sent(s2) = k + 1 /\ i = Seen(t2) + 1
        BY <2>1, <2>2, <2>9, Counts
      <3>2. Seen(t2) <= Sent(s2) /\ t2.inbox = Frames(Seen(t2) + 1, Sent(s2))
        BY <2>3, <2>8, <3>1
      <3> QED BY <3>2 DEF InTransit
    <2> QED BY <2>7, <2>8, <2>9, <2>10, <2>11 DEF Advances
  <1> QED BY <1>1, <1>2

\* The next message is the one the handshake has next.
LEMMA Receiving ==
    ASSUME NEW s \in Ends, EndFits(s), s.inbox # <<>>
    PROVE  /\ Head(s.inbox) = Handshake[Seen(s) + 1]
           /\ Tail(s.inbox) \in Inboxes
           /\ \E j \in 0 .. 3 : Tail(s.inbox) = Frames(Seen(s) + 2, j)
           /\ \A t \in Ends : InTransit(t, s) =>
                 Seen(s) < Sent(t) /\ Tail(s.inbox) = Frames(Seen(s) + 2, Sent(t))
  <1>1. PICK i \in 1 .. 3 : i = Seen(s) + 1
    BY Counts
  <1>2. ASSUME NEW j \in 0 .. 3, s.inbox = Frames(i, j)
        PROVE  /\ i <= j /\ Head(s.inbox) = Handshake[i] /\ Tail(s.inbox) = Frames(i + 1, j)
               /\ Tail(s.inbox) \in Inboxes
    <2>1. i <= j
      <3>1. i \in 1 .. 4
        OBVIOUS
      <3>2. j < i => Frames(i, j) = <<>>
        BY <3>1, FrameFacts
      <3> QED BY <1>2, <3>2
    <2>2. PICK next \in 1 .. 4 : next = i + 1
      OBVIOUS
    <2>3. Frames(next, j) \in Inboxes
      BY FrameFacts
    <2>4. i \in 1 .. 4
      OBVIOUS
    <2>5. Head(Frames(i, j)) = Handshake[i] /\ Tail(Frames(i, j)) = Frames(i + 1, j)
      BY <2>1, <2>4, FrameFacts
    <2> QED BY <1>2, <2>1, <2>2, <2>3, <2>5
  <1>3. PICK j \in 0 .. 3 : s.inbox = Frames(i, j)
    BY <1>1 DEF EndFits
  <1>4. i + 1 = Seen(s) + 2
    BY <1>1, Counts
  <1>5. ASSUME NEW t \in Ends, InTransit(t, s)
        PROVE  Seen(s) < Sent(t) /\ Tail(s.inbox) = Frames(Seen(s) + 2, Sent(t))
    <2>1. Sent(t) \in 0 .. 3 /\ s.inbox = Frames(i, Sent(t))
      BY <1>1, <1>5, Counts DEF InTransit
    <2>2. i <= Sent(t) /\ Tail(s.inbox) = Frames(i + 1, Sent(t))
      BY <1>2, <2>1
    <2>3. Seen(s) \in Int
      BY Counts
    <2> QED BY <1>1, <1>4, <2>1, <2>2, <2>3
  <1> QED BY <1>1, <1>2, <1>3, <1>4, <1>5

LEMMA NextMessage ==
    ASSUME NEW s \in Ends, EndFits(s), s.st = "open", s.inbox # <<>>
    PROVE  LET message == Head(s.inbox) IN
           /\ ~PS!Unexpected(s, message)
           /\ \/ message = "VERSION" /\ ~s.version /\ ~s.ack /\ ~s.est
              \/ message = "VERACK" /\ s.version /\ ~s.ack /\ ~s.est
              \/ message = "APP" /\ s.version /\ s.ack /\ s.est
  <1>1. Head(s.inbox) = Handshake[Seen(s) + 1]
    BY Receiving
  <1>2. /\ ~s.version => ~s.ack
        /\ ~s.ack => ~s.est
        /\ s.ack => s.version /\ s.est
    BY DEF EndFits
  <1>3. CASE ~s.version
    <2>1. Head(s.inbox) = "VERSION"
      BY <1>1, <1>2, <1>3, Counts DEF Seen
    <2> QED BY <1>2, <1>3, <2>1 DEF PS!Unexpected
  <1>4. CASE s.version /\ ~s.ack
    <2>1. Head(s.inbox) = "VERACK"
      BY <1>1, <1>4, Counts DEF Seen
    <2> QED BY <1>2, <1>4, <2>1 DEF PS!Unexpected
  <1>5. CASE s.ack
    <2>1. Head(s.inbox) = "APP"
      BY <1>1, <1>5, Counts DEF Seen
    <2> QED BY <1>2, <1>5, <2>1 DEF PS!Unexpected
  <1> QED BY <1>2, <1>3, <1>4, <1>5

-----------------------------------------------------------------------------
(* A step of one end.                                                        *)

\* All ends are as they were but one.
Puts(ends, after, c, n, s) ==
    /\ after \in AllEnds
    /\ after[c][n] = s
    /\ \A d \in Conns, m \in Nodes : d # c \/ m # n => after[d][m] = ends[d][m]

LEMMA SendFacts ==
    ASSUME NEW ends \in AllEnds, NEW c \in Conns, NEW m \in Nodes,
           NEW message \in {"VERSION", "VERACK", "APP"}
    PROVE  Puts(ends, PS!Send(ends, c, m, message), c, m, Told(ends[c][m], message))
  <1>1. CASE Active(ends[c][m])
    <2>1. ends[c] \in [Nodes -> Ends] /\ ends[c][m] \in Ends
      BY DEF AllEnds
    <2>2. Append(ends[c][m].inbox, message) \in Inboxes
      BY <2>1, AppendProperties DEF Ends, Inboxes
    <2>3. PICK t : t = [ends[c][m] EXCEPT !.inbox = Append(@, message)]
      OBVIOUS
    <2>4. t \in Ends
      BY <2>1, <2>2, <2>3 DEF Ends
    <2>5. PS!Send(ends, c, m, message) = [ends EXCEPT ![c] = [ends[c] EXCEPT ![m] = t]]
      BY <1>1, <2>3 DEF PS!Send, Active
    <2>6. Told(ends[c][m], message) = t
      BY <1>1, <2>3 DEF Told
    <2> HIDE <2>3
    <2> QED BY <2>1, <2>4, <2>5, <2>6 DEF AllEnds, Puts
  <1>2. CASE ~Active(ends[c][m])
    BY <1>2 DEF PS!Send, Told, Active, Puts
  <1> QED BY <1>1, <1>2

LEMMA PutFacts ==
    ASSUME NEW ends \in AllEnds, NEW c \in Conns, NEW n \in Nodes, NEW s \in Ends
    PROVE  Puts(ends, [ends EXCEPT ![c][n] = s], c, n, s)
  BY DEF AllEnds, Puts

\* An end differs in what is on the way to it only.
Alike(s, t) ==
    /\ t.st = s.st /\ t.out = s.out /\ t.peer = s.peer
    /\ t.version = s.version /\ t.est = s.est

\* The only other end that may change is the one that is sent a message.
Steps(ends, after, c, n, s) ==
    /\ after[c][n] = s
    /\ \A d \in Conns, m \in Nodes : d # c \/ m # n => Alike(ends[d][m], after[d][m])

\* An end moves on from s to s2 and sends the next message of the handshake, or
\* none.
LEMMA EndMovesOn ==
    ASSUME 0 \notin Nodes, NEW ends, EndsInv(ends), NEW c \in Conns, NEW n \in Nodes,
           NEW s, s = ends[c][n], s.st # "none", NEW e, e = s.peer,
           NEW s2 \in Ends, EndFits(s2), s2.st # "none", s2.peer = e,
           Active(s2) => Active(s),
           \A t \in Ends : Active(s2) /\ InTransit(t, s) => InTransit(t, s2),
           NEW mid, mid = [ends EXCEPT ![c][n] = s2],
           NEW after,
           \/ /\ ~s.est /\ Sent(s2) = Sent(s) + 1
              /\ after = PS!Send(mid, c, e, Handshake[Sent(s) + 1])
           \/ /\ Sent(s2) = Sent(s) /\ s2.est = s.est
              /\ after = mid
    PROVE  EndsInv(after) /\ Steps(ends, after, c, n, s2)
  <1>1. /\ ends \in AllEnds /\ s \in Ends /\ e \in Nodes /\ e # n
        /\ ends[c][e] \in Ends /\ EndFits(ends[c][e])
        /\ Paired(ends, c, n, e) /\ Paired(ends, c, e, n)
    <2>1. ends \in AllEnds /\ s \in Ends /\ EndFits(s) /\ e # n
      BY DEF EndsInv, AllEnds
    <2>2. e \in Nodes
      BY <2>1 DEF EndFits
    <2> QED BY <2>1, <2>2 DEF EndsInv, AllEnds
  <1>2. PICK t \in Ends : t = ends[c][e] /\ EndFits(t)
    BY <1>1
  <1>3. /\ t.st # "none" => t.peer = n /\ (Active(s) => InTransit(t, s))
        /\ Active(t) => InTransit(s, t)
    BY <1>1, <1>2 DEF Paired, Active
  <1>4. /\ mid \in AllEnds /\ mid[c][n] = s2 /\ mid[c][e] = t
        /\ \A d \in Conns, m \in Nodes : d # c \/ m # n => mid[d][m] = ends[d][m]
    <2>1. Puts(ends, mid, c, n, s2)
      BY <1>1, PutFacts
    <2> QED BY <1>1, <1>2, <2>1 DEF Puts
  <1>5. ASSUME NEW t2 \in Ends, EndFits(t2), t2.st = t.st, t2.peer = t.peer, t2.est = t.est,
               Sent(t2) = Sent(t), Active(t2) => InTransit(s2, t2),
               after \in AllEnds, after[c][n] = s2, after[c][e] = t2,
               \A d \in Conns, m \in Nodes :
                   d # c \/ m \notin {n, e} => after[d][m] = ends[d][m]
        PROVE  EndsInv(after)
    <2>1. Paired(after, c, n, e)
      BY <1>5 DEF Paired
    <2>2. t2.st # "none" => Paired(after, c, e, n)
      <3> SUFFICES ASSUME t2.st # "none"
                   PROVE  t2.peer = n /\ (Active(s2) => InTransit(t2, s2))
        BY <1>5 DEF Paired
      <3>1. t2.peer = n /\ (Active(s2) => InTransit(t, s2))
        BY <1>3, <1>5
      <3> QED BY <1>5, <3>1 DEF InTransit
    <2>3. /\ after[c][n].st # "none" /\ after[c][n].peer = e
          /\ EndFits(after[c][n]) /\ EndFits(after[c][e])
          /\ after[c][e].st = ends[c][e].st /\ after[c][e].peer = ends[c][e].peer
          /\ after[c][e].st # "none" => Paired(after, c, n, e) /\ Paired(after, c, e, n)
      BY <1>2, <1>5, <2>1, <2>2
    <2>4. Exchanged(ends, after, c, n, e)
      BY <1>1, <1>5, <2>3 DEF Exchanged
    <2> QED BY <1>1, <1>5, <2>4, ExchangeKeeps
  <1>6. CASE /\ ~s.est /\ Sent(s2) = Sent(s) + 1
             /\ after = PS!Send(mid, c, e, Handshake[Sent(s) + 1])
    <2>1. PICK message \in {"VERSION", "VERACK", "APP"} : message = Handshake[Sent(s) + 1]
      <3>1. Sent(s) \in 0 .. 2
        <4>1. Sent(s2) \in 0 .. 3 /\ Sent(s) \in 0 .. 3
          BY <1>1, Counts
        <4> QED BY <1>6, <4>1
      <3>2. Handshake[1] = "VERSION" /\ Handshake[2] = "VERACK" /\ Handshake[3] = "APP"
        BY DEF Handshake
      <3> QED BY <3>1, <3>2
    <2>2. PICK t2 : t2 = Told(t, message) /\ t2 = Told(t, Handshake[Sent(s) + 1])
      BY <2>1
    <2>a. Advances(s2, t, t2)
      BY <1>1, <1>2, <1>3, <1>6, <2>2, Sending
    <2>3. /\ t2 \in Ends /\ EndFits(t2)
          /\ t2.st = t.st /\ t2.peer = t.peer /\ t2.est = t.est /\ t2.version = t.version
          /\ Sent(t2) = Sent(t)
          /\ Active(t2) => InTransit(s2, t2)
      BY <2>a DEF Advances
    <2>4. t2.out = t.out
      BY <1>2, <2>2 DEF Told, Ends
    <2>5. /\ after \in AllEnds /\ after[c][e] = t2
          /\ \A d \in Conns, k \in Nodes : d # c \/ k # e => after[d][k] = mid[d][k]
      <3>1. Puts(mid, PS!Send(mid, c, e, message), c, e, Told(mid[c][e], message))
        BY <1>1, <1>4, SendFacts
      <3> QED BY <1>4, <1>6, <2>1, <2>2, <3>1 DEF Puts
    <2>6. /\ after[c][n] = s2
          /\ \A d \in Conns, m \in Nodes : d # c \/ m \notin {n, e} => after[d][m] = ends[d][m]
      <3>1. after[c][n] = s2
        BY <1>1, <1>4, <2>5
      <3>2. ASSUME NEW d \in Conns, NEW m \in Nodes, d # c \/ m \notin {n, e}
            PROVE  after[d][m] = ends[d][m]
        <4>1. after[d][m] = mid[d][m]
          BY <2>5, <3>2
        <4>2. mid[d][m] = ends[d][m]
          BY <1>4, <3>2
        <4> QED BY <4>1, <4>2
      <3> QED BY <3>1, <3>2
    <2>7. EndsInv(after)
      BY <1>5, <2>3, <2>5, <2>6
    <2>8. \A d \in Conns, m \in Nodes : d # c \/ m # n => Alike(ends[d][m], after[d][m])
      BY <1>2, <2>3, <2>4, <2>5, <2>6 DEF Alike
    <2> QED BY <2>6, <2>7, <2>8 DEF Steps
  <1>7. CASE Sent(s2) = Sent(s) /\ s2.est = s.est /\ after = mid
    <2>1. Active(t) => InTransit(s2, t)
      BY <1>3, <1>7 DEF InTransit
    <2>2. EndsInv(after)
      BY <1>1, <1>2, <1>4, <1>5, <1>7, <2>1
    <2>3. \A d \in Conns, m \in Nodes : d # c \/ m # n => Alike(ends[d][m], after[d][m])
      BY <1>4, <1>7 DEF Alike
    <2> QED BY <1>4, <1>7, <2>2, <2>3 DEF Steps
  <1> QED BY <1>6, <1>7

-----------------------------------------------------------------------------
(* Settled sessions, and what the book says of them.                     *)

Settled(s) == s.st = "open" /\ s.est

\* No session becomes established, and none that was known is forgotten.
NoNewLinks(ends, after, n) ==
    \A c \in Conns : Settled(after[c][n]) =>
        Settled(ends[c][n]) /\ ends[c][n].peer = after[c][n].peer

NoneForgotten(ends, after, n) ==
    \A c \in Conns : ends[c][n].st \in {"open", "closed", "gone"} /\ ends[c][n].est =>
        /\ after[c][n].st \in {"open", "closed", "gone"} /\ after[c][n].est
        /\ after[c][n].peer = ends[c][n].peer

LEMMA LinksKept ==
    ASSUME NEW ends, NEW after, NEW n, NoNewLinks(ends, after, n), OneLink(ends, n)
    PROVE  /\ OneLink(after, n)
           /\ \A e : Linked(after, n, e) => Linked(ends, n, e)
  <1>1. \A c \in Links(after, n) :
            c \in Conns /\ c \in Links(ends, n) /\ ends[c][n].peer = after[c][n].peer
    BY DEF NoNewLinks, Links, Settled
  <1> QED BY <1>1 DEF OneLink, Linked

LEMMA KnownKept ==
    ASSUME NEW ends, NEW after, NEW n, NoneForgotten(ends, after, n)
    PROVE  \A e : Known(ends, n, e) => Known(after, n, e)
  BY DEF NoneForgotten, Known

\* The candidate stays as it is.
LEMMA BookKept ==
    ASSUME NEW b, NEW pc, NEW linked, NEW known, NEW linked2, NEW known2, NEW failures,
           BookFits(b, pc, linked, known, failures),
           linked2 => linked, known => known2
    PROVE  BookFits(b, pc, linked2, known2, failures)
  BY DEF BookFits

\* A step that leaves the books alone.  A dial may go on, and end unless the
\* candidate is marked as being dialled.
LEMMA SessionsKept ==
    ASSUME SessionsInv, NEW after, end' = after, UNCHANGED <<book, accused>>,
           EndsInv(after),
           \A n \in Nodes : NoNewLinks(end, after, n) /\ NoneForgotten(end, after, n),
           faults' \in Nat, faults' = faults \/ faults' # 0,
           dial' \in [Nodes -> [Nodes -> Dials]],
           \A n \in Nodes : dial'[n][n].pc = "none",
           \A n, e \in Nodes : \/ dial'[n][e].pc = dial[n][e].pc
                               \/ dial'[n][e].pc \in {"connect", "shake", "lost"}
                               \/ ~book[n][e].dialing
    PROVE  SessionsInv'
  <1>1. \A n \in Nodes : OneLink(after, n)
    BY LinksKept DEF SessionsInv
  <1>2. ASSUME NEW n \in Nodes, NEW e \in Nodes
        PROVE  BookFits(book[n][e], dial'[n][e].pc, Linked(after, n, e),
                        Known(after, n, e), faults')
    <2>1. BookFits(book[n][e], dial[n][e].pc, Linked(end, n, e), Known(end, n, e), faults)
      BY DEF SessionsInv, BooksInv
    <2>2. /\ Linked(after, n, e) => Linked(end, n, e)
          /\ Known(end, n, e) => Known(after, n, e)
      BY LinksKept, KnownKept DEF SessionsInv
    <2>3. /\ book[n][e].dialing => dial'[n][e].pc # "none" /\ dial'[n][e].pc # "ready"
          /\ faults' = 0 => faults = 0
      BY <2>1 DEF BookFits
    <2> QED BY <2>1, <2>2, <2>3 DEF BookFits
  <1>3. book' \in [Nodes -> [Nodes -> Books]] /\ ~accused'
    BY DEF SessionsInv, BooksInv
  <1>4. \A n, e \in Nodes :
            BookFits(book'[n][e], dial'[n][e].pc, Linked(end', n, e), Known(end', n, e), faults')
    BY <1>2
  <1> QED BY <1>1, <1>3, <1>4 DEF SessionsInv, BooksInv

\* An established session has seen VERSION, so it is among those that lead to
\* its peer.
LEMMA LinkedLeads ==
    ASSUME EndsInv(end), NEW n \in Nodes, NEW e \in Nodes
    PROVE  /\ Linked(end, n, e) <=>
                 \E c \in Conns : PS!Established(c, n) /\ PS!Leads(c, n, e)
           /\ Linked(end, n, e) => PS!Reaches(n, e)
  <1>1. ASSUME NEW c \in Links(end, n), end[c][n].peer = e
        PROVE  /\ c \in Conns /\ PS!Established(c, n) /\ PS!Leads(c, n, e) /\ PS!Open(c, n)
    <2>1. c \in Conns /\ end[c][n].st = "open" /\ end[c][n].est /\ end[c][n].peer = e
      BY <1>1 DEF Links
    <2>2. end[c][n].version
      BY <2>1 DEF EndsInv, EndFits
    <2> QED BY <2>1, <2>2 DEF PS!Established, PS!Open, PS!Leads
  <1>2. ASSUME NEW c \in Conns, PS!Established(c, n), PS!Leads(c, n, e)
        PROVE  c \in Links(end, n) /\ end[c][n].peer = e
    BY <1>2 DEF Links, PS!Established, PS!Open, PS!Leads
  <1> QED BY <1>1, <1>2 DEF Linked, PS!Reaches

-----------------------------------------------------------------------------
(* Reaping.                                                                  *)

\* What a turn of node n begins with: its gone sessions are forgotten, and the
\* book still fits.
Cleared(n, ends, entries) ==
    /\ EndsInv(ends)
    /\ \A c \in Conns, m \in Nodes :
          IF m = n /\ end[c][n].st = "gone" THEN ends[c][m] = PS!NoEnd
                                            ELSE ends[c][m] = end[c][m]
    /\ \A m \in Nodes : OneLink(ends, m)
    /\ \A m, e \in Nodes : Linked(ends, m, e) => Linked(end, m, e)
    /\ \A m, e \in Nodes : m # n /\ Known(end, m, e) => Known(ends, m, e)
    /\ entries \in [Nodes -> Books]
    /\ \A e \in Nodes : BookFits(entries[e], dial[n][e].pc, Linked(ends, n, e),
                                 Known(ends, n, e), faults)

LEMMA Reaping ==
    ASSUME 0 \notin Nodes, SessionsInv, NEW n \in Nodes
    PROVE  Cleared(n, PS!ReapedEnd(n), PS!ReapedBook(n))
  <1>1. PICK ends : ends = PS!ReapedEnd(n)
    OBVIOUS
  <1>2. PICK entries : entries = PS!ReapedBook(n)
    OBVIOUS
  <1>3. end \in AllEnds /\ book[n] \in [Nodes -> Books] /\ PS!NoEnd \in Ends
    <2>1. <<>> \in Inboxes
      BY DEF Inboxes
    <2>2. PS!NoEnd \in Ends
      BY <2>1 DEF PS!NoEnd, PS!NoNode, Ends
    <2> QED BY <2>2 DEF SessionsInv, EndsInv, BooksInv
  <1>4. /\ ends \in AllEnds
        /\ \A c \in Conns, m \in Nodes :
              IF m = n /\ end[c][n].st = "gone" THEN ends[c][m] = PS!NoEnd
                                                ELSE ends[c][m] = end[c][m]
    BY <1>1, <1>3 DEF PS!ReapedEnd, AllEnds
  <1>5. EndsInv(ends)
    <2>1. \A c \in Conns, m \in Nodes : Fades(end[c][m], ends[c][m])
      BY <1>4 DEF Fades
    <2> QED BY <1>4, <2>1, FadeKeeps DEF SessionsInv
  <1>6. ASSUME NEW m \in Nodes
        PROVE  OneLink(ends, m) /\ \A e \in Nodes : Linked(ends, m, e) => Linked(end, m, e)
    <2>1. NoNewLinks(end, ends, m)
      BY <1>4 DEF NoNewLinks, Settled, PS!NoEnd
    <2> QED BY <2>1, LinksKept DEF SessionsInv
  <1>7. ASSUME NEW m \in Nodes, NEW e \in Nodes, m # n, Known(end, m, e)
        PROVE  Known(ends, m, e)
    <2>1. NoneForgotten(end, ends, m)
      BY <1>4, <1>7 DEF NoneForgotten
    <2> QED BY <1>7, <2>1, KnownKept
  <1>8. entries \in [Nodes -> Books]
    BY <1>2, <1>3 DEF PS!ReapedBook, PS!MarkDisconnected, Books
  <1>9. ASSUME NEW e \in Nodes
        PROVE  BookFits(entries[e], dial[n][e].pc, Linked(ends, n, e),
                        Known(ends, n, e), faults)
    <2>1. BookFits(book[n][e], dial[n][e].pc, Linked(end, n, e), Known(end, n, e), faults)
      BY DEF SessionsInv, BooksInv
    <2>2. Linked(ends, n, e) => Linked(end, n, e)
      BY <1>6
    <2>3. CASE e \in PS!LostEndpoints(n)
      <3>1. entries[e] = [connected |-> FALSE, dialing |-> FALSE, tried |-> TRUE]
        BY <1>2, <2>3 DEF PS!ReapedBook, PS!MarkDisconnected
      <3>2. ~Linked(end, n, e)
        BY <2>3, LinkedLeads DEF PS!LostEndpoints, SessionsInv
      <3> QED BY <2>2, <3>1, <3>2 DEF BookFits
    <2>4. CASE e \notin PS!LostEndpoints(n)
      <3>1. entries[e] = book[n][e]
        BY <1>2, <2>4 DEF PS!ReapedBook
      <3>2. ASSUME Known(end, n, e) PROVE Known(ends, n, e)
        <4>1. PICK c \in Conns : /\ end[c][n].st \in {"open", "closed", "gone"}
                                 /\ end[c][n].est /\ end[c][n].peer = e
          BY <3>2 DEF Known
        <4>2. CASE end[c][n].st # "gone"
          BY <1>4, <4>1, <4>2 DEF Known
        <4>3. CASE end[c][n].st = "gone"
          <5>1. PS!Leads(c, n, e)
            <6>1. end[c][n].version
              BY <4>1 DEF SessionsInv, EndsInv, EndFits
            <6> QED BY <4>1, <6>1 DEF PS!Leads
          <5>2. PICK d \in Conns : PS!Established(d, n) /\ PS!Leads(d, n, e)
            BY <2>4, <4>3, <5>1 DEF PS!LostEndpoints
          <5>3. ends[d][n] = end[d][n] /\ end[d][n].st = "open" /\ end[d][n].est
                /\ end[d][n].peer = e
            BY <1>4, <5>2 DEF PS!Established, PS!Open, PS!Leads
          <5> QED BY <5>3 DEF Known
        <4> QED BY <4>2, <4>3
      <3> QED BY <2>1, <2>2, <3>1, <3>2, BookKept
    <2> QED BY <2>3, <2>4
  <1>10. Cleared(n, ends, entries)
    BY <1>4, <1>5, <1>6, <1>7, <1>8, <1>9 DEF Cleared
  <1> QED BY <1>1, <1>2, <1>10

-----------------------------------------------------------------------------
(* Deliver.                                                                  *)

\* A session that takes a message and does not become established.
LEMMA TakesAlong ==
    ASSUME NEW ends, NEW after, NEW c \in Conns, NEW n \in Nodes, NEW m \in Nodes,
           NEW s, NEW s2, s = ends[c][n], Steps(ends, after, c, n, s2),
           s2.peer = s.peer, s2.est = s.est, s.st = "open", s2.st \in {"open", "closed"}
    PROVE  NoNewLinks(ends, after, m) /\ NoneForgotten(ends, after, m)
  <1>1. ASSUME NEW d \in Conns
        PROVE  /\ Settled(after[d][m]) =>
                      Settled(ends[d][m]) /\ ends[d][m].peer = after[d][m].peer
               /\ ends[d][m].st \in {"open", "closed", "gone"} /\ ends[d][m].est =>
                      /\ after[d][m].st \in {"open", "closed", "gone"} /\ after[d][m].est
                      /\ after[d][m].peer = ends[d][m].peer
    <2>1. CASE d = c /\ m = n
      BY <2>1 DEF Steps, Settled
    <2>2. CASE d # c \/ m # n
      BY <2>2 DEF Steps, Alike, Settled
    <2> QED BY <2>1, <2>2
  <1> QED BY <1>1 DEF NoNewLinks, NoneForgotten

\* A session that has taken its next message, and waits for the one after it.
Follows(s, s2) ==
    /\ s2 \in Ends /\ EndFits(s2) /\ s2.st = "open" /\ s2.peer = s.peer
    /\ \A t \in Ends : InTransit(t, s) => InTransit(t, s2)

LEMMA TakenVersion ==
    ASSUME NEW s \in Ends, EndFits(s), s.st = "open", s.inbox # <<>>,
           ~s.version, ~s.ack, ~s.est,
           NEW s2, s2 = [s EXCEPT !.inbox = Tail(@), !.version = TRUE]
    PROVE  /\ Follows(s, s2)
           /\ s2.est = s.est /\ ~s2.ack /\ Sent(s) = 1 /\ Sent(s2) = 2
  <1>1. Tail(s.inbox) \in Inboxes
    BY Receiving
  <1>2. s2 \in Ends
    BY <1>1 DEF Ends
  <1>3. /\ s2.st = "open" /\ s2.peer = s.peer /\ s2.version = TRUE /\ s2.ack = s.ack
        /\ s2.est = s.est /\ s2.inbox = Tail(s.inbox)
    BY DEF Ends
  <1>4. Seen(s) = 0 /\ Seen(s2) = 1 /\ Sent(s) = 1 /\ Sent(s2) = 2
    BY <1>3 DEF Seen, Sent
  <1>5. \E j \in 0 .. 3 : s2.inbox = Frames(Seen(s2) + 1, j)
    <2>1. PICK j \in 0 .. 3 : Tail(s.inbox) = Frames(Seen(s) + 2, j)
      BY Receiving
    <2> QED BY <1>3, <1>4, <2>1
  <1>6. EndFits(s2)
    BY <1>3, <1>5 DEF EndFits
  <1>7. ASSUME NEW t \in Ends, InTransit(t, s) PROVE InTransit(t, s2)
    <2>1. Seen(s) < Sent(t) /\ Tail(s.inbox) = Frames(Seen(s) + 2, Sent(t))
      BY <1>7, Receiving
    <2>2. Sent(t) \in 0 .. 3
      BY Counts
    <2> QED BY <1>3, <1>4, <2>1, <2>2 DEF InTransit
  <1> QED BY <1>2, <1>3, <1>4, <1>6, <1>7 DEF Follows

LEMMA TakenVerack ==
    ASSUME NEW s \in Ends, EndFits(s), s.st = "open", s.inbox # <<>>,
           s.version, ~s.ack, ~s.est,
           NEW s2, s2 = [s EXCEPT !.inbox = Tail(@), !.ack = TRUE, !.est = TRUE]
    PROVE  Follows(s, s2) /\ s2.est /\ Sent(s) = 2 /\ Sent(s2) = 3
  <1>1. Tail(s.inbox) \in Inboxes
    BY Receiving
  <1>2. s2 \in Ends
    BY <1>1 DEF Ends
  <1>3. /\ s2.st = "open" /\ s2.peer = s.peer /\ s2.version = s.version /\ s2.ack = TRUE
        /\ s2.est = TRUE /\ s2.inbox = Tail(s.inbox)
    BY DEF Ends
  <1>4. Seen(s) = 1 /\ Seen(s2) = 2 /\ Sent(s) = 2 /\ Sent(s2) = 3
    BY <1>3 DEF Seen, Sent
  <1>5. \E j \in 0 .. 3 : s2.inbox = Frames(Seen(s2) + 1, j)
    <2>1. PICK j \in 0 .. 3 : Tail(s.inbox) = Frames(Seen(s) + 2, j)
      BY Receiving
    <2> QED BY <1>3, <1>4, <2>1
  <1>6. EndFits(s2)
    BY <1>3, <1>5 DEF EndFits
  <1>7. ASSUME NEW t \in Ends, InTransit(t, s) PROVE InTransit(t, s2)
    <2>1. Seen(s) < Sent(t) /\ Tail(s.inbox) = Frames(Seen(s) + 2, Sent(t))
      BY <1>7, Receiving
    <2>2. Sent(t) \in 0 .. 3
      BY Counts
    <2> QED BY <1>3, <1>4, <2>1, <2>2 DEF InTransit
  <1> QED BY <1>2, <1>3, <1>4, <1>6, <1>7 DEF Follows

\* A duplicate that loses when its VERACK is in.
Loses(s, s2) ==
    /\ s2 \in Ends /\ EndFits(s2) /\ s2.st = "closed" /\ s2.peer = s.peer
    /\ s2.est = s.est /\ Sent(s) = Sent(s2)

LEMMA TakenLoser ==
    ASSUME NEW s \in Ends, EndFits(s), s.st = "open", s.version, ~s.ack, ~s.est,
           NEW s2, s2 = [s EXCEPT !.inbox = <<>>, !.ack = TRUE, !.st = "closed"]
    PROVE  Loses(s, s2)
  <1>1. s2 \in Ends
    <2>1. <<>> \in Inboxes
      BY DEF Inboxes
    <2> QED BY <2>1 DEF Ends
  <1>2. /\ s2.st = "closed" /\ s2.peer = s.peer /\ s2.version = s.version /\ s2.ack = TRUE
        /\ s2.est = s.est /\ s2.inbox = <<>>
    BY DEF Ends
  <1>3. EndFits(s2)
    BY <1>2 DEF EndFits
  <1>4. Sent(s) = 2 /\ Sent(s2) = 2
    BY <1>2 DEF Sent
  <1> QED BY <1>1, <1>2, <1>3, <1>4 DEF Loses

LEMMA TakenApp ==
    ASSUME NEW s \in Ends, EndFits(s), s.st = "open", s.inbox # <<>>,
           s.version, s.ack, s.est,
           NEW s2, s2 = [s EXCEPT !.inbox = Tail(@)]
    PROVE  Follows(s, s2) /\ s2.est = s.est /\ Sent(s) = Sent(s2)
  <1>1. Tail(s.inbox) \in Inboxes
    BY Receiving
  <1>2. s2 \in Ends
    BY <1>1 DEF Ends
  <1>3. /\ s2.st = "open" /\ s2.peer = s.peer /\ s2.version = s.version /\ s2.ack = s.ack
        /\ s2.est = s.est /\ s2.inbox = Tail(s.inbox)
    BY DEF Ends
  <1>4. Seen(s) = 2 /\ Seen(s2) = 2 /\ Sent(s) = Sent(s2)
    BY <1>3 DEF Seen, Sent
  <1>5. \A j \in 0 .. 3 : Frames(4, j) = <<>>
    BY FrameFacts
  <1>6. s2.inbox = <<>>
    <2>1. PICK j \in 0 .. 3 : Tail(s.inbox) = Frames(Seen(s) + 2, j)
      BY Receiving
    <2> QED BY <1>3, <1>4, <1>5, <2>1
  <1>7. EndFits(s2)
    BY <1>3, <1>6 DEF EndFits
  <1>8. ASSUME NEW t \in Ends, InTransit(t, s) PROVE InTransit(t, s2)
    <2>1. Sent(t) \in 0 .. 3 /\ 2 < Sent(t)
      BY <1>4, <1>8, Receiving, Counts
    <2>2. t.est
      BY <2>1 DEF Sent
    <2> QED BY <1>3, <1>6, <2>2 DEF InTransit
  <1> QED BY <1>2, <1>3, <1>4, <1>7, <1>8 DEF Follows

\* What a node's turn makes of its sessions from ends on, when it takes a message
\* of c: c may be established, which leaves no other session with that peer.
Turned(ends, after, c, n) ==
    /\ EndsInv(after)
    /\ \A m \in Nodes : NoneForgotten(ends, after, m)
    /\ \A m \in Nodes : m # n => NoNewLinks(ends, after, m)
    /\ after[c][n].est /\ ~ends[c][n].est => after[c][n].st = "open"
    /\ IF Settled(after[c][n]) /\ ~Settled(ends[c][n])
       THEN /\ \A d \in Conns \ {c} :
                  Settled(after[d][n]) =>
                      /\ Settled(ends[d][n]) /\ ends[d][n].peer = after[d][n].peer
                      /\ after[d][n].peer # after[c][n].peer
            /\ after[c][n].peer = ends[c][n].peer
       ELSE NoNewLinks(ends, after, n)

LEMMA ReceivedVersion ==
    ASSUME 0 \notin Nodes, NEW ends, EndsInv(ends), NEW c \in Conns, NEW n \in Nodes,
           NEW s, s = ends[c][n], s.st = "open", s.inbox # <<>>,
           ~s.version, ~s.ack, ~s.est,
           NEW taken, taken = [ends EXCEPT ![c][n].inbox = Tail(@)]
    PROVE  Turned(ends, PS!Received(taken, c, n, "VERSION"), c, n)
  <1>1. ends \in AllEnds /\ s \in Ends /\ EndFits(s)
    BY DEF EndsInv, AllEnds
  <1>2. PICK s2 : s2 = [s EXCEPT !.inbox = Tail(@), !.version = TRUE]
    OBVIOUS
  <1>3. /\ s2 \in Ends /\ EndFits(s2) /\ s2.st = "open" /\ s2.peer = s.peer
        /\ s2.est = s.est /\ ~s2.ack /\ Sent(s) = 1 /\ Sent(s2) = 2
        /\ \A t \in Ends : InTransit(t, s) => InTransit(t, s2)
    <2>1. Follows(s, s2) /\ s2.est = s.est /\ ~s2.ack /\ Sent(s) = 1 /\ Sent(s2) = 2
      BY <1>1, <1>2, TakenVersion
    <2> QED BY <2>1 DEF Follows
  <1>4. PICK mid : mid = [ends EXCEPT ![c][n] = s2]
    OBVIOUS
  <1>5. [taken EXCEPT ![c][n].version = TRUE] = mid /\ taken[c][n].peer = s.peer
    BY <1>1, <1>2, <1>4 DEF AllEnds, Ends
  <1>6. PICK after : after = PS!Send(mid, c, s.peer, "VERACK")
    OBVIOUS
  <1>7. EndsInv(after) /\ Steps(ends, after, c, n, s2)
    <2>1. Handshake[Sent(s) + 1] = "VERACK"
      BY <1>3 DEF Handshake
    <2>2. after = PS!Send(mid, c, s.peer, Handshake[Sent(s) + 1])
      BY <1>6, <2>1
    <2>3. ~s.est /\ Sent(s2) = Sent(s) + 1 /\ s2.st # "none" /\ s.st # "none" /\ Active(s)
      BY <1>3 DEF Active
    <2> QED BY <1>3, <1>4, <2>2, <2>3, EndMovesOn
  <1>8. PS!Received(taken, c, n, "VERSION") = after
    <2>1. ~after[c][n].ack
      BY <1>3, <1>7 DEF Steps
    <2> QED BY <1>5, <1>6, <2>1 DEF PS!Received
  <1>9. \A m \in Nodes : NoNewLinks(ends, after, m) /\ NoneForgotten(ends, after, m)
    BY <1>3, <1>7, TakesAlong
  <1>10. ~Settled(after[c][n]) /\ ~after[c][n].est
    BY <1>3, <1>7 DEF Steps, Settled
  <1> QED BY <1>7, <1>8, <1>9, <1>10 DEF Turned

LEMMA ReceivedApp ==
    ASSUME 0 \notin Nodes, NEW ends, EndsInv(ends), NEW c \in Conns, NEW n \in Nodes,
           NEW s, s = ends[c][n], s.st = "open", s.inbox # <<>>,
           s.version, s.ack, s.est,
           NEW taken, taken = [ends EXCEPT ![c][n].inbox = Tail(@)]
    PROVE  Turned(ends, PS!Received(taken, c, n, "APP"), c, n)
  <1>1. ends \in AllEnds /\ s \in Ends /\ EndFits(s)
    BY DEF EndsInv, AllEnds
  <1>2. PICK s2 : s2 = [s EXCEPT !.inbox = Tail(@)]
    OBVIOUS
  <1>3. /\ s2 \in Ends /\ EndFits(s2) /\ s2.st = "open" /\ s2.peer = s.peer
        /\ s2.est = s.est /\ Sent(s) = Sent(s2)
        /\ \A t \in Ends : InTransit(t, s) => InTransit(t, s2)
    <2>1. Follows(s, s2) /\ s2.est = s.est /\ Sent(s) = Sent(s2)
      BY <1>1, <1>2, TakenApp
    <2> QED BY <2>1 DEF Follows
  <1>4. taken = [ends EXCEPT ![c][n] = s2]
    BY <1>1, <1>2 DEF AllEnds
  <1>5. EndsInv(taken) /\ Steps(ends, taken, c, n, s2)
    <2>1. s2.st # "none" /\ s.st # "none" /\ Active(s)
      BY <1>3 DEF Active
    <2> QED BY <1>3, <1>4, <2>1, EndMovesOn
  <1>6. PS!Received(taken, c, n, "APP") = taken
    <2>1. taken[c][n].est
      BY <1>3, <1>5 DEF Steps
    <2> QED BY <2>1 DEF PS!Received
  <1>7. \A m \in Nodes : NoNewLinks(ends, taken, m) /\ NoneForgotten(ends, taken, m)
    BY <1>3, <1>5, TakesAlong
  <1>8. Settled(ends[c][n])
    BY DEF Settled
  <1> QED BY <1>5, <1>6, <1>7, <1>8 DEF Turned

LEMMA ShutFacts ==
    ASSUME NEW s \in Ends, s.st = "open", NEW s2, s2 = PS!Shut(s)
    PROVE  /\ s2 \in Ends /\ Fades(s, s2) /\ s2.st = "closed" /\ s2.est = s.est
           /\ s2.peer = s.peer /\ s2.inbox = <<>>
  <1>1. <<>> \in Inboxes
    BY DEF Inboxes
  <1>2. s2 \in Ends
    BY <1>1 DEF PS!Shut, Ends
  <1>3. /\ s2.st = "closed" /\ s2.est = s.est /\ s2.peer = s.peer /\ s2.inbox = <<>>
        /\ s2.version = s.version /\ s2.ack = s.ack
    BY DEF PS!Shut, Ends
  <1> QED BY <1>2, <1>3 DEF Fades

\* The duplicates of c that lose, when it is not a matter of which one wins.
Rest(ends, n, c, winner) ==
    [d \in Conns |-> IF d \in PS!Rivals(ends, n, c) \ {winner}
                     THEN [ends[d] EXCEPT ![n] = PS!Shut(@)] ELSE ends[d]]

LEMMA CompleteFacts ==
    ASSUME NEW ends, NEW n, NEW c
    PROVE  \E winner : PS!Complete(ends, n, c) =
               IF winner = c
               THEN PS!Send([Rest(ends, n, c, winner) EXCEPT ![c][n].est = TRUE],
                            c, ends[c][n].peer, "APP")
               ELSE Rest(ends, n, c, winner)
  <1> DEFINE first == CHOOSE w \in PS!Rivals(ends, n, c) :
                          \A d \in PS!Rivals(ends, n, c) \ {w} : PS!Before(ends, n, w, d)
  <1>1. PS!Complete(ends, n, c) =
            IF first = c
            THEN PS!Send([Rest(ends, n, c, first) EXCEPT ![c][n].est = TRUE],
                         c, ends[c][n].peer, "APP")
            ELSE Rest(ends, n, c, first)
    BY DEF PS!Complete, Rest
  <1> HIDE DEF first
  <1> QED BY <1>1

\* The sessions mid that are left when those that a completed handshake on c
\* closes, other than c, are closed; rest is what c adds to it.
Left(ends, mid, c, n, sa, rest, winner) ==
    /\ mid \in AllEnds /\ EndsInv(mid)
    /\ mid[c] = ends[c]
    /\ winner = c => rest = [mid EXCEPT ![c][n] = sa]
    /\ winner # c => rest = [mid EXCEPT ![c][n] = PS!Shut(sa)]
    /\ \A d \in Conns, m \in Nodes : m # n => mid[d][m] = ends[d][m]
    /\ \A d \in Conns : \/ Fades(ends[d][n], mid[d][n]) /\ mid[d][n] # PS!NoEnd
                        \/ mid[d][n] = ends[d][n]
    /\ winner = c => \A d \in Conns \ {c} :
          ~(Settled(mid[d][n]) /\ mid[d][n].peer = sa.peer)

LEMMA RestFacts ==
    ASSUME 0 \notin Nodes, NEW ends, EndsInv(ends), NEW c \in Conns, NEW n \in Nodes,
           NEW s, s = ends[c][n], s.st = "open", s.version,
           NEW sa \in Ends, sa.st = "open", sa.version, sa.peer = s.peer,
           NEW got, got = [ends EXCEPT ![c][n] = sa], NEW winner
    PROVE  \E mid : Left(ends, mid, c, n, sa, Rest(got, n, c, winner), winner)
  <1>1. ends \in AllEnds /\ \A d \in Conns : ends[d][n] \in Ends /\ ends[d] \in [Nodes -> Ends]
    BY DEF EndsInv, AllEnds
  <1>2. /\ got \in AllEnds /\ got[c] = [ends[c] EXCEPT ![n] = sa] /\ got[c][n] = sa
        /\ \A d \in Conns \ {c} : got[d] = ends[d]
    BY <1>1 DEF AllEnds
  <1>3. PICK rivals : rivals = PS!Rivals(got, n, c)
    OBVIOUS
  <1>4. /\ c \in rivals /\ rivals \subseteq Conns
        /\ \A d \in rivals \ {c} : ends[d][n].st = "open"
        /\ \A d \in Conns \ {c} : ends[d][n].peer = s.peer /\ ends[d][n].version
                                     /\ ends[d][n].st = "open" => d \in rivals
    BY <1>2, <1>3 DEF PS!Rivals
  <1>5. PICK mid : mid = [d \in Conns |-> IF d \in rivals \ {winner, c}
                                          THEN [ends[d] EXCEPT ![n] = PS!Shut(@)] ELSE ends[d]]
    OBVIOUS
  <1>6. ASSUME NEW d \in rivals \ {c}
        PROVE  LET t == PS!Shut(ends[d][n]) IN
               /\ t \in Ends /\ Fades(ends[d][n], t) /\ t.st = "closed" /\ t # PS!NoEnd
    <2>1. PICK t : t = PS!Shut(ends[d][n])
      OBVIOUS
    <2>2. t \in Ends /\ Fades(ends[d][n], t) /\ t.st = "closed"
      BY <1>1, <1>4, <2>1, ShutFacts
    <2>3. t # PS!NoEnd
      BY <2>2 DEF PS!NoEnd
    <2> QED BY <2>1, <2>2, <2>3
  <1>7. /\ mid \in AllEnds /\ mid[c] = ends[c]
        /\ \A d \in Conns : d \in rivals \ {winner, c} => mid[d][n] = PS!Shut(ends[d][n])
        /\ \A d \in Conns, m \in Nodes :
              d \notin rivals \ {winner, c} \/ m # n => mid[d][m] = ends[d][m]
    <2>1. ASSUME NEW d \in Conns
          PROVE  /\ mid[d] \in [Nodes -> Ends]
                 /\ d \in rivals \ {winner, c} => mid[d][n] = PS!Shut(ends[d][n])
                 /\ \A m \in Nodes :
                       d \notin rivals \ {winner, c} \/ m # n => mid[d][m] = ends[d][m]
      BY <1>1, <1>5, <1>6
    <2>2. mid[c] = ends[c] /\ DOMAIN mid = Conns /\ mid = [d \in Conns |-> mid[d]]
      BY <1>5
    <2> QED BY <2>1, <2>2 DEF AllEnds
  <1>8. \A d \in Conns : \/ Fades(ends[d][n], mid[d][n]) /\ mid[d][n] # PS!NoEnd
                         \/ mid[d][n] = ends[d][n]
    BY <1>6, <1>7
  <1>9. EndsInv(mid)
    <2>1. \A d \in Conns, m \in Nodes : Fades(ends[d][m], mid[d][m])
      BY <1>7, <1>8 DEF Fades
    <2> QED BY <1>7, <2>1, FadeKeeps
  <1>a. ASSUME NEW d \in Conns
        PROVE  /\ d # c => Rest(got, n, c, winner)[d] = mid[d]
               /\ d = c /\ winner = c => Rest(got, n, c, winner)[d] = got[c]
               /\ d = c /\ winner # c =>
                     Rest(got, n, c, winner)[d] = [got[c] EXCEPT ![n] = PS!Shut(sa)]
    <2>1. Rest(got, n, c, winner)[d] =
              IF d \in rivals \ {winner} THEN [got[d] EXCEPT ![n] = PS!Shut(@)] ELSE got[d]
      BY <1>3 DEF Rest
    <2>2. CASE d # c
      <3>1. got[d] = ends[d]
        BY <1>2, <2>2
      <3>2. mid[d] = IF d \in rivals \ {winner}
                     THEN [ends[d] EXCEPT ![n] = PS!Shut(@)] ELSE ends[d]
        BY <1>5, <2>2
      <3> QED BY <2>1, <2>2, <3>1, <3>2
    <2>3. CASE d = c
      BY <1>2, <1>4, <2>1, <2>3
    <2> QED BY <2>2, <2>3
  <1>10. winner = c => Rest(got, n, c, winner) = [mid EXCEPT ![c][n] = sa]
    <2> SUFFICES ASSUME winner = c
                 PROVE  Rest(got, n, c, winner) = [mid EXCEPT ![c] = [@ EXCEPT ![n] = sa]]
      OBVIOUS
    <2>1. ASSUME NEW d \in Conns
          PROVE  Rest(got, n, c, winner)[d] = [mid EXCEPT ![c] = [@ EXCEPT ![n] = sa]][d]
      <3>1. CASE d = c
        <4>1. Rest(got, n, c, winner)[d] = [mid[c] EXCEPT ![n] = sa]
          BY <1>2, <1>7, <1>a, <3>1
        <4> QED BY <1>5, <3>1, <4>1
      <3>2. CASE d # c
        <4>1. Rest(got, n, c, winner)[d] = mid[d]
          BY <1>a, <3>2
        <4> QED BY <1>5, <3>2, <4>1
      <3> QED BY <3>1, <3>2
    <2> QED BY <1>5, <2>1 DEF Rest
  <1>11. winner # c => Rest(got, n, c, winner) = [mid EXCEPT ![c][n] = PS!Shut(sa)]
    <2> SUFFICES ASSUME winner # c
                 PROVE  Rest(got, n, c, winner) = [mid EXCEPT ![c] = [@ EXCEPT ![n] = PS!Shut(sa)]]
      OBVIOUS
    <2>1. ASSUME NEW d \in Conns
          PROVE  Rest(got, n, c, winner)[d] = [mid EXCEPT ![c] = [@ EXCEPT ![n] = PS!Shut(sa)]][d]
      <3>1. CASE d = c
        <4>1. [got[c] EXCEPT ![n] = PS!Shut(sa)] = [mid[c] EXCEPT ![n] = PS!Shut(sa)]
          BY <1>1, <1>2, <1>7
        <4> QED BY <1>5, <1>a, <3>1, <4>1
      <3>2. CASE d # c
        BY <1>5, <1>a, <3>2
      <3> QED BY <3>1, <3>2
    <2> QED BY <1>5, <2>1 DEF Rest
  <1>12. ASSUME winner = c, NEW d \in Conns \ {c}, Settled(mid[d][n]),
                mid[d][n].peer = s.peer
         PROVE  FALSE
    <2>1. d \notin rivals
      BY <1>6, <1>7, <1>12 DEF Settled
    <2>2. mid[d][n] = ends[d][n] /\ ends[d][n].st = "open" /\ ends[d][n].est
      BY <1>7, <1>12, <2>1 DEF Settled
    <2>3. ends[d][n].version
      BY <2>2 DEF EndsInv, EndFits
    <2> QED BY <1>4, <1>12, <2>1, <2>2, <2>3
  <1>13. Left(ends, mid, c, n, sa, Rest(got, n, c, winner), winner)
    <2>1. \A d \in Conns, m \in Nodes : m # n => mid[d][m] = ends[d][m]
      BY <1>7
    <2> QED BY <1>7, <1>8, <1>9, <1>10, <1>11, <1>12, <2>1 DEF Left
  <1> QED BY <1>13

LEMMA ReceivedVerack ==
    ASSUME 0 \notin Nodes, NEW ends, EndsInv(ends), NEW c \in Conns, NEW n \in Nodes,
           NEW s, s = ends[c][n], s.st = "open", s.inbox # <<>>,
           s.version, ~s.ack, ~s.est,
           NEW taken, taken = [ends EXCEPT ![c][n].inbox = Tail(@)]
    PROVE  Turned(ends, PS!Received(taken, c, n, "VERACK"), c, n)
  <1>1. ends \in AllEnds /\ s \in Ends /\ EndFits(s)
    BY DEF EndsInv, AllEnds
  <1>2. PICK sa : sa = [s EXCEPT !.inbox = Tail(@), !.ack = TRUE]
    OBVIOUS
  <1>3. /\ sa \in Ends /\ sa.st = "open" /\ sa.version /\ sa.ack /\ ~sa.est
        /\ sa.peer = s.peer
    <2>1. Tail(s.inbox) \in Inboxes
      BY <1>1, Receiving
    <2> QED BY <1>1, <1>2, <2>1 DEF Ends
  <1>4. PICK got : got = [ends EXCEPT ![c][n] = sa]
    OBVIOUS
  <1>5. [taken EXCEPT ![c][n].ack = TRUE] = got /\ got[c][n] = sa
    BY <1>1, <1>2, <1>4 DEF AllEnds, Ends
  <1>6. PS!Received(taken, c, n, "VERACK") = PS!Complete(got, n, c)
    BY <1>3, <1>5 DEF PS!Received
  <1>7. PICK winner : PS!Complete(got, n, c) =
               IF winner = c
               THEN PS!Send([Rest(got, n, c, winner) EXCEPT ![c][n].est = TRUE],
                            c, got[c][n].peer, "APP")
               ELSE Rest(got, n, c, winner)
    BY CompleteFacts
  <1>8. PICK mid : Left(ends, mid, c, n, sa, Rest(got, n, c, winner), winner)
    BY <1>3, <1>4, RestFacts
  <1>9. /\ mid \in AllEnds /\ EndsInv(mid) /\ mid[c][n] = s
        /\ \A m \in Nodes : NoNewLinks(ends, mid, m) /\ NoneForgotten(ends, mid, m)
    <2>1. mid \in AllEnds /\ EndsInv(mid) /\ mid[c][n] = s
      BY <1>8 DEF Left
    <2>2. ASSUME NEW d \in Conns, NEW m \in Nodes
          PROVE  \/ Fades(ends[d][m], mid[d][m]) /\ mid[d][m] # PS!NoEnd
                 \/ mid[d][m] = ends[d][m]
      BY <1>8 DEF Left
    <2>3. \A m \in Nodes : NoNewLinks(ends, mid, m) /\ NoneForgotten(ends, mid, m)
      BY <2>2 DEF NoNewLinks, NoneForgotten, Settled, Fades
    <2> QED BY <2>1, <2>3
  <1> DEFINE after == PS!Received(taken, c, n, "VERACK")
  <1>10. CASE winner = c
    <2>1. PICK s2 : s2 = [s EXCEPT !.inbox = Tail(@), !.ack = TRUE, !.est = TRUE]
      OBVIOUS
    <2>2. Follows(s, s2) /\ s2.est /\ Sent(s) = 2 /\ Sent(s2) = 3
      BY <1>1, <2>1, TakenVerack
    <2>3. /\ s2 \in Ends /\ EndFits(s2) /\ s2.st = "open" /\ s2.peer = s.peer
          /\ \A t \in Ends : InTransit(t, s) => InTransit(t, s2)
      BY <2>2 DEF Follows
    <2>4. PICK step : step = [mid EXCEPT ![c][n] = s2]
      OBVIOUS
    <2>5. [Rest(got, n, c, winner) EXCEPT ![c][n].est = TRUE] = step
      <3>1. Rest(got, n, c, winner) = [mid EXCEPT ![c][n] = sa]
        BY <1>8, <1>10 DEF Left
      <3>2. [sa EXCEPT !.est = TRUE] = s2
        BY <1>1, <1>2, <2>1 DEF Ends
      <3>3. PICK rest : rest = [mid EXCEPT ![c] = [mid[c] EXCEPT ![n] = sa]]
        OBVIOUS
      <3>4. mid \in [Conns -> [Nodes -> Ends]] /\ mid[c] \in [Nodes -> Ends]
        BY <1>9 DEF AllEnds
      <3>5. rest[c] = [mid[c] EXCEPT ![n] = sa] /\ rest[c][n] = sa
        BY <3>3, <3>4
      <3>6. [rest EXCEPT ![c][n].est = TRUE] = [rest EXCEPT ![c] = [rest[c] EXCEPT ![n] = s2]]
        BY <3>2, <3>5
      <3>7. [rest[c] EXCEPT ![n] = s2] = [mid[c] EXCEPT ![n] = s2]
        BY <3>4, <3>5
      <3>8. [rest EXCEPT ![c] = [mid[c] EXCEPT ![n] = s2]] = step
        BY <2>4, <3>3, <3>4
      <3> QED BY <3>1, <3>3, <3>6, <3>7, <3>8
    <2>6. after = PS!Send(step, c, s.peer, Handshake[Sent(s) + 1])
      <3>1. Handshake[Sent(s) + 1] = "APP"
        BY <2>2 DEF Handshake
      <3> QED BY <1>3, <1>5, <1>6, <1>7, <1>10, <2>5, <3>1
    <2> HIDE DEF after
    <2>7. EndsInv(after) /\ Steps(mid, after, c, n, s2)
      <3>1. ~s.est /\ Sent(s2) = Sent(s) + 1 /\ s2.st # "none" /\ s.st # "none" /\ Active(s)
        BY <2>2, <2>3 DEF Active
      <3> QED BY <1>9, <2>3, <2>4, <2>6, <3>1, EndMovesOn
    <2>8. ASSUME NEW m \in Nodes PROVE NoneForgotten(ends, after, m)
      <3>1. NoneForgotten(ends, mid, m)
        BY <1>9
      <3>2. \A d \in Conns : d # c \/ m # n => Alike(mid[d][m], after[d][m])
        BY <2>7 DEF Steps
      <3>3. m = n => after[c][m] = s2
        BY <2>7 DEF Steps
      <3> QED BY <2>2, <2>3, <3>1, <3>2, <3>3 DEF NoneForgotten, Alike
    <2>9. ASSUME NEW m \in Nodes, m # n PROVE NoNewLinks(ends, after, m)
      <3>1. NoNewLinks(ends, mid, m)
        BY <1>9
      <3>2. \A d \in Conns : Alike(mid[d][m], after[d][m])
        BY <2>7, <2>9 DEF Steps
      <3> QED BY <3>1, <3>2 DEF NoNewLinks, Alike, Settled
    <2>10. ASSUME NEW d \in Conns \ {c}, Settled(after[d][n])
           PROVE  /\ Settled(ends[d][n]) /\ ends[d][n].peer = after[d][n].peer
                  /\ after[d][n].peer # after[c][n].peer
      <3>1. Alike(mid[d][n], after[d][n]) /\ after[c][n] = s2
        BY <2>7 DEF Steps
      <3>2. Settled(mid[d][n]) /\ mid[d][n].peer = after[d][n].peer
        BY <2>10, <3>1 DEF Alike, Settled
      <3>3. mid[d][n].peer # s.peer
        BY <1>3, <1>8, <1>10, <3>2 DEF Left
      <3> QED BY <1>9, <2>3, <3>1, <3>2, <3>3 DEF NoNewLinks
    <2>11. /\ after[c][n].st = "open" /\ Settled(after[c][n]) /\ ~Settled(ends[c][n])
           /\ after[c][n].peer = ends[c][n].peer
      BY <2>2, <2>3, <2>7 DEF Steps, Settled
    <2>12. Turned(ends, after, c, n)
      BY <2>7, <2>8, <2>9, <2>10, <2>11 DEF Turned
    <2> QED BY <2>12 DEF after
  <1>11. CASE winner # c
    <2>1. PICK s2 : s2 = [s EXCEPT !.inbox = <<>>, !.ack = TRUE, !.st = "closed"]
      OBVIOUS
    <2>2. /\ s2 \in Ends /\ EndFits(s2) /\ s2.st = "closed" /\ s2.peer = s.peer
          /\ s2.est = s.est /\ Sent(s) = Sent(s2)
      <3>1. Loses(s, s2)
        BY <1>1, <2>1, TakenLoser
      <3> QED BY <3>1 DEF Loses
    <2>3. after = [mid EXCEPT ![c][n] = s2]
      <3>1. PS!Shut(sa) = s2
        BY <1>1, <1>2, <2>1 DEF PS!Shut, Ends
      <3>2. Rest(got, n, c, winner) = [mid EXCEPT ![c][n] = PS!Shut(sa)]
        BY <1>8, <1>11 DEF Left
      <3> QED BY <1>6, <1>7, <1>11, <3>1, <3>2
    <2> HIDE DEF after
    <2>4. EndsInv(after) /\ Steps(mid, after, c, n, s2)
      <3>1. s2.st # "none" /\ s.st # "none" /\ ~Active(s2)
        BY <2>2 DEF Active
      <3> QED BY <1>9, <2>2, <2>3, <3>1, EndMovesOn, ZenonT(40)
    <2>5. \A m \in Nodes : NoNewLinks(mid, after, m) /\ NoneForgotten(mid, after, m)
      BY <1>9, <2>2, <2>4, TakesAlong
    <2>6. \A m \in Nodes : NoNewLinks(ends, after, m) /\ NoneForgotten(ends, after, m)
      BY <1>9, <2>5 DEF NoNewLinks, NoneForgotten
    <2>7. ~Settled(after[c][n]) /\ ~after[c][n].est
      BY <2>2, <2>4 DEF Steps, Settled
    <2>8. Turned(ends, after, c, n)
      BY <2>4, <2>6, <2>7 DEF Turned
    <2> QED BY <2>8 DEF after
  <1> QED BY <1>10, <1>11

LEMMA DeliverSteps ==
    ASSUME 0 \notin Nodes, SessionsInv, NEW c \in Conns, NEW n \in Nodes, PS!Deliver(c, n)
    PROVE  SessionsInv'
  <1>1. PICK ends, entries : ends = PS!ReapedEnd(n) /\ entries = PS!ReapedBook(n)
    OBVIOUS
  <1>2. Cleared(n, ends, entries)
    BY <1>1, Reaping
  <1>3. PICK s : s = end[c][n]
    OBVIOUS
  <1>4. s.st = "open" /\ s.inbox # <<>> /\ ends[c][n] = s
    BY <1>2, <1>3 DEF PS!Deliver, PS!Open, Cleared
  <1>5. s \in Ends /\ EndFits(s) /\ EndsInv(ends) /\ ends \in AllEnds
    BY <1>2, <1>3 DEF SessionsInv, EndsInv, AllEnds, Cleared
  <1>6. PICK message : message = Head(s.inbox)
    OBVIOUS
  <1>7. /\ ~PS!Unexpected(s, message)
        /\ \/ message = "VERSION" /\ ~s.version /\ ~s.ack /\ ~s.est
           \/ message = "VERACK" /\ s.version /\ ~s.ack /\ ~s.est
           \/ message = "APP" /\ s.version /\ s.ack /\ s.est
    BY <1>4, <1>5, <1>6, NextMessage
  <1>8. PICK taken : taken = [ends EXCEPT ![c][n].inbox = Tail(@)]
    OBVIOUS
  <1>9. ~PS!Unexpected(taken[c][n], message)
    <2>1. taken[c][n] = [s EXCEPT !.inbox = Tail(@)]
      BY <1>4, <1>5, <1>8 DEF AllEnds
    <2>2. /\ taken[c][n].version = s.version /\ taken[c][n].ack = s.ack
          /\ taken[c][n].est = s.est
      BY <1>5, <2>1 DEF Ends
    <2> QED BY <1>7, <2>2 DEF PS!Unexpected
  <1>10. PICK after : after = PS!Received(taken, c, n, message)
    OBVIOUS
  <1>11. Turned(ends, after, c, n)
    <2>1. CASE message = "VERSION" /\ ~s.version /\ ~s.ack /\ ~s.est
      BY <1>4, <1>5, <1>8, <1>10, <2>1, ReceivedVersion
    <2>2. CASE message = "VERACK" /\ s.version /\ ~s.ack /\ ~s.est
      BY <1>4, <1>5, <1>8, <1>10, <2>2, ReceivedVerack
    <2>3. CASE message = "APP" /\ s.version /\ s.ack /\ s.est
      BY <1>4, <1>5, <1>8, <1>10, <2>3, ReceivedApp
    <2> QED BY <1>7, <2>1, <2>2, <2>3
  <1>12. PICK e : e = s.peer
    OBVIOUS
  <1>13. /\ end' = after
         /\ ~accused'
         /\ faults' = faults
    BY <1>1, <1>3, <1>6, <1>8, <1>9, <1>10 DEF PS!Deliver, SessionsInv
  <1>14. LET new == after[c][n].est /\ ~s.est IN
         /\ book' = [book EXCEPT ![n] =
               IF new THEN [entries EXCEPT ![e] = PS!MarkConnected(@)] ELSE entries]
         /\ dial' = IF new /\ dial[n][e].pc = "shake" /\ dial[n][e].conn = c
                    THEN [dial EXCEPT ![n][e].pc = "ready"] ELSE dial
    BY <1>1, <1>3, <1>6, <1>8, <1>9, <1>10, <1>12 DEF PS!Deliver
  <1>15. e \in Nodes /\ e # n
    <2>1. s.peer \in Nodes
      BY <1>4, <1>5 DEF EndFits
    <2>2. s.peer # n
      BY <1>3 DEF SessionsInv, EndsInv
    <2> QED BY <1>12, <2>1, <2>2
  <1>16. EndsInv(after) /\ \A m \in Nodes : NoneForgotten(ends, after, m)
    BY <1>11 DEF Turned
  <1>17. ASSUME NEW m \in Nodes, m # n \/ NoNewLinks(ends, after, n)
         PROVE  /\ OneLink(after, m)
                /\ \A k \in Nodes : Linked(after, m, k) => Linked(ends, m, k)
    <2>1. NoNewLinks(ends, after, m) /\ OneLink(ends, m)
      BY <1>2, <1>11, <1>17 DEF Turned, Cleared
    <2> QED BY <2>1, LinksKept
  <1>18. \A m, k \in Nodes : Known(ends, m, k) => Known(after, m, k)
    BY <1>16, KnownKept
  <1>19. ASSUME NEW m \in Nodes, NEW k \in Nodes, m # n
         PROVE  BookFits(book[m][k], dial[m][k].pc, Linked(after, m, k), Known(after, m, k), faults)
    <2>1. BookFits(book[m][k], dial[m][k].pc, Linked(end, m, k), Known(end, m, k), faults)
      BY DEF SessionsInv, BooksInv
    <2>2. Linked(after, m, k) => Linked(end, m, k)
      BY <1>2, <1>17, <1>19 DEF Cleared
    <2>3. Known(end, m, k) => Known(after, m, k)
      BY <1>2, <1>18, <1>19 DEF Cleared
    <2> QED BY <2>1, <2>2, <2>3, BookKept
  <1>20. ASSUME NEW k \in Nodes, Linked(after, n, k) => Linked(ends, n, k)
         PROVE  BookFits(entries[k], dial[n][k].pc, Linked(after, n, k), Known(after, n, k), faults)
    <2>1. BookFits(entries[k], dial[n][k].pc, Linked(ends, n, k), Known(ends, n, k), faults)
      BY <1>2 DEF Cleared
    <2> QED BY <1>18, <1>20, <2>1, BookKept
  <1>21. /\ faults \in Nat /\ dial \in [Nodes -> [Nodes -> Dials]]
         /\ book \in [Nodes -> [Nodes -> Books]] /\ entries \in [Nodes -> Books]
         /\ \A m \in Nodes : dial[m][m].pc = "none"
    BY <1>2 DEF SessionsInv, BooksInv, Cleared
  <1>22. CASE after[c][n].est /\ ~s.est
    <2>1. PICK entry : entry = [connected |-> TRUE, dialing |-> FALSE, tried |-> TRUE]
      OBVIOUS
    <2>2. /\ book' = [book EXCEPT ![n] = [entries EXCEPT ![e] = entry]]
          /\ \/ dial' = dial
             \/ dial' = [dial EXCEPT ![n][e].pc = "ready"]
      BY <1>14, <1>22, <2>1 DEF PS!MarkConnected
    <2>3. /\ after[c][n].st = "open" /\ after[c][n].peer = e
          /\ \A d \in Conns \ {c} :
                Settled(after[d][n]) =>
                    /\ Settled(ends[d][n]) /\ ends[d][n].peer = after[d][n].peer
                    /\ after[d][n].peer # after[c][n].peer
      BY <1>4, <1>11, <1>12, <1>22 DEF Turned, Settled
    <2>4. OneLink(after, n)
      <3>1. OneLink(ends, n)
        BY <1>2 DEF Cleared
      <3> SUFFICES ASSUME NEW d1 \in Links(after, n), NEW d2 \in Links(after, n),
                          after[d1][n].peer = after[d2][n].peer
                   PROVE  d1 = d2
        BY DEF OneLink
      <3>2. /\ d1 \in Conns /\ Settled(after[d1][n])
            /\ d2 \in Conns /\ Settled(after[d2][n])
        BY DEF Links, Settled
      <3>3. CASE d1 = c \/ d2 = c
        BY <2>3, <3>2, <3>3
      <3>4. CASE d1 # c /\ d2 # c
        <4>1. d1 \in Links(ends, n) /\ d2 \in Links(ends, n)
              /\ ends[d1][n].peer = ends[d2][n].peer
          BY <2>3, <3>2, <3>4 DEF Links, Settled
        <4> QED BY <3>1, <4>1 DEF OneLink
      <3> QED BY <3>3, <3>4
    <2>5. ASSUME NEW k \in Nodes, k # e, Linked(after, n, k) PROVE Linked(ends, n, k)
      <3>1. PICK d \in Links(after, n) : after[d][n].peer = k
        BY <2>5 DEF Linked
      <3>2. d \in Conns \ {c} /\ Settled(after[d][n])
        BY <2>3, <2>5, <3>1 DEF Links, Settled
      <3>3. d \in Links(ends, n) /\ ends[d][n].peer = k
        BY <2>3, <3>1, <3>2 DEF Links, Settled
      <3> QED BY <3>3 DEF Linked
    <2>6. Known(after, n, e)
      BY <1>22, <2>3 DEF Known
    <2>7. /\ dial' \in [Nodes -> [Nodes -> Dials]]
          /\ \A m, k \in Nodes : m # n \/ k # e => dial'[m][k] = dial[m][k]
      <3>1. CASE dial' = dial
        BY <1>21, <3>1
      <3>2. CASE dial' = [dial EXCEPT ![n][e].pc = "ready"]
        <4>1. PICK t : t = [dial[n][e] EXCEPT !.pc = "ready"]
          OBVIOUS
        <4>2. t \in Dials
          <5>1. dial[n][e] \in Dials
            BY <1>15, <1>21
          <5> QED BY <4>1, <5>1 DEF Dials
        <4>3. dial' = [dial EXCEPT ![n] = [dial[n] EXCEPT ![e] = t]]
          BY <3>2, <4>1
        <4> QED BY <1>15, <1>21, <4>2, <4>3
      <3> QED BY <2>2, <3>1, <3>2
    <2>8. /\ book' \in [Nodes -> [Nodes -> Books]]
          /\ book'[n][e] = entry
          /\ \A k \in Nodes : k # e => book'[n][k] = entries[k]
          /\ \A m \in Nodes : m # n => book'[m] = book[m]
      <3>1. entry \in Books
        BY <2>1 DEF Books
      <3> QED BY <1>15, <1>21, <2>2, <3>1
    <2>9. ASSUME NEW m \in Nodes, NEW k \in Nodes
          PROVE  BookFits(book'[m][k], dial'[m][k].pc, Linked(after, m, k),
                          Known(after, m, k), faults)
      <3>1. CASE m # n
        BY <1>19, <2>7, <2>8, <3>1
      <3>2. CASE m = n /\ k # e
        BY <1>20, <2>5, <2>7, <2>8, <3>2
      <3>3. CASE m = n /\ k = e
        BY <2>1, <2>6, <2>8, <3>3 DEF BookFits
      <3> QED BY <3>1, <3>2, <3>3
    <2>10. \A m \in Nodes : dial'[m][m].pc = "none"
      BY <1>15, <1>21, <2>7
    <2>11. \A m \in Nodes : OneLink(after, m)
      BY <1>17, <2>4
    <2> QED BY <1>13, <1>16, <1>21, <2>7, <2>8, <2>9, <2>10, <2>11 DEF SessionsInv, BooksInv
  <1>23. CASE ~(after[c][n].est /\ ~s.est)
    <2>1. book' = [book EXCEPT ![n] = entries] /\ dial' = dial
      BY <1>14, <1>23
    <2>2. NoNewLinks(ends, after, n)
      BY <1>4, <1>11, <1>23 DEF Turned, Settled
    <2>3. /\ book' \in [Nodes -> [Nodes -> Books]] /\ book'[n] = entries
          /\ \A m \in Nodes : m # n => book'[m] = book[m]
      BY <1>21, <2>1
    <2>4. ASSUME NEW m \in Nodes, NEW k \in Nodes
          PROVE  BookFits(book'[m][k], dial[m][k].pc, Linked(after, m, k),
                          Known(after, m, k), faults)
      <3>1. CASE m # n
        BY <1>19, <2>3, <3>1
      <3>2. CASE m = n
        BY <1>17, <1>20, <2>2, <2>3, <3>2
      <3> QED BY <3>1, <3>2
    <2>5. \A m \in Nodes : OneLink(after, m)
      BY <1>17, <2>2
    <2> QED BY <1>13, <1>16, <1>21, <2>1, <2>3, <2>4, <2>5 DEF SessionsInv, BooksInv
  <1> QED BY <1>22, <1>23

-----------------------------------------------------------------------------
(* The other steps.                                                          *)

\* Connections end, and what is established is not touched otherwise.
Goes(after) ==
    /\ EndsInv(after)
    /\ \A n \in Nodes : NoNewLinks(end, after, n) /\ NoneForgotten(end, after, n)

LEMMA OneFades ==
    ASSUME 0 \notin Nodes, EndsInv(end), NEW c \in Conns, NEW n \in Nodes,
           NEW s, s = end[c][n], NEW s2 \in Ends, Fades(s, s2),
           (s2.st \in {"closed", "gone"} /\ s.st # "none") \/ s.st = "wait",
           NEW after, after = [end EXCEPT ![c][n] = s2]
    PROVE  Goes(after)
  <1>1. end \in AllEnds
    BY DEF EndsInv
  <1>2. Puts(end, after, c, n, s2)
    BY <1>1, PutFacts
  <1>3. EndsInv(after)
    <2>1. \A d \in Conns, m \in Nodes : Fades(end[d][m], after[d][m])
      BY <1>2 DEF Puts, Fades
    <2> QED BY <1>2, <2>1, FadeKeeps DEF Puts
  <1>4. /\ Settled(s2) => Settled(s) /\ s.peer = s2.peer
        /\ s.st \in {"open", "closed", "gone"} /\ s.est =>
              s2.st \in {"open", "closed", "gone"} /\ s2.est /\ s2.peer = s.peer
    BY DEF Fades, Settled, PS!NoEnd
  <1>5. ASSUME NEW m \in Nodes
        PROVE  NoNewLinks(end, after, m) /\ NoneForgotten(end, after, m)
    BY <1>2, <1>4 DEF Puts, NoNewLinks, NoneForgotten
  <1> QED BY <1>3, <1>5 DEF Goes

LEMMA ShutOne ==
    ASSUME 0 \notin Nodes, EndsInv(end), NEW c \in Conns, NEW n \in Nodes, PS!Open(c, n),
           NEW after, after = [end EXCEPT ![c][n] = PS!Shut(@)]
    PROVE  Goes(after)
  <1>1. PICK s : s = end[c][n]
    OBVIOUS
  <1>2. s \in Ends /\ s.st = "open"
    BY <1>1 DEF EndsInv, AllEnds, PS!Open
  <1>3. PICK s2 : s2 = PS!Shut(s)
    OBVIOUS
  <1>4. s2 \in Ends /\ Fades(s, s2) /\ s2.st = "closed"
    BY <1>2, <1>3, ShutFacts
  <1>5. after = [end EXCEPT ![c][n] = s2]
    BY <1>1, <1>3
  <1>6. s2.st \in {"closed", "gone"} /\ s.st # "none"
    BY <1>2, <1>4
  <1> QED BY <1>1, <1>4, <1>5, <1>6, OneFades

LEMMA DialsAre ==
    ASSUME SessionsInv
    PROVE  /\ faults \in Nat /\ faults + 1 \in Nat /\ faults + 1 # 0
           /\ dial \in [Nodes -> [Nodes -> Dials]]
           /\ \A n \in Nodes : dial[n][n].pc = "none"
           /\ book \in [Nodes -> [Nodes -> Books]]
  BY DEF SessionsInv, BooksInv

LEMMA PeerGoneSteps ==
    ASSUME 0 \notin Nodes, SessionsInv, NEW c \in Conns, NEW n \in Nodes,
           PS!PeerGone(c, n) \/ PS!Reset(c, n)
    PROVE  SessionsInv'
  <1>1. PICK after : after = [end EXCEPT ![c][n] = PS!Shut(@)]
    OBVIOUS
  <1>2. Goes(after)
    BY <1>1, ShutOne DEF PS!PeerGone, PS!Reset, SessionsInv
  <1>3. /\ end' = after /\ UNCHANGED <<dial, book, accused>>
        /\ faults' = faults \/ faults' = faults + 1
    BY <1>1 DEF PS!PeerGone, PS!Reset, PS!history
  <1> QED BY <1>2, <1>3, SessionsKept, DialsAre DEF Goes

LEMMA OnCloseSteps ==
    ASSUME 0 \notin Nodes, SessionsInv, NEW c \in Conns, NEW n \in Nodes, PS!OnClose(c, n)
    PROVE  SessionsInv'
  <1>1. PICK s : s = end[c][n]
    OBVIOUS
  <1>2. s \in Ends /\ s.st = "closed" /\ s.peer \in Nodes /\ s.peer # n
    BY <1>1 DEF PS!OnClose, SessionsInv, EndsInv, AllEnds, EndFits
  <1>3. PICK s2 : s2 = [s EXCEPT !.st = "gone"]
    OBVIOUS
  <1>4. s2 \in Ends /\ s2.st = "gone" /\ Fades(s, s2)
    <2>1. /\ s2 \in Ends /\ s2.st = "gone" /\ s2.peer = s.peer /\ s2.version = s.version
          /\ s2.ack = s.ack /\ s2.est = s.est /\ s2.inbox = s.inbox
      BY <1>2, <1>3 DEF Ends
    <2> QED BY <1>2, <2>1 DEF Fades
  <1>5. PICK after : after = [end EXCEPT ![c][n] = s2]
    OBVIOUS
  <1>6. Goes(after)
    <2>1. s2.st \in {"closed", "gone"} /\ s.st # "none"
      BY <1>2, <1>4
    <2> QED BY <1>1, <1>4, <1>5, <2>1, OneFades DEF SessionsInv
  <1>7. end' = after /\ UNCHANGED <<book, accused, faults>>
    BY <1>1, <1>3, <1>5 DEF PS!OnClose, PS!history
  <1>8. \/ dial' = dial
        \/ dial' = [dial EXCEPT ![n][s.peer].pc = "lost"]
    BY <1>1 DEF PS!OnClose
  <1>9. /\ dial' \in [Nodes -> [Nodes -> Dials]]
        /\ \A m \in Nodes : dial'[m][m].pc = "none"
        /\ \A m, k \in Nodes : dial'[m][k].pc = dial[m][k].pc \/ dial'[m][k].pc = "lost"
    <2>1. CASE dial' = dial
      BY <2>1, DialsAre
    <2>2. CASE dial' = [dial EXCEPT ![n][s.peer].pc = "lost"]
      <3>1. dial[n][s.peer] \in Dials
        BY <1>2, DialsAre
      <3>2. PICK t : t = [dial[n][s.peer] EXCEPT !.pc = "lost"]
        OBVIOUS
      <3>3. t \in Dials /\ t.pc = "lost"
        BY <3>1, <3>2 DEF Dials
      <3>4. dial' = [dial EXCEPT ![n] = [dial[n] EXCEPT ![s.peer] = t]]
        BY <2>2, <3>2
      <3> QED BY <1>2, <3>3, <3>4, DialsAre
    <2> QED BY <1>8, <2>1, <2>2
  <1> QED BY <1>6, <1>7, <1>9, SessionsKept, DialsAre DEF Goes

LEMMA ConnectSteps ==
    ASSUME SessionsInv, NEW n \in Nodes, NEW e \in Nodes, PS!Connect(n, e)
    PROVE  SessionsInv'
  <1>1. n # e /\ ~PS!Reaches(n, e) /\ UNCHANGED <<end, faults, accused>>
    BY DEF PS!Connect, PS!history
  <1>2. /\ dial' \in [Nodes -> [Nodes -> Dials]]
        /\ dial'[n][e].pc = "connect"
        /\ \A m, k \in Nodes : m # n \/ k # e => dial'[m][k] = dial[m][k]
    <2>1. PICK t : t = [dial[n][e] EXCEPT !.pc = "connect"]
      OBVIOUS
    <2>2. dial[n][e] \in Dials
      BY DialsAre
    <2>3. t \in Dials /\ t.pc = "connect"
      BY <2>1, <2>2 DEF Dials
    <2>4. dial' = [dial EXCEPT ![n] = [dial[n] EXCEPT ![e] = t]]
      BY <2>1 DEF PS!Connect
    <2> QED BY <2>3, <2>4, DialsAre
  <1>3. \A m \in Nodes : dial'[m][m].pc = "none"
    BY <1>1, <1>2, DialsAre
  <1>4. CASE book' = book
    <2>1. \A m \in Nodes : NoNewLinks(end, end, m) /\ NoneForgotten(end, end, m)
      BY DEF NoNewLinks, NoneForgotten
    <2>2. EndsInv(end)
      BY DEF SessionsInv
    <2>3. \A m, k \in Nodes : dial'[m][k].pc = dial[m][k].pc \/ dial'[m][k].pc = "connect"
      BY <1>2
    <2> QED BY <1>1, <1>2, <1>3, <1>4, <2>1, <2>2, <2>3, SessionsKept, DialsAre
  <1>5. CASE PS!Due(book[n][e]) /\ book' = [book EXCEPT ![n][e] = PS!MarkAttempt(@)]
    <2>1. PICK b : b = PS!MarkAttempt(book[n][e])
      OBVIOUS
    <2>2. book[n][e] \in Books
      BY DialsAre
    <2>3. b \in Books /\ ~b.connected
      BY <1>5, <2>1, <2>2 DEF PS!MarkAttempt, PS!Due, Books
    <2>4. /\ book' \in [Nodes -> [Nodes -> Books]] /\ book'[n][e] = b
          /\ \A m, k \in Nodes : m # n \/ k # e => book'[m][k] = book[m][k]
      <3>1. book' = [book EXCEPT ![n] = [book[n] EXCEPT ![e] = b]]
        BY <1>5, <2>1
      <3> QED BY <2>3, <3>1, DialsAre
    <2>5. ~Linked(end, n, e)
      BY <1>1, LinkedLeads DEF SessionsInv
    <2>6. ASSUME NEW m \in Nodes, NEW k \in Nodes
          PROVE  BookFits(book'[m][k], dial'[m][k].pc, Linked(end, m, k), Known(end, m, k), faults)
      <3>1. CASE m = n /\ k = e
        BY <1>2, <2>3, <2>4, <2>5, <3>1 DEF BookFits
      <3>2. CASE m # n \/ k # e
        BY <1>2, <2>4, <3>2 DEF SessionsInv, BooksInv
      <3> QED BY <3>1, <3>2
    <2> QED BY <1>1, <1>2, <1>3, <2>4, <2>6 DEF SessionsInv, BooksInv
  <1> QED BY <1>4, <1>5 DEF PS!Connect

LEMMA TickSteps ==
    ASSUME 0 \notin Nodes, SessionsInv, NEW n \in Nodes, NEW due, PS!Tick(n, due)
    PROVE  SessionsInv'
  <1>1. PICK ends, entries : ends = PS!ReapedEnd(n) /\ entries = PS!ReapedBook(n)
    OBVIOUS
  <1>2. Cleared(n, ends, entries)
    BY <1>1, Reaping
  <1>3. /\ end' = ends /\ UNCHANGED <<faults, accused>>
        /\ book' = [book EXCEPT ![n] =
              [e \in Nodes |-> IF e \in due THEN PS!MarkAttempt(entries[e]) ELSE entries[e]]]
        /\ dial' = [dial EXCEPT ![n] =
              [e \in Nodes |-> IF e \in due THEN [PS!NoDial EXCEPT !.pc = "connect"]
                                            ELSE dial[n][e]]]
    BY <1>1 DEF PS!Tick, PS!history
  <1>4. \A e \in due : e \in Nodes /\ e # n /\ PS!Due(entries[e]) /\ ~PS!Reaches(n, e)
    BY <1>1 DEF PS!Tick, PS!Eligible
  <1>5. entries \in [Nodes -> Books]
    BY <1>2 DEF Cleared
  <1>6. PICK new : new = [PS!NoDial EXCEPT !.pc = "connect"]
    OBVIOUS
  <1>7. new \in Dials /\ new.pc = "connect"
    BY <1>6 DEF PS!NoDial, Dials
  <1>8. /\ dial' \in [Nodes -> [Nodes -> Dials]]
        /\ \A e \in Nodes : dial'[n][e] = IF e \in due THEN new ELSE dial[n][e]
        /\ \A m \in Nodes : m # n => dial'[m] = dial[m]
    <2>1. PICK row : row = [e \in Nodes |-> IF e \in due THEN new ELSE dial[n][e]]
      OBVIOUS
    <2>2. row \in [Nodes -> Dials]
      BY <1>7, <2>1, DialsAre
    <2>3. dial' = [dial EXCEPT ![n] = row]
      BY <1>3, <1>6, <2>1
    <2> QED BY <2>1, <2>2, <2>3, DialsAre
  <1>9. ASSUME NEW e \in Nodes
        PROVE  /\ PS!MarkAttempt(entries[e]) \in Books
               /\ PS!MarkAttempt(entries[e]).connected = entries[e].connected
    BY <1>5 DEF PS!MarkAttempt, Books
  <1>10. /\ book' \in [Nodes -> [Nodes -> Books]]
         /\ \A e \in Nodes : book'[n][e] = IF e \in due THEN PS!MarkAttempt(entries[e])
                                                        ELSE entries[e]
         /\ \A m \in Nodes : m # n => book'[m] = book[m]
    <2>1. PICK row : row = [e \in Nodes |-> IF e \in due THEN PS!MarkAttempt(entries[e])
                                                         ELSE entries[e]]
      OBVIOUS
    <2>2. row \in [Nodes -> Books]
      BY <1>5, <1>9, <2>1
    <2>3. book' = [book EXCEPT ![n] = row]
      BY <1>3, <2>1
    <2> QED BY <2>1, <2>2, <2>3, DialsAre
  <1>11. \A m \in Nodes : dial'[m][m].pc = "none"
    BY <1>4, <1>8, DialsAre
  <1>12. ASSUME NEW m \in Nodes, NEW k \in Nodes
         PROVE  BookFits(book'[m][k], dial'[m][k].pc, Linked(ends, m, k), Known(ends, m, k), faults)
    <2>1. CASE m # n
      <3>1. BookFits(book[m][k], dial[m][k].pc, Linked(end, m, k), Known(end, m, k), faults)
        BY DEF SessionsInv, BooksInv
      <3>2. /\ Linked(ends, m, k) => Linked(end, m, k)
            /\ Known(end, m, k) => Known(ends, m, k)
        BY <1>2, <2>1 DEF Cleared
      <3> QED BY <1>8, <1>10, <2>1, <3>1, <3>2, BookKept
    <2>2. CASE m = n /\ k \in due
      <3>1. ~Linked(ends, n, k)
        BY <1>2, <1>4, <2>2, LinkedLeads DEF SessionsInv, Cleared
      <3>2. ~book'[n][k].connected
        BY <1>4, <1>9, <1>10, <2>2 DEF PS!Due
      <3>3. dial'[n][k].pc = "connect"
        BY <1>7, <1>8, <2>2
      <3> QED BY <2>2, <3>1, <3>2, <3>3 DEF BookFits
    <2>3. CASE m = n /\ k \notin due
      <3>1. BookFits(entries[k], dial[n][k].pc, Linked(ends, n, k), Known(ends, n, k), faults)
        BY <1>2 DEF Cleared
      <3> QED BY <1>8, <1>10, <2>3, <3>1
    <2> QED BY <2>1, <2>2, <2>3
  <1>13. EndsInv(ends) /\ \A m \in Nodes : OneLink(ends, m)
    BY <1>2 DEF Cleared
  <1>14. faults' \in Nat /\ ~accused'
    BY <1>3, DialsAre DEF SessionsInv
  <1>15. EndsInv(end') /\ \A m \in Nodes : OneLink(end', m)
    BY <1>3, <1>13
  <1>16. ASSUME NEW m \in Nodes, NEW k \in Nodes
         PROVE  BookFits(book'[m][k], dial'[m][k].pc, Linked(end', m, k), Known(end', m, k), faults')
    BY <1>3, <1>12
  <1> QED BY <1>8, <1>10, <1>11, <1>14, <1>15, <1>16 DEF SessionsInv, BooksInv

LEMMA OpenedSteps ==
    ASSUME 0 \notin Nodes, SessionsInv, NEW n \in Nodes, NEW e \in Nodes, NEW c \in Conns,
           PS!Opened(n, e, c), c \in Nat
    PROVE  SessionsInv'
  <1>1. n # e
    BY DialsAre DEF PS!Opened
  <1>2. end \in AllEnds /\ \A m \in Nodes : end[c][m].st = "none"
    BY DEF PS!Opened, PS!Free, SessionsInv, EndsInv
  <1>3. PICK s, t : /\ s = [PS!NoEnd EXCEPT !.st = "open", !.out = TRUE, !.peer = e]
                    /\ t = [PS!NoEnd EXCEPT !.st = "wait", !.peer = n, !.inbox = <<"VERSION">>]
    OBVIOUS
  <1>4. /\ s = [st |-> "open", out |-> TRUE, peer |-> e, version |-> FALSE,
                ack |-> FALSE, est |-> FALSE, inbox |-> <<>>]
        /\ t = [st |-> "wait", out |-> FALSE, peer |-> n, version |-> FALSE,
                ack |-> FALSE, est |-> FALSE, inbox |-> <<"VERSION">>]
    BY <1>3 DEF PS!NoEnd, PS!NoNode
  <1>5. <<>> \in Inboxes /\ <<"VERSION">> \in Inboxes
    BY DEF Inboxes
  <1>6. /\ s \in Ends /\ s.st = "open" /\ s.peer = e /\ ~s.version /\ ~s.ack /\ ~s.est
        /\ s.inbox = <<>>
        /\ t \in Ends /\ t.st = "wait" /\ t.peer = n /\ ~t.version /\ ~t.ack /\ ~t.est
        /\ t.inbox = <<"VERSION">>
    BY <1>4, <1>5 DEF Ends
  <1>7. Frames(1, 0) = <<>> /\ Frames(1, 1) = <<"VERSION">>
    <2>1. Frames(1, 0) = <<>> /\ Append(Frames(1, 0), Handshake[0 + 1]) = Frames(1, 0 + 1)
      BY FrameFacts
    <2>2. 0 + 1 = 1
      OBVIOUS
    <2>3. Append(<<>>, "VERSION") = <<"VERSION">> /\ Handshake[1] = "VERSION"
      BY DEF Handshake
    <2> QED BY <2>1, <2>2, <2>3
  <1>8. Seen(s) = 0 /\ Seen(t) = 0 /\ Sent(s) = 1 /\ Sent(t) = 0
    BY <1>6 DEF Seen, Sent
  <1>9. EndFits(s) /\ EndFits(t) /\ InTransit(s, t) /\ InTransit(t, s)
    <2>1. s.inbox = Frames(Seen(s) + 1, 0) /\ t.inbox = Frames(Seen(t) + 1, 1)
      BY <1>6, <1>7, <1>8
    <2>2. EndFits(s) /\ EndFits(t)
      <3>1. /\ \E j \in 0 .. 3 : s.inbox = Frames(Seen(s) + 1, j)
            /\ \E j \in 0 .. 3 : t.inbox = Frames(Seen(t) + 1, j)
        BY <2>1
      <3>2. EndFits(s)
        BY <1>6, <3>1 DEF EndFits
      <3>3. EndFits(t)
        BY <1>6, <3>1 DEF EndFits
      <3> QED BY <3>2, <3>3
    <2>3. InTransit(s, t) /\ InTransit(t, s)
      BY <1>8, <2>1 DEF InTransit
    <2> QED BY <2>2, <2>3
  <1>10. PICK after : after = [end EXCEPT ![c][n] = s, ![c][e] = t]
    OBVIOUS
  <1>11. /\ after \in AllEnds /\ after[c][n] = s /\ after[c][e] = t
         /\ \A d \in Conns, m \in Nodes : d # c \/ m \notin {n, e} => after[d][m] = end[d][m]
    <2>1. PICK mid : mid = [end EXCEPT ![c][n] = s]
      OBVIOUS
    <2>2. Puts(end, mid, c, n, s)
      BY <1>2, <1>6, <2>1, PutFacts
    <2>3. after = [mid EXCEPT ![c][e] = t]
      BY <1>10, <2>1
    <2>4. Puts(mid, after, c, e, t)
      <3>1. mid \in AllEnds
        BY <2>2 DEF Puts
      <3> QED BY <1>6, <2>3, <3>1, PutFacts
    <2>5. ASSUME NEW d \in Conns, NEW m \in Nodes, d # c \/ m \notin {n, e}
          PROVE  after[d][m] = end[d][m]
      <3>1. after[d][m] = mid[d][m]
        BY <2>4, <2>5 DEF Puts
      <3>2. mid[d][m] = end[d][m]
        BY <2>2, <2>5 DEF Puts
      <3> QED BY <3>1, <3>2
    <2>6. after \in AllEnds /\ after[c][e] = t
      BY <2>4 DEF Puts
    <2>7. after[c][n] = s
      BY <1>1, <2>2, <2>4 DEF Puts
    <2> QED BY <2>5, <2>6, <2>7
  <1>12. EndsInv(after)
    <2>1. ASSUME NEW d \in Conns, NEW m \in Nodes
          PROVE  EndFits(after[d][m]) /\ after[d][m].peer # m
      <3>1. CASE d = c /\ m = n
        BY <1>1, <1>6, <1>9, <1>11, <3>1
      <3>2. CASE d = c /\ m = e
        BY <1>1, <1>6, <1>9, <1>11, <3>2
      <3>3. CASE d # c \/ m \notin {n, e}
        <4>1. after[d][m] = end[d][m]
          BY <1>11, <3>3
        <4>2. EndFits(end[d][m]) /\ end[d][m].peer # m
          BY DEF SessionsInv, EndsInv
        <4> QED BY <4>1, <4>2
      <3> QED BY <3>1, <3>2, <3>3
    <2>2. ASSUME NEW d \in Conns, NEW m \in Nodes, NEW k \in Nodes
          PROVE  Paired(after, d, m, k)
      <3>1. CASE d # c
        <4>1. Paired(end, d, m, k)
          BY DEF SessionsInv, EndsInv
        <4> QED BY <1>11, <3>1, <4>1 DEF Paired
      <3>2. CASE d = c /\ {m, k} \subseteq {n, e}
        BY <1>6, <1>9, <1>11, <3>2 DEF Paired
      <3>3. CASE d = c /\ ~({m, k} \subseteq {n, e})
        BY <1>2, <1>11, <3>3 DEF Paired
      <3> QED BY <3>1, <3>2, <3>3
    <2> QED BY <1>11, <2>1, <2>2 DEF EndsInv
  <1>13. ASSUME NEW m \in Nodes
         PROVE  NoNewLinks(end, after, m) /\ NoneForgotten(end, after, m)
    <2>1. ASSUME NEW d \in Conns, d = c /\ m \in {n, e}
          PROVE  ~after[d][m].est /\ end[d][m].st = "none"
      BY <1>2, <1>6, <1>11, <2>1
    <2>2. \A d \in Conns : ~(d = c /\ m \in {n, e}) => after[d][m] = end[d][m]
      BY <1>11
    <2> QED BY <2>1, <2>2 DEF NoNewLinks, NoneForgotten, Settled
  <1>14. end' = after /\ UNCHANGED <<book, faults, accused>>
    BY <1>3, <1>10 DEF PS!Opened, PS!history
  <1>15. /\ dial' \in [Nodes -> [Nodes -> Dials]]
         /\ \A m \in Nodes : dial'[m][m].pc = "none"
         /\ \A m, k \in Nodes : dial'[m][k].pc = dial[m][k].pc \/ dial'[m][k].pc = "shake"
    <2>1. PICK new : new = [pc |-> "shake", conn |-> c]
      OBVIOUS
    <2>2. new \in Dials /\ new.pc = "shake"
      BY <2>1 DEF Dials
    <2>3. dial' = [dial EXCEPT ![n] = [dial[n] EXCEPT ![e] = new]]
      BY <2>1 DEF PS!Opened
    <2> QED BY <1>1, <2>2, <2>3, DialsAre
  <1> QED BY <1>12, <1>13, <1>14, <1>15, SessionsKept, DialsAre

LEMMA AcceptedSteps ==
    ASSUME 0 \notin Nodes, SessionsInv, NEW c \in Conns, NEW n \in Nodes, PS!Accepted(c, n)
    PROVE  SessionsInv'
  <1>1. PICK s : s = end[c][n]
    OBVIOUS
  <1>2. /\ s \in Ends /\ EndFits(s) /\ s.st = "wait" /\ ~s.version /\ ~s.ack /\ ~s.est
        /\ s.peer \in Nodes /\ EndsInv(end) /\ end \in AllEnds
    <2>1. s \in Ends /\ EndFits(s) /\ s.st = "wait" /\ EndsInv(end) /\ end \in AllEnds
      BY <1>1 DEF PS!Accepted, SessionsInv, EndsInv, AllEnds
    <2> QED BY <2>1 DEF EndFits
  <1>3. UNCHANGED <<dial, book, faults, accused>>
    BY DEF PS!Accepted, PS!history
  <1>4. Goes(end')
    <2>1. CASE end' = PS!Send([end EXCEPT ![c][n].st = "open"], c, s.peer, "VERSION")
      <3>1. PICK s2 : s2 = [s EXCEPT !.st = "open"]
        OBVIOUS
      <3>2. /\ s2 \in Ends /\ s2.st = "open" /\ s2.peer = s.peer /\ ~s2.version /\ ~s2.ack
            /\ ~s2.est /\ s2.inbox = s.inbox
        BY <1>2, <3>1 DEF Ends
      <3>3. Seen(s2) = 0 /\ Seen(s) = 0 /\ Sent(s) = 0 /\ Sent(s2) = 1
        BY <1>2, <3>2 DEF Seen, Sent
      <3>4. EndFits(s2)
        <4>1. \E j \in 0 .. 3 : s2.inbox = Frames(Seen(s2) + 1, j)
          BY <1>2, <3>2, <3>3 DEF EndFits
        <4> QED BY <1>2, <3>2, <4>1 DEF EndFits
      <3>5. \A t \in Ends : InTransit(t, s) => InTransit(t, s2)
        BY <1>2, <3>2, <3>3 DEF InTransit
      <3>6. PICK mid : mid = [end EXCEPT ![c][n] = s2]
        OBVIOUS
      <3>7. end' = PS!Send(mid, c, s.peer, Handshake[Sent(s) + 1])
        <4>1. Handshake[Sent(s) + 1] = "VERSION"
          BY <3>3 DEF Handshake
        <4>2. [end EXCEPT ![c][n].st = "open"] = mid
          BY <1>1, <3>1, <3>6
        <4> QED BY <2>1, <4>1, <4>2
      <3>8. EndsInv(end') /\ Steps(end, end', c, n, s2)
        <4>1. /\ s.st # "none" /\ s2.st # "none" /\ Active(s) /\ ~s.est
              /\ Sent(s2) = Sent(s) + 1
          BY <1>2, <3>2, <3>3 DEF Active
        <4> QED BY <1>1, <1>2, <3>2, <3>4, <3>5, <3>6, <3>7, <4>1, EndMovesOn, ZenonT(40)
      <3>9. ASSUME NEW m \in Nodes
            PROVE  NoNewLinks(end, end', m) /\ NoneForgotten(end, end', m)
        <4>1. \A d \in Conns : d # c \/ m # n => Alike(end[d][m], end'[d][m])
          BY <3>8 DEF Steps
        <4>2. m = n => end'[c][m] = s2
          BY <3>8 DEF Steps
        <4> QED BY <1>1, <1>2, <3>2, <4>1, <4>2
                DEF NoNewLinks, NoneForgotten, Settled, Alike
      <3> QED BY <3>8, <3>9 DEF Goes
    <2>2. CASE end' = [end EXCEPT ![c][n] = PS!NoEnd]
      <3>1. PICK s2 : s2 = PS!NoEnd
        OBVIOUS
      <3>2. <<>> \in Inboxes
        BY DEF Inboxes
      <3>3. s2 \in Ends
        BY <3>1, <3>2 DEF PS!NoEnd, PS!NoNode, Ends
      <3>4. Fades(s, s2)
        BY <3>1 DEF Fades
      <3> QED BY <1>1, <1>2, <2>2, <3>1, <3>3, <3>4, OneFades
    <2> QED BY <1>1, <2>1, <2>2 DEF PS!Accepted
  <1> QED BY <1>3, <1>4, SessionsKept, DialsAre DEF Goes

\* A dial that raises, where nothing is established with the candidate or a
\* fault has occurred.
LEMMA DialRaisesSteps ==
    ASSUME 0 \notin Nodes, SessionsInv, NEW n \in Nodes, NEW e \in Nodes,
           PS!DialRaises(n, e), ~accused', faults' \in Nat,
           \/ faults' = faults /\ ~Linked(end, n, e)
           \/ faults' # 0
    PROVE  SessionsInv'
  <1>1. PICK c : c = dial[n][e].conn
    OBVIOUS
  <1>2. Goes(end')
    <2>1. CASE c \in Conns /\ PS!Open(c, n) /\ end' = [end EXCEPT ![c][n] = PS!Shut(@)]
      BY <2>1, ShutOne DEF SessionsInv
    <2>2. CASE end' = end
      BY <2>2 DEF Goes, NoNewLinks, NoneForgotten, SessionsInv
    <2>3. CASE c \notin Conns /\ end' = [end EXCEPT ![c][n] = PS!Shut(@)]
      <3>1. end \in [Conns -> [Nodes -> Ends]]
        BY DEF SessionsInv, EndsInv, AllEnds
      <3>2. end' = end
        BY <2>3, <3>1
      <3> QED BY <2>2, <3>2
    <2> QED BY <1>1, <2>1, <2>2, <2>3 DEF PS!DialRaises
  <1>3. /\ dial' \in [Nodes -> [Nodes -> Dials]]
        /\ dial'[n][e].pc = "none"
        /\ \A m, k \in Nodes : m # n \/ k # e => dial'[m][k] = dial[m][k]
    <2>1. PS!NoDial \in Dials /\ PS!NoDial.pc = "none"
      BY DEF PS!NoDial, Dials
    <2>2. dial' = [dial EXCEPT ![n] = [dial[n] EXCEPT ![e] = PS!NoDial]]
      BY DEF PS!DialRaises
    <2> QED BY <2>1, <2>2, DialsAre
  <1>4. PICK b : b = [connected |-> FALSE, dialing |-> FALSE, tried |-> TRUE]
    OBVIOUS
  <1>5. /\ book' \in [Nodes -> [Nodes -> Books]]
        /\ book'[n][e] = b
        /\ \A m, k \in Nodes : m # n \/ k # e => book'[m][k] = book[m][k]
    <2>1. b \in Books
      BY <1>4 DEF Books
    <2>2. book' = [book EXCEPT ![n] = [book[n] EXCEPT ![e] = b]]
      BY <1>4 DEF PS!DialRaises, PS!MarkDisconnected
    <2> QED BY <2>1, <2>2, DialsAre
  <1>6. ASSUME NEW m \in Nodes, NEW k \in Nodes
        PROVE  /\ Linked(end', m, k) => Linked(end, m, k)
               /\ Known(end, m, k) => Known(end', m, k)
               /\ OneLink(end', m)
    BY <1>2, LinksKept, KnownKept DEF Goes, SessionsInv
  <1>7. ASSUME NEW m \in Nodes, NEW k \in Nodes
        PROVE  BookFits(book'[m][k], dial'[m][k].pc, Linked(end', m, k),
                        Known(end', m, k), faults')
    <2>1. CASE m = n /\ k = e
      BY <1>4, <1>5, <1>6, <2>1 DEF BookFits
    <2>2. CASE m # n \/ k # e
      <3>1. BookFits(book[m][k], dial[m][k].pc, Linked(end, m, k), Known(end, m, k), faults)
        BY DEF SessionsInv, BooksInv
      <3>2. /\ Linked(end', m, k) => Linked(end, m, k)
            /\ Known(end, m, k) => Known(end', m, k)
            /\ faults' = 0 => faults = 0
        BY <1>6
      <3>3. BookFits(book[m][k], dial[m][k].pc, Linked(end', m, k), Known(end', m, k), faults')
        BY <3>1, <3>2 DEF BookFits
      <3> QED BY <1>3, <1>5, <2>2, <3>3
    <2> QED BY <2>1, <2>2
  <1>8. \A m \in Nodes : dial'[m][m].pc = "none"
    BY <1>3, DialsAre
  <1>9. EndsInv(end') /\ \A m \in Nodes : OneLink(end', m)
    BY <1>2, <1>6 DEF Goes
  <1> QED BY <1>3, <1>5, <1>7, <1>8, <1>9 DEF SessionsInv, BooksInv

LEMMA DialFailsSteps ==
    ASSUME 0 \notin Nodes, SessionsInv, NEW n \in Nodes, NEW e \in Nodes, PS!DialFails(n, e)
    PROVE  SessionsInv'
  <1>1. PS!DialRaises(n, e) /\ faults' = faults + 1 /\ accused' = accused
    BY DEF PS!DialFails
  <1>2. faults' \in Nat /\ faults' # 0 /\ ~accused'
    BY <1>1, DialsAre DEF SessionsInv
  <1> QED BY <1>1, <1>2, DialRaisesSteps

LEMMA DialEndsSteps ==
    ASSUME 0 \notin Nodes, SessionsInv, NEW n \in Nodes, NEW e \in Nodes, PS!DialEnds(n, e)
    PROVE  SessionsInv'
  <1>1. /\ UNCHANGED <<faults, accused>>
        /\ dial[n][e].pc \in {"ready", "lost"}
    BY DEF PS!DialEnds, PS!history
  <1>2. Linked(end, n, e) <=> \E c \in Conns : PS!Established(c, n) /\ PS!Leads(c, n, e)
    BY LinkedLeads DEF SessionsInv
  <1>3. CASE dial[n][e].pc = "ready" \/ Linked(end, n, e)
    <2> SUFFICES ASSUME dial' = [dial EXCEPT ![n][e] = PS!NoDial], UNCHANGED <<end, book>>
                 PROVE  SessionsInv'
      <3>1. CASE PS!DialRaises(n, e) /\ ~Linked(end, n, e)
        <4>1. ~accused' /\ faults' \in Nat
          BY <1>1, DialsAre DEF SessionsInv
        <4> QED BY <1>1, <3>1, <4>1, DialRaisesSteps
      <3> QED BY <1>2, <3>1 DEF PS!DialEnds
    <2>1. ~book[n][e].dialing
      <3>1. BookFits(book[n][e], dial[n][e].pc, Linked(end, n, e), Known(end, n, e), faults)
        BY DEF SessionsInv, BooksInv
      <3> QED BY <1>3, <3>1 DEF BookFits
    <2>2. /\ dial' \in [Nodes -> [Nodes -> Dials]]
          /\ dial'[n][e].pc = "none"
          /\ \A m, k \in Nodes : m # n \/ k # e => dial'[m][k] = dial[m][k]
      <3>1. PS!NoDial \in Dials /\ PS!NoDial.pc = "none"
        BY DEF PS!NoDial, Dials
      <3>2. dial' = [dial EXCEPT ![n] = [dial[n] EXCEPT ![e] = PS!NoDial]]
        OBVIOUS
      <3> QED BY <3>1, <3>2, DialsAre
    <2>3. \A m \in Nodes : NoNewLinks(end, end, m) /\ NoneForgotten(end, end, m)
      BY DEF NoNewLinks, NoneForgotten
    <2>4. EndsInv(end)
      BY DEF SessionsInv
    <2>5. /\ \A m \in Nodes : dial'[m][m].pc = "none"
          /\ \A m, k \in Nodes : dial'[m][k].pc = dial[m][k].pc \/ ~book[m][k].dialing
      BY <2>1, <2>2, DialsAre
    <2> QED BY <1>1, <2>2, <2>3, <2>4, <2>5, SessionsKept, DialsAre
  <1>4. CASE ~(dial[n][e].pc = "ready" \/ Linked(end, n, e))
    <2>1. PS!DialRaises(n, e)
      BY <1>2, <1>4 DEF PS!DialEnds
    <2>2. ~accused' /\ faults' \in Nat
      BY <1>1, DialsAre DEF SessionsInv
    <2> QED BY <1>1, <1>4, <2>1, <2>2, DialRaisesSteps
  <1> QED BY <1>3, <1>4

-----------------------------------------------------------------------------
(* The theorems about PeerSessions.                                          *)

LEMMA NodesArePositive ==
    ASSUME PS!SessionsAssumption
    PROVE  0 \notin Nodes /\ Conns \subseteq Nat
  BY DEF PS!SessionsAssumption

LEMMA SessionsInit ==
    ASSUME PS!SessionsAssumption, PS!Init
    PROVE  SessionsInv
  <1>1. 0 \notin Nodes
    BY NodesArePositive
  <1>2. PICK s : s = PS!NoEnd
    OBVIOUS
  <1>3. /\ s \in Ends /\ s.st = "none" /\ s.peer = 0 /\ ~s.version /\ ~s.ack /\ ~s.est
        /\ s.inbox = <<>>
    <2>1. <<>> \in Inboxes
      BY DEF Inboxes
    <2> QED BY <1>2, <2>1 DEF PS!NoEnd, PS!NoNode, Ends
  <1>4. EndFits(s)
    <2>1. Frames(1, 0) = <<>>
      BY FrameFacts
    <2>2. s.inbox = Frames(Seen(s) + 1, 0)
      BY <1>3, <2>1 DEF Seen
    <2>3. \E j \in 0 .. 3 : s.inbox = Frames(Seen(s) + 1, j)
      BY <2>2
    <2> QED BY <1>3, <2>3 DEF EndFits
  <1>5. end \in AllEnds /\ \A c \in Conns, n \in Nodes : end[c][n] = s
    BY <1>2, <1>3 DEF PS!Init, AllEnds
  <1>6. EndsInv(end)
    BY <1>1, <1>3, <1>4, <1>5 DEF EndsInv, Paired
  <1>7. \A n \in Nodes : Links(end, n) = {}
    BY <1>3, <1>5 DEF Links
  <1>8. \A n, e \in Nodes : OneLink(end, n) /\ ~Linked(end, n, e)
    BY <1>7 DEF OneLink, Linked
  <1>9. /\ PS!NoDial \in Dials /\ PS!NoDial.pc = "none"
        /\ PS!NewCandidate \in Books /\ ~PS!NewCandidate.connected /\ ~PS!NewCandidate.dialing
    BY DEF PS!NoDial, Dials, PS!NewCandidate, Books
  <1>10. /\ faults = 0 /\ ~accused
         /\ dial \in [Nodes -> [Nodes -> Dials]] /\ book \in [Nodes -> [Nodes -> Books]]
         /\ \A n, e \in Nodes : dial[n][e] = PS!NoDial /\ book[n][e] = PS!NewCandidate
    BY <1>9 DEF PS!Init
  <1>11. BooksInv
    <2>1. ASSUME NEW n \in Nodes, NEW e \in Nodes
          PROVE  BookFits(book[n][e], dial[n][e].pc, Linked(end, n, e), Known(end, n, e), faults)
      BY <1>8, <1>9, <1>10 DEF BookFits
    <2> QED BY <1>9, <1>10, <2>1 DEF BooksInv
  <1> QED BY <1>6, <1>8, <1>10, <1>11 DEF SessionsInv

LEMMA SessionsStep ==
    ASSUME PS!SessionsAssumption, SessionsInv, [PS!Next]_PS!vars
    PROVE  SessionsInv'
  <1>1. 0 \notin Nodes /\ Conns \subseteq Nat
    BY NodesArePositive
  <1>2. CASE UNCHANGED PS!vars
    <2>1. UNCHANGED <<end, dial, book, faults, accused>>
      BY <1>2 DEF PS!vars, PS!history
    <2>2. \A m \in Nodes : NoNewLinks(end, end, m) /\ NoneForgotten(end, end, m)
      BY DEF NoNewLinks, NoneForgotten
    <2>3. EndsInv(end)
      BY DEF SessionsInv
    <2> QED BY <2>1, <2>2, <2>3, SessionsKept, DialsAre
  <1>3. ASSUME NEW n \in Nodes, NEW due \in SUBSET Nodes, PS!Tick(n, due)
        PROVE  SessionsInv'
    BY <1>1, <1>3, TickSteps
  <1>4. ASSUME NEW n \in Nodes, NEW e \in Nodes, PS!Connect(n, e)
        PROVE  SessionsInv'
    BY <1>4, ConnectSteps
  <1>5. ASSUME NEW n \in Nodes, NEW e \in Nodes, PS!DialMoves(n, e)
        PROVE  SessionsInv'
    <2>1. ASSUME NEW c \in Conns, PS!Opened(n, e, c) PROVE SessionsInv'
      <3>1. c \in Nat
        BY <1>1
      <3> QED BY <1>1, <2>1, <3>1, OpenedSteps
    <2>2. CASE PS!DialEnds(n, e)
      BY <1>1, <2>2, DialEndsSteps
    <2> QED BY <1>5, <2>1, <2>2 DEF PS!DialMoves
  <1>6. ASSUME NEW n \in Nodes, NEW e \in Nodes, PS!DialFails(n, e)
        PROVE  SessionsInv'
    BY <1>1, <1>6, DialFailsSteps
  <1>7. ASSUME NEW c \in Conns, NEW n \in Nodes, PS!EndMoves(c, n)
        PROVE  SessionsInv'
    <2>1. CASE PS!Accepted(c, n)
      BY <1>1, <2>1, AcceptedSteps
    <2>2. CASE PS!Deliver(c, n)
      BY <1>1, <2>2, DeliverSteps
    <2>3. CASE PS!PeerGone(c, n)
      BY <1>1, <2>3, PeerGoneSteps
    <2>4. CASE PS!OnClose(c, n)
      BY <1>1, <2>4, OnCloseSteps
    <2> QED BY <1>7, <2>1, <2>2, <2>3, <2>4 DEF PS!EndMoves
  <1>8. ASSUME NEW c \in Conns, NEW n \in Nodes, PS!Reset(c, n)
        PROVE  SessionsInv'
    BY <1>1, <1>8, PeerGoneSteps
  <1> QED BY <1>2, <1>3, <1>4, <1>5, <1>6, <1>7, <1>8 DEF PS!Next

LEMMA SessionsImply ==
    ASSUME SessionsInv
    PROVE  PS!BooksAgree /\ PS!HandshakesAgree
  <1>1. PS!BooksAgree
    <2> SUFFICES ASSUME NEW n \in Nodes, NEW e \in Nodes
                 PROVE  /\ book[n][e].connected =>
                              \E c \in PS!Sessions(n) : end[c][n].est /\ end[c][n].peer = e
                        /\ book[n][e].dialing => dial[n][e].pc # "none"
                        /\ faults = 0 /\ (\E c \in Conns : PS!Established(c, n) /\ end[c][n].peer = e)
                              => book[n][e].connected
      BY DEF PS!BooksAgree
    <2>1. BookFits(book[n][e], dial[n][e].pc, Linked(end, n, e), Known(end, n, e), faults)
      BY DEF SessionsInv, BooksInv
    <2>2. Known(end, n, e) => \E c \in PS!Sessions(n) : end[c][n].est /\ end[c][n].peer = e
      BY DEF Known, PS!Sessions
    <2>3. (\E c \in Conns : PS!Established(c, n) /\ end[c][n].peer = e) => Linked(end, n, e)
      BY DEF Linked, Links, PS!Established, PS!Open
    <2> QED BY <2>1, <2>2, <2>3 DEF BookFits
  <1>2. ASSUME NEW n \in Nodes, NEW c \in Conns, NEW d \in Conns, PS!Established(c, n),
               PS!Established(d, n), end[c][n].peer = end[d][n].peer
        PROVE  c = d
    <2>1. c \in Links(end, n) /\ d \in Links(end, n) /\ OneLink(end, n)
      BY <1>2 DEF Links, PS!Established, PS!Open, SessionsInv
    <2> QED BY <1>2, <2>1 DEF OneLink
  <1>3. ASSUME NEW n \in Nodes, NEW e \in Nodes, NEW c \in Conns, n # e,
               PS!Quiet(n, e), PS!Quiet(e, n), PS!Open(c, n), end[c][n].peer = e
        PROVE  end[c][n].est
    <2>1. PICK s, t : s = end[c][n] /\ t = end[c][e]
      OBVIOUS
    <2>2. /\ s \in Ends /\ t \in Ends /\ EndFits(s) /\ EndFits(t)
          /\ Paired(end, c, n, e) /\ Paired(end, c, e, n)
      BY <2>1 DEF SessionsInv, EndsInv, AllEnds
    <2>3. s.st = "open" /\ s.inbox = <<>> /\ t.st = "open"
      BY <1>3, <2>1 DEF PS!Quiet, PS!Open
    <2>4. InTransit(s, t) /\ InTransit(t, s) /\ t.peer = n
      BY <1>3, <2>1, <2>2, <2>3 DEF Paired, Active
    <2>5. t.inbox = <<>>
      BY <1>3, <2>1, <2>4 DEF PS!Quiet
    <2>6. ASSUME NEW a \in Ends, NEW b \in Ends, InTransit(a, b), b.inbox = <<>>,
                 a.st = "open", EndFits(b)
          PROVE  b.version /\ (a.version => b.ack)
      <3>1. CASE a.est /\ b.ack
        BY <2>6, <3>1 DEF EndFits
      <3>2. CASE Seen(b) <= Sent(a) /\ b.inbox = Frames(Seen(b) + 1, Sent(a))
        <4>1. Seen(b) \in 0 .. 2 /\ Sent(a) \in 0 .. 3 /\ Seen(b) + 1 \in 1 .. 4
          BY Counts
        <4>2. ~(Seen(b) + 1 <= Sent(a))
          <5>1. PICK i \in 1 .. 4, j \in 0 .. 3 : i = Seen(b) + 1 /\ j = Sent(a)
            BY <4>1
          <5>2. i <= j => Frames(i, j) # <<>>
            BY FrameFacts
          <5> QED BY <2>6, <3>2, <5>1, <5>2
        <4>3. Seen(b) = Sent(a)
          BY <3>2, <4>1, <4>2
        <4>4. Sent(a) >= 1 /\ (a.version => Sent(a) >= 2)
          BY <2>6 DEF Sent
        <4>5. b.ack \/ (b.version /\ Seen(b) = 1)
          BY <4>1, <4>3, <4>4 DEF Seen
        <4> QED BY <2>6, <4>3, <4>4, <4>5 DEF EndFits
      <3> QED BY <2>6, <3>1, <3>2 DEF InTransit
    <2>7. s.version /\ t.version
      BY <2>2, <2>3, <2>4, <2>5, <2>6
    <2>8. s.ack
      BY <2>2, <2>3, <2>4, <2>5, <2>6, <2>7
    <2> QED BY <2>1, <2>2, <2>3, <2>8 DEF EndFits
  <1>4. PS!HandshakesAgree
    BY <1>2, <1>3 DEF PS!HandshakesAgree, SessionsInv
  <1> QED BY <1>1, <1>4

\* The instance has the state of this module, and so says the same of it.
LEMMA SameState ==
    /\ PS!SessionsAssumption
    /\ PS!BooksAgree => BooksAgree
    /\ PS!HandshakesAgree => HandshakesAgree
  <1>1. PS!SessionsAssumption
    BY SessionsAssumption DEF PS!SessionsAssumption
  <1>2. PS!BooksAgree => BooksAgree
    BY DEF PS!BooksAgree, BooksAgree, PS!Sessions, Sessions, PS!Established, Established,
           PS!Open, Open
  <1>3. PS!HandshakesAgree => HandshakesAgree
    BY DEF PS!HandshakesAgree, HandshakesAgree, PS!Established, Established, PS!Quiet, Quiet,
           PS!Open, Open
  <1> QED BY <1>1, <1>2, <1>3

\* Nothing that happens to connections leaves a candidate marked as connected or
\* as being dialled that is not, so that the peer manager would never dial it
\* again, for any number of nodes and connections and any limits.
THEOREM BooksTheorem == PS!Spec => []BooksAgree
  <1>1. PS!Init => SessionsInv
    BY SessionsInit, SameState
  <1>2. SessionsInv /\ [PS!Next]_PS!vars => SessionsInv'
    BY SessionsStep, SameState
  <1>3. SessionsInv => BooksAgree
    BY SessionsImply, SameState
  <1> QED BY <1>1, <1>2, <1>3, PTL DEF PS!Spec

\* Whatever the number of connections between any nodes, the order in which they
\* progress and the faults, duplicates are closed, no message of the handshake
\* comes out of turn, and no handshake is left half done.
THEOREM HandshakeTheorem == PS!Spec => []HandshakesAgree
  <1>1. PS!Init => SessionsInv
    BY SessionsInit, SameState
  <1>2. SessionsInv /\ [PS!Next]_PS!vars => SessionsInv'
    BY SessionsStep, SameState
  <1>3. SessionsInv => HandshakesAgree
    BY SessionsImply, SameState
  <1> QED BY <1>1, <1>2, <1>3, PTL DEF PS!Spec

=============================================================================
