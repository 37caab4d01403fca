-------------------------- MODULE MiningService --------------------------
(***************************************************************************)
(* MiningService (api/services/mining_service.py): requests that start and *)
(* cancel jobs, one worker task and one mining thread per job, and close() *)
(* at shutdown, on one event loop, over an embedded node.                  *)
(*                                                                         *)
(*   jobs   : the jobs, by id, in the order of creation.  Of a job:        *)
(*              status, parent (the height of the template's parent), stop *)
(*              (stop_event), thread ("none", "running", "found" a block,  *)
(*              "ended" without one, "unstarted": start() has failed), pc  *)
(*              (below), verdict (what the node                            *)
(*              said of the block) and, as history, born (the phase of     *)
(*              close() in which it was created)                           *)
(*   active, worker : _active_job_id and the job of _worker_task; 0 is None*)
(*   queue  : who holds _lock (the head) and who waits for it: clients by  *)
(*            name, worker tasks by job id                                 *)
(*   client : the requests in progress                                     *)
(*   closer : close(): "open" (not called), "join", "await", "closed" (it  *)
(*            has returned, or raised)                                     *)
(*   chain, up : the node's chain, each block by its miner (0 is a peer),  *)
(*            and whether the node is running                              *)
(*                                                                         *)
(* pc says in which await a worker task is suspended:                      *)
(*   "new" not yet run         "announce" mining_started                   *)
(*   "mine" the thread         "halt"     the thread, after the time limit *)
(*   "found" block_found       "accept"   accept_block, in the node's queue*)
(*   "answer" accept_block has its answer                                  *)
(*   "status" get_status       "report"   the final broadcast              *)
(*   "clear" _lock, in the finally block  "done" the task has ended        *)
(***************************************************************************)
EXTENDS Naturals, Sequences, FiniteSets, SequencesExt

CONSTANTS
    Creators,       \* concurrent HTTP clients that start jobs,
    Cancellers,     \* and those that cancel them
    MaxJobs,        \* bound on jobs
    MaxHeight       \* bound on the chain

ASSUME MiningAssumption ==
    /\ MaxJobs \in Nat
    /\ MaxHeight \in Nat
    /\ (Creators \cup Cancellers) \cap Nat = {}

VARIABLES jobs, active, worker, queue, client, closer, chain, up

service == <<jobs, active, worker, queue, client, closer>>
node == <<chain, up>>
vars == <<service, node>>

Clients == Creators \cup Cancellers

Ids == 1 .. Len(jobs)

Other == 0

NoJob == 0

NewJob(parent) ==
    [status |-> "QUEUED", parent |-> parent, stop |-> FALSE, thread |-> "none",
     pc |-> "new", verdict |-> "none", born |-> closer]

Idle == [pc |-> "idle", arg |-> 0]

Busy == {"QUEUED", "MINING"}

Alive(j) == jobs[j].thread = "running"

HasLock(x) == queue # <<>> /\ Head(queue) = x

\* The bound: jobs that exist or are being created.
Room == Len(jobs) + Cardinality({c \in Clients :
            client[c].pc \in {"lock", "template", "info"}}) < MaxJobs

-----------------------------------------------------------------------------
(* create_job.                                                               *)

Create(c) ==
    /\ client[c].pc = "idle"
    /\ Room
    /\ client' = [client EXCEPT ![c].pc = "lock"]
    /\ queue' = Append(queue, c)
    /\ UNCHANGED <<jobs, active, worker, closer, node>>

\* Closed, or MINING_BUSY.
Refused ==
    \/ closer # "open"
    \/ active # NoJob /\ jobs[active].status \in Busy

\* Under the lock, until the template is awaited.
EnterCreate(c) ==
    /\ HasLock(c)
    /\ client[c].pc = "lock"
    /\ IF Refused
       THEN client' = [client EXCEPT ![c] = Idle] /\ queue' = Tail(queue)
       ELSE client' = [client EXCEPT ![c].pc = "template"] /\ UNCHANGED queue
    /\ UNCHANGED <<jobs, active, worker, closer, node>>

\* create_mempool_block_template; the lock is held.
Template(c) ==
    /\ client[c].pc = "template"
    /\ up
    /\ client' = [client EXCEPT ![c] = [pc |-> "info", arg |-> Len(chain)]]
    /\ UNCHANGED <<jobs, active, worker, queue, closer, node>>

\* get_block_info_by_hash has answered: the job and its worker task exist.
StartJob(c) ==
    /\ client[c].pc = "info"
    /\ up
    /\ jobs' = Append(jobs, NewJob(client[c].arg))
    /\ active' = Len(jobs) + 1
    /\ worker' = Len(jobs) + 1
    /\ client' = [client EXCEPT ![c] = Idle]
    /\ queue' = Tail(queue)
    /\ UNCHANGED <<closer, node>>

\* The node refuses either call.
CreateRaises(c) ==
    /\ client[c].pc \in {"template", "info"}
    /\ client' = [client EXCEPT ![c] = Idle]
    /\ queue' = Tail(queue)
    /\ UNCHANGED <<jobs, active, worker, closer, node>>

-----------------------------------------------------------------------------
(* cancel_job, by a client that may.                                         *)

\* The job is marked, then the lock is asked for.
MarkCancelled(c, j) ==
    /\ jobs' = [jobs EXCEPT ![j].stop = TRUE, ![j].status = "CANCELLED"]
    /\ client' = [client EXCEPT ![c] = [pc |-> "release", arg |-> j]]
    /\ queue' = Append(queue, c)

\* Mutant: a job that has found its block may still be cancelled.
CancellableUntilAccepted(j) == jobs[j].status \in Busy \cup {"FOUND"}

Cancellable(j) == jobs[j].status \in Busy

\* A running thread is waited for, at most 3 s.
Cancel(c, j) ==
    /\ client[c].pc = "idle"
    /\ Cancellable(j)
    /\ IF Alive(j)
       THEN /\ jobs' = [jobs EXCEPT ![j].stop = TRUE]
            /\ client' = [client EXCEPT ![c] = [pc |-> "join", arg |-> j]]
            /\ UNCHANGED queue
       ELSE MarkCancelled(c, j)
    /\ UNCHANGED <<active, worker, closer, node>>

\* The executor has no thread to wait in: the request fails, and the job is
\* stopped but not marked.
CancelRaises(c, j) ==
    /\ client[c].pc = "idle"
    /\ Cancellable(j)
    /\ Alive(j)
    /\ jobs' = [jobs EXCEPT ![j].stop = TRUE]
    /\ UNCHANGED <<active, worker, queue, client, closer, node>>

Cancelled(c) ==
    /\ client[c].pc = "join"
    /\ MarkCancelled(c, client[c].arg)
    /\ UNCHANGED <<active, worker, closer, node>>

\* Mutants: whatever is active is forgotten; nothing is.
WithoutAny(j) == NoJob

WithoutNothing(j) == active

\* if self._active_job_id == job_id: self._active_job_id = None
Without(j) == IF active = j THEN NoJob ELSE active

Release(c) ==
    /\ HasLock(c)
    /\ client[c].pc = "release"
    /\ active' = Without(client[c].arg)
    /\ client' = [client EXCEPT ![c] = Idle]
    /\ queue' = Tail(queue)
    /\ UNCHANGED <<jobs, worker, closer, node>>

-----------------------------------------------------------------------------
(* _run_mining: the worker task of job j.                                    *)

Set(j, status, pc) == jobs' = [jobs EXCEPT ![j].status = status, ![j].pc = pc]

\* The task runs for the first time; a job stopped before that only reports.
Run(j) ==
    /\ jobs[j].pc = "new"
    /\ IF jobs[j].stop THEN Set(j, "CANCELLED", "done")
                       ELSE Set(j, "MINING", "announce")
    /\ UNCHANGED <<active, worker, queue, client, closer, node>>

StartThread(j) ==
    /\ jobs[j].pc = "announce"
    /\ jobs' = [jobs EXCEPT ![j].pc = "mine", ![j].thread = "running"]
    /\ UNCHANGED <<active, worker, queue, client, closer, node>>

\* Thread.start() raises before the try block: the task ends at once, and the
\* job stays MINING and active.
StartThreadFails(j) ==
    /\ jobs[j].pc = "announce"
    /\ jobs' = [jobs EXCEPT ![j].pc = "done", ![j].thread = "unstarted"]
    /\ UNCHANGED <<active, worker, queue, client, closer, node>>

\* mine_block_with_progress: it looks at stop_event before every nonce, and
\* may find a block with the nonce it is at.  A worker that no longer waits for
\* the thread does not read what it has found.
ThreadEnds(j) ==
    /\ Alive(j)
    /\ \E result \in {"found", "ended"} :
          /\ result = "found" => jobs[j].pc \in {"mine", "halt"}
          /\ jobs' = [jobs EXCEPT ![j].thread = result]
    /\ UNCHANGED <<active, worker, queue, client, closer, node>>

\* Mutant: a stopped job with a block goes on.
NotStopped(j) == jobs[j].thread = "ended"

Stopped(j) == jobs[j].stop

\* What follows the join.
Evaluate(j) ==
    IF Stopped(j) THEN Set(j, "CANCELLED", "report")
    ELSE IF jobs[j].thread = "found" THEN Set(j, "FOUND", "found")
    ELSE Set(j, "FAILED", "report")

Joined(j) ==
    /\ jobs[j].pc = "mine"
    /\ ~Alive(j)
    /\ Evaluate(j)
    /\ UNCHANGED <<active, worker, queue, client, closer, node>>

\* The executor has no thread to wait in: the worker goes on at once, and
\* nothing stops the mining thread.
JoinRaises(j) ==
    /\ jobs[j].pc = "mine"
    /\ Alive(j)
    /\ Evaluate(j)
    /\ UNCHANGED <<active, worker, queue, client, closer, node>>

\* mining_max_runtime_seconds are over; the thread may have ended just before.
RuntimeOver(j) ==
    /\ jobs[j].pc = "mine"
    /\ jobs' = [jobs EXCEPT ![j].stop = TRUE, ![j].pc = "halt"]
    /\ UNCHANGED <<active, worker, queue, client, closer, node>>

\* The second wait raises out of the handler: the task ends, and the job stays
\* MINING and active.
HaltRaises(j) ==
    /\ jobs[j].pc = "mine"
    /\ jobs' = [jobs EXCEPT ![j].stop = TRUE, ![j].pc = "done"]
    /\ UNCHANGED <<active, worker, queue, client, closer, node>>

\* thread.join(3.0), whether the thread has ended by then or not.
Halted(j) ==
    /\ jobs[j].pc = "halt"
    /\ Evaluate(j)
    /\ UNCHANGED <<active, worker, queue, client, closer, node>>

\* accept_block: in the node's queue, or refused at once.
SubmitBlock(j) ==
    /\ jobs[j].pc = "found"
    /\ \/ up /\ jobs' = [jobs EXCEPT ![j].pc = "accept"]
       \/ jobs' = [jobs EXCEPT ![j].pc = "answer", ![j].verdict = "error"]
    /\ UNCHANGED <<active, worker, queue, client, closer, node>>

\* The node's turn.  Only a block on the current tip is accepted; the node may
\* have other reasons to reject one, or fail before or after the commit.
NodeDecides(j) ==
    /\ jobs[j].pc = "accept"
    /\ up
    /\ \E verdict \in {"yes", "no", "error"}, commits \in BOOLEAN :
          /\ commits => Len(chain) = jobs[j].parent
          /\ verdict = "yes" => commits
          /\ verdict = "no" => ~commits
          /\ jobs' = [jobs EXCEPT ![j].pc = "answer", ![j].verdict = verdict]
          /\ chain' = IF commits THEN Append(chain, j) ELSE chain
          /\ up' = (verdict # "error")
    /\ UNCHANGED <<active, worker, queue, client, closer>>

\* The node stopped before the command's turn.
NodeDrops(j) ==
    /\ jobs[j].pc = "accept"
    /\ ~up
    /\ jobs' = [jobs EXCEPT ![j].pc = "answer", ![j].verdict = "error"]
    /\ UNCHANGED <<active, worker, queue, client, closer, node>>

Answered(j) ==
    /\ jobs[j].pc = "answer"
    /\ IF jobs[j].verdict = "yes" THEN Set(j, "ACCEPTED", "report")
                                  ELSE Set(j, "FOUND", "status")
    /\ UNCHANGED <<active, worker, queue, client, closer, node>>

\* tip_hash != job.previous_hash
StaleOrFailed(j) == IF Len(chain) # jobs[j].parent THEN "STALE" ELSE "FAILED"

\* get_status answers, or raises.
Explained(j) ==
    /\ jobs[j].pc = "status"
    /\ \/ up /\ Set(j, StaleOrFailed(j), "report")
       \/ Set(j, "FAILED", "report")
    /\ UNCHANGED <<active, worker, queue, client, closer, node>>

\* The finally block asks for the lock ...
Reported(j) ==
    /\ jobs[j].pc = "report"
    /\ jobs' = [jobs EXCEPT ![j].pc = "clear"]
    /\ queue' = Append(queue, j)
    /\ UNCHANGED <<active, worker, client, closer, node>>

\* ... and gets it.
Clear(j) ==
    /\ HasLock(j)
    /\ jobs[j].pc = "clear"
    /\ active' = Without(j)
    /\ jobs' = [jobs EXCEPT ![j].pc = "done"]
    /\ queue' = Tail(queue)
    /\ UNCHANGED <<worker, client, closer, node>>

-----------------------------------------------------------------------------
(* close.                                                                    *)

\* The worker task is cancelled where it is suspended: past the mining, the
\* finally block still runs; a command in the node's queue is not executed.
CancelTask(js, j) ==
    CASE js[j].pc \in {"new", "announce", "mine", "halt", "clear"} ->
           [js EXCEPT ![j].pc = "done"]
      [] js[j].pc \in {"found", "accept", "answer", "status", "report"} ->
           [js EXCEPT ![j].pc = "clear"]
      [] OTHER -> js

\* _worker_task is cancelled, to be awaited, where it has not ended.
CancelWorker(js) ==
    /\ IF worker = NoJob THEN jobs' = js /\ UNCHANGED queue
       ELSE /\ jobs' = CancelTask(js, worker)
            /\ queue' = CASE js[worker].pc = "clear" -> RemoveFirst(queue, worker)
                          [] jobs'[worker].pc = "clear" -> Append(queue, worker)
                          [] OTHER -> queue
    /\ closer' = "await"

\* job.stop_event.set()
StopActive == IF active = NoJob THEN jobs ELSE [jobs EXCEPT ![active].stop = TRUE]

Close ==
    /\ closer = "open"
    /\ IF active # NoJob /\ Alive(active)
       THEN jobs' = StopActive /\ closer' = "join" /\ UNCHANGED queue
       ELSE CancelWorker(StopActive)
    /\ UNCHANGED <<active, worker, client, node>>

\* The executor has no thread to wait in: close() fails, and the worker task
\* is not cancelled.
CloseRaises ==
    /\ closer = "open"
    /\ active # NoJob /\ Alive(active)
    /\ jobs' = StopActive
    /\ closer' = "closed"
    /\ UNCHANGED <<active, worker, queue, client, node>>

\* thread.join(3.0) has returned.
CloseJoined ==
    /\ closer = "join"
    /\ CancelWorker(jobs)
    /\ UNCHANGED <<active, worker, client, node>>

\* The task that was _worker_task when it was cancelled: a request that still
\* had the lock may have replaced it.
Awaited ==
    IF worker # NoJob /\ jobs[worker].born = "await" THEN worker - 1 ELSE worker

CloseEnds ==
    /\ closer = "await"
    /\ Awaited # NoJob => jobs[Awaited].pc = "done"
    /\ closer' = "closed"
    /\ UNCHANGED <<jobs, active, worker, queue, client, node>>

-----------------------------------------------------------------------------
(* The node's peers, and its end.                                            *)

OtherBlock ==
    /\ up
    /\ Len(chain) < MaxHeight
    /\ chain' = Append(chain, Other)
    /\ UNCHANGED <<service, up>>

NodeStops ==
    /\ up
    /\ up' = FALSE
    /\ UNCHANGED <<service, chain>>

Init ==
    /\ jobs = <<>>
    /\ active = NoJob /\ worker = NoJob
    /\ queue = <<>>
    /\ client = [c \in Clients |-> Idle]
    /\ closer = "open"
    /\ chain = <<>> /\ up = TRUE

ClientStep(c) ==
    \/ EnterCreate(c)
    \/ Template(c)
    \/ StartJob(c)
    \/ CreateRaises(c)
    \/ Cancelled(c)
    \/ Release(c)

WorkerStep(j) ==
    \/ Run(j)
    \/ StartThread(j)
    \/ StartThreadFails(j)
    \/ Joined(j)
    \/ Halted(j)
    \/ SubmitBlock(j)
    \/ NodeDecides(j)
    \/ NodeDrops(j)
    \/ Answered(j)
    \/ Explained(j)
    \/ Reported(j)
    \/ Clear(j)

Next ==
    \/ \E c \in Creators : Create(c)
    \/ \E c \in Cancellers, j \in Ids : Cancel(c, j) \/ CancelRaises(c, j)
    \/ \E c \in Clients : ClientStep(c)
    \/ \E j \in Ids : \/ WorkerStep(j) \/ ThreadEnds(j) \/ RuntimeOver(j)
                      \/ JoinRaises(j) \/ HaltRaises(j)
    \/ Close \/ CloseRaises \/ CloseJoined \/ CloseEnds
    \/ OtherBlock
    \/ NodeStops

\* Every await ends, every thread runs, and a time limit cuts it off.
Fairness ==
    /\ \A c \in Clients : WF_vars(ClientStep(c))
    /\ \A j \in 1 .. MaxJobs :
          /\ WF_vars(j \in Ids /\ WorkerStep(j))
          /\ WF_vars(j \in Ids /\ (RuntimeOver(j) \/ ThreadEnds(j)))
    /\ WF_vars(CloseJoined)
    /\ WF_vars(CloseEnds)

Spec == Init /\ [][Next]_vars /\ Fairness

-----------------------------------------------------------------------------
(* Properties.                                                               *)

Final == {"ACCEPTED", "STALE", "FAILED", "CANCELLED"}

\* The request that created j was past the check of _closed when close() came.
Late(j) == jobs[j].born # "open"

\* A mining thread that runs and that nobody has told to stop.
Unstopped(j) == Alive(j) /\ ~jobs[j].stop

\* MINING_BUSY means what it says: there is never a second job to be mined,
\* also not one that the busy check does not see because it is not the active
\* one, whatever is found, cancelled or created at the same time; and a mining
\* thread that was not told to stop is the one of this job.  The exception is
\* the thread of a job that FAILED because its worker could not wait for it:
\* it mines on beside the next job, and past close().  When close() has ended,
\* any other thread not told to stop is of a job created after close() was
\* called, and there is at most one such job.
OneMining ==
    /\ \A j \in Ids : jobs[j].status \in Busy => j = active
    /\ \A j \in Ids : Unstopped(j) => j = active \/ jobs[j].status = "FAILED"
    /\ closer = "closed" =>
          \A j \in Ids : Unstopped(j) => Late(j) \/ jobs[j].status = "FAILED"
    /\ \A i, j \in Ids : Late(i) /\ Late(j) => i = j

Mined(j) == \E i \in DOMAIN chain : chain[i] = j

\* A final status tells the truth about the chain: the block of an accepted
\* job is on it, the block of a cancelled job is not, one that lost the race
\* finds another block in its place, and one that failed is not there unless
\* the node failed in the middle of accepting it.
StatusIsTrue ==
    \A j \in Ids :
        /\ jobs[j].status = "ACCEPTED" => chain[jobs[j].parent + 1] = j
        /\ jobs[j].status = "CANCELLED" => ~Mined(j)
        /\ jobs[j].status = "STALE" =>
              Len(chain) > jobs[j].parent /\ chain[jobs[j].parent + 1] # j
        /\ jobs[j].status = "FAILED" /\ Mined(j) =>
              ~up /\ jobs[j].verdict = "error"

\* A final status never changes, and no block is committed after it: neither a
\* cancellation that waited for the thread nor a late worker overwrites it.
FinalIsFinal ==
    [][\A j \in Ids :
          jobs[j].status \in Final =>
              jobs'[j].status = jobs[j].status /\ (Mined(j)' => Mined(j))]_vars

\* Every job ends, unless the service is closed first, and then the next one
\* can be started: the active job is not left behind.  The exception is a job
\* whose worker task died of an exception because a thread could not be
\* started, and that one can be cancelled as long as it blocks the others.
\* Every request and close() itself return: nobody waits for the lock or for a
\* worker for ever.
EverythingEnds ==
    /\ \A j \in 1 .. MaxJobs :
          j \in Ids ~> \/ closer # "open"
                       \/ j \in Ids /\ jobs[j].status \in Final /\ active # j
                       \/ j \in Ids /\ jobs[j].pc = "done" /\ Cancellable(j)
    /\ \A c \in Clients : client[c].pc # "idle" ~> client[c].pc = "idle"
    /\ closer # "open" ~> closer = "closed"

=============================================================================
