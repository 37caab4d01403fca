----------------------- MODULE MiningServiceProofs -----------------------
(***************************************************************************)
(* Theorems about MiningService, for any number of clients, jobs and       *)
(* blocks.                                                                 *)
(*                                                                         *)
(* The invariant relates a job's status to the await its worker is in, its *)
(* verdict to the chain, and the lock to the request that is between the   *)
(* busy check and the new job.                                             *)
(***************************************************************************)
EXTENDS MiningService, SequenceLemmas

Phases == {"open", "join", "await", "closed"}

Jobs ==
    [status : {"QUEUED", "MINING", "FOUND"} \cup Final,
     parent : Nat, stop : BOOLEAN,
     thread : {"none", "running", "found", "ended", "unstarted"},
     pc : {"new", "announce", "mine", "halt", "found", "accept", "answer",
           "status", "report", "clear", "done"},
     verdict : {"none", "yes", "no", "error"}, born : Phases]

Calls ==
    [pc : {"idle", "lock", "template", "info", "join", "release"}, arg : Nat]

TypeOK ==
    /\ jobs \in Seq(Jobs)
    /\ active \in 0 .. Len(jobs) /\ worker \in 0 .. Len(jobs)
    /\ queue \in Seq(Clients \cup Nat)
    /\ client \in [Clients -> Calls]
    /\ closer \in Phases
    /\ chain \in Seq(Nat)
    /\ up \in BOOLEAN

\* Status, verdict and thread of a job go with the await of its worker.
Sound(b) ==
    /\ b.pc = "new" => b.status \in {"QUEUED", "CANCELLED"}
    /\ b.pc \in {"announce", "mine", "halt"} => b.status \in {"MINING", "CANCELLED"}
    /\ b.pc \in {"new", "announce", "mine", "halt"} /\ b.status = "CANCELLED" => b.stop
    /\ b.pc = "halt" => b.stop
    /\ b.pc \in {"found", "accept", "answer", "status"} => b.status = "FOUND"
    /\ b.pc \in {"report", "clear"} => b.status \notin Busy
    /\ b.pc \in {"found", "accept"} => b.verdict = "none"
    /\ b.pc = "answer" => b.verdict # "none"
    /\ b.pc = "status" => b.verdict \in {"no", "error"}
    /\ b.verdict # "none" => b.status \in {"FOUND", "ACCEPTED", "STALE", "FAILED"}
    /\ b.verdict = "yes" => b.status \in {"FOUND", "ACCEPTED"}
    /\ b.status = "ACCEPTED" => b.verdict = "yes"
    /\ b.thread = "running" => b.stop \/ b.status \in {"MINING", "FAILED"}
    /\ b.status = "QUEUED" => b.thread = "none"

\* A block of a job is on the chain only by the node's verdict.
ChainFits(j) ==
    /\ jobs[j].parent <= Len(chain)
    /\ Mined(j) => jobs[j].verdict = "yes" \/ (jobs[j].verdict = "error" /\ ~up)
    /\ jobs[j].verdict = "yes" =>
          Len(chain) > jobs[j].parent /\ chain[jobs[j].parent + 1] = j
    /\ jobs[j].status = "STALE" =>
          Len(chain) > jobs[j].parent /\ chain[jobs[j].parent + 1] # j

\* Every block is a peer's or of a job that exists.
Authors == \A i \in DOMAIN chain : chain[i] \in 0 .. Len(jobs)

Starting(b) == b.thread = "running" \/ b.pc \in {"new", "announce"}

\* Only the active job is to be mined; close() has stopped what it found,
\* except a thread whose worker has given it up.
ServiceFits(j) ==
    /\ jobs[j].status \in Busy => j = active
    /\ closer # "open" /\ ~Late(j) /\ Starting(jobs[j]) =>
          jobs[j].stop \/ jobs[j].status = "FAILED"

\* A job created after close() was called is the last one: no request is past
\* the check of _closed any more.
LateFits(j) ==
    Late(j) =>
        /\ closer # "open"
        /\ j = Len(jobs)
        /\ \A c \in Clients : client[c].pc \notin {"template", "info"}

\* Between the busy check and the new job a request has the lock and no job
\* is busy; a job being cancelled can only end up cancelled.
ClientFits(c) ==
    /\ client[c].pc \in {"template", "info"} =>
          /\ HasLock(c)
          /\ active # NoJob => jobs[active].status \notin Busy
    /\ client[c].pc = "info" => client[c].arg <= Len(chain)
    /\ client[c].pc = "join" =>
          /\ client[c].arg \in Ids
          /\ jobs[client[c].arg].stop
          /\ jobs[client[c].arg].status \in {"MINING", "CANCELLED"}
    /\ client[c].pc = "release" =>
          client[c].arg \in Ids /\ jobs[client[c].arg].status = "CANCELLED"

IInv ==
    /\ TypeOK
    /\ Authors
    /\ \A j \in Ids : Sound(jobs[j]) /\ ChainFits(j) /\ ServiceFits(j)
    /\ \A j \in Ids : LateFits(j)
    /\ \A c \in Clients : ClientFits(c)

-----------------------------------------------------------------------------
(* What a step may do to a job.                                              *)

\* A final status stays, stop_event is never reset, a job that is stopped
\* while it is mined can only be cancelled, and none becomes busy again.
Advances(old, b) ==
    /\ b.parent = old.parent /\ b.born = old.born
    /\ old.stop => b.stop
    /\ old.status \in Final => b.status = old.status
    /\ old.stop /\ old.status = "MINING" => b.status \in {"MINING", "CANCELLED"}
    /\ b.status \in Busy => old.status \in Busy
    /\ Starting(b) => Starting(old)

\* What FinalIsFinal says of a step.
FinalKept ==
    \A j \in Ids :
        jobs[j].status \in Final =>
            jobs'[j].status = jobs[j].status /\ (Mined(j)' => Mined(j))

\* No jobs.
LEMMA InitIInv == Init => IInv
  BY DEF Init, IInv, TypeOK, Ids, NoJob, Idle, Calls, ClientFits, Jobs, Authors, Phases

\* Every step but StartJob: the jobs advance, the active one is only forgotten
\* when it is not busy, and the lock stays with the request that has it.
LEMMA StepLemma ==
    ASSUME IInv,
           jobs' \in Seq(Jobs), Len(jobs') = Len(jobs),
           \A j \in Ids : Advances(jobs[j], jobs'[j]) /\ Sound(jobs'[j]) /\ ChainFits(j)',
           \/ active' = active
           \/ active' = NoJob /\ (active # NoJob => jobs[active].status \notin Busy),
           worker' = worker,
           queue' \in Seq(Clients \cup Nat),
           chain' \in Seq(Nat), Len(chain) <= Len(chain'), Authors', up' \in BOOLEAN,
           \/ chain' = chain
           \/ \A j \in Ids : jobs[j].status \in Final /\ Mined(j)' => Mined(j),
           closer' \in Phases,
           closer # "open" => closer' # "open",
           \/ closer' = "open" \/ closer # "open"
           \/ active # NoJob => jobs'[active].stop,
           client' \in [Clients -> Calls],
           \A c \in Clients : client[c].pc \in {"template", "info"} /\ HasLock(c)
                                 /\ client'[c] = client[c] => HasLock(c)',
           \A c \in Clients : client'[c] # client[c] => ClientFits(c)',
           \A c \in Clients : client'[c].pc \in {"template", "info"} =>
               closer = "open" \/ client[c].pc \in {"template", "info"}
    PROVE  IInv' /\ FinalKept
  <1>1. Ids' = Ids /\ Len(jobs) \in Nat /\ Len(chain) \in Nat
    BY DEF Ids, IInv, TypeOK
  <1>2. TypeOK'
    BY DEF IInv, TypeOK, NoJob
  <1>3. ASSUME NEW j \in Ids PROVE Sound(jobs[j])' /\ ChainFits(j)' /\ ServiceFits(j)'
    <2>1. Sound(jobs[j])' <=> Sound(jobs'[j])
      BY DEF Sound
    <2>2. /\ Sound(jobs[j]) /\ ServiceFits(j) /\ Advances(jobs[j], jobs'[j])
          /\ Sound(jobs'[j])
      BY DEF IInv
    <2>3. jobs'[j].status \in Busy => j = active'
      <3> SUFFICES ASSUME jobs'[j].status \in Busy PROVE j = active'
        OBVIOUS
      <3>1. jobs[j].status \in Busy /\ j = active
        BY <2>2 DEF Advances, ServiceFits
      <3> QED BY <3>1 DEF NoJob, Ids
    <2>4. closer' # "open" /\ jobs'[j].born = "open" /\ Starting(jobs'[j]) =>
             jobs'[j].stop \/ jobs'[j].status = "FAILED"
      <3> SUFFICES ASSUME closer' # "open", jobs'[j].born = "open", Starting(jobs'[j])
                   PROVE  jobs'[j].stop \/ jobs'[j].status = "FAILED"
        OBVIOUS
      <3>1. jobs[j].born = "open" /\ Starting(jobs[j])
        BY <2>2 DEF Advances
      <3>2. CASE closer # "open"
        BY <2>2, <3>1, <3>2 DEF ServiceFits, Late, Advances, Final
      <3>3. CASE closer = "open"
        <4>1. active # NoJob => jobs'[active].stop
          BY <3>3
        <4>2. jobs'[j].stop \/ jobs'[j].status = "FAILED" \/ jobs[j].status \in Busy
          BY <2>2, <3>1 DEF Sound, Starting, Advances, Busy, Final
        <4> QED BY <2>2, <4>1, <4>2 DEF ServiceFits, Ids, NoJob
      <3> QED BY <3>2, <3>3
    <2>5. ServiceFits(j)' <=>
             /\ jobs'[j].status \in Busy => j = active'
             /\ closer' # "open" /\ jobs'[j].born = "open" /\ Starting(jobs'[j]) =>
                   jobs'[j].stop \/ jobs'[j].status = "FAILED"
      BY DEF ServiceFits, Late, Starting, Busy
    <2> QED BY <2>1, <2>2, <2>3, <2>4, <2>5
  <1>4. ASSUME NEW c \in Clients PROVE ClientFits(c)'
    <2>1. CASE client'[c] # client[c]
      BY <2>1
    <2>2. CASE client'[c] = client[c]
      <3>1. ClientFits(c)
        BY DEF IInv
      <3>2. client[c].pc \in {"template", "info"} =>
               /\ HasLock(c)'
               /\ active' # NoJob => jobs'[active'].status \notin Busy
        <4> SUFFICES ASSUME client[c].pc \in {"template", "info"}
                     PROVE  /\ HasLock(c)'
                            /\ active' # NoJob => jobs'[active'].status \notin Busy
          OBVIOUS
        <4>1. HasLock(c)'
          BY <2>2, <3>1 DEF ClientFits
        <4>2. ASSUME active' # NoJob PROVE jobs'[active'].status \notin Busy
          <5>1. active' = active /\ active \in Ids
            BY <1>1, <4>2 DEF IInv, TypeOK, Ids, NoJob
          <5>2. jobs[active].status \notin Busy
            BY <3>1, <4>2, <5>1 DEF ClientFits
          <5> QED BY <5>1, <5>2 DEF Advances
        <4> QED BY <4>1, <4>2
      <3>3. client[c].pc = "info" => client[c].arg <= Len(chain')
        BY <1>1, <3>1 DEF ClientFits, IInv, TypeOK, Calls
      <3>4. client[c].pc = "join" =>
               /\ client[c].arg \in Ids
               /\ jobs'[client[c].arg].stop
               /\ jobs'[client[c].arg].status \in {"MINING", "CANCELLED"}
        BY <3>1 DEF ClientFits, Advances, Final
      <3>5. client[c].pc = "release" =>
               client[c].arg \in Ids /\ jobs'[client[c].arg].status = "CANCELLED"
        BY <3>1 DEF ClientFits, Advances, Final
      <3> QED BY <1>1, <2>2, <3>2, <3>3, <3>4, <3>5 DEF ClientFits, Busy, NoJob
    <2> QED BY <2>1, <2>2
  <1>5. FinalKept
    BY DEF FinalKept, Advances, Mined
  <1>6. ASSUME NEW j \in Ids PROVE LateFits(j)'
    <2>1. LateFits(j) /\ jobs'[j].born = jobs[j].born
      BY DEF IInv, Advances
    <2> QED BY <2>1 DEF LateFits, Late
  <1> QED BY <1>1, <1>2, <1>3, <1>4, <1>5, <1>6 DEF IInv

\* A step that changes one job and not the chain.
LEMMA OneJob ==
    ASSUME IInv, NEW j \in Ids, NEW b \in Jobs, Advances(jobs[j], b), Sound(b),
           jobs' = [jobs EXCEPT ![j] = b], UNCHANGED <<chain, up>>,
           \/ b.verdict = jobs[j].verdict
           \/ jobs[j].verdict = "none" /\ b.verdict \in {"no", "error"},
           b.status = "STALE" => \/ jobs[j].status = "STALE"
                                 \/ /\ up /\ Len(chain) # jobs[j].parent
                                    /\ b.verdict # "yes"
    PROVE  /\ jobs' \in Seq(Jobs) /\ Len(jobs') = Len(jobs)
           /\ \A i \in Ids : /\ Advances(jobs[i], jobs'[i])
                             /\ Sound(jobs'[i])
                             /\ ChainFits(i)'
  <1>1. jobs \in Seq(Jobs) /\ j \in 1 .. Len(jobs)
    BY DEF IInv, TypeOK, Ids
  <1>2. jobs' \in Seq(Jobs) /\ Len(jobs') = Len(jobs)
    BY <1>1
  <1>3. /\ jobs'[j] = b
        /\ \A i \in Ids : i # j => jobs'[i] = jobs[i]
    BY <1>1 DEF Ids
  <1>4. \A i \in Ids : Advances(jobs[i], jobs'[i]) /\ Sound(jobs'[i])
    BY <1>3 DEF Advances, IInv
  <1>5. ASSUME NEW i \in Ids PROVE ChainFits(i)'
    <2>1. ChainFits(i) /\ (Mined(i)' <=> Mined(i)) /\ jobs[i] \in Jobs
      BY <1>1 DEF IInv, Mined, Ids
    <2>2. CASE i # j
      BY <1>3, <2>1, <2>2 DEF ChainFits
    <2>3. CASE i = j
      <3>1. /\ jobs'[i] = b /\ b.parent = jobs[i].parent
            /\ jobs[i].parent \in Nat /\ Len(chain) \in Nat
        BY <1>3, <2>1, <2>3 DEF Advances, Jobs, IInv, TypeOK
      <3>2. Mined(i) => b.verdict = "yes" \/ (b.verdict = "error" /\ ~up)
        BY <2>1, <2>3 DEF ChainFits
      <3>3. b.verdict = "yes" =>
               Len(chain) > jobs[i].parent /\ chain[jobs[i].parent + 1] = i
        BY <2>1, <2>3 DEF ChainFits
      <3>4. b.status = "STALE" =>
               Len(chain) > jobs[i].parent /\ chain[jobs[i].parent + 1] # i
        <4>1. CASE jobs[i].status = "STALE"
          BY <2>1, <4>1 DEF ChainFits
        <4>2. CASE up /\ Len(chain) # jobs[i].parent /\ b.verdict # "yes"
          <5>1. Len(chain) > jobs[i].parent
            BY <2>1, <3>1, <4>2 DEF ChainFits
          <5>2. jobs[i].parent + 1 \in DOMAIN chain
            BY <3>1, <5>1 DEF IInv, TypeOK
          <5>3. ~Mined(i)
            BY <3>2, <4>2
          <5> QED BY <5>1, <5>2, <5>3 DEF Mined
        <4> QED BY <2>3, <4>1, <4>2
      <3> QED BY <2>1, <3>1, <3>2, <3>3, <3>4 DEF ChainFits
    <2> QED BY <2>2, <2>3
  <1> QED BY <1>2, <1>4, <1>5

\* The same for a step of its worker or thread, which may ask for the lock.
LEMMA WorkerLemma ==
    ASSUME IInv, NEW j \in Ids, NEW b \in Jobs, Advances(jobs[j], b), Sound(b),
           jobs' = [jobs EXCEPT ![j] = b], UNCHANGED <<chain, up>>,
           \/ b.verdict = jobs[j].verdict
           \/ jobs[j].verdict = "none" /\ b.verdict \in {"no", "error"},
           b.status = "STALE" => \/ jobs[j].status = "STALE"
                                 \/ /\ up /\ Len(chain) # jobs[j].parent
                                    /\ b.verdict # "yes",
           queue' = queue \/ queue' = Append(queue, j),
           UNCHANGED <<active, worker, client, closer>>
    PROVE  IInv' /\ FinalKept
  <1>1. /\ jobs' \in Seq(Jobs) /\ Len(jobs') = Len(jobs)
        /\ \A i \in Ids : Advances(jobs[i], jobs'[i]) /\ Sound(jobs'[i]) /\ ChainFits(i)'
    BY OneJob
  <1>2. /\ chain' \in Seq(Nat) /\ Len(chain) <= Len(chain') /\ up' \in BOOLEAN
        /\ closer' \in Phases
        /\ client' \in [Clients -> Calls] /\ queue \in Seq(Clients \cup Nat)
        /\ Authors'
    BY <1>1 DEF IInv, TypeOK, Authors
  <1>3. j \in Clients \cup Nat
    <2>1. jobs \in Seq(Jobs) /\ j \in 1 .. Len(jobs)
      BY DEF Ids, IInv, TypeOK
    <2>2. j \in Nat
      BY <2>1
    <2> QED BY <2>2
  <1>4. queue' \in Seq(Clients \cup Nat)
    <2>1. Append(queue, j) \in Seq(Clients \cup Nat)
      <3> DEFINE W == Clients \cup Nat
      <3>1. queue \in Seq(W) /\ j \in W
        BY <1>2, <1>3
      <3> HIDE DEF W
      <3>2. Append(queue, j) \in Seq(W)
        BY <3>1
      <3> QED BY <3>2 DEF W
    <2> QED BY <1>2, <2>1
  <1>5. ASSUME NEW c \in Clients, HasLock(c) PROVE HasLock(c)'
    <2>1. queue # <<>> /\ Head(queue) = c
      BY <1>5 DEF HasLock
    <2>2. Append(queue, j) # <<>> /\ Head(Append(queue, j)) = c
      <3> DEFINE W == Clients \cup Nat
      <3>1. queue \in Seq(W) /\ j \in W
        BY <1>2, <1>3
      <3> HIDE DEF W
      <3> QED BY <2>1, <3>1, HeadOfAppend
    <2>3. queue' # <<>> /\ Head(queue') = c
      BY <2>1, <2>2
    <2> QED BY <2>3 DEF HasLock
  <1> QED BY <1>1, <1>2, <1>4, <1>5, StepLemma

\* What the invariant says of one job.
LEMMA JobFacts ==
    ASSUME IInv, NEW j \in Ids
    PROVE  /\ jobs[j] \in Jobs /\ Sound(jobs[j]) /\ ChainFits(j) /\ ServiceFits(j)
           /\ j \in DOMAIN jobs
  BY DEF IInv, TypeOK, Ids

\* The job a has become with these fields.
Became(b, a, status, pc, stop, thread, verdict) ==
    /\ b \in Jobs /\ b.parent = a.parent /\ b.born = a.born
    /\ b.status = status /\ b.pc = pc /\ b.stop = stop
    /\ b.thread = thread /\ b.verdict = verdict

\* The types of those fields.
LEMMA JobFields ==
    ASSUME NEW a \in Jobs
    PROVE  /\ a.status \in {"QUEUED", "MINING", "FOUND"} \cup Final
           /\ a.stop \in BOOLEAN
           /\ a.thread \in {"none", "running", "found", "ended", "unstarted"}
           /\ a.verdict \in {"none", "yes", "no", "error"}
  BY DEF Jobs

\* One lemma per step of a worker or its thread: it keeps the invariant, and
\* final statuses.
LEMMA RunStep ==
    ASSUME IInv, NEW j \in Ids, Run(j)
    PROVE  IInv' /\ FinalKept
  <1> DEFINE b == [jobs[j] EXCEPT !.status = IF jobs[j].stop THEN "CANCELLED" ELSE "MINING",
                                  !.pc = IF jobs[j].stop THEN "done" ELSE "announce"]
  <1>1. jobs' = [jobs EXCEPT ![j] = b]
    <2>1. CASE jobs[j].stop
      BY <2>1, JobFacts DEF Run, Set
    <2>2. CASE ~jobs[j].stop
      BY <2>2, JobFacts DEF Run, Set
    <2> QED BY <2>1, <2>2
  <1>2. Became(b, jobs[j], IF jobs[j].stop THEN "CANCELLED" ELSE "MINING",
               IF jobs[j].stop THEN "done" ELSE "announce",
               jobs[j].stop, jobs[j].thread, jobs[j].verdict)
    BY JobFacts, ZenonT(40) DEF Jobs, Final, Became
  <1> HIDE DEF b
  <1>3. b \in Jobs /\ b.verdict = jobs[j].verdict /\ b.status # "STALE"
    BY <1>2 DEF Became
  <1>4. jobs[j].pc = "new" /\ Sound(jobs[j]) /\ jobs[j].stop \in BOOLEAN
    BY JobFacts, JobFields DEF Run
  <1>5. jobs[j].status \in {"QUEUED", "CANCELLED"}
    BY <1>4 DEF Sound
  <1>6. Sound(b)
    BY <1>2, <1>4, <1>5 DEF Became, Sound, Busy
  <1>7. Advances(jobs[j], b)
    BY <1>2, <1>4, <1>5 DEF Became, Sound, Advances, Starting, Busy, Final
  <1> QED BY <1>1, <1>3, <1>6, <1>7, WorkerLemma DEF Run, node

LEMMA StartThreadStep ==
    ASSUME IInv, NEW j \in Ids, StartThread(j) \/ StartThreadFails(j)
    PROVE  IInv' /\ FinalKept
  <1>1. PICK pc \in {"mine", "done"}, thread \in {"running", "unstarted"} :
           jobs' = [jobs EXCEPT ![j].pc = pc, ![j].thread = thread]
    BY DEF StartThread, StartThreadFails
  <1> DEFINE b == [jobs[j] EXCEPT !.pc = pc, !.thread = thread]
  <1>2. jobs' = [jobs EXCEPT ![j] = b]
    BY <1>1, JobFacts
  <1>3. jobs[j].pc = "announce"
    BY DEF StartThread, StartThreadFails
  <1>4. Became(b, jobs[j], jobs[j].status, pc, jobs[j].stop, thread, jobs[j].verdict)
    BY JobFacts DEF Jobs, Became
  <1> HIDE DEF b
  <1>5. b \in Jobs /\ b.verdict = jobs[j].verdict /\ b.status = jobs[j].status
    BY <1>4 DEF Became
  <1>6. Sound(jobs[j]) /\ jobs[j].status \in {"MINING", "CANCELLED"}
    BY <1>3, JobFacts DEF Sound
  <1>7. Sound(b)
    BY <1>3, <1>4, <1>6 DEF Became, Sound, Busy
  <1>8. Advances(jobs[j], b)
    BY <1>3, <1>4 DEF Became, Advances, Starting
  <1> QED BY <1>2, <1>5, <1>7, <1>8, WorkerLemma DEF StartThread, StartThreadFails, node

LEMMA ThreadEndsStep ==
    ASSUME IInv, NEW j \in Ids, ThreadEnds(j)
    PROVE  IInv' /\ FinalKept
  <1>1. PICK result \in {"found", "ended"} : jobs' = [jobs EXCEPT ![j].thread = result]
    BY DEF ThreadEnds
  <1> DEFINE b == [jobs[j] EXCEPT !.thread = result]
  <1>2. jobs' = [jobs EXCEPT ![j] = b]
    BY <1>1, JobFacts
  <1>3. b \in Jobs /\ Sound(b) /\ Advances(jobs[j], b)
    BY JobFacts DEF ThreadEnds, Alive, Jobs, Sound, Advances, Starting, Busy, Final
  <1>4. b.verdict = jobs[j].verdict /\ b.status = jobs[j].status
    BY JobFacts DEF Jobs
  <1> HIDE DEF b
  <1> QED BY <1>2, <1>3, <1>4, WorkerLemma DEF ThreadEnds, node

\* After the join a stopped job is cancelled, whatever its thread found.
LEMMA EvaluateStep ==
    ASSUME IInv, NEW j \in Ids, Joined(j) \/ JoinRaises(j) \/ Halted(j)
    PROVE  IInv' /\ FinalKept
  <1>1. /\ jobs[j].pc \in {"mine", "halt"} /\ Evaluate(j)
        /\ UNCHANGED <<active, worker, queue, client, closer, node>>
    BY DEF Joined, JoinRaises, Halted
  <1>2. PICK status \in {"CANCELLED", "FOUND", "FAILED"}, pc \in {"report", "found"} :
           /\ Set(j, status, pc)
           /\ status = "CANCELLED" <=> jobs[j].stop
           /\ status = "FOUND" <=> pc = "found"
           /\ status = "FOUND" => ~Alive(j)
    BY <1>1 DEF Evaluate, Stopped, Alive
  <1> DEFINE b == [jobs[j] EXCEPT !.status = status, !.pc = pc]
  <1>3. jobs' = [jobs EXCEPT ![j] = b]
    BY <1>2, JobFacts DEF Set
  <1>4. Alive(j) => status \in {"CANCELLED", "FAILED"}
    BY <1>2
  <1>5. jobs[j].verdict = "none"
    BY <1>1, JobFacts DEF Sound, Jobs
  <1>6. b \in Jobs /\ b.verdict = "none" /\ b.status = status /\ b.pc = pc
        /\ b.stop = jobs[j].stop /\ b.thread = jobs[j].thread
        /\ b.parent = jobs[j].parent /\ b.born = jobs[j].born
    BY <1>5, JobFacts DEF Jobs, Final
  <1> HIDE DEF b
  <1>7. Sound(b)
    BY <1>1, <1>2, <1>4, <1>6 DEF Sound, Alive, Busy
  <1>8. Advances(jobs[j], b)
    BY <1>1, <1>2, <1>4, <1>6, JobFacts DEF Sound, Advances, Starting, Busy, Final, Jobs
  <1> QED BY <1>1, <1>2, <1>3, <1>5, <1>6, <1>7, <1>8, WorkerLemma DEF node

LEMMA RuntimeOverStep ==
    ASSUME IInv, NEW j \in Ids, RuntimeOver(j) \/ HaltRaises(j)
    PROVE  IInv' /\ FinalKept
  <1>0. PICK pc \in {"halt", "done"} : jobs' = [jobs EXCEPT ![j].stop = TRUE, ![j].pc = pc]
    BY DEF RuntimeOver, HaltRaises
  <1> DEFINE b == [jobs[j] EXCEPT !.stop = TRUE, !.pc = pc]
  <1>1. jobs' = [jobs EXCEPT ![j] = b] /\ jobs[j].pc = "mine"
    BY <1>0, JobFacts DEF RuntimeOver, HaltRaises
  <1>2. Became(b, jobs[j], jobs[j].status, pc, TRUE, jobs[j].thread, jobs[j].verdict)
    BY JobFacts DEF Jobs, Became
  <1> HIDE DEF b
  <1>3. b \in Jobs /\ b.verdict = jobs[j].verdict /\ b.status = jobs[j].status
    BY <1>2 DEF Became
  <1>4. Sound(jobs[j]) /\ jobs[j].status \in {"MINING", "CANCELLED"}
    BY <1>1, JobFacts DEF Sound
  <1>5. Sound(b)
    BY <1>1, <1>2, <1>4 DEF Became, Sound, Busy
  <1>6. Advances(jobs[j], b)
    BY <1>1, <1>2, <1>4 DEF Became, Advances, Starting, Busy, Final
  <1> QED BY <1>1, <1>3, <1>5, <1>6, WorkerLemma DEF RuntimeOver, HaltRaises, node

LEMMA SubmitBlockStep ==
    ASSUME IInv, NEW j \in Ids, SubmitBlock(j) \/ NodeDrops(j)
    PROVE  IInv' /\ FinalKept
  <1>1. PICK pc \in {"accept", "answer"}, verdict \in {"none", "error"} :
           /\ jobs' = [jobs EXCEPT ![j].pc = pc, ![j].verdict = verdict]
           /\ pc = "accept" <=> verdict = "none"
    <2>1. jobs[j].pc \in {"found", "accept"} /\ jobs[j].verdict = "none"
      BY JobFacts DEF SubmitBlock, NodeDrops, Sound
    <2>2. CASE jobs' = [jobs EXCEPT ![j].pc = "accept"]
      <3>1. jobs' = [jobs EXCEPT ![j].pc = "accept", ![j].verdict = "none"]
        BY <2>1, <2>2, JobFacts DEF Jobs
      <3> QED BY <3>1
    <2>3. CASE jobs' = [jobs EXCEPT ![j].pc = "answer", ![j].verdict = "error"]
      BY <2>3
    <2> QED BY <2>2, <2>3 DEF SubmitBlock, NodeDrops
  <1> DEFINE b == [jobs[j] EXCEPT !.pc = pc, !.verdict = verdict]
  <1>2. jobs' = [jobs EXCEPT ![j] = b]
    BY <1>1, JobFacts
  <1>3. jobs[j].pc \in {"found", "accept"} /\ jobs[j].status = "FOUND"
        /\ jobs[j].verdict = "none"
    BY JobFacts DEF SubmitBlock, NodeDrops, Sound
  <1>4. Became(b, jobs[j], jobs[j].status, pc, jobs[j].stop, jobs[j].thread, verdict)
    BY JobFacts DEF Jobs, Became
  <1> HIDE DEF b
  <1>5. /\ b \in Jobs /\ b.verdict \in {"none", "error"}
        /\ b.status = jobs[j].status
    BY <1>1, <1>4 DEF Became
  <1>6. Sound(b)
    BY <1>1, <1>3, <1>4, JobFacts DEF Became, Sound, Busy
  <1>7. Advances(jobs[j], b)
    BY <1>1, <1>3, <1>4 DEF Became, Advances, Starting
  <1> QED BY <1>2, <1>3, <1>5, <1>6, <1>7, WorkerLemma DEF SubmitBlock, NodeDrops, node

LEMMA AnsweredStep ==
    ASSUME IInv, NEW j \in Ids, Answered(j)
    PROVE  IInv' /\ FinalKept
  <1>1. PICK status \in {"ACCEPTED", "FOUND"}, pc \in {"report", "status"} :
           /\ Set(j, status, pc)
           /\ status = "ACCEPTED" <=> jobs[j].verdict = "yes"
           /\ pc = "report" <=> jobs[j].verdict = "yes"
    BY DEF Answered
  <1> DEFINE b == [jobs[j] EXCEPT !.status = status, !.pc = pc]
  <1>2. jobs' = [jobs EXCEPT ![j] = b]
    BY <1>1, JobFacts DEF Set
  <1>3. jobs[j].pc = "answer" /\ jobs[j].status = "FOUND" /\ jobs[j].verdict # "none"
    BY JobFacts DEF Answered, Sound
  <1>4. Became(b, jobs[j], status, pc, jobs[j].stop, jobs[j].thread, jobs[j].verdict)
    BY JobFacts DEF Jobs, Final, Became
  <1> HIDE DEF b
  <1>5. b \in Jobs /\ b.verdict = jobs[j].verdict /\ b.status # "STALE"
    BY <1>4 DEF Became
  <1>6. Sound(jobs[j]) /\ jobs[j].verdict \in {"none", "yes", "no", "error"}
    BY JobFacts, JobFields
  <1>7. Sound(b)
    BY <1>1, <1>3, <1>4, <1>6 DEF Became, Sound, Busy
  <1>8. Advances(jobs[j], b)
    BY <1>1, <1>3, <1>4 DEF Became, Advances, Starting, Busy, Final
  <1> QED BY <1>2, <1>5, <1>7, <1>8, WorkerLemma DEF Answered, node

LEMMA ExplainedStep ==
    ASSUME IInv, NEW j \in Ids, Explained(j)
    PROVE  IInv' /\ FinalKept
  <1>1. PICK status \in {"STALE", "FAILED"} :
           /\ Set(j, status, "report")
           /\ status = "STALE" => up /\ Len(chain) # jobs[j].parent
    BY DEF Explained, StaleOrFailed
  <1> DEFINE b == [jobs[j] EXCEPT !.status = status, !.pc = "report"]
  <1>2. jobs' = [jobs EXCEPT ![j] = b]
    BY <1>1, JobFacts DEF Set
  <1>3. /\ jobs[j].pc = "status" /\ jobs[j].status = "FOUND"
        /\ jobs[j].verdict \in {"no", "error"}
    BY JobFacts DEF Explained, Sound
  <1>4. Became(b, jobs[j], status, "report", jobs[j].stop, jobs[j].thread, jobs[j].verdict)
    BY JobFacts DEF Jobs, Final, Became
  <1> HIDE DEF b
  <1>5. b \in Jobs /\ b.verdict = jobs[j].verdict /\ b.status = status
    BY <1>4 DEF Became
  <1>6. Sound(b)
    BY <1>3, <1>4, JobFacts DEF Became, Sound, Busy
  <1>7. Advances(jobs[j], b)
    BY <1>3, <1>4 DEF Became, Advances, Starting, Busy, Final
  <1> QED BY <1>1, <1>2, <1>3, <1>5, <1>6, <1>7, WorkerLemma DEF Explained, node

LEMMA ReportedStep ==
    ASSUME IInv, NEW j \in Ids, Reported(j)
    PROVE  IInv' /\ FinalKept
  <1> DEFINE b == [jobs[j] EXCEPT !.pc = "clear"]
  <1>1. jobs' = [jobs EXCEPT ![j] = b]
    BY JobFacts DEF Reported
  <1>2. b \in Jobs /\ Sound(b) /\ Advances(jobs[j], b)
    BY JobFacts DEF Reported, Jobs, Sound, Advances, Starting, Busy, Final
  <1>3. b.verdict = jobs[j].verdict /\ b.status = jobs[j].status
    BY JobFacts DEF Jobs
  <1> HIDE DEF b
  <1> QED BY <1>1, <1>2, <1>3, WorkerLemma DEF Reported, node

\* The job's block is committed, if the node says so.
LEMMA NodeDecidesStep ==
    ASSUME IInv, NEW j \in Ids, NodeDecides(j)
    PROVE  IInv' /\ FinalKept
  <1>1. PICK verdict \in {"yes", "no", "error"}, commits \in BOOLEAN :
          /\ commits => Len(chain) = jobs[j].parent
          /\ verdict = "yes" => commits
          /\ verdict = "no" => ~commits
          /\ jobs' = [jobs EXCEPT ![j].pc = "answer", ![j].verdict = verdict]
          /\ chain' = IF commits THEN Append(chain, j) ELSE chain
          /\ up' = (verdict # "error")
    BY DEF NodeDecides
  <1> DEFINE b == [jobs[j] EXCEPT !.pc = "answer", !.verdict = verdict]
  <1>2. jobs' = [jobs EXCEPT ![j] = b]
    BY <1>1, JobFacts
  <1>3. /\ jobs[j].pc = "accept" /\ jobs[j].status = "FOUND"
        /\ jobs[j].verdict = "none" /\ up
    BY JobFacts DEF NodeDecides, Sound
  <1>4. /\ b \in Jobs /\ b.verdict = verdict /\ b.status = "FOUND"
        /\ b.parent = jobs[j].parent
    BY <1>3, JobFacts DEF Jobs
  <1>5. Sound(b) /\ Advances(jobs[j], b)
    BY <1>1, <1>3, JobFacts DEF Jobs, Sound, Advances, Starting, Busy, Final
  <1> HIDE DEF b
  <1>6. /\ jobs \in Seq(Jobs) /\ j \in 1 .. Len(jobs)
        /\ chain \in Seq(Nat) /\ Len(chain) \in Nat
    BY DEF IInv, TypeOK, Ids
  <1>7. jobs' \in Seq(Jobs) /\ Len(jobs') = Len(jobs)
    BY <1>2, <1>4, <1>6
  <1>8. /\ jobs'[j] = b
        /\ \A i \in Ids : i # j => jobs'[i] = jobs[i]
    BY <1>2, <1>6 DEF Ids
  <1>9. \A i \in Ids : Advances(jobs[i], jobs'[i]) /\ Sound(jobs'[i])
    BY <1>5, <1>8 DEF Advances, IInv
  <1>10. j \in Nat /\ chain' \in Seq(Nat) /\ Len(chain) <= Len(chain')
    BY <1>1, <1>6
  <1>11. /\ \A n \in 1 .. Len(chain) : chain'[n] = chain[n]
         /\ commits => Len(chain') = Len(chain) + 1 /\ chain'[Len(chain) + 1] = j
         /\ ~commits => chain' = chain
    BY <1>1, <1>6, <1>10
  <1>12. ASSUME NEW i \in Ids PROVE ChainFits(i)'
    <2>1. ChainFits(i) /\ jobs[i] \in Jobs /\ jobs[i].parent \in Nat
      BY JobFacts DEF Jobs
    <2>2. CASE i # j
      <3>1. Mined(i)' => Mined(i)
        BY <1>1, <1>6, <1>10, <1>11, <2>2 DEF Mined
      <3>2. Mined(i) => jobs[i].verdict = "yes"
        BY <1>3, <2>1 DEF ChainFits
      <3>3. jobs'[i] = jobs[i]
        BY <1>8, <2>2
      <3>4. Len(chain) > jobs[i].parent =>
               /\ Len(chain') > jobs[i].parent
               /\ chain'[jobs[i].parent + 1] = chain[jobs[i].parent + 1]
        <4> SUFFICES ASSUME Len(chain) > jobs[i].parent
                     PROVE  /\ Len(chain') > jobs[i].parent
                            /\ chain'[jobs[i].parent + 1] = chain[jobs[i].parent + 1]
          OBVIOUS
        <4>1. jobs[i].parent + 1 \in 1 .. Len(chain)
          BY <1>6, <2>1
        <4>2. Len(chain') \in Nat
          BY <1>10
        <4>3. chain'[jobs[i].parent + 1] = chain[jobs[i].parent + 1]
          BY <1>11, <4>1
        <4>4. Len(chain') > jobs[i].parent
          BY <1>6, <1>10, <2>1, <4>2
        <4> QED BY <4>3, <4>4
      <3>5. jobs[i].parent <= Len(chain')
        BY <1>6, <1>10, <2>1 DEF ChainFits
      <3> QED BY <2>1, <3>1, <3>2, <3>3, <3>4, <3>5 DEF ChainFits
    <2>3. CASE i = j
      <3>1. ~Mined(j)
        BY <1>3, <2>1, <2>3 DEF ChainFits
      <3>2. Mined(j)' => commits
        BY <1>11, <3>1 DEF Mined
      <3>3. Mined(j)' => verdict = "yes" \/ (verdict = "error" /\ ~up')
        BY <1>1, <3>2
      <3>4. verdict = "yes" => Len(chain') > b.parent /\ chain'[b.parent + 1] = j
        BY <1>1, <1>4, <1>6, <1>11
      <3>5. b.parent <= Len(chain')
        BY <1>4, <1>6, <1>10, <2>1, <2>3 DEF ChainFits
      <3> QED BY <1>4, <1>8, <2>3, <3>3, <3>4, <3>5 DEF ChainFits
    <2> QED BY <2>2, <2>3
  <1>13. UNCHANGED <<active, worker, queue, client, closer>> /\ up' \in BOOLEAN
    BY <1>1 DEF NodeDecides
  <1>14. \A c \in Clients : HasLock(c) => HasLock(c)'
    BY <1>13 DEF HasLock
  <1>15. /\ queue \in Seq(Clients \cup Nat) /\ client \in [Clients -> Calls]
         /\ closer \in Phases
    BY DEF IInv, TypeOK
  <1>16. Authors'
    BY <1>1, <1>6, <1>7, <1>10, <1>11 DEF Authors, IInv
  <1>17. \A i \in Ids : jobs[i].status \in Final /\ Mined(i)' => Mined(i)
    <2>1. j \notin {i \in Ids : jobs[i].status \in Final}
      BY <1>3 DEF Final
    <2> QED BY <1>1, <1>6, <1>10, <1>11, <2>1 DEF Mined
  <1> QED BY <1>7, <1>9, <1>10, <1>12, <1>13, <1>14, <1>15, <1>16, <1>17, StepLemma

\* The lock is given back.
LEMMA TailOfQueue ==
    ASSUME IInv, queue # <<>>
    PROVE  Tail(queue) \in Seq(Clients \cup Nat)
  BY DEF IInv, TypeOK

\* No request is between busy check and new job while another has the lock.
LEMMA LockElsewhere ==
    ASSUME IInv, NEW x, HasLock(x), NEW c \in Clients, c # x
    PROVE  client[c].pc \notin {"template", "info"}
  BY DEF IInv, ClientFits, HasLock

LEMMA ClearStep ==
    ASSUME IInv, NEW j \in Ids, Clear(j)
    PROVE  IInv' /\ FinalKept
  <1> DEFINE b == [jobs[j] EXCEPT !.pc = "done"]
  <1>1. jobs' = [jobs EXCEPT ![j] = b]
    BY JobFacts DEF Clear
  <1>2. b \in Jobs /\ Sound(b) /\ Advances(jobs[j], b)
    BY JobFacts DEF Clear, Jobs, Sound, Advances, Starting, Busy, Final
  <1>3. b.verdict = jobs[j].verdict /\ b.status = jobs[j].status
    BY JobFacts DEF Jobs
  <1> HIDE DEF b
  <1>4. /\ UNCHANGED <<worker, client, closer, chain, up>>
        /\ HasLock(j) /\ queue' = Tail(queue) /\ active' = Without(j)
    BY DEF Clear, node
  <1>5. /\ jobs' \in Seq(Jobs) /\ Len(jobs') = Len(jobs)
        /\ \A i \in Ids : Advances(jobs[i], jobs'[i]) /\ Sound(jobs'[i]) /\ ChainFits(i)'
    BY <1>1, <1>2, <1>3, <1>4, OneJob
  <1>6. jobs[j].status \notin Busy
    BY JobFacts DEF Clear, Sound
  <1>7. \/ active' = active
        \/ active' = NoJob /\ (active # NoJob => jobs[active].status \notin Busy)
    BY <1>4, <1>6 DEF Without
  <1>8. \A c \in Clients : c # j
    <2>1. jobs \in Seq(Jobs) /\ j \in 1 .. Len(jobs)
      BY DEF IInv, TypeOK, Ids
    <2>2. j \in Nat
      BY <2>1
    <2> QED BY <2>2, MiningAssumption DEF Clients
  <1>9. \A c \in Clients : client[c].pc \notin {"template", "info"}
    BY <1>4, <1>8, LockElsewhere
  <1>10. queue' \in Seq(Clients \cup Nat)
    BY <1>4, TailOfQueue DEF HasLock
  <1>11. /\ client' \in [Clients -> Calls] /\ chain' \in Seq(Nat) /\ up' \in BOOLEAN
         /\ closer' \in Phases
         /\ Len(chain) <= Len(chain') /\ Authors'
    BY <1>4, <1>5 DEF IInv, TypeOK, Authors
  <1> QED BY <1>4, <1>5, <1>7, <1>9, <1>10, <1>11, StepLemma

-----------------------------------------------------------------------------
(* The requests and close().                                                 *)

\* A step of one client that leaves jobs, chain and service alone.
LEMMA ClientLemma ==
    ASSUME IInv, NEW c \in Clients, NEW call \in Calls,
           client' = [client EXCEPT ![c] = call],
           UNCHANGED <<jobs, active, worker, closer, chain, up>>,
           queue' \in Seq(Clients \cup Nat),
           ClientFits(c)',
           call.pc \in {"template", "info"} =>
               closer = "open" \/ client[c].pc \in {"template", "info"},
           \A d \in Clients : d # c /\ client[d].pc \in {"template", "info"} /\ HasLock(d)
                                 => HasLock(d)'
    PROVE  IInv' /\ FinalKept
  <1>1. /\ jobs' \in Seq(Jobs) /\ client \in [Clients -> Calls]
        /\ closer' \in Phases /\ up' \in BOOLEAN
        /\ chain' \in Seq(Nat) /\ Len(chain) <= Len(chain') /\ Authors'
    BY DEF IInv, TypeOK, Authors
  <1>2. \A j \in Ids : Advances(jobs[j], jobs'[j]) /\ Sound(jobs'[j]) /\ ChainFits(j)'
    BY DEF Advances, IInv, ChainFits, Mined
  <1>3. /\ client' \in [Clients -> Calls] /\ client'[c] = call
        /\ \A d \in Clients : d # c => client'[d] = client[d]
    BY <1>1
  <1>4. \A d \in Clients : client[d].pc \in {"template", "info"} /\ HasLock(d)
                             /\ client'[d] = client[d] => HasLock(d)'
    BY <1>1, <1>3 DEF ClientFits
  <1>5. \A d \in Clients : client'[d].pc \in {"template", "info"} =>
           closer = "open" \/ client[d].pc \in {"template", "info"}
    BY <1>3
  <1> QED BY <1>1, <1>2, <1>3, <1>4, <1>5, StepLemma

\* The steps of a request to mine.
LEMMA CreateStep ==
    ASSUME IInv, NEW c \in Clients, Create(c)
    PROVE  IInv' /\ FinalKept
  <1> DEFINE call == [client[c] EXCEPT !.pc = "lock"]
  <1>1. /\ client' = [client EXCEPT ![c] = call] /\ queue' = Append(queue, c)
        /\ UNCHANGED <<jobs, active, worker, closer, chain, up>>
    BY DEF Create, node
  <1>2. call \in Calls /\ call.pc = "lock" /\ client'[c] = call
    BY <1>1 DEF IInv, TypeOK, Calls
  <1> HIDE DEF call
  <1>3. queue \in Seq(Clients \cup Nat) /\ queue' \in Seq(Clients \cup Nat)
    BY <1>1, AppendProperties DEF IInv, TypeOK
  <1>4. ASSUME NEW d \in Clients, HasLock(d) PROVE HasLock(d)'
    BY <1>1, <1>3, <1>4, HeadOfAppend DEF HasLock
  <1>5. ClientFits(c)'
    BY <1>2 DEF ClientFits
  <1> QED BY <1>1, <1>2, <1>3, <1>4, <1>5, ClientLemma

LEMMA EnterCreateStep ==
    ASSUME IInv, NEW c \in Clients, EnterCreate(c)
    PROVE  IInv' /\ FinalKept
  <1>1. HasLock(c) /\ UNCHANGED <<jobs, active, worker, closer, chain, up>>
    BY DEF EnterCreate, node
  <1>2. \A d \in Clients : d # c => client[d].pc \notin {"template", "info"}
    BY <1>1, LockElsewhere
  <1>3. CASE Refused
    <2>1. client' = [client EXCEPT ![c] = Idle] /\ queue' = Tail(queue)
      BY <1>3 DEF EnterCreate
    <2>2. Idle \in Calls /\ client'[c] = Idle /\ Idle.pc = "idle"
      BY <2>1 DEF IInv, TypeOK, Calls, Idle
    <2>3. queue' \in Seq(Clients \cup Nat)
      BY <1>1, <2>1, TailOfQueue DEF HasLock
    <2>4. ClientFits(c)'
      BY <2>2 DEF ClientFits
    <2> QED BY <1>1, <1>2, <2>1, <2>2, <2>3, <2>4, ClientLemma
  <1>4. CASE ~Refused
    <2> DEFINE call == [client[c] EXCEPT !.pc = "template"]
    <2>1. client' = [client EXCEPT ![c] = call] /\ queue' = queue
      BY <1>4 DEF EnterCreate
    <2>2. call \in Calls /\ client'[c] = call /\ call.pc = "template"
      BY <2>1 DEF IInv, TypeOK, Calls
    <2> HIDE DEF call
    <2>3. closer = "open" /\ (active # NoJob => jobs[active].status \notin Busy)
      BY <1>4 DEF Refused
    <2>4. ClientFits(c)'
      BY <1>1, <2>1, <2>2, <2>3 DEF ClientFits, HasLock, Busy, NoJob
    <2>5. queue' \in Seq(Clients \cup Nat)
      BY <2>1 DEF IInv, TypeOK
    <2> QED BY <1>1, <1>2, <2>1, <2>2, <2>3, <2>4, <2>5, ClientLemma
  <1> QED BY <1>3, <1>4

LEMMA TemplateStep ==
    ASSUME IInv, NEW c \in Clients, Template(c)
    PROVE  IInv' /\ FinalKept
  <1> DEFINE call == [pc |-> "info", arg |-> Len(chain)]
  <1>1. /\ client' = [client EXCEPT ![c] = call] /\ client[c].pc = "template"
        /\ UNCHANGED <<jobs, active, worker, queue, closer, chain, up>>
    BY DEF Template, node
  <1>2. /\ call \in Calls /\ client'[c] = call /\ call.pc = "info" /\ call.arg = Len(chain)
        /\ Len(chain) \in Nat /\ queue' \in Seq(Clients \cup Nat)
    BY <1>1 DEF IInv, TypeOK, Calls
  <1> HIDE DEF call
  <1>3. HasLock(c) /\ (active # NoJob => jobs[active].status \notin Busy)
    BY <1>1 DEF IInv, ClientFits
  <1>4. ClientFits(c)'
    BY <1>1, <1>2, <1>3 DEF ClientFits, HasLock, Busy, NoJob
  <1>5. \A d \in Clients : HasLock(d) => HasLock(d)'
    BY <1>1 DEF HasLock
  <1> QED BY <1>1, <1>2, <1>4, <1>5, ClientLemma

LEMMA CreateRaisesStep ==
    ASSUME IInv, NEW c \in Clients, CreateRaises(c)
    PROVE  IInv' /\ FinalKept
  <1>1. HasLock(c)
    BY DEF CreateRaises, IInv, ClientFits
  <1>2. /\ client' = [client EXCEPT ![c] = Idle] /\ queue' = Tail(queue)
        /\ UNCHANGED <<jobs, active, worker, closer, chain, up>>
    BY DEF CreateRaises, node
  <1>3. \A d \in Clients : d # c => client[d].pc \notin {"template", "info"}
    BY <1>1, LockElsewhere
  <1>4. Idle \in Calls /\ client'[c] = Idle /\ Idle.pc = "idle"
    BY <1>2 DEF IInv, TypeOK, Calls, Idle
  <1>5. queue' \in Seq(Clients \cup Nat)
    BY <1>1, <1>2, TailOfQueue DEF HasLock
  <1>6. ClientFits(c)'
    BY <1>4 DEF ClientFits
  <1> QED BY <1>2, <1>3, <1>4, <1>5, <1>6, ClientLemma

\* The job and its worker task are created; no other job is busy by then.
LEMMA StartJobStep ==
    ASSUME IInv, NEW c \in Clients, StartJob(c)
    PROVE  IInv' /\ FinalKept
  <1> DEFINE b == NewJob(client[c].arg)
  <1>0. PICK n : n = Len(jobs) + 1
    OBVIOUS
  <1>1. /\ client[c].pc = "info" /\ jobs' = Append(jobs, b) /\ active' = n /\ worker' = n
        /\ client' = [client EXCEPT ![c] = Idle] /\ queue' = Tail(queue)
        /\ UNCHANGED <<closer, chain, up>>
    BY <1>0 DEF StartJob, node
  <1>2. /\ HasLock(c) /\ (active # NoJob => jobs[active].status \notin Busy)
        /\ client[c].arg <= Len(chain)
    BY <1>1 DEF IInv, ClientFits
  <1>3. /\ jobs \in Seq(Jobs) /\ Len(jobs) \in Nat /\ client \in [Clients -> Calls]
        /\ chain \in Seq(Nat) /\ Len(chain) \in Nat /\ client[c].arg \in Nat
        /\ closer \in Phases
    BY DEF IInv, TypeOK, Calls
  <1>4. /\ b \in Jobs /\ b.status = "QUEUED" /\ b.pc = "new" /\ b.verdict = "none"
        /\ b.thread = "none" /\ b.parent = client[c].arg /\ b.stop = FALSE
        /\ b.born = closer
    BY <1>3 DEF NewJob, Jobs, Final
  <1> HIDE DEF b
  <1>5. /\ jobs' \in Seq(Jobs) /\ Len(jobs') = n /\ jobs'[n] = b
        /\ \A j \in Ids : jobs'[j] = jobs[j]
    BY <1>0, <1>1, <1>3, <1>4 DEF Ids
  <1>6. Ids' = Ids \cup {n} /\ n \notin Ids /\ n # NoJob
    BY <1>0, <1>3, <1>5 DEF Ids, NoJob
  <1>7. \A d \in Clients : d # c => client[d].pc \notin {"template", "info"}
    BY <1>2, LockElsewhere
  <1>8. TypeOK'
    <2>1. Idle \in Calls
      BY DEF Idle, Calls
    <2>2. client' \in [Clients -> Calls]
      BY <1>1, <1>3, <2>1
    <2>3. queue' \in Seq(Clients \cup Nat)
      BY <1>1, <1>2, TailOfQueue DEF HasLock
    <2>4. n \in 0 .. Len(jobs')
      BY <1>0, <1>3, <1>5
    <2> QED BY <1>1, <1>5, <2>2, <2>3, <2>4 DEF IInv, TypeOK
  <1>9. ASSUME NEW j \in Ids
        PROVE  Sound(jobs[j])' /\ ChainFits(j)' /\ ServiceFits(j)'
    <2>1. /\ jobs'[j] = jobs[j] /\ Sound(jobs[j]) /\ ChainFits(j) /\ ServiceFits(j)
          /\ jobs[j] \in Jobs
      BY <1>5, JobFacts
    <2>2. Sound(jobs[j])'
      BY <2>1 DEF Sound
    <2>3. ChainFits(j)'
      BY <1>1, <2>1 DEF ChainFits, Mined
    <2>4. jobs[j].status \notin Busy
      BY <1>2, <2>1 DEF ServiceFits, Ids, NoJob
    <2>5. ServiceFits(j)'
      BY <1>1, <2>1, <2>4 DEF ServiceFits, Late, Starting, Busy
    <2> QED BY <2>2, <2>3, <2>5
  <1>10. Sound(jobs[n])' /\ ChainFits(n)' /\ ServiceFits(n)'
    <2>1. Sound(b)
      BY <1>4 DEF Sound, Busy
    <2>2. ~Mined(n)'
      <3>1. ASSUME Mined(n) PROVE FALSE
        BY <1>0, <1>3, <3>1 DEF Mined, IInv, Authors
      <3> QED BY <1>1, <3>1 DEF Mined
    <2>3. ChainFits(n)'
      BY <1>1, <1>2, <1>4, <1>5, <2>2 DEF ChainFits
    <2>4. ServiceFits(n)'
      BY <1>1, <1>4, <1>5 DEF ServiceFits, Late
    <2> QED BY <1>5, <2>1, <2>3, <2>4 DEF Sound
  <1>11. ASSUME NEW d \in Clients PROVE ClientFits(d)'
    <2>1. CASE d = c
      <3>1. client'[d].pc = "idle"
        BY <1>1, <1>3, <2>1 DEF Idle
      <3> QED BY <3>1 DEF ClientFits
    <2>2. CASE d # c
      <3>1. client'[d] = client[d] /\ ClientFits(d)
        BY <1>1, <1>3, <2>2 DEF IInv
      <3>2. client[d].pc \notin {"template", "info"}
        BY <1>7, <2>2
      <3>3. client[d].pc \in {"join", "release"} =>
               client[d].arg \in Ids' /\ jobs'[client[d].arg] = jobs[client[d].arg]
        BY <1>5, <1>6, <3>1 DEF ClientFits
      <3> QED BY <3>1, <3>2, <3>3 DEF ClientFits
    <2> QED BY <2>1, <2>2
  <1>12. Authors'
    BY <1>0, <1>1, <1>3, <1>5 DEF Authors, IInv
  <1>13. FinalKept
    BY <1>1, <1>5 DEF FinalKept, Mined
  <1>14. ASSUME NEW j \in Ids PROVE LateFits(j)'
    <2>1. ~Late(j)
      BY <1>1 DEF IInv, LateFits
    <2> QED BY <1>5, <2>1 DEF LateFits, Late
  <1>15. LateFits(n)'
    <2>1. ASSUME NEW d \in Clients PROVE client'[d].pc \notin {"template", "info"}
      BY <1>1, <1>3, <1>7 DEF Idle
    <2> QED BY <1>1, <1>4, <1>5, <2>1 DEF LateFits, Late
  <1> QED BY <1>6, <1>8, <1>9, <1>10, <1>11, <1>12, <1>13, <1>14, <1>15 DEF IInv

\* The cancelled job is no longer the active one.
LEMMA ReleaseStep ==
    ASSUME IInv, NEW c \in Clients, Release(c)
    PROVE  IInv' /\ FinalKept
  <1> DEFINE j == client[c].arg
  <1>1. /\ HasLock(c) /\ client[c].pc = "release" /\ active' = Without(j)
        /\ client' = [client EXCEPT ![c] = Idle] /\ queue' = Tail(queue)
        /\ UNCHANGED <<jobs, worker, closer, chain, up>>
    BY DEF Release, node
  <1>2. j \in Ids /\ jobs[j].status = "CANCELLED"
    BY <1>1 DEF IInv, ClientFits
  <1>3. \/ active' = active
        \/ active' = NoJob /\ (active # NoJob => jobs[active].status \notin Busy)
    BY <1>1, <1>2 DEF Without, Busy
  <1>4. \A d \in Clients : d # c => client[d].pc \notin {"template", "info"}
    BY <1>1, LockElsewhere
  <1>5. /\ jobs' \in Seq(Jobs) /\ client \in [Clients -> Calls]
        /\ closer' \in Phases /\ up' \in BOOLEAN
        /\ chain' \in Seq(Nat) /\ Len(chain) <= Len(chain') /\ Authors'
    BY <1>1 DEF IInv, TypeOK, Authors
  <1>6. \A i \in Ids : Advances(jobs[i], jobs'[i]) /\ Sound(jobs'[i]) /\ ChainFits(i)'
    BY <1>1 DEF Advances, IInv, ChainFits, Mined
  <1>7. Idle \in Calls /\ client'[c] = Idle /\ Idle.pc = "idle"
    BY <1>1, <1>5 DEF Calls, Idle
  <1>8. client' \in [Clients -> Calls] /\ \A d \in Clients : d # c => client'[d] = client[d]
    BY <1>1, <1>5, <1>7
  <1>9. queue' \in Seq(Clients \cup Nat)
    BY <1>1, TailOfQueue DEF HasLock
  <1>10. ClientFits(c)'
    BY <1>7 DEF ClientFits
  <1>11. /\ client[c].pc \notin {"template", "info"}
         /\ \A d \in Clients : client'[d].pc \notin {"template", "info"}
    BY <1>1, <1>4, <1>7, <1>8
  <1> QED BY <1>1, <1>3, <1>4, <1>5, <1>6, <1>8, <1>9, <1>10, <1>11, StepLemma

\* The cancellation is written down, at once or after the join.
LEMMA MarkStep ==
    ASSUME IInv, NEW c \in Clients, NEW j \in Ids, MarkCancelled(c, j),
           client[c].pc \in {"idle", "join"},
           \/ jobs[j].status \in Busy
           \/ jobs[j].stop /\ jobs[j].status = "CANCELLED",
           UNCHANGED <<active, worker, closer, chain, up>>
    PROVE  IInv' /\ FinalKept
  <1> DEFINE b == [jobs[j] EXCEPT !.stop = TRUE, !.status = "CANCELLED"]
             call == [pc |-> "release", arg |-> j]
  <1>1. /\ jobs' = [jobs EXCEPT ![j] = b] /\ queue' = Append(queue, c)
        /\ client' = [client EXCEPT ![c] = call]
    BY JobFacts DEF MarkCancelled
  <1>a. Became(b, jobs[j], "CANCELLED", jobs[j].pc, TRUE, jobs[j].thread, jobs[j].verdict)
    BY JobFacts, ZenonT(40) DEF Jobs, Final, Became
  <1>2. b \in Jobs /\ b.status = "CANCELLED" /\ b.verdict = jobs[j].verdict
    BY <1>a DEF Became
  <1>3. Sound(b) /\ Advances(jobs[j], b)
    BY JobFacts DEF Jobs, Sound, Advances, Starting, Busy, Final
  <1> HIDE DEF b
  <1>4. /\ jobs' \in Seq(Jobs) /\ Len(jobs') = Len(jobs)
        /\ \A i \in Ids : Advances(jobs[i], jobs'[i]) /\ Sound(jobs'[i]) /\ ChainFits(i)'
    BY <1>1, <1>2, <1>3, OneJob
  <1>5. /\ client \in [Clients -> Calls] /\ queue \in Seq(Clients \cup Nat)
        /\ closer' \in Phases /\ up' \in BOOLEAN
        /\ chain' \in Seq(Nat) /\ Len(chain) <= Len(chain') /\ Authors'
    BY <1>4 DEF IInv, TypeOK, Authors
  <1>6. j \in Nat /\ jobs'[j] = b
    BY <1>1, JobFacts DEF IInv, TypeOK, Ids
  <1>7. /\ call \in Calls /\ client'[c] = call /\ call.pc = "release" /\ call.arg = j
    BY <1>1, <1>5, <1>6 DEF Calls
  <1> HIDE DEF call
  <1>8. client' \in [Clients -> Calls] /\ \A d \in Clients : d # c => client'[d] = client[d]
    BY <1>1, <1>5, <1>7
  <1>9. queue' \in Seq(Clients \cup Nat)
    BY <1>1, <1>5, AppendProperties
  <1>10. ASSUME NEW d \in Clients, HasLock(d) PROVE HasLock(d)'
    BY <1>1, <1>5, <1>10, HeadOfAppend DEF HasLock
  <1>11. ClientFits(c)'
    BY <1>2, <1>4, <1>6, <1>7 DEF ClientFits, Ids
  <1>12. \A d \in Clients : client'[d].pc \in {"template", "info"} =>
            client[d].pc \in {"template", "info"}
    BY <1>7, <1>8
  <1> QED BY <1>4, <1>5, <1>8, <1>9, <1>10, <1>11, <1>12, StepLemma

\* A request to cancel, which waits for a running thread.
LEMMA CancelStep ==
    ASSUME IInv, NEW c \in Clients, NEW j \in Ids, Cancel(c, j)
    PROVE  IInv' /\ FinalKept
  <1>0. /\ jobs[j].status \in Busy /\ client[c].pc = "idle"
        /\ UNCHANGED <<active, worker, closer, chain, up>>
    BY DEF Cancel, Cancellable, node
  <1>1. CASE ~Alive(j)
    BY <1>0, <1>1, MarkStep DEF Cancel
  <1>2. CASE Alive(j)
    <2> DEFINE b == [jobs[j] EXCEPT !.stop = TRUE]
               call == [pc |-> "join", arg |-> j]
    <2>1. /\ jobs' = [jobs EXCEPT ![j] = b] /\ queue' = queue
          /\ client' = [client EXCEPT ![c] = call]
      BY <1>2, JobFacts DEF Cancel
    <2>2. b \in Jobs /\ b.status = jobs[j].status /\ b.verdict = jobs[j].verdict /\ b.stop
      BY JobFacts DEF Jobs, Final
    <2>3. Sound(b) /\ Advances(jobs[j], b)
      BY JobFacts DEF Jobs, Sound, Advances, Starting, Busy, Final
    <2> HIDE DEF b
    <2>4. /\ jobs' \in Seq(Jobs) /\ Len(jobs') = Len(jobs)
          /\ \A i \in Ids : Advances(jobs[i], jobs'[i]) /\ Sound(jobs'[i]) /\ ChainFits(i)'
      BY <1>0, <2>1, <2>2, <2>3, OneJob
    <2>5. /\ client \in [Clients -> Calls] /\ queue' \in Seq(Clients \cup Nat)
          /\ closer' \in Phases /\ up' \in BOOLEAN
          /\ chain' \in Seq(Nat) /\ Len(chain) <= Len(chain') /\ Authors'
      BY <1>0, <2>1, <2>4 DEF IInv, TypeOK, Authors
    <2>6. j \in Nat /\ jobs'[j] = b
      BY <2>1, JobFacts DEF IInv, TypeOK, Ids
    <2>7. call \in Calls /\ client'[c] = call /\ call.pc = "join" /\ call.arg = j
      BY <2>1, <2>5, <2>6 DEF Calls
    <2> HIDE DEF call
    <2>8. /\ client' \in [Clients -> Calls]
          /\ \A d \in Clients : d # c => client'[d] = client[d]
      BY <2>1, <2>5, <2>7
    <2>9. \A d \in Clients : HasLock(d) => HasLock(d)'
      BY <2>1 DEF HasLock
    <2>10. jobs[j].status \in {"MINING", "CANCELLED"}
      BY <1>0, <1>2, JobFacts DEF Sound, Alive, Busy
    <2>11. ClientFits(c)'
      BY <2>2, <2>4, <2>6, <2>7, <2>10 DEF ClientFits, Ids
    <2>12. \A d \in Clients : client'[d].pc \in {"template", "info"} =>
              client[d].pc \in {"template", "info"}
      BY <2>7, <2>8
    <2> QED BY <1>0, <2>4, <2>5, <2>8, <2>9, <2>11, <2>12, StepLemma
  <1> QED BY <1>1, <1>2

\* The request cannot wait for the thread.
LEMMA CancelRaisesStep ==
    ASSUME IInv, NEW c \in Clients, NEW j \in Ids, CancelRaises(c, j)
    PROVE  IInv' /\ FinalKept
  <1> DEFINE b == [jobs[j] EXCEPT !.stop = TRUE]
  <1>1. jobs' = [jobs EXCEPT ![j] = b]
    BY JobFacts DEF CancelRaises
  <1>2. b \in Jobs /\ b.status = jobs[j].status /\ b.verdict = jobs[j].verdict
    BY JobFacts DEF Jobs
  <1>3. Sound(b) /\ Advances(jobs[j], b)
    BY JobFacts DEF Jobs, Sound, Advances, Starting, Busy, Final
  <1> HIDE DEF b
  <1> QED BY <1>1, <1>2, <1>3, WorkerLemma DEF CancelRaises, node

\* The wait is over: the job is marked as cancelled.
LEMMA CancelledStep ==
    ASSUME IInv, NEW c \in Clients, Cancelled(c)
    PROVE  IInv' /\ FinalKept
  <1> DEFINE j == client[c].arg
  <1>1. /\ client[c].pc = "join" /\ MarkCancelled(c, j)
        /\ UNCHANGED <<active, worker, closer, chain, up>>
    BY DEF Cancelled, node
  <1>2. j \in Ids /\ jobs[j].stop /\ jobs[j].status \in {"MINING", "CANCELLED"}
    BY <1>1 DEF IInv, ClientFits
  <1> QED BY <1>1, <1>2, MarkStep DEF Busy

\* What close() leaves as it is.
KeepsResults(js, ks) ==
    /\ ks \in Seq(Jobs) /\ Len(ks) = Len(js)
    /\ \A i \in 1 .. Len(js) :
          /\ Advances(js[i], ks[i])
          /\ Sound(ks[i])
          /\ ks[i].verdict = js[i].verdict /\ ks[i].status = js[i].status

\* Cancelling a worker task changes no verdict and no final status.
LEMMA CancelTaskKeeps ==
    ASSUME NEW js \in Seq(Jobs), NEW w \in 1 .. Len(js),
           \A i \in 1 .. Len(js) : Sound(js[i])
    PROVE  KeepsResults(js, CancelTask(js, w))
  <1>0. \A i \in 1 .. Len(js) : Advances(js[i], js[i])
    BY DEF Advances
  <1>1. ASSUME NEW pc \in {"done", "clear"},
               pc = "clear" =>
                 js[w].pc \in {"found", "accept", "answer", "status", "report"}
        PROVE  KeepsResults(js, [js EXCEPT ![w].pc = pc])
    <2> DEFINE b == [js[w] EXCEPT !.pc = pc]
               ks == [js EXCEPT ![w].pc = pc]
    <2>1. ks = [js EXCEPT ![w] = b]
      OBVIOUS
    <2>2. js[w] \in Jobs /\ Sound(js[w])
      OBVIOUS
    <2>3. /\ b \in Jobs /\ b.verdict = js[w].verdict /\ b.status = js[w].status
      BY <2>2 DEF Jobs
    <2>4. Sound(b) /\ Advances(js[w], b)
      BY <1>1, <2>2 DEF Jobs, Sound, Advances, Starting, Busy, Final
    <2> HIDE DEF b, ks
    <2>5. ks \in Seq(Jobs) /\ Len(ks) = Len(js)
      BY <2>1, <2>3
    <2>6. ks[w] = b /\ \A i \in 1 .. Len(js) : i # w => ks[i] = js[i]
      BY <2>1
    <2>7. KeepsResults(js, ks)
      BY <1>0, <2>3, <2>4, <2>5, <2>6 DEF KeepsResults
    <2> QED BY <2>7 DEF ks
  <1>2. \/ CancelTask(js, w) = [js EXCEPT ![w].pc = "done"]
        \/ /\ CancelTask(js, w) = [js EXCEPT ![w].pc = "clear"]
           /\ js[w].pc \in {"found", "accept", "answer", "status", "report"}
        \/ CancelTask(js, w) = js
    BY Zenon DEF CancelTask
  <1>3. KeepsResults(js, js)
    BY <1>0 DEF KeepsResults
  <1> QED BY <1>1, <1>2, <1>3

\* Nor does telling the active job to stop.
LEMMA StopActiveKeeps ==
    ASSUME IInv
    PROVE  /\ KeepsResults(jobs, StopActive)
           /\ active # NoJob => StopActive[active].stop
  <1>0. jobs \in Seq(Jobs) /\ \A i \in 1 .. Len(jobs) : Sound(jobs[i])
    BY DEF IInv, TypeOK, Ids
  <1>1. CASE active = NoJob
    <2>1. \A i \in 1 .. Len(jobs) : Advances(jobs[i], jobs[i])
      BY DEF Advances
    <2> QED BY <1>0, <1>1, <2>1 DEF StopActive, KeepsResults
  <1>2. CASE active # NoJob
    <2> DEFINE b == [jobs[active] EXCEPT !.stop = TRUE]
               ks == [jobs EXCEPT ![active].stop = TRUE]
    <2>1. active \in 1 .. Len(jobs) /\ StopActive = ks
      BY <1>2 DEF IInv, TypeOK, NoJob, StopActive
    <2>2. ks = [jobs EXCEPT ![active] = b]
      BY <1>0, <2>1
    <2>3. jobs[active] \in Jobs /\ Sound(jobs[active])
      BY <1>0, <2>1
    <2>4. /\ b \in Jobs /\ b.status = jobs[active].status
          /\ b.verdict = jobs[active].verdict /\ b.stop
      BY <2>3 DEF Jobs
    <2>5. Sound(b) /\ Advances(jobs[active], b)
      BY <2>3 DEF Jobs, Sound, Advances, Starting, Busy, Final
    <2> HIDE DEF b, ks
    <2>6. ks \in Seq(Jobs) /\ Len(ks) = Len(jobs)
      BY <1>0, <2>1, <2>2, <2>4
    <2>7. ks[active] = b /\ \A i \in 1 .. Len(jobs) : i # active => ks[i] = jobs[i]
      BY <1>0, <2>1, <2>2
    <2>8. \A i \in 1 .. Len(jobs) : Advances(jobs[i], jobs[i])
      BY DEF Advances
    <2> QED BY <1>0, <2>1, <2>4, <2>5, <2>6, <2>7, <2>8 DEF KeepsResults
  <1> QED BY <1>1, <1>2

\* Such changes can follow each other.
LEMMA KeepsTransitive ==
    ASSUME NEW as, NEW bs, NEW cs, KeepsResults(as, bs), KeepsResults(bs, cs)
    PROVE  /\ KeepsResults(as, cs)
           /\ \A i \in 1 .. Len(as) : bs[i].stop => cs[i].stop
  <1>1. \A i \in 1 .. Len(as) : Advances(as[i], bs[i]) /\ Advances(bs[i], cs[i])
    BY DEF KeepsResults
  <1>2. \A i \in 1 .. Len(as) : Advances(as[i], cs[i])
    BY <1>1, ZenonT(40) DEF Advances, KeepsResults
  <1>3. KeepsResults(as, cs)
    BY <1>2 DEF KeepsResults
  <1>4. \A i \in 1 .. Len(as) : bs[i].stop => cs[i].stop
    BY <1>1 DEF Advances
  <1> QED BY <1>3, <1>4

\* A step of close().
LEMMA CloseLemma ==
    ASSUME IInv, KeepsResults(jobs, jobs'),
           closer' \in {"join", "await", "closed"},
           closer # "open" \/ (active # NoJob => jobs'[active].stop),
           queue' \in Seq(Clients \cup Nat),
           \A c \in Clients : HasLock(c) => HasLock(c)',
           UNCHANGED <<active, worker, client, chain, up>>
    PROVE  IInv' /\ FinalKept
  <1>1. jobs' \in Seq(Jobs) /\ Len(jobs') = Len(jobs)
    BY DEF KeepsResults
  <1>2. ASSUME NEW i \in Ids
        PROVE  Advances(jobs[i], jobs'[i]) /\ Sound(jobs'[i]) /\ ChainFits(i)'
    <2>1. /\ Advances(jobs[i], jobs'[i]) /\ Sound(jobs'[i])
          /\ jobs'[i].verdict = jobs[i].verdict /\ jobs'[i].status = jobs[i].status
      BY DEF KeepsResults, Ids
    <2>2. ChainFits(i) /\ jobs'[i].parent = jobs[i].parent
      BY <2>1, JobFacts DEF Advances
    <2> QED BY <2>1, <2>2 DEF ChainFits, Mined
  <1>3. /\ client' \in [Clients -> Calls] /\ up' \in BOOLEAN
        /\ chain' \in Seq(Nat) /\ Len(chain) <= Len(chain') /\ Authors'
    BY <1>1 DEF IInv, TypeOK, Authors
  <1>4. closer' \in Phases /\ closer' # "open"
    BY DEF Phases
  <1> QED BY <1>1, <1>2, <1>3, <1>4, StepLemma

\* The cancelled worker leaves the lock's queue, or enters it.
LEMMA CancelWorkerStep ==
    ASSUME IInv, NEW js, KeepsResults(jobs, js), CancelWorker(js),
           closer # "open" \/ (active # NoJob => js[active].stop),
           UNCHANGED <<active, worker, client, chain, up>>
    PROVE  IInv' /\ FinalKept
  <1>1. /\ queue \in Seq(Clients \cup Nat) /\ closer' = "await"
        /\ active \in 0 .. Len(jobs) /\ worker \in 0 .. Len(jobs) /\ Len(jobs) \in Nat
    BY DEF IInv, TypeOK, CancelWorker
  <1>2. CASE worker = NoJob
    BY <1>1, <1>2, CloseLemma DEF CancelWorker, HasLock
  <1>3. CASE worker # NoJob
    <2>1. worker \in 1 .. Len(js) /\ js \in Seq(Jobs) /\ worker \in Nat
          /\ \A i \in 1 .. Len(js) : Sound(js[i])
      BY <1>1, <1>3 DEF NoJob, KeepsResults
    <2>2. jobs' = CancelTask(js, worker)
      BY <1>3 DEF CancelWorker
    <2>3. KeepsResults(js, jobs')
      BY <2>1, <2>2, CancelTaskKeeps
    <2>4. /\ KeepsResults(jobs, jobs')
          /\ \A i \in 1 .. Len(jobs) : js[i].stop => jobs'[i].stop
      BY <2>3, KeepsTransitive
    <2>5. queue' \in {queue, Append(queue, worker), RemoveFirst(queue, worker)}
      BY <1>3 DEF CancelWorker
    <2>6. queue' \in Seq(Clients \cup Nat)
      <3> DEFINE W == Clients \cup Nat
      <3>1. queue \in Seq(W) /\ worker \in W
        BY <1>1, <2>1
      <3> HIDE DEF W
      <3>2. Append(queue, worker) \in Seq(W) /\ RemoveFirst(queue, worker) \in Seq(W)
        BY <3>1, RemoveFirstType
      <3> QED BY <2>5, <3>1, <3>2 DEF W
    <2>7. ASSUME NEW c \in Clients, HasLock(c) PROVE HasLock(c)'
      <3>1. queue # <<>> /\ Head(queue) = c /\ worker \in Clients \cup Nat
        BY <2>1, <2>7 DEF HasLock
      <3>2. c # worker
        BY <2>1, MiningAssumption DEF Clients
      <3> DEFINE W == Clients \cup Nat
      <3>3. queue \in Seq(W) /\ worker \in W
        BY <1>1, <3>1
      <3> HIDE DEF W
      <3>4. Append(queue, worker) # <<>> /\ Head(Append(queue, worker)) = c
        BY <3>1, <3>3, HeadOfAppend
      <3>5. RemoveFirst(queue, worker) # <<>> /\ Head(RemoveFirst(queue, worker)) = c
        BY <3>1, <3>2, <3>3, HeadOfRemoveFirst
      <3>6. queue' # <<>> /\ Head(queue') = c
        BY <2>5, <3>1, <3>4, <3>5
      <3> QED BY <3>6 DEF HasLock
    <2>8. closer # "open" \/ (active # NoJob => jobs'[active].stop)
      BY <1>1, <2>4 DEF NoJob
    <2> QED BY <1>1, <2>4, <2>6, <2>7, <2>8, CloseLemma
  <1> QED BY <1>2, <1>3

\* close() and its awaits.
LEMMA CloseStep ==
    ASSUME IInv, Close \/ CloseRaises \/ CloseJoined \/ CloseEnds
    PROVE  IInv' /\ FinalKept
  <1>0. /\ UNCHANGED <<active, worker, client, chain, up>>
        /\ queue \in Seq(Clients \cup Nat)
    BY DEF Close, CloseRaises, CloseJoined, CloseEnds, node, IInv, TypeOK
  <1>1. KeepsResults(jobs, jobs)
    <2>1. jobs \in Seq(Jobs) /\ \A i \in 1 .. Len(jobs) : Sound(jobs[i])
      BY DEF IInv, TypeOK, Ids
    <2>2. \A i \in 1 .. Len(jobs) : Advances(jobs[i], jobs[i])
      BY DEF Advances
    <2> QED BY <2>1, <2>2 DEF KeepsResults
  <1>2. CASE Close /\ active # NoJob /\ Alive(active)
    <2>1. jobs' = StopActive /\ closer' = "join" /\ queue' = queue
      BY <1>2 DEF Close
    <2> QED BY <1>0, <2>1, StopActiveKeeps, CloseLemma DEF HasLock
  <1>3. CASE Close /\ ~(active # NoJob /\ Alive(active))
    <2>1. CancelWorker(StopActive)
      BY <1>3, Zenon DEF Close
    <2> QED BY <1>0, <2>1, StopActiveKeeps, CancelWorkerStep
  <1>4. CASE CloseJoined
    <2>1. CancelWorker(jobs) /\ closer # "open"
      BY <1>4 DEF CloseJoined
    <2> QED BY <1>0, <1>1, <2>1, CancelWorkerStep
  <1>5. CASE CloseEnds
    <2>1. closer # "open" /\ closer' = "closed" /\ jobs' = jobs /\ queue' = queue
      BY <1>5 DEF CloseEnds
    <2> QED BY <1>0, <1>1, <2>1, CloseLemma DEF HasLock
  <1>6. CASE CloseRaises
    <2>1. jobs' = StopActive /\ closer' = "closed" /\ queue' = queue
      BY <1>6 DEF CloseRaises
    <2> QED BY <1>0, <2>1, StopActiveKeeps, CloseLemma DEF HasLock
  <1> QED BY <1>2, <1>3, <1>4, <1>5, <1>6

-----------------------------------------------------------------------------
(* The node's peers, and its end.                                            *)

\* A block of another miner.
LEMMA OtherBlockStep ==
    ASSUME IInv, OtherBlock \/ NodeStops
    PROVE  IInv' /\ FinalKept
  <1>1. /\ UNCHANGED <<jobs, active, worker, queue, client, closer>>
        /\ \/ chain' = Append(chain, 0) /\ up' = up
           \/ chain' = chain /\ up' = FALSE
    BY DEF OtherBlock, NodeStops, service, Other
  <1>2. chain \in Seq(Nat) /\ Len(chain) \in Nat /\ up \in BOOLEAN /\ Len(jobs) \in Nat
    BY DEF IInv, TypeOK
  <1>3. /\ chain' \in Seq(Nat) /\ Len(chain') \in Nat /\ Len(chain) <= Len(chain')
        /\ up' \in BOOLEAN /\ (up' => up)
        /\ \A n \in 1 .. Len(chain) : chain'[n] = chain[n]
        /\ \A n \in 1 .. Len(chain') : n \in 1 .. Len(chain) \/ chain'[n] = 0
    <2>1. CASE chain' = chain /\ up' = FALSE
      <3>1. up' \in BOOLEAN /\ (up' => up)
        BY <2>1
      <3>2. \A n \in 1 .. Len(chain) : chain'[n] = chain[n]
        BY <2>1
      <3> QED BY <1>2, <2>1, <3>1, <3>2
    <2>2. CASE chain' = Append(chain, 0) /\ up' = up
      <3>1. /\ chain' \in Seq(Nat) /\ Len(chain') = Len(chain) + 1
            /\ \A n \in 1 .. Len(chain) : chain'[n] = chain[n]
            /\ chain'[Len(chain) + 1] = 0
        BY <1>2, <2>2
      <3> QED BY <1>2, <2>2, <3>1
    <2> QED BY <1>1, <2>1, <2>2
  <1>4. ASSUME NEW i \in Ids PROVE i # 0
    <2>1. i \in 1 .. Len(jobs)
      BY DEF Ids
    <2> QED BY <1>2, <2>1
  <1>5. ASSUME NEW i \in Ids PROVE Mined(i)' <=> Mined(i)
    <2>1. DOMAIN chain = 1 .. Len(chain) /\ DOMAIN chain' = 1 .. Len(chain')
      BY <1>2, <1>3
    <2>2. \A n \in 1 .. Len(chain) : n \in 1 .. Len(chain')
      BY <1>2, <1>3
    <2> QED BY <1>3, <1>4, <2>1, <2>2 DEF Mined
  <1>6. Authors'
    <2>1. DOMAIN chain = 1 .. Len(chain) /\ DOMAIN chain' = 1 .. Len(chain')
      BY <1>2, <1>3
    <2>2. ASSUME NEW n \in 1 .. Len(chain') PROVE chain'[n] \in 0 .. Len(jobs)
      <3>1. CASE n \in 1 .. Len(chain)
        <4>1. chain[n] \in 0 .. Len(jobs)
          BY <2>1, <3>1 DEF Authors, IInv
        <4> QED BY <1>3, <3>1, <4>1
      <3>2. CASE chain'[n] = 0
        BY <1>2, <3>2
      <3> QED BY <1>3, <3>1, <3>2
    <2> QED BY <1>1, <2>1, <2>2 DEF Authors
  <1>7. ASSUME NEW i \in Ids
        PROVE  Advances(jobs[i], jobs'[i]) /\ Sound(jobs'[i]) /\ ChainFits(i)'
    <2>1. /\ jobs'[i] = jobs[i] /\ Sound(jobs[i]) /\ ChainFits(i)
          /\ jobs[i].parent \in Nat
      BY <1>1, JobFacts DEF Jobs
    <2>2. Len(chain) > jobs[i].parent =>
             /\ Len(chain') > jobs[i].parent
             /\ chain'[jobs[i].parent + 1] = chain[jobs[i].parent + 1]
      <3> SUFFICES ASSUME Len(chain) > jobs[i].parent
                   PROVE  /\ Len(chain') > jobs[i].parent
                          /\ chain'[jobs[i].parent + 1] = chain[jobs[i].parent + 1]
        OBVIOUS
      <3>1. jobs[i].parent + 1 \in 1 .. Len(chain)
        BY <1>2, <2>1
      <3>2. chain'[jobs[i].parent + 1] = chain[jobs[i].parent + 1]
        BY <1>3, <3>1
      <3>3. Len(chain') > jobs[i].parent
        BY <1>2, <1>3, <2>1
      <3> QED BY <3>2, <3>3
    <2>3. jobs[i].parent <= Len(chain')
      BY <1>2, <1>3, <2>1 DEF ChainFits
    <2>4. ChainFits(i)'
      BY <1>3, <1>5, <2>1, <2>2, <2>3 DEF ChainFits
    <2> QED BY <2>1, <2>4 DEF Advances
  <1>8. \A c \in Clients : HasLock(c) => HasLock(c)'
    BY <1>1 DEF HasLock
  <1>9. /\ queue \in Seq(Clients \cup Nat) /\ client \in [Clients -> Calls]
        /\ closer \in Phases /\ jobs \in Seq(Jobs)
    BY DEF IInv, TypeOK
  <1>10. \A i \in Ids : jobs[i].status \in Final /\ Mined(i)' => Mined(i)
    BY <1>5
  <1>11. /\ queue' \in Seq(Clients \cup Nat) /\ client' \in [Clients -> Calls]
         /\ closer' \in Phases /\ jobs' \in Seq(Jobs)
         /\ Len(jobs') = Len(jobs) /\ active' = active /\ worker' = worker
         /\ closer' = closer /\ client' = client
    BY <1>1, <1>9
  <1>12. closer' = "open" \/ closer # "open"
    BY <1>11
  <1> QED BY <1>3, <1>6, <1>7, <1>8, <1>10, <1>11, <1>12, StepLemma

\* A step of something else.
LEMMA StutterStep ==
    ASSUME IInv, UNCHANGED vars
    PROVE  IInv' /\ FinalKept
  <1>1. UNCHANGED <<jobs, active, worker, queue, client, closer, chain, up>>
    BY DEF vars, service, node
  <1>2. \A j \in Ids : ChainFits(j)' /\ ServiceFits(j)' /\ Sound(jobs[j])'
    BY <1>1 DEF IInv, ChainFits, ServiceFits, Late, Sound, Starting, Mined
  <1>3. \A c \in Clients : ClientFits(c)'
    BY <1>1 DEF IInv, ClientFits, HasLock, Ids
  <1>4. TypeOK' /\ Authors' /\ FinalKept /\ Ids' = Ids
    BY <1>1 DEF IInv, TypeOK, Authors, FinalKept, Mined, Ids
  <1>5. \A j \in Ids : LateFits(j)'
    BY <1>1 DEF IInv, LateFits, Late
  <1> QED BY <1>2, <1>3, <1>4, <1>5 DEF IInv

\* IInv is inductive, and no step changes a final status.
LEMMA NextStep == IInv /\ [Next]_vars => IInv' /\ FinalKept
  <1> SUFFICES ASSUME IInv, [Next]_vars PROVE IInv' /\ FinalKept
    OBVIOUS
  <1>1. ASSUME NEW c \in Creators, Create(c) PROVE IInv' /\ FinalKept
    BY <1>1, CreateStep DEF Clients
  <1>2. ASSUME NEW c \in Cancellers, NEW j \in Ids, Cancel(c, j) \/ CancelRaises(c, j)
        PROVE  IInv' /\ FinalKept
    BY <1>2, CancelStep, CancelRaisesStep DEF Clients
  <1>3. ASSUME NEW c \in Clients, ClientStep(c) PROVE IInv' /\ FinalKept
    BY <1>3, EnterCreateStep, TemplateStep, StartJobStep, CreateRaisesStep,
       CancelledStep, ReleaseStep DEF ClientStep
  <1>4. ASSUME NEW j \in Ids, WorkerStep(j) PROVE IInv' /\ FinalKept
    BY <1>4, RunStep, StartThreadStep, EvaluateStep, SubmitBlockStep, NodeDecidesStep,
       AnsweredStep, ExplainedStep, ReportedStep, ClearStep DEF WorkerStep
  <1>5. ASSUME NEW j \in Ids,
               ThreadEnds(j) \/ RuntimeOver(j) \/ JoinRaises(j) \/ HaltRaises(j)
        PROVE  IInv' /\ FinalKept
    BY <1>5, ThreadEndsStep, RuntimeOverStep, EvaluateStep
  <1>6. CASE Close \/ CloseRaises \/ CloseJoined \/ CloseEnds
    BY <1>6, CloseStep
  <1>7. CASE OtherBlock \/ NodeStops
    BY <1>7, OtherBlockStep
  <1>8. CASE UNCHANGED vars
    BY <1>8, StutterStep
  <1> QED BY <1>1, <1>2, <1>3, <1>4, <1>5, <1>6, <1>7, <1>8 DEF Next

\* The invariant holds in every reachable state.
THEOREM Invariance == Spec => []IInv
  BY InitIInv, NextStep, PTL DEF Spec

\* There is one job to be mined at a time, and no other thread was not told to
\* stop, except that of a job that failed because its worker could not wait for
\* it (_run_mining's except Exception).  After close() there is no other such
\* thread either, unless it is of the one job whose request had passed the
\* check of _closed (create_job's busy check, cancel_job, the worker's finally
\* block and close(), in any order).
THEOREM OneMiningTheorem == Spec => []OneMining
  <1>1. IInv => OneMining
    <2> SUFFICES ASSUME IInv PROVE OneMining
      OBVIOUS
    <2>1. \A j \in Ids : jobs[j].status \in Busy => j = active
      BY JobFacts DEF ServiceFits
    <2>2. ASSUME NEW j \in Ids, Unstopped(j)
          PROVE  j = active \/ jobs[j].status = "FAILED"
      <3>1. jobs[j].status \in {"MINING", "FAILED"}
        BY <2>2, JobFacts DEF Sound, Unstopped, Alive
      <3> QED BY <2>1, <3>1 DEF Busy
    <2>3. ASSUME closer = "closed", NEW j \in Ids, Unstopped(j)
          PROVE  Late(j) \/ jobs[j].status = "FAILED"
      BY <2>3, JobFacts DEF ServiceFits, Unstopped, Alive, Starting
    <2>4. \A i, j \in Ids : Late(i) /\ Late(j) => i = j
      BY DEF IInv, LateFits
    <2> QED BY <2>1, <2>2, <2>3, <2>4 DEF OneMining
  <1> QED BY <1>1, Invariance, PTL

\* A final status tells whether the job's block is on the chain
\* (_run_mining's statuses against what accept_block did).
THEOREM StatusTheorem == Spec => []StatusIsTrue
  <1>1. IInv => StatusIsTrue
    BY JobFacts DEF StatusIsTrue, Sound, ChainFits
  <1> QED BY <1>1, Invariance, PTL

\* No step changes a final status or commits the block of a job that has one.
THEOREM FinalTheorem == Spec => FinalIsFinal
  <1>1. IInv /\ [Next]_vars =>
           [\A j \in Ids :
               jobs[j].status \in Final =>
                   jobs'[j].status = jobs[j].status /\ (Mined(j)' => Mined(j))]_vars
    BY NextStep DEF FinalKept
  <1> QED BY <1>1, Invariance, PTL DEF Spec, FinalIsFinal

==========================================================================
