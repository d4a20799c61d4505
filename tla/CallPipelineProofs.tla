--------------------------- MODULE CallPipelineProofs ---------------------------
(* What holds of the call pipeline for any number of calls, workers, notifiers and *)
(* retries.                                                                        *)
EXTENDS CallPipeline, FiniteSetTheorems, SequenceTheorems, TLAPS

-------------------------------------------------------------------------------
(* The transcription queue.                                                      *)

\* What the position of the runner and of each worker says.
Roles ==
  /\ runner.pc = "hand" <=> runner.hand # None
  /\ runner.pc = "down" => queue = <<>> /\ \A w \in Workers : worker[w].pc = "off"
  /\ runner.pc # "down" => runner.provider # None
  /\ \A w \in Workers : /\ worker[w].pc \in {"off", "idle"} <=> worker[w].job = None
                        /\ worker[w].pc = "insert" => worker[w].result # None
  /\ \A k \in Keys : Held(k) => job[k] # None

QueueOK == TranscriptionOK /\ Roles

LEMMA KIsNatural == RetryLimit + TransientRetries \in Nat
BY TranscriptionAssumption

\* A row of a job written over, and one that is new.
LEMMA JobRows ==
  /\ NewJob \in Job
  /\ \A r \in Job :
       /\ \A s \in {"pending", "running", "completed", "failed"}, due \in BOOLEAN, stale \in BOOLEAN :
            /\ [r EXCEPT !.status = s, !.due = due, !.stale = stale] \in Job
            /\ [r EXCEPT !.status = s, !.due = due] \in Job
            /\ [r EXCEPT !.status = s, !.stale = stale] \in Job
            /\ [r EXCEPT !.due = due] \in Job
            /\ [r EXCEPT !.stale = stale] \in Job
       /\ [r EXCEPT !.status = "running", !.attempts = Counted(@), !.stale = FALSE] \in Job
<1> DEFINE K == RetryLimit + TransientRetries
<1>0. Limit(TRUE) = K
  BY DEF Limit
<1>1. K \in Nat /\ Attempts = 0 .. (K + 1)
  BY Zenon, <1>0, KIsNatural DEF Attempts
<1>2. \A n \in Attempts : Counted(n) \in Attempts
  <2> SUFFICES ASSUME NEW n \in 0 .. (K + 1) PROVE Counted(n) \in 0 .. (K + 1)
    BY <1>1
  <2>1. Counted(n) = IF n <= K THEN n + 1 ELSE n
    BY Zenon, <1>0 DEF Counted
  <2> QED BY <1>1, <2>1
<1>3. NewJob \in Job
  <2>1. 0 \in Attempts
    BY <1>1
  <2> QED BY <2>1 DEF NewJob, Job
<1>4. ASSUME NEW r \in Job PROVE [r EXCEPT !.status = "running", !.attempts = Counted(@), !.stale = FALSE] \in Job
  <2>1. Counted(r.attempts) \in Attempts
    BY <1>2 DEF Job
  <2> QED BY <2>1 DEF Job
<1>5. ASSUME NEW r \in Job, NEW s \in {"pending", "running", "completed", "failed"},
             NEW due \in BOOLEAN, NEW stale \in BOOLEAN
      PROVE  /\ [r EXCEPT !.status = s, !.due = due, !.stale = stale] \in Job
             /\ [r EXCEPT !.status = s, !.due = due] \in Job
             /\ [r EXCEPT !.status = s, !.stale = stale] \in Job
             /\ [r EXCEPT !.due = due] \in Job
             /\ [r EXCEPT !.stale = stale] \in Job
  BY DEF Job
<1> QED BY <1>3, <1>4, <1>5

\* Rows change and none disappears; the run stays where it is.
LEMMA JobFrame ==
  ASSUME QueueOK, job' \in [Keys -> Job \cup {None}], \A k \in Keys : job[k] # None => job'[k] # None,
         UNCHANGED <<runner, queue, worker>>
  PROVE  QueueOK'
BY DEF QueueOK, TranscriptionOK, Roles, Held, Serves

\* One worker moves on with its job or lets go of it.
LEMMA WorkerFrame ==
  ASSUME QueueOK, NEW w \in Workers, NEW s \in WorkerState, worker' = [worker EXCEPT ![w] = s],
         worker[w].pc # "off",
         s.pc \in {"off", "idle"} <=> s.job = None, s.pc = "insert" => s.result # None,
         s.job \in {None, worker[w].job},
         job' \in [Keys -> Job \cup {None}], \A k \in Keys : job[k] # None => job'[k] # None,
         UNCHANGED <<runner, queue>>
  PROVE  QueueOK'
<1>1. TranscriptionOK' /\ runner.pc # "down"
  BY DEF QueueOK, TranscriptionOK, Roles
<1>2. \A v \in Workers : worker'[v] = IF v = w THEN s ELSE worker[v]
  BY DEF QueueOK, TranscriptionOK
<1>3. \A k \in Keys : Held(k)' => Held(k)
  <2> SUFFICES ASSUME NEW k \in Keys, Held(k)' PROVE Held(k)
    OBVIOUS
  <2>1. ASSUME NEW v \in Workers, worker'[v].job = k PROVE worker[v].job = k
    BY <1>2, <2>1, TranscriptionAssumption
  <2> QED BY <2>1 DEF Held, Serves
<1> QED BY <1>1, <1>2, <1>3 DEF QueueOK, Roles

\* UPDATEs of one row.
LEMMA RowUpdate ==
  ASSUME QueueOK, NEW k \in Keys, NEW r \in Job, job' = [job EXCEPT ![k] = r]
  PROVE  job' \in [Keys -> Job \cup {None}] /\ \A d \in Keys : job[d] # None => job'[d] # None
BY JobAssumption DEF QueueOK, TranscriptionOK

LEMMA ClaimedRow ==
  ASSUME QueueOK, NEW k \in Keys, Due(k)
  PROVE  /\ Claimed(k) \in [Keys -> Job \cup {None}]
         /\ Claimed(k)[k] # None /\ Claimed(k)[k].status = "running"
         /\ \A d \in Keys \ {k} : Claimed(k)[d] = job[d]
<1>1. job[k] \in Job /\ job \in [Keys -> Job \cup {None}]
  <2>1. Status(k) = "pending" /\ job \in [Keys -> Job \cup {None}]
    BY DEF QueueOK, TranscriptionOK, Due
  <2>2. job[k] # None
    BY <2>1 DEF Status
  <2> QED BY <2>1, <2>2
<1> DEFINE r == [job[k] EXCEPT !.status = "running", !.attempts = Counted(@), !.stale = FALSE]
<1>2. r \in Job /\ r.status = "running"
  <2>1. r \in Job
    BY <1>1, JobRows
  <2>2. r.status = "running"
    BY <1>1 DEF Job
  <2> QED BY <2>1, <2>2
<1>3. Claimed(k) = [job EXCEPT ![k] = r]
  BY <1>1 DEF Claimed
<1>4. Claimed(k)[k] = r /\ \A d \in Keys \ {k} : Claimed(k)[d] = job[d]
  BY <1>1, <1>3
<1> HIDE DEF r
<1> QED BY <1>1, <1>2, <1>3, <1>4, JobAssumption

LEMMA WaitingState == \A pc \in {"off", "idle"} :
  Waiting(pc) \in WorkerState /\ Waiting(pc).pc = pc /\ Waiting(pc).job = None
BY DEF Waiting, WorkerState

\* All workers return, or start: none has a job.
LEMMA AllFresh ==
  ASSUME QueueOK, NEW pc \in {"off", "idle"}, worker' = [w \in Workers |-> Waiting(pc)],
         queue' = <<>>, runner' \in Runner, runner'.hand = None, runner'.pc # "hand",
         runner'.pc = "down" => pc = "off",
         runner'.pc # "down" => runner'.provider # None,
         job' \in [Keys -> Job \cup {None}]
  PROVE  QueueOK'
<1>1. \A w \in Workers : worker'[w].pc = pc /\ worker'[w].job = None
  BY WaitingState
<1>2. TranscriptionOK'
  <2>1. worker' \in [Workers -> WorkerState]
    BY WaitingState
  <2>2. Capacity \in Nat
    BY TranscriptionAssumption, FS_CardinalityType DEF Capacity
  <2>3. <<>> \in Seq(Keys) /\ Len(<<>>) <= Capacity
    BY <2>2
  <2> QED BY <2>1, <2>3 DEF TranscriptionOK
<1>3. \A k \in Keys : ~Held(k)'
  BY <1>1, TranscriptionAssumption DEF Held, Serves
<1> QED BY <1>1, <1>2, <1>3 DEF QueueOK, Roles

LEMMA StartKeeps == ASSUME QueueOK, NEW recovers \in BOOLEAN, RunStart(recovers) PROVE QueueOK'
<1>1. PICK p \in Providers, permitted \in Connects :
        /\ runner' = [pc |-> "feed", hand |-> None, provider |-> p, permitted |-> permitted]
        /\ worker' = [w \in Workers |-> Waiting(IF permitted THEN "idle" ELSE "off")]
  BY DEF RunStart
<1>2. queue' = <<>>
  BY DEF RunStart, QueueOK, Roles
<1>3. job' \in [Keys -> Job \cup {None}]
  <2>1. job' = [k \in Keys |-> IF Abandoned(k) /\ recovers
               THEN [job[k] EXCEPT !.status = "pending", !.due = TRUE, !.stale = FALSE] ELSE job[k]]
    BY DEF RunStart
  <2> SUFFICES ASSUME NEW k \in Keys PROVE job'[k] \in Job \cup {None}
    BY <2>1
  <2>2. job[k] \in Job \cup {None} /\ (Abandoned(k) => job[k] # None)
    BY DEF QueueOK, TranscriptionOK, Abandoned, Status
  <2> QED BY <2>1, <2>2, JobRows
<1> DEFINE pc == IF permitted THEN "idle" ELSE "off"
<1>4. pc \in {"off", "idle"} /\ worker' = [w \in Workers |-> Waiting(pc)]
  BY <1>1
<1>5. runner' \in Runner /\ runner'.hand = None /\ runner'.pc = "feed" /\ runner'.provider # None
  <2>1. permitted \in BOOLEAN /\ p # None
    BY TranscriptionAssumption, TextsAssumption
  <2> QED BY <1>1, <2>1 DEF Runner
<1> HIDE DEF pc
<1> QED BY <1>2, <1>3, <1>4, <1>5, AllFresh

LEMMA EndKeeps == ASSUME QueueOK, RunEnds \/ RunCrash PROVE QueueOK'
<1>1. /\ runner' = Down /\ queue' = <<>> /\ job' = job
      /\ worker' = [w \in Workers |-> Waiting("off")]
  BY DEF RunEnds, RunCrash
<1>2. runner' \in Runner /\ runner'.hand = None /\ runner'.pc = "down"
  BY <1>1 DEF Runner, Down
<1>3. job' \in [Keys -> Job \cup {None}]
  BY <1>1 DEF QueueOK, TranscriptionOK
<1> QED BY <1>1, <1>2, <1>3, AllFresh

\* The runner goes on, with the configuration it has read.
LEMMA RunnerMoves ==
  ASSUME QueueOK, NEW pc \in {"feed", "hand", "drain"}, NEW hand \in Keys \cup {None}
  PROVE  /\ [runner EXCEPT !.pc = pc, !.hand = hand] \in Runner
         /\ [runner EXCEPT !.pc = pc, !.hand = hand].pc = pc
         /\ [runner EXCEPT !.pc = pc, !.hand = hand].hand = hand
         /\ [runner EXCEPT !.pc = pc, !.hand = hand].provider = runner.provider
         /\ [runner EXCEPT !.pc = pc] \in Runner
         /\ [runner EXCEPT !.pc = pc].pc = pc
         /\ [runner EXCEPT !.pc = pc].hand = runner.hand
         /\ [runner EXCEPT !.pc = pc].provider = runner.provider
<1>1. runner \in Runner
  BY DEF QueueOK, TranscriptionOK
<1> QED BY <1>1 DEF Runner

\* Its workers stay where they are.
LEMMA FeedFrame ==
  ASSUME QueueOK, runner.pc # "down", runner' \in Runner, runner'.pc # "down",
         runner'.provider = runner.provider,
         runner'.pc = "hand" <=> runner'.hand # None,
         queue' \in Seq(Keys), Len(queue') <= Capacity,
         job' \in [Keys -> Job \cup {None}], \A k \in Keys : job[k] # None => job'[k] # None,
         \A k \in Keys : Held(k)' => Held(k) \/ job'[k] # None,
         worker' = worker
  PROVE  QueueOK'
BY DEF QueueOK, TranscriptionOK, Roles

LEMMA ClaimJobKeeps == ASSUME QueueOK, NEW k \in Keys, ClaimJob(k) PROVE QueueOK'
<1>0. runner' = [runner EXCEPT !.pc = "hand", !.hand = k] /\ UNCHANGED <<queue, worker>> /\ runner.pc = "feed" /\ Due(k)
  BY DEF ClaimJob
<1>1. /\ runner' \in Runner /\ runner'.pc = "hand" /\ runner'.hand = k /\ runner'.provider = runner.provider
      /\ UNCHANGED <<queue, worker>> /\ runner.pc = "feed" /\ Due(k)
  BY <1>0, RunnerMoves
<1>2. job' = Claimed(k)
  BY DEF ClaimJob
<1>3. \A d \in Keys : job[d] # None => job'[d] # None
  BY <1>1, <1>2, ClaimedRow
<1>4. \A d \in Keys : Held(d)' => Held(d) \/ job'[d] # None
  <2>1. job'[k] # None
    BY <1>1, <1>2, ClaimedRow
  <2> QED BY <1>1, <2>1 DEF Held, Serves
<1>5. runner'.hand # None
  BY <1>1, TranscriptionAssumption
<1>6. job' \in [Keys -> Job \cup {None}]
  BY <1>1, <1>2, ClaimedRow
<1>7. queue \in Seq(Keys) /\ Len(queue) <= Capacity
  BY DEF QueueOK, TranscriptionOK
<1> QED BY <1>1, <1>3, <1>4, <1>5, <1>6, <1>7, FeedFrame

LEMMA FeedEndsKeeps == ASSUME QueueOK, FeedEnds \/ ClaimFails PROVE QueueOK'
<1>0. runner' = [runner EXCEPT !.pc = "drain"] /\ UNCHANGED <<queue, worker>> /\ runner.pc = "feed"
  BY DEF FeedEnds, ClaimFails
<1>1. /\ runner' \in Runner /\ runner'.pc = "drain" /\ runner'.hand = None /\ runner'.provider = runner.provider
      /\ UNCHANGED <<queue, worker>> /\ runner.pc = "feed"
  BY <1>0, RunnerMoves DEF QueueOK, Roles
<1>2. job' \in [Keys -> Job \cup {None}] /\ \A d \in Keys : job[d] # None => job'[d] # None
  <2>1. CASE job' = job
    BY <2>1 DEF QueueOK, TranscriptionOK
  <2>2. ASSUME NEW k \in Keys, Due(k), job' = Claimed(k)
        PROVE job' \in [Keys -> Job \cup {None}] /\ \A d \in Keys : job[d] # None => job'[d] # None
    BY <2>2, ClaimedRow
  <2> QED BY <2>1, <2>2 DEF FeedEnds, ClaimFails
<1>4. \A d \in Keys : Held(d)' => Held(d)
  BY <1>1, TranscriptionAssumption DEF Held, Serves
<1>5. queue \in Seq(Keys) /\ Len(queue) <= Capacity
  BY DEF QueueOK, TranscriptionOK
<1> QED BY <1>1, <1>2, <1>4, <1>5, FeedFrame

LEMMA HandKeeps == ASSUME QueueOK, Hand PROVE QueueOK'
<1>0. runner' = [runner EXCEPT !.pc = "feed", !.hand = None]
  BY DEF Hand
<1>a. runner' \in Runner /\ runner'.pc = "feed" /\ runner'.hand = None /\ runner'.provider = runner.provider
  BY <1>0, RunnerMoves
<1>1. /\ runner.pc = "hand" /\ Len(queue) < Capacity /\ queue' = Append(queue, runner.hand)
      /\ runner' \in Runner /\ runner'.pc = "feed" /\ runner'.hand = None /\ runner'.provider = runner.provider
      /\ UNCHANGED <<job, worker>>
  BY <1>a DEF Hand
<1>2. runner.hand \in Keys /\ queue \in Seq(Keys) /\ Len(queue) \in Nat /\ Capacity \in Nat
  BY <1>1, TranscriptionAssumption, FS_CardinalityType DEF QueueOK, TranscriptionOK, Roles, Runner, Capacity
<1>3. queue' \in Seq(Keys) /\ Len(queue') <= Capacity
  BY <1>1, <1>2
<1>4. \A d \in Keys : Held(d)' => Held(d)
  <2> SUFFICES ASSUME NEW d \in Keys, Held(d)' PROVE Held(d)
    OBVIOUS
  <2>1. CASE \E i \in DOMAIN queue' : queue'[i] = d
    <3>1. PICK i \in 1 .. Len(queue) + 1 : queue'[i] = d
      BY <1>1, <1>2, <2>1
    <3>2. CASE i = Len(queue) + 1
      BY <1>1, <1>2, <3>1, <3>2 DEF Held
    <3>3. CASE i \in 1 .. Len(queue)
      BY <1>1, <1>2, <3>1, <3>3 DEF Held
    <3> QED BY <1>2, <3>1, <3>2, <3>3
  <2> QED BY <1>1, <2>1, TranscriptionAssumption DEF Held, Serves
<1>6. job' \in [Keys -> Job \cup {None}] /\ \A d \in Keys : job[d] # None => job'[d] # None
  BY <1>1 DEF QueueOK, TranscriptionOK
<1> QED BY <1>1, <1>3, <1>4, <1>6, FeedFrame

LEMMA TakeKeeps == ASSUME QueueOK, NEW w \in Workers, Take(w) PROVE QueueOK'
<1> DEFINE s == [pc |-> "request", job |-> Head(queue), result |-> None]
<1>1. /\ worker[w].pc = "idle" /\ queue # <<>> /\ queue \in Seq(Keys) /\ Len(queue) <= Capacity
      /\ worker' = [worker EXCEPT ![w] = s] /\ queue' = Tail(queue) /\ UNCHANGED <<job, runner>>
  BY DEF Take, WorkerAt, QueueOK, TranscriptionOK
<1>2. /\ Head(queue) \in Keys /\ Head(queue) = queue[1] /\ 1 \in DOMAIN queue
      /\ queue' \in Seq(Keys) /\ Len(queue') = Len(queue) - 1
      /\ \A i \in DOMAIN queue' : i + 1 \in DOMAIN queue /\ queue'[i] = queue[i + 1]
  BY <1>1
<1>3. Capacity \in Nat /\ Len(queue) \in Nat
  BY <1>1, TranscriptionAssumption, FS_CardinalityType DEF Capacity
<1>4. s \in WorkerState
  BY <1>2 DEF WorkerState
<1>5. \A v \in Workers : worker'[v] = IF v = w THEN s ELSE worker[v]
  BY <1>1 DEF QueueOK, TranscriptionOK
<1>6. TranscriptionOK'
  BY <1>1, <1>2, <1>3, <1>4 DEF QueueOK, TranscriptionOK
<1>7. \A d \in Keys : Held(d)' => Held(d)
  BY <1>1, <1>2, <1>5 DEF Held, Serves
<1>8. runner.pc # "down"
  BY <1>1 DEF QueueOK, Roles
<1>9. Head(queue) # None
  BY <1>2, TranscriptionAssumption
<1> QED BY <1>1, <1>5, <1>6, <1>7, <1>8, <1>9 DEF QueueOK, Roles

\* A worker that has a job.
Serving == {"request", "transient", "permanent", "insert", "reject", "complete", "expire", "enqueue"}

LEMMA ServingState ==
  ASSUME QueueOK, NEW w \in Workers, worker[w].pc \in Serving
  PROVE  /\ worker[w] \in WorkerState /\ worker[w].job \in Keys /\ worker[w].pc # "off"
         /\ job[worker[w].job] \in Job
         /\ \A pc \in Serving : [worker[w] EXCEPT !.pc = pc] \in WorkerState
<1>1. worker[w] \in WorkerState /\ worker[w].job \in Keys
  BY DEF QueueOK, TranscriptionOK, Roles, WorkerState, Serving
<1>2. job[worker[w].job] \in Job
  <2>1. Held(worker[w].job)
    BY DEF Held, Serves
  <2> QED BY <1>1, <2>1 DEF QueueOK, TranscriptionOK, Roles
<1>3. \A pc \in Serving : [worker[w] EXCEPT !.pc = pc] \in WorkerState
  BY <1>1 DEF WorkerState, Serving
<1> QED BY <1>1, <1>2, <1>3 DEF Serving

LEMMA GotoState ==
  ASSUME QueueOK, NEW w \in Workers, worker[w].pc \in Serving, NEW pc \in Serving, WorkerGoto(w, pc)
  PROVE  \E s \in WorkerState : worker' = [worker EXCEPT ![w] = s] /\ s.job = worker[w].job /\ s.pc = pc
<1> DEFINE s == [worker[w] EXCEPT !.pc = pc]
<1>1. s \in WorkerState /\ worker[w] \in WorkerState
  BY ServingState
<1>2. s.job = worker[w].job /\ s.pc = pc
  BY <1>1 DEF WorkerState
<1>3. worker' = [worker EXCEPT ![w] = s]
  BY DEF WorkerGoto
<1> HIDE DEF s
<1> QED BY <1>1, <1>2, <1>3

\* It moves on with its job, or is done with it.
LEMMA MoveKeeps ==
  ASSUME QueueOK, NEW w \in Workers, worker[w].pc \in Serving,
         job' \in [Keys -> Job \cup {None}], \A k \in Keys : job[k] # None => job'[k] # None,
         UNCHANGED <<runner, queue>>,
         \/ \E pc \in Serving \ {"insert"} : WorkerGoto(w, pc)
         \/ WorkerDone(w)
  PROVE  QueueOK'
<1>1. CASE WorkerDone(w)
  BY <1>1, ServingState, WaitingState, WorkerFrame DEF WorkerDone
<1>2. ASSUME NEW pc \in Serving \ {"insert"}, WorkerGoto(w, pc) PROVE QueueOK'
  <2> DEFINE s == [worker[w] EXCEPT !.pc = pc]
  <2>1. s \in WorkerState /\ s.pc = pc /\ s.job = worker[w].job
    BY ServingState DEF WorkerState
  <2>2. worker' = [worker EXCEPT ![w] = s]
    BY <1>2 DEF WorkerGoto
  <2>3. s.job # None /\ s.pc \notin {"off", "idle", "insert"} /\ worker[w].pc # "off"
    BY <1>2, <2>1, ServingState, TranscriptionAssumption DEF Serving
  <2> HIDE DEF s
  <2> QED BY <2>1, <2>2, <2>3, WorkerFrame
<1> QED BY <1>1, <1>2

\* The rows a worker writes.
LEMMA ResultRows ==
  ASSUME QueueOK, NEW w \in Workers, RecordFailure(w) \/ RejectJob(w) \/ CompleteJob(w)
  PROVE  /\ worker[w].pc \in Serving
         /\ job' \in [Keys -> Job \cup {None}]
         /\ \A k \in Keys : job[k] # None => job'[k] # None
<1>1. worker[w].pc \in Serving
  BY DEF RecordFailure, RejectJob, CompleteJob, WorkerAt, Serving
<1> DEFINE k == worker[w].job
<1>2. k \in Keys /\ job[k] \in Job
  BY <1>1, ServingState
<1>3. \E r \in Job : job' = [job EXCEPT ![k] = r]
  <2>1. CASE RecordFailure(w)
    <3>1. job' = [job EXCEPT ![k] = [job[k] EXCEPT !.status = AfterFailure(k, WorkerAt(w, "transient")),
                                                   !.due = FALSE, !.stale = FALSE]]
      BY <2>1 DEF RecordFailure
    <3>2. AfterFailure(k, WorkerAt(w, "transient")) \in {"pending", "running", "completed", "failed"}
      BY DEF AfterFailure
    <3> HIDE DEF k
    <3> QED BY <1>2, <3>1, <3>2, JobRows
  <2>2. CASE RejectJob(w)
    <3>1. job' = [job EXCEPT ![k] = [job[k] EXCEPT !.status = "failed", !.stale = FALSE]]
      BY <2>2 DEF RejectJob
    <3> HIDE DEF k
    <3> QED BY <1>2, <3>1, JobRows
  <2>3. CASE CompleteJob(w)
    <3>1. job' = [job EXCEPT ![k] = [job[k] EXCEPT !.status = "completed", !.stale = FALSE]]
      BY <2>3 DEF CompleteJob
    <3> HIDE DEF k
    <3> QED BY <1>2, <3>1, JobRows
  <2> QED BY <2>1, <2>2, <2>3
<1> QED BY <1>1, <1>2, <1>3, RowUpdate

LEMMA WorkersKeep ==
  ASSUME QueueOK, NEW w \in Workers,
         \/ Take(w) \/ Transcribe(w) \/ RecordFailure(w) \/ InsertTranscript(w) \/ InsertFails(w) \/ RejectJob(w)
         \/ CompleteJob(w) \/ LeaveExpire(w) \/ LeaveEnqueue(w) \/ StatementIgnored(w)
  PROVE  QueueOK'
<1>1. CASE Transcribe(w)
  <2>1. worker[w].pc = "request" /\ UNCHANGED <<job, runner, queue>>
    BY <1>1 DEF Transcribe, WorkerAt
  <2>2. worker[w].pc \in Serving /\ job' \in [Keys -> Job \cup {None}]
    BY <2>1 DEF Serving, QueueOK, TranscriptionOK
  <2>3. ASSUME NEW t \in Results, worker' = [worker EXCEPT ![w].pc = "insert", ![w].result = t] PROVE QueueOK'
    <3> DEFINE s == [worker[w] EXCEPT !.pc = "insert", !.result = t]
    <3>0. worker[w] \in WorkerState /\ t \in Texts /\ t # None
      BY <2>2, ServingState, TranscriptionAssumption
    <3>1. s \in WorkerState /\ s.pc = "insert" /\ s.job = worker[w].job /\ s.result # None
      BY <3>0 DEF WorkerState
    <3>2. worker' = [worker EXCEPT ![w] = s]
      BY <2>3
    <3>3. s.job # None
      BY <2>2, <3>1, ServingState, TranscriptionAssumption
    <3> HIDE DEF s
    <3> QED BY <2>1, <2>2, <3>1, <3>2, <3>3, WorkerFrame
  <2>4. CASE \E kind \in {"transient", "permanent"} : WorkerGoto(w, kind)
    <3>1. {"transient", "permanent"} \subseteq Serving \ {"insert"}
      BY DEF Serving
    <3> QED BY <2>1, <2>2, <2>4, <3>1, MoveKeeps
  <2> QED BY <1>1, <2>3, <2>4 DEF Transcribe
<1>2. CASE RecordFailure(w) \/ RejectJob(w) \/ CompleteJob(w)
  <2>1. WorkerDone(w) \/ WorkerGoto(w, "expire")
    BY <1>2 DEF RecordFailure, RejectJob, CompleteJob
  <2>2. UNCHANGED <<runner, queue>> /\ "expire" \in Serving \ {"insert"}
    BY <1>2 DEF RecordFailure, RejectJob, CompleteJob, Serving
  <2> QED BY <1>2, <2>1, <2>2, ResultRows, MoveKeeps
<1>3. CASE InsertTranscript(w) \/ InsertFails(w) \/ LeaveExpire(w) \/ LeaveEnqueue(w) \/ StatementIgnored(w)
  <2>1. worker[w].pc \in Serving /\ UNCHANGED <<job, runner, queue>>
    BY <1>3 DEF InsertTranscript, InsertFails, LeaveExpire, LeaveEnqueue, StatementIgnored, WorkerAt, Serving
  <2>2. WorkerDone(w) \/ \E pc \in {"complete", "reject", "enqueue", "expire"} : WorkerGoto(w, pc)
    BY <1>3 DEF InsertTranscript, InsertFails, LeaveExpire, LeaveEnqueue, StatementIgnored
  <2>3. {"complete", "reject", "enqueue", "expire"} \subseteq Serving \ {"insert"}
    BY DEF Serving
  <2>4. job' \in [Keys -> Job \cup {None}]
    BY <2>1 DEF QueueOK, TranscriptionOK
  <2> QED BY <2>1, <2>2, <2>3, <2>4, MoveKeeps
<1> QED BY <1>1, <1>2, <1>3, TakeKeeps

\* What ingestion, operators and the clock do to rows.
LEMMA RowsKeep ==
  ASSUME QueueOK, NEW k \in Keys, BackoffEnds(k) \/ FifteenMinutesPass(k) \/ AutoEnqueue(k) \/ Requeue(k)
  PROVE  QueueOK'
<1>1. UNCHANGED <<runner, queue, worker>>
  BY DEF BackoffEnds, FifteenMinutesPass, AutoEnqueue, Requeue
<1>2. job' = job \/ \E r \in Job : job' = [job EXCEPT ![k] = r]
  <2>1. job[k] = None \/ job[k] \in Job
    BY DEF QueueOK, TranscriptionOK
  <2>2. CASE BackoffEnds(k)
    <3>1. job' = [job EXCEPT ![k] = [job[k] EXCEPT !.due = TRUE]] /\ job[k] # None
      BY <2>2 DEF BackoffEnds, Status
    <3> QED BY <2>1, <3>1, JobRows
  <2>3. CASE FifteenMinutesPass(k)
    <3>1. job' = [job EXCEPT ![k] = [job[k] EXCEPT !.stale = TRUE]] /\ job[k] # None
      BY <2>3 DEF FifteenMinutesPass, Status
    <3> QED BY <2>1, <3>1, JobRows
  <2>4. CASE AutoEnqueue(k)
    BY <2>4, JobRows DEF AutoEnqueue
  <2>5. CASE Requeue(k)
    <3>1. job' = [job EXCEPT ![k] = IF job[k] = None THEN NewJob
                                    ELSE [job[k] EXCEPT !.status = "pending", !.due = TRUE]]
      BY <2>5 DEF Requeue
    <3> QED BY <2>1, <3>1, JobRows
  <2> QED BY <2>2, <2>3, <2>4, <2>5
<1>3. job \in [Keys -> Job \cup {None}]
  BY DEF QueueOK, TranscriptionOK
<1>4. job' \in [Keys -> Job \cup {None}] /\ \A d \in Keys : job[d] # None => job'[d] # None
  BY <1>2, <1>3, RowUpdate
<1> QED BY <1>1, <1>4, JobFrame

-------------------------------------------------------------------------------
(* A job is in one pair of hands.                                                *)

Requeued(k) == k \in requeued

InQueue(k) == \E i \in DOMAIN queue : queue[i] = k

\* Unless an operator requeued the job while it was at work, it is in one place only and runs; a
\* worker that has completed it has only the call's alerts left to do.
Single(k) ==
  ~Requeued(k) =>
    /\ runner.hand = k => Status(k) = "running" /\ ~InQueue(k) /\ \A w \in Workers : ~Serves(w, k)
    /\ \A i \in DOMAIN queue : queue[i] = k =>
         /\ Status(k) = "running"
         /\ \A j \in DOMAIN queue : queue[j] = k => j = i
         /\ \A w \in Workers : ~Serves(w, k)
    /\ \A w \in Workers : Serves(w, k) =>
         /\ Status(k) = "running" \/ (Status(k) = "completed" /\ worker[w].pc \in {"expire", "enqueue"})
         /\ \A v \in Workers : Serves(v, k) => v = w

\* What a step that is no requeueing keeps.
Fine(k) == /\ Single(k)'
           /\ Status(k) = "failed" /\ ~Requeued(k) => Status(k)' = "failed"

LEMMA StatusAfter ==
  ASSUME QueueOK, NEW d \in Keys, NEW r \in Job, job' = [job EXCEPT ![d] = r]
  PROVE  /\ Status(d)' = r.status
         /\ \A k \in Keys \ {d} : Status(k)' = Status(k)
<1>1. job'[d] = r /\ \A k \in Keys \ {d} : job'[k] = job[k]
  BY DEF QueueOK, TranscriptionOK
<1> QED BY <1>1, JobAssumption DEF Status

LEMMA SingleFrame ==
  ASSUME NEW k \in Keys, Single(k), Requeued(k) => Requeued(k)', UNCHANGED <<runner, queue, worker>>,
         Status(k)' = Status(k) \/ (~Held(k) /\ Status(k) # "failed")
  PROVE  Fine(k)
BY DEF Fine, Single, Held, InQueue, Serves

\* A worker leaves its job, or keeps it while it runs.
LEMMA SingleWorker ==
  ASSUME QueueOK, NEW w \in Workers, NEW k \in Keys, Single(k), Requeued(k) => Requeued(k)',
         worker[w].pc \in Serving, UNCHANGED <<runner, queue>>,
         \/ WorkerDone(w)
         \/ \E s \in WorkerState : /\ worker' = [worker EXCEPT ![w] = s] /\ s.job = worker[w].job
                                   /\ Serves(w, k) /\ ~Requeued(k) =>
                                        Status(k)' = "running" \/ (Status(k)' = "completed" /\ s.pc \in {"expire", "enqueue"}),
         ~Serves(w, k) => Status(k)' = Status(k),
         Serves(w, k) /\ Status(k) = "failed" /\ ~Requeued(k) => Status(k)' = "failed"
  PROVE  Fine(k)
<1>1. \A v \in Workers : v # w => worker'[v] = worker[v]
  BY DEF WorkerDone, QueueOK, TranscriptionOK
<1>2. CASE WorkerDone(w)
  <2>1. worker'[w].job = None
    BY <1>2, WaitingState DEF WorkerDone, QueueOK, TranscriptionOK
  <2>2. ~Serves(w, k)'
    BY <2>1, TranscriptionAssumption DEF Serves
  <2> QED BY <1>1, <2>2 DEF Fine, Single, InQueue, Serves
<1>3. ASSUME NEW s \in WorkerState, worker' = [worker EXCEPT ![w] = s], s.job = worker[w].job,
             Serves(w, k) /\ ~Requeued(k) =>
               Status(k)' = "running" \/ (Status(k)' = "completed" /\ s.pc \in {"expire", "enqueue"})
      PROVE  Fine(k)
  <2>1. worker'[w] = s
    BY <1>3 DEF QueueOK, TranscriptionOK
  <2> QED BY <1>1, <1>3, <2>1 DEF Fine, Single, InQueue, Serves
<1> QED BY <1>2, <1>3

\* Nothing is at work before a run and after it.
LEMMA SingleIdle ==
  ASSUME NEW k \in Keys, runner'.hand = None, queue' = <<>>, \A w \in Workers : worker'[w].job = None,
         Status(k) = "failed" => Status(k)' = "failed"
  PROVE  Fine(k)
BY TranscriptionAssumption DEF Fine, Single, Serves

LEMMA StartFine ==
  ASSUME QueueOK, NEW recovers \in BOOLEAN, RunStart(recovers), NEW k \in Keys PROVE Fine(k)
<1>1. PICK p \in Providers, permitted \in Connects :
        /\ runner' = [pc |-> "feed", hand |-> None, provider |-> p, permitted |-> permitted]
        /\ worker' = [w \in Workers |-> Waiting(IF permitted THEN "idle" ELSE "off")]
  BY DEF RunStart
<1>2. runner'.hand = None /\ queue' = <<>>
  BY <1>1 DEF RunStart, QueueOK, Roles
<1>3. \A w \in Workers : worker'[w].job = None
  BY <1>1 DEF Waiting
<1>4. Status(k) = "failed" => Status(k)' = "failed"
  BY DEF RunStart, Abandoned, Status
<1> QED BY <1>2, <1>3, <1>4, SingleIdle

LEMMA EndFine == ASSUME QueueOK, RunEnds \/ RunCrash, NEW k \in Keys PROVE Fine(k)
<1>1. /\ runner' = Down /\ queue' = <<>> /\ job' = job
      /\ worker' = [w \in Workers |-> Waiting("off")]
  BY DEF RunEnds, RunCrash
<1>2. \A w \in Workers : worker'[w].job = None
  BY <1>1 DEF Waiting
<1>3. runner'.hand = None
  BY <1>1 DEF Down
<1> QED BY <1>1, <1>2, <1>3, SingleIdle DEF Status

LEMMA ClaimJobFine ==
  ASSUME QueueOK, NEW d \in Keys, ClaimJob(d), NEW k \in Keys, Single(k), Requeued(k) => Requeued(k)'
  PROVE  Fine(k)
<1>0. runner' = [runner EXCEPT !.pc = "hand", !.hand = d]
  BY DEF ClaimJob
<1>a. runner'.hand = d
  BY <1>0, RunnerMoves
<1>1. runner'.hand = d /\ UNCHANGED <<queue, worker>> /\ Due(d) /\ runner.pc = "feed" /\ job' = Claimed(d)
  BY <1>a DEF ClaimJob
<1>2. runner.hand = None /\ Status(d) = "pending"
  BY <1>1 DEF QueueOK, Roles, Due
<1>3. CASE k = d
  <2>1. Status(k)' = "running" /\ Status(k) = "pending"
    BY <1>1, <1>2, <1>3, ClaimedRow DEF Status
  <2>2. ~Requeued(k) => ~InQueue(k) /\ \A w \in Workers : ~Serves(w, k)
    BY <2>1 DEF Single, InQueue
  <2> QED BY <1>1, <2>1, <2>2 DEF Fine, Single, InQueue, Serves
<1>4. CASE k # d
  <2>1. Status(k)' = Status(k)
    BY <1>1, <1>4, ClaimedRow DEF Status
  <2> QED BY <1>1, <1>4, <2>1 DEF Fine, Single, InQueue, Serves
<1> QED BY <1>3, <1>4

LEMMA FeedEndsFine ==
  ASSUME QueueOK, FeedEnds \/ ClaimFails, NEW k \in Keys, Single(k), Requeued(k) => Requeued(k)'
  PROVE  Fine(k)
<1>0. runner' = [runner EXCEPT !.pc = "drain"] /\ UNCHANGED <<queue, worker>> /\ runner.pc = "feed"
  BY DEF FeedEnds, ClaimFails
<1>1. /\ runner' \in Runner /\ runner'.pc = "drain" /\ runner'.hand = None /\ runner'.provider = runner.provider
      /\ UNCHANGED <<queue, worker>> /\ runner.pc = "feed"
  BY <1>0, RunnerMoves DEF QueueOK, Roles
<1>2. Status(k)' = Status(k) \/ (Status(k) = "pending" /\ Status(k)' = "running")
  <2>1. CASE job' = job
    BY <2>1 DEF Status
  <2>2. ASSUME NEW d \in Keys, Due(d), job' = Claimed(d)
        PROVE Status(k)' = Status(k) \/ (Status(k) = "pending" /\ Status(k)' = "running")
    <3>1. CASE k = d
      BY <2>2, <3>1, ClaimedRow DEF Status, Due
    <3>2. CASE k # d
      BY <2>2, <3>2, ClaimedRow DEF Status
    <3> QED BY <3>1, <3>2
  <2> QED BY <2>1, <2>2 DEF FeedEnds, ClaimFails
<1>3. runner'.hand # k
  BY <1>1, TranscriptionAssumption
<1> QED BY <1>1, <1>2, <1>3 DEF Fine, Single, InQueue, Serves

LEMMA HandFine ==
  ASSUME QueueOK, Hand, NEW k \in Keys, Single(k), Requeued(k) => Requeued(k)'
  PROVE  Fine(k)
<1>0. runner' = [runner EXCEPT !.pc = "feed", !.hand = None]
  BY DEF Hand
<1>a. runner'.hand = None
  BY <1>0, RunnerMoves
<1>1. /\ runner.pc = "hand" /\ queue' = Append(queue, runner.hand)
      /\ runner'.hand = None /\ UNCHANGED <<job, worker>>
  BY <1>a DEF Hand
<1>2. runner.hand \in Keys /\ queue \in Seq(Keys) /\ Len(queue) \in Nat
  BY <1>1 DEF QueueOK, TranscriptionOK, Roles, Runner
<1>3. DOMAIN queue = 1 .. Len(queue) /\ DOMAIN queue' = 1 .. Len(queue) + 1
  BY <1>1, <1>2
<1>4. \A i \in 1 .. Len(queue) + 1 : queue'[i] = IF i = Len(queue) + 1 THEN runner.hand ELSE queue[i]
  BY <1>1, <1>2
<1>5. Status(k)' = Status(k) /\ runner'.hand # k
  BY <1>1, TranscriptionAssumption DEF Status
<1>6. CASE runner.hand = k
  <2>1. ~Requeued(k) => /\ Status(k) = "running" /\ \A w \in Workers : ~Serves(w, k)
                        /\ \A i \in 1 .. Len(queue) : queue[i] # k
    BY <1>3, <1>6 DEF Single, InQueue
  <2>2. ~Requeued(k) => \A i \in DOMAIN queue' : queue'[i] = k => i = Len(queue) + 1
    BY <1>2, <1>3, <1>4, <2>1
  <2> QED BY <1>1, <1>5, <2>1, <2>2 DEF Fine, Single, InQueue, Serves
<1>7. CASE runner.hand # k
  <2>1. \A i \in DOMAIN queue' : queue'[i] = k => i \in DOMAIN queue /\ queue[i] = k
    BY <1>2, <1>3, <1>4, <1>7
  <2> QED BY <1>1, <1>5, <2>1 DEF Fine, Single, InQueue, Serves
<1> QED BY <1>6, <1>7

LEMMA TakeFine ==
  ASSUME QueueOK, NEW w \in Workers, Take(w), NEW k \in Keys, Single(k), Requeued(k) => Requeued(k)'
  PROVE  Fine(k)
<1> DEFINE s == [pc |-> "request", job |-> Head(queue), result |-> None]
<1>1. /\ worker[w].pc = "idle" /\ queue # <<>> /\ queue \in Seq(Keys)
      /\ worker' = [worker EXCEPT ![w] = s] /\ queue' = Tail(queue) /\ UNCHANGED <<job, runner>>
  BY DEF Take, WorkerAt, QueueOK, TranscriptionOK
<1>2. /\ Head(queue) = queue[1] /\ 1 \in DOMAIN queue
      /\ \A i \in DOMAIN queue' : i + 1 \in DOMAIN queue /\ queue'[i] = queue[i + 1] /\ i \in Nat /\ i + 1 # 1
  BY <1>1
<1>3. \A v \in Workers : worker'[v] = IF v = w THEN s ELSE worker[v]
  BY <1>1 DEF QueueOK, TranscriptionOK
<1>4. Status(k)' = Status(k)
  BY <1>1 DEF Status
<1>5. CASE queue[1] = k
  <2>1. ~Requeued(k) => /\ Status(k) = "running" /\ \A v \in Workers : ~Serves(v, k)
                        /\ \A j \in DOMAIN queue : queue[j] = k => j = 1
    BY <1>2, <1>5 DEF Single
  <2>2. ~Requeued(k) => \A i \in DOMAIN queue' : queue'[i] # k
    BY <1>2, <2>1
  <2>3. ~Requeued(k) => runner.hand # k
    BY <1>2, <1>5 DEF Single, InQueue
  <2>4. ~Requeued(k) => \A v \in Workers : Serves(v, k)' => v = w
    BY <1>3, <2>1 DEF Serves
  <2> QED BY <1>1, <1>4, <2>1, <2>2, <2>3, <2>4 DEF Fine, Single, InQueue
<1>6. CASE queue[1] # k
  <2>1. \A v \in Workers : Serves(v, k)' => Serves(v, k) /\ worker'[v] = worker[v]
    BY <1>2, <1>3, <1>6 DEF Serves
  <2>2. InQueue(k)' => InQueue(k)
    BY <1>2 DEF InQueue
  <2>3. \A i \in DOMAIN queue' : queue'[i] = k /\ ~Requeued(k) =>
          /\ Status(k) = "running" /\ \A v \in Workers : ~Serves(v, k)
          /\ \A j \in DOMAIN queue' : queue'[j] = k => j = i
    BY <1>2 DEF Single
  <2>4. \A v \in Workers : Serves(v, k)' /\ ~Requeued(k) =>
          /\ Status(k) = "running" \/ (Status(k) = "completed" /\ worker'[v].pc \in {"expire", "enqueue"})
          /\ \A x \in Workers : Serves(x, k)' => x = v
    BY <2>1 DEF Single
  <2>5. runner'.hand = k /\ ~Requeued(k) => Status(k) = "running" /\ ~InQueue(k)' /\ \A v \in Workers : ~Serves(v, k)'
    BY <1>1, <2>1, <2>2 DEF Single
  <2> QED BY <1>4, <2>1, <2>3, <2>4, <2>5 DEF Fine, Single
<1> QED BY <1>5, <1>6

LEMMA WorkersFine ==
  ASSUME QueueOK, NEW w \in Workers, NEW k \in Keys, Single(k), Requeued(k) => Requeued(k)',
         \/ Take(w) \/ Transcribe(w) \/ RecordFailure(w) \/ InsertTranscript(w) \/ InsertFails(w) \/ RejectJob(w)
         \/ CompleteJob(w) \/ LeaveExpire(w) \/ LeaveEnqueue(w) \/ StatementIgnored(w)
  PROVE  Fine(k)
<1>1. CASE Transcribe(w)
  <2>1. worker[w].pc = "request" /\ UNCHANGED <<job, runner, queue>>
    BY <1>1 DEF Transcribe, WorkerAt
  <2>2. worker[w].pc \in Serving /\ Status(k)' = Status(k)
    BY <2>1 DEF Serving, Status
  <2>3. Serves(w, k) /\ ~Requeued(k) => Status(k) = "running"
    BY <2>1 DEF Single
  <2>4. \E s \in WorkerState : worker' = [worker EXCEPT ![w] = s] /\ s.job = worker[w].job
    <3>1. ASSUME NEW t \in Results, worker' = [worker EXCEPT ![w].pc = "insert", ![w].result = t]
          PROVE \E s \in WorkerState : worker' = [worker EXCEPT ![w] = s] /\ s.job = worker[w].job
      <4>1. worker[w] \in WorkerState /\ t \in Texts
        BY <2>2, ServingState, TranscriptionAssumption
      <4> DEFINE s == [worker[w] EXCEPT !.pc = "insert", !.result = t]
      <4>2. s \in WorkerState /\ s.job = worker[w].job
        BY <4>1 DEF WorkerState
      <4>3. worker' = [worker EXCEPT ![w] = s]
        BY <3>1
      <4> HIDE DEF s
      <4> QED BY <4>2, <4>3
    <3>2. ASSUME NEW pc \in {"transient", "permanent"}, WorkerGoto(w, pc)
          PROVE \E s \in WorkerState : worker' = [worker EXCEPT ![w] = s] /\ s.job = worker[w].job
      <4>1. pc \in Serving
        BY DEF Serving
      <4> QED BY <2>2, <3>2, <4>1, GotoState
    <3> QED BY <1>1, <3>1, <3>2 DEF Transcribe
  <2> QED BY <2>1, <2>2, <2>3, <2>4, SingleWorker
<1> DEFINE d == worker[w].job
<1>2. CASE RecordFailure(w) \/ RejectJob(w)
  <2>1. /\ worker[w].pc \in {"transient", "permanent", "reject"} /\ worker[w].pc \in Serving
        /\ WorkerDone(w) /\ UNCHANGED <<runner, queue>>
    BY <1>2 DEF RecordFailure, RejectJob, WorkerAt, Serving
  <2>2. Serves(w, k) /\ ~Requeued(k) => Status(k) = "running"
    BY <2>1 DEF Single
  <2>3. ~Serves(w, k) => Status(k)' = Status(k)
    <3>1. d \in Keys /\ \A x \in Keys \ {d} : job'[x] = job[x]
      BY <1>2, <2>1, ServingState DEF RecordFailure, RejectJob, QueueOK, TranscriptionOK
    <3> QED BY <3>1 DEF Serves, Status
  <2> QED BY <2>1, <2>2, <2>3, SingleWorker
<1>3. CASE CompleteJob(w)
  <2>1. /\ worker[w].pc = "complete" /\ worker[w].pc \in Serving /\ WorkerGoto(w, "expire") /\ UNCHANGED <<runner, queue>>
    BY <1>3 DEF CompleteJob, WorkerAt, Serving
  <2>2. Serves(w, k) /\ ~Requeued(k) => Status(k) = "running"
    BY <2>1 DEF Single
  <2>3. d \in Keys /\ job[d] \in Job
    BY <2>1, ServingState
  <2>4. /\ ~Serves(w, k) => Status(k)' = Status(k)
        /\ Serves(w, k) => Status(k)' = "completed"
    <3> DEFINE r == [job[d] EXCEPT !.status = "completed", !.stale = FALSE]
    <3>0. r \in Job
      BY <2>3, JobRows
    <3>1. r.status = "completed"
      BY <2>3 DEF Job
    <3>2. job' = [job EXCEPT ![d] = r]
      BY <1>3 DEF CompleteJob
    <3> HIDE DEF r
    <3> QED BY <2>3, <3>0, <3>1, <3>2, StatusAfter DEF Serves
  <2>5. \E s \in WorkerState : worker' = [worker EXCEPT ![w] = s] /\ s.job = worker[w].job /\ s.pc = "expire"
    <3>1. "expire" \in Serving
      BY DEF Serving
    <3> QED BY <2>1, <3>1, GotoState
  <2> HIDE DEF d
  <2> QED BY <2>1, <2>2, <2>4, <2>5, SingleWorker
<1>4. CASE InsertTranscript(w) \/ InsertFails(w) \/ LeaveExpire(w) \/ LeaveEnqueue(w) \/ StatementIgnored(w)
  <2>1. worker[w].pc \in Serving /\ UNCHANGED <<job, runner, queue>> /\ Status(k)' = Status(k)
    BY <1>4 DEF InsertTranscript, InsertFails, LeaveExpire, LeaveEnqueue, StatementIgnored, WorkerAt, Serving, Status
  <2>2. CASE WorkerDone(w)
    BY <2>1, <2>2, SingleWorker
  <2>3. ASSUME NEW pc \in {"complete", "reject", "enqueue", "expire"}, WorkerGoto(w, pc),
               pc \in {"complete", "reject"} => worker[w].pc \notin {"expire", "enqueue"}
        PROVE  Fine(k)
    <3>1. pc \in Serving
      BY DEF Serving
    <3>2. PICK s \in WorkerState : worker' = [worker EXCEPT ![w] = s] /\ s.job = worker[w].job /\ s.pc = pc
      BY <2>1, <2>3, <3>1, GotoState
    <3>3. Serves(w, k) /\ ~Requeued(k) =>
            Status(k) = "running" \/ (Status(k) = "completed" /\ s.pc \in {"expire", "enqueue"})
      BY <2>3, <3>2 DEF Single
    <3> QED BY <2>1, <3>2, <3>3, SingleWorker
  <2>4. WorkerDone(w) \/ \E pc \in {"complete", "reject", "enqueue", "expire"} :
          WorkerGoto(w, pc) /\ (pc \in {"complete", "reject"} => worker[w].pc \notin {"expire", "enqueue"})
    BY <1>4 DEF InsertTranscript, InsertFails, LeaveExpire, LeaveEnqueue, StatementIgnored, WorkerAt
  <2> QED BY <2>2, <2>3, <2>4
<1> QED BY <1>1, <1>2, <1>3, <1>4, TakeFine

LEMMA RowsFine ==
  ASSUME QueueOK, NEW k \in Keys, Single(k), Requeued(k) => Requeued(k)', NEW d \in Keys,
         BackoffEnds(d) \/ FifteenMinutesPass(d) \/ AutoEnqueue(d)
  PROVE  Fine(k)
<1>1. UNCHANGED <<runner, queue, worker>>
  BY DEF BackoffEnds, FifteenMinutesPass, AutoEnqueue
<1>2. CASE BackoffEnds(d) \/ FifteenMinutesPass(d)
  <2>1. job[d] \in Job
    BY <1>2 DEF BackoffEnds, FifteenMinutesPass, Status, QueueOK, TranscriptionOK
  <2>2. PICK r \in {[job[d] EXCEPT !.due = TRUE], [job[d] EXCEPT !.stale = TRUE]} : job' = [job EXCEPT ![d] = r]
    BY <1>2 DEF BackoffEnds, FifteenMinutesPass
  <2>3. r \in Job
    BY <2>1, <2>2, JobRows
  <2>4. r.status = job[d].status /\ Status(d) = job[d].status
    BY <2>1, <2>2, JobAssumption DEF Job, Status
  <2>5. Status(k)' = Status(k)
    BY <2>2, <2>3, <2>4, StatusAfter
  <2> QED BY <1>1, <2>5, SingleFrame
<1>3. CASE AutoEnqueue(d)
  <2>1. CASE k = d /\ job[d] = None
    <3>1. ~Held(k) /\ Status(k) = "none"
      BY <2>1 DEF QueueOK, Roles, Status
    <3> QED BY <1>1, <3>1, SingleFrame
  <2>2. CASE ~(k = d /\ job[d] = None)
    <3>1. job'[k] = job[k]
      BY <1>3, <2>2 DEF AutoEnqueue, QueueOK, TranscriptionOK
    <3> QED BY <1>1, <3>1, SingleFrame DEF Status
  <2> QED BY <2>1, <2>2
<1> QED BY <1>2, <1>3

LEMMA OperatorRequeuesFine ==
  ASSUME QueueOK, NEW k \in Keys, Single(k), NEW d \in Keys, OperatorRequeues(d)
  PROVE  Single(k)' /\ (k # d => Fine(k))
<1>1. UNCHANGED <<runner, queue, worker>> /\ requeued' = requeued \cup {j \in {d} : AtWork(j)}
  BY DEF OperatorRequeues, Requeue
<1>2. /\ Requeued(k) => Requeued(k)'
      /\ AtWork(d) => Requeued(d)'
  BY <1>1 DEF Requeued
<1>3. CASE k # d
  <2>1. job'[k] = job[k]
    BY <1>3 DEF OperatorRequeues, Requeue, QueueOK, TranscriptionOK
  <2>2. Status(k)' = Status(k)
    BY <2>1 DEF Status
  <2>3. Fine(k)
    BY <1>1, <1>2, <2>2, SingleFrame
  <2> QED BY <2>3 DEF Fine
<1>4. CASE k = d /\ AtWork(d)
  BY <1>2, <1>4 DEF Single
<1>5. CASE k = d /\ ~AtWork(d)
  BY <1>1, <1>5 DEF Single, AtWork, Held, Serves
<1> QED BY <1>3, <1>4, <1>5

-------------------------------------------------------------------------------
(* The deliveries.                                                               *)

\* A notifier past its SELECT holds the lock, and has a call from its claim to its record.
Locked == {"claim", "deliver", "send", "sent", "failed"}
NotifyOK ==
  /\ NotificationOK
  /\ \A n \in Notifiers :
       /\ notifier[n].pc \in Locked => lock = n
       /\ notifier[n].call # None <=> notifier[n].pc \in Locked \ {"claim"}
       /\ notifier[n].call # None => delivery[notifier[n].call] # None

\* An alert that is not withdrawn for the call's text.
Good(c) == delivery[c] # None /\ ~(delivery[c].status = "expired" /\ delivery[c].cause = "text")

\* What every statement but a claim, a record and a retry leaves of the row of a call: nothing
\* takes back a delivery that is being sent or was sent.
RowKept(c) ==
  /\ delivery'[c] \in Delivery \cup {None}
  /\ delivery[c] # None => delivery'[c] # None
  /\ In(c, {"sending", "sent"}) => delivery'[c].status = delivery[c].status
  /\ Good(c) /\ Matches(c) => Good(c)'

LEMMA DeliveryRows ==
  ASSUME NEW r \in Delivery, NEW s \in {"pending", "sending", "sent", "failed", "expired"}, NEW aged \in BOOLEAN
  PROVE  [r EXCEPT !.status = s, !.aged = aged] \in Delivery /\ [r EXCEPT !.status = s, !.aged = aged].status = s
BY DEF Delivery

LEMMA CauseRows ==
  ASSUME NEW r \in Delivery, NEW s \in {"pending", "sending", "sent", "failed", "expired"},
         NEW cause \in {"", "age", "text", "rule"}, NEW aged \in BOOLEAN
  PROVE  /\ [r EXCEPT !.status = s, !.aged = aged, !.cause = cause] \in Delivery
         /\ [r EXCEPT !.status = s, !.aged = aged, !.cause = cause].status = s
         /\ [r EXCEPT !.status = s, !.aged = aged, !.cause = cause].cause = cause
BY DEF Delivery

LEMMA ClaimRows ==
  ASSUME NEW r \in Delivery
  PROVE  /\ [r EXCEPT !.status = "sending", !.aged = FALSE, !.attempts = CountedUp(@)] \in Delivery
         /\ [r EXCEPT !.status = "sending", !.aged = FALSE, !.attempts = CountedUp(@)].status = "sending"
<1>1. r.attempts \in 0 .. MaxDeliveries
  BY DEF Delivery
<1>2. CountedUp(r.attempts) \in 0 .. MaxDeliveries
  BY <1>1, NotificationAssumption DEF CountedUp
<1> QED BY <1>2 DEF Delivery

LEMMA NewRow == NewDelivery \in Delivery
BY NotificationAssumption DEF NewDelivery, Delivery

\* The row of one call is written.
LEMMA DeliveryWrite ==
  ASSUME NotifyOK, NEW d \in Calls, NEW r \in Delivery, delivery' = [delivery EXCEPT ![d] = r]
  PROVE  /\ delivery' \in [Calls -> Delivery \cup {None}]
         /\ delivery'[d] = r /\ r # None
         /\ \A c \in Calls \ {d} : delivery'[c] = delivery[c]
         /\ \A c \in Calls : delivery[c] # None => delivery'[c] # None
BY DeliveryAssumption DEF NotifyOK, NotificationOK

LEMMA KeepRow ==
  ASSUME NotifyOK, NEW c \in Calls, delivery'[c] = delivery[c]
  PROVE  RowKept(c)
BY DEF RowKept, Good, In, NotifyOK, NotificationOK

\* What ingestion, the transcription worker and the clock do to a delivery.
LEMMA StatementRows ==
  ASSUME NotifyOK, NEW d \in Calls,
         EnqueueNew(d) \/ EnqueueAgain(d) \/ ExpireUnmatched(d) \/ WindowPasses(d)
  PROVE  delivery' \in [Calls -> Delivery \cup {None}] /\ \A c \in Calls : RowKept(c)
<1>0. delivery \in [Calls -> Delivery \cup {None}] /\ (delivery[d] # None => delivery[d] \in Delivery)
  BY DEF NotifyOK, NotificationOK
<1>1. CASE delivery' = delivery
  BY <1>0, <1>1, KeepRow
<1>2. ASSUME NEW r \in Delivery, delivery' = [delivery EXCEPT ![d] = r],
             In(d, {"sending", "sent"}) => r.status = delivery[d].status,
             Good(d) /\ Matches(d) => ~(r.status = "expired" /\ r.cause = "text")
      PROVE  delivery' \in [Calls -> Delivery \cup {None}] /\ \A c \in Calls : RowKept(c)
  <2>1. RowKept(d)
    BY <1>2, DeliveryWrite DEF RowKept, Good
  <2> QED BY <1>2, <2>1, DeliveryWrite, KeepRow
<1>3. CASE delivery[d] = None /\ delivery' = [delivery EXCEPT ![d] = NewDelivery]
  BY <1>2, <1>3, NewRow DEF In, Good
<1>4. CASE EnqueueAgain(d) /\ In(d, Requeueable)
  <2> DEFINE r == [delivery[d] EXCEPT !.status = "pending", !.aged = FALSE, !.cause = ""]
  <2>1. delivery[d] \in Delivery /\ delivery[d].status \notin {"sending", "sent"}
    BY <1>0, <1>4 DEF In, Requeueable
  <2>2. r \in Delivery /\ r.status = "pending"
    BY <2>1 DEF Delivery
  <2>3. delivery' = delivery \/ delivery' = [delivery EXCEPT ![d] = r]
    BY <1>4, <2>1, DeliveryAssumption DEF EnqueueAgain
  <2> HIDE DEF r
  <2> QED BY <1>1, <1>2, <2>1, <2>2, <2>3 DEF In
<1>5. CASE ExpireUnmatched(d) /\ Unmatched(d)
  <2>1. delivery[d] \in Delivery /\ delivery[d].status \notin {"sending", "sent"} /\ ~Matches(d)
    BY <1>0, <1>5 DEF In, Unmatched
  <2>2. Expired(d, "text") \in Delivery
    BY <2>1, CauseRows DEF Expired
  <2>3. delivery' = [delivery EXCEPT ![d] = Expired(d, "text")]
    BY <1>5 DEF ExpireUnmatched
  <2> QED BY <1>2, <2>1, <2>2, <2>3 DEF In
<1>6. CASE WindowPasses(d)
  <2>1. delivery[d] \in Delivery /\ delivery' = [delivery EXCEPT ![d] = [delivery[d] EXCEPT !.aged = TRUE]]
    BY <1>0, <1>6 DEF WindowPasses, In
  <2> DEFINE r == [delivery[d] EXCEPT !.aged = TRUE]
  <2>2. r \in Delivery /\ r.status = delivery[d].status /\ r.cause = delivery[d].cause
    BY <2>1 DEF Delivery
  <2> HIDE DEF r
  <2> QED BY <1>2, <2>1, <2>2 DEF r, Good
<1> QED BY <1>1, <1>3, <1>4, <1>5, <1>6 DEF EnqueueNew, EnqueueAgain, ExpireUnmatched

\* What many rows at a time become.
LEMMA ExpireRows ==
  ASSUME NotifyOK, NEW cause \in {"age", "rule"}, NEW P \in SUBSET Calls,
         \A c \in P : In(c, {"pending", "failed"}),
         delivery' = [c \in Calls |-> IF c \in P THEN Expired(c, cause) ELSE delivery[c]]
  PROVE  delivery' \in [Calls -> Delivery \cup {None}] /\ \A c \in Calls : RowKept(c)
<1> SUFFICES ASSUME NEW c \in Calls PROVE RowKept(c)
  BY DEF RowKept
<1>1. CASE c \in P
  <2>1. delivery[c] \in Delivery /\ delivery[c].status \in {"pending", "failed"}
    BY <1>1 DEF In, NotifyOK, NotificationOK
  <2>2. Expired(c, cause) \in Delivery /\ Expired(c, cause).cause = cause
    BY <2>1 DEF Expired, Delivery
  <2>3. delivery'[c] = Expired(c, cause) /\ Expired(c, cause) # None
    BY <1>1, <2>2, DeliveryAssumption
  <2> QED BY <2>1, <2>2, <2>3 DEF RowKept, In, Good
<1>2. CASE c \notin P
  BY <1>2, KeepRow
<1> QED BY <1>1, <1>2

\* Unless an operator asked for it again or a reply was lost, a call has alerted at most once, its
\* delivery then stays out of reach, and the notifier at work on it is about to record or has sent
\* nothing.
Alerted(c) ==
  history[c] \cap {"retried", "reply lost"} = {} =>
    /\ alerts[c] = 0 \/ (alerts[c] = 1 /\ In(c, {"sending", "sent"}))
    /\ \A n \in Notifiers : notifier[n].call = c =>
         In(c, {"sending"}) /\ alerts[c] = IF notifier[n].pc = "sent" THEN 1 ELSE 0

LEMMA DeliveryFrame ==
  ASSUME NotifyOK, delivery' \in [Calls -> Delivery \cup {None}],
         \A c \in Calls : delivery[c] # None => delivery'[c] # None,
         UNCHANGED <<notifier, lock, alerts>>, enabled' \subseteq Switches, disabling' \in BOOLEAN
  PROVE  NotifyOK'
<1>1. NotificationOK'
  BY DEF NotifyOK, NotificationOK
<1>2. ASSUME NEW n \in Notifiers, notifier[n].call # None PROVE delivery'[notifier[n].call] # None
  BY <1>2 DEF NotifyOK, NotificationOK, Notifier
<1> QED BY <1>1, <1>2 DEF NotifyOK

LEMMA AlertedFrame ==
  ASSUME NEW c \in Calls, Alerted(c), RowKept(c), UNCHANGED <<notifier, alerts>>, history[c] \subseteq history'[c]
  PROVE  Alerted(c)'
<1>1. \A s \in SUBSET {"sending", "sent"} : In(c, s) => In(c, s)'
  BY DEF RowKept, In
<1>2. In(c, {"sending", "sent"}) => In(c, {"sending", "sent"})'
  BY <1>1
<1>3. In(c, {"sending"}) => In(c, {"sending"})'
  BY <1>1
<1> QED BY <1>2, <1>3 DEF Alerted

\* One notifier moves.
LEMMA NotifierFrame ==
  ASSUME NotifyOK, NEW n \in Notifiers, NEW s \in Notifier, notifier' = [notifier EXCEPT ![n] = s],
         delivery' \in [Calls -> Delivery \cup {None}], \A c \in Calls : delivery[c] # None => delivery'[c] # None,
         UNCHANGED <<enabled, disabling>>, alerts' \in [Calls -> Nat], lock' \in Notifiers \cup {None},
         lock' = lock \/ lock \in {n, None},
         s.pc \in Locked => lock' = n, s.call # None <=> s.pc \in Locked \ {"claim"},
         s.call # None => delivery'[s.call] # None
  PROVE  NotifyOK' /\ \A m \in Notifiers : notifier'[m] = IF m = n THEN s ELSE notifier[m]
<1>1. \A m \in Notifiers : notifier'[m] = IF m = n THEN s ELSE notifier[m]
  BY DEF NotifyOK, NotificationOK
<1>2. NotificationOK'
  BY DEF NotifyOK, NotificationOK
<1>3. ASSUME NEW m \in Notifiers, m # n
      PROVE  /\ notifier[m].pc \in Locked => lock' = m
             /\ notifier[m].call # None => delivery'[notifier[m].call] # None
  <2>1. lock = m => lock' = m
    BY <1>3, NotificationAssumption
  <2> QED BY <2>1 DEF NotifyOK, NotificationOK, Notifier
<1> QED BY <1>1, <1>2, <1>3 DEF NotifyOK

\* What a step of a notifier keeps of a call.
CallKept(c) == Alerted(c)' /\ (Good(c) /\ Matches(c) => Good(c)')

\* It changes no row, sends nothing, and does not take up a call.
LEMMA QuietNotifier ==
  ASSUME NotifyOK, NEW n \in Notifiers, NEW s \in Notifier, notifier' = [notifier EXCEPT ![n] = s],
         UNCHANGED <<delivery, enabled, disabling, alerts>>, lock' \in Notifiers \cup {None},
         lock' = lock \/ lock \in {n, None},
         s.pc \in Locked => lock' = n, s.call # None <=> s.pc \in Locked \ {"claim"},
         s.call # None => s.call = notifier[n].call /\ (s.pc = "sent" <=> notifier[n].pc = "sent"),
         \A c \in Calls : Alerted(c) /\ history[c] \subseteq history'[c]
  PROVE  NotifyOK' /\ \A c \in Calls : CallKept(c)
<1>1. /\ delivery' \in [Calls -> Delivery \cup {None}] /\ alerts' \in [Calls -> Nat]
      /\ \A c \in Calls : delivery[c] # None => delivery'[c] # None
      /\ s.call # None => delivery'[s.call] # None
  BY DEF NotifyOK, NotificationOK
<1>2. NotifyOK' /\ \A m \in Notifiers : notifier'[m] = IF m = n THEN s ELSE notifier[m]
  BY <1>1, NotifierFrame
<1>3. ASSUME NEW c \in Calls PROVE CallKept(c)
  <2>1. \A m \in Notifiers : notifier'[m].call = c =>
          notifier[m].call = c /\ (notifier'[m].pc = "sent" <=> notifier[m].pc = "sent")
    BY <1>2, DeliveryAssumption
  <2>2. Alerted(c)'
    BY <2>1 DEF Alerted, In
  <2> QED BY <2>2 DEF CallKept, Good
<1> QED BY <1>2, <1>3

LEMMA StoppedState == Stopped \in Notifier /\ Stopped.pc = "down" /\ Stopped.call = None
BY DEF Stopped, Notifier

\* It changes the row of the call it takes up, has or lets go of.
LEMMA BusyNotifier ==
  ASSUME NotifyOK, NEW n \in Notifiers, NEW s \in Notifier, notifier' = [notifier EXCEPT ![n] = s],
         NEW d \in Calls, NEW r \in Delivery, delivery' = [delivery EXCEPT ![d] = r],
         delivery[d] # None, notifier[n].call \in {d, None}, s.call \in {d, None},
         UNCHANGED <<enabled, disabling, lock, alerts>>,
         notifier[n].pc \in Locked, s.pc \in Locked, s.call # None <=> s.pc \in Locked \ {"claim"},
         r.status # "expired", s.call = d => r.status = "sending" /\ s.pc # "sent" /\ notifier[n].call = None,
         \A c \in Calls : Alerted(c) /\ history[c] \subseteq history'[c],
         history[d] \cap {"retried", "reply lost"} = {} =>
           \/ alerts[d] = 0
           \/ alerts[d] = 1 /\ r.status \in {"sending", "sent"} /\ s.call = None
  PROVE  NotifyOK' /\ \A c \in Calls : CallKept(c)
<1>1. /\ delivery' \in [Calls -> Delivery \cup {None}]
      /\ delivery'[d] = r /\ r # None
      /\ \A c \in Calls \ {d} : delivery'[c] = delivery[c]
      /\ \A c \in Calls : delivery[c] # None => delivery'[c] # None
  BY DeliveryWrite
<1>2. lock = n /\ alerts' \in [Calls -> Nat] /\ lock' \in Notifiers \cup {None}
  BY DEF NotifyOK, NotificationOK
<1>3. NotifyOK' /\ \A m \in Notifiers : notifier'[m] = IF m = n THEN s ELSE notifier[m]
  <2>1. s.call # None => delivery'[s.call] # None
    BY <1>1
  <2>2. lock' = n /\ lock' = lock /\ UNCHANGED <<enabled, disabling>>
    BY <1>2
  <2> QED BY <1>1, <1>2, <2>1, <2>2, NotifierFrame
<1>4. \A m \in Notifiers \ {n} : notifier[m].call = None
  BY <1>2 DEF NotifyOK
<1>a. s.call \in {d, None} /\ None \notin Calls
  BY DeliveryAssumption
<1>b. \A m \in Notifiers : notifier'[m].call = IF m = n THEN s.call ELSE None
  BY <1>3, <1>4, Zenon
<1>5. ASSUME NEW c \in Calls, c # d PROVE CallKept(c)
  <2>1. \A m \in Notifiers : notifier'[m].call # c
    BY ONLY <1>a, <1>b, <1>5
  <2>2. Alerted(c)'
    BY <1>1, <1>5, <2>1 DEF Alerted, In
  <2> QED BY <1>1, <1>5, <2>2 DEF CallKept, Good
<1>6. CallKept(d)
  <2>1. \A m \in Notifiers : notifier'[m].call = d => m = n /\ s.call = d
    BY ONLY <1>a, <1>b, d \in Calls
  <2>2. Good(d)'
    BY <1>1 DEF Good
  <2>3. Alerted(d)'
    <3> SUFFICES ASSUME history[d] \cap {"retried", "reply lost"} = {}
                 PROVE /\ alerts'[d] = 0 \/ (alerts'[d] = 1 /\ In(d, {"sending", "sent"})')
                       /\ \A m \in Notifiers : notifier'[m].call = d =>
                            In(d, {"sending"})' /\ alerts'[d] = IF notifier'[m].pc = "sent" THEN 1 ELSE 0
      BY DEF Alerted
    <3>1. d # None /\ alerts' = alerts
      BY DeliveryAssumption
    <3>2. CASE s.call = d
      <4>1. alerts[d] = 0 /\ r.status = "sending" /\ s.pc # "sent"
        BY <3>1, <3>2
      <4> QED BY <1>1, <1>3, <2>1, <3>1, <4>1 DEF In
    <3>3. CASE s.call # d
      BY <1>1, <2>1, <3>1, <3>3 DEF In
    <3> QED BY <3>2, <3>3
  <2> QED BY <2>2, <2>3 DEF CallKept
<1> QED BY <1>3, <1>5, <1>6

LEMMA NotifierStates ==
  ASSUME NotifyOK, NEW n \in Notifiers
  PROVE  /\ notifier[n] \in Notifier
         /\ notifier[n].pc \in Locked => lock = n
         /\ notifier[n].call # None <=> notifier[n].pc \in Locked \ {"claim"}
         /\ notifier[n].call # None => notifier[n].call \in Calls /\ delivery[notifier[n].call] \in Delivery
BY DEF NotifyOK, NotificationOK, Notifier

LEMMA NotifierGotoState ==
  ASSUME NotifyOK, NEW n \in Notifiers, NEW pc \in {"select", "send", "sent", "failed"}, NotifierGoto(n, pc)
  PROVE  \E s \in Notifier : notifier' = [notifier EXCEPT ![n] = s] /\ s.pc = pc /\ s.call = notifier[n].call
<1> DEFINE s == [notifier[n] EXCEPT !.pc = pc]
<1>1. s \in Notifier /\ s.pc = pc /\ s.call = notifier[n].call
  BY NotifierStates DEF Notifier
<1>2. notifier' = [notifier EXCEPT ![n] = s]
  BY DEF NotifierGoto
<1> HIDE DEF s
<1> QED BY <1>1, <1>2

LEMMA NotifierStartKeeps ==
  ASSUME NotifyOK, \A c \in Calls : Alerted(c) /\ history[c] \subseteq history'[c], NEW n \in Notifiers,
         NEW expires \in BOOLEAN, NotifierStart(n, expires)
  PROVE  NotifyOK' /\ \A c \in Calls : CallKept(c)
<1>1. notifier[n].pc = "down" /\ UNCHANGED <<enabled, disabling, lock, alerts>>
  BY DEF NotifierStart, NotifierAt
<1>2. PICK s \in Notifier : notifier' = [notifier EXCEPT ![n] = s] /\ s.pc = "select" /\ s.call = notifier[n].call
  BY NotifierGotoState DEF NotifierStart
<1>3. s.call = None
  BY <1>1, <1>2, NotifierStates DEF Locked
<1>4. delivery' \in [Calls -> Delivery \cup {None}] /\ \A c \in Calls : RowKept(c)
  <2> DEFINE P == IF expires THEN {c \in Calls : TooOld(c)} ELSE {}
  <2>1. delivery' = [c \in Calls |-> IF c \in P THEN Expired(c, "age") ELSE delivery[c]]
    BY DEF NotifierStart
  <2>2. P \in SUBSET Calls /\ \A c \in P : In(c, {"pending", "failed"})
    BY DEF TooOld
  <2> HIDE DEF P
  <2> QED BY <2>1, <2>2, ExpireRows
<1>5. alerts' \in [Calls -> Nat] /\ lock' \in Notifiers \cup {None} /\ \A c \in Calls : delivery[c] # None => delivery'[c] # None
  BY <1>1, <1>4 DEF NotifyOK, NotificationOK, RowKept
<1>6. NotifyOK' /\ \A m \in Notifiers : notifier'[m] = IF m = n THEN s ELSE notifier[m]
  BY <1>1, <1>2, <1>3, <1>4, <1>5, NotifierFrame DEF Locked
<1>7. ASSUME NEW c \in Calls PROVE CallKept(c)
  <2>1. \A m \in Notifiers : notifier'[m].call = c => m # n /\ notifier'[m] = notifier[m]
    BY <1>3, <1>6, DeliveryAssumption
  <2>2. /\ In(c, {"sending", "sent"}) => In(c, {"sending", "sent"})'
        /\ In(c, {"sending"}) => In(c, {"sending"})'
    BY <1>4 DEF RowKept, In
  <2>3. Alerted(c)'
    <3>1. history'[c] \cap {"retried", "reply lost"} = {} => history[c] \cap {"retried", "reply lost"} = {}
      OBVIOUS
    <3>2. Alerted(c)
      OBVIOUS
    <3> QED BY <1>1, <2>1, <2>2, <3>1, <3>2 DEF Alerted
  <2> QED BY <1>4, <2>3 DEF CallKept, RowKept
<1> QED BY <1>6, <1>7

LEMMA ClaimDeliveryKeeps ==
  ASSUME NotifyOK, \A c \in Calls : Alerted(c) /\ history[c] \subseteq history'[c], NEW n \in Notifiers,
         NEW d \in Calls, ClaimDelivery(n, d)
  PROVE  NotifyOK' /\ \A c \in Calls : CallKept(c)
<1>1. /\ notifier[n].pc = "claim" /\ notifier[n].call = None /\ notifier[n] \in Notifier
      /\ lock = n /\ UNCHANGED <<enabled, disabling, lock, alerts>>
  BY NotifierStates DEF ClaimDelivery, NotifierAt, Locked
<1>2. CASE Sendable(d)
  <2> DEFINE s == [notifier[n] EXCEPT !.pc = "deliver", !.call = d, !.batch = @ \ {d}]
  <2> DEFINE r == [delivery[d] EXCEPT !.status = "sending", !.aged = FALSE, !.attempts = CountedUp(@)]
  <2>1. s \in Notifier /\ s.pc = "deliver" /\ s.call = d
    BY <1>1 DEF Notifier
  <2>2. notifier' = [notifier EXCEPT ![n] = s] /\ delivery' = [delivery EXCEPT ![d] = r]
    BY <1>2 DEF ClaimDelivery
  <2>3. delivery[d] \in Delivery /\ delivery[d] # None /\ delivery[d].status \in {"pending", "failed"}
    BY <1>2 DEF Sendable, In, NotifyOK, NotificationOK
  <2>4. r \in Delivery /\ r.status = "sending"
    BY <2>3, ClaimRows
  <2>5. history[d] \cap {"retried", "reply lost"} = {} => alerts[d] = 0
    BY <2>3 DEF Alerted, In
  <2>6. d # None
    BY DeliveryAssumption
  <2> HIDE DEF s, r
  <2> QED BY <1>1, <2>1, <2>2, <2>3, <2>4, <2>5, <2>6, BusyNotifier DEF Locked
<1>3. CASE ~Sendable(d)
  <2> DEFINE s == [notifier[n] EXCEPT !.batch = @ \ {d}]
  <2>1. s \in Notifier /\ s.pc = "claim" /\ s.call = None
    BY <1>1 DEF Notifier
  <2>2. notifier' = [notifier EXCEPT ![n] = s] /\ delivery' = delivery
    BY <1>3 DEF ClaimDelivery
  <2>3. lock' \in Notifiers \cup {None}
    BY <1>1
  <2> HIDE DEF s
  <2> QED BY <1>1, <2>1, <2>2, <2>3, QuietNotifier DEF Locked
<1> QED BY <1>2, <1>3

LEMMA RecordAttemptKeeps ==
  ASSUME NotifyOK, \A c \in Calls : Alerted(c) /\ history[c] \subseteq history'[c], NEW n \in Notifiers, RecordAttempt(n)
  PROVE  NotifyOK' /\ \A c \in Calls : CallKept(c)
<1> DEFINE d == notifier[n].call
<1>1. notifier[n].pc \in {"sent", "failed"} /\ UNCHANGED <<enabled, disabling, lock, alerts>>
  BY DEF RecordAttempt, NotifierAt
<1>2. d \in Calls /\ delivery[d] \in Delivery /\ notifier[n] \in Notifier /\ delivery[d] # None
  BY <1>1, NotifierStates, DeliveryAssumption DEF Locked
<1> DEFINE s == [notifier[n] EXCEPT !.pc = "claim", !.call = None]
<1>3. s \in Notifier /\ s.pc = "claim" /\ s.call = None /\ notifier' = [notifier EXCEPT ![n] = s]
  <2>1. s \in Notifier /\ s.pc = "claim" /\ s.call = None
    BY <1>2 DEF Notifier
  <2>2. notifier' = [notifier EXCEPT ![n] = s]
    BY DEF RecordAttempt
  <2> QED BY <2>1, <2>2
<1> DEFINE status == IF notifier[n].pc = "sent" THEN "sent" ELSE AfterAttempt(d)
<1> DEFINE r == [delivery[d] EXCEPT !.status = status, !.aged = FALSE]
<1>4. status \in {"sent", "failed", "pending"} /\ (status = "sent" <=> notifier[n].pc = "sent")
  BY DEF AfterAttempt
<1>5. delivery' = [delivery EXCEPT ![d] = r]
  BY <1>1 DEF RecordAttempt, NotifierAt
<1>6. r \in Delivery /\ r.status = status
  <2> HIDE DEF status, d
  <2>1. status \in {"pending", "sending", "sent", "failed", "expired"}
    BY <1>4
  <2> QED BY <1>2, <2>1, DeliveryRows
<1>7. history[d] \cap {"retried", "reply lost"} = {} => alerts[d] = IF notifier[n].pc = "sent" THEN 1 ELSE 0
  BY <1>2 DEF Alerted
<1> HIDE DEF s, r, status, d
<1>8. notifier[n].call = d
  BY DEF d
<1>9. d # None
  BY <1>2, DeliveryAssumption
<1> QED BY <1>1, <1>2, <1>3, <1>4, <1>5, <1>6, <1>7, <1>8, <1>9, BusyNotifier DEF Locked

LEMMA OneMore == (\A k \in Nat : k + 1 \in Nat) /\ 0 + 1 = 1
OBVIOUS

LEMMA SendKeeps ==
  ASSUME NotifyOK, \A c \in Calls : Alerted(c) /\ history[c] \subseteq history'[c], NEW n \in Notifiers,
         NEW got \in BOOLEAN, NEW confirmed \in BOOLEAN, Send(n, got, confirmed),
         got /\ ~confirmed => "reply lost" \in history'[notifier[n].call]
  PROVE  NotifyOK' /\ \A c \in Calls : CallKept(c)
<1> DEFINE d == notifier[n].call
<1>1. notifier[n].pc = "send" /\ UNCHANGED <<delivery, enabled, disabling, lock>> /\ (confirmed => got)
  BY DEF Send, NotifierAt
<1>2. d \in Calls /\ lock = n
  BY <1>1, NotifierStates DEF Locked
<1>3. PICK s \in Notifier : notifier' = [notifier EXCEPT ![n] = s] /\ s.pc = (IF confirmed THEN "sent" ELSE "failed") /\ s.call = d
  <2>1. NotifierGoto(n, IF confirmed THEN "sent" ELSE "failed")
    BY DEF Send
  <2> QED BY <2>1, NotifierGotoState
<1>4. alerts' = IF got THEN [alerts EXCEPT ![d] = @ + 1] ELSE alerts
  BY DEF Send
<1>5. alerts \in [Calls -> Nat] /\ alerts' \in [Calls -> Nat]
  <2>1. alerts \in [Calls -> Nat]
    BY DEF NotifyOK, NotificationOK
  <2> HIDE DEF d
  <2>2. [alerts EXCEPT ![d] = @ + 1] \in [Calls -> Nat]
    <3>0. alerts[d] \in Nat
      BY <1>2, <2>1
    <3>1. alerts[d] + 1 \in Nat
      BY Zenon, <3>0, OneMore
    <3> QED BY <2>1, <3>1
  <2> QED BY <1>4, <2>1, <2>2
<1>6. /\ delivery' \in [Calls -> Delivery \cup {None}] /\ lock' \in Notifiers \cup {None}
      /\ \A c \in Calls : delivery[c] # None => delivery'[c] # None
      /\ delivery'[d] # None /\ d # None
  BY <1>1, <1>2, NotifierStates, DeliveryAssumption DEF NotifyOK, NotificationOK
<1> HIDE DEF d
<1>7. NotifyOK' /\ \A m \in Notifiers : notifier'[m] = IF m = n THEN s ELSE notifier[m]
  BY <1>1, <1>2, <1>3, <1>5, <1>6, NotifierFrame DEF Locked
<1>8. \A m \in Notifiers \ {n} : notifier[m].call = None
  BY <1>2 DEF NotifyOK
<1>9. ASSUME NEW c \in Calls PROVE CallKept(c)
  <2>1. CASE c # d
    <3>1. alerts'[c] = alerts[c] /\ \A m \in Notifiers : notifier'[m].call # c
      BY <1>3, <1>4, <1>5, <1>7, <1>8, <2>1, DeliveryAssumption
    <3>2. Alerted(c)'
      BY <1>1, <3>1 DEF Alerted, In
    <3> QED BY <1>1, <3>2 DEF CallKept, Good
  <2>2. CASE c = d
    <3>1. notifier[n].call = c
      BY <2>2 DEF d
    <3>2. history[c] \cap {"retried", "reply lost"} = {} => alerts[c] = 0 /\ In(c, {"sending"})
      BY <1>1, <3>1 DEF Alerted
    <3>3. history'[c] \cap {"retried", "reply lost"} = {} => (got <=> confirmed)
      BY <1>1, <3>1
    <3>4. got => alerts'[c] = alerts[c] + 1
      BY <1>4, <1>5, <2>2
    <3>5. ~got => alerts'[c] = alerts[c]
      BY <1>4
    <3>6. In(c, {"sending"}) => In(c, {"sending"})' /\ In(c, {"sending", "sent"})'
      BY <1>1 DEF In
    <3>7. \A m \in Notifiers : notifier'[m].call = c => m = n
      BY <1>7, <1>8, DeliveryAssumption
    <3>8. notifier'[n].pc = IF confirmed THEN "sent" ELSE "failed"
      BY <1>3, <1>7
    <3>9. Alerted(c)'
      <4> SUFFICES ASSUME history'[c] \cap {"retried", "reply lost"} = {}
                   PROVE /\ alerts'[c] = 0 \/ (alerts'[c] = 1 /\ In(c, {"sending", "sent"})')
                         /\ \A m \in Notifiers : notifier'[m].call = c =>
                              In(c, {"sending"})' /\ alerts'[c] = IF notifier'[m].pc = "sent" THEN 1 ELSE 0
        BY DEF Alerted
      <4>1. history[c] \cap {"retried", "reply lost"} = {}
        OBVIOUS
      <4>2. alerts[c] = 0 /\ In(c, {"sending"})' /\ In(c, {"sending", "sent"})'
        BY <3>2, <3>6, <4>1
      <4>3. alerts'[c] = IF notifier'[n].pc = "sent" THEN 1 ELSE 0
        <5>1. CASE got
          <6>1. notifier'[n].pc = "sent"
            BY Zenon, <3>3, <3>8, <5>1
          <6>2. alerts'[c] = 1
            BY Zenon, <3>4, <4>2, <5>1, OneMore
          <6> QED BY <6>1, <6>2
        <5>2. CASE ~got
          <6>1. notifier'[n].pc = "failed"
            BY Zenon, <3>3, <3>8, <5>2
          <6> QED BY <3>5, <4>2, <5>2, <6>1
        <5> QED BY <5>1, <5>2
      <4> QED BY <3>7, <4>2, <4>3
    <3> QED BY <1>1, <3>9 DEF CallKept, Good
  <2> QED BY <2>1, <2>2
<1> QED BY <1>7, <1>9

LEMMA NotifiersKeep ==
  ASSUME NotifyOK, \A c \in Calls : Alerted(c) /\ history[c] \subseteq history'[c], NEW n \in Notifiers,
         \/ SelectBatch(n) \/ AnotherIsActive(n) \/ CheckRule(n) \/ AttemptNotRecorded(n) \/ NotifierEnds(n)
         \/ NotifierCrash(n)
  PROVE  NotifyOK' /\ \A c \in Calls : CallKept(c)
<1>0. UNCHANGED <<delivery, enabled, disabling, alerts>> /\ lock \in Notifiers \cup {None} /\ n # None
  BY NotificationAssumption DEF SelectBatch, AnotherIsActive, CheckRule, AttemptNotRecorded, NotifierEnds, NotifierCrash,
     NotifyOK, NotificationOK
<1>1. CASE SelectBatch(n)
  <2>1. PICK due \in SUBSET Calls : notifier' = [notifier EXCEPT ![n] = [pc |-> "claim", batch |-> due, call |-> None]]
    BY <1>1 DEF SelectBatch
  <2> DEFINE s == [pc |-> "claim", batch |-> due, call |-> None]
  <2>2. s \in Notifier /\ s.pc = "claim" /\ s.call = None /\ lock = None /\ lock' = n
    BY <1>1 DEF Notifier, SelectBatch
  <2> QED BY <1>0, <2>1, <2>2, QuietNotifier DEF Locked
<1>2. CASE AnotherIsActive(n) \/ NotifierEnds(n) \/ NotifierCrash(n)
  <2>1. notifier' = [notifier EXCEPT ![n] = Stopped] /\ (lock' = lock \/ (lock = n /\ lock' = None))
    BY <1>2, NotifierStates DEF AnotherIsActive, NotifierEnds, NotifierCrash, NotifierAt, Locked
  <2> QED BY <1>0, <2>1, StoppedState, QuietNotifier DEF Locked
<1>3. CASE CheckRule(n)
  <2>1. notifier[n].pc = "deliver" /\ lock' = lock /\ \E pc \in {"send", "failed"} : NotifierGoto(n, pc)
    BY <1>3 DEF CheckRule, NotifierAt
  <2>2. PICK s \in Notifier : notifier' = [notifier EXCEPT ![n] = s] /\ s.pc \in {"send", "failed"} /\ s.call = notifier[n].call
    BY <2>1, NotifierGotoState
  <2>3. lock = n /\ notifier[n].call # None
    BY <2>1, NotifierStates DEF Locked
  <2> QED BY <1>0, <2>1, <2>2, <2>3, QuietNotifier DEF Locked
<1>4. CASE AttemptNotRecorded(n)
  <2> DEFINE s == [notifier[n] EXCEPT !.pc = "claim", !.call = None]
  <2>1. s \in Notifier /\ s.pc = "claim" /\ s.call = None
    BY NotifierStates DEF Notifier
  <2>2. notifier' = [notifier EXCEPT ![n] = s] /\ lock' = lock
    BY <1>4 DEF AttemptNotRecorded
  <2>3. lock = n
    BY <1>4, NotifierStates DEF AttemptNotRecorded, NotifierAt, Locked
  <2> HIDE DEF s
  <2> QED BY <1>0, <2>1, <2>2, <2>3, QuietNotifier DEF Locked
<1> QED BY <1>1, <1>2, <1>3, <1>4

-------------------------------------------------------------------------------
(* The pipeline.                                                                 *)

LEMMA KeyFacts ==
  /\ \A k \in Keys : CallOf(k) \in Calls
  /\ \A c \in Calls, p \in Providers : <<c, p>> \in Keys /\ CallOf(<<c, p>>) = c
BY DEF Keys, CallOf

\* Nothing is queued for a call before it is stored.
Stored(c) ==
  ingest[c] = "new" => delivery[c] = None /\ \A k \in Keys : CallOf(k) = c => job[k] = None

Types == /\ TypeOK /\ QueueOK /\ NotifyOK
         /\ \A c \in Calls : Stored(c)

LEMMA MarkGrows ==
  ASSUME history \in [Calls -> SUBSET Marks], NEW cs, NEW m \in Marks, Mark(cs, m)
  PROVE  /\ history' \in [Calls -> SUBSET Marks]
         /\ \A c \in Calls : history[c] \subseteq history'[c] /\ (c \in cs => m \in history'[c])
BY DEF Mark

LEMMA HistoryGrows ==
  ASSUME TypeOK, [Next]_vars
  PROVE  history' \in [Calls -> SUBSET Marks] /\ \A c \in Calls : history[c] \subseteq history'[c]
<1>0. history \in [Calls -> SUBSET Marks]
  BY DEF TypeOK
<1>1. CASE UNCHANGED history
  BY <1>0, <1>1
<1>2. CASE \E m \in Marks : \E cs : Mark(cs, m)
  BY <1>0, <1>2, MarkGrows
<1>3. {"lost", "edited", "rule", "retried", "reply lost"} \subseteq Marks
  BY DEF Marks
<1>4. ASSUME NEW c \in Calls,
             CommitCall(c) \/ EnqueueAlert(c) \/ EnqueueJob(c) \/ SafetyWindowPasses(c) \/ OperatorRetries(c)
      PROVE  UNCHANGED history \/ \E m \in Marks : \E cs : Mark(cs, m)
  BY <1>3, <1>4 DEF CommitCall, EnqueueAlert, EnqueueJob, SafetyWindowPasses, OperatorRetries, pipeline
<1>9. ASSUME NEW k \in Keys, TimePasses(k) \/ OperatorRequeues(k) \/ OperatorEdits(k)
      PROVE  UNCHANGED history \/ \E m \in Marks : \E cs : Mark(cs, m)
  BY <1>3, <1>9 DEF TimePasses, OperatorRequeues, OperatorEdits, pipeline
<1>5. ASSUME NEW w \in Workers, WriteTranscript(w) \/ ReconcileExpire(w) \/ ReconcileEnqueue(w) PROVE UNCHANGED history
  BY <1>5 DEF WriteTranscript, ReconcileExpire, ReconcileEnqueue, pipeline
<1>6. ASSUME TranscriptionStep \/ TranscriptionError \/ TranscriptionCrash \/ ServerCrash \/ OperatorChangesRule
      PROVE  UNCHANGED history \/ \E m \in Marks : \E cs : Mark(cs, m)
  BY <1>3, <1>6 DEF TranscriptionStep, TranscriptionError, TranscriptionCrash, ServerCrash, OperatorChangesRule, pipeline
<1>7. ASSUME NEW n \in Notifiers, NotificationStep(n) \/ NotificationError(n) \/ NotificationCrash(n)
      PROVE  UNCHANGED history \/ \E m \in Marks : \E cs : Mark(cs, m)
  BY <1>3, <1>7 DEF NotificationStep, NotificationError, NotificationCrash, pipeline
<1>8. CASE UNCHANGED vars
  BY <1>1, <1>8 DEF vars, pipeline
<1> QED BY <1>1, <1>2, <1>4, <1>5, <1>6, <1>7, <1>8, <1>9 DEF Next

\* A job that was requeued while it was at work stays marked.
LEMMA RequeuedGrows ==
  ASSUME TypeOK, [Next]_vars
  PROVE  requeued' \subseteq Keys /\ requeued \subseteq requeued'
<1>0. requeued \subseteq Keys
  BY DEF TypeOK
<1>1. ASSUME NEW c \in Calls,
             CommitCall(c) \/ EnqueueAlert(c) \/ EnqueueJob(c) \/ SafetyWindowPasses(c) \/ OperatorRetries(c)
      PROVE  UNCHANGED requeued
  BY <1>1 DEF CommitCall, EnqueueAlert, EnqueueJob, SafetyWindowPasses, OperatorRetries, pipeline
<1>2. ASSUME NEW k \in Keys, TimePasses(k) \/ OperatorEdits(k) PROVE UNCHANGED requeued
  BY <1>2 DEF TimePasses, OperatorEdits, pipeline
<1>3. ASSUME NEW k \in Keys, OperatorRequeues(k) PROVE requeued' \subseteq Keys /\ requeued \subseteq requeued'
  BY <1>0, <1>3 DEF OperatorRequeues
<1>4. ASSUME NEW w \in Workers, WriteTranscript(w) \/ ReconcileExpire(w) \/ ReconcileEnqueue(w) PROVE UNCHANGED requeued
  BY <1>4 DEF WriteTranscript, ReconcileExpire, ReconcileEnqueue, pipeline
<1>5. ASSUME \/ TranscriptionStep \/ TranscriptionError \/ TranscriptionCrash \/ ServerCrash \/ OperatorChangesRule
             \/ UNCHANGED vars
      PROVE  UNCHANGED requeued
  BY <1>5 DEF TranscriptionStep, TranscriptionError, TranscriptionCrash, ServerCrash, OperatorChangesRule, vars, pipeline
<1>6. ASSUME NEW n \in Notifiers, NotificationStep(n) \/ NotificationError(n) \/ NotificationCrash(n)
      PROVE  UNCHANGED requeued
  BY <1>6 DEF NotificationStep, NotificationError, NotificationCrash, pipeline
<1>7. UNCHANGED requeued \/ \E k \in Keys : OperatorRequeues(k)
  BY <1>1, <1>2, <1>4, <1>5, <1>6, Zenon DEF Next
<1> QED BY <1>0, <1>3, <1>7

\* What a step does to the queue of jobs, requeueing apart.
RunnerMove == \/ \E recovers \in BOOLEAN : RunStart(recovers)
              \/ Hand \/ FeedEnds \/ ClaimFails \/ RunEnds \/ RunCrash
              \/ \E k \in Keys : ClaimJob(k)
WorkerMove(w) == \/ Take(w) \/ Transcribe(w) \/ RecordFailure(w) \/ InsertTranscript(w) \/ InsertFails(w)
                 \/ RejectJob(w) \/ CompleteJob(w) \/ LeaveExpire(w) \/ LeaveEnqueue(w) \/ StatementIgnored(w)
RowMove(k) == BackoffEnds(k) \/ FifteenMinutesPass(k) \/ AutoEnqueue(k)

LEMMA QueueMoves ==
  ASSUME [Next]_vars
  PROVE  \/ UNCHANGED transcriptionVars
         \/ RunnerMove
         \/ \E w \in Workers : WorkerMove(w)
         \/ \E k \in Keys : RowMove(k) \/ OperatorRequeues(k)
<1> DEFINE Goal == \/ UNCHANGED transcriptionVars
                   \/ RunnerMove
                   \/ \E w \in Workers : WorkerMove(w)
                   \/ \E k \in Keys : RowMove(k) \/ OperatorRequeues(k)
<1> SUFFICES Goal
  OBVIOUS
<1>1. ASSUME NEW c \in Calls,
             CommitCall(c) \/ EnqueueAlert(c) \/ EnqueueJob(c) \/ SafetyWindowPasses(c) \/ OperatorRetries(c)
      PROVE  Goal
  <2>1. CASE EnqueueJob(c)
    BY <2>1, KeyFacts DEF EnqueueJob, RowMove
  <2>2. CASE CommitCall(c) \/ EnqueueAlert(c) \/ SafetyWindowPasses(c) \/ OperatorRetries(c)
    BY <2>2 DEF CommitCall, EnqueueAlert, SafetyWindowPasses, OperatorRetries
  <2> QED BY <1>1, <2>1, <2>2
<1>9. ASSUME NEW k \in Keys, TimePasses(k) \/ OperatorRequeues(k) \/ OperatorEdits(k) PROVE Goal
  BY <1>9 DEF TimePasses, OperatorEdits, RowMove
<1>2. ASSUME NEW w \in Workers, WriteTranscript(w) \/ ReconcileExpire(w) \/ ReconcileEnqueue(w) PROVE Goal
  BY <1>2 DEF WriteTranscript, ReconcileExpire, ReconcileEnqueue, WorkerMove
<1>3. CASE TranscriptionStep \/ TranscriptionError \/ TranscriptionCrash
  BY <1>3 DEF TranscriptionStep, TranscriptionError, TranscriptionCrash, RunnerMove, WorkerMove
<1>4. CASE ServerCrash \/ OperatorChangesRule \/ UNCHANGED vars
  BY <1>4 DEF ServerCrash, OperatorChangesRule, vars
<1>5. ASSUME NEW n \in Notifiers, NotificationStep(n) \/ NotificationError(n) \/ NotificationCrash(n) PROVE Goal
  BY <1>5 DEF NotificationStep, NotificationError, NotificationCrash
<1> HIDE DEF Goal
<1>6. CASE \E c \in Calls : \/ CommitCall(c) \/ EnqueueAlert(c) \/ EnqueueJob(c)
                              \/ SafetyWindowPasses(c) \/ OperatorRetries(c)
  BY <1>1, <1>6, Zenon
<1>10. CASE \E k \in Keys : TimePasses(k) \/ OperatorRequeues(k) \/ OperatorEdits(k)
  BY <1>9, <1>10, Zenon
<1>7. CASE \E w \in Workers : WriteTranscript(w) \/ ReconcileExpire(w) \/ ReconcileEnqueue(w)
  BY <1>2, <1>7, Zenon
<1>8. CASE \E n \in Notifiers : NotificationStep(n) \/ NotificationError(n) \/ NotificationCrash(n)
  BY <1>5, <1>8, Zenon
<1> QED BY <1>3, <1>4, <1>6, <1>7, <1>8, <1>10, Zenon DEF Next

LEMMA QueueStep ==
  ASSUME Types, [Next]_vars
  PROVE  QueueOK'
<1>0. QueueOK
  BY DEF Types
<1>1. CASE UNCHANGED transcriptionVars
  BY <1>0, <1>1 DEF transcriptionVars, QueueOK, TranscriptionOK, Roles, Held, Serves
<1>2. CASE RunnerMove
  BY <1>0, <1>2, StartKeeps, HandKeeps, FeedEndsKeeps, EndKeeps, ClaimJobKeeps DEF RunnerMove
<1>3. ASSUME NEW w \in Workers, WorkerMove(w) PROVE QueueOK'
  BY <1>0, <1>3, WorkersKeep DEF WorkerMove
<1>4. ASSUME NEW k \in Keys, RowMove(k) \/ OperatorRequeues(k) PROVE QueueOK'
  BY <1>0, <1>4, RowsKeep DEF RowMove, OperatorRequeues
<1> QED BY <1>1, <1>2, <1>3, <1>4, QueueMoves

\* Only an operator takes back a failure.
LEMMA SingleStep ==
  ASSUME Types, [Next]_vars, \A k \in Keys : Single(k), NEW k \in Keys
  PROVE  Single(k)' /\ (Fine(k) \/ OperatorRequeues(k))
<1>0. QueueOK /\ (Requeued(k) => Requeued(k)') /\ Single(k)
  BY RequeuedGrows DEF Types, Requeued
<1>1. CASE UNCHANGED transcriptionVars
  BY <1>0, <1>1, SingleFrame DEF transcriptionVars, Status, Fine
<1>2. CASE RunnerMove
  BY <1>0, <1>2, StartFine, HandFine, FeedEndsFine, EndFine, ClaimJobFine DEF RunnerMove, Fine
<1>3. ASSUME NEW w \in Workers, WorkerMove(w) PROVE Fine(k)
  BY <1>0, <1>3, WorkersFine DEF WorkerMove
<1>4. ASSUME NEW d \in Keys, RowMove(d) PROVE Fine(k)
  BY <1>0, <1>4, RowsFine DEF RowMove
<1>5. ASSUME NEW d \in Keys, OperatorRequeues(d) PROVE Single(k)' /\ (Fine(k) \/ OperatorRequeues(k))
  BY <1>0, <1>5, OperatorRequeuesFine
<1>6. Fine(k) => Single(k)'
  BY DEF Fine
<1> QED BY <1>1, <1>2, <1>3, <1>4, <1>5, <1>6, QueueMoves

\* What a step does to the texts.
LEMMA TextMoves ==
  ASSUME [Next]_vars
  PROVE  \/ UNCHANGED texts
         \/ \E c \in Calls : CommitCall(c)
         \/ \E k \in Keys : OperatorEdits(k)
         \/ \E w \in Workers : WriteTranscript(w)
<1>1. CASE UNCHANGED vars
  BY <1>1 DEF vars
<1>2. ASSUME NEW c \in Calls, EnqueueAlert(c) \/ EnqueueJob(c) \/ SafetyWindowPasses(c) \/ OperatorRetries(c)
      PROVE  UNCHANGED texts
  BY <1>2 DEF EnqueueAlert, EnqueueJob, SafetyWindowPasses, OperatorRetries
<1>6. ASSUME NEW k \in Keys, TimePasses(k) \/ OperatorRequeues(k) PROVE UNCHANGED texts
  BY <1>6 DEF TimePasses, OperatorRequeues
<1>3. ASSUME NEW w \in Workers, ReconcileExpire(w) \/ ReconcileEnqueue(w) PROVE UNCHANGED texts
  BY <1>3 DEF ReconcileExpire, ReconcileEnqueue
<1>4. ASSUME TranscriptionStep \/ TranscriptionError \/ TranscriptionCrash \/ ServerCrash \/ OperatorChangesRule
      PROVE  UNCHANGED texts
  BY <1>4 DEF TranscriptionStep, TranscriptionError, TranscriptionCrash, ServerCrash, OperatorChangesRule
<1>5. ASSUME NEW n \in Notifiers, NotificationStep(n) \/ NotificationError(n) \/ NotificationCrash(n)
      PROVE  UNCHANGED texts
  BY <1>5 DEF NotificationStep, NotificationError, NotificationCrash
<1> QED BY <1>1, <1>2, <1>3, <1>4, <1>5, <1>6, Zenon DEF Next

\* A row that an operator edited stays as edited, and stays the text of its call.
Lasts(c, p) ==
  transcript[<<c, p>>] # None /\ transcript[<<c, p>>].edited # "" /\ ~OperatorEdits(<<c, p>>)
    => /\ transcript'[<<c, p>>] # None
       /\ transcript'[<<c, p>>].edited = transcript[<<c, p>>].edited
       /\ latest[c] = p /\ ~(\E q \in Providers : OperatorEdits(<<c, q>>))
            => Text(c)' = Text(c) \/ WrittenByAnother(c, p)

\* The row a worker writes.
LEMMA WrittenRow ==
  ASSUME Types, NEW w \in Workers, WriteTranscript(w)
  PROVE  /\ worker[w].pc = "insert" /\ received' = received
         /\ \E d \in Calls, q \in Providers, r \in Transcript :
              /\ CallOf(worker[w].job) = d /\ runner.provider = q
              /\ transcript' = [transcript EXCEPT ![<<d, q>>] = r]
              /\ latest' = [latest EXCEPT ![d] = q]
              /\ transcript[<<d, q>>] # None => r.edited = transcript[<<d, q>>].edited
<1>1. worker[w].pc = "insert" /\ received' = received
  BY DEF WriteTranscript, InsertTranscript, WorkerAt
<1>2. worker[w].job \in Keys /\ worker[w].result \in Texts /\ runner.provider \in Providers
  BY <1>1 DEF Types, QueueOK, TranscriptionOK, Roles, WorkerState, Runner
<1>3. PICK d \in Calls, q \in Providers : CallOf(worker[w].job) = d /\ runner.provider = q
  BY <1>2, KeyFacts
<1> DEFINE r == Upserted(<<d, q>>, worker[w].result)
<1>4. transcript \in [Keys -> Transcript \cup {None}] /\ <<d, q>> \in Keys
  BY KeyFacts DEF Types, TypeOK, TextsOK
<1>5. r \in Transcript
  <2>1. transcript[<<d, q>>] # None => transcript[<<d, q>>].edited \in Texts
    BY <1>4 DEF Transcript
  <2>2. "" \in Texts
    BY DEF Texts
  <2> QED BY <1>2, <2>1, <2>2 DEF Upserted, Transcript
<1>6. transcript[<<d, q>>] # None => r.edited = transcript[<<d, q>>].edited
  BY DEF Upserted
<1>7. transcript' = [transcript EXCEPT ![<<d, q>>] = r] /\ latest' = [latest EXCEPT ![d] = q]
  <2>1. Target(w) = <<d, q>>
    BY <1>3 DEF Target
  <2>2. transcript' = [transcript EXCEPT ![Target(w)] = Upserted(Target(w), worker[w].result)] /\ latest' = Stamped(Target(w))
    BY DEF WriteTranscript, InsertTranscript
  <2>3. Stamped(<<d, q>>) = [latest EXCEPT ![d] = q]
    BY DEF Stamped
  <2> QED BY <2>1, <2>2, <2>3
<1> HIDE DEF r
<1> QED BY <1>1, <1>3, <1>5, <1>6, <1>7

\* The row an operator edits.
LEMMA EditedRow ==
  ASSUME Types, NEW d \in Calls, NEW q \in Providers, OperatorEdits(<<d, q>>)
  PROVE  /\ received' = received /\ transcript[<<d, q>>] # None
         /\ latest' = [latest EXCEPT ![d] = q]
         /\ \E r \in Transcript : transcript' = [transcript EXCEPT ![<<d, q>>] = r]
<1> DEFINE k == <<d, q>>
<1>1. transcript \in [Keys -> Transcript \cup {None}] /\ k \in Keys
  BY KeyFacts DEF Types, TypeOK, TextsOK
<1>2. received' = received /\ transcript[k] # None /\ latest' = [latest EXCEPT ![d] = q]
  BY DEF OperatorEdits, Stamped
<1>3. transcript[k] \in Transcript
  BY <1>1, <1>2
<1>4. (\E t \in Texts : transcript' = [transcript EXCEPT ![k].edited = t]) \/ transcript' = transcript
  BY DEF OperatorEdits
<1> HIDE DEF k
<1>5. CASE transcript' = transcript
  <2>1. transcript' = [transcript EXCEPT ![k] = transcript[k]]
    BY <1>1, <1>5
  <2> QED BY <1>2, <1>3, <2>1 DEF k
<1>6. ASSUME NEW t \in Texts, transcript' = [transcript EXCEPT ![k].edited = t]
      PROVE  \E r \in Transcript : transcript' = [transcript EXCEPT ![k] = r]
  <2> DEFINE r == [transcript[k] EXCEPT !.edited = t]
  <2>1. r \in Transcript
    BY <1>3 DEF Transcript
  <2>2. transcript' = [transcript EXCEPT ![k] = r]
    BY <1>6
  <2> HIDE DEF r
  <2> QED BY <2>1, <2>2
<1> QED BY <1>2, <1>4, <1>5, <1>6 DEF k

\* One row is written and becomes the latest of its call.
LEMMA RowWritten ==
  ASSUME Types, NEW d \in Calls, NEW q \in Providers, NEW r \in Transcript, received' = received,
         transcript' = [transcript EXCEPT ![<<d, q>>] = r], latest' = [latest EXCEPT ![d] = q]
  PROVE  /\ TextsOK'
         /\ transcript'[<<d, q>>] = r /\ r # None /\ latest'[d] = q
         /\ \A c \in Calls, p \in Providers : <<c, p>> # <<d, q>> => transcript'[<<c, p>>] = transcript[<<c, p>>]
         /\ \A c \in Calls \ {d} : Text(c)' = Text(c)
<1>1. /\ transcript \in [Keys -> Transcript \cup {None}] /\ latest \in [Calls -> Providers \cup {None}]
      /\ received \in [Calls -> Texts]
  BY DEF Types, TypeOK, TextsOK
<1> DEFINE k == <<d, q>>
<1>2. k \in Keys /\ \A c \in Calls, p \in Providers : <<c, p>> \in Keys
  BY KeyFacts
<1>3. transcript' = [transcript EXCEPT ![k] = r]
  OBVIOUS
<1> HIDE DEF k
<1>4. /\ transcript' \in [Keys -> Transcript \cup {None}] /\ transcript'[k] = r
      /\ \A j \in Keys : j # k => transcript'[j] = transcript[j]
  BY <1>1, <1>2, <1>3
<1>5. /\ latest' \in [Calls -> Providers \cup {None}] /\ latest'[d] = q
      /\ \A c \in Calls \ {d} : latest'[c] = latest[c]
  BY <1>1
<1>6. \A c \in Calls, p \in Providers : <<c, p>> # k => transcript'[<<c, p>>] = transcript[<<c, p>>]
  BY <1>2, <1>4
<1>7. ASSUME NEW c \in Calls, c # d PROVE Text(c)' = Text(c)
  <2>1. \A p \in Providers : <<c, p>> # k
    BY <1>7 DEF k
  <2>2. latest[c] = None \/ transcript'[<<c, latest[c]>>] = transcript[<<c, latest[c]>>]
    BY <1>1, <1>6, <2>1
  <2>3. latest'[c] = latest[c]
    BY <1>5, <1>7
  <2> QED BY <2>2, <2>3 DEF Text
<1> QED BY <1>1, <1>4, <1>5, <1>6, <1>7, TextsAssumption DEF TextsOK, k

LEMMA TextsStep ==
  ASSUME Types, [Next]_vars
  PROVE  TextsOK' /\ \A c \in Calls, p \in Providers : Lasts(c, p)
<1> DEFINE Goal == TextsOK' /\ \A c \in Calls, p \in Providers : Lasts(c, p)
<1> SUFFICES Goal
  OBVIOUS
<1>0. TextsOK /\ None \notin Providers
  BY TextsAssumption DEF Types, TypeOK
<1>1. CASE UNCHANGED texts
  BY <1>0, <1>1 DEF texts, TextsOK, Text, Lasts
<1>2. ASSUME NEW d \in Calls, CommitCall(d) PROVE Goal
  <2>1. transcript' = transcript /\ latest' = latest /\ received' \in [Calls -> Texts]
    BY <1>0, <1>2, PipelineAssumption DEF CommitCall, TextsOK
  <2>2. ASSUME NEW c \in Calls, NEW p \in Providers PROVE Lasts(c, p)
    BY <1>0, <2>1 DEF Lasts, Text, Coalesce
  <2> QED BY <1>0, <2>1, <2>2 DEF TextsOK
<1>3. ASSUME NEW k \in Keys, OperatorEdits(k) PROVE Goal
  <2>1. PICK d \in Calls, q \in Providers : k = <<d, q>>
    BY DEF Keys
  <2>2. OperatorEdits(<<d, q>>)
    BY <1>3, <2>1
  <2>3. PICK r \in Transcript : transcript' = [transcript EXCEPT ![<<d, q>>] = r]
    BY <2>2, EditedRow
  <2>4. received' = received /\ latest' = [latest EXCEPT ![d] = q]
    BY <2>2, EditedRow
  <2>5. ASSUME NEW c \in Calls, NEW p \in Providers PROVE Lasts(c, p)
    <3>1. CASE <<c, p>> = <<d, q>>
      BY <2>2, <3>1 DEF Lasts
    <3>2. CASE <<c, p>> # <<d, q>>
      <4>1. transcript'[<<c, p>>] = transcript[<<c, p>>]
        BY <2>3, <2>4, <3>2, RowWritten
      <4>2. c = d \/ Text(c)' = Text(c)
        BY <2>3, <2>4, RowWritten
      <4>3. c = d => \E x \in Providers : OperatorEdits(<<c, x>>)
        BY <2>2
      <4> QED BY <4>1, <4>2, <4>3 DEF Lasts
    <3> QED BY <3>1, <3>2
  <2> QED BY <2>3, <2>4, <2>5, RowWritten
<1>4. ASSUME NEW w \in Workers, WriteTranscript(w) PROVE Goal
  <2>1. PICK d \in Calls, q \in Providers, r \in Transcript :
          /\ CallOf(worker[w].job) = d /\ runner.provider = q
          /\ transcript' = [transcript EXCEPT ![<<d, q>>] = r]
          /\ latest' = [latest EXCEPT ![d] = q]
          /\ transcript[<<d, q>>] # None => r.edited = transcript[<<d, q>>].edited
    BY <1>4, WrittenRow
  <2>2. received' = received
    BY <1>4, WrittenRow
  <2>a. transcript' = [transcript EXCEPT ![<<d, q>>] = r] /\ latest' = [latest EXCEPT ![d] = q]
    BY <2>1
  <2>3. /\ TextsOK' /\ transcript'[<<d, q>>] = r /\ r # None /\ latest'[d] = q
        /\ \A c \in Calls, p \in Providers : <<c, p>> # <<d, q>> => transcript'[<<c, p>>] = transcript[<<c, p>>]
        /\ \A c \in Calls \ {d} : Text(c)' = Text(c)
    BY <2>2, <2>a, RowWritten
  <2>4. ASSUME NEW c \in Calls, NEW p \in Providers PROVE Lasts(c, p)
    <3>1. CASE c = d /\ p = q
      <4>1. SUFFICES ASSUME transcript[<<d, q>>] # None, transcript[<<d, q>>].edited # ""
                     PROVE  /\ transcript'[<<d, q>>] # None
                            /\ transcript'[<<d, q>>].edited = transcript[<<d, q>>].edited
                            /\ latest[d] = q => Text(d)' = Text(d)
        BY <3>1 DEF Lasts
      <4>2. transcript'[<<d, q>>].edited = transcript[<<d, q>>].edited
        BY <2>1, <2>3, <4>1
      <4>3. latest'[d] = q /\ q # None
        BY <1>0, <2>3
      <4>4. Text(d)' = transcript[<<d, q>>].edited
        BY <4>1, <4>2, <4>3 DEF Text, Coalesce
      <4>5. latest[d] = q => Text(d) = transcript[<<d, q>>].edited
        BY <4>1, <4>3 DEF Text, Coalesce
      <4> QED BY <2>3, <4>2, <4>4, <4>5
    <3>2. CASE c = d /\ p # q
      <4>1. transcript'[<<c, p>>] = transcript[<<c, p>>]
        BY <2>3, <3>2
      <4>2. WrittenByAnother(c, p)
        BY <1>4, <2>1, <3>2 DEF WrittenByAnother
      <4> QED BY <4>1, <4>2 DEF Lasts
    <3>3. CASE c # d
      <4>1. transcript'[<<c, p>>] = transcript[<<c, p>>]
        BY <2>3, <3>3
      <4>2. Text(c)' = Text(c)
        BY <2>3, <3>3
      <4> QED BY <4>1, <4>2 DEF Lasts
    <3> QED BY <3>1, <3>2, <3>3
  <2> QED BY <2>3, <2>4
<1> HIDE DEF Goal
<1> QED BY <1>1, <1>2, <1>3, <1>4, TextMoves

\* A job appears for a call that is stored, as do its deliveries below.
LEMMA JobAppears ==
  ASSUME Types, [Next]_vars, NEW k \in Keys, ingest[CallOf(k)] = "new", job[k] = None
  PROVE  job'[k] = None
<1>0. /\ job \in [Keys -> Job \cup {None}] /\ Status(k) = "none"
      /\ \A w \in Workers : worker[w].job # k
      /\ \A w \in Workers : worker[w].pc \notin {"off", "idle"} => worker[w].job \in Keys
  BY DEF Types, QueueOK, TranscriptionOK, Roles, Held, Serves, Status, WorkerState
<1>1. CASE UNCHANGED job
  BY <1>1
<1>2. CASE RunnerMove
  <2>1. ASSUME NEW recovers \in BOOLEAN, RunStart(recovers) PROVE job'[k] = None
    BY <1>0, <2>1 DEF RunStart, Abandoned
  <2>2. ASSUME NEW d \in Keys, Due(d), job' = Claimed(d) PROVE job'[k] = None
    BY <1>0, <2>2 DEF Due, Claimed
  <2>3. (\E d \in Keys : ClaimJob(d)) \/ ClaimFails \/ Hand \/ FeedEnds \/ RunEnds \/ RunCrash =>
          UNCHANGED job \/ \E d \in Keys : Due(d) /\ job' = Claimed(d)
    BY DEF ClaimJob, ClaimFails, Hand, FeedEnds, RunEnds, RunCrash
  <2> QED BY <1>1, <1>2, <2>1, <2>2, <2>3 DEF RunnerMove
<1>3. ASSUME NEW w \in Workers, WorkerMove(w) PROVE job'[k] = None
  BY <1>0, <1>3 DEF WorkerMove, Take, Transcribe, RecordFailure, InsertTranscript, InsertFails, RejectJob, CompleteJob,
                    LeaveExpire, LeaveEnqueue, StatementIgnored
<1>4. ASSUME NEW c \in Calls,
             CommitCall(c) \/ EnqueueAlert(c) \/ EnqueueJob(c) \/ SafetyWindowPasses(c) \/ OperatorRetries(c)
      PROVE  job'[k] = None
  <2>1. CASE EnqueueJob(c)
    <3>1. c # CallOf(k)
      BY <2>1 DEF EnqueueJob
    <3>2. UNCHANGED job \/ \E p \in Providers : job' = [job EXCEPT ![<<c, p>>] = NewJob]
      BY <2>1 DEF EnqueueJob, AutoEnqueue, transcriptionVars
    <3>3. \A p \in Providers : <<c, p>> # k
      BY <3>1, KeyFacts
    <3> QED BY <1>0, <3>2, <3>3
  <2>2. CASE CommitCall(c) \/ EnqueueAlert(c) \/ SafetyWindowPasses(c) \/ OperatorRetries(c)
    BY <1>1, <2>2 DEF CommitCall, EnqueueAlert, SafetyWindowPasses, OperatorRetries, transcriptionVars
  <2> QED BY <1>4, <2>1, <2>2
<1>5. CASE UNCHANGED transcriptionVars
  BY <1>1, <1>5 DEF transcriptionVars
<1>6. ASSUME NEW d \in Keys, TimePasses(d) \/ OperatorRequeues(d) \/ OperatorEdits(d) PROVE job'[k] = None
  <2>1. CASE OperatorRequeues(d)
    <3>1. d # k
      BY <2>1 DEF OperatorRequeues
    <3> QED BY <1>0, <2>1, <3>1 DEF OperatorRequeues, Requeue
  <2>2. CASE TimePasses(d)
    BY <1>0, <2>2 DEF TimePasses, BackoffEnds, FifteenMinutesPass
  <2>3. CASE OperatorEdits(d)
    BY <1>1, <2>3 DEF OperatorEdits, transcriptionVars
  <2> QED BY <1>6, <2>1, <2>2, <2>3
<1>7. ASSUME NEW w \in Workers, WriteTranscript(w) \/ ReconcileExpire(w) \/ ReconcileEnqueue(w) PROVE job'[k] = None
  BY <1>3, <1>7 DEF WriteTranscript, ReconcileExpire, ReconcileEnqueue, WorkerMove
<1>8. CASE TranscriptionStep \/ TranscriptionError \/ TranscriptionCrash
  BY <1>2, <1>3, <1>8 DEF TranscriptionStep, TranscriptionError, TranscriptionCrash, RunnerMove, WorkerMove
<1>9. CASE ServerCrash \/ OperatorChangesRule \/ UNCHANGED vars
  BY <1>5, <1>9 DEF ServerCrash, OperatorChangesRule, vars
<1>10. ASSUME NEW n \in Notifiers, NotificationStep(n) \/ NotificationError(n) \/ NotificationCrash(n) PROVE job'[k] = None
  BY <1>5, <1>10 DEF NotificationStep, NotificationError, NotificationCrash
<1> QED BY <1>4, <1>6, <1>7, <1>8, <1>9, <1>10, Zenon DEF Next

\* What a step does to the deliveries, the notifiers apart.
StatementMove(c) == EnqueueNew(c) \/ EnqueueAgain(c) \/ ExpireUnmatched(c) \/ WindowPasses(c)

LEMMA DeliveryMoves ==
  ASSUME Types, [Next]_vars
  PROVE  \/ UNCHANGED notificationVars
         \/ /\ \E c \in Calls : StatementMove(c)
            /\ UNCHANGED <<enabled, disabling, notifier, lock, alerts>>
         \/ \E c \in Calls : OperatorRetries(c)
         \/ OperatorChangesRule
         \/ \E n \in Notifiers : NotificationStep(n) \/ NotificationError(n) \/ NotificationCrash(n)
<1> DEFINE Goal == \/ UNCHANGED notificationVars
                   \/ /\ \E c \in Calls : StatementMove(c)
                      /\ UNCHANGED <<enabled, disabling, notifier, lock, alerts>>
                   \/ \E c \in Calls : OperatorRetries(c)
                   \/ OperatorChangesRule
                   \/ \E n \in Notifiers : NotificationStep(n) \/ NotificationError(n) \/ NotificationCrash(n)
<1> SUFFICES Goal
  OBVIOUS
<1>1. ASSUME NEW c \in Calls, CommitCall(c) \/ EnqueueJob(c) PROVE UNCHANGED notificationVars
  BY <1>1 DEF CommitCall, EnqueueJob
<1>10. ASSUME NEW k \in Keys, TimePasses(k) \/ OperatorRequeues(k) \/ OperatorEdits(k) PROVE UNCHANGED notificationVars
  BY <1>10 DEF TimePasses, OperatorRequeues, OperatorEdits
<1>2. ASSUME NEW c \in Calls, EnqueueAlert(c) PROVE Goal
  <2>1. CASE EnqueueNew(c)
    BY <1>2, <2>1 DEF EnqueueAlert, StatementMove
  <2>2. CASE UNCHANGED delivery
    BY <1>2, <2>2 DEF EnqueueAlert, notificationVars
  <2> QED BY <1>2, <2>1, <2>2 DEF EnqueueAlert
<1>3. ASSUME NEW c \in Calls, SafetyWindowPasses(c) PROVE Goal
  BY <1>3 DEF SafetyWindowPasses, WindowPasses, StatementMove
<1>4. ASSUME NEW w \in Workers, WriteTranscript(w) PROVE UNCHANGED notificationVars
  BY <1>4 DEF WriteTranscript
<1>5. ASSUME NEW w \in Workers, ReconcileExpire(w) \/ ReconcileEnqueue(w) PROVE Goal
  <2>1. worker[w].job \in Keys
    BY <1>5 DEF ReconcileExpire, ReconcileEnqueue, LeaveExpire, LeaveEnqueue, WorkerAt, Types, QueueOK, TranscriptionOK,
                Roles, WorkerState
  <2>2. PICK d \in Calls : d = CallOf(worker[w].job)
    BY <2>1, KeyFacts
  <2> QED BY <1>5, <2>2 DEF ReconcileExpire, ReconcileEnqueue, StatementMove
<1>6. CASE TranscriptionStep \/ TranscriptionError \/ TranscriptionCrash \/ ServerCrash \/ UNCHANGED vars
  BY <1>6 DEF TranscriptionStep, TranscriptionError, TranscriptionCrash, ServerCrash, vars
<1>7. (\E c \in Calls : OperatorRetries(c)) \/ OperatorChangesRule => Goal
  OBVIOUS
<1>8. ASSUME NEW n \in Notifiers, NotificationStep(n) \/ NotificationError(n) \/ NotificationCrash(n) PROVE Goal
  BY <1>8
<1>9. UNCHANGED notificationVars => Goal
  OBVIOUS
<1> HIDE DEF Goal
<1> QED BY <1>1, <1>2, <1>3, <1>4, <1>5, <1>6, <1>7, <1>8, <1>9, <1>10, Zenon DEF Next

LEMMA NotifierStepKeeps ==
  ASSUME Types, \A c \in Calls : Alerted(c), \A c \in Calls : history[c] \subseteq history'[c], NEW n \in Notifiers,
         NotificationStep(n) \/ NotificationError(n) \/ NotificationCrash(n)
  PROVE  NotifyOK' /\ \A c \in Calls : CallKept(c)
<1>0. NotifyOK /\ (\A c \in Calls : Alerted(c) /\ history[c] \subseteq history'[c])
  BY DEF Types
<1>1. CASE \/ SelectBatch(n) \/ AnotherIsActive(n) \/ CheckRule(n) \/ AttemptNotRecorded(n) \/ NotifierEnds(n)
           \/ NotifierCrash(n)
  BY <1>0, <1>1, NotifiersKeep
<1>2. CASE NotifierStart(n, TRUE) \/ NotifierStart(n, FALSE)
  BY <1>0, <1>2, NotifierStartKeeps
<1>3. ASSUME NEW c \in Calls, ClaimDelivery(n, c) PROVE NotifyOK' /\ \A d \in Calls : CallKept(d)
  BY <1>0, <1>3, ClaimDeliveryKeeps
<1>4. CASE RecordAttempt(n)
  BY <1>0, <1>4, RecordAttemptKeeps
<1>5. CASE Send(n, TRUE, TRUE) \/ Send(n, FALSE, FALSE)
  BY <1>0, <1>5, SendKeeps
<1>6. CASE Send(n, TRUE, FALSE) /\ Mark({notifier[n].call}, "reply lost")
  <2>1. notifier[n].call \in Calls
    BY <1>0, <1>6, NotifierStates DEF Send, NotifierAt, Locked
  <2>2. "reply lost" \in history'[notifier[n].call]
    BY <1>6, <2>1 DEF Mark
  <2> QED BY <1>0, <1>6, <2>2, SendKeeps
<1> QED BY <1>1, <1>2, <1>3, <1>4, <1>5, <1>6 DEF NotificationStep, NotificationError, NotificationCrash

LEMMA StatementsKeep ==
  ASSUME Types, \A c \in Calls : Alerted(c), \A c \in Calls : history[c] \subseteq history'[c],
         delivery' \in [Calls -> Delivery \cup {None}], \A c \in Calls : RowKept(c),
         UNCHANGED <<notifier, lock, alerts>>, enabled' \subseteq Switches, disabling' \in BOOLEAN
  PROVE  NotifyOK' /\ \A c \in Calls : CallKept(c)
<1>1. NotifyOK /\ \A c \in Calls : delivery[c] # None => delivery'[c] # None
  BY DEF Types, RowKept
<1>2. NotifyOK'
  BY <1>1, DeliveryFrame
<1>3. ASSUME NEW c \in Calls PROVE CallKept(c)
  <2>1. Alerted(c)'
    BY AlertedFrame
  <2> QED BY <2>1 DEF CallKept, RowKept
<1> QED BY <1>2, <1>3

LEMMA RetryKeeps ==
  ASSUME Types, \A c \in Calls : Alerted(c), \A c \in Calls : history[c] \subseteq history'[c],
         NEW d \in Calls, OperatorRetries(d)
  PROVE  NotifyOK' /\ \A c \in Calls : CallKept(c)
<1>1. PICK refresh \in BOOLEAN : RetryDelivery(d, refresh)
  BY DEF OperatorRetries
<1> DEFINE r == [delivery[d] EXCEPT !.status = "pending", !.cause = "", !.aged = @ /\ ~refresh]
<1>2. delivery' = [delivery EXCEPT ![d] = r] /\ UNCHANGED <<enabled, disabling, notifier, lock, alerts>>
  BY <1>1 DEF RetryDelivery
<1>3. NotifyOK /\ delivery[d] \in Delivery /\ delivery[d] # None
  BY <1>1 DEF RetryDelivery, Types, NotifyOK, NotificationOK
<1>4. r \in Delivery /\ r.status = "pending"
  <2>1. (delivery[d].aged /\ ~refresh) \in BOOLEAN
    BY Zenon
  <2> DEFINE aged == delivery[d].aged /\ ~refresh
  <2>2. r = [delivery[d] EXCEPT !.status = "pending", !.cause = "", !.aged = aged]
    BY Zenon
  <2> HIDE DEF aged, r
  <2>3. aged \in BOOLEAN
    BY <2>1 DEF aged
  <2> QED BY <1>3, <2>2, <2>3 DEF Delivery
<1> HIDE DEF r
<1>5. /\ delivery' \in [Calls -> Delivery \cup {None}]
      /\ delivery'[d] = r /\ r # None
      /\ \A c \in Calls \ {d} : delivery'[c] = delivery[c]
      /\ \A c \in Calls : delivery[c] # None => delivery'[c] # None
  BY <1>2, <1>3, <1>4, DeliveryWrite
<1>6. NotifyOK'
  <2>1. enabled' \subseteq Switches /\ disabling' \in BOOLEAN
    BY <1>2, <1>3 DEF NotifyOK, NotificationOK
  <2> QED BY <1>2, <1>3, <1>5, <2>1, DeliveryFrame
<1>7. "retried" \in history'[d]
  BY DEF OperatorRetries, Mark
<1>8. CallKept(d)
  <2>1. Alerted(d)'
    BY <1>7 DEF Alerted
  <2>2. Good(d)'
    BY <1>4, <1>5 DEF Good
  <2> QED BY <2>1, <2>2 DEF CallKept
<1>9. ASSUME NEW c \in Calls, c # d PROVE CallKept(c)
  <2>1. RowKept(c)
    BY <1>3, <1>5, <1>9, KeepRow
  <2>2. Alerted(c)'
    BY <1>2, <2>1, AlertedFrame
  <2> QED BY <2>1, <2>2 DEF CallKept, RowKept
<1> QED BY <1>6, <1>8, <1>9

\* Whatever happens, an alert is sent once and none that the text asks for is withdrawn.
LEMMA NotifyStep ==
  ASSUME Types, [Next]_vars, \A c \in Calls : Alerted(c)
  PROVE  NotifyOK' /\ \A c \in Calls : CallKept(c)
<1>0. NotifyOK /\ (\A c \in Calls : history[c] \subseteq history'[c])
  BY HistoryGrows DEF Types
<1>00. enabled \subseteq Switches /\ disabling \in BOOLEAN
  BY <1>0 DEF NotifyOK, NotificationOK
<1>1. CASE UNCHANGED notificationVars
  <2>1. delivery' \in [Calls -> Delivery \cup {None}] /\ \A c \in Calls : RowKept(c)
    BY <1>0, <1>1, KeepRow DEF notificationVars, NotifyOK, NotificationOK
  <2> QED BY <1>0, <1>00, <1>1, <2>1, StatementsKeep DEF notificationVars
<1>2. ASSUME NEW d \in Calls, StatementMove(d), UNCHANGED <<enabled, disabling, notifier, lock, alerts>>
      PROVE  NotifyOK' /\ \A c \in Calls : CallKept(c)
  <2>1. delivery' \in [Calls -> Delivery \cup {None}] /\ \A c \in Calls : RowKept(c)
    BY <1>0, <1>2, StatementRows DEF StatementMove
  <2> QED BY <1>0, <1>00, <1>2, <2>1, StatementsKeep
<1>3. CASE OperatorChangesRule
  <2>1. CASE (\E switch \in Switches : Enable(switch)) \/ DisableRule \/ DisableDestination
    <3>1. delivery' \in [Calls -> Delivery \cup {None}] /\ \A c \in Calls : RowKept(c)
      BY <1>0, <2>1, KeepRow DEF Enable, DisableRule, DisableDestination, NotifyOK, NotificationOK
    <3>2. UNCHANGED <<notifier, lock, alerts>> /\ enabled' \subseteq Switches /\ disabling' \in BOOLEAN
      BY <1>00, <2>1 DEF Enable, DisableRule, DisableDestination
    <3> QED BY <1>0, <3>1, <3>2, StatementsKeep
  <2>2. CASE ExpireDisabled
    <3> DEFINE P == {c \in Calls : In(c, {"pending", "failed"})}
    <3>1. delivery' = [c \in Calls |-> IF c \in P THEN Expired(c, "rule") ELSE delivery[c]]
      BY <2>2 DEF ExpireDisabled
    <3>2. P \in SUBSET Calls /\ \A c \in P : In(c, {"pending", "failed"})
      OBVIOUS
    <3> HIDE DEF P
    <3>3. delivery' \in [Calls -> Delivery \cup {None}] /\ \A c \in Calls : RowKept(c)
      BY <1>0, <3>1, <3>2, ExpireRows
    <3>4. UNCHANGED <<notifier, lock, alerts>> /\ enabled' \subseteq Switches /\ disabling' \in BOOLEAN
      BY <1>00, <2>2 DEF ExpireDisabled
    <3> QED BY <1>0, <3>3, <3>4, StatementsKeep
  <2> QED BY <1>3, <2>1, <2>2 DEF OperatorChangesRule
<1>4. ASSUME NEW d \in Calls, OperatorRetries(d) PROVE NotifyOK' /\ \A c \in Calls : CallKept(c)
  BY <1>0, <1>4, RetryKeeps
<1>5. ASSUME NEW n \in Notifiers, NotificationStep(n) \/ NotificationError(n) \/ NotificationCrash(n)
      PROVE  NotifyOK' /\ \A c \in Calls : CallKept(c)
  BY <1>0, <1>5, NotifierStepKeeps
<1> QED BY <1>1, <1>2, <1>3, <1>4, <1>5, DeliveryMoves

\* Only the two enqueue statements create a delivery.
LEMMA DeliveryAppears ==
  ASSUME Types, [Next]_vars, NEW c \in Calls, delivery[c] = None
  PROVE  \/ delivery'[c] = None
         \/ EnqueueAlert(c) /\ EnqueueNew(c)
         \/ \E w \in Workers : ReconcileEnqueue(w) /\ CallOf(worker[w].job) = c
<1> DEFINE Goal == \/ delivery'[c] = None
                   \/ EnqueueAlert(c) /\ EnqueueNew(c)
                   \/ \E w \in Workers : ReconcileEnqueue(w) /\ CallOf(worker[w].job) = c
<1> SUFFICES Goal
  OBVIOUS
<1>0. /\ delivery \in [Calls -> Delivery \cup {None}] /\ NotifyOK
      /\ \A s : ~In(c, s)
      /\ \A n \in Notifiers : notifier[n].call # c
      /\ \A w \in Workers : worker[w].pc \notin {"off", "idle"} => worker[w].job \in Keys
  BY DeliveryAssumption DEF Types, QueueOK, TranscriptionOK, Roles, WorkerState, NotifyOK, NotificationOK, In
<1>1. CASE UNCHANGED delivery
  BY <1>1
<1>2. ASSUME NEW d \in Calls, EnqueueAlert(d) PROVE Goal
  <2>1. CASE d = c
    BY <1>1, <1>2, <2>1 DEF EnqueueAlert
  <2>2. CASE d # c
    BY <1>0, <1>2, <2>2 DEF EnqueueAlert, EnqueueNew
  <2> QED BY <2>1, <2>2
<1>3. ASSUME NEW d \in Calls, SafetyWindowPasses(d) PROVE Goal
  BY <1>0, <1>3 DEF SafetyWindowPasses, WindowPasses
<1>4. ASSUME NEW d \in Calls, OperatorRetries(d) PROVE Goal
  BY <1>0, <1>4 DEF OperatorRetries, RetryDelivery
<1>5. ASSUME NEW d \in Calls, CommitCall(d) \/ EnqueueJob(d) PROVE UNCHANGED delivery
  BY <1>5 DEF CommitCall, EnqueueJob, notificationVars
<1>11. ASSUME NEW k \in Keys, TimePasses(k) \/ OperatorRequeues(k) \/ OperatorEdits(k) PROVE UNCHANGED delivery
  BY <1>11 DEF TimePasses, OperatorRequeues, OperatorEdits, notificationVars
<1>6. ASSUME NEW w \in Workers, WriteTranscript(w) \/ ReconcileExpire(w) \/ ReconcileEnqueue(w) PROVE Goal
  <2>1. CASE WriteTranscript(w)
    BY <1>1, <2>1 DEF WriteTranscript, notificationVars
  <2>2. CASE ReconcileExpire(w)
    <3>1. worker[w].job \in Keys
      BY <1>0, <2>2 DEF ReconcileExpire, LeaveExpire, WorkerAt
    <3>2. PICK d \in Calls : d = CallOf(worker[w].job)
      BY <3>1, KeyFacts
    <3>3. d # c \/ ~Unmatched(d)
      BY <1>0 DEF Unmatched
    <3>4. ExpireUnmatched(d)
      BY <2>2, <3>2 DEF ReconcileExpire
    <3> QED BY <1>0, <3>3, <3>4 DEF ExpireUnmatched
  <2>3. CASE ReconcileEnqueue(w)
    <3>1. CASE CallOf(worker[w].job) = c
      BY <2>3, <3>1
    <3>2. CASE CallOf(worker[w].job) # c
      <4>1. PICK d : d = CallOf(worker[w].job)
        OBVIOUS
      <4>2. EnqueueAgain(d) /\ d # c
        BY <2>3, <3>2, <4>1 DEF ReconcileEnqueue
      <4> QED BY <1>0, <4>2 DEF EnqueueAgain
    <3> QED BY <3>1, <3>2
  <2> QED BY <1>6, <2>1, <2>2, <2>3
<1>7. CASE TranscriptionStep \/ TranscriptionError \/ TranscriptionCrash \/ ServerCrash \/ UNCHANGED vars
  BY <1>1, <1>7 DEF TranscriptionStep, TranscriptionError, TranscriptionCrash, ServerCrash, vars, notificationVars
<1>8. CASE OperatorChangesRule
  BY <1>0, <1>8 DEF OperatorChangesRule, Enable, DisableRule, DisableDestination, ExpireDisabled
<1>9. ASSUME NEW n \in Notifiers, NotificationStep(n) \/ NotificationError(n) \/ NotificationCrash(n) PROVE Goal
  <2>1. CASE \E expires \in BOOLEAN : NotifierStart(n, expires)
    BY <1>0, <2>1 DEF NotifierStart, TooOld
  <2>2. ASSUME NEW d \in Calls, ClaimDelivery(n, d) PROVE Goal
    BY <1>0, <2>2 DEF ClaimDelivery, Sendable
  <2>3. CASE RecordAttempt(n)
    BY <1>0, <2>3 DEF RecordAttempt
  <2>4. ASSUME \/ SelectBatch(n) \/ AnotherIsActive(n) \/ CheckRule(n) \/ AttemptNotRecorded(n) \/ NotifierEnds(n)
               \/ NotifierCrash(n) \/ \E got \in BOOLEAN, confirmed \in BOOLEAN : Send(n, got, confirmed)
        PROVE  UNCHANGED delivery
    BY <2>4 DEF SelectBatch, AnotherIsActive, CheckRule, AttemptNotRecorded, NotifierEnds, NotifierCrash, Send
  <2> HIDE DEF Goal
  <2>5. UNCHANGED delivery => Goal
    BY <1>1
  <2> QED BY <1>9, <2>1, <2>2, <2>3, <2>4, <2>5 DEF NotificationStep, NotificationError, NotificationCrash
<1>10. UNCHANGED delivery => Goal
  BY <1>1
<1> HIDE DEF Goal
<1> QED BY <1>2, <1>3, <1>4, <1>5, <1>6, <1>7, <1>8, <1>9, <1>10, <1>11, Zenon DEF Next

\* A call is stored once, and the request that stored it goes on.
LEMMA IngestMoves ==
  ASSUME TypeOK, [Next]_vars
  PROVE  \/ UNCHANGED ingest
         \/ \E c \in Calls : CommitCall(c) \/ EnqueueAlert(c) \/ EnqueueJob(c)
         \/ ServerCrash
<1>1. ASSUME NEW c \in Calls, SafetyWindowPasses(c) \/ OperatorRetries(c) PROVE UNCHANGED ingest
  BY <1>1 DEF SafetyWindowPasses, OperatorRetries, pipeline
<1>5. ASSUME NEW k \in Keys, TimePasses(k) \/ OperatorRequeues(k) \/ OperatorEdits(k) PROVE UNCHANGED ingest
  BY <1>5 DEF TimePasses, OperatorRequeues, OperatorEdits, pipeline
<1>2. ASSUME NEW w \in Workers, WriteTranscript(w) \/ ReconcileExpire(w) \/ ReconcileEnqueue(w) PROVE UNCHANGED ingest
  BY <1>2 DEF WriteTranscript, ReconcileExpire, ReconcileEnqueue, pipeline
<1>3. ASSUME TranscriptionStep \/ TranscriptionError \/ TranscriptionCrash \/ OperatorChangesRule \/ UNCHANGED vars
      PROVE  UNCHANGED ingest
  BY <1>3 DEF TranscriptionStep, TranscriptionError, TranscriptionCrash, OperatorChangesRule, vars, pipeline
<1>4. ASSUME NEW n \in Notifiers, NotificationStep(n) \/ NotificationError(n) \/ NotificationCrash(n) PROVE UNCHANGED ingest
  BY <1>4 DEF NotificationStep, NotificationError, NotificationCrash, pipeline
<1> QED BY <1>1, <1>2, <1>3, <1>4, <1>5, Zenon DEF Next

LEMMA IngestStep ==
  ASSUME TypeOK, [Next]_vars
  PROVE  /\ ingest' \in [Calls -> {"new", "notify", "queue", "done"}]
         /\ \A c \in Calls : ingest'[c] = "new" => ingest[c] = "new"
<1>0. ingest \in [Calls -> {"new", "notify", "queue", "done"}]
  BY DEF TypeOK
<1> QED BY <1>0, IngestMoves DEF CommitCall, EnqueueAlert, EnqueueJob, ServerCrash

LEMMA UpsetsStep == ASSUME TypeOK, [Next]_vars PROVE upsets' \in 0 .. MaxUpsets
<1>0. MaxUpsets \in Nat /\ upsets \in 0 .. MaxUpsets
  BY PipelineAssumption DEF TypeOK
<1>1. Upset => upsets' \in 0 .. MaxUpsets
  BY <1>0 DEF Upset
<1>2. ASSUME NEW c \in Calls,
             CommitCall(c) \/ EnqueueAlert(c) \/ EnqueueJob(c) \/ SafetyWindowPasses(c) \/ OperatorRetries(c)
      PROVE  UNCHANGED upsets \/ Upset
  BY <1>2 DEF CommitCall, EnqueueAlert, EnqueueJob, SafetyWindowPasses, OperatorRetries, Operate
<1>7. ASSUME NEW k \in Keys, TimePasses(k) \/ OperatorRequeues(k) \/ OperatorEdits(k)
      PROVE  UNCHANGED upsets \/ Upset
  BY <1>7 DEF TimePasses, OperatorRequeues, OperatorEdits, Operate
<1>3. ASSUME NEW w \in Workers, WriteTranscript(w) \/ ReconcileExpire(w) \/ ReconcileEnqueue(w) PROVE UNCHANGED upsets
  BY <1>3 DEF WriteTranscript, ReconcileExpire, ReconcileEnqueue
<1>4. ASSUME TranscriptionStep \/ TranscriptionError \/ TranscriptionCrash \/ ServerCrash \/ OperatorChangesRule \/ UNCHANGED vars
      PROVE  UNCHANGED upsets \/ Upset
  BY <1>4 DEF TranscriptionStep, TranscriptionError, TranscriptionCrash, ServerCrash, OperatorChangesRule, Operate, vars
<1>5. ASSUME NEW n \in Notifiers, NotificationStep(n) \/ NotificationError(n) \/ NotificationCrash(n)
      PROVE  UNCHANGED upsets \/ Upset
  BY <1>5 DEF NotificationStep, NotificationError, NotificationCrash
<1>6. UNCHANGED upsets \/ Upset
  BY <1>2, <1>3, <1>4, <1>5, <1>7, Zenon DEF Next
<1> QED BY <1>0, <1>1, <1>6

LEMMA TypesStep ==
  ASSUME Types, [Next]_vars, \A c \in Calls : Alerted(c)
  PROVE  Types'
<1>0. TypeOK
  BY DEF Types
<1>1. TextsOK' /\ QueueOK' /\ NotifyOK'
  BY TextsStep, QueueStep, NotifyStep
<1>2. TypeOK'
  BY <1>0, <1>1, IngestStep, UpsetsStep, HistoryGrows, RequeuedGrows DEF TypeOK, QueueOK, NotifyOK
<1>3. ASSUME NEW c \in Calls PROVE Stored(c)'
  <2> SUFFICES ASSUME ingest'[c] = "new"
               PROVE  delivery'[c] = None /\ \A k \in Keys : CallOf(k) = c => job'[k] = None
    BY DEF Stored, CallOf
  <2>1. /\ ingest[c] = "new" /\ delivery[c] = None
        /\ \A k \in Keys : CallOf(k) = c => job[k] = None
    BY <1>0, IngestStep DEF Types, Stored
  <2>2. \A k \in Keys : CallOf(k) = c => job'[k] = None
    BY <2>1, JobAppears
  <2>3. ~\E w \in Workers : ReconcileEnqueue(w) /\ CallOf(worker[w].job) = c
    <3> SUFFICES ASSUME NEW w \in Workers, worker[w].pc = "enqueue", CallOf(worker[w].job) = c PROVE FALSE
      BY DEF ReconcileEnqueue, LeaveEnqueue, WorkerAt
    <3>1. worker[w].job \in Keys /\ Held(worker[w].job)
      BY DEF Types, QueueOK, TranscriptionOK, Roles, WorkerState, Held, Serves
    <3>2. job[worker[w].job] # None
      BY <3>1 DEF Types, QueueOK, Roles
    <3> QED BY <2>1, <3>1, <3>2
  <2>4. ~EnqueueAlert(c)
    BY <2>1 DEF EnqueueAlert
  <2> QED BY <2>1, <2>2, <2>3, <2>4, DeliveryAppears
<1> QED BY <1>1, <1>2, <1>3 DEF Types

-------------------------------------------------------------------------------
(* A text that matches has its alert.                                            *)

\* A worker has written the call's text and has not reconciled its alert.
Busy(c) ==
  \E w \in Workers : CallOf(worker[w].job) = c /\ worker[w].pc \in {"complete", "expire", "enqueue"}

MatchInv(c) ==
  history[c] \cap {"lost", "edited", "rule"} = {} =>
    /\ Active
    /\ Matches(c) /\ ~Busy(c) => Good(c) \/ (delivery[c] = None /\ ingest[c] \in {"new", "notify"})

LEMMA WorkerMoves ==
  ASSUME [Next]_vars
  PROVE  \/ UNCHANGED worker
         \/ TranscriptionStep \/ TranscriptionError \/ TranscriptionCrash
         \/ \E w \in Workers : WriteTranscript(w) \/ ReconcileExpire(w) \/ ReconcileEnqueue(w)
<1>1. ASSUME NEW c \in Calls, CommitCall(c) \/ EnqueueAlert(c) \/ SafetyWindowPasses(c) \/ OperatorRetries(c)
      PROVE  UNCHANGED worker
  BY <1>1 DEF CommitCall, EnqueueAlert, SafetyWindowPasses, OperatorRetries, transcriptionVars
<1>5. ASSUME NEW k \in Keys, TimePasses(k) \/ OperatorRequeues(k) \/ OperatorEdits(k) PROVE UNCHANGED worker
  BY <1>5 DEF TimePasses, OperatorRequeues, OperatorEdits, BackoffEnds, FifteenMinutesPass, Requeue, transcriptionVars
<1>2. ASSUME NEW c \in Calls, EnqueueJob(c) PROVE UNCHANGED worker
  BY <1>2 DEF EnqueueJob, AutoEnqueue, transcriptionVars
<1>3. ASSUME NEW n \in Notifiers, NotificationStep(n) \/ NotificationError(n) \/ NotificationCrash(n) PROVE UNCHANGED worker
  BY <1>3 DEF NotificationStep, NotificationError, NotificationCrash, transcriptionVars
<1>4. ServerCrash \/ OperatorChangesRule \/ UNCHANGED vars => UNCHANGED worker
  BY DEF ServerCrash, OperatorChangesRule, vars, transcriptionVars
<1> QED BY <1>1, <1>2, <1>3, <1>4, <1>5, Zenon DEF Next

\* A worker leaves the call with its alert reconciled, or the loss is known.
LEMMA BusyEnds ==
  ASSUME Types, [Next]_vars, NEW c \in Calls, Busy(c)
  PROVE  \/ Busy(c)' \/ "lost" \in history'[c]
         \/ \E w \in Workers : ReconcileEnqueue(w) /\ CallOf(worker[w].job) = c
<1> DEFINE Goal == \/ Busy(c)' \/ "lost" \in history'[c]
                   \/ \E w \in Workers : ReconcileEnqueue(w) /\ CallOf(worker[w].job) = c
<1> SUFFICES Goal
  OBVIOUS
<1>0. PICK v \in Workers : CallOf(worker[v].job) = c /\ worker[v].pc \in {"complete", "expire", "enqueue"}
  BY DEF Busy
<1>1. worker \in [Workers -> WorkerState] /\ runner.pc # "down"
  BY <1>0 DEF Types, QueueOK, TranscriptionOK, Roles
<1>2. CASE CallOf(worker'[v].job) = c /\ worker'[v].pc \in {"complete", "expire", "enqueue"}
  BY <1>2 DEF Busy, CallOf
<1>3. ASSUME NEW w \in Workers, NEW s, worker' = [worker EXCEPT ![w] = s],
             w = v => CallOf(s.job) = c /\ s.pc \in {"complete", "expire", "enqueue"}
      PROVE  Goal
  <2>1. CallOf(worker'[v].job) = c /\ worker'[v].pc \in {"complete", "expire", "enqueue"}
    BY <1>0, <1>1, <1>3
  <2> QED BY <1>2, <2>1
<1>4. ASSUME NEW w \in Workers, NEW pc \in {"complete", "expire", "enqueue"}, WorkerGoto(w, pc) PROVE Goal
  <2>1. worker' = [worker EXCEPT ![w] = [worker[w] EXCEPT !.pc = pc]]
    BY <1>4 DEF WorkerGoto
  <2>2. [worker[w] EXCEPT !.pc = pc].job = worker[w].job /\ [worker[w] EXCEPT !.pc = pc].pc = pc
    BY <1>1 DEF WorkerState
  <2> QED BY <1>0, <1>3, <2>1, <2>2
<1>5. ASSUME NEW w \in Workers, w # v,
             \/ Take(w) \/ Transcribe(w) \/ RecordFailure(w) \/ RejectJob(w) \/ InsertFails(w) \/ StatementIgnored(w)
             \/ LeaveEnqueue(w)
      PROVE  Goal
  <2>1. worker'[v] = worker[v]
    BY <1>1, <1>5 DEF Take, Transcribe, RecordFailure, RejectJob, InsertFails, StatementIgnored, LeaveEnqueue,
                      WorkerGoto, WorkerDone
  <2> QED BY <1>0, <1>2, <2>1
<1>6. ~Take(v) /\ ~Transcribe(v) /\ ~RecordFailure(v) /\ ~RejectJob(v) /\ ~InsertFails(v)
  BY <1>0 DEF Take, Transcribe, RecordFailure, RejectJob, InsertFails, WorkerAt
<1>7. CASE UNCHANGED worker
  BY <1>0, <1>2, <1>7
<1>8. CASE TranscriptionStep
  <2>1. ~RunStart(TRUE) /\ ~RunEnds
    BY <1>0, <1>1 DEF RunStart, RunEnds
  <2>2. Hand \/ FeedEnds \/ (\E d \in Keys : ClaimJob(d)) => UNCHANGED worker
    BY DEF Hand, FeedEnds, ClaimJob
  <2>3. ASSUME NEW w \in Workers, CompleteJob(w) PROVE Goal
    BY <1>4, <2>3 DEF CompleteJob
  <2>4. ASSUME NEW w \in Workers, Take(w) \/ Transcribe(w) \/ RecordFailure(w) \/ RejectJob(w) PROVE Goal
    BY <1>5, <1>6, <2>4
  <2> HIDE DEF Goal
  <2>5. UNCHANGED worker => Goal
    BY <1>7
  <2> QED BY <1>8, <2>1, <2>2, <2>3, <2>4, <2>5, Zenon DEF TranscriptionStep
<1>9. CASE TranscriptionError
  <2>1. ~RunStart(FALSE) /\ (ClaimFails => UNCHANGED worker)
    BY <1>1 DEF RunStart, ClaimFails
  <2>2. ASSUME NEW w \in Workers, InsertFails(w) PROVE Goal
    BY <1>5, <1>6, <2>2
  <2>3. ASSUME NEW w \in Workers, StatementIgnored(w),
               Mark(IF WorkerAt(w, "enqueue") THEN {CallOf(worker[w].job)} ELSE {}, "lost")
        PROVE  Goal
    <3>1. CASE w # v
      BY <1>5, <2>3, <3>1
    <3>2. CASE w = v /\ worker[v].pc = "enqueue"
      <4>1. Mark({c}, "lost")
        BY <1>0, <2>3, <3>2 DEF WorkerAt
      <4>2. "lost" \in history'[c]
        BY <4>1 DEF Mark
      <4> QED BY <4>2
    <3>3. CASE w = v /\ worker[v].pc # "enqueue"
      <4>1. WorkerGoto(v, "expire") \/ WorkerGoto(v, "enqueue")
        BY <1>0, <2>3, <3>3 DEF StatementIgnored, WorkerAt
      <4> QED BY <1>4, <4>1
    <3> QED BY <3>1, <3>2, <3>3
  <2> HIDE DEF Goal
  <2>4. UNCHANGED worker => Goal
    BY <1>7
  <2> QED BY <1>9, <2>1, <2>2, <2>3, <2>4, Zenon DEF TranscriptionError
<1>10. CASE TranscriptionCrash
  BY <1>0, <1>10 DEF TranscriptionCrash, Mark
<1>11. ASSUME NEW w \in Workers, WriteTranscript(w) \/ ReconcileExpire(w) \/ ReconcileEnqueue(w) PROVE Goal
  <2>1. CASE WriteTranscript(w)
    BY <1>4, <2>1 DEF WriteTranscript, InsertTranscript
  <2>2. CASE ReconcileExpire(w)
    BY <1>4, <2>2 DEF ReconcileExpire, LeaveExpire
  <2>3. CASE ReconcileEnqueue(w) /\ w # v
    BY <1>5, <2>3 DEF ReconcileEnqueue
  <2>4. CASE ReconcileEnqueue(w) /\ w = v
    BY <1>0, <2>4
  <2> QED BY <1>11, <2>1, <2>2, <2>3, <2>4
<1> HIDE DEF Goal
<1> QED BY <1>7, <1>8, <1>9, <1>10, <1>11, WorkerMoves, Zenon

\* The text of a call changes when it is stored, transcribed or edited.
LEMMA TextChanges ==
  ASSUME Types, [Next]_vars, NEW c \in Calls
  PROVE  Text(c)' = Text(c) \/ CommitCall(c) \/ (\E q \in Providers : OperatorEdits(<<c, q>>)) \/ Busy(c)'
<1>0. received \in [Calls -> Texts] /\ worker \in [Workers -> WorkerState]
  BY DEF Types, TypeOK, TextsOK, QueueOK, TranscriptionOK
<1>1. CASE UNCHANGED texts
  BY <1>0, <1>1 DEF texts, Text
<1>2. ASSUME NEW d \in Calls, d # c, CommitCall(d) PROVE Text(c)' = Text(c)
  <2>1. received'[c] = received[c] /\ transcript' = transcript /\ latest' = latest
    BY <1>0, <1>2 DEF CommitCall
  <2> QED BY <2>1 DEF Text
<1>3. ASSUME NEW k \in Keys, OperatorEdits(k)
      PROVE  Text(c)' = Text(c) \/ \E q \in Providers : OperatorEdits(<<c, q>>)
  <2>1. PICK d \in Calls, q \in Providers : k = <<d, q>>
    BY DEF Keys
  <2>2. OperatorEdits(<<d, q>>)
    BY <1>3, <2>1
  <2>3. PICK r \in Transcript : transcript' = [transcript EXCEPT ![<<d, q>>] = r]
    BY <2>2, EditedRow
  <2>4. received' = received /\ latest' = [latest EXCEPT ![d] = q]
    BY <2>2, EditedRow
  <2>5. c = d \/ Text(c)' = Text(c)
    BY <2>3, <2>4, RowWritten
  <2> QED BY <2>2, <2>5
<1>4. ASSUME NEW w \in Workers, WriteTranscript(w) PROVE Text(c)' = Text(c) \/ Busy(c)'
  <2>1. PICK d \in Calls, q \in Providers, r \in Transcript :
          /\ CallOf(worker[w].job) = d /\ runner.provider = q
          /\ transcript' = [transcript EXCEPT ![<<d, q>>] = r]
          /\ latest' = [latest EXCEPT ![d] = q]
          /\ transcript[<<d, q>>] # None => r.edited = transcript[<<d, q>>].edited
    BY <1>4, WrittenRow
  <2>2. received' = received
    BY <1>4, WrittenRow
  <2>3. CASE d = c
    <3>1. worker'[w] = [worker[w] EXCEPT !.pc = "complete"]
      BY <1>0, <1>4 DEF WriteTranscript, InsertTranscript, WorkerGoto
    <3>2. worker'[w].job = worker[w].job /\ worker'[w].pc = "complete"
      BY <1>0, <3>1 DEF WorkerState
    <3>3. CallOf(worker'[w].job) = c
      BY <2>1, <2>3, <3>2
    <3> QED BY <3>2, <3>3 DEF Busy, CallOf
  <2>4. CASE d # c
    BY <2>1, <2>2, <2>4, RowWritten
  <2> QED BY <2>3, <2>4
<1> QED BY <1>1, <1>2, <1>3, <1>4, TextMoves

LEMMA RuleChanges ==
  ASSUME Types, [Next]_vars, NEW c \in Calls
  PROVE  enabled' = enabled \/ "rule" \in history'[c]
<1>1. UNCHANGED notificationVars => enabled' = enabled
  BY DEF notificationVars
<1>2. (\E d \in Calls : OperatorRetries(d)) => enabled' = enabled
  BY DEF OperatorRetries, RetryDelivery
<1>3. OperatorChangesRule => "rule" \in history'[c]
  BY DEF OperatorChangesRule, Mark
<1>4. ASSUME NEW n \in Notifiers, NotificationStep(n) \/ NotificationError(n) \/ NotificationCrash(n)
      PROVE  enabled' = enabled
  BY <1>4 DEF NotificationStep, NotificationError, NotificationCrash, NotifierStart, SelectBatch, AnotherIsActive,
              NotifierEnds, ClaimDelivery, CheckRule, Send, RecordAttempt, AttemptNotRecorded, NotifierCrash
<1>5. enabled' = enabled => enabled' = enabled
  OBVIOUS
<1> QED BY <1>1, <1>2, <1>3, <1>4, DeliveryMoves

\* What the two enqueue statements are for.
LEMMA EnqueueIsGood ==
  ASSUME Types, NEW c \in Calls, Active, Matches(c), EnqueueAgain(c) \/ (EnqueueNew(c) /\ delivery[c] = None)
  PROVE  Good(c)'
<1>0. delivery \in [Calls -> Delivery \cup {None}] /\ NewDelivery \in Delivery
  BY NewRow DEF Types, NotifyOK, NotificationOK
<1>1. CASE delivery[c] = None
  <2>1. delivery' = [delivery EXCEPT ![c] = NewDelivery]
    BY <1>1 DEF EnqueueAgain, EnqueueNew
  <2>2. delivery'[c] = NewDelivery /\ delivery'[c] # None
    BY <1>0, <2>1, DeliveryAssumption
  <2>3. NewDelivery.status = "pending"
    BY DEF NewDelivery
  <2>4. delivery'[c].status # "expired"
    BY <2>2, <2>3
  <2> QED BY <2>2, <2>4, Zenon DEF Good
<1>2. CASE delivery[c] # None /\ In(c, Requeueable)
  <2> DEFINE r == [delivery[c] EXCEPT !.status = "pending", !.aged = FALSE, !.cause = ""]
  <2>1. delivery' = [delivery EXCEPT ![c] = r]
    BY <1>2 DEF EnqueueAgain
  <2>2. r \in Delivery /\ r.status = "pending"
    BY <1>0, <1>2 DEF Delivery
  <2> HIDE DEF r
  <2>3. delivery'[c] = r /\ r # None
    BY <1>0, <2>1, <2>2, DeliveryAssumption
  <2> QED BY <2>2, <2>3 DEF Good
<1>3. CASE delivery[c] # None /\ ~In(c, Requeueable)
  BY <1>3 DEF EnqueueAgain, In, Requeueable, Good
<1> QED BY <1>1, <1>2, <1>3

LEMMA MatchStep ==
  ASSUME Types, [Next]_vars, \A c \in Calls : Alerted(c), NEW c \in Calls, MatchInv(c)
  PROVE  MatchInv(c)'
<1> SUFFICES ASSUME history'[c] \cap {"lost", "edited", "rule"} = {}
             PROVE  /\ Active'
                    /\ Matches(c)' /\ ~Busy(c)' =>
                         Good(c)' \/ (delivery'[c] = None /\ ingest'[c] \in {"new", "notify"})
  BY DEF MatchInv, Active
<1>1. history[c] \cap {"lost", "edited", "rule"} = {}
  BY HistoryGrows DEF Types
<1>2. Active /\ Active'
  BY <1>1, RuleChanges DEF MatchInv, Active
<1> SUFFICES ASSUME Matches(c)', ~Busy(c)'
             PROVE  Good(c)' \/ (delivery'[c] = None /\ ingest'[c] \in {"new", "notify"})
  BY <1>2
<1>3. TypeOK /\ Stored(c) /\ ingest[c] \in {"new", "notify", "queue", "done"} /\ "lost" \notin history'[c]
  BY DEF Types, TypeOK
<1>4. CASE Busy(c)
  <2>1. PICK w \in Workers : ReconcileEnqueue(w) /\ CallOf(worker[w].job) = c
    BY <1>3, <1>4, BusyEnds
  <2>2. EnqueueAgain(c) /\ UNCHANGED texts
    BY <2>1 DEF ReconcileEnqueue
  <2>3. Matches(c)
    BY <2>2 DEF Matches, Text, texts
  <2> QED BY <1>2, <2>2, <2>3, EnqueueIsGood
<1>5. CASE CommitCall(c)
  BY <1>3, <1>5 DEF CommitCall, notificationVars, Stored, TypeOK
<1>6. CASE ~Busy(c) /\ ~CommitCall(c)
  <2>1. ~\E q \in Providers : OperatorEdits(<<c, q>>)
    BY KeyFacts DEF OperatorEdits, Mark
  <2>2. Matches(c)
    BY <1>6, <2>1, TextChanges DEF Matches
  <2>3. CASE Good(c)
    BY <2>2, <2>3, NotifyStep DEF CallKept
  <2>4. CASE delivery[c] = None /\ ingest[c] \in {"new", "notify"}
    <3>1. ~\E w \in Workers : ReconcileEnqueue(w) /\ CallOf(worker[w].job) = c
      BY <1>6 DEF ReconcileEnqueue, LeaveEnqueue, WorkerAt, Busy
    <3>2. CASE EnqueueAlert(c)
      <4>1. EnqueueNew(c)
        BY <1>3, <3>2 DEF EnqueueAlert, Mark
      <4> QED BY <1>2, <2>2, <2>4, <4>1, EnqueueIsGood
    <3>3. CASE ~EnqueueAlert(c)
      <4>1. delivery'[c] = None
        BY <2>4, <3>1, <3>3, DeliveryAppears
      <4>2. CASE UNCHANGED ingest
        BY <2>4, <4>1, <4>2
      <4>3. ASSUME NEW d \in Calls, CommitCall(d) \/ EnqueueAlert(d) \/ EnqueueJob(d) PROVE ingest'[c] = ingest[c]
        BY <1>3, <1>6, <2>4, <3>3, <4>3 DEF CommitCall, EnqueueAlert, EnqueueJob, TypeOK
      <4>4. CASE ServerCrash
        <5>1. ingest[c] # "notify"
          BY <1>3, <4>4 DEF ServerCrash, Mark
        <5> QED BY <2>4, <4>1, <4>4, <5>1 DEF ServerCrash
      <4> QED BY <1>3, <2>4, <4>1, <4>2, <4>3, <4>4, IngestMoves
    <3> QED BY <3>2, <3>3
  <2> QED BY <1>1, <1>6, <2>2, <2>3, <2>4 DEF MatchInv
<1> QED BY <1>4, <1>5, <1>6

-------------------------------------------------------------------------------
(* The inductive invariant and what follows from it.                             *)

Inv == /\ Types
       /\ \A k \in Keys : Single(k)
       /\ \A c \in Calls : Alerted(c) /\ MatchInv(c)

LEMMA NoQueue == Init => queue \in Seq(Keys) /\ Len(queue) = 0 /\ DOMAIN queue = {}
<1> SUFFICES ASSUME Init PROVE queue \in Seq(Keys) /\ Len(queue) = 0 /\ DOMAIN queue = {}
  OBVIOUS
<1>1. queue = <<>>
  BY DEF Init, TranscriptionInit
<1>2. queue \in Seq(Keys) /\ Len(queue) = 0
  BY <1>1
<1>3. DOMAIN queue = 1 .. 0
  BY <1>2, LenProperties
<1> QED BY <1>2, <1>3

LEMMA InitHolds == Init => Inv
<1> SUFFICES ASSUME Init PROVE Inv
  OBVIOUS
<1>1. TextsOK
  BY DEF Init, TextsOK, Texts
<1>2. QueueOK
  <2>1. \A w \in Workers : worker[w] = [pc |-> "off", job |-> None, result |-> None]
    BY DEF Init, TranscriptionInit, Waiting
  <2>2. worker \in [Workers -> WorkerState]
    BY DEF Init, TranscriptionInit, Waiting, WorkerState
  <2>3. job \in [Keys -> Job \cup {None}] /\ runner \in Runner /\ runner.pc = "down" /\ runner.hand = None
    BY DEF Init, TranscriptionInit, Down, Runner
  <2>4. queue \in Seq(Keys) /\ Len(queue) = 0 /\ DOMAIN queue = {}
    BY NoQueue
  <2>5. Capacity \in Nat /\ 0 <= Capacity
    BY TranscriptionAssumption, FS_CardinalityType DEF Capacity
  <2>6. \A k \in Keys : ~Held(k)
    BY <2>1, <2>3, <2>4, TranscriptionAssumption DEF Held, Serves
  <2>7. TranscriptionOK
    BY <2>2, <2>3, <2>4, <2>5 DEF TranscriptionOK
  <2>8. queue = <<>>
    BY DEF Init, TranscriptionInit
  <2> QED BY <2>1, <2>3, <2>6, <2>7, <2>8 DEF QueueOK, Roles
<1>3. NotifyOK
  BY DEF Init, NotificationInit, NotifyOK, NotificationOK, Notifier, Stopped, Locked
<1>4. TypeOK
  <2>1. ingest \in [Calls -> {"new", "notify", "queue", "done"}] /\ history \in [Calls -> SUBSET Marks] /\ requeued \subseteq Keys
    BY DEF Init
  <2>2. MaxUpsets \in Nat /\ upsets = 0
    BY PipelineAssumption DEF Init
  <2>3. upsets \in 0 .. MaxUpsets
    BY <2>2
  <2> QED BY <1>1, <1>2, <1>3, <2>1, <2>3 DEF TypeOK, QueueOK, NotifyOK
<1>5. Types
  BY <1>1, <1>2, <1>3, <1>4 DEF Types, Stored, Init, TranscriptionInit, NotificationInit
<1>7. ASSUME NEW k \in Keys PROVE Single(k)
  <2>1. runner.hand # k /\ \A w \in Workers : worker[w].job # k
    BY TranscriptionAssumption DEF Init, TranscriptionInit, Down, Waiting
  <2> QED BY <2>1, NoQueue DEF Single, Serves
<1>6. ASSUME NEW c \in Calls PROVE Alerted(c) /\ MatchInv(c)
  <2>3. Alerted(c)
    <3>1. \A n \in Notifiers : notifier[n].call # c
      BY DeliveryAssumption DEF Init, NotificationInit, Stopped
    <3> QED BY <3>1 DEF Alerted, Init, NotificationInit
  <2>4. MatchInv(c)
    BY DEF MatchInv, Active, Init, NotificationInit
  <2> QED BY <2>3, <2>4
<1> QED BY <1>5, <1>6, <1>7 DEF Inv

LEMMA InvStep == Inv /\ [Next]_vars => Inv'
BY TypesStep, SingleStep, NotifyStep, MatchStep DEF Inv, CallKept

\* Every variable has its type, for any number of calls, workers and notifiers.
THEOREM TypesAreKept == Spec => []TypeOK
<1>1. Inv => TypeOK
  BY DEF Inv, Types
<1> QED BY <1>1, InitHolds, InvStep, PTL DEF Spec

\* A failed job stays failed until an operator requeues it, whatever workers, crashes and recovery
\* do (the statements of transcriptionWorker, which write by id whatever the job's status).
THEOREM FailureIsFinal == Spec => FailedStays
<1>1. Inv /\ [Next]_vars =>
        [\A k \in Keys : Status(k) = "failed" /\ Status(k)' # "failed"
           => OperatorRequeues(k) \/ k \in requeued]_vars
  BY SingleStep DEF Inv, Fine, Requeued
<1> QED BY <1>1, InitHolds, InvStep, PTL DEF Spec, FailedStays

\* What an operator wrote is not replaced by a new transcription, and stays the text of the call
\* unless a run transcribes it with another provider (the upsert of transcriptionWorker).
THEOREM EditsSurvive == Spec => EditIsKept
<1>1. Inv /\ [Next]_vars =>
        [\A c \in Calls, p \in Providers :
           transcript[<<c, p>>] # None /\ transcript[<<c, p>>].edited # "" /\ ~OperatorEdits(<<c, p>>)
             => /\ transcript'[<<c, p>>] # None
                /\ transcript'[<<c, p>>].edited = transcript[<<c, p>>].edited
                /\ latest[c] = p /\ ~(\E q \in Providers : OperatorEdits(<<c, q>>))
                     => Text(c)' = Text(c) \/ WrittenByAnother(c, p)]_vars
  BY TextsStep DEF Inv, Lasts
<1> QED BY <1>1, InitHolds, InvStep, PTL DEF Spec, EditIsKept

LEMMA AtMostOne == 0 <= 1 /\ 1 <= 1
OBVIOUS

\* A call alerts once through crashes, retries and new transcripts, unless a reply was lost or an
\* operator asked for it (notificationRun, its lock and its claim).
THEOREM AlertsAreSingle == Spec => []AlertOnce
<1>1. Inv => AlertOnce
  <2> SUFFICES ASSUME Inv, NEW c \in Calls, history[c] \cap {"retried", "reply lost"} = {}
               PROVE  alerts[c] <= 1
    BY DEF AlertOnce
  <2>1. alerts[c] = 0 \/ alerts[c] = 1
    BY Zenon DEF Inv, Alerted
  <2> QED BY <2>1, AtMostOne, Zenon
<1> QED BY <1>1, InitHolds, InvStep, PTL DEF Spec

\* A call whose text matches has an alert, however its request and any number of workers that
\* transcribe it interleave (enqueueNotifications and the two statements of transcriptionWorker).
THEOREM MatchesAreQueued == Spec => []MatchIsQueued
<1>1. Inv => MatchIsQueued
  <2> SUFFICES ASSUME Inv, NEW c \in Calls, Matches(c), ~InProgress(c),
                      history[c] \cap {"lost", "edited", "rule"} = {}
               PROVE  delivery[c] # None /\ ~(In(c, {"expired"}) /\ delivery[c].cause = "text")
    BY DEF MatchIsQueued
  <2>1. MatchInv(c) /\ ~Busy(c) /\ ingest[c] \notin {"new", "notify"}
    BY DEF Inv, InProgress, Busy
  <2>2. Good(c)
    BY <2>1 DEF MatchInv
  <2> QED BY <2>2 DEF Good, In
<1> QED BY <1>1, InitHolds, InvStep, PTL DEF Spec
===============================================================================
