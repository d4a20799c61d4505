------------------------- MODULE TranscriptionQueue -------------------------
(***************************************************************************)
(* The transcription jobs and the worker process that runs them            *)
(* (backend/cmd/admin/transcription.go).  A run claims the jobs that are   *)
(* due one by one, hands them through a bounded channel to its workers,    *)
(* and ends when no job is due; the compose service starts the next run.   *)
(* An advisory lock admits one run at a time, so one runner is modelled.   *)
(***************************************************************************)
EXTENDS CallTexts, Naturals, Sequences, FiniteSets

CONSTANTS
  Workers,           \* the goroutines of a run (concurrency)
  RetryLimit,        \* retry_limit
  TransientRetries,  \* further attempts after a transient error
  Results,           \* the texts the provider may return
  Connects           \* whether the endpoint is permitted, the values it may have

ASSUME TranscriptionAssumption ==
  /\ IsFiniteSet(Workers)
  /\ RetryLimit \in Nat
  /\ TransientRetries \in Nat
  /\ Results \subseteq Texts
  /\ Connects \subseteq BOOLEAN
  /\ None \notin Keys \cup Texts

VARIABLES
  job,      \* transcription_jobs: at most one row per call and provider
  runner,   \* the feeding loop of the run
  queue,    \* the channel between it and the workers
  worker    \* the local state of each worker

transcriptionVars == <<job, runner, queue, worker>>

-----------------------------------------------------------------------------
\* attempt_count is only compared with limits: it counts up to beyond them.
Limit(transient) == RetryLimit + (IF transient THEN TransientRetries ELSE 0)

Attempts == 0..(Limit(TRUE) + 1)

Counted(n) == IF n <= Limit(TRUE) THEN n + 1 ELSE n

\* `due` is next_attempt_at <= now, `stale` an updated_at older than 15 minutes.
Job == [status   : {"pending", "running", "completed", "failed"},
        attempts : Attempts,
        due      : BOOLEAN,
        stale    : BOOLEAN]

ASSUME JobAssumption == None \notin Job

NewJob == [status |-> "pending", attempts |-> 0, due |-> TRUE, stale |-> FALSE]

Capacity == 2 * Cardinality(Workers)

\* `provider` and `permitted` are what the configuration read at the start says.
Runner == [pc        : {"down", "feed", "hand", "drain"},
           hand      : Keys \cup {None},
           provider  : Providers \cup {None},
           permitted : BOOLEAN]

Down == [pc |-> "down", hand |-> None, provider |-> None, permitted |-> FALSE]

WorkerState ==
  [pc     : {"off", "idle", "request", "transient", "permanent", "insert",
             "reject", "complete", "expire", "enqueue"},
   job    : Keys \cup {None},
   result : Texts \cup {None}]

Waiting(pc) == [pc |-> pc, job |-> None, result |-> None]

TranscriptionOK ==
  /\ job \in [Keys -> Job \cup {None}]
  /\ runner \in Runner
  /\ queue \in Seq(Keys) /\ Len(queue) <= Capacity
  /\ worker \in [Workers -> WorkerState]

TranscriptionInit ==
  /\ job = [k \in Keys |-> None]
  /\ runner = Down
  /\ queue = <<>>
  /\ worker = [w \in Workers |-> Waiting("off")]

Status(k) == IF job[k] = None THEN "none" ELSE job[k].status

Due(k) == Status(k) = "pending" /\ job[k].due

\* Two copies of a job are at work when an operator requeues one that is.
Serves(w, k) == worker[w].job = k

Held(k) ==
  \/ runner.hand = k
  \/ \E i \in DOMAIN queue : queue[i] = k
  \/ \E w \in Workers : Serves(w, k)

AtWork(k) == Status(k) = "running" \/ Held(k)

-----------------------------------------------------------------------------
(* The feeding loop of runTranscription.                                   *)

\* Only what a killed run left behind 15 minutes ago is recovered; a mutant takes
\* terminal failures with it.
AbandonedOrFailed(k) == Status(k) = "failed" \/ (Status(k) = "running" /\ job[k].stale)
Abandoned(k) == Status(k) = "running" /\ job[k].stale

\* The lock is taken, abandoned jobs are recovered unless that fails, and the workers
\* start; they return at once when the endpoint is not permitted.
RunStart(recovers) ==
  /\ runner.pc = "down"
  /\ \E p \in Providers, permitted \in Connects :
       /\ runner' = [pc |-> "feed", hand |-> None, provider |-> p, permitted |-> permitted]
       /\ worker' = [w \in Workers |-> Waiting(IF permitted THEN "idle" ELSE "off")]
  /\ job' = [k \in Keys |->
               IF Abandoned(k) /\ recovers
               THEN [job[k] EXCEPT !.status = "pending", !.due = TRUE, !.stale = FALSE]
               ELSE job[k]]
  /\ UNCHANGED queue

Claimed(k) ==
  [job EXCEPT ![k].status = "running", ![k].attempts = Counted(@), ![k].stale = FALSE]

\* claimNextJob, which takes the jobs of every provider.
ClaimJob(k) ==
  /\ runner.pc = "feed"
  /\ Due(k)
  /\ job' = Claimed(k)
  /\ runner' = [runner EXCEPT !.pc = "hand", !.hand = k]
  /\ UNCHANGED <<queue, worker>>

\* jobs <- job, which waits for a place in the channel.
Hand ==
  /\ runner.pc = "hand"
  /\ Len(queue) < Capacity
  /\ queue' = Append(queue, runner.hand)
  /\ runner' = [runner EXCEPT !.pc = "feed", !.hand = None]
  /\ UNCHANGED <<job, worker>>

\* No job is due: the channel is closed.
FeedEnds ==
  /\ runner.pc = "feed"
  /\ \A k \in Keys : ~Due(k)
  /\ runner' = [runner EXCEPT !.pc = "drain"]
  /\ UNCHANGED <<job, queue, worker>>

\* The claim fails, perhaps after it took effect.
ClaimFails ==
  /\ runner.pc = "feed"
  /\ \/ UNCHANGED job
     \/ \E k \in Keys : Due(k) /\ job' = Claimed(k)
  /\ runner' = [runner EXCEPT !.pc = "drain"]
  /\ UNCHANGED <<queue, worker>>

\* The workers have returned; what is left in the channel is dropped.
RunEnds ==
  /\ runner.pc = "drain"
  /\ \/ queue = <<>> /\ \A w \in Workers : worker[w].pc = "idle"
     \/ \A w \in Workers : worker[w].pc = "off"
  /\ runner' = Down
  /\ queue' = <<>>
  /\ worker' = [w \in Workers |-> Waiting("off")]
  /\ UNCHANGED job

\* The process is killed.
RunCrash ==
  /\ runner.pc # "down"
  /\ runner' = Down
  /\ queue' = <<>>
  /\ worker' = [w \in Workers |-> Waiting("off")]
  /\ UNCHANGED job

-----------------------------------------------------------------------------
(* transcriptionWorker, statement by statement.                            *)

WorkerAt(w, pc) == worker[w].pc = pc

WorkerGoto(w, pc) == worker' = [worker EXCEPT ![w].pc = pc]

\* The worker takes the next job; a mutant returns after its first one.
WorkerReturns(w) == worker' = [worker EXCEPT ![w] = Waiting("off")]
WorkerDone(w) == worker' = [worker EXCEPT ![w] = Waiting("idle")]

Take(w) ==
  /\ WorkerAt(w, "idle")
  /\ queue # <<>>
  /\ worker' = [worker EXCEPT ![w] = [pc |-> "request", job |-> Head(queue), result |-> None]]
  /\ queue' = Tail(queue)
  /\ UNCHANGED <<job, runner>>

\* transcribeFile: a text, or an error that is transient or not.
Transcribe(w) ==
  /\ WorkerAt(w, "request")
  /\ \/ \E t \in Results :
          worker' = [worker EXCEPT ![w].pc = "insert", ![w].result = t]
     \/ \E kind \in {"transient", "permanent"} : WorkerGoto(w, kind)
  /\ UNCHANGED <<job, runner, queue>>

\* The status a failed job gets; a mutant retries it for good.
AlwaysAgain(k, transient) == "pending"
AfterFailure(k, transient) == IF job[k].attempts > Limit(transient) THEN "failed" ELSE "pending"

\* The UPDATE of a failed attempt, by id whatever the job's status.
RecordFailure(w) ==
  LET k == worker[w].job IN
  /\ WorkerAt(w, "transient") \/ WorkerAt(w, "permanent")
  /\ job' = [job EXCEPT ![k].status = AfterFailure(k, WorkerAt(w, "transient")),
                        ![k].due = FALSE, ![k].stale = FALSE]
  /\ WorkerDone(w)
  /\ UNCHANGED <<runner, queue>>

\* The row a text goes to: that of the run's provider, whichever the job's is.
Target(w) == <<CallOf(worker[w].job), runner.provider>>

\* The upsert of the transcript keeps the row's edited_text; a mutant replaces the row.
Replaced(k, t) == [text |-> t, edited |-> ""]
Upserted(k, t) ==
  [text |-> t, edited |-> IF transcript[k] = None THEN "" ELSE transcript[k].edited]

InsertTranscript(w) ==
  /\ WorkerAt(w, "insert")
  /\ transcript' = [transcript EXCEPT ![Target(w)] = Upserted(Target(w), worker[w].result)]
  /\ latest' = Stamped(Target(w))
  /\ WorkerGoto(w, "complete")
  /\ UNCHANGED <<job, runner, queue>>

InsertFails(w) ==
  /\ WorkerAt(w, "insert")
  /\ WorkerGoto(w, "reject")
  /\ UNCHANGED <<job, runner, queue>>

RejectJob(w) ==
  /\ WorkerAt(w, "reject")
  /\ job' = [job EXCEPT ![worker[w].job].status = "failed", ![worker[w].job].stale = FALSE]
  /\ WorkerDone(w)
  /\ UNCHANGED <<runner, queue>>

CompleteJob(w) ==
  /\ WorkerAt(w, "complete")
  /\ job' = [job EXCEPT ![worker[w].job].status = "completed", ![worker[w].job].stale = FALSE]
  /\ WorkerGoto(w, "expire")
  /\ UNCHANGED <<runner, queue>>

\* The two statements on the call's alerts; what they do is NotificationQueue's.
LeaveExpire(w) ==
  /\ WorkerAt(w, "expire")
  /\ WorkerGoto(w, "enqueue")
  /\ UNCHANGED <<job, runner, queue>>

LeaveEnqueue(w) ==
  /\ WorkerAt(w, "enqueue")
  /\ WorkerDone(w)
  /\ UNCHANGED <<job, runner, queue>>

\* A statement whose error the worker ignores fails.
StatementIgnored(w) ==
  /\ \/ WorkerAt(w, "complete") /\ WorkerGoto(w, "expire")
     \/ WorkerAt(w, "expire") /\ WorkerGoto(w, "enqueue")
     \/ \E pc \in {"transient", "permanent", "reject", "enqueue"} : WorkerAt(w, pc) /\ WorkerDone(w)
  /\ UNCHANGED <<job, runner, queue>>

-----------------------------------------------------------------------------
(* Time, ingestion and operators.                                          *)

BackoffEnds(k) ==
  /\ Status(k) = "pending" /\ ~job[k].due
  /\ job' = [job EXCEPT ![k].due = TRUE]
  /\ UNCHANGED <<runner, queue, worker>>

\* Only the next run looks at it, when this one has let go of the job.
FifteenMinutesPass(k) ==
  /\ Status(k) = "running" /\ ~job[k].stale /\ ~Held(k)
  /\ job' = [job EXCEPT ![k].stale = TRUE]
  /\ UNCHANGED <<runner, queue, worker>>

\* The job of a call just stored, unless one is active: ON CONFLICT DO NOTHING.
AutoEnqueue(k) ==
  /\ job' = IF /\ job[k] = None
               /\ \A p \in Providers : Status(<<CallOf(k), p>>) \notin {"pending", "running"}
            THEN [job EXCEPT ![k] = NewJob] ELSE job
  /\ UNCHANGED <<runner, queue, worker>>

\* `transcription queue`, `transcription retry` and their forms: whatever the job does.
Requeue(k) ==
  /\ job' = [job EXCEPT ![k] = IF @ = None THEN NewJob
                               ELSE [@ EXCEPT !.status = "pending", !.due = TRUE]]
  /\ UNCHANGED <<runner, queue, worker>>
=============================================================================
