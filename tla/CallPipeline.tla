---------------------------- MODULE CallPipeline ----------------------------
(***************************************************************************)
(* What happens to a call once it is stored: ingestion queues an alert and *)
(* a transcription job, the transcription worker writes a text and         *)
(* reconciles the alerts with it, the notification worker sends them, and  *)
(* operators requeue, edit and retry.                                      *)
(***************************************************************************)
EXTENDS TranscriptionQueue, NotificationQueue

CONSTANTS
  ReceivedTexts,  \* the texts senders send with a call
  Eligible,       \* calls for which transcription is configured
  Operations,     \* what operators do
  MaxUpsets       \* bound: operations, crashes, failed statements and lost replies

ASSUME PipelineAssumption ==
  /\ ReceivedTexts \subseteq Texts
  /\ Eligible \subseteq Calls
  /\ Operations \subseteq {"requeue", "edit", "retry", "cli retry", "rule"}
  /\ MaxUpsets \in Nat

VARIABLES
  ingest,      \* how far the request that stored each call has come
  history,     \* what happened to each call that a property must know
  requeued,    \* the jobs that were requeued while they were at work
  upsets       \* how many of those the bound allows have happened

texts    == <<received, transcript, latest>>
pipeline == <<ingest, history, requeued>>

vars == <<texts, transcriptionVars, notificationVars, pipeline, upsets>>

-----------------------------------------------------------------------------
\* "lost": an enqueue statement that must follow a new text was not executed.
Marks == {"lost", "edited", "rule", "retried", "reply lost"}

TypeOK ==
  /\ TextsOK
  /\ TranscriptionOK
  /\ NotificationOK
  /\ ingest \in [Calls -> {"new", "notify", "queue", "done"}]
  /\ history \in [Calls -> SUBSET Marks]
  /\ requeued \subseteq Keys
  /\ upsets \in 0..MaxUpsets

Init ==
  /\ received = [c \in Calls |-> ""]
  /\ transcript = [k \in Keys |-> None]
  /\ latest = [c \in Calls |-> None]
  /\ TranscriptionInit
  /\ NotificationInit
  /\ ingest = [c \in Calls |-> "new"]
  /\ history = [c \in Calls |-> {}]
  /\ requeued = {}
  /\ upsets = 0

Mark(cs, m) == history' = [c \in Calls |-> IF c \in cs THEN history[c] \cup {m} ELSE history[c]]

\* An error, a crash or an operation, as often as the bound allows.
Upset == upsets < MaxUpsets /\ upsets' = upsets + 1

Operate(what) == what \in Operations /\ Upset

-----------------------------------------------------------------------------
(* receiveAudio after its COMMIT.                                          *)

CommitCall(c) ==
  /\ ingest[c] = "new"
  /\ \E t \in ReceivedTexts : received' = [received EXCEPT ![c] = t]
  /\ ingest' = [ingest EXCEPT ![c] = "notify"]
  /\ UNCHANGED <<transcript, latest, transcriptionVars, notificationVars, history, requeued, upsets>>

EnqueueAlert(c) ==
  /\ ingest[c] = "notify"
  /\ ingest' = [ingest EXCEPT ![c] = "queue"]
  /\ \/ /\ EnqueueNew(c)
        /\ UNCHANGED <<history, upsets>>
     \/ /\ Upset /\ Mark({c}, "lost")
        /\ UNCHANGED delivery
  /\ UNCHANGED <<texts, transcriptionVars, enabled, disabling, notifier, lock, alerts, requeued>>

EnqueueJob(c) ==
  /\ ingest[c] = "queue"
  /\ ingest' = [ingest EXCEPT ![c] = "done"]
  /\ \/ c \in Eligible /\ (\E p \in Providers : AutoEnqueue(<<c, p>>)) /\ UNCHANGED upsets
     \/ c \notin Eligible /\ UNCHANGED <<transcriptionVars, upsets>>
     \/ Upset /\ UNCHANGED transcriptionVars
  /\ UNCHANGED <<texts, notificationVars, history, requeued>>

ServerCrash ==
  /\ Upset
  /\ Mark({c \in Calls : ingest[c] = "notify"}, "lost")
  /\ ingest' = [c \in Calls |-> IF ingest[c] = "new" THEN "new" ELSE "done"]
  /\ UNCHANGED <<texts, transcriptionVars, notificationVars, requeued>>

-----------------------------------------------------------------------------
(* The transcription worker with the alerts it reconciles.                 *)

TranscriptionStep ==
  /\ \/ RunStart(TRUE) \/ Hand \/ FeedEnds \/ RunEnds
     \/ \E k \in Keys : ClaimJob(k)
     \/ \E w \in Workers : Take(w) \/ Transcribe(w) \/ RecordFailure(w) \/ RejectJob(w) \/ CompleteJob(w)
  /\ UNCHANGED <<texts, notificationVars, pipeline, upsets>>

WriteTranscript(w) ==
  /\ InsertTranscript(w)
  /\ UNCHANGED <<received, notificationVars, pipeline, upsets>>

ReconcileExpire(w) ==
  /\ LeaveExpire(w)
  /\ ExpireUnmatched(CallOf(worker[w].job))
  /\ UNCHANGED <<texts, enabled, disabling, notifier, lock, alerts, pipeline, upsets>>

ReconcileEnqueue(w) ==
  /\ LeaveEnqueue(w)
  /\ EnqueueAgain(CallOf(worker[w].job))
  /\ UNCHANGED <<texts, enabled, disabling, notifier, lock, alerts, pipeline, upsets>>

\* Failures of its statements.
TranscriptionError ==
  /\ Upset
  /\ \/ /\ RunStart(FALSE) \/ ClaimFails \/ \E w \in Workers : InsertFails(w)
        /\ UNCHANGED history
     \/ \E w \in Workers :
          /\ StatementIgnored(w)
          /\ Mark(IF WorkerAt(w, "enqueue") THEN {CallOf(worker[w].job)} ELSE {}, "lost")
  /\ UNCHANGED <<texts, notificationVars, ingest, requeued>>

TranscriptionCrash ==
  /\ Upset
  /\ RunCrash
  /\ Mark({CallOf(worker[w].job) : w \in {v \in Workers : worker[v].pc \in {"complete", "expire", "enqueue"}}},
          "lost")
  /\ UNCHANGED <<texts, notificationVars, ingest, requeued>>

TimePasses(k) ==
  /\ BackoffEnds(k) \/ FifteenMinutesPass(k)
  /\ UNCHANGED <<texts, notificationVars, pipeline, upsets>>

-----------------------------------------------------------------------------
(* The notification worker.                                                *)

NotificationStep(n) ==
  /\ \/ NotifierStart(n, TRUE) \/ SelectBatch(n) \/ AnotherIsActive(n) \/ NotifierEnds(n)
     \/ \E c \in Calls : ClaimDelivery(n, c)
     \/ CheckRule(n) \/ Send(n, TRUE, TRUE) \/ RecordAttempt(n)
  /\ UNCHANGED <<texts, transcriptionVars, pipeline, upsets>>

\* The destination fails or refuses; its answer is lost; a statement fails.
NotificationError(n) ==
  /\ Upset
  /\ \/ /\ Send(n, FALSE, FALSE) \/ AttemptNotRecorded(n) \/ NotifierStart(n, FALSE)
        /\ UNCHANGED history
     \/ Send(n, TRUE, FALSE) /\ Mark({notifier[n].call}, "reply lost")
  /\ UNCHANGED <<texts, transcriptionVars, ingest, requeued>>

NotificationCrash(n) ==
  /\ Upset
  /\ NotifierCrash(n)
  /\ UNCHANGED <<texts, transcriptionVars, pipeline>>

SafetyWindowPasses(c) ==
  /\ WindowPasses(c)
  /\ UNCHANGED <<texts, transcriptionVars, pipeline, upsets>>

-----------------------------------------------------------------------------
(* Operators.                                                              *)

OperatorRequeues(k) ==
  /\ Operate("requeue")
  /\ ingest[CallOf(k)] # "new"
  /\ Requeue(k)
  /\ requeued' = requeued \cup {j \in {k} : AtWork(j)}
  /\ UNCHANGED <<texts, notificationVars, ingest, history>>

\* adminEditTranscript and the review form, which may leave the text as it is: both set
\* updated_at, so the row becomes the one that counts.
OperatorEdits(k) ==
  /\ Operate("edit")
  /\ transcript[k] # None
  /\ \/ \E t \in Texts : transcript' = [transcript EXCEPT ![k].edited = t]
     \/ UNCHANGED transcript
  /\ latest' = Stamped(k)
  /\ Mark({CallOf(k)}, "edited")
  /\ UNCHANGED <<received, transcriptionVars, notificationVars, ingest, requeued>>

OperatorRetries(c) ==
  /\ \/ Operate("retry") /\ RetryDelivery(c, TRUE)
     \/ Operate("cli retry") /\ RetryDelivery(c, FALSE)
  /\ Mark({c}, "retried")
  /\ UNCHANGED <<texts, transcriptionVars, ingest, requeued>>

OperatorChangesRule ==
  /\ \/ Operate("rule") /\ ((\E s \in Switches : Enable(s)) \/ DisableRule \/ DisableDestination)
     \/ ExpireDisabled /\ UNCHANGED upsets
  /\ Mark(Calls, "rule")
  /\ UNCHANGED <<texts, transcriptionVars, ingest, requeued>>

-----------------------------------------------------------------------------
Next ==
  \/ \E c \in Calls :
       \/ CommitCall(c) \/ EnqueueAlert(c) \/ EnqueueJob(c)
       \/ SafetyWindowPasses(c) \/ OperatorRetries(c)
  \/ \E k \in Keys : TimePasses(k) \/ OperatorRequeues(k) \/ OperatorEdits(k)
  \/ \E w \in Workers : WriteTranscript(w) \/ ReconcileExpire(w) \/ ReconcileEnqueue(w)
  \/ TranscriptionStep \/ TranscriptionError \/ TranscriptionCrash
  \/ \E n \in Notifiers : NotificationStep(n) \/ NotificationError(n) \/ NotificationCrash(n)
  \/ ServerCrash
  \/ OperatorChangesRule

Spec == Init /\ [][Next]_vars

\* The compose loop starts the next run, the runner and its workers are scheduled,
\* requests to the provider end by their timeout, and the clock runs.
RunnerStep ==
  /\ \/ RunStart(TRUE) \/ Hand \/ FeedEnds \/ RunEnds
     \/ \E k \in Keys : ClaimJob(k)
  /\ UNCHANGED <<texts, notificationVars, pipeline, upsets>>

WorkerStep(w) ==
  \/ /\ Take(w) \/ Transcribe(w) \/ RecordFailure(w) \/ RejectJob(w) \/ CompleteJob(w)
     /\ UNCHANGED <<texts, notificationVars, pipeline, upsets>>
  \/ WriteTranscript(w) \/ ReconcileExpire(w) \/ ReconcileEnqueue(w)

Fairness ==
  /\ WF_vars(RunnerStep)
  /\ \A w \in Workers : WF_vars(WorkerStep(w))
  /\ \A k \in Keys : WF_vars(TimePasses(k))

FairSpec == Spec /\ Fairness

-----------------------------------------------------------------------------
(* Safety.                                                                 *)

\* A request or a worker still has to reconcile the call's alert with its text.
InProgress(c) ==
  \/ ingest[c] \in {"new", "notify"}
  \/ \E w \in Workers : /\ worker[w].pc \in {"complete", "expire", "enqueue"}
                         /\ CallOf(worker[w].job) = c

\* A call whose text matches has an alert that was not withdrawn for its text: however
\* often it is transcribed, by however many workers at once ("Keyword rules are
\* evaluated again after generated text becomes available").
MatchIsQueued ==
  \A c \in Calls :
    Matches(c) /\ ~InProgress(c) /\ history[c] \cap {"lost", "edited", "rule"} = {}
      => delivery[c] # None /\ ~(In(c, {"expired"}) /\ delivery[c].cause = "text")

\* A call alerts once, through crashes, retries and new transcripts ("The uniqueness
\* constraint prevents duplicate delivery"), unless a reply was lost or an operator
\* asked for it.
AlertOnce ==
  \A c \in Calls : history[c] \cap {"retried", "reply lost"} = {} => alerts[c] <= 1

\* Failures stay until an operator retries them (transcription.go: "explicit failures
\* remain terminal until an operator retries them").
FailedStays ==
  [][\A k \in Keys :
       Status(k) = "failed" /\ Status(k)' # "failed"
         => OperatorRequeues(k) \/ k \in requeued]_vars

\* A run transcribes the call with another provider than p.
WrittenByAnother(c, p) ==
  runner.provider # p /\ \E w \in Workers : WriteTranscript(w) /\ CallOf(worker[w].job) = c

\* What an operator wrote is not replaced by a new transcription: the row keeps it, and
\* it stays the text of the call.  The exception is a transcription after the settings
\* form changed the provider: it writes a row of its own, which counts from then on.
EditIsKept ==
  [][\A c \in Calls, p \in Providers :
       transcript[<<c, p>>] # None /\ transcript[<<c, p>>].edited # "" /\ ~OperatorEdits(<<c, p>>)
         => /\ transcript'[<<c, p>>] # None
            /\ transcript'[<<c, p>>].edited = transcript[<<c, p>>].edited
            /\ latest[c] = p /\ ~(\E q \in Providers : OperatorEdits(<<c, q>>))
                 => Text(c)' = Text(c) \/ WrittenByAnother(c, p)]_vars

-----------------------------------------------------------------------------
(* Liveness.                                                               *)

\* A queued job is transcribed or given up, through crashes and errors, provided that
\* runs from some time on have an endpoint that is permitted.
JobEnds ==
  <>[](runner.pc # "down" => runner.permitted)
    => \A k \in Keys : Status(k) = "pending" ~> Status(k) \in {"completed", "failed"}

\* The feeding loop waits for a place in the channel and no worker is left.
Blocked ==
  /\ runner.pc = "hand" /\ Len(queue) = Capacity
  /\ \A w \in Workers : WorkerAt(w, "off")

\* A run of the worker ends, and the next one reads the configuration again ("reloads
\* its PostgreSQL-managed configuration").  The exception is a run whose endpoint is not
\* permitted: its workers return at once, and it waits for good, with the lock, when
\* more jobs are due than the channel holds.
RunComesToAnEnd ==
  runner.pc # "down" ~> runner.pc = "down" \/ (Blocked /\ ~runner.permitted)
=============================================================================
