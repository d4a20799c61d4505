-------------------------- MODULE NotificationQueue --------------------------
(***************************************************************************)
(* Keyword alerts: the deliveries of one rule, the worker process that     *)
(* sends them (backend/cmd/admin/notifications.go) and the statements by   *)
(* which ingestion, transcription and operators change them.               *)
(***************************************************************************)
EXTENDS CallTexts, Naturals

CONSTANTS
  Notifiers,     \* processes that run `notifications run`
  MaxDeliveries  \* attempts before a delivery is failed

ASSUME NotificationAssumption == MaxDeliveries \in Nat \ {0} /\ None \notin Notifiers

VARIABLES
  delivery,   \* notification_deliveries: at most one row per rule and call
  enabled,    \* what is enabled of the rule and its destination
  disabling,  \* an operator has disabled it and not yet expired its deliveries
  notifier,   \* the local state of each process
  lock,       \* the process that holds the advisory lock
  alerts      \* how often the destination received each call's alert

notificationVars == <<delivery, enabled, disabling, notifier, lock, alerts>>

-----------------------------------------------------------------------------
\* `aged`: updated_at lies further back than the safety window; `cause` is what the
\* error column says of an expired delivery.
Delivery == [status   : {"pending", "sending", "sent", "failed", "expired"},
             attempts : 0..MaxDeliveries,
             aged     : BOOLEAN,
             cause    : {"", "age", "text", "rule"}]

ASSUME DeliveryAssumption == None \notin Delivery \cup Calls

NewDelivery == [status |-> "pending", attempts |-> 0, aged |-> FALSE, cause |-> ""]

Notifier == [pc    : {"down", "select", "claim", "deliver", "send", "sent", "failed"},
             batch : SUBSET Calls,
             call  : Calls \cup {None}]

Stopped == [pc |-> "down", batch |-> {}, call |-> None]

Switches == {"rule", "destination"}

Active == enabled = Switches

NotificationOK ==
  /\ delivery \in [Calls -> Delivery \cup {None}]
  /\ enabled \subseteq Switches
  /\ disabling \in BOOLEAN
  /\ notifier \in [Notifiers -> Notifier]
  /\ lock \in Notifiers \cup {None}
  /\ alerts \in [Calls -> Nat]

NotificationInit ==
  /\ delivery = [c \in Calls |-> None]
  /\ enabled = Switches
  /\ disabling = FALSE
  /\ notifier = [n \in Notifiers |-> Stopped]
  /\ lock = None
  /\ alerts = [c \in Calls |-> 0]

In(c, statuses) == delivery[c] # None /\ delivery[c].status \in statuses

\* attempt_count is only compared with the limit.
CountedUp(n) == IF n < MaxDeliveries THEN n + 1 ELSE n

Expired(c, cause) ==
  [delivery[c] EXCEPT !.status = "expired", !.aged = FALSE, !.cause = cause]

-----------------------------------------------------------------------------
(* What ingestion, transcription and operators do to deliveries.           *)

\* enqueueNotifications: ON CONFLICT DO NOTHING.
EnqueueNew(c) ==
  delivery' = IF Active /\ Matches(c) /\ delivery[c] = None
              THEN [delivery EXCEPT ![c] = NewDelivery]
              ELSE delivery

\* The statuses ON CONFLICT DO UPDATE takes back to pending; mutants take them all, or
\* leave expired deliveries.
EveryStatus == {"pending", "sending", "sent", "failed", "expired"}
Unfinished  == {"pending", "failed"}
Requeueable == {"pending", "failed", "expired"}

\* The enqueue statement of the transcription worker.
EnqueueAgain(c) ==
  delivery' =
    IF ~Active \/ ~Matches(c) THEN delivery
    ELSE IF delivery[c] = None THEN [delivery EXCEPT ![c] = NewDelivery]
    ELSE IF In(c, Requeueable)
         THEN [delivery EXCEPT ![c].status = "pending", ![c].aged = FALSE, ![c].cause = ""]
         ELSE delivery

\* The deliveries the transcription worker expires.
Unmatched(c) == In(c, {"pending", "failed"}) /\ ~Matches(c)

ExpireUnmatched(c) ==
  delivery' = IF Unmatched(c) THEN [delivery EXCEPT ![c] = Expired(c, "text")] ELSE delivery

\* `notifications retry` leaves updated_at as it was, the form of the server does not.
RetryDelivery(c, refresh) ==
  /\ delivery[c] # None
  /\ delivery' = [delivery EXCEPT ![c].status = "pending", ![c].cause = "",
                                  ![c].aged = @ /\ ~refresh]
  /\ UNCHANGED <<enabled, disabling, notifier, lock, alerts>>

\* The forms enable and disable whatever the switch says, and alerts of a rule enabled
\* again may still be expired by the form that disabled it.
Enable(switch) ==
  /\ enabled' = enabled \cup {switch}
  /\ UNCHANGED <<delivery, disabling, notifier, lock, alerts>>

DisableDestination ==
  /\ enabled' = enabled \ {"destination"}
  /\ UNCHANGED <<delivery, disabling, notifier, lock, alerts>>

DisableRule ==
  /\ enabled' = enabled \ {"rule"}
  /\ disabling' = TRUE
  /\ UNCHANGED <<delivery, notifier, lock, alerts>>

\* The second statement of the form that disables a rule.
ExpireDisabled ==
  /\ disabling
  /\ disabling' = FALSE
  /\ delivery' = [c \in Calls |-> IF In(c, {"pending", "failed"}) THEN Expired(c, "rule")
                                  ELSE delivery[c]]
  /\ UNCHANGED <<enabled, notifier, lock, alerts>>

\* The clock runs past the safety window of a delivery, which only counts while it waits.
WindowPasses(c) ==
  /\ In(c, {"pending", "failed"})
  /\ delivery' = [delivery EXCEPT ![c].aged = TRUE]
  /\ UNCHANGED <<enabled, disabling, notifier, lock, alerts>>

-----------------------------------------------------------------------------
(* notificationRun.                                                        *)

NotifierAt(n, pc) == notifier[n].pc = pc

NotifierGoto(n, pc) == notifier' = [notifier EXCEPT ![n].pc = pc]

TooOld(c) == In(c, {"pending", "failed"}) /\ delivery[c].aged

\* Old alerts are expired, unless that fails, before the lock is asked for.
NotifierStart(n, expires) ==
  /\ NotifierAt(n, "down")
  /\ delivery' = [c \in Calls |-> IF TooOld(c) /\ expires THEN Expired(c, "age") ELSE delivery[c]]
  /\ NotifierGoto(n, "select")
  /\ UNCHANGED <<enabled, disabling, lock, alerts>>

Sendable(c) ==
  \/ In(c, {"pending"})
  \/ In(c, {"failed"}) /\ delivery[c].attempts < MaxDeliveries

\* pg_try_advisory_lock and the SELECT of those that match and are due by now.
SelectBatch(n) ==
  /\ NotifierAt(n, "select")
  /\ lock = None
  /\ lock' = n
  /\ \E due \in SUBSET {c \in Calls : Sendable(c) /\ Matches(c)} :
       notifier' = [notifier EXCEPT ![n] = [pc |-> "claim", batch |-> due, call |-> None]]
  /\ UNCHANGED <<delivery, enabled, disabling, alerts>>

AnotherIsActive(n) ==
  /\ NotifierAt(n, "select")
  /\ lock # None
  /\ notifier' = [notifier EXCEPT ![n] = Stopped]
  /\ UNCHANGED <<delivery, enabled, disabling, lock, alerts>>

\* The claim checks the status again; the text is the one of the SELECT.
ClaimDelivery(n, c) ==
  /\ NotifierAt(n, "claim")
  /\ c \in notifier[n].batch
  /\ \/ /\ Sendable(c)
        /\ delivery' = [delivery EXCEPT ![c].status = "sending", ![c].aged = FALSE,
                                        ![c].attempts = CountedUp(@)]
        /\ notifier' = [notifier EXCEPT ![n].pc = "deliver", ![n].call = c,
                                        ![n].batch = @ \ {c}]
     \/ /\ ~Sendable(c)
        /\ notifier' = [notifier EXCEPT ![n].batch = @ \ {c}]
        /\ UNCHANGED delivery
  /\ UNCHANGED <<enabled, disabling, lock, alerts>>

\* deliverNotification reads the rule and its destination, and sends: what the
\* destination got need not be confirmed to the worker.
CheckRule(n) ==
  /\ NotifierAt(n, "deliver")
  /\ NotifierGoto(n, IF Active THEN "send" ELSE "failed")
  /\ UNCHANGED <<delivery, enabled, disabling, lock, alerts>>

Send(n, got, confirmed) ==
  /\ NotifierAt(n, "send")
  /\ confirmed => got
  /\ alerts' = IF got THEN [alerts EXCEPT ![notifier[n].call] = @ + 1] ELSE alerts
  /\ NotifierGoto(n, IF confirmed THEN "sent" ELSE "failed")
  /\ UNCHANGED <<delivery, enabled, disabling, lock>>

\* The status after an attempt that failed; a mutant uses one the column does not admit.
RetryStatus(c) == "retrying"
AfterAttempt(c) == IF delivery[c].attempts >= MaxDeliveries THEN "failed" ELSE "pending"

RecordAttempt(n) ==
  LET c == notifier[n].call IN
  /\ \/ /\ NotifierAt(n, "sent")
        /\ delivery' = [delivery EXCEPT ![c].status = "sent", ![c].aged = FALSE]
     \/ /\ NotifierAt(n, "failed")
        /\ delivery' = [delivery EXCEPT ![c].status = AfterAttempt(c), ![c].aged = FALSE]
  /\ notifier' = [notifier EXCEPT ![n].pc = "claim", ![n].call = None]
  /\ UNCHANGED <<enabled, disabling, lock, alerts>>

\* That statement fails, and its error is ignored.
AttemptNotRecorded(n) ==
  /\ NotifierAt(n, "sent") \/ NotifierAt(n, "failed")
  /\ notifier' = [notifier EXCEPT ![n].pc = "claim", ![n].call = None]
  /\ UNCHANGED <<delivery, enabled, disabling, lock, alerts>>

NotifierEnds(n) ==
  /\ NotifierAt(n, "claim") /\ notifier[n].batch = {}
  /\ notifier' = [notifier EXCEPT ![n] = Stopped]
  /\ lock' = None
  /\ UNCHANGED <<delivery, enabled, disabling, alerts>>

\* The process is killed, or loses the connection that holds the lock and on which it
\* makes all its statements.
NotifierCrash(n) ==
  /\ ~NotifierAt(n, "down")
  /\ notifier' = [notifier EXCEPT ![n] = Stopped]
  /\ lock' = IF lock = n THEN None ELSE lock
  /\ UNCHANGED <<delivery, enabled, disabling, alerts>>
=============================================================================
