--------------------------- MODULE MediaLifecycle ---------------------------
(***************************************************************************)
(* Retention, protection and dataset exports at work on the same calls:    *)
(* retention moves and deletes audio files while workers read them, and    *)
(* leaves alone what is protected or held by an active export.             *)
(***************************************************************************)
EXTENDS Retention, DatasetExport

CONSTANT MaxUpsets    \* bound: crashes, failed statements and file operations, slow workers

ASSUME MediaAssumption ==
  /\ IsFiniteSet(Calls)
  /\ MaxUpsets \in Nat

VARIABLE upsets

vars == <<media, retentionVars, datasetVars, upsets>>

-----------------------------------------------------------------------------
TypeOK ==
  /\ MediaOK
  /\ RetentionOK
  /\ DatasetOK
  /\ upsets \in 0..MaxUpsets

Init ==
  /\ MediaInit
  /\ RetentionInit
  /\ DatasetInit
  /\ upsets = 0

Upset == upsets < MaxUpsets /\ upsets' = upsets + 1

-----------------------------------------------------------------------------
(* Retention beside the exports.                                           *)

RetentionStep ==
  /\ \/ RetentionStart(HeldByExports)
     \/ \E c \in Calls : StageFile(c) \/ TidyFile(c)
     \/ RetentionEnds
  /\ UNCHANGED <<datasetVars, upsets>>

\* The DELETE does not see the items of a transaction that has not committed.
DeleteSnapshot ==
  /\ DeleteBegins(HeldByExports)
  /\ history' = [e \in Exports |-> IF draft[e] \cap Selected(HeldByExports) # {}
                                   THEN history[e] \cup {"overlapped"} ELSE history[e]]
  /\ UNCHANGED <<export, items, draft, zip, builder, removing, upsets>>

\* It waits for the key-share locks of such a transaction, but not updated by it the
\* calls are not looked at again; their items of any export go with them.
DeleteCalls ==
  /\ \A e \in Exports : draft[e] \cap Doomed = {}
  /\ \/ DeleteCommits /\ UNCHANGED upsets
     \/ Upset /\ \E committed \in BOOLEAN : DeleteFails(committed)
  /\ items' = [e \in Exports |-> {c \in items[e] : row'[c] # None}]
  /\ UNCHANGED <<export, draft, zip, builder, removing, history>>

RetentionError ==
  /\ Upset
  /\ StageFails \/ RetentionCrash \/ \E c \in Calls : TidyFails(c)
  /\ UNCHANGED datasetVars

-----------------------------------------------------------------------------
(* The administrator.                                                      *)

ProtectionStep ==
  /\ \E c \in Calls : ProtectCall(c) \/ ProtectionExpires(c)
  /\ UNCHANGED <<retentionVars, datasetVars, upsets>>

RequestStep ==
  /\ \E e \in Exports :
       \/ CreateBegins(e, IF sweep.pc = "delete" THEN sweep.doomed ELSE {})
       \/ CancelExport(e) \/ DeleteFile(e) \/ DeleteRow(e)
  /\ UNCHANGED <<retentionVars, upsets>>

RequestFails ==
  /\ Upset
  /\ \E e \in Exports : CreateFails(e)
  /\ UNCHANGED retentionVars

-----------------------------------------------------------------------------
(* The workers.                                                            *)

CommitStep(e) == CreateCommits(e) /\ UNCHANGED <<retentionVars, upsets>>

ClaimStep(b) ==
  /\ \E e \in Exports : Claim(b, e)
  /\ UNCHANGED <<retentionVars, upsets>>

BuildStep(b) ==
  /\ Load(b) \/ CheckItem(b) \/ ReadItem(b, TRUE) \/ Seal(b) \/ Record(b) \/ RecordFailure(b)
  /\ UNCHANGED <<retentionVars, upsets>>

BuildError(b) ==
  /\ Upset
  /\ \/ ReadItem(b, FALSE) \/ BuildFails(b) \/ FailureNotRecorded(b) \/ BuilderStops(b)
     \/ \E applied \in BOOLEAN : RecordFails(b, applied)
  /\ UNCHANGED retentionVars

LapseStep(e) ==
  /\ LeaseLapses(e)
  /\ \A b \in Builders : ~AtWork(b, e)
  /\ UNCHANGED <<retentionVars, upsets>>

SlowBuilder(e) == Upset /\ LeaseLapses(e) /\ UNCHANGED retentionVars

ExpiryStep ==
  /\ \/ \E e \in Exports : DayPasses(e)
     \/ \E b \in Builders : ExpireRecord(b) \/ \E e \in Exports : ExpireRemove(b, e)
  /\ UNCHANGED <<retentionVars, upsets>>

-----------------------------------------------------------------------------
Next ==
  \/ RetentionStep \/ DeleteSnapshot \/ DeleteCalls \/ RetentionError
  \/ ProtectionStep
  \/ RequestStep \/ RequestFails
  \/ \E e \in Exports : CommitStep(e) \/ LapseStep(e) \/ SlowBuilder(e)
  \/ \E b \in Builders : ClaimStep(b) \/ BuildStep(b) \/ BuildError(b)
  \/ ExpiryStep

Spec == Init /\ [][Next]_vars

\* The worker loop of the compose service claims and builds, the request that creates
\* an export ends, and leases lapse by the clock.
Fairness ==
  /\ \A e \in Exports : WF_vars(CommitStep(e)) /\ WF_vars(LapseStep(e))
  /\ \A b \in Builders : WF_vars(ClaimStep(b)) /\ WF_vars(BuildStep(b))
  /\ WF_vars(\E b \in Builders : ExpireRecord(b) /\ UNCHANGED <<retentionVars, upsets>>)

FairSpec == Spec /\ Fairness

-----------------------------------------------------------------------------
(* Safety.                                                                 *)

\* Between retention runs a call has its audio file in place exactly as long as it has
\* its row, and the file of a deleted call is gone, whatever was protected, exported or
\* failed while the run was under way; except for files an error of the clean-up, a
\* lost reply or a kill left behind (docs/retention.md: "a database failure moves
\* staged files back").
MediaFollowsRow ==
  sweep.pc = "idle" =>
    \A c \in Calls \ stranded : audio[c] = IF Exists(c) THEN "in place" ELSE "removed"

\* The calls of a queued or running export stay ("Active snapshots are protected from
\* retention"), unless the export was being created while a DELETE was evaluated.
SnapshotIsKept ==
  \A e \in Exports : Active(e) /\ "overlapped" \notin history[e] => items[e] = export[e].total

Downloadable(e) == Status(e) \in {"completed", "with warnings"} /\ ~export[e].due

\* What can be downloaded is the archive whose size and digest were recorded, and one
\* without warnings holds every call that was selected; unless two workers built it or
\* the reply to the final UPDATE was lost.  A deletion that removed the file and has not
\* deleted the row, or never will, leaves a download of nothing, never of something else.
DownloadIsWhole ==
  \A e \in Exports :
    Downloadable(e) /\ history[e] \cap {"doubled", "overlapped", "reply lost"} = {} =>
      \/ /\ zip[e] = export[e].output
         /\ Status(e) = "completed" => zip[e].calls = export[e].total
      \/ zip[e] = None /\ e \in removing

\* A zip file on the disk belongs to a row whose deletion or expiry removes it, unless
\* its build was cut short by a cancellation, a kill or a second worker.
ZipIsOwned ==
  \A e \in Exports :
    zip[e] # None /\ history[e] \cap {"doubled", "cut"} = {} =>
      export[e].output = zip[e] \/ \E b \in Builders : AtWork(b, e) /\ At(b, "record")

\* A finished export is never taken up again: it can only expire or be deleted, unless
\* two workers built it or the reply to the final UPDATE was lost.
FinishedStays ==
  [][\A e \in Exports :
       Finished(e) /\ history[e] \cap {"doubled", "reply lost"} = {} =>
         Status(e)' \in {Status(e), "expired", "deleted"}]_vars

-----------------------------------------------------------------------------
(* Liveness.                                                               *)

\* Every export that was queued ends, through crashes, failures and lapsed leases.
ExportEnds == \A e \in Exports : Status(e) = "pending" ~> ~Active(e)
=============================================================================
