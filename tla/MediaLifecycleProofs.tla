------------------------- MODULE MediaLifecycleProofs -------------------------
(* The safety properties of retention and exports, for any number of calls,       *)
(* exports and workers.                                                           *)
EXTENDS MediaLifecycle, TLAPS

\* A worker that is not idle works on an export that was created, and so does a deletion.
Busy ==
  /\ \A b \in Builders : builder[b].pc # "idle" =>
       builder[b].export \in Exports /\ export[builder[b].export] # None
  /\ \A e \in removing : export[e] # None

\* Types, one step at a time.
LEMMA UpsetTypes == ASSUME TypeOK, Upset PROVE upsets' \in 0 .. MaxUpsets
BY MediaAssumption DEF TypeOK, Upset

LEMMA RetentionStepTypes == ASSUME TypeOK, RetentionStep PROVE TypeOK'
<1>1. CASE RetentionStart(HeldByExports)
  BY <1>1 DEF TypeOK, RetentionStep, MediaOK, RetentionOK, DatasetOK, media, datasetVars, retentionVars,
              RetentionStart, NoSweep, Sweep, Deletable
<1>2. ASSUME NEW c \in Calls, StageFile(c) \/ TidyFile(c) PROVE TypeOK'
  <2>1. CASE StageFile(c)
    BY <2>1 DEF TypeOK, RetentionStep, MediaOK, RetentionOK, DatasetOK, datasetVars, StageFile, Sweep
  <2>2. CASE TidyFile(c)
    BY <2>2 DEF TypeOK, RetentionStep, MediaOK, RetentionOK, DatasetOK, datasetVars, TidyFile, Sweep, Tidied
  <2> QED BY <1>2, <2>1, <2>2
<1>3. CASE RetentionEnds
  BY <1>3 DEF TypeOK, RetentionStep, MediaOK, RetentionOK, DatasetOK, media, datasetVars, retentionVars,
              RetentionEnds, NoSweep, Sweep
<1> QED BY <1>1, <1>2, <1>3 DEF RetentionStep

LEMMA DeleteTypes == ASSUME TypeOK, DeleteSnapshot \/ DeleteCalls PROVE TypeOK'
<1>1. CASE DeleteSnapshot
  BY <1>1 DEF TypeOK, DeleteSnapshot, MediaOK, RetentionOK, DatasetOK, media, datasetVars, retentionVars,
              DeleteBegins, Sweep, Selected, Deletable
<1>2. CASE DeleteCalls
  <2>1. row' \in [Calls -> Protection \cup {None}] /\ audio' \in [Calls -> {"in place", "in trash", "removed"}]
    <3>1. Without(Doomed) \in [Calls -> Protection \cup {None}]
      BY DEF Without, TypeOK, MediaOK
    <3>2. \A left : MoveBack(left) => audio' \in [Calls -> {"in place", "in trash", "removed"}]
      BY DEF MoveBack, TypeOK, MediaOK
    <3> QED BY <1>2, <3>1, <3>2 DEF DeleteCalls, DeleteCommits, DeleteFails, TypeOK, MediaOK
  <2>2. RetentionOK'
    <3>1. Doomed \in SUBSET Calls
      BY DEF Doomed, TypeOK, RetentionOK, Sweep
    <3>2. CASE DeleteCommits
      BY <3>1, <3>2 DEF DeleteCommits, TypeOK, RetentionOK, Sweep
    <3>3. CASE \E committed \in BOOLEAN : DeleteFails(committed)
      BY <3>1, <3>3 DEF DeleteFails, TypeOK, RetentionOK, Sweep, NoSweep
    <3> QED BY <1>2, <3>2, <3>3 DEF DeleteCalls
  <2>3. items' \in [Exports -> SUBSET Calls]
    BY <1>2 DEF DeleteCalls, TypeOK, DatasetOK
  <2>4. (upsets \in 0 .. MaxUpsets)'
    BY <1>2, UpsetTypes DEF DeleteCalls, TypeOK
  <2> QED BY <1>2, <2>1, <2>2, <2>3, <2>4 DEF TypeOK, MediaOK, DatasetOK, DeleteCalls
<1> QED BY <1>1, <1>2

LEMMA RetentionErrorTypes == ASSUME TypeOK, RetentionError PROVE TypeOK'
<1>1. MediaOK' /\ RetentionOK'
  <2>1. CASE StageFails
    BY <2>1 DEF StageFails, TypeOK, MediaOK, RetentionOK, MoveBack, Sweep, NoSweep
  <2>2. CASE RetentionCrash
    BY <2>2 DEF RetentionCrash, TypeOK, MediaOK, RetentionOK, Sweep, NoSweep, media
  <2>3. ASSUME NEW c \in Calls, TidyFails(c) PROVE MediaOK' /\ RetentionOK'
    BY <2>3 DEF TidyFails, TypeOK, MediaOK, RetentionOK, Sweep, media
  <2> QED BY <2>1, <2>2, <2>3 DEF RetentionError
<1> QED BY <1>1, UpsetTypes DEF RetentionError, TypeOK, DatasetOK, datasetVars

LEMMA ProtectionTypes == ASSUME TypeOK, ProtectionStep PROVE TypeOK'
<1>1. MediaOK'
  <2>1. ASSUME NEW c \in Calls, ProtectCall(c) PROVE MediaOK'
    BY <2>1 DEF TypeOK, MediaOK, ProtectCall
  <2>2. ASSUME NEW c \in Calls, ProtectionExpires(c) PROVE MediaOK'
    BY <2>2, ProtectionAssumption DEF TypeOK, MediaOK, ProtectionExpires
  <2> QED BY <2>1, <2>2 DEF ProtectionStep
<1>2. UNCHANGED <<retentionVars, datasetVars, upsets>>
  BY DEF ProtectionStep
<1>3. RetentionOK'
  BY <1>2 DEF TypeOK, RetentionOK, retentionVars
<1>4. DatasetOK'
  BY <1>2 DEF TypeOK, DatasetOK, datasetVars
<1> QED BY <1>1, <1>2, <1>3, <1>4 DEF TypeOK

Marks == {"overlapped", "doubled", "cut", "reply lost"}
\* What the requests and the workers write.
LEMMA WritesTypes ==
  ASSUME DatasetOK, NEW e \in Exports
  PROVE  /\ \A cs \in SUBSET Calls : NewExport(cs) \in Export
         /\ \A m \in Marks : Mark(e, m) \in [Exports -> SUBSET Marks]
         /\ MarkIfBuilt(e) \in [Exports -> SUBSET Marks]
         /\ FileRemoved(e) \in [Exports -> Archive \cup {None}]
         /\ Status(e) # "none" => export[e] \in Export
         /\ \A b \in Builders : Built(b) \in Archive /\ builder[b] \in Builder
<1>1. \A cs \in SUBSET Calls : NewExport(cs) \in Export
  BY DEF NewExport, Export
<1>2. \A m \in Marks : Mark(e, m) \in [Exports -> SUBSET Marks]
  BY DEF DatasetOK, Mark, Marks
<1>3. MarkIfBuilt(e) \in [Exports -> SUBSET Marks]
  BY <1>2 DEF DatasetOK, MarkIfBuilt, Marks
<1>4. FileRemoved(e) \in [Exports -> Archive \cup {None}]
  BY DEF DatasetOK, FileRemoved
<1>5. Status(e) # "none" => export[e] \in Export
  BY DEF DatasetOK, Status
<1>6. \A b \in Builders : Built(b) \in Archive /\ builder[b] \in Builder
  BY DEF DatasetOK, Built, Archive, Builder
<1> QED BY <1>1, <1>2, <1>3, <1>4, <1>5, <1>6

LEMMA CreateTypes ==
  ASSUME DatasetOK, NEW e \in Exports, NEW doomed, CreateBegins(e, doomed) \/ CreateCommits(e) \/ CreateFails(e)
  PROVE  DatasetOK'
<1>1. CASE CreateBegins(e, doomed)
  <2>1. PICK cs \in SUBSET {c \in Reviewed : Exists(c)} :
          /\ draft' = [draft EXCEPT ![e] = cs]
          /\ history' = IF cs \cap doomed # {} THEN Mark(e, "overlapped") ELSE history
    BY <1>1 DEF CreateBegins
  <2>2. cs \in SUBSET Calls
    BY ExportAssumption
  <2>3. history' \in [Exports -> SUBSET Marks]
    BY <2>1, WritesTypes DEF Marks, DatasetOK
  <2> QED BY <1>1, <2>1, <2>2, <2>3 DEF CreateBegins, DatasetOK, Marks
<1>2. CASE CreateCommits(e)
  <2>1. NewExport(draft[e]) \in Export
    BY WritesTypes DEF DatasetOK
  <2> QED BY <1>2, <2>1 DEF CreateCommits, DatasetOK
<1>3. CASE CreateFails(e)
  BY <1>3 DEF CreateFails, DatasetOK
<1> QED BY <1>1, <1>2, <1>3

LEMMA RequestTypes ==
  ASSUME DatasetOK, Busy, NEW e \in Exports,
         CancelExport(e) \/ DeleteFile(e) \/ DeleteRow(e) \/ DayPasses(e) \/ LeaseLapses(e)
  PROVE  DatasetOK'
<1>1. export[e] \in Export
  BY DEF CancelExport, DeleteFile, DeleteRow, DayPasses, LeaseLapses, Active, Ended, Finished, Status, DatasetOK, Busy
<1>2. CASE CancelExport(e)
  <2>1. [export[e] EXCEPT !.status = "cancelled", !.lease = "none"] \in Export
    BY <1>1 DEF Export
  <2> QED BY <1>2, <2>1, WritesTypes DEF CancelExport, DatasetOK, Marks
<1>3. CASE DeleteFile(e)
  BY <1>3, WritesTypes DEF DeleteFile, DatasetOK
<1>6. CASE DeleteRow(e)
  <2>1. [export[e] EXCEPT !.status = "deleted", !.output = None, !.due = FALSE] \in Export
    BY <1>1 DEF Export
  <2> QED BY <1>6, <2>1 DEF DeleteRow, DatasetOK
<1>4. CASE DayPasses(e)
  <2>1. [export[e] EXCEPT !.due = TRUE] \in Export
    BY <1>1 DEF Export
  <2> QED BY <1>4, <2>1 DEF DayPasses, DatasetOK
<1>5. CASE LeaseLapses(e)
  <2>1. [export[e] EXCEPT !.lease = "lapsed"] \in Export
    BY <1>1 DEF Export
  <2> QED BY <1>5, <2>1 DEF LeaseLapses, DatasetOK
<1> QED BY <1>2, <1>3, <1>4, <1>5, <1>6

LEMMA ClaimTypes ==
  ASSUME DatasetOK, NEW b \in Builders, NEW e \in Exports, Claim(b, e) \/ ExpireRemove(b, e)
  PROVE  DatasetOK'
<1>1. CASE Claim(b, e)
  <2>1. [export[e] EXCEPT !.status = "running", !.lease = "held"] \in Export
    BY <1>1, WritesTypes DEF Claim, Claimable, Export, Status
  <2>2. [Resting EXCEPT !.pc = "load", !.export = e] \in Builder
    BY DEF Resting, Builder
  <2> QED BY <1>1, <2>1, <2>2, WritesTypes DEF Claim, DatasetOK, Marks
<1>2. CASE ExpireRemove(b, e)
  <2>1. [Resting EXCEPT !.pc = "expire", !.export = e] \in Builder
    BY DEF Resting, Builder
  <2> QED BY <1>2, <2>1, WritesTypes DEF ExpireRemove, DatasetOK
<1> QED BY <1>1, <1>2

\* What a worker writes.
LEMMA RecordsTypes ==
  ASSUME DatasetOK, NEW b \in Builders, builder[b].export \in Exports
  PROVE  /\ Renewed(builder[b].export) \in [Exports -> Export \cup {None}]
         /\ Recorded(b) \in [Exports -> Export \cup {None}]
<1> DEFINE e == builder[b].export
<1>1. Renewed(e) \in [Exports -> Export \cup {None}]
  <2>1. CASE Status(e) = "running"
    <3>0. export[e] \in Export
      BY <2>1, WritesTypes
    <3>1. [export[e] EXCEPT !.lease = "held"] \in Export
      BY <3>0 DEF Export
    <3> QED BY <2>1, <3>1 DEF Renewed, DatasetOK
  <2>2. CASE Status(e) # "running"
    BY <2>2 DEF Renewed, DatasetOK
  <2> QED BY <2>1, <2>2
<1>2. Recorded(b) \in [Exports -> Export \cup {None}]
  <2>1. CASE Status(e) = "running"
    <3>1. export[e] \in Export /\ Built(b) \in Archive /\ Outcome(b) \in {"completed", "with warnings"}
      BY <2>1, WritesTypes DEF Outcome
    <3>2. WithOutput(b) \in Export
      BY <3>1 DEF WithOutput, Export
    <3> QED BY <2>1, <3>2 DEF Recorded, DatasetOK
  <2>2. CASE Status(e) # "running"
    BY <2>2 DEF Recorded, DatasetOK
  <2> QED BY <2>1, <2>2
<1> QED BY <1>1, <1>2

LEMMA RestTypes ==
  ASSUME DatasetOK, NEW b \in Builders
  PROVE  /\ Rest(b) => builder' \in [Builders -> Builder]
         /\ \A pc \in {"check", "read", "seal", "record", "fail"} : Go(b, pc) => builder' \in [Builders -> Builder]
<1>1. builder[b] \in Builder /\ Resting \in Builder
  BY DEF DatasetOK, Resting, Builder
<1>2. \A pc \in {"check", "read", "seal", "record", "fail"} : [builder[b] EXCEPT !.pc = pc] \in Builder
  BY <1>1 DEF Builder
<1> QED BY <1>1, <1>2 DEF Rest, Go, DatasetOK

LEMMA BuildTypes ==
  ASSUME DatasetOK, Busy, NEW b \in Builders,
         Load(b) \/ CheckItem(b) \/ (\E decodes \in BOOLEAN : ReadItem(b, decodes)) \/ BuildFails(b)
  PROVE  DatasetOK'
<1>1. builder[b] \in Builder /\ builder[b].export \in Exports
  BY DEF Load, CheckItem, ReadItem, BuildFails, At, Busy, DatasetOK
<1>2. CASE Load(b)
  <2>1. [builder[b] EXCEPT !.pc = "check", !.todo = items[builder[b].export]] \in Builder
    BY <1>1 DEF Builder, DatasetOK
  <2> QED BY <1>2, <2>1, RestTypes DEF Load, DatasetOK
<1>3. CASE CheckItem(b)
  BY <1>1, <1>3, RestTypes, RecordsTypes DEF CheckItem, DatasetOK
<1>4. ASSUME NEW decodes \in BOOLEAN, ReadItem(b, decodes) PROVE DatasetOK'
  <2> DEFINE After(c) == [builder[b] EXCEPT !.pc = "check", !.todo = @ \ {c},
               !.got = IF audio[c] = "in place" /\ decodes THEN @ \cup {c} ELSE @,
               !.missed = @ \/ audio[c] # "in place" \/ ~decodes]
  <2>1. PICK c \in builder[b].todo : builder' =
          [builder EXCEPT ![b].pc = "check", ![b].todo = @ \ {c},
             ![b].got = IF audio[c] = "in place" /\ decodes THEN @ \cup {c} ELSE @,
             ![b].missed = @ \/ audio[c] # "in place" \/ ~decodes]
    BY Zenon, <1>4 DEF ReadItem
  <2>2. After(c) \in Builder
    BY <1>1 DEF Builder
  <2>3. builder' \in [Builders -> Builder]
    BY <2>1, <2>2 DEF DatasetOK
  <2> QED BY <1>1, <1>4, <2>3, RecordsTypes DEF ReadItem, DatasetOK
<1>5. CASE BuildFails(b)
  BY <1>5, RestTypes DEF BuildFails, DatasetOK
<1> QED BY <1>2, <1>3, <1>4, <1>5

LEMMA OutcomeTypes ==
  ASSUME DatasetOK, Busy, NEW b \in Builders,
         Seal(b) \/ Record(b) \/ (\E applied \in BOOLEAN : RecordFails(b, applied))
  PROVE  DatasetOK'
<1>1. builder[b] \in Builder /\ builder[b].export \in Exports
  BY DEF Seal, Record, RecordFails, At, Busy, DatasetOK
<1>2. CASE Seal(b)
  BY <1>1, <1>2, RestTypes, WritesTypes DEF Seal, DatasetOK
<1>3. CASE Record(b)
  BY <1>1, <1>3, RestTypes, RecordsTypes DEF Record, DatasetOK
<1>4. ASSUME NEW applied \in BOOLEAN, RecordFails(b, applied) PROVE DatasetOK'
  BY <1>1, <1>4, RestTypes, RecordsTypes, WritesTypes DEF RecordFails, DatasetOK, Marks
<1> QED BY <1>2, <1>3, <1>4

LEMMA EndTypes ==
  ASSUME DatasetOK, Busy, NEW b \in Builders,
         RecordFailure(b) \/ FailureNotRecorded(b) \/ BuilderStops(b) \/ ExpireRecord(b)
  PROVE  DatasetOK'
<1> DEFINE e == builder[b].export
<1>1. builder[b] \in Builder /\ e \in Exports /\ export[e] \in Export
  BY DEF RecordFailure, FailureNotRecorded, BuilderStops, ExpireRecord, At, Busy, DatasetOK
<1>2. CASE RecordFailure(b)
  <2>1. export' \in [Exports -> Export \cup {None}]
    <3>1. [export[e] EXCEPT !.status = "failed", !.lease = "none"] \in Export
      BY <1>1 DEF Export
    <3> QED BY <1>1, <1>2, <3>1 DEF RecordFailure, DatasetOK
  <2> QED BY <1>2, <2>1, RestTypes DEF RecordFailure, DatasetOK
<1>3. CASE FailureNotRecorded(b)
  BY <1>3, RestTypes DEF FailureNotRecorded, DatasetOK
<1>4. CASE BuilderStops(b)
  BY <1>1, <1>4, RestTypes, WritesTypes DEF BuilderStops, DatasetOK, Marks
<1>5. CASE ExpireRecord(b)
  <2>1. [export[e] EXCEPT !.status = "expired", !.output = None] \in Export
    BY <1>1 DEF Export
  <2> QED BY <1>5, <2>1, RestTypes DEF ExpireRecord, DatasetOK
<1> QED BY <1>2, <1>3, <1>4, <1>5

\* Exports do not vanish, and a worker changes its export only when it takes one up.
LEMMA RequestsKeepBusy ==
  ASSUME DatasetOK, Busy, NEW e \in Exports,
         \/ \E doomed \in {{}, sweep.doomed} : CreateBegins(e, doomed)
         \/ CreateCommits(e) \/ CreateFails(e) \/ CancelExport(e) \/ DeleteFile(e) \/ DeleteRow(e) \/ DayPasses(e) \/ LeaseLapses(e)
  PROVE  Busy'
<1>1. builder' = builder
  BY DEF CreateBegins, CreateCommits, CreateFails, CancelExport, DeleteFile, DeleteRow, DayPasses, LeaseLapses
<1>2. \A x \in Exports : export[x] # None => export'[x] # None
  <2>1. CASE UNCHANGED export
    BY <2>1
  <2>2. CASE CreateCommits(e)
    <3>0. NewExport(draft[e]) \in Export
      BY WritesTypes DEF DatasetOK
    <3>1. NewExport(draft[e]) # None
      BY <3>0, ExportAssumption
    <3> QED BY <2>2, <3>1 DEF CreateCommits, DatasetOK
  <2>3. CASE CancelExport(e) \/ DeleteRow(e) \/ DayPasses(e) \/ LeaseLapses(e)
    <3>1. export[e] \in Export
      BY <2>3 DEF CancelExport, DeleteRow, DayPasses, LeaseLapses, Active, Ended, Finished, Status, DatasetOK, Busy
    <3>2. PICK new \in Export : export' = [export EXCEPT ![e] = new]
      <4>1. /\ [export[e] EXCEPT !.status = "cancelled", !.lease = "none"] \in Export
            /\ [export[e] EXCEPT !.status = "deleted", !.output = None, !.due = FALSE] \in Export
            /\ [export[e] EXCEPT !.due = TRUE] \in Export
            /\ [export[e] EXCEPT !.lease = "lapsed"] \in Export
        BY <3>1 DEF Export
      <4>2. CASE CancelExport(e)
        BY <4>1, <4>2 DEF CancelExport
      <4>3. CASE DeleteRow(e)
        BY <4>1, <4>3 DEF DeleteRow
      <4>4. CASE DayPasses(e)
        BY <4>1, <4>4 DEF DayPasses
      <4>5. CASE LeaseLapses(e)
        BY <4>1, <4>5 DEF LeaseLapses
      <4> QED BY <2>3, <4>2, <4>3, <4>4, <4>5
    <3> QED BY <3>2, ExportAssumption DEF DatasetOK
  <2> QED BY <2>1, <2>2, <2>3 DEF CreateBegins, CreateFails, DeleteFile
<1>3. /\ removing \subseteq Exports /\ removing' \subseteq removing \cup {e}
      /\ e \in removing' \ removing => export[e] # None
  BY DEF DatasetOK, CreateBegins, CreateCommits, CreateFails, CancelExport, DeleteFile, DeleteRow, DayPasses,
         LeaseLapses, Ended, Status
<1> QED BY <1>1, <1>2, <1>3 DEF Busy

\* How the row of its export changes when a worker is at it.
Rows(e) == \/ export' = export
           \/ \E new \in Export : export' = [export EXCEPT ![e] = new]
LEMMA WorkersKeepBusy ==
  ASSUME DatasetOK, Busy, NEW b \in Builders, NEW e \in Exports, export[e] # None, Rows(e),
         \A x \in Builders \ {b} : builder'[x] = builder[x],
         builder'[b].pc # "idle" => builder'[b].export = e, removing' = removing
  PROVE  Busy'
<1>1. \A x \in Exports : export[x] # None => export'[x] # None
  BY ExportAssumption DEF Rows, DatasetOK
<1> QED BY <1>1 DEF Busy, DatasetOK

\* Workers have nothing to do with deletions.
LEMMA WorkersRemoveNothing ==
  ASSUME NEW b \in Builders,
         \/ Load(b) \/ CheckItem(b) \/ (\E decodes \in BOOLEAN : ReadItem(b, decodes)) \/ BuildFails(b)
         \/ Seal(b) \/ Record(b) \/ (\E applied \in BOOLEAN : RecordFails(b, applied))
         \/ RecordFailure(b) \/ FailureNotRecorded(b) \/ BuilderStops(b) \/ ExpireRecord(b)
         \/ (\E x \in Exports : Claim(b, x) \/ ExpireRemove(b, x))
  PROVE  removing' = removing
BY DEF Load, CheckItem, ReadItem, BuildFails, Seal, Record, RecordFails, RecordFailure, FailureNotRecorded,
       BuilderStops, ExpireRecord, Claim, ExpireRemove

\* A worker step as it changes the row of the export and the worker.
LEMMA WorkerChanges ==
  ASSUME DatasetOK, Busy, NEW b \in Builders, NEW e \in Exports, e = builder[b].export,
         \/ Load(b) \/ CheckItem(b) \/ (\E decodes \in BOOLEAN : ReadItem(b, decodes)) \/ BuildFails(b)
         \/ Seal(b) \/ Record(b) \/ (\E applied \in BOOLEAN : RecordFails(b, applied))
         \/ RecordFailure(b) \/ FailureNotRecorded(b) \/ BuilderStops(b) \/ ExpireRecord(b)
  PROVE  /\ builder[b].pc # "idle" /\ builder[b] \in Builder /\ export[e] \in Export
         /\ Rows(e)
         /\ \A x \in Builders \ {b} : builder'[x] = builder[x]
         /\ builder'[b].pc # "idle" => builder'[b].export = e
<1>1. /\ builder[b].pc # "idle" /\ builder[b] \in Builder /\ export[e] \in Export
  BY DEF Load, CheckItem, ReadItem, BuildFails, Seal, Record, RecordFails, RecordFailure,
         FailureNotRecorded, BuilderStops, ExpireRecord, At, Busy, DatasetOK
<1>2. Rows(e)
  <2>1. Renewed(e) = export \/ \E new \in Export : Renewed(e) = [export EXCEPT ![e] = new]
    <3>1. [export[e] EXCEPT !.lease = "held"] \in Export
      BY <1>1 DEF Export
    <3> QED BY <3>1 DEF Renewed
  <2>2. Recorded(b) = export \/ \E new \in Export : Recorded(b) = [export EXCEPT ![e] = new]
    <3>1. Built(b) \in Archive /\ Outcome(b) \in {"completed", "with warnings"}
      BY WritesTypes DEF Outcome
    <3>2. WithOutput(b) \in Export
      BY <1>1, <3>1 DEF WithOutput, Export
    <3> QED BY <3>2 DEF Recorded
  <2>3. /\ [export[e] EXCEPT !.status = "failed", !.lease = "none"] \in Export
        /\ [export[e] EXCEPT !.status = "expired", !.output = None] \in Export
    BY <1>1 DEF Export
  <2>4. CASE CheckItem(b) \/ \E decodes \in BOOLEAN : ReadItem(b, decodes)
    BY <2>1, <2>4 DEF Rows, CheckItem, ReadItem
  <2>5. CASE Record(b) \/ \E applied \in BOOLEAN : RecordFails(b, applied)
    BY <2>2, <2>5 DEF Rows, Record, RecordFails
  <2>6. CASE RecordFailure(b)
    BY <2>3, <2>6 DEF Rows, RecordFailure
  <2>7. CASE ExpireRecord(b)
    BY <2>3, <2>7 DEF Rows, ExpireRecord
  <2>8. CASE Load(b) \/ BuildFails(b) \/ Seal(b) \/ FailureNotRecorded(b) \/ BuilderStops(b)
    BY <2>8 DEF Rows, Load, BuildFails, Seal, FailureNotRecorded, BuilderStops
  <2> QED BY <2>4, <2>5, <2>6, <2>7, <2>8
<1>3. \A x \in Builders \ {b} : builder'[x] = builder[x]
  BY DEF Load, CheckItem, ReadItem, BuildFails, Seal, Record, RecordFails, RecordFailure,
         FailureNotRecorded, BuilderStops, ExpireRecord, Go, Rest, DatasetOK
<1>4. builder'[b].pc # "idle" => builder'[b].export = e
  <2>0. builder \in [Builders -> Builder]
    BY DEF DatasetOK
  <2>1. ASSUME NEW decodes \in BOOLEAN, ReadItem(b, decodes) PROVE builder'[b].export = e
    <3>1. PICK c \in builder[b].todo :
       builder' = [builder EXCEPT ![b].pc = "check", ![b].todo = @ \ {c},
         ![b].got = IF audio[c] = "in place" /\ decodes THEN @ \cup {c} ELSE @,
         ![b].missed = @ \/ audio[c] # "in place" \/ ~decodes]
      BY <2>1 DEF ReadItem
    <3> QED BY <1>1, <2>0, <3>1 DEF Builder
  <2>2. ASSUME NEW pc \in {"check", "read", "seal", "record", "fail"}, Go(b, pc) PROVE builder'[b].export = e
    BY <1>1, <2>0, <2>2 DEF Go, Builder
  <2>3. CASE Load(b)
    <3>1. CASE builder' = [builder EXCEPT ![b].pc = "check", ![b].todo = items[e]]
      BY <1>1, <2>0, <3>1 DEF Builder
    <3> QED BY <2>2, <2>3, <3>1 DEF Load
  <2>4. Rest(b) => builder'[b].pc = "idle"
    <3>1. Rest(b) => builder'[b] = Resting
      BY <2>0 DEF Rest
    <3> QED BY <3>1 DEF Resting
  <2>5. CASE CheckItem(b) \/ BuildFails(b) \/ Seal(b)
    BY <2>2, <2>4, <2>5 DEF CheckItem, BuildFails, Seal
  <2>6. CASE Record(b) \/ RecordFailure(b) \/ FailureNotRecorded(b) \/ BuilderStops(b) \/ ExpireRecord(b)
    BY <2>4, <2>6 DEF Record, RecordFailure, FailureNotRecorded, BuilderStops, ExpireRecord
  <2>7. CASE \E applied \in BOOLEAN : RecordFails(b, applied)
    BY <2>2, <2>7 DEF RecordFails
  <2> QED BY <2>1, <2>3, <2>5, <2>6, <2>7
<1> QED BY <1>1, <1>2, <1>3, <1>4

Types == TypeOK /\ Busy
LEMMA TypesStep == Types /\ [Next]_vars => Types'
<1> SUFFICES ASSUME Types, [Next]_vars PROVE Types'
  OBVIOUS
<1>0. DatasetOK /\ MediaOK /\ RetentionOK /\ upsets \in 0 .. MaxUpsets /\ Busy
  BY DEF Types, TypeOK
<1>1. CASE RetentionStep
  BY <1>1, RetentionStepTypes DEF Types, RetentionStep, datasetVars, Busy
<1>2. CASE DeleteSnapshot \/ DeleteCalls
  BY <1>2, DeleteTypes DEF Types, DeleteSnapshot, DeleteCalls, Busy
<1>3. CASE RetentionError
  BY <1>3, RetentionErrorTypes DEF Types, RetentionError, datasetVars, Busy
<1>4. CASE ProtectionStep
  BY <1>4, ProtectionTypes DEF Types, ProtectionStep, datasetVars, Busy
\* What leaves retention alone keeps its types when it keeps those of the exports.
<1>5. ASSUME UNCHANGED <<media, retentionVars>>, DatasetOK', Busy', upsets' = upsets \/ Upset PROVE Types'
  BY <1>0, <1>5, UpsetTypes DEF Types, TypeOK, MediaOK, RetentionOK, media, retentionVars
<1>6. CASE RequestStep \/ RequestFails
  <2>1. PICK e \in Exports : \/ \E doomed \in {{}, sweep.doomed} : CreateBegins(e, doomed)
                             \/ CreateFails(e) \/ CancelExport(e) \/ DeleteFile(e) \/ DeleteRow(e)
    BY <1>6 DEF RequestStep, RequestFails
  <2>2. DatasetOK' /\ Busy'
    BY <1>0, <2>1, CreateTypes, RequestTypes, RequestsKeepBusy
  <2>3. UNCHANGED media
    BY <2>1 DEF CreateBegins, CreateFails, CancelExport, DeleteFile, DeleteRow
  <2> QED BY <1>5, <1>6, <2>2, <2>3 DEF RequestStep, RequestFails
<1>7. ASSUME NEW e \in Exports, CommitStep(e) \/ LapseStep(e) \/ SlowBuilder(e) PROVE Types'
  <2>1. DatasetOK' /\ Busy'
    BY <1>0, <1>7, CreateTypes, RequestTypes, RequestsKeepBusy DEF CommitStep, LapseStep, SlowBuilder
  <2>2. UNCHANGED media
    BY <1>7 DEF CommitStep, LapseStep, SlowBuilder, CreateCommits, LeaseLapses
  <2> QED BY <1>5, <1>7, <2>1, <2>2 DEF CommitStep, LapseStep, SlowBuilder, retentionVars
<1>8. ASSUME NEW b \in Builders, NEW e \in Exports, Claim(b, e) \/ ExpireRemove(b, e) PROVE DatasetOK' /\ Busy'
  <2>1. DatasetOK'
    BY <1>0, <1>8, ClaimTypes
  <2>2. builder'[b].export = e /\ \A x \in Builders \ {b} : builder'[x] = builder[x]
    <3>1. PICK pc \in {"load", "expire"} : builder' = [builder EXCEPT ![b] = [Resting EXCEPT !.pc = pc, !.export = e]]
      BY <1>8 DEF Claim, ExpireRemove
    <3>2. [Resting EXCEPT !.pc = pc, !.export = e].export = e
      BY DEF Resting
    <3>3. builder \in [Builders -> Builder]
      BY <1>0 DEF DatasetOK
    <3> QED BY <3>1, <3>2, <3>3
  <2>3. export[e] \in Export
    BY <1>0, <1>8 DEF Claim, ExpireRemove, Claimable, Finished, Status, DatasetOK
  <2>4. Rows(e)
    <3>1. [export[e] EXCEPT !.status = "running", !.lease = "held"] \in Export
      BY <2>3 DEF Export
    <3>2. CASE Claim(b, e)
      <4>1. export' = [export EXCEPT ![e].status = "running", ![e].lease = "held"]
        BY <3>2 DEF Claim
      <4>2. export'[e] = [export[e] EXCEPT !.status = "running", !.lease = "held"] /\ export \in [Exports -> Export \cup {None}]
        BY <1>0, <4>1 DEF DatasetOK
      <4> QED BY <1>0, <3>1, <4>1, <4>2 DEF Rows
    <3>3. CASE ExpireRemove(b, e)
      BY <3>3 DEF Rows, ExpireRemove
    <3> QED BY <1>8, <3>2, <3>3
  <2>5. export[e] # None
    <3>1. None \notin Export
      BY Zenon, ExportAssumption
    <3> QED BY Zenon, <2>3, <3>1
  <2>6. removing' = removing
    BY <1>8 DEF Claim, ExpireRemove
  <2> QED BY <1>0, <2>1, <2>2, <2>4, <2>5, <2>6, WorkersKeepBusy
<1>9. ASSUME NEW b \in Builders,
             \/ Load(b) \/ CheckItem(b) \/ (\E decodes \in BOOLEAN : ReadItem(b, decodes)) \/ BuildFails(b)
             \/ Seal(b) \/ Record(b) \/ (\E applied \in BOOLEAN : RecordFails(b, applied))
             \/ RecordFailure(b) \/ FailureNotRecorded(b) \/ BuilderStops(b) \/ ExpireRecord(b)
      PROVE  DatasetOK' /\ Busy'
  <2>1. DatasetOK'
    BY <1>0, <1>9, BuildTypes, OutcomeTypes, EndTypes
  <2>2. builder[b].export \in Exports /\ export[builder[b].export] # None
    BY <1>0, <1>9 DEF Load, CheckItem, ReadItem, BuildFails, Seal, Record, RecordFails, RecordFailure,
         FailureNotRecorded, BuilderStops, ExpireRecord, At, Busy
  <2>3. removing' = removing
    BY <1>9, WorkersRemoveNothing
  <2> QED BY <1>0, <1>9, <2>1, <2>2, <2>3, WorkerChanges, WorkersKeepBusy
<1>10. ASSUME NEW b \in Builders, ClaimStep(b) \/ BuildStep(b) \/ BuildError(b) PROVE Types'
  <2>1. UNCHANGED media
    BY <1>10 DEF ClaimStep, BuildStep, BuildError, Claim, Load, CheckItem, ReadItem, BuildFails, Seal, Record,
         RecordFails, RecordFailure, FailureNotRecorded, BuilderStops
  <2>2. DatasetOK' /\ Busy'
    BY <1>8, <1>9, <1>10 DEF ClaimStep, BuildStep, BuildError
  <2> QED BY <1>5, <1>10, <2>1, <2>2 DEF ClaimStep, BuildStep, BuildError, retentionVars
<1>11. CASE ExpiryStep
  <2>1. UNCHANGED media
    BY <1>11 DEF ExpiryStep, DayPasses, ExpireRecord, ExpireRemove
  <2>2. DatasetOK' /\ Busy'
    BY <1>0, <1>8, <1>9, <1>11, RequestTypes, RequestsKeepBusy DEF ExpiryStep
  <2> QED BY <1>5, <1>11, <2>1, <2>2 DEF ExpiryStep, retentionVars
<1>12. CASE UNCHANGED vars
  BY <1>0, <1>12 DEF vars, media, retentionVars, datasetVars, Types, TypeOK, MediaOK, RetentionOK, DatasetOK, Busy
<1> QED BY <1>1, <1>2, <1>3, <1>4, <1>6, <1>7, <1>10, <1>11, <1>12 DEF Next

-------------------------------------------------------------------------------
(* A retention run and the files.                                                *)

Follows(c) == audio[c] = IF Exists(c) THEN "in place" ELSE "removed"
\* While files are staged, a candidate is still to be staged or in the trash; while they are
\* tidied up, those still to do are in the trash, and the doomed ones have no row.
Placed(c) ==
  /\ sweep.pc = "idle" => Follows(c)
  /\ sweep.pc \in {"stage", "delete"} =>
       /\ c \in sweep.ids => Exists(c) /\ (c \in sweep.moved \/ c \in sweep.todo)
       /\ c \in sweep.todo => c \in sweep.ids
       /\ c \in sweep.moved => c \in sweep.ids /\ c \notin sweep.todo /\ audio[c] = "in trash"
       /\ c \notin sweep.moved => Follows(c)
  /\ sweep.pc = "delete" => c \notin sweep.todo /\ (c \in sweep.doomed => c \in sweep.ids)
  /\ sweep.pc = "tidy" =>
       /\ c \in sweep.todo => c \in sweep.moved /\ audio[c] = "in trash" /\ (Exists(c) <=> c \notin sweep.doomed)
       /\ c \notin sweep.todo => Follows(c)
FilesInv == MediaOK /\ RetentionOK /\ \A c \in Calls \ stranded : Placed(c)

LEMMA FilesStay ==
  ASSUME FilesInv, MediaOK', UNCHANGED <<audio, sweep, stranded>>, \A c \in Calls : Exists(c)' = Exists(c)
  PROVE  FilesInv'
BY DEF FilesInv, RetentionOK, Placed, Follows

LEMMA StartKeepsFiles ==
  ASSUME FilesInv, NEW held, RetentionStart(held), MediaOK', RetentionOK' PROVE FilesInv'
<1>1. /\ sweep.pc = "idle" /\ UNCHANGED <<row, audio, stranded>>
      /\ sweep' = [pc |-> "stage", ids |-> Deletable(held), todo |-> Deletable(held), moved |-> {}, doomed |-> {}]
  BY DEF RetentionStart, NoSweep, media
<1>2. \A c \in Deletable(held) : Exists(c)
  BY DEF Deletable
<1> QED BY <1>1, <1>2 DEF FilesInv, Placed, Follows, Exists

LEMMA StageKeepsFiles ==
  ASSUME FilesInv, NEW c \in Calls, StageFile(c), MediaOK', RetentionOK' PROVE FilesInv'
<1> SUFFICES ASSUME NEW d \in Calls \ stranded PROVE Placed(d)'
  BY DEF FilesInv, StageFile
<1>1. /\ sweep.pc = "stage" /\ c \in sweep.todo /\ UNCHANGED <<row, stranded>>
      /\ sweep'.pc = "stage" /\ sweep'.ids = sweep.ids /\ sweep'.todo = sweep.todo \ {c}
      /\ sweep'.moved = IF audio[c] = "in place" THEN sweep.moved \cup {c} ELSE sweep.moved
  BY DEF StageFile, FilesInv, RetentionOK, Sweep
<1>2. Placed(d)
  BY DEF FilesInv
<1>3. CASE d = c
  <2>1. audio[c] = "in place" /\ c \in sweep.ids
    BY <1>1, <1>2, <1>3 DEF Placed, Follows
  <2>2. audio'[c] = "in trash" /\ c \in sweep'.moved
    <3>1. audio' = [audio EXCEPT ![c] = "in trash"] /\ sweep'.moved = sweep.moved \cup {c}
      BY <1>1, <2>1 DEF StageFile
    <3> QED BY <3>1 DEF FilesInv, MediaOK
  <2> QED BY <1>1, <1>2, <1>3, <2>1, <2>2 DEF Placed, Follows, Exists
<1>4. CASE d # c
  <2>1. audio'[d] = audio[d]
    BY <1>4 DEF StageFile, FilesInv, MediaOK
  <2> QED BY <1>1, <1>2, <1>4, <2>1 DEF Placed, Follows, Exists
<1> QED BY <1>3, <1>4

LEMMA StageFailsKeepsFiles == ASSUME FilesInv, StageFails, MediaOK', RetentionOK' PROVE FilesInv'
<1> SUFFICES ASSUME NEW d \in Calls \ stranded' PROVE Follows(d)' /\ sweep'.pc = "idle"
  BY DEF FilesInv, StageFails, Placed, NoSweep
<1>1. Placed(d) /\ audio'[d] = IF d \in sweep.moved THEN "in place" ELSE audio[d]
  BY DEF FilesInv, StageFails, MoveBack
<1> QED BY <1>1 DEF StageFails, NoSweep, Placed, Follows, Exists

LEMMA DeleteBeginsKeepsFiles ==
  ASSUME FilesInv, NEW held, DeleteBegins(held), MediaOK', RetentionOK' PROVE FilesInv'
<1>1. /\ sweep.pc = "stage" /\ sweep.todo = {} /\ UNCHANGED <<row, audio, stranded>>
      /\ sweep'.pc = "delete" /\ sweep'.ids = sweep.ids /\ sweep'.todo = sweep.todo
      /\ sweep'.moved = sweep.moved /\ sweep'.doomed \subseteq sweep.ids
  BY DEF DeleteBegins, FilesInv, RetentionOK, Sweep, media, Selected
<1> QED BY <1>1 DEF FilesInv, Placed, Follows, Exists

LEMMA DeleteCommitsKeepsFiles == ASSUME FilesInv, DeleteCommits, MediaOK', RetentionOK' PROVE FilesInv'
<1> SUFFICES ASSUME NEW d \in Calls \ stranded PROVE Placed(d)'
  BY DEF FilesInv, DeleteCommits
<1>1. /\ sweep.pc = "delete" /\ UNCHANGED <<audio, stranded>>
      /\ sweep'.pc = "tidy" /\ sweep'.doomed = Doomed /\ sweep'.todo = sweep.moved /\ sweep'.moved = sweep.moved
  BY DEF DeleteCommits, FilesInv, RetentionOK, Sweep
<1>2. Placed(d) /\ row'[d] = IF d \in Doomed THEN None ELSE row[d]
  BY DEF FilesInv, DeleteCommits, Without
<1>3. d \in Doomed => d \in sweep.doomed
  BY DEF Doomed
<1> QED BY <1>1, <1>2, <1>3 DEF Placed, Follows, Exists

LEMMA DeleteFailsKeepsFiles ==
  ASSUME FilesInv, NEW committed \in BOOLEAN, DeleteFails(committed), MediaOK', RetentionOK' PROVE FilesInv'
<1> SUFFICES ASSUME NEW d \in Calls \ stranded' PROVE Follows(d)' /\ sweep'.pc = "idle"
  BY DEF FilesInv, DeleteFails, Placed, NoSweep
<1>1. Placed(d) /\ audio'[d] = IF d \in sweep.moved THEN "in place" ELSE audio[d]
  BY DEF FilesInv, DeleteFails, MoveBack
<1>2. row'[d] = row[d]
  BY DEF FilesInv, DeleteFails, Without
<1> QED BY <1>1, <1>2 DEF DeleteFails, NoSweep, Placed, Follows, Exists

LEMMA TidyKeepsFiles ==
  ASSUME FilesInv, NEW c \in Calls, TidyFile(c) \/ TidyFails(c), MediaOK', RetentionOK' PROVE FilesInv'
<1> SUFFICES ASSUME NEW d \in Calls \ stranded' PROVE Placed(d)'
  BY DEF FilesInv
<1>1. /\ sweep.pc = "tidy" /\ c \in sweep.todo /\ row' = row
      /\ sweep'.pc = "tidy" /\ sweep'.todo = sweep.todo \ {c} /\ sweep'.doomed = sweep.doomed
      /\ sweep'.moved = sweep.moved
  BY DEF TidyFile, TidyFails, FilesInv, RetentionOK, Sweep, media
<1>2. Placed(d)
  BY DEF FilesInv, TidyFile, TidyFails
<1>3. CASE d = c
  <2>1. TidyFile(c) /\ audio'[c] = Tidied(c)
    BY <1>3 DEF TidyFile, TidyFails, FilesInv, MediaOK
  <2> QED BY <1>1, <1>2, <1>3, <2>1 DEF Placed, Follows, Exists, Tidied
<1>4. CASE d # c
  <2>1. audio'[d] = audio[d]
    BY <1>4 DEF TidyFile, TidyFails, FilesInv, MediaOK, media
  <2> QED BY <1>1, <1>2, <1>4, <2>1 DEF Placed, Follows, Exists
<1> QED BY <1>3, <1>4

LEMMA EndKeepsFiles ==
  ASSUME FilesInv, RetentionEnds \/ RetentionCrash, MediaOK', RetentionOK' PROVE FilesInv'
<1> SUFFICES ASSUME NEW d \in Calls \ stranded' PROVE Follows(d)' /\ sweep'.pc = "idle"
  BY DEF FilesInv, RetentionEnds, RetentionCrash, Placed, NoSweep
<1>1. Placed(d) /\ UNCHANGED <<row, audio>> /\ sweep'.pc = "idle"
  <2>1. d \notin stranded
    BY DEF RetentionEnds, RetentionCrash
  <2>2. Placed(d)
    BY <2>1 DEF FilesInv
  <2>3. sweep' = NoSweep /\ UNCHANGED media
    BY DEF RetentionEnds, RetentionCrash
  <2> QED BY <2>2, <2>3 DEF NoSweep, media
<1>2. CASE RetentionEnds
  BY <1>1, <1>2 DEF RetentionEnds, Placed, Follows, Exists
<1>3. CASE RetentionCrash
  <2>1. sweep \in Sweep /\ (d \in sweep.moved => audio[d] # "in trash")
    BY <1>3 DEF RetentionCrash, FilesInv, RetentionOK
  <2> QED BY <1>1, <1>3, <2>1 DEF RetentionCrash, Placed, Follows, Exists, Sweep
<1> QED BY <1>2, <1>3

LEMMA FilesStep == Types /\ FilesInv /\ [Next]_vars => FilesInv'
<1> SUFFICES ASSUME Types, FilesInv, [Next]_vars PROVE FilesInv'
  OBVIOUS
<1>0. MediaOK' /\ RetentionOK'
  BY TypesStep DEF Types, TypeOK
<1>1. CASE RetentionStep
  BY <1>0, <1>1, StartKeepsFiles, StageKeepsFiles, TidyKeepsFiles, EndKeepsFiles DEF RetentionStep
<1>2. CASE DeleteSnapshot \/ DeleteCalls
  BY <1>0, <1>2, DeleteBeginsKeepsFiles, DeleteCommitsKeepsFiles, DeleteFailsKeepsFiles DEF DeleteSnapshot, DeleteCalls
<1>3. CASE RetentionError
  BY <1>0, <1>3, StageFailsKeepsFiles, EndKeepsFiles, TidyKeepsFiles DEF RetentionError
<1>4. CASE ProtectionStep
  <2>1. UNCHANGED <<audio, sweep, stranded>>
    BY <1>4 DEF ProtectionStep, ProtectCall, ProtectionExpires, retentionVars
  <2>2. \A c \in Calls : Exists(c)' = Exists(c)
    <3>1. PICK c \in Calls, p \in Protection : Exists(c) /\ row' = [row EXCEPT ![c] = p]
      <4>1. ASSUME NEW c \in Calls, ProtectionExpires(c) PROVE Exists(c) /\ row' = [row EXCEPT ![c] = "none"]
        BY <4>1, ProtectionAssumption DEF ProtectionExpires, Exists, FilesInv, MediaOK
      <4> QED BY <1>4, <4>1, ProtectionAssumption DEF ProtectionStep, ProtectCall
    <3> QED BY <3>1, ProtectionAssumption DEF Exists, FilesInv, MediaOK
  <2> QED BY <1>0, <2>1, <2>2, FilesStay
<1>5. ASSUME UNCHANGED <<media, retentionVars>> PROVE FilesInv'
  BY <1>0, <1>5, FilesStay DEF media, retentionVars, Exists
<1>6. CASE RequestStep \/ RequestFails \/ ExpiryStep \/ UNCHANGED vars
  BY <1>5, <1>6 DEF RequestStep, RequestFails, ExpiryStep, vars, media, CreateBegins, CreateFails, CancelExport,
     DeleteFile, DeleteRow, DayPasses, ExpireRecord, ExpireRemove
<1>7. ASSUME NEW e \in Exports, CommitStep(e) \/ LapseStep(e) \/ SlowBuilder(e) PROVE FilesInv'
  BY <1>5, <1>7 DEF CommitStep, LapseStep, SlowBuilder, CreateCommits, LeaseLapses
<1>8. ASSUME NEW b \in Builders, ClaimStep(b) \/ BuildStep(b) \/ BuildError(b) PROVE FilesInv'
  BY <1>5, <1>8 DEF ClaimStep, BuildStep, BuildError, Claim, Load, CheckItem, ReadItem, BuildFails, Seal, Record,
         RecordFails, RecordFailure, FailureNotRecorded, BuilderStops
<1> QED BY <1>1, <1>2, <1>3, <1>4, <1>6, <1>7, <1>8 DEF Next

LEMMA InitHolds == Init => Types /\ FilesInv
<1> SUFFICES ASSUME Init PROVE Types /\ FilesInv
  OBVIOUS
<1>1. MediaOK /\ RetentionOK
  BY ProtectionAssumption DEF Init, MediaInit, MediaOK, RetentionInit, RetentionOK, NoSweep, Sweep
<1>2. DatasetOK /\ Busy
  BY DEF Init, DatasetInit, DatasetOK, Busy, Resting, Builder
<1>3. upsets \in 0 .. MaxUpsets
  BY MediaAssumption DEF Init
<1>4. \A c \in Calls : Placed(c)
  BY ProtectionAssumption DEF Init, MediaInit, RetentionInit, NoSweep, Placed, Follows, Exists
<1> QED BY <1>1, <1>2, <1>3, <1>4 DEF Types, TypeOK, FilesInv

\* Every state is type-correct: leases, statuses and archives are what the columns hold.
THEOREM TypesAreKept == Spec => []TypeOK
<1>1. Types => TypeOK
  BY DEF Types
<1> QED BY <1>1, InitHolds, TypesStep, PTL DEF Spec

\* Whatever is protected, exported, killed or fails while retention is at work: between runs a call
\* has its audio file in place as long as it has its row, and no longer, unless a clean-up error, a
\* lost reply or a kill stranded it (runRetention).
THEOREM FilesFollowRows == Spec => []MediaFollowsRow
<1>1. FilesInv => MediaFollowsRow
  BY DEF FilesInv, MediaFollowsRow, Placed, Follows
<1> QED BY <1>1, InitHolds, TypesStep, FilesStep, PTL DEF Spec

-------------------------------------------------------------------------------
(* Retention and the calls of an export.                                         *)

\* The items of an export, and of one being created, have rows; unless a DELETE overlapped the
\* creation, none of them is among the rows a DELETE has selected.
HeldInv(e) ==
  /\ \A c \in draft[e] \cup items[e] : Exists(c)
  /\ "overlapped" \notin history[e] =>
       /\ Active(e) => items[e] = export[e].total
       /\ sweep.pc = "delete" => /\ sweep.doomed \cap draft[e] = {}
                                 /\ Active(e) => sweep.doomed \cap items[e] = {}

LEMMA HeldFrame ==
  ASSUME NEW e \in Exports, HeldInv(e), draft'[e] = draft[e], items'[e] = items[e],
         \A c \in draft[e] \cup items[e] : Exists(c)',
         sweep'.pc = "delete" => sweep.pc = "delete" /\ sweep'.doomed = sweep.doomed,
         history[e] \subseteq history'[e],
         Active(e)' => Active(e) /\ export'[e].total = export[e].total
  PROVE  HeldInv(e)'
BY DEF HeldInv

LEMMA DeleteKeepsHeld ==
  ASSUME Types, \A e \in Exports : HeldInv(e), DeleteCalls, NEW e \in Exports
  PROVE  HeldInv(e)'
<1>1. /\ items'[e] = {c \in items[e] : row'[c] # None}
      /\ draft' = draft /\ UNCHANGED <<export, history>> /\ draft[e] \cap Doomed = {}
      /\ sweep.pc = "delete" /\ sweep'.pc # "delete"
  <2>1. /\ items'[e] = {c \in items[e] : row'[c] # None}
        /\ draft' = draft /\ export' = export /\ history' = history /\ draft[e] \cap Doomed = {}
    BY DEF DeleteCalls
  <2>2. sweep.pc = "delete" /\ sweep'.pc # "delete"
    <3>1. CASE DeleteCommits
      BY <3>1 DEF DeleteCommits, Types, TypeOK, RetentionOK, Sweep
    <3>2. ASSUME NEW committed \in BOOLEAN, DeleteFails(committed) PROVE sweep.pc = "delete" /\ sweep'.pc # "delete"
      BY <3>2 DEF DeleteFails, NoSweep
    <3> QED BY <3>1, <3>2 DEF DeleteCalls
  <2> QED BY <2>1, <2>2
<1>2. draft[e] \subseteq Calls /\ items[e] \subseteq Calls
  BY DEF Types, TypeOK, DatasetOK
<1>3. \A c \in Calls \ Doomed : row'[c] = row[c]
  BY DEF DeleteCalls, DeleteCommits, DeleteFails, Without, Types, TypeOK, MediaOK
<1>4. Doomed \subseteq sweep.doomed
  BY DEF Doomed
<1>5. HeldInv(e) /\ Active(e)' = Active(e)
  BY <1>1 DEF Active, Status
<1>6. \A c \in draft'[e] \cup items'[e] : Exists(c)'
  BY <1>1, <1>2, <1>3, <1>5 DEF HeldInv, Exists
<1>7. ASSUME "overlapped" \notin history'[e], Active(e)' PROVE items'[e] = export'[e].total
  <2>1. items[e] = export[e].total /\ sweep.doomed \cap items[e] = {}
    BY <1>1, <1>5, <1>7 DEF HeldInv
  <2>2. \A c \in items[e] : row'[c] # None
    BY <1>2, <1>3, <1>4, <1>5, <2>1 DEF HeldInv, Exists
  <2> QED BY <1>1, <2>1, <2>2
<1> QED BY <1>1, <1>6, <1>7 DEF HeldInv

LEMMA SnapshotKeepsHeld ==
  ASSUME Types, \A e \in Exports : HeldInv(e), DeleteSnapshot, NEW e \in Exports
  PROVE  HeldInv(e)'
<1>1. /\ UNCHANGED <<export, items, draft, row>> /\ sweep'.doomed = Selected(HeldByExports)
      /\ history'[e] = IF draft[e] \cap Selected(HeldByExports) # {} THEN history[e] \cup {"overlapped"} ELSE history[e]
  BY DEF DeleteSnapshot, DeleteBegins, media, Types, TypeOK, RetentionOK, Sweep
<1>2. Active(e)' = Active(e) /\ HeldInv(e)
  BY <1>1 DEF Active, Status
<1>3. Active(e) => Selected(HeldByExports) \cap items[e] = {}
  BY DEF Selected, Deletable, HeldByExports
<1> QED BY <1>1, <1>2, <1>3 DEF HeldInv, Exists

LEMMA RequestsKeepHeld ==
  ASSUME Types, NEW e \in Exports, NEW x \in Exports, HeldInv(e),
         \/ CreateBegins(x, IF sweep.pc = "delete" THEN sweep.doomed ELSE {})
         \/ CreateCommits(x) \/ CreateFails(x) \/ CancelExport(x) \/ DeleteFile(x) \/ DeleteRow(x) \/ DayPasses(x) \/ LeaseLapses(x),
         UNCHANGED sweep
  PROVE  HeldInv(e)'
<1>0. /\ export \in [Exports -> Export \cup {None}] /\ items \in [Exports -> SUBSET Calls]
      /\ draft \in [Exports -> SUBSET Calls] /\ history \in [Exports -> SUBSET Marks]
  BY DEF Types, TypeOK, DatasetOK, Marks
<1>1. UNCHANGED row
  BY DEF CreateBegins, CreateCommits, CreateFails, CancelExport, DeleteFile, DeleteRow, DayPasses, LeaseLapses, media
<1>2. history[e] \subseteq history'[e]
  BY <1>0 DEF CreateBegins, CreateCommits, CreateFails, CancelExport, DeleteFile, DeleteRow, DayPasses, LeaseLapses,
              Mark, MarkIfBuilt
<1>3. CASE e # x
  <2>1. draft'[e] = draft[e] /\ items'[e] = items[e] /\ export'[e] = export[e]
    BY <1>0, <1>3 DEF CreateBegins, CreateCommits, CreateFails, CancelExport, DeleteFile, DeleteRow, DayPasses, LeaseLapses
  <2> QED BY <1>1, <1>2, <2>1, HeldFrame DEF Active, Status, HeldInv, Exists
<1>4. CASE e = x /\ CreateBegins(x, IF sweep.pc = "delete" THEN sweep.doomed ELSE {})
  <2>1. PICK cs \in SUBSET {c \in Reviewed : Exists(c)} :
          /\ draft' = [draft EXCEPT ![e] = cs]
          /\ history' = IF cs \cap (IF sweep.pc = "delete" THEN sweep.doomed ELSE {}) # {}
                        THEN Mark(e, "overlapped") ELSE history
    BY <1>4 DEF CreateBegins
  <2>2. draft'[e] = cs /\ items' = items /\ export' = export
    BY <1>0, <1>4, <2>1 DEF CreateBegins
  <2>3. "overlapped" \notin history'[e] => cs \cap (IF sweep.pc = "delete" THEN sweep.doomed ELSE {}) = {}
    BY <1>0, <2>1 DEF Mark
  <2> QED BY <1>1, <1>2, <2>1, <2>2, <2>3 DEF HeldInv, Exists, Active, Status
<1>5. CASE e = x /\ CreateCommits(x)
  <2>1. export'[e] = NewExport(draft[e]) /\ items'[e] = draft[e] /\ draft'[e] = {}
    BY <1>0, <1>5 DEF CreateCommits
  <2>2. export'[e].total = draft[e]
    BY <2>1 DEF NewExport
  <2> QED BY <1>1, <1>2, <2>1, <2>2 DEF HeldInv, Exists
<1>6. CASE e = x /\ CreateFails(x)
  <2>1. draft'[e] = {} /\ items' = items /\ export' = export
    BY <1>0, <1>6 DEF CreateFails
  <2> QED BY <1>1, <1>2, <2>1 DEF HeldInv, Exists, Active, Status
<1>9. CASE e = x /\ DeleteFile(x)
  BY <1>1, <1>2, <1>9 DEF DeleteFile, HeldInv, Exists, Active, Status
<1>7. CASE e = x /\ (CancelExport(x) \/ DeleteRow(x) \/ DayPasses(x))
  <2>1. ~Active(e)' /\ draft' = draft /\ items'[e] \subseteq items[e]
    <3>1. export[e] \in Export
      BY <1>0, <1>7 DEF CancelExport, DeleteRow, DayPasses, Active, Ended, Finished, Status, Types, Busy
    <3>2. CASE CancelExport(e)
      BY <1>0, <3>1, <3>2 DEF CancelExport, Active, Status, Export
    <3>3. CASE DeleteRow(e)
      <4>1. PICK new \in Export : new = [export[e] EXCEPT !.status = "deleted", !.output = None, !.due = FALSE]
        BY <3>1 DEF Export
      <4>2. export'[e].status = "deleted"
        BY <1>0, <3>1, <3>3, <4>1 DEF DeleteRow, Export
      <4> QED BY <1>0, <3>3, <4>2 DEF DeleteRow, Active, Status
    <3>4. CASE DayPasses(e)
      BY <1>0, <3>1, <3>4 DEF DayPasses, Finished, Active, Status, Export
    <3> QED BY <1>7, <3>2, <3>3, <3>4
  <2> QED BY <1>1, <1>2, <2>1 DEF HeldInv, Exists
<1>8. CASE e = x /\ LeaseLapses(x)
  <2>1. export[e] \in Export /\ export' = [export EXCEPT ![e].lease = "lapsed"]
    BY <1>0, <1>8 DEF LeaseLapses, Status
  <2>2. export'[e].total = export[e].total /\ Active(e)
    BY <1>0, <1>8, <2>1 DEF Export, LeaseLapses, Active
  <2>3. draft'[e] = draft[e] /\ items'[e] = items[e]
    BY <1>8 DEF LeaseLapses
  <2> QED BY <1>1, <1>2, <2>2, <2>3, HeldFrame DEF HeldInv, Exists
<1> QED BY <1>3, <1>4, <1>5, <1>6, <1>7, <1>8, <1>9
LEMMA BuildersKeepHeld ==
  ASSUME Types, NEW e \in Exports, HeldInv(e), NEW b \in Builders,
         \/ Load(b) \/ CheckItem(b) \/ ReadItem(b, TRUE) \/ ReadItem(b, FALSE) \/ Seal(b) \/ Record(b)
         \/ RecordFailure(b) \/ BuildFails(b) \/ FailureNotRecorded(b) \/ BuilderStops(b)
         \/ (\E applied \in BOOLEAN : RecordFails(b, applied)) \/ ExpireRecord(b)
         \/ (\E x \in Exports : Claim(b, x) \/ ExpireRemove(b, x)),
         UNCHANGED sweep
  PROVE  HeldInv(e)'
<1>0. /\ export \in [Exports -> Export \cup {None}] /\ history \in [Exports -> SUBSET Marks]
      /\ \A x \in Exports : export[x] = None \/ export[x] \in Export
      /\ builder[b].pc # "idle" => builder[b].export \in Exports /\ export[builder[b].export] \in Export
  BY DEF Types, TypeOK, DatasetOK, Marks, Busy
<1>1. UNCHANGED <<row, items, draft>>
  BY DEF Load, CheckItem, ReadItem, Seal, Record, RecordFailure, BuildFails, FailureNotRecorded, BuilderStops,
         RecordFails, ExpireRecord, Claim, ExpireRemove, media
<1>2. history[e] \subseteq history'[e]
  <2>1. ASSUME NEW x, NEW m, history' = Mark(x, m) PROVE history[e] \subseteq history'[e]
    BY <1>0, <2>1 DEF Mark
  <2>2. ASSUME NEW x \in Exports, Claim(b, x) PROVE history[e] \subseteq history'[e]
    BY <2>1, <2>2 DEF Claim
  <2>3. CASE \E applied \in BOOLEAN : RecordFails(b, applied)
    BY <2>1, <2>3 DEF RecordFails
  <2>4. CASE BuilderStops(b)
    BY <2>1, <2>4 DEF BuilderStops
  <2> QED BY <2>2, <2>3, <2>4 DEF Load, CheckItem, ReadItem, Seal, Record, RecordFailure, BuildFails,
         FailureNotRecorded, ExpireRecord, ExpireRemove
<1>3. Active(e)' => Active(e) /\ export'[e].total = export[e].total
  <2>1. CASE export' = export
    BY <2>1 DEF Active, Status
  <2>2. ASSUME NEW x \in Exports, export' = Renewed(x) PROVE Active(e)' => Active(e) /\ export'[e].total = export[e].total
    BY <1>0, <2>2 DEF Renewed, Active, Status, Export
  <2>3. ASSUME NEW x \in Exports, x = builder[b].export, export' = Recorded(b)
        PROVE Active(e)' => Active(e) /\ export'[e].total = export[e].total
    BY <1>0, <2>3 DEF Recorded, WithOutput, Outcome, Active, Status, Export
  <2>4. ASSUME NEW x \in Exports, Claim(b, x) PROVE Active(e)' => Active(e) /\ export'[e].total = export[e].total
    BY <1>0, <2>4 DEF Claim, Claimable, Active, Status, Export
  <2>5. CASE RecordFailure(b)
    <3>1. PICK x \in Exports : export[x] \in Export /\ \/ export' = export
                                                       \/ export' = [export EXCEPT ![x].status = "failed", ![x].lease = "none"]
      BY <1>0, <2>5 DEF RecordFailure, At
    <3>2. CASE e = x /\ export' # export /\ export[e] \in Export
      <4>1. export'[e] = [export[e] EXCEPT !.status = "failed", !.lease = "none"]
        BY <1>0, <3>1, <3>2
      <4>2. export'[e] \in Export /\ export'[e].status = "failed"
        BY <3>2, <4>1 DEF Export
      <4> QED BY <4>2 DEF Active, Status
    <3>3. CASE e # x \/ export' = export
      BY <1>0, <2>1, <3>1, <3>3 DEF Active, Status
    <3> QED BY <1>0, <3>1, <3>2, <3>3 DEF Active, Status
  <2>6. CASE ExpireRecord(b)
    <3>1. PICK x \in Exports : export[x] \in Export /\ \/ export' = export
                                                       \/ export' = [export EXCEPT ![x].status = "expired", ![x].output = None]
      BY <1>0, <2>6 DEF ExpireRecord, At
    <3>2. CASE e = x /\ export' # export /\ export[e] \in Export
      <4>1. export'[e] = [export[e] EXCEPT !.status = "expired", !.output = None]
        BY <1>0, <3>1, <3>2
      <4>2. export'[e] \in Export /\ export'[e].status = "expired"
        BY <3>2, <4>1 DEF Export
      <4> QED BY <4>2 DEF Active, Status
    <3>3. CASE e # x \/ export' = export
      BY <1>0, <2>1, <3>1, <3>3 DEF Active, Status
    <3> QED BY <1>0, <3>1, <3>2, <3>3 DEF Active, Status
  <2>7. CASE CheckItem(b)
    BY <1>0, <2>1, <2>2, <2>7 DEF CheckItem, At
  <2>8. CASE ReadItem(b, TRUE) \/ ReadItem(b, FALSE)
    BY <1>0, <2>2, <2>8 DEF ReadItem, At
  <2>9. CASE Record(b) \/ \E applied \in BOOLEAN : RecordFails(b, applied)
    BY <1>0, <2>1, <2>3, <2>9 DEF Record, RecordFails, At
  <2> QED BY <2>1, <2>4, <2>5, <2>6, <2>7, <2>8, <2>9
      DEF Load, Seal, BuildFails, FailureNotRecorded, BuilderStops, ExpireRemove
<1> QED BY <1>1, <1>2, <1>3, HeldFrame DEF HeldInv, Exists

LEMMA FilesKeepHeld ==
  ASSUME Types, NEW e \in Exports, HeldInv(e), RetentionStep \/ RetentionError \/ ProtectionStep
  PROVE  HeldInv(e)'
<1>1. UNCHANGED datasetVars
  BY DEF RetentionStep, RetentionError, ProtectionStep
<1>2. items' = items /\ draft' = draft /\ export' = export /\ history' = history
  BY <1>1 DEF datasetVars
<1>3. draft[e] \subseteq Calls /\ items[e] \subseteq Calls
  BY DEF Types, TypeOK, DatasetOK
<1>4. \A c \in Calls : Exists(c) => Exists(c)'
  <2>1. CASE RetentionStep \/ RetentionError
    <3>1. row' = row
      BY <2>1 DEF RetentionStep, RetentionError, RetentionStart, StageFile, TidyFile, RetentionEnds, StageFails,
         RetentionCrash, TidyFails, media
    <3> QED BY <3>1 DEF Exists
  <2>2. ASSUME NEW c \in Calls, ProtectCall(c) \/ ProtectionExpires(c)
        PROVE \A d \in Calls : Exists(d) => Exists(d)'
    BY <2>2, ProtectionAssumption DEF ProtectCall, ProtectionExpires, Exists, Types, TypeOK, MediaOK
  <2> QED BY <2>1, <2>2 DEF ProtectionStep
<1>5. sweep'.pc = "delete" => sweep.pc = "delete" /\ sweep'.doomed = sweep.doomed
  <2>1. sweep \in Sweep
    BY DEF Types, TypeOK, RetentionOK
  <2>2. CASE ProtectionStep
    BY <2>2 DEF ProtectionStep, retentionVars
  <2>3. ASSUME NEW c \in Calls, StageFile(c) \/ TidyFile(c) \/ TidyFails(c) PROVE sweep'.pc # "delete"
    BY <2>1, <2>3 DEF StageFile, TidyFile, TidyFails, Sweep
  <2>4. ASSUME RetentionStart(HeldByExports) \/ RetentionEnds \/ StageFails \/ RetentionCrash PROVE sweep'.pc # "delete"
    <3>1. CASE RetentionStart(HeldByExports)
      <4>1. sweep' = [pc |-> "stage", ids |-> Deletable(HeldByExports), todo |-> Deletable(HeldByExports),
                      moved |-> {}, doomed |-> {}]
        BY <3>1 DEF RetentionStart, NoSweep
      <4> QED BY <4>1
    <3>2. CASE RetentionEnds \/ StageFails \/ RetentionCrash
      <4>1. sweep' = NoSweep
        BY <3>2 DEF RetentionEnds, StageFails, RetentionCrash
      <4> QED BY <4>1 DEF NoSweep
    <3> QED BY <2>4, <3>1, <3>2
  <2> QED BY <2>2, <2>3, <2>4 DEF RetentionStep, RetentionError
<1>6. Active(e)' => Active(e) /\ export'[e].total = export[e].total
  BY <1>2 DEF Active, Status
<1> QED BY <1>2, <1>3, <1>4, <1>5, <1>6, HeldFrame DEF HeldInv

LEMMA HeldStep ==
  ASSUME Types, \A e \in Exports : HeldInv(e), [Next]_vars, NEW e \in Exports
  PROVE  HeldInv(e)'
<1>0. HeldInv(e)
  OBVIOUS
<1>1. CASE RetentionStep \/ RetentionError \/ ProtectionStep
  BY <1>0, <1>1, FilesKeepHeld
<1>2. CASE DeleteSnapshot
  BY <1>2, SnapshotKeepsHeld
<1>3. CASE DeleteCalls
  BY <1>3, DeleteKeepsHeld
<1>4. CASE RequestStep \/ RequestFails
  <2>1. UNCHANGED sweep
    BY <1>4 DEF RequestStep, RequestFails, retentionVars
  <2>2. PICK x \in Exports : CreateBegins(x, IF sweep.pc = "delete" THEN sweep.doomed ELSE {})
                             \/ CreateFails(x) \/ CancelExport(x) \/ DeleteFile(x) \/ DeleteRow(x)
    BY <1>4 DEF RequestStep, RequestFails
  <2> QED BY <1>0, <2>1, <2>2, RequestsKeepHeld
<1>5. ASSUME NEW x \in Exports, CommitStep(x) \/ LapseStep(x) \/ SlowBuilder(x) PROVE HeldInv(e)'
  <2>1. UNCHANGED sweep /\ (CreateCommits(x) \/ LeaseLapses(x))
    BY <1>5 DEF CommitStep, LapseStep, SlowBuilder, retentionVars
  <2> QED BY <1>0, <2>1, RequestsKeepHeld
<1>6. ASSUME NEW b \in Builders, ClaimStep(b) \/ BuildStep(b) \/ BuildError(b) PROVE HeldInv(e)'
  <2>1. UNCHANGED sweep
    BY <1>6 DEF ClaimStep, BuildStep, BuildError, retentionVars
  <2> QED BY <1>0, <1>6, <2>1, BuildersKeepHeld DEF ClaimStep, BuildStep, BuildError
<1>7. CASE ExpiryStep
  <2>1. UNCHANGED sweep
    BY <1>7 DEF ExpiryStep, retentionVars
  <2>2. CASE \E x \in Exports : DayPasses(x)
    BY <1>0, <2>1, <2>2, RequestsKeepHeld
  <2>3. CASE \E b \in Builders : ExpireRecord(b) \/ \E x \in Exports : ExpireRemove(b, x)
    BY <1>0, <2>1, <2>3, BuildersKeepHeld
  <2> QED BY <1>7, <2>2, <2>3 DEF ExpiryStep
<1>8. CASE UNCHANGED vars
  BY <1>0, <1>8, HeldFrame DEF vars, media, retentionVars, datasetVars, HeldInv, Exists, Active, Status
<1> QED BY <1>1, <1>2, <1>3, <1>4, <1>5, <1>6, <1>7, <1>8 DEF Next

\* The DELETE of retention never takes a call from a queued or running export, through protection,
\* lapsed leases, crashes and whatever the workers do, unless it overlapped the export's creation
\* (the query of runRetention against the items of adminCreateDataset).
THEOREM SnapshotIsSafe == Spec => []SnapshotIsKept
<1> DEFINE Held == Types /\ \A e \in Exports : HeldInv(e)
<1>1. Init => Held
  <2> SUFFICES ASSUME Init, NEW e \in Exports PROVE HeldInv(e)
    BY InitHolds
  <2> QED BY DEF Init, DatasetInit, RetentionInit, NoSweep, HeldInv, Active, Status
<1>2. Held /\ [Next]_vars => Held'
  BY TypesStep, HeldStep
<1>3. Held => SnapshotIsKept
  BY DEF HeldInv, SnapshotIsKept
<1> QED BY <1>1, <1>2, <1>3, PTL DEF Spec


-------------------------------------------------------------------------------
(* The builds, their files and what becomes of a finished export.                *)

Clean(e, marks) == history[e] \cap marks = {}
Working == {"load", "check", "read", "seal", "record"}

\* An export is created once, and a file belongs to an export that was.
CreatedInv(e) == /\ draft[e] # {} => export[e] = None
                 /\ export[e] = None => zip[e] = None

\* A worker that has the export is at it, has nothing left to do before it seals, and is the only
\* one that builds it, unless another took it over.
WorkersInv(e) ==
  /\ \A b \in Builders : builder[b].export = e =>
       /\ ~At(b, "idle")
       /\ builder[b].pc \in {"seal", "record"} => builder[b].todo = {}
  /\ Clean(e, {"doubled"}) => \A b, x \in Builders : AtWork(b, e) /\ AtWork(x, e) => b = x

\* What an export that is being expired or built may be.
StatusInv(e) ==
  /\ \A b \in Builders : builder[b].export = e /\ At(b, "expire") => ~Active(e)
  /\ Clean(e, {"doubled", "reply lost"}) =>
       \A b \in Builders : AtWork(b, e) => Status(e) \in {"running", "cancelled", "expired", "deleted"}
  /\ Clean(e, {"doubled", "cut"}) =>
       \A b \in Builders : AtWork(b, e) /\ builder[b].pc \in Working => Status(e) = "running"

\* Whose the file is.
FileInv(e) ==
  /\ Clean(e, {"doubled"}) /\ Status(e) = "running" =>
       \A b \in Builders : AtWork(b, e) /\ At(b, "record") => zip[e] = Built(b)
  /\ Clean(e, {"doubled", "cut"}) /\ zip[e] # None =>
       \/ export[e].output = zip[e]
       \/ \E b \in Builders : AtWork(b, e) /\ At(b, "record")
  /\ Clean(e, {"doubled", "cut"}) =>
       \A b \in Builders : builder[b].export = e /\ At(b, "expire") => zip[e] = None
  /\ Clean(e, {"doubled", "reply lost"}) /\ Downloadable(e) =>
       zip[e] = export[e].output \/ (zip[e] = None /\ e \in removing)

\* What a build without warnings has collected, and what a completed one holds.
ContentInv(e) ==
  /\ Clean(e, {"doubled", "overlapped"}) /\ Status(e) = "running" =>
       \A b \in Builders : AtWork(b, e) /\ builder[b].pc \in Working /\ ~builder[b].missed =>
         IF At(b, "load") THEN builder[b].got = {}
         ELSE builder[b].got \cup builder[b].todo = export[e].total
  /\ Clean(e, {"doubled", "overlapped"}) /\ Status(e) = "completed" =>
       export[e].output # None /\ export[e].output.calls = export[e].total

\* A deletion that has removed the file meets no build any more.
RemovedInv(e) ==
  e \in removing => ~Active(e) /\ (Clean(e, {"doubled", "cut"}) => zip[e] = None)

BuildInv(e) == CreatedInv(e) /\ WorkersInv(e) /\ StatusInv(e) /\ FileInv(e) /\ ContentInv(e)

\* The same export, but for its lease and its date.
SameExport(e) ==
  /\ export'[e] = None <=> export[e] = None
  /\ Status(e)' = Status(e)
  /\ export[e] # None => export'[e].total = export[e].total /\ export'[e].output = export[e].output
  /\ Downloadable(e)' => Downloadable(e)

\* A step that leaves an export, its file and its workers alone.
LEMMA BuildFrame ==
  ASSUME NEW e \in Exports, BuildInv(e), SameExport(e), zip'[e] = zip[e], history[e] \subseteq history'[e],
         draft'[e] # {} => export'[e] = None, e \in removing => e \in removing',
         \A b \in Builders : builder'[b] = builder[b] \/ (builder[b].export # e /\ builder'[b].export # e)
  PROVE  BuildInv(e)'
<1>1. \A marks : Clean(e, marks)' => Clean(e, marks)
  BY DEF Clean
<1>2. \A b \in Builders : builder[b].export = e \/ builder'[b].export = e => builder'[b] = builder[b]
  OBVIOUS
<1>3. CreatedInv(e)'
  BY DEF BuildInv, CreatedInv, SameExport
<1>4. WorkersInv(e)'
  BY <1>1, <1>2 DEF BuildInv, WorkersInv, At, AtWork
<1>5. StatusInv(e)'
  BY <1>1, <1>2 DEF BuildInv, StatusInv, At, AtWork, Active, SameExport
<1>6. FileInv(e)'
  <2>1. export[e] = None => zip[e] = None
    BY DEF BuildInv, CreatedInv
  <2>2. ~Downloadable(e) \/ export[e] # None
    BY DEF Downloadable, Status
  <2>3. \A b \in Builders : AtWork(b, e)' => AtWork(b, e) /\ At(b, "record")' = At(b, "record") /\ Built(b)' = Built(b)
    BY <1>2 DEF AtWork, At, Built
  <2>4. \A b \in Builders : AtWork(b, e) /\ At(b, "record") => AtWork(b, e)' /\ At(b, "record")'
    BY <1>2 DEF AtWork, At
  <2> QED BY <1>1, <1>2, <2>1, <2>2, <2>3, <2>4 DEF BuildInv, FileInv, SameExport, At
<1>7. ContentInv(e)'
  <2>1. Status(e) # "none" => export[e] # None
    BY DEF Status
  <2> QED BY <1>1, <1>2, <2>1 DEF BuildInv, ContentInv, SameExport, At, AtWork
<1> QED BY <1>3, <1>4, <1>5, <1>6, <1>7 DEF BuildInv

LEMMA SameIsSame ==
  ASSUME NEW e \in Exports, export'[e] = export[e]
  PROVE  SameExport(e)
BY DEF SameExport, Status, Downloadable

LEMMA CommitKeepsBuild ==
  ASSUME Types, NEW e \in Exports, BuildInv(e), CreateCommits(e)
  PROVE  BuildInv(e)'
<1>1. export[e] = None /\ zip[e] = None
  BY DEF BuildInv, CreatedInv, CreateCommits
<1>2. /\ builder' = builder /\ zip'[e] = None /\ draft'[e] = {} /\ export'[e] = NewExport(draft[e])
  BY <1>1 DEF CreateCommits, Types, TypeOK, DatasetOK
<1>3. NewExport(draft[e]) \in Export
  BY WritesTypes DEF Types, TypeOK, DatasetOK
<1>4. export'[e] # None /\ Status(e)' = "pending"
  <2>1. export'[e] # None
    BY <1>2, <1>3, ExportAssumption
  <2> QED BY <1>2, <2>1 DEF Status, NewExport
<1>5. \A b \in Builders : builder[b].export # e
  <2>1. \A b \in Builders : builder[b].export = e => builder[b].pc # "idle"
    BY DEF BuildInv, WorkersInv, At
  <2> QED BY <1>1, <2>1 DEF Types, Busy
<1>6. ~Downloadable(e)'
  BY <1>4 DEF Downloadable
<1> QED BY <1>2, <1>4, <1>5, <1>6
    DEF BuildInv, CreatedInv, WorkersInv, StatusInv, FileInv, ContentInv, At, AtWork

\* A cancellation cuts short the builds it meets.
LEMMA CancelKeepsBuild ==
  ASSUME Types, NEW e \in Exports, BuildInv(e), CancelExport(e)
  PROVE  BuildInv(e)'
<1>1. export[e] \in Export /\ export[e] # None
  <2>1. export[e] # None
    BY DEF CancelExport, Active, Status
  <2> QED BY <2>1 DEF Types, TypeOK, DatasetOK
<1>2. /\ export \in [Exports -> Export \cup {None}] /\ zip \in [Exports -> Archive \cup {None}]
      /\ history \in [Exports -> SUBSET Marks]
  BY DEF Types, TypeOK, DatasetOK, Marks
<1>3. builder' = builder /\ draft' = draft
  BY DEF CancelExport
<1>4. /\ history[e] \subseteq history'[e]
      /\ (\E b \in Builders : AtWork(b, e)) => "cut" \in history'[e]
  BY <1>2 DEF CancelExport, MarkIfBuilt, Mark
<1>5. PICK new \in Export : new = [export[e] EXCEPT !.status = "cancelled", !.lease = "none"]
  BY <1>1 DEF Export
<1>6. /\ export'[e] # None /\ Status(e)' = "cancelled" /\ export'[e].output = export[e].output
      /\ zip' = zip
  <2>1. export'[e] = new /\ new.status = "cancelled" /\ new.output = export[e].output
    BY <1>1, <1>2, <1>5 DEF CancelExport, Export
  <2> QED BY <2>1, ExportAssumption DEF CancelExport, Status
<1>8. ~Active(e)' /\ ~Downloadable(e)'
  BY <1>6 DEF Active, Downloadable
<1>9. \A marks : Clean(e, marks)' => Clean(e, marks)
  BY <1>4 DEF Clean
<1>10. \A b \in Builders : Clean(e, {"doubled", "cut"})' => ~AtWork(b, e)
  BY <1>4 DEF Clean
<1>11. CreatedInv(e)'
  BY <1>1, <1>3, <1>6 DEF BuildInv, CreatedInv
<1>12. WorkersInv(e)'
  BY <1>3, <1>9 DEF BuildInv, WorkersInv, At, AtWork
<1>13. StatusInv(e)'
  BY <1>3, <1>6, <1>8, <1>10 DEF StatusInv, At, AtWork
<1>14. FileInv(e)'
  BY <1>3, <1>6, <1>8, <1>9, <1>10 DEF BuildInv, FileInv, At, AtWork
<1>15. ContentInv(e)'
  BY <1>6 DEF ContentInv
<1> QED BY <1>11, <1>12, <1>13, <1>14, <1>15 DEF BuildInv

\* A deletion meets no build, but one that was cut short or doubled.
LEMMA DeleteFileKeepsBuild ==
  ASSUME Types, NEW e \in Exports, BuildInv(e), DeleteFile(e)
  PROVE  BuildInv(e)' /\ RemovedInv(e)'
<1>0. /\ UNCHANGED <<export, draft, builder, history>> /\ zip'[e] = None
      /\ e \in removing' /\ export[e] # None /\ ~Active(e)
  BY DEF DeleteFile, FileRemoved, Ended, Active, Status, Types, TypeOK, DatasetOK
<1>1. /\ UNCHANGED <<Status(e), Active(e), Downloadable(e)>>
      /\ \A marks : Clean(e, marks)' = Clean(e, marks)
      /\ \A b \in Builders : AtWork(b, e)' = AtWork(b, e) /\ \A pc : At(b, pc)' = At(b, pc)
  BY <1>0 DEF Status, Active, Downloadable, Clean, AtWork, At
<1>2. CreatedInv(e)' /\ WorkersInv(e)' /\ StatusInv(e)' /\ ContentInv(e)'
  BY <1>0, <1>1 DEF BuildInv, CreatedInv, WorkersInv, StatusInv, ContentInv
<1>3. FileInv(e)'
  BY <1>0, <1>1 DEF FileInv, Active
<1>4. RemovedInv(e)'
  BY <1>0, <1>1 DEF RemovedInv
<1> QED BY <1>2, <1>3, <1>4 DEF BuildInv

LEMMA DeleteRowKeepsBuild ==
  ASSUME Types, NEW e \in Exports, BuildInv(e), RemovedInv(e), DeleteRow(e)
  PROVE  BuildInv(e)' /\ RemovedInv(e)'
<1>0. /\ UNCHANGED <<draft, builder, zip, history>> /\ e \notin removing'
      /\ export \in [Exports -> Export \cup {None}]
  BY DEF DeleteRow, Types, TypeOK, DatasetOK
<1>1. export[e] # None /\ ~Active(e)
  BY DEF DeleteRow, Ended, Active, Status, RemovedInv, Types, Busy
<1>2. export'[e] # None /\ Status(e)' = "deleted"
  <2>1. PICK new \in Export : new = [export[e] EXCEPT !.status = "deleted", !.output = None, !.due = FALSE]
    BY <1>0, <1>1 DEF Export
  <2>2. export'[e] = new /\ new.status = "deleted"
    BY <1>0, <1>1, <2>1 DEF DeleteRow, Export
  <2> QED BY <2>2, ExportAssumption DEF Status
<1>3. ~Active(e)' /\ ~Downloadable(e)'
  BY <1>2 DEF Active, Downloadable
<1>4. /\ \A marks : Clean(e, marks)' = Clean(e, marks)
      /\ \A b \in Builders : AtWork(b, e)' = AtWork(b, e) /\ \A pc : At(b, pc)' = At(b, pc)
  BY <1>0 DEF Clean, AtWork, At
<1>5. Clean(e, {"doubled", "cut"}) => \A b \in Builders : ~(AtWork(b, e) /\ builder[b].pc \in Working)
  BY <1>1 DEF BuildInv, StatusInv, Active
<1>6. Clean(e, {"doubled", "cut"}) => zip[e] = None
  <2>1. CASE e \in removing
    BY <2>1 DEF RemovedInv
  <2>2. CASE export[e].output = None
    BY <1>5, <2>2 DEF BuildInv, FileInv, Working, At
  <2> QED BY <2>1, <2>2 DEF DeleteRow
<1>7. CreatedInv(e)'
  BY <1>0, <1>1, <1>2 DEF BuildInv, CreatedInv
<1>8. WorkersInv(e)'
  BY <1>0, <1>4 DEF BuildInv, WorkersInv
<1>9. StatusInv(e)'
  BY <1>0, <1>2, <1>3, <1>4, <1>5 DEF StatusInv
<1>10. FileInv(e)'
  BY <1>0, <1>2, <1>3, <1>4, <1>6 DEF FileInv
<1>11. ContentInv(e)'
  BY <1>2 DEF ContentInv
<1> QED BY <1>0, <1>7, <1>8, <1>9, <1>10, <1>11 DEF BuildInv, RemovedInv

LEMMA RequestsKeepBuild ==
  ASSUME Types, NEW e \in Exports, NEW x \in Exports, BuildInv(e), RemovedInv(e),
         \/ CreateBegins(x, IF sweep.pc = "delete" THEN sweep.doomed ELSE {})
         \/ CreateCommits(x) \/ CreateFails(x) \/ CancelExport(x) \/ DeleteFile(x) \/ DeleteRow(x) \/ DayPasses(x) \/ LeaseLapses(x)
  PROVE  BuildInv(e)'
<1>0. /\ export \in [Exports -> Export \cup {None}] /\ zip \in [Exports -> Archive \cup {None}]
      /\ draft \in [Exports -> SUBSET Calls] /\ history \in [Exports -> SUBSET Marks]
  BY DEF Types, TypeOK, DatasetOK, Marks
<1>1. builder' = builder
  BY DEF CreateBegins, CreateCommits, CreateFails, CancelExport, DeleteFile, DeleteRow, DayPasses, LeaseLapses
<1>2. history[e] \subseteq history'[e]
  BY <1>0 DEF CreateBegins, CreateCommits, CreateFails, CancelExport, DeleteFile, DeleteRow, DayPasses, LeaseLapses,
              Mark, MarkIfBuilt
<1>3. draft[e] # {} => export[e] = None
  BY DEF BuildInv, CreatedInv
<1>4. CASE e # x
  <2>1. draft'[e] = draft[e] /\ export'[e] = export[e] /\ zip'[e] = zip[e]
    BY <1>0, <1>4 DEF CreateBegins, CreateCommits, CreateFails, CancelExport, DeleteFile, DeleteRow, DayPasses, LeaseLapses,
                      FileRemoved
  <2>2. e \in removing => e \in removing'
    BY <1>4 DEF CreateBegins, CreateCommits, CreateFails, CancelExport, DeleteFile, DeleteRow, DayPasses, LeaseLapses
  <2> QED BY <1>1, <1>2, <1>3, <2>1, <2>2, BuildFrame, SameIsSame
<1>5. CASE e = x /\ (CreateBegins(x, IF sweep.pc = "delete" THEN sweep.doomed ELSE {}) \/ CreateFails(x))
  <2>1. export' = export /\ zip' = zip /\ removing' = removing /\ (draft'[e] # {} => export[e] = None)
    BY <1>0, <1>3, <1>5 DEF CreateBegins, CreateFails
  <2> QED BY <1>1, <1>2, <2>1, BuildFrame, SameIsSame
<1>6. CASE e = x /\ (DayPasses(x) \/ LeaseLapses(x))
  <2>1. export[e] \in Export
    BY <1>0, <1>6 DEF DayPasses, LeaseLapses, Finished, Status
  <2>2. PICK new \in Export : /\ export' = [export EXCEPT ![e] = new]
                              /\ new.status = export[e].status /\ new.total = export[e].total
                              /\ new.output = export[e].output /\ (new.due # export[e].due => new.due = TRUE)
    <3>1. /\ [export[e] EXCEPT !.due = TRUE] \in Export
          /\ [export[e] EXCEPT !.lease = "lapsed"] \in Export
      BY <2>1 DEF Export
    <3>2. CASE DayPasses(e)
      BY <2>1, <3>1, <3>2 DEF DayPasses, Export
    <3>3. CASE LeaseLapses(e)
      BY <2>1, <3>1, <3>3 DEF LeaseLapses, Export
    <3> QED BY <1>6, <3>2, <3>3
  <2>3. export'[e] = new /\ new # None /\ export[e] # None
    BY <1>0, <2>1, <2>2, ExportAssumption
  <2>4. SameExport(e)
    <3>1. new.due = export[e].due \/ new.due = TRUE
      BY <2>2
    <3> QED BY <2>2, <2>3, <3>1 DEF SameExport, Status, Downloadable
  <2>5. draft'[e] = draft[e] /\ zip'[e] = zip[e] /\ removing' = removing
    BY <1>6 DEF DayPasses, LeaseLapses
  <2>6. draft'[e] = {}
    BY <1>3, <2>3, <2>5
  <2> QED BY <1>1, <1>2, <2>4, <2>5, <2>6, BuildFrame
<1>7. CASE e = x /\ CreateCommits(x)
  BY <1>7, CommitKeepsBuild
<1>8. CASE e = x /\ (CancelExport(x) \/ DeleteFile(x) \/ DeleteRow(x))
  BY <1>8, CancelKeepsBuild, DeleteFileKeepsBuild, DeleteRowKeepsBuild
<1> QED BY <1>4, <1>5, <1>6, <1>7, <1>8

\* What a worker does to the exports it does not work on.
LEMMA OthersBuild ==
  ASSUME Types, NEW e \in Exports, BuildInv(e), NEW b \in Builders, builder[b].export # e,
         \/ Load(b) \/ CheckItem(b) \/ ReadItem(b, TRUE) \/ ReadItem(b, FALSE) \/ Seal(b) \/ Record(b)
         \/ RecordFailure(b) \/ BuildFails(b) \/ FailureNotRecorded(b) \/ BuilderStops(b)
         \/ (\E applied \in BOOLEAN : RecordFails(b, applied)) \/ ExpireRecord(b)
  PROVE  BuildInv(e)'
<1> DEFINE x == builder[b].export
<1>0. /\ export \in [Exports -> Export \cup {None}] /\ zip \in [Exports -> Archive \cup {None}]
      /\ draft \in [Exports -> SUBSET Calls] /\ history \in [Exports -> SUBSET Marks]
      /\ builder \in [Builders -> Builder]
      /\ DatasetOK /\ Busy
  BY DEF Types, TypeOK, DatasetOK, Marks
<1>1. builder[b].pc # "idle"
  BY DEF Load, CheckItem, ReadItem, BuildFails, Seal, Record, RecordFails, RecordFailure,
         FailureNotRecorded, BuilderStops, ExpireRecord, At
<1>2. x \in Exports
  BY <1>0, <1>1 DEF Busy
<1>3. /\ Rows(x)
      /\ \A y \in Builders \ {b} : builder'[y] = builder[y]
      /\ builder'[b].pc # "idle" => builder'[b].export = x
  BY <1>0, <1>2, WorkerChanges
<1>4. export'[e] = export[e]
  BY <1>0, <1>2, <1>3 DEF Rows
<1>5. zip'[e] = zip[e] /\ draft' = draft /\ history[e] \subseteq history'[e]
  BY <1>0, <1>2 DEF Load, CheckItem, ReadItem, BuildFails, Seal, Record, RecordFails, RecordFailure,
         FailureNotRecorded, BuilderStops, ExpireRecord, FileRemoved, Mark
<1>6. builder'[b].export # e
  <2>1. CASE builder'[b].pc # "idle"
    BY <1>3, <2>1
  <2>2. CASE builder'[b].pc = "idle"
    <3>1. Go(b, "fail") \/ Go(b, "check") \/ Go(b, "seal") \/ Go(b, "read") \/ Go(b, "record") => FALSE
      BY <1>0, <2>2 DEF Go, Builder
    <3>2. ~Load(b)
      BY <1>0, <2>2, <3>1 DEF Load, Builder
    <3>3. ASSUME NEW decodes \in BOOLEAN, ReadItem(b, decodes) PROVE FALSE
      <4>1. PICK c \in builder[b].todo : builder' =
              [builder EXCEPT ![b].pc = "check", ![b].todo = @ \ {c},
                 ![b].got = IF audio[c] = "in place" /\ decodes THEN @ \cup {c} ELSE @,
                 ![b].missed = @ \/ audio[c] # "in place" \/ ~decodes]
        BY Zenon, <3>3 DEF ReadItem
      <4> QED BY <1>0, <2>2, <4>1 DEF Builder
    <3>4. Rest(b)
      BY <3>1, <3>2, <3>3 DEF CheckItem, BuildFails, Seal, Record, RecordFails, RecordFailure,
         FailureNotRecorded, BuilderStops, ExpireRecord
    <3>5. builder'[b] = Resting
      BY <1>0, <3>4 DEF Rest
    <3> QED BY <3>5, ExportAssumption DEF Resting
  <2> QED BY <2>1, <2>2
<1>7. draft'[e] # {} => export'[e] = None
  BY <1>4, <1>5 DEF BuildInv, CreatedInv
<1>8. removing' = removing
  BY WorkersRemoveNothing
<1> QED BY <1>3, <1>4, <1>5, <1>6, <1>7, <1>8, BuildFrame, SameIsSame

LEMMA ClaimKeepsBuild ==
  ASSUME Types, NEW e \in Exports, BuildInv(e), NEW b \in Builders, NEW x \in Exports, Claim(b, x)
  PROVE  BuildInv(e)'
<1>0. /\ export \in [Exports -> Export \cup {None}] /\ zip' = zip /\ draft' = draft /\ removing' = removing
      /\ history \in [Exports -> SUBSET Marks] /\ builder \in [Builders -> Builder]
  BY DEF Types, TypeOK, DatasetOK, Marks, Claim
<1>1. /\ builder'[b] = [Resting EXCEPT !.pc = "load", !.export = x]
      /\ \A y \in Builders \ {b} : builder'[y] = builder[y]
  BY <1>0 DEF Claim
<1>2. builder'[b].pc = "load" /\ builder'[b].export = x /\ builder'[b].todo = {} /\ builder'[b].got = {}
  BY <1>1 DEF Resting
<1>3. builder[b].export # e
  BY DEF Claim, BuildInv, WorkersInv
<1>4. history[e] \subseteq history'[e]
  BY <1>0 DEF Claim, Mark
<1>5. CASE e # x
  <2>1. export'[e] = export[e]
    BY <1>0, <1>5 DEF Claim
  <2>2. draft'[e] # {} => export'[e] = None
    BY <1>0, <2>1 DEF BuildInv, CreatedInv
  <2> QED BY <1>0, <1>1, <1>2, <1>3, <1>4, <1>5, <2>1, <2>2, BuildFrame, SameIsSame
<1>6. CASE e = x
  <2>1. export[e] # None /\ export[e] \in Export /\ Active(e)
    BY <1>0, <1>6 DEF Claim, Claimable, Active, Status
  <2>2. export'[e] # None /\ export'[e].status = "running" /\ export'[e].output = export[e].output
    <3>1. PICK new \in Export : new = [export[e] EXCEPT !.status = "running", !.lease = "held"]
      BY <2>1 DEF Export
    <3>2. export'[e] = new
      BY <1>0, <1>6, <3>1 DEF Claim
    <3> QED BY <2>1, <3>1, <3>2, ExportAssumption DEF Export
  <2>3. Status(e)' = "running" /\ ~Downloadable(e)'
    BY <2>2 DEF Status, Downloadable
  <2>4. \A y \in Builders : AtWork(y, e) => "doubled" \in history'[e]
    BY <1>0, <1>6 DEF Claim, Mark
  <2>5. \A y \in Builders : builder[y].export = e => ~At(y, "expire")
    BY <2>1 DEF BuildInv, StatusInv
  <2>6. \A y \in Builders : builder'[y].export = e => ~At(y, "expire")'
    BY <1>1, <1>2, <2>5 DEF At
  <2>7. \A y \in Builders : ~Clean(e, {"doubled"})' \/ (builder'[y].export = e => y = b)
    BY <1>1, <2>4, <2>5 DEF Clean, AtWork, At
  <2>8. \A marks : Clean(e, marks)' => Clean(e, marks)
    BY <1>4 DEF Clean
  <2>9. \A m : Clean(e, {"doubled", m})' => Clean(e, {"doubled"})'
    BY DEF Clean
  <2>10. CreatedInv(e)'
    BY <1>0, <2>1, <2>2 DEF BuildInv, CreatedInv
  <2>11. WorkersInv(e)'
    BY <1>1, <1>2, <2>7 DEF BuildInv, WorkersInv, At, AtWork
  <2>12. StatusInv(e)'
    BY <2>3, <2>6 DEF StatusInv
  <2>13. FileInv(e)'
    <3>1. Clean(e, {"doubled"})' => \A y \in Builders : ~AtWork(y, e) /\ ~(builder'[y].export = e /\ At(y, "record")')
      BY <1>1, <1>2, <2>4, <2>7 DEF AtWork, At, Clean
    <3>2. Clean(e, {"doubled", "cut"})' /\ zip[e] # None => export[e].output = zip[e]
      BY <2>8, <2>9, <3>1 DEF BuildInv, FileInv
    <3> QED BY <1>0, <2>2, <2>3, <2>6, <2>9, <3>1, <3>2 DEF FileInv, AtWork
  <2>14. ContentInv(e)'
    BY <1>2, <2>3, <2>7, <2>9 DEF ContentInv, AtWork, At
  <2> QED BY <2>10, <2>11, <2>12, <2>13, <2>14 DEF BuildInv
<1> QED BY <1>5, <1>6

LEMMA RemovalKeepsBuild ==
  ASSUME Types, NEW e \in Exports, BuildInv(e), NEW b \in Builders, NEW x \in Exports, ExpireRemove(b, x)
  PROVE  BuildInv(e)'
<1>0. /\ export' = export /\ zip \in [Exports -> Archive \cup {None}] /\ draft' = draft /\ removing' = removing
      /\ history' = history /\ builder \in [Builders -> Builder]
  BY DEF Types, TypeOK, DatasetOK, ExpireRemove
<1>1. /\ builder'[b] = [Resting EXCEPT !.pc = "expire", !.export = x]
      /\ \A y \in Builders \ {b} : builder'[y] = builder[y]
  BY <1>0 DEF ExpireRemove
<1>2. builder'[b].pc = "expire" /\ builder'[b].export = x
  BY <1>1 DEF Resting
<1>3. builder[b].export # e
  BY DEF ExpireRemove, BuildInv, WorkersInv
<1>4. draft'[e] # {} => export'[e] = None
  BY <1>0 DEF BuildInv, CreatedInv
<1>5. CASE e # x
  <2>1. zip'[e] = zip[e]
    BY <1>0, <1>5 DEF ExpireRemove, FileRemoved
  <2> QED BY <1>0, <1>1, <1>2, <1>3, <1>4, <1>5, <2>1, BuildFrame, SameIsSame
<1>6. CASE e = x
  <2>1. Finished(e) /\ ~Active(e) /\ ~Downloadable(e) /\ export[e] # None
    BY <1>6 DEF ExpireRemove, Finished, Active, Downloadable, Status
  <2>2. \A y \in Builders : AtWork(y, e)' => AtWork(y, e) /\ builder'[y] = builder[y]
    BY <1>1, <1>2 DEF AtWork
  <2>3. UNCHANGED <<Status(e), Active(e), Downloadable(e)>> /\ \A marks : Clean(e, marks)' = Clean(e, marks)
    BY <1>0 DEF Status, Active, Downloadable, Clean
  <2>4. Clean(e, {"doubled", "cut"}) => ~\E y \in Builders : AtWork(y, e) /\ At(y, "record")
    BY <2>1 DEF BuildInv, StatusInv, Active, Working, At
  <2>5. zip'[e] = None \/ (zip'[e] = zip[e] /\ export[e].output = None)
    BY <1>0, <1>6 DEF ExpireRemove, FileRemoved
  <2>6. Clean(e, {"doubled", "cut"}) => zip'[e] = None
    <3>1. Clean(e, {"doubled", "cut"}) /\ zip[e] # None => export[e].output = zip[e]
      BY <2>4 DEF BuildInv, FileInv
    <3> QED BY <2>5, <3>1
  <2>7. CreatedInv(e)'
    BY <1>0, <1>4, <2>1 DEF CreatedInv
  <2>8. WorkersInv(e)'
    BY <1>1, <1>2, <2>2, <2>3 DEF BuildInv, WorkersInv, At
  <2>9. StatusInv(e)'
    BY <2>1, <2>2, <2>3 DEF BuildInv, StatusInv
  <2>10. FileInv(e)'
    BY <2>1, <2>3, <2>6 DEF FileInv, Active
  <2>11. ContentInv(e)'
    BY <1>0, <2>1, <2>2, <2>3 DEF BuildInv, ContentInv, Active
  <2> QED BY <2>7, <2>8, <2>9, <2>10, <2>11 DEF BuildInv
<1> QED BY <1>5, <1>6

\* One item of a build, or its failure.
LEMMA ItemKeepsBuild ==
  ASSUME Types, NEW e \in Exports, BuildInv(e), HeldInv(e), NEW b \in Builders, builder[b].export = e,
         Load(b) \/ CheckItem(b) \/ ReadItem(b, TRUE) \/ ReadItem(b, FALSE) \/ BuildFails(b)
  PROVE  BuildInv(e)'
<1>0. /\ export \in [Exports -> Export \cup {None}] /\ builder \in [Builders -> Builder]
      /\ DatasetOK /\ Busy
  BY DEF Types, TypeOK, DatasetOK
<1>1. /\ builder[b] \in Builder /\ export[e] \in Export /\ export[e] # None
      /\ \A y \in Builders \ {b} : builder'[y] = builder[y]
  BY <1>0, WorkerChanges, ExportAssumption
<1>2. zip' = zip /\ draft' = draft /\ history' = history
  BY DEF Load, CheckItem, ReadItem, BuildFails
<1>3. SameExport(e)
  <2>1. CASE export' = export
    BY <2>1, SameIsSame
  <2>2. CASE export' = Renewed(e)
    <3>1. PICK new \in Export : /\ new = [export[e] EXCEPT !.lease = "held"]
      BY <1>1 DEF Export
    <3>2. export'[e] = export[e] \/ export'[e] = new
      BY <1>0, <2>2, <3>1 DEF Renewed
    <3>3. new # None /\ new.status = export[e].status /\ new.total = export[e].total
          /\ new.output = export[e].output /\ new.due = export[e].due
      BY <1>1, <3>1, ExportAssumption DEF Export
    <3>4. CASE export'[e] = new
      BY <1>1, <3>3, <3>4 DEF SameExport, Status, Downloadable
    <3> QED BY <3>2, <3>4, SameIsSame
  <2> QED BY <2>1, <2>2 DEF Load, CheckItem, ReadItem, BuildFails
<1>4. builder[b].pc \in {"load", "check", "read", "seal"}
  BY DEF Load, CheckItem, ReadItem, BuildFails, At
<1>5. \/ builder'[b].export # e
      \/ /\ builder'[b].export = e /\ builder'[b].pc \in {"check", "read", "seal", "fail"}
         /\ builder'[b].pc = "seal" => builder'[b].todo = {}
         /\ builder'[b].pc # "fail" /\ ~builder'[b].missed =>
              /\ ~builder[b].missed
              /\ \/ builder[b].pc = "load" /\ builder'[b].got = builder[b].got /\ builder'[b].todo = items[e]
                 \/ builder[b].pc # "load" /\ builder'[b].got \cup builder'[b].todo = builder[b].got \cup builder[b].todo
  <2>1. Rest(b) => builder'[b].export # e
    <3>1. Rest(b) => builder'[b] = Resting
      BY <1>0 DEF Rest
    <3> QED BY <3>1, ExportAssumption DEF Resting
  <2>2. \A pc \in {"check", "read", "seal", "fail"} : Go(b, pc) =>
          /\ builder'[b].pc = pc /\ builder'[b].export = e /\ builder'[b].todo = builder[b].todo
          /\ builder'[b].got = builder[b].got /\ builder'[b].missed = builder[b].missed
    BY <1>0, <1>1 DEF Go, Builder
  <2>3. CASE Load(b)
    <3>1. CASE builder' = [builder EXCEPT ![b].pc = "check", ![b].todo = items[e]]
      <4>1. builder'[b] = [builder[b] EXCEPT !.pc = "check", !.todo = items[e]]
        BY <1>0, <3>1
      <4> QED BY <1>1, <2>3, <4>1 DEF Load, At, Builder
    <3> QED BY <2>2, <2>3, <3>1 DEF Load
  <2>4. CASE CheckItem(b)
    BY <2>1, <2>2, <2>4 DEF CheckItem, At
  <2>5. ASSUME NEW decodes \in BOOLEAN, ReadItem(b, decodes)
        PROVE  /\ builder'[b].export = e /\ builder'[b].pc = "check"
               /\ ~builder'[b].missed => /\ ~builder[b].missed
                                         /\ builder'[b].got \cup builder'[b].todo = builder[b].got \cup builder[b].todo
    <3>1. PICK c \in builder[b].todo : builder' =
            [builder EXCEPT ![b].pc = "check", ![b].todo = @ \ {c},
               ![b].got = IF audio[c] = "in place" /\ decodes THEN @ \cup {c} ELSE @,
               ![b].missed = @ \/ audio[c] # "in place" \/ ~decodes]
      BY Zenon, <2>5 DEF ReadItem
    <3>2. /\ builder'[b].pc = "check" /\ builder'[b].export = e
          /\ builder'[b].todo = builder[b].todo \ {c}
          /\ builder'[b].got = IF audio[c] = "in place" /\ decodes THEN builder[b].got \cup {c} ELSE builder[b].got
          /\ builder'[b].missed = (builder[b].missed \/ audio[c] # "in place" \/ ~decodes)
      BY <1>0, <1>1, <3>1 DEF Builder
    <3> QED BY <3>2
  <2>6. CASE BuildFails(b)
    BY <2>2, <2>6 DEF BuildFails
  <2>7. ReadItem(b, TRUE) \/ ReadItem(b, FALSE) => builder[b].pc # "load"
    BY DEF ReadItem, At
  <2> QED BY <2>3, <2>4, <2>5, <2>6, <2>7
<1>6. \A marks : Clean(e, marks)' = Clean(e, marks)
  BY <1>2 DEF Clean
<1>7. CreatedInv(e)'
  BY <1>1, <1>2, <1>3 DEF BuildInv, CreatedInv, SameExport
<1>8. \A y \in Builders : /\ AtWork(y, e)' => AtWork(y, e)
                          /\ (builder'[y].export = e /\ At(y, "expire")' => builder[y].export = e /\ At(y, "expire"))
                          /\ AtWork(y, e)' /\ builder'[y].pc \in Working => builder[y].pc \in Working
                          /\ (AtWork(y, e)' /\ At(y, "record")') = (AtWork(y, e) /\ At(y, "record"))
                          /\ At(y, "record") => y # b /\ Built(y)' = Built(y)
  <2>1. /\ AtWork(b, e)' => AtWork(b, e)
        /\ ~(builder'[b].export = e /\ At(b, "expire")')
        /\ AtWork(b, e)' /\ builder'[b].pc \in Working => builder[b].pc \in Working
        /\ ~(AtWork(b, e)' /\ At(b, "record")') /\ ~At(b, "record")
    BY <1>4, <1>5 DEF AtWork, At, Working
  <2>2. ASSUME NEW y \in Builders \ {b}
        PROVE  UNCHANGED <<AtWork(y, e), At(y, "expire"), At(y, "record"), builder[y], Built(y)>>
    BY <1>1 DEF AtWork, At, Built
  <2> QED BY <2>1, <2>2
<1>9. WorkersInv(e)'
  <2>1. /\ builder'[b].export = e => ~At(b, "idle")'
        /\ builder'[b].export = e /\ builder'[b].pc \in {"seal", "record"} => builder'[b].todo = {}
    BY <1>5 DEF At
  <2>2. ASSUME NEW y \in Builders \ {b}
        PROVE  /\ builder'[y].export = e => ~At(y, "idle")'
               /\ builder'[y].export = e /\ builder'[y].pc \in {"seal", "record"} => builder'[y].todo = {}
    BY <1>1 DEF BuildInv, WorkersInv, At
  <2>3. Clean(e, {"doubled"})' => \A y, x \in Builders : AtWork(y, e)' /\ AtWork(x, e)' => y = x
    BY <1>6, <1>8 DEF BuildInv, WorkersInv
  <2> QED BY <2>1, <2>2, <2>3 DEF WorkersInv
<1>10. Status(e)' = Status(e) /\ Active(e)' = Active(e)
  BY <1>3 DEF SameExport, Active
<1>11. StatusInv(e)'
  BY <1>6, <1>8, <1>10 DEF BuildInv, StatusInv
<1>12. FileInv(e)'
  <2>1. export'[e].output = export[e].output /\ (Downloadable(e)' => Downloadable(e)) /\ zip'[e] = zip[e]
    BY <1>1, <1>2, <1>3 DEF SameExport
  <2>2. removing' = removing
    BY WorkersRemoveNothing
  <2> QED BY <1>6, <1>8, <1>10, <2>1, <2>2 DEF BuildInv, FileInv
<1>13. ContentInv(e)'
  <2>1. export'[e].output = export[e].output /\ export'[e].total = export[e].total
    BY <1>1, <1>3 DEF SameExport
  <2>2. Clean(e, {"doubled", "overlapped"}) /\ Status(e) = "running" => items[e] = export[e].total
    BY DEF HeldInv, Clean, Active
  <2>3. ASSUME Clean(e, {"doubled", "overlapped"}), Status(e) = "running", NEW y \in Builders,
               AtWork(y, e)', builder'[y].pc \in Working, ~builder'[y].missed
        PROVE  IF At(y, "load")' THEN builder'[y].got = {} ELSE builder'[y].got \cup builder'[y].todo = export[e].total
    <3>1. AtWork(y, e) /\ builder[y].pc \in Working
      BY <1>8, <2>3
    <3>2. ~builder[y].missed =>
            IF At(y, "load") THEN builder[y].got = {} ELSE builder[y].got \cup builder[y].todo = export[e].total
      BY <2>3, <3>1 DEF BuildInv, ContentInv
    <3>3. CASE y # b
      BY <1>1, <2>3, <3>2, <3>3 DEF At
    <3>4. CASE y = b
      <4>1. ~At(y, "load")' /\ builder'[b].pc # "fail" /\ builder'[b].export = e
        BY <1>5, <2>3, <3>4 DEF At, AtWork, Working
      <4>2. ~builder[b].missed
        BY <1>5, <2>3, <3>4, <4>1
      <4>3. CASE builder[b].pc = "load" /\ builder'[b].got = builder[b].got /\ builder'[b].todo = items[e]
        BY <2>2, <2>3, <3>2, <3>4, <4>1, <4>2, <4>3 DEF At
      <4>4. CASE builder[b].pc # "load" /\ builder'[b].got \cup builder'[b].todo = builder[b].got \cup builder[b].todo
        BY <2>3, <3>2, <3>4, <4>1, <4>2, <4>4 DEF At
      <4> QED BY <1>5, <2>3, <3>4, <4>1, <4>3, <4>4
    <3> QED BY <3>3, <3>4
  <2> QED BY <1>6, <1>10, <2>1, <2>3 DEF BuildInv, ContentInv
<1> QED BY <1>7, <1>9, <1>11, <1>12, <1>13 DEF BuildInv

LEMMA SealKeepsBuild ==
  ASSUME Types, NEW e \in Exports, BuildInv(e), NEW b \in Builders, builder[b].export = e, Seal(b)
  PROVE  BuildInv(e)'
<1>0. /\ builder \in [Builders -> Builder] /\ zip \in [Exports -> Archive \cup {None}]
      /\ export' = export /\ draft' = draft /\ history' = history
      /\ DatasetOK /\ Busy
  BY DEF Types, TypeOK, DatasetOK, Seal
<1>1. /\ builder[b].pc = "seal" /\ builder[b] \in Builder /\ export[e] # None
      /\ \A y \in Builders \ {b} : builder'[y] = builder[y]
  BY <1>0, WorkerChanges, ExportAssumption DEF Seal, At
<1>2. /\ builder'[b].pc = "record" /\ builder'[b].export = e /\ builder'[b].todo = builder[b].todo
      /\ builder'[b].got = builder[b].got /\ builder'[b].missed = builder[b].missed
  BY <1>0, <1>1 DEF Seal, Go, Builder
<1>3. zip'[e] = Built(b) /\ Built(b)' = Built(b)
  BY <1>0, <1>2 DEF Seal, Built
<1>4. \A marks : Clean(e, marks)' = Clean(e, marks)
  BY <1>0 DEF Clean
<1>5. UNCHANGED <<Status(e), Active(e), Downloadable(e)>>
  BY <1>0 DEF Status, Active, Downloadable
<1>6. AtWork(b, e) /\ AtWork(b, e)' /\ \A y \in Builders \ {b} : AtWork(y, e)' = AtWork(y, e)
  BY <1>1, <1>2 DEF AtWork
<1>7. Clean(e, {"doubled", "cut"}) => Clean(e, {"doubled"}) /\ Status(e) = "running"
  <2>1. Clean(e, {"doubled", "cut"}) => Clean(e, {"doubled"})
    BY DEF Clean
  <2>2. builder[b].pc \in Working
    BY <1>1 DEF Working
  <2> QED BY <1>6, <2>1, <2>2 DEF BuildInv, StatusInv
<1>8. CreatedInv(e)'
  BY <1>0, <1>1 DEF BuildInv, CreatedInv
<1>9. WorkersInv(e)'
  <2>1. Clean(e, {"doubled"})' => \A y, x \in Builders : AtWork(y, e)' /\ AtWork(x, e)' => y = x
    BY <1>4, <1>6 DEF BuildInv, WorkersInv
  <2>2. \A y \in Builders : builder'[y].export = e =>
          ~At(y, "idle")' /\ (builder'[y].pc \in {"seal", "record"} => builder'[y].todo = {})
    BY <1>1, <1>2 DEF BuildInv, WorkersInv, At
  <2> QED BY <2>1, <2>2 DEF WorkersInv
<1>10. StatusInv(e)'
  BY <1>1, <1>2, <1>4, <1>5, <1>6 DEF BuildInv, StatusInv, At, Working
<1>11. FileInv(e)'
  <2>1. Clean(e, {"doubled"})' => \A y \in Builders : AtWork(y, e)' => y = b
    BY <1>4, <1>6 DEF BuildInv, WorkersInv
  <2>2. Clean(e, {"doubled", "cut"})' => \A y \in Builders : ~(builder'[y].export = e /\ At(y, "expire")')
    BY <1>1, <1>2, <1>4, <1>7 DEF BuildInv, StatusInv, At, Active
  <2>3. Clean(e, {"doubled", "reply lost"})' => ~Downloadable(e)'
    BY <1>4, <1>5, <1>6 DEF BuildInv, StatusInv, Downloadable
  <2>4. AtWork(b, e)' /\ At(b, "record")'
    BY <1>2, <1>6 DEF At
  <2> QED BY <1>3, <2>1, <2>2, <2>3, <2>4 DEF FileInv
<1>12. ContentInv(e)'
  <2>1. \A y \in Builders : AtWork(y, e)' /\ builder'[y].pc \in Working /\ ~builder'[y].missed =>
          AtWork(y, e) /\ builder[y].pc \in Working /\ ~builder[y].missed
    BY <1>1, <1>2, <1>6 DEF Working
  <2>2. \A y \in Builders : /\ builder'[y].got = builder[y].got /\ builder'[y].todo = builder[y].todo
                            /\ At(y, "load")' = At(y, "load")
    BY <1>1, <1>2 DEF At
  <2> QED BY <1>0, <1>4, <1>5, <2>1, <2>2 DEF BuildInv, ContentInv
<1> QED BY <1>8, <1>9, <1>10, <1>11, <1>12 DEF BuildInv

\* What the final UPDATE makes of an export that only one worker built.
LEMMA RecordedBuild ==
  ASSUME Types, NEW e \in Exports, BuildInv(e), NEW b \in Builders, builder[b].export = e, At(b, "record"),
         NEW new, new = Recorded(b)[e]
  PROVE  /\ new # None
         /\ Status(e) # "running" => new = export[e]
         /\ Status(e) = "running" => /\ new.status \in {"completed", "with warnings"} /\ new.output = Built(b)
                                     /\ Clean(e, {"doubled"}) => zip[e] = Built(b)
                                     /\ Clean(e, {"doubled", "overlapped"}) /\ new.status = "completed" =>
                                          new.output # None /\ new.output.calls = new.total
<1>0. /\ builder \in [Builders -> Builder] /\ export \in [Exports -> Export \cup {None}]
      /\ DatasetOK /\ Busy
  BY DEF Types, TypeOK, DatasetOK
<1>1. /\ builder[b].pc = "record" /\ builder[b] \in Builder /\ export[e] \in Export
  BY <1>0 DEF At, Busy, DatasetOK
<1>2. CASE Status(e) # "running"
  BY <1>0, <1>1, <1>2, ExportAssumption DEF Recorded
<1>3. CASE Status(e) = "running"
  <2>1. PICK outcome \in {"completed", "with warnings"} : outcome = Outcome(b)
    BY DEF Outcome
  <2>2. Built(b) \in Archive
    BY <1>0, WritesTypes
  <2>3. PICK row2 \in Export : row2 = [export[e] EXCEPT !.status = outcome, !.output = Built(b), !.lease = "none"]
    BY <1>1, <2>2 DEF Export
  <2>4. new = row2
    BY <1>0, <1>3, <2>1, <2>3 DEF Recorded, WithOutput
  <2>5. new.status = outcome /\ new.output = Built(b) /\ new.total = export[e].total /\ new # None
    BY <1>1, <2>3, <2>4, ExportAssumption DEF Export
  <2>6. AtWork(b, e) /\ builder[b].pc \in Working /\ builder[b].todo = {} /\ ~At(b, "load")
    BY <1>1 DEF AtWork, Working, At, BuildInv, WorkersInv
  <2>7. Clean(e, {"doubled"}) => zip[e] = Built(b)
    BY <1>3, <2>6 DEF BuildInv, FileInv
  <2>8. Built(b).calls = builder[b].got /\ Built(b) # None
    BY <2>2, ExportAssumption DEF Built
  <2>9. ASSUME Clean(e, {"doubled", "overlapped"}), outcome = "completed" PROVE builder[b].got = export[e].total
    <3>1. ~builder[b].missed
      BY <2>1, <2>9 DEF Outcome
    <3>2. builder[b].got \cup builder[b].todo = export[e].total
      BY <1>3, <2>6, <2>9, <3>1 DEF BuildInv, ContentInv
    <3> QED BY <2>6, <3>2
  <2> QED BY <1>3, <2>5, <2>7, <2>8, <2>9
<1> QED BY <1>2, <1>3

LEMMA RecordKeepsBuild ==
  ASSUME Types, NEW e \in Exports, BuildInv(e), NEW b \in Builders, builder[b].export = e,
         Record(b) \/ \E applied \in BOOLEAN : RecordFails(b, applied)
  PROVE  BuildInv(e)'
<1>0. /\ builder \in [Builders -> Builder] /\ zip \in [Exports -> Archive \cup {None}]
      /\ history \in [Exports -> SUBSET Marks] /\ draft' = draft
      /\ DatasetOK /\ Busy
  BY DEF Types, TypeOK, DatasetOK, Record, RecordFails, Marks
<1>1. /\ At(b, "record") /\ builder[b].pc = "record" /\ builder[b] \in Builder /\ export[e] # None
      /\ \A y \in Builders \ {b} : builder'[y] = builder[y]
  BY <1>0, WorkerChanges, ExportAssumption DEF Record, RecordFails, At
<1>2. PICK new : new = Recorded(b)[e]
  OBVIOUS
<1>3. /\ new # None
      /\ Status(e) # "running" => new = export[e]
      /\ Status(e) = "running" => /\ new.status \in {"completed", "with warnings"} /\ new.output = Built(b)
                                  /\ Clean(e, {"doubled"}) => zip[e] = Built(b)
                                  /\ Clean(e, {"doubled", "overlapped"}) /\ new.status = "completed" =>
                                       new.output # None /\ new.output.calls = new.total
  BY <1>1, <1>2, RecordedBuild
<1>4. \/ export'[e] = new /\ zip' = zip /\ history' = history /\ builder'[b].export # e
      \/ export'[e] = new /\ zip'[e] = None /\ history[e] \subseteq history'[e] /\ "reply lost" \in history'[e]
         /\ builder'[b].export = e /\ builder'[b].pc = "fail"
      \/ export' = export /\ zip'[e] = None /\ history' = history /\ builder'[b].export = e /\ builder'[b].pc = "fail"
  <2>1. CASE Record(b)
    <3>1. builder'[b] = Resting
      BY <1>0, <2>1 DEF Record, Rest
    <3>2. builder'[b].export # e
      BY <3>1, ExportAssumption DEF Resting
    <3> QED BY <1>2, <2>1, <3>2 DEF Record
  <2>2. ASSUME NEW applied \in BOOLEAN, RecordFails(b, applied)
        PROVE  \/ export'[e] = new /\ zip'[e] = None /\ history[e] \subseteq history'[e] /\ "reply lost" \in history'[e]
                  /\ builder'[b].export = e /\ builder'[b].pc = "fail"
               \/ export' = export /\ zip'[e] = None /\ history' = history /\ builder'[b].export = e /\ builder'[b].pc = "fail"
    <3>1. builder'[b].export = e /\ builder'[b].pc = "fail"
      BY <1>0, <1>1, <2>2 DEF RecordFails, Go, Builder
    <3>2. zip'[e] = None
      BY <1>0, <2>2 DEF RecordFails, FileRemoved
    <3>3. history[e] \subseteq Mark(e, "reply lost")[e] /\ "reply lost" \in Mark(e, "reply lost")[e]
      BY <1>0 DEF Mark
    <3>4. CASE applied
      BY <1>2, <2>2, <3>1, <3>2, <3>3, <3>4 DEF RecordFails
    <3>5. CASE ~applied
      BY <2>2, <3>1, <3>2, <3>5 DEF RecordFails
    <3> QED BY <3>4, <3>5
  <2> QED BY <2>1, <2>2
<1>5. \A marks : Clean(e, marks)' => Clean(e, marks)
  BY <1>4 DEF Clean
<1>6. AtWork(b, e) /\ \A y \in Builders \ {b} : AtWork(y, e)' = AtWork(y, e)
  BY <1>1 DEF AtWork
<1>7. AtWork(b, e)' => builder'[b].pc = "fail"
  BY <1>4 DEF AtWork
<1>8. Clean(e, {"doubled"}) => \A y \in Builders : AtWork(y, e)' => y = b
  BY <1>6 DEF BuildInv, WorkersInv
<1>9. \A m : /\ Clean(e, {"doubled", m}) => Clean(e, {"doubled"})
             /\ Clean(e, {"doubled", m})' => Clean(e, {"doubled"})'
  BY DEF Clean
<1>10. \/ export'[e] = export[e] /\ Status(e)' = Status(e) /\ Active(e)' = Active(e)
          /\ Downloadable(e)' = Downloadable(e)
       \/ export'[e] = new /\ Status(e) = "running" /\ Status(e)' = new.status /\ ~Active(e)'
  <2>1. CASE export'[e] = export[e]
    BY <2>1 DEF Status, Active, Downloadable
  <2>2. CASE export'[e] = new /\ Status(e) = "running"
    <3>1. Status(e)' = new.status
      BY <1>3, <2>2 DEF Status
    <3> QED BY <1>3, <2>2, <3>1 DEF Active
  <2> QED BY <1>3, <1>4, <2>1, <2>2
<1>11. CreatedInv(e)'
  BY <1>0, <1>1, <1>3, <1>4 DEF BuildInv, CreatedInv
<1>12. WorkersInv(e)'
  <2>1. Clean(e, {"doubled"})' => \A y, x \in Builders : AtWork(y, e)' /\ AtWork(x, e)' => y = x
    BY <1>5, <1>8
  <2>2. \A y \in Builders : builder'[y].export = e =>
          ~At(y, "idle")' /\ (builder'[y].pc \in {"seal", "record"} => builder'[y].todo = {})
    BY <1>1, <1>4 DEF BuildInv, WorkersInv, At
  <2> QED BY <2>1, <2>2 DEF WorkersInv
<1>13. StatusInv(e)'
  <2>1. \A y \in Builders : builder'[y].export = e /\ At(y, "expire")' => builder[y].export = e /\ At(y, "expire")
    BY <1>1, <1>4 DEF At
  <2>2. ASSUME Clean(e, {"doubled", "reply lost"})', NEW y \in Builders, AtWork(y, e)'
        PROVE  Status(e)' \in {"running", "cancelled", "expired", "deleted"}
    <3>1. y = b /\ builder'[b].export = e
      BY <1>5, <1>8, <1>9, <2>2 DEF AtWork
    <3>2. export'[e] = export[e] \/ "reply lost" \in history'[e]
      BY <1>4, <3>1
    <3>3. export'[e] = export[e]
      BY <2>2, <3>2 DEF Clean
    <3>4. Status(e)' = Status(e)
      BY <3>3 DEF Status
    <3> QED BY <1>5, <1>6, <2>2, <3>4 DEF BuildInv, StatusInv
  <2>3. Clean(e, {"doubled", "cut"})' => \A y \in Builders : ~(AtWork(y, e)' /\ builder'[y].pc \in Working)
    BY <1>5, <1>7, <1>8, <1>9 DEF Working
  <2>4. Active(e)' => Active(e)
    BY <1>10
  <2> QED BY <2>1, <2>2, <2>3, <2>4 DEF BuildInv, StatusInv
<1>14. FileInv(e)'
  <2>1. Clean(e, {"doubled"})' => ~\E y \in Builders : AtWork(y, e)' /\ At(y, "record")'
    BY <1>5, <1>7, <1>8 DEF At
  <2>2. Clean(e, {"doubled", "cut"})' => Status(e) = "running" /\ Clean(e, {"doubled"})
    <3>1. builder[b].pc \in Working
      BY <1>1 DEF Working
    <3> QED BY <1>5, <1>6, <1>9, <3>1 DEF BuildInv, StatusInv
  <2>3. Clean(e, {"doubled", "cut"})' /\ zip'[e] # None => export'[e].output = zip'[e]
    BY <1>3, <1>4, <2>2
  <2>4. Clean(e, {"doubled", "cut"})' => \A y \in Builders : ~(builder'[y].export = e /\ At(y, "expire")')
    <3>1. \A y \in Builders : builder'[y].export = e /\ At(y, "expire")' => builder[y].export = e /\ At(y, "expire")
      BY <1>1, <1>4 DEF At
    <3> QED BY <2>2, <3>1 DEF BuildInv, StatusInv, Active
  <2>5. Clean(e, {"doubled", "reply lost"})' /\ Downloadable(e)' => zip'[e] = export'[e].output
    <3>1. SUFFICES ASSUME Clean(e, {"doubled", "reply lost"})', Downloadable(e)' PROVE zip'[e] = export'[e].output
      OBVIOUS
    <3>2. Clean(e, {"doubled"}) /\ Clean(e, {"doubled", "reply lost"}) /\ "reply lost" \notin history'[e]
      BY <1>5, <1>9, <3>1 DEF Clean
    <3>3. Status(e) \in {"running", "cancelled", "expired", "deleted"}
      BY <1>6, <3>2 DEF BuildInv, StatusInv
    <3>4. ~Downloadable(e)
      BY <3>3 DEF Downloadable
    <3>5. export'[e] # export[e]
      BY <3>1, <3>4 DEF Downloadable, Status
    <3>6. export'[e] = new /\ Status(e) = "running" /\ zip' = zip
      BY <1>4, <1>10, <3>2, <3>5
    <3> QED BY <1>3, <3>2, <3>6
  <2> QED BY <1>9, <2>1, <2>3, <2>4, <2>5 DEF FileInv
<1>15. ContentInv(e)'
  <2>1. Clean(e, {"doubled", "overlapped"})' => \A y \in Builders : ~(AtWork(y, e)' /\ builder'[y].pc \in Working)
    BY <1>5, <1>7, <1>8, <1>9 DEF Working
  <2>2. Clean(e, {"doubled", "overlapped"})' /\ Status(e)' = "completed" =>
          export'[e].output # None /\ export'[e].output.calls = export'[e].total
    BY <1>3, <1>5, <1>10 DEF BuildInv, ContentInv
  <2> QED BY <2>1, <2>2 DEF ContentInv
<1> QED BY <1>11, <1>12, <1>13, <1>14, <1>15 DEF BuildInv

\* A worker gives up its export: after a failure, recorded or not, or because it is stopped.
LEMMA LeavingKeepsBuild ==
  ASSUME Types, NEW e \in Exports, BuildInv(e), NEW b \in Builders, builder[b].export = e,
         RecordFailure(b) \/ FailureNotRecorded(b) \/ BuilderStops(b)
  PROVE  BuildInv(e)'
<1>0. /\ builder \in [Builders -> Builder] /\ export \in [Exports -> Export \cup {None}]
      /\ history \in [Exports -> SUBSET Marks] /\ draft' = draft /\ zip' = zip
      /\ DatasetOK /\ Busy
  BY DEF Types, TypeOK, DatasetOK, RecordFailure, FailureNotRecorded, BuilderStops, Marks
<1>1. /\ export[e] \in Export /\ export[e] # None
      /\ \A y \in Builders \ {b} : builder'[y] = builder[y]
  BY <1>0, WorkerChanges, ExportAssumption
<1>2. builder'[b].export # e
  <2>1. builder'[b] = Resting
    BY <1>0 DEF RecordFailure, FailureNotRecorded, BuilderStops, Rest
  <2> QED BY <2>1, ExportAssumption DEF Resting
<1>3. history[e] \subseteq history'[e]
  BY <1>0 DEF RecordFailure, FailureNotRecorded, BuilderStops, Mark
<1>4. \/ At(b, "fail")
      \/ "cut" \in history'[e]
  BY <1>0 DEF RecordFailure, FailureNotRecorded, BuilderStops, Mark
<1>5. \/ export'[e] = export[e]
      \/ /\ export'[e] # None /\ export'[e].status = "failed" /\ export'[e].output = export[e].output
         /\ At(b, "fail")
  <2>1. PICK new : new = [export[e] EXCEPT !.status = "failed", !.lease = "none"]
    OBVIOUS
  <2>2. new \in Export /\ new.status = "failed" /\ new.output = export[e].output
    BY <1>1, <2>1 DEF Export
  <2>3. export'[e] = export[e] \/ (export'[e] = new /\ At(b, "fail"))
    BY <1>0, <2>1 DEF RecordFailure, FailureNotRecorded, BuilderStops
  <2> QED BY <2>2, <2>3, ExportAssumption
<1>6. CASE export'[e] = export[e]
  <2>1. \A marks : Clean(e, marks)' => Clean(e, marks)
    BY <1>3 DEF Clean
  <2>2. UNCHANGED <<Status(e), Active(e), Downloadable(e)>>
    BY <1>6 DEF Status, Active, Downloadable
  <2>3. \A y \in Builders : builder'[y].export = e => builder'[y] = builder[y] /\ y # b
    BY <1>1, <1>2
  <2>4. CreatedInv(e)'
    BY <1>0, <1>6 DEF BuildInv, CreatedInv
  <2>5. WorkersInv(e)'
    BY <2>1, <2>3 DEF BuildInv, WorkersInv, At, AtWork
  <2>6. StatusInv(e)'
    BY <2>1, <2>2, <2>3 DEF BuildInv, StatusInv, At, AtWork
  <2>7. FileInv(e)'
    <3>1. \A y \in Builders : AtWork(y, e)' => AtWork(y, e) /\ At(y, "record")' = At(y, "record") /\ Built(y)' = Built(y)
      BY <2>3 DEF AtWork, At, Built
    <3>2. \A y \in Builders : builder'[y].export = e /\ At(y, "expire")' => builder[y].export = e /\ At(y, "expire")
      BY <2>3 DEF At
    <3>3. Clean(e, {"doubled", "cut"})' => \A y \in Builders : AtWork(y, e) /\ At(y, "record") => y # b
      BY <1>4 DEF Clean, At
    <3>4. \A y \in Builders \ {b} : AtWork(y, e) /\ At(y, "record") => AtWork(y, e)' /\ At(y, "record")'
      BY <1>1 DEF AtWork, At
    <3>5. Clean(e, {"doubled", "cut"})' /\ zip'[e] # None =>
            export'[e].output = zip'[e] \/ \E y \in Builders : AtWork(y, e)' /\ At(y, "record")'
      BY <1>0, <1>6, <2>1, <3>3, <3>4 DEF BuildInv, FileInv
    <3>6. removing' = removing
      BY WorkersRemoveNothing
    <3> QED BY <1>0, <1>6, <2>1, <2>2, <3>1, <3>2, <3>5, <3>6 DEF BuildInv, FileInv
  <2>8. ContentInv(e)'
    BY <1>6, <2>1, <2>2, <2>3 DEF BuildInv, ContentInv, At, AtWork
  <2> QED BY <2>4, <2>5, <2>6, <2>7, <2>8 DEF BuildInv
<1>7. CASE /\ export'[e] # None /\ export'[e].status = "failed" /\ export'[e].output = export[e].output
           /\ At(b, "fail")
  <2>1. \A marks : Clean(e, marks)' => Clean(e, marks)
    BY <1>3 DEF Clean
  <2>2. Status(e)' = "failed" /\ ~Active(e)' /\ ~Downloadable(e)'
    BY <1>7 DEF Status, Active, Downloadable
  <2>3. \A y \in Builders : builder'[y].export = e => builder'[y] = builder[y] /\ y # b
    BY <1>1, <1>2
  <2>4. AtWork(b, e)
    BY <1>7 DEF AtWork, At
  <2>5. Clean(e, {"doubled"}) => \A y \in Builders : AtWork(y, e) => y = b
    BY <2>4 DEF BuildInv, WorkersInv
  <2>6. Clean(e, {"doubled"})' => \A y \in Builders : ~AtWork(y, e)'
    BY <2>1, <2>3, <2>5 DEF AtWork
  <2>7. \A m : Clean(e, {"doubled", m})' => Clean(e, {"doubled"})'
    BY DEF Clean
  <2>8. CreatedInv(e)'
    BY <1>0, <1>1, <1>7 DEF BuildInv, CreatedInv
  <2>9. WorkersInv(e)'
    BY <2>3, <2>6 DEF BuildInv, WorkersInv, At
  <2>10. StatusInv(e)'
    BY <2>2, <2>6, <2>7 DEF StatusInv
  <2>11. FileInv(e)'
    <3>1. Clean(e, {"doubled", "cut"})' /\ zip'[e] # None => export'[e].output = zip'[e]
      <4>1. Clean(e, {"doubled", "cut"})' => ~\E y \in Builders : AtWork(y, e) /\ At(y, "record")
        BY <1>7, <2>1, <2>5, <2>7 DEF At
      <4> QED BY <1>0, <1>7, <2>1, <4>1 DEF BuildInv, FileInv
    <3>2. \A y \in Builders : builder'[y].export = e /\ At(y, "expire")' => builder[y].export = e /\ At(y, "expire")
      BY <2>3 DEF At
    <3> QED BY <1>0, <2>1, <2>2, <3>1, <3>2 DEF BuildInv, FileInv
  <2>12. ContentInv(e)'
    BY <2>2 DEF ContentInv
  <2> QED BY <2>8, <2>9, <2>10, <2>11, <2>12 DEF BuildInv
<1> QED BY <1>5, <1>6, <1>7

LEMMA ExpiryKeepsBuild ==
  ASSUME Types, NEW e \in Exports, BuildInv(e), NEW b \in Builders, builder[b].export = e, ExpireRecord(b)
  PROVE  BuildInv(e)'
<1>0. /\ builder \in [Builders -> Builder] /\ export \in [Exports -> Export \cup {None}]
      /\ history' = history /\ draft' = draft /\ zip' = zip
      /\ DatasetOK /\ Busy
  BY DEF Types, TypeOK, DatasetOK, ExpireRecord
<1>1. /\ export[e] \in Export /\ export[e] # None
      /\ \A y \in Builders \ {b} : builder'[y] = builder[y]
  BY <1>0, WorkerChanges, ExportAssumption
<1>2. builder'[b].export # e
  <2>1. builder'[b] = Resting
    BY <1>0 DEF ExpireRecord, Rest
  <2> QED BY <2>1, ExportAssumption DEF Resting
<1>3. export'[e] # None /\ Status(e)' \in {"expired", "deleted"}
  <2>1. PICK new : new = [export[e] EXCEPT !.status = "expired", !.output = None]
    OBVIOUS
  <2>2. new \in Export /\ new.status = "expired"
    BY <1>1, <2>1 DEF Export
  <2>3. export'[e] = new \/ (export'[e] = export[e] /\ Status(e) = "deleted")
    BY <1>0, <2>1 DEF ExpireRecord
  <2>4. export'[e] # None
    BY <1>1, <2>2, <2>3, ExportAssumption
  <2> QED BY <2>2, <2>3, <2>4 DEF Status
<1>4. ~Active(e) /\ ~Active(e)' /\ ~Downloadable(e)'
  BY <1>3 DEF ExpireRecord, BuildInv, StatusInv, Active, Downloadable
<1>5. \A y \in Builders : builder'[y].export = e => builder'[y] = builder[y]
  BY <1>1, <1>2
<1>6. \A marks : Clean(e, marks)' = Clean(e, marks)
  BY <1>0 DEF Clean
<1>7. Clean(e, {"doubled", "cut"}) => zip[e] = None
  BY DEF ExpireRecord, BuildInv, FileInv
<1>8. CreatedInv(e)'
  BY <1>0, <1>1, <1>3 DEF BuildInv, CreatedInv
<1>9. WorkersInv(e)'
  BY <1>5, <1>6 DEF BuildInv, WorkersInv, At, AtWork
<1>10. StatusInv(e)'
  <2>1. Clean(e, {"doubled", "cut"})' => \A y \in Builders : ~(AtWork(y, e)' /\ builder'[y].pc \in Working)
    BY <1>4, <1>5, <1>6 DEF BuildInv, StatusInv, AtWork, At, Active
  <2> QED BY <1>3, <1>4, <2>1 DEF StatusInv
<1>11. FileInv(e)'
  BY <1>0, <1>3, <1>4, <1>6, <1>7 DEF FileInv
<1>12. ContentInv(e)'
  BY <1>3 DEF ContentInv
<1> QED BY <1>8, <1>9, <1>10, <1>11, <1>12 DEF BuildInv

LEMMA BuildersKeepBuild ==
  ASSUME Types, NEW e \in Exports, BuildInv(e), HeldInv(e), NEW b \in Builders,
         \/ Load(b) \/ CheckItem(b) \/ ReadItem(b, TRUE) \/ ReadItem(b, FALSE) \/ Seal(b) \/ Record(b)
         \/ RecordFailure(b) \/ BuildFails(b) \/ FailureNotRecorded(b) \/ BuilderStops(b)
         \/ (\E applied \in BOOLEAN : RecordFails(b, applied)) \/ ExpireRecord(b)
         \/ (\E x \in Exports : Claim(b, x) \/ ExpireRemove(b, x))
  PROVE  BuildInv(e)'
<1>1. CASE \E x \in Exports : Claim(b, x) \/ ExpireRemove(b, x)
  BY <1>1, ClaimKeepsBuild, RemovalKeepsBuild
<1>2. CASE builder[b].export # e
  BY <1>1, <1>2, OthersBuild
<1>3. CASE builder[b].export = e
  BY <1>1, <1>3, ItemKeepsBuild, SealKeepsBuild, RecordKeepsBuild, LeavingKeepsBuild, ExpiryKeepsBuild
<1> QED BY <1>2, <1>3

LEMMA BuildInvStep ==
  ASSUME Types, NEW e \in Exports, HeldInv(e), BuildInv(e), RemovedInv(e), [Next]_vars
  PROVE  BuildInv(e)'
<1>1. ASSUME UNCHANGED <<export, draft, zip, builder, removing>>, history[e] \subseteq history'[e] PROVE BuildInv(e)'
  <2>1. draft'[e] # {} => export'[e] = None
    BY <1>1 DEF BuildInv, CreatedInv
  <2>2. SameExport(e)
    BY <1>1, SameIsSame
  <2> QED BY <1>1, <2>1, <2>2, BuildFrame
<1>2. CASE RetentionStep \/ RetentionError \/ ProtectionStep \/ DeleteCalls \/ UNCHANGED vars
  BY <1>1, <1>2 DEF RetentionStep, RetentionError, ProtectionStep, DeleteCalls, datasetVars, vars
<1>3. CASE DeleteSnapshot
  BY <1>1, <1>3 DEF DeleteSnapshot
<1>4. CASE RequestStep \/ RequestFails
  <2>1. PICK x \in Exports : CreateBegins(x, IF sweep.pc = "delete" THEN sweep.doomed ELSE {})
                             \/ CreateFails(x) \/ CancelExport(x) \/ DeleteFile(x) \/ DeleteRow(x)
    BY <1>4 DEF RequestStep, RequestFails
  <2> QED BY <2>1, RequestsKeepBuild
<1>5. ASSUME NEW x \in Exports, CommitStep(x) \/ LapseStep(x) \/ SlowBuilder(x) PROVE BuildInv(e)'
  BY <1>5, RequestsKeepBuild DEF CommitStep, LapseStep, SlowBuilder
<1>6. ASSUME NEW b \in Builders, ClaimStep(b) \/ BuildStep(b) \/ BuildError(b) PROVE BuildInv(e)'
  BY <1>6, BuildersKeepBuild DEF ClaimStep, BuildStep, BuildError
<1>7. CASE ExpiryStep
  BY <1>7, RequestsKeepBuild, BuildersKeepBuild DEF ExpiryStep
<1> QED BY <1>2, <1>3, <1>4, <1>5, <1>6, <1>7 DEF Next

\* What workers and other requests do to an export whose file a deletion has removed.
LEMMA RemovedFrame ==
  ASSUME NEW e \in Exports, RemovedInv(e), e \in removing' => e \in removing,
         Active(e)' => Active(e), history[e] \subseteq history'[e],
         Clean(e, {"doubled", "cut"})' => zip'[e] \in {zip[e], None}
  PROVE  RemovedInv(e)'
BY DEF RemovedInv, Clean

LEMMA InactiveStays ==
  ASSUME Types, NEW e \in Exports, NEW new \in Export, export' = [export EXCEPT ![e] = new],
         new.status \in {"pending", "running"} => Active(e)
  PROVE  \A x \in Exports : Active(x)' => Active(x)
BY ExportAssumption DEF Types, TypeOK, DatasetOK, Active, Status

LEMMA RequestsKeepRemoved ==
  ASSUME Types, NEW e \in Exports, NEW x \in Exports, BuildInv(e), RemovedInv(e),
         \/ CreateBegins(x, IF sweep.pc = "delete" THEN sweep.doomed ELSE {})
         \/ CreateCommits(x) \/ CreateFails(x) \/ CancelExport(x) \/ DeleteFile(x) \/ DeleteRow(x)
         \/ DayPasses(x) \/ LeaseLapses(x)
  PROVE  RemovedInv(e)'
<1>0. /\ export \in [Exports -> Export \cup {None}] /\ zip \in [Exports -> Archive \cup {None}]
      /\ draft \in [Exports -> SUBSET Calls] /\ history \in [Exports -> SUBSET Marks]
      /\ removing \subseteq Exports
  BY DEF Types, TypeOK, DatasetOK, Marks
<1>1. history[e] \subseteq history'[e] /\ zip'[e] \in {zip[e], None}
  BY <1>0 DEF CreateBegins, CreateCommits, CreateFails, CancelExport, DeleteFile, DeleteRow, DayPasses, LeaseLapses,
              Mark, MarkIfBuilt, FileRemoved
<1>2. CASE e # x
  <2>1. export'[e] = export[e] /\ (e \in removing' => e \in removing)
    BY <1>0, <1>2 DEF CreateBegins, CreateCommits, CreateFails, CancelExport, DeleteFile, DeleteRow, DayPasses, LeaseLapses
  <2> QED BY <1>1, <2>1, RemovedFrame DEF Active, Status
<1>3. CASE e = x /\ (DeleteFile(x) \/ DeleteRow(x))
  BY <1>3, DeleteFileKeepsBuild, DeleteRowKeepsBuild
<1>4. CASE e = x /\ CreateCommits(x)
  <2>1. e \notin removing'
    BY <1>4 DEF CreateCommits, BuildInv, CreatedInv, Types, Busy
  <2> QED BY <2>1 DEF RemovedInv
<1>5. CASE e = x /\ (CreateBegins(x, IF sweep.pc = "delete" THEN sweep.doomed ELSE {}) \/ CreateFails(x))
  <2>1. export' = export /\ removing' = removing
    BY <1>5 DEF CreateBegins, CreateFails
  <2> QED BY <1>1, <2>1, RemovedFrame DEF Active, Status
<1>6. CASE e = x /\ (CancelExport(x) \/ LeaseLapses(x))
  <2>1. Active(e) /\ removing' = removing
    BY <1>6 DEF CancelExport, LeaseLapses, Active
  <2> QED BY <1>1, <2>1, RemovedFrame
<1>7. CASE e = x /\ DayPasses(x)
  <2>1. export[e] \in Export /\ removing' = removing
    BY <1>0, <1>7 DEF DayPasses, Finished, Status
  <2>2. PICK new \in Export : new = [export[e] EXCEPT !.due = TRUE]
    BY <2>1 DEF Export
  <2>3. export' = [export EXCEPT ![e] = new] /\ new.status = export[e].status
    BY <1>7, <2>1, <2>2 DEF DayPasses, Export
  <2>4. new.status \in {"pending", "running"} => Active(e)
    BY <2>1, <2>3, ExportAssumption DEF Active, Status
  <2>5. Active(e)' => Active(e)
    BY <2>3, <2>4, InactiveStays
  <2> QED BY <1>1, <2>1, <2>5, RemovedFrame
<1> QED BY <1>2, <1>3, <1>4, <1>5, <1>6, <1>7

LEMMA BuildersKeepRemoved ==
  ASSUME Types, NEW e \in Exports, BuildInv(e), RemovedInv(e), NEW b \in Builders,
         \/ Load(b) \/ CheckItem(b) \/ ReadItem(b, TRUE) \/ ReadItem(b, FALSE) \/ Seal(b) \/ Record(b)
         \/ RecordFailure(b) \/ BuildFails(b) \/ FailureNotRecorded(b) \/ BuilderStops(b)
         \/ (\E applied \in BOOLEAN : RecordFails(b, applied)) \/ ExpireRecord(b)
         \/ (\E x \in Exports : Claim(b, x) \/ ExpireRemove(b, x))
  PROVE  RemovedInv(e)'
<1> DEFINE x == builder[b].export
<1>0. /\ export \in [Exports -> Export \cup {None}] /\ zip \in [Exports -> Archive \cup {None}]
      /\ history \in [Exports -> SUBSET Marks] /\ removing' = removing /\ removing \subseteq Exports
      /\ DatasetOK /\ Busy
  BY DEF Types, TypeOK, DatasetOK, Marks, Load, CheckItem, ReadItem, BuildFails, Seal, Record, RecordFails,
         RecordFailure, FailureNotRecorded, BuilderStops, ExpireRecord, Claim, ExpireRemove
<1>1. CASE e \notin removing
  BY <1>0, <1>1 DEF RemovedInv
<1>2. CASE e \in removing
  <2>0. export[e] # None /\ export[e] \in Export /\ ~Active(e)
        /\ export[e].status \notin {"pending", "running"} /\ Status(e) = export[e].status
    BY <1>0, <1>2 DEF RemovedInv, Busy, Active, Status
  <2>1. history[e] \subseteq history'[e]
    <3>1. \A y, m : history' = Mark(y, m) => history[e] \subseteq history'[e]
      BY <1>0 DEF Mark
    <3>2. \A y \in Exports : Claim(b, y) => history' = history \/ history' = Mark(y, "doubled")
      BY DEF Claim
    <3>3. \A applied \in BOOLEAN : RecordFails(b, applied) => history' = history \/ history' = Mark(x, "reply lost")
      BY DEF RecordFails
    <3>4. BuilderStops(b) => history' = Mark(x, "cut")
      BY DEF BuilderStops
    <3> QED BY <3>1, <3>2, <3>3, <3>4 DEF Load, CheckItem, ReadItem, BuildFails, Seal, Record, RecordFailure,
           FailureNotRecorded, ExpireRecord, ExpireRemove
  <2>2. Clean(e, {"doubled", "cut"})' => zip'[e] \in {zip[e], None}
    <3>1. CASE Seal(b) /\ x = e
      <4>1. AtWork(b, e) /\ builder[b].pc \in Working
        BY <3>1 DEF Seal, At, AtWork, Working
      <4>2. ~Clean(e, {"doubled", "cut"})
        BY <2>0, <4>1 DEF BuildInv, StatusInv, Active
      <4> QED BY <2>1, <4>2 DEF Clean
    <3>2. CASE ~Seal(b) \/ x # e
      BY <1>0, <3>2 DEF Load, CheckItem, ReadItem, BuildFails, Seal, Record, RecordFails, RecordFailure,
           FailureNotRecorded, BuilderStops, ExpireRecord, Claim, ExpireRemove, FileRemoved
    <3> QED BY <3>1, <3>2
  <2>3. export'[e] = export[e] \/ export'[e].status \in {"failed", "expired"}
    <3>1. \A y \in Exports : Claim(b, y) => export'[e] = export[e]
      BY <1>0, <2>0 DEF Claim, Claimable, Status
    <3>2. Renewed(x)[e] = export[e] /\ Recorded(b)[e] = export[e]
      BY <1>0, <2>0 DEF Renewed, Recorded
    <3>3. CASE RecordFailure(b)
      <4>1. PICK new \in Export : new = [export[e] EXCEPT !.status = "failed", !.lease = "none"]
        BY <2>0 DEF Export
      <4>2. new.status = "failed"
        BY <2>0, <4>1 DEF Export
      <4>3. export'[e] = export[e] \/ export'[e] = new
        BY <1>0, <3>3, <4>1 DEF RecordFailure
      <4> QED BY <4>2, <4>3
    <3>4. CASE ExpireRecord(b)
      <4>1. PICK new \in Export : new = [export[e] EXCEPT !.status = "expired", !.output = None]
        BY <2>0 DEF Export
      <4>2. new.status = "expired"
        BY <2>0, <4>1 DEF Export
      <4>3. export'[e] = export[e] \/ export'[e] = new
        BY <1>0, <3>4, <4>1 DEF ExpireRecord
      <4> QED BY <4>2, <4>3
    <3>5. CASE ~RecordFailure(b) /\ ~ExpireRecord(b)
      BY <3>1, <3>2, <3>5 DEF Load, CheckItem, ReadItem, BuildFails, Seal, Record, RecordFails,
           FailureNotRecorded, BuilderStops, ExpireRemove
    <3> QED BY <3>3, <3>4, <3>5
  <2>4. ~Active(e)'
    BY <2>0, <2>3 DEF Active, Status
  <2> QED BY <1>0, <2>1, <2>2, <2>4, RemovedFrame
<1> QED BY <1>1, <1>2

LEMMA RemovedStep ==
  ASSUME Types, NEW e \in Exports, BuildInv(e), RemovedInv(e), [Next]_vars
  PROVE  RemovedInv(e)'
<1>1. ASSUME UNCHANGED <<export, zip, removing>>, history[e] \subseteq history'[e] PROVE RemovedInv(e)'
  BY <1>1, RemovedFrame DEF Active, Status
<1>2. CASE RetentionStep \/ RetentionError \/ ProtectionStep \/ DeleteCalls \/ UNCHANGED vars
  BY <1>1, <1>2 DEF RetentionStep, RetentionError, ProtectionStep, DeleteCalls, datasetVars, vars
<1>3. CASE DeleteSnapshot
  BY <1>1, <1>3 DEF DeleteSnapshot
<1>4. CASE RequestStep \/ RequestFails
  <2>1. PICK x \in Exports : CreateBegins(x, IF sweep.pc = "delete" THEN sweep.doomed ELSE {})
                             \/ CreateFails(x) \/ CancelExport(x) \/ DeleteFile(x) \/ DeleteRow(x)
    BY <1>4 DEF RequestStep, RequestFails
  <2> QED BY <2>1, RequestsKeepRemoved
<1>5. ASSUME NEW x \in Exports, CommitStep(x) \/ LapseStep(x) \/ SlowBuilder(x) PROVE RemovedInv(e)'
  BY <1>5, RequestsKeepRemoved DEF CommitStep, LapseStep, SlowBuilder
<1>6. ASSUME NEW b \in Builders, ClaimStep(b) \/ BuildStep(b) \/ BuildError(b) PROVE RemovedInv(e)'
  BY <1>6, BuildersKeepRemoved DEF ClaimStep, BuildStep, BuildError
<1>7. CASE ExpiryStep
  BY <1>7, RequestsKeepRemoved, BuildersKeepRemoved DEF ExpiryStep
<1> QED BY <1>2, <1>3, <1>4, <1>5, <1>6, <1>7 DEF Next

Builds == Types /\ \A e \in Exports : HeldInv(e) /\ BuildInv(e) /\ RemovedInv(e)
LEMMA BuildsStart == Init => Builds
<1> SUFFICES ASSUME Init, NEW e \in Exports PROVE HeldInv(e) /\ BuildInv(e) /\ RemovedInv(e)
  BY InitHolds DEF Builds
<1>1. HeldInv(e)
  BY DEF Init, DatasetInit, RetentionInit, NoSweep, HeldInv, Active, Status
<1>2. /\ export[e] = None /\ zip[e] = None /\ draft[e] = {} /\ Status(e) = "none"
      /\ \A b \in Builders : builder[b].export # e
  BY ExportAssumption DEF Init, DatasetInit, Resting, Status
<1>3. BuildInv(e)
  BY <1>2 DEF BuildInv, CreatedInv, WorkersInv, StatusInv, FileInv, ContentInv, AtWork, Active, Downloadable
<1>4. RemovedInv(e)
  BY DEF Init, DatasetInit, RemovedInv
<1> QED BY <1>1, <1>3, <1>4

LEMMA BuildsStep == Builds /\ [Next]_vars => Builds'
<1> SUFFICES ASSUME Builds, [Next]_vars PROVE Builds'
  OBVIOUS
<1>1. Types'
  BY TypesStep DEF Builds
<1>2. ASSUME NEW e \in Exports PROVE HeldInv(e)'
  BY HeldStep DEF Builds
<1>3. ASSUME NEW e \in Exports PROVE BuildInv(e)'
  BY BuildInvStep DEF Builds
<1>4. ASSUME NEW e \in Exports PROVE RemovedInv(e)'
  BY RemovedStep DEF Builds
<1> QED BY <1>1, <1>2, <1>3, <1>4 DEF Builds

\* A zip file on the disk is recorded in its row, or about to be, so that the deletion or the expiry
\* of the export removes it, through lost replies and failed statements; unless a worker stopped, the
\* export was ended under a worker's hands or two workers were at it (buildDataset, expireDatasets
\* and adminDeleteDataset).
THEOREM ZipsAreOwned == Spec => []ZipIsOwned
<1>1. Builds => ZipIsOwned
  <2> SUFFICES ASSUME Builds, NEW e \in Exports, zip[e] # None, Clean(e, {"doubled", "cut"})
               PROVE  export[e].output = zip[e] \/ \E b \in Builders : AtWork(b, e) /\ At(b, "record")
    BY DEF ZipIsOwned, Clean
  <2> QED BY DEF Builds, BuildInv, FileInv
<1> QED BY <1>1, BuildsStart, BuildsStep, PTL DEF Spec

\* Whoever downloads an export gets the archive whose size and digest its row records, and one
\* completed without a warning holds every call that was selected, whatever retention, cancelled
\* builds and failures did meanwhile, unless two workers built it, a DELETE overlapped its creation
\* or the reply to the final UPDATE was lost; or nothing at all, from when a deletion has removed the
\* file until it deletes the row, which it need not live to do (buildDataset, adminDeleteDataset).
THEOREM DownloadsAreWhole == Spec => []DownloadIsWhole
<1>1. Builds => DownloadIsWhole
  <2> SUFFICES ASSUME Builds, NEW e \in Exports, Downloadable(e),
                      history[e] \cap {"doubled", "overlapped", "reply lost"} = {},
                      ~(zip[e] = None /\ e \in removing)
               PROVE  zip[e] = export[e].output /\ (Status(e) = "completed" => zip[e].calls = export[e].total)
    BY DEF DownloadIsWhole
  <2>1. Clean(e, {"doubled", "reply lost"}) /\ Clean(e, {"doubled", "overlapped"})
    BY DEF Clean
  <2>2. FileInv(e) /\ ContentInv(e)
    BY DEF Builds, BuildInv
  <2>3. zip[e] = export[e].output
    BY <2>1, <2>2 DEF FileInv
  <2> QED BY <2>1, <2>2, <2>3 DEF ContentInv
<1> QED BY <1>1, BuildsStart, BuildsStep, PTL DEF Spec

\* What a step does to a finished export.
Stays(e) == Status(e)' \in {Status(e), "expired", "deleted"}
LEMMA RequestsStay ==
  ASSUME Types, NEW e \in Exports, NEW x \in Exports, BuildInv(e), Finished(e),
         \/ CreateBegins(x, IF sweep.pc = "delete" THEN sweep.doomed ELSE {})
         \/ CreateCommits(x) \/ CreateFails(x) \/ CancelExport(x) \/ DeleteFile(x) \/ DeleteRow(x) \/ DayPasses(x) \/ LeaseLapses(x)
  PROVE  Stays(e)
<1>0. export \in [Exports -> Export \cup {None}] /\ export[e] \in Export /\ export[e] # None
  BY DEF Types, TypeOK, DatasetOK, Finished, Status
<1>1. CASE export'[e] = export[e]
  BY <1>1 DEF Stays, Status
<1>2. CASE e # x \/ CreateBegins(x, IF sweep.pc = "delete" THEN sweep.doomed ELSE {}) \/ CreateFails(x) \/ DeleteFile(x)
  BY <1>0, <1>1, <1>2 DEF CreateBegins, CreateFails, CreateCommits, CancelExport, DeleteFile, DeleteRow, DayPasses, LeaseLapses
<1>3. CASE e = x /\ DeleteRow(x)
  <2>1. PICK new \in Export : new = [export[e] EXCEPT !.status = "deleted", !.output = None, !.due = FALSE]
    BY <1>0 DEF Export
  <2>2. export'[e] = new /\ new # None /\ new.status = "deleted"
    BY <1>0, <1>3, <2>1, ExportAssumption DEF DeleteRow, Export
  <2> QED BY <2>2 DEF Stays, Status
<1>4. CASE e = x /\ DayPasses(x)
  <2>1. PICK new \in Export : new = [export[e] EXCEPT !.due = TRUE]
    BY <1>0 DEF Export
  <2>2. export'[e] = new /\ new # None /\ new.status = export[e].status
    BY <1>0, <1>4, <2>1, ExportAssumption DEF DayPasses, Export
  <2> QED BY <1>0, <2>2 DEF Stays, Status
<1>5. CASE e = x /\ (CreateCommits(x) \/ CancelExport(x) \/ LeaseLapses(x))
  <2>1. ~CreateCommits(e)
    BY <1>0 DEF CreateCommits, BuildInv, CreatedInv
  <2> QED BY <1>5, <2>1 DEF CancelExport, LeaseLapses, Active, Finished
<1> QED BY <1>2, <1>3, <1>4, <1>5

LEMMA BuildersStay ==
  ASSUME Types, NEW e \in Exports, BuildInv(e), Finished(e), Clean(e, {"doubled", "reply lost"}), NEW b \in Builders,
         \/ Load(b) \/ CheckItem(b) \/ ReadItem(b, TRUE) \/ ReadItem(b, FALSE) \/ Seal(b) \/ Record(b)
         \/ RecordFailure(b) \/ BuildFails(b) \/ FailureNotRecorded(b) \/ BuilderStops(b)
         \/ (\E applied \in BOOLEAN : RecordFails(b, applied)) \/ ExpireRecord(b)
         \/ (\E x \in Exports : Claim(b, x) \/ ExpireRemove(b, x))
  PROVE  Stays(e)
<1> DEFINE x == builder[b].export
<1>0. /\ export \in [Exports -> Export \cup {None}] /\ export[e] \in Export /\ export[e] # None
      /\ Status(e) # "running" /\ Status(e) # "pending" /\ Status(e) = export[e].status
      /\ DatasetOK /\ Busy
  BY DEF Types, TypeOK, DatasetOK, Finished, Status
<1>1. CASE export'[e] = export[e]
  BY <1>1 DEF Stays, Status
<1>2. CASE \E y \in Exports : Claim(b, y) \/ ExpireRemove(b, y)
  <2>1. ASSUME NEW y \in Exports, Claim(b, y) PROVE export'[e] = export[e]
    BY <1>0, <2>1 DEF Claim, Claimable
  <2> QED BY <1>1, <1>2, <2>1 DEF ExpireRemove
<1>3. CASE Load(b) \/ Seal(b) \/ BuildFails(b) \/ FailureNotRecorded(b) \/ BuilderStops(b)
  BY <1>1, <1>3 DEF Load, Seal, BuildFails, FailureNotRecorded, BuilderStops
<1>4. Renewed(x)[e] = export[e] /\ Recorded(b)[e] = export[e]
  BY <1>0 DEF Renewed, Recorded
<1>5. CASE CheckItem(b) \/ ReadItem(b, TRUE) \/ ReadItem(b, FALSE)
  BY <1>1, <1>4, <1>5 DEF CheckItem, ReadItem
<1>6. CASE Record(b) \/ \E applied \in BOOLEAN : RecordFails(b, applied)
  BY <1>1, <1>4, <1>6 DEF Record, RecordFails
<1>7. CASE RecordFailure(b)
  <2>1. CASE x = e
    <3>1. AtWork(b, e)
      BY <1>7, <2>1 DEF RecordFailure, AtWork, At
    <3>2. Status(e) = "cancelled"
      BY <3>1 DEF BuildInv, StatusInv, Finished
    <3> QED BY <1>1, <1>7, <2>1, <3>2 DEF RecordFailure
  <2>2. CASE x # e
    BY <1>0, <1>1, <1>7, <2>2 DEF RecordFailure
  <2> QED BY <2>1, <2>2
<1>8. CASE ExpireRecord(b)
  <2>1. CASE x = e
    <3>1. PICK new \in Export : new = [export[e] EXCEPT !.status = "expired", !.output = None]
      BY <1>0 DEF Export
    <3>2. export'[e] = export[e] \/ export'[e] = new
      BY <1>0, <1>8, <2>1, <3>1 DEF ExpireRecord
    <3>3. new # None /\ new.status = "expired"
      BY <1>0, <3>1, ExportAssumption DEF Export
    <3>4. CASE export'[e] = new
      BY <3>3, <3>4 DEF Stays, Status
    <3> QED BY <1>1, <3>2, <3>4
  <2>2. CASE x # e
    BY <1>0, <1>1, <1>8, <2>2 DEF ExpireRecord
  <2> QED BY <2>1, <2>2
<1> QED BY <1>2, <1>3, <1>5, <1>6, <1>7, <1>8

LEMMA FinishedStep ==
  ASSUME Builds, [Next]_vars, NEW e \in Exports, Finished(e), Clean(e, {"doubled", "reply lost"})
  PROVE  Stays(e)
<1>0. Types /\ BuildInv(e)
  BY DEF Builds
<1>1. CASE UNCHANGED export
  BY <1>1 DEF Stays, Status
<1>2. CASE RetentionStep \/ RetentionError \/ ProtectionStep \/ DeleteSnapshot \/ DeleteCalls \/ UNCHANGED vars
  BY <1>1, <1>2 DEF RetentionStep, RetentionError, ProtectionStep, DeleteSnapshot, DeleteCalls, datasetVars, vars
<1>3. CASE RequestStep \/ RequestFails
  <2>1. PICK x \in Exports : CreateBegins(x, IF sweep.pc = "delete" THEN sweep.doomed ELSE {})
                             \/ CreateFails(x) \/ CancelExport(x) \/ DeleteFile(x) \/ DeleteRow(x)
    BY <1>3 DEF RequestStep, RequestFails
  <2> QED BY <1>0, <2>1, RequestsStay
<1>4. ASSUME NEW x \in Exports, CommitStep(x) \/ LapseStep(x) \/ SlowBuilder(x) PROVE Stays(e)
  BY <1>0, <1>4, RequestsStay DEF CommitStep, LapseStep, SlowBuilder
<1>5. ASSUME NEW b \in Builders, ClaimStep(b) \/ BuildStep(b) \/ BuildError(b) PROVE Stays(e)
  BY <1>0, <1>5, BuildersStay DEF ClaimStep, BuildStep, BuildError
<1>6. CASE ExpiryStep
  BY <1>0, <1>6, RequestsStay, BuildersStay DEF ExpiryStep
<1> QED BY <1>2, <1>3, <1>4, <1>5, <1>6 DEF Next

\* A finished export is never taken up again, cancelled, failed or completed a second time, though
\* workers that lost it still run: it can only expire or be deleted, unless two workers built it or
\* the reply to the final UPDATE was lost (claimDataset and the UPDATEs of the workers).
THEOREM FinishedExportsStay == Spec => FinishedStays
<1>1. Builds /\ [Next]_vars =>
        [\A e \in Exports :
           Finished(e) /\ history[e] \cap {"doubled", "reply lost"} = {} =>
             Status(e)' \in {Status(e), "expired", "deleted"}]_vars
  BY FinishedStep DEF Stays, Clean
<1> QED BY <1>1, BuildsStart, BuildsStep, PTL DEF Spec, FinishedStays
===============================================================================
