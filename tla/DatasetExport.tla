--------------------------- MODULE DatasetExport ---------------------------
(***************************************************************************)
(* Dataset exports: the administrator's requests (adminCreateDataset,      *)
(* adminCancelDataset and adminDeleteDataset of v1_handlers.go) and the    *)
(* workers that build the zip files (backend/cmd/admin/datasets.go).  A    *)
(* worker owns an export as long as its lease lasts; the lease is renewed  *)
(* around each item, and nothing later checks who holds it.                *)
(***************************************************************************)
EXTENDS CallMedia

CONSTANTS
  Exports,   \* export ids; an id is used once
  Reviewed,  \* calls with a transcript that may be exported
  Builders   \* worker processes

VARIABLES
  export,    \* dataset_exports
  items,     \* dataset_export_items: the calls of each export
  draft,     \* the items of a creation that has not committed
  zip,       \* the file dataset-<id>.zip
  builder,   \* the local state of each worker
  removing,  \* exports whose file a deletion has removed, and whose row it has not
  history    \* what happened to each export that a property must know

datasetVars == <<export, items, draft, zip, builder, removing, history>>

-----------------------------------------------------------------------------
\* What a zip file holds: no two builds write the same bytes.
Archive == [by : Builders, calls : SUBSET Calls]

\* total: the calls total_items counts; output: output_path with size and digest;
\* due: expires_at has passed; "deleted": the row is gone.
Export ==
  [status : {"pending", "running", "completed", "with warnings", "failed", "cancelled",
             "expired", "deleted"},
   lease  : {"none", "held", "lapsed"},
   total  : SUBSET Calls,
   output : Archive \cup {None},
   due    : BOOLEAN]

ASSUME ExportAssumption == /\ Reviewed \subseteq Calls
                           /\ None \notin Export \cup Archive \cup Exports

\* The defaults of the columns; a mutant stores no lease.
NoLease(cs) ==
  [status |-> "pending", lease |-> None, total |-> cs, output |-> None, due |-> FALSE]
NewExport(cs) ==
  [status |-> "pending", lease |-> "none", total |-> cs, output |-> None, due |-> FALSE]

Builder ==
  [pc     : {"idle", "load", "check", "read", "seal", "record", "fail", "expire"},
   export : Exports \cup {None},
   todo   : SUBSET Calls,
   got    : SUBSET Calls,
   missed : BOOLEAN]

Resting == [pc |-> "idle", export |-> None, todo |-> {}, got |-> {}, missed |-> FALSE]

DatasetOK ==
  /\ export \in [Exports -> Export \cup {None}]
  /\ items \in [Exports -> SUBSET Calls]
  /\ draft \in [Exports -> SUBSET Calls]
  /\ zip \in [Exports -> Archive \cup {None}]
  /\ builder \in [Builders -> Builder]
  /\ removing \subseteq Exports
  /\ history \in [Exports -> SUBSET {"overlapped", "doubled", "cut", "reply lost"}]

DatasetInit ==
  /\ export = [e \in Exports |-> None]
  /\ items = [e \in Exports |-> {}]
  /\ draft = [e \in Exports |-> {}]
  /\ zip = [e \in Exports |-> None]
  /\ builder = [b \in Builders |-> Resting]
  /\ removing = {}
  /\ history = [e \in Exports |-> {}]

Status(e) == IF export[e] = None THEN "none" ELSE export[e].status

Active(e) == Status(e) \in {"pending", "running"}

Finished(e) == Status(e) \in {"completed", "with warnings", "failed", "cancelled"}

\* The calls retention must leave alone.
HeldByExports == UNION {items[e] : e \in {x \in Exports : Active(x)}}

AtWork(b, e) == builder[b].export = e /\ builder[b].pc # "expire"

Mark(e, m) == [history EXCEPT ![e] = @ \cup {m}]

\* A mutant leaves the file.
FileStays(e) == zip
FileRemoved(e) == [zip EXCEPT ![e] = None]

MarkIfBuilt(e) == IF \E b \in Builders : AtWork(b, e) THEN Mark(e, "cut") ELSE history

-----------------------------------------------------------------------------
(* The administrator.                                                      *)

\* The transaction of adminCreateDataset selects the items, with a key-share lock on
\* each call through the foreign key; `doomed` are those a DELETE is about to take.
CreateBegins(e, doomed) ==
  /\ export[e] = None /\ draft[e] = {}
  /\ \E cs \in SUBSET {c \in Reviewed : Exists(c)} :
       /\ cs # {}
       /\ draft' = [draft EXCEPT ![e] = cs]
       /\ history' = IF cs \cap doomed # {} THEN Mark(e, "overlapped") ELSE history
  /\ UNCHANGED <<media, export, items, zip, builder, removing>>

CreateCommits(e) ==
  /\ draft[e] # {}
  /\ export' = [export EXCEPT ![e] = NewExport(draft[e])]
  /\ items' = [items EXCEPT ![e] = draft[e]]
  /\ draft' = [draft EXCEPT ![e] = {}]
  /\ UNCHANGED <<media, zip, builder, history, removing>>

CreateFails(e) ==
  /\ draft[e] # {}
  /\ draft' = [draft EXCEPT ![e] = {}]
  /\ UNCHANGED <<media, export, items, zip, builder, history, removing>>

CancelExport(e) ==
  /\ Active(e)
  /\ export' = [export EXCEPT ![e].status = "cancelled", ![e].lease = "none"]
  /\ history' = MarkIfBuilt(e)
  /\ UNCHANGED <<media, items, draft, zip, builder, removing>>

\* adminDeleteDataset of an export that is neither pending nor running: the file is
\* removed, if there is one, then the row with its items.  A request that fails or is
\* killed in between is one whose DELETE does not come; another may finish what it began.
Ended(e) == Status(e) \notin {"none", "pending", "running", "deleted"}

DeleteFile(e) ==
  /\ Ended(e) /\ export[e].output # None
  /\ zip' = FileRemoved(e)
  /\ removing' = removing \cup {e}
  /\ UNCHANGED <<media, export, items, draft, builder, history>>

DeleteRow(e) ==
  /\ e \in removing \/ (Ended(e) /\ export[e].output = None)
  /\ export' = [export EXCEPT ![e].status = "deleted", ![e].output = None, ![e].due = FALSE]
  /\ items' = [items EXCEPT ![e] = {}]
  /\ removing' = removing \ {e}
  /\ UNCHANGED <<media, draft, zip, builder, history>>

\* expires_at passes; nothing looks at it before the export is finished.
DayPasses(e) ==
  /\ Finished(e) /\ ~export[e].due
  /\ export' = [export EXCEPT ![e].due = TRUE]
  /\ UNCHANGED <<media, items, draft, zip, builder, history, removing>>

-----------------------------------------------------------------------------
(* A worker.                                                               *)

At(b, pc) == builder[b].pc = pc

Go(b, pc) == builder' = [builder EXCEPT ![b].pc = pc]

Rest(b) == builder' = [builder EXCEPT ![b] = Resting]

Renewed(e) == IF Status(e) = "running" THEN [export EXCEPT ![e].lease = "held"] ELSE export

\* claimDataset; a mutant never takes over what a dead worker left.
NeverTakesOver(e) == Status(e) = "pending"
Claimable(e) == Status(e) = "pending" \/ (Status(e) = "running" /\ export[e].lease = "lapsed")

Claim(b, e) ==
  /\ At(b, "idle")
  /\ Claimable(e)
  /\ export' = [export EXCEPT ![e].status = "running", ![e].lease = "held"]
  /\ builder' = [builder EXCEPT ![b] = [Resting EXCEPT !.pc = "load", !.export = e]]
  /\ history' = IF \E x \in Builders : AtWork(x, e) THEN Mark(e, "doubled") ELSE history
  /\ UNCHANGED <<media, items, draft, zip, removing>>

\* loadDatasetItems.
Load(b) ==
  /\ At(b, "load")
  /\ LET e == builder[b].export IN
     IF Status(e) = "deleted"
     THEN Go(b, "fail")
     ELSE builder' = [builder EXCEPT ![b].pc = "check", ![b].todo = items[e]]
  /\ UNCHANGED <<media, export, items, draft, zip, history, removing>>

\* Before each item the status is read, which ends the build of a cancelled export and
\* fails that of a deleted one, and the lease is renewed.
CheckItem(b) ==
  /\ At(b, "check")
  /\ LET e == builder[b].export IN
     \/ /\ builder[b].todo = {} /\ Go(b, "seal")
        /\ UNCHANGED export
     \/ /\ builder[b].todo # {} /\ Status(e) = "cancelled" /\ Rest(b)
        /\ UNCHANGED export
     \/ /\ builder[b].todo # {} /\ Status(e) = "deleted" /\ Go(b, "fail")
        /\ UNCHANGED export
     \/ /\ builder[b].todo # {} /\ Status(e) \notin {"cancelled", "deleted"} /\ Go(b, "read")
        /\ export' = Renewed(e)
  /\ UNCHANGED <<media, items, draft, zip, history, removing>>

\* Audio that is missing or does not decode is a warning.
ReadItem(b, decodes) ==
  /\ At(b, "read")
  /\ \E c \in builder[b].todo :
       builder' = [builder EXCEPT ![b].pc = "check", ![b].todo = @ \ {c},
         ![b].got = IF audio[c] = "in place" /\ decodes THEN @ \cup {c} ELSE @,
         ![b].missed = @ \/ audio[c] # "in place" \/ ~decodes]
  /\ export' = Renewed(builder[b].export)
  /\ UNCHANGED <<media, items, draft, zip, history, removing>>

Built(b) == [by |-> b, calls |-> builder[b].got]

\* The finished archive is renamed to its final name.
Seal(b) ==
  /\ At(b, "seal")
  /\ zip' = [zip EXCEPT ![builder[b].export] = Built(b)]
  /\ Go(b, "record")
  /\ UNCHANGED <<media, export, items, draft, history, removing>>

\* A mutant forgets the warnings.
AlwaysCompleted(b) == "completed"
Outcome(b) == IF builder[b].missed THEN "with warnings" ELSE "completed"

WithOutput(b) == [export[builder[b].export] EXCEPT
  !.status = Outcome(b), !.output = Built(b), !.lease = "none"]

\* The final UPDATE, whatever the number of rows it changes; a mutant does not look at
\* the status.
RecordedAnyway(b) == [export EXCEPT ![builder[b].export] = WithOutput(b)]
Recorded(b) ==
  IF Status(builder[b].export) = "running"
  THEN [export EXCEPT ![builder[b].export] = WithOutput(b)]
  ELSE export

Record(b) ==
  /\ At(b, "record")
  /\ export' = Recorded(b)
  /\ Rest(b)
  /\ UNCHANGED <<media, items, draft, zip, history, removing>>

\* It fails, or only its reply is lost: the file is removed.
RecordFails(b, applied) ==
  /\ At(b, "record")
  /\ export' = IF applied THEN Recorded(b) ELSE export
  /\ zip' = FileRemoved(builder[b].export)
  /\ Go(b, "fail")
  /\ history' = IF applied THEN Mark(builder[b].export, "reply lost") ELSE history
  /\ UNCHANGED <<media, items, draft, removing>>

\* A statement or a file operation fails.
BuildFails(b) ==
  /\ builder[b].pc \in {"load", "check", "read", "seal"}
  /\ Go(b, "fail")
  /\ UNCHANGED <<media, export, items, draft, zip, history, removing>>

\* The failure is recorded, over any status but "cancelled".
RecordFailure(b) ==
  /\ At(b, "fail")
  /\ LET e == builder[b].export IN
     export' = IF Status(e) \in {"cancelled", "deleted"} THEN export
               ELSE [export EXCEPT ![e].status = "failed", ![e].lease = "none"]
  /\ Rest(b)
  /\ UNCHANGED <<media, items, draft, zip, history, removing>>

FailureNotRecorded(b) ==
  /\ At(b, "fail")
  /\ Rest(b)
  /\ UNCHANGED <<media, export, items, draft, zip, history, removing>>

\* SIGTERM or a crash: the export stays running until its lease lapses.
BuilderStops(b) ==
  /\ ~At(b, "idle")
  /\ Rest(b)
  /\ history' = Mark(builder[b].export, "cut")
  /\ UNCHANGED <<media, export, items, draft, zip, removing>>

\* Two minutes pass without a renewal: the worker is gone, or slow with one item.
LeaseLapses(e) ==
  /\ Status(e) = "running" /\ export[e].lease = "held"
  /\ export' = [export EXCEPT ![e].lease = "lapsed"]
  /\ UNCHANGED <<media, items, draft, zip, builder, history, removing>>

\* expireDatasets: the file of a finished export is removed, then its row is updated.
ExpireRemove(b, e) ==
  /\ At(b, "idle")
  /\ Finished(e) /\ export[e].due
  /\ zip' = IF export[e].output # None THEN FileRemoved(e) ELSE zip
  /\ builder' = [builder EXCEPT ![b] = [Resting EXCEPT !.pc = "expire", !.export = e]]
  /\ UNCHANGED <<media, export, items, draft, history, removing>>

ExpireRecord(b) ==
  /\ At(b, "expire")
  /\ LET e == builder[b].export IN
     export' = IF Status(e) = "deleted" THEN export
               ELSE [export EXCEPT ![e].status = "expired", ![e].output = None]
  /\ Rest(b)
  /\ UNCHANGED <<media, items, draft, zip, history, removing>>
=============================================================================
