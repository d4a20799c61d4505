----------------------------- MODULE Retention -----------------------------
(***************************************************************************)
(* A destructive retention run of one policy (runRetention,                *)
(* backend/cmd/admin/retention.go).  The files of the selected calls are   *)
(* moved to a trash directory of the run, one DELETE removes the rows that *)
(* still qualify, and then each file is removed or moved back.  An         *)
(* advisory lock admits one run at a time; a killed run releases it.       *)
(***************************************************************************)
EXTENDS CallMedia

VARIABLES
  sweep,     \* the local state of the run
  stranded   \* history: calls whose file an error or a crash left behind

retentionVars == <<sweep, stranded>>

\* ids: the candidates; todo: those still to stage or to tidy up; moved: those with a
\* file in the trash; doomed: the rows the DELETE selected, and later removed.
Sweep ==
  [pc     : {"idle", "stage", "delete", "tidy"},
   ids    : SUBSET Calls,
   todo   : SUBSET Calls,
   moved  : SUBSET Calls,
   doomed : SUBSET Calls]

NoSweep == [pc |-> "idle", ids |-> {}, todo |-> {}, moved |-> {}, doomed |-> {}]

RetentionOK ==
  /\ sweep \in Sweep
  /\ stranded \in SUBSET Calls

RetentionInit == sweep = NoSweep /\ stranded = {}

-----------------------------------------------------------------------------
\* The calls the candidates query and the DELETE accept: `held` are the calls of
\* active exports.
Deletable(held) == {c \in Calls : Exists(c) /\ Unprotected(c)} \ held

\* What the DELETE selects among the candidates; a mutant trusts the first query.
AllSelected(held) == {c \in sweep.ids : Exists(c)}
Selected(held) == sweep.ids \cap Deletable(held)

\* The staged files are moved back one by one; errors are ignored, and `left` stay where
\* they are.
MoveBack(left) ==
  audio' = [c \in Calls |-> IF c \in sweep.moved \ left THEN "in place" ELSE audio[c]]

\* A run that selects nothing changes nothing.
RetentionStart(held) ==
  /\ sweep.pc = "idle" /\ Deletable(held) # {}
  /\ sweep' = [NoSweep EXCEPT !.pc = "stage", !.ids = Deletable(held), !.todo = Deletable(held)]
  /\ UNCHANGED <<media, stranded>>

\* os.Rename of one file.  A file that does not exist is counted, and its row is
\* deleted with the others.
StageFile(c) ==
  /\ sweep.pc = "stage" /\ c \in sweep.todo
  /\ audio' = IF audio[c] = "in place" THEN [audio EXCEPT ![c] = "in trash"] ELSE audio
  /\ sweep' = [sweep EXCEPT !.todo = @ \ {c},
                            !.moved = IF audio[c] = "in place" THEN @ \cup {c} ELSE @]
  /\ UNCHANGED <<row, stranded>>

\* Any other error moves the staged files back and ends the run.
StageFails ==
  /\ sweep.pc = "stage" /\ sweep.todo # {}
  /\ \E left \in SUBSET sweep.moved :
       MoveBack(left) /\ stranded' = stranded \cup left
  /\ sweep' = NoSweep
  /\ UNCHANGED row

\* The DELETE reads its snapshot.
DeleteBegins(held) ==
  /\ sweep.pc = "stage" /\ sweep.todo = {}
  /\ sweep' = [sweep EXCEPT !.pc = "delete", !.doomed = Selected(held)]
  /\ UNCHANGED <<media, stranded>>

\* A row somebody updated since is read again, and its protection with it.
Doomed == {c \in sweep.doomed : Exists(c) /\ Unprotected(c)}

Without(cs) == [c \in Calls |-> IF c \in cs THEN None ELSE row[c]]

DeleteCommits ==
  /\ sweep.pc = "delete"
  /\ row' = Without(Doomed)
  /\ sweep' = [sweep EXCEPT !.pc = "tidy", !.doomed = Doomed, !.todo = sweep.moved]
  /\ UNCHANGED <<audio, stranded>>

\* The transaction fails, or only the reply to its COMMIT is lost: the files move back.
DeleteFails(committed) ==
  /\ sweep.pc = "delete"
  /\ row' = IF committed THEN Without(Doomed) ELSE row
  /\ \E left \in SUBSET sweep.moved :
       /\ MoveBack(left)
       /\ stranded' = stranded \cup left \cup (IF committed THEN Doomed ELSE {})
  /\ sweep' = NoSweep

\* The file of a deleted row is removed, every other one moves back; a mutant leaves it.
LeaveOthers(c) == IF c \in sweep.doomed THEN "removed" ELSE audio[c]
Tidied(c) == IF c \in sweep.doomed THEN "removed" ELSE "in place"

TidyFile(c) ==
  /\ sweep.pc = "tidy" /\ c \in sweep.todo
  /\ audio' = [audio EXCEPT ![c] = Tidied(c)]
  /\ sweep' = [sweep EXCEPT !.todo = @ \ {c}]
  /\ UNCHANGED <<row, stranded>>

\* Removing or moving it back fails, which is counted at most.
TidyFails(c) ==
  /\ sweep.pc = "tidy" /\ c \in sweep.todo
  /\ sweep' = [sweep EXCEPT !.todo = @ \ {c}]
  /\ stranded' = stranded \cup {c}
  /\ UNCHANGED media

RetentionEnds ==
  /\ sweep.pc = "tidy" /\ sweep.todo = {}
  /\ sweep' = NoSweep
  /\ UNCHANGED <<media, stranded>>

\* Nothing ever looks into the trash directory of a killed run.
RetentionCrash ==
  /\ sweep.pc # "idle"
  /\ stranded' = stranded \cup {c \in sweep.moved : audio[c] = "in trash"}
  /\ sweep' = NoSweep
  /\ UNCHANGED media
=============================================================================
