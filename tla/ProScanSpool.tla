---------------------------- MODULE ProScanSpool ----------------------------
(***************************************************************************)
(* The durable spool of the ProScan uploader (uploader/proscan-windows).   *)
(* A recording found below a watch directory is copied into the spool,     *)
(* uploaded by one of several workers, perhaps copied to a completed       *)
(* directory or deleted at its source, entered into the ledger of          *)
(* processed recordings and removed from the spool.  The directories and   *)
(* the ledger survive a crash of the service; everything else is rebuilt   *)
(* from them by openDurableSpool.                                          *)
(***************************************************************************)
EXTENDS Naturals, FiniteSets

CONSTANTS
  Files,            \* source recordings: a path, a size and a modification time
  Recordings,       \* what a file contains: call identity and audio bytes
  Names,            \* base names
  ContentOf,        \* the recording in each file
  PathOf,           \* the path of each file
  NameOf,           \* the base name of each file
  Matches,          \* <<q, r>>: the server that stored q answers r as a duplicate
  Workers,          \* upload_workers
  Modes,            \* after an upload: keep the source, copy the recording, delete
  IncludeExisting,  \* include_existing, the values it may have
  Faults,           \* where failures and crashes strike
  MaxCrashes,       \* bound: crashes of the service
  MaxErrors,        \* bound: failed operations
  None

ASSUME SpoolAssumption ==
  /\ ContentOf \in [Files -> Recordings]
  /\ NameOf \in [Files -> Names]
  /\ \A f, g \in Files : PathOf[f] = PathOf[g] => NameOf[f] = NameOf[g]
  /\ \A r \in Recordings : <<r, r>> \in Matches
  /\ Modes \subseteq {"keep", "copy", "delete"}
  /\ IncludeExisting \subseteq BOOLEAN
  /\ Faults \subseteq {"request", "copy", "ledger", "removal"}
  /\ MaxCrashes \in Nat
  /\ MaxErrors \in Nat
  /\ None \notin Recordings \cup Files

VARIABLES
  config,     \* the configuration, which does not change
  sources,    \* files below the watch directories
  spool,      \* pending/: the directory of each recording
  ledger,     \* fingerprints a restart reads from processed.jsonl
  torn,       \* the ledger ends in the middle of a line
  completed,  \* the completed directory
  partial,    \* temporary files in it
  service,    \* "new", "up" or "down"
  known,      \* fingerprints not to queue again
  items,      \* recordings in the spool, as the service remembers them
  observed,   \* files seen and not yet processed
  inFlight,   \* items claimed by a worker
  worker,     \* the local state of each worker
  stored,     \* recordings the server holds
  finished,   \* recordings whose spool directory was removed
  existing,   \* history: files present at a start with include_existing off
  raced,      \* history: recordings copied while another worker copied to the same name
  crashes,
  errors

vars == <<config, sources, spool, ledger, torn, completed, partial, service, known, items,
          observed, inFlight, worker, stored, finished, existing, raced, crashes, errors>>

watch  == <<config, sources, existing>>
disk   == <<spool, ledger, torn, finished>>
copies == <<completed, partial, raced>>
memory == <<known, items, observed>>
faults == <<crashes, errors>>

-----------------------------------------------------------------------------
(* Fingerprints, directories and workers.                                  *)

\* sourceFingerprint and recordingFingerprint: digests of different material.
SourceFingerprint(f) == <<"source", f>>
Fingerprint(r)       == <<"recording", r>>

Fingerprints == {SourceFingerprint(f) : f \in Files} \cup {Fingerprint(r) : r \in Recordings}

\* RemoveAll takes the audio first, then the manifest, then the directory.
Directory == {"whole", "no audio", "empty", "none"}

Spooled == [dir : Directory, file : Files \cup {None}]

\* A recording under its base name, or under its base name and its item's id.
Destinations == Names \X (Recordings \cup {None})

Job == [pc   : {"idle", "metadata", "audio", "copy", "copying", "delete", "complete"},
        item : Recordings \cup {None},
        dest : Destinations \cup {None}]

Idle == [pc |-> "idle", item |-> None, dest |-> None]

TypeOK ==
  /\ config \in [mode : Modes, includeExisting : IncludeExisting]
  /\ sources \in SUBSET Files
  /\ spool \in [Recordings -> Spooled]
  /\ ledger \in SUBSET Fingerprints
  /\ torn \in BOOLEAN
  /\ completed \in [Destinations -> Recordings \cup {None}]
  /\ partial \in SUBSET (Destinations \X Recordings)
  /\ service \in {"new", "up", "down"}
  /\ known \in SUBSET Fingerprints
  /\ items \in SUBSET Recordings
  /\ observed \in SUBSET Files
  /\ inFlight \in SUBSET Recordings
  /\ worker \in [Workers -> Job]
  /\ stored \in SUBSET Recordings
  /\ finished \in SUBSET Recordings
  /\ existing \in SUBSET Files
  /\ raced \in SUBSET Recordings
  /\ crashes \in 0..MaxCrashes
  /\ errors \in 0..MaxErrors

Init ==
  /\ config \in [mode : Modes, includeExisting : IncludeExisting]
  /\ sources \in SUBSET Files
  /\ \A f, g \in sources : PathOf[f] = PathOf[g] => f = g
  /\ spool = [r \in Recordings |-> [dir |-> "none", file |-> None]]
  /\ ledger = {}
  /\ torn = FALSE
  /\ completed = [d \in Destinations |-> None]
  /\ partial = {}
  /\ service = "new"
  /\ known = {}
  /\ items = {}
  /\ observed = {}
  /\ inFlight = {}
  /\ worker = [w \in Workers |-> Idle]
  /\ stored = {}
  /\ finished = {}
  /\ existing = {}
  /\ raced = {}
  /\ crashes = 0
  /\ errors = 0

Up == service = "up"

Pending == {r \in Recordings : spool[r].dir # "none"}

Error(place) == place \in Faults /\ errors < MaxErrors /\ errors' = errors + 1

\* What a restart reads after these fingerprints were appended, one line each: a
\* line that continues a torn one cannot be parsed.
Appended(fps, tail) ==
  IF tail /\ fps # {} THEN {ledger \cup (fps \ {fp}) : fp \in fps} ELSE {ledger \cup fps}

-----------------------------------------------------------------------------
(* The directory watcher.                                                  *)

FilesAt(path) == {g \in sources : PathOf[g] = path}

\* ProScan finishes a recording, perhaps over another one of the same path.
FileArrives(f) ==
  /\ service # "new"
  /\ f \notin sources
  /\ sources' = (sources \ FilesAt(PathOf[f])) \cup {f}
  /\ UNCHANGED <<config, existing, disk, copies, service, memory, inFlight, worker, stored, faults>>

\* Another application takes a file away.
FileLeaves(f) ==
  /\ f \in sources
  /\ sources' = sources \ {f}
  /\ UNCHANGED <<config, existing, disk, copies, service, memory, inFlight, worker, stored, faults>>

\* A watcher event or a rescan shows the file; a path is observed once.
Observe(f) ==
  /\ Up
  /\ f \in sources \ observed
  /\ observed' = {g \in observed : PathOf[g] # PathOf[f]} \cup {f}
  /\ UNCHANGED <<watch, disk, copies, service, known, items, inFlight, worker, stored, faults>>

\* processReadyFiles for a settled file, with durableSpool.Queue.
ProcessReady(f) ==
  LET r == ContentOf[f] IN
  /\ Up
  /\ f \in observed
  /\ observed' = observed \ {f}
  /\ \/ /\ f \notin sources \/ SourceFingerprint(f) \in known
        /\ UNCHANGED <<spool, known, items>>
     \/ /\ f \in sources /\ SourceFingerprint(f) \notin known
        /\ known' = known \cup {Fingerprint(r)}
        /\ \/ /\ Fingerprint(r) \in known \/ r \in items
              /\ UNCHANGED <<spool, items>>
           \/ /\ Fingerprint(r) \notin known /\ r \notin items
              /\ spool' = [spool EXCEPT ![r] = [dir |-> "whole", file |-> f]]
              /\ items' = items \cup {r}
  /\ UNCHANGED <<watch, ledger, torn, finished, copies, service, inFlight, worker, stored, faults>>

-----------------------------------------------------------------------------
(* Upload workers.                                                         *)

At(w, p) == worker[w].pc = p

Become(w, job) == worker' = [worker EXCEPT ![w] = job]

Goto(w, p) == Become(w, [worker[w] EXCEPT !.pc = p])

\* Mutant of Retry: the item stays claimed.
RetryKeepsClaim(w) ==
  /\ Become(w, Idle)
  /\ UNCHANGED <<spool, inFlight>>

\* durableSpool.Retry: the manifest is written again, the item may be claimed again.
Retry(w) ==
  LET r == worker[w].item IN
  /\ spool' = [spool EXCEPT ![r].dir = IF @ = "empty" THEN "no audio" ELSE @]
  /\ inFlight' = inFlight \ {r}
  /\ Become(w, Idle)

HasAudio(r) == spool[r].dir = "whole"

Claimable == items \ inFlight

\* durableSpool.ClaimDue, once the item's retry delay is over.
Claim(w, r) ==
  /\ Up
  /\ At(w, "idle")
  /\ r \in Claimable
  /\ inFlight' = inFlight \cup {r}
  /\ Become(w, [Idle EXCEPT !.pc = "metadata", !.item = r])
  /\ UNCHANGED <<watch, disk, copies, service, memory, stored, faults>>

\* What follows an upload.
AfterUpload == IF config.mode = "keep" THEN "complete" ELSE config.mode

\* The server finds a call it takes for this one: the same idempotency key, which is
\* made of the metadata without the audio, or a call within its tolerances.
KnownToServer(r) == \E q \in stored : <<q, r>> \in Matches

\* The metadata request: the server knows the recording, or issues a token.
SendMetadata(w) ==
  LET r == worker[w].item IN
  /\ At(w, "metadata")
  /\ \/ /\ KnownToServer(r)
        /\ Goto(w, AfterUpload)
        /\ UNCHANGED <<spool, inFlight>>
     \/ /\ ~KnownToServer(r) /\ HasAudio(r)
        /\ Goto(w, "audio")
        /\ UNCHANGED <<spool, inFlight>>
     \/ /\ ~KnownToServer(r) /\ ~HasAudio(r)
        /\ Retry(w)
  /\ UNCHANGED <<watch, ledger, torn, finished, copies, service, memory, stored, faults>>

\* The audio request: the server stores the recording, or finds by now a call it takes
\* for this one.  Its answer may be lost.
SendAudio(w) ==
  LET r == worker[w].item IN
  /\ At(w, "audio")
  /\ stored' = IF KnownToServer(r) THEN stored ELSE stored \cup {r}
  /\ \/ /\ Goto(w, AfterUpload)
        /\ UNCHANGED <<spool, inFlight, errors>>
     \/ Error("request") /\ Retry(w)
  /\ UNCHANGED <<watch, ledger, torn, finished, copies, service, memory, crashes>>

\* A request fails, times out or is refused.
RequestFails(w) ==
  /\ At(w, "metadata") \/ At(w, "audio")
  /\ Error("request")
  /\ Retry(w)
  /\ UNCHANGED <<watch, ledger, torn, finished, copies, service, memory, stored, crashes>>

-----------------------------------------------------------------------------
(* copyUploadedSource and deleteUploadedSource.                            *)

Plain(r)    == <<NameOf[spool[r].file], None>>
Suffixed(r) == <<NameOf[spool[r].file], r>>

\* The destination holds the spooled recording: both are read and hashed; a mutant
\* only looks whether it exists.
Exists(r, d) == completed[d] # None
SameContent(r, d) == completed[d] = r /\ HasAudio(r)

\* Lstat of the destination, of the suffixed one, and the exclusive create of the
\* temporary file.
CopyBegin(w) ==
  LET r == worker[w].item
      d == IF completed[Plain(r)] = None THEN Plain(r) ELSE Suffixed(r)
      held == SameContent(r, Plain(r)) \/ SameContent(r, d)
      free == completed[d] = None /\ HasAudio(r) /\ <<d, r>> \notin partial
  IN
  /\ At(w, "copy")
  /\ \/ /\ held
        /\ Goto(w, "complete")
        /\ UNCHANGED <<spool, inFlight, partial>>
     \/ /\ ~held /\ free
        /\ partial' = partial \cup {<<d, r>>}
        /\ Become(w, [worker[w] EXCEPT !.pc = "copying", !.dest = d])
        /\ UNCHANGED <<spool, inFlight>>
     \/ /\ ~held /\ ~free
        /\ Retry(w)
        /\ UNCHANGED partial
  /\ UNCHANGED <<watch, ledger, torn, finished, completed, raced, service, memory, stored, faults>>

\* Another worker copies to this destination and will rename over what is there then.
Contended(w, d) == \E v \in Workers \ {w} : At(v, "copying") /\ worker[v].dest = d

\* The temporary file is renamed over whatever its destination holds by now.
CopyFinish(w) ==
  LET r == worker[w].item d == worker[w].dest IN
  /\ At(w, "copying")
  /\ completed' = [completed EXCEPT ![d] = r]
  /\ raced' = IF Contended(w, d) THEN raced \cup {r} ELSE raced
  /\ partial' = partial \ {<<d, r>>}
  /\ Goto(w, "complete")
  /\ UNCHANGED <<watch, disk, service, memory, inFlight, stored, faults>>

\* The copy fails; the temporary file is removed.
CopyFails(w) ==
  /\ At(w, "copying")
  /\ Error("copy")
  /\ partial' = partial \ {<<worker[w].dest, worker[w].item>>}
  /\ Retry(w)
  /\ UNCHANGED <<watch, ledger, torn, finished, completed, raced, service, memory, stored, crashes>>

\* deleteUploadedSource compares the fingerprint of the file at the item's path, which is
\* made of its path, size and time, with that of the item, which is made of its content.
DeleteSource(w) ==
  LET r == worker[w].item
      there == FilesAt(PathOf[spool[r].file])
      same == \A g \in there : SourceFingerprint(g) = Fingerprint(r)
  IN
  /\ At(w, "delete")
  /\ \/ /\ same
        /\ sources' = sources \ there
        /\ Goto(w, "complete")
        /\ UNCHANGED <<spool, inFlight>>
     \/ /\ ~same
        /\ Retry(w)
        /\ UNCHANGED sources
  /\ UNCHANGED <<config, existing, ledger, torn, finished, copies, service, memory, stored, faults>>

-----------------------------------------------------------------------------
(* durableSpool.Complete.  The spool's mutex is held throughout, so it is one  *)
(* step of the service; a failure or a crash may come between its parts.       *)

\* What is entered into the ledger; mutants enter the fingerprint of the source and
\* its base name.
BaseNameEntry(r) == {<<"name", NameOf[spool[r].file]>>}
SourceEntry(r) == {SourceFingerprint(spool[r].file)}
Entry(r) == {Fingerprint(r)}

RemoveFiles(r, dir) ==
  /\ spool' = [spool EXCEPT ![r].dir = dir]
  /\ finished' = IF dir = "none" THEN finished \cup {r} ELSE finished

\* How far RemoveAll gets before it fails or the service is killed.
PartlyRemoved(r) == {"no audio", "empty"} \cup {spool[r].dir}

Complete(w) ==
  LET r == worker[w].item IN
  /\ At(w, "complete")
  /\ ledger' \in Appended(Entry(r), torn)
  /\ torn' = FALSE
  /\ RemoveFiles(r, "none")
  /\ items' = items \ {r}
  /\ inFlight' = inFlight \ {r}
  /\ Become(w, Idle)
  /\ UNCHANGED <<watch, copies, service, known, observed, stored, faults>>

\* The disk is full: part of a line is written, or none of it.
LedgerWriteFails(w) ==
  /\ At(w, "complete")
  /\ Error("ledger")
  /\ torn' \in {torn, TRUE}
  /\ inFlight' = inFlight \ {worker[w].item}
  /\ Become(w, Idle)
  /\ UNCHANGED <<watch, spool, ledger, finished, copies, service, memory, stored, crashes>>

\* The ledger cannot be synced, or another program holds one of the item's files.
RemovalFails(w) ==
  LET r == worker[w].item IN
  /\ At(w, "complete")
  /\ Error("removal")
  /\ ledger' \in Appended(Entry(r), torn)
  /\ torn' = FALSE
  /\ \E dir \in PartlyRemoved(r) : RemoveFiles(r, dir)
  /\ inFlight' = inFlight \ {r}
  /\ Become(w, Idle)
  /\ UNCHANGED <<watch, copies, service, memory, stored, crashes>>

-----------------------------------------------------------------------------
(* Stops, crashes and restarts of the service.                             *)

Halt ==
  /\ crashes < MaxCrashes
  /\ crashes' = crashes + 1
  /\ service' = "down"
  /\ known' = {}
  /\ items' = {}
  /\ observed' = {}
  /\ inFlight' = {}
  /\ worker' = [w \in Workers |-> Idle]
  /\ UNCHANGED <<watch, completed, raced, stored, errors>>

\* The service ends between two steps of its workers.
Crash ==
  /\ Up
  /\ "copy" \in Faults \/ \A w \in Workers : ~At(w, "copying")
  /\ Halt
  /\ UNCHANGED <<disk, partial>>

\* The service is killed in the middle of Complete, after the ledger was synced.
CrashInComplete(w) ==
  LET r == worker[w].item IN
  /\ At(w, "complete")
  /\ "removal" \in Faults
  /\ ledger' \in Appended(Entry(r), torn)
  /\ torn' = FALSE
  /\ \E dir \in PartlyRemoved(r) \cup {"none"} : RemoveFiles(r, dir)
  /\ Halt
  /\ UNCHANGED partial

\* The fingerprints openDurableSpool reads back; a mutant takes those of all sources.
SourcesToo == ledger \cup {Fingerprint(ContentOf[f]) : f \in sources}
ReadBack == ledger \cup {Fingerprint(r) : r \in Pending}

\* openDurableSpool, which may compact the ledger, and the initial scan.  A directory
\* without a manifest makes it fail, and the service with it.
Start ==
  /\ ~Up
  /\ \A r \in Recordings : spool[r].dir # "empty"
  /\ service' = "up"
  /\ items' = Pending
  /\ \E tail \in {torn, FALSE} :
       \/ /\ config.includeExisting
          /\ observed' = sources
          /\ known' = ReadBack
          /\ torn' = tail
          /\ UNCHANGED <<ledger, existing>>
       \/ LET skipped == {SourceFingerprint(f) : f \in sources} \ ReadBack IN
          /\ ~config.includeExisting
          /\ observed' = {}
          /\ existing' = existing \cup sources
          /\ known' = ReadBack \cup skipped
          /\ ledger' \in Appended(skipped, tail)
          /\ torn' = (tail /\ skipped = {})
  /\ UNCHANGED <<config, sources, spool, finished, copies, inFlight, worker, stored, faults>>

-----------------------------------------------------------------------------
WorkerStep(w) ==
  \/ SendMetadata(w) \/ SendAudio(w)
  \/ CopyBegin(w) \/ CopyFinish(w) \/ DeleteSource(w)
  \/ Complete(w)

WorkerFails(w) ==
  \/ RequestFails(w) \/ CopyFails(w)
  \/ LedgerWriteFails(w) \/ RemovalFails(w) \/ CrashInComplete(w)

Next ==
  \/ \E f \in Files : FileArrives(f) \/ FileLeaves(f) \/ Observe(f) \/ ProcessReady(f)
  \/ \E w \in Workers, r \in Recordings : Claim(w, r)
  \/ \E w \in Workers : WorkerStep(w) \/ WorkerFails(w)
  \/ Crash
  \/ Start

Spec == Init /\ [][Next]_vars

\* The rescan and the settle ticker run, idle workers look for due items, requests
\* end by their timeout, and the service manager restarts a service that ended.
Fairness ==
  /\ \A f \in Files : WF_vars(Observe(f)) /\ WF_vars(ProcessReady(f))
  /\ \A r \in Recordings : WF_vars(\E w \in Workers : Claim(w, r))
  /\ \A w \in Workers : WF_vars(WorkerStep(w))
  /\ WF_vars(Start)

FairSpec == Spec /\ Fairness

-----------------------------------------------------------------------------
(* Safety.                                                                 *)

\* A recording is ignored only if it is in the spool or was processed, and a file only if
\* it existed at a start with include_existing off.  That is decided anew at every start
\* (app.go:163), so files made while the service is down count as existing, although the
\* README (uploader/proscan-windows/README.md:30) reads "upload only future recordings".
IgnoredIsSafe ==
  /\ \A r \in Recordings : Fingerprint(r) \in known => r \in Pending \/ r \in finished
  /\ \A f \in Files : SourceFingerprint(f) \in known => f \in existing

Copied(r) == \E d \in Destinations : completed[d] = r

\* A processed recording has its copy in the completed directory, unless its copy was
\* made while another worker copied a recording to the same name: that worker looked
\* before (app.go:427) and renames over it (app.go:463).
ProcessedIsCopied ==
  config.mode = "copy" => \A r \in finished : Copied(r) \/ r \in raced

-----------------------------------------------------------------------------
(* Liveness.                                                               *)

\* A spooled recording is processed in the end, through failures and restarts.
SpooledIsProcessed ==
  \A r \in Recordings : spool[r].dir = "whole" ~> r \in finished

-----------------------------------------------------------------------------
(* The spool implements StoreAndForward.                                   *)

SF == INSTANCE StoreAndForward
        WITH held      <- {r \in Recordings : HasAudio(r)},
             released  <- finished \cup {r \in Pending : ~HasAudio(r)},
             delivered <- stored

\* A recording is taken into custody once and kept until the server has it or a call it takes
\* for the same, through restarts, renamed copies and every failure but that of a write to the
\* ledger: an entry that continues a torn line is not read back (README.md: "Successfully
\* processed source fingerprints are retained across restarts").
ImplementsStoreAndForward == SF!Spec
=============================================================================
