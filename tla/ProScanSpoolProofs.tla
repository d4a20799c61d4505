-------------------------- MODULE ProScanSpoolProofs --------------------------
(***************************************************************************)
(* The ProScan spool keeps what it took, for any number of recordings,     *)
(* files, workers, failures and crashes.                                   *)
(***************************************************************************)
EXTENDS ProScanSpool, TLAPS

Busy(w) == ~At(w, "idle")

\* A worker has an item only while the service runs, has claimed it, and alone; the
\* service remembers exactly the items on the disk, each with a file it came from.
Claims ==
  /\ \A w \in Workers : Busy(w) => Up /\ worker[w].item \in inFlight
  /\ \A w, v \in Workers :
       Busy(w) /\ Busy(v) /\ worker[w].item = worker[v].item => w = v
  /\ inFlight \subseteq items
  /\ Up => items = Pending
  /\ ~Up => inFlight = {}
  /\ \A r \in Pending : spool[r].file \in Files /\ ContentOf[spool[r].file] = r

Shape == TypeOK /\ Claims

-----------------------------------------------------------------------------
(* What a worker holds and how it moves.                                   *)

Positions == {"idle", "metadata", "audio", "copy", "copying", "delete", "complete"}

\* What a worker with an item may rely on.
LEMMA BusyWorker ==
  ASSUME Shape, NEW w \in Workers, Busy(w)
  PROVE  /\ Up
         /\ worker[w].item \in Recordings /\ worker[w].item \in inFlight
         /\ worker[w].item \in Pending /\ worker[w].item \in items
         /\ spool[worker[w].item].file \in Files
         /\ Plain(worker[w].item) \in Destinations
         /\ Suffixed(worker[w].item) \in Destinations
<1> DEFINE r == worker[w].item
<1>1. Up /\ r \in inFlight
  BY DEF Shape, Claims
<1>2. r \in items /\ items = Pending /\ Pending \subseteq Recordings
  BY <1>1 DEF Shape, Claims, Pending
<1>3. spool[r].file \in Files
  BY <1>2 DEF Shape, Claims
<1>4. NameOf[spool[r].file] \in Names
  BY <1>3, SpoolAssumption
<1> QED BY <1>1, <1>2, <1>3, <1>4 DEF Plain, Suffixed, Destinations

LEMMA JobMoves ==
  ASSUME NEW job \in Job, NEW p \in Positions
  PROVE  /\ [job EXCEPT !.pc = p] \in Job
         /\ [job EXCEPT !.pc = p].pc = p
         /\ [job EXCEPT !.pc = p].item = job.item
         /\ [job EXCEPT !.pc = p].dest = job.dest
BY DEF Job, Positions

LEMMA IdleJob == Idle \in Job /\ Idle.pc = "idle"
BY DEF Idle, Job

\* The worker goes on with its item.
GoesOn(w) ==
  /\ Busy(w)
  /\ \E job \in Job : /\ job.pc # "idle" /\ job.item = worker[w].item
                      /\ worker' = [worker EXCEPT ![w] = job]
  /\ UNCHANGED <<service, items, inFlight, spool>>

\* The worker gives its item back; its directory may have lost files.
LetsGo(w) ==
  /\ Busy(w)
  /\ worker' = [worker EXCEPT ![w] = Idle]
  /\ inFlight' = inFlight \ {worker[w].item}
  /\ spool' \in [Recordings -> Spooled]
  /\ \A r \in Recordings :
       /\ spool'[r].file = spool[r].file
       /\ IF r = worker[w].item THEN spool[r].dir # "none" /\ spool'[r].dir # "none"
                                ELSE spool'[r].dir = spool[r].dir
  /\ UNCHANGED <<service, items>>

LEMMA GotoGoesOn ==
  ASSUME Shape, NEW w \in Workers, Busy(w), NEW p \in Positions \ {"idle"},
         Goto(w, p), UNCHANGED <<service, items, inFlight, spool>>
  PROVE  GoesOn(w) /\ worker' \in [Workers -> Job] /\ worker'[w].pc = p
<1> DEFINE job == [worker[w] EXCEPT !.pc = p]
<1>1. worker \in [Workers -> Job]
  BY DEF Shape, TypeOK
<1>2. job \in Job /\ job.pc = p /\ job.item = worker[w].item
  BY <1>1, JobMoves
<1>3. worker' = [worker EXCEPT ![w] = job]
  BY DEF Goto, Become
<1> HIDE DEF job
<1> QED BY <1>1, <1>2, <1>3 DEF GoesOn

\* The manifest is all that Retry writes.
LEMMA RetryLetsGo ==
  ASSUME Shape, NEW w \in Workers, Busy(w), Retry(w), UNCHANGED <<service, items>>
  PROVE  /\ LetsGo(w) /\ worker' \in [Workers -> Job]
         /\ \A r \in Recordings : spool'[r].dir = "whole" <=> spool[r].dir = "whole"
<1> DEFINE r == worker[w].item
<1> DEFINE dir == IF spool[r].dir = "empty" THEN "no audio" ELSE spool[r].dir
<1>1. spool \in [Recordings -> Spooled] /\ worker \in [Workers -> Job] /\ r \in Recordings
  BY BusyWorker DEF Shape, TypeOK
<1>2. spool' = [spool EXCEPT ![r].dir = dir] /\ worker' = [worker EXCEPT ![w] = Idle]
      /\ inFlight' = inFlight \ {r}
  BY <1>1 DEF Retry, Become
<1>3. dir \in Directory /\ (dir # "none" <=> spool[r].dir # "none") /\ (dir = "whole" <=> spool[r].dir = "whole")
  BY <1>1 DEF Spooled, Directory
<1> HIDE DEF dir
<1>4. spool' \in [Recordings -> Spooled]
  BY <1>1, <1>2, <1>3 DEF Spooled
<1>5. \A q \in Recordings : spool'[q].file = spool[q].file /\ spool'[q].dir = IF q = r THEN dir ELSE spool[q].dir
  BY <1>1, <1>2 DEF Spooled
<1>6. worker' \in [Workers -> Job]
  BY <1>1, <1>2, IdleJob
<1>7. spool[r].dir # "none"
  BY BusyWorker DEF Pending
<1> QED BY <1>1, <1>2, <1>3, <1>4, <1>5, <1>6, <1>7 DEF LetsGo

\* What RemoveAll leaves of a directory.
LEMMA FilesRemoved ==
  ASSUME TypeOK, NEW r \in Recordings, NEW dir \in Directory, RemoveFiles(r, dir)
  PROVE  /\ spool' \in [Recordings -> Spooled]
         /\ finished' \in SUBSET Recordings /\ finished \subseteq finished'
         /\ dir = "none" => r \in finished'
         /\ \A q \in finished' : q \in finished \/ (q = r /\ dir = "none")
         /\ \A q \in Recordings : /\ spool'[q].file = spool[q].file
                                  /\ spool'[q].dir = IF q = r THEN dir ELSE spool[q].dir
<1>1. spool' = [spool EXCEPT ![r].dir = dir]
  BY DEF RemoveFiles
<1>2. spool' \in [Recordings -> Spooled]
  BY <1>1 DEF Spooled, TypeOK
<1>3. \A q \in Recordings : spool'[q].file = spool[q].file /\ spool'[q].dir = IF q = r THEN dir ELSE spool[q].dir
  BY <1>1 DEF Spooled, TypeOK
<1> QED BY <1>2, <1>3 DEF RemoveFiles, TypeOK

LEMMA AppendedBounds ==
  ASSUME NEW fps, NEW tail \in BOOLEAN, NEW l \in Appended(fps, tail)
  PROVE  ledger \subseteq l /\ l \subseteq ledger \cup fps /\ (~tail => l = ledger \cup fps)
BY DEF Appended

-----------------------------------------------------------------------------
(* Custody: what a position of a worker says of its item.                  *)

Uploaded == {"copy", "copying", "delete", "complete"}

\* A server that holds these recordings knows this one.
Served(held, r) == \E q \in held : <<q, r>> \in Matches

\* An item whose audio is about to be sent has it; one past its upload is known to the
\* server.
Custody ==
  \A w \in Workers : /\ At(w, "audio") => HasAudio(worker[w].item)
                     /\ worker[w].pc \in Uploaded => Served(stored, worker[w].item)

\* A step of a worker other than the completion of its item.
Moves(w) ==
  /\ worker' \in [Workers -> Job]
  /\ stored \subseteq stored'
  /\ \/ /\ GoesOn(w)
        /\ worker'[w].pc = "audio" => HasAudio(worker[w].item)
        /\ worker'[w].pc \in Uploaded => Served(stored', worker[w].item)
     \/ LetsGo(w)

LEMMA ServedGrows ==
  ASSUME NEW s, NEW t, s \subseteq t, NEW r, Served(s, r)
  PROVE  Served(t, r)
BY DEF Served

LEMMA AfterUploadPosition ==
  ASSUME TypeOK PROVE AfterUpload \in Uploaded \cap (Positions \ {"idle", "audio"})
<1>1. config.mode \in {"keep", "copy", "delete"}
  BY SpoolAssumption DEF TypeOK
<1> QED BY <1>1 DEF AfterUpload, Uploaded, Positions

LEMMA RequestMoves ==
  ASSUME Shape, Custody, NEW w \in Workers,
         SendMetadata(w) \/ SendAudio(w) \/ RequestFails(w)
  PROVE  Moves(w)
<1> DEFINE r == worker[w].item
<1>0. Busy(w)
  BY DEF SendMetadata, SendAudio, RequestFails, Busy, At
<1>1. AfterUpload \in Uploaded \cap (Positions \ {"idle", "audio"}) /\ "audio" \in Positions \ {"idle"}
      /\ "audio" \notin Uploaded
  BY AfterUploadPosition DEF Shape, Uploaded, Positions
<1>2. CASE SendMetadata(w)
  <2>1. UNCHANGED <<service, items, stored>>
    BY <1>2 DEF SendMetadata, memory
  <2>2. CASE KnownToServer(r) /\ Goto(w, AfterUpload) /\ UNCHANGED <<spool, inFlight>>
    <3>1. Served(stored', r)
      BY <2>1, <2>2 DEF KnownToServer, Served
    <3> QED BY <1>0, <1>1, <2>1, <2>2, <3>1, GotoGoesOn DEF Moves
  <2>3. CASE HasAudio(r) /\ Goto(w, "audio") /\ UNCHANGED <<spool, inFlight>>
    BY <1>0, <1>1, <2>1, <2>3, GotoGoesOn DEF Moves
  <2>4. CASE Retry(w)
    BY <1>0, <2>1, <2>4, RetryLetsGo DEF Moves
  <2> QED BY <1>2, <2>2, <2>3, <2>4 DEF SendMetadata
<1>3. CASE SendAudio(w)
  <2>1. UNCHANGED <<service, items>> /\ stored \subseteq stored' /\ Served(stored', r)
    <3>1. UNCHANGED <<service, items>>
      BY <1>3 DEF SendAudio, memory
    <3>2. CASE KnownToServer(r) /\ stored' = stored
      BY <3>1, <3>2 DEF KnownToServer, Served
    <3>3. CASE stored' = stored \cup {r}
      <4>1. r \in Recordings /\ r \in stored'
        BY <1>0, <3>3, BusyWorker
      <4>2. <<r, r>> \in Matches
        BY <4>1, SpoolAssumption
      <4> QED BY <3>1, <3>3, <4>1, <4>2 DEF Served
    <3> QED BY <1>3, <3>2, <3>3 DEF SendAudio
  <2>2. CASE Goto(w, AfterUpload) /\ UNCHANGED <<spool, inFlight>>
    BY <1>0, <1>1, <2>1, <2>2, GotoGoesOn DEF Moves
  <2>3. CASE Retry(w)
    BY <1>0, <2>1, <2>3, RetryLetsGo DEF Moves
  <2> QED BY <1>3, <2>2, <2>3 DEF SendAudio
<1>4. CASE RequestFails(w)
  BY <1>0, <1>4, RetryLetsGo DEF RequestFails, memory, Moves
<1> QED BY <1>2, <1>3, <1>4

LEMMA CopyMoves ==
  ASSUME Shape, Custody, NEW w \in Workers,
         CopyBegin(w) \/ CopyFinish(w) \/ CopyFails(w) \/ DeleteSource(w)
  PROVE  Moves(w)
<1> DEFINE r == worker[w].item
<1>0. Busy(w) /\ worker[w].pc \in Uploaded
  BY DEF CopyBegin, CopyFinish, CopyFails, DeleteSource, Busy, At, Uploaded
<1>1. Served(stored, r) /\ {"complete", "copying"} \subseteq Positions \ {"idle", "audio"}
  BY <1>0 DEF Custody, Positions
<1>2. UNCHANGED <<service, items, stored>>
  BY DEF CopyBegin, CopyFinish, CopyFails, DeleteSource, memory
<1>3. CASE Retry(w)
  BY <1>0, <1>2, <1>3, RetryLetsGo DEF Moves
<1>4. CASE Goto(w, "complete") /\ UNCHANGED <<spool, inFlight>>
  BY <1>0, <1>1, <1>2, <1>4, GotoGoesOn DEF Moves
<1>5. ASSUME NEW d \in Destinations, Become(w, [worker[w] EXCEPT !.pc = "copying", !.dest = d]),
             UNCHANGED <<spool, inFlight>>
      PROVE  Moves(w)
  <2> DEFINE job == [worker[w] EXCEPT !.pc = "copying", !.dest = d]
  <2>1. worker \in [Workers -> Job]
    BY DEF Shape, TypeOK
  <2>2. job \in Job /\ job.pc = "copying" /\ job.item = r
    <3>1. PICK j : j = worker[w]
      OBVIOUS
    <3>2. j \in Job /\ "copying" \in Positions
      BY <2>1, <3>1 DEF Positions
    <3>3. \A e \in Destinations :
            /\ [j EXCEPT !.pc = "copying", !.dest = e] \in Job
            /\ [j EXCEPT !.pc = "copying", !.dest = e].pc = "copying"
            /\ [j EXCEPT !.pc = "copying", !.dest = e].item = j.item
      BY <3>2 DEF Job
    <3> QED BY <3>1, <3>3, Zenon
  <2>3. worker' = [worker EXCEPT ![w] = job]
    BY <1>5 DEF Become
  <2> HIDE DEF job
  <2> QED BY <1>0, <1>1, <1>2, <1>5, <2>1, <2>2, <2>3 DEF Moves, GoesOn
<1>6. CASE CopyBegin(w)
  <2>1. Plain(r) \in Destinations /\ Suffixed(r) \in Destinations
    BY <1>0, BusyWorker
  <2>2. PICK d : d = IF completed[Plain(r)] = None THEN Plain(r) ELSE Suffixed(r)
    OBVIOUS
  <2>3. \/ Retry(w)
        \/ Goto(w, "complete") /\ UNCHANGED <<spool, inFlight>>
        \/ /\ Become(w, [worker[w] EXCEPT !.pc = "copying", !.dest = d])
           /\ UNCHANGED <<spool, inFlight>>
    BY <1>6, <2>2 DEF CopyBegin
  <2> QED BY <1>3, <1>4, <1>5, <2>1, <2>2, <2>3
<1>7. CASE CopyFinish(w)
  BY <1>4, <1>7 DEF CopyFinish, disk
<1>8. CASE CopyFails(w)
  BY <1>3, <1>8 DEF CopyFails
<1>9. CASE DeleteSource(w)
  BY <1>3, <1>4, <1>9 DEF DeleteSource
<1> QED BY <1>6, <1>7, <1>8, <1>9

LEMMA FailureMoves ==
  ASSUME Shape, NEW w \in Workers, LedgerWriteFails(w) \/ RemovalFails(w)
  PROVE  Moves(w)
<1> DEFINE r == worker[w].item
<1>0. Busy(w)
  BY DEF LedgerWriteFails, RemovalFails, Busy, At
<1>1. UNCHANGED <<service, items, stored>> /\ inFlight' = inFlight \ {r}
      /\ worker' = [worker EXCEPT ![w] = Idle]
  BY DEF LedgerWriteFails, RemovalFails, memory, Become
<1>2. worker' \in [Workers -> Job] /\ spool \in [Recordings -> Spooled] /\ r \in Recordings
      /\ spool[r].dir # "none"
  BY <1>0, <1>1, IdleJob, BusyWorker DEF Shape, TypeOK, Pending
<1>3. CASE LedgerWriteFails(w)
  BY <1>0, <1>1, <1>2, <1>3 DEF LedgerWriteFails, Moves, LetsGo
<1>4. CASE RemovalFails(w)
  <2>1. PICK dir \in PartlyRemoved(r) : RemoveFiles(r, dir)
    BY <1>4 DEF RemovalFails
  <2>2. dir \in Directory /\ dir # "none"
    BY <1>2 DEF PartlyRemoved, Spooled, Directory
  <2>3. /\ spool' \in [Recordings -> Spooled]
        /\ \A q \in Recordings : /\ spool'[q].file = spool[q].file
                                 /\ spool'[q].dir = IF q = r THEN dir ELSE spool[q].dir
    BY <1>2, <2>1, <2>2, FilesRemoved DEF Shape
  <2> QED BY <1>0, <1>1, <1>2, <2>2, <2>3 DEF Moves, LetsGo
<1> QED BY <1>3, <1>4

LEMMA MovesKeep ==
  ASSUME Shape, Custody, NEW w \in Workers, Moves(w)
  PROVE  Claims' /\ Custody' /\ spool' \in [Recordings -> Spooled] /\ inFlight' \in SUBSET Recordings
<1> DEFINE r == worker[w].item
<1>0. worker \in [Workers -> Job] /\ worker' \in [Workers -> Job] /\ spool \in [Recordings -> Spooled]
      /\ inFlight \in SUBSET Recordings
  BY DEF Shape, TypeOK, Moves
<1>1. Busy(w) /\ UNCHANGED <<service, items>>
  BY DEF Moves, GoesOn, LetsGo
<1>2. Up /\ Up' /\ r \in Recordings /\ r \in inFlight
  BY <1>1, BusyWorker DEF Up
<1>3. \A v \in Workers \ {w} : Busy(v) => worker[v].item # r
  BY <1>1 DEF Shape, Claims
<1>4. CASE /\ GoesOn(w)
           /\ worker'[w].pc = "audio" => HasAudio(r)
           /\ worker'[w].pc \in Uploaded => Served(stored', r)
  <2>1. PICK job \in Job : job.pc # "idle" /\ job.item = r /\ worker' = [worker EXCEPT ![w] = job]
    BY <1>4 DEF GoesOn
  <2>2. \A v \in Workers : worker'[v] = IF v = w THEN job ELSE worker[v]
    BY <1>0, <2>1
  <2>3. UNCHANGED <<service, items, inFlight, spool>> /\ Pending' = Pending
    BY <1>4 DEF GoesOn, Pending
  <2>4. Claims'
    BY <1>1, <1>2, <1>3, <2>1, <2>2, <2>3 DEF Shape, Claims, Busy, At
  <2>5. Custody'
    <3>1. \A v \in Workers : worker'[v].pc = "audio" => spool'[worker'[v].item].dir = "whole"
      BY <1>4, <2>1, <2>2, <2>3 DEF Custody, At, HasAudio
    <3>2. \A v \in Workers : worker'[v].pc \in Uploaded => Served(stored', worker'[v].item)
      BY <1>4, <2>1, <2>2, ServedGrows DEF Moves, Custody
    <3> QED BY <3>1, <3>2 DEF Custody, At, HasAudio
  <2> QED BY <1>0, <2>3, <2>4, <2>5
<1>5. CASE LetsGo(w)
  <2>1. \A v \in Workers : worker'[v] = IF v = w THEN Idle ELSE worker[v]
    BY <1>0, <1>5 DEF LetsGo
  <2>2. /\ inFlight' = inFlight \ {r} /\ spool' \in [Recordings -> Spooled]
        /\ \A q \in Recordings : spool'[q].file = spool[q].file
        /\ \A q \in Recordings \ {r} : spool'[q].dir = spool[q].dir
        /\ spool[r].dir # "none" /\ spool'[r].dir # "none"
    BY <1>2, <1>5 DEF LetsGo
  <2>3. Pending' = Pending
    BY <2>2 DEF Pending
  <2>4. Claims'
    <3>1. \A v \in Workers : Busy(v)' => v # w /\ Busy(v) /\ worker'[v] = worker[v]
      BY <2>1, IdleJob DEF Busy, At
    <3>2. \A v \in Workers : Busy(v)' => Up' /\ worker'[v].item \in inFlight'
      BY <1>2, <1>3, <2>2, <3>1 DEF Shape, Claims
    <3>3. \A u, v \in Workers : Busy(u)' /\ Busy(v)' /\ worker'[u].item = worker'[v].item => u = v
      BY <3>1 DEF Shape, Claims
    <3>4. inFlight' \subseteq items' /\ items' = Pending'
      BY <1>1, <1>2, <2>2, <2>3 DEF Shape, Claims
    <3>5. \A q \in Pending' : spool'[q].file \in Files /\ ContentOf[spool'[q].file] = q
      BY <2>2, <2>3 DEF Shape, Claims, Pending
    <3> QED BY <1>2, <3>2, <3>3, <3>4, <3>5 DEF Claims
  <2>5. Custody'
    <3>1. \A v \in Workers : (At(v, "audio"))' => v # w /\ At(v, "audio") /\ worker'[v] = worker[v]
      BY <2>1, IdleJob DEF At
    <3>2. \A v \in Workers \ {w} : At(v, "audio") => worker[v].item \in Recordings \ {r}
      BY <1>3, BusyWorker DEF Busy, At
    <3>3. \A v \in Workers : (At(v, "audio"))' => spool'[worker'[v].item].dir = "whole"
      BY <2>2, <3>1, <3>2 DEF Custody, HasAudio
    <3>4. \A v \in Workers : worker'[v].pc \in Uploaded => Served(stored', worker'[v].item)
      <4>1. "idle" \notin Uploaded /\ stored \subseteq stored'
        BY DEF Uploaded, Moves
      <4> QED BY <2>1, <4>1, IdleJob, ServedGrows DEF Custody
    <3> QED BY <3>3, <3>4 DEF Custody, HasAudio
  <2> QED BY <1>0, <2>2, <2>4, <2>5
<1> QED BY <1>4, <1>5 DEF Moves

LEMMA ErrorTypes == ASSUME TypeOK, NEW place, Error(place) PROVE errors' \in 0 .. MaxErrors
BY SpoolAssumption DEF TypeOK, Error

LEMMA WorkerTypes ==
  ASSUME Shape, Custody, NEW w \in Workers,
         \/ SendMetadata(w) \/ SendAudio(w) \/ RequestFails(w)
         \/ CopyBegin(w) \/ CopyFinish(w) \/ CopyFails(w) \/ DeleteSource(w)
         \/ LedgerWriteFails(w) \/ RemovalFails(w)
  PROVE  Moves(w) /\ TypeOK'
<1> DEFINE r == worker[w].item
<1>1. Moves(w)
  BY RequestMoves, CopyMoves, FailureMoves
<1>2. spool' \in [Recordings -> Spooled] /\ inFlight' \in SUBSET Recordings /\ worker' \in [Workers -> Job]
  BY <1>1, MovesKeep DEF Moves
<1>3. UNCHANGED <<service, items>>
  BY <1>1 DEF Moves, GoesOn, LetsGo
<1>4. Busy(w) /\ r \in Recordings /\ Plain(r) \in Destinations /\ Suffixed(r) \in Destinations
  BY <1>1, BusyWorker DEF Moves, GoesOn, LetsGo
<1>5. CASE SendMetadata(w) \/ SendAudio(w) \/ RequestFails(w)
  <2>1. stored' \in SUBSET Recordings
    BY <1>4, <1>5 DEF Shape, TypeOK, SendMetadata, SendAudio, RequestFails
  <2>2. errors' \in 0 .. MaxErrors
    BY <1>5, ErrorTypes DEF Shape, TypeOK, SendMetadata, SendAudio, RequestFails, faults
  <2>3. UNCHANGED <<config, sources, ledger, torn, completed, partial, known, observed, finished, existing, raced, crashes>>
    BY <1>5 DEF SendMetadata, SendAudio, RequestFails, watch, copies, memory, faults
  <2> QED BY <1>1, <1>2, <1>3, <2>1, <2>2, <2>3 DEF Shape, TypeOK
<1>6. CASE CopyBegin(w)
  <2>1. partial' \in SUBSET (Destinations \X Recordings)
    <3>1. PICK d : d = IF completed[Plain(r)] = None THEN Plain(r) ELSE Suffixed(r)
      OBVIOUS
    <3>2. partial' = partial \/ partial' = partial \cup {<<d, r>>}
      BY <1>6, <3>1 DEF CopyBegin
    <3> QED BY <1>4, <3>1, <3>2 DEF Shape, TypeOK
  <2>2. UNCHANGED <<config, sources, ledger, torn, completed, known, observed, stored, finished>>
        /\ UNCHANGED <<existing, raced, crashes, errors>>
    BY <1>6 DEF CopyBegin, watch, memory, faults
  <2> QED BY <1>1, <1>2, <1>3, <2>1, <2>2 DEF Shape, TypeOK
<1>7. CASE CopyFinish(w)
  <2>1. completed' \in [Destinations -> Recordings \cup {None}] /\ partial' \in SUBSET (Destinations \X Recordings)
        /\ raced' \in SUBSET Recordings
    BY <1>4, <1>7 DEF Shape, TypeOK, CopyFinish
  <2>2. UNCHANGED <<config, sources, ledger, torn, known, observed, stored, finished, existing, crashes, errors>>
    BY <1>7 DEF CopyFinish, watch, disk, memory, faults
  <2> QED BY <1>1, <1>2, <1>3, <2>1, <2>2 DEF Shape, TypeOK
<1>8. CASE CopyFails(w)
  <2>1. partial' \in SUBSET (Destinations \X Recordings) /\ errors' \in 0 .. MaxErrors
    BY <1>8, ErrorTypes DEF Shape, TypeOK, CopyFails
  <2>2. UNCHANGED <<config, sources, ledger, torn, completed, known, observed, stored, finished, existing, raced, crashes>>
    BY <1>8 DEF CopyFails, watch, memory
  <2> QED BY <1>1, <1>2, <1>3, <2>1, <2>2 DEF Shape, TypeOK
<1>9. CASE DeleteSource(w)
  <2>1. sources' \in SUBSET Files
    BY <1>9 DEF Shape, TypeOK, DeleteSource
  <2>2. UNCHANGED <<config, ledger, torn, completed, partial, known, observed, stored, finished>>
        /\ UNCHANGED <<existing, raced, crashes, errors>>
    BY <1>9 DEF DeleteSource, copies, memory, faults
  <2> QED BY <1>1, <1>2, <1>3, <2>1, <2>2 DEF Shape, TypeOK
<1>10. CASE LedgerWriteFails(w)
  <2>1. torn' \in BOOLEAN /\ errors' \in 0 .. MaxErrors
    BY <1>10, ErrorTypes DEF Shape, TypeOK, LedgerWriteFails
  <2>2. UNCHANGED <<config, sources, ledger, completed, partial, known, observed, stored, finished>>
        /\ UNCHANGED <<existing, raced, crashes>>
    BY <1>10 DEF LedgerWriteFails, watch, copies, memory
  <2> QED BY <1>1, <1>2, <1>3, <2>1, <2>2 DEF Shape, TypeOK
<1>11. CASE RemovalFails(w)
  <2>1. errors' \in 0 .. MaxErrors /\ torn' = FALSE
    BY <1>11, ErrorTypes DEF Shape, RemovalFails
  <2>2. ledger' \in SUBSET Fingerprints
    BY <1>4, <1>11, AppendedBounds DEF Shape, TypeOK, RemovalFails, Entry, Fingerprints
  <2>3. finished' \in SUBSET Recordings
    BY <1>4, <1>11 DEF Shape, TypeOK, RemovalFails, RemoveFiles
  <2>4. UNCHANGED <<config, sources, completed, partial, known, observed, stored, existing, raced, crashes>>
    BY <1>11 DEF RemovalFails, watch, copies, memory
  <2> QED BY <1>1, <1>2, <1>3, <2>1, <2>2, <2>3, <2>4 DEF Shape, TypeOK
<1> QED BY <1>1, <1>5, <1>6, <1>7, <1>8, <1>9, <1>10, <1>11

LEMMA CompleteKeeps ==
  ASSUME Shape, Custody, NEW w \in Workers, Complete(w)
  PROVE  Shape' /\ Custody'
<1> DEFINE r == worker[w].item
<1>0. Busy(w) /\ r \in Recordings /\ Up
  BY BusyWorker DEF Complete, Busy, At
<1>1. /\ spool' \in [Recordings -> Spooled] /\ finished' \in SUBSET Recordings
      /\ \A q \in Recordings : /\ spool'[q].file = spool[q].file
                               /\ spool'[q].dir = IF q = r THEN "none" ELSE spool[q].dir
  BY <1>0, FilesRemoved DEF Complete, Directory, Shape
<1>2. worker \in [Workers -> Job] /\ worker' = [worker EXCEPT ![w] = Idle]
  BY DEF Shape, TypeOK, Complete, Become
<1>3. \A v \in Workers : worker'[v] = IF v = w THEN Idle ELSE worker[v]
  BY <1>2
<1>4. UNCHANGED <<config, sources, completed, partial, service, known, observed, stored, existing, raced, crashes, errors>>
      /\ items' = items \ {r} /\ inFlight' = inFlight \ {r} /\ torn' = FALSE
  BY DEF Complete, watch, copies, faults
<1>5. TypeOK'
  <2>1. ledger' \in SUBSET Fingerprints
    BY <1>0, AppendedBounds DEF Shape, TypeOK, Complete, Entry, Fingerprints
  <2>2. worker' \in [Workers -> Job]
    BY <1>2, IdleJob
  <2> QED BY <1>1, <1>4, <2>1, <2>2 DEF Shape, TypeOK
<1>6. \A v \in Workers : Busy(v)' => v # w /\ Busy(v) /\ worker'[v] = worker[v]
  BY <1>3, IdleJob DEF Busy, At
<1>7. \A v \in Workers : Busy(v)' => worker[v].item \in Recordings \ {r}
  BY <1>0, <1>6, BusyWorker DEF Shape, Claims
<1>8. Claims'
  <2>1. Pending' = Pending \ {r}
    BY <1>0, <1>1 DEF Pending
  <2>2. \A v \in Workers : Busy(v)' => Up' /\ worker'[v].item \in inFlight'
    BY <1>0, <1>4, <1>6, <1>7 DEF Shape, Claims, Up
  <2>3. \A u, v \in Workers : Busy(u)' /\ Busy(v)' /\ worker'[u].item = worker'[v].item => u = v
    BY <1>6 DEF Shape, Claims
  <2>4. inFlight' \subseteq items' /\ items' = Pending' /\ Up'
    BY <1>0, <1>4, <2>1 DEF Shape, Claims, Up
  <2>5. \A q \in Pending' : spool'[q].file \in Files /\ ContentOf[spool'[q].file] = q
    BY <1>1, <2>1 DEF Shape, Claims, Pending
  <2> QED BY <2>2, <2>3, <2>4, <2>5 DEF Claims
<1>9. Custody'
  <2>1. \A v \in Workers : (At(v, "audio"))' => spool'[worker'[v].item].dir = "whole"
    BY <1>1, <1>6, <1>7 DEF Custody, HasAudio, Busy, At
  <2>2. \A v \in Workers : worker'[v].pc \in Uploaded => Served(stored', worker'[v].item)
    <3>1. "idle" \notin Uploaded
      BY DEF Uploaded
    <3> QED BY <1>3, <1>4, <3>1, IdleJob DEF Custody
  <2> QED BY <2>1, <2>2 DEF Custody, HasAudio
<1> QED BY <1>5, <1>8, <1>9 DEF Shape

LEMMA ClaimKeeps ==
  ASSUME Shape, Custody, NEW w \in Workers, NEW r \in Recordings, Claim(w, r)
  PROVE  Shape' /\ Custody'
<1> DEFINE job == [Idle EXCEPT !.pc = "metadata", !.item = r]
<1>1. job \in Job /\ job.pc = "metadata" /\ job.item = r
  BY DEF Job, Idle
<1>2. worker \in [Workers -> Job] /\ worker' = [worker EXCEPT ![w] = job]
  BY DEF Shape, TypeOK, Claim, Become
<1> HIDE DEF job
<1>3. /\ UNCHANGED <<config, sources, spool, ledger, torn, finished, completed, partial, service>>
      /\ UNCHANGED <<known, items, observed, stored, existing, raced, crashes, errors>>
      /\ inFlight' = inFlight \cup {r} /\ Up /\ At(w, "idle") /\ r \in items /\ r \notin inFlight
  BY DEF Claim, watch, disk, copies, memory, faults, Claimable
<1>4. \A v \in Workers : worker'[v] = IF v = w THEN job ELSE worker[v]
  BY <1>2
<1>5. TypeOK'
  BY <1>1, <1>2, <1>3 DEF Shape, TypeOK
<1>6. Claims'
  <2>1. Pending' = Pending /\ Up'
    BY <1>3 DEF Pending, Up
  <2>2. \A v \in Workers : Busy(v) => worker[v].item # r
    BY <1>3 DEF Shape, Claims
  <2>3. \A v \in Workers : Busy(v)' => v = w \/ (Busy(v) /\ worker'[v] = worker[v])
    BY <1>4 DEF Busy, At
  <2> QED BY <1>1, <1>3, <1>4, <2>1, <2>2, <2>3 DEF Shape, Claims
<1>7. Custody'
  BY <1>1, <1>3, <1>4 DEF Custody, At, HasAudio, Uploaded
<1> QED BY <1>5, <1>6, <1>7 DEF Shape

\* What concerns neither spool nor workers.
LEMMA WatcherKeeps ==
  ASSUME Shape, Custody, NEW f \in Files, FileArrives(f) \/ FileLeaves(f) \/ Observe(f)
  PROVE  Shape' /\ Custody'
<1>1. /\ UNCHANGED <<config, spool, ledger, torn, finished, completed, partial, service>>
      /\ UNCHANGED <<known, items, inFlight, worker, stored, existing, raced, crashes, errors>>
      /\ sources' \in SUBSET Files /\ observed' \in SUBSET Files
  BY DEF Shape, TypeOK, FileArrives, FileLeaves, Observe, watch, disk, copies, memory, faults
<1>2. TypeOK'
  BY <1>1 DEF Shape, TypeOK
<1>3. Claims' /\ Custody'
  BY <1>1 DEF Shape, Claims, Custody, Busy, At, Up, Pending, HasAudio
<1> QED BY <1>2, <1>3 DEF Shape

LEMMA QueueKeeps ==
  ASSUME Shape, Custody, NEW f \in Files, ProcessReady(f)
  PROVE  Shape' /\ Custody'
<1> DEFINE r == ContentOf[f]
<1>1. /\ UNCHANGED <<config, sources, ledger, torn, finished, completed, partial, service>>
      /\ UNCHANGED <<inFlight, worker, stored, existing, raced, crashes, errors>>
      /\ observed' = observed \ {f} /\ Up
  BY DEF ProcessReady, watch, copies, faults
<1>2. r \in Recordings
  BY SpoolAssumption
<1>3. known' \in SUBSET Fingerprints
  BY <1>2 DEF ProcessReady, Shape, TypeOK, Fingerprints
<1>4. CASE UNCHANGED <<spool, items>>
  <2>1. TypeOK'
    BY <1>1, <1>3, <1>4 DEF Shape, TypeOK
  <2> QED BY <1>1, <1>4, <2>1 DEF Shape, Claims, Custody, Busy, At, Up, Pending, HasAudio
<1>5. CASE /\ r \notin items /\ items' = items \cup {r}
           /\ spool' = [spool EXCEPT ![r] = [dir |-> "whole", file |-> f]]
  <2>1. [dir |-> "whole", file |-> f] \in Spooled
    BY DEF Spooled, Directory
  <2>2. spool \in [Recordings -> Spooled]
    BY DEF Shape, TypeOK
  <2>3. /\ spool' \in [Recordings -> Spooled]
        /\ spool'[r].dir = "whole" /\ spool'[r].file = f
        /\ \A q \in Recordings \ {r} : spool'[q] = spool[q]
    BY <1>2, <1>5, <2>1, <2>2
  <2>4. TypeOK'
    BY <1>1, <1>2, <1>3, <1>5, <2>3 DEF Shape, TypeOK
  <2>5. Pending' = Pending \cup {r}
    BY <1>2, <2>3 DEF Pending
  <2>6. \A v \in Workers : Busy(v) => worker[v].item \in Recordings \ {r}
    BY <1>5, BusyWorker
  <2>7. \A q \in Pending' : spool'[q].file \in Files /\ ContentOf[spool'[q].file] = q
    BY <2>3, <2>5 DEF Shape, Claims, Pending
  <2>8. items' = Pending' /\ inFlight' \subseteq items' /\ Up'
    BY <1>1, <1>5, <2>5 DEF Shape, Claims, Up
  <2>9. Claims'
    BY <1>1, <2>7, <2>8 DEF Shape, Claims, Busy, At
  <2>10. Custody'
    BY <1>1, <2>3, <2>6 DEF Custody, At, Busy, HasAudio
  <2> QED BY <2>4, <2>9, <2>10 DEF Shape
<1> QED BY <1>4, <1>5 DEF ProcessReady

\* What a service that ends leaves on the disk.
LeftBehind ==
  /\ spool' \in [Recordings -> Spooled] /\ finished' \in SUBSET Recordings
  /\ ledger' \in SUBSET Fingerprints /\ torn' \in BOOLEAN
  /\ \A q \in Recordings : /\ spool'[q].file = spool[q].file
                           /\ spool'[q].dir # "none" => spool[q].dir # "none"

LEMMA HaltKeeps ==
  ASSUME Shape, Custody,
         Crash \/ \E w \in Workers : CrashInComplete(w)
  PROVE  Shape' /\ Custody'
<1>1. /\ UNCHANGED <<config, sources, completed, stored, errors, partial, existing, raced>>
      /\ crashes' = crashes + 1 /\ crashes < MaxCrashes /\ service' = "down"
      /\ known' = {} /\ items' = {} /\ observed' = {} /\ inFlight' = {}
      /\ worker' = [w \in Workers |-> Idle]
  BY DEF Crash, CrashInComplete, Halt, watch
<1>2. LeftBehind
  <2>1. CASE Crash
    BY <2>1 DEF Crash, disk, Shape, TypeOK, LeftBehind
  <2>2. ASSUME NEW w \in Workers, CrashInComplete(w)
        PROVE  LeftBehind
    <3> DEFINE r == worker[w].item
    <3>1. r \in Recordings /\ spool[r].dir # "none"
      BY <2>2, BusyWorker DEF CrashInComplete, Busy, At, Pending
    <3>2. PICK dir \in PartlyRemoved(r) \cup {"none"} : RemoveFiles(r, dir)
      BY <2>2 DEF CrashInComplete
    <3>3. dir \in Directory
      BY <3>1 DEF PartlyRemoved, Spooled, Directory, Shape, TypeOK
    <3>4. ledger' \in SUBSET Fingerprints
      BY <2>2, <3>1, AppendedBounds DEF Shape, TypeOK, CrashInComplete, Entry, Fingerprints
    <3>5. torn' \in BOOLEAN
      BY <2>2 DEF CrashInComplete
    <3> QED BY <3>1, <3>2, <3>3, <3>4, <3>5, FilesRemoved DEF Shape, LeftBehind
  <2> QED BY <2>1, <2>2
<1>3. crashes' \in 0 .. MaxCrashes
  BY <1>1, SpoolAssumption DEF Shape, TypeOK
<1>4. worker' \in [Workers -> Job] /\ \A v \in Workers : worker'[v].pc = "idle"
  BY <1>1, IdleJob
<1>5. TypeOK'
  BY <1>1, <1>2, <1>3, <1>4 DEF Shape, TypeOK, LeftBehind
<1>6. Claims'
  <2>1. \A q \in Pending' : spool'[q].file \in Files /\ ContentOf[spool'[q].file] = q
    BY <1>2 DEF Shape, Claims, Pending, LeftBehind
  <2> QED BY <1>1, <1>4, <2>1 DEF Claims, Busy, At, Up
<1>7. Custody'
  BY <1>4 DEF Custody, At, Uploaded
<1> QED BY <1>5, <1>6, <1>7 DEF Shape

LEMMA StartKeeps ==
  ASSUME Shape, Custody, Start
  PROVE  Shape' /\ Custody'
<1>1. /\ UNCHANGED <<config, sources, spool, finished, completed, partial, inFlight, worker, stored>>
      /\ UNCHANGED <<raced, crashes, errors>>
      /\ service' = "up" /\ items' = Pending /\ ~Up
  BY DEF Start, watch, copies, faults
<1>2. ReadBack \in SUBSET Fingerprints /\ {SourceFingerprint(f) : f \in sources} \in SUBSET Fingerprints
  BY DEF Shape, TypeOK, ReadBack, Pending, Fingerprints
<1>3. /\ known' \in SUBSET Fingerprints /\ ledger' \in SUBSET Fingerprints
      /\ observed' \in SUBSET Files /\ torn' \in BOOLEAN /\ existing' \in SUBSET Files
  <2>1. PICK tail \in {torn, FALSE} :
          \/ observed' = sources /\ known' = ReadBack /\ torn' = tail /\ UNCHANGED <<ledger, existing>>
          \/ LET skipped == {SourceFingerprint(f) : f \in sources} \ ReadBack IN
             /\ observed' = {} /\ known' = ReadBack \cup skipped /\ existing' = existing \cup sources
             /\ ledger' \in Appended(skipped, tail) /\ torn' = (tail /\ skipped = {})
    BY DEF Start
  <2>2. tail \in BOOLEAN
    BY DEF Shape, TypeOK
  <2>3. PICK skipped : skipped = {SourceFingerprint(f) : f \in sources} \ ReadBack
    OBVIOUS
  <2>4. CASE observed' = sources /\ known' = ReadBack /\ torn' = tail /\ UNCHANGED <<ledger, existing>>
    BY <1>2, <2>2, <2>4 DEF Shape, TypeOK
  <2>5. CASE /\ observed' = {} /\ known' = ReadBack \cup skipped /\ existing' = existing \cup sources
             /\ ledger' \in Appended(skipped, tail) /\ torn' = (tail /\ skipped = {})
    <3>1. ledger' \subseteq ledger \cup skipped
      BY <2>2, <2>5, AppendedBounds
    <3> QED BY <1>2, <2>3, <2>5, <3>1 DEF Shape, TypeOK
  <2> QED BY <2>1, <2>3, <2>4, <2>5
<1>4. TypeOK'
  <2>1. Pending \in SUBSET Recordings
    BY DEF Pending
  <2> QED BY <1>1, <1>3, <2>1 DEF Shape, TypeOK
<1>5. Pending' = Pending /\ Up' /\ inFlight = {}
  BY <1>1 DEF Pending, Up, Shape, Claims
<1>6. \A v \in Workers : ~Busy(v)
  BY <1>1 DEF Shape, Claims
<1>7. Claims' /\ Custody'
  BY <1>1, <1>5, <1>6 DEF Shape, Claims, Custody, Busy, At, HasAudio, Pending, Uploaded
<1> QED BY <1>4, <1>7 DEF Shape

-----------------------------------------------------------------------------
LEMMA ShapeStep == Shape /\ Custody /\ [Next]_vars => Shape' /\ Custody'
<1> DEFINE Goal == Shape' /\ Custody'
<1> SUFFICES ASSUME Shape, Custody, [Next]_vars PROVE Goal
  OBVIOUS
<1>1. ASSUME NEW w \in Workers, WorkerStep(w) \/ WorkerFails(w) PROVE Goal
  <2>1. CASE \/ SendMetadata(w) \/ SendAudio(w) \/ RequestFails(w)
             \/ CopyBegin(w) \/ CopyFinish(w) \/ CopyFails(w) \/ DeleteSource(w)
             \/ LedgerWriteFails(w) \/ RemovalFails(w)
    BY <2>1, WorkerTypes, MovesKeep DEF Shape
  <2>2. CASE Complete(w)
    BY <2>2, CompleteKeeps
  <2>3. CASE CrashInComplete(w)
    BY <2>3, HaltKeeps
  <2> QED BY <1>1, <2>1, <2>2, <2>3 DEF WorkerStep, WorkerFails
<1>2. ASSUME NEW f \in Files, FileArrives(f) \/ FileLeaves(f) \/ Observe(f) \/ ProcessReady(f) PROVE Goal
  BY <1>2, WatcherKeeps, QueueKeeps
<1>3. ASSUME NEW w \in Workers, NEW r \in Recordings, Claim(w, r) PROVE Goal
  BY <1>3, ClaimKeeps
<1>4. CASE Crash
  BY <1>4, HaltKeeps
<1>5. CASE Start
  BY <1>5, StartKeeps
<1>6. CASE UNCHANGED vars
  <2>1. TypeOK'
    BY <1>6 DEF vars, Shape, TypeOK
  <2>2. Claims' /\ Custody'
    BY <1>6 DEF vars, Shape, Claims, Custody, Busy, At, Up, Pending, HasAudio
  <2> QED BY <2>1, <2>2 DEF Shape
<1> HIDE DEF Goal
<1> QED BY <1>1, <1>2, <1>3, <1>4, <1>5, <1>6, Zenon DEF Next

LEMMA ShapeInit == Init => Shape /\ Custody
<1> SUFFICES ASSUME Init PROVE Shape /\ Custody
  OBVIOUS
<1>1. spool \in [Recordings -> Spooled] /\ \A r \in Recordings : spool[r].dir = "none"
  BY DEF Init, Spooled, Directory
<1>2. worker \in [Workers -> Job] /\ \A w \in Workers : worker[w].pc = "idle"
  BY IdleJob DEF Init
<1>3. TypeOK
  <2>1. 0 \in 0 .. MaxCrashes /\ 0 \in 0 .. MaxErrors
    BY SpoolAssumption
  <2>2. completed \in [Destinations -> Recordings \cup {None}]
    BY DEF Init
  <2> QED BY <1>1, <1>2, <2>1, <2>2 DEF Init, TypeOK
<1>4. Claims /\ Custody
  BY <1>1, <1>2 DEF Init, Claims, Custody, Busy, At, Up, Pending, Uploaded
<1> QED BY <1>3, <1>4 DEF Shape

\* The directories, the ledger, what the service remembers and what its workers do
\* stay within their types, through every failure, crash and restart.
THEOREM SpoolTypes == Spec => []TypeOK
<1>1. Shape /\ Custody => TypeOK
  BY DEF Shape
<1> QED BY <1>1, ShapeInit, ShapeStep, PTL DEF Spec

LEMMA CustodyHolds == Spec => [](Shape /\ Custody)
BY ShapeInit, ShapeStep, PTL DEF Spec

-----------------------------------------------------------------------------
(* What each step does to what is remembered and held.                     *)

\* The recordings in custody, and those given up.
Whole    == {r \in Recordings : HasAudio(r)}
Released == finished \cup {r \in Pending : ~HasAudio(r)}

LEMMA FingerprintsApart ==
  /\ \A r, q \in Recordings : Fingerprint(r) = Fingerprint(q) => r = q
  /\ \A r \in Recordings, f \in Files : Fingerprint(r) # SourceFingerprint(f)
<1>1. "recording" # "source"
  OBVIOUS
<1> QED BY <1>1 DEF Fingerprint, SourceFingerprint

\* The steps of a worker that remove no files leave custody and memory alone; only
\* the audio request stores, and only an item in custody.
LEMMA QuietStep ==
  ASSUME Shape, Custody, NEW w \in Workers,
         \/ SendMetadata(w) \/ SendAudio(w) \/ RequestFails(w)
         \/ CopyBegin(w) \/ CopyFinish(w) \/ CopyFails(w) \/ DeleteSource(w)
         \/ LedgerWriteFails(w)
  PROVE  /\ Whole' = Whole /\ Pending' = Pending /\ Released' = Released
         /\ UNCHANGED <<ledger, finished, known, service, existing>>
         /\ UNCHANGED stored \/ \E r \in Whole : stored' = stored \cup {r}
         /\ torn' = torn \/ "ledger" \in Faults
<1> DEFINE r == worker[w].item
<1>0. Busy(w)
  BY DEF SendMetadata, SendAudio, RequestFails, CopyBegin, CopyFinish, CopyFails, DeleteSource,
         LedgerWriteFails, Busy, At
<1>1. UNCHANGED <<ledger, finished, known, service, items, existing>>
  BY DEF SendMetadata, SendAudio, RequestFails, CopyBegin, CopyFinish, CopyFails, DeleteSource,
         LedgerWriteFails, memory, disk, watch
<1>2. Retry(w) \/ UNCHANGED spool
  BY DEF SendMetadata, SendAudio, RequestFails, CopyBegin, CopyFinish, CopyFails, DeleteSource,
         LedgerWriteFails, memory, disk
<1>3. Whole' = Whole /\ Pending' = Pending /\ Released' = Released
  <2>1. CASE UNCHANGED spool
    BY <1>1, <2>1 DEF Whole, Pending, Released, HasAudio
  <2>2. CASE Retry(w)
    <3>1. \A q \in Recordings : /\ spool'[q].dir = "whole" <=> spool[q].dir = "whole"
                                /\ spool'[q].dir = "none" <=> spool[q].dir = "none"
      BY <1>0, <1>1, <2>2, RetryLetsGo DEF LetsGo
    <3> QED BY <1>1, <3>1 DEF Whole, Pending, Released, HasAudio
  <2> QED BY <1>2, <2>1, <2>2
<1>4. UNCHANGED stored \/ \E q \in Whole : stored' = stored \cup {q}
  <2>1. CASE SendAudio(w)
    <3>1. r \in Whole
      BY <1>0, <2>1, BusyWorker DEF Custody, SendAudio, Whole
    <3> QED BY <2>1, <3>1 DEF SendAudio
  <2>2. CASE ~SendAudio(w)
    BY <2>2 DEF SendMetadata, RequestFails, CopyBegin, CopyFinish, CopyFails, DeleteSource, LedgerWriteFails
  <2> QED BY <2>1, <2>2
<1>5. torn' = torn \/ "ledger" \in Faults
  BY DEF SendMetadata, SendAudio, RequestFails, CopyBegin, CopyFinish, CopyFails, DeleteSource,
         LedgerWriteFails, Error, disk
<1> QED BY <1>1, <1>3, <1>4, <1>5

\* The entry of an item into the ledger and the removal of its files, as far as it gets.
Removes(r) ==
  /\ r \in Pending /\ Served(stored, r)
  /\ ledger' \in Appended(Entry(r), torn) /\ torn' = FALSE
  /\ \E dir \in PartlyRemoved(r) \cup {"none"} : RemoveFiles(r, dir)
  /\ UNCHANGED <<stored, existing>>

LEMMA RemovingStep ==
  ASSUME Shape, Custody, NEW w \in Workers, Complete(w) \/ RemovalFails(w) \/ CrashInComplete(w)
  PROVE  /\ At(w, "complete") /\ worker[w].item \in Recordings /\ Removes(worker[w].item)
         /\ UNCHANGED <<known, service>> \/ ~Up'
<1>1. At(w, "complete") /\ Busy(w)
  BY DEF Complete, RemovalFails, CrashInComplete, Busy, At
<1>2. worker[w].item \in Pending /\ Served(stored, worker[w].item) /\ worker[w].item \in Recordings
  BY <1>1, BusyWorker DEF Custody, Uploaded, At
<1>3. CASE Complete(w)
  BY <1>1, <1>2, <1>3 DEF Complete, Removes, watch
<1>4. CASE RemovalFails(w)
  BY <1>1, <1>2, <1>4 DEF RemovalFails, Removes, memory, watch
<1>5. CASE CrashInComplete(w)
  BY <1>1, <1>2, <1>5 DEF CrashInComplete, Removes, Halt, Up, watch
<1> QED BY <1>3, <1>4, <1>5

LEMMA RemovesFacts ==
  ASSUME Shape, NEW r \in Recordings, Removes(r)
  PROVE  /\ Pending \ {r} \subseteq Pending' /\ Pending' \subseteq Pending
         /\ r \in Pending' \/ r \in finished'
         /\ finished \subseteq finished' /\ finished' \subseteq finished \cup {r}
         /\ ledger \subseteq ledger' /\ ledger' \subseteq ledger \cup {Fingerprint(r)}
         /\ ~torn => Fingerprint(r) \in ledger'
         /\ \/ Whole' = Whole /\ Released' = Released
            \/ r \in Whole /\ Whole' = Whole \ {r} /\ Released' = Released \cup {r}
<1>1. spool[r].dir # "none" /\ spool \in [Recordings -> Spooled] /\ torn \in BOOLEAN
  BY DEF Removes, Pending, Shape, TypeOK
<1>2. PICK dir \in PartlyRemoved(r) \cup {"none"} : RemoveFiles(r, dir)
  BY DEF Removes
<1>3. dir \in Directory /\ (dir = "whole" => spool[r].dir = "whole")
  BY <1>1, <1>2 DEF PartlyRemoved, Spooled, Directory
<1>4. /\ finished \subseteq finished'
      /\ dir = "none" => r \in finished'
      /\ \A q \in finished' : q \in finished \/ (q = r /\ dir = "none")
      /\ \A q \in Recordings : spool'[q].dir = IF q = r THEN dir ELSE spool[q].dir
  BY <1>2, <1>3, FilesRemoved DEF Shape
<1>5. ledger \subseteq ledger' /\ ledger' \subseteq ledger \cup Entry(r)
      /\ (~torn => ledger' = ledger \cup Entry(r))
  BY <1>1, AppendedBounds DEF Removes
<1>6. Pending \ {r} \subseteq Pending' /\ Pending' \subseteq Pending /\ (dir # "none" => r \in Pending')
  BY <1>1, <1>4 DEF Pending
<1>7. \/ Whole' = Whole /\ Released' = Released
      \/ r \in Whole /\ Whole' = Whole \ {r} /\ Released' = Released \cup {r}
  <2>1. CASE dir = "whole"
    <3>1. \A q \in Recordings : spool'[q].dir = spool[q].dir
      BY <1>3, <1>4, <2>1
    <3>2. finished' = finished
      BY <1>2, <2>1 DEF RemoveFiles
    <3> QED BY <3>1, <3>2 DEF Whole, Released, Pending, HasAudio
  <2>2. CASE dir # "whole"
    <3>1. Whole' = Whole \ {r}
      BY <1>4, <2>2 DEF Whole, HasAudio
    <3>2. Released' = Released \cup {r}
      BY <1>4, <2>2 DEF Released, Pending, HasAudio
    <3>3. r \notin Whole => r \in Released
      BY <1>1 DEF Whole, Released, Pending, HasAudio
    <3> QED BY <3>1, <3>2, <3>3
  <2> QED BY <2>1, <2>2
<1>8. /\ r \in Pending' \/ r \in finished'
      /\ finished \subseteq finished' /\ finished' \subseteq finished \cup {r}
  BY <1>4, <1>6
<1>9. /\ ledger \subseteq ledger' /\ ledger' \subseteq ledger \cup {Fingerprint(r)}
      /\ ~torn => Fingerprint(r) \in ledger'
  BY <1>5 DEF Entry
<1> QED BY <1>6, <1>7, <1>8, <1>9

\* Queueing takes into custody a recording that is neither known nor in the spool.
LEMMA QueueingStep ==
  ASSUME Shape, NEW f \in Files, ProcessReady(f)
  PROVE  /\ UNCHANGED <<ledger, torn, finished, stored, service>> /\ Up
         /\ UNCHANGED existing
         /\ \/ UNCHANGED spool
            \/ \E r \in Recordings : /\ r \notin Pending /\ Fingerprint(r) \notin known
                                     /\ Fingerprint(r) \in known'
                                     /\ Pending' = Pending \cup {r} /\ Whole' = Whole \cup {r}
                                     /\ Released' = Released
         /\ known \subseteq known'
         /\ \A g \in Files : SourceFingerprint(g) \in known' => SourceFingerprint(g) \in known
         /\ \A r \in Recordings : Fingerprint(r) \in known' => Fingerprint(r) \in known \/ r \in Pending'
<1> DEFINE r == ContentOf[f]
<1>1. r \in Recordings /\ Up /\ items = Pending /\ spool \in [Recordings -> Spooled]
  BY SpoolAssumption DEF ProcessReady, Shape, TypeOK, Claims
<1>2. UNCHANGED <<ledger, torn, finished, stored, service, existing>>
  BY DEF ProcessReady, watch
<1>6. \A g \in Files : SourceFingerprint(g) \in known' => SourceFingerprint(g) \in known
  BY <1>1, FingerprintsApart DEF ProcessReady
<1>3. CASE UNCHANGED <<spool, known, items>>
  BY <1>1, <1>2, <1>3, <1>6
<1>4. CASE /\ known' = known \cup {Fingerprint(r)}
           /\ Fingerprint(r) \in known \/ r \in items
           /\ UNCHANGED <<spool, items>>
  <2>1. Pending' = Pending
    BY <1>4 DEF Pending
  <2>2. \A q \in Recordings : Fingerprint(q) \in known' => Fingerprint(q) \in known \/ q \in Pending'
    BY <1>1, <1>4, <2>1, FingerprintsApart
  <2> QED BY <1>1, <1>2, <1>4, <1>6, <2>2
<1>5. CASE /\ known' = known \cup {Fingerprint(r)}
           /\ Fingerprint(r) \notin known /\ r \notin items
           /\ spool' = [spool EXCEPT ![r] = [dir |-> "whole", file |-> f]]
  <2>1. spool'[r].dir = "whole" /\ \A q \in Recordings \ {r} : spool'[q] = spool[q]
    BY <1>1, <1>5
  <2>2. Pending' = Pending \cup {r} /\ Whole' = Whole \cup {r} /\ r \notin Pending
    BY <1>1, <1>5, <2>1 DEF Pending, Whole, HasAudio
  <2>3. \A q \in Recordings : Fingerprint(q) \in known' => Fingerprint(q) \in known \/ q \in Pending'
    BY <1>1, <1>5, <2>2, FingerprintsApart
  <2>4. Fingerprint(r) \in known' /\ Fingerprint(r) \notin known /\ known \subseteq known'
    BY <1>5
  <2>5. Released' = Released
    BY <1>1, <1>2, <2>1, <2>2 DEF Released, Pending, HasAudio
  <2> HIDE DEF r
  <2> QED BY <1>1, <1>2, <1>6, <2>2, <2>3, <2>4, <2>5
<1> QED BY <1>3, <1>4, <1>5 DEF ProcessReady

\* A restart knows what the ledger and the directories say, and enters only sources.
LEMMA StartingStep ==
  ASSUME Shape, Start
  PROVE  /\ UNCHANGED <<spool, finished, stored>> /\ Up' /\ existing \subseteq existing'
         /\ \A f \in Files : \/ SourceFingerprint(f) \in known'
                            \/ SourceFingerprint(f) \in ledger'
                            => SourceFingerprint(f) \in ledger \/ f \in existing'
         /\ \A r \in Recordings : Fingerprint(r) \in known' <=> (Fingerprint(r) \in ledger \/ r \in Pending)
         /\ \A r \in Recordings : Fingerprint(r) \in ledger' <=> Fingerprint(r) \in ledger
         /\ torn' => torn
<1>1. UNCHANGED <<spool, finished, stored>> /\ Up' /\ sources \subseteq Files /\ torn \in BOOLEAN
  BY DEF Start, Shape, TypeOK, Up
<1>2. PICK skipped : skipped = {SourceFingerprint(f) : f \in sources} \ ReadBack
  OBVIOUS
<1>3. PICK tail \in {torn, FALSE} :
        \/ known' = ReadBack /\ torn' = tail /\ UNCHANGED <<ledger, existing>>
        \/ /\ known' = ReadBack \cup skipped /\ existing' = existing \cup sources
           /\ ledger' \in Appended(skipped, tail) /\ torn' = (tail /\ skipped = {})
  BY <1>2 DEF Start
<1>4. \A r \in Recordings : Fingerprint(r) \notin skipped
  BY <1>1, <1>2, FingerprintsApart
<1>5. \A r \in Recordings : Fingerprint(r) \in ReadBack <=> (Fingerprint(r) \in ledger \/ r \in Pending)
  BY FingerprintsApart DEF ReadBack, Pending
<1>6. tail \in BOOLEAN /\ (tail => torn)
  <2>1. tail = torn \/ tail = FALSE
    BY <1>3
  <2>2. CASE tail = torn
    BY <1>1, <2>2, Zenon
  <2>3. CASE tail = FALSE
    BY <2>3, Zenon
  <2> QED BY <2>1, <2>2, <2>3
<1>7. ledger \subseteq ledger' /\ ledger' \subseteq ledger \cup skipped
  BY <1>3, <1>6, AppendedBounds
<1>8. \A f \in Files : /\ SourceFingerprint(f) \in ReadBack => SourceFingerprint(f) \in ledger
                       /\ SourceFingerprint(f) \in skipped => f \in sources
  BY <1>1, <1>2, FingerprintsApart DEF ReadBack, Pending, SourceFingerprint
<1>9. existing \subseteq existing'
      /\ \A f \in Files : SourceFingerprint(f) \in known' \/ SourceFingerprint(f) \in ledger'
                            => SourceFingerprint(f) \in ledger \/ f \in existing'
  <2>1. CASE known' = ReadBack /\ UNCHANGED <<ledger, existing>>
    <3>1. ASSUME NEW f \in Files, SourceFingerprint(f) \in known' \/ SourceFingerprint(f) \in ledger'
          PROVE  SourceFingerprint(f) \in ledger
      BY <1>8, <2>1, <3>1
    <3> QED BY <2>1, <3>1
  <2>2. CASE known' = ReadBack \cup skipped /\ existing' = existing \cup sources
    <3> SUFFICES ASSUME NEW f \in Files,
                        SourceFingerprint(f) \in known' \/ SourceFingerprint(f) \in ledger'
                 PROVE  SourceFingerprint(f) \in ledger \/ f \in sources
      BY <2>2
    <3>1. \/ SourceFingerprint(f) \in ledger
          \/ SourceFingerprint(f) \in skipped
          \/ SourceFingerprint(f) \in ReadBack
      BY <1>7, <2>2
    <3>2. /\ SourceFingerprint(f) \in ReadBack => SourceFingerprint(f) \in ledger
          /\ SourceFingerprint(f) \in skipped => f \in sources
      BY <1>8
    <3> QED BY <3>1, <3>2
  <2> QED BY <1>3, <2>1, <2>2
<1> QED BY <1>1, <1>3, <1>4, <1>5, <1>6, <1>7, <1>9

\* All other steps leave the disk alone, and remember what was remembered or nothing.
LEMMA OtherStep ==
  ASSUME \/ \E f \in Files : FileArrives(f) \/ FileLeaves(f) \/ Observe(f)
         \/ \E w \in Workers, r \in Recordings : Claim(w, r)
         \/ Crash \/ UNCHANGED vars
  PROVE  /\ UNCHANGED <<spool, ledger, torn, finished, stored, existing>>
         /\ UNCHANGED <<known, service>> \/ (known' = {} /\ ~Up')
         /\ Pending' = Pending /\ Whole' = Whole /\ Released' = Released
<1>1. UNCHANGED <<spool, ledger, torn, finished, stored, existing>>
  BY DEF FileArrives, FileLeaves, Observe, Claim, Crash, Halt, disk, watch, vars
<1>2. UNCHANGED <<known, service>> \/ (known' = {} /\ ~Up')
  BY DEF FileArrives, FileLeaves, Observe, Claim, Crash, Halt, Up, memory, vars
<1> QED BY <1>1, <1>2 DEF Pending, Whole, Released, HasAudio

-----------------------------------------------------------------------------
(* Nothing is ignored that was not kept.                                   *)

EnteredIsSafe ==
  /\ \A r \in Recordings : Fingerprint(r) \in ledger => r \in Pending \/ r \in finished
  /\ \A f \in Files : SourceFingerprint(f) \in ledger => f \in existing

LEMMA SafeStep ==
  Shape /\ Custody /\ EnteredIsSafe /\ IgnoredIsSafe /\ [Next]_vars => EnteredIsSafe' /\ IgnoredIsSafe'
<1> DEFINE Goal == EnteredIsSafe' /\ IgnoredIsSafe'
<1> SUFFICES ASSUME Shape, Custody, EnteredIsSafe, IgnoredIsSafe, [Next]_vars PROVE Goal
  OBVIOUS
<1>1. ASSUME NEW w \in Workers,
             \/ SendMetadata(w) \/ SendAudio(w) \/ RequestFails(w)
             \/ CopyBegin(w) \/ CopyFinish(w) \/ CopyFails(w) \/ DeleteSource(w)
             \/ LedgerWriteFails(w)
      PROVE  Goal
  <2>1. UNCHANGED <<ledger, finished, known, existing>> /\ Pending' = Pending
    BY <1>1, QuietStep
  <2> QED BY <2>1 DEF EnteredIsSafe, IgnoredIsSafe
<1>2. ASSUME NEW w \in Workers, Complete(w) \/ RemovalFails(w) \/ CrashInComplete(w)
      PROVE  Goal
  <2>1. PICK r \in Recordings : Removes(r)
    BY <1>2, RemovingStep
  <2>2. known' \subseteq known
    BY <1>2 DEF Complete, RemovalFails, CrashInComplete, Halt, memory
  <2>3. \A q \in Recordings : q \in Pending \/ q \in finished => q \in Pending' \/ q \in finished'
    BY <2>1, RemovesFacts
  <2>4. \A q \in Recordings : Fingerprint(q) \in ledger' => Fingerprint(q) \in ledger \/ q = r
    BY <2>1, RemovesFacts, FingerprintsApart
  <2>5. r \in Pending' \/ r \in finished'
    BY <2>1, RemovesFacts
  <2>6. existing' = existing
        /\ \A f \in Files : SourceFingerprint(f) \in ledger' => SourceFingerprint(f) \in ledger
    BY <2>1, RemovesFacts, FingerprintsApart DEF Removes
  <2> QED BY <2>2, <2>3, <2>4, <2>5, <2>6 DEF EnteredIsSafe, IgnoredIsSafe
<1>3. ASSUME NEW f \in Files, ProcessReady(f) PROVE Goal
  <2>1. Pending \subseteq Pending' /\ UNCHANGED <<ledger, finished, existing>>
    BY <1>3, QueueingStep DEF Pending
  <2> QED BY <1>3, <2>1, QueueingStep DEF EnteredIsSafe, IgnoredIsSafe
<1>4. CASE Start
  <2>1. Pending' = Pending /\ finished' = finished
    BY <1>4, StartingStep DEF Pending
  <2> QED BY <1>4, <2>1, StartingStep DEF EnteredIsSafe, IgnoredIsSafe
<1>5. CASE \/ \E f \in Files : FileArrives(f) \/ FileLeaves(f) \/ Observe(f)
           \/ \E w \in Workers, r \in Recordings : Claim(w, r)
           \/ Crash \/ UNCHANGED vars
  BY <1>5, OtherStep DEF EnteredIsSafe, IgnoredIsSafe
<1> HIDE DEF Goal
<1> QED BY <1>1, <1>2, <1>3, <1>4, <1>5, Zenon DEF Next, WorkerStep, WorkerFails

\* A recording the service will not queue again is in the spool or was processed, and a
\* file it passes over existed at a start with include_existing off, whatever it read back
\* from a torn ledger and the directories a crash left.
THEOREM NothingIsIgnored == Spec => []IgnoredIsSafe
<1>1. Init => EnteredIsSafe /\ IgnoredIsSafe
  BY DEF Init, EnteredIsSafe, IgnoredIsSafe
<1> QED BY <1>1, CustodyHolds, SafeStep, PTL DEF Spec

-----------------------------------------------------------------------------
(* The spool implements StoreAndForward, if no write to the ledger is cut short. *)

\* What was processed is in the ledger; a running service knows it, and what it holds.
Entered ==
  /\ torn = FALSE
  /\ \A r \in finished : Fingerprint(r) \in ledger
  /\ Up => \A r \in Recordings : r \in Pending \/ Fingerprint(r) \in ledger => Fingerprint(r) \in known

\* A step of the abstract specification or a stutter.
SFStep == [SF!Next]_(SF!vars)

LEMMA SFMap ==
  ASSUME \/ Whole' = Whole /\ Released' = Released /\ stored' = stored
         \/ \E r \in Recordings : /\ r \notin Whole \cup Released /\ Whole' = Whole \cup {r}
                                 /\ Released' = Released /\ stored' = stored
         \/ \E r \in Recordings : /\ r \in Whole /\ stored' = stored \cup {r}
                                 /\ Whole' = Whole /\ Released' = Released
         \/ \E r \in Recordings : /\ r \in Whole /\ Served(stored, r) /\ Whole' = Whole \ {r}
                                 /\ Released' = Released \cup {r} /\ stored' = stored
  PROVE  SFStep
<1>1. CASE Whole' = Whole /\ Released' = Released /\ stored' = stored
  BY <1>1 DEF SFStep, SF!vars, Whole, Released
<1>2. ASSUME NEW r \in Recordings, r \notin Whole \cup Released, Whole' = Whole \cup {r},
             Released' = Released, stored' = stored
      PROVE  SFStep
  BY <1>2 DEF SFStep, SF!Next, SF!Accept, Whole, Released
<1>3. ASSUME NEW r \in Recordings, r \in Whole, stored' = stored \cup {r}, Whole' = Whole,
             Released' = Released
      PROVE  SFStep
  BY <1>3 DEF SFStep, SF!Next, SF!Deliver, Whole, Released
<1>4. ASSUME NEW r \in Recordings, r \in Whole, Served(stored, r), Whole' = Whole \ {r},
             Released' = Released \cup {r}, stored' = stored
      PROVE  SFStep
  BY <1>4 DEF SFStep, SF!Next, SF!Release, Whole, Released, Served
<1> QED BY <1>1, <1>2, <1>3, <1>4

LEMMA EnteredStep ==
  ASSUME "ledger" \notin Faults, Shape, Custody, Entered, [Next]_vars
  PROVE  Entered' /\ SFStep
<1> DEFINE Goal == Entered' /\ SFStep
<1> SUFFICES Goal
  OBVIOUS
<1>0. Whole \subseteq Pending /\ finished \subseteq Recordings /\ Released \subseteq finished \cup Pending
  BY DEF Whole, Pending, Released, HasAudio, Shape, TypeOK
<1>1. ASSUME NEW w \in Workers,
             \/ SendMetadata(w) \/ SendAudio(w) \/ RequestFails(w)
             \/ CopyBegin(w) \/ CopyFinish(w) \/ CopyFails(w) \/ DeleteSource(w)
             \/ LedgerWriteFails(w)
      PROVE  Goal
  <2>1. /\ Whole' = Whole /\ Pending' = Pending /\ Released' = Released /\ torn' = torn
        /\ UNCHANGED <<ledger, known, service, finished>>
        /\ UNCHANGED stored \/ \E r \in Whole : stored' = stored \cup {r}
    BY <1>1, QuietStep
  <2>2. Entered'
    BY <1>0, <2>1 DEF Entered, Up
  <2>3. SFStep
    BY <2>1, SFMap DEF Whole
  <2> QED BY <2>2, <2>3
<1>2. ASSUME NEW w \in Workers, Complete(w) \/ RemovalFails(w) \/ CrashInComplete(w)
      PROVE  Goal
  <2>1. PICK r \in Recordings : Removes(r) /\ (UNCHANGED <<known, service>> \/ ~Up')
    BY <1>2, RemovingStep
  <2>2. torn' = FALSE /\ stored' = stored /\ r \in Pending /\ Served(stored, r)
    BY <2>1 DEF Removes
  <2>3. /\ Pending \ {r} \subseteq Pending' /\ Pending' \subseteq Pending
        /\ ledger \subseteq ledger' /\ ledger' \subseteq ledger \cup {Fingerprint(r)}
        /\ Fingerprint(r) \in ledger' /\ finished' \subseteq finished \cup {r}
        /\ \/ Whole' = Whole /\ Released' = Released
           \/ r \in Whole /\ Whole' = Whole \ {r} /\ Released' = Released \cup {r}
    BY <2>1, RemovesFacts DEF Entered
  <2>4. \A q \in finished' : Fingerprint(q) \in ledger'
    BY <2>3 DEF Entered
  <2>5. Up' => \A q \in Recordings : q \in Pending' \/ Fingerprint(q) \in ledger' => Fingerprint(q) \in known'
    <3>1. CASE UNCHANGED <<known, service>>
      BY <2>2, <2>3, <3>1, FingerprintsApart DEF Entered, Up
    <3> QED BY <2>1, <3>1
  <2>6. SFStep
    BY <2>2, <2>3, SFMap
  <2> QED BY <2>2, <2>4, <2>5, <2>6 DEF Entered
<1>3. ASSUME NEW f \in Files, ProcessReady(f) PROVE Goal
  <2>1. UNCHANGED <<ledger, torn, stored, finished, service>> /\ Up /\ known \subseteq known'
    BY <1>3, QueueingStep
  <2>2. CASE UNCHANGED spool
    <3>1. Pending' = Pending /\ Whole' = Whole /\ Released' = Released
      BY <2>1, <2>2 DEF Pending, Whole, Released, HasAudio
    <3>2. Entered'
      BY <2>1, <3>1 DEF Entered, Up
    <3>3. SFStep
      BY <2>1, <3>1, SFMap
    <3> QED BY <3>2, <3>3
  <2>3. ASSUME NEW r \in Recordings, r \notin Pending, Fingerprint(r) \notin known, Fingerprint(r) \in known',
               Pending' = Pending \cup {r}, Whole' = Whole \cup {r}, Released' = Released
        PROVE  Goal
    <3>1. r \notin Released
      BY <1>0, <2>1, <2>3 DEF Entered
    <3>2. SFStep
      BY <1>0, <2>1, <2>3, <3>1, SFMap
    <3>3. Entered'
      BY <2>1, <2>3 DEF Entered, Up
    <3> QED BY <3>2, <3>3
  <2> QED BY <1>3, <2>2, <2>3, QueueingStep
<1>4. CASE Start
  <2>1. UNCHANGED <<spool, finished, stored>> /\ torn' \in BOOLEAN
    BY <1>4, StartingStep, ShapeStep DEF Shape, TypeOK
  <2>6. Pending' = Pending /\ Whole' = Whole /\ Released' = Released
    BY <2>1 DEF Pending, Whole, Released, HasAudio
  <2>2. torn' = FALSE
    BY <1>4, <2>1, StartingStep DEF Entered
  <2>3. \A r \in finished' : Fingerprint(r) \in ledger'
    BY <1>0, <1>4, <2>1, StartingStep DEF Entered
  <2>4. \A r \in Recordings : r \in Pending' \/ Fingerprint(r) \in ledger' => Fingerprint(r) \in known'
    BY <1>4, <2>6, StartingStep
  <2>5. SFStep
    BY <2>1, <2>6, SFMap
  <2> QED BY <2>2, <2>3, <2>4, <2>5 DEF Entered
<1>5. CASE \/ \E f \in Files : FileArrives(f) \/ FileLeaves(f) \/ Observe(f)
           \/ \E w \in Workers, r \in Recordings : Claim(w, r)
           \/ Crash \/ UNCHANGED vars
  <2>1. /\ UNCHANGED <<ledger, torn, stored, finished>>
        /\ Pending' = Pending /\ Whole' = Whole /\ Released' = Released
        /\ UNCHANGED <<known, service>> \/ ~Up'
    BY <1>5, OtherStep
  <2>2. SFStep
    BY <2>1, SFMap
  <2>3. Entered'
    BY <2>1 DEF Entered, Up
  <2> QED BY <2>2, <2>3
<1> HIDE DEF Goal
<1> QED BY <1>1, <1>2, <1>3, <1>4, <1>5, Zenon DEF Next, WorkerStep, WorkerFails

\* Unless a write to the ledger fails, the spool implements StoreAndForward: what it
\* takes it takes once, and keeps until the server has it or a call it takes for the same.
THEOREM SpoolStoresAndForwards ==
  ASSUME "ledger" \notin Faults
  PROVE  Spec => ImplementsStoreAndForward
<1>1. Init => SF!Init /\ Entered
  BY DEF Init, SF!Init, HasAudio, Entered, Pending, Up
<1>2. Shape /\ Custody /\ Entered /\ [Next]_vars => Entered' /\ SFStep
  BY EnteredStep
<1> QED BY <1>1, <1>2, CustodyHolds, PTL DEF Spec, ImplementsStoreAndForward, SF!Spec, SFStep

-----------------------------------------------------------------------------
(* Copies.                                                                 *)

Kept(r) == Copied(r) \/ r \in raced

\* What is processed, or about to be entered as processed, has its copy or raced for it; a
\* worker that writes one writes it to a destination that is free, or was taken while it wrote.
CopyInv ==
  config.mode = "copy" =>
    /\ \A r \in finished : Kept(r)
    /\ \A w \in Workers :
         /\ ~At(w, "delete")
         /\ At(w, "complete") => Kept(worker[w].item)
         /\ At(w, "copying") =>
              /\ worker[w].dest \in {Plain(worker[w].item), Suffixed(worker[w].item)}
              /\ completed[worker[w].dest] \in raced \cup {None}

\* A worker that does not stand at a copy or at the end of its item says nothing.
Early == {"idle", "metadata", "audio", "copy"}

\* Steps that neither write to the completed directory nor finish what has no copy.
LEMMA CopyFrame ==
  ASSUME CopyInv, UNCHANGED <<config, completed, raced>>,
         config.mode = "copy" => \A r \in finished' : Kept(r),
         \A w \in Workers :
            \/ worker'[w].pc \in Early
            \/ /\ worker'[w] = worker[w]
               /\ At(w, "copying") => spool'[worker[w].item].file = spool[worker[w].item].file
  PROVE  CopyInv'
<1> SUFFICES ASSUME config.mode = "copy" PROVE CopyInv'
  BY DEF CopyInv
<1>1. \A r \in finished' : r \in raced' \/ \E d \in Destinations : completed'[d] = r
  BY DEF Copied, Kept
<1>2. ASSUME NEW w \in Workers
      PROVE  /\ worker'[w].pc # "delete"
             /\ worker'[w].pc = "complete" => \/ worker'[w].item \in raced'
                                              \/ \E d \in Destinations : completed'[d] = worker'[w].item
             /\ worker'[w].pc = "copying" =>
                  /\ worker'[w].dest \in {<<NameOf[spool'[worker'[w].item].file], None>>,
                                          <<NameOf[spool'[worker'[w].item].file], worker'[w].item>>}
                  /\ completed'[worker'[w].dest] \in raced' \cup {None}
  <2>1. CASE worker'[w].pc \in Early
    BY <2>1 DEF Early
  <2>2. CASE /\ worker'[w] = worker[w]
             /\ At(w, "copying") => spool'[worker[w].item].file = spool[worker[w].item].file
    BY <2>2 DEF CopyInv, At, Copied, Kept, Plain, Suffixed
  <2> QED BY <2>1, <2>2
<1> QED BY <1>1, <1>2 DEF CopyInv, Copied, Kept, At, Plain, Suffixed

\* The steps of a worker up to its copy, and its failures.
LEMMA EarlyStepCopies ==
  ASSUME Shape, Custody, CopyInv, NEW w \in Workers,
         SendMetadata(w) \/ SendAudio(w) \/ RequestFails(w) \/ CopyFails(w) \/ LedgerWriteFails(w)
  PROVE  CopyInv'
<1>1. CASE config.mode # "copy"
  BY <1>1 DEF CopyInv, SendMetadata, SendAudio, RequestFails, CopyFails, LedgerWriteFails, watch
<1>2. CASE config.mode = "copy"
  <2>1. UNCHANGED <<config, completed, raced, finished>>
    BY DEF SendMetadata, SendAudio, RequestFails, CopyFails, LedgerWriteFails, watch, copies
  <2>2. Moves(w) /\ worker \in [Workers -> Job] /\ spool \in [Recordings -> Spooled]
    BY RequestMoves, CopyMoves, FailureMoves DEF Shape, TypeOK
  <2>3. AfterUpload = "copy"
    BY <1>2 DEF AfterUpload
  <2>4. worker'[w].pc \in Early
    <3>1. ASSUME NEW p \in Positions, Goto(w, p) PROVE worker'[w].pc = p
      <4>1. PICK job : job = [worker[w] EXCEPT !.pc = p]
        OBVIOUS
      <4>2. job.pc = p
        BY <2>2, <4>1, JobMoves
      <4> QED BY <2>2, <3>1, <4>1, <4>2 DEF Goto, Become
    <3>2. Become(w, Idle) => worker'[w].pc = "idle"
      BY <2>2, IdleJob DEF Become
    <3>3. Goto(w, "copy") \/ Goto(w, "audio") \/ Become(w, Idle)
      BY <2>3 DEF SendMetadata, SendAudio, RequestFails, CopyFails, LedgerWriteFails, Retry
    <3>4. "copy" \in Positions /\ "audio" \in Positions
      BY DEF Positions
    <3> QED BY <3>1, <3>2, <3>3, <3>4 DEF Early
  <2>5. \A v \in Workers \ {w} : worker'[v] = worker[v]
    BY <2>2 DEF Moves, GoesOn, LetsGo
  <2>6. \A r \in Recordings : spool'[r].file = spool[r].file
    BY <2>2 DEF Moves, GoesOn, LetsGo
  <2>7. \A v \in Workers : At(v, "copying") => worker[v].item \in Recordings
    BY BusyWorker DEF Busy, At
  <2>8. \A r \in finished' : Kept(r)
    BY <1>2, <2>1 DEF CopyInv
  <2> QED BY <2>1, <2>4, <2>5, <2>6, <2>7, <2>8, CopyFrame
<1> QED BY <1>1, <1>2

LEMMA BeginCopies ==
  ASSUME Shape, Custody, CopyInv, NEW w \in Workers, CopyBegin(w)
  PROVE  CopyInv'
<1> DEFINE r == worker[w].item
<1>1. UNCHANGED <<config, completed, raced, finished>>
  BY DEF CopyBegin, watch
<1>2. Moves(w) /\ worker \in [Workers -> Job] /\ Busy(w)
  BY CopyMoves DEF Shape, TypeOK, CopyBegin, Busy, At
<1>3. r \in Recordings /\ Plain(r) \in Destinations /\ Suffixed(r) \in Destinations
  BY <1>2, BusyWorker
<1>4. \A v \in Workers \ {w} : worker'[v] = worker[v]
  BY <1>2 DEF Moves, GoesOn, LetsGo
<1>5. \A q \in Recordings : spool'[q].file = spool[q].file
  BY <1>2 DEF Moves, GoesOn, LetsGo
<1>6. \A v \in Workers : Busy(v) => worker[v].item \in Recordings
  BY BusyWorker
<1>7. PICK d \in Destinations : d = IF completed[Plain(r)] = None THEN Plain(r) ELSE Suffixed(r)
  BY <1>3
<1>8. CASE Retry(w)
  <2>1. worker'[w].pc = "idle"
    BY <1>2, <1>8, IdleJob DEF Retry, Become
  <2>2. config.mode = "copy" => \A q \in finished' : Kept(q)
    BY <1>1 DEF CopyInv
  <2> QED BY <1>1, <1>4, <1>5, <1>6, <2>1, <2>2, CopyFrame DEF Early, Busy, At
<1>9. CASE /\ completed[Plain(r)] = r \/ completed[d] = r
           /\ Goto(w, "complete")
  <2>1. worker'[w].pc = "complete" /\ worker'[w].item = r
    <3>1. PICK job : job = [worker[w] EXCEPT !.pc = "complete"]
      OBVIOUS
    <3>2. "complete" \in Positions
      BY DEF Positions
    <3>3. job.pc = "complete" /\ job.item = r
      BY <1>2, <3>1, <3>2, JobMoves
    <3> QED BY <1>2, <1>9, <3>1, <3>3 DEF Goto, Become
  <2>2. \E e \in Destinations : completed'[e] = r
    BY <1>1, <1>3, <1>9
  <2>3. \A v \in Workers \ {w} : At(v, "copying") => spool'[worker[v].item].file = spool[worker[v].item].file
    BY <1>5, <1>6 DEF Busy, At
  <2> QED BY <1>1, <1>4, <2>1, <2>2, <2>3 DEF CopyInv, Copied, Kept, At, Plain, Suffixed
<1>10. CASE /\ completed[d] = None
            /\ Become(w, [worker[w] EXCEPT !.pc = "copying", !.dest = d])
  <2>1. worker'[w].pc = "copying" /\ worker'[w].item = r /\ worker'[w].dest = d
    <3>1. PICK job : job = [worker[w] EXCEPT !.pc = "copying", !.dest = d]
      OBVIOUS
    <3>2. job.pc = "copying" /\ job.item = r /\ job.dest = d
      BY <1>2, <3>1 DEF Job
    <3> QED BY <1>2, <1>10, <3>1, <3>2 DEF Become
  <2>2. completed'[d] = None /\ d \in {Plain(r), Suffixed(r)} /\ spool'[r].file = spool[r].file
    BY <1>1, <1>3, <1>5, <1>7, <1>10
  <2>3. \A v \in Workers \ {w} : At(v, "copying") => spool'[worker[v].item].file = spool[worker[v].item].file
    BY <1>5, <1>6 DEF Busy, At
  <2> QED BY <1>1, <1>4, <2>1, <2>2, <2>3 DEF CopyInv, Copied, Kept, At, Plain, Suffixed
<1> QED BY <1>7, <1>8, <1>9, <1>10 DEF CopyBegin, SameContent

LEMMA FinishCopies ==
  ASSUME Shape, Custody, CopyInv, NEW w \in Workers, CopyFinish(w)
  PROVE  CopyInv'
<1> DEFINE r == worker[w].item
           d == worker[w].dest
<1> SUFFICES ASSUME config.mode = "copy" PROVE CopyInv'
  BY DEF CopyInv, CopyFinish, watch
<1>1. UNCHANGED <<config, finished, spool>> /\ completed' = [completed EXCEPT ![d] = r] /\ At(w, "copying")
  BY DEF CopyFinish, watch, disk
<1>2. worker \in [Workers -> Job] /\ Busy(w) /\ completed \in [Destinations -> Recordings \cup {None}]
  BY <1>1 DEF Shape, TypeOK, Busy, At
<1>3. r \in Recordings /\ Plain(r) \in Destinations /\ Suffixed(r) \in Destinations
  BY <1>2, BusyWorker
<1>4. d \in Destinations /\ completed[d] \in raced \cup {None}
  BY <1>1, <1>3 DEF CopyInv
<1>5. \A e \in Destinations : completed'[e] = IF e = d THEN r ELSE completed[e]
  BY <1>1, <1>2, <1>4
<1>13. raced \subseteq raced' /\ (Contended(w, d) => r \in raced')
  BY DEF CopyFinish
<1>6. \A q \in Recordings : Kept(q) => q \in raced' \/ \E e \in Destinations : completed'[e] = q
  BY <1>4, <1>5, <1>13, SpoolAssumption DEF Copied, Kept
<1>7. worker'[w].pc = "complete" /\ worker'[w].item = r /\ \A v \in Workers \ {w} : worker'[v] = worker[v]
  <2>1. PICK job : job = [worker[w] EXCEPT !.pc = "complete"]
    OBVIOUS
  <2>2. "complete" \in Positions
    BY DEF Positions
  <2>3. job.pc = "complete" /\ job.item = r
    BY <1>2, <2>1, <2>2, JobMoves
  <2> QED BY <1>2, <2>1, <2>3 DEF CopyFinish, Goto, Become
<1>8. finished \in SUBSET Recordings /\ \A v \in Workers : Busy(v) => worker[v].item \in Recordings
  BY BusyWorker DEF Shape, TypeOK
<1>9. \A q \in finished' : q \in raced' \/ \E e \in Destinations : completed'[e] = q
  BY <1>1, <1>6, <1>8 DEF CopyInv
<1>10. ASSUME NEW v \in Workers \ {w}
       PROVE  /\ worker'[v].pc # "delete"
              /\ worker'[v].pc = "complete" => \/ worker'[v].item \in raced'
                                               \/ \E e \in Destinations : completed'[e] = worker'[v].item
              /\ worker'[v].pc = "copying" =>
                   /\ worker'[v].dest \in {Plain(worker[v].item), Suffixed(worker[v].item)}
                   /\ completed'[worker'[v].dest] \in raced' \cup {None}
  <2>1. worker'[v] = worker[v] /\ worker[v].pc # "delete"
    BY <1>7 DEF CopyInv, At
  <2>2. CASE worker[v].pc = "complete"
    BY <1>6, <1>8, <2>1, <2>2 DEF CopyInv, Busy, At
  <2>3. CASE worker[v].pc = "copying"
    <3>1. worker[v].dest = d => r \in raced'
      BY <1>13, <2>3 DEF Contended, At
    <3>2. /\ worker[v].dest \in {Plain(worker[v].item), Suffixed(worker[v].item)}
          /\ completed[worker[v].dest] \in raced \cup {None}
      BY <2>3 DEF CopyInv, At
    <3>3. worker[v].dest \in Destinations
      BY <2>3, <3>2, BusyWorker DEF Busy, At
    <3> QED BY <1>5, <1>13, <2>1, <2>3, <3>1, <3>2, <3>3
  <2> QED BY <2>1, <2>2, <2>3
<1>11. worker'[w].pc = "complete" /\ \E e \in Destinations : completed'[e] = worker'[w].item
  BY <1>4, <1>5, <1>7
<1>12. spool' = spool
  BY <1>1
<1> QED BY <1>7, <1>9, <1>10, <1>11, <1>12 DEF CopyInv, Copied, Kept, At, Plain, Suffixed

LEMMA RemovalCopies ==
  ASSUME Shape, Custody, CopyInv, NEW w \in Workers,
         Complete(w) \/ RemovalFails(w) \/ CrashInComplete(w)
  PROVE  CopyInv'
<1> DEFINE r == worker[w].item
<1>1. UNCHANGED <<config, completed, raced>>
  BY DEF Complete, RemovalFails, CrashInComplete, Halt, watch, copies
<1>2. At(w, "complete") /\ r \in Recordings /\ Removes(r)
  BY RemovingStep
<1>3. finished' \subseteq finished \cup {r}
  BY <1>2, RemovesFacts
<1>4. config.mode = "copy" => \A q \in finished' : Kept(q)
  BY <1>2, <1>3 DEF CopyInv
<1>5. worker \in [Workers -> Job]
  BY DEF Shape, TypeOK
<1>6. \A v \in Workers : worker'[v] = Idle \/ (v # w /\ worker'[v] = worker[v])
  BY <1>5 DEF Complete, RemovalFails, CrashInComplete, Halt, Become
<1>7. \A q \in Recordings : spool'[q].file = spool[q].file
  <2>1. PICK dir \in PartlyRemoved(r) \cup {"none"} : RemoveFiles(r, dir)
    BY <1>2 DEF Removes
  <2>2. dir \in Directory
    BY <1>2, <2>1 DEF PartlyRemoved, Shape, TypeOK, Spooled, Directory
  <2> QED BY <1>2, <2>1, <2>2, FilesRemoved DEF Shape
<1>8. \A v \in Workers : At(v, "copying") => worker[v].item \in Recordings
  BY BusyWorker DEF Busy, At
<1>9. Idle.pc \in Early
  BY DEF Idle, Early
<1> QED BY <1>1, <1>4, <1>6, <1>7, <1>8, <1>9, CopyFrame

LEMMA CopyStep ==
  ASSUME Shape, Custody, CopyInv, [Next]_vars
  PROVE  CopyInv'
<1>1. ASSUME NEW w \in Workers, DeleteSource(w) PROVE CopyInv'
  BY <1>1 DEF DeleteSource, CopyInv
<1>2. ASSUME NEW w \in Workers, NEW r \in Recordings, Claim(w, r) PROVE CopyInv'
  <2>1. UNCHANGED <<config, completed, raced, finished, spool>>
    BY <1>2 DEF Claim, watch, disk, copies
  <2>2. PICK job : job = [Idle EXCEPT !.pc = "metadata", !.item = r]
    OBVIOUS
  <2>3. job.pc \in Early
    BY <2>2 DEF Idle, Early
  <2>4. worker \in [Workers -> Job] /\ worker' = [worker EXCEPT ![w] = job]
    BY <1>2, <2>2 DEF Shape, TypeOK, Claim, Become
  <2>5. \A v \in Workers : worker'[v].pc \in Early \/ worker'[v] = worker[v]
    BY <2>3, <2>4
  <2>6. config.mode = "copy" => \A q \in finished' : Kept(q)
    BY <2>1 DEF CopyInv
  <2> QED BY <2>1, <2>5, <2>6, CopyFrame
<1>3. CASE Crash
  <2>1. UNCHANGED <<config, completed, raced, finished>> /\ worker' = [w \in Workers |-> Idle]
    BY <1>3 DEF Crash, Halt, watch, disk
  <2>2. \A v \in Workers : worker'[v].pc \in Early
    BY <2>1 DEF Idle, Early
  <2>3. config.mode = "copy" => \A q \in finished' : Kept(q)
    BY <2>1 DEF CopyInv
  <2> QED BY <2>1, <2>2, <2>3, CopyFrame
<1>4. CASE \/ \E f \in Files : FileArrives(f) \/ FileLeaves(f) \/ Observe(f) \/ ProcessReady(f)
           \/ Start \/ UNCHANGED vars
  <2>1. UNCHANGED <<config, completed, raced, finished, worker>>
    BY <1>4 DEF FileArrives, FileLeaves, Observe, ProcessReady, Start, watch, copies, disk, vars
  <2>2. ASSUME NEW v \in Workers, At(v, "copying")
        PROVE  spool'[worker[v].item].file = spool[worker[v].item].file
    <3>1. worker[v].item \in items /\ spool \in [Recordings -> Spooled] /\ worker[v].item \in Recordings
      BY <2>2, BusyWorker DEF Busy, At, Shape, TypeOK
    <3>2. UNCHANGED spool \/ \E f \in Files : ProcessReady(f)
      BY <1>4 DEF FileArrives, FileLeaves, Observe, Start, disk, vars
    <3>3. ASSUME NEW f \in Files, ProcessReady(f) PROVE spool'[worker[v].item] = spool[worker[v].item]
      BY <3>1, <3>3 DEF ProcessReady
    <3> QED BY <3>2, <3>3
  <2>3. config.mode = "copy" => \A q \in finished' : Kept(q)
    BY <2>1 DEF CopyInv
  <2> QED BY <2>1, <2>2, <2>3, CopyFrame
<1> QED BY <1>1, <1>2, <1>3, <1>4, EarlyStepCopies, BeginCopies, FinishCopies, RemovalCopies, Zenon
       DEF Next, WorkerStep, WorkerFails

LEMMA CopyHolds == Spec => [](Shape /\ Custody /\ CopyInv)
<1>1. Init => CopyInv
  BY DEF Init, CopyInv, At, Idle
<1>2. Shape /\ Custody /\ CopyInv /\ [Next]_vars => CopyInv'
  BY CopyStep
<1> QED BY <1>1, <1>2, CustodyHolds, PTL DEF Spec

\* In copy mode a processed recording has its copy, whatever fails and however often the
\* service restarts, unless another worker was copying to the same name meanwhile.
THEOREM CopiesAreKept == Spec => []ProcessedIsCopied
<1>1. CopyInv => ProcessedIsCopied
  BY DEF CopyInv, ProcessedIsCopied, Kept
<1> QED BY <1>1, CopyHolds, PTL

-----------------------------------------------------------------------------
(* When copies do not race.                                                *)

OneWorker == \A w, v \in Workers : w = v

NamesApart == \A f, g \in Files : NameOf[f] = NameOf[g] => ContentOf[f] = ContentOf[g]

LEMMA DestinationsApart ==
  ASSUME OneWorker \/ NamesApart, Shape, CopyInv, config.mode = "copy",
         NEW w \in Workers, NEW v \in Workers \ {w}, At(w, "copying"), At(v, "copying")
  PROVE  worker[w].dest # worker[v].dest
<1> DEFINE r == worker[w].item
           q == worker[v].item
<1>1. Busy(w) /\ Busy(v)
  BY DEF Busy, At
<1>2. r \in Recordings /\ q \in Recordings /\ r \in Pending /\ q \in Pending /\ r # q
  BY <1>1, BusyWorker DEF Shape, Claims
<1>3. NameOf[spool[r].file] # NameOf[spool[q].file]
  <2>1. NamesApart
    BY DEF OneWorker
  <2>2. /\ spool[r].file \in Files /\ ContentOf[spool[r].file] = r
        /\ spool[q].file \in Files /\ ContentOf[spool[q].file] = q
    BY <1>2 DEF Shape, Claims
  <2> QED BY <1>2, <2>1, <2>2 DEF NamesApart
<1>4. worker[w].dest \in {Plain(r), Suffixed(r)} /\ worker[v].dest \in {Plain(q), Suffixed(q)}
  BY DEF CopyInv
<1> QED BY <1>2, <1>3, <1>4, SpoolAssumption DEF Plain, Suffixed

NoRace == config.mode = "copy" => raced = {}

\* With one worker, or base names that tell recordings apart, no copy is made while another
\* worker copies to the same name: then every processed recording has its copy.
THEOREM CopiesDoNotRace ==
  ASSUME OneWorker \/ NamesApart
  PROVE  Spec => []NoRace
<1>1. Init => NoRace
  BY DEF Init, NoRace
<1>2. ASSUME Shape, Custody, CopyInv, NoRace, [Next]_vars
      PROVE  NoRace'
  <2> DEFINE Goal == NoRace'
  <2> SUFFICES Goal
    OBVIOUS
  <2>1. ASSUME NEW w \in Workers, CopyFinish(w) PROVE Goal
    <3>1. config' = config /\ At(w, "copying")
      BY <2>1 DEF CopyFinish, watch
    <3>2. config.mode = "copy" => ~Contended(w, worker[w].dest)
      BY <1>2, <3>1, DestinationsApart DEF Contended
    <3> QED BY <1>2, <2>1, <3>1, <3>2 DEF CopyFinish, NoRace
  <2>2. ASSUME NEW w \in Workers, WorkerStep(w) \/ WorkerFails(w), ~CopyFinish(w) PROVE Goal
    <3>1. UNCHANGED <<config, raced>>
      BY <2>2 DEF WorkerStep, WorkerFails, SendMetadata, SendAudio, RequestFails, CopyBegin, CopyFails,
                  DeleteSource, Complete, LedgerWriteFails, RemovalFails, CrashInComplete, Halt, watch, copies
    <3> QED BY <1>2, <3>1 DEF NoRace
  <2>3. CASE \/ \E f \in Files : FileArrives(f) \/ FileLeaves(f) \/ Observe(f) \/ ProcessReady(f)
             \/ \E w \in Workers, r \in Recordings : Claim(w, r)
             \/ Crash \/ Start \/ UNCHANGED vars
    <3>1. UNCHANGED <<config, raced>>
      BY <2>3 DEF FileArrives, FileLeaves, Observe, ProcessReady, Claim, Crash, Halt, Start,
                  watch, copies, vars
    <3> QED BY <1>2, <3>1 DEF NoRace
  <2> HIDE DEF Goal
  <2> QED BY <1>2, <2>1, <2>2, <2>3, Zenon DEF Next
<1> QED BY <1>1, <1>2, CopyHolds, PTL DEF Spec
===============================================================================
