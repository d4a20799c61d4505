--------------------------- MODULE UploadSession ---------------------------
(***************************************************************************)
(* The two-stage ingestion protocol of the call-recorder server            *)
(* (backend/cmd/server/main.go): a sender registers the metadata of a      *)
(* recording (createUpload), gets a token, and posts the audio under that  *)
(* token (receiveAudio).  Handlers are goroutines of one server process    *)
(* that share nothing but the database and the audio directory, so every   *)
(* SQL statement and every file operation is a step of its own, and any    *)
(* two handlers interleave between their statements.                       *)
(***************************************************************************)
EXTENDS Naturals, FiniteSets

CONSTANTS
  Recordings,           \* completed calls the senders hold
  Matches,              \* <<r, q>>: equal within the duplicate tolerances
  SameKey,              \* <<r, q>>: sent by one sender under one idempotency key
  SourceIDs,            \* recordings sent with a source_call_id
  Legacy,               \* recordings sent over the legacy routes
  Handlers,             \* concurrent HTTP requests
  Uploads,              \* ids of pending_uploads rows
  Tokens,               \* upload tokens
  Calls,                \* ids of calls rows and of their audio files
  Digests,              \* digests of payloads that do not decode
  QuarantineFailures,   \* LegacyQuarantineFailures
  SerialSenders,        \* a sender has one request per recording at a time
  HandlersOutliveLease, \* a request may run longer than its lease
  MaxCrashes,           \* bound: server crashes
  MaxErrors,            \* bound: failed statements, lost replies, missed deadlines
  None

ASSUME UploadAssumption ==
  /\ Matches \subseteq Recordings \X Recordings
  /\ \A r \in Recordings : <<r, r>> \in Matches
  /\ SameKey \subseteq Recordings \X Recordings
  /\ \A r, q \in Recordings : <<r, q>> \in SameKey => <<q, r>> \in SameKey
  /\ \A r, q, s \in Recordings :
       (<<r, q>> \in SameKey /\ <<q, s>> \in SameKey) => <<r, s>> \in SameKey
  /\ SourceIDs \subseteq Recordings
  /\ Legacy \subseteq Recordings
  /\ QuarantineFailures \in Nat \ {0}
  /\ SerialSenders \in BOOLEAN
  /\ HandlersOutliveLease \in BOOLEAN
  /\ MaxCrashes \in Nat
  /\ MaxErrors \in Nat
  /\ None \notin Recordings \cup Uploads \cup Tokens \cup Calls \cup Digests

VARIABLES
  pending,      \* the pending_uploads table
  calls,        \* the calls table: the recording each call was made from
  audio,        \* final audio files, named by their call
  quarantine,   \* quarantined payloads, named by their upload
  handler,      \* the local state of each request
  cleaner,      \* cleanupOperationalState: the next statement of its pass
  held,         \* the token a sender holds for each recording
  acked,        \* recordings the server has answered as done
  lostAck,      \* calls whose COMMIT took effect but was reported as an error
  lostMark,     \* likewise, rows whose UPDATE to 'quarantined' took effect
  crashes,
  errors

vars == <<pending, calls, audio, quarantine, handler, cleaner, held, acked,
          lostAck, lostMark, crashes, errors>>

store  == <<pending, calls, audio, quarantine, lostAck, lostMark>>
faults == <<crashes, errors>>

-----------------------------------------------------------------------------
(* The states of a row and of a request.                                   *)

Terminal == {"completed", "duplicate", "quarantined"}

Statuses == Terminal \cup {"absent", "pending", "uploading", "expired", "failed"}

Row == [status : Statuses,
        rec    : Recordings \cup {None},
        token  : Tokens \cup {None},
        fresh  : BOOLEAN,                       \* expires_at is in the future
        lease  : {"none", "live", "lapsed"},    \* lease_expires_at
        call   : Calls \cup {None},             \* completed_call_id
        fails  : 0..QuarantineFailures,         \* decode_failure_count, saturated
        digest : Digests \cup {None},           \* rejected_audio_sha256
        aged   : BOOLEAN]                       \* the quarantine grace is over

NoRow == [status |-> "absent", rec |-> None, token |-> None, fresh |-> FALSE,
          lease |-> "none", call |-> None, fails |-> 0, digest |-> None,
          aged |-> FALSE]

\* Where a request stands: the statement it executes next.
Unclaimed == {"lookup", "insert", "reissue", "expire", "claim"}
Claimed   == {"body", "quarantine", "confirm", "reject", "duplicate", "store",
              "commit", "release"}

Request == [pc     : {"idle"} \cup Unclaimed \cup Claimed,
            rec    : Recordings \cup {None},
            upload : Uploads \cup {None},
            call   : Calls \cup {None}]

Idle == [pc |-> "idle", rec |-> None, upload |-> None, call |-> None]

TypeOK ==
  /\ pending \in [Uploads -> Row]
  /\ calls \in [Calls -> Recordings \cup {None}]
  /\ audio \in SUBSET Calls
  /\ quarantine \in SUBSET Uploads
  /\ handler \in [Handlers -> Request]
  /\ cleaner \in {"expire", "recover"}
  /\ held \in [Recordings -> Tokens \cup {None}]
  /\ acked \in SUBSET Recordings
  /\ lostAck \in SUBSET Calls
  /\ lostMark \in SUBSET Uploads
  /\ crashes \in 0..MaxCrashes
  /\ errors \in 0..MaxErrors

Init ==
  /\ pending = [u \in Uploads |-> NoRow]
  /\ calls = [c \in Calls |-> None]
  /\ audio = {}
  /\ quarantine = {}
  /\ handler = [h \in Handlers |-> Idle]
  /\ cleaner = "expire"
  /\ held = [r \in Recordings |-> None]
  /\ acked = {}
  /\ lostAck = {}
  /\ lostMark = {}
  /\ crashes = 0
  /\ errors = 0

-----------------------------------------------------------------------------
(* Queries.                                                                *)

Stored == {c \in Calls : calls[c] # None}

\* Mutants of findDuplicate: strict comparisons with zero tolerances; the wrong
\* column selected.
StrictDuplicates(r) == {c \in Stored : calls[c] # r /\ <<calls[c], r>> \in Matches}
SenderOfDuplicates(r) == {calls[c] : c \in {d \in Stored : <<calls[d], r>> \in Matches}}

\* findDuplicate: the stored calls that equal r within the tolerances.
Duplicates(r) == {c \in Stored : <<calls[c], r>> \in Matches}

\* The row registered under r's idempotency key, if any: a recording without a
\* key is not in SameKey at all.  ProScan and Trunk Recorder give every recording
\* a key of its own; the legacy front door makes one from the start time and the
\* talkgroup, so that calls of two sites or radios can share it.
KeyRows(r) == {u \in Uploads : <<pending[u].rec, r>> \in SameKey}

SharesKey(q, r) == q = r \/ <<q, r>> \in SameKey

OwnKey(r) == \A q \in Recordings : <<q, r>> \in SameKey => q = r

TokenRows(t) == {u \in Uploads : pending[u].token = t}

\* The partial unique index calls(sender_id, source_call_id).
SourceClash(r) == r \in SourceIDs /\ \E c \in Stored : calls[c] = r

\* Rows whose answer is given; and rows another request seems to be working on,
\* with mutants that answer for the latter too and that ignore their lease.
AnsweredInProgress(u) == pending[u].status \in Terminal \cup {"uploading"}
Answered(u) == pending[u].status \in Terminal

AnyUploading(u) == pending[u].status = "uploading"
InProgress(u) == pending[u].status = "uploading" /\ pending[u].lease = "live"

\* Random identifiers: any one nobody refers to; which one makes no difference.
Draw(fresh) == CHOOSE x \in fresh : TRUE

FreshTokens == {t \in Tokens : /\ TokenRows(t) = {}
                               /\ \A r \in Recordings : held[r] # t}
FreshCalls == {c \in Calls \ (audio \cup Stored) :
                 \A h \in Handlers : handler[h].call # c}
FreeUploads == {u \in Uploads : pending[u].status = "absent"}

Serving(r) == \E h \in Handlers : handler[h].rec = r

MaySend(r) == SerialSenders => ~Serving(r)

-----------------------------------------------------------------------------
(* Steps every handler is built from.                                      *)

At(h, p) == handler[h].pc = p

Become(h, request) == handler' = [handler EXCEPT ![h] = request]

Goto(h, p) == Become(h, [handler[h] EXCEPT !.pc = p])

Reply(h) == Become(h, Idle)

\* The request is answered as done: the sender may drop its recording.
ReplyDone(h) ==
  /\ Reply(h)
  /\ acked' = acked \cup {handler[h].rec}

Error == errors < MaxErrors /\ errors' = errors + 1

\* UPDATE pending_uploads ... WHERE id = u; every statement that takes a row out
\* of 'uploading' clears its lease.
Update(u, row) == pending' = [pending EXCEPT ![u] = row]

Unleased(u, status) == [pending[u] EXCEPT !.status = status, !.lease = "none"]

-----------------------------------------------------------------------------
(* createUpload.                                                           *)

\* The metadata request, up to and including its duplicate check.
CreateBegin(h, r) ==
  /\ At(h, "idle")
  /\ held[r] = None
  /\ MaySend(r)
  /\ \/ /\ Duplicates(r) # {}
        /\ acked' = acked \cup {r}
        /\ UNCHANGED handler
     \/ /\ Duplicates(r) = {}
        /\ Become(h, [Idle EXCEPT !.pc = "lookup", !.rec = r])
        /\ UNCHANGED acked
  /\ UNCHANGED <<store, cleaner, held, faults>>

\* The SELECT under the idempotency key, and what the handler decides from it.
CreateLookup(h) ==
  LET r == handler[h].rec IN
  /\ At(h, "lookup")
  /\ \/ /\ KeyRows(r) = {}
        /\ Goto(h, "insert")
        /\ UNCHANGED acked
     \/ \E u \in KeyRows(r) :
          \/ /\ Answered(u)
             /\ ReplyDone(h)
          \/ /\ InProgress(u)
             /\ Reply(h)
             /\ UNCHANGED acked
          \/ /\ ~Answered(u)
             /\ ~InProgress(u)
             /\ Become(h, [handler[h] EXCEPT !.pc = "reissue", !.upload = u])
             /\ UNCHANGED acked
  /\ UNCHANGED <<store, cleaner, held, faults>>

\* The 201 answer with token t, which may never reach the sender.
ReplyToken(h, t) ==
  /\ Reply(h)
  /\ \/ /\ held' = [held EXCEPT ![handler[h].rec] = t]
        /\ UNCHANGED errors
     \/ /\ Error
        /\ UNCHANGED held

\* INSERT of a new row; the unique index rejects a key registered meanwhile.
CreateInsert(h) ==
  LET r == handler[h].rec IN
  /\ At(h, "insert")
  /\ \/ /\ KeyRows(r) # {}
        /\ Reply(h)
        /\ UNCHANGED <<pending, held, errors>>
     \/ /\ KeyRows(r) = {}
        /\ FreeUploads # {}
        /\ FreshTokens # {}
        /\ Update(Draw(FreeUploads),
                  [NoRow EXCEPT !.status = "pending", !.rec = r, !.fresh = TRUE,
                                !.token = Draw(FreshTokens)])
        /\ ReplyToken(h, Draw(FreshTokens))
  /\ UNCHANGED <<calls, audio, quarantine, lostAck, lostMark, cleaner, acked, crashes>>

\* UPDATE of the row found by the SELECT, whatever its status is by now: it gets
\* this request's metadata and token.
CreateReissue(h) ==
  LET u == handler[h].upload IN
  /\ At(h, "reissue")
  /\ FreshTokens # {}
  /\ Update(u, [Unleased(u, "pending") EXCEPT !.rec = handler[h].rec, !.fresh = TRUE,
                                              !.token = Draw(FreshTokens)])
  /\ ReplyToken(h, Draw(FreshTokens))
  /\ UNCHANGED <<calls, audio, quarantine, lostAck, lostMark, cleaner, acked, crashes>>

-----------------------------------------------------------------------------
(* receiveAudio.                                                           *)

\* The audio request, up to and including the SELECT of the row by its token.
AudioBegin(h, r) ==
  /\ At(h, "idle")
  /\ held[r] # None
  /\ MaySend(r)
  /\ held' = [held EXCEPT ![r] = None]
  /\ \/ /\ TokenRows(held[r]) = {}
        /\ UNCHANGED <<handler, acked>>
     \/ \E u \in TokenRows(held[r]) :
          \/ /\ Answered(u)
             /\ acked' = acked \cup {r}
             /\ UNCHANGED handler
          \/ /\ ~Answered(u)
             /\ Become(h, [Idle EXCEPT
                             !.pc = IF pending[u].fresh THEN "claim" ELSE "expire",
                             !.rec = r, !.upload = u])
             /\ UNCHANGED acked
  /\ UNCHANGED <<store, cleaner, faults>>

\* The token is past its expiry: 410, and the row is marked.
AudioExpire(h) ==
  LET u == handler[h].upload IN
  /\ At(h, "expire")
  /\ IF pending[u].status \in {"completed", "duplicate"}
     THEN UNCHANGED pending
     ELSE Update(u, Unleased(u, "expired"))
  /\ Reply(h)
  /\ UNCHANGED <<calls, audio, quarantine, lostAck, lostMark, cleaner, held, acked, faults>>

Claimable(u) ==
  \/ pending[u].status \in {"pending", "failed"}
  \/ pending[u].status = "uploading" /\ pending[u].lease = "lapsed"

Claim(u) ==
  /\ Claimable(u)
  /\ Update(u, [pending[u] EXCEPT !.status = "uploading", !.lease = "live"])

\* The conditional UPDATE that takes the lease, or 409.
AudioClaim(h) ==
  LET u == handler[h].upload IN
  /\ At(h, "claim")
  /\ \/ /\ Claim(u)
        /\ Goto(h, "body")
        /\ UNCHANGED errors
     \/ /\ Claim(u)            \* the UPDATE took effect, its reply was lost:
        /\ Reply(h)            \* no deferred release is registered yet
        /\ Error
     \/ /\ ~Claimable(u)
        /\ Reply(h)
        /\ UNCHANGED <<pending, errors>>
  /\ UNCHANGED <<calls, audio, quarantine, lostAck, lostMark, cleaner, held, acked, crashes>>

\* shouldQuarantineLegacyAudio.
ShouldQuarantine(r, fails, aged) ==
  r \in Legacy /\ fails >= QuarantineFailures /\ aged

\* The payload does not decode: the failure is counted while the row is leased.
AudioDecodeFails(h, d) ==
  LET u == handler[h].upload
      same == pending[u].digest = d
      fails == IF ~same THEN 1
               ELSE IF pending[u].fails < QuarantineFailures
                    THEN pending[u].fails + 1 ELSE QuarantineFailures
      aged == same /\ pending[u].aged
  IN
  /\ At(h, "body")
  /\ \/ /\ pending[u].status # "uploading"
        /\ Goto(h, "release")
        /\ UNCHANGED pending
     \/ /\ pending[u].status = "uploading"
        /\ Update(u, [pending[u] EXCEPT !.fails = fails, !.digest = d, !.aged = aged])
        /\ Goto(h, IF ShouldQuarantine(handler[h].rec, fails, aged)
                   THEN "quarantine" ELSE "reject")
  /\ UNCHANGED <<calls, audio, quarantine, lostAck, lostMark, cleaner, held, acked, faults>>

\* Mutant of AudioQuarantine: the payload is not kept.
QuarantineDropsPayload(h) ==
  /\ At(h, "quarantine")
  /\ Goto(h, "confirm")
  /\ UNCHANGED <<store, cleaner, held, acked, faults>>

\* The payload is renamed into quarantine/ ...
AudioQuarantine(h) ==
  /\ At(h, "quarantine")
  /\ quarantine' = quarantine \cup {handler[h].upload}
  /\ Goto(h, "confirm")
  /\ UNCHANGED <<pending, calls, audio, lostAck, lostMark, cleaner, held, acked, faults>>

\* ... and the row is marked, unless it lost its lease: then, as after an error,
\* the file is removed.
AudioConfirmQuarantine(h) ==
  LET u == handler[h].upload IN
  /\ At(h, "confirm")
  /\ \/ /\ pending[u].status = "uploading"
        /\ Update(u, Unleased(u, "quarantined"))
        /\ ReplyDone(h)
        /\ UNCHANGED <<quarantine, lostMark, errors>>
     \/ /\ pending[u].status = "uploading"
        /\ Update(u, Unleased(u, "quarantined"))     \* marked, but its reply was lost
        /\ Error
        /\ quarantine' = quarantine \ {u}
        /\ lostMark' = lostMark \cup {u}
        /\ Goto(h, "release")
        /\ UNCHANGED acked
     \/ /\ pending[u].status # "uploading"
        /\ quarantine' = quarantine \ {u}
        /\ Goto(h, "release")
        /\ UNCHANGED <<pending, lostMark, acked, errors>>
  /\ UNCHANGED <<calls, audio, lostAck, cleaner, held, crashes>>

\* UPDATE ... SET status='pending' WHERE id AND status='uploading'.
Release(u) == IF pending[u].status = "uploading"
              THEN Update(u, Unleased(u, "pending"))
              ELSE UNCHANGED pending

\* Mutant of AudioReject: the rejection is answered as done.
RejectAcknowledges(h) ==
  /\ At(h, "reject")
  /\ Release(handler[h].upload)
  /\ ReplyDone(h)
  /\ UNCHANGED <<calls, audio, quarantine, lostAck, lostMark, cleaner, held, faults>>

\* 415: the sender may try again.
AudioReject(h) ==
  /\ At(h, "reject")
  /\ Release(handler[h].upload)
  /\ Reply(h)
  /\ UNCHANGED <<calls, audio, quarantine, lostAck, lostMark, cleaner, held, acked, faults>>

\* The payload decodes: the second duplicate check.
AudioDedupe(h) ==
  LET found == Duplicates(handler[h].rec) IN
  /\ At(h, "body")
  /\ \/ \E c \in found :
          Become(h, [handler[h] EXCEPT !.pc = "duplicate", !.call = c])
     \/ found = {} /\ Goto(h, "store")
  /\ UNCHANGED <<store, cleaner, held, acked, faults>>

\* Mutant of AudioMarkDuplicate: the medium of the stored call is discarded with
\* the duplicate.
MarkDiscardsMedia(h) ==
  LET u == handler[h].upload IN
  /\ At(h, "duplicate")
  /\ Update(u, [Unleased(u, "duplicate") EXCEPT !.call = handler[h].call])
  /\ ReplyDone(h)
  /\ audio' = audio \ {handler[h].call}
  /\ UNCHANGED <<calls, quarantine, lostAck, lostMark, cleaner, held, faults>>

AudioMarkDuplicate(h) ==
  LET u == handler[h].upload IN
  /\ At(h, "duplicate")
  /\ Update(u, [Unleased(u, "duplicate") EXCEPT !.call = handler[h].call])
  /\ ReplyDone(h)
  /\ UNCHANGED <<calls, audio, quarantine, lostAck, lostMark, cleaner, held, faults>>

\* A call id is drawn and the payload renamed to its final path.
AudioStore(h) ==
  /\ At(h, "store")
  /\ FreshCalls # {}
  /\ audio' = audio \cup {Draw(FreshCalls)}
  /\ Become(h, [handler[h] EXCEPT !.pc = "commit", !.call = Draw(FreshCalls)])
  /\ UNCHANGED <<pending, calls, quarantine, lostAck, lostMark, cleaner, held, acked, faults>>

\* Mutants of Finalize: the row does not name its call; calls has no unique index.
FinalizeUnlinked(h) ==
  /\ ~SourceClash(handler[h].rec)
  /\ calls' = [calls EXCEPT ![handler[h].call] = handler[h].rec]
  /\ Update(handler[h].upload, Unleased(handler[h].upload, "completed"))

FinalizeWithoutIndex(h) ==
  LET u == handler[h].upload IN
  /\ calls' = [calls EXCEPT ![handler[h].call] = handler[h].rec]
  /\ Update(u, [Unleased(u, "completed") EXCEPT !.call = handler[h].call])

\* What the transaction writes: the call, and the row whatever its status.
Finalize(h) ==
  LET u == handler[h].upload IN
  /\ ~SourceClash(handler[h].rec)
  /\ calls' = [calls EXCEPT ![handler[h].call] = handler[h].rec]
  /\ Update(u, [Unleased(u, "completed") EXCEPT !.call = handler[h].call])

AudioCommit(h) ==
  /\ At(h, "commit")
  /\ \/ /\ Finalize(h)
        /\ ReplyDone(h)
        /\ UNCHANGED <<audio, lostAck, errors>>
     \/ /\ Finalize(h)             \* committed, but Commit returned an error
        /\ Error
        /\ audio' = audio \ {handler[h].call}
        /\ lostAck' = lostAck \cup {handler[h].call}
        /\ Goto(h, "release")
        /\ UNCHANGED acked
     \/ /\ SourceClash(handler[h].rec)
        /\ audio' = audio \ {handler[h].call}
        /\ Goto(h, "release")
        /\ UNCHANGED <<pending, calls, acked, lostAck, errors>>
  /\ UNCHANGED <<quarantine, lostMark, cleaner, held, crashes>>

\* The deferred release of a request that did not finish.
AudioRelease(h) ==
  /\ At(h, "release")
  /\ Release(handler[h].upload)
  /\ Reply(h)
  /\ UNCHANGED <<calls, audio, quarantine, lostAck, lostMark, cleaner, held, acked, faults>>

\* Mutant of RequestFails: the error paths leave the final file behind.
FailureLeavesFile(h) ==
  /\ Error
  /\ handler[h].pc \in {"body", "quarantine", "store", "confirm", "commit"}
  /\ Goto(h, "release")
  /\ UNCHANGED <<store, cleaner, held, acked, crashes>>

\* A statement, a file operation or the connection fails.
RequestFails(h) ==
  /\ Error
  /\ \/ /\ handler[h].pc \in Unclaimed \cup {"reject", "release"}
        /\ Reply(h)                                  \* the row stays as it is
        /\ UNCHANGED <<audio, quarantine, acked>>
     \/ /\ At(h, "duplicate")                        \* its error is ignored
        /\ ReplyDone(h)
        /\ UNCHANGED <<audio, quarantine>>
     \/ /\ handler[h].pc \in {"body", "quarantine", "store", "confirm", "commit"}
        /\ audio' = IF At(h, "commit") THEN audio \ {handler[h].call} ELSE audio
        /\ quarantine' = IF At(h, "confirm") THEN quarantine \ {handler[h].upload}
                         ELSE quarantine
        /\ Goto(h, "release")
        /\ UNCHANGED acked
  /\ UNCHANGED <<pending, calls, lostAck, lostMark, cleaner, held, crashes>>

-----------------------------------------------------------------------------
(* Time, the periodic cleanup, and a crash of the server process.          *)

\* expires_at passes.
SessionExpires(u) ==
  /\ pending[u].status \in {"pending", "uploading"}
  /\ pending[u].fresh
  /\ Error
  /\ Update(u, [pending[u] EXCEPT !.fresh = FALSE])
  /\ UNCHANGED <<calls, audio, quarantine, lostAck, lostMark, handler, cleaner, held, acked, crashes>>

Owned(u) == \E h \in Handlers : handler[h].upload = u /\ handler[h].pc \in Claimed

\* lease_expires_at passes.
LeaseLapses(u) ==
  /\ pending[u].lease = "live"
  /\ HandlersOutliveLease \/ ~Owned(u)
  /\ Update(u, [pending[u] EXCEPT !.lease = "lapsed"])
  /\ UNCHANGED <<calls, audio, quarantine, lostAck, lostMark, handler, cleaner, held, acked, faults>>

\* LegacyQuarantineGrace passes since the first failure with this digest.
GraceElapses(u) ==
  /\ pending[u].fails > 0
  /\ ~pending[u].aged
  /\ Update(u, [pending[u] EXCEPT !.aged = TRUE])
  /\ UNCHANGED <<calls, audio, quarantine, lostAck, lostMark, handler, cleaner, held, acked, faults>>

\* The rows the cleanup expires and those it recovers; mutants that expire
\* finished rows too and that recover a lease before it lapses.
StaleOrFinished(u) == pending[u].status \notin {"absent", "uploading"} /\ ~pending[u].fresh
Stale(u) == pending[u].status \in {"pending", "failed"} /\ ~pending[u].fresh

Leased(u) == pending[u].status = "uploading" /\ pending[u].fresh
LeaseLost(u) == /\ pending[u].status = "uploading"
                /\ pending[u].lease = "lapsed"
                /\ pending[u].fresh

\* cleanupOperationalState, first statement: expire what nobody uploads.
CleanupExpire ==
  /\ cleaner = "expire"
  /\ pending' = [u \in Uploads |->
       IF Stale(u) THEN Unleased(u, "expired") ELSE pending[u]]
  /\ cleaner' = "recover"
  /\ UNCHANGED <<calls, audio, quarantine, lostAck, lostMark, handler, held, acked, faults>>

\* Second statement: recover lapsed leases of sessions that have not expired.
CleanupRecover ==
  /\ cleaner = "recover"
  /\ pending' = [u \in Uploads |->
       IF LeaseLost(u) THEN Unleased(u, "pending") ELSE pending[u]]
  /\ cleaner' = "expire"
  /\ UNCHANGED <<calls, audio, quarantine, lostAck, lostMark, handler, held, acked, faults>>

\* Requests vanish without their deferred release; tables and files stay.
Crash ==
  /\ crashes < MaxCrashes
  /\ crashes' = crashes + 1
  /\ handler' = [h \in Handlers |-> Idle]
  /\ cleaner' = "expire"
  /\ UNCHANGED <<store, held, acked, errors>>

-----------------------------------------------------------------------------
HandlerStep(h) ==
  \/ CreateLookup(h)
  \/ CreateInsert(h)
  \/ CreateReissue(h)
  \/ AudioExpire(h)
  \/ AudioClaim(h)
  \/ \E d \in Digests : AudioDecodeFails(h, d)
  \/ AudioQuarantine(h)
  \/ AudioConfirmQuarantine(h)
  \/ AudioReject(h)
  \/ AudioDedupe(h)
  \/ AudioMarkDuplicate(h)
  \/ AudioStore(h)
  \/ AudioCommit(h)
  \/ AudioRelease(h)

Cleanup == CleanupExpire \/ CleanupRecover

Next ==
  \/ \E h \in Handlers, r \in Recordings : CreateBegin(h, r) \/ AudioBegin(h, r)
  \/ \E h \in Handlers : HandlerStep(h) \/ RequestFails(h)
  \/ \E u \in Uploads : SessionExpires(u) \/ LeaseLapses(u) \/ GraceElapses(u)
  \/ Cleanup
  \/ Crash

Spec == Init /\ [][Next]_vars

\* Goroutines run, the ticker ticks, time passes ...
ServerFairness ==
  /\ \A h \in Handlers : WF_vars(HandlerStep(h))
  /\ \A u \in Uploads : WF_vars(LeaseLapses(u))
  /\ WF_vars(Cleanup)

\* ... and a sender with a spool retries what was not acknowledged.
SenderFairness ==
  \A r \in Recordings :
    WF_vars(/\ r \notin acked
            /\ \E h \in Handlers : CreateBegin(h, r) \/ AudioBegin(h, r))

FairSpec == Spec /\ ServerFairness /\ SenderFairness

-----------------------------------------------------------------------------
(* Safety.                                                                 *)

HasAudio(c)   == c \in audio \/ c \in lostAck
HasPayload(u) == u \in quarantine \/ u \in lostMark

\* A committed call has its media: failures, crashes and racing requests only
\* ever remove the file of a call that was not committed.  The one exception is
\* a COMMIT that took effect and was reported as an error (receiveAudio removes
\* the file then); those calls are the ones in lostAck.
StoredCallHasAudio == \A c \in Stored : HasAudio(c)

\* A row answered as completed or duplicate names a stored call that equals, within
\* the tolerances, a recording registered under the row's key ("Completed and
\* duplicate responses provide the canonical call identifier"), however many
\* requests worked on the row.  That recording is the row's own unless two
\* recordings share the key: then the row may have the metadata of one and the
\* call of the other.
AnswerIsStored ==
  \A u \in Uploads :
    pending[u].status \in {"completed", "duplicate"} =>
      \E q \in Recordings : /\ SharesKey(pending[u].rec, q)
                            /\ pending[u].call \in Duplicates(q)

\* A recording with a source_call_id is stored once, whatever races.
SourceCallStoredOnce ==
  \A c, d \in Stored : calls[c] = calls[d] /\ calls[c] \in SourceIDs => c = d

\* No recording is finalized twice (v1-release-and-roadmap.md: keys, leases and
\* duplicate checks "prevent double finalization").
NoDoubleFinalization == \A c, d \in Stored : calls[c] = calls[d] => c = d

\* What the server answered as done it has: as a call with its media, or as a
\* quarantined payload.  A sender may delete its own copy on that answer.  It holds
\* for recordings whose key is their own: of two that share one, the second is
\* answered as done once the first is stored.
AcknowledgedIsKept ==
  \A r \in acked :
    OwnKey(r) =>
      \/ \E c \in Duplicates(r) : HasAudio(c)
      \/ \E u \in Uploads : /\ HasPayload(u)
                             /\ pending[u].rec = r
                             /\ pending[u].status = "quarantined"

\* A quarantined row has its payload on disk, unless the database marked the row
\* and reported an error (receiveAudio removes the payload then), or requests of
\* two recordings that share the key work on the row at once.
QuarantinedIsKept ==
  \A u \in Uploads :
    pending[u].status = "quarantined" /\ OwnKey(pending[u].rec) => HasPayload(u)

\* While a request works on a row, the row stays leased to it: no retry, delayed
\* statement or cleanup pass takes it away.  A request at "release" has given the
\* row up, and a request of another recording with the same key would take it.
LeaseHeldWhileWorking ==
  \A h \in Handlers :
    handler[h].pc \in Claimed \ {"release"} /\ OwnKey(handler[h].rec) =>
      /\ pending[handler[h].upload].status = "uploading"
      /\ pending[handler[h].upload].lease = "live"

\* Without a crash, every media file belongs to a call or to the request that is
\* about to commit it: no error path leaves an orphan behind.
OrphanNeedsCrash ==
  crashes = 0 =>
    \A c \in audio \ Stored : \E h \in Handlers : At(h, "commit") /\ handler[h].call = c

\* The finished row of a recording with a key of its own never goes back to work,
\* and keeps the call it was answered with.
FinishedRowIsFinal ==
  [][\A u \in Uploads :
       pending[u].status \in Terminal /\ OwnKey(pending[u].rec) =>
         /\ pending'[u].status = pending[u].status
         /\ pending'[u].call = pending[u].call]_vars

-----------------------------------------------------------------------------
(* Liveness.                                                               *)

\* A sender that keeps trying gets its recording acknowledged: no crash, lapsed
\* lease or expired token leaves a row that refuses every later request.  (Two
\* recordings with one key can take the row from each other for ever.)
RetriedIsAcknowledged == \A r \in Recordings : OwnKey(r) => <>(r \in acked)
=============================================================================
