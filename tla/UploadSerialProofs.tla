------------------------- MODULE UploadSerialProofs -------------------------
(***************************************************************************)
(* What the ingestion protocol guarantees senders that have one request    *)
(* per recording in flight, when a request ends before its lease does.     *)
(***************************************************************************)
EXTENDS UploadRefinement, UploadSessionProofs

\* Two requests never serve the same recording.
OneRequest ==
  \A h, g \in Handlers : handler[h].rec # None /\ handler[h].rec = handler[g].rec => h = g

\* What a request that has read the row, or works on it, may rely on: all of it
\* when no other recording shares its key, and always that its recording is not
\* stored behind its back.
Undisturbed(q) ==
  /\ OwnKey(q.rec) =>
       /\ q.pc \in {"reissue", "expire", "claim"} => pending[q.upload].status \notin Terminal
       /\ q.pc \in Claimed \ {"release"} => /\ pending[q.upload].status = "uploading"
                                            /\ pending[q.upload].lease = "live"
       /\ q.pc = "confirm" => q.upload \in quarantine
  /\ q.pc \in {"store", "commit"} => \A c \in Stored : calls[c] # q.rec

\* The server has r as a call with its media, or as a quarantined payload.
Kept(r) ==
  \/ \E c \in Duplicates(r) : HasAudio(c)
  \/ \E u \in Uploads : /\ HasPayload(u)
                         /\ pending[u].rec = r
                         /\ pending[u].status = "quarantined"

Serial == /\ OneRequest
          /\ \A h \in Handlers : Undisturbed(handler[h])
          /\ QuarantinedIsKept
          /\ NoDoubleFinalization
          /\ \A r \in acked : OwnKey(r) => Kept(r)

\* The empty server satisfies the serial invariant.
LEMMA SerialInit == Init => Serial
  BY DEF Init, Serial, OneRequest, Undisturbed, QuarantinedIsKept, NoDoubleFinalization, HasPayload,
         Stored, Idle, NoRow, Claimed

\* The row a request works on is its recording's, when either has a key of its own.
LEMMA OwnRow ==
  ASSUME Shape, NEW h \in Handlers,
         handler[h].pc \in Claimed \cup {"reissue", "expire", "claim"},
         OwnKey(handler[h].rec) \/ OwnKey(pending[handler[h].upload].rec)
  PROVE  pending[handler[h].upload].rec = handler[h].rec
<1>1. /\ SharesKey(pending[handler[h].upload].rec, handler[h].rec)
      /\ handler[h].rec \in Recordings /\ pending[handler[h].upload].rec \in Recordings
  BY AtRow
<1>2. SharesKey(handler[h].rec, pending[handler[h].upload].rec)
  BY <1>1, SharedKeys
<1> QED BY <1>1, <1>2 DEF SharesKey, OwnKey

\* Its recording has a key of its own exactly when the request's has.
LEMMA OwnRowKey ==
  ASSUME Shape, NEW h \in Handlers,
         handler[h].pc \in Claimed \cup {"reissue", "expire", "claim"}
  PROVE  OwnKey(pending[handler[h].upload].rec) <=> OwnKey(handler[h].rec)
<1>1. CASE OwnKey(handler[h].rec)
  BY <1>1, OwnRow
<1>2. CASE OwnKey(pending[handler[h].upload].rec)
  BY <1>2, OwnRow
<1> QED BY <1>1, <1>2

\* A finished row accounts for its recording.
LEMMA FinishedIsKept ==
  ASSUME Shape, Media, Serial, NEW u \in Uploads, pending[u].status \in Terminal,
         OwnKey(pending[u].rec)
  PROVE  Kept(pending[u].rec)
<1>1. CASE pending[u].status = "quarantined"
  BY <1>1 DEF Serial, QuarantinedIsKept, HasPayload, Kept
<1>2. CASE pending[u].status # "quarantined"
  <2>1. pending[u].call \in Duplicates(pending[u].rec)
    <3>1. PICK q \in Recordings : SharesKey(pending[u].rec, q) /\ pending[u].call \in Duplicates(q)
      BY <1>2 DEF Terminal, Media, AnswerIsStored
    <3> QED BY <3>1, SharedKeys DEF SharesKey, OwnKey
  <2>2. HasAudio(pending[u].call)
    BY <2>1 DEF Duplicates, Media, StoredCallHasAudio
  <2> QED BY <2>1, <2>2 DEF Kept
<1> QED BY <1>1, <1>2

\* A stored duplicate accounts for a recording.
LEMMA DuplicateIsKept ==
  ASSUME Media, NEW r, NEW c \in Duplicates(r)
  PROVE  Kept(r)
<1>1. HasAudio(c)
  BY DEF Duplicates, Media, StoredCallHasAudio
<1> QED BY <1>1 DEF Kept

-----------------------------------------------------------------------------
(* Steps that leave finished rows and stored calls alone.                  *)

FinalsKept ==
  \A u \in Uploads :
    pending[u].status \in Terminal /\ OwnKey(pending[u].rec) =>
      /\ pending'[u].status = pending[u].status
      /\ pending'[u].call = pending[u].call
      /\ pending'[u].rec = pending[u].rec

CallsKept == \A c \in Stored : calls'[c] = calls[c]

\* What was kept stays kept.
LEMMA KeptIsStable ==
  ASSUME Shape, Media', FinalsKept, CallsKept, QuarantinedIsKept', NEW r, Kept(r), OwnKey(r)
  PROVE  Kept(r)'
<1>1. CASE \E c \in Duplicates(r) : HasAudio(c)
  <2>1. PICK c \in Duplicates(r) : HasAudio(c)
    BY <1>1
  <2>2. c \in Duplicates(r)'
    BY <2>1 DEF CallsKept, Duplicates, Stored
  <2>3. HasAudio(c)'
    BY <2>2 DEF Duplicates, Media, StoredCallHasAudio
  <2> QED BY <2>2, <2>3 DEF Kept
<1>2. CASE \E u \in Uploads : /\ HasPayload(u)
                             /\ pending[u].rec = r
                             /\ pending[u].status = "quarantined"
  <2>1. PICK u \in Uploads : pending[u].rec = r /\ pending[u].status = "quarantined"
    BY <1>2
  <2>2. pending'[u].rec = r /\ pending'[u].status = "quarantined"
    BY <2>1 DEF FinalsKept, Terminal
  <2>3. HasPayload(u)'
    BY <2>2 DEF QuarantinedIsKept, HasPayload
  <2> QED BY <2>2, <2>3 DEF Kept
<1> QED BY <1>1, <1>2 DEF Kept

\* No row but the one h works on, or a new one, changes.
OwnRowOnly(h) ==
  \A u \in Uploads : \/ pending'[u] = pending[u]
                     \/ pending[u].status = "absent"
                     \/ u = handler[h].upload /\ handler[h].pc \in
                          Claimed \cup {"reissue", "expire", "claim"}

\* A step of h that touches no row but its own or a new one, stores no call but
\* its recording's, and leaves h in good order, leaves everyone in good order.
LEMMA OwnStep ==
  ASSUME Shape, Media', Serial, NEW h \in Handlers,
         \A g \in Handlers \ {h} : handler'[g] = handler[g],
         \/ handler'[h].rec \in {None, handler[h].rec}
         \/ \A g \in Handlers : handler[g].rec # handler'[h].rec,
         Undisturbed(handler[h])',
         OwnRowOnly(h),
         FinalsKept, CallsKept, QuarantinedIsKept', NoDoubleFinalization',
         \A u \in quarantine : u \in quarantine' \/ handler[h].upload = u,
         handler[h].pc = "confirm" \/ quarantine \subseteq quarantine',
         \A c \in Stored' \ Stored : calls'[c] = handler[h].rec /\ handler[h].rec # None,
         \A r \in acked' : r \in acked \/ (OwnKey(r) => Kept(r)')
  PROVE  Serial' /\ FinalsKept
<1>1. OneRequest'
  BY DEF Serial, OneRequest
<1>2. ASSUME NEW g \in Handlers PROVE Undisturbed(handler[g])'
  <2>1. CASE g = h
    BY <2>1
  <2>2. CASE g # h
    <3>1. handler'[g] = handler[g] /\ Undisturbed(handler[g])
      BY <2>2 DEF Serial
    <3>2. \A c \in Stored' : calls[c] # handler[g].rec => calls'[c] # handler[g].rec
      BY <2>2 DEF Serial, OneRequest, CallsKept, Stored
    <3>3. CASE handler[g].pc \in Claimed \cup {"reissue", "expire", "claim"}
      <4>1. handler[g].upload \in Uploads /\ pending[handler[g].upload].status # "absent"
            /\ handler[g].rec # None
        BY <3>3, AtRow, UploadAssumption
      <4>2. OwnKey(handler[g].rec) /\ handler[g].upload = handler[h].upload =>
              handler[h].pc \notin Claimed \cup {"reissue", "expire", "claim"}
        <5>1. SUFFICES ASSUME OwnKey(handler[g].rec), handler[g].upload = handler[h].upload,
                              handler[h].pc \in Claimed \cup {"reissue", "expire", "claim"}
                       PROVE  FALSE
          OBVIOUS
        <5>2. pending[handler[g].upload].rec = handler[g].rec
          BY <5>1, <3>3, OwnRow
        <5>3. pending[handler[h].upload].rec = handler[h].rec
          BY <5>1, <5>2, OwnRow
        <5> QED BY <2>2, <4>1, <5>1, <5>2, <5>3 DEF Serial, OneRequest
      <4>3. OwnKey(handler[g].rec) => pending'[handler[g].upload] = pending[handler[g].upload]
        BY <4>1, <4>2 DEF OwnRowOnly
      <4>4. OwnKey(handler[g].rec) /\ handler[g].upload \in quarantine =>
              handler[g].upload \in quarantine'
        BY <4>2 DEF Claimed
      <4>5. handler[g].pc \in {"store", "commit"} => \A c \in Stored' : calls'[c] # handler[g].rec
        BY <3>1, <3>2, <4>1 DEF Undisturbed, Stored
      <4> QED BY <3>1, <4>3, <4>4, <4>5 DEF Undisturbed
    <3>4. CASE handler[g].pc \notin Claimed \cup {"reissue", "expire", "claim"}
      BY <3>1, <3>4 DEF Undisturbed, Claimed
    <3> QED BY <3>3, <3>4
  <2> QED BY <2>1, <2>2
<1>3. \A r \in acked' : OwnKey(r) => Kept(r)'
  BY KeptIsStable DEF Serial
<1> QED BY <1>1, <1>2, <1>3 DEF Serial

\* A request that is answered relies on nothing any more.
LEMMA IdleUndisturbed == Undisturbed(Idle)'
  BY DEF Undisturbed, Idle, Claimed

\* The steps of h that store nothing and quarantine nothing: h replies, or goes
\* on in good order, and its row, if it changes, was not finished.
LEMMA QuietStep ==
  ASSUME Shape, Media', Serial, NEW h \in Handlers,
         UNCHANGED <<calls, quarantine, lostMark>>,
         \/ Reply(h)
         \/ \E q : q.rec = handler[h].rec /\ Undisturbed(q)' /\ Become(h, q),
         \/ UNCHANGED pending
         \/ \E u \in Uploads : \E w :
              /\ Update(u, w)
              /\ w.status # "quarantined"
              /\ OwnKey(pending[u].rec) => pending[u].status \notin Terminal
              /\ \/ pending[u].status = "absent"
                 \/ u = handler[h].upload /\ handler[h].pc \in
                      Claimed \cup {"reissue", "expire", "claim"},
         \A r \in acked' : r \in acked \/ (OwnKey(r) => Kept(r)')
  PROVE  Serial' /\ FinalsKept
<1>1. /\ \A g \in Handlers \ {h} : handler'[g] = handler[g]
      /\ handler'[h].rec \in {None, handler[h].rec}
      /\ Undisturbed(handler[h])'
  <2>1. CASE Reply(h)
    <3>1. Idle.rec = None /\ Undisturbed(Idle)'
      BY IdleUndisturbed DEF Idle
    <3>2. handler'[h] = Idle /\ \A g \in Handlers \ {h} : handler'[g] = handler[g]
      BY <2>1, OthersStay DEF Reply
    <3> QED BY <3>1, <3>2 DEF Undisturbed
  <2>2. ASSUME NEW q, q.rec = handler[h].rec, Undisturbed(q)', Become(h, q)
        PROVE  /\ \A g \in Handlers \ {h} : handler'[g] = handler[g]
               /\ handler'[h].rec \in {None, handler[h].rec}
               /\ Undisturbed(handler[h])'
    <3>1. handler'[h] = q /\ \A g \in Handlers \ {h} : handler'[g] = handler[g]
      BY <2>2, OthersStay
    <3> QED BY <2>2, <3>1 DEF Undisturbed
  <2> QED BY <2>1, <2>2
<1>2. FinalsKept /\ QuarantinedIsKept' /\ OwnRowOnly(h)
  <2>1. CASE UNCHANGED pending
    BY <2>1 DEF Serial, FinalsKept, QuarantinedIsKept, HasPayload, OwnRowOnly
  <2>2. ASSUME NEW u \in Uploads, NEW w, Update(u, w), w.status # "quarantined",
               OwnKey(pending[u].rec) => pending[u].status \notin Terminal,
               \/ pending[u].status = "absent"
               \/ u = handler[h].upload /\ handler[h].pc \in
                    Claimed \cup {"reissue", "expire", "claim"}
        PROVE  FinalsKept /\ QuarantinedIsKept' /\ OwnRowOnly(h)
    <3>1. pending'[u] = w /\ \A v \in Uploads \ {u} : pending'[v] = pending[v]
      BY <2>2 DEF Shape, TypeOK, Update
    <3> QED BY <2>2, <3>1 DEF Serial, FinalsKept, QuarantinedIsKept, HasPayload, OwnRowOnly
  <2> QED BY <2>1, <2>2
<1>3. CallsKept /\ NoDoubleFinalization' /\ Stored' = Stored
  BY DEF CallsKept, Serial, NoDoubleFinalization, Stored
<1> QED BY <1>1, <1>2, <1>3, OwnStep DEF OwnRowOnly

\* The actions that accept a request and look its row up.
LEMMA SerialBegin ==
  ASSUME Shape, Media, Media', Serial, SerialSenders,
         NEW h \in Handlers, NEW r \in Recordings, CreateBegin(h, r) \/ AudioBegin(h, r)
  PROVE  Serial' /\ FinalsKept
<1>1. /\ UNCHANGED <<pending, calls, quarantine, lostMark>> /\ At(h, "idle")
      /\ \A g \in Handlers : handler[g].rec # r
  BY DEF CreateBegin, AudioBegin, Answered, store, MaySend, Serving
<1>2. FinalsKept /\ CallsKept /\ QuarantinedIsKept' /\ NoDoubleFinalization' /\ Stored' = Stored
  BY <1>1 DEF FinalsKept, CallsKept, Serial, QuarantinedIsKept, NoDoubleFinalization, HasPayload, Stored
<1>3. \A s \in acked' : s \in acked \/ (OwnKey(s) => Kept(s)')
  <2>1. CASE CreateBegin(h, r)
    BY <2>1, <1>2, DuplicateIsKept, KeptIsStable DEF CreateBegin
  <2>2. CASE AudioBegin(h, r)
    <3>1. \A u \in TokenRows(held[r]) :
            pending[u].status \in Terminal /\ OwnKey(r) => Kept(r)
      BY <2>2, FinishedIsKept DEF AudioBegin, Answered, TokenRows, Shape, RowShape
    <3> QED BY <2>2, <1>2, <3>1, KeptIsStable DEF AudioBegin, Answered
  <2> QED BY <2>1, <2>2
<1>4. CASE UNCHANGED handler
  <2>1. \A g \in Handlers : Undisturbed(handler[g])'
    BY <1>1, <1>4 DEF Serial, Undisturbed, Stored
  <2>2. OneRequest'
    BY <1>4 DEF Serial, OneRequest
  <2>3. \A s \in acked' : OwnKey(s) => Kept(s)'
    BY <1>2, <1>3, KeptIsStable DEF Serial
  <2> QED BY <1>2, <2>1, <2>2, <2>3 DEF Serial
<1>5. ASSUME NEW q, q.rec = r, Undisturbed(q)', Become(h, q)
      PROVE  Serial' /\ FinalsKept
  <2>1. handler'[h] = q /\ \A g \in Handlers \ {h} : handler'[g] = handler[g]
    BY <1>5, OthersStay
  <2>2. Undisturbed(handler[h])'
    BY <1>5, <2>1 DEF Undisturbed
  <2> QED BY <1>1, <1>2, <1>3, <1>5, <2>1, <2>2, OwnStep DEF OwnRowOnly
<1>6. CASE CreateBegin(h, r)
  <2> DEFINE q == [Idle EXCEPT !.pc = "lookup", !.rec = r]
  <2>1. q.rec = r /\ q.pc = "lookup"
    BY DEF Idle
  <2>2. UNCHANGED handler \/ Become(h, q)
    BY <1>6 DEF CreateBegin
  <2> HIDE DEF q
  <2>3. Undisturbed(q)'
    BY <2>1 DEF Undisturbed, Claimed
  <2> QED BY <1>4, <1>5, <2>1, <2>2, <2>3
<1>7. CASE AudioBegin(h, r)
  <2> DEFINE q(u) == [Idle EXCEPT !.pc = IF pending[u].fresh THEN "claim" ELSE "expire",
                                  !.rec = r, !.upload = u]
  <2>1. \A u : q(u).rec = r /\ q(u).upload = u /\ q(u).pc \in {"claim", "expire"}
    BY DEF Idle
  <2>2. \/ UNCHANGED handler
        \/ \E u \in TokenRows(held[r]) : pending[u].status \notin Terminal /\ Become(h, q(u))
    BY <1>7 DEF AudioBegin, Answered
  <2> HIDE DEF q
  <2>3. ASSUME NEW u \in TokenRows(held[r]), pending[u].status \notin Terminal, Become(h, q(u))
        PROVE  Serial' /\ FinalsKept
    <3>1. PICK x : x = q(u)
      OBVIOUS
    <3>2. x.rec = r /\ Undisturbed(x)'
      BY <1>1, <2>1, <2>3, <3>1 DEF Undisturbed, Claimed
    <3> QED BY <1>5, <2>3, <3>1, <3>2
  <2> QED BY <1>4, <2>2, <2>3
<1> QED BY <1>6, <1>7

\* What a request that goes on to p must find there.
LEMMA GotoUndisturbed ==
  ASSUME Shape, NEW h \in Handlers, NEW p \in Claimed, Goto(h, p),
         p # "release" /\ OwnKey(handler[h].rec) =>
           /\ pending'[handler[h].upload].status = "uploading"
           /\ pending'[handler[h].upload].lease = "live",
         p \in {"store", "commit"} => \A c \in Stored' : calls'[c] # handler[h].rec,
         p = "confirm" /\ OwnKey(handler[h].rec) => handler[h].upload \in quarantine'
  PROVE  \E q : q.rec = handler[h].rec /\ Undisturbed(q)' /\ Become(h, q)
<1>1. PICK q : q = [handler[h] EXCEPT !.pc = p]
  OBVIOUS
<1>2. q.rec = handler[h].rec /\ q.upload = handler[h].upload /\ q.pc = p
  BY <1>1 DEF Shape, TypeOK, Request
<1>3. Undisturbed(q)'
  BY <1>2 DEF Undisturbed, Claimed
<1> QED BY <1>1, <1>2, <1>3 DEF Goto

\* The two statements of createUpload that issue a token.
LEMMA SerialCreate ==
  ASSUME Shape, Media, Media', Serial, NEW h \in Handlers,
         CreateLookup(h) \/ CreateInsert(h) \/ CreateReissue(h)
  PROVE  Serial' /\ FinalsKept
<1>1. CASE CreateLookup(h)
  <2> DEFINE r == handler[h].rec
  <2>1. UNCHANGED <<pending, calls, quarantine, lostMark>> /\ handler[h] \in Request
        /\ handler[h].pc = "lookup"
    BY <1>1 DEF CreateLookup, Answered, InProgress, At, store, Shape, TypeOK
  <2>2. \/ Reply(h)
        \/ \E q : q.rec = r /\ Undisturbed(q)' /\ Become(h, q)
    <3>1. CASE Goto(h, "insert")
      <4>1. PICK q : q = [handler[h] EXCEPT !.pc = "insert"]
        OBVIOUS
      <4>2. q.rec = r /\ Undisturbed(q)'
        BY <2>1, <4>1 DEF Request, Undisturbed, Claimed
      <4> QED BY <3>1, <4>1, <4>2 DEF Goto
    <3>2. ASSUME NEW u \in KeyRows(r), pending[u].status \notin Terminal,
                 Become(h, [handler[h] EXCEPT !.pc = "reissue", !.upload = u])
          PROVE  \E q : q.rec = r /\ Undisturbed(q)' /\ Become(h, q)
      <4>1. PICK q : q = [handler[h] EXCEPT !.pc = "reissue", !.upload = u]
        OBVIOUS
      <4>2. q.rec = r /\ q.upload = u /\ q.pc = "reissue"
        BY <2>1, <4>1 DEF Request
      <4>3. Undisturbed(q)'
        BY <2>1, <3>2, <4>2 DEF Undisturbed, Claimed
      <4> QED BY <3>2, <4>1, <4>2, <4>3
    <3> QED BY <1>1, <3>1, <3>2 DEF CreateLookup, Answered, InProgress, ReplyDone
  <2>3. \A s \in acked' : s \in acked \/ (OwnKey(s) => Kept(s)')
    <3>1. \A u \in KeyRows(r) : pending[u].status \in Terminal /\ OwnKey(r) => Kept(r)
      <4> SUFFICES ASSUME NEW u \in KeyRows(r), pending[u].status \in Terminal, OwnKey(r)
                   PROVE  Kept(r)
        OBVIOUS
      <4>1. pending[u].rec = r /\ u \in Uploads
        BY UploadAssumption DEF KeyRows, OwnKey
      <4> QED BY <4>1, FinishedIsKept
    <3>2. FinalsKept /\ CallsKept /\ QuarantinedIsKept'
      BY <2>1 DEF FinalsKept, CallsKept, Serial, QuarantinedIsKept, HasPayload
    <3>3. \A s \in acked' : s \in acked \/ (OwnKey(s) => Kept(s))
      <4>1. acked' = acked \/ (acked' = acked \cup {r}
                               /\ \E u \in KeyRows(r) : pending[u].status \in Terminal)
        BY <1>1 DEF CreateLookup, Answered, InProgress, ReplyDone
      <4> QED BY <3>1, <4>1
    <3> QED BY <3>2, <3>3, KeptIsStable
  <2> QED BY <2>1, <2>2, <2>3, QuietStep
<1>2. CASE CreateInsert(h)
  <2>1. /\ UNCHANGED <<calls, quarantine, lostMark, acked>> /\ Reply(h)
    BY <1>2 DEF CreateInsert, ReplyToken
  <2>2. CASE UNCHANGED pending
    BY <2>1, <2>2, QuietStep
  <2>3. CASE ~UNCHANGED pending
    <3>1. PICK w : w = [NoRow EXCEPT !.status = "pending", !.rec = handler[h].rec,
                                     !.fresh = TRUE, !.token = Draw(FreshTokens)]
      OBVIOUS
    <3>2. w.status = "pending"
      BY <3>1 DEF NoRow
    <3>3. FreeUploads # {} /\ Update(Draw(FreeUploads), w)
      BY <1>2, <2>3, <3>1 DEF CreateInsert
    <3>4. /\ Draw(FreeUploads) \in Uploads
          /\ pending[Draw(FreeUploads)].status \notin Terminal
          /\ pending[Draw(FreeUploads)].status = "absent"
      BY <3>3, FreeUpload DEF Terminal
    <3> QED BY <2>1, <3>2, <3>3, <3>4, QuietStep
  <2> QED BY <2>2, <2>3
<1>3. CASE CreateReissue(h)
  <2> DEFINE u == handler[h].upload
  <2>1. /\ UNCHANGED <<calls, quarantine, lostMark, acked>> /\ Reply(h) /\ handler[h].pc = "reissue"
    BY <1>3 DEF CreateReissue, ReplyToken, At
  <2>2. u \in Uploads /\ (OwnKey(pending[u].rec) => pending[u].status \notin Terminal)
    BY <2>1, AtRow, OwnRow DEF Serial, Undisturbed
  <2>3. PICK w : w = [Unleased(u, "pending") EXCEPT !.rec = handler[h].rec, !.fresh = TRUE,
                                                    !.token = Draw(FreshTokens)]
    OBVIOUS
  <2>4. Unleased(u, "pending") \in Row /\ Unleased(u, "pending").status = "pending"
    BY <2>2, UnleasedRow DEF Statuses
  <2>5. w.status = "pending"
    BY <2>3, <2>4 DEF Row
  <2>6. Update(u, w)
    BY <1>3, <2>3 DEF CreateReissue
  <2> HIDE DEF u
  <2> QED BY <2>1, <2>2, <2>5, <2>6, QuietStep DEF u
<1> QED BY <1>1, <1>2, <1>3

\* A request's row when only its status and lease change.
LEMMA QuietUnleased ==
  ASSUME Shape, Media', Serial, NEW h \in Handlers,
         handler[h].pc \in Claimed \cup {"reissue", "expire", "claim"},
         UNCHANGED <<calls, quarantine, lostMark, acked>>,
         \/ Reply(h)
         \/ \E q : q.rec = handler[h].rec /\ Undisturbed(q)' /\ Become(h, q),
         NEW s \in Statuses \ {"quarantined"},
         \/ UNCHANGED pending
         \/ /\ OwnKey(pending[handler[h].upload].rec) =>
                 pending[handler[h].upload].status \notin Terminal
            /\ Update(handler[h].upload, Unleased(handler[h].upload, s))
  PROVE  Serial' /\ FinalsKept
<1>1. handler[h].upload \in Uploads
  BY AtRow
<1>2. CASE UNCHANGED pending
  BY <1>2, QuietStep
<1>3. CASE ~UNCHANGED pending
  <2>1. PICK w : w = Unleased(handler[h].upload, s)
    OBVIOUS
  <2>2. w.status # "quarantined"
    BY <1>1, <2>1, UnleasedRow
  <2>3. /\ Update(handler[h].upload, w)
        /\ OwnKey(pending[handler[h].upload].rec) =>
             pending[handler[h].upload].status \notin Terminal
    BY <1>3, <2>1
  <2> QED BY <1>1, <2>2, <2>3, QuietStep
<1> QED BY <1>2, <1>3

\* The statements of receiveAudio that answer nobody.
LEMMA SerialReceive ==
  ASSUME Shape, Media, Media', Serial, NEW h \in Handlers,
         \/ AudioExpire(h) \/ AudioClaim(h)
         \/ (\E d \in Digests : AudioDecodeFails(h, d)) \/ AudioReject(h) \/ AudioRelease(h)
         \/ AudioDedupe(h) \/ AudioStore(h)
  PROVE  Serial' /\ FinalsKept
<1> DEFINE u == handler[h].upload
<1>1. CASE AudioExpire(h)
  <2>1. handler[h].pc = "expire" /\ Reply(h) /\ UNCHANGED <<calls, quarantine, lostMark, acked>>
    BY <1>1 DEF AudioExpire, At
  <2>2. OwnKey(pending[u].rec) => pending[u].status \notin Terminal
    BY <2>1, OwnRow DEF Serial, Undisturbed
  <2>3. UNCHANGED pending \/ Update(u, Unleased(u, "expired"))
    BY <1>1 DEF AudioExpire
  <2> QED BY <2>1, <2>2, <2>3, QuietUnleased DEF Statuses
<1>2. CASE AudioClaim(h)
  <2>1. handler[h].pc = "claim" /\ UNCHANGED <<calls, quarantine, lostMark, acked>>
        /\ u \in Uploads /\ pending[u] \in Row
    BY <1>2, AtRow DEF AudioClaim, At
  <2>2. CASE Reply(h) /\ UNCHANGED pending
    BY <2>1, <2>2, QuietStep
  <2>3. CASE Claim(u)
    <3>1. PICK w : w = [pending[u] EXCEPT !.status = "uploading", !.lease = "live"]
      OBVIOUS
    <3>2. w.status = "uploading" /\ w.lease = "live"
      BY <2>1, <3>1 DEF Row
    <3>3. Update(u, w) /\ pending[u].status \notin Terminal
      BY <2>3, <3>1 DEF Claim, Claimable, Terminal
    <3>4. pending'[u] = w
      BY <2>1, <3>3 DEF Update, Shape, TypeOK
    <3>5. Reply(h) \/ Goto(h, "body")
      BY <1>2 DEF AudioClaim
    <3>6. \/ Reply(h)
          \/ \E q : q.rec = handler[h].rec /\ Undisturbed(q)' /\ Become(h, q)
      BY <3>2, <3>4, <3>5, GotoUndisturbed DEF Claimed
    <3> QED BY <2>1, <3>2, <3>3, <3>6, QuietStep
  <2> QED BY <1>2, <2>2, <2>3 DEF AudioClaim
<1>3. ASSUME NEW d \in Digests, AudioDecodeFails(h, d) PROVE Serial' /\ FinalsKept
  <2>1. handler[h].pc = "body" /\ UNCHANGED <<calls, quarantine, lostMark, acked>>
        /\ u \in Uploads /\ pending[u] \in Row
    BY <1>3, AtRow DEF AudioDecodeFails, At, Claimed
  <2>2. OwnKey(handler[h].rec) => pending[u].status = "uploading" /\ pending[u].lease = "live"
    BY <2>1 DEF Serial, Undisturbed, Claimed
  <2>9. CASE pending[u].status # "uploading"
    <3>1. Goto(h, "release") /\ UNCHANGED pending
      BY <1>3, <2>9 DEF AudioDecodeFails
    <3>2. \E q : q.rec = handler[h].rec /\ Undisturbed(q)' /\ Become(h, q)
      BY <3>1, GotoUndisturbed DEF Claimed
    <3> QED BY <2>1, <3>1, <3>2, QuietStep
  <2>10. CASE pending[u].status = "uploading"
    <3>1. \E w : Update(u, w) /\ w.status = "uploading" /\ w.lease = pending[u].lease
      <4>1. \E n, a : Update(u, [pending[u] EXCEPT !.fails = n, !.digest = d, !.aged = a])
        BY <1>3, <2>10 DEF AudioDecodeFails
      <4>2. PICK n, a : Update(u, [pending[u] EXCEPT !.fails = n, !.digest = d, !.aged = a])
        BY <4>1
      <4>3. PICK w : w = [pending[u] EXCEPT !.fails = n, !.digest = d, !.aged = a]
        OBVIOUS
      <4>4. w.status = pending[u].status /\ w.lease = pending[u].lease
        BY <2>1, <4>3 DEF Row
      <4> QED BY <2>10, <4>2, <4>3, <4>4
    <3>2. PICK w : Update(u, w) /\ w.status = "uploading" /\ w.lease = pending[u].lease
      BY <3>1
    <3>3. pending'[u] = w
      BY <2>1, <3>2 DEF Update, Shape, TypeOK
    <3>4. Goto(h, "quarantine") \/ Goto(h, "reject")
      BY <1>3, <2>10 DEF AudioDecodeFails
    <3>5. \E q : q.rec = handler[h].rec /\ Undisturbed(q)' /\ Become(h, q)
      BY <2>2, <3>2, <3>3, <3>4, GotoUndisturbed DEF Claimed
    <3>6. pending[u].status \notin Terminal
      BY <2>10 DEF Terminal
    <3> QED BY <2>1, <3>2, <3>5, <3>6, QuietStep DEF Claimed
  <2> QED BY <2>9, <2>10
<1>4. CASE AudioReject(h) \/ AudioRelease(h)
  <2>1. handler[h].pc \in {"reject", "release"} /\ Reply(h)
        /\ UNCHANGED <<calls, quarantine, lostMark, acked>>
    BY <1>4 DEF AudioReject, AudioRelease, At
  <2>2. \/ UNCHANGED pending
        \/ pending[u].status = "uploading" /\ Update(u, Unleased(u, "pending"))
    BY <1>4 DEF AudioReject, AudioRelease, Release
  <2> QED BY <2>1, <2>2, QuietUnleased DEF Statuses, Claimed, Terminal
<1>5. CASE AudioDedupe(h)
  <2>1. handler[h].pc = "body" /\ UNCHANGED <<pending, calls, quarantine, lostMark, acked>>
        /\ u \in Uploads /\ handler[h] \in Request /\ handler[h].rec \in Recordings
    BY <1>5, AtRow DEF AudioDedupe, At, Claimed, store
  <2>2. OwnKey(handler[h].rec) => pending[u].status = "uploading" /\ pending[u].lease = "live"
    BY <2>1 DEF Serial, Undisturbed, Claimed
  <2>3. CASE Goto(h, "store") /\ Duplicates(handler[h].rec) = {}
    <3>1. \A c \in Stored' : calls'[c] # handler[h].rec
      BY <2>1, <2>3, UploadAssumption DEF Duplicates, Stored
    <3>2. \E q : q.rec = handler[h].rec /\ Undisturbed(q)' /\ Become(h, q)
      BY <2>1, <2>2, <2>3, <3>1, GotoUndisturbed DEF Claimed
    <3> QED BY <2>1, <3>2, QuietStep
  <2>4. ASSUME NEW c, Become(h, [handler[h] EXCEPT !.pc = "duplicate", !.call = c])
        PROVE  Serial' /\ FinalsKept
    <3>1. PICK q : q = [handler[h] EXCEPT !.pc = "duplicate", !.call = c]
      OBVIOUS
    <3>2. q.rec = handler[h].rec /\ q.upload = u /\ q.pc = "duplicate"
      BY <2>1, <3>1 DEF Request
    <3>3. Undisturbed(q)'
      BY <2>1, <2>2, <3>2 DEF Undisturbed
    <3> QED BY <2>1, <2>4, <3>1, <3>2, <3>3, QuietStep
  <2> QED BY <1>5, <2>3, <2>4 DEF AudioDedupe
<1>6. CASE AudioStore(h)
  <2>1. handler[h].pc = "store" /\ UNCHANGED <<pending, calls, quarantine, lostMark, acked>>
        /\ u \in Uploads /\ handler[h] \in Request
    BY <1>6, AtRow DEF AudioStore, At, Claimed
  <2>2. PICK q : q = [handler[h] EXCEPT !.pc = "commit", !.call = Draw(FreshCalls)]
    OBVIOUS
  <2>3. q.rec = handler[h].rec /\ q.upload = u /\ q.pc = "commit"
    BY <2>1, <2>2 DEF Request
  <2>4. Undisturbed(q)'
    BY <2>1, <2>3 DEF Serial, Undisturbed, Claimed, Stored
  <2>5. Become(h, q)
    BY <1>6, <2>2 DEF AudioStore
  <2> QED BY <2>1, <2>3, <2>4, <2>5, QuietStep
<1> QED BY <1>1, <1>2, <1>3, <1>4, <1>5, <1>6

\* The steps that give a recording its final answer.
LEMMA SerialAnswer ==
  ASSUME Shape, Media, Media', Serial, NEW h \in Handlers,
         AudioMarkDuplicate(h) \/ AudioQuarantine(h) \/ AudioConfirmQuarantine(h)
  PROVE  Serial' /\ FinalsKept
<1> DEFINE u == handler[h].upload
           r == handler[h].rec
<1>0. /\ handler[h].pc \in Claimed \ {"release"} /\ u \in Uploads /\ pending[u] \in Row
      /\ pending[u].rec \in Recordings /\ UNCHANGED calls
  BY AtRow DEF AudioMarkDuplicate, AudioQuarantine, AudioConfirmQuarantine, At, Claimed
<1>1. OwnKey(pending[u].rec) \/ OwnKey(r) =>
        /\ pending[u].rec = r /\ OwnKey(r)
        /\ pending[u].status = "uploading" /\ pending[u].lease = "live"
        /\ pending[u].status \notin Terminal
  BY <1>0, OwnRow, OwnRowKey DEF Serial, Undisturbed, Terminal
<1>2. CASE AudioMarkDuplicate(h)
  <2>1. PICK w : w = [Unleased(u, "duplicate") EXCEPT !.call = handler[h].call]
    OBVIOUS
  <2>2. w.status = "duplicate" /\ Update(u, w) /\ UNCHANGED <<quarantine, lostMark>> /\ Reply(h)
        /\ acked' = acked \cup {r}
    BY <1>0, <1>2, <2>1 DEF AudioMarkDuplicate, Unleased, Row, ReplyDone
  <2>3. pending'[u] = w /\ \A v \in Uploads \ {u} : pending'[v] = pending[v]
    BY <1>0, <2>2 DEF Update, Shape, TypeOK
  <2>4. FinalsKept /\ CallsKept /\ QuarantinedIsKept'
    BY <1>0, <1>1, <2>2, <2>3 DEF FinalsKept, CallsKept, Serial, QuarantinedIsKept, HasPayload
  <2>5. Kept(r)
    BY <1>2, DuplicateIsKept DEF AudioMarkDuplicate, At, Media, DuplicateReady
  <2>6. \A s \in acked' : s \in acked \/ (OwnKey(s) => Kept(s)')
    BY <2>2, <2>4, <2>5, KeptIsStable
  <2>7. w.status # "quarantined" /\ (OwnKey(pending[u].rec) => pending[u].status \notin Terminal)
    BY <1>1, <2>2
  <2> HIDE DEF u
  <2> QED BY <1>0, <2>2, <2>6, <2>7, QuietStep DEF u
<1>3. CASE AudioQuarantine(h)
  <2>1. UNCHANGED <<pending, lostMark, acked>> /\ quarantine' = quarantine \cup {u}
        /\ Goto(h, "confirm")
    BY <1>3 DEF AudioQuarantine
  <2>2. PICK q : q.rec = r /\ Undisturbed(q)' /\ Become(h, q)
    BY <1>1, <2>1, GotoUndisturbed DEF Claimed
  <2>3. handler'[h] = q /\ \A g \in Handlers \ {h} : handler'[g] = handler[g]
    BY <2>2, OthersStay
  <2>4. Undisturbed(handler[h])'
    BY <2>2, <2>3 DEF Undisturbed
  <2>5. FinalsKept /\ CallsKept /\ QuarantinedIsKept' /\ NoDoubleFinalization' /\ Stored' = Stored
    BY <1>0, <2>1 DEF FinalsKept, CallsKept, Serial, QuarantinedIsKept, NoDoubleFinalization, HasPayload,
                      Stored
  <2> QED BY <2>1, <2>2, <2>3, <2>4, <2>5, OwnStep DEF OwnRowOnly
<1>4. CASE AudioConfirmQuarantine(h)
  <2>0. handler[h].pc = "confirm" /\ (OwnKey(r) => u \in quarantine)
    BY <1>4 DEF AudioConfirmQuarantine, Serial, Undisturbed, At
  <2>1. \/ /\ Update(u, Unleased(u, "quarantined"))
           /\ Reply(h) /\ acked' = acked \cup {r} /\ UNCHANGED <<quarantine, lostMark>>
        \/ /\ Update(u, Unleased(u, "quarantined"))
           /\ Goto(h, "release") /\ UNCHANGED acked
           /\ quarantine' = quarantine \ {u} /\ lostMark' = lostMark \cup {u}
        \/ /\ pending[u].status # "uploading" /\ UNCHANGED <<pending, lostMark, acked>>
           /\ Goto(h, "release") /\ quarantine' = quarantine \ {u}
    BY <1>4 DEF AudioConfirmQuarantine, ReplyDone
  <2>2. /\ \A v \in Uploads \ {u} : pending'[v] = pending[v]
        /\ pending'[u].rec = pending[u].rec
        /\ pending'[u].status = "quarantined" \/ (UNCHANGED pending /\ pending[u].status # "uploading")
    BY <1>0, <2>1, UnleasedRow DEF Update, Shape, TypeOK, Statuses, Terminal
  <2>3. \A v \in Uploads : \/ HasPayload(v) => HasPayload(v)'
                           \/ v = u /\ ~OwnKey(r)
    BY <1>1, <2>1 DEF HasPayload
  <2>4. ASSUME NEW v \in Uploads, v = u, OwnKey(r)
        PROVE  pending'[v].status = "quarantined" /\ pending'[v].rec = r /\ HasPayload(v)'
    BY <1>1, <2>0, <2>1, <2>2, <2>4 DEF HasPayload
  <2>5. ~OwnKey(r) => ~OwnKey(pending[u].rec) /\ ~OwnKey(pending'[u].rec)
    BY <1>1, <2>2
  <2>6. FinalsKept /\ OwnRowOnly(h)
    BY <1>0, <1>1, <2>2 DEF FinalsKept, OwnRowOnly
  <2>7. CallsKept /\ NoDoubleFinalization' /\ Stored' = Stored
    BY <1>0 DEF CallsKept, Serial, NoDoubleFinalization, Stored
  <2>8. QuarantinedIsKept'
    <3> SUFFICES ASSUME NEW v \in Uploads, pending'[v].status = "quarantined", OwnKey(pending'[v].rec)
                 PROVE  HasPayload(v)'
      BY DEF QuarantinedIsKept
    <3>1. CASE v = u
      BY <3>1, <2>4, <2>5, <1>0
    <3>2. CASE v # u
      BY <3>2, <2>2, <2>3 DEF Serial, QuarantinedIsKept
    <3> QED BY <3>1, <3>2
  <2>9. \A s \in acked' : s \in acked \/ (OwnKey(s) => Kept(s)')
    <3>1. ASSUME NEW s, s = r, OwnKey(s) PROVE Kept(s)'
      <4>1. PICK v \in Uploads : v = u
        BY <1>0
      <4>2. pending'[v].status = "quarantined" /\ pending'[v].rec = s /\ HasPayload(v)'
        BY <2>4, <3>1, <4>1
      <4> QED BY <4>2 DEF Kept
    <3> QED BY <2>1, <3>1
  <2>10. /\ handler'[h].pc \in {"idle", "release"} /\ handler'[h].rec \in {None, r}
         /\ \A g \in Handlers \ {h} : handler'[g] = handler[g]
    BY <2>1, OthersStay DEF Reply, Goto, Idle, Shape, TypeOK, Request
  <2>11. Undisturbed(handler[h])'
    BY <2>10 DEF Undisturbed, Claimed
  <2>12. \A v \in quarantine : v \in quarantine' \/ handler[h].upload = v
    BY <2>1
  <2> HIDE DEF u, r
  <2> QED BY <2>0, <2>6, <2>7, <2>8, <2>9, <2>10, <2>11, <2>12, OwnStep DEF u, r
<1> QED BY <1>2, <1>3, <1>4

\* The transaction, its failures included.
LEMMA SerialCommit ==
  ASSUME Shape, Media, Media', Serial, NEW h \in Handlers,
         AudioCommit(h) \/ RequestFails(h)
  PROVE  Serial' /\ FinalsKept
<1> DEFINE u == handler[h].upload
           r == handler[h].rec
<1>1. CASE AudioCommit(h) /\ Finalize(h)
  <2>0. /\ handler[h].pc = "commit" /\ u \in Uploads /\ pending[u] \in Row
        /\ r \in Recordings /\ r # None /\ UNCHANGED <<quarantine, lostMark>>
        /\ handler[h].call \in Calls \ Stored
    BY <1>1, AtRow, UploadAssumption DEF AudioCommit, At, Claimed, Media, CommitReady
  <2>1. /\ OwnKey(pending[u].rec) => pending[u].status \notin Terminal
        /\ \A c \in Stored : calls[c] # r
    BY <2>0, OwnRowKey DEF Serial, Undisturbed, Terminal, Claimed
  <2>2. PICK w : w = [Unleased(u, "completed") EXCEPT !.call = handler[h].call]
    OBVIOUS
  <2>3. w.status = "completed" /\ Update(u, w)
    BY <1>1, <2>0, <2>2 DEF Finalize, Unleased, Row
  <2>4. pending'[u] = w /\ \A v \in Uploads \ {u} : pending'[v] = pending[v]
    BY <2>0, <2>3 DEF Update, Shape, TypeOK
  <2>5. /\ calls'[handler[h].call] = r
        /\ \A d \in Calls \ {handler[h].call} : calls'[d] = calls[d]
    BY <1>1, <2>0 DEF Finalize, Shape, TypeOK
  <2>6. CallsKept /\ Stored' = Stored \cup {handler[h].call}
    BY <2>0, <2>5 DEF CallsKept, Stored
  <2>7. NoDoubleFinalization'
    BY <2>0, <2>1, <2>5, <2>6 DEF Serial, NoDoubleFinalization, CallsKept
  <2>8. FinalsKept /\ QuarantinedIsKept'
    BY <2>0, <2>1, <2>3, <2>4 DEF FinalsKept, Serial, QuarantinedIsKept, HasPayload
  <2>9. ASSUME NEW s, s = r PROVE Kept(s)'
    <3>1. PICK c : c = handler[h].call
      OBVIOUS
    <3>2. c \in Stored' /\ calls'[c] = s /\ <<s, s>> \in Matches
      BY <2>0, <2>5, <2>6, <2>9, <3>1, UploadAssumption
    <3>3. HasAudio(c)'
      BY <3>2 DEF Media, StoredCallHasAudio
    <3> QED BY <3>2, <3>3 DEF Kept, Duplicates
  <2>10. \A s \in acked' : s \in acked \/ (OwnKey(s) => Kept(s)')
    BY <1>1, <2>9 DEF AudioCommit, ReplyDone
  <2>11. Reply(h) \/ Goto(h, "release")
    BY <1>1 DEF AudioCommit, ReplyDone
  <2>12. /\ \A g \in Handlers \ {h} : handler'[g] = handler[g]
         /\ handler'[h].rec \in {None, r}
         /\ handler'[h].pc \in {"idle", "release"}
    BY <2>11, OthersStay DEF Reply, Goto, Idle, Shape, TypeOK, Request
  <2>13. Undisturbed(handler[h])'
    BY <2>12 DEF Undisturbed, Claimed
  <2> QED BY <2>0, <2>4, <2>6, <2>5, <2>7, <2>8, <2>10, <2>12, <2>13, OwnStep DEF Claimed, OwnRowOnly
<1>2. CASE AudioCommit(h) /\ ~Finalize(h)
  <2>1. /\ Goto(h, "release") /\ UNCHANGED <<pending, calls, quarantine, lostMark, acked>>
    BY <1>2 DEF AudioCommit
  <2>2. \E q : q.rec = r /\ Undisturbed(q)' /\ Become(h, q)
    BY <2>1, GotoUndisturbed DEF Claimed
  <2> QED BY <2>1, <2>2, QuietStep
<1>3. CASE RequestFails(h) /\ Reply(h) /\ UNCHANGED <<quarantine, lostMark>>
  <2>1. UNCHANGED <<pending, calls>>
    BY <1>3 DEF RequestFails
  <2>2. FinalsKept /\ CallsKept /\ QuarantinedIsKept'
    BY <1>3, <2>1 DEF FinalsKept, CallsKept, Serial, QuarantinedIsKept, HasPayload
  <2>3. At(h, "duplicate") => Kept(r)
    BY DuplicateIsKept DEF Media, DuplicateReady
  <2>4. \A s \in acked' : s \in acked \/ (At(h, "duplicate") /\ s = r)
    BY <1>3 DEF RequestFails, ReplyDone
  <2>5. \A s \in acked' : s \in acked \/ (OwnKey(s) => Kept(s)')
    BY <2>2, <2>3, <2>4, KeptIsStable
  <2> QED BY <1>3, <2>1, <2>5, QuietStep
<1>4. CASE RequestFails(h) /\ Goto(h, "release")
           /\ handler[h].pc \in {"body", "quarantine", "store", "confirm", "commit"}
  <2>1. /\ UNCHANGED <<pending, calls, lostMark, acked>>
        /\ quarantine' = IF At(h, "confirm") THEN quarantine \ {u} ELSE quarantine
    BY <1>4 DEF RequestFails, Unclaimed, At
  <2>2. pending[u].status = "quarantined" => ~OwnKey(pending[u].rec)
    BY <1>4, OwnRowKey DEF Serial, Undisturbed, Claimed
  <2>3. PICK q : q.rec = r /\ Undisturbed(q)' /\ Become(h, q)
    BY <1>4, GotoUndisturbed DEF Claimed
  <2>4. handler'[h] = q /\ \A g \in Handlers \ {h} : handler'[g] = handler[g]
    BY <2>3, OthersStay
  <2>5. Undisturbed(handler[h])'
    BY <2>3, <2>4 DEF Undisturbed
  <2>6. FinalsKept /\ CallsKept /\ QuarantinedIsKept' /\ NoDoubleFinalization' /\ Stored' = Stored
    BY <2>1, <2>2 DEF FinalsKept, CallsKept, Serial, QuarantinedIsKept, NoDoubleFinalization, HasPayload,
                      Stored
  <2> QED BY <2>1, <2>3, <2>4, <2>5, <2>6, OwnStep DEF At, OwnRowOnly
<1>5. RequestFails(h) =>
        \/ Reply(h) /\ UNCHANGED <<quarantine, lostMark>>
        \/ Goto(h, "release")
           /\ handler[h].pc \in {"body", "quarantine", "store", "confirm", "commit"}
  BY DEF RequestFails, ReplyDone
<1> QED BY <1>1, <1>2, <1>3, <1>4, <1>5

\* Time and the cleanup pass leave alone what a request works on; a crash ends
\* every request.
LEMMA SerialTime ==
  ASSUME Shape, Media', Serial, ~HandlersOutliveLease,
         \/ \E u \in Uploads : SessionExpires(u) \/ LeaseLapses(u) \/ GraceElapses(u)
         \/ Cleanup
         \/ Crash
  PROVE  Serial' /\ FinalsKept
<1>0. UNCHANGED <<calls, quarantine, lostMark, acked>>
  BY DEF SessionExpires, LeaseLapses, GraceElapses, Cleanup, CleanupExpire, CleanupRecover,
         Crash, store, faults
<1>1. CASE UNCHANGED handler
           /\ (\A u \in Uploads :
                 /\ pending'[u].call = pending[u].call
                 /\ pending'[u].rec = pending[u].rec
                 /\ pending[u].status \in Terminal => pending'[u].status = pending[u].status
                 /\ pending'[u].status \in Terminal => pending[u].status = pending'[u].status
                 /\ Owned(u) /\ pending[u].status = "uploading" /\ pending[u].lease = "live" =>
                      pending'[u].status = "uploading" /\ pending'[u].lease = "live")
  <2>1. FinalsKept
    BY <1>1 DEF FinalsKept
  <2>2. CallsKept /\ NoDoubleFinalization' /\ OneRequest'
    BY <1>0, <1>1 DEF CallsKept, Serial, NoDoubleFinalization, OneRequest, Stored
  <2>3. QuarantinedIsKept'
    BY <1>0, <1>1 DEF Serial, QuarantinedIsKept, HasPayload, Terminal
  <2>4. ASSUME NEW h \in Handlers PROVE Undisturbed(handler[h])'
    <3>1. Undisturbed(handler[h]) /\ handler'[h] = handler[h]
      BY <1>1 DEF Serial
    <3>2. CASE handler[h].pc \in Claimed \cup {"reissue", "expire", "claim"}
      <4>1. handler[h].upload \in Uploads
        BY <3>2, AtRow
      <4>2. handler[h].pc \in Claimed => Owned(handler[h].upload)
        BY DEF Owned
      <4> QED BY <1>0, <1>1, <3>1, <4>1, <4>2 DEF Undisturbed, Claimed, Stored
    <3>3. CASE handler[h].pc \notin Claimed \cup {"reissue", "expire", "claim"}
      BY <3>1, <3>3 DEF Undisturbed, Claimed
    <3> QED BY <3>2, <3>3
  <2>5. \A r \in acked' : OwnKey(r) => Kept(r)'
    BY <1>0, <2>1, <2>2, <2>3, KeptIsStable DEF Serial
  <2> QED BY <2>1, <2>2, <2>3, <2>4, <2>5 DEF Serial
<1>2. ASSUME NEW u \in Uploads, SessionExpires(u) \/ LeaseLapses(u) \/ GraceElapses(u)
      PROVE  Serial' /\ FinalsKept
  <2>1. /\ UNCHANGED handler /\ pending[u] \in Row
        /\ \A v \in Uploads \ {u} : pending'[v] = pending[v]
    BY <1>2 DEF SessionExpires, LeaseLapses, GraceElapses, Update, Shape, TypeOK
  <2>2. /\ pending'[u].call = pending[u].call
        /\ pending'[u].rec = pending[u].rec
        /\ pending'[u].status = pending[u].status
        /\ Owned(u) /\ pending[u].lease = "live" => pending'[u].lease = "live"
    BY <1>2, <2>1 DEF SessionExpires, LeaseLapses, GraceElapses, Update, Shape, TypeOK, Row
  <2> QED BY <1>1, <2>1, <2>2
<1>3. CASE Cleanup
  <2>1. UNCHANGED handler
    BY <1>3 DEF Cleanup, CleanupExpire, CleanupRecover, Stale, LeaseLost
  <2>2. ASSUME NEW u \in Uploads
        PROVE  \/ pending'[u] = pending[u]
               \/ pending'[u] = Unleased(u, "expired") /\ pending[u].status \in {"pending", "failed"}
               \/ pending'[u] = Unleased(u, "pending") /\ pending[u].status = "uploading"
                  /\ pending[u].lease = "lapsed"
    BY <1>3, <2>2 DEF Cleanup, CleanupExpire, CleanupRecover, Stale, LeaseLost
  <2>3. ASSUME NEW u \in Uploads, NEW s \in {"expired", "pending"}
        PROVE  /\ Unleased(u, s).status = s
               /\ Unleased(u, s).rec = pending[u].rec
               /\ Unleased(u, s).call = pending[u].call
    BY DEF Unleased, Shape, TypeOK, Row
  <2> QED BY <1>1, <2>1, <2>2, <2>3 DEF Terminal
<1>4. CASE Crash
  <2>1. UNCHANGED pending /\ \A h \in Handlers : handler'[h] = Idle
    BY <1>4 DEF Crash, store
  <2>2. OneRequest' /\ \A h \in Handlers : Undisturbed(handler[h])'
    BY <2>1 DEF OneRequest, Undisturbed, Idle, Claimed
  <2>3. FinalsKept /\ CallsKept /\ QuarantinedIsKept' /\ NoDoubleFinalization'
    BY <1>0, <2>1 DEF FinalsKept, CallsKept, Serial, QuarantinedIsKept, NoDoubleFinalization, HasPayload,
                      Stored
  <2>4. \A r \in acked' : OwnKey(r) => Kept(r)'
    BY <1>0, <2>3, KeptIsStable DEF Serial
  <2> QED BY <2>2, <2>3, <2>4 DEF Serial
<1> QED BY <1>2, <1>3, <1>4

\* Every step keeps the serial invariant.
LEMMA SerialNext ==
  ASSUME Shape, Media, Media', Serial, SerialSenders, ~HandlersOutliveLease, [Next]_vars
  PROVE  Serial' /\ FinalsKept
<1>1. ASSUME NEW h \in Handlers, NEW r \in Recordings, CreateBegin(h, r) \/ AudioBegin(h, r)
      PROVE  Serial' /\ FinalsKept
  BY <1>1, SerialBegin
<1>2. ASSUME NEW h \in Handlers, HandlerStep(h) \/ RequestFails(h)
      PROVE  Serial' /\ FinalsKept
  BY <1>2, SerialCreate, SerialReceive, SerialAnswer, SerialCommit DEF HandlerStep
<1>3. CASE UNCHANGED vars
  <2>1. Serial'
    BY <1>3 DEF vars, Serial, OneRequest, Undisturbed, QuarantinedIsKept, HasPayload,
                NoDoubleFinalization, Kept, Duplicates, HasAudio, Stored, HasPayload
  <2> QED BY <1>3, <2>1 DEF vars, FinalsKept
<1> QED BY <1>1, <1>2, <1>3, SerialTime DEF Next

\* With serial senders whose requests end within their lease, it always holds.
LEMMA SerialCorrect ==
  ASSUME SerialSenders, ~HandlersOutliveLease
  PROVE  Spec => [](Shape /\ Media /\ Serial)
<1>1. Init => Serial
  BY SerialInit
<1>2. Shape /\ Media /\ Media' /\ Serial /\ [Next]_vars => Serial'
  BY SerialNext
<1> QED BY <1>1, <1>2, ShapeCorrect, MediaCorrect, PTL DEF Spec

-----------------------------------------------------------------------------
(* The promises to a serial sender.                                        *)

\* A sender that drops a recording with a key of its own on a final answer loses
\* nothing: the server has it as a call with media or as a quarantined payload.
THEOREM AcknowledgedIsSafe ==
  ASSUME SerialSenders, ~HandlersOutliveLease
  PROVE  Spec => []AcknowledgedIsKept
<1>1. Serial => AcknowledgedIsKept
  BY DEF Serial, Kept, AcknowledgedIsKept
<1> QED BY <1>1, SerialCorrect, PTL

\* However often it retries after lost answers and crashes, a recording becomes
\* one call.
THEOREM FinalizedOnce ==
  ASSUME SerialSenders, ~HandlersOutliveLease
  PROVE  Spec => []NoDoubleFinalization
<1>1. Serial => NoDoubleFinalization
  BY DEF Serial
<1> QED BY <1>1, SerialCorrect, PTL

\* A payload answered as quarantined stays on disk, if its recording has a key of
\* its own.
THEOREM QuarantineIsSafe ==
  ASSUME SerialSenders, ~HandlersOutliveLease
  PROVE  Spec => []QuarantinedIsKept
<1>1. Serial => QuarantinedIsKept
  BY DEF Serial
<1> QED BY <1>1, SerialCorrect, PTL

\* No retry, timeout or cleanup pass takes its row from the request that works on
\* a recording with a key of its own.
THEOREM LeaseIsHeld ==
  ASSUME SerialSenders, ~HandlersOutliveLease
  PROVE  Spec => []LeaseHeldWhileWorking
<1>1. Serial => LeaseHeldWhileWorking
  BY DEF Serial, Undisturbed, LeaseHeldWhileWorking
<1> QED BY <1>1, SerialCorrect, PTL

\* The finished row of a recording with a key of its own is never worked on again
\* and keeps its answer.
THEOREM FinishedIsFinal ==
  ASSUME SerialSenders, ~HandlersOutliveLease
  PROVE  Spec => FinishedRowIsFinal
<1>1. Shape /\ Media /\ Media' /\ Serial /\ [Next]_vars => FinalsKept
  BY SerialNext
<1>2. FinalsKept =>
        \A u \in Uploads :
          pending[u].status \in Terminal /\ OwnKey(pending[u].rec) =>
            /\ pending'[u].status = pending[u].status
            /\ pending'[u].call = pending[u].call
  BY DEF FinalsKept
<1> QED BY <1>1, <1>2, SerialCorrect, PTL DEF Spec, FinishedRowIsFinal

-----------------------------------------------------------------------------
(* To senders with one request per recording in flight, the ingestion      *)
(* protocol is the archive of CallArchive.                                 *)

\* A step acknowledges at most one recording.
LEMMA OneAnswer ==
  ASSUME Shape, [Next]_vars
  PROVE  acked' = acked \/ \E r \in Recordings : acked' = acked \cup {r}
<1>1. ASSUME NEW h \in Handlers, NEW r \in Recordings, CreateBegin(h, r) \/ AudioBegin(h, r)
      PROVE  acked' = acked \/ acked' = acked \cup {r}
  BY <1>1 DEF CreateBegin, AudioBegin, Answered
<1>2. ASSUME NEW h \in Handlers, HandlerStep(h) \/ RequestFails(h)
      PROVE  acked' = acked \/ \E r \in Recordings : acked' = acked \cup {r}
  <2>1. acked' = acked \/ acked' = acked \cup {handler[h].rec}
    BY <1>2 DEF HandlerStep, RequestFails, CreateLookup, Answered, InProgress, CreateInsert, CreateReissue, AudioExpire,
       AudioClaim, AudioDecodeFails, AudioQuarantine, AudioConfirmQuarantine, AudioReject,
       AudioDedupe, AudioMarkDuplicate, AudioStore, AudioCommit, AudioRelease, ReplyDone
  <2>2. acked' = acked \/ handler[h].pc # "idle"
    BY <1>2 DEF HandlerStep, RequestFails, CreateLookup, Answered, InProgress, CreateInsert, CreateReissue, AudioExpire,
       AudioClaim, AudioDecodeFails, AudioQuarantine, AudioConfirmQuarantine, AudioReject,
       AudioDedupe, AudioMarkDuplicate, AudioStore, AudioCommit, AudioRelease, At, Unclaimed
  <2> QED BY <2>1, <2>2 DEF Shape, RequestShape, GoodRequest
<1>3. CASE Cleanup \/ Crash \/ UNCHANGED vars
           \/ \E u \in Uploads : SessionExpires(u) \/ LeaseLapses(u) \/ GraceElapses(u)
  BY <1>3 DEF Cleanup, CleanupExpire, CleanupRecover, Crash, vars, SessionExpires, LeaseLapses,
              GraceElapses
<1> QED BY <1>1, <1>2, <1>3 DEF Next

\* Only a commit stores a call.
LEMMA OnlyCommitStores ==
  ASSUME [Next]_vars
  PROVE  UNCHANGED calls \/ \E h \in Handlers : AudioCommit(h) /\ Finalize(h)
<1>1. ASSUME NEW h \in Handlers, HandlerStep(h) \/ RequestFails(h)
      PROVE  UNCHANGED calls \/ (AudioCommit(h) /\ Finalize(h))
  BY <1>1 DEF HandlerStep, RequestFails, CreateLookup, Answered, InProgress, CreateInsert, CreateReissue, AudioExpire,
     AudioClaim, AudioDecodeFails, AudioQuarantine, AudioConfirmQuarantine, AudioReject,
     AudioDedupe, AudioMarkDuplicate, AudioStore, AudioCommit, AudioRelease, store
<1>2. ASSUME NEW h \in Handlers, NEW r \in Recordings, CreateBegin(h, r) \/ AudioBegin(h, r)
      PROVE  UNCHANGED calls
  BY <1>2 DEF CreateBegin, AudioBegin, Answered, store
<1>3. CASE Cleanup \/ Crash \/ UNCHANGED vars
           \/ \E u \in Uploads : SessionExpires(u) \/ LeaseLapses(u) \/ GraceElapses(u)
  BY <1>3 DEF Cleanup, CleanupExpire, CleanupRecover, Crash, vars, SessionExpires, LeaseLapses,
              GraceElapses, store
<1> QED BY <1>1, <1>2, <1>3 DEF Next

\* No row is quarantined that was not, for the same recording.
NoneSetAside == \A u \in Uploads : pending'[u].status = "quarantined" =>
                                     /\ pending[u].status = "quarantined"
                                     /\ pending[u].rec = pending'[u].rec

\* A step that changes neither rows nor quarantine sets no recording aside.
LEMMA SameSetAside ==
  ASSUME Shape, FinalsKept, NoneSetAside
  PROVE  SetAside' = SetAside
<1>1. \A u \in Uploads : pending[u].status = "quarantined" /\ OwnKey(pending[u].rec) =>
                         pending'[u].status = "quarantined" /\ pending'[u].rec = pending[u].rec
  BY DEF FinalsKept, Terminal
<1> QED BY <1>1 DEF NoneSetAside, SetAside

\* A row that is not set aside by its update.
LEMMA OtherUpdate ==
  ASSUME Shape, NEW u \in Uploads, NEW w, Update(u, w),
         w.status # "quarantined" \/ (w.status = pending[u].status /\ w.rec = pending[u].rec)
  PROVE  NoneSetAside
<1>1. pending'[u] = w /\ \A v \in Uploads \ {u} : pending'[v] = pending[v]
  BY DEF Shape, TypeOK, Update
<1> QED BY <1>1 DEF NoneSetAside

\* Nor does one that takes a row to any status but 'quarantined'.
LEMMA OtherUnleased ==
  ASSUME Shape, NEW u \in Uploads, NEW s \in Statuses \ {"quarantined"},
         UNCHANGED pending \/ Update(u, Unleased(u, s))
  PROVE  NoneSetAside
<1>1. CASE UNCHANGED pending
  BY <1>1 DEF NoneSetAside
<1>2. CASE Update(u, Unleased(u, s))
  <2>1. PICK w : w = Unleased(u, s)
    OBVIOUS
  <2> QED BY <1>2, <2>1, UnleasedRow, OtherUpdate
<1> QED BY <1>1, <1>2

\* Only a confirmed quarantine sets a recording aside.
LEMMA OnlyConfirmSetsAside ==
  ASSUME Shape, [Next]_vars
  PROVE  \/ NoneSetAside
         \/ \E h \in Handlers :
              /\ AudioConfirmQuarantine(h)
              /\ Update(handler[h].upload, Unleased(handler[h].upload, "quarantined"))
<1>0. UNCHANGED pending => NoneSetAside
  BY DEF NoneSetAside
<1>1. ASSUME NEW h \in Handlers, NEW r \in Recordings, CreateBegin(h, r) \/ AudioBegin(h, r)
      PROVE  NoneSetAside
  BY <1>0, <1>1 DEF CreateBegin, AudioBegin, Answered, store
<1>2. ASSUME NEW h \in Handlers,
             \/ CreateLookup(h) \/ AudioQuarantine(h) \/ AudioDedupe(h) \/ AudioStore(h)
             \/ RequestFails(h)
      PROVE  NoneSetAside
  BY <1>0, <1>2 DEF CreateLookup, Answered, InProgress, AudioQuarantine, AudioDedupe, AudioStore, RequestFails, store
<1>3. ASSUME NEW h \in Handlers, CreateInsert(h) PROVE NoneSetAside
  <2>1. CASE UNCHANGED pending
    BY <1>0, <2>1
  <2>2. CASE ~UNCHANGED pending
    <3>1. PICK w : w = [NoRow EXCEPT !.status = "pending", !.rec = handler[h].rec,
                                     !.fresh = TRUE, !.token = Draw(FreshTokens)]
      OBVIOUS
    <3>2. FreeUploads # {} /\ Update(Draw(FreeUploads), w)
      BY <1>3, <2>2, <3>1 DEF CreateInsert
    <3>3. w.status = "pending"
      BY <3>1 DEF NoRow
    <3> QED BY <3>2, <3>3, FreeUpload, OtherUpdate
  <2> QED BY <2>1, <2>2
<1>4. ASSUME NEW h \in Handlers,
             CreateReissue(h) \/ AudioClaim(h) \/ AudioMarkDuplicate(h) \/ AudioCommit(h)
      PROVE  NoneSetAside
  <2> DEFINE u == handler[h].upload
  <2>1. u \in Uploads /\ pending[u] \in Row
    BY <1>4, AtRow DEF CreateReissue, AudioClaim, AudioMarkDuplicate, AudioCommit, At, Claimed
  <2>2. Unleased(u, "pending") \in Row /\ Unleased(u, "duplicate") \in Row
        /\ Unleased(u, "completed") \in Row
    BY <2>1, UnleasedRow DEF Statuses, Terminal
  <2>3. Unleased(u, "pending").status = "pending" /\ Unleased(u, "duplicate").status = "duplicate"
        /\ Unleased(u, "completed").status = "completed"
    BY <2>1, UnleasedRow DEF Statuses, Terminal
  <2>4. CASE CreateReissue(h)
    <3>1. PICK w : w = [Unleased(u, "pending") EXCEPT !.rec = handler[h].rec, !.fresh = TRUE,
                                                      !.token = Draw(FreshTokens)]
      OBVIOUS
    <3>2. w.status = "pending"
      BY <2>2, <2>3, <3>1 DEF Row
    <3> QED BY <2>1, <2>4, <3>1, <3>2, OtherUpdate DEF CreateReissue
  <2>5. CASE AudioClaim(h)
    <3>1. PICK w : w = [pending[u] EXCEPT !.status = "uploading", !.lease = "live"]
      OBVIOUS
    <3>2. w.status = "uploading"
      BY <2>1, <3>1 DEF Row
    <3> QED BY <1>0, <2>1, <2>5, <3>1, <3>2, OtherUpdate DEF AudioClaim, Claim
  <2>6. CASE AudioMarkDuplicate(h)
    <3>1. PICK w : w = [Unleased(u, "duplicate") EXCEPT !.call = handler[h].call]
      OBVIOUS
    <3>2. w.status = "duplicate"
      BY <2>2, <2>3, <3>1 DEF Row
    <3> QED BY <2>1, <2>6, <3>1, <3>2, OtherUpdate DEF AudioMarkDuplicate
  <2>7. CASE AudioCommit(h)
    <3>1. PICK w : w = [Unleased(u, "completed") EXCEPT !.call = handler[h].call]
      OBVIOUS
    <3>2. w.status = "completed"
      BY <2>2, <2>3, <3>1 DEF Row
    <3> QED BY <1>0, <2>1, <2>7, <3>1, <3>2, OtherUpdate DEF AudioCommit, Finalize
  <2> QED BY <1>4, <2>4, <2>5, <2>6, <2>7
<1>5. ASSUME NEW h \in Handlers, AudioExpire(h) \/ AudioReject(h) \/ AudioRelease(h)
      PROVE  NoneSetAside
  <2>1. handler[h].upload \in Uploads
    BY <1>5, AtRow DEF AudioExpire, AudioReject, AudioRelease, At, Claimed
  <2>2. \/ UNCHANGED pending
        \/ Update(handler[h].upload, Unleased(handler[h].upload, "expired"))
        \/ Update(handler[h].upload, Unleased(handler[h].upload, "pending"))
    BY <1>5 DEF AudioExpire, AudioReject, AudioRelease, Release
  <2> QED BY <1>0, <2>1, <2>2, OtherUnleased DEF Statuses
<1>6. ASSUME NEW h \in Handlers, NEW d \in Digests, AudioDecodeFails(h, d) PROVE NoneSetAside
  <2>1. handler[h].upload \in Uploads /\ pending[handler[h].upload] \in Row
    BY <1>6, AtRow DEF AudioDecodeFails, At, Claimed
  <2>2. CASE UNCHANGED pending
    BY <1>0, <2>2
  <2>3. ASSUME NEW n, NEW a, Update(handler[h].upload,
                 [pending[handler[h].upload] EXCEPT !.fails = n, !.digest = d, !.aged = a])
        PROVE  NoneSetAside
    <3>1. PICK w : w = [pending[handler[h].upload] EXCEPT !.fails = n, !.digest = d, !.aged = a]
      OBVIOUS
    <3>2. w.status = pending[handler[h].upload].status /\ w.rec = pending[handler[h].upload].rec
      BY <2>1, <3>1 DEF Row
    <3> QED BY <2>1, <2>3, <3>1, <3>2, OtherUpdate
  <2> QED BY <1>6, <2>2, <2>3 DEF AudioDecodeFails
<1>7. ASSUME NEW h \in Handlers, AudioConfirmQuarantine(h)
      PROVE  NoneSetAside
             \/ Update(handler[h].upload, Unleased(handler[h].upload, "quarantined"))
  BY <1>0, <1>7 DEF AudioConfirmQuarantine
<1>8. ASSUME NEW u \in Uploads, SessionExpires(u) \/ LeaseLapses(u) \/ GraceElapses(u)
      PROVE  NoneSetAside
  <2>1. pending[u] \in Row
    BY DEF Shape, TypeOK
  <2>2. \E w : Update(u, w) /\ w.status = pending[u].status /\ w.rec = pending[u].rec
    BY <1>8, <2>1 DEF SessionExpires, LeaseLapses, GraceElapses, Row
  <2> QED BY <2>2, OtherUpdate
<1>9. CASE Cleanup
  <2>1. \A u \in Uploads : /\ Unleased(u, "expired").status = "expired"
                           /\ Unleased(u, "pending").status = "pending"
    BY UnleasedRow DEF Statuses
  <2> QED BY <1>9, <2>1 DEF Cleanup, CleanupExpire, CleanupRecover, NoneSetAside
<1>10. CASE Crash \/ UNCHANGED vars
  BY <1>0, <1>10 DEF Crash, store, vars
<1> QED BY <1>1, <1>2, <1>3, <1>4, <1>5, <1>6, <1>7, <1>8, <1>9, <1>10 DEF Next, HandlerStep

-----------------------------------------------------------------------------
(* Every step is a step of the archive or leaves it alone.                 *)

\* The empty server is the empty archive.
LEMMA ArchiveInit == Init => Archive!Init
  BY UploadAssumption DEF Init, Archive!Init, SetAside, Promised, NoRow

\* A commit stores a recording the archive did not hold.
LEMMA CommitStores ==
  ASSUME Shape, Media, Serial, [Next]_vars, FinalsKept, NEW h \in Handlers,
         AudioCommit(h), Finalize(h)
  PROVE  Archive!Next
<1> DEFINE r == handler[h].rec
           c == handler[h].call
<1>1. /\ r \in Recordings /\ c \in Calls \ Stored
      /\ calls' = [calls EXCEPT ![c] = r]
      /\ Promised' \in {Promised, Promised \cup {r}}
      /\ handler[h].pc = "commit"
  <2>1. acked' = acked \/ acked' = acked \cup {r}
    BY DEF AudioCommit, ReplyDone
  <2>2. Promised' = Promised \/ Promised' = Promised \cup {r}
    BY <2>1 DEF Promised
  <2> QED BY <2>2, AtRow DEF AudioCommit, At, Claimed, Finalize, ReplyDone, Media, CommitReady
<1>2. \A d \in Calls : calls[d] # r
  BY <1>1, UploadAssumption DEF Serial, Undisturbed, Stored
<1>3. NoneSetAside
  <2>1. \A g \in Handlers : g # h \/ ~At(g, "confirm")
    BY <1>1 DEF At
  <2>2. \A g \in Handlers : ~(AudioConfirmQuarantine(g)
                              /\ Update(handler[g].upload, Unleased(handler[g].upload, "quarantined")))
    <3> SUFFICES ASSUME NEW g \in Handlers, AudioConfirmQuarantine(g) PROVE FALSE
      OBVIOUS
    <3>1. UNCHANGED calls
      BY DEF AudioConfirmQuarantine
    <3> QED BY <3>1, <1>1, <1>2 DEF Shape, TypeOK
  <2> QED BY <2>2, OnlyConfirmSetsAside
<1>4. SetAside' = SetAside
  BY <1>3, SameSetAside
<1>5. \E d \in Calls : calls[d] = None /\ calls' = [calls EXCEPT ![d] = r]
  BY <1>1 DEF Stored
<1> QED BY <1>1, <1>2, <1>4, <1>5 DEF Archive!Next, Archive!Store

\* A confirmed quarantine sets a recording aside, if it has a key of its own.
LEMMA ConfirmSetsAside ==
  ASSUME Shape, FinalsKept, NEW h \in Handlers, AudioConfirmQuarantine(h),
         Update(handler[h].upload, Unleased(handler[h].upload, "quarantined"))
  PROVE  [Archive!Next]_(Archive!vars)
<1> DEFINE u == handler[h].upload
           r == handler[h].rec
<1>1. u \in Uploads /\ r \in Recordings /\ UNCHANGED calls /\ pending[u].rec \in Recordings
  BY AtRow DEF AudioConfirmQuarantine, At, Claimed
<1>2. /\ pending'[u].status = "quarantined" /\ pending'[u].rec = pending[u].rec
      /\ \A v \in Uploads \ {u} : pending'[v] = pending[v]
  BY <1>1, UnleasedRow DEF Update, Shape, TypeOK, Statuses, Terminal
<1>3. acked' = acked \/ acked' = acked \cup {r}
  BY DEF AudioConfirmQuarantine, ReplyDone
<1>4. Promised' = Promised \/ Promised' = Promised \cup {r}
  BY <1>3 DEF Promised
<1>5. CASE OwnKey(r)
  <2>1. pending[u].rec = r
    BY <1>5, OwnRow DEF AudioConfirmQuarantine, At, Claimed
  <2>2. SetAside' = SetAside \cup {r}
    BY <1>1, <1>2, <1>5, <2>1 DEF SetAside
  <2> QED BY <1>1, <1>4, <2>2 DEF Archive!Next, Archive!SetAside
<1>6. CASE ~OwnKey(r)
  <2>1. ~OwnKey(pending[u].rec)
    BY <1>6, OwnRowKey DEF AudioConfirmQuarantine, At, Claimed
  <2>2. SetAside' = SetAside
    BY <1>1, <1>2, <2>1 DEF SetAside
  <2>3. Promised' = Promised
    BY <1>3, <1>6 DEF Promised
  <2> QED BY <1>1, <2>2, <2>3 DEF Archive!vars
<1> QED BY <1>5, <1>6

\* Every step of the server is a step of the archive, or a stutter.
LEMMA ArchiveNext ==
  ASSUME Shape, Media, Media', Serial, SerialSenders, ~HandlersOutliveLease, [Next]_vars
  PROVE  [Archive!Next]_(Archive!vars)
<1>1. Serial' /\ FinalsKept
  BY SerialNext
<1>2. ASSUME NEW h \in Handlers, AudioCommit(h), Finalize(h) PROVE Archive!Next
  BY <1>1, <1>2, CommitStores
<1>3. ASSUME NEW h \in Handlers, AudioConfirmQuarantine(h),
             Update(handler[h].upload, Unleased(handler[h].upload, "quarantined"))
      PROVE  [Archive!Next]_(Archive!vars)
  BY <1>1, <1>3, ConfirmSetsAside
<1>4. CASE UNCHANGED calls /\ NoneSetAside
  <2>1. SetAside' = SetAside
    BY <1>1, <1>4, SameSetAside
  <2>2. CASE Promised' = Promised
    BY <1>4, <2>1, <2>2 DEF Archive!vars
  <2>3. ASSUME NEW r \in Recordings, acked' = acked \cup {r}, OwnKey(r) PROVE Archive!Next
    <3>1. Kept(r)'
      BY <1>1, <2>3 DEF Serial
    <3>2. \/ r \in SetAside
          \/ \E c \in Calls : calls[c] # None /\ <<calls[c], r>> \in Matches
      <4>1. CASE \E c \in Duplicates(r)' : HasAudio(c)'
        BY <1>4, <4>1 DEF Duplicates, Stored
      <4>2. CASE \E u \in Uploads : pending'[u].rec = r /\ pending'[u].status = "quarantined"
        BY <2>1, <2>3, <4>2 DEF SetAside
      <4> QED BY <3>1, <4>1, <4>2 DEF Kept
    <3>3. Promised' = Promised \cup {r}
      BY <2>3 DEF Promised
    <3> QED BY <1>4, <2>1, <3>2, <3>3 DEF Archive!Next, Archive!Acknowledge, Archive!Has
  <2>4. ASSUME NEW r \in Recordings, acked' = acked \cup {r}, ~OwnKey(r) PROVE Promised' = Promised
    BY <2>4 DEF Promised
  <2>5. CASE acked' = acked
    BY <2>2, <2>5 DEF Promised
  <2> QED BY <2>2, <2>3, <2>4, <2>5, OneAnswer
<1> QED BY <1>2, <1>3, <1>4, OnlyCommitStores, OnlyConfirmSetsAside

\* For any number of serial senders, requests, crashes and failures, the protocol
\* implements the archive: each recording is stored at most once, none is
\* forgotten, and "done" is only answered for what the archive has, where the
\* recording does not share its key with another one.
THEOREM UploadImplementsArchive ==
  ASSUME SerialSenders, ~HandlersOutliveLease
  PROVE  Spec => ImplementsArchive
<1>1. Init => Archive!Init
  BY ArchiveInit
<1>2. Shape /\ Media /\ Media' /\ Serial /\ [Next]_vars => [Archive!Next]_(Archive!vars)
  BY ArchiveNext
<1> QED BY <1>1, <1>2, SerialCorrect, PTL DEF Spec, ImplementsArchive, Archive!Spec
=============================================================================
