------------------------ MODULE UploadSessionProofs ------------------------
(***************************************************************************)
(* What the ingestion protocol guarantees for any number of recordings,    *)
(* requests, rows and calls, however the requests race, fail and crash.    *)
(***************************************************************************)
EXTENDS UploadSession, TLAPS

\* A drawn identifier is a fresh one.
LEMMA DrawMember == ASSUME NEW S, S # {} PROVE Draw(S) \in S
  BY DEF Draw

\* What FreshTokens offers: a token no row and no sender refers to.
LEMMA FreshToken ==
  ASSUME FreshTokens # {}
  PROVE  /\ Draw(FreshTokens) \in Tokens
         /\ \A u \in Uploads : pending[u].token # Draw(FreshTokens)
         /\ \A r \in Recordings : held[r] # Draw(FreshTokens)
<1>1. Draw(FreshTokens) \in FreshTokens
  BY DrawMember
<1> QED
  BY <1>1 DEF FreshTokens, TokenRows

\* What FreeUploads offers: the id of no row yet.
LEMMA FreeUpload ==
  ASSUME FreeUploads # {}
  PROVE  Draw(FreeUploads) \in Uploads /\ pending[Draw(FreeUploads)].status = "absent"
<1>1. Draw(FreeUploads) \in FreeUploads
  BY DrawMember
<1> QED
  BY <1>1 DEF FreeUploads

\* To share a key is an equivalence.
LEMMA SharedKeys ==
  /\ \A r : SharesKey(r, r)
  /\ \A r, q : SharesKey(r, q) => SharesKey(q, r)
  /\ \A r, q, s : SharesKey(r, q) /\ SharesKey(q, s) => SharesKey(r, s)
  BY UploadAssumption DEF SharesKey

\* A request past its first statement knows its recording; one that works on a
\* row works on a row of that recording's key; one that names a call has one.
GoodRequest(q) ==
  /\ q.pc = "idle" => q = Idle
  /\ q.pc # "idle" => q.rec \in Recordings
  /\ q.pc \in Claimed \cup {"reissue", "expire", "claim"} =>
       /\ q.upload \in Uploads
       /\ pending[q.upload].rec \in Recordings
       /\ SharesKey(pending[q.upload].rec, q.rec)
  /\ q.pc \in {"duplicate", "commit"} => q.call \in Calls

RequestShape == \A h \in Handlers : GoodRequest(handler[h])

\* Rows exist with their recording, and a held token opens a row of its holder.
RowShape ==
  /\ \A u \in Uploads : pending[u].status # "absent" <=> pending[u].rec # None
  /\ \A u \in Uploads : pending[u].token # None => pending[u].rec # None
  /\ \A u \in Uploads, r \in Recordings :
       held[r] # None /\ pending[u].token = held[r] => pending[u].rec = r

Shape == TypeOK /\ RequestShape /\ RowShape

\* The empty server is in good shape.
LEMMA ShapeInit == Init => Shape
  BY UploadAssumption DEF Init, Shape, TypeOK, RequestShape, GoodRequest, RowShape, Row,
     NoRow, Request, Idle, Statuses, Terminal, Claimed, Unclaimed

-----------------------------------------------------------------------------
(* What most steps do to the rows, the requests and the held tokens.       *)

\* No row appears, disappears, or changes its recording or its token.
RowsKept ==
  /\ pending' \in [Uploads -> Row]
  /\ \A u \in Uploads :
       /\ pending'[u].rec = pending[u].rec
       /\ pending'[u].token = pending[u].token
       /\ pending'[u].status = "absent" <=> pending[u].status = "absent"

\* Every request is as it was or in good shape.
RequestsGood ==
  /\ handler' \in [Handlers -> Request]
  /\ \A h \in Handlers : handler'[h] = handler[h] \/ GoodRequest(handler'[h])

\* No sender receives a token.
NoTokenGiven ==
  /\ held' \in [Recordings -> Tokens \cup {None}]
  /\ \A r \in Recordings : held'[r] = held[r] \/ held'[r] = None

\* Steps that leave the rows, the requests and the tokens as described keep the
\* shape.
LEMMA KeptShape ==
  ASSUME Shape, RowsKept, RequestsGood, NoTokenGiven
  PROVE  RequestShape' /\ RowShape'
<1>1. RequestShape'
  BY DEF Shape, RowsKept, RequestsGood, RequestShape, GoodRequest
<1>2. RowShape'
  BY DEF Shape, RowsKept, NoTokenGiven, RowShape
<1> QED BY <1>1, <1>2

\* What a step leaves unchanged it keeps.
LEMMA SameKept ==
  ASSUME Shape
  PROVE  /\ UNCHANGED pending => RowsKept
         /\ UNCHANGED handler => RequestsGood
         /\ UNCHANGED held => NoTokenGiven
  BY DEF Shape, TypeOK, RowsKept, RequestsGood, NoTokenGiven

\* An UPDATE of an existing row that keeps its recording and its token.
LEMMA UpdateKept ==
  ASSUME Shape, NEW u \in Uploads, NEW w \in Row, Update(u, w),
         w.rec = pending[u].rec, w.token = pending[u].token,
         w.status = "absent" <=> pending[u].status = "absent"
  PROVE  RowsKept
  BY DEF Shape, TypeOK, Update, RowsKept

\* A row that exists stays a row when its status changes and its lease is cleared.
LEMMA UnleasedRow ==
  ASSUME Shape, NEW u \in Uploads, NEW s \in Statuses
  PROVE  /\ Unleased(u, s) \in Row
         /\ Unleased(u, s).rec = pending[u].rec
         /\ Unleased(u, s).token = pending[u].token
         /\ Unleased(u, s).status = s
  BY DEF Shape, TypeOK, Unleased, Row

\* An UPDATE that takes a row out of 'uploading'.
LEMMA UnleasedKept ==
  ASSUME Shape, NEW u \in Uploads, NEW s \in Statuses \ {"absent"},
         pending[u].rec # None, Update(u, Unleased(u, s))
  PROVE  RowsKept
<1>1. pending[u].status # "absent"
  BY DEF Shape, RowShape
<1> QED BY <1>1, UnleasedRow, UpdateKept

\* A request moves to a state in good shape.
LEMMA BecomeGood ==
  ASSUME Shape, NEW h \in Handlers, NEW q \in Request, GoodRequest(q), Become(h, q)
  PROVE  RequestsGood
  BY DEF Shape, TypeOK, RequestsGood, Become

\* A request is answered.
LEMMA ReplyGood ==
  ASSUME Shape, NEW h \in Handlers, Reply(h)
  PROVE  RequestsGood
<1>1. Idle \in Request /\ GoodRequest(Idle)
  BY DEF Idle, Request, GoodRequest, Claimed
<1> QED BY <1>1, BecomeGood DEF Reply

\* A request that works on its row goes on working on it.
LEMMA GotoGood ==
  ASSUME Shape, NEW h \in Handlers, handler[h].pc \in Claimed \cup {"claim"},
         NEW p \in Claimed \ {"duplicate", "commit"}, Goto(h, p)
  PROVE  RequestsGood
<1> DEFINE q == [handler[h] EXCEPT !.pc = p]
<1>1. q \in Request
  BY DEF Shape, TypeOK, Request
<1>2. GoodRequest(q)
  BY DEF Shape, TypeOK, Request, RequestShape, GoodRequest, Claimed
<1> QED BY <1>1, <1>2, BecomeGood DEF Goto

\* What a request at a statement on a row knows.
LEMMA AtRow ==
  ASSUME Shape, NEW h \in Handlers,
         handler[h].pc \in Claimed \cup {"reissue", "expire", "claim"}
  PROVE  /\ handler[h] \in Request
         /\ handler[h].rec \in Recordings
         /\ handler[h].upload \in Uploads
         /\ pending[handler[h].upload] \in Row
         /\ SharesKey(pending[handler[h].upload].rec, handler[h].rec)
         /\ pending[handler[h].upload].rec \in Recordings
         /\ pending[handler[h].upload].rec # None
         /\ pending[handler[h].upload].status # "absent"
<1>1. handler[h].rec \in Recordings /\ handler[h].upload \in Uploads
      /\ pending[handler[h].upload].rec \in Recordings
      /\ SharesKey(pending[handler[h].upload].rec, handler[h].rec)
  BY DEF Shape, RequestShape, GoodRequest, Claimed
<1> QED BY <1>1, UploadAssumption DEF Shape, TypeOK, RowShape

\* The deferred release keeps recording and token of the row.
LEMMA ReleaseKept ==
  ASSUME Shape, NEW u \in Uploads, pending[u].rec # None, Release(u)
  PROVE  RowsKept
<1>1. CASE pending[u].status = "uploading"
  BY <1>1, UnleasedKept DEF Release, Statuses, Terminal
<1>2. CASE pending[u].status # "uploading"
  BY <1>2, SameKept DEF Release
<1> QED BY <1>1, <1>2

-----------------------------------------------------------------------------
(* Type correctness.                                                       *)

\* The state a request can disturb besides the rows, the requests and the tokens.
RestOK ==
  /\ calls \in [Calls -> Recordings \cup {None}]
  /\ audio \in SUBSET Calls
  /\ quarantine \in SUBSET Uploads
  /\ cleaner \in {"expire", "recover"}
  /\ acked \in SUBSET Recordings
  /\ lostAck \in SUBSET Calls
  /\ lostMark \in SUBSET Uploads
  /\ crashes \in 0..MaxCrashes
  /\ errors \in 0..MaxErrors

\* The types of the three variables the descriptions above speak of.
LEMMA KeptType ==
  ASSUME Shape, RowsKept, RequestsGood, NoTokenGiven, RestOK'
  PROVE  Shape'
<1>1. TypeOK'
  BY DEF RowsKept, RequestsGood, NoTokenGiven, RestOK, TypeOK
<1> QED BY <1>1, KeptShape DEF Shape

\* The remaining variables have their types before the step.
LEMMA RestOKNow == ASSUME Shape PROVE RestOK
  BY DEF Shape, TypeOK, RestOK

\* The budget of failures is never overdrawn.
LEMMA ErrorOK == ASSUME Shape, Error PROVE errors' \in 0..MaxErrors
  BY UploadAssumption DEF Shape, TypeOK, Error

\* The two actions that accept a request, and createUpload's lookup.
LEMMA BeginShape ==
  ASSUME Shape, NEW h \in Handlers, NEW r \in Recordings,
         CreateBegin(h, r) \/ AudioBegin(h, r)
  PROVE  Shape'
<1> USE RestOKNow, SameKept, KeptType
<1>1. CASE CreateBegin(h, r)
  <2> DEFINE q == [Idle EXCEPT !.pc = "lookup", !.rec = r]
  <2>1. q \in Request /\ GoodRequest(q)
    BY DEF Idle, Request, Unclaimed, GoodRequest, Claimed
  <2>2. RequestsGood
    BY <1>1, <2>1, BecomeGood DEF CreateBegin
  <2>3. RestOK'
    BY <1>1 DEF CreateBegin, RestOK, store, faults
  <2> QED BY <1>1, <2>2, <2>3 DEF CreateBegin, store
<1>2. CASE AudioBegin(h, r)
  <2>1. NoTokenGiven
    BY <1>2 DEF AudioBegin, Answered, Shape, TypeOK, NoTokenGiven
  <2>2. RequestsGood
    <3>1. CASE UNCHANGED handler
      BY <3>1
    <3>2. ASSUME NEW u \in TokenRows(held[r]), NEW p \in {"claim", "expire"},
                 Become(h, [Idle EXCEPT !.pc = p, !.rec = r, !.upload = u])
          PROVE  RequestsGood
      <4> DEFINE q == [Idle EXCEPT !.pc = p, !.rec = r, !.upload = u]
      <4>1. u \in Uploads /\ pending[u].token = held[r]
        BY DEF TokenRows
      <4>2. pending[u].rec = r
        BY <1>2, <4>1 DEF AudioBegin, Answered, Shape, RowShape
      <4>3. q \in Request /\ GoodRequest(q)
        <5>1. /\ q \in Request /\ q.pc = p /\ q.rec = r /\ q.upload = u
          BY <4>1 DEF Idle, Request, Unclaimed
        <5>2. SharesKey(pending[u].rec, r) /\ pending[u].rec \in Recordings
          BY <4>2, SharedKeys
        <5> QED BY <4>1, <5>1, <5>2 DEF GoodRequest
      <4> QED BY <3>2, <4>3, BecomeGood
    <3> QED BY <1>2, <3>1, <3>2 DEF AudioBegin, Answered
  <2>3. RestOK'
    BY <1>2 DEF AudioBegin, Answered, RestOK, store, faults
  <2> QED BY <1>2, <2>1, <2>2, <2>3 DEF AudioBegin, Answered, store
<1> QED BY <1>1, <1>2

\* The rows and tokens after a new token was issued for row u: a new row, or one of
\* the request's key, it is now a row of the request's recording, and only that
\* recording's sender can hold its token.
LEMMA TokenIssued ==
  ASSUME Shape, NEW h \in Handlers, NEW u \in Uploads, NEW t \in Tokens, NEW w \in Row,
         handler[h].rec \in Recordings,
         pending[u].status = "absent" \/ SharesKey(pending[u].rec, handler[h].rec),
         \A v \in Uploads : pending[v].token # t,
         \A r \in Recordings : held[r] # t,
         Update(u, w), w.rec = handler[h].rec, w.token = t, w.status = "pending",
         ReplyToken(h, t)
  PROVE  RequestShape' /\ RowShape' /\ handler' \in [Handlers -> Request]
         /\ pending' \in [Uploads -> Row] /\ held' \in [Recordings -> Tokens \cup {None}]
         /\ errors' \in 0..MaxErrors
<1>1. /\ pending \in [Uploads -> Row]
      /\ held \in [Recordings -> Tokens \cup {None}]
      /\ errors \in 0..MaxErrors
  BY DEF Shape, TypeOK
<1>2. /\ pending'[u] = w
      /\ \A v \in Uploads \ {u} : pending'[v] = pending[v]
      /\ pending' \in [Uploads -> Row]
  BY <1>1 DEF Update
<1>3. /\ \A r \in Recordings : \/ held'[r] = held[r]
                               \/ r = handler[h].rec /\ held'[r] = t
      /\ held' \in [Recordings -> Tokens \cup {None}]
      /\ errors' \in 0..MaxErrors
  BY <1>1, ErrorOK DEF ReplyToken
<1>4. RequestsGood
  BY ReplyGood DEF ReplyToken
<1>5. \A v \in Uploads : pending[v].rec \in Recordings =>
        pending'[v].rec \in Recordings /\ SharesKey(pending'[v].rec, pending[v].rec)
  <2> SUFFICES ASSUME NEW v \in Uploads, pending[v].rec \in Recordings
               PROVE  pending'[v].rec \in Recordings /\ SharesKey(pending'[v].rec, pending[v].rec)
    OBVIOUS
  <2>1. pending[v].status # "absent"
    BY UploadAssumption DEF Shape, RowShape
  <2>2. CASE v = u
    BY <1>2, <2>1, <2>2, SharedKeys
  <2>3. CASE v # u
    BY <1>2, <2>3, SharedKeys
  <2> QED BY <2>2, <2>3
<1>6. RequestShape'
  <2> SUFFICES ASSUME NEW g \in Handlers PROVE GoodRequest(handler[g])'
    BY DEF RequestShape
  <2>1. CASE handler'[g] = handler[g]
    <3>1. GoodRequest(handler[g])
      BY DEF Shape, RequestShape
    <3>2. \A v \in Uploads : \A r : SharesKey(pending[v].rec, r) /\ pending[v].rec \in Recordings =>
            pending'[v].rec \in Recordings /\ SharesKey(pending'[v].rec, r)
      BY <1>5, SharedKeys
    <3> QED BY <2>1, <3>1, <3>2 DEF GoodRequest
  <2>2. CASE handler'[g] # handler[g]
    <3>1. handler'[g] = Idle
      BY <2>2 DEF ReplyToken, Reply, Become, Shape, TypeOK
    <3> QED BY <3>1 DEF GoodRequest, Idle, Claimed
  <2> QED BY <2>1, <2>2
<1>7. RowShape'
  <2>1. t # None /\ w.rec # None
    BY UploadAssumption
  <2>2. \A v \in Uploads : (pending[v].status # "absent" <=> pending[v].rec # None)'
    BY <1>2, <2>1 DEF Shape, RowShape
  <2>3. \A v \in Uploads : (pending[v].token # None => pending[v].rec # None)'
    BY <1>2, <2>1 DEF Shape, RowShape
  <2>4. ASSUME NEW v \in Uploads, NEW r \in Recordings,
               held'[r] # None, pending'[v].token = held'[r]
        PROVE  pending'[v].rec = r
    <3>1. CASE v = u
      BY <3>1, <2>4, <1>2, <1>3
    <3>2. CASE v # u
      <4>1. pending'[v] = pending[v] /\ pending[v].token # t
        BY <3>2, <1>2
      <4>2. held'[r] = held[r]
        BY <4>1, <2>4, <1>3
      <4> QED BY <4>1, <4>2, <2>4 DEF Shape, RowShape
    <3> QED BY <3>1, <3>2
  <2> QED BY <2>2, <2>3, <2>4 DEF RowShape
<1> QED BY <1>2, <1>3, <1>4, <1>6, <1>7 DEF RequestsGood

\* The two statements of createUpload that issue a token.
LEMMA TokenShape ==
  ASSUME Shape, NEW h \in Handlers, CreateInsert(h) \/ CreateReissue(h)
  PROVE  Shape'
<1> USE RestOKNow
<1>1. CASE CreateInsert(h)
  <2>0. handler[h].rec \in Recordings
    BY <1>1 DEF CreateInsert, At, Shape, RequestShape, GoodRequest
  <2>1. CASE UNCHANGED <<pending, held, errors>> /\ Reply(h)
    <3>1. RestOK'
      BY <1>1, <2>1 DEF CreateInsert, RestOK
    <3> QED BY <2>1, <3>1, ReplyGood, SameKept, KeptType
  <2>2. CASE ~(UNCHANGED <<pending, held, errors>> /\ Reply(h))
    <3> DEFINE t == Draw(FreshTokens)
               u == Draw(FreeUploads)
               w == [NoRow EXCEPT !.status = "pending", !.rec = handler[h].rec,
                                  !.fresh = TRUE, !.token = t]
    <3>1. FreeUploads # {} /\ FreshTokens # {} /\ Update(u, w) /\ ReplyToken(h, t)
      BY <1>1, <2>2 DEF CreateInsert
    <3>2. /\ t \in Tokens
          /\ \A v \in Uploads : pending[v].token # t
          /\ \A r \in Recordings : held[r] # t
      BY <3>1, FreshToken
    <3>3. u \in Uploads /\ pending[u].status = "absent"
      BY <3>1, FreeUpload
    <3>4. w \in Row /\ w.rec = handler[h].rec /\ w.token = t /\ w.status = "pending"
      <4>1. NoRow \in Row
        BY UploadAssumption DEF NoRow, Row, Statuses, Terminal
      <4> QED BY <2>0, <3>2, <4>1 DEF Row, Statuses, Terminal
    <3> HIDE DEF t, u, w
    <3>5. RequestShape' /\ RowShape' /\ handler' \in [Handlers -> Request]
          /\ pending' \in [Uploads -> Row] /\ held' \in [Recordings -> Tokens \cup {None}]
          /\ errors' \in 0..MaxErrors
      BY <2>0, <3>1, <3>2, <3>3, <3>4, TokenIssued
    <3> QED BY <1>1, <3>5 DEF CreateInsert, Shape, TypeOK
  <2> QED BY <2>1, <2>2
<1>2. CASE CreateReissue(h)
  <2> DEFINE t == Draw(FreshTokens)
             u == handler[h].upload
             w == [Unleased(u, "pending") EXCEPT !.rec = handler[h].rec, !.fresh = TRUE,
                                                 !.token = t]
  <2>1. FreshTokens # {} /\ Update(u, w) /\ ReplyToken(h, t) /\ handler[h].pc = "reissue"
    BY <1>2 DEF CreateReissue, At
  <2>2. /\ t \in Tokens
        /\ \A v \in Uploads : pending[v].token # t
        /\ \A r \in Recordings : held[r] # t
    BY <2>1, FreshToken
  <2>3. handler[h].rec \in Recordings /\ u \in Uploads /\ SharesKey(pending[u].rec, handler[h].rec)
        /\ pending[u] \in Row
    BY <2>1, AtRow
  <2>4. w \in Row /\ w.rec = handler[h].rec /\ w.token = t /\ w.status = "pending"
    BY <2>2, <2>3 DEF Unleased, Row, Statuses, Terminal
  <2> HIDE DEF t, u, w
  <2>5. RequestShape' /\ RowShape' /\ handler' \in [Handlers -> Request]
        /\ pending' \in [Uploads -> Row] /\ held' \in [Recordings -> Tokens \cup {None}]
        /\ errors' \in 0..MaxErrors
    BY <2>1, <2>2, <2>3, <2>4, TokenIssued
  <2> QED BY <1>2, <2>5 DEF CreateReissue, Shape, TypeOK
<1> QED BY <1>1, <1>2

\* The steps of receiveAudio up to the rejection of a payload.
LEMMA ReceiveShape ==
  ASSUME Shape, NEW h \in Handlers,
         \/ CreateLookup(h) \/ AudioExpire(h) \/ AudioClaim(h)
         \/ (\E d \in Digests : AudioDecodeFails(h, d)) \/ AudioQuarantine(h)
         \/ AudioConfirmQuarantine(h) \/ AudioReject(h)
  PROVE  Shape'
<1> USE RestOKNow, SameKept, KeptType
<1>1. CASE CreateLookup(h)
  <2>1. RequestsGood
    <3>1. CASE Reply(h)
      BY <3>1, ReplyGood
    <3>2. CASE Goto(h, "insert")
      <4> DEFINE q == [handler[h] EXCEPT !.pc = "insert"]
      <4>1. q \in Request /\ GoodRequest(q)
        BY <1>1 DEF CreateLookup, Answered, InProgress, At, Shape, TypeOK, RequestShape, Request, Unclaimed,
                    Claimed, GoodRequest
      <4> QED BY <3>2, <4>1, BecomeGood DEF Goto
    <3>3. ASSUME NEW u \in KeyRows(handler[h].rec),
                 Become(h, [handler[h] EXCEPT !.pc = "reissue", !.upload = u])
          PROVE  RequestsGood
      <4> DEFINE q == [handler[h] EXCEPT !.pc = "reissue", !.upload = u]
      <4>1. /\ u \in Uploads /\ pending[u].rec \in Recordings
            /\ SharesKey(pending[u].rec, handler[h].rec)
        BY UploadAssumption DEF KeyRows, SharesKey
      <4>2. handler[h] \in Request /\ q \in Request
        BY <4>1 DEF Shape, TypeOK, Request, Unclaimed
      <4>3. handler[h].rec \in Recordings
        BY <1>1 DEF CreateLookup, Answered, InProgress, At, Shape, RequestShape, GoodRequest
      <4>4. GoodRequest(q)
        BY <4>1, <4>2, <4>3 DEF Request, GoodRequest, Claimed
      <4> QED BY <3>3, <4>2, <4>4, BecomeGood
    <3> QED BY <1>1, <3>1, <3>2, <3>3 DEF CreateLookup, Answered, InProgress, ReplyDone
  <2>2. RestOK'
    <3>0. handler[h].rec \in Recordings
      BY <1>1 DEF CreateLookup, At, Shape, RequestShape, GoodRequest
    <3>1. acked' \in SUBSET Recordings
      BY <1>1, <3>0 DEF CreateLookup, Answered, InProgress, ReplyDone, Shape, TypeOK
    <3> QED BY <1>1, <3>1 DEF CreateLookup, Answered, InProgress, RestOK, store, faults
  <2> QED BY <1>1, <2>1, <2>2 DEF CreateLookup, Answered, InProgress, store
<1>2. CASE AudioExpire(h)
  <2>1. RowsKept
    <3>1. CASE UNCHANGED pending
      BY <3>1
    <3>2. CASE Update(handler[h].upload, Unleased(handler[h].upload, "expired"))
      BY <1>2, <3>2, AtRow, UnleasedKept DEF AudioExpire, At, Statuses
    <3> QED BY <1>2, <3>1, <3>2 DEF AudioExpire
  <2>2. RequestsGood
    BY <1>2, ReplyGood DEF AudioExpire
  <2>3. RestOK'
    BY <1>2 DEF AudioExpire, RestOK, faults
  <2> QED BY <1>2, <2>1, <2>2, <2>3 DEF AudioExpire
<1>3. CASE AudioClaim(h)
  <2> DEFINE u == handler[h].upload
             w == [pending[u] EXCEPT !.status = "uploading", !.lease = "live"]
  <2>1. RowsKept
    <3>1. CASE UNCHANGED pending
      BY <3>1
    <3>2. CASE Update(u, w)
      <4>1. u \in Uploads /\ pending[u] \in Row /\ pending[u].status # "absent"
        BY <1>3, AtRow DEF AudioClaim, At
      <4>2. w \in Row /\ w.rec = pending[u].rec /\ w.token = pending[u].token
            /\ w.status = "uploading"
        BY <4>1 DEF Row, Statuses, Terminal
      <4> QED BY <3>2, <4>1, <4>2, UpdateKept
    <3> QED BY <1>3, <3>1, <3>2 DEF AudioClaim, Claim
  <2>2. RequestsGood
    <3>1. handler[h].pc = "claim"
      BY <1>3 DEF AudioClaim, At
    <3>2. CASE Goto(h, "body")
      BY <3>1, <3>2, GotoGood DEF Claimed
    <3>3. CASE Reply(h)
      BY <3>3, ReplyGood
    <3> QED BY <1>3, <3>2, <3>3 DEF AudioClaim
  <2>3. RestOK'
    BY <1>3, ErrorOK DEF AudioClaim, RestOK
  <2> QED BY <1>3, <2>1, <2>2, <2>3 DEF AudioClaim
<1>4. ASSUME NEW d \in Digests, AudioDecodeFails(h, d) PROVE Shape'
  <2> DEFINE u == handler[h].upload
  <2>0. u \in Uploads /\ pending[u] \in Row /\ pending[u].status # "absent"
        /\ handler[h].pc = "body"
    BY <1>4, AtRow DEF AudioDecodeFails, At, Claimed
  <2>1. RowsKept
    <3>1. CASE UNCHANGED pending
      BY <3>1
    <3>2. ASSUME NEW n \in 0..QuarantineFailures, NEW a \in BOOLEAN,
                 Update(u, [pending[u] EXCEPT !.fails = n, !.digest = d, !.aged = a])
          PROVE  RowsKept
      <4> DEFINE w == [pending[u] EXCEPT !.fails = n, !.digest = d, !.aged = a]
      <4>1. w \in Row /\ w.rec = pending[u].rec /\ w.token = pending[u].token
            /\ w.status = pending[u].status
        BY <2>0 DEF Row
      <4> QED BY <3>2, <2>0, <4>1, UpdateKept
    <3>3. \A n \in Nat : n < QuarantineFailures => n + 1 \in 0..QuarantineFailures
      BY UploadAssumption
    <3>4. 1 \in 0..QuarantineFailures /\ QuarantineFailures \in 0..QuarantineFailures
      BY UploadAssumption
    <3>5. pending[u].fails \in Nat /\ pending[u].aged \in BOOLEAN
      BY <2>0, UploadAssumption DEF Row
    <3> QED BY <1>4, <3>1, <3>2, <3>3, <3>4, <3>5 DEF AudioDecodeFails
  <2>2. RequestsGood
    <3>1. \E p \in {"release", "quarantine", "reject"} : Goto(h, p)
      BY <1>4 DEF AudioDecodeFails
    <3> QED BY <2>0, <3>1, GotoGood DEF Claimed
  <2>3. RestOK'
    BY <1>4 DEF AudioDecodeFails, RestOK, faults
  <2> QED BY <1>4, <2>1, <2>2, <2>3 DEF AudioDecodeFails
<1>5. CASE AudioQuarantine(h)
  <2>0. handler[h].pc = "quarantine" /\ handler[h].upload \in Uploads
    BY <1>5, AtRow DEF AudioQuarantine, At, Claimed
  <2>1. RequestsGood
    BY <1>5, <2>0, GotoGood DEF AudioQuarantine, Claimed
  <2>2. RestOK'
    BY <1>5, <2>0 DEF AudioQuarantine, RestOK, faults
  <2> QED BY <1>5, <2>1, <2>2 DEF AudioQuarantine
<1>6. CASE AudioConfirmQuarantine(h)
  <2> DEFINE u == handler[h].upload
  <2>0. u \in Uploads /\ pending[u].rec # None /\ handler[h].pc = "confirm"
        /\ handler[h].rec \in Recordings
    BY <1>6, AtRow DEF AudioConfirmQuarantine, At, Claimed
  <2>1. RowsKept
    <3>1. CASE UNCHANGED pending
      BY <3>1
    <3>2. CASE Update(u, Unleased(u, "quarantined"))
      BY <3>2, <2>0, UnleasedKept DEF Statuses, Terminal
    <3> QED BY <1>6, <3>1, <3>2 DEF AudioConfirmQuarantine
  <2>2. RequestsGood
    <3>1. CASE Reply(h)
      BY <3>1, ReplyGood
    <3>2. CASE Goto(h, "release")
      BY <3>2, <2>0, GotoGood DEF Claimed
    <3> QED BY <1>6, <3>1, <3>2 DEF AudioConfirmQuarantine, ReplyDone
  <2>3. RestOK'
    BY <1>6, <2>0, ErrorOK DEF AudioConfirmQuarantine, ReplyDone, RestOK
  <2> QED BY <1>6, <2>1, <2>2, <2>3 DEF AudioConfirmQuarantine
<1>7. CASE AudioReject(h)
  <2>1. RowsKept
    BY <1>7, AtRow, ReleaseKept DEF AudioReject, At, Claimed
  <2>2. RequestsGood
    BY <1>7, ReplyGood DEF AudioReject
  <2>3. RestOK'
    BY <1>7 DEF AudioReject, RestOK, faults
  <2> QED BY <1>7, <2>1, <2>2, <2>3 DEF AudioReject
<1> QED BY <1>1, <1>2, <1>3, <1>4, <1>5, <1>6, <1>7

\* A drawn call id is a call no row, file or request refers to.
LEMMA FreshCall ==
  ASSUME FreshCalls # {}
  PROVE  /\ Draw(FreshCalls) \in Calls
         /\ Draw(FreshCalls) \notin audio
         /\ calls[Draw(FreshCalls)] = None
         /\ \A h \in Handlers : handler[h].call # Draw(FreshCalls)
<1>1. Draw(FreshCalls) \in FreshCalls
  BY DrawMember
<1> QED BY <1>1 DEF FreshCalls, Stored

\* The steps of receiveAudio that store a payload or answer it as a duplicate.
LEMMA StoreShape ==
  ASSUME Shape, NEW h \in Handlers,
         \/ AudioDedupe(h) \/ AudioMarkDuplicate(h) \/ AudioStore(h)
         \/ AudioCommit(h) \/ AudioRelease(h) \/ RequestFails(h)
  PROVE  Shape'
<1> USE RestOKNow, SameKept, KeptType
<1>1. CASE AudioDedupe(h)
  <2>0. handler[h].pc = "body"
    BY <1>1 DEF AudioDedupe, At
  <2>1. RequestsGood
    <3>1. ASSUME NEW c \in Duplicates(handler[h].rec),
                 Become(h, [handler[h] EXCEPT !.pc = "duplicate", !.call = c])
          PROVE  RequestsGood
      <4> DEFINE q == [handler[h] EXCEPT !.pc = "duplicate", !.call = c]
      <4>1. c \in Calls
        BY DEF Duplicates, Stored
      <4>2. handler[h] \in Request /\ q \in Request
        BY <4>1 DEF Shape, TypeOK, Request, Claimed
      <4>3. q.pc = "duplicate" /\ q.call = c /\ q.rec = handler[h].rec
            /\ q.upload = handler[h].upload
        BY <4>2 DEF Request
      <4>4. GoodRequest(q)
        BY <2>0, <4>1, <4>3, AtRow DEF GoodRequest, Claimed
      <4> QED BY <3>1, <4>2, <4>4, BecomeGood
    <3>2. CASE Goto(h, "store")
      BY <2>0, <3>2, GotoGood DEF Claimed
    <3> QED BY <1>1, <3>1, <3>2 DEF AudioDedupe
  <2>2. RestOK'
    BY <1>1 DEF AudioDedupe, RestOK, store, faults
  <2> QED BY <1>1, <2>1, <2>2 DEF AudioDedupe, store
<1>2. CASE AudioMarkDuplicate(h)
  <2> DEFINE u == handler[h].upload
             w == [Unleased(u, "duplicate") EXCEPT !.call = handler[h].call]
  <2>0. u \in Uploads /\ pending[u].status # "absent" /\ handler[h].pc = "duplicate"
        /\ handler[h].rec \in Recordings /\ pending[u] \in Row /\ handler[h] \in Request
    BY <1>2, AtRow DEF AudioMarkDuplicate, At, Claimed
  <2>1. w \in Row /\ w.rec = pending[u].rec /\ w.token = pending[u].token
        /\ w.status = "duplicate"
    BY <2>0 DEF Unleased, Row, Request, Statuses, Terminal
  <2>2. RowsKept
    BY <1>2, <2>0, <2>1, UpdateKept DEF AudioMarkDuplicate
  <2>3. RequestsGood
    BY <1>2, ReplyGood DEF AudioMarkDuplicate, ReplyDone
  <2>4. RestOK'
    BY <1>2, <2>0 DEF AudioMarkDuplicate, ReplyDone, RestOK, faults
  <2> QED BY <1>2, <2>2, <2>3, <2>4 DEF AudioMarkDuplicate
<1>3. CASE AudioStore(h)
  <2> DEFINE c == Draw(FreshCalls)
             q == [handler[h] EXCEPT !.pc = "commit", !.call = c]
  <2>0. handler[h].pc = "store" /\ c \in Calls
    BY <1>3, FreshCall DEF AudioStore, At
  <2> HIDE DEF c
  <2>1. handler[h] \in Request /\ q \in Request
    BY <2>0 DEF Shape, TypeOK, Request, Claimed
  <2>2. GoodRequest(q)
    <3>1. q.pc = "commit" /\ q.call = c /\ q.rec = handler[h].rec
          /\ q.upload = handler[h].upload
      BY <2>1 DEF Request
    <3> QED BY <2>0, <3>1, AtRow DEF GoodRequest, Claimed
  <2>3. RequestsGood
    BY <1>3, <2>1, <2>2, BecomeGood DEF AudioStore, c
  <2>4. RestOK'
    BY <1>3, <2>0 DEF AudioStore, RestOK, faults, c
  <2> QED BY <1>3, <2>3, <2>4 DEF AudioStore
<1>4. CASE AudioCommit(h)
  <2> DEFINE u == handler[h].upload
             w == [Unleased(u, "completed") EXCEPT !.call = handler[h].call]
  <2>0. u \in Uploads /\ pending[u].status # "absent" /\ handler[h].pc = "commit"
        /\ handler[h].rec \in Recordings /\ pending[u] \in Row /\ handler[h] \in Request
        /\ handler[h].call \in Calls
    BY <1>4, AtRow DEF AudioCommit, At, Claimed, Shape, RequestShape, GoodRequest
  <2>1. w \in Row /\ w.rec = pending[u].rec /\ w.token = pending[u].token
        /\ w.status = "completed"
    BY <2>0 DEF Unleased, Row, Request, Statuses, Terminal
  <2>2. RowsKept
    <3>1. CASE UNCHANGED pending
      BY <3>1
    <3>2. CASE Update(u, w)
      BY <3>2, <2>0, <2>1, UpdateKept
    <3> QED BY <1>4, <3>1, <3>2 DEF AudioCommit, Finalize
  <2>3. RequestsGood
    <3>1. CASE Reply(h)
      BY <3>1, ReplyGood
    <3>2. CASE Goto(h, "release")
      BY <3>2, <2>0, GotoGood DEF Claimed
    <3> QED BY <1>4, <3>1, <3>2 DEF AudioCommit, ReplyDone
  <2>4. calls' \in [Calls -> Recordings \cup {None}]
    BY <1>4, <2>0 DEF AudioCommit, Finalize, Shape, TypeOK
  <2>5. RestOK'
    BY <1>4, <2>0, <2>4, ErrorOK DEF AudioCommit, ReplyDone, RestOK
  <2> QED BY <1>4, <2>2, <2>3, <2>5 DEF AudioCommit
<1>5. CASE AudioRelease(h)
  <2>1. RowsKept
    BY <1>5, AtRow, ReleaseKept DEF AudioRelease, At, Claimed
  <2>2. RequestsGood
    BY <1>5, ReplyGood DEF AudioRelease
  <2>3. RestOK'
    BY <1>5 DEF AudioRelease, RestOK, faults
  <2> QED BY <1>5, <2>1, <2>2, <2>3 DEF AudioRelease
<1>6. CASE RequestFails(h)
  <2>1. RequestsGood
    <3>1. CASE Reply(h)
      BY <3>1, ReplyGood
    <3>2. CASE handler[h].pc \in {"body", "quarantine", "store", "confirm", "commit"}
               /\ Goto(h, "release")
      BY <3>2, GotoGood DEF Claimed
    <3> QED BY <1>6, <3>1, <3>2 DEF RequestFails, ReplyDone
  <2>2. acked' \in SUBSET Recordings
    BY <1>6, AtRow DEF RequestFails, ReplyDone, At, Claimed, Shape, TypeOK
  <2>3. RestOK'
    BY <1>6, <2>2, ErrorOK DEF RequestFails, RestOK
  <2> QED BY <1>6, <2>1, <2>3 DEF RequestFails
<1> QED BY <1>1, <1>2, <1>3, <1>4, <1>5, <1>6

\* Time, the cleanup and a crash.
LEMMA TimeShape ==
  ASSUME Shape,
         \/ \E u \in Uploads : SessionExpires(u) \/ LeaseLapses(u) \/ GraceElapses(u)
         \/ Cleanup
         \/ Crash
  PROVE  Shape'
<1> USE RestOKNow, SameKept, KeptType
<1>1. ASSUME NEW u \in Uploads, SessionExpires(u) \/ LeaseLapses(u) \/ GraceElapses(u)
      PROVE  Shape'
  <2>0. pending[u] \in Row
    BY DEF Shape, TypeOK
  <2>1. CASE SessionExpires(u)
    <3> DEFINE w == [pending[u] EXCEPT !.fresh = FALSE]
    <3>1. w \in Row /\ w.rec = pending[u].rec /\ w.token = pending[u].token
          /\ w.status = pending[u].status
      BY <2>0 DEF Row
    <3>2. RowsKept
      BY <2>1, <3>1, UpdateKept DEF SessionExpires
    <3>3. RestOK'
      BY <2>1, ErrorOK DEF SessionExpires, RestOK
    <3> QED BY <2>1, <3>2, <3>3 DEF SessionExpires
  <2>2. CASE LeaseLapses(u)
    <3> DEFINE w == [pending[u] EXCEPT !.lease = "lapsed"]
    <3>1. w \in Row /\ w.rec = pending[u].rec /\ w.token = pending[u].token
          /\ w.status = pending[u].status
      BY <2>0 DEF Row
    <3>2. RowsKept
      BY <2>2, <3>1, UpdateKept DEF LeaseLapses
    <3>3. RestOK'
      BY <2>2 DEF LeaseLapses, RestOK, faults
    <3> QED BY <2>2, <3>2, <3>3 DEF LeaseLapses
  <2>3. CASE GraceElapses(u)
    <3> DEFINE w == [pending[u] EXCEPT !.aged = TRUE]
    <3>1. w \in Row /\ w.rec = pending[u].rec /\ w.token = pending[u].token
          /\ w.status = pending[u].status
      BY <2>0 DEF Row
    <3>2. RowsKept
      BY <2>3, <3>1, UpdateKept DEF GraceElapses
    <3>3. RestOK'
      BY <2>3 DEF GraceElapses, RestOK, faults
    <3> QED BY <2>3, <3>2, <3>3 DEF GraceElapses
  <2> QED BY <1>1, <2>1, <2>2, <2>3
<1>2. CASE CleanupExpire
  <2>1. \A u \in Uploads : Unleased(u, "expired") \in Row
                           /\ Unleased(u, "expired").rec = pending[u].rec
                           /\ Unleased(u, "expired").token = pending[u].token
                           /\ Unleased(u, "expired").status = "expired"
    BY UnleasedRow DEF Statuses
  <2>2. RowsKept
    BY <1>2, <2>1 DEF CleanupExpire, Stale, RowsKept, Shape, TypeOK
  <2>3. RestOK'
    BY <1>2 DEF CleanupExpire, RestOK, faults
  <2> QED BY <1>2, <2>2, <2>3 DEF CleanupExpire
<1>3. CASE CleanupRecover
  <2>1. \A u \in Uploads : Unleased(u, "pending") \in Row
                           /\ Unleased(u, "pending").rec = pending[u].rec
                           /\ Unleased(u, "pending").token = pending[u].token
                           /\ Unleased(u, "pending").status = "pending"
    BY UnleasedRow DEF Statuses
  <2>2. RowsKept
    BY <1>3, <2>1 DEF CleanupRecover, LeaseLost, RowsKept, Shape, TypeOK
  <2>3. RestOK'
    BY <1>3 DEF CleanupRecover, RestOK, faults
  <2> QED BY <1>3, <2>2, <2>3 DEF CleanupRecover
<1>4. CASE Crash
  <2>1. Idle \in Request /\ GoodRequest(Idle)
    BY DEF Idle, Request, GoodRequest, Claimed
  <2>2. RequestsGood
    BY <1>4, <2>1 DEF Crash, RequestsGood
  <2>3. crashes' \in 0..MaxCrashes
    BY <1>4, UploadAssumption DEF Crash, Shape, TypeOK
  <2>4. RestOK'
    BY <1>4, <2>3 DEF Crash, RestOK, store
  <2> QED BY <1>4, <2>2, <2>4 DEF Crash, store
<1> QED BY <1>1, <1>2, <1>3, <1>4 DEF Cleanup

\* Every step keeps the shape.
LEMMA ShapeNext == ASSUME Shape, [Next]_vars PROVE Shape'
<1>1. ASSUME NEW h \in Handlers, NEW r \in Recordings, CreateBegin(h, r) \/ AudioBegin(h, r)
      PROVE  Shape'
  BY <1>1, BeginShape
<1>2. ASSUME NEW h \in Handlers, HandlerStep(h) \/ RequestFails(h)
      PROVE  Shape'
  BY <1>2, TokenShape, ReceiveShape, StoreShape DEF HandlerStep
<1>3. CASE UNCHANGED vars
  BY <1>3 DEF vars, Shape, TypeOK, RequestShape, RowShape, GoodRequest
<1> QED BY <1>1, <1>2, <1>3, TimeShape DEF Next

\* Every reachable state is well-formed: each variable has its type, a request
\* works on a row of its own recording, and a token opens only a row of the
\* recording it was issued for.
THEOREM ShapeCorrect == Spec => []Shape
<1>1. Init => Shape
  BY ShapeInit
<1>2. Shape /\ [Next]_vars => Shape'
  BY ShapeNext
<1> QED BY <1>1, <1>2, PTL DEF Spec

\* The tables, the requests and the senders always have their types.
THEOREM TypeCorrect == Spec => []TypeOK
<1>1. Shape => TypeOK
  BY DEF Shape
<1> QED BY <1>1, ShapeCorrect, PTL

-----------------------------------------------------------------------------
(* Calls, their media and their answers, however requests race.            *)

\* A request about to commit has its file, and nobody else commits that call.
CommitReady ==
  \A h \in Handlers :
    At(h, "commit") =>
      /\ handler[h].call \in audio
      /\ handler[h].call \in Calls \ Stored
      /\ \A g \in Handlers : At(g, "commit") /\ handler[g].call = handler[h].call => g = h

\* A request about to answer "duplicate" names a stored call that matches.
DuplicateReady ==
  \A h \in Handlers : At(h, "duplicate") => handler[h].call \in Duplicates(handler[h].rec)

Media == /\ CommitReady
         /\ DuplicateReady
         /\ StoredCallHasAudio
         /\ AnswerIsStored
         /\ SourceCallStoredOnce
         /\ OrphanNeedsCrash

\* The empty server has the media of all its calls.
LEMMA MediaInit == Init => Media
  BY DEF Init, Media, CommitReady, DuplicateReady, StoredCallHasAudio, AnswerIsStored,
         SourceCallStoredOnce, OrphanNeedsCrash, Stored, At, NoRow, Idle

\* A row gets no answer it did not have.
AnswersKept ==
  \A u \in Uploads :
    pending'[u].status \in {"completed", "duplicate"} =>
      /\ pending[u].status \in {"completed", "duplicate"}
      /\ pending'[u].call = pending[u].call
      /\ pending'[u].rec = pending[u].rec

\* Requests before a commit or an answer stay there, and no other gets there.
DecisionsKept ==
  \A h \in Handlers :
    handler[h].pc \in {"commit", "duplicate"} \/ handler'[h].pc \in {"commit", "duplicate"} =>
      handler'[h] = handler[h]

\* A step that stores no call, removes no file and answers no row.
LEMMA MediaKept ==
  ASSUME Media, AnswersKept, DecisionsKept, UNCHANGED <<calls, audio, lostAck, crashes>>
  PROVE  Media'
<1>1. CommitReady'
  BY DEF Media, DecisionsKept, CommitReady, At, Stored
<1>2. DuplicateReady'
  BY DEF Media, DecisionsKept, DuplicateReady, At, Duplicates, Stored
<1>3. StoredCallHasAudio'
  BY DEF Media, StoredCallHasAudio, HasAudio, Stored
<1>4. AnswerIsStored'
  BY DEF Media, AnswersKept, AnswerIsStored, Duplicates, Stored
<1>5. SourceCallStoredOnce'
  BY DEF Media, SourceCallStoredOnce, Stored
<1>6. OrphanNeedsCrash'
  BY DEF Media, DecisionsKept, OrphanNeedsCrash, At, Stored
<1> QED BY <1>1, <1>2, <1>3, <1>4, <1>5, <1>6 DEF Media

\* A step of one request leaves the others where they are.
LEMMA OthersStay ==
  ASSUME Shape, NEW h \in Handlers, NEW q, Become(h, q)
  PROVE  /\ handler'[h] = q
         /\ \A g \in Handlers \ {h} : handler'[g] = handler[g]
  BY DEF Shape, TypeOK, Become

\* The actions that accept a request and look its row up.
LEMMA MediaBegin ==
  ASSUME Shape, Media, NEW h \in Handlers, NEW r \in Recordings,
         CreateBegin(h, r) \/ AudioBegin(h, r)
  PROVE  Media'
<1>1. UNCHANGED <<pending, calls, audio, lostAck, crashes>> /\ At(h, "idle")
  BY DEF CreateBegin, AudioBegin, Answered, store, faults
<1>2. UNCHANGED handler
      \/ \E q : q.pc \notin {"commit", "duplicate"} /\ Become(h, q)
  <2> DEFINE l == [Idle EXCEPT !.pc = "lookup", !.rec = r]
             a(u) == [Idle EXCEPT !.pc = IF pending[u].fresh THEN "claim" ELSE "expire",
                                  !.rec = r, !.upload = u]
  <2>1. l.pc = "lookup"
    BY DEF Idle
  <2>2. \A u : a(u).pc \in {"claim", "expire"}
    BY DEF Idle
  <2>3. UNCHANGED handler \/ Become(h, l) \/ \E u \in TokenRows(held[r]) : Become(h, a(u))
    BY DEF CreateBegin, AudioBegin, Answered
  <2> HIDE DEF l, a
  <2> QED BY <2>1, <2>2, <2>3
<1>3. DecisionsKept
  BY <1>1, <1>2, OthersStay DEF DecisionsKept, At
<1>4. AnswersKept
  BY <1>1 DEF AnswersKept
<1> QED BY <1>1, <1>3, <1>4, MediaKept

\* A request at neither decision that goes to neither decides nothing.
LEMMA PlainStep ==
  ASSUME Shape, NEW h \in Handlers, handler[h].pc \notin {"commit", "duplicate"},
         \/ Reply(h)
         \/ \E p \in (Unclaimed \cup Claimed) \ {"commit", "duplicate"} : Goto(h, p)
         \/ \E u \in Uploads : Become(h, [handler[h] EXCEPT !.pc = "reissue", !.upload = u])
  PROVE  DecisionsKept
<1> DEFINE m(p) == [handler[h] EXCEPT !.pc = p]
           n(u) == [handler[h] EXCEPT !.pc = "reissue", !.upload = u]
<1>1. handler[h] \in Request
  BY DEF Shape, TypeOK
<1>2. /\ \A p : m(p).pc = p
      /\ \A u : n(u).pc = "reissue"
  BY <1>1 DEF Request
<1>3. Idle.pc = "idle"
  BY DEF Idle
<1>4. ASSUME NEW q, q.pc \notin {"commit", "duplicate"}, Become(h, q)
      PROVE  DecisionsKept
  BY <1>4, OthersStay DEF DecisionsKept
<1>5. CASE Reply(h)
  BY <1>3, <1>4, <1>5 DEF Reply
<1>6. ASSUME NEW p \in (Unclaimed \cup Claimed) \ {"commit", "duplicate"}, Goto(h, p)
      PROVE  DecisionsKept
  <2>1. m(p).pc = p /\ Become(h, m(p))
    BY <1>2, <1>6 DEF Goto
  <2> HIDE DEF m
  <2> QED BY <1>4, <2>1
<1>7. ASSUME NEW u \in Uploads,
             Become(h, [handler[h] EXCEPT !.pc = "reissue", !.upload = u])
      PROVE  DecisionsKept
  <2>1. n(u).pc = "reissue" /\ Become(h, n(u))
    BY <1>2, <1>7
  <2> HIDE DEF n
  <2> QED BY <1>4, <2>1
<1> QED BY <1>5, <1>6, <1>7

\* Updating one row to a status that answers nothing adds no answer.
LEMMA NoAnswer ==
  ASSUME Shape, NEW u \in Uploads, NEW w, Update(u, w),
         \/ w.status \notin {"completed", "duplicate"}
         \/ w.status = pending[u].status /\ w.call = pending[u].call /\ w.rec = pending[u].rec
  PROVE  AnswersKept
<1>1. pending'[u] = w /\ \A v \in Uploads \ {u} : pending'[v] = pending[v]
  BY DEF Shape, TypeOK, Update
<1> QED BY <1>1 DEF AnswersKept

\* Taking a row out of 'uploading' without answering it answers nothing.
LEMMA NoAnswerUnleased ==
  ASSUME Shape, NEW u \in Uploads, NEW s \in Statuses \ {"completed", "duplicate"},
         UNCHANGED pending \/ Update(u, Unleased(u, s))
  PROVE  AnswersKept
<1>1. Unleased(u, s).status = s
  BY UnleasedRow
<1>2. CASE UNCHANGED pending
  BY <1>2 DEF AnswersKept
<1> QED BY <1>1, <1>2, NoAnswer

\* The steps of a request that neither store a payload nor answer it as a duplicate.
LEMMA MediaPlain ==
  ASSUME Shape, Media, NEW h \in Handlers,
         \/ CreateLookup(h) \/ CreateInsert(h) \/ CreateReissue(h) \/ AudioExpire(h)
         \/ AudioClaim(h) \/ (\E d \in Digests : AudioDecodeFails(h, d))
         \/ AudioQuarantine(h) \/ AudioConfirmQuarantine(h) \/ AudioReject(h)
         \/ AudioRelease(h)
  PROVE  Media'
<1> DEFINE u == handler[h].upload
<1>0. UNCHANGED pending => AnswersKept
  BY DEF AnswersKept
<1>1. CASE CreateLookup(h)
  <2>1. \/ Reply(h)
        \/ Goto(h, "insert")
        \/ \E v \in Uploads : Become(h, [handler[h] EXCEPT !.pc = "reissue", !.upload = v])
    BY <1>1 DEF CreateLookup, Answered, InProgress, ReplyDone, KeyRows
  <2>2. DecisionsKept
    BY PlainStep, <1>1, <2>1 DEF CreateLookup, Answered, InProgress, At, Unclaimed
  <2> QED BY MediaKept, <1>0, <1>1, <2>2 DEF CreateLookup, Answered, InProgress, store, faults
<1>2. CASE CreateInsert(h)
  <2> DEFINE w == [NoRow EXCEPT !.status = "pending", !.rec = handler[h].rec,
                                !.fresh = TRUE, !.token = Draw(FreshTokens)]
  <2>1. DecisionsKept
    BY PlainStep, <1>2 DEF CreateInsert, ReplyToken, At
  <2>2. w.status = "pending"
    BY DEF NoRow
  <2>3. UNCHANGED pending \/ (FreeUploads # {} /\ Update(Draw(FreeUploads), w))
    BY <1>2 DEF CreateInsert
  <2> HIDE DEF w
  <2>4. AnswersKept
    BY <1>0, <2>2, <2>3, FreeUpload, NoAnswer
  <2> QED BY MediaKept, <1>2, <2>1, <2>4 DEF CreateInsert
<1>3. CASE CreateReissue(h)
  <2> DEFINE w == [Unleased(u, "pending") EXCEPT !.rec = handler[h].rec, !.fresh = TRUE,
                                                 !.token = Draw(FreshTokens)]
  <2>0. u \in Uploads
    BY <1>3, AtRow DEF CreateReissue, At
  <2>1. DecisionsKept
    BY PlainStep, <1>3 DEF CreateReissue, ReplyToken, At
  <2>2. w.status = "pending"
    <3>1. Unleased(u, "pending") \in Row
      BY <2>0, UnleasedRow DEF Statuses
    <3>2. w.status = Unleased(u, "pending").status /\ Unleased(u, "pending").status = "pending"
      BY <2>0, <3>1, UnleasedRow DEF Row, Statuses
    <3> QED BY <3>2
  <2>3. Update(u, w)
    BY <1>3 DEF CreateReissue
  <2> HIDE DEF w
  <2>4. AnswersKept
    BY <2>0, <2>2, <2>3, NoAnswer
  <2> QED BY MediaKept, <1>3, <2>1, <2>4 DEF CreateReissue
<1>4. CASE AudioExpire(h)
  <2>1. DecisionsKept
    BY PlainStep, <1>4 DEF AudioExpire, At
  <2>2. AnswersKept
    <3>1. u \in Uploads
      BY <1>4, AtRow DEF AudioExpire, At
    <3>2. UNCHANGED pending \/ Update(u, Unleased(u, "expired"))
      BY <1>4 DEF AudioExpire
    <3> QED BY <3>1, <3>2, NoAnswerUnleased DEF Statuses
  <2> QED BY MediaKept, <1>4, <2>1, <2>2 DEF AudioExpire, faults
<1>5. CASE AudioClaim(h)
  <2>0. u \in Uploads /\ pending[u] \in Row
    BY <1>5, AtRow DEF AudioClaim, At
  <2>1. DecisionsKept
    BY PlainStep, <1>5 DEF AudioClaim, At, Claimed
  <2>2. AnswersKept
    BY <1>0, <1>5, <2>0, NoAnswer DEF AudioClaim, Claim, Row
  <2> QED BY MediaKept, <1>5, <2>1, <2>2 DEF AudioClaim
<1>6. ASSUME NEW d \in Digests, AudioDecodeFails(h, d) PROVE Media'
  <2>0. u \in Uploads /\ pending[u] \in Row
    BY <1>6, AtRow DEF AudioDecodeFails, At, Claimed
  <2>1. DecisionsKept
    BY PlainStep, <1>6 DEF AudioDecodeFails, At, Claimed
  <2>2. AnswersKept
    <3>1. CASE UNCHANGED pending
      BY <1>0, <3>1
    <3>2. ASSUME NEW n, NEW a,
                 Update(u, [pending[u] EXCEPT !.fails = n, !.digest = d, !.aged = a])
          PROVE  AnswersKept
      <4> DEFINE w == [pending[u] EXCEPT !.fails = n, !.digest = d, !.aged = a]
      <4>1. w.status = pending[u].status /\ w.call = pending[u].call /\ w.rec = pending[u].rec
        BY <2>0 DEF Row
      <4> QED BY <2>0, <3>2, <4>1, NoAnswer
    <3> QED BY <1>6, <3>1, <3>2 DEF AudioDecodeFails
  <2> QED BY MediaKept, <1>6, <2>1, <2>2 DEF AudioDecodeFails, faults
<1>7. CASE AudioQuarantine(h)
  <2>1. DecisionsKept
    BY PlainStep, <1>7 DEF AudioQuarantine, At, Claimed
  <2> QED BY MediaKept, <1>0, <1>7, <2>1 DEF AudioQuarantine, faults
<1>8. CASE AudioConfirmQuarantine(h)
  <2>1. DecisionsKept
    BY PlainStep, <1>8 DEF AudioConfirmQuarantine, ReplyDone, At, Claimed
  <2>2. AnswersKept
    <3>1. u \in Uploads
      BY <1>8, AtRow DEF AudioConfirmQuarantine, At, Claimed
    <3>2. UNCHANGED pending \/ Update(u, Unleased(u, "quarantined"))
      BY <1>8 DEF AudioConfirmQuarantine
    <3> QED BY <3>1, <3>2, NoAnswerUnleased DEF Statuses, Terminal
  <2> QED BY MediaKept, <1>8, <2>1, <2>2 DEF AudioConfirmQuarantine, faults
<1>9. CASE AudioReject(h) \/ AudioRelease(h)
  <2>1. DecisionsKept
    BY PlainStep, <1>9 DEF AudioReject, AudioRelease, At
  <2>2. AnswersKept
    <3>1. u \in Uploads
      BY <1>9, AtRow DEF AudioReject, AudioRelease, At, Claimed
    <3>2. UNCHANGED pending \/ Update(u, Unleased(u, "pending"))
      BY <1>9 DEF AudioReject, AudioRelease, Release
    <3> QED BY <3>1, <3>2, NoAnswerUnleased DEF Statuses
  <2> QED BY MediaKept, <1>9, <2>1, <2>2 DEF AudioReject, AudioRelease, faults
<1> QED BY <1>1, <1>2, <1>3, <1>4, <1>5, <1>6, <1>7, <1>8, <1>9

\* The steps that choose, store or answer a call.
LEMMA MediaDedupe ==
  ASSUME Shape, Media, NEW h \in Handlers, AudioDedupe(h)
  PROVE  Media'
<1>0. /\ handler[h].pc = "body" /\ handler[h] \in Request
      /\ UNCHANGED <<pending, calls, audio, lostAck, crashes>>
  BY DEF AudioDedupe, At, store, faults, Shape, TypeOK
<1>1. CASE Goto(h, "store")
  <2>1. DecisionsKept
    BY <1>0, <1>1, PlainStep DEF Claimed
  <2>2. AnswersKept
    BY <1>0 DEF AnswersKept
  <2> QED BY <1>0, <2>1, <2>2, MediaKept
<1>2. ASSUME NEW c \in Duplicates(handler[h].rec),
             Become(h, [handler[h] EXCEPT !.pc = "duplicate", !.call = c])
      PROVE  Media'
  <2> DEFINE q == [handler[h] EXCEPT !.pc = "duplicate", !.call = c]
  <2>1. q.pc = "duplicate" /\ q.call = c /\ q.rec = handler[h].rec
    BY <1>0 DEF Request
  <2>2. handler'[h] = q /\ \A g \in Handlers \ {h} : handler'[g] = handler[g]
    BY <1>2, OthersStay
  <2> HIDE DEF q
  <2>3. CommitReady'
    BY <1>0, <2>1, <2>2 DEF Media, CommitReady, At, Stored
  <2>4. DuplicateReady'
    BY <1>0, <2>1, <2>2 DEF Media, DuplicateReady, At, Duplicates, Stored
  <2>5. OrphanNeedsCrash'
    BY <1>0, <2>1, <2>2 DEF Media, OrphanNeedsCrash, At, Stored
  <2>6. StoredCallHasAudio' /\ AnswerIsStored' /\ SourceCallStoredOnce'
    BY <1>0 DEF Media, StoredCallHasAudio, HasAudio, AnswerIsStored, SourceCallStoredOnce,
                Duplicates, Stored
  <2> QED BY <2>3, <2>4, <2>5, <2>6 DEF Media
<1> QED BY <1>1, <1>2 DEF AudioDedupe

\* The row of a duplicate is answered with the stored call it equals.
LEMMA MediaMark ==
  ASSUME Shape, Media, NEW h \in Handlers, AudioMarkDuplicate(h)
  PROVE  Media'
<1> DEFINE u == handler[h].upload
           w == [Unleased(u, "duplicate") EXCEPT !.call = handler[h].call]
<1>0. /\ handler[h].pc = "duplicate" /\ u \in Uploads /\ pending[u] \in Row
      /\ SharesKey(pending[u].rec, handler[h].rec)
      /\ handler[h].rec \in Recordings
      /\ handler[h].call \in Duplicates(handler[h].rec)
      /\ UNCHANGED <<calls, audio, lostAck, crashes>>
  BY AtRow DEF AudioMarkDuplicate, At, faults, Claimed, Media, DuplicateReady
<1>1. w.status = "duplicate" /\ w.call = handler[h].call /\ w.rec = pending[u].rec
  BY <1>0 DEF Unleased, Row
<1>2. /\ handler'[h] = Idle /\ Idle.pc = "idle"
      /\ \A g \in Handlers \ {h} : handler'[g] = handler[g]
  BY OthersStay DEF AudioMarkDuplicate, ReplyDone, Reply, Idle
<1>3. pending'[u] = w /\ \A v \in Uploads \ {u} : pending'[v] = pending[v]
  BY <1>0 DEF AudioMarkDuplicate, Update, Shape, TypeOK
<1> HIDE DEF w
<1>4. CommitReady'
  BY <1>0, <1>2 DEF Media, CommitReady, At, Stored
<1>5. DuplicateReady'
  BY <1>0, <1>2 DEF Media, DuplicateReady, At, Duplicates, Stored
<1>6. AnswerIsStored'
  BY <1>0, <1>1, <1>3 DEF Media, AnswerIsStored, Duplicates, Stored
<1>7. OrphanNeedsCrash'
  BY <1>0, <1>2 DEF Media, OrphanNeedsCrash, At, Stored
<1>8. StoredCallHasAudio' /\ SourceCallStoredOnce'
  BY <1>0 DEF Media, StoredCallHasAudio, HasAudio, SourceCallStoredOnce, Stored
<1> QED BY <1>4, <1>5, <1>6, <1>7, <1>8 DEF Media

\* The payload gets its final path under a call id nobody uses.
LEMMA MediaStored ==
  ASSUME Shape, Media, NEW h \in Handlers, AudioStore(h)
  PROVE  Media'
<1> DEFINE c == Draw(FreshCalls)
           q == [handler[h] EXCEPT !.pc = "commit", !.call = c]
<1>0. /\ handler[h].pc = "store" /\ handler[h] \in Request
      /\ UNCHANGED <<pending, calls, lostAck, crashes>>
      /\ audio' = audio \cup {c}
  BY DEF AudioStore, At, faults, Shape, TypeOK
<1>1. /\ c \in Calls /\ c \notin audio /\ c \notin Stored
      /\ \A g \in Handlers : handler[g].call # c
  BY FreshCall DEF AudioStore, Stored
<1>2. q.pc = "commit" /\ q.call = c
  BY <1>0 DEF Request
<1>3. handler'[h] = q /\ \A g \in Handlers \ {h} : handler'[g] = handler[g]
  BY OthersStay DEF AudioStore
<1> HIDE DEF c, q
<1>4. CommitReady'
  BY <1>0, <1>1, <1>2, <1>3 DEF Media, CommitReady, At, Stored
<1>5. DuplicateReady'
  BY <1>0, <1>2, <1>3 DEF Media, DuplicateReady, At, Duplicates, Stored
<1>6. OrphanNeedsCrash'
  BY <1>0, <1>1, <1>2, <1>3 DEF Media, OrphanNeedsCrash, At, Stored
<1>7. StoredCallHasAudio' /\ AnswerIsStored' /\ SourceCallStoredOnce'
  BY <1>0 DEF Media, StoredCallHasAudio, HasAudio, AnswerIsStored, SourceCallStoredOnce,
              Duplicates, Stored
<1> QED BY <1>4, <1>5, <1>6, <1>7 DEF Media

\* The commit of a call, whether its reply arrives or not.
LEMMA MediaFinalize ==
  ASSUME Shape, Media, NEW h \in Handlers, At(h, "commit"), Finalize(h),
         UNCHANGED crashes, Reply(h) \/ Goto(h, "release"),
         \/ UNCHANGED <<audio, lostAck>>
         \/ /\ audio' = audio \ {handler[h].call}
            /\ lostAck' = lostAck \cup {handler[h].call}
  PROVE  Media'
<1> DEFINE u == handler[h].upload
           c == handler[h].call
           r == handler[h].rec
           w == [Unleased(u, "completed") EXCEPT !.call = c]
<1>0. /\ u \in Uploads /\ pending[u] \in Row /\ SharesKey(pending[u].rec, r) /\ r \in Recordings
      /\ r # None /\ handler[h] \in Request
  BY AtRow, UploadAssumption DEF At, Claimed
<1>1. w.status = "completed" /\ w.call = c /\ w.rec = pending[u].rec
  BY <1>0 DEF Unleased, Row
<1>2. /\ handler'[h].pc \notin {"commit", "duplicate"}
      /\ \A g \in Handlers \ {h} : handler'[g] = handler[g]
  BY <1>0, OthersStay DEF Reply, Goto, Idle, Request
<1>3. pending'[u] = w /\ \A v \in Uploads \ {u} : pending'[v] = pending[v]
  BY <1>0 DEF Finalize, Update, Shape, TypeOK
<1>4. /\ c \in Calls \ Stored /\ c \in audio
      /\ \A g \in Handlers : At(g, "commit") /\ handler[g].call = c => g = h
  BY DEF Media, CommitReady
<1>5. /\ calls'[c] = r
      /\ \A d \in Calls \ {c} : calls'[d] = calls[d]
      /\ Stored' = Stored \cup {c}
  BY <1>0, <1>4 DEF Finalize, Shape, TypeOK, Stored
<1>6. <<r, r>> \in Matches /\ ~SourceClash(r)
  BY <1>0, UploadAssumption DEF Finalize
<1>7. /\ \A d \in Calls \ {c} : d \in audio' <=> d \in audio
      /\ \A d \in Calls \ {c} : d \in lostAck' <=> d \in lostAck
      /\ c \in audio' \/ c \in lostAck'
      /\ audio' \subseteq audio
  BY <1>4
<1> HIDE DEF w, c, u, r
<1>8. CommitReady'
  <2> SUFFICES ASSUME NEW g \in Handlers, At(g, "commit")'
               PROVE  /\ handler'[g].call \in audio'
                      /\ handler'[g].call \in Calls \ Stored'
                      /\ \A k \in Handlers :
                           At(k, "commit")' /\ handler'[k].call = handler'[g].call => k = g
    BY DEF CommitReady
  <2>1. handler'[g] = handler[g] /\ At(g, "commit") /\ g # h
    BY <1>2 DEF At
  <2>2. /\ handler[g].call \in audio /\ handler[g].call \in Calls \ Stored
        /\ handler[g].call # c
        /\ \A k \in Handlers : At(k, "commit") /\ handler[k].call = handler[g].call => k = g
    BY <1>4, <2>1 DEF Media, CommitReady
  <2> QED BY <1>2, <1>5, <1>7, <2>1, <2>2 DEF At
<1>14. \A s : /\ {d \in Stored : <<calls[d], s>> \in Matches} \subseteq
                    {d \in Stored' : <<calls'[d], s>> \in Matches}
              /\ s = r => c \in {d \in Stored' : <<calls'[d], s>> \in Matches}
  <2>1. \A d \in Stored : d \in Stored' /\ calls'[d] = calls[d]
    BY <1>4, <1>5 DEF Stored
  <2> QED BY <2>1, <1>5, <1>6
<1>9. DuplicateReady'
  BY <1>2, <1>14 DEF Media, DuplicateReady, At, Duplicates
<1>10. StoredCallHasAudio'
  <2> SUFFICES ASSUME NEW d \in Stored' PROVE HasAudio(d)'
    BY DEF StoredCallHasAudio
  <2>1. CASE d = c
    BY <2>1, <1>7 DEF HasAudio
  <2>2. CASE d # c
    BY <2>2, <1>5, <1>7 DEF Media, StoredCallHasAudio, HasAudio, Stored
  <2> QED BY <2>1, <2>2
<1>11. AnswerIsStored'
  <2> SUFFICES ASSUME NEW v \in Uploads, pending'[v].status \in {"completed", "duplicate"}
               PROVE  \E q \in Recordings :
                        /\ SharesKey(pending'[v].rec, q)
                        /\ pending'[v].call \in {d \in Stored' : <<calls'[d], q>> \in Matches}
    BY DEF AnswerIsStored, Duplicates
  <2>1. CASE v = u
    <3>1. pending'[v].call \in {d \in Stored' : <<calls'[d], r>> \in Matches}
      BY <2>1, <1>1, <1>3, <1>14
    <3> QED BY <2>1, <3>1, <1>0, <1>1, <1>3
  <2>2. CASE v # u
    <3>1. PICK q \in Recordings : SharesKey(pending[v].rec, q) /\ pending[v].call \in Duplicates(q)
      BY <2>2, <1>3 DEF Media, AnswerIsStored
    <3>2. pending'[v].call \in {d \in Stored' : <<calls'[d], q>> \in Matches}
      BY <2>2, <3>1, <1>3, <1>14 DEF Duplicates
    <3> QED BY <2>2, <3>1, <3>2, <1>3
  <2> QED BY <2>1, <2>2
<1>12. SourceCallStoredOnce'
  <2>1. \A d \in Stored : calls'[d] = calls[d] /\ d # c
    BY <1>4, <1>5 DEF Stored
  <2>2. r \in SourceIDs => \A d \in Stored : calls[d] # r
    BY <1>6 DEF SourceClash
  <2> QED BY <1>5, <2>1, <2>2 DEF Media, SourceCallStoredOnce
<1>13. OrphanNeedsCrash'
  <2> SUFFICES ASSUME crashes = 0, NEW d \in audio' \ Stored'
               PROVE  (\E g \in Handlers : At(g, "commit") /\ handler[g].call = d)'
    BY DEF OrphanNeedsCrash
  <2>1. d # c /\ d \in audio \ Stored
    BY <1>5, <1>7
  <2>2. PICK g \in Handlers : At(g, "commit") /\ handler[g].call = d
    BY <2>1 DEF Media, OrphanNeedsCrash
  <2>3. g # h
    BY <2>1, <2>2 DEF c
  <2> QED BY <2>2, <2>3, <1>2 DEF At
<1> QED BY <1>8, <1>9, <1>10, <1>11, <1>12, <1>13 DEF Media

\* A request that gives its call up before the commit removes the file.
LEMMA MediaAborted ==
  ASSUME Shape, Media, NEW h \in Handlers,
         handler[h].pc \notin {"duplicate"}, Goto(h, "release"),
         audio' = IF At(h, "commit") THEN audio \ {handler[h].call} ELSE audio,
         UNCHANGED <<pending, calls, lostAck, crashes>>
  PROVE  Media'
<1> DEFINE q == [handler[h] EXCEPT !.pc = "release"]
<1>1. q.pc = "release"
  BY DEF Shape, TypeOK, Request
<1>2. handler'[h] = q /\ \A g \in Handlers \ {h} : handler'[g] = handler[g]
  BY OthersStay DEF Goto
<1> HIDE DEF q
<1>3. CommitReady'
  BY <1>1, <1>2 DEF Media, CommitReady, At, Stored
<1>4. DuplicateReady'
  BY <1>1, <1>2 DEF Media, DuplicateReady, At, Duplicates, Stored
<1>5. StoredCallHasAudio'
  BY DEF Media, CommitReady, StoredCallHasAudio, HasAudio, Stored
<1>6. OrphanNeedsCrash'
  BY <1>1, <1>2 DEF Media, OrphanNeedsCrash, At, Stored
<1>7. AnswerIsStored' /\ SourceCallStoredOnce'
  BY DEF Media, AnswerIsStored, SourceCallStoredOnce, Duplicates, Stored
<1> QED BY <1>3, <1>4, <1>5, <1>6, <1>7 DEF Media

\* Every statement of a request, failures included.
LEMMA MediaRequest ==
  ASSUME Shape, Media, NEW h \in Handlers, AudioCommit(h) \/ RequestFails(h)
  PROVE  Media'
<1>1. CASE AudioCommit(h)
  <2>1. CASE Finalize(h)
    <3>1. Reply(h) \/ Goto(h, "release")
      BY <1>1 DEF AudioCommit, ReplyDone
    <3>2. \/ UNCHANGED <<audio, lostAck>>
          \/ /\ audio' = audio \ {handler[h].call}
             /\ lostAck' = lostAck \cup {handler[h].call}
      BY <1>1, <2>1 DEF AudioCommit, Finalize
    <3> QED BY <1>1, <2>1, <3>1, <3>2, MediaFinalize DEF AudioCommit
  <2>2. CASE ~Finalize(h)
    <3>1. /\ At(h, "commit") /\ Goto(h, "release") /\ audio' = audio \ {handler[h].call}
          /\ UNCHANGED <<pending, calls, lostAck, crashes>>
      BY <1>1, <2>2 DEF AudioCommit
    <3> QED BY <3>1, MediaAborted DEF At
  <2> QED BY <2>1, <2>2
<1>2. CASE RequestFails(h)
  <2>0. UNCHANGED <<pending, calls, lostAck, crashes>>
    BY <1>2 DEF RequestFails
  <2>1. CASE handler[h].pc \in Unclaimed \cup {"reject", "release"}
    <3>1. Reply(h) /\ UNCHANGED audio
      BY <1>2, <2>1 DEF RequestFails, At, Unclaimed
    <3>2. DecisionsKept
      BY <2>1, <3>1, PlainStep DEF Unclaimed
    <3>3. AnswersKept
      BY <2>0 DEF AnswersKept
    <3> QED BY <2>0, <3>1, <3>2, <3>3, MediaKept
  <2>2. CASE At(h, "duplicate")
    <3>1. Reply(h) /\ UNCHANGED audio
      BY <1>2, <2>2 DEF RequestFails, ReplyDone, At, Unclaimed
    <3>2. handler'[h].pc = "idle" /\ \A g \in Handlers \ {h} : handler'[g] = handler[g]
      BY <3>1, OthersStay DEF Reply, Idle
    <3>3. /\ \A g \in Handlers : At(g, "commit")' => handler'[g] = handler[g]
          /\ \A g \in Handlers : At(g, "duplicate")' => handler'[g] = handler[g]
          /\ \A g \in Handlers : At(g, "commit") => handler'[g] = handler[g]
      BY <2>2, <3>2 DEF At
    <3>5. CommitReady'
      BY <2>0, <3>1, <3>3 DEF Media, CommitReady, At, Stored
    <3>6. DuplicateReady'
      BY <2>0, <3>3 DEF Media, DuplicateReady, At, Duplicates, Stored
    <3>7. OrphanNeedsCrash'
      BY <2>0, <3>1, <3>3 DEF Media, OrphanNeedsCrash, At, Stored
    <3>4. StoredCallHasAudio' /\ AnswerIsStored' /\ SourceCallStoredOnce'
      BY <2>0, <3>1 DEF Media, StoredCallHasAudio, HasAudio, AnswerIsStored,
                        SourceCallStoredOnce, Duplicates, Stored
    <3> QED BY <3>4, <3>5, <3>6, <3>7 DEF Media
  <2>3. CASE handler[h].pc \in {"body", "quarantine", "store", "confirm", "commit"}
    <3>1. /\ Goto(h, "release")
          /\ audio' = IF At(h, "commit") THEN audio \ {handler[h].call} ELSE audio
      BY <1>2, <2>3 DEF RequestFails, At, Unclaimed
    <3> QED BY <2>0, <2>3, <3>1, MediaAborted
  <2> QED BY <1>2, <2>1, <2>2, <2>3 DEF RequestFails
<1> QED BY <1>1, <1>2

\* Time, the cleanup and a crash.
LEMMA MediaTime ==
  ASSUME Shape, Media,
         \/ \E u \in Uploads : SessionExpires(u) \/ LeaseLapses(u) \/ GraceElapses(u)
         \/ Cleanup
         \/ Crash
  PROVE  Media'
<1>1. ASSUME NEW u \in Uploads, SessionExpires(u) \/ LeaseLapses(u) \/ GraceElapses(u)
      PROVE  Media'
  <2>0. pending[u] \in Row /\ UNCHANGED <<calls, audio, lostAck, handler, crashes>>
    BY <1>1 DEF Shape, TypeOK, SessionExpires, LeaseLapses, GraceElapses, faults
  <2>1. \E w : /\ Update(u, w)
               /\ w.status = pending[u].status /\ w.call = pending[u].call
               /\ w.rec = pending[u].rec
    BY <1>1, <2>0 DEF SessionExpires, LeaseLapses, GraceElapses, Row
  <2>2. AnswersKept
    BY <2>1, NoAnswer
  <2>3. DecisionsKept
    BY <2>0 DEF DecisionsKept
  <2> QED BY <2>0, <2>2, <2>3, MediaKept
<1>2. CASE Cleanup
  <2>0. UNCHANGED <<calls, audio, lostAck, handler, crashes>>
    BY <1>2 DEF Cleanup, CleanupExpire, CleanupRecover, faults
  <2>1. \A u \in Uploads : /\ Unleased(u, "expired").status = "expired"
                           /\ Unleased(u, "pending").status = "pending"
    BY UnleasedRow DEF Statuses
  <2>2. AnswersKept
    BY <1>2, <2>1 DEF Cleanup, CleanupExpire, CleanupRecover, Stale, LeaseLost, AnswersKept
  <2>3. DecisionsKept
    BY <2>0 DEF DecisionsKept
  <2> QED BY <2>0, <2>2, <2>3, MediaKept
<1>3. CASE Crash
  <2>0. UNCHANGED <<pending, calls, audio, lostAck>> /\ crashes' # 0
        /\ \A h \in Handlers : handler'[h].pc = "idle"
    BY <1>3 DEF Crash, store, Shape, TypeOK, Idle
  <2>1. CommitReady' /\ DuplicateReady' /\ OrphanNeedsCrash'
    BY <2>0 DEF CommitReady, DuplicateReady, OrphanNeedsCrash, At
  <2>2. StoredCallHasAudio' /\ AnswerIsStored' /\ SourceCallStoredOnce'
    BY <2>0 DEF Media, StoredCallHasAudio, HasAudio, AnswerIsStored,
                SourceCallStoredOnce, Duplicates, Stored
  <2> QED BY <2>1, <2>2 DEF Media
<1> QED BY <1>1, <1>2, <1>3

\* Every step keeps the calls' media and the rows' answers.
LEMMA MediaNext == ASSUME Shape, Media, [Next]_vars PROVE Media'
<1>1. ASSUME NEW h \in Handlers, NEW r \in Recordings, CreateBegin(h, r) \/ AudioBegin(h, r)
      PROVE  Media'
  BY <1>1, MediaBegin
<1>2. ASSUME NEW h \in Handlers, HandlerStep(h) \/ RequestFails(h)
      PROVE  Media'
  BY <1>2, MediaPlain, MediaDedupe, MediaMark, MediaStored, MediaRequest DEF HandlerStep
<1>3. CASE UNCHANGED vars
  BY <1>3 DEF vars, Media, CommitReady, DuplicateReady, StoredCallHasAudio, HasAudio,
              AnswerIsStored, SourceCallStoredOnce, OrphanNeedsCrash, Duplicates, Stored, At
<1> QED BY <1>1, <1>2, <1>3, MediaTime DEF Next

\* The strengthening the safety theorems below follow from.
LEMMA MediaCorrect == Spec => []Media
<1>1. Init => Media
  BY MediaInit
<1>2. Shape /\ Media /\ [Next]_vars => Media'
  BY MediaNext
<1> QED BY <1>1, <1>2, ShapeCorrect, PTL DEF Spec

\* A committed call keeps its audio, whatever other requests do and fail to do,
\* unless COMMIT itself lied (the calls in lostAck).
THEOREM MediaKeptForever == Spec => []StoredCallHasAudio
  BY MediaCorrect, PTL DEF Media

\* The call a sender is referred to exists and is its recording's.
THEOREM AnswersAreStored == Spec => []AnswerIsStored
  BY MediaCorrect, PTL DEF Media

\* A recording with a source id is stored once even by racing requests.
THEOREM SourceIDsAreUnique == Spec => []SourceCallStoredOnce
  BY MediaCorrect, PTL DEF Media

\* Only a crash can leave a media file without a call.
THEOREM NoOrphanWithoutCrash == Spec => []OrphanNeedsCrash
  BY MediaCorrect, PTL DEF Media

=============================================================================
