-------------------------- MODULE UploadRefinement --------------------------
(* The ingestion protocol as an implementation of CallArchive.             *)
EXTENDS UploadSession

\* What the archive promises anything about: the answers and the payloads of
\* recordings whose idempotency key is their own.
SetAside == {r \in Recordings :
               /\ OwnKey(r)
               /\ \E u \in Uploads : pending[u].rec = r /\ pending[u].status = "quarantined"}
Promised == {r \in acked : OwnKey(r)}

Archive == INSTANCE CallArchive WITH setAside <- SetAside, acked <- Promised

\* With serial senders, rows, leases, tokens, files, retries and crashes amount
\* to an archive that stores each recording at most once, never forgets one, and
\* answers "done" only for what it holds.  Answers to recordings that share their
\* key with another one are left out: those may be given for the other one.
ImplementsArchive == Archive!Spec
=============================================================================
