------------------------------ MODULE SenderKeys ------------------------------
(* The credentials of the senders: rows of remote_senders, written by the          *)
(* administration page and command and read by every upload                        *)
(* (src/backend/cmd/server/main.go, src/backend/cmd/admin/main.go).  A row made    *)
(* before the keys were stored as keyed hashes is upgraded by the first request    *)
(* that proves the key.                                                            *)
EXTENDS Naturals
CONSTANTS None, Senders, Keys,
          Revoked,     \* the random bytes stored for a deleted sender
          Installed,   \* the rows each sender may have at the start, None for no row
          Administered,  \* bound: the senders an administrator changes
          MaxWrites    \* bound on administrative writes

ASSUME KeyAssumption == Revoked \notin Keys /\ Administered \subseteq Senders /\ MaxWrites \in Nat

VARIABLES sender,   \* sender[s]: None or its row
          writes    \* administrative writes so far
keyVars == <<sender, writes>>

Schemes == {"argon2id", "hmac"}
Row == [key : Keys \cup {Revoked}, scheme : Schemes, enabled : BOOLEAN, deleted : BOOLEAN]
Hash == [key : Keys, scheme : Schemes]
ASSUME RowAssumption == /\ None \notin Row \cup Hash
                        /\ \A s \in Senders : Installed[s] \subseteq Row \cup {None}
KeysOK == sender \in [Senders -> Row \cup {None}] /\ writes \in 0 .. MaxWrites
KeysInit == /\ sender \in [Senders -> UNION {Installed[s] : s \in Senders}]
            /\ \A s \in Senders : sender[s] \in Installed[s]
            /\ writes = 0

Stored(k) == [key |-> k, scheme |-> "hmac", enabled |-> TRUE, deleted |-> FALSE]
Written(s, row) == /\ writes < MaxWrites /\ writes' = writes + 1
                   /\ sender' = [sender EXCEPT ![s] = row]

\* A new sender, or one that was deleted, from the page; the command and bootstrapSender insert
\* only where there is no row.
CreateSender(s, k) == /\ sender[s] # None => sender[s].deleted
                      /\ Written(s, Stored(k))
ReplaceKey(s, k) == Written(s, Stored(k))
DisableSender(s) == /\ sender[s] # None
                    /\ Written(s, [sender[s] EXCEPT !.enabled = FALSE])
DeleteSender(s) == /\ sender[s] # None /\ ~sender[s].deleted
                   /\ Written(s, [sender[s] EXCEPT !.key = Revoked, !.enabled = FALSE, !.deleted = TRUE])
KeyStep == \E s \in Administered :
  \/ \E k \in Keys : CreateSender(s, k) \/ ReplaceKey(s, k)
  \/ DisableSender(s) \/ DeleteSender(s)

\* authenticate: what the row read now says of key k.
Proves(s, k) == sender[s] # None /\ sender[s].enabled /\ sender[s].key = k

\* upgradeSenderKeyHash: the hash read earlier, None when it needs no upgrade, the key that was
\* proved against it, and an UPDATE that demands the hash is still the one read.
HashOf(s) == IF sender[s].scheme = "hmac" THEN None
             ELSE [key |-> sender[s].key, scheme |-> sender[s].scheme]
AnyHash(s, hash) == TRUE  \* mutant: the UPDATE names the sender only
SameHash(s, hash) == sender[s].key = hash.key /\ sender[s].scheme = hash.scheme
Upgraded(s, hash, k) == IF hash # None /\ SameHash(s, hash)
                        THEN [sender EXCEPT ![s].key = k, ![s].scheme = "hmac"]
                        ELSE sender
ProvableKeys(s) == {k \in Keys : Proves(s, k)}
===============================================================================
