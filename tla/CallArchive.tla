---------------------------- MODULE CallArchive ----------------------------
(***************************************************************************)
(* What the ingestion server promises its senders, without sessions,       *)
(* leases, files or failures: an archive that stores a recording at most   *)
(* once and acknowledges only what it has.                                 *)
(***************************************************************************)
CONSTANTS Recordings,   \* completed calls the senders hold
          Matches,      \* <<r, q>>: equal within the duplicate tolerances
          Calls,        \* ids of stored calls
          None

VARIABLES calls,        \* the recording each stored call was made from
          setAside,     \* recordings kept as undecodable payloads
          acked         \* recordings the senders were told are done

vars == <<calls, setAside, acked>>

Init ==
  /\ calls = [c \in Calls |-> None]
  /\ setAside = {}
  /\ acked = {}

Has(r) ==
  \/ r \in setAside
  \/ \E c \in Calls : calls[c] # None /\ <<calls[c], r>> \in Matches

\* A recording the archive does not hold becomes a call.  The sender may not
\* learn of it.
Store(r) ==
  /\ \A c \in Calls : calls[c] # r
  /\ \E c \in Calls : calls[c] = None /\ calls' = [calls EXCEPT ![c] = r]
  /\ acked' \in {acked, acked \cup {r}}
  /\ UNCHANGED setAside

\* A payload that cannot become a call is set aside.
SetAside(r) ==
  /\ setAside' = setAside \cup {r}
  /\ acked' \in {acked, acked \cup {r}}
  /\ UNCHANGED calls

\* The sender of a recording the archive has learns so.
Acknowledge(r) ==
  /\ Has(r)
  /\ acked' = acked \cup {r}
  /\ UNCHANGED <<calls, setAside>>

Next == \E r \in Recordings : Store(r) \/ SetAside(r) \/ Acknowledge(r)

Spec == Init /\ [][Next]_vars
=============================================================================
