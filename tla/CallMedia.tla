----------------------------- MODULE CallMedia -----------------------------
(* The rows of the calls table and the audio files they name, as retention *)
(* and the dataset exporter meet them, and the protection of a call.       *)
EXTENDS Naturals, FiniteSets

CONSTANTS
  None,
  Calls,       \* the calls a retention policy covers by age and filters
  Protection   \* "none", "until" an expiry, "forever"

VARIABLES
  row,     \* the row of each call, which is its protection; None when it is deleted
  audio    \* where the audio file of each call is

media == <<row, audio>>

\* Protection whose expiry has passed counts as none.
ASSUME ProtectionAssumption ==
  /\ Protection \subseteq {"none", "until", "forever"}
  /\ "none" \in Protection
  /\ None \notin {"none", "until", "forever"}

MediaOK ==
  /\ row \in [Calls -> Protection \cup {None}]
  /\ audio \in [Calls -> {"in place", "in trash", "removed"}]

MediaInit ==
  /\ row = [c \in Calls |-> "none"]
  /\ audio = [c \in Calls |-> "in place"]

Exists(c) == row[c] # None

Unprotected(c) == row[c] = "none"

-----------------------------------------------------------------------------
\* adminProtectCall: an UPDATE that finds no row changes nothing.
ProtectCall(c) ==
  /\ Exists(c)
  /\ \E p \in Protection : row' = [row EXCEPT ![c] = p]
  /\ UNCHANGED audio

ProtectionExpires(c) ==
  /\ row[c] = "until"
  /\ row' = [row EXCEPT ![c] = "none"]
  /\ UNCHANGED audio
=============================================================================
