----------------------------- MODULE CallTexts -----------------------------
(***************************************************************************)
(* The text of a stored call, shared by the transcription worker, which    *)
(* writes it, and the notification worker, which searches it for the       *)
(* keyword of a rule.                                                      *)
(***************************************************************************)
CONSTANTS
  Calls,
  Providers,  \* the names transcription_config.provider may have
  None

VARIABLES
  received,    \* calls.transcript: what the sender sent with each call
  transcript,  \* transcripts: at most one row per call and provider
  latest       \* the provider of each call's row with the latest updated_at

\* Texts are told apart by whether they are empty and contain the keyword.
Texts == {"", "other", "match"}

Transcript == [text : Texts, edited : Texts]

\* transcripts and transcription_jobs are UNIQUE(call_id, provider).
Keys == Calls \X Providers

CallOf(k) == k[1]

ASSUME TextsAssumption == None \notin Transcript \cup Providers

TextsOK ==
  /\ received \in [Calls -> Texts]
  /\ transcript \in [Keys -> Transcript \cup {None}]
  /\ latest \in [Calls -> Providers \cup {None}]

\* A column or its fallback: coalesce(NULLIF(a, ''), b).
Coalesce(a, b) == IF a # "" THEN a ELSE b

\* The edited text or the generated text of the latest row, or the received text.
Text(c) ==
  IF latest[c] = None
  THEN received[c]
  ELSE LET row == transcript[<<c, latest[c]>>]
       IN  Coalesce(row.edited, Coalesce(row.text, received[c]))

\* An INSERT or UPDATE of a row sets its updated_at.
Stamped(k) == [latest EXCEPT ![k[1]] = k[2]]

Matches(c) == Text(c) = "match"
=============================================================================
