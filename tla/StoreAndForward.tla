--------------------------- MODULE StoreAndForward ---------------------------
(***************************************************************************)
(* What a sender's spool promises: it takes a recording into custody once, *)
(* and gives it up only after the server has it, or a recording the server *)
(* takes for the same.                                                     *)
(***************************************************************************)
CONSTANTS Recordings,
          Matches      \* <<q, r>>: the server that has q needs no r

VARIABLES held,        \* recordings in custody
          released,    \* recordings given up
          delivered    \* recordings the server has

vars == <<held, released, delivered>>

Init == held = {} /\ released = {} /\ delivered = {}

Accept(r) ==
  /\ r \notin held \cup released
  /\ held' = held \cup {r}
  /\ UNCHANGED <<released, delivered>>

Deliver(r) ==
  /\ r \in held
  /\ delivered' = delivered \cup {r}
  /\ UNCHANGED <<held, released>>

Release(r) ==
  /\ r \in held
  /\ \E q \in delivered : <<q, r>> \in Matches
  /\ held' = held \ {r}
  /\ released' = released \cup {r}
  /\ UNCHANGED delivered

Next == \E r \in Recordings : Accept(r) \/ Deliver(r) \/ Release(r)

Spec == Init /\ [][Next]_vars
=============================================================================
