--------------------------- MODULE TrunkSpoolProofs ---------------------------
(* What holds of the Trunk Recorder sender for any number of calls, destinations  *)
(* and draining processes, and of the keys it uses.                               *)
EXTENDS TrunkSpool, WellFoundedInduction, SequenceTheorems, TLAPS

\* What a process knows where it stands: it works on calls whose hook ran, it has passed the
\* destinations before its own, and the hash it carries was proved by the key of the environment.
Working(p) ==
  /\ drain[p].todo \subseteq queued
  /\ drain[p].at = "next" => drain[p].todo # {}
  /\ drain[p].at \notin {"listing", "next"} => Item(p) \in queued
  /\ drain[p].at \in {"listing", "next", "queueing"} => drain[p].target = 1
  /\ drain[p].at \in {"sending", "proved"} => drain[p].target \in 1 .. Len(Destinations)
  /\ drain[p].at = "unlinking" => drain[p].target = Len(Destinations) + 1
  /\ drain[p].at \in {"sending", "proved", "unlinking"} =>
       \A n \in 1 .. drain[p].target - 1 : Destinations[n] \in accepted[Item(p)]
  /\ drain[p].at = "proved" => /\ sender[Target(p)] # None
                               /\ drain[p].hash # None => drain[p].hash.key = UploadKey
SpoolInv == /\ TypeOK /\ HeldUntilDelivered
            /\ Spooled \subseteq queued
            /\ \A p \in Drains : drain[p] # None => Working(p)

\* The order of the names has a first one in every listing.
Below == {p \in Nat \X Nat : p[1] < p[2]}
LEMMA FirstExists ==
  ASSUME NEW S \in SUBSET Nat, S # {}
  PROVE  Min(S) \in S /\ \A n \in S : Min(S) <= n
<1>1. IsWellFoundedOn(OpToRel(<, Nat), Nat)
  BY NatLessThanWellFounded
<1>2. IsWellFoundedOn(Below, Nat)
  BY <1>1 DEF OpToRel, Below
<1>3. PICK x \in S : \A y \in S : <<y, x>> \notin Below
  BY <1>2, WFMin
<1>4. ASSUME NEW y \in S PROVE x <= y
  <2>1. <<y, x>> \in Nat \X Nat /\ <<y, x>>[1] = y /\ <<y, x>>[2] = x
    OBVIOUS
  <2> QED BY <1>3, <2>1 DEF Below
<1> QED BY <1>4 DEF Min

\* A step of one process, or of none: the others stay where they are, and what they know stays true.
LEMMA OneMoves ==
  ASSUME SpoolInv, TypeOK', HeldUntilDelivered', (Spooled \subseteq queued)',
         NEW p \in Drains, \A q \in Drains \ {p} : drain'[q] = drain[q],
         (drain[p] # None => Working(p))',
         queued \subseteq queued', \A c \in Calls : accepted[c] \subseteq accepted'[c],
         \A s \in Senders : sender[s] # None => sender'[s] # None
  PROVE  SpoolInv'
<1> SUFFICES ASSUME NEW q \in Drains, q # p, drain[q] # None PROVE Working(q)'
  BY DEF SpoolInv
<1>1. Working(q) /\ drain[q] \in Process
  BY DEF SpoolInv, TypeOK
<1>2. drain[q].call \in Calls /\ drain[q].target \in Nat
  BY <1>1, SpoolAssumption DEF Process
<1>3. drain[q].at = "proved" => Target(q) \in Senders
  BY <1>1, SpoolAssumption, ElementOfSeq DEF Working, Target
<1> QED BY <1>1, <1>2, <1>3 DEF Working, Item, Target

\* A call keeps a manifest while none is taken away but those of delivered or failed calls.
LEMMA HeldStays ==
  ASSUME SpoolInv, failed \subseteq failed', queued' \subseteq Calls,
         \A c \in Calls : accepted[c] \subseteq accepted'[c],
         \A c \in queued' \ queued : pending'[c] # None,
         \A c \in Calls : pending[c] # None => pending'[c] # None \/ c \in failed' \/ Delivered(c)
  PROVE  HeldUntilDelivered'
<1> SUFFICES ASSUME NEW c \in queued' PROVE pending'[c] # None \/ c \in failed' \/ Delivered(c)'
  BY DEF HeldUntilDelivered, Spooled
<1>1. Delivered(c) => Delivered(c)'
  BY DEF Delivered
<1> QED BY <1>1 DEF SpoolInv, HeldUntilDelivered, Spooled

\* The frame of a step that only moves process p.
LEMMA OnlyMoves ==
  ASSUME SpoolInv, NEW p \in Drains, NEW next \in Process \cup {None},
         drain' = [drain EXCEPT ![p] = next], (drain[p] # None => Working(p))',
         UNCHANGED <<keyVars, pending, failed, queued, accepted, crashes>>
  PROVE  SpoolInv'
<1>1. TypeOK'
  BY DEF SpoolInv, TypeOK, KeysOK, keyVars
<1>2. HeldUntilDelivered'
  BY <1>1, HeldStays DEF SpoolInv, TypeOK
<1>3. (Spooled \subseteq queued)'
  BY DEF SpoolInv, Spooled
<1>4. \A q \in Drains \ {p} : drain'[q] = drain[q]
  BY DEF SpoolInv, TypeOK
<1> QED BY <1>1, <1>2, <1>3, <1>4, OneMoves DEF keyVars

\* A process that goes back to its listing, or ends.
LEMMA OnwardWorks ==
  ASSUME NEW todo \in SUBSET Calls, todo \subseteq queued'
  PROVE  /\ Onward(todo) \in Process \cup {None}
         /\ \A p \in Drains : drain'[p] = Onward(todo) => (drain[p] # None => Working(p))'
<1>1. NoCall \in Calls
  BY FirstExists, SpoolAssumption DEF NoCall
<1>2. Between("next", todo) \in Process
  BY <1>1, SpoolAssumption DEF Between, Process, Stages
<1>3. Onward(todo) \in Process \cup {None}
  BY <1>2 DEF Onward
<1>4. ASSUME NEW p \in Drains, drain'[p] = Onward(todo), drain'[p] # None PROVE Working(p)'
  BY <1>4 DEF Onward, Between, Working
<1> QED BY <1>3, <1>4

LEMMA TimerStartsKeeps == ASSUME SpoolInv, TimerStarts PROVE SpoolInv'
<1>1. Spooled \in SUBSET Calls /\ Spooled \subseteq queued'
  BY DEF SpoolInv, TimerStarts, Spooled
<1>2. drain'[Timer] = Onward(Spooled) /\ Timer \in Drains
  BY DEF SpoolInv, TypeOK, TimerStarts, Drains
<1> QED BY <1>1, <1>2, OnwardWorks, OnlyMoves DEF TimerStarts

LEMMA ListKeeps == ASSUME SpoolInv, NEW p \in Drains, List(p) PROVE SpoolInv'
<1>1. Spooled \in SUBSET Calls /\ Spooled \subseteq queued'
  BY DEF SpoolInv, List, Spooled
<1>2. drain'[p] = Onward(Spooled)
  BY DEF SpoolInv, TypeOK, List
<1> QED BY <1>1, <1>2, OnwardWorks, OnlyMoves DEF List

LEMMA OpenKeeps == ASSUME SpoolInv, NEW p \in Drains, Open(p) PROVE SpoolInv'
<1> DEFINE c == Min(drain[p].todo)
           opened == [drain[p] EXCEPT !.at = "sending", !.call = c, !.attempts = pending[c].attempts]
           rest == drain[p].todo \ {c}
<1>1. /\ drain[p] \in Process /\ drain[p] # None /\ Working(p) /\ drain[p].at = "next"
      /\ UNCHANGED <<keyVars, pending, failed, queued, accepted, crashes>>
  BY DEF SpoolInv, TypeOK, Open, At
<1>2. c \in drain[p].todo /\ c \in Calls
  BY <1>1, FirstExists, SpoolAssumption DEF Working, Process
<1>3. CASE pending[c] \in {None, Torn}
  <2>1. drain' = [drain EXCEPT ![p] = None]
    BY <1>3 DEF Open, Due
  <2> QED BY <1>1, <2>1, OnlyMoves DEF SpoolInv, TypeOK
<1>4. CASE Due(c)
  <2>1. drain' = [drain EXCEPT ![p] = opened] /\ pending[c] \in Manifest
    BY <1>1, <1>2, <1>4 DEF Open, Due, SpoolInv, TypeOK
  <2>2. opened \in Process
    BY <1>1, <1>2, <2>1 DEF Process, Stages, Manifest
  <2>3. drain'[p] = opened
    BY <2>1 DEF SpoolInv, TypeOK
  <2>4. Working(p)'
    BY <1>1, <1>2, <2>2, <2>3, SpoolAssumption DEF Working, Item, Process
  <2> QED BY <1>1, <2>1, <2>2, <2>4, OnlyMoves
<1>5. CASE pending[c] \notin {None, Torn} /\ ~Due(c)
  <2>1. drain' = [drain EXCEPT ![p] = Onward(rest)] /\ drain'[p] = Onward(rest)
    BY <1>5 DEF Open, SpoolInv, TypeOK
  <2>2. rest \in SUBSET Calls /\ rest \subseteq queued'
    BY <1>1 DEF Working, Process
  <2> QED BY <1>1, <2>1, <2>2, OnwardWorks, OnlyMoves
<1> QED BY <1>3, <1>4, <1>5

\* A step at p that changes only where it stands, with all it knows.
LEMMA AuthenticateKeeps == ASSUME SpoolInv, NEW p \in Drains, Authenticate(p) PROVE SpoolInv'
<1> DEFINE proved == [drain[p] EXCEPT !.at = "proved", !.hash = HashOf(Target(p))]
           refused == [drain[p] EXCEPT !.at = "failing"]
<1>1. /\ drain[p] \in Process /\ drain[p] # None /\ Working(p) /\ drain[p].at = "sending"
      /\ UNCHANGED <<keyVars, pending, failed, queued, accepted, crashes>>
  BY DEF SpoolInv, TypeOK, Authenticate, At
<1>2. Target(p) \in Senders
  BY <1>1, SpoolAssumption, ElementOfSeq DEF Working, Target
<1>3. CASE Proves(Target(p), UploadKey)
  <2>1. drain' = [drain EXCEPT ![p] = proved] /\ drain'[p] = proved
    BY <1>3 DEF Authenticate, SpoolInv, TypeOK
  <2>2. sender[Target(p)] \in Row /\ sender[Target(p)] # None /\ sender[Target(p)].key = UploadKey
    BY <1>2, <1>3, RowAssumption DEF Proves, SpoolInv, TypeOK, KeysOK
  <2>3. HashOf(Target(p)) \in Hash \cup {None} /\ (HashOf(Target(p)) # None => HashOf(Target(p)).key = UploadKey)
    BY <2>2, SpoolAssumption DEF HashOf, Hash, Row
  <2>4. proved \in Process
    BY <1>1, <2>3 DEF Process, Stages
  <2>5. Working(p)'
    BY <1>1, <2>1, <2>2, <2>3, <2>4 DEF Working, Item, Process, Target, keyVars
  <2> QED BY <1>1, <2>1, <2>4, <2>5, OnlyMoves
<1>4. CASE ~Proves(Target(p), UploadKey)
  <2>1. drain' = [drain EXCEPT ![p] = refused] /\ drain'[p] = refused
    BY <1>4 DEF Authenticate, SpoolInv, TypeOK, Moved
  <2>2. refused \in Process
    BY <1>1 DEF Process, Stages
  <2>3. Working(p)'
    BY <1>1, <2>1, <2>2 DEF Working, Item, Process
  <2> QED BY <1>1, <2>1, <2>2, <2>3, OnlyMoves
<1> QED BY <1>3, <1>4

LEMMA UnreachableKeeps == ASSUME SpoolInv, NEW p \in Drains, Unreachable(p) PROVE SpoolInv'
<1> DEFINE next == [drain[p] EXCEPT !.at = "failing"]
<1>1. /\ drain[p] \in Process /\ drain[p] # None /\ Working(p) /\ drain[p].at = "sending"
      /\ UNCHANGED <<keyVars, pending, failed, queued, accepted, crashes>>
  BY DEF SpoolInv, TypeOK, Unreachable, At
<1>2. drain' = [drain EXCEPT ![p] = next] /\ drain'[p] = next
  BY DEF Unreachable, SpoolInv, TypeOK, Moved
<1>3. next \in Process
  BY <1>1 DEF Process, Stages
<1>4. Working(p)'
  BY <1>1, <1>2, <1>3 DEF Working, Item, Process
<1> QED BY <1>1, <1>2, <1>3, <1>4, OnlyMoves

\* An upgrade changes the scheme of a row whose key is the one that was proved.
LEMMA UpgradeKeeps ==
  ASSUME SpoolInv, NEW p \in Drains, drain[p] # None, drain[p].at = "proved", Upgrade(p)
  PROVE  /\ KeysOK'
         /\ \A s \in Senders : sender[s] # None => sender'[s] # None
         /\ \A s \in Senders : ProvableKeys(s)' = ProvableKeys(s)
<1> DEFINE t == Target(p)  h == drain[p].hash
<1>1. drain[p] \in Process /\ Working(p) /\ KeysOK
  BY DEF SpoolInv, TypeOK
<1>2. t \in Senders /\ sender[t] \in Row
  <2>1. t \in Senders
    BY <1>1, SpoolAssumption, ElementOfSeq DEF Working, Target
  <2> QED BY <1>1, <2>1 DEF Working, KeysOK
<1>3. CASE h = None \/ ~SameHash(t, h)
  <2>1. UNCHANGED <<sender, writes>>
    BY <1>3 DEF Upgrade, Upgraded
  <2> QED BY <1>1, <2>1 DEF KeysOK, ProvableKeys, Proves
<1>4. CASE h # None /\ SameHash(t, h)
  <2>1. sender' = [sender EXCEPT ![t] = [sender[t] EXCEPT !.key = UploadKey, !.scheme = "hmac"]] /\ writes' = writes
    BY <1>4 DEF Upgrade, Upgraded
  <2>2. sender[t].key = UploadKey
    BY <1>1, <1>4 DEF Working, SameHash
  <2>3. [sender[t] EXCEPT !.key = UploadKey, !.scheme = "hmac"] \in Row
    BY <1>2, SpoolAssumption DEF Row, Schemes
  <2>4. KeysOK'
    BY <1>1, <1>2, <2>1, <2>3 DEF KeysOK
  <2>5. \A s \in Senders : sender[s] # None => sender'[s] # None
    BY <1>1, <1>2, <2>1, <2>3, RowAssumption DEF KeysOK
  <2>6. ASSUME NEW s \in Senders PROVE ProvableKeys(s)' = ProvableKeys(s)
    <3>1. CASE s # t
      BY <1>1, <2>1, <3>1 DEF KeysOK, ProvableKeys, Proves
    <3>2. CASE s = t
      <4>1. /\ sender'[t].key = sender[t].key /\ sender'[t].enabled = sender[t].enabled
            /\ sender'[t] # None /\ sender[t] # None
        BY <1>1, <1>2, <2>1, <2>2, <2>3, RowAssumption DEF KeysOK, Row
      <4> QED BY <3>2, <4>1 DEF ProvableKeys, Proves
    <3> QED BY <3>1, <3>2
  <2> QED BY <2>4, <2>5, <2>6
<1> QED BY <1>3, <1>4

\* The server has the call, or refuses it; its answer is lost, or the drain goes on.
LEMMA StoresKeeps == ASSUME SpoolInv, NEW p \in Drains, Stores(p) PROVE SpoolInv'
<1> DEFINE passed == [drain[p] EXCEPT !.at = AfterLast(p), !.target = @ + 1, !.hash = None]
           lost == [drain[p] EXCEPT !.at = "failing"]
<1>1. /\ drain[p] \in Process /\ drain[p] # None /\ Working(p) /\ drain[p].at = "proved"
      /\ Upgrade(p) /\ UNCHANGED <<pending, failed, queued, crashes>>
      /\ accepted \in [Calls -> SUBSET Senders]
  BY DEF SpoolInv, TypeOK, Stores, At
<1>2. Target(p) \in Senders /\ Item(p) \in Calls /\ drain[p].target \in 1 .. Len(Destinations) /\ Len(Destinations) \in Nat
  BY <1>1, SpoolAssumption, ElementOfSeq DEF Working, Target, Item, Process
<1>3. accepted' = [accepted EXCEPT ![Item(p)] = @ \cup {Target(p)}]
  BY DEF Stores
<1>4. accepted' \in [Calls -> SUBSET Senders] /\ \A c \in Calls : accepted[c] \subseteq accepted'[c]
  BY <1>1, <1>2, <1>3
<1>5. KeysOK' /\ \A s \in Senders : sender[s] # None => sender'[s] # None
  BY <1>1, UpgradeKeeps
<1>6. passed \in Process /\ lost \in Process
  <2>1. AfterLast(p) \in Stages
    BY DEF AfterLast, Stages
  <2>2. drain[p].target + 1 \in 1 .. Len(Destinations) + 1
    BY <1>2
  <2>3. passed \in Process
    BY <1>1, <2>1, <2>2 DEF Process
  <2>4. lost \in Process
    BY <1>1 DEF Process, Stages
  <2> QED BY <2>3, <2>4
<1>7. drain' = [drain EXCEPT ![p] = passed] \/ drain' = [drain EXCEPT ![p] = lost]
  BY DEF Stores, Moved
<1>8. TypeOK'
  BY <1>1, <1>4, <1>5, <1>6, <1>7 DEF SpoolInv, TypeOK
<1>9. Working(p)'
  <2>1. CASE drain' = [drain EXCEPT ![p] = lost]
    <3>1. drain'[p] = lost
      BY <2>1 DEF SpoolInv, TypeOK
    <3> QED BY <1>1, <3>1, <1>6 DEF Working, Item, Process
  <2>2. CASE drain' = [drain EXCEPT ![p] = passed]
    <3>1. drain'[p] = passed
      BY <2>2 DEF SpoolInv, TypeOK
    <3>2. /\ drain'[p].todo = drain[p].todo /\ drain'[p].call = drain[p].call /\ drain'[p].at = AfterLast(p)
          /\ drain'[p].target = drain[p].target + 1
      BY <1>1, <3>1 DEF Process
    <3>3. \A n \in 1 .. drain[p].target : Destinations[n] \in accepted'[Item(p)]
      <4> SUFFICES ASSUME NEW n \in 1 .. drain[p].target PROVE Destinations[n] \in accepted'[Item(p)]
        OBVIOUS
      <4>1. CASE n = drain[p].target
        BY <1>1, <1>2, <1>3, <4>1 DEF Target
      <4>2. CASE n # drain[p].target
        BY <1>1, <1>2, <1>4, <4>2 DEF Working
      <4> QED BY <4>1, <4>2
    <3> QED BY <1>1, <1>2, <3>2, <3>3 DEF Working, Item, AfterLast
  <2> QED BY <1>7, <2>1, <2>2
<1>10. HeldUntilDelivered' /\ (Spooled \subseteq queued)'
  BY <1>1, <1>4, HeldStays DEF SpoolInv, TypeOK, Spooled
<1>11. \A q \in Drains \ {p} : drain'[q] = drain[q]
  BY <1>7 DEF SpoolInv, TypeOK
<1> QED BY <1>1, <1>4, <1>5, <1>8, <1>9, <1>10, <1>11, OneMoves

LEMMA RefusesKeeps == ASSUME SpoolInv, NEW p \in Drains, Refuses(p) PROVE SpoolInv'
<1> DEFINE next == [drain[p] EXCEPT !.at = "failing"]
<1>1. /\ drain[p] \in Process /\ drain[p] # None /\ Working(p) /\ drain[p].at = "proved"
      /\ Upgrade(p) /\ UNCHANGED <<pending, failed, queued, accepted, crashes>>
  BY DEF SpoolInv, TypeOK, Refuses, At
<1>2. KeysOK' /\ \A s \in Senders : sender[s] # None => sender'[s] # None
  BY <1>1, UpgradeKeeps
<1>3. drain' = [drain EXCEPT ![p] = next] /\ drain'[p] = next
  BY DEF Refuses, SpoolInv, TypeOK, Moved
<1>4. next \in Process
  BY <1>1 DEF Process, Stages
<1>5. TypeOK'
  BY <1>1, <1>2, <1>3, <1>4 DEF SpoolInv, TypeOK
<1>6. Working(p)'
  BY <1>1, <1>3, <1>4 DEF Working, Item, Process
<1>7. HeldUntilDelivered' /\ (Spooled \subseteq queued)'
  BY <1>1, HeldStays DEF SpoolInv, TypeOK, Spooled
<1>8. \A q \in Drains \ {p} : drain'[q] = drain[q]
  BY <1>3 DEF SpoolInv, TypeOK
<1> QED BY <1>1, <1>2, <1>5, <1>6, <1>7, <1>8, OneMoves

\* A step of p at the file of one call c.
LEMMA FileChanges ==
  ASSUME SpoolInv, NEW p \in Drains, NEW c \in Calls, NEW file \in Manifest \cup {None, Torn},
         pending' = [pending EXCEPT ![c] = file],
         UNCHANGED <<keyVars, accepted, crashes>>,
         NEW next \in Process \cup {None},
         drain' = [drain EXCEPT ![p] = next], (drain[p] # None => Working(p))',
         failed \subseteq failed', failed' \subseteq queued', queued' = queued \cup {c},
         c \notin queued => file # None,
         pending[c] # None /\ file = None => c \in failed' \/ Delivered(c)
  PROVE  SpoolInv'
<1>1. TypeOK'
  BY DEF SpoolInv, TypeOK, KeysOK, keyVars
<1>2. \A d \in Calls : pending'[d] = IF d = c THEN file ELSE pending[d]
  BY DEF SpoolInv, TypeOK
<1>3. HeldUntilDelivered'
  BY <1>1, <1>2, HeldStays DEF SpoolInv, TypeOK
<1>4. (Spooled \subseteq queued)'
  BY <1>2 DEF SpoolInv, Spooled
<1>5. \A q \in Drains \ {p} : drain'[q] = drain[q]
  BY DEF SpoolInv, TypeOK
<1> QED BY <1>1, <1>3, <1>4, <1>5, OneMoves DEF keyVars

LEMMA ManifestTypes ==
  ASSUME SpoolInv, NEW p \in Drains, drain[p] # None
  PROVE  /\ NextAttempt(p) \in Manifest /\ Fresh \in Manifest
         /\ Torn # None /\ \A m \in Manifest : m # None
<1>1. drain[p].attempts \in 0 .. RetryCount /\ RetryCount \in Nat
  BY SpoolAssumption DEF SpoolInv, TypeOK, Process
<1>2. {drain[p].attempts + 1, RetryCount} \in SUBSET Nat
  BY <1>1
<1>3. Min({drain[p].attempts + 1, RetryCount}) \in 0 .. RetryCount
  BY <1>1, <1>2, FirstExists
<1> QED BY <1>1, <1>3, NoneAssumption DEF NextAttempt, Fresh, Manifest

\* The processes at work on an item, and those that go on to the next one.
LEMMA AtWork ==
  ASSUME SpoolInv, NEW p \in Drains, drain[p] # None, drain[p].at \notin {"listing", "next"}
  PROVE  /\ drain[p] \in Process /\ Working(p) /\ Item(p) \in Calls /\ Item(p) \in queued
         /\ queued = queued \cup {Item(p)}
         /\ drain[p].todo \ {Item(p)} \in SUBSET Calls
         /\ drain[p].todo \ {Item(p)} \subseteq queued
BY DEF SpoolInv, TypeOK, Process, Working, Item

LEMMA QueueBeginsKeeps ==
  ASSUME SpoolInv, NEW p \in Drains, NEW c \in Calls, QueueBegins(p, c)
  PROVE  SpoolInv'
<1> DEFINE next == [Between("queueing", {}) EXCEPT !.call = c]
<1>1. drain' = [drain EXCEPT ![p] = next] /\ drain'[p] = next
  BY DEF QueueBegins, SpoolInv, TypeOK
<1>2. next \in Process
  BY SpoolAssumption DEF Between, Process, Stages
<1>3. Working(p)'
  BY <1>1 DEF Working, Between, Item, QueueBegins
<1>4. Torn # None
  BY NoneAssumption
<1> QED BY <1>1, <1>2, <1>3, <1>4, FileChanges DEF QueueBegins, SpoolInv, TypeOK

LEMMA QueueEndsKeeps == ASSUME SpoolInv, NEW p \in Drains, QueueEnds(p) PROVE SpoolInv'
<1> DEFINE next == Between("listing", {})
<1>1. drain[p] # None /\ drain[p].at = "queueing"
  BY DEF QueueEnds, At
<1>2. drain' = [drain EXCEPT ![p] = next] /\ drain'[p] = next
  BY DEF QueueEnds, SpoolInv, TypeOK
<1>3. next \in Process
  <2>1. NoCall \in Calls
    BY FirstExists, SpoolAssumption DEF NoCall
  <2> QED BY <2>1, SpoolAssumption DEF Between, Process, Stages
<1>4. Working(p)'
  BY <1>2 DEF Working, Between
<1> QED BY <1>1, <1>2, <1>3, <1>4, AtWork, ManifestTypes, FileChanges DEF QueueEnds, SpoolInv, TypeOK

\* A process at an item whose file it changes, and which then stops, ends, or goes on.
LEMMA DoneGoesOn ==
  ASSUME SpoolInv, NEW p \in Drains, drain[p] # None, drain[p].at \notin {"listing", "next"},
         Done(p), queued' = queued
  PROVE  \E next \in Process \cup {None} : /\ drain' = [drain EXCEPT ![p] = next]
                                           /\ (drain[p] # None => Working(p))'
<1> DEFINE todo == drain[p].todo \ {Item(p)}
<1>1. drain' = [drain EXCEPT ![p] = Onward(todo)] /\ drain'[p] = Onward(todo)
  BY DEF Done, SpoolInv, TypeOK
<1>2. todo \in SUBSET Calls /\ todo \subseteq queued'
  BY AtWork
<1>3. Onward(todo) \in Process \cup {None} /\ (drain[p] # None => Working(p))'
  BY <1>1, <1>2, OnwardWorks
<1> QED BY <1>1, <1>3

LEMMA MovedWorks ==
  ASSUME SpoolInv, NEW p \in Drains, drain[p] # None, drain[p].at \notin {"listing", "next"},
         NEW stage \in {"failing", "writing"}, Moved(p, stage), queued' = queued
  PROVE  \E next \in Process \cup {None} : /\ drain' = [drain EXCEPT ![p] = next]
                                           /\ (drain[p] # None => Working(p))'
<1> DEFINE next == [drain[p] EXCEPT !.at = stage]
<1>1. drain' = [drain EXCEPT ![p] = next] /\ drain'[p] = next
  BY DEF Moved, SpoolInv, TypeOK
<1>2. next \in Process
  BY AtWork DEF Process, Stages
<1>3. Working(p)'
  BY <1>1, <1>2, AtWork DEF Working, Item, Process
<1> QED BY <1>1, <1>2, <1>3

LEMMA DiesWorks ==
  ASSUME SpoolInv, NEW p \in Drains, Dies(p)
  PROVE  /\ drain' = [drain EXCEPT ![p] = None] /\ None \in Process \cup {None}
         /\ (drain[p] # None => Working(p))'
BY DEF Dies, SpoolInv, TypeOK

LEMMA UnlinkKeeps == ASSUME SpoolInv, NEW p \in Drains, Unlink(p) PROVE SpoolInv'
<1>1. drain[p] # None /\ drain[p].at = "unlinking" /\ UNCHANGED <<keyVars, failed, queued, accepted, crashes>>
  BY DEF Unlink, At
<1>2. Item(p) \in Calls /\ Item(p) \in queued /\ Working(p)
  BY <1>1, AtWork
<1>3. Delivered(Item(p))
  BY <1>1, <1>2, SpoolAssumption DEF Working, Delivered
<1>4. PICK next \in Process \cup {None} : drain' = [drain EXCEPT ![p] = next] /\ (drain[p] # None => Working(p))'
  BY <1>1, DoneGoesOn, MovedWorks DEF Unlink
<1>5. failed \subseteq failed' /\ failed' \subseteq queued' /\ queued' = queued \cup {Item(p)}
  BY <1>1, <1>2 DEF SpoolInv, TypeOK
<1>6. pending' = [pending EXCEPT ![Item(p)] = None]
  BY DEF Unlink
<1> QED BY <1>1, <1>2, <1>3, <1>4, <1>5, <1>6, FileChanges

LEMMA GiveUpKeeps == ASSUME SpoolInv, NEW p \in Drains, GiveUp(p) PROVE SpoolInv'
<1>1. drain[p] # None /\ drain[p].at = "failing" /\ UNCHANGED <<keyVars, queued, accepted, crashes>>
  BY DEF GiveUp, At
<1>2. Item(p) \in Calls /\ Item(p) \in queued
  BY <1>1, AtWork
<1>3. PICK next \in Process \cup {None} : drain' = [drain EXCEPT ![p] = next] /\ (drain[p] # None => Working(p))'
  BY <1>1, DoneGoesOn, DiesWorks DEF GiveUp
<1>4. /\ failed \subseteq failed' /\ failed' \subseteq queued'
      /\ pending[Item(p)] # None => Item(p) \in failed'
  BY <1>1, <1>2 DEF GiveUp, SpoolInv, TypeOK
<1>5. queued' = queued \cup {Item(p)} /\ pending' = [pending EXCEPT ![Item(p)] = None]
  BY <1>1, <1>2 DEF GiveUp
<1> QED BY <1>1, <1>2, <1>3, <1>4, <1>5, FileChanges

LEMMA WriteBeginsKeeps == ASSUME SpoolInv, NEW p \in Drains, WriteBegins(p) PROVE SpoolInv'
<1>1. drain[p] # None /\ drain[p].at = "failing" /\ UNCHANGED <<keyVars, failed, queued, accepted, crashes>>
  BY DEF WriteBegins, At
<1>2. Item(p) \in Calls /\ Item(p) \in queued /\ Torn # None
  BY <1>1, AtWork, NoneAssumption
<1>3. PICK next \in Process \cup {None} : drain' = [drain EXCEPT ![p] = next] /\ (drain[p] # None => Working(p))'
  BY <1>1, MovedWorks DEF WriteBegins
<1>4. failed \subseteq failed' /\ failed' \subseteq queued' /\ queued' = queued \cup {Item(p)}
  BY <1>1, <1>2 DEF SpoolInv, TypeOK
<1>5. pending' = [pending EXCEPT ![Item(p)] = Torn]
  BY DEF WriteBegins
<1> QED BY <1>1, <1>2, <1>3, <1>4, <1>5, FileChanges

LEMMA WriteEndsKeeps == ASSUME SpoolInv, NEW p \in Drains, WriteEnds(p) PROVE SpoolInv'
<1> DEFINE file == IF pending[Item(p)] = None THEN None ELSE NextAttempt(p)
<1>1. drain[p] # None /\ drain[p].at = "writing" /\ UNCHANGED <<keyVars, failed, queued, accepted, crashes>>
  BY DEF WriteEnds, At
<1>2. Item(p) \in Calls /\ Item(p) \in queued
  BY <1>1, AtWork
<1>3. file \in Manifest \cup {None, Torn} /\ (pending[Item(p)] # None => file # None)
  BY <1>1, ManifestTypes
<1>4. PICK next \in Process \cup {None} : drain' = [drain EXCEPT ![p] = next] /\ (drain[p] # None => Working(p))'
  BY <1>1, DoneGoesOn DEF WriteEnds
<1>5. pending' = [pending EXCEPT ![Item(p)] = file]
  BY DEF WriteEnds
<1>6. failed \subseteq failed' /\ failed' \subseteq queued' /\ queued' = queued \cup {Item(p)}
  BY <1>1, <1>2 DEF SpoolInv, TypeOK
<1> HIDE DEF file
<1> QED BY <1>1, <1>2, <1>3, <1>4, <1>5, <1>6, FileChanges

LEMMA TimePassesKeeps == ASSUME SpoolInv, NEW c \in Calls, TimePasses(c) PROVE SpoolInv'
<1> DEFINE file == [pending[c] EXCEPT !.due = TRUE]
<1>1. pending[c] \in Manifest /\ file \in Manifest
  BY DEF TimePasses, SpoolInv, TypeOK, Manifest
<1>2. file # None /\ pending' = [pending EXCEPT ![c] = file] /\ pending[c] # None
  BY <1>1, NoneAssumption DEF TimePasses
<1>3. Timer \in Drains /\ drain[Timer] \in Process \cup {None} /\ drain' = [drain EXCEPT ![Timer] = drain[Timer]]
  BY DEF Drains, TimePasses, SpoolInv, TypeOK
<1>4. (drain[Timer] # None => Working(Timer))'
  BY <1>3 DEF TimePasses, SpoolInv, Working, Item, Target, keyVars
<1>5. queued' = queued \cup {c}
  BY <1>2 DEF TimePasses, SpoolInv, Spooled
<1>6. failed \subseteq failed' /\ failed' \subseteq queued' /\ UNCHANGED <<keyVars, accepted, crashes>>
  BY DEF TimePasses, SpoolInv, TypeOK
<1> HIDE DEF file
<1> QED BY <1>1, <1>2, <1>3, <1>4, <1>5, <1>6, FileChanges

LEMMA CrashKeeps == ASSUME SpoolInv, NEW p \in Drains, Crash(p) PROVE SpoolInv'
<1>1. crashes' \in 0 .. MaxUpsets
  BY SpoolAssumption DEF Crash, SpoolInv, TypeOK, KeysOK
<1>2. drain' = [drain EXCEPT ![p] = None] /\ (drain[p] # None => Working(p))'
  BY DiesWorks DEF Crash
<1>3. UNCHANGED <<keyVars, pending, failed, queued, accepted>>
  BY DEF Crash
<1>4. TypeOK'
  BY <1>1, <1>2, <1>3 DEF SpoolInv, TypeOK, KeysOK, keyVars
<1>5. HeldUntilDelivered' /\ (Spooled \subseteq queued)'
  BY <1>3, <1>4, HeldStays DEF SpoolInv, TypeOK, Spooled
<1>6. \A q \in Drains \ {p} : drain'[q] = drain[q]
  BY <1>2 DEF SpoolInv, TypeOK
<1> QED BY <1>2, <1>3, <1>4, <1>5, <1>6, OneMoves DEF keyVars

\* What an administrator writes is a row.
LEMMA WrittenIsRow ==
  ASSUME KeysOK, KeyStep
  PROVE  KeysOK' /\ \A s \in Senders : sender[s] # None => sender'[s] # None
<1>1. PICK s \in Administered : \/ \E k \in Keys : CreateSender(s, k) \/ ReplaceKey(s, k)
                                \/ DisableSender(s) \/ DeleteSender(s)
  BY DEF KeyStep
<1>2. s \in Senders
  BY KeyAssumption
<1>3. \A k \in Keys : Stored(k) \in Row
  BY DEF Stored, Row, Schemes
<1>4. PICK row \in Row : Written(s, row)
  <2>1. CASE \E k \in Keys : CreateSender(s, k) \/ ReplaceKey(s, k)
    BY <1>3, <2>1 DEF CreateSender, ReplaceKey
  <2>2. CASE DisableSender(s)
    <3>1. [sender[s] EXCEPT !.enabled = FALSE] \in Row
      BY <1>2, <2>2 DEF DisableSender, KeysOK, Row
    <3> QED BY <2>2, <3>1 DEF DisableSender
  <2>3. CASE DeleteSender(s)
    <3>1. [sender[s] EXCEPT !.key = Revoked, !.enabled = FALSE, !.deleted = TRUE] \in Row
      BY <1>2, <2>3 DEF DeleteSender, KeysOK, Row
    <3> QED BY <2>3, <3>1 DEF DeleteSender
  <2> QED BY <1>1, <2>1, <2>2, <2>3
<1>5. row # None
  BY RowAssumption
<1> QED BY <1>2, <1>4, <1>5, KeyAssumption DEF Written, KeysOK

LEMMA AdminKeeps == ASSUME SpoolInv, AdminStep PROVE SpoolInv'
<1>1. /\ KeysOK' /\ UNCHANGED spoolVars
      /\ \A s \in Senders : sender[s] # None => sender'[s] # None
  BY WrittenIsRow DEF AdminStep, SpoolInv, TypeOK
<1>2. TypeOK'
  BY <1>1 DEF SpoolInv, TypeOK, spoolVars
<1>3. HeldUntilDelivered' /\ (Spooled \subseteq queued)'
  BY <1>1 DEF SpoolInv, HeldUntilDelivered, Spooled, Delivered, spoolVars
<1>4. Timer \in Drains /\ drain' = drain /\ queued' = queued /\ accepted' = accepted
  BY <1>1 DEF Drains, spoolVars
<1>5. drain[Timer] # None /\ drain[Timer].at = "proved" => Target(Timer) \in Senders
  BY <1>4, SpoolAssumption, ElementOfSeq DEF SpoolInv, Working, Target
<1>6. (drain[Timer] # None => Working(Timer))'
  BY <1>1, <1>4, <1>5 DEF SpoolInv, Working, Item, Target
<1> QED BY <1>1, <1>2, <1>3, <1>4, <1>6, OneMoves

LEMMA SpoolInit == Init => SpoolInv
<1> SUFFICES ASSUME Init PROVE SpoolInv
  OBVIOUS
<1>1. KeysOK
  BY KeyAssumption, RowAssumption DEF Init, KeysInit, KeysOK
<1>2. TypeOK
  BY <1>1, SpoolAssumption DEF Init, TypeOK
<1> QED BY <1>2 DEF Init, SpoolInv, HeldUntilDelivered, Spooled

LEMMA SpoolStep == SpoolInv /\ [Next]_vars => SpoolInv'
<1> SUFFICES ASSUME SpoolInv, [Next]_vars PROVE SpoolInv'
  OBVIOUS
<1>1. CASE AdminStep
  BY <1>1, AdminKeeps
<1>2. CASE TimerStarts
  BY <1>2, TimerStartsKeeps
<1>3. CASE \E p \in Drains : DrainStep(p)
  BY <1>3, QueueEndsKeeps, ListKeeps, OpenKeeps, AuthenticateKeeps, UnreachableKeeps, StoresKeeps,
     RefusesKeeps, UnlinkKeeps, GiveUpKeeps, WriteBeginsKeeps, WriteEndsKeeps DEF DrainStep
<1>4. CASE \E p \in Drains : Crash(p) \/ \E c \in Calls : QueueBegins(p, c)
  BY <1>4, CrashKeeps, QueueBeginsKeeps
<1>5. CASE \E c \in Calls : TimePasses(c)
  BY <1>5, TimePassesKeeps
<1>6. CASE UNCHANGED vars
  BY <1>6 DEF vars, keyVars, spoolVars, SpoolInv, TypeOK, KeysOK, HeldUntilDelivered, Spooled, Delivered,
              Working, Item, Target
<1> QED BY <1>1, <1>2, <1>3, <1>4, <1>5, <1>6 DEF Next

\* For any number of calls, destinations and processes that drain one spool, whatever is lost or
\* killed: a call keeps a manifest until every destination has it (queue, drain).
THEOREM SpoolHolds == Spec => []HeldUntilDelivered
<1>1. SpoolInv => HeldUntilDelivered
  BY DEF SpoolInv
<1> QED BY <1>1, SpoolInit, SpoolStep, PTL DEF Spec

\* Between a request's check of a key and its upgrade of the hash an administrator may replace
\* the key: the upgrade brings no key back and enables no sender (upgradeSenderKeyHash).
THEOREM ReplacedStaysReplaced == Spec => KeyStaysReplaced
<1>1. SpoolInv /\ [Next]_vars => [writes' = writes => \A s \in Senders : ProvableKeys(s)' = ProvableKeys(s)]_vars
  <2> SUFFICES ASSUME SpoolInv, Next, writes' = writes, NEW s \in Senders
               PROVE  ProvableKeys(s)' = ProvableKeys(s)
    BY DEF ProvableKeys
  <2>1. CASE UNCHANGED keyVars
    BY <2>1 DEF keyVars, ProvableKeys, Proves
  <2>2. ~AdminStep
    <3>1. writes' = writes /\ writes \in 0 .. MaxWrites
      BY DEF SpoolInv, TypeOK, KeysOK
    <3>2. \A t, row : ~Written(t, row)
      BY <3>1, KeyAssumption DEF Written
    <3> QED BY <3>2 DEF AdminStep, KeyStep, CreateSender, ReplaceKey, DisableSender, DeleteSender
  <2>3. CASE \E p \in Drains : Stores(p) \/ Refuses(p)
    BY <2>3, UpgradeKeeps DEF Stores, Refuses, At
  <2>4. UNCHANGED keyVars \/ \E p \in Drains : Stores(p) \/ Refuses(p)
    BY <2>2 DEF Next, TimerStarts, DrainStep, QueueEnds, List, Open, Authenticate, Unreachable, Unlink,
       GiveUp, WriteBegins, WriteEnds, Crash, QueueBegins, TimePasses
  <2> QED BY <2>1, <2>3, <2>4
<1> QED BY <1>1, SpoolInit, SpoolStep, PTL DEF Spec, KeyStaysReplaced
===============================================================================
