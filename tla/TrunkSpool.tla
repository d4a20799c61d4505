------------------------------ MODULE TrunkSpool ------------------------------
(* The sender of Trunk Recorder (src/uploader/trunk-recorder/upload_call.py): a    *)
(* hook per call writes a manifest into the spool and drains it, a timer drains it *)
(* too, and nothing keeps two drains apart.  The audio is never deleted.  A call   *)
(* stands for its manifest; drains take manifests in the order of their names.     *)
EXTENDS SenderKeys, Sequences, FiniteSetsExt
CONSTANTS Calls,        \* numbers, in the order of the manifests' names
          Destinations, \* the sequence of destinations: a sender on each server
          UploadKey,    \* the key in the uploader's environment
          Hooks, Timer, \* the processes that drain
          Torn,         \* a manifest whose content is not complete
          RetryCount,   \* RETRY_COUNT
          MaxUpsets     \* bound on killed processes and administrative writes together

Drains == Hooks \cup {Timer}
ASSUME SpoolAssumption == /\ Calls \subseteq Nat /\ Calls # {} /\ UploadKey \in Keys
                          /\ Destinations \in Seq(Senders) /\ Destinations # <<>>
                          /\ Timer \notin Hooks
                          /\ RetryCount \in Nat /\ MaxUpsets \in Nat

VARIABLES pending,   \* pending[c]: None, Torn, or the attempts recorded and whether it is due
          failed,    \* calls in the failed directory
          queued,    \* history: calls whose hook began to write the manifest
          accepted,  \* accepted[c]: the destinations that have the call
          drain,     \* drain[p]: None or where the process stands
          crashes
spoolVars == <<pending, failed, queued, accepted, drain, crashes>>
vars == <<keyVars, spoolVars>>

Manifest == [attempts : 0 .. RetryCount, due : BOOLEAN]
Fresh == [attempts |-> 0, due |-> TRUE]
Stages == {"queueing", "listing", "next", "sending", "proved", "unlinking", "failing", "writing"}
Process == [at : Stages, todo : SUBSET Calls, call : Calls, attempts : 0 .. RetryCount,
            target : 1 .. Len(Destinations) + 1, hash : Hash \cup {None}]
ASSUME NoneAssumption == None \notin Manifest \cup Process \cup {Torn}
TypeOK == /\ KeysOK
          /\ pending \in [Calls -> Manifest \cup {None, Torn}]
          /\ failed \subseteq queued /\ queued \subseteq Calls
          /\ accepted \in [Calls -> SUBSET Senders]
          /\ drain \in [Drains -> Process \cup {None}]
          /\ crashes \in 0 .. MaxUpsets
Init == /\ KeysInit
        /\ pending = [c \in Calls |-> None]
        /\ failed = {} /\ queued = {}
        /\ accepted = [c \in Calls |-> {}]
        /\ drain = [p \in Drains |-> None]
        /\ crashes = 0
-------------------------------------------------------------------------------
At(p, stage) == drain[p] # None /\ drain[p].at = stage
Moved(p, stage) == drain' = [drain EXCEPT ![p].at = stage]
Dies(p) == drain' = [drain EXCEPT ![p] = None]
Item(p) == drain[p].call
Spooled == {c \in Calls : pending[c] # None}
\* The loop goes on with the next manifest of its listing.
NoCall == Min(Calls)  \* a drain between two manifests
Between(stage, todo) == [at |-> stage, todo |-> todo, call |-> NoCall, attempts |-> 0, target |-> 1, hash |-> None]
\* A drain with nothing left to do counts what it leaves behind, for its exit status, and ends.
Onward(todo) == IF todo = {} THEN None ELSE Between("next", todo)
Done(p) == drain' = [drain EXCEPT ![p] = Onward(drain[p].todo \ {Item(p)})]

\* queue: the file is created, then it has its content.
QueueBegins(p, c) ==
  /\ p \in Hooks /\ drain[p] = None /\ c \notin queued
  /\ queued' = queued \cup {c}
  /\ pending' = [pending EXCEPT ![c] = Torn]
  /\ drain' = [drain EXCEPT ![p] = [Between("queueing", {}) EXCEPT !.call = c]]
  /\ UNCHANGED <<keyVars, failed, accepted, crashes>>
QueueEnds(p) ==
  /\ At(p, "queueing")
  /\ pending' = [pending EXCEPT ![Item(p)] = Fresh]
  /\ drain' = [drain EXCEPT ![p] = Between("listing", {})]
  /\ UNCHANGED <<keyVars, failed, queued, accepted, crashes>>
TimerStarts ==
  /\ drain[Timer] = None /\ Spooled # {}
  /\ drain' = [drain EXCEPT ![Timer] = Onward(Spooled)]
  /\ UNCHANGED <<keyVars, pending, failed, queued, accepted, crashes>>
List(p) ==
  /\ At(p, "listing")
  /\ drain' = [drain EXCEPT ![p] = Onward(Spooled)]
  /\ UNCHANGED <<keyVars, pending, failed, queued, accepted, crashes>>

\* The next manifest is read outside of any handler: one that another process removed, or that
\* is torn, ends the drain.
Due(c) == pending[c] \notin {None, Torn} /\ pending[c].due
Open(p) == LET c == Min(drain[p].todo) IN
  /\ At(p, "next")
  /\ drain' = CASE pending[c] \in {None, Torn} -> [drain EXCEPT ![p] = None]
                [] Due(c) -> [drain EXCEPT ![p].at = "sending", ![p].call = c, ![p].attempts = pending[c].attempts]
                [] OTHER -> [drain EXCEPT ![p] = Onward(drain[p].todo \ {c})]
  /\ UNCHANGED <<keyVars, pending, failed, queued, accepted, crashes>>

\* attempt: the server authenticates, upgrades the hash, and stores the call or has it already.
Target(p) == Destinations[drain[p].target]
Authenticate(p) ==
  /\ At(p, "sending")
  /\ IF Proves(Target(p), UploadKey)
     THEN drain' = [drain EXCEPT ![p].at = "proved", ![p].hash = HashOf(Target(p))]
     ELSE Moved(p, "failing")
  /\ UNCHANGED <<keyVars, pending, failed, queued, accepted, crashes>>
Unreachable(p) ==
  /\ At(p, "sending")
  /\ Moved(p, "failing")
  /\ UNCHANGED <<keyVars, pending, failed, queued, accepted, crashes>>
Upgrade(p) == /\ sender' = Upgraded(Target(p), drain[p].hash, UploadKey)
              /\ UNCHANGED writes
\* The item is finished when no destination is left.
AfterFirst(p) == "unlinking"  \* mutant: one destination will do
AfterLast(p) == IF drain[p].target = Len(Destinations) THEN "unlinking" ELSE "sending"
Stores(p) ==
  /\ At(p, "proved")
  /\ Upgrade(p)
  /\ accepted' = [accepted EXCEPT ![Item(p)] = @ \cup {Target(p)}]
  /\ \/ drain' = [drain EXCEPT ![p].at = AfterLast(p), ![p].target = @ + 1, ![p].hash = None]
     \/ Moved(p, "failing")   \* its answer is lost
  /\ UNCHANGED <<pending, failed, queued, crashes>>
Refuses(p) ==
  /\ At(p, "proved")
  /\ Upgrade(p)
  /\ Moved(p, "failing")
  /\ UNCHANGED <<pending, failed, queued, accepted, crashes>>

\* A manifest that is gone makes the unlink an error like any other.
Unlink(p) ==
  /\ At(p, "unlinking")
  /\ pending' = [pending EXCEPT ![Item(p)] = None]
  /\ IF pending[Item(p)] # None THEN Done(p) ELSE Moved(p, "failing")
  /\ UNCHANGED <<keyVars, failed, queued, accepted, crashes>>

NeverLast(p) == FALSE  \* mutant: an item is tried for ever
LastAttempt(p) == drain[p].attempts + 1 > RetryCount
GiveUp(p) ==
  /\ At(p, "failing") /\ LastAttempt(p)
  /\ pending' = [pending EXCEPT ![Item(p)] = None]
  /\ IF pending[Item(p)] # None
     THEN failed' = failed \cup {Item(p)} /\ Done(p)
     ELSE Dies(p) /\ UNCHANGED failed
  /\ UNCHANGED <<keyVars, queued, accepted, crashes>>
\* The manifest is opened for writing, which creates one that is gone, and then written.
WriteBegins(p) ==
  /\ At(p, "failing") /\ ~LastAttempt(p)
  /\ pending' = [pending EXCEPT ![Item(p)] = Torn]
  /\ Moved(p, "writing")
  /\ UNCHANGED <<keyVars, failed, queued, accepted, crashes>>
\* What is written into a file that another process has unlinked is gone with it.
NextAttempt(p) == [attempts |-> Min({drain[p].attempts + 1, RetryCount}), due |-> FALSE]
WriteEnds(p) ==
  /\ At(p, "writing")
  /\ pending' = [pending EXCEPT ![Item(p)] = IF @ = None THEN None ELSE NextAttempt(p)]
  /\ Done(p)
  /\ UNCHANGED <<keyVars, failed, queued, accepted, crashes>>

TimePasses(c) ==
  /\ pending[c] \notin {None, Torn} /\ ~pending[c].due
  /\ pending' = [pending EXCEPT ![c].due = TRUE]
  /\ UNCHANGED <<keyVars, failed, queued, accepted, drain, crashes>>
Crash(p) ==
  /\ drain[p] # None /\ crashes + writes < MaxUpsets
  /\ crashes' = crashes + 1
  /\ Dies(p)
  /\ UNCHANGED <<keyVars, pending, failed, queued, accepted>>

DrainStep(p) == QueueEnds(p) \/ List(p) \/ Open(p) \/ Authenticate(p) \/ Unreachable(p)
                \/ Stores(p) \/ Refuses(p) \/ Unlink(p) \/ GiveUp(p) \/ WriteBegins(p) \/ WriteEnds(p)
AdminStep == crashes + writes < MaxUpsets /\ KeyStep /\ UNCHANGED spoolVars
Next == \/ AdminStep \/ TimerStarts
        \/ \E p \in Drains : DrainStep(p) \/ Crash(p) \/ \E c \in Calls : QueueBegins(p, c)
        \/ \E c \in Calls : TimePasses(c)
\* A drain that runs goes on (every request has a timeout), the timer fires again, time passes.
Fairness == /\ \A p \in Drains : WF_vars(DrainStep(p))
            /\ WF_vars(TimerStarts)
            /\ \A c \in Calls : WF_vars(TimePasses(c))
Spec == Init /\ [][Next]_vars /\ Fairness
-------------------------------------------------------------------------------
Delivered(c) == \A n \in DOMAIN Destinations : Destinations[n] \in accepted[c]

\* Whatever two drains do to one spool, whatever is lost or killed: a call whose hook ran keeps
\* a manifest, pending or failed, until every destination has it (attempt, drain; README.md:5
\* of the sender).
HeldUntilDelivered == \A c \in queued : c \in Spooled \cup failed \/ Delivered(c)

\* Every spooled call is delivered everywhere or set aside in the end, unless a process that
\* was killed left a torn manifest: on that one, and on the way to the later ones, every drain
\* ends (drain, upload_call.py:90).
Writing(c) == \E p \in Drains : drain[p] # None /\ drain[p].call = c /\ drain[p].at \in {"queueing", "writing"}
Blocked(c) == \E e \in Calls : e <= c /\ pending[e] = Torn /\ ~Writing(e)
EverySpooledSettles == \A c \in Calls : c \in queued ~> Delivered(c) \/ c \in failed \/ Blocked(c)

\* Which keys a sender may use is changed by administrators only: the upgrade of a hash by a
\* request that proved the old key never brings that key back, or a disabled sender
\* (authenticate, upgradeSenderKeyHash, adminSenderWrite).
KeyStaysReplaced == [][writes' = writes => \A s \in Senders : ProvableKeys(s)' = ProvableKeys(s)]_vars
===============================================================================
