---------------------------- MODULE LoginThrottle ----------------------------
(* The throttle of password sign-ins: a map in the memory of the server, keyed by  *)
(* address and account (src/backend/cmd/server/main.go, loginBlocked,             *)
(* recordLoginFailure, clearLoginFailures).  One address, so the key is the       *)
(* account.                                                                        *)
EXTENDS Integers, FiniteSets
CONSTANTS None, Users,
          LoginLimit,   \* failures after which an account is blocked: 5 in the code
          MapLimit      \* entries from which lapsed ones are swept: 10000 in the code

VARIABLES fails,    \* fails[u]: None, or the failures counted and whether their 15 minutes are over
          guesses   \* history: wrong passwords judged since the last reset of u
throttleVars == <<fails, guesses>>

Failures == [count : Nat, lapsed : BOOLEAN]
ASSUME ThrottleAssumption == LoginLimit \in Nat \ {0} /\ MapLimit \in Nat /\ None \notin Failures

ThrottleOK == /\ fails \in [Users -> Failures \cup {None}]
              /\ guesses \in [Users -> Nat]
ThrottleInit == /\ fails = [u \in Users |-> None]
                /\ guesses = [u \in Users |-> 0]

Tracked == {u \in Users : fails[u] # None}
Lapsed == {u \in Tracked : fails[u].lapsed}
OneTooMany(u) == u \in Tracked \ Lapsed /\ fails[u].count > LoginLimit  \* mutant: off by one
Blocked(u) == u \in Tracked \ Lapsed /\ fails[u].count >= LoginLimit

\* What loginBlocked does for a sign-in it lets through: a lapsed entry goes.
LetThrough(u) == /\ ~Blocked(u)
                 /\ fails' = IF u \in Lapsed THEN [fails EXCEPT ![u] = None] ELSE fails

\* The entries that outlive the sweep made when the map is full.
Swept == IF Cardinality(Tracked) >= MapLimit
         THEN [u \in Users |-> IF u \in Lapsed THEN None ELSE fails[u]]
         ELSE fails
OneMore(entry) == [count |-> 1 + (IF entry = None THEN 0 ELSE entry.count), lapsed |-> FALSE]
RecordFailure(u) == fails' = [Swept EXCEPT ![u] = OneMore(Swept[u])]

ClearFailures(u) == /\ fails' = [fails EXCEPT ![u] = None]
                    /\ guesses' = [guesses EXCEPT ![u] = 0]

Guessed(u) == guesses' = [guesses EXCEPT ![u] = @ + 1]

\* Fifteen minutes without another failure.
FailuresLapse(u) == /\ u \in Tracked \ Lapsed
                    /\ fails' = [fails EXCEPT ![u].lapsed = TRUE]
                    /\ guesses' = [guesses EXCEPT ![u] = 0]

\* The server restarts with an empty map.
Forgotten == /\ fails' = [u \in Users |-> None]
             /\ guesses' = [u \in Users |-> 0]
===============================================================================
