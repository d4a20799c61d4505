----------------------------- MODULE UserAccounts -----------------------------
(* The local accounts and their sessions: rows of users and user_sessions, changed *)
(* by the handlers of the server (src/backend/cmd/server/main.go), by the          *)
(* administration command (src/backend/cmd/admin/users.go) and by sign-ins.  The   *)
(* steps are single SQL statements, or transactions where the code has them.       *)
(* An epoch numbers what ends the sessions of an account: a new password, being    *)
(* disabled, being created anew.  Accounts keep the role their name stands for.    *)
EXTENDS LoginThrottle
CONSTANTS Admins,      \* the accounts with the role admin
          Sessions,    \* rows of user_sessions
          Logins,      \* sign-ins under way
          WebOps, CliOps,   \* operations under way: handlers, administration commands
          TokenAllowed,     \* the legacy admin token is configured
          SignedCookies,    \* the accounts of which somebody keeps a cookie signed by the
                            \* previous release, issued before the upgrade
          MaxEpoch,    \* bound on what ends sessions
          MaxBusy      \* bound on the sign-ins and operations under way at a time

Account == [enabled : BOOLEAN, epoch : Nat]
Session == [user : Users, epoch : Nat, state : {"live", "revoked", "expired"}, late : BOOLEAN]
Login == [at : {"refused", "known", "cleared"}, user : Users, epoch : Nat]
Kinds == {"create", "enable", "disable", "delete", "password"}
Op == [at : {"begun", "counted", "revoking"}, kind : Kinds, user : Users, stale : BOOLEAN]

\* There are finitely many sign-ins under way: each is a request of an open connection.
ASSUME AccountAssumption == /\ None \notin Account \cup Login \cup Op \cup WebOps
                            /\ Admins \subseteq Users /\ SignedCookies \subseteq Users
                            /\ WebOps \cap CliOps = {}
                            /\ TokenAllowed \in BOOLEAN
                            /\ IsFiniteSet(Logins)
                            /\ MaxEpoch \in Nat

VARIABLES user,     \* user[u]: None, or whether it is enabled and its epoch
          session,  \* session[s]: None, or its account, the epoch its password was checked in,
                    \* whether it still holds, and whether the account changed under the sign-in
          login,    \* login[l]: where a sign-in stands
          op,       \* op[o]: where an operation stands
          lock,     \* the advisory transaction lock 81640003: None or its holder
          epoch,    \* the last epoch
          overtaken,  \* history: a removal went through on a count that a command overlapped
          unrevoked   \* history: accounts whose sessions a failed statement left alone
vars == <<fails, guesses, user, session, login, op, lock, epoch, overtaken, unrevoked>>

Ops == WebOps \cup CliOps

\* A removal that has counted the administrators and not yet removed the account.
Pending(o) == op[o] # None /\ op[o].at = "counted"

\* Type correctness of the tables, the sign-ins and the operations; the advisory lock is held
\* only by a handler between its count and its commit.
TypeOK == /\ ThrottleOK
          /\ user \in [Users -> Account \cup {None}]
          /\ session \in [Sessions -> Session \cup {None}]
          /\ login \in [Logins -> Login \cup {None}]
          /\ op \in [Ops -> Op \cup {None}]
          /\ lock \in WebOps \cup {None}
          /\ lock # None => Pending(lock)
          /\ epoch \in 0 .. MaxEpoch /\ overtaken \in BOOLEAN /\ unrevoked \subseteq Users

Exists(u) == user[u] # None
Enabled(u) == Exists(u) /\ user[u].enabled
EnabledAdmins == {u \in Admins : Enabled(u)}
\* adminOK: the session holds and its account is enabled; a signed cookie has no row, no end
\* and no password, only the name of an account that is enabled.
Accepted(s) == session[s] # None /\ session[s].state = "live" /\ Enabled(session[s].user)
AcceptedSigned(u) == u \in SignedCookies /\ Enabled(u)
Admissions == {[user |-> session[s].user, epoch |-> session[s].epoch,
                by |-> IF session[s].late THEN "late session" ELSE "session"] :
                 s \in {x \in Sessions : Accepted(x)}}
              \cup {[user |-> u, epoch |-> 0, by |-> "signed cookie"] : u \in {x \in Users : AcceptedSigned(x)}}
SignedInAdmins == {a.user : a \in Admissions} \cap Admins
\* No transaction of a handler that read the row FOR UPDATE is open.
RowFree(u) == \A o \in WebOps : Pending(o) => op[o].user # u

\* Another sign-in or operation may begin.
Free == Cardinality({l \in Logins : login[l] # None}) + Cardinality({o \in Ops : op[o] # None}) < MaxBusy

Init == /\ ThrottleInit
        /\ user \in [Users -> {[enabled |-> TRUE, epoch |-> 0], None}] /\ EnabledAdmins # {}
        /\ session = [s \in Sessions |-> None]
        /\ login = [l \in Logins |-> None]
        /\ op = [o \in Ops |-> None]
        /\ lock = None /\ epoch = 0 /\ overtaken = FALSE /\ unrevoked = {}
-------------------------------------------------------------------------------
(* Sign-ins: adminLogin.                                                         *)
\* The check of the throttle, and the read of the row it is followed by: the one sees only the
\* throttle, the other only the account.  The password is then judged against that row.
LoginRefused(l, u) ==
  /\ login[l] = None /\ Free
  /\ LetThrough(u) /\ Guessed(u)
  /\ login' = [login EXCEPT ![l] = [at |-> "refused", user |-> u, epoch |-> 0]]
  /\ UNCHANGED <<user, session, op, lock, epoch, overtaken, unrevoked>>
LoginKnown(l, u) ==
  /\ login[l] = None /\ Free
  /\ LetThrough(u) /\ Enabled(u)
  /\ login' = [login EXCEPT ![l] = [at |-> "known", user |-> u, epoch |-> user[u].epoch]]
  /\ UNCHANGED <<guesses, user, session, op, lock, epoch, overtaken, unrevoked>>

LoginFails(l) ==
  /\ login[l] # None /\ login[l].at = "refused"
  /\ RecordFailure(login[l].user)
  /\ login' = [login EXCEPT ![l] = None]
  /\ UNCHANGED <<guesses, user, session, op, lock, epoch, overtaken, unrevoked>>
LoginClears(l) ==
  /\ login[l] # None /\ login[l].at = "known"
  /\ ClearFailures(login[l].user)
  /\ login' = [login EXCEPT ![l].at = "cleared"]
  /\ UNCHANGED <<user, session, op, lock, epoch, overtaken, unrevoked>>

\* createSession: the INSERT takes a key-share lock on the row of the account, which the
\* foreign key demands; without the row it fails.
NewSession(l) == [user |-> login[l].user, epoch |-> login[l].epoch, state |-> "live",
                  late |-> login[l].epoch # user[login[l].user].epoch]
CreateSession(l, s) ==
  /\ login[l] # None /\ login[l].at = "cleared"
  /\ session[s] = None /\ Exists(login[l].user) /\ RowFree(login[l].user)
  /\ session' = [session EXCEPT ![s] = NewSession(l)]
  /\ login' = [login EXCEPT ![l] = None]
  /\ UNCHANGED <<throttleVars, user, op, lock, epoch, overtaken, unrevoked>>
LoginError(l) ==
  /\ login[l] # None /\ login[l].at = "cleared" /\ RowFree(login[l].user)
  /\ login' = [login EXCEPT ![l] = None]
  /\ UNCHANGED <<throttleVars, user, session, op, lock, epoch, overtaken, unrevoked>>

\* adminLogout answers only an accepted session; of a signed cookie it changes nothing.
Logout(s) ==
  /\ Accepted(s)
  /\ session' = [session EXCEPT ![s].state = "revoked"]
  /\ UNCHANGED <<throttleVars, user, login, op, lock, epoch, overtaken, unrevoked>>
SessionExpires(s) ==
  /\ session[s] # None /\ session[s].state = "live"
  /\ session' = [session EXCEPT ![s].state = "expired"]
  /\ UNCHANGED <<throttleVars, user, login, op, lock, epoch, overtaken, unrevoked>>
\* cleanupSessions, seven days after a session ended.
CleanSession(s) ==
  /\ session[s] # None /\ session[s].state # "live"
  /\ session' = [session EXCEPT ![s] = None]
  /\ UNCHANGED <<throttleVars, user, login, op, lock, epoch, overtaken, unrevoked>>
-------------------------------------------------------------------------------
(* Operations on accounts.  A handler is authorised once, when it begins.        *)
\* Nobody disables or deletes the account in use.
Removals == {"disable", "delete"}
MayAsk(k, u) == TokenAllowed \/ (IF k \in Removals THEN SignedInAdmins \ {u} ELSE SignedInAdmins) # {}
Stage(at, k, u) == [at |-> at, kind |-> k, user |-> u, stale |-> FALSE]
WebBegin(o, k, u) ==
  /\ op[o] = None /\ Free /\ MayAsk(k, u)
  /\ op' = [op EXCEPT ![o] = Stage("begun", k, u)]
  /\ UNCHANGED <<throttleVars, user, session, login, lock, epoch, overtaken, unrevoked>>

\* The first statement of operation k on account u: of a handler that was authorised, or of a
\* command just started.
Starts(o, k, u) == IF o \in WebOps THEN op[o] = Stage("begun", k, u)
                   ELSE op[o] = None /\ Free /\ k # "delete"
Over(o) == op' = [op EXCEPT ![o] = None]
KeptLocked(o) == lock  \* mutant: the end of a transaction leaves the lock
Unlocked(o) == IF lock = o THEN None ELSE lock
SessionsStay(u) == session  \* mutant: sessions outlive the change
Ended(u) == [s \in Sessions |-> IF session[s] # None /\ session[s].user = u
                                THEN [session[s] EXCEPT !.state = "revoked"] ELSE session[s]]
Dropped(u) == [s \in Sessions |-> IF session[s] # None /\ session[s].user = u THEN None ELSE session[s]]
NextEpoch == epoch < MaxEpoch /\ epoch' = epoch + 1

\* adminCreateUser and userCreate; a name that exists is an error.
Create(o, u) ==
  /\ Starts(o, "create", u) /\ ~Exists(u)
  /\ NextEpoch
  /\ user' = [user EXCEPT ![u] = [enabled |-> TRUE, epoch |-> epoch + 1]]
  /\ Over(o)
  /\ UNCHANGED <<throttleVars, session, login, lock, overtaken, unrevoked>>
\* adminUserAction, which takes the advisory lock, and userEnable, which does not.
WithoutLock(o) == TRUE  \* mutant: the handlers take no lock
LockFree(o) == o \in WebOps => lock = None
Enable(o, u) ==
  /\ Starts(o, "enable", u) /\ Exists(u) /\ LockFree(o) /\ RowFree(u)
  /\ user' = [user EXCEPT ![u].enabled = TRUE]
  /\ Over(o)
  /\ UNCHANGED <<throttleVars, session, login, lock, epoch, overtaken, unrevoked>>

\* adminChangePassword and userPassword: one statement for the hash, one for the sessions.
ChangePassword(o, u) ==
  /\ Starts(o, "password", u) /\ Exists(u) /\ RowFree(u)
  /\ NextEpoch
  /\ user' = [user EXCEPT ![u].epoch = epoch + 1]
  /\ op' = [op EXCEPT ![o] = Stage("revoking", "password", u)]
  /\ UNCHANGED <<throttleVars, session, login, lock, overtaken, unrevoked>>
RevokeSessions(o) ==
  /\ op[o] # None /\ op[o].at = "revoking"
  /\ session' = Ended(op[o].user)
  /\ Over(o)
  /\ UNCHANGED <<throttleVars, user, login, lock, epoch, overtaken, unrevoked>>
\* The error of the second statement is dropped.
RevokeFails(o) ==
  /\ op[o] # None /\ op[o].at = "revoking"
  /\ unrevoked' = unrevoked \cup {op[o].user}
  /\ Over(o)
  /\ UNCHANGED <<throttleVars, user, session, login, lock, epoch, overtaken>>

\* The guard of every removal: the last enabled administrator stays.
MayRemove(u) == Exists(u) /\ (u \in EnabledAdmins => Cardinality(EnabledAdmins) > 1)
\* adminUserAction and adminDeleteUser count inside their transaction, under the lock and with
\* the row held; userDisable counts with two plain queries.
Count(o, k, u) ==
  /\ k \in Removals /\ Starts(o, k, u) /\ MayRemove(u)
  /\ LockFree(o)
  /\ o \in WebOps => RowFree(u)
  /\ lock' = IF o \in WebOps THEN o ELSE lock
  /\ op' = [op EXCEPT ![o] = Stage("counted", k, u)]
  /\ UNCHANGED <<throttleVars, user, session, login, epoch, overtaken, unrevoked>>

\* A removal and a command that counted without the lock overlap.
Overlaps(o, x) == Pending(x) /\ x # o /\ (o \in CliOps \/ x \in CliOps)
Noted(o, next) == [x \in Ops |-> IF x = o THEN next
                                 ELSE IF Overlaps(o, x) THEN [op[x] EXCEPT !.stale = TRUE] ELSE op[x]]
Counted(o, k) == Pending(o) /\ op[o].kind = k
Disabled(u) == [user EXCEPT ![u] = [enabled |-> FALSE, epoch |-> epoch + 1]]
WebDisable(o) == LET u == op[o].user IN
  /\ Counted(o, "disable") /\ o \in WebOps
  /\ NextEpoch
  /\ user' = Disabled(u) /\ session' = Ended(u)
  /\ op' = Noted(o, None) /\ lock' = Unlocked(o)
  /\ overtaken' = (overtaken \/ op[o].stale)
  /\ UNCHANGED <<throttleVars, login, unrevoked>>
\* The sessions go with the row.
WebDelete(o) == LET u == op[o].user IN
  /\ Counted(o, "delete") /\ o \in WebOps
  /\ user' = [user EXCEPT ![u] = None] /\ session' = Dropped(u)
  /\ op' = Noted(o, None) /\ lock' = Unlocked(o)
  /\ overtaken' = (overtaken \/ op[o].stale)
  /\ UNCHANGED <<throttleVars, login, epoch, unrevoked>>
\* userDisable: the update, and later the sessions.
CliDisable(o) == LET u == op[o].user IN
  /\ Counted(o, "disable") /\ o \in CliOps /\ Exists(u) /\ RowFree(u)
  /\ NextEpoch
  /\ user' = Disabled(u)
  /\ op' = Noted(o, Stage("revoking", "password", u))
  /\ overtaken' = (overtaken \/ op[o].stale)
  /\ UNCHANGED <<throttleVars, session, login, lock, unrevoked>>

\* Refused (no such account, the last administrator, a name in use) or a failed statement:
\* the transaction rolls back and the answer is an error.
OpFails(o) ==
  /\ op[o] # None /\ op[o].at # "revoking"
  /\ Over(o) /\ lock' = Unlocked(o)
  /\ UNCHANGED <<throttleVars, user, session, login, epoch, overtaken, unrevoked>>
-------------------------------------------------------------------------------
\* The server restarts: its handlers and its memory are gone, and bootstrapAdminUser makes an
\* administrator only when there is no account at all.  A handler between its two statements
\* never makes the second.
Interrupted == {op[o].user : o \in {x \in WebOps : op[x] # None /\ op[x].at = "revoking"}}
Bootstrapped(a) == IF \A u \in Users : ~Exists(u)
                   THEN [user EXCEPT ![a] = [enabled |-> TRUE, epoch |-> epoch]] ELSE user
Restart(a) ==
  /\ Forgotten
  /\ login' = [l \in Logins |-> None]
  /\ op' = [o \in Ops |-> IF o \in WebOps THEN None ELSE op[o]]
  /\ lock' = None
  /\ unrevoked' = unrevoked \cup Interrupted
  /\ user' = Bootstrapped(a)
  /\ UNCHANGED <<session, epoch, overtaken>>

LapseStep == \E u \in Users :
  FailuresLapse(u) /\ UNCHANGED <<user, session, login, op, lock, epoch, overtaken, unrevoked>>
LoginStep == \E l \in Logins :
  \/ \E u \in Users : LoginRefused(l, u) \/ LoginKnown(l, u)
  \/ LoginFails(l) \/ LoginClears(l) \/ LoginError(l)
  \/ \E s \in Sessions : CreateSession(l, s)
SessionStep == \E s \in Sessions : Logout(s) \/ SessionExpires(s) \/ CleanSession(s)
OpStep == \E o \in Ops :
  \/ \E k \in Kinds, u \in Users : (o \in WebOps /\ WebBegin(o, k, u)) \/ Count(o, k, u)
  \/ \E u \in Users : Create(o, u) \/ Enable(o, u) \/ ChangePassword(o, u)
  \/ RevokeSessions(o) \/ RevokeFails(o) \/ WebDisable(o) \/ WebDelete(o) \/ CliDisable(o) \/ OpFails(o)
Next == LapseStep \/ LoginStep \/ SessionStep \/ OpStep \/ \E a \in Admins : Restart(a)
Spec == Init /\ [][Next]_vars
-------------------------------------------------------------------------------
\* Somebody can still administer the system: handlers that disable or delete accounts at the
\* same time never remove the last enabled administrator between them.  Only a removal that
\* overlapped a command, which counts without the lock, may (adminUserAction, adminDeleteUser,
\* userDisable).
AdminRemains == EnabledAdmins = {} => overtaken

\* Nobody is admitted by a password checked before the account was disabled, deleted or given
\* a new one.  What the code leaves open is named: a sign-in that the change overtook between
\* the check and the INSERT, the moment between the two statements of a change, a second
\* statement that failed, and the signed cookie of the previous release, which nothing revokes
\* (adminOK, adminUserAction, adminChangePassword, adminDeleteUser, userPassword, userDisable).
BeingRevoked(u) == u \in unrevoked \/ \E o \in Ops : op[o] # None /\ op[o].at = "revoking" /\ op[o].user = u
RevokedStaysOut == \A a \in Admissions :
  \/ a.epoch = user[a.user].epoch
  \/ a.by \in {"late session", "signed cookie"}
  \/ BeingRevoked(a.user)

\* Between two resets an account is guessed at no more often than the limit, plus the sign-ins
\* that had passed the check when it was reached (loginBlocked, recordLoginFailure).
GuessesBounded == \A u \in Users : guesses[u] <= LoginLimit + Cardinality(Logins) - 1
===============================================================================
