-------------------------- MODULE UserAccountsProofs --------------------------
(* The accounts, their sessions and the throttle of sign-ins, for any number of    *)
(* accounts, sessions, sign-ins, handlers and commands.                            *)
EXTENDS UserAccounts, FiniteSetTheorems, TLAPS

\* The tables the argument reads.
AdminTypes == /\ user \in [Users -> Account \cup {None}]
              /\ op \in [Ops -> Op \cup {None}]
              /\ overtaken \in BOOLEAN /\ epoch \in Nat
\* A removal that has counted leaves an administrator, unless a command overlapped it.
Covered == \A o \in Ops : Pending(o) => op[o].stale \/ overtaken \/ EnabledAdmins \ {op[o].user} # {}
\* A handler that has counted holds the lock.
Locked == \A o \in WebOps : Pending(o) => lock = o
AdminInv == AdminTypes /\ AdminRemains /\ Covered /\ Locked

\* A step that takes no administrator away and counts nothing keeps the invariant.
LEMMA NobodyLeaves ==
  ASSUME AdminInv, AdminTypes', EnabledAdmins \subseteq EnabledAdmins', overtaken' = overtaken,
         \A o \in Ops : Pending(o)' => Pending(o) /\ op'[o] = op[o] /\ (o \in WebOps => lock' = lock)
  PROVE  AdminInv'
<1>1. AdminRemains'
  BY DEF AdminInv, AdminRemains
<1>2. Covered'
  BY DEF AdminInv, Covered
<1>3. Locked'
  BY DEF AdminInv, Locked, Ops
<1> QED BY <1>1, <1>2, <1>3 DEF AdminInv

\* Accounts and operations untouched.
LEMMA Untouched ==
  ASSUME AdminInv, UNCHANGED <<user, op, overtaken, lock, epoch>>
  PROVE  AdminInv'
BY DEF AdminInv, AdminTypes, AdminRemains, Covered, Locked, Pending, EnabledAdmins, Enabled, Exists

\* An operation that begins, ends or goes on to its sessions; accounts keep their state, or
\* become enabled.
LEMMA OneMoves ==
  ASSUME AdminInv, NEW o \in Ops, NEW next \in Op \cup {None}, op' = [op EXCEPT ![o] = next],
         next # None => next.at # "counted",
         lock' = lock \/ lock = o, overtaken' = overtaken,
         epoch' \in Nat,
         user' \in [Users -> Account \cup {None}], \A u \in Users : Enabled(u) => Enabled(u)'
  PROVE  AdminInv'
<1>1. AdminTypes'
  BY DEF AdminInv, AdminTypes
<1>2. EnabledAdmins \subseteq EnabledAdmins'
  BY AccountAssumption DEF EnabledAdmins
<1>3. AdminRemains'
  BY <1>2 DEF AdminInv, AdminRemains
<1>4. \A x \in Ops : Pending(x)' => x # o /\ Pending(x) /\ op'[x] = op[x]
  BY DEF Pending, AdminInv, AdminTypes
<1>5. Covered'
  BY <1>2, <1>4 DEF AdminInv, Covered
<1>6. Locked'
  BY <1>4 DEF AdminInv, Locked, Ops
<1> QED BY <1>1, <1>3, <1>5, <1>6 DEF AdminInv

\* More than one member leaves one beside any u.
LEMMA OneBeside == ASSUME NEW S, NEW u \in S, Cardinality(S) > 1 PROVE S \ {u} # {}
<1> SUFFICES ASSUME S = {u} PROVE FALSE
  OBVIOUS
<1>1. Cardinality({u}) = 1
  BY FS_Singleton
<1> QED BY <1>1

\* A removal counts.
LEMMA CountKeeps ==
  ASSUME AdminInv, NEW o \in Ops, NEW k \in Kinds, NEW u \in Users, Count(o, k, u)
  PROVE  AdminInv'
<1> DEFINE next == Stage("counted", k, u)
<1>1. next \in Op /\ next.user = u /\ next.at = "counted"
  BY DEF Stage, Op
<1>2. op' = [op EXCEPT ![o] = next] /\ UNCHANGED <<user, overtaken, epoch>> /\ MayRemove(u)
  BY DEF Count
<1>3. AdminTypes'
  BY <1>1, <1>2 DEF AdminInv, AdminTypes
<1>4. EnabledAdmins' = EnabledAdmins
  BY <1>2 DEF EnabledAdmins, Enabled, Exists
<1>5. overtaken \/ EnabledAdmins \ {u} # {}
  <2>1. CASE u \in EnabledAdmins
    BY <2>1, <1>2, OneBeside DEF MayRemove
  <2>2. CASE u \notin EnabledAdmins
    BY <2>2 DEF AdminInv, AdminRemains
  <2> QED BY <2>1, <2>2
<1>6. op'[o] = next /\ \A x \in Ops : x # o => op'[x] = op[x]
  BY <1>2 DEF AdminInv, AdminTypes
<1>7. Covered'
  <2>1. ASSUME NEW x \in Ops, Pending(x)'
        PROVE  op'[x].stale \/ overtaken' \/ EnabledAdmins' \ {op'[x].user} # {}
    <3>1. CASE x = o
      BY <3>1, <1>1, <1>2, <1>4, <1>5, <1>6
    <3>2. CASE x # o
      <4>1. Pending(x) /\ op'[x] = op[x]
        BY <3>2, <2>1, <1>6 DEF Pending
      <4> QED BY <4>1, <1>2, <1>4 DEF AdminInv, Covered
    <3> QED BY <3>1, <3>2
  <2> QED BY <2>1 DEF Covered
<1>8. Locked'
  <2>1. ASSUME NEW x \in WebOps, Pending(x)' PROVE lock' = x
    <3>1. CASE x = o
      BY <3>1 DEF Count
    <3>2. CASE x # o
      <4>1. lock = x
        BY <3>2, <2>1, <1>6 DEF Pending, AdminInv, Locked, Ops
      <4>2. o \notin WebOps
        BY <4>1, AccountAssumption DEF Count, LockFree
      <4> QED BY <4>1, <4>2 DEF Count
    <3> QED BY <3>1, <3>2
  <2> QED BY <2>1 DEF Locked
<1>9. AdminRemains'
  BY <1>2, <1>4 DEF AdminInv, AdminRemains
<1> QED BY <1>3, <1>7, <1>8, <1>9 DEF AdminInv

\* A removal goes through: the others that a command overlaps are marked, and two handlers
\* never meet here.
LEMMA RemovalKeeps ==
  ASSUME AdminInv, NEW o \in Ops, Pending(o), NEW next \in Op \cup {None}, next # None => next.at # "counted",
         op' = Noted(o, next), user' \in [Users -> Account \cup {None}],
         epoch' \in Nat, EnabledAdmins' = EnabledAdmins \ {op[o].user},
         overtaken' = (overtaken \/ op[o].stale),
         o \in CliOps => lock' = lock
  PROVE  AdminInv'
<1>1. op[o].stale \in BOOLEAN /\ overtaken \in BOOLEAN
  BY DEF AdminInv, AdminTypes, Pending, Op
<1>2. \A x \in Ops : op'[x] = IF x = o THEN next ELSE IF Overlaps(o, x) THEN [op[x] EXCEPT !.stale = TRUE] ELSE op[x]
  BY DEF Noted
<1>3. AdminTypes'
  <2>1. \A x \in Ops : Pending(x) => [op[x] EXCEPT !.stale = TRUE] \in Op
    BY DEF AdminInv, AdminTypes, Pending, Op
  <2>2. \A x \in Ops : op'[x] \in Op \cup {None}
    BY <1>2, <2>1 DEF Overlaps, AdminInv, AdminTypes
  <2> QED BY <1>1, <2>2 DEF Noted, AdminInv, AdminTypes
<1>4. AdminRemains'
  BY <1>1 DEF AdminInv, AdminRemains, Covered
<1>5. ASSUME NEW x \in Ops, Pending(x)'
      PROVE  x # o /\ Pending(x) /\ op'[x].stale = TRUE /\ (x \in WebOps => o \in CliOps)
  <2>1. x # o
    BY <1>2, <1>5 DEF Pending
  <2>2. Pending(x)
    BY <1>2, <1>5, <2>1 DEF Pending, Overlaps
  <2>3. o \in CliOps \/ x \in CliOps
    BY <2>1, <2>2 DEF AdminInv, Locked, Ops
  <2>4. Overlaps(o, x)
    BY <2>1, <2>2, <2>3 DEF Overlaps
  <2>5. op'[x].stale = TRUE
    BY <1>2, <2>1, <2>2, <2>4 DEF AdminInv, AdminTypes, Pending, Op
  <2>6. x \in WebOps => o \in CliOps
    BY <2>3, AccountAssumption
  <2> QED BY <2>1, <2>2, <2>5, <2>6
<1>6. Covered'
  BY <1>5 DEF Covered
<1>7. Locked'
  BY <1>5 DEF AdminInv, Locked, Ops
<1> QED BY <1>3, <1>4, <1>6, <1>7 DEF AdminInv

-----------------------------------------------------------------------------
\* The first administrators are enabled and nothing is under way.
LEMMA AdminInit == Init => AdminInv
<1> SUFFICES ASSUME Init PROVE AdminInv
  OBVIOUS
<1>1. AdminTypes
  <2>1. [enabled |-> TRUE, epoch |-> 0] \in Account
    BY DEF Account
  <2>2. user \in [Users -> Account \cup {None}]
    BY <2>1 DEF Init
  <2> QED BY <2>2 DEF Init, AdminTypes
<1> QED BY <1>1 DEF Init, AdminInv, AdminRemains, Covered, Locked, Pending, Ops

\* What every step below starts from.
LEMMA Facts == ASSUME AdminInv PROVE
  /\ user \in [Users -> Account \cup {None}] /\ op \in [Ops -> Op \cup {None}]
  /\ None \notin Account /\ epoch \in Nat
BY AccountAssumption DEF AdminInv, AdminTypes

\* A handler is authorised.
LEMMA BeginKeeps == ASSUME AdminInv, NEW o \in Ops, NEW k \in Kinds, NEW u \in Users, WebBegin(o, k, u)
                    PROVE  AdminInv'
<1>1. /\ UNCHANGED <<user, epoch, lock, overtaken>>
      /\ op' = [op EXCEPT ![o] = Stage("begun", k, u)]
  BY DEF WebBegin
<1>2. \A x \in Users : Enabled(x) => Enabled(x)'
  BY <1>1 DEF Enabled, Exists
<1>3. user' \in [Users -> Account \cup {None}] /\ epoch' \in Nat
  BY <1>1, Facts
<1>4. Stage("begun", k, u) \in Op \cup {None} /\ Stage("begun", k, u).at # "counted"
  BY DEF Stage, Op
<1> QED BY <1>1, <1>2, <1>3, <1>4, OneMoves

\* An account is created, enabled or given a password.
LEMMA AccountKeeps == ASSUME AdminInv, NEW o \in Ops, NEW u \in Users,
                             Create(o, u) \/ Enable(o, u) \/ ChangePassword(o, u)
                      PROVE  AdminInv'
<1> USE Facts DEF Over
<1>1. CASE Create(o, u)
  <2>1. epoch' \in Nat /\ user' \in [Users -> Account \cup {None}]
    <3>1. epoch' \in Nat /\ [enabled |-> TRUE, epoch |-> epoch + 1] \in Account
      BY <1>1 DEF Create, NextEpoch, Account
    <3> QED BY <3>1, <1>1 DEF Create
  <2>2. \A x \in Users : Enabled(x) => Enabled(x)'
    BY <1>1 DEF Create, Enabled, Exists
  <2> QED BY <2>1, <2>2, <1>1, OneMoves DEF Create
<1>2. CASE Enable(o, u)
  <2>1. user[u] \in Account
    BY <1>2 DEF Enable, Exists
  <2>2. [user[u] EXCEPT !.enabled = TRUE] \in Account /\ [user[u] EXCEPT !.enabled = TRUE].enabled
    BY <2>1 DEF Account
  <2>3. user' = [user EXCEPT ![u] = [user[u] EXCEPT !.enabled = TRUE]]
    BY <1>2 DEF Enable
  <2>4. user' \in [Users -> Account \cup {None}] /\ \A x \in Users : Enabled(x) => Enabled(x)'
    BY <2>2, <2>3 DEF Enabled, Exists
  <2> QED BY <2>4, <1>2, OneMoves DEF Enable
<1>3. CASE ChangePassword(o, u)
  <2>1. user[u] \in Account
    BY <1>3 DEF ChangePassword, Exists
  <2>2. /\ [user[u] EXCEPT !.epoch = epoch + 1] \in Account
        /\ [user[u] EXCEPT !.epoch = epoch + 1].enabled = user[u].enabled
    BY <2>1 DEF Account
  <2>3. user' = [user EXCEPT ![u] = [user[u] EXCEPT !.epoch = epoch + 1]] /\ epoch' \in Nat
    BY <1>3 DEF ChangePassword, NextEpoch
  <2>4. user' \in [Users -> Account \cup {None}] /\ \A x \in Users : Enabled(x) => Enabled(x)'
    BY <2>2, <2>3 DEF Enabled, Exists
  <2>5. Stage("revoking", "password", u) \in Op /\ Stage("revoking", "password", u).at # "counted"
    BY DEF Stage, Op, Kinds
  <2> QED BY <2>3, <2>4, <2>5, <1>3, OneMoves DEF ChangePassword
<1> QED BY <1>1, <1>2, <1>3

\* An operation ends without touching an account.
LEMMA EndKeeps == ASSUME AdminInv, NEW o \in Ops, RevokeSessions(o) \/ RevokeFails(o) \/ OpFails(o)
                  PROVE  AdminInv'
<1>1. UNCHANGED <<user, epoch, overtaken>> /\ op' = [op EXCEPT ![o] = None] /\ (lock' = lock \/ lock = o)
  BY DEF RevokeSessions, RevokeFails, OpFails, Over, Unlocked
<1>2. \A x \in Users : Enabled(x) => Enabled(x)'
  BY <1>1 DEF Enabled, Exists
<1> QED BY <1>1, <1>2, Facts, OneMoves

\* A removal goes through.
LEMMA RemovalStep == ASSUME AdminInv, NEW o \in Ops, WebDisable(o) \/ CliDisable(o) \/ WebDelete(o)
                     PROVE  AdminInv'
<1> USE Facts
<1>1. Pending(o) /\ op[o] \in Op /\ op[o].user \in Users
  BY DEF WebDisable, CliDisable, WebDelete, Counted, Pending, Op
<1>2. overtaken' = (overtaken \/ op[o].stale) /\ (o \in CliOps => lock' = lock)
  BY AccountAssumption DEF WebDisable, CliDisable, WebDelete
<1>3. PICK gone \in Account \cup {None} :
        user' = [user EXCEPT ![op[o].user] = gone] /\ (gone # None => ~gone.enabled)
  <2>1. [enabled |-> FALSE, epoch |-> epoch + 1] \in Account
    BY DEF Account
  <2> QED BY <2>1 DEF WebDisable, CliDisable, WebDelete, Disabled
<1>4. user' \in [Users -> Account \cup {None}] /\ EnabledAdmins' = EnabledAdmins \ {op[o].user}
  <2>1. user' \in [Users -> Account \cup {None}]
    BY <1>1, <1>3
  <2>2. \A x \in Users : user'[x] = IF x = op[o].user THEN gone ELSE user[x]
    BY <1>1, <1>3
  <2>3. \A x \in Users : Enabled(x)' <=> Enabled(x) /\ x # op[o].user
    BY <1>3, <2>2 DEF Enabled, Exists
  <2> QED BY <2>1, <2>3, AccountAssumption DEF EnabledAdmins
<1>5. epoch' \in Nat
  BY DEF WebDisable, CliDisable, WebDelete, NextEpoch
<1>6. \E next \in Op \cup {None} : op' = Noted(o, next) /\ (next # None => next.at # "counted")
  <2>1. Stage("revoking", "password", op[o].user) \in Op /\ Stage("revoking", "password", op[o].user).at # "counted"
    BY <1>1 DEF Stage, Op, Kinds
  <2> QED BY <2>1 DEF WebDisable, CliDisable, WebDelete
<1> QED BY <1>1, <1>2, <1>4, <1>5, <1>6, RemovalKeeps

\* A restart ends handlers and adds an administrator where there is no account.
LEMMA RestartKeeps == ASSUME AdminInv, NEW a \in Admins, Restart(a) PROVE AdminInv'
<1>1. /\ user \in [Users -> Account \cup {None}] /\ op \in [Ops -> Op \cup {None}]
      /\ None \notin Account /\ epoch \in Nat
  BY AccountAssumption DEF AdminInv, AdminTypes
<1>2. [enabled |-> TRUE, epoch |-> epoch] \in Account
  BY <1>1 DEF Account
<1>3. user' \in [Users -> Account \cup {None}] /\ EnabledAdmins \subseteq EnabledAdmins'
  BY <1>1, <1>2, AccountAssumption DEF Restart, Bootstrapped, EnabledAdmins, Enabled, Exists
<1>4. \A o \in Ops : op'[o] = IF o \in WebOps THEN None ELSE op[o]
  BY DEF Restart
<1>5. AdminTypes'
  BY <1>1, <1>3, <1>4 DEF AdminInv, AdminTypes, Restart
<1>6. \A o \in Ops : Pending(o)' => o \notin WebOps /\ Pending(o) /\ op'[o] = op[o]
  BY <1>4 DEF Pending
<1>7. overtaken' = overtaken
  BY DEF Restart
<1> QED BY <1>3, <1>5, <1>6, <1>7, NobodyLeaves

\* Every step keeps the invariant.
LEMMA AdminStep == AdminInv /\ [Next]_vars => AdminInv'
<1> SUFFICES ASSUME AdminInv, [Next]_vars PROVE AdminInv'
  OBVIOUS
<1>1. CASE LapseStep
  BY <1>1, Untouched DEF LapseStep
<1>2. CASE LoginStep
  BY <1>2, Untouched DEF LoginStep, LoginRefused, LoginKnown, LoginFails, LoginClears, LoginError, CreateSession
<1>3. CASE SessionStep
  BY <1>3, Untouched DEF SessionStep, Logout, SessionExpires, CleanSession
<1>4. CASE OpStep
  <2>1. PICK o \in Ops :
          \/ \E k \in Kinds, u \in Users : WebBegin(o, k, u) \/ Count(o, k, u)
          \/ \E u \in Users : Create(o, u) \/ Enable(o, u) \/ ChangePassword(o, u)
          \/ RevokeSessions(o) \/ RevokeFails(o) \/ WebDisable(o)
          \/ WebDelete(o) \/ CliDisable(o) \/ OpFails(o)
    BY <1>4 DEF OpStep
  <2>2. CASE \E k \in Kinds, u \in Users : WebBegin(o, k, u)
    BY <2>2, BeginKeeps
  <2>3. CASE \E k \in Kinds, u \in Users : Count(o, k, u)
    BY <2>3, CountKeeps
  <2>4. CASE \E u \in Users : Create(o, u) \/ Enable(o, u) \/ ChangePassword(o, u)
    BY <2>4, AccountKeeps
  <2>5. CASE RevokeSessions(o) \/ RevokeFails(o) \/ OpFails(o)
    BY <2>5, EndKeeps
  <2>6. CASE WebDisable(o) \/ CliDisable(o) \/ WebDelete(o)
    BY <2>6, RemovalStep
  <2> QED BY <2>1, <2>2, <2>3, <2>4, <2>5, <2>6
<1>5. CASE \E a \in Admins : Restart(a)
  BY <1>5, RestartKeeps
<1>6. CASE UNCHANGED vars
  BY <1>6, Untouched DEF vars
<1> QED BY <1>1, <1>2, <1>3, <1>4, <1>5, <1>6 DEF Next

\* However many handlers disable and delete accounts at the same time, an enabled administrator
\* remains, unless a command that counts without the lock overlapped a removal (adminUserAction,
\* adminDeleteUser, userDisable).
THEOREM AnAdministratorRemains == Spec => []AdminRemains
<1>1. AdminInv => AdminRemains
  BY DEF AdminInv
<1> QED BY <1>1, AdminInit, AdminStep, PTL DEF Spec

-------------------------------------------------------------------------------
(* Types.                                                                        *)
OpsOK == /\ op \in [Ops -> Op \cup {None}]
         /\ lock \in WebOps \cup {None}
         /\ lock # None => Pending(lock)
AccountsOK == /\ user \in [Users -> Account \cup {None}]
              /\ epoch \in 0 .. MaxEpoch /\ overtaken \in BOOLEAN /\ unrevoked \subseteq Users
RowsOK == /\ session \in [Sessions -> Session \cup {None}]
          /\ login \in [Logins -> Login \cup {None}]

LEMMA TypesInParts == TypeOK => ThrottleOK /\ RowsOK /\ OpsOK /\ AccountsOK
BY DEF TypeOK, RowsOK, OpsOK, AccountsOK

LEMMA ThrottleTypes ==
  ASSUME ThrottleOK, NEW u \in Users,
         \/ LetThrough(u) /\ (Guessed(u) \/ UNCHANGED guesses)
         \/ RecordFailure(u) /\ UNCHANGED guesses
         \/ ClearFailures(u) \/ FailuresLapse(u) \/ Forgotten
  PROVE  ThrottleOK'
<1>1. CASE LetThrough(u) /\ (Guessed(u) \/ UNCHANGED guesses)
  BY <1>1 DEF ThrottleOK, LetThrough, Guessed
<1>2. CASE RecordFailure(u) /\ UNCHANGED guesses
  <2>1. Swept \in [Users -> Failures \cup {None}]
    BY DEF Swept, ThrottleOK
  <2>2. OneMore(Swept[u]) \in Failures
    BY <2>1 DEF OneMore, Failures
  <2> QED BY <1>2, <2>1, <2>2 DEF RecordFailure, ThrottleOK
<1>3. CASE ClearFailures(u)
  BY <1>3 DEF ClearFailures, ThrottleOK
<1>4. CASE FailuresLapse(u)
  <2>1. fails[u] \in Failures
    BY <1>4 DEF FailuresLapse, Tracked, ThrottleOK
  <2>2. [fails[u] EXCEPT !.lapsed = TRUE] \in Failures
    BY <2>1 DEF Failures
  <2>3. fails' = [fails EXCEPT ![u] = [fails[u] EXCEPT !.lapsed = TRUE]]
    BY <1>4 DEF FailuresLapse
  <2> QED BY <1>4, <2>2, <2>3 DEF FailuresLapse, ThrottleOK
<1>5. CASE Forgotten
  BY <1>5 DEF Forgotten, ThrottleOK
<1> QED BY <1>1, <1>2, <1>3, <1>4, <1>5

LEMMA LoginTypes == ASSUME TypeOK, LoginStep PROVE TypeOK'
<1>0. ThrottleOK /\ RowsOK /\ OpsOK /\ AccountsOK
  BY TypesInParts
<1>1. PICK l \in Logins : \/ \E u \in Users : LoginRefused(l, u) \/ LoginKnown(l, u)
                          \/ LoginFails(l) \/ LoginClears(l) \/ LoginError(l)
                          \/ \E s \in Sessions : CreateSession(l, s)
  BY DEF LoginStep
<1>2. UNCHANGED <<user, op, lock, epoch, overtaken, unrevoked>>
  BY <1>1 DEF LoginRefused, LoginKnown, LoginFails, LoginClears, LoginError, CreateSession
<1>3. OpsOK' /\ AccountsOK'
  BY <1>0, <1>2 DEF OpsOK, AccountsOK, Pending
<1>4. login[l] # None => login[l] \in Login /\ login[l].user \in Users /\ login[l].epoch \in Nat
  BY <1>0 DEF RowsOK, Login
<1>5. ThrottleOK' /\ RowsOK'
  <2> DEFINE Goal == ThrottleOK' /\ RowsOK'
  <2> SUFFICES Goal
    OBVIOUS
  <2>1. ASSUME NEW u \in Users, LoginRefused(l, u) PROVE Goal
    <3>1. [at |-> "refused", user |-> u, epoch |-> 0] \in Login
      BY DEF Login
    <3> QED BY <1>0, <2>1, <3>1, ThrottleTypes DEF LoginRefused, RowsOK
  <2>2. ASSUME NEW u \in Users, LoginKnown(l, u) PROVE Goal
    <3>1. user[u].epoch \in Nat
      BY <1>0, <2>2 DEF LoginKnown, Enabled, Exists, AccountsOK, Account
    <3>2. [at |-> "known", user |-> u, epoch |-> user[u].epoch] \in Login
      BY <3>1 DEF Login
    <3> QED BY <1>0, <2>2, <3>2, ThrottleTypes DEF LoginKnown, RowsOK
  <2>3. CASE LoginFails(l)
    BY <1>0, <1>4, <2>3, ThrottleTypes DEF LoginFails, RowsOK
  <2>4. CASE LoginClears(l)
    <3>1. login[l] # None
      BY <2>4 DEF LoginClears
    <3>2. [login[l] EXCEPT !.at = "cleared"] \in Login
      BY <1>4, <3>1 DEF Login
    <3>3. login' = [login EXCEPT ![l] = [login[l] EXCEPT !.at = "cleared"]]
      BY <2>4 DEF LoginClears
    <3>4. ThrottleOK'
      BY <1>0, <1>4, <2>4, <3>1, ThrottleTypes DEF LoginClears
    <3>5. RowsOK'
      BY <1>0, <2>4, <3>2, <3>3 DEF LoginClears, RowsOK
    <3> QED BY <3>4, <3>5
  <2>5. CASE LoginError(l)
    BY <1>0, <2>5 DEF LoginError, throttleVars, ThrottleOK, RowsOK
  <2>6. ASSUME NEW s \in Sessions, CreateSession(l, s) PROVE Goal
    <3>1. login[l] # None
      BY <2>6 DEF CreateSession
    <3>2. NewSession(l) \in Session
      BY <1>4, <3>1 DEF NewSession, Session
    <3> QED BY <1>0, <2>6, <3>2 DEF CreateSession, throttleVars, ThrottleOK, RowsOK
  <2> HIDE DEF Goal
  <2> QED BY <1>1, <2>1, <2>2, <2>3, <2>4, <2>5, <2>6
<1> QED BY <1>3, <1>5 DEF TypeOK, RowsOK, OpsOK, AccountsOK

LEMMA SessionTypes == ASSUME TypeOK, SessionStep PROVE TypeOK'
<1>0. ThrottleOK /\ RowsOK /\ OpsOK /\ AccountsOK
  BY TypesInParts
<1>1. PICK s \in Sessions : Logout(s) \/ SessionExpires(s) \/ CleanSession(s)
  BY DEF SessionStep
<1>2. UNCHANGED <<throttleVars, login, user, op, lock, epoch, overtaken, unrevoked>>
  BY <1>1 DEF Logout, SessionExpires, CleanSession
<1>3. PICK row \in Session \cup {None} : session' = [session EXCEPT ![s] = row]
  <2>1. session[s] # None => /\ [session[s] EXCEPT !.state = "revoked"] \in Session
                             /\ [session[s] EXCEPT !.state = "expired"] \in Session
    BY <1>0 DEF RowsOK, Session
  <2> QED BY <1>1, <2>1 DEF Logout, Accepted, SessionExpires, CleanSession
<1>4. ThrottleOK' /\ RowsOK' /\ OpsOK' /\ AccountsOK'
  <2>1. ThrottleOK' /\ OpsOK' /\ AccountsOK'
    BY <1>0, <1>2 DEF throttleVars, ThrottleOK, OpsOK, AccountsOK, Pending
  <2>2. RowsOK'
    BY <1>0, <1>2, <1>3 DEF RowsOK
  <2> QED BY <2>1, <2>2
<1> QED BY <1>4 DEF TypeOK, RowsOK, OpsOK, AccountsOK

\* An operation that moves to a stage before or after the count.
LEMMA StageTypes ==
  ASSUME OpsOK, NEW o \in Ops, NEW next \in Op \cup {None}, op' = [op EXCEPT ![o] = next],
         \/ lock' = lock /\ ~Pending(o)
         \/ lock' = IF lock = o THEN None ELSE lock
  PROVE  OpsOK'
<1>1. op' \in [Ops -> Op \cup {None}] /\ \A x \in Ops : x # o => op'[x] = op[x]
  BY DEF OpsOK
<1>2. lock' \in WebOps \cup {None} /\ (lock' # None => lock' = lock /\ lock # o)
  BY DEF OpsOK
<1>3. lock' # None => Pending(lock)'
  <2>1. WebOps \subseteq Ops
    BY DEF Ops
  <2> QED BY <1>1, <1>2, <2>1 DEF OpsOK, Pending
<1> QED BY <1>1, <1>2, <1>3 DEF OpsOK

\* A removal that went through.
LEMMA NotedTypes ==
  ASSUME OpsOK, NEW o \in Ops, NEW next \in Op \cup {None}, op' = Noted(o, next),
         lock' = IF lock = o THEN None ELSE lock
  PROVE  OpsOK'
<1>1. \A x \in Ops : op'[x] = IF x = o THEN next ELSE IF Overlaps(o, x) THEN [op[x] EXCEPT !.stale = TRUE] ELSE op[x]
  BY DEF Noted
<1>2. \A x \in Ops : Pending(x) => [op[x] EXCEPT !.stale = TRUE] \in Op /\ [op[x] EXCEPT !.stale = TRUE].at = "counted"
  BY DEF OpsOK, Pending, Op
<1>3. op' \in [Ops -> Op \cup {None}]
  <2>1. \A x \in Ops : op'[x] \in Op \cup {None}
    BY <1>1, <1>2 DEF Overlaps, OpsOK
  <2> QED BY <2>1 DEF Noted
<1>4. lock' \in WebOps \cup {None} /\ (lock' # None => lock' = lock /\ lock # o)
  BY DEF OpsOK
<1>5. lock' # None => Pending(lock)'
  <2>1. WebOps \subseteq Ops
    BY DEF Ops
  <2>2. ASSUME NEW x \in Ops, x # o, Pending(x) PROVE Pending(x)'
    <3>1. CASE Overlaps(o, x)
      BY <1>1, <1>2, <2>2, <3>1, AccountAssumption DEF Pending
    <3>2. CASE ~Overlaps(o, x)
      BY <1>1, <2>2, <3>2 DEF Pending
    <3> QED BY <3>1, <3>2
  <2>3. lock # None => Pending(lock)
    BY DEF OpsOK
  <2> QED BY <1>4, <2>1, <2>2, <2>3
<1> QED BY <1>3, <1>4, <1>5 DEF OpsOK

LEMMA StagesAreOps ==
  ASSUME NEW at \in {"begun", "counted", "revoking"}, NEW k \in Kinds, NEW u \in Users
  PROVE  /\ Stage(at, k, u) \in Op /\ Stage(at, k, u) # None
         /\ Stage(at, k, u).at = at /\ Stage(at, k, u).kind = k /\ Stage(at, k, u).user = u
<1>1. Stage(at, k, u) \in Op
  BY DEF Stage, Op
<1> QED BY <1>1, AccountAssumption DEF Stage

\* Operations and the lock, an operation at a time.
LEMMA OpStepTypes == ASSUME OpsOK, OpStep PROVE OpsOK'
<1>1. PICK o \in Ops :
        \/ \E k \in Kinds, u \in Users : (o \in WebOps /\ WebBegin(o, k, u)) \/ Count(o, k, u)
        \/ \E u \in Users : Create(o, u) \/ Enable(o, u) \/ ChangePassword(o, u)
        \/ RevokeSessions(o) \/ RevokeFails(o) \/ WebDisable(o)
        \/ WebDelete(o) \/ CliDisable(o) \/ OpFails(o)
  BY DEF OpStep
<1>2. op[o] # None => op[o] \in Op /\ op[o].user \in Users
  BY DEF OpsOK, Op
<1>3. ASSUME NEW k \in Kinds, NEW u \in Users, WebBegin(o, k, u) PROVE OpsOK'
  BY <1>3, StageTypes, StagesAreOps DEF WebBegin, Pending
<1>4. ASSUME NEW k \in Kinds, NEW u \in Users, Count(o, k, u) PROVE OpsOK'
  <2> DEFINE next == Stage("counted", k, u)
  <2>1. next \in Op /\ next # None /\ next.at = "counted"
    BY StagesAreOps
  <2> HIDE DEF next
  <2>2. op' = [op EXCEPT ![o] = next] /\ lock' = IF o \in WebOps THEN o ELSE lock
    BY <1>4 DEF Count, next
  <2>3. op' \in [Ops -> Op \cup {None}] /\ op'[o] = next /\ \A x \in Ops : x # o => op'[x] = op[x]
    BY <2>1, <2>2 DEF OpsOK
  <2>4. Pending(o)'
    BY <2>1, <2>3 DEF Pending
  <2>5. lock' \in WebOps \cup {None}
    BY <2>2 DEF OpsOK
  <2>6. ASSUME lock' # None, lock' # o PROVE Pending(lock)'
    <3>1. lock' = lock /\ lock \in WebOps /\ Pending(lock)
      BY <2>2, <2>6 DEF OpsOK
    <3> QED BY <2>3, <2>6, <3>1 DEF Pending, Ops
  <2> QED BY <2>3, <2>4, <2>5, <2>6 DEF OpsOK
<1>5. ASSUME NEW u \in Users, Create(o, u) \/ Enable(o, u) \/ ChangePassword(o, u) PROVE OpsOK'
  <2>1. ~Pending(o)
    <3>1. \A k \in Kinds : Starts(o, k, u) => ~Pending(o)
      BY StagesAreOps DEF Starts, Pending
    <3> QED BY <1>5, <3>1 DEF Create, Enable, ChangePassword, Kinds
  <2>2. lock' = lock /\ (op' = [op EXCEPT ![o] = None] \/ op' = [op EXCEPT ![o] = Stage("revoking", "password", u)])
    BY <1>5 DEF Create, Enable, ChangePassword, Over
  <2>3. Stage("revoking", "password", u) \in Op
    BY StagesAreOps DEF Kinds
  <2> QED BY <2>1, <2>2, <2>3, StageTypes
<1>6. CASE RevokeSessions(o) \/ RevokeFails(o) \/ OpFails(o)
  <2>1. op' = [op EXCEPT ![o] = None]
    BY <1>6 DEF RevokeSessions, RevokeFails, OpFails, Over
  <2>2. (lock' = lock /\ ~Pending(o)) \/ lock' = IF lock = o THEN None ELSE lock
    BY <1>6 DEF RevokeSessions, RevokeFails, OpFails, Unlocked, Pending
  <2> QED BY <2>1, <2>2, StageTypes
<1>7. CASE WebDisable(o) \/ WebDelete(o)
  BY <1>7, NotedTypes DEF WebDisable, WebDelete, Unlocked
<1>8. CASE CliDisable(o)
  <2>1. lock' = (IF lock = o THEN None ELSE lock) /\ op' = Noted(o, Stage("revoking", "password", op[o].user))
    BY <1>8, AccountAssumption DEF CliDisable, OpsOK, Counted, Pending
  <2>2. Stage("revoking", "password", op[o].user) \in Op
    BY <1>2, <1>8, StagesAreOps DEF CliDisable, Counted, Pending, Kinds
  <2> QED BY <2>1, <2>2, NotedTypes
<1> QED BY <1>1, <1>3, <1>4, <1>5, <1>6, <1>7, <1>8

\* Accounts and sessions under an operation.
LEMMA AccountTypes == ASSUME TypeOK, OpStep PROVE ThrottleOK' /\ RowsOK' /\ AccountsOK'
<1>0. ThrottleOK /\ RowsOK /\ OpsOK /\ AccountsOK /\ epoch \in Nat
  BY TypesInParts DEF AccountsOK
<1>1. PICK o \in Ops :
        \/ \E k \in Kinds, u \in Users : (o \in WebOps /\ WebBegin(o, k, u)) \/ Count(o, k, u)
        \/ \E u \in Users : Create(o, u) \/ Enable(o, u) \/ ChangePassword(o, u)
        \/ RevokeSessions(o) \/ RevokeFails(o) \/ WebDisable(o)
        \/ WebDelete(o) \/ CliDisable(o) \/ OpFails(o)
  BY DEF OpStep
<1>2. op[o] # None => op[o].user \in Users
  BY <1>0 DEF OpsOK, Op
<1>3. UNCHANGED <<throttleVars, login>>
  BY <1>1 DEF WebBegin, Count, Create, Enable, ChangePassword, RevokeSessions, RevokeFails, WebDisable,
              WebDelete, CliDisable, OpFails
<1>4. ThrottleOK'
  BY <1>0, <1>3 DEF ThrottleOK, throttleVars
<1>5. session' \in [Sessions -> Session \cup {None}]
  <2>1. \A s \in Sessions : session[s] # None => [session[s] EXCEPT !.state = "revoked"] \in Session
    BY <1>0 DEF RowsOK, Session
  <2>2. \A u : /\ Ended(u) \in [Sessions -> Session \cup {None}]
               /\ Dropped(u) \in [Sessions -> Session \cup {None}]
    BY <1>0, <2>1 DEF RowsOK, Ended, Dropped
  <2>3. session' = session \/ \E u : session' = Ended(u) \/ session' = Dropped(u)
    BY <1>1 DEF WebBegin, Count, Create, Enable, ChangePassword, RevokeSessions, RevokeFails, WebDisable,
              WebDelete, CliDisable, OpFails
  <2> QED BY <1>0, <2>2, <2>3 DEF RowsOK
<1>6. epoch' \in 0 .. MaxEpoch /\ overtaken' \in BOOLEAN /\ unrevoked' \subseteq Users
  <2>1. CASE UNCHANGED <<epoch, overtaken>>
    BY <1>0, <1>1, <1>2, <2>1 DEF AccountsOK, WebBegin, Count, Create, Enable, ChangePassword, RevokeSessions,
              RevokeFails, WebDisable, WebDelete, CliDisable, OpFails
  <2>2. CASE ~UNCHANGED <<epoch, overtaken>>
    <3>1. PICK u \in Users : Create(o, u) \/ ChangePassword(o, u) \/ WebDisable(o) \/ WebDelete(o) \/ CliDisable(o)
      BY <1>1, <1>2, <2>2 DEF WebBegin, Count, Enable, RevokeSessions, RevokeFails, OpFails, WebDisable, WebDelete,
              CliDisable, Counted, Pending
    <3>2. epoch' = epoch \/ (epoch < MaxEpoch /\ epoch' = epoch + 1)
      BY <3>1 DEF Create, ChangePassword, WebDisable, WebDelete, CliDisable, NextEpoch
    <3>3. epoch' \in 0 .. MaxEpoch
      BY <1>0, <3>2, AccountAssumption DEF AccountsOK
    <3>4. Pending(o) => op[o].stale \in BOOLEAN
      BY <1>0 DEF OpsOK, Op, Pending
    <3>5. overtaken' \in BOOLEAN /\ unrevoked' = unrevoked
      BY <1>0, <3>1, <3>4 DEF AccountsOK, Create, ChangePassword, WebDisable, WebDelete, CliDisable, Counted
    <3> QED BY <1>0, <3>3, <3>5 DEF AccountsOK
  <2> QED BY <2>1, <2>2
<1>7. user' \in [Users -> Account \cup {None}]
  <2>1. CASE UNCHANGED user
    BY <1>0, <2>1 DEF AccountsOK
  <2>2. CASE ~UNCHANGED user
    <3>1. PICK u \in Users : \/ Create(o, u) \/ Enable(o, u) \/ ChangePassword(o, u)
                             \/ u = op[o].user /\ (WebDisable(o) \/ WebDelete(o) \/ CliDisable(o))
      BY <1>1, <1>2, <2>2 DEF WebBegin, Count, RevokeSessions, RevokeFails, OpFails, WebDisable, WebDelete,
              CliDisable, Counted, Pending
    <3>2. /\ [enabled |-> TRUE, epoch |-> epoch + 1] \in Account
          /\ [enabled |-> FALSE, epoch |-> epoch + 1] \in Account
      BY <1>0 DEF Account
    <3>3. user[u] # None => /\ [user[u] EXCEPT !.enabled = TRUE] \in Account
                            /\ [user[u] EXCEPT !.epoch = epoch + 1] \in Account
      <4> SUFFICES ASSUME user[u] # None
                   PROVE  /\ [user[u] EXCEPT !.enabled = TRUE] \in Account
                          /\ [user[u] EXCEPT !.epoch = epoch + 1] \in Account
        OBVIOUS
      <4>1. user[u] \in Account
        BY <1>0 DEF AccountsOK
      <4>2. epoch + 1 \in Nat
        BY <1>0
      <4> QED BY <4>1, <4>2 DEF Account
    <3>4. PICK row \in Account \cup {None} : user' = [user EXCEPT ![u] = row]
      <4>1. CASE Create(o, u)
        BY <3>2, <4>1 DEF Create
      <4>2. CASE Enable(o, u)
        BY <3>3, <4>2 DEF Enable, Exists
      <4>3. CASE ChangePassword(o, u)
        BY <3>3, <4>3 DEF ChangePassword, Exists
      <4>4. CASE u = op[o].user /\ (WebDisable(o) \/ CliDisable(o))
        BY <3>2, <4>4 DEF WebDisable, CliDisable, Disabled
      <4>5. CASE u = op[o].user /\ WebDelete(o)
        BY <4>5 DEF WebDelete
      <4> QED BY <3>1, <4>1, <4>2, <4>3, <4>4, <4>5
    <3> QED BY <1>0, <3>4 DEF AccountsOK
  <2> QED BY <2>1, <2>2
<1> QED BY <1>0, <1>3, <1>4, <1>5, <1>6, <1>7 DEF RowsOK, AccountsOK

LEMMA RestartTypes == ASSUME TypeOK, NEW a \in Admins, Restart(a) PROVE TypeOK'
<1>0. ThrottleOK /\ RowsOK /\ OpsOK /\ AccountsOK /\ epoch \in Nat
  BY TypesInParts DEF AccountsOK
<1>1. ThrottleOK'
  BY <1>0 DEF Restart, Forgotten, ThrottleOK
<1>2. RowsOK'
  BY <1>0 DEF Restart, RowsOK
<1>3. OpsOK'
  BY <1>0 DEF Restart, OpsOK
<1>4. AccountsOK'
  <2>1. [enabled |-> TRUE, epoch |-> epoch] \in Account
    BY <1>0 DEF Account
  <2>2. user' \in [Users -> Account \cup {None}]
    BY <1>0, <2>1 DEF Restart, Bootstrapped, AccountsOK
  <2>3. Interrupted \subseteq Users
    BY <1>0 DEF Interrupted, OpsOK, Ops, Op
  <2>4. unrevoked' \subseteq Users
    BY <1>0, <2>3 DEF Restart, AccountsOK
  <2> QED BY <1>0, <2>2, <2>4 DEF Restart, AccountsOK
<1> QED BY <1>1, <1>2, <1>3, <1>4 DEF TypeOK, RowsOK, OpsOK, AccountsOK

LEMMA TypesInit == Init => TypeOK
<1> SUFFICES ASSUME Init PROVE TypeOK
  OBVIOUS
<1>1. [enabled |-> TRUE, epoch |-> 0] \in Account
  BY DEF Account
<1>2. ThrottleOK /\ RowsOK
  BY DEF Init, ThrottleInit, ThrottleOK, RowsOK
<1>3. user \in [Users -> Account \cup {None}]
  BY <1>1 DEF Init
<1>4. OpsOK /\ AccountsOK
  <2>1. MaxEpoch \in Nat
    BY AccountAssumption
  <2>2. OpsOK
    BY DEF Init, OpsOK
  <2>3. AccountsOK
    <3>1. epoch \in 0 .. MaxEpoch /\ unrevoked \subseteq Users
      BY <2>1 DEF Init
    <3>2. overtaken \in BOOLEAN
      BY Zenon DEF Init
    <3> QED BY <1>3, <3>1, <3>2 DEF AccountsOK
  <2> QED BY <2>2, <2>3
<1> QED BY <1>2, <1>4 DEF TypeOK, RowsOK, OpsOK, AccountsOK

LEMMA TypesStep == TypeOK /\ [Next]_vars => TypeOK'
<1> SUFFICES ASSUME TypeOK, [Next]_vars PROVE TypeOK'
  OBVIOUS
<1>0. ThrottleOK /\ RowsOK /\ OpsOK /\ AccountsOK
  BY TypesInParts
<1>1. CASE LapseStep
  <2>1. PICK u \in Users : FailuresLapse(u)
    BY <1>1 DEF LapseStep
  <2>2. UNCHANGED <<user, session, login, op, lock, epoch, overtaken, unrevoked>>
    BY <1>1 DEF LapseStep
  <2>3. ThrottleOK'
    BY <1>0, <2>1, ThrottleTypes
  <2>4. RowsOK' /\ OpsOK' /\ AccountsOK'
    BY <1>0, <2>2 DEF RowsOK, OpsOK, AccountsOK, Pending
  <2> QED BY <2>3, <2>4 DEF TypeOK, RowsOK, OpsOK, AccountsOK
<1>2. CASE LoginStep
  BY <1>2, LoginTypes
<1>3. CASE SessionStep
  BY <1>3, SessionTypes
<1>4. CASE OpStep
  <2>1. OpsOK' /\ ThrottleOK' /\ RowsOK' /\ AccountsOK'
    BY <1>0, <1>4, OpStepTypes, AccountTypes
  <2> QED BY <2>1 DEF TypeOK, RowsOK, OpsOK, AccountsOK
<1>5. CASE \E a \in Admins : Restart(a)
  BY <1>5, RestartTypes
<1>6. CASE UNCHANGED vars
  <2>1. ThrottleOK' /\ RowsOK' /\ OpsOK' /\ AccountsOK'
    BY <1>0, <1>6 DEF vars, ThrottleOK, RowsOK, OpsOK, AccountsOK, Pending
  <2> QED BY <2>1 DEF TypeOK, RowsOK, OpsOK, AccountsOK
<1> QED BY <1>1, <1>2, <1>3, <1>4, <1>5, <1>6 DEF Next

\* Every state is type-correct, and only a handler between its count and its commit holds the
\* advisory lock, so that nobody waits for a lock nobody will release (adminUserAction and
\* adminDeleteUser).
THEOREM AccountsAreTyped == Spec => []TypeOK
BY TypesInit, TypesStep, PTL DEF Spec

-------------------------------------------------------------------------------
(* Sessions that were revoked.                                                   *)
RevokedInv == \A s \in Sessions : session[s] # None =>
  /\ Exists(session[s].user)
  /\ session[s].state = "live" /\ ~session[s].late =>
       session[s].epoch = user[session[s].user].epoch \/ BeingRevoked(session[s].user)

\* What a step does not open it need not revoke: sessions that stay as they were, of accounts whose
\* epoch stays or whose sessions are being revoked.
LEMMA RevokedFrame ==
  ASSUME RevokedInv,
         \A s \in Sessions : session'[s] # None /\ session'[s].state = "live" => session'[s] = session[s],
         \A s \in Sessions : session'[s] # None => session[s] # None /\ session'[s].user = session[s].user
                                                   /\ Exists(session[s].user)',
         \A s \in Sessions : session'[s] # None /\ session'[s].state = "live" =>
           LET u == session[s].user IN
             /\ user'[u].epoch = user[u].epoch \/ BeingRevoked(u)'
             /\ BeingRevoked(u) => BeingRevoked(u)'
  PROVE  RevokedInv'
<1> SUFFICES ASSUME NEW s \in Sessions, session'[s] # None
             PROVE  /\ Exists(session[s].user)' /\ session'[s].user = session[s].user
                    /\ session'[s].state = "live" /\ ~session'[s].late =>
                         session'[s].epoch = user'[session[s].user].epoch \/ BeingRevoked(session[s].user)'
  BY DEF RevokedInv, Exists, BeingRevoked
<1>1. Exists(session[s].user)' /\ session'[s].user = session[s].user /\ session[s] # None
  OBVIOUS
<1>2. ASSUME session'[s].state = "live", ~session'[s].late
      PROVE  session'[s].epoch = user'[session[s].user].epoch \/ BeingRevoked(session[s].user)'
  <2>1. session'[s] = session[s]
    BY <1>2
  <2>2. session[s].epoch = user[session[s].user].epoch \/ BeingRevoked(session[s].user)
    BY <1>1, <1>2, <2>1 DEF RevokedInv
  <2>3. /\ user'[session[s].user].epoch = user[session[s].user].epoch \/ BeingRevoked(session[s].user)'
        /\ BeingRevoked(session[s].user) => BeingRevoked(session[s].user)'
    BY <1>2
  <2> QED BY <2>1, <2>2, <2>3
<1> QED BY <1>1, <1>2

\* Revocations under way go on as long as operations that revoke do.
LEMMA RevokingGoesOn ==
  ASSUME NEW u, unrevoked \subseteq unrevoked',
         \A o \in Ops : op[o] # None /\ op[o].at = "revoking" /\ op[o].user = u =>
           \/ op'[o] # None /\ op'[o].at = "revoking" /\ op'[o].user = u
           \/ u \in unrevoked'
  PROVE  BeingRevoked(u) => BeingRevoked(u)'
BY DEF BeingRevoked

\* Accounts and operations as they were.
LEMMA SessionsKeepRevoked ==
  ASSUME TypeOK, RevokedInv, UNCHANGED <<user, op, unrevoked>>,
         \A s \in Sessions : \/ session'[s] = session[s] \/ session'[s] = None
                             \/ session[s] # None /\ session'[s].user = session[s].user /\ session'[s].state # "live"
  PROVE  RevokedInv'
<1>1. \A u : BeingRevoked(u)' = BeingRevoked(u) /\ Exists(u)' = Exists(u)
  BY DEF BeingRevoked, Exists
<1>2. \A s \in Sessions : session'[s] # None => session[s] # None /\ session'[s].user = session[s].user
                                                /\ Exists(session[s].user)'
  BY <1>1 DEF RevokedInv
<1>3. \A s \in Sessions : session'[s] # None /\ session'[s].state = "live" => session'[s] = session[s]
  OBVIOUS
<1> QED BY <1>1, <1>2, <1>3, RevokedFrame

LEMMA SignInsKeepRevoked ==
  ASSUME TypeOK, RevokedInv, LapseStep \/ LoginStep \/ SessionStep \/ UNCHANGED vars
  PROVE  RevokedInv'
<1>0. /\ session \in [Sessions -> Session \cup {None}]
      /\ UNCHANGED <<user, op, unrevoked>>
  BY DEF TypeOK, LapseStep, LoginStep, SessionStep, LoginRefused, LoginKnown, LoginFails, LoginClears, LoginError,
         CreateSession, Logout, SessionExpires, CleanSession, vars
<1>1. CASE UNCHANGED session
  BY <1>0, <1>1, SessionsKeepRevoked
<1>2. CASE SessionStep
  <2>1. PICK s \in Sessions : Logout(s) \/ SessionExpires(s) \/ CleanSession(s)
    BY <1>2 DEF SessionStep
  <2>2. session[s] \in Session
    BY <1>0, <2>1 DEF Logout, Accepted, SessionExpires, CleanSession
  <2>3. /\ [session[s] EXCEPT !.state = "revoked"].user = session[s].user
        /\ [session[s] EXCEPT !.state = "revoked"].state = "revoked"
        /\ [session[s] EXCEPT !.state = "expired"].user = session[s].user
        /\ [session[s] EXCEPT !.state = "expired"].state = "expired"
    BY <2>2 DEF Session
  <2>4. /\ \A x \in Sessions : x # s => session'[x] = session[x]
        /\ session[s] # None
        /\ session'[s] = None \/ (session'[s].user = session[s].user /\ session'[s].state # "live")
    BY <1>0, <2>1, <2>3 DEF Logout, Accepted, SessionExpires, CleanSession
  <2> QED BY <1>0, <2>4, SessionsKeepRevoked
<1>3. ASSUME NEW l \in Logins, NEW s \in Sessions, CreateSession(l, s) PROVE RevokedInv'
  <2>1. /\ session' = [session EXCEPT ![s] = NewSession(l)] /\ Exists(login[l].user)
        /\ UNCHANGED <<user, op, unrevoked>>
    BY <1>3 DEF CreateSession
  <2>2. /\ NewSession(l).user = login[l].user /\ NewSession(l).epoch = login[l].epoch
        /\ NewSession(l).late = (login[l].epoch # user[login[l].user].epoch)
    BY DEF NewSession
  <2>3. \A u : BeingRevoked(u)' = BeingRevoked(u) /\ Exists(u)' = Exists(u)
    BY <2>1 DEF BeingRevoked, Exists
  <2>4. session'[s] = NewSession(l) /\ \A x \in Sessions : x # s => session'[x] = session[x]
    BY <1>0, <2>1
  <2>5. ASSUME NEW x \in Sessions, x # s, session'[x] # None
        PROVE  /\ Exists(session[x].user)'
               /\ session'[x].state = "live" /\ ~session'[x].late =>
                    session'[x].epoch = user'[session'[x].user].epoch \/ BeingRevoked(session[x].user)'
    <3>1. session'[x] = session[x] /\ user' = user
      BY <2>1, <2>4, <2>5
    <3>2. /\ Exists(session[x].user)
          /\ session[x].state = "live" /\ ~session[x].late =>
               session[x].epoch = user[session[x].user].epoch \/ BeingRevoked(session[x].user)
      BY <2>5, <3>1 DEF RevokedInv
    <3>3. PICK u : u = session[x].user
      OBVIOUS
    <3>4. BeingRevoked(u)' = BeingRevoked(u) /\ Exists(u)' = Exists(u)
      BY <2>3
    <3> QED BY <3>1, <3>2, <3>3, <3>4 DEF Exists, BeingRevoked
  <2>6. /\ Exists(session[s].user)'
        /\ ~session'[s].late => session'[s].epoch = user'[session'[s].user].epoch
    BY <2>1, <2>2, <2>4 DEF Exists
  <2>7. ASSUME NEW x \in Sessions, session'[x] # None
        PROVE  /\ Exists(session[x].user)'
               /\ session'[x].state = "live" /\ ~session'[x].late =>
                    session'[x].epoch = user'[session'[x].user].epoch \/ BeingRevoked(session[x].user)'
    BY <2>5, <2>6, <2>7
  <2> QED BY <2>7 DEF RevokedInv, Exists, BeingRevoked
<1>4. CASE LapseStep
  BY <1>1, <1>4 DEF LapseStep
<1>5. CASE LoginStep
  BY <1>1, <1>3, <1>5 DEF LoginStep, LoginRefused, LoginKnown, LoginFails, LoginClears, LoginError, throttleVars
<1>6. CASE UNCHANGED vars
  BY <1>1, <1>6 DEF vars
<1> QED BY <1>2, <1>4, <1>5, <1>6

\* A step on the account u: its sessions stay while it does, its epoch stays or they are being
\* revoked; or they end; or they go; or there are none.
LEMMA OneAccount ==
  ASSUME TypeOK, RevokedInv, NEW u,
         \A y \in Users : y # u => user'[y] = user[y] /\ (BeingRevoked(y) => BeingRevoked(y)'),
         \/ /\ session' = session /\ (Exists(u) => Exists(u)')
            /\ BeingRevoked(u) => BeingRevoked(u)'
            /\ (Exists(u) => user'[u].epoch = user[u].epoch) \/ BeingRevoked(u)'
         \/ session' = Ended(u) /\ (Exists(u) => Exists(u)')
         \/ session' = Dropped(u)
  PROVE  RevokedInv'
<1> SUFFICES ASSUME NEW s \in Sessions, session'[s] # None, NEW y \in Users, y = session'[s].user
             PROVE  /\ Exists(y)'
                    /\ session'[s].state = "live" /\ ~session'[s].late =>
                         session'[s].epoch = user'[y].epoch \/ BeingRevoked(y)'
  <2>1. ASSUME NEW s \in Sessions, session'[s] # None PROVE session'[s].user \in Users
    <3>1. session[s] # None /\ session'[s].user = session[s].user
      <4>1. CASE session' = session \/ session' = Dropped(u)
        BY <2>1, <4>1 DEF Dropped
      <4>2. CASE session' = Ended(u)
        <5>1. session'[s] = session[s] \/ (session[s] # None /\ session'[s] = [session[s] EXCEPT !.state = "revoked"])
          BY <4>2 DEF Ended
        <5>2. session[s] # None => [session[s] EXCEPT !.state = "revoked"].user = session[s].user
          BY DEF TypeOK, Session
        <5> QED BY <2>1, <5>1, <5>2
      <4> QED BY <4>1, <4>2
    <3> QED BY <3>1 DEF TypeOK, Session
  <2> QED BY <2>1 DEF RevokedInv, Exists, BeingRevoked
<1>1. CASE y = u /\ session' = Ended(u)
  <2>1. /\ session[s] # None /\ session[s] \in Session
        /\ session'[s] = IF session[s].user = u THEN [session[s] EXCEPT !.state = "revoked"] ELSE session[s]
    BY <1>1 DEF Ended, TypeOK
  <2>2. session[s].user = u /\ session'[s].state = "revoked"
    BY <1>1, <2>1 DEF Session
  <2>3. Exists(y)
    BY <1>1, <2>1, <2>2 DEF RevokedInv
  <2>4. session' # Dropped(u)
    BY <2>1, <2>2 DEF Dropped
  <2>5. Exists(y)'
    <3>1. Exists(u) => Exists(u)'
      BY <2>4
    <3>2. Exists(u)'
      BY <1>1, <2>3, <3>1
    <3> QED BY <1>1, <3>2 DEF Exists
  <2> QED BY <2>2, <2>5
<1>2. CASE ~(y = u /\ session' = Ended(u))
  <2>1. session'[s] = session[s] /\ (session' = Dropped(u) => y # u)
    <3>1. CASE session' = Ended(u)
      <4>1. session'[s] = IF session[s] # None /\ session[s].user = u THEN [session[s] EXCEPT !.state = "revoked"] ELSE session[s]
        BY <3>1 DEF Ended
      <4>2. session[s] # None /\ session[s].user = u => session'[s].user = u
        BY <4>1 DEF TypeOK, Session
      <4> QED BY <1>2, <3>1, <4>1, <4>2
    <3>2. CASE session' = Dropped(u)
      BY <3>2 DEF Dropped
    <3>3. CASE session' = session
      BY <3>3 DEF Dropped
    <3> QED BY <3>1, <3>2, <3>3
  <2>2. /\ Exists(y)
        /\ session[s].state = "live" /\ ~session[s].late =>
             session[s].epoch = user[y].epoch \/ BeingRevoked(y)
    BY <2>1 DEF RevokedInv
  <2>3. CASE y # u
    BY <2>1, <2>2, <2>3 DEF Exists
  <2>4. CASE y = u
    <3>1. /\ Exists(u) => Exists(u)'
          /\ BeingRevoked(u) => BeingRevoked(u)'
          /\ (Exists(u) => user'[u].epoch = user[u].epoch) \/ BeingRevoked(u)'
      BY <1>2, <2>1, <2>4
    <3> QED BY <2>1, <2>2, <2>4, <3>1
  <2> QED BY <2>3, <2>4
<1> QED BY <1>1, <1>2

\* What an operation does to the revocations of the others.
LEMMA OthersRevoke ==
  ASSUME NEW o \in Ops, unrevoked \subseteq unrevoked',
         \A x \in Ops \ {o} : op'[x] = op[x] \/ Pending(x)
  PROVE  \A y : op[o] = None \/ op[o].at # "revoking" \/ op[o].user # y =>
           (BeingRevoked(y) => BeingRevoked(y)')
BY DEF BeingRevoked, Pending

LEMMA OpsKeepRevoked == ASSUME TypeOK, RevokedInv, OpStep PROVE RevokedInv'
<1>0. /\ op \in [Ops -> Op \cup {None}] /\ user \in [Users -> Account \cup {None}] /\ epoch \in Nat
  BY DEF TypeOK
<1>1. PICK o \in Ops :
        \/ \E k \in Kinds, u \in Users : (o \in WebOps /\ WebBegin(o, k, u)) \/ Count(o, k, u)
        \/ \E u \in Users : Create(o, u) \/ Enable(o, u) \/ ChangePassword(o, u)
        \/ RevokeSessions(o) \/ RevokeFails(o) \/ WebDisable(o)
        \/ WebDelete(o) \/ CliDisable(o) \/ OpFails(o)
  BY DEF OpStep
<1>2. \A x \in Ops \ {o} : op'[x] = op[x] \/ Pending(x)
  BY <1>0, <1>1 DEF WebBegin, Count, Create, Enable, ChangePassword, RevokeSessions, RevokeFails, WebDisable,
         WebDelete, CliDisable, OpFails, Over, Noted, Overlaps
<1>3. unrevoked \subseteq unrevoked'
  BY <1>1 DEF WebBegin, Count, Create, Enable, ChangePassword, RevokeSessions, RevokeFails, WebDisable,
         WebDelete, CliDisable, OpFails
<1>4. \A y : op[o] = None \/ op[o].at # "revoking" \/ op[o].user # y => (BeingRevoked(y) => BeingRevoked(y)')
  BY <1>2, <1>3, OthersRevoke
<1>5. \A k \in Kinds, u \in Users : Starts(o, k, u) => op[o] = None \/ op[o].at # "revoking"
  BY StagesAreOps DEF Starts
<1>6. CASE (\E k \in Kinds, u \in Users : WebBegin(o, k, u) \/ Count(o, k, u)) \/ OpFails(o)
  <2>1. op[o] = None \/ op[o].at # "revoking"
    BY <1>5, <1>6 DEF WebBegin, Count, OpFails
  <2>2. UNCHANGED <<user, session>>
    BY <1>6 DEF WebBegin, Count, OpFails
  <2>3. \A y : Exists(y)' = Exists(y) /\ user'[y] = user[y]
    BY <2>2 DEF Exists
  <2>4. PICK u \in Users : TRUE
    BY <1>0, <1>6 DEF Op, OpFails
  <2> QED BY <1>4, <2>1, <2>2, <2>3, OneAccount
<1>7. ASSUME NEW u \in Users, Create(o, u) \/ Enable(o, u) PROVE RevokedInv'
  <2>1. op[o] = None \/ op[o].at # "revoking"
    BY <1>5, <1>7 DEF Create, Enable, Kinds
  <2>2. session' = session /\ \A y \in Users : y # u => user'[y] = user[y]
    BY <1>0, <1>7 DEF Create, Enable
  <2>3. CASE Create(o, u)
    BY <1>4, <2>1, <2>2, <2>3, OneAccount DEF Create
  <2>4. CASE Enable(o, u)
    <3>1. user[u] \in Account /\ user'[u] = [user[u] EXCEPT !.enabled = TRUE]
      BY <1>0, <2>4 DEF Enable, Exists
    <3>2. user'[u] \in Account /\ user'[u].epoch = user[u].epoch
      BY <3>1 DEF Account
    <3>3. Exists(u)'
      BY <3>2, AccountAssumption DEF Exists
    <3> QED BY <1>4, <2>1, <2>2, <3>2, <3>3, OneAccount
  <2> QED BY <1>7, <2>3, <2>4
<1>8. ASSUME NEW u \in Users, ChangePassword(o, u) PROVE RevokedInv'
  <2>1. op[o] = None \/ op[o].at # "revoking"
    BY <1>5, <1>8 DEF ChangePassword, Kinds
  <2>2. session' = session /\ \A y \in Users : y # u => user'[y] = user[y]
    BY <1>0, <1>8 DEF ChangePassword
  <2>3. user[u] \in Account /\ user'[u] = [user[u] EXCEPT !.epoch = epoch + 1]
    BY <1>0, <1>8 DEF ChangePassword, Exists
  <2>4. user'[u] \in Account
    BY <1>0, <2>3 DEF Account
  <2>5. Exists(u)'
    BY <2>4, AccountAssumption DEF Exists
  <2>6. BeingRevoked(u)'
    <3>1. op'[o] = Stage("revoking", "password", u)
      BY <1>0, <1>8 DEF ChangePassword
    <3>2. op'[o] # None /\ op'[o].at = "revoking" /\ op'[o].user = u
      BY <3>1, StagesAreOps DEF Kinds
    <3> QED BY <3>2 DEF BeingRevoked
  <2> QED BY <1>4, <2>1, <2>2, <2>5, <2>6, OneAccount
<1>9. CASE RevokeSessions(o) \/ RevokeFails(o)
  <2>1. PICK u \in Users : u = op[o].user /\ op[o] # None
    BY <1>0, <1>9 DEF RevokeSessions, RevokeFails, Op
  <2>2. user' = user /\ \A y : Exists(y)' = Exists(y)
    BY <1>9 DEF RevokeSessions, RevokeFails, Exists
  <2>3. \A y \in Users : y # u => user'[y] = user[y] /\ (BeingRevoked(y) => BeingRevoked(y)')
    BY <1>4, <2>1, <2>2
  <2>4. CASE RevokeSessions(o)
    BY <2>1, <2>2, <2>3, <2>4, OneAccount DEF RevokeSessions
  <2>5. CASE RevokeFails(o)
    <3>1. BeingRevoked(u)'
      BY <2>1, <2>5 DEF RevokeFails, BeingRevoked
    <3>2. session' = session
      BY <2>5 DEF RevokeFails
    <3> QED BY <2>2, <2>3, <3>1, <3>2, OneAccount
  <2> QED BY <1>9, <2>4, <2>5
<1>10. CASE WebDisable(o) \/ WebDelete(o) \/ CliDisable(o)
  <2>1. PICK u \in Users : u = op[o].user /\ op[o] # None /\ op[o].at = "counted"
    BY <1>0, <1>10 DEF WebDisable, WebDelete, CliDisable, Counted, Pending, Op
  <2>2. \A y \in Users : y # u => user'[y] = user[y]
    BY <1>0, <1>10, <2>1 DEF WebDisable, WebDelete, CliDisable, Disabled
  <2>3. \A y \in Users : BeingRevoked(y) => BeingRevoked(y)'
    BY <1>4, <2>1
  <2>4. CASE WebDelete(o)
    BY <2>1, <2>2, <2>3, <2>4, OneAccount DEF WebDelete
  <2>5. CASE WebDisable(o) \/ CliDisable(o)
    <3>1. user'[u] = [enabled |-> FALSE, epoch |-> epoch + 1]
      BY <1>0, <2>1, <2>5 DEF WebDisable, CliDisable, Disabled
    <3>2. user'[u] \in Account
      BY <1>0, <3>1 DEF Account
    <3>3. Exists(u)'
      BY <3>2, AccountAssumption DEF Exists
    <3>4. CASE WebDisable(o)
      BY <2>1, <2>2, <2>3, <3>3, <3>4, OneAccount DEF WebDisable
    <3>5. CASE CliDisable(o)
      <4>1. op'[o] = Stage("revoking", "password", u)
        BY <2>1, <3>5 DEF CliDisable, Noted
      <4>2. op'[o] # None /\ op'[o].at = "revoking" /\ op'[o].user = u
        BY <4>1, StagesAreOps DEF Kinds
      <4>3. BeingRevoked(u)'
        BY <4>2 DEF BeingRevoked
      <4>4. session' = session
        BY <3>5 DEF CliDisable
      <4> QED BY <2>2, <2>3, <3>3, <4>3, <4>4, OneAccount
    <3> QED BY <2>5, <3>4, <3>5
  <2> QED BY <1>10, <2>4, <2>5
<1> QED BY <1>1, <1>6, <1>7, <1>8, <1>9, <1>10

LEMMA RestartKeepsRevoked == ASSUME TypeOK, RevokedInv, NEW a \in Admins, Restart(a) PROVE RevokedInv'
<1>1. session' = session /\ unrevoked' = unrevoked \cup Interrupted
  BY DEF Restart
<1>2. \A y : BeingRevoked(y) => BeingRevoked(y)'
  <2>1. \A o \in Ops : op'[o] = IF o \in WebOps THEN None ELSE op[o]
    BY DEF Restart
  <2>2. \A o \in WebOps : op[o] # None /\ op[o].at = "revoking" => op[o].user \in Interrupted
    BY DEF Interrupted
  <2> QED BY <1>1, <2>1, <2>2 DEF BeingRevoked
<1>3. CASE user' = user
  <2>1. \A y : Exists(y)' = Exists(y)
    BY <1>3 DEF Exists
  <2> QED BY <1>1, <1>2, <1>3, <2>1, OneAccount
<1>4. CASE user' # user
  <2>1. \A y \in Users : ~Exists(y)
    BY <1>4 DEF Restart, Bootstrapped
  <2>2. \A s \in Sessions : session[s] = None
    BY <2>1 DEF RevokedInv, TypeOK, Session
  <2> QED BY <1>1, <2>2 DEF RevokedInv
<1> QED BY <1>3, <1>4

LEMMA RevokedStep == TypeOK /\ RevokedInv /\ [Next]_vars => RevokedInv'
BY SignInsKeepRevoked, OpsKeepRevoked, RestartKeepsRevoked DEF Next

\* A session whose password was checked before its account was disabled, deleted or given a new one is
\* refused, whatever sign-ins, handlers, commands and restarts come between, except where the code
\* leaves the way open: a sign-in overtaken between the check and the INSERT, the moment between the
\* two statements of a change, and a second statement that failed (adminOK, adminUserAction,
\* adminChangePassword, adminDeleteUser, userPassword, userDisable).
THEOREM RevokedSessionsStayOut == Spec => []RevokedStaysOut
<1>1. Init => RevokedInv
  BY DEF Init, RevokedInv
<1>2. RevokedInv => RevokedStaysOut
  <2> SUFFICES ASSUME RevokedInv, NEW a \in Admissions
               PROVE  \/ a.epoch = user[a.user].epoch
                      \/ a.by \in {"late session", "signed cookie"}
                      \/ BeingRevoked(a.user)
    BY DEF RevokedStaysOut
  <2>1. CASE \E s \in Sessions : /\ Accepted(s)
                               /\ a = [user |-> session[s].user, epoch |-> session[s].epoch,
                                       by |-> IF session[s].late THEN "late session" ELSE "session"]
    <3>1. PICK s \in Sessions : /\ Accepted(s)
                                /\ a = [user |-> session[s].user, epoch |-> session[s].epoch,
                                        by |-> IF session[s].late THEN "late session" ELSE "session"]
      BY <2>1
    <3>2. /\ a.user = session[s].user /\ a.epoch = session[s].epoch
          /\ session[s].late => a.by = "late session"
      BY <3>1
    <3> QED BY <3>1, <3>2 DEF RevokedInv, Accepted
  <2>2. CASE \E u \in Users : a = [user |-> u, epoch |-> 0, by |-> "signed cookie"]
    <3>1. PICK u \in Users : a = [user |-> u, epoch |-> 0, by |-> "signed cookie"]
      BY <2>2
    <3>2. a.by = "signed cookie"
      BY <3>1
    <3> QED BY <3>2
  <2> QED BY <2>1, <2>2 DEF Admissions
<1> QED BY <1>1, <1>2, TypesInit, TypesStep, RevokedStep, PTL DEF Spec

-------------------------------------------------------------------------------
(* Guesses.                                                                      *)
\* The sign-ins that failed and have not been counted yet, and the failures that were.
Judged(u) == {l \in Logins : login[l] # None /\ login[l].at = "refused" /\ login[l].user = u}
CountOf(u) == IF fails[u] = None THEN 0 ELSE fails[u].count
GuessInv == \A u \in Users : /\ guesses[u] <= CountOf(u) + Cardinality(Judged(u))
                             /\ u \in Lapsed => guesses[u] = 0

LEMMA JudgedIsFinite ==
  ASSUME NEW u
  PROVE  /\ IsFiniteSet(Judged(u)) /\ Cardinality(Judged(u)) \in Nat
         /\ Cardinality(Logins) \in Nat /\ Cardinality(Judged(u)) <= Cardinality(Logins)
<1>1. IsFiniteSet(Logins) /\ Judged(u) \subseteq Logins
  BY AccountAssumption DEF Judged
<1> QED BY <1>1, FS_Subset, FS_CardinalityType

\* A sign-in of u is judged, or ends.
LEMMA OneJudged ==
  ASSUME NEW u, NEW l \in Logins, \A x \in Logins \ {l} : login'[x] = login[x]
  PROVE  /\ IsFiniteSet(Judged(u))' /\ Cardinality(Judged(u))' \in Nat
         /\ l \notin Judged(u) /\ login'[l] # None /\ login'[l].at = "refused" /\ login'[l].user = u =>
              Cardinality(Judged(u))' = Cardinality(Judged(u)) + 1
         /\ l \in Judged(u) /\ login'[l] = None => Cardinality(Judged(u))' = Cardinality(Judged(u)) - 1
         /\ l \notin Judged(u) /\ (login'[l] = None \/ login'[l].at # "refused" \/ login'[l].user # u) =>
              Cardinality(Judged(u))' = Cardinality(Judged(u))
<1>1. IsFiniteSet(Judged(u)) /\ Cardinality(Judged(u)) \in Nat
  BY JudgedIsFinite
<1>2. PICK now : now = Judged(u)'
  OBVIOUS
<1>3. now \subseteq Logins /\ IsFiniteSet(Logins)
  BY <1>2, AccountAssumption DEF Judged
<1>4. IsFiniteSet(now) /\ Cardinality(now) \in Nat
  BY <1>3, FS_Subset, FS_CardinalityType
<1>5. ASSUME l \notin Judged(u), login'[l] # None, login'[l].at = "refused", login'[l].user = u
      PROVE  Cardinality(now) = Cardinality(Judged(u)) + 1
  <2>1. now = Judged(u) \cup {l}
    BY <1>2, <1>5 DEF Judged
  <2> QED BY <1>1, <1>5, <2>1, FS_AddElement
<1>6. ASSUME l \in Judged(u), login'[l] = None
      PROVE  Cardinality(now) = Cardinality(Judged(u)) - 1
  <2>1. now = Judged(u) \ {l}
    BY <1>2, <1>6 DEF Judged
  <2> QED BY <1>1, <1>6, <2>1, FS_RemoveElement
<1>7. ASSUME l \notin Judged(u), login'[l] = None \/ login'[l].at # "refused" \/ login'[l].user # u
      PROVE  now = Judged(u)
  BY <1>2, <1>7 DEF Judged
<1> QED BY <1>2, <1>4, <1>5, <1>6, <1>7

LEMMA NobodyJudged ==
  ASSUME UNCHANGED login, NEW u
  PROVE  Cardinality(Judged(u))' = Cardinality(Judged(u))
BY DEF Judged

\* A sign-in is let through: what lapsed goes, and nobody had guessed since.
LEMMA LettingThrough ==
  ASSUME ThrottleOK, GuessInv, NEW u \in Users, LetThrough(u)
  PROVE  /\ \A x \in Users : guesses[x] <= CountOf(x)' + Cardinality(Judged(x))
         /\ \A x \in Users : x \in Lapsed' => guesses[x] = 0 /\ x # u
         /\ CountOf(u)' < LoginLimit /\ CountOf(u)' \in Nat
<1>1. \A x \in Users : x # u \/ u \notin Lapsed => fails'[x] = fails[x]
  BY DEF LetThrough, ThrottleOK
<1>2. u \in Lapsed => fails'[u] = None
  BY DEF LetThrough, ThrottleOK
<1>3. \A x \in Users : x # u \/ u \notin Lapsed => CountOf(x)' = CountOf(x) /\ (x \in Lapsed' => x \in Lapsed)
  BY <1>1 DEF CountOf, Lapsed, Tracked
<1>4. LoginLimit \in Nat /\ 0 < LoginLimit
  BY ThrottleAssumption
<1>5. CASE u \in Lapsed
  <2>1. CountOf(u)' = 0 /\ u \notin Lapsed'
    BY <1>2, <1>5 DEF CountOf, Lapsed, Tracked
  <2>2. guesses[u] = 0 /\ Cardinality(Judged(u)) \in Nat
    BY <1>5, JudgedIsFinite DEF GuessInv
  <2>3. \A x \in Users : guesses[x] <= CountOf(x)' + Cardinality(Judged(x))
    <3>1. guesses[u] <= CountOf(u)' + Cardinality(Judged(u))
      BY <2>1, <2>2
    <3> QED BY <1>3, <3>1 DEF GuessInv
  <2> QED BY <1>3, <1>4, <2>1, <2>2, <2>3 DEF GuessInv
<1>6. CASE u \notin Lapsed
  <2>1. CountOf(u) < LoginLimit /\ CountOf(u) \in Nat
    BY <1>4, <1>6 DEF LetThrough, Blocked, CountOf, Tracked, ThrottleOK, Failures
  <2>2. CountOf(u)' = CountOf(u)
    BY <1>3, <1>6
  <2> QED BY <1>3, <1>6, <2>1, <2>2 DEF GuessInv
<1> QED BY <1>5, <1>6

Guesses == GuessInv /\ GuessesBounded

LEMMA RefusedGuesses ==
  ASSUME TypeOK, Guesses, NEW l \in Logins, NEW u \in Users, LoginRefused(l, u)
  PROVE  Guesses'
<1>0. /\ ThrottleOK /\ GuessInv /\ GuessesBounded /\ LetThrough(u) /\ Guessed(u) /\ login[l] = None
      /\ login \in [Logins -> Login \cup {None}]
  BY DEF TypeOK, Guesses, LoginRefused
<1>1. /\ \A x \in Users : guesses[x] <= CountOf(x)' + Cardinality(Judged(x))
      /\ \A x \in Users : x \in Lapsed' => guesses[x] = 0 /\ x # u
      /\ CountOf(u)' < LoginLimit /\ CountOf(u)' \in Nat
  BY <1>0, LettingThrough
<1>2. PICK new \in Login : /\ login' = [login EXCEPT ![l] = new]
                           /\ new # None /\ new.at = "refused" /\ new.user = u
  <2>1. [at |-> "refused", user |-> u, epoch |-> 0] \in Login
    BY DEF Login
  <2> QED BY <2>1, AccountAssumption DEF LoginRefused
<1>3. login'[l] = new /\ \A x \in Logins \ {l} : login'[x] = login[x]
  BY <1>0, <1>2
<1>4. \A x : l \notin Judged(x)
  BY <1>0 DEF Judged
<1>5. Cardinality(Judged(u))' = Cardinality(Judged(u)) + 1
  BY <1>2, <1>3, <1>4, OneJudged
<1>6. \A x \in Users : x # u => Cardinality(Judged(x))' = Cardinality(Judged(x))
  BY <1>2, <1>3, <1>4, OneJudged
<1>7. guesses'[u] = guesses[u] + 1 /\ guesses[u] \in Nat /\ \A x \in Users : x # u => guesses'[x] = guesses[x]
  BY <1>0 DEF Guessed, ThrottleOK
<1>8. Cardinality(Judged(u)) \in Nat /\ Cardinality(Judged(u))' <= Cardinality(Logins) /\ Cardinality(Logins) \in Nat
  <2>1. PICK now : now = Judged(u)'
    OBVIOUS
  <2>2. now \subseteq Logins
    BY <2>1 DEF Judged
  <2>3. Cardinality(now) <= Cardinality(Logins)
    BY <2>2, AccountAssumption, FS_Subset
  <2> QED BY <2>1, <2>3, JudgedIsFinite
<1>9. GuessInv'
  <2>1. guesses'[u] <= CountOf(u)' + Cardinality(Judged(u))'
    BY <1>1, <1>5, <1>7, <1>8
  <2>2. \A x \in Users : guesses'[x] <= CountOf(x)' + Cardinality(Judged(x))'
    BY <1>1, <1>6, <1>7, <2>1
  <2>3. \A x \in Users : x \in Lapsed' => guesses'[x] = 0
    BY <1>1, <1>7
  <2> QED BY <2>2, <2>3 DEF GuessInv
<1>10. GuessesBounded'
  <2>1. LoginLimit \in Nat
    BY ThrottleAssumption
  <2>2. guesses'[u] <= LoginLimit + Cardinality(Logins) - 1
    BY <1>1, <1>5, <1>7, <1>8, <2>1
  <2> QED BY <1>0, <1>7, <2>2 DEF GuessesBounded
<1> QED BY <1>9, <1>10 DEF Guesses

LEMMA KnownGuesses ==
  ASSUME TypeOK, Guesses, NEW l \in Logins, NEW u \in Users, LoginKnown(l, u)
  PROVE  Guesses'
<1>0. /\ ThrottleOK /\ GuessInv /\ GuessesBounded /\ LetThrough(u) /\ guesses' = guesses /\ login[l] = None
      /\ login \in [Logins -> Login \cup {None}]
  BY DEF TypeOK, Guesses, LoginKnown
<1>1. /\ \A x \in Users : guesses[x] <= CountOf(x)' + Cardinality(Judged(x))
      /\ \A x \in Users : x \in Lapsed' => guesses[x] = 0 /\ x # u
  BY <1>0, LettingThrough
<1>2. PICK new : new.at = "known" /\ login' = [login EXCEPT ![l] = new]
  BY DEF LoginKnown
<1>3. login'[l] = new /\ \A x \in Logins \ {l} : login'[x] = login[x]
  BY <1>0, <1>2
<1>4. \A x : l \notin Judged(x)
  BY <1>0 DEF Judged
<1>5. \A x \in Users : Cardinality(Judged(x))' = Cardinality(Judged(x))
  BY <1>2, <1>3, <1>4, OneJudged
<1> QED BY <1>0, <1>1, <1>5 DEF Guesses, GuessInv, GuessesBounded

LEMMA CountedGuesses ==
  ASSUME TypeOK, Guesses, NEW l \in Logins, LoginFails(l)
  PROVE  Guesses'
<1>0. /\ ThrottleOK /\ GuessInv /\ GuessesBounded /\ guesses' = guesses
      /\ login \in [Logins -> Login \cup {None}] /\ fails \in [Users -> Failures \cup {None}]
  BY DEF TypeOK, ThrottleOK, Guesses, LoginFails
<1>1. PICK u \in Users : u = login[l].user /\ l \in Judged(u)
  BY <1>0 DEF LoginFails, Judged, Login
<1>2. fails' = [Swept EXCEPT ![u] = OneMore(Swept[u])]
  BY <1>1 DEF LoginFails, RecordFailure
<1>3. login'[l] = None /\ \A x \in Logins \ {l} : login'[x] = login[x]
  BY <1>0 DEF LoginFails
<1>4. \A x \in Users : Swept[x] = fails[x] \/ (x \in Lapsed /\ Swept[x] = None)
  BY <1>0 DEF Swept
<1>5. Swept \in [Users -> Failures \cup {None}]
  BY <1>0 DEF Swept
<1>6. ASSUME NEW x \in Users, x # u
      PROVE  guesses[x] <= CountOf(x)' + Cardinality(Judged(x))' /\ (x \in Lapsed' => guesses[x] = 0)
  <2>1. Cardinality(Judged(x))' = Cardinality(Judged(x)) /\ Cardinality(Judged(x)) \in Nat
    <3>1. l \notin Judged(x)
      BY <1>1, <1>6 DEF Judged
    <3> QED BY <1>3, <3>1, OneJudged, JudgedIsFinite
  <2>2. fails'[x] = Swept[x]
    BY <1>2, <1>5, <1>6
  <2>3. CASE Swept[x] = fails[x]
    <3>1. CountOf(x)' = CountOf(x) /\ (x \in Lapsed' => x \in Lapsed)
      BY <2>2, <2>3 DEF CountOf, Lapsed, Tracked
    <3> QED BY <1>0, <2>1, <3>1 DEF GuessInv
  <2>4. CASE x \in Lapsed /\ Swept[x] = None
    <3>1. CountOf(x)' = 0 /\ guesses[x] = 0
      BY <1>0, <2>2, <2>4 DEF CountOf, GuessInv
    <3> QED BY <2>1, <3>1
  <2> QED BY <1>4, <2>3, <2>4
<1>7. guesses[u] <= CountOf(u)' + Cardinality(Judged(u))' /\ (u \in Lapsed' => guesses[u] = 0)
  <2>1. fails'[u] = OneMore(Swept[u])
    BY <1>2, <1>5
  <2>2. OneMore(Swept[u]) \in Failures /\ OneMore(Swept[u]).lapsed = FALSE
    BY <1>5 DEF OneMore, Failures
  <2>3. CountOf(u)' = OneMore(Swept[u]).count /\ u \notin Lapsed'
    BY <2>1, <2>2, ThrottleAssumption DEF CountOf, Lapsed
  <2>4. /\ Cardinality(Judged(u))' = Cardinality(Judged(u)) - 1
        /\ Cardinality(Judged(u))' \in Nat /\ Cardinality(Judged(u)) \in Nat
    BY <1>1, <1>3, OneJudged, JudgedIsFinite
  <2>5. CountOf(u) \in Nat /\ guesses[u] \in Nat /\ guesses[u] <= CountOf(u) + Cardinality(Judged(u))
    BY <1>0 DEF CountOf, Failures, ThrottleOK, GuessInv
  <2>6. CASE Swept[u] = fails[u]
    <3>1. CountOf(u)' = CountOf(u) + 1
      BY <2>3, <2>5, <2>6 DEF OneMore, CountOf
    <3> QED BY <2>3, <2>4, <2>5, <3>1
  <2>7. CASE u \in Lapsed /\ Swept[u] = None
    <3>1. CountOf(u)' = 1 /\ guesses[u] = 0
      BY <1>0, <2>3, <2>7 DEF OneMore, GuessInv
    <3> QED BY <2>3, <2>4, <3>1
  <2> QED BY <1>4, <2>6, <2>7
<1> QED BY <1>0, <1>6, <1>7 DEF Guesses, GuessInv, GuessesBounded

LEMMA ClearedGuesses ==
  ASSUME TypeOK, Guesses, NEW l \in Logins, LoginClears(l)
  PROVE  Guesses'
<1>0. /\ ThrottleOK /\ GuessInv /\ GuessesBounded
      /\ login \in [Logins -> Login \cup {None}] /\ login[l] \in Login /\ login[l].at = "known"
      /\ ClearFailures(login[l].user)
  BY DEF TypeOK, Guesses, LoginClears
<1>1. /\ login'[l].at = "cleared" /\ \A x \in Logins \ {l} : login'[x] = login[x]
  BY <1>0 DEF LoginClears, Login
<1>2. \A x : l \notin Judged(x)
  BY <1>0 DEF Judged
<1>3. \A x \in Users : Cardinality(Judged(x))' = Cardinality(Judged(x)) /\ Cardinality(Judged(x)) \in Nat
  BY <1>1, <1>2, OneJudged, JudgedIsFinite
<1>4. PICK u \in Users : fails' = [fails EXCEPT ![u] = None] /\ guesses' = [guesses EXCEPT ![u] = 0]
  BY <1>0 DEF ClearFailures, Login
<1>5. /\ CountOf(u)' = 0 /\ guesses'[u] = 0
      /\ \A x \in Users : x # u => CountOf(x)' = CountOf(x) /\ guesses'[x] = guesses[x] /\ (x \in Lapsed' => x \in Lapsed)
  BY <1>0, <1>4 DEF CountOf, ThrottleOK, Lapsed, Tracked
<1>6. GuessInv'
  <2>1. ASSUME NEW x \in Users
        PROVE  guesses'[x] <= CountOf(x)' + Cardinality(Judged(x))' /\ (x \in Lapsed' => guesses'[x] = 0)
    BY <1>0, <1>3, <1>5 DEF GuessInv
  <2> QED BY <2>1 DEF GuessInv
<1>7. GuessesBounded'
  <2>1. 0 <= LoginLimit + Cardinality(Logins) - 1
    BY ThrottleAssumption, JudgedIsFinite
  <2> QED BY <1>0, <1>5, <2>1 DEF GuessesBounded
<1> QED BY <1>6, <1>7 DEF Guesses

\* The failures of one account lapse, or the server forgets them all, with its sign-ins.
LEMMA LapsedGuesses ==
  ASSUME TypeOK, Guesses, LapseStep
  PROVE  Guesses'
<1>0. /\ ThrottleOK /\ GuessInv /\ GuessesBounded /\ login' = login
  BY DEF TypeOK, Guesses, LapseStep
<1>1. PICK u \in Users : FailuresLapse(u)
  BY DEF LapseStep
<1>2. \A x \in Users : Cardinality(Judged(x))' = Cardinality(Judged(x)) /\ Cardinality(Judged(x)) \in Nat
  BY <1>0, NobodyJudged, JudgedIsFinite
<1>3. fails[u] \in Failures /\ fails'[u] = [fails[u] EXCEPT !.lapsed = TRUE] /\ guesses'[u] = 0
  BY <1>0, <1>1 DEF FailuresLapse, Tracked, ThrottleOK
<1>4. fails'[u] \in Failures /\ fails'[u].count \in Nat
  BY <1>3 DEF Failures
<1>5. CountOf(u)' \in Nat
  BY <1>4 DEF CountOf
<1>6. \A x \in Users : x # u => CountOf(x)' = CountOf(x) /\ guesses'[x] = guesses[x] /\ (x \in Lapsed' => x \in Lapsed)
  BY <1>0, <1>1 DEF FailuresLapse, CountOf, ThrottleOK, Lapsed, Tracked
<1>7. GuessInv'
  <2>1. guesses'[u] <= CountOf(u)' + Cardinality(Judged(u))'
    BY <1>2, <1>3, <1>5
  <2> QED BY <1>0, <1>2, <1>3, <1>6, <2>1 DEF GuessInv
<1>8. GuessesBounded'
  <2>1. 0 <= LoginLimit + Cardinality(Logins) - 1
    BY ThrottleAssumption, JudgedIsFinite
  <2> QED BY <1>0, <1>3, <1>6, <2>1 DEF GuessesBounded
<1> QED BY <1>7, <1>8 DEF Guesses

LEMMA ForgottenGuesses ==
  ASSUME TypeOK, NEW a \in Admins, Restart(a)
  PROVE  Guesses'
<1>1. \A x \in Users : fails'[x] = None /\ guesses'[x] = 0
  BY DEF Restart, Forgotten
<1>2. \A x : Judged(x)' = {}
  BY DEF Restart, Judged
<1>3. \A x : Cardinality(Judged(x))' = 0
  BY <1>2, FS_EmptySet
<1>4. 0 <= LoginLimit + Cardinality(Logins) - 1
  BY ThrottleAssumption, JudgedIsFinite
<1> QED BY <1>1, <1>3, <1>4 DEF Guesses, GuessInv, GuessesBounded, CountOf, Lapsed, Tracked

\* Sign-ins that nobody judges, and everything else.
LEMMA OthersGuess ==
  ASSUME TypeOK, Guesses, UNCHANGED throttleVars,
         \/ UNCHANGED login
         \/ \E l \in Logins : login[l] # None /\ login[l].at = "cleared" /\ login' = [login EXCEPT ![l] = None]
  PROVE  Guesses'
<1>1. \A x : Judged(x)' = Judged(x)
  BY DEF Judged, TypeOK
<1> QED BY <1>1 DEF Guesses, GuessInv, GuessesBounded, CountOf, Lapsed, Tracked, throttleVars

LEMMA GuessStep == TypeOK /\ Guesses /\ [Next]_vars => Guesses'
<1> SUFFICES ASSUME TypeOK, Guesses, [Next]_vars PROVE Guesses'
  OBVIOUS
<1>1. CASE LoginStep
  <2>1. PICK l \in Logins : \/ \E u \in Users : LoginRefused(l, u) \/ LoginKnown(l, u)
                            \/ LoginFails(l) \/ LoginClears(l) \/ LoginError(l)
                            \/ \E s \in Sessions : CreateSession(l, s)
    BY <1>1 DEF LoginStep
  <2>2. CASE LoginError(l) \/ \E s \in Sessions : CreateSession(l, s)
    BY <2>2, OthersGuess DEF LoginError, CreateSession
  <2> QED BY <2>1, <2>2, RefusedGuesses, KnownGuesses, CountedGuesses, ClearedGuesses
<1>2. CASE SessionStep \/ UNCHANGED vars
  BY <1>2, OthersGuess DEF SessionStep, Logout, SessionExpires, CleanSession, vars, throttleVars
<1>3. CASE OpStep
  <2>1. UNCHANGED <<throttleVars, login>>
    BY <1>3 DEF OpStep, WebBegin, Count, Create, Enable, ChangePassword, RevokeSessions, RevokeFails, WebDisable,
              WebDelete, CliDisable, OpFails
  <2> QED BY <2>1, OthersGuess
<1> QED BY <1>1, <1>2, <1>3, LapsedGuesses, ForgottenGuesses DEF Next

\* Between two resets nobody guesses at a password more often than the limit, plus the sign-ins that had
\* passed the check when it was reached, though failures are counted only after the password is judged,
\* lapsed entries are swept from the map and the server restarts (loginBlocked, recordLoginFailure).
THEOREM GuessesAreBounded == Spec => []GuessesBounded
<1>1. Init => Guesses
  <2> SUFFICES ASSUME Init PROVE Guesses
    OBVIOUS
  <2>1. \A x \in Users : fails[x] = None /\ guesses[x] = 0
    BY DEF Init, ThrottleInit
  <2>2. \A x : Judged(x) = {}
    BY DEF Init, Judged
  <2>3. \A x : Cardinality(Judged(x)) = 0
    BY <2>2, FS_EmptySet
  <2>4. 0 <= LoginLimit + Cardinality(Logins) - 1
    BY ThrottleAssumption, JudgedIsFinite
  <2> QED BY <2>1, <2>3, <2>4 DEF Guesses, GuessInv, GuessesBounded, CountOf, Lapsed, Tracked
<1>2. Guesses => GuessesBounded
  BY DEF Guesses
<1> QED BY <1>1, <1>2, TypesInit, TypesStep, GuessStep, PTL DEF Spec
===============================================================================
