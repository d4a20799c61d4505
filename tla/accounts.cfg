SPECIFICATION Spec
CONSTANTS
  None = None
  Users = {ann, bob}
  Admins = {ann, bob}
  Sessions = {s1}
  Logins = {l1, l2}
  WebOps = {w1, w2}
  CliOps = {k1}
  LoginLimit = 1
  MapLimit = 2
  TokenAllowed = FALSE
  SignedCookies = {ann, bob}
  MaxEpoch = 1
  MaxBusy = 2
INVARIANTS TypeOK AdminRemains RevokedStaysOut GuessesBounded
SYMMETRY Symmetry
