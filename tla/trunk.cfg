SPECIFICATION Spec
CONSTANTS
  None = None
  Torn = Torn
  primary = primary
  secondary = secondary
  k1 = k1
  k2 = k2
  Senders = {primary, secondary}
  Keys = {k1, k2}
  Revoked = Revoked
  Installed <- MCInstalled
  Administered = {primary}
  MaxWrites = 1
  Calls = {1, 2}
  Destinations <- MCDestinations
  UploadKey = k1
  Hooks = {hook}
  Timer = timer
  RetryCount = 1
  MaxUpsets = 1
 
PROPERTIES  KeyStaysReplaced
CHECK_DEADLOCK FALSE
