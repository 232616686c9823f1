SPECIFICATION Spec
CONSTANTS
  Clients = {c1, c2}
  None = None
  Kinds = {"change", "restore","sso","tick"}
  Names = {auto}
  Uploads = {"newer"}
  MaxVersions = 2
  MaxCrashes = 1
INVARIANT AcknowledgedHeld
INVARIANT ServesAcknowledged
PROPERTY RequestsEnd
CHECK_DEADLOCK FALSE
