\* Three attempts over one slot, with six routes and every demand.
SPECIFICATION Spec
CONSTANTS
  Label <- MCLabel
  Stars <- MCStars
  Whole = "*"
  Idna = {}
  Fits <- MCFits
  Configs <- MCConfigs
  Certs <- MCCerts
  Timeouts <- MCTimeouts
  Forever = 5
  Addresses = 2
  MaxAttempts = 3
  MaxWait = 2
  PyOpenSSL = FALSE
  MayCloseInFlight = FALSE
  MCRoutes = {"plain", "forward", "tls", "forwards", "tunnel", "tunnels"}
  MCMaxTotal = 3
INVARIANTS
  TypeOK
  RequestWhereMeant
  VerifiedSound
  ResponseAnswersRequest
  WaitsInBudget
CHECK_DEADLOCK FALSE
