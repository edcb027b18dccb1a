\* A plain connection that a proxy forwards for; what ProxyError means.
SPECIFICATION Spec
CONSTANTS
  Label <- MCLabel
  Stars <- MCStars
  Whole = "*"
  Idna = {}
  Fits <- MCFits
  Configs <- MCConfigs
  Certs <- MCCerts
  Timeouts <- MCTimeouts
  Forever = 5
  Addresses = 1
  MaxAttempts = 2
  MaxWait = 1
  PyOpenSSL = FALSE
  MayCloseInFlight = FALSE
  MCRoutes = {"forward"}
  MCMaxTotal = 3
INVARIANTS
  ProxyErrorMeansUnconnected
CHECK_DEADLOCK FALSE
