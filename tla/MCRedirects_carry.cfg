\* Three retries or redirects, every body, every way to make a request.
SPECIFICATION Spec
CONSTANTS
  Setups <- MCSetups
  Urls <- MCUrls
  UserHeaders <- MCUserHeaders
  Bodies = {"none", "bytes", "file", "iterator", "no tell", "no seek"}
  Length = 2
  Sensitive <- MCSensitive
  Budget = 3
INVARIANTS
  TypeOK
  BodyWhole
  BodyFramed
  HeadersDropped
  HeadersKept
CHECK_DEADLOCK FALSE
