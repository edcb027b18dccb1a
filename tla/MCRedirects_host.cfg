\* The same; what a proxy is told of the host.
SPECIFICATION Spec
CONSTANTS
  Setups <- MCSetups
  Urls <- MCUrls
  UserHeaders <- MCUserHeaders
  Bodies = {"none"}
  Length = 2
  Sensitive <- MCSensitive
  Budget = 1
INVARIANTS
  HostAsDocumented
CHECK_DEADLOCK FALSE
