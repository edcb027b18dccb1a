\* Two requests on a connection, any frames of the server in between.
SPECIFICATION FairSpec
CONSTANTS
  Bodies <- MCBodies
  Window = 3
  MaxFrame = 2
  MaxData = 1
  MaxRequests = 2
PROPERTIES
  StreamsAnswered
CHECK_DEADLOCK FALSE
