SPECIFICATION Spec
CONSTANTS
  Stored <- Documents
  Lists <- PageLists
  Quarters = {1}
  MaxPages = 3
  MaxRequests = 2
VIEW Held
CHECK_DEADLOCK FALSE
INVARIANTS
  TypeOK
PROPERTIES
  RequestIsExact
  BuildIsExact
  WriteBackKeepsOutline
  FilledIsListed
