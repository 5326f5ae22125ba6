SPECIFICATION Spec
CONSTANTS
  Messages <- MCMessages
  Type <- MCType
  Dest <- MCDest
  Cap <- MCCap
  Ports = {"main", "a", "b"}
  MainPort = "main"
  Handlers <- AllHandlers
  None = None
CHECK_DEADLOCK FALSE
INVARIANTS
  TypeOK
  OneTaskServes
  NoUseAfterDelete
PROPERTIES
  ControlComesFirst
  NoEventAfterKill
  EventsAreTaken
  HandlersAreDeleted
