SPECIFICATION Spec
CONSTANTS
  Messages <- MCMessages
  Type <- MCType
  Dest <- MCDest
  Cap <- MCCap
  Ports = {"main", "a", "b"}
  MainPort = "main"
  Handlers <- EmbedderPauseHandlers
  None = None
CHECK_DEADLOCK FALSE
PROPERTY CallbacksSuffice
