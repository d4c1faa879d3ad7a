CONSTANTS
  Path = {"data", "mms", "mmo", "listing", "stdout_log", "stderr_log"}
  Node = {"data", "mms", "mmo", "listing", "stdout_log", "stderr_log", "unnamed"}
  MaxOpenFds = 6
  Line = {good, bad, "log", "printed"}
  Hole = Hole
  NoNode = NoNode
  Closed = Closed
  Source = {good, bad}
  Faulty = {bad}
  Handle = {1, 3}
  Prints <- MCPrints
  UserFile = {"data"}
  Opens <- MCOpens
  BufferLines = 1
  OpsPerBatch = 1
  MaxLines = 1
  Lost = Lost

SPECIFICATION RedirectSpec

INVARIANTS
  FlagTellsTheTruth
  HandlesAreOpen
  NothingHeldBack
  NoStaleProgram
  PrintsAreCaptured

PROPERTIES
  RedirectionTakesOneDescriptor
  KeepsThePromises

CHECK_DEADLOCK FALSE
