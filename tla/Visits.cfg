CONSTANTS
  Page = {1, 2, 3}
  Streaming = TRUE
  TabCount = 2
  MaxTips = 2
  MaxPages = 3

SPECIFICATION FairVisitSpec

INVARIANTS
  ReadyIsInitialized
  PageShowsItsModule
  FreshPanelsAgree

PROPERTIES
  LoadsSettle
  RunShowsSelected

CHECK_DEADLOCK FALSE
