CONSTANTS
  short = short
  long = long
  endless = endless
  flood = flood
  wordy = wordy
  hungry = hungry
  bad = bad
  bad2 = bad2
  huge = huge
  NoFile = NoFile
  Partial = Partial
  Empty = Empty
  Program = {flood, hungry}
  Faulty = {bad}
  TooLong = {huge}
  LongListing = {}
  Flooding <- AdverseFlooding
  Silent = {}
  Hungry = {hungry}
  Length <- AdverseLength
  Sources = {flood, hungry, bad, huge, Empty}
  ArgLists = {"fit", "overlong"}
  Timeout = 1
  BatchesPerTick = 2

SPECIFICATION FairPageSpec

INVARIANTS
  RunIsOfTheEditor
  OutputIsOfTheEditor
  ListingIsOfTheEditor
  ErrorsWithoutListing

PROPERTIES
  EveryBatchOrNothing
  RunTerminates
