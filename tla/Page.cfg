CONSTANTS
  short = short
  long = long
  endless = endless
  flood = flood
  wordy = wordy
  hungry = hungry
  bad = bad
  bad2 = bad2
  huge = huge
  NoFile = NoFile
  Partial = Partial
  Empty = Empty
  Program = {short, long, endless, flood, wordy}
  Faulty = {bad, bad2}
  TooLong = {}
  LongListing = {wordy}
  Flooding <- HonestFlooding
  Silent = {short}
  Hungry = {}
  Length <- HonestLength
  Sources = {short, long, endless, flood, wordy, bad, bad2}
  ArgLists = {"fit"}
  Timeout = 2
  BatchesPerTick = 2

SPECIFICATION FairPageSpec

INVARIANTS
  PageTypeOK
  LogIsTheRun
  FailureShowsItsErrors
  NothingLeftBehind
  RegistersMatchOutput

PROPERTIES
  RunShowsEveryBatchOrTimeout
  NoBatchAfterTimeout
  KeepsThePromise
  RunEndsVisibly
