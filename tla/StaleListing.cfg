CONSTANTS
  short = short
  long = long
  endless = endless
  flood = flood
  wordy = wordy
  hungry = hungry
  bad = bad
  bad2 = bad2
  huge = huge
  NoFile = NoFile
  Partial = Partial
  Empty = Empty
  Program = {short, long, endless, flood, wordy}
  Faulty = {bad}
  TooLong = {}
  LongListing = {}
  Flooding = {}
  Silent = {}
  Hungry = {}
  Length <- HonestLength
  Sources = {short, bad}
  ArgLists = {"fit"}
  Timeout = 1
  BatchesPerTick = 2

SPECIFICATION PageSpec

INVARIANT
  NoListingOfAFailure
