CONSTANTS
  short = short
  long = long
  endless = endless
  bad = bad
  NoFile = NoFile
  Partial = Partial
  Empty = Empty
  Program = {short, long, endless}
  Faulty = {bad}
  TooLong = {}
  LongListing = {}
  Flooding = {}
  Silent = {}
  Hungry = {}
  Length <- MCLength
  Sources = {short, bad, Empty}
  ArgLists = {"none"}
  Timeout = 2
  BatchesPerTick = 2

SPECIFICATION Spec

INVARIANT
  RunExecutesTheSource
