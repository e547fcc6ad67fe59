SPECIFICATION FairSpec
CONSTANTS
  a = a
  b = b
  Streams = {a, b}
  Commands <- MCJobs
  Capacity = 1
  TailSize = 1
  StartErrors = {}
  ReadErrors = {}
  DrainErrors = {}
  WaitErrors = {}
PROPERTY StreamsClose
CHECK_DEADLOCK FALSE
