SPECIFICATION FairSpec
CONSTANTS
  a = a
  b = b
  Streams = {a, b}
  Commands <- MCCommands
  Capacity = 1
  TailSize = 1
  StartErrors = {b}
  ReadErrors = {b}
  DrainErrors = {b}
  WaitErrors = {b}
INVARIANTS NothingLost ErrorTextTail ReapedOnce NoLeftover
PROPERTY StreamsClose
CHECK_DEADLOCK FALSE
