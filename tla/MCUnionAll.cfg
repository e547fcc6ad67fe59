CONSTANTS
  Sources = {s1, s2, s3}
  Streams <- MCStreams
  Subscribers = {d1, d2}
  MaxLen = 2
SPECIFICATION Spec
PROPERTIES
  PromptStop
  Completes
  Implements
