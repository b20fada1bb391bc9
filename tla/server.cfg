SPECIFICATION Spec
CONSTANTS
  Client = {c1, c2}
  Requests <- MCRequests
  BufferSize = 4
  EnvelopePartSize = 2
  EnvelopeSizes = {1, 3}
  BodySizes = {0, 2, 3}
INVARIANTS
  PacketIsTheRest
  AnsweredInFull
PROPERTIES
  EveryRequestEnds
CHECK_DEADLOCK FALSE
