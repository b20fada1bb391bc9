SPECIFICATION Spec
CONSTANTS
  UIntSize = 32
  TransferEncoding <- MCTransferEncoding
  ContentLength <- MCContentLength
  Chunked <- MCChunked
  Tokens <- MCTokens
  HeaderSets <- MCHeaderSets
  PayloadLens = {0, 1, 12}
  BufferSize = 37
  Rooms = {4, 5, 24, 25}
  MaxCalls = 2
INVARIANTS
  StreamHoldsTheEnvelopes
  LastChunkFits
PROPERTIES
  OnlyTheEnvelopeIsWritten
  PacketIsMessage
CHECK_DEADLOCK FALSE
