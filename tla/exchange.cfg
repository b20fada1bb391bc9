SPECIFICATION ExchangeSpec
CONSTANTS
  UIntSize = 32
  IntSize = 256
  SizeTSize = 32
  TransferEncoding <- MCTransferEncoding
  ContentLength <- MCContentLength
  Chunked <- MCChunked
  MaxFirstTokenLength = 1
  MaxSecondTokenLength = 1
  MaxThirdTokenLength = 3
  HeaderNameLimits = {1}
  HeaderValueLimits = {5}
  HeadersAmountLimits = {4}
  Offered <- NothingOffered
  MaxPos = 0
  MaxSizeDigits = 0
  Outbox <- Mixed
  BufferSize = 3
  MaxSent = 2
INVARIANTS
  NothingThrown
  BodyIsPayloadPrefix
PROPERTIES
  ImplementsChannel
CHECK_DEADLOCK FALSE
