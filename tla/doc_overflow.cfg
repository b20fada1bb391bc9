SPECIFICATION Spec
CONSTANTS
  UIntSize = 16
  IntSize = 256
  SizeTSize = 16
  TransferEncoding <- MCTransferEncoding
  ContentLength <- MCContentLength
  Chunked <- MCChunked
  MaxFirstTokenLength = 2
  MaxSecondTokenLength = 0
  MaxThirdTokenLength = 2
  HeaderNameLimits = {1}
  HeaderValueLimits = {2}
  HeadersAmountLimits = {2}
  Offered <- LengthOffered
  MaxPos = 24
  MaxSizeDigits = 4
INVARIANTS
  OverflowIsDetected
