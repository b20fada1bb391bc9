SPECIFICATION Spec
CONSTANTS
  UIntSize = 32
  IntSize = 16
  SizeTSize = 32
  TransferEncoding <- MCTransferEncoding
  ContentLength <- MCContentLength
  Chunked <- MCChunked
  MaxFirstTokenLength = 2
  MaxSecondTokenLength = 0
  MaxThirdTokenLength = 2
  HeaderNameLimits = {1}
  HeaderValueLimits = {1}
  HeadersAmountLimits = {1}
  Offered <- StartLineOffered
  MaxPos = 12
  MaxSizeDigits = 4
INVARIANTS
  ErrorPositionStartsFromZero
