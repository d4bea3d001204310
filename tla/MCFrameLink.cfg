CONSTANTS
  Bytes <- MCBytes
  MaxChunk = 3
  MaxBytes = 0
  Messages <- MCMessages
  MaxSent = 3
CHECK_DEADLOCK FALSE
SPECIFICATION LinkSpec
PROPERTY IsMessageChannel
