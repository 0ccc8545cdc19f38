CONSTANTS
  Byte = 2
  Messages <- ShortAndLong
  BufferSize = 7
  MaxRetries = 2
SPECIFICATION Spec
INVARIANTS
  InStep
  WholeMessages
PROPERTIES
  ImplementsMessageLink
  TransferEnds
