SPECIFICATION Spec
CONSTANTS
  BufferSize = 1
  MaxLength = 7
INVARIANT SuccessMeansCopied
CHECK_DEADLOCK FALSE
