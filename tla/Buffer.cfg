CONSTANTS
  Buffers = {b1, b2}
  Elems = {e1}
  Garbage = Garbage
  MaxSize = 2
  MaxLength = 7
  Limit = 16
  MaxWord = 1
  Words <- MCWords
SPECIFICATION BufferSpec
INVARIANTS BufferTypeOK Consistent Amortised
PROPERTIES IsVectors
