SPECIFICATION Spec
CONSTANTS
  Byte <- Bit
  Xor <- XorBits
  BlockSize = 2
  MaxData = 5
CHECK_DEADLOCK FALSE
INVARIANT PermutationIsBijection
INVARIANT StreamFromBlocks
INVARIANT RoundTrip
PROPERTY Terminates
