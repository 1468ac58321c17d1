SPECIFICATION AlgorithmsSpec
CONSTANTS
  Count = 4
  Bits32 = 4
  Bits64 = 8
  F32Arith <- ToyArith
  F32Neg <- ToyNeg
  F32Less <- ToyLess
  F32Equal <- ToyEqual
  F32FromInt <- ToyFromInt
  F32Whole <- ToyWhole
INVARIANTS DivisionIsTotal ShiftsAreArithmetic BitsAreTwosComplement TruncationFits ComponentsAreSCCs ComponentsPartition
PROPERTIES TarjanReturns
CHECK_DEADLOCK FALSE
