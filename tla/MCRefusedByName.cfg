SPECIFICATION CompilerSpec
CONSTANTS
  Containers <- Nothing
  Scripts <- CircleOfSums
  Dimensions <- ToyDimensions
  Units <- ToyUnits
  Registry <- ToyRegistry
  F32Of <- ToyF32Of
  Implemented = {"core", "i64", "float", "call", "bits", "loop", "i64div"}
  Groups = {"core", "i64", "float", "call", "bits", "loop", "i64div"}
  MaxSlots = 24
  MaxCallDepth = 6
  Readings <- SomeReadings
  Bits32 = 9
  Bits64 = 18
  BitsShort = 9
  F32Arith <- ToyArith
  F32Neg <- ToyNeg
  F32Less <- ToyLess
  F32Equal <- ToyEqual
  F32FromInt <- ToyFromInt
  F32Whole <- ToyWhole
INVARIANTS RefusedByName
CHECK_DEADLOCK FALSE
