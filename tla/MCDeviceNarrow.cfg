SPECIFICATION DeviceSpec
CONSTANTS
  Containers <- Demanding
  Implemented = {"core", "i64", "float", "call", "bits", "loop", "i64div"}
  Groups = {"core", "float", "bits", "call"}
  MaxSlots = 8
  MaxCallDepth = 2
  Readings <- SomeReadings
  Bits32 = 4
  Bits64 = 8
  F32Arith <- ToyArith
  F32Neg <- ToyNeg
  F32Less <- ToyLess
  F32Equal <- ToyEqual
  F32FromInt <- ToyFromInt
  F32Whole <- ToyWhole
INVARIANTS VerifyTypeOK WalkIsSound WalkOwes OneReading StaysInShape RunsAsTyped MemorySafe WithinDeclared CountersMatchFrames
PROPERTIES FalseMeansFault
CHECK_DEADLOCK FALSE
