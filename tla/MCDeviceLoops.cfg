SPECIFICATION DeviceSpec
CONSTANTS
  Containers <- LoopPrograms
  Implemented = {"core", "i64", "float", "call", "bits", "loop", "i64div"}
  Groups = {"core", "i64", "float", "call", "bits", "loop", "i64div"}
  MaxSlots = 3
  MaxCallDepth = 5
  Readings <- SomeReadings
  Bits32 = 4
  Bits64 = 8
  F32Arith <- ToyArith
  F32Neg <- ToyNeg
  F32Less <- ToyLess
  F32Equal <- ToyEqual
  F32FromInt <- ToyFromInt
  F32Whole <- ToyWhole
INVARIANTS CyclesAreGuarded
PROPERTIES VerifierReturns FalseMeansFault InvocationsEnd
CHECK_DEADLOCK FALSE
