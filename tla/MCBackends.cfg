SPECIFICATION BackendsSpec
CONSTANTS
  Containers <- SomePrograms
  Implemented = {"core", "i64", "float", "call", "bits", "loop", "i64div"}
  Groups = {"core", "i64", "float", "call", "bits", "loop", "i64div"}
  MaxSlots = 16
  MaxCallDepth = 5
  Readings <- OtherReadings
  Bits32 = 4
  Bits64 = 8
  F32Arith <- ToyArith
  F32Neg <- ToyNeg
  F32Less <- ToyLess
  F32Equal <- ToyEqual
  F32FromInt <- ToyFromInt
  F32Whole <- ToyWhole
INVARIANTS RunsAsTyped HostAccessHonoured CountersBalanced SameState SameOutcome SameRequests
CHECK_DEADLOCK FALSE
PROPERTIES BothReturn
