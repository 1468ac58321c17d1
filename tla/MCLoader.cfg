SPECIFICATION LoaderSpec
CONSTANTS
  Words32 = 65536
  SizeT = 65536
  NameHash <- ToyHash
  Sources <- SmallAndFull
  Written <- OtherFiles
  Hosts <- Devices
  Profile <- DeviceProfile
  Implemented = {"core", "call"}
  MaxConstants = 2
  MaxImports = 2
  MaxFunctions = 2
  MaxParameters = 254
CHECK_DEADLOCK FALSE
INVARIANTS LoaderTypeOK RoundTrip DamageRefused StaysInBuffer ViewsHeld ReadersAgree LinkedAsDeclared EntriesFound
PROPERTIES LoaderReturns
