CONSTANTS
  Radix = 2
  PageSize = 2
  MaxBanks = 2
  AddrMod = 16
  Value <- MCValue
  Banks <- MCBanks
  SdByte <- MCSdByte

SPECIFICATION Spec

INVARIANTS
  TypeOK
PROPERTIES
  ImplementsSerialMemory
  DeselectedUntouched
