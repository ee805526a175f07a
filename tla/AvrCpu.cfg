CONSTANTS
  RamSize = 16
  RomWords = 32
  PageWords = 4
  Vector = 16
  Boots <- MCBoots
SPECIFICATION Spec
INVARIANTS
  CompiledAsDocumented
  CodeMatchesRom
  OnlyStarts
  SameInBothBuilds
  WideArithmetic
PROPERTIES
  ReturnsToCaller
