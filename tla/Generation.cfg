SPECIFICATION GenerationSpec
CONSTANTS
  Bundles <- MCGenerated
  Values <- MCValues
  IntWidth = 9
  MaxInt = 255
  MaxInputBytes = 3
  MaxConstantBytes = 4
  MaxProvableDigits = 2
  MaxSliceBound = 4
  MaxModulus = 20
  MaxWeights = 3
  MaxWeightMagnitude = 8
  MaxRemainderValues = 3
  MaxConstant = 20
  MaxAlphabetPoints = 3
  MaxCapturesPerFormat = 2
  MaxSteps = 12
  MaxIdentifiers = 3
  MaxRulesVersionBytes = 8
  MaxCallDepth = 2
  MaxNodesPerProgram = 10
  MaxTotalNodes = 34
  MaxScratchMargin = 16
  Radix = 2
INVARIANTS
  AcceptedIsServable BoundsAreSound ExpansionIsWhatIsWritten
  NeverPanics NothingUndeclared RoomForEveryCanonicalizer
PROPERTIES Terminates
CHECK_DEADLOCK FALSE
