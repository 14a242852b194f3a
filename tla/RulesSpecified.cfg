SPECIFICATION Spec
CONSTANTS
  Rules <- SpecifiedRules
  Contexts <- SpecifiedContexts
  IntWidth = 9
  MaxInt = 255
  MaxInputBytes = 6
  MaxConstantBytes = 4
  MaxProvableDigits = 2
  MaxTransforms = 2
  MaxPoints = 2
  MaxIndex = 3
  MaxSteps = 2
  Values = {}
  Texts <- MCTexts
  Moduli <- MCModuli
  Tables <- MCTables
  WeightLists <- MCWeights
  Alphabets <- MCAlphabets
  Comparands <- MCComparands
INVARIANT ResultIsMeaning
