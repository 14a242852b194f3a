SPECIFICATION Spec
CONSTANTS
  Rules <- CompiledRules
  Contexts <- MCContexts
  IntWidth = 9
  MaxInt = 255
  MaxInputBytes = 6
  MaxConstantBytes = 4
  MaxProvableDigits = 2
  MaxTransforms = 2
  MaxPoints = 2
  MaxIndex = 3
  MaxSteps = 2
  Values <- MCValues
  Texts <- MCTexts
  Moduli <- MCModuli
  Tables <- MCTables
  WeightLists <- MCWeights
  Alphabets <- MCAlphabets
  Comparands <- MCComparands
INVARIANTS ArithmeticIsExact AlgorithmsDecideByDefinition CountsInCodePoints PrefixesAreFound
  IndeterminateIsNotInvalid LocalsHoldTheirNodes ResultIsMeaning
