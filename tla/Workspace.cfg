SPECIFICATION Spec
CONSTANTS
  Bundle = "sized"
  NumDefinitions = 3
  PreSteps <- MCPreSteps
  ProgramOf <- MCProgramOf
  Steps <- MCSteps
  TargetOf <- MCTargetOf
  MaxInput = 4
  Inputs <- MCInputs
  GrowthFrom <- MCGrowthFrom
  LeftMargin = 3
  ScratchSize = 10
  NoAnswer = NoAnswer
INVARIANTS
  InScratch
  MarginSuffices
PROPERTIES
  LoadsOnlyOnChange
  Returns
  Implements
CHECK_DEADLOCK FALSE
