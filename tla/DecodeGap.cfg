SPECIFICATION Spec
CONSTANTS
  N = 3
  MaxCallDepth = 2
  CallGraphs <- MCCallGraphs
  Group = 4
  Width = 9
  MaxField = 2
  Fixed64 = 2
  Fixed32 = 1
  MaxDepth = 1
  Inputs <- MCInputs
  MaxUint32 = 5
  MaxInt32 = 2
  MaxNodesPerProgram = 2
  SupportedFeatures = {1, 2}
  KnownKinds = {1}
  Bundles <- MCBundles
  AllFields <- MCFields
INVARIANT GapNamedFirst
