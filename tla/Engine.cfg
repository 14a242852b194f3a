SPECIFICATION Spec
CONSTANTS
  Dispatchers <- MCDispatchers
  NoDispatcher = NoDispatcher
  KindOf <- MCKindOf
  KindAliases <- MCKindAliases
  CountryAliases <- MCCountryAliases
  Targets <- MCTargets
  Definitions <- MCDefinitions
  NoDefinition = NoDefinition
  DefaultProfile <- MCDefaultProfile
  PreCanonicalized <- MCPreCanonicalized
  Canonicalized <- MCCanonicalized
  FormatRule <- MCFormatRule
  ChecksumRule <- MCChecksumRule
  MaxInput <- MCMaxInput
  Kinds <- MCKinds
  Values <- MCValues
  Countries <- MCCountries
  NoCall = NoCall
  NoReport = NoReport
  ErrUnknownProfile = ErrUnknownProfile
INVARIANTS
  PhasesOnce
  EntryPointsAgree
  ResubmissionStable
PROPERTIES
  Implements
