SPECIFICATION Spec
CONSTANTS
  Releases <- MCReleases
  Version <- MCVersion
  SumsMatch <- MCSumsMatch
  Attested <- MCAttested
  Complete <- MCComplete
  Generatable <- MCGeneratable
  Followed <- MCFollowed
  MaxManual = 1
  MaxCrashes = 1
INVARIANTS NothingUnattested BranchesAreWhole
PROPERTIES MainIsFollowed GeneratedFromTheLock LatestIsProposed
