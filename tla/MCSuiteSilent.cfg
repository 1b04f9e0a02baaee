SPECIFICATION Spec
CONSTANTS
  NoSeed = "none"
  Seeds <- SuiteSeeds
  Commands <- ExternalOnly
  MaxFaults = 2
INVARIANT JudgedOnlyWhenReachable
