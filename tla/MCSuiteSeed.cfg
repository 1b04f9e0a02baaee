SPECIFICATION Spec
CONSTANTS
  NoSeed = "none"
  Seeds <- SuiteSeeds
  Commands <- GuestOnly
  MaxFaults = 2
INVARIANT SeededInEveryHostedRun
