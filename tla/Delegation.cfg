SPECIFICATION Spec
CONSTANTS
  MaxPolls = 2
  MaxRepairs = 2
  MaxRetries = 1
  MaxPages = 2
  MaxLog = 3
INVARIANTS
  NothingTwice
  VerifiedWasChecked
  FirstResultIsNewest
  ExhaustedMeansTried
PROPERTY DelegationEnds
