SPECIFICATION RecFairSpec
CONSTANTS
  Instances = {s1, s2}
  Threads = {t1}
  UserVerbs <- MCUserVerbs
  MaxAttempts = 1
  ReadyMax = 1
  MaxRequests = 1
  MaxCrashes = 0
  MaxAborts = 1
  MaxDrifts = 1
PROPERTIES DestroyedForGood DriftRepaired
CHECK_DEADLOCK FALSE
