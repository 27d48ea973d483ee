SPECIFICATION EdgeFairSpec
CONSTANTS
  Servers = {s1, s2}
  Addresses = {1, 2}
  Names = {n1}
  Domains = {d1}
  MaxChanges = 3
  MaxCrashes = 1
  MaxFailures = 1
INVARIANTS OneWayIn
PROPERTIES EdgeFollowsUndisturbed FilesFollow
CHECK_DEADLOCK FALSE
