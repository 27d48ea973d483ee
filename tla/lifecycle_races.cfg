SPECIFICATION Spec
CONSTANTS
  Instances = {s1}
  Threads = {t1, t2}
  UserVerbs = {"stop", "rebuild", "destroy"}
  MaxAttempts = 2
  ReadyMax = 1
  MaxRequests = 2
  MaxCrashes = 1
  MaxDrifts = 1
  
PROPERTIES  SettledStays
SYMMETRY Symmetry
CHECK_DEADLOCK FALSE
