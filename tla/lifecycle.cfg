SPECIFICATION FairSpec
CONSTANTS
  Instances = {s1}
  Threads = {t1}
  UserVerbs = {"start", "stop", "reboot", "resize", "rebuild", "rollback", "backup", "restore_backup", "destroy"}
  MaxAttempts = 2
  ReadyMax = 2
  MaxRequests = 2
  MaxCrashes = 1
  MaxDrifts = 1
INVARIANTS NoLimbo NoStrandedRow NeverExposed
PROPERTIES RefinesStatusMachine QueueDrains RefinesFairStatusMachine
CHECK_DEADLOCK FALSE
