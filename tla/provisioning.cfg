SPECIFICATION ProvSpec
CONSTANTS
  Servers = {1, 2, 3}
  Users = {u1}
  Labels = {"a", "b"}
  Threads = {t1}
  Sizes = {1, 2}
  Vmids = {1, 2}
  Addresses = {1, 2}
  MaxServers = 3
  MaxSize = 3
  MaxFaults = 1
  MaxOps = 2
INVARIANTS OneHolder PinnedIsOwn
PROPERTIES AllocationsStick
CHECK_DEADLOCK FALSE
