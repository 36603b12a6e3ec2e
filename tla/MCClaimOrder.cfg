SPECIFICATION Spec
CONSTANTS
  Jobs = {j1, j2}
  Digests = {d1, d2}
  Creates = {c1}
  Deletes = {x1}
  NoImage = NoImage
  QueueSize = 1
  MaxImageFaults = 1
  VMs = {v1}
  Requests = {1, 2, 3}
  Slots = 1
  Nobody = Nobody
  MaxClock = 1
  MaxFaults = 1
  Absent = Absent
  Builds = {b1, b2}
  Contents = {"c1", "c2", "p1"}
  Plain = {"p1"}
  Torn = Torn
  Manifests <- MCRepeated
  Sources <- MCSources
  Environment <- MCEnvironment
  MaxRetries = 1
  MaxDisturbances = 1
INVARIANT DependenciesComeFirst
CHECK_DEADLOCK FALSE
