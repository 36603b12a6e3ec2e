SPECIFICATION ServicesSpec
CONSTANTS
  VMs = {v1, v2, v3, v4, v5}
  FirstHost = 1
  LastHost = 3
  NoIP = NoIP
  NoVM = NoVM
  Conns = {k1, k2}
  MaxEvents = 3
  BufferSize = 1
  BatchSize = 2
  Calls = {q1, q2}
  MaxProxies = 3
  GuestConns = {g1, g2}
  MaxAppleFaults = 2
  Terminals = {a}
  Commands = {"get", "create", "run", "start", "stop", "kill", "restart", "pause", "resume", "delete",
              "exec", "snapshot", "snapshotDelete", "imageRemove", "pull"}
  Tails = {0, 2}
  MaxLines = 4
  MaxLogFaults = 2
  TrayVMs = {t1, t2}
  TrayActions = {"stop", "delete", "select"}
  MaxTrayEvents = 4
INVARIANTS
  
  
  ProxyTracked
  
  
  FollowedOnceInOrder
  DestroyedWasConfirmed
PROPERTIES
    ShownNeverGoesBack 
CHECK_DEADLOCK FALSE
