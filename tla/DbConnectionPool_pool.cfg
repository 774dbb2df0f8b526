\* Four threads compete for two connections; one session may be kept open.
CONSTANTS
  Threads = {t1, t2, t3, t4}
  Conns = {c1, c2, c3}
  NoConn = NoConn
  CfgMaxPoolSize = 1
  CfgMinPoolSize = 2
  CfgUseCount = 2
SPECIFICATION Spec
INVARIANTS
  TypeOK
  WithinCapacity
  ExclusiveHandles
  DrainedWhenDisabled
  NoLostWakeup
  UsesAreCounted
PROPERTIES
  DisabledPoolDrains
  ImplementsLeasePool
