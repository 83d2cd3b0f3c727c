SPECIFICATION HostFairSpec
CONSTANTS
  k1 = k1
  k2 = k2
  h1 = h1
  h2 = h2
  h3 = h3
  NoKey = NoKey
  NoHost = NoHost
  Key = {k1, k2}
  Host = {h1, h2, h3}
  Binding <- Bindings
  MaxTyped = 5
  MaxLoads = 2
  QtByte = {b1, b2}
  Cap = 1
  MaxQueued = 2
  MaxWritten = 2
INVARIANTS
  HostTypeOK
  QueueInOrder KeysOwned
  QtInOrder
PROPERTIES
  PressedUnlessLoaded KeysReleased
  QtDrains
CHECK_DEADLOCK FALSE
