SPECIFICATION HostFairSpec
CONSTANTS
  k1 = k1
  k2 = k2
  h1 = h1
  h2 = h2
  h3 = h3
  NoKey = NoKey
  NoHost = NoHost
  Key = {k1, k2}
  Host = {h1, h2, h3}
  Binding <- Bindings
  MaxTyped = 2
  MaxLoads = 1
  QtByte = {b1}
  Cap = 1
  MaxQueued = 1
  MaxWritten = 1
PROPERTY
  QueuedKeysPressed
CHECK_DEADLOCK FALSE
