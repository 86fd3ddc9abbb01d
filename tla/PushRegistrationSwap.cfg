SPECIFICATION Spec
CONSTANTS
  a = a
  b = b
  A = A
  B = B
  x = x
  y = y
  dev = dev
  h1 = h1
  h2 = h2
  breaking = breaking
  world = world
  None = None
  Devices = {a, b}
  Groups = {A, B, x, y, dev}
  Dev = dev
  IdGroups = 1
  FcmTokens <- MCFcmTokens
  Topics = {breaking, world}
  Default = {breaking}
  Handlers = {h1, h2}
  MaxFaults = 0
  MaxOps = 1
INVARIANT
  StoredTokenIsFcms
CHECK_DEADLOCK FALSE
