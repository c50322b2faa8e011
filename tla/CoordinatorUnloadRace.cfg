SPECIFICATION Spec
CONSTANTS
  p1 = p1
  p2 = p2
  o1 = o1
  b = b
  c1 = c1
  c2 = c2
  c3 = c3
  None = None
  Polls <- MCPolls
  Ops <- MCOps
  Brew = b
  Clients <- MCClients
  Persistent = TRUE
  MayUnload = TRUE
INVARIANT
  FreeAfterUnload
CHECK_DEADLOCK FALSE
