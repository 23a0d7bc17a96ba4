SPECIFICATION FairSpec
CONSTANTS
  c1 = c1
  c2 = c2
  b1 = b1
  b2 = b2
  Worker = worker
  None = none
  Clients = {c1, c2}
  Batches = {b1}
  Size <- Size2
  Ops <- OpsStarvation
  MaxHandlerOps = 1
  CallsDuringClose = FALSE
PROPERTIES
  BatchesFinish
