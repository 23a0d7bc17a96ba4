SPECIFICATION Spec
CONSTANTS
  c1 = c1
  c2 = c2
  b1 = b1
  b2 = b2
  Worker = worker
  None = none
  Clients = {c1}
  Batches = {b1, b2}
  Size <- Size21
  Ops <- OpsDrain
  MaxHandlerOps = 1
  CallsDuringClose = FALSE
PROPERTIES
  DrainCancelsEverything
