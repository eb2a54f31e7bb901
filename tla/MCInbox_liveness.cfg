SPECIFICATION FairSpec
CONSTANTS
  Client = {c1, c2}
  Worker = {g1, g2}
  Body = {b1}
  Root = {r1}
  None = None
  MaxWork = 1
  LateCommit = FALSE
PROPERTIES WaitForEnds CloseEnds
