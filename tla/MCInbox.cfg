SPECIFICATION Spec
CONSTANTS
  Client = {c1, c2}
  Worker = {g1, g2}
  Body = {b1}
  Root = {r1, r2}
  None = None
  MaxWork = 1
  LateCommit = TRUE
SYMMETRY Symmetry
INVARIANTS TypeOK NoPackLost GroupsExact
PROPERTY BarrierHolds
