SPECIFICATION Spec
CONSTANTS
  g1 = g1
  g2 = g2
  s1 = s1
  s2 = s2
  o1 = o1
  o2 = o2
  Segment = {g1, g2}
  Scrubber = {s1, s2}
  Reader = {r1}
  Op = {o1, o2}
  Cycle = Cycle
SYMMETRY Symmetry
INVARIANT StatusReadsMapped
