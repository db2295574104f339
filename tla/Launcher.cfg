SPECIFICATION MCSpec
CONSTANTS
  p1 = p1
  p2 = p2
  p3 = p3
  p4 = p4
  l1 = l1
  l2 = l2
  Pid = {p1, p2, p3, p4}
  NoPid = NoPid
  Launch = {l1, l2}
  Foreign = Foreign
  Stop = {s1}
  MaxProcess = 4
SYMMETRY Symmetric
INVARIANTS
  TypeOK
  OnlyAsked
  TerminatesWhole
  ReturnsOwn
CHECK_DEADLOCK FALSE
