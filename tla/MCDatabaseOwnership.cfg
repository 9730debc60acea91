SPECIFICATION Spec
CONSTANTS
  s1 = s1  s2 = s2  d1 = d1  d2 = d2  a1 = a1  a2 = a2
  Process = {s1, s2, d1, d2, a1, a2}
  Command <- Commands
INVARIANTS
  TypeOK
  OneOwner
  OpenedStaysCurrent
  LeftoverOnlyIfUnclean
