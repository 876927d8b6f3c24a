SPECIFICATION Spec
CONSTANTS
  s1 = s1
  s2 = s2
  a1 = a1
  a2 = a2
  Starts = {s1, s2}
  Auths = {a1, a2}
  Lengths = {1, 2}
  MaxDeletes = 1
SYMMETRY Alike
INVARIANTS
  DamageNeedsACrashOrAnOverlap
  SoloRunsKeepTheNewest
CHECK_DEADLOCK FALSE
