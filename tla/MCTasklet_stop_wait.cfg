CONSTANTS
  Tasklets = {t1}
  Owned = {t1}
  OneShot = {t1}
  Callers = {c1, c2}
  Contexts = {x1, x2, x3}
  MayOverlap <- StopDuringWait
  Shared = Shared
  None = None
SPECIFICATION Spec
INVARIANT
  NoDanglingContext
