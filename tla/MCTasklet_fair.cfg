CONSTANTS
  Tasklets = {t1, t2}
  Owned = {}
  OneShot = {t2}
  Callers = {c1}
  Contexts = {x1, x2, x3}
  MayOverlap <- SignalsOverlap
  Shared = Shared
  None = None
SPECIFICATION FairSpec
PROPERTIES
  KeepsPromise
  StopTerminates
  JoinsReturn
  WakesSleeper
