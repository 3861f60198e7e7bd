CONSTANTS
  Tasklets = {t1, t2}
  Owned = {t1}
  OneShot = {t1}
  Callers = {c1, c2, c3}
  Contexts = {x1, x2, x3, x4, x5}
  MayOverlap <- SignalsOverlap
  Shared = Shared
  None = None
SPECIFICATION Spec
SYMMETRY Symmetry
INVARIANTS
  TypeOK
  NoDanglingContext
  JoinsWhatItDeletes
  NoLostStop
  OneThreadPerTasklet
PROPERTIES
  DeletesQuietContexts
  StopReportsTruth
