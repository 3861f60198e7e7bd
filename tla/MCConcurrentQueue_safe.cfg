CONSTANTS
  Threads = {t1, t2, t3}
  Nodes = {n1, n2, n3}
  Values = {v1, v2}
  None = None
SPECIFICATION Spec
SYMMETRY Symmetry
INVARIANTS
  TypeOK
  ListIsIntact
  LastIsEnd
  NoUseAfterFree
  NodesAccountedFor
PROPERTY
  Linearizable
