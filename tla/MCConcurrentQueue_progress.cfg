CONSTANTS
  Threads = {t1, t2}
  Nodes = {n1, n2, n3}
  Values = {v1}
  None = None
SPECIFICATION Spec
PROPERTIES
  PushCompletes
  ConsumersComplete
