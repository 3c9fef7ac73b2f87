SPECIFICATION Spec
CONSTANTS
  Writers = {w1, w2}
  Nodes = {n1}
  Fields = {f1}
  Values = {v1}
  Targets = {t1}
  None = None
  Grammars = {"MEMGRAPH"}
  Uses = {}
  Attempts = 2
  MaxStatements = 3
  MaxLost = 1
SYMMETRY Interchangeable
PROPERTIES UpdateAppliesOnce
