SPECIFICATION Spec
CONSTANTS
  Writers = {w1}
  Nodes = {n1}
  Fields = {f1}
  Values = {v1}
  Targets = {t1}
  None = None
  Grammars = {"NEO4J"}
  Uses = {"replace"}
  Attempts = 2
  MaxStatements = 3
  MaxLost = 1
SYMMETRY Interchangeable
PROPERTIES UpdateKeepsOthers
