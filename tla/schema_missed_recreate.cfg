SPECIFICATION Spec
CONSTANTS
  None = None
  m1 = m1
  m2 = m2
  a = a
  b = b
  i = i
  x = x
  r = r
  Managers = {m1, m2}
  Owners <- BothOwners
  Items = {i, x, r}
  Uniques = {x}
  Catalog <- OneCatalog
  Version <- NewVersion
  OnStartup = {}
  Enforcers = {m1, m2}
  RuntimeItems <- AtRuntime
  MarkersFound <- Markers
  MaxFaults = 0
INVARIANTS RuntimeIsCurrent
CHECK_DEADLOCK FALSE
