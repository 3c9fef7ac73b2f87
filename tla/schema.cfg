SPECIFICATION Spec
CONSTANTS
  None = None
  m1 = m1
  m2 = m2
  a = a
  b = b
  i = i
  x = x
  r = r
  Managers = {m1, m2}
  Owners <- BothOwners
  Items = {i, x, r}
  Uniques = {x}
  Catalog <- OneCatalog
  Version <- NewVersion
  OnStartup = {}
  Enforcers = {m1, m2}
  RuntimeItems <- AtRuntime
  MarkersFound <- Markers
  MaxFaults = 1
INVARIANTS TypeOK DeclaredIsCurrent ListedIsThere
SYMMETRY AnyProcess
PROPERTIES SharedIsSpared
CHECK_DEADLOCK FALSE
