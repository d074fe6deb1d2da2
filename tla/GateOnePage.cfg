SPECIFICATION Spec
CONSTANTS
  p1 = p1
  p2 = p2
  d1 = d1
  d2 = d2
  x = x
  y = y
  z = z
  s1 = s1
  s2 = s2
  None = None
  Page = {p1}
  Plan <- MCPlanOne
  Folder = {d1, d2}
  File = {x, y}
  Source = {s1, s2}
  Bases <- MCBasesOne
  Size <- MCSize
  Partial = {1}
  MaxFaults = 3
INVARIANTS
  TypeOK
PROPERTIES
  BoundWhole
  HandleEarned
  Binds
