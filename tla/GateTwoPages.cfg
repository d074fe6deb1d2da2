SPECIFICATION Spec
CONSTANTS
  p1 = p1
  p2 = p2
  d1 = d1
  d2 = d2
  x = x
  y = y
  z = z
  s1 = s1
  s2 = s2
  None = None
  Page = {p1, p2}
  Plan <- MCPlanTwo
  Folder = {d1}
  File = {x, y, z}
  Source = {s1, s2}
  Bases <- MCBasesTwo
  Size <- MCSize
  Partial = {1}
  MaxFaults = 1
PROPERTIES
  BoundUndisturbed
  Binds
