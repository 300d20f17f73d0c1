CONSTANTS
  Locations = {l1, l2}
  Names = {n1, n2}
  Calls = {c1, c2}
  Reloads = {r1}
  Objects = {o1, o2, o3, o4}
  None = None
  Starts <- AnyFiles
  MaxOps = 2
  MaxFaults = 1
SPECIFICATION Spec
PROPERTY FailureDeletesOwnFile
