CONSTANTS
  Modules = {app, dep}
  Deps = {dep}
  Builders = {b1, b2}
  Facets = {"sig", "body"}
  Envs <- MCPassing
  Inodes = {i1, i2, i3}
  None = None
  Torn = Torn
  Garbled = Garbled
  Longest = {"exe"}
  MaxEdits = 2
  MaxBuilds = 3
SYMMETRY MCSymmetry
SPECIFICATION Spec
INVARIANTS CacheIsTransparent LinkedInterfacesAgree 
CHECK_DEADLOCK FALSE
