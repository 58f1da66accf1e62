CONSTANTS
  Modules = {app, dep}
  Deps = {}
  Builders = {b1}
  Facets = {"embed"}
  Envs <- MCQuiet
  Inodes = {i1, i2}
  None = None
  Torn = Torn
  Garbled = Garbled
  Longest = {"exe"}
  MaxEdits = 1
  MaxBuilds = 2
SPECIFICATION Spec
INVARIANTS OutputMatchesSources
CHECK_DEADLOCK FALSE
