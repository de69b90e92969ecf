CONSTANTS
  r1 = r1
  r2 = r2
  old = old
  new = new
  Releases = {r1, r2}
  Installed = r1
  Knows <- KnowsOf
  Configs = {old, new}
  Reads <- ReadsOf
  Operators = {o1, o2}
  Collector = units
  Openers = {o1, o2, units}
  Nobody = Nobody
  Newest = 3
  Rebuilds = {2}
  Keep = 1
SPECIFICATION Spec
INVARIANTS
  RunnableIsAccepted
