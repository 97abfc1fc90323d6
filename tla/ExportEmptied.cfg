SPECIFICATION Spec
CONSTANTS
  lib = lib  test = test  a = a  b = b  main = main
  v1 = v1  v2 = v2  d1 = d1  docA = docA  docB = docB
  Roots = {lib, test}
  Names = {a, b}
  Owned = {main}
  KBytes = {v1, v2}
  DevBytes = {d1}
  Torn = Torn  NoFile = NoFile  NoDir = NoDir  NoManifest = NoManifest
  Docs = {docA, docB}
  Exports <- All
  Environments <- Empties
  MaxApplies = 3
  MaxEdits = 2
PROPERTY RemovedAreGone
CHECK_DEADLOCK FALSE
