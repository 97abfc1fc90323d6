SPECIFICATION Spec
CONSTANTS
  chat = chat  s1 = s1  s2 = s2  screen = screen  manifest = manifest
  Runs = {p, q}
  Ids = {chat}
  Shas = {s1, s2}
  Damaged = Damaged  NoDir = NoDir  NoMeta = NoMeta
  Parts <- BundleFiles
  Entries <- OneCatalog
  MaxHands = 1
PROPERTY VerifiedOnEveryUse
CHECK_DEADLOCK FALSE
