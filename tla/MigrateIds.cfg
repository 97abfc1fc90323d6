SPECIFICATION Spec
CONSTANTS
  Scenes = {"migrate"}
  ci = ci
  dev = dev
  t1 = t1
  t2 = t2
  a1 = a1
  a2 = a2
  Jobs = {ci, dev}
  Commands <- MCCommands
  MaxStarts = 2
  Deployers = {dev}
  MaxEdits = 2
  MaxBundles = 2
  MaxSourceEdits = 1
  MaxBuilds = 3
  Shells = {t1, t2}
  Requests <- MCRequests
  MaxCommands = 2
  MaxCallbacks = 2
  enabled = enabled
  rollout = rollout
  Calls = {a1, a2}
  Fields = {enabled, rollout}
  Collections = {c1, c2}
  Unique = {u1}
  MaxTools = 2
  MaxDash = 1
  ByteSize = 2
  Slack = 1
  MaxOld = 4
  MaxNew = 4
  posts = posts
  comments = comments
  Names = {posts, comments}
  Ids = {1, 2}
  MaxDocs = 3
  RefLists <- MCRefLists
  Records = 3
  PageSize = 1
  MaxWrites = 2
  MaxBackfills = 2
  MaxLapses = 1
INVARIANT EveryDocumentItsOwnId
CHECK_DEADLOCK FALSE
