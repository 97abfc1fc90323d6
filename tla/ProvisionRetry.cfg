SPECIFICATION OneAtATime
CONSTANTS
  chat = chat  forum = forum  messages = messages  uploads = uploads
  screen = screen  routes = routes
  Runs = {p, q}
  Templates = {chat, forum}
  Resources = {messages, uploads}
  Paths = {screen, routes}
  Plain = {screen}
  Needs <- NeedsOf
  Brings <- BringsOf
  Skeleton = {routes}
  Mine = {m1}
  Base = Base  None = None
  MaxDash = 1
  MaxEdits = 1
PROPERTY ForceGoesThrough
CHECK_DEADLOCK FALSE
