SPECIFICATION Spec
CONSTANTS
  user = user
  refreshed = refreshed
  admin = admin
  Clients = {user, refreshed}
  Admins = {}
  Markers = {"DONE"}
  Closing = {}
  MaxLines = 1
  MaxNotices = 0
  NoClient = NoClient
\* the process may crash, the hub may block, and pages and trainings end
CHECK_DEADLOCK FALSE
INVARIANTS
  NoClosedSend
