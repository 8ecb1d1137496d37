SPECIFICATION Spec
CONSTANTS
  user = user
  refreshed = refreshed
  admin = admin
  Clients = {user, refreshed, admin}
  Admins = {admin}
  Markers = {}
  Closing = {}
  MaxLines = 0
  MaxNotices = 0
  NoClient = NoClient
\* the process may crash, the hub may block, and pages and trainings end
CHECK_DEADLOCK FALSE
INVARIANTS
  NoNilPointer
