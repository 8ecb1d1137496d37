SPECIFICATION Spec
CONSTANTS
  user = user
  refreshed = refreshed
  admin = admin
  Clients = {user, refreshed, admin}
  Admins = {admin}
  Markers = {"DONE", "ERR"}
  Closing = {user}
  MaxLines = 1
  MaxNotices = 1
  NoClient = NoClient
\* the process may crash, the hub may block, and pages and trainings end
CHECK_DEADLOCK FALSE
INVARIANTS
  TypeOK
  OnePagePerRole
  ClosedNotListed
  PagesListed
