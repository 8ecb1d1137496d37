SPECIFICATION FairSpec
CONSTANTS
  user = user
  refreshed = refreshed
  admin = admin
  Clients = {user}
  Admins = {}
  Markers = {"DONE"}
  Closing = {}
  MaxLines = 0
  MaxNotices = 0
  NoClient = NoClient
\* the process may crash, the hub may block, and pages and trainings end
CHECK_DEADLOCK FALSE
PROPERTIES
  HubServes
