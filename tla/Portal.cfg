SPECIFICATION Spec
CONSTANTS
  Artworks = {1, 2}
  Admins = {h1, h2}
  Runs = {1, 2}
  MaxFiles = 1
  MaxRequests = 5
INVARIANT SealFollowsApproval
PROPERTY TestRunEnds
CHECK_DEADLOCK FALSE
