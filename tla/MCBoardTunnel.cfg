SPECIFICATION FairSpec
CONSTANTS
  Connections = {a, b}
  MaxOpens = 2
  MaxCloses = 2
  MaxExits = 1
INVARIANTS NoOrphan NoStrayTunnel
PROPERTIES OpensEnd DeletedGoesDown
CHECK_DEADLOCK FALSE
