SPECIFICATION FairSpec
CONSTANTS
  Guest = {guest}
  MaxConn = 3
  MaxTimeouts = 2
INVARIANTS TypeOK ServedOnlyWithToken
PROPERTIES NotInherited Recovers
