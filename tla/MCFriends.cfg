CONSTANTS
  Name = {u, v}
  Known = {u}
SPECIFICATION FairFriends
PROPERTY CommandReturns
CHECK_DEADLOCK FALSE
