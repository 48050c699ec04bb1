CONSTANTS
  weak = weak
  strong = strong
  Self = 2
  Peer <- MCPeer
  PeerKey <- MCKey
  PeerPort <- MCPort
  NoPeer = NoPeer
  NoAnn = NoAnn
  Updates <- MCUpdates
  Remote = {4}
  MaxOrdering = 3
  MaxSequence = 1
  MaxInbox = 2
SPECIFICATION Spec
INVARIANTS
  TypeOK
  NeverPassesOnALoop
  ParentHasAnnouncement
  WaitWillEnd
  ReceiveOrdersDiffer
PROPERTIES
  RootWeakensOnlyOnBadNews
  TellsOlderOnlyAfterLosingParent
CHECK_DEADLOCK FALSE
