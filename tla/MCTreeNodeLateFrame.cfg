CONSTANTS
  weak = weak
  strong = strong
  Self = 2
  Peer <- MCPeer
  PeerKey <- MCKey
  PeerPort <- MCPort
  NoPeer = NoPeer
  NoAnn = NoAnn
  Updates <- MCUpdates
  Remote = {4}
  MaxOrdering = 3
  MaxSequence = 1
  MaxInbox = 2
SPECIFICATION Spec
INVARIANT ParentIsAttached
CHECK_DEADLOCK FALSE
