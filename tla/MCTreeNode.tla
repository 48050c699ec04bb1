---------------------------- MODULE MCTreeNode ----------------------------
(***************************************************************************)
(* A router with key 2 and two neighbours, one weaker than us and one      *)
(* stronger.  Key 4 is a root behind them.                                 *)
(***************************************************************************)
EXTENDS TreeNode, TLC

CONSTANTS weak, strong

MCPeer == {weak, strong}
MCKey == (weak :> 1) @@ (strong :> 3)
MCPort == (weak :> 1) @@ (strong :> 2)

Ann(seq, keys) ==
  [root |-> keys[1], seq |-> seq, sigs |-> [i \in DOMAIN keys |-> [key |-> keys[i], hop |-> 1]]]

MCUpdates ==
  (weak :> {Ann(1, <<1>>), Ann(2, <<4, 1>>)})
  @@ (strong :> {Ann(1, <<3>>), Ann(1, <<4, 3>>), Ann(2, <<4, 3>>), Ann(1, <<4, 2, 3>>)})
=============================================================================
