--------------------------- MODULE MCTreeNetwork ---------------------------
(* Three routers in a triangle.                                             *)
EXTENDS TreeNetwork

MCLinks == {<<1, 2>>, <<1, 3>>, <<2, 3>>}
=============================================================================
