----------------------------- MODULE MCOverlay -----------------------------
(* Three routers in a triangle.                                             *)
EXTENDS Overlay

MCLinks == {<<1, 2>>, <<1, 3>>, <<2, 3>>}
=============================================================================
