--------------------------- MODULE MCFileTransfer ---------------------------
(* A file of a few chunks; the numbers are in the configurations.           *)
EXTENDS FileTransfer
=============================================================================
