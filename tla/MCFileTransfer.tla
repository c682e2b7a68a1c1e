--------------------------- MODULE MCFileTransfer ---------------------------
(* One operator sends one of two files of two blocks, more than once.      *)
EXTENDS FileTransfer
=============================================================================
