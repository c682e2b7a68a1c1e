------------------------------ MODULE MCArdopPtt ------------------------------
(* The TNC's worker and command connections on one transmitter.            *)
EXTENDS ArdopPtt
=============================================================================
