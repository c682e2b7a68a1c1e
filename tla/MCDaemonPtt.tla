------------------------------ MODULE MCDaemonPtt ------------------------------
(* The daemon's event loop and its watchdog on one transmitter.            *)
EXTENDS DaemonPtt
=============================================================================
