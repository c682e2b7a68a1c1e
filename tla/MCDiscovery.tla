----------------------------- MODULE MCDiscovery -----------------------------
(* One station with two frequencies of its own.                            *)
EXTENDS Discovery
=============================================================================
