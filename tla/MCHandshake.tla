----------------------------- MODULE MCHandshake -----------------------------
(* Two stations that may dial each other.                                  *)
EXTENDS Handshake

CONSTANTS a, b

BothWays == {{<<a, b>>, <<b, a>>}}
=============================================================================
