---------------------------- MODULE MCTncSession ----------------------------
(* The TNC alone, with adaptive ARQ, which alone notes an exchange.        *)
EXTENDS TncSession
=============================================================================
