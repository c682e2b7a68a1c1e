-------------------------------- MODULE MCQsy --------------------------------
(* Two stations whose candidate lists share a frequency; one of b's is     *)
(* outside the data segment.                                               *)
EXTENDS Qsy, TLC

CONSTANTS a, b

MCStations == {a, b}
MCCandidates == (a :> <<"f", "g">>) @@ (b :> <<"g", "x">>)
=============================================================================
