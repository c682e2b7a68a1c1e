-------------------------------- MODULE Pair --------------------------------
(* Two stations on one radio channel.                                      *)
EXTENDS Option

CONSTANT Stations

ASSUME PairAssumption == \E s, t \in Stations : s # t /\ Stations = {s, t}

Peer(s) == CHOOSE r \in Stations : r # s
=============================================================================
