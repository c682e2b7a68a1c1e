--------------------------- MODULE StationIdTimer ---------------------------
(***************************************************************************)
(* The automatic station identification timer (openpulse-core's            *)
(* StationIdTimer), as operators.  Times are ticks since the last ID and   *)
(* since the last transmission; each is counted up to a bound at which     *)
(* both triggers have fired.                                               *)
(***************************************************************************)
EXTENDS Naturals

CONSTANTS IdInterval,   \* interval_ms, in ticks; 0 disables the timer
          SignoffIdle   \* signoff_idle_ms, in ticks; 0 disables the sign-off

ASSUME IdAssumption == IdInterval \in Nat /\ SignoffIdle \in Nat

IdHorizon == IdInterval + SignoffIdle + 1

IdTimers == [since_id : 0 .. IdHorizon, since_tx : 0 .. IdHorizon, tx_since_id : BOOLEAN]

new_timer == [since_id |-> 0, since_tx |-> 0, tx_since_id |-> FALSE]

note_tx(t) == IF IdInterval > 0 THEN [t EXCEPT !.tx_since_id = TRUE, !.since_tx = 0] ELSE t

id_due(t) == IdInterval > 0 /\ t.tx_since_id /\ t.since_id >= IdInterval

signoff_due(t) ==
  IdInterval > 0 /\ SignoffIdle > 0 /\ t.tx_since_id /\ t.since_tx >= SignoffIdle

mark_identified(t) == [t EXCEPT !.since_id = 0, !.tx_since_id = FALSE]

IdTick(t) ==
  LET up(n) == IF n < IdHorizon THEN n + 1 ELSE n
  IN [t EXCEPT !.since_id = up(@), !.since_tx = up(@)]
=============================================================================
