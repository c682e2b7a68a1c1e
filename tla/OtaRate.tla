------------------------------- MODULE OtaRate -------------------------------
(***************************************************************************)
(* The receiver-led rate controller of crates/openpulse-core               *)
(* (OtaRateController) as operators on a controller record: every method   *)
(* that changes the controller is an operator that returns the new one.    *)
(* The two SNR thresholds of a profile are functions of the level; a       *)
(* reading is a number or None (no trustworthy reading).                   *)
(***************************************************************************)
EXTENDS Option, Integers, FiniteSetsExt

CONSTANTS
  TopLevel,           \* the highest SpeedLevel
  Levels,             \* SessionProfile.defined_levels: the mapped levels
  InitialLevel,       \* SessionProfile.initial_level
  NackThreshold,      \* SessionProfile.nack_threshold
  AckClimbThreshold,  \* ACK_CLIMB_THRESHOLD
  CounterMax,         \* u8::MAX, where the streak counters saturate
  Floor, Ceiling      \* SNR thresholds per level, or None

SpeedLevels == 1 .. TopLevel

ASSUME LevelsAssumption == TopLevel \in Nat /\ Levels \subseteq SpeedLevels /\ Levels # {}
ASSUME InitialAssumption == InitialLevel \in Levels
ASSUME ThresholdAssumption ==
  /\ CounterMax \in Nat
  /\ NackThreshold \in 1 .. CounterMax
  /\ AckClimbThreshold \in 1 .. CounterMax
ASSUME SnrAssumption ==
  /\ None \notin Int
  /\ Floor \in [SpeedLevels -> Int \cup {None}]
  /\ Ceiling \in [SpeedLevels -> Int \cup {None}]

Bounds == SpeedLevels \cup {None}

Controllers ==
  [rx_recommended : SpeedLevels, rx_confirmed : SpeedLevels,
   rx_consecutive_nack : 0 .. CounterMax, rx_consecutive_ok : 0 .. CounterMax,
   tx_level : SpeedLevels, min_level : Bounds, max_level : Bounds,
   locked : Bounds]

new ==
  [rx_recommended |-> InitialLevel, rx_confirmed |-> InitialLevel,
   rx_consecutive_nack |-> 0, rx_consecutive_ok |-> 0,
   tx_level |-> InitialLevel, min_level |-> None, max_level |-> None,
   locked |-> None]

saturating_inc(n) == IF n < CounterMax THEN n + 1 ELSE n

-----------------------------------------------------------------------------
(* Mapped-level navigation, within the operator's bounds.                  *)

lo(c) == IF c.min_level = None THEN Min(Levels) ELSE c.min_level

hi(c) == IF c.max_level = None THEN Max(Levels) ELSE c.max_level

InRange(c) == {l \in Levels : lo(c) <= l /\ l <= hi(c)}

clamp_mapped(c, level) ==
  LET bounded == Min({Max({level, lo(c)}), hi(c)})
      below == {l \in Levels : lo(c) <= l /\ l <= bounded}
  IN  IF bounded \in Levels THEN bounded
      ELSE IF below # {} THEN Max(below)
      ELSE IF InRange(c) # {} THEN Min(InRange(c))
      ELSE bounded

next_mapped(c, level) ==
  LET above == {l \in Levels : level < l /\ l <= hi(c)}
  IN  IF above # {} THEN Min(above) ELSE clamp_mapped(c, level)

prev_mapped(c, level) ==
  LET below == {l \in Levels : lo(c) <= l /\ l < level}
  IN  IF below # {} THEN Max(below) ELSE clamp_mapped(c, level)

level_for_snr(c, snr) ==
  LET adequate == {l \in InRange(c) : Floor[l] = None \/ snr >= Floor[l]}
  IN  IF adequate # {} THEN Max(adequate) ELSE lo(c)

-----------------------------------------------------------------------------
(* Operator controls, and the sending side.                                *)

set_level_bounds(c, min, max) ==
  LET b == [c EXCEPT !.min_level = min, !.max_level = max]
  IN  [b EXCEPT !.rx_recommended = clamp_mapped(b, c.rx_recommended),
                !.rx_confirmed = clamp_mapped(b, c.rx_confirmed),
                !.tx_level = clamp_mapped(b, c.tx_level)]

lock_level(c, level) ==
  LET l == clamp_mapped(c, level)
  IN  [c EXCEPT !.locked = l, !.tx_level = l,
                !.rx_recommended = l, !.rx_confirmed = l]

unlock(c) == [c EXCEPT !.locked = None]

adopt_recommendation(c, level) ==
  IF c.locked # None THEN c ELSE [c EXCEPT !.tx_level = clamp_mapped(c, level)]

-----------------------------------------------------------------------------
(* The receiving side: what may be demodulated next, and on_rx_frame, one  *)
(* operator per outcome.  Each gives the controller and the RxAck to send. *)

rx_candidates(c) == {c.rx_recommended, c.rx_confirmed} \cap Levels

Answer(c, ack_type, decision) ==
  [ctl |-> c, ack_type |-> ack_type, decision |-> decision,
   recommended_level |->
     IF decision = "Locked" THEN c.locked ELSE c.rx_recommended]

NackStepDown(c) ==
  LET down == prev_mapped(c, c.rx_confirmed)
  IN  [c EXCEPT !.rx_consecutive_nack = 0,
                !.rx_confirmed = down, !.rx_recommended = down]

(* Mutant: a failure does not restart the success streak.                  *)
FailedKeepsStreak(c, snr) ==
  LET n == [c EXCEPT !.rx_consecutive_nack = saturating_inc(@)]
  IN  IF c.locked # None THEN Answer(c, "Nack", "Locked")
      ELSE IF n.rx_consecutive_nack >= NackThreshold
      THEN Answer(NackStepDown(n), "Nack", "NackStepDown")
      ELSE Answer(n, "Nack", "NackHold")

on_rx_failed(c, snr) ==
  LET f == [c EXCEPT !.rx_consecutive_ok = 0]
      n == [f EXCEPT !.rx_consecutive_nack = saturating_inc(@)]
  IN  IF c.locked # None
      THEN Answer(c, "Nack", "Locked")
      ELSE IF snr # None /\ level_for_snr(c, snr) < c.rx_recommended
      THEN Answer([f EXCEPT !.rx_consecutive_nack = 0,
                            !.rx_recommended = level_for_snr(c, snr)],
                  "Nack", "FastDownshift")
      ELSE IF n.rx_consecutive_nack >= NackThreshold
      THEN Answer(NackStepDown(n), "Nack", "NackStepDown")
      ELSE Answer(n, "Nack", "NackHold")

(* Mutant: a decode does not end the run of failures.                      *)
AnchorKeepsNacks(c, level) ==
  LET confirmed == clamp_mapped(c, level)
  IN  [c EXCEPT !.rx_confirmed = confirmed,
                !.rx_consecutive_ok = IF confirmed = c.rx_confirmed
                                      THEN saturating_inc(@) ELSE 1]

Anchor(c, level) ==
  LET confirmed == clamp_mapped(c, level)
  IN  [c EXCEPT !.rx_consecutive_nack = 0,
                !.rx_confirmed = confirmed,
                !.rx_consecutive_ok = IF confirmed = c.rx_confirmed
                                      THEN saturating_inc(@) ELSE 1]

ClearsCeiling(level, snr) ==
  snr # None /\ Ceiling[level] # None /\ snr >= Ceiling[level]

(* Mutant: the climb is taken from the recommendation, not the anchor.     *)
ClimbFromRecommendation(a) ==
  LET next == next_mapped(a, a.rx_recommended)
  IN  [a EXCEPT !.rx_recommended = next,
                !.rx_consecutive_ok = IF next # a.rx_confirmed THEN 0 ELSE @]

Climb(a) ==
  LET next == next_mapped(a, a.rx_confirmed)
  IN  [a EXCEPT !.rx_recommended = next,
                !.rx_consecutive_ok = IF next # a.rx_confirmed THEN 0 ELSE @]

AckTypeFor(c) ==
  IF c.rx_recommended > c.rx_confirmed THEN "AckUp"
  ELSE IF c.rx_recommended < c.rx_confirmed THEN "AckDown" ELSE "AckOk"

on_rx_decoded(c, level, snr) ==
  LET a == Anchor(c, level)
      on_snr == ClearsCeiling(a.rx_confirmed, snr)
      on_evidence == a.rx_consecutive_ok >= AckClimbThreshold
      held == [a EXCEPT !.rx_recommended = a.rx_confirmed]
  IN  IF c.locked # None THEN Answer(c, "AckOk", "Locked")
      ELSE IF on_snr THEN Answer(Climb(a), AckTypeFor(Climb(a)), "ClimbOnSnr")
      ELSE IF on_evidence
      THEN Answer(Climb(a), AckTypeFor(Climb(a)), "ClimbOnEvidence")
      ELSE Answer(held, AckTypeFor(held), "Hold")
=============================================================================
