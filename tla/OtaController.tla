---------------------------- MODULE OtaController ----------------------------
(***************************************************************************)
(* One station's rate controller under its operator, its own decodes and   *)
(* its peer's recommendations, in any order (the methods of                *)
(* OtaRateController as ModemEngine calls them).                           *)
(***************************************************************************)
EXTENDS OtaRate

CONSTANTS
  Readings,      \* SNR readings offered with a decoded frame (or None)
  FailReadings   \* readings offered with a failed one: {None} in the engine,
                 \* unless set_rx_snr_estimate has overridden the estimator

VARIABLES
  ctl,     \* the controller
  clean,   \* history: clean decodes in a row at rx_confirmed since the last
           \* failure, level change or climb, up to CounterMax
  fails,   \* history: failed frames in a row, up to CounterMax
  manual   \* history: the operator has changed a bound or a lock

ctlVars == <<ctl, clean, fails, manual>>

CtlInit ==
  /\ ctl = new
  /\ clean = 0
  /\ fails = 0
  /\ manual = FALSE

Failed(snr) ==
  /\ ctl' = on_rx_failed(ctl, snr).ctl
  /\ clean' = 0
  /\ fails' = saturating_inc(fails)
  /\ UNCHANGED manual

Decoded(level, snr) ==
  LET c == on_rx_decoded(ctl, level, snr).ctl
  IN  /\ level \in rx_candidates(ctl)
      /\ ctl' = c
      /\ clean' = IF c.rx_recommended > c.rx_confirmed THEN 0
                  ELSE IF c.rx_confirmed # ctl.rx_confirmed THEN 1
                  ELSE saturating_inc(clean)
      /\ fails' = 0
      /\ UNCHANGED manual

Command(c) ==
  /\ ctl' = c
  /\ manual' = TRUE
  /\ UNCHANGED <<clean, fails>>

SetLevelBounds(min, max) == Command(set_level_bounds(ctl, min, max))

LockLevel(level) == Command(lock_level(ctl, level))

Unlock == Command(unlock(ctl))

AdoptRecommendation(level) ==
  /\ ctl' = adopt_recommendation(ctl, level)
  /\ UNCHANGED <<clean, fails, manual>>

CtlNext ==
  \/ \E snr \in FailReadings : Failed(snr)
  \/ \E level \in Levels, snr \in Readings : Decoded(level, snr)
  \/ \E min, max \in Bounds : SetLevelBounds(min, max)
  \/ \E level \in SpeedLevels : LockLevel(level)
  \/ Unlock
  \/ \E level \in SpeedLevels : AdoptRecommendation(level)

CtlSpec == CtlInit /\ [][CtlNext]_ctlVars

-----------------------------------------------------------------------------
(* The controller has its type: levels on the ladder and eight-bit         *)
(* counters that saturate instead of wrapping (OtaRateController).         *)
CtlTypeOK ==
  /\ ctl \in Controllers
  /\ clean \in 0 .. CounterMax
  /\ fails \in 0 .. CounterMax
  /\ manual \in BOOLEAN

(* Whenever the operator's bounds leave a mapped level to use, the anchor  *)
(* and the sending level are mapped and within the bounds, in whatever     *)
(* order bounds, locks, frames and recommendations come (clamp_mapped).    *)
(* So is the recommendation, unless a fast downshift found no adequate     *)
(* level and fell back to the lower bound, mapped or not; and it is never  *)
(* more than "one mapped step above the highest level it has actually      *)
(* decoded".                                                               *)
LevelsUsable ==
  InRange(ctl) # {} =>
    /\ {ctl.rx_confirmed, ctl.tx_level} \subseteq InRange(ctl)
    /\ ctl.rx_recommended \in InRange(ctl) \cup {lo(ctl)}
    /\ ctl.rx_recommended <= next_mapped(ctl, ctl.rx_confirmed)

(* The hysteresis of on_rx_frame, both ways, while adaptation is left to   *)
(* itself.  rx_consecutive_ok "only ever counts success at the level being *)
(* judged": it never exceeds the clean decodes in a row at the present     *)
(* anchor, so no alternation of decodes and failures earns a climb.  "A    *)
(* single blip can't drop the rate": with no reading to explain the        *)
(* failure the recommendation falls only after NackThreshold failures in a *)
(* row.                                                                    *)
HysteresisCounts ==
  /\ [](~manual => ctl.rx_consecutive_ok <= clean)
  /\ [][~manual /\ Failed(None) /\ ctl'.rx_recommended < ctl.rx_recommended
          => fails' >= NackThreshold]_ctlVars
=============================================================================
