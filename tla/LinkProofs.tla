----------------------------- MODULE LinkProofs -----------------------------
(***************************************************************************)
(* An HPX session's recoveries, for any limits; and the rate controller,   *)
(* alone and on a link, for every ladder (any set of mapped levels, with   *)
(* any gaps), every pair of SNR thresholds and every sequence of frames,   *)
(* commands and recommendations.                                           *)
(***************************************************************************)
EXTENDS HpxSession, OtaController, OtaLink, WellFoundedInduction, TLAPS

-----------------------------------------------------------------------------
(* The HPX session.                                                        *)

HpxRecord == [state : HpxStates, id : BOOLEAN, recoveries : Nat, arq : Nat]

(* Every recovery of the run was counted when it began, and a session over *)
(* the limit has failed for good without beginning the one that broke it.  *)
Counted ==
  /\ session \in HpxRecord /\ in_a_row \in Nat
  /\ in_a_row <= session.recoveries
  /\ session.recoveries > MaxRecoveries => session.state = "Failed" /\ in_a_row <= MaxRecoveries

(* Where the handlers lead.                                                *)
LEMMA HandlerIs ==
  ASSUME NEW st \in HpxStates, NEW e
  PROVE  /\ Handler(st, e) \in HpxStates \cup {"invalid"}
         /\ Handler(st, e) = "Recovery" => st \in {"ActiveTransfer", "RelayActive"}
         /\ st = "Failed" => Handler(st, e) = "invalid"
<1>1. CASE st \in {"Idle", "Failed"}
  BY <1>1 DEF Handler, handle_idle, HpxStates
<1>2. CASE st = "Discovery"
  BY <1>2 DEF Handler, handle_discovery, HpxStates
<1>3. CASE st = "Training"
  BY <1>3 DEF Handler, handle_training, HpxStates
<1>4. CASE st = "ActiveTransfer"
  BY <1>4 DEF Handler, handle_active_transfer, HpxStates
<1>5. CASE st = "Recovery"
  BY <1>5 DEF Handler, handle_recovery, HpxStates
<1>6. CASE st = "RelayActive"
  BY <1>6 DEF Handler, handle_relay_active, HpxStates
<1>7. CASE st = "Teardown"
  BY <1>7 DEF Handler, handle_teardown, HpxStates
<1> QED BY <1>1, <1>2, <1>3, <1>4, <1>5, <1>6, <1>7 DEF HpxStates

(* What dispatch does: nothing, a step, a step into recovery, a failure,   *)
(* or an end.                                                              *)
DispatchEffect(s, t) ==
  \/ t = s
  \/ /\ s.state # "Failed" /\ t.state # "Recovery"
     /\ t.recoveries = s.recoveries /\ t.recoveries <= MaxRecoveries
  \/ /\ s.state \in {"ActiveTransfer", "RelayActive"} /\ t.state = "Recovery"
     /\ t.recoveries = s.recoveries + 1 /\ t.recoveries <= MaxRecoveries
  \/ /\ s.state # "Failed" /\ t.state = "Failed"
     /\ t.recoveries \in {s.recoveries, s.recoveries + 1}
  \/ t = NewSession

(* dispatch does one of these.                                             *)
LEMMA DispatchIs ==
  ASSUME NEW s \in HpxRecord, NEW e
  PROVE  dispatch(s, e) \in HpxRecord /\ DispatchEffect(s, dispatch(s, e))
<1> DEFINE to == Handler(s.state, e)
           n == s.recoveries + (IF to = "Recovery" THEN 1 ELSE 0)
           id == (s.id \/ e = "StartSession")
           arq == IF to = "ActiveTransfer" THEN 0 ELSE s.arq
           t == dispatch(s, e)
<1>1. /\ s.state \in HpxStates /\ s.recoveries \in Nat /\ s.id \in BOOLEAN /\ s.arq \in Nat
      /\ n \in Nat /\ id \in BOOLEAN /\ arq \in Nat
      /\ n = IF to = "Recovery" THEN s.recoveries + 1 ELSE s.recoveries
  BY DEF HpxRecord
<1>2. /\ to \in HpxStates \cup {"invalid"}
      /\ to = "Recovery" => s.state \in {"ActiveTransfer", "RelayActive"}
      /\ s.state = "Failed" => to = "invalid"
  BY <1>1, HandlerIs
<1>3. t = IF to = "invalid" THEN s
          ELSE IF n > MaxRecoveries THEN [s EXCEPT !.state = "Failed", !.recoveries = n]
          ELSE IF to = "Idle" THEN NewSession
          ELSE [state |-> to, id |-> id, recoveries |-> n, arq |-> arq]
  BY DEF dispatch
<1> HIDE DEF to, n, id, arq, t
<1>4. CASE to = "invalid"
  BY <1>3, <1>4 DEF DispatchEffect, t
<1>5. CASE to # "invalid" /\ n > MaxRecoveries
  <2>1. t = [s EXCEPT !.state = "Failed", !.recoveries = n]
    BY <1>3, <1>5
  <2>2. t \in HpxRecord /\ t.state = "Failed" /\ t.recoveries = n
    BY Zenon, <1>1, <2>1 DEF HpxRecord, HpxStates
  <2> QED BY <1>1, <1>2, <1>5, <2>2 DEF DispatchEffect, t
<1>6. CASE to = "Idle" /\ ~(n > MaxRecoveries)
  <2>1. t = NewSession
    BY <1>3, <1>6
  <2> QED BY <2>1 DEF DispatchEffect, NewSession, HpxRecord, HpxStates, t
<1>7. CASE to \notin {"invalid", "Idle"} /\ ~(n > MaxRecoveries)
  <2>1. t = [state |-> to, id |-> id, recoveries |-> n, arq |-> arq]
    BY <1>3, <1>7
  <2>2. t \in HpxRecord /\ t.state = to /\ t.recoveries = n
    BY <1>1, <1>2, <1>7, <2>1 DEF HpxRecord
  <2>3. n <= MaxRecoveries
    BY <1>1, <1>7, MaxRecoveriesAssumption
  <2> QED BY <1>1, <1>2, <1>7, <2>2, <2>3 DEF DispatchEffect, t
<1> QED BY <1>4, <1>5, <1>6, <1>7

(* Counting survives every event and retry.                                *)
LEMMA CountedStep ==
  ASSUME Counted, [HpxNext]_hpxVars
  PROVE  Counted'
<1>1. CASE UNCHANGED hpxVars
  BY <1>1 DEF hpxVars, Counted
<1>2. ASSUME NEW e \in HpxEvents, HpxEvent(e) PROVE Counted'
  <2>1. /\ session' \in HpxRecord /\ DispatchEffect(session, session')
        /\ session.recoveries \in Nat /\ session'.recoveries \in Nat /\ in_a_row \in Nat
    BY <1>2, DispatchIs DEF HpxEvent, Counted, HpxRecord
  <2>2. \/ in_a_row' = 0
        \/ /\ session.state # "Recovery" /\ session'.state = "Recovery"
           /\ in_a_row' = in_a_row + 1
        \/ session'.state # "Idle" /\ in_a_row' = in_a_row
    BY <1>2 DEF HpxEvent
  <2>3. CASE session' = session
    BY <2>1, <2>2, <2>3, MaxRecoveriesAssumption DEF Counted
  <2>4. CASE /\ session.state # "Failed" /\ session'.state # "Recovery"
             /\ session'.recoveries = session.recoveries /\ session'.recoveries <= MaxRecoveries
    BY <2>1, <2>2, <2>4, MaxRecoveriesAssumption DEF Counted
  <2>5. CASE /\ session.state \in {"ActiveTransfer", "RelayActive"} /\ session'.state = "Recovery"
             /\ session'.recoveries = session.recoveries + 1
             /\ session'.recoveries <= MaxRecoveries
    BY <2>1, <2>2, <2>5, MaxRecoveriesAssumption DEF Counted
  <2>6. CASE /\ session.state # "Failed" /\ session'.state = "Failed"
             /\ session'.recoveries \in {session.recoveries, session.recoveries + 1}
    BY <2>1, <2>2, <2>6, MaxRecoveriesAssumption DEF Counted
  <2>7. CASE session' = NewSession
    BY <2>1, <2>2, <2>7, MaxRecoveriesAssumption DEF Counted, NewSession
  <2> QED BY <2>1, <2>3, <2>4, <2>5, <2>6, <2>7 DEF DispatchEffect
<1>3. CASE RecordArqRetry \/ ResetArqRetryCounter
  BY <1>3 DEF RecordArqRetry, ResetArqRetryCounter, Counted, HpxRecord
<1> QED BY <1>1, <1>2, <1>3 DEF HpxNext

(* A session begins at most MAX_RECOVERY_ATTEMPTS recoveries in a row,     *)
(* whatever events it meets in whatever order, relay detours, retries and  *)
(* invalid ones included (HpxReactor::dispatch).                           *)
THEOREM RecoveriesAreBounded == HpxSpec => []RecoveriesBounded
<1>1. HpxInit => Counted
  BY MaxRecoveriesAssumption DEF HpxInit, NewSession, Counted, HpxRecord, HpxStates
<1>2. Counted => RecoveriesBounded
  BY MaxRecoveriesAssumption DEF Counted, HpxRecord, RecoveriesBounded
<1> QED BY <1>1, <1>2, CountedStep, PTL DEF HpxSpec

-----------------------------------------------------------------------------
(* Choosing a level.                                                       *)

(* A nonempty set of naturals has a least element.                         *)
LEMMA LeastExists ==
  ASSUME NEW S, S \subseteq Nat, S # {}
  PROVE  \E x \in S : \A y \in S : x <= y
<1>1. PICK x \in S : \A y \in S : <<y, x>> \notin OpToRel(<, Nat)
  BY Zenon, NatLessThanWellFounded, WFMin
<1>2. \A y \in S : ~(y < x)
  BY Zenon, <1>1 DEF OpToRel
<1>3. \A y \in S : y \in Nat
  OBVIOUS
<1> QED BY <1>2, <1>3

(* Levels are numbers.                                                     *)
LEMMA LevelsAreInts == (\A l \in Levels : l \in Int) /\ (\A l \in SpeedLevels : l \in Int)
  BY LevelsAssumption DEF SpeedLevels

(* Min of some levels is the lowest of them.                               *)
LEMMA MinOf ==
  ASSUME NEW S, S \subseteq SpeedLevels, S # {}
  PROVE  Min(S) \in S /\ \A y \in S : Min(S) <= y
<1>1. S \subseteq Nat
  BY LevelsAssumption DEF SpeedLevels
<1>2. \E x \in S : \A y \in S : x <= y
  BY Zenon, <1>1, LeastExists
<1> QED BY <1>2 DEF Min

(* Max of some levels is the highest of them.                              *)
LEMMA MaxOf ==
  ASSUME NEW S, S \subseteq SpeedLevels, S # {}
  PROVE  Max(S) \in S /\ \A y \in S : Max(S) >= y
<1> DEFINE T == {TopLevel - y : y \in S}
<1>1. \A y \in S : y \in Nat /\ TopLevel - y \in Nat
  BY LevelsAssumption DEF SpeedLevels
<1>2. T \subseteq Nat /\ T # {}
  BY <1>1
<1> HIDE DEF T
<1>3. PICK t \in T : \A y \in T : t <= y
  BY Zenon, <1>2, LeastExists
<1> USE DEF T
<1>4. PICK x \in S : t = TopLevel - x
  BY <1>3
<1>5. \A y \in S : TopLevel - x <= TopLevel - y
  BY <1>3, <1>4
<1>6. \A y \in S : x >= y
  BY <1>1, <1>5, LevelsAssumption
<1> QED BY <1>6 DEF Max

-----------------------------------------------------------------------------
(* The mapped levels within the operator's bounds.                         *)

(* A level the controller may rest at: mapped and within the bounds when   *)
(* they leave one, else the bound nearest to what was asked for.           *)
Settled(c, x) ==
  /\ x \in SpeedLevels
  /\ x <= hi(c)
  /\ lo(c) <= x \/ x = hi(c)
  /\ InRange(c) # {} => x \in Levels

(* The bounds are levels.                                                  *)
LEMMA BoundsTyped ==
  ASSUME NEW c \in Controllers
  PROVE  lo(c) \in SpeedLevels /\ hi(c) \in SpeedLevels
<1>1. Min(Levels) \in SpeedLevels /\ Max(Levels) \in SpeedLevels
  BY MinOf, MaxOf, LevelsAssumption
<1> QED BY <1>1 DEF Controllers, Bounds, lo, hi

(* Without an operator the bounds are those of the ladder, and no mapped   *)
(* level is outside them.                                                  *)
LEMMA FreeRange ==
  ASSUME NEW c \in Controllers, c.min_level = None, c.max_level = None
  PROVE  InRange(c) = Levels
<1>1. \A l \in Levels : Min(Levels) <= l /\ l <= Max(Levels)
  BY Zenon, MinOf, MaxOf, LevelsAssumption DEF SpeedLevels
<1> QED BY <1>1 DEF InRange, lo, hi

(* Limiting a level to an interval, as clamp_mapped does first.            *)
LEMMA BoundedIs ==
  ASSUME NEW x \in SpeedLevels, NEW a \in SpeedLevels, NEW b \in SpeedLevels
  PROVE  LET y == Min({Max({x, a}), b})
         IN  /\ y \in SpeedLevels
             /\ y <= b
             /\ a <= y \/ y = b
             /\ y <= x \/ y <= a
             /\ x <= y \/ b <= y
<1>1. Max({x, a}) \in {x, a} /\ Max({x, a}) >= x /\ Max({x, a}) >= a
  BY MaxOf
<1> DEFINE m == Max({x, a})
<1>2. m \in SpeedLevels
  BY <1>1
<1>3. Min({m, b}) \in {m, b} /\ Min({m, b}) <= m /\ Min({m, b}) <= b
  BY <1>2, MinOf
<1> HIDE DEF m
<1> QED BY <1>1, <1>2, <1>3, LevelsAssumption DEF SpeedLevels, m

(* clamp_mapped settles on a level, and orders it among the usable ones as *)
(* the level it was given.                                                 *)
LEMMA ClampIs ==
  ASSUME NEW c \in Controllers, NEW x \in SpeedLevels
  PROVE  /\ Settled(c, clamp_mapped(c, x))
         /\ \A l \in InRange(c) :
              (l <= x => l <= clamp_mapped(c, x)) /\ (x <= l => clamp_mapped(c, x) <= l)
<1> DEFINE y == Min({Max({x, lo(c)}), hi(c)})
           below == {l \in Levels : lo(c) <= l /\ l <= y}
           k == clamp_mapped(c, x)
<1>1. lo(c) \in SpeedLevels /\ hi(c) \in SpeedLevels
  BY BoundsTyped
<1>2. /\ y \in SpeedLevels
      /\ y <= hi(c)
      /\ lo(c) <= y \/ y = hi(c)
      /\ y <= x \/ y <= lo(c)
      /\ x <= y \/ hi(c) <= y
  BY <1>1, BoundedIs
<1>3. k = IF y \in Levels THEN y
          ELSE IF below # {} THEN Max(below)
          ELSE IF InRange(c) # {} THEN Min(InRange(c))
          ELSE y
  BY DEF clamp_mapped
<1>4. below # {} => Max(below) \in below /\ \A l \in below : Max(below) >= l
  BY MaxOf, LevelsAssumption
<1>5. InRange(c) # {} => Min(InRange(c)) \in InRange(c) /\ \A l \in InRange(c) : Min(InRange(c)) <= l
  BY MinOf, LevelsAssumption DEF InRange
<1> HIDE DEF y, k
<1> USE LevelsAssumption DEF SpeedLevels
<1>6. CASE y \in Levels
  <2>1. k = y
    BY <1>3, <1>6
  <2>2. Settled(c, y)
    BY <1>2, <1>6 DEF Settled
  <2>3. \A l \in InRange(c) : (l <= x => l <= y) /\ (x <= l => y <= l)
    BY <1>1, <1>2 DEF InRange
  <2> QED BY <2>1, <2>2, <2>3 DEF k
<1>7. CASE y \notin Levels /\ below # {}
  <2>1. k = Max(below)
    BY <1>3, <1>7
  <2>2. k \in Levels /\ lo(c) <= k /\ k <= y
    BY <1>4, <1>7, <2>1
  <2>3. Settled(c, k)
    BY <1>1, <1>2, <2>2 DEF Settled
  <2>4. ASSUME NEW l \in InRange(c), l <= x PROVE l <= k
    <3>1. l \in below
      BY <1>1, <1>2, <2>4 DEF InRange
    <3> QED BY <1>4, <2>1, <2>2, <3>1
  <2>5. ASSUME NEW l \in InRange(c), x <= l PROVE k <= l
    BY <1>1, <1>2, <2>2, <2>5 DEF InRange
  <2> QED BY <2>3, <2>4, <2>5 DEF k
<1>8. CASE y \notin Levels /\ below = {} /\ InRange(c) # {}
  <2>1. k = Min(InRange(c))
    BY <1>3, <1>8
  <2>2. k \in Levels /\ lo(c) <= k /\ k <= hi(c)
    BY <1>5, <1>8, <2>1 DEF InRange
  <2>3. Settled(c, k)
    BY <1>1, <2>2 DEF Settled
  <2>4. ASSUME NEW l \in InRange(c), l <= x PROVE FALSE
    <3>1. l \in below
      BY <1>1, <1>2, <2>4 DEF InRange
    <3> QED BY <1>8, <3>1
  <2> QED BY <1>5, <1>8, <2>1, <2>3, <2>4 DEF k
<1>9. CASE y \notin Levels /\ below = {} /\ InRange(c) = {}
  <2>1. k = y
    BY <1>3, <1>9
  <2> QED BY <1>2, <1>9, <2>1 DEF Settled, k
<1> QED BY <1>6, <1>7, <1>8, <1>9

(* A level that is settled is left alone.                                  *)
LEMMA ClampFixes ==
  ASSUME NEW c \in Controllers, NEW x, Settled(c, x)
  PROVE  clamp_mapped(c, x) = x
<1>1. lo(c) \in SpeedLevels /\ hi(c) \in SpeedLevels /\ x \in SpeedLevels
  BY BoundsTyped DEF Settled
<1>0. x <= hi(c) /\ (lo(c) <= x \/ x = hi(c))
  BY DEF Settled
<1>2. Min({Max({x, lo(c)}), hi(c)}) = x
  <2> DEFINE y == Min({Max({x, lo(c)}), hi(c)})
  <2>1. y \in SpeedLevels /\ y <= hi(c) /\ (lo(c) <= y \/ y = hi(c))
        /\ (y <= x \/ y <= lo(c)) /\ (x <= y \/ hi(c) <= y)
    BY <1>1, BoundedIs
  <2> HIDE DEF y
  <2>2. y = x
    BY <1>0, <1>1, <2>1, LevelsAssumption DEF SpeedLevels
  <2> QED BY <2>2 DEF y
<1>3. CASE x \in Levels
  BY <1>2, <1>3 DEF clamp_mapped
<1>4. CASE x \notin Levels
  <2>1. InRange(c) = {}
    BY <1>4 DEF Settled
  <2>2. ASSUME NEW l \in Levels, lo(c) <= l, l <= x PROVE FALSE
    <3>1. l <= hi(c)
      BY <1>0, <1>1, <2>2, LevelsAssumption DEF SpeedLevels
    <3> QED BY <2>1, <2>2, <3>1 DEF InRange
  <2>3. {l \in Levels : lo(c) <= l /\ l <= x} = {}
    BY <2>2
  <2> QED BY <1>2, <1>4, <2>1, <2>3 DEF clamp_mapped
<1> QED BY <1>3, <1>4

(* next_mapped settles one usable level up, if there is one.               *)
LEMMA NextIs ==
  ASSUME NEW c \in Controllers, NEW x, Settled(c, x)
  PROVE  /\ Settled(c, next_mapped(c, x))
         /\ x <= next_mapped(c, x)
         /\ \A l \in Levels : ~(x < l /\ l < next_mapped(c, x))
         /\ \A l \in InRange(c) : x < l => x < next_mapped(c, x) /\ next_mapped(c, x) <= l
         /\ x # next_mapped(c, x) => x < next_mapped(c, x)
<1> DEFINE above == {l \in Levels : x < l /\ l <= hi(c)}
           n == next_mapped(c, x)
<1>1. lo(c) \in SpeedLevels /\ hi(c) \in SpeedLevels /\ x \in SpeedLevels
  BY BoundsTyped DEF Settled
<1>2. x <= hi(c) /\ (lo(c) <= x \/ x = hi(c))
  BY DEF Settled
<1>3. n = IF above # {} THEN Min(above) ELSE x
  BY ClampFixes DEF next_mapped
<1>4. above # {} => Min(above) \in above /\ \A l \in above : Min(above) <= l
  BY MinOf, LevelsAssumption
<1> HIDE DEF n
<1> USE LevelsAssumption DEF SpeedLevels
<1>5. CASE above # {}
  <2>1. n \in Levels /\ x < n /\ n <= hi(c) /\ \A l \in Levels : x < l /\ l <= hi(c) => n <= l
    BY <1>3, <1>4, <1>5
  <2>2. Settled(c, n)
    BY <1>1, <1>2, <2>1 DEF Settled
  <2>3. \A l \in Levels : ~(x < l /\ l < n)
    BY <1>1, <2>1
  <2>4. \A l \in InRange(c) : x < l => x < n /\ n <= l
    BY <2>1 DEF InRange
  <2>5. x <= n /\ (x # n => x < n)
    BY <1>1, <2>1
  <2> QED BY <2>2, <2>3, <2>4, <2>5 DEF n
<1>6. CASE above = {}
  <2>1. n = x
    BY <1>3, <1>6
  <2>2. \A l \in InRange(c) : ~(x < l)
    BY <1>6 DEF InRange
  <2>3. \A l \in Levels : ~(x < l /\ l < x)
    BY <1>1
  <2> QED BY <1>1, <2>1, <2>2, <2>3 DEF n
<1> QED BY <1>5, <1>6

(* prev_mapped settles lower down, or where it was.                        *)
LEMMA PrevIs ==
  ASSUME NEW c \in Controllers, NEW x, Settled(c, x)
  PROVE  Settled(c, prev_mapped(c, x)) /\ prev_mapped(c, x) <= x
<1> DEFINE below == {l \in Levels : lo(c) <= l /\ l < x}
           p == prev_mapped(c, x)
<1>1. lo(c) \in SpeedLevels /\ hi(c) \in SpeedLevels /\ x \in SpeedLevels
  BY BoundsTyped DEF Settled
<1>2. x <= hi(c)
  BY DEF Settled
<1>3. p = IF below # {} THEN Max(below) ELSE x
  BY ClampFixes DEF prev_mapped
<1>4. below # {} => Max(below) \in below
  BY MaxOf, LevelsAssumption
<1> HIDE DEF p
<1> USE LevelsAssumption DEF SpeedLevels
<1>5. CASE below # {}
  <2>1. p \in Levels /\ lo(c) <= p /\ p < x
    BY <1>3, <1>4, <1>5
  <2>2. Settled(c, p)
    BY <1>1, <1>2, <2>1 DEF Settled
  <2>3. p <= x
    BY <1>1, <2>1
  <2> QED BY <2>2, <2>3 DEF p
<1>6. CASE below = {}
  BY <1>1, <1>3, <1>6 DEF p
<1> QED BY <1>5, <1>6

(* A fast downshift goes to a usable level or to the lower bound.          *)
LEMMA SnrLevelIs ==
  ASSUME NEW c \in Controllers, NEW snr
  PROVE  level_for_snr(c, snr) \in InRange(c) \cup {lo(c)}
<1> DEFINE adequate == {l \in InRange(c) : Floor[l] = None \/ snr >= Floor[l]}
<1>1. adequate # {} => Max(adequate) \in adequate
  BY MaxOf, LevelsAssumption DEF InRange
<1> QED BY <1>1 DEF level_for_snr

-----------------------------------------------------------------------------
(* One controller.                                                         *)

(* The anchor and the sending level are settled, and no mapped level lies  *)
(* between the anchor and a higher recommendation.                         *)
Sound(c) ==
  /\ c \in Controllers
  /\ Settled(c, c.rx_confirmed)
  /\ Settled(c, c.tx_level)
  /\ InRange(c) # {} => c.rx_recommended \in InRange(c) \cup {lo(c)}
  /\ \A l \in Levels : ~(c.rx_confirmed < l /\ l < c.rx_recommended)

(* A settled level is usable whenever there is a usable one.               *)
LEMMA SettledInRange ==
  ASSUME NEW c \in Controllers, NEW x, Settled(c, x), InRange(c) # {}
  PROVE  x \in InRange(c)
<1>1. lo(c) \in SpeedLevels /\ hi(c) \in SpeedLevels /\ x \in SpeedLevels
  BY BoundsTyped DEF Settled
<1>2. PICK l \in Levels : lo(c) <= l /\ l <= hi(c)
  BY DEF InRange
<1>3. lo(c) <= hi(c)
  BY <1>1, <1>2, LevelsAssumption DEF SpeedLevels
<1> QED BY <1>1, <1>3 DEF Settled, InRange

(* What a settled level means depends on the operator's bounds alone.      *)
LEMMA SameBounds ==
  ASSUME NEW c, NEW d, d.min_level = c.min_level, d.max_level = c.max_level
  PROVE  /\ lo(d) = lo(c) /\ hi(d) = hi(c) /\ InRange(d) = InRange(c)
         /\ \A x : Settled(d, x) <=> Settled(c, x)
         /\ \A x : clamp_mapped(d, x) = clamp_mapped(c, x)
         /\ \A x : next_mapped(d, x) = next_mapped(c, x)
         /\ \A x : prev_mapped(d, x) = prev_mapped(c, x)
<1>1. lo(d) = lo(c) /\ hi(d) = hi(c)
  BY DEF lo, hi
<1>2. InRange(d) = InRange(c)
  BY <1>1 DEF InRange
<1>3. \A x : Settled(d, x) <=> Settled(c, x)
  BY <1>1, <1>2 DEF Settled
<1>4. \A x : clamp_mapped(d, x) = clamp_mapped(c, x)
  BY <1>1, <1>2 DEF clamp_mapped
<1>5. \A x : next_mapped(d, x) = next_mapped(c, x)
  BY <1>1, <1>4 DEF next_mapped
<1>6. \A x : prev_mapped(d, x) = prev_mapped(c, x)
  BY <1>1, <1>4 DEF prev_mapped
<1> QED BY <1>1, <1>2, <1>3, <1>4, <1>5, <1>6

(* A frame moves the anchor and the recommendation; this is what it must   *)
(* leave behind.                                                           *)
LEMMA MoveSound ==
  ASSUME NEW c, Sound(c), NEW d \in Controllers,
         d.min_level = c.min_level, d.max_level = c.max_level, d.tx_level = c.tx_level,
         Settled(c, d.rx_confirmed),
         InRange(c) # {} => d.rx_recommended \in InRange(c) \cup {lo(c)},
         \A l \in Levels : ~(d.rx_confirmed < l /\ l < d.rx_recommended)
  PROVE  Sound(d)
<1>1. lo(d) = lo(c) /\ InRange(d) = InRange(c) /\ \A x : Settled(d, x) <=> Settled(c, x)
  BY SameBounds
<1> QED BY <1>1 DEF Sound

(* The streak counters saturate.                                           *)
LEMMA IncTyped ==
  ASSUME NEW n \in 0 .. CounterMax
  PROVE  /\ saturating_inc(n) \in 0 .. CounterMax
         /\ \A m \in 0 .. CounterMax : m <= n => saturating_inc(m) <= saturating_inc(n)
  BY ThresholdAssumption DEF saturating_inc

(* A fresh controller, at a mapped level and unbounded.                    *)
LEMMA NewSound == Sound(new)
<1>1. new \in Controllers
  BY LevelsAssumption, InitialAssumption, ThresholdAssumption DEF new, Controllers, Bounds
<1>2. new.min_level = None /\ new.max_level = None
  BY DEF new
<1>3. InRange(new) = Levels
  BY <1>1, <1>2, FreeRange
<1>4. Settled(new, InitialLevel)
  BY <1>3, InitialAssumption, LevelsAssumption DEF Settled, InRange
<1>5. \A l \in Levels : ~(InitialLevel < l /\ l < InitialLevel)
  BY InitialAssumption, LevelsAssumption DEF SpeedLevels
<1> QED BY <1>1, <1>3, <1>4, <1>5, InitialAssumption DEF Sound, new

(* Setting the failure streak, the anchor and the recommendation.          *)
Moved(c, i, x, y) ==
  [c EXCEPT !.rx_consecutive_nack = i, !.rx_confirmed = x, !.rx_recommended = y]

(* It sets these and nothing else.                                         *)
LEMMA MovedTyped ==
  ASSUME NEW c \in Controllers, NEW i \in 0 .. CounterMax,
         NEW x \in SpeedLevels, NEW y \in SpeedLevels
  PROVE  /\ Moved(c, i, x, y) \in Controllers
         /\ Moved(c, i, x, y).rx_confirmed = x
         /\ Moved(c, i, x, y).rx_recommended = y
         /\ Moved(c, i, x, y).rx_consecutive_nack = i
         /\ Moved(c, i, x, y).rx_consecutive_ok = c.rx_consecutive_ok
         /\ Moved(c, i, x, y).min_level = c.min_level
         /\ Moved(c, i, x, y).max_level = c.max_level
         /\ Moved(c, i, x, y).tx_level = c.tx_level
         /\ Moved(c, i, x, y).locked = c.locked
<1> DEFINE d1 == [c EXCEPT !.rx_consecutive_nack = i]
           d2 == [d1 EXCEPT !.rx_confirmed = x]
           d3 == [d2 EXCEPT !.rx_recommended = y]
<1>1. /\ d1 \in Controllers
      /\ d1.rx_consecutive_nack = i /\ d1.rx_consecutive_ok = c.rx_consecutive_ok
      /\ d1.min_level = c.min_level /\ d1.max_level = c.max_level
      /\ d1.tx_level = c.tx_level /\ d1.locked = c.locked
  BY DEF Controllers
<1> HIDE DEF d1
<1>2. /\ d2 \in Controllers /\ d2.rx_confirmed = x
      /\ d2.rx_consecutive_nack = i /\ d2.rx_consecutive_ok = c.rx_consecutive_ok
      /\ d2.min_level = c.min_level /\ d2.max_level = c.max_level
      /\ d2.tx_level = c.tx_level /\ d2.locked = c.locked
  BY <1>1 DEF Controllers
<1> HIDE DEF d2
<1>3. /\ d3 \in Controllers /\ d3.rx_confirmed = x /\ d3.rx_recommended = y
      /\ d3.rx_consecutive_nack = i /\ d3.rx_consecutive_ok = c.rx_consecutive_ok
      /\ d3.min_level = c.min_level /\ d3.max_level = c.max_level
      /\ d3.tx_level = c.tx_level /\ d3.locked = c.locked
  BY <1>2 DEF Controllers
<1> HIDE DEF d3
<1>4. d3 = Moved(c, i, x, y)
  BY Zenon DEF d1, d2, d3, Moved
<1> QED BY <1>3, <1>4

(* A failed frame leaves the anchor and the recommendation, lowers the     *)
(* recommendation to what the reading allows, or steps both down.          *)
LEMMA FailedIs ==
  ASSUME NEW c, Sound(c), NEW snr
  PROVE  LET d == on_rx_failed(c, snr).ctl
         IN  /\ d \in Controllers
             /\ d.min_level = c.min_level /\ d.max_level = c.max_level
             /\ d.tx_level = c.tx_level /\ d.locked = c.locked
             /\ c.locked = None =>
                  /\ d.rx_consecutive_ok = 0
                  /\ d.rx_consecutive_nack <= saturating_inc(c.rx_consecutive_nack)
             /\ \/ /\ d.rx_confirmed = c.rx_confirmed
                   /\ d.rx_recommended = c.rx_recommended
                \/ /\ snr # None
                   /\ d.rx_confirmed = c.rx_confirmed
                   /\ d.rx_recommended = level_for_snr(c, snr)
                   /\ d.rx_recommended < c.rx_recommended
                \/ /\ d.rx_confirmed = prev_mapped(c, c.rx_confirmed)
                   /\ d.rx_recommended = d.rx_confirmed
                   /\ saturating_inc(c.rx_consecutive_nack) >= NackThreshold
<1> DEFINE v == level_for_snr(c, snr)
           p == prev_mapped(c, c.rx_confirmed)
           f == [c EXCEPT !.rx_consecutive_ok = 0]
           n == [f EXCEPT !.rx_consecutive_nack = saturating_inc(@)]
           g == [f EXCEPT !.rx_consecutive_nack = 0]
           q == [g EXCEPT !.rx_recommended = v]
           d == on_rx_failed(c, snr).ctl
<1>0. 0 \in 0 .. CounterMax
  BY ThresholdAssumption
<1>1. c \in Controllers
  BY DEF Sound
<1>2. f \in Controllers /\ f.rx_consecutive_ok = 0
      /\ f.rx_consecutive_nack = c.rx_consecutive_nack
      /\ f.rx_confirmed = c.rx_confirmed /\ f.rx_recommended = c.rx_recommended
      /\ f.min_level = c.min_level /\ f.max_level = c.max_level
      /\ f.tx_level = c.tx_level /\ f.locked = c.locked
  BY <1>1, ThresholdAssumption DEF Controllers
<1>3. v \in SpeedLevels /\ p \in SpeedLevels
  BY <1>1, SnrLevelIs, BoundsTyped, PrevIs, LevelsAssumption DEF Sound, Settled, InRange
<1> HIDE DEF f, v, p
<1>4. n \in Controllers /\ n.rx_consecutive_ok = 0
      /\ n.rx_consecutive_nack = saturating_inc(c.rx_consecutive_nack)
      /\ n.rx_confirmed = c.rx_confirmed /\ n.rx_recommended = c.rx_recommended
      /\ n.min_level = c.min_level /\ n.max_level = c.max_level
      /\ n.tx_level = c.tx_level /\ n.locked = c.locked
  BY <1>2, IncTyped DEF Controllers
<1>5. g \in Controllers /\ g.rx_consecutive_ok = 0 /\ g.rx_consecutive_nack = 0
      /\ g.rx_confirmed = c.rx_confirmed
      /\ g.min_level = c.min_level /\ g.max_level = c.max_level
      /\ g.tx_level = c.tx_level /\ g.locked = c.locked
  BY <1>0, <1>2 DEF Controllers
<1> HIDE DEF g
<1>6. q \in Controllers /\ q.rx_consecutive_ok = 0 /\ q.rx_consecutive_nack = 0
      /\ q.rx_confirmed = c.rx_confirmed /\ q.rx_recommended = v
      /\ q.min_level = c.min_level /\ q.max_level = c.max_level
      /\ q.tx_level = c.tx_level /\ q.locked = c.locked
  BY <1>3, <1>5 DEF Controllers
<1> HIDE DEF n
<1>7. NackStepDown(n) = Moved(n, 0, p, p)
  <2>1. prev_mapped(n, n.rx_confirmed) = p
    BY <1>4, SameBounds DEF p
  <2> QED BY <2>1 DEF NackStepDown, Moved
<1>8. d = IF c.locked # None THEN c
          ELSE IF snr # None /\ v < c.rx_recommended THEN q
          ELSE IF n.rx_consecutive_nack >= NackThreshold THEN NackStepDown(n) ELSE n
  BY DEF on_rx_failed, Answer, n, f, g, v
<1> HIDE DEF d, q
<1>9. 0 <= n.rx_consecutive_nack /\ n.rx_consecutive_nack <= n.rx_consecutive_nack
  BY <1>4, ThresholdAssumption DEF Controllers
<1> QED BY <1>0, <1>1, <1>3, <1>4, <1>6, <1>7, <1>8, <1>9, MovedTyped DEF d, p, v

(* A decoded frame anchors the level it was decoded at and counts.         *)
LEMMA AnchorIs ==
  ASSUME NEW c \in Controllers, NEW level \in SpeedLevels
  PROVE  LET a == Anchor(c, level)
         IN  /\ a \in Controllers
             /\ a.min_level = c.min_level /\ a.max_level = c.max_level
             /\ a.tx_level = c.tx_level /\ a.locked = c.locked
             /\ a.rx_consecutive_nack = 0
             /\ a.rx_confirmed = clamp_mapped(c, level)
             /\ a.rx_consecutive_ok = IF clamp_mapped(c, level) = c.rx_confirmed
                                      THEN saturating_inc(c.rx_consecutive_ok) ELSE 1
<1> DEFINE k == clamp_mapped(c, level)
           i == IF k = c.rx_confirmed THEN saturating_inc(c.rx_consecutive_ok) ELSE 1
           a1 == [c EXCEPT !.rx_consecutive_nack = 0]
           a2 == [a1 EXCEPT !.rx_confirmed = k]
           a3 == [a2 EXCEPT !.rx_consecutive_ok = i]
<1>0. 0 \in 0 .. CounterMax /\ 1 \in 0 .. CounterMax
  BY ThresholdAssumption
<1>1. k \in SpeedLevels
  BY ClampIs DEF Settled
<1> HIDE DEF k
<1>2. i \in 0 .. CounterMax
  BY <1>0, IncTyped DEF Controllers
<1> HIDE DEF i
<1>3. /\ a1 \in Controllers
      /\ a1.min_level = c.min_level /\ a1.max_level = c.max_level
      /\ a1.tx_level = c.tx_level /\ a1.locked = c.locked
      /\ a1.rx_consecutive_nack = 0 /\ a1.rx_confirmed = c.rx_confirmed
      /\ a1.rx_consecutive_ok = c.rx_consecutive_ok
  BY <1>0 DEF Controllers
<1> HIDE DEF a1
<1>4. /\ a2 \in Controllers
      /\ a2.min_level = c.min_level /\ a2.max_level = c.max_level
      /\ a2.tx_level = c.tx_level /\ a2.locked = c.locked
      /\ a2.rx_consecutive_nack = 0 /\ a2.rx_confirmed = k
      /\ a2.rx_consecutive_ok = c.rx_consecutive_ok
  BY <1>1, <1>3 DEF Controllers
<1> HIDE DEF a2
<1>5. /\ a3 \in Controllers
      /\ a3.min_level = c.min_level /\ a3.max_level = c.max_level
      /\ a3.tx_level = c.tx_level /\ a3.locked = c.locked
      /\ a3.rx_consecutive_nack = 0 /\ a3.rx_confirmed = k
      /\ a3.rx_consecutive_ok = i
  BY <1>2, <1>4 DEF Controllers
<1>6. Anchor(c, level) = a3
  <2>1. a2.rx_consecutive_ok = c.rx_consecutive_ok
    BY Zenon, <1>4
  <2> QED BY <2>1 DEF Anchor, a1, a2, i, k
<1> HIDE DEF a3
<1> QED BY <1>5, <1>6 DEF i, k

(* A decoded frame recommends the anchor, or the next level up with a new  *)
(* count.                                                                  *)
LEMMA DecodedIs ==
  ASSUME NEW c \in Controllers, NEW level \in SpeedLevels, NEW snr, c.locked = None
  PROVE  LET d == on_rx_decoded(c, level, snr).ctl
         IN  /\ d \in Controllers
             /\ d.min_level = c.min_level /\ d.max_level = c.max_level
             /\ d.tx_level = c.tx_level /\ d.locked = c.locked
             /\ d.rx_consecutive_nack = 0
             /\ d.rx_confirmed = clamp_mapped(c, level)
             /\ \/ /\ d.rx_recommended = d.rx_confirmed
                   /\ d.rx_consecutive_ok = IF clamp_mapped(c, level) = c.rx_confirmed
                                            THEN saturating_inc(c.rx_consecutive_ok) ELSE 1
                \/ /\ d.rx_recommended = next_mapped(c, d.rx_confirmed)
                   /\ d.rx_recommended > d.rx_confirmed
                   /\ d.rx_consecutive_ok = 0
<1> DEFINE k == clamp_mapped(c, level)
           i == IF k = c.rx_confirmed THEN saturating_inc(c.rx_consecutive_ok) ELSE 1
           m == next_mapped(c, k)
           a == Anchor(c, level)
           held == [a EXCEPT !.rx_recommended = a.rx_confirmed]
           a1 == [a EXCEPT !.rx_recommended = m]
           up == [a1 EXCEPT !.rx_consecutive_ok = IF m # k THEN 0 ELSE a1.rx_consecutive_ok]
           d == on_rx_decoded(c, level, snr).ctl
<1>0. 0 \in 0 .. CounterMax
  BY ThresholdAssumption
<1>1. Settled(c, k)
  BY ClampIs
<1>2. k \in SpeedLevels /\ m \in SpeedLevels /\ k <= m
  BY <1>1, NextIs DEF Settled
<1>3. /\ a \in Controllers
      /\ a.min_level = c.min_level /\ a.max_level = c.max_level
      /\ a.tx_level = c.tx_level /\ a.locked = c.locked
      /\ a.rx_consecutive_nack = 0 /\ a.rx_confirmed = k /\ a.rx_consecutive_ok = i
  BY AnchorIs
<1>4. next_mapped(a, a.rx_confirmed) = m
  BY <1>3, SameBounds
<1> HIDE DEF k, i, m, a
<1>5. /\ held \in Controllers
      /\ held.min_level = c.min_level /\ held.max_level = c.max_level
      /\ held.tx_level = c.tx_level /\ held.locked = c.locked
      /\ held.rx_consecutive_nack = 0 /\ held.rx_confirmed = k
      /\ held.rx_recommended = k /\ held.rx_consecutive_ok = i
  BY <1>2, <1>3 DEF Controllers
<1>6. /\ a1 \in Controllers
      /\ a1.min_level = c.min_level /\ a1.max_level = c.max_level
      /\ a1.tx_level = c.tx_level /\ a1.locked = c.locked
      /\ a1.rx_consecutive_nack = 0 /\ a1.rx_confirmed = k
      /\ a1.rx_recommended = m /\ a1.rx_consecutive_ok = i
  BY <1>2, <1>3 DEF Controllers
<1>7. Climb(a) = up
  BY Zenon, <1>3, <1>4, <1>6 DEF Climb
<1> HIDE DEF a1
<1>8. /\ up \in Controllers
      /\ up.min_level = c.min_level /\ up.max_level = c.max_level
      /\ up.tx_level = c.tx_level /\ up.locked = c.locked
      /\ up.rx_consecutive_nack = 0 /\ up.rx_confirmed = k
      /\ up.rx_recommended = m /\ up.rx_consecutive_ok = IF m # k THEN 0 ELSE i
  BY <1>0, <1>6 DEF Controllers
<1> HIDE DEF held, up
<1>9. d = held \/ d = up
  <2>1. d \in {held, Climb(a)}
    BY DEF on_rx_decoded, Answer, a, held
  <2> QED BY <2>1, <1>7
<1>10. m = k \/ m > k
  BY <1>2, LevelsAssumption DEF SpeedLevels
<1> HIDE DEF d
<1> QED BY <1>5, <1>8, <1>9, <1>10 DEF d, k, i, m

(* A failed frame keeps a controller sound.                                *)
LEMMA FailedSound ==
  ASSUME NEW c, Sound(c), NEW snr
  PROVE  Sound(on_rx_failed(c, snr).ctl)
<1> DEFINE d == on_rx_failed(c, snr).ctl
           p == prev_mapped(c, c.rx_confirmed)
<1>1. /\ d \in Controllers
      /\ d.min_level = c.min_level /\ d.max_level = c.max_level /\ d.tx_level = c.tx_level
      /\ \/ d.rx_confirmed = c.rx_confirmed /\ d.rx_recommended = c.rx_recommended
         \/ /\ d.rx_confirmed = c.rx_confirmed
            /\ d.rx_recommended = level_for_snr(c, snr)
            /\ d.rx_recommended < c.rx_recommended
         \/ d.rx_confirmed = p /\ d.rx_recommended = p
  BY FailedIs
<1>2. /\ c \in Controllers /\ Settled(c, c.rx_confirmed)
      /\ InRange(c) # {} => c.rx_recommended \in InRange(c) \cup {lo(c)}
      /\ \A l \in Levels : ~(c.rx_confirmed < l /\ l < c.rx_recommended)
  BY DEF Sound
<1>3. Settled(c, p)
  BY Zenon, <1>2, PrevIs
<1> HIDE DEF d, p
<1>4. CASE d.rx_confirmed = c.rx_confirmed /\ d.rx_recommended = c.rx_recommended
  BY Zenon, <1>1, <1>2, <1>4, MoveSound DEF d
<1>5. CASE /\ d.rx_confirmed = c.rx_confirmed
           /\ d.rx_recommended = level_for_snr(c, snr)
           /\ d.rx_recommended < c.rx_recommended
  <2>1. d.rx_recommended \in InRange(c) \cup {lo(c)}
    BY <1>2, <1>5, SnrLevelIs
  <2>2. d.rx_recommended \in SpeedLevels /\ c.rx_recommended \in SpeedLevels
    BY <1>1, <1>2 DEF Controllers
  <2>3. \A l \in Levels : ~(d.rx_confirmed < l /\ l < d.rx_recommended)
    BY <1>2, <1>5, <2>2, LevelsAssumption DEF SpeedLevels
  <2> QED BY <1>1, <1>2, <1>5, <2>1, <2>3, MoveSound DEF d
<1>6. CASE d.rx_confirmed = p /\ d.rx_recommended = p
  <2>1. InRange(c) # {} => p \in InRange(c)
    BY <1>2, <1>3, SettledInRange
  <2>2. \A l \in Levels : ~(p < l /\ l < p)
    BY <1>3, LevelsAssumption DEF Settled, SpeedLevels
  <2> QED BY <1>1, <1>3, <1>6, <2>1, <2>2, MoveSound DEF d
<1> QED BY Zenon, <1>1, <1>4, <1>5, <1>6

(* So does a decoded one.                                                  *)
LEMMA DecodedSound ==
  ASSUME NEW c, Sound(c), NEW level \in SpeedLevels, NEW snr
  PROVE  Sound(on_rx_decoded(c, level, snr).ctl)
<1>0. c \in Controllers
  BY DEF Sound
<1>1. CASE c.locked # None
  BY Zenon, <1>1 DEF on_rx_decoded, Answer
<1>2. CASE c.locked = None
  <2> DEFINE d == on_rx_decoded(c, level, snr).ctl
             k == clamp_mapped(c, level)
  <2>1. /\ d \in Controllers
        /\ d.min_level = c.min_level /\ d.max_level = c.max_level /\ d.tx_level = c.tx_level
        /\ d.rx_confirmed = k
        /\ d.rx_recommended = k \/ d.rx_recommended = next_mapped(c, k)
    BY <1>0, <1>2, DecodedIs
  <2>2. Settled(c, k)
    BY <1>0, ClampIs
  <2> HIDE DEF d, k
  <2>3. Settled(c, next_mapped(c, k)) /\ \A l \in Levels : ~(k < l /\ l < next_mapped(c, k))
    BY <1>0, <2>2, NextIs
  <2>4. \A l \in Levels : ~(k < l /\ l < k)
    BY <2>2, LevelsAssumption DEF Settled, SpeedLevels
  <2>5. Settled(c, d.rx_recommended) /\ \A l \in Levels : ~(k < l /\ l < d.rx_recommended)
    BY <2>1, <2>2, <2>3, <2>4
  <2>6. InRange(c) # {} => d.rx_recommended \in InRange(c)
    BY <1>0, <2>5, SettledInRange
  <2> QED BY Zenon, <2>1, <2>2, <2>5, <2>6, MoveSound DEF d
<1> QED BY <1>1, <1>2

(* clamp_mapped puts no mapped level between two that had none.            *)
LEMMA ClampKeepsGap ==
  ASSUME NEW c \in Controllers, NEW x \in SpeedLevels, NEW y \in SpeedLevels,
         \A l \in Levels : ~(x < l /\ l < y)
  PROVE  \A l \in Levels : ~(clamp_mapped(c, x) < l /\ l < clamp_mapped(c, y))
<1> SUFFICES ASSUME NEW l \in Levels, clamp_mapped(c, x) < l, l < clamp_mapped(c, y)
             PROVE  FALSE
  OBVIOUS
<1> DEFINE kx == clamp_mapped(c, x)
           ky == clamp_mapped(c, y)
<1>1. Settled(c, kx) /\ Settled(c, ky)
  BY ClampIs
<1> HIDE DEF kx, ky
<1>2. /\ kx \in SpeedLevels /\ ky \in SpeedLevels
      /\ lo(c) \in SpeedLevels /\ hi(c) \in SpeedLevels
      /\ ky <= hi(c) /\ (lo(c) <= kx \/ kx = hi(c))
  BY <1>1, BoundsTyped DEF Settled
<1>3. kx < l /\ l < ky
  BY DEF kx, ky
<1> USE LevelsAssumption DEF SpeedLevels
<1>4. l \in InRange(c)
  BY <1>2, <1>3 DEF InRange
<1>5. (l <= x => l <= kx) /\ (y <= l => ky <= l)
  BY <1>4, ClampIs DEF kx, ky
<1>6. x < l /\ l < y
  BY <1>2, <1>3, <1>5
<1> QED BY <1>6

(* New bounds settle everything within them.                               *)
LEMMA BoundsSound ==
  ASSUME NEW c, Sound(c), NEW min \in Bounds, NEW max \in Bounds
  PROVE  Sound(set_level_bounds(c, min, max))
<1> DEFINE b1 == [c EXCEPT !.min_level = min]
           b == [b1 EXCEPT !.max_level = max]
           r == clamp_mapped(b, c.rx_recommended)
           k == clamp_mapped(b, c.rx_confirmed)
           t == clamp_mapped(b, c.tx_level)
           d1 == [b EXCEPT !.rx_recommended = r]
           d2 == [d1 EXCEPT !.rx_confirmed = k]
           d == [d2 EXCEPT !.tx_level = t]
<1>1. /\ c \in Controllers
      /\ \A l \in Levels : ~(c.rx_confirmed < l /\ l < c.rx_recommended)
      /\ c.rx_confirmed \in SpeedLevels /\ c.rx_recommended \in SpeedLevels
      /\ c.tx_level \in SpeedLevels
  BY DEF Sound, Controllers
<1>2. b1 \in Controllers
  BY <1>1 DEF Controllers
<1> HIDE DEF b1
<1>3. b \in Controllers
  BY <1>2 DEF Controllers
<1> HIDE DEF b
<1>4. Settled(b, r) /\ Settled(b, k) /\ Settled(b, t)
  BY <1>1, <1>3, ClampIs
<1>5. \A l \in Levels : ~(k < l /\ l < r)
  BY <1>1, <1>3, ClampKeepsGap
<1>6. r \in SpeedLevels /\ k \in SpeedLevels /\ t \in SpeedLevels
  BY <1>4 DEF Settled
<1> HIDE DEF r, k, t
<1>7. d1 \in Controllers /\ d1.rx_recommended = r
      /\ d1.min_level = b.min_level /\ d1.max_level = b.max_level
  BY <1>3, <1>6 DEF Controllers
<1> HIDE DEF d1
<1>8. d2 \in Controllers /\ d2.rx_recommended = r /\ d2.rx_confirmed = k
      /\ d2.min_level = b.min_level /\ d2.max_level = b.max_level
  BY <1>6, <1>7 DEF Controllers
<1> HIDE DEF d2
<1>9. d \in Controllers /\ d.rx_recommended = r /\ d.rx_confirmed = k /\ d.tx_level = t
      /\ d.min_level = b.min_level /\ d.max_level = b.max_level
  BY <1>6, <1>8 DEF Controllers
<1>10. set_level_bounds(c, min, max) = d
  BY DEF set_level_bounds, b1, b, r, k, t, d1, d2
<1> HIDE DEF d
<1>11. InRange(d) = InRange(b) /\ \A x : Settled(d, x) <=> Settled(b, x)
  BY <1>9, SameBounds
<1>12. InRange(d) # {} => r \in InRange(d)
  BY <1>3, <1>4, <1>11, SettledInRange
<1>13. Sound(d)
  BY <1>4, <1>5, <1>9, <1>11, <1>12 DEF Sound
<1> QED BY <1>10, <1>13

(* A lock holds every level at one that is settled.                        *)
LEMMA LockSound ==
  ASSUME NEW c, Sound(c), NEW level \in SpeedLevels
  PROVE  Sound(lock_level(c, level))
<1> DEFINE l0 == clamp_mapped(c, level)
           d1 == [c EXCEPT !.locked = l0]
           d2 == [d1 EXCEPT !.tx_level = l0]
           d3 == [d2 EXCEPT !.rx_recommended = l0]
           d == [d3 EXCEPT !.rx_confirmed = l0]
<1>1. c \in Controllers
  BY DEF Sound
<1>2. Settled(c, l0)
  BY <1>1, ClampIs
<1>3. l0 \in SpeedLevels /\ \A l \in Levels : ~(l0 < l /\ l < l0)
  BY <1>2, LevelsAssumption DEF Settled, SpeedLevels
<1> HIDE DEF l0
<1>4. d1 \in Controllers /\ d1.min_level = c.min_level /\ d1.max_level = c.max_level
  BY <1>1, <1>3 DEF Controllers, Bounds
<1> HIDE DEF d1
<1>5. d2 \in Controllers /\ d2.min_level = c.min_level /\ d2.max_level = c.max_level
      /\ d2.tx_level = l0
  BY <1>3, <1>4 DEF Controllers
<1> HIDE DEF d2
<1>6. d3 \in Controllers /\ d3.min_level = c.min_level /\ d3.max_level = c.max_level
      /\ d3.tx_level = l0 /\ d3.rx_recommended = l0
  BY <1>3, <1>5 DEF Controllers
<1> HIDE DEF d3
<1>7. d \in Controllers /\ d.min_level = c.min_level /\ d.max_level = c.max_level
      /\ d.tx_level = l0 /\ d.rx_recommended = l0 /\ d.rx_confirmed = l0
  BY <1>3, <1>6 DEF Controllers
<1>8. lock_level(c, level) = d
  BY Zenon DEF lock_level, l0, d1, d2, d3
<1> HIDE DEF d
<1>9. InRange(d) = InRange(c) /\ \A x : Settled(d, x) <=> Settled(c, x)
  BY <1>7, SameBounds
<1>10. InRange(d) # {} => l0 \in InRange(d)
  BY <1>1, <1>2, <1>9, SettledInRange
<1>11. Sound(d)
  BY <1>2, <1>3, <1>7, <1>9, <1>10 DEF Sound
<1> QED BY <1>8, <1>11

(* Neither unlocking nor a peer's recommendation unsettles anything.       *)
LEMMA AdoptSound ==
  ASSUME NEW c, Sound(c), NEW level \in SpeedLevels
  PROVE  Sound(unlock(c)) /\ Sound(adopt_recommendation(c, level))
<1>1. c \in Controllers
  BY DEF Sound
<1>2. Settled(c, clamp_mapped(c, level))
  BY <1>1, ClampIs
<1> DEFINE k == clamp_mapped(c, level)
           d == [c EXCEPT !.tx_level = k]
           u == [c EXCEPT !.locked = None]
<1>3. k \in SpeedLevels
  BY <1>2 DEF Settled
<1>4. u \in Controllers /\ u.min_level = c.min_level /\ u.max_level = c.max_level
      /\ u.tx_level = c.tx_level /\ u.rx_recommended = c.rx_recommended
      /\ u.rx_confirmed = c.rx_confirmed
  BY <1>1 DEF Controllers, Bounds
<1> HIDE DEF k
<1>5. d \in Controllers /\ d.min_level = c.min_level /\ d.max_level = c.max_level
      /\ d.tx_level = k /\ d.rx_recommended = c.rx_recommended
      /\ d.rx_confirmed = c.rx_confirmed
  BY <1>1, <1>3 DEF Controllers
<1> HIDE DEF d, u
<1>6. Sound(u)
  BY <1>4, MoveSound DEF Sound
<1>7. /\ lo(d) = lo(c) /\ InRange(d) = InRange(c) /\ \A x : Settled(d, x) <=> Settled(c, x)
  BY <1>5, SameBounds
<1>8. Sound(d)
  BY <1>2, <1>5, <1>7 DEF Sound, k
<1> QED BY <1>6, <1>8 DEF unlock, adopt_recommendation, d, u, k

-----------------------------------------------------------------------------
(* The controller under its operator, its decodes and its peer.            *)

(* Every method keeps the controller sound.                                *)
LEMMA CtlStepSound ==
  ASSUME Sound(ctl), [CtlNext]_ctlVars
  PROVE  Sound(ctl)'
<1>1. ASSUME NEW snr \in FailReadings, Failed(snr) PROVE Sound(ctl)'
  BY <1>1, FailedSound DEF Failed
<1>2. ASSUME NEW level \in Levels, NEW snr \in Readings, Decoded(level, snr) PROVE Sound(ctl)'
  BY <1>2, DecodedSound, LevelsAssumption DEF Decoded
<1>3. ASSUME NEW min \in Bounds, NEW max \in Bounds, SetLevelBounds(min, max) PROVE Sound(ctl)'
  BY <1>3, BoundsSound DEF SetLevelBounds, Command
<1>4. ASSUME NEW level \in SpeedLevels, LockLevel(level) PROVE Sound(ctl)'
  BY <1>4, LockSound DEF LockLevel, Command
<1>5. CASE Unlock
  BY <1>5, AdoptSound, InitialAssumption, LevelsAssumption DEF Unlock, Command
<1>6. ASSUME NEW level \in SpeedLevels, AdoptRecommendation(level) PROVE Sound(ctl)'
  BY <1>6, AdoptSound DEF AdoptRecommendation
<1>7. CASE UNCHANGED ctlVars
  BY <1>7 DEF ctlVars
<1> QED BY <1>1, <1>2, <1>3, <1>4, <1>5, <1>6, <1>7 DEF CtlNext

(* A sound controller's levels are usable.                                 *)
LEMMA SoundUsable ==
  ASSUME NEW c, Sound(c), InRange(c) # {}
  PROVE  /\ {c.rx_confirmed, c.tx_level} \subseteq InRange(c)
         /\ c.rx_recommended \in InRange(c) \cup {lo(c)}
         /\ c.rx_recommended <= next_mapped(c, c.rx_confirmed)
<1> DEFINE x == c.rx_confirmed
           r == c.rx_recommended
           n == next_mapped(c, x)
<1>1. /\ c \in Controllers /\ Settled(c, x) /\ Settled(c, c.tx_level)
      /\ r \in InRange(c) \cup {lo(c)}
      /\ \A l \in Levels : ~(x < l /\ l < r)
  BY DEF Sound
<1>2. x \in InRange(c) /\ c.tx_level \in InRange(c)
  BY <1>1, SettledInRange
<1>3. /\ Settled(c, n) /\ x <= n
      /\ \A l \in InRange(c) : x < l => x < n /\ n <= l
  BY <1>1, NextIs
<1>4. n \in InRange(c)
  BY <1>1, <1>3, SettledInRange
<1>5. x \in SpeedLevels /\ r \in SpeedLevels /\ n \in SpeedLevels /\ n \in Levels /\ lo(c) <= x
      /\ lo(c) \in SpeedLevels
  BY <1>1, <1>2, <1>4, BoundsTyped, LevelsAssumption DEF InRange, Controllers
<1> HIDE DEF x, r, n
<1>6. r <= n
  <2>1. CASE r <= x
    BY <1>3, <1>5, <2>1, LevelsAssumption DEF SpeedLevels
  <2>2. CASE x < r
    <3>1. r \in InRange(c)
      BY <1>1, <1>5, <2>2, LevelsAssumption DEF SpeedLevels
    <3>2. x < n /\ n <= r
      BY <1>3, <2>2, <3>1
    <3>3. ~(n < r)
      BY <1>1, <1>5, <3>2
    <3> QED BY <1>5, <3>3, LevelsAssumption DEF SpeedLevels
  <2> QED BY <1>5, <2>1, <2>2, LevelsAssumption DEF SpeedLevels
<1> QED BY <1>1, <1>2, <1>6 DEF x, r, n

(* For every ladder: whenever the operator's bounds leave a mapped level   *)
(* to use, the anchor and the sending level are mapped and within the      *)
(* bounds, so is the recommendation unless a fast downshift fell back to   *)
(* the lower bound, and it is at most one mapped step above the anchor, in *)
(* whatever order bounds, locks, frames and recommendations come           *)
(* (clamp_mapped, on_rx_frame).                                            *)
THEOREM LevelsStayUsable == CtlSpec => []LevelsUsable
<1>1. CtlInit => Sound(ctl)
  BY NewSound DEF CtlInit
<1>2. Sound(ctl) => LevelsUsable
  BY SoundUsable DEF LevelsUsable
<1> QED BY <1>1, <1>2, CtlStepSound, PTL DEF CtlSpec

(* Left to itself the controller has no bounds and no lock, and its two    *)
(* streaks count no more than happened.                                    *)
Unforced(c) == c.locked = None /\ c.min_level = None /\ c.max_level = None

CountInv ==
  /\ Sound(ctl)
  /\ clean \in 0 .. CounterMax
  /\ fails \in 0 .. CounterMax
  /\ manual \in BOOLEAN
  /\ ~manual => /\ Unforced(ctl)
                /\ ctl.rx_consecutive_ok <= clean
                /\ ctl.rx_consecutive_nack <= fails

(* Every frame and every recommendation keeps the counts.                  *)
LEMMA CountStep ==
  ASSUME CountInv, [CtlNext]_ctlVars
  PROVE  CountInv'
<1>0. Sound(ctl)'
  BY CtlStepSound DEF CountInv
<1>1. /\ ctl \in Controllers /\ Sound(ctl)
      /\ ctl.rx_consecutive_ok \in 0 .. CounterMax /\ ctl.rx_consecutive_nack \in 0 .. CounterMax
      /\ clean \in 0 .. CounterMax /\ fails \in 0 .. CounterMax /\ manual \in BOOLEAN
      /\ 0 \in 0 .. CounterMax /\ 1 \in 0 .. CounterMax
  BY ThresholdAssumption DEF CountInv, Sound, Controllers
<1>2. saturating_inc(clean) \in 0 .. CounterMax /\ saturating_inc(fails) \in 0 .. CounterMax
  BY <1>1, IncTyped
<1>3. ASSUME NEW snr \in FailReadings, Failed(snr) PROVE CountInv'
  <2>1. clean' = 0 /\ fails' = saturating_inc(fails) /\ manual' = manual
        /\ ctl' = on_rx_failed(ctl, snr).ctl
    BY Zenon, <1>3 DEF Failed
  <2>2. ASSUME ~manual
        PROVE  /\ Unforced(ctl')
               /\ ctl'.rx_consecutive_ok = 0
               /\ ctl'.rx_consecutive_nack <= saturating_inc(ctl.rx_consecutive_nack)
    BY <1>1, <2>1, <2>2, FailedIs DEF CountInv, Unforced
  <2>3. ASSUME ~manual PROVE ctl'.rx_consecutive_nack <= saturating_inc(fails)
    <3>1. ctl.rx_consecutive_nack <= fails
      BY <2>3 DEF CountInv
    <3>2. saturating_inc(ctl.rx_consecutive_nack) <= saturating_inc(fails)
          /\ saturating_inc(ctl.rx_consecutive_nack) \in 0 .. CounterMax
      BY <1>1, <3>1, IncTyped
    <3>3. ctl'.rx_consecutive_nack \in 0 .. CounterMax
      BY <1>0 DEF Sound, Controllers
    <3> QED BY <1>2, <2>2, <2>3, <3>2, <3>3, ThresholdAssumption
  <2>4. ASSUME ~manual PROVE ctl'.rx_consecutive_ok <= 0
    BY <2>2, <2>4
  <2> QED BY <1>0, <1>1, <1>2, <2>1, <2>2, <2>3, <2>4 DEF CountInv
<1>4. ASSUME NEW level \in Levels, NEW snr \in Readings, Decoded(level, snr) PROVE CountInv'
  <2> DEFINE k == clamp_mapped(ctl, level)
  <2>1. /\ ctl' = on_rx_decoded(ctl, level, snr).ctl
        /\ clean' = IF ctl'.rx_recommended > ctl'.rx_confirmed THEN 0
                    ELSE IF ctl'.rx_confirmed # ctl.rx_confirmed THEN 1
                    ELSE saturating_inc(clean)
        /\ fails' = 0 /\ manual' = manual
    BY Zenon, <1>4 DEF Decoded
  <2>2. ASSUME ~manual
        PROVE  /\ Unforced(ctl') /\ ctl'.rx_consecutive_nack = 0
               /\ ctl'.rx_confirmed = k
               /\ \/ /\ ctl'.rx_recommended = ctl'.rx_confirmed
                     /\ ctl'.rx_consecutive_ok = IF k = ctl.rx_confirmed
                          THEN saturating_inc(ctl.rx_consecutive_ok) ELSE 1
                  \/ /\ ctl'.rx_recommended > ctl'.rx_confirmed
                     /\ ctl'.rx_consecutive_ok = 0
    <3>1. level \in SpeedLevels /\ Unforced(ctl) /\ ctl.locked = None
      BY Zenon, <2>2, LevelsAssumption DEF CountInv, Unforced
    <3> QED BY ZenonT(30), <1>1, <2>1, <3>1, DecodedIs DEF Unforced
  <2>3. ASSUME ~manual PROVE ctl'.rx_consecutive_ok <= clean'
    <3>1. saturating_inc(ctl.rx_consecutive_ok) <= saturating_inc(clean)
      BY <1>1, <2>3, IncTyped DEF CountInv
    <3>2. ctl'.rx_recommended = ctl'.rx_confirmed => ~(ctl'.rx_recommended > ctl'.rx_confirmed)
      BY <1>0, LevelsAssumption DEF Sound, Controllers, SpeedLevels
    <3> HIDE DEF k
    <3> QED BY <2>1, <2>2, <2>3, <3>1, <3>2
  <2>4. clean' \in 0 .. CounterMax
    BY <1>1, <1>2, <2>1
  <2>5. ASSUME ~manual PROVE ctl'.rx_consecutive_nack <= 0
    BY <2>2, <2>5
  <2> QED BY Zenon, <1>0, <1>1, <2>1, <2>2, <2>3, <2>4, <2>5 DEF CountInv
<1>5. ASSUME manual' = TRUE, UNCHANGED <<clean, fails>> PROVE CountInv'
  BY <1>0, <1>1, <1>5 DEF CountInv
<1>6. ASSUME NEW level \in SpeedLevels, AdoptRecommendation(level) PROVE CountInv'
  <2> DEFINE d == [ctl EXCEPT !.tx_level = clamp_mapped(ctl, level)]
  <2>1. ctl' = ctl \/ ctl' = d
    BY <1>6 DEF AdoptRecommendation, adopt_recommendation
  <2>2. /\ d.locked = ctl.locked /\ d.min_level = ctl.min_level /\ d.max_level = ctl.max_level
        /\ d.rx_consecutive_ok = ctl.rx_consecutive_ok
        /\ d.rx_consecutive_nack = ctl.rx_consecutive_nack
    BY <1>1 DEF Controllers
  <2> HIDE DEF d
  <2> QED BY <1>0, <1>6, <2>1, <2>2 DEF AdoptRecommendation, CountInv, Unforced
<1>7. CASE UNCHANGED ctlVars
  BY <1>7 DEF ctlVars, CountInv
<1> QED
  BY Zenon, <1>3, <1>4, <1>5, <1>6, <1>7 DEF CtlNext, SetLevelBounds, LockLevel, Unlock, Command

(* With no reading to explain it, only a run of failures lowers the        *)
(* recommendation.                                                         *)
LEMMA FallIsEarned ==
  ASSUME CountInv, ~manual, Failed(None), ctl'.rx_recommended < ctl.rx_recommended
  PROVE  fails' >= NackThreshold
<1>1. /\ ctl \in Controllers /\ Sound(ctl)
      /\ ctl.rx_consecutive_nack \in 0 .. CounterMax /\ fails \in 0 .. CounterMax
      /\ ctl.rx_consecutive_nack <= fails
      /\ ctl.rx_recommended \in SpeedLevels
  BY DEF CountInv, Sound, Controllers
<1>2. ~(ctl.rx_recommended < ctl.rx_recommended)
  BY SMTT(30), <1>1, LevelsAssumption DEF SpeedLevels
<1>3. saturating_inc(ctl.rx_consecutive_nack) >= NackThreshold
  BY <1>1, <1>2, FailedIs DEF Failed
<1>4. /\ saturating_inc(ctl.rx_consecutive_nack) <= saturating_inc(fails)
      /\ saturating_inc(ctl.rx_consecutive_nack) \in 0 .. CounterMax
      /\ saturating_inc(fails) \in 0 .. CounterMax
  BY <1>1, IncTyped
<1> QED BY <1>3, <1>4, ThresholdAssumption DEF Failed

(* The hysteresis of on_rx_frame for every ladder, threshold and channel:  *)
(* the success streak never exceeds the clean decodes in a row at the      *)
(* anchor, and without a reading the rate falls only after NackThreshold   *)
(* failures in a row.                                                      *)
THEOREM HysteresisHolds == CtlSpec => HysteresisCounts
<1>1. CtlInit => CountInv
  <2>1. Unforced(new) /\ new.rx_consecutive_ok = 0 /\ new.rx_consecutive_nack = 0
    BY DEF Unforced, new
  <2> SUFFICES ASSUME CtlInit PROVE CountInv
    OBVIOUS
  <2>2. ctl = new /\ clean = 0 /\ fails = 0 /\ manual = FALSE
    BY DEF CtlInit
  <2>3. Sound(ctl) /\ Unforced(ctl) /\ ctl.rx_consecutive_ok = 0 /\ ctl.rx_consecutive_nack = 0
    BY <2>1, <2>2, NewSound
  <2>4. 0 \in 0 .. CounterMax /\ 0 <= 0
    BY ThresholdAssumption
  <2> QED BY Zenon, <2>2, <2>3, <2>4 DEF CountInv
<1>2. CountInv => (~manual => ctl.rx_consecutive_ok <= clean)
  BY DEF CountInv
<1> QED BY <1>1, <1>2, CountStep, FallIsEarned, PTL DEF CtlSpec, HysteresisCounts

-----------------------------------------------------------------------------
(* The link: neither station has an operator at its bounds.                *)

(* Without bounds every mapped level is settled, and next_mapped is the    *)
(* ladder's.                                                               *)
LEMMA UnforcedIs ==
  ASSUME NEW c \in Controllers, Unforced(c)
  PROVE  /\ InRange(c) = Levels
         /\ \A x \in Levels : Settled(c, x) /\ clamp_mapped(c, x) = x
         /\ \A x : next_mapped(c, x) = next_mapped(new, x)
         /\ lo(c) \in Levels
<1>1. InRange(c) = Levels
  BY FreeRange DEF Unforced
<1>2. \A x \in Levels : Settled(c, x)
  BY <1>1, LevelsAssumption DEF Settled, InRange
<1>3. \A x \in Levels : clamp_mapped(c, x) = x
  BY <1>2, ClampFixes
<1>4. new.min_level = None /\ new.max_level = None
  BY Zenon DEF new
<1>5. \A x : next_mapped(c, x) = next_mapped(new, x)
  BY <1>4, SameBounds DEF Unforced
<1>6. lo(c) \in Levels
  BY MinOf, LevelsAssumption DEF lo, Unforced
<1> QED BY <1>1, <1>2, <1>3, <1>5, <1>6

(* A higher level has a higher next one.                                   *)
LEMMA NextMonotone ==
  ASSUME NEW x \in Levels, NEW y \in Levels, x <= y
  PROVE  /\ next_mapped(new, x) <= next_mapped(new, y)
         /\ next_mapped(new, x) \in Levels /\ y <= next_mapped(new, y)
<1>1. new \in Controllers /\ Unforced(new)
  BY NewSound DEF Sound, Unforced, new
<1>2. InRange(new) = Levels /\ Settled(new, x) /\ Settled(new, y)
  BY <1>1, UnforcedIs
<1>3. /\ Settled(new, next_mapped(new, x)) /\ Settled(new, next_mapped(new, y))
      /\ y <= next_mapped(new, y)
      /\ x < y => next_mapped(new, x) <= y
  BY <1>1, <1>2, NextIs
<1>4. next_mapped(new, x) \in Levels /\ next_mapped(new, y) \in Levels
  BY <1>2, <1>3, LevelsAssumption DEF Settled
<1>5. x = y \/ x < y
  BY LevelsAssumption DEF SpeedLevels
<1>6. next_mapped(new, x) \in Int /\ next_mapped(new, y) \in Int /\ y \in Int
  BY <1>4, LevelsAreInts
<1>7. CASE x = y
  BY <1>3, <1>4, <1>6, <1>7
<1>8. CASE x < y
  BY <1>3, <1>4, <1>6, <1>8
<1> QED BY Zenon, <1>5, <1>7, <1>8

(* A station that adapts freely, and its recommendation.                   *)
Free(c) == Sound(c) /\ Unforced(c)

(* A station that adapts freely recommends at most the level above the one *)
(* it has confirmed.                                                       *)
LEMMA FreeRecommends ==
  ASSUME NEW c, Free(c)
  PROVE  /\ c \in Controllers
         /\ c.rx_confirmed \in Levels /\ c.rx_recommended \in Levels /\ c.tx_level \in Levels
         /\ c.rx_recommended <= next_mapped(new, c.rx_confirmed)
<1>1. c \in Controllers /\ Unforced(c) /\ Sound(c)
  BY DEF Free, Sound
<1>2. InRange(c) = Levels /\ lo(c) \in Levels /\ Levels # {}
      /\ next_mapped(c, c.rx_confirmed) = next_mapped(new, c.rx_confirmed)
  BY Zenon, <1>1, UnforcedIs, LevelsAssumption
<1> QED BY <1>1, <1>2, SoundUsable

(* The answer carries the new recommendation, and a failure is a NACK.     *)
LEMMA AnswerIs ==
  ASSUME NEW c, c.locked = None, NEW level, NEW snr
  PROVE  /\ on_rx_decoded(c, level, snr).recommended_level
              = on_rx_decoded(c, level, snr).ctl.rx_recommended
         /\ on_rx_failed(c, snr).recommended_level = on_rx_failed(c, snr).ctl.rx_recommended
         /\ on_rx_failed(c, snr).ack_type = "Nack"
<1>1. on_rx_failed(c, snr).recommended_level = on_rx_failed(c, snr).ctl.rx_recommended
      /\ on_rx_failed(c, snr).ack_type = "Nack"
  BY DEF on_rx_failed, Answer
<1>2. \A a, t, e : e # "Locked" =>
        Answer(a, t, e).recommended_level = a.rx_recommended /\ Answer(a, t, e).ctl = a
  BY DEF Answer
<1>3. on_rx_decoded(c, level, snr).recommended_level
              = on_rx_decoded(c, level, snr).ctl.rx_recommended
  BY <1>2 DEF on_rx_decoded
<1> QED BY <1>1, <1>3

(* An answer as it travels.                                                *)
Ack(t, l, late) == [ack_type |-> t, recommended_level |-> l, late |-> late]

(* What becomes of an answer that misses its window.                       *)
LEMMA LateAck ==
  ASSUME NEW r, NEW t, NEW l, NEW late, r = Ack(t, l, late)
  PROVE  [r EXCEPT !.late = TRUE] = Ack(t, l, TRUE)
<1>1. ASSUME NEW x PROVE [r EXCEPT !.late = x] = Ack(t, l, x)
  BY DEF Ack
<1> QED BY Zenon, <1>1

(* Both stations adapt freely; nothing the sender has or is about to hear  *)
(* is more than a mapped step above what the receiver has decoded; only a  *)
(* frame that got through is acknowledged; and outside its own window an   *)
(* answer is late.                                                         *)
EvidenceInv ==
  /\ Free(sender) /\ Free(receiver)
  /\ best \in Levels
  /\ receiver.rx_confirmed <= best
  /\ sender.tx_level <= next_mapped(new, best)
  /\ air # None => /\ \E t, l, late : air = Ack(t, l, late)
                   /\ pc = "window" \/ air.late
                   /\ air.recommended_level \in Levels
                   /\ air.recommended_level <= next_mapped(new, best)
                   /\ air.ack_type # "Nack" => got \/ air.late
  /\ stop = "Delivered" => pc = "idle" /\ (got \/ by_late)

(* The fields of a controller that a decoded burst leaves or confirms.     *)
LEMMA DecodedFields ==
  ASSUME NEW c \in Controllers, NEW level \in SpeedLevels, NEW snr, c.locked = None
  PROVE  LET d == on_rx_decoded(c, level, snr).ctl
         IN  /\ d.min_level = c.min_level /\ d.max_level = c.max_level
             /\ d.locked = c.locked /\ d.rx_confirmed = clamp_mapped(c, level)
<1> DEFINE d == on_rx_decoded(c, level, snr).ctl
<1>1. d.min_level = c.min_level /\ d.max_level = c.max_level /\ d.locked = c.locked
  BY DecodedIs
<1>2. d.rx_confirmed = clamp_mapped(c, level)
  BY DecodedIs
<1> QED BY Zenon, <1>1, <1>2

(* The receiver's controller after a decoded burst.                        *)
LEMMA HearDecodedIs ==
  ASSUME EvidenceInv, NEW snr, HearDecoded(snr)
  PROVE  /\ Free(receiver)'
         /\ receiver'.rx_confirmed = sender.tx_level
         /\ air'.recommended_level = receiver'.rx_recommended
         /\ \E t, l, late : air' = Ack(t, l, late)
<1> DEFINE x == sender.tx_level
           d == on_rx_decoded(receiver, x, snr).ctl
<1>1. x \in Levels /\ receiver' = d
      /\ air' = OnAir(on_rx_decoded(receiver, x, snr))
  BY DEF HearDecoded, rx_candidates
<1>8. /\ air'.recommended_level = on_rx_decoded(receiver, x, snr).recommended_level
      /\ \E t, l, late : air' = Ack(t, l, late)
  BY <1>1 DEF OnAir, Ack
<1>2. receiver \in Controllers /\ Sound(receiver) /\ Unforced(receiver)
  BY DEF EvidenceInv, Free, Sound
<1>3. x \in SpeedLevels
  BY <1>1, LevelsAssumption
<1>4. Sound(d)
  BY Zenon, <1>2, <1>3, DecodedSound
<1>5. Unforced(d) /\ d.rx_confirmed = clamp_mapped(receiver, x)
  <2>1. receiver.locked = None /\ receiver.min_level = None /\ receiver.max_level = None
    BY Zenon, <1>2 DEF Unforced
  <2>2. /\ d.min_level = receiver.min_level /\ d.max_level = receiver.max_level
        /\ d.locked = receiver.locked /\ d.rx_confirmed = clamp_mapped(receiver, x)
    BY Zenon, <1>2, <1>3, <2>1, DecodedFields
  <2> QED BY Zenon, <2>1, <2>2 DEF Unforced
<1>6. clamp_mapped(receiver, x) = x
  BY Zenon, <1>1, <1>2, UnforcedIs
<1>7. on_rx_decoded(receiver, x, snr).recommended_level = d.rx_recommended
  BY <1>2, AnswerIs DEF Unforced
<1> HIDE DEF d, x
<1> QED BY Zenon, <1>1, <1>4, <1>5, <1>6, <1>7, <1>8 DEF Free, x

(* And after a failed one.                                                 *)
LEMMA HearFailedIs ==
  ASSUME EvidenceInv, HearFailed
  PROVE  /\ Free(receiver)'
         /\ receiver'.rx_confirmed <= receiver.rx_confirmed
         /\ air' # None => /\ air'.recommended_level = receiver'.rx_recommended
                           /\ air'.ack_type = "Nack"
                           /\ \E t, l, late : air' = Ack(t, l, late)
<1> DEFINE a == on_rx_failed(receiver, None)
           d == a.ctl
<1>1. /\ receiver' = d
      /\ air' # None => air' = OnAir(a)
  BY DEF HearFailed
<1>7. air' # None => /\ air'.recommended_level = a.recommended_level
                     /\ air'.ack_type = a.ack_type
                     /\ \E t, l, late : air' = Ack(t, l, late)
  BY <1>1 DEF OnAir, Ack
<1>2. receiver \in Controllers /\ Sound(receiver) /\ Unforced(receiver)
      /\ Settled(receiver, receiver.rx_confirmed)
  BY Zenon DEF EvidenceInv, Free, Sound
<1>3. Sound(d)
  BY Zenon, <1>2, FailedSound
<1>4. /\ Unforced(d)
      /\ d.rx_confirmed \in {receiver.rx_confirmed, prev_mapped(receiver, receiver.rx_confirmed)}
  BY Zenon, <1>2, FailedIs DEF Unforced
<1>5. prev_mapped(receiver, receiver.rx_confirmed) <= receiver.rx_confirmed
      /\ receiver.rx_confirmed <= receiver.rx_confirmed
  BY <1>2, PrevIs, LevelsAreInts DEF Settled
<1>6. a.recommended_level = d.rx_recommended /\ a.ack_type = "Nack"
  BY <1>2, AnswerIs DEF Unforced
<1> HIDE DEF a, d
<1> QED BY Zenon, <1>1, <1>3, <1>4, <1>5, <1>6, <1>7 DEF Free

(* The sender's controller after an answer.                                *)
LEMMA HearAckIs ==
  ASSUME EvidenceInv, HearAck
  PROVE  Free(sender)' /\ sender'.tx_level = air.recommended_level
<1> DEFINE x == air.recommended_level
           d == [sender EXCEPT !.tx_level = clamp_mapped(sender, x)]
<1>1. x \in Levels /\ sender \in Controllers /\ Sound(sender) /\ Unforced(sender)
  BY DEF HearAck, EvidenceInv, Free, Sound
<1>2. clamp_mapped(sender, x) = x
  BY <1>1, UnforcedIs
<1>3. sender' = d /\ sender' = adopt_recommendation(sender, x)
  BY <1>1 DEF HearAck, adopt_recommendation, Unforced
<1>4. Sound(adopt_recommendation(sender, x))
  BY <1>1, AdoptSound, LevelsAssumption
<1>5. d.tx_level = x /\ Unforced(d)
  BY <1>1, <1>2 DEF Controllers, Unforced
<1> HIDE DEF d
<1> QED BY <1>3, <1>4, <1>5 DEF Free

(* No burst, answer, loss or retry makes the sender claim more.            *)
LEMMA EvidenceStep ==
  ASSUME EvidenceInv, [LinkNext]_linkVars
  PROVE  EvidenceInv'
<1> USE DEF senderVars, receiverVars
<1>1. ASSUME UNCHANGED <<sender, receiver, best, air, got>>, pc # "window",
             stop' # "Delivered"
      PROVE  EvidenceInv'
  BY <1>1 DEF EvidenceInv
<1>2. CASE Send
  BY <1>2 DEF Send, EvidenceInv
<1>3. CASE Transmit
  BY <1>1, <1>3 DEF Transmit, EvidenceInv
<1>4. CASE PttFault
  BY <1>1, <1>4 DEF PttFault, Finish
<1>5. CASE NotRadiated
  BY <1>1, <1>5 DEF NotRadiated, Nacked, Finish, EvidenceInv
<1>6. CASE Unheard
  BY <1>1, <1>6 DEF Unheard, EvidenceInv
<1>7. ASSUME NEW snr \in LinkReadings, HearDecoded(snr) PROVE EvidenceInv'
  <2> DEFINE x == sender.tx_level
  <2>1. x \in Levels /\ best \in Levels
    BY <1>7 DEF HearDecoded, rx_candidates, EvidenceInv
  <2>2. best' \in {best, x} /\ best' >= best /\ best' >= x
    <3>1. {best, x} \subseteq SpeedLevels /\ {best, x} # {}
      BY <2>1, LevelsAssumption
    <3>2. Max({best, x}) \in {best, x} /\ \A y \in {best, x} : Max({best, x}) >= y
      BY <3>1, MaxOf
    <3> QED BY <1>7, <3>2 DEF HearDecoded
  <2>3. Free(receiver)' /\ receiver'.rx_confirmed = x
        /\ air'.recommended_level = receiver'.rx_recommended
        /\ \E t, l, late : air' = Ack(t, l, late)
    BY <1>7, HearDecodedIs
  <2>4. receiver'.rx_recommended \in Levels /\ receiver'.rx_recommended <= next_mapped(new, x)
    BY <2>3, FreeRecommends
  <2>5. best' \in Levels /\ x <= best' /\ best <= best'
    BY <2>1, <2>2, LevelsAreInts
  <2>6. /\ next_mapped(new, x) <= next_mapped(new, best')
        /\ next_mapped(new, best) <= next_mapped(new, best')
        /\ next_mapped(new, x) \in Levels /\ next_mapped(new, best) \in Levels
    BY <2>1, <2>5, NextMonotone
  <2>7. next_mapped(new, best') \in Levels
    BY <2>5, LevelsAreInts, NextMonotone
  <2>8. receiver'.rx_recommended <= next_mapped(new, best')
    BY <2>4, <2>6, <2>7, LevelsAreInts
  <2>9. sender.tx_level <= next_mapped(new, best')
    BY <2>1, <2>6, <2>7, LevelsAreInts DEF EvidenceInv
  <2>10. got' = TRUE /\ pc' = "window" /\ stop' # "Delivered" /\ UNCHANGED sender
    BY <1>7 DEF HearDecoded, EvidenceInv
  <2> HIDE DEF x
  <2>11. Free(sender)'
    BY <2>10 DEF EvidenceInv
  <2> QED BY Zenon, <2>3, <2>4, <2>5, <2>8, <2>9, <2>10, <2>11 DEF EvidenceInv
<1>8. CASE HearFailed
  <2>1. Free(receiver)' /\ receiver'.rx_confirmed <= receiver.rx_confirmed
        /\ (air' # None => /\ air'.recommended_level = receiver'.rx_recommended
                           /\ air'.ack_type = "Nack"
                           /\ \E t, l, late : air' = Ack(t, l, late))
    BY <1>8, HearFailedIs
  <2>2. receiver'.rx_confirmed \in Levels /\ receiver'.rx_recommended \in Levels
        /\ receiver'.rx_recommended <= next_mapped(new, receiver'.rx_confirmed)
    BY <2>1, FreeRecommends
  <2>3. receiver.rx_confirmed \in Levels /\ best \in Levels /\ receiver.rx_confirmed <= best
    BY FreeRecommends DEF EvidenceInv
  <2>4. receiver'.rx_confirmed <= best
    BY <2>1, <2>2, <2>3, LevelsAreInts
  <2>5. /\ next_mapped(new, receiver'.rx_confirmed) <= next_mapped(new, best)
        /\ next_mapped(new, receiver'.rx_confirmed) \in Levels
    BY <2>2, <2>3, <2>4, NextMonotone
  <2>6. next_mapped(new, best) \in Levels
    BY <2>3, LevelsAreInts, NextMonotone
  <2>7. receiver'.rx_recommended <= next_mapped(new, best)
    BY <2>2, <2>5, <2>6, LevelsAreInts
  <2>8. pc' = "window" /\ stop' # "Delivered" /\ UNCHANGED <<sender, best, got>>
    BY <1>8 DEF HearFailed, EvidenceInv
  <2> QED BY <2>1, <2>2, <2>4, <2>7, <2>8 DEF EvidenceInv
<1>9. CASE HearAck
  <2>1. Free(sender)' /\ sender'.tx_level = air.recommended_level
    BY <1>9, HearAckIs
  <2>2. air # None /\ air' = None /\ UNCHANGED <<receiver, best, got>>
    BY <1>9 DEF HearAck
  <2>3. stop' = "Delivered" => pc' = "idle" /\ (got \/ by_late')
    BY <1>9, <2>2 DEF HearAck, Nacked, Finish, EvidenceInv
  <2> QED BY <2>1, <2>2, <2>3 DEF EvidenceInv
<1>10. CASE AckTimeout
  <2>1. UNCHANGED <<sender, receiver, best, got>> /\ stop' # "Delivered"
    BY <1>10 DEF AckTimeout, TimedOut, Finish, EvidenceInv
  <2>2. CASE air' = None
    BY <2>1, <2>2 DEF EvidenceInv
  <2>3. CASE air # None /\ air' = [air EXCEPT !.late = TRUE]
    <3>1. PICK t, l, late : air = Ack(t, l, late)
      BY Zenon, <2>3 DEF EvidenceInv
    <3>2. /\ air' = Ack(t, l, TRUE) /\ air'.late = TRUE
          /\ air'.recommended_level = air.recommended_level
      <4>1. air' = Ack(t, l, TRUE)
        BY Zenon, <2>3, <3>1, LateAck
      <4>2. air'.recommended_level = l /\ air'.late = TRUE
        BY <4>1 DEF Ack
      <4>3. air.recommended_level = l
        BY <3>1 DEF Ack
      <4> QED BY Zenon, <4>1, <4>2, <4>3
    <3> QED BY Zenon, <2>1, <2>3, <3>2 DEF EvidenceInv
  <2> QED BY <1>10, <2>2, <2>3 DEF AckTimeout
<1>11. CASE UNCHANGED linkVars
  BY <1>11 DEF linkVars, EvidenceInv
<1> QED
  BY Zenon, <1>2, <1>3, <1>4, <1>5, <1>6, <1>7, <1>8, <1>9, <1>10, <1>11 DEF LinkNext

(* The sender claims no more than the receiver has decoded, for every      *)
(* ladder, channel and number of retries: it is at most one mapped level   *)
(* above the best level ever decoded, and only a frame that got through,   *)
(* or an answer that had missed its window, ends a send as delivered       *)
(* (ota_send_with_ptt, OtaSendStop).                                       *)
THEOREM SenderClaimsNoMore == LinkSpec => []SenderHasEvidence
<1>1. LinkInit => EvidenceInv
  <2> SUFFICES ASSUME LinkInit PROVE EvidenceInv
    OBVIOUS
  <2>1. /\ sender = new /\ receiver = new /\ best = InitialLevel
        /\ stop = "none" /\ air = None
    BY Zenon DEF LinkInit
  <2>2. Free(new) /\ new.rx_confirmed = InitialLevel /\ new.tx_level = InitialLevel
    BY NewSound DEF Free, Unforced, new
  <2>3. InitialLevel \in Levels /\ InitialLevel <= InitialLevel
        /\ InitialLevel <= next_mapped(new, InitialLevel)
    BY InitialAssumption, LevelsAreInts, NextMonotone
  <2> QED BY <2>1, <2>2, <2>3 DEF EvidenceInv
<1>2. EvidenceInv => SenderHasEvidence
  <2> SUFFICES ASSUME EvidenceInv PROVE SenderHasEvidence
    OBVIOUS
  <2>1. next_mapped(receiver, best) = next_mapped(new, best)
    BY UnforcedIs DEF EvidenceInv, Free, Sound
  <2> QED BY <2>1 DEF EvidenceInv, SenderHasEvidence
<1> QED BY <1>1, <1>2, EvidenceStep, PTL DEF LinkSpec
=============================================================================
