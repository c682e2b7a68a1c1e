----------------------------- MODULE PttProofs ------------------------------
(***************************************************************************)
(* Safety of the shared PTT core for any set of callers, any deadline and  *)
(* any bound on the number of keys; then of the programs that key through  *)
(* it: what each does to the PTT state is what SharedPtt allows, so that   *)
(* its theorems hold for them too, what each promises about the keys it    *)
(* takes, and what holds at one transmitter whichever of them runs there.  *)
(***************************************************************************)
EXTENDS MCStation, TLAPS

-----------------------------------------------------------------------------
(* The core.                                                               *)

(* What the observers have been told.                                      *)
Edges == [on : BOOLEAN, odd : BOOLEAN]

(* Telling them of an edge.                                                *)
LEMMA Told ==
  ASSUME NEW up \in BOOLEAN, Tell(up)
  PROVE  shown' \in Edges /\ shown'.on = up
  BY DEF Tell, Edges

(* TypeOK without the guards, which most lock sections leave alone.        *)
InnerOK ==
  /\ rig \in BOOLEAN
  /\ asserted_at \in (0 .. MaxDuration) \cup {None}
  /\ stuck_warned \in BOOLEAN
  /\ generation \in Nat
  /\ held_by \in Labels
  /\ shown \in Edges
  /\ owner \in Owners

GuardOK == guard \in [Callers -> Guards]

(* A key taken by anyone keeps the fields in their types.                  *)
LEMMA KeyOkTyped ==
  ASSUME InnerOK, NEW who \in Labels, NEW obs \in BOOLEAN, NEW by \in Owners,
         KeyOk(who, obs, by)
  PROVE  InnerOK'
<1> USE MaxDurationAssumption
<1>1. rig' \in BOOLEAN /\ stuck_warned' \in BOOLEAN /\ shown' \in Edges
  BY Zenon, Told DEF InnerOK, KeyOk, HwAssert
<1>2. asserted_at' \in (0 .. MaxDuration) \cup {None} /\ generation' \in Nat
  BY DEF InnerOK, KeyOk
<1>3. held_by' \in Labels /\ owner' \in Owners
  BY DEF KeyOk
<1> QED BY <1>1, <1>2, <1>3 DEF InnerOK

(* A failed key touches at most the rig.                                   *)
LEMMA KeyFailsTyped == InnerOK /\ KeyFails => InnerOK'
  BY Zenon DEF InnerOK, KeyFails, HwAssert, inner

(* unkey, whatever the hardware answers.                                   *)
LEMMA UnkeyTyped ==
  ASSUME InnerOK, NEW obs \in BOOLEAN, unkey(obs)
  PROVE  InnerOK'
<1>1. rig' \in BOOLEAN /\ stuck_warned' \in BOOLEAN /\ shown' \in Edges
  BY Zenon, Told DEF InnerOK, unkey, UnkeyFails, UnkeyOk, HwRelease, inner
<1>2. asserted_at' \in (0 .. MaxDuration) \cup {None} /\ generation' \in Nat
  BY Zenon DEF InnerOK, unkey, UnkeyFails, UnkeyOk, inner
<1>3. held_by' \in Labels /\ owner' \in Owners
  BY Zenon DEF InnerOK, unkey, UnkeyFails, UnkeyOk, inner, Labels, Owners
<1> QED BY <1>1, <1>2, <1>3 DEF InnerOK

(* The operator's override.                                                *)
LEMMA ForceReleaseTyped ==
  ASSUME InnerOK, NEW obs \in BOOLEAN, force_release(obs)
  PROVE  InnerOK'
<1>1. rig' \in BOOLEAN /\ stuck_warned' \in BOOLEAN /\ shown' \in Edges
  BY Zenon, Told DEF InnerOK, force_release, UnkeyFails, ForceReleaseOk, HwRelease, inner
<1>2. asserted_at' \in (0 .. MaxDuration) \cup {None}
  BY Zenon DEF InnerOK, force_release, UnkeyFails, ForceReleaseOk, inner, armed
<1>4. generation' = generation \/ generation' = generation + 1
  BY Zenon DEF force_release, UnkeyFails, ForceReleaseOk, inner
<1>5. generation' \in Nat
  BY <1>4 DEF InnerOK
<1>3. held_by' \in Labels /\ owner' \in Owners
  BY Zenon DEF InnerOK, force_release, UnkeyFails, ForceReleaseOk, inner, Labels, Owners
<1> QED BY <1>1, <1>2, <1>3, <1>5 DEF InnerOK

(* The watchdog, whether the rig lets go or not.                           *)
LEMMA WatchdogTyped ==
  ASSUME InnerOK, Watchdog
  PROVE  InnerOK'
<1>1. rig' \in BOOLEAN /\ stuck_warned' \in BOOLEAN /\ shown' \in Edges
  BY Zenon, Told DEF InnerOK, Watchdog, ExpiredReleaseOk, ExpiredReleaseFails, HwRelease
<1>2. asserted_at' \in (0 .. MaxDuration) \cup {None}
  BY Zenon DEF InnerOK, Watchdog, ExpiredReleaseOk, ExpiredReleaseFails, Expired, armed
<1>4. generation' = generation \/ generation' = generation + 1
  BY Zenon DEF Watchdog, ExpiredReleaseOk, ExpiredReleaseFails
<1>5. generation' \in Nat
  BY <1>4 DEF InnerOK
<1>3. held_by' \in Labels /\ owner' \in Owners
  BY Zenon DEF InnerOK, Watchdog, ExpiredReleaseOk, ExpiredReleaseFails, Labels, Owners
<1> QED BY <1>1, <1>2, <1>3, <1>5 DEF InnerOK

(* Every lock section, of any caller, keeps the PTT state in its type.     *)
LEMMA TypeStep == TypeOK /\ [Next]_vars => TypeOK'
<1>1. InnerOK /\ GuardOK /\ [Next]_vars => InnerOK'
  <2> SUFFICES ASSUME InnerOK, GuardOK, [Next]_vars PROVE InnerOK'
    OBVIOUS
  <2>1. ASSUME NEW c \in Callers, NEW obs \in BOOLEAN, Keyed(c, obs) PROVE InnerOK'
    BY <2>1, KeyOkTyped DEF Keyed, Labels, Owners
  <2>2. ASSUME NEW c \in Callers, KeyedFails(c) PROVE InnerOK'
    BY <2>2, KeyFailsTyped DEF KeyedFails
  <2>3. ASSUME NEW c \in Callers, ReadGeneration(c) \/ UnkeyOwnedCheck(c) PROVE InnerOK'
    <3>1. UNCHANGED <<rig, inner, shown, owner>>
      BY <2>3 DEF ReadGeneration, UnkeyOwnedCheck
    <3> QED BY <3>1 DEF InnerOK, inner
  <2>4. ASSUME NEW c \in Callers, UnkeyOwnedAct(c) PROVE InnerOK'
    BY <2>4, UnkeyTyped DEF UnkeyOwnedAct, GuardOK, Guards
  <2>5. ASSUME NEW c \in Callers, Extend(c) PROVE InnerOK'
    BY <2>5, MaxDurationAssumption DEF Extend, InnerOK, is_owned, armed
  <2>6. CASE OperatorKey
    BY Zenon, <2>6, KeyOkTyped DEF OperatorKey, Labels, Owners
  <2>7. CASE OperatorRelease
    BY Zenon, <2>7, ForceReleaseTyped DEF OperatorRelease
  <2>8. CASE HostKey
    BY Zenon, <2>8, KeyOkTyped DEF HostKey, Labels, Owners
  <2>9. CASE UnguardedKeyFails
    BY <2>9, KeyFailsTyped DEF UnguardedKeyFails
  <2>10. ASSUME NEW obs \in BOOLEAN, HostUnkey(obs) PROVE InnerOK'
    BY <2>10, UnkeyTyped DEF HostUnkey
  <2>11. CASE Watchdog
    BY <2>11, WatchdogTyped
  <2>12. CASE Tick
    BY <2>12, MaxDurationAssumption DEF Tick, InnerOK, armed
  <2>13. CASE UNCHANGED vars
    BY <2>13 DEF vars, inner, InnerOK
  <2> QED
    BY <2>1, <2>2, <2>3, <2>4, <2>5, <2>6, <2>7, <2>8, <2>9, <2>10, <2>11, <2>12, <2>13
       DEF Next
<1>2. InnerOK /\ GuardOK /\ [Next]_vars => GuardOK'
  <2> SUFFICES ASSUME InnerOK, GuardOK, [Next]_vars PROVE GuardOK'
    OBVIOUS
  <2> USE DEF GuardOK, Guards
  <2>1. ASSUME NEW c \in Callers, NEW obs \in BOOLEAN, Keyed(c, obs) PROVE GuardOK'
    BY <2>1 DEF Keyed
  <2>2. ASSUME NEW c \in Callers, ReadGeneration(c) PROVE GuardOK'
    BY Zenon, <2>2 DEF ReadGeneration, InnerOK
  <2>3. ASSUME NEW c \in Callers, UnkeyOwnedCheck(c) PROVE GuardOK'
    BY <2>3 DEF UnkeyOwnedCheck, NoGuard
  <2>4. ASSUME NEW c \in Callers, UnkeyOwnedAct(c) PROVE GuardOK'
    BY <2>4 DEF UnkeyOwnedAct, NoGuard
  <2>5. CASE UNCHANGED guard
    BY <2>5
  <2> QED
    BY Zenon, <2>1, <2>2, <2>3, <2>4, <2>5
       DEF Next, KeyedFails, Extend, OperatorKey, OperatorRelease, HostKey,
           UnguardedKeyFails, HostUnkey, Watchdog, Tick, vars
<1>3. InnerOK /\ GuardOK <=> TypeOK
  BY DEF InnerOK, GuardOK, TypeOK, Edges
<1>4. InnerOK' /\ GuardOK' => TypeOK'
  BY DEF InnerOK, GuardOK, TypeOK, Edges
<1> QED BY Zenon, <1>1, <1>2, <1>3, <1>4

(* A fresh SharedPtt has its type.                                         *)
LEMMA TypeInit == Init => TypeOK
<1>1. Init => InnerOK
  <2>4. [on |-> FALSE, odd |-> FALSE] \in Edges
    BY DEF Edges
  <2>1. Init => rig \in BOOLEAN /\ stuck_warned \in BOOLEAN /\ shown \in Edges
    BY Zenon, <2>4 DEF Init
  <2>2. Init => asserted_at \in (0 .. MaxDuration) \cup {None} /\ generation \in Nat
    BY DEF Init
  <2>3. Init => held_by \in Labels /\ owner \in Owners
    BY DEF Init, Labels, Owners
  <2> QED BY <2>1, <2>2, <2>3 DEF InnerOK
<1>2. Init => GuardOK
  BY DEF Init, GuardOK, NoGuard, Guards
<1>3. InnerOK /\ GuardOK <=> TypeOK
  BY DEF InnerOK, GuardOK, TypeOK, Edges
<1> QED BY <1>1, <1>2, <1>3

(* The fields of the PTT state stay in their types: asserted_at never runs *)
(* past the saturated deadline, and no lock section produces an unknown    *)
(* holder or a malformed guard.                                            *)
THEOREM TypeCorrect == Spec => []TypeOK
  BY TypeInit, TypeStep, PTL DEF Spec

(* Every lock section keeps holder and deadline together.                  *)
LEMMA HolderStep == TypeOK /\ HolderIffArmed /\ [Next]_vars => HolderIffArmed'
<1> SUFFICES ASSUME TypeOK, HolderIffArmed, [Next]_vars PROVE HolderIffArmed'
  OBVIOUS
<1> USE NoneAssumption
<1>1. ASSUME NEW who, NEW obs, NEW by, KeyOk(who, obs, by), who # "nobody"
      PROVE  HolderIffArmed'
  BY <1>1 DEF KeyOk, HolderIffArmed, armed
<1>2. ASSUME UNCHANGED inner PROVE HolderIffArmed'
  BY <1>2 DEF inner, HolderIffArmed, armed
<1>3. ASSUME asserted_at' = None, held_by' = "nobody", stuck_warned' = FALSE
      PROVE  HolderIffArmed'
  BY <1>3 DEF HolderIffArmed, armed
<1>4. ASSUME armed, asserted_at' \in Nat \/ UNCHANGED asserted_at, UNCHANGED held_by
      PROVE  HolderIffArmed'
  BY <1>4 DEF HolderIffArmed, armed
<1>5. ASSUME NEW c \in Callers, NEW obs \in BOOLEAN, Keyed(c, obs) PROVE HolderIffArmed'
  BY <1>1, <1>5 DEF Keyed
<1>6. ASSUME NEW c \in Callers, Extend(c) PROVE HolderIffArmed'
  BY <1>4, <1>6 DEF Extend, is_owned
<1>7. CASE OperatorKey \/ HostKey
  BY Zenon, <1>1, <1>7 DEF OperatorKey, HostKey
<1>8. CASE KeyFails \/ UnkeyFails
  BY Zenon, <1>2, <1>8 DEF KeyFails, UnkeyFails
<1>9. ASSUME NEW obs, UnkeyOk(obs) \/ ForceReleaseOk(obs) PROVE HolderIffArmed'
  BY Zenon, <1>3, <1>9 DEF UnkeyOk, ForceReleaseOk
<1>10. CASE Watchdog
  BY Zenon, <1>3, <1>4, <1>10 DEF Watchdog, ExpiredReleaseOk, ExpiredReleaseFails, Expired
<1>11. CASE Tick
  <2>1. asserted_at' \in Nat
    BY <1>11, MaxDurationAssumption DEF Tick, TypeOK, armed
  <2> QED BY <1>4, <1>11, <2>1 DEF Tick
<1>12. ASSUME NEW c \in Callers, ReadGeneration(c) \/ UnkeyOwnedCheck(c)
       PROVE  HolderIffArmed'
  BY <1>2, <1>12 DEF ReadGeneration, UnkeyOwnedCheck
<1>13. CASE UNCHANGED vars
  BY <1>2, <1>13 DEF vars
<1> QED
  BY Zenon, <1>5, <1>6, <1>7, <1>8, <1>9, <1>10, <1>11, <1>12, <1>13
     DEF Next, KeyedFails, UnkeyOwnedAct, unkey, OperatorRelease, force_release,
         UnguardedKeyFails, HostUnkey

(* held_by and the armed deadline change together in every lock section,   *)
(* so key_as's refusal and PttAssert's idempotence read the live key; and  *)
(* a stuck rig the watchdog reported stays armed, so it is retried.        *)
THEOREM HolderTracksKey == Spec => []HolderIffArmed
<1>1. Init => HolderIffArmed
  BY DEF Init, HolderIffArmed, armed
<1> QED BY <1>1, HolderStep, TypeCorrect, PTL DEF Spec

(* Where a failed assert has no effect, no lock section keys the rig       *)
(* without arming it.                                                      *)
LEMMA KeyedStep ==
  ASSUME "reply_lost" \notin Faults
  PROVE  TypeOK /\ KeyedIsArmed /\ [Next]_vars => KeyedIsArmed'
<1> SUFFICES ASSUME TypeOK, KeyedIsArmed, [Next]_vars PROVE KeyedIsArmed'
  OBVIOUS
<1> USE NoneAssumption
<1>1. ASSUME NEW who, NEW obs, NEW by, KeyOk(who, obs, by) PROVE KeyedIsArmed'
  BY <1>1 DEF KeyOk, KeyedIsArmed, armed
<1>2. ASSUME rig' = rig, UNCHANGED asserted_at PROVE KeyedIsArmed'
  BY <1>2 DEF KeyedIsArmed, armed
<1>3. ASSUME rig' = FALSE PROVE KeyedIsArmed'
  BY <1>3 DEF KeyedIsArmed
<1>4. ASSUME asserted_at' \in Nat PROVE KeyedIsArmed'
  BY <1>4 DEF KeyedIsArmed, armed
<1>5. CASE KeyFails
  BY <1>2, <1>5 DEF KeyFails, HwAssert, inner
<1>6. CASE UnkeyFails
  BY <1>2, <1>6 DEF UnkeyFails, HwRelease, inner
<1>7. ASSUME NEW obs, UnkeyOk(obs) \/ ForceReleaseOk(obs) PROVE KeyedIsArmed'
  BY Zenon, <1>3, <1>7 DEF UnkeyOk, ForceReleaseOk, HwRelease
<1>8. CASE Watchdog
  BY Zenon, <1>2, <1>3, <1>8 DEF Watchdog, ExpiredReleaseOk, ExpiredReleaseFails, HwRelease
<1>9. CASE Tick
  BY <1>4, <1>9, MaxDurationAssumption DEF Tick, TypeOK, armed
<1>10. ASSUME NEW c \in Callers, Extend(c) PROVE KeyedIsArmed'
  BY <1>4, <1>10 DEF Extend
<1>11. ASSUME NEW c \in Callers, ReadGeneration(c) \/ UnkeyOwnedCheck(c)
       PROVE  KeyedIsArmed'
  BY <1>2, <1>11 DEF ReadGeneration, UnkeyOwnedCheck, inner
<1>12. CASE UNCHANGED vars
  BY <1>2, <1>12 DEF vars, inner
<1> QED
  BY Zenon, <1>1, <1>5, <1>6, <1>7, <1>8, <1>9, <1>10, <1>11, <1>12
     DEF Next, Keyed, KeyedFails, UnkeyOwnedAct, unkey, OperatorKey, OperatorRelease,
         force_release, HostKey, UnguardedKeyFails, HostUnkey

(* On a PTT backend whose failed assert has no effect (the serial, GPIO    *)
(* and CM108 controllers, which wait for no reply), a keyed transmitter is *)
(* always armed, so the watchdog can always reach it.                      *)
THEOREM KeyedRigIsArmed ==
  ASSUME "reply_lost" \notin Faults
  PROVE  Spec => []KeyedIsArmed
<1>1. Init => KeyedIsArmed
  BY DEF Init, KeyedIsArmed
<1> QED BY <1>1, KeyedStep, TypeCorrect, PTL DEF Spec

(* The history variable owner names the live key's holder: nobody exactly  *)
(* while no key is armed.                                                  *)
OwnerIffArmed == armed <=> owner # "nobody"

(* Every lock section keeps it so.                                         *)
LEMMA OwnerStep == TypeOK /\ OwnerIffArmed /\ [Next]_vars => OwnerIffArmed'
<1> SUFFICES ASSUME TypeOK, OwnerIffArmed, [Next]_vars PROVE OwnerIffArmed'
  OBVIOUS
<1> USE NoneAssumption
<1>1. ASSUME NEW who, NEW obs, NEW by, KeyOk(who, obs, by), by # "nobody"
      PROVE  OwnerIffArmed'
  BY <1>1 DEF KeyOk, OwnerIffArmed, armed
<1>2. ASSUME UNCHANGED <<asserted_at, owner>> PROVE OwnerIffArmed'
  BY <1>2 DEF OwnerIffArmed, armed
<1>3. ASSUME asserted_at' = None, owner' = "nobody" PROVE OwnerIffArmed'
  BY <1>3 DEF OwnerIffArmed, armed
<1>4. ASSUME armed, asserted_at' \in Nat, UNCHANGED owner PROVE OwnerIffArmed'
  BY <1>4 DEF OwnerIffArmed, armed
<1>5. ASSUME NEW c \in Callers, NEW obs \in BOOLEAN, Keyed(c, obs) PROVE OwnerIffArmed'
  BY <1>1, <1>5, CallersAssumption DEF Keyed
<1>6. ASSUME NEW c \in Callers, Extend(c) PROVE OwnerIffArmed'
  BY <1>4, <1>6 DEF Extend, is_owned
<1>7. CASE OperatorKey \/ HostKey
  BY Zenon, <1>1, <1>7 DEF OperatorKey, HostKey
<1>8. CASE KeyFails \/ UnkeyFails
  BY Zenon, <1>2, <1>8 DEF KeyFails, UnkeyFails, inner
<1>9. ASSUME NEW obs, UnkeyOk(obs) \/ ForceReleaseOk(obs) PROVE OwnerIffArmed'
  BY Zenon, <1>3, <1>9 DEF UnkeyOk, ForceReleaseOk
<1>10. CASE Watchdog
  BY Zenon, <1>2, <1>3, <1>10 DEF Watchdog, ExpiredReleaseOk, ExpiredReleaseFails
<1>11. CASE Tick
  <2>1. asserted_at' \in Nat
    BY <1>11, MaxDurationAssumption DEF Tick, TypeOK, armed
  <2> QED BY <1>4, <1>11, <2>1 DEF Tick
<1>12. ASSUME NEW c \in Callers, ReadGeneration(c) \/ UnkeyOwnedCheck(c)
       PROVE  OwnerIffArmed'
  BY <1>2, <1>12 DEF ReadGeneration, UnkeyOwnedCheck, inner
<1>13. CASE UNCHANGED vars
  BY <1>2, <1>13 DEF vars, inner
<1> QED
  BY Zenon, <1>5, <1>6, <1>7, <1>8, <1>9, <1>10, <1>11, <1>12, <1>13
     DEF Next, KeyedFails, UnkeyOwnedAct, unkey, OperatorRelease, force_release,
         UnguardedKeyFails, HostUnkey

(* So it always is.                                                        *)
LEMMA OwnerTracksKey == Spec => []OwnerIffArmed
<1>1. Init => OwnerIffArmed
  BY DEF Init, OwnerIffArmed, armed
<1> QED BY <1>1, OwnerStep, TypeCorrect, PTL DEF Spec

-----------------------------------------------------------------------------
(* What a step may do to the deadline and to the observers' view.          *)

(* A step that leaves a key armed and its deadline earlier is an extend by *)
(* the guard of the live generation.                                       *)
LEMMA StepKeepsDeadline ==
  ASSUME TypeOK, Next, armed, armed', asserted_at' < asserted_at
  PROVE  \E c \in Callers : Extend(c)
<1> USE NoneAssumption
<1>1. asserted_at \in Nat /\ ~(asserted_at < asserted_at) /\ ~(asserted_at + 1 < asserted_at)
  BY MaxDurationAssumption DEF TypeOK, armed
<1>2. asserted_at' # asserted_at /\ asserted_at' # asserted_at + 1
  BY <1>1
<1>3. asserted_at' # None
  BY DEF armed
<1>4. ~Tick /\ ~Watchdog
  BY Zenon, <1>2, <1>3 DEF Tick, Watchdog, ExpiredReleaseOk, ExpiredReleaseFails
<1>5. ~KeyFails /\ ~UnkeyFails /\ \A obs : ~UnkeyOk(obs) /\ ~ForceReleaseOk(obs)
  BY Zenon, <1>2, <1>3 DEF KeyFails, UnkeyFails, UnkeyOk, ForceReleaseOk, inner
<1>6. \A who, obs, by : ~KeyOk(who, obs, by)
  BY DEF KeyOk
<1>7. \A c \in Callers : ~ReadGeneration(c) /\ ~UnkeyOwnedCheck(c)
  BY <1>2 DEF ReadGeneration, UnkeyOwnedCheck, inner
<1> QED
  BY Zenon, <1>4, <1>5, <1>6, <1>7
     DEF Next, Keyed, KeyedFails, UnkeyOwnedAct, unkey, OperatorKey, OperatorRelease,
         force_release, HostKey, UnguardedKeyFails, HostUnkey

(* The watchdog's deadline moves back only for the guard whose generation  *)
(* is the live key's (extend_owned): nobody else, and no repeated key,     *)
(* postpones the release of a hung transmitter.                            *)
THEOREM OnlyHolderExtends == Spec => DeadlineMovedByHolder
<1>1. TypeOK /\ [Next]_vars =>
        [armed /\ armed' /\ asserted_at' < asserted_at
           => \E c \in Callers : guard[c].st = "live" /\ is_owned(guard[c])]_vars
  BY StepKeepsDeadline DEF Extend
<1> QED BY <1>1, TypeCorrect, PTL DEF Spec, DeadlineMovedByHolder

(* The observers are told of an edge only with the key: no key is          *)
(* announced twice and no release that found nothing keyed at all.         *)
LEMMA StepShowsTransition ==
  ASSUME TypeOK, Next
  PROVE  EdgeIsTransition
<1> USE NoneAssumption
<1>1. \A who, by : \A obs \in BOOLEAN : KeyOk(who, obs, by) => EdgeIsTransition
  <2>1. 0 # None
    OBVIOUS
  <2> QED BY Zenon, <2>1, Told DEF KeyOk, EdgeIsTransition, armed
<1>2. UNCHANGED shown => EdgeIsTransition
  BY DEF EdgeIsTransition
<1>3. \A obs \in BOOLEAN : UnkeyOk(obs) \/ ForceReleaseOk(obs) => EdgeIsTransition
  BY Zenon, Told DEF UnkeyOk, ForceReleaseOk, EdgeIsTransition, armed
<1>4. Watchdog => EdgeIsTransition
  BY Zenon, <1>2, Told DEF Watchdog, ExpiredReleaseOk, ExpiredReleaseFails, Expired,
              EdgeIsTransition, armed
<1>5. \A c \in Callers : guard[c].obs \in BOOLEAN
  BY DEF TypeOK, Guards
<1> QED
  BY Zenon, <1>1, <1>2, <1>3, <1>4, <1>5
     DEF Next, Keyed, KeyedFails, UnkeyOwnedAct, unkey, OperatorKey, OperatorRelease,
         force_release, HostKey, UnguardedKeyFails, HostUnkey, KeyFails, UnkeyFails,
         ReadGeneration, UnkeyOwnedCheck, Extend, Tick

(* Observers see a true edge only for a key that was just taken and a      *)
(* false edge only for one that just ended, whichever threads, commands    *)
(* and timeouts race (unkey, force_release, force_release_if_expired).     *)
THEOREM EdgesFollowKey == Spec => [][EdgeIsTransition]_vars
  BY StepShowsTransition, TypeCorrect, PTL DEF Spec

-----------------------------------------------------------------------------
(* The TNC.                                                                *)

(* What a worker or connection does to the PTT state is one lock section   *)
(* of SharedPtt, or nothing.                                               *)
LEMMA ArdopStep ==
  ASSUME [ArdopNext]_ardopVars
  PROVE  [Next]_vars
<1>1. CASE WorkerStep
  BY Zenon, <1>1, WorkerAssumption DEF WorkerStep, Next
<1>2. CASE WatchdogStep \/ PttTrue \/ PttTrueFails \/ PttFalse
  BY Zenon, <1>2 DEF WatchdogStep, PttTrue, PttTrueFails, PttFalse, Next
<1>3. CASE StoreTrue \/ StoreFalse
  BY <1>3 DEF StoreTrue, StoreFalse
<1>4. ASSUME NEW c \in Clients,
             \/ Disconnect(c) \/ DisconnectCheck(c) \/ DisconnectUnkey(c)
             \/ DisconnectClear(c) \/ Connect(c)
      PROVE  [Next]_vars
  BY Zenon, <1>4 DEF Disconnect, DisconnectCheck, DisconnectUnkey, DisconnectClear, Connect, Next
<1>5. CASE UNCHANGED ardopVars
  BY <1>5 DEF ardopVars
<1> QED BY <1>1, <1>2, <1>3, <1>4, <1>5 DEF ArdopNext

(* The TNC implements SharedPtt's most general client, with any number of  *)
(* command connections.                                                    *)
THEOREM TncImplementsSharedPtt == ArdopSpec => Spec
<1>1. ArdopInit => Init
  BY DEF ArdopInit
<1> QED BY <1>1, ArdopStep, PTL DEF ArdopSpec, Spec

(* The lock sections that end a key of the host's, or leave it.            *)
LEMMA UnkeyEnds ==
  ASSUME OwnerIffArmed, NEW obs, HostUnkey(obs)
  PROVE  owner' = "nobody" \/ (owner' = owner /\ (armed' <=> armed))
  BY Zenon DEF HostUnkey, unkey, UnkeyOk, UnkeyFails, inner, armed

(* The watchdog and the clock end a key and give nobody one.               *)
LEMMA WatchdogEnds ==
  ASSUME Watchdog \/ Tick
  PROVE  owner' = "nobody" \/ owner' = owner
  BY Zenon DEF Watchdog, Tick, ExpiredReleaseOk, ExpiredReleaseFails

(* The transmit worker takes the key for itself or gives it up.            *)
LEMMA WorkerTakes ==
  ASSUME WorkerStep
  PROVE  owner' \in {"nobody", Worker, owner}
  BY Zenon DEF WorkerStep, Keyed, KeyOk, KeyedFails, KeyFails, ReadGeneration, UnkeyOwnedCheck,
         UnkeyOwnedAct, unkey, UnkeyOk, UnkeyFails

(* The host's key is marked as the host's, or about to be, as long as its  *)
(* connection stands; from then on it is on its way down.                  *)
HostKeyInv ==
  /\ conn \in [Clients -> ConnStates]
  /\ owner = "host" /\ ~refused /\ ~unmarked =>
       \/ conn[Host] = "store_true"
       \/ manual_keyed /\ conn[Host] \in {"ready", "leaving", "unkeying"}

(* A host that vanishes while it holds the key takes the key with it, with *)
(* any number of command connections, unless the rig refused the release   *)
(* or the end of another connection cleared manual_keyed after the host    *)
(* had taken the key (release_ptt_on_disconnect).                          *)
THEOREM VanishedHostHoldsNoKey == ArdopSpec => []GoneHostHoldsNoKey
<1>1. ArdopInit => HostKeyInv
  BY DEF ArdopInit, Init, HostKeyInv, ConnStates
<1>2. OwnerIffArmed /\ HostKeyInv /\ [ArdopNext]_ardopVars => HostKeyInv'
  <2> SUFFICES ASSUME OwnerIffArmed, HostKeyInv, [ArdopNext]_ardopVars PROVE HostKeyInv'
    OBVIOUS
  <2>1. Worker # "host"
    BY WorkerAssumption, CallersAssumption
  <2>2. CASE WorkerStep
    BY Zenon, <2>1, <2>2, WorkerTakes DEF WorkerStep, HostKeyInv
  <2>3. CASE WatchdogStep
    BY <2>3, WatchdogEnds DEF WatchdogStep, HostKeyInv
  <2>4. CASE PttTrue
    <3>1. conn' \in [Clients -> ConnStates] /\ conn'[Host] = "store_true"
      BY <2>4, HostAssumption DEF PttTrue, HostKeyInv, ConnStates
    <3> QED BY Zenon, <3>1 DEF HostKeyInv
  <2>5. CASE PttTrueFails
    BY <2>5 DEF PttTrueFails, UnguardedKeyFails, KeyFails, HostKeyInv
  <2>6. CASE StoreTrue
    BY <2>6 DEF StoreTrue, HostKeyInv, ConnStates, vars
  <2>7. CASE PttFalse
    BY Zenon, <2>7, UnkeyEnds DEF PttFalse, HostKeyInv, ConnStates, OwnerIffArmed
  <2>8. CASE StoreFalse
    BY <2>8 DEF StoreFalse, HostKeyInv, ConnStates, vars
  <2>9. ASSUME NEW c \in Clients, Disconnect(c) PROVE HostKeyInv'
    BY <2>9 DEF Disconnect, HostKeyInv, ConnStates, vars
  <2>10. ASSUME NEW c \in Clients, DisconnectCheck(c) PROVE HostKeyInv'
    BY <2>10 DEF DisconnectCheck, HostKeyInv, ConnStates, vars, OwnerIffArmed
  <2>11. ASSUME NEW c \in Clients, DisconnectUnkey(c) PROVE HostKeyInv'
    BY Zenon, <2>11, UnkeyEnds DEF DisconnectUnkey, HostKeyInv, ConnStates, OwnerIffArmed
  <2>12. ASSUME NEW c \in Clients, DisconnectClear(c) PROVE HostKeyInv'
    BY <2>12 DEF DisconnectClear, HostKeyInv, ConnStates, vars
  <2>13. ASSUME NEW c \in Clients, Connect(c) PROVE HostKeyInv'
    BY <2>13 DEF Connect, HostKeyInv, ConnStates, vars
  <2>14. CASE UNCHANGED ardopVars
    BY <2>14 DEF ardopVars, vars, HostKeyInv
  <2> QED
    BY <2>2, <2>3, <2>4, <2>5, <2>6, <2>7, <2>8, <2>9, <2>10, <2>11, <2>12, <2>13, <2>14
       DEF ArdopNext
<1>3. HostKeyInv => GoneHostHoldsNoKey
  BY DEF HostKeyInv, GoneHostHoldsNoKey
<1> QED BY <1>1, <1>2, <1>3, TncImplementsSharedPtt, OwnerTracksKey, PTL DEF ArdopSpec

-----------------------------------------------------------------------------
(* The repeater.                                                           *)

(* What the relay thread and the event loop do to rig_b's PTT state is one *)
(* lock section of SharedPtt, or nothing.                                  *)
LEMMA RepStep ==
  ASSUME [RepNext]_repVars
  PROVE  [Next]_vars
<1>1. CASE Acquire
  BY Zenon, <1>1, RelayAssumption
     DEF Acquire, ReuseKey, DropExpired, TakeKey, NoKey, Next
<1>2. CASE Stamp
  BY <1>2, RelayAssumption DEF Stamp, Next
<1>3. CASE Release
  BY <1>3, RelayAssumption DEF Release, Next
<1>4. CASE RepWatchdog
  BY <1>4 DEF RepWatchdog, Next
<1>5. CASE UNCHANGED vars
  BY <1>5
<1> QED
  BY Zenon, <1>1, <1>2, <1>3, <1>4, <1>5
     DEF RepNext, ThreadStep, Drain, StopSeen, TakeBurst, SendBurst, SendFails, Exit,
         OfferBurst, EnableRepeater, AnnounceEnabled, DisableRepeater, Join, RepClock,
         repVars

(* The repeater implements SharedPtt's most general client.                *)
THEOREM RepeaterImplementsSharedPtt == RepSpec => Spec
<1>1. RepInit => Init
  BY DEF RepInit
<1> QED BY <1>1, RepStep, PTL DEF RepSpec, Spec

(* The relay thread is rig_b's only client, and a key of its that is live  *)
(* and was not refused its release has a guard that answers for it.        *)
RelayKeyInv ==
  /\ \A c \in Callers : c # Relay => guard[c] = NoGuard
  /\ owner \in {Relay, "nobody"}
  /\ guard[Relay].st = "none" => guard[Relay] = NoGuard
  /\ thread \in {"off", "drain", "done"} => guard[Relay] = NoGuard
  /\ owner = Relay /\ guard[Relay] = NoGuard => rep_refused
  /\ owner = Relay /\ guard[Relay].st \in {"live", "checked"} => guard[Relay].gen = generation

(* A burst that is received is transmitted, given up, or the session's     *)
(* last.                                                                   *)
LEMMA BurstGoes == TakeBurst => thread' \in {"wait", "failed", "acquire"}
<1>1. ASSUME NEW v \in Verdicts PROVE v.to \in {"wait", "failed", "acquire"}
  BY DEF Verdicts
<1> QED BY <1>1 DEF TakeBurst

(* Every step of the relay thread, the watchdog and the daemon keeps it.   *)
LEMMA RelayKeyStep ==
  ASSUME TypeOK, OwnerIffArmed, RelayKeyInv, [RepNext]_repVars
  PROVE  RelayKeyInv'
<1> USE RelayAssumption, CallersAssumption
<1>0. guard \in [Callers -> Guards]
  BY DEF TypeOK
<1>1. CASE Acquire
  <2> USE <1>0, <1>1
  <2>1. CASE ReuseKey
    BY Zenon, <2>1 DEF Acquire, ReuseKey, Extend, RelayKeyInv
  <2>2. CASE DropExpired
    BY <2>2 DEF Acquire, DropExpired, UnkeyOwnedCheck, inner, is_owned, OwnerIffArmed,
                RelayKeyInv, NoGuard
  <2>3. CASE Keyed(Relay, FALSE) /\ UNCHANGED thread
    BY ZenonT(30), <2>3 DEF Acquire, Keyed, KeyOk, OwnerIffArmed, RelayKeyInv, NoGuard
  <2>4. CASE ReadGeneration(Relay) /\ thread' = "send"
    <3>1. guard'[Relay].st = "live" /\ guard'[Relay].gen = generation
      BY Zenon, <2>4 DEF ReadGeneration, Guards
    <3>2. guard'[Relay] # NoGuard
      BY <3>1 DEF NoGuard
    <3>3. UNCHANGED <<owner, generation>>
      BY <2>4 DEF ReadGeneration, inner
    <3>4. \A c \in Callers : c # Relay => guard'[c] = guard[c]
      BY SMTT(30), <2>4 DEF ReadGeneration
    <3> QED BY <2>4, <3>1, <3>2, <3>3, <3>4 DEF RelayKeyInv
  <2>5. CASE NoKey
    BY Zenon, <2>5 DEF Acquire, NoKey, KeyedFails, KeyFails, inner, vars, RelayKeyInv
  <2> QED BY Zenon, <2>1, <2>2, <2>3, <2>4, <2>5 DEF Acquire, TakeKey
<1>2. CASE Stamp
  BY <1>0, <1>2 DEF Stamp, Extend, vars, inner, RelayKeyInv
<1>3. CASE Release
  <2> USE <1>0, <1>3
  <2>1. CASE UnkeyOwnedCheck(Relay)
    BY <2>1 DEF Release, UnkeyOwnedCheck, inner, is_owned, OwnerIffArmed, session_guard,
                RelayKeyInv, NoGuard
  <2>2. CASE UnkeyOwnedAct(Relay)
    BY Zenon, <2>2 DEF Release, UnkeyOwnedAct, unkey, UnkeyFails, UnkeyOk, inner, armed,
                OwnerIffArmed, session_guard, RelayKeyInv, NoGuard
  <2> QED BY Zenon, <2>1, <2>2 DEF Release
<1>4. CASE RepWatchdog
  BY Zenon, <1>4 DEF RepWatchdog, Watchdog, Tick, ExpiredReleaseOk, ExpiredReleaseFails, RelayKeyInv
<1>5. ASSUME UNCHANGED <<vars, rep_refused>>,
             thread' \in {"off", "drain", "done"} => guard[Relay] = NoGuard
      PROVE  RelayKeyInv'
  BY <1>5 DEF vars, inner, RelayKeyInv
<1>6. CASE Drain \/ StopSeen \/ TakeBurst \/ SendBurst \/ SendFails
  <2>1. UNCHANGED <<vars, rep_refused>>
    BY <1>6 DEF Drain, StopSeen, TakeBurst, SendBurst, SendFails
  <2>2. thread' \notin {"off", "drain", "done"}
    <3>1. CASE Drain \/ StopSeen \/ TakeBurst
      BY Zenon, <3>1, BurstGoes DEF Drain, StopSeen
    <3>2. CASE SendBurst \/ SendFails
      BY Zenon, <3>2 DEF SendBurst, SendFails
    <3> QED BY Zenon, <1>6, <3>1, <3>2
  <2> QED BY Zenon, <1>5, <2>1, <2>2
<1>7. CASE Exit \/ EnableRepeater \/ DisableRepeater \/ Join
  <2>1. UNCHANGED <<vars, rep_refused>>
    BY Zenon, <1>7 DEF Exit, EnableRepeater, DisableRepeater, Join
  <2>2. thread' \in {"off", "drain", "done"} => guard[Relay] = NoGuard
    <3>1. CASE Exit
      BY Zenon, <3>1 DEF Exit, session_guard
    <3>2. CASE EnableRepeater \/ DisableRepeater \/ Join
      BY Zenon, <3>2 DEF EnableRepeater, DisableRepeater, Join, RelayKeyInv
    <3> QED BY Zenon, <1>7, <3>1, <3>2
  <2> QED BY Zenon, <1>5, <2>1, <2>2
<1>8. CASE OfferBurst \/ AnnounceEnabled \/ RepClock \/ UNCHANGED repVars
  BY Zenon, <1>5, <1>8 DEF OfferBurst, AnnounceEnabled, RepClock, repVars, RelayKeyInv
<1> QED
  BY <1>1, <1>2, <1>3, <1>4, <1>6, <1>7, <1>8 DEF RepNext, ThreadStep

(* A repeater that is handed back holds no key of rig_b's, however its     *)
(* session ended, unless rig_b refused the release                         *)
(* (release_after_abnormal_exit).                                          *)
THEOREM ReturnedRepeaterHoldsNoKey == RepSpec => []HandedBackUnkeyed
<1>1. RepInit => RelayKeyInv
  BY Zenon, RelayAssumption, CallersAssumption DEF RepInit, Init, RelayKeyInv, NoGuard
<1>2. RelayKeyInv => HandedBackUnkeyed
  BY Zenon DEF RelayKeyInv, HandedBackUnkeyed
<1> QED
  BY <1>1, <1>2, RelayKeyStep, RepeaterImplementsSharedPtt, TypeCorrect, OwnerTracksKey, PTL
     DEF RepSpec

(* In the repeater too a guard's release ends only the key it took.        *)
LEMMA RelayDropsOwn ==
  ASSUME OwnerIffArmed, RelayKeyInv, NEW c \in Callers, UnkeyOwnedAct(c), armed
  PROVE  owner = c
<1>1. c = Relay
  <2>1. guard[c].st = "checked"
    BY Zenon DEF UnkeyOwnedAct
  <2>2. NoGuard.st # "checked"
    BY DEF NoGuard
  <2> QED BY Zenon, <2>1, <2>2 DEF RelayKeyInv
<1> QED BY <1>1 DEF RelayKeyInv, OwnerIffArmed

(* Until EnableRepeater has told the clients, the thread it spawned has    *)
(* nothing to relay and so cannot have failed; and a thread ends without   *)
(* an error only for a DisableRepeater that is joining it.                 *)
ToldInv ==
  /\ ToldMeansRunning
  /\ event_loop = "announce" =>
       thread = "drain" \/ (thread = "wait" /\ bursts = <<>>)
  /\ event_loop = "announce" => repeater_stop = "clear"
  /\ repeater_stop = "set" => event_loop = "joining"
  /\ thread = "end" => event_loop = "joining"

(* No order of the event loop's and the relay thread's steps breaks it.    *)
LEMMA ToldStep ==
  ASSUME ToldInv, [RepNext]_repVars
  PROVE  ToldInv'
<1> USE DEF ToldInv, ToldMeansRunning, daemonSide
<1>1. CASE Drain \/ StopSeen \/ SendBurst \/ SendFails \/ Exit
  BY Zenon, <1>1 DEF Drain, StopSeen, SendBurst, SendFails, Exit
<1>2. CASE TakeBurst
  BY <1>2 DEF TakeBurst, Verdicts
<1>3. CASE Acquire \/ Stamp \/ Release
  BY Zenon, <1>3 DEF Acquire, ReuseKey, DropExpired, TakeKey, NoKey, Stamp, Release
<1>4. CASE OfferBurst \/ EnableRepeater \/ AnnounceEnabled \/ DisableRepeater \/ Join
  BY <1>4 DEF OfferBurst, EnableRepeater, AnnounceEnabled, DisableRepeater, Join
<1>5. CASE RepWatchdog \/ RepClock \/ UNCHANGED repVars
  BY <1>5 DEF RepWatchdog, RepClock, repVars
<1> HIDE DEF ToldInv, ToldMeansRunning, daemonSide
<1> QED BY Zenon, <1>1, <1>2, <1>3, <1>4, <1>5 DEF RepNext, ThreadStep

(* Clients that are told the repeater runs have a thread behind it, or one *)
(* that DisableRepeater is joining: a failure is announced after the       *)
(* enable it ends (spawn_repeater and the events around it).               *)
THEOREM ClientsToldTheTruth == RepSpec => []ToldMeansRunning
<1>1. RepInit => ToldInv
  BY DEF RepInit, ToldInv, ToldMeansRunning
<1>2. ToldInv => ToldMeansRunning
  BY DEF ToldInv
<1> QED BY <1>1, <1>2, ToldStep, PTL DEF RepSpec

(* Once a session has drained the channel, every burst in it was offered   *)
(* to that session.                                                        *)
BurstInv ==
  /\ bursts \in Seq({"this", "earlier"})
  /\ thread \notin {"off", "drain", "done"} => \A i \in DOMAIN bursts : bursts[i] = "this"
  /\ burst # "earlier"

(* Offered, taken or left over, a burst of an earlier session is drained.  *)
LEMMA BurstStep ==
  ASSUME BurstInv, [RepNext]_repVars
  PROVE  BurstInv'
<1>1. CASE TakeBurst
  <2>1. bursts \in Seq({"this", "earlier"}) /\ bursts # <<>> /\ bursts' = Tail(bursts)
        /\ \A i \in DOMAIN bursts : bursts[i] = "this"
    BY <1>1 DEF TakeBurst, BurstInv
  <2>2. bursts' \in Seq({"this", "earlier"}) /\ \A i \in DOMAIN bursts' : bursts'[i] = "this"
    BY <2>1
  <2>3. Head(bursts) = "this"
    BY <2>1
  <2>4. burst' # "earlier"
    BY <1>1, <2>3 DEF TakeBurst
  <2> QED BY <2>2, <2>4 DEF BurstInv
<1>2. CASE OfferBurst
  <2>1. bursts' \in Seq({"this", "earlier"})
    BY <1>2 DEF OfferBurst, BurstInv
  <2>2. thread \notin {"off", "drain", "done"} => \A i \in DOMAIN bursts' : bursts'[i] = "this"
    BY <1>2 DEF OfferBurst, BurstInv
  <2> QED BY <1>2, <2>1, <2>2 DEF OfferBurst, BurstInv
<1>3. CASE Exit
  <2>1. bursts' \in Seq({"this", "earlier"})
    BY <1>3 DEF Exit, BurstInv
  <2> QED BY <1>3, <2>1 DEF Exit, BurstInv
<1>4. CASE Drain
  BY SMTT(30), <1>4 DEF Drain, BurstInv
<1>5. CASE StopSeen \/ SendBurst \/ SendFails \/ Acquire \/ Stamp \/ Release
  BY Zenon, <1>5 DEF StopSeen, SendBurst, SendFails, Acquire, ReuseKey, DropExpired, TakeKey,
              NoKey, Stamp, Release, BurstInv
<1>6. CASE EnableRepeater \/ AnnounceEnabled \/ DisableRepeater \/ Join
  BY SMTT(30), <1>6 DEF EnableRepeater, AnnounceEnabled, DisableRepeater, Join, BurstInv
<1>7. CASE RepWatchdog \/ RepClock \/ UNCHANGED repVars
  BY Zenon, <1>7 DEF RepWatchdog, RepClock, repVars, BurstInv
<1> QED BY <1>1, <1>2, <1>3, <1>4, <1>5, <1>6, <1>7 DEF RepNext, ThreadStep

(* A thread that goes on the air under a key it already had has that key:  *)
(* acquire_key extends it only if it is still the thread's own.            *)
LEMMA ReuseIsLive ==
  ASSUME TypeOK, OwnerIffArmed, RelayKeyInv, RepNext,
         session_guard.st = "live", thread # "send", thread' = "send"
  PROVE  owner' = Relay /\ asserted_at' # None
<1>1. Acquire
  <2>1. ~Drain /\ ~StopSeen /\ ~SendBurst /\ ~SendFails /\ ~Stamp /\ ~Exit
    BY DEF Drain, StopSeen, SendBurst, SendFails, Stamp, Exit
  <2>2. ~TakeBurst
    BY BurstGoes
  <2>3. ~Release
    BY Zenon DEF Release
  <2>4. ~OfferBurst /\ ~EnableRepeater /\ ~AnnounceEnabled /\ ~DisableRepeater /\ ~Join
    BY DEF OfferBurst, EnableRepeater, AnnounceEnabled, DisableRepeater, Join
  <2>5. ~RepWatchdog /\ ~RepClock
    BY DEF RepWatchdog, RepClock
  <2> QED BY Zenon, <2>1, <2>2, <2>3, <2>4, <2>5 DEF RepNext, ThreadStep
<1>2. ReuseKey
  BY <1>1 DEF Acquire, DropExpired, TakeKey, NoKey, Keyed, ReadGeneration, session_guard
<1>3. armed /\ asserted_at' = 0 /\ owner' = owner
  BY Zenon, <1>2 DEF ReuseKey, Extend, is_owned
<1>4. owner' = Relay
  BY Zenon, <1>3 DEF OwnerIffArmed, RelayKeyInv
<1> QED BY <1>3, <1>4, NoneAssumption

(* What a session carries over is still good when it goes on the air: no   *)
(* burst queued before the session is relayed in it (run_full_duplex's     *)
(* drain), and the session's key is reused only while it is live and the   *)
(* thread's own (acquire_key), whatever the watchdog did in between.       *)
THEOREM CarriedOverIsCurrent == RepSpec => RelayIsCurrent
<1>1. RepInit => BurstInv /\ RelayKeyInv
  BY RelayAssumption, CallersAssumption
     DEF RepInit, Init, BurstInv, RelayKeyInv, NoGuard
<1>2. BurstInv' => burst' # "earlier"
  BY Zenon DEF BurstInv
<1> QED
  BY <1>1, <1>2, BurstStep, RelayKeyStep, ReuseIsLive, RepeaterImplementsSharedPtt,
     TypeCorrect, OwnerTracksKey, PTL
     DEF RepSpec, RelayIsCurrent

-----------------------------------------------------------------------------
(* The daemon.                                                             *)

(* One step of the daemon on the PTT state is one of SharedPtt's, except   *)
(* that an operator's command sends its event after the lock is released.  *)
LEMMA DaemonStep ==
  ASSUME [DaemonNext]_daemonVars
  PROVE  [Next]_vars \/ (Announce /\ UNCHANGED <<rig, inner, guard, owner>>)
<1>1. CASE Emission
  BY <1>1, LoopAssumption DEF Emission, Next
<1>2. CASE PttAssert \/ PttAssertFails
  BY <1>2 DEF PttAssert, PttAssertFails, Next
<1>3. CASE PttRelease
  BY Zenon, <1>3 DEF PttRelease, OperatorRelease, force_release, Next
<1>4. CASE GetPttState
  BY <1>4 DEF GetPttState
<1>5. CASE Announce
  BY <1>5 DEF Announce
<1>6. CASE DaemonWatchdog
  BY <1>6 DEF DaemonWatchdog, Next
<1>7. CASE UNCHANGED daemonVars
  BY <1>7 DEF daemonVars
<1> QED BY Zenon, <1>1, <1>2, <1>3, <1>4, <1>5, <1>6, <1>7 DEF DaemonNext

(* The core's invariants, with the event loop's sends between its steps.   *)
CoreInv == TypeOK /\ HolderIffArmed /\ OwnerIffArmed

(* The daemon's steps are the core's, or leave the core alone.             *)
LEMMA DaemonCoreStep ==
  ASSUME CoreInv, [DaemonNext]_daemonVars
  PROVE  CoreInv'
<1>1. CASE [Next]_vars
  BY Zenon, <1>1, TypeStep, HolderStep, OwnerStep DEF CoreInv
<1>2. CASE Announce /\ UNCHANGED <<rig, inner, guard, owner>>
  <2>1. shown' \in Edges
    BY <1>2, Told DEF Announce
  <2> QED BY <1>2, <2>1 DEF CoreInv, TypeOK, Edges, HolderIffArmed, OwnerIffArmed, armed, inner
<1> QED BY <1>1, <1>2, DaemonStep

(* Whatever the event loop, the operator and the watchdog do, holder and   *)
(* deadline belong together in the daemon as in the core.                  *)
THEOREM DaemonKeepsCore == DaemonSpec => [](TypeOK /\ HolderIffArmed)
<1>1. DaemonInit => CoreInv
  BY TypeInit DEF DaemonInit, Init, CoreInv, HolderIffArmed, OwnerIffArmed, armed
<1>2. CoreInv => TypeOK /\ HolderIffArmed
  BY SMTT(30) DEF CoreInv
<1> QED BY <1>1, <1>2, DaemonCoreStep, PTL DEF DaemonSpec

(* One thread runs every emission and every command to its end, so while   *)
(* an emission has a guard the key is the emission's or nobody's.          *)
LoopKeyInv ==
  /\ \A c \in Callers : c # Loop => guard[c] = NoGuard
  /\ owner \in {Loop, "operator", "nobody"}
  /\ guard[Loop].st # "none" => owner \in {Loop, "nobody"}

(* Both hold when the daemon starts.                                       *)
LEMMA DaemonBegins == DaemonInit => CoreInv /\ LoopKeyInv
  BY TypeInit, LoopAssumption
     DEF DaemonInit, Init, CoreInv, HolderIffArmed, OwnerIffArmed, armed, LoopKeyInv, NoGuard

(* No step of the event loop or of the watchdog breaks it.                 *)
LEMMA LoopKeyStep ==
  ASSUME CoreInv, LoopKeyInv, [DaemonNext]_daemonVars
  PROVE  LoopKeyInv'
<1> USE LoopAssumption, CallersAssumption
<1>0. guard \in [Callers -> Guards]
  BY DEF CoreInv, TypeOK
<1>1. CASE Emission
  <2> USE <1>0, <1>1
  <2>1. ASSUME NEW obs \in BOOLEAN, Keyed(Loop, obs) PROVE LoopKeyInv'
    BY SMTT(30), <2>1 DEF Keyed, KeyOk, LoopKeyInv, NoGuard
  <2>2. CASE KeyedFails(Loop)
    BY <2>2 DEF KeyedFails, KeyFails, LoopKeyInv
  <2>3. CASE ReadGeneration(Loop)
    BY Zenon, <2>3 DEF ReadGeneration, LoopKeyInv, NoGuard, Guards
  <2>4. CASE UnkeyOwnedCheck(Loop)
    BY <2>4 DEF UnkeyOwnedCheck, LoopKeyInv, NoGuard
  <2>5. CASE UnkeyOwnedAct(Loop)
    BY Zenon, <2>5 DEF UnkeyOwnedAct, unkey, UnkeyFails, UnkeyOk, LoopKeyInv, NoGuard
  <2> QED BY Zenon, <2>1, <2>2, <2>3, <2>4, <2>5 DEF Emission
<1>2. CASE PttAssert
  BY Zenon, <1>2 DEF PttAssert, free, OperatorKey, KeyOk, vars, LoopKeyInv
<1>3. CASE PttAssertFails
  BY <1>3 DEF PttAssertFails, UnguardedKeyFails, KeyFails, LoopKeyInv
<1>4. CASE PttRelease
  BY Zenon, <1>4 DEF PttRelease, ForceReleaseOk, UnkeyFails, LoopKeyInv
<1>5. CASE GetPttState \/ Announce \/ UNCHANGED daemonVars
  BY <1>5 DEF GetPttState, Announce, daemonVars, vars, LoopKeyInv
<1>6. CASE DaemonWatchdog
  BY Zenon, <1>6 DEF DaemonWatchdog, Watchdog, Tick, ExpiredReleaseOk, ExpiredReleaseFails, LoopKeyInv
<1> QED BY Zenon, <1>1, <1>2, <1>3, <1>4, <1>5, <1>6 DEF DaemonNext

(* Only the operator and the watchdog end the operator's key.              *)
LEMMA OperatorKeyEnds ==
  ASSUME CoreInv, LoopKeyInv, DaemonNext, owner = "operator", owner' # "operator"
  PROVE  PttRelease \/ DaemonWatchdog
<1>1. guard[Loop].st = "none" /\ armed
  BY LoopAssumption, CallersAssumption DEF LoopKeyInv, CoreInv, OwnerIffArmed
<1>2. ~Emission
  BY Zenon, <1>1 DEF Emission, Keyed, KeyOk, KeyedFails, KeyFails, ReadGeneration,
              UnkeyOwnedCheck, UnkeyOwnedAct
<1>3. ~PttAssert /\ ~PttAssertFails /\ ~GetPttState /\ ~Announce
  BY Zenon, <1>1 DEF PttAssert, OperatorKey, KeyOk, PttAssertFails, UnguardedKeyFails, KeyFails,
              GetPttState, Announce, vars
<1> QED BY Zenon, <1>2, <1>3 DEF DaemonNext

(* A guard's release ends only the key that guard took.                    *)
LEMMA LoopDropsOwn ==
  ASSUME OwnerIffArmed, LoopKeyInv, NEW c \in Callers, UnkeyOwnedAct(c), armed
  PROVE  owner = c
<1>1. c = Loop
  BY DEF UnkeyOwnedAct, LoopKeyInv, NoGuard
<1> QED BY Zenon, <1>1 DEF UnkeyOwnedAct, LoopKeyInv, OwnerIffArmed

(* Once the daemon's operator holds the key, only the operator's release   *)
(* and the watchdog end it: no automatic emission takes or releases the    *)
(* operator's carrier (handle_ptt_command).                                *)
THEOREM OperatorKeepsCarrier ==
  DaemonSpec => [][owner = "operator" /\ owner' # "operator"
                     => PttRelease \/ DaemonWatchdog]_daemonVars
  BY DaemonBegins, DaemonCoreStep, LoopKeyStep, OperatorKeyEnds, PTL DEF DaemonSpec
-----------------------------------------------------------------------------
(* The programs on one SharedPtt.                                          *)

(* A step of any part is one of SharedPtt's on the PTT state, or one of    *)
(* the daemon's; and nobody becomes another program on the way.            *)
LEMMA StationStep ==
  ASSUME [StationNext]_stationVars
  PROVE  /\ part' = part
         /\ part = "tnc" => [Next]_vars
         /\ part = "daemon" => [DaemonNext]_daemonVars
         /\ part = "repeater" => [RepNext]_repVars
         /\ part # "daemon" => [Next]_vars
<1>1. CASE UNCHANGED stationVars
  <2>1. UNCHANGED <<vars, event, repState, part>>
    BY <1>1 DEF stationVars, pttUsers
  <2> QED BY <2>1 DEF daemonVars, repVars, repState
<1>2. CASE part = "ptt" /\ Next /\ UNCHANGED <<pttUsers, dataVars, part>>
  BY <1>2
<1>3. CASE part = "tnc" /\ ArdopNext /\ UNCHANGED <<event, repState, idVars, dataVars, part>>
  BY <1>3, ArdopStep
<1>4. CASE part = "daemon" /\ DaemonNext /\ UNCHANGED <<ardopState, repState, idVars, dataVars, part>>
  BY <1>4
<1>5. CASE part = "repeater" /\ RepNext /\ UNCHANGED <<event, ardopState, idVars, dataVars, part>>
  BY <1>5, RepStep
<1>6. CASE UNCHANGED <<vars, part>> /\ part \notin {"daemon", "repeater"}
  BY <1>6
<1> QED BY Zenon, <1>1, <1>2, <1>3, <1>4, <1>5, <1>6 DEF StationNext

(* What the programs' own proofs rest on, together.                        *)
StationKeyInv ==
  /\ CoreInv
  /\ part = "daemon" => LoopKeyInv
  /\ part = "repeater" => RelayKeyInv

(* It holds at the start, whoever runs.                                    *)
LEMMA StationBegins == StationInit => StationKeyInv
<1> HAVE StationInit
<1>1. DaemonInit /\ RepInit
  BY DEF StationInit
<1>2. CoreInv /\ LoopKeyInv
  BY Zenon, <1>1, DaemonBegins
<1>3. RelayKeyInv
  BY <1>1, RelayAssumption, CallersAssumption DEF RepInit, Init, RelayKeyInv, NoGuard
<1> QED BY <1>2, <1>3 DEF StationKeyInv

(* No step of any program breaks it.                                       *)
LEMMA StationKeyStep ==
  ASSUME StationKeyInv, [StationNext]_stationVars
  PROVE  StationKeyInv'
<1>1. CASE part = "daemon"
  BY <1>1, StationStep, DaemonCoreStep, LoopKeyStep DEF StationKeyInv
<1>2. CASE part # "daemon"
  <2>1. CoreInv'
    BY Zenon, <1>2, StationStep, TypeStep, HolderStep, OwnerStep DEF StationKeyInv, CoreInv
  <2>2. part = "repeater" => RelayKeyInv'
    BY StationStep, RelayKeyStep DEF StationKeyInv, CoreInv
  <2> QED BY Zenon, <1>2, <2>1, <2>2, StationStep DEF StationKeyInv
<1> QED BY <1>1, <1>2

(* Whichever program runs, the holder is named exactly while a key is      *)
(* armed, and only the guard of the live key postpones its deadline        *)
(* (PttInner, extend_owned).                                               *)
THEOREM EveryProgramKeepsCore == StationSpec => []HolderIffArmed /\ DeadlineMovedByHolder
<1>1. StationKeyInv => HolderIffArmed
  BY Zenon DEF StationKeyInv, CoreInv
<1>2. StationKeyInv /\ [StationNext]_stationVars =>
        [armed /\ armed' /\ asserted_at' < asserted_at
           => \E c \in Callers : guard[c].st = "live" /\ is_owned(guard[c])]_vars
  <2> SUFFICES ASSUME StationKeyInv, [StationNext]_stationVars,
                      armed, armed', asserted_at' < asserted_at, vars' # vars
               PROVE  \E c \in Callers : guard[c].st = "live" /\ is_owned(guard[c])
    OBVIOUS
  <2>1. TypeOK
    BY Zenon DEF StationKeyInv, CoreInv
  <2>2. CASE Next
    BY <2>1, <2>2, StepKeepsDeadline DEF Extend
  <2>3. CASE UNCHANGED inner
    BY <2>1, <2>3, MaxDurationAssumption DEF inner, TypeOK, armed
  <2>4. [Next]_vars \/ UNCHANGED inner
    <3>1. CASE part = "daemon"
      BY Zenon, <3>1, StationStep, DaemonStep
    <3>2. CASE part # "daemon"
      BY Zenon, <3>2, StationStep
    <3> QED BY Zenon, <3>1, <3>2
  <2> QED BY Zenon, <2>2, <2>3, <2>4
<1> QED BY <1>1, <1>2, StationBegins, StationKeyStep, PTL DEF StationSpec, DeadlineMovedByHolder

(* Whichever program keys, the observers are told of an edge only for a    *)
(* key that was just taken or just ended; what the daemon sends in answer  *)
(* to a command, after the lock is released, is the state.                 *)
THEOREM StationEdges == StationSpec => EdgesAreTransitions
<1>1. StationKeyInv /\ [StationNext]_stationVars =>
        EdgeIsTransition \/ (part = "daemon" /\ Announce)
  <2> SUFFICES ASSUME StationKeyInv, [StationNext]_stationVars
               PROVE  EdgeIsTransition \/ (part = "daemon" /\ Announce)
    OBVIOUS
  <2>1. [Next]_vars \/ (part = "daemon" /\ Announce)
    BY Zenon, StationStep, DaemonStep
  <2>2. CASE UNCHANGED vars
    BY <2>2 DEF vars, EdgeIsTransition
  <2>3. CASE Next
    BY Zenon, <2>3, StepShowsTransition DEF StationKeyInv, CoreInv
  <2> QED BY Zenon, <2>1, <2>2, <2>3
<1> QED BY <1>1, StationBegins, StationKeyStep, PTL DEF StationSpec, EdgesAreTransitions

(* In the daemon and in the repeater a guard's release ends only the key   *)
(* that guard took, and once the operator holds the key only the operator  *)
(* and the watchdog end it (unkey_owned, handle_ptt_command).              *)
THEOREM KeysEndByRight == StationSpec => KeyEndsByRight
<1>1. StationKeyInv =>
        [(part \in {"daemon", "repeater"}) =>
           \A c \in Callers : UnkeyOwnedAct(c) /\ armed /\ ~armed' => owner = c]_vars
  BY LoopDropsOwn, RelayDropsOwn DEF StationKeyInv, CoreInv
<1>2. StationKeyInv /\ [StationNext]_stationVars =>
        [part = "daemon" /\ owner = "operator" /\ owner' # "operator"
           => PttRelease \/ DaemonWatchdog]_daemonVars
  BY StationStep, OperatorKeyEnds DEF StationKeyInv
<1> QED BY <1>1, <1>2, StationBegins, StationKeyStep, PTL DEF StationSpec, KeyEndsByRight

(* A repeater that is handed back holds no key of rig_b's, however its     *)
(* session ended, unless rig_b refused the release.                        *)
THEOREM HandedBackHoldsNoKey == StationSpec => []RepeaterComesBackUnkeyed
<1>1. StationKeyInv => RepeaterComesBackUnkeyed
  BY DEF StationKeyInv, RelayKeyInv, RepeaterComesBackUnkeyed, HandedBackUnkeyed
<1> QED BY <1>1, StationBegins, StationKeyStep, PTL DEF StationSpec
=============================================================================
