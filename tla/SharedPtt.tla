------------------------------ MODULE SharedPtt ------------------------------
(***************************************************************************)
(* The shared, watchdog-protected PTT state of crates/openpulse-radio      *)
(* (SharedPtt, PttInner, PttKeyGuard), used by every front end that keys a *)
(* transmitter.  The state sits behind one mutex, and each action below is *)
(* ONE acquisition of it: an operation that takes the lock twice (keyed,   *)
(* and a guard's release through unkey_owned) is two actions, between      *)
(* which other threads run.                                                *)
(*                                                                         *)
(* Next is the most general client: any number of threads hold RAII        *)
(* guards, an operator keys and force-releases, a TNC host keys and        *)
(* unkeys without a guard, and the watchdog thread runs throughout.  The   *)
(* front ends are modules that restrict it.                                *)
(***************************************************************************)
EXTENDS Option, Naturals

CONSTANTS
  Callers,      \* threads that emit under a PttKeyGuard
  MaxDuration,  \* max_duration, in ticks
  MaxGen,       \* bound on generation when a key is taken
  Faults        \* how the PTT hardware may fail: subset of FaultKinds

FaultKinds == {"refused", "reply_lost"}

ASSUME NoneAssumption == None \notin Nat
ASSUME MaxDurationAssumption == MaxDuration \in Nat \ {0}
ASSUME MaxGenAssumption == MaxGen \in Nat
ASSUME FaultsAssumption == Faults \subseteq FaultKinds
ASSUME CallersAssumption == Callers \cap {"operator", "host", "nobody"} = {}

VARIABLES
  rig,           \* the transmitter really is keyed
  asserted_at,   \* None, or the time elapsed since the key's time stamp
  stuck_warned,  \* the watchdog has reported a failed release
  generation,    \* identity of the latest key
  held_by,       \* diagnostic label of the holder
  guard,         \* per caller, the state of its PttKeyGuard
  shown,         \* history: the last edge the observers were told, and whether
                 \* they have been told of an odd number of edges
  owner          \* history: who took the key that is live

inner == <<asserted_at, stuck_warned, generation, held_by>>
vars == <<rig, inner, guard, shown, owner>>

Labels == {"nobody", "automatic", "manual"}
Owners == Callers \cup {"operator", "host", "nobody"}

(* A guard: absent; keyed but its generation not read yet; live; or past   *)
(* unkey_owned's ownership check, with the release still to come.          *)
NoGuard == [st |-> "none", gen |-> 0, obs |-> FALSE]
Guards == [st : {"none", "keying", "live", "checked"}, gen : Nat, obs : BOOLEAN]

armed == asserted_at # None

(* The observers are told that the key is up, or down.                     *)
Tell(up) == shown' = [on |-> up, odd |-> ~shown.odd]

Init ==
  /\ rig = FALSE
  /\ asserted_at = None
  /\ stuck_warned = FALSE
  /\ generation = 0
  /\ held_by = "nobody"
  /\ guard = [c \in Callers |-> NoGuard]
  /\ shown = [on |-> FALSE, odd |-> FALSE]
  /\ owner = "nobody"

-----------------------------------------------------------------------------
(* PttController: a request succeeds, fails without effect, or takes       *)
(* effect and fails because its reply is lost (rigctld's read timeout).    *)

HwAssert(ok) ==
  \/ ok /\ rig' = TRUE
  \/ ~ok /\ "refused" \in Faults /\ rig' = rig
  \/ ~ok /\ "reply_lost" \in Faults /\ rig' = TRUE

HwRelease(ok) ==
  \/ ok /\ rig' = FALSE
  \/ ~ok /\ "refused" \in Faults /\ rig' = rig
  \/ ~ok /\ "reply_lost" \in Faults /\ rig' = FALSE

-----------------------------------------------------------------------------
(* The lock sections, on everything but guard.                             *)

(* key_as refuses while a key is armed: that outcome changes nothing.      *)
KeyFails ==
  /\ ~armed
  /\ HwAssert(FALSE)
  /\ UNCHANGED <<inner, shown, owner>>

(* Mutant: a key displaces the one that is armed.                          *)
KeyDisplaces(who, obs, by) ==
  /\ generation < MaxGen
  /\ HwAssert(TRUE)
  /\ held_by' = who
  /\ asserted_at' = 0
  /\ stuck_warned' = FALSE
  /\ generation' = generation + 1
  /\ IF obs THEN Tell(TRUE) ELSE UNCHANGED shown
  /\ owner' = by

KeyOk(who, obs, by) ==
  /\ ~armed
  /\ generation < MaxGen
  /\ HwAssert(TRUE)
  /\ held_by' = who
  /\ asserted_at' = 0
  /\ stuck_warned' = FALSE
  /\ generation' = generation + 1
  /\ IF obs THEN Tell(TRUE) ELSE UNCHANGED shown
  /\ owner' = by

(* Mutant: a failed release clears the deadline all the same.              *)
UnkeyFailsDisarms ==
  /\ HwRelease(FALSE)
  /\ asserted_at' = None
  /\ held_by' = "nobody"
  /\ UNCHANGED <<stuck_warned, generation, shown, owner>>

UnkeyFails ==
  /\ HwRelease(FALSE)
  /\ UNCHANGED <<inner, shown, owner>>

(* Mutant: a release gives the identity back.                              *)
UnkeyRewinds(obs) ==
  /\ HwRelease(TRUE)
  /\ stuck_warned' = FALSE
  /\ held_by' = "nobody"
  /\ asserted_at' = None
  /\ IF armed /\ obs THEN Tell(FALSE) ELSE UNCHANGED shown
  /\ owner' = "nobody"
  /\ generation' = generation - 1

(* Mutant: a release that finds nothing keyed notifies the observer too.   *)
UnkeyDoubleFires(obs) ==
  /\ HwRelease(TRUE)
  /\ stuck_warned' = FALSE
  /\ held_by' = "nobody"
  /\ asserted_at' = None
  /\ IF obs THEN Tell(FALSE) ELSE UNCHANGED shown
  /\ owner' = "nobody"
  /\ UNCHANGED generation

UnkeyOk(obs) ==
  /\ HwRelease(TRUE)
  /\ stuck_warned' = FALSE
  /\ held_by' = "nobody"
  /\ asserted_at' = None
  /\ IF armed /\ obs THEN Tell(FALSE) ELSE UNCHANGED shown
  /\ owner' = "nobody"
  /\ UNCHANGED generation

unkey(obs) == UnkeyFails \/ UnkeyOk(obs)

(* force_release: the operator's override.  It differs from unkey in that  *)
(* it ends the identity of the key it displaces.                           *)
ForceReleaseOk(obs) ==
  /\ armed \/ generation < MaxGen
  /\ HwRelease(TRUE)
  /\ asserted_at' = None
  /\ stuck_warned' = FALSE
  /\ generation' = generation + 1
  /\ held_by' = "nobody"
  /\ IF armed /\ obs THEN Tell(FALSE) ELSE UNCHANGED shown
  /\ owner' = "nobody"

force_release(obs) == UnkeyFails \/ ForceReleaseOk(obs)

Expired == armed /\ asserted_at >= MaxDuration

(* Mutant: the watchdog forgets to clear the holder.                       *)
ExpiredKeepsHolder ==
  /\ Expired
  /\ HwRelease(TRUE)
  /\ asserted_at' = None
  /\ stuck_warned' = FALSE
  /\ generation' = generation + 1
  /\ Tell(FALSE)
  /\ owner' = "nobody"
  /\ UNCHANGED held_by

ExpiredReleaseOk ==
  /\ Expired
  /\ HwRelease(TRUE)
  /\ asserted_at' = None
  /\ stuck_warned' = FALSE
  /\ held_by' = "nobody"
  /\ generation' = generation + 1
  /\ Tell(FALSE)
  /\ owner' = "nobody"

(* Mutant: after one failed release the watchdog gives the key up.         *)
ExpiredGivesUp ==
  /\ Expired
  /\ HwRelease(FALSE)
  /\ asserted_at' = None
  /\ stuck_warned' = TRUE
  /\ UNCHANGED <<generation, held_by, shown, owner>>

ExpiredReleaseFails ==
  /\ Expired
  /\ HwRelease(FALSE)
  /\ stuck_warned' = TRUE
  /\ UNCHANGED <<asserted_at, generation, held_by, shown, owner>>

is_owned(g) == generation = g.gen /\ armed

-----------------------------------------------------------------------------
(* The threads.                                                            *)

(* keyed, first acquisition: key.                                          *)
Keyed(c, obs) ==
  /\ guard[c].st = "none"
  /\ KeyOk("automatic", obs, c)
  /\ guard' = [guard EXCEPT ![c] = [st |-> "keying", gen |-> 0, obs |-> obs]]

KeyedFails(c) ==
  /\ guard[c].st = "none"
  /\ KeyFails
  /\ UNCHANGED guard

(* keyed, second acquisition: the generation the guard will answer for.    *)
ReadGeneration(c) ==
  /\ guard[c].st = "keying"
  /\ guard' = [guard EXCEPT ![c].st = "live", ![c].gen = generation]
  /\ UNCHANGED <<rig, inner, shown, owner>>

(* A guard's release or Drop, first acquisition (unkey_owned's check).     *)
UnkeyOwnedCheck(c) ==
  /\ guard[c].st = "live"
  /\ guard' = [guard EXCEPT ![c] = IF is_owned(guard[c])
                                   THEN [guard[c] EXCEPT !.st = "checked"]
                                   ELSE NoGuard]
  /\ UNCHANGED <<rig, inner, shown, owner>>

(* Second acquisition: unkey, whoever holds the key by now.                *)
UnkeyOwnedAct(c) ==
  /\ guard[c].st = "checked"
  /\ unkey(guard[c].obs)
  /\ guard' = [guard EXCEPT ![c] = NoGuard]

(* Mutant: any guard extends whatever key is armed.                        *)
ExtendUnowned(c) ==
  /\ guard[c].st = "live"
  /\ armed
  /\ asserted_at' = 0
  /\ UNCHANGED <<rig, stuck_warned, generation, held_by, guard, shown, owner>>

Extend(c) ==
  /\ guard[c].st = "live"
  /\ is_owned(guard[c])
  /\ asserted_at' = 0
  /\ UNCHANGED <<rig, stuck_warned, generation, held_by, guard, shown, owner>>

OperatorKey ==
  /\ KeyOk("manual", FALSE, "operator")
  /\ UNCHANGED guard

OperatorRelease ==
  /\ force_release(FALSE)
  /\ UNCHANGED guard

HostKey ==
  /\ KeyOk("automatic", FALSE, "host")
  /\ UNCHANGED guard

UnguardedKeyFails ==
  /\ KeyFails
  /\ UNCHANGED guard

HostUnkey(obs) ==
  /\ unkey(obs)
  /\ UNCHANGED guard

Watchdog ==
  /\ ExpiredReleaseOk \/ ExpiredReleaseFails
  /\ UNCHANGED guard

(* The clock, saturated once the deadline has passed.                      *)
Tick ==
  /\ armed
  /\ asserted_at < MaxDuration
  /\ asserted_at' = asserted_at + 1
  /\ UNCHANGED <<rig, stuck_warned, generation, held_by, guard, shown, owner>>

Next ==
  \/ \E c \in Callers :
       \/ \E obs \in BOOLEAN : Keyed(c, obs)
       \/ KeyedFails(c)
       \/ ReadGeneration(c)
       \/ UnkeyOwnedCheck(c)
       \/ UnkeyOwnedAct(c)
       \/ Extend(c)
  \/ OperatorKey
  \/ OperatorRelease
  \/ HostKey
  \/ UnguardedKeyFails
  \/ \E obs \in BOOLEAN : HostUnkey(obs)
  \/ Watchdog
  \/ Tick

Spec == Init /\ [][Next]_vars

(* The watchdog thread never stops while a SharedPtt exists, time passes,  *)
(* and a rig that is asked to release again and again at last does.  No    *)
(* fairness for the holders: a hung transmit is the case that matters.     *)
Fairness ==
  /\ WF_vars(Tick)
  /\ WF_vars(ExpiredReleaseOk /\ UNCHANGED guard)

FairSpec == Spec /\ Fairness

-----------------------------------------------------------------------------
(* The PTT state has its type: PttInner's fields, with a deadline that     *)
(* never runs past MaxDuration, the rig's line and each PttKeyGuard.       *)
TypeOK ==
  /\ rig \in BOOLEAN
  /\ asserted_at \in (0 .. MaxDuration) \cup {None}
  /\ stuck_warned \in BOOLEAN
  /\ generation \in Nat
  /\ held_by \in Labels
  /\ guard \in [Callers -> Guards]
  /\ shown \in [on : BOOLEAN, odd : BOOLEAN]
  /\ owner \in Owners

(* A keyed transmitter always has an armed deadline, so the watchdog can   *)
(* reach it: no interleaving of keys, drops, overrides and failed hardware *)
(* calls leaves the rig up and unguarded (PttInner.asserted_at).           *)
KeyedIsArmed == rig => armed

(* held_by names somebody exactly while a key is armed: key_as's refusal   *)
(* and PttAssert's idempotence read it as the state of the live key.  A    *)
(* stuck rig that was reported is still armed, so it is still retried.     *)
HolderIffArmed ==
  /\ armed <=> held_by # "nobody"
  /\ stuck_warned => armed

(* The deadline of a key moves back only when a guard that matches the     *)
(* live generation extends it (extend_owned): re-asserting an armed key    *)
(* never postpones the watchdog.                                           *)
DeadlineMovedByHolder ==
  [][armed /\ armed' /\ asserted_at' < asserted_at
       => \E c \in Callers : guard[c].st = "live" /\ is_owned(guard[c])]_vars

(* Every edge the observers are told is one that just happened: up for a   *)
(* key that was taken in that step and down for one that ended in it.  So  *)
(* none is told twice, and a late release after the watchdog fired is      *)
(* silent (unkey, force_release, single-fire).                             *)
EdgeIsTransition ==
  shown' # shown => IF shown'.on THEN ~armed /\ armed' ELSE armed /\ ~armed'

(* However its holders hang, a key is bounded: the transmitter is down     *)
(* again and again, unless a live holder keeps extending its own deadline  *)
(* (spawn_watchdog, force_release_if_expired).                             *)
WatchdogBoundsKey ==
  \/ []<>(~rig)
  \/ []<><<\E c \in Callers : Extend(c)>>_vars
=============================================================================
