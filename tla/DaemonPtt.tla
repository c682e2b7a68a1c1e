------------------------------- MODULE DaemonPtt -------------------------------
(***************************************************************************)
(* PTT in the daemon: one event-loop thread runs every keyed emission and  *)
(* every operator command to completion, so the only thread it races on    *)
(* the PTT state is the watchdog.  An operator command and GetPttState     *)
(* send their PttChanged event after the lock is released; `event' is the  *)
(* one still to be sent.                                                   *)
(***************************************************************************)
EXTENDS SharedPtt

CONSTANT Loop   \* the event-loop thread

ASSUME LoopAssumption == Loop \in Callers

VARIABLE event  \* "idle", or the PttChanged event about to be sent

daemonVars == <<vars, event>>

DaemonInit == Init /\ event = "idle"

free == event = "idle" /\ guard[Loop].st = "none"

-----------------------------------------------------------------------------
(* keyed_transmit; a discovery beacon keys without an observer.            *)
Emission ==
  /\ event = "idle"
  /\ \/ \E obs \in BOOLEAN : Keyed(Loop, obs)
     \/ KeyedFails(Loop)
     \/ ReadGeneration(Loop)
     \/ UnkeyOwnedCheck(Loop)
     \/ UnkeyOwnedAct(Loop)
  /\ UNCHANGED event

(* Mutant: PttAssert runs beside an emission instead of between two.       *)
PttAssertConcurrent ==
  /\ event = "idle"
  /\ OperatorKey
  /\ event' = "announce_true"

(* PttAssert: a key already held by the operator counts as taken.          *)
PttAssert ==
  /\ free
  /\ OperatorKey \/ (armed /\ held_by = "manual" /\ UNCHANGED vars)
  /\ event' = "announce_true"

PttAssertFails ==
  /\ free
  /\ UnguardedKeyFails
  /\ UNCHANGED event

(* PttRelease: a failed hardware release skips the dispatch and its event. *)
PttRelease ==
  /\ free
  /\ \/ ForceReleaseOk(FALSE) /\ event' = "announce_false"
     \/ UnkeyFails /\ UNCHANGED event
  /\ UNCHANGED guard

GetPttState ==
  /\ free
  /\ event' = IF armed THEN "announce_true" ELSE "announce_false"
  /\ UNCHANGED vars

Announce ==
  /\ event # "idle"
  /\ Tell(event = "announce_true")
  /\ event' = "idle"
  /\ UNCHANGED <<rig, inner, guard, owner>>

DaemonWatchdog ==
  /\ Watchdog \/ Tick
  /\ UNCHANGED event

DaemonNext ==
  \/ Emission
  \/ PttAssert
  \/ PttAssertFails
  \/ PttRelease
  \/ GetPttState
  \/ Announce
  \/ DaemonWatchdog

DaemonSpec == DaemonInit /\ [][DaemonNext]_daemonVars

-----------------------------------------------------------------------------
(* The daemon's state has its type: the event loop's place in a handler    *)
(* and the shared PTT state under it.                                      *)
DaemonTypeOK ==
  /\ TypeOK
  /\ event \in {"idle", "announce_true", "announce_false"}
=============================================================================
