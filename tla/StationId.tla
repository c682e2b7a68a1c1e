------------------------------ MODULE StationId ------------------------------
(***************************************************************************)
(* Automatic identification in the daemon: the end of every receive tick   *)
(* reads the engine's transmit counter, and transmits an ID when the       *)
(* interval or the sign-off is due, unless another holder has the key.     *)
(***************************************************************************)
EXTENDS StationIdTimer

CONSTANTS
  MaxBusy,  \* bound on how long another holder keeps the key
  IdFaults  \* how keyed_transmit may fail: subset of {"Assert", "Transmit"}

VARIABLES
  id_timer,  \* the timer
  unseen,    \* frames_transmitted differs from tx_frames_seen
  deferred,  \* id_deferred_at is set
  held,      \* 0, or for how many more ticks another holder has the key
  owed,      \* history: a frame went out and no ID has gone out since
  id_failed  \* history: how the attempt to identify the last frame failed, or "no"

idVars == <<id_timer, unseen, deferred, held, owed, id_failed>>

IdInit ==
  /\ id_timer = new_timer
  /\ unseen = FALSE
  /\ deferred = FALSE
  /\ held = 0
  /\ owed = FALSE
  /\ id_failed = "no"

(* Any part of the daemon transmits, between two receive ticks.            *)
FrameTransmitted ==
  /\ held = 0
  /\ unseen' = TRUE
  /\ owed' = TRUE
  /\ id_failed' = "no"
  /\ UNCHANGED <<id_timer, deferred, held>>

(* The operator takes the key; the watchdog bounds the hold.               *)
KeyTaken ==
  /\ held = 0
  /\ held' = MaxBusy
  /\ UNCHANGED <<id_timer, unseen, deferred, owed, id_failed>>

KeyFreed ==
  /\ held > 0
  /\ held' = 0
  /\ UNCHANGED <<id_timer, unseen, deferred, owed, id_failed>>

(* Mutant: a deferred ID starts the timer over like one that went out.     *)
AlreadyKeyedMarks(t) ==
  /\ held > 0
  /\ id_timer' = mark_identified(t)
  /\ deferred' = TRUE
  /\ UNCHANGED <<owed, id_failed>>

(* keyed_transmit of an ID that is due.  Held by another emission it is    *)
(* deferred, and the timer stays as it is; once it has gone out, or the    *)
(* rig or the modulator has failed, the timer starts over.                 *)
AlreadyKeyed(t) ==
  /\ held > 0
  /\ id_timer' = t
  /\ deferred' = TRUE
  /\ UNCHANGED <<owed, id_failed>>

IdTransmitted(t) ==
  /\ held = 0
  /\ id_timer' = mark_identified(t)
  /\ deferred' = FALSE
  /\ owed' = FALSE
  /\ id_failed' = "no"

IdFails(t) ==
  /\ held = 0
  /\ id_failed' \in IdFaults
  /\ id_timer' = mark_identified(t)
  /\ deferred' = FALSE
  /\ UNCHANGED owed

Due(t) == id_due(t) \/ signoff_due(t)

(* One receive tick, a clock tick after the last one.                      *)
ReceiveLoopTick ==
  LET t == IF unseen THEN note_tx(IdTick(id_timer)) ELSE IdTick(id_timer)
  IN /\ \/ Due(t) /\ (AlreadyKeyed(t) \/ IdTransmitted(t) \/ IdFails(t))
        \/ ~Due(t) /\ id_timer' = t /\ UNCHANGED <<deferred, owed, id_failed>>
     /\ unseen' = FALSE
     /\ held' = IF held > 0 THEN held - 1 ELSE 0

IdNext == FrameTransmitted \/ KeyTaken \/ KeyFreed \/ ReceiveLoopTick

IdSpec == IdInit /\ [][IdNext]_idVars

(* The receive loop keeps ticking, and whoever holds the key leaves it     *)
(* free at a tick now and then: the watchdog bounds every hold.            *)
IdFairSpec == IdSpec /\ WF_idVars(ReceiveLoopTick) /\ SF_idVars(held = 0 /\ ReceiveLoopTick)

-----------------------------------------------------------------------------
(* The daemon's identification state has its type.                         *)
IdTypeOK ==
  /\ id_timer \in IdTimers
  /\ {unseen, deferred, owed} \subseteq BOOLEAN
  /\ id_failed \in IdFaults \cup {"no"}
  /\ held \in 0 .. MaxBusy

(* Whatever the station transmits is identified: after every frame an ID   *)
(* goes out, or the attempt to send one fails, however often the key is in *)
(* other hands when it falls due ("it goes out when the key is released").  *)
FramesAreIdentified == owed ~> (~owed \/ id_failed # "no")
=============================================================================
