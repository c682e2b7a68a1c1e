------------------------------- MODULE Repeater -------------------------------
(***************************************************************************)
(* The cross-band repeater: its relay thread (openpulse-repeater), which   *)
(* keys rig_b through a SharedPtt of its own, and the daemon's event loop, *)
(* which starts and stops the thread and feeds it bursts over a bounded    *)
(* channel.  The repeater object moves into the thread and comes back when *)
(* the thread is joined.                                                   *)
(*                                                                         *)
(* The ID timer sees one time stamp per burst, so its clock stands while a *)
(* burst is handled; time that passed counts before the next one.          *)
(***************************************************************************)
EXTENDS SharedPtt, StationIdTimer, Sequences

CONSTANTS
  Relay,          \* the relay thread
  FullDuplex,     \* choices for config.full_duplex: set of BOOLEAN
  QueueCap,       \* capacity of the burst channel
  MaxSenseFaults  \* MAX_SENSE_FAULTS

ASSUME RelayAssumption == Relay \in Callers

VARIABLES
  full_duplex,   \* config.full_duplex
  thread,        \* where the relay thread is; "off" when there is none
  bursts,        \* the channel: each burst's session, "this" or "earlier"
  burst,         \* the burst being relayed, or "none"
  sense_faults,  \* consecutive unreadable senses
  rep_timer,     \* id_timer
  repeater_stop, \* "none", "clear" or "set"
  event_loop,    \* "idle", "announce" (enable) or "joining" (disable)
  told,          \* the last RepeaterChanged clients were sent
  rep_refused    \* history: rig_b refused the thread's last release

daemonSide == <<repeater_stop, event_loop>>
repVars == <<vars, full_duplex, thread, bursts, burst, sense_faults, rep_timer,
             daemonSide, told, rep_refused>>

RepInit ==
  /\ Init
  /\ full_duplex \in FullDuplex
  /\ thread = "off"
  /\ bursts = <<>>
  /\ burst = "none"
  /\ sense_faults = 0
  /\ rep_timer = new_timer
  /\ repeater_stop = "none"
  /\ event_loop = "idle"
  /\ told = FALSE
  /\ rep_refused = FALSE

Threads == {"off", "drain", "wait", "acquire", "send", "stamp", "release", "end", "failed", "done"}

session_guard == guard[Relay]

-----------------------------------------------------------------------------
(* run_full_duplex.                                                        *)

(* Mutant: bursts queued before the session are relayed.                   *)
DrainKeeps ==
  /\ thread = "drain"
  /\ sense_faults' = 0
  /\ thread' = "wait"
  /\ UNCHANGED <<vars, full_duplex, bursts, burst, rep_timer, daemonSide, told, rep_refused>>

(* A session starts: what is queued predates it.                           *)
Drain ==
  /\ thread = "drain"
  /\ bursts' = <<>>
  /\ sense_faults' = 0
  /\ thread' = "wait"
  /\ UNCHANGED <<vars, full_duplex, burst, rep_timer, daemonSide, told, rep_refused>>

StopSeen ==
  /\ thread = "wait"
  /\ repeater_stop = "set"
  /\ thread' = "end"
  /\ UNCHANGED <<vars, full_duplex, bursts, burst, sense_faults, rep_timer,
                 daemonSide, told, rep_refused>>

(* sense_output_band's verdict on the band, and the decoder's on the       *)
(* burst: what becomes of it, and the fault count.  A session that holds   *)
(* its key does not sense.                                                 *)
Verdicts ==
  {[to |-> "wait", faults |-> sense_faults],          \* did not decode
   [to |-> "failed", faults |-> 0]}                   \* the decoder panicked
  \cup IF session_guard.st = "live"
       THEN {[to |-> "acquire", faults |-> sense_faults]}
       ELSE {[to |-> "acquire", faults |-> 0],        \* Clear
             [to |-> "wait", faults |-> 0],           \* Busy
             [to |-> IF sense_faults + 1 >= MaxSenseFaults THEN "failed" ELSE "wait",
              faults |-> sense_faults + 1]}           \* Unreadable

(* A burst is received, decoded and sensed for.                            *)
TakeBurst ==
  /\ thread = "wait"
  /\ repeater_stop # "set"
  /\ bursts # <<>>
  /\ \E v \in Verdicts :
       /\ thread' = v.to
       /\ sense_faults' = v.faults
       /\ burst' = IF v.to = "acquire" THEN Head(bursts) ELSE "none"
  /\ bursts' = Tail(bursts)
  /\ UNCHANGED <<vars, full_duplex, rep_timer, daemonSide, told, rep_refused>>

-----------------------------------------------------------------------------
(* acquire_key.                                                            *)

(* Mutant: a session's key is taken to be live without asking.             *)
ReuseKeyBlindly ==
  /\ session_guard.st = "live"
  /\ thread' = "send"
  /\ UNCHANGED vars

(* A session key that is still ours is extended.                           *)
ReuseKey ==
  /\ Extend(Relay)
  /\ thread' = "send"

(* One the watchdog took is dropped, and a new one taken.                  *)
DropExpired ==
  /\ session_guard.st = "live" /\ ~is_owned(session_guard)
  /\ UnkeyOwnedCheck(Relay)
  /\ UNCHANGED thread

TakeKey ==
  \/ Keyed(Relay, FALSE) /\ UNCHANGED thread
  \/ ReadGeneration(Relay) /\ thread' = "send"

(* Refused by the rig, or because a failed release left rig_b armed.       *)
NoKey ==
  /\ session_guard.st = "none"
  /\ KeyedFails(Relay) \/ (armed /\ UNCHANGED vars)
  /\ thread' = "failed"

Acquire ==
  /\ thread = "acquire"
  /\ ReuseKey \/ DropExpired \/ TakeKey \/ NoKey
  /\ rep_refused' = (rep_refused /\ ~(owner # Relay /\ owner' = Relay))
  /\ UNCHANGED <<full_duplex, bursts, burst, sense_faults, rep_timer, daemonSide, told>>

-----------------------------------------------------------------------------
(* Transmission, and what follows it.                                      *)

(* The timer after note_tx and an ID that went out if it was due.          *)
Identify(t) == IF id_due(note_tx(t)) THEN mark_identified(note_tx(t)) ELSE note_tx(t)

(* The frame, and the ID when one is due, go out under one key.            *)
SendBurst ==
  /\ thread = "send"
  /\ rep_timer' = Identify(rep_timer)
  /\ thread' = IF full_duplex THEN "stamp" ELSE "release"
  /\ UNCHANGED <<vars, full_duplex, bursts, burst, sense_faults, daemonSide, told, rep_refused>>

(* Either transmission fails, or something panics.                         *)
SendFails ==
  /\ thread = "send"
  /\ rep_timer' = note_tx(rep_timer)
  /\ thread' = "failed"
  /\ UNCHANGED <<vars, full_duplex, bursts, burst, sense_faults, daemonSide, told, rep_refused>>

(* Full duplex: the deadline is stamped again and the guard is kept.       *)
Stamp ==
  /\ thread = "stamp"
  /\ Extend(Relay) \/ (~is_owned(session_guard) /\ UNCHANGED vars)
  /\ thread' = "wait"
  /\ burst' = "none"
  /\ UNCHANGED <<full_duplex, bursts, sense_faults, rep_timer, daemonSide, told, rep_refused>>

(* The guard is released or dropped: after a half-duplex burst, at the end *)
(* of a session, on an error or in release_after_abnormal_exit.            *)
Release ==
  /\ thread \in {"release", "end", "failed"}
  /\ UnkeyOwnedCheck(Relay) \/ UnkeyOwnedAct(Relay)
  /\ rep_refused' = IF session_guard.st = "checked" THEN armed' ELSE rep_refused
  /\ thread' = IF thread = "release" /\ guard'[Relay] = NoGuard THEN "wait" ELSE thread
  /\ burst' = IF thread' = "release" THEN burst ELSE "none"
  /\ UNCHANGED <<full_duplex, bursts, sense_faults, rep_timer, daemonSide, told>>

(* Mutant: an abnormal exit leaves the session's guard in the repeater.    *)
ExitKeepsGuard ==
  /\ thread \in {"end", "failed"}
  /\ thread = "end" => session_guard = NoGuard
  /\ thread' = "done"
  /\ told' = (told /\ thread = "end")
  /\ bursts' = [i \in DOMAIN bursts |-> "earlier"]
  /\ burst' = "none"
  /\ UNCHANGED <<vars, full_duplex, sense_faults, rep_timer, daemonSide, rep_refused>>

(* Mutant: a failure is left for the next command to find.                 *)
ExitSilently ==
  /\ thread \in {"end", "failed"}
  /\ session_guard = NoGuard
  /\ thread' = "done"
  /\ bursts' = [i \in DOMAIN bursts |-> "earlier"]
  /\ burst' = "none"
  /\ UNCHANGED <<vars, full_duplex, sense_faults, rep_timer, daemonSide, told, rep_refused>>

(* The thread ends; a failure is reported by the thread itself.            *)
Exit ==
  /\ thread \in {"end", "failed"}
  /\ session_guard = NoGuard
  /\ thread' = "done"
  /\ told' = (told /\ thread = "end")
  /\ bursts' = [i \in DOMAIN bursts |-> "earlier"]
  /\ burst' = "none"
  /\ UNCHANGED <<vars, full_duplex, sense_faults, rep_timer, daemonSide, rep_refused>>

ThreadStep ==
  \/ Drain \/ StopSeen \/ TakeBurst \/ Acquire \/ SendBurst \/ SendFails
  \/ Stamp \/ Release \/ Exit

-----------------------------------------------------------------------------
(* The daemon's event loop.                                                *)

(* A burst is offered to the running repeater; a full channel drops it.    *)
OfferBurst ==
  /\ event_loop = "idle"
  /\ repeater_stop = "clear"
  /\ Len(bursts) < QueueCap
  /\ bursts' = Append(bursts, IF thread = "done" THEN "earlier" ELSE "this")
  /\ UNCHANGED <<vars, full_duplex, thread, burst, sense_faults, rep_timer,
                 daemonSide, told, rep_refused>>

(* EnableRepeater reaps a finished thread, spawns a new one, and then      *)
(* tells the clients.  While a thread runs it reports an error.            *)
EnableRepeater ==
  /\ event_loop = "idle"
  /\ thread \in {"off", "done"}
  /\ thread' = "drain"
  /\ repeater_stop' = "clear"
  /\ event_loop' = "announce"
  /\ UNCHANGED <<vars, full_duplex, bursts, burst, sense_faults, rep_timer, told, rep_refused>>

AnnounceEnabled ==
  /\ event_loop = "announce"
  /\ told' = TRUE
  /\ event_loop' = "idle"
  /\ UNCHANGED <<vars, full_duplex, thread, bursts, burst, sense_faults,
                 rep_timer, repeater_stop, rep_refused>>

(* DisableRepeater: reaps a finished thread; stops a running one.          *)
DisableRepeater ==
  /\ event_loop = "idle"
  /\ \/ /\ thread = "done"
        /\ thread' = "off"
        /\ repeater_stop' = "none"
        /\ UNCHANGED event_loop
     \/ /\ thread \notin {"off", "done"}
        /\ repeater_stop' = "set"
        /\ event_loop' = "joining"
        /\ UNCHANGED thread
  /\ UNCHANGED <<vars, full_duplex, bursts, burst, sense_faults, rep_timer, told, rep_refused>>

(* The event loop waits for the thread, and the repeater comes back.       *)
Join ==
  /\ event_loop = "joining"
  /\ thread = "done"
  /\ thread' = "off"
  /\ repeater_stop' = "none"
  /\ event_loop' = "idle"
  /\ told' = FALSE
  /\ UNCHANGED <<vars, full_duplex, bursts, burst, sense_faults, rep_timer, rep_refused>>

(* The watchdog of rig_b.                                                  *)
RepWatchdog ==
  /\ Watchdog \/ Tick
  /\ UNCHANGED <<full_duplex, thread, bursts, burst, sense_faults, rep_timer,
                 daemonSide, told, rep_refused>>

(* Time passes between two bursts.                                         *)
RepClock ==
  /\ burst = "none"
  /\ rep_timer' = IdTick(rep_timer)
  /\ UNCHANGED <<vars, full_duplex, thread, bursts, burst, sense_faults,
                 daemonSide, told, rep_refused>>

RepNext ==
  \/ ThreadStep
  \/ OfferBurst \/ EnableRepeater \/ AnnounceEnabled \/ DisableRepeater \/ Join
  \/ RepWatchdog \/ RepClock

RepSpec == RepInit /\ [][RepNext]_repVars

(* The thread runs, and its transmissions return; the event loop runs.     *)
RepFairSpec == RepSpec /\ WF_repVars(ThreadStep) /\ WF_repVars(Join)

-----------------------------------------------------------------------------
(* The repeater's state has its type.                                      *)
RepTypeOK ==
  /\ TypeOK
  /\ thread \in Threads
  /\ Len(bursts) <= QueueCap
  /\ burst \in {"none", "this", "earlier"}
  /\ sense_faults \in 0 .. MaxSenseFaults
  /\ rep_timer \in IdTimers

(* A repeater that is handed back holds no key, however its session ended, *)
(* unless rig_b refused the release (release_after_abnormal_exit).         *)
HandedBackUnkeyed == thread \in {"off", "done"} /\ owner = Relay => rep_refused

(* Clients that are told the repeater runs have a thread behind it, or one *)
(* that DisableRepeater is joining: a failure is reported after the enable *)
(* it ends, never before (spawn_repeater and the events around it).        *)
ToldMeansRunning == told => thread \notin {"off", "done"} \/ event_loop = "joining"

(* What a session carries over is still good when it goes on the air.  No  *)
(* burst queued before the session is relayed in it, neither one flushed   *)
(* before a disable nor one sent to a thread that had already failed       *)
(* (run_full_duplex's drain, #1324); and a transmission reuses the         *)
(* session's key only while it is live and the thread's own, whatever the  *)
(* watchdog did since the last one (acquire_key, "the signal to re-key     *)
(* rather than transmit into an unkeyed rig").                             *)
RelayIsCurrent ==
  /\ [][burst' # "earlier"]_repVars
  /\ [][session_guard.st = "live" /\ thread # "send" /\ thread' = "send"
          => owner' = Relay /\ asserted_at' # None]_repVars

(* DisableRepeater always returns: the event loop joins the thread.        *)
DisableCompletes == []<>(event_loop # "joining")
=============================================================================
