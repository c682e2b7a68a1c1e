------------------------------ MODULE Discovery ------------------------------
(***************************************************************************)
(* Station discovery in one daemon: the dwell state machine                *)
(* (openpulse-discovery's DiscoverySm and DiscoveryRuntime::tick) and the  *)
(* daemon code that executes its outcomes on the rig's dial.  An idle      *)
(* station saves its home frequency, tunes to the JS8 calling frequency,   *)
(* dwells there for a while, beaconing and listening, and returns home; an *)
(* agreed rendezvous takes the dial to a working channel instead.          *)
(*                                                                         *)
(* A retune is executed in the tick that asks for it, so Activating is     *)
(* passed through inside an action.  One unit of time is one JS8 slot; the *)
(* receive tick runs any number of times in it.  What the two stations of  *)
(* a rendezvous say to each other is module Rendezvous; here an agreement  *)
(* is an input.                                                            *)
(***************************************************************************)
EXTENDS Option, Naturals

CONSTANTS
  OperatorFreqs,      \* frequencies the operator or a QSY may choose
  Calling, Working,   \* the JS8 calling frequency, the agreed working channel
  Grace, Dwell,       \* idle_grace_ms and dwell_ms, in slots
  SwitchSlots,        \* DEFAULT_SWITCH_SLOTS
  Interval, Frames,   \* heartbeat_interval_slots, frames of one beacon over
  TxMode,             \* "RxOnly", "Beacon" or "Full"
  CatFaults           \* choices for what may happen to a CAT command:
                      \* sets of "refused" and "reply_lost"

ASSUME IntervalAssumption == Interval \in Nat \ {0}   \* .max(1)
ASSUME FreqAssumption == None \notin OperatorFreqs \cup {Calling, Working}

VARIABLES
  cat_faults,      \* what may happen to CAT commands in this behaviour
  disc_state,      \* "Inactive" or "Dwelling"
  enabled,
  idle_since,      \* None, or for how many slots the station has been idle
  dwell_left,      \* None, or slots until dwell_deadline_ms
  slot_new,        \* the slot index has grown since SlotTracker read it
  slot_seen,       \* SlotTracker has read an index before
  beacon_wait,     \* slots_since_beacon
  beacon_queue,    \* frames left of the over being sent
  home,            \* discovery_home_freq_hz
  last_freq,       \* last_freq_hz
  qsy_due,         \* rendezvous_qsy_due: None, or slots until it is due
  engaged,         \* a session, handshake, transfer or OTA link is active
  dial,            \* where the rig is tuned
  wanted,          \* history: the frequency last chosen for the station
  disturbed        \* history: a return home may have been spoilt

discVars == <<cat_faults, disc_state, enabled, idle_since, dwell_left,
              slot_new, slot_seen, beacon_wait, beacon_queue,
              home, last_freq, qsy_due, engaged, dial, wanted, disturbed>>

lifecycle == <<disc_state, idle_since, dwell_left>>
beacons == <<slot_new, slot_seen, beacon_wait, beacon_queue>>

DiscInit ==
  /\ cat_faults \in CatFaults
  /\ disc_state = "Inactive"
  /\ enabled \in BOOLEAN
  /\ idle_since = None
  /\ dwell_left = None
  /\ slot_new = TRUE
  /\ slot_seen = FALSE
  /\ beacon_wait = 0
  /\ beacon_queue = 0
  /\ home = None
  /\ last_freq = None
  /\ qsy_due = None
  /\ engaged = FALSE
  /\ dial \in OperatorFreqs
  /\ wanted = dial
  /\ disturbed = FALSE

-----------------------------------------------------------------------------
(* The rig.  Only a command that is acknowledged is remembered as the last *)
(* frequency.                                                              *)

TuneOk(f) ==
  /\ dial' = f
  /\ last_freq' = f

TuneFails(f) ==
  /\ \/ "refused" \in cat_faults /\ UNCHANGED dial
     \/ "reply_lost" \in cat_faults /\ dial' = f
  /\ UNCHANGED last_freq

StandDown ==
  /\ disc_state' = "Inactive"
  /\ idle_since' = None
  /\ dwell_left' = None

(* O::RestoreHome: the saved frequency is taken even if the rig refuses.   *)
RestoreHome ==
  /\ \/ home = None /\ UNCHANGED <<dial, last_freq, disturbed>>
     \/ home # None /\ TuneOk(home) /\ UNCHANGED disturbed
     \/ home # None /\ TuneFails(home) /\ disturbed' = TRUE
  /\ home' = None

-----------------------------------------------------------------------------
(* discovery_tick, when an agreed rendezvous has come due.  It takes the   *)
(* dial whatever the station is doing and hands over to ConnectPeer, which *)
(* may refuse, whether or not the rig followed.                            *)
RendezvousDue ==
  /\ qsy_due = 0
  /\ qsy_due' = None
  /\ home' = None
  /\ \/ TuneOk(Working) /\ disturbed' = FALSE
     \/ TuneFails(Working) /\ disturbed' = TRUE
  /\ wanted' = Working
  /\ IF disc_state = "Inactive" THEN UNCHANGED lifecycle ELSE StandDown
  /\ engaged' \in {engaged, TRUE}
  /\ UNCHANGED <<enabled, beacons>>

-----------------------------------------------------------------------------
(* discovery_tick while inactive: on_tick, and the retune it asks for.     *)

IdleSince ==
  IF enabled /\ ~engaged
  THEN IF idle_since = None THEN 0 ELSE idle_since
  ELSE None

GraceHeld == IdleSince # None /\ IdleSince >= Grace

Wait ==
  /\ disc_state = "Inactive"
  /\ qsy_due # 0
  /\ ~GraceHeld
  /\ idle_since' = IdleSince
  /\ UNCHANGED <<disc_state, dwell_left, enabled, beacons, home, last_freq,
                 qsy_due, engaged, dial, wanted, disturbed>>

(* Mutant: the home frequency is read after the rig has been tuned.        *)
ActivateTunesFirst ==
  /\ disc_state = "Inactive"
  /\ qsy_due # 0
  /\ GraceHeld
  /\ TuneOk(Calling)
  /\ home' = Calling
  /\ disc_state' = "Dwelling"
  /\ disturbed' = (disturbed \/ last_freq # wanted)
  /\ idle_since' = None
  /\ UNCHANGED <<dwell_left, enabled, beacons, qsy_due, engaged, wanted>>

(* The home frequency is the last one the daemon set itself.  On a failed  *)
(* retune the machine's own RestoreHome is dropped (qsy_complete).         *)
Activate ==
  /\ disc_state = "Inactive"
  /\ qsy_due # 0
  /\ GraceHeld
  /\ home' = last_freq
  /\ \/ /\ TuneOk(Calling)
        /\ disc_state' = "Dwelling"
        /\ disturbed' = (disturbed \/ last_freq # wanted)
     \/ /\ TuneFails(Calling)
        /\ UNCHANGED disc_state
        /\ disturbed' = TRUE
  /\ idle_since' = None
  /\ dwell_left' = None
  /\ UNCHANGED <<enabled, beacons, qsy_due, engaged, wanted>>

-----------------------------------------------------------------------------
(* discovery_tick while dwelling.  The session conditions are not looked   *)
(* at any more.                                                            *)

DwellOver ==
  /\ disc_state = "Dwelling"
  /\ qsy_due # 0
  /\ dwell_left = 0
  /\ StandDown
  /\ RestoreHome
  /\ UNCHANGED <<enabled, beacons, qsy_due, engaged, wanted>>

(* maybe_transmit: a queued frame, or a new over when it is due.           *)
BeaconDue == beacon_queue > 0 \/ beacon_wait + 1 >= Interval

Transmits == TxMode # "RxOnly" /\ BeaconDue

TransmitSlot ==
  /\ Transmits
  /\ IF beacon_queue > 0
     THEN beacon_queue' = beacon_queue - 1 /\ UNCHANGED beacon_wait
     ELSE beacon_queue' = Frames - 1 /\ beacon_wait' = 0
  /\ UNCHANGED dwell_left

(* on_slot: the first slot that is not transmitted in arms the deadline.   *)
ListenSlot ==
  /\ ~Transmits
  /\ beacon_wait' = IF TxMode = "RxOnly" THEN beacon_wait ELSE beacon_wait + 1
  /\ dwell_left' = IF Dwell > 0 /\ dwell_left = None THEN Dwell ELSE dwell_left
  /\ UNCHANGED beacon_queue

(* A slot boundary; an agreement with a peer may be surfaced at it.        *)
DwellSlot ==
  /\ disc_state = "Dwelling"
  /\ qsy_due # 0
  /\ dwell_left # 0
  /\ slot_new
  /\ slot_new' = FALSE
  /\ slot_seen' = TRUE
  /\ IF slot_seen
     THEN /\ TransmitSlot \/ ListenSlot
          /\ UNCHANGED qsy_due \/ (TxMode # "RxOnly" /\ qsy_due' = SwitchSlots)
     ELSE UNCHANGED <<beacon_wait, beacon_queue, dwell_left, qsy_due>>
  /\ UNCHANGED <<disc_state, idle_since, enabled, home, last_freq, engaged,
                 dial, wanted, disturbed>>

DiscoveryTick ==
  \/ RendezvousDue
  \/ Wait
  \/ Activate
  \/ DwellOver
  \/ DwellSlot

-----------------------------------------------------------------------------
(* Commands, the station's other business, and time.                       *)

(* Disabling stands the machine down; the RestoreHome it returns is        *)
(* discarded (set_discovery_enabled).                                      *)
SetDiscoveryEnabled(on) ==
  /\ enabled # on
  /\ enabled' = on
  /\ IF ~on /\ disc_state = "Dwelling"
     THEN StandDown /\ disturbed' = TRUE
     ELSE UNCHANGED <<lifecycle, disturbed>>
  /\ UNCHANGED <<beacons, home, last_freq, qsy_due, engaged, dial, wanted>>

(* The operator tunes; a dwell in progress is not told.                    *)
SetFreq(f) ==
  /\ \/ /\ TuneOk(f)
        /\ wanted' = f
        /\ disturbed' = (disc_state = "Dwelling")
     \/ TuneFails(f) /\ UNCHANGED wanted /\ disturbed' = TRUE
  /\ UNCHANGED <<lifecycle, enabled, beacons, home, qsy_due, engaged>>

(* A negotiated QSY tunes without recording the frequency                  *)
(* (execute_qsy_actions); it is not held back during a dwell.              *)
QsyMoves(f) ==
  /\ dial' = f
  /\ wanted' = f
  /\ disturbed' = (disc_state = "Dwelling")
  /\ UNCHANGED <<lifecycle, enabled, beacons, home, last_freq, qsy_due, engaged>>

SessionStarts ==
  /\ ~engaged
  /\ engaged' = TRUE
  /\ UNCHANGED <<lifecycle, enabled, beacons, home, last_freq, qsy_due, dial, wanted, disturbed>>

SessionEnds ==
  /\ engaged
  /\ engaged' = FALSE
  /\ UNCHANGED <<lifecycle, enabled, beacons, home, last_freq, qsy_due, dial, wanted, disturbed>>

Slot ==
  /\ slot_new' = TRUE
  /\ idle_since' = IF idle_since = None \/ idle_since >= Grace THEN idle_since ELSE idle_since + 1
  /\ dwell_left' = IF dwell_left = None \/ dwell_left = 0 THEN dwell_left ELSE dwell_left - 1
  /\ qsy_due' = IF qsy_due = None \/ qsy_due = 0 THEN qsy_due ELSE qsy_due - 1
  /\ UNCHANGED <<disc_state, enabled, slot_seen, beacon_wait, beacon_queue,
                 home, last_freq, engaged, dial, wanted, disturbed>>

DiscNext ==
  /\ \/ DiscoveryTick
     \/ \E on \in BOOLEAN : SetDiscoveryEnabled(on)
     \/ \E f \in OperatorFreqs : SetFreq(f) \/ QsyMoves(f)
     \/ SessionStarts
     \/ SessionEnds
     \/ Slot
  /\ UNCHANGED cat_faults

DiscSpec == DiscInit /\ [][DiscNext]_discVars

(* The receive tick runs in every slot, and slots go by.                   *)
DiscFairness ==
  /\ WF_discVars(DiscoveryTick /\ UNCHANGED cat_faults)
  /\ WF_discVars(Slot /\ UNCHANGED cat_faults)

DiscFairSpec == DiscSpec /\ DiscFairness

-----------------------------------------------------------------------------
(* The dwell's state, its counters and the dial have their types; the two  *)
(* countdowns stop at zero (DiscoverySm, RuntimeControlState).             *)
DiscTypeOK ==
  /\ disc_state \in {"Inactive", "Dwelling"}
  /\ {enabled, slot_new, slot_seen, engaged, disturbed} \subseteq BOOLEAN
  /\ idle_since \in {None} \cup 0 .. Grace
  /\ dwell_left \in {None} \cup 0 .. Dwell
  /\ beacon_wait \in 0 .. Interval - 1
  /\ beacon_queue \in 0 .. Frames - 1
  /\ {home, last_freq} \subseteq OperatorFreqs \cup {Calling, Working, None}
  /\ qsy_due \in {None} \cup 0 .. SwitchSlots
  /\ {dial, wanted} \subseteq OperatorFreqs \cup {Calling, Working}

(* A station that is not dwelling is on the frequency last chosen for it,  *)
(* by SetFreq, a QSY or a rendezvous, unless the return was spoilt: the    *)
(* rig failed, the daemon did not know the frequency when it left,         *)
(* somebody tuned during the dwell, or discovery was disabled in it        *)
(* (O::Retune, O::RestoreHome).                                            *)
DialReturns == disc_state = "Inactive" /\ ~disturbed => dial = wanted

(* Every dwell ends ("Maximum dwell before returning home",                *)
(* discovery_sm.rs).                                                       *)
DwellEnds == []<>(disc_state = "Inactive")

(* Disabling discovery brings the station back to the home frequency it    *)
(* saved ("stop discovery and return to the home frequency").              *)
DisableReturnsHome ==
  (~enabled /\ home = wanted) ~> (enabled \/ dial = wanted)
=============================================================================
