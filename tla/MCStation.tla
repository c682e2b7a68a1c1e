------------------------------ MODULE MCStation ------------------------------
(***************************************************************************)
(* What runs at one transmitter: SharedPtt under its most general clients, *)
(* the programs that key through it (the ARDOP TNC, the daemon, the        *)
(* repeater), the TNC between its host and the modem, the daemon's station *)
(* ID, the adaptive rate controller alone and on a link, and the           *)
(* reassembly of fragments.  A behaviour is one of theirs: `part' says     *)
(* whose, and the others rest.  In `ptt' two threads emit; in the programs *)
(* one does.  The rate ladder has three mapped levels with a gap, and      *)
(* readings on either side of every threshold.  Of the fragmented          *)
(* messages, m1, m2 and m3 share a key.                                    *)
(***************************************************************************)
EXTENDS ArdopPtt, DaemonPtt, Repeater, TncSession, StationId, OtaController, OtaLink, Sar, TLC

CONSTANTS m1, m2, m3, m4

MCFloor == (1 :> None) @@ (2 :> 2) @@ (3 :> None) @@ (4 :> 5)
MCCeiling == (1 :> 3) @@ (2 :> 6) @@ (3 :> None) @@ (4 :> None)

MCSegmentKey == [m \in Messages |-> IF m = m4 THEN "own" ELSE "shared"]
MCFragmentTotal == [m \in Messages |-> IF m = m3 THEN 3 ELSE 2]

VARIABLE part

ardopState == <<manual_keyed, conn, refused, unmarked>>
repState == <<full_duplex, thread, bursts, burst, sense_faults, rep_timer,
              daemonSide, told, rep_refused>>
pttUsers == <<event, ardopState, repState, idVars>>
dataVars == <<tncVars, ctlVars, linkVars, sarVars>>

StationInit ==
  /\ part \in {"ptt", "tnc", "daemon", "repeater", "tnc_session", "station_id",
              "controller", "link", "sar"}
  /\ ArdopInit /\ DaemonInit /\ RepInit /\ IdInit
  /\ TncInit /\ CtlInit /\ LinkInit /\ SarInit
  /\ part # "repeater" => full_duplex
  /\ part # "tnc_session" => ~adaptive

StationNext ==
  \/ part = "ptt" /\ Next /\ UNCHANGED <<pttUsers, dataVars, part>>
  \/ part = "tnc" /\ ArdopNext /\ UNCHANGED <<event, repState, idVars, dataVars, part>>
  \/ part = "daemon" /\ DaemonNext /\ UNCHANGED <<ardopState, repState, idVars, dataVars, part>>
  \/ part = "repeater" /\ RepNext /\ UNCHANGED <<event, ardopState, idVars, dataVars, part>>
  \/ /\ part = "station_id" /\ IdNext
     /\ UNCHANGED <<vars, event, ardopState, repState, dataVars, part>>
  \/ /\ part = "tnc_session" /\ TncNext
     /\ UNCHANGED <<vars, pttUsers, ctlVars, linkVars, sarVars, part>>
  \/ /\ part = "controller" /\ CtlNext
     /\ UNCHANGED <<vars, pttUsers, tncVars, linkVars, sarVars, part>>
  \/ part = "link" /\ LinkNext /\ UNCHANGED <<vars, pttUsers, tncVars, ctlVars, sarVars, part>>
  \/ part = "sar" /\ SarNext /\ UNCHANGED <<vars, pttUsers, tncVars, ctlVars, linkVars, part>>

stationVars == <<vars, pttUsers, dataVars, part>>

(* Each part's own fairness.                                               *)
StationFairness ==
  /\ Fairness
  /\ \A c \in Clients :
       WF_ardopVars(/\ part = "tnc"
                    /\ DisconnectCheck(c) \/ DisconnectUnkey(c) \/ DisconnectClear(c))
  /\ WF_repVars(part = "repeater" /\ ThreadStep)
  /\ WF_repVars(part = "repeater" /\ Join)
  /\ WF_tncVars(part = "tnc_session" /\ TncWorker)
  /\ \A d \in DataClients : WF_tncVars(part = "tnc_session" /\ DataPort(d))
  /\ WF_idVars(part = "station_id" /\ ReceiveLoopTick)
  /\ SF_idVars(part = "station_id" /\ held = 0 /\ ReceiveLoopTick)
  /\ WF_linkVars(part = "link" /\ Transmit)
  /\ WF_linkVars(/\ part = "link"
                 /\ Unheard \/ HearFailed \/ \E snr \in LinkReadings : HearDecoded(snr))
  /\ WF_linkVars(part = "link" /\ (HearAck \/ AckTimeout))

StationSpec == StationInit /\ [][StationNext]_stationVars /\ StationFairness

-----------------------------------------------------------------------------
(* Every part keeps its type, and every counter, queue and table the bound *)
(* the code gives it.                                                      *)
StationTypeOK ==
  /\ TypeOK /\ ArdopTypeOK /\ DaemonTypeOK /\ RepTypeOK /\ IdTypeOK
  /\ TncTypeOK /\ CtlTypeOK /\ LinkTypeOK /\ SarTypeOK

(* Every edge the observers are told is one that just happened, in every   *)
(* program that keys: a key that was taken, or one that ended, each told   *)
(* once.  What the daemon sends in answer to a command is the state, told  *)
(* after the lock is released, and may repeat an edge.                     *)
EdgesAreTransitions ==
  [][EdgeIsTransition \/ (part = "daemon" /\ Announce)]_daemonVars

(* Nobody ends a key that is not theirs.  In the daemon and in the         *)
(* repeater a guard's release ends only the key that guard took (the       *)
(* comment on unkey_owned); and once the daemon's operator holds the key,  *)
(* only the operator and the watchdog end it: an automatic emission        *)
(* neither takes nor releases the operator's carrier (handle_ptt_command). *)
KeyEndsByRight ==
  /\ [][(part \in {"daemon", "repeater"}) =>
          \A c \in Callers : UnkeyOwnedAct(c) /\ armed /\ ~armed' => owner = c]_vars
  /\ [][part = "daemon" /\ owner = "operator" /\ owner' # "operator"
          => PttRelease \/ DaemonWatchdog]_daemonVars

(* A repeater that is handed back holds no key, however its session ended, *)
(* unless rig_b refused the release (release_after_abnormal_exit).         *)
RepeaterComesBackUnkeyed == part = "repeater" => HandedBackUnkeyed

(* Nothing holds the daemon's event loop for ever: the OTA retry loop,     *)
(* which runs in it, ends every send whatever the channel and the peer do, *)
(* and DisableRepeater, which joins the repeater's thread, returns.        *)
EventLoopReturns == SendEnds /\ DisableCompletes
=============================================================================
