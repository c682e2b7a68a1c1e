------------------------------- MODULE ArdopPtt -------------------------------
(***************************************************************************)
(* PTT in the ARDOP TNC: the modem worker thread, which keys every burst   *)
(* through a PttKeyGuard, against the command connections, whose PTT TRUE, *)
(* PTT FALSE and disconnect handling run on blocking-pool threads.  They   *)
(* share one SharedPtt and the manual_keyed flag, which is an atomic of    *)
(* its own: each connection's lock sections and its load or store of the   *)
(* flag are separate steps.  Every step on the PTT state is one of         *)
(* SharedPtt's.                                                            *)
(***************************************************************************)
EXTENDS SharedPtt

CONSTANTS
  Worker,    \* the modem worker thread
  Clients,   \* command connections
  Host       \* the one connection that sends PTT commands

ASSUME WorkerAssumption == Worker \in Callers
ASSUME HostAssumption == Host \in Clients

VARIABLES
  manual_keyed,  \* ModemBridge.manual_keyed
  conn,          \* per connection, where its handler is
  refused,       \* history: the rig refused to release the host's last key
  unmarked       \* history: another connection's end cleared manual_keyed
                 \* after the host had taken its last key

ardopVars == <<vars, manual_keyed, conn, refused, unmarked>>

ConnStates ==
  {"ready", "store_true", "store_false", "leaving", "unkeying", "clearing", "gone"}

ArdopInit ==
  /\ Init
  /\ manual_keyed = FALSE
  /\ conn = [c \in Clients |-> "ready"]
  /\ refused = FALSE
  /\ unmarked = FALSE

-----------------------------------------------------------------------------
(* keyed_transmit: key, emit for any length of time, release.              *)
WorkerStep ==
  /\ \/ Keyed(Worker, TRUE)
     \/ KeyedFails(Worker)
     \/ ReadGeneration(Worker)
     \/ UnkeyOwnedCheck(Worker)
     \/ UnkeyOwnedAct(Worker)
  /\ UNCHANGED <<manual_keyed, conn, refused, unmarked>>

WatchdogStep ==
  /\ Watchdog \/ Tick
  /\ UNCHANGED <<manual_keyed, conn, refused, unmarked>>

-----------------------------------------------------------------------------
(* PTT TRUE: key without an observer, then mark the key as the host's.     *)
PttTrue ==
  /\ conn[Host] = "ready"
  /\ HostKey
  /\ conn' = [conn EXCEPT ![Host] = "store_true"]
  /\ refused' = FALSE
  /\ unmarked' = FALSE
  /\ UNCHANGED manual_keyed

PttTrueFails ==
  /\ conn[Host] = "ready"
  /\ UnguardedKeyFails
  /\ UNCHANGED <<manual_keyed, conn, refused, unmarked>>

(* Mutant: PTT TRUE does not mark the key as the host's.                   *)
StoreNothing ==
  /\ conn[Host] = "store_true"
  /\ conn' = [conn EXCEPT ![Host] = "ready"]
  /\ UNCHANGED <<vars, manual_keyed, refused, unmarked>>

StoreTrue ==
  /\ conn[Host] = "store_true"
  /\ manual_keyed' = TRUE
  /\ conn' = [conn EXCEPT ![Host] = "ready"]
  /\ unmarked' = FALSE
  /\ UNCHANGED <<vars, refused>>

(* PTT FALSE: unkey whoever holds the key, then clear the mark, also when  *)
(* the hardware release failed.                                            *)
PttFalse ==
  /\ conn[Host] = "ready"
  /\ HostUnkey(FALSE)
  /\ conn' = [conn EXCEPT ![Host] = "store_false"]
  /\ refused' = armed'
  /\ UNCHANGED <<manual_keyed, unmarked>>

StoreFalse ==
  /\ conn[Host] = "store_false"
  /\ manual_keyed' = FALSE
  /\ conn' = [conn EXCEPT ![Host] = "ready"]
  /\ UNCHANGED <<vars, refused, unmarked>>

-----------------------------------------------------------------------------
(* A connection ends, on any exit path: release_ptt_on_disconnect.         *)
Disconnect(c) ==
  /\ conn[c] = "ready"
  /\ conn' = [conn EXCEPT ![c] = IF manual_keyed THEN "leaving" ELSE "gone"]
  /\ UNCHANGED <<vars, manual_keyed, refused, unmarked>>

DisconnectCheck(c) ==
  /\ conn[c] = "leaving"
  /\ conn' = [conn EXCEPT ![c] = IF armed THEN "unkeying" ELSE "gone"]
  /\ UNCHANGED <<vars, manual_keyed, refused, unmarked>>

DisconnectUnkey(c) ==
  /\ conn[c] = "unkeying"
  /\ HostUnkey(TRUE)
  /\ conn' = [conn EXCEPT ![c] = "clearing"]
  /\ refused' = armed'
  /\ UNCHANGED <<manual_keyed, unmarked>>

DisconnectClear(c) ==
  /\ conn[c] = "clearing"
  /\ manual_keyed' = FALSE
  /\ conn' = [conn EXCEPT ![c] = "gone"]
  /\ unmarked' = (unmarked \/ owner = "host")
  /\ UNCHANGED <<vars, refused>>

Connect(c) ==
  /\ conn[c] = "gone"
  /\ conn' = [conn EXCEPT ![c] = "ready"]
  /\ UNCHANGED <<vars, manual_keyed, refused, unmarked>>

ArdopNext ==
  \/ WorkerStep
  \/ WatchdogStep
  \/ PttTrue
  \/ PttTrueFails
  \/ StoreTrue
  \/ PttFalse
  \/ StoreFalse
  \/ \E c \in Clients :
       \/ Disconnect(c)
       \/ DisconnectCheck(c)
       \/ DisconnectUnkey(c)
       \/ DisconnectClear(c)
       \/ Connect(c)

ArdopSpec == ArdopInit /\ [][ArdopNext]_ardopVars

(* As in SharedPtt; in addition a connection's handler runs to its end     *)
(* once its peer has gone.  Neither the worker nor a connected host is     *)
(* assumed to make progress.                                               *)
ArdopFairness ==
  /\ Fairness
  /\ \A c \in Clients :
       WF_ardopVars(DisconnectCheck(c) \/ DisconnectUnkey(c) \/ DisconnectClear(c))

ArdopFairSpec == ArdopSpec /\ ArdopFairness

-----------------------------------------------------------------------------
(* The TNC's state has its type: the flag, every connection's place in its *)
(* handler, and the shared PTT state under it.                             *)
ArdopTypeOK ==
  /\ TypeOK
  /\ manual_keyed \in BOOLEAN
  /\ conn \in [Clients -> ConnStates]
  /\ refused \in BOOLEAN /\ unmarked \in BOOLEAN

(* A host that vanishes while it holds the key takes the key with it,      *)
(* whatever other connections come and go (serve: "Release unconditionally *)
(* on every exit path").  Its key outlives its connection, until the       *)
(* watchdog ends it, only when the rig refused the release, or when        *)
(* another connection that was ending cleared manual_keyed after the host  *)
(* had keyed again, between its own release and its store.                 *)
GoneHostHoldsNoKey == conn[Host] = "gone" /\ owner = "host" => refused \/ unmarked

(* Ending a connection never takes the key of a worker burst, which its    *)
(* own guard releases (release_ptt_on_disconnect: "a monitor client        *)
(* disconnecting must not cut a station ID mid-emission").                 *)
DisconnectSparesWorker ==
  [][\A c \in Clients : DisconnectUnkey(c) => owner # Worker]_ardopVars
=============================================================================
