------------------------------ MODULE Handshake ------------------------------
(***************************************************************************)
(* The signed CONREQ/CONACK handshake between daemons, the secure session  *)
(* it is dialled in, and the key for authenticated ACKs it agrees on.      *)
(*                                                                         *)
(* A handshake frame is one SAR fragment.  A CONREQ is heard by the        *)
(* station it is addressed to; the others ignore it.  Signatures verify    *)
(* and clocks agree.  An ephemeral key is named by the number of the dial  *)
(* that made it, and derive_ack_key by the pair of ephemerals.             *)
(***************************************************************************)
EXTENDS Hpx, Option, Sequences, FiniteSets

CONSTANTS
  Daemons,    \* stations
  Contacts,   \* choices for who may dial whom: sets of pairs <<s, r>>
  AirLoses,   \* the air may lose a frame
  TxFails,    \* a transmission may fail at the sender (PTT, CSMA, audio)
  HsTimeout,  \* HANDSHAKE_TIMEOUT in clock ticks
  MaxDials    \* bound on ConnectPeer commands

ASSUME HsTimeoutAssumption == HsTimeout \in Nat \ {0}
ASSUME ContactsAssumption == \A c \in Contacts : c \subseteq Daemons \X Daemons

VARIABLES
  contacts,     \* who may dial whom in this behaviour
  hpx,          \* per station, the engine's session
  pending,      \* per station, pending_handshake: None or [dial, peer, age]
  ack_mac_key,  \* per station, None or <<dialler's dial, responder's dial>>
  verified,     \* per station, the stations in verified_peers
  qso,          \* per station, the station of the open logbook QSO, or None
  mail,         \* per station, handshake frames on their way to it
  dials,        \* number of ConnectPeer commands so far
  armed         \* history: [at, with, role, key] for every key armed

hsVars == <<contacts, hpx, pending, ack_mac_key, verified, qso, mail, dials, armed>>

HsInit ==
  /\ contacts \in Contacts
  /\ hpx = [s \in Daemons |-> NewSession]
  /\ pending = [s \in Daemons |-> None]
  /\ ack_mac_key = [s \in Daemons |-> None]
  /\ verified = [s \in Daemons |-> {}]
  /\ qso = [s \in Daemons |-> None]
  /\ mail = [s \in Daemons |-> <<>>]
  /\ dials = 0
  /\ armed = {}

ConReq(d, s) == [type |-> "ConReq", from |-> s, dial |-> d, kex |-> d]
ConAck(req, s) == [type |-> "ConAck", from |-> s, dial |-> req.dial, kex |-> req.dial]

-----------------------------------------------------------------------------
(* The engine's session.                                                   *)

(* begin_secure_session for a peer the trust policy admits or refuses.     *)
begin_secure_session(s, admitted) ==
  dispatch(dispatch(dispatch(s, "StartSession"), "DiscoveryOk"),
           IF admitted THEN "TrainingOk" ELSE "SignatureVerificationFailed")

(* end_secure_session of a session it can end.                             *)
end_secure_session(s) == dispatch(dispatch(s, "LocalCancel"), "TransferComplete")

(* ModemEngine::transmit refuses a session that is neither idle nor in     *)
(* transfer; otherwise the channel, the PTT or the audio may.              *)
TxOutcomes(s) ==
  {sent \in BOOLEAN : /\ sent => hpx[s].state \in {"Idle", "ActiveTransfer"}
                      /\ hpx[s].state \in {"Idle", "ActiveTransfer"} /\ ~TxFails => sent}

(* What arrives of a frame that was or was not transmitted.                *)
Arrivals(sent, frame) ==
  {h \in {<<>>, <<frame>>} : /\ ~sent => h = <<>>
                             /\ sent /\ ~AirLoses => h = <<frame>>}

-----------------------------------------------------------------------------
(* The operator's commands.                                                *)

(* ConnectPeer to a station the trust store refuses: an error is reported. *)
ConnectRefused(s, r) ==
  /\ dials < MaxDials
  /\ dials' = dials + 1
  /\ hpx[s].state = "Idle"
  /\ hpx' = [hpx EXCEPT ![s] = begin_secure_session(@, FALSE)]
  /\ UNCHANGED <<pending, ack_mac_key, verified, qso, mail, armed>>

(* ConnectPeer.  The CONREQ's transmission may fail; the daemon then waits *)
(* for its CONACK all the same.  Outside Idle the command only reports an  *)
(* error.                                                                  *)
ConnectPeer(s, r) ==
  LET d == dials + 1
  IN /\ dials < MaxDials
     /\ dials' = d
     /\ hpx[s].state = "Idle"
     /\ hpx' = [hpx EXCEPT ![s] = begin_secure_session(@, TRUE)]
     /\ qso' = [qso EXCEPT ![s] = r]
     /\ pending' = [pending EXCEPT ![s] = [dial |-> d, peer |-> r, age |-> 0]]
     /\ \E sent \in IF TxFails THEN BOOLEAN ELSE {TRUE} :
          \E h \in Arrivals(sent, ConReq(d, s)) :
            mail' = [mail EXCEPT ![r] = @ \o h]
     /\ UNCHANGED <<ack_mac_key, verified, armed>>

(* DisconnectPeer.  The handshake that is pending stays pending, and the   *)
(* key stays armed.  In a failed session it only reports an error.         *)
DisconnectPeer(s) ==
  /\ hpx[s].state = "ActiveTransfer"
  /\ hpx' = [hpx EXCEPT ![s] = end_secure_session(@)]
  /\ qso' = [qso EXCEPT ![s] = None]
  /\ UNCHANGED <<pending, ack_mac_key, verified, mail, dials, armed>>

-----------------------------------------------------------------------------
(* A receive tick: a frame or none, then expire_pending_handshake.         *)

ExpirePending(s, p) == IF p # None /\ p.age >= HsTimeout THEN None ELSE p

Arm(s, r, role, key) ==
  /\ ack_mac_key' = [ack_mac_key EXCEPT ![s] = key]
  /\ armed' = armed \cup {[at |-> s, with |-> r, role |-> role, key |-> key]}

(* handle_inbound_conreq: the key is armed before the CONACK is sent; the  *)
(* peer is recorded only if it was sent.                                   *)
OnConReq(s, m) ==
  \E sent \in TxOutcomes(s) : \E h \in Arrivals(sent, ConAck(m, s)) :
    /\ Arm(s, m.from, "responder", <<m.kex, m.dial>>)
    /\ verified' = [verified EXCEPT ![s] = IF sent THEN @ \cup {m.from} ELSE @]
    /\ mail' = [mail EXCEPT ![s] = Tail(@), ![m.from] = @ \o h]
    /\ pending' = [pending EXCEPT ![s] = ExpirePending(s, @)]

(* Mutant: any CONACK from the station that was dialled will do.           *)
AnswersAny(s, m) == pending[s] # None /\ m.from = pending[s].peer

(* The CONACK is bound to the pending CONREQ and comes from the station    *)
(* that was dialled.                                                       *)
Answers(s, m) ==
  /\ pending[s] # None
  /\ m.dial = pending[s].dial
  /\ m.from = pending[s].peer

(* handle_inbound_conack.                                                  *)
OnConAck(s, m) ==
  /\ mail' = [mail EXCEPT ![s] = Tail(@)]
  /\ \/ /\ Answers(s, m)
        /\ Arm(s, m.from, "dialler", <<pending[s].dial, m.kex>>)
        /\ verified' = [verified EXCEPT ![s] = @ \cup {m.from}]
        /\ pending' = [pending EXCEPT ![s] = None]
     \/ /\ ~Answers(s, m)
        /\ pending' = [pending EXCEPT ![s] = ExpirePending(s, @)]
        /\ UNCHANGED <<ack_mac_key, verified, armed>>

ReceiveTick(s) ==
  /\ mail[s] # <<>>
  /\ LET m == Head(mail[s])
     IN \/ m.type = "ConReq" /\ OnConReq(s, m)
        \/ m.type = "ConAck" /\ OnConAck(s, m)
  /\ UNCHANGED <<hpx, qso, dials>>

(* A tick that decodes nothing.                                            *)
QuietTick(s) ==
  /\ pending' = [pending EXCEPT ![s] = ExpirePending(s, @)]
  /\ pending'[s] # pending[s]
  /\ UNCHANGED <<hpx, ack_mac_key, verified, qso, mail, dials, armed>>

(* Time passes for every pending handshake.                                *)
HsClock ==
  LET older(p) == IF p = None THEN None ELSE [p EXCEPT !.age = IF @ < HsTimeout THEN @ + 1 ELSE @]
  IN /\ pending' = [s \in Daemons |-> older(pending[s])]
     /\ UNCHANGED <<hpx, ack_mac_key, verified, qso, mail, dials, armed>>

HsNext ==
  /\ \/ \E c \in contacts : ConnectPeer(c[1], c[2]) \/ ConnectRefused(c[1], c[2])
     \/ \E s \in Daemons : DisconnectPeer(s) \/ ReceiveTick(s) \/ QuietTick(s)
     \/ HsClock
  /\ UNCHANGED contacts

HsSpec == HsInit /\ [][HsNext]_hsVars

(* The receive loop ticks and the clock runs.                              *)
HsFairness ==
  /\ WF_hsVars(HsClock /\ UNCHANGED contacts)
  /\ \A s \in Daemons : /\ WF_hsVars(ReceiveTick(s) /\ UNCHANGED contacts)
                        /\ WF_hsVars(QuietTick(s) /\ UNCHANGED contacts)

HsFairSpec == HsSpec /\ HsFairness

-----------------------------------------------------------------------------
Keys == (1 .. MaxDials) \X (1 .. MaxDials)

(* The daemon's handshake state.  A command takes the session through      *)
(* Discovery, Training and Teardown without resting there.                 *)
HsTypeOK ==
  /\ \A s \in Daemons : hpx[s].state \in {"Idle", "ActiveTransfer", "Failed"}
  /\ pending \in [Daemons -> {None} \cup
                  [dial : 1 .. MaxDials, peer : Daemons, age : 0 .. HsTimeout]]
  /\ ack_mac_key \in [Daemons -> {None} \cup Keys]
  /\ verified \in [Daemons -> SUBSET Daemons]
  /\ qso \in [Daemons -> {None} \cup Daemons]

(* handle_inbound_conack: whatever was lost, late or dialled again, a key  *)
(* armed by the station that dialled was armed by the station it dialled,  *)
(* which has recorded the dialler as verified.                             *)
DiallersKeyIsShared ==
  \A d \in armed : d.role = "dialler" =>
    \E r \in armed : /\ r.role = "responder" /\ r.key = d.key
                    /\ r.at = d.with /\ r.with = d.at
                    /\ d.at \in verified[r.at]

(* expire_pending_handshake: no handshake stays pending for ever, the one  *)
(* left behind by a disconnect included.                                   *)
PendingEnds == \A s \in Daemons : []<>(pending[s] = None)

-----------------------------------------------------------------------------
Quiet == \A s \in Daemons : pending[s] = None /\ mail[s] = <<>>

(* handle_inbound_conreq: "We advertise our ephemeral public key back in   *)
(* the CONACK (signed) so the initiator derives the same key."  Two        *)
(* stations that have verified each other hold the same key.               *)
KeysAgree ==
  Quiet => \A s, r \in Daemons :
             r \in verified[s] /\ s \in verified[r] => ack_mac_key[s] = ack_mac_key[r]
=============================================================================
