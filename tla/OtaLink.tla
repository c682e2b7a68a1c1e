------------------------------- MODULE OtaLink -------------------------------
(***************************************************************************)
(* Two daemons on one half-duplex channel: a sender in ota_send_with_ptt   *)
(* (transmit, release PTT, listen for the ACK, retry under run_ota_retry)  *)
(* and a receiver whose receive tick decodes each burst, moves its rate    *)
(* controller and answers within its NACK budget.  Data and ACKs may be    *)
(* lost, and an ACK may come so late that it is the next window that hears *)
(* it, which may be a window of the next message: an ACK carries no        *)
(* sequence, and receive_ota_ack_within takes any of the session.          *)
(***************************************************************************)
EXTENDS OtaRate

CONSTANTS
  MaxRetries,        \* MAX_RETRIES
  MaxSilentWindows,  \* MAX_SILENT_ACK_WINDOWS
  NackBudget,        \* OTA_NACK_BUDGET
  LinkReadings           \* SNR readings of a decoded frame

ASSUME RetryAssumption ==
  {MaxRetries, MaxSilentWindows, NackBudget} \subseteq Nat \ {0}

VARIABLES
  sender, receiver,      \* the two stations' controllers
  pc,                    \* sender: "idle", "attempt", "air" or "window"
  attempts,              \* data transmissions tried for this message
  consecutive_timeouts,  \* run_ota_retry's count of silent windows in a row
  stop,                  \* how the last send ended (OtaSendStop)
  consecutive_ota_nack,  \* receiver: failed bursts since the last decode
  air,                   \* the answer on its way, or None
  got,                   \* history: this message was decoded by the receiver
  by_late,               \* history: the answer that ended the send had missed its window
  best                   \* history: highest level the receiver ever decoded

senderVars == <<sender, pc, attempts, consecutive_timeouts, stop>>
receiverVars == <<receiver, consecutive_ota_nack, best>>
linkVars == <<senderVars, receiverVars, air, got, by_late>>

Stops == {"none", "Delivered", "PeerSilent", "RetriesExhausted", "PttFault"}

LinkInit ==
  /\ sender = new
  /\ receiver = new
  /\ pc = "idle"
  /\ attempts = 0
  /\ consecutive_timeouts = 0
  /\ stop = "none"
  /\ consecutive_ota_nack = 0
  /\ air = None
  /\ got = FALSE
  /\ by_late = FALSE
  /\ best = InitialLevel

-----------------------------------------------------------------------------
(* The sender.                                                             *)

Send ==
  /\ pc = "idle"
  /\ pc' = "attempt"
  /\ attempts' = 0
  /\ consecutive_timeouts' = 0
  /\ stop' = "none"
  /\ got' = FALSE
  /\ by_late' = FALSE
  /\ UNCHANGED <<sender, receiverVars, air>>

Finish(s) ==
  /\ pc' = "idle"
  /\ stop' = s
  /\ attempts' = 0
  /\ consecutive_timeouts' = 0

(* An attempt ended in a NACK, or before anything was radiated.            *)
Nacked ==
  IF attempts < MaxRetries
  THEN /\ pc' = "attempt"
       /\ attempts' = attempts + 1
       /\ consecutive_timeouts' = 0
       /\ UNCHANGED stop
  ELSE Finish("RetriesExhausted")

(* Mutant: a silent window is retried without being counted.               *)
TimedOutUncounted ==
  /\ pc' = "attempt"
  /\ UNCHANGED <<attempts, consecutive_timeouts, stop>>

TimedOut ==
  IF consecutive_timeouts + 1 >= MaxSilentWindows THEN Finish("PeerSilent")
  ELSE IF attempts < MaxRetries
  THEN /\ pc' = "attempt"
       /\ attempts' = attempts + 1
       /\ consecutive_timeouts' = consecutive_timeouts + 1
       /\ UNCHANGED stop
  ELSE Finish("RetriesExhausted")

Transmit ==
  /\ pc = "attempt"
  /\ pc' = "air"
  /\ UNCHANGED <<sender, attempts, consecutive_timeouts, stop, receiverVars, air, got, by_late>>

(* keyed_transmit refused: the rig did not key.                            *)
PttFault ==
  /\ pc = "attempt"
  /\ Finish("PttFault")
  /\ UNCHANGED <<sender, receiverVars, air, got, by_late>>

(* keyed_transmit found the operator's key, or the modulator failed.       *)
NotRadiated ==
  /\ pc = "attempt"
  /\ Nacked
  /\ UNCHANGED <<sender, receiverVars, air, got, by_late>>

-----------------------------------------------------------------------------
(* The receiver's tick on the burst.                                       *)

OnAir(a) ==
  [ack_type |-> a.ack_type, recommended_level |-> a.recommended_level, late |-> FALSE]

(* Below the squelch, cap-flushed, or recovered by the uncoded fallback:   *)
(* no ladder frame, nothing is keyed.  A receiver that is still busy with  *)
(* its answer to an earlier burst hears nothing either.                    *)
Unheard ==
  /\ pc = "air"
  /\ pc' = "window"
  /\ UNCHANGED <<sender, attempts, consecutive_timeouts, stop, receiverVars, air, got, by_late>>

HearDecoded(snr) ==
  /\ pc = "air" /\ air = None
  /\ sender.tx_level \in rx_candidates(receiver)
  /\ LET a == on_rx_decoded(receiver, sender.tx_level, snr)
     IN  /\ receiver' = a.ctl
         /\ air' = OnAir(a)
  /\ consecutive_ota_nack' = 0
  /\ best' = Max({best, sender.tx_level})
  /\ got' = TRUE
  /\ pc' = "window"
  /\ UNCHANGED <<sender, attempts, consecutive_timeouts, stop, by_late>>

(* A failed decode is answered only within the NACK budget; the count is   *)
(* capped one past the budget, where it no longer matters.                 *)
HearFailed ==
  /\ pc = "air" /\ air = None
  /\ LET a == on_rx_failed(receiver, None)
         n == Min({consecutive_ota_nack + 1, NackBudget + 1})
     IN  /\ receiver' = a.ctl
         /\ consecutive_ota_nack' = n
         /\ air' = IF n <= NackBudget THEN OnAir(a) ELSE None
  /\ pc' = "window"
  /\ UNCHANGED <<sender, attempts, consecutive_timeouts, stop, best, got, by_late>>

-----------------------------------------------------------------------------
(* The sender's ACK window.                                                *)

HearAck ==
  /\ pc = "window"
  /\ air # None
  /\ sender' = adopt_recommendation(sender, air.recommended_level)
  /\ IF air.ack_type = "Nack" THEN Nacked ELSE Finish("Delivered")
  /\ by_late' = air.late
  /\ air' = None
  /\ UNCHANGED <<receiverVars, got>>

(* Nothing was answered, the answer was lost, or it comes after the window *)
(* has closed: within the next one at the latest.                          *)
AckTimeout ==
  /\ pc = "window"
  /\ TimedOut
  /\ \/ air' = None
     \/ air # None /\ ~air.late /\ air' = [air EXCEPT !.late = TRUE]
  /\ UNCHANGED <<sender, receiverVars, got, by_late>>

LinkNext ==
  \/ Send
  \/ Transmit
  \/ PttFault
  \/ NotRadiated
  \/ Unheard
  \/ \E snr \in LinkReadings : HearDecoded(snr)
  \/ HearFailed
  \/ HearAck
  \/ AckTimeout

LinkSpec == LinkInit /\ [][LinkNext]_linkVars

(* Each station's own steps happen once they are due: a burst ends, a      *)
(* window closes.                                                          *)
StepFairness ==
  /\ WF_linkVars(Transmit)
  /\ WF_linkVars(Unheard \/ HearFailed \/ \E snr \in LinkReadings : HearDecoded(snr))
  /\ WF_linkVars(HearAck \/ AckTimeout)

(* A channel that keeps working from time to time: the operator keeps      *)
(* sending, bursts are heard again and again, so are the answers, and a    *)
(* burst the receiver listens for is decoded again and again.              *)
ChannelFairness ==
  /\ StepFairness
  /\ WF_linkVars(Send)
  /\ SF_linkVars(Transmit)
  /\ SF_linkVars(HearFailed)
  /\ SF_linkVars(\E snr \in LinkReadings : HearDecoded(snr))
  /\ SF_linkVars(HearAck)

LinkStepSpec == LinkSpec /\ StepFairness
LinkFairSpec == LinkSpec /\ ChannelFairness

-----------------------------------------------------------------------------
(* The link has its type: both controllers, the sender's place in its      *)
(* retry loop, and counters within MAX_RETRIES and the NACK budget         *)
(* (run_ota_retry and the receive tick).                                   *)
LinkTypeOK ==
  /\ sender \in Controllers
  /\ receiver \in Controllers
  /\ pc \in {"idle", "attempt", "air", "window"}
  /\ attempts \in 0 .. MaxRetries
  /\ consecutive_timeouts \in 0 .. MaxSilentWindows - 1
  /\ stop \in Stops
  /\ consecutive_ota_nack \in 0 .. NackBudget + 1
  /\ got \in BOOLEAN /\ by_late \in BOOLEAN
  /\ best \in Levels

(* The sender claims no more than the receiver has decoded, however many   *)
(* bursts and answers are lost or late: it is never more than one mapped   *)
(* level above what was ever decoded, and no NACK, silence or retry makes  *)
(* a send count as delivered (ota_send_with_ptt, OtaSendStop).  Only an    *)
(* answer that missed its own window can stand for another message.        *)
SenderHasEvidence ==
  /\ sender.tx_level <= next_mapped(receiver, best)
  /\ stop = "Delivered" => got \/ by_late

(* "`Delivered` is consumed as "the peer has it"" (ota_send_with_ptt): a   *)
(* send that ended as delivered is one whose message the peer has decoded. *)
DeliveredIsGot == stop = "Delivered" => got

(* Every send ends, whatever the channel and the peer do: the retry loop   *)
(* blocks the daemon's event loop only for a bounded number of windows.    *)
SendEnds == []<>(pc = "idle")

(* "ARQ is unharmed" by the NACK budget: on a channel that keeps working,  *)
(* the receiver again and again listens for what the sender transmits.     *)
LockstepRecovers == []<>(sender.tx_level \in rx_candidates(receiver))
=============================================================================
