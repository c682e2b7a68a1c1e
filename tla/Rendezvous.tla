----------------------------- MODULE Rendezvous -----------------------------
(***************************************************************************)
(* A rendezvous over JS8 between two stations (openpulse-discovery's       *)
(* rendezvous.rs and DiscoveryRuntime, and the daemon code that schedules  *)
(* the switch): one proposes channels, the other answers, and both go to   *)
(* the agreed channel a fixed number of slots later.                       *)
(*                                                                         *)
(* The stations share UTC slots, so a slot boundary is one step of both.   *)
(* A message takes several slots, one frame each; a station that transmits *)
(* in a slot hears nothing in it, and a message is recognised when all of  *)
(* its frames were heard.  The beacons that a station sends in between     *)
(* only make it miss frames, and are counted as loss.                      *)
(***************************************************************************)
EXTENDS Pair, Naturals, Sequences, Functions

CONSTANTS
  Proposers,       \* stations whose operator proposes a rendezvous
  Responders,      \* stations in Full mode
  ChannelTables,   \* choices of the channel list of each station
  RdvTokens,       \* a token is two characters taken from the clock
  OverLen,         \* frames of one message
  RdvSwitchSlots,  \* DEFAULT_SWITCH_SLOTS
  Timeout,         \* RENDEZVOUS_TIMEOUT_SLOTS
  Cooldown,        \* RESPONDER_COOLDOWN_MS in slots
  BusyChannel,     \* the channel may be occupied when a frame is due
  MaxProposals,    \* bound on RendezvousWith commands
  MaxLeaves        \* bound on dwells that end by themselves

ASSUME OverAssumption == OverLen \in Nat \ {0}

VARIABLES
  rt,          \* per station, its runtime and the daemon's schedule
  proposals,   \* number of RendezvousWith commands
  leaves       \* number of dwells that ended

rdvVars == <<rt, proposals, leaves>>

(* The fields: rendezvous_channels, initiator and its slots_waited,        *)
(* rendezvous_tx, the frame on the air in this slot,                       *)
(* pending_responder_agreement, slots of cooldown left, the over being     *)
(* assembled, rendezvous_qsy_due, whether the station dwells; and, as      *)
(* history, the agreement it has left for.                                 *)
Fresh(chs) ==
  [channels |-> chs, initiator |-> None, waited |-> 0, tx |-> <<>>, air |-> None,
   pending |-> None, cooldown |-> 0, part |-> None, due |-> None, dwelling |-> TRUE,
   left_for |-> None]

RdvInit ==
  /\ \E table \in ChannelTables : rt = [s \in Stations |-> Fresh(table[s])]
  /\ proposals = 0
  /\ leaves = 0

-----------------------------------------------------------------------------
(* Messages.                                                               *)

Propose(t, chs) == [type |-> "Propose", token |-> t, channels |-> chs, channel |-> None]
Accept(t, c) == [type |-> "Accept", token |-> t, channels |-> <<>>, channel |-> c]
Decline(t) == [type |-> "Reject", token |-> t, channels |-> <<>>, channel |-> None]

(* directed: the frames of one over.                                       *)
Over(m) == [k \in 1 .. OverLen |-> [msg |-> m, frame |-> k]]

Usable(s, chs) == SelectSeq(chs, LAMBDA c : c \in Range(rt[s].channels))

(* respond: the first proposed channel that is usable here.                *)
Reply(s, m) ==
  IF Usable(s, m.channels) = <<>> THEN Decline(m.token)
  ELSE Accept(m.token, Head(Usable(s, m.channels)))

Deal(role, m) == [role |-> role, token |-> m.token, channel |-> m.channel]

(* RendezvousAgreed: the daemon schedules the switch.                      *)
Agree(r, deal) == [r EXCEPT !.due = [deal |-> deal, slots |-> RdvSwitchSlots]]

-----------------------------------------------------------------------------
(* One slot boundary of a dwelling station (DiscoveryRuntime::tick).       *)

(* Mutant: the agreement is surfaced one boundary later.                   *)
SurfaceLate(r) ==
  IF r.pending = None \/ r.air # None THEN r ELSE Agree([r EXCEPT !.pending = None], r.pending)

(* The withheld agreement is surfaced once the queue is empty ...          *)
Surface(r) ==
  IF r.pending = None THEN r ELSE Agree([r EXCEPT !.pending = None], r.pending)

(* ... and a proposal that has been sent grows older.                      *)
Age(r) ==
  IF r.initiator = None THEN r
  ELSE IF r.waited + 1 >= Timeout THEN [r EXCEPT !.initiator = None, !.waited = 0]
  ELSE [r EXCEPT !.waited = @ + 1]

(* A frame is taken from the queue.  If the channel is occupied the daemon *)
(* does not send it, and it is not queued again.                           *)
Emit(r, busy) ==
  [r EXCEPT !.tx = Tail(@), !.air = IF busy THEN None ELSE Head(r.tx)]

(* A reply to our own proposal: the peer is the same and so is the token.  *)
OnReply(r, m) ==
  IF m.token # r.initiator \/ m.type = "Propose" THEN r
  ELSE IF m.type = "Accept"
  THEN Agree([r EXCEPT !.initiator = None, !.waited = 0], Deal("initiator", m))
  ELSE [r EXCEPT !.initiator = None, !.waited = 0]

OnPropose(s, r, m) ==
  IF s \notin Responders \/ m.type # "Propose" \/ r.cooldown > 0 THEN r
  ELSE LET reply == Reply(s, m)
       IN [r EXCEPT !.tx = @ \o Over(reply), !.cooldown = Cooldown,
                    !.pending = IF reply.type = "Accept" THEN Deal("responder", reply) ELSE @]

handle_rendezvous(s, r, m) ==
  IF r.initiator # None THEN OnReply(r, m) ELSE OnPropose(s, r, m)

(* decode_slot with RendezvousAssembler: frames in order from the first.   *)
Listen(s, r, f) ==
  LET q == [r EXCEPT !.air = None]
      next == f # None /\ (f.frame = 1 \/ (r.part # None /\ r.part.msg = f.msg /\ r.part.frame + 1 = f.frame))
  IN IF f = None THEN q
     ELSE IF ~next THEN [q EXCEPT !.part = None]
     ELSE IF f.frame < OverLen THEN [q EXCEPT !.part = f]
     ELSE handle_rendezvous(s, [q EXCEPT !.part = None], f.msg)

(* Half duplex: a station hears the frame its peer sent in the slot that   *)
(* ends, if it did not send one itself.                                    *)
Hears(s) == IF rt[s].air = None THEN rt[Peer(s)].air ELSE None

DwellingTick(s, r, lost, busy) ==
  LET q == IF r.tx = <<>> THEN Age(Surface(r)) ELSE r
  IN IF q.tx # <<>> THEN Emit(q, busy)
     ELSE Listen(s, q, IF lost THEN None ELSE Hears(s))

(* The agreed switch comes due: the station leaves the calling channel.    *)
Depart(r) ==
  [r EXCEPT !.left_for = r.due.deal, !.due = None, !.dwelling = FALSE, !.air = None, !.part = None]

Boundary(s, lost, busy) ==
  LET r == [rt[s] EXCEPT !.cooldown = IF @ = 0 THEN 0 ELSE @ - 1]
      d == IF r.due = None THEN r ELSE [r EXCEPT !.due.slots = @ - 1]
  IN IF d.due # None /\ d.due.slots = 0 THEN Depart(d)
     ELSE IF d.dwelling THEN DwellingTick(s, d, lost, busy)
     ELSE [d EXCEPT !.air = None]

SlotBoundary ==
  /\ \E lost \in SUBSET Stations, busy \in SUBSET {s \in Stations : BusyChannel} :
       rt' = [s \in Stations |-> Boundary(s, s \in lost, s \in busy)]
  /\ UNCHANGED <<proposals, leaves>>

-----------------------------------------------------------------------------
(* RendezvousWith: any proposal in flight is replaced, its frames are not. *)
RendezvousWith(s, t) ==
  /\ proposals < MaxProposals
  /\ rt[s].channels # <<>>
  /\ proposals' = proposals + 1
  /\ rt' = [rt EXCEPT ![s] = [@ EXCEPT !.initiator = t, !.waited = 0,
                                       !.tx = @ \o Over(Propose(t, rt[s].channels))]]
  /\ UNCHANGED leaves

(* The dwell ends: what is queued, proposed or withheld is kept.           *)
EndDwell(s) ==
  /\ rt[s].dwelling
  /\ leaves < MaxLeaves
  /\ leaves' = leaves + 1
  /\ rt' = [rt EXCEPT ![s].dwelling = FALSE, ![s].air = None]
  /\ UNCHANGED proposals

StartDwell(s) ==
  /\ ~rt[s].dwelling
  /\ rt' = [rt EXCEPT ![s].dwelling = TRUE, ![s].left_for = None]
  /\ UNCHANGED <<proposals, leaves>>

RdvNext ==
  \/ SlotBoundary
  \/ \E s \in Proposers, t \in RdvTokens : RendezvousWith(s, t)
  \/ \E s \in Stations : EndDwell(s) \/ StartDwell(s)

RdvSpec == RdvInit /\ [][RdvNext]_rdvVars

(* Slots go by, and a station that is home again dwells again.             *)
RdvFairness ==
  /\ WF_rdvVars(SlotBoundary)
  /\ \A s \in Stations : WF_rdvVars(StartDwell(s))

RdvFairSpec == RdvSpec /\ RdvFairness

-----------------------------------------------------------------------------
(* The runtimes and the daemons' schedules have their types.               *)
RdvTypeOK ==
  \A s \in Stations :
    /\ rt[s].initiator \in RdvTokens \cup {None}
    /\ rt[s].waited \in 0 .. Timeout - 1
    /\ rt[s].cooldown \in 0 .. Cooldown
    /\ rt[s].due # None => rt[s].due.slots \in 1 .. RdvSwitchSlots
    /\ rt[s].initiator = None => rt[s].waited = 0

Leaves(s) == rt[s].left_for = None /\ rt'[s].left_for # None

(* While both stations stay on the calling channel, the one that proposed  *)
(* never goes to the working channel alone: its peer leaves for the same   *)
(* channel at the same boundary ("both stations retune together",          *)
(* discovery_tick).                                                        *)
InitiatorNeverAlone ==
  [][\A s \in Stations :
       leaves = 0 /\ Leaves(s) /\ rt'[s].left_for.role = "initiator" =>
         /\ Leaves(Peer(s))
         /\ rt'[Peer(s)].left_for = [rt'[s].left_for EXCEPT !.role = "responder"]]_rdvVars

(* A proposal is answered or given up, also when answers are lost and      *)
(* dwells end (RendezvousInitiator::on_slot).                              *)
ProposalEnds == \A s \in Stations : []<>(rt[s].initiator = None)
=============================================================================
