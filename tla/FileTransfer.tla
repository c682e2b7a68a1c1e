---------------------------- MODULE FileTransfer ----------------------------
(***************************************************************************)
(* OPFX file transfer between two daemons: SenderSession and               *)
(* ReceiverSession of openpulse-filexfer inside the glue that feeds them   *)
(* (file_tx and file_rx, one of each per daemon), over a channel that      *)
(* loses and repeats frames, with timeouts, operator commands, daemon      *)
(* restarts and the .partial blocks that survive them.                     *)
(*                                                                         *)
(* A block travels as one frame: its fragments arrive together or the      *)
(* block is lost, since nothing asks for a missing fragment.  All files    *)
(* have the same geometry, the case the length check on a partial block    *)
(* cannot tell apart.                                                      *)
(***************************************************************************)
EXTENDS Pair, Integers, Sequences, FiniteSetsExt

CONSTANTS
  Senders,          \* stations whose operator sends files
  Files,            \* contents; the offer's SHA-256 tells them apart
  BlockCount,       \* blocks of every file
  MaxBlockRetries,  \* DEFAULT_MAX_BLOCK_RETRIES
  OfferTicks, StallTicks, VerifyTicks,    \* Timeouts, in ticks
  Decisions,        \* what the receiver's policy may decide
  Signed,           \* whether an offer's sender is a verified peer of its receiver
  Persists,         \* outcomes of persist_block: subset of PersistOutcomes
  Writes,           \* outcomes of write_file
  FxTimelyAir,      \* no tick passes while a frame is on the air
  MaxTransfers, MaxFaults    \* bounds: offers; losses, repeats and restarts

(* A failed persist leaves the disk as it was, or, since fs::write          *)
(* truncates first, without the block it was to write.                     *)
PersistOutcomes == {"written", "refused", "truncated"}

ASSUME FileAssumption ==
  /\ Senders \subseteq Stations
  /\ BlockCount \in Nat \ {0}
  /\ MaxBlockRetries \in Nat
  /\ {OfferTicks, StallTicks, VerifyTicks} \subseteq Nat \ {0}
  /\ Decisions \subseteq {"AutoAccept", "Prompt", "Reject"}
  /\ Persists \subseteq PersistOutcomes
  /\ Signed \cup Writes \cup {FxTimelyAir} \subseteq BOOLEAN

VARIABLES
  tx, rx,        \* file_tx and file_rx of each station, or None
  partial,       \* on disk: the blocks under <peer>/.partial/<sha256>
  stale,         \* on disk: partial directories older than the TTL
  received_files,  \* files written, with their verified badge
  channel,       \* frames on their way to each station
  transfer_id,   \* transfers offered so far
  faults,        \* frames lost or repeated and daemons restarted so far
  assembled,     \* history: transfers whose receiver reassembled every block
  vouched,       \* history: of those, the ones it found VerifiedOk
  receipts       \* history: transfers reported sent with a valid receipt

fxVars == <<tx, rx, partial, stale, received_files, channel, transfer_id, faults,
            assembled, vouched, receipts>>

outcomes == <<received_files, assembled, vouched>>

Blocks == 0 .. BlockCount - 1
Dirs == Signed \X Files
NoBlocks == [k \in Blocks |-> None]
Have(blocks) == {k \in Blocks : blocks[k] # None}

TxSession ==
  [id : Nat, file : Files, block : Blocks, held : SUBSET Blocks,
   st : {"Offering", "Sending", "AwaitVerify"},
   retries : 0 .. MaxBlockRetries, left : Nat]

RxSession ==
  [id : Nat, file : Files, sig : Signed, st : {"AwaitingDecision", "Receiving"},
   left : Nat, blocks : [Blocks -> Files \cup {None}]]

FxFrame ==
  [type : {"FileOffer"}, id : Nat, file : Files, sig : Signed]
    \cup [type : {"FileData"}, id : Nat, block : Blocks, file : Files]
    \cup [type : {"FileAccept"}, id : Nat, have : SUBSET Blocks]
    \cup [type : {"BlockAck"}, id : Nat, block : Blocks, complete : BOOLEAN]
    \cup [type : {"FileComplete"}, id : Nat, ok : BOOLEAN]
    \cup [type : {"FileReject", "FileCancel"}, id : Nat]

ASSUME NoneAssumption == None \notin TxSession \cup RxSession \cup Files

FxInit ==
  /\ tx = [s \in Stations |-> None]
  /\ rx = [s \in Stations |-> None]
  /\ partial = [s \in Stations |-> [d \in Dirs |-> NoBlocks]]
  /\ stale = [s \in Stations |-> {}]
  /\ received_files = [s \in Stations |-> <<>>]
  /\ channel = [s \in Stations |-> <<>>]
  /\ transfer_id = 0
  /\ faults = 0
  /\ assembled = {} /\ vouched = {} /\ receipts = {}

-----------------------------------------------------------------------------
(* The air.  A handler's frames are drained before the loop does anything  *)
(* else; the frame it handled may be heard once more.                      *)

Fault == faults < MaxFaults /\ faults' = faults + 1

SendFrames(s, out) ==
  /\ channel' = [channel EXCEPT ![Peer(s)] = @ \o out]
  /\ UNCHANGED faults

Repeat(s, out) ==
  /\ Fault
  /\ channel' = [channel EXCEPT ![Peer(s)] = @ \o out]

ReplyFrames(s, out) ==
  \/ /\ channel' = [channel EXCEPT ![s] = Tail(@), ![Peer(s)] = @ \o out]
     /\ UNCHANGED faults
  \/ Repeat(s, out)

NextIs(s, types) == channel[s] # <<>> /\ Head(channel[s]).type \in types

-----------------------------------------------------------------------------
(* SenderSession: each operator gives, as the one member of a set, the     *)
(* session after the call (None when it is terminal), the frames it sends  *)
(* and the receipt it reports.                                             *)

Going(t, out) == [tx |-> t, out |-> out, receipt |-> FALSE]
finish(receipt) == [tx |-> None, out |-> <<>>, receipt |-> receipt]

(* The first block from here on that is not held, or the end.              *)
next_unheld(t, from) ==
  {k \in from .. BlockCount : /\ k \in Blocks => k \notin t.held
                              /\ \A j \in from .. k - 1 : j \in t.held}

begin_block(t, k) ==
  Going([t EXCEPT !.st = "Sending", !.block = k, !.left = StallTicks],
        <<[type |-> "FileData", id |-> t.id, block |-> k, file |-> t.file]>>)

(* Mutant: the block after the last one is sent too.                       *)
AdvancePastEnd(t, from) == {begin_block(t, k) : k \in next_unheld(t, from)}

advance(t, from) ==
  {IF k < BlockCount THEN begin_block(t, k)
   ELSE Going([t EXCEPT !.st = "AwaitVerify", !.left = VerifyTicks], <<>>) :
     k \in next_unheld(t, from)}

OnAccept(t, f) == advance([t EXCEPT !.held = @ \cup f.have, !.retries = 0], 0)

OnBlockAck(t, f) ==
  CASE f.block # t.block -> {Going(t, <<>>)}
    [] f.block = t.block /\ f.complete ->
         advance([t EXCEPT !.retries = 0], t.block + 1)
    [] f.block = t.block /\ ~f.complete /\ t.retries < MaxBlockRetries ->
         {begin_block([t EXCEPT !.retries = @ + 1], t.block)}
    [] OTHER -> {finish(FALSE)}

apply(t, f) ==
  CASE t.st = "Offering" /\ f.type = "FileReject" -> {finish(FALSE)}
    [] t.st = "Offering" /\ f.type = "FileAccept" -> OnAccept(t, f)
    [] t.st = "Sending" /\ f.type = "BlockAck" -> OnBlockAck(t, f)
    [] t.st = "AwaitVerify" /\ f.type = "FileComplete" -> {finish(f.ok)}
    [] OTHER -> {Going(t, <<>>)}

(* Mutant: a block that is never acknowledged is waited for for ever.      *)
NeverStalls(t) == t # None /\ t.left = 0 /\ t.st # "Sending"

Expired(t) == t # None /\ t.left = 0

-----------------------------------------------------------------------------
(* The send side of the glue.                                              *)

SendFile(s, f, sig) ==
  /\ s \in Senders
  /\ tx[s] = None /\ rx[s] = None
  /\ transfer_id < MaxTransfers
  /\ transfer_id' = transfer_id + 1
  /\ tx' = [tx EXCEPT ![s] =
              [id |-> transfer_id', file |-> f, st |-> "Offering", block |-> 0,
               retries |-> 0, held |-> {}, left |-> OfferTicks]]
  /\ SendFrames(s, <<[type |-> "FileOffer", id |-> transfer_id', file |-> f, sig |-> sig]>>)
  /\ UNCHANGED <<rx, partial, stale, outcomes, receipts>>

(* A frame for the send session: FileAccept, FileReject, BlockAck or       *)
(* FileComplete; ignored when it names another transfer.                   *)
OnTxFrame(s) ==
  /\ NextIs(s, {"FileAccept", "FileReject", "BlockAck", "FileComplete"})
  /\ LET f == Head(channel[s])
     IN  \E r \in IF tx[s] # None /\ tx[s].id = f.id THEN apply(tx[s], f)
                  ELSE {Going(tx[s], <<>>)} :
           /\ tx' = [tx EXCEPT ![s] = r.tx]
           /\ ReplyFrames(s, r.out)
           /\ receipts' = receipts \cup (IF r.receipt THEN {f.id} ELSE {})
  /\ UNCHANGED <<rx, partial, stale, transfer_id, outcomes>>

-----------------------------------------------------------------------------
(* The receive side of the glue.                                           *)

(* Mutant: the partial blocks are kept per peer, not per content.          *)
PartialDirPerPeer(sig, f) == <<sig, CHOOSE g \in Files : TRUE>>

partial_dir_for(sig, f) == <<sig, f>>

(* Mutant: the partials are cleared before the write is known to succeed.  *)
ClearBeforeWrite(part, d, written) == [part EXCEPT ![d] = NoBlocks]

clear_partials(part, d, written) ==
  IF written THEN [part EXCEPT ![d] = NoBlocks] ELSE part

hash_ok(r) == \A k \in Blocks : r.blocks[k] = r.file

(* Mutant: the receipt vouches for the hash of a payload nobody signed.    *)
HashIsEnough(r) == hash_ok(r)

VerifiedOk(r) == hash_ok(r) /\ r.sig

(* reassemble_verify_write, set_verify_result and FileComplete, in the     *)
(* handler that completed the last block.                                  *)
Verify(s, r, part, w) ==
  /\ rx' = [rx EXCEPT ![s] = None]
  /\ partial' = [partial EXCEPT ![s] = clear_partials(part, partial_dir_for(r.sig, r.file), w)]
  /\ assembled' = assembled \cup {r.id}
  /\ vouched' = vouched \cup (IF hash_ok(r) /\ r.sig THEN {r.id} ELSE {})
  /\ received_files' = IF w
       THEN [received_files EXCEPT ![s] = Append(@, <<r.file, VerifiedOk(r)>>)]
       ELSE received_files

Complete(r) == <<[type |-> "FileComplete", id |-> r.id, ok |-> VerifiedOk(r)]>>

(* What follows begin_receiving and note_block_complete.                   *)
Store(s, r, part) ==
  /\ rx' = [rx EXCEPT ![s] = r]
  /\ partial' = [partial EXCEPT ![s] = part]
  /\ UNCHANGED <<received_files, assembled, vouched>>

Settle(s, r, part) ==
  IF Have(r.blocks) = Blocks THEN \E w \in Writes : Verify(s, r, part, w)
  ELSE Store(s, r, part)

SettledFrames(r) == IF Have(r.blocks) = Blocks THEN Complete(r) ELSE <<>>

begin_receiving(r) == [r EXCEPT !.st = "Receiving", !.left = StallTicks]
FileAccept(r) == <<[type |-> "FileAccept", id |-> r.id, have |-> Have(r.blocks)]>>
FileReject(id) == <<[type |-> "FileReject", id |-> id]>>

(* A second offer, whosever it is, is answered busy.                       *)
OnOfferBusy(s) ==
  /\ NextIs(s, {"FileOffer"})
  /\ rx[s] # None
  /\ ReplyFrames(s, FileReject(Head(channel[s]).id))
  /\ UNCHANGED <<tx, rx, partial, stale, transfer_id, outcomes, receipts>>

(* purge_stale_partials, load_partials, then the decision.                 *)
OnOffer(s, decision) ==
  /\ NextIs(s, {"FileOffer"})
  /\ rx[s] = None
  /\ LET f == Head(channel[s])
         sig == f.sig
         part == [d \in Dirs |-> IF d[1] = sig /\ d \in stale[s] THEN NoBlocks
                                 ELSE partial[s][d]]
         r == [id |-> f.id, file |-> f.file, sig |-> sig,
               st |-> "AwaitingDecision", left |-> OfferTicks,
               blocks |-> part[partial_dir_for(sig, f.file)]]
     IN  CASE decision = "Reject" ->
                /\ Store(s, None, part)
                /\ ReplyFrames(s, FileReject(f.id))
           [] decision = "Prompt" ->
                /\ Store(s, r, part)
                /\ ReplyFrames(s, <<>>)
           [] decision = "AutoAccept" ->
                /\ Settle(s, begin_receiving(r), part)
                /\ ReplyFrames(s, FileAccept(r) \o SettledFrames(r))
  /\ stale' = [stale EXCEPT ![s] = {d \in @ : d[1] # Head(channel[s]).sig}]
  /\ UNCHANGED <<tx, transfer_id, receipts>>

AcceptOffer(s) ==
  /\ rx[s] # None /\ rx[s].st = "AwaitingDecision"
  /\ Settle(s, begin_receiving(rx[s]), partial[s])
  /\ SendFrames(s, FileAccept(rx[s]) \o SettledFrames(rx[s]))
  /\ UNCHANGED <<tx, stale, transfer_id, receipts>>

RejectOffer(s) ==
  /\ rx[s] # None /\ rx[s].st = "AwaitingDecision"
  /\ Store(s, None, partial[s])
  /\ SendFrames(s, FileReject(rx[s].id))
  /\ UNCHANGED <<tx, stale, transfer_id, receipts>>

Receiving(s, id) == rx[s] # None /\ rx[s].st = "Receiving" /\ rx[s].id = id

(* A block for no session, or for one the operator has not accepted, or    *)
(* for another transfer.                                                   *)
OnBlockIgnored(s) ==
  /\ NextIs(s, {"FileData"})
  /\ ~Receiving(s, Head(channel[s]).id)
  /\ ReplyFrames(s, <<>>)
  /\ UNCHANGED <<tx, rx, partial, stale, transfer_id, outcomes, receipts>>

(* persist_block: a block that is on disk already is written again.        *)
Persisted(part, d, k, f, outcome) ==
  CASE outcome = "written" -> [part EXCEPT ![d][k] = f]
    [] outcome = "truncated" -> [part EXCEPT ![d][k] = None]
    [] outcome = "refused" -> part

(* Persisted, acknowledged, then noted.  A block already held completes    *)
(* once more: it is persisted and acknowledged again, and restarts no      *)
(* timer.                                                                  *)
OnBlock(s, outcome) ==
  /\ NextIs(s, {"FileData"})
  /\ Receiving(s, Head(channel[s]).id)
  /\ LET f == Head(channel[s])
         d == partial_dir_for(rx[s].sig, rx[s].file)
         r == IF rx[s].blocks[f.block] # None
              THEN [rx[s] EXCEPT !.blocks[f.block] = f.file]
              ELSE [rx[s] EXCEPT !.blocks[f.block] = f.file, !.left = StallTicks]
         ack == <<[type |-> "BlockAck", id |-> f.id, block |-> f.block,
                   complete |-> TRUE]>>
     IN  /\ Settle(s, r, Persisted(partial[s], d, f.block, f.file, outcome))
         /\ ReplyFrames(s, ack \o SettledFrames(r))
  /\ UNCHANGED <<tx, stale, transfer_id, receipts>>

-----------------------------------------------------------------------------
(* Cancels, deadlines, time, loss and restarts.                            *)

Names(t, id) == t # None /\ t.id = id
Drop(t, id) == IF Names(t, id) THEN None ELSE t
EndBoth(s, id) ==
  /\ tx' = [tx EXCEPT ![s] = Drop(@, id)]
  /\ rx' = [rx EXCEPT ![s] = Drop(@, id)]

(* A cancel ends whichever of the two sessions it names.                   *)
OnCancel(s) ==
  /\ NextIs(s, {"FileCancel"})
  /\ EndBoth(s, Head(channel[s]).id)
  /\ ReplyFrames(s, <<>>)
  /\ UNCHANGED <<partial, stale, transfer_id, outcomes, receipts>>

CancelTransfer(s, id) ==
  /\ Names(tx[s], id) \/ Names(rx[s], id)
  /\ EndBoth(s, id)
  /\ SendFrames(s, <<[type |-> "FileCancel", id |-> id]>>)
  /\ UNCHANGED <<partial, stale, transfer_id, outcomes, receipts>>

(* poll_timeouts serves both sessions.  A prompt nobody answered is        *)
(* rejected on air; the other deadlines end the session silently.          *)
PollTimeouts(s) ==
  LET t == Expired(tx[s])
      r == Expired(rx[s])
  IN  /\ t \/ r
      /\ tx' = IF t THEN [tx EXCEPT ![s] = None] ELSE tx
      /\ rx' = IF r THEN [rx EXCEPT ![s] = None] ELSE rx
      /\ SendFrames(s, IF r /\ rx[s].st = "AwaitingDecision"
                     THEN FileReject(rx[s].id) ELSE <<>>)
      /\ UNCHANGED <<partial, stale, transfer_id, outcomes, receipts>>

Older(t) == IF t = None \/ t.left = 0 THEN t ELSE [t EXCEPT !.left = @ - 1]

Tick ==
  /\ \E s \in Stations : Older(tx[s]) # tx[s] \/ Older(rx[s]) # rx[s]
  /\ FxTimelyAir => \A s \in Stations : channel[s] = <<>>
  /\ tx' = [s \in Stations |-> Older(tx[s])]
  /\ rx' = [s \in Stations |-> Older(rx[s])]
  /\ UNCHANGED <<partial, stale, channel, transfer_id, faults, outcomes, receipts>>

(* Days without a transfer: what is left on disk outlives partial_ttl_hours.*)
AgePartials ==
  /\ \A s \in Stations : tx[s] = None /\ rx[s] = None /\ channel[s] = <<>>
  /\ stale' = [s \in Stations |-> {d \in Dirs : partial[s][d] # NoBlocks}]
  /\ UNCHANGED <<tx, rx, partial, channel, transfer_id, faults, outcomes, receipts>>

Lose(s) ==
  /\ channel[s] # <<>>
  /\ Fault
  /\ channel' = [channel EXCEPT ![s] = Tail(@)]
  /\ UNCHANGED <<tx, rx, partial, stale, transfer_id, outcomes, receipts>>

(* The daemon is restarted: the sessions are gone, the disk is not.        *)
Restart(s) ==
  /\ Fault
  /\ <<tx[s], rx[s]>> # <<None, None>>
  /\ tx' = [tx EXCEPT ![s] = None]
  /\ rx' = [rx EXCEPT ![s] = None]
  /\ UNCHANGED <<partial, stale, channel, transfer_id, outcomes, receipts>>

-----------------------------------------------------------------------------
FxNext ==
  \/ \E s \in Stations, f \in Files, sig \in Signed : SendFile(s, f, sig)
  \/ \E s \in Stations : OnTxFrame(s)
  \/ \E s \in Stations : OnOfferBusy(s)
  \/ \E s \in Stations, d \in Decisions : OnOffer(s, d)
  \/ \E s \in Stations : AcceptOffer(s)
  \/ \E s \in Stations : RejectOffer(s)
  \/ \E s \in Stations : OnBlockIgnored(s)
  \/ \E s \in Stations, o \in Persists : OnBlock(s, o)
  \/ \E s \in Stations : OnCancel(s)
  \/ \E s \in Stations, id \in 1 .. MaxTransfers : CancelTransfer(s, id)
  \/ \E s \in Stations : PollTimeouts(s)
  \/ Tick
  \/ AgePartials
  \/ \E s \in Stations : Lose(s)
  \/ \E s \in Stations : Restart(s)

FxSpec == FxInit /\ [][FxNext]_fxVars

-----------------------------------------------------------------------------
(* The state has its type: a session's timer stays within its deadline and *)
(* only AwaitingDecision and Receiving receivers outlive their handler.    *)
FxTypeOK ==
  LET ids == 1 .. transfer_id
  IN  /\ \A s \in Stations : tx[s] # None =>
           /\ tx[s] \in TxSession /\ tx[s].id \in ids
           /\ tx[s].left <= Max({OfferTicks, StallTicks, VerifyTicks})
      /\ \A s \in Stations : rx[s] # None =>
           /\ rx[s] \in RxSession /\ rx[s].id \in ids
           /\ rx[s].left <= Max({OfferTicks, StallTicks})
      /\ partial \in [Stations -> [Dirs -> [Blocks -> Files \cup {None}]]]
      /\ stale \in [Stations -> SUBSET Dirs]
      /\ received_files \in [Stations -> Seq(Files \X BOOLEAN)]
      /\ channel \in [Stations -> Seq(FxFrame)]
      /\ \A s \in Stations : \A i \in 1 .. Len(channel[s]) : channel[s][i].id \in ids
      /\ assembled \subseteq ids /\ vouched \subseteq assembled

(* A receiver never mixes contents: every block it holds, received or      *)
(* reclaimed from disk, is a block of the file it was offered.             *)
AssembledIsOffered ==
  \A s \in Stations : rx[s] # None =>
    \A k \in Blocks : rx[s].blocks[k] \in {rx[s].file, None}

(* What the sender believes is true, whatever was lost, repeated, resumed  *)
(* or restarted on the way: a sender that awaits verification talks of a   *)
(* transfer whose receiver has reassembled every block ("No FileComplete   *)
(* arrived; the file is on the peer but unconfirmed"), and FileSent with   *)
(* receipt_valid true of one whose receiver checked hash and signature.    *)
ReceiptIsEarned ==
  /\ \A s \in Stations :
       tx[s] # None /\ tx[s].st = "AwaitVerify" => tx[s].id \in assembled
  /\ receipts \subseteq vouched

(* The next frame is block k again, for the directory d.                   *)
Rewritten(s, d, k) ==
  /\ NextIs(s, {"FileData"}) /\ Head(channel[s]).block = k
  /\ Receiving(s, Head(channel[s]).id) /\ d = <<rx[s].sig, rx[s].file>>

(* A block on disk stays there until its file is assembled and written or  *)
(* the TTL purges it: a failed write, a stall, a cancel or a restart costs *)
(* no block a resume would need.  A repeated block whose rewrite fails     *)
(* costs that block and no other (persist_block).                          *)
PartialsSurvive ==
  [][\A s \in Stations, d \in Dirs : \A k \in Blocks :
       partial[s][d][k] # None /\ partial'[s][d][k] = None
         => \/ d \in stale[s]
            \/ received_files'[s] # received_files[s]
            \/ Rewritten(s, d, k)]_fxVars

(* No transfer pins its slot: a silent peer, a lost frame or an operator   *)
(* who never answers leaves file_tx and file_rx free again.                *)
SlotsFreeAgain ==
  \A s \in Stations : []<>(tx[s] = None) /\ []<>(rx[s] = None)

(* "block-level retransmission on loss" and "no BlockAck after the final   *)
(* retry window -> Failed(stall)": a sender whose block deadline passes    *)
(* has sent that block MaxBlockRetries times more.                         *)
StallAfterRetries ==
  [][\A s \in Stations :
       /\ tx[s] # None /\ tx[s].st = "Sending" /\ tx'[s] = None
       /\ channel' = channel /\ faults' = faults
       => tx[s].retries = MaxBlockRetries]_fxVars
=============================================================================
