-------------------------------- MODULE B2f ---------------------------------
(***************************************************************************)
(* A B2F message exchange: a sending session (ISS) and a receiving session *)
(* (IRS) with the drivers around them, and the frames between them.  Over  *)
(* the TNC both ends are B2fDriver, and the radio link may lose a frame,   *)
(* or, with adaptive ARQ, deliver one again whose acknowledgement was      *)
(* lost.  Over TCP the receiving end is the gateway and the sending end a  *)
(* CMS, whose connection loses nothing and may close.  A session over the  *)
(* TNC starts once each end's TNC has reported CONNECTED; the repository's *)
(* own TNC reports it in reply to CONNECT only, so the receiving end needs *)
(* one that announces the call.  A message is its identity, its            *)
(* compression type and its size.                                          *)
(***************************************************************************)
EXTENDS Naturals, Sequences, FiniteSetsExt

CONSTANTS
  Batches,           \* what the sending end may have queued
  MaxBatch,          \* MAX_PROPOSALS
  MaxFrames,         \* MAX_SESSION_FRAMES
  MaxDecompressed,   \* MAX_SESSION_DECOMPRESSED
  MaxLinkFaults      \* bound on losses, repetitions and late frames

VARIABLES
  via,               \* "tnc" or "tcp"
  batch,             \* the messages queued
  iss,               \* the sending end's step
  irs,               \* the receiving session and its driver's step
  to_iss, to_irs,    \* frames under way
  link_faults,       \* faults so far
  repeated           \* whether one of them delivered a frame twice

b2fVars == <<via, batch, iss, irs, to_iss, to_irs, link_faults, repeated>>

Line(kind, body) == [kind |-> kind, body |-> body]
Proposals == [i \in DOMAIN batch |-> Line("FC", batch[i])] \o <<Line("FF", <<>>)>>

(* A CMS proposes at once, or quits with FQ; the driver's receiving end    *)
(* sends its banner first.                                                 *)
B2fInit ==
  /\ via \in {"tnc", "tcp"}
  /\ batch \in Batches
  /\ via = "tnc" => \A i \in DOMAIN batch : batch[i].type = "D"
  /\ iss = IF via = "tnc" THEN "banner" ELSE "fs"
  /\ irs = [step |-> "lines", state |-> "Handshake", proposals |-> <<>>, overflow |-> 0,
            seen |-> 0, idx |-> 0, total |-> 0, decoded |-> <<>>]
  /\ \/ via = "tnc" /\ to_iss = <<Line("banner", <<>>)>> /\ to_irs = <<>>
     \/ via = "tcp" /\ to_iss = <<>> /\ to_irs = Proposals
     \/ via = "tcp" /\ to_iss = <<>> /\ to_irs = <<Line("FQ", <<>>)>>
  /\ link_faults = 0 /\ repeated = FALSE

Ended(step) == step \in {"ok", "error"}

(* The exchange is done: over the TNC the driver still has to disconnect.  *)
Finished == IF via = "tnc" THEN "closing" ELSE "ok"
Exchanging(step) == step \in {"banner", "fs", "lines", "blobs"}

-----------------------------------------------------------------------------
(* The sending end: run_iss with handle_handshake and handle_proposal.     *)
IssBanner ==
  /\ iss = "banner" /\ to_iss # <<>>
  /\ to_iss' = Tail(to_iss)
  /\ iss' = IF Head(to_iss).kind = "banner" THEN "fs" ELSE "error"
  /\ to_irs' = IF iss' = "fs" THEN to_irs \o Proposals ELSE to_irs
  /\ UNCHANGED <<via, batch, irs, link_faults, repeated>>

(* The answers to the proposals, one each, then the accepted messages.  A  *)
(* second banner is passed over, and leaves nothing to send.               *)
Blobs(answers) ==
  LET accepted == SelectSeq([i \in DOMAIN answers |-> i], LAMBDA i : answers[i] = "Accept")
  IN [k \in DOMAIN accepted |-> Line("blob", batch[accepted[k]])]

(* Mutant: fewer answers than proposals are taken.                         *)
IssFewerAnswers ==
  /\ iss = "fs" /\ to_iss # <<>>
  /\ to_iss' = Tail(to_iss)
  /\ LET fs == Head(to_iss).kind = "FS"
         mismatch == fs /\ Len(Head(to_iss).body) > Len(batch)
         blobs == IF fs /\ ~mismatch THEN Blobs(Head(to_iss).body) ELSE <<>>
         failed == mismatch \/ (batch # <<>> /\ blobs = <<>>)
     IN  \/ failed /\ iss' = "error" /\ UNCHANGED to_irs
         \/ ~failed /\ iss' = Finished /\ to_irs' = to_irs \o blobs
  /\ UNCHANGED <<via, batch, irs, link_faults, repeated>>

IssAnswers ==
  /\ iss = "fs" /\ to_iss # <<>>
  /\ to_iss' = Tail(to_iss)
  /\ LET fs == Head(to_iss).kind = "FS"
         mismatch == fs /\ Len(Head(to_iss).body) # Len(batch)
         blobs == IF fs /\ ~mismatch THEN Blobs(Head(to_iss).body) ELSE <<>>
         failed == mismatch \/ (batch # <<>> /\ blobs = <<>>)
     IN  \/ failed /\ iss' = "error" /\ UNCHANGED to_irs
         \/ ~failed /\ iss' = Finished /\ to_irs' = to_irs \o blobs
  /\ UNCHANGED <<via, batch, irs, link_faults, repeated>>

-----------------------------------------------------------------------------
(* The receiving session.  Type C is not supported; what exceeds           *)
(* MAX_PROPOSALS is only counted, and rejected.                            *)
FsAnswer(m) == IF m.type = "D" THEN "Accept" ELSE "Reject"
FsAnswers(s) ==
  [i \in 1 .. Len(s.proposals) + s.overflow |->
     IF i <= Len(s.proposals) THEN FsAnswer(s.proposals[i]) ELSE "Reject"]
Accepted(s) == SelectSeq(s.proposals, LAMBDA m : FsAnswer(m) = "Accept")

(* The line loop has ended: one message is read per accepted proposal.     *)
AfterLines(s) == [s EXCEPT !.step = IF Accepted(s) = <<>> THEN Finished ELSE "blobs"]

(* handle_line of the receiving role.                                      *)
Handled(s, line) ==
  LET p == [s EXCEPT !.seen = @ + 1, !.state = "ProposalExchange"] IN
  CASE s.seen + 1 > MaxFrames -> [s EXCEPT !.seen = @ + 1, !.step = "error"]
    [] line.kind = "FC" /\ Len(s.proposals) < MaxBatch ->
         [p EXCEPT !.proposals = Append(@, line.body)]
    [] line.kind = "FC" -> [p EXCEPT !.overflow = @ + 1]
    [] line.kind = "FF" -> AfterLines([p EXCEPT !.state = "Transfer"])
    [] line.kind = "FQ" -> AfterLines([p EXCEPT !.state = "Done"])
    [] OTHER -> [p EXCEPT !.step = "error"]

IrsLine ==
  /\ irs.step = "lines" /\ to_irs # <<>>
  /\ to_irs' = Tail(to_irs)
  /\ irs' = Handled(irs, Head(to_irs))
  /\ to_iss' = IF irs'.state = "Transfer" THEN Append(to_iss, Line("FS", FsAnswers(irs')))
                                          ELSE to_iss
  /\ UNCHANGED <<via, batch, iss, link_faults, repeated>>

(* receive_data, and the driver that counts the messages.                  *)
Received(s, line) ==
  LET n == s.idx + 1
      d == [s EXCEPT !.idx = n,
                     !.state = IF n >= Len(s.proposals) THEN "Done" ELSE @,
                     !.total = @ + line.body.size,
                     !.decoded = Append(@, line.body)]
  IN  IF \/ s.state # "Transfer" \/ n > Len(s.proposals)
         \/ s.proposals[n].type = "C" \/ line.kind # "blob"
         \/ s.total + line.body.size > MaxDecompressed
      THEN [s EXCEPT !.step = "error"]
      ELSE [d EXCEPT !.step = IF Len(d.decoded) = Len(Accepted(s)) THEN Finished ELSE "blobs"]

IrsBlob ==
  /\ irs.step = "blobs" /\ to_irs # <<>>
  /\ to_irs' = Tail(to_irs)
  /\ irs' = Received(irs, Head(to_irs))
  /\ UNCHANGED <<via, batch, iss, to_iss, link_faults, repeated>>

-----------------------------------------------------------------------------
(* A read's deadline passes: because nothing will come, or because what is *)
(* coming is late.                                                         *)
Late(silence) ==
  /\ \/ silence /\ UNCHANGED link_faults
     \/ ~silence /\ link_faults < MaxLinkFaults /\ link_faults' = link_faults + 1
  /\ UNCHANGED <<via, batch, to_iss, to_irs, repeated>>

IssTimeout ==
  /\ Exchanging(iss) /\ iss' = "error"
  /\ Late(to_iss = <<>> /\ (~Exchanging(irs.step) \/ to_irs = <<>>))
  /\ UNCHANGED irs

IrsTimeout ==
  /\ Exchanging(irs.step) /\ irs' = [irs EXCEPT !.step = "error"]
  /\ Late(to_irs = <<>> /\ (~Exchanging(iss) \/ to_iss = <<>>))
  /\ UNCHANGED iss

(* DISCONNECT, and the wait for DISCONNECTED: an end whose TNC does not    *)
(* answer returns the error in place of what it sent or received.          *)
Disconnected(ok) ==
  /\ \/ ok /\ UNCHANGED link_faults
     \/ ~ok /\ link_faults < MaxLinkFaults /\ link_faults' = link_faults + 1
  /\ UNCHANGED <<via, batch, to_iss, to_irs, repeated>>

IssDisconnect ==
  /\ iss = "closing"
  /\ \E ok \in BOOLEAN : iss' = (IF ok THEN "ok" ELSE "error") /\ Disconnected(ok)
  /\ UNCHANGED irs

IrsDisconnect ==
  /\ irs.step = "closing"
  /\ \E ok \in BOOLEAN :
       irs' = [irs EXCEPT !.step = IF ok THEN "ok" ELSE "error"] /\ Disconnected(ok)
  /\ UNCHANGED iss

(* The CMS closes the connection, and what was not yet under way is never  *)
(* sent.  irs_receive then takes what it has as all there is, and fails    *)
(* if it still waits for a message.                                        *)
PeerCloses ==
  /\ via = "tcp" /\ iss = "fs"
  /\ iss' = "error"
  /\ \E k \in 0 .. Len(to_irs) : to_irs' = SubSeq(to_irs, 1, k)
  /\ UNCHANGED <<via, batch, irs, to_iss, link_faults, repeated>>

IrsClosed ==
  /\ via = "tcp" /\ Ended(iss) /\ to_irs = <<>>
  /\ \/ irs.step = "lines" /\ irs' = AfterLines(irs)
     \/ irs.step = "blobs" /\ irs' = [irs EXCEPT !.step = "error"]
  /\ UNCHANGED <<via, batch, iss, to_iss, to_irs, link_faults, repeated>>

(* The TNC's worker gives up on a frame after its attempts, or, with       *)
(* adaptive ARQ, sends one again that did arrive.                          *)
LinkFault ==
  /\ via = "tnc" /\ link_faults < MaxLinkFaults
  /\ link_faults' = link_faults + 1
  /\ \/ /\ to_irs # <<>> /\ UNCHANGED to_iss
        /\ \/ to_irs' = Tail(to_irs) /\ UNCHANGED repeated
           \/ to_irs' = <<Head(to_irs)>> \o to_irs /\ repeated' = TRUE
     \/ /\ to_iss # <<>> /\ UNCHANGED to_irs
        /\ \/ to_iss' = Tail(to_iss) /\ UNCHANGED repeated
           \/ to_iss' = <<Head(to_iss)>> \o to_iss /\ repeated' = TRUE
  /\ UNCHANGED <<via, batch, iss, irs>>

IssReads == IssBanner \/ IssAnswers \/ IssDisconnect
IrsReads == IrsLine \/ IrsBlob \/ IrsClosed \/ IrsDisconnect
B2fNext == IssReads \/ IrsReads \/ IssTimeout \/ IrsTimeout \/ PeerCloses \/ LinkFault

-----------------------------------------------------------------------------
B2fTypeOK ==
  /\ iss \in {"banner", "fs", "closing", "ok", "error"}
  /\ irs.step \in {"lines", "blobs", "closing", "ok", "error"}
  /\ irs.state \in {"Handshake", "ProposalExchange", "Transfer", "Done"}
  /\ Len(irs.proposals) <= MaxBatch
  /\ irs.seen <= MaxFrames + 1
  /\ irs.idx <= Len(irs.proposals)
  /\ irs.total <= MaxDecompressed

(* Both ends have returned.                                                *)
MailOver == Ended(iss) /\ Ended(irs.step)

UpToCap == SubSeq(batch, 1, Min({Len(batch), MaxBatch}))
Size(msgs) == FoldFunction(LAMBDA m, n : m.size + n, 0, msgs)

(* What a receiving end returns as a success is exactly what it accepted,  *)
(* in order, whatever the link loses, although answers and messages are    *)
(* matched by position only (run_irs, irs_receive).  A frame the link      *)
(* repeats is not recognised: then it returns as many messages as it       *)
(* accepted, each of them one that the sending end queued.                 *)
(* Between two of our stations a session on a link without faults succeeds *)
(* at both ends, and delivers every message up to the cap, the ones beyond *)
(* it being rejected (handle_proposal's one answer per proposal).          *)
SessionDelivers ==
  /\ irs.step = "ok" =>
       /\ Len(irs.decoded) = Len(Accepted(irs))
       /\ \A i \in DOMAIN irs.decoded : \E k \in DOMAIN batch : irs.decoded[i] = batch[k]
       /\ ~repeated => irs.decoded = Accepted(irs)
  /\ /\ via = "tnc" /\ link_faults = 0 /\ MailOver
     /\ Len(batch) < MaxFrames /\ Size(UpToCap) <= MaxDecompressed
     => iss = "ok" /\ irs.step = "ok" /\ irs.decoded = UpToCap
=============================================================================
