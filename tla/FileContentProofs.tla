------------------------- MODULE FileContentProofs --------------------------
(***************************************************************************)
(* Proofs about FileTransfer, continued: the contents of two files never   *)
(* mix, and a receipt that verifies was earned, for any files, blocks,     *)
(* retries, losses, repeats and restarts.                                  *)
(***************************************************************************)
EXTENDS FileTransferProofs

-----------------------------------------------------------------------------
(* One story per transfer: its file, its badge and its receiver are what   *)
(* every session and frame with its id says they are.                      *)

Transfer == [file : Files \cup {None}, sig : BOOLEAN, to : Stations]

Story(c) ==
  /\ c \in [Nat -> Transfer]
  /\ \A s \in Stations : tx[s] # None =>
       tx[s].id <= transfer_id /\ c[tx[s].id].file = tx[s].file
  /\ \A s \in Stations : rx[s] # None =>
       /\ rx[s].id <= transfer_id /\ c[rx[s].id].file = rx[s].file
       /\ c[rx[s].id].sig = rx[s].sig /\ c[rx[s].id].to = s
  /\ \A s \in Stations : \A f \in Elems(channel[s]) :
       /\ f.type \in Opening => f.id <= transfer_id /\ c[f.id].file = f.file
       /\ f.type = "FileOffer" => c[f.id].sig = f.sig /\ c[f.id].to = s

(* What every step but an offer's sending does to sessions and frames.     *)
Carries(s, out) ==
  /\ out \in Seq(FxFrame) /\ AirStep(s, out) /\ transfer_id' = transfer_id
  /\ \A t \in Stations : tx'[t] # None =>
       tx[t] # None /\ tx'[t].id = tx[t].id /\ tx'[t].file = tx[t].file
  /\ \A t \in Stations : rx'[t] # None =>
       \/ /\ rx[t] # None /\ rx'[t].id = rx[t].id /\ rx'[t].file = rx[t].file
          /\ rx'[t].sig = rx[t].sig
       \/ /\ t = s /\ rx[t] = None /\ Head(channel[s]) \in Elems(channel[s])
          /\ Head(channel[s]).type = "FileOffer" /\ rx'[t].id = Head(channel[s]).id
          /\ rx'[t].file = Head(channel[s]).file /\ rx'[t].sig = Head(channel[s]).sig
  /\ \A x \in Elems(out) :
       /\ x.type # "FileOffer"
       /\ x.type = "FileData" => tx[s] # None /\ x.id = tx[s].id /\ x.file = tx[s].file

(* Such a step leaves every story as it was.                               *)
LEMMA CarriesKeeps ==
  ASSUME Shape, AllOrdered, NEW c, Story(c), NEW s \in Stations, NEW out, Carries(s, out)
  PROVE  AllOrdered' /\ Story(c)'
<1>1. out \in Seq(FxFrame) /\ AirStep(s, out) /\ transfer_id' = transfer_id
  BY SMTT(30) DEF Carries
<1>2. AllOrdered'
  BY SMTT(30), <1>1, AirOrdered DEF Carries
<1>3. \A t \in Stations : Elems(channel'[t]) \subseteq Elems(channel[t]) \cup Elems(out)
  BY SMTT(30), <1>1, AirIs
<1>4. \A t \in Stations : tx'[t] # None =>
        tx'[t].id <= transfer_id' /\ c[tx'[t].id].file = tx'[t].file
  BY SMTT(30), <1>1 DEF Carries, Story
<1>5. \A t \in Stations : rx'[t] # None =>
        /\ rx'[t].id <= transfer_id' /\ c[rx'[t].id].file = rx'[t].file
        /\ c[rx'[t].id].sig = rx'[t].sig /\ c[rx'[t].id].to = t
  <2> TAKE t \in Stations
  <2> HAVE rx'[t] # None
  <2>1. CASE rx[t] # None
    BY ZenonT(30), <1>1, <2>1 DEF Carries, Story
  <2>2. CASE rx[t] = None
    BY SMTT(30), <1>1, <2>2 DEF Carries, Story, Opening
  <2> QED BY Zenon, <2>1, <2>2
<1>6. ASSUME NEW t \in Stations, NEW f \in Elems(channel'[t])
      PROVE  /\ f.type \in Opening => f.id <= transfer_id' /\ c[f.id].file = f.file
             /\ f.type = "FileOffer" => c[f.id].sig = f.sig /\ c[f.id].to = t
  <2>1. CASE f \in Elems(channel[t])
    BY Zenon, <1>1, <2>1 DEF Story
  <2>2. CASE f \in Elems(out)
    BY SMTT(30), <1>1, <2>2 DEF Story, Carries, Opening
  <2> QED BY <1>3, <1>6, <2>1, <2>2
<1> QED BY Zenon, <1>2, <1>4, <1>5, <1>6 DEF Story

(* Every step but an offer's sending is such a step.                       *)
LEMMA StepCarries ==
  ASSUME Shape, FxNext,
         ~ \E s \in Stations, f \in Files, sig \in Signed : SendFile(s, f, sig)
  PROVE  \E s \in Stations : \E out : Carries(s, out)
<1>1. ASSUME NEW s \in Stations, OnTxFrame(s) PROVE \E out : Carries(s, out)
  <2>1. PICK r : /\ tx' = [tx EXCEPT ![s] = r.tx]
                 /\ AirStep(s, r.out)
                 /\ \/ tx[s] = None /\ r.tx = None /\ r.out = <<>>
                    \/ /\ tx[s] # None
                       /\ Head(channel[s]).id = tx[s].id => Follows(r, tx[s], Head(channel[s]))
                       /\ Head(channel[s]).id # tx[s].id => r.tx = tx[s] /\ r.out = <<>>
    BY Zenon, <1>1, OnTxFrameIs
  <2>2. r.out = <<>> \/ (tx[s] # None /\ \E x \in DataOf(tx[s]) : r.out = <<x>>)
    BY Zenon, <2>1 DEF Follows
  <2>3. tx[s] # None => tx[s] \in TxSession
    BY DEF Shape
  <2>4. r.out \in Seq(FxFrame)
    BY Zenon, <2>2, <2>3, OutTyped
  <2>5. \A x \in Elems(r.out) : /\ x.type = "FileData" /\ tx[s] # None
                                /\ x.id = tx[s].id /\ x.file = tx[s].file
    <3>1. CASE r.out = <<>>
      BY SMTT(30), <3>1 DEF Elems
    <3>2. CASE r.out # <<>>
      <4>1. PICK x \in DataOf(tx[s]) : r.out = <<x>>
        BY SMTT(30), <2>2, <3>2
      <4>2. Elems(r.out) = {x}
        BY SMTT(30), <4>1 DEF Elems
      <4> QED BY SMTT(30), <2>2, <3>2, <4>2 DEF DataOf
    <3> QED BY <3>1, <3>2
  <2>6. \A t \in Stations : tx'[t] # None =>
          tx[t] # None /\ tx'[t].id = tx[t].id /\ tx'[t].file = tx[t].file
    BY Zenon, <2>1 DEF Follows, Shape
  <2>7. UNCHANGED <<rx, transfer_id>>
    BY Zenon, <1>1 DEF OnTxFrame
  <2> QED BY Zenon, <2>1, <2>4, <2>5, <2>6, <2>7 DEF Carries
<1>2. ASSUME NEW s \in Stations, NEW decision \in Decisions, OnOffer(s, decision)
      PROVE  \E out : Carries(s, out)
  <2> DEFINE f == Head(channel[s])
             q == OfferedRx(s, f)
             part == Purged(s, f.sig)
  <2>1. f \in Elems(channel[s]) /\ f.type = "FileOffer" /\ f.id \in Nat /\ rx[s] = None
    BY Zenon, <1>2, HeadIs, OfferTyped DEF OnOffer
  <2>2. UNCHANGED <<tx, transfer_id>>
    BY <1>2 DEF OnOffer
  <2>3. CASE decision = "Reject"
    <3>1. Store(s, None, part) /\ AirStep(s, FileReject(f.id))
      BY Zenon, <1>2, <2>3, OnOfferIs
    <3>2. FileReject(f.id) \in Seq(FxFrame)
      BY SMTT(30), <2>1, OutTyped
    <3>3. \A x \in Elems(FileReject(f.id)) : x.type = "FileReject"
      BY SMTT(30) DEF FileReject, Elems
    <3>4. \A t \in Stations : rx'[t] # None => rx'[t] = rx[t]
      BY SMTT(30), <3>1 DEF Store, Shape
    <3> QED BY Zenon, <2>2, <3>1, <3>2, <3>3, <3>4 DEF Carries
  <2>4. CASE decision = "Prompt"
    <3>1. Store(s, q, part) /\ AirStep(s, <<>>)
      BY Zenon, <1>2, <2>4, OnOfferIs
    <3>2. <<>> \in Seq(FxFrame) /\ Elems(<<>>) = {}
      BY SMTT(30), ElemsFew
    <3>3. q.id = f.id /\ q.file = f.file /\ q.sig = f.sig
      BY Zenon DEF OfferedRx
    <3> HIDE DEF q
    <3>4. rx'[s] = q /\ \A t \in Stations : t # s => rx'[t] = rx[t]
      BY SMTT(30), <3>1 DEF Store, Shape
    <3> QED BY Zenon, <2>1, <2>2, <3>1, <3>2, <3>3, <3>4 DEF Carries
  <2>5. CASE decision = "AutoAccept"
    <3>1. PICK r, lead : /\ Takes(s, r, part, lead)
                         /\ r.id = f.id /\ r.file = f.file /\ r.sig = f.sig
      BY Zenon, <1>2, <2>5, OfferTakes
    <3>5. PICK out : Sends(s, r, lead, out)
      BY Zenon, <3>1, TakesSends
    <3>2. /\ out \in Seq(FxFrame) /\ AirStep(s, out)
          /\ \A x \in Elems(out) : x = lead \/ x.type = "FileComplete"
      BY Zenon, <3>5 DEF Sends
    <3>3. lead.type \in {"FileAccept", "BlockAck"}
      BY Zenon, <3>1 DEF Takes
    <3>4. rx'[s] \in {r, None} /\ \A t \in Stations : t # s => rx'[t] = rx[t]
      BY SMTT(30), <3>1 DEF Takes, Stored, Verified, Shape
    <3> QED BY Zenon, <2>1, <2>2, <3>1, <3>2, <3>3, <3>4 DEF Carries
  <2> QED BY SMTT(30), <2>3, <2>4, <2>5, FileAssumption
<1>3. ASSUME NEW s \in Stations, NEW r, NEW part, NEW lead, Takes(s, r, part, lead),
             rx[s] # None, r.id = rx[s].id, r.file = rx[s].file, r.sig = rx[s].sig
      PROVE  \E out : Carries(s, out)
  <2>4. PICK out : Sends(s, r, lead, out)
    BY Zenon, <1>3, TakesSends
  <2>1. /\ out \in Seq(FxFrame) /\ AirStep(s, out)
        /\ \A x \in Elems(out) : x = lead \/ x.type = "FileComplete"
    BY Zenon, <2>4 DEF Sends
  <2>2. lead.type \in {"FileAccept", "BlockAck"} /\ UNCHANGED <<tx, transfer_id>>
    BY Zenon, <1>3 DEF Takes
  <2>3. rx'[s] \in {r, None} /\ \A t \in Stations : t # s => rx'[t] = rx[t]
    BY <1>3 DEF Takes, Stored, Verified, Shape
  <2> QED BY Zenon, <1>3, <2>1, <2>2, <2>3 DEF Carries
<1>4. ASSUME NEW s \in Stations, AcceptOffer(s) PROVE \E out : Carries(s, out)
  BY Zenon, <1>3, <1>4, AcceptTakes
<1>5. ASSUME NEW s \in Stations, NEW p \in Persists, OnBlock(s, p)
      PROVE  \E out : Carries(s, out)
  BY Zenon, <1>3, <1>5, BlockTakes
<1>6. ASSUME NEW s \in Stations, Ending(s) PROVE \E out : Carries(s, out)
  <2>1. PICK out : Ends(s, out)
    BY <1>6, EndingIs
  <2>2. out \in Seq(FxFrame) /\ \A x \in Elems(out) : x.type \in {"FileReject", "FileCancel"}
    <3>1. CASE out = <<>>
      BY <3>1, OutTyped DEF Elems
    <3>2. CASE out # <<>>
      <4>1. PICK x \in FxFrame : x.type \in {"FileReject", "FileCancel"} /\ out = <<x>>
        BY <2>1, <3>2 DEF Ends
      <4> QED BY SMTT(30), <4>1, ElemsFew
    <3> QED BY <3>1, <3>2
  <2> QED BY <2>1, <2>2 DEF Ends, Carries
<1>7. PICK s \in Stations : TRUE
  BY SMTT(30), PairAssumption
<1>8. ASSUME UNCHANGED <<channel, transfer_id>>,
             \A t \in Stations : tx'[t] # None =>
               tx[t] # None /\ tx'[t].id = tx[t].id /\ tx'[t].file = tx[t].file,
             \A t \in Stations : rx'[t] # None =>
               /\ rx[t] # None /\ rx'[t].id = rx[t].id /\ rx'[t].file = rx[t].file
               /\ rx'[t].sig = rx[t].sig
      PROVE  Carries(s, <<>>)
  <2>1. Peer(s) \in Stations /\ channel[Peer(s)] \in Seq(FxFrame)
    BY SMTT(30), PeerIs DEF Shape
  <2>2. AirStep(s, <<>>)
    BY SMTT(30), <1>8, <2>1 DEF AirStep, Shape
  <2>3. <<>> \in Seq(FxFrame) /\ Elems(<<>>) = {}
    BY ElemsFew
  <2> QED BY SMTT(30), <1>8, <2>2, <2>3 DEF Carries
<1>9. CASE Tick
  <2>1. \A t \in Stations : tx'[t] = Older(tx[t]) /\ rx'[t] = Older(rx[t])
    BY Zenon, <1>9 DEF Tick
  <2>2. UNCHANGED <<channel, transfer_id>>
    BY SMTT(30), <1>9 DEF Tick
  <2>3. \A t \in Stations : tx'[t] # None =>
          tx[t] # None /\ tx'[t].id = tx[t].id /\ tx'[t].file = tx[t].file
    BY SMTT(30), <2>1, OlderIs DEF Shape
  <2>4. \A t \in Stations : rx'[t] # None =>
          /\ rx[t] # None /\ rx'[t].id = rx[t].id /\ rx'[t].file = rx[t].file
          /\ rx'[t].sig = rx[t].sig
    BY SMTT(30), <2>1, OlderIs DEF Shape
  <2> QED BY Zenon, <1>8, <2>2, <2>3, <2>4
<1>10. CASE AgePartials
  BY Zenon, <1>8, <1>10 DEF AgePartials
<1> QED BY <1>1, <1>2, <1>4, <1>5, <1>6, <1>9, <1>10 DEF FxNext, Ending

(* What offering a file does.                                              *)
Offers(s, f, sig, t, x) ==
  /\ t \in TxSession /\ x \in FxFrame
  /\ tx' = [tx EXCEPT ![s] = t] /\ AirStep(s, <<x>>)
  /\ t.id = transfer_id + 1 /\ t.file = f /\ Believed(t) = {}
  /\ x.type = "FileOffer" /\ x.id = transfer_id + 1 /\ x.file = f /\ x.sig = sig
  /\ transfer_id' = transfer_id + 1
  /\ UNCHANGED <<rx, partial, stale, received_files, assembled, vouched, receipts>>

(* Offering a file begins a session and sends an offer.                    *)
LEMMA SendFileIs ==
  ASSUME Shape, NEW s \in Stations, NEW f \in Files, NEW sig \in Signed, SendFile(s, f, sig)
  PROVE  \E t, x : Offers(s, f, sig, t, x)
<1> DEFINE n == transfer_id + 1
           t == [id |-> n, file |-> f, st |-> "Offering", block |-> 0,
                 retries |-> 0, held |-> {}, left |-> OfferTicks]
           x == [type |-> "FileOffer", id |-> n, file |-> f, sig |-> sig]
<1>1. n \in Nat /\ transfer_id' = n
  BY SMTT(30) DEF Shape, SendFile
<1>2. 0 \in Blocks /\ OfferTicks \in Nat /\ 0 \in 0 .. MaxBlockRetries
  BY FileAssumption DEF Blocks
<1>3. t \in TxSession /\ x \in FxFrame
  BY Zenon, <1>1, <1>2 DEF TxSession, FxFrame
<1>4. tx' = [tx EXCEPT ![s] = t] /\ SendFrames(s, <<x>>)
  BY Zenon, <1>1 DEF SendFile
<1>5. t.id = n /\ t.file = f /\ Believed(t) = {}
  BY SMTT(30) DEF Believed
<1>6. x.type = "FileOffer" /\ x.id = n /\ x.file = f /\ x.sig = sig
  OBVIOUS
<1> HIDE DEF t, x
<1>7. AirStep(s, <<x>>)
  BY Zenon, <1>3, <1>4, OutTyped, SendFramesIs
<1>8. Offers(s, f, sig, t, x)
  BY Zenon, <1>1, <1>3, <1>4, <1>5, <1>6, <1>7 DEF SendFile, Offers, outcomes
<1> QED BY SMTT(30), <1>8

(* A new offer begins a story of its own.                                  *)
LEMMA SendFileKeepsStory ==
  ASSUME Shape, AllOrdered, NEW c, Story(c), NEW s \in Stations, NEW f \in Files,
         NEW sig \in Signed, SendFile(s, f, sig)
  PROVE  AllOrdered' /\ \E e : Story(e)'
<1>13. PICK n : n = transfer_id + 1
  OBVIOUS
<1>14. PICK e : e = [c EXCEPT ![n] = [file |-> f, sig |-> sig, to |-> Peer(s)]]
  BY Zenon
<1>1. Peer(s) \in Stations /\ Peer(s) # s /\ sig \in BOOLEAN /\ n \in Nat /\ transfer_id \in Nat
  BY <1>13, PeerIs, FileAssumption DEF Shape
<1>15. PICK t, x : Offers(s, f, sig, t, x)
  BY SendFileIs
<1>2. /\ t \in TxSession /\ x \in FxFrame
      /\ tx' = [tx EXCEPT ![s] = t] /\ AirStep(s, <<x>>)
      /\ t.id = n /\ t.file = f
      /\ x.type = "FileOffer" /\ x.id = n /\ x.file = f /\ x.sig = sig
  BY Zenon, <1>13, <1>15 DEF Offers
<1>3. transfer_id' = n /\ UNCHANGED rx
  BY Zenon, <1>13, <1>15 DEF Offers
<1>4. <<x>> \in Seq(FxFrame) /\ Elems(<<x>>) = {x}
  BY SMTT(30), <1>2, ElemsFew
<1>5. \A y \in Elems(channel[Peer(s)]) : y.type \in Opening => y.id # x.id
  BY SMTT(30), <1>1, <1>2, <1>13 DEF Story
<1>6. AllOrdered'
  BY Zenon, <1>2, <1>4, <1>5, AirOrdered
<1>7. /\ Elems(channel'[s]) \subseteq Elems(channel[s])
      /\ \A q \in Stations : Elems(channel'[q]) \subseteq Elems(channel[q]) \cup {x}
      /\ \A q \in Stations : q # s => q = Peer(s)
  BY Zenon, <1>2, <1>4, AirIs, PeerIs
<1>8. /\ e \in [Nat -> Transfer] /\ e[n].file = f /\ e[n].sig = sig /\ e[n].to = Peer(s)
      /\ \A i \in Nat : i <= transfer_id => e[i] = c[i]
  BY SMTT(30), <1>1, <1>13, <1>14 DEF Story, Transfer
<1>9. ASSUME NEW q \in Stations, tx'[q] # None
      PROVE  tx'[q].id <= transfer_id' /\ e[tx'[q].id].file = tx'[q].file
  <2>1. CASE q = s
    BY SMTT(30), <1>1, <1>2, <1>3, <1>8, <1>13, <2>1 DEF Shape
  <2>2. CASE q # s
    <3>1. tx'[q] = tx[q] /\ tx[q].id \in Nat /\ tx[q].id <= transfer_id
          /\ c[tx[q].id].file = tx[q].file
      BY SMTT(30), <1>2, <1>9, <2>2 DEF Shape, Story, TxSession
    <3> QED BY SMTT(30), <3>1, <1>1, <1>3, <1>8, <1>13
  <2> QED BY Zenon, <2>1, <2>2
<1>10. ASSUME NEW q \in Stations, rx'[q] # None
       PROVE  /\ rx'[q].id <= transfer_id' /\ e[rx'[q].id].file = rx'[q].file
              /\ e[rx'[q].id].sig = rx'[q].sig /\ e[rx'[q].id].to = q
  <2>1. rx'[q] = rx[q] /\ rx[q].id \in Nat /\ rx[q].id <= transfer_id
    BY SMTT(30), <1>3, <1>10 DEF Shape, Story, RxSession
  <2> QED BY SMTT(30), <2>1, <1>1, <1>3, <1>8, <1>13, <1>10 DEF Story
<1>11. ASSUME NEW q \in Stations, NEW g \in Elems(channel'[q])
       PROVE  /\ g.type \in Opening => g.id <= transfer_id' /\ e[g.id].file = g.file
              /\ g.type = "FileOffer" => e[g.id].sig = g.sig /\ e[g.id].to = q
  <2>1. CASE g \in Elems(channel[q])
    <3>1. g \in FxFrame
      BY SMTT(30), <2>1 DEF Shape, Elems
    <3>2. g.id \in Nat
      BY Zenon, <3>1, FrameIs
    <3> QED BY SMTT(30), <2>1, <3>2, <1>1, <1>3, <1>8, <1>13 DEF Story, Opening
  <2>2. CASE g \notin Elems(channel[q])
    <3>1. g = x /\ q = Peer(s)
      BY <1>7, <1>11, <2>2
    <3> QED BY SMTT(30), <3>1, <1>1, <1>2, <1>3, <1>8
  <2> QED BY Zenon, <2>1, <2>2
<1>12. Story(e)'
  BY Zenon, <1>8, <1>9, <1>10, <1>11 DEF Story
<1> QED BY <1>6, <1>12

Told == AllOrdered /\ \E c : Story(c)

(* Every step keeps the stories straight.                                  *)
LEMMA ToldStep ==
  ASSUME Shape, Told, [FxNext]_fxVars
  PROVE  Told'
<1>1. PICK c : Story(c)
  BY DEF Told
<1>2. CASE \E s \in Stations, f \in Files, sig \in Signed : SendFile(s, f, sig)
  BY <1>1, <1>2, SendFileKeepsStory DEF Told
<1>3. CASE FxNext /\ ~ \E s \in Stations, f \in Files, sig \in Signed : SendFile(s, f, sig)
  <2>1. PICK s \in Stations : \E out : Carries(s, out)
    BY SMTT(30), <1>3, StepCarries
  <2> QED BY <1>1, <2>1, CarriesKeeps DEF Told
<1>4. CASE UNCHANGED fxVars
  BY SMTT(30), <1>4 DEF fxVars, Told, AllOrdered, Story
<1> QED BY <1>2, <1>3, <1>4

(* Before the first offer there is no story to contradict.                 *)
LEMMA ToldInit == FxInit => Told
<1> SUFFICES ASSUME FxInit PROVE Told
  OBVIOUS
<1>1. PICK s \in Stations : TRUE
  BY PairAssumption
<1> DEFINE c == [n \in Nat |-> [file |-> None, sig |-> TRUE, to |-> s]]
<1>2. c \in [Nat -> Transfer]
  BY DEF Transfer
<1>3. \A t \in Stations : Elems(channel[t]) = {} /\ Ordered(channel[t])
  BY SMTT(30) DEF FxInit, Elems, Ordered
<1> HIDE DEF c
<1>4. Story(c)
  BY Zenon, <1>2, <1>3 DEF FxInit, Story
<1> QED BY <1>3, <1>4 DEF Told, AllOrdered

-----------------------------------------------------------------------------
(* Contents are never mixed, neither in a session nor on disk.             *)

DiskUnmixed(part) == \A d \in Dirs : \A k \in Blocks : part[d][k] \in {d[2], None}
Unmixed(r) == \A k \in Blocks : r.blocks[k] \in {r.file, None}

Content == AssembledIsOffered /\ \A s \in Stations : DiskUnmixed(partial[s])

(* Settling an unmixed session with an unmixed disk.                       *)
LEMMA TakesUnmixed ==
  ASSUME Shape, Content, NEW s \in Stations, NEW r, NEW part, NEW lead,
         Takes(s, r, part, lead), Unmixed(r), DiskUnmixed(part)
  PROVE  Content'
<1> DEFINE cleared == [part EXCEPT ![<<r.sig, r.file>>] = NoBlocks]
<1>1. part \in Disk
  BY Zenon DEF Takes
<1>2. DiskUnmixed(cleared)
  BY Zenon, <1>1 DEF DiskUnmixed, Disk, BlockMap, NoBlocks
<1> HIDE DEF cleared
<1>3. partial' = [partial EXCEPT ![s] = part] \/ partial' = [partial EXCEPT ![s] = cleared]
  BY SMTT(30) DEF Takes, Stored, Verified, cleared
<1>4. \A t \in Stations : DiskUnmixed(partial'[t])
  <2> TAKE t \in Stations
  <2>1. partial'[t] \in {partial[t], part, cleared}
    BY <1>3 DEF Shape
  <2> QED BY Zenon, <1>2, <2>1 DEF Content
<1>5. rx'[s] \in {r, None} /\ \A t \in Stations : t # s => rx'[t] = rx[t]
  BY SMTT(30) DEF Takes, Stored, Verified, Shape
<1>6. AssembledIsOffered'
  BY Zenon, <1>5 DEF Content, AssembledIsOffered, Unmixed
<1> QED BY Zenon, <1>4, <1>6 DEF Content, DiskUnmixed

(* Every step keeps contents apart.                                        *)
LEMMA ContentStep ==
  ASSUME Shape, Told, Content, [FxNext]_fxVars
  PROVE  Content'
<1>1. ASSUME UNCHANGED partial,
             \A s \in Stations : rx'[s] # None =>
               rx[s] # None /\ rx'[s].blocks = rx[s].blocks /\ rx'[s].file = rx[s].file
      PROVE  Content'
  BY SMTT(30), <1>1 DEF Content, AssembledIsOffered, DiskUnmixed
<1>2. ASSUME NEW s \in Stations, NEW f \in Files, NEW sig \in Signed, SendFile(s, f, sig)
      PROVE  Content'
  BY Zenon, <1>1, <1>2 DEF SendFile
<1>3. ASSUME NEW s \in Stations, OnTxFrame(s) PROVE Content'
  BY Zenon, <1>1, <1>3 DEF OnTxFrame
<1>4. ASSUME NEW s \in Stations, NEW decision \in Decisions, OnOffer(s, decision)
      PROVE  Content'
  <2> DEFINE f == Head(channel[s])
             q == OfferedRx(s, f)
             part == Purged(s, f.sig)
             dir == <<f.sig, f.file>>
  <2>1. dir \in Dirs /\ part \in Disk
    BY <1>4, OfferTyped DEF OnOffer
  <2>2. DiskUnmixed(partial[s])
    BY SMTT(30) DEF Content
  <2>3. DiskUnmixed(part)
    BY SMTT(30), <2>2 DEF Purged, NoBlocks, DiskUnmixed
  <2>4. q.blocks = part[dir] /\ q.file = f.file /\ dir[2] = f.file
    BY Zenon DEF OfferedRx
  <2> HIDE DEF q, part
  <2>5. Unmixed(q)
    BY SMTT(30), <2>1, <2>3, <2>4 DEF Unmixed, DiskUnmixed
  <2>6. ASSUME NEW r, r \in {q, None}, rx' = [rx EXCEPT ![s] = r],
               partial' = [partial EXCEPT ![s] = part]
        PROVE  Content'
    <3>1. \A t \in Stations : DiskUnmixed(partial'[t])
      <4> TAKE t \in Stations
      <4>1. partial'[t] \in {partial[t], part}
        BY <2>6 DEF Shape
      <4> QED BY <2>3, <4>1 DEF Content
    <3>2. rx'[s] \in {q, None} /\ \A t \in Stations : t # s => rx'[t] = rx[t]
      BY SMTT(30), <2>6 DEF Shape
    <3>3. AssembledIsOffered'
      BY SMTT(30), <2>5, <3>2 DEF Content, AssembledIsOffered, Unmixed
    <3> QED BY <3>1, <3>3 DEF Content, DiskUnmixed
  <2>7. CASE decision = "Reject"
    BY SMTT(30), <1>4, <2>6, <2>7, OnOfferIs DEF Store, part
  <2>8. CASE decision = "Prompt"
    BY SMTT(30), <1>4, <2>6, <2>8, OnOfferIs DEF Store, part, q
  <2>9. CASE decision = "AutoAccept"
    <3>1. PICK r, lead : /\ Takes(s, r, part, lead)
                         /\ r.file = f.file /\ r.sig = f.sig
                         /\ r.blocks = Purged(s, r.sig)[<<r.sig, r.file>>]
      BY Zenon, <1>4, <2>9, OfferTakes DEF part
    <3>2. r.blocks = part[dir]
      BY SMTT(30), <3>1 DEF part
    <3>3. Unmixed(r)
      BY Zenon, <2>1, <2>3, <2>4, <3>1, <3>2 DEF Unmixed, DiskUnmixed
    <3> QED BY Zenon, <2>3, <3>1, <3>3, TakesUnmixed
  <2> QED BY Zenon, <2>7, <2>8, <2>9, FileAssumption
<1>5. ASSUME NEW s \in Stations, AcceptOffer(s) PROVE Content'
  <2>1. PICK r, lead : /\ Takes(s, r, partial[s], lead)
                       /\ r.file = rx[s].file /\ r.blocks = rx[s].blocks
    BY SMTT(30), <1>5, AcceptTakes
  <2>2. rx[s] # None
    BY SMTT(30), <1>5, AcceptTakes
  <2>3. Unmixed(r) /\ DiskUnmixed(partial[s])
    BY SMTT(30), <2>1, <2>2 DEF Content, AssembledIsOffered, Unmixed
  <2> QED BY SMTT(30), <2>1, <2>3, TakesUnmixed
<1>6. ASSUME NEW s \in Stations, NEW p \in Persists, OnBlock(s, p) PROVE Content'
  <2> DEFINE f == Head(channel[s])
             d == <<rx[s].sig, rx[s].file>>
  <2>1. /\ f \in Elems(channel[s]) /\ f.type = "FileData" /\ f.block \in Blocks
        /\ f.file \in Files /\ f.id = rx[s].id /\ rx[s] # None /\ d \in Dirs
    BY Zenon, <1>6, BlockTakes
  <2>2. PICK r, part, lead :
             /\ Takes(s, r, part, lead)
             /\ r.id = rx[s].id /\ r.file = rx[s].file /\ r.sig = rx[s].sig
             /\ r.blocks = [rx[s].blocks EXCEPT ![f.block] = f.file]
             /\ WrittenTo(part, s, d, f)
    BY Zenon, <1>6, BlockTakes
  <2>3. f.file = rx[s].file
    BY SMTT(30), <2>1 DEF Told, Story, Opening
  <2>4. d[2] = rx[s].file
    OBVIOUS
  <2> HIDE DEF f, d
  <2>5. rx[s] \in RxSession /\ partial[s] \in Disk /\ DiskUnmixed(partial[s])
        /\ Unmixed(rx[s])
    BY Zenon, <2>1 DEF Shape, Content, AssembledIsOffered, Unmixed
  <2>6. Unmixed(r)
    BY Zenon, <2>1, <2>2, <2>3, <2>5 DEF Unmixed, RxSession
  <2>7. DiskUnmixed(part)
    <3>1. CASE part = partial[s]
      BY SMTT(30), <2>5, <3>1
    <3>2. ASSUME NEW v, v \in {f.file, None},
                 part = [partial[s] EXCEPT ![d] = [@ EXCEPT ![f.block] = v]]
          PROVE  DiskUnmixed(part)
      BY SMTT(30), <2>1, <2>3, <2>4, <2>5, <3>2 DEF DiskUnmixed, Disk, BlockMap
    <3> QED BY Zenon, <2>2, <3>1, <3>2 DEF WrittenTo
  <2> QED BY SMTT(30), <2>2, <2>6, <2>7, TakesUnmixed
<1>7. ASSUME NEW s \in Stations, Ending(s) PROVE Content'
  <2>1. PICK out : Ends(s, out)
    BY SMTT(30), <1>7, EndingIs
  <2> QED BY Zenon, <1>1, <2>1 DEF Ends
<1>8. CASE Tick
  <2>1. \A t \in Stations : rx'[t] = Older(rx[t]) /\ rx[t] \in RxSession \cup {None}
    BY SMTT(30), <1>8 DEF Tick, Shape
  <2>2. \A t \in Stations : rx'[t] # None =>
          rx[t] # None /\ rx'[t].blocks = rx[t].blocks /\ rx'[t].file = rx[t].file
    BY SMTT(30), <2>1, OlderIs
  <2> QED BY SMTT(30), <1>1, <1>8, <2>2 DEF Tick
<1>9. CASE AgePartials
  BY SMTT(30), <1>1, <1>9 DEF AgePartials
<1>10. CASE UNCHANGED fxVars
  BY SMTT(30), <1>1, <1>10 DEF fxVars
<1> QED BY Zenon, <1>2, <1>3, <1>4, <1>5, <1>6, <1>7, <1>8, <1>9, <1>10 DEF FxNext, Ending

(* Nothing is on disk before the first transfer.                           *)
LEMMA ContentInit == FxInit => Content
  BY DEF FxInit, Content, AssembledIsOffered, DiskUnmixed, NoBlocks

(* A receiver never mixes contents: every block it holds, received or      *)
(* reclaimed by load_partials, is a block of the file it was offered,      *)
(* however often transfers were repeated, interrupted and resumed.         *)
THEOREM ContentsNeverMix == FxSpec => []AssembledIsOffered
<1>1. Content => AssembledIsOffered
  BY DEF Content
<1> QED BY <1>1, ShapeInit, ShapeStep, ToldInit, ToldStep, ContentInit, ContentStep, PTL
        DEF FxSpec

-----------------------------------------------------------------------------
(* What a sender believes.  D[i] holds the blocks the receiver of transfer *)
(* i has ever said it has, until it reassembles the file.                  *)

(* A receiver still has, in its session or on disk, all it said it has.    *)
(* While an offer is on the air a session it opens, or opened, has only    *)
(* what is on disk: the blocks of its transfer come after it.              *)
Held(D, r, part, old, q, done) ==
  /\ r # None => r.id \in done \/ D[r.id] \subseteq Have(r.blocks)
  /\ \A f \in Elems(q) : f.type = "FileOffer" =>
       /\ r # None /\ r.id = f.id =>
            /\ f = Head(q) /\ <<f.sig, f.file>> \notin old
            /\ Have(r.blocks) \subseteq Have(part[<<f.sig, f.file>>])
       /\ f.id \notin done /\ D[f.id] # {} =>
            /\ f = Head(q) /\ <<f.sig, f.file>> \notin old
            /\ D[f.id] \subseteq Have(part[<<f.sig, f.file>>])
            /\ r = None \/ r.id = f.id

(* The sender believes no more than was said.                              *)
Heard(D) ==
  /\ \A s \in Stations : tx[s] # None =>
       tx[s].id \in assembled \/ Believed(tx[s]) \subseteq D[tx[s].id]
  /\ \A s \in Stations : \A f \in Elems(channel[s]) :
       f.id \in assembled \/ Claims(f) \subseteq D[f.id]

Cover(D) ==
  /\ D \in [Nat -> SUBSET Blocks]
  /\ \A i \in Nat : i \notin assembled => D[i] # Blocks
  /\ \A i \in Nat : i > transfer_id => D[i] = {}
  /\ Heard(D)
  /\ \A s \in Stations :
       Held(D, rx[s], partial[s], stale[s], channel[s], assembled)

(* Steps that neither open a session nor store a block.                    *)
Quiet(s, out) ==
  /\ out \in Seq(FxFrame) /\ AirStep(s, out)
  /\ UNCHANGED <<partial, stale, transfer_id, assembled, vouched>>
  /\ \A x \in Elems(out) : x.type \in {"FileData", "FileReject", "FileCancel"}
  /\ \A t \in Stations : tx'[t] # None =>
       /\ tx[t] # None /\ tx'[t].id = tx[t].id
       /\ \/ Believed(tx'[t]) = Believed(tx[t])
          \/ \E f \in Elems(channel[t]) :
               f.id = tx[t].id /\ Believed(tx'[t]) \subseteq Believed(tx[t]) \cup Claims(f)
  /\ \A t \in Stations : rx'[t] # None =>
       rx[t] # None /\ rx'[t].id = rx[t].id /\ rx'[t].blocks = rx[t].blocks
  /\ \/ receipts' = receipts
     \/ \E f \in Elems(channel[s]) :
          f.type = "FileComplete" /\ f.ok /\ receipts' = receipts \cup {f.id}

(* Answers to the sender, the steps that end sessions, and time.           *)
LEMMA QuietStep ==
  ASSUME Shape,
         \/ \E s \in Stations : OnTxFrame(s) \/ Ending(s)
         \/ Tick
  PROVE  \E s \in Stations : \E out : Quiet(s, out)
<1>1. ASSUME NEW s \in Stations, OnTxFrame(s) PROVE \E out : Quiet(s, out)
  <2> DEFINE f == Head(channel[s])
  <2>1. PICK r : /\ tx' = [tx EXCEPT ![s] = r.tx]
                 /\ AirStep(s, r.out)
                 /\ \/ tx[s] = None /\ r.tx = None /\ r.out = <<>> /\ UNCHANGED receipts
                    \/ /\ tx[s] # None
                       /\ f.id = tx[s].id => Follows(r, tx[s], f)
                       /\ f.id # tx[s].id => r.tx = tx[s] /\ r.out = <<>>
                       /\ receipts' \in {receipts, receipts \cup {f.id}}
                       /\ receipts' # receipts => f.type = "FileComplete" /\ f.ok
    BY Zenon, <1>1, OnTxFrameIs
  <2>2. r.out = <<>> \/ (tx[s] # None /\ \E x \in DataOf(tx[s]) : r.out = <<x>>)
    BY Zenon, <2>1 DEF Follows
  <2>3. tx[s] # None => tx[s] \in TxSession
    BY SMTT(30) DEF Shape
  <2>4. r.out \in Seq(FxFrame)
    BY Zenon, <2>2, <2>3, OutTyped
  <2>5. \A x \in Elems(r.out) : x.type = "FileData"
    <3>1. CASE r.out = <<>>
      BY <3>1 DEF Elems
    <3>2. CASE r.out # <<>>
      <4>1. PICK x \in DataOf(tx[s]) : r.out = <<x>>
        BY SMTT(30), <2>2, <3>2
      <4>2. Elems(r.out) = {x}
        BY SMTT(30), <4>1 DEF Elems
      <4> QED BY SMTT(30), <4>2 DEF DataOf
    <3> QED BY <3>1, <3>2
  <2>6. f \in Elems(channel[s])
    BY Zenon, <1>1, HeadIs DEF OnTxFrame
  <2> HIDE DEF f
  <2>7. ASSUME NEW t \in Stations, tx'[t] # None
        PROVE  /\ tx[t] # None /\ tx'[t].id = tx[t].id
               /\ \/ Believed(tx'[t]) = Believed(tx[t])
                  \/ \E g \in Elems(channel[t]) :
                       /\ g.id = tx[t].id
                       /\ Believed(tx'[t]) \subseteq Believed(tx[t]) \cup Claims(g)
    <3>1. CASE t # s
      BY Zenon, <2>1, <2>7, <3>1 DEF Shape
    <3>2. CASE t = s /\ f.id # tx[s].id
      BY Zenon, <2>1, <2>7, <3>2 DEF Shape
    <3>3. CASE t = s /\ f.id = tx[s].id
      <4>1. tx'[s] = r.tx /\ r.tx # None
        BY Zenon, <2>1, <2>7, <3>3 DEF Shape
      <4>2. Follows(r, tx[s], f) /\ tx[s] # None
        BY Zenon, <2>1, <3>3, <4>1
      <4> QED BY Zenon, <2>6, <3>3, <4>1, <4>2 DEF Follows
    <3> QED BY Zenon, <3>1, <3>2, <3>3
  <2>8. UNCHANGED <<rx, partial, stale, transfer_id, assembled, vouched>>
    BY Zenon, <1>1 DEF OnTxFrame, outcomes
  <2>9. \/ receipts' = receipts
        \/ \E g \in Elems(channel[s]) :
             g.type = "FileComplete" /\ g.ok /\ receipts' = receipts \cup {g.id}
    BY Zenon, <2>1, <2>6
  <2> QED BY Zenon, <2>1, <2>4, <2>5, <2>7, <2>8, <2>9 DEF Quiet
<1>2. ASSUME NEW s \in Stations, Ending(s) PROVE \E out : Quiet(s, out)
  <2>1. PICK out : Ends(s, out)
    BY <1>2, EndingIs
  <2>2. out \in Seq(FxFrame) /\ \A x \in Elems(out) : x.type \in {"FileReject", "FileCancel"}
    <3>1. CASE out = <<>>
      BY <3>1, OutTyped DEF Elems
    <3>2. CASE out # <<>>
      <4>1. PICK x \in FxFrame : x.type \in {"FileReject", "FileCancel"} /\ out = <<x>>
        BY SMTT(30), <2>1, <3>2 DEF Ends
      <4> QED BY SMTT(30), <4>1, ElemsFew
    <3> QED BY <3>1, <3>2
  <2>3. /\ \A t \in Stations : tx'[t] # None => tx'[t] = tx[t]
        /\ \A t \in Stations : rx'[t] # None => rx'[t] = rx[t]
    BY SMTT(30), <2>1 DEF Ends
  <2> QED BY Zenon, <2>1, <2>2, <2>3 DEF Ends, Quiet
<1>3. ASSUME Tick PROVE \E s \in Stations : Quiet(s, <<>>)
  <2>1. PICK s \in Stations : TRUE
    BY Zenon, <1>3 DEF Tick
  <2>2. Peer(s) \in Stations /\ channel[Peer(s)] \in Seq(FxFrame)
    BY SMTT(30), PeerIs DEF Shape
  <2>3. AirStep(s, <<>>)
    BY SMTT(30), <1>3, <2>2 DEF Tick, AirStep, Shape
  <2>4. <<>> \in Seq(FxFrame) /\ Elems(<<>>) = {}
    BY SMTT(30), ElemsFew
  <2>5. \A t \in Stations : tx'[t] = Older(tx[t]) /\ rx'[t] = Older(rx[t])
    BY Zenon, <1>3 DEF Tick
  <2>6. ASSUME NEW t \in Stations, tx'[t] # None
        PROVE  tx[t] # None /\ tx'[t].id = tx[t].id /\ Believed(tx'[t]) = Believed(tx[t])
    <3>1. tx[t] # None /\ tx[t] \in TxSession
      BY Zenon, <2>5, <2>6 DEF Older, Shape
    <3>2. /\ tx'[t].id = tx[t].id /\ tx'[t].st = tx[t].st
          /\ tx'[t].held = tx[t].held /\ tx'[t].block = tx[t].block
      BY ZenonT(30), <2>5, <3>1 DEF Older, TxSession
    <3> QED BY Zenon, <3>1, <3>2 DEF Believed
  <2>7. ASSUME NEW t \in Stations, rx'[t] # None
        PROVE  rx[t] # None /\ rx'[t].id = rx[t].id /\ rx'[t].blocks = rx[t].blocks
    BY SMTT(30), <2>5, <2>7, OlderIs DEF Shape
  <2> QED BY Zenon, <1>3, <2>3, <2>4, <2>6, <2>7 DEF Quiet, Tick, outcomes
<1> QED BY SMTT(30), <1>1, <1>2, <1>3

(* A receiver nothing happens to keeps what it said, when nothing is said  *)
(* about its transfers and no offer is sent to it.                         *)
LEMMA HeldElsewhere ==
  ASSUME NEW D, NEW E, NEW r, NEW s, NEW part, NEW old, NEW p, NEW q, NEW done, NEW over,
         Held(D, r, part, old, p, done), done \subseteq over,
         s = None \/ (r # None /\ s.id = r.id /\ s.blocks = r.blocks),
         s # None => E[s.id] = D[s.id],
         \A f \in Elems(q) : f.type = "FileOffer" =>
           /\ f \in Elems(p) /\ E[f.id] = D[f.id]
           /\ f = Head(p) => f = Head(q)
  PROVE  Held(E, s, part, old, q, over)
<1>1. s # None => s.id \in over \/ E[s.id] \subseteq Have(s.blocks)
  BY SMTT(30) DEF Held
<1>2. ASSUME NEW f \in Elems(q), f.type = "FileOffer", s # None, s.id = f.id
      PROVE  /\ f = Head(q) /\ <<f.sig, f.file>> \notin old
             /\ Have(s.blocks) \subseteq Have(part[<<f.sig, f.file>>])
  BY Zenon, <1>2 DEF Held
<1>3. ASSUME NEW f \in Elems(q), f.type = "FileOffer", f.id \notin over, E[f.id] # {}
      PROVE  /\ f = Head(q) /\ <<f.sig, f.file>> \notin old
             /\ E[f.id] \subseteq Have(part[<<f.sig, f.file>>])
             /\ s = None \/ s.id = f.id
  BY Zenon, <1>3 DEF Held
<1> QED BY Zenon, <1>1, <1>2, <1>3 DEF Held

(* The same of a station in a step.                                        *)
LEMMA HeldThere ==
  ASSUME NEW D, NEW E, NEW t, Held(D, rx[t], partial[t], stale[t], channel[t], assembled),
         assembled \subseteq assembled', partial'[t] = partial[t], stale'[t] = stale[t],
         rx'[t] = None \/ (rx[t] # None /\ rx'[t].id = rx[t].id /\ rx'[t].blocks = rx[t].blocks),
         rx'[t] # None => E[rx'[t].id] = D[rx'[t].id],
         \A f \in Elems(channel'[t]) : f.type = "FileOffer" =>
           /\ f \in Elems(channel[t]) /\ E[f.id] = D[f.id]
           /\ f = Head(channel[t]) => f = Head(channel'[t])
  PROVE  Held(E, rx'[t], partial'[t], stale'[t], channel'[t], assembled')
BY HeldElsewhere

(* The identifiers of a session and of a frame.                            *)
LEMMA Numbered ==
  ASSUME Shape, NEW t \in Stations
  PROVE  /\ rx[t] # None => rx[t].id \in Nat
         /\ \A f \in Elems(channel[t]) : f \in FxFrame /\ f.id \in Nat
<1>1. rx[t] # None => rx[t].id \in Nat
  BY DEF Shape, RxSession
<1>2. \A f \in Elems(channel[t]) : f \in FxFrame
  BY DEF Shape, Elems
<1> QED BY Zenon, <1>1, <1>2, FrameIs

(* Quiet steps.                                                            *)
LEMMA CoverQuiet ==
  ASSUME Shape, AllOrdered, NEW D, Cover(D), NEW s \in Stations, NEW out, Quiet(s, out)
  PROVE  Cover(D)'
<1>1. out \in Seq(FxFrame) /\ AirStep(s, out)
  BY Zenon DEF Quiet
<1>2. /\ \A t \in Stations : Elems(channel'[t]) \subseteq Elems(channel[t]) \cup Elems(out)
      /\ \A t \in Stations : \A f \in Elems(channel[t]) :
              f.type = "FileOffer" /\ f = Head(channel[t]) /\ f \in Elems(channel'[t])
                => f = Head(channel'[t])
  BY Zenon, <1>1, AirIs
<1>3. \A x \in Elems(out) : x.type # "FileOffer" /\ Claims(x) = {}
  BY Zenon DEF Quiet, Claims
<1>4. Heard(D)'
  <2>1. ASSUME NEW t \in Stations, tx'[t] # None
        PROVE  tx'[t].id \in assembled \/ Believed(tx'[t]) \subseteq D[tx'[t].id]
    <3>1. /\ tx[t] # None /\ tx'[t].id = tx[t].id
          /\ \/ Believed(tx'[t]) = Believed(tx[t])
             \/ \E f \in Elems(channel[t]) :
                  f.id = tx[t].id /\ Believed(tx'[t]) \subseteq Believed(tx[t]) \cup Claims(f)
      BY Zenon, <2>1 DEF Quiet
    <3>2. tx[t].id \in assembled \/ Believed(tx[t]) \subseteq D[tx[t].id]
      BY Zenon, <3>1 DEF Cover, Heard
    <3>3. \A f \in Elems(channel[t]) : f.id \in assembled \/ Claims(f) \subseteq D[f.id]
      BY Zenon DEF Cover, Heard
    <3> QED BY Zenon, <3>1, <3>2, <3>3
  <2>2. ASSUME NEW t \in Stations, NEW f \in Elems(channel'[t])
        PROVE  f.id \in assembled \/ Claims(f) \subseteq D[f.id]
    BY Zenon, <1>2, <1>3, <2>2 DEF Cover, Heard
  <2>3. assembled' = assembled
    BY Zenon DEF Quiet
  <2> QED BY Zenon, <2>1, <2>2, <2>3 DEF Heard
<1>5. ASSUME NEW t \in Stations
      PROVE  Held(D, rx'[t], partial'[t], stale'[t], channel'[t], assembled')
  <2>1. Held(D, rx[t], partial[t], stale[t], channel[t], assembled)
    BY Zenon DEF Cover
  <2>2. /\ rx'[t] = None \/ (rx[t] # None /\ rx'[t].id = rx[t].id
                             /\ rx'[t].blocks = rx[t].blocks)
        /\ partial'[t] = partial[t] /\ stale'[t] = stale[t] /\ assembled' = assembled
    BY Zenon DEF Quiet
  <2>3. \A f \in Elems(channel'[t]) : f.type = "FileOffer" =>
           /\ f \in Elems(channel[t])
           /\ f = Head(channel[t]) => f = Head(channel'[t])
    BY Zenon, <1>2, <1>3
  <2> QED BY Zenon, <2>1, <2>2, <2>3, HeldThere
<1> QED BY Zenon, <1>4, <1>5 DEF Cover, Quiet

(* The offers that wait at s when it takes r further: r's own is at the    *)
(* head and the disk has its blocks, and nothing was said of any other.    *)
OffersWait(D, s, r, part) ==
  /\ \A f \in Elems(channel[s]) : f.type = "FileOffer" /\ f.id = r.id =>
       /\ f = Head(channel[s]) /\ <<f.sig, f.file>> \notin stale'[s]
       /\ Have(r.blocks) \subseteq Have(part[<<f.sig, f.file>>])
  /\ \A f \in Elems(channel[s]) : f.type = "FileOffer" /\ f.id # r.id =>
       f.id \in assembled \/ D[f.id] = {}

(* Settling a session: it had all it said, and no other offer waits that   *)
(* anything was said about.                                                *)
LEMMA CoverTakes ==
  ASSUME Shape, AllOrdered, NEW c, Story(c), NEW D, Cover(D), NEW s \in Stations,
         NEW r, NEW part, NEW lead, Takes(s, r, part, lead),
         c[r.id].to = s, r.id <= transfer_id,
         r.id \in assembled \/ D[r.id] \subseteq Have(r.blocks),
         \A t \in Stations : t # s => stale'[t] = stale[t], OffersWait(D, s, r, part)
  PROVE  \E E : Cover(E)'
<1>10. PICK out : Sends(s, r, lead, out)
  BY Zenon, TakesSends
<1>1. /\ out \in Seq(FxFrame) /\ AirStep(s, out)
      /\ \A x \in Elems(out) : \/ x = lead
                               \/ /\ Have(r.blocks) = Blocks /\ x.id = r.id
                                  /\ x.type = "FileComplete" /\ x.ok = VerifiedOk(r)
  BY Zenon, <1>10 DEF Sends
<1>2. /\ \A t \in Stations : Elems(channel'[t]) \subseteq Elems(channel[t]) \cup Elems(out)
      /\ \A t \in Stations : \A f \in Elems(channel[t]) :
              f.type = "FileOffer" /\ f = Head(channel[t]) /\ f \in Elems(channel'[t])
                => f = Head(channel'[t])
  BY Zenon, <1>1, AirIs
<1>3. /\ lead.type # "FileOffer" /\ lead.id = r.id /\ Claims(lead) \subseteq Have(r.blocks)
      /\ r \in RxSession /\ r.id \in Nat /\ Have(r.blocks) \in SUBSET Blocks /\ r # None
      /\ UNCHANGED <<tx, transfer_id>>
  BY Zenon, NoneAssumption DEF Takes, RxSession, Have
<1>4. \A x \in Elems(out) : x.type # "FileOffer" /\ x.id = r.id
                            /\ Claims(x) \subseteq Have(r.blocks)
  BY Zenon, <1>1, <1>3 DEF Claims
<1>5. \A t \in Stations : \A f \in Elems(channel'[t]) : f.type = "FileOffer" =>
        /\ f \in Elems(channel[t])
        /\ f = Head(channel[t]) => f = Head(channel'[t])
  BY Zenon, <1>2, <1>4
<1>6. ASSUME NEW t \in Stations, t # s, NEW E, \A i \in Nat : i # r.id => E[i] = D[i],
             assembled \subseteq assembled', rx'[t] = rx[t], partial'[t] = partial[t]
      PROVE  Held(E, rx'[t], partial'[t], stale'[t], channel'[t], assembled')
  <2>1. Held(D, rx[t], partial[t], stale[t], channel[t], assembled) /\ stale'[t] = stale[t]
    BY Zenon, <1>6 DEF Cover
  <2>2. rx[t] # None => rx[t].id \in Nat /\ rx[t].id # r.id
    BY Zenon, <1>6, Numbered DEF Story
  <2>3. \A f \in Elems(channel[t]) : f.type = "FileOffer" => f.id \in Nat /\ f.id # r.id
    <3>1. \A f \in Elems(channel[t]) : f.type = "FileOffer" => c[f.id].to = t
      BY Zenon DEF Story
    <3>2. \A f \in Elems(channel[t]) : f.id \in Nat
      BY Zenon, Numbered
    <3> QED BY Zenon, <1>6, <3>1, <3>2
  <2>4. rx'[t] = None \/ (rx[t] # None /\ rx'[t].id = rx[t].id /\ rx'[t].blocks = rx[t].blocks)
    BY Zenon, <1>6
  <2>5. rx'[t] # None => E[rx'[t].id] = D[rx'[t].id]
    BY Zenon, <1>6, <2>2
  <2>6. \A f \in Elems(channel'[t]) : f.type = "FileOffer" =>
           /\ f \in Elems(channel[t]) /\ E[f.id] = D[f.id]
           /\ f = Head(channel[t]) => f = Head(channel'[t])
    BY Zenon, <1>5, <1>6, <2>3
  <2>7. assembled \subseteq assembled' /\ partial'[t] = partial[t]
    BY Zenon, <1>6
  <2> QED BY Zenon, <2>1, <2>4, <2>5, <2>6, <2>7, HeldThere
<1>7. Stored(s, r, part) \/ Verified(s, r, part)
  BY Zenon DEF Takes
<1>8. CASE Stored(s, r, part)
  <2>1. PICK E : E = [D EXCEPT ![r.id] = Have(r.blocks)]
    BY Zenon
  <2>2. /\ E \in [Nat -> SUBSET Blocks] /\ E[r.id] = Have(r.blocks)
        /\ \A i \in Nat : i # r.id => E[i] = D[i]
        /\ \A i \in Nat : i \notin assembled => D[i] \subseteq E[i]
    BY Zenon, <1>3, <2>1 DEF Cover
  <2>3. /\ Have(r.blocks) # Blocks /\ assembled' = assembled
        /\ rx'[s] = r /\ partial'[s] = part
        /\ \A t \in Stations : t # s => rx'[t] = rx[t] /\ partial'[t] = partial[t]
    BY Zenon, <1>8 DEF Stored, Shape
  <2>4. Heard(E)'
    <3>1. ASSUME NEW t \in Stations, tx'[t] # None
          PROVE  tx'[t].id \in assembled \/ Believed(tx'[t]) \subseteq E[tx'[t].id]
      <4>1. tx[t] # None /\ tx'[t] = tx[t] /\ tx[t].id \in Nat
        BY Zenon, <1>3, <3>1 DEF Shape, TxSession
      <4> QED BY Zenon, <2>2, <4>1 DEF Cover, Heard
    <3>2. ASSUME NEW t \in Stations, NEW f \in Elems(channel'[t])
          PROVE  f.id \in assembled \/ Claims(f) \subseteq E[f.id]
      <4>1. CASE f \in Elems(out)
        <5>1. f.id = r.id /\ Claims(f) \subseteq Have(r.blocks)
          BY Zenon, <1>4, <4>1
        <5> QED BY <2>2, <5>1
      <4>2. CASE f \in Elems(channel[t])
        <5>2. f.id \in Nat
          BY Zenon, <4>2, Numbered
        <5> QED BY Zenon, <2>2, <4>2, <5>2 DEF Cover, Heard
      <4> QED BY ZenonT(30), <1>2, <3>2, <4>1, <4>2
    <3> QED BY Zenon, <2>3, <3>1, <3>2 DEF Heard
  <2>5. Held(E, rx'[s], partial'[s], stale'[s], channel'[s], assembled')
    <3>1. \A f \in Elems(channel'[s]) : f.type = "FileOffer" => f.id \in Nat
      BY Zenon, <1>5, Numbered
    <3>2. ASSUME NEW f \in Elems(channel'[s]), f.type = "FileOffer", f.id = r.id
          PROVE  /\ f = Head(channel'[s]) /\ <<f.sig, f.file>> \notin stale'[s]
                 /\ Have(r.blocks) \subseteq Have(part[<<f.sig, f.file>>])
      BY Zenon, <1>5, <3>2 DEF OffersWait
    <3>3. ASSUME NEW f \in Elems(channel'[s]), f.type = "FileOffer", f.id # r.id,
                 f.id \notin assembled
          PROVE  E[f.id] = {}
      BY Zenon, <1>5, <2>2, <3>1, <3>3 DEF OffersWait
    <3>5. ASSUME NEW f \in Elems(channel'[s]), f.type = "FileOffer", f.id \notin assembled,
                 E[f.id] # {}
          PROVE  /\ f = Head(channel'[s]) /\ <<f.sig, f.file>> \notin stale'[s]
                 /\ E[f.id] \subseteq Have(part[<<f.sig, f.file>>]) /\ r.id = f.id
      <4>1. r.id = f.id
        BY Zenon, <3>3, <3>5
      <4>2. E[f.id] = Have(r.blocks)
        BY Zenon, <2>2, <4>1
      <4> QED BY Zenon, <3>2, <3>5, <4>1, <4>2
    <3>6. E[r.id] \subseteq Have(r.blocks)
      BY Zenon, <2>2
    <3>4. Held(E, r, part, stale'[s], channel'[s], assembled)
      BY Zenon, <3>2, <3>5, <3>6 DEF Held
    <3> QED BY Zenon, <2>3, <3>4
  <2>6. Cover(E)'
    <3>1. \A t \in Stations :
            Held(E, rx'[t], partial'[t], stale'[t], channel'[t], assembled')
      BY Zenon, <1>6, <2>2, <2>3, <2>5
    <3>2. \A i \in Nat : i \notin assembled' => E[i] # Blocks
      BY Zenon, <2>2, <2>3 DEF Cover
    <3>3. \A i \in Nat : i > transfer_id' => E[i] = {}
      <4>1. transfer_id \in Nat /\ transfer_id' = transfer_id
            /\ \A i \in Nat : i > transfer_id => D[i] = {}
        BY Zenon, <1>3 DEF Cover, Shape
      <4>2. \A i \in Nat : i > transfer_id => i # r.id
        BY SMTT(30), <1>3, <4>1
      <4> QED BY Zenon, <2>2, <4>1, <4>2
    <3> QED BY Zenon, <2>2, <2>4, <3>1, <3>2, <3>3 DEF Cover
  <2> QED BY Zenon, <2>6
<1>9. CASE Verified(s, r, part)
  <2>1. /\ assembled' = assembled \cup {r.id} /\ rx'[s] = None
        /\ \A t \in Stations : t # s => rx'[t] = rx[t] /\ partial'[t] = partial[t]
    BY <1>9 DEF Verified, Shape
  <2>2. Heard(D)'
    <3>1. ASSUME NEW t \in Stations, tx'[t] # None
          PROVE  tx'[t].id \in assembled' \/ Believed(tx'[t]) \subseteq D[tx'[t].id]
      BY Zenon, <1>3, <2>1, <3>1 DEF Cover, Heard
    <3>2. ASSUME NEW t \in Stations, NEW f \in Elems(channel'[t])
          PROVE  f.id \in assembled' \/ Claims(f) \subseteq D[f.id]
      BY Zenon, <1>2, <1>4, <2>1, <3>2 DEF Cover, Heard
    <3> QED BY Zenon, <3>1, <3>2 DEF Heard
  <2>3. Held(D, rx'[s], partial'[s], stale'[s], channel'[s], assembled')
    BY Zenon, <1>5, <2>1 DEF Held, OffersWait
  <2>4. \A t \in Stations :
          Held(D, rx'[t], partial'[t], stale'[t], channel'[t], assembled')
    BY Zenon, <1>6, <2>1, <2>3
  <2>5. Cover(D)'
    BY Zenon, <1>3, <2>1, <2>2, <2>4 DEF Cover
  <2> QED BY Zenon, <2>5
<1> QED BY Zenon, <1>7, <1>8, <1>9

(* The disk an offer finds: what its receiver said it has is still there.  *)
LEMMA PurgedKeeps ==
  ASSUME Shape, AllOrdered, NEW D, Cover(D), NEW s \in Stations, NextIs(s, {"FileOffer"})
  PROVE  LET f == Head(channel[s])
             dir == <<f.sig, f.file>>
         IN  /\ f.id \in assembled \/ D[f.id] \subseteq Have(Purged(s, f.sig)[dir])
             /\ dir \notin {d \in stale[s] : d[1] # f.sig}
             /\ \A g \in Elems(channel[s]) : g.type = "FileOffer" /\ g.id = f.id => g = f
             /\ \A g \in Elems(channel[s]) : g.type = "FileOffer" /\ g.id # f.id =>
                  g.id \in assembled \/ D[g.id] = {}
<1> DEFINE f == Head(channel[s])
           dir == <<f.sig, f.file>>
<1>1. /\ f \in Elems(channel[s]) /\ f.type = "FileOffer" /\ dir \in Dirs
      /\ channel[s] \in Seq(FxFrame) /\ channel[s] # <<>> /\ Ordered(channel[s])
  BY Zenon, HeadIs, OfferTyped DEF Shape, AllOrdered
<1>2. Held(D, rx[s], partial[s], stale[s], channel[s], assembled)
  BY Zenon DEF Cover
<1>3. \A g \in Elems(channel[s]) : g.type = "FileOffer" /\ g.id = f.id => g = f
  BY SMTT(30), <1>1, HeadFirst DEF Opening
<1>4. \A g \in Elems(channel[s]) : g.type = "FileOffer" /\ g.id # f.id =>
        g.id \in assembled \/ D[g.id] = {}
  BY Zenon, <1>2 DEF Held
<1>5. dir[1] = f.sig
  BY SMTT(30)
<1> HIDE DEF f
<1>6. dir \notin stale[s] => Purged(s, f.sig)[dir] = partial[s][dir]
  BY SMTT(30), <1>1 DEF Purged
<1>7. f.id \in assembled \/ D[f.id] \subseteq Have(Purged(s, f.sig)[dir])
  <2>1. CASE D[f.id] = {}
    BY SMTT(30), <2>1
  <2>2. CASE D[f.id] # {} /\ f.id \notin assembled
    <3>1. dir \notin stale[s] /\ D[f.id] \subseteq Have(partial[s][dir])
      BY Zenon, <1>1, <1>2, <2>2 DEF Held
    <3> QED BY SMTT(30), <1>6, <3>1
  <2> QED BY Zenon, <2>1, <2>2
<1> QED BY Zenon, <1>3, <1>4, <1>5, <1>7 DEF f

(* An offer.                                                               *)
LEMMA CoverOffer ==
  ASSUME Shape, AllOrdered, NEW c, Story(c), NEW D, Cover(D), NEW s \in Stations,
         NEW decision \in Decisions, OnOffer(s, decision)
  PROVE  \E E : Cover(E)'
<1> DEFINE f == Head(channel[s])
           dir == <<f.sig, f.file>>
           part == Purged(s, f.sig)
           q == OfferedRx(s, f)
<1>1. /\ f \in Elems(channel[s]) /\ f.type = "FileOffer" /\ f.id \in Nat /\ dir \in Dirs
      /\ rx[s] = None /\ q \in RxSession /\ part \in Disk
  BY SMTT(30), HeadIs, OfferTyped DEF OnOffer
<1>2. /\ f.id \in assembled \/ D[f.id] \subseteq Have(part[dir])
      /\ dir \notin {d \in stale[s] : d[1] # f.sig}
      /\ \A g \in Elems(channel[s]) : g.type = "FileOffer" /\ g.id = f.id => g = f
      /\ \A g \in Elems(channel[s]) : g.type = "FileOffer" /\ g.id # f.id =>
           g.id \in assembled \/ D[g.id] = {}
  BY Zenon, PurgedKeeps DEF OnOffer
<1>3. /\ stale'[s] = {d \in stale[s] : d[1] # f.sig}
      /\ \A t \in Stations : t # s => stale'[t] = stale[t]
      /\ UNCHANGED <<tx, transfer_id>>
  BY DEF OnOffer, Shape
<1>4. c[f.id].to = s /\ f.id <= transfer_id
  BY Zenon, <1>1 DEF Story, Opening
<1>5. /\ decision = "Reject" =>
           Store(s, None, part) /\ AirStep(s, FileReject(f.id))
      /\ decision = "Prompt" =>
           Store(s, q, part) /\ AirStep(s, <<>>)
  BY Zenon, OnOfferIs
<1>6. FileReject(f.id) \in Seq(FxFrame) /\ <<>> \in Seq(FxFrame)
  BY Zenon, <1>1, OutTyped
<1>7. /\ \A x \in Elems(FileReject(f.id)) : x.type # "FileOffer" /\ Claims(x) = {}
      /\ \A x \in Elems(<<>>) : x.type # "FileOffer" /\ Claims(x) = {}
  BY SMTT(30) DEF FileReject, Elems, Claims
<1>8. q.id = f.id /\ q.blocks = part[dir]
  BY Zenon DEF OfferedRx
<1> HIDE DEF f, part, q
<1>9. ASSUME NEW r \in {q, None}, Store(s, r, part),
             NEW out \in Seq(FxFrame), AirStep(s, out),
             \A x \in Elems(out) : x.type # "FileOffer" /\ Claims(x) = {}
      PROVE  Cover(D)'
  <2>1. /\ \A t \in Stations : Elems(channel'[t]) \subseteq Elems(channel[t]) \cup Elems(out)
        /\ \A t \in Stations : \A g \in Elems(channel[t]) :
              g.type = "FileOffer" /\ g = Head(channel[t]) /\ g \in Elems(channel'[t])
                => g = Head(channel'[t])
    BY Zenon, <1>9, AirIs
  <2>2. /\ rx'[s] = r /\ partial'[s] = part /\ assembled' = assembled
        /\ \A t \in Stations : t # s => rx'[t] = rx[t] /\ partial'[t] = partial[t]
    BY SMTT(30), <1>9 DEF Store, Shape
  <2>3. \A t \in Stations : \A g \in Elems(channel'[t]) : g.type = "FileOffer" =>
          g \in Elems(channel[t]) /\ (g = Head(channel[t]) => g = Head(channel'[t]))
    BY Zenon, <1>9, <2>1
  <2>4. Heard(D)'
    <3>1. \A t \in Stations : \A g \in Elems(channel'[t]) :
            g.id \in assembled \/ Claims(g) \subseteq D[g.id]
      BY Zenon, <1>9, <2>1 DEF Cover, Heard
    <3>2. \A t \in Stations : tx'[t] # None =>
            tx'[t].id \in assembled \/ Believed(tx'[t]) \subseteq D[tx'[t].id]
      BY Zenon, <1>3 DEF Cover, Heard
    <3> QED BY Zenon, <2>2, <3>1, <3>2 DEF Heard
  <2>5. Held(D, rx'[s], partial'[s], stale'[s], channel'[s], assembled')
    <3>1. r # None => r.id = f.id /\ r.blocks = part[dir]
      BY Zenon, <1>8, <1>9
    <3>2. ASSUME NEW g \in Elems(channel'[s]), g.type = "FileOffer", g.id = f.id
          PROVE  /\ g = Head(channel'[s]) /\ <<g.sig, g.file>> \notin stale'[s]
                 /\ <<g.sig, g.file>> = dir
      BY Zenon, <1>2, <1>3, <2>3, <3>2 DEF f
    <3>3. ASSUME NEW g \in Elems(channel'[s]), g.type = "FileOffer", g.id # f.id
          PROVE  g.id \in assembled \/ D[g.id] = {}
      BY Zenon, <1>2, <2>3, <3>3
    <3> HIDE DEF dir
    <3> QED BY Zenon, <1>2, <2>2, <3>1, <3>2, <3>3 DEF Held
  <2>6. ASSUME NEW t \in Stations, t # s
        PROVE  Held(D, rx'[t], partial'[t], stale'[t], channel'[t], assembled')
    <3>1. Held(D, rx[t], partial[t], stale[t], channel[t], assembled)
          /\ rx'[t] = rx[t] /\ partial'[t] = partial[t] /\ stale'[t] = stale[t]
      BY Zenon, <1>3, <2>2, <2>6 DEF Cover
    <3> QED BY Zenon, <2>2, <2>3, <3>1, HeldThere
  <2> QED BY Zenon, <1>3, <2>2, <2>4, <2>5, <2>6 DEF Cover
<1>10. CASE decision \in {"Reject", "Prompt"}
  BY Zenon, <1>5, <1>6, <1>7, <1>9, <1>10
<1>11. CASE decision = "AutoAccept"
  <2>1. PICK r, lead : /\ Takes(s, r, part, lead)
                       /\ r.id = f.id /\ r.file = f.file /\ r.sig = f.sig
                       /\ r.blocks = Purged(s, r.sig)[<<r.sig, r.file>>]
    BY Zenon, <1>11, OfferTakes DEF f, part
  <2>2. r.blocks = part[dir]
    BY Zenon, <2>1 DEF part
  <2>3. \A g \in Elems(channel[s]) : g.type = "FileOffer" /\ g.id = r.id =>
           /\ g = Head(channel[s]) /\ <<g.sig, g.file>> \notin stale'[s]
           /\ Have(r.blocks) \subseteq Have(part[<<g.sig, g.file>>])
    BY Zenon, <1>2, <1>3, <2>1, <2>2 DEF f
  <2>4. \A g \in Elems(channel[s]) : g.type = "FileOffer" /\ g.id # r.id =>
           g.id \in assembled \/ D[g.id] = {}
    BY Zenon, <1>2, <2>1
  <2>5. r.id \in assembled \/ D[r.id] \subseteq Have(r.blocks)
    BY Zenon, <1>2, <2>1, <2>2
  <2>6. c[r.id].to = s /\ r.id <= transfer_id
    BY Zenon, <1>4, <2>1
  <2>7. OffersWait(D, s, r, part)
    BY Zenon, <2>3, <2>4 DEF OffersWait
  <2> QED BY Zenon, <1>3, <2>1, <2>5, <2>6, <2>7, CoverTakes
<1> QED BY Zenon, <1>10, <1>11, FileAssumption

(* The operator's acceptance.                                              *)
LEMMA CoverAccept ==
  ASSUME Shape, AllOrdered, NEW c, Story(c), NEW D, Cover(D), NEW s \in Stations,
         AcceptOffer(s)
  PROVE  \E E : Cover(E)'
<1>1. rx[s] # None /\ UNCHANGED stale
  BY Zenon, AcceptTakes
<1>2. PICK r, lead : /\ Takes(s, r, partial[s], lead)
                     /\ r.id = rx[s].id /\ r.blocks = rx[s].blocks
  BY Zenon, AcceptTakes
<1>3. Held(D, rx[s], partial[s], stale[s], channel[s], assembled)
  BY Zenon DEF Cover
<1>4. c[r.id].to = s /\ r.id <= transfer_id
  BY Zenon, <1>1, <1>2 DEF Story
<1>5. r.id \in assembled \/ D[r.id] \subseteq Have(r.blocks)
  BY Zenon, <1>1, <1>2, <1>3 DEF Held
<1>6. \A f \in Elems(channel[s]) : f.type = "FileOffer" /\ f.id = r.id =>
        /\ f = Head(channel[s]) /\ <<f.sig, f.file>> \notin stale'[s]
        /\ Have(r.blocks) \subseteq Have(partial[s][<<f.sig, f.file>>])
  BY Zenon, <1>1, <1>2, <1>3 DEF Held
<1>7. \A f \in Elems(channel[s]) : f.type = "FileOffer" /\ f.id # r.id =>
        f.id \in assembled \/ D[f.id] = {}
  BY Zenon, <1>1, <1>2, <1>3 DEF Held
<1>8. \A t \in Stations : t # s => stale'[t] = stale[t]
  BY Zenon, <1>1
<1>9. OffersWait(D, s, r, partial[s])
  BY Zenon, <1>6, <1>7 DEF OffersWait
<1> QED BY Zenon, <1>2, <1>4, <1>5, <1>8, <1>9, CoverTakes

(* A block: its transfer's offer is gone, and no other is at the head.     *)
LEMMA CoverBlock ==
  ASSUME Shape, AllOrdered, NEW c, Story(c), NEW D, Cover(D), NEW s \in Stations,
         NEW p \in Persists, OnBlock(s, p)
  PROVE  \E E : Cover(E)'
<1> DEFINE f == Head(channel[s])
           d == <<rx[s].sig, rx[s].file>>
<1>1. /\ f \in Elems(channel[s]) /\ f.type = "FileData" /\ f.block \in Blocks
      /\ f.file \in Files /\ f.id = rx[s].id /\ rx[s] # None
  BY Zenon, BlockTakes
<1>2. PICK r, part, lead :
           /\ Takes(s, r, part, lead)
           /\ r.id = rx[s].id
           /\ r.blocks = [rx[s].blocks EXCEPT ![f.block] = f.file]
  BY Zenon, BlockTakes
<1>3. Held(D, rx[s], partial[s], stale[s], channel[s], assembled)
  BY Zenon DEF Cover
<1>4. c[r.id].to = s /\ r.id <= transfer_id
  BY Zenon, <1>1, <1>2 DEF Story
<1>5. \A t \in Stations : t # s => stale'[t] = stale[t]
  BY ZenonT(30) DEF OnBlock, Shape
<1>6. channel[s] \in Seq(FxFrame) /\ channel[s] # <<>> /\ Ordered(channel[s])
  BY SMTT(30), HeadIs DEF OnBlock, Shape, AllOrdered
<1>7. \A g \in Elems(channel[s]) : g.type = "FileOffer" => g.id # r.id /\ g # f
  BY Zenon, <1>1, <1>2, <1>6, HeadFirst DEF Opening
<1>8. \A g \in Elems(channel[s]) : g.type = "FileOffer" =>
        g.id \in assembled \/ D[g.id] = {}
  BY Zenon, <1>3, <1>7 DEF Held
<1> HIDE DEF f
<1>9. Have(rx[s].blocks) \subseteq Have(r.blocks)
  <2>1. rx[s].blocks \in [Blocks -> Files \cup {None}] /\ f.file # None
    BY Zenon, <1>1, NoneAssumption DEF Shape, RxSession
  <2> QED BY Zenon, <1>1, <1>2, <2>1 DEF Have
<1>10. r.id \in assembled \/ D[r.id] \subseteq Have(r.blocks)
  BY Zenon, <1>1, <1>2, <1>3, <1>9 DEF Held
<1>11. OffersWait(D, s, r, part)
  BY Zenon, <1>7, <1>8 DEF OffersWait
<1> QED BY Zenon, <1>2, <1>4, <1>5, <1>10, <1>11, CoverTakes

(* A new offer, of which nothing was said.                                 *)
LEMMA CoverSend ==
  ASSUME Shape, AllOrdered, NEW c, Story(c), NEW D, Cover(D), NEW s \in Stations,
         NEW f \in Files, NEW sig \in Signed, SendFile(s, f, sig)
  PROVE  Cover(D)'
<1>1. PICK t, x : Offers(s, f, sig, t, x)
  BY SMTT(30), SendFileIs
<1>2. /\ x \in FxFrame /\ AirStep(s, <<x>>) /\ x.type = "FileOffer"
      /\ x.id = transfer_id + 1 /\ t.id = transfer_id + 1 /\ Believed(t) = {}
      /\ tx' = [tx EXCEPT ![s] = t] /\ transfer_id' = transfer_id + 1
      /\ UNCHANGED <<rx, partial, stale, assembled>>
  BY Zenon, <1>1 DEF Offers
<1>3. <<x>> \in Seq(FxFrame) /\ Elems(<<x>>) = {x}
  BY SMTT(30), <1>2, ElemsFew
<1>4. /\ \A q \in Stations : Elems(channel'[q]) \subseteq Elems(channel[q]) \cup {x}
      /\ \A q \in Stations : \A g \in Elems(channel[q]) :
              g.type = "FileOffer" /\ g = Head(channel[q]) /\ g \in Elems(channel'[q])
                => g = Head(channel'[q])
  BY Zenon, <1>2, <1>3, AirIs
<1>5. transfer_id \in Nat /\ D[x.id] = {} /\ Claims(x) = {}
  <2>1. transfer_id \in Nat
    BY DEF Shape
  <2>2. transfer_id + 1 \in Nat /\ transfer_id + 1 > transfer_id
    BY SMTT(30), <2>1
  <2> QED BY Zenon, <1>2, <2>1, <2>2 DEF Cover, Claims
<1>6. Heard(D)'
  <2>1. ASSUME NEW q \in Stations, tx'[q] # None
        PROVE  tx'[q].id \in assembled \/ Believed(tx'[q]) \subseteq D[tx'[q].id]
    <3>1. CASE q = s
      BY Zenon, <1>2, <3>1 DEF Shape
    <3>2. CASE q # s
      BY SMTT(30), <1>2, <2>1, <3>2 DEF Shape, Cover, Heard
    <3> QED BY Zenon, <3>1, <3>2
  <2>2. ASSUME NEW q \in Stations, NEW g \in Elems(channel'[q])
        PROVE  g.id \in assembled \/ Claims(g) \subseteq D[g.id]
    BY Zenon, <1>4, <1>5, <2>2 DEF Cover, Heard
  <2> QED BY Zenon, <1>2, <2>1, <2>2 DEF Heard
<1>7. ASSUME NEW q \in Stations
      PROVE  Held(D, rx'[q], partial'[q], stale'[q], channel'[q], assembled')
  <2>1. Held(D, rx[q], partial[q], stale[q], channel[q], assembled)
    BY Zenon DEF Cover
  <2>2. rx[q] # None => rx[q].id # x.id
    <3> HAVE rx[q] # None
    <3>1. rx[q].id \in Nat /\ rx[q].id <= transfer_id
      BY Zenon, Numbered DEF Story
    <3> QED BY SMTT(30), <1>2, <1>5, <3>1
  <2>3. UNCHANGED <<rx, partial, stale, assembled>>
    BY <1>2
  <2> QED BY Zenon, <1>4, <1>5, <2>1, <2>2, <2>3 DEF Held
<1>8. \A i \in Nat : i > transfer_id' => D[i] = {}
  <2>1. ASSUME NEW i \in Nat, i > transfer_id' PROVE i > transfer_id
    BY SMTT(30), <1>2, <1>5, <2>1
  <2> QED BY Zenon, <2>1 DEF Cover
<1> QED BY Zenon, <1>2, <1>6, <1>7, <1>8 DEF Cover

(* Every step.                                                             *)
LEMMA CoverStep ==
  ASSUME Shape, Told, \E D : Cover(D), [FxNext]_fxVars
  PROVE  (\E D : Cover(D))'
<1>1. PICK c : Story(c)
  BY DEF Told
<1>2. PICK D : Cover(D)
  OBVIOUS
<1>3. AllOrdered
  BY DEF Told
<1>4. ASSUME NEW s \in Stations, NEW f \in Files, NEW sig \in Signed, SendFile(s, f, sig)
      PROVE  \E E : Cover(E)'
  BY Zenon, <1>1, <1>2, <1>3, <1>4, CoverSend
<1>5. ASSUME (\E s \in Stations : OnTxFrame(s) \/ Ending(s)) \/ Tick
      PROVE  \E E : Cover(E)'
  BY Zenon, <1>2, <1>3, <1>5, QuietStep, CoverQuiet
<1>6. ASSUME NEW s \in Stations, NEW decision \in Decisions, OnOffer(s, decision)
      PROVE  \E E : Cover(E)'
  BY SMTT(30), <1>1, <1>2, <1>3, <1>6, CoverOffer
<1>7. ASSUME NEW s \in Stations, AcceptOffer(s) PROVE \E E : Cover(E)'
  BY SMTT(30), <1>1, <1>2, <1>3, <1>7, CoverAccept
<1>8. ASSUME NEW s \in Stations, NEW p \in Persists, OnBlock(s, p) PROVE \E E : Cover(E)'
  BY SMTT(30), <1>1, <1>2, <1>3, <1>8, CoverBlock
<1>9. CASE AgePartials
  <2>1. /\ \A s \in Stations : tx[s] = None /\ rx[s] = None /\ channel[s] = <<>>
        /\ UNCHANGED <<tx, rx, channel, transfer_id, assembled>>
    BY SMTT(30), <1>9 DEF AgePartials, outcomes
  <2>2. \A s \in Stations : Elems(channel[s]) = {}
    BY Zenon, <2>1, ElemsFew
  <2>3. Heard(D)'
    BY Zenon, <2>1, <2>2 DEF Heard
  <2>4. \A s \in Stations :
          Held(D, rx'[s], partial'[s], stale'[s], channel'[s], assembled')
    BY SMTT(30), <2>1, <2>2 DEF Held
  <2>5. Cover(D)'
    BY Zenon, <1>2, <2>1, <2>3, <2>4 DEF Cover
  <2> QED BY SMTT(30), <2>5
<1>10. CASE UNCHANGED fxVars
  <2>1. Cover(D)'
    BY Zenon, <1>2, <1>10 DEF fxVars, Cover, Heard
  <2> QED BY SMTT(30), <2>1
<1> QED BY Zenon, <1>4, <1>5, <1>6, <1>7, <1>8, <1>9, <1>10 DEF FxNext, Ending

(* Nothing was said before the first offer.                                *)
LEMMA CoverInit == FxInit => \E D : Cover(D)
<1> SUFFICES ASSUME FxInit PROVE \E D : Cover(D)
  OBVIOUS
<1> DEFINE D == [n \in Nat |-> {}]
<1>1. D \in [Nat -> SUBSET Blocks] /\ \A n \in Nat : D[n] = {}
  BY SMTT(30)
<1>2. \A s \in Stations : Elems(channel[s]) = {} /\ rx[s] = None /\ tx[s] = None
  BY Zenon, ElemsFew DEF FxInit
<1>3. {} # Blocks
  BY FileAssumption DEF Blocks
<1> HIDE DEF D
<1>4. Heard(D) /\ \A s \in Stations :
        Held(D, rx[s], partial[s], stale[s], channel[s], assembled)
  BY Zenon, <1>2 DEF Heard, Held
<1>5. Cover(D)
  BY Zenon, <1>1, <1>3, <1>4 DEF Cover
<1> QED BY <1>5

-----------------------------------------------------------------------------
(* What a receipt is worth.                                                *)

Vouching ==
  /\ receipts \subseteq vouched
  /\ \A s \in Stations : \A f \in Elems(channel[s]) :
       f.type = "FileComplete" /\ f.ok => f.id \in vouched

(* A FileComplete is sent by the step that verified the file.              *)
LEMMA TakesVouches ==
  ASSUME Shape, AllOrdered, Vouching, NEW s \in Stations, NEW r, NEW part, NEW lead,
         Takes(s, r, part, lead)
  PROVE  Vouching'
<1>6. PICK out : Sends(s, r, lead, out)
  BY Zenon, TakesSends
<1>1. /\ out \in Seq(FxFrame) /\ AirStep(s, out)
      /\ \A x \in Elems(out) : \/ x = lead
                               \/ /\ Have(r.blocks) = Blocks /\ x.id = r.id
                                  /\ x.type = "FileComplete" /\ x.ok = VerifiedOk(r)
  BY Zenon, <1>6 DEF Sends
<1>2. \A t \in Stations : Elems(channel'[t]) \subseteq Elems(channel[t]) \cup Elems(out)
  BY Zenon, <1>1, AirIs
<1>3. lead.type # "FileComplete" /\ UNCHANGED receipts
  BY Zenon DEF Takes
<1>4. /\ vouched \subseteq vouched'
      /\ Have(r.blocks) = Blocks /\ VerifiedOk(r) => r.id \in vouched'
  BY SMTT(30) DEF Takes, Stored, Verified
<1>5. \A x \in Elems(out) : x.type = "FileComplete" /\ x.ok => x.id \in vouched'
  BY Zenon, <1>1, <1>3, <1>4
<1> QED BY Zenon, <1>2, <1>3, <1>4, <1>5 DEF Vouching

(* Every step.                                                             *)
LEMMA VouchingStep ==
  ASSUME Shape, Told, Vouching, [FxNext]_fxVars
  PROVE  Vouching'
<1>1. AllOrdered
  BY SMTT(30) DEF Told
<1>2. ASSUME NEW s \in Stations, NEW out \in Seq(FxFrame), AirStep(s, out),
             \A x \in Elems(out) : x.type # "FileComplete",
             vouched' = vouched, receipts' \subseteq vouched
      PROVE  Vouching'
  BY Zenon, <1>1, <1>2, AirIs DEF Vouching
<1>3. ASSUME NEW s \in Stations, NEW f \in Files, NEW sig \in Signed, SendFile(s, f, sig)
      PROVE  Vouching'
  <2>1. PICK t, x : Offers(s, f, sig, t, x)
    BY <1>3, SendFileIs
  <2>2. <<x>> \in Seq(FxFrame) /\ Elems(<<x>>) = {x} /\ x.type # "FileComplete"
    BY Zenon, <2>1, ElemsFew DEF Offers
  <2>3. AirStep(s, <<x>>) /\ vouched' = vouched /\ receipts' \subseteq vouched
    BY Zenon, <2>1 DEF Offers, Vouching
  <2> QED BY Zenon, <1>2, <2>2, <2>3
<1>4. ASSUME (\E s \in Stations : OnTxFrame(s) \/ Ending(s)) \/ Tick
      PROVE  Vouching'
  <2>1. PICK s \in Stations : \E out : Quiet(s, out)
    BY SMTT(30), <1>4, QuietStep
  <2>2. PICK out : Quiet(s, out)
    BY SMTT(30), <2>1
  <2>3. /\ out \in Seq(FxFrame) /\ AirStep(s, out) /\ vouched' = vouched
        /\ \A x \in Elems(out) : x.type # "FileComplete"
        /\ receipts' \subseteq vouched
    BY Zenon, <2>2 DEF Quiet, Vouching
  <2> QED BY SMTT(30), <1>2, <2>3
<1>5. ASSUME NEW s \in Stations, NEW decision \in Decisions, OnOffer(s, decision)
      PROVE  Vouching'
  <2> DEFINE f == Head(channel[s])
  <2>1. f.id \in Nat /\ UNCHANGED receipts
    BY Zenon, <1>5, OfferTyped DEF OnOffer
  <2>2. /\ decision = "Reject" =>
             AirStep(s, FileReject(f.id)) /\ vouched' = vouched
        /\ decision = "Prompt" => AirStep(s, <<>>) /\ vouched' = vouched
    BY Zenon, <1>5, OnOfferIs DEF Store
  <2>3. /\ FileReject(f.id) \in Seq(FxFrame) /\ <<>> \in Seq(FxFrame)
        /\ \A x \in Elems(FileReject(f.id)) : x.type # "FileComplete"
        /\ \A x \in Elems(<<>>) : x.type # "FileComplete"
    BY SMTT(30), <2>1, OutTyped DEF FileReject, Elems
  <2>4. CASE decision \in {"Reject", "Prompt"}
    BY Zenon, <1>2, <2>1, <2>2, <2>3, <2>4 DEF Vouching
  <2>5. CASE decision = "AutoAccept"
    BY Zenon, <1>1, <1>5, <2>5, OfferTakes, TakesVouches
  <2> QED BY SMTT(30), <2>4, <2>5, FileAssumption
<1>6. ASSUME NEW s \in Stations, AcceptOffer(s) PROVE Vouching'
  BY Zenon, <1>1, <1>6, AcceptTakes, TakesVouches
<1>7. ASSUME NEW s \in Stations, NEW p \in Persists, OnBlock(s, p) PROVE Vouching'
  BY Zenon, <1>1, <1>7, BlockTakes, TakesVouches
<1>8. CASE AgePartials
  BY Zenon, <1>8 DEF AgePartials, outcomes, Vouching
<1>9. CASE UNCHANGED fxVars
  BY SMTT(30), <1>9 DEF fxVars, Vouching
<1> QED BY Zenon, <1>3, <1>4, <1>5, <1>6, <1>7, <1>8, <1>9 DEF FxNext, Ending

(* No receipt before the first transfer.                                   *)
LEMMA VouchingInit == FxInit => Vouching
BY SMTT(30), ElemsFew DEF FxInit, Vouching

(* A sender that awaits verification believes that every block arrived.    *)
LEMMA CoverEarns ==
  ASSUME Shape, Vouching, \E D : Cover(D)
  PROVE  ReceiptIsEarned
<1>1. PICK D : Cover(D)
  BY SMTT(30)
<1>2. ASSUME NEW s \in Stations, tx[s] # None, tx[s].st = "AwaitVerify"
      PROVE  tx[s].id \in assembled
  <2>1. Believed(tx[s]) = Blocks /\ tx[s].id \in Nat
    BY Zenon, <1>2 DEF Believed, Shape, TxSession
  <2>2. tx[s].id \in assembled \/ Believed(tx[s]) \subseteq D[tx[s].id]
    BY Zenon, <1>1, <1>2 DEF Cover, Heard
  <2>3. D[tx[s].id] \subseteq Blocks /\ (tx[s].id \in assembled \/ D[tx[s].id] # Blocks)
    BY Zenon, <1>1, <2>1 DEF Cover
  <2> QED BY Zenon, <2>1, <2>2, <2>3
<1> QED BY Zenon, <1>2 DEF ReceiptIsEarned, Vouching

(* What the sender believes is true: SenderSession reaches AwaitVerify     *)
(* only for a transfer whose receiver reassembled every block, and         *)
(* receipt_valid is reported only for one whose receiver found hash and    *)
(* signature good, whatever was lost, repeated, cancelled, resumed from    *)
(* disk or restarted on the way, for any number of blocks, files,          *)
(* transfers and faults.                                                   *)
THEOREM ReceiptsAreEarned == FxSpec => []ReceiptIsEarned
BY ShapeInit, ShapeStep, ToldInit, ToldStep, CoverInit, CoverStep, VouchingInit,
   VouchingStep, CoverEarns, PTL DEF FxSpec
=============================================================================
