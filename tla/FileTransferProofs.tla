------------------------- MODULE FileTransferProofs -------------------------
(***************************************************************************)
(* Proofs about FileTransfer: what every handler leaves of sessions, disk  *)
(* and air, and blocks that survive on disk, for any number of files,      *)
(* blocks, retries, losses, repeats and restarts.                          *)
(***************************************************************************)
EXTENDS FileTransfer, TLAPS

(* Two stations: each one's peer is the other.                             *)
LEMMA PeerIs ==
  ASSUME NEW s \in Stations
  PROVE  Peer(s) \in Stations /\ Peer(s) # s /\ \A t \in Stations : t # s => t = Peer(s)
<1>1. PICK x \in Stations : x # s /\ Stations = {s, x}
  BY PairAssumption
<1>2. Peer(s) \in Stations /\ Peer(s) # s
  BY <1>1 DEF Peer
<1> QED BY <1>1, <1>2

(* What a frame carries, by its type.                                      *)
LEMMA FrameIs ==
  ASSUME NEW f \in FxFrame
  PROVE  /\ f.id \in Nat
         /\ f.type \in {"FileOffer", "FileData", "FileAccept", "BlockAck", "FileComplete",
                        "FileReject", "FileCancel"}
         /\ f.type = "FileOffer" => f.file \in Files /\ f.sig \in Signed
         /\ f.type = "FileData" => f.block \in Blocks /\ f.file \in Files
         /\ f.type = "FileAccept" => f.have \in SUBSET Blocks
         /\ f.type = "BlockAck" => f.block \in Blocks /\ f.complete \in BOOLEAN
         /\ f.type = "FileComplete" => f.ok \in BOOLEAN
BY DEF FxFrame

-----------------------------------------------------------------------------
(* The channel as sets of frames.                                          *)

Elems(q) == {q[i] : i \in 1 .. Len(q)}

(* Taking a frame off a queue.                                             *)
LEMMA ElemsTail ==
  ASSUME NEW S, NEW q \in Seq(S), q # <<>>
  PROVE  /\ Tail(q) \in Seq(S) /\ Elems(Tail(q)) \subseteq Elems(q)
         /\ Head(q) \in Elems(q) /\ Elems(q) \subseteq S /\ Head(q) \in S
BY DEF Elems

(* Appending frames to a queue.                                            *)
LEMMA ElemsCat ==
  ASSUME NEW S, NEW p \in Seq(S), NEW q \in Seq(S)
  PROVE  /\ p \o q \in Seq(S) /\ Elems(p \o q) = Elems(p) \cup Elems(q)
<1>1. p \o q \in Seq(S) /\ Len(p \o q) = Len(p) + Len(q)
  OBVIOUS
<1>2. ASSUME NEW x \in Elems(p \o q) PROVE x \in Elems(p) \cup Elems(q)
  BY <1>1, <1>2 DEF Elems
<1>3. ASSUME NEW x \in Elems(p) PROVE x \in Elems(p \o q)
  BY <1>1, <1>3 DEF Elems
<1>4. ASSUME NEW x \in Elems(q) PROVE x \in Elems(p \o q)
  <2>1. PICK i \in 1 .. Len(q) : x = q[i]
    BY <1>4 DEF Elems
  <2>2. (p \o q)[Len(p) + i] = q[i] /\ Len(p) + i \in 1 .. Len(p \o q)
    BY <1>1
  <2> QED BY <2>1, <2>2 DEF Elems
<1> QED BY <1>1, <1>2, <1>3, <1>4

(* Queues of no, one and two frames.                                       *)
LEMMA ElemsFew ==
  ASSUME NEW S
  PROVE  /\ <<>> \in Seq(S) /\ Elems(<<>>) = {}
         /\ \A x \in S : <<x>> \in Seq(S) /\ Elems(<<x>>) = {x}
BY DEF Elems

-----------------------------------------------------------------------------
(* The send session.                                                       *)

(* The blocks a sender takes its receiver to have.                         *)
Believed(t) ==
  IF t.st = "AwaitVerify" THEN Blocks
  ELSE t.held \cup (IF t.st = "Sending" THEN {k \in Blocks : k < t.block} ELSE {})

DataOf(t) == [type : {"FileData"}, id : {t.id}, block : Blocks, file : {t.file}]

(* The next block to send: those skipped are held.                         *)
LEMMA NextUnheldIs ==
  ASSUME NEW t \in TxSession, NEW from \in 0 .. BlockCount, NEW k \in next_unheld(t, from)
  PROVE  /\ k \in from .. BlockCount
         /\ \A j \in Blocks : from <= j /\ j < k => j \in t.held
BY FileAssumption DEF next_unheld, Blocks

(* Sending one more block, or waiting for verification.                    *)
LEMMA AdvanceIs ==
  ASSUME NEW t \in TxSession, NEW from \in 0 .. BlockCount, NEW r \in advance(t, from)
  PROVE  /\ r.tx \in TxSession /\ r.tx.id = t.id /\ r.tx.file = t.file
         /\ Believed(r.tx) \subseteq t.held \cup {k \in Blocks : k < from}
         /\ r.receipt = FALSE
         /\ r.out = <<>> \/ \E x \in DataOf(t) : r.out = <<x>>
<1>5. PICK k \in next_unheld(t, from) :
        r = IF k < BlockCount THEN begin_block(t, k)
            ELSE Going([t EXCEPT !.st = "AwaitVerify", !.left = VerifyTicks], <<>>)
  BY DEF advance
<1>1. k \in from .. BlockCount /\ \A j \in Blocks : from <= j /\ j < k => j \in t.held
  BY NextUnheldIs
<1>2. BlockCount \in Nat /\ StallTicks \in Nat /\ VerifyTicks \in Nat
  BY FileAssumption
<1>3. CASE k < BlockCount
  <2> DEFINE u == [t EXCEPT !.st = "Sending", !.block = k, !.left = StallTicks]
             x == [type |-> "FileData", id |-> t.id, block |-> k, file |-> t.file]
  <2>1. k \in Blocks
    BY <1>1, <1>2, <1>3 DEF Blocks
  <2>2. u \in TxSession /\ u.id = t.id /\ u.file = t.file /\ u.st = "Sending" /\ u.block = k
        /\ u.held = t.held
    BY Zenon, <2>1, <1>2 DEF TxSession
  <2>3. x \in DataOf(t)
    BY <2>1 DEF DataOf
  <2>4. r = [tx |-> u, out |-> <<x>>, receipt |-> FALSE]
    BY <1>3, <1>5 DEF begin_block, Going
  <2> HIDE DEF u, x
  <2>5. ASSUME NEW j \in Believed(u) PROVE j \in t.held \cup {i \in Blocks : i < from}
    <3>1. j \in t.held \/ (j \in Blocks /\ j < k)
      BY <2>2, <2>5 DEF Believed
    <3>2. ASSUME j \in Blocks, j < k PROVE j \in t.held \/ j < from
      BY <1>1, <1>2, <3>2 DEF Blocks
    <3> QED BY <3>1, <3>2
  <2> QED BY <2>2, <2>3, <2>4, <2>5
<1>4. CASE ~(k < BlockCount)
  <2> DEFINE u == [t EXCEPT !.st = "AwaitVerify", !.left = VerifyTicks]
  <2>1. u \in TxSession /\ u.id = t.id /\ u.file = t.file /\ u.st = "AwaitVerify"
    BY Zenon, <1>2 DEF TxSession
  <2>2. r = [tx |-> u, out |-> <<>>, receipt |-> FALSE]
    BY <1>4, <1>5 DEF Going
  <2> HIDE DEF u
  <2>3. ASSUME NEW j \in Blocks PROVE j \in t.held \/ j < from
    BY <1>1, <1>2, <1>4 DEF Blocks
  <2> QED BY <2>1, <2>2, <2>3 DEF Believed
<1> QED BY Zenon, <1>3, <1>4

(* The blocks a frame from the receiver says it has.                       *)
Claims(f) ==
  IF f.type = "FileAccept" THEN f.have
  ELSE IF f.type = "BlockAck" THEN {f.block} ELSE {}

(* What a send session may become on a frame, and what it sends.           *)
Follows(r, t, f) ==
  /\ r.tx # None => /\ r.tx \in TxSession
                    /\ r.tx.id = t.id /\ r.tx.file = t.file
                    /\ Believed(r.tx) \subseteq Believed(t) \cup Claims(f)
  /\ r.out = <<>> \/ \E x \in DataOf(t) : r.out = <<x>>
  /\ r.receipt => f.type = "FileComplete" /\ f.ok

(* A terminal answer ends the session.                                     *)
LEMMA FinishFollows ==
  ASSUME NEW t, NEW f, NEW b, b => f.type = "FileComplete" /\ f.ok
  PROVE  Follows(finish(b), t, f)
BY DEF Follows, finish

(* Advancing a session that reset its counter, or learnt of held blocks.   *)
LEMMA AdvanceFollows ==
  ASSUME NEW t \in TxSession, NEW u \in TxSession, NEW from \in 0 .. BlockCount, NEW f,
         u.id = t.id, u.file = t.file,
         u.held \cup {k \in Blocks : k < from} \subseteq Believed(t) \cup Claims(f)
  PROVE  \A r \in advance(u, from) : Follows(r, t, f)
<1>1. DataOf(u) = DataOf(t)
  BY DEF DataOf
<1> QED BY Zenon, <1>1, AdvanceIs DEF Follows

(* apply: each frame the session reacts to.                                *)
LEMMA ApplyFollows ==
  ASSUME NEW t \in TxSession, NEW f \in FxFrame
  PROVE  \A r \in apply(t, f) : Follows(r, t, f)
<1> DEFINE same == Going(t, <<>>)
<1>1. Follows(same, t, f)
  BY DEF Follows, Going
<1>2. BlockCount \in Nat /\ MaxBlockRetries \in Nat /\ StallTicks \in Nat
      /\ 0 \in 0 .. BlockCount
  BY FileAssumption
<1>3. ASSUME t.st = "Offering", f.type = "FileAccept"
      PROVE  \A r \in OnAccept(t, f) : Follows(r, t, f)
  <2> DEFINE u == [t EXCEPT !.held = @ \cup f.have, !.retries = 0]
  <2>1. f.have \in SUBSET Blocks
    BY <1>3, FrameIs
  <2> DEFINE h == t.held \cup f.have
  <2>6. h \in SUBSET Blocks
    BY <2>1 DEF TxSession
  <2>7. u = [t EXCEPT !.held = h, !.retries = 0]
    OBVIOUS
  <2> DEFINE v == [t EXCEPT !.held = h]
             w == [v EXCEPT !.retries = 0]
  <2> HIDE DEF h, u
  <2>8. v \in TxSession /\ v.id = t.id /\ v.file = t.file /\ v.held = h
    BY <2>6 DEF TxSession
  <2>9. w = u
    BY <2>7 DEF TxSession
  <2> HIDE DEF v
  <2>10. w \in TxSession /\ w.id = v.id /\ w.file = v.file /\ w.held = v.held
    BY <1>2, <2>8 DEF TxSession
  <2>2. u \in TxSession /\ u.id = t.id /\ u.file = t.file /\ u.held = t.held \cup f.have
    BY Zenon, <2>8, <2>9, <2>10 DEF h
  <2>3. \A k \in Blocks : ~(k < 0)
    BY DEF Blocks
  <2>4. u.held \cup {k \in Blocks : k < 0} \subseteq Believed(t) \cup Claims(f)
    BY <1>3, <2>2, <2>3 DEF Believed, Claims
  <2>5. OnAccept(t, f) = advance(u, 0)
    BY DEF OnAccept, u
  <2> HIDE DEF u
  <2> QED BY <1>2, <2>2, <2>4, <2>5, AdvanceFollows
<1>4. ASSUME t.st = "Sending", f.type = "BlockAck"
      PROVE  \A r \in OnBlockAck(t, f) : Follows(r, t, f)
  <2>1. t.block \in Blocks /\ t.block + 1 \in 0 .. BlockCount /\ f.complete \in BOOLEAN
    BY <1>2, <1>4, FrameIs DEF TxSession, Blocks
  <2>2. ASSUME f.block = t.block, f.complete
        PROVE  \A r \in advance([t EXCEPT !.retries = 0], t.block + 1) : Follows(r, t, f)
    <3> DEFINE u == [t EXCEPT !.retries = 0]
    <3>1. u \in TxSession /\ u.id = t.id /\ u.file = t.file /\ u.held = t.held
      BY <1>2 DEF TxSession
    <3>2. \A k \in Blocks : k < t.block + 1 => k < t.block \/ k = t.block
      BY <2>1 DEF Blocks
    <3>3. u.held \cup {k \in Blocks : k < t.block + 1} \subseteq Believed(t) \cup Claims(f)
      BY <1>4, <2>2, <3>1, <3>2 DEF Believed, Claims
    <3> HIDE DEF u
    <3>4. \A r \in advance(u, t.block + 1) : Follows(r, t, f)
      BY <2>1, <3>1, <3>3, AdvanceFollows
    <3> QED BY <3>4 DEF u
  <2>3. ASSUME t.retries < MaxBlockRetries
        PROVE  Follows(begin_block([t EXCEPT !.retries = @ + 1], t.block), t, f)
    <3> DEFINE v == [t EXCEPT !.retries = @ + 1]
               u == [v EXCEPT !.st = "Sending", !.block = t.block, !.left = StallTicks]
               x == [type |-> "FileData", id |-> v.id, block |-> t.block, file |-> v.file]
    <3>1. v \in TxSession /\ v.id = t.id /\ v.file = t.file /\ v.held = t.held
      BY <1>2, <2>3 DEF TxSession
    <3>2. begin_block(v, t.block) = [tx |-> u, out |-> <<x>>, receipt |-> FALSE]
      BY DEF begin_block, Going
    <3> HIDE DEF v
    <3>3. /\ u \in TxSession /\ u.id = t.id /\ u.file = t.file /\ u.held = t.held
          /\ u.st = "Sending" /\ u.block = t.block
      BY Zenon, <1>2, <2>1, <3>1 DEF TxSession
    <3>4. x \in DataOf(t)
      BY <2>1, <3>1 DEF DataOf
    <3> HIDE DEF u, x
    <3>5. Believed(u) = Believed(t)
      BY <1>4, <3>3 DEF Believed
    <3>6. Follows(begin_block(v, t.block), t, f)
      BY <3>2, <3>3, <3>4, <3>5 DEF Follows
    <3> QED BY <3>6 DEF v
  <2>4. Follows(finish(FALSE), t, f)
    BY Zenon, FinishFollows
  <2> DEFINE on == advance([t EXCEPT !.retries = 0], t.block + 1)
             again == begin_block([t EXCEPT !.retries = @ + 1], t.block)
  <2>5. \/ OnBlockAck(t, f) = {same}
        \/ f.block = t.block /\ f.complete /\ OnBlockAck(t, f) = on
        \/ t.retries < MaxBlockRetries /\ OnBlockAck(t, f) = {again}
        \/ OnBlockAck(t, f) = {finish(FALSE)}
    BY Zenon DEF OnBlockAck
  <2> HIDE DEF on, again, same
  <2> QED BY Zenon, <1>1, <2>2, <2>3, <2>4, <2>5 DEF on, again
<1>5. \/ apply(t, f) = {same}
      \/ apply(t, f) = {finish(FALSE)}
      \/ t.st = "Offering" /\ f.type = "FileAccept" /\ apply(t, f) = OnAccept(t, f)
      \/ t.st = "Sending" /\ f.type = "BlockAck" /\ apply(t, f) = OnBlockAck(t, f)
      \/ f.type = "FileComplete" /\ apply(t, f) = {finish(f.ok)}
  BY Zenon DEF apply
<1>6. Follows(finish(FALSE), t, f) /\ (f.type = "FileComplete" => Follows(finish(f.ok), t, f))
  BY Zenon, FinishFollows
<1> HIDE DEF same
<1> QED BY Zenon, <1>1, <1>3, <1>4, <1>5, <1>6

-----------------------------------------------------------------------------
(* The shape of the state, and what the handlers share.                    *)

BlockMap == [Blocks -> Files \cup {None}]
Disk == [Dirs -> BlockMap]

Shape ==
  /\ tx \in [Stations -> TxSession \cup {None}]
  /\ rx \in [Stations -> RxSession \cup {None}]
  /\ partial \in [Stations -> Disk]
  /\ stale \in [Stations -> SUBSET Dirs]
  /\ channel \in [Stations -> Seq(FxFrame)]
  /\ transfer_id \in Nat
  /\ received_files \in [Stations -> Seq(Files \X BOOLEAN)]

(* What a handler at s does to the air.                                    *)
AirStep(s, out) ==
  /\ channel' \in [Stations -> Seq(FxFrame)]
  /\ channel'[Peer(s)] = channel[Peer(s)] \o out
  /\ \/ channel'[s] = channel[s]
     \/ channel[s] # <<>> /\ channel'[s] = Tail(channel[s])

(* Frames sent without an incoming one.                                    *)
LEMMA SendFramesIs ==
  ASSUME Shape, NEW s \in Stations, NEW out \in Seq(FxFrame), SendFrames(s, out)
  PROVE  AirStep(s, out)
<1>1. Peer(s) \in Stations /\ Peer(s) # s
  BY PeerIs
<1>2. channel[Peer(s)] \o out \in Seq(FxFrame)
  BY <1>1, ElemsCat DEF Shape
<1> QED BY <1>1, <1>2 DEF SendFrames, AirStep, Shape

(* Frames sent in answer to the one at the head, which may stay.           *)
LEMMA ReplyFramesIs ==
  ASSUME Shape, NEW s \in Stations, NEW out \in Seq(FxFrame), ReplyFrames(s, out),
         channel[s] # <<>>
  PROVE  AirStep(s, out)
<1>1. Peer(s) \in Stations /\ Peer(s) # s
  BY PeerIs
<1>2. channel[Peer(s)] \o out \in Seq(FxFrame) /\ Tail(channel[s]) \in Seq(FxFrame)
  BY <1>1, ElemsCat, ElemsTail DEF Shape
<1>3. CASE channel' = [channel EXCEPT ![s] = Tail(@), ![Peer(s)] = @ \o out]
  BY Zenon, <1>1, <1>2, <1>3 DEF AirStep, Shape
<1>4. CASE channel' = [channel EXCEPT ![Peer(s)] = @ \o out]
  BY <1>1, <1>2, <1>4 DEF AirStep, Shape
<1> QED BY <1>3, <1>4 DEF ReplyFrames, Repeat

(* What Settle leaves: the session stored, or the file verified.           *)
Stored(s, r, part) ==
  /\ Have(r.blocks) # Blocks
  /\ rx' = [rx EXCEPT ![s] = r]
  /\ partial' = [partial EXCEPT ![s] = part]
  /\ UNCHANGED <<received_files, assembled, vouched>>

Verified(s, r, part) ==
  /\ Have(r.blocks) = Blocks
  /\ rx' = [rx EXCEPT ![s] = None]
  /\ assembled' = assembled \cup {r.id}
  /\ vouched' = vouched \cup (IF VerifiedOk(r) THEN {r.id} ELSE {})
  /\ \/ /\ partial' = [partial EXCEPT ![s] = part]
        /\ UNCHANGED received_files
     \/ /\ partial' = [partial EXCEPT ![s] = [part EXCEPT ![<<r.sig, r.file>>] = NoBlocks]]
        /\ received_files' =
             [received_files EXCEPT ![s] = Append(@, <<r.file, VerifiedOk(r)>>)]

(* Settle does one or the other.                                           *)
LEMMA SettleIs ==
  ASSUME NEW s, NEW r, NEW part, Settle(s, r, part)
  PROVE  Stored(s, r, part) \/ Verified(s, r, part)
<1>1. CASE Have(r.blocks) # Blocks
  BY <1>1 DEF Settle, Store, Stored
<1>2. CASE Have(r.blocks) = Blocks
  <2>1. PICK w \in Writes : Verify(s, r, part, w)
    BY <1>2 DEF Settle
  <2>2. w \in BOOLEAN
    BY FileAssumption
  <2>3. CASE w
    BY Zenon, <1>2, <2>1, <2>3 DEF Verify, Verified, clear_partials, partial_dir_for, VerifiedOk
  <2>4. CASE ~w
    BY Zenon, <1>2, <2>1, <2>4 DEF Verify, Verified, clear_partials, partial_dir_for, VerifiedOk
  <2> QED BY <2>2, <2>3, <2>4
<1> QED BY <1>1, <1>2

(* Settling a session keeps the shape.                                     *)
LEMMA SettleKeeps ==
  ASSUME Shape, NEW s \in Stations, NEW r \in RxSession, NEW part \in Disk, Settle(s, r, part)
  PROVE  /\ rx' \in [Stations -> RxSession \cup {None}]
         /\ partial' \in [Stations -> Disk]
         /\ received_files' \in [Stations -> Seq(Files \X BOOLEAN)]
<1>1. Stored(s, r, part) \/ Verified(s, r, part)
  BY SettleIs
<1>2. CASE Stored(s, r, part)
  BY <1>2 DEF Stored, Shape
<1>3. CASE Verified(s, r, part)
  <2> DEFINE d == [part EXCEPT ![<<r.sig, r.file>>] = NoBlocks]
             row == <<r.file, VerifiedOk(r)>>
  <2>1. d \in Disk
    BY Zenon DEF Disk, BlockMap, NoBlocks
  <2>2. row \in Files \X BOOLEAN
    BY Zenon DEF RxSession, VerifiedOk, hash_ok
  <2>3. Append(received_files[s], row) \in Seq(Files \X BOOLEAN)
    BY <2>2 DEF Shape
  <2>4. /\ rx' = [rx EXCEPT ![s] = None]
        /\ partial' = [partial EXCEPT ![s] = part] \/ partial' = [partial EXCEPT ![s] = d]
        /\ \/ UNCHANGED received_files
           \/ received_files' = [received_files EXCEPT ![s] = Append(@, row)]
    BY <1>3 DEF Verified
  <2> HIDE DEF d, row
  <2>5. rx' \in [Stations -> RxSession \cup {None}]
    BY <2>4 DEF Shape
  <2>6. partial' \in [Stations -> Disk]
    BY Zenon, <2>1, <2>4 DEF Shape
  <2>7. received_files' \in [Stations -> Seq(Files \X BOOLEAN)]
    BY Zenon, <2>3, <2>4 DEF Shape
  <2> QED BY <2>5, <2>6, <2>7
<1> QED BY <1>1, <1>2, <1>3

(* What a station leaves as it is.                                         *)
LEMMA Unmoved ==
  ASSUME Shape, NEW s \in Stations
  PROVE  /\ tx = [tx EXCEPT ![s] = tx[s]] /\ rx = [rx EXCEPT ![s] = rx[s]]
         /\ tx[s] \in TxSession \cup {None} /\ rx[s] \in RxSession \cup {None}
BY DEF Shape

(* Every frame a session sends is a frame.                                 *)
LEMMA OutTyped ==
  /\ \A x \in FxFrame : <<x>> \in Seq(FxFrame)
  /\ <<>> \in Seq(FxFrame)
  /\ \A p, q \in Seq(FxFrame) : p \o q \in Seq(FxFrame)
  /\ \A r \in RxSession : FileAccept(r) \in Seq(FxFrame) /\ SettledFrames(r) \in Seq(FxFrame)
  /\ \A id \in Nat : FileReject(id) \in Seq(FxFrame)
  /\ \A t \in TxSession : DataOf(t) \subseteq FxFrame
<1>1. \A x \in FxFrame : <<x>> \in Seq(FxFrame)
  OBVIOUS
<1>2. <<>> \in Seq(FxFrame) /\ \A p, q \in Seq(FxFrame) : p \o q \in Seq(FxFrame)
  OBVIOUS
<1>3. ASSUME NEW r \in RxSession
      PROVE  FileAccept(r) \in Seq(FxFrame) /\ SettledFrames(r) \in Seq(FxFrame)
  <2> DEFINE f == [type |-> "FileAccept", id |-> r.id, have |-> Have(r.blocks)]
             g == [type |-> "FileComplete", id |-> r.id, ok |-> VerifiedOk(r)]
  <2>1. f \in FxFrame
    BY DEF FxFrame, RxSession, Have
  <2>2. VerifiedOk(r) \in BOOLEAN
    BY DEF VerifiedOk, hash_ok
  <2>3. g \in FxFrame
    BY <2>2 DEF FxFrame, RxSession
  <2>4. FileAccept(r) = <<f>> /\ SettledFrames(r) \in {<<g>>, <<>>}
    BY DEF FileAccept, SettledFrames, Complete
  <2> HIDE DEF f, g
  <2> QED BY Zenon, <1>1, <1>2, <2>1, <2>3, <2>4
<1>4. ASSUME NEW id \in Nat PROVE FileReject(id) \in Seq(FxFrame)
  <2>1. [type |-> "FileReject", id |-> id] \in FxFrame
    BY DEF FxFrame
  <2> QED BY <2>1, <1>1 DEF FileReject
<1>5. \A t \in TxSession : DataOf(t) \subseteq FxFrame
  BY DEF FxFrame, DataOf, TxSession
<1> QED BY <1>1, <1>2, <1>3, <1>4, <1>5

(* The frame at the head.                                                  *)
LEMMA HeadIs ==
  ASSUME Shape, NEW s \in Stations, NEW types, NextIs(s, types)
  PROVE  /\ channel[s] # <<>> /\ Head(channel[s]) \in FxFrame
         /\ Head(channel[s]) \in Elems(channel[s]) /\ Head(channel[s]).type \in types
BY ElemsTail DEF Shape, NextIs

(* Offering a file.                                                        *)
LEMMA SendFileKeeps ==
  ASSUME Shape, NEW s \in Stations, NEW f \in Files, NEW sig \in Signed,
         SendFile(s, f, sig)
  PROVE  Shape'
<1> DEFINE n == transfer_id + 1
           t == [id |-> n, file |-> f, st |-> "Offering", block |-> 0,
                 retries |-> 0, held |-> {}, left |-> OfferTicks]
           x == [type |-> "FileOffer", id |-> n, file |-> f, sig |-> sig]
<1>1. n \in Nat /\ transfer_id' = n
  BY DEF Shape, SendFile
<1>2. 0 \in Blocks /\ OfferTicks \in Nat /\ 0 \in 0 .. MaxBlockRetries
  BY FileAssumption DEF Blocks
<1>3. t \in TxSession /\ x \in FxFrame
  BY <1>1, <1>2 DEF TxSession, FxFrame
<1>4. tx' = [tx EXCEPT ![s] = t] /\ SendFrames(s, <<x>>)
  BY <1>1 DEF SendFile
<1> HIDE DEF n, t, x
<1>6. AirStep(s, <<x>>)
  BY Zenon, <1>3, <1>4, OutTyped, SendFramesIs
<1>7. tx' \in [Stations -> TxSession \cup {None}]
  BY <1>3, <1>4 DEF Shape
<1> QED BY Zenon, <1>1, <1>6, <1>7 DEF SendFile, Shape, AirStep, outcomes

(* An answer to the send session.                                          *)
LEMMA OnTxFrameIs ==
  ASSUME Shape, NEW s \in Stations, OnTxFrame(s)
  PROVE  \E r : /\ tx' = [tx EXCEPT ![s] = r.tx]
                /\ AirStep(s, r.out)
                /\ \/ tx[s] = None /\ r.tx = None /\ r.out = <<>> /\ UNCHANGED receipts
                   \/ /\ tx[s] # None
                      /\ Head(channel[s]).id = tx[s].id => Follows(r, tx[s], Head(channel[s]))
                      /\ Head(channel[s]).id # tx[s].id => r.tx = tx[s] /\ r.out = <<>>
                      /\ receipts' \in {receipts, receipts \cup {Head(channel[s]).id}}
                      /\ receipts' # receipts =>
                           Head(channel[s]).type = "FileComplete" /\ Head(channel[s]).ok
<1> DEFINE f == Head(channel[s])
<1>1. PICK r \in IF tx[s] # None /\ tx[s].id = f.id THEN apply(tx[s], f)
                 ELSE {Going(tx[s], <<>>)} :
        /\ tx' = [tx EXCEPT ![s] = r.tx]
        /\ ReplyFrames(s, r.out)
        /\ receipts' = receipts \cup (IF r.receipt THEN {f.id} ELSE {})
  BY Zenon DEF OnTxFrame
<1>2. channel[s] # <<>> /\ f \in FxFrame
  BY HeadIs DEF OnTxFrame
<1>3. tx[s] = None => r.tx = None /\ r.out = <<>> /\ r.receipt = FALSE
  BY <1>1 DEF Going
<1>4. tx[s] # None /\ f.id # tx[s].id => r.tx = tx[s] /\ r.out = <<>> /\ r.receipt = FALSE
  BY <1>1 DEF Going
<1>5. tx[s] # None /\ f.id = tx[s].id => Follows(r, tx[s], f)
  BY <1>1, <1>2, ApplyFollows DEF Shape
<1> HIDE DEF f
<1>6. r.out \in Seq(FxFrame)
  <2>1. CASE r.out = <<>>
    BY <2>1, OutTyped
  <2>2. CASE r.out # <<>>
    <3>1. tx[s] \in TxSession /\ \E x \in DataOf(tx[s]) : r.out = <<x>>
      BY <2>2, <1>3, <1>4, <1>5 DEF Follows, Shape
    <3> QED BY SMTT(30), <3>1, OutTyped
  <2> QED BY SMTT(30), <2>1, <2>2
<1>7. AirStep(s, r.out)
  BY <1>1, <1>2, <1>6, ReplyFramesIs
<1>8. tx[s] = None => UNCHANGED receipts
  BY <1>1, <1>3
<1>9. /\ receipts' \in {receipts, receipts \cup {f.id}}
      /\ receipts' # receipts => r.receipt
  BY <1>1
<1>10. tx[s] # None /\ receipts' # receipts => f.type = "FileComplete" /\ f.ok
  BY Zenon, <1>9, <1>4, <1>5 DEF Follows
<1> QED BY Zenon, <1>1, <1>3, <1>4, <1>5, <1>7, <1>8, <1>9, <1>10 DEF f

(* An answer keeps the shape.                                              *)
LEMMA OnTxFrameKeeps ==
  ASSUME Shape, NEW s \in Stations, OnTxFrame(s)
  PROVE  Shape'
<1>1. PICK r : /\ tx' = [tx EXCEPT ![s] = r.tx]
               /\ AirStep(s, r.out)
               /\ \/ tx[s] = None /\ r.tx = None
                  \/ /\ tx[s] # None
                     /\ Head(channel[s]).id = tx[s].id => Follows(r, tx[s], Head(channel[s]))
                     /\ Head(channel[s]).id # tx[s].id => r.tx = tx[s]
  BY SMTT(30), OnTxFrameIs
<1>2. r.tx \in TxSession \cup {None}
  BY SMTT(30), <1>1 DEF Follows, Shape
<1>3. tx' \in [Stations -> TxSession \cup {None}]
  BY Zenon, <1>1, <1>2 DEF Shape
<1> QED BY SMTT(30), <1>1, <1>3 DEF OnTxFrame, Shape, AirStep, outcomes

-----------------------------------------------------------------------------
(* The receive session.                                                    *)

(* The partial blocks after purge_stale_partials, and the session an offer *)
(* opens.                                                                  *)
Purged(s, sig) ==
  [d \in Dirs |-> IF d[1] = sig /\ d \in stale[s] THEN NoBlocks ELSE partial[s][d]]

OfferedRx(s, f) ==
  [id |-> f.id, file |-> f.file, sig |-> f.sig, st |-> "AwaitingDecision",
   left |-> OfferTicks, blocks |-> Purged(s, f.sig)[<<f.sig, f.file>>]]

(* They have their types.                                                  *)
LEMMA OfferTyped ==
  ASSUME Shape, NEW s \in Stations, NextIs(s, {"FileOffer"})
  PROVE  LET f == Head(channel[s])
         IN  /\ f \in FxFrame /\ f.type = "FileOffer"
             /\ f.id \in Nat /\ f.file \in Files /\ f.sig \in Signed
             /\ <<f.sig, f.file>> \in Dirs
             /\ Purged(s, f.sig) \in Disk
             /\ OfferedRx(s, f) \in RxSession
<1> DEFINE f == Head(channel[s])
           p == Purged(s, f.sig)
<1>1. f \in FxFrame /\ f.type = "FileOffer"
  BY HeadIs
<1>2. f.id \in Nat /\ f.file \in Files /\ f.sig \in Signed
  BY <1>1, FrameIs
<1> HIDE DEF f
<1>3. <<f.sig, f.file>> \in Dirs
  BY <1>2 DEF Dirs
<1>4. NoBlocks \in BlockMap
  BY DEF NoBlocks, BlockMap
<1>5. p \in Disk
  BY <1>4 DEF Purged, Disk, Shape
<1>6. p[<<f.sig, f.file>>] \in BlockMap
  BY SMTT(30), <1>3, <1>5 DEF Disk
<1>7. OfferedRx(s, f) \in RxSession
  BY <1>2, <1>6, FileAssumption DEF OfferedRx, RxSession, BlockMap
<1> QED BY <1>1, <1>2, <1>3, <1>5, <1>7 DEF f

(* begin_receiving keeps what the session is about.                        *)
LEMMA BeginIs ==
  ASSUME NEW r \in RxSession
  PROVE  /\ begin_receiving(r) \in RxSession
         /\ begin_receiving(r).id = r.id /\ begin_receiving(r).file = r.file
         /\ begin_receiving(r).sig = r.sig /\ begin_receiving(r).blocks = r.blocks
         /\ SettledFrames(begin_receiving(r)) = SettledFrames(r)
<1>1. /\ begin_receiving(r) \in RxSession
      /\ begin_receiving(r).id = r.id /\ begin_receiving(r).file = r.file
      /\ begin_receiving(r).sig = r.sig /\ begin_receiving(r).blocks = r.blocks
  BY Zenon, FileAssumption DEF begin_receiving, RxSession
<1> QED BY <1>1 DEF SettledFrames, Complete, VerifiedOk, hash_ok

(* An offer, by the decision on it.                                        *)
LEMMA OnOfferIs ==
  ASSUME Shape, NEW s \in Stations, NEW decision \in Decisions, OnOffer(s, decision)
  PROVE  LET f == Head(channel[s])
             r == OfferedRx(s, f)
             part == Purged(s, f.sig)
         IN  \/ /\ decision = "Reject"
                /\ Store(s, None, part)
                /\ AirStep(s, FileReject(f.id))
             \/ /\ decision = "Prompt"
                /\ Store(s, r, part)
                /\ AirStep(s, <<>>)
             \/ /\ decision = "AutoAccept"
                /\ Settle(s, begin_receiving(r), part)
                /\ AirStep(s, FileAccept(r) \o SettledFrames(r))
<1> DEFINE f == Head(channel[s])
           r == OfferedRx(s, f)
           part == Purged(s, f.sig)
<1>1. /\ f \in FxFrame /\ f.id \in Nat /\ r \in RxSession /\ channel[s] # <<>>
  BY Zenon, OfferTyped, HeadIs DEF OnOffer
<1>2. \/ /\ decision = "Reject"
         /\ Store(s, None, part)
         /\ ReplyFrames(s, FileReject(f.id))
      \/ /\ decision = "Prompt"
         /\ Store(s, r, part)
         /\ ReplyFrames(s, <<>>)
      \/ /\ decision = "AutoAccept"
         /\ Settle(s, begin_receiving(r), part)
         /\ ReplyFrames(s, FileAccept(r) \o SettledFrames(r))
  BY Zenon, FileAssumption DEF OnOffer, OfferedRx, Purged, partial_dir_for
<1> HIDE DEF f, r, part
<1>3. /\ FileReject(f.id) \in Seq(FxFrame) /\ <<>> \in Seq(FxFrame)
      /\ FileAccept(r) \o SettledFrames(r) \in Seq(FxFrame)
  BY Zenon, <1>1, OutTyped
<1>4. \A out \in Seq(FxFrame) : ReplyFrames(s, out) => AirStep(s, out)
  BY <1>1, ReplyFramesIs
<1> QED BY Zenon, <1>2, <1>3, <1>4 DEF f, r, part

(* A block for the session: what it leaves in the session and on disk.     *)
BlockAckOf(f) == [type |-> "BlockAck", id |-> f.id, block |-> f.block, complete |-> TRUE]

(* route_inbound_fragment stores a block whole: the session gains that     *)
(* block alone, and the disk keeps what it had, gains it too or, when the  *)
(* write is cut short, loses what it had of it.                            *)
WrittenTo(part, s, d, f) ==
  \/ part = partial[s]
  \/ \E v \in {f.file, None} :
       part = [partial[s] EXCEPT ![d] = [@ EXCEPT ![f.block] = v]]

(* A block's handler.                                                      *)
LEMMA OnBlockIs ==
  ASSUME Shape, NEW s \in Stations, NEW outcome \in Persists, OnBlock(s, outcome)
  PROVE  LET f == Head(channel[s])
             d == <<rx[s].sig, rx[s].file>>
         IN  /\ f \in FxFrame /\ f \in Elems(channel[s]) /\ f.type = "FileData"
             /\ f.block \in Blocks /\ f.file \in Files /\ f.id = rx[s].id
             /\ rx[s] # None /\ rx[s] \in RxSession /\ d \in Dirs
             /\ \E r \in RxSession, part \in Disk :
                  /\ r.id = f.id /\ r.file = rx[s].file /\ r.sig = rx[s].sig
                  /\ r.blocks = [rx[s].blocks EXCEPT ![f.block] = f.file]
                  /\ WrittenTo(part, s, d, f)
                  /\ Settle(s, r, part)
                  /\ AirStep(s, <<BlockAckOf(f)>> \o SettledFrames(r))
<1> DEFINE f == Head(channel[s])
           d == <<rx[s].sig, rx[s].file>>
           q == rx[s]
           bs == [q.blocks EXCEPT ![f.block] = f.file]
           part == Persisted(partial[s], d, f.block, f.file, outcome)
           r == IF q.blocks[f.block] # None
                THEN [q EXCEPT !.blocks[f.block] = f.file]
                ELSE [q EXCEPT !.blocks[f.block] = f.file, !.left = StallTicks]
<1>13. NextIs(s, {"FileData"})
  BY Zenon DEF OnBlock
<1>1. f \in FxFrame /\ f \in Elems(channel[s]) /\ f.type = "FileData" /\ channel[s] # <<>>
  BY <1>13, HeadIs
<1>2. f.block \in Blocks /\ f.file \in Files
  BY Zenon, <1>1, FrameIs
<1>3. q # None /\ q \in RxSession /\ f.id = q.id /\ d \in Dirs
  BY SMTT(30) DEF OnBlock, Receiving, Shape, RxSession, Dirs
<1>4. Settle(s, r, part) /\ ReplyFrames(s, <<BlockAckOf(f)>> \o SettledFrames(r))
  BY Zenon DEF OnBlock, partial_dir_for, BlockAckOf
<1>5. bs \in BlockMap
  BY <1>2, <1>3 DEF BlockMap, RxSession
<1>6. partial[s] \in Disk /\ partial[s][d] \in BlockMap
  BY <1>3 DEF Shape, Disk
<1>7. WrittenTo(part, s, d, f)
  <2>1. outcome \in {"written", "refused", "truncated"}
    BY FileAssumption DEF PersistOutcomes
  <2> QED BY Zenon, <2>1 DEF Persisted, WrittenTo
<1>8. part \in Disk
  <2>1. \A v \in {f.file, None} : [partial[s][d] EXCEPT ![f.block] = v] \in BlockMap
    BY Zenon, <1>2, <1>6 DEF BlockMap
  <2>2. part = partial[s] \/ \E v \in {f.file, None} :
          part = [partial[s] EXCEPT ![d] = [partial[s][d] EXCEPT ![f.block] = v]]
    BY Zenon, <1>7 DEF WrittenTo
  <2> HIDE DEF part
  <2> QED BY Zenon, <1>6, <2>1, <2>2 DEF Disk
<1>9. r \in RxSession /\ r.id = q.id /\ r.file = q.file /\ r.sig = q.sig /\ r.blocks = bs
  <2> DEFINE u == [q EXCEPT !.blocks = bs]
             v == [u EXCEPT !.left = StallTicks]
  <2>1. r = u \/ r = v
    BY <1>3 DEF RxSession
  <2> HIDE DEF bs, q, r
  <2>2. u \in RxSession /\ u.id = q.id /\ u.file = q.file /\ u.sig = q.sig /\ u.blocks = bs
    BY <1>3, <1>5 DEF RxSession, BlockMap
  <2> HIDE DEF u
  <2>3. v \in RxSession /\ v.id = q.id /\ v.file = q.file /\ v.sig = q.sig /\ v.blocks = bs
    BY Zenon, <2>2, FileAssumption DEF RxSession
  <2> QED BY Zenon, <2>1, <2>2, <2>3
<1>10. BlockAckOf(f) \in FxFrame
  BY <1>1, <1>2, FrameIs DEF BlockAckOf, FxFrame
<1> HIDE DEF r, part
<1>11. <<BlockAckOf(f)>> \o SettledFrames(r) \in Seq(FxFrame)
  BY <1>9, <1>10, OutTyped
<1>12. AirStep(s, <<BlockAckOf(f)>> \o SettledFrames(r))
  BY Zenon, <1>1, <1>4, <1>11, ReplyFramesIs
<1> QED BY Zenon, <1>1, <1>2, <1>3, <1>4, <1>7, <1>8, <1>9, <1>12

(* What storing a session keeps.                                           *)
LEMMA StoreKeeps ==
  ASSUME Shape, NEW s \in Stations, NEW r \in RxSession \cup {None},
         NEW part \in Disk, Store(s, r, part)
  PROVE  /\ rx' \in [Stations -> RxSession \cup {None}]
         /\ partial' \in [Stations -> Disk]
         /\ received_files' \in [Stations -> Seq(Files \X BOOLEAN)]
BY DEF Store, Shape

(* An offer.                                                               *)
LEMMA OnOfferKeeps ==
  ASSUME Shape, NEW s \in Stations, NEW decision \in Decisions,
         OnOffer(s, decision)
  PROVE  Shape'
<1> DEFINE f == Head(channel[s])
           r == OfferedRx(s, f)
           part == Purged(s, f.sig)
<1>1. r \in RxSession /\ part \in Disk /\ rx[s] = None /\ r # None
  BY Zenon, OfferTyped, NoneAssumption DEF OnOffer
<1>2. begin_receiving(r) \in RxSession
  BY Zenon, <1>1, BeginIs
<1>3. \/ Store(s, None, part)
      \/ Store(s, r, part)
      \/ Settle(s, begin_receiving(r), part)
  BY OnOfferIs
<1>4. channel' \in [Stations -> Seq(FxFrame)]
  BY Zenon, OnOfferIs DEF AirStep
<1>5. stale' \in [Stations -> SUBSET Dirs]
  BY DEF OnOffer, Shape
<1> HIDE DEF r, part
<1>7. UNCHANGED <<tx, transfer_id>>
  BY DEF OnOffer
<1>8. /\ rx' \in [Stations -> RxSession \cup {None}]
      /\ partial' \in [Stations -> Disk]
      /\ received_files' \in [Stations -> Seq(Files \X BOOLEAN)]
  <2>1. CASE Store(s, None, part)
    BY Zenon, <1>1, <2>1, StoreKeeps
  <2>2. CASE Store(s, r, part)
    BY <1>1, <2>2, StoreKeeps
  <2>3. CASE Settle(s, begin_receiving(r), part)
    BY <1>1, <1>2, <2>3, SettleKeeps
  <2> QED BY <1>3, <2>1, <2>2, <2>3
<1> QED BY SMTT(30), <1>4, <1>5, <1>7, <1>8 DEF Shape

(* The operator accepts.                                                   *)
LEMMA AcceptOfferIs ==
  ASSUME Shape, NEW s \in Stations, AcceptOffer(s)
  PROVE  /\ rx[s] # None /\ rx[s] \in RxSession
         /\ Settle(s, begin_receiving(rx[s]), partial[s])
         /\ AirStep(s, FileAccept(rx[s]) \o SettledFrames(rx[s]))
         /\ UNCHANGED <<tx, stale, transfer_id, receipts>>
<1>1. rx[s] # None /\ rx[s] \in RxSession
  BY DEF AcceptOffer, Shape
<1>2. FileAccept(rx[s]) \o SettledFrames(rx[s]) \in Seq(FxFrame)
  BY SMTT(30), <1>1, OutTyped
<1>3. AirStep(s, FileAccept(rx[s]) \o SettledFrames(rx[s]))
  BY Zenon, <1>2, SendFramesIs DEF AcceptOffer
<1> QED BY <1>1, <1>3 DEF AcceptOffer

(* The operator's acceptance of a waiting offer keeps the shape.           *)
LEMMA AcceptOfferKeeps ==
  ASSUME Shape, NEW s \in Stations, AcceptOffer(s)
  PROVE  Shape'
<1>1. /\ rx[s] # None /\ rx[s] \in RxSession
      /\ Settle(s, begin_receiving(rx[s]), partial[s])
      /\ channel' \in [Stations -> Seq(FxFrame)]
      /\ UNCHANGED <<tx, stale, transfer_id>>
  BY Zenon, AcceptOfferIs DEF AirStep
<1>2. begin_receiving(rx[s]) \in RxSession /\ partial[s] \in Disk
  BY <1>1, BeginIs DEF Shape
<1>4. /\ rx' \in [Stations -> RxSession \cup {None}]
      /\ partial' \in [Stations -> Disk]
      /\ received_files' \in [Stations -> Seq(Files \X BOOLEAN)]
  BY <1>1, <1>2, SettleKeeps
<1> QED BY <1>1, <1>4 DEF Shape

(* A block arrives.                                                        *)
LEMMA OnBlockKeeps ==
  ASSUME Shape, NEW s \in Stations, NEW outcome \in Persists,
         OnBlock(s, outcome)
  PROVE  Shape'
<1>2. PICK r \in RxSession, part \in Disk :
           Settle(s, r, part) /\ channel' \in [Stations -> Seq(FxFrame)]
  BY Zenon, OnBlockIs DEF AirStep
<1>4. UNCHANGED <<tx, transfer_id>> /\ stale' \in [Stations -> SUBSET Dirs]
  BY DEF OnBlock, Shape
<1>5. /\ rx' \in [Stations -> RxSession \cup {None}]
      /\ partial' \in [Stations -> Disk]
      /\ received_files' \in [Stations -> Seq(Files \X BOOLEAN)]
  BY Zenon, <1>2, SettleKeeps
<1> QED BY SMTT(30), <1>2, <1>4, <1>5 DEF Shape

-----------------------------------------------------------------------------
(* Steps that only end sessions: a rejection, a cancel, a deadline, a lost *)
(* frame, a restart, a frame nobody wants.                                 *)

Ends(s, out) ==
  /\ AirStep(s, out)
  /\ out = <<>> \/ \E x \in FxFrame : x.type \in {"FileReject", "FileCancel"} /\ out = <<x>>
  /\ \A q \in Stations : tx'[q] \in {tx[q], None} /\ rx'[q] \in {rx[q], None}
  /\ UNCHANGED <<partial, stale, transfer_id, received_files, assembled, vouched, receipts>>

(* Ending a station's sessions keeps the shape.                            *)
LEMMA EndsKeeps ==
  ASSUME Shape, NEW s \in Stations, NEW out,
         NEW t \in {tx[s], None}, NEW r \in {rx[s], None},
         tx' = [tx EXCEPT ![s] = t], rx' = [rx EXCEPT ![s] = r],
         AirStep(s, out),
         out = <<>> \/ \E x \in FxFrame : x.type \in {"FileReject", "FileCancel"} /\ out = <<x>>,
         UNCHANGED <<partial, stale, transfer_id, received_files, assembled, vouched, receipts>>
  PROVE  Ends(s, out) /\ Shape'
<1>1. t \in TxSession \cup {None} /\ r \in RxSession \cup {None}
  BY Unmoved
<1>2. /\ tx' \in [Stations -> TxSession \cup {None}]
      /\ rx' \in [Stations -> RxSession \cup {None}]
  BY Zenon, <1>1 DEF Shape
<1>3. \A q \in Stations : tx'[q] \in {tx[q], None} /\ rx'[q] \in {rx[q], None}
  BY DEF Shape
<1> QED BY Zenon, <1>2, <1>3 DEF Ends, Shape, AirStep

Ending(s) ==
  \/ OnOfferBusy(s) \/ RejectOffer(s) \/ OnBlockIgnored(s) \/ OnCancel(s)
  \/ \E id \in 1 .. MaxTransfers : CancelTransfer(s, id)
  \/ PollTimeouts(s) \/ Lose(s) \/ Restart(s)

(* Each of them does no more.                                              *)
LEMMA EndingIs ==
  ASSUME Shape, NEW s \in Stations, Ending(s)
  PROVE  (\E out : Ends(s, out)) /\ Shape'
<1> USE DEF outcomes
<1> DEFINE Kept(t, r, out) ==
             /\ t \in {tx[s], None} /\ r \in {rx[s], None}
             /\ tx' = [tx EXCEPT ![s] = t] /\ rx' = [rx EXCEPT ![s] = r]
             /\ AirStep(s, out)
             /\ \/ out = <<>>
                \/ \E x \in FxFrame : x.type \in {"FileReject", "FileCancel"} /\ out = <<x>>
             /\ UNCHANGED <<partial, stale, transfer_id, received_files, assembled,
                            vouched, receipts>>
           Small(out) == \/ out = <<>>
                         \/ \E x \in FxFrame :
                              x.type \in {"FileReject", "FileCancel"} /\ out = <<x>>
<1>1. SUFFICES \E t, r, out : Kept(t, r, out)
  BY Zenon, EndsKeeps
<1>2. /\ tx = [tx EXCEPT ![s] = tx[s]] /\ rx = [rx EXCEPT ![s] = rx[s]]
  BY Zenon, Unmoved
<1>3. \A id \in Nat : Small(FileReject(id)) /\ Small(<<[type |-> "FileCancel", id |-> id]>>)
      /\ FileReject(id) \in Seq(FxFrame)
      /\ <<[type |-> "FileCancel", id |-> id]>> \in Seq(FxFrame)
  <2> TAKE id \in Nat
  <2>1. [type |-> "FileReject", id |-> id] \in FxFrame
        /\ [type |-> "FileCancel", id |-> id] \in FxFrame
    BY DEF FxFrame
  <2>2. \A x \in FxFrame : <<x>> \in Seq(FxFrame)
    BY OutTyped
  <2> QED BY <2>1, <2>2 DEF FileReject
<1>4. Small(<<>>) /\ <<>> \in Seq(FxFrame)
  BY OutTyped
<1>5. \A out \in Seq(FxFrame) : SendFrames(s, out) => AirStep(s, out)
  BY SendFramesIs
<1>6. \A out \in Seq(FxFrame) : channel[s] # <<>> /\ ReplyFrames(s, out) => AirStep(s, out)
  BY Zenon, ReplyFramesIs
<1>7. rx[s] # None => rx[s].id \in Nat
  BY DEF Shape, RxSession
<1>8. ASSUME NEW types, NextIs(s, types)
      PROVE  channel[s] # <<>> /\ Head(channel[s]).id \in Nat
  BY <1>8, HeadIs, FrameIs
<1>9. CASE OnOfferBusy(s)
  <2> DEFINE out == FileReject(Head(channel[s]).id)
  <2>1. Small(out) /\ AirStep(s, out)
    BY Zenon, <1>9, <1>3, <1>6, <1>8 DEF OnOfferBusy
  <2> HIDE DEF out
  <2>2. Kept(tx[s], rx[s], out)
    BY <1>9, <1>2, <2>1 DEF OnOfferBusy
  <2> QED BY Zenon, <2>2
<1>10. CASE RejectOffer(s)
  <2> DEFINE out == FileReject(rx[s].id)
  <2>1. Small(out) /\ AirStep(s, out)
    BY Zenon, <1>10, <1>3, <1>5, <1>7 DEF RejectOffer
  <2> HIDE DEF out
  <2>4. UNCHANGED <<partial, stale, transfer_id, received_files, assembled, vouched, receipts>>
    BY <1>10 DEF RejectOffer, Store, Shape
  <2>5. tx' = tx /\ rx' = [rx EXCEPT ![s] = None]
    BY Zenon, <1>10 DEF RejectOffer, Store
  <2>3. Kept(tx[s], None, out)
    BY <1>2, <2>1, <2>4, <2>5
  <2> QED BY Zenon, <2>3
<1>11. CASE OnBlockIgnored(s)
  <2>1. AirStep(s, <<>>)
    BY Zenon, <1>11, <1>4, <1>6, <1>8 DEF OnBlockIgnored
  <2>2. Kept(tx[s], rx[s], <<>>)
    BY <1>11, <1>2, <2>1 DEF OnBlockIgnored
  <2> QED BY Zenon, <2>2
<1>12. ASSUME NEW id, EndBoth(s, id)
       PROVE  /\ Drop(tx[s], id) \in {tx[s], None} /\ Drop(rx[s], id) \in {rx[s], None}
              /\ tx' = [tx EXCEPT ![s] = Drop(tx[s], id)]
              /\ rx' = [rx EXCEPT ![s] = Drop(rx[s], id)]
  BY Zenon, <1>12 DEF EndBoth, Drop
<1>13. CASE OnCancel(s)
  <2> DEFINE id == Head(channel[s]).id
  <2>1. AirStep(s, <<>>)
    BY Zenon, <1>13, <1>4, <1>6, <1>8 DEF OnCancel
  <2>2. EndBoth(s, id) /\ UNCHANGED <<partial, stale, transfer_id, outcomes, receipts>>
    BY <1>13 DEF OnCancel
  <2> HIDE DEF id
  <2>3. Kept(Drop(tx[s], id), Drop(rx[s], id), <<>>)
    BY <1>12, <2>1, <2>2
  <2> QED BY Zenon, <2>3
<1>14. ASSUME NEW id \in 1 .. MaxTransfers, CancelTransfer(s, id)
       PROVE  \E t, r, out : Kept(t, r, out)
  <2> DEFINE out == <<[type |-> "FileCancel", id |-> id]>>
  <2>1. id \in Nat
    BY <1>14, <1>7 DEF CancelTransfer, Names, Shape, TxSession
  <2>2. Small(out) /\ AirStep(s, out)
    BY Zenon, <1>14, <1>3, <1>5, <2>1 DEF CancelTransfer
  <2>3. EndBoth(s, id) /\ UNCHANGED <<partial, stale, transfer_id, outcomes, receipts>>
    BY Zenon, <1>14 DEF CancelTransfer
  <2> HIDE DEF out
  <2>4. Kept(Drop(tx[s], id), Drop(rx[s], id), out)
    BY SMTT(30), <1>12, <2>2, <2>3
  <2> QED BY Zenon, <2>4
<1>15. CASE PollTimeouts(s)
  <2> DEFINE t == IF Expired(tx[s]) THEN None ELSE tx[s]
             r == IF Expired(rx[s]) THEN None ELSE rx[s]
             out == IF Expired(rx[s]) /\ rx[s].st = "AwaitingDecision"
                    THEN FileReject(rx[s].id) ELSE <<>>
  <2>1. Small(out) /\ out \in Seq(FxFrame)
    BY Zenon, <1>3, <1>4, <1>7 DEF Expired
  <2>2. SendFrames(s, out) /\ UNCHANGED <<partial, stale, transfer_id, outcomes, receipts>>
    BY <1>15 DEF PollTimeouts
  <2>3. tx' = [tx EXCEPT ![s] = t] /\ rx' = [rx EXCEPT ![s] = r]
    BY Zenon, <1>15, <1>2 DEF PollTimeouts
  <2>7. t \in {tx[s], None} /\ r \in {rx[s], None}
    BY SMTT(30)
  <2>8. AirStep(s, out)
    BY Zenon, <1>5, <2>1, <2>2
  <2> HIDE DEF t, r, out
  <2>9. Kept(t, r, out)
    BY Zenon, <2>1, <2>2, <2>3, <2>7, <2>8
  <2> QED BY Zenon, <2>9
<1>16. CASE Lose(s)
  <2>1. channel' = [channel EXCEPT ![s] = Tail(@)] /\ channel[s] # <<>>
    BY <1>16 DEF Lose
  <2>2. Peer(s) \in Stations /\ Peer(s) # s /\ Tail(channel[s]) \in Seq(FxFrame)
        /\ channel[Peer(s)] \in Seq(FxFrame)
    BY <2>1, PeerIs, ElemsTail DEF Shape
  <2>3. AirStep(s, <<>>)
    BY <2>1, <2>2 DEF AirStep, Shape
  <2>4. Kept(tx[s], rx[s], <<>>)
    BY SMTT(30), <1>16, <1>2, <2>3 DEF Lose
  <2> QED BY Zenon, <2>4
<1>17. CASE Restart(s)
  <2>1. Peer(s) \in Stations /\ channel[Peer(s)] \in Seq(FxFrame)
    BY PeerIs DEF Shape
  <2>2. AirStep(s, <<>>)
    BY <1>17, <2>1 DEF AirStep, Shape, Restart
  <2>3. Kept(None, None, <<>>)
    BY <1>17, <2>2 DEF Restart
  <2> QED BY Zenon, <2>3
<1> QED BY Zenon, <1>9, <1>10, <1>11, <1>13, <1>14, <1>15, <1>16, <1>17 DEF Ending

-----------------------------------------------------------------------------
(* Time passes.                                                            *)

(* A session is the same session one tick later.                           *)
LEMMA OlderIs ==
  /\ \A t \in TxSession : /\ Older(t) \in TxSession /\ Older(t).id = t.id
                          /\ Older(t).file = t.file /\ Believed(Older(t)) = Believed(t)
  /\ \A r \in RxSession : /\ Older(r) \in RxSession /\ Older(r).id = r.id
                          /\ Older(r).file = r.file /\ Older(r).sig = r.sig
                          /\ Older(r).blocks = r.blocks
  /\ Older(None) = None
<1>1. ASSUME NEW t \in TxSession
      PROVE  /\ Older(t) \in TxSession /\ Older(t).id = t.id
             /\ Older(t).file = t.file /\ Believed(Older(t)) = Believed(t)
  <2>1. /\ Older(t) \in TxSession /\ Older(t).id = t.id /\ Older(t).file = t.file
        /\ Older(t).st = t.st /\ Older(t).held = t.held /\ Older(t).block = t.block
    BY DEF Older, TxSession
  <2> QED BY <2>1 DEF Believed
<1>2. ASSUME NEW r \in RxSession
      PROVE  /\ Older(r) \in RxSession /\ Older(r).id = r.id
             /\ Older(r).file = r.file /\ Older(r).sig = r.sig
             /\ Older(r).blocks = r.blocks
  <2>1. Older(r) \in RxSession
    BY DEF Older, RxSession
  <2>2. /\ Older(r).id = r.id /\ Older(r).file = r.file
        /\ Older(r).sig = r.sig /\ Older(r).blocks = r.blocks
    BY DEF Older, RxSession
  <2> QED BY Zenon, <2>1, <2>2
<1> QED BY <1>1, <1>2 DEF Older

(* A tick keeps the shape.                                                 *)
LEMMA TickKeeps ==
  ASSUME Shape, Tick
  PROVE  Shape'
<1>1. tx' = [s \in Stations |-> Older(tx[s])] /\ rx' = [s \in Stations |-> Older(rx[s])]
      /\ UNCHANGED <<partial, stale, channel, transfer_id, received_files>>
  BY DEF Tick, outcomes
<1>2. \A s \in Stations : /\ Older(tx[s]) \in TxSession \cup {None}
                          /\ Older(rx[s]) \in RxSession \cup {None}
                          /\ Older(tx[s]) = None <=> tx[s] = None
                          /\ Older(rx[s]) = None <=> rx[s] = None
  BY OlderIs, NoneAssumption DEF Shape
<1> QED BY <1>1, <1>2 DEF Shape

(* So do all the steps.                                                    *)
LEMMA ShapeStep ==
  ASSUME Shape, [FxNext]_fxVars
  PROVE  Shape'
<1>1. ASSUME NEW s \in Stations, NEW f \in Files, NEW sig \in Signed, SendFile(s, f, sig)
      PROVE  Shape'
  BY <1>1, SendFileKeeps
<1>2. ASSUME NEW s \in Stations, OnTxFrame(s) PROVE Shape'
  BY <1>2, OnTxFrameKeeps
<1>3. ASSUME NEW s \in Stations, NEW d \in Decisions, OnOffer(s, d)
      PROVE  Shape'
  BY <1>3, OnOfferKeeps
<1>4. ASSUME NEW s \in Stations, AcceptOffer(s) PROVE Shape'
  BY <1>4, AcceptOfferKeeps
<1>5. ASSUME NEW s \in Stations, NEW p \in Persists, OnBlock(s, p)
      PROVE  Shape'
  BY <1>5, OnBlockKeeps
<1>6. ASSUME NEW s \in Stations, Ending(s) PROVE Shape'
  BY <1>6, EndingIs
<1>7. CASE Tick
  BY <1>7, TickKeeps
<1>8. CASE AgePartials
  BY Zenon, <1>8 DEF AgePartials, Shape, outcomes
<1>9. CASE UNCHANGED fxVars
  BY <1>9 DEF fxVars, Shape
<1> QED BY <1>1, <1>2, <1>3, <1>4, <1>5, <1>6, <1>7, <1>8, <1>9 DEF FxNext, Ending

(* The state as both daemons start.                                        *)
LEMMA ShapeInit == FxInit => Shape
<1> SUFFICES ASSUME FxInit PROVE Shape
  OBVIOUS
<1>1. NoBlocks \in BlockMap
  BY DEF NoBlocks, BlockMap
<1>2. partial \in [Stations -> Disk]
  BY <1>1 DEF FxInit, Disk
<1> QED BY <1>2 DEF FxInit, Shape

-----------------------------------------------------------------------------
(* Blocks on disk.                                                         *)

Survives ==
  \A s \in Stations, d \in Dirs : \A k \in Blocks :
    partial[s][d][k] # None /\ partial'[s][d][k] = None
      => \/ d \in stale[s]
         \/ received_files'[s] # received_files[s]
         \/ Rewritten(s, d, k)

(* Settling loses only the blocks the caller's copy had lost, or those of  *)
(* the file it has just written.                                           *)
LEMMA SettleSurvives ==
  ASSUME Shape, NEW s \in Stations, NEW r, NEW part \in Disk, Settle(s, r, part),
         \A d \in Dirs, k \in Blocks :
           partial[s][d][k] # None /\ part[d][k] = None => d \in stale[s] \/ Rewritten(s, d, k)
  PROVE  Survives
<1>1. Stored(s, r, part) \/ Verified(s, r, part)
  BY Zenon, SettleIs
<1>2. CASE partial' = [partial EXCEPT ![s] = part]
  BY <1>2 DEF Shape, Survives
<1>3. CASE partial' # [partial EXCEPT ![s] = part]
  <2> DEFINE cleared == [part EXCEPT ![<<r.sig, r.file>>] = NoBlocks]
             row == <<r.file, VerifiedOk(r)>>
  <2>1. /\ partial' = [partial EXCEPT ![s] = cleared]
        /\ received_files' = [received_files EXCEPT ![s] = Append(@, row)]
    BY <1>1, <1>3 DEF Stored, Verified
  <2> HIDE DEF cleared, row
  <2>2. Len(received_files'[s]) = Len(received_files[s]) + 1 /\ Len(received_files[s]) \in Nat
    BY SMTT(30), <2>1 DEF Shape
  <2>3. received_files'[s] # received_files[s]
    BY <2>2
  <2>4. \A q \in Stations : q # s => partial'[q] = partial[q]
    BY <2>1 DEF Shape
  <2> QED BY <2>3, <2>4 DEF Survives
<1> QED BY SMTT(30), <1>2, <1>3

(* A block on disk stays until its file is assembled and written, the TTL  *)
(* purges it or the write of its own replacement fails (persist_block,     *)
(* clear_partials, purge_stale_partials).                                  *)
THEOREM BlocksSurvive == FxSpec => PartialsSurvive
<1>1. ASSUME Shape, [FxNext]_fxVars PROVE [Survives]_fxVars
  <2>1. ASSUME UNCHANGED partial PROVE Survives
    BY Zenon, <2>1 DEF Survives
  <2>2. ASSUME NEW s \in Stations, NEW f \in Files, NEW sig \in Signed, SendFile(s, f, sig)
        PROVE  Survives
    BY Zenon, <2>1, <2>2 DEF SendFile
  <2>3. ASSUME NEW s \in Stations, OnTxFrame(s) PROVE Survives
    BY <2>1, <2>3 DEF OnTxFrame
  <2>4. ASSUME NEW s \in Stations, NEW decision \in Decisions, OnOffer(s, decision)
        PROVE  Survives
    <3> DEFINE f == Head(channel[s])
               r == OfferedRx(s, f)
               part == Purged(s, f.sig)
    <3>1. part \in Disk
      BY Zenon, <2>4, <1>1, OfferTyped DEF OnOffer
    <3>2. \A d \in Dirs, k \in Blocks :
            partial[s][d][k] # None /\ part[d][k] = None => d \in stale[s]
      BY DEF Purged
    <3>3. \/ partial' = [partial EXCEPT ![s] = part]
          \/ Settle(s, begin_receiving(r), part)
      BY <2>4, <1>1, OnOfferIs DEF Store
    <3> HIDE DEF r, part
    <3>4. CASE partial' = [partial EXCEPT ![s] = part]
      BY <1>1, <3>2, <3>4 DEF Shape, Survives
    <3>5. CASE Settle(s, begin_receiving(r), part)
      BY Zenon, <1>1, <3>1, <3>2, <3>5, SettleSurvives
    <3> QED BY SMTT(30), <3>3, <3>4, <3>5
  <2>5. ASSUME NEW s \in Stations, AcceptOffer(s) PROVE Survives
    <3>1. Settle(s, begin_receiving(rx[s]), partial[s]) /\ partial[s] \in Disk
      BY Zenon, <1>1, <2>5, AcceptOfferIs DEF Shape
    <3> QED BY <1>1, <3>1, SettleSurvives
  <2>6. ASSUME NEW s \in Stations, NEW p \in Persists, OnBlock(s, p) PROVE Survives
    <3> DEFINE f == Head(channel[s])
               d == <<rx[s].sig, rx[s].file>>
    <3>1. f.block \in Blocks /\ f.file \in Files /\ d \in Dirs
      BY Zenon, <1>1, <2>6, OnBlockIs
    <3>2. PICK r \in RxSession, part \in Disk :
                 /\ WrittenTo(part, s, d, f)
                 /\ Settle(s, r, part)
      BY Zenon, <1>1, <2>6, OnBlockIs
    <3> HIDE DEF f, d
    <3>3. f.file # None /\ partial[s] \in Disk
      BY Zenon, <1>1, <3>1, NoneAssumption DEF Shape
    <3>4. \A e \in Dirs, k \in Blocks :
            partial[s][e][k] # None /\ part[e][k] = None
              => e \in stale[s] \/ Rewritten(s, e, k)
      <4>1. CASE part = partial[s]
        BY <4>1
      <4>2. ASSUME NEW v, part = [partial[s] EXCEPT ![d] = [@ EXCEPT ![f.block] = v]]
            PROVE  \A e \in Dirs, k \in Blocks :
                     part[e][k] # partial[s][e][k] => e = d /\ k = f.block
        BY <3>1, <3>3, <4>2 DEF Disk, BlockMap
      <4>3. \A e \in Dirs, k \in Blocks :
              part[e][k] # partial[s][e][k] => e = d /\ k = f.block
        BY Zenon, <3>2, <4>1, <4>2 DEF WrittenTo
      <4>4. Rewritten(s, d, f.block)
        BY Zenon, <2>6 DEF Rewritten, OnBlock, f, d
      <4> QED BY Zenon, <4>3, <4>4
    <3> QED BY SMTT(30), <1>1, <3>2, <3>4, SettleSurvives
  <2>7. ASSUME NEW s \in Stations, Ending(s) PROVE Survives
    BY SMTT(30), <1>1, <2>1, <2>7, EndingIs DEF Ends
  <2>8. CASE Tick
    BY <2>1, <2>8 DEF Tick
  <2>9. CASE AgePartials
    BY <2>1, <2>9 DEF AgePartials
  <2> QED BY <1>1, <2>2, <2>3, <2>4, <2>5, <2>6, <2>7, <2>8, <2>9 DEF FxNext, Ending
<1>2. FxSpec => [][Survives]_fxVars
  BY <1>1, ShapeInit, ShapeStep, PTL DEF FxSpec
<1> QED BY <1>2 DEF PartialsSurvive, Survives

-----------------------------------------------------------------------------
(* The order of frames: an offer comes before the blocks of its transfer,  *)
(* and there is one.                                                       *)

Opening == {"FileOffer", "FileData"}

Ordered(q) ==
  \A i, j \in 1 .. Len(q) :
    i < j /\ q[j].type = "FileOffer" /\ q[i].type \in Opening => q[i].id # q[j].id

(* Taking the head off.                                                    *)
LEMMA OrderedTail ==
  ASSUME NEW S, NEW q \in Seq(S), q # <<>>, Ordered(q)
  PROVE  /\ Ordered(Tail(q))
         /\ \A f \in Elems(Tail(q)) :
              f.type = "FileOffer" /\ Head(q).type \in Opening => f.id # Head(q).id
<1>1. /\ Len(q) \in Nat /\ Len(Tail(q)) = Len(q) - 1 /\ Head(q) = q[1]
      /\ \A i \in 1 .. Len(Tail(q)) : Tail(q)[i] = q[i + 1] /\ i + 1 \in 1 .. Len(q)
      /\ 1 \in 1 .. Len(q)
  OBVIOUS
<1>2. ASSUME NEW i \in 1 .. Len(Tail(q)), NEW j \in 1 .. Len(Tail(q)), i < j,
             Tail(q)[j].type = "FileOffer", Tail(q)[i].type \in Opening
      PROVE  Tail(q)[i].id # Tail(q)[j].id
  <2>1. i + 1 < j + 1
    BY <1>2
  <2> QED BY <1>1, <1>2, <2>1 DEF Ordered
<1>3. ASSUME NEW f \in Elems(Tail(q)), f.type = "FileOffer", Head(q).type \in Opening
      PROVE  f.id # Head(q).id
  <2>1. PICK i \in 1 .. Len(Tail(q)) : f = Tail(q)[i]
    BY <1>3 DEF Elems
  <2>2. 1 < i + 1
    BY <2>1
  <2> QED BY <1>1, <1>3, <2>1, <2>2 DEF Ordered
<1> QED BY <1>2, <1>3 DEF Ordered

(* An offer of the transfer the head belongs to is the head.               *)
LEMMA HeadFirst ==
  ASSUME NEW S, NEW q \in Seq(S), q # <<>>, Ordered(q), NEW f \in Elems(q),
         f.type = "FileOffer", Head(q).type \in Opening, f.id = Head(q).id
  PROVE  f = Head(q) /\ f \notin Elems(Tail(q))
<1>1. f \notin Elems(Tail(q))
  BY OrderedTail
<1>2. PICK i \in 1 .. Len(q) : f = q[i]
  BY DEF Elems
<1>3. Len(q) \in Nat /\ Head(q) = q[1] /\ 1 \in 1 .. Len(q)
  OBVIOUS
<1>4. ~(1 < i)
  BY Zenon, <1>2, <1>3 DEF Ordered
<1> QED BY <1>1, <1>2, <1>3, <1>4

(* Appending frames that are no offers, or one new offer.                  *)
LEMMA OrderedCat ==
  ASSUME NEW S, NEW q \in Seq(S), NEW p \in Seq(S), Ordered(q),
         \/ \A x \in Elems(p) : x.type # "FileOffer"
         \/ \E x \in S : p = <<x>> /\ \A y \in Elems(q) : y.type \in Opening => y.id # x.id
  PROVE  Ordered(q \o p)
<1> DEFINE c == q \o p
<1>1. /\ Len(q) \in Nat /\ Len(p) \in Nat /\ Len(c) = Len(q) + Len(p)
      /\ \A i \in 1 .. Len(q) : c[i] = q[i]
      /\ \A i \in 1 .. Len(c) : i > Len(q) => c[i] = p[i - Len(q)] /\ i - Len(q) \in 1 .. Len(p)
  OBVIOUS
<1> HIDE DEF c
<1>2. SUFFICES ASSUME NEW i \in 1 .. Len(c), NEW j \in 1 .. Len(c), i < j,
                      c[j].type = "FileOffer", c[i].type \in Opening
               PROVE  c[i].id # c[j].id
  BY DEF Ordered, c
<1>3. CASE j <= Len(q)
  <2>1. i \in 1 .. Len(q) /\ j \in 1 .. Len(q)
    BY <1>1, <1>2, <1>3
  <2> QED BY <1>1, <1>2, <2>1 DEF Ordered
<1>4. CASE j > Len(q)
  <2>1. c[j] = p[j - Len(q)] /\ j - Len(q) \in 1 .. Len(p) /\ c[j] \in Elems(p)
    BY <1>1, <1>4 DEF Elems
  <2>2. PICK x \in S : p = <<x>> /\ \A y \in Elems(q) : y.type \in Opening => y.id # x.id
    BY <1>2, <2>1
  <2>3. Len(p) = 1 /\ p[1] = x
    BY <2>2
  <2>4. c[j] = x /\ i \in 1 .. Len(q)
    BY <1>1, <1>2, <2>1, <2>3
  <2>5. c[i] \in Elems(q)
    BY Zenon, <1>1, <2>4 DEF Elems
  <2> QED BY <1>2, <2>2, <2>4, <2>5
<1> QED BY <1>1, <1>3, <1>4

AllOrdered == \A s \in Stations : Ordered(channel[s])

(* What is on the air after a handler's step: nothing new but what it      *)
(* sent; an offer at the head that is still there is still the head.       *)
LEMMA AirIs ==
  ASSUME Shape, AllOrdered, NEW s \in Stations, NEW out \in Seq(FxFrame), AirStep(s, out)
  PROVE  /\ Elems(channel'[s]) \subseteq Elems(channel[s])
         /\ \A t \in Stations : Elems(channel'[t]) \subseteq Elems(channel[t]) \cup Elems(out)
         /\ \A t \in Stations : \A f \in Elems(channel[t]) :
              f.type = "FileOffer" /\ f = Head(channel[t]) /\ f \in Elems(channel'[t])
                => f = Head(channel'[t])
<1>1. /\ Peer(s) \in Stations /\ \A t \in Stations : t = s \/ t = Peer(s)
      /\ \A t \in Stations : channel[t] \in Seq(FxFrame) /\ Ordered(channel[t])
  BY PeerIs DEF Shape, AllOrdered
<1>2. /\ channel'[Peer(s)] = channel[Peer(s)] \o out
      /\ \/ channel'[s] = channel[s]
         \/ channel[s] # <<>> /\ channel'[s] = Tail(channel[s])
  BY DEF AirStep
<1>3. Elems(channel'[s]) \subseteq Elems(channel[s])
  BY Zenon, <1>1, <1>2, ElemsTail
<1>4. Elems(channel'[Peer(s)]) = Elems(channel[Peer(s)]) \cup Elems(out)
  BY SMTT(30), <1>1, <1>2, ElemsCat
<1>5. ASSUME NEW f \in Elems(channel[s]), f.type = "FileOffer", f = Head(channel[s]),
             f \in Elems(channel'[s])
      PROVE  f = Head(channel'[s])
  <2>1. CASE channel'[s] = channel[s]
    BY Zenon, <1>5, <2>1
  <2>2. CASE channel[s] # <<>> /\ channel'[s] = Tail(channel[s])
    BY SMTT(30), <1>1, <1>5, <2>2, OrderedTail DEF Opening
  <2> QED BY <1>2, <2>1, <2>2
<1>6. ASSUME NEW f \in Elems(channel[Peer(s)]), f = Head(channel[Peer(s)])
      PROVE  f = Head(channel'[Peer(s)])
  <2> DEFINE q == channel[Peer(s)]
  <2>1. q \in Seq(FxFrame) /\ q # <<>>
    BY <1>1, <1>6 DEF Elems
  <2> HIDE DEF q
  <2>2. Head(q \o out) = Head(q)
    BY <2>1
  <2> QED BY Zenon, <1>2, <1>6, <2>2 DEF q
<1> QED BY Zenon, <1>1, <1>3, <1>4, <1>5, <1>6

(* The order is kept by what handlers send.                                *)
LEMMA AirOrdered ==
  ASSUME Shape, AllOrdered, NEW s \in Stations, NEW out \in Seq(FxFrame), AirStep(s, out),
         \/ \A x \in Elems(out) : x.type # "FileOffer"
         \/ \E x \in FxFrame : /\ out = <<x>>
                               /\ \A y \in Elems(channel[Peer(s)]) :
                                    y.type \in Opening => y.id # x.id
  PROVE  AllOrdered'
<1>1. /\ Peer(s) \in Stations /\ \A t \in Stations : t = s \/ t = Peer(s)
      /\ \A t \in Stations : channel[t] \in Seq(FxFrame) /\ Ordered(channel[t])
  BY PeerIs DEF Shape, AllOrdered
<1>2. /\ channel'[Peer(s)] = channel[Peer(s)] \o out
      /\ \/ channel'[s] = channel[s]
         \/ channel[s] # <<>> /\ channel'[s] = Tail(channel[s])
  BY SMTT(30) DEF AirStep
<1>3. Ordered(channel[Peer(s)] \o out)
  BY Zenon, <1>1, OrderedCat
<1>4. channel[s] # <<>> => Ordered(Tail(channel[s]))
  BY SMTT(30), <1>1, OrderedTail
<1> QED BY ZenonT(30), <1>1, <1>2, <1>3, <1>4 DEF AllOrdered

-----------------------------------------------------------------------------
(* Taking a session further: an offer accepted at once, an operator's      *)
(* acceptance and a block all settle a session and send a frame that says  *)
(* which blocks it has.                                                    *)

Takes(s, r, part, lead) ==
  /\ r \in RxSession /\ part \in Disk /\ lead \in FxFrame
  /\ lead.type \in {"FileAccept", "BlockAck"} /\ lead.id = r.id
  /\ Claims(lead) \subseteq Have(r.blocks)
  /\ Stored(s, r, part) \/ Verified(s, r, part)
  /\ AirStep(s, <<lead>> \o SettledFrames(r))
  /\ UNCHANGED <<tx, transfer_id, receipts>>

(* What it sends.                                                          *)
Sends(s, r, lead, out) ==
  /\ out \in Seq(FxFrame) /\ AirStep(s, out)
  /\ \A x \in Elems(out) : \/ x = lead
                           \/ /\ Have(r.blocks) = Blocks /\ x.id = r.id
                              /\ x.type = "FileComplete" /\ x.ok = VerifiedOk(r)

(* Taking a session further sends nothing else.                            *)
LEMMA TakesSends ==
  ASSUME NEW s, NEW r, NEW part, NEW lead, Takes(s, r, part, lead)
  PROVE  \E out : Sends(s, r, lead, out)
<1> DEFINE g == [type |-> "FileComplete", id |-> r.id, ok |-> VerifiedOk(r)]
<1>1. r \in RxSession /\ lead \in FxFrame /\ AirStep(s, <<lead>> \o SettledFrames(r))
  BY DEF Takes
<1>2. SettledFrames(r) \in Seq(FxFrame) /\ <<lead>> \in Seq(FxFrame) /\ Elems(<<lead>>) = {lead}
  BY Zenon, <1>1, OutTyped, ElemsFew
<1>3. SettledFrames(r) = IF Have(r.blocks) = Blocks THEN <<g>> ELSE <<>>
  BY DEF SettledFrames, Complete
<1>4. g.id = r.id /\ g.type = "FileComplete" /\ g.ok = VerifiedOk(r)
  OBVIOUS
<1> HIDE DEF g
<1>5. Elems(SettledFrames(r)) \subseteq (IF Have(r.blocks) = Blocks THEN {g} ELSE {})
  BY <1>3 DEF Elems
<1>6. /\ <<lead>> \o SettledFrames(r) \in Seq(FxFrame)
      /\ Elems(<<lead>> \o SettledFrames(r)) = {lead} \cup Elems(SettledFrames(r))
  <2> DEFINE p == <<lead>>
             q == SettledFrames(r)
  <2>1. p \in Seq(FxFrame) /\ q \in Seq(FxFrame) /\ Elems(p) = {lead}
    BY <1>2
  <2> HIDE DEF p, q
  <2>2. p \o q \in Seq(FxFrame) /\ Elems(p \o q) = Elems(p) \cup Elems(q)
    BY SMTT(30), <2>1, ElemsCat
  <2> QED BY <2>1, <2>2 DEF p, q
<1>7. \A x \in Elems(<<lead>> \o SettledFrames(r)) : x = lead \/ (Have(r.blocks) = Blocks /\ x = g)
  BY <1>5, <1>6
<1>8. PICK out : out = <<lead>> \o SettledFrames(r)
  BY Zenon
<1>9. /\ out \in Seq(FxFrame) /\ AirStep(s, out)
      /\ \A x \in Elems(out) : x = lead \/ (Have(r.blocks) = Blocks /\ x = g)
  BY Zenon, <1>1, <1>6, <1>7, <1>8
<1> QED BY Zenon, <1>4, <1>9 DEF Sends

(* An accepting session's answer.                                          *)
LEMMA AcceptLeads ==
  ASSUME NEW q \in RxSession
  PROVE  LET r == begin_receiving(q)
             lead == [type |-> "FileAccept", id |-> r.id, have |-> Have(r.blocks)]
         IN  /\ lead \in FxFrame /\ lead.type = "FileAccept" /\ lead.id = r.id
             /\ Claims(lead) \subseteq Have(r.blocks)
             /\ FileAccept(q) \o SettledFrames(q) = <<lead>> \o SettledFrames(r)
<1> DEFINE r == begin_receiving(q)
           lead == [type |-> "FileAccept", id |-> r.id, have |-> Have(r.blocks)]
<1>1. r \in RxSession /\ r.id = q.id /\ r.blocks = q.blocks
      /\ SettledFrames(r) = SettledFrames(q)
  BY Zenon, BeginIs
<1> HIDE DEF r
<1>2. lead \in FxFrame /\ lead.type = "FileAccept" /\ lead.id = r.id
      /\ lead.have = Have(r.blocks)
  BY <1>1 DEF FxFrame, RxSession, Have
<1>3. FileAccept(q) = <<lead>>
  BY <1>1 DEF FileAccept
<1> HIDE DEF lead
<1>4. Claims(lead) \subseteq Have(r.blocks)
  BY SMTT(30), <1>2 DEF Claims
<1> QED BY <1>1, <1>2, <1>3, <1>4 DEF r, lead

(* An offer accepted at once.                                              *)
LEMMA OfferTakes ==
  ASSUME Shape, NEW s \in Stations, NEW decision \in Decisions, decision = "AutoAccept",
         OnOffer(s, decision)
  PROVE  \E r, lead : /\ Takes(s, r, Purged(s, Head(channel[s]).sig), lead)
                      /\ r.id = Head(channel[s]).id /\ r.file = Head(channel[s]).file
                      /\ r.sig = Head(channel[s]).sig
                      /\ r.blocks = Purged(s, r.sig)[<<r.sig, r.file>>]
<1> DEFINE f == Head(channel[s])
           q == OfferedRx(s, f)
           r == begin_receiving(q)
           part == Purged(s, f.sig)
           lead == [type |-> "FileAccept", id |-> r.id, have |-> Have(r.blocks)]
<1>1. q \in RxSession /\ part \in Disk
  BY Zenon, OfferTyped DEF OnOffer
<1>2. /\ r \in RxSession /\ r.id = q.id /\ r.file = q.file /\ r.sig = q.sig
      /\ r.blocks = q.blocks
  BY SMTT(30), <1>1, BeginIs
<1>3. /\ Settle(s, r, part)
      /\ AirStep(s, FileAccept(q) \o SettledFrames(q))
  BY Zenon, OnOfferIs
<1>4. /\ lead \in FxFrame /\ lead.type = "FileAccept" /\ lead.id = r.id
      /\ Claims(lead) \subseteq Have(r.blocks)
      /\ FileAccept(q) \o SettledFrames(q) = <<lead>> \o SettledFrames(r)
  BY SMTT(30), <1>1, AcceptLeads
<1>5. q.id = f.id /\ q.file = f.file /\ q.sig = f.sig /\ q.blocks = part[<<f.sig, f.file>>]
  BY Zenon DEF OfferedRx
<1>6. UNCHANGED <<tx, transfer_id, receipts>>
  BY Zenon DEF OnOffer
<1> HIDE DEF f, q, r, part, lead
<1>7. Stored(s, r, part) \/ Verified(s, r, part)
  BY SMTT(30), <1>3, SettleIs
<1>8. Takes(s, r, part, lead)
  BY Zenon, <1>1, <1>2, <1>3, <1>4, <1>6, <1>7 DEF Takes
<1> QED BY Zenon, <1>2, <1>5, <1>8 DEF f, part

(* The operator's acceptance.                                              *)
LEMMA AcceptTakes ==
  ASSUME Shape, NEW s \in Stations, AcceptOffer(s)
  PROVE  /\ rx[s] # None
         /\ \E r, lead : /\ Takes(s, r, partial[s], lead)
                         /\ r.id = rx[s].id /\ r.file = rx[s].file /\ r.sig = rx[s].sig
                         /\ r.blocks = rx[s].blocks
         /\ UNCHANGED stale
<1> DEFINE q == rx[s]
           r == begin_receiving(q)
           lead == [type |-> "FileAccept", id |-> r.id, have |-> Have(r.blocks)]
<1>1. /\ q # None /\ q \in RxSession
      /\ Settle(s, r, partial[s])
      /\ AirStep(s, FileAccept(q) \o SettledFrames(q))
      /\ UNCHANGED <<tx, stale, transfer_id, receipts>>
  BY Zenon, AcceptOfferIs
<1>2. /\ r \in RxSession /\ r.id = q.id /\ r.file = q.file /\ r.sig = q.sig
      /\ r.blocks = q.blocks
  BY Zenon, <1>1, BeginIs
<1>3. /\ lead \in FxFrame /\ lead.type = "FileAccept" /\ lead.id = r.id
      /\ Claims(lead) \subseteq Have(r.blocks)
      /\ FileAccept(q) \o SettledFrames(q) = <<lead>> \o SettledFrames(r)
  BY Zenon, <1>1, AcceptLeads
<1>4. partial[s] \in Disk
  BY SMTT(30) DEF Shape
<1> HIDE DEF q, r, lead
<1>5. Stored(s, r, partial[s]) \/ Verified(s, r, partial[s])
  BY Zenon, <1>1, SettleIs
<1>6. Takes(s, r, partial[s], lead)
  BY Zenon, <1>1, <1>2, <1>3, <1>4, <1>5 DEF Takes
<1> QED BY Zenon, <1>1, <1>2, <1>6 DEF q

(* A block.                                                                *)
LEMMA BlockTakes ==
  ASSUME Shape, NEW s \in Stations, NEW outcome \in Persists, OnBlock(s, outcome)
  PROVE  LET f == Head(channel[s])
             d == <<rx[s].sig, rx[s].file>>
         IN  /\ f \in Elems(channel[s]) /\ f.type = "FileData" /\ f.block \in Blocks
             /\ f.file \in Files /\ f.id = rx[s].id /\ rx[s] # None /\ d \in Dirs
             /\ \E r, part, lead :
                  /\ Takes(s, r, part, lead)
                  /\ r.id = rx[s].id /\ r.file = rx[s].file /\ r.sig = rx[s].sig
                  /\ r.blocks = [rx[s].blocks EXCEPT ![f.block] = f.file]
                  /\ WrittenTo(part, s, d, f)
<1> DEFINE f == Head(channel[s])
           d == <<rx[s].sig, rx[s].file>>
<1>1. /\ f \in FxFrame /\ f \in Elems(channel[s]) /\ f.type = "FileData"
      /\ f.block \in Blocks /\ f.file \in Files /\ f.id = rx[s].id
      /\ rx[s] # None /\ rx[s] \in RxSession /\ d \in Dirs
  BY Zenon, OnBlockIs
<1>2. PICK r \in RxSession, part \in Disk :
           /\ r.id = f.id /\ r.file = rx[s].file /\ r.sig = rx[s].sig
           /\ r.blocks = [rx[s].blocks EXCEPT ![f.block] = f.file]
           /\ WrittenTo(part, s, d, f)
           /\ Settle(s, r, part)
           /\ AirStep(s, <<BlockAckOf(f)>> \o SettledFrames(r))
  BY Zenon, OnBlockIs
<1> DEFINE lead == BlockAckOf(f)
<1>3. UNCHANGED <<tx, transfer_id, receipts>>
  BY Zenon DEF OnBlock
<1> HIDE DEF f, d
<1>4. lead \in FxFrame /\ lead.type = "BlockAck" /\ lead.id = r.id /\ lead.block = f.block
  BY Zenon, <1>1, <1>2, FrameIs DEF BlockAckOf, FxFrame
<1>5. f.block \in Have(r.blocks)
  BY Zenon, <1>1, <1>2, NoneAssumption DEF Have, RxSession
<1>6. Claims(lead) \subseteq Have(r.blocks)
  BY SMTT(30), <1>4, <1>5 DEF Claims
<1>7. Stored(s, r, part) \/ Verified(s, r, part)
  BY Zenon, <1>2, SettleIs
<1> HIDE DEF lead
<1>8. Takes(s, r, part, lead)
  BY Zenon, <1>2, <1>3, <1>4, <1>6, <1>7 DEF Takes, lead
<1> QED BY Zenon, <1>1, <1>2, <1>8 DEF f, d

=============================================================================
