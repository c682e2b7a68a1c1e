------------------------------ MODULE QsyProofs ------------------------------
(***************************************************************************)
(* Proofs about Qsy: the exchange implements QsyAgreement, and stations    *)
(* that are apart have left a decision unfollowed, for any candidates, any *)
(* number of negotiations, and any pattern of losses, overwritten sessions *)
(* and expiries.                                                           *)
(***************************************************************************)
EXTENDS Qsy, TLAPS

(* Two stations: each one's peer is the other.                             *)
LEMMA PeerIs ==
  ASSUME NEW s \in Stations
  PROVE  /\ Peer(s) \in Stations /\ Peer(s) # s /\ Peer(Peer(s)) = s
         /\ \A t \in Stations : t # s => t = Peer(s)
<1>1. PICK x \in Stations : x # s /\ Stations = {s, x}
  BY PairAssumption
<1>2. Peer(s) = x /\ Peer(x) = s
  BY <1>1 DEF Peer
<1> QED BY <1>1, <1>2

(* The frames of a queue.                                                  *)
Elems(q) == {q[i] : i \in 1 .. Len(q)}

(* Taking the head off and appending.                                      *)
LEMMA ElemsAre ==
  ASSUME NEW S, NEW p \in Seq(S), NEW q \in Seq(S)
  PROVE  /\ p # <<>> => /\ Tail(p) \in Seq(S) /\ Elems(Tail(p)) \subseteq Elems(p)
                        /\ Head(p) \in Elems(p)
         /\ p \o q \in Seq(S) /\ Elems(p \o q) \subseteq Elems(p) \cup Elems(q)
         /\ Elems(p) \subseteq S
<1>1. p # <<>> => /\ Tail(p) \in Seq(S) /\ Elems(Tail(p)) \subseteq Elems(p)
                  /\ Head(p) \in Elems(p)
  BY DEF Elems
<1>2. p \o q \in Seq(S) /\ Len(p \o q) = Len(p) + Len(q)
  OBVIOUS
<1>3. Elems(p \o q) \subseteq Elems(p) \cup Elems(q)
  BY <1>2 DEF Elems
<1> QED BY <1>1, <1>2, <1>3 DEF Elems

(* No token is requested twice.                                            *)
Once(q) ==
  \A i, j \in 1 .. Len(q) :
    i < j /\ q[i].type = "Req" /\ q[j].type = "Req" => q[i].token # q[j].token

(* Taking the head off.                                                    *)
LEMMA OnceTail ==
  ASSUME NEW S, NEW q \in Seq(S), q # <<>>, Once(q)
  PROVE  /\ Once(Tail(q))
         /\ \A m \in Elems(Tail(q)) :
              m.type = "Req" /\ Head(q).type = "Req" => m.token # Head(q).token
<1>1. /\ Len(q) \in Nat /\ Len(Tail(q)) = Len(q) - 1 /\ Head(q) = q[1]
      /\ \A i \in 1 .. Len(Tail(q)) : Tail(q)[i] = q[i + 1] /\ i + 1 \in 1 .. Len(q)
      /\ 1 \in 1 .. Len(q)
  OBVIOUS
<1>2. ASSUME NEW i \in 1 .. Len(Tail(q)), NEW j \in 1 .. Len(Tail(q)), i < j,
             Tail(q)[i].type = "Req", Tail(q)[j].type = "Req"
      PROVE  Tail(q)[i].token # Tail(q)[j].token
  <2>1. i + 1 < j + 1
    BY <1>2
  <2> QED BY <1>1, <1>2, <2>1 DEF Once
<1>3. ASSUME NEW m \in Elems(Tail(q)), m.type = "Req", Head(q).type = "Req"
      PROVE  m.token # Head(q).token
  <2>1. PICK i \in 1 .. Len(Tail(q)) : m = Tail(q)[i]
    BY <1>3 DEF Elems
  <2>2. 1 < i + 1
    BY <2>1
  <2> QED BY <1>1, <1>3, <2>1, <2>2 DEF Once
<1> QED BY <1>2, <1>3 DEF Once

(* Appending frames that request nothing, or something new.                *)
LEMMA OnceCat ==
  ASSUME NEW S, NEW p \in Seq(S), NEW q \in Seq(S), Once(p), Once(q),
         \A m \in Elems(p), n \in Elems(q) :
           m.type = "Req" /\ n.type = "Req" => m.token # n.token
  PROVE  Once(p \o q)
<1> DEFINE c == p \o q
<1>1. /\ Len(p) \in Nat /\ Len(q) \in Nat /\ Len(c) = Len(p) + Len(q)
      /\ \A i \in 1 .. Len(p) : c[i] = p[i]
      /\ \A i \in 1 .. Len(c) : i > Len(p) => c[i] = q[i - Len(p)] /\ i - Len(p) \in 1 .. Len(q)
  OBVIOUS
<1> HIDE DEF c
<1>2. SUFFICES ASSUME NEW i \in 1 .. Len(c), NEW j \in 1 .. Len(c), i < j,
                      c[i].type = "Req", c[j].type = "Req"
               PROVE  c[i].token # c[j].token
  BY DEF Once, c
<1>3. CASE j <= Len(p)
  <2>1. i \in 1 .. Len(p) /\ j \in 1 .. Len(p)
    BY <1>1, <1>2, <1>3
  <2> QED BY <1>1, <1>2, <2>1 DEF Once
<1>4. CASE i > Len(p)
  <2>1. j > Len(p) /\ i - Len(p) < j - Len(p)
    BY <1>1, <1>2, <1>4
  <2>2. /\ c[i] = q[i - Len(p)] /\ i - Len(p) \in 1 .. Len(q)
        /\ c[j] = q[j - Len(p)] /\ j - Len(p) \in 1 .. Len(q)
    BY Zenon, <1>1, <1>4, <2>1
  <2> QED BY Zenon, <1>2, <2>1, <2>2 DEF Once
<1>5. CASE i <= Len(p) /\ j > Len(p)
  <2>1. i \in 1 .. Len(p)
    BY <1>1, <1>5
  <2>2. c[i] \in Elems(p) /\ c[j] \in Elems(q)
    BY <1>1, <1>5, <2>1 DEF Elems
  <2> QED BY <1>2, <2>2
<1> QED BY <1>1, <1>3, <1>4, <1>5

-----------------------------------------------------------------------------
(* The shape of the state, and what the steps do to it.                    *)

QShape ==
  /\ qsy_session \in [Stations -> QsySession \cup {None}]
  /\ inbox \in [Stations -> Seq(QsyFrame)]
  /\ freq \in [Stations -> Freqs]
  /\ opened \in 0 .. MaxOpened
  /\ opener \in [Tokens -> Stations \cup {None}]
  /\ tuned \in [Tokens -> [Stations -> Freqs \cup {None}]]

Is(s, st, t) == qsy_session[s] # None /\ qsy_session[s].st = st /\ qsy_session[s].token = t

(* Nobody has moved for t; a vote on t is on its way to s.                 *)
Unmoved(t) == \A r \in Stations : tuned[t][r] = None
Answered(s, t) == \E m \in Elems(inbox[s]) : m.type = "Vote" /\ m.token = t

(* s sends out, and takes a frame or none.                                 *)
Air(s, out) ==
  /\ out \in Seq(QsyFrame)
  /\ inbox' \in [Stations -> Seq(QsyFrame)]
  /\ inbox'[Peer(s)] = inbox[Peer(s)] \o out
  /\ inbox'[s] = inbox[s] \/ (inbox[s] # <<>> /\ inbox'[s] = Tail(inbox[s]))

(* s has session x and has sent out.                                       *)
Acts(s, x, out) ==
  /\ x \in QsySession \cup {None} /\ Air(s, out)
  /\ qsy_session' = [qsy_session EXCEPT ![s] = x]
  /\ freq' \in [Stations -> Freqs]
  /\ rig_fails' = rig_fails

Stays == ~rig_fails => freq' = freq
Goes(s, f) == ~rig_fails => freq' = [freq EXCEPT ![s] = f]

Opens(s, x, out) ==
  /\ Acts(s, x, out) /\ Stays
  /\ opened + 1 \in Tokens /\ opened' = opened + 1
  /\ x.st = "Listed" /\ x.token = opened + 1
  /\ opener' = [opener EXCEPT ![opened + 1] = s]
  /\ Once(out)
  /\ \A m \in Elems(out) : m.type \in {"Req", "List"} /\ m.token = opened + 1
  /\ UNCHANGED tuned

Rests(s, x, out) ==
  /\ Acts(s, x, out) /\ Stays
  /\ x = None \/ x = qsy_session[s] \/ x.st = "Idle"
  /\ \A m \in Elems(out) : m.type = "Reject" /\ \E q \in Elems(inbox[s]) : m.token = q.token
  /\ UNCHANGED <<opened, opener, tuned>>

Attends(s, x, m) ==
  /\ Acts(s, x, <<>>) /\ Stays
  /\ inbox[s] # <<>> /\ m = Head(inbox[s]) /\ inbox'[s] = Tail(inbox[s])
  /\ m.type = "Req"
  /\ x = None \/ (x.st = "WaitingForList" /\ x.token = m.token)
  /\ UNCHANGED <<opened, opener, tuned>>

Votes(s, x, out, t) ==
  /\ Acts(s, x, out) /\ Stays
  /\ Is(s, "WaitingForList", t)
  /\ x = None \/ (x.st = "Voted" /\ x.token = t)
  /\ \A m \in Elems(out) : m.type = "Vote" /\ m.token = t
  /\ UNCHANGED <<opened, opener, tuned>>

Decides(s, out, t, f) ==
  /\ Acts(s, None, out) /\ Goes(s, f)
  /\ Is(s, "Listed", t) /\ Answered(s, t) /\ f \in Freqs
  /\ tuned' = [tuned EXCEPT ![t] = [@ EXCEPT ![s] = f]]
  /\ \A m \in Elems(out) : m.type = "Ack" /\ m.token = t /\ m.freq = f
  /\ UNCHANGED <<opened, opener>>

Follows(s, m) ==
  /\ Acts(s, None, <<>>) /\ Goes(s, m.freq)
  /\ m \in Elems(inbox[s]) /\ m.type = "Ack" /\ Is(s, "Voted", m.token)
  /\ tuned' = [tuned EXCEPT ![m.token] = [@ EXCEPT ![s] = m.freq]]
  /\ UNCHANGED <<opened, opener>>

(* Frames and sessions have their types.                                   *)
LEMMA FramesTyped ==
  ASSUME NEW t \in Tokens, NEW v \in Seq(Freqs), NEW f \in Freqs
  PROVE  /\ Req(t, Len(v)) \in QsyFrame /\ List(t, v) \in QsyFrame
         /\ Vote(t, v) \in QsyFrame /\ Ack(t, f) \in QsyFrame /\ Reject(t) \in QsyFrame
         /\ Listed(t, v) \in QsySession /\ Voted(t) \in QsySession
         /\ \A n \in Nat : WaitingForList(t, n) \in QsySession
<1>1. Len(v) \in Nat /\ <<>> \in Seq(Freqs)
  OBVIOUS
<1>2. Req(t, Len(v)) \in QsyFrame /\ List(t, v) \in QsyFrame
  BY <1>1 DEF Req, List, QsyFrame
<1>3. Vote(t, v) \in QsyFrame /\ Ack(t, f) \in QsyFrame /\ Reject(t) \in QsyFrame
  BY <1>1 DEF Vote, Ack, Reject, QsyFrame
<1>4. Listed(t, v) \in QsySession /\ Voted(t) \in QsySession
  BY <1>1 DEF Listed, Voted, QsySession
<1>5. \A n \in Nat : WaitingForList(t, n) \in QsySession
  BY <1>1 DEF WaitingForList, QsySession
<1> QED BY <1>2, <1>3, <1>4, <1>5

(* A transmission is heard or not.                                         *)
LEMMA HeardIs ==
  ASSUME NEW s, NEW frame \in QsyFrame, NEW at, NEW h \in Heard(s, frame, at)
  PROVE  h \in Seq(QsyFrame) /\ Elems(h) \subseteq {frame} /\ Once(h)
<1>1. h \in {<<>>, <<frame>>}
  BY DEF Heard
<1>2. CASE h = <<>>
  BY <1>2 DEF Elems, Once
<1>3. CASE h = <<frame>>
  BY <1>3 DEF Elems, Once
<1> QED BY <1>1, <1>2, <1>3

(* The handlers' two ways to end: silent, or with an answer.               *)
LEMMA SilentIs ==
  ASSUME QShape, NEW s \in Stations, inbox[s] # <<>>, Silent(s)
  PROVE  Air(s, <<>>) /\ Elems(<<>>) = {} /\ inbox'[s] = Tail(inbox[s])
<1>1. Peer(s) \in Stations /\ Peer(s) # s /\ inbox[Peer(s)] \in Seq(QsyFrame)
  BY PeerIs DEF QShape
<1>2. Tail(inbox[s]) \in Seq(QsyFrame)
  BY DEF QShape
<1>3. inbox' \in [Stations -> Seq(QsyFrame)] /\ inbox'[Peer(s)] = inbox[Peer(s)]
      /\ inbox'[s] = Tail(inbox[s])
  BY <1>1, <1>2 DEF Silent, QShape
<1>4. Elems(<<>>) = {} /\ <<>> \in Seq(QsyFrame)
  BY DEF Elems
<1> QED BY <1>1, <1>3, <1>4 DEF Air

(* An answer, if it is heard.                                              *)
LEMMA AnswerIs ==
  ASSUME QShape, NEW s \in Stations, inbox[s] # <<>>, NEW reply \in QsyFrame, NEW at,
         Answer(s, reply, at)
  PROVE  \E out : Air(s, out) /\ Elems(out) \subseteq {reply}
<1>1. Peer(s) \in Stations /\ Peer(s) # s /\ inbox[Peer(s)] \in Seq(QsyFrame)
  BY PeerIs DEF QShape
<1>2. Tail(inbox[s]) \in Seq(QsyFrame)
  BY DEF QShape
<1>3. PICK h \in Heard(s, reply, at) :
        inbox' = [inbox EXCEPT ![s] = Tail(@), ![Peer(s)] = @ \o h]
  BY Zenon DEF Answer
<1>4. h \in Seq(QsyFrame) /\ Elems(h) \subseteq {reply}
  BY HeardIs
<1>5. inbox[Peer(s)] \o h \in Seq(QsyFrame)
  BY <1>1, <1>4
<1>6. inbox' \in [Stations -> Seq(QsyFrame)] /\ inbox'[Peer(s)] = inbox[Peer(s)] \o h
      /\ inbox'[s] = Tail(inbox[s])
  BY Zenon, <1>1, <1>2, <1>3, <1>5 DEF QShape
<1> QED BY Zenon, <1>4, <1>6 DEF Air

(* The session a handler keeps is dropped if it is old.                    *)
LEMMA KeepIs ==
  ASSUME QShape, NEW s \in Stations, NEW y \in QsySession, Keep(s, y)
  PROVE  \E x \in {y, None} : qsy_session' = [qsy_session EXCEPT ![s] = x]
BY Zenon DEF Keep

(* Where scans and moves leave the rig.                                    *)
LEMMA RigIs ==
  ASSUME QShape, NEW s \in Stations
  PROVE  /\ \A v \in Seq(Freqs) : \A at \in AfterScan(s, v) :
              at \in Freqs /\ (~rig_fails => at = freq[s])
         /\ \A f \in Freqs : \A at \in Retune(s, f) :
              at \in Freqs /\ (~rig_fails => at = f)
<1>1. freq[s] \in Freqs
  BY DEF QShape
<1>2. \A v \in Seq(Freqs) : Range(v) \subseteq Freqs
  BY DEF Range
<1> QED BY <1>1, <1>2 DEF AfterScan, Retune

(* Opening a negotiation.                                                  *)
LEMMA InitiateIs ==
  ASSUME QShape, NEW s \in Stations, Initiate(s)
  PROVE  \E x, out : Opens(s, x, out)
<1> DEFINE t == opened + 1
           v == Candidates[s]
           x == Listed(t, v)
<1>1. t \in Tokens /\ opened \in Nat /\ v \in Seq(Freqs) /\ Len(v) \in Nat
  BY MaxOpenedAssumption, QsyAssumption DEF QShape, Tokens, Initiate
<1>2. PICK at \in AfterScan(s, v) :
        \E r \in Heard(s, Req(t, Len(v)), freq[s]), l \in Heard(s, List(t, v), at) :
          /\ inbox' = [inbox EXCEPT ![Peer(s)] = @ \o r \o l]
          /\ freq' = [freq EXCEPT ![s] = at]
  BY Zenon DEF Initiate
<1>3. PICK r \in Heard(s, Req(t, Len(v)), freq[s]), l \in Heard(s, List(t, v), at) :
          /\ inbox' = [inbox EXCEPT ![Peer(s)] = @ \o r \o l]
          /\ freq' = [freq EXCEPT ![s] = at]
  BY Zenon, <1>2
<1>4. Home \in Freqs
  BY DEF Freqs
<1>5. /\ Req(t, Len(v)) \in QsyFrame /\ List(t, v) \in QsyFrame /\ x \in QsySession
      /\ x.st = "Listed" /\ x.token = t
  BY <1>1, <1>4, FramesTyped DEF Listed
<1>6. /\ r \in Seq(QsyFrame) /\ Elems(r) \subseteq {Req(t, Len(v))} /\ Once(r)
      /\ l \in Seq(QsyFrame) /\ Elems(l) \subseteq {List(t, v)} /\ Once(l)
  BY <1>5, HeardIs
<1>7. /\ Req(t, Len(v)).type = "Req" /\ Req(t, Len(v)).token = t
      /\ List(t, v).type = "List" /\ List(t, v).token = t
  BY DEF Req, List
<1> DEFINE out == r \o l
<1>8. /\ out \in Seq(QsyFrame) /\ Once(out)
      /\ \A m \in Elems(out) : m.type \in {"Req", "List"} /\ m.token = t
  BY <1>6, <1>7, ElemsAre, OnceCat
<1>9. /\ Peer(s) \in Stations /\ Peer(s) # s
      /\ inbox[Peer(s)] \in Seq(QsyFrame)
  BY PeerIs DEF QShape
<1>10. inbox' = [inbox EXCEPT ![Peer(s)] = @ \o out]
  <2> DEFINE q == inbox[Peer(s)]
  <2>1. q \in Seq(QsyFrame) /\ r \in Seq(QsyFrame) /\ l \in Seq(QsyFrame)
    BY <1>6, <1>9
  <2> HIDE DEF q
  <2>2. (q \o r) \o l = q \o (r \o l)
    BY <2>1
  <2> QED BY <1>3, <2>2 DEF q
<1> HIDE DEF out
<1>11. Air(s, out)
  <2>1. inbox[Peer(s)] \o out \in Seq(QsyFrame)
    BY <1>8, <1>9
  <2> QED BY <1>8, <1>9, <1>10, <2>1 DEF Air, QShape
<1>12. freq' \in [Stations -> Freqs] /\ Stays
  BY <1>1, <1>2, <1>3, RigIs DEF Stays, QShape
<1>13. /\ qsy_session' = [qsy_session EXCEPT ![s] = x]
       /\ opened' = t /\ opener' = [opener EXCEPT ![t] = s]
       /\ UNCHANGED <<rig_fails, tuned>>
  BY DEF Initiate
<1> HIDE DEF x
<1>14. Opens(s, x, out)
  BY <1>1, <1>5, <1>8, <1>11, <1>12, <1>13 DEF Opens, Acts
<1> QED BY <1>14

(* Steps that neither open, attend, vote, decide nor follow.               *)
Pauses(s) ==
  \/ Expire(s) \/ Clock(s)
  \/ /\ inbox[s] # <<>>
     /\ LET m == Head(inbox[s])
        IN  OnReject(s, m) \/ OnReqDeclined(s, m) \/ OnOther(s, m)
     /\ UNCHANGED <<rig_fails, opened, opener>>

(* They leave the session as it is, drop it, or find it idle.              *)
LEMMA PausesIs ==
  ASSUME QShape, NEW s \in Stations, Pauses(s)
  PROVE  \E x, out : Rests(s, x, out)
<1> DEFINE m == Head(inbox[s])
<1>1. /\ Peer(s) \in Stations /\ inbox[Peer(s)] \in Seq(QsyFrame)
      /\ qsy_session[s] \in QsySession \cup {None} /\ freq[s] \in Freqs
      /\ freq \in [Stations -> Freqs]
  BY PeerIs DEF QShape
<1>2. inbox[s] # <<>> => m \in QsyFrame /\ m \in Elems(inbox[s]) /\ m.token \in Tokens
  <2> HAVE inbox[s] # <<>>
  <2>1. m \in Elems(inbox[s]) /\ Elems(inbox[s]) \subseteq QsyFrame
    BY ElemsAre DEF QShape
  <2> QED BY <2>1 DEF QsyFrame
<1>3. Elems(<<>>) = {} /\ <<>> \in Seq(QsyFrame) /\ Idle \in QsySession /\ Idle.st = "Idle"
  BY DEF Elems, Idle, QsySession
<1>4. ASSUME UNCHANGED inbox PROVE Air(s, <<>>)
  BY <1>1, <1>3, <1>4 DEF Air, QShape
<1>5. CASE Expire(s)
  <2>1. Rests(s, None, <<>>)
    BY <1>1, <1>3, <1>4, <1>5 DEF Expire, Finish, Rests, Acts, Stays, QShape
  <2> QED BY <2>1
<1>6. CASE Clock(s)
  <2>1. qsy_session' = [qsy_session EXCEPT ![s] = qsy_session[s]]
    BY <1>6 DEF Clock, QShape
  <2>2. Rests(s, qsy_session[s], <<>>)
    BY Zenon, <1>1, <1>3, <1>4, <1>6, <2>1 DEF Clock, Rests, Acts, Stays
  <2> QED BY <2>2
<1>7. ASSUME inbox[s] # <<>>, UNCHANGED <<rig_fails, opened, opener>>, OnReject(s, m)
      PROVE  \E x, out : Rests(s, x, out)
  <2>1. Air(s, <<>>)
    BY <1>7, SilentIs DEF OnReject
  <2>2. Rests(s, None, <<>>)
    BY <1>1, <1>3, <1>7, <2>1 DEF OnReject, Finish, Rests, Acts, Stays
  <2> QED BY <2>2
<1>8. ASSUME inbox[s] # <<>>, UNCHANGED <<rig_fails, opened, opener>>, OnReqDeclined(s, m)
      PROVE  \E x, out : Rests(s, x, out)
  <2>1. Reject(m.token) \in QsyFrame /\ Reject(m.token).type = "Reject"
        /\ Reject(m.token).token = m.token
    BY <1>2, <1>8 DEF Reject, QsyFrame
  <2>2. PICK out : Air(s, out) /\ Elems(out) \subseteq {Reject(m.token)}
    BY ZenonT(30), <1>8, <2>1, AnswerIs DEF OnReqDeclined
  <2>3. Rests(s, None, out)
    BY <1>1, <1>2, <1>8, <2>1, <2>2 DEF OnReqDeclined, Finish, Rests, Acts, Stays
  <2> QED BY <2>3
<1>9. ASSUME inbox[s] # <<>>, UNCHANGED <<rig_fails, opened, opener>>, OnOther(s, m)
      PROVE  \E x, out : Rests(s, x, out)
  <2>1. Current(s) \in QsySession /\ (Current(s) = qsy_session[s] \/ Current(s) = Idle)
    BY <1>1, <1>3 DEF Current
  <2>2. PICK x \in {Current(s), None} : qsy_session' = [qsy_session EXCEPT ![s] = x]
    BY <1>9, <2>1, KeepIs DEF OnOther
  <2>3. Air(s, <<>>)
    BY <1>9, SilentIs DEF OnOther
  <2>4. Rests(s, x, <<>>)
    BY <1>1, <1>3, <1>9, <2>1, <2>2, <2>3 DEF OnOther, Rests, Acts, Stays
  <2> QED BY <2>4
<1> QED BY <1>5, <1>6, <1>7, <1>8, <1>9 DEF Pauses

(* A request attended to.                                                  *)
LEMMA OnReqIs ==
  ASSUME QShape, NEW s \in Stations, inbox[s] # <<>>, OnReq(s, Head(inbox[s])),
         UNCHANGED <<rig_fails, opened, opener>>
  PROVE  \E x : Attends(s, x, Head(inbox[s]))
<1> DEFINE m == Head(inbox[s])
           y == WaitingForList(m.token, m.n)
<1>1. m \in QsyFrame
  BY ElemsAre DEF QShape
<1>2. y \in QsySession /\ y.st = "WaitingForList" /\ y.token = m.token
  BY <1>1 DEF QsyFrame, QsySession, WaitingForList
<1>3. Keep(s, y) /\ Silent(s) /\ UNCHANGED <<freq, tuned>> /\ m.type = "Req"
  BY DEF OnReq, AppliesReq
<1> HIDE DEF m, y
<1>4. PICK x \in {y, None} : qsy_session' = [qsy_session EXCEPT ![s] = x]
  BY <1>2, <1>3, KeepIs
<1>5. Air(s, <<>>) /\ inbox'[s] = Tail(inbox[s]) /\ freq \in [Stations -> Freqs]
  BY <1>3, SilentIs DEF QShape
<1>6. Attends(s, x, m)
  BY <1>2, <1>3, <1>4, <1>5 DEF Attends, Acts, Stays, m
<1> QED BY <1>6 DEF m

(* A vote.                                                                 *)
LEMMA OnListIs ==
  ASSUME QShape, NEW s \in Stations, inbox[s] # <<>>, OnList(s, Head(inbox[s])),
         UNCHANGED <<rig_fails, opened, opener>>
  PROVE  \E x, out, t : t \in Tokens /\ Votes(s, x, out, t)
<1> DEFINE m == Head(inbox[s])
           y == Voted(m.token)
<1>1. m \in QsyFrame
  BY ElemsAre DEF QShape
<1>2. m.token \in Tokens /\ m.votes \in Seq(Freqs)
  BY <1>1 DEF QsyFrame
<1>3. /\ y \in QsySession /\ y.st = "Voted" /\ y.token = m.token
      /\ Vote(m.token, m.votes) \in QsyFrame /\ Vote(m.token, m.votes).type = "Vote"
      /\ Vote(m.token, m.votes).token = m.token
  BY <1>2 DEF QsyFrame, QsySession, Voted, Vote
<1>4. PICK at \in AfterScan(s, m.votes) :
        freq' = [freq EXCEPT ![s] = at] /\ Answer(s, Vote(m.token, m.votes), at)
  BY Zenon DEF OnList
<1>5. PICK out : Air(s, out) /\ Elems(out) \subseteq {Vote(m.token, m.votes)}
  BY Zenon, <1>3, <1>4, AnswerIs
<1>6. freq' \in [Stations -> Freqs] /\ Stays
  BY SMTT(30), <1>2, <1>4, RigIs DEF Stays, QShape
<1>7. Keep(s, y) /\ UNCHANGED tuned /\ Is(s, "WaitingForList", m.token)
  BY DEF OnList, AppliesList, Current, Idle, Is
<1> HIDE DEF y
<1>8. PICK x \in {y, None} : qsy_session' = [qsy_session EXCEPT ![s] = x]
  BY <1>3, <1>7, KeepIs
<1>9. Votes(s, x, out, m.token)
  BY <1>3, <1>5, <1>6, <1>7, <1>8 DEF Votes, Acts
<1> QED BY <1>2, <1>9

(* The first common candidate is one of the candidates.                    *)
LEMMA PickIs ==
  ASSUME NEW my \in Seq(Freqs), NEW partner
  PROVE  pick_best_freq(my, partner) \subseteq Freqs
BY DEF pick_best_freq, Common

(* The decision.                                                           *)
LEMMA OnVoteIs ==
  ASSUME QShape, NEW s \in Stations, inbox[s] # <<>>, OnVote(s, Head(inbox[s])),
         UNCHANGED <<rig_fails, opened, opener>>
  PROVE  \E out, t, f : t \in Tokens /\ Decides(s, out, t, f)
<1> DEFINE m == Head(inbox[s])
           t == m.token
<1>1. m \in QsyFrame /\ m \in Elems(inbox[s])
  BY ElemsAre DEF QShape
<1>2. t \in Tokens /\ Answered(s, t)
  BY <1>1 DEF QsyFrame, Answered, OnVote, AppliesVote
<1>3. Is(s, "Listed", t) /\ qsy_session[s] \in QsySession /\ Current(s) = qsy_session[s]
  BY SMTT(30) DEF OnVote, AppliesVote, Current, Idle, Is, QShape
<1>12. Current(s).votes \in Seq(Freqs)
  BY <1>3 DEF QsySession
<1>13. PICK f \in pick_best_freq(Current(s).votes, m.votes) :
         Answer(s, Ack(t, f), freq[s]) /\ QsyNow(s, t, f)
  BY DEF OnVote
<1>4. f \in Freqs
  BY <1>12, PickIs
<1>5. Answer(s, Ack(t, f), freq[s]) /\ QsyNow(s, t, f) /\ Finish(s)
  BY <1>13 DEF OnVote
<1> HIDE DEF t
<1>6. Ack(t, f) \in QsyFrame /\ Ack(t, f).type = "Ack" /\ Ack(t, f).token = t
      /\ Ack(t, f).freq = f
  BY <1>2, <1>4 DEF QsyFrame, Ack
<1>7. PICK out : Air(s, out) /\ Elems(out) \subseteq {Ack(t, f)}
  BY Zenon, <1>5, <1>6, AnswerIs
<1>8. PICK at \in Retune(s, f) : freq' = [freq EXCEPT ![s] = at]
  BY Zenon, <1>5 DEF QsyNow
<1>9. freq' \in [Stations -> Freqs] /\ Goes(s, f)
  BY Zenon, <1>4, <1>8, RigIs DEF Goes, QShape
<1>10. tuned' = [tuned EXCEPT ![t] = [@ EXCEPT ![s] = f]]
  BY <1>5 DEF QsyNow
<1>11. Decides(s, out, t, f)
  BY <1>2, <1>3, <1>4, <1>5, <1>6, <1>7, <1>9, <1>10 DEF Decides, Acts, Finish
<1> QED BY <1>2, <1>11

(* Following a decision: an acknowledgement names a frequency.             *)
LEMMA OnAckIs ==
  ASSUME QShape, NEW s \in Stations, inbox[s] # <<>>, OnAck(s, Head(inbox[s])),
         Head(inbox[s]).freq # None,
         UNCHANGED <<rig_fails, opened, opener>>
  PROVE  Follows(s, Head(inbox[s]))
<1> DEFINE m == Head(inbox[s])
<1>1. m \in QsyFrame /\ m \in Elems(inbox[s])
  BY ElemsAre DEF QShape
<1>2. m.freq \in Freqs
  BY <1>1 DEF QsyFrame
<1>3. Is(s, "Voted", m.token) /\ Current(s).token = m.token /\ m.type = "Ack"
  BY DEF OnAck, AppliesAck, Current, Idle, Is
<1>4. QsyNow(s, m.token, m.freq) /\ Finish(s) /\ Silent(s)
  BY <1>3 DEF OnAck
<1> HIDE DEF m
<1>5. PICK at \in Retune(s, m.freq) : freq' = [freq EXCEPT ![s] = at]
  BY Zenon, <1>4 DEF QsyNow
<1>6. freq' \in [Stations -> Freqs] /\ Goes(s, m.freq)
  BY Zenon, <1>2, <1>5, RigIs DEF Goes, QShape
<1>7. Air(s, <<>>)
  BY <1>4, SilentIs
<1>8. Follows(s, m)
  BY SMTT(30), <1>1, <1>3, <1>4, <1>6, <1>7 DEF Follows, Acts, Finish, QsyNow
<1> QED BY <1>8 DEF m

-----------------------------------------------------------------------------
(* The inductive invariant of the exchange.                                *)

(* A token has the opener that made it, nobody moves for one that is not   *)
(* open, and nobody before its opener.                                     *)
Known ==
  \A t \in Tokens :
    /\ t <= opened => opener[t] \in Stations
    /\ t > opened => opener[t] = None /\ Unmoved(t)
    /\ \A s \in Stations : tuned[t][s] # None /\ opener[t] # s => tuned[t][opener[t]] # None

(* The initiator that listed has decided nothing.  The responder waiting   *)
(* for the list has not answered, and having voted it has not moved.       *)
SessionsOk ==
  \A s \in Stations, t \in Tokens :
    /\ Is(s, "Listed", t) => opener[t] = s /\ Unmoved(t)
    /\ Is(s, "WaitingForList", t)
         => opener[t] = Peer(s) /\ Unmoved(t) /\ ~Answered(Peer(s), t)
    /\ Is(s, "Voted", t) => opener[t] = Peer(s) /\ tuned[t][s] = None

(* A request on its way has been neither attended to nor answered.  An     *)
(* acknowledgement names where the station that sent it has moved.         *)
FrameOk(s, m) ==
  /\ m.token <= opened
  /\ m.type = "Req" =>
       /\ opener[m.token] = Peer(s) /\ Unmoved(m.token)
       /\ ~Answered(Peer(s), m.token)
       /\ ~Is(s, "WaitingForList", m.token) /\ ~Is(s, "Voted", m.token)
  /\ m.type = "Ack" =>
       m.freq # None /\ opener[m.token] = Peer(s) /\ m.freq = tuned[m.token][Peer(s)]

FramesOk == \A s \in Stations : \A m \in Elems(inbox[s]) : FrameOk(s, m)

QInv == QShape /\ Known /\ SessionsOk /\ FramesOk /\ \A s \in Stations : Once(inbox[s])

(* A step of s as the two stations see it.                                 *)
Seen(s, x, out) ==
  /\ \A r \in Stations : r = s \/ r = Peer(s)
  /\ Peer(s) \in Stations /\ Peer(s) # s /\ Peer(Peer(s)) = s
  /\ qsy_session'[s] = x /\ qsy_session'[Peer(s)] = qsy_session[Peer(s)]
  /\ Elems(inbox'[s]) \subseteq Elems(inbox[s])
  /\ Elems(inbox'[Peer(s)]) \subseteq Elems(inbox[Peer(s)]) \cup Elems(out)
  /\ qsy_session' \in [Stations -> QsySession \cup {None}]
  /\ inbox' \in [Stations -> Seq(QsyFrame)]
  /\ freq' \in [Stations -> Freqs]

(* What every step has.                                                    *)
LEMMA ActsSeen ==
  ASSUME QShape, NEW s \in Stations, NEW x, NEW out, Acts(s, x, out)
  PROVE  Seen(s, x, out)
<1>1. /\ \A r \in Stations : r = s \/ r = Peer(s)
      /\ Peer(s) \in Stations /\ Peer(s) # s /\ Peer(Peer(s)) = s
  BY PeerIs
<1>2. /\ qsy_session'[s] = x /\ qsy_session'[Peer(s)] = qsy_session[Peer(s)]
      /\ qsy_session' \in [Stations -> QsySession \cup {None}]
  BY <1>1 DEF Acts, QShape
<1>3. inbox[s] \in Seq(QsyFrame) /\ inbox[Peer(s)] \in Seq(QsyFrame) /\ out \in Seq(QsyFrame)
  BY <1>1 DEF Acts, Air, QShape
<1>4. Elems(inbox'[s]) \subseteq Elems(inbox[s])
  <2>1. inbox[s] # <<>> => Elems(Tail(inbox[s])) \subseteq Elems(inbox[s])
    BY <1>3, ElemsAre
  <2> QED BY Zenon, <2>1 DEF Acts, Air
<1>5. Elems(inbox'[Peer(s)]) \subseteq Elems(inbox[Peer(s)]) \cup Elems(out)
  BY <1>3, ElemsAre DEF Acts, Air
<1> QED BY <1>1, <1>2, <1>4, <1>5 DEF Seen, Acts, Air

(* No step requests a token twice.                                         *)
LEMMA OnceStep ==
  ASSUME QInv, NEW s \in Stations, NEW x, NEW out, Acts(s, x, out), Once(out),
         \A m \in Elems(out) : m.type = "Req" => m.token > opened
  PROVE  \A r \in Stations : Once(inbox'[r])
<1>1. inbox[s] \in Seq(QsyFrame) /\ inbox[Peer(s)] \in Seq(QsyFrame) /\ out \in Seq(QsyFrame)
      /\ Once(inbox[s]) /\ Once(inbox[Peer(s)])
      /\ \A r \in Stations : r = s \/ r = Peer(s)
  BY PeerIs DEF Acts, Air, QShape, QInv
<1>2. Once(inbox'[s])
  BY Zenon, <1>1, OnceTail DEF Acts, Air
<1>3. \A m \in Elems(inbox[Peer(s)]), n \in Elems(out) :
        m.type = "Req" /\ n.type = "Req" => m.token # n.token
  <2>1. \A m \in Elems(inbox[Peer(s)]) : m.token \in Nat /\ m.token <= opened
    <3>1. Elems(inbox[Peer(s)]) \subseteq QsyFrame
      BY <1>1, ElemsAre
    <3> QED BY <3>1, PeerIs DEF QInv, FramesOk, FrameOk, QsyFrame, Tokens
  <2>2. Elems(out) \subseteq QsyFrame
    BY <1>1, ElemsAre
  <2> QED BY <2>1, <2>2 DEF QsyFrame, Tokens, QInv, QShape
<1>4. Once(inbox'[Peer(s)])
  BY <1>1, <1>3, OnceCat DEF Acts, Air
<1> QED BY <1>1, <1>2, <1>4

(* Frames and tokens of a queue are what they should be.                   *)
LEMMA FrameIs ==
  ASSUME QShape, NEW s \in Stations, NEW m \in Elems(inbox[s])
  PROVE  m \in QsyFrame /\ m.token \in Tokens /\ m.token \in Nat
<1>1. Elems(inbox[s]) \subseteq QsyFrame
  BY SMTT(30), ElemsAre DEF QShape
<1> QED BY <1>1 DEF QsyFrame, Tokens

(* What Seen says, with the primes where the invariants have them: of the  *)
(* two stations,                                                           *)
LEMMA PairSeen ==
  ASSUME NEW s \in Stations, NEW x, NEW out, Seen(s, x, out)
  PROVE  /\ \A r \in Stations : r = s \/ r = Peer(s)
         /\ Peer(s) \in Stations /\ Peer(s) # s /\ Peer(Peer(s)) = s
BY DEF Seen

(* of their sessions,                                                      *)
LEMMA SessionSeen ==
  ASSUME NEW s \in Stations, NEW x, NEW out, Seen(s, x, out)
  PROVE  /\ \A st, t : Is(s, st, t)' <=> (x # None /\ x.st = st /\ x.token = t)
         /\ \A st, t : Is(Peer(s), st, t)' <=> Is(Peer(s), st, t)
<1>1. qsy_session'[s] = x /\ qsy_session'[Peer(s)] = qsy_session[Peer(s)]
  BY DEF Seen
<1> QED BY <1>1 DEF Is

(* of their frames,                                                        *)
LEMMA FrameSeen ==
  ASSUME NEW s \in Stations, NEW x, NEW out, Seen(s, x, out)
  PROVE  /\ \A m \in Elems(inbox[s])' : m \in Elems(inbox[s])
         /\ \A m \in Elems(inbox[Peer(s)])' : m \in Elems(inbox[Peer(s)]) \/ m \in Elems(out)
BY DEF Seen

(* and of their answers.                                                   *)
LEMMA AnswerSeen ==
  ASSUME NEW s \in Stations, NEW x, NEW out, Seen(s, x, out)
  PROVE  /\ \A t : Answered(s, t)' => Answered(s, t)
         /\ \A t : Answered(Peer(s), t)' =>
              Answered(Peer(s), t) \/ \E m \in Elems(out) : m.type = "Vote" /\ m.token = t
BY FrameSeen DEF Answered

(* A frame stays right if the step has not touched what it speaks of.      *)
LEMMA FrameKept ==
  ASSUME NEW r \in Stations, NEW m, FrameOk(r, m), m.token \in Nat,
         opened \in Nat, opened' \in Nat, opened' >= opened,
         opener'[m.token] = opener[m.token],
         m.type = "Req" =>
           /\ Unmoved(m.token)'
           /\ Answered(Peer(r), m.token)' => Answered(Peer(r), m.token)
           /\ Is(r, "WaitingForList", m.token)' => Is(r, "WaitingForList", m.token)
           /\ Is(r, "Voted", m.token)' => Is(r, "Voted", m.token),
         m.type = "Ack" => tuned'[m.token][Peer(r)] = tuned[m.token][Peer(r)]
  PROVE  FrameOk(r, m)'
<1>1. m.token <= opened'
  BY DEF FrameOk
<1>2. m.type = "Req" =>
        /\ opener'[m.token] = Peer(r) /\ Unmoved(m.token)'
        /\ ~Answered(Peer(r), m.token)'
        /\ ~Is(r, "WaitingForList", m.token)' /\ ~Is(r, "Voted", m.token)'
  BY DEF FrameOk
<1>3. m.type = "Ack" =>
        /\ m.freq # None /\ opener'[m.token] = Peer(r)
        /\ m.freq = tuned'[m.token][Peer(r)]
  BY DEF FrameOk
<1> QED BY Zenon, <1>1, <1>2, <1>3 DEF FrameOk

(* Opening keeps the invariant: its token is new.                          *)
LEMMA OpensKeeps ==
  ASSUME QInv, NEW s \in Stations, NEW x, NEW out, Opens(s, x, out)
  PROVE  QInv'
<1>1. /\ QShape /\ Acts(s, x, out) /\ opened \in Nat /\ opened + 1 \in Tokens
      /\ tuned' = tuned /\ opened' = opened + 1
      /\ opener' = [opener EXCEPT ![opened + 1] = s]
      /\ x.st = "Listed" /\ x.token = opened + 1
  BY DEF QInv, Opens, QShape
<1>2. Seen(s, x, out)
  BY <1>1, ActsSeen
<1>3. QShape'
  BY <1>1, <1>2 DEF Seen, QShape, Tokens
<1>4. \A t \in Tokens : /\ t \in Nat /\ opener'[t] = IF t = opened + 1 THEN s ELSE opener[t]
                        /\ Unmoved(t)' <=> Unmoved(t)
  BY <1>1 DEF QShape, Tokens, Unmoved
<1>5. opener[opened + 1] = None /\ Unmoved(opened + 1) /\ None \notin Stations
  BY <1>1, QsyAssumption DEF QInv, Known
<1>6. Known'
  <2> SUFFICES ASSUME NEW t \in Tokens
               PROVE  /\ t <= opened' => opener'[t] \in Stations
                      /\ t > opened' => opener'[t] = None /\ Unmoved(t)'
                      /\ \A r \in Stations : tuned'[t][r] # None /\ opener'[t] # r
                                               => tuned'[t][opener'[t]] # None
    BY DEF Known
  <2>1. CASE t = opened + 1
    BY <1>1, <1>4, <1>5, <2>1 DEF Unmoved
  <2>2. CASE t # opened + 1
    BY <1>1, <1>4, <2>2 DEF QInv, Known
  <2> QED BY <2>1, <2>2
<1>7. SessionsOk'
  <2> SUFFICES ASSUME NEW r \in Stations, NEW t \in Tokens
               PROVE  /\ Is(r, "Listed", t)' => opener'[t] = r /\ Unmoved(t)'
                      /\ Is(r, "WaitingForList", t)'
                           => opener'[t] = Peer(r) /\ Unmoved(t)' /\ ~Answered(Peer(r), t)'
                      /\ Is(r, "Voted", t)' => opener'[t] = Peer(r) /\ tuned'[t][r] = None
    BY DEF SessionsOk
  <2>1. CASE r = s
    BY SMTT(30), <1>1, <1>2, <1>4, <1>5, <2>1, SessionSeen
  <2>2. CASE r = Peer(s)
    <3>1. \A st : Is(r, st, t)' <=> Is(r, st, t)
      BY SMTT(30), <1>2, <2>2, SessionSeen
    <3>2. \A st \in {"Listed", "WaitingForList", "Voted"} : Is(r, st, t) => t # opened + 1
      BY <1>2, <1>5, <2>2, PairSeen DEF QInv, SessionsOk
    <3>3. ~Answered(Peer(r), t) => ~Answered(Peer(r), t)'
      BY Zenon, <1>2, <2>2, PairSeen, AnswerSeen
    <3> QED BY Zenon, <1>1, <1>4, <3>1, <3>2, <3>3 DEF QInv, SessionsOk
  <2> QED BY Zenon, <1>2, <2>1, <2>2, PairSeen
<1>8. FramesOk'
  <2> SUFFICES ASSUME NEW r \in Stations, NEW m \in Elems(inbox[r])' PROVE FrameOk(r, m)'
    BY DEF FramesOk
  <2>1. ASSUME m \in Elems(inbox[r])
        PROVE  /\ m.token \in Nat /\ FrameOk(r, m) /\ opener'[m.token] = opener[m.token]
               /\ m.type = "Req" => Unmoved(m.token)'
    <3>1. m.token \in Tokens /\ m.token \in Nat /\ FrameOk(r, m)
      BY <1>1, <2>1, FrameIs DEF QInv, FramesOk
    <3>2. m.token # opened + 1
      <4>1. m.token <= opened
        BY Zenon, <3>1 DEF FrameOk
      <4> QED BY <1>1, <3>1, <4>1
    <3> QED BY <1>1, <1>4, <3>1, <3>2 DEF FrameOk
  <2>2. CASE r = s
    <3>1. m \in Elems(inbox[s])
      BY SMTT(30), <1>2, <2>2, FrameSeen
    <3>2. Answered(Peer(s), m.token)' => Answered(Peer(s), m.token)
      BY <1>2, AnswerSeen DEF Opens
    <3>3. ~Is(s, "WaitingForList", m.token)' /\ ~Is(s, "Voted", m.token)'
      <4>1. \A st : Is(s, st, m.token)' => x.st = st
        BY Zenon, <1>2, SessionSeen
      <4> QED BY SMTT(30), <1>1, <4>1
    <3> QED BY SMTT(30), <1>1, <2>1, <2>2, <3>1, <3>2, <3>3, FrameKept
  <2>3. CASE r = Peer(s) /\ m \in Elems(inbox[r])
    <3>1. Answered(Peer(r), m.token)' => Answered(Peer(r), m.token)
      BY SMTT(30), <1>2, <2>3, PairSeen, AnswerSeen
    <3>2. \A st : Is(r, st, m.token)' <=> Is(r, st, m.token)
      BY Zenon, <1>2, <2>3, SessionSeen
    <3> QED BY SMTT(30), <1>1, <2>1, <2>3, <3>1, <3>2, FrameKept
  <2>4. CASE r = Peer(s) /\ m \in Elems(out)
    <3>1. m.type \in {"Req", "List"} /\ m.token = opened + 1 /\ Peer(r) = s
      BY <1>2, <2>4, PairSeen DEF Opens
    <3>2. opener'[m.token] = s /\ Unmoved(m.token)'
      BY <1>1, <1>4, <1>5, <3>1
    <3>3. ~Answered(s, m.token)
      <4>1. \A q \in Elems(inbox[s]) : q.token \in Nat /\ q.token <= opened
        BY Zenon, <1>1, FrameIs DEF QInv, FramesOk, FrameOk
      <4> QED BY SMTT(30), <1>1, <3>1, <4>1 DEF Answered
    <3>4. \A st \in {"WaitingForList", "Voted"} : ~Is(r, st, m.token)
      BY SMTT(30), <1>1, <1>2, <1>5, <2>4, <3>1, PairSeen DEF QInv, SessionsOk
    <3>5. ~Answered(Peer(r), m.token)' /\ \A st : Is(r, st, m.token)' <=> Is(r, st, m.token)
      BY <1>2, <2>4, <3>1, <3>3, PairSeen, AnswerSeen, SessionSeen
    <3> QED BY SMTT(30), <1>1, <3>1, <3>2, <3>4, <3>5 DEF FrameOk
  <2> QED BY <1>2, <2>2, <2>3, <2>4, PairSeen, FrameSeen
<1>9. \A r \in Stations : Once(inbox[r])'
  BY <1>1, OnceStep DEF Opens
<1> QED BY <1>3, <1>6, <1>7, <1>8, <1>9 DEF QInv

(* What a station's new session and its frames must satisfy in a step that *)
(* opens nothing and moves nobody.                                         *)
QuietSession(s, x) ==
  x # None /\ x.token \in Tokens =>
    /\ x.st = "Listed" => opener[x.token] = s /\ Unmoved(x.token)
    /\ x.st = "WaitingForList" =>
         opener[x.token] = Peer(s) /\ Unmoved(x.token) /\ ~Answered(Peer(s), x.token)
    /\ x.st = "Voted" => opener[x.token] = Peer(s) /\ tuned[x.token][s] = None

QuietFrames(x, out) ==
  \A m \in Elems(out) :
    /\ m.type \in {"Vote", "Reject"} /\ m.token <= opened
    /\ m.type = "Vote" => x = None \/ x.st # "WaitingForList"

QuietRequests(s, x, out) ==
  \A m \in Elems(inbox[s])' :
    m.type = "Req" =>
      /\ x # None /\ x.token = m.token => x.st \notin {"WaitingForList", "Voted"}
      /\ \A n \in Elems(out) : n.type = "Vote" => n.token # m.token

(* Such a step keeps the invariant.                                        *)
LEMMA QuietKeeps ==
  ASSUME QInv, NEW s \in Stations, NEW x, NEW out, Acts(s, x, out),
         UNCHANGED <<opened, opener, tuned>>,
         QuietSession(s, x), QuietFrames(x, out), QuietRequests(s, x, out)
  PROVE  QInv'
<1>1. QShape /\ opened \in Nat /\ opened' = opened /\ opener' = opener /\ tuned' = tuned
  BY DEF QInv, QShape
<1>2. Seen(s, x, out)
  BY <1>1, ActsSeen
<1>3. QShape'
  BY <1>1, <1>2 DEF Seen, QShape
<1>4. \A t : Unmoved(t)' <=> Unmoved(t)
  BY <1>1 DEF Unmoved
<1>5. Known'
  BY <1>1, <1>4 DEF QInv, Known
<1>6. SessionsOk'
  <2> SUFFICES ASSUME NEW r \in Stations, NEW t \in Tokens
               PROVE  /\ Is(r, "Listed", t)' => opener'[t] = r /\ Unmoved(t)'
                      /\ Is(r, "WaitingForList", t)'
                           => opener'[t] = Peer(r) /\ Unmoved(t)' /\ ~Answered(Peer(r), t)'
                      /\ Is(r, "Voted", t)' => opener'[t] = Peer(r) /\ tuned'[t][r] = None
    BY Zenon DEF SessionsOk
  <2>1. CASE r = s
    <3>1. \A st : Is(s, st, t)' => x # None /\ x.st = st /\ x.token = t
      BY SMTT(30), <1>2, SessionSeen
    <3>2. x # None /\ x.st = "WaitingForList" =>
            (Answered(Peer(s), t)' => Answered(Peer(s), t))
      BY <1>2, AnswerSeen DEF QuietFrames
    <3> QED BY Zenon, <1>1, <1>4, <2>1, <3>1, <3>2 DEF QuietSession
  <2>2. CASE r = Peer(s)
    <3>1. \A st : Is(r, st, t)' <=> Is(r, st, t)
      BY Zenon, <1>2, <2>2, SessionSeen
    <3>2. ~Answered(Peer(r), t) => ~Answered(Peer(r), t)'
      BY Zenon, <1>2, <2>2, PairSeen, AnswerSeen
    <3> QED BY Zenon, <1>1, <1>4, <3>1, <3>2 DEF QInv, SessionsOk
  <2> QED BY Zenon, <1>2, <2>1, <2>2, PairSeen
<1>7. FramesOk'
  <2> SUFFICES ASSUME NEW r \in Stations, NEW m \in Elems(inbox[r])' PROVE FrameOk(r, m)'
    BY SMTT(30) DEF FramesOk
  <2>5. opened' \in Nat /\ opened' >= opened
    BY <1>1
  <2>1. ASSUME m \in Elems(inbox[r])
        PROVE  /\ m.token \in Nat /\ FrameOk(r, m)
               /\ m.type = "Req" => Unmoved(m.token)'
    BY Zenon, <1>1, <1>4, <2>1, FrameIs DEF QInv, FramesOk, FrameOk
  <2>2. CASE r = s
    <3>1. m \in Elems(inbox[s])
      BY Zenon, <1>2, <2>2, FrameSeen
    <3>2. m.type = "Req" => (Answered(Peer(s), m.token)' => Answered(Peer(s), m.token))
      BY SMTT(30), <1>2, <2>2, AnswerSeen DEF QuietRequests
    <3>3. m.type = "Req" =>
            ~Is(s, "WaitingForList", m.token)' /\ ~Is(s, "Voted", m.token)'
      <4>1. \A st : Is(s, st, m.token)' => x # None /\ x.st = st /\ x.token = m.token
        BY SMTT(30), <1>2, SessionSeen
      <4> QED BY <2>2, <4>1 DEF QuietRequests
    <3> QED BY Zenon, <1>1, <2>1, <2>2, <2>5, <3>1, <3>2, <3>3, FrameKept
  <2>3. CASE r = Peer(s) /\ m \in Elems(inbox[r])
    <3>1. Answered(Peer(r), m.token)' => Answered(Peer(r), m.token)
      BY <1>2, <2>3, PairSeen, AnswerSeen
    <3>2. \A st : Is(r, st, m.token)' <=> Is(r, st, m.token)
      BY Zenon, <1>2, <2>3, SessionSeen
    <3> QED BY Zenon, <1>1, <2>1, <2>3, <2>5, <3>1, <3>2, FrameKept
  <2>4. CASE r = Peer(s) /\ m \in Elems(out)
    BY <1>1, <2>4 DEF QuietFrames, FrameOk
  <2> QED BY Zenon, <1>2, <2>2, <2>3, <2>4, PairSeen, FrameSeen
<1>8. \A r \in Stations : Once(inbox[r])'
  <2>1. Once(out)
    BY DEF QuietFrames, Once, Elems
  <2> QED BY <1>1, <2>1, OnceStep DEF QuietFrames
<1> QED BY <1>3, <1>5, <1>6, <1>7, <1>8 DEF QInv

(* Resting: nothing new is said but a rejection.                           *)
LEMMA RestsKeeps ==
  ASSUME QInv, NEW s \in Stations, NEW x, NEW out, Rests(s, x, out)
  PROVE  QInv'
<1>1. QShape /\ Acts(s, x, out) /\ UNCHANGED <<opened, opener, tuned>>
      /\ (x = None \/ x = qsy_session[s] \/ x.st = "Idle")
  BY DEF Rests, QInv
<1>2. Seen(s, x, out)
  BY <1>1, ActsSeen
<1>4. QuietSession(s, x)
  <2>1. CASE x = None \/ x.st = "Idle"
    BY SMTT(30), <2>1 DEF QuietSession
  <2>2. CASE x = qsy_session[s]
    BY Zenon, <2>2 DEF QInv, SessionsOk, QuietSession, Is
  <2> QED BY <1>1, <2>1, <2>2
<1>5. QuietFrames(x, out)
  BY DEF Rests, QuietFrames, QInv, FramesOk, FrameOk
<1>6. QuietRequests(s, x, out)
  <2> SUFFICES ASSUME NEW m \in Elems(inbox[s])', m.type = "Req"
               PROVE  x # None /\ x.token = m.token => x.st \notin {"WaitingForList", "Voted"}
    BY SMTT(30) DEF QuietRequests, Rests
  <2>1. m \in Elems(inbox[s])
    BY <1>2, FrameSeen
  <2>2. ~Is(s, "WaitingForList", m.token) /\ ~Is(s, "Voted", m.token)
    BY Zenon, <2>1 DEF QInv, FramesOk, FrameOk
  <2> QED BY SMTT(30), <1>1, <2>2 DEF Is
<1> QED BY <1>1, <1>4, <1>5, <1>6, QuietKeeps

(* Attending: no other request for the token is on its way.                *)
LEMMA AttendsKeeps ==
  ASSUME QInv, NEW s \in Stations, NEW x, NEW m, Attends(s, x, m)
  PROVE  QInv'
<1>1. /\ QShape /\ Acts(s, x, <<>>) /\ UNCHANGED <<opened, opener, tuned>>
      /\ (x = None \/ (x.st = "WaitingForList" /\ x.token = m.token))
      /\ inbox[s] # <<>> /\ m = Head(inbox[s]) /\ m.type = "Req"
      /\ inbox'[s] = Tail(inbox[s]) /\ inbox[s] \in Seq(QsyFrame) /\ Once(inbox[s])
  BY SMTT(30) DEF Attends, QInv, QShape
<1>2. m \in Elems(inbox[s])
  BY Zenon, <1>1, ElemsAre
<1>3. QuietSession(s, x)
  BY <1>1, <1>2 DEF QuietSession, QInv, FramesOk, FrameOk
<1>4. Elems(<<>>) = {} /\ QuietFrames(x, <<>>)
  BY SMTT(30) DEF QuietFrames, Elems
<1>5. \A q \in Elems(inbox[s])' : q.type = "Req" => q.token # m.token
  BY SMTT(30), <1>1, OnceTail
<1>6. QuietRequests(s, x, <<>>)
  BY <1>1, <1>4, <1>5 DEF QuietRequests
<1> QED BY Zenon, <1>1, <1>3, <1>4, <1>6, QuietKeeps

(* Voting: the list's token is not requested again.                        *)
LEMMA VotesKeeps ==
  ASSUME QInv, NEW s \in Stations, NEW x, NEW out, NEW t \in Tokens, Votes(s, x, out, t)
  PROVE  QInv'
<1>1. /\ QShape /\ Acts(s, x, out) /\ UNCHANGED <<opened, opener, tuned>>
      /\ (x = None \/ (x.st = "Voted" /\ x.token = t))
      /\ Is(s, "WaitingForList", t) /\ opened \in Nat /\ t \in Nat
      /\ \A m \in Elems(out) : m.type = "Vote" /\ m.token = t
  BY DEF Votes, QInv, QShape, Tokens
<1>2. Seen(s, x, out)
  BY Zenon, <1>1, ActsSeen
<1>3. opener[t] = Peer(s) /\ Unmoved(t) /\ Peer(s) \in Stations
  BY SMTT(30), <1>1, PeerIs DEF QInv, SessionsOk
<1>4. t <= opened
  BY SMTT(30), <1>1, <1>3, QsyAssumption DEF QInv, Known
<1>5. QuietSession(s, x) /\ QuietFrames(x, out)
  BY SMTT(30), <1>1, <1>3, <1>4 DEF QuietSession, QuietFrames, Unmoved
<1>6. \A q \in Elems(inbox[s])' : q.type = "Req" => q.token # t
  <2> TAKE q \in Elems(inbox[s])'
  <2>1. q \in Elems(inbox[s])
    BY Zenon, <1>2, FrameSeen
  <2> QED BY Zenon, <1>1, <2>1 DEF QInv, FramesOk, FrameOk
<1>7. QuietRequests(s, x, out)
  BY <1>1, <1>6 DEF QuietRequests
<1> QED BY SMTT(30), <1>1, <1>5, <1>7, QuietKeeps

(* A decision keeps it: the responder has answered, so it is past its      *)
(* request and its list.                                                   *)
LEMMA DecidesKeeps ==
  ASSUME QInv, NEW s \in Stations, NEW out, NEW t \in Tokens, NEW f, Decides(s, out, t, f)
  PROVE  QInv'
<1>12. /\ Acts(s, None, out) /\ opened' = opened /\ opener' = opener
       /\ tuned' = [tuned EXCEPT ![t] = [@ EXCEPT ![s] = f]]
       /\ Is(s, "Listed", t) /\ Answered(s, t) /\ f \in Freqs
       /\ \A m \in Elems(out) : m.type = "Ack" /\ m.token = t /\ m.freq = f
  BY Zenon DEF Decides
<1>13. QShape /\ opened \in Nat /\ t \in Nat
  BY DEF QInv, QShape, Tokens
<1>14. f # None
  BY <1>12, QsyAssumption
<1>1. /\ QShape /\ Acts(s, None, out) /\ opened \in Nat /\ opened' = opened
      /\ opener' = opener /\ t \in Nat
      /\ tuned' = [tuned EXCEPT ![t] = [@ EXCEPT ![s] = f]]
      /\ Is(s, "Listed", t) /\ Answered(s, t) /\ f \in Freqs /\ f # None
      /\ \A m \in Elems(out) : m.type = "Ack" /\ m.token = t /\ m.freq = f
  BY Zenon, <1>12, <1>13, <1>14
<1>2. Seen(s, None, out)
  BY <1>1, ActsSeen
<1>3. opener[t] = s /\ Unmoved(t) /\ s # None
  BY <1>1, QsyAssumption DEF QInv, SessionsOk
<1>4. /\ \A u \in Tokens : u # t => tuned'[u] = tuned[u]
      /\ tuned'[t][s] = f
      /\ \A r \in Stations : r # s => tuned'[t][r] = tuned[t][r]
  BY <1>1 DEF QShape
<1>15. tuned' \in [Tokens -> [Stations -> Freqs \cup {None}]]
  BY <1>1 DEF QShape
<1>5. \A u \in Tokens : u # t => (Unmoved(u)' <=> Unmoved(u))
  BY <1>4 DEF Unmoved
<1>6. QShape'
  BY <1>1, <1>2, <1>15 DEF Seen, QShape
<1>7. t <= opened
  BY <1>1, <1>3 DEF QInv, Known
<1>8. Known'
  <2> SUFFICES ASSUME NEW u \in Tokens
               PROVE  /\ u <= opened' => opener'[u] \in Stations
                      /\ u > opened' => opener'[u] = None /\ Unmoved(u)'
                      /\ \A r \in Stations : tuned'[u][r] # None /\ opener'[u] # r
                                               => tuned'[u][opener'[u]] # None
    BY Zenon DEF Known
  <2>1. CASE u = t
    BY SMTT(30), <1>1, <1>3, <1>4, <1>7, <2>1
  <2>2. CASE u # t
    BY <1>1, <1>4, <1>5, <2>2 DEF QInv, Known
  <2> QED BY Zenon, <2>1, <2>2
<1>9. SessionsOk'
  <2> SUFFICES ASSUME NEW r \in Stations, NEW u \in Tokens
               PROVE  /\ Is(r, "Listed", u)' => opener'[u] = r /\ Unmoved(u)'
                      /\ Is(r, "WaitingForList", u)'
                           => opener'[u] = Peer(r) /\ Unmoved(u)' /\ ~Answered(Peer(r), u)'
                      /\ Is(r, "Voted", u)' => opener'[u] = Peer(r) /\ tuned'[u][r] = None
    BY DEF SessionsOk
  <2>1. CASE r = s
    BY Zenon, <1>2, <2>1, SessionSeen
  <2>2. CASE r = Peer(s)
    <3>5. Peer(r) = s /\ r # s
      BY <1>2, <2>2, PairSeen
    <3>6. \A st : Is(r, st, u)' <=> Is(r, st, u)
      BY Zenon, <1>2, <2>2, SessionSeen
    <3>7. ~Answered(Peer(r), u) => ~Answered(Peer(r), u)'
      BY Zenon, <1>2, <3>5, AnswerSeen
    <3>1. /\ \A st : Is(r, st, u)' <=> Is(r, st, u)
          /\ ~Answered(Peer(r), u) => ~Answered(Peer(r), u)'
          /\ Peer(r) = s /\ r # s
      BY Zenon, <3>5, <3>6, <3>7
    <3>2. Is(r, "Listed", u) => u # t
      BY Zenon, <1>3, <3>1 DEF QInv, SessionsOk
    <3>3. Is(r, "WaitingForList", u) => u # t
      <4>1. Is(r, "WaitingForList", u) => ~Answered(Peer(r), u)
        BY Zenon DEF QInv, SessionsOk
      <4> QED BY Zenon, <1>1, <3>5, <4>1
    <3>4. tuned'[u][r] = tuned[u][r]
      BY <1>4, <3>1
    <3> QED BY SMTT(30), <1>1, <1>5, <3>1, <3>2, <3>3, <3>4 DEF QInv, SessionsOk
  <2> QED BY Zenon, <1>2, <2>1, <2>2, PairSeen
<1>10. FramesOk'
  <2> SUFFICES ASSUME NEW r \in Stations, NEW m \in Elems(inbox[r])' PROVE FrameOk(r, m)'
    BY DEF FramesOk
  <2>5. opened' \in Nat /\ opened' >= opened
    BY <1>1
  <2>1. ASSUME m \in Elems(inbox[r])
        PROVE  m.token \in Tokens /\ m.token \in Nat /\ FrameOk(r, m)
    BY SMTT(30), <1>1, <2>1, FrameIs DEF QInv, FramesOk
  <2>2. CASE r = s
    <3>1. m \in Elems(inbox[s]) /\ Peer(s) # s /\ Peer(s) \in Stations
      BY Zenon, <1>2, <2>2, PairSeen, FrameSeen
    <3>2. m.type = "Req" => m.token # t
      BY Zenon, <1>3, <2>1, <2>2, <3>1 DEF FrameOk
    <3>3. m.type = "Req" => Unmoved(m.token)'
      BY Zenon, <1>5, <2>1, <2>2, <3>1, <3>2 DEF FrameOk
    <3>4. Answered(Peer(s), m.token)' => Answered(Peer(s), m.token)
      BY <1>1, <1>2, AnswerSeen
    <3>5. ~Is(s, "WaitingForList", m.token)' /\ ~Is(s, "Voted", m.token)'
      BY Zenon, <1>2, SessionSeen
    <3>6. tuned'[m.token][Peer(s)] = tuned[m.token][Peer(s)]
      BY Zenon, <1>4, <2>1, <2>2, <3>1
    <3> QED BY Zenon, <1>1, <2>1, <2>2, <2>5, <3>1, <3>3, <3>4, <3>5, <3>6, FrameKept
  <2>3. CASE r = Peer(s) /\ m \in Elems(inbox[r])
    <3>1. /\ Answered(Peer(r), m.token)' => Answered(Peer(r), m.token)
          /\ \A st : Is(r, st, m.token)' <=> Is(r, st, m.token)
          /\ Peer(r) = s
      <4>1. Peer(r) = s
        BY <1>2, <2>3, PairSeen
      <4>2. \A st : Is(r, st, m.token)' <=> Is(r, st, m.token)
        BY Zenon, <1>2, <2>3, SessionSeen
      <4>3. Answered(Peer(r), m.token)' => Answered(Peer(r), m.token)
        BY Zenon, <1>2, <4>1, AnswerSeen
      <4> QED BY Zenon, <4>1, <4>2, <4>3
    <3>2. m.type = "Req" => m.token # t
      BY ZenonT(30), <1>1, <2>1, <2>3, <3>1 DEF FrameOk
    <3>3. m.type = "Ack" => m.token # t
      BY Zenon, <1>3, <2>1, <2>3, <3>1 DEF FrameOk, Unmoved
    <3>4. /\ m.type = "Req" => Unmoved(m.token)'
          /\ m.type = "Ack" => tuned'[m.token][Peer(r)] = tuned[m.token][Peer(r)]
      BY Zenon, <1>4, <1>5, <2>1, <2>3, <3>2, <3>3 DEF FrameOk
    <3> QED BY Zenon, <1>1, <2>1, <2>3, <2>5, <3>1, <3>4, FrameKept
  <2>4. CASE r = Peer(s) /\ m \in Elems(out)
    <3>1. Peer(r) = s /\ m.type = "Ack" /\ m.token = t /\ m.freq = f
      BY <1>1, <1>2, <2>4, PairSeen
    <3> QED BY Zenon, <1>1, <1>3, <1>4, <1>7, <3>1 DEF FrameOk
  <2> QED BY Zenon, <1>2, <2>2, <2>3, <2>4, PairSeen, FrameSeen
<1>11. \A r \in Stations : Once(inbox[r])'
  <2>1. Once(out)
    BY Zenon, <1>1 DEF Once, Elems
  <2> QED BY <1>1, <2>1, OnceStep
<1> QED BY Zenon, <1>6, <1>8, <1>9, <1>10, <1>11 DEF QInv

(* Following keeps it: the station that decided has moved and the follower *)
(* had not.                                                                *)
LEMMA FollowsKeeps ==
  ASSUME QInv, NEW s \in Stations, NEW m, Follows(s, m)
  PROVE  QInv'
<1> DEFINE t == m.token
           f == m.freq
<1>1. /\ QShape /\ Acts(s, None, <<>>) /\ opened \in Nat /\ opened' = opened
      /\ opener' = opener
      /\ tuned' = [tuned EXCEPT ![t] = [@ EXCEPT ![s] = f]]
      /\ Is(s, "Voted", t) /\ m \in Elems(inbox[s]) /\ m.type = "Ack"
  BY DEF Follows, QInv, QShape
<1>2. Seen(s, None, <<>>) /\ Elems(<<>>) = {} /\ Peer(s) # s /\ Peer(s) \in Stations
  BY <1>1, ActsSeen, PeerIs DEF Elems
<1>3. m \in QsyFrame /\ t \in Tokens /\ t \in Nat /\ FrameOk(s, m)
  BY <1>1, FrameIs DEF QInv, FramesOk
<1>4. /\ opener[t] = Peer(s) /\ tuned[t][s] = None
      /\ f # None /\ f = tuned[t][Peer(s)] /\ f \in Freqs
  BY <1>1, <1>3 DEF QInv, SessionsOk, FrameOk, QsyFrame
<1> HIDE DEF t, f
<1>5. /\ \A u \in Tokens : u # t => tuned'[u] = tuned[u]
      /\ tuned'[t][s] = f
      /\ \A r \in Stations : r # s => tuned'[t][r] = tuned[t][r]
      /\ tuned' \in [Tokens -> [Stations -> Freqs \cup {None}]]
  BY <1>1, <1>3, <1>4 DEF QShape
<1>6. \A u \in Tokens : u # t => (Unmoved(u)' <=> Unmoved(u))
  BY SMTT(30), <1>5 DEF Unmoved
<1>7. QShape' /\ ~Unmoved(t)
  BY <1>1, <1>2, <1>4, <1>5 DEF Seen, QShape, Unmoved
<1>8. Known'
  <2> SUFFICES ASSUME NEW u \in Tokens
               PROVE  /\ u <= opened' => opener'[u] \in Stations
                      /\ u > opened' => opener'[u] = None /\ Unmoved(u)'
                      /\ \A r \in Stations : tuned'[u][r] # None /\ opener'[u] # r
                                               => tuned'[u][opener'[u]] # None
    BY DEF Known
  <2>1. CASE u = t
    <3>1. ~(t > opened)
      BY Zenon, <1>3, <1>7 DEF QInv, Known
    <3>2. opener'[t] = Peer(s) /\ Peer(s) \in Stations /\ tuned'[t][Peer(s)] # None
      BY <1>1, <1>2, <1>4, <1>5
    <3> QED BY <1>1, <2>1, <3>1, <3>2
  <2>2. CASE u # t
    BY Zenon, <1>1, <1>5, <1>6, <2>2 DEF QInv, Known
  <2> QED BY Zenon, <2>1, <2>2
<1>9. SessionsOk'
  <2> SUFFICES ASSUME NEW r \in Stations, NEW u \in Tokens
               PROVE  /\ Is(r, "Listed", u)' => opener'[u] = r /\ Unmoved(u)'
                      /\ Is(r, "WaitingForList", u)'
                           => opener'[u] = Peer(r) /\ Unmoved(u)' /\ ~Answered(Peer(r), u)'
                      /\ Is(r, "Voted", u)' => opener'[u] = Peer(r) /\ tuned'[u][r] = None
    BY SMTT(30) DEF SessionsOk
  <2>1. CASE r = s
    BY Zenon, <1>2, <2>1, SessionSeen
  <2>2. CASE r = Peer(s)
    <3>5. Peer(r) = s /\ r # s
      BY <1>2, <2>2, PairSeen
    <3>6. \A st : Is(r, st, u)' <=> Is(r, st, u)
      BY Zenon, <1>2, <2>2, SessionSeen
    <3>7. ~Answered(Peer(r), u) => ~Answered(Peer(r), u)'
      BY Zenon, <1>2, <3>5, AnswerSeen
    <3>1. /\ \A st : Is(r, st, u)' <=> Is(r, st, u)
          /\ ~Answered(Peer(r), u) => ~Answered(Peer(r), u)'
          /\ Peer(r) = s /\ r # s
      BY Zenon, <3>5, <3>6, <3>7
    <3>2. Is(r, "Listed", u) \/ Is(r, "WaitingForList", u) => u # t
      BY Zenon, <1>7 DEF QInv, SessionsOk
    <3>3. tuned'[u][r] = tuned[u][r]
      BY <1>5, <3>1
    <3> QED BY <1>1, <1>6, <3>1, <3>2, <3>3 DEF QInv, SessionsOk
  <2> QED BY Zenon, <1>2, <2>1, <2>2, PairSeen
<1>10. FramesOk'
  <2> SUFFICES ASSUME NEW r \in Stations, NEW n \in Elems(inbox[r])' PROVE FrameOk(r, n)'
    BY DEF FramesOk
  <2>1. n \in Elems(inbox[r])
    BY Zenon, <1>2, PairSeen, FrameSeen
  <2>2. n.token \in Tokens /\ n.token \in Nat /\ FrameOk(r, n)
    BY <1>1, <2>1, FrameIs DEF QInv, FramesOk
  <2>3. n.type = "Req" => Unmoved(n.token)'
    BY Zenon, <1>6, <1>7, <2>2 DEF FrameOk
  <2>4. \A q : Answered(q, n.token)' /\ q \in Stations => Answered(q, n.token)
    <3>1. \A u : (Answered(s, u)' => Answered(s, u))
               /\ (Answered(Peer(s), u)' => Answered(Peer(s), u))
      BY <1>2, AnswerSeen
    <3> QED BY ZenonT(30), <1>2, <3>1, PairSeen
  <2>5. \A st : Is(r, st, n.token)' => Is(r, st, n.token)
    BY <1>2, PairSeen, SessionSeen
  <2>6. n.type = "Ack" => tuned'[n.token][Peer(r)] = tuned[n.token][Peer(r)]
    <3>1. CASE r = s
      BY SMTT(30), <1>2, <1>5, <2>2, <3>1
    <3>2. CASE r = Peer(s)
      <4>1. n.type = "Ack" => opener[n.token] = s
        BY SMTT(30), <2>2, <3>2, PeerIs DEF FrameOk
      <4>2. n.type = "Ack" => n.token # t
        BY <1>2, <1>4, <4>1
      <4> QED BY Zenon, <1>5, <2>2, <4>2
    <3> QED BY Zenon, <3>1, <3>2, PeerIs
  <2>7. Peer(r) \in Stations
    BY PeerIs
  <2> QED BY <1>1, <2>2, <2>3, <2>4, <2>5, <2>6, <2>7, FrameKept
<1>11. \A r \in Stations : Once(inbox[r])'
  <2>1. Once(<<>>)
    BY DEF Once
  <2> QED BY <1>1, <1>2, <2>1, OnceStep
<1> QED BY SMTT(30), <1>7, <1>8, <1>9, <1>10, <1>11 DEF QInv

(* What a step can be.                                                     *)
Effect(s) ==
  \/ \E x, out : Opens(s, x, out)
  \/ \E x, out : Rests(s, x, out)
  \/ \E x, m : Attends(s, x, m)
  \/ \E x, out, t : t \in Tokens /\ Votes(s, x, out, t)
  \/ \E out, t, f : t \in Tokens /\ Decides(s, out, t, f)
  \/ \E m : Follows(s, m)

(* Every action is one of these.                                           *)
LEMMA StepIs ==
  ASSUME QInv, QsyNext
  PROVE  \E s \in Stations : Effect(s)
<1>1. PICK s \in Stations : AcceptQsy(s) \/ AutoQsy(s) \/ Receive(s) \/ Expire(s) \/ Clock(s)
  BY DEF QsyNext
<1>2. QShape
  BY DEF QInv
<1>3. CASE AcceptQsy(s) \/ AutoQsy(s)
  <2>1. Initiate(s)
    BY <1>3 DEF AcceptQsy, AutoQsy
  <2> QED BY <1>2, <2>1, InitiateIs DEF Effect
<1>4. CASE Expire(s) \/ Clock(s)
  <2>1. Pauses(s)
    BY <1>4 DEF Pauses
  <2> QED BY <1>2, <2>1, PausesIs DEF Effect
<1>5. CASE Receive(s)
  <2> DEFINE m == Head(inbox[s])
  <2>1. inbox[s] # <<>> /\ UNCHANGED <<rig_fails, opened, opener>>
    BY Zenon, <1>5 DEF Receive
  <2>2. \/ OnReject(s, m) \/ OnReq(s, m) \/ OnReqDeclined(s, m) \/ OnList(s, m)
        \/ OnVote(s, m) \/ OnAck(s, m) \/ OnOther(s, m)
    BY <1>5 DEF Receive
  <2>3. CASE OnReject(s, m) \/ OnReqDeclined(s, m) \/ OnOther(s, m)
    <3>1. Pauses(s)
      BY <2>1, <2>3 DEF Pauses
    <3> QED BY Zenon, <1>2, <3>1, PausesIs DEF Effect
  <2>4. CASE OnReq(s, m)
    BY Zenon, <1>2, <2>1, <2>4, OnReqIs DEF Effect
  <2>5. CASE OnList(s, m)
    BY Zenon, <1>2, <2>1, <2>5, OnListIs DEF Effect
  <2>6. CASE OnVote(s, m)
    BY Zenon, <1>2, <2>1, <2>6, OnVoteIs DEF Effect
  <2>7. CASE OnAck(s, m)
    <3>1. m \in Elems(inbox[s]) /\ m.type = "Ack"
      <4>1. inbox[s] \in Seq(QsyFrame)
        BY <1>2 DEF QShape
      <4>2. m \in Elems(inbox[s])
        BY Zenon, <2>1, <4>1, ElemsAre
      <4> QED BY Zenon, <2>7, <4>2 DEF OnAck, AppliesAck
    <3>2. m.freq # None
      BY <3>1 DEF QInv, FramesOk, FrameOk
    <3> QED BY Zenon, <1>2, <2>1, <2>7, <3>2, OnAckIs DEF Effect
  <2> QED BY SMTT(30), <2>2, <2>3, <2>4, <2>5, <2>6, <2>7
<1> QED BY <1>1, <1>3, <1>4, <1>5

(* The exchange keeps its invariant.                                       *)
LEMMA QInvStep ==
  ASSUME QInv, [QsyNext]_qsyVars
  PROVE  QInv'
<1>1. CASE QsyNext
  <2>1. PICK s \in Stations : Effect(s)
    BY Zenon, <1>1, StepIs
  <2> QED BY <2>1, OpensKeeps, RestsKeeps, AttendsKeeps, VotesKeeps, DecidesKeeps,
             FollowsKeeps DEF Effect
<1>2. CASE UNCHANGED qsyVars
  <2>1. /\ qsy_session' = qsy_session /\ inbox' = inbox /\ freq' = freq /\ opened' = opened
        /\ opener' = opener /\ tuned' = tuned
    BY <1>2 DEF qsyVars
  <2>2. QShape' /\ Known'
    BY <2>1 DEF QInv, QShape, Known, Unmoved
  <2>3. \A s, st, t : Is(s, st, t)' <=> Is(s, st, t)
    BY Zenon, <2>1 DEF Is
  <2>4. \A s, t : (Answered(s, t)' <=> Answered(s, t)) /\ (Unmoved(t)' <=> Unmoved(t))
    BY Zenon, <2>1 DEF Answered, Unmoved
  <2>5. SessionsOk'
    BY Zenon, <2>1, <2>3, <2>4 DEF QInv, SessionsOk
  <2>6. \A s, m : FrameOk(s, m) => FrameOk(s, m)'
    BY Zenon, <2>1, <2>3, <2>4 DEF FrameOk
  <2>7. FramesOk'
    BY Zenon, <2>1, <2>6 DEF QInv, FramesOk
  <2>8. \A s \in Stations : Once(inbox[s])'
    BY Zenon, <2>1 DEF QInv, Once
  <2> QED BY Zenon, <2>2, <2>5, <2>7, <2>8 DEF QInv
<1> QED BY <1>1, <1>2

(* It holds before any negotiation.                                        *)
LEMMA QInvInit ==
  ASSUME QsyInit
  PROVE  QInv
<1>1. QShape
  <2>1. <<>> \in Seq(QsyFrame) /\ Home \in Freqs /\ 0 \in 0 .. MaxOpened
    BY MaxOpenedAssumption DEF Freqs
  <2> QED BY <2>1 DEF QsyInit, QShape
<1>2. \A s \in Stations : Elems(inbox[s]) = {} /\ qsy_session[s] = None /\ Once(inbox[s])
  BY DEF QsyInit, Elems, Once
<1>3. Known
  BY DEF QsyInit, Known, Unmoved, Tokens
<1>4. SessionsOk /\ FramesOk
  BY Zenon, <1>2 DEF SessionsOk, FramesOk, Is
<1> QED BY <1>1, <1>2, <1>3, <1>4 DEF QInv

-----------------------------------------------------------------------------
(* The exchange implements the agreement.                                  *)

(* Every step is a step of the agreement, or none.                         *)
LEMMA AgreementStep ==
  ASSUME QInv, [QsyNext]_qsyVars
  PROVE  [Agreement!AgreementNext]_(Agreement!agreementVars)
<1>1. CASE UNCHANGED qsyVars
  BY <1>1 DEF qsyVars, Agreement!agreementVars
<1>2. CASE QsyNext
  <2>1. PICK s \in Stations : Effect(s)
    BY Zenon, <1>2, StepIs
  <2>2. CASE \E x, out : Opens(s, x, out)
    <3> DEFINE t == opened + 1
    <3>1. t \in Tokens /\ opener' = [opener EXCEPT ![t] = s] /\ tuned' = tuned
      BY <2>2 DEF Opens
    <3>2. opener[t] = None
      BY <3>1 DEF QInv, Known, QShape
    <3>3. Agreement!Open(t, s)
      BY <3>1, <3>2 DEF Agreement!Open
    <3> QED BY <3>1, <3>3 DEF Agreement!AgreementNext
  <2>3. CASE \/ \E x, out : Rests(s, x, out)
             \/ \E x, m : Attends(s, x, m)
             \/ \E x, out, t : t \in Tokens /\ Votes(s, x, out, t)
    BY Zenon, <2>3 DEF Rests, Attends, Votes, Agreement!agreementVars
  <2>4. CASE \E out, t, f : t \in Tokens /\ Decides(s, out, t, f)
    <3>1. PICK out, t, f : t \in Tokens /\ Decides(s, out, t, f)
      BY <2>4
    <3>2. opener[t] = s /\ Unmoved(t)
      BY <3>1 DEF Decides, QInv, SessionsOk
    <3>3. Agreement!Decide(t, s, f) /\ f \in Freqs
      BY <3>1, <3>2 DEF Decides, Unmoved, Agreement!Decide
    <3> QED BY <3>1, <3>3 DEF Agreement!AgreementNext
  <2>5. CASE \E m : Follows(s, m)
    <3>1. PICK m : Follows(s, m)
      BY <2>5
    <3>2. m.token \in Tokens /\ m.type = "Ack" /\ FrameOk(s, m)
      BY <3>1, FrameIs DEF Follows, QInv, FramesOk
    <3>3. /\ opener[m.token] = Peer(s) /\ m.freq # None
          /\ m.freq = tuned[m.token][Peer(s)] /\ tuned[m.token][s] = None
      BY <3>1, <3>2 DEF FrameOk, Follows, QInv, SessionsOk
    <3>4. Agreement!Follow(m.token, s)
      BY <3>1, <3>3, PeerIs DEF Follows, Agreement!Follow
    <3> QED BY <3>2, <3>4 DEF Agreement!AgreementNext
  <2> QED BY <2>1, <2>2, <2>3, <2>4, <2>5 DEF Effect
<1> QED BY <1>1, <1>2

(* Every behaviour of the exchange is one of the agreement: whatever       *)
(* frames are lost, sessions overwritten or expired, and CAT commands      *)
(* fail, only the station that sent QSY_REQ decides (on a QSY_VOTE), and   *)
(* the other moves at most once, after it and where QSY_ACK says.          *)
THEOREM QsyImplementsAgreement == QsySpec => ImplementsAgreement
<1>1. QsyInit => Agreement!AgreementInit
  BY DEF QsyInit, Agreement!AgreementInit
<1> QED
  BY <1>1, QInvInit, QInvStep, AgreementStep, PTL
     DEF QsySpec, ImplementsAgreement, Agreement!AgreementSpec

-----------------------------------------------------------------------------
(* Stations apart.                                                         *)

(* A decision that will not be followed, and one that may be.              *)
Dead(t) == Movers(t) # {} /\ Movers(t) # Stations /\ \A s \in Stations : ~Is(s, "Voted", t)
Followable(s, t) == Is(s, "Voted", t) /\ tuned[t][Peer(s)] # None

(* While no decision is dead, stations are on one frequency, but for one   *)
(* that has moved and one that may still follow.                           *)
Together ==
  ~rig_fails /\ (\A t \in Tokens : ~Dead(t)) =>
    /\ (\A s \in Stations, t \in Tokens : ~Followable(s, t))
         => \A s, r \in Stations : freq[s] = freq[r]
    /\ \A s \in Stations, t \in Tokens :
         Followable(s, t) => /\ freq[Peer(s)] = tuned[t][Peer(s)]
                             /\ \A u \in Tokens : ~Followable(Peer(s), u)

(* Who has moved, of two.                                                  *)
LEMMA DeadIs ==
  ASSUME NEW s \in Stations, NEW t
  PROVE  Dead(t) <=> /\ (tuned[t][s] # None) # (tuned[t][Peer(s)] # None)
                     /\ ~Is(s, "Voted", t) /\ ~Is(Peer(s), "Voted", t)
<1>1. Stations = {s, Peer(s)} /\ s # Peer(s)
  BY PeerIs
<1>2. /\ Movers(t) # {} <=> tuned[t][s] # None \/ tuned[t][Peer(s)] # None
      /\ Movers(t) # Stations <=> tuned[t][s] = None \/ tuned[t][Peer(s)] = None
  BY <1>1 DEF Movers
<1>3. (\A r \in Stations : ~Is(r, "Voted", t))
        <=> ~Is(s, "Voted", t) /\ ~Is(Peer(s), "Voted", t)
  BY <1>1
<1> QED BY <1>2, <1>3 DEF Dead

(* The same after a step.                                                  *)
LEMMA DeadNext ==
  ASSUME NEW s \in Stations, NEW t
  PROVE  Dead(t)' <=> /\ (tuned'[t][s] # None) # (tuned'[t][Peer(s)] # None)
                      /\ ~Is(s, "Voted", t)' /\ ~Is(Peer(s), "Voted", t)'
<1>1. Stations = {s, Peer(s)} /\ s # Peer(s)
  BY PeerIs
<1>2. /\ Movers(t)' # {} <=> tuned'[t][s] # None \/ tuned'[t][Peer(s)] # None
      /\ Movers(t)' # Stations <=> tuned'[t][s] = None \/ tuned'[t][Peer(s)] = None
  BY <1>1 DEF Movers
<1>3. (\A r \in Stations : ~Is(r, "Voted", t)')
        <=> ~Is(s, "Voted", t)' /\ ~Is(Peer(s), "Voted", t)'
  BY <1>1
<1> QED BY <1>2, <1>3 DEF Dead

(* A step that moves nobody: a station that could follow still can, or     *)
(* the decision is dead.                                                   *)
LEMMA QuietTogether ==
  ASSUME QInv, Together, NEW s \in Stations, NEW x, NEW out, Acts(s, x, out), Stays,
         tuned' = tuned,
         x # None /\ x.st = "Voted" /\ x.token \in Tokens
           => x = qsy_session[s] \/ Unmoved(x.token)
  PROVE  Together'
<1>1. /\ QShape /\ Seen(s, x, out) /\ rig_fails' = rig_fails
      /\ (~rig_fails => freq' = freq)
      /\ Peer(s) \in Stations /\ Peer(Peer(s)) = s /\ Peer(s) # s
      /\ \A r \in Stations : r = s \/ r = Peer(s)
  BY Zenon, ActsSeen, PeerIs DEF QInv, Acts, Stays
<1>2. SUFFICES ASSUME ~rig_fails, \A t \in Tokens : ~Dead(t)'
               PROVE  /\ (\A q \in Stations, t \in Tokens : ~Followable(q, t)')
                           => \A q, r \in Stations : freq'[q] = freq'[r]
                      /\ \A q \in Stations, t \in Tokens :
                           Followable(q, t)' => /\ freq'[Peer(q)] = tuned'[t][Peer(q)]
                                                /\ \A u \in Tokens : ~Followable(Peer(q), u)'
  BY Zenon, <1>1 DEF Together
<1>3. \A t \in Tokens : /\ Is(s, "Voted", t)' => Is(s, "Voted", t) \/ Unmoved(t)
                        /\ Is(Peer(s), "Voted", t)' <=> Is(Peer(s), "Voted", t)
  <2> TAKE t \in Tokens
  <2>1. Is(s, "Voted", t)' => x # None /\ x.st = "Voted" /\ x.token = t
    BY SMTT(30), <1>1, SessionSeen
  <2>2. Is(Peer(s), "Voted", t)' <=> Is(Peer(s), "Voted", t)
    BY Zenon, <1>1, SessionSeen
  <2> QED BY Zenon, <2>1, <2>2 DEF Is
<1>4. \A t \in Tokens : ~Dead(t)
  <2> SUFFICES ASSUME NEW t \in Tokens, Dead(t) PROVE FALSE
    BY Zenon
  <2>1. /\ (tuned[t][s] # None) # (tuned[t][Peer(s)] # None)
        /\ ~Is(s, "Voted", t) /\ ~Is(Peer(s), "Voted", t)
    BY Zenon, DeadIs
  <2>2. ~Unmoved(t)
    BY Zenon, <1>1, <2>1 DEF Unmoved
  <2>3. Dead(t)'
    BY Zenon, <1>3, <2>1, <2>2, DeadNext
  <2> QED BY <1>2, <2>3
<1>5. \A t \in Tokens : Followable(s, t)' <=> Followable(s, t)
  <2> TAKE t \in Tokens
  <2>1. Followable(s, t)' => Followable(s, t)
    BY Zenon, <1>1, <1>3 DEF Followable, Unmoved
  <2>2. ASSUME Followable(s, t), ~Is(s, "Voted", t)' PROVE FALSE
    <3>1. opener[t] = Peer(s) /\ tuned[t][s] = None /\ tuned[t][Peer(s)] # None
      BY Zenon, <2>2 DEF Followable, QInv, SessionsOk
    <3>2. ~Is(Peer(s), "Voted", t)'
      BY Zenon, <1>1, <1>3, <3>1 DEF QInv, SessionsOk
    <3>3. Dead(t)'
      BY Zenon, <2>2, <3>1, <3>2, DeadNext
    <3> QED BY <1>2, <3>3
  <2> QED BY <2>1, <2>2 DEF Followable
<1>6. \A t \in Tokens : Followable(Peer(s), t)' <=> Followable(Peer(s), t)
  BY Zenon, <1>3 DEF Followable
<1>7. \A q \in Stations, t \in Tokens : Followable(q, t)' <=> Followable(q, t)
  BY Zenon, <1>1, <1>5, <1>6
<1>8. \A q \in Stations : Peer(q) \in Stations
  BY Zenon, PeerIs
<1> QED BY Zenon, <1>1, <1>2, <1>4, <1>7, <1>8 DEF Together

(* A decision is dead at once, or the other station may follow it.         *)
LEMMA DecidesTogether ==
  ASSUME QInv, NEW s \in Stations, NEW out, NEW t \in Tokens, NEW f, Decides(s, out, t, f)
  PROVE  Together'
<1>1. /\ QShape /\ Seen(s, None, out) /\ rig_fails' = rig_fails
      /\ (~rig_fails => freq' = [freq EXCEPT ![s] = f])
      /\ tuned' = [tuned EXCEPT ![t] = [@ EXCEPT ![s] = f]] /\ f # None /\ f \in Freqs
      /\ opener[t] = s /\ Unmoved(t)
  BY Zenon, ActsSeen, QsyAssumption DEF QInv, Decides, Acts, Goes, SessionsOk
<1>2. /\ Peer(s) \in Stations /\ Peer(Peer(s)) = s /\ Peer(s) # s
      /\ \A r \in Stations : r = s \/ r = Peer(s)
  BY PeerIs
<1>3. tuned'[t][s] = f /\ tuned'[t][Peer(s)] = None
  BY <1>1, <1>2 DEF QShape, Unmoved
<1>4. \A u : ~Is(s, "Voted", u)'
  BY <1>1, SessionSeen
<1>5. SUFFICES ASSUME ~rig_fails, ~Dead(t)'
               PROVE  /\ \E q \in Stations, u \in Tokens : Followable(q, u)'
                      /\ \A q \in Stations, u \in Tokens :
                           Followable(q, u)' => /\ freq'[Peer(q)] = tuned'[u][Peer(q)]
                                                /\ \A v \in Tokens : ~Followable(Peer(q), v)'
  BY <1>1 DEF Together
<1>6. Is(Peer(s), "Voted", t)'
  BY <1>1, <1>3, <1>4, <1>5, DeadNext
<1>7. Followable(Peer(s), t)'
  BY Zenon, <1>1, <1>2, <1>3, <1>6 DEF Followable
<1>8. \A q \in Stations, u \in Tokens : Followable(q, u)' => q = Peer(s) /\ u = t
  BY <1>2, <1>4, <1>6 DEF Followable, Is
<1>9. freq'[s] = f
  BY <1>1, <1>5 DEF QShape
<1> QED BY <1>2, <1>3, <1>7, <1>8, <1>9

(* Following brings the stations together.                                 *)
LEMMA FollowsTogether ==
  ASSUME QInv, Together, NEW s \in Stations, NEW m, Follows(s, m)
  PROVE  Together'
<1> DEFINE t == m.token
           f == m.freq
<1>1. /\ QShape /\ Seen(s, None, <<>>) /\ rig_fails' = rig_fails
      /\ (~rig_fails => freq' = [freq EXCEPT ![s] = f])
      /\ tuned' = [tuned EXCEPT ![t] = [@ EXCEPT ![s] = f]]
      /\ Is(s, "Voted", t) /\ m \in Elems(inbox[s]) /\ m.type = "Ack"
  BY Zenon, ActsSeen DEF QInv, Follows, Acts, Goes
<1>2. /\ Peer(s) \in Stations /\ Peer(Peer(s)) = s /\ Peer(s) # s
      /\ \A r \in Stations : r = s \/ r = Peer(s)
  BY PeerIs
<1>3. t \in Tokens /\ FrameOk(s, m)
  BY <1>1, FrameIs DEF QInv, FramesOk
<1>4. /\ opener[t] = Peer(s) /\ tuned[t][s] = None
      /\ f # None /\ f = tuned[t][Peer(s)]
  BY <1>1, <1>3 DEF QInv, SessionsOk, FrameOk
<1> HIDE DEF t, f
<1>5. /\ \A u \in Tokens : u # t => tuned'[u] = tuned[u]
      /\ tuned'[t][s] = f /\ tuned'[t][Peer(s)] = f
  BY SMTT(30), <1>1, <1>2, <1>3, <1>4 DEF QShape
<1>6. /\ \A u : ~Is(s, "Voted", u)'
      /\ \A u : Is(Peer(s), "Voted", u)' <=> Is(Peer(s), "Voted", u)
  BY <1>1, SessionSeen
<1>7. SUFFICES ASSUME ~rig_fails, \A u \in Tokens : ~Dead(u)'
               PROVE  /\ \A q, r \in Stations : freq'[q] = freq'[r]
                      /\ \A q \in Stations, u \in Tokens : ~Followable(q, u)'
  BY <1>1 DEF Together
<1>8. \A u \in Tokens : ~Dead(u)
  <2> SUFFICES ASSUME NEW u \in Tokens, Dead(u) PROVE FALSE
    OBVIOUS
  <2>1. /\ (tuned[u][s] # None) # (tuned[u][Peer(s)] # None)
        /\ ~Is(s, "Voted", u) /\ ~Is(Peer(s), "Voted", u)
    BY DeadIs
  <2>2. u # t
    BY <1>1, <2>1
  <2>3. Dead(u)'
    BY Zenon, <1>5, <1>6, <2>1, <2>2, DeadNext
  <2> QED BY <1>7, <2>3
<1>9. Followable(s, t)
  BY <1>1, <1>4 DEF Followable
<1>10. freq[Peer(s)] = f /\ \A u \in Tokens : ~Followable(Peer(s), u)
  BY Zenon, <1>3, <1>4, <1>7, <1>8, <1>9 DEF Together
<1>11. freq'[s] = f /\ freq'[Peer(s)] = f
  BY <1>1, <1>2, <1>7, <1>10 DEF QShape
<1>12. \A u \in Tokens : ~Followable(Peer(s), u)'
  <2> SUFFICES ASSUME NEW u \in Tokens, Followable(Peer(s), u)' PROVE FALSE
    OBVIOUS
  <2>1. Is(Peer(s), "Voted", u) /\ tuned'[u][s] # None
    BY <1>2, <1>6 DEF Followable
  <2>2. opener[u] = s
    BY Zenon, <1>2, <2>1 DEF QInv, SessionsOk
  <2>3. u # t
    BY Zenon, <1>2, <1>4, <2>2
  <2>4. Followable(Peer(s), u)
    BY <1>2, <1>5, <2>1, <2>3 DEF Followable
  <2> QED BY <1>10, <2>4
<1> QED BY Zenon, <1>2, <1>6, <1>11, <1>12 DEF Followable

(* Every step keeps them together in this sense.                           *)
LEMMA TogetherStep ==
  ASSUME QInv, Together, [QsyNext]_qsyVars
  PROVE  Together'
<1>1. CASE UNCHANGED qsyVars
  BY Zenon, <1>1 DEF qsyVars, Together, Dead, Followable, Movers, Is
<1>2. CASE QsyNext
  <2>1. PICK s \in Stations : Effect(s)
    BY Zenon, <1>2, StepIs
  <2>2. CASE \E x, out : Opens(s, x, out)
    <3>1. PICK x, out : Opens(s, x, out)
      BY Zenon, <2>2
    <3> QED BY <3>1, QuietTogether DEF Opens
  <2>3. CASE \E x, out : Rests(s, x, out)
    <3>1. PICK x, out : Rests(s, x, out)
      BY <2>3
    <3> QED BY <3>1, QuietTogether DEF Rests
  <2>4. CASE \E x, m : Attends(s, x, m)
    <3>1. PICK x, m : Attends(s, x, m)
      BY Zenon, <2>4
    <3> QED BY <3>1, QuietTogether DEF Attends
  <2>5. CASE \E x, out, t : t \in Tokens /\ Votes(s, x, out, t)
    <3>1. PICK x, out, t : t \in Tokens /\ Votes(s, x, out, t)
      BY Zenon, <2>5
    <3>2. Unmoved(t)
      BY <3>1 DEF Votes, QInv, SessionsOk
    <3> QED BY <3>1, <3>2, QuietTogether DEF Votes
  <2>6. CASE \E out, t, f : t \in Tokens /\ Decides(s, out, t, f)
    BY <2>6, DecidesTogether
  <2>7. CASE \E m : Follows(s, m)
    BY <2>7, FollowsTogether
  <2> QED BY <2>1, <2>2, <2>3, <2>4, <2>5, <2>6, <2>7 DEF Effect
<1> QED BY <1>1, <1>2

(* What it says of stations that are apart.                                *)
LEMMA TogetherMeans ==
  ASSUME QInv, Together
  PROVE  ApartMeansUnfollowed
<1> SUFFICES ASSUME ~rig_fails, \A t \in Tokens : Movers(t) = {} \/ Movers(t) = Stations
             PROVE  \A s, r \in Stations : freq[s] = freq[r]
  BY DEF ApartMeansUnfollowed
<1>1. \A t \in Tokens : ~Dead(t)
  BY DEF Dead
<1>2. ASSUME NEW s \in Stations, NEW t \in Tokens, Followable(s, t) PROVE FALSE
  <2>1. tuned[t][s] = None /\ tuned[t][Peer(s)] # None /\ Peer(s) \in Stations
    BY <1>2, PeerIs DEF Followable, QInv, SessionsOk
  <2> QED BY Zenon, <2>1 DEF Movers
<1> QED BY <1>1, <1>2 DEF Together

(* Stations that began together and whose CAT commands work are apart only *)
(* while some decision has moved one of them alone: scans bring the rig    *)
(* back, and a session that is overwritten or expires, or a frame that is  *)
(* lost, moves no dial (execute_qsy_actions).                              *)
THEOREM OnlyDecisionsPart == QsySpec => []ApartMeansUnfollowed
<1>1. QsyInit => Together
  BY DEF QsyInit, Together, Followable, Is
<1> QED BY <1>1, QInvInit, QInvStep, TogetherStep, TogetherMeans, PTL DEF QsySpec
=============================================================================
