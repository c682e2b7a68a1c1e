----------------------------- MODULE PeerProofs -----------------------------
(***************************************************************************)
(* What a station learns of its peers: the dial that discovery borrows to  *)
(* look for them, for any frequencies and faults; the keys two daemons     *)
(* agree on in a handshake, for any number of attempts and losses; and     *)
(* what the PKI service's write handlers keep, for any number of requests, *)
(* any mix of them and any size of the connection pool.                    *)
(***************************************************************************)
EXTENDS Discovery, Handshake, Pki, TLAPS

-----------------------------------------------------------------------------
(* Discovery.                                                              *)

(* A dwell that nothing has spoilt knows the way home.                     *)
HomeKnown ==
  /\ disc_state \in {"Inactive", "Dwelling"} /\ disturbed \in BOOLEAN
  /\ wanted # None
  /\ disc_state = "Dwelling" /\ ~disturbed => home = wanted
  /\ DialReturns

(* Every tick, command and slot keeps it.                                  *)
LEMMA HomeStep ==
  ASSUME HomeKnown, [DiscNext]_discVars
  PROVE  HomeKnown'
<1>1. CASE UNCHANGED discVars
  BY <1>1 DEF discVars, HomeKnown, DialReturns
<1>2. CASE RendezvousDue
  BY Zenon, <1>2, FreqAssumption DEF RendezvousDue, TuneOk, TuneFails, StandDown, lifecycle, HomeKnown,
                              DialReturns
<1>3. CASE Wait \/ DwellSlot
  BY <1>3 DEF Wait, DwellSlot, HomeKnown, DialReturns
<1>4. CASE Activate
  BY Zenon, <1>4 DEF Activate, TuneOk, TuneFails, HomeKnown, DialReturns
<1>5. CASE DwellOver
  <2>1. disc_state = "Dwelling" /\ disc_state' = "Inactive" /\ wanted' = wanted
    BY <1>5 DEF DwellOver, StandDown
  <2>2. \/ home = None /\ disturbed' = disturbed
        \/ dial' = home /\ disturbed' = disturbed
        \/ disturbed' = TRUE
    BY <1>5 DEF DwellOver, RestoreHome, TuneOk
  <2> QED BY Zenon, <2>1, <2>2 DEF HomeKnown, DialReturns
<1>6. CASE \E on \in BOOLEAN : SetDiscoveryEnabled(on)
  BY Zenon, <1>6 DEF SetDiscoveryEnabled, StandDown, lifecycle, HomeKnown, DialReturns
<1>7. CASE \E f \in OperatorFreqs : SetFreq(f) \/ QsyMoves(f)
  <2>1. PICK f \in OperatorFreqs : SetFreq(f) \/ QsyMoves(f)
    BY <1>7
  <2>2. disc_state' = disc_state /\ f # None
    BY <2>1, FreqAssumption DEF SetFreq, QsyMoves, lifecycle
  <2>3. \/ dial' = f /\ wanted' = f /\ disturbed' = (disc_state = "Dwelling")
        \/ wanted' = wanted /\ disturbed' = TRUE
    BY <2>1 DEF SetFreq, QsyMoves, TuneOk
  <2> QED BY Zenon, <2>2, <2>3 DEF HomeKnown, DialReturns
<1>8. CASE SessionStarts \/ SessionEnds \/ Slot
  BY <1>8 DEF SessionStarts, SessionEnds, Slot, lifecycle, HomeKnown, DialReturns
<1> QED BY <1>1, <1>2, <1>3, <1>4, <1>5, <1>6, <1>7, <1>8 DEF DiscNext, DiscoveryTick

(* A station that is not dwelling is where it was last sent by SetFreq, a  *)
(* QSY or a rendezvous, unless the return was spoilt, and this for any     *)
(* frequencies, times, beacons and CAT faults (O::Retune, O::RestoreHome). *)
THEOREM DialComesBack == DiscSpec => []DialReturns
<1>1. DiscInit => HomeKnown
  BY Zenon, FreqAssumption DEF DiscInit, HomeKnown, DialReturns
<1>2. HomeKnown => DialReturns
  BY DEF HomeKnown
<1> QED BY <1>1, <1>2, HomeStep, PTL DEF DiscSpec

-----------------------------------------------------------------------------
(* The handshake.                                                          *)

Letters == [type : {"ConReq", "ConAck"}, from : Daemons, dial : Nat, kex : Nat]

Post(q) == {q[i] : i \in 1 .. Len(q)}

HsShape ==
  /\ contacts \in Contacts
  /\ mail \in [Daemons -> Seq(Letters)]
  /\ verified \in [Daemons -> SUBSET Daemons]
  /\ pending \in [Daemons -> {None} \cup [dial : Nat, peer : Daemons, age : Nat]]
  /\ dials \in Nat
  /\ \A d \in armed : d.at \in Daemons

(* Somebody has armed the key of dial d as the responder of s, and has     *)
(* recorded s.                                                             *)
ArmedFor(r, s, d) ==
  /\ [at |-> r, with |-> s, role |-> "responder", key |-> <<d, d>>] \in armed
  /\ s \in verified[r]

(* A letter's ephemeral is its dial's, and a CONACK is on its way only     *)
(* from a station that armed the key and recorded the dialler.             *)
LettersOk ==
  \A s \in Daemons : \A m \in Post(mail[s]) :
    m.kex = m.dial /\ (m.type = "ConAck" => ArmedFor(m.from, s, m.dial))

HsInv == HsShape /\ LettersOk /\ DiallersKeyIsShared

(* Taking a letter out and posting some.                                   *)
LEMMA PostIs ==
  ASSUME NEW S, NEW p \in Seq(S), NEW q \in Seq(S)
  PROVE  /\ p # <<>> => Tail(p) \in Seq(S) /\ Post(Tail(p)) \subseteq Post(p) /\ Head(p) \in Post(p)
         /\ p \o q \in Seq(S) /\ Post(p \o q) \subseteq Post(p) \cup Post(q)
         /\ Post(p) \subseteq S
<1>1. p # <<>> => Tail(p) \in Seq(S) /\ Post(Tail(p)) \subseteq Post(p) /\ Head(p) \in Post(p)
  BY DEF Post
<1>2. p \o q \in Seq(S) /\ Len(p \o q) = Len(p) + Len(q)
  OBVIOUS
<1>3. Post(p \o q) \subseteq Post(p) \cup Post(q)
  BY <1>2 DEF Post
<1> QED BY SMTT(30), <1>1, <1>2, <1>3 DEF Post

(* What arrives of a letter is the letter, once, or nothing, and only if   *)
(* it was transmitted.                                                     *)
LEMMA ArrivalIs ==
  ASSUME NEW m \in Letters, NEW gone \in BOOLEAN, NEW h \in Arrivals(gone, m)
  PROVE  h \in Seq(Letters) /\ Post(h) \subseteq {m} /\ (~gone => Post(h) = {})
<1>1. h \in {<<>>, <<m>>} /\ (~gone => h = <<>>)
  BY DEF Arrivals
<1>2. CASE h = <<>>
  BY <1>2 DEF Post
<1>3. CASE h = <<m>>
  BY <1>1, <1>3 DEF Post
<1> QED BY <1>1, <1>2, <1>3

(* A step forgets no key and no station, and s posts out to r.             *)
Grows ==
  armed \subseteq armed' /\ \A r \in Daemons : verified[r] \subseteq verified'[r]

Posts(r, out) ==
  /\ mail' \in [Daemons -> Seq(Letters)]
  /\ \A q \in Daemons : \A m \in Post(mail'[q]) : m \in Post(mail[q]) \/ (q = r /\ m \in out)

(* Letters stay right while nothing is forgotten.                          *)
LEMMA LettersKept ==
  ASSUME HsShape, LettersOk, Grows, NEW r, NEW out, Posts(r, out),
         \A m \in out : m.kex = m.dial /\ (m.type = "ConAck" => ArmedFor(m.from, r, m.dial)')
  PROVE  LettersOk'
<1> SUFFICES ASSUME NEW s \in Daemons, NEW m \in Post(mail[s])'
             PROVE  m.kex = m.dial /\ (m.type = "ConAck" => ArmedFor(m.from, s, m.dial)')
  BY DEF LettersOk
<1>1. CASE m \in Post(mail[s])
  <2>1. m.kex = m.dial /\ (m.type = "ConAck" => ArmedFor(m.from, s, m.dial))
    BY <1>1 DEF LettersOk
  <2>2. Post(mail[s]) \subseteq Letters
    BY PostIs DEF HsShape
  <2>3. m.from \in Daemons
    BY <1>1, <2>2 DEF Letters
  <2> QED BY <2>1, <2>3 DEF ArmedFor, Grows
<1>2. CASE s = r /\ m \in out
  BY <1>2
<1> QED BY <1>1, <1>2 DEF Posts

(* A step that arms no dialler's key keeps the keys shared.                *)
LEMMA SharedKept ==
  ASSUME DiallersKeyIsShared, Grows,
         \A d \in armed' : d.role = "dialler" => d \in armed,
         \A d \in armed : d.at \in Daemons
  PROVE  DiallersKeyIsShared'
BY DEF DiallersKeyIsShared, Grows

(* The three ways a step can go: nothing is armed and at most a CONREQ is  *)
(* posted, a CONREQ is taken, or a CONACK is taken and answers.            *)

(* Letters wait where they were, or fewer of them.                         *)
LEMMA PostsLess ==
  ASSUME HsShape, mail' \in [Daemons -> Seq(Letters)],
         \A q \in Daemons : mail'[q] = mail[q] \/ (mail[q] # <<>> /\ mail'[q] = Tail(mail[q]))
  PROVE  Posts(None, {})
<1> SUFFICES ASSUME NEW q \in Daemons PROVE Post(mail'[q]) \subseteq Post(mail[q])
  BY DEF Posts
<1>1. mail[q] \in Seq(Letters)
  BY DEF HsShape
<1>2. mail[q] # <<>> => Post(Tail(mail[q])) \subseteq Post(mail[q])
  BY <1>1, PostIs
<1> QED BY Zenon, <1>2

(* A step that arms nothing.                                               *)
LEMMA IdleKeeps ==
  ASSUME HsInv, HsShape', UNCHANGED <<armed, verified>>, NEW r, NEW out, Posts(r, out),
         \A m \in out : m.kex = m.dial /\ m.type = "ConReq"
  PROVE  HsInv'
<1>1. Grows
  BY DEF Grows
<1>2. LettersOk'
  BY <1>1, LettersKept DEF HsInv
<1>3. DiallersKeyIsShared'
  BY DEF HsInv, DiallersKeyIsShared
<1> QED BY <1>2, <1>3 DEF HsInv

(* What time does to a pending handshake keeps its type.                   *)
LEMMA PendingKept ==
  ASSUME HsShape, NEW s \in Daemons
  PROVE  /\ [pending EXCEPT ![s] = ExpirePending(s, @)]
              \in [Daemons -> {None} \cup [dial : Nat, peer : Daemons, age : Nat]]
         /\ [pending EXCEPT ![s] = None]
              \in [Daemons -> {None} \cup [dial : Nat, peer : Daemons, age : Nat]]
<1>1. pending[s] \in {None} \cup [dial : Nat, peer : Daemons, age : Nat]
  BY DEF HsShape
<1>2. ExpirePending(s, pending[s]) \in {None, pending[s]}
  BY DEF ExpirePending
<1> QED BY <1>1, <1>2 DEF HsShape

(* Dialling posts a CONREQ.                                                *)
LEMMA ConnectKeeps ==
  ASSUME HsInv, NEW s \in Daemons, NEW r \in Daemons, ConnectPeer(s, r), UNCHANGED contacts
  PROVE  HsInv'
<1> DEFINE d == dials + 1
           m == ConReq(d, s)
<1>1. d \in Nat /\ HsShape
  BY DEF HsInv, HsShape
<1>2. m \in Letters /\ m.kex = m.dial /\ m.type = "ConReq"
  BY <1>1 DEF ConReq, Letters
<1>3. PICK gone \in BOOLEAN : \E h \in Arrivals(gone, m) : mail' = [mail EXCEPT ![r] = @ \o h]
  BY Zenon DEF ConnectPeer
<1>4. PICK h \in Arrivals(gone, m) : mail' = [mail EXCEPT ![r] = @ \o h]
  BY Zenon, <1>3
<1>5. /\ dials' = d /\ UNCHANGED <<verified, armed>>
      /\ pending' = [pending EXCEPT ![s] = [dial |-> d, peer |-> r, age |-> 0]]
  BY DEF ConnectPeer
<1> HIDE DEF d, m
<1>6. h \in Seq(Letters) /\ Post(h) \subseteq {m} /\ mail[r] \in Seq(Letters)
  BY SMTT(30), <1>1, <1>2, ArrivalIs DEF HsShape
<1>7. mail[r] \o h \in Seq(Letters) /\ Post(mail[r] \o h) \subseteq Post(mail[r]) \cup {m}
  BY <1>6, PostIs
<1>8. Posts(r, {m})
  BY <1>1, <1>4, <1>7 DEF Posts, HsShape
<1>9. HsShape'
  BY Zenon, <1>1, <1>5, <1>8 DEF HsShape, Posts
<1> QED BY <1>2, <1>5, <1>8, <1>9, IdleKeeps

(* The responder arms the key, then acknowledges.                          *)
LEMMA ConReqKeeps ==
  ASSUME HsInv, NEW s \in Daemons, mail[s] # <<>>, Head(mail[s]).type = "ConReq",
         OnConReq(s, Head(mail[s])), UNCHANGED <<contacts, dials>>
  PROVE  HsInv'
<1>0. PICK m : m = Head(mail[s])
  OBVIOUS
<1> DEFINE r == m.from
           ack == ConAck(m, s)
           rec == [at |-> s, with |-> r, role |-> "responder", key |-> <<m.kex, m.dial>>]
<1>1. HsShape /\ LettersOk /\ mail[s] \in Seq(Letters) /\ Tail(mail[s]) \in Seq(Letters)
  BY DEF HsInv, HsShape
<1>2. m \in Post(mail[s]) /\ m \in Letters
  BY <1>0, <1>1, PostIs
<1>3. m.kex = m.dial /\ r \in Daemons /\ m.dial \in Nat
  BY <1>1, <1>2 DEF LettersOk, Letters
<1>4. ack \in Letters /\ ack.kex = ack.dial /\ ack.dial = m.dial /\ ack.from = s
  BY <1>3 DEF ConAck, Letters
<1>5. PICK gone \in BOOLEAN : \E h \in Arrivals(gone, ack) :
        /\ verified' = [verified EXCEPT ![s] = IF gone THEN @ \cup {r} ELSE @]
        /\ mail' = [mail EXCEPT ![s] = Tail(@), ![r] = @ \o h]
  BY Zenon, <1>0 DEF OnConReq, TxOutcomes
<1>6. PICK h \in Arrivals(gone, ack) :
        /\ verified' = [verified EXCEPT ![s] = IF gone THEN @ \cup {r} ELSE @]
        /\ mail' = [mail EXCEPT ![s] = Tail(@), ![r] = @ \o h]
  BY Zenon, <1>5
<1>7. armed' = armed \cup {rec} /\ pending' = [pending EXCEPT ![s] = ExpirePending(s, @)]
  BY Zenon, <1>0 DEF OnConReq, Arm
<1>8. rec.at = s /\ rec.role = "responder"
  OBVIOUS
<1>9. rec = [at |-> s, with |-> r, role |-> "responder", key |-> <<m.dial, m.dial>>]
  BY <1>3
<1> HIDE DEF r, ack, rec
<1>10. h \in Seq(Letters) /\ Post(h) \subseteq {ack} /\ (~gone => Post(h) = {})
  BY <1>4, ArrivalIs
<1>11. /\ verified' \in [Daemons -> SUBSET Daemons]
       /\ \A q \in Daemons : verified[q] \subseteq verified'[q]
       /\ gone => r \in verified'[s]
  BY <1>1, <1>3, <1>6 DEF HsShape
<1>12. Posts(r, Post(h))
  <2>1. CASE r = s
    <3>1. /\ mail'[s] = Tail(mail[s]) \o h
          /\ \A q \in Daemons : q # s => mail'[q] = mail[q]
      BY <1>1, <1>6, <2>1 DEF HsShape
    <3>2. Tail(mail[s]) \o h \in Seq(Letters)
      BY <1>1, <1>10
    <3>3. Post(Tail(mail[s]) \o h) \subseteq Post(mail[s]) \cup Post(h)
      <4>1. PICK q \in Seq(Letters) : q = Tail(mail[s])
        BY Zenon, <1>1
      <4>2. Post(q \o h) \subseteq Post(q) \cup Post(h)
        BY <1>10, PostIs
      <4>3. Post(Tail(mail[s])) \subseteq Post(mail[s])
        BY <1>1, PostIs
      <4> QED BY <4>1, <4>2, <4>3
    <3>4. mail' \in [Daemons -> Seq(Letters)]
      BY <1>1, <1>6, <2>1, <3>2 DEF HsShape
    <3> QED BY Zenon, <2>1, <3>1, <3>3, <3>4 DEF Posts
  <2>2. CASE r # s
    <3>1. mail[r] \in Seq(Letters)
      BY <1>1, <1>3 DEF HsShape
    <3>2. /\ mail'[s] = Tail(mail[s]) /\ mail'[r] = mail[r] \o h
          /\ \A q \in Daemons : q # s /\ q # r => mail'[q] = mail[q]
      BY <1>1, <1>3, <1>6, <2>2 DEF HsShape
    <3>3. mail[r] \o h \in Seq(Letters) /\ Post(mail[r] \o h) \subseteq Post(mail[r]) \cup Post(h)
      BY <1>10, <3>1, PostIs
    <3>4. Post(Tail(mail[s])) \subseteq Post(mail[s])
      BY <1>1, PostIs
    <3>5. mail' \in [Daemons -> Seq(Letters)]
      BY Zenon, <1>1, <1>3, <1>6, <2>2, <3>3 DEF HsShape
    <3> QED BY Zenon, <2>2, <3>2, <3>3, <3>4, <3>5 DEF Posts
  <2> QED BY <2>1, <2>2
<1>13. Grows
  BY <1>7, <1>11 DEF Grows
<1>14. gone => ArmedFor(s, r, m.dial)'
  BY <1>7, <1>9, <1>11 DEF ArmedFor
<1>15. LettersOk'
  <2>1. \A n \in Post(h) : n.kex = n.dial /\ (n.type = "ConAck" => ArmedFor(n.from, r, n.dial)')
    BY Zenon, <1>4, <1>10, <1>14
  <2> QED BY <1>1, <1>12, <1>13, <2>1, LettersKept
<1>16. DiallersKeyIsShared'
  BY <1>1, <1>7, <1>8, <1>13, SharedKept DEF HsInv, HsShape
<1>17. HsShape'
  BY Zenon, <1>1, <1>7, <1>8, <1>11, <1>12, PendingKept DEF HsShape, Posts
<1> QED BY <1>15, <1>16, <1>17 DEF HsInv

(* The dialler arms the key of the CONACK that answers its CONREQ.         *)
LEMMA ConAckKeeps ==
  ASSUME HsInv, NEW s \in Daemons, mail[s] # <<>>, Head(mail[s]).type = "ConAck",
         OnConAck(s, Head(mail[s])), UNCHANGED <<contacts, dials>>
  PROVE  HsInv'
<1>1. PICK m : m = Head(mail[s])
  OBVIOUS
<1>2. HsShape /\ LettersOk /\ mail[s] \in Seq(Letters) /\ Tail(mail[s]) \in Seq(Letters)
  BY DEF HsInv, HsShape
<1>3. m \in Post(mail[s]) /\ m \in Letters /\ m.type = "ConAck"
  BY <1>1, <1>2, PostIs
<1>4. m.kex = m.dial /\ ArmedFor(m.from, s, m.dial) /\ m.from \in Daemons
  BY <1>2, <1>3 DEF LettersOk, Letters
<1>5. mail' = [mail EXCEPT ![s] = Tail(@)]
  BY DEF OnConAck
<1>6. mail' \in [Daemons -> Seq(Letters)] /\ Posts(None, {})
  <2>1. mail' \in [Daemons -> Seq(Letters)]
    BY <1>2, <1>5 DEF HsShape
  <2>2. \A q \in Daemons : mail'[q] = mail[q] \/ (mail[q] # <<>> /\ mail'[q] = Tail(mail[q]))
    BY <1>2, <1>5 DEF HsShape
  <2> QED BY <1>2, <2>1, <2>2, PostsLess
<1>7. CASE Answers(s, m)
  <2> DEFINE rec == [at |-> s, with |-> m.from, role |-> "dialler",
                     key |-> <<pending[s].dial, m.kex>>]
  <2>1. /\ armed' = armed \cup {rec}
        /\ verified' = [verified EXCEPT ![s] = @ \cup {m.from}]
        /\ pending' = [pending EXCEPT ![s] = None]
    BY SMTT(30), <1>1, <1>7 DEF OnConAck, Arm
  <2>2. rec.at = s /\ rec.with = m.from /\ rec.key = <<m.dial, m.dial>>
    BY SMTT(30), <1>4, <1>7 DEF Answers
  <2> HIDE DEF rec
  <2>3. /\ verified' \in [Daemons -> SUBSET Daemons]
        /\ \A q \in Daemons : verified[q] \subseteq verified'[q]
    BY <1>2, <1>4, <2>1 DEF HsShape
  <2>4. Grows
    BY Zenon, <2>1, <2>3 DEF Grows
  <2>5. HsShape'
    BY SMTT(30), <1>2, <1>6, <2>1, <2>2, <2>3, PendingKept DEF HsShape
  <2>6. LettersOk'
    BY <1>2, <1>6, <2>4, LettersKept
  <2>7. PICK r : r = [at |-> m.from, with |-> s, role |-> "responder",
                      key |-> <<m.dial, m.dial>>]
    BY Zenon
  <2>8. /\ r \in armed' /\ r.role = "responder" /\ r.key = <<m.dial, m.dial>>
        /\ r.at = m.from /\ r.with = s /\ s \in verified'[m.from]
    BY <1>4, <2>1, <2>3, <2>7 DEF ArmedFor
  <2>9. \A d \in armed : d.role = "dialler" =>
          \E q \in armed' : /\ q.role = "responder" /\ q.key = d.key
                            /\ q.at = d.with /\ q.with = d.at
                            /\ d.at \in verified'[q.at]
    <3>1. \A q \in armed : q.at \in Daemons /\ q \in armed'
      BY <1>2, <2>1 DEF HsShape
    <3> QED BY <2>3, <3>1 DEF HsInv, DiallersKeyIsShared
  <2>10. DiallersKeyIsShared'
    BY SMTT(30), <2>1, <2>2, <2>8, <2>9 DEF DiallersKeyIsShared
  <2> QED BY Zenon, <2>5, <2>6, <2>10 DEF HsInv
<1>8. CASE ~Answers(s, m)
  <2>1. /\ UNCHANGED <<armed, verified>>
        /\ pending' = [pending EXCEPT ![s] = ExpirePending(s, @)]
    BY <1>1, <1>8 DEF OnConAck
  <2>2. HsShape'
    BY SMTT(30), <1>2, <1>6, <2>1, PendingKept DEF HsShape
  <2> QED BY <1>6, <2>1, <2>2, IdleKeeps
<1> QED BY <1>7, <1>8

(* Every step keeps the handshake's invariant.                             *)
LEMMA HsStep ==
  ASSUME HsInv, [HsNext]_hsVars
  PROVE  HsInv'
<1>1. HsShape
  BY Zenon DEF HsInv
<1>2. ASSUME UNCHANGED <<contacts, mail, verified, armed>>, dials' \in Nat,
             pending' \in [Daemons -> {None} \cup [dial : Nat, peer : Daemons, age : Nat]]
      PROVE  HsInv'
  <2>1. Posts(None, {})
    BY <1>1, <1>2, PostsLess DEF HsShape
  <2>2. HsShape'
    BY <1>1, <1>2 DEF HsShape
  <2> QED BY <1>2, <2>1, <2>2, IdleKeeps
<1>3. CASE UNCHANGED hsVars
  BY <1>1, <1>2, <1>3 DEF hsVars, HsShape
<1>4. ASSUME NEW c \in contacts, UNCHANGED contacts,
             ConnectPeer(c[1], c[2]) \/ ConnectRefused(c[1], c[2])
      PROVE  HsInv'
  <2>1. c[1] \in Daemons /\ c[2] \in Daemons
    BY <1>1, <1>4, ContactsAssumption DEF HsShape
  <2>2. CASE ConnectPeer(c[1], c[2])
    BY <1>4, <2>1, <2>2, ConnectKeeps
  <2>3. CASE ConnectRefused(c[1], c[2])
    BY <1>1, <1>2, <1>4, <2>3 DEF ConnectRefused, HsShape
  <2> QED BY <1>4, <2>2, <2>3
<1>5. ASSUME NEW s \in Daemons, UNCHANGED contacts,
             DisconnectPeer(s) \/ ReceiveTick(s) \/ QuietTick(s)
      PROVE  HsInv'
  <2>1. CASE DisconnectPeer(s)
    BY Zenon, <1>1, <1>2, <1>5, <2>1 DEF DisconnectPeer, HsShape
  <2>2. CASE ReceiveTick(s)
    <3>1. /\ mail[s] # <<>> /\ dials' = dials
          /\ \/ Head(mail[s]).type = "ConReq" /\ OnConReq(s, Head(mail[s]))
             \/ Head(mail[s]).type = "ConAck" /\ OnConAck(s, Head(mail[s]))
      BY <2>2 DEF ReceiveTick
    <3> QED BY Zenon, <1>5, <3>1, ConReqKeeps, ConAckKeeps
  <2>3. CASE QuietTick(s)
    <3>1. /\ UNCHANGED <<mail, verified, armed, dials>>
          /\ pending' = [pending EXCEPT ![s] = ExpirePending(s, @)]
      BY <2>3 DEF QuietTick
    <3>2. /\ dials' \in Nat
          /\ pending' \in [Daemons -> {None} \cup [dial : Nat, peer : Daemons, age : Nat]]
      BY <1>1, <3>1, PendingKept DEF HsShape
    <3> QED BY <1>2, <1>5, <3>1, <3>2
  <2> QED BY <1>5, <2>1, <2>2, <2>3
<1>6. ASSUME HsClock, UNCHANGED contacts PROVE HsInv'
  <2> DEFINE older(p) == IF p = None THEN None
                         ELSE [p EXCEPT !.age = IF @ < HsTimeout THEN @ + 1 ELSE @]
  <2>1. /\ pending' = [s \in Daemons |-> older(pending[s])]
        /\ UNCHANGED <<mail, verified, armed, dials>>
    BY <1>6 DEF HsClock
  <2>2. ASSUME NEW s \in Daemons
        PROVE  older(pending[s]) \in {None} \cup [dial : Nat, peer : Daemons, age : Nat]
    <3>1. PICK p \in {None} \cup [dial : Nat, peer : Daemons, age : Nat] : p = pending[s]
      BY <1>1 DEF HsShape
    <3>2. CASE p = None
      BY <3>1, <3>2
    <3>3. CASE p # None
      <4> DEFINE a == IF p.age < HsTimeout THEN p.age + 1 ELSE p.age
      <4>1. p \in [dial : Nat, peer : Daemons, age : Nat] /\ a \in Nat
        BY <3>3
      <4>2. older(p) = [p EXCEPT !.age = a]
        BY <3>3
      <4> HIDE DEF a, older
      <4> QED BY <3>1, <4>1, <4>2
    <3> QED BY <3>2, <3>3
  <2> HIDE DEF older
  <2>3. pending' \in [Daemons -> {None} \cup [dial : Nat, peer : Daemons, age : Nat]]
    BY <2>1, <2>2
  <2> QED BY <1>1, <1>2, <1>6, <2>1, <2>3 DEF HsShape
<1> QED BY <1>3, <1>4, <1>5, <1>6 DEF HsNext

(* Whatever is lost, late or dialled again, and whoever dials whom, a key  *)
(* that the dialling daemon arms on a CONACK has been armed by the daemon  *)
(* it dialled, which has recorded it as verified (handle_inbound_conreq,   *)
(* handle_inbound_conack).                                                 *)
THEOREM DiallersShareKeys == HsSpec => []DiallersKeyIsShared
<1>1. HsInit => HsInv
  <2> HAVE HsInit
  <2>1. <<>> \in Seq(Letters) /\ Post(<<>>) = {}
    BY DEF Post
  <2>2. HsShape
    BY <2>1 DEF HsInit, HsShape
  <2> QED BY <2>1, <2>2 DEF HsInit, HsInv, LettersOk, DiallersKeyIsShared
<1>2. HsInv => DiallersKeyIsShared
  BY DEF HsInv
<1> QED BY <1>1, <1>2, HsStep, PTL DEF HsSpec

-----------------------------------------------------------------------------
(* The PKI service.                                                        *)

Entities == Requests \cup Published
Places == {"check", "validate", "begin", "work", "missing", "clear", "clearing",
           "set", "index", "commit", "track", "done"}
Statuses == {"ok", "invalid", "conflict", "missing", "error"}
Replies == [status : Statuses, op : Ops, entity : Entities]
Jobs == [pc : Places, seen : SUBSET Entities, cleared : SUBSET Entities,
         reply : Replies \cup {None}]
Tracks == [op : Ops, reply : Replies, live : BOOLEAN]

(* The database and the handlers have their types; only a request with an  *)
(* id looks it up.                                                         *)
Shape ==
  /\ load \in Loads
  /\ job \in [Requests -> Jobs]
  /\ rows \subseteq Ops \X Entities
  /\ current \subseteq Entities
  /\ tracking \in [RequestIds -> Tracks \cup {None}]
  /\ \A r \in Requests : job[r].pc = "check" => Id(r) # None

(* HttpReply: what a handler can answer is a reply.                        *)
LEMMA RepliesTyped ==
  ASSUME load \in Loads, NEW r \in Requests, NEW status \in Statuses
  PROVE  /\ Op(r) \in Ops
         /\ Entity(r) \in Entities
         /\ HttpReply(r, status) \in Replies
         /\ Id(r) \in RequestIds \cup {None}
  BY LoadsAssumption DEF Op, Entity, HttpReply, Id, RequestIds, Entities, Replies

(* A handler's end, with or without a reply, and a move to a later place   *)
(* keep the handlers typed.                                                *)
JobsOK == job \in [Requests -> Jobs] /\ \A r \in Requests : job[r].pc = "check" => Id(r) # None

(* A handler that ends, with a reply or without, leaves the handlers       *)
(* typed.                                                                  *)
LEMMA EndTyped ==
  ASSUME Shape, NEW r \in Requests, NEW reply \in Replies \cup {None}, End(r, reply),
         UNCHANGED load
  PROVE  JobsOK'
  BY DEF Shape, End, Jobs, Places, JobsOK, Id

(* So does one that moves on to a later statement.                         *)
LEMMA GotoTyped ==
  ASSUME Shape, NEW r \in Requests, NEW pc \in Places \ {"check"}, Goto(r, pc),
         UNCHANGED load
  PROVE  JobsOK'
  BY DEF Shape, Goto, Jobs, JobsOK, Id

(* request_tracking keeps its type when a reply is tracked.                *)
LEMMA TrackedTyped ==
  ASSUME Shape, NEW r \in Requests, NEW status \in Statuses
  PROVE  Tracked(r, status) \in [RequestIds -> Tracks \cup {None}]
<1>1. HttpReply(r, status) \in Replies /\ Op(r) \in Ops /\ Id(r) \in RequestIds \cup {None}
  BY RepliesTyped DEF Shape
<1> QED BY <1>1 DEF Shape, Tracked, Tracks

(* Every step of a handler keeps the database and the handlers typed.      *)
LEMMA StepTyped ==
  ASSUME Shape, NEW r \in Requests,
         HandlerStep(r) \/ TrackFails(r) \/ DbError(r) \/ Abandon(r)
  PROVE  Shape'
<1>1. /\ Op(r) \in Ops /\ Entity(r) \in Entities
      /\ \A status \in Statuses : HttpReply(r, status) \in Replies
      /\ Id(r) \in RequestIds \cup {None}
  <2>1. load \in Loads BY DEF Shape
  <2>2. \A status \in Statuses : HttpReply(r, status) \in Replies
    BY <2>1, RepliesTyped
  <2>3. "ok" \in Statuses BY DEF Statuses
  <2> QED BY <2>1, <2>2, <2>3, RepliesTyped
<1>2. ASSUME NEW reply \in Replies \cup {None}, End(r, reply),
             UNCHANGED <<load, rows, current, tracking>>
      PROVE  Shape'
  BY <1>2, EndTyped DEF Shape, JobsOK
<1>3. ASSUME NEW status \in Statuses, End(r, HttpReply(r, status)),
             UNCHANGED <<load, rows, current, tracking>>
      PROVE  Shape'
  BY <1>1, <1>2, <1>3
<1>4. ASSUME NEW pc \in Places \ {"check"}, Goto(r, pc),
             UNCHANGED <<load, rows, current, tracking>>
      PROVE  Shape'
  BY <1>4, GotoTyped DEF Shape, JobsOK
<1>5. ASSUME NEW status \in Statuses, End(r, HttpReply(r, status)),
             tracking' = Tracked(r, status), UNCHANGED <<load, rows, current>>
      PROVE  Shape'
  BY <1>1, <1>5, EndTyped, TrackedTyped DEF Shape, JobsOK
<1>6. CASE CheckTracking(r)
  <2>1. CASE \E pc \in Places \ {"check"} : Goto(r, pc)
    BY Zenon, <1>4, <1>6, <2>1 DEF CheckTracking
  <2>2. CASE End(r, HttpReply(r, "conflict"))
    BY Zenon, <1>3, <1>6, <2>2 DEF CheckTracking, Statuses
  <2>3. CASE tracking[Id(r)] # None /\ End(r, tracking[Id(r)].reply)
    <3>1. Id(r) \in RequestIds
      BY <1>1, <1>6 DEF CheckTracking, Shape
    <3>2. tracking[Id(r)].reply \in Replies
      BY Zenon, <2>3, <3>1 DEF Shape, Tracks
    <3> QED BY Zenon, <1>2, <1>6, <2>3, <3>2 DEF CheckTracking
  <2> QED BY Zenon, <1>6, <2>1, <2>2, <2>3 DEF CheckTracking, Places
<1>7. CASE Validate(r)
  BY Zenon, <1>3, <1>4, <1>7 DEF Validate, Places, Statuses
<1>8. CASE BeginTx(r)
  BY Zenon, <1>4, <1>8 DEF BeginTx, Places
<1>9. CASE \E op \in Ops : Insert(r, op)
  BY Zenon, <1>4, <1>9 DEF Insert, Places
<1>10. CASE Moderate(r)
  BY Zenon, <1>3, <1>4, <1>10 DEF Moderate, Places, Statuses
<1>11. CASE PromoteSelect(r)
  BY Zenon, <1>4, <1>11 DEF PromoteSelect, Places
<1>12. CASE PromoteClear(r)
  <2>1. job'[r] \in Jobs /\ job'[r].pc # "check"
    BY Zenon, <1>12 DEF PromoteClear, Shape, Jobs, Places
  <2> QED BY <1>12, <2>1 DEF PromoteClear, Shape, Id
<1>13. CASE PromoteCleared(r)
  <2>1. job'[r] \in Jobs /\ job'[r].pc # "check"
    BY Zenon, <1>13 DEF PromoteCleared, Shape, Jobs, Places
  <2> QED BY <1>13, <2>1 DEF PromoteCleared, Shape, Id
<1>14. CASE PromoteSet(r)
  BY Zenon, <1>4, <1>14 DEF PromoteSet, Places
<1>15. CASE PromoteIndexed(r)
  BY Zenon, <1>3, <1>4, <1>15 DEF PromoteIndexed, Places, Statuses
<1>16. CASE Commit(r)
  <2>1. JobsOK'
    <3>1. CASE Op(r) \in TrackedOps
      <4>1. job'[r] \in Jobs /\ job'[r].pc # "check"
        BY <1>16, <3>1 DEF Commit, Shape, Jobs, Places
      <4> QED BY <1>16, <3>1, <4>1 DEF Commit, Shape, JobsOK, Id
    <3>2. CASE End(r, HttpReply(r, "ok"))
      BY <1>1, <1>16, <3>2, EndTyped DEF Commit, Statuses
    <3> QED BY <1>16, <3>1, <3>2 DEF Commit
  <2>2. current' \subseteq Entities
    BY <1>1, <1>16 DEF Commit, Promoted, Shape
  <2> QED BY <1>1, <1>16, <2>1, <2>2 DEF Commit, Shape, JobsOK
<1>17. CASE Track(r)
  BY Zenon, <1>5, <1>17 DEF Track, Statuses
<1>18. CASE TrackFails(r)
  BY Zenon, <1>3, <1>18 DEF TrackFails, Statuses
<1>19. CASE DbError(r)
  BY Zenon, <1>3, <1>19 DEF DbError, Statuses
<1>20. CASE Abandon(r)
  BY Zenon, <1>2, <1>20 DEF Abandon
<1> QED
  BY <1>6, <1>7, <1>8, <1>9, <1>10, <1>11, <1>12, <1>13, <1>14, <1>15, <1>16, <1>17,
     <1>18, <1>19, <1>20
     DEF HandlerStep, create_submission, create_revocation, publish_trust_bundle,
         create_session_audit_event, Ops

(* Tables, handlers and pool keep their shape in every behaviour.          *)
LEMMA PkiTyped == PkiSpec => []Shape
<1>1. PkiInit => Shape
  <2> SUFFICES ASSUME PkiInit PROVE Shape
    OBVIOUS
  <2>1. current \subseteq Published /\ rows \subseteq Ops \X Entities
    <3>1. current \subseteq Published
      BY Zenon DEF PkiInit
    <3>2. {"publish", "promote"} \subseteq Ops /\ Published \subseteq Entities
      BY DEF Ops, Entities
    <3>3. rows = {<<"publish", e>> : e \in Published} \cup {<<"promote", e>> : e \in current}
      BY Zenon DEF PkiInit
    <3> QED BY <3>1, <3>2, <3>3
  <2>2. job \in [Requests -> Jobs]
    BY Zenon DEF PkiInit, Jobs, Places
  <2>3. \A r \in Requests : job[r].pc = "check" => Id(r) # None
    BY DEF PkiInit
  <2> QED BY Zenon, <2>1, <2>2, <2>3 DEF PkiInit, Shape, Entities
<1>2. Shape /\ [PkiNext]_pkiVars => Shape'
  <2> SUFFICES ASSUME Shape, [PkiNext]_pkiVars PROVE Shape'
    OBVIOUS
  <2>1. ASSUME NEW x \in RequestIds, TrackingExpires(x) PROVE Shape'
    <3>1. tracking'[x] \in Tracks
      BY Zenon, <2>1 DEF TrackingExpires, Shape, Tracks
    <3> QED BY <2>1, <3>1 DEF TrackingExpires, Shape, Id
  <2>2. CASE UNCHANGED pkiVars
    BY Zenon, <2>2 DEF pkiVars, Shape, Id
  <2> QED BY <2>1, <2>2, StepTyped DEF PkiNext
<1> QED BY <1>1, <1>2, PTL DEF PkiSpec

-----------------------------------------------------------------------------
(* What a step leaves to the other requests.                               *)
LEMMA StepIsOwn ==
  ASSUME Shape, NEW r \in Requests,
         HandlerStep(r) \/ TrackFails(r) \/ DbError(r) \/ Abandon(r)
  PROVE  load' = load /\ \A o \in Requests \ {r} : job'[o] = job[o]
  BY DEF Shape, HandlerStep, CheckTracking, Validate, BeginTx, Insert, create_submission,
         create_revocation, publish_trust_bundle, create_session_audit_event, Moderate,
         PromoteSelect, PromoteClear, PromoteCleared, PromoteSet, PromoteIndexed, Commit,
         Track, TrackFails, DbError, Abandon, Goto, End

(* Only a promotion that found no rival in the unique index comes to its   *)
(* COMMIT, and only a COMMIT changes what is stored.                       *)
LEMMA StepStores ==
  ASSUME Shape, NEW r \in Requests,
         HandlerStep(r) \/ TrackFails(r) \/ DbError(r) \/ Abandon(r)
  PROVE  \/ Commit(r)
         \/ PromoteIndexed(r) /\ Rivals(r) = {} /\ Goto(r, "commit")
         \/ UNCHANGED <<rows, current>> /\ ~(Op(r) = "promote" /\ job'[r].pc = "commit")
  BY DEF Shape, Jobs, HandlerStep, CheckTracking, Validate, BeginTx, Insert, create_submission,
         create_revocation, publish_trust_bundle, create_session_audit_event, Moderate,
         PromoteSelect, PromoteClear, PromoteCleared, PromoteSet, PromoteIndexed,
         Track, TrackFails, DbError, Abandon, Goto, End

-----------------------------------------------------------------------------
(* A promotion about to commit has no rival among the current bundles, and *)
(* it is the only one: the unique index made it wait for the others.       *)
PromotionInv ==
  /\ ExactlyOneCurrent
  /\ \A r \in Requests : Setting(r) => Rivals(r) = {}
  /\ \A r, o \in Requests : Setting(r) /\ Setting(o) => r = o

(* From the first promotion on exactly one trust bundle is current, for    *)
(* any number of concurrent promotions, however they fail or are abandoned *)
(* (promote_trust_bundle and the unique index on is_current).              *)
THEOREM OneBundleIsCurrent == PkiSpec => []ExactlyOneCurrent
<1>1. PkiInit => PromotionInv
  <2> SUFFICES ASSUME PkiInit PROVE PromotionInv
    OBVIOUS
  <2>1. ExactlyOneCurrent
    BY DEF PkiInit, ExactlyOneCurrent
  <2>2. \A r \in Requests : ~Setting(r)
    BY DEF PkiInit, Setting
  <2> QED BY <2>1, <2>2 DEF PromotionInv
<1>2. Shape /\ PromotionInv /\ [PkiNext]_pkiVars => PromotionInv'
  <2> SUFFICES ASSUME Shape, PromotionInv, [PkiNext]_pkiVars PROVE PromotionInv'
    BY Zenon
  <2>1. ASSUME NEW r \in Requests,
               HandlerStep(r) \/ TrackFails(r) \/ DbError(r) \/ Abandon(r)
        PROVE  PromotionInv'
    <3>1. load' = load /\ \A o \in Requests \ {r} : job'[o] = job[o]
      BY <2>1, StepIsOwn
    <3>2. \A o \in Requests \ {r} : Setting(o)' <=> Setting(o)
      BY Zenon, <3>1 DEF Setting, Op
    <3>3. CASE UNCHANGED <<rows, current>> /\ ~(Op(r) = "promote" /\ job'[r].pc = "commit")
      <4>1. ~Setting(r)'
        BY <3>1, <3>3 DEF Setting, Op
      <4>2. \A o \in Requests \ {r} : Rivals(o)' = Rivals(o)
        BY <3>1, <3>3 DEF Rivals, Entity, Op
      <4> QED BY <3>2, <3>3, <4>1, <4>2 DEF PromotionInv, ExactlyOneCurrent
    <3>4. CASE PromoteIndexed(r) /\ Rivals(r) = {} /\ Goto(r, "commit")
      <4>1. \A o \in Requests \ {r} : ~Setting(o)
        BY <3>4 DEF PromoteIndexed, BlockedBy, Setting, InTx
      <4>2. Rivals(r)' = Rivals(r)
        BY <3>1, <3>4 DEF PromoteIndexed, Goto, Rivals, Entity, Op, Shape
      <4>3. UNCHANGED <<rows, current>>
        BY Zenon, <3>4 DEF PromoteIndexed
      <4> QED BY Zenon, <3>2, <3>4, <4>1, <4>2, <4>3 DEF PromotionInv, ExactlyOneCurrent
    <3>5. CASE Commit(r)
      <4>1. ~Setting(r)'
        BY <3>1, <3>5 DEF Commit, End, Setting, Shape, Jobs
      <4>2. CASE Op(r) = "promote"
        <5>1. Setting(r)
          BY <3>5, <4>2 DEF Commit, Setting
        <5>2. \A o \in Requests : ~Setting(o)'
          BY <3>2, <4>1, <5>1 DEF PromotionInv
        <5>3. current' = {Entity(r)}
          BY <3>5, <4>2, <5>1 DEF Commit, Promoted, PromotionInv, Rivals
        <5>4. <<"promote", Entity(r)>> \in rows'
          BY <3>5, <4>2 DEF Commit
        <5> QED BY <5>2, <5>3, <5>4 DEF PromotionInv, ExactlyOneCurrent
      <4>3. CASE Op(r) # "promote"
        <5>1. current' = current /\ rows' = rows \cup {<<Op(r), Entity(r)>>}
          BY <3>5, <4>3 DEF Commit, Promoted
        <5>2. ExactlyOneCurrent'
          BY <4>3, <5>1 DEF PromotionInv, ExactlyOneCurrent
        <5>3. \A o \in Requests \ {r} : Rivals(o)' = Rivals(o)
          BY Zenon, <3>1, <5>1 DEF Rivals, Entity, Op
        <5> QED BY <3>2, <4>1, <5>2, <5>3 DEF PromotionInv
      <4> QED BY <4>2, <4>3
    <3> QED BY Zenon, <2>1, <3>3, <3>4, <3>5, StepStores
  <2>2. CASE UNCHANGED <<load, job, rows, current>>
    BY <2>2 DEF PromotionInv, ExactlyOneCurrent, Setting, Rivals, Entity, Op
  <2> QED BY <2>1, <2>2 DEF PkiNext, TrackingExpires, pkiVars
<1>3. PromotionInv => ExactlyOneCurrent
  BY DEF PromotionInv
<1> QED BY <1>1, <1>2, <1>3, PkiTyped, PTL DEF PkiSpec

-----------------------------------------------------------------------------
Stored(reply) == reply.status = "ok" => <<reply.op, reply.entity>> \in rows
Told(r) == job[r].reply # None => Stored(job[r].reply)
Replayed(x) == tracking[x] # None => Stored(tracking[x].reply)
ToTell(r) == job[r].pc = "track" => <<Op(r), Entity(r)>> \in rows

(* Every reply that was or may still be given says the truth: those that   *)
(* were sent, those that request_tracking would replay, and those of       *)
(* requests that have committed and still have to answer.                  *)
ReplyInv ==
  /\ \A r \in Requests : Told(r) /\ ToTell(r)
  /\ \A x \in RequestIds : Replayed(x)

(* A success that a client reads, its own or a replayed one, names what is *)
(* committed (create_revocation, publish_trust_bundle,                     *)
(* promote_trust_bundle, check_request_tracking).                          *)
THEOREM SuccessIsStored == PkiSpec => []RepliedIsStored
<1>1. PkiInit => ReplyInv
  <2> SUFFICES ASSUME PkiInit PROVE ReplyInv
    OBVIOUS
  <2>1. \A r \in Requests : job[r].reply = None /\ job[r].pc # "track"
    BY Zenon DEF PkiInit
  <2>2. \A x \in RequestIds : tracking[x] = None
    BY DEF PkiInit
  <2> QED BY Zenon, <2>1, <2>2 DEF ReplyInv, Told, ToTell, Replayed
<1>2. Shape /\ ReplyInv /\ [PkiNext]_pkiVars => ReplyInv'
  <2> SUFFICES ASSUME Shape, ReplyInv, [PkiNext]_pkiVars PROVE ReplyInv'
    OBVIOUS
  <2>1. ASSUME NEW r \in Requests,
               HandlerStep(r) \/ TrackFails(r) \/ DbError(r) \/ Abandon(r)
        PROVE  ReplyInv'
    <3>1. load' = load /\ \A o \in Requests \ {r} : job'[o] = job[o]
      BY SMTT(30), <2>1, StepIsOwn
    <3>2. rows \subseteq rows'
      BY Zenon, <2>1, StepStores DEF Commit, PromoteIndexed
    <3>3. \A o \in Requests \ {r} : Told(o)' /\ ToTell(o)'
      BY Zenon, <3>1, <3>2 DEF ReplyInv, Told, ToTell, Stored, Op, Entity
    <3>4. CASE UNCHANGED tracking /\ Told(r)' /\ ToTell(r)'
      BY Zenon, <3>2, <3>3, <3>4 DEF ReplyInv, Replayed, Stored
    <3>5. ASSUME NEW reply, End(r, reply),
                 reply # None /\ reply.status = "ok" => <<reply.op, reply.entity>> \in rows'
          PROVE  Told(r)' /\ ToTell(r)'
      <4>1. job'[r].reply = reply /\ job'[r].pc = "done"
        BY <3>5 DEF End, Shape
      <4> QED BY Zenon, <3>5, <4>1 DEF Told, ToTell, Stored
    <3>6. ASSUME NEW status, End(r, HttpReply(r, status)), status # "ok"
          PROVE  Told(r)' /\ ToTell(r)'
      BY Zenon, <3>5, <3>6 DEF HttpReply
    <3>7. ASSUME NEW pc, Goto(r, pc), pc # "track"
          PROVE  Told(r)' /\ ToTell(r)'
      <4>1. job'[r].reply = job[r].reply /\ job'[r].pc = pc
        BY <3>7 DEF Goto, Shape, Jobs
      <4> QED BY Zenon, <3>2, <3>7, <4>1 DEF Told, ToTell, Stored, ReplyInv
    <3>8. ASSUME <<Op(r), Entity(r)>> \in rows', End(r, HttpReply(r, "ok"))
          PROVE  Told(r)' /\ ToTell(r)'
      BY Zenon, <3>5, <3>8 DEF HttpReply
    <3>9. CASE CheckTracking(r)
      <4>1. CASE End(r, HttpReply(r, "conflict")) \/ \E pc : pc # "track" /\ Goto(r, pc)
        BY Zenon, <3>4, <3>6, <3>7, <3>9, <4>1 DEF CheckTracking
      <4>2. CASE tracking[Id(r)] # None /\ End(r, tracking[Id(r)].reply)
        <5>1. Id(r) \in RequestIds
          <6>1. job[r].pc = "check"
            BY Zenon, <3>9 DEF CheckTracking
          <6>2. Id(r) # None /\ load \in Loads
            BY Zenon, <6>1 DEF Shape
          <6> QED BY <6>2 DEF Id, RequestIds
        <5>2. Stored(tracking[Id(r)].reply)
          BY <4>2, <5>1 DEF ReplyInv, Replayed
        <5>3. Told(r)' /\ ToTell(r)'
          BY Zenon, <3>2, <3>5, <4>2, <5>2 DEF Stored
        <5>4. UNCHANGED tracking
          BY Zenon, <3>9 DEF CheckTracking
        <5> QED BY Zenon, <3>4, <5>3, <5>4
      <4> QED BY <3>9, <4>1, <4>2 DEF CheckTracking
    <3>10. CASE PromoteClear(r) \/ PromoteCleared(r)
      <4>1. job'[r].reply = job[r].reply /\ job'[r].pc # "track"
        BY <3>10 DEF PromoteClear, PromoteCleared, Shape, Jobs
      <4> QED BY Zenon, <3>2, <3>4, <3>10, <4>1
              DEF PromoteClear, PromoteCleared, Told, ToTell, Stored, ReplyInv
    <3>11. CASE Commit(r)
      <4>1. <<Op(r), Entity(r)>> \in rows'
        BY <3>11 DEF Commit
      <4>2. CASE Op(r) \in TrackedOps
        <5>1. job'[r].reply = job[r].reply
          BY <3>11, <4>2 DEF Commit, Shape, Jobs
        <5> QED BY Zenon, <3>1, <3>2, <3>4, <3>11, <4>1, <5>1
                DEF Commit, Told, ToTell, Stored, ReplyInv, Op, Entity
      <4> QED BY <3>4, <3>8, <3>11, <4>1, <4>2 DEF Commit
    <3>12. CASE Track(r)
      <4>1. Told(r)' /\ ToTell(r)'
        BY Zenon, <3>2, <3>6, <3>8, <3>12 DEF Track, ReplyInv, ToTell
      <4>2. PICK status \in {"ok", "missing"} :
              /\ tracking' = Tracked(r, status)
              /\ status = "ok" => <<Op(r), Entity(r)>> \in rows
        BY <3>12 DEF Track, ReplyInv, ToTell
      <4>3. ASSUME NEW x \in RequestIds PROVE Replayed(x)'
        <5>1. CASE tracking'[x] = tracking[x]
          BY Zenon, <3>2, <5>1 DEF ReplyInv, Replayed, Stored
        <5>2. CASE tracking'[x] # tracking[x]
          <6>1. tracking'[x] = [op |-> Op(r), reply |-> HttpReply(r, status), live |-> TRUE]
            BY <4>2, <5>2 DEF Tracked, Shape
          <6> QED BY <3>2, <4>2, <6>1 DEF Replayed, Stored, HttpReply
        <5> QED BY Zenon, <5>1, <5>2
      <4> QED BY <3>3, <4>1, <4>3 DEF ReplyInv
    <3>13. CASE TrackFails(r) \/ DbError(r) \/ Abandon(r)
      BY Zenon, <3>2, <3>4, <3>5, <3>6, <3>8, <3>13
         DEF TrackFails, DbError, Abandon, ReplyInv, ToTell
    <3>14. CASE \/ Validate(r) \/ BeginTx(r) \/ Moderate(r) \/ PromoteSelect(r)
                \/ PromoteSet(r) \/ PromoteIndexed(r) \/ \E op : Insert(r, op)
      BY Zenon, <3>4, <3>6, <3>7, <3>14
         DEF Validate, BeginTx, Moderate, PromoteSelect, PromoteSet, PromoteIndexed, Insert
    <3> QED
      BY Zenon, <2>1, <3>9, <3>10, <3>11, <3>12, <3>13, <3>14
         DEF HandlerStep, create_submission, create_revocation, publish_trust_bundle,
             create_session_audit_event
  <2>2. ASSUME NEW x \in RequestIds, TrackingExpires(x) PROVE ReplyInv'
    <3>1. UNCHANGED <<load, job, rows>>
      BY <2>2 DEF TrackingExpires
    <3>2. Replayed(x)'
      BY <2>2, <3>1 DEF TrackingExpires, Shape, Tracks, ReplyInv, Replayed, Stored
    <3>3. \A y \in RequestIds \ {x} : Replayed(y)'
      BY Zenon, <2>2, <3>1 DEF TrackingExpires, Shape, ReplyInv, Replayed, Stored
    <3> QED BY Zenon, <3>1, <3>2, <3>3 DEF ReplyInv, Told, ToTell, Stored, Op, Entity
  <2>3. CASE UNCHANGED pkiVars
    BY <2>3 DEF pkiVars, ReplyInv, Told, ToTell, Replayed, Stored, Op, Entity
  <2> QED BY <2>1, <2>2, <2>3 DEF PkiNext
<1>3. ReplyInv => RepliedIsStored
  BY DEF ReplyInv, RepliedIsStored, Told, Stored
<1> QED BY <1>1, <1>2, <1>3, PkiTyped, PTL DEF PkiSpec

-----------------------------------------------------------------------------
(* The pool.  The facts about finite sets are needed only here.            *)

FST == INSTANCE FiniteSetTheorems

(* The instance counts as FiniteSets does.                                 *)
LEMMA SameCount ==
  ASSUME NEW S
  PROVE  FST!IsFiniteSet(S) = IsFiniteSet(S) /\ FST!Cardinality(S) = Cardinality(S)
<1>1. FST!IsFiniteSet(S) = IsFiniteSet(S)
  BY Zenon DEF FST!IsFiniteSet, IsFiniteSet
<1>2. FST!Cardinality(S) = Cardinality(S)
  BY Zenon DEF FST!Cardinality, Cardinality
<1> QED BY <1>1, <1>2

(* No element, no more elements, and one more.                             *)
LEMMA Counting ==
  /\ Cardinality({}) = 0
  /\ \A S : IsFiniteSet(S) => Cardinality(S) \in Nat
  /\ \A S : IsFiniteSet(S) =>
       \A T \in SUBSET S : IsFiniteSet(T) /\ Cardinality(T) <= Cardinality(S)
  /\ \A S, x : IsFiniteSet(S) =>
       /\ IsFiniteSet(S \cup {x})
       /\ Cardinality(S \cup {x}) \in {Cardinality(S), Cardinality(S) + 1}
<1>1. Cardinality({}) = 0
  BY Zenon, SameCount, FST!FS_EmptySet
<1>2. ASSUME NEW S, IsFiniteSet(S) PROVE Cardinality(S) \in Nat
  BY Zenon, <1>2, SameCount, FST!FS_CardinalityType
<1>3. ASSUME NEW S, IsFiniteSet(S), NEW T \in SUBSET S
      PROVE  IsFiniteSet(T) /\ Cardinality(T) <= Cardinality(S)
  BY ZenonT(30), <1>3, SameCount, FST!FS_Subset
<1>4. ASSUME NEW S, IsFiniteSet(S), NEW x
      PROVE  /\ IsFiniteSet(S \cup {x})
             /\ Cardinality(S \cup {x}) \in {Cardinality(S), Cardinality(S) + 1}
  BY Zenon, <1>4, SameCount, FST!FS_AddElement
<1> QED BY Zenon, <1>1, <1>2, <1>3, <1>4

InTxs == {r \in Requests : InTx(r)}

(* The state has its type and the transactions that are open at once never *)
(* outnumber the pool's connections, whatever requests overlap (the pool's *)
(* max_connections; every handler begins one transaction and ends it).     *)
THEOREM PoolIsNeverExceeded == PkiSpec => []PkiTypeOK
<1> DEFINE PoolOK == Cardinality(InTxs) <= PoolSize
<1>1. PkiInit => PoolOK
  <2> SUFFICES ASSUME PkiInit PROVE PoolOK
    OBVIOUS
  <2>1. InTxs = {}
    BY Zenon DEF PkiInit, InTxs, InTx
  <2> QED BY <2>1, Counting, PoolAssumption
<1>2. Shape /\ PoolOK /\ [PkiNext]_pkiVars => PoolOK'
  <2> SUFFICES ASSUME Shape, PoolOK, [PkiNext]_pkiVars PROVE PoolOK'
    OBVIOUS
  <2>1. IsFiniteSet(InTxs) /\ Cardinality(InTxs) \in Nat
    BY PoolAssumption, Counting DEF InTxs
  <2>2. ASSUME InTxs' \subseteq InTxs PROVE PoolOK'
    <3>1. Cardinality(InTxs') <= Cardinality(InTxs) /\ Cardinality(InTxs') \in Nat
      BY <2>1, <2>2, Counting
    <3> QED BY <2>1, <3>1, PoolAssumption
  <2>3. ASSUME NEW r \in Requests,
               HandlerStep(r) \/ TrackFails(r) \/ DbError(r) \/ Abandon(r)
        PROVE  PoolOK'
    <3>1. \A o \in Requests \ {r} : job'[o] = job[o]
      BY <2>3, StepIsOwn
    <3>2. CASE BeginTx(r)
      <4>1. Cardinality(InTxs) < PoolSize
        BY <3>2 DEF BeginTx, Free, InTxs
      <4>2. InTxs' \subseteq InTxs \cup {r}
        BY <3>1 DEF InTxs, InTx
      <4>3. /\ IsFiniteSet(InTxs \cup {r})
            /\ Cardinality(InTxs \cup {r}) <= Cardinality(InTxs) + 1
        <5>1. /\ IsFiniteSet(InTxs \cup {r})
              /\ Cardinality(InTxs \cup {r}) \in {Cardinality(InTxs), Cardinality(InTxs) + 1}
          BY Zenon, <2>1, Counting
        <5> QED BY <2>1, <5>1
      <4>4. Cardinality(InTxs') <= Cardinality(InTxs \cup {r})
        BY Zenon, <4>2, <4>3, Counting
      <4>5. Cardinality(InTxs') \in Nat /\ Cardinality(InTxs \cup {r}) \in Nat
        BY <4>2, <4>3, Counting
      <4> QED BY <2>1, <4>1, <4>3, <4>4, <4>5, PoolAssumption
    <3>3. CASE ~BeginTx(r)
      <4>1. InTx(r)' => InTx(r)
        BY <2>3, <3>3
           DEF Shape, Jobs, HandlerStep, CheckTracking, Validate, Insert,
               create_submission, create_revocation, publish_trust_bundle,
               create_session_audit_event, Moderate, PromoteSelect, PromoteClear,
               PromoteCleared, PromoteSet, PromoteIndexed, Commit, Track, TrackFails,
               DbError, Abandon, Goto, End, InTx
      <4> QED BY Zenon, <2>2, <3>1, <4>1 DEF InTxs, InTx
    <3> QED BY Zenon, <3>2, <3>3
  <2>4. CASE UNCHANGED job
    BY Zenon, <2>2, <2>4 DEF InTxs, InTx
  <2> QED BY <2>3, <2>4 DEF PkiNext, TrackingExpires, pkiVars
<1>3. Shape /\ PoolOK => PkiTypeOK
  BY DEF Shape, PkiTypeOK, InTxs, Jobs, Places, Entities, Replies, Statuses
<1> QED BY <1>1, <1>2, <1>3, PkiTyped, PTL DEF PkiSpec
=============================================================================
