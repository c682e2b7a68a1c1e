--------------------------------- MODULE Qsy ---------------------------------
(***************************************************************************)
(* Frequency negotiation between two daemons (openpulse-qsy's QsySession   *)
(* and the daemon code that drives it) over an air that loses frames.      *)
(*                                                                         *)
(* A handler of the daemon's event loop is one action: it applies a frame  *)
(* or a command, transmits, scans and retunes, and a receive tick ends by  *)
(* dropping a session that has finished.  So InitScanning, RespScanning,   *)
(* Agreed and Rejected are passed through inside an action and no session  *)
(* rests in them.  Frames are verified against the peer's key before they  *)
(* reach the session; both stations are verified peers here.               *)
(***************************************************************************)
EXTENDS Pair, Naturals, Sequences, Functions

CONSTANTS
  Candidates,    \* per station, qsy_candidate_freqs in their order
  InSegment,     \* frequencies the bandplan allows for data
  Home,          \* the frequency both stations start on
  Aware,         \* bandplan_awareness_enabled
  EnforceWidth,  \* enforce_max_channel_width
  Declines,      \* whether a responder's policy may decline: set of BOOLEAN
  Lossy,         \* the air may lose a frame
  RigFails,      \* whether CAT commands may fail: set of BOOLEAN
  TimelyAir,     \* no time passes while a frame is on its way
  Ttl,           \* QSY_SESSION_TTL in clock ticks
  MaxOpened      \* bound on negotiations opened

ASSUME MaxOpenedAssumption == MaxOpened \in Nat
ASSUME TtlAssumption == Ttl \in Nat \ {0}

Freqs == {Home} \cup UNION {Range(Candidates[s]) : s \in Stations}
Tokens == 1 .. MaxOpened

QsySession ==
  [st : {"Idle", "WaitingForList", "Listed", "Voted"},
   token : Tokens \cup {0}, n : Nat, votes : Seq(Freqs)]

QsyFrame ==
  [type : {"Req", "List", "Vote", "Ack", "Reject"},
   token : Tokens, n : Nat, votes : Seq(Freqs), freq : Freqs \cup {None}]

ASSUME QsyAssumption ==
  /\ \A s \in Stations : Candidates[s] \in Seq(Freqs)
  /\ None \notin QsySession \cup Freqs \cup Stations

VARIABLES
  rig_fails,    \* CAT commands may fail in this behaviour
  qsy_session,  \* per station, None or its session
  started,      \* per station, the session's age in ticks
  freq,         \* per station, where its rig is tuned
  inbox,        \* per station, frames on their way to it
  opened,       \* number of negotiations opened; the next token
  opener,       \* history: per token, who opened the negotiation
  tuned         \* history: per token and station, the frequency commanded

qsyVars == <<rig_fails, qsy_session, started, freq, inbox, opened, opener, tuned>>

QsyInit ==
  /\ rig_fails \in RigFails
  /\ qsy_session = [s \in Stations |-> None]
  /\ started = [s \in Stations |-> 0]
  /\ freq = [s \in Stations |-> Home]
  /\ inbox = [s \in Stations |-> <<>>]
  /\ opened = 0
  /\ opener = [t \in Tokens |-> None]
  /\ tuned = [t \in Tokens |-> [s \in Stations |-> None]]

-----------------------------------------------------------------------------
(* The session.  A scan scores every candidate alike, with the last SNR    *)
(* received, so a vote list is the list of its frequencies.                *)

Idle == [st |-> "Idle", token |-> 0, n |-> 0, votes |-> <<>>]
WaitingForList(t, n) == [st |-> "WaitingForList", token |-> t, n |-> n, votes |-> <<>>]
Listed(t, v) == [st |-> "Listed", token |-> t, n |-> 0, votes |-> v]
Voted(t) == [st |-> "Voted", token |-> t, n |-> 0, votes |-> <<>>]

Req(t, n) == [type |-> "Req", token |-> t, n |-> n, votes |-> <<>>, freq |-> None]
List(t, v) == [type |-> "List", token |-> t, n |-> 0, votes |-> v, freq |-> None]
Vote(t, v) == [type |-> "Vote", token |-> t, n |-> 0, votes |-> v, freq |-> None]
Ack(t, f) == [type |-> "Ack", token |-> t, n |-> 0, votes |-> <<>>, freq |-> f]
Reject(t) == [type |-> "Reject", token |-> t, n |-> 0, votes |-> <<>>, freq |-> None]

(* validate_frequencies under the configured policy.  The daemon gives its *)
(* responder no operating mode, which the width rule needs.                *)
validate_frequencies(v) ==
  Aware => /\ ~EnforceWidth
           /\ Range(v) \subseteq InSegment

(* The places in my list of what is in both.                               *)
Common(my, partner) == {i \in DOMAIN my : my[i] \in Range(partner)}

(* With equal scores the first common candidate wins: the set that holds   *)
(* it, and nothing when there is none in common.                           *)
pick_best_freq(my, partner) ==
  {my[i] : i \in {i \in Common(my, partner) : \A j \in Common(my, partner) : i <= j}}

-----------------------------------------------------------------------------
(* The air and the rig.                                                    *)

(* What reaches the peer of a frame that s transmits while tuned to `at'.  *)
Heard(s, frame, at) ==
  {h \in {<<>>, <<frame>>} : /\ at # freq[Peer(s)] => h = <<>>
                             /\ h = <<>> => at # freq[Peer(s)] \/ Lossy}

(* Where the rig is after set_frequency.                                   *)
Retune(s, f) == IF rig_fails THEN {f, freq[s]} ELSE {f}

(* Mutant: the scan leaves the rig on the last candidate.                  *)
ScanStays(s, v) == {v[Len(v)]}

(* Where a scan of v leaves the rig: back where it was, unless a command   *)
(* failed on the way.                                                      *)
AfterScan(s, v) == IF rig_fails THEN {freq[s]} \cup Range(v) ELSE {freq[s]}

-----------------------------------------------------------------------------
(* Opening a negotiation: REQ, scan, LIST in one handler.                  *)

(* The session that was there, if any, is overwritten.                     *)
Initiate(s) ==
  LET t == opened + 1
      v == Candidates[s]
  IN /\ opened < MaxOpened
     /\ v # <<>>
     /\ \E at \in AfterScan(s, v) :
        \E r \in Heard(s, Req(t, Len(v)), freq[s]), l \in Heard(s, List(t, v), at) :
          /\ inbox' = [inbox EXCEPT ![Peer(s)] = @ \o r \o l]
          /\ freq' = [freq EXCEPT ![s] = at]
     /\ qsy_session' = [qsy_session EXCEPT ![s] = Listed(t, v)]
     /\ started' = [started EXCEPT ![s] = 0]
     /\ opened' = t
     /\ opener' = [opener EXCEPT ![t] = s]
     /\ UNCHANGED <<rig_fails, tuned>>

(* The operator accepts the pending token.                                 *)
AcceptQsy(s) == Initiate(s)

(* An in-band interferer was confirmed and no session exists.              *)
AutoQsy(s) ==
  /\ qsy_session[s] = None
  /\ Initiate(s)

-----------------------------------------------------------------------------
(* A receive tick that decoded a frame.  It ends with                      *)
(* expire_stale_qsy_session, so a finished session is gone after it, and   *)
(* so is an old one whatever the frame did.                                *)

(* The session the frame is applied to: a new responder if there was none. *)
Current(s) == IF qsy_session[s] = None THEN Idle ELSE qsy_session[s]

(* Mutant: only a session this station opened has a start time.            *)
StaleOwn(s) == Current(s).st = "Listed" /\ started[s] >= Ttl

Stale(s) == qsy_session[s] # None /\ started[s] >= Ttl

Keep(s, session) ==
  LET kept == IF Stale(s) THEN None ELSE session
  IN /\ qsy_session' = [qsy_session EXCEPT ![s] = kept]
     /\ started' = [started EXCEPT ![s] =
                      IF kept = None \/ qsy_session[s] = None THEN 0 ELSE @]

Finish(s) ==
  /\ qsy_session' = [qsy_session EXCEPT ![s] = None]
  /\ started' = [started EXCEPT ![s] = 0]

(* s takes m from the air and transmits reply while tuned to `at'.         *)
Answer(s, reply, at) ==
  \E h \in Heard(s, reply, at) :
    inbox' = [inbox EXCEPT ![s] = Tail(@), ![Peer(s)] = @ \o h]

Silent(s) == inbox' = [inbox EXCEPT ![s] = Tail(@)]

QsyNow(s, t, f) ==
  /\ \E at \in Retune(s, f) : freq' = [freq EXCEPT ![s] = at]
  /\ tuned' = [tuned EXCEPT ![t][s] = f]

(* A REJECT ends whatever negotiation is in progress: its token is not     *)
(* compared.                                                               *)
OnReject(s, m) ==
  /\ m.type = "Reject"
  /\ Finish(s)
  /\ Silent(s)
  /\ UNCHANGED <<freq, tuned>>

AppliesReq(s, m) == m.type = "Req" /\ Current(s).st = "Idle"

OnReq(s, m) ==
  /\ AppliesReq(s, m)
  /\ FALSE \in Declines
  /\ Keep(s, WaitingForList(m.token, m.n))
  /\ Silent(s)
  /\ UNCHANGED <<freq, tuned>>

(* QSY is disabled, or the peer's trust level is not permitted.            *)
OnReqDeclined(s, m) ==
  /\ AppliesReq(s, m)
  /\ TRUE \in Declines
  /\ Finish(s)
  /\ Answer(s, Reject(m.token), freq[s])
  /\ UNCHANGED <<freq, tuned>>

AppliesList(s, m) ==
  /\ m.type = "List"
  /\ Current(s).st = "WaitingForList"
  /\ Current(s).token = m.token
  /\ Current(s).n = Len(m.votes)
  /\ validate_frequencies(m.votes)

(* Mutant: the responder moves when it votes instead of when it is told.   *)
OnListMoves(s, m) ==
  /\ AppliesList(s, m)
  /\ Answer(s, Vote(m.token, m.votes), freq[s])
  /\ QsyNow(s, m.token, Head(m.votes))
  /\ Keep(s, Voted(m.token))

OnList(s, m) ==
  /\ AppliesList(s, m)
  /\ \E at \in AfterScan(s, m.votes) :
       /\ freq' = [freq EXCEPT ![s] = at]
       /\ Answer(s, Vote(m.token, m.votes), at)
  /\ Keep(s, Voted(m.token))
  /\ UNCHANGED tuned

AppliesVote(s, m) ==
  /\ m.type = "Vote"
  /\ Current(s).st = "Listed"
  /\ Current(s).token = m.token

(* The initiator decides: it names the frequency and moves at once.        *)
OnVote(s, m) ==
  /\ AppliesVote(s, m)
  /\ \E f \in pick_best_freq(Current(s).votes, m.votes) :
       Answer(s, Ack(m.token, f), freq[s]) /\ QsyNow(s, m.token, f)
  /\ Finish(s)

AppliesAck(s, m) ==
  /\ m.type = "Ack"
  /\ Current(s).st = "Voted"
  /\ Current(s).token = m.token
  /\ validate_frequencies(<<m.freq>>)

OnAck(s, m) ==
  /\ AppliesAck(s, m)
  /\ QsyNow(s, Current(s).token, m.freq)
  /\ Finish(s)
  /\ Silent(s)

(* apply returned an error: nothing changes, but a session was created if  *)
(* there was none.                                                         *)
OnOther(s, m) ==
  /\ m.type # "Reject"
  /\ ~AppliesReq(s, m)
  /\ ~AppliesList(s, m)
  /\ ~AppliesVote(s, m)
  /\ ~AppliesAck(s, m)
  /\ Keep(s, Current(s))
  /\ Silent(s)
  /\ UNCHANGED <<freq, tuned>>

Receive(s) ==
  /\ inbox[s] # <<>>
  /\ LET m == Head(inbox[s])
     IN \/ OnReject(s, m)
        \/ OnReq(s, m)
        \/ OnReqDeclined(s, m)
        \/ OnList(s, m)
        \/ OnVote(s, m)
        \/ OnAck(s, m)
        \/ OnOther(s, m)
  /\ UNCHANGED <<rig_fails, opened, opener>>

-----------------------------------------------------------------------------
(* A tick without a frame, and time.                                       *)

Expire(s) ==
  /\ Stale(s)
  /\ Finish(s)
  /\ UNCHANGED <<rig_fails, freq, inbox, opened, opener, tuned>>

Clock(s) ==
  /\ qsy_session[s] # None
  /\ started[s] < Ttl
  /\ TimelyAir => \A r \in Stations : inbox[r] = <<>>
  /\ started' = [started EXCEPT ![s] = @ + 1]
  /\ UNCHANGED <<rig_fails, qsy_session, freq, inbox, opened, opener, tuned>>

QsyNext ==
  \E s \in Stations :
    \/ AcceptQsy(s)
    \/ AutoQsy(s)
    \/ Receive(s)
    \/ Expire(s)
    \/ Clock(s)

QsySpec == QsyInit /\ [][QsyNext]_qsyVars

(* The receive tick runs for ever and time passes.                         *)
QsyFairness ==
  \A s \in Stations :
    /\ WF_qsyVars(Receive(s))
    /\ WF_qsyVars(Expire(s))
    /\ WF_qsyVars(Clock(s))

QsyFairSpec == QsySpec /\ QsyFairness

-----------------------------------------------------------------------------
(* The negotiation's state has its type: the daemon's qsy_session with its *)
(* age, the dial and the frames on the air.                                *)
QsyTypeOK ==
  /\ qsy_session \in [Stations -> QsySession \cup {None}]
  /\ started \in [Stations -> 0 .. Ttl]
  /\ freq \in [Stations -> Freqs]
  /\ inbox \in [Stations -> Seq(QsyFrame)]
  /\ opened \in 0 .. MaxOpened
  /\ opener \in [Tokens -> Stations \cup {None}]
  /\ tuned \in [Tokens -> [Stations -> Freqs \cup {None}]]

Movers(t) == {s \in Stations : tuned[t][s] # None}

Agreement == INSTANCE QsyAgreement WITH moved <- tuned

(* The exchange implements the agreement, whatever frames are lost and     *)
(* whichever sessions are overwritten or expire: only the station that     *)
(* opened a negotiation decides (QSY_VOTE, pick_best_freq), the other      *)
(* moves after it, once, and to the same frequency (QSY_ACK).              *)
ImplementsAgreement == Agreement!AgreementSpec

(* Two stations that began together are on different frequencies only if   *)
(* some decision was not followed: scans bring the rig back and every      *)
(* other path keeps the dial (execute_qsy_actions).                        *)
ApartMeansUnfollowed ==
  ~rig_fails /\ (\E s, r \in Stations : freq[s] # freq[r])
    => \E t \in Tokens : Movers(t) # {} /\ Movers(t) # Stations

(* No negotiation blocks the anti-jam response for ever: a station is      *)
(* without a session again and again (expire_stale_qsy_session: "one       *)
(* unsigned QSY_REQ from any station ... disables the anti-jam response    *)
(* for the process lifetime").                                             *)
SessionsEnd == \A s \in Stations : []<>(qsy_session[s] = None)

(* A negotiation that loses no frame and is declined by nobody moves a     *)
(* station ("Stations negotiate migration to better frequencies").         *)
NegotiationMoves == \A t \in Tokens : opener[t] # None ~> Movers(t) # {}
=============================================================================
