---------------------------- MODULE QsyAgreement ----------------------------
(***************************************************************************)
(* What a frequency negotiation promises.  A station opens a negotiation;  *)
(* the station that opened it decides on one frequency and moves there;    *)
(* the other may follow to the same frequency, after the decision and      *)
(* once.  Nothing is promised about when, or whether, the other follows.   *)
(***************************************************************************)
CONSTANTS Stations, Tokens, Freqs, None

VARIABLES
  opener,   \* per token, the station that opened the negotiation
  moved     \* per token and station, where it moved for the negotiation

agreementVars == <<opener, moved>>

AgreementInit ==
  /\ opener = [t \in Tokens |-> None]
  /\ moved = [t \in Tokens |-> [s \in Stations |-> None]]

Open(t, s) ==
  /\ opener[t] = None
  /\ opener' = [opener EXCEPT ![t] = s]
  /\ UNCHANGED moved

Decide(t, s, f) ==
  /\ opener[t] = s
  /\ \A r \in Stations : moved[t][r] = None
  /\ moved' = [moved EXCEPT ![t][s] = f]
  /\ UNCHANGED opener

Follow(t, s) ==
  /\ opener[t] \in Stations \ {s}
  /\ moved[t][opener[t]] # None
  /\ moved[t][s] = None
  /\ moved' = [moved EXCEPT ![t][s] = moved[t][opener[t]]]
  /\ UNCHANGED opener

AgreementNext ==
  \E t \in Tokens, s \in Stations :
    \/ Open(t, s)
    \/ \E f \in Freqs : Decide(t, s, f)
    \/ Follow(t, s)

AgreementSpec == AgreementInit /\ [][AgreementNext]_agreementVars
=============================================================================
