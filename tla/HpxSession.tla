----------------------------- MODULE HpxSession -----------------------------
(***************************************************************************)
(* An HPX session that meets every event, valid or not, in every order,    *)
(* with ARQ retries recorded in between.                                   *)
(***************************************************************************)
EXTENDS Hpx

VARIABLES
  session,   \* the session's SessionState
  in_a_row   \* history: recoveries begun since the session started or one succeeded

hpxVars == <<session, in_a_row>>

HpxInit == session = NewSession /\ in_a_row = 0

HpxEvent(e) ==
  /\ session' = dispatch(session, e)
  /\ in_a_row' =
       CASE session'.state = "Idle" \/ (session.state = "Recovery" /\ e = "RecoveryOk") -> 0
         [] session.state # "Recovery" /\ session'.state = "Recovery" -> in_a_row + 1
         [] OTHER -> in_a_row

(* record_arq_retry: over the limit it says so, but keeps counting; the    *)
(* u8 saturates far above any bound used here.                             *)
RecordArqRetry ==
  /\ session.arq <= MaxArqRetries
  /\ session' = [session EXCEPT !.arq = @ + 1]
  /\ UNCHANGED in_a_row

ResetArqRetryCounter ==
  /\ session' = [session EXCEPT !.arq = 0]
  /\ UNCHANGED in_a_row

HpxNext ==
  \/ \E e \in HpxEvents : HpxEvent(e)
  \/ RecordArqRetry
  \/ ResetArqRetryCounter

HpxSpec == HpxInit /\ [][HpxNext]_hpxVars

-----------------------------------------------------------------------------
(* HpxReactor: counters stay in range, and a session carries a wire id     *)
(* exactly while it is not idle.                                           *)
HpxTypeOK ==
  /\ session \in [state : HpxStates, id : BOOLEAN,
                  recoveries : 0 .. MaxRecoveries + 1, arq : 0 .. MaxArqRetries + 1]
  /\ session.id <=> session.state # "Idle"

(* "Maximum consecutive recovery attempts before transitioning to Failed": *)
(* a session never begins more than MaxRecoveries recoveries in a row,     *)
(* whichever states it passes through between them, the relay detours      *)
(* included.  (dispatch's counter is not reset by a recovery that          *)
(* succeeds, so a session may fail sooner than that.)                      *)
RecoveriesBounded == in_a_row <= MaxRecoveries
=============================================================================
