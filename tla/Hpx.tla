--------------------------------- MODULE Hpx ---------------------------------
(***************************************************************************)
(* The transitions of an HPX session (openpulse-core's HpxReactor), as     *)
(* operators.  The engine keeps one session for the life of the process.   *)
(***************************************************************************)
EXTENDS Naturals

CONSTANTS MaxRecoveries,  \* MAX_RECOVERY_ATTEMPTS
          MaxArqRetries   \* MAX_ARQ_RETRIES_PER_CHUNK

ASSUME MaxRecoveriesAssumption == MaxRecoveries \in Nat

HpxStates == {"Idle", "Discovery", "Training", "ActiveTransfer", "Recovery",
              "RelayActive", "Teardown", "Failed"}
HpxEvents == {"StartSession", "DiscoveryOk", "DiscoveryTimeout", "TrainingOk",
              "TrainingTimeout", "TransferComplete", "TransferError", "QualityDrop",
              "RecoveryOk", "RecoveryTimeout", "RelayRouteFound", "RelayPolicyFailed",
              "SignatureVerificationFailed", "LocalCancel", "RemoteTeardown"}

(* SessionState::new; `id' says whether a wire session id is assigned.     *)
NewSession == [state |-> "Idle", id |-> FALSE, recoveries |-> 0, arq |-> 0]

-----------------------------------------------------------------------------
(* The per-state handlers: the next state, or "invalid".                   *)

handle_idle(e) == IF e = "StartSession" THEN "Discovery" ELSE "invalid"

handle_discovery(e) ==
  CASE e = "DiscoveryOk" -> "Training"
    [] e \in {"DiscoveryTimeout", "SignatureVerificationFailed"} -> "Failed"
    [] e = "LocalCancel" -> "Teardown"
    [] OTHER -> "invalid"

handle_training(e) ==
  CASE e = "TrainingOk" -> "ActiveTransfer"
    [] e = "RelayRouteFound" -> "RelayActive"
    [] e \in {"TrainingTimeout", "SignatureVerificationFailed"} -> "Failed"
    [] e = "LocalCancel" -> "Teardown"
    [] OTHER -> "invalid"

handle_active_transfer(e) ==
  CASE e \in {"TransferComplete", "LocalCancel", "RemoteTeardown"} -> "Teardown"
    [] e \in {"TransferError", "QualityDrop", "SignatureVerificationFailed"} -> "Recovery"
    [] e = "RelayRouteFound" -> "RelayActive"
    [] OTHER -> "invalid"

handle_recovery(e) ==
  CASE e = "RecoveryOk" -> "ActiveTransfer"
    [] e = "RecoveryTimeout" -> "Failed"
    [] e = "RelayRouteFound" -> "RelayActive"
    [] e = "LocalCancel" -> "Teardown"
    [] OTHER -> "invalid"

handle_relay_active(e) ==
  CASE e \in {"TransferComplete", "LocalCancel"} -> "Teardown"
    [] e = "TrainingOk" -> "ActiveTransfer"
    [] e = "TransferError" -> "Recovery"
    [] e = "RelayPolicyFailed" -> "Failed"
    [] OTHER -> "invalid"

handle_teardown(e) ==
  CASE e = "TransferComplete" -> "Idle"
    [] e = "TransferError" -> "Failed"
    [] OTHER -> "invalid"

Handler(st, e) ==
  CASE st = "Idle" -> handle_idle(e)
    [] st = "Discovery" -> handle_discovery(e)
    [] st = "Training" -> handle_training(e)
    [] st = "ActiveTransfer" -> handle_active_transfer(e)
    [] st = "Recovery" -> handle_recovery(e)
    [] st = "RelayActive" -> handle_relay_active(e)
    [] st = "Teardown" -> handle_teardown(e)
    [] st = "Failed" -> "invalid"

(* dispatch returns Ok exactly when the event is valid.                    *)
Valid(s, e) == Handler(s.state, e) # "invalid"

(* Mutant: a recovery that begins on a relayed path is not counted.        *)
DispatchSparesRelay(s, e) ==
  LET to == Handler(s.state, e)
      n == s.recoveries + (IF to = "Recovery" /\ s.state = "ActiveTransfer" THEN 1 ELSE 0)
  IN IF to = "invalid" THEN s
     ELSE IF n > MaxRecoveries THEN [s EXCEPT !.state = "Failed", !.recoveries = n]
     ELSE IF to = "Idle" THEN NewSession
     ELSE [state |-> to, id |-> s.id \/ e = "StartSession", recoveries |-> n,
           arq |-> IF to = "ActiveTransfer" THEN 0 ELSE s.arq]

(* The session after the event; an invalid event leaves it alone.  No      *)
(* handler leads from Recovery to Recovery, so every way in is counted.    *)
dispatch(s, e) ==
  LET to == Handler(s.state, e)
      n == s.recoveries + (IF to = "Recovery" THEN 1 ELSE 0)
  IN IF to = "invalid" THEN s
     ELSE IF n > MaxRecoveries THEN [s EXCEPT !.state = "Failed", !.recoveries = n]
     ELSE IF to = "Idle" THEN NewSession
     ELSE [state |-> to, id |-> s.id \/ e = "StartSession", recoveries |-> n,
           arq |-> IF to = "ActiveTransfer" THEN 0 ELSE s.arq]
=============================================================================
