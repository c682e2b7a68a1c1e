-------------------------------- MODULE Pki ---------------------------------
(***************************************************************************)
(* The write handlers of the PKI service (pki-tooling handlers.rs):        *)
(* concurrent requests against one PostgreSQL database, at the granularity *)
(* of its statements.  A transaction is READ COMMITTED, as sqlx begins it: *)
(* a statement sees what was committed when it started, waits for a row    *)
(* another transaction has changed, and then looks at that row again.      *)
(* Every statement takes a connection of the pool; a transaction keeps     *)
(* one.  Rows are named by the request that inserted them.                 *)
(***************************************************************************)
EXTENDS Naturals, FiniteSets, Option

CONSTANTS
  Requests,    \* the requests of a behaviour
  Loads,       \* what they may ask for: functions to [op, id, arg]
  Published,   \* trust bundles that are stored from the start
  PoolSize     \* max_connections

VARIABLES
  load,        \* each request's operation, x-request-id and argument
  job,         \* each handler: where it is, what it saw and did, its reply
  rows,        \* what is committed: <<operation, entity>>
  current,     \* the bundles with is_current = TRUE
  tracking     \* request_tracking, by request id

pkiVars == <<load, job, rows, current, tracking>>

Ops == {"submit", "moderate", "revoke", "publish", "promote", "audit"}
TrackedOps == {"revoke", "publish", "promote"}
RequestIds == {l[r].id : l \in Loads, r \in Requests} \ {None}

(* What a request may ask for: moderate names a submission and promote a   *)
(* bundle, stored or yet to be.                                            *)
ASSUME LoadsAssumption ==
  \A l \in Loads : \A r \in Requests :
    /\ l[r].op \in Ops
    /\ l[r].op \in {"moderate", "promote"} => l[r].arg \in Requests \cup Published
ASSUME PoolAssumption == PoolSize \in Nat /\ IsFiniteSet(Requests)

Op(r) == load[r].op
Id(r) == load[r].id
Entity(r) == IF Op(r) \in {"moderate", "promote"} THEN load[r].arg ELSE r
HttpReply(r, status) == [status |-> status, op |-> Op(r), entity |-> Entity(r)]

InTx(r) == job[r].pc \in {"work", "missing", "clear", "clearing", "set", "index", "commit"}
Free == Cardinality({r \in Requests : InTx(r)}) < PoolSize

Goto(r, pc) == job' = [job EXCEPT ![r].pc = pc]
End(r, reply) ==
  job' = [job EXCEPT ![r] = [pc |-> "done", seen |-> {}, cleared |-> {}, reply |-> reply]]

PkiInit ==
  /\ load \in Loads
  /\ current \in {{}} \cup {{e} : e \in Published}
  /\ rows = {<<"publish", e>> : e \in Published} \cup {<<"promote", e>> : e \in current}
  /\ tracking = [x \in RequestIds |-> None]
  /\ job = [r \in Requests |->
              [pc |-> IF Op(r) \in TrackedOps /\ Id(r) # None THEN "check"
                      ELSE IF Op(r) = "promote" THEN "begin" ELSE "validate",
               seen |-> {}, cleared |-> {}, reply |-> None]]

-----------------------------------------------------------------------------
(* check_request_tracking: an unexpired reply to this id is replayed, or   *)
(* refused as a conflict if it was another endpoint's.                     *)
CheckTracking(r) ==
  /\ job[r].pc = "check" /\ Free
  /\ LET t == tracking[Id(r)] IN
     \/ t # None /\ t.live /\ t.op = Op(r) /\ End(r, t.reply)
     \/ t # None /\ t.live /\ t.op # Op(r) /\ End(r, HttpReply(r, "conflict"))
     \/ ~(t # None /\ t.live) /\ Goto(r, IF Op(r) = "promote" THEN "begin" ELSE "validate")
  /\ UNCHANGED <<load, rows, current, tracking>>

(* The handler's own checks; create_revocation also looks for its record.  *)
Validate(r) ==
  /\ job[r].pc = "validate"
  /\ \/ (Op(r) = "revoke" => Free) /\ Goto(r, "begin")
     \/ End(r, HttpReply(r, "invalid"))
  /\ UNCHANGED <<load, rows, current, tracking>>

BeginTx(r) ==
  /\ job[r].pc = "begin" /\ Free
  /\ Goto(r, "work")
  /\ UNCHANGED <<load, rows, current, tracking>>

(* The handlers that insert a row of their own, with its audit event; the  *)
(* session audit event is a statement without a transaction around it.     *)
Insert(r, op) ==
  /\ job[r].pc = "work" /\ Op(r) = op
  /\ Goto(r, "commit")
  /\ UNCHANGED <<load, rows, current, tracking>>

create_submission(r) == Insert(r, "submit")
create_revocation(r) == Insert(r, "revoke")
publish_trust_bundle(r) == Insert(r, "publish")
create_session_audit_event(r) == Insert(r, "audit")

(* post_moderation_decision: the UPDATE waits for another decision on the  *)
(* same submission, and finds no row if the submission does not exist.     *)
Moderate(r) ==
  /\ job[r].pc = "work" /\ Op(r) = "moderate"
  /\ \/ <<"submit", Entity(r)>> \notin rows /\ End(r, HttpReply(r, "missing"))
     \/ /\ <<"submit", Entity(r)>> \in rows
        /\ \A o \in Requests \ {r} :
             ~(Op(o) = "moderate" /\ Entity(o) = Entity(r) /\ job[o].pc = "commit")
        /\ Goto(r, "commit")
  /\ UNCHANGED <<load, rows, current, tracking>>

(* promote_trust_bundle: SELECT the bundle, clear the current one, set     *)
(* this one.  Each UPDATE starts, and then gets its rows.                  *)
PromoteSelect(r) ==
  /\ job[r].pc = "work" /\ Op(r) = "promote"
  /\ Goto(r, IF <<"publish", Entity(r)>> \in rows THEN "clear" ELSE "missing")
  /\ UNCHANGED <<load, rows, current, tracking>>

PromoteClear(r) ==
  /\ job[r].pc = "clear"
  /\ job' = [job EXCEPT ![r].pc = "clearing", ![r].seen = current]
  /\ UNCHANGED <<load, rows, current, tracking>>

(* The requests whose uncommitted changes hold r's present statement up:   *)
(* they have changed a row it wants, or an entry of the unique index on    *)
(* is_current.                                                             *)
Locks(o) == job[o].cleared \cup (IF job[o].pc \in {"index", "commit"} THEN {Entity(o)} ELSE {})
Setting(o) == Op(o) = "promote" /\ job[o].pc = "commit"
Rivals(r) == current \ (job[r].cleared \cup {Entity(r)})
BlockedBy(r) ==
  {o \in Requests \ {r} :
     /\ Op(o) = "promote" /\ InTx(o)
     /\ \/ job[r].pc = "clearing" /\ job[r].seen \cap Locks(o) # {}
        \/ job[r].pc = "set" /\ Entity(r) \in Locks(o)
        \/ job[r].pc = "index" /\ (Setting(o) \/ Rivals(r) \cap job[o].cleared # {})}

(* Mutant: the current bundle is cleared outside the transaction.          *)
ClearAtOnce(r) ==
  /\ job[r].pc = "clearing" /\ BlockedBy(r) = {}
  /\ job' = [job EXCEPT ![r].pc = "set"]
  /\ current' = current \ job[r].seen
  /\ UNCHANGED <<load, rows, tracking>>

PromoteCleared(r) ==
  /\ job[r].pc = "clearing" /\ BlockedBy(r) = {}
  /\ job' = [job EXCEPT ![r].pc = "set", ![r].cleared = job[r].seen \cap current]
  /\ UNCHANGED <<load, rows, current, tracking>>

PromoteSet(r) ==
  /\ job[r].pc = "set" /\ BlockedBy(r) = {}
  /\ Goto(r, "index")
  /\ UNCHANGED <<load, rows, current, tracking>>

(* The unique index: another current bundle, committed since, is an error. *)
PromoteIndexed(r) ==
  /\ job[r].pc = "index" /\ BlockedBy(r) = {}
  /\ \/ Rivals(r) = {} /\ Goto(r, "commit")
     \/ Rivals(r) # {} /\ End(r, HttpReply(r, "error"))
  /\ UNCHANGED <<load, rows, current, tracking>>

(* track_request: ON CONFLICT DO NOTHING, also if the row has expired.     *)
Tracked(r, status) ==
  IF Id(r) # None /\ tracking[Id(r)] = None
  THEN [tracking EXCEPT ![Id(r)] = [op |-> Op(r), reply |-> HttpReply(r, status), live |-> TRUE]]
  ELSE tracking

Promoted(r) == IF Op(r) = "promote" THEN (current \ job[r].cleared) \cup {Entity(r)} ELSE current

(* Mutant: the reply is tracked before the transaction commits.            *)
TrackThenCommit(r) ==
  /\ \/ /\ job[r].pc = "commit" /\ Goto(r, "track")
        /\ tracking' = IF Op(r) \in TrackedOps THEN Tracked(r, "ok") ELSE tracking
        /\ UNCHANGED <<rows, current>>
     \/ /\ job[r].pc = "track" /\ End(r, HttpReply(r, "ok"))
        /\ rows' = rows \cup {<<Op(r), Entity(r)>>}
        /\ current' = Promoted(r)
        /\ UNCHANGED tracking
  /\ UNCHANGED load

Commit(r) ==
  /\ job[r].pc = "commit"
  /\ rows' = rows \cup {<<Op(r), Entity(r)>>}
  /\ current' = Promoted(r)
  /\ IF Op(r) \in TrackedOps
     THEN job' = [job EXCEPT ![r].pc = "track", ![r].seen = {}, ![r].cleared = {}]
     ELSE End(r, HttpReply(r, "ok"))
  /\ UNCHANGED <<load, tracking>>

(* The row is read back for its timestamp, and the reply tracked, if the   *)
(* request has an id, and sent.  A promotion that found no bundle tracks   *)
(* its 404 as well, while its transaction still holds a connection.        *)
Track(r) ==
  /\ \/ job[r].pc = "track" /\ Free /\ End(r, HttpReply(r, "ok")) /\ tracking' = Tracked(r, "ok")
     \/ /\ job[r].pc = "missing" /\ (Id(r) # None => Free)
        /\ End(r, HttpReply(r, "missing")) /\ tracking' = Tracked(r, "missing")
  /\ UNCHANGED <<load, rows, current>>

(* A reply that cannot be read back or tracked is sent all the same.       *)
TrackFails(r) ==
  /\ \/ job[r].pc = "track" /\ End(r, HttpReply(r, "ok"))
     \/ job[r].pc = "missing" /\ Id(r) # None /\ End(r, HttpReply(r, "missing"))
  /\ UNCHANGED <<load, rows, current, tracking>>

(* A statement, the commit or the wait for a connection fails: 500, and    *)
(* the transaction, if any, is rolled back.                                *)
DbError(r) ==
  /\ job[r].pc \notin {"done", "track", "missing"}
  /\ job[r].pc = "validate" => Op(r) = "revoke"
  /\ End(r, HttpReply(r, "error"))
  /\ UNCHANGED <<load, rows, current, tracking>>

(* The client goes away, or the handler panics on a column it reads back:  *)
(* the handler stops where it is, and an open transaction is rolled back.  *)
Abandon(r) ==
  /\ job[r].pc # "done"
  /\ End(r, None)
  /\ UNCHANGED <<load, rows, current, tracking>>

(* expires_at passes.                                                      *)
TrackingExpires(x) ==
  /\ tracking[x] # None /\ tracking[x].live
  /\ tracking' = [tracking EXCEPT ![x].live = FALSE]
  /\ UNCHANGED <<load, job, rows, current>>

HandlerStep(r) ==
  \/ CheckTracking(r) \/ Validate(r) \/ BeginTx(r)
  \/ create_submission(r) \/ create_revocation(r) \/ publish_trust_bundle(r)
  \/ create_session_audit_event(r) \/ Moderate(r)
  \/ PromoteSelect(r) \/ PromoteClear(r) \/ PromoteCleared(r) \/ PromoteSet(r)
  \/ PromoteIndexed(r) \/ Commit(r) \/ Track(r)

PkiNext ==
  \/ \E r \in Requests : HandlerStep(r) \/ TrackFails(r) \/ DbError(r) \/ Abandon(r)
  \/ \E x \in RequestIds : TrackingExpires(x)

PkiSpec == PkiInit /\ [][PkiNext]_pkiVars

(* The pool's acquire timeout and the database's deadlock detection.       *)
AcquireTimesOut(r) ==
  /\ ~Free /\ job[r].pc \in {"check", "validate", "begin", "track", "missing"}
  /\ DbError(r) \/ TrackFails(r)
DeadlockDetected(r) ==
  (\E o \in BlockedBy(r) : r \in BlockedBy(o)) /\ DbError(r)

-----------------------------------------------------------------------------
PkiTypeOK ==
  /\ \A r \in Requests :
       /\ job[r].pc \in {"check", "validate", "begin", "work", "missing", "clear", "clearing",
                         "set", "index", "commit", "track", "done"}
       /\ job[r].seen \cup job[r].cleared \subseteq Published \cup Requests
       /\ job[r].reply # None => job[r].reply.status \in
            {"ok", "invalid", "conflict", "missing", "error"}
  /\ rows \subseteq Ops \X (Requests \cup Published)
  /\ Cardinality({r \in Requests : InTx(r)}) <= PoolSize

(* From the first promotion on exactly one trust bundle is current, the    *)
(* one get_current_trust_bundle serves, whatever promotions race, fail or  *)
(* are abandoned between clearing the old one and setting the new.         *)
ExactlyOneCurrent ==
  /\ \A e, f \in current : e = f
  /\ \A e \in current : <<"promote", e>> \in rows
  /\ current = {} => \A row \in rows : row[1] # "promote"

(* A client that reads a success, its own or one replayed from             *)
(* request_tracking, can rely on what it names being committed, whatever   *)
(* became of the request that was tracked (create_revocation,              *)
(* publish_trust_bundle, promote_trust_bundle).                            *)
RepliedIsStored ==
  \A r \in Requests : job[r].reply # None /\ job[r].reply.status = "ok"
                        => <<job[r].reply.op, job[r].reply.entity>> \in rows

(* Every handler has ended.                                                *)
RequestsOver == \A r \in Requests : job[r].pc = "done"
=============================================================================
