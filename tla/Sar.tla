--------------------------------- MODULE Sar ---------------------------------
(***************************************************************************)
(* SarReassembler: the fragments of oversized messages, put together again *)
(* under a key that several messages share: every mesh node numbers its    *)
(* segments from 0, and all of them under the one session "mesh-env".      *)
(*                                                                         *)
(* The data of a fragment is the message it was cut from and its place     *)
(* there, so a reassembly is whole when its fragments are all of one       *)
(* message and mixed otherwise.  A fragment the radio loses is one that is *)
(* never ingested.                                                         *)
(***************************************************************************)
EXTENDS Option, Integers, Sequences, FiniteSets, Functions

CONSTANTS
  Messages,       \* messages cut by sar_encode
  SegmentKey,     \* message -> its (session, segment id)
  FragmentTotal,  \* message -> its number of fragments
  MaxCandidates,  \* MAX_CANDIDATES_PER_KEY
  MaxPending,     \* MAX_PENDING_SLOTS
  SarTimeout      \* the reassembly timeout in clock ticks

ASSUME SarAssumption ==
  /\ MaxCandidates \in Nat \ {0} /\ MaxPending \in Nat \ {0} /\ SarTimeout \in Nat \ {0}
  /\ \A m \in Messages : FragmentTotal[m] \in Nat \ {0}
  /\ IsFiniteSet(Messages) /\ None \notin Messages \cup (Messages \X Nat)

VARIABLES
  slots,             \* key -> its candidates, oldest first
  total_candidates,  \* the running total over all keys
  completed,         \* what the last ingest returned
  stream             \* history: key -> the message whose fragments arrive there undisturbed

sarVars == <<slots, total_candidates, completed, stream>>

SarKeys == {SegmentKey[m] : m \in Messages}
Fragments(m) == 1..FragmentTotal[m]
Whole(m) == [i \in Fragments(m) |-> <<m, i>>]

NoStream == [msg |-> None, got |-> {}, fresh |-> FALSE, returned |-> FALSE]

SarInit ==
  /\ slots = [k \in SarKeys |-> <<>>]
  /\ total_candidates = 0
  /\ completed = {}
  /\ stream = [k \in SarKeys |-> NoStream]

-----------------------------------------------------------------------------
(* ingest.                                                                 *)

(* Same total, and the place is empty or holds the same bytes.             *)
Consistent(c, m, i) == c.total = FragmentTotal[m] /\ c.fragments[i] \in {None, <<m, i>>}

NewCandidate(m, i) ==
  [total |-> FragmentTotal[m],
   fragments |-> [j \in Fragments(m) |-> IF j = i THEN <<m, i>> ELSE None],
   received |-> 1,
   age |-> 0]

Fill(c, m, i) ==
  IF c.fragments[i] = None
    THEN [c EXCEPT !.fragments[i] = <<m, i>>, !.received = @ + 1]
    ELSE c

(* Mutant: a fragment for a place that is filled starts the key over.      *)
PlaceStartsOver(cs, m, i) ==
  IF \E j \in DOMAIN cs : cs[j].total = FragmentTotal[m] /\ cs[j].fragments[i] = None
    THEN [j \in DOMAIN cs |-> IF Consistent(cs[j], m, i) THEN Fill(cs[j], m, i) ELSE cs[j]]
    ELSE <<NewCandidate(m, i)>>

(* The candidates of a key once the fragment is put into every candidate   *)
(* it fits, or has begun one of its own, for which the oldest makes room.  *)
Place(cs, m, i) ==
  IF \E j \in DOMAIN cs : Consistent(cs[j], m, i)
    THEN [j \in DOMAIN cs |-> IF Consistent(cs[j], m, i) THEN Fill(cs[j], m, i) ELSE cs[j]]
    ELSE Append(IF Len(cs) >= MaxCandidates THEN Tail(cs) ELSE cs, NewCandidate(m, i))

(* TooManyPendingSegments: a new candidate is needed, the key has room and *)
(* the reassembler has none.                                               *)
TooMany(cs, m, i) ==
  /\ ~ \E j \in DOMAIN cs : Consistent(cs[j], m, i)
  /\ Len(cs) < MaxCandidates
  /\ total_candidates >= MaxPending

IsComplete(c) == c.received = c.total

(* Vec::retain: the elements of q at the places in keep, in their order.   *)
Retain(q, keep) ==
  LET kept[i \in 0..Len(q)] ==
        IF i = 0 THEN <<>>
        ELSE IF i \in keep THEN Append(kept[i - 1], q[i]) ELSE kept[i - 1]
  IN  kept[Len(q)]

Observe(k, m, i, returned) ==
  LET s == stream[k]
      t == IF s.msg = m THEN s
           ELSE [msg |-> m, got |-> {}, fresh |-> slots[k] = <<>>, returned |-> FALSE]
  IN  stream' = [stream EXCEPT ![k] =
        [t EXCEPT !.got = @ \union {i}, !.returned = @ \/ Whole(m) \in returned]]

(* Whether the fragment begins a candidate, and whether one is evicted for *)
(* it: each changes the running total by itself, as do the completed ones. *)
Begins(cs, m, i) == ~ \E j \in DOMAIN cs : Consistent(cs[j], m, i)
Evicts(cs, m, i) == Begins(cs, m, i) /\ Len(cs) >= MaxCandidates
One(b) == IF b THEN 1 ELSE 0

(* Mutant: the candidate that made room is not taken off the total.        *)
IngestMiscounts(m, i) ==
  LET k == SegmentKey[m]
      cs == slots[k]
      placed == Place(cs, m, i)
      done == {j \in DOMAIN placed : IsComplete(placed[j])}
  IN  /\ ~TooMany(cs, m, i)
      /\ slots' = [slots EXCEPT ![k] = Retain(placed, DOMAIN placed \ done)]
      /\ total_candidates' = total_candidates + One(Begins(cs, m, i)) - Cardinality(done)
      /\ completed' = {placed[j].fragments : j \in done}
      /\ Observe(k, m, i, completed')

Ingest(m, i) ==
  LET k == SegmentKey[m]
      cs == slots[k]
      placed == Place(cs, m, i)
      done == {j \in DOMAIN placed : IsComplete(placed[j])}
  IN  /\ ~TooMany(cs, m, i)
      /\ slots' = [slots EXCEPT ![k] = Retain(placed, DOMAIN placed \ done)]
      /\ total_candidates' =
           ((total_candidates - One(Evicts(cs, m, i))) + One(Begins(cs, m, i))) - Cardinality(done)
      /\ completed' = {placed[j].fragments : j \in done}
      /\ Observe(k, m, i, completed')

IngestRefused(m, i) ==
  /\ TooMany(slots[SegmentKey[m]], m, i)
  /\ completed' = {}
  /\ stream' = [stream EXCEPT ![SegmentKey[m]] = NoStream]
  /\ UNCHANGED <<slots, total_candidates>>

-----------------------------------------------------------------------------
(* expire, called by the owner of the reassembler, and the passing of time.*)
(* What expires is counted key by key, as the lists shrink.                *)

InTime(c) == c.age < SarTimeout

SarExpire ==
  /\ \E k \in SarKeys : \E j \in DOMAIN slots[k] : ~InTime(slots[k][j])
  /\ slots' = [k \in SarKeys |-> Retain(slots[k], {j \in DOMAIN slots[k] : InTime(slots[k][j])})]
  /\ total_candidates' =
       total_candidates - SumFunction([k \in SarKeys |-> Len(slots[k]) - Len(slots'[k])])
  /\ completed' = {}
  /\ stream' = [k \in SarKeys |-> IF slots'[k] = slots[k] THEN stream[k] ELSE NoStream]

SarTick ==
  /\ \E k \in SarKeys : \E j \in DOMAIN slots[k] : InTime(slots[k][j])
  /\ slots' = [k \in SarKeys |->
       [j \in DOMAIN slots[k] |-> [slots[k][j] EXCEPT !.age = IF @ < SarTimeout THEN @ + 1 ELSE @]]]
  /\ UNCHANGED <<total_candidates, completed, stream>>

SarNext ==
  \/ \E m \in Messages : \E i \in Fragments(m) : Ingest(m, i)
  \/ \E m \in Messages : \E i \in Fragments(m) : IngestRefused(m, i)
  \/ SarExpire
  \/ SarTick

SarSpec == SarInit /\ [][SarNext]_sarVars

-----------------------------------------------------------------------------
(* Type invariant: candidates hold the fragments they count, within the    *)
(* caps.                                                                   *)
SarTypeOK ==
  /\ \A k \in SarKeys :
       /\ Len(slots[k]) <= MaxCandidates
       /\ \A j \in DOMAIN slots[k] :
            LET c == slots[k][j]
            IN  /\ c.age \in 0..SarTimeout
                /\ c.received \in 1..(c.total - 1)
                /\ DOMAIN c.fragments = 1..c.total
  /\ total_candidates \in 0..MaxPending
  /\ \A k \in SarKeys : stream[k].msg \in Messages \union {None}

(* The running total that the global cap is enforced with is the number of *)
(* candidates held, through every eviction, completion and expiry: a total *)
(* that drifts up would refuse every later message for good.               *)
TotalIsExact ==
  total_candidates = SumFunction([k \in SarKeys |-> Len(slots[k])])

(* A message whose fragments arrive, in any order and with duplicates,     *)
(* undisturbed by another message of its key, is returned when nothing was *)
(* held under the key at its first fragment.                               *)
UndisturbedIsReturned ==
  \A k \in SarKeys :
    /\ stream[k].msg # None /\ stream[k].fresh
    /\ stream[k].got = Fragments(stream[k].msg)
    => stream[k].returned
=============================================================================
