-------------------------------- MODULE Mesh ---------------------------------
(***************************************************************************)
(* The relay mesh: nodes in radio range of their neighbours only, flooding *)
(* peer and route queries, answering them from their caches, relaying data *)
(* and broadcasts.  One action is one MeshDaemon::step on a frame that was *)
(* decoded (dispatch and everything it calls), or one call of the library. *)
(*                                                                         *)
(* A transmission is one copy of the envelope for every neighbour, each of *)
(* which may be lost.  Peer ids are nodes, signatures of honest nodes      *)
(* verify, a query id is unique to its originator.  An entry past its time *)
(* to live stays in its table until the code evicts it; the caches are     *)
(* larger than the mesh.                                                   *)
(***************************************************************************)
EXTENDS Option, Naturals, Sequences, FiniteSets

CONSTANTS
  Nodes,
  Links,       \* pairs of nodes in range of each other (both orders)
  HopLimit,    \* node -> max_hops of its configuration
  Denied,      \* node -> originators its relay policy denies
  Strict,      \* nodes of relay_policy "strict": TrustFilter::TrustedOnly
  QueryCap,    \* capacity of the query tracker
  SeenCap,     \* MAX_SEEN_ENTRIES
  Sessions,    \* session ids of relayed data
  MaxTtl,      \* largest ttl of a broadcast
  Plans,       \* sets of library calls and beacons, one of which is made
  MaxMishaps   \* bound on copies of frames lost and entries that reach their time to live

ASSUME MeshAssumption == HopLimit \in [Nodes -> Nat] /\ QueryCap \in Nat

VARIABLES
  frames,      \* node -> envelopes it has heard and not yet taken up, in order
  tracker,     \* node -> (originator, query id) pairs seen, least recent first
  seen,        \* node -> (originator, session) pairs relayed
  peer_cache,  \* node -> peers in its cache besides itself: peer -> fresh?
  route_table, \* node -> destination -> None or [route_id, hops, fresh]
  outstanding, \* node -> its route queries: [id, dst]
  sent,        \* history: what RouteUsed events told: destination, session and route
  delivered,   \* (node, session) pairs of FrameDelivered events
  todo,        \* calls of the plan not yet made
  mishaps      \* copies of frames lost and entries aged so far

meshVars ==
  <<frames, tracker, seen, peer_cache, route_table, outstanding, sent, delivered,
    todo, mishaps>>

Neighbours(n) == {m \in Nodes : <<n, m>> \in Links}

MeshInit ==
  /\ frames = [n \in Nodes |-> <<>>]
  /\ tracker = [n \in Nodes |-> <<>>]
  /\ seen = [n \in Nodes |-> {}]
  /\ peer_cache = [n \in Nodes |-> << >>]
  /\ route_table = [n \in Nodes |-> [d \in Nodes |-> None]]
  /\ outstanding = [n \in Nodes |-> {}]
  /\ sent = {}
  /\ delivered = {}
  /\ todo \in Plans
  /\ mishaps = 0

Envelope(type, src, dst, limit, body) ==
  [type |-> type, src |-> src, dst |-> dst, limit |-> limit, hop |-> 0, body |-> body]

(* What m hears of envelope i, if there is one.                            *)
Copy(envs, missed, i, m) ==
  IF i \in DOMAIN envs /\ <<i, m>> \notin missed THEN <<envs[i]>> ELSE <<>>

(* n transmits the envelopes, two at most, each to be heard by those of    *)
(* its neighbours it is not lost to, and its own frames become mine.       *)
Radiates(n, mine, envs) ==
  \E missed \in SUBSET ((DOMAIN envs) \X Neighbours(n)) :
    /\ mishaps' = mishaps + Cardinality(missed)
    /\ mishaps' <= MaxMishaps
    /\ frames' = [m \in Nodes |->
         IF m = n THEN mine
         ELSE IF m \in Neighbours(n)
           THEN frames[m] \o Copy(envs, missed, 1, m) \o Copy(envs, missed, 2, m)
         ELSE frames[m]]

Called(call) ==
  /\ call \in todo
  /\ todo' = todo \ {call}

Originates(n, env) == Radiates(n, frames[n], <<env>>)
Replies(n, envs) == Radiates(n, Tail(frames[n]), envs)

(* dispatch: the next envelope, its hop limit clamped to n's.              *)
NextFrame(n) ==
  [Head(frames[n]) EXCEPT !.limit = IF @ > HopLimit[n] THEN HopLimit[n] ELSE @]

-----------------------------------------------------------------------------
(* QueryForwarder and its tracker.                                         *)

QueryKey(env) == <<env.src, env.body.id>>

IsQuery(env) == env.type \in {"PeerQuery", "RouteRequest"}

(* Mutant: an envelope at its hop limit is flooded once more.              *)
MayPropagateOver(n, env) ==
  /\ IsQuery(env)
  /\ env.hop <= env.limit
  /\ env.src \notin Denied[n]

(* The checks that come before the duplicate check.                        *)
MayPropagate(n, env) ==
  /\ IsQuery(env)
  /\ env.hop < env.limit
  /\ env.src \notin Denied[n]

SeenQueries(n) == {tracker[n][i] : i \in DOMAIN tracker[n]}

(* The queue without key k, which it holds once at most.                   *)
Without(queue, k) ==
  LET at == {i \in DOMAIN queue : queue[i] = k}
  IN  IF at = {} THEN queue
      ELSE [j \in 1..(Len(queue) - 1) |->
              IF \E i \in at : i <= j THEN queue[j + 1] ELSE queue[j]]

(* should_forward_query: the key becomes the most recent, and the least    *)
(* recent makes room for it.                                               *)
TrackQuery(n, env) ==
  LET queue == Append(Without(tracker[n], QueryKey(env)), QueryKey(env))
  IN  tracker' = IF MayPropagate(n, env)
                   THEN [tracker EXCEPT ![n] = IF Len(queue) > QueryCap THEN Tail(queue) ELSE queue]
                   ELSE tracker

(* propagate: the envelope to flood onward, if any.                        *)
Propagated(n, env) ==
  IF MayPropagate(n, env) /\ QueryKey(env) \notin SeenQueries(n)
    THEN <<[env EXCEPT !.hop = @ + 1]>>
    ELSE <<>>

-----------------------------------------------------------------------------
(* Peer discovery.                                                         *)

(* step: a beacon is due.                                                  *)
Beacon(n) ==
  /\ Called(<<"beacon", n, None>>)
  /\ Originates(n, Envelope("PeerQuery", n, None, HopLimit[n], [id |-> "beacon"]))
  /\ UNCHANGED <<tracker, seen, peer_cache, route_table, outstanding, sent, delivered>>

FreshPeers(n) == {p \in DOMAIN peer_cache[n] : peer_cache[n][p]}

(* handle_peer_query_request: one record of the cache, whose entries all   *)
(* have the quality of n's own, is sent back; the request is flooded on.   *)
HearPeerQuery(n) ==
  LET env == NextFrame(n)
  IN  /\ env.type = "PeerQuery"
      /\ peer_cache' = [peer_cache EXCEPT ![n] = [p \in FreshPeers(n) |-> TRUE]]
      /\ \E p \in FreshPeers(n) \union {n} :
           Replies(n, <<Envelope("PeerResponse", n, None, HopLimit[n],
                                 [id |-> env.body.id, peer |-> p])>> \o Propagated(n, env))
      /\ TrackQuery(n, env)
      /\ UNCHANGED <<seen, route_table, outstanding, sent, delivered, todo>>

(* handle_peer_query_response.                                             *)
HearPeerResponse(n) ==
  /\ NextFrame(n).type = "PeerResponse"
  /\ peer_cache' = [peer_cache EXCEPT ![n] =
       [p \in FreshPeers(n) \union ({NextFrame(n).body.peer} \ {n}) |-> TRUE]]
  /\ Replies(n, <<>>)
  /\ UNCHANGED <<tracker, seen, route_table, outstanding, sent, delivered, todo>>

-----------------------------------------------------------------------------
(* The route table.                                                        *)

(* evict_expired.                                                          *)
Evicted(table) == [d \in Nodes |-> IF table[d] # None /\ table[d].fresh THEN table[d] ELSE None]

(* record: the shorter route is kept; hops carry the same reliability, so  *)
(* a route of the same length only refreshes the entry.                    *)
Recorded(table, d, route) ==
  LET t == Evicted(table)
  IN  IF t[d] = None \/ Len(route.hops) < Len(t[d].hops)
        THEN [t EXCEPT ![d] = route]
        ELSE [t EXCEPT ![d].fresh = TRUE]

(* apply_update: the route of that id is replaced whatever its length.     *)
Updated(table, d, route) ==
  LET t == Evicted(table)
  IN  IF t[d] # None /\ t[d].route_id = route.route_id
        THEN [t EXCEPT ![d] = route]
        ELSE Recorded(table, d, route)

Route(id, hops) == [route_id |-> id, hops |-> hops, fresh |-> TRUE]

-----------------------------------------------------------------------------
(* Route discovery.                                                        *)

(* discover_route.                                                         *)
DiscoverRoute(n, d) ==
  /\ Called(<<"discover", n, d>>)
  /\ outstanding' = [outstanding EXCEPT ![n] = @ \union {[id |-> d, dst |-> d]}]
  /\ Originates(n, Envelope("RouteRequest", n, d, HopLimit[n],
              [id |-> d, dst |-> d, max |-> HopLimit[n], path |-> <<>>]))
  /\ UNCHANGED <<tracker, seen, peer_cache, route_table, sent, delivered>>

(* Mutant: the forwarder's own hop is left to the next forwarder.          *)
accumulate_nothing(n, env) == env

(* accumulate_forwarder.                                                   *)
accumulate_forwarder(n, env) ==
  IF Len(env.body.path) < env.body.max /\ \A i \in DOMAIN env.body.path : env.body.path[i] # n
    THEN [env EXCEPT !.body.path = Append(@, n)]
    ELSE env

(* answer: the hops of the route n can vouch for, if any.                  *)
RouteAnswers(n, req) ==
  IF req.dst = n
    THEN {Append(req.path, n)}
    ELSE {req.path \o r.hops : r \in {route_table[n][req.dst]} \ {None}}

(* handle_route_discovery_request, and propagate_route_request when there  *)
(* is no answer or its transmission failed.  A route id is named by what   *)
(* it answers.                                                             *)
HearRouteRequest(n) ==
  LET env == NextFrame(n)
      req == env.body
      onward == accumulate_forwarder(n, env)
  IN  /\ env.type = "RouteRequest"
      /\ \/ \E hops \in RouteAnswers(n, req) :
              /\ Replies(n, <<Envelope("RouteResponse", n, env.src, HopLimit[n],
                   [id |-> req.id, route_id |-> <<n, env.src, req.id, req.path>>, hops |-> hops])>>)
              /\ UNCHANGED tracker
         \/ /\ RouteAnswers(n, req) = {} \/ MaxMishaps > 0
            /\ Replies(n, Propagated(n, onward))
            /\ TrackQuery(n, onward)
      /\ UNCHANGED <<seen, peer_cache, route_table, outstanding, sent, delivered, todo>>

(* apply_response: the route is recorded for the destination asked for.    *)
Applied(n, env, q) ==
  Recorded(route_table[n], q.dst, Route(env.body.route_id, env.body.hops))

(* A RouteDiscoveryResponse: handle_route_discovery_response when it is    *)
(* addressed to n, propagate_query otherwise.                              *)
HearRouteResponse(n) ==
  LET env == NextFrame(n)
      mine == {q \in outstanding[n] : q.id = env.body.id}
  IN  /\ env.type = "RouteResponse"
      /\ IF env.dst = n /\ mine # {}
           THEN \E q \in mine :
                  /\ route_table' = [route_table EXCEPT ![n] = Applied(n, env, q)]
                  /\ outstanding' = [outstanding EXCEPT ![n] = @ \ {q}]
           ELSE UNCHANGED <<route_table, outstanding>>
      /\ Replies(n, IF env.dst = n THEN <<>> ELSE Propagated(n, env))
      /\ UNCHANGED <<tracker, seen, peer_cache, sent, delivered, todo>>

-----------------------------------------------------------------------------
(* Route maintenance.                                                      *)

Walk(n, hops) ==
  \A i \in DOMAIN hops : <<IF i = 1 THEN n ELSE hops[i - 1], hops[i]>> \in Links

(* send_route_update by a holder of a route to d, with a path it has.      *)
SendRouteUpdate(n, d) ==
  /\ Called(<<"update", n, d>>)
  /\ route_table[n][d] # None
  /\ \E hops \in {h \in {<<d>>} \union {<<m, d>> : m \in Nodes \ {n, d}} : Walk(n, h)} :
       Originates(n, Envelope("RouteUpdate", n, d, HopLimit[n],
                [route_id |-> route_table[n][d].route_id, hops |-> hops]))
  /\ UNCHANGED <<tracker, seen, peer_cache, route_table, outstanding, sent, delivered>>

(* send_route_reject of a route that some node holds.                      *)
SendRouteReject(n, d) ==
  /\ Called(<<"reject", n, d>>)
  /\ \E o \in Nodes : /\ route_table[o][d] # None
                      /\ Originates(n, Envelope("RouteReject", n, d, HopLimit[n],
                                  [route_id |-> route_table[o][d].route_id, by |-> n]))
  /\ UNCHANGED <<tracker, seen, peer_cache, route_table, outstanding, sent, delivered>>

(* handle_route_update, then propagate_query.                              *)
HearRouteUpdate(n) ==
  LET env == NextFrame(n)
      hops == env.body.hops
  IN  /\ env.type = "RouteUpdate"
      /\ route_table' = [route_table EXCEPT ![n] =
           Updated(@, hops[Len(hops)], Route(env.body.route_id, hops))]
      /\ Replies(n, Propagated(n, env))
      /\ UNCHANGED <<tracker, seen, peer_cache, outstanding, sent, delivered, todo>>

(* apply_route_reject: only a hop of the route takes it down.              *)
Rejected(table, body) ==
  [d \in Nodes |->
     IF /\ table[d] # None /\ table[d].route_id = body.route_id
        /\ \E i \in DOMAIN table[d].hops : table[d].hops[i] = body.by
       THEN None ELSE table[d]]

(* handle_route_reject, then propagate_query.                              *)
HearRouteReject(n) ==
  LET env == NextFrame(n)
  IN  /\ env.type = "RouteReject"
      /\ route_table' = [route_table EXCEPT ![n] = Rejected(@, env.body)]
      /\ Replies(n, Propagated(n, env))
      /\ UNCHANGED <<tracker, seen, peer_cache, outstanding, sent, delivered, todo>>

-----------------------------------------------------------------------------
(* Relayed data.                                                           *)

(* validate_route_with_policy.                                             *)
ValidRoute(n, route) ==
  /\ Len(route) - 1 <= HopLimit[n]
  /\ \A i, j \in DOMAIN route : i # j => route[i] # route[j]
  /\ \A i \in 2..(Len(route) - 1) : route[i] \notin Denied[n]

(* select_best_scored_route: a direct link, if the destination is in the   *)
(* cache, comes before the learned route.                                  *)
BestRoutes(n, d) ==
  LET learned == {<<n>> \o r.hops : r \in {Evicted(route_table[n])[d]} \ {None}}
  IN  {r \in IF d \in DOMAIN peer_cache[n] THEN {<<n, d>>} ELSE learned : ValidRoute(n, r)}

(* send_via_route; with no valid route only the eviction remains.          *)
SendViaRoute(n, d, s) ==
  /\ Called(<<"send", n, d>>)
  /\ route_table' = [route_table EXCEPT ![n] = Evicted(@)]
  /\ \/ \E r \in BestRoutes(n, d) :
          /\ Originates(n, Envelope("Chunk", n, d, Len(r) - 1, [session |-> s]))
          /\ sent' = sent \union {[dst |-> d, session |-> s, route |-> r]}
     \/ BestRoutes(n, d) = {} /\ UNCHANGED <<frames, sent, mishaps>>
  /\ UNCHANGED <<tracker, seen, peer_cache, outstanding, delivered>>

(* Mutant: the hop count the envelope would leave with is compared.        *)
ForwardsShort(n, env) ==
  /\ n \in Strict => env.src = n
  /\ env.hop + 1 < env.limit
  /\ Cardinality(seen[n]) < SeenCap
  /\ <<env.src, env.body.session>> \notin seen[n]
  /\ env.src \notin Denied[n]

(* RelayForwarder::forward, behind the trust filter: nobody but n itself   *)
(* is ever verified in n's cache.                                          *)
Forwards(n, env) ==
  /\ n \in Strict => env.src = n
  /\ env.hop < env.limit
  /\ Cardinality(seen[n]) < SeenCap
  /\ <<env.src, env.body.session>> \notin seen[n]
  /\ env.src \notin Denied[n]

(* Mutant: what is not for n is sent on as it is, past the forwarder.      *)
HearChunkAsIs(n) ==
  LET env == NextFrame(n)
  IN  /\ env.type = "Chunk"
      /\ delivered' = IF env.dst = n THEN delivered \union {<<n, env.body.session>>} ELSE delivered
      /\ Replies(n, IF env.dst = n THEN <<>> ELSE <<env>>)
      /\ UNCHANGED <<tracker, seen, peer_cache, route_table, outstanding, sent, todo>>

HearChunk(n) ==
  LET env == NextFrame(n)
      relays == env.dst # n /\ Forwards(n, env)
  IN  /\ env.type = "Chunk"
      /\ delivered' = IF env.dst = n THEN delivered \union {<<n, env.body.session>>} ELSE delivered
      /\ seen' = IF relays THEN [seen EXCEPT ![n] = @ \union {<<env.src, env.body.session>>}] ELSE seen
      /\ Replies(n, IF relays THEN <<[env EXCEPT !.hop = @ + 1]>> ELSE <<>>)
      /\ UNCHANGED <<tracker, peer_cache, route_table, outstanding, sent, todo>>

-----------------------------------------------------------------------------
(* Broadcasts.                                                             *)

SendBroadcast(n, ttl) ==
  /\ Called(<<"broadcast", n, None>>)
  /\ Originates(n, Envelope("Broadcast", n, None, HopLimit[n], [ttl |-> ttl]))
  /\ UNCHANGED <<tracker, seen, peer_cache, route_table, outstanding, sent, delivered>>

Rebroadcast(env) ==
  IF env.body.ttl > 0 THEN <<[env EXCEPT !.hop = @ + 1, !.body.ttl = @ - 1]>> ELSE <<>>

(* handle_broadcast_frame.                                                 *)
HearBroadcast(n) ==
  /\ NextFrame(n).type = "Broadcast"
  /\ Replies(n, Rebroadcast(NextFrame(n)))
  /\ UNCHANGED <<tracker, seen, peer_cache, route_table, outstanding, sent, delivered, todo>>

-----------------------------------------------------------------------------
(* The radio and the clock.                                                *)

QuietAir == \A n \in Nodes : frames[n] = <<>>

(* A time to live passes.  That of the duplicate tables is minutes, longer *)
(* than a flood lasts.                                                     *)
Ages(n) ==
  /\ mishaps < MaxMishaps
  /\ mishaps' = mishaps + 1
  /\ \/ \E d \in Nodes :
          /\ route_table[n][d] # None /\ route_table[n][d].fresh
          /\ route_table' = [route_table EXCEPT ![n][d].fresh = FALSE]
          /\ UNCHANGED <<tracker, seen, peer_cache, outstanding>>
     \/ \E p \in FreshPeers(n) :
          /\ peer_cache' = [peer_cache EXCEPT ![n][p] = FALSE]
          /\ UNCHANGED <<tracker, seen, route_table, outstanding>>
     \/ \E q \in outstanding[n] :
          /\ outstanding' = [outstanding EXCEPT ![n] = @ \ {q}]
          /\ UNCHANGED <<tracker, seen, peer_cache, route_table>>
     \/ \E k \in SeenQueries(n) :
          /\ QuietAir
          /\ tracker' = [tracker EXCEPT ![n] = Without(@, k)]
          /\ UNCHANGED <<seen, peer_cache, route_table, outstanding>>
     \/ \E k \in seen[n] :
          /\ QuietAir
          /\ seen' = [seen EXCEPT ![n] = @ \ {k}]
          /\ UNCHANGED <<tracker, peer_cache, route_table, outstanding>>
  /\ UNCHANGED <<frames, sent, delivered, todo>>

(* step with an envelope to take up.                                       *)
Step(n) ==
  /\ frames[n] # <<>>
  /\ \/ HearPeerQuery(n) \/ HearPeerResponse(n)
     \/ HearRouteRequest(n) \/ HearRouteResponse(n)
     \/ HearRouteUpdate(n) \/ HearRouteReject(n)
     \/ HearChunk(n) \/ HearBroadcast(n)

MeshNext ==
  \/ \E n \in Nodes : Beacon(n)
  \/ \E n, d \in Nodes : n # d /\ DiscoverRoute(n, d)
  \/ \E n, d \in Nodes : n # d /\ SendRouteUpdate(n, d)
  \/ \E n, d \in Nodes : n # d /\ SendRouteReject(n, d)
  \/ \E n, d \in Nodes, s \in Sessions : n # d /\ SendViaRoute(n, d, s)
  \/ \E n \in Nodes, t \in 0..MaxTtl : SendBroadcast(n, t)
  \/ \E n \in Nodes : Step(n)
  \/ \E n \in Nodes : Ages(n)

MeshSpec == MeshInit /\ [][MeshNext]_meshVars

(* A node's loop calls step every 50 ms and takes a frame that is there.   *)
MeshFairness == \A n \in Nodes : WF_meshVars(Step(n))

MeshFairSpec == MeshSpec /\ MeshFairness

-----------------------------------------------------------------------------
Waiting(n) == {frames[n][i] : i \in DOMAIN frames[n]}

(* Type invariant: the tables within their capacities, and no flooded or   *)
(* relayed envelope past its hop limit, which every node it passes clamps. *)
MeshTypeOK ==
  /\ \A n \in Nodes :
       /\ \A e \in Waiting(n) : e.type # "Broadcast" => e.hop <= e.limit
       /\ Len(tracker[n]) <= QueryCap
       /\ Cardinality(SeenQueries(n)) = Len(tracker[n])
       /\ Cardinality(seen[n]) <= SeenCap
       /\ DOMAIN peer_cache[n] \subseteq Nodes \ {n}
       /\ \A d \in Nodes : route_table[n][d] # None => route_table[n][d].hops # <<>>

Destination(hops) == hops[Len(hops)]

(* The route with which a destination answers a query is a path of links   *)
(* from the originator: every forwarder of the copy is on it, in order.    *)
(* And a route stored for a destination ends there, whoever answered: the  *)
(* destination, a node with a cached route, or a holder with an update.    *)
RoutesLeadThere ==
  \A n \in Nodes :
    /\ \A e \in Waiting(n) :
         e.type = "RouteResponse" /\ Destination(e.body.hops) = e.src => Walk(e.dst, e.body.hops)
    /\ \A d \in Nodes :
         route_table[n][d] # None => Destination(route_table[n][d].hops) = d

(* Whatever nodes ask, answer, relay and broadcast, each flood ends: once  *)
(* nothing new is originated the air falls silent.                         *)
FloodsEnd == <>[]QuietAir

(* The nodes within k hops of n.                                           *)
Reach(n, k) ==
  LET reach[i \in 0..k] ==
        IF i = 0 THEN {n}
        ELSE reach[i - 1] \union {m \in Nodes : \E x \in reach[i - 1] : <<x, m>> \in Links}
  IN  reach[k]

(* A chunk sent along a route has been delivered by the time the air falls *)
(* silent, when nothing is lost, no table entry ages and the relays on the *)
(* way serve its sender: the hop limit that send_via_route takes from the  *)
(* route it believes in carries the chunk one hop further than that route  *)
(* is long.  A route from a node's cache leaves out the node that          *)
(* answered, so it may be one short; each cache it has passed through      *)
(* costs it one more, and a destination further away is not promised.      *)
SentIsDelivered ==
  QuietAir /\ mishaps = 0 =>
    \A x \in sent : x.dst \in Reach(x.route[1], Len(x.route)) => <<x.dst, x.session>> \in delivered

(* dispatch's comment on a response that answers another node's query:     *)
(* "otherwise forward it toward the originator like any other query".  On  *)
(* a lossless mesh a query for a node within the hop limit then gets its   *)
(* route.                                                                  *)
DiscoveryCompletes ==
  \A n, d \in Nodes :
    (\E q \in outstanding[n] : q.dst = d) ~> route_table[n][d] # None
=============================================================================
