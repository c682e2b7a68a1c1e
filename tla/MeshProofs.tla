----------------------------- MODULE MeshProofs -----------------------------
(***************************************************************************)
(* Proofs about Mesh: the routes that queries put together hop by hop, and *)
(* the routes that nodes keep, for any nodes, links, hop limits, policies  *)
(* and losses.                                                             *)
(***************************************************************************)
EXTENDS Mesh, TLAPS

Elems(q) == {q[i] : i \in DOMAIN q}

(* What a node that takes up a frame is left with.                         *)
LEMMA TailIs ==
  ASSUME NEW S, NEW q \in Seq(S), q # <<>>
  PROVE  Head(q) \in Elems(q) /\ Tail(q) \in Seq(S) /\ Elems(Tail(q)) \subseteq Elems(q)
<1>1. Len(q) \in Nat /\ Len(q) # 0 /\ DOMAIN q = 1 .. Len(q)
  OBVIOUS
<1>2. DOMAIN Tail(q) = 1 .. Len(q) - 1 /\ \A i \in DOMAIN Tail(q) : Tail(q)[i] = q[i + 1]
  BY <1>1
<1>3. Head(q) = q[1] /\ 1 \in DOMAIN q
  BY <1>1
<1> QED BY <1>1, <1>2, <1>3 DEF Elems

(* Two queues in a row.                                                    *)
LEMMA CatIs ==
  ASSUME NEW S, NEW p \in Seq(S), NEW q \in Seq(S)
  PROVE  p \o q \in Seq(S) /\ Elems(p \o q) \subseteq Elems(p) \cup Elems(q)
<1>1. p \o q \in Seq(S) /\ Len(p \o q) = Len(p) + Len(q)
  OBVIOUS
<1>2. \A i \in 1 .. Len(p) + Len(q) :
        (p \o q)[i] = IF i <= Len(p) THEN p[i] ELSE q[i - Len(p)]
  OBVIOUS
<1> QED BY <1>1, <1>2 DEF Elems

(* A queue with one more.                                                  *)
LEMMA AppendIs ==
  ASSUME NEW S, NEW q \in Seq(S), NEW x \in S
  PROVE  /\ Append(q, x) \in Seq(S) /\ Len(Append(q, x)) = Len(q) + 1
         /\ \A i \in 1 .. Len(q) : Append(q, x)[i] = q[i]
         /\ Append(q, x)[Len(q) + 1] = x
         /\ Elems(Append(q, x)) = Elems(q) \cup {x}
<1>1. /\ Append(q, x) \in Seq(S) /\ Len(Append(q, x)) = Len(q) + 1
      /\ \A i \in 1 .. Len(q) : Append(q, x)[i] = q[i]
      /\ Append(q, x)[Len(q) + 1] = x
  OBVIOUS
<1>2. Len(q) \in Nat /\ DOMAIN q = 1 .. Len(q) /\ DOMAIN Append(q, x) = 1 .. Len(q) + 1
  BY <1>1
<1>3. Elems(q) \cup {x} \subseteq Elems(Append(q, x))
  BY <1>1, <1>2 DEF Elems
<1>4. ASSUME NEW i \in DOMAIN Append(q, x) PROVE Append(q, x)[i] \in Elems(q) \cup {x}
  BY <1>1, <1>2 DEF Elems
<1> QED BY <1>1, <1>3, <1>4 DEF Elems

(* A queue of distinct keys without one of them.                           *)
LEMMA WithoutIs ==
  ASSUME NEW K, NEW q \in Seq(K), NEW k, \A i, j \in DOMAIN q : q[i] = q[j] => i = j
  PROVE  /\ Without(q, k) \in Seq(K)
         /\ Len(Without(q, k)) <= Len(q)
         /\ Elems(Without(q, k)) = Elems(q) \ {k}
         /\ \A i, j \in DOMAIN Without(q, k) : Without(q, k)[i] = Without(q, k)[j] => i = j
<1> DEFINE at == {i \in DOMAIN q : q[i] = k}
           w == Without(q, k)
<1>0. Len(q) \in Nat /\ DOMAIN q = 1 .. Len(q) /\ \A i \in DOMAIN q : q[i] \in K
  OBVIOUS
<1>1. CASE at = {}
  <2>2. w = q
    BY <1>1 DEF Without
  <2> QED BY <1>1, <2>2, <1>0 DEF Elems
<1>2. CASE at # {}
  <2>1. PICK x \in DOMAIN q : q[x] = k
    BY <1>2
  <2>2. at = {x}
    BY <2>1
  <2>3. w = [j \in 1 .. Len(q) - 1 |-> IF x <= j THEN q[j + 1] ELSE q[j]]
    BY Zenon, <1>2, <2>2 DEF Without
  <2> HIDE DEF w, at
  <2>4. w \in Seq(K) /\ Len(w) = Len(q) - 1 /\ DOMAIN w = 1 .. Len(q) - 1
    BY <1>0, <2>1, <2>3
  <2>5. \A j \in DOMAIN w : w[j] \in Elems(q) /\ w[j] # k
    BY <1>0, <2>1, <2>3, <2>4 DEF Elems
  <2>6. ASSUME NEW i \in DOMAIN q, q[i] # k PROVE q[i] \in Elems(w)
    <3>1. CASE i < x
      BY <1>0, <2>1, <2>3, <2>4, <3>1 DEF Elems
    <3>2. CASE i > x
      <4>1. i - 1 \in DOMAIN w /\ w[i - 1] = q[i]
        BY <1>0, <2>1, <2>3, <2>4, <3>2
      <4> QED BY <4>1 DEF Elems
    <3> QED BY <3>1, <3>2, <2>1, <2>6, <1>0
  <2>7. Elems(w) = Elems(q) \ {k}
    BY <2>5, <2>6 DEF Elems
  <2>8. ASSUME NEW i \in DOMAIN w, NEW j \in DOMAIN w, w[i] = w[j] PROVE i = j
    <3> DEFINE from(u) == IF x <= u THEN u + 1 ELSE u
    <3>1. from(i) \in DOMAIN q /\ w[i] = q[from(i)]
      BY <1>0, <2>1, <2>3, <2>4
    <3>2. from(j) \in DOMAIN q /\ w[j] = q[from(j)]
      BY <1>0, <2>1, <2>3, <2>4
    <3>3. from(i) = from(j)
      BY Zenon, <2>8, <3>1, <3>2
    <3> QED BY <3>3, <2>1, <2>4, <1>0
  <2> QED BY <2>4, <2>7, <2>8, <1>0 DEF w
<1> QED BY <1>1, <1>2

-----------------------------------------------------------------------------
(* What is true of an envelope wherever it is.                             *)

Ids == Nodes \cup {"beacon"}
Keys == Nodes \X Ids

Framed(e) ==
  e = [type |-> e.type, src |-> e.src, dst |-> e.dst, limit |-> e.limit, hop |-> e.hop,
       body |-> e.body]

Asked(e) ==
  IsQuery(e) => e.src \in Nodes /\ e.body.id \in Ids /\ e.limit \in Nat /\ e.hop \in Nat

(* A route request names every node that has forwarded the copy, one for   *)
(* each hop, so there is room for the next.                                *)
Request(e) ==
  e.type = "RouteRequest" =>
    /\ e.body = [id |-> e.body.id, dst |-> e.body.dst, max |-> e.body.max, path |-> e.body.path]
    /\ e.body.id = e.body.dst /\ e.body.dst \in Nodes
    /\ e.body.path \in Seq(Nodes) /\ Len(e.body.path) = e.hop
    /\ e.body.max \in Nat /\ e.limit <= e.body.max
    /\ Walk(e.src, e.body.path)

(* An answer ends at the destination that was asked for, and is a path of  *)
(* links when it is the destination's own.                                 *)
Response(e) ==
  e.type = "RouteResponse" =>
    /\ e.body.hops \in Seq(Nodes) /\ e.body.hops # <<>>
    /\ Destination(e.body.hops) = e.body.id
    /\ Destination(e.body.hops) = e.src => Walk(e.dst, e.body.hops)

Update(e) ==
  e.type = "RouteUpdate" => e.body.hops \in Seq(Nodes) /\ e.body.hops # <<>>

Sound(e) == Framed(e) /\ Asked(e) /\ Request(e) /\ Response(e) /\ Update(e)

(* The node that transmitted this copy of a request.                       *)
Tip(e) == IF e.body.path = <<>> THEN e.src ELSE Destination(e.body.path)

From(e, n) == e.type = "RouteRequest" => Tip(e) = n

OnLink(e, m) == e.type = "RouteRequest" => <<Tip(e), m>> \in Links

(* Who has forwarded the request remembers it.                             *)
Marked(e) ==
  e.type = "RouteRequest" =>
    \A i \in DOMAIN e.body.path : QueryKey(e) \in SeenQueries(e.body.path[i])

(* A table of routes, each of which ends at the node it is stored for.     *)
Table(t) ==
  /\ DOMAIN t = Nodes
  /\ \A d \in Nodes : t[d] # None =>
       /\ t[d] = [route_id |-> t[d].route_id, hops |-> t[d].hops, fresh |-> t[d].fresh]
       /\ t[d].hops \in Seq(Nodes) /\ t[d].hops # <<>>
       /\ Destination(t[d].hops) = d

Tracked ==
  /\ DOMAIN tracker = Nodes
  /\ \A n \in Nodes : /\ tracker[n] \in Seq(Keys)
                      /\ \A i, j \in DOMAIN tracker[n] : tracker[n][i] = tracker[n][j] => i = j

Queued == \E S : \A n \in Nodes : frames[n] \in Seq(S)

OnAir == \A n \in Nodes : \A e \in Waiting(n) : Sound(e) /\ OnLink(e, n)

Remembered == \A n \in Nodes : \A e \in Waiting(n) : Marked(e)

Tables ==
  /\ DOMAIN route_table = Nodes
  /\ \A n \in Nodes : Table(route_table[n])

Queries ==
  /\ DOMAIN outstanding = Nodes
  /\ \A n \in Nodes : \A q \in outstanding[n] : q.id = q.dst /\ q.dst \in Nodes

MeshSound == Queued /\ OnAir /\ Remembered /\ Tracked /\ Tables /\ Queries

(* No query tracker is full, so none has to forget a query.                *)
TrackersHaveRoom == \A n \in Nodes : Len(tracker[n]) < QueryCap

-----------------------------------------------------------------------------
(* The tracker.                                                            *)

(* Tracking a query forgets none while there is room.                      *)
LEMMA TrackIs ==
  ASSUME Tracked, NEW n \in Nodes, NEW env, QueryKey(env) \in Keys, TrackQuery(n, env),
         Len(tracker[n]) < QueryCap
  PROVE  /\ Tracked'
         /\ \A m \in Nodes : SeenQueries(m) \subseteq SeenQueries(m)'
         /\ MayPropagate(n, env) => QueryKey(env) \in SeenQueries(n)'
<1> DEFINE k == QueryKey(env)
           w == Without(tracker[n], k)
<1>1. CASE ~MayPropagate(n, env)
  BY <1>1 DEF TrackQuery, Tracked, SeenQueries
<1>2. CASE MayPropagate(n, env)
  <2>1. /\ w \in Seq(Keys) /\ Len(w) <= Len(tracker[n]) /\ Elems(w) = Elems(tracker[n]) \ {k}
        /\ \A i, j \in DOMAIN w : w[i] = w[j] => i = j
    BY WithoutIs DEF Tracked
  <2>2. tracker' = [tracker EXCEPT ![n] =
                      IF Len(Append(w, k)) > QueryCap THEN Tail(Append(w, k)) ELSE Append(w, k)]
    BY <1>2 DEF TrackQuery
  <2> HIDE DEF w, k
  <2>3. /\ Append(w, k) \in Seq(Keys) /\ Len(Append(w, k)) = Len(w) + 1
        /\ \A i \in 1 .. Len(w) + 1 : Append(w, k)[i] = IF i <= Len(w) THEN w[i] ELSE k
    BY <2>1 DEF k
  <2>4. ~(Len(Append(w, k)) > QueryCap) /\ Len(w) \in Nat
    BY <2>1, <2>3, MeshAssumption DEF Tracked
  <2>5. tracker' = [tracker EXCEPT ![n] = Append(w, k)]
    BY Zenon, <2>2, <2>4
  <2>6. k \notin Elems(w) /\ DOMAIN w = 1 .. Len(w)
    BY <2>1
  <2>7. \A i, j \in DOMAIN Append(w, k) : Append(w, k)[i] = Append(w, k)[j] => i = j
    BY <2>1, <2>3, <2>4, <2>6 DEF Elems
  <2>8. Elems(Append(w, k)) = Elems(tracker[n]) \cup {k}
    BY <2>1, AppendIs DEF k
  <2>9. tracker'[n] = Append(w, k) /\ \A m \in Nodes : m # n => tracker'[m] = tracker[m]
    BY <2>5 DEF Tracked
  <2>10. Tracked'
    BY <2>3, <2>5, <2>7, <2>9 DEF Tracked
  <2>11. \A m \in Nodes : SeenQueries(m) \subseteq SeenQueries(m)'
    BY ZenonT(30), <2>8, <2>9 DEF SeenQueries, Elems
  <2>12. k \in SeenQueries(n)'
    BY <2>8, <2>9 DEF SeenQueries, Elems
  <2> QED BY <2>10, <2>11, <2>12 DEF k
<1> QED BY <1>1, <1>2

-----------------------------------------------------------------------------
(* The air.                                                                *)

(* What the neighbours of n hear when it transmits, and nobody else.       *)
LEMMA RadiatesIs ==
  ASSUME Queued, NEW n \in Nodes, NEW T, NEW mine \in Seq(T), NEW envs \in Seq(T),
         Elems(mine) \subseteq Waiting(n), Radiates(n, mine, envs)
  PROVE  /\ Queued'
         /\ \A m \in Nodes : \A e \in Waiting(m)' :
              e \in Waiting(m) \/ (e \in Elems(envs) /\ m \in Neighbours(n))
<1>1. PICK S : \A m \in Nodes : frames[m] \in Seq(S)
  BY DEF Queued
<1>2. PICK missed \in SUBSET ((DOMAIN envs) \X Neighbours(n)) :
        frames' = [m \in Nodes |->
          IF m = n THEN mine
          ELSE IF m \in Neighbours(n)
            THEN frames[m] \o Copy(envs, missed, 1, m) \o Copy(envs, missed, 2, m)
          ELSE frames[m]]
  BY Zenon DEF Radiates
<1> DEFINE U == S \cup T
<1>3. ASSUME NEW m \in Nodes, NEW i
      PROVE  Copy(envs, missed, i, m) \in Seq(U) /\ Elems(Copy(envs, missed, i, m)) \subseteq Elems(envs)
  <2>1. CASE i \in DOMAIN envs
    <3>1. envs[i] \in U /\ envs[i] \in Elems(envs)
      BY <2>1 DEF Elems
    <3>2. <<envs[i]>> \in Seq(U) /\ Elems(<<envs[i]>>) = {envs[i]}
      BY <3>1 DEF Elems
    <3>3. <<>> \in Seq(U) /\ Elems(<<>>) = {}
      BY DEF Elems
    <3> QED BY Zenon, <3>1, <3>2, <3>3 DEF Copy
  <2>2. CASE i \notin DOMAIN envs
    BY <2>2 DEF Copy, Elems
  <2> QED BY <2>1, <2>2
<1>4. mine \in Seq(U) /\ \A m \in Nodes : frames[m] \in Seq(U)
  BY <1>1
<1>5. \A m \in Nodes : Waiting(m) = Elems(frames[m]) /\ Waiting(m)' = Elems(frames'[m])
  BY DEF Waiting, Elems
<1> HIDE DEF U
<1>6. ASSUME NEW m \in Nodes
      PROVE  /\ frames'[m] \in Seq(U)
             /\ \A e \in Elems(frames'[m]) :
                  e \in Waiting(m) \/ (e \in Elems(envs) /\ m \in Neighbours(n))
  <2>1. CASE m = n
    BY <1>2, <1>4, <1>5, <2>1
  <2>2. CASE m # n /\ m \notin Neighbours(n)
    BY <1>2, <1>4, <1>5, <2>2
  <2>3. CASE m # n /\ m \in Neighbours(n)
    <3> DEFINE c1 == Copy(envs, missed, 1, m)
               c2 == Copy(envs, missed, 2, m)
    <3>1. frames'[m] = (frames[m] \o c1) \o c2
      BY <1>2, <2>3
    <3>2. c1 \in Seq(U) /\ c2 \in Seq(U) /\ Elems(c1) \subseteq Elems(envs) /\ Elems(c2) \subseteq Elems(envs)
      BY <1>3
    <3> HIDE DEF c1, c2
    <3>3. frames[m] \o c1 \in Seq(U) /\ Elems(frames[m] \o c1) \subseteq Elems(frames[m]) \cup Elems(c1)
      BY Zenon, <1>4, <3>2, CatIs
    <3>4. /\ (frames[m] \o c1) \o c2 \in Seq(U)
          /\ Elems((frames[m] \o c1) \o c2) \subseteq Elems(frames[m] \o c1) \cup Elems(c2)
      BY Zenon, <3>2, <3>3, CatIs
    <3> QED BY <3>1, <3>2, <3>3, <3>4, <1>5, <2>3
  <2> QED BY <2>1, <2>2, <2>3
<1> QED BY <1>5, <1>6 DEF Queued

(* n is left with no frame it had not heard.                               *)
LEMMA RepliesIs ==
  ASSUME Queued, NEW n \in Nodes, frames[n] # <<>>, NEW E, NEW envs \in Seq(E), Replies(n, envs)
  PROVE  /\ Queued'
         /\ \A m \in Nodes : \A e \in Waiting(m)' :
              e \in Waiting(m) \/ (e \in Elems(envs) /\ m \in Neighbours(n))
<1>1. PICK S : \A m \in Nodes : frames[m] \in Seq(S)
  BY DEF Queued
<1>2. Tail(frames[n]) \in Seq(S) /\ Elems(Tail(frames[n])) \subseteq Elems(frames[n])
  BY <1>1, TailIs
<1>3. Tail(frames[n]) \in Seq(S \cup E) /\ envs \in Seq(S \cup E)
  BY <1>2
<1>4. Elems(Tail(frames[n])) \subseteq Waiting(n)
  BY <1>2 DEF Waiting, Elems
<1>5. Radiates(n, Tail(frames[n]), envs)
  BY DEF Replies
<1> QED BY Zenon, <1>3, <1>4, <1>5, RadiatesIs

(* A call leaves n the frames it has.                                      *)
LEMMA OriginatesIs ==
  ASSUME Queued, NEW n \in Nodes, NEW env, Originates(n, env)
  PROVE  /\ Queued'
         /\ \A m \in Nodes : \A e \in Waiting(m)' :
              e \in Waiting(m) \/ (e = env /\ m \in Neighbours(n))
<1>1. PICK S : \A m \in Nodes : frames[m] \in Seq(S)
  BY DEF Queued
<1>2. frames[n] \in Seq(S \cup {env}) /\ <<env>> \in Seq(S \cup {env})
  BY <1>1
<1>3. Elems(frames[n]) \subseteq Waiting(n)
  BY DEF Waiting, Elems
<1>4. Radiates(n, frames[n], <<env>>)
  BY DEF Originates
<1>5. /\ Queued'
      /\ \A m \in Nodes : \A e \in Waiting(m)' :
           e \in Waiting(m) \/ (e \in Elems(<<env>>) /\ m \in Neighbours(n))
  BY Zenon, <1>2, <1>3, <1>4, RadiatesIs
<1>6. Elems(<<env>>) = {env}
  BY DEF Elems
<1> QED BY Zenon, <1>5, <1>6

(* New envelopes join those on the air when they are sound, come from      *)
(* their transmitter and are remembered by those they name.                *)
LEMMA AirKeeps ==
  ASSUME OnAir, Remembered, NEW n \in Nodes, NEW E,
         \A m \in Nodes : \A e \in Waiting(m)' : e \in Waiting(m) \/ (e \in E /\ m \in Neighbours(n)),
         \A m \in Nodes : SeenQueries(m) \subseteq SeenQueries(m)',
         \A e \in E : Sound(e) /\ From(e, n) /\ Marked(e)'
  PROVE  OnAir' /\ Remembered'
<1> SUFFICES ASSUME NEW m \in Nodes, NEW e \in Waiting(m)' PROVE Sound(e) /\ OnLink(e, m) /\ Marked(e)'
  BY Zenon DEF OnAir, Remembered
<1>1. CASE e \in Waiting(m)
  <2>1. Sound(e) /\ OnLink(e, m) /\ Marked(e)
    BY Zenon, <1>1 DEF OnAir, Remembered
  <2>2. Marked(e)'
    <3>1. SUFFICES ASSUME e.type = "RouteRequest", NEW i \in DOMAIN e.body.path
                   PROVE  QueryKey(e) \in SeenQueries(e.body.path[i])'
      BY Zenon DEF Marked
    <3>2. e.body.path[i] \in Nodes
      BY <2>1, <3>1 DEF Sound, Request
    <3>3. QueryKey(e) \in SeenQueries(e.body.path[i])
      BY <2>1, <3>1 DEF Marked
    <3> QED BY Zenon, <3>2, <3>3
  <2> QED BY <2>1, <2>2
<1>2. CASE e \in E /\ m \in Neighbours(n)
  BY <1>2 DEF From, OnLink, Neighbours
<1> QED BY <1>1, <1>2

-----------------------------------------------------------------------------
(* Requests and answers.                                                   *)

(* A path goes on over the link from its last node.                        *)
LEMMA WalkOn ==
  ASSUME NEW s, NEW p \in Seq(Nodes), NEW x \in Nodes, Walk(s, p),
         <<IF p = <<>> THEN s ELSE Destination(p), x>> \in Links
  PROVE  /\ Append(p, x) \in Seq(Nodes) /\ Len(Append(p, x)) = Len(p) + 1
         /\ Append(p, x) # <<>> /\ Destination(Append(p, x)) = x /\ Walk(s, Append(p, x))
<1> DEFINE a == Append(p, x)
<1>1. /\ a \in Seq(Nodes) /\ Len(a) = Len(p) + 1 /\ a[Len(p) + 1] = x
      /\ \A i \in 1 .. Len(p) : a[i] = p[i]
  BY AppendIs
<1>2. Len(p) \in Nat /\ DOMAIN p = 1 .. Len(p)
  OBVIOUS
<1> HIDE DEF a
<1>3. DOMAIN a = 1 .. Len(p) + 1 /\ a # <<>> /\ Destination(a) = x
  BY <1>1, <1>2 DEF Destination
<1>4. ASSUME NEW i \in DOMAIN a PROVE <<IF i = 1 THEN s ELSE a[i - 1], a[i]>> \in Links
  <2>1. CASE i <= Len(p)
    <3>1. <<IF i = 1 THEN s ELSE p[i - 1], p[i]>> \in Links
      BY <1>2, <1>3, <2>1 DEF Walk
    <3>2. a[i] = p[i] /\ (i # 1 => a[i - 1] = p[i - 1])
      BY <1>1, <1>2, <1>3, <2>1
    <3> QED BY <3>1, <3>2
  <2>2. CASE i = Len(p) + 1
    <3>1. CASE p = <<>>
      BY <1>1, <2>2, <3>1
    <3>2. CASE p # <<>>
      <4>1. i # 1 /\ i - 1 = Len(p) /\ Len(p) \in 1 .. Len(p)
        BY <1>2, <2>2, <3>2
      <4> QED BY Zenon, <1>1, <2>2, <3>2, <4>1 DEF Destination
    <3> QED BY <3>1, <3>2
  <2> QED BY <1>2, <1>3, <2>1, <2>2
<1> QED BY <1>1, <1>3, <1>4 DEF a, Walk

(* The envelope a node takes up is as sound as the copy it heard.          *)
LEMMA NextIs ==
  ASSUME Queued, OnAir, Remembered, NEW n \in Nodes, frames[n] # <<>>
  PROVE  Sound(NextFrame(n)) /\ OnLink(NextFrame(n), n) /\ Marked(NextFrame(n))
<1> DEFINE h == Head(frames[n])
           env == NextFrame(n)
           lim == IF h.limit > HopLimit[n] THEN HopLimit[n] ELSE h.limit
<1>1. h \in Waiting(n)
  BY TailIs DEF Queued, Waiting, Elems
<1>2. Sound(h) /\ OnLink(h, n) /\ Marked(h)
  BY Zenon, <1>1 DEF OnAir, Remembered
<1>3. env = [h EXCEPT !.limit = lim]
  BY DEF NextFrame
<1>4. IsQuery(h) => lim \in Nat /\ lim <= h.limit
  BY <1>2, MeshAssumption DEF Sound, Asked
<1> HIDE DEF h, env, lim
<1>5. /\ Framed(env) /\ env.type = h.type /\ env.src = h.src /\ env.dst = h.dst
      /\ env.limit = lim /\ env.hop = h.hop /\ env.body = h.body
  BY <1>2, <1>3 DEF Sound, Framed
<1>6. Asked(env) /\ Request(env) /\ Response(env) /\ Update(env)
  BY <1>2, <1>4, <1>5 DEF Sound, Asked, Request, Response, Update, IsQuery
<1>7. OnLink(env, n) /\ Marked(env)
  BY <1>2, <1>5 DEF OnLink, Tip, Marked, QueryKey
<1> QED BY <1>5, <1>6, <1>7 DEF Sound, env

(* What is flooded on, if anything, is one envelope.                       *)
LEMMA FloodTyped ==
  ASSUME NEW n, NEW env
  PROVE  Propagated(n, env) \in Seq(Elems(Propagated(n, env)))
<1>1. PICK e : e = [env EXCEPT !.hop = @ + 1]
  BY Zenon
<1>2. <<>> \in Seq(Elems(<<>>))
  OBVIOUS
<1>3. Elems(<<e>>) = {e}
  BY DEF Elems
<1>4. <<e>> \in Seq(Elems(<<e>>))
  BY <1>3
<1> QED BY Zenon, <1>1, <1>2, <1>4 DEF Propagated

(* A peer query goes on one hop further.                                   *)
LEMMA PeerQueryOn ==
  ASSUME NEW n, NEW env, Sound(env), env.type = "PeerQuery", NEW e \in Elems(Propagated(n, env))
  PROVE  Sound(e) /\ e.type = "PeerQuery"
<1>1. e = [env EXCEPT !.hop = @ + 1]
  BY DEF Propagated, Elems
<1>2. /\ Framed(e) /\ e.type = "PeerQuery" /\ e.src = env.src /\ e.body = env.body
      /\ e.limit = env.limit /\ e.hop = env.hop + 1
  BY <1>1 DEF Sound, Framed
<1> QED BY <1>2 DEF Sound, Asked, IsQuery, Request, Response, Update

(* The forwarder of a route request appends its own hop: the request has   *)
(* room for it, and has not been there.                                    *)
LEMMA RequestOn ==
  ASSUME NEW n \in Nodes, NEW env, Sound(env), env.type = "RouteRequest", OnLink(env, n),
         Marked(env),
         \A m \in Nodes : SeenQueries(m) \subseteq SeenQueries(m)',
         MayPropagate(n, env) => QueryKey(env) \in SeenQueries(n)',
         NEW e \in Elems(Propagated(n, accumulate_forwarder(n, env)))
  PROVE  Sound(e) /\ From(e, n) /\ Marked(e)'
<1> DEFINE on == accumulate_forwarder(n, env)
           p == env.body.path
           body == [id |-> env.body.id, dst |-> env.body.dst, max |-> env.body.max,
                    path |-> Append(p, n)]
<1>1. /\ env = [type |-> env.type, src |-> env.src, dst |-> env.dst, limit |-> env.limit,
                hop |-> env.hop, body |-> env.body]
      /\ env.body = [id |-> env.body.id, dst |-> env.body.dst, max |-> env.body.max, path |-> p]
      /\ env.body.id = env.body.dst /\ env.body.dst \in Nodes
      /\ p \in Seq(Nodes) /\ Len(p) = env.hop
      /\ env.body.max \in Nat /\ env.limit <= env.body.max
      /\ Walk(env.src, p)
  BY DEF Sound, Request, Framed
<1>2. env.src \in Nodes /\ env.body.id \in Ids /\ env.limit \in Nat /\ env.hop \in Nat
  BY DEF Sound, Asked, IsQuery
<1>3. /\ MayPropagate(n, on) /\ QueryKey(on) \notin SeenQueries(n)
      /\ e = [on EXCEPT !.hop = @ + 1]
  BY DEF Propagated, Elems
<1>4. on = env \/ on = [env EXCEPT !.body.path = Append(@, n)]
  BY DEF accumulate_forwarder
<1>5. on.type = env.type /\ on.src = env.src /\ on.hop = env.hop /\ on.limit = env.limit
      /\ on.body.id = env.body.id
  BY <1>1, <1>4
<1>6. QueryKey(on) = QueryKey(env) /\ MayPropagate(n, env)
  BY <1>3, <1>5 DEF QueryKey, MayPropagate, IsQuery
<1>7. Len(p) < env.body.max
  BY <1>1, <1>2, <1>6 DEF MayPropagate
<1>8. \A i \in DOMAIN p : p[i] # n
  BY <1>3, <1>6 DEF Marked
<1>9. on = [env EXCEPT !.body.path = Append(@, n)]
  BY Zenon, <1>7, <1>8 DEF accumulate_forwarder
<1> HIDE DEF on, p, body
<1>10. on = [type |-> env.type, src |-> env.src, dst |-> env.dst, limit |-> env.limit,
             hop |-> env.hop, body |-> body]
  BY Zenon, <1>1, <1>9 DEF body, p
<1>11. e = [type |-> env.type, src |-> env.src, dst |-> env.dst, limit |-> env.limit,
            hop |-> env.hop + 1, body |-> body]
  BY <1>3, <1>10
<1>12. /\ Append(p, n) \in Seq(Nodes) /\ Len(Append(p, n)) = Len(p) + 1
       /\ Append(p, n) # <<>> /\ Destination(Append(p, n)) = n /\ Walk(env.src, Append(p, n))
  <2>1. <<IF p = <<>> THEN env.src ELSE Destination(p), n>> \in Links
    BY Zenon DEF OnLink, Tip, p
  <2> QED BY <1>1, <2>1, WalkOn
<1>13. e.body.path = Append(p, n) /\ e.body = body /\ e.src = env.src /\ QueryKey(e) = QueryKey(env)
  BY <1>11 DEF body, QueryKey
<1>14. Sound(e)
  <2>1. Framed(e) /\ Asked(e)
    BY <1>1, <1>2, <1>11 DEF Framed, Asked, body
  <2>2. Request(e)
    BY Zenon, <1>1, <1>2, <1>11, <1>12 DEF Request, body
  <2> QED BY <2>1, <2>2, <1>11 DEF Sound, Response, Update
<1>15. From(e, n)
  BY <1>12, <1>13 DEF From, Tip
<1>16. Marked(e)'
  <2>1. SUFFICES ASSUME NEW i \in DOMAIN Append(p, n)
                 PROVE  QueryKey(env) \in SeenQueries(Append(p, n)[i])'
    BY <1>13 DEF Marked
  <2>2. CASE i \in DOMAIN p
    <3>1. Append(p, n)[i] = p[i] /\ p[i] \in Nodes
      BY <1>1, <2>2, AppendIs
    <3>2. QueryKey(env) \in SeenQueries(p[i])
      BY <2>2 DEF Marked, p
    <3> QED BY Zenon, <3>1, <3>2
  <2>3. CASE Append(p, n)[i] = n
    BY Zenon, <2>3, <1>6
  <2>4. i \in DOMAIN p \/ Append(p, n)[i] = n
    BY <1>1, <2>1, AppendIs
  <2> QED BY <2>2, <2>3, <2>4
<1> QED BY <1>14, <1>15, <1>16

(* Two paths in a row end where the second does.                           *)
LEMMA CatEnds ==
  ASSUME NEW p \in Seq(Nodes), NEW q \in Seq(Nodes), q # <<>>
  PROVE  p \o q \in Seq(Nodes) /\ p \o q # <<>> /\ Destination(p \o q) = Destination(q)
<1>1. /\ p \o q \in Seq(Nodes) /\ Len(p \o q) = Len(p) + Len(q)
      /\ Len(p) \in Nat /\ Len(q) \in Nat /\ Len(q) # 0
  OBVIOUS
<1>2. (p \o q)[Len(p) + Len(q)] = q[Len(q)]
  BY <1>1
<1> QED BY <1>1, <1>2 DEF Destination

(* What a node answers ends at the destination.                            *)
LEMMA AnswerIs ==
  ASSUME NEW n \in Nodes, NEW env, Sound(env), env.type = "RouteRequest", OnLink(env, n),
         Table(route_table[n]), NEW hops \in RouteAnswers(n, env.body), NEW e,
         e = Envelope("RouteResponse", n, env.src, HopLimit[n],
               [id |-> env.body.id, route_id |-> <<n, env.src, env.body.id, env.body.path>>,
                hops |-> hops])
  PROVE  Sound(e) /\ From(e, n) /\ Marked(e)'
<1> DEFINE req == env.body
           p == env.body.path
<1>1. /\ req.id = req.dst /\ req.dst \in Nodes /\ p \in Seq(Nodes) /\ Walk(env.src, p)
      /\ <<IF p = <<>> THEN env.src ELSE Destination(p), n>> \in Links
  BY DEF Sound, Request, OnLink, Tip
<1>2. /\ hops \in Seq(Nodes) /\ hops # <<>> /\ Destination(hops) = req.dst
      /\ req.dst = n => Walk(env.src, hops)
  <2>1. CASE req.dst = n
    <3>1. hops = Append(p, n)
      BY <2>1 DEF RouteAnswers
    <3> HIDE DEF req, p
    <3> QED BY <1>1, <2>1, <3>1, WalkOn
  <2>2. CASE req.dst # n
    <3> DEFINE r == route_table[n][req.dst]
    <3>1. r # None /\ hops = p \o r.hops
      BY Zenon, <2>2 DEF RouteAnswers
    <3>2. r.hops \in Seq(Nodes) /\ r.hops # <<>> /\ Destination(r.hops) = req.dst
      BY Zenon, <1>1, <3>1 DEF Table
    <3> HIDE DEF req, p, r
    <3> QED BY <1>1, <2>2, <3>1, <3>2, CatEnds
  <2> QED BY Zenon, <2>1, <2>2
<1> HIDE DEF req, p
<1>3. /\ Framed(e) /\ e.type = "RouteResponse" /\ e.src = n /\ e.dst = env.src
      /\ e.body.hops = hops /\ e.body.id = req.id
  BY DEF Envelope, Framed, req
<1> QED BY Zenon, <1>1, <1>2, <1>3 DEF Sound, Asked, IsQuery, Request, Response, Update, From, Marked

-----------------------------------------------------------------------------
(* The route tables.                                                       *)

(* Eviction, and a rejection, leave routes that end where they should.     *)
LEMMA EvictedIs == ASSUME NEW t, Table(t) PROVE Table(Evicted(t))
BY Zenon DEF Table, Evicted

(* The same of a rejection.                                                *)
LEMMA RejectedIs == ASSUME NEW t, NEW body, Table(t) PROVE Table(Rejected(t, body))
BY Zenon DEF Table, Rejected

(* A route that ends at d is recorded for d.                               *)
LEMMA RecordedIs ==
  ASSUME NEW t, Table(t), NEW id, NEW hops \in Seq(Nodes), hops # <<>>,
         NEW d \in Nodes, Destination(hops) = d
  PROVE  Table(Recorded(t, d, Route(id, hops))) /\ Table(Updated(t, d, Route(id, hops)))
<1> DEFINE v == Evicted(t)
           r == Route(id, hops)
<1>1. Table(v)
  BY EvictedIs
<1>2. r = [route_id |-> r.route_id, hops |-> r.hops, fresh |-> r.fresh] /\ r.hops = hops
  BY DEF Route
<1> HIDE DEF v, r
<1>3. Table([v EXCEPT ![d] = r])
  BY <1>1, <1>2 DEF Table
<1>4. v[d] # None => Table([v EXCEPT ![d].fresh = TRUE])
  <2> SUFFICES ASSUME v[d] # None PROVE Table([v EXCEPT ![d].fresh = TRUE])
    OBVIOUS
  <2> DEFINE x == [v[d] EXCEPT !.fresh = TRUE]
  <2>1. [v EXCEPT ![d].fresh = TRUE] = [v EXCEPT ![d] = x]
    OBVIOUS
  <2>2. /\ x = [route_id |-> x.route_id, hops |-> x.hops, fresh |-> x.fresh]
        /\ x.hops = v[d].hops
    <3>0. v[d] = [route_id |-> v[d].route_id, hops |-> v[d].hops, fresh |-> v[d].fresh]
      BY <1>1 DEF Table
    <3>1. PICK i, h, f : v[d] = [route_id |-> i, hops |-> h, fresh |-> f]
      BY Zenon, <3>0
    <3>2. x = [[route_id |-> i, hops |-> h, fresh |-> f] EXCEPT !.fresh = TRUE]
      BY Zenon, <3>1
    <3> HIDE DEF x
    <3>3. x = [route_id |-> i, hops |-> h, fresh |-> TRUE]
      BY Zenon, <3>2
    <3> QED BY <3>1, <3>3
  <2> HIDE DEF x
  <2>3. Table([v EXCEPT ![d] = x])
    BY <1>1, <2>2 DEF Table
  <2> QED BY <2>1, <2>3
<1>5. Table(Recorded(t, d, r))
  BY Zenon, <1>3, <1>4 DEF Recorded, v
<1>6. Table(Updated(t, d, r))
  BY Zenon, <1>3, <1>5 DEF Updated, v
<1> QED BY <1>5, <1>6 DEF r

-----------------------------------------------------------------------------
(* Every step keeps MeshSound while the trackers have room.                *)

(* A call of the library that transmits one envelope, by n.                *)
LEMMA OriginationKeeps ==
  ASSUME MeshSound, NEW n \in Nodes, NEW env, Originates(n, env), UNCHANGED tracker,
         Sound(env), From(env, n), env.type = "RouteRequest" => env.body.path = <<>>
  PROVE  Queued' /\ OnAir' /\ Remembered' /\ Tracked'
<1>1. /\ Queued'
      /\ \A m \in Nodes : \A e \in Waiting(m)' : e \in Waiting(m) \/ (e = env /\ m \in Neighbours(n))
  BY Zenon, OriginatesIs DEF MeshSound
<1>2. \A m \in Nodes : SeenQueries(m) \subseteq SeenQueries(m)'
  BY DEF SeenQueries
<1>3. Marked(env)'
  BY DEF Marked
<1> DEFINE E == {env}
<1>4. \A m \in Nodes : \A e \in Waiting(m)' : e \in Waiting(m) \/ (e \in E /\ m \in Neighbours(n))
  BY Zenon, <1>1
<1>5. \A e \in E : Sound(e) /\ From(e, n) /\ Marked(e)'
  BY Zenon, <1>3
<1> HIDE DEF E
<1>6. OnAir' /\ Remembered'
  BY Zenon, <1>2, <1>4, <1>5, AirKeeps DEF MeshSound
<1>7. Tracked'
  BY DEF Tracked, MeshSound
<1> QED BY <1>1, <1>6, <1>7

(* A step that nobody hears and no tracker sees.                           *)
LEMMA SilenceKeeps ==
  ASSUME MeshSound, UNCHANGED <<frames, tracker>>
  PROVE  Queued' /\ OnAir' /\ Remembered' /\ Tracked'
<1>1. \A m \in Nodes : Waiting(m)' = Waiting(m) /\ SeenQueries(m)' = SeenQueries(m)
  BY DEF Waiting, SeenQueries
<1>2. Queued' /\ Tracked'
  BY DEF MeshSound, Queued, Tracked
<1>3. OnAir'
  BY Zenon, <1>1 DEF MeshSound, OnAir
<1>4. ASSUME NEW m \in Nodes, NEW e \in Waiting(m)' PROVE Marked(e)'
  <2>1. Marked(e) /\ Sound(e)
    BY Zenon, <1>1, <1>4 DEF MeshSound, OnAir, Remembered
  <2>2. SUFFICES ASSUME e.type = "RouteRequest", NEW i \in DOMAIN e.body.path
                 PROVE  QueryKey(e) \in SeenQueries(e.body.path[i])'
    BY Zenon DEF Marked
  <2>3. e.body.path[i] \in Nodes /\ QueryKey(e) \in SeenQueries(e.body.path[i])
    BY <2>1, <2>2 DEF Marked, Sound, Request
  <2> QED BY Zenon, <1>1, <2>3
<1> QED BY Zenon, <1>2, <1>3, <1>4 DEF Remembered

(* The calls of the library, and a beacon.                                 *)
LEMMA CallKeeps ==
  ASSUME MeshSound, NEW n \in Nodes, NEW d \in Nodes, NEW s, NEW ttl,
         \/ Beacon(n) \/ DiscoverRoute(n, d) \/ SendRouteUpdate(n, d) \/ SendRouteReject(n, d)
         \/ SendViaRoute(n, d, s) \/ SendBroadcast(n, ttl)
  PROVE  MeshSound'
<1> DEFINE Air == Queued' /\ OnAir' /\ Remembered' /\ Tracked'
<1>1. HopLimit[n] \in Nat
  BY MeshAssumption
<1>2. CASE Beacon(n)
  <2>1. PICK e : e = Envelope("PeerQuery", n, None, HopLimit[n], [id |-> "beacon"])
    BY Zenon
  <2>2. Sound(e) /\ From(e, n) /\ e.type # "RouteRequest"
    BY <1>1, <2>1 DEF Envelope, Sound, Framed, Asked, IsQuery, Request, Response, Update, From, Ids
  <2>3. Originates(n, e) /\ UNCHANGED <<tracker, route_table, outstanding>>
    BY Zenon, <1>2, <2>1 DEF Beacon
  <2>4. Air
    BY <2>2, <2>3, OriginationKeeps
  <2> QED BY <2>3, <2>4 DEF MeshSound, Tables, Queries
<1>3. CASE DiscoverRoute(n, d)
  <2>1. PICK e : e = Envelope("RouteRequest", n, d, HopLimit[n],
                       [id |-> d, dst |-> d, max |-> HopLimit[n], path |-> <<>>])
    BY Zenon
  <2>2. Sound(e) /\ From(e, n) /\ e.body.path = <<>>
    <3>1. Framed(e) /\ Asked(e) /\ Response(e) /\ Update(e)
      BY <1>1, <2>1 DEF Envelope, Framed, Asked, Response, Update, Ids
    <3>2. Request(e)
      <4>1. e.hop = 0 /\ e.limit = HopLimit[n] /\ e.src = n
            /\ e.body = [id |-> d, dst |-> d, max |-> HopLimit[n], path |-> <<>>]
        BY <2>1 DEF Envelope
      <4>2. e.body.id = d /\ e.body.dst = d /\ e.body.max = HopLimit[n] /\ e.body.path = <<>>
        BY <4>1
      <4>3. Walk(n, <<>>) /\ <<>> \in Seq(Nodes) /\ Len(<<>>) = 0
        BY DEF Walk
      <4> QED BY <1>1, <4>1, <4>2, <4>3 DEF Request
    <3> QED BY Zenon, <2>1, <3>1, <3>2 DEF Sound, From, Tip, Envelope
  <2>3. Originates(n, e) /\ UNCHANGED <<tracker, route_table>>
    BY <1>3, <2>1 DEF DiscoverRoute
  <2>4. Air
    BY Zenon, <2>2, <2>3, OriginationKeeps
  <2>6. outstanding' = [outstanding EXCEPT ![n] = @ \union {[id |-> d, dst |-> d]}]
    BY Zenon, <1>3 DEF DiscoverRoute
  <2>7. Queries
    BY Zenon DEF MeshSound
  <2>5. Queries'
    BY <2>6, <2>7 DEF Queries
  <2> QED BY <2>3, <2>4, <2>5 DEF MeshSound, Tables
<1>4. CASE SendRouteUpdate(n, d)
  <2>1. PICK hops \in {h \in {<<d>>} \union {<<m, d>> : m \in Nodes \ {n, d}} : Walk(n, h)} :
          Originates(n, Envelope("RouteUpdate", n, d, HopLimit[n],
                      [route_id |-> route_table[n][d].route_id, hops |-> hops]))
    BY Zenon, <1>4 DEF SendRouteUpdate
  <2>2. PICK e : e = Envelope("RouteUpdate", n, d, HopLimit[n],
                       [route_id |-> route_table[n][d].route_id, hops |-> hops])
    BY Zenon
  <2>3. hops \in Seq(Nodes) /\ hops # <<>>
    <3>1. CASE hops = <<d>>
      BY <3>1
    <3>2. CASE \E m \in Nodes : hops = <<m, d>>
      BY <3>2
    <3> QED BY Zenon, <3>1, <3>2
  <2>4. Sound(e) /\ From(e, n) /\ e.type # "RouteRequest"
    BY Zenon, <2>2, <2>3 DEF Envelope, Sound, Framed, Asked, IsQuery, Request, Response, Update, From
  <2>5. Originates(n, e) /\ UNCHANGED <<tracker, route_table, outstanding>>
    BY Zenon, <1>4, <2>1, <2>2 DEF SendRouteUpdate
  <2>6. Air
    BY Zenon, <2>4, <2>5, OriginationKeeps
  <2> QED BY <2>5, <2>6 DEF MeshSound, Tables, Queries
<1>5. CASE SendRouteReject(n, d)
  <2>1. PICK o \in Nodes : Originates(n, Envelope("RouteReject", n, d, HopLimit[n],
                             [route_id |-> route_table[o][d].route_id, by |-> n]))
    BY Zenon, <1>5 DEF SendRouteReject
  <2>2. PICK e : e = Envelope("RouteReject", n, d, HopLimit[n],
                       [route_id |-> route_table[o][d].route_id, by |-> n])
    BY Zenon
  <2>3. Sound(e) /\ From(e, n) /\ e.type # "RouteRequest"
    BY Zenon, <2>2 DEF Envelope, Sound, Framed, Asked, IsQuery, Request, Response, Update, From
  <2>4. Originates(n, e) /\ UNCHANGED <<tracker, route_table, outstanding>>
    BY Zenon, <1>5, <2>1, <2>2 DEF SendRouteReject
  <2>5. Air
    BY Zenon, <2>3, <2>4, OriginationKeeps
  <2> QED BY Zenon, <2>4, <2>5 DEF MeshSound, Tables, Queries
<1>6. CASE SendViaRoute(n, d, s)
  <2>1. UNCHANGED <<tracker, outstanding>> /\ route_table' = [route_table EXCEPT ![n] = Evicted(@)]
    BY <1>6 DEF SendViaRoute
  <2>2. Air
    <3>1. CASE \E r \in BestRoutes(n, d) : Originates(n, Envelope("Chunk", n, d, Len(r) - 1, [session |-> s]))
      <4>1. PICK r \in BestRoutes(n, d) : Originates(n, Envelope("Chunk", n, d, Len(r) - 1, [session |-> s]))
        BY <3>1
      <4>2. PICK e : e = Envelope("Chunk", n, d, Len(r) - 1, [session |-> s])
        BY Zenon
      <4>3. Sound(e) /\ From(e, n) /\ e.type # "RouteRequest"
        BY <4>2 DEF Envelope, Sound, Framed, Asked, IsQuery, Request, Response, Update, From
      <4>4. Originates(n, e) /\ UNCHANGED tracker
        BY <4>1, <4>2, <2>1
      <4> QED BY Zenon, <4>3, <4>4, OriginationKeeps
    <3>2. CASE UNCHANGED frames
      BY <2>1, <3>2, SilenceKeeps
    <3> QED BY Zenon, <1>6, <3>1, <3>2 DEF SendViaRoute
  <2>3. Tables'
    BY Zenon, <2>1, EvictedIs DEF MeshSound, Tables
  <2> QED BY <2>1, <2>2, <2>3 DEF MeshSound, Queries
<1>7. CASE SendBroadcast(n, ttl)
  <2>1. PICK e : e = Envelope("Broadcast", n, None, HopLimit[n], [ttl |-> ttl])
    BY Zenon
  <2>2. Sound(e) /\ From(e, n) /\ e.type # "RouteRequest"
    BY <2>1 DEF Envelope, Sound, Framed, Asked, IsQuery, Request, Response, Update, From
  <2>3. Originates(n, e) /\ UNCHANGED <<tracker, route_table, outstanding>>
    BY Zenon, <1>7, <2>1 DEF SendBroadcast
  <2>4. Air
    BY Zenon, <2>2, <2>3, OriginationKeeps
  <2> QED BY Zenon, <2>3, <2>4 DEF MeshSound, Tables, Queries
<1> QED BY <1>2, <1>3, <1>4, <1>5, <1>6, <1>7

(* A frame taken up: what is sent on is sound, from n, and remembered.     *)
LEMMA TakenKeeps ==
  ASSUME MeshSound, NEW n \in Nodes, frames[n] # <<>>, NEW E, NEW envs \in Seq(E), Replies(n, envs),
         \A m \in Nodes : SeenQueries(m) \subseteq SeenQueries(m)',
         \A e \in Elems(envs) : Sound(e) /\ From(e, n) /\ Marked(e)'
  PROVE  Queued' /\ OnAir' /\ Remembered'
<1>1. /\ Queued'
      /\ \A m \in Nodes : \A e \in Waiting(m)' :
           e \in Waiting(m) \/ (e \in Elems(envs) /\ m \in Neighbours(n))
  BY Zenon, RepliesIs DEF MeshSound
<1> DEFINE F == Elems(envs)
<1>2. \A m \in Nodes : \A e \in Waiting(m)' : e \in Waiting(m) \/ (e \in F /\ m \in Neighbours(n))
  BY Zenon, <1>1
<1>3. \A e \in F : Sound(e) /\ From(e, n) /\ Marked(e)'
  OBVIOUS
<1> HIDE DEF F
<1>4. OnAir' /\ Remembered'
  BY Zenon, <1>2, <1>3, AirKeeps DEF MeshSound
<1> QED BY <1>1, <1>4

(* An envelope that is not a query goes no further.                        *)
LEMMA NotFlooded == ASSUME NEW n, NEW env, ~IsQuery(env) PROVE Propagated(n, env) = <<>>
BY DEF Propagated, MayPropagate

(* Nothing to send on.                                                     *)
LEMMA SilentKeeps ==
  ASSUME MeshSound, NEW n \in Nodes, frames[n] # <<>>, Replies(n, <<>>), UNCHANGED tracker
  PROVE  Queued' /\ OnAir' /\ Remembered' /\ Tracked'
<1>1. <<>> \in Seq({}) /\ \A e \in Elems(<<>>) : Sound(e) /\ From(e, n) /\ Marked(e)'
  BY DEF Elems
<1>2. \A m \in Nodes : SeenQueries(m) \subseteq SeenQueries(m)'
  BY DEF SeenQueries
<1>3. Tracked'
  BY DEF MeshSound, Tracked
<1> QED BY Zenon, <1>1, <1>2, <1>3, TakenKeeps

(* A peer query is answered and flooded on.                                *)
LEMMA PeerQueryKeeps ==
  ASSUME MeshSound, TrackersHaveRoom, NEW n \in Nodes, frames[n] # <<>>, HearPeerQuery(n)
  PROVE  MeshSound'
<1>1. PICK env : env = NextFrame(n)
  OBVIOUS
<1>2. Sound(env)
  BY <1>1, NextIs DEF MeshSound
<1>3. /\ env.type = "PeerQuery" /\ TrackQuery(n, env) /\ UNCHANGED <<route_table, outstanding>>
  BY <1>1 DEF HearPeerQuery
<1>4. PICK p : Replies(n, <<Envelope("PeerResponse", n, None, HopLimit[n],
                               [id |-> env.body.id, peer |-> p])>> \o Propagated(n, env))
  BY Zenon, <1>1 DEF HearPeerQuery
<1>5. PICK r : r = Envelope("PeerResponse", n, None, HopLimit[n], [id |-> env.body.id, peer |-> p])
  OBVIOUS
<1>6. PICK on : on = Propagated(n, env)
  OBVIOUS
<1>7. QueryKey(env) \in Keys
  BY <1>2, <1>3 DEF Sound, Asked, IsQuery, QueryKey, Keys
<1>8. Tracked' /\ \A m \in Nodes : SeenQueries(m) \subseteq SeenQueries(m)'
  BY Zenon, <1>3, <1>7, TrackIs DEF MeshSound, TrackersHaveRoom
<1>9. Sound(r) /\ From(r, n) /\ Marked(r)'
  BY <1>5 DEF Envelope, Sound, Framed, Asked, IsQuery, Request, Response, Update, From, Marked
<1>10. ASSUME NEW e \in Elems(on) PROVE Sound(e) /\ From(e, n) /\ Marked(e)'
  <2>1. Sound(e) /\ e.type = "PeerQuery"
    BY Zenon, <1>2, <1>3, <1>6, <1>10, PeerQueryOn
  <2> QED BY <2>1 DEF From, Marked
<1> DEFINE E == Elems(on) \cup {r}
<1>11. on \in Seq(E) /\ <<r>> \in Seq(E) /\ Elems(<<r>>) = {r}
  <2>1. on \in Seq(Elems(on))
    BY Zenon, <1>6, FloodTyped
  <2>2. Elems(<<r>>) = {r}
    BY DEF Elems
  <2> QED BY <2>1, <2>2
<1> HIDE DEF E
<1>12. <<r>> \o on \in Seq(E) /\ Elems(<<r>> \o on) \subseteq {r} \cup Elems(on)
  BY Zenon, <1>11, CatIs
<1>13. \A e \in Elems(<<r>> \o on) : Sound(e) /\ From(e, n) /\ Marked(e)'
  BY Zenon, <1>9, <1>10, <1>12
<1>14. Replies(n, <<r>> \o on)
  BY Zenon, <1>4, <1>5, <1>6
<1>15. Queued' /\ OnAir' /\ Remembered'
  BY Zenon, <1>8, <1>12, <1>13, <1>14, TakenKeeps
<1> QED BY <1>3, <1>8, <1>15 DEF MeshSound, Tables, Queries

(* A route request is answered, or goes on with the forwarder's hop.       *)
LEMMA RequestKeeps ==
  ASSUME MeshSound, TrackersHaveRoom, NEW n \in Nodes, frames[n] # <<>>, HearRouteRequest(n)
  PROVE  MeshSound'
<1>1. PICK env : env = NextFrame(n)
  OBVIOUS
<1>2. Sound(env) /\ OnLink(env, n) /\ Marked(env)
  BY <1>1, NextIs DEF MeshSound
<1>3. env.type = "RouteRequest" /\ UNCHANGED <<route_table, outstanding>>
  BY Zenon, <1>1 DEF HearRouteRequest
<1>4. CASE \E hops \in RouteAnswers(n, env.body) :
             /\ Replies(n, <<Envelope("RouteResponse", n, env.src, HopLimit[n],
                  [id |-> env.body.id, route_id |-> <<n, env.src, env.body.id, env.body.path>>,
                   hops |-> hops])>>)
             /\ UNCHANGED tracker
  <2>1. PICK hops \in RouteAnswers(n, env.body) :
          /\ Replies(n, <<Envelope("RouteResponse", n, env.src, HopLimit[n],
                  [id |-> env.body.id, route_id |-> <<n, env.src, env.body.id, env.body.path>>,
                   hops |-> hops])>>)
          /\ UNCHANGED tracker
    BY Zenon, <1>4
  <2>2. PICK e : e = Envelope("RouteResponse", n, env.src, HopLimit[n],
                  [id |-> env.body.id, route_id |-> <<n, env.src, env.body.id, env.body.path>>,
                   hops |-> hops])
    BY Zenon
  <2>3. Table(route_table[n])
    BY DEF MeshSound, Tables
  <2>4. Sound(e) /\ From(e, n) /\ Marked(e)'
    BY Zenon, <1>2, <1>3, <2>2, <2>3, AnswerIs
  <2>5. \A m \in Nodes : SeenQueries(m) \subseteq SeenQueries(m)'
    BY <2>1 DEF SeenQueries
  <2>6. <<e>> \in Seq({e}) /\ Elems(<<e>>) = {e}
    BY DEF Elems
  <2>7. \A x \in Elems(<<e>>) : Sound(x) /\ From(x, n) /\ Marked(x)'
    BY Zenon, <2>4, <2>6
  <2>8. Queued' /\ OnAir' /\ Remembered'
    BY Zenon, <2>1, <2>2, <2>5, <2>6, <2>7, TakenKeeps
  <2>9. Tracked'
    BY Zenon, <2>1 DEF MeshSound, Tracked
  <2> QED BY <1>3, <2>8, <2>9 DEF MeshSound, Tables, Queries
<1>5. CASE /\ Replies(n, Propagated(n, accumulate_forwarder(n, env)))
           /\ TrackQuery(n, accumulate_forwarder(n, env))
  <2>1. PICK on : on = accumulate_forwarder(n, env)
    OBVIOUS
  <2>2. PICK out : out = Propagated(n, on)
    OBVIOUS
  <2>3. on.type = env.type /\ on.src = env.src /\ on.hop = env.hop /\ on.limit = env.limit
        /\ on.body.id = env.body.id
    <3>1. on = env \/ on = [env EXCEPT !.body.path = Append(@, n)]
      BY <2>1 DEF accumulate_forwarder
    <3>2. /\ env = [type |-> env.type, src |-> env.src, dst |-> env.dst, limit |-> env.limit,
                    hop |-> env.hop, body |-> env.body]
          /\ env.body = [id |-> env.body.id, dst |-> env.body.dst, max |-> env.body.max,
                         path |-> env.body.path]
      BY Zenon, <1>2, <1>3 DEF Sound, Framed, Request
    <3> QED BY <3>1, <3>2
  <2>4. QueryKey(on) = QueryKey(env) /\ QueryKey(env) \in Keys
        /\ (MayPropagate(n, env) => MayPropagate(n, on))
    BY <1>2, <1>3, <2>3 DEF Sound, Asked, IsQuery, QueryKey, Keys, MayPropagate
  <2>5. TrackQuery(n, on) /\ Len(tracker[n]) < QueryCap /\ Tracked
    BY <1>5, <2>1 DEF TrackersHaveRoom, MeshSound
  <2>6. /\ Tracked' /\ \A m \in Nodes : SeenQueries(m) \subseteq SeenQueries(m)'
        /\ MayPropagate(n, on) => QueryKey(on) \in SeenQueries(n)'
    BY Zenon, <2>4, <2>5, TrackIs
  <2>7. \A e \in Elems(out) : Sound(e) /\ From(e, n) /\ Marked(e)'
    BY Zenon, <1>2, <1>3, <2>1, <2>2, <2>4, <2>6, RequestOn
  <2>8. out \in Seq(Elems(out))
    BY Zenon, <2>2, FloodTyped
  <2>9. Replies(n, out)
    BY Zenon, <1>5, <2>1, <2>2
  <2>10. Queued' /\ OnAir' /\ Remembered'
    BY Zenon, <2>6, <2>7, <2>8, <2>9, TakenKeeps
  <2> QED BY Zenon, <1>3, <2>6, <2>10 DEF MeshSound, Tables, Queries
<1> QED BY Zenon, <1>1, <1>4, <1>5 DEF HearRouteRequest

(* Answers, updates and rejections: the table changes, nothing is sent on. *)
LEMMA RoutesKeep ==
  ASSUME MeshSound, NEW n \in Nodes, frames[n] # <<>>,
         HearRouteResponse(n) \/ HearRouteUpdate(n) \/ HearRouteReject(n)
  PROVE  MeshSound'
<1>1. PICK env : env = NextFrame(n)
  OBVIOUS
<1>2. Sound(env)
  BY Zenon, <1>1, NextIs DEF MeshSound
<1>3. /\ env.type \in {"RouteResponse", "RouteUpdate", "RouteReject"} /\ UNCHANGED tracker
      /\ Replies(n, <<>>) \/ Replies(n, Propagated(n, env))
  BY <1>1 DEF HearRouteResponse, HearRouteUpdate, HearRouteReject
<1>4. Propagated(n, env) = <<>>
  BY <1>3, NotFlooded DEF IsQuery
<1>5. Queued' /\ OnAir' /\ Remembered' /\ Tracked'
  BY <1>3, <1>4, SilentKeeps
<1>6. DOMAIN route_table = Nodes /\ \A m \in Nodes : Table(route_table[m])
  BY DEF MeshSound, Tables
<1>7. CASE HearRouteResponse(n)
  <2>1. CASE UNCHANGED <<route_table, outstanding>>
    BY <1>5, <2>1 DEF MeshSound, Tables, Queries
  <2>2. CASE ~UNCHANGED <<route_table, outstanding>>
    <3>1. /\ env.type = "RouteResponse"
          /\ \E q \in {x \in outstanding[n] : x.id = env.body.id} :
               /\ route_table' = [route_table EXCEPT ![n] = Applied(n, env, q)]
               /\ outstanding' = [outstanding EXCEPT ![n] = @ \ {q}]
      BY <1>1, <1>7, <2>2 DEF HearRouteResponse
    <3>2. PICK q \in outstanding[n] :
            /\ q.id = env.body.id
            /\ route_table' = [route_table EXCEPT ![n] = Applied(n, env, q)]
            /\ outstanding' = [outstanding EXCEPT ![n] = @ \ {q}]
      BY Zenon, <3>1
    <3>3. q.id = q.dst /\ q.dst \in Nodes
      BY Zenon DEF MeshSound, Queries
    <3>4. /\ env.body.hops \in Seq(Nodes) /\ env.body.hops # <<>>
          /\ Destination(env.body.hops) = q.dst
      BY Zenon, <1>2, <3>1, <3>2, <3>3 DEF Sound, Response
    <3>5. Table(Applied(n, env, q))
      BY Zenon, <1>6, <3>3, <3>4, RecordedIs DEF Applied
    <3>6. Tables'
      BY <1>6, <3>2, <3>5 DEF Tables
    <3>7. Queries'
      BY Zenon, <3>2 DEF MeshSound, Queries
    <3> QED BY Zenon, <1>5, <3>6, <3>7 DEF MeshSound
  <2> QED BY <2>1, <2>2
<1>8. CASE HearRouteUpdate(n)
  <2>1. /\ env.type = "RouteUpdate" /\ UNCHANGED outstanding
        /\ route_table' = [route_table EXCEPT ![n] =
             Updated(@, Destination(env.body.hops), Route(env.body.route_id, env.body.hops))]
    BY Zenon, <1>1, <1>8 DEF HearRouteUpdate, Destination
  <2>2. env.body.hops \in Seq(Nodes) /\ env.body.hops # <<>>
    BY Zenon, <1>2, <2>1 DEF Sound, Update
  <2>3. Destination(env.body.hops) \in Nodes
    BY <2>2 DEF Destination
  <2>4. Table(Updated(route_table[n], Destination(env.body.hops),
                      Route(env.body.route_id, env.body.hops)))
    BY Zenon, <1>6, <2>2, <2>3, RecordedIs
  <2>5. Tables'
    BY Zenon, <1>6, <2>1, <2>4 DEF Tables
  <2> QED BY Zenon, <1>5, <2>1, <2>5 DEF MeshSound, Queries
<1>9. CASE HearRouteReject(n)
  <2>1. UNCHANGED outstanding /\ route_table' = [route_table EXCEPT ![n] = Rejected(@, env.body)]
    BY Zenon, <1>1, <1>9 DEF HearRouteReject
  <2>2. Tables'
    BY <1>6, <2>1, RejectedIs DEF Tables
  <2> QED BY Zenon, <1>5, <2>1, <2>2 DEF MeshSound, Queries
<1> QED BY <1>7, <1>8, <1>9

(* Peer responses, relayed data and broadcasts.                            *)
LEMMA DataKeeps ==
  ASSUME MeshSound, NEW n \in Nodes, frames[n] # <<>>,
         HearPeerResponse(n) \/ HearChunk(n) \/ HearBroadcast(n)
  PROVE  MeshSound'
<1>1. PICK env : env = NextFrame(n)
  OBVIOUS
<1>2. Sound(env)
  BY <1>1, NextIs DEF MeshSound
<1>3. env.type \in {"PeerResponse", "Chunk", "Broadcast"} /\ UNCHANGED <<tracker, route_table, outstanding>>
  BY <1>1 DEF HearPeerResponse, HearChunk, HearBroadcast
<1>4. PICK out : Replies(n, out) /\ (out = <<>> \/ out = <<[env EXCEPT !.hop = @ + 1]>>
                                     \/ out = <<[env EXCEPT !.hop = @ + 1, !.body.ttl = @ - 1]>>)
  BY Zenon, <1>1 DEF HearPeerResponse, HearChunk, HearBroadcast, Rebroadcast
<1>5. Queued' /\ OnAir' /\ Remembered' /\ Tracked'
  <2>1. CASE out = <<>>
    BY <1>3, <1>4, <2>1, SilentKeeps
  <2>2. CASE out # <<>>
    <3>1. PICK e : out = <<e>> /\ (e = [env EXCEPT !.hop = @ + 1]
                                   \/ e = [env EXCEPT !.hop = @ + 1, !.body.ttl = @ - 1])
      BY Zenon, <1>4, <2>2
    <3>2. Framed(e) /\ e.type = env.type
      BY Zenon, <1>2, <3>1 DEF Sound, Framed
    <3>3. Sound(e) /\ From(e, n) /\ Marked(e)'
      BY <1>3, <3>2 DEF Sound, Asked, IsQuery, Request, Response, Update, From, Marked
    <3>4. out \in Seq({e}) /\ Elems(out) = {e}
      BY <3>1 DEF Elems
    <3>5. \A m \in Nodes : SeenQueries(m) \subseteq SeenQueries(m)'
      BY <1>3 DEF SeenQueries
    <3>6. \A x \in Elems(out) : Sound(x) /\ From(x, n) /\ Marked(x)'
      BY Zenon, <3>3, <3>4
    <3>7. Queued' /\ OnAir' /\ Remembered'
      BY Zenon, <1>4, <3>4, <3>5, <3>6, TakenKeeps
    <3> QED BY <1>3, <3>7 DEF MeshSound, Tracked
  <2> QED BY <2>1, <2>2
<1> QED BY <1>3, <1>5 DEF MeshSound, Tables, Queries

(* A time to live passes.  A tracker forgets only while the air is quiet.  *)
LEMMA AgesKeeps ==
  ASSUME MeshSound, NEW n \in Nodes, Ages(n)
  PROVE  MeshSound'
<1>1. UNCHANGED frames
  BY DEF Ages
<1>2. CASE UNCHANGED tracker
  <2>1. Queued' /\ OnAir' /\ Remembered' /\ Tracked'
    BY <1>1, <1>2, SilenceKeeps
  <2>2. Queries'
    BY DEF Ages, MeshSound, Queries
  <2>3. Tables'
    <3>1. CASE UNCHANGED route_table
      BY <3>1 DEF MeshSound, Tables
    <3>2. CASE \E d \in Nodes : /\ route_table[n][d] # None
                                /\ route_table' = [route_table EXCEPT ![n][d].fresh = FALSE]
      <4>1. PICK d \in Nodes : /\ route_table[n][d] # None
                               /\ route_table' = [route_table EXCEPT ![n][d].fresh = FALSE]
        BY Zenon, <3>2
      <4>2. PICK t : t = route_table[n]
        OBVIOUS
      <4>3. PICK i, h, f : t[d] = [route_id |-> i, hops |-> h, fresh |-> f]
        <5>1. t[d] = [route_id |-> t[d].route_id, hops |-> t[d].hops, fresh |-> t[d].fresh]
          BY <4>1, <4>2 DEF MeshSound, Tables, Table
        <5> QED BY Zenon, <5>1
      <4>4. DOMAIN route_table = Nodes /\ Table(t)
        BY <4>2 DEF MeshSound, Tables
      <4>5. PICK r : r = [[route_id |-> i, hops |-> h, fresh |-> f] EXCEPT !.fresh = FALSE]
        BY Zenon
      <4>6. route_table' = [route_table EXCEPT ![n] = [t EXCEPT ![d] = [t[d] EXCEPT !.fresh = FALSE]]]
        BY <4>1, <4>2
      <4>7. [t[d] EXCEPT !.fresh = FALSE] = r
        BY Zenon, <4>3, <4>5
      <4>8. route_table' = [route_table EXCEPT ![n] = [t EXCEPT ![d] = r]]
        BY Zenon, <4>6, <4>7
      <4>9. r = [route_id |-> r.route_id, hops |-> r.hops, fresh |-> r.fresh] /\ r.hops = t[d].hops
        <5>1. r = [route_id |-> i, hops |-> h, fresh |-> FALSE]
          BY Zenon, <4>5
        <5> QED BY <4>3, <5>1
      <4>10. Table([t EXCEPT ![d] = r])
        BY <4>1, <4>2, <4>4, <4>9 DEF Table
      <4> QED BY <4>4, <4>8, <4>10 DEF MeshSound, Tables
    <3> QED BY <3>1, <3>2 DEF Ages
  <2> QED BY <2>1, <2>2, <2>3 DEF MeshSound
<1>3. CASE ~UNCHANGED tracker
  <2>1. PICK k : /\ QuietAir /\ tracker' = [tracker EXCEPT ![n] = Without(@, k)]
                 /\ UNCHANGED <<route_table, outstanding>>
    BY <1>3 DEF Ages
  <2>2. \A m \in Nodes : Waiting(m)' = {}
    BY <1>1, <2>1 DEF QuietAir, Waiting
  <2>3. Queued' /\ OnAir' /\ Remembered'
    BY <1>1, <2>2 DEF MeshSound, Queued, OnAir, Remembered
  <2>4. /\ Without(tracker[n], k) \in Seq(Keys)
        /\ \A i, j \in DOMAIN Without(tracker[n], k) :
             Without(tracker[n], k)[i] = Without(tracker[n], k)[j] => i = j
    BY WithoutIs DEF MeshSound, Tracked
  <2>5. Tracked'
    BY <2>1, <2>4 DEF MeshSound, Tracked
  <2> QED BY <2>1, <2>3, <2>5 DEF MeshSound, Tables, Queries
<1> QED BY <1>2, <1>3

(* Every step.                                                             *)
LEMMA SoundStep ==
  ASSUME MeshSound, TrackersHaveRoom, [MeshNext]_meshVars
  PROVE  MeshSound'
<1>1. CASE UNCHANGED meshVars
  BY Zenon, <1>1, SilenceKeeps DEF meshVars, MeshSound, Tables, Queries
<1>2. ASSUME NEW n \in Nodes, NEW d \in Nodes, NEW s, NEW ttl,
             \/ Beacon(n) \/ DiscoverRoute(n, d) \/ SendRouteUpdate(n, d) \/ SendRouteReject(n, d)
             \/ SendViaRoute(n, d, s) \/ SendBroadcast(n, ttl)
      PROVE  MeshSound'
  BY <1>2, CallKeeps
<1>3. ASSUME NEW n \in Nodes, Step(n) PROVE MeshSound'
  BY <1>3, PeerQueryKeeps, RequestKeeps, RoutesKeep, DataKeeps DEF Step
<1>4. ASSUME NEW n \in Nodes, Ages(n) PROVE MeshSound'
  BY <1>4, AgesKeeps
<1> QED BY Zenon, <1>1, <1>2, <1>3, <1>4 DEF MeshNext

(* A mesh starts with empty tables and a quiet air.                        *)
LEMMA SoundInit == MeshInit => MeshSound
BY DEF MeshInit, MeshSound, Queued, OnAir, Remembered, Tracked, Tables, Queries, Waiting, Table

(* The route with which a destination answers a query is a path of links   *)
(* from the originator, and a route stored for a destination ends there,   *)
(* as long as no query tracker is full: a node that had to forget a query  *)
(* would forward it again without a second hop on the path.                *)
THEOREM RoutesAreSound == MeshSpec /\ []TrackersHaveRoom => []RoutesLeadThere
<1>1. MeshSound => RoutesLeadThere
  BY Zenon DEF MeshSound, OnAir, Tables, Table, Sound, Response, RoutesLeadThere
<1> QED BY <1>1, SoundInit, SoundStep, PTL DEF MeshSpec

-----------------------------------------------------------------------------
(* A tracker with room for every query of the model never has to forget.   *)

FST == INSTANCE FiniteSetTheorems

(* The tracker can hold a key for every node that asks and every query.    *)
TrackerIsAmple == IsFiniteSet(Keys) /\ Cardinality(Keys) < QueryCap

(* A sequence of different keys is no longer than there are keys.          *)
LEMMA DistinctFit ==
  ASSUME NEW K, IsFiniteSet(K), NEW q \in Seq(K),
         \A i, j \in DOMAIN q : q[i] = q[j] => i = j
  PROVE  Len(q) <= Cardinality(K)
<1>1. FST!IsFiniteSet(K) /\ FST!Cardinality(K) = Cardinality(K)
  <2>1. FST!IsFiniteSet(K)
    BY Zenon DEF FST!IsFiniteSet, IsFiniteSet
  <2>2. FST!Cardinality(K) = Cardinality(K)
    BY Zenon DEF FST!Cardinality, Cardinality
  <2> QED BY Zenon, <2>1, <2>2
<1>2. Len(q) \in Nat /\ DOMAIN q = 1 .. Len(q) /\ q \in [1 .. Len(q) -> K]
  OBVIOUS
<1>3. q \in FST!Injection(1 .. Len(q), K)
  BY <1>2 DEF FST!Injection, FST!IsInjective
<1>4. FST!Cardinality(1 .. Len(q)) <= Cardinality(K)
  BY <1>1, <1>3, FST!FS_Injection
<1>5. FST!Cardinality(1 .. Len(q)) = Len(q)
  BY <1>2, FST!FS_Interval
<1> QED BY <1>4, <1>5

(* Then the routes are sound in every behaviour: the hypothesis of         *)
(* RoutesAreSound follows from the size of the tracker.                    *)
THEOREM AmpleRoutesAreSound ==
  ASSUME TrackerIsAmple
  PROVE  MeshSpec => []RoutesLeadThere
<1>1. MeshSound => TrackersHaveRoom
  <2> SUFFICES ASSUME MeshSound, NEW n \in Nodes
               PROVE  Len(tracker[n]) < QueryCap
    BY DEF TrackersHaveRoom
  <2>1. /\ tracker[n] \in Seq(Keys)
        /\ \A i, j \in DOMAIN tracker[n] : tracker[n][i] = tracker[n][j] => i = j
    BY Zenon DEF MeshSound, Tracked
  <2>2. Len(tracker[n]) <= Cardinality(Keys)
    BY Zenon, <2>1, DistinctFit DEF TrackerIsAmple
  <2>3. Cardinality(Keys) \in Nat
    <3>1. FST!IsFiniteSet(Keys)
      BY Zenon DEF FST!IsFiniteSet, IsFiniteSet, TrackerIsAmple
    <3>2. FST!Cardinality(Keys) = Cardinality(Keys)
      BY Zenon DEF FST!Cardinality, Cardinality
    <3> QED BY Zenon, <3>1, <3>2, FST!FS_CardinalityType
  <2> QED BY <2>1, <2>2, <2>3, MeshAssumption DEF TrackerIsAmple
<1>2. MeshSound => RoutesLeadThere
  BY Zenon DEF MeshSound, OnAir, Tables, Table, Sound, Response, RoutesLeadThere
<1> QED BY <1>1, <1>2, SoundInit, SoundStep, PTL DEF MeshSpec
=============================================================================
