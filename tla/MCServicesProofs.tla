---------------------------- MODULE MCServicesProofs ----------------------------
(***************************************************************************)
(* Theorems about MCServices, for whatever sets of groups, tags, files,    *)
(* workers, users, organizations, invitations, plans, tracking ids and     *)
(* requests its components are given.                                      *)
(*                                                                         *)
(* Groups, batches, filters and searches are proved here.  A list is the   *)
(* set of its elements in the first two, and a part of a list the set of   *)
(* places it keeps in Search, so what a page, a filter or a zip does is    *)
(* counting: the first section is about positions.                         *)
(*                                                                         *)
(* Files, topics, members and billing have proofs of their own, for every  *)
(* value of the constants.  An instance of a component and an instance of  *)
(* its proofs define the same actions twice: the lemmas SameFiles,         *)
(* SameTopics, SameMembers and SameBilling say so, action by action.       *)
(***************************************************************************)
EXTENDS MCServices, FiniteSetTheorems, SequenceTheorems, TLAPS

--------------------------------------------------------------------------------
(* Positions in lists that are kept as the sets of their elements.          *)

Position(T, i) == Cardinality({k \in T : k < i})

\* A list is finite.
LEMMA PartsAreFinite == ASSUME NEW n \in Nat, NEW T \in SUBSET (1 .. n) PROVE IsFiniteSet(T) /\ Cardinality(T) \in Nat
<1>1. 1 \in Int /\ n \in Int
  OBVIOUS
<1> QED
  BY <1>1, FS_Interval, FS_Subset, FS_CardinalityType

\* A later place in a list has a position as high, and a higher one if the
\* earlier place is in the list.
LEMMA RanksGrow ==
  ASSUME NEW n \in Nat, NEW T \in SUBSET (1 .. n), NEW i \in 1 .. n, NEW j \in 1 .. n, i < j
  PROVE  /\ Position(T, i) \in Nat /\ Position(T, i) <= Position(T, j)
         /\ i \in T => Position(T, i) < Position(T, j)
<1> DEFINE Below == {k \in T : k < i}
           Under == {k \in T : k < j}
<1>0. \A k \in 1 .. n : k \in Int
  OBVIOUS
<1>1. Below \subseteq Under
  <2> SUFFICES ASSUME NEW k \in T, k < i PROVE k < j
    OBVIOUS
  <2>1. k \in Int /\ i \in Int /\ j \in Int
    BY <1>0
  <2> QED
    BY <2>1
<1>2. IsFiniteSet(Under) /\ Cardinality(Below) \in Nat /\ Cardinality(Under) \in Nat
  BY PartsAreFinite
<1>3. Cardinality(Below) <= Cardinality(Under)
  BY <1>1, <1>2, FS_Subset
<1>4. i \in T => Cardinality(Below) < Cardinality(Under)
  <2>1. i \in T => i \in Under \ Below
    OBVIOUS
  <2> QED
    BY <1>1, <1>2, <1>3, <2>1, FS_Subset
<1> QED
  BY <1>2, <1>3, <1>4 DEF Position

\* A list has exactly one element at each position.
LEMMA EveryPosition ==
  ASSUME NEW n \in Nat, NEW T \in SUBSET (1 .. n)
  PROVE  /\ Cardinality(T) \in Nat
         /\ \A i \in T : Position(T, i) \in 0 .. Cardinality(T) - 1
         /\ \A k \in 0 .. Cardinality(T) - 1 : \E i \in T : Position(T, i) = k
         /\ \A i, j \in T : Position(T, i) = Position(T, j) => i = j
<1> DEFINE z == Cardinality(T)
           f == [i \in T |-> Position(T, i) + 1]
<1>1. z \in Nat /\ IsFiniteSet(T)
  BY PartsAreFinite
<1>2. ASSUME NEW i \in T PROVE Position(T, i) \in Nat /\ Position(T, i) < z
  <2> DEFINE Below == {k \in T : k < i}
  <2>1. Below \subseteq T /\ i \in T \ Below
    OBVIOUS
  <2>2. Cardinality(Below) \in Nat
    BY PartsAreFinite
  <2>3. Cardinality(Below) <= z /\ Cardinality(Below) # z
    BY <1>1, <2>1, FS_Subset
  <2> QED
    BY <1>1, <2>2, <2>3 DEF Position
<1>3. \A i \in T : f[i] \in 1 .. z
  BY <1>1, <1>2
<1>4. ASSUME NEW i \in T, NEW j \in T, Position(T, i) = Position(T, j) PROVE i = j
  <2>1. ~(i < j) /\ ~(j < i)
    BY <1>2, <1>4, RanksGrow
  <2> QED
    BY <2>1
<1>5. \A i, j \in T : f[i] = f[j] => i = j
  BY <1>2, <1>4
<1>6. f \in Injection(T, 1 .. z)
  BY <1>3, <1>5 DEF Injection, IsInjective
<1>7. IsFiniteSet(1 .. z) /\ Cardinality(1 .. z) = z
  BY <1>1, FS_Interval
<1>8. f \in Surjection(T, 1 .. z)
  <2> HIDE DEF f
  <2> QED
    BY <1>1, <1>6, <1>7, FS_Injection
<1>9. \A k \in 1 .. z : \E i \in T : f[i] = k
  BY <1>8 DEF Surjection
<1>10. ASSUME NEW k \in 0 .. z - 1 PROVE \E i \in T : Position(T, i) = k
  <2>1. k + 1 \in 1 .. z
    BY <1>1
  <2>2. PICK i \in T : f[i] = k + 1
    BY <1>9, <2>1
  <2> QED
    BY <1>2, <2>2
<1> QED
  BY <1>1, <1>2, <1>4, <1>10

\* A list that is not empty has a first element and a last one.
LEMMA FirstAndLast ==
  ASSUME NEW n \in Nat, NEW T \in SUBSET (1 .. n), T # {}
  PROVE  /\ \E a \in T : \A i \in T : a <= i
         /\ \E z \in T : \A i \in T : i <= z
<1> DEFINE m == Cardinality(T)
<1>0. /\ m \in Nat /\ \A i \in T : Position(T, i) \in 0 .. m - 1
      /\ \A k \in 0 .. m - 1 : \E i \in T : Position(T, i) = k
  <2> HIDE DEF m
  <2>1. m = Cardinality(T)
    BY DEF m
  <2> QED
    BY <2>1, EveryPosition
<1> HIDE DEF m
<1>1. m \in Nat /\ m # 0
  <2>1. PICK i \in T : TRUE
    OBVIOUS
  <2>2. Position(T, i) \in 0 .. m - 1
    BY <1>0
  <2> QED
    BY <1>0, <2>2
<1>2. PICK a \in T : Position(T, a) = 0
  BY <1>0, <1>1
<1>3. PICK z \in T : Position(T, z) = m - 1
  BY <1>0, <1>1
<1>4. ASSUME NEW i \in T PROVE a <= i
  <2> SUFFICES ASSUME i < a PROVE FALSE
    OBVIOUS
  <2>1. Position(T, i) \in Nat /\ Position(T, i) < Position(T, a)
    BY RanksGrow
  <2> QED
    BY <1>2, <2>1
<1>5. ASSUME NEW i \in T PROVE i <= z
  <2> SUFFICES ASSUME z < i PROVE FALSE
    OBVIOUS
  <2>1. Position(T, z) < Position(T, i) /\ Position(T, i) \in 0 .. m - 1
    BY <1>0, RanksGrow
  <2> QED
    BY <1>1, <1>3, <2>1
<1> QED
  BY <1>4, <1>5

--------------------------------------------------------------------------------
(* Groups and bookmarks: the rows, the points and who works on them.        *)

\* The constants of the groups are as GroupMembership assumes.
LEMMA GroupConstants == G!GroupAssumption
BY ServicesAssumption

USE GroupConstants DEF G!GroupAssumption

\* What a request remembers fits the step it is at.
Fit(r) ==
  /\ r.op = "none" <=> r.at = "idle"
  /\ r.op = "edit" => r.at \in {"update", "push"} /\ r.group \in Groups
  /\ r.op \in {"add", "remove"} => r.at \in {"read", "write"} /\ r.group \in Groups /\ r.chunk \in G!Chunks
  /\ r.op = "delete" => r.at \in {"collect", "rows", "chunks", "points", "read", "write"} /\ r.group \in Groups
  /\ r.at \in {"read", "write"} => r.chunk \in G!Chunks /\ ~r.all
  /\ r.at = "chunks" => r.all
  /\ r.at = "write" => r.seen \in G!Payload

FitInv == (\A s \in Actors : Fit(gReq[s])) /\ (\A b \in bookmarks : b[2] \in gRows)

\* The groups of a chunk, by its bookmark rows; a payload that is its own; row and
\* point in agreement; the point lacks g, or has g and no row for it.
Marks(c) == {g \in Groups : <<g, c>> \in bookmarks}
Whole(c) == c \in gRows /\ point[c] # None /\ point[c].of = c
Kept(c)  == IF c \in gRows THEN Whole(c) /\ G!Listed(point[c].groups) = Marks(c) ELSE point[c] = None
More(c, g) == Whole(c) /\ G!Listed(point[c].groups) \cup {g} = Marks(c)
Less(c, g) == Whole(c) /\ G!Listed(point[c].groups) \ {g} = Marks(c)

\* Nobody else works on a chunk that was not disturbed.
Alone(c) ==
  /\ \A s, t \in Actors : c \in G!Touched(gReq[s]) /\ c \in G!Touched(gReq[t]) => s = t
  /\ \A s \in Actors : c \in G!Touched(gReq[s]) => arriving[c] = None /\ worker.msg = None
  /\ arriving[c] # None => worker.msg = None

\* A deletion has seen every row and every bookmark there is.
Young == \A s \in Actors : G!Deletes(gReq[s]) => gRows \subseteq gReq[s].oldRows /\ bookmarks \subseteq gReq[s].old

\* Which rows have a point.
Present(c) ==
  /\ c \in gRows /\ arriving[c] = None => point[c] # None
  /\ arriving[c] # None => c \in gRows /\ G!Listed(arriving[c]) = Marks(c)
  /\ \A s \in Actors : gReq[s].op = "delete" /\ gReq[s].at = "points" /\ gReq[s].all /\ c \in gReq[s].todo => c \notin gRows

\* How far a deletion has come with a chunk.
DeleteAt(r, c) ==
  /\ r.at \in {"collect", "rows"} => Kept(c)
  /\ r.at = "rows" => (c \in r.todo <=> r.group \in Marks(c))
  /\ r.at = "chunks" \/ (r.at \in {"points", "read", "write"} /\ ~r.all) =>
       IF c \in r.todo \/ (r.at \in {"read", "write"} /\ c = r.chunk) THEN Less(c, r.group) ELSE Kept(c)
  /\ r.at = "points" /\ r.all /\ c \notin r.todo => Kept(c)

\* How far a request has come with a chunk.
RequestAt(r, c) ==
  /\ r.op = "add" => More(c, r.group)
  /\ r.op = "remove" => Less(c, r.group)
  /\ r.op = "delete" => DeleteAt(r, c)
  /\ r.at = "write" /\ r.chunk = c => r.seen = point[c]

\* Between the steps of whoever is there, row and point agree up to that.
Agree(c) ==
  /\ \A s \in Actors : c \in G!Touched(gReq[s]) => RequestAt(gReq[s], c)
  /\ arriving[c] = None /\ (\A s \in Actors : c \notin G!Touched(gReq[s])) => Kept(c)

\* The old tags of the message are gone and the new ones there.
Replaced(c) == worker.msg.new \subseteq point[c].tags /\ worker.msg.prev \cap point[c].tags \subseteq worker.msg.new

\* The worker has passed the chunk, or has its payload in hand.
Tagged(c) ==
  worker.msg # None /\ c \in gRows /\ worker.msg.group \in Marks(c) /\ c <= worker.offset =>
    c \in DOMAIN worker.todo \/ Replaced(c)

\* The invariant of the groups.
ChunkAt(c) == Alone(c) /\ Young /\ Present(c) /\ (c \notin retagged => Agree(c)) /\ Tagged(c)

ChunkInv == \A c \in G!Chunks \ disturbed : ChunkAt(c)
GroupsIInv == G!TypeOK /\ FitInv /\ ChunkInv


\* A slot without a request.
LEMMA IdleIsRequest == G!Idle \in G!Request /\ Fit(G!Idle)
BY DEF G!Idle, G!Request, Fit

\* The list with each of some groups once.
LEMMA ListIsList == ASSUME NEW gs PROVE G!ListOf(gs) \in G!Lists /\ G!Listed(G!ListOf(gs)) = gs \cap Groups
<1>1. \A g \in Groups : (IF g \in gs THEN 1 ELSE 0) \in Nat
  OBVIOUS
<1>2. G!ListOf(gs) \in G!Lists
  BY <1>1 DEF G!ListOf, G!Lists
<1>3. \A g \in Groups : G!ListOf(gs)[g] > 0 <=> g \in gs
  BY DEF G!ListOf
<1> QED
  BY <1>2, <1>3 DEF G!Listed

\* Adding an id to a group_ids list, and removing all its occurrences.
LEMMA WithGroupLists ==
  ASSUME NEW l \in G!Lists, NEW g \in Groups
  PROVE  /\ G!WithGroup(l, g) \in G!Lists /\ G!Listed(G!WithGroup(l, g)) = G!Listed(l) \cup {g}
         /\ G!WithoutGroup(l, g) \in G!Lists /\ G!Listed(G!WithoutGroup(l, g)) = G!Listed(l) \ {g}
BY DEF G!Lists, G!Listed, G!WithGroup, G!WithoutGroup

\* Positions among chunks are counted as those in any list.
LEMMA RankIsPosition ==
  ASSUME NEW cs, NEW c
  PROVE  G!Rank(cs, c) = Position(cs, c) /\ G!Cardinality(cs) = Cardinality(cs)
BY DEF G!Rank, Position, G!Cardinality, Cardinality

\* A request that goes on to one that fits leaves all requests fitting.
LEMMA GoFits ==
  ASSUME G!TypeOK, FitInv, NEW s \in Actors, NEW r \in G!Request, Fit(r), G!Go(s, r)
  PROVE  gReq' \in [Actors -> G!Request] /\ \A t \in Actors : Fit(gReq'[t])
BY DEF G!TypeOK, FitInv, G!Go

\* What is known of a request.
LEMMA RequestsAreFit == ASSUME G!TypeOK, FitInv, NEW s \in Actors PROVE gReq[s] \in G!Request /\ Fit(gReq[s])
BY DEF G!TypeOK, FitInv

\* The routes that make and update groups keep the types and the fit.
LEMMA GroupsRoutesType ==
  ASSUME G!TypeOK, FitInv, NEW s \in Actors, G!CreateGroup(s) \/ G!BeginUpdate(s) \/ G!UpdateGroup(s) \/ G!PushUpdate(s)
  PROVE  G!TypeOK' /\ FitInv'
<1>1. CASE G!CreateGroup(s)
  BY <1>1 DEF G!CreateGroup, G!Open, G!GroupRow, G!Owner, G!Exists, G!TypeOK, FitInv
<1>2. CASE G!BeginUpdate(s)
  <2>1. PICK g \in Groups, t \in Trackings \cup {None}, tags \in SUBSET Tags, push \in BOOLEAN, old \in BOOLEAN :
          /\ G!Open(s) /\ G!Exists(g) /\ (old => group[g].tracking = t /\ t # None /\ ~push)
          /\ G!Go(s, [G!Idle EXCEPT !.at = "update", !.op = "edit", !.group = g, !.tracking = t,
                                    !.prev = group[g].tags, !.tags = tags, !.push = push, !.known = ~old])
          /\ UNCHANGED <<group, gRows, bookmarks, point, arriving, updates, worker, returned, retagged, disturbed, gFailures>>
    BY <1>2 DEF G!BeginUpdate
  <2> DEFINE r == [G!Idle EXCEPT !.at = "update", !.op = "edit", !.group = g, !.tracking = t,
                                  !.prev = group[g].tags, !.tags = tags, !.push = push, !.known = ~old]
  <2>2. group[g].tags \in SUBSET Tags
    BY <2>1 DEF G!Exists, G!GroupRow, G!TypeOK
  <2>3. r \in G!Request /\ Fit(r)
    <3>1. r \in G!Request
      BY <2>2 DEF G!Idle, G!Request
    <3>2. Fit(r)
      BY DEF G!Idle, Fit
    <3> QED
      BY <3>1, <3>2
  <2> HIDE DEF r
  <2>4. G!Go(s, r)
    BY <2>1 DEF r
  <2>5. gReq' \in [Actors -> G!Request] /\ \A t_1 \in Actors : Fit(gReq'[t_1])
    BY <2>3, <2>4, GoFits
  <2>6. gRequests' \in 0 .. GroupRequests
    BY <2>1 DEF G!Open, G!TypeOK
  <2> QED
    BY <2>1, <2>5, <2>6 DEF G!TypeOK, FitInv
<1>3. CASE G!UpdateGroup(s)
  <2> DEFINE r == [gReq[s] EXCEPT !.at = "push"]
  <2>1. gReq[s].at = "update" /\ gReq[s].op = "edit" /\ gReq[s].group \in Groups
        /\ gReq[s].tracking \in Trackings \cup {None} /\ gReq[s].tags \in SUBSET Tags
    BY <1>3, RequestsAreFit DEF G!UpdateGroup, Fit, G!Request
  <2>2. r \in G!Request /\ Fit(r)
    BY <2>1, RequestsAreFit DEF G!Request, Fit
  <2> HIDE DEF r
  <2>3. G!Go(s, r) \/ G!Go(s, G!Idle)
    BY <1>3 DEF G!UpdateGroup, r
  <2>4. gReq' \in [Actors -> G!Request] /\ \A t \in Actors : Fit(gReq'[t])
    BY <2>2, <2>3, GoFits, IdleIsRequest
  <2>5. group' \in [Groups -> G!GroupRow \cup {None}]
    BY <1>3, <2>1 DEF G!UpdateGroup, G!GroupRow, G!TypeOK
  <2> QED
    BY <1>3, <2>4, <2>5 DEF G!TypeOK, FitInv, G!UpdateGroup
<1>4. CASE G!PushUpdate(s)
  <2>1. [group |-> gReq[s].group, prev |-> gReq[s].prev, new |-> gReq[s].tags, attempt |-> 0] \in G!Update
    BY <1>4, RequestsAreFit DEF G!PushUpdate, Fit, G!Request, G!Update
  <2>2. G!Go(s, G!Idle)
    BY <1>4 DEF G!PushUpdate
  <2>4. gReq' \in [Actors -> G!Request] /\ \A t \in Actors : Fit(gReq'[t])
    BY <2>2, GoFits, IdleIsRequest
  <2> QED
    BY <1>4, <2>1, <2>4 DEF G!TypeOK, FitInv, G!PushUpdate
<1> QED
  BY <1>1, <1>2, <1>3, <1>4

\* So do those that put chunks in groups and take them out.
LEMMA ChunkRoutesType ==
  ASSUME G!TypeOK, FitInv, NEW s \in Actors, G!AddChunk(s) \/ G!RemoveChunk(s) \/ G!ReadPoint(s) \/ G!WritePoint(s) \/ G!QdrantFails(s)
  PROVE  G!TypeOK' /\ FitInv'
<1> DEFINE r == gReq[s]
           pts == [r EXCEPT !.at = "points"]
<1>0. r \in G!Request /\ Fit(r)
  BY RequestsAreFit
<1>9. r.op = "delete" /\ r.at \in {"read", "write"} => pts \in G!Request /\ Fit(pts)
  BY <1>0 DEF Fit, G!Request
<1> HIDE DEF pts
<1>1. CASE G!AddChunk(s)
  <2>1. PICK g \in Groups, c \in gRows :
          /\ gRequests < GroupRequests /\ gRequests' = gRequests + 1
          /\ bookmarks' = bookmarks \cup {<<g, c>>}
          /\ gReq' = [k \in Actors |-> IF k = s THEN [G!Idle EXCEPT !.at = "read", !.op = "add", !.group = g, !.chunk = c]
                                       ELSE IF G!Deletes(gReq[k]) /\ <<g, c>> \notin bookmarks
                                            THEN [gReq[k] EXCEPT !.old = @ \ {<<g, c>>}] ELSE gReq[k]]
          /\ G!Start({c})
    BY <1>1 DEF G!AddChunk, G!Open
  <2>2. c \in G!Chunks
    BY DEF G!TypeOK
  <2>3. ASSUME NEW t \in Actors PROVE gReq'[t] \in G!Request /\ Fit(gReq'[t])
    <3>1. CASE t = s
      BY <2>1, <2>2, <3>1 DEF G!Idle, G!Request, Fit
    <3>2. CASE t # s /\ G!Deletes(gReq[t]) /\ <<g, c>> \notin bookmarks
      <4>1. gReq'[t] = [gReq[t] EXCEPT !.old = @ \ {<<g, c>>}]
        BY <2>1, <3>2
      <4>2. gReq[t] \in G!Request /\ Fit(gReq[t])
        BY RequestsAreFit
      <4> QED
        BY <4>1, <4>2 DEF G!Request, Fit
    <3>3. CASE t # s /\ ~(G!Deletes(gReq[t]) /\ <<g, c>> \notin bookmarks)
      BY <2>1, <3>3, RequestsAreFit
    <3> QED
      BY <3>1, <3>2, <3>3
  <2>4. gReq' \in [Actors -> G!Request]
    <3>1. gReq' = [t \in Actors |-> gReq'[t]]
      BY <2>1
    <3> QED
      BY <2>3, <3>1
  <2>5. disturbed' \subseteq G!Chunks
    BY <2>1, <2>2 DEF G!Start, G!TypeOK
  <2>6. bookmarks' \subseteq Groups \X G!Chunks /\ \A b \in bookmarks' : b[2] \in gRows
    BY <2>1, <2>2 DEF G!TypeOK, FitInv
  <2>7. gRows' = gRows
    BY <1>1 DEF G!AddChunk
  <2>8. \A b \in bookmarks' : b[2] \in gRows'
    BY <2>6, <2>7
  <2>9. gRequests' \in 0 .. GroupRequests
    BY <2>1 DEF G!TypeOK
  <2>10. UNCHANGED <<group, gRows, point, arriving, updates, worker, returned, retagged, gFailures>>
    BY <1>1 DEF G!AddChunk
  <2>11. FitInv'
    BY <2>3, <2>8 DEF FitInv
  <2> QED
    BY <2>4, <2>5, <2>6, <2>9, <2>10, <2>11 DEF G!TypeOK
<1>2. CASE G!RemoveChunk(s)
  <2>1. PICK g \in Groups, c \in gRows :
          /\ gRequests < GroupRequests /\ gRequests' = gRequests + 1
          /\ bookmarks' = bookmarks \ {<<g, c>>}
          /\ G!Go(s, [G!Idle EXCEPT !.at = "read", !.op = "remove", !.group = g, !.chunk = c])
          /\ G!Start({c})
    BY <1>2 DEF G!RemoveChunk, G!Open
  <2> DEFINE new == [G!Idle EXCEPT !.at = "read", !.op = "remove", !.group = g, !.chunk = c]
  <2>2. c \in G!Chunks
    BY DEF G!TypeOK
  <2>3. new \in G!Request /\ Fit(new)
    BY <2>2 DEF G!Idle, G!Request, Fit
  <2> HIDE DEF new
  <2>4. G!Go(s, new)
    BY <2>1 DEF new
  <2>5. gReq' \in [Actors -> G!Request] /\ \A t \in Actors : Fit(gReq'[t])
    BY <2>3, <2>4, GoFits
  <2>6. disturbed' \subseteq G!Chunks
    BY <2>1, <2>2 DEF G!Start, G!TypeOK
  <2>7. gRequests' \in 0 .. GroupRequests
    BY <2>1 DEF G!TypeOK
  <2>8. UNCHANGED <<group, gRows, point, arriving, updates, worker, returned, retagged, gFailures>>
    BY <1>2 DEF G!RemoveChunk
  <2>9. bookmarks' \subseteq Groups \X G!Chunks /\ FitInv'
    BY <2>1, <2>5, <2>8 DEF G!TypeOK, FitInv
  <2> QED
    BY <2>5, <2>6, <2>7, <2>8, <2>9 DEF G!TypeOK
<1>3. CASE G!ReadPoint(s)
  <2> DEFINE read == [r EXCEPT !.at = "write", !.seen = point[r.chunk]]
  <2>1. r.at = "read" /\ r.chunk \in G!Chunks
    BY <1>0, <1>3 DEF G!ReadPoint, Fit
  <2>2. point[r.chunk] \in G!Payload \cup {None}
    BY <2>1 DEF G!TypeOK
  <2>3. point[r.chunk] # None => read \in G!Request /\ Fit(read)
    BY <1>0, <2>1, <2>2 DEF G!Request, Fit
  <2> HIDE DEF read
  <2>4. \/ point[r.chunk] # None /\ G!Go(s, read)
        \/ r.op = "delete" /\ G!Go(s, pts)
        \/ G!Go(s, G!Idle)
    BY <1>3 DEF G!ReadPoint, read, pts
  <2>5. gReq' \in [Actors -> G!Request] /\ \A t \in Actors : Fit(gReq'[t])
    BY <1>9, <2>1, <2>3, <2>4, GoFits, IdleIsRequest
  <2> QED
    BY <1>3, <2>1, <2>5 DEF G!ReadPoint, G!TypeOK, FitInv
<1>4. CASE G!WritePoint(s)
  <2>1. r.at = "write" /\ r.chunk \in G!Chunks /\ r.seen \in G!Payload
    BY <1>0, <1>4 DEF G!WritePoint, Fit
  <2>2. G!Go(s, G!Idle) \/ (r.op = "delete" /\ G!Go(s, pts))
    <3> DEFINE new == IF r.op = "delete" THEN pts ELSE G!Idle
    <3>1. G!Go(s, new)
      BY <1>4 DEF G!WritePoint, pts
    <3>2. IF r.op = "delete" THEN new = pts ELSE new = G!Idle
      OBVIOUS
    <3> HIDE DEF new
    <3> QED
      BY <3>1, <3>2
  <2>3. gReq' \in [Actors -> G!Request] /\ \A t \in Actors : Fit(gReq'[t])
    BY <1>9, <2>1, <2>2, GoFits, IdleIsRequest
  <2>4. r.group \in Groups
    BY <1>0, <2>1 DEF Fit, G!Request
  <2>5. r.seen.groups \in G!Lists
    BY <2>1 DEF G!Payload
  <2> DEFINE gs == IF r.op = "add" THEN G!WithGroup(r.seen.groups, r.group) ELSE G!WithoutGroup(r.seen.groups, r.group)
  <2>6. gs \in G!Lists
    BY <2>4, <2>5, WithGroupLists
  <2> HIDE DEF gs
  <2>7. [r.seen EXCEPT !.groups = gs] \in G!Payload
    BY <2>1, <2>6 DEF G!Payload
  <2>8. point' = IF point[r.chunk] = None THEN point ELSE [point EXCEPT ![r.chunk] = [r.seen EXCEPT !.groups = gs]]
    BY <1>4 DEF G!WritePoint, gs
  <2>9. point' \in [G!Chunks -> G!Payload \cup {None}]
    BY <2>7, <2>8 DEF G!TypeOK
  <2> QED
    BY <1>4, <2>3, <2>9 DEF G!WritePoint, G!TypeOK, FitInv
<1>5. CASE G!QdrantFails(s)
  <2>1. r.at \in {"read", "write"} /\ r.chunk \in G!Chunks
    BY <1>0, <1>5 DEF G!QdrantFails, Fit
  <2>2. G!Go(s, G!Idle) \/ (r.op = "delete" /\ G!Go(s, pts))
    <3> DEFINE new == IF r.op = "delete" THEN pts ELSE G!Idle
    <3>1. G!Go(s, new)
      BY <1>5 DEF G!QdrantFails, pts
    <3>2. IF r.op = "delete" THEN new = pts ELSE new = G!Idle
      OBVIOUS
    <3> HIDE DEF new
    <3> QED
      BY <3>1, <3>2
  <2>3. gReq' \in [Actors -> G!Request] /\ \A t \in Actors : Fit(gReq'[t])
    BY <1>9, <2>1, <2>2, GoFits, IdleIsRequest
  <2>4. disturbed' \subseteq G!Chunks /\ gFailures' \in 0 .. MaxFailures
    BY <1>5, <2>1 DEF G!QdrantFails, G!TypeOK
  <2> QED
    BY <1>5, <2>3, <2>4 DEF G!QdrantFails, G!TypeOK, FitInv
<1> QED
  BY <1>1, <1>2, <1>3, <1>4, <1>5

\* So do the deletions of groups.
LEMMA DeletionType ==
  ASSUME G!TypeOK, FitInv, NEW s \in Actors, G!BeginDelete(s) \/ G!CollectChunks(s) \/ G!DeleteRows(s) \/ G!DeleteChunks(s) \/ G!DeletePoints(s)
  PROVE  G!TypeOK' /\ FitInv'
<1> DEFINE r == gReq[s]
<1>0. r \in G!Request /\ Fit(r)
  BY RequestsAreFit
<1>1. CASE G!BeginDelete(s)
  <2>1. PICK g \in Groups, all \in BOOLEAN :
          /\ gRequests < GroupRequests /\ gRequests' = gRequests + 1
          /\ G!Go(s, [G!Idle EXCEPT !.at = "collect", !.op = "delete", !.group = g, !.all = all,
                                    !.old = bookmarks, !.oldRows = gRows])
          /\ G!Start(G!Chunks)
    BY <1>1 DEF G!BeginDelete, G!Open
  <2> DEFINE new == [G!Idle EXCEPT !.at = "collect", !.op = "delete", !.group = g, !.all = all,
                                   !.old = bookmarks, !.oldRows = gRows]
  <2>2. bookmarks \subseteq Groups \X G!Chunks /\ gRows \subseteq G!Chunks
    BY DEF G!TypeOK
  <2>3. new \in G!Request /\ Fit(new)
    BY <2>2 DEF G!Idle, G!Request, Fit
  <2> HIDE DEF new
  <2>4. G!Go(s, new)
    BY <2>1 DEF new
  <2>5. gReq' \in [Actors -> G!Request] /\ \A t \in Actors : Fit(gReq'[t])
    BY <2>3, <2>4, GoFits
  <2>6. disturbed' \subseteq G!Chunks
    BY <2>1 DEF G!Start, G!TypeOK
  <2>7. gRequests' \in 0 .. GroupRequests
    BY <2>1 DEF G!TypeOK
  <2>8. UNCHANGED <<group, gRows, bookmarks, point, arriving, updates, worker, returned, retagged, gFailures>>
    BY <1>1 DEF G!BeginDelete
  <2> QED
    BY <2>5, <2>6, <2>7, <2>8 DEF G!TypeOK, FitInv
<1>2. CASE G!CollectChunks(s)
  <2> DEFINE new == [r EXCEPT !.at = "rows", !.todo = {c \in G!Chunks : <<r.group, c>> \in bookmarks}]
  <2>1. r.op = "delete"
    BY <1>0, <1>2 DEF G!CollectChunks, Fit, G!Request
  <2>2. new \in G!Request /\ Fit(new)
    BY <1>0, <2>1 DEF G!Request, Fit
  <2> HIDE DEF new
  <2>3. G!Go(s, new)
    BY <1>2 DEF G!CollectChunks, new
  <2>4. gReq' \in [Actors -> G!Request] /\ \A t \in Actors : Fit(gReq'[t])
    BY <2>2, <2>3, GoFits
  <2> QED
    BY <1>2, <2>4 DEF G!CollectChunks, G!TypeOK, FitInv
<1>3. CASE G!DeleteRows(s)
  <2> DEFINE new == [r EXCEPT !.at = IF r.all THEN "chunks" ELSE "points"]
  <2>1. r.op = "delete" /\ r.group \in Groups
    BY <1>0, <1>3 DEF G!DeleteRows, Fit, G!Request
  <2>2. new \in G!Request /\ Fit(new)
    BY <1>0, <2>1 DEF G!Request, Fit
  <2> HIDE DEF new
  <2>3. G!Go(s, new)
    BY <1>3 DEF G!DeleteRows, new
  <2>4. gReq' \in [Actors -> G!Request] /\ \A t \in Actors : Fit(gReq'[t])
    BY <2>2, <2>3, GoFits
  <2>5. bookmarks' \subseteq bookmarks /\ (group' = group \/ group' = [group EXCEPT ![r.group] = None])
    BY <1>3 DEF G!DeleteRows
  <2>6. UNCHANGED <<gRows, point, arriving, updates, worker, returned, retagged, disturbed, gRequests, gFailures>>
    BY <1>3 DEF G!DeleteRows
  <2> QED
    BY <2>1, <2>4, <2>5, <2>6 DEF G!TypeOK, FitInv
<1>4. CASE G!DeleteChunks(s)
  <2> DEFINE new == [r EXCEPT !.at = "points", !.todo = gRows \cap r.todo \cap r.oldRows]
  <2>1. r.op = "delete" /\ r.group \in Groups
    BY <1>0, <1>4 DEF G!DeleteChunks, Fit, G!Request
  <2>2. new \in G!Request /\ Fit(new)
    BY <1>0, <2>1 DEF G!Request, Fit
  <2> HIDE DEF new
  <2>3. G!Go(s, new) \/ G!Go(s, G!Idle)
    BY <1>4 DEF G!DeleteChunks, new
  <2>4. gReq' \in [Actors -> G!Request] /\ \A t \in Actors : Fit(gReq'[t])
    BY <2>2, <2>3, GoFits, IdleIsRequest
  <2>5. \/ UNCHANGED <<gRows, bookmarks>>
        \/ /\ gRows' = gRows \ (r.todo \cap r.oldRows)
           /\ bookmarks' \subseteq bookmarks /\ \A b \in bookmarks' : b[2] \notin r.todo \cap r.oldRows
    <3>1. CASE {b \in bookmarks : b[2] \in r.todo \cap r.oldRows /\ b \notin r.old} = {}
      BY <1>4, <3>1 DEF G!DeleteChunks
    <3>2. CASE {b \in bookmarks : b[2] \in r.todo \cap r.oldRows /\ b \notin r.old} # {}
      BY <1>4, <3>2 DEF G!DeleteChunks
    <3> QED
      BY <3>1, <3>2
  <2>6. UNCHANGED <<group, point, arriving, updates, worker, returned, retagged, disturbed, gRequests, gFailures>>
    BY <1>4 DEF G!DeleteChunks
  <2> QED
    BY <2>4, <2>5, <2>6 DEF G!TypeOK, FitInv
<1>5. CASE G!DeletePoints(s)
  <2>0. r.op = "delete" /\ r.group \in Groups
    BY <1>0, <1>5 DEF G!DeletePoints, Fit, G!Request
  <2>1. UNCHANGED <<group, gRows, bookmarks, arriving, updates, worker, returned, retagged, disturbed, gRequests, gFailures>>
    BY <1>5 DEF G!DeletePoints
  <2>2. point' = point \/ point' = [c \in G!Chunks |-> IF c \in r.todo THEN None ELSE point[c]]
    BY <1>5 DEF G!DeletePoints
  <2>3. gReq' \in [Actors -> G!Request] /\ \A t \in Actors : Fit(gReq'[t])
    <3>1. CASE G!Go(s, G!Idle)
      BY <3>1, GoFits, IdleIsRequest
    <3>2. CASE ~r.all /\ \E c \in r.todo : G!Go(s, [r EXCEPT !.at = "read", !.todo = @ \ {c}, !.chunk = c])
      <4>1. PICK c \in r.todo : G!Go(s, [r EXCEPT !.at = "read", !.todo = @ \ {c}, !.chunk = c])
        BY <3>2
      <4> DEFINE new == [r EXCEPT !.at = "read", !.todo = @ \ {c}, !.chunk = c]
      <4>2. c \in G!Chunks
        BY <1>0 DEF G!Request
      <4>3. new \in G!Request /\ Fit(new)
        BY <1>0, <2>0, <3>2, <4>2 DEF G!Request, Fit
      <4> HIDE DEF new
      <4>4. G!Go(s, new)
        BY <4>1 DEF new
      <4> QED
        BY <4>3, <4>4, GoFits
    <3> QED
      BY <1>5, <3>1, <3>2 DEF G!DeletePoints
  <2> QED
    BY <2>1, <2>2, <2>3 DEF G!TypeOK, FitInv
<1> QED
  BY <1>1, <1>2, <1>3, <1>4, <1>5

\* So do the ingestions of chunks.
LEMMA IngestType ==
  ASSUME G!TypeOK, FitInv, NEW c \in G!Chunks, G!IngestRow(c) \/ G!IngestPoint(c)
  PROVE  G!TypeOK' /\ FitInv'
<1>1. CASE G!IngestRow(c)
  <2>1. PICK gs \in G!Lists :
          /\ gRows' = gRows \cup {c} /\ bookmarks' = bookmarks \cup {<<g, c>> : g \in G!Listed(gs)}
          /\ arriving' = [arriving EXCEPT ![c] = gs]
    BY <1>1, ListIsList DEF G!IngestRow
  <2>2. bookmarks' \subseteq Groups \X G!Chunks /\ \A b \in bookmarks' : b[2] \in gRows'
    BY <2>1 DEF G!TypeOK, FitInv, G!Listed
  <2>3. disturbed' \subseteq G!Chunks
    BY <1>1 DEF G!IngestRow, G!Start, G!TypeOK
  <2>4. UNCHANGED <<group, point, gReq, updates, worker, returned, retagged, gRequests, gFailures>>
    BY <1>1 DEF G!IngestRow
  <2> QED
    BY <2>1, <2>2, <2>3, <2>4 DEF G!TypeOK, FitInv
<1>2. CASE G!IngestPoint(c)
  <2>1. arriving[c] \in G!Lists
    BY <1>2 DEF G!IngestPoint, G!TypeOK
  <2>2. G!TagsOf(arriving[c]) \subseteq Tags
    BY DEF G!TagsOf, G!Listed, G!GroupRow, G!Exists, G!TypeOK
  <2>3. [of |-> c, groups |-> arriving[c], tags |-> G!TagsOf(arriving[c])] \in G!Payload
    BY <2>1, <2>2 DEF G!Payload
  <2> QED
    BY <1>2, <2>3 DEF G!IngestPoint, G!TypeOK, FitInv
<1> QED
  BY <1>1, <1>2

(* Pages. *)

\* A later chunk of a list has a higher position.
LEMMA ChunkRanksGrow ==
  ASSUME NEW cs \in SUBSET G!Chunks, NEW c \in G!Chunks, NEW d \in G!Chunks, c < d
  PROVE  /\ G!Rank(cs, c) \in Nat /\ G!Rank(cs, c) <= G!Rank(cs, d)
         /\ c \in cs => G!Rank(cs, c) < G!Rank(cs, d)
<1>1. GroupedChunks \in Nat /\ cs \in SUBSET (1 .. GroupedChunks) /\ c \in 1 .. GroupedChunks /\ d \in 1 .. GroupedChunks
  BY DEF G!Chunks
<1> QED
  BY <1>1, RankIsPosition, RanksGrow

\* A list of chunks has a chunk at each position.
LEMMA EveryChunkRank ==
  ASSUME NEW cs \in SUBSET G!Chunks
  PROVE  /\ G!Cardinality(cs) \in Nat
         /\ \A c \in cs : G!Rank(cs, c) \in 0 .. G!Cardinality(cs) - 1
         /\ \A i \in 0 .. G!Cardinality(cs) - 1 : \E c \in cs : G!Rank(cs, c) = i
<1>1. GroupedChunks \in Nat /\ cs \in SUBSET (1 .. GroupedChunks)
  BY DEF G!Chunks
<1>2. G!Cardinality(cs) = Cardinality(cs) /\ \A c : G!Rank(cs, c) = Position(cs, c)
  BY RankIsPosition
<1> QED
  BY <1>1, <1>2, EveryPosition

\* Chunks, if any, have a first one and a last one.
LEMMA FirstAndLastChunk ==
  ASSUME NEW cs \in SUBSET G!Chunks, cs # {}
  PROVE  /\ G!Min(cs) \in cs /\ \A c \in cs : G!Min(cs) <= c
         /\ G!Max(cs) \in cs /\ \A c \in cs : c <= G!Max(cs)
<1> DEFINE n == G!Cardinality(cs)
<1>0. cs \subseteq Int
  BY DEF G!Chunks
<1>1. n \in Nat /\ n # 0
  BY EveryChunkRank
<1>2. PICK a \in cs : G!Rank(cs, a) = 0
  BY <1>1, EveryChunkRank
<1>3. PICK z \in cs : G!Rank(cs, z) = n - 1
  BY <1>1, EveryChunkRank
<1>4. \A c \in cs : c >= a
  <2> SUFFICES ASSUME NEW c \in cs, c < a PROVE FALSE
    BY <1>0
  <2>1. G!Rank(cs, c) \in Nat /\ G!Rank(cs, c) < G!Rank(cs, a)
    BY ChunkRanksGrow
  <2> QED
    BY <1>2, <2>1
<1>5. \A c \in cs : z >= c
  <2> SUFFICES ASSUME NEW c \in cs, z < c PROVE FALSE
    BY <1>0
  <2>1. G!Rank(cs, z) < G!Rank(cs, c) /\ G!Rank(cs, c) \in 0 .. n - 1
    BY ChunkRanksGrow, EveryChunkRank
  <2> QED
    BY <1>1, <1>3, <2>1
<1>6. G!Min(cs) \in cs /\ \A y \in cs : G!Min(cs) =< y
  BY <1>0, <1>4 DEF G!Min
<1>7. G!Max(cs) \in cs /\ \A y \in cs : G!Max(cs) >= y
  BY <1>0, <1>5 DEF G!Max
<1> QED
  BY <1>0, <1>6, <1>7

\* A page has the first of the chunks, up to its last one; only after the last
\* of them it is empty.
LEMMA PageIsFirst ==
  ASSUME G!TypeOK
  PROVE  /\ G!Page \subseteq G!After /\ G!After \subseteq G!Chunks
         /\ G!Page = {} => G!After = {}
         /\ G!Page # {} => G!Max(G!Page) \in G!Chunks /\ \A c \in G!After : c <= G!Max(G!Page) => c \in G!Page
<1>1. G!After \in SUBSET G!Chunks /\ G!Page \in SUBSET G!After
  BY DEF G!After, G!Page, G!TypeOK
<1>2. \A c \in G!After : c \in G!Page <=> G!Rank(G!After, c) < GroupPage
  BY DEF G!Page, G!Rank
<1>3. ASSUME G!After # {} PROVE G!Page # {}
  <2>1. G!Min(G!After) \in G!After /\ \A d \in G!After : G!Min(G!After) <= d
    BY <1>1, <1>3, FirstAndLastChunk
  <2>2. G!Cardinality(G!After) \in Nat /\ G!Cardinality(G!After) # 0
    BY <1>1, <1>3, EveryChunkRank
  <2>3. PICK c \in G!After : G!Rank(G!After, c) = 0
    BY <1>1, <2>2, EveryChunkRank
  <2> QED
    BY <1>2, <2>3
<1>4. ASSUME G!Page # {}, NEW c \in G!After, c <= G!Max(G!Page) PROVE c \in G!Page
  <2> DEFINE m == G!Max(G!Page)
  <2>1. m \in G!Page
    BY <1>1, <1>4, FirstAndLastChunk
  <2>2. m \in G!After /\ G!Rank(G!After, m) < GroupPage /\ c \in G!Chunks /\ m \in G!Chunks
    BY <1>1, <1>2, <2>1
  <2> HIDE DEF m
  <2>3. CASE c = m
    BY <2>1, <2>3
  <2>4. CASE c < m
    <3>1. G!Rank(G!After, c) \in Nat /\ G!Rank(G!After, m) \in Nat /\ G!Rank(G!After, c) < G!Rank(G!After, m)
      BY <1>1, <2>2, <2>4, ChunkRanksGrow, EveryChunkRank
    <3> QED
      BY <1>2, <2>2, <3>1
  <2>5. c <= m /\ c \in Int /\ m \in Int
    BY <1>4, <2>2 DEF m, G!Chunks
  <2> QED
    BY <2>3, <2>4, <2>5
<1>5. G!Page # {} => G!Max(G!Page) \in G!Chunks
  BY <1>1, FirstAndLastChunk
<1> QED
  BY <1>1, <1>3, <1>4, <1>5

\* What ReadPage zips: the ids of the page with the payloads that were found.
FoundOnPage  == {c \in G!Page : point[c] # None}
ZippedOnPage == {c \in G!Page : G!Rank(G!Page, c) < G!Cardinality(FoundOnPage)}
ZipOfPage    == [c \in ZippedOnPage |-> point[CHOOSE d \in FoundOnPage : G!Rank(FoundOnPage, d) = G!Rank(G!Page, c)]]

\* What ReadPage zips: a payload for each of the first ids of the page, and for
\* all of them when all have a point.
LEMMA ZipsAPage ==
  ASSUME G!TypeOK
  PROVE  /\ ZipOfPage \in [ZippedOnPage -> G!Payload] /\ ZippedOnPage \subseteq G!Chunks
         /\ FoundOnPage = G!Page => ZippedOnPage = G!Page
<1> DEFINE found == FoundOnPage
           zipped == ZippedOnPage
<1> USE DEF FoundOnPage, ZippedOnPage, ZipOfPage
<1>1. G!Page \in SUBSET G!Chunks /\ found \in SUBSET G!Chunks
  BY PageIsFirst
<1>2. G!Cardinality(found) \in Nat /\ G!Cardinality(G!Page) \in Nat
  BY <1>1, EveryChunkRank
<1>3. ASSUME NEW c \in zipped PROVE point[CHOOSE d \in found : G!Rank(found, d) = G!Rank(G!Page, c)] \in G!Payload
  <2>1. G!Rank(G!Page, c) \in 0 .. G!Cardinality(found) - 1
    BY <1>1, <1>2, EveryChunkRank
  <2>2. \E d \in found : G!Rank(found, d) = G!Rank(G!Page, c)
    BY <1>1, <2>1, EveryChunkRank
  <2> DEFINE d == CHOOSE e \in found : G!Rank(found, e) = G!Rank(G!Page, c)
  <2>3. d \in found
    BY <2>2
  <2> HIDE DEF d
  <2>4. point[d] \in G!Payload
    BY <1>1, <2>3 DEF G!TypeOK
  <2> QED
    BY <2>4 DEF d
<1>4. found = G!Page => zipped = G!Page
  BY <1>1, <1>2, EveryChunkRank
<1> QED
  BY <1>1, <1>3, <1>4

\* So does the grupdate worker.
LEMMA WorkerType ==
  ASSUME G!TypeOK, FitInv, G!TakeUpdate \/ G!ReadPage \/ G!WritePayload \/ G!FinishUpdate \/ G!UpdateFails
  PROVE  G!TypeOK' /\ FitInv'
<1>0. /\ G!Free \in [msg : G!Update \cup {None}, offset : 0 .. GroupedChunks, todo : {G!Free.todo}]
      /\ DOMAIN G!Free.todo = {} /\ G!Free.todo \in [{} -> G!Payload]
  BY DEF G!Free
<1>1. CASE G!TakeUpdate
  <2>1. Head(updates) \in G!Update /\ updates' \in Seq(G!Update)
    BY <1>1 DEF G!TakeUpdate, G!TypeOK
  <2> DEFINE new == [G!Free EXCEPT !.msg = Head(updates)]
  <2>2. new \in [msg : G!Update \cup {None}, offset : 0 .. GroupedChunks, todo : {new.todo}]
        /\ DOMAIN new.todo = {} /\ new.todo \in [{} -> G!Payload]
    BY <1>0, <2>1 DEF G!Free
  <2> HIDE DEF new
  <2>3. worker' = new
    BY <1>1 DEF G!TakeUpdate, new
  <2>4. disturbed' \subseteq G!Chunks
    BY <1>1 DEF G!TakeUpdate, G!Start, G!TypeOK
  <2> QED
    BY <1>1, <2>1, <2>2, <2>3, <2>4 DEF G!TakeUpdate, G!TypeOK, FitInv
<1>2. CASE G!ReadPage
  <2> DEFINE new == [worker EXCEPT !.offset = G!Max(G!Page), !.todo = ZipOfPage]
  <2>1. ZipOfPage \in [ZippedOnPage -> G!Payload] /\ ZippedOnPage \subseteq G!Chunks
    BY ZipsAPage
  <2>2. G!Page # {} /\ worker' = new /\ (disturbed' = disturbed \/ disturbed' = disturbed \cup G!Page)
    BY <1>2 DEF G!ReadPage, FoundOnPage, ZippedOnPage, ZipOfPage
  <2>3. G!Max(G!Page) \in 0 .. GroupedChunks /\ G!Page \subseteq G!Chunks
    BY <2>2, PageIsFirst DEF G!Chunks
  <2>4. new \in [msg : G!Update \cup {None}, offset : 0 .. GroupedChunks, todo : {new.todo}]
        /\ DOMAIN new.todo = ZippedOnPage /\ new.todo \in [ZippedOnPage -> G!Payload]
    BY <2>1, <2>3 DEF G!TypeOK
  <2>5. UNCHANGED <<group, gRows, bookmarks, point, arriving, gReq, updates, returned, retagged, gRequests, gFailures>>
    BY <1>2 DEF G!ReadPage
  <2> HIDE DEF new
  <2> QED
    BY <2>1, <2>2, <2>3, <2>4, <2>5 DEF G!TypeOK, FitInv
<1>3. CASE G!WritePayload
  <2> DEFINE c == G!Min(DOMAIN worker.todo)
  <2>1. DOMAIN worker.todo \in SUBSET G!Chunks /\ DOMAIN worker.todo # {} /\ worker.msg \in G!Update
    BY <1>3 DEF G!WritePayload, G!TypeOK
  <2>2. c \in DOMAIN worker.todo /\ c \in G!Chunks
    BY <2>1, FirstAndLastChunk
  <2> HIDE DEF c
  <2>3. worker.todo[c] \in G!Payload
    BY <2>2 DEF G!TypeOK
  <2>4. G!ParsedIds(worker.todo[c].groups) \in G!Lists
    BY ListIsList DEF G!ParsedIds
  <2>5. G!NewPayload(worker.todo[c]) \in G!Payload
    BY <2>1, <2>3, <2>4 DEF G!NewPayload, G!Payload, G!Update
  <2>6. /\ point' = IF point[c] = None THEN point ELSE [point EXCEPT ![c] = G!NewPayload(worker.todo[c])]
        /\ retagged' = retagged \cup {c}
        /\ worker' = [worker EXCEPT !.todo = [d \in DOMAIN @ \ {c} |-> @[d]]]
    BY <1>3 DEF G!WritePayload, c
  <2> DEFINE new == [worker EXCEPT !.todo = [d \in DOMAIN @ \ {c} |-> @[d]]]
  <2>7. /\ new \in [msg : G!Update \cup {None}, offset : 0 .. GroupedChunks, todo : {new.todo}]
        /\ DOMAIN new.todo \subseteq G!Chunks /\ new.todo \in [DOMAIN new.todo -> G!Payload]
    BY <2>1 DEF G!TypeOK
  <2> HIDE DEF new
  <2>8. worker' = new
    BY <2>6 DEF new
  <2>9. point' \in [G!Chunks -> G!Payload \cup {None}]
    BY <2>2, <2>5, <2>6 DEF G!TypeOK
  <2> QED
    BY <1>3, <2>2, <2>6, <2>7, <2>8, <2>9 DEF G!WritePayload, G!TypeOK, FitInv
<1>4. CASE G!FinishUpdate
  BY <1>0, <1>4 DEF G!FinishUpdate, G!TypeOK, FitInv
<1>5. CASE G!UpdateFails
  <2> DEFINE msg == [worker.msg EXCEPT !.attempt = @ + 1]
  <2>1. worker.msg \in G!Update /\ gFailures' \in 0 .. MaxFailures
    BY <1>5 DEF G!UpdateFails, G!TypeOK
  <2>2. msg.attempt # GroupAttempts => msg \in G!Update
    BY <2>1 DEF G!Update
  <2>3. updates' = updates \/ (msg.attempt # GroupAttempts /\ updates' = Append(updates, msg))
    BY <1>5 DEF G!UpdateFails
  <2> HIDE DEF msg
  <2>4. updates' \in Seq(G!Update)
    <3>1. updates \in Seq(G!Update)
      BY DEF G!TypeOK
    <3>2. CASE updates' = updates
      BY <3>1, <3>2
    <3>3. CASE msg \in G!Update /\ updates' = Append(updates, msg)
      BY <3>1, <3>3
    <3> QED
      BY <2>2, <2>3, <3>2, <3>3
  <2> QED
    BY <1>0, <1>5, <2>1, <2>4 DEF G!UpdateFails, G!TypeOK, FitInv
<1> QED
  BY <1>1, <1>2, <1>3, <1>4, <1>5

(* A step of one request seen from a chunk. *)

\* What is stored about a chunk stays.
SameGroups(c) == /\ c \in gRows' <=> c \in gRows
                 /\ Marks(c)' = Marks(c) /\ point'[c] = point[c] /\ arriving'[c] = arriving[c]

\* Nobody but the request in s works on a chunk.
OtherGroups(c, s) == (\A t \in Actors \ {s} : c \notin G!Touched(gReq[t])) /\ arriving[c] = None /\ worker.msg = None

\* A request on an undisturbed chunk is the only one that works on it.
LEMMA AloneAtChunk ==
  ASSUME NEW c \in G!Chunks, ChunkAt(c), NEW s \in Actors, c \in G!Touched(gReq[s])
  PROVE  OtherGroups(c, s)
BY DEF ChunkAt, Alone, OtherGroups

\* Nobody works on a chunk that is not busy.
LEMMA NotBusy ==
  ASSUME NEW d \in G!Chunks, d \notin G!Busy
  PROVE  arriving[d] = None /\ worker.msg = None /\ \A t \in Actors : d \notin G!Touched(gReq[t])
<1> DEFINE A == UNION {G!Touched(gReq[s]) : s \in Actors}
           I == {c \in G!Chunks : arriving[c] # None}
           W == IF worker.msg = None THEN {} ELSE G!Chunks
<1>1. G!Busy = A \cup I \cup W
  BY Zenon DEF G!Busy
<1>2. d \notin A /\ d \notin I /\ d \notin W
  <2> HIDE DEF A, I, W
  <2> QED
    BY <1>1
<1>3. worker.msg = None
  BY <1>2
<1>4. ASSUME NEW t \in Actors PROVE d \notin G!Touched(gReq[t])
  BY <1>2
<1>5. arriving[d] = None
  BY <1>2
<1> QED
  BY <1>3, <1>4, <1>5

\* Work that starts on a chunk and does not disturb it found nobody there.
LEMMA StartsAlone ==
  ASSUME NEW cs, G!Start(cs), NEW c \in G!Chunks, c \notin disturbed'
  PROVE  /\ \A t \in Actors : ~G!Deletes(gReq[t])
         /\ c \notin disturbed
         /\ c \in cs => arriving[c] = None /\ worker.msg = None /\ \A t \in Actors : c \notin G!Touched(gReq[t])
<1>1. \A t \in Actors : ~G!Deletes(gReq[t])
  BY DEF G!Start
<1>2. disturbed' = disturbed \cup (cs \cap G!Busy)
  BY <1>1 DEF G!Start
<1>3. c \notin G!Busy => arriving[c] = None /\ worker.msg = None /\ \A t \in Actors : c \notin G!Touched(gReq[t])
  BY NotBusy
<1> QED
  BY <1>1, <1>2, <1>3

\* A chunk that a step does not reach.
LEMMA NotReached ==
  ASSUME G!TypeOK, G!TypeOK', NEW c \in G!Chunks, ChunkAt(c), SameGroups(c),
         \A t \in Actors : gReq'[t] = gReq[t] \/ (c \notin G!Touched(gReq[t]) /\ c \notin G!Touched(gReq'[t])),
         (gRows' \subseteq gRows /\ bookmarks' \subseteq bookmarks) \/ (\A t \in Actors : ~G!Deletes(gReq'[t])),
         worker'.msg = worker.msg \/ worker'.msg = None,
         worker' = worker \/ Tagged(c)',
         retagged \subseteq retagged'
  PROVE  ChunkAt(c)'
<1>0. ASSUME NEW t \in Actors PROVE /\ G!Touched(gReq[t])' = G!Touched(gReq'[t]) /\ G!Deletes(gReq[t])' = G!Deletes(gReq'[t])
                                    /\ c \in G!Touched(gReq'[t]) => gReq'[t] = gReq[t] /\ c \in G!Touched(gReq[t])
                                    /\ c \in G!Touched(gReq[t]) => gReq'[t] = gReq[t]
                                    /\ G!Deletes(gReq'[t]) => c \in G!Touched(gReq'[t])
  BY DEF G!Touched, G!Deletes
<1>1. Alone(c)'
  BY <1>0 DEF Alone, ChunkAt, SameGroups
<1>2. Young'
  BY <1>0 DEF Young, ChunkAt
<1>3. Present(c)'
  BY <1>0 DEF Present, ChunkAt, SameGroups, G!Deletes
<1>4. ASSUME c \notin retagged' PROVE Agree(c)'
  <2>1. Agree(c)
    BY <1>4 DEF ChunkAt
  <2>2. Kept(c)' <=> Kept(c)
    BY DEF Kept, Whole, SameGroups
  <2>3. ASSUME NEW t \in Actors, c \in G!Touched(gReq'[t]) PROVE RequestAt(gReq[t], c)'
    <3>1. RequestAt(gReq[t], c) /\ gReq'[t] = gReq[t]
      BY <1>0, <2>1, <2>3 DEF Agree
    <3> QED
      BY <3>1, <2>2 DEF RequestAt, DeleteAt, More, Less, Kept, Whole, SameGroups
  <2> QED
    BY <1>0, <2>1, <2>2, <2>3 DEF Agree, SameGroups
<1>5. Tagged(c)'
  BY DEF Tagged, Replaced, ChunkAt, SameGroups
<1> QED
  BY <1>1, <1>2, <1>3, <1>4, <1>5 DEF ChunkAt

\* A chunk that only the request in s works on.
LEMMA Reached ==
  ASSUME G!TypeOK, G!TypeOK', NEW c \in G!Chunks, NEW s \in Actors, OtherGroups(c, s),
         \A t \in Actors \ {s} : gReq'[t] = gReq[t],
         arriving' = arriving, worker' = worker, retagged' = retagged,
         G!Deletes(gReq'[s]) => gRows' \subseteq gReq'[s].oldRows /\ bookmarks' \subseteq gReq'[s].old,
         c \in gRows' => point'[c] # None,
         G!Deletes(gReq'[s]) /\ gReq'[s].at = "points" /\ gReq'[s].all /\ c \in gReq'[s].todo => c \notin gRows',
         c \notin retagged => IF c \in G!Touched(gReq'[s]) THEN RequestAt(gReq[s], c)' ELSE Kept(c)'
  PROVE  ChunkAt(c)'
<1>0. ASSUME NEW t \in Actors PROVE /\ G!Touched(gReq[t])' = G!Touched(gReq'[t]) /\ G!Deletes(gReq[t])' = G!Deletes(gReq'[t])
                                    /\ t # s => c \notin G!Touched(gReq'[t]) /\ ~G!Deletes(gReq'[t])
  BY DEF G!Touched, G!Deletes, OtherGroups
<1>1. Alone(c)'
  BY <1>0 DEF Alone, OtherGroups
<1>2. Young'
  BY <1>0 DEF Young
<1>3. Present(c)'
  BY <1>0 DEF Present, OtherGroups, G!Deletes
<1>4. ASSUME c \notin retagged' PROVE Agree(c)'
  BY <1>0, <1>4 DEF Agree
<1>5. Tagged(c)'
  BY DEF Tagged, OtherGroups
<1> QED
  BY <1>1, <1>2, <1>3, <1>4, <1>5 DEF ChunkAt

\* Steps that do not touch any chunk.
LEMMA QuietStep ==
  ASSUME GroupsIInv, G!TypeOK', NEW s \in Actors, G!CreateGroup(s) \/ G!BeginUpdate(s) \/ G!UpdateGroup(s) \/ G!PushUpdate(s)
  PROVE  ChunkInv'
<1> SUFFICES ASSUME NEW c \in G!Chunks, c \notin disturbed' PROVE ChunkAt(c)'
  BY DEF ChunkInv
<1>0. G!TypeOK /\ gReq[s] \in G!Request /\ Fit(gReq[s])
  BY RequestsAreFit DEF GroupsIInv
<1>1. UNCHANGED <<gRows, bookmarks, point, arriving, worker, disturbed, retagged>>
  BY DEF G!CreateGroup, G!BeginUpdate, G!UpdateGroup, G!PushUpdate
<1>2. ChunkAt(c) /\ SameGroups(c)
  BY <1>1 DEF GroupsIInv, ChunkInv, SameGroups, Marks
<1>3. \/ gReq' = gReq
      \/ gReq[s].op \in {"none", "edit"} /\ \E r : r.op \in {"none", "edit"} /\ G!Go(s, r)
  <2>1. CASE G!CreateGroup(s)
    BY <2>1 DEF G!CreateGroup
  <2>2. CASE G!BeginUpdate(s)
    <3>1. gReq[s].op = "none"
      BY <1>0, <2>2 DEF G!BeginUpdate, G!Open, Fit
    <3>2. PICK g \in Groups, t \in Trackings \cup {None}, tags \in SUBSET Tags, push \in BOOLEAN, old \in BOOLEAN :
            /\ G!Open(s) /\ G!Exists(g) /\ (old => group[g].tracking = t /\ t # None /\ ~push)
            /\ G!Go(s, [G!Idle EXCEPT !.at = "update", !.op = "edit", !.group = g, !.tracking = t,
                                      !.prev = group[g].tags, !.tags = tags, !.push = push, !.known = ~old])
            /\ UNCHANGED <<group, gRows, bookmarks, point, arriving, updates, worker, returned, retagged, disturbed, gFailures>>
      BY <2>2 DEF G!BeginUpdate
    <3> DEFINE new == [G!Idle EXCEPT !.at = "update", !.op = "edit", !.group = g, !.tracking = t,
                                     !.prev = group[g].tags, !.tags = tags, !.push = push, !.known = ~old]
    <3>3. new.op = "edit"
      BY DEF G!Idle
    <3> HIDE DEF new
    <3>4. G!Go(s, new)
      BY <3>2 DEF new
    <3> QED
      BY <3>1, <3>3, <3>4
  <2>3. CASE G!UpdateGroup(s)
    <3> DEFINE new == [gReq[s] EXCEPT !.at = "push"]
    <3>1. gReq[s].op = "edit" /\ new.op = "edit" /\ G!Idle.op = "none"
      BY <1>0, <2>3 DEF G!UpdateGroup, Fit, G!Request, G!Idle
    <3> HIDE DEF new
    <3>2. G!Go(s, new) \/ G!Go(s, G!Idle)
      BY <2>3 DEF G!UpdateGroup, new
    <3> QED
      BY <3>1, <3>2
  <2>4. CASE G!PushUpdate(s)
    <3>1. gReq[s].op = "edit" /\ G!Idle.op = "none" /\ G!Go(s, G!Idle)
      BY <1>0, <2>4 DEF G!PushUpdate, Fit, G!Request, G!Idle
    <3> QED
      BY <3>1
  <2> QED
    BY <2>1, <2>2, <2>3, <2>4
<1>4. \A t \in Actors : gReq'[t] = gReq[t] \/ (c \notin G!Touched(gReq[t]) /\ c \notin G!Touched(gReq'[t]))
  BY <1>0, <1>3 DEF G!Go, G!Touched, G!Deletes, G!TypeOK
<1> QED
  BY <1>0, <1>1, <1>2, <1>4, NotReached

\* The bookmark is written: the point lacks one group.
LEMMA AddStep ==
  ASSUME GroupsIInv, G!TypeOK', NEW s \in Actors, G!AddChunk(s)
  PROVE  ChunkInv'
<1> SUFFICES ASSUME NEW c \in G!Chunks, c \notin disturbed' PROVE ChunkAt(c)'
  BY DEF ChunkInv
<1>0. G!TypeOK /\ FitInv /\ gReq[s] \in G!Request /\ Fit(gReq[s])
  BY RequestsAreFit DEF GroupsIInv
<1>1. PICK g \in Groups, d \in gRows :
        /\ G!Open(s) /\ bookmarks' = bookmarks \cup {<<g, d>>}
        /\ gReq' = [k \in Actors |-> IF k = s THEN [G!Idle EXCEPT !.at = "read", !.op = "add", !.group = g, !.chunk = d]
                                     ELSE IF G!Deletes(gReq[k]) /\ <<g, d>> \notin bookmarks
                                          THEN [gReq[k] EXCEPT !.old = @ \ {<<g, d>>}] ELSE gReq[k]]
        /\ G!Start({d})
        /\ UNCHANGED <<group, gRows, point, arriving, updates, worker, returned, retagged, gFailures>>
  BY DEF G!AddChunk
<1> DEFINE new == [G!Idle EXCEPT !.at = "read", !.op = "add", !.group = g, !.chunk = d]
<1>2. new.op = "add" /\ new.at = "read" /\ new.group = g /\ new.chunk = d
  BY DEF G!Idle
<1> HIDE DEF new
<1>3. /\ c \notin disturbed /\ \A t \in Actors : ~G!Deletes(gReq[t])
      /\ c = d => arriving[c] = None /\ worker.msg = None /\ \A t \in Actors : c \notin G!Touched(gReq[t])
  BY <1>1, StartsAlone
<1>4. ChunkAt(c)
  BY <1>3 DEF GroupsIInv, ChunkInv
<1>5. gReq'[s] = new /\ \A t \in Actors \ {s} : gReq'[t] = gReq[t]
  BY <1>1, <1>3 DEF new
<1>6. gReq[s].op = "none"
  BY <1>0, <1>1 DEF G!Open, Fit
<1>7. CASE c # d
  <2>1. Marks(c)' = Marks(c)
    BY <1>1, <1>7 DEF Marks
  <2>2. SameGroups(c)
    BY <1>1, <2>1 DEF SameGroups
  <2>3. \A t \in Actors : gReq'[t] = gReq[t] \/ (c \notin G!Touched(gReq[t]) /\ c \notin G!Touched(gReq'[t]))
    BY <1>2, <1>5, <1>6, <1>7 DEF G!Touched, G!Deletes
  <2>4. \A t \in Actors : ~G!Deletes(gReq'[t])
    BY <1>2, <1>3, <1>5 DEF G!Deletes
  <2> QED
    BY <1>0, <1>1, <1>4, <2>2, <2>3, <2>4, NotReached
<1>8. CASE c = d
  <2>1. OtherGroups(c, s)
    BY <1>3, <1>8 DEF OtherGroups
  <2>2. Marks(c)' = Marks(c) \cup {g}
    BY <1>1, <1>8 DEF Marks
  <2>3. c \notin retagged => Kept(c)
    BY <1>3, <1>4, <1>8 DEF ChunkAt, Agree
  <2>4. c \in gRows /\ point[c] # None
    BY <1>3, <1>4, <1>8 DEF ChunkAt, Present
  <2>5. c \notin retagged => RequestAt(gReq[s], c)'
    BY <1>1, <1>2, <1>5, <2>2, <2>3, <2>4 DEF RequestAt, More, Kept, Whole
  <2>6. c \in G!Touched(gReq'[s]) /\ ~G!Deletes(gReq'[s])
    BY <1>2, <1>5, <1>8 DEF G!Touched, G!Deletes
  <2> QED
    BY <1>0, <1>1, <1>5, <2>1, <2>4, <2>5, <2>6, Reached
<1> QED
  BY <1>7, <1>8

\* The bookmark is removed: the point has one group too many.
LEMMA RemoveStep ==
  ASSUME GroupsIInv, G!TypeOK', NEW s \in Actors, G!RemoveChunk(s)
  PROVE  ChunkInv'
<1> SUFFICES ASSUME NEW c \in G!Chunks, c \notin disturbed' PROVE ChunkAt(c)'
  BY DEF ChunkInv
<1>0. G!TypeOK /\ FitInv /\ gReq[s] \in G!Request /\ Fit(gReq[s])
  BY RequestsAreFit DEF GroupsIInv
<1>1. PICK g \in Groups, d \in gRows :
        /\ G!Open(s) /\ bookmarks' = bookmarks \ {<<g, d>>}
        /\ G!Go(s, [G!Idle EXCEPT !.at = "read", !.op = "remove", !.group = g, !.chunk = d])
        /\ G!Start({d})
        /\ UNCHANGED <<group, gRows, point, arriving, updates, worker, returned, retagged, gFailures>>
  BY DEF G!RemoveChunk
<1> DEFINE new == [G!Idle EXCEPT !.at = "read", !.op = "remove", !.group = g, !.chunk = d]
<1>2. new.op = "remove" /\ new.at = "read" /\ new.group = g /\ new.chunk = d
  BY DEF G!Idle
<1> HIDE DEF new
<1>3. /\ c \notin disturbed /\ \A t \in Actors : ~G!Deletes(gReq[t])
      /\ c = d => arriving[c] = None /\ worker.msg = None /\ \A t \in Actors : c \notin G!Touched(gReq[t])
  BY <1>1, StartsAlone
<1>4. ChunkAt(c)
  BY <1>3 DEF GroupsIInv, ChunkInv
<1>5. gReq'[s] = new /\ \A t \in Actors \ {s} : gReq'[t] = gReq[t]
  BY <1>0, <1>1 DEF new, G!Go, G!TypeOK
<1>6. gReq[s].op = "none"
  BY <1>0, <1>1 DEF G!Open, Fit
<1>7. CASE c # d
  <2>1. Marks(c)' = Marks(c)
    BY <1>1, <1>7 DEF Marks
  <2>2. SameGroups(c)
    BY <1>1, <2>1 DEF SameGroups
  <2>3. \A t \in Actors : gReq'[t] = gReq[t] \/ (c \notin G!Touched(gReq[t]) /\ c \notin G!Touched(gReq'[t]))
    BY <1>2, <1>5, <1>6, <1>7 DEF G!Touched, G!Deletes
  <2>4. \A t \in Actors : ~G!Deletes(gReq'[t])
    BY <1>2, <1>3, <1>5 DEF G!Deletes
  <2> QED
    BY <1>0, <1>1, <1>4, <2>2, <2>3, <2>4, NotReached
<1>8. CASE c = d
  <2>1. OtherGroups(c, s)
    BY <1>3, <1>8 DEF OtherGroups
  <2>2. Marks(c)' = Marks(c) \ {g}
    BY <1>1, <1>8 DEF Marks
  <2>3. c \notin retagged => Kept(c)
    BY <1>3, <1>4, <1>8 DEF ChunkAt, Agree
  <2>4. c \in gRows /\ point[c] # None
    BY <1>3, <1>4, <1>8 DEF ChunkAt, Present
  <2>5. c \notin retagged => RequestAt(gReq[s], c)'
    BY <1>1, <1>2, <1>5, <2>2, <2>3, <2>4 DEF RequestAt, Less, Kept, Whole
  <2>6. c \in G!Touched(gReq'[s]) /\ ~G!Deletes(gReq'[s])
    BY <1>2, <1>5, <1>8 DEF G!Touched, G!Deletes
  <2> QED
    BY <1>0, <1>1, <1>5, <2>1, <2>4, <2>5, <2>6, Reached
<1> QED
  BY <1>7, <1>8

\* What a request has to know of a chunk that it goes on working on.
LEMMA ReadStep ==
  ASSUME GroupsIInv, G!TypeOK', NEW s \in Actors, G!ReadPoint(s) \/ G!QdrantFails(s)
  PROVE  ChunkInv'
<1> SUFFICES ASSUME NEW c \in G!Chunks, c \notin disturbed' PROVE ChunkAt(c)'
  BY DEF ChunkInv
<1> DEFINE r    == gReq[s]
           read == [r EXCEPT !.at = "write", !.seen = point[r.chunk]]
           pts  == [r EXCEPT !.at = "points"]
<1>0. G!TypeOK /\ FitInv /\ r \in G!Request /\ Fit(r)
  BY RequestsAreFit DEF GroupsIInv
<1>1. /\ UNCHANGED <<group, gRows, bookmarks, point, arriving, updates, worker, returned, retagged>>
      /\ r.at \in {"read", "write"} /\ disturbed \subseteq disturbed'
  BY DEF G!ReadPoint, G!QdrantFails
<1>2. r.op \in {"add", "remove", "delete"} /\ r.chunk \in G!Chunks /\ ~r.all
  BY <1>0, <1>1 DEF Fit, G!Request
<1>3. /\ read.op = r.op /\ read.at = "write" /\ read.group = r.group /\ read.chunk = r.chunk /\ read.todo = r.todo
      /\ read.seen = point[r.chunk] /\ read.all = r.all /\ read.old = r.old /\ read.oldRows = r.oldRows
      /\ pts.op = r.op /\ pts.at = "points" /\ pts.group = r.group /\ pts.todo = r.todo /\ pts.all = r.all
      /\ pts.old = r.old /\ pts.oldRows = r.oldRows /\ pts.chunk = r.chunk
      /\ G!Idle.op = "none"
  BY <1>0 DEF G!Request, G!Idle
<1>4. \/ r.at = "read" /\ G!Go(s, read)
      \/ r.chunk # c /\ r.op = "delete" /\ G!Go(s, pts)
      \/ r.chunk # c /\ r.op # "delete" /\ G!Go(s, G!Idle)
  <2>1. CASE G!ReadPoint(s) /\ point[r.chunk] # None
    BY <2>1 DEF G!ReadPoint
  <2>2. CASE (G!ReadPoint(s) /\ point[r.chunk] = None) \/ G!QdrantFails(s)
    <3>1. r.chunk \in disturbed'
      BY <2>2 DEF G!ReadPoint, G!QdrantFails
    <3> DEFINE new == IF r.op = "delete" THEN pts ELSE G!Idle
    <3>2. G!Go(s, new)
      BY <2>2 DEF G!ReadPoint, G!QdrantFails
    <3>3. IF r.op = "delete" THEN new = pts ELSE new = G!Idle
      OBVIOUS
    <3> HIDE DEF new, pts, read
    <3> QED
      BY <3>1, <3>2, <3>3
  <2> QED
    BY <2>1, <2>2
<1> HIDE DEF read, pts
<1>5. ChunkAt(c) /\ SameGroups(c)
  BY <1>1 DEF GroupsIInv, ChunkInv, SameGroups, Marks
<1>6. \A t \in Actors \ {s} : gReq'[t] = gReq[t]
  BY <1>0, <1>4 DEF G!Go, G!TypeOK
<1>7. CASE c \notin G!Touched(r)
  <2>1. c # r.chunk /\ r.op # "delete"
    BY <1>2, <1>7 DEF G!Touched, G!Deletes
  <2>2. gReq'[s] = read \/ gReq'[s] = G!Idle
    BY <1>0, <1>4, <2>1 DEF G!Go, G!TypeOK
  <2>3. \A t \in Actors : gReq'[t] = gReq[t] \/ (c \notin G!Touched(gReq[t]) /\ c \notin G!Touched(gReq'[t]))
    BY <1>3, <1>6, <1>7, <2>1, <2>2 DEF G!Touched, G!Deletes
  <2> QED
    BY <1>0, <1>1, <1>5, <2>3, NotReached
<1>8. CASE c \in G!Touched(r)
  <2>1. OtherGroups(c, s)
    BY <1>5, <1>8, AloneAtChunk
  <2>2. \/ r.at = "read" /\ gReq'[s] = read
        \/ r.chunk # c /\ r.op = "delete" /\ gReq'[s] = pts
    BY <1>0, <1>2, <1>4, <1>8 DEF G!Go, G!TypeOK, G!Touched, G!Deletes
  <2>3. c \in G!Touched(gReq'[s])
    BY <1>3, <1>8, <2>2 DEF G!Touched, G!Deletes
  <2>4. G!Deletes(gReq'[s]) => gRows' \subseteq gReq'[s].oldRows /\ bookmarks' \subseteq gReq'[s].old
    BY <1>1, <1>3, <1>5, <2>2 DEF ChunkAt, Young, G!Deletes
  <2>5. c \in gRows' => point'[c] # None
    BY <1>1, <1>5, <2>1 DEF ChunkAt, Present, OtherGroups
  <2>6. ~gReq'[s].all
    BY <1>2, <1>3, <2>2
  <2>7. c \notin retagged => RequestAt(r, c)
    BY <1>5, <1>8 DEF ChunkAt, Agree
  <2>8. (Kept(c)' <=> Kept(c)) /\ \A g \in Groups : (More(c, g)' <=> More(c, g)) /\ (Less(c, g)' <=> Less(c, g))
    BY <1>5 DEF SameGroups, Kept, More, Less, Whole
  <2>9. r.group \in Groups
    BY <1>0, <1>2 DEF Fit
  <2>10. c \notin retagged => RequestAt(gReq[s], c)'
    BY <1>1, <1>2, <1>3, <2>2, <2>7, <2>8, <2>9 DEF RequestAt, DeleteAt
  <2> QED
    BY <1>0, <1>1, <1>6, <2>1, <2>3, <2>4, <2>5, <2>6, <2>10, Reached
<1> QED
  BY <1>7, <1>8

\* The payload is written back: row and point agree again.
LEMMA WriteStep ==
  ASSUME GroupsIInv, G!TypeOK', NEW s \in Actors, G!WritePoint(s)
  PROVE  ChunkInv'
<1> SUFFICES ASSUME NEW c \in G!Chunks, c \notin disturbed' PROVE ChunkAt(c)'
  BY DEF ChunkInv
<1> DEFINE r   == gReq[s]
           gs  == IF r.op = "add" THEN G!WithGroup(r.seen.groups, r.group) ELSE G!WithoutGroup(r.seen.groups, r.group)
           put == [r.seen EXCEPT !.groups = gs]
           pts == [r EXCEPT !.at = "points"]
<1>0. G!TypeOK /\ FitInv /\ r \in G!Request /\ Fit(r)
  BY RequestsAreFit DEF GroupsIInv
<1>1. /\ UNCHANGED <<group, gRows, bookmarks, arriving, updates, worker, returned, retagged, disturbed>>
      /\ r.at = "write"
  BY DEF G!WritePoint
<1>2. /\ r.op \in {"add", "remove", "delete"} /\ r.chunk \in G!Chunks /\ ~r.all /\ r.group \in Groups
      /\ r.seen \in G!Payload
  BY <1>0, <1>1 DEF Fit, G!Request
<1>3. /\ pts.op = r.op /\ pts.at = "points" /\ pts.group = r.group /\ pts.todo = r.todo /\ pts.all = r.all
      /\ pts.old = r.old /\ pts.oldRows = r.oldRows /\ pts.chunk = r.chunk
      /\ G!Idle.op = "none"
  BY <1>0 DEF G!Request, G!Idle
<1>4. IF r.op = "delete" THEN G!Go(s, pts) ELSE G!Go(s, G!Idle)
  BY DEF G!WritePoint
<1>5. point' = IF point[r.chunk] = None THEN point ELSE [point EXCEPT ![r.chunk] = put]
  BY DEF G!WritePoint
<1>6. put \in G!Payload /\ put.of = r.seen.of
      /\ G!Listed(put.groups) = IF r.op = "add" THEN G!Listed(r.seen.groups) \cup {r.group}
                                                ELSE G!Listed(r.seen.groups) \ {r.group}
  <2>1. r.seen.groups \in G!Lists
    BY <1>2 DEF G!Payload
  <2>2. gs \in G!Lists /\ G!Listed(gs) = IF r.op = "add" THEN G!Listed(r.seen.groups) \cup {r.group}
                                                         ELSE G!Listed(r.seen.groups) \ {r.group}
    BY <1>2, <2>1, WithGroupLists
  <2> HIDE DEF gs
  <2> QED
    BY <1>2, <2>2 DEF G!Payload
<1> HIDE DEF put, pts, gs
<1>7. ChunkAt(c)
  BY <1>1 DEF GroupsIInv, ChunkInv
<1>8. \A t \in Actors \ {s} : gReq'[t] = gReq[t]
  BY <1>0, <1>4 DEF G!Go, G!TypeOK
<1>9. Marks(c)' = Marks(c)
  BY <1>1 DEF Marks
<1>10. CASE c \notin G!Touched(r)
  <2>1. c # r.chunk /\ r.op # "delete"
    BY <1>2, <1>10 DEF G!Touched, G!Deletes
  <2>2. gReq'[s] = G!Idle
    BY <1>0, <1>4, <2>1 DEF G!Go, G!TypeOK
  <2>3. \A t \in Actors : gReq'[t] = gReq[t] \/ (c \notin G!Touched(gReq[t]) /\ c \notin G!Touched(gReq'[t]))
    BY <1>3, <1>8, <1>10, <2>1, <2>2 DEF G!Touched, G!Deletes
  <2>4. SameGroups(c)
    BY <1>0, <1>1, <1>5, <1>9, <2>1 DEF SameGroups, G!TypeOK
  <2> QED
    BY <1>0, <1>1, <1>7, <2>3, <2>4, NotReached
<1>11. CASE c \in G!Touched(r)
  <2>1. OtherGroups(c, s)
    BY <1>7, <1>11, AloneAtChunk
  <2>2. IF r.op = "delete" THEN gReq'[s] = pts ELSE gReq'[s] = G!Idle /\ c = r.chunk
    BY <1>0, <1>2, <1>4, <1>11 DEF G!Go, G!TypeOK, G!Touched, G!Deletes
  <2>3. c \in G!Touched(gReq'[s]) <=> r.op = "delete"
    BY <1>3, <2>2 DEF G!Touched, G!Deletes
  <2>4. G!Deletes(gReq'[s]) => gRows' \subseteq gReq'[s].oldRows /\ bookmarks' \subseteq gReq'[s].old
    BY <1>1, <1>3, <1>7, <2>2 DEF ChunkAt, Young, G!Deletes
  <2>5. c \in gRows' => point'[c] # None
    BY <1>0, <1>1, <1>5, <1>6, <1>7, <2>1 DEF ChunkAt, Present, OtherGroups, G!TypeOK
  <2>6. G!Deletes(gReq'[s]) => ~gReq'[s].all
    BY <1>2, <1>3, <2>2 DEF G!Deletes
  <2>7. c \notin retagged => RequestAt(r, c)
    BY <1>7, <1>11 DEF ChunkAt, Agree
  <2>8. c # r.chunk => point'[c] = point[c]
    BY <1>0, <1>5 DEF G!TypeOK
  <2> PICK g \in Groups : g = r.group
    BY <1>2
  <2>9. ASSUME c \notin retagged, c = r.chunk PROVE Kept(c)' /\ (r.op = "delete" => Less(c, g)')
    <3>1. r.seen = point[c] /\ point'[c] = put
      BY <1>0, <1>1, <1>2, <1>5, <2>7, <2>9 DEF RequestAt, G!TypeOK
    <3>2. CASE r.op = "add"
      <4>1. More(c, g)
        BY <2>7, <2>9, <3>2 DEF RequestAt
      <4>2. Kept(c)'
        BY <1>1, <1>6, <1>9, <3>1, <3>2, <4>1 DEF More, Kept, Whole
      <4> QED
        BY <3>2, <4>2
    <3>3. CASE r.op # "add"
      <4>1. Less(c, g)
        BY <1>1, <1>2, <2>7, <2>9, <3>3 DEF RequestAt, DeleteAt
      <4> QED
        BY <1>1, <1>6, <1>9, <3>1, <3>3, <4>1 DEF Less, Kept, Whole
    <3> QED
      BY <3>2, <3>3
  <2>10. ASSUME c \notin retagged, c # r.chunk PROVE (Kept(c)' <=> Kept(c)) /\ (Less(c, g)' <=> Less(c, g))
    BY <1>1, <1>9, <2>8, <2>10 DEF Kept, Less, Whole
  <2>11. c \notin retagged /\ r.op = "delete" => RequestAt(gReq[s], c)'
    BY <1>1, <1>2, <1>3, <2>2, <2>7, <2>9, <2>10 DEF RequestAt, DeleteAt
  <2>12. c \notin retagged /\ r.op # "delete" => Kept(c)'
    BY <2>2, <2>9
  <2> QED
    BY <1>0, <1>1, <1>8, <2>1, <2>3, <2>4, <2>5, <2>6, <2>11, <2>12, Reached
<1> QED
  BY <1>10, <1>11

\* A deletion starts on every chunk: whoever is there is disturbed.
LEMMA BeginDeleteStep ==
  ASSUME GroupsIInv, G!TypeOK', NEW s \in Actors, G!BeginDelete(s)
  PROVE  ChunkInv'
<1> SUFFICES ASSUME NEW c \in G!Chunks, c \notin disturbed' PROVE ChunkAt(c)'
  BY DEF ChunkInv
<1>0. G!TypeOK
  BY DEF GroupsIInv
<1>1. PICK g \in Groups, all \in BOOLEAN :
        /\ G!Go(s, [G!Idle EXCEPT !.at = "collect", !.op = "delete", !.group = g, !.all = all,
                                  !.old = bookmarks, !.oldRows = gRows])
        /\ G!Start(G!Chunks)
        /\ UNCHANGED <<group, gRows, bookmarks, point, arriving, updates, worker, returned, retagged, gFailures>>
  BY DEF G!BeginDelete
<1> DEFINE new == [G!Idle EXCEPT !.at = "collect", !.op = "delete", !.group = g, !.all = all,
                                 !.old = bookmarks, !.oldRows = gRows]
<1>2. new.op = "delete" /\ new.at = "collect" /\ new.old = bookmarks /\ new.oldRows = gRows
  BY DEF G!Idle
<1> HIDE DEF new
<1>3. /\ c \notin disturbed /\ arriving[c] = None /\ worker.msg = None
      /\ \A t \in Actors : c \notin G!Touched(gReq[t])
  BY <1>1, StartsAlone
<1>4. ChunkAt(c) /\ OtherGroups(c, s)
  BY <1>3 DEF GroupsIInv, ChunkInv, OtherGroups
<1>5. gReq'[s] = new /\ \A t \in Actors \ {s} : gReq'[t] = gReq[t]
  BY <1>0, <1>1 DEF new, G!Go, G!TypeOK
<1>6. c \notin retagged => Kept(c)
  BY <1>3, <1>4 DEF ChunkAt, Agree
<1>7. c \notin retagged => RequestAt(gReq[s], c)'
  <2>1. Marks(c)' = Marks(c)
    BY <1>1 DEF Marks
  <2> QED
    BY <1>1, <1>2, <1>5, <1>6, <2>1 DEF RequestAt, DeleteAt, Kept, Whole
<1>8. c \in gRows' => point'[c] # None
  BY <1>1, <1>3, <1>4 DEF ChunkAt, Present
<1>9. c \in G!Touched(gReq'[s]) /\ gReq'[s].at # "points"
  BY <1>2, <1>5 DEF G!Touched, G!Deletes
<1> QED
  BY <1>0, <1>1, <1>2, <1>4, <1>5, <1>7, <1>8, <1>9, Reached

\* The deletion lists the chunks of its group.
LEMMA CollectGroupStep ==
  ASSUME GroupsIInv, G!TypeOK', NEW s \in Actors, G!CollectChunks(s)
  PROVE  ChunkInv'
<1> SUFFICES ASSUME NEW c \in G!Chunks, c \notin disturbed' PROVE ChunkAt(c)'
  BY DEF ChunkInv
<1> DEFINE r   == gReq[s]
           new == [r EXCEPT !.at = "rows", !.todo = {d \in G!Chunks : <<r.group, d>> \in bookmarks}]
<1>0. G!TypeOK /\ FitInv /\ r \in G!Request /\ Fit(r)
  BY RequestsAreFit DEF GroupsIInv
<1>1. /\ UNCHANGED <<gRows, bookmarks, point, arriving, worker, retagged, disturbed>>
      /\ r.at = "collect" /\ G!Go(s, new)
  BY DEF G!CollectChunks
<1>2. r.op = "delete" /\ r.group \in Groups
  BY <1>0, <1>1 DEF Fit, G!Request
<1>3. /\ new.op = "delete" /\ new.at = "rows" /\ new.old = r.old /\ new.oldRows = r.oldRows /\ new.group = r.group
      /\ c \in new.todo <=> r.group \in Marks(c)
  BY <1>0, <1>2 DEF G!Request, Marks
<1> HIDE DEF new
<1>4. ChunkAt(c) /\ OtherGroups(c, s)
  BY <1>1, <1>2, AloneAtChunk DEF GroupsIInv, ChunkInv, G!Touched, G!Deletes
<1>5. gReq'[s] = new /\ \A t \in Actors \ {s} : gReq'[t] = gReq[t]
  BY <1>0, <1>1 DEF G!Go, G!TypeOK
<1>6. c \notin retagged => Kept(c)
  BY <1>1, <1>2, <1>4 DEF ChunkAt, Agree, RequestAt, DeleteAt, G!Touched, G!Deletes
<1>7. c \notin retagged => RequestAt(gReq[s], c)'
  <2>1. Marks(c)' = Marks(c)
    BY <1>1 DEF Marks
  <2> QED
    BY <1>1, <1>3, <1>5, <1>6, <2>1 DEF RequestAt, DeleteAt, Kept, Whole
<1>8. c \in gRows' => point'[c] # None
  BY <1>1, <1>4 DEF ChunkAt, Present, OtherGroups
<1>9. c \in G!Touched(gReq'[s]) /\ gReq'[s].at # "points"
  BY <1>3, <1>5 DEF G!Touched, G!Deletes
<1>10. gRows' \subseteq gReq'[s].oldRows /\ bookmarks' \subseteq gReq'[s].old
  BY <1>1, <1>2, <1>3, <1>4, <1>5 DEF ChunkAt, Young, G!Deletes
<1> QED
  BY <1>0, <1>1, <1>4, <1>5, <1>7, <1>8, <1>9, <1>10, Reached

\* The transaction of the deletion: the points of its chunks have a group too many.
LEMMA DeleteRowsStep ==
  ASSUME GroupsIInv, G!TypeOK', NEW s \in Actors, G!DeleteRows(s)
  PROVE  ChunkInv'
<1> SUFFICES ASSUME NEW c \in G!Chunks, c \notin disturbed' PROVE ChunkAt(c)'
  BY DEF ChunkInv
<1> DEFINE r   == gReq[s]
           to  == IF r.all THEN "chunks" ELSE "points"
           new == [r EXCEPT !.at = to]
<1>0. G!TypeOK /\ FitInv /\ r \in G!Request /\ Fit(r)
  BY RequestsAreFit DEF GroupsIInv
<1>1. /\ UNCHANGED <<gRows, point, arriving, worker, retagged, disturbed>>
      /\ r.at = "rows" /\ G!Go(s, new)
  BY DEF G!DeleteRows
<1>2. r.op = "delete" /\ r.group \in Groups /\ r.all \in BOOLEAN
  BY <1>0, <1>1 DEF Fit, G!Request
<1>3. /\ new.op = "delete" /\ new.old = r.old /\ new.oldRows = r.oldRows /\ new.group = r.group
      /\ new.todo = r.todo /\ new.all = r.all /\ new.chunk = r.chunk
      /\ new.at = to
  <2> HIDE DEF to
  <2> QED
    BY <1>0, <1>2 DEF G!Request
<1> HIDE DEF new
<1>4. ChunkAt(c) /\ OtherGroups(c, s)
  BY <1>1, <1>2, AloneAtChunk DEF GroupsIInv, ChunkInv, G!Touched, G!Deletes
<1>5. gReq'[s] = new /\ \A t \in Actors \ {s} : gReq'[t] = gReq[t]
  BY <1>0, <1>1 DEF G!Go, G!TypeOK
<1>6. gRows \subseteq r.oldRows /\ bookmarks \subseteq r.old
  BY <1>2, <1>4 DEF ChunkAt, Young, G!Deletes
<1>7. bookmarks' = {b \in bookmarks : b[1] # r.group}
  BY <1>6 DEF G!DeleteRows
<1> PICK g \in Groups : g = r.group
  BY <1>2
<1>8. Marks(c)' = Marks(c) \ {g}
  BY <1>7 DEF Marks
<1>9. c \notin retagged => Kept(c) /\ (c \in r.todo <=> g \in Marks(c))
  BY <1>1, <1>2, <1>4 DEF ChunkAt, Agree, RequestAt, DeleteAt, G!Touched, G!Deletes
<1>10. c \notin gRows => Marks(c) = {}
  BY <1>0 DEF FitInv, Marks
<1>11. c \notin retagged => IF c \in r.todo THEN Less(c, g)' ELSE Kept(c)'
  BY <1>1, <1>8, <1>9, <1>10 DEF Less, Kept, Whole
<1>12. c \notin retagged => RequestAt(gReq[s], c)'
  BY <1>1, <1>2, <1>3, <1>5, <1>11 DEF RequestAt, DeleteAt
<1>13. c \in gRows' => point'[c] # None
  BY <1>1, <1>4 DEF ChunkAt, Present, OtherGroups
<1>14. c \in G!Touched(gReq'[s]) /\ ~(gReq'[s].at = "points" /\ gReq'[s].all)
  BY <1>2, <1>3, <1>5 DEF G!Touched, G!Deletes
<1>15. gRows' \subseteq gReq'[s].oldRows /\ bookmarks' \subseteq gReq'[s].old
  BY <1>1, <1>3, <1>5, <1>6, <1>7
<1> QED
  BY <1>0, <1>1, <1>4, <1>5, <1>12, <1>13, <1>14, <1>15, Reached

\* The chunks of the group go with it: first their rows.
LEMMA DeleteChunksStep ==
  ASSUME GroupsIInv, G!TypeOK', NEW s \in Actors, G!DeleteChunks(s)
  PROVE  ChunkInv'
<1> SUFFICES ASSUME NEW c \in G!Chunks, c \notin disturbed' PROVE ChunkAt(c)'
  BY DEF ChunkInv
<1> DEFINE r   == gReq[s]
           new == [r EXCEPT !.at = "points", !.todo = gRows \cap r.todo \cap r.oldRows]
<1>0. G!TypeOK /\ FitInv /\ r \in G!Request /\ Fit(r)
  BY RequestsAreFit DEF GroupsIInv
<1>1. /\ UNCHANGED <<point, arriving, worker, retagged, disturbed>>
      /\ r.at = "chunks"
  BY DEF G!DeleteChunks
<1>2. r.op = "delete" /\ r.group \in Groups /\ r.all
  BY <1>0, <1>1 DEF Fit, G!Request
<1>3. /\ new.op = "delete" /\ new.old = r.old /\ new.oldRows = r.oldRows
      /\ new.todo = gRows \cap r.todo \cap r.oldRows /\ new.all /\ new.at = "points"
  BY <1>0, <1>2 DEF G!Request
<1>4. ChunkAt(c) /\ OtherGroups(c, s)
  BY <1>1, <1>2, AloneAtChunk DEF GroupsIInv, ChunkInv, G!Touched, G!Deletes
<1>6. gRows \subseteq r.oldRows /\ bookmarks \subseteq r.old
  BY <1>2, <1>4 DEF ChunkAt, Young, G!Deletes
<1>7. /\ bookmarks' = {b \in bookmarks : b[2] \notin r.todo} /\ gRows' = gRows \ (r.todo \cap r.oldRows)
      /\ G!Go(s, new)
  <2>1. {b \in bookmarks : b[2] \in r.todo \cap r.oldRows /\ b \notin r.old} = {}
    BY <1>6
  <2>2. {b \in bookmarks : b[2] \notin r.todo \/ b \notin r.old} = {b \in bookmarks : b[2] \notin r.todo}
    BY <1>6
  <2> QED
    BY <2>1, <2>2 DEF G!DeleteChunks
<1> HIDE DEF new
<1>5. gReq'[s] = new /\ \A t \in Actors \ {s} : gReq'[t] = gReq[t]
  BY <1>0, <1>7 DEF G!Go, G!TypeOK
<1>8. c \notin r.todo => Marks(c)' = Marks(c) /\ (c \in gRows' <=> c \in gRows)
  BY <1>7 DEF Marks
<1>9. c \notin retagged => IF c \in r.todo THEN c \in gRows ELSE Kept(c)
  BY <1>1, <1>2, <1>4 DEF ChunkAt, Agree, RequestAt, DeleteAt, G!Touched, G!Deletes, Less, Whole
<1>10. c \notin retagged /\ c \notin r.todo => Kept(c)'
  BY <1>1, <1>8, <1>9 DEF Kept, Whole
<1>11. c \notin retagged => RequestAt(gReq[s], c)'
  BY <1>2, <1>3, <1>5, <1>6, <1>9, <1>10 DEF RequestAt, DeleteAt
<1>12. c \in gRows' => point'[c] # None
  BY <1>1, <1>4, <1>7 DEF ChunkAt, Present, OtherGroups
<1>13. c \in G!Touched(gReq'[s]) /\ (c \in gReq'[s].todo => c \notin gRows')
  BY <1>3, <1>5, <1>7 DEF G!Touched, G!Deletes
<1>14. gRows' \subseteq gReq'[s].oldRows /\ bookmarks' \subseteq gReq'[s].old
  BY <1>3, <1>5, <1>6, <1>7
<1> QED
  BY <1>0, <1>1, <1>4, <1>5, <1>11, <1>12, <1>13, <1>14, Reached

\* The points of deleted chunks go, or those of the others are taken one by one.
LEMMA DeletePointsStep ==
  ASSUME GroupsIInv, G!TypeOK', NEW s \in Actors, G!DeletePoints(s)
  PROVE  ChunkInv'
<1> SUFFICES ASSUME NEW c \in G!Chunks, c \notin disturbed' PROVE ChunkAt(c)'
  BY DEF ChunkInv
<1> DEFINE r == gReq[s]
<1>0. G!TypeOK /\ FitInv /\ r \in G!Request /\ Fit(r) /\ G!Idle.op = "none"
  BY RequestsAreFit DEF GroupsIInv, G!Idle
<1>1. /\ UNCHANGED <<gRows, bookmarks, arriving, worker, retagged, disturbed>>
      /\ r.at = "points"
  BY DEF G!DeletePoints
<1>2. r.op = "delete" /\ r.group \in Groups
  BY <1>0, <1>1 DEF Fit, G!Request
<1>3. ChunkAt(c) /\ OtherGroups(c, s)
  BY <1>1, <1>2, AloneAtChunk DEF GroupsIInv, ChunkInv, G!Touched, G!Deletes
<1>4. \A t \in Actors \ {s} : gReq'[t] = gReq[t]
  BY <1>0 DEF G!DeletePoints, G!Go, G!TypeOK
<1>5. c \notin retagged => RequestAt(r, c)
  BY <1>2, <1>3 DEF ChunkAt, Agree, G!Touched, G!Deletes
<1>6. c \in gRows => point[c] # None
  BY <1>3 DEF ChunkAt, Present, OtherGroups
<1>7. gRows \subseteq r.oldRows /\ bookmarks \subseteq r.old
  BY <1>2, <1>3 DEF ChunkAt, Young, G!Deletes
<1>8. Marks(c)' = Marks(c)
  BY <1>1 DEF Marks
<1>9. CASE r.all /\ point' = [d \in G!Chunks |-> IF d \in r.todo THEN None ELSE point[d]] /\ G!Go(s, G!Idle)
  <2>1. gReq'[s] = G!Idle
    BY <1>0, <1>9 DEF G!Go, G!TypeOK
  <2>2. c \in r.todo => c \notin gRows
    BY <1>1, <1>2, <1>3, <1>9 DEF ChunkAt, Present
  <2>3. c \notin retagged => Kept(c)'
    BY <1>1, <1>2, <1>5, <1>8, <1>9, <2>2 DEF RequestAt, DeleteAt, Kept, Whole
  <2>4. c \in gRows' => point'[c] # None
    BY <1>1, <1>6, <1>9, <2>2
  <2>5. c \notin G!Touched(gReq'[s]) /\ ~G!Deletes(gReq'[s])
    BY <1>0, <2>1 DEF G!Touched, G!Deletes
  <2> QED
    BY <1>0, <1>1, <1>3, <1>4, <2>3, <2>4, <2>5, Reached
<1>10. CASE ~r.all /\ r.todo = {} /\ G!Go(s, G!Idle) /\ UNCHANGED point
  <2>1. gReq'[s] = G!Idle
    BY <1>0, <1>10 DEF G!Go, G!TypeOK
  <2>2. c \notin retagged => Kept(c)'
    BY <1>1, <1>2, <1>5, <1>8, <1>10 DEF RequestAt, DeleteAt, Kept, Whole
  <2>3. c \notin G!Touched(gReq'[s]) /\ ~G!Deletes(gReq'[s])
    BY <1>0, <2>1 DEF G!Touched, G!Deletes
  <2>4. c \in gRows' => point'[c] # None
    BY <1>1, <1>6, <1>10
  <2> QED
    BY <1>0, <1>1, <1>3, <1>4, <2>2, <2>3, <2>4, Reached
<1>11. CASE /\ ~r.all /\ UNCHANGED point
            /\ \E d \in r.todo : G!Go(s, [r EXCEPT !.at = "read", !.todo = @ \ {d}, !.chunk = d])
  <2>1. PICK d \in r.todo : G!Go(s, [r EXCEPT !.at = "read", !.todo = @ \ {d}, !.chunk = d])
    BY <1>11
  <2> DEFINE new == [r EXCEPT !.at = "read", !.todo = @ \ {d}, !.chunk = d]
  <2>2. /\ new.op = "delete" /\ new.at = "read" /\ new.todo = r.todo \ {d} /\ new.chunk = d /\ ~new.all
        /\ new.old = r.old /\ new.oldRows = r.oldRows /\ new.group = r.group
    BY <1>0, <1>2, <1>11 DEF G!Request
  <2> HIDE DEF new
  <2>3. gReq'[s] = new
    BY <1>0, <2>1 DEF G!Go, G!TypeOK, new
  <2> PICK g \in Groups : g = r.group
    BY <1>2
  <2>4. c \notin retagged => IF c \in r.todo THEN Less(c, g) ELSE Kept(c)
    BY <1>1, <1>2, <1>5, <1>11 DEF RequestAt, DeleteAt
  <2>5. (Less(c, g)' <=> Less(c, g)) /\ (Kept(c)' <=> Kept(c))
    BY <1>1, <1>8, <1>11 DEF Less, Kept, Whole
  <2>6. c \notin retagged => RequestAt(gReq[s], c)'
    BY <2>2, <2>3, <2>4, <2>5 DEF RequestAt, DeleteAt
  <2>7. c \in gRows' => point'[c] # None
    BY <1>1, <1>6, <1>11
  <2>8. c \in G!Touched(gReq'[s]) /\ gReq'[s].at # "points"
    BY <2>2, <2>3 DEF G!Touched, G!Deletes
  <2>9. gRows' \subseteq gReq'[s].oldRows /\ bookmarks' \subseteq gReq'[s].old
    BY <1>1, <1>7, <2>2, <2>3
  <2> QED
    BY <1>0, <1>1, <1>3, <1>4, <2>6, <2>7, <2>8, <2>9, Reached
<1> QED
  BY <1>9, <1>10, <1>11 DEF G!DeletePoints

\* The row of a chunk, then its point: between the two nobody but the ingestion
\* is there.
LEMMA IngestStep ==
  ASSUME GroupsIInv, G!TypeOK', NEW d \in G!Chunks, G!IngestRow(d) \/ G!IngestPoint(d)
  PROVE  ChunkInv'
<1> SUFFICES ASSUME NEW c \in G!Chunks, c \notin disturbed' PROVE ChunkAt(c)'
  BY DEF ChunkInv
<1>0. G!TypeOK /\ FitInv
  BY DEF GroupsIInv
<1>1. CASE G!IngestRow(d)
  <2>1. PICK gs \in G!Lists :
          /\ d \notin gRows /\ gRows' = gRows \cup {d} /\ bookmarks' = bookmarks \cup {<<g, d>> : g \in G!Listed(gs)}
          /\ arriving' = [arriving EXCEPT ![d] = gs]
    BY <1>1, ListIsList DEF G!IngestRow
  <2>2. G!Start({d}) /\ UNCHANGED <<point, gReq, worker, retagged>>
    BY <1>1 DEF G!IngestRow
  <2>3. /\ c \notin disturbed /\ \A t \in Actors : ~G!Deletes(gReq[t])
        /\ c = d => arriving[c] = None /\ worker.msg = None /\ \A t \in Actors : c \notin G!Touched(gReq[t])
    BY <2>2, StartsAlone
  <2>4. ChunkAt(c)
    BY <2>3 DEF GroupsIInv, ChunkInv
  <2>5. CASE c # d
    <3>1. Marks(c)' = Marks(c)
      BY <2>1, <2>5 DEF Marks
    <3>2. SameGroups(c)
      BY <1>0, <2>1, <2>2, <2>5, <3>1 DEF SameGroups, G!TypeOK
    <3>3. \A t \in Actors : ~G!Deletes(gReq'[t])
      BY <2>2, <2>3
    <3> QED
      BY <1>0, <2>2, <2>4, <3>2, <3>3, NotReached
  <2>6. CASE c = d
    <3>1. Marks(c)' = G!Listed(gs)
      BY <1>0, <2>1, <2>6 DEF Marks, FitInv, G!Listed
    <3>2. c \in gRows' /\ arriving'[c] = gs /\ gs # None
      BY <1>0, <2>1, <2>6 DEF G!TypeOK
    <3>3. \A t \in Actors : c \notin G!Touched(gReq'[t]) /\ ~G!Deletes(gReq'[t])
      BY <2>2, <2>3, <2>6
    <3>4. Alone(c)' /\ Young' /\ Tagged(c)'
      BY <2>2, <2>3, <2>6, <3>3 DEF Alone, Young, Tagged, G!Touched, G!Deletes
    <3>5. Present(c)'
      BY <3>1, <3>2, <3>3 DEF Present, G!Deletes
    <3>6. Agree(c)'
      BY <3>2, <3>3 DEF Agree, G!Touched, G!Deletes
    <3> QED
      BY <3>4, <3>5, <3>6 DEF ChunkAt
  <2> QED
    BY <2>5, <2>6
<1>2. CASE G!IngestPoint(d)
  <2> DEFINE new == [of |-> d, groups |-> arriving[d], tags |-> G!TagsOf(arriving[d])]
  <2>1. /\ arriving[d] # None /\ arriving' = [arriving EXCEPT ![d] = None]
        /\ UNCHANGED <<gRows, bookmarks, gReq, worker, retagged, disturbed>>
    BY <1>2 DEF G!IngestPoint
  <2>2. point' = [point EXCEPT ![d] = new]
    BY <1>2 DEF G!IngestPoint
  <2>3. new.of = d /\ new.groups = arriving[d]
    OBVIOUS
  <2> HIDE DEF new
  <2>4. ChunkAt(c)
    BY <2>1 DEF GroupsIInv, ChunkInv
  <2>5. Marks(c)' = Marks(c)
    BY <2>1 DEF Marks
  <2>6. CASE c # d
    <3>1. SameGroups(c)
      BY <1>0, <2>1, <2>2, <2>5, <2>6 DEF SameGroups, G!TypeOK
    <3> QED
      BY <1>0, <2>1, <2>4, <3>1, NotReached
  <2>7. CASE c = d
    <3>1. /\ worker.msg = None /\ c \in gRows /\ G!Listed(arriving[c]) = Marks(c)
          /\ \A t \in Actors : c \notin G!Touched(gReq[t])
      BY <2>1, <2>4, <2>7 DEF ChunkAt, Alone, Present
    <3>2. arriving'[c] = None /\ point'[c] = new /\ point'[c] # None
      <4>1. arriving'[c] = None /\ point'[c] = new
        BY <1>0, <2>1, <2>2, <2>7 DEF G!TypeOK
      <4>2. new \in G!Payload
        <5>1. arriving[d] \in G!Lists
          BY <1>0, <2>1 DEF G!TypeOK
        <5>2. G!TagsOf(arriving[d]) \subseteq Tags
          BY <1>0 DEF G!TagsOf, G!Listed, G!GroupRow, G!Exists, G!TypeOK
        <5> QED
          BY <5>1, <5>2 DEF G!Payload, new
      <4> QED
        BY <4>1, <4>2
    <3>3. \A t \in Actors : c \notin G!Touched(gReq'[t]) /\ ~G!Deletes(gReq'[t])
      BY <2>1, <3>1 DEF G!Touched, G!Deletes
    <3>4. Alone(c)' /\ Young' /\ Tagged(c)'
      BY <2>1, <3>1, <3>2, <3>3 DEF Alone, Young, Tagged, G!Touched, G!Deletes
    <3>5. Present(c)'
      BY <3>2, <3>3 DEF Present, G!Deletes
    <3>6. Kept(c)'
      BY <2>1, <2>3, <2>5, <2>7, <3>1, <3>2 DEF Kept, Whole
    <3>7. Agree(c)'
      BY <3>3, <3>6 DEF Agree, G!Touched, G!Deletes
    <3> QED
      BY <3>4, <3>5, <3>7 DEF ChunkAt
  <2> QED
    BY <2>6, <2>7
<1> QED
  BY <1>1, <1>2

\* The worker takes a message, reads a page or is done: what it has passed is
\* replaced or about to be.
LEMMA WorkerStep ==
  ASSUME GroupsIInv, G!TypeOK', G!TakeUpdate \/ G!ReadPage \/ G!FinishUpdate \/ G!UpdateFails
  PROVE  ChunkInv'
<1> SUFFICES ASSUME NEW c \in G!Chunks, c \notin disturbed' PROVE ChunkAt(c)'
  BY DEF ChunkInv
<1>0. G!TypeOK /\ FitInv
  BY DEF GroupsIInv
<1>1. UNCHANGED <<gRows, bookmarks, point, arriving, gReq, retagged>>
  BY DEF G!TakeUpdate, G!ReadPage, G!FinishUpdate, G!UpdateFails
<1>2. SameGroups(c)
  BY <1>1 DEF SameGroups, Marks
<1>3. CASE G!TakeUpdate
  <2>1. G!Start(G!Chunks) /\ worker'.offset = 0
    BY <1>3 DEF G!TakeUpdate, G!Free
  <2>2. /\ c \notin disturbed /\ arriving[c] = None
        /\ \A t \in Actors : c \notin G!Touched(gReq[t]) /\ ~G!Deletes(gReq[t])
    BY <2>1, StartsAlone
  <2>3. ChunkAt(c)
    BY <2>2 DEF GroupsIInv, ChunkInv
  <2>4. Alone(c)' /\ Young'
    BY <1>1, <2>2 DEF Alone, Young, G!Touched, G!Deletes
  <2>5. Present(c)' /\ (c \notin retagged => Agree(c)')
    <3>1. Marks(c)' = Marks(c) /\ (Kept(c)' <=> Kept(c))
      BY <1>1 DEF Marks, Kept, Whole
    <3>2. Present(c)'
      BY <1>1, <2>2, <2>3, <3>1 DEF ChunkAt, Present, G!Deletes
    <3>3. c \notin retagged => Agree(c)'
      BY <1>1, <2>2, <2>3, <3>1 DEF ChunkAt, Agree, G!Touched, G!Deletes
    <3> QED
      BY <3>2, <3>3
  <2>6. Tagged(c)'
    BY <2>1 DEF Tagged, G!Chunks
  <2> QED
    BY <1>1, <2>4, <2>5, <2>6 DEF ChunkAt
<1>4. CASE G!FinishUpdate \/ G!UpdateFails
  <2>1. worker' = G!Free /\ disturbed' = disturbed /\ G!Free.msg = None
    BY <1>4 DEF G!FinishUpdate, G!UpdateFails, G!Free
  <2>2. ChunkAt(c) /\ Tagged(c)'
    BY <2>1 DEF GroupsIInv, ChunkInv, Tagged
  <2> QED
    BY <1>0, <1>1, <1>2, <2>1, <2>2, NotReached
<1>5. CASE G!ReadPage
  <2>1. /\ worker.msg # None /\ DOMAIN worker.todo = {} /\ G!Page # {}
        /\ worker' = [worker EXCEPT !.offset = G!Max(G!Page), !.todo = ZipOfPage]
        /\ disturbed' = IF FoundOnPage = G!Page THEN disturbed ELSE disturbed \cup G!Page
    BY <1>5 DEF G!ReadPage, FoundOnPage, ZippedOnPage, ZipOfPage
  <2>2. worker'.msg = worker.msg /\ worker'.offset = G!Max(G!Page) /\ worker'.todo = ZipOfPage /\ DOMAIN ZipOfPage = ZippedOnPage
    BY <1>0, <2>1 DEF G!TypeOK, ZipOfPage
  <2>3. ChunkAt(c)
    BY <2>1 DEF GroupsIInv, ChunkInv
  <2>4. Tagged(c)'
    <3> SUFFICES ASSUME c \in gRows, worker.msg.group \in Marks(c), c <= G!Max(G!Page)
                 PROVE  c \in ZippedOnPage \/ Replaced(c)'
      BY <1>1, <2>2 DEF Tagged, Marks
    <3>1. <<worker.msg.group, c>> \in bookmarks
      BY DEF Marks
    <3>2. CASE c > worker.offset
      <4>1. c \in G!Page
        BY <1>0, <2>1, <3>1, <3>2, PageIsFirst DEF G!After
      <4>2. ZippedOnPage = G!Page
        BY <1>0, <2>1, <4>1, ZipsAPage
      <4> QED
        BY <4>1, <4>2
    <3>3. CASE c <= worker.offset
      <4>1. Replaced(c)
        BY <2>1, <2>3, <3>3 DEF ChunkAt, Tagged
      <4> QED
        BY <1>1, <2>2, <4>1 DEF Replaced
    <3> QED
      BY <1>0, <3>2, <3>3 DEF G!TypeOK, G!Chunks
  <2> QED
    BY <1>0, <1>1, <1>2, <2>2, <2>3, <2>4, NotReached
<1> QED
  BY <1>3, <1>4, <1>5

\* The worker writes the next payload of its page.
LEMMA WriteBackStep ==
  ASSUME GroupsIInv, G!TypeOK', G!WritePayload
  PROVE  ChunkInv'
<1> SUFFICES ASSUME NEW c \in G!Chunks, c \notin disturbed' PROVE ChunkAt(c)'
  BY DEF ChunkInv
<1>0. G!TypeOK /\ FitInv
  BY DEF GroupsIInv
<1> DEFINE d == G!Min(DOMAIN worker.todo)
<1>1. /\ worker.msg # None /\ d \in DOMAIN worker.todo /\ d \in G!Chunks
      /\ UNCHANGED <<gRows, bookmarks, arriving, gReq, disturbed>>
  <2>1. DOMAIN worker.todo # {} /\ DOMAIN worker.todo \in SUBSET G!Chunks
    BY <1>0 DEF G!WritePayload, G!TypeOK
  <2>2. d \in DOMAIN worker.todo
    BY <2>1, FirstAndLastChunk
  <2> QED
    BY <2>1, <2>2 DEF G!WritePayload
<1>2. /\ point' = IF point[d] = None THEN point ELSE [point EXCEPT ![d] = G!NewPayload(worker.todo[d])]
      /\ retagged' = retagged \cup {d}
      /\ worker' = [worker EXCEPT !.todo = [k \in DOMAIN @ \ {d} |-> @[k]]]
  BY DEF G!WritePayload
<1> HIDE DEF d
<1>3. worker'.msg = worker.msg /\ worker'.offset = worker.offset /\ DOMAIN worker'.todo = DOMAIN worker.todo \ {d}
  BY <1>0, <1>2 DEF G!TypeOK
<1>4. ChunkAt(c)
  BY <1>1 DEF GroupsIInv, ChunkInv
<1>5. Marks(c)' = Marks(c)
  BY <1>1 DEF Marks
<1>6. CASE c # d
  <2>1. SameGroups(c)
    BY <1>0, <1>1, <1>2, <1>5, <1>6 DEF SameGroups, G!TypeOK
  <2>2. Tagged(c)'
    BY <1>1, <1>3, <1>4, <1>6, <2>1 DEF Tagged, Replaced, ChunkAt, SameGroups
  <2> QED
    BY <1>0, <1>1, <1>2, <1>3, <1>4, <2>1, <2>2, NotReached
<1>7. CASE c = d
  <2>1. arriving[c] = None /\ \A t \in Actors : c \notin G!Touched(gReq[t])
    BY <1>1, <1>4 DEF ChunkAt, Alone
  <2>2. c \in gRows => point[c] # None
    BY <1>4, <2>1 DEF ChunkAt, Present
  <2>3. worker.todo[d] \in G!Payload /\ worker.msg \in G!Update
    BY <1>0, <1>1 DEF G!TypeOK
  <2>4. c \in gRows => point'[c] = G!NewPayload(worker.todo[d])
    BY <1>0, <1>1, <1>2, <1>7, <2>2 DEF G!TypeOK
  <2>5. G!NewPayload(worker.todo[d]).tags = (worker.todo[d].tags \ worker.msg.prev) \cup worker.msg.new
    BY <2>3 DEF G!NewPayload, G!Payload
  <2>6. G!NewPayload(worker.todo[d]) \in G!Payload
    <3>1. G!ParsedIds(worker.todo[d].groups) \in G!Lists
      BY ListIsList DEF G!ParsedIds
    <3> QED
      BY <2>3, <3>1 DEF G!NewPayload, G!Payload, G!Update
  <2>7. Alone(c)' /\ Young'
    BY <1>1, <2>1 DEF Alone, Young, G!Touched, G!Deletes
  <2>8. Present(c)'
    BY <1>1, <2>1, <2>4, <2>6 DEF Present, G!Touched, G!Deletes
  <2>9. Tagged(c)'
    BY <1>1, <1>3, <2>4, <2>5 DEF Tagged, Replaced
  <2>10. c \in retagged'
    BY <1>2, <1>7
  <2> QED
    BY <2>7, <2>8, <2>9, <2>10 DEF ChunkAt
<1> QED
  BY <1>6, <1>7

\* At first rows and points agree, nobody is there.
LEMMA GroupsInit == G!Init => GroupsIInv
<1> SUFFICES ASSUME G!Init PROVE GroupsIInv
  OBVIOUS
<1>1. PICK have \in [G!Chunks -> {None, G!ListOf({})} \cup {G!ListOf({g}) : g \in Existing}] :
        /\ gRows = {c \in G!Chunks : have[c] # None}
        /\ bookmarks = {b \in Existing \X G!Chunks : have[b[2]] = G!ListOf({b[1]})}
        /\ point = [c \in G!Chunks |-> IF have[c] = None THEN None
                                       ELSE [of |-> c, groups |-> have[c], tags |-> {}]]
  BY DEF G!Init
<1>2. ASSUME NEW c \in G!Chunks, have[c] # None
      PROVE  \E gs \in SUBSET Existing : have[c] = G!ListOf(gs) /\ \A h, k \in gs : h = k
  <2>1. CASE have[c] = G!ListOf({})
    BY <2>1
  <2>2. CASE \E g \in Existing : have[c] = G!ListOf({g})
    <3>1. PICK g \in Existing : have[c] = G!ListOf({g})
      BY <2>2
    <3>2. {g} \in SUBSET Existing /\ \A h, k \in {g} : h = k
      OBVIOUS
    <3> QED
      BY <3>1, <3>2
  <2> QED
    BY <1>2, <2>1, <2>2
<1>3. ASSUME NEW c \in G!Chunks, have[c] # None PROVE have[c] \in G!Lists /\ point[c] \in G!Payload /\ point[c] # None
                                                       /\ point[c].of = c /\ point[c].groups = have[c]
  <2>1. point[c] = [of |-> c, groups |-> have[c], tags |-> {}] /\ have[c] \in G!Lists
    BY <1>1, <1>2, <1>3, ListIsList
  <2>2. [of |-> c, groups |-> have[c], tags |-> {}] \in G!Payload
    BY <2>1 DEF G!Payload
  <2> QED
    BY <2>1, <2>2
<1>4. point \in [G!Chunks -> G!Payload \cup {None}]
  BY <1>1, <1>3
<1>5. G!TypeOK
  <2>1. group \in [Groups -> G!GroupRow \cup {None}]
    BY DEF G!Init, G!GroupRow
  <2>2. /\ G!Free \in [msg : G!Update \cup {None}, offset : 0 .. GroupedChunks, todo : {G!Free.todo}]
        /\ DOMAIN G!Free.todo = {} /\ G!Free.todo \in [{} -> G!Payload]
    BY DEF G!Free
  <2>3. gRows \subseteq G!Chunks /\ bookmarks \subseteq Groups \X G!Chunks
    BY <1>1
  <2>4. /\ arriving \in [G!Chunks -> G!Lists \cup {None}] /\ gReq \in [Actors -> G!Request]
        /\ updates \in Seq(G!Update) /\ worker = G!Free
        /\ returned \subseteq Groups /\ disturbed \subseteq G!Chunks /\ retagged \subseteq G!Chunks
    BY IdleIsRequest DEF G!Init
  <2>5. gRequests \in 0 .. GroupRequests /\ gFailures \in 0 .. MaxFailures
    BY DEF G!Init
  <2> QED
    BY <1>4, <2>1, <2>2, <2>3, <2>4, <2>5 DEF G!TypeOK
<1>6. FitInv
  <2>1. \A b \in bookmarks : have[b[2]] # None /\ b[2] \in G!Chunks
    <3>1. ASSUME NEW gs PROVE G!ListOf(gs) # None
      BY ListIsList
    <3> QED
      BY <1>1, <3>1
  <2> QED
    BY <1>1, <2>1, IdleIsRequest DEF G!Init, FitInv
<1>7. /\ \A s \in Actors : gReq[s] = G!Idle
      /\ arriving = [c \in G!Chunks |-> None] /\ worker.msg = None
  BY DEF G!Init, G!Free
<1>8. \A s \in Actors : G!Touched(gReq[s]) = {} /\ ~G!Deletes(gReq[s])
  BY <1>7 DEF G!Touched, G!Deletes, G!Idle
<1>9. ASSUME NEW c \in G!Chunks PROVE ChunkAt(c)
  <2>1. Kept(c)
    <3>1. CASE have[c] = None
      BY <1>1, <3>1 DEF Kept
    <3>2. CASE have[c] # None
      <4>1. c \in gRows /\ Whole(c) /\ point[c].groups = have[c]
        BY <1>1, <1>3, <3>2 DEF Whole
      <4>2. G!Listed(have[c]) = Marks(c)
        <5>1. PICK gs \in SUBSET Existing : have[c] = G!ListOf(gs) /\ \A h, k \in gs : h = k
          BY <1>2, <3>2
        <5>2. G!Listed(have[c]) = gs
          BY <5>1, ListIsList
        <5>3. ASSUME NEW g \in Existing PROVE G!Listed(G!ListOf({g})) = {g}
          <6>1. G!Listed(G!ListOf({g})) = {g} \cap Groups
            BY ListIsList
          <6> QED
            BY <6>1
        <5>4. Marks(c) = {g \in Existing : have[c] = G!ListOf({g})}
          BY <1>1 DEF Marks
        <5>5. ASSUME NEW g \in gs PROVE gs = {g}
          BY <5>1
        <5> QED
          BY <5>1, <5>2, <5>3, <5>4, <5>5
      <4> QED
        BY <4>1, <4>2 DEF Kept
    <3> QED
      BY <3>1, <3>2
  <2>2. Alone(c) /\ Young /\ Tagged(c)
    BY <1>7, <1>8 DEF Alone, Young, Tagged
  <2>3. Present(c)
    BY <1>7, <1>8, <2>1 DEF Present, Kept, Whole, G!Deletes
  <2>4. Agree(c)
    BY <1>8, <2>1 DEF Agree
  <2> QED
    BY <2>2, <2>3, <2>4 DEF ChunkAt
<1> QED
  BY <1>5, <1>6, <1>9 DEF GroupsIInv, ChunkInv

\* No step breaks the types.
LEMMA StepTypes == G!TypeOK /\ FitInv /\ G!Next => G!TypeOK' /\ FitInv'
BY GroupsRoutesType, ChunkRoutesType, DeletionType, IngestType, WorkerType DEF G!Next

\* No step of the groups breaks their invariant.
LEMMA GroupsInvariant == GroupsIInv /\ [G!Next]_G!vars => GroupsIInv'
<1> SUFFICES ASSUME GroupsIInv, [G!Next]_G!vars PROVE GroupsIInv'
  OBVIOUS
<1>1. CASE G!Next
  <2>1. G!TypeOK' /\ FitInv'
    BY <1>1, StepTypes DEF GroupsIInv
  <2>2. ChunkInv'
    BY <1>1, <2>1, QuietStep, AddStep, RemoveStep, ReadStep, WriteStep, BeginDeleteStep, CollectGroupStep, DeleteRowsStep,
       DeleteChunksStep, DeletePointsStep, IngestStep, WorkerStep, WriteBackStep DEF G!Next
  <2> QED
    BY <2>1, <2>2 DEF GroupsIInv
<1>2. CASE UNCHANGED G!vars
  <2> USE <1>2 DEF G!vars
  <2>1. G!TypeOK' /\ FitInv'
    BY DEF GroupsIInv, G!TypeOK, FitInv
  <2>2. ASSUME NEW c \in G!Chunks, c \notin disturbed' PROVE ChunkAt(c)'
    <3>1. ChunkAt(c) /\ SameGroups(c)
      BY <2>2 DEF GroupsIInv, ChunkInv, SameGroups, Marks
    <3> QED
      BY <2>1, <3>1, NotReached DEF GroupsIInv
  <2> QED
    BY <2>1, <2>2 DEF GroupsIInv, ChunkInv
<1> QED
  BY <1>1, <1>2

\* Where nobody is at work, the invariant is the agreement of rows and points.
LEMMA AgreementLemma == GroupsIInv => G!StoresAgree
<1> SUFFICES ASSUME GroupsIInv, NEW c \in G!Settled \ retagged
             PROVE  IF c \in gRows
                    THEN point[c] # None /\ point[c].of = c /\ G!Listed(point[c].groups) = {g \in Groups : <<g, c>> \in bookmarks}
                    ELSE point[c] = None
  BY DEF G!StoresAgree
<1>1. c \in G!Chunks /\ c \notin disturbed /\ c \notin G!Busy
  BY DEF G!Settled
<1>2. arriving[c] = None /\ \A t \in Actors : c \notin G!Touched(gReq[t])
  BY <1>1, NotBusy
<1>3. Kept(c)
  BY <1>1, <1>2 DEF GroupsIInv, ChunkInv, ChunkAt, Agree
<1> QED
  BY <1>3 DEF Kept, Whole, Marks

\* When no chunk is left after the offset, every chunk of the group was passed.
LEMMA ReplacementLemma == GroupsIInv => G!ReplacesTags
<1> SUFFICES ASSUME GroupsIInv, G!FinishUpdate, NEW c \in gRows \ disturbed, <<worker.msg.group, c>> \in bookmarks
             PROVE  /\ worker.msg.new \subseteq point[c].tags
                    /\ worker.msg.prev \cap point[c].tags \subseteq worker.msg.new
  BY DEF G!ReplacesTags
<1>1. G!TypeOK /\ c \in G!Chunks /\ worker.msg # None /\ DOMAIN worker.todo = {} /\ G!Page = {}
  BY DEF GroupsIInv, G!TypeOK, G!FinishUpdate
<1>2. worker.msg.group \in Marks(c)
  BY <1>1 DEF Marks, G!TypeOK
<1>3. c \notin G!After
  BY <1>1, PageIsFirst
<1>4. c <= worker.offset
  BY <1>1, <1>3 DEF G!After, G!TypeOK, G!Chunks
<1>5. Replaced(c)
  BY <1>1, <1>2, <1>4 DEF GroupsIInv, ChunkInv, ChunkAt, Tagged
<1> QED
  BY <1>5 DEF Replaced

HIDE GroupConstants DEF G!GroupAssumption

--------------------------------------------------------------------------------
(* Batches of a bulk upload: the rows, the messages they came from and the points. *)

\* The constants of the batches are as BulkUpload assumes.
LEMMA BatchConstants == U!BatchAssumption
BY ServicesAssumption

\* The messages with content.
Filled == {m \in DOMAIN batch : ~batch[m].empty}

\* A row that this batch made, or one from before it.
OwnRow(r) == r.id \in U!ToInsert(Filled) /\ r.tracking = batch[r.id].tracking
OldRow(r) == r.id \in BatchTrackings /\ r.tracking = r.id

\* What is there at each step.
DataAt ==
  /\ uAt = "precompute" => data = {}
  /\ uAt \in {"pair", "insert", "collect", "embed", "refused", "done"} => data = Filled
  /\ uAt \in {"precompute", "pair", "insert"} => uReturned = {}
  /\ uAt # "panicked" /\ (uAt # "done" => points = {})
  /\ uAt \in {"pair"} => mode = "split"
  /\ uAt \in {"insert", "collect", "embed", "refused"} => mode # "split"

\* The rows have ids and tracking ids of their own; which of them are from before.
TableAt ==
  /\ \A r, q \in table : r.id = q.id \/ (r.tracking = q.tracking /\ r.tracking # None) => r = q
  /\ \A r \in table : OwnRow(r) \/ OldRow(r)
  /\ mode = "split" \/ (uAt \in {"precompute", "insert"} /\ (mode = "insert" \/ retries = 0)) =>
       \A r \in table : OldRow(r)
  /\ mode = "insert" => \A r \in table \ uReturned : OldRow(r)

\* Every returned row was made or updated by one message with its tracking id;
\* an upsert returns one for each message it inserts.
ReturnedAt ==
  /\ uReturned \subseteq table
  /\ \A r \in uReturned :
       /\ r.text \in U!ToInsert(Filled) /\ r.tracking = batch[r.text].tracking
       /\ mode = "insert" \/ r.tracking = None => r.id = r.text
  /\ mode = "upsert" /\ uAt \in {"collect", "embed", "done"} =>
       \A m \in U!ToInsert(Filled) : \E r \in uReturned : r.text = m

\* The messages kept are those retain kept, each with a row find found.
KeptAt ==
  uAt = "embed" \/ (uAt = "done" /\ mode # "split") =>
     /\ DOMAIN kept = {m \in Filled : U!Retained(m)}
     /\ \A m \in DOMAIN kept : kept[m] \in U!Found(m)

\* Where the points came from.
PointsAt == uAt = "done" =>
  IF mode = "split" THEN \A p \in points : p.row \in U!Ids ELSE points = U!WithVectors(kept, data)

\* The invariant of a batch.
BatchIInv == U!TypeOK /\ DataAt /\ TableAt /\ ReturnedAt /\ KeptAt /\ PointsAt /\ U!RefusedOnlyByOwnRow

\* Positions in a batch are counted as those in any list.
LEMMA EveryMessageRank ==
  ASSUME NEW ms \in SUBSET U!Ids
  PROVE  /\ Cardinality(ms) \in Nat /\ IsFiniteSet(ms)
         /\ \A i \in ms : U!Rank(ms, i) \in 0 .. Cardinality(ms) - 1
         /\ \A k \in 0 .. Cardinality(ms) - 1 : \E i \in ms : U!Rank(ms, i) = k
         /\ \A i, j \in ms : U!Rank(ms, i) = U!Rank(ms, j) => i = j
<1>1. MaxBatch \in Nat /\ ms \in SUBSET (1 .. MaxBatch)
  BY BatchConstants DEF U!BatchAssumption, U!Ids
<1>2. \A i : U!Rank(ms, i) = Position(ms, i)
  BY DEF U!Rank, Position, U!Cardinality, Cardinality
<1>3. Cardinality(ms) \in Nat /\ IsFiniteSet(ms)
  BY <1>1, PartsAreFinite
<1>4. /\ \A i \in ms : Position(ms, i) \in 0 .. Cardinality(ms) - 1
      /\ \A k \in 0 .. Cardinality(ms) - 1 : \E i \in ms : Position(ms, i) = k
      /\ \A i, j \in ms : Position(ms, i) = Position(ms, j) => i = j
  BY <1>1, EveryPosition
<1> QED
  BY <1>2, <1>3, <1>4

\* izip! of a part of a list with the whole: every element of the part finds
\* another one; of a list with itself, itself.
LEMMA ZipOfPart ==
  ASSUME NEW ms \in SUBSET U!Ids, NEW ks \in SUBSET ms
  PROVE  /\ \A k \in ks : \E m \in ms : <<k, m>> \in U!Zip(ks, ms)
         /\ \A z \in U!Zip(ms, ms) : z[1] = z[2]
         /\ U!Zip(ks, ms) \subseteq ks \X ms
<1>0. ms \in SUBSET U!Ids /\ ks \in SUBSET U!Ids
  OBVIOUS
<1>1. Cardinality(ks) \in Nat /\ Cardinality(ms) \in Nat /\ Cardinality(ks) <= Cardinality(ms)
  BY <1>0, EveryMessageRank, FS_Subset
<1>2. ASSUME NEW k \in ks PROVE \E m \in ms : <<k, m>> \in U!Zip(ks, ms)
  <2>1. U!Rank(ks, k) \in 0 .. Cardinality(ms) - 1
    <3>1. U!Rank(ks, k) \in 0 .. Cardinality(ks) - 1
      BY <1>0, EveryMessageRank
    <3> QED
      BY <1>1, <3>1
  <2>2. PICK m \in ms : U!Rank(ms, m) = U!Rank(ks, k)
    BY <1>0, <2>1, EveryMessageRank
  <2> QED
    BY <2>2 DEF U!Zip
<1>3. ASSUME NEW z \in U!Zip(ms, ms) PROVE z[1] = z[2]
  <2>1. z[1] \in ms /\ z[2] \in ms /\ U!Rank(ms, z[1]) = U!Rank(ms, z[2])
    BY DEF U!Zip
  <2> QED
    BY <1>0, <2>1, EveryMessageRank
<1> QED
  BY <1>2, <1>3 DEF U!Zip

\* What the statement inserts: every message without tracking id, and the
\* first one with each tracking id.
LEMMA Inserted ==
  ASSUME NEW ms \in SUBSET U!Ids
  PROVE  /\ U!ToInsert(ms) \subseteq ms
         /\ \A m \in ms : batch[m].tracking = None => m \in U!ToInsert(ms)
         /\ \A m \in ms : \E k \in U!ToInsert(ms) : batch[k].tracking = batch[m].tracking
         /\ \A m, k \in U!ToInsert(ms) : batch[m].tracking # None /\ batch[m].tracking = batch[k].tracking => m = k
<1> USE DEF U!ToInsert, U!Untracked, U!UniqueByTracking, U!Tracked
<1>1. ASSUME NEW m \in ms, batch[m].tracking # None
      PROVE  \E k \in U!ToInsert(ms) : batch[k].tracking = batch[m].tracking
  <2> DEFINE same == {k \in ms : batch[k].tracking = batch[m].tracking}
  <2>1. MaxBatch \in Nat /\ same \in SUBSET (1 .. MaxBatch) /\ same # {}
    BY BatchConstants DEF U!BatchAssumption, U!Ids
  <2>2. PICK k \in same : \A j \in same : k <= j
    <3> HIDE DEF same
    <3> QED
      BY <2>1, FirstAndLast
  <2>3. k \in U!ToInsert(ms)
    BY <1>1, <2>2
  <2> QED
    BY <2>2, <2>3
<1>2. ASSUME NEW m \in U!ToInsert(ms), NEW k \in U!ToInsert(ms), batch[m].tracking # None,
             batch[m].tracking = batch[k].tracking
      PROVE  m = k
  <2>1. m <= k /\ k <= m /\ m \in U!Ids /\ k \in U!Ids
    BY <1>2
  <2>2. m \in Int /\ k \in Int
    BY <2>1 DEF U!Ids
  <2> QED
    BY <2>1, <2>2
<1> QED
  BY <1>1, <1>2

\* The messages with content.
LEMMA FilledIds == U!TypeOK => Filled \in SUBSET U!Ids /\ Filled \subseteq DOMAIN batch
BY DEF U!TypeOK, Filled

\* An id of a message is none of an earlier row.
LEMMA OwnOrOld ==
  ASSUME U!TypeOK, TableAt, NEW r \in table
  PROVE  /\ r.id \in U!Ids => OwnRow(r) /\ ~OldRow(r) /\ r.tracking = batch[r.id].tracking
         /\ r.id \notin U!Ids => OldRow(r)
         /\ r \in U!Row
<1>1. U!ToInsert(Filled) \subseteq U!Ids
  BY FilledIds, Inserted
<1> QED
  BY <1>1, BatchConstants DEF TableAt, OwnRow, OldRow, U!TypeOK, U!BatchAssumption

\* The row of a message that is inserted.
LEMMA AsRowIsRow ==
  ASSUME U!TypeOK, NEW m \in DOMAIN batch
  PROVE  U!AsRow(m) \in U!Row /\ U!AsRow(m).id = m /\ U!AsRow(m).tracking = batch[m].tracking /\ U!AsRow(m).text = m
<1>1. m \in U!Ids /\ batch[m].tracking \in BatchTrackings \cup {None}
  BY DEF U!TypeOK, U!Message
<1> QED
  BY <1>1 DEF U!AsRow, U!Row

\* The row of a message that is upserted: its own, or the old one with its text.
LEMMA UpsertedIsRow ==
  ASSUME U!TypeOK, NEW m \in DOMAIN batch
  PROVE  /\ U!Upserted(m) \in U!Row /\ U!Upserted(m).text = m /\ U!Upserted(m).tracking = batch[m].tracking
         /\ \/ U!Upserted(m).id = m /\ \A r \in table : ~U!SameTracking(r, m)
            \/ \E r \in table : U!SameTracking(r, m) /\ U!Upserted(m).id = r.id
<1> DEFINE old == {r \in table : U!SameTracking(r, m)}
<1>1. CASE old = {}
  BY <1>1, AsRowIsRow DEF U!Upserted
<1>2. CASE old # {}
  <2> DEFINE o == CHOOSE r \in old : TRUE
  <2>1. o \in old
    BY <1>2
  <2>2. U!Upserted(m) = [o EXCEPT !.text = m]
    BY <1>2 DEF U!Upserted
  <2> HIDE DEF o
  <2>3. o \in U!Row /\ o \in table /\ o.tracking = batch[m].tracking /\ m \in U!Ids
    BY <2>1 DEF U!TypeOK, U!SameTracking
  <2> QED
    BY <2>1, <2>2, <2>3 DEF U!Row
<1> QED
  BY <1>1, <1>2

\* At first the table has rows from before the batch only.
LEMMA BatchInit == U!Init => BatchIInv
<1> SUFFICES ASSUME U!Init PROVE BatchIInv
  OBVIOUS
<1> USE BatchConstants DEF U!BatchAssumption
<1>1. PICK n \in 1 .. MaxBatch : batch \in [1 .. n -> U!Message]
  BY DEF U!Init
<1>2. PICK old \in SUBSET BatchTrackings : table = {[id |-> t, tracking |-> t, text |-> t] : t \in old}
  BY DEF U!Init
<1>3. DOMAIN batch \subseteq U!Ids /\ batch \in [DOMAIN batch -> U!Message]
  BY <1>1 DEF U!Ids
<1>4. \A r \in table : r \in U!Row /\ OldRow(r) /\ r.tracking # None
  BY <1>2 DEF U!Row, OldRow
<1>5. \A r, q \in table : r.id = q.id \/ r.tracking = q.tracking => r = q
  BY <1>2
<1>6. U!TypeOK
  BY <1>3, <1>4 DEF U!Init, U!TypeOK
<1>7. TableAt
  BY <1>4, <1>5 DEF U!Init, TableAt
<1> QED
  BY <1>6, <1>7 DEF U!Init, BatchIInv, DataAt, ReturnedAt, KeptAt, PointsAt, U!RefusedOnlyByOwnRow

\* The messages without content are dropped.
LEMMA PrecomputeStep == BatchIInv /\ U!Precompute => BatchIInv'
<1> SUFFICES ASSUME BatchIInv, U!Precompute PROVE BatchIInv'
  OBVIOUS
<1>1. /\ uAt = "precompute" /\ data' = Filled /\ uAt' \in {"pair", "insert"}
      /\ uAt' = "pair" <=> mode = "split"
      /\ UNCHANGED <<mode, batch, table, uReturned, kept, points, retries>>
  BY DEF U!Precompute, Filled
<1>2. U!TypeOK /\ uReturned = {} /\ Filled \subseteq DOMAIN batch /\ TableAt /\ ReturnedAt
  BY <1>1, FilledIds DEF BatchIInv, DataAt
<1>3. Filled' = Filled /\ (U!ToInsert(Filled))' = U!ToInsert(Filled)
  BY <1>1 DEF Filled, U!ToInsert, U!Tracked, U!Untracked, U!UniqueByTracking
<1>4. DOMAIN kept = {}
  BY <1>1 DEF BatchIInv, DataAt, U!TypeOK
<1>5. U!TypeOK'
  BY <1>1, <1>2, <1>4 DEF U!TypeOK
<1>6. TableAt'
  BY <1>1, <1>2, <1>3 DEF TableAt, OwnRow, OldRow
<1>7. ReturnedAt'
  BY <1>1, <1>2 DEF ReturnedAt
<1> QED
  BY <1>1, <1>2, <1>3, <1>5, <1>6, <1>7 DEF BatchIInv, DataAt, KeptAt, PointsAt, U!RefusedOnlyByOwnRow

\* What a step leaves alone.
LEMMA SameLists ==
  ASSUME UNCHANGED batch
  PROVE  /\ Filled' = Filled
         /\ \A ms : U!ToInsert(ms)' = U!ToInsert(ms)
         /\ \A r : (OwnRow(r)' <=> OwnRow(r)) /\ (OldRow(r)' <=> OldRow(r))
BY DEF Filled, U!ToInsert, U!Tracked, U!Untracked, U!UniqueByTracking, OwnRow, OldRow

\* The other way ends with points of new rows.
LEMMA PairUpStep == BatchIInv /\ U!PairUp => BatchIInv'
<1> SUFFICES ASSUME BatchIInv, U!PairUp PROVE BatchIInv'
  OBVIOUS
<1>1. /\ uAt = "pair" /\ uAt' = "done" /\ mode = "split"
      /\ points' = {[row |-> z[1], text |-> z[1], msg |-> z[1], vector |-> z[2]] :
                      z \in {y \in U!Zip(DOMAIN batch, data) : ~batch[y[1]].empty}}
      /\ UNCHANGED <<mode, batch, table, data, uReturned, kept, retries>>
  BY DEF U!PairUp, BatchIInv, DataAt
<1>2. U!TypeOK /\ uReturned = {} /\ data = Filled /\ TableAt /\ ReturnedAt
  BY <1>1 DEF BatchIInv, DataAt
<1>3. \A p \in points' : p \in U!Point /\ p.row \in U!Ids
  <2>1. \A z \in U!Zip(DOMAIN batch, data) : z[1] \in U!Ids /\ z[2] \in U!Ids
    BY <1>2 DEF U!Zip, U!TypeOK
  <2> QED
    BY <1>1, <2>1 DEF U!Point
<1>4. U!TypeOK'
  BY <1>1, <1>2, <1>3 DEF U!TypeOK
<1>5. TableAt' /\ ReturnedAt'
  BY <1>1, <1>2, SameLists DEF TableAt, ReturnedAt
<1>6. PointsAt'
  BY <1>1, <1>3 DEF PointsAt, U!Ids
<1> QED
  BY <1>1, <1>2, <1>4, <1>5, <1>6, SameLists DEF BatchIInv, DataAt, KeptAt, U!RefusedOnlyByOwnRow

\* An insert: rows have ids and tracking ids of their own, and the returned ones
\* are those of their messages.
LEMMA InsertNewStep == BatchIInv /\ U!Insert /\ mode = "insert" => BatchIInv'
<1> SUFFICES ASSUME BatchIInv, U!Insert, mode = "insert" PROVE BatchIInv'
  OBVIOUS
<1> DEFINE new == {m \in U!ToInsert(data) : \A r \in table : r.id # m /\ ~U!SameTracking(r, m)}
<1>1. /\ uAt = "insert" /\ uAt' = "collect" /\ uReturned' = {U!AsRow(m) : m \in new} /\ table' = table \cup uReturned'
      /\ UNCHANGED <<mode, batch, data, kept, points, retries>>
  BY DEF U!Insert, U!InsertNew
<1>2. U!TypeOK /\ data = Filled /\ TableAt /\ U!ToInsert(data) \subseteq data /\ data \subseteq DOMAIN batch
      /\ data \in SUBSET U!Ids
  BY <1>1, FilledIds, Inserted DEF BatchIInv, DataAt
<1>3. ASSUME NEW r \in uReturned'
      PROVE  /\ r \in U!Row /\ r.id \in new /\ r.tracking = batch[r.id].tracking /\ r.text = r.id
  <2>1. PICK m \in new : r = U!AsRow(m)
    BY <1>1
  <2>2. m \in DOMAIN batch
    BY <1>2
  <2> QED
    BY <1>2, <2>1, <2>2, AsRowIsRow
<1>4. U!TypeOK'
  BY <1>1, <1>2, <1>3 DEF U!TypeOK
<1>5. \A r, q \in uReturned' : r.id = q.id \/ (r.tracking = q.tracking /\ r.tracking # None) => r = q
  <2> SUFFICES ASSUME NEW r \in uReturned', NEW q \in uReturned',
                      r.id = q.id \/ (r.tracking = q.tracking /\ r.tracking # None)
               PROVE  r = q
    OBVIOUS
  <2>1. r.id = q.id
    BY <1>2, <1>3, Inserted
  <2>2. r = U!AsRow(r.id) /\ q = U!AsRow(q.id)
    BY <1>1, <1>2, <1>3, AsRowIsRow
  <2> QED
    BY <2>1, <2>2
<1>6. \A r \in table, q \in uReturned' : r.id # q.id /\ ~(r.tracking = q.tracking /\ r.tracking # None)
  BY <1>3 DEF U!SameTracking
<1>7. \A r, q \in table' : r.id = q.id \/ (r.tracking = q.tracking /\ r.tracking # None) => r = q
  BY <1>1, <1>2, <1>5, <1>6 DEF TableAt
<1>8. TableAt'
  BY <1>1, <1>2, <1>3, <1>7, SameLists DEF TableAt, OwnRow
<1>9. ReturnedAt'
  BY <1>1, <1>2, <1>3, SameLists DEF ReturnedAt
<1> QED
  BY <1>1, <1>2, <1>4, <1>8, <1>9, SameLists DEF BatchIInv, DataAt, KeptAt, PointsAt, U!RefusedOnlyByOwnRow

\* An upsert: refused only for a row without tracking id that is there; otherwise
\* the returned rows keep ids and tracking ids unique.
LEMMA UpsertStep == BatchIInv /\ U!Insert /\ mode = "upsert" => BatchIInv'
<1> SUFFICES ASSUME BatchIInv, U!Insert, mode = "upsert" PROVE BatchIInv'
  OBVIOUS
<1> DEFINE new == U!ToInsert(data)
<1>0. /\ uAt = "insert" /\ UNCHANGED <<mode, batch, data, kept, points, retries>>
      /\ IF U!Refused(new)
         THEN uAt' = "refused" /\ UNCHANGED <<table, uReturned>>
         ELSE /\ uReturned' = {U!Upserted(m) : m \in new}
              /\ table' = {r \in table : \A m \in new : ~U!SameTracking(r, m)} \cup uReturned'
              /\ uAt' = "collect"
  BY DEF U!Insert, U!InsertOrUpdate
<1>1. U!TypeOK /\ data = Filled /\ TableAt /\ ReturnedAt /\ new \subseteq data /\ data \subseteq DOMAIN batch
      /\ data \in SUBSET U!Ids /\ uReturned = {}
  BY <1>0, FilledIds, Inserted DEF BatchIInv, DataAt
<1>2. \A m, k \in new : batch[m].tracking # None /\ batch[m].tracking = batch[k].tracking => m = k
  BY <1>1, Inserted
<1>3. CASE U!Refused(new)
  <2>1. PICK m \in new, r \in table : r.id = m /\ ~U!SameTracking(r, m)
    BY <1>2, <1>3 DEF U!Refused
  <2>2. r.id \in U!Ids
    BY <1>1, <2>1
  <2>3. OwnRow(r) /\ ~OldRow(r) /\ r.tracking = batch[m].tracking
    BY <1>1, <2>1, <2>2, OwnOrOld
  <2>4. batch[m].tracking = None /\ m \in data
    BY <1>1, <2>1, <2>3 DEF U!SameTracking
  <2>5. retries # 0
    BY <1>0, <1>1, <2>3 DEF TableAt
  <2>6. U!TypeOK'
    BY <1>0, <1>1, <1>3 DEF U!TypeOK
  <2>7. U!RefusedOnlyByOwnRow'
    BY <1>0, <1>1, <2>4, <2>5 DEF U!RefusedOnlyByOwnRow, U!TypeOK
  <2>8. TableAt' /\ ReturnedAt'
    BY <1>0, <1>1, <1>3, SameLists DEF TableAt, ReturnedAt
  <2> QED
    BY <1>0, <1>1, <1>3, <2>6, <2>7, <2>8, SameLists DEF BatchIInv, DataAt, KeptAt, PointsAt
<1>4. CASE ~U!Refused(new)
  <2>0. /\ uReturned' = {U!Upserted(m) : m \in new} /\ uAt' = "collect"
        /\ table' = {r \in table : \A m \in new : ~U!SameTracking(r, m)} \cup uReturned'
    BY <1>0, <1>4
  <2>1. ASSUME NEW m \in new
        PROVE  /\ U!Upserted(m) \in U!Row /\ U!Upserted(m).text = m /\ U!Upserted(m).tracking = batch[m].tracking
               /\ \/ U!Upserted(m).id = m /\ \A r \in table : ~U!SameTracking(r, m)
                  \/ \E r \in table : U!SameTracking(r, m) /\ U!Upserted(m).id = r.id
    BY <1>1, UpsertedIsRow
  <2>2. \A m \in new, r \in table : r.id = m => U!SameTracking(r, m)
    BY <1>4 DEF U!Refused
  <2>3. ASSUME NEW m \in new, NEW k \in new, U!Upserted(m).id = U!Upserted(k).id PROVE m = k
    <3>1. CASE U!Upserted(m).id = m /\ U!Upserted(k).id = k
      BY <2>3, <3>1
    <3>2. CASE \E r \in table : U!SameTracking(r, m) /\ U!Upserted(m).id = r.id
      <4>1. PICK r \in table : U!SameTracking(r, m) /\ U!Upserted(m).id = r.id
        BY <3>2
      <4>2. U!SameTracking(r, k)
        <5>1. CASE U!Upserted(k).id = k
          BY <2>2, <2>3, <4>1, <5>1
        <5>2. CASE \E q \in table : U!SameTracking(q, k) /\ U!Upserted(k).id = q.id
          BY <1>1, <2>3, <4>1, <5>2 DEF TableAt
        <5> QED
          BY <2>1, <5>1, <5>2
      <4> QED
        BY <1>2, <4>1, <4>2 DEF U!SameTracking
    <3>3. CASE \E r \in table : U!SameTracking(r, k) /\ U!Upserted(k).id = r.id
      <4>1. PICK r \in table : U!SameTracking(r, k) /\ U!Upserted(k).id = r.id
        BY <3>3
      <4>2. U!SameTracking(r, m)
        <5>1. CASE U!Upserted(m).id = m
          BY <2>2, <2>3, <4>1, <5>1
        <5>2. CASE \E q \in table : U!SameTracking(q, m) /\ U!Upserted(m).id = q.id
          BY <1>1, <2>3, <4>1, <5>2 DEF TableAt
        <5> QED
          BY <2>1, <5>1, <5>2
      <4> QED
        BY <1>2, <4>1, <4>2 DEF U!SameTracking
    <3> QED
      BY <2>1, <3>1, <3>2, <3>3
  <2>4. \A r, q \in uReturned' : r.id = q.id \/ (r.tracking = q.tracking /\ r.tracking # None) => r = q
    <3> SUFFICES ASSUME NEW m \in new, NEW k \in new,
                        \/ U!Upserted(m).id = U!Upserted(k).id
                        \/ U!Upserted(m).tracking = U!Upserted(k).tracking /\ U!Upserted(m).tracking # None
                 PROVE  m = k
      BY <2>0
    <3> QED
      BY <1>2, <2>1, <2>3
  <2>5. ASSUME NEW r \in table, \A m \in new : ~U!SameTracking(r, m), NEW m \in new
        PROVE  r.id # U!Upserted(m).id /\ ~(r.tracking = U!Upserted(m).tracking /\ r.tracking # None)
    <3>1. r.id # U!Upserted(m).id
      <4>1. CASE U!Upserted(m).id = m
        BY <2>2, <2>5, <4>1
      <4>2. CASE \E q \in table : U!SameTracking(q, m) /\ U!Upserted(m).id = q.id
        BY <1>1, <2>5, <4>2 DEF TableAt
      <4> QED
        BY <2>1, <4>1, <4>2
    <3>2. ~(r.tracking = U!Upserted(m).tracking /\ r.tracking # None)
      BY <2>1, <2>5 DEF U!SameTracking
    <3> QED
      BY <3>1, <3>2
  <2>6. \A r, q \in table' : r.id = q.id \/ (r.tracking = q.tracking /\ r.tracking # None) => r = q
    <3>1. \A r \in table', q \in uReturned' :
            r.id = q.id \/ (r.tracking = q.tracking /\ r.tracking # None) => r = q
      <4> SUFFICES ASSUME NEW r \in table', NEW q \in uReturned',
                          r.id = q.id \/ (r.tracking = q.tracking /\ r.tracking # None)
                   PROVE  r = q
        OBVIOUS
      <4>1. CASE r \in uReturned'
        BY <2>4, <4>1
      <4>2. CASE r \in table /\ \A m \in new : ~U!SameTracking(r, m)
        BY <2>0, <2>5, <4>2
      <4> QED
        BY <2>0, <4>1, <4>2
    <3> QED
      BY <1>1, <2>0, <3>1 DEF TableAt
  <2>7. ASSUME NEW m \in new PROVE OwnRow(U!Upserted(m)) \/ OldRow(U!Upserted(m))
    <3>1. CASE U!Upserted(m).id = m
      BY <1>1, <2>1, <3>1 DEF OwnRow
    <3>2. CASE \E r \in table : U!SameTracking(r, m) /\ U!Upserted(m).id = r.id
      BY <1>1, <2>1, <3>2 DEF TableAt, OwnRow, OldRow, U!SameTracking
    <3> QED
      BY <2>1, <3>1, <3>2
  <2>8. U!TypeOK'
    BY <1>0, <1>1, <2>0, <2>1 DEF U!TypeOK
  <2>9. TableAt'
    BY <1>0, <1>1, <2>0, <2>6, <2>7, SameLists DEF TableAt
  <2>10. ReturnedAt'
    <3>1. \A m \in new : batch[m].tracking = None => U!Upserted(m).id = m
      BY <2>1 DEF U!SameTracking
    <3> QED
      BY <1>0, <1>1, <2>0, <2>1, <3>1, SameLists DEF ReturnedAt
  <2> QED
    BY <1>0, <1>1, <2>0, <2>8, <2>9, <2>10, SameLists DEF BatchIInv, DataAt, KeptAt, PointsAt, U!RefusedOnlyByOwnRow
<1> QED
  BY <1>3, <1>4

\* A message that retain keeps has a row for find.
LEMMA KeptRows ==
  ASSUME BatchIInv, uAt = "collect", NEW m \in Filled, U!Retained(m)
  PROVE  U!Found(m) # {}
<1>1. PICK r \in uReturned : r.id = m \/ (mode = "upsert" /\ r.tracking = batch[m].tracking)
  BY DEF U!Retained
<1>2. CASE r.id = m \/ batch[m].tracking # None
  BY <1>1, <1>2 DEF U!Found, U!SameTracking
<1>3. CASE r.id # m /\ batch[m].tracking = None
  <2>1. m \in U!ToInsert(Filled)
    BY <1>3, FilledIds, Inserted DEF BatchIInv
  <2>2. PICK q \in uReturned : q.text = m
    BY <1>1, <1>3, <2>1 DEF BatchIInv, ReturnedAt
  <2>3. q.id = m
    BY <1>3, <2>2 DEF BatchIInv, ReturnedAt
  <2> QED
    BY <2>3 DEF U!Found
<1> QED
  BY <1>2, <1>3

\* Every message that is kept gets a row that was found.
LEMMA CollectRowsStep == BatchIInv /\ U!Collect => BatchIInv'
<1> SUFFICES ASSUME BatchIInv, U!Collect PROVE BatchIInv'
  OBVIOUS
<1> DEFINE retained == {m \in data : U!Retained(m)}
<1>1. uAt = "collect" /\ UNCHANGED <<mode, batch, table, data, uReturned, points, retries>>
  BY DEF U!Collect
<1>2. U!TypeOK /\ data = Filled /\ points = {} /\ TableAt /\ ReturnedAt /\ mode # "split"
  BY <1>1 DEF BatchIInv, DataAt
<1>3. \A m \in retained : U!Found(m) # {}
  BY <1>1, <1>2, KeptRows
<1>4. /\ kept' = [m \in retained |-> CHOOSE r \in U!Found(m) : TRUE]
      /\ uAt' = IF retained = {} THEN "done" ELSE "embed"
  BY <1>3 DEF U!Collect
<1>5. \A m \in retained : kept'[m] \in U!Found(m)
  BY <1>3, <1>4
<1>6. DOMAIN kept' = retained /\ kept' = [m \in DOMAIN kept' |-> kept'[m]]
  BY <1>4
<1>7. \A m \in retained : kept'[m] \in U!Row
  BY <1>2, <1>5 DEF U!Found, U!TypeOK
<1>8. U!TypeOK'
  <2>1. kept' \in [DOMAIN kept' -> U!Row]
    BY <1>6, <1>7
  <2> QED
    BY <1>1, <1>2, <1>4, <1>6, <2>1 DEF U!TypeOK
<1>9. \A m : (U!Found(m)' = U!Found(m)) /\ (U!Retained(m)' <=> U!Retained(m))
  BY <1>1 DEF U!Found, U!Retained, U!SameTracking
<1>10. KeptAt'
  BY <1>1, <1>2, <1>5, <1>6, <1>9, SameLists DEF KeptAt
<1>11. PointsAt'
  <2>1. retained = {} => U!WithVectors(kept', data') = {}
    BY <1>6 DEF U!WithVectors, U!Zip
  <2> QED
    BY <1>1, <1>2, <1>4, <2>1 DEF PointsAt, U!WithVectors
<1>12. TableAt' /\ ReturnedAt'
  BY <1>1, <1>2, <1>4, SameLists DEF TableAt, ReturnedAt
<1>13. DataAt' /\ U!RefusedOnlyByOwnRow'
  BY <1>1, <1>2, <1>4, SameLists DEF DataAt, U!RefusedOnlyByOwnRow
<1> QED
  BY <1>8, <1>10, <1>11, <1>12, <1>13 DEF BatchIInv

\* Everything starts over; only an upsert leaves its rows.
LEMMA EmbedFailsStep == BatchIInv /\ U!EmbedFails => BatchIInv'
<1> SUFFICES ASSUME BatchIInv, U!EmbedFails PROVE BatchIInv'
  OBVIOUS
<1>1. /\ uAt = "embed" /\ uAt' = "precompute" /\ retries < MaxRetries /\ retries' = retries + 1
      /\ table' = IF mode = "insert" THEN table \ uReturned ELSE table
      /\ data' = {} /\ uReturned' = {} /\ kept' = << >> /\ UNCHANGED <<mode, batch, points>>
  BY DEF U!EmbedFails
<1>2. U!TypeOK /\ points = {} /\ TableAt /\ ReturnedAt /\ mode # "split" /\ MaxRetries \in Nat
  BY <1>1, BatchConstants DEF BatchIInv, DataAt, U!BatchAssumption
<1>3. retries' \in 0 .. MaxRetries /\ retries' # 0
  BY <1>1, <1>2 DEF U!TypeOK
<1>4. U!TypeOK'
  BY <1>1, <1>2, <1>3 DEF U!TypeOK
<1>5. TableAt'
  BY <1>1, <1>2, <1>3, SameLists DEF TableAt
<1> QED
  BY <1>1, <1>2, <1>4, <1>5, SameLists DEF BatchIInv, DataAt, ReturnedAt, KeptAt, PointsAt, U!RefusedOnlyByOwnRow

\* The points are made of what was kept.
LEMMA BuildPointsStep == BatchIInv /\ U!BuildPoints => BatchIInv'
<1> SUFFICES ASSUME BatchIInv, U!BuildPoints PROVE BatchIInv'
  OBVIOUS
<1>1. /\ uAt = "embed" /\ uAt' = "done" /\ points' = U!WithVectors(kept, data)
      /\ UNCHANGED <<mode, batch, table, data, uReturned, kept, retries>>
  BY DEF U!BuildPoints
<1>2. U!TypeOK /\ data = Filled /\ TableAt /\ ReturnedAt /\ KeptAt /\ mode # "split"
  BY <1>1 DEF BatchIInv, DataAt
<1>3. \A z \in U!Zip(DOMAIN kept, data) : z[1] \in U!Ids /\ z[2] \in U!Ids /\ kept[z[1]] \in U!Row
  BY <1>2 DEF U!Zip, U!TypeOK
<1>4. points' \subseteq U!Point
  BY <1>1, <1>3 DEF U!WithVectors, U!Point, U!Row
<1>5. U!TypeOK'
  BY <1>1, <1>2, <1>4 DEF U!TypeOK
<1>6. \A m : (U!Found(m)' = U!Found(m)) /\ (U!Retained(m)' <=> U!Retained(m))
  BY <1>1 DEF U!Found, U!Retained, U!SameTracking
<1>7. KeptAt'
  BY <1>1, <1>2, <1>6, SameLists DEF KeptAt
<1>8. PointsAt'
  BY <1>1, <1>2 DEF PointsAt, U!WithVectors
<1> QED
  BY <1>1, <1>2, <1>5, <1>7, <1>8, SameLists DEF BatchIInv, DataAt, TableAt, ReturnedAt, U!RefusedOnlyByOwnRow

\* Nothing happens.
LEMMA BatchIdleStep == BatchIInv /\ UNCHANGED U!vars => BatchIInv'
<1> SUFFICES ASSUME BatchIInv, UNCHANGED U!vars PROVE BatchIInv'
  OBVIOUS
<1>1. \A m : (U!Found(m)' = U!Found(m)) /\ (U!Retained(m)' <=> U!Retained(m))
  BY DEF U!Found, U!Retained, U!SameTracking, U!vars
<1>2. U!TypeOK'
  BY DEF BatchIInv, U!TypeOK, U!vars
<1>3. KeptAt'
  BY <1>1, SameLists DEF BatchIInv, KeptAt, U!vars
<1>4. PointsAt'
  BY DEF BatchIInv, PointsAt, U!WithVectors, U!vars
<1>5. TableAt' /\ ReturnedAt' /\ DataAt' /\ U!RefusedOnlyByOwnRow'
  BY SameLists DEF BatchIInv, TableAt, ReturnedAt, DataAt, U!RefusedOnlyByOwnRow, U!vars
<1> QED
  BY <1>2, <1>3, <1>4, <1>5 DEF BatchIInv

\* No step of a batch breaks its invariant.
LEMMA BatchInvariant == BatchIInv /\ [U!Next]_U!vars => BatchIInv'
<1> SUFFICES ASSUME BatchIInv, [U!Next]_U!vars PROVE BatchIInv'
  OBVIOUS
<1>1. CASE U!Insert
  <2>1. mode \in {"insert", "upsert"}
    BY <1>1 DEF U!Insert
  <2> QED
    BY <1>1, <2>1, InsertNewStep, UpsertStep
<1> QED
  BY <1>1, PrecomputeStep, PairUpStep, CollectRowsStep, EmbedFailsStep, BuildPointsStep, BatchIdleStep DEF U!Next, U!Stopped

\* The invariant knows no panic.
LEMMA EveryKept == BatchIInv => U!RetainedIsFound
BY DEF BatchIInv, DataAt, U!RetainedIsFound

\* A returned row has a message, which finds this row and no other; zip reaches
\* every message that was kept.
LEMMA ReturnedAndPoints == BatchIInv => U!ReturnedRowsGetPoints
<1> SUFFICES ASSUME BatchIInv, uAt = "done", mode # "split"
             PROVE  {p.row : p \in points} = {r.id : r \in uReturned}
  BY DEF U!ReturnedRowsGetPoints
<1>1. /\ U!TypeOK /\ data = Filled /\ TableAt /\ ReturnedAt /\ points = U!WithVectors(kept, data)
      /\ DOMAIN kept = {m \in Filled : U!Retained(m)} /\ Filled \in SUBSET U!Ids
      /\ \A m \in DOMAIN kept : kept[m] \in U!Found(m)
  BY FilledIds DEF BatchIInv, DataAt, PointsAt, KeptAt
<1>2. ASSUME NEW p \in points PROVE \E r \in uReturned : p.row = r.id
  <2>1. PICK z \in U!Zip(DOMAIN kept, data) : p.row = kept[z[1]].id
    BY <1>1 DEF U!WithVectors
  <2>2. z[1] \in DOMAIN kept
    BY <2>1 DEF U!Zip
  <2> QED
    BY <1>1, <2>1, <2>2 DEF U!Found
<1>3. ASSUME NEW r \in uReturned PROVE \E p \in points : p.row = r.id
  <2> DEFINE m == r.text
  <2>1. m \in Filled /\ r.tracking = batch[m].tracking /\ (mode = "insert" \/ r.tracking = None => r.id = m)
    BY <1>1, Inserted DEF ReturnedAt
  <2>2. m \in DOMAIN kept
    <3>1. mode \in {"insert", "upsert"}
      BY <1>1, BatchConstants DEF U!TypeOK, U!BatchAssumption
    <3> QED
      BY <1>1, <2>1, <3>1 DEF U!Retained
  <2> DEFINE q == kept[m]
  <2>3. q \in U!Found(m)
    BY <1>1, <2>2
  <2>4. q.id = r.id
    <3>1. CASE U!SameTracking(q, m)
      BY <1>1, <2>1, <2>3, <3>1 DEF U!SameTracking, U!Found, TableAt, ReturnedAt
    <3>2. CASE q.id = m
      <4>1. q.tracking = batch[m].tracking
        BY <1>1, <2>1, <2>3, <3>2, OwnOrOld DEF U!Found, ReturnedAt
      <4> QED
        BY <1>1, <2>1, <2>3, <3>2, <4>1 DEF U!Found, TableAt, ReturnedAt
    <3> QED
      BY <2>3, <3>1, <3>2 DEF U!Found
  <2>5. PICK k \in data : <<m, k>> \in U!Zip(DOMAIN kept, data)
    BY <1>1, <2>2, ZipOfPart
  <2>6. [row |-> q.id, text |-> q.text, msg |-> m, vector |-> k] \in points
    <3> DEFINE z == <<m, k>>
    <3>1. z \in U!Zip(DOMAIN kept, data) /\ z[1] = m /\ z[2] = k
      BY <2>5
    <3>2. [row |-> kept[z[1]].id, text |-> kept[z[1]].text, msg |-> z[1], vector |-> z[2]] \in
          U!WithVectors(kept, data)
      BY <3>1 DEF U!WithVectors
    <3> QED
      BY <1>1, <3>1, <3>2
  <2> QED
    BY <2>3, <2>4, <2>6
<1> QED
  BY <1>2, <1>3

\* An upsert keeps every message, so the two lists that are zipped are one.
LEMMA UpsertedVectors == BatchIInv => U!UpsertVectorsMatch
<1> SUFFICES ASSUME BatchIInv, mode = "upsert", uAt = "done", NEW p \in points PROVE p.vector = p.msg
  BY DEF U!UpsertVectorsMatch, U!VectorsMatch
<1>1. /\ U!TypeOK /\ data = Filled /\ ReturnedAt /\ points = U!WithVectors(kept, data)
      /\ DOMAIN kept = {m \in Filled : U!Retained(m)} /\ Filled \in SUBSET U!Ids
  BY FilledIds DEF BatchIInv, DataAt, PointsAt, KeptAt
<1>2. ASSUME NEW m \in Filled PROVE U!Retained(m)
  <2>1. PICK k \in U!ToInsert(Filled) : batch[k].tracking = batch[m].tracking
    BY <1>1, Inserted
  <2>2. PICK r \in uReturned : r.text = k
    BY <1>1, <2>1 DEF ReturnedAt
  <2> QED
    BY <1>1, <2>1, <2>2 DEF U!Retained, ReturnedAt
<1>3. DOMAIN kept = data
  BY <1>1, <1>2
<1>4. PICK z \in U!Zip(data, data) : p.msg = z[1] /\ p.vector = z[2]
  BY <1>1, <1>3 DEF U!WithVectors
<1> QED
  BY <1>1, <1>4, ZipOfPart

\* A point has the text of the row its message found; the two have one tracking id,
\* or one id.
LEMMA RowsAndPoints == BatchIInv => U!RowMatchesPoint
<1> SUFFICES ASSUME BatchIInv, uAt = "done", NEW r \in table, NEW p \in points, p.row = r.id
             PROVE  p.text = r.text /\ (~U!TrackingRepeats => p.msg = r.text /\ (mode = "upsert" => p.vector = r.text))
  BY DEF U!RowMatchesPoint
<1>1. U!TypeOK /\ data = Filled /\ TableAt /\ ReturnedAt /\ Filled \in SUBSET U!Ids
  BY FilledIds DEF BatchIInv, DataAt
<1>2. mode # "split"
  <2> SUFFICES ASSUME mode = "split" PROVE FALSE
    OBVIOUS
  <2>1. p.row \in U!Ids /\ OldRow(r)
    BY <1>1 DEF BatchIInv, PointsAt, TableAt
  <2> QED
    BY <2>1, BatchConstants DEF OldRow, U!BatchAssumption
<1>3. /\ points = U!WithVectors(kept, data) /\ DOMAIN kept \subseteq Filled
      /\ \A m \in DOMAIN kept : kept[m] \in U!Found(m)
  BY <1>2 DEF BatchIInv, PointsAt, KeptAt
<1>4. PICK z \in U!Zip(DOMAIN kept, data) : p.row = kept[z[1]].id /\ p.text = kept[z[1]].text /\ p.msg = z[1]
  BY <1>3 DEF U!WithVectors
<1> DEFINE m == z[1]
<1>5. m \in DOMAIN kept /\ m \in Filled
  BY <1>3, <1>4 DEF U!Zip
<1>6. kept[m] \in U!Found(m) /\ kept[m] = r /\ r \in uReturned
  <2>1. kept[m] \in U!Found(m) /\ kept[m] \in uReturned /\ kept[m].id = r.id
    BY <1>3, <1>4, <1>5 DEF U!Found
  <2> HIDE DEF m
  <2>2. kept[m] = r
    BY <1>1, <2>1 DEF TableAt, ReturnedAt
  <2> QED
    BY <2>1, <2>2
<1>7. r.text \in Filled /\ r.tracking = batch[r.text].tracking /\ (r.tracking = None => r.id = r.text)
  BY <1>1, <1>6, Inserted DEF ReturnedAt
<1>8. r.tracking = batch[m].tracking /\ (r.tracking = None => r.id = m)
  <2>1. CASE U!SameTracking(r, m)
    BY <2>1 DEF U!SameTracking
  <2>2. CASE r.id = m
    BY <1>1, <1>5, <2>2, OwnOrOld
  <2> QED
    BY <1>6, <2>1, <2>2 DEF U!Found
<1>9. ~U!TrackingRepeats => p.msg = r.text
  BY <1>1, <1>4, <1>5, <1>7, <1>8 DEF U!TrackingRepeats
<1>10. mode = "upsert" => p.vector = p.msg
  BY UpsertedVectors DEF U!UpsertVectorsMatch, U!VectorsMatch
<1> QED
  BY <1>4, <1>6, <1>9, <1>10

--------------------------------------------------------------------------------
(* Filters: what becomes of a condition selects what it means.              *)

\* The constants of the filters are as ChunkFilters assumes.
LEMMA FilterConstants == Q!FilterAssumption
BY ServicesAssumption

\* Whether the condition reads alike both ways as far as chunk c goes.
PortableFor(cond, c) ==
  IF cond.field = "metadata" /\ cond.op = "range" THEN row[c] # "t1" ELSE Q!Portable(cond)

\* The request has conditions of the known kinds.
FilterInv == \A l \in Q!Lists :
  /\ filter[l] = << >> \/ 1 \in DOMAIN filter[l]
  /\ \A i \in DOMAIN filter[l] : filter[l][i] \in Q!Conditions

\* Row and point of a chunk differ only if it was updated meanwhile.
RowInv ==
  /\ row \in [Q!Chunks -> Q!Values \cup {None}] /\ payload \in [Q!Chunks -> Q!Values \cup {None}]
  /\ \A c \in Q!Chunks \ {updated} : payload[c] = row[c]
  /\ updated \in Q!Chunks \cup {None}

\* A condition that was converted means the same for every such chunk.
PlanInv == plan # None =>
  \A l \in Q!Lists :
    /\ DOMAIN plan[l] = DOMAIN filter[l] /\ (plan[l] = << >> <=> filter[l] = << >>)
    /\ \A i \in DOMAIN filter[l] : \A c \in Own \ {updated} :
         PortableFor(filter[l][i], c) => (Q!Holds(plan[l][i], c) <=> Q!Meant(filter[l][i], c))

\* The invariant of a filter.
ResultInv ==
  /\ result.is \in {"pending", "found", "error", "panic"}
  /\ Q!SelectsWhatIsMeant

FilterIInv == FilterInv /\ RowInv /\ PlanInv /\ ResultInv

\* At first row and point of every chunk say the same.
LEMMA FilterInit == Q!Init => FilterIInv
<1> SUFFICES ASSUME Q!Init PROVE FilterIInv
  OBVIOUS
<1> DEFINE plain == [field |-> "metadata", op |-> "any", vals |-> <<"a">>]
<1>1. PICK l \in Q!Lists, c \in Q!Conditions, more \in BOOLEAN, pre \in BOOLEAN :
        filter = [should |-> IF l = "should" THEN <<c>> ELSE IF more THEN <<plain>> ELSE << >>,
                  must |-> IF l = "must" THEN <<c>> ELSE << >>,
                  must_not |-> IF l = "must_not" THEN <<c>> ELSE << >>,
                  prefilter |-> pre]
  BY DEF Q!Init
<1>2. plain \in Q!Conditions
  <2>1. <<"a">> \in {<<v>> : v \in Q!Values}
    BY DEF Q!Values, Q!Texts
  <2> QED
    BY <2>1 DEF Q!Conditions
<1>3. FilterInv
  <2> SUFFICES ASSUME NEW k \in Q!Lists
               PROVE  /\ filter[k] = << >> \/ 1 \in DOMAIN filter[k]
                      /\ \A i \in DOMAIN filter[k] : filter[k][i] \in Q!Conditions
    BY DEF FilterInv
  <2> HIDE DEF plain
  <2>1. filter[k] \in {<<c>>, <<plain>>, << >>}
    BY <1>1 DEF Q!Lists
  <2> QED
    BY <1>2, <2>1
<1>4. row \in [Q!Chunks -> Q!Values \cup {None}] /\ payload = row
  <2>1. [Q!Chunks -> {"a", None}] \subseteq [Q!Chunks -> Q!Values \cup {None}]
    BY DEF Q!Values, Q!Texts
  <2>2. \/ row \in [Q!Chunks -> {"a", None}]
        \/ row \in {m \in [Q!Chunks -> Q!Values \cup {None}] : \A d \in Foreign : m[d] \in {"a", None}}
    BY DEF Q!Init
  <2> QED
    BY <2>1, <2>2 DEF Q!Init
<1> QED
  BY <1>3, <1>4 DEF Q!Init, FilterIInv, RowInv, PlanInv, ResultInv, Q!SelectsWhatIsMeant

\* What a condition becomes selects the chunks it means, as long as row and
\* point say the same.
LEMMA ConvertedMeans ==
  ASSUME NEW cond \in Q!Conditions, NEW pre, NEW c \in Own, RowInv, payload[c] = row[c],
         PortableFor(cond, c), Q!Convert(cond, pre).is = "ok"
  PROVE  Q!Holds(Q!Convert(cond, pre), c) <=> Q!Meant(cond, c)
<1>0. /\ c \in Q!Chunks /\ row[c] \in Q!Values \cup {None} /\ None \notin Q!Values
      /\ Q!Values = {"a", "t1", "n1"} /\ Q!Texts = {"a", "t1"}
  BY FilterConstants DEF RowInv, Q!Chunks, Q!FilterAssumption, Q!Values, Q!Texts
<1>1. CASE cond.field = "has_id"
  BY <1>1 DEF Q!Convert, Q!Ids, Q!Holds, Q!Meant
<1>2. CASE cond.field = "metadata" /\ cond.op \in {"any", "all"}
  <2>1. cond.vals \in {<<v>> : v \in Q!Values} \cup (Q!Values \X Q!Values)
    BY <1>2 DEF Q!Conditions
  <2>2. \A i \in DOMAIN cond.vals : cond.vals[i] \in Q!Texts /\ Q!AsText(cond.vals[i]) = cond.vals[i]
    BY <1>0, <1>2 DEF PortableFor, Q!Portable, Q!Range, Q!AsText
  <2>3. 1 \in DOMAIN cond.vals /\ DOMAIN cond.vals \in {{1}, {1, 2}} /\ DOMAIN cond.vals = 1 .. Len(cond.vals)
    BY <2>1
  <2>4. DOMAIN cond.vals = {1} \cup 2 .. Len(cond.vals)
    BY <2>1, <2>3
  <2>5. CASE pre
    <3>1. Q!Convert(cond, pre) = Q!Ids(Q!MetadataIds(cond))
      BY <1>2, <2>5 DEF Q!Convert, Q!CastFails
    <3>2. Q!Holds(Q!Convert(cond, pre), c) <=> c \in Q!MetadataIds(cond)
      BY <3>1 DEF Q!Ids, Q!Holds
    <3>3. CASE cond.op = "any"
      <4>1. c \in Q!MetadataIds(cond) <=> \E i \in DOMAIN cond.vals : row[c] = cond.vals[i]
        BY <1>0, <2>2, <2>3, <2>4, <3>3 DEF Q!MetadataIds, Q!InRow
      <4> QED
        BY <1>2, <3>2, <3>3, <4>1 DEF Q!Meant, Q!Range
    <3>4. CASE cond.op = "all"
      BY <1>0, <1>2, <2>2, <3>2, <3>4 DEF Q!MetadataIds, Q!InRow, Q!Meant
    <3> QED
      BY <1>2, <3>3, <3>4
  <2>6. CASE ~pre
    <3> DEFINE by == IF cond.op = "any" THEN "match" ELSE "all"
    <3>1. Q!Convert(cond, pre) = Q!Match(by, cond.vals)
      BY <1>2, <2>6 DEF Q!Convert
    <3>2. Q!Convert(cond, pre) = [is |-> "ok", by |-> by, vals |-> {Q!AsText(cond.vals[i]) : i \in DOMAIN cond.vals}]
      BY <2>2, <2>3, <3>1 DEF Q!Match
    <3>3. CASE cond.op = "any"
      BY <1>2, <2>2, <3>2, <3>3 DEF Q!Holds, Q!Meant, Q!Range
    <3>4. CASE cond.op = "all"
      BY <1>2, <2>2, <3>2, <3>4 DEF Q!Holds, Q!Meant
    <3> QED
      BY <1>2, <3>3, <3>4
  <2> QED
    BY <2>5, <2>6
<1>3. CASE cond.field = "metadata" /\ cond.op = "range"
  <2>1. row[c] # "t1"
    BY <1>3 DEF PortableFor
  <2>2. CASE pre
    <3>1. Q!Convert(cond, pre) = Q!Ids(Q!MetadataIds(cond))
      BY <1>3, <2>2 DEF Q!Convert, Q!Refuse
    <3>2. Q!Holds(Q!Convert(cond, pre), c) <=> c \in Q!MetadataIds(cond)
      BY <3>1 DEF Q!Ids, Q!Holds
    <3> QED
      BY <1>0, <1>3, <2>1, <3>2 DEF Q!MetadataIds, Q!IsNumber, Q!Meant
  <2>3. CASE ~pre
    <3>1. Q!Convert(cond, pre) = [is |-> "ok", by |-> "range", vals |-> cond.vals]
      BY <1>3, <2>3 DEF Q!Convert
    <3> QED
      BY <1>3, <3>1 DEF Q!Holds, Q!Meant
  <2> QED
    BY <2>2, <2>3
<1>4. CASE cond.field = "metadata" /\ cond.op = "date_range"
  BY <1>4 DEF PortableFor, Q!Portable
<1>5. CASE cond.field = "group_tag_set"
  <2>1. Q!Convert(cond, pre) = Q!Ids(Q!GroupTagIds(cond))
    BY <1>5 DEF Q!Convert
  <2>2. Q!Holds(Q!Convert(cond, pre), c) <=> c \in Q!GroupTagIds(cond)
    BY <2>1 DEF Q!Ids, Q!Holds
  <2>3. DOMAIN cond.vals = 1 .. Len(cond.vals) /\ Len(cond.vals) \in Nat \ {0} /\ cond.op \in {"any", "all"}
    BY <1>5 DEF Q!Conditions
  <2>4. CASE cond.op = "any"
    <3>1. c \in Q!GroupTagIds(cond) <=> \E i \in 1 .. Len(cond.vals) : Q!Tagged(c, cond.vals[i])
      BY <1>0, <2>3, <2>4 DEF Q!GroupTagIds
    <3>2. Q!Meant(cond, c) <=> \E v \in Q!Range(cond.vals) : Q!Tagged(c, v)
      BY <1>5, <2>4 DEF Q!Meant
    <3> QED
      BY <2>2, <2>3, <3>1, <3>2 DEF Q!Range
  <2>5. CASE cond.op = "all"
    <3>1. c \in Q!GroupTagIds(cond) <=> \A i \in 1 .. Len(cond.vals) : Q!Tagged(c, cond.vals[i])
      BY <1>0, <2>3, <2>5 DEF Q!GroupTagIds
    <3>2. Q!Meant(cond, c) <=> \A v \in Q!Range(cond.vals) : Q!Tagged(c, v)
      BY <1>5, <2>5 DEF Q!Meant
    <3> QED
      BY <2>2, <2>3, <3>1, <3>2 DEF Q!Range
  <2> QED
    BY <2>3, <2>4, <2>5
<1>6. CASE cond.field = "group_metadata"
  BY <1>6 DEF PortableFor, Q!Portable
<1>7. CASE cond.field = "group_tracking_ids"
  <2>1. Unknown \notin Q!Range(cond.vals) /\ cond.op \in {"any", "all"}
    BY <1>7 DEF PortableFor, Q!Portable, Q!Conditions
  <2>2. Q!Tracked(cond) = Q!Range(cond.vals)
    BY <2>1 DEF Q!Tracked
  <2>3. Q!Convert(cond, pre) = [is |-> "ok", by |-> "groups", vals |-> Q!Tracked(cond), op |-> cond.op]
    BY <1>7 DEF Q!Convert, Q!Refuse
  <2>4. CASE cond.op = "any"
    BY <1>7, <2>2, <2>3, <2>4 DEF Q!Holds, Q!Meant
  <2>5. CASE cond.op = "all"
    BY <1>7, <2>2, <2>3, <2>5 DEF Q!Holds, Q!Meant, Q!Range
  <2> QED
    BY <2>1, <2>4, <2>5
<1> QED
  BY <1>1, <1>2, <1>3, <1>4, <1>5, <1>6, <1>7 DEF Q!Conditions

\* A portable condition is refused only by the cast of a range.
LEMMA ConvertedIs ==
  ASSUME NEW cond \in Q!Conditions, NEW pre
  PROVE  /\ Q!Convert(cond, pre).is \in {"ok", "error", "panic"}
         /\ Q!Portable(cond) /\ Q!Convert(cond, pre).is # "ok" => Q!Convert(cond, pre).is = "error" /\ cond.op = "range"
<1>1. CASE cond.field = "has_id"
  BY <1>1 DEF Q!Convert, Q!Ids
<1>2. CASE cond.field = "metadata" /\ pre
  <2>1. Q!Convert(cond, pre) = IF Q!CastFails(cond) THEN Q!Refuse("error") ELSE Q!Ids(Q!MetadataIds(cond))
    BY <1>2 DEF Q!Convert
  <2> QED
    BY <2>1 DEF Q!Refuse, Q!Ids, Q!CastFails
<1>3. CASE cond.field = "metadata" /\ ~pre /\ cond.op \in {"range", "date_range"}
  BY <1>3 DEF Q!Convert
<1>4. CASE cond.field = "metadata" /\ ~pre /\ cond.op \in {"any", "all"}
  <2> DEFINE by == IF cond.op = "any" THEN "match" ELSE "all"
  <2>1. Q!Convert(cond, pre) = Q!Match(by, cond.vals)
    BY <1>4 DEF Q!Convert
  <2>2. 1 \in DOMAIN cond.vals
    BY <1>4 DEF Q!Conditions
  <2>3. Q!Portable(cond) => cond.vals[1] \in Q!Texts
    BY <1>4, <2>2 DEF Q!Portable, Q!Range
  <2> QED
    BY <2>1, <2>3 DEF Q!Match, Q!Refuse
<1>5. CASE cond.field = "group_metadata"
  BY <1>5 DEF Q!Convert, Q!Ids
<1>6. CASE cond.field = "group_tag_set"
  BY <1>6 DEF Q!Convert, Q!Ids
<1>7. CASE cond.field = "group_tracking_ids"
  <2>1. 1 \in DOMAIN cond.vals
    BY <1>7 DEF Q!Conditions
  <2>2. Q!Portable(cond) => Q!Tracked(cond) # {}
    BY <1>7, <2>1 DEF Q!Portable, Q!Tracked, Q!Range
  <2>3. Q!Convert(cond, pre) = IF Q!Tracked(cond) = {} THEN Q!Refuse("error")
          ELSE [is |-> "ok", by |-> "groups", vals |-> Q!Tracked(cond), op |-> cond.op]
    BY <1>7 DEF Q!Convert
  <2> QED
    BY <2>2, <2>3 DEF Q!Refuse
<1> QED
  BY <1>1, <1>2, <1>3, <1>4, <1>5, <1>6, <1>7 DEF Q!Conditions

\* Every condition becomes one that means the same, or the request is refused.
LEMMA AssembleStep == FilterIInv /\ Q!Assemble => FilterIInv'
<1> SUFFICES ASSUME FilterIInv, Q!Assemble PROVE FilterIInv'
  OBVIOUS
<1> DEFINE made == [l \in Q!Lists |-> [i \in DOMAIN filter[l] |-> Q!Convert(filter[l][i], filter.prefilter)]]
           bad == {how \in {"error", "panic"} : \E l \in Q!Lists : \E i \in DOMAIN made[l] : made[l][i].is = how}
<1>1. /\ plan = None /\ result.is = "pending"
      /\ IF bad = {} THEN plan' = made /\ UNCHANGED result
         ELSE (\E how \in bad : result' = [is |-> how, chunks |-> {}]) /\ UNCHANGED plan
      /\ UNCHANGED <<row, payload, inGroup, tagSet, filter, updated>>
  BY DEF Q!Assemble
<1>2. FilterInv' /\ RowInv'
  BY <1>1 DEF FilterIInv, FilterInv, RowInv
<1>3. \A l \in Q!Lists : DOMAIN made[l] = DOMAIN filter[l]
                         /\ \A i \in DOMAIN filter[l] : made[l][i] = Q!Convert(filter[l][i], filter.prefilter)
  OBVIOUS
<1>4. \A l \in Q!Lists : \A i \in DOMAIN filter[l] : filter[l][i] \in Q!Conditions
  BY DEF FilterIInv, FilterInv
<1> HIDE DEF made
<1>5. CASE bad = {}
  <2>1. plan' = made /\ result' = result
    BY <1>1, <1>5
  <2>2. \A l \in Q!Lists : \A i \in DOMAIN filter[l] : Q!Convert(filter[l][i], filter.prefilter).is = "ok"
    BY <1>3, <1>4, <1>5, ConvertedIs
  <2>3. ASSUME NEW l \in Q!Lists, NEW i \in DOMAIN filter[l], NEW c \in Own \ {updated}, PortableFor(filter[l][i], c)
        PROVE  Q!Holds(made[l][i], c) <=> Q!Meant(filter[l][i], c)
    <3>1. payload[c] = row[c]
      BY DEF FilterIInv, RowInv, Q!Chunks
    <3>2. RowInv
      BY DEF FilterIInv
    <3> QED
      BY <1>3, <1>4, <2>2, <2>3, <3>1, <3>2, ConvertedMeans
  <2>4. \A q, c : (Q!Holds(q, c)' <=> Q!Holds(q, c)) /\ (Q!Meant(q, c)' <=> Q!Meant(q, c)) /\ (PortableFor(q, c)' <=> PortableFor(q, c))
    BY <1>1 DEF Q!Holds, Q!Meant, PortableFor, Q!Portable
  <2>5. ASSUME NEW l \in Q!Lists PROVE made[l] = << >> <=> filter[l] = << >>
    <3>1. filter[l] = << >> => made[l] = << >>
      <4> SUFFICES ASSUME filter[l] = << >> PROVE made[l] = << >>
        OBVIOUS
      <4>1. made[l] = [i \in {} |-> Q!Convert(filter[l][i], filter.prefilter)]
        BY DEF made
      <4> QED
        BY <4>1
    <3>2. filter[l] # << >> => made[l] # << >>
      BY <1>3 DEF FilterIInv, FilterInv
    <3> QED
      BY <3>1, <3>2
  <2>5a. PlanInv'
    BY <1>1, <1>3, <2>1, <2>3, <2>4, <2>5 DEF PlanInv
  <2>6. ResultInv'
    BY <1>1, <2>1 DEF FilterIInv, ResultInv, Q!SelectsWhatIsMeant
  <2> QED
    BY <1>2, <2>5a, <2>6 DEF FilterIInv
<1>6. CASE bad # {}
  <2>1. PICK how \in bad : result' = [is |-> how, chunks |-> {}]
    BY <1>1, <1>6
  <2>2. PlanInv'
    BY <1>1, <1>6 DEF PlanInv
  <2>3. PICK l \in Q!Lists : \E i \in DOMAIN filter[l] : Q!Convert(filter[l][i], filter.prefilter).is = how
    <3>1. PICK l \in Q!Lists : \E i \in DOMAIN made[l] : made[l][i].is = how
      BY <2>1
    <3> QED
      BY <1>3, <3>1
  <2>3a. PICK i \in DOMAIN filter[l] : Q!Convert(filter[l][i], filter.prefilter).is = how
    BY <2>3
  <2>4. filter[l][i] \in UNION {Q!Range(filter[k]) : k \in Q!Lists}
    BY <2>3a DEF Q!Range
  <2>5. Q!Portable(filter[l][i]) => how = "error" /\ filter[l][i].op = "range"
    BY <1>4, <2>1, <2>3a, ConvertedIs
  <2>6. \A cond : Q!Portable(cond)' <=> Q!Portable(cond)
    BY <1>1 DEF Q!Portable
  <2>7. ResultInv'
    BY <1>1, <2>1, <2>4, <2>5, <2>6 DEF ResultInv, Q!SelectsWhatIsMeant
  <2> QED
    BY <1>2, <2>2, <2>7 DEF FilterIInv
<1> QED
  BY <1>5, <1>6

\* A portable condition is portable for every chunk of the dataset.
LEMMA PortableForEach ==
  ASSUME NEW cond, NEW c \in Own, Q!Portable(cond)
  PROVE  PortableFor(cond, c)
BY DEF Q!Portable, PortableFor

\* What Qdrant selects is what the conditions mean, for all chunks whose row and
\* point say the same.
LEMMA SelectStep == FilterIInv /\ Q!Select => FilterIInv'
<1> SUFFICES ASSUME FilterIInv, Q!Select PROVE FilterIInv'
  OBVIOUS
<1>1. /\ plan # None /\ result' = [is |-> "found",
           chunks |-> {c \in Own :
             /\ plan.should = << >> \/ \E i \in DOMAIN plan.should : Q!Holds(plan.should[i], c)
             /\ \A i \in DOMAIN plan.must : Q!Holds(plan.must[i], c)
             /\ \A i \in DOMAIN plan.must_not : ~Q!Holds(plan.must_not[i], c)}]
      /\ UNCHANGED <<row, payload, inGroup, tagSet, filter, plan, updated>>
  BY DEF Q!Select
<1>2. FilterInv' /\ RowInv'
  BY <1>1 DEF FilterIInv, FilterInv, RowInv
<1>3. \A q, c : (Q!Holds(q, c)' <=> Q!Holds(q, c)) /\ (Q!Meant(q, c)' <=> Q!Meant(q, c)) /\ (PortableFor(q, c)' <=> PortableFor(q, c))
                /\ (Q!Portable(q)' <=> Q!Portable(q))
  BY <1>1 DEF Q!Holds, Q!Meant, PortableFor, Q!Portable
<1>4. PlanInv'
  BY <1>1, <1>3 DEF FilterIInv, PlanInv
<1>5. ASSUME NEW l \in Q!Lists
      PROVE  /\ DOMAIN plan[l] = DOMAIN filter[l] /\ (plan[l] = << >> <=> filter[l] = << >>)
             /\ \A i \in DOMAIN filter[l] : \A c \in Own \ {updated} :
                  Q!Portable(filter[l][i]) => (Q!Holds(plan[l][i], c) <=> Q!Meant(filter[l][i], c))
  BY <1>1, PortableForEach DEF FilterIInv, PlanInv
<1> DEFINE meant(c) == /\ filter.should = << >> \/ \E i \in DOMAIN filter.should : Q!Meant(filter.should[i], c)
                       /\ \A i \in DOMAIN filter.must : Q!Meant(filter.must[i], c)
                       /\ \A i \in DOMAIN filter.must_not : ~Q!Meant(filter.must_not[i], c)
           found(c) == /\ plan.should = << >> \/ \E i \in DOMAIN plan.should : Q!Holds(plan.should[i], c)
                       /\ \A i \in DOMAIN plan.must : Q!Holds(plan.must[i], c)
                       /\ \A i \in DOMAIN plan.must_not : ~Q!Holds(plan.must_not[i], c)
           all == UNION {Q!Range(filter[l]) : l \in Q!Lists}
<1>6. ASSUME \A cond \in all : Q!Portable(cond), NEW c \in Own \ {updated} PROVE found(c) <=> meant(c)
  <2>1. \A l \in Q!Lists : \A i \in DOMAIN filter[l] : Q!Portable(filter[l][i])
    BY <1>6 DEF Q!Range
  <2> QED
    BY <1>5, <2>1 DEF Q!Lists
<1>7. ASSUME \A cond \in all : Q!Portable(cond), NEW c \in Q!Chunks \ {updated}
      PROVE  c \in result'.chunks <=> c \in Own /\ meant(c)
  <2>1. c \in result'.chunks <=> c \in Own /\ found(c)
    BY <1>1
  <2> QED
    BY <1>6, <1>7, <2>1
<1>8. \A c : meant(c)' <=> meant(c)
  BY <1>1, <1>3
<1>9. all' = all /\ result'.is = "found" /\ updated' = updated
  BY <1>1 DEF Q!Range
<1>10. Q!SelectsWhatIsMeant'
  <2> SUFFICES ASSUME \A cond \in all : Q!Portable(cond)
               PROVE  \A c \in Q!Chunks \ {updated} : c \in result'.chunks <=> c \in Own /\ meant(c)'
    BY <1>3, <1>9 DEF Q!SelectsWhatIsMeant, Q!Chunks
  <2> QED
    BY <1>7, <1>8
<1> QED
  BY <1>2, <1>4, <1>9, <1>10 DEF FilterIInv, ResultInv

\* An update of the row of another chunk changes nothing for this one.
LEMMA UpdateRowStep == FilterIInv /\ Q!UpdateRow => FilterIInv'
<1> SUFFICES ASSUME FilterIInv, Q!UpdateRow PROVE FilterIInv'
  OBVIOUS
<1>1. /\ updated = None /\ result.is = "pending"
      /\ UNCHANGED <<payload, inGroup, tagSet, filter, plan, result>>
  BY DEF Q!UpdateRow
<1>2. PICK d \in Own, v \in {"a", "n1"} : row' = [row EXCEPT ![d] = v] /\ updated' = d
  BY DEF Q!UpdateRow
<1>3. d \in Q!Chunks /\ None \notin Q!Chunks /\ v \in Q!Values
  BY FilterConstants DEF Q!Chunks, Q!FilterAssumption, Q!Values, Q!Texts
<1>4. RowInv'
  BY <1>1, <1>2, <1>3 DEF FilterIInv, RowInv
<1>5. \A c \in Own \ {updated'} : c \in Own \ {updated} /\ row'[c] = row[c]
  BY <1>1, <1>2, <1>3 DEF FilterIInv, RowInv, Q!Chunks
<1>6. ASSUME NEW cond, NEW c, row'[c] = row[c]
      PROVE  (Q!Meant(cond, c)' <=> Q!Meant(cond, c)) /\ (PortableFor(cond, c)' => PortableFor(cond, c))
  BY <1>1, <1>6 DEF Q!Meant, PortableFor, Q!Portable
<1>7. \A q, c : Q!Holds(q, c)' <=> Q!Holds(q, c)
  BY <1>1 DEF Q!Holds
<1>8. PlanInv'
  BY <1>1, <1>5, <1>6, <1>7 DEF FilterIInv, PlanInv
<1> QED
  BY <1>1, <1>4, <1>8 DEF FilterIInv, FilterInv, ResultInv, Q!SelectsWhatIsMeant

\* The point follows its row.
LEMMA UpdatePointStep == FilterIInv /\ Q!UpdatePoint => FilterIInv'
<1> SUFFICES ASSUME FilterIInv, Q!UpdatePoint PROVE FilterIInv'
  OBVIOUS
<1>1. /\ payload' = row /\ result.is = "pending"
      /\ UNCHANGED <<row, inGroup, tagSet, filter, plan, result, updated>>
  BY DEF Q!UpdatePoint
<1>2. RowInv'
  BY <1>1 DEF FilterIInv, RowInv
<1>3. \A c \in Own \ {updated} : payload'[c] = payload[c]
  BY <1>1 DEF FilterIInv, RowInv, Q!Chunks
<1>4. ASSUME NEW q, NEW c, payload'[c] = payload[c] PROVE Q!Holds(q, c)' <=> Q!Holds(q, c)
  BY <1>1, <1>4 DEF Q!Holds
<1>5. \A cond, c : (Q!Meant(cond, c)' <=> Q!Meant(cond, c)) /\ (PortableFor(cond, c)' <=> PortableFor(cond, c))
  BY <1>1 DEF Q!Meant, PortableFor, Q!Portable
<1>6. PlanInv'
  BY <1>1, <1>3, <1>4, <1>5 DEF FilterIInv, PlanInv
<1> QED
  BY <1>1, <1>2, <1>6 DEF FilterIInv, FilterInv, ResultInv, Q!SelectsWhatIsMeant

\* No step of a request breaks its invariant.
LEMMA FilterInvariant == FilterIInv /\ [Q!Next]_Q!vars => FilterIInv'
<1> SUFFICES ASSUME FilterIInv, [Q!Next]_Q!vars PROVE FilterIInv'
  OBVIOUS
<1>1. CASE UNCHANGED Q!vars
  <2>1. \A q, c : (Q!Holds(q, c)' <=> Q!Holds(q, c)) /\ (Q!Meant(q, c)' <=> Q!Meant(q, c))
                  /\ (PortableFor(q, c)' <=> PortableFor(q, c)) /\ (Q!Portable(q)' <=> Q!Portable(q))
    BY <1>1 DEF Q!vars, Q!Holds, Q!Meant, PortableFor, Q!Portable
  <2>2. PlanInv'
    BY <1>1, <2>1 DEF FilterIInv, PlanInv, Q!vars
  <2>3. ResultInv'
    <3>1. UNCHANGED <<filter, result, updated>>
      BY <1>1 DEF Q!vars
    <3> DEFINE meant(c) ==
                 /\ filter.should = << >> \/ \E i \in DOMAIN filter.should : Q!Meant(filter.should[i], c)
                 /\ \A i \in DOMAIN filter.must : Q!Meant(filter.must[i], c)
                 /\ \A i \in DOMAIN filter.must_not : ~Q!Meant(filter.must_not[i], c)
               all == UNION {Q!Range(filter[l]) : l \in Q!Lists}
    <3>2. \A c : meant(c)' <=> meant(c)
      BY <2>1, <3>1
    <3>3. all' = all /\ (\A q : Q!Portable(q)' <=> Q!Portable(q))
      BY <2>1, <3>1 DEF Q!Range
    <3>4. Q!SelectsWhatIsMeant
      BY DEF FilterIInv, ResultInv
    <3>5. Q!SelectsWhatIsMeant'
      BY <3>1, <3>2, <3>3, <3>4 DEF Q!SelectsWhatIsMeant, Q!Chunks
    <3> QED
      BY <3>1, <3>5 DEF FilterIInv, ResultInv
  <2> QED
    BY <1>1, <2>2, <2>3 DEF FilterIInv, FilterInv, RowInv, Q!vars
<1> QED
  BY <1>1, AssembleStep, SelectStep, UpdateRowStep, UpdatePointStep DEF Q!Next

\* A converted condition is one of five.
LEMMA ConvertedBy ==
  ASSUME NEW cond \in Q!Conditions, NEW pre
  PROVE  Q!Convert(cond, pre).by \in {"ids", "match", "all", "range", "groups"}
<1>1. CASE cond.field = "has_id"
  BY <1>1 DEF Q!Convert, Q!Ids
<1>2. CASE cond.field = "metadata" /\ pre
  <2>1. Q!Convert(cond, pre) = IF Q!CastFails(cond) THEN Q!Refuse("error") ELSE Q!Ids(Q!MetadataIds(cond))
    BY <1>2 DEF Q!Convert
  <2> QED
    BY <2>1 DEF Q!Refuse, Q!Ids
<1>3. CASE cond.field = "metadata" /\ ~pre /\ cond.op \in {"range", "date_range"}
  BY <1>3 DEF Q!Convert
<1>4. CASE cond.field = "metadata" /\ ~pre /\ cond.op \in {"any", "all"}
  <2>1. Q!Convert(cond, pre) = Q!Match(IF cond.op = "any" THEN "match" ELSE "all", cond.vals)
    BY <1>4 DEF Q!Convert
  <2> QED
    BY <2>1 DEF Q!Match, Q!Refuse
<1>5. CASE cond.field = "group_metadata"
  BY <1>5 DEF Q!Convert, Q!Ids
<1>6. CASE cond.field = "group_tag_set"
  BY <1>6 DEF Q!Convert, Q!Ids
<1>7. CASE cond.field = "group_tracking_ids"
  <2>1. Q!Convert(cond, pre) = IF Q!Tracked(cond) = {} THEN Q!Refuse("error")
          ELSE [is |-> "ok", by |-> "groups", vals |-> Q!Tracked(cond), op |-> cond.op]
    BY <1>7 DEF Q!Convert
  <2> QED
    BY <2>1 DEF Q!Refuse
<1> QED
  BY <1>1, <1>2, <1>3, <1>4, <1>5, <1>6, <1>7 DEF Q!Conditions

\* The types of a filter, at first ...
LEMMA FilterTypesAtFirst == Q!Init => Q!TypeOK
<1> SUFFICES ASSUME Q!Init PROVE Q!TypeOK
  OBVIOUS
<1>1. RowInv
  BY FilterInit DEF FilterIInv
<1>2. inGroup \in [Own -> Groups \cup {None}] /\ tagSet \in [Groups -> SUBSET Q!Texts]
  <2>1. [d \in Own |-> None] \in [Own -> Groups \cup {None}] /\ [g \in Groups |-> {}] \in [Groups -> SUBSET Q!Texts]
    OBVIOUS
  <2>2. [Groups -> {{}, {"a"}, Q!Texts}] \subseteq [Groups -> SUBSET Q!Texts]
    BY DEF Q!Texts
  <2> QED
    BY <2>1, <2>2 DEF Q!Init
<1>3. DOMAIN filter = Q!Lists \cup {"prefilter"}
  BY DEF Q!Init, Q!Lists
<1> QED
  BY <1>1, <1>2, <1>3 DEF Q!Init, Q!TypeOK, RowInv

\* ... and after every step.
LEMMA FilterTypes == FilterIInv /\ Q!TypeOK /\ [Q!Next]_Q!vars => Q!TypeOK'
<1> SUFFICES ASSUME FilterIInv, Q!TypeOK, [Q!Next]_Q!vars PROVE Q!TypeOK'
  OBVIOUS
<1>1. RowInv'
  BY FilterInvariant DEF FilterIInv
<1>2. UNCHANGED <<inGroup, tagSet, filter>>
  BY DEF Q!Next, Q!Assemble, Q!Select, Q!UpdateRow, Q!UpdatePoint, Q!vars
<1>3. plan' = None \/ \A l \in Q!Lists : \A i \in DOMAIN plan'[l] :
                        plan'[l][i].by \in {"ids", "match", "all", "range", "groups"}
  <2> DEFINE made == [l \in Q!Lists |-> [i \in DOMAIN filter[l] |-> Q!Convert(filter[l][i], filter.prefilter)]]
  <2>1. CASE Q!Assemble
    <3>1. plan' = made \/ plan' = plan
      BY <2>1 DEF Q!Assemble
    <3>2. ASSUME NEW l \in Q!Lists, NEW i \in DOMAIN made[l]
          PROVE  made[l][i].by \in {"ids", "match", "all", "range", "groups"}
      <4>1. i \in DOMAIN filter[l] /\ made[l][i] = Q!Convert(filter[l][i], filter.prefilter)
        OBVIOUS
      <4>2. filter[l][i] \in Q!Conditions
        BY <4>1 DEF FilterIInv, FilterInv
      <4> QED
        BY <4>1, <4>2, ConvertedBy
    <3> QED
      BY <3>1, <3>2 DEF Q!TypeOK
  <2>2. CASE plan' = plan
    BY <2>2 DEF Q!TypeOK
  <2> QED
    BY <2>1, <2>2 DEF Q!Next, Q!Select, Q!UpdateRow, Q!UpdatePoint, Q!vars
<1>4. result'.is \in {"pending", "found", "error", "panic"} /\ result'.chunks \subseteq Q!Chunks
  <2>1. CASE Q!Assemble
    <3>1. result' = result \/ \E how \in {"error", "panic"} : result' = [is |-> how, chunks |-> {}]
      BY <2>1 DEF Q!Assemble
    <3> QED
      BY <3>1 DEF Q!TypeOK, Q!Chunks
  <2>2. CASE Q!Select
    BY <2>2 DEF Q!Select, Q!Chunks
  <2>3. CASE result' = result
    BY <2>3 DEF Q!TypeOK, Q!Chunks
  <2> QED
    BY <2>1, <2>2, <2>3 DEF Q!Next, Q!UpdateRow, Q!UpdatePoint, Q!vars
<1> QED
  BY <1>1, <1>2, <1>3, <1>4 DEF RowInv, Q!TypeOK, Q!Lists, Q!Chunks, Q!Values, Q!Texts

--------------------------------------------------------------------------------
(* Searches: lists, what is found and what is answered.                     *)

\* The constants of the searches are as Search assumes.
LEMMA SearchConstants == S!SearchAssumption
BY ServicesAssumption

\* The place of the kth kept element.
Nth(P, k) == CHOOSE i \in P : Position(P, i) = k - 1

\* A part of a list has the elements at the places kept, in their order.
LEMMA PartOfList ==
  ASSUME NEW X, NEW s \in Seq(X), NEW P \in SUBSET (1 .. Len(s))
  PROVE  /\ S!Sublist(s, P) \in Seq(X) /\ Len(S!Sublist(s, P)) = Cardinality(P)
         /\ Cardinality(P) \in Nat /\ Cardinality(P) <= Len(s)
         /\ \A k \in 1 .. Cardinality(P) :
              \E i \in P : Position(P, i) = k - 1 /\ S!Sublist(s, P)[k] = s[i]
         /\ \A i \in P : /\ Position(P, i) + 1 \in 1 .. Cardinality(P)
                         /\ S!Sublist(s, P)[Position(P, i) + 1] = s[i]
<1> DEFINE n == Cardinality(P)
           l == [k \in 1 .. n |-> s[Nth(P, k)]]
<1>1. S!Sublist(s, P) = l /\ DOMAIN l = 1 .. n /\ \A k \in 1 .. n : l[k] = s[Nth(P, k)]
  BY DEF S!Sublist, S!Cardinality, Cardinality, Nth, Position
<1> HIDE DEF l
<1>2. Len(s) \in Nat /\ IsFiniteSet(P) /\ n \in Nat
  <2>1. Len(s) \in Nat
    OBVIOUS
  <2> QED
    BY <2>1, PartsAreFinite
<1>3. n <= Len(s)
  <2>1. 1 \in Int /\ Len(s) \in Int /\ Len(s) - 1 + 1 = Len(s) /\ (1 > Len(s) => Len(s) = 0)
    BY <1>2
  <2>2. IsFiniteSet(1 .. Len(s)) /\ Cardinality(1 .. Len(s)) = Len(s)
    BY <2>1, FS_Interval
  <2> QED
    BY <1>2, <2>2, FS_Subset
<1>0. n = Cardinality(P)
  OBVIOUS
<1> HIDE DEF n
<1>4. ASSUME NEW k \in 1 .. n PROVE Nth(P, k) \in P /\ Position(P, Nth(P, k)) = k - 1
  <2>1. k - 1 \in 0 .. n - 1
    BY <1>2
  <2>2. \E i \in P : Position(P, i) = k - 1
    BY <1>2, <2>1, EveryPosition, <1>0
  <2> QED
    BY <2>2 DEF Nth
<1>8. \A k \in 1 .. n : Nth(P, k) \in P /\ Position(P, Nth(P, k)) = k - 1
  BY <1>4
<1>5. ASSUME NEW i \in P PROVE Position(P, i) + 1 \in 1 .. n /\ l[Position(P, i) + 1] = s[i]
  <2>1. Position(P, i) \in 0 .. n - 1
    BY <1>0, <1>2, EveryPosition
  <2>2. Position(P, i) + 1 \in 1 .. n /\ Position(P, i) + 1 - 1 = Position(P, i)
    BY <1>2, <2>1
  <2>3. PICK k \in 1 .. n : k = Position(P, i) + 1 /\ k - 1 = Position(P, i)
    BY <1>2, <2>1, <2>2
  <2>5. Nth(P, k) \in P /\ Position(P, Nth(P, k)) = Position(P, i)
    BY <1>8, <2>3
  <2>4. Nth(P, k) = i
    BY <1>2, <2>5, EveryPosition
  <2> QED
    BY <1>1, <2>2, <2>3, <2>4
<1>6. l \in Seq(X) /\ Len(l) = n
  <2>3. \A i \in P : s[i] \in X
    OBVIOUS
  <2>1. \A k \in 1 .. n : l[k] \in X
    BY <1>1, <1>8, <2>3
  <2>2. l \in [1 .. n -> X]
    BY <1>1, <2>1 DEF l
  <2> QED
    BY <1>2, <2>2
<1>7. \A k \in 1 .. n : \E i \in P : Position(P, i) = k - 1 /\ l[k] = s[i]
  BY <1>1, <1>8
<1> QED
  BY <1>0, <1>1, <1>2, <1>3, <1>5, <1>6, <1>7

\* The elements of a list that are in T.
LEMMA ElementsInOrder ==
  ASSUME NEW X, NEW s \in Seq(X), NEW T
  PROVE  /\ S!InOrder(s, T) \in Seq(X) /\ Len(S!InOrder(s, T)) <= Len(s)
         /\ S!Range(S!InOrder(s, T)) = S!Range(s) \cap T
<1> DEFINE P == {i \in DOMAIN s : s[i] \in T}
           l == S!Sublist(s, P)
<1>1. P \in SUBSET (1 .. Len(s)) /\ S!InOrder(s, T) = l
  BY DEF S!InOrder
<1>2. /\ l \in Seq(X) /\ Len(l) = Cardinality(P) /\ Cardinality(P) \in Nat /\ Cardinality(P) <= Len(s)
      /\ \A k \in 1 .. Cardinality(P) : \E i \in P : l[k] = s[i]
      /\ \A i \in P : Position(P, i) + 1 \in 1 .. Cardinality(P) /\ l[Position(P, i) + 1] = s[i]
  <2> HIDE DEF P
  <2>1. l \in Seq(X) /\ Len(l) = Cardinality(P) /\ Cardinality(P) \in Nat /\ Cardinality(P) <= Len(s)
    BY <1>1, PartOfList
  <2>2. \A k \in 1 .. Cardinality(P) : \E i \in P : l[k] = s[i]
    BY <1>1, PartOfList
  <2>3. \A i \in P : Position(P, i) + 1 \in 1 .. Cardinality(P) /\ l[Position(P, i) + 1] = s[i]
    BY <1>1, PartOfList
  <2> QED
    BY <2>1, <2>2, <2>3
<1>3. DOMAIN l = 1 .. Cardinality(P)
  BY <1>2
<1> HIDE DEF l
<1>4. S!Range(l) \subseteq S!Range(s) \cap T
  <2> SUFFICES ASSUME NEW x \in S!Range(l) PROVE x \in S!Range(s) \cap T
    OBVIOUS
  <2>1. PICK k \in 1 .. Cardinality(P) : x = l[k]
    BY <1>3 DEF S!Range
  <2>2. PICK i \in P : x = s[i]
    BY <1>2, <2>1
  <2> QED
    BY <2>2 DEF S!Range
<1>5. S!Range(s) \cap T \subseteq S!Range(l)
  <2> SUFFICES ASSUME NEW x \in S!Range(s), x \in T PROVE x \in S!Range(l)
    OBVIOUS
  <2>1. PICK i \in P : x = s[i]
    BY DEF S!Range
  <2> HIDE DEF P
  <2>2. PICK k \in 1 .. Cardinality(P) : l[k] = x
    BY <1>2, <2>1
  <2> QED
    BY <1>3, <2>2 DEF S!Range
<1> QED
  BY <1>1, <1>2, <1>4, <1>5

\* The n elements of a list from an offset on, or as many as there are.
LEMMA SliceOfList ==
  ASSUME NEW X, NEW s \in Seq(X), NEW o \in Nat, NEW n \in Nat
  PROVE  /\ S!Slice(s, o, n) \in Seq(X)
         /\ Len(S!Slice(s, o, n)) = IF o >= Len(s) THEN 0 ELSE IF o + n < Len(s) THEN n ELSE Len(s) - o
         /\ \A i \in 1 .. Len(S!Slice(s, o, n)) : i + o \in 1 .. Len(s) /\ S!Slice(s, o, n)[i] = s[i + o]
<1> DEFINE z == IF o + n < Len(s) THEN o + n ELSE Len(s)
<1>1. Len(s) \in Nat /\ z \in Int /\ o + 1 \in Int /\ z <= Len(s)
  OBVIOUS
<1>2. \A i \in o + 1 .. z : s[i] \in X
  BY <1>1
<1>3. S!Slice(s, o, n) = SubSeq(s, o + 1, z)
  BY DEF S!Slice
<1> HIDE DEF z
<1>4. /\ SubSeq(s, o + 1, z) \in Seq(X)
      /\ Len(SubSeq(s, o + 1, z)) = IF o + 1 <= z THEN z - (o + 1) + 1 ELSE 0
      /\ \A i \in 1 .. z - (o + 1) + 1 : SubSeq(s, o + 1, z)[i] = s[o + 1 + i - 1]
  BY <1>1, <1>2, SubSeqProperties
<1>5. Len(SubSeq(s, o + 1, z)) = IF o >= Len(s) THEN 0 ELSE IF o + n < Len(s) THEN n ELSE Len(s) - o
  BY <1>1, <1>4 DEF z
<1>6. ASSUME NEW i \in 1 .. Len(SubSeq(s, o + 1, z))
      PROVE  i + o \in 1 .. Len(s) /\ SubSeq(s, o + 1, z)[i] = s[i + o]
  <2>1. i \in 1 .. z - (o + 1) + 1 /\ o + 1 + i - 1 = i + o
    BY <1>1, <1>4
  <2>2. SubSeq(s, o + 1, z)[i] = s[i + o]
    BY <1>4, <2>1
  <2> QED
    BY <1>1, <2>1, <2>2
<1> QED
  BY <1>3, <1>4, <1>5, <1>6

\* A slice has elements of the list only; one from the start, that is long enough, has all.
LEMMA SliceRange ==
  ASSUME NEW X, NEW s \in Seq(X), NEW o \in Nat, NEW n \in Nat
  PROVE  /\ S!Range(S!Slice(s, o, n)) \subseteq S!Range(s)
         /\ o = 0 /\ Len(s) <= n => S!Range(S!Slice(s, o, n)) = S!Range(s)
         /\ Len(S!Slice(s, o, n)) <= n
<1> DEFINE l == S!Slice(s, o, n)
<1>1. /\ l \in Seq(X) /\ Len(l) = IF o >= Len(s) THEN 0 ELSE IF o + n < Len(s) THEN n ELSE Len(s) - o
      /\ \A i \in 1 .. Len(l) : i + o \in 1 .. Len(s) /\ l[i] = s[i + o]
  BY SliceOfList
<1> HIDE DEF l
<1>2. S!Range(l) \subseteq S!Range(s)
  BY <1>1 DEF S!Range
<1>3. ASSUME o = 0, Len(s) <= n PROVE S!Range(s) \subseteq S!Range(l)
  <2>1. Len(l) = Len(s) /\ \A i \in 1 .. Len(s) : l[i] = s[i]
    BY <1>1, <1>3
  <2> QED
    BY <1>1, <2>1 DEF S!Range
<1>4. Len(l) <= n
  BY <1>1
<1> QED
  BY <1>2, <1>3, <1>4 DEF l

\* A list without its repetitions.
LEMMA EachOnce ==
  ASSUME NEW X, NEW s \in Seq(X)
  PROVE  S!Unique(s) \in Seq(X) /\ S!Range(S!Unique(s)) = S!Range(s)
<1> DEFINE P == {i \in DOMAIN s : \A j \in 1 .. i - 1 : s[j] # s[i]}
           l == S!Sublist(s, P)
<1>1. P \in SUBSET (1 .. Len(s)) /\ S!Unique(s) = l /\ DOMAIN s = 1 .. Len(s) /\ Len(s) \in Nat
  BY DEF S!Unique
<1> HIDE DEF P
<1>2. /\ l \in Seq(X) /\ Len(l) = Cardinality(P) /\ Cardinality(P) \in Nat
      /\ \A k \in 1 .. Cardinality(P) : \E i \in P : l[k] = s[i]
      /\ \A i \in P : Position(P, i) + 1 \in 1 .. Cardinality(P) /\ l[Position(P, i) + 1] = s[i]
  BY <1>1, PartOfList
<1>3. DOMAIN l = 1 .. Cardinality(P)
  BY <1>2
<1> HIDE DEF l
<1>4. S!Range(l) \subseteq S!Range(s)
  BY <1>1, <1>2, <1>3 DEF S!Range
<1>5. ASSUME NEW i \in DOMAIN s PROVE \E a \in P : s[a] = s[i]
  <2> DEFINE T == {j \in 1 .. Len(s) : s[j] = s[i]}
  <2>1. T \in SUBSET (1 .. Len(s)) /\ i \in T
    BY <1>1
  <2>2. PICK a \in T : \A j \in T : a <= j
    BY <1>1, <2>1, FirstAndLast
  <2>3. \A j \in 1 .. a - 1 : j \in 1 .. Len(s) /\ ~(a <= j)
    BY <1>1
  <2>4. a \in P
    BY <1>1, <2>2, <2>3 DEF P
  <2> QED
    BY <2>4
<1>6. S!Range(s) \subseteq S!Range(l)
  <2> SUFFICES ASSUME NEW i \in DOMAIN s PROVE s[i] \in S!Range(l)
    BY DEF S!Range
  <2>1. PICK a \in P : s[a] = s[i]
    BY <1>5
  <2>2. Position(P, a) + 1 \in DOMAIN l /\ l[Position(P, a) + 1] = s[i]
    BY <1>2, <1>3, <2>1
  <2> QED
    BY <2>2 DEF S!Range
<1> QED
  BY <1>1, <1>2, <1>4, <1>6

\* The chunks in the order of a score.
LEMMA DenseOrder ==
  /\ SearchedChunks \in Nat /\ SearchPage \in Nat \ {0}
  /\ S!Dense \in Seq(S!Chunks) /\ Len(S!Dense) = SearchedChunks /\ S!Range(S!Dense) = S!Chunks
  /\ DOMAIN S!Dense = S!Chunks /\ \A i \in S!Chunks : S!Dense[i] = i
<1>1. SearchedChunks \in Nat /\ SearchPage \in Nat \ {0}
  BY SearchConstants DEF S!SearchAssumption
<1>2. S!Dense \in [1 .. SearchedChunks -> S!Chunks] /\ DOMAIN S!Dense = S!Chunks /\ \A i \in S!Chunks : S!Dense[i] = i
  BY DEF S!Dense, S!Chunks
<1>3. S!Dense \in Seq(S!Chunks) /\ Len(S!Dense) = SearchedChunks
  BY <1>1, <1>2
<1>4. S!Range(S!Dense) = S!Chunks
  BY <1>2 DEF S!Range
<1> QED
  BY <1>1, <1>2, <1>3, <1>4

\* The set of chunks.
LEMMA ChunksAreFinite == IsFiniteSet(S!Chunks) /\ Cardinality(S!Chunks) = SearchedChunks
<1>1. 1 \in Int /\ SearchedChunks \in Int /\ SearchedChunks - 1 + 1 = SearchedChunks /\ (1 > SearchedChunks => SearchedChunks = 0)
  BY DenseOrder
<1> QED
  BY <1>1, FS_Interval DEF S!Chunks

\* In an order every chunk has one place.
LEMMA AnOrder ==
  ASSUME NEW o \in S!Orders
  PROVE  /\ o \in Seq(S!Chunks) /\ Len(o) = SearchedChunks /\ DOMAIN o = S!Chunks
         /\ S!Range(o) = S!Chunks
         /\ \A i, j \in S!Chunks : o[i] = o[j] => i = j
         /\ \A c \in S!Chunks : S!Position(o, c) \in S!Chunks /\ o[S!Position(o, c)] = c
         /\ \A i \in S!Chunks : S!Position(o, o[i]) = i
<1>1. o \in [S!Chunks -> S!Chunks] /\ S!Range(o) = S!Chunks
  BY DEF S!Orders
<1>2. o \in Seq(S!Chunks) /\ Len(o) = SearchedChunks
  BY <1>1, DenseOrder DEF S!Chunks
<1>3. \A c \in S!Chunks : \E i \in S!Chunks : o[i] = c
  BY <1>1 DEF S!Range
<1>4. o \in Surjection(S!Chunks, S!Chunks)
  BY <1>1, <1>3 DEF Surjection
<1>5. o \in Injection(S!Chunks, S!Chunks)
  BY <1>4, ChunksAreFinite, FS_Surjection
<1>6. \A i, j \in S!Chunks : o[i] = o[j] => i = j
  BY <1>1, <1>5 DEF Injection, IsInjective
<1>7. \A c \in S!Chunks : S!Position(o, c) \in S!Chunks /\ o[S!Position(o, c)] = c
  BY <1>3 DEF S!Position
<1>8. \A i \in S!Chunks : S!Position(o, o[i]) = i
  BY <1>1, <1>6, <1>7
<1> QED
  BY <1>1, <1>2, <1>6, <1>7, <1>8

\* A list without repetitions is as long as it has elements: parts of an order are no
\* longer than the lists they are made from.
LEMMA OrderedLength ==
  ASSUME NEW o \in S!Orders, NEW cs \in Seq(S!Chunks)
  PROVE  Len(S!InOrder(o, S!Range(cs))) <= Len(cs)
<1> DEFINE P == {i \in DOMAIN o : o[i] \in S!Range(cs)}
           R == S!Range(cs)
           f == [i \in P |-> o[i]]
<1>1. P \in SUBSET (1 .. Len(o)) /\ P \subseteq S!Chunks /\ o \in Seq(S!Chunks)
  BY AnOrder DEF S!Chunks
<1>2. Len(S!InOrder(o, R)) = Cardinality(P) /\ Cardinality(P) \in Nat
  <2>1. S!InOrder(o, R) = S!Sublist(o, P)
    BY DEF S!InOrder
  <2> HIDE DEF P
  <2> QED
    BY <1>1, <2>1, PartOfList
<1>3. cs \in [1 .. Len(cs) -> R] /\ Len(cs) \in Nat /\ \A r \in R : \E i \in 1 .. Len(cs) : cs[i] = r
  BY DEF S!Range
<1>4. cs \in Surjection(1 .. Len(cs), R)
  BY <1>3 DEF Surjection
<1>5. IsFiniteSet(1 .. Len(cs)) /\ Cardinality(1 .. Len(cs)) = Len(cs)
  <2>1. 1 \in Int /\ Len(cs) \in Int /\ Len(cs) - 1 + 1 = Len(cs) /\ (1 > Len(cs) => Len(cs) = 0)
    BY <1>3
  <2> QED
    BY <2>1, FS_Interval
<1>6. IsFiniteSet(R) /\ Cardinality(R) <= Len(cs) /\ Cardinality(R) \in Nat
  BY <1>4, <1>5, FS_Surjection, FS_CardinalityType
<1>7. f \in Injection(P, R)
  <2>1. \A i, j \in P : f[i] = f[j] => i = j
    BY <1>1, AnOrder
  <2> QED
    BY <2>1 DEF Injection, IsInjective
<1>8. Cardinality(P) <= Cardinality(R)
  <2> HIDE DEF f, P, R
  <2> QED
    BY <1>6, <1>7, FS_Injection
<1> QED
  BY <1>2, <1>3, <1>6, <1>8

\* The first page in an order leaves out only what a page of others precedes.
LEMMA FirstInOrder ==
  ASSUME NEW o \in S!Orders, NEW R \in SUBSET S!Chunks
  PROVE  LET e == S!Slice(S!InOrder(o, R), 0, SearchPage) IN
         /\ e \in Seq(S!Chunks) /\ Len(e) <= SearchPage /\ S!Range(e) \subseteq R
         /\ Len(S!InOrder(o, R)) <= SearchPage => S!Range(e) = R
         /\ \A c \in R :
              c \in S!Range(e) \/ Cardinality({d \in S!Range(e) : S!Position(o, d) < S!Position(o, c)}) >= SearchPage
<1> DEFINE P == {i \in DOMAIN o : o[i] \in R}
           l == S!InOrder(o, R)
           e == S!Slice(l, 0, SearchPage)
<1>1. o \in Seq(S!Chunks) /\ SearchPage \in Nat /\ 0 \in Nat
  BY AnOrder, DenseOrder
<1>2. l \in Seq(S!Chunks) /\ S!Range(l) = R
  <2>1. l \in Seq(S!Chunks) /\ S!Range(l) = S!Range(o) \cap R
    BY <1>1, ElementsInOrder
  <2> QED
    BY <1>1, <2>1, AnOrder
<1>3. e \in Seq(S!Chunks) /\ Len(e) <= SearchPage /\ S!Range(e) \subseteq R /\ (Len(l) <= SearchPage => S!Range(e) = R)
  <2> HIDE DEF l
  <2>1. e \in Seq(S!Chunks)
    BY <1>1, <1>2, SliceOfList
  <2> QED
    BY <1>1, <1>2, <2>1, SliceRange
<1>5. ASSUME NEW c \in R, c \notin S!Range(e)
      PROVE  Cardinality({d \in S!Range(e) : S!Position(o, d) < S!Position(o, c)}) >= SearchPage
  <2> DEFINE i == S!Position(o, c)
             k == Position(P, i) + 1
             D == {d \in S!Range(e) : S!Position(o, d) < i}
             f == [j \in 1 .. SearchPage |-> e[j]]
  <2>1. i \in P /\ o[i] = c
    BY <1>1, AnOrder
  <2>2. P \in SUBSET (1 .. Len(o)) /\ P \subseteq S!Chunks /\ l = S!Sublist(o, P)
    BY AnOrder DEF S!InOrder, S!Chunks
  <2> HIDE DEF P, l
  <2>3. /\ Len(l) = Cardinality(P) /\ Cardinality(P) \in Nat
        /\ \A j \in 1 .. Cardinality(P) : \E p \in P : Position(P, p) = j - 1 /\ l[j] = o[p]
        /\ k \in 1 .. Cardinality(P) /\ l[k] = c
    BY <1>1, <2>1, <2>2, PartOfList
  <2>4. /\ Len(e) = IF 0 >= Len(l) THEN 0 ELSE IF 0 + SearchPage < Len(l) THEN SearchPage ELSE Len(l) - 0
        /\ \A j \in 1 .. Len(e) : j + 0 \in 1 .. Len(l) /\ e[j] = l[j + 0]
    <3>1. Len(e) = IF 0 >= Len(l) THEN 0 ELSE IF 0 + SearchPage < Len(l) THEN SearchPage ELSE Len(l) - 0
      BY <1>1, <1>2, SliceOfList
    <3>2. \A j \in 1 .. Len(e) : j + 0 \in 1 .. Len(l) /\ e[j] = l[j + 0]
      BY <1>1, <1>2, SliceOfList
    <3> QED
      BY <3>1, <3>2
  <2> HIDE DEF e
  <2>5. k > SearchPage
    <3> SUFFICES ASSUME k <= SearchPage PROVE FALSE
      BY <1>1, <2>3
    <3> HIDE DEF k
    <3>1. k \in 1 .. Len(e) /\ e[k] = c
      BY <1>1, <2>3, <2>4
    <3> QED
      BY <1>3, <1>5, <3>1 DEF S!Range
  <2>6. Len(e) = SearchPage /\ \A j \in 1 .. SearchPage : j \in 1 .. Cardinality(P) /\ e[j] = l[j]
    <3> HIDE DEF k
    <3> QED
      BY <1>1, <2>3, <2>4, <2>5
  <2>7. ASSUME NEW j \in 1 .. SearchPage
        PROVE  \E p \in P : Position(P, p) = j - 1 /\ e[j] = o[p] /\ e[j] \in D /\ p \in S!Chunks
    <3>1. PICK p \in P : Position(P, p) = j - 1 /\ e[j] = o[p]
      BY <2>3, <2>6
    <3>2. p \in 1 .. Len(o) /\ i \in 1 .. Len(o) /\ Len(o) \in Nat
      BY <1>1, <2>1, <2>2, AnOrder, DenseOrder
    <3>3. p < i
      <4> SUFFICES ASSUME ~(p < i) PROVE FALSE
        OBVIOUS
      <4>1. p = i \/ i < p
        BY <3>2
      <4>2. Position(P, i) \in Nat /\ Position(P, i) <= Position(P, p)
        <5>1. Position(P, p) \in Nat
          BY <3>1
        <5>2. i < p => Position(P, i) \in Nat /\ Position(P, i) <= Position(P, p)
          BY <2>2, <3>2, RanksGrow
        <5> QED
          BY <4>1, <5>1, <5>2
      <4> QED
        BY <1>1, <2>5, <3>1, <4>2
    <3>4. S!Position(o, e[j]) = p /\ p \in S!Chunks
      BY <2>2, <3>1, AnOrder
    <3>5. e[j] \in S!Range(e)
      BY <1>3, <2>6 DEF S!Range
    <3> QED
      BY <3>1, <3>3, <3>4, <3>5
  <2>8. D \subseteq S!Chunks /\ IsFiniteSet(D) /\ Cardinality(D) \in Nat
    <3>1. D \subseteq S!Chunks
      BY <1>1, <1>3
    <3> QED
      BY <3>1, ChunksAreFinite, FS_Subset, FS_CardinalityType
  <2>9. f \in Injection(1 .. SearchPage, D)
    <3>1. \A j \in 1 .. SearchPage : f[j] \in D
      BY <2>7
    <3>2. ASSUME NEW j \in 1 .. SearchPage, NEW g \in 1 .. SearchPage, f[j] = f[g] PROVE j = g
      <4>1. PICK p \in P : Position(P, p) = j - 1 /\ e[j] = o[p] /\ p \in S!Chunks
        BY <2>7
      <4>2. PICK q \in P : Position(P, q) = g - 1 /\ e[g] = o[q] /\ q \in S!Chunks
        BY <2>7
      <4>3. p = q
        BY <3>2, <4>1, <4>2, AnOrder
      <4> QED
        BY <4>1, <4>2, <4>3
    <3> QED
      BY <3>1, <3>2 DEF Injection, IsInjective
  <2>10. Cardinality(1 .. SearchPage) = SearchPage
    <3>1. 1 \in Int /\ SearchPage \in Int /\ SearchPage - 1 + 1 = SearchPage /\ ~(1 > SearchPage)
      BY DenseOrder
    <3> QED
      BY <3>1, FS_Interval
  <2>11. Cardinality(1 .. SearchPage) <= Cardinality(D)
    <3> HIDE DEF f, D
    <3> QED
      BY <2>8, <2>9, FS_Injection
  <2> QED
    BY <1>1, <2>8, <2>10, <2>11
<1> QED
  BY <1>3, <1>5

\* The cross encoder answers with what it was given, all of it if it fits a page, and
\* leaves out only what a page of others precedes.
LEMMA EncoderAnswers ==
  ASSUME encoded \in S!Orders, NEW cs \in Seq(S!Chunks)
  PROVE  LET e == S!CrossEncoder(cs) IN
         /\ e \in Seq(S!Chunks) /\ Len(e) <= SearchPage /\ S!Range(e) \subseteq S!Range(cs)
         /\ Len(cs) <= SearchPage => S!Range(e) = S!Range(cs)
         /\ \A c \in S!Range(cs) :
              \/ c \in S!Range(e)
              \/ Cardinality({d \in S!Range(e) : S!Position(encoded, d) < S!Position(encoded, c)}) >= SearchPage
<1>1. S!Range(cs) \in SUBSET S!Chunks
  BY DEF S!Range
<1>2. Len(cs) <= SearchPage => Len(S!InOrder(encoded, S!Range(cs))) <= SearchPage
  <2>1. Len(S!InOrder(encoded, S!Range(cs))) <= Len(cs) /\ Len(cs) \in Nat /\ SearchPage \in Nat
    BY OrderedLength, DenseOrder
  <2>2. Len(S!InOrder(encoded, S!Range(cs))) \in Nat
    BY AnOrder, ElementsInOrder
  <2> QED
    BY <2>1, <2>2
<1> QED
  BY <1>1, <1>2, FirstInOrder DEF S!CrossEncoder

\* A chunk that fewer than a page of the others precede is on the first page.
LEMMA OnFirstPage ==
  ASSUME NEW o \in S!Orders, NEW T \in SUBSET S!Chunks, NEW c \in T,
         Cardinality({d \in T : S!Position(o, d) < S!Position(o, c)}) < SearchPage
  PROVE  c \in S!Range(S!Slice(S!InOrder(o, T), 0, SearchPage))
<1> DEFINE e == S!Slice(S!InOrder(o, T), 0, SearchPage)
           better(R) == {d \in R : S!Position(o, d) < S!Position(o, c)}
<1>1. S!Range(e) \subseteq T /\ (c \in S!Range(e) \/ Cardinality(better(S!Range(e))) >= SearchPage)
  BY FirstInOrder
<1>2. better(S!Range(e)) \subseteq better(T) /\ better(T) \subseteq S!Chunks
  BY <1>1
<1> HIDE DEF e
<1>3. Cardinality(better(T)) < SearchPage
  OBVIOUS
<1> HIDE DEF better
<1>4. /\ Cardinality(better(S!Range(e))) <= Cardinality(better(T))
      /\ Cardinality(better(S!Range(e))) \in Nat /\ Cardinality(better(T)) \in Nat
  BY <1>2, ChunksAreFinite, FS_Subset, FS_CardinalityType
<1> QED
  BY <1>1, <1>3, <1>4, DenseOrder DEF e

\* Only a search that is not over groups is spoken of here.
OfChunks == ask.kind \notin S!OfGroups

\* The variables that the answers are about.
SearchTypes ==
  /\ status \in [S!Chunks -> {"new", "row", "whole", "orphan", "gone"}]
  /\ {sparse, later, encoded} \subseteq S!Orders /\ S!Sensible(ask) /\ ask.kind \in Kinds
  /\ at \in {"ask", "ids", "query", "rows", "done"} /\ page \in Nat
  /\ hits \in Seq(S!Chunks) /\ first \in Nat
  /\ pages \in Seq([is : {"found", "error", "panic"}, list : Seq(S!Chunks)])
  /\ steady \subseteq S!Chunks /\ hidden \subseteq S!Chunks

\* Every page that was asked for has an answer, but for one that is awaited.
Turn == IF at \in {"ask", "done"} THEN Len(pages) = page ELSE Len(pages) + 1 = page

\* What became of the chunks that were there when the page was asked for, or were not.
Past ==
  /\ \A c \in hidden : status[c] \in {"orphan", "gone"}
  /\ \A c \in steady : status[c] = "whole"

\* The chunks that fewer than a page of others may be better than, of some that are
\* there all the time.
Better(o, s, c) == {d \in S!Chunks : S!Position(o, d) < S!Position(o, c) /\ s[d] \in {"whole", "orphan", "gone"}}
Wanted(o, s, y) == {c \in y : Cardinality(Better(o, s, c)) < SearchPage}

\* The sort options have Qdrant order all there is.
Prefetched == ask.sort \in S!ByQdrant /\ SearchedChunks <= Prefetch

\* The points found for a first page.
HitsAt == at = "rows" =>
  /\ ask.kind = "chunks" => Len(hits) <= SearchPage
  /\ page = 1 /\ ask.kind \in {"chunks", "extended", "hybrid"} /\ ask.sort \in {"none", "cross"} =>
       Wanted(S!Dense, status, steady) \subseteq S!Range(hits)
  /\ page = 1 /\ ask.kind \in {"chunks", "extended", "hybrid"} /\ Prefetched =>
       Wanted(later, status, steady) \subseteq S!Range(hits)
  /\ page = 1 /\ ask.kind = "hybrid" /\ Prefetched => Len(hits) <= SearchPage

\* The invariant of the answers.
AnswersIInv == OfChunks => SearchTypes /\ Turn /\ Past /\ HitsAt /\ S!AnswersAreCurrent

\* What is expected of an answer.
LEMMA ExpectedIsWanted ==
  /\ \A o : S!Expected(o) = Wanted(o, status, steady)
  /\ S!Expected(S!Dense)' = Wanted(S!Dense, status', steady')
  /\ S!Expected(later)' = Wanted(later', status', steady')
BY DEF S!Expected, S!MayBeBetter, Wanted, Better, S!Cardinality, Cardinality

\* Chunks are only expected while they are there and others are not better.
LEMMA WantedShrinks ==
  ASSUME NEW o, NEW s, NEW t, NEW y \in SUBSET S!Chunks, NEW z \in SUBSET y,
         \A c \in S!Chunks : s[c] \in {"whole", "orphan", "gone"} => t[c] \in {"whole", "orphan", "gone"}
  PROVE  Wanted(o, t, z) \subseteq Wanted(o, s, y)
<1> SUFFICES ASSUME NEW c \in Wanted(o, t, z) PROVE c \in Wanted(o, s, y)
  OBVIOUS
<1>1. c \in z /\ Cardinality(Better(o, t, c)) < SearchPage
  BY DEF Wanted
<1>2. Better(o, s, c) \subseteq Better(o, t, c) /\ Better(o, t, c) \subseteq S!Chunks
  BY DEF Better
<1>3. /\ Cardinality(Better(o, s, c)) <= Cardinality(Better(o, t, c))
      /\ Cardinality(Better(o, s, c)) \in Nat /\ Cardinality(Better(o, t, c)) \in Nat
  BY <1>2, ChunksAreFinite, FS_Subset, FS_CardinalityType
<1>4. Cardinality(Better(o, s, c)) < SearchPage
  BY <1>1, <1>3, DenseOrder
<1> QED
  BY <1>1, <1>4 DEF Wanted

\* An answer that is right stays so, whatever happens to chunks later.
LEMMA AnswersLast ==
  ASSUME AnswersIInv, OfChunks, SearchTypes', UNCHANGED <<later, encoded, ask, page, pages, hidden>>, steady' \subseteq steady,
         \A c \in S!Chunks : status[c] \in {"whole", "orphan", "gone"} => status'[c] \in {"whole", "orphan", "gone"}
  PROVE  S!AnswersAreCurrent'
<1>1. S!Expected(S!Dense)' \subseteq S!Expected(S!Dense) /\ S!Expected(later)' \subseteq S!Expected(later)
  <2>1. steady \in SUBSET S!Chunks /\ steady' \in SUBSET steady
    BY DEF AnswersIInv, SearchTypes
  <2>2. \A o : Wanted(o, status', steady') \subseteq Wanted(o, status, steady)
    BY <2>1, WantedShrinks
  <2> QED
    BY <2>2, ExpectedIsWanted
<1>2. \A c : S!Position(encoded, c)' = S!Position(encoded, c)
  BY DEF S!Position
<1>3. S!AnswersAreCurrent
  BY DEF AnswersIInv
<1>4. pages' = pages /\ page' = page /\ ask' = ask /\ hidden' = hidden /\ later' = later
  OBVIOUS
<1> QED
  BY <1>1, <1>2, <1>3, <1>4 DEF S!AnswersAreCurrent, S!OfGroups, S!ByQdrant

\* The elements of two lists, and of the two halves of one.
LEMMA JoinedRange ==
  ASSUME NEW X, NEW s \in Seq(X), NEW t \in Seq(X)
  PROVE  s \o t \in Seq(X) /\ S!Range(s \o t) = S!Range(s) \cup S!Range(t)
<1> DEFINE j == s \o t
<1>1. /\ j \in Seq(X) /\ Len(j) = Len(s) + Len(t) /\ Len(s) \in Nat /\ Len(t) \in Nat
      /\ \A i \in 1 .. Len(s) + Len(t) : j[i] = IF i <= Len(s) THEN s[i] ELSE t[i - Len(s)]
  BY ConcatProperties
<1> HIDE DEF j
<1>2. DOMAIN j = 1 .. Len(s) + Len(t) /\ DOMAIN s = 1 .. Len(s) /\ DOMAIN t = 1 .. Len(t)
  BY <1>1
<1>3. ASSUME NEW x \in S!Range(j) PROVE x \in S!Range(s) \cup S!Range(t)
  <2>1. PICK i \in 1 .. Len(s) + Len(t) : x = j[i]
    BY <1>2 DEF S!Range
  <2>2. CASE i <= Len(s)
    <3>1. i \in DOMAIN s /\ x = s[i]
      BY <1>1, <1>2, <2>1, <2>2
    <3> QED
      BY <3>1 DEF S!Range
  <2>3. CASE ~(i <= Len(s))
    <3>1. i - Len(s) \in DOMAIN t /\ x = t[i - Len(s)]
      BY <1>1, <1>2, <2>1, <2>3
    <3> QED
      BY <3>1 DEF S!Range
  <2> QED
    BY <2>2, <2>3
<1>4. ASSUME NEW i \in DOMAIN s PROVE s[i] \in S!Range(j)
  <2>1. i \in DOMAIN j /\ j[i] = s[i]
    BY <1>1, <1>2
  <2> QED
    BY <2>1 DEF S!Range
<1>5. ASSUME NEW i \in DOMAIN t PROVE t[i] \in S!Range(j)
  <2>1. i + Len(s) \in DOMAIN j /\ j[i + Len(s)] = t[i]
    BY <1>1, <1>2
  <2> QED
    BY <2>1 DEF S!Range
<1>6. S!Range(s) \cup S!Range(t) \subseteq S!Range(j)
  BY <1>4, <1>5 DEF S!Range
<1> QED
  BY <1>1, <1>3, <1>6 DEF j

\* The halves of a list have its elements.
LEMMA SplitRange ==
  ASSUME NEW X, NEW s \in Seq(X), NEW o \in Nat
  PROVE  S!Range(S!Slice(s, 0, o)) \cup S!Range(S!Slice(s, o, Len(s))) = S!Range(s)
<1> DEFINE u == S!Slice(s, 0, o)
           v == S!Slice(s, o, Len(s))
<1>1. Len(s) \in Nat /\ 0 \in Nat
  OBVIOUS
<1>2. /\ u \in Seq(X) /\ Len(u) = IF 0 >= Len(s) THEN 0 ELSE IF 0 + o < Len(s) THEN o ELSE Len(s) - 0
      /\ \A i \in 1 .. Len(u) : i + 0 \in 1 .. Len(s) /\ u[i] = s[i + 0]
  <2>1. u \in Seq(X)
    BY <1>1, SliceOfList
  <2>2. Len(u) = IF 0 >= Len(s) THEN 0 ELSE IF 0 + o < Len(s) THEN o ELSE Len(s) - 0
    BY <1>1, SliceOfList
  <2>3. \A i \in 1 .. Len(u) : i + 0 \in 1 .. Len(s) /\ u[i] = s[i + 0]
    BY <1>1, SliceOfList
  <2> QED
    BY <2>1, <2>2, <2>3
<1>3. /\ v \in Seq(X) /\ Len(v) = IF o >= Len(s) THEN 0 ELSE IF o + Len(s) < Len(s) THEN Len(s) ELSE Len(s) - o
      /\ \A i \in 1 .. Len(v) : i + o \in 1 .. Len(s) /\ v[i] = s[i + o]
  <2>1. v \in Seq(X)
    BY <1>1, SliceOfList
  <2>2. Len(v) = IF o >= Len(s) THEN 0 ELSE IF o + Len(s) < Len(s) THEN Len(s) ELSE Len(s) - o
    BY <1>1, SliceOfList
  <2>3. \A i \in 1 .. Len(v) : i + o \in 1 .. Len(s) /\ v[i] = s[i + o]
    BY <1>1, SliceOfList
  <2> QED
    BY <2>1, <2>2, <2>3
<1>4. S!Range(u) \subseteq S!Range(s) /\ S!Range(v) \subseteq S!Range(s)
  BY <1>1, SliceRange
<1> HIDE DEF u, v
<1>5. DOMAIN u = 1 .. Len(u) /\ DOMAIN v = 1 .. Len(v) /\ DOMAIN s = 1 .. Len(s)
  BY <1>2, <1>3
<1>6. ASSUME NEW i \in 1 .. Len(s) PROVE s[i] \in S!Range(u) \cup S!Range(v)
  <2>1. CASE i <= o
    <3>1. i \in DOMAIN u /\ u[i] = s[i]
      BY <1>1, <1>2, <1>5, <2>1
    <3> QED
      BY <3>1 DEF S!Range
  <2>2. CASE ~(i <= o)
    <3>0. i - o \in 1 .. Len(v) /\ i - o + o = i
      <4>1. i \in Nat /\ o < i /\ i <= Len(s) /\ ~(o >= Len(s)) /\ ~(o + Len(s) < Len(s))
        BY <1>1, <2>2
      <4>2. Len(v) = Len(s) - o
        BY <1>3, <4>1
      <4> QED
        BY <1>1, <4>1, <4>2
    <3>1. ASSUME NEW j \in 1 .. Len(v), j + o = i PROVE s[i] \in S!Range(v)
      <4>1. j \in DOMAIN v /\ v[j] = s[i]
        BY <1>3, <1>5, <3>1, Zenon
      <4> QED
        BY <4>1, Zenon DEF S!Range
    <3> QED
      BY <3>0, <3>1
  <2> QED
    BY <2>1, <2>2
<1> QED
  BY <1>4, <1>5, <1>6 DEF u, v, S!Range

\* Reranking changes the order only.
LEMMA RerankKeeps ==
  ASSUME later \in S!Orders, NEW r, NEW cs \in Seq(S!Chunks)
  PROVE  /\ S!Rerank(r, cs) \in Seq(S!Chunks) /\ S!Range(S!Rerank(r, cs)) = S!Range(cs)
         /\ Len(S!Rerank(r, cs)) <= Len(cs)
<1>1. S!Range(cs) \subseteq S!Chunks
  BY DEF S!Range
<1>2. /\ S!InOrder(later, S!Range(cs)) \in Seq(S!Chunks)
      /\ S!Range(S!InOrder(later, S!Range(cs))) = S!Range(later) \cap S!Range(cs)
  BY AnOrder, ElementsInOrder
<1>3. S!Range(later) \cap S!Range(cs) = S!Range(cs)
  BY <1>1, AnOrder
<1>4. Len(S!InOrder(later, S!Range(cs))) <= Len(cs) /\ Len(cs) \in Nat
  BY OrderedLength
<1>5. S!Rerank(r, cs) = cs \/ S!Rerank(r, cs) = S!InOrder(later, S!Range(cs))
  BY DEF S!Rerank
<1>6. Len(cs) <= Len(cs)
  BY <1>4
<1> DEFINE l == S!InOrder(later, S!Range(cs))
<1> HIDE DEF l
<1>7. l \in Seq(S!Chunks) /\ S!Range(l) = S!Range(cs) /\ Len(l) <= Len(cs)
  BY <1>2, <1>3, <1>4 DEF l
<1> QED
  BY <1>5, <1>6, <1>7 DEF l

\* What is made of the chunks found: they alone are answered, and which of them.
LEMMA WhatIsAnswered ==
  ASSUME SearchTypes, OfChunks
  PROVE  /\ S!Found \in Seq(S!Chunks) /\ S!Range(S!Found) = S!Range(hits) \cap S!Rows
         /\ S!Result \in Seq(S!Chunks) /\ S!Range(S!Result) \subseteq S!Range(S!Found)
         /\ \/ ask.kind = "extended"
            \/ ask.kind = "chunks" /\ ask.sort # "cross"
            \/ ask.kind \in {"chunks", "hybrid"} /\ Len(hits) <= SearchPage
            => S!Range(S!Result) = S!Range(S!Found)
         /\ ask.kind = "hybrid" =>
              \A c \in S!Range(S!Found) :
                 \/ c \in S!Range(S!Result)
                 \/ Cardinality({d \in S!Range(S!Result) : S!Position(encoded, d) < S!Position(encoded, c)}) >= SearchPage
<1> DEFINE f == S!Found
           E == S!CrossEncoder(f)
<1>0. later \in S!Orders /\ encoded \in S!Orders /\ hits \in Seq(S!Chunks) /\ first \in Nat /\ SearchPage \in Nat /\ 0 \in Nat
  BY DenseOrder DEF SearchTypes
<1>1. f \in Seq(S!Chunks) /\ Len(f) <= Len(hits) /\ S!Range(f) = S!Range(hits) \cap S!Rows
  BY <1>0, ElementsInOrder DEF S!Found
<1>2. Len(f) \in Nat /\ Len(hits) \in Nat
  BY <1>0, <1>1
<1>3. /\ E \in Seq(S!Chunks) /\ Len(E) <= SearchPage /\ S!Range(E) \subseteq S!Range(f)
      /\ Len(f) <= SearchPage => S!Range(E) = S!Range(f)
      /\ \A c \in S!Range(f) :
           \/ c \in S!Range(E)
           \/ Cardinality({d \in S!Range(E) : S!Position(encoded, d) < S!Position(encoded, c)}) >= SearchPage
  BY <1>0, <1>1, EncoderAnswers
<1>11. f = S!Found /\ E = S!CrossEncoder(f)
  OBVIOUS
<1> HIDE DEF f, E
<1>4. /\ S!SearchChunks(ask, f) \in Seq(S!Chunks)
      /\ S!Range(S!SearchChunks(ask, f)) = IF ask.sort = "cross" THEN S!Range(E) ELSE S!Range(f)
  BY <1>0, <1>1, <1>3, RerankKeeps DEF S!SearchChunks, E
<1>5. CASE ask.kind = "chunks"
  <2>1. S!Result = S!SearchChunks(ask, f)
    BY <1>5, <1>11 DEF S!Result, S!Completes, S!Withins
  <2>2. Len(hits) <= SearchPage => Len(f) <= SearchPage
    BY <1>0, <1>1, <1>2
  <2> QED
    BY <1>1, <1>3, <1>4, <1>5, <2>1, <2>2 DEF f
<1>6. CASE ask.kind = "hybrid"
  <2> DEFINE r == S!Rerank(ask, E)
  <2>1. r \in Seq(S!Chunks) /\ S!Range(r) = S!Range(E) /\ Len(r) <= SearchPage
    <3>1. r \in Seq(S!Chunks) /\ S!Range(r) = S!Range(E) /\ Len(r) <= Len(E)
      BY <1>0, <1>3, RerankKeeps
    <3> HIDE DEF r
    <3> QED
      BY <1>0, <1>3, <3>1
  <2>2. S!Result = S!Slice(r, 0, SearchPage)
    BY <1>6, <1>11 DEF S!Result, S!SearchHybrid, S!Completes, S!Withins
  <2> HIDE DEF r
  <2>3. S!Slice(r, 0, SearchPage) \in Seq(S!Chunks) /\ S!Range(S!Slice(r, 0, SearchPage)) = S!Range(E)
    BY <1>0, <2>1, SliceOfList, SliceRange
  <2>4. Len(hits) <= SearchPage => Len(f) <= SearchPage
    BY <1>0, <1>1, <1>2
  <2> QED
    BY <1>1, <1>3, <1>6, <2>2, <2>3, <2>4 DEF f
<1>7. CASE ask.kind = "within"
  <2>1. S!Result = S!SearchChunks(ask, f)
    BY <1>7, <1>11 DEF S!Result, S!Completes, S!Withins, S!SearchWithinGroup
  <2> QED
    BY <1>1, <1>3, <1>4, <1>7, <2>1 DEF f
<1>8. CASE ask.kind = "hybrid_within"
  <2> DEFINE t == S!Slice(f, 0, Window)
             u == S!Slice(f, Window, Window)
             v == S!Rerank(ask, S!CrossEncoder(t))
  <2>0. Window \in Nat
    BY SearchConstants DEF S!SearchAssumption
  <2>1. S!Result = IF Len(f) > Window THEN v \o u ELSE S!Rerank(ask, E)
    BY <1>8, <1>11 DEF S!Result, S!Completes, S!Withins, S!SearchWithinGroup, S!SearchHybridGroup
  <2>2. t \in Seq(S!Chunks) /\ S!Range(t) \subseteq S!Range(f) /\ u \in Seq(S!Chunks) /\ S!Range(u) \subseteq S!Range(f)
    BY <1>0, <1>1, <2>0, SliceOfList, SliceRange
  <2> HIDE DEF t, u
  <2>3. S!CrossEncoder(t) \in Seq(S!Chunks) /\ S!Range(S!CrossEncoder(t)) \subseteq S!Range(t)
    BY <1>0, <2>2, EncoderAnswers
  <2>4. v \in Seq(S!Chunks) /\ S!Range(v) \subseteq S!Range(f)
    BY <1>0, <2>2, <2>3, RerankKeeps
  <2> HIDE DEF v
  <2>5. v \o u \in Seq(S!Chunks) /\ S!Range(v \o u) \subseteq S!Range(f)
    BY <2>2, <2>4, JoinedRange
  <2>6. S!Rerank(ask, E) \in Seq(S!Chunks) /\ S!Range(S!Rerank(ask, E)) \subseteq S!Range(f)
    BY <1>0, <1>3, RerankKeeps
  <2> QED
    BY <1>1, <1>8, <2>1, <2>5, <2>6 DEF f
<1>9. CASE ask.kind \in S!Completes
  <2> DEFINE t == S!Slice(f, 0, first)
             u == S!Slice(f, first, Len(f))
             v == S!Rerank(ask, t)
             w == S!Rerank(ask, u)
  <2>1. S!Result = v \o w
    BY <1>9 DEF S!Result, S!Completes, S!Withins, S!Autocomplete, f
  <2>2. t \in Seq(S!Chunks) /\ u \in Seq(S!Chunks)
    BY <1>0, <1>1, <1>2, SliceOfList
  <2>3. S!Range(t) \cup S!Range(u) = S!Range(f)
    BY <1>0, <1>1, SplitRange
  <2> HIDE DEF t, u
  <2>4. v \in Seq(S!Chunks) /\ S!Range(v) = S!Range(t) /\ w \in Seq(S!Chunks) /\ S!Range(w) = S!Range(u)
    BY <1>0, <2>2, RerankKeeps
  <2> HIDE DEF v, w
  <2>5. v \o w \in Seq(S!Chunks) /\ S!Range(v \o w) = S!Range(f)
    <3>1. v \o w \in Seq(S!Chunks) /\ S!Range(v \o w) = S!Range(v) \cup S!Range(w)
      BY <2>4, JoinedRange
    <3> QED
      BY <2>3, <2>4, <3>1
  <2> QED
    BY <1>1, <1>9, <2>1, <2>5 DEF f, S!Completes
<1>10. CASE ask.kind \notin {"chunks", "hybrid"} \cup S!Withins \cup S!Completes
  <2>1. S!Result = f
    BY <1>10 DEF S!Result, S!Completes, S!Withins, OfChunks, S!OfGroups, f
  <2> QED
    BY <1>1, <1>10, <2>1 DEF f, S!Completes
<1> QED
  BY <1>5, <1>6, <1>7, <1>8, <1>9, <1>10 DEF S!Withins

\* The orders a search begins with.
LEMMA OrdersToBeginWith == S!Dense \in S!Orders /\ S!Reverse(S!Dense) \in S!Orders
<1>1. S!Dense \in S!Orders
  <2>1. S!Dense \in [S!Chunks -> S!Chunks]
    BY DEF S!Dense
  <2> QED
    BY <2>1, DenseOrder DEF S!Orders
<1>2. S!Reverse(S!Dense) \in S!Orders
  <2> DEFINE r == [i \in 1 .. SearchedChunks |-> S!Dense[(SearchedChunks - i) + 1]]
  <2>1. S!Reverse(S!Dense) = r
    BY DenseOrder DEF S!Reverse
  <2>2. \A i \in S!Chunks : SearchedChunks - i + 1 \in S!Chunks /\ SearchedChunks - (SearchedChunks - i + 1) + 1 = i
    BY DenseOrder DEF S!Chunks
  <2>3. r \in [S!Chunks -> S!Chunks] /\ DOMAIN r = S!Chunks /\ \A i \in S!Chunks : r[i] = SearchedChunks - i + 1
    <3>1. \A i \in S!Chunks : S!Dense[SearchedChunks - i + 1] = SearchedChunks - i + 1
      BY <2>2, DenseOrder
    <3>2. S!Chunks = 1 .. SearchedChunks
      BY DEF S!Chunks
    <3> QED
      BY <2>2, <3>1, <3>2
  <2> HIDE DEF r
  <2>4. S!Range(r) = S!Chunks
    <3>1. \A i \in S!Chunks : r[SearchedChunks - i + 1] = i
      BY <2>2, <2>3
    <3>2. S!Range(r) \subseteq S!Chunks
      BY <2>2, <2>3 DEF S!Range
    <3>3. S!Chunks \subseteq S!Range(r)
      BY <2>2, <2>3, <3>1 DEF S!Range
    <3> QED
      BY <3>2, <3>3
  <2> QED
    BY <2>1, <2>3, <2>4 DEF S!Orders
<1> QED
  BY <1>1, <1>2

\* A search begins with the invariant.
LEMMA AnswersInit == S!Init => AnswersIInv
<1> SUFFICES ASSUME S!Init, OfChunks PROVE SearchTypes /\ Turn /\ Past /\ HitsAt /\ S!AnswersAreCurrent
  BY DEF AnswersIInv
<1>1. /\ status \in [S!Chunks -> {"new", "whole"}] /\ ask \in S!Requests /\ S!Sensible(ask)
      /\ at = "ask" /\ page = 0 /\ hits = << >> /\ first = 0 /\ pages = << >> /\ steady = {} /\ hidden = {}
  BY DEF S!Init
<1>2. ask.kind \in Kinds
  BY <1>1 DEF S!Requests
<1>3. {sparse, later, encoded} \subseteq S!Orders
  BY OrdersToBeginWith DEF S!Init, S!Extremes
<1>4. SearchTypes
  BY <1>1, <1>2, <1>3 DEF SearchTypes
<1>5. Turn
  BY <1>1 DEF Turn
<1>6. Past /\ HitsAt /\ S!AnswersAreCurrent
  BY <1>1 DEF Past, HitsAt, S!AnswersAreCurrent
<1> QED
  BY <1>4, <1>5, <1>6

\* What is found before is answered says nothing yet.
LEMMA NotAnsweredYet ==
  ASSUME SearchTypes', Turn', at' \notin {"ask", "done"}
  PROVE  S!AnswersAreCurrent'
<1>1. Len(pages') + 1 = page' /\ Len(pages') \in Nat
  BY DEF SearchTypes, Turn
<1>2. Len(pages') # page'
  BY <1>1
<1> QED
  BY <1>2 DEF S!AnswersAreCurrent

\* An answer is the last of the pages.
LEMMA Answered ==
  ASSUME SearchTypes, NEW is \in {"found", "error", "panic"}, NEW l \in Seq(S!Chunks), NEW next, S!Answer(is, l, next)
  PROVE  /\ pages' \in Seq([is : {"found", "error", "panic"}, list : Seq(S!Chunks)])
         /\ Len(pages') = Len(pages) + 1 /\ S!Last(pages') = [is |-> is, list |-> l] /\ at' = next
<1> DEFINE e == [is |-> is, list |-> l]
           E == [is : {"found", "error", "panic"}, list : Seq(S!Chunks)]
<1>1. pages \in Seq(E) /\ e \in E /\ pages' = Append(pages, e) /\ at' = next
  BY DEF SearchTypes, S!Answer
<1> HIDE DEF e, E
<1>2. /\ Append(pages, e) \in Seq(E) /\ Len(Append(pages, e)) = Len(pages) + 1
      /\ Append(pages, e)[Len(pages) + 1] = e
  BY <1>1, AppendProperties
<1> QED
  BY <1>1, <1>2 DEF S!Last, e, E

\* An answer that no chunks were found for, or a lost one.
LEMMA NothingAnswered ==
  ASSUME AnswersIInv, OfChunks, NEW is \in {"error", "panic"}, S!Answer(is, << >>, "done"),
         at \notin {"ask", "done"}, hits' \in Seq(S!Chunks),
         UNCHANGED <<status, sparse, later, encoded, ask, page, first, steady, hidden>>
  PROVE  AnswersIInv'
<1>1. SearchTypes /\ Turn /\ Past
  BY DEF AnswersIInv
<1>2. << >> \in Seq(S!Chunks)
  OBVIOUS
<1>3. /\ pages' \in Seq([is : {"found", "error", "panic"}, list : Seq(S!Chunks)])
      /\ Len(pages') = Len(pages) + 1 /\ S!Last(pages') = [is |-> is, list |-> << >>] /\ at' = "done"
  BY <1>1, <1>2, Answered
<1>4. SearchTypes'
  BY <1>1, <1>3 DEF SearchTypes, S!Orders, S!Sensible
<1>5. Turn'
  BY <1>1, <1>3 DEF Turn
<1>6. Past' /\ HitsAt'
  BY <1>1, <1>3 DEF Past, HitsAt
<1>7. S!AnswersAreCurrent'
  BY <1>3 DEF S!AnswersAreCurrent
<1> QED
  BY <1>4, <1>5, <1>6, <1>7 DEF AnswersIInv

\* What a step that answers nothing and finds nothing for good has to keep.
LEMMA StillAwaited ==
  ASSUME AnswersIInv, OfChunks, at \notin {"ask", "done"}, at' \in {"ids", "query", "rows"}, hits' \in Seq(S!Chunks),
         first' \in Nat, HitsAt', UNCHANGED <<status, sparse, later, encoded, ask, page, pages, steady, hidden>>
  PROVE  AnswersIInv'
<1>1. SearchTypes /\ Turn /\ Past
  BY DEF AnswersIInv
<1>2. SearchTypes'
  BY <1>1 DEF SearchTypes, S!Orders, S!Sensible
<1>3. Turn' /\ Past'
  BY <1>1 DEF Turn, Past
<1>4. S!AnswersAreCurrent'
  BY <1>2, <1>3, NotAnsweredYet
<1> QED
  BY <1>2, <1>3, <1>4 DEF AnswersIInv

\* Ingestions and deletions go on.
LEMMA AnswersChange ==
  ASSUME AnswersIInv, OfChunks, NEW c \in S!Chunks, S!Change(c)
  PROVE  AnswersIInv'
<1>1. SearchTypes /\ Turn /\ Past /\ HitsAt /\ S!AnswersAreCurrent
  BY DEF AnswersIInv
<1>2. /\ status[c] # "gone" /\ status' = [status EXCEPT ![c] = S!After[status[c]]] /\ steady' = steady \ {c}
      /\ UNCHANGED <<sparse, later, encoded, ask, at, page, hits, first, pages, hidden>>
  BY DEF S!Change
<1>3. status \in [S!Chunks -> {"new", "row", "whole", "orphan", "gone"}]
  BY <1>1 DEF SearchTypes
<1>4. /\ S!After[status[c]] \in {"row", "whole", "orphan", "gone"}
      /\ status[c] = "whole" => S!After[status[c]] = "orphan"
      /\ status[c] = "orphan" => S!After[status[c]] = "gone"
  BY <1>2, <1>3 DEF S!After
<1>5. /\ status' \in [S!Chunks -> {"new", "row", "whole", "orphan", "gone"}]
      /\ status'[c] = S!After[status[c]] /\ \A d \in S!Chunks \ {c} : status'[d] = status[d]
  BY <1>2, <1>3, <1>4
<1>6. \A d \in S!Chunks : /\ status[d] \in {"whole", "orphan", "gone"} => status'[d] \in {"whole", "orphan", "gone"}
                          /\ status[d] \in {"orphan", "gone"} => status'[d] \in {"orphan", "gone"}
  BY <1>2, <1>4, <1>5
<1>7. SearchTypes' /\ steady' \subseteq steady
  BY <1>1, <1>2, <1>5 DEF SearchTypes, S!Orders, S!Sensible
<1>8. Turn'
  BY <1>1, <1>2 DEF Turn
<1>9. Past'
  BY <1>1, <1>2, <1>5, <1>6 DEF Past, SearchTypes
<1>10. HitsAt'
  <2>1. steady \in SUBSET S!Chunks /\ steady' \in SUBSET steady
    BY <1>1, <1>7 DEF SearchTypes
  <2>2. \A o : Wanted(o, status', steady') \subseteq Wanted(o, status, steady)
    BY <1>6, <2>1, WantedShrinks
  <2> QED
    BY <1>1, <1>2, <2>2 DEF HitsAt, Prefetched, S!ByQdrant
<1>11. S!AnswersAreCurrent'
  BY <1>2, <1>6, <1>7, AnswersLast
<1> QED
  BY <1>7, <1>8, <1>9, <1>10, <1>11 DEF AnswersIInv

\* The next page is asked for.
LEMMA AnswersAsk ==
  ASSUME AnswersIInv, OfChunks, S!Ask
  PROVE  AnswersIInv'
<1>1. SearchTypes /\ Turn
  BY DEF AnswersIInv
<1>2. /\ at = "ask" /\ page' = page + 1 /\ at' \in {"ids", "query"} /\ hits' = << >>
      /\ steady' = {c \in S!Chunks : status[c] = "whole"}
      /\ hidden' = {c \in S!Chunks : status[c] \in {"orphan", "gone"}}
      /\ UNCHANGED <<status, sparse, later, encoded, ask, first, pages>>
  BY DEF S!Ask
<1>3. SearchTypes'
  BY <1>1, <1>2 DEF SearchTypes, S!Orders, S!Sensible
<1>4. Turn'
  BY <1>1, <1>2 DEF Turn
<1>5. Past' /\ HitsAt'
  BY <1>2 DEF Past, HitsAt
<1>6. S!AnswersAreCurrent'
  BY <1>2, <1>3, <1>4, NotAnsweredYet
<1> QED
  BY <1>3, <1>4, <1>5, <1>6 DEF AnswersIInv

\* The points a request starts from are looked up, or are not there.
LEMMA AnswersStart ==
  ASSUME AnswersIInv, OfChunks, NEW cs, S!StartFrom(cs)
  PROVE  AnswersIInv'
<1>1. at = "ids" /\ UNCHANGED <<status, sparse, later, encoded, ask, page, first, steady, hidden>> /\ first \in Nat
  BY DEF AnswersIInv, SearchTypes, S!StartFrom
<1>2. CASE cs = {}
  <2>1. S!Answer("error", << >>, "done") /\ hits' = << >>
    BY <1>2 DEF S!StartFrom
  <2> QED
    BY <1>1, <2>1, NothingAnswered
<1>3. CASE cs # {}
  <2>1. hits' = S!InOrder(S!Dense, cs) /\ at' = "query" /\ pages' = pages
    BY <1>3 DEF S!StartFrom
  <2>2. hits' \in Seq(S!Chunks)
    BY <2>1, DenseOrder, ElementsInOrder
  <2>3. HitsAt'
    BY <2>1 DEF HitsAt
  <2> QED
    BY <1>1, <2>1, <2>2, <2>3, StillAwaited
<1> QED
  BY <1>2, <1>3

\* The points of a recommendation are found, or one it starts from is not there.
LEMMA AnswersRecommend ==
  ASSUME AnswersIInv, OfChunks, NEW found \in Seq(S!Chunks), S!RecommendFrom(found), ask.kind = "recommend"
  PROVE  AnswersIInv'
<1>1. at = "query" /\ UNCHANGED <<status, sparse, later, encoded, ask, page, first, steady, hidden>> /\ first \in Nat
  BY DEF AnswersIInv, SearchTypes, S!RecommendFrom
<1>2. CASE ~(S!Range(hits) \subseteq S!Points)
  <2>1. hits' = << >> /\ S!Answer("error", << >>, "done")
    BY <1>2 DEF S!RecommendFrom
  <2> QED
    BY <1>1, <2>1, NothingAnswered
<1>3. CASE S!Range(hits) \subseteq S!Points
  <2>1. hits' = found /\ at' = "rows" /\ pages' = pages
    BY <1>3 DEF S!RecommendFrom
  <2>2. HitsAt'
    BY <1>1 DEF HitsAt
  <2> QED
    BY <1>1, <2>1, <2>2, StillAwaited
<1> QED
  BY <1>2, <1>3

\* The offset of a page.
LEMMA OffsetOfPage ==
  ASSUME NEW p \in Nat \ {0}
  PROVE  S!Offset(p) \in Nat /\ (p = 1 => S!Offset(p) = 0)
<1>1. SearchPage \in Nat /\ p - 1 \in Nat
  BY DenseOrder
<1>2. \A a, b \in Nat : a * b \in Nat
  OBVIOUS
<1>3. SearchPage * (p - 1) \in Nat
  BY <1>1, <1>2
<1>4. SearchPage * 0 = 0
  BY <1>1
<1> QED
  BY <1>3, <1>4 DEF S!Offset

\* A query finds at most a page of chunks.
LEMMA FoundByQuery ==
  ASSUME SearchTypes, NEW q, q.order \in S!Orders, NEW p \in Nat \ {0}
  PROVE  S!Search(q, p) \in Seq(S!Chunks) /\ Len(S!Search(q, p)) <= SearchPage
<1> DEFINE l == S!Ordered(q, S!Offset(p))
           T == S!Range(S!Slice(S!InOrder(q.order, S!Points \cap q.within), 0,
                                Prefetch * (1 + S!Offset(p) \div Prefetch)))
<1>1. S!Offset(p) \in Nat /\ SearchPage \in Nat
  BY OffsetOfPage, DenseOrder
<1>2. q.order \in Seq(S!Chunks) /\ later \in Seq(S!Chunks)
  BY AnOrder DEF SearchTypes
<1>3. S!InOrder(q.order, S!Points \cap q.within) \in Seq(S!Chunks) /\ S!InOrder(later, T) \in Seq(S!Chunks)
  BY <1>2, ElementsInOrder
<1>4. l = IF q.prefetch THEN S!InOrder(later, T) ELSE S!InOrder(q.order, S!Points \cap q.within)
  BY DEF S!Ordered
<1> HIDE DEF T, l
<1>5. l \in Seq(S!Chunks)
  BY <1>3, <1>4
<1>6. S!Search(q, p) = S!Slice(l, S!Offset(p), SearchPage)
  BY DEF S!Search, l
<1> QED
  BY <1>1, <1>5, <1>6, SliceOfList, SliceRange

\* A prefetch of all there is leaves the order of the sort options.
LEMMA AllPrefetched ==
  ASSUME SearchTypes, SearchedChunks <= Prefetch, NEW q, q.order \in S!Orders, q.within = S!Chunks, q.prefetch
  PROVE  S!Ordered(q, 0) = S!InOrder(later, S!Points)
<1> DEFINE found == S!InOrder(q.order, S!Points)
           n == Prefetch * (1 + 0 \div Prefetch)
           best == S!Slice(found, 0, n)
<1>1. S!Points \subseteq S!Chunks /\ S!Points \cap q.within = S!Points
  BY DEF S!Points
<1>2. S!Ordered(q, 0) = S!InOrder(later, S!Range(best))
  BY <1>1 DEF S!Ordered
<1>3. n = Prefetch /\ n \in Nat
  <2>1. Prefetch \in Nat \ {0}
    BY SearchConstants DEF S!SearchAssumption
  <2> QED
    BY <2>1
<1>4. q.order \in Seq(S!Chunks) /\ Len(q.order) = SearchedChunks /\ S!Range(q.order) = S!Chunks
  BY AnOrder
<1>5. found \in Seq(S!Chunks) /\ S!Range(found) = S!Chunks \cap S!Points
  BY <1>4, ElementsInOrder
<1>6. Len(found) <= SearchedChunks
  <2> DEFINE P == {i \in DOMAIN q.order : q.order[i] \in S!Points}
  <2>1. P \in SUBSET (1 .. Len(q.order)) /\ found = S!Sublist(q.order, P)
    BY <1>4 DEF S!InOrder
  <2> HIDE DEF P, found
  <2>2. Len(S!Sublist(q.order, P)) = Cardinality(P) /\ Cardinality(P) <= Len(q.order)
    BY <1>4, <2>1, PartOfList
  <2> QED
    BY <1>4, <2>1, <2>2
<1> HIDE DEF n, found
<1>7. S!Range(best) = S!Range(found)
  <2>1. Len(found) <= n /\ 0 \in Nat
    BY <1>3, <1>5, <1>6, DenseOrder
  <2> QED
    BY <1>3, <1>5, <2>1, SliceRange
<1> HIDE DEF best
<1> QED
  BY <1>1, <1>2, <1>5, <1>7

\* A query for all chunks finds what is wanted on a first page, in the order it ends with.
LEMMA WantedIsFound ==
  ASSUME SearchTypes, Past, NEW q, q.order \in S!Orders, q.within = S!Chunks,
         NEW o \in S!Orders, S!Ordered(q, 0) = S!InOrder(o, S!Points)
  PROVE  Wanted(o, status, steady) \subseteq S!Range(S!Search(q, 1))
<1>1. S!Points \in SUBSET S!Chunks
  BY DEF S!Points
<1>2. S!Offset(1) = 0
  BY OffsetOfPage
<1>3. S!Search(q, 1) = S!Slice(S!InOrder(o, S!Points), 0, SearchPage)
  BY <1>2 DEF S!Search
<1> SUFFICES ASSUME NEW c \in Wanted(o, status, steady) PROVE c \in S!Range(S!Search(q, 1))
  OBVIOUS
<1>4. c \in steady /\ Cardinality(Better(o, status, c)) < SearchPage
  BY DEF Wanted
<1>5. c \in S!Points
  BY <1>4 DEF Past, SearchTypes, S!Points
<1> DEFINE D == {d \in S!Points : S!Position(o, d) < S!Position(o, c)}
<1>6. D \subseteq Better(o, status, c) /\ Better(o, status, c) \subseteq S!Chunks
  BY DEF S!Points, Better
<1> HIDE DEF D
<1>7. /\ Cardinality(D) <= Cardinality(Better(o, status, c))
      /\ Cardinality(D) \in Nat /\ Cardinality(Better(o, status, c)) \in Nat
  BY <1>6, ChunksAreFinite, FS_Subset, FS_CardinalityType
<1>8. Cardinality(D) < SearchPage
  BY <1>4, <1>7, DenseOrder
<1> QED
  BY <1>1, <1>3, <1>5, <1>8, OnFirstPage DEF D

\* The parts of a query.
LEMMA PartsOfQuery ==
  ASSUME NEW o, NEW w, NEW sort
  PROVE  /\ S!Query(o, w, sort).order = o /\ S!Query(o, w, sort).within = w
         /\ sort \in {"none", "cross"} => ~S!Query(o, w, sort).prefetch
         /\ sort \in S!ByQdrant => S!Query(o, w, sort).prefetch
<1>1. S!Query(o, w, sort).order = o /\ S!Query(o, w, sort).within = w
  BY DEF S!Query
<1>2. S!Query(o, w, sort).prefetch = (sort \in S!ByQdrant)
  BY Zenon DEF S!Query
<1>3. sort \in {"none", "cross"} => ~(sort \in S!ByQdrant)
  BY DEF S!ByQdrant
<1> QED
  BY <1>1, <1>2, <1>3, Zenon

\* A query for all chunks, with the sort options of the request.
OfAll(q) ==
  /\ q.order \in S!Orders /\ q.within = S!Chunks
  /\ ask.sort \in {"none", "cross"} => ~q.prefetch
  /\ ask.sort \in S!ByQdrant => q.prefetch

\* It finds what is wanted on a first page.
LEMMA FoundOfAll ==
  ASSUME SearchTypes, Past, NEW q, OfAll(q)
  PROVE  /\ q.order = S!Dense /\ ask.sort \in {"none", "cross"} =>
              Wanted(S!Dense, status, steady) \subseteq S!Range(S!Search(q, 1))
         /\ Prefetched => /\ Wanted(later, status, steady) \subseteq S!Range(S!Search(q, 1))
                          /\ S!Search(q, 1) = S!Slice(S!InOrder(later, S!Points), 0, SearchPage)
<1>1. S!Points \cap q.within = S!Points
  BY DEF OfAll, S!Points
<1>2. q.order \in S!Orders /\ later \in S!Orders /\ q.within = S!Chunks
  BY DEF OfAll, SearchTypes
<1>3. ASSUME q.order = S!Dense, ask.sort \in {"none", "cross"}
      PROVE  Wanted(S!Dense, status, steady) \subseteq S!Range(S!Search(q, 1))
  <2>1. S!Ordered(q, 0) = S!InOrder(S!Dense, S!Points)
    BY <1>1, <1>3 DEF S!Ordered, OfAll
  <2> QED
    BY <1>2, <1>3, <2>1, WantedIsFound
<1>4. ASSUME Prefetched
      PROVE  /\ Wanted(later, status, steady) \subseteq S!Range(S!Search(q, 1))
             /\ S!Search(q, 1) = S!Slice(S!InOrder(later, S!Points), 0, SearchPage)
  <2>1. q.prefetch /\ SearchedChunks <= Prefetch
    BY <1>4 DEF Prefetched, OfAll
  <2>2. S!Ordered(q, 0) = S!InOrder(later, S!Points)
    BY <1>2, <2>1, AllPrefetched
  <2>3. S!Offset(1) = 0
    BY OffsetOfPage
  <2> QED
    BY <1>2, <2>2, <2>3, WantedIsFound DEF S!Search
<1> QED
  BY <1>3, <1>4

\* Each element of a list that is joined to itself is kept once.
LEMMA TwiceTheSame ==
  ASSUME NEW s \in Seq(S!Chunks)
  PROVE  Len(S!Unique(s \o s)) <= Len(s)
<1> DEFINE j == s \o s
           n == Len(s)
           P == {i \in DOMAIN j : \A k \in 1 .. i - 1 : j[k] # j[i]}
<1>1. /\ j \in Seq(S!Chunks) /\ Len(j) = n + n /\ n \in Nat
      /\ \A i \in 1 .. n + n : j[i] = IF i <= n THEN s[i] ELSE s[i - n]
  BY ConcatProperties
<1>2. S!Unique(j) = S!Sublist(j, P)
  BY DEF S!Unique
<1> HIDE DEF j, n
<1>3. P \in SUBSET (1 .. Len(j)) /\ P \subseteq 1 .. n
  <2> SUFFICES ASSUME NEW i \in P PROVE i \in 1 .. Len(j) /\ i \in 1 .. n
    OBVIOUS
  <2>1. i \in 1 .. Len(j) /\ i \in 1 .. n + n /\ \A k \in 1 .. i - 1 : j[k] # j[i]
    BY <1>1
  <2>2. ASSUME ~(i <= n) PROVE FALSE
    <3>1. i - n \in 1 .. i - 1 /\ i - n \in 1 .. n + n /\ i - n <= n
      BY <1>1, <2>1, <2>2
    <3>2. j[i - n] = s[i - n] /\ j[i] = s[i - n]
      BY <1>1, <2>1, <2>2, <3>1
    <3> QED
      BY <2>1, <3>1, <3>2
  <2> QED
    BY <2>1, <2>2
<1> HIDE DEF P
<1>4. Len(S!Sublist(j, P)) = Cardinality(P)
  BY <1>1, <1>3, PartOfList
<1>5. IsFiniteSet(1 .. n) /\ Cardinality(1 .. n) = n
  <2>1. 1 \in Int /\ n \in Int /\ n - 1 + 1 = n /\ (1 > n => n = 0)
    BY <1>1
  <2> QED
    BY <2>1, FS_Interval
<1>6. Cardinality(P) <= n
  BY <1>3, <1>5, FS_Subset
<1> QED
  BY <1>2, <1>4, <1>6 DEF j, n

\* The points of a search for chunks are found.
LEMMA AnswersQuery ==
  ASSUME AnswersIInv, OfChunks, S!QueryChunks
  PROVE  AnswersIInv'
<1> DEFINE qs == S!Queries(ask)
           bs == [i \in DOMAIN qs |-> S!Search(qs[i], page)]
           all == IF Len(bs) = 1 THEN bs[1] ELSE bs[1] \o bs[2]
<1>1. SearchTypes /\ Turn /\ Past
  BY DEF AnswersIInv
<1>2. /\ at = "query" /\ ask.kind \notin S!OfGroups \cup S!Recommends \cup {"scroll"}
      /\ hits' = S!Unique(all) /\ first' = Len(bs[1]) /\ at' = "rows"
      /\ UNCHANGED <<status, sparse, later, encoded, ask, page, pages, steady, hidden>>
  BY DEF S!QueryChunks
<1>3. page \in Nat \ {0}
  BY <1>1, <1>2 DEF Turn, SearchTypes
<1>4. ask.kind \in {"chunks", "within", "hybrid", "hybrid_within", "autocomplete", "extended"}
  BY <1>1, <1>2, SearchConstants DEF SearchTypes, S!SearchAssumption, S!OfGroups, S!Recommends
<1>5. S!Dense \in S!Orders /\ sparse \in S!Orders
  BY <1>1, OrdersToBeginWith DEF SearchTypes
<1>6. /\ DOMAIN qs = 1 .. 1 \/ DOMAIN qs = 1 .. 2
      /\ \A i \in DOMAIN qs : qs[i].order \in S!Orders
      /\ ask.kind = "chunks" => DOMAIN qs = 1 .. 1
      /\ ask.kind \in {"chunks", "hybrid"} => OfAll(qs[1]) /\ qs[1].order = S!Dense
      /\ ask.kind = "extended" => DOMAIN qs = 1 .. 2 /\ OfAll(qs[2]) /\ qs[2].order = S!Dense
      /\ ask.kind = "hybrid" => DOMAIN qs = 1 .. 2 /\ OfAll(qs[2])
  <2> DEFINE query(o, w) == S!Query(o, w, ask.sort)
  <2>0. ASSUME NEW o \in S!Orders PROVE OfAll(query(o, S!Chunks)) /\ query(o, S!Chunks).order = o
    BY PartsOfQuery DEF OfAll
  <2>6. \A o, w : query(o, w).order = o
    BY PartsOfQuery
  <2>1. CASE ask.kind \in {"chunks", "within"}
    <3>1. qs = <<query(S!Dense, S!Chunks)>>
      BY <2>1 DEF S!Queries
    <3> HIDE DEF query, qs
    <3>2. DOMAIN qs = 1 .. 1 /\ qs[1] = query(S!Dense, S!Chunks)
      BY <3>1
    <3> QED
      BY <1>5, <2>0, <2>1, <3>2
  <2>2. CASE ask.kind = "hybrid"
    <3>1. qs = <<query(S!Dense, S!Chunks), query(sparse, S!Chunks)>>
      BY <2>2 DEF S!Queries
    <3> HIDE DEF query, qs
    <3>2. DOMAIN qs = 1 .. 2 /\ qs[1] = query(S!Dense, S!Chunks) /\ qs[2] = query(sparse, S!Chunks)
      BY <3>1
    <3> QED
      BY <1>5, <2>0, <2>2, <3>2
  <2>3. CASE ask.kind = "hybrid_within"
    <3>1. qs = <<query(S!Dense, S!Members(ask.of)), query(sparse, S!Members(ask.of))>>
      BY <2>3 DEF S!Queries
    <3> HIDE DEF query, qs
    <3> QED
      BY <1>5, <2>3, <2>6, <3>1
  <2>4. CASE ask.kind = "autocomplete"
    <3>1. qs = <<query(S!Dense, S!Matching)>>
      BY <2>4 DEF S!Queries
    <3> HIDE DEF query, qs
    <3> QED
      BY <1>5, <2>4, <2>6, <3>1
  <2>5. CASE ask.kind = "extended"
    <3>1. qs = <<query(S!Dense, S!Matching), query(S!Dense, S!Chunks)>>
      BY <2>5 DEF S!Queries
    <3> HIDE DEF query, qs
    <3>2. DOMAIN qs = 1 .. 2 /\ qs[1] = query(S!Dense, S!Matching) /\ qs[2] = query(S!Dense, S!Chunks)
      BY <3>1
    <3> QED
      BY <1>5, <2>0, <2>5, <2>6, <3>2
  <2> QED
    BY <1>4, <2>1, <2>2, <2>3, <2>4, <2>5
<1>15. ~(1 .. 1 = 1 .. 2)
  OBVIOUS
<1> HIDE DEF qs
<1>7. \A i \in DOMAIN qs : bs[i] \in Seq(S!Chunks) /\ Len(bs[i]) <= SearchPage
  <2>1. ASSUME NEW i \in DOMAIN qs
        PROVE  S!Search(qs[i], page) \in Seq(S!Chunks) /\ Len(S!Search(qs[i], page)) <= SearchPage
    BY <1>1, <1>3, <1>6, FoundByQuery
  <2> QED
    BY <2>1
<1>8. /\ DOMAIN bs = DOMAIN qs /\ \A i \in DOMAIN qs : bs[i] = S!Search(qs[i], page)
      /\ (Len(bs) = 1 /\ DOMAIN bs = 1 .. 1) \/ (Len(bs) = 2 /\ DOMAIN bs = 1 .. 2)
  <2>1. bs \in [DOMAIN qs -> Seq(S!Chunks)] /\ DOMAIN bs = DOMAIN qs
    BY <1>7
  <2>4. \A i \in DOMAIN qs : bs[i] = S!Search(qs[i], page)
    OBVIOUS
  <2> HIDE DEF bs
  <2>2. DOMAIN qs = 1 .. 1 => Len(bs) = 1
    BY <2>1
  <2>3. DOMAIN qs = 1 .. 2 => Len(bs) = 2
    BY <2>1
  <2>5. DOMAIN qs = 1 .. 1 \/ DOMAIN qs = 1 .. 2
    BY <1>6
  <2>6. (Len(bs) = 1 /\ DOMAIN bs = 1 .. 1) \/ (Len(bs) = 2 /\ DOMAIN bs = 1 .. 2)
    BY <2>1, <2>2, <2>3, <2>5
  <2> QED
    BY <2>1, <2>4, <2>6
<1> HIDE DEF bs
<1>9. /\ all \in Seq(S!Chunks) /\ \A i \in DOMAIN qs : S!Range(bs[i]) \subseteq S!Range(all)
      /\ Len(bs) = 1 => all = bs[1]
  <2>1. CASE Len(bs) = 1
    BY <1>7, <1>8, <2>1
  <2>2. CASE Len(bs) = 2
    <3>1. bs[1] \in Seq(S!Chunks) /\ bs[2] \in Seq(S!Chunks) /\ all = bs[1] \o bs[2] /\ DOMAIN qs = 1 .. 2
      BY <1>7, <1>8, <2>2
    <3> HIDE DEF all
    <3>2. all \in Seq(S!Chunks) /\ S!Range(all) = S!Range(bs[1]) \cup S!Range(bs[2])
      BY <3>1, JoinedRange
    <3> QED
      BY <2>2, <3>1, <3>2
  <2> QED
    BY <1>8, <2>1, <2>2
<1> HIDE DEF all
<1>10. hits' \in Seq(S!Chunks) /\ S!Range(hits') = S!Range(all) /\ first' \in Nat
  <2>1. bs[1] \in Seq(S!Chunks)
    BY <1>7, <1>8
  <2> QED
    BY <1>2, <1>9, <2>1, EachOnce
<1>11. ask.kind = "chunks" => Len(hits') <= SearchPage
  <2> SUFFICES ASSUME ask.kind = "chunks" PROVE Len(hits') <= SearchPage
    OBVIOUS
  <2>1. Len(bs) = 1 /\ all = bs[1] /\ Len(all) <= SearchPage
    <3>1. Len(bs) = 1 /\ 1 \in DOMAIN qs
      BY <1>6, <1>8, <1>15
    <3> QED
      BY <1>7, <1>9, <3>1
  <2>2. Len(S!Unique(all)) <= Len(all)
    <3> DEFINE P == {i \in DOMAIN all : \A j \in 1 .. i - 1 : all[j] # all[i]}
    <3>1. P \in SUBSET (1 .. Len(all)) /\ S!Unique(all) = S!Sublist(all, P)
      BY <1>9 DEF S!Unique
    <3> HIDE DEF P
    <3>2. all \in Seq(S!Chunks)
      BY <1>9
    <3>3. Len(S!Sublist(all, P)) = Cardinality(P) /\ Cardinality(P) <= Len(all)
      BY <3>1, <3>2, PartOfList
    <3> QED
      BY <3>1, <3>3
  <2>3. Len(all) \in Nat /\ Len(S!Unique(all)) \in Nat /\ SearchPage \in Nat
    BY <1>2, <1>9, <1>10, DenseOrder
  <2> QED
    BY <1>2, <2>1, <2>2, <2>3
<1>12. ASSUME page = 1, ask.kind \in {"chunks", "extended", "hybrid"}
       PROVE  /\ ask.sort \in {"none", "cross"} => Wanted(S!Dense, status, steady) \subseteq S!Range(hits')
              /\ Prefetched => Wanted(later, status, steady) \subseteq S!Range(hits')
  <2>1. PICK i \in DOMAIN qs : OfAll(qs[i]) /\ qs[i].order = S!Dense
    <3>1. CASE ask.kind = "extended"
      BY <1>6, <3>1
    <3>2. CASE ask.kind \in {"chunks", "hybrid"}
      BY <1>6, <3>2
    <3> QED
      BY <1>12, <3>1, <3>2
  <2>2. S!Range(S!Search(qs[i], 1)) \subseteq S!Range(hits')
    BY <1>8, <1>9, <1>10, <1>12
  <2> QED
    BY <1>1, <2>1, <2>2, FoundOfAll
<1>13. ASSUME page = 1, ask.kind = "hybrid", Prefetched
       PROVE  Len(hits') <= SearchPage
  <2> DEFINE l == S!Slice(S!InOrder(later, S!Points), 0, SearchPage)
  <2>1. S!Search(qs[1], 1) = l /\ S!Search(qs[2], 1) = l
    BY <1>1, <1>6, <1>13, FoundOfAll
  <2> HIDE DEF l
  <2>2. bs[1] = l /\ bs[2] = l /\ Len(bs) = 2 /\ l \in Seq(S!Chunks) /\ Len(l) <= SearchPage
    BY <1>6, <1>7, <1>8, <1>13, <1>15, <2>1
  <2>3. all = l \o l
    BY <2>2 DEF all
  <2>4. Len(hits') <= Len(l) /\ Len(hits') \in Nat /\ Len(l) \in Nat /\ SearchPage \in Nat
    BY <1>2, <1>10, <2>2, <2>3, TwiceTheSame, DenseOrder
  <2> QED
    BY <2>2, <2>4
<1>14. HitsAt'
  BY <1>2, <1>11, <1>12, <1>13 DEF HitsAt, Prefetched, S!ByQdrant
<1> QED
  BY <1>2, <1>10, <1>14, StillAwaited

\* The rows are read, and the page is answered.
LEMMA AnswersRead ==
  ASSUME AnswersIInv, OfChunks, S!ReadRows
  PROVE  AnswersIInv'
<1>1. SearchTypes /\ Turn /\ Past /\ HitsAt
  BY DEF AnswersIInv
<1>2. at = "rows" /\ UNCHANGED <<status, sparse, later, encoded, ask, page, hits, first, steady, hidden>> /\ hits' \in Seq(S!Chunks)
  BY <1>1 DEF S!ReadRows, SearchTypes
<1>3. CASE S!Panics
  <2>1. S!Answer("panic", << >>, "done")
    BY <1>3 DEF S!ReadRows
  <2> QED
    BY <1>2, <2>1, NothingAnswered
<1>4. CASE ~S!Panics
  <2> DEFINE a == S!Result
  <2>1. S!Answer("found", a, IF S!LastPage THEN "done" ELSE "ask")
    BY <1>4 DEF S!ReadRows
  <2>2. /\ a \in Seq(S!Chunks) /\ S!Range(a) \subseteq S!Range(S!Found)
        /\ S!Range(S!Found) = S!Range(hits) \cap S!Rows
        /\ \/ ask.kind = "extended"
           \/ ask.kind = "chunks" /\ ask.sort # "cross"
           \/ ask.kind \in {"chunks", "hybrid"} /\ Len(hits) <= SearchPage
           => S!Range(a) = S!Range(S!Found)
        /\ ask.kind = "hybrid" =>
             \A c \in S!Range(S!Found) :
                \/ c \in S!Range(a)
                \/ Cardinality({d \in S!Range(a) : S!Position(encoded, d) < S!Position(encoded, c)}) >= SearchPage
    BY <1>1, WhatIsAnswered
  <2> HIDE DEF a
  <2>3. /\ pages' \in Seq([is : {"found", "error", "panic"}, list : Seq(S!Chunks)])
        /\ Len(pages') = Len(pages) + 1 /\ S!Last(pages').list = a /\ at' \in {"ask", "done"}
    <3>1. "found" \in {"found", "error", "panic"}
      OBVIOUS
    <3>2. /\ pages' \in Seq([is : {"found", "error", "panic"}, list : Seq(S!Chunks)])
          /\ Len(pages') = Len(pages) + 1 /\ S!Last(pages') = [is |-> "found", list |-> a]
          /\ at' = IF S!LastPage THEN "done" ELSE "ask"
      BY <1>1, <2>1, <2>2, <3>1, Answered
    <3> QED
      BY <3>2
  <2>4. SearchTypes'
    BY <1>1, <1>2, <2>3 DEF SearchTypes, S!Orders, S!Sensible
  <2>5. Turn' /\ Past' /\ HitsAt'
    BY <1>1, <1>2, <2>3 DEF Turn, Past, HitsAt
  <2>6. S!Range(a) \cap hidden = {}
    BY <1>1, <2>2 DEF Past, S!Rows
  <2>7. \A o : Wanted(o, status, steady) \subseteq S!Rows
    BY <1>1 DEF Wanted, S!Rows, Past, SearchTypes
  <2>8. ASSUME page = 1, ask.kind \in {"chunks", "extended"}, ask.sort \in {"none", "cross"}
        PROVE  S!Expected(S!Dense)' \subseteq S!Range(a)
    <3>1. Wanted(S!Dense, status, steady) \subseteq S!Range(S!Found)
      BY <1>1, <1>2, <2>2, <2>7, <2>8 DEF HitsAt
    <3> QED
      BY <1>1, <1>2, <2>2, <2>8, <3>1, ExpectedIsWanted DEF HitsAt
  <2>9. ASSUME page = 1, ask.kind \in {"chunks", "extended", "hybrid"}, Prefetched
        PROVE  S!Expected(later)' \subseteq S!Range(a)
    <3>1. Wanted(later, status, steady) \subseteq S!Range(S!Found)
      BY <1>1, <1>2, <2>2, <2>7, <2>9 DEF HitsAt
    <3>2. S!Range(a) = S!Range(S!Found)
      BY <1>1, <1>2, <2>2, <2>9 DEF HitsAt, Prefetched, S!ByQdrant
    <3> QED
      BY <1>2, <3>1, <3>2, ExpectedIsWanted
  <2>10. ASSUME page = 1, ask.kind = "hybrid", ask.sort = "none", NEW c \in S!Expected(S!Dense)'
         PROVE  \/ c \in S!Range(a)
                \/ Cardinality({d \in S!Range(a) : S!Position(encoded, d) < S!Position(encoded, c)}) >= SearchPage
    <3>1. c \in Wanted(S!Dense, status, steady)
      BY <1>2, <2>10, ExpectedIsWanted
    <3>2. c \in S!Range(S!Found)
      BY <1>1, <1>2, <2>2, <2>7, <2>10, <3>1 DEF HitsAt
    <3> QED
      BY <2>2, <2>10, <3>2
  <2>11. \A c : S!Position(encoded, c)' = S!Position(encoded, c)
    BY <1>2 DEF S!Position
  <2>12. S!AnswersAreCurrent'
    <3>1. page' = page /\ ask' = ask /\ hidden' = hidden /\ S!Last(pages').list = a
      BY <1>2, <2>3
    <3>2. \A c : {d \in S!Range(a) : S!Position(encoded, d)' < S!Position(encoded, c)'}
                 = {d \in S!Range(a) : S!Position(encoded, d) < S!Position(encoded, c)}
      BY <2>11
    <3>3. page = 1 /\ ask.kind = "hybrid" /\ ask.sort = "none" =>
            \A c \in S!Expected(S!Dense)' :
              \/ c \in S!Range(a)
              \/ S!Cardinality({d \in S!Range(a) : S!Position(encoded, d)' < S!Position(encoded, c)'}) >= SearchPage
      BY <2>10, <3>2 DEF S!Cardinality, Cardinality
    <3>4. page = 1 /\ ask.kind \in {"chunks", "extended", "hybrid"} /\ ask.sort \in S!ByQdrant /\ SearchedChunks <= Prefetch =>
            S!Expected(later)' \subseteq S!Range(a)
      BY <2>9 DEF Prefetched
    <3> QED
      BY <2>6, <2>8, <3>1, <3>3, <3>4 DEF S!AnswersAreCurrent, S!ByQdrant
  <2> QED
    BY <2>4, <2>5, <2>12 DEF AnswersIInv
<1> QED
  BY <1>3, <1>4

\* Every step of a search keeps the invariant.
LEMMA AnswersStep == AnswersIInv /\ [S!Next]_searchVars => AnswersIInv'
<1> SUFFICES ASSUME AnswersIInv, [S!Next]_searchVars, OfChunks' PROVE AnswersIInv'
  BY DEF AnswersIInv
<1>1. ask' = ask
  BY DEF S!Next, searchVars, S!Change, S!Ask, S!GetRecommendedChunks, S!GetRecommendedGroups, S!ScrollChunks,
    S!StartFrom, S!CountPoints, S!QueryChunks, S!QueryGroups, S!Scroll, S!RecommendChunks, S!RecommendGroups,
    S!RecommendFrom, S!ReadRows
<1>2. OfChunks
  BY <1>1 DEF OfChunks, S!OfGroups
<1>3. SearchTypes
  BY <1>2 DEF AnswersIInv
<1>4. CASE \E c \in S!Chunks : S!Change(c)
  BY <1>2, <1>4, AnswersChange
<1>5. CASE S!Ask
  BY <1>2, <1>5, AnswersAsk
<1>6. CASE S!GetRecommendedChunks
  BY <1>2, <1>6, AnswersStart DEF S!GetRecommendedChunks
<1>7. CASE S!ScrollChunks
  BY <1>2, <1>7, AnswersStart DEF S!ScrollChunks
<1>8. CASE S!CountPoints
  <2>1. /\ at \in {"query", "rows"} /\ at' = at /\ hits' = hits /\ first' = first
        /\ UNCHANGED <<status, sparse, later, encoded, ask, page, pages, steady, hidden>>
    BY <1>8 DEF S!CountPoints
  <2>2. HitsAt'
    BY <1>2, <2>1 DEF AnswersIInv, HitsAt, Prefetched, S!ByQdrant
  <2>3. hits' \in Seq(S!Chunks) /\ first' \in Nat
    BY <1>3, <2>1 DEF SearchTypes
  <2> QED
    BY <1>2, <2>1, <2>2, <2>3, StillAwaited
<1>9. CASE S!QueryChunks
  BY <1>2, <1>9, AnswersQuery
<1>10. CASE S!Scroll
  <2> DEFINE l == S!InOrder(S!Dense, {c \in S!Points : c >= hits[1]})
  <2>1. /\ at = "query" /\ at' = "rows" /\ ask.kind = "scroll" /\ hits' = S!Slice(l, 0, SearchPage) /\ first' = first
        /\ UNCHANGED <<status, sparse, later, encoded, ask, page, pages, steady, hidden>>
    BY <1>10 DEF S!Scroll
  <2>2. l \in Seq(S!Chunks)
    BY DenseOrder, ElementsInOrder
  <2> HIDE DEF l
  <2>3. hits' \in Seq(S!Chunks) /\ first' \in Nat
    <3>1. 0 \in Nat /\ SearchPage \in Nat
      BY DenseOrder
    <3> QED
      BY <1>3, <2>1, <2>2, <3>1, SliceOfList DEF SearchTypes
  <2>4. HitsAt'
    BY <2>1 DEF HitsAt
  <2> QED
    BY <1>2, <2>1, <2>3, <2>4, StillAwaited
<1>11. CASE S!RecommendChunks
  <2> DEFINE l == S!InOrder(S!Dense, S!Points \ S!Range(hits))
  <2>1. ask.kind = "recommend" /\ S!RecommendFrom(S!Slice(l, 0, SearchPage))
    BY <1>11 DEF S!RecommendChunks
  <2>2. l \in Seq(S!Chunks) /\ 0 \in Nat /\ SearchPage \in Nat
    BY DenseOrder, ElementsInOrder
  <2> HIDE DEF l
  <2>3. S!Slice(l, 0, SearchPage) \in Seq(S!Chunks)
    BY <2>2, SliceOfList
  <2> QED
    BY <1>2, <2>1, <2>3, AnswersRecommend
<1>12. CASE S!ReadRows
  BY <1>2, <1>12, AnswersRead
<1>13. CASE S!GetRecommendedGroups \/ S!QueryGroups \/ S!RecommendGroups
  BY <1>2, <1>13 DEF OfChunks, S!OfGroups, S!GetRecommendedGroups, S!QueryGroups, S!RecommendGroups
<1>14. CASE UNCHANGED searchVars
  <2>1. UNCHANGED <<later, encoded, ask, page, pages, hidden>> /\ steady' = steady /\ status' = status
    BY <1>14 DEF searchVars
  <2>2. SearchTypes' /\ Turn' /\ Past' /\ HitsAt'
    BY <1>2, <1>14 DEF searchVars, AnswersIInv, SearchTypes, Turn, Past, HitsAt, Prefetched, S!Orders, S!Sensible,
      S!ByQdrant
  <2> QED
    BY <1>2, <2>1, <2>2, AnswersLast DEF AnswersIInv
<1> QED
  BY <1>4, <1>5, <1>6, <1>7, <1>8, <1>9, <1>10, <1>11, <1>12, <1>13, <1>14 DEF S!Next

--------------------------------------------------------------------------------
(* The pages of a search for chunks.                                        *)

\* A list without repetitions.
Once(l) == \A i, j \in DOMAIN l : l[i] = l[j] => i = j

\* The places of a list that page p shows, and what is at them.
Places(p, n) == {k \in 1 .. n : SearchPage * (p - 1) < k /\ k <= SearchPage * p}
Shown(l, p)  == {l[k] : k \in Places(p, Len(l))}

\* A part of a list has no repetitions if there are none at the places kept.
LEMMA PartOnce ==
  ASSUME NEW X, NEW s \in Seq(X), NEW P \in SUBSET (1 .. Len(s)), \A i, j \in P : s[i] = s[j] => i = j
  PROVE  Once(S!Sublist(s, P))
<1> DEFINE l == S!Sublist(s, P)
<1>1. /\ l \in Seq(X) /\ Len(l) = Cardinality(P) /\ Cardinality(P) \in Nat
      /\ \A k \in 1 .. Cardinality(P) : \E i \in P : Position(P, i) = k - 1 /\ l[k] = s[i]
  BY PartOfList
<1> HIDE DEF l
<1>2. DOMAIN l = 1 .. Cardinality(P)
  BY <1>1
<1>3. ASSUME NEW k \in DOMAIN l, NEW m \in DOMAIN l, l[k] = l[m] PROVE k = m
  <2>1. PICK i \in P : Position(P, i) = k - 1 /\ l[k] = s[i]
    BY <1>1, <1>2
  <2>2. PICK j \in P : Position(P, j) = m - 1 /\ l[m] = s[j]
    BY <1>1, <1>2
  <2>3. i = j
    BY <1>3, <2>1, <2>2
  <2> QED
    BY <1>1, <1>2, <2>1, <2>2, <2>3
<1> QED
  BY <1>3 DEF Once, l

\* What is picked from a list without repetitions has none, nor has Unique.
LEMMA PickedOnce ==
  ASSUME NEW X, NEW s \in Seq(X), NEW T
  PROVE  /\ Once(s) => Once(S!InOrder(s, T))
         /\ Once(S!Unique(s))
<1> DEFINE P == {i \in DOMAIN s : s[i] \in T}
           New == {i \in DOMAIN s : \A j \in 1 .. i - 1 : s[j] # s[i]}
<1>1. P \in SUBSET (1 .. Len(s)) /\ New \in SUBSET (1 .. Len(s)) /\ DOMAIN s = 1 .. Len(s) /\ Len(s) \in Nat
  OBVIOUS
<1>2. Once(s) => \A i, j \in P : s[i] = s[j] => i = j
  BY DEF Once
<1>3. ASSUME NEW i \in New, NEW j \in New, s[i] = s[j] PROVE i = j
  <2>1. ~(i \in 1 .. j - 1) /\ ~(j \in 1 .. i - 1)
    BY <1>3
  <2> QED
    BY <1>1, <2>1
<1>4. S!InOrder(s, T) = S!Sublist(s, P) /\ S!Unique(s) = S!Sublist(s, New)
  BY DEF S!InOrder, S!Unique
<1> HIDE DEF P, New
<1>5. Once(s) => Once(S!Sublist(s, P))
  BY <1>1, <1>2, PartOnce
<1>6. Once(S!Sublist(s, New))
  BY <1>1, <1>3, PartOnce
<1> QED
  BY <1>4, <1>5, <1>6

\* Nor has a slice.
LEMMA SliceOnce ==
  ASSUME NEW X, NEW s \in Seq(X), NEW o \in Nat, NEW n \in Nat, Once(s)
  PROVE  Once(S!Slice(s, o, n))
<1> DEFINE l == S!Slice(s, o, n)
<1>1. l \in Seq(X) /\ \A i \in 1 .. Len(l) : i + o \in 1 .. Len(s) /\ l[i] = s[i + o]
  BY SliceOfList
<1> HIDE DEF l
<1>2. DOMAIN l = 1 .. Len(l) /\ Len(l) \in Nat /\ DOMAIN s = 1 .. Len(s)
  BY <1>1
<1>3. ASSUME NEW i \in DOMAIN l, NEW j \in DOMAIN l, l[i] = l[j] PROVE i = j
  <2>1. i + o \in DOMAIN s /\ j + o \in DOMAIN s /\ s[i + o] = s[j + o]
    BY <1>1, <1>2, <1>3
  <2>2. i + o = j + o
    BY <2>1 DEF Once
  <2> QED
    BY <1>2, <2>2
<1> QED
  BY <1>3 DEF Once, l

\* A list without repetitions has as many places as elements.
LEMMA OnceLength ==
  ASSUME NEW X, NEW s \in Seq(X), Once(s)
  PROVE  Cardinality(S!Range(s)) = Len(s) /\ IsFiniteSet(S!Range(s))
<1> DEFINE R == S!Range(s)
<1>1. s \in [1 .. Len(s) -> R] /\ DOMAIN s = 1 .. Len(s) /\ Len(s) \in Nat /\ \A r \in R : \E i \in 1 .. Len(s) : s[i] = r
  BY DEF S!Range
<1>2. s \in Surjection(1 .. Len(s), R)
  BY <1>1 DEF Surjection
<1>3. s \in Injection(1 .. Len(s), R)
  BY <1>1 DEF Injection, IsInjective, Once
<1>4. IsFiniteSet(1 .. Len(s)) /\ Cardinality(1 .. Len(s)) = Len(s)
  <2>1. 1 \in Int /\ Len(s) \in Int /\ Len(s) - 1 + 1 = Len(s) /\ (1 > Len(s) => Len(s) = 0)
    BY <1>1
  <2> QED
    BY <2>1, FS_Interval
<1> HIDE DEF R
<1>5. IsFiniteSet(R) /\ Cardinality(R) = Cardinality(1 .. Len(s))
  BY <1>2, <1>3, <1>4, FS_Surjection
<1> QED
  BY <1>4, <1>5 DEF R

\* Multiples of a page size.
LEMMA Multiples ==
  /\ \A a, b, c \in Nat : a <= b => c * a <= c * b
  /\ \A a, b \in Nat : a * b \in Nat
  /\ \A c \in Nat : \A p \in Nat \ {0} : c * (p - 1) \in Nat /\ c * p = c * (p - 1) + c
OBVIOUS

\* A page is the slice of a list from its offset on.
LEMMA PageOfList ==
  ASSUME NEW X, NEW L \in Seq(X), NEW p \in Nat \ {0}
  PROVE  S!Range(S!Slice(L, S!Offset(p), SearchPage)) = Shown(L, p)
<1>7. SearchPage \in Nat /\ S!Offset(p) \in Nat /\ S!Offset(p) = SearchPage * (p - 1)
      /\ SearchPage * p = S!Offset(p) + SearchPage
  <2>1. SearchPage \in Nat
    BY DenseOrder
  <2> QED
    BY <2>1, Multiples DEF S!Offset
<1>8. PICK o \in Nat : o = S!Offset(p)
  BY <1>7
<1>1. SearchPage \in Nat /\ SearchPage * (p - 1) = o /\ SearchPage * p = o + SearchPage
  BY <1>7, <1>8
<1>9. SearchPage \in Nat
  BY <1>1
<1> DEFINE l == S!Slice(L, o, SearchPage)
<1>2. /\ l \in Seq(X) /\ Len(l) = IF o >= Len(L) THEN 0 ELSE IF o + SearchPage < Len(L) THEN SearchPage ELSE Len(L) - o
      /\ \A i \in 1 .. Len(l) : i + o \in 1 .. Len(L) /\ l[i] = L[i + o]
  <2>1. l \in Seq(X)
    BY <1>9, SliceOfList
  <2>2. Len(l) = IF o >= Len(L) THEN 0 ELSE IF o + SearchPage < Len(L) THEN SearchPage ELSE Len(L) - o
    BY <1>9, SliceOfList
  <2>3. \A i \in 1 .. Len(l) : i + o \in 1 .. Len(L) /\ l[i] = L[i + o]
    BY <1>9, SliceOfList
  <2> QED
    BY <2>1, <2>2, <2>3
<1>3. Len(L) \in Nat /\ Places(p, Len(L)) = {k \in 1 .. Len(L) : o < k /\ k <= o + SearchPage}
  BY <1>1 DEF Places
<1> HIDE DEF l
<1>4. DOMAIN l = 1 .. Len(l)
  BY <1>2
<1>5. ASSUME NEW i \in DOMAIN l PROVE l[i] \in Shown(L, p)
  <2>1. i + o \in Places(p, Len(L)) /\ l[i] = L[i + o]
    BY <1>1, <1>2, <1>3, <1>4
  <2> QED
    BY <2>1 DEF Shown
<1>6. ASSUME NEW k \in Places(p, Len(L)) PROVE L[k] \in S!Range(l)
  <2>1. k - o \in 1 .. Len(l) /\ k - o + o = k
    BY <1>1, <1>2, <1>3
  <2>2. k - o \in DOMAIN l /\ l[k - o] = L[k]
    BY <1>2, <1>4, <2>1
  <2> QED
    BY <2>2 DEF S!Range
<1> QED
  BY <1>5, <1>6, <1>8 DEF Shown, S!Range, l

\* Enough pages show the whole list, and every page another part of it.
LEMMA PagesPartList ==
  ASSUME NEW X, NEW L \in Seq(X)
  PROVE  /\ \A m \in Nat : SearchPage * m >= Len(L) => UNION {Shown(L, p) : p \in 1 .. m} = S!Range(L)
         /\ \A p, q \in Nat \ {0} : Once(L) /\ p # q => Shown(L, p) \cap Shown(L, q) = {}
<1>1. Len(L) \in Nat /\ DOMAIN L = 1 .. Len(L) /\ SearchPage \in Nat
  BY DenseOrder
<1>2. \A p : Shown(L, p) \subseteq S!Range(L)
  BY <1>1 DEF Shown, Places, S!Range
<1>3. ASSUME NEW m \in Nat, SearchPage * m >= Len(L), NEW k \in 1 .. Len(L)
      PROVE  \E p \in 1 .. m : k \in Places(p, Len(L))
  <2> DEFINE E == {p \in 1 .. m : k <= SearchPage * p}
  <2>1. m \in E
    <3>1. SearchPage * m \in Nat /\ k <= SearchPage * m
      BY <1>1, <1>3, Multiples
    <3>2. m # 0
      <4>1. SearchPage * 0 = 0
        BY <1>1
      <4> QED
        BY <1>1, <3>1, <4>1
    <3> QED
      BY <3>1, <3>2
  <2>2. PICK p \in E : \A q \in E : p <= q
    BY <2>1, FirstAndLast
  <2>3. SearchPage * (p - 1) < k
    <3>1. CASE p = 1
      <4>1. SearchPage * (p - 1) = 0
        BY <1>1, <3>1
      <4> QED
        BY <1>1, <4>1
    <3>2. CASE p # 1
      <4>1. p - 1 \in 1 .. m /\ ~(p <= p - 1)
        BY <3>2
      <4>2. p - 1 \notin E
        BY <2>2, <4>1
      <4>3. SearchPage * (p - 1) \in Nat /\ k \in Nat
        BY <1>1, <4>1, Multiples
      <4> QED
        BY <4>1, <4>2, <4>3
    <3> QED
      BY <3>1, <3>2
  <2> QED
    BY <2>2, <2>3 DEF Places
<1>4. ASSUME NEW m \in Nat, SearchPage * m >= Len(L), NEW x \in S!Range(L)
      PROVE  \E p \in 1 .. m : x \in Shown(L, p)
  <2>1. PICK k \in 1 .. Len(L) : x = L[k]
    BY <1>1 DEF S!Range
  <2>2. PICK p \in 1 .. m : k \in Places(p, Len(L))
    BY <1>3, <1>4
  <2> QED
    BY <2>1, <2>2 DEF Shown
<1>5. ASSUME NEW p \in Nat \ {0}, NEW q \in Nat \ {0}, Once(L), NEW x \in Shown(L, p) \cap Shown(L, q)
      PROVE  ~(p < q)
  <2>1. PICK k \in Places(p, Len(L)) : x = L[k]
    BY DEF Shown
  <2>2. PICK i \in Places(q, Len(L)) : x = L[i]
    BY DEF Shown
  <2>3. k = i /\ k \in Nat
    <3>1. k \in DOMAIN L /\ i \in DOMAIN L /\ k \in Nat
      BY <1>1 DEF Places
    <3> QED
      BY <1>5, <2>1, <2>2, <3>1 DEF Once
  <2>4. k <= SearchPage * p /\ SearchPage * (q - 1) < k
    BY <2>1, <2>2, <2>3 DEF Places
  <2>5. SearchPage * p \in Nat /\ SearchPage * (q - 1) \in Nat
    BY <1>1, Multiples
  <2>6. p < q => SearchPage * p <= SearchPage * (q - 1)
    <3>1. p < q => p <= q - 1 /\ q - 1 \in Nat /\ p \in Nat
      OBVIOUS
    <3> QED
      BY <1>1, <3>1, Multiples
  <2> QED
    BY <2>3, <2>4, <2>5, <2>6
<1>6. ASSUME NEW p \in Nat \ {0}, NEW q \in Nat \ {0}, Once(L), p # q PROVE Shown(L, p) \cap Shown(L, q) = {}
  <2>1. p < q \/ q < p
    BY <1>6
  <2> QED
    BY <1>5, <1>6, <2>1
<1> QED
  BY <1>2, <1>4, <1>6

\* Nothing was ingested or deleted since the first page was asked for; what there is is
\* counted and prefetched.
Undisturbed == page > 0 /\ changed = 0
Covered     == Cardinality(S!Points) <= MaxLimit /\ Cardinality(S!Points) <= Prefetch

\* The chunks in the order in which the pages show them.
List == IF ask.sort \in {"field", "rerank"} THEN S!InOrder(later, S!Points) ELSE S!InOrder(S!Dense, S!Points)

\* The pages of a search for chunks show the parts of the list, and end with it.
ChunksPages ==
  /\ counted # None => counted = Cardinality(S!Points)
  /\ at = "rows" => Once(hits) /\ S!Range(hits) = Shown(List, page)
  /\ \A i \in DOMAIN pages : Once(pages[i].list) /\ S!Range(pages[i].list) = Shown(List, i) \cap S!Rows
  /\ at = "done" => SearchPage * page >= Cardinality(S!Points)

ChunksIInv == ask.kind = "chunks" /\ Undisturbed /\ Covered => ChunksPages

\* The points are some of the chunks.
LEMMA PointsAreFinite == S!Points \subseteq S!Chunks /\ IsFiniteSet(S!Points) /\ Cardinality(S!Points) \in Nat
<1>1. S!Points \subseteq S!Chunks
  BY DEF S!Points
<1> QED
  BY <1>1, ChunksAreFinite, FS_Subset, FS_CardinalityType

\* Orders have no repetitions.
LEMMA OrdersOnce == (\A o \in S!Orders : Once(o)) /\ Once(S!Dense)
BY AnOrder, DenseOrder DEF Once

\* The list has every point once.
LEMMA ListOfPoints ==
  ASSUME later \in S!Orders
  PROVE  List \in Seq(S!Chunks) /\ Once(List) /\ S!Range(List) = S!Points /\ Len(List) = Cardinality(S!Points)
<1>1. ASSUME NEW o \in Seq(S!Chunks), Once(o), S!Range(o) = S!Chunks
      PROVE  LET l == S!InOrder(o, S!Points) IN
             l \in Seq(S!Chunks) /\ Once(l) /\ S!Range(l) = S!Points /\ Len(l) = Cardinality(S!Points)
  <2> DEFINE l == S!InOrder(o, S!Points)
  <2>1. l \in Seq(S!Chunks) /\ S!Range(l) = S!Chunks \cap S!Points
    BY <1>1, ElementsInOrder
  <2>2. Once(l)
    BY <1>1, PickedOnce
  <2> HIDE DEF l
  <2>3. S!Range(l) = S!Points
    BY <2>1, PointsAreFinite
  <2>4. Cardinality(S!Range(l)) = Len(l)
    BY <2>1, <2>2, OnceLength
  <2> QED
    BY <2>1, <2>2, <2>3, <2>4 DEF l
<1>2. later \in Seq(S!Chunks) /\ Once(later) /\ S!Range(later) = S!Chunks
  BY AnOrder, OrdersOnce
<1>3. S!Dense \in Seq(S!Chunks) /\ Once(S!Dense) /\ S!Range(S!Dense) = S!Chunks
  BY DenseOrder, OrdersOnce
<1> QED
  BY <1>1, <1>2, <1>3 DEF List

\* The prefetch covers the points, so that every page is a part of one list.
LEMMA QueriedList ==
  ASSUME later \in S!Orders, Covered, NEW o \in Nat
  PROVE  S!Ordered(S!Query(S!Dense, S!Chunks, ask.sort), o) = List
<1> DEFINE q == S!Query(S!Dense, S!Chunks, ask.sort)
           found == S!InOrder(S!Dense, S!Points)
           n == Prefetch * (1 + o \div Prefetch)
           best == S!Slice(found, 0, n)
<1>1. q.order = S!Dense /\ S!Points \cap q.within = S!Points
  <2>1. q.order = S!Dense /\ q.within = S!Chunks
    BY PartsOfQuery
  <2> HIDE DEF q
  <2> QED
    BY <2>1, PointsAreFinite
<1>2. q.prefetch = (ask.sort \in {"field", "rerank"})
  BY Zenon DEF S!Query, S!ByQdrant
<1> HIDE DEF q
<1>3. S!Ordered(q, o) = IF q.prefetch THEN S!InOrder(later, S!Range(best)) ELSE found
  BY <1>1 DEF S!Ordered
<1>4. n \in Nat /\ Prefetch <= n
  <2>1. Prefetch \in Nat \ {0}
    BY SearchConstants DEF S!SearchAssumption
  <2>2. o \div Prefetch \in Nat
    BY <2>1
  <2> QED
    BY <2>1, <2>2
<1>5. found \in Seq(S!Chunks) /\ S!Range(found) = S!Points /\ Len(found) = Cardinality(S!Points)
  <2>1. S!Dense \in Seq(S!Chunks) /\ Once(S!Dense) /\ S!Range(S!Dense) = S!Chunks
    BY DenseOrder, OrdersOnce
  <2>2. found \in Seq(S!Chunks) /\ S!Range(found) = S!Chunks \cap S!Points
    BY <2>1, ElementsInOrder
  <2>3. Once(found)
    BY <2>1, PickedOnce
  <2> HIDE DEF found
  <2>4. S!Range(found) = S!Points
    BY <2>2, PointsAreFinite
  <2> QED
    BY <2>2, <2>3, <2>4, OnceLength
<1> HIDE DEF n, found
<1>6. S!Range(best) = S!Points
  <2>1. Len(found) <= n
    <3>1. Cardinality(S!Points) \in Nat /\ Cardinality(S!Points) <= Prefetch /\ Prefetch \in Nat
      BY PointsAreFinite, SearchConstants DEF Covered, S!SearchAssumption
    <3> QED
      BY <1>4, <1>5, <3>1
  <2> QED
    BY <1>4, <1>5, <2>1, SliceRange
<1> HIDE DEF best
<1> QED
  BY <1>2, <1>3, <1>6, Zenon DEF List, q, found

\* What is counted is what there is.
LEMMA CountedPoints ==
  ASSUME ask.kind \in {"chunks", "groups"}, Covered
  PROVE  S!Counted(ask) = Cardinality(S!Points)
<1> DEFINE n == Cardinality(S!Points)
<1>1. n \in Nat /\ n <= MaxLimit /\ MaxLimit \in Nat
  BY PointsAreFinite, SearchConstants DEF Covered, S!SearchAssumption
<1>2. S!Cardinality(S!Points) = n
  BY DEF S!Cardinality, Cardinality
<1> DEFINE found == IF ask.kind \in S!OfGroups THEN {S!Cardinality(S!Points)}
                    ELSE {S!Cardinality(S!Points \cap q.within) : q \in S!Range(S!Queries(ask))}
<1>3. S!Counted(ask) = S!Min({MaxLimit, S!Max(found)})
  BY DEF S!Counted
<1>4. found = {n}
  <2>1. CASE ask.kind = "groups"
    BY <1>2, <2>1 DEF S!OfGroups
  <2>2. CASE ask.kind = "chunks"
    <3>1. S!Queries(ask) = <<S!Query(S!Dense, S!Chunks, ask.sort)>>
      BY <2>2 DEF S!Queries
    <3>2. S!Range(S!Queries(ask)) = {S!Query(S!Dense, S!Chunks, ask.sort)}
      BY <3>1 DEF S!Range
    <3>3. S!Points \cap S!Query(S!Dense, S!Chunks, ask.sort).within = S!Points
      BY PartsOfQuery, PointsAreFinite
    <3> QED
      BY <1>2, <2>2, <3>2, <3>3 DEF S!OfGroups
  <2> QED
    BY <2>1, <2>2
<1> HIDE DEF n, found
<1>5. S!Max({n}) = n /\ S!Min({MaxLimit, n}) = n
  BY <1>1 DEF S!Max, S!Min
<1> QED
  BY <1>3, <1>4, <1>5 DEF n

\* As long as points and rows, the order and the request are the same, so is what a page has to show.
LEMMA ChunksPagesKept ==
  ASSUME UNCHANGED <<status, later, ask>>,
         counted' # None => counted' = Cardinality(S!Points),
         at' = "rows" => Once(hits') /\ S!Range(hits') = Shown(List, page'),
         \A i \in DOMAIN pages' : Once(pages'[i].list) /\ S!Range(pages'[i].list) = Shown(List, i) \cap S!Rows,
         at' = "done" => SearchPage * page' >= Cardinality(S!Points)
  PROVE  ChunksPages'
<1>1. S!Points' = S!Points /\ S!Rows' = S!Rows
  BY DEF S!Points, S!Rows
<1>2. List' = List
  BY <1>1 DEF List
<1>3. Shown(List, page)' = Shown(List, page') /\ \A i : Shown(List, i)' = Shown(List, i)
  BY <1>2 DEF Shown, Places
<1>4. Once(hits)' = Once(hits') /\ \A i : Once(pages[i].list)' = Once(pages'[i].list)
  BY DEF Once
<1>5. Cardinality(S!Points)' = Cardinality(S!Points)
  BY <1>1
<1> QED
  BY <1>1, <1>3, <1>4, <1>5 DEF ChunksPages

\* The answer to a page has the chunks found, each once.
LEMMA ResultOnce ==
  ASSUME SearchTypes, ask.kind = "chunks", Once(hits), Len(hits) <= SearchPage
  PROVE  S!Result \in Seq(S!Chunks) /\ Once(S!Result) /\ S!Range(S!Result) = S!Range(hits) \cap S!Rows
<1> DEFINE f == S!Found
           E == S!CrossEncoder(f)
           c == IF ask.sort = "cross" THEN E ELSE f
<1>1. OfChunks
  BY DEF OfChunks, S!OfGroups
<1>2. /\ f \in Seq(S!Chunks) /\ S!Range(f) = S!Range(hits) \cap S!Rows
      /\ S!Result \in Seq(S!Chunks) /\ S!Range(S!Result) = S!Range(f)
  BY <1>1, WhatIsAnswered
<1>3. hits \in Seq(S!Chunks) /\ \A o \in {later, encoded} : o \in Seq(S!Chunks) /\ Once(o)
  BY AnOrder, OrdersOnce DEF SearchTypes
<1>4. Once(f)
  BY <1>3, PickedOnce DEF S!Found
<1>5. \A R : \A o \in {later, encoded} : S!InOrder(o, R) \in Seq(S!Chunks) /\ Once(S!InOrder(o, R))
  BY <1>3, ElementsInOrder, PickedOnce
<1>6. Once(E)
  <2> DEFINE l == S!InOrder(encoded, S!Range(f))
  <2>1. l \in Seq(S!Chunks) /\ Once(l) /\ 0 \in Nat /\ SearchPage \in Nat
    BY <1>5, DenseOrder
  <2>2. E = S!Slice(l, 0, SearchPage)
    BY DEF S!CrossEncoder
  <2> HIDE DEF l
  <2> QED
    BY <2>1, <2>2, SliceOnce
<1>7. S!Result = S!Rerank(ask, c)
  BY DEF S!Result, S!SearchChunks, S!Completes, S!Withins
<1> HIDE DEF f, E
<1>8. Once(c)
  BY <1>4, <1>6
<1> HIDE DEF c
<1>9. Once(S!Rerank(ask, c))
  BY <1>5, <1>8 DEF S!Rerank
<1> QED
  BY <1>2, <1>7, <1>9

\* The request stays what it is.
LEMMA AskStays == ASSUME [S!Next]_searchVars PROVE ask' = ask
BY DEF S!Next, searchVars, S!Change, S!Ask, S!GetRecommendedChunks, S!GetRecommendedGroups, S!ScrollChunks,
  S!StartFrom, S!CountPoints, S!QueryChunks, S!QueryGroups, S!Scroll, S!RecommendChunks, S!RecommendGroups,
  S!RecommendFrom, S!ReadRows

\* A step that leaves the pages undisturbed was not one of an ingestion or a deletion.
LEMMA StillUndisturbed ==
  ASSUME [S!Next]_searchVars, changed \in Nat, Undisturbed', page \in Nat
  PROVE  /\ UNCHANGED <<status, sparse, later, encoded, member, ask, changed>>
         /\ ~S!Ask => Undisturbed /\ page' = page
<1>1. CASE \E c \in S!Chunks : S!Change(c)
  <2>1. page' = page /\ changed' = IF page = 0 THEN changed ELSE changed + 1
    BY <1>1 DEF S!Change
  <2> QED
    BY <2>1 DEF Undisturbed
<1>2. CASE ~(\E c \in S!Chunks : S!Change(c))
  <2>1. UNCHANGED <<status, sparse, later, encoded, member, ask, changed>>
    BY <1>2 DEF S!Next, searchVars, S!Ask, S!GetRecommendedChunks, S!GetRecommendedGroups, S!ScrollChunks,
      S!StartFrom, S!CountPoints, S!QueryChunks, S!QueryGroups, S!Scroll, S!RecommendChunks, S!RecommendGroups,
      S!RecommendFrom, S!ReadRows
  <2>2. ~S!Ask => page' = page
    BY <1>2 DEF S!Next, searchVars, S!GetRecommendedChunks, S!GetRecommendedGroups, S!ScrollChunks,
      S!StartFrom, S!CountPoints, S!QueryChunks, S!QueryGroups, S!Scroll, S!RecommendChunks, S!RecommendGroups,
      S!RecommendFrom, S!ReadRows
  <2> QED
    BY <2>1, <2>2 DEF Undisturbed
<1> QED
  BY <1>1, <1>2

\* The steps of ingestions and deletions are counted.
LEMMA CountStep == ASSUME changed \in Nat, [S!Next]_searchVars PROVE changed' \in Nat
<1>1. changed' = changed \/ changed' = changed + 1
  BY DEF S!Next, searchVars, S!Change, S!Ask, S!GetRecommendedChunks, S!GetRecommendedGroups, S!ScrollChunks,
    S!StartFrom, S!CountPoints, S!QueryChunks, S!QueryGroups, S!Scroll, S!RecommendChunks, S!RecommendGroups,
    S!RecommendFrom, S!ReadRows
<1> QED
  BY <1>1

\* The chunks of a page are found.
LEMMA ChunksFound ==
  ASSUME SearchTypes, Covered, ask.kind = "chunks", page \in Nat \ {0}, S!QueryChunks
  PROVE  Once(hits') /\ S!Range(hits') = Shown(List, page)
<1> DEFINE q == S!Query(S!Dense, S!Chunks, ask.sort)
           l == S!Slice(List, S!Offset(page), SearchPage)
<1>1. S!Queries(ask) = <<q>>
  BY DEF S!Queries
<1>2. S!Search(q, page) = l
  BY OffsetOfPage, QueriedList DEF SearchTypes, S!Search
<1> DEFINE bs == [i \in DOMAIN S!Queries(ask) |-> S!Search(S!Queries(ask)[i], page)]
<1> HIDE DEF q, l
<1>3. Len(bs) = 1 /\ bs[1] = l
  <2>1. DOMAIN S!Queries(ask) = 1 .. 1 /\ S!Queries(ask)[1] = q
    BY <1>1
  <2>2. bs = [i \in 1 .. 1 |-> S!Search(S!Queries(ask)[i], page)]
    BY <2>1
  <2> QED
    BY <1>2, <2>1, <2>2
<1>4. hits' = S!Unique(l)
  <2>1. hits' = S!Unique(IF Len(bs) = 1 THEN bs[1] ELSE bs[1] \o bs[2])
    BY DEF S!QueryChunks
  <2> HIDE DEF bs
  <2> QED
    BY <1>3, <2>1
<1>5. List \in Seq(S!Chunks) /\ S!Offset(page) \in Nat /\ SearchPage \in Nat
  BY ListOfPoints, OffsetOfPage, DenseOrder DEF SearchTypes
<1>6. l \in Seq(S!Chunks)
  BY <1>5, SliceOfList DEF l
<1>7. S!Range(l) = Shown(List, page)
  BY <1>5, PageOfList DEF l
<1>8. Once(S!Unique(l)) /\ S!Range(S!Unique(l)) = S!Range(l)
  BY <1>6, EachOnce, PickedOnce
<1> QED
  BY <1>4, <1>7, <1>8

\* The last page reaches what was counted.
LEMMA LastPageEnds ==
  ASSUME ask.kind \in {"chunks", "groups"}, page \in Nat, counted \in Nat, S!LastPage
  PROVE  SearchPage * page >= counted
<1>1. page >= (counted + SearchPage - 1) \div SearchPage
  BY DEF S!LastPage, S!TotalPages, S!Recommends, S!Completes
<1>2. SearchPage \in Nat \ {0}
  BY DenseOrder
<1> QED
  BY <1>1, <1>2

\* Pages that were answered before stay as they are when one is added.
LEMMA PagesBefore ==
  ASSUME NEW E, NEW s \in Seq(E), NEW e \in E
  PROVE  /\ DOMAIN Append(s, e) = DOMAIN s \cup {Len(s) + 1} /\ Append(s, e)[Len(s) + 1] = e
         /\ \A i \in DOMAIN s : Append(s, e)[i] = s[i] /\ i # Len(s) + 1
<1>1. DOMAIN s = 1 .. Len(s) /\ Len(s) \in Nat
  OBVIOUS
<1>2. Append(s, e) \in Seq(E) /\ Len(Append(s, e)) = Len(s) + 1
  OBVIOUS
<1>3. DOMAIN Append(s, e) = 1 .. Len(s) + 1
  BY <1>2
<1>4. \A i \in 1 .. Len(s) : Append(s, e)[i] = s[i]
  OBVIOUS
<1> QED
  BY <1>1, <1>3, <1>4

\* Every step keeps what the pages of a search for chunks have shown.
LEMMA ChunksStep ==
  ASSUME AnswersIInv, changed \in Nat, ChunksIInv, [S!Next]_searchVars
  PROVE  ChunksIInv'
<1> SUFFICES ASSUME ask'.kind = "chunks", Undisturbed', Covered' PROVE ChunksPages'
  BY DEF ChunksIInv
<1>1. ask' = ask /\ ask.kind = "chunks" /\ OfChunks
  BY AskStays DEF OfChunks, S!OfGroups
<1>2. SearchTypes /\ Turn /\ HitsAt
  BY <1>1 DEF AnswersIInv
<1>3. page \in Nat /\ later \in S!Orders
  BY <1>2 DEF SearchTypes
<1>4. /\ UNCHANGED <<status, later, ask>>
      /\ ~S!Ask => Undisturbed /\ page' = page
  BY <1>3, StillUndisturbed
<1>5. Covered
  BY <1>4 DEF Covered, S!Points
<1>6. (page > 0 => ChunksPages) /\ (~S!Ask => page > 0 /\ ChunksPages)
  <2>1. page > 0 => Undisturbed
    <3>1. changed' = changed
      BY <1>3, StillUndisturbed
    <3> QED
      BY <3>1 DEF Undisturbed
  <2>2. page > 0 => ChunksPages
    BY <1>1, <1>5, <2>1 DEF ChunksIInv
  <2>3. ~S!Ask => page > 0
    BY <1>4 DEF Undisturbed
  <2> QED
    BY <2>2, <2>3
<1>7. CASE S!Ask
  <2>1. at = "ask" /\ at' \notin {"rows", "done"} /\ counted' = None /\ pages' = pages
    BY <1>7 DEF S!Ask
  <2>2. \A i \in DOMAIN pages : Once(pages[i].list) /\ S!Range(pages[i].list) = Shown(List, i) \cap S!Rows
    <3>1. CASE page > 0
      BY <1>6, <3>1 DEF ChunksPages
    <3>2. CASE ~(page > 0)
      <4>1. Len(pages) = 0
        BY <1>2, <1>3, <2>1, <3>2 DEF Turn
      <4>2. pages \in Seq([is : {"found", "error", "panic"}, list : Seq(S!Chunks)])
        BY <1>2 DEF SearchTypes
      <4> QED
        BY <4>1, <4>2
    <3> QED
      BY <3>1, <3>2
  <2> QED
    BY <1>4, <2>1, <2>2, ChunksPagesKept
<1>8. CASE S!CountPoints
  <2>1. ChunksPages /\ page' = page
    BY <1>4, <1>6, <1>8 DEF S!Ask, S!CountPoints, Undisturbed
  <2>2. counted' = Cardinality(S!Points) /\ at' = at /\ hits' = hits /\ pages' = pages
    BY <1>1, <1>5, <1>8, CountedPoints DEF S!CountPoints
  <2> QED
    BY <1>4, <2>1, <2>2, ChunksPagesKept DEF ChunksPages
<1>9. CASE S!QueryChunks
  <2>1. at = "query" /\ at' = "rows" /\ counted' = counted /\ pages' = pages /\ page' = page
    BY <1>9 DEF S!QueryChunks
  <2>2. ChunksPages /\ page \in Nat \ {0}
    BY <1>3, <1>6, <2>1 DEF S!Ask
  <2>3. Once(hits') /\ S!Range(hits') = Shown(List, page)
    BY <1>1, <1>2, <1>5, <1>9, <2>2, ChunksFound
  <2> QED
    BY <1>4, <2>1, <2>2, <2>3, ChunksPagesKept DEF ChunksPages
<1>10. CASE S!ReadRows
  <2>1. /\ at = "rows" /\ counted' = counted /\ page' = page /\ counted # None
        /\ S!Answer("found", S!Result, IF S!LastPage THEN "done" ELSE "ask")
    <3>1. ~S!Panics /\ S!Counts
      BY <1>1 DEF S!Panics, S!Completes, S!Counts, S!Recommends
    <3> QED
      BY <1>10, <3>1 DEF S!ReadRows
  <2>2. ChunksPages
    BY <1>6, <2>1 DEF S!Ask
  <2>3. Len(hits) <= SearchPage
    BY <1>1, <1>2, <2>1 DEF HitsAt
  <2>4. S!Result \in Seq(S!Chunks) /\ Once(S!Result) /\ S!Range(S!Result) = Shown(List, page) \cap S!Rows
    BY <1>1, <1>2, <2>1, <2>2, <2>3, ResultOnce DEF ChunksPages
  <2> DEFINE E == [is : {"found", "error", "panic"}, list : Seq(S!Chunks)]
             e == [is |-> "found", list |-> S!Result]
  <2>5. /\ pages \in Seq(E) /\ e \in E /\ pages' = Append(pages, e) /\ at' = IF S!LastPage THEN "done" ELSE "ask"
        /\ e.list = S!Result
    BY <1>2, <2>1, <2>4 DEF SearchTypes, S!Answer
  <2> HIDE DEF E, e
  <2>6. Len(pages) + 1 = page
    BY <1>2, <2>1 DEF Turn
  <2>7. ASSUME NEW i \in DOMAIN pages'
        PROVE  Once(pages'[i].list) /\ S!Range(pages'[i].list) = Shown(List, i) \cap S!Rows
    <3>1. /\ DOMAIN pages' = DOMAIN pages \cup {page} /\ pages'[page] = e
          /\ \A j \in DOMAIN pages : pages'[j] = pages[j]
      BY <2>5, <2>6, PagesBefore
    <3> QED
      BY <2>2, <2>4, <2>5, <3>1 DEF ChunksPages
  <2>8. at' = "done" => SearchPage * page >= Cardinality(S!Points)
    <3>1. at' = "done" => S!LastPage
      BY <2>5
    <3>2. counted = Cardinality(S!Points) /\ counted \in Nat
      BY <2>1, <2>2, PointsAreFinite DEF ChunksPages
    <3> QED
      BY <1>1, <1>3, <3>1, <3>2, LastPageEnds
  <2>9. at' # "rows"
    BY <2>5
  <2> QED
    BY <1>4, <2>1, <2>2, <2>7, <2>8, <2>9, ChunksPagesKept DEF ChunksPages
<1>11. CASE UNCHANGED searchVars
  <2>1. ChunksPages
    BY <1>4, <1>6, <1>11 DEF searchVars, Undisturbed
  <2> QED
    BY <1>4, <1>11, <2>1, ChunksPagesKept DEF searchVars, ChunksPages
<1>12. CASE \E c \in S!Chunks : S!Change(c)
  <2>1. status' # status
    BY <1>2, <1>12 DEF S!Change, S!After, SearchTypes
  <2> QED
    BY <1>4, <2>1
<1> QED
  BY <1>1, <1>7, <1>8, <1>9, <1>10, <1>11, <1>12
  DEF S!Next, S!GetRecommendedChunks, S!GetRecommendedGroups, S!ScrollChunks, S!QueryGroups, S!Scroll,
    S!RecommendChunks, S!RecommendGroups

\* Pages that show the parts of a list up to its end show all of it, and once.
LEMMA PagesMeet ==
  ASSUME NEW X, NEW L \in Seq(X), Once(L), NEW T, page \in Nat, DOMAIN pages = 1 .. page,
         SearchPage * page >= Len(L),
         \A i \in DOMAIN pages : Once(pages[i].list) /\ S!Range(pages[i].list) = Shown(L, i) \cap T
  PROVE  S!Seen = S!Range(L) \cap T /\ S!MetOnce
<1>1. UNION {Shown(L, i) : i \in 1 .. page} = S!Range(L)
  <2>1. \A m \in Nat : SearchPage * m >= Len(L) => UNION {Shown(L, i) : i \in 1 .. m} = S!Range(L)
    BY PagesPartList
  <2> QED
    BY <2>1
<1>2. S!Seen = (UNION {Shown(L, i) : i \in 1 .. page}) \cap T
  BY DEF S!Seen
<1>3. S!MetOnce
  <2> SUFFICES ASSUME NEW i \in DOMAIN pages, NEW k \in DOMAIN pages,
                      NEW a \in DOMAIN pages[i].list, NEW b \in DOMAIN pages[k].list,
                      pages[i].list[a] = pages[k].list[b]
               PROVE  i = k /\ a = b
    BY DEF S!MetOnce
  <2>1. pages[i].list[a] \in Shown(L, i) /\ pages[i].list[a] \in Shown(L, k)
    BY DEF S!Range
  <2>2. i = k
    <3>1. i \in Nat \ {0} /\ k \in Nat \ {0}
      OBVIOUS
    <3> QED
      BY <2>1, <3>1, PagesPartList
  <2> QED
    BY <2>2 DEF Once
<1> QED
  BY <1>1, <1>2, <1>3

\* When all pages were read, they show every chunk once.
LEMMA ChunksPartition ==
  ASSUME AnswersIInv, ChunksIInv, ask.kind = "chunks", at = "done", Undisturbed, Covered
  PROVE  S!Seen = {c \in S!Chunks : status[c] = "whole"} /\ S!MetOnce
<1>1. OfChunks
  BY DEF OfChunks, S!OfGroups
<1>2. SearchTypes /\ Turn /\ ChunksPages
  BY <1>1 DEF AnswersIInv, ChunksIInv
<1>3. /\ page \in Nat /\ DOMAIN pages = 1 .. page /\ SearchPage * page >= Cardinality(S!Points)
      /\ \A i \in DOMAIN pages : Once(pages[i].list) /\ S!Range(pages[i].list) = Shown(List, i) \cap S!Rows
  BY <1>2 DEF SearchTypes, Turn, ChunksPages
<1>4. List \in Seq(S!Chunks) /\ Once(List) /\ S!Range(List) = S!Points /\ Len(List) = Cardinality(S!Points)
  BY <1>2, ListOfPoints DEF SearchTypes
<1>5. S!Points \cap S!Rows = {c \in S!Chunks : status[c] = "whole"}
  BY DEF S!Points, S!Rows
<1>6. S!Seen = S!Range(List) \cap S!Rows /\ S!MetOnce
  BY <1>3, <1>4, PagesMeet
<1> QED
  BY <1>4, <1>5, <1>6

--------------------------------------------------------------------------------
(* Searches over groups.                                                    *)

\* What the constants of the searches are.
LEMMA Amounts ==
  /\ IsFiniteSet(Groups) /\ MaxLimit \in Nat /\ MaxChanges \in Nat /\ MaxPages \in Nat
  /\ Prefetch \in Nat \ {0} /\ Window \in Nat \ {0} /\ GroupSize \in Nat \ {0} /\ SearchPage \in Nat \ {0}
<1>1. \A T : S!IsFiniteSet(T) <=> IsFiniteSet(T)
  BY DEF S!IsFiniteSet, IsFiniteSet
<1> QED
  BY <1>1, SearchConstants DEF S!SearchAssumption

\* The elements of a set T that come before x in an order R.
RankIn(T, R, x) == Cardinality({y \in T : <<y, x>> \in R})

\* A finite set in a strict total order: each of its elements has one place.
LEMMA SortedSet ==
  ASSUME NEW T, IsFiniteSet(T), NEW R,
         \A x \in T : <<x, x>> \notin R,
         \A x, y, z \in T : <<x, y>> \in R /\ <<y, z>> \in R => <<x, z>> \in R,
         \A x, y \in T : x # y => <<x, y>> \in R \/ <<y, x>> \in R
  PROVE  /\ Cardinality(T) \in Nat /\ DOMAIN S!Sorted(T, R) = 1 .. Cardinality(T)
         /\ S!Sorted(T, R) \in [1 .. Cardinality(T) -> T]
         /\ Once(S!Sorted(T, R)) /\ S!Range(S!Sorted(T, R)) = T
<1> DEFINE n == Cardinality(T)
           f == [x \in T |-> RankIn(T, R, x) + 1]
           s == S!Sorted(T, R)
<1>1. n \in Nat
  BY FS_CardinalityType
<1>2. ASSUME NEW x \in T, NEW y \in T, <<x, y>> \in R
      PROVE  RankIn(T, R, x) \in Nat /\ RankIn(T, R, y) \in Nat /\ RankIn(T, R, x) < RankIn(T, R, y)
  <2> DEFINE A == {z \in T : <<z, x>> \in R}
             Upto == {z \in T : <<z, y>> \in R}
  <2>1. A \subseteq Upto /\ x \in Upto /\ x \notin A /\ Upto \subseteq T
    BY <1>2
  <2> HIDE DEF A, Upto
  <2>2. IsFiniteSet(Upto)
    BY <2>1, FS_Subset
  <2>3. /\ IsFiniteSet(A) /\ Cardinality(A) <= Cardinality(Upto)
        /\ Cardinality(A) # Cardinality(Upto)
    BY <2>1, <2>2, FS_Subset
  <2>4. Cardinality(A) \in Nat /\ Cardinality(Upto) \in Nat
    BY <2>2, <2>3, FS_CardinalityType
  <2> QED
    BY <2>3, <2>4 DEF RankIn, A, Upto
<1>3. ASSUME NEW x \in T PROVE RankIn(T, R, x) \in 0 .. n - 1
  <2> DEFINE A == {z \in T : <<z, x>> \in R}
  <2>1. A \subseteq T /\ x \in T /\ x \notin A
    OBVIOUS
  <2> HIDE DEF A
  <2>2. IsFiniteSet(A) /\ Cardinality(A) <= n /\ Cardinality(A) # n
    BY <2>1, FS_Subset
  <2>3. Cardinality(A) \in Nat
    BY <2>2, FS_CardinalityType
  <2> QED
    BY <1>1, <2>2, <2>3 DEF RankIn, A
<1>4. ASSUME NEW x \in T, NEW y \in T, RankIn(T, R, x) = RankIn(T, R, y) PROVE x = y
  <2> SUFFICES ASSUME x # y PROVE FALSE
    OBVIOUS
  <2>1. <<x, y>> \in R \/ <<y, x>> \in R
    OBVIOUS
  <2>2. RankIn(T, R, x) < RankIn(T, R, y) \/ RankIn(T, R, y) < RankIn(T, R, x)
    BY <1>2, <2>1
  <2>3. RankIn(T, R, x) \in Nat
    BY <1>3
  <2> QED
    BY <1>4, <2>2, <2>3
<1>5. f \in Injection(T, 1 .. n)
  <2>1. \A x \in T : f[x] \in 1 .. n
    BY <1>1, <1>3
  <2>2. ASSUME NEW x \in T, NEW y \in T, f[x] = f[y] PROVE x = y
    <3>1. RankIn(T, R, x) \in Nat /\ RankIn(T, R, y) \in Nat
      BY <1>3
    <3>2. RankIn(T, R, x) = RankIn(T, R, y)
      BY <2>2, <3>1
    <3> QED
      BY <1>4, <3>2
  <2> QED
    BY <2>1, <2>2 DEF Injection, IsInjective
<1>6. IsFiniteSet(1 .. n) /\ Cardinality(1 .. n) = n
  BY <1>1, FS_Interval
<1>7. f \in Surjection(T, 1 .. n)
  <2> HIDE DEF f, n
  <2> QED
    BY <1>5, <1>6, FS_Injection DEF n
<1>8. ASSUME NEW k \in 1 .. n PROVE \E x \in T : RankIn(T, R, x) = k - 1
  <2>1. PICK x \in T : f[x] = k
    BY <1>7 DEF Surjection
  <2>2. RankIn(T, R, x) \in Nat /\ RankIn(T, R, x) + 1 = k
    BY <1>3, <2>1
  <2> QED
    BY <2>2
<1>9. s = [k \in 1 .. n |-> CHOOSE x \in T : RankIn(T, R, x) = k - 1]
  BY DEF S!Sorted, S!Cardinality, Cardinality, RankIn
<1> HIDE DEF s, f, n
<1>10. DOMAIN s = 1 .. n /\ \A k \in 1 .. n : s[k] \in T /\ RankIn(T, R, s[k]) = k - 1
  <2>1. ASSUME NEW k \in 1 .. n PROVE s[k] \in T /\ RankIn(T, R, s[k]) = k - 1
    BY <1>8, <1>9
  <2> QED
    BY <1>9, <2>1
<1>11. s \in [1 .. n -> T]
  <2>1. \A k \in 1 .. n : (CHOOSE x \in T : RankIn(T, R, x) = k - 1) \in T
    BY <1>8
  <2> QED
    BY <1>9, <2>1
<1>12. Once(s)
  <2>1. ASSUME NEW k \in 1 .. n, NEW m \in 1 .. n, s[k] = s[m] PROVE k = m
    <3>1. k - 1 = m - 1
      BY <1>10, <2>1
    <3> QED
      BY <3>1
  <2> QED
    BY <1>10, <2>1 DEF Once
<1>13. ASSUME NEW x \in T PROVE x \in S!Range(s)
  <2>1. RankIn(T, R, x) \in 0 .. n - 1
    BY <1>3
  <2>2. PICK k \in 1 .. n : k - 1 = RankIn(T, R, x)
    <3>1. \A r \in 0 .. n - 1 : r + 1 \in 1 .. n /\ r + 1 - 1 = r
      BY <1>1
    <3> QED
      BY <2>1, <3>1
  <2>3. s[k] = x
    BY <1>4, <1>10, <2>2
  <2> QED
    BY <1>10, <2>3 DEF S!Range
<1>14. S!Range(s) \subseteq T
  BY <1>10 DEF S!Range
<1> QED
  BY <1>1, <1>10, <1>11, <1>12, <1>13, <1>14 DEF s, n

\* Groups of one point are told apart by an order that is fixed.
LEMMA TiesDiffer ==
  /\ \A g \in Groups : S!Tie(g) \in Nat
  /\ \A g, h \in Groups : S!Tie(g) = S!Tie(h) => g = h
<1> DEFINE n == Cardinality(Groups)
<1>1. IsFiniteSet(Groups) /\ n \in Nat
  BY Amounts, FS_CardinalityType
<1>2. \E f \in [1 .. n -> Groups] : \A i, j \in 1 .. n : f[i] = f[j] => i = j
  <2>1. ExistsBijection(1 .. n, Groups)
    BY <1>1, FS_CardinalityType
  <2>2. PICK f \in Bijection(1 .. n, Groups) : TRUE
    BY <2>1 DEF ExistsBijection
  <2> QED
    BY <2>2 DEF Bijection, Injection, IsInjective
<1>3. S!Ties = CHOOSE f \in [1 .. n -> Groups] : \A a, b \in DOMAIN f : f[a] = f[b] => a = b
  BY DEF S!Ties, S!SetToSeq, S!IsInjective, S!Cardinality, Cardinality
<1>4. S!Ties \in [1 .. n -> Groups] /\ \A i, j \in 1 .. n : S!Ties[i] = S!Ties[j] => i = j
  <2>1. \E f \in [1 .. n -> Groups] : \A a, b \in DOMAIN f : f[a] = f[b] => a = b
    BY <1>2
  <2>2. S!Ties \in [1 .. n -> Groups] /\ \A a, b \in DOMAIN S!Ties : S!Ties[a] = S!Ties[b] => a = b
    BY <1>3, <2>1
  <2> QED
    BY <2>2
<1>5. S!Ties \in Injection(1 .. n, Groups)
  BY <1>4 DEF Injection, IsInjective
<1>6. IsFiniteSet(1 .. n) /\ Cardinality(1 .. n) = n
  BY <1>1, FS_Interval
<1>7. S!Ties \in Surjection(1 .. n, Groups)
  <2> HIDE DEF n
  <2> QED
    BY <1>1, <1>5, <1>6, FS_Injection DEF n
<1>8. \A g \in Groups : S!Tie(g) \in 1 .. n /\ S!Ties[S!Tie(g)] = g
  BY <1>4, <1>7 DEF Surjection, S!Tie
<1> QED
  BY <1>4, <1>8

\* The groups of points are in a strict total order.
LEMMA GroupsInOrder ==
  ASSUME member \in [S!Chunks -> SUBSET Groups], NEW found \in Seq(S!Chunks), NEW P \in SUBSET S!Chunks,
         S!Range(found) = P
  PROVE  LET N == S!Names(P)
             Sooner == {p \in N \X N : S!Before(found, p[1], p[2])} IN
         /\ N \subseteq Groups /\ IsFiniteSet(N)
         /\ \A x \in N : <<x, x>> \notin Sooner
         /\ \A x, y, z \in N : <<x, y>> \in Sooner /\ <<y, z>> \in Sooner => <<x, z>> \in Sooner
         /\ \A x, y \in N : x # y => <<x, y>> \in Sooner \/ <<y, x>> \in Sooner
<1> DEFINE N == S!Names(P)
           Sooner == {p \in N \X N : S!Before(found, p[1], p[2])}
<1>1. N \subseteq Groups /\ IsFiniteSet(N)
  <2>1. N \subseteq Groups
    BY DEF S!Names
  <2> QED
    BY <2>1, Amounts, FS_Subset
<1>2. ASSUME NEW g \in N PROVE S!Best(found, g) \in Nat
  <2> DEFINE D == {i \in DOMAIN found : g \in member[found[i]]}
  <2>1. D \in SUBSET (1 .. Len(found)) /\ Len(found) \in Nat
    OBVIOUS
  <2>2. PICK c \in P : g \in member[c]
    BY DEF S!Names
  <2>3. D # {}
    <3>1. PICK i \in DOMAIN found : found[i] = c
      BY <2>2 DEF S!Range
    <3> QED
      BY <2>2, <3>1
  <2> HIDE DEF D
  <2>4. \E a \in D : \A i \in D : a <= i
    BY <2>1, <2>3, FirstAndLast
  <2>5. S!Min(D) \in D
    BY <2>4 DEF S!Min
  <2> QED
    BY <2>1, <2>5 DEF S!Best, D
<1>3. /\ \A g \in N : S!Best(found, g) \in Nat /\ S!Tie(g) \in Nat
      /\ \A g, h \in N : S!Tie(g) = S!Tie(h) => g = h
  BY <1>1, <1>2, TiesDiffer
<1>4. \A x, y \in N : <<x, y>> \in Sooner <=>
        S!Best(found, x) < S!Best(found, y) \/ (S!Best(found, x) = S!Best(found, y) /\ S!Tie(x) < S!Tie(y))
  BY DEF S!Before
<1> HIDE DEF Sooner, N
<1>5. \A x \in N : <<x, x>> \notin Sooner
  BY <1>3, <1>4
<1>6. \A x, y, z \in N : <<x, y>> \in Sooner /\ <<y, z>> \in Sooner => <<x, z>> \in Sooner
  BY <1>3, <1>4
<1>7. \A x, y \in N : x # y => <<x, y>> \in Sooner \/ <<y, x>> \in Sooner
  BY <1>3, <1>4
<1> QED
  BY <1>1, <1>5, <1>6, <1>7 DEF N, Sooner

\* A group that is found, with hits.
Hit == [group : Groups, hits : Seq(S!Chunks)]

\* Every order is a list of the chunks.
LEMMA EveryOrder ==
  ASSUME NEW o \in S!Orders
  PROVE  o \in Seq(S!Chunks) /\ S!Range(o) = S!Chunks /\ Len(o) = SearchedChunks
BY DenseOrder DEF S!Orders, S!Chunks

\* What a search over groups finds: each group of the points once.
LEMMA GroupsAreFound ==
  ASSUME member \in [S!Chunks -> SUBSET Groups], NEW o \in S!Orders, NEW P \in SUBSET S!Chunks
  PROVE  LET gs == S!GroupsOf(o, P)
             names == [k \in DOMAIN gs |-> gs[k].group] IN
         /\ gs \in Seq(Hit) /\ names \in Seq(Groups) /\ Len(names) = Len(gs)
         /\ Once(names) /\ S!Range(names) = S!Names(P)
<1> DEFINE found == S!InOrder(o, P)
           N == S!Names(P)
           Sooner == {p \in N \X N : S!Before(found, p[1], p[2])}
           named == S!Sorted(N, Sooner)
           gs == S!GroupsOf(o, P)
           names == [k \in DOMAIN gs |-> gs[k].group]
           of(g) == S!Slice(S!InOrder(o, P \cap S!Members(g)), 0, GroupSize)
<1>1. found \in Seq(S!Chunks) /\ S!Range(found) = P
  <2>1. found \in Seq(S!Chunks) /\ S!Range(found) = S!Range(o) \cap P
    BY EveryOrder, ElementsInOrder
  <2> QED
    BY <2>1, EveryOrder
<1>2. gs = [k \in DOMAIN named |-> [group |-> named[k], hits |-> of(named[k])]]
  BY DEF S!GroupsOf
<1>3. \A g : of(g) \in Seq(S!Chunks)
  <2> TAKE g
  <2> DEFINE l == S!InOrder(o, P \cap S!Members(g))
  <2>1. l \in Seq(S!Chunks)
    BY EveryOrder, ElementsInOrder
  <2> HIDE DEF l
  <2>2. 0 \in Nat /\ GroupSize \in Nat
    BY Amounts
  <2>3. S!Slice(l, 0, GroupSize) \in Seq(S!Chunks)
    BY <2>1, <2>2, SliceOfList
  <2> QED
    BY <2>3 DEF l
<1> HIDE DEF found, of
<1>4. /\ N \subseteq Groups /\ IsFiniteSet(N)
      /\ \A x \in N : <<x, x>> \notin Sooner
      /\ \A x, y, z \in N : <<x, y>> \in Sooner /\ <<y, z>> \in Sooner => <<x, z>> \in Sooner
      /\ \A x, y \in N : x # y => <<x, y>> \in Sooner \/ <<y, x>> \in Sooner
  BY <1>1, GroupsInOrder
<1> HIDE DEF N, Sooner
<1>5. /\ Cardinality(N) \in Nat /\ named \in [1 .. Cardinality(N) -> N] /\ DOMAIN named = 1 .. Cardinality(N)
      /\ Once(named) /\ S!Range(named) = N
  BY <1>4, SortedSet
<1> HIDE DEF named, gs
<1>6. gs \in [1 .. Cardinality(N) -> Hit]
  <2>1. ASSUME NEW k \in 1 .. Cardinality(N) PROVE [group |-> named[k], hits |-> of(named[k])] \in Hit
    <3>1. named[k] \in Groups /\ of(named[k]) \in Seq(S!Chunks)
      BY <1>3, <1>4, <1>5
    <3> QED
      BY <3>1 DEF Hit
  <2> QED
    BY <1>2, <1>5, <2>1
<1>7. gs \in Seq(Hit) /\ DOMAIN gs = 1 .. Cardinality(N) /\ Len(gs) = Cardinality(N)
  BY <1>5, <1>6
<1>8. \A k \in 1 .. Cardinality(N) : gs[k].group = named[k]
  BY <1>2, <1>5
<1>9. names = named
  BY <1>5, <1>7, <1>8
<1>10. named \in Seq(Groups) /\ Len(named) = Cardinality(N)
  BY <1>4, <1>5
<1> QED
  BY <1>5, <1>7, <1>9, <1>10 DEF gs, N

\* Two slices of a list, the second from an offset up to the end of the first, are one.
LEMMA TwoSlices ==
  ASSUME NEW X, NEW s \in Seq(X), NEW o \in Nat, NEW n \in Nat, NEW z \in Nat, z = o + n
  PROVE  S!Slice(S!Slice(s, 0, z), o, n) = S!Slice(s, o, n)
<1> DEFINE a == S!Slice(s, 0, z)
           b == S!Slice(a, o, n)
           c == S!Slice(s, o, n)
<1>0. 0 \in Nat /\ Len(s) \in Nat
  OBVIOUS
<1>1. a \in Seq(X)
  BY <1>0, SliceOfList
<1>2. Len(a) = IF 0 >= Len(s) THEN 0 ELSE IF 0 + z < Len(s) THEN z ELSE Len(s) - 0
  BY <1>0, SliceOfList
<1>3. \A i \in 1 .. Len(a) : i + 0 \in 1 .. Len(s) /\ a[i] = s[i + 0]
  BY <1>0, SliceOfList
<1> HIDE DEF a
<1>4. b \in Seq(X)
  BY <1>1, SliceOfList
<1>5. Len(b) = IF o >= Len(a) THEN 0 ELSE IF o + n < Len(a) THEN n ELSE Len(a) - o
  BY <1>1, SliceOfList
<1>6. \A i \in 1 .. Len(b) : i + o \in 1 .. Len(a) /\ b[i] = a[i + o]
  BY <1>1, SliceOfList
<1>7. c \in Seq(X)
  BY SliceOfList
<1>8. Len(c) = IF o >= Len(s) THEN 0 ELSE IF o + n < Len(s) THEN n ELSE Len(s) - o
  BY SliceOfList
<1>9. \A i \in 1 .. Len(c) : i + o \in 1 .. Len(s) /\ c[i] = s[i + o]
  BY SliceOfList
<1> HIDE DEF b, c
<1>10. Len(b) = Len(c) /\ Len(b) \in Nat
  BY <1>0, <1>2, <1>4, <1>5, <1>8
<1>11. ASSUME NEW i \in 1 .. Len(b) PROVE b[i] = c[i]
  <2>1. i + o \in 1 .. Len(a) /\ i + o + 0 = i + o
    BY <1>6, <1>10
  <2>2. b[i] = s[i + o]
    BY <1>3, <1>6, <2>1
  <2> QED
    BY <1>9, <1>10, <2>2
<1>12. b = c
  BY <1>4, <1>7, <1>10, <1>11
<1> QED
  BY <1>12 DEF a, b, c

\* A part of a list has its type.
LEMMA SublistType ==
  ASSUME NEW X, NEW s \in Seq(X), NEW P \in SUBSET (DOMAIN s)
  PROVE  S!Sublist(s, P) \in Seq(X) /\ Len(S!Sublist(s, P)) <= Len(s) /\ Len(S!Sublist(s, P)) \in Nat
<1>1. P \in SUBSET (1 .. Len(s))
  OBVIOUS
<1> QED
  BY <1>1, PartOfList

\* The pages of a search over groups.
LEMMA PagesOfGroups ==
  ASSUME member \in [S!Chunks -> SUBSET Groups], NEW order \in S!Orders, NEW p \in Nat \ {0}
  PROVE  /\ S!SearchGroups(order, p) \in Seq(Hit)
         /\ S!SearchGroups(order, p) = S!Slice(S!GroupsOf(order, S!Points), S!Offset(p), SearchPage)
<1> DEFINE gs == S!GroupsOf(order, S!Points)
<1>1. gs \in Seq(Hit)
  BY GroupsAreFound, PointsAreFinite
<1>2. S!SearchGroups(order, p) = S!Slice(S!Slice(gs, 0, SearchPage * p), S!Offset(p), SearchPage)
  BY DEF S!SearchGroups
<1> HIDE DEF gs
<1>3. SearchPage \in Nat /\ S!Offset(p) \in Nat /\ SearchPage * p \in Nat /\ SearchPage * p = S!Offset(p) + SearchPage
  <2>1. SearchPage \in Nat
    BY DenseOrder
  <2> QED
    BY <2>1, Multiples, OffsetOfPage DEF S!Offset
<1>4. S!Slice(S!Slice(gs, 0, SearchPage * p), S!Offset(p), SearchPage) = S!Slice(gs, S!Offset(p), SearchPage)
  BY <1>1, <1>3, TwoSlices
<1>5. S!Slice(gs, S!Offset(p), SearchPage) \in Seq(Hit)
  BY <1>1, <1>3, SliceOfList
<1> QED
  BY <1>2, <1>4, <1>5 DEF gs

\* The smaller of two numbers, and the largest of some.
LEMMA LeastAndMost ==
  /\ \A a, b \in Nat : S!Min({a, b}) \in {a, b} /\ S!Min({a, b}) <= a /\ S!Min({a, b}) <= b
  /\ \A a, b \in Nat : S!Max({a, b}) \in {a, b}
  /\ \A a \in Nat : S!Max({a}) = a
<1>1. ASSUME NEW a \in Nat, NEW b \in Nat PROVE S!Min({a, b}) \in {a, b} /\ S!Min({a, b}) <= a /\ S!Min({a, b}) <= b
  <2>1. \E x \in {a, b} : \A y \in {a, b} : x <= y
    OBVIOUS
  <2> QED
    BY <2>1 DEF S!Min
<1>2. ASSUME NEW a \in Nat, NEW b \in Nat PROVE S!Max({a, b}) \in {a, b}
  <2>1. \E x \in {a, b} : \A y \in {a, b} : x >= y
    OBVIOUS
  <2> QED
    BY <2>1 DEF S!Max
<1>3. ASSUME NEW a \in Nat PROVE S!Max({a}) = a
  BY DEF S!Max
<1> QED
  BY <1>1, <1>2, <1>3

\* Two searches over groups are zipped, and each group answered once.
LEMMA ZippedGroups ==
  ASSUME NEW xs \in Seq(Hit), NEW ys \in Seq(Hit)
  PROVE  S!ZipGroups(xs, ys) \in Seq(Hit)
<1> DEFINE n == S!Min({Len(xs), Len(ys)})
           z == [k \in 1 .. 2 * n |-> IF k % 2 = 1 THEN xs[(k + 1) \div 2] ELSE ys[k \div 2]]
           P == {i \in DOMAIN z : \A j \in 1 .. i - 1 : z[j].group # z[i].group}
<1>1. n \in Nat /\ n <= Len(xs) /\ n <= Len(ys) /\ Len(xs) \in Nat /\ Len(ys) \in Nat
  <2>1. Len(xs) \in Nat /\ Len(ys) \in Nat
    OBVIOUS
  <2> QED
    BY <2>1, LeastAndMost
<1>2. S!ZipGroups(xs, ys) = S!Sublist(z, P)
  BY DEF S!ZipGroups
<1> HIDE DEF n
<1>3. ASSUME NEW k \in 1 .. 2 * n
      PROVE  (IF k % 2 = 1 THEN xs[(k + 1) \div 2] ELSE ys[k \div 2]) \in Hit
  <2>1. CASE k % 2 = 1
    <3>1. (k + 1) \div 2 \in 1 .. Len(xs)
      BY <1>1, <2>1
    <3> QED
      BY <2>1, <3>1
  <2>2. CASE k % 2 # 1
    <3>1. k \div 2 \in 1 .. Len(ys)
      BY <1>1, <2>2
    <3> QED
      BY <2>2, <3>1
  <2> QED
    BY <2>1, <2>2
<1>4. z \in [1 .. 2 * n -> Hit] /\ 2 * n \in Nat
  BY <1>1, <1>3
<1>5. P \in SUBSET (DOMAIN z)
  OBVIOUS
<1> HIDE DEF z, P
<1>6. z \in Seq(Hit)
  BY <1>4
<1> QED
  BY <1>2, <1>5, <1>6, SublistType

\* The cross encoder answers with groups that it was given.
LEMMA EncodedGroups ==
  ASSUME encoded \in S!Orders, NEW gs \in Seq(Hit), \A i \in DOMAIN gs : gs[i].hits # << >>
  PROVE  S!EncodeGroups(gs) \in Seq(Groups)
<1> DEFINE D == DOMAIN gs
           top(i) == gs[i].hits[1]
           better == {p \in D \X D : \/ S!Position(encoded, top(p[1])) < S!Position(encoded, top(p[2]))
                                     \/ top(p[1]) = top(p[2]) /\ p[1] < p[2]}
           sorted == S!Sorted(D, better)
           tops == [k \in D |-> top(sorted[k])]
           answered == S!Slice(tops, 0, SearchPage)
           has(c) == {i \in D : c \in S!Range(gs[i].hits)}
           owner(c) == gs[S!Min(has(c))].group
           names == [i \in DOMAIN answered |-> owner(answered[i])]
           P == {i \in DOMAIN names : i = 1 \/ names[i - 1] # names[i]}
<1>0. S!EncodeGroups(gs) = S!Sublist(names, P)
  BY DEF S!EncodeGroups
<1>1. D = 1 .. Len(gs) /\ Len(gs) \in Nat /\ \A i \in D : gs[i] \in Hit
  OBVIOUS
<1>2. ASSUME NEW i \in D PROVE top(i) \in S!Chunks /\ i \in has(top(i)) /\ gs[i].group \in Groups
  <2>1. gs[i].hits \in Seq(S!Chunks) /\ gs[i].hits # << >> /\ gs[i].group \in Groups
    BY <1>1 DEF Hit
  <2>2. 1 \in DOMAIN gs[i].hits
    BY <2>1
  <2> QED
    BY <2>1, <2>2 DEF S!Range
<1> HIDE DEF top
<1>3. \A i \in D : S!Position(encoded, top(i)) \in Nat /\ i \in Nat
  BY <1>1, <1>2, AnOrder DEF S!Chunks
<1>4. \A i, j \in D : S!Position(encoded, top(i)) = S!Position(encoded, top(j)) => top(i) = top(j)
  <2>1. \A c, d \in S!Chunks : S!Position(encoded, c) = S!Position(encoded, d) => c = d
    BY AnOrder
  <2> QED
    BY <1>2, <2>1
<1>5. \A x, y \in D : <<x, y>> \in better <=>
        S!Position(encoded, top(x)) < S!Position(encoded, top(y)) \/ (top(x) = top(y) /\ x < y)
  OBVIOUS
<1>6. IsFiniteSet(D) /\ Cardinality(D) = Len(gs)
  <2>1. 1 \in Int /\ Len(gs) \in Int /\ Len(gs) - 1 + 1 = Len(gs) /\ (1 > Len(gs) => Len(gs) = 0)
    BY <1>1
  <2> QED
    BY <1>1, <2>1, FS_Interval
<1> HIDE DEF better, D
<1>7. \A x \in D : <<x, x>> \notin better
  BY <1>3, <1>5
<1>8. \A x, y, z \in D : <<x, y>> \in better /\ <<y, z>> \in better => <<x, z>> \in better
  <2> TAKE x, y, z \in D
  <2>1. S!Position(encoded, top(x)) \in Nat /\ S!Position(encoded, top(y)) \in Nat /\ S!Position(encoded, top(z)) \in Nat /\ x \in Nat /\ y \in Nat /\ z \in Nat
    BY <1>3
  <2> QED
    BY <1>5, <2>1
<1>9. \A x, y \in D : x # y => <<x, y>> \in better \/ <<y, x>> \in better
  <2> TAKE x, y \in D
  <2>1. S!Position(encoded, top(x)) \in Nat /\ S!Position(encoded, top(y)) \in Nat /\ x \in Nat /\ y \in Nat
    BY <1>3
  <2>2. S!Position(encoded, top(x)) = S!Position(encoded, top(y)) => top(x) = top(y)
    BY <1>4
  <2> QED
    BY <1>5, <2>1, <2>2
<1>10. sorted \in [1 .. Len(gs) -> D]
  BY <1>6, <1>7, <1>8, <1>9, SortedSet
<1> HIDE DEF sorted
<1> DEFINE Tops == {top(i) : i \in D}
<1>11. tops \in Seq(Tops)
  <2>1. \A k \in D : top(sorted[k]) \in Tops
    BY <1>1, <1>10 DEF D
  <2>2. D = 1 .. Len(gs)
    BY <1>1 DEF D
  <2> QED
    BY <1>1, <2>1, <2>2
<1> HIDE DEF tops
<1>12. answered \in Seq(Tops)
  <2>1. 0 \in Nat /\ SearchPage \in Nat
    BY DenseOrder
  <2> HIDE DEF Tops
  <2> QED
    BY <1>11, <2>1, SliceOfList
<1> HIDE DEF answered
<1>13. ASSUME NEW c \in Tops PROVE owner(c) \in Groups
  <2>1. PICK j \in D : c = top(j)
    OBVIOUS
  <2>2. j \in has(c)
    BY <1>2, <2>1 DEF D
  <2>3. has(c) \in SUBSET (1 .. Len(gs)) /\ has(c) # {}
    BY <1>1, <2>2 DEF D
  <2> DEFINE H == has(c)
  <2> HIDE DEF H
  <2>4. \E a \in H : \A i \in H : a <= i
    BY <1>1, <2>3, FirstAndLast DEF H
  <2>5. S!Min(H) \in H
    BY <2>4 DEF S!Min
  <2>6. S!Min(has(c)) \in D
    BY <2>5 DEF H
  <2> QED
    BY <1>2, <2>6 DEF D
<1> HIDE DEF Tops, owner
<1>14. names \in Seq(Groups)
  <2>1. DOMAIN answered = 1 .. Len(answered) /\ Len(answered) \in Nat /\ \A i \in DOMAIN answered : answered[i] \in Tops
    BY <1>12
  <2>2. \A i \in 1 .. Len(answered) : owner(answered[i]) \in Groups
    BY <1>13, <2>1
  <2> QED
    BY <2>1, <2>2
<1>15. P \in SUBSET (DOMAIN names)
  OBVIOUS
<1> HIDE DEF names, P
<1> QED
  BY <1>0, <1>14, <1>15, SublistType DEF P

--------------------------------------------------------------------------------
(* The types of a search.                                                   *)

\* The invariant of the types.
SearchTypeInv == S!TypeOK /\ S!Sensible(ask) /\ Turn /\ changed <= sChanges

\* What a list of answers is made of.
Listed == IF ask.kind \in S!OfGroups THEN Groups ELSE S!Chunks
Answer == [is : {"found", "error", "panic"}, list : Seq(Listed)]

\* It says what the invariant of the answers is about.
LEMMA TypesOfAnswers == ASSUME SearchTypeInv, OfChunks PROVE SearchTypes
<1>1. page \in Nat /\ first \in Nat
  BY Amounts, DenseOrder DEF SearchTypeInv, S!TypeOK
<1>2. ask.kind \in Kinds
  BY DEF SearchTypeInv, S!TypeOK, S!Requests
<1> QED
  BY <1>1, <1>2 DEF SearchTypeInv, SearchTypes, S!TypeOK, OfChunks

\* A search begins with the types.
LEMMA TypesInit == S!Init => SearchTypeInv
<1> SUFFICES ASSUME S!Init PROVE SearchTypeInv
  OBVIOUS
<1>1. /\ status \in [S!Chunks -> {"new", "whole"}] /\ ask \in S!Requests /\ S!Sensible(ask)
      /\ at = "ask" /\ page = 0 /\ hits = << >> /\ first = 0 /\ pages = << >> /\ steady = {} /\ hidden = {}
      /\ counted = None /\ sChanges = 0 /\ changed = 0
  BY DEF S!Init
<1>2. {sparse, later, encoded} \subseteq S!Orders
  BY OrdersToBeginWith DEF S!Init, S!Extremes
<1>3. member \in [S!Chunks -> SUBSET Groups]
  <2>1. CASE ask.kind \in S!Withins
    <3>1. ask.of \in Groups
      <4>1. ask.of = CHOOSE g \in Groups : TRUE
        BY <1>1, <2>1 DEF S!Sensible
      <4>2. ask.kind \in Kinds /\ ask.kind \in {"within", "hybrid_within"}
        BY <1>1, <2>1 DEF S!Requests, S!Withins
      <4>3. Groups # {}
        BY <4>2, SearchConstants DEF S!SearchAssumption
      <4> QED
        BY <4>1, <4>3
    <3> QED
      BY <2>1, <3>1 DEF S!Init
  <2>2. CASE ask.kind \in S!OfGroups
    BY <2>2 DEF S!Init, S!OfGroups, S!Withins
  <2>3. CASE ask.kind \notin S!OfGroups \cup S!Withins
    <3>1. member \in {[c \in S!Chunks |-> {}]}
      BY <2>3 DEF S!Init
    <3> QED
      BY <3>1
  <2> QED
    BY <2>1, <2>2, <2>3
<1> QED
  BY <1>1, <1>2, <1>3, Amounts, DenseOrder DEF SearchTypeInv, Turn, S!TypeOK

\* The types are kept by what a step has to say of the variables it changes.
LEMMA TypesKept ==
  ASSUME SearchTypeInv, UNCHANGED <<sparse, later, encoded, member, ask>>,
         status' \in [S!Chunks -> {"new", "row", "whole", "orphan", "gone"}],
         at' \in {"ask", "ids", "query", "rows", "done"}, page' \in 0 .. MaxPages, first' \in 0 .. SearchedChunks,
         hits' \in IF ask.kind \in S!OfGroups /\ at' # "query" THEN Seq(Hit) ELSE Seq(S!Chunks),
         counted' = None \/ counted' \in 0 .. MaxLimit, pages' \in Seq(Answer), Turn',
         steady' \subseteq S!Chunks, hidden' \subseteq S!Chunks,
         sChanges' \in 0 .. MaxChanges, changed' \in 0 .. MaxChanges, changed' <= sChanges'
  PROVE  SearchTypeInv'
<1>1. S!Orders' = S!Orders /\ {sparse, later, encoded} \subseteq S!Orders /\ member \in [S!Chunks -> SUBSET Groups]
      /\ ask \in S!Requests /\ S!Sensible(ask)
  BY DEF SearchTypeInv, S!TypeOK, S!Orders
<1>2. S!Sensible(ask)'
  BY <1>1 DEF S!Sensible
<1>3. ask' \in S!Requests /\ {sparse', later', encoded'} \subseteq S!Orders /\ member' \in [S!Chunks -> SUBSET Groups]
  BY <1>1
<1>4. hits' \in IF ask'.kind \in S!OfGroups /\ at' # "query" THEN Seq([group : Groups, hits : Seq(S!Chunks)]) ELSE Seq(S!Chunks)
  BY DEF Hit
<1>5. pages' \in Seq([is : {"found", "error", "panic"}, list : Seq(IF ask'.kind \in S!OfGroups THEN Groups ELSE S!Chunks)])
  BY DEF Answer, Listed
<1>6. S!TypeOK'
  BY <1>3, <1>4, <1>5 DEF S!TypeOK
<1> QED
  BY <1>2, <1>6 DEF SearchTypeInv

\* What an awaited page is, and that its answer is the last of the pages.
LEMMA TypesAwaited ==
  ASSUME SearchTypeInv, at \notin {"ask", "done"}
  PROVE  page \in Nat \ {0} /\ page \in 0 .. MaxPages /\ pages \in Seq(Answer) /\ Len(pages) + 1 = page
<1>1. pages \in Seq(Answer) /\ page \in 0 .. MaxPages /\ Len(pages) + 1 = page
  BY DEF SearchTypeInv, S!TypeOK, Answer, Listed, Turn
<1> QED
  BY <1>1, Amounts

\* An answer is added to the pages.
LEMMA TypesAnswered ==
  ASSUME SearchTypeInv, at \notin {"ask", "done"}, page' = page, ask' = ask,
         NEW is \in {"found", "error", "panic"}, NEW l \in Seq(Listed), NEW next \in {"ask", "done"}, S!Answer(is, l, next)
  PROVE  pages' \in Seq(Answer) /\ at' \in {"ask", "done"} /\ Turn'
<1> DEFINE e == [is |-> is, list |-> l]
<1>1. e \in Answer /\ pages \in Seq(Answer) /\ pages' = Append(pages, e) /\ at' = next /\ Len(pages) + 1 = page
  BY TypesAwaited DEF S!Answer, Answer
<1> HIDE DEF e
<1>2. pages' \in Seq(Answer) /\ Len(pages') = Len(pages) + 1
  BY <1>1, AppendProperties
<1> QED
  BY <1>1, <1>2 DEF Turn

\* An ingestion or a deletion takes its next step.
LEMMA TypesChange == ASSUME SearchTypeInv, NEW c \in S!Chunks, S!Change(c) PROVE SearchTypeInv'
<1>1. /\ sChanges < MaxChanges /\ status[c] # "gone" /\ status' = [status EXCEPT ![c] = S!After[status[c]]]
      /\ steady' = steady \ {c} /\ sChanges' = sChanges + 1 /\ changed' = IF page = 0 THEN changed ELSE changed + 1
      /\ UNCHANGED <<sparse, later, encoded, member, ask, at, page, hits, first, counted, pages, hidden>>
  BY DEF S!Change
<1>2. /\ status \in [S!Chunks -> {"new", "row", "whole", "orphan", "gone"}]
      /\ at \in {"ask", "ids", "query", "rows", "done"} /\ page \in 0 .. MaxPages /\ first \in 0 .. SearchedChunks
      /\ counted = None \/ counted \in 0 .. MaxLimit
      /\ steady \subseteq S!Chunks /\ hidden \subseteq S!Chunks
      /\ sChanges \in 0 .. MaxChanges /\ changed \in 0 .. MaxChanges /\ changed <= sChanges /\ Turn
  BY DEF SearchTypeInv, S!TypeOK
<1>3. S!After[status[c]] \in {"row", "whole", "orphan", "gone"}
  BY <1>1, <1>2 DEF S!After
<1>4. status' \in [S!Chunks -> {"new", "row", "whole", "orphan", "gone"}]
  BY <1>1, <1>2, <1>3
<1>5. sChanges' \in 0 .. MaxChanges /\ changed' \in 0 .. MaxChanges /\ changed' <= sChanges'
  BY <1>1, <1>2, Amounts
<1>6. hits' \in IF ask.kind \in S!OfGroups /\ at' # "query" THEN Seq(Hit) ELSE Seq(S!Chunks)
  BY <1>1 DEF SearchTypeInv, S!TypeOK, Hit
<1>7. pages' \in Seq(Answer)
  BY <1>1 DEF SearchTypeInv, S!TypeOK, Answer, Listed
<1>8. Turn' /\ steady' \subseteq S!Chunks
  BY <1>1, <1>2 DEF Turn
<1> QED
  BY <1>1, <1>2, <1>4, <1>5, <1>6, <1>7, <1>8, TypesKept

\* What the steps of a search have to say: they leave the stores alone.
LEMMA TypesOfStep ==
  ASSUME SearchTypeInv,
         UNCHANGED <<status, sparse, later, encoded, member, ask, steady, hidden, sChanges, changed, page>>,
         at' \in {"ask", "ids", "query", "rows", "done"}, first' \in 0 .. SearchedChunks,
         hits' \in IF ask.kind \in S!OfGroups /\ at' # "query" THEN Seq(Hit) ELSE Seq(S!Chunks),
         counted' = None \/ counted' \in 0 .. MaxLimit, pages' \in Seq(Answer), Turn'
  PROVE  SearchTypeInv'
<1>1. /\ status \in [S!Chunks -> {"new", "row", "whole", "orphan", "gone"}] /\ page \in 0 .. MaxPages
      /\ steady \subseteq S!Chunks /\ hidden \subseteq S!Chunks
      /\ sChanges \in 0 .. MaxChanges /\ changed \in 0 .. MaxChanges /\ changed <= sChanges
  BY DEF SearchTypeInv, S!TypeOK
<1> QED
  BY <1>1, TypesKept

\* The next page is asked for.
LEMMA TypesAsk == ASSUME SearchTypeInv, S!Ask PROVE SearchTypeInv'
<1>1. /\ at = "ask" /\ page < MaxPages /\ page' = page + 1 /\ at' \in {"ids", "query"}
      /\ ask.kind = "recommend_groups" => at' = "ids"
      /\ hits' = << >> /\ counted' = None
      /\ steady' = {c \in S!Chunks : status[c] = "whole"}
      /\ hidden' = {c \in S!Chunks : status[c] \in {"orphan", "gone"}}
      /\ UNCHANGED <<status, sparse, later, encoded, member, ask, first, pages, sChanges, changed>>
  BY DEF S!Ask, S!Recommends
<1>2. /\ status \in [S!Chunks -> {"new", "row", "whole", "orphan", "gone"}]
      /\ page \in 0 .. MaxPages /\ first \in 0 .. SearchedChunks
      /\ sChanges \in 0 .. MaxChanges /\ changed \in 0 .. MaxChanges /\ changed <= sChanges /\ Turn
  BY DEF SearchTypeInv, S!TypeOK
<1>3. page' \in 0 .. MaxPages
  BY <1>1, <1>2, Amounts
<1>4. hits' \in IF ask.kind \in S!OfGroups /\ at' # "query" THEN Seq(Hit) ELSE Seq(S!Chunks)
  BY <1>1
<1>5. pages' \in Seq(Answer)
  BY <1>1 DEF SearchTypeInv, S!TypeOK, Answer, Listed
<1>6. Turn'
  BY <1>1, <1>2 DEF Turn
<1>7. steady' \subseteq S!Chunks /\ hidden' \subseteq S!Chunks
  BY <1>1
<1> QED
  BY <1>1, <1>2, <1>3, <1>4, <1>5, <1>6, <1>7, TypesKept

\* The points a request starts from are looked up.
LEMMA TypesStart == ASSUME SearchTypeInv, NEW cs, S!StartFrom(cs) PROVE SearchTypeInv'
<1>1. /\ at = "ids"
      /\ UNCHANGED <<status, sparse, later, encoded, member, ask, page, first, counted, steady, hidden, sChanges, changed>>
      /\ first \in 0 .. SearchedChunks /\ (counted = None \/ counted \in 0 .. MaxLimit)
  BY DEF S!StartFrom, SearchTypeInv, S!TypeOK
<1>2. CASE cs = {}
  <2>1. S!Answer("error", << >>, "done") /\ hits' = << >>
    BY <1>2 DEF S!StartFrom
  <2>2. << >> \in Seq(Listed)
    OBVIOUS
  <2>3. pages' \in Seq(Answer) /\ at' \in {"ask", "done"} /\ Turn'
    BY <1>1, <2>1, <2>2, TypesAnswered
  <2> QED
    BY <1>1, <2>1, <2>3, TypesOfStep
<1>3. CASE cs # {}
  <2>1. hits' = S!InOrder(S!Dense, cs) /\ at' = "query" /\ pages' = pages
    BY <1>3 DEF S!StartFrom
  <2>2. hits' \in Seq(S!Chunks)
    BY <2>1, DenseOrder, ElementsInOrder
  <2>3. pages' \in Seq(Answer) /\ Turn'
    BY <1>1, <2>1, TypesAwaited DEF Turn
  <2> QED
    BY <1>1, <2>1, <2>2, <2>3, TypesOfStep
<1> QED
  BY <1>2, <1>3

\* What is counted is a number up to the limit.
LEMMA CountedType == ASSUME ask.kind \in Kinds, S!Counts PROVE S!Counted(ask) \in 0 .. MaxLimit
<1> DEFINE of(q) == S!Cardinality(S!Points \cap q.within)
           found == IF ask.kind \in S!OfGroups THEN {S!Cardinality(S!Points)} ELSE {of(q) : q \in S!Range(S!Queries(ask))}
<1>1. S!Counted(ask) = S!Min({MaxLimit, S!Max(found)})
  BY DEF S!Counted
<1>2. \A T : S!Points \cap T \subseteq S!Points /\ S!Cardinality(S!Points \cap T) \in Nat
  BY PointsAreFinite, FS_Subset, FS_CardinalityType DEF S!Cardinality, Cardinality
<1>3. \A q : of(q) \in Nat
  BY <1>2
<1>4. S!Max(found) \in Nat
  <2>1. CASE ask.kind \in S!OfGroups
    <3>1. S!Cardinality(S!Points) \in Nat
      BY PointsAreFinite DEF S!Cardinality, Cardinality
    <3>2. found = {S!Cardinality(S!Points)}
      BY <2>1
    <3> HIDE DEF found
    <3> QED
      BY <3>1, <3>2, LeastAndMost
  <2>2. CASE ask.kind \notin S!OfGroups
    <3>1. ask.kind \in {"chunks", "within", "hybrid", "hybrid_within"}
      BY <2>2, SearchConstants DEF S!Counts, S!Recommends, S!Completes, S!OfGroups, S!SearchAssumption
    <3>2. \/ \E q : S!Queries(ask) = <<q>>
          \/ \E q, r : S!Queries(ask) = <<q, r>>
      BY <3>1 DEF S!Queries, S!Completes, S!Withins
    <3>3. ASSUME NEW q, S!Queries(ask) = <<q>> PROVE S!Max(found) \in Nat
      <4>1. S!Range(S!Queries(ask)) = {q}
        BY <3>3 DEF S!Range
      <4>2. found = {of(q)}
        BY <2>2, <4>1
      <4> HIDE DEF found, of
      <4> QED
        BY <4>2, <1>3, LeastAndMost
    <3>4. ASSUME NEW q, NEW r, S!Queries(ask) = <<q, r>> PROVE S!Max(found) \in Nat
      <4>1. S!Range(S!Queries(ask)) = {q, r}
        BY <3>4 DEF S!Range
      <4>2. found = {of(q), of(r)}
        BY <2>2, <4>1
      <4> HIDE DEF found, of
      <4> QED
        BY <4>2, <1>3, LeastAndMost
    <3> QED
      BY <3>2, <3>3, <3>4
  <2> QED
    BY <2>1, <2>2
<1> HIDE DEF found
<1> QED
  BY <1>1, <1>4, Amounts, LeastAndMost

\* The points are counted.
LEMMA TypesCount == ASSUME SearchTypeInv, S!CountPoints PROVE SearchTypeInv'
<1>1. /\ at \in {"query", "rows"} /\ S!Counts /\ counted' = S!Counted(ask)
      /\ UNCHANGED <<status, sparse, later, encoded, member, ask, at, page, hits, first, pages, steady, hidden, sChanges, changed>>
  BY DEF S!CountPoints
<1>2. ask.kind \in Kinds
  BY DEF SearchTypeInv, S!TypeOK, S!Requests
<1>3. counted' \in 0 .. MaxLimit
  BY <1>1, <1>2, CountedType
<1>4. first \in 0 .. SearchedChunks /\ at \in {"ask", "ids", "query", "rows", "done"}
  BY DEF SearchTypeInv, S!TypeOK
<1>5. hits' \in IF ask.kind \in S!OfGroups /\ at' # "query" THEN Seq(Hit) ELSE Seq(S!Chunks)
  BY <1>1 DEF SearchTypeInv, S!TypeOK, Hit
<1>6. pages' \in Seq(Answer) /\ Turn'
  BY <1>1, TypesAwaited DEF Turn
<1> QED
  BY <1>1, <1>3, <1>4, <1>5, <1>6, TypesOfStep

\* A query finds no more than there is.
LEMMA FoundLength ==
  ASSUME later \in S!Orders, NEW q, q.order \in S!Orders, NEW p \in Nat \ {0}
  PROVE  Len(S!Search(q, p)) \in 0 .. SearchedChunks
<1> DEFINE l == S!Ordered(q, S!Offset(p))
           T == S!Range(S!Slice(S!InOrder(q.order, S!Points \cap q.within), 0,
                                Prefetch * (1 + S!Offset(p) \div Prefetch)))
<1>1. S!Offset(p) \in Nat /\ SearchPage \in Nat /\ SearchedChunks \in Nat
  BY OffsetOfPage, DenseOrder
<1>2. /\ q.order \in Seq(S!Chunks) /\ Len(q.order) = SearchedChunks
      /\ later \in Seq(S!Chunks) /\ Len(later) = SearchedChunks
  BY EveryOrder
<1>3. /\ S!InOrder(q.order, S!Points \cap q.within) \in Seq(S!Chunks) /\ S!InOrder(later, T) \in Seq(S!Chunks)
      /\ Len(S!InOrder(q.order, S!Points \cap q.within)) <= SearchedChunks /\ Len(S!InOrder(later, T)) <= SearchedChunks
  BY <1>2, ElementsInOrder
<1>4. l = IF q.prefetch THEN S!InOrder(later, T) ELSE S!InOrder(q.order, S!Points \cap q.within)
  BY DEF S!Ordered
<1> HIDE DEF T, l
<1>5. l \in Seq(S!Chunks) /\ Len(l) <= SearchedChunks
  BY <1>3, <1>4
<1>6. S!Search(q, p) = S!Slice(l, S!Offset(p), SearchPage)
  BY DEF S!Search, l
<1>7. Len(S!Search(q, p)) = IF S!Offset(p) >= Len(l) THEN 0
        ELSE IF S!Offset(p) + SearchPage < Len(l) THEN SearchPage ELSE Len(l) - S!Offset(p)
  <2>1. Len(S!Slice(l, S!Offset(p), SearchPage)) = IF S!Offset(p) >= Len(l) THEN 0
          ELSE IF S!Offset(p) + SearchPage < Len(l) THEN SearchPage ELSE Len(l) - S!Offset(p)
    BY <1>1, <1>5, SliceOfList
  <2> QED
    BY <1>6, <2>1
<1>8. Len(l) \in Nat
  BY <1>5
<1> QED
  BY <1>1, <1>5, <1>7, <1>8

\* The points of a search for chunks are found.
LEMMA TypesQuery == ASSUME SearchTypeInv, AnswersIInv, S!QueryChunks PROVE SearchTypeInv'
<1> DEFINE qs == S!Queries(ask)
           bs == [i \in DOMAIN qs |-> S!Search(qs[i], page)]
<1>1. /\ at = "query" /\ ask.kind \notin S!OfGroups \cup S!Recommends \cup {"scroll"}
      /\ first' = Len(bs[1]) /\ at' = "rows"
      /\ UNCHANGED <<status, sparse, later, encoded, member, ask, page, counted, pages, steady, hidden, sChanges, changed>>
  BY DEF S!QueryChunks
<1>2. OfChunks
  BY <1>1 DEF OfChunks
<1>3. hits' \in Seq(S!Chunks)
  <2>1. AnswersIInv' /\ OfChunks'
    BY <1>1, <1>2, AnswersQuery DEF OfChunks, S!OfGroups
  <2> QED
    BY <2>1 DEF AnswersIInv, SearchTypes
<1>4. /\ page \in Nat \ {0} /\ pages' \in Seq(Answer) /\ Turn'
      /\ ask.kind \in Kinds /\ {sparse, later, encoded} \subseteq S!Orders /\ (counted = None \/ counted \in 0 .. MaxLimit)
  <2>1. ask.kind \in Kinds /\ {sparse, later, encoded} \subseteq S!Orders /\ (counted = None \/ counted \in 0 .. MaxLimit)
    BY DEF SearchTypeInv, S!TypeOK, S!Requests
  <2> QED
    BY <1>1, <2>1, TypesAwaited DEF Turn
<1>5. ask.kind \in {"chunks", "within", "hybrid", "hybrid_within", "autocomplete", "extended"}
  BY <1>1, <1>4, SearchConstants DEF S!SearchAssumption, S!OfGroups, S!Recommends
<1>6. 1 \in DOMAIN qs /\ qs[1].order = S!Dense
  <2>1. \/ \E w, sort : qs = <<S!Query(S!Dense, w, sort)>>
        \/ \E w, sort, r : qs = <<S!Query(S!Dense, w, sort), r>>
    BY <1>5 DEF S!Queries, S!Completes, S!Withins
  <2>2. \E w, sort : 1 \in DOMAIN qs /\ qs[1] = S!Query(S!Dense, w, sort)
    BY <2>1
  <2> QED
    BY <2>2, PartsOfQuery
<1>7. first' \in 0 .. SearchedChunks
  <2>1. bs[1] = S!Search(qs[1], page) /\ S!Dense \in S!Orders
    BY <1>6, OrdersToBeginWith
  <2> HIDE DEF bs, qs
  <2> QED
    BY <1>1, <1>4, <1>6, <2>1, FoundLength
<1>8. hits' \in IF ask.kind \in S!OfGroups /\ at' # "query" THEN Seq(Hit) ELSE Seq(S!Chunks)
  BY <1>2, <1>3 DEF OfChunks
<1> QED
  BY <1>1, <1>4, <1>7, <1>8, TypesOfStep

\* Groups are found.
LEMMA TypesQueryGroups == ASSUME SearchTypeInv, S!QueryGroups PROVE SearchTypeInv'
<1>1. /\ at = "query" /\ ask.kind \in {"groups", "hybrid_groups"} /\ hits' = S!SearchOverGroups(page) /\ at' = "rows"
      /\ UNCHANGED <<status, sparse, later, encoded, member, ask, page, first, counted, pages, steady, hidden, sChanges, changed>>
  BY DEF S!QueryGroups
<1>2. /\ sparse \in S!Orders /\ member \in [S!Chunks -> SUBSET Groups] /\ first \in 0 .. SearchedChunks
      /\ (counted = None \/ counted \in 0 .. MaxLimit)
  BY DEF SearchTypeInv, S!TypeOK
<1>3. page \in Nat \ {0} /\ pages' \in Seq(Answer) /\ Turn'
  BY <1>1, TypesAwaited DEF Turn
<1>4. S!SearchGroups(S!Dense, page) \in Seq(Hit) /\ S!SearchGroups(sparse, page) \in Seq(Hit)
  BY <1>2, <1>3, OrdersToBeginWith, PagesOfGroups
<1>5. hits' \in Seq(Hit)
  BY <1>1, <1>4, ZippedGroups DEF S!SearchOverGroups
<1> QED
  BY <1>1, <1>2, <1>3, <1>5, TypesOfStep DEF S!OfGroups

\* What is recommended is found, or a point it starts from is not there.
LEMMA TypesRecommend ==
  ASSUME SearchTypeInv, NEW found, S!RecommendFrom(found),
         found \in IF ask.kind \in S!OfGroups THEN Seq(Hit) ELSE Seq(S!Chunks)
  PROVE  SearchTypeInv'
<1>1. /\ at = "query" /\ first \in 0 .. SearchedChunks /\ (counted = None \/ counted \in 0 .. MaxLimit)
      /\ UNCHANGED <<status, sparse, later, encoded, member, ask, page, first, counted, steady, hidden, sChanges, changed>>
  BY DEF S!RecommendFrom, SearchTypeInv, S!TypeOK
<1>2. CASE ~(S!Range(hits) \subseteq S!Points)
  <2>1. hits' = << >> /\ S!Answer("error", << >>, "done")
    BY <1>2 DEF S!RecommendFrom
  <2>2. << >> \in Seq(Listed)
    OBVIOUS
  <2>3. pages' \in Seq(Answer) /\ at' \in {"ask", "done"} /\ Turn'
    BY <1>1, <2>1, <2>2, TypesAnswered
  <2> QED
    BY <1>1, <2>1, <2>3, TypesOfStep
<1>3. CASE S!Range(hits) \subseteq S!Points
  <2>1. hits' = found /\ at' = "rows" /\ pages' = pages
    BY <1>3 DEF S!RecommendFrom
  <2>2. pages' \in Seq(Answer) /\ Turn'
    BY <1>1, <2>1, TypesAwaited DEF Turn
  <2> QED
    BY <1>1, <2>1, <2>2, TypesOfStep
<1> QED
  BY <1>2, <1>3

\* The rows of groups are read.
LEMMA TypesOfGroups ==
  ASSUME SearchTypeInv, at = "rows", ~OfChunks, ~S!Panics
  PROVE  S!Result \in Seq(Groups)
<1> DEFINE gs == S!WithRows(hits)
<1>1. hits \in Seq(Hit) /\ ask.kind \in S!OfGroups /\ {later, encoded} \subseteq S!Orders
  BY DEF OfChunks, SearchTypeInv, S!TypeOK, Hit
<1>2. /\ gs \in Seq(Hit) /\ Len(gs) = Len(hits) /\ DOMAIN gs = 1 .. Len(hits)
  <2>1. \A i \in 1 .. Len(hits) : gs[i] \in Hit
    <3> SUFFICES ASSUME NEW i \in 1 .. Len(hits) PROVE gs[i] \in Hit
      OBVIOUS
    <3>1. hits[i] \in Hit
      BY <1>1
    <3>2. S!InOrder(hits[i].hits, S!Rows) \in Seq(S!Chunks)
      BY <3>1, ElementsInOrder DEF Hit
    <3>3. gs[i] = [hits[i] EXCEPT !.hits = S!InOrder(hits[i].hits, S!Rows)]
      <4>1. DOMAIN hits = 1 .. Len(hits)
        BY <1>1
      <4> QED
        BY <4>1, Zenon DEF S!WithRows
    <3> QED
      BY <3>1, <3>2, <3>3 DEF Hit
  <2>2. gs = [i \in 1 .. Len(hits) |-> gs[i]] /\ Len(hits) \in Nat
    BY <1>1 DEF S!WithRows
  <2> HIDE DEF gs
  <2>3. gs \in [1 .. Len(hits) -> Hit]
    BY <2>1, <2>2
  <2> QED
    BY <2>2, <2>3
<1> HIDE DEF gs
<1>3. \A xs \in Seq(Hit) : S!NamesOf(xs) \in Seq(Groups)
  <2> SUFFICES ASSUME NEW xs \in Seq(Hit) PROVE S!NamesOf(xs) \in Seq(Groups)
    OBVIOUS
  <2>1. \A i \in 1 .. Len(xs) : xs[i].group \in Groups
    <3>1. \A i \in 1 .. Len(xs) : xs[i] \in Hit
      OBVIOUS
    <3> QED
      BY <3>1 DEF Hit
  <2>2. S!NamesOf(xs) = [i \in 1 .. Len(xs) |-> xs[i].group] /\ Len(xs) \in Nat
    BY DEF S!NamesOf
  <2> QED
    BY <2>1, <2>2
<1>4. CASE ask.kind \in {"groups", "recommend_groups"}
  BY <1>2, <1>3, <1>4 DEF S!Result, S!Withins, S!Completes, gs
<1>5. CASE ask.kind = "hybrid_groups"
  <2>1. S!Result = S!HybridGroups(gs)
    BY <1>5 DEF S!Result, S!Withins, S!Completes, gs
  <2>2. \A i \in DOMAIN gs : i <= Window => gs[i].hits # << >>
    BY <1>1, <1>2, <1>5 DEF S!Panics, gs
  <2>3. CASE Len(gs) > Window
    <3> DEFINE xs == S!Slice(gs, 0, Window)
               ys == S!Slice(gs, Window, Window)
    <3>1. /\ xs \in Seq(Hit) /\ ys \in Seq(Hit) /\ Len(xs) = Window
          /\ \A i \in 1 .. Len(xs) : i + 0 \in 1 .. Len(gs) /\ xs[i] = gs[i + 0]
      <4> 0 \in Nat /\ Window \in Nat
        BY Amounts
      <4>1. xs \in Seq(Hit)
        BY <1>2, SliceOfList
      <4>4. Len(xs) = IF 0 >= Len(gs) THEN 0 ELSE IF 0 + Window < Len(gs) THEN Window ELSE Len(gs) - 0
        BY <1>2, SliceOfList
      <4>5. \A i \in 1 .. Len(xs) : i + 0 \in 1 .. Len(gs) /\ xs[i] = gs[i + 0]
        BY <1>2, SliceOfList
      <4>2. ys \in Seq(Hit)
        BY <1>2, Amounts, SliceOfList
      <4>3. Len(gs) \in Nat
        BY <1>2
      <4> HIDE DEF xs, ys
      <4> QED
        BY <2>3, <4>1, <4>2, <4>3, <4>4, <4>5, Amounts
    <3>2. S!HybridGroups(gs) = S!EncodeGroups(xs) \o S!NamesOf(ys)
      BY <2>3 DEF S!HybridGroups
    <3> HIDE DEF xs, ys
    <3>3. \A i \in DOMAIN xs : xs[i].hits # << >>
      <4> SUFFICES ASSUME NEW i \in 1 .. Len(xs) PROVE xs[i].hits # << >>
        BY <3>1
      <4>1. i \in 1 .. Len(gs) /\ xs[i] = gs[i] /\ i <= Window
        BY <3>1, Amounts
      <4> QED
        BY <1>2, <2>2, <4>1
    <3>4. S!EncodeGroups(xs) \in Seq(Groups)
      BY <1>1, <3>1, <3>3, EncodedGroups
    <3> QED
      BY <1>3, <2>1, <3>1, <3>2, <3>4
  <2>4. CASE ~(Len(gs) > Window)
    <3>1. \A i \in DOMAIN gs : gs[i].hits # << >>
      BY <1>2, <2>2, <2>4, Amounts
    <3> QED
      BY <1>1, <1>2, <2>1, <2>4, <3>1, EncodedGroups DEF S!HybridGroups
  <2> QED
    BY <2>3, <2>4
<1> QED
  BY <1>1, <1>4, <1>5 DEF S!OfGroups

\* The rows are read, and the page is answered.
LEMMA TypesRead == ASSUME SearchTypeInv, S!ReadRows PROVE SearchTypeInv'
<1>1. /\ at = "rows"
      /\ IF S!Panics THEN S!Answer("panic", << >>, "done")
         ELSE S!Answer("found", S!Result, IF S!LastPage THEN "done" ELSE "ask")
      /\ UNCHANGED <<status, sparse, later, encoded, member, ask, page, hits, first, counted, steady, hidden, sChanges, changed>>
  BY DEF S!ReadRows
<1>2. first \in 0 .. SearchedChunks /\ (counted = None \/ counted \in 0 .. MaxLimit)
  BY DEF SearchTypeInv, S!TypeOK
<1>3. pages' \in Seq(Answer) /\ at' \in {"ask", "done"} /\ Turn'
  <2>1. CASE S!Panics
    <3>1. << >> \in Seq(Listed)
      OBVIOUS
    <3> QED
      BY <1>1, <2>1, <3>1, TypesAnswered
  <2>2. CASE ~S!Panics
    <3>1. S!Result \in Seq(Listed)
      <4>1. CASE OfChunks
        BY <4>1, TypesOfAnswers, WhatIsAnswered DEF Listed, OfChunks
      <4>2. CASE ~OfChunks
        BY <1>1, <2>2, <4>2, TypesOfGroups DEF Listed, OfChunks
      <4> QED
        BY <4>1, <4>2
    <3> DEFINE next == IF S!LastPage THEN "done" ELSE "ask"
    <3>2. next \in {"ask", "done"} /\ S!Answer("found", S!Result, next)
      BY <1>1, <2>2
    <3> HIDE DEF next
    <3> QED
      BY <1>1, <3>1, <3>2, TypesAnswered
  <2> QED
    BY <2>1, <2>2
<1>4. hits' \in IF ask.kind \in S!OfGroups /\ at' # "query" THEN Seq(Hit) ELSE Seq(S!Chunks)
  <2>1. at # "query" /\ at' # "query" /\ hits' = hits
    BY <1>1, <1>3
  <2> QED
    BY <2>1 DEF SearchTypeInv, S!TypeOK, Hit
<1> QED
  BY <1>1, <1>2, <1>3, <1>4, TypesOfStep

\* Every step of a search keeps the types.
LEMMA TypesStep == ASSUME SearchTypeInv, AnswersIInv, [S!Next]_searchVars PROVE SearchTypeInv'
<1>1. CASE \E c \in S!Chunks : S!Change(c)
  BY <1>1, TypesChange
<1>2. CASE S!Ask
  BY <1>2, TypesAsk
<1>3. CASE S!GetRecommendedChunks \/ S!GetRecommendedGroups \/ S!ScrollChunks
  BY <1>3, TypesStart DEF S!GetRecommendedChunks, S!GetRecommendedGroups, S!ScrollChunks
<1>4. CASE S!CountPoints
  BY <1>4, TypesCount
<1>5. CASE S!QueryChunks
  BY <1>5, TypesQuery
<1>6. CASE S!QueryGroups
  BY <1>6, TypesQueryGroups
<1>7. CASE S!Scroll
  <2> DEFINE l == S!InOrder(S!Dense, {c \in S!Points : c >= hits[1]})
  <2>1. /\ at = "query" /\ at' = "rows" /\ ask.kind = "scroll" /\ hits' = S!Slice(l, 0, SearchPage)
        /\ UNCHANGED <<status, sparse, later, encoded, member, ask, page, first, counted, pages, steady, hidden, sChanges, changed>>
    BY <1>7 DEF S!Scroll
  <2>2. l \in Seq(S!Chunks) /\ 0 \in Nat /\ SearchPage \in Nat
    BY DenseOrder, ElementsInOrder
  <2> HIDE DEF l
  <2>3. hits' \in Seq(S!Chunks)
    BY <2>1, <2>2, SliceOfList
  <2>4. hits' \in IF ask.kind \in S!OfGroups /\ at' # "query" THEN Seq(Hit) ELSE Seq(S!Chunks)
    BY <2>1, <2>3 DEF S!OfGroups
  <2>5. pages' \in Seq(Answer) /\ Turn'
    BY <2>1, TypesAwaited DEF Turn
  <2>6. first \in 0 .. SearchedChunks /\ (counted = None \/ counted \in 0 .. MaxLimit)
    BY DEF SearchTypeInv, S!TypeOK
  <2> QED
    BY <2>1, <2>4, <2>5, <2>6, TypesOfStep
<1>8. CASE S!RecommendChunks
  <2> DEFINE l == S!InOrder(S!Dense, S!Points \ S!Range(hits))
  <2>1. ask.kind = "recommend" /\ S!RecommendFrom(S!Slice(l, 0, SearchPage))
    BY <1>8 DEF S!RecommendChunks
  <2>2. l \in Seq(S!Chunks) /\ 0 \in Nat /\ SearchPage \in Nat
    BY DenseOrder, ElementsInOrder
  <2> HIDE DEF l
  <2>3. S!Slice(l, 0, SearchPage) \in Seq(S!Chunks)
    BY <2>2, SliceOfList
  <2> QED
    BY <2>1, <2>3, TypesRecommend DEF S!OfGroups
<1>9. CASE S!RecommendGroups
  <2> DEFINE l == S!GroupsOf(S!Dense, S!Points \ S!Range(hits))
  <2>1. ask.kind = "recommend_groups" /\ S!RecommendFrom(S!Slice(l, 0, SearchPage))
    BY <1>9 DEF S!RecommendGroups
  <2>2. l \in Seq(Hit) /\ 0 \in Nat /\ SearchPage \in Nat
    <3>1. member \in [S!Chunks -> SUBSET Groups] /\ S!Points \ S!Range(hits) \in SUBSET S!Chunks
      BY PointsAreFinite DEF SearchTypeInv, S!TypeOK
    <3> QED
      BY <3>1, OrdersToBeginWith, DenseOrder, GroupsAreFound
  <2> HIDE DEF l
  <2>3. S!Slice(l, 0, SearchPage) \in Seq(Hit)
    BY <2>2, SliceOfList
  <2> QED
    BY <2>1, <2>3, TypesRecommend DEF S!OfGroups
<1>10. CASE S!ReadRows
  BY <1>10, TypesRead
<1>11. CASE UNCHANGED searchVars
  <2>1. SearchTypeInv' = SearchTypeInv
    BY <1>11 DEF searchVars, SearchTypeInv, S!TypeOK, S!Sensible, Turn, S!Orders
  <2> QED
    BY <2>1
<1> QED
  BY <1>1, <1>2, <1>3, <1>4, <1>5, <1>6, <1>7, <1>8, <1>9, <1>10, <1>11 DEF S!Next

--------------------------------------------------------------------------------
(* The pages of a search over groups.                                       *)

\* The groups of the points in the order in which the pages show them.
Grouped == S!NamesOf(S!GroupsOf(S!Dense, S!Points))

\* The pages of a search over groups show the parts of that list.
NamesPages ==
  /\ counted # None => counted = Cardinality(S!Points)
  /\ at = "rows" => S!NamesOf(hits) = S!Slice(Grouped, S!Offset(page), SearchPage)
  /\ \A i \in DOMAIN pages : Once(pages[i].list) /\ S!Range(pages[i].list) = Shown(Grouped, i)
  /\ at = "done" => SearchPage * page >= Cardinality(S!Points)

NamesIInv == ask.kind = "groups" /\ Undisturbed /\ Covered => NamesPages

\* The names of a list of groups.
LEMMA NamesOfList ==
  ASSUME NEW gs \in Seq(Hit)
  PROVE  /\ S!NamesOf(gs) \in Seq(Groups) /\ Len(S!NamesOf(gs)) = Len(gs)
         /\ \A i \in 1 .. Len(gs) : S!NamesOf(gs)[i] = gs[i].group
<1>1. \A i \in 1 .. Len(gs) : gs[i].group \in Groups
  <2>1. \A i \in 1 .. Len(gs) : gs[i] \in Hit
    OBVIOUS
  <2> QED
    BY <2>1 DEF Hit
<1>2. S!NamesOf(gs) = [i \in 1 .. Len(gs) |-> gs[i].group] /\ Len(gs) \in Nat
  BY DEF S!NamesOf
<1> QED
  BY <1>1, <1>2

\* The names of a slice are a slice of the names.
LEMMA NamesOfSlice ==
  ASSUME NEW gs \in Seq(Hit), NEW o \in Nat, NEW n \in Nat
  PROVE  S!NamesOf(S!Slice(gs, o, n)) = S!Slice(S!NamesOf(gs), o, n)
<1> DEFINE xs == S!Slice(gs, o, n)
           ns == S!NamesOf(gs)
           ys == S!Slice(ns, o, n)
<1>1. ns \in Seq(Groups) /\ Len(ns) = Len(gs) /\ \A i \in 1 .. Len(gs) : ns[i] = gs[i].group
  BY NamesOfList
<1>2. xs \in Seq(Hit) /\ Len(xs) = IF o >= Len(gs) THEN 0 ELSE IF o + n < Len(gs) THEN n ELSE Len(gs) - o
  BY SliceOfList
<1>3. \A i \in 1 .. Len(xs) : i + o \in 1 .. Len(gs) /\ xs[i] = gs[i + o]
  BY SliceOfList
<1> HIDE DEF ns
<1>4. ys \in Seq(Groups) /\ Len(ys) = IF o >= Len(ns) THEN 0 ELSE IF o + n < Len(ns) THEN n ELSE Len(ns) - o
  BY <1>1, SliceOfList
<1>5. \A i \in 1 .. Len(ys) : i + o \in 1 .. Len(ns) /\ ys[i] = ns[i + o]
  BY <1>1, SliceOfList
<1> HIDE DEF xs, ys
<1>6. S!NamesOf(xs) \in Seq(Groups) /\ Len(S!NamesOf(xs)) = Len(xs)
      /\ \A i \in 1 .. Len(xs) : S!NamesOf(xs)[i] = xs[i].group
  BY <1>2, NamesOfList
<1>7. Len(xs) = Len(ys)
  BY <1>1, <1>2, <1>4
<1>8. \A i \in 1 .. Len(ys) : S!NamesOf(xs)[i] = ys[i]
  BY <1>1, <1>3, <1>5, <1>6, <1>7
<1> DEFINE zs == S!NamesOf(xs)
<1> HIDE DEF zs
<1>9. zs \in Seq(Groups) /\ Len(zs) = Len(ys) /\ \A i \in 1 .. Len(ys) : zs[i] = ys[i]
  BY <1>6, <1>7, <1>8 DEF zs
<1>10. zs = ys
  BY <1>4, <1>9, SeqEqual
<1> QED
  BY <1>10 DEF xs, ys, ns, zs

\* The list has each group of the points once.
LEMMA GroupedOnce ==
  ASSUME member \in [S!Chunks -> SUBSET Groups]
  PROVE  Grouped \in Seq(Groups) /\ Once(Grouped) /\ S!Range(Grouped) = S!Names(S!Points)
<1> DEFINE gs == S!GroupsOf(S!Dense, S!Points)
           names == [k \in DOMAIN gs |-> gs[k].group]
<1>1. names \in Seq(Groups) /\ Once(names) /\ S!Range(names) = S!Names(S!Points)
  BY OrdersToBeginWith, PointsAreFinite, GroupsAreFound
<1>2. Grouped = names
  BY DEF Grouped, S!NamesOf
<1> QED
  BY <1>1, <1>2

\* As long as points, their groups and the request are the same, so is what a page has to show.
LEMMA NamesPagesKept ==
  ASSUME UNCHANGED <<status, member, ask>>,
         counted' # None => counted' = Cardinality(S!Points),
         at' = "rows" => S!NamesOf(hits') = S!Slice(Grouped, S!Offset(page'), SearchPage),
         \A i \in DOMAIN pages' : Once(pages'[i].list) /\ S!Range(pages'[i].list) = Shown(Grouped, i),
         at' = "done" => SearchPage * page' >= Cardinality(S!Points)
  PROVE  NamesPages'
<1>1. S!Points' = S!Points /\ Cardinality(S!Points)' = Cardinality(S!Points)
  BY DEF S!Points
<1>2. Grouped' = Grouped
  <2>1. S!GroupsOf(S!Dense, S!Points)' = S!GroupsOf(S!Dense, S!Points)
    BY <1>1 DEF S!GroupsOf, S!Names, S!Before, S!Best, S!Members, S!Tie
  <2> QED
    BY <2>1 DEF Grouped, S!NamesOf
<1>3. /\ S!Slice(Grouped, S!Offset(page), SearchPage)' = S!Slice(Grouped, S!Offset(page'), SearchPage)
      /\ \A i : Shown(Grouped, i)' = Shown(Grouped, i)
  BY <1>2 DEF Shown, Places, S!Slice, S!Offset
<1>4. /\ \A i : Once(pages[i].list)' = Once(pages'[i].list)
      /\ S!NamesOf(hits)' = S!NamesOf(hits')
  BY DEF Once, S!NamesOf
<1> QED
  BY <1>1, <1>3, <1>4 DEF NamesPages

\* Reading the rows of a group changes its hits, not its name.
LEMMA RowsKeepNames ==
  ASSUME NEW gs \in Seq(Hit)
  PROVE  S!NamesOf(S!WithRows(gs)) = S!NamesOf(gs)
<1>1. DOMAIN gs = 1 .. Len(gs) /\ \A i \in 1 .. Len(gs) : gs[i] \in Hit
  OBVIOUS
<1>2. DOMAIN S!WithRows(gs) = DOMAIN gs
  BY DEF S!WithRows
<1>3. \A i \in DOMAIN gs : S!WithRows(gs)[i] = [gs[i] EXCEPT !.hits = S!InOrder(gs[i].hits, S!Rows)]
  BY Zenon DEF S!WithRows
<1>4. \A i \in DOMAIN gs : S!WithRows(gs)[i].group = gs[i].group
  BY <1>1, <1>3 DEF Hit
<1> QED
  BY <1>2, <1>4 DEF S!NamesOf

\* Every step keeps what the pages of a search over groups have shown.
LEMMA NamesStep ==
  ASSUME SearchTypeInv, NamesIInv, [S!Next]_searchVars
  PROVE  NamesIInv'
<1> SUFFICES ASSUME ask'.kind = "groups", Undisturbed', Covered' PROVE NamesPages'
  BY DEF NamesIInv
<1>1. ask' = ask /\ ask.kind = "groups" /\ ~OfChunks
  BY AskStays DEF OfChunks, S!OfGroups
<1>2. /\ status \in [S!Chunks -> {"new", "row", "whole", "orphan", "gone"}] /\ member \in [S!Chunks -> SUBSET Groups]
      /\ page \in 0 .. MaxPages /\ changed \in 0 .. MaxChanges /\ Turn
      /\ pages \in Seq([is : {"found", "error", "panic"}, list : Seq(Groups)])
      /\ at # "query" => hits \in Seq(Hit)
  BY <1>1 DEF SearchTypeInv, S!TypeOK, S!OfGroups, Hit
<1>3. page \in Nat /\ changed \in Nat
  BY <1>2, Amounts
<1>4. UNCHANGED <<status, member, ask, changed>> /\ (~S!Ask => Undisturbed /\ page' = page)
  BY <1>3, StillUndisturbed
<1>5. Covered
  BY <1>4 DEF Covered, S!Points
<1>6. (page > 0 => NamesPages) /\ (~S!Ask => page > 0 /\ NamesPages)
  <2>1. page > 0 => Undisturbed
    BY <1>4 DEF Undisturbed
  <2>2. page > 0 => NamesPages
    BY <1>1, <1>5, <2>1 DEF NamesIInv
  <2>3. ~S!Ask => page > 0
    BY <1>4 DEF Undisturbed
  <2> QED
    BY <2>2, <2>3
<1>7. CASE S!Ask
  <2>1. at = "ask" /\ at' \notin {"rows", "done"} /\ counted' = None /\ pages' = pages
    BY <1>7 DEF S!Ask
  <2>2. \A i \in DOMAIN pages : Once(pages[i].list) /\ S!Range(pages[i].list) = Shown(Grouped, i)
    <3>1. CASE page > 0
      BY <1>6, <3>1 DEF NamesPages
    <3>2. CASE ~(page > 0)
      <4>1. Len(pages) = 0
        BY <1>2, <1>3, <2>1, <3>2 DEF Turn
      <4> QED
        BY <1>2, <4>1
    <3> QED
      BY <3>1, <3>2
  <2> QED
    BY <1>4, <2>1, <2>2, NamesPagesKept
<1>8. CASE S!CountPoints
  <2>1. NamesPages /\ page' = page
    BY <1>4, <1>6, <1>8 DEF S!Ask, S!CountPoints, Undisturbed
  <2>2. counted' = Cardinality(S!Points) /\ at' = at /\ hits' = hits /\ pages' = pages
    BY <1>1, <1>5, <1>8, CountedPoints DEF S!CountPoints
  <2> QED
    BY <1>4, <2>1, <2>2, NamesPagesKept DEF NamesPages
<1>9. CASE S!QueryGroups
  <2>1. /\ at = "query" /\ at' = "rows" /\ hits' = S!SearchGroups(S!Dense, page)
        /\ counted' = counted /\ pages' = pages /\ page' = page
    BY <1>1, <1>9 DEF S!QueryGroups, S!SearchOverGroups
  <2>2. NamesPages /\ page \in Nat \ {0}
    BY <1>3, <1>6, <2>1 DEF S!Ask
  <2>3. hits' = S!Slice(S!GroupsOf(S!Dense, S!Points), S!Offset(page), SearchPage)
    BY <1>2, <2>1, <2>2, OrdersToBeginWith, PagesOfGroups
  <2>4. S!GroupsOf(S!Dense, S!Points) \in Seq(Hit)
    BY <1>2, OrdersToBeginWith, PointsAreFinite, GroupsAreFound
  <2>5. S!NamesOf(hits') = S!Slice(Grouped, S!Offset(page), SearchPage)
    BY <2>2, <2>3, <2>4, NamesOfSlice, OffsetOfPage, DenseOrder DEF Grouped
  <2> QED
    BY <1>4, <2>1, <2>2, <2>5, NamesPagesKept DEF NamesPages
<1>10. CASE S!ReadRows
  <2>1. /\ at = "rows" /\ counted' = counted /\ page' = page /\ counted # None
        /\ S!Answer("found", S!Result, IF S!LastPage THEN "done" ELSE "ask")
    <3>1. ~S!Panics /\ S!Counts
      BY <1>1 DEF S!Panics, S!Completes, S!Counts, S!Recommends
    <3> QED
      BY <1>10, <3>1 DEF S!ReadRows
  <2>2. NamesPages /\ page \in Nat \ {0}
    BY <1>3, <1>6, <2>1 DEF S!Ask
  <2> DEFINE l == S!Slice(Grouped, S!Offset(page), SearchPage)
  <2>3. S!Result = l
    <3>1. S!Result = S!NamesOf(S!WithRows(hits))
      BY <1>1 DEF S!Result, S!Withins, S!Completes
    <3> QED
      BY <1>2, <2>1, <2>2, <3>1, RowsKeepNames DEF NamesPages
  <2>4. l \in Seq(Groups) /\ Once(l) /\ S!Range(l) = Shown(Grouped, page)
    <3>1. Grouped \in Seq(Groups) /\ Once(Grouped) /\ S!Offset(page) \in Nat /\ SearchPage \in Nat
      BY <1>2, <2>2, GroupedOnce, OffsetOfPage, DenseOrder
    <3>2. l \in Seq(Groups)
      BY <3>1, SliceOfList
    <3>3. Once(l)
      BY <3>1, SliceOnce
    <3>4. S!Range(l) = Shown(Grouped, page)
      BY <2>2, <3>1, PageOfList
    <3> QED
      BY <3>2, <3>3, <3>4
  <2> HIDE DEF l
  <2> DEFINE E == [is : {"found", "error", "panic"}, list : Seq(Groups)]
             e == [is |-> "found", list |-> l]
  <2>5. /\ pages \in Seq(E) /\ e \in E /\ pages' = Append(pages, e) /\ at' = IF S!LastPage THEN "done" ELSE "ask"
        /\ e.list = l
    BY <1>2, <2>1, <2>3, <2>4 DEF S!Answer
  <2> HIDE DEF E, e
  <2>6. Len(pages) + 1 = page
    BY <1>2, <2>1 DEF Turn
  <2>7. ASSUME NEW i \in DOMAIN pages'
        PROVE  Once(pages'[i].list) /\ S!Range(pages'[i].list) = Shown(Grouped, i)
    <3>1. /\ DOMAIN pages' = DOMAIN pages \cup {page} /\ pages'[page] = e
          /\ \A j \in DOMAIN pages : pages'[j] = pages[j]
      BY <2>5, <2>6, PagesBefore
    <3> QED
      BY <2>2, <2>4, <2>5, <3>1 DEF NamesPages
  <2>8. at' = "done" => SearchPage * page >= Cardinality(S!Points)
    <3>1. at' = "done" => S!LastPage
      BY <2>5
    <3>2. counted = Cardinality(S!Points) /\ counted \in Nat
      BY <2>1, <2>2, PointsAreFinite DEF NamesPages
    <3> QED
      BY <1>1, <1>3, <3>1, <3>2, LastPageEnds
  <2>9. at' # "rows"
    BY <2>5
  <2> QED
    BY <1>4, <2>1, <2>2, <2>7, <2>8, <2>9, NamesPagesKept DEF NamesPages
<1>11. CASE UNCHANGED searchVars
  <2>1. NamesPages
    BY <1>4, <1>6, <1>11 DEF searchVars, Undisturbed
  <2> QED
    BY <1>4, <1>11, <2>1, NamesPagesKept DEF searchVars, NamesPages
<1>12. CASE \E c \in S!Chunks : S!Change(c)
  <2>1. status' # status
    BY <1>2, <1>12 DEF S!Change, S!After
  <2> QED
    BY <1>4, <2>1
<1> QED
  BY <1>1, <1>7, <1>8, <1>9, <1>10, <1>11, <1>12
  DEF S!Next, S!GetRecommendedChunks, S!GetRecommendedGroups, S!ScrollChunks, S!QueryChunks, S!Scroll,
    S!RecommendChunks, S!RecommendGroups, OfChunks

\* When all pages were read, they show every group once, if there are no more groups than points.
LEMMA NamesPartition ==
  ASSUME SearchTypeInv, NamesIInv, ask.kind = "groups", at = "done", Undisturbed, Covered,
         Cardinality(S!Names(S!Points)) <= Cardinality(S!Points)
  PROVE  S!Seen = S!Names(S!Points) /\ S!MetOnce
<1>1. /\ member \in [S!Chunks -> SUBSET Groups] /\ page \in 0 .. MaxPages /\ Turn /\ NamesPages
      /\ pages \in Seq([is : {"found", "error", "panic"}, list : Seq(Groups)])
  BY DEF SearchTypeInv, S!TypeOK, S!OfGroups, NamesIInv
<1>2. /\ page \in Nat /\ DOMAIN pages = 1 .. page /\ SearchPage * page >= Cardinality(S!Points)
      /\ \A i \in DOMAIN pages : Once(pages[i].list) /\ S!Range(pages[i].list) = Shown(Grouped, i)
  BY <1>1, Amounts DEF Turn, NamesPages
<1>3. Grouped \in Seq(Groups) /\ Once(Grouped) /\ S!Range(Grouped) = S!Names(S!Points)
  BY <1>1, GroupedOnce
<1>4. SearchPage * page >= Len(Grouped)
  <2>1. Len(Grouped) = Cardinality(S!Names(S!Points)) /\ Len(Grouped) \in Nat
    BY <1>3, OnceLength
  <2>2. SearchPage * page \in Nat /\ Cardinality(S!Points) \in Nat
    BY <1>2, Amounts, Multiples, PointsAreFinite
  <2> QED
    BY <1>2, <2>1, <2>2
<1>5. \A i : Shown(Grouped, i) \subseteq S!Range(Grouped)
  <2>1. \A i : Places(i, Len(Grouped)) \subseteq DOMAIN Grouped
    BY <1>3 DEF Places
  <2> QED
    BY <2>1 DEF Shown, S!Range
<1>6. \A i \in DOMAIN pages : S!Range(pages[i].list) = Shown(Grouped, i) \cap S!Range(Grouped)
  BY <1>2, <1>5
<1>7. S!Seen = S!Range(Grouped) \cap S!Range(Grouped) /\ S!MetOnce
  BY <1>2, <1>3, <1>4, <1>6, PagesMeet
<1> QED
  BY <1>3, <1>7

--------------------------------------------------------------------------------
(* The pages of a scroll.                                                   *)

\* A list all of whose elements are in a set is what is picked from it.
LEMMA AllInOrder ==
  ASSUME NEW X, NEW s \in Seq(X), NEW T, S!Range(s) \subseteq T
  PROVE  S!InOrder(s, T) = s
<1> DEFINE D == 1 .. Len(s)
           l == S!InOrder(s, T)
<1>1. Len(s) \in Nat /\ DOMAIN s = D
  OBVIOUS
<1>2. {i \in DOMAIN s : s[i] \in T} = D
  BY <1>1 DEF S!Range
<1>3. l = S!Sublist(s, D)
  BY <1>2 DEF S!InOrder
<1>4. Cardinality(D) = Len(s)
  <2>1. 1 \in Int /\ Len(s) \in Int /\ Len(s) - 1 + 1 = Len(s) /\ (1 > Len(s) => Len(s) = 0)
    BY <1>1
  <2> QED
    BY <2>1, FS_Interval
<1> HIDE DEF l
<1>5. /\ l \in Seq(X) /\ Len(l) = Len(s)
      /\ \A k \in 1 .. Len(s) : \E i \in D : Position(D, i) = k - 1 /\ l[k] = s[i]
  <2>1. D \in SUBSET (1 .. Len(s))
    OBVIOUS
  <2> HIDE DEF D
  <2>2. l \in Seq(X) /\ Len(l) = Cardinality(D)
    BY <1>3, <2>1, PartOfList
  <2>3. \A k \in 1 .. Cardinality(D) : \E i \in D : Position(D, i) = k - 1 /\ l[k] = s[i]
    BY <1>3, <2>1, PartOfList
  <2> QED
    BY <1>4, <2>2, <2>3
<1>6. \A i \in D : Position(D, i) = i - 1
  <2> SUFFICES ASSUME NEW i \in D PROVE Position(D, i) = i - 1
    OBVIOUS
  <2>1. {k \in D : k < i} = 1 .. i - 1
    BY <1>1
  <2>2. Cardinality(1 .. i - 1) = i - 1
    <3>1. 1 \in Int /\ i - 1 \in Int /\ (i - 1) - 1 + 1 = i - 1 /\ (1 > i - 1 => i - 1 = 0)
      BY <1>1
    <3> QED
      BY <3>1, FS_Interval
  <2> QED
    BY <2>1, <2>2 DEF Position
<1>7. \A k \in 1 .. Len(s) : l[k] = s[k]
  <2> SUFFICES ASSUME NEW k \in 1 .. Len(s) PROVE l[k] = s[k]
    OBVIOUS
  <2>1. PICK i \in D : Position(D, i) = k - 1 /\ l[k] = s[i]
    BY <1>5
  <2>2. i - 1 = k - 1
    BY <1>6, <2>1
  <2>3. i = k
    BY <1>1, <2>2
  <2> QED
    BY <2>1, <2>3
<1> QED
  BY <1>5, <1>7, SeqEqual DEF l

\* What a scroll shows of the chunks from its offset on: those up to the last one it
\* shows; nothing only if there is nothing, and all of them if it shows less than a page.
LEMMA ScrolledPart ==
  ASSUME NEW D \in SUBSET S!Chunks
  PROVE  LET l == S!Slice(S!InOrder(S!Dense, D), 0, SearchPage) IN
         /\ l \in Seq(S!Chunks) /\ Len(l) \in Nat
         /\ l = << >> => D = {}
         /\ l # << >> => l[Len(l)] \in D /\ S!Range(l) = {c \in D : c <= l[Len(l)]}
         /\ Len(l) < SearchPage => S!Range(l) = D
<1> DEFINE a == S!InOrder(S!Dense, D)
           l == S!Slice(a, 0, SearchPage)
           r(c) == Position(D, c)
<1>1. D \in SUBSET (1 .. Len(S!Dense)) /\ {i \in DOMAIN S!Dense : S!Dense[i] \in D} = D /\ S!Chunks = 1 .. SearchedChunks
  <2>1. S!Chunks = 1 .. Len(S!Dense)
    BY DenseOrder DEF S!Chunks
  <2> QED
    BY <2>1, DenseOrder
<1>2. a = S!Sublist(S!Dense, D)
  <2> DEFINE P == {i \in DOMAIN S!Dense : S!Dense[i] \in D}
  <2>1. a = S!Sublist(S!Dense, P) /\ P = D
    BY <1>1 DEF S!InOrder
  <2> HIDE DEF P
  <2> QED
    BY <2>1
<1> HIDE DEF a
<1>3. /\ a \in Seq(S!Chunks) /\ Len(a) = Cardinality(D) /\ Cardinality(D) \in Nat
      /\ \A c \in D : Position(D, c) + 1 \in 1 .. Len(a) /\ a[Position(D, c) + 1] = c
      /\ \A k \in 1 .. Len(a) : \E c \in D : Position(D, c) = k - 1 /\ a[k] = c
  <2>1. /\ a \in Seq(S!Chunks) /\ Len(a) = Cardinality(D) /\ Cardinality(D) \in Nat
        /\ \A k \in 1 .. Cardinality(D) : \E i \in D : Position(D, i) = k - 1 /\ a[k] = S!Dense[i]
        /\ \A i \in D : Position(D, i) + 1 \in 1 .. Cardinality(D) /\ a[Position(D, i) + 1] = S!Dense[i]
    <3>1. S!Dense \in Seq(S!Chunks) /\ D \in SUBSET (1 .. Len(S!Dense))
      BY <1>1, DenseOrder
    <3>2. a \in Seq(S!Chunks) /\ Len(a) = Cardinality(D) /\ Cardinality(D) \in Nat
      BY <1>2, <3>1, PartOfList
    <3>3. \A k \in 1 .. Cardinality(D) : \E i \in D : Position(D, i) = k - 1 /\ a[k] = S!Dense[i]
      BY <1>2, <3>1, PartOfList
    <3>4. \A i \in D : Position(D, i) + 1 \in 1 .. Cardinality(D) /\ a[Position(D, i) + 1] = S!Dense[i]
      BY <1>2, <3>1, PartOfList
    <3> QED
      BY <3>2, <3>3, <3>4
  <2>2. \A i \in D : S!Dense[i] = i
    BY DenseOrder
  <2> QED
    BY <2>1, <2>2
<1>4. \A c \in D : r(c) \in Nat /\ \A d \in D : c < d => r(c) < r(d)
  <2>1. SearchedChunks \in Nat /\ D \in SUBSET (1 .. SearchedChunks)
    BY <1>1, DenseOrder
  <2> SUFFICES ASSUME NEW c \in D PROVE r(c) \in Nat /\ \A d \in D : c < d => r(c) < r(d)
    OBVIOUS
  <2>2. \A d \in D : c < d => r(c) < r(d)
    BY <2>1, RanksGrow
  <2>3. r(c) \in Nat
    BY <2>1, PartsAreFinite DEF Position
  <2> QED
    BY <2>2, <2>3
<1>5. /\ l \in Seq(S!Chunks)
      /\ Len(l) = IF 0 >= Len(a) THEN 0 ELSE IF 0 + SearchPage < Len(a) THEN SearchPage ELSE Len(a) - 0
      /\ \A i \in 1 .. Len(l) : i + 0 \in 1 .. Len(a) /\ l[i] = a[i + 0]
  <2>1. 0 \in Nat /\ SearchPage \in Nat
    BY DenseOrder
  <2>5. a \in Seq(S!Chunks)
    BY <1>3
  <2>2. l \in Seq(S!Chunks)
    BY <2>1, <2>5, SliceOfList
  <2>3. Len(l) = IF 0 >= Len(a) THEN 0 ELSE IF 0 + SearchPage < Len(a) THEN SearchPage ELSE Len(a) - 0
    BY <2>1, <2>5, SliceOfList
  <2>4. \A i \in 1 .. Len(l) : i + 0 \in 1 .. Len(a) /\ l[i] = a[i + 0]
    BY <2>1, <2>5, SliceOfList
  <2> QED
    BY <2>2, <2>3, <2>4
<1> HIDE DEF l
<1>6. /\ SearchPage \in Nat \ {0} /\ Len(l) \in Nat /\ Len(l) <= Len(a) /\ (Len(l) = 0 => Len(a) = 0)
      /\ Len(l) < SearchPage => Len(l) = Len(a)
      /\ \A i \in 1 .. Len(l) : i \in 1 .. Len(a) /\ l[i] = a[i]
  <2>1. SearchPage \in Nat \ {0} /\ Len(l) \in Nat /\ Len(a) \in Nat
    BY <1>3, <1>5, DenseOrder
  <2>2. Len(l) = IF 0 >= Len(a) THEN 0 ELSE IF 0 + SearchPage < Len(a) THEN SearchPage ELSE Len(a) - 0
    BY <1>5
  <2>3. \A i \in 1 .. Len(l) : i \in 1 .. Len(a) /\ l[i] = a[i]
    <3>1. \A i \in 1 .. Len(l) : i + 0 = i
      BY <2>1
    <3> QED
      BY <1>5, <3>1
  <2> QED
    BY <2>1, <2>2, <2>3
<1>7. S!Range(l) = {c \in D : r(c) < Len(l)}
  <2> HIDE DEF r
  <2>0. \A c \in D : r(c) + 1 \in 1 .. Len(a) /\ a[r(c) + 1] = c
    BY <1>3 DEF r
  <2>3. \A k \in 1 .. Len(a) : \E c \in D : r(c) = k - 1 /\ a[k] = c
    BY <1>3 DEF r
  <2>1. S!Range(l) \subseteq {c \in D : r(c) < Len(l)}
    <3> SUFFICES ASSUME NEW i \in 1 .. Len(l) PROVE l[i] \in D /\ r(l[i]) < Len(l)
      BY <1>5 DEF S!Range
    <3>1. PICK c \in D : r(c) = i - 1 /\ a[i] = c
      BY <1>6, <2>3
    <3> QED
      BY <1>6, <3>1
  <2>2. {c \in D : r(c) < Len(l)} \subseteq S!Range(l)
    <3> SUFFICES ASSUME NEW c \in D, r(c) < Len(l) PROVE c \in S!Range(l)
      OBVIOUS
    <3>1. r(c) + 1 \in 1 .. Len(l) /\ l[r(c) + 1] = c
      BY <1>4, <1>6, <2>0
    <3> QED
      BY <1>5, <3>1 DEF S!Range
  <2> QED
    BY <2>1, <2>2
<1>8. l = << >> => D = {}
  <2>1. l = << >> => Len(a) = 0
    BY <1>6
  <2> QED
    BY <1>3, <2>1
<1>9. Len(l) < SearchPage => S!Range(l) = D
  <2>1. \A c \in D : r(c) < Len(a)
    BY <1>3, <1>4
  <2> QED
    BY <1>6, <1>7, <2>1
<1>10. ASSUME l # << >> PROVE l[Len(l)] \in D /\ S!Range(l) = {c \in D : c <= l[Len(l)]}
  <2>1. Len(l) \in 1 .. Len(l) /\ Len(l) \in 1 .. Len(a)
    BY <1>5, <1>6, <1>10
  <2>2. PICK z \in D : r(z) = Len(l) - 1 /\ a[Len(l)] = z
    BY <1>3, <2>1
  <2>3. l[Len(l)] = z
    BY <1>6, <2>1, <2>2
  <2>4. \A c \in D : c \in Nat
    BY <1>1, DenseOrder
  <2>5. \A c \in D : r(c) < Len(l) <=> c <= z
    <3> SUFFICES ASSUME NEW c \in D PROVE r(c) < Len(l) <=> c <= z
      OBVIOUS
    <3>1. CASE c < z
      BY <1>4, <1>6, <2>2, <2>4, <3>1
    <3>2. CASE c = z
      BY <1>6, <2>2, <2>4, <3>2
    <3>3. CASE z < c
      BY <1>4, <1>6, <2>2, <2>4, <3>3
    <3> QED
      BY <2>4, <3>1, <3>2, <3>3
  <2> QED
    BY <1>7, <2>3, <2>5
<1> QED
  BY <1>5, <1>6, <1>8, <1>9, <1>10 DEF l, a

\* The chunk a scroll goes on from: the last one it has shown.
LastShown == S!Last(S!Last(pages).list)
Start     == IF pages = << >> THEN 1 ELSE LastShown
From      == {c \in S!Points : c >= Start}

\* The pages of a scroll show the chunks up to the last one shown.
ScrollPages ==
  /\ \A i \in DOMAIN pages : pages[i].list = << >> => at = "done" /\ S!Points = {}
  /\ pages # << >> /\ S!Last(pages).list # << >> =>
       LastShown \in S!Points /\ S!Seen = {c \in S!Points : c <= LastShown}
  /\ at = "query" /\ S!Chunks # {} => hits[1] = Start
  /\ at = "rows" => hits = S!Slice(S!InOrder(S!Dense, From), 0, SearchPage)
  /\ at = "done" => S!Seen = S!Points

ScrollIInv == ask.kind = "scroll" /\ Undisturbed /\ S!Points \subseteq S!Rows /\ SearchPage > 1 => ScrollPages

\* A step that shows nothing and ends nothing keeps what was shown.
LEMMA ScrollGoesOn ==
  ASSUME UNCHANGED <<status, pages>>, at' # "done",
         \A i \in DOMAIN pages : pages[i].list # << >>,
         pages # << >> /\ S!Last(pages).list # << >> =>
           LastShown \in S!Points /\ S!Seen = {c \in S!Points : c <= LastShown},
         at' = "query" /\ S!Chunks # {} => hits'[1] = Start,
         at' = "rows" => hits' = S!Slice(S!InOrder(S!Dense, From), 0, SearchPage)
  PROVE  ScrollPages'
<1>1. S!Points' = S!Points /\ LastShown' = LastShown /\ Start' = Start /\ S!Seen' = S!Seen
  BY DEF S!Points, LastShown, Start, S!Seen, S!Last
<1>2. From' = From
  BY <1>1 DEF From
<1>3. S!Slice(S!InOrder(S!Dense, From), 0, SearchPage)' = S!Slice(S!InOrder(S!Dense, From), 0, SearchPage)
  BY <1>2
<1>4. S!Last(pages)' = S!Last(pages)
  BY DEF S!Last
<1> QED
  BY <1>1, <1>3, <1>4 DEF ScrollPages

\* The part that a page of a scroll adds.
LEMMA ScrollShows ==
  ASSUME SearchTypes, ScrollPages, at = "rows", ask.kind = "scroll", S!Points \subseteq S!Rows, SearchPage > 1,
         NEW next, S!Answer("found", S!Result, next), next = IF S!LastPage THEN "done" ELSE "ask",
         UNCHANGED status, at' = next, Len(pages) \in Nat
  PROVE  ScrollPages'
<1> DEFINE l == hits
           z == l[Len(l)]
           E == [is : {"found", "error", "panic"}, list : Seq(S!Chunks)]
           e == [is |-> "found", list |-> l]
<1>1. l = S!Slice(S!InOrder(S!Dense, From), 0, SearchPage) /\ From \subseteq S!Points /\ S!Points \subseteq S!Chunks
  BY PointsAreFinite DEF ScrollPages, From
<1>2. /\ l \in Seq(S!Chunks) /\ Len(l) \in Nat
      /\ l = << >> => From = {}
      /\ l # << >> => z \in From /\ S!Range(l) = {c \in From : c <= z}
      /\ Len(l) < SearchPage => S!Range(l) = From
  <2>1. From \in SUBSET S!Chunks
    BY <1>1
  <2> HIDE DEF l
  <2> QED
    BY <1>1, <2>1, ScrolledPart
<1>3. S!Range(l) \subseteq S!Rows
  <2>1. S!Range(l) \subseteq From
    BY <1>2 DEF S!Range
  <2> QED
    BY <1>1, <2>1
<1>4. S!Result = l /\ (S!LastPage <=> Len(l) <= 1)
  <2>1. S!Found = l
    BY <1>2, <1>3, AllInOrder DEF S!Found
  <2>2. S!Result = S!Found
    BY DEF S!Result, S!Withins, S!Completes
  <2>3. S!LastPage = (Len(S!Result) <= 1)
    BY DEF S!LastPage, S!Recommends, S!Completes
  <2> QED
    BY <2>1, <2>2, <2>3
<1>5. pages \in Seq(E) /\ e \in E /\ pages' = Append(pages, e) /\ e.list = l
  BY <1>2, <1>4 DEF SearchTypes, S!Answer
<1>6. \A i \in DOMAIN pages : pages[i].list # << >>
  BY DEF ScrollPages
<1> HIDE DEF l, E, e
<1>7. /\ DOMAIN pages' = DOMAIN pages \cup {Len(pages) + 1} /\ pages'[Len(pages) + 1] = e
      /\ \A i \in DOMAIN pages : pages'[i] = pages[i]
      /\ Len(pages') = Len(pages) + 1 /\ pages' # << >>
  <2>1. pages' \in Seq(E) /\ Len(pages') = Len(pages) + 1
    BY <1>5
  <2> QED
    BY <1>5, <2>1, PagesBefore
<1>8. S!Last(pages') = e /\ S!Last(pages').list = l
  BY <1>5, <1>7 DEF S!Last
<1>9. S!Points' = S!Points
  BY DEF S!Points
<1>10. S!Seen' = S!Seen \cup S!Range(l)
  BY <1>5, <1>7 DEF S!Seen
<1>11. /\ pages = << >> => From = S!Points /\ S!Seen = {}
       /\ pages # << >> => /\ LastShown \in S!Points /\ From = {c \in S!Points : c >= LastShown}
                           /\ S!Seen = {c \in S!Points : c <= LastShown}
  <2>1. ASSUME pages = << >> PROVE From = S!Points /\ S!Seen = {}
    <3>1. Start = 1 /\ \A c \in S!Points : c >= 1
      BY <1>1, <2>1, DenseOrder DEF Start, S!Chunks
    <3>2. S!Seen = {}
      BY <2>1 DEF S!Seen
    <3> QED
      BY <3>1, <3>2 DEF From
  <2>2. ASSUME pages # << >>
        PROVE  /\ LastShown \in S!Points /\ From = {c \in S!Points : c >= LastShown}
               /\ S!Seen = {c \in S!Points : c <= LastShown}
    <3>1. Len(pages) \in DOMAIN pages
      BY <1>5, <2>2
    <3>2. S!Last(pages).list # << >>
      BY <1>6, <3>1 DEF S!Last
    <3> QED
      BY <2>2, <3>2 DEF ScrollPages, From, Start
  <2> QED
    BY <2>1, <2>2
<1>12. \A c \in S!Points : c \in Nat
  BY <1>1, DenseOrder DEF S!Chunks
<1>13. ASSUME l = << >> PROVE S!Points = {} /\ S!Seen' = S!Points /\ at' = "done"
  <2>1. From = {} /\ Len(l) = 0 /\ S!Range(l) = {}
    BY <1>2, <1>13 DEF S!Range
  <2>2. pages = << >>
    <3>1. pages # << >> => LastShown \in From
      BY <1>11, <1>12
    <3> QED
      BY <2>1, <3>1
  <2>3. at' = "done"
    BY <1>4, <2>1
  <2>4. S!Points = {} /\ S!Seen' = {}
    BY <1>10, <1>11, <2>1, <2>2
  <2> QED
    BY <2>3, <2>4
<1>14. ASSUME l # << >> PROVE z \in S!Points /\ S!Seen' = {c \in S!Points : c <= z}
  <2>1. z \in From /\ z \in S!Points /\ S!Range(l) = {c \in From : c <= z}
    BY <1>1, <1>2, <1>14
  <2> HIDE DEF z
  <2>2. CASE pages = << >>
    BY <1>10, <1>11, <2>1, <2>2
  <2>3. CASE pages # << >>
    BY <1>10, <1>11, <1>12, <2>1, <2>3
  <2> QED
    BY <2>1, <2>2, <2>3
<1>15. at' = "done" => S!Seen' = S!Points
  <2> SUFFICES ASSUME at' = "done" PROVE S!Seen' = S!Points
    OBVIOUS
  <2>1. Len(l) <= 1
    BY <1>4
  <2>2. S!Range(l) = From
    BY <1>2, <2>1, DenseOrder
  <2>3. CASE pages = << >>
    BY <1>10, <1>11, <2>2, <2>3
  <2>4. CASE pages # << >>
    BY <1>10, <1>11, <1>12, <2>2, <2>4
  <2> QED
    BY <2>3, <2>4
<1>16. \A i \in DOMAIN pages' : pages'[i].list = << >> => at' = "done" /\ S!Points = {}
  BY <1>5, <1>6, <1>7, <1>13
<1>17. LastShown' = z
  BY <1>8 DEF LastShown, S!Last
<1>18. at' \notin {"query", "rows"}
  OBVIOUS
<1> QED
  BY <1>8, <1>9, <1>14, <1>15, <1>16, <1>17, <1>18 DEF ScrollPages

\* Every step keeps what the pages of a scroll have shown.
LEMMA ScrollStep ==
  ASSUME AnswersIInv, changed \in Nat, ScrollIInv, [S!Next]_searchVars
  PROVE  ScrollIInv'
<1> SUFFICES ASSUME ask'.kind = "scroll", Undisturbed', S!Points' \subseteq S!Rows', SearchPage > 1 PROVE ScrollPages'
  BY DEF ScrollIInv
<1>1. ask' = ask /\ ask.kind = "scroll" /\ OfChunks
  BY AskStays DEF OfChunks, S!OfGroups
<1>2. SearchTypes /\ Turn
  BY <1>1 DEF AnswersIInv
<1>3. page \in Nat /\ pages \in Seq([is : {"found", "error", "panic"}, list : Seq(S!Chunks)])
  BY <1>2 DEF SearchTypes
<1>4. UNCHANGED <<status, ask, changed>> /\ (~S!Ask => Undisturbed /\ page' = page)
  BY <1>3, StillUndisturbed
<1>5. S!Points \subseteq S!Rows
  BY <1>4 DEF S!Points, S!Rows
<1>6. (page > 0 => ScrollPages) /\ (~S!Ask => page > 0 /\ ScrollPages)
  BY <1>1, <1>4, <1>5 DEF ScrollIInv, Undisturbed
<1>7. page > 0 /\ at # "done" =>
        /\ \A i \in DOMAIN pages : pages[i].list # << >>
        /\ pages # << >> /\ S!Last(pages).list # << >> =>
             LastShown \in S!Points /\ S!Seen = {c \in S!Points : c <= LastShown}
  BY <1>6 DEF ScrollPages
<1>8. CASE S!Ask
  <2>1. at = "ask" /\ at' = "ids" /\ pages' = pages
    BY <1>1, <1>8 DEF S!Ask, S!Recommends
  <2>2. CASE page > 0
    BY <1>4, <1>7, <2>1, <2>2, ScrollGoesOn
  <2>3. CASE ~(page > 0)
    <3>1. pages = << >>
      BY <1>2, <1>3, <2>1, <2>3 DEF Turn
    <3>2. \A i \in DOMAIN pages : pages[i].list # << >>
      BY <3>1
    <3> QED
      BY <1>4, <2>1, <3>1, <3>2, ScrollGoesOn
  <2> QED
    BY <2>2, <2>3
<1>9. CASE S!ScrollChunks
  <2> DEFINE cs == IF page = 1 THEN {1} ELSE S!ChunkPointIds(S!Last(pages[page - 1].list))
  <2>1. at = "ids" /\ S!StartFrom(cs)
    BY <1>9 DEF S!ScrollChunks, S!StartFrom
  <2>2. page \in Nat \ {0} /\ Len(pages) = page - 1
    BY <1>2, <1>3, <1>6, <2>1 DEF Turn, S!Ask
  <2>3. cs = {Start} /\ (S!Chunks # {} => Start \in S!Chunks)
    <3>1. CASE page = 1
      <4>1. pages = << >>
        BY <1>3, <2>2, <3>1
      <4>2. S!Chunks # {} => 1 \in S!Chunks
        BY DenseOrder DEF S!Chunks
      <4> QED
        BY <3>1, <4>1, <4>2 DEF Start
    <3>2. CASE page # 1
      <4>1. pages # << >> /\ Len(pages) \in DOMAIN pages
        BY <1>3, <2>2, <3>2
      <4>2. S!Last(pages[page - 1].list) = LastShown
        BY <2>2 DEF LastShown, S!Last
      <4>3. LastShown \in S!Points
        <5>1. S!Last(pages).list # << >>
          BY <1>7, <2>1, <2>2, <4>1 DEF S!Last
        <5> QED
          BY <1>7, <2>1, <2>2, <4>1, <5>1
      <4>4. S!ChunkPointIds(LastShown) = {LastShown}
        BY <1>5, <4>3 DEF S!ChunkPointIds
      <4>5. Start = LastShown /\ Start \in S!Chunks
        BY <4>1, <4>3, PointsAreFinite DEF Start
      <4> QED
        BY <3>2, <4>2, <4>4, <4>5
    <3> QED
      BY <3>1, <3>2
  <2> HIDE DEF cs
  <2>4. hits' = S!InOrder(S!Dense, {Start}) /\ at' = "query" /\ pages' = pages
    <3>1. cs # {}
      BY <2>3
    <3> QED
      BY <2>1, <2>3, <3>1 DEF S!StartFrom
  <2>5. S!Chunks # {} => hits'[1] = Start
    <3>1. hits' \in Seq(S!Chunks) /\ S!Range(hits') = S!Chunks \cap {Start}
      BY <2>4, DenseOrder, ElementsInOrder
    <3>2. S!Chunks # {} => S!Range(hits') = {Start}
      BY <2>3, <3>1
    <3>3. S!Range(hits') # {} => hits'[1] \in S!Range(hits')
      <4>1. DOMAIN hits' # {} => 1 \in DOMAIN hits'
        BY <3>1
      <4> QED
        BY <4>1 DEF S!Range
    <3> QED
      BY <3>2, <3>3
  <2> QED
    BY <1>4, <1>7, <2>1, <2>2, <2>4, <2>5, ScrollGoesOn
<1>10. CASE S!Scroll
  <2>1. /\ at = "query" /\ at' = "rows" /\ pages' = pages
        /\ hits' = S!Slice(S!InOrder(S!Dense, {c \in S!Points : c >= hits[1]}), 0, SearchPage)
    BY <1>10 DEF S!Scroll
  <2>2. page > 0 /\ ScrollPages
    BY <1>6, <2>1 DEF S!Ask
  <2>3. {c \in S!Points : c >= hits[1]} = From
    <3>1. CASE S!Points = {}
      BY <3>1 DEF From
    <3>2. CASE S!Points # {}
      <4>1. hits[1] = Start
        BY <2>1, <2>2, <3>2, PointsAreFinite DEF ScrollPages
      <4> QED
        BY <4>1 DEF From
    <3> QED
      BY <3>1, <3>2
  <2> QED
    BY <1>4, <1>7, <2>1, <2>2, <2>3, ScrollGoesOn
<1>11. CASE S!ReadRows
  <2> DEFINE next == IF S!LastPage THEN "done" ELSE "ask"
  <2>1. at = "rows" /\ S!Answer("found", S!Result, next)
    <3>1. ~S!Panics
      BY <1>1 DEF S!Panics, S!Completes
    <3> QED
      BY <1>11, <3>1 DEF S!ReadRows
  <2>2. ScrollPages /\ at' = next
    BY <1>6, <2>1 DEF S!Ask, S!Answer
  <2>3. Len(pages) \in Nat
    BY <1>3
  <2> HIDE DEF next
  <2>4. next = IF S!LastPage THEN "done" ELSE "ask"
    BY DEF next
  <2> QED
    BY <1>1, <1>2, <1>4, <1>5, <2>1, <2>2, <2>3, <2>4, ScrollShows
<1>12. CASE UNCHANGED searchVars
  <2>1. ScrollPages
    BY <1>6, <1>12 DEF searchVars, S!Ask, Undisturbed
  <2> QED
    BY <1>12, <2>1 DEF searchVars, ScrollPages, S!Points, S!Seen, LastShown, Start, From, S!Last
<1>13. CASE \E c \in S!Chunks : S!Change(c)
  <2>1. status' # status
    BY <1>2, <1>13 DEF S!Change, S!After, SearchTypes
  <2> QED
    BY <1>4, <2>1
<1>14. CASE S!CountPoints
  BY <1>1, <1>14 DEF S!CountPoints, S!Counts
<1> QED
  BY <1>1, <1>8, <1>9, <1>10, <1>11, <1>12, <1>13, <1>14
  DEF S!Next, S!GetRecommendedChunks, S!GetRecommendedGroups, S!QueryChunks, S!QueryGroups,
    S!RecommendChunks, S!RecommendGroups

--------------------------------------------------------------------------------
(* The invariant of a search.                                               *)

\* A search is begun before it is done.
Begun == page = 0 => at = "ask"

\* No step but the first asks for page one.
LEMMA BegunStep == ASSUME SearchTypeInv, Begun, [S!Next]_searchVars PROVE Begun'
<1>1. page \in Nat
  BY Amounts DEF SearchTypeInv, S!TypeOK
<1>2. CASE \E c \in S!Chunks : S!Change(c)
  BY <1>2 DEF Begun, S!Change
<1>3. CASE S!Ask
  BY <1>1, <1>3 DEF Begun, S!Ask
<1>4. CASE UNCHANGED searchVars
  BY <1>4 DEF Begun, searchVars
<1>5. CASE /\ ~\E c \in S!Chunks : S!Change(c)
           /\ ~S!Ask /\ ~UNCHANGED searchVars
  BY <1>5 DEF Begun, S!Next, S!GetRecommendedChunks, S!GetRecommendedGroups, S!ScrollChunks,
    S!StartFrom, S!CountPoints, S!QueryChunks, S!QueryGroups, S!Scroll, S!RecommendChunks, S!RecommendGroups,
    S!RecommendFrom, S!ReadRows
<1> QED
  BY <1>2, <1>3, <1>4, <1>5

\* The invariant of a search.
SearchIInv == AnswersIInv /\ SearchTypeInv /\ Begun /\ ChunksIInv /\ NamesIInv /\ ScrollIInv

\* It holds at first, ...
LEMMA SearchInit == S!Init => SearchIInv
<1> SUFFICES ASSUME S!Init PROVE SearchIInv
  OBVIOUS
<1>1. page = 0 /\ at = "ask"
  BY DEF S!Init
<1>2. ~Undisturbed
  BY <1>1 DEF Undisturbed
<1> QED
  BY <1>1, <1>2, AnswersInit, TypesInit DEF SearchIInv, Begun, ChunksIInv, NamesIInv, ScrollIInv

\* ... and no step breaks it.
LEMMA SearchStep == SearchIInv /\ [S!Next]_searchVars => SearchIInv'
<1> SUFFICES ASSUME SearchIInv, [S!Next]_searchVars PROVE SearchIInv'
  OBVIOUS
<1>1. changed \in Nat
  BY Amounts DEF SearchIInv, SearchTypeInv, S!TypeOK
<1> QED
  BY <1>1, AnswersStep, TypesStep, BegunStep, ChunksStep, NamesStep, ScrollStep DEF SearchIInv

\* What the invariant says when a search is done.
LEMMA PagesAreDone == SearchIInv => S!PagesPartition
<1> SUFFICES ASSUME SearchIInv, at = "done", changed = 0,
                    S!Cardinality(S!Points) <= S!Min({MaxLimit, Prefetch})
             PROVE  /\ ask.kind = "chunks" => S!Seen = {c \in S!Chunks : status[c] = "whole"} /\ S!MetOnce
                    /\ ask.kind = "groups" /\ S!Cardinality(S!Names(S!Points)) <= S!Cardinality(S!Points) =>
                         S!Seen = S!Names(S!Points) /\ S!MetOnce
                    /\ ask.kind = "scroll" /\ S!Points = {c \in S!Chunks : status[c] = "whole"} /\ SearchPage > 1 =>
                         S!Seen = {c \in S!Chunks : status[c] = "whole"}
  BY DEF S!PagesPartition
<1>1. Cardinality(S!Points) = S!Cardinality(S!Points)
      /\ Cardinality(S!Names(S!Points)) = S!Cardinality(S!Names(S!Points))
  BY DEF S!Cardinality, Cardinality
<1>2. Undisturbed /\ Covered
  <2>1. page \in Nat /\ page # 0
    BY Amounts DEF SearchIInv, SearchTypeInv, S!TypeOK, Begun
  <2>2. Cardinality(S!Points) <= MaxLimit /\ Cardinality(S!Points) <= Prefetch
    <3>1. S!Min({MaxLimit, Prefetch}) <= MaxLimit /\ S!Min({MaxLimit, Prefetch}) <= Prefetch
          /\ S!Min({MaxLimit, Prefetch}) \in Nat /\ MaxLimit \in Nat /\ Prefetch \in Nat
      BY Amounts, LeastAndMost
    <3> QED
      BY <1>1, <3>1, PointsAreFinite
  <2> QED
    BY <2>1, <2>2 DEF Undisturbed, Covered
<1>3. CASE ask.kind = "chunks"
  BY <1>2, <1>3, ChunksPartition DEF SearchIInv
<1>4. CASE ask.kind = "groups"
  BY <1>1, <1>2, <1>4, NamesPartition DEF SearchIInv
<1>5. ASSUME ask.kind = "scroll", S!Points = {c \in S!Chunks : status[c] = "whole"}, SearchPage > 1
      PROVE  S!Seen = {c \in S!Chunks : status[c] = "whole"}
  <2>1. S!Points \subseteq S!Rows
    BY <1>5 DEF S!Rows
  <2> QED
    BY <1>2, <1>5, <2>1 DEF SearchIInv, ScrollIInv, ScrollPages
<1> QED
  BY <1>3, <1>4, <1>5

--------------------------------------------------------------------------------
(* The components that have proofs of their own.                            *)

FP == INSTANCE FileUploadProofs WITH LastSegment <- 2, StorageLimit <- 1, PlanChunks <- 3, Attempts <- 3
CP == INSTANCE ConversationsProofs
        WITH Clients <- Actors, PlanMessages <- 4, MaxMessages <- 5, req <- cReq, failures <- cFailures
MP == INSTANCE MembershipsProofs
        WITH Clients <- Actors, Granted <- {0, 2}, PlanUsers <- 2, MaxRows <- 3, MaxRequests <- 3,
             rows <- mRows, req <- mReq, requests <- mRequests, failures <- mFailures
BP == INSTANCE BillingProofs
        WITH Handlers <- Actors, LastSubscription <- 2, MaxInvoices <- 2, MaxDisturbances <- MaxFailures,
             MaxUnread <- 1, failures <- bFailures

allVars == <<focus, groupVars, fileVars, topicVars, memberVars, billingVars, searchVars, filterVars,
             batchVars>>

\* The invariants of the components, of the one that is there.
FilesInv == focus = "files" => FP!IInv
TopicsInv == focus = "topics" => CP!IInv
MembersInv == focus = "members" => MP!IInv
BillingInv == focus = "billing" => BP!IInv

--------------------------------------------------------------------------------
(* The same definitions under two names.                                    *)

\* The constants are what the proofs assume.
LEMMA SameAssumptions ==
  FP!FileAssumption /\ CP!TopicAssumption /\ MP!MembershipAssumption /\ BP!BillingAssumption
<1>1. FP!FileAssumption
  BY ServicesAssumption DEF F!FileAssumption, FP!FileAssumption
<1>2. MP!MembershipAssumption
  BY ServicesAssumption DEF M!MembershipAssumption, MP!MembershipAssumption, M!Roles, MP!Roles,
                            M!User, MP!User, M!Owner, MP!Owner
<1>3. BP!BillingAssumption
  BY ServicesAssumption DEF B!BillingAssumption, BP!BillingAssumption, B!IsFiniteSet, BP!IsFiniteSet
<1>4. CP!TopicAssumption
  BY ServicesAssumption DEF C!TopicAssumption, CP!TopicAssumption
<1> QED
  BY <1>1, <1>2, <1>3, <1>4

\* The same first states, and the same steps.
LEMMA SameFilesAtFirst == F!Init => FP!Init
BY DEF F!Init, FP!Init, F!Rest, FP!Rest

\* A step of the instance is a step of the instance its proofs are about.
LEMMA SameFiles == F!Next => FP!Next
<1> USE DEF F!Advance, FP!Advance,
            F!GiveBack, FP!GiveBack,
            F!End, FP!End,
            F!Rest, FP!Rest,
            F!Fault, FP!Fault,
            F!RowRefused, FP!RowRefused
<1>1. ASSUME NEW f, F!AskUpload(f) PROVE FP!AskUpload(f)
  BY <1>1 DEF F!AskUpload, FP!AskUpload, F!Cardinality, FP!Cardinality
<1>2. ASSUME NEW f, F!PutObject(f) PROVE FP!PutObject(f)
  BY <1>2 DEF F!PutObject, FP!PutObject
<1>3. ASSUME NEW f, F!PushFile(f) PROVE FP!PushFile(f)
  BY <1>3 DEF F!PushFile, FP!PushFile
<1>4. ASSUME NEW f, F!UploadFails(f) PROVE FP!UploadFails(f)
  BY <1>4 DEF F!UploadFails, FP!UploadFails
<1>5. ASSUME NEW f, F!DeleteObject(f) PROVE FP!DeleteObject(f)
  BY <1>5 DEF F!DeleteObject, FP!DeleteObject
<1>6. ASSUME NEW f, F!DeleteFileRow(f) PROVE FP!DeleteFileRow(f)
  BY <1>6 DEF F!DeleteFileRow, FP!DeleteFileRow
<1>7. ASSUME NEW w, F!TakeFile(w) PROVE FP!TakeFile(w)
  BY <1>7 DEF F!TakeFile, FP!TakeFile
<1>8. ASSUME NEW w, F!Fetch(w) PROVE FP!Fetch(w)
  BY <1>8 DEF F!Fetch, FP!Fetch
<1>9. ASSUME NEW w, F!InsertFile(w) PROVE FP!InsertFile(w)
  BY <1>9 DEF F!InsertFile, FP!InsertFile
<1>10. ASSUME NEW w, F!MakeGroup(w) PROVE FP!MakeGroup(w)
  BY <1>10 DEF F!MakeGroup, FP!MakeGroup
<1>11. ASSUME NEW w, F!LinkGroup(w) PROVE FP!LinkGroup(w)
  BY <1>11 DEF F!LinkGroup, FP!LinkGroup
<1>12. ASSUME NEW w, F!CheckPlan(w) PROVE FP!CheckPlan(w)
  BY <1>12 DEF F!CheckPlan, FP!CheckPlan
<1>13. ASSUME NEW w, F!PushSegment(w) PROVE FP!PushSegment(w)
  BY <1>13 DEF F!PushSegment, FP!PushSegment
<1>14. ASSUME NEW w, F!FinishFile(w) PROVE FP!FinishFile(w)
  BY <1>14 DEF F!FinishFile, FP!FinishFile
<1>15. ASSUME NEW w, F!StepFails(w) PROVE FP!StepFails(w)
  BY <1>15 DEF F!StepFails, FP!StepFails
<1>16. ASSUME NEW w, F!WorkerDies(w) PROVE FP!WorkerDies(w)
  BY <1>16 DEF F!WorkerDies, FP!WorkerDies
<1>17. F!IngestSegment => FP!IngestSegment
  BY DEF F!IngestSegment, FP!IngestSegment, F!FoldSet, FP!FoldSet, F!MapThenFoldSet, FP!MapThenFoldSet
<1> QED
  BY <1>1, <1>2, <1>3, <1>4, <1>5, <1>6, <1>7, <1>8, <1>9, <1>10, <1>11, <1>12, <1>13, <1>14, <1>15, <1>16, <1>17 DEF F!Next, FP!Next

\* The same of Conversations.
LEMMA SameTopicsAtFirst == C!Init => CP!Init
BY DEF C!Init, CP!Init, C!Idle, CP!Idle

\* The messages that a request of a conversation starts from.
LEMMA SameHistories == C!Live = CP!Live /\ C!GetTopicMessages = CP!GetTopicMessages /\ C!Idle = CP!Idle
<1>1. C!Live = CP!Live
  BY DEF C!Live, CP!Live
<1>2. C!Idle = CP!Idle
  BY DEF C!Idle, CP!Idle
<1> QED
  BY <1>1, <1>2 DEF C!GetTopicMessages, CP!GetTopicMessages, C!InPosition, CP!InPosition, C!Before, CP!Before,
                    C!Cardinality, CP!Cardinality

\* The message to edit, and the reply to make anew.
LEMMA SameEdits ==
  ASSUME NEW c PROVE (C!EditMessage(c) => CP!EditMessage(c)) /\ (C!RegenerateMessage(c) => CP!RegenerateMessage(c))
<1>1. ASSUME C!EditMessage(c) PROVE CP!EditMessage(c)
  <2>1. PICK m \in C!Live :
          cReq' = [cReq EXCEPT ![c] = [C!Idle EXCEPT !.op = "edit", !.step = "delete", !.at = messages[m].order]]
    BY <1>1 DEF C!EditMessage
  <2>2. m \in CP!Live
        /\ cReq' = [cReq EXCEPT ![c] = [CP!Idle EXCEPT !.op = "edit", !.step = "delete", !.at = messages[m].order]]
    BY <2>1, SameHistories
  <2> QED
    BY <1>1, <2>2 DEF C!EditMessage, CP!EditMessage
<1>2. C!RegenerateMessage(c) => CP!RegenerateMessage(c)
  BY SameHistories DEF C!RegenerateMessage, CP!RegenerateMessage
<1> QED
  BY <1>1, <1>2

\* Its steps, too.
LEMMA SameTopics == C!Next => CP!Next
<1> USE DEF C!Live, CP!Live,
            C!Before, CP!Before,
            C!InPosition, CP!InPosition,
            C!GetTopicMessages, CP!GetTopicMessages,
            C!Cardinality, CP!Cardinality,
            C!Insert, CP!Insert,
            C!Holds, CP!Holds,
            C!Outdated, CP!Outdated,
            C!LateOutdated, CP!LateOutdated,
            C!NextOrder, CP!NextOrder,
            C!DeletedFrom, CP!DeletedFrom,
            C!Goto, CP!Goto,
            C!Finish, CP!Finish,
            C!Idle, CP!Idle,
            C!WithinPlan, CP!WithinPlan
<1>1. ASSUME NEW c, C!CreateMessage(c) PROVE CP!CreateMessage(c)
  BY <1>1 DEF C!CreateMessage, CP!CreateMessage
<1>2. ASSUME NEW c, C!EditMessage(c) PROVE CP!EditMessage(c)
  BY <1>2, SameEdits
<1>3. ASSUME NEW c, C!RegenerateMessage(c) PROVE CP!RegenerateMessage(c)
  BY <1>3, SameEdits
<1>4. ASSUME NEW c, C!DeleteMessage(c) PROVE CP!DeleteMessage(c)
  BY <1>4 DEF C!DeleteMessage, CP!DeleteMessage
<1>5. ASSUME NEW c, C!CheckPlan(c) PROVE CP!CheckPlan(c)
  BY <1>5 DEF C!CheckPlan, CP!CheckPlan
<1>6. ASSUME NEW c, C!ReadTopic(c) PROVE CP!ReadTopic(c)
  BY <1>6 DEF C!ReadTopic, CP!ReadTopic
<1>7. ASSUME NEW c, C!CreateSystemMessage(c) PROVE CP!CreateSystemMessage(c)
  BY <1>7 DEF C!CreateSystemMessage, CP!CreateSystemMessage
<1>8. ASSUME NEW c, C!CreateUserMessage(c) PROVE CP!CreateUserMessage(c)
  BY <1>8 DEF C!CreateUserMessage, CP!CreateUserMessage
<1>9. ASSUME NEW c, C!Answer(c) PROVE CP!Answer(c)
  BY <1>9 DEF C!Answer, CP!Answer
<1>10. ASSUME NEW c, C!Stream(c) PROVE CP!Stream(c)
  BY <1>10 DEF C!Stream, CP!Stream
<1>11. ASSUME NEW c, C!RequestFails(c) PROVE CP!RequestFails(c)
  BY <1>11 DEF C!RequestFails, CP!RequestFails
<1>12. C!CreateTopic => CP!CreateTopic
  BY DEF C!CreateTopic, CP!CreateTopic
<1>13. C!DeleteTopic => CP!DeleteTopic
  BY DEF C!DeleteTopic, CP!DeleteTopic
<1>14. C!StoreLate => CP!StoreLate
  BY DEF C!StoreLate, CP!StoreLate
<1>15. C!LateFails => CP!LateFails
  BY DEF C!LateFails, CP!LateFails
<1> QED
  BY <1>1, <1>2, <1>3, <1>4, <1>5, <1>6, <1>7, <1>8, <1>9, <1>10, <1>11, <1>12, <1>13, <1>14, <1>15 DEF C!Next, CP!Next

\* The same of Memberships.
LEMMA SameMembersAtFirst == M!Init => MP!Init
BY DEF M!Init, MP!Init, M!Idle, MP!Idle, M!User, MP!User, M!Owner, MP!Owner

\* Its steps, too: every helper that an action uses is unfolded on both sides.
LEMMA SameMembers == M!Next => MP!Next
<1> USE DEF M!Stands, MP!Stands,
            M!Of, MP!Of,
            M!MembersOf, MP!MembersOf,
            M!View, MP!View,
            M!SessionRoles, MP!SessionRoles,
            M!Administers, MP!Administers,
            M!Aged, MP!Aged,
            M!Insert, MP!Insert,
            M!Begin, MP!Begin,
            M!Step, MP!Step,
            M!Finish, MP!Finish,
            M!Ghosts, MP!Ghosts,
            M!stores, MP!stores,
            M!Idle, MP!Idle,
            M!User, MP!User,
            M!Owner, MP!Owner,
            M!Roles, MP!Roles
<1>1. ASSUME NEW c, M!GetUser(c) PROVE MP!GetUser(c)
  BY <1>1 DEF M!GetUser, MP!GetUser
<1>2. ASSUME NEW c, M!Callback(c) PROVE MP!Callback(c)
  BY <1>2 DEF M!Callback, MP!Callback
<1>3. ASSUME NEW c, M!Load(c) PROVE MP!Load(c)
  BY <1>3 DEF M!Load, MP!Load
<1>4. ASSUME NEW c, M!CreateAccount(c) PROVE MP!CreateAccount(c)
  BY <1>4 DEF M!CreateAccount, MP!CreateAccount, M!Cardinality, MP!Cardinality
<1>5. ASSUME NEW c, M!CheckInvitation(c) PROVE MP!CheckInvitation(c)
  BY <1>5 DEF M!CheckInvitation, MP!CheckInvitation
<1>6. ASSUME NEW c, M!UseInvitation(c) PROVE MP!UseInvitation(c)
  BY <1>6 DEF M!UseInvitation, MP!UseInvitation
<1>7. ASSUME NEW c, M!Join(c) PROVE MP!Join(c)
  BY <1>7 DEF M!Join, MP!Join
<1>8. ASSUME NEW c, M!Fill(c) PROVE MP!Fill(c)
  BY <1>8 DEF M!Fill, MP!Fill
<1>9. ASSUME NEW c, M!CreateOrganization(c) PROVE MP!CreateOrganization(c)
  BY <1>9 DEF M!CreateOrganization, MP!CreateOrganization
<1>10. ASSUME NEW c, M!PostInvitation(c) PROVE MP!PostInvitation(c)
  BY <1>10 DEF M!PostInvitation, MP!PostInvitation
<1>11. ASSUME NEW c, M!UpdateUser(c) PROVE MP!UpdateUser(c)
  BY <1>11 DEF M!UpdateUser, MP!UpdateUser
<1>12. ASSUME NEW c, M!RemoveUser(c) PROVE MP!RemoveUser(c)
  BY <1>12 DEF M!RemoveUser, MP!RemoveUser
<1>13. ASSUME NEW c, M!Write(c) PROVE MP!Write(c)
  BY <1>13 DEF M!Write, MP!Write
<1>14. ASSUME NEW c, M!Drop(c) PROVE MP!Drop(c)
  BY <1>14 DEF M!Drop, MP!Drop
<1>15. ASSUME NEW c, M!UpdateOrganization(c) PROVE MP!UpdateOrganization(c)
  BY <1>15 DEF M!UpdateOrganization, MP!UpdateOrganization
<1>16. ASSUME NEW c, M!DropAll(c) PROVE MP!DropAll(c)
  BY <1>16 DEF M!DropAll, MP!DropAll
<1>17. ASSUME NEW c, M!DeleteOrganization(c) PROVE MP!DeleteOrganization(c)
  BY <1>17 DEF M!DeleteOrganization, MP!DeleteOrganization
<1>18. ASSUME NEW c, M!MarkDeleted(c) PROVE MP!MarkDeleted(c)
  BY <1>18 DEF M!MarkDeleted, MP!MarkDeleted
<1>19. ASSUME NEW c, M!RequestFails(c) PROVE MP!RequestFails(c)
  BY <1>19 DEF M!RequestFails, MP!RequestFails
<1>20. M!DeleteInvitation => MP!DeleteInvitation
  BY DEF M!DeleteInvitation, MP!DeleteInvitation
<1>21. ASSUME NEW c, M!AddFails(c) PROVE MP!AddFails(c)
  BY <1>21 DEF M!AddFails, MP!AddFails
<1>22. ASSUME NEW c, M!Invite(c) PROVE MP!Invite(c)
  BY <1>22 DEF M!Invite, MP!Invite
<1> QED
  BY <1>1, <1>2, <1>3, <1>4, <1>5, <1>6, <1>7, <1>8, <1>9, <1>10, <1>11, <1>12, <1>13, <1>14, <1>15, <1>16, <1>17, <1>18, <1>19, <1>20,
     <1>21, <1>22 DEF M!Next, MP!Next

\* The same of Billing.
LEMMA SameBillingAtFirst == B!Init => BP!Init
BY DEF B!Init, BP!Init, B!Subscriptions, BP!Subscriptions, B!Invoice, BP!Invoice, B!Idle, BP!Idle

\* Its steps, too.
LEMMA SameBilling == B!Next => BP!Next
<1> USE DEF B!Subscriptions, BP!Subscriptions,
            B!Invoice, BP!Invoice,
            B!Ids, BP!Ids,
            B!Checkout, BP!Checkout,
            B!Paid, BP!Paid,
            B!Ended, BP!Ended,
            B!SubOf, BP!SubOf,
            B!Idle, BP!Idle,
            B!Busy, BP!Busy,
            B!Issued, BP!Issued,
            B!Cardinality, BP!Cardinality,
            B!tables, BP!tables,
            B!external, BP!external,
            B!history, BP!history,
            B!Starts, BP!Starts,
            B!GoTo, BP!GoTo,
            B!Fails, BP!Fails
<1>1. ASSUME NEW x, B!PaymentLink(x) PROVE BP!PaymentLink(x)
  BY <1>1 DEF B!PaymentLink, BP!PaymentLink
<1>2. ASSUME NEW x, B!Cancel(x) PROVE BP!Cancel(x)
  BY <1>2 DEF B!Cancel, BP!Cancel
<1>3. ASSUME NEW s, B!Renew(s) PROVE BP!Renew(s)
  BY <1>3 DEF B!Renew, BP!Renew
<1>4. ASSUME NEW s, B!Lapse(s) PROVE BP!Lapse(s)
  BY <1>4 DEF B!Lapse, BP!Lapse
<1>5. ASSUME NEW s, NEW x, B!Pay(s, x) PROVE BP!Pay(s, x)
  BY <1>5 DEF B!Pay, BP!Pay
<1>6. ASSUME NEW h, NEW r, NEW x, B!UpdatePlan(h, r, x) PROVE BP!UpdatePlan(h, r, x)
  BY <1>6 DEF B!UpdatePlan, BP!UpdatePlan
<1>7. ASSUME NEW h, NEW e, B!Deliver(h, e) PROVE BP!Deliver(h, e)
  BY <1>7 DEF B!Deliver, BP!Deliver
<1>8. ASSUME NEW h, B!WritePlan(h) PROVE BP!WritePlan(h)
  BY <1>8 DEF B!WritePlan, BP!WritePlan
<1>9. ASSUME NEW h, B!FindExisting(h) PROVE BP!FindExisting(h)
  BY <1>9 DEF B!FindExisting, BP!FindExisting
<1>10. ASSUME NEW h, B!DeleteExisting(h) PROVE BP!DeleteExisting(h)
  BY <1>10 DEF B!DeleteExisting, BP!DeleteExisting
<1>11. ASSUME NEW h, B!InsertSubscription(h) PROVE BP!InsertSubscription(h)
  BY <1>11 DEF B!InsertSubscription, BP!InsertSubscription
<1>12. ASSUME NEW h, B!FindOrganization(h) PROVE BP!FindOrganization(h)
  BY <1>12 DEF B!FindOrganization, BP!FindOrganization
<1>13. ASSUME NEW h, B!InvoiceExists(h) PROVE BP!InvoiceExists(h)
  BY <1>13 DEF B!InvoiceExists, BP!InvoiceExists
<1>14. ASSUME NEW h, B!CreateInvoice(h) PROVE BP!CreateInvoice(h)
  BY <1>14 DEF B!CreateInvoice, BP!CreateInvoice
<1>15. ASSUME NEW h, B!SetPeriodEnd(h) PROVE BP!SetPeriodEnd(h)
  BY <1>15 DEF B!SetPeriodEnd, BP!SetPeriodEnd
<1>16. ASSUME NEW h, B!Reply(h) PROVE BP!Reply(h)
  BY <1>16 DEF B!Reply, BP!Reply
<1>17. ASSUME NEW h, B!Dies(h) PROVE BP!Dies(h)
  BY <1>17 DEF B!Dies, BP!Dies
<1>18. ASSUME NEW e, B!Skip(e) PROVE BP!Skip(e)
  BY <1>18 DEF B!Skip, BP!Skip
<1> QED
  BY <1>1, <1>2, <1>3, <1>4, <1>5, <1>6, <1>7, <1>8, <1>9, <1>10, <1>11, <1>12, <1>13, <1>14, <1>15, <1>16, <1>17, <1>18
  DEF B!Next, BP!Next

--------------------------------------------------------------------------------

\* Every step leaves the focus, and belongs to the component in focus or leaves it alone.
LEMMA StepOfOne ==
  ASSUME [Next]_allVars
  PROVE  /\ focus' = focus
         /\ F!Next \/ UNCHANGED fileVars
         /\ C!Next \/ UNCHANGED topicVars
         /\ M!Next \/ UNCHANGED memberVars
         /\ B!Next \/ UNCHANGED billingVars
         /\ G!Next \/ UNCHANGED groupVars
         /\ U!Next \/ UNCHANGED batchVars
         /\ Q!Next \/ UNCHANGED filterVars
         /\ S!Next \/ UNCHANGED searchVars
BY DEF Next, allVars, Groups_Next, Files_Next, Topics_Next, Members_Next, Billing_Next, Search_Next,
       Filters_Next, Batches_Next

\* The invariant of the file uploads holds at first, if they are in focus, ...
LEMMA FilesInitially == Init => FilesInv
<1> SUFFICES ASSUME Init, focus = "files" PROVE FP!IInv
  BY DEF FilesInv
<1>1. F!Init
  BY DEF Init
<1>2. FP!Init
  BY <1>1, SameFilesAtFirst
<1> QED
  BY <1>2, SameAssumptions, FP!InitInvariant

\* ... and no step breaks it: other components cannot, and F's steps are FP's.
LEMMA FilesStep == FilesInv /\ [Next]_allVars => FilesInv'
<1> SUFFICES ASSUME FilesInv, [Next]_allVars, focus = "files", focus' = focus PROVE FP!IInv'
  BY StepOfOne DEF FilesInv
<1>1. FP!Next \/ UNCHANGED FP!vars
  BY StepOfOne, SameFiles DEF fileVars, FP!vars
<1>2. FP!IInv
  BY DEF FilesInv
<1> QED
  BY <1>1, <1>2, SameAssumptions, FP!StepInvariant

\* So does that of the conversations, ...
LEMMA TopicsInitially == Init => TopicsInv
<1> SUFFICES ASSUME Init, focus = "topics" PROVE CP!IInv
  BY DEF TopicsInv
<1>1. C!Init
  BY DEF Init
<1>2. CP!Init
  BY <1>1, SameTopicsAtFirst
<1> QED
  BY <1>2, SameAssumptions, CP!InitInvariant

\* ... and it is kept.
LEMMA TopicsStep == TopicsInv /\ [Next]_allVars => TopicsInv'
<1> SUFFICES ASSUME TopicsInv, [Next]_allVars, focus = "topics", focus' = focus PROVE CP!IInv'
  BY StepOfOne DEF TopicsInv
<1>1. CP!Next \/ UNCHANGED CP!vars
  BY StepOfOne, SameTopics DEF topicVars, CP!vars
<1>2. CP!IInv
  BY DEF TopicsInv
<1> QED
  BY <1>1, <1>2, SameAssumptions, CP!StepInvariant

\* So does that of the memberships, ...
LEMMA MembersInitially == Init => MembersInv
<1> SUFFICES ASSUME Init, focus = "members" PROVE MP!IInv
  BY DEF MembersInv
<1>1. M!Init
  BY DEF Init
<1>2. MP!Init
  BY <1>1, SameMembersAtFirst
<1> QED
  BY <1>2, SameAssumptions, MP!InitInvariant

\* ... and it is kept.
LEMMA MembersStep == MembersInv /\ [Next]_allVars => MembersInv'
<1> SUFFICES ASSUME MembersInv, [Next]_allVars, focus = "members", focus' = focus PROVE MP!IInv'
  BY StepOfOne DEF MembersInv
<1>1. MP!Next \/ UNCHANGED MP!vars
  BY StepOfOne, SameMembers DEF memberVars, MP!vars
<1>2. MP!IInv
  BY DEF MembersInv
<1> QED
  BY <1>1, <1>2, SameAssumptions, MP!StepInvariant

\* So does that of the subscriptions, ...
LEMMA BillingInitially == Init => BillingInv
<1> SUFFICES ASSUME Init, focus = "billing" PROVE BP!IInv
  BY DEF BillingInv
<1>1. B!Init
  BY DEF Init
<1>2. BP!Init
  BY <1>1, SameBillingAtFirst
<1> QED
  BY <1>2, SameAssumptions, BP!InitInvariant

\* ... and it is kept.
LEMMA BillingStep == BillingInv /\ [Next]_allVars => BillingInv'
<1> SUFFICES ASSUME BillingInv, [Next]_allVars, focus = "billing", focus' = focus PROVE BP!IInv'
  BY StepOfOne DEF BillingInv
<1>1. BP!Next \/ UNCHANGED BP!vars
  BY StepOfOne, SameBilling DEF billingVars, BP!vars, BP!tables, BP!external, BP!history
<1>2. BP!IInv
  BY DEF BillingInv
<1> QED
  BY <1>1, <1>2, SameAssumptions, BP!StepInvariant

(* The segments of a file that no client deleted are queued in order, each of them  *)
(* once, and all of them by the time its message is acknowledged, however often     *)
(* attempts fail (file-worker.rs, file_operator.rs).                                *)
THEOREM SegmentsPushedOnce == Spec => []SegmentsOnce
<1>1. FilesInv => SegmentsOnce
  BY DEF FilesInv, SegmentsOnce, FP!IInv, FP!SegmentsOnce, F!SegmentsOnce
<1> QED
  BY FilesInitially, FilesStep, <1>1, PTL DEF Spec, allVars

(* The live messages of a conversation fit together, as long as no message was      *)
(* stored on a read that was overtaken (message_handler.rs, message_operator.rs).   *)
THEOREM ConversationsHoldTogether == Spec => []HistoryHoldsTogether
<1>1. TopicsInv => HistoryHoldsTogether
  <2> SUFFICES ASSUME CP!IInv PROVE C!HistoryHoldsTogether
    BY DEF TopicsInv, HistoryHoldsTogether
  <2>1. CP!HistoryHoldsTogether
    BY SameAssumptions, CP!History DEF CP!IInv
  <2> QED
    BY <2>1 DEF C!HistoryHoldsTogether, CP!HistoryHoldsTogether, C!Live, CP!Live, C!Cardinality, CP!Cardinality,
                C!InPosition, CP!InPosition, C!Before, CP!Before
<1> QED
  BY TopicsInitially, TopicsStep, <1>1, PTL DEF Spec, allVars

(* A session in Redis shows the memberships in Postgres, except for the users in    *)
(* `lapsed` and while the deletion of its key is due (auth_handler.rs,              *)
(* user_operator.rs).                                                               *)
THEOREM SessionsFollowPostgres == Spec => []SessionsAreCurrent
<1>1. MembersInv => SessionsAreCurrent
  BY DEF MembersInv, SessionsAreCurrent, MP!IInv, MP!SessionsAreCurrent, M!SessionsAreCurrent,
         MP!View, M!View, MP!Stands, M!Stands, MP!MembersOf, M!MembersOf
<1> QED
  BY MembersInitially, MembersStep, <1>1, PTL DEF Spec, allVars

(* An invitation makes one membership, unless two logins took it together           *)
(* (invitation_operator.rs, user_operator.rs).                                      *)
THEOREM InvitationsAdmitOnce == Spec => []InvitationAdmitsOnce
<1>1. MembersInv => InvitationAdmitsOnce
  BY DEF MembersInv, InvitationAdmitsOnce, MP!IInv, MP!OnceInv, MP!OnceAt, M!InvitationAdmitsOnce
<1> QED
  BY MembersInitially, MembersStep, <1>1, PTL DEF Spec, allVars

(* The tables follow Stripe, as far as its requests ran one at a time and were not  *)
(* cut short (stripe_handler.rs, stripe_operator.rs).                               *)
THEOREM TablesFollowStripe == Spec => []BillingFollowsStripe
<1>1. BillingInv => BillingFollowsStripe
  BY DEF BillingInv, BillingFollowsStripe, BP!IInv, BP!BillingFollowsStripe, B!BillingFollowsStripe,
         BP!Acknowledged, B!Acknowledged, BP!Subscriptions, B!Subscriptions, BP!Checkout, B!Checkout,
         BP!Invoice, B!Invoice, BP!Busy, B!Busy, BP!Idle, B!Idle, BP!Cardinality, B!Cardinality
<1> QED
  BY BillingInitially, BillingStep, <1>1, PTL DEF Spec, allVars

--------------------------------------------------------------------------------
(* The invariants of the four components that are proved here, in MCServices. *)

GroupsInv == focus = "groups" => GroupsIInv
BatchesInv == focus = "batches" => BatchIInv
FiltersInv == focus = "filters" => FilterIInv /\ Q!TypeOK
SearchInv == focus = "search" => SearchIInv

\* That of the groups holds at first, if they are in focus, ...
LEMMA GroupsInitially == Init => GroupsInv
BY GroupsInit DEF Init, GroupsInv

\* ... and no step breaks it.
LEMMA GroupsStep == GroupsInv /\ [Next]_allVars => GroupsInv'
<1> SUFFICES ASSUME GroupsInv, [Next]_allVars, focus = "groups", focus' = focus PROVE GroupsIInv'
  BY StepOfOne DEF GroupsInv
<1>1. G!Next \/ UNCHANGED G!vars
  BY StepOfOne DEF groupVars, G!vars
<1> QED
  BY <1>1, GroupsInvariant DEF GroupsInv

\* So does that of the batches, ...
LEMMA BatchesInitially == Init => BatchesInv
BY BatchInit DEF Init, BatchesInv

\* ... and it is kept.
LEMMA BatchesStep == BatchesInv /\ [Next]_allVars => BatchesInv'
<1> SUFFICES ASSUME BatchesInv, [Next]_allVars, focus = "batches", focus' = focus PROVE BatchIInv'
  BY StepOfOne DEF BatchesInv
<1>1. U!Next \/ UNCHANGED U!vars
  BY StepOfOne DEF batchVars, U!vars
<1> QED
  BY <1>1, BatchInvariant DEF BatchesInv

\* So does that of the filters, ...
LEMMA FiltersInitially == Init => FiltersInv
BY FilterInit, FilterTypesAtFirst DEF Init, FiltersInv

\* ... and it is kept.
LEMMA FiltersStep == FiltersInv /\ [Next]_allVars => FiltersInv'
<1> SUFFICES ASSUME FiltersInv, [Next]_allVars, focus = "filters", focus' = focus PROVE FilterIInv' /\ Q!TypeOK'
  BY StepOfOne DEF FiltersInv
<1>1. Q!Next \/ UNCHANGED Q!vars
  BY StepOfOne DEF filterVars, Q!vars
<1> QED
  BY <1>1, FilterInvariant, FilterTypes DEF FiltersInv

\* So does that of the searches, ...
LEMMA SearchInitially == Init => SearchInv
BY SearchInit DEF Init, SearchInv

\* ... and it is kept.
LEMMA SearchKept == SearchInv /\ [Next]_allVars => SearchInv'
<1> SUFFICES ASSUME SearchInv, [Next]_allVars, focus = "search", focus' = focus PROVE SearchIInv'
  BY StepOfOne DEF SearchInv
<1>1. [S!Next]_searchVars
  BY StepOfOne
<1> QED
  BY <1>1, SearchStep DEF SearchInv

(* Between requests, a chunk that no two actors worked on at once and whose calls   *)
(* did not fail has its own payload in Qdrant, with the groups its bookmark rows    *)
(* name; a chunk without row has no point (group_handler.rs, qdrant_operator.rs).   *)
THEOREM BookmarksAndPointsAgree == Spec => []StoresAgree
<1>1. GroupsInv => StoresAgree
  BY AgreementLemma DEF GroupsInv, StoresAgree
<1> QED
  BY GroupsInitially, GroupsStep, <1>1, PTL DEF Spec, allVars

(* When the grupdate worker has done with a message, every undisturbed chunk of the *)
(* group has the new tags and none of the old ones that are not new, over all pages *)
(* (group_operator.rs, grupdate-worker.rs).                                         *)
THEOREM TagsAreReplaced == Spec => TagsReplaced
<1>1. GroupsInv => (focus = "groups" => G!ReplacesTags)
  BY ReplacementLemma DEF GroupsInv
<1>2. Spec => []GroupsInv
  BY GroupsInitially, GroupsStep, PTL DEF Spec, allVars
<1> QED
  BY <1>1, <1>2, PTL DEF TagsReplaced

(* find always has the row that retain saw, although the two compare differently    *)
(* for messages without a tracking id (chunk_operator.rs:608-623).                  *)
THEOREM RetainedAreFound == Spec => []RetainedIsFound
<1>1. BatchesInv => RetainedIsFound
  BY EveryKept DEF BatchesInv, RetainedIsFound
<1> QED
  BY BatchesInitially, BatchesStep, <1>1, PTL DEF Spec, allVars

(* The points of a batch that is done are those of the rows the insert returned,    *)
(* whatever the batch repeats or the table has (chunk_operator.rs,                  *)
(* ingestion-worker.rs).                                                            *)
THEOREM PointsOfReturnedRows == Spec => []ReturnedRowsGetPoints
<1>1. BatchesInv => ReturnedRowsGetPoints
  BY ReturnedAndPoints DEF BatchesInv, ReturnedRowsGetPoints
<1> QED
  BY BatchesInitially, BatchesStep, <1>1, PTL DEF Spec, allVars

(* An upsert is refused only after an attempt that left the row of a message        *)
(* without tracking id behind (chunk_operator.rs, ingestion-worker.rs).             *)
THEOREM RefusedForOwnRow == Spec => []RefusedOnlyByOwnRow
<1>1. BatchesInv => RefusedOnlyByOwnRow
  BY DEF BatchesInv, RefusedOnlyByOwnRow, BatchIInv
<1> QED
  BY BatchesInitially, BatchesStep, <1>1, PTL DEF Spec, allVars

(* The vectors of an upsert are zipped with the messages they were made from        *)
(* (ingestion-worker.rs).                                                           *)
THEOREM UpsertsGetOwnVectors == Spec => []UpsertVectorsMatch
<1>1. BatchesInv => UpsertVectorsMatch
  BY UpsertedVectors DEF BatchesInv, UpsertVectorsMatch
<1> QED
  BY BatchesInitially, BatchesStep, <1>1, PTL DEF Spec, allVars

(* The point of a chunk ends with the text of its row, which is that of the message *)
(* the point was made for, and in an upsert the vector was, too, if the batch       *)
(* repeats no tracking id (chunk_operator.rs:613-635, ingestion-worker.rs:711).     *)
THEOREM RowsMatchPoints == Spec => []RowMatchesPoint
<1>1. BatchesInv => RowMatchesPoint
  BY RowsAndPoints DEF BatchesInv, RowMatchesPoint
<1> QED
  BY BatchesInitially, BatchesStep, <1>1, PTL DEF Spec, allVars

(* Whichever list a condition stands in, and whether Postgres or Qdrant answers it, *)
(* a request for portable conditions selects what they mean (search_operator.rs,    *)
(* models.rs).                                                                      *)
THEOREM FiltersSelectWhatIsMeant == Spec => []SelectsWhatIsMeant
<1>1. FiltersInv => SelectsWhatIsMeant
  BY DEF FiltersInv, FilterIInv, ResultInv, SelectsWhatIsMeant
<1> QED
  BY FiltersInitially, FiltersStep, <1>1, PTL DEF Spec, allVars

(* A client that reads all the pages a search announces meets every chunk, every    *)
(* group or, scrolling, every chunk that matches, and of the first two none twice,  *)
(* whatever the page size, the sort options and the order of the later stage, as    *)
(* long as nothing changes and the limits cover what there is (qdrant_operator.rs,  *)
(* search_operator.rs).                                                             *)
THEOREM PagesPartitionResults == Spec => []PagesPartition
<1>1. SearchInv => PagesPartition
  BY PagesAreDone DEF SearchInv, PagesPartition
<1> QED
  BY SearchInitially, SearchKept, <1>1, PTL DEF Spec, allVars

(* Whatever is ingested and deleted between the calls of a search, its answer has no *)
(* chunk whose row was gone when it was asked for, and a first page lacks none of    *)
(* the best chunks that were there all the time (search_operator.rs).                *)
THEOREM AnswersStayCurrent == Spec => []AnswersAreCurrent
<1>1. SearchInv => AnswersAreCurrent
  <2> SUFFICES ASSUME SearchInv, focus = "search" PROVE S!AnswersAreCurrent
    BY DEF AnswersAreCurrent
  <2>1. AnswersIInv
    BY DEF SearchInv, SearchIInv
  <2>2. CASE OfChunks
    BY <2>1, <2>2 DEF AnswersIInv
  <2>3. CASE ~OfChunks
    BY <2>3 DEF OfChunks, S!AnswersAreCurrent
  <2> QED
    BY <2>2, <2>3
<1> QED
  BY SearchInitially, SearchKept, <1>1, PTL DEF Spec, allVars

--------------------------------------------------------------------------------
(* Types.                                                                   *)

Focused == focus \in {"groups", "files", "topics", "members", "billing", "search", "filters", "batches"}

\* The types that the other components' proofs keep are those of their instances.
LEMMA FilesTyped == FP!TypeOK => F!TypeOK
BY DEF FP!TypeOK, F!TypeOK, FP!Job, F!Job, FP!Rest, F!Rest

\* Those of the topics, ...
LEMMA TopicsTyped == CP!TypeOK => C!TypeOK
BY DEF CP!TypeOK, C!TypeOK, CP!Orders, C!Orders, CP!Histories, C!Histories, CP!Ids, C!Ids, CP!Steps, C!Steps

\* ... of the members ...
LEMMA MembersTyped == MP!TypeOK => M!TypeOK
BY DEF MP!TypeOK, M!TypeOK, MP!Rows, M!Rows, MP!Views, M!Views, MP!Roles, M!Roles, MP!User, M!User,
       MP!Owner, M!Owner

\* ... and of the subscriptions.
LEMMA BillingTyped == BP!TypeOK => B!TypeOK
<1>1. BP!Event = B!Event
  BY DEF BP!Event, B!Event, BP!Checkout, B!Checkout, BP!Paid, B!Paid, BP!Ended, B!Ended,
         BP!Subscriptions, B!Subscriptions, BP!Invoice, B!Invoice
<1>2. BP!Ids = B!Ids /\ BP!Row = B!Row
  BY DEF BP!Ids, B!Ids, BP!Row, B!Row, BP!Subscriptions, B!Subscriptions, BP!Cardinality, B!Cardinality
<1> QED
  BY <1>1, <1>2 DEF BP!TypeOK, B!TypeOK, BP!Subscriptions, B!Subscriptions, BP!Invoice, B!Invoice

(* The state of every component has its types, for every value of the constants:    *)
(* queues, rows, requests and pages hold what the code keeps in them, and no count  *)
(* leaves its range.                                                                *)
THEOREM TypeCorrect == Spec => []TypeOK
<1>1. Init => Focused
  BY DEF Init, Focused
<1>2. Focused /\ [Next]_allVars => Focused'
  BY StepOfOne DEF Focused
<1>3. /\ Focused /\ GroupsInv /\ FilesInv /\ TopicsInv /\ MembersInv /\ BillingInv
      /\ SearchInv /\ FiltersInv /\ BatchesInv
      => TypeOK
  <2> SUFFICES ASSUME Focused, GroupsInv, FilesInv, TopicsInv, MembersInv, BillingInv,
                      SearchInv, FiltersInv, BatchesInv
               PROVE  TypeOK
    OBVIOUS
  <2>1. focus = "groups" => G!TypeOK
    BY DEF GroupsInv, GroupsIInv
  <2>2. focus = "files" => F!TypeOK
    BY FilesTyped DEF FilesInv, FP!IInv
  <2>3. focus = "topics" => C!TypeOK
    BY SameAssumptions, CP!InvariantTypes, TopicsTyped DEF TopicsInv
  <2>4. focus = "members" => M!TypeOK
    BY MembersTyped DEF MembersInv, MP!IInv
  <2>5. focus = "billing" => B!TypeOK
    BY BillingTyped DEF BillingInv, BP!IInv
  <2>6. focus = "search" => S!TypeOK
    BY DEF SearchInv, SearchIInv, SearchTypeInv
  <2>7. focus = "filters" => Q!TypeOK
    BY DEF FiltersInv
  <2>8. focus = "batches" => U!TypeOK
    BY DEF BatchesInv, BatchIInv
  <2> QED
    BY <2>1, <2>2, <2>3, <2>4, <2>5, <2>6, <2>7, <2>8 DEF Focused, TypeOK
<1>4. Spec => []Focused
  BY <1>1, <1>2, PTL DEF Spec, allVars
<1>5. Spec => []GroupsInv /\ []BatchesInv /\ []FiltersInv /\ []SearchInv
  BY GroupsInitially, GroupsStep, BatchesInitially, BatchesStep, FiltersInitially, FiltersStep,
     SearchInitially, SearchKept, PTL DEF Spec, allVars
<1>6. Spec => []FilesInv /\ []TopicsInv /\ []MembersInv /\ []BillingInv
  BY FilesInitially, FilesStep, TopicsInitially, TopicsStep, MembersInitially, MembersStep,
     BillingInitially, BillingStep, PTL DEF Spec, allVars
<1> QED
  BY <1>3, <1>4, <1>5, <1>6, PTL
================================================================================
