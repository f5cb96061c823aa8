--------------------------------- MODULE Search ---------------------------------
(***************************************************************************)
(* A search asks Qdrant for points, then Postgres for their rows, then puts *)
(* what it found in order, while chunks are ingested (row, then point) and  *)
(* deleted (row, then point).  One client reads the pages of one search,    *)
(* one after the other.                                                     *)
(*                                                                          *)
(* Scores are abstracted to orders over the chunks: that of the dense       *)
(* vectors is the order of the ids; that of the sparse vectors, that of the *)
(* cross encoder and the one the sort options ask for (a field, a rerank by *)
(* another search, weights) are any.  No score_threshold is given: it is a  *)
(* bound on scores, which are not there.                                    *)
(***************************************************************************)
EXTENDS Naturals, Sequences, FiniteSets, SequencesExt, FiniteSetsExt

CONSTANTS LastChunk,  \* chunk ids are 1 .. LastChunk, the best dense match first
          Groups,     \* chunk groups
          Kinds,      \* the searches to ask for
          PageSize,   \* page_size
          Prefetch,   \* prefetch_amount of the sort options
          Window,     \* results the cross encoder is given at most, 20 in the code
          MaxLimit,   \* MAX_LIMIT of the dataset: what is counted at most
          GroupSize,  \* group_size
          MaxChanges, \* bound on the steps of ingestions and deletions
          MaxPages,   \* bound on the pages that are read
          None

SearchAssumption ==
  /\ IsFiniteSet(Groups) /\ (Kinds \cap {"within", "hybrid_within", "recommend_groups"} # {} => Groups # {})
  /\ {LastChunk, MaxLimit, MaxChanges, MaxPages} \subseteq Nat
  /\ {PageSize, Prefetch, Window, GroupSize} \subseteq Nat \ {0}
  /\ Kinds \subseteq {"chunks", "hybrid", "autocomplete", "extended", "within", "hybrid_within",
                      "groups", "hybrid_groups", "recommend", "recommend_groups", "scroll"}

Chunks == 1 .. LastChunk
Dense  == [i \in Chunks |-> i]

VARIABLES status,   \* of a chunk: new, row, whole (row and point), orphan (point), gone
          sparse,   \* the chunks in the order of their sparse scores
          later,    \* the chunks in the order the sort options ask for
          encoded,  \* the chunks in the order of the cross encoder's scores
          member,   \* group_ids of the points
          ask,      \* the search request
          at,       \* what it waits for
          page,     \* the page asked for
          hits,     \* points Qdrant returned; for searches over groups, [group, hits] records
          first,    \* batch_lengths[0]
          counted,  \* points Qdrant counted, or None
          pages,    \* the answers so far
          steady,   \* chunks that were whole ever since the page was asked for
          hidden,   \* chunks whose row was gone before the page was asked for
          changes, changed  \* steps of ingestions and deletions; those since the first page

vars == <<status, sparse, later, encoded, member, ask, at, page, hits, first, counted, pages, steady,
          hidden, changes, changed>>

Completes == {"autocomplete", "extended"}
Withins   == {"within", "hybrid_within"}
Hybrids   == {"hybrid", "hybrid_within", "hybrid_groups"}
OfGroups  == {"groups", "hybrid_groups", "recommend_groups"}
Orders    == {o \in [Chunks -> Chunks] : Range(o) = Chunks}
Extremes  == {Dense, Reverse(Dense)}
Requests ==
  [kind : Kinds, sort : {"none", "field", "rerank", "cross"}, boosted : BOOLEAN, of : Chunks \cup Groups \cup {None}]

\* sort_options: a field, a rerank by another search, the cross encoder.  That one
\* is asked for in two searches only; the others pass it on to nothing.
ByQdrant == {"field", "rerank"}
Sensible(r) ==
  /\ r.sort = "cross" => r.kind \in {"chunks", "within"}
  /\ r.sort # "none" \/ r.boosted => r.kind \in Completes \cup Withins \cup {"chunks", "hybrid"}
  /\ r.sort # "none" => ~r.boosted
  /\ r.of \in IF r.kind \in Withins \cup {"recommend_groups"} THEN {CHOOSE g \in Groups : TRUE}
              ELSE IF r.kind = "recommend" THEN Chunks ELSE {None}

TypeOK ==
  /\ status \in [Chunks -> {"new", "row", "whole", "orphan", "gone"}]
  /\ {sparse, later, encoded} \subseteq Orders /\ member \in [Chunks -> SUBSET Groups]
  /\ ask \in Requests /\ at \in {"ask", "ids", "query", "rows", "done"}
  /\ page \in 0 .. MaxPages /\ first \in 0 .. LastChunk
  /\ hits \in IF ask.kind \in OfGroups /\ at # "query" THEN Seq([group : Groups, hits : Seq(Chunks)]) ELSE Seq(Chunks)
  /\ counted = None \/ counted \in 0 .. MaxLimit
  /\ pages \in Seq([is : {"found", "error", "panic"}, list : Seq(IF ask.kind \in OfGroups THEN Groups ELSE Chunks)])
  /\ steady \subseteq Chunks /\ hidden \subseteq Chunks
  /\ changes \in 0 .. MaxChanges /\ changed \in 0 .. MaxChanges

\* Orders a request has no use for are that of the ids.
Plain == ask.sort = "none" /\ ~ask.boosted
Init ==
  /\ status \in [Chunks -> {"new", "whole"}]
  /\ ask \in {r \in Requests : Sensible(r)}
  /\ sparse \in IF Plain /\ ask.kind = "hybrid" THEN Orders ELSE IF ask.kind \in Hybrids THEN Extremes ELSE {Dense}
  /\ encoded \in IF ask.sort = "cross" \/ (Plain /\ ask.kind = "hybrid") THEN Orders
                 ELSE IF ask.kind \in Hybrids THEN Extremes ELSE {Dense}
  /\ later \in IF Plain \/ ask.sort = "cross" THEN {Dense}
               ELSE IF ask.kind \in {"chunks", "hybrid"} THEN Orders ELSE Extremes
  /\ member \in IF ask.kind \in Withins THEN [Chunks -> {{}, {ask.of}}]
                ELSE IF ask.kind \in OfGroups THEN [Chunks -> SUBSET Groups \ {{}}]
                ELSE {[c \in Chunks |-> {}]}
  /\ at = "ask" /\ page = 0 /\ hits = << >> /\ first = 0 /\ counted = None /\ pages = << >>
  /\ steady = {} /\ hidden = {} /\ changes = 0 /\ changed = 0

--------------------------------------------------------------------------------
(* The stores.                                                              *)

Rows   == {c \in Chunks : status[c] \in {"row", "whole"}}
Points == {c \in Chunks : status[c] \in {"whole", "orphan"}}
After  == [new |-> "row", row |-> "whole", whole |-> "orphan", orphan |-> "gone"]

\* An ingestion or a deletion takes its next step.
Change(c) ==
  /\ changes < MaxChanges /\ status[c] # "gone" /\ at # "done"
  /\ status' = [status EXCEPT ![c] = After[@]]
  /\ steady' = steady \ {c}
  /\ changes' = changes + 1 /\ changed' = IF page = 0 THEN changed ELSE changed + 1
  /\ UNCHANGED <<sparse, later, encoded, member, ask, at, page, hits, first, counted, pages, hidden>>

--------------------------------------------------------------------------------
(* Lists.  A part of a list is known by the places it keeps.                *)

\* The elements at places P, in their order.
Sublist(s, P) == [k \in 1 .. Cardinality(P) |-> s[CHOOSE i \in P : Cardinality({j \in P : j < i}) = k - 1]]

\* The elements that are in S; the first n from an offset on; each of them once.
InOrder(s, S)       == Sublist(s, {i \in DOMAIN s : s[i] \in S})
Slice(s, offset, n) == SubSeq(s, offset + 1, IF offset + n < Len(s) THEN offset + n ELSE Len(s))
Unique(s)           == Sublist(s, {i \in DOMAIN s : \A j \in 1 .. i - 1 : s[j] # s[i]})

\* The elements of a set in an order, which is a set of pairs.
Sorted(S, order) ==
  [k \in 1 .. Cardinality(S) |-> CHOOSE x \in S : Cardinality({y \in S : <<y, x>> \in order}) = k - 1]

--------------------------------------------------------------------------------
(* Qdrant.                                                                  *)

\* into_qdrant_query: the vector, what it is restricted to, and whether the
\* sort options make Qdrant order a prefetch of it.
Query(order, within, sort) == [order |-> order, within |-> within, prefetch |-> sort \in ByQdrant]

Members(g) == {c \in Chunks : g \in member[c]}

\* The words of an autocomplete query occur in the chunks with an odd id.
Matching == {c \in Chunks : c % 2 = 1}

\* The queries of a request; "extended" is an autocomplete with extend_results.
\* search_groups_query passes no group id.
Queries(r) ==
  CASE r.kind \in {"chunks", "within"} -> <<Query(Dense, Chunks, r.sort)>>
    [] r.kind = "hybrid" -> <<Query(Dense, Chunks, r.sort), Query(sparse, Chunks, r.sort)>>
    [] r.kind = "hybrid_within" -> <<Query(Dense, Members(r.of), r.sort), Query(sparse, Members(r.of), r.sort)>>
    [] r.kind = "autocomplete" -> <<Query(Dense, Matching, r.sort)>>
    [] r.kind = "extended" -> <<Query(Dense, Matching, r.sort), Query(Dense, Chunks, r.sort)>>

\* get_prefetch_query: the later order, over the best of the first one.
Ordered(q, offset) ==
  LET found == InOrder(q.order, Points \cap q.within)
      best  == Slice(found, 0, Prefetch * (1 + offset \div Prefetch))
  IN IF q.prefetch THEN InOrder(later, Range(best)) ELSE found

\* Mutant: pages are counted from zero.
OffsetFromZero(p) == PageSize * p

\* search_qdrant_query, for page p.
Offset(p) == PageSize * (p - 1)
Search(q, p) == Slice(Ordered(q, Offset(p)), Offset(p), PageSize)

\* search_over_groups_query: the groups in the order of their best points, those
\* of one point in an order that is fixed.
Names(cs)      == UNION {member[c] : c \in cs}
Best(found, g) == Min({i \in DOMAIN found : g \in member[found[i]]})
Ties           == SetToSeq(Groups)
Tie(g)         == CHOOSE t \in DOMAIN Ties : Ties[t] = g
Before(found, g, h) ==
  Best(found, g) < Best(found, h) \/ (Best(found, g) = Best(found, h) /\ Tie(g) < Tie(h))

GroupsOf(order, from) ==
  LET found == InOrder(order, from)
      named == Sorted(Names(from), {p \in Names(from) \X Names(from) : Before(found, p[1], p[2])})
  IN [k \in DOMAIN named |->
        [group |-> named[k], hits |-> Slice(InOrder(order, from \cap Members(named[k])), 0, GroupSize)]]

SearchGroups(order, p) ==
  LET all == Slice(GroupsOf(order, Points), 0, PageSize * p) IN Slice(all, Offset(p), PageSize)

\* hybrid_search_over_groups: zip, then unique_by the group.
ZipGroups(xs, ys) ==
  LET zipped == [k \in 1 .. 2 * Min({Len(xs), Len(ys)}) |-> IF k % 2 = 1 THEN xs[(k + 1) \div 2] ELSE ys[k \div 2]]
  IN Sublist(zipped, {i \in DOMAIN zipped : \A j \in 1 .. i - 1 : zipped[j].group # zipped[i].group})

\* count_qdrant_query: the most that a query of the batch finds.
Counted(r) ==
  LET found == IF r.kind \in OfGroups THEN {Cardinality(Points)}
               ELSE {Cardinality(Points \cap q.within) : q \in Range(Queries(r))}
  IN Min({MaxLimit, Max(found)})

--------------------------------------------------------------------------------
(* What is done with the chunks that have a row.                            *)

\* The place of a chunk in an order.
Position(order, c) == CHOOSE i \in Chunks : order[i] = c

\* cross_encoder: sort by its scores, truncate to a page.
CrossEncoder(cs) == Slice(InOrder(encoded, Range(cs)), 0, PageSize)

\* rerank_chunks: weights change the scores, a sort field comes last.
Rerank(r, cs) == IF r.boosted \/ r.sort = "field" THEN InOrder(later, Range(cs)) ELSE cs

SearchChunks(r, found) == Rerank(r, IF r.sort = "cross" THEN CrossEncoder(found) ELSE found)

SearchHybrid(r, found) == Slice(Rerank(r, CrossEncoder(found)), 0, PageSize)

\* Of more than Window results the first Window are encoded and the next
\* Window follow as they are.
SearchHybridGroup(r, found) ==
  IF Len(found) > Window
  THEN Rerank(r, CrossEncoder(Slice(found, 0, Window))) \o Slice(found, Window, Window)
  ELSE Rerank(r, CrossEncoder(found))

\* split_at with the length the first batch had before the rows were read.
Autocomplete(r, found) ==
  Rerank(r, Slice(found, 0, first)) \o Rerank(r, Slice(found, first, Len(found)))

\* retrieve_chunks_for_groups and get_metadata_from_groups.
WithRows(gs) == [i \in DOMAIN gs |-> [gs[i] EXCEPT !.hits = InOrder(@, Rows)]]
NamesOf(gs)  == [i \in DOMAIN gs |-> gs[i].group]

\* cross_encoder_for_groups encodes the first chunk of each group and gives
\* the score to the first group that has the chunk; dedup_by drops neighbours.
EncodeGroups(gs) ==
  LET top(i)   == gs[i].hits[1]
      better   == {p \in (DOMAIN gs) \X (DOMAIN gs) :
                     \/ Position(encoded, top(p[1])) < Position(encoded, top(p[2]))
                     \/ top(p[1]) = top(p[2]) /\ p[1] < p[2]}
      tops     == [k \in DOMAIN gs |-> top(Sorted(DOMAIN gs, better)[k])]
      kept     == Slice(tops, 0, PageSize)
      owner(c) == gs[Min({i \in DOMAIN gs : c \in Range(gs[i].hits)})].group
      names    == [i \in DOMAIN kept |-> owner(kept[i])]
  IN Sublist(names, {i \in DOMAIN names : i = 1 \/ names[i - 1] # names[i]})

HybridGroups(gs) ==
  IF Len(gs) > Window
  THEN EncodeGroups(Slice(gs, 0, Window)) \o NamesOf(Slice(gs, Window, Window))
  ELSE EncodeGroups(gs)

--------------------------------------------------------------------------------
(* The requests.                                                            *)

Recommends == {"recommend", "recommend_groups"}
Counts     == ask.kind \notin Recommends \cup Completes \cup {"scroll"}

\* The next page, until the pages the answers announced have been read.
Ask ==
  /\ at = "ask" /\ page < MaxPages
  /\ page' = page + 1
  /\ at' = IF ask.kind \in Recommends \cup {"scroll"} THEN "ids" ELSE "query"
  /\ hits' = << >> /\ counted' = None
  /\ steady' = {c \in Chunks : status[c] = "whole"}
  /\ hidden' = {c \in Chunks : status[c] \in {"orphan", "gone"}}
  /\ UNCHANGED <<status, sparse, later, encoded, member, ask, first, pages, changes, changed>>

Answer(is, list, next) == pages' = Append(pages, [is |-> is, list |-> list]) /\ at' = next

\* The points of what a request names, as far as it has rows.
ChunkPointIds(c) == {c} \cap Rows
GroupPointIds(g) == Members(g) \cap Rows

\* Those points are looked up before Qdrant is asked; finding none is an error.
StartFrom(cs) ==
  /\ at = "ids"
  /\ IF cs = {} THEN Answer("error", << >>, "done") /\ hits' = << >>
     ELSE /\ hits' = InOrder(Dense, cs) /\ at' = "query" /\ UNCHANGED pages
  /\ UNCHANGED <<status, sparse, later, encoded, member, ask, page, first, counted, steady, hidden, changes, changed>>

GetRecommendedChunks == ask.kind = "recommend" /\ StartFrom(ChunkPointIds(ask.of))

GetRecommendedGroups == ask.kind = "recommend_groups" /\ StartFrom(GroupPointIds(ask.of))

\* A scroll starts anywhere, then from the last chunk of the page before.
ScrollChunks ==
  ask.kind = "scroll" /\ StartFrom(IF page = 1 THEN {1} ELSE ChunkPointIds(Last(pages[page - 1].list)))

\* count_qdrant_query and the search run side by side.
CountPoints ==
  /\ at \in {"query", "rows"} /\ counted = None /\ Counts
  /\ counted' = Counted(ask)
  /\ UNCHANGED <<status, sparse, later, encoded, member, ask, at, page, hits, first, pages, steady, hidden, changes, changed>>

QueryChunks ==
  LET batches == [i \in DOMAIN Queries(ask) |-> Search(Queries(ask)[i], page)]
      all     == IF Len(batches) = 1 THEN batches[1] ELSE batches[1] \o batches[2]
  IN
  /\ at = "query" /\ ask.kind \notin OfGroups \cup Recommends \cup {"scroll"}
  /\ hits' = Unique(all) /\ first' = Len(batches[1])
  /\ at' = "rows"
  /\ UNCHANGED <<status, sparse, later, encoded, member, ask, page, counted, pages, steady, hidden, changes, changed>>

\* The search_type decides: one query, or both zipped.
SearchOverGroups(p) ==
  IF ask.kind = "groups" THEN SearchGroups(Dense, p)
  ELSE ZipGroups(SearchGroups(Dense, p), SearchGroups(sparse, p))

QueryGroups ==
  /\ at = "query" /\ ask.kind \in {"groups", "hybrid_groups"}
  /\ hits' = SearchOverGroups(page)
  /\ at' = "rows"
  /\ UNCHANGED <<status, sparse, later, encoded, member, ask, page, first, counted, pages, steady, hidden, changes, changed>>

\* Qdrant knows no point by an id: an error.  What is recommended is none of
\* the chunks it is recommended for.
RecommendFrom(found) ==
  /\ at = "query"
  /\ IF Range(hits) \subseteq Points THEN hits' = found /\ at' = "rows" /\ UNCHANGED pages
     ELSE hits' = << >> /\ Answer("error", << >>, "done")
  /\ UNCHANGED <<status, sparse, later, encoded, member, ask, page, first, counted, steady, hidden, changes, changed>>

RecommendChunks ==
  ask.kind = "recommend" /\ RecommendFrom(Slice(InOrder(Dense, Points \ Range(hits)), 0, PageSize))

RecommendGroups ==
  /\ ask.kind = "recommend_groups"
  /\ RecommendFrom(Slice(GroupsOf(Dense, Points \ Range(hits)), 0, PageSize))

\* scroll_dataset_points, from the offset chunk on, that one included.
Scroll ==
  /\ at = "query" /\ ask.kind = "scroll"
  /\ hits' = Slice(InOrder(Dense, {c \in Points : c >= hits[1]}), 0, PageSize)
  /\ at' = "rows"
  /\ UNCHANGED <<status, sparse, later, encoded, member, ask, page, first, counted, pages, steady, hidden, changes, changed>>

\* Mutant: points without a row are answered from their payload.
FoundPoints == hits

\* retrieve_chunks_from_point_ids drops the points without a row.
Found == InOrder(hits, Rows)

SearchWithinGroup(found) ==
  IF ask.kind = "hybrid_within" THEN SearchHybridGroup(ask, found) ELSE SearchChunks(ask, found)

Result ==
  CASE ask.kind = "chunks" -> SearchChunks(ask, Found)
    [] ask.kind = "hybrid" -> SearchHybrid(ask, Found)
    [] ask.kind \in Withins -> SearchWithinGroup(Found)
    [] ask.kind \in Completes -> Autocomplete(ask, Found)
    [] ask.kind \in {"groups", "recommend_groups"} -> NamesOf(WithRows(hits))
    [] ask.kind = "hybrid_groups" -> HybridGroups(WithRows(hits))
    [] OTHER -> Found

\* split_at out of the list; expect() on the first chunk of a group without any.
Panics ==
  \/ ask.kind \in Completes /\ first > Len(Found)
  \/ /\ ask.kind = "hybrid_groups"
     /\ \E i \in DOMAIN hits : i <= Window /\ WithRows(hits)[i].hits = << >>

\* total_pages, rounded up.
TotalPages == (counted + PageSize - 1) \div PageSize

LastPage ==
  CASE ask.kind \in Recommends \cup Completes -> TRUE
    [] ask.kind = "scroll" -> Len(Result) <= 1
    [] OTHER -> page >= TotalPages

ReadRows ==
  /\ at = "rows" /\ (Counts => counted # None)
  /\ IF Panics THEN Answer("panic", << >>, "done")
     ELSE Answer("found", Result, IF LastPage THEN "done" ELSE "ask")
  /\ UNCHANGED <<status, sparse, later, encoded, member, ask, page, hits, first, counted, steady, hidden, changes, changed>>

Next ==
  \/ \E c \in Chunks : Change(c)
  \/ Ask \/ GetRecommendedChunks \/ GetRecommendedGroups \/ ScrollChunks \/ CountPoints
  \/ QueryChunks \/ QueryGroups \/ Scroll \/ RecommendChunks \/ RecommendGroups \/ ReadRows

Spec == Init /\ [][Next]_vars

--------------------------------------------------------------------------------
(* Properties.                                                              *)

\* What the pages show, and that they show nothing twice.
Seen    == UNION {Range(pages[i].list) : i \in DOMAIN pages}
MetOnce == \A i, k \in DOMAIN pages : \A a \in DOMAIN pages[i].list, b \in DOMAIN pages[k].list :
             pages[i].list[a] = pages[k].list[b] => i = k /\ a = b

\* A client that reads the pages a search announces meets every chunk that
\* matches, and meets it once: the offsets and the reordering within a page
\* neither lose nor repeat one.  It holds while nothing changes under the client
\* and the first prefetch and MAX_LIMIT cover what there is (a prefetch that has
\* to grow with the page sorts another set on each).  Pages of groups are counted in points, so there must not be more
\* groups than points; the pages of a scroll share a chunk.
PagesPartition ==
  LET whole == {c \in Chunks : status[c] = "whole"}
      names == Names(Points)
  IN at = "done" /\ changed = 0 /\ Cardinality(Points) <= Min({MaxLimit, Prefetch}) =>
       /\ ask.kind = "chunks" => Seen = whole /\ MetOnce
       /\ ask.kind = "groups" /\ Cardinality(names) <= Cardinality(Points) => Seen = names /\ MetOnce
       /\ ask.kind = "scroll" /\ Points = whole /\ PageSize > 1 => Seen = whole

\* The chunks that were whole since the page was asked for and that fewer than a
\* page of others may have been better than, in an order.
MayBeBetter(order, c) ==
  {d \in Chunks : Position(order, d) < Position(order, c) /\ status[d] \in {"whole", "orphan", "gone"}}
Expected(order) == {c \in steady : Cardinality(MayBeBetter(order, c)) < PageSize}

\* Whatever is ingested and deleted between the calls of a search, its answer
\* has no chunk whose row was gone when it was asked for, and the first page
\* has every chunk that was whole all the time and among the PageSize best of
\* the chunks that may have had a point: the best by the dense vectors, or by
\* the order the sort options ask for if the prefetch covers what there is.  A
\* hybrid search may prefer to one of the best dense matches only a full page of
\* chunks the cross encoder ranks before it; with sort options both of its
\* queries find the same page, so that the cross encoder drops none.
AnswersAreCurrent ==
  LET a == Last(pages).list
      preferred(c) == {d \in Range(a) : Position(encoded, d) < Position(encoded, c)}
  IN Len(pages) = page /\ page > 0 /\ ask.kind \notin OfGroups /\ Last(pages).is = "found" =>
       /\ Range(a) \cap hidden = {}
       /\ page = 1 /\ ask.kind \in {"chunks", "extended"} /\ ask.sort \in {"none", "cross"} =>
            Expected(Dense) \subseteq Range(a)
       /\ page = 1 /\ ask.kind \in {"chunks", "extended", "hybrid"} /\ ask.sort \in ByQdrant /\ LastChunk <= Prefetch =>
            Expected(later) \subseteq Range(a)
       /\ page = 1 /\ ask.kind = "hybrid" /\ ask.sort = "none" =>
            \A c \in Expected(Dense) : c \in Range(a) \/ Cardinality(preferred(c)) >= PageSize

\* "This route allows you to search only within a group" (group_handler.rs).
OnlyMembers ==
  ask.kind = "within" => \A i \in DOMAIN pages : Range(pages[i].list) \subseteq Members(ask.of)
================================================================================
