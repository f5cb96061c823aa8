------------------------------ MODULE ChunkFilters ------------------------------
(***************************************************************************)
(* A ChunkFilter becomes a Qdrant filter.  Conditions on metadata, on group *)
(* metadata and on group tags are answered by Postgres first and become a   *)
(* list of point ids; the others are left to Qdrant.  Meanwhile an update   *)
(* changes a chunk's row, then its point.                                   *)
(*                                                                          *)
(* A metadata value is a text or a number: "t1" is the text of number "n1". *)
(***************************************************************************)
EXTENDS Naturals, Sequences, FiniteSets, SequencesExt

CONSTANTS Own, Foreign, \* chunks of the dataset, chunks of another one
          Groups,       \* groups of the dataset
          Unknown,      \* a group tracking id that no group has
          None

Chunks == Own \cup Foreign
Texts  == {"a", "t1"}
Values == Texts \cup {"n1"}

FilterAssumption == Own \cap Foreign = {} /\ Unknown \notin Groups /\ None \notin Chunks \cup Values

VARIABLES row,      \* metadata of a chunk in Postgres
          payload,  \* metadata of a chunk in Qdrant
          inGroup,  \* the group a chunk is in, or None: bookmarks and group_ids
          tagSet,   \* tags of a group; group metadata is one of them
          filter,   \* the request: should, must, must_not, jsonb_prefilter
          plan,     \* the Qdrant filter, once assembled
          result,   \* what became of the request, and the chunks selected
          updated   \* the chunk that was updated meanwhile, or None

vars == <<row, payload, inGroup, tagSet, filter, plan, result, updated>>

Lists == {"should", "must", "must_not"}

\* A group has its own name for a tracking id.
Conditions ==
  [field : {"metadata"}, op : {"any", "all"}, vals : {<<v>> : v \in Values} \cup (Values \X Values)]
    \cup [field : {"metadata"}, op : {"range", "date_range"}, vals : {<<"n1">>}]
    \cup [field : {"group_tracking_ids"}, op : {"any", "all"},
          vals : {<<g>> : g \in Groups \cup {Unknown}} \cup (Groups \X (Groups \cup {Unknown}))]
    \cup [field : {"group_tag_set"}, op : {"any", "all"}, vals : {<<"a">>, <<"n1">>, <<"a", "n1">>}]
    \cup [field : {"group_metadata"}, op : {"any"}, vals : {<<"a">>}]
    \cup [field : {"has_id"}, op : {"any"}, vals : {<<c>> : c \in Chunks}]

TypeOK ==
  /\ row \in [Chunks -> Values \cup {None}] /\ payload \in [Chunks -> Values \cup {None}]
  /\ inGroup \in [Own -> Groups \cup {None}] /\ tagSet \in [Groups -> SUBSET Texts]
  /\ DOMAIN filter = Lists \cup {"prefilter"}
  /\ plan = None \/ \A l \in Lists : \A i \in DOMAIN plan[l] : plan[l][i].by \in {"ids", "match", "all", "range", "groups"}
  /\ result.is \in {"pending", "found", "error", "panic"} /\ result.chunks \subseteq Chunks
  /\ updated \in Chunks \cup {None}

\* One condition of any kind in one of the lists, a plain one in another.  What
\* the condition does not look at is fixed.
Init ==
  /\ \E l \in Lists, c \in Conditions, more \in BOOLEAN, pre \in BOOLEAN :
       LET plain == [field |-> "metadata", op |-> "any", vals |-> <<"a">>]
           byGroup == c.field \in {"group_tracking_ids", "group_tag_set", "group_metadata"}
       IN
       /\ filter = [should |-> IF l = "should" THEN <<c>> ELSE IF more THEN <<plain>> ELSE << >>,
                    must |-> IF l = "must" THEN <<c>> ELSE << >>,
                    must_not |-> IF l = "must_not" THEN <<c>> ELSE << >>,
                    prefilter |-> pre]
       /\ row \in IF byGroup THEN [Chunks -> {"a", None}]
                 ELSE {m \in [Chunks -> Values \cup {None}] : \A d \in Foreign : m[d] \in {"a", None}}
       /\ (l = "should" => ~more) /\ (c.field # "metadata" /\ ~more => pre)
       /\ inGroup \in IF byGroup THEN [Own -> Groups \cup {None}] ELSE {[d \in Own |-> None]}
       /\ tagSet \in IF c.field \in {"group_tag_set", "group_metadata"} THEN [Groups -> {{}, {"a"}, Texts}]
                    ELSE {[g \in Groups |-> {}]}
  /\ payload = row
  /\ plan = None /\ result = [is |-> "pending", chunks |-> {}] /\ updated = None

--------------------------------------------------------------------------------
(* Values.                                                                  *)

\* MatchCondition::to_string and to_i64.
AsText(v)   == IF v = "n1" THEN "t1" ELSE v
IsNumber(v) == v \in {"n1", "t1"}

\* Mutant: match_all is joined with OR.
MetadataIdsOfAny(cond) ==
  CASE cond.op \in {"any", "all"} -> {c \in Chunks : \E i \in DOMAIN cond.vals : row[c] = AsText(cond.vals[i])}
    [] cond.op = "range" -> {c \in Own : row[c] # None /\ IsNumber(row[c])}
    [] cond.op = "date_range" -> {c \in Own : row[c] = "a"}

\* get_metadata_filter_condition puts every value in quotes, so numbers of the
\* request are compared as texts.  A range casts what ->> gives to a float.
\* or_filter is not confined to the dataset; the filter of the points is.
InRow(c, v) == row[c] = AsText(v)

MetadataIds(cond) ==
  CASE cond.op = "any" -> {c \in Chunks : (c \in Own /\ InRow(c, cond.vals[1])) \/ \E i \in 2 .. Len(cond.vals) : InRow(c, cond.vals[i])}
    [] cond.op = "all" -> {c \in Own : \A i \in DOMAIN cond.vals : InRow(c, cond.vals[i])}
    [] cond.op = "range" -> {c \in Own : row[c] # None /\ IsNumber(row[c])}
    \* A lower bound, compared as text: letters sort after the digits of a time.
    [] cond.op = "date_range" -> {c \in Own : row[c] = "a"}

CastFails(cond) == cond.op = "range" /\ \E c \in Own : row[c] # None /\ ~IsNumber(row[c])

\* get_group_metadata_filter_condition looks the value up in the metadata of
\* the chunk, not of the group.
GroupMetadataIds(cond) == {c \in Own : InRow(c, cond.vals[1])}

\* Tags are texts.  The groups of the other dataset have every tag.
Tagged(c, v) == c \in Foreign \/ (inGroup[c] # None /\ AsText(v) \in tagSet[inGroup[c]])

\* get_group_tag_set_filter_condition, whose or_filter is not confined either.
GroupTagIds(cond) ==
  CASE cond.op = "any" -> {c \in Chunks : (c \in Own /\ Tagged(c, cond.vals[1])) \/ \E i \in 2 .. Len(cond.vals) : Tagged(c, cond.vals[i])}
    [] cond.op = "all" -> {c \in Own : \A i \in DOMAIN cond.vals : Tagged(c, cond.vals[i])}

--------------------------------------------------------------------------------
(* Conditions.                                                              *)

Ids(cs)         == [is |-> "ok", by |-> "ids", vals |-> cs]
Refuse(how)     == [is |-> how, by |-> "ids", vals |-> {}]

\* convert_group_tracking_ids_to_group_ids keeps the ids it finds.
Tracked(cond) == Range(cond.vals) \ {Unknown}

\* The last part of convert_to_qdrant_condition: the first value decides how
\* all of them are compared, and a text that is not a number panics.
Match(by, vals) ==
  IF vals[1] \in Texts THEN [is |-> "ok", by |-> by, vals |-> {AsText(vals[i]) : i \in DOMAIN vals}]
  ELSE IF \A i \in DOMAIN vals : IsNumber(vals[i]) THEN [is |-> "ok", by |-> by, vals |-> {"n1"}]
  ELSE Refuse("panic")

Convert(cond, prefilter) ==
  CASE cond.field = "has_id" -> Ids(Range(cond.vals))
    [] cond.field = "metadata" /\ prefilter ->
         IF CastFails(cond) THEN Refuse("error") ELSE Ids(MetadataIds(cond))
    [] cond.field = "metadata" /\ ~prefilter /\ cond.op \in {"range", "date_range"} ->
         [is |-> "ok", by |-> "range", vals |-> cond.vals]
    [] cond.field = "metadata" /\ ~prefilter /\ cond.op \in {"any", "all"} ->
         Match(IF cond.op = "any" THEN "match" ELSE "all", cond.vals)
    [] cond.field = "group_metadata" -> Ids(GroupMetadataIds(cond))
    [] cond.field = "group_tag_set" -> Ids(GroupTagIds(cond))
    [] cond.field = "group_tracking_ids" ->
         IF Tracked(cond) = {} THEN Refuse("error")
         ELSE [is |-> "ok", by |-> "groups", vals |-> Tracked(cond), op |-> cond.op]

--------------------------------------------------------------------------------
(* assemble_qdrant_filter, the search, and an update in between.            *)

Assemble ==
  LET made == [l \in Lists |-> [i \in DOMAIN filter[l] |-> Convert(filter[l][i], filter.prefilter)]]
      bad  == {how \in {"error", "panic"} : \E l \in Lists : \E i \in DOMAIN made[l] : made[l][i].is = how}
  IN
  /\ plan = None /\ result.is = "pending"
  /\ IF bad = {} THEN plan' = made /\ UNCHANGED result
     ELSE (\E how \in bad : result' = [is |-> how, chunks |-> {}]) /\ UNCHANGED plan
  /\ UNCHANGED <<row, payload, inGroup, tagSet, filter, updated>>

\* What Qdrant makes of a condition.
Holds(q, c) ==
  CASE q.by = "ids"    -> c \in q.vals
    [] q.by = "match"  -> payload[c] \in q.vals
    [] q.by = "all"    -> \A v \in q.vals : payload[c] = v
    [] q.by = "range"  -> payload[c] = "n1"
    [] q.by = "groups" -> IF q.op = "any" THEN inGroup[c] \in q.vals ELSE \A g \in q.vals : inGroup[c] = g

Select ==
  /\ plan # None /\ result.is = "pending"
  /\ result' = [is |-> "found",
                chunks |-> {c \in Own :
                  /\ plan.should = << >> \/ \E i \in DOMAIN plan.should : Holds(plan.should[i], c)
                  /\ \A i \in DOMAIN plan.must : Holds(plan.must[i], c)
                  /\ \A i \in DOMAIN plan.must_not : ~Holds(plan.must_not[i], c)}]
  /\ UNCHANGED <<row, payload, inGroup, tagSet, filter, plan, updated>>

\* update_chunk: the row, then the point.
UpdateRow ==
  /\ updated = None /\ result.is = "pending"
  /\ \E c \in Own, v \in {"a", "n1"} : row' = [row EXCEPT ![c] = v] /\ updated' = c
  /\ UNCHANGED <<payload, inGroup, tagSet, filter, plan, result>>

UpdatePoint ==
  /\ row # payload /\ result.is = "pending" /\ payload' = row
  /\ UNCHANGED <<row, inGroup, tagSet, filter, plan, result, updated>>

Next == Assemble \/ Select \/ UpdateRow \/ UpdatePoint

Spec == Init /\ [][Next]_vars

--------------------------------------------------------------------------------
(* Properties.                                                              *)

\* What a condition of the request means, for a chunk.
Meant(cond, c) ==
  CASE cond.field = "has_id" -> c \in Range(cond.vals)
    [] cond.field = "metadata" /\ cond.op = "any" -> row[c] \in Range(cond.vals)
    [] cond.field = "metadata" /\ cond.op = "all" -> \A i \in DOMAIN cond.vals : row[c] = cond.vals[i]
    [] cond.field = "metadata" /\ cond.op \in {"range", "date_range"} -> row[c] = "n1"
    [] cond.field \in {"group_tag_set", "group_metadata"} /\ cond.op = "any" -> \E v \in Range(cond.vals) : Tagged(c, v)
    [] cond.field \in {"group_tag_set", "group_metadata"} /\ cond.op = "all" -> \A v \in Range(cond.vals) : Tagged(c, v)
    [] cond.field = "group_tracking_ids" /\ cond.op = "any" -> inGroup[c] \in Range(cond.vals)
    [] cond.field = "group_tracking_ids" /\ cond.op = "all" -> \A i \in DOMAIN cond.vals : inGroup[c] = cond.vals[i]

\* Conditions both ways of filtering read alike: texts in metadata, groups that
\* exist, group tags, ids, ranges where all values are numbers.
Portable(cond) ==
  CASE cond.field = "metadata" /\ cond.op \in {"any", "all"} -> Range(cond.vals) \subseteq Texts
    [] cond.field = "metadata" /\ cond.op = "range" -> \A c \in Own : row[c] # "t1"
    [] cond.field = "metadata" /\ cond.op = "date_range" -> FALSE
    [] cond.field = "group_tracking_ids" -> Unknown \notin Range(cond.vals)
    [] cond.field = "group_metadata" -> FALSE
    [] OTHER -> TRUE

\* With or without the jsonb prefilter, in whichever list a condition stands,
\* a request for portable conditions selects the chunks of the dataset that it
\* means, and no others, chunks updated meanwhile aside; it is refused only
\* when a range meets a text.
SelectsWhatIsMeant ==
  LET all == UNION {Range(filter[l]) : l \in Lists}
      meant(c) == /\ filter.should = << >> \/ \E i \in DOMAIN filter.should : Meant(filter.should[i], c)
                  /\ \A i \in DOMAIN filter.must : Meant(filter.must[i], c)
                  /\ \A i \in DOMAIN filter.must_not : ~Meant(filter.must_not[i], c)
  IN result.is # "pending" /\ (\A cond \in all : Portable(cond)) =>
       IF result.is = "found"
       THEN \A c \in Chunks \ {updated} : c \in result.chunks <=> c \in Own /\ meant(c)
       ELSE result.is = "error" /\ \E cond \in all : cond.op = "range"
================================================================================
