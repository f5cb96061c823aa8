-------------------------- MODULE ConversationsProofs --------------------------
(***************************************************************************)
(* Proofs about Conversations for any number of requests, of messages and  *)
(* of failures, and any plan.                                              *)
(***************************************************************************)
EXTENDS Conversations, SequenceTheorems, FiniteSetTheorems, WellFoundedInduction, TLAPS

Row == [order : Orders, role : {"system", "user", "assistant"}, deleted : BOOLEAN, answers : Histories]
Request == [op : {"create", "edit", "regenerate"}, step : Steps, at : Orders, seen : Histories, moved : BOOLEAN]
Reply == [seen : Histories, moved : BOOLEAN]

\* Nobody has seen more messages than there are; who has seen none and is about
\* to reply found at least two.
SeenAt(seen, replies) ==
  /\ Len(seen) <= Len(messages)
  /\ seen = <<>> /\ replies => Len(messages) >= 2

Replies(c) == req[c].step = "respond" \/ (req[c].op = "regenerate" /\ req[c].step = "delete")

TypeInv ==
  /\ \A c \in Clients : req[c].step = "delete" => req[c].op # "create"
  /\ topic \in {"none", "live", "deleted"}
  /\ messages \in Seq(Row) /\ Len(messages) \in Orders
  /\ req \in [Clients -> Request]
  /\ late \subseteq Reply
  /\ strayed \in BOOLEAN /\ failures \in 0 .. MaxFailures
  /\ \A c \in Clients : SeenAt(req[c].seen, Replies(c))
  /\ \A l \in late : SeenAt(l.seen, TRUE)

\* q is the first k live messages, in their order.
First(q, k) ==
  /\ Len(q) = k
  /\ \A i \in 1 .. k : q[i] \in Live /\ messages[q[i]].order = i - 1

\* q is all of them.
All(q) ==
  /\ q # <<>> /\ First(q, Len(q))
  /\ \A m \in Live : messages[m].order < Len(q)

\* The positions of S are 0 .. n - 1, each taken once.
Fills(S, n) ==
  /\ \A m \in S : messages[m].order < n
  /\ \A k \in 0 .. n - 1 : \E m \in S : messages[m].order = k
  /\ \A m, k \in S : messages[m].order = messages[k].order => m = k

MessageAt(m) ==
  /\ messages[m].order = 0 <=> messages[m].role = "system"
  /\ messages[m].role = "assistant" => First(messages[m].answers, messages[m].order)

HistoryInv ==
  ~strayed =>
    /\ \E n \in Nat : Fills(Live, n)
    /\ \A m \in Live : MessageAt(m)

\* What a request has read is still there, unless it was overtaken.
RequestAt(c) ==
  /\ req[c].step = "system" => Live = {}
  /\ req[c].step \in {"user", "respond"} => All(req[c].seen)
  /\ req[c].step = "delete" /\ req[c].op = "regenerate" => req[c].seen # <<>> /\ First(req[c].seen, req[c].at)

RequestInv ==
  ~strayed =>
    /\ \A c \in Clients : ~req[c].moved => RequestAt(c)
    /\ \A l \in late : ~l.moved => All(l.seen)

IInv == TypeInv /\ HistoryInv /\ RequestInv

--------------------------------------------------------------------------------
(* The messages of a set in the order of their positions.                  *)

Rank(S, m) == Cardinality({n \in S : Before(n, m)})

\* The constants are what Conversations assumes of them.
LEMMA ConstantTypes ==
  ASSUME TopicAssumption
  PROVE  PlanMessages \in Nat /\ MaxMessages \in Nat /\ MaxFailures \in Nat
BY DEF TopicAssumption

\* What the table holds.
LEMMA Rows ==
  ASSUME TopicAssumption, TypeInv
  PROVE  /\ DOMAIN messages = 1 .. Len(messages) /\ Len(messages) \in Nat /\ Len(messages) <= MaxMessages
         /\ DOMAIN messages \subseteq Ids /\ Live \subseteq DOMAIN messages
         /\ \A m \in DOMAIN messages : messages[m] \in Row /\ messages[m].order \in Nat /\ messages[m].order \in Orders
<1>1. messages \in Seq(Row) /\ Len(messages) \in 0 .. MaxMessages
  BY DEF TypeInv, Orders
<1>2. DOMAIN messages = 1 .. Len(messages) /\ Len(messages) \in Nat /\ \A m \in 1 .. Len(messages) : messages[m] \in Row
  BY <1>1, LenProperties, ElementOfSeq
<1>3. Len(messages) <= MaxMessages
  BY <1>1, ConstantTypes
<1>4. DOMAIN messages \subseteq Ids
  BY <1>2, <1>3, ConstantTypes DEF Ids
<1>5. \A m \in DOMAIN messages : messages[m].order \in Nat /\ messages[m].order \in Orders
  BY <1>2, ConstantTypes DEF Row, Orders
<1>6. Live \subseteq DOMAIN messages
  BY DEF Live
<1> QED
  BY <1>2, <1>3, <1>4, <1>5, <1>6

\* Any set of rows is finite.
LEMMA RowsAreFinite ==
  ASSUME TopicAssumption, TypeInv, NEW S \in SUBSET DOMAIN messages
  PROVE  /\ IsFiniteSet(S) /\ Cardinality(S) \in Nat /\ Cardinality(S) <= Len(messages)
         /\ \A T \in SUBSET S : /\ IsFiniteSet(T) /\ Cardinality(T) \in Nat
                                /\ Cardinality(T) <= Cardinality(S)
                                /\ T # S => Cardinality(T) < Cardinality(S)
<1>1. IsFiniteSet(DOMAIN messages) /\ Cardinality(DOMAIN messages) = Len(messages)
  BY Rows, FS_Interval
<1>2. IsFiniteSet(S) /\ Cardinality(S) <= Len(messages)
  BY <1>1, FS_Subset
<1>3. Cardinality(S) \in Nat
  BY <1>2, FS_CardinalityType
<1>4. ASSUME NEW T \in SUBSET S
      PROVE  /\ IsFiniteSet(T) /\ Cardinality(T) \in Nat
             /\ Cardinality(T) <= Cardinality(S)
             /\ T # S => Cardinality(T) < Cardinality(S)
  <2>1. IsFiniteSet(T) /\ Cardinality(T) <= Cardinality(S) /\ (Cardinality(S) = Cardinality(T) => S = T)
    BY <1>2, FS_Subset
  <2>2. Cardinality(T) \in Nat
    BY <2>1, FS_CardinalityType
  <2> QED
    BY <2>1, <2>2, <1>3
<1> QED
  BY <1>2, <1>3, <1>4

\* Before is a strict order in which any two rows are comparable.
LEMMA BeforeOrders ==
  ASSUME TopicAssumption, TypeInv
  PROVE  /\ \A a \in DOMAIN messages : ~Before(a, a)
         /\ \A a, b, c \in DOMAIN messages : Before(a, b) /\ Before(b, c) => Before(a, c)
         /\ \A a, b \in DOMAIN messages : a # b => Before(a, b) \/ Before(b, a)
<1>1. \A a \in DOMAIN messages : a \in Nat /\ messages[a].order \in Nat
  BY Rows
<1> HIDE DEF TypeInv
<1> QED
  BY <1>1 DEF Before

\* Of two rows of S, the one before has the smaller rank.
LEMMA Ranks ==
  ASSUME TopicAssumption, TypeInv, NEW S \in SUBSET DOMAIN messages
  PROVE  /\ \A m \in S : Rank(S, m) \in Nat /\ Rank(S, m) < Cardinality(S)
         /\ \A a, b \in S : Before(a, b) => Rank(S, a) < Rank(S, b)
<1>1. ASSUME NEW m \in S PROVE Rank(S, m) \in Nat /\ Rank(S, m) < Cardinality(S)
  <2>1. m \notin {n \in S : Before(n, m)}
    BY BeforeOrders
  <2>2. {n \in S : Before(n, m)} \in SUBSET S /\ {n \in S : Before(n, m)} # S
    BY <2>1
  <2> QED
    BY <2>2, RowsAreFinite DEF Rank
<1>2. ASSUME NEW a \in S, NEW b \in S, Before(a, b) PROVE Rank(S, a) < Rank(S, b)
  <2> DEFINE A == {n \in S : Before(n, a)}
             B == {n \in S : Before(n, b)}
  <2>1. A \in SUBSET B
    BY <1>2, BeforeOrders
  <2>2. a \in B /\ a \notin A
    BY <1>2, BeforeOrders
  <2>3. B \in SUBSET DOMAIN messages
    OBVIOUS
  <2>4. Cardinality(A) < Cardinality(B)
    <3> HIDE DEF A, B
    <3> QED
      BY <2>1, <2>2, <2>3, RowsAreFinite
  <2> QED
    BY <2>4 DEF Rank
<1> QED
  BY <1>1, <1>2

\* Every rank up to the number of rows is taken, by one row.
LEMMA EveryRank ==
  ASSUME TopicAssumption, TypeInv, NEW S \in SUBSET DOMAIN messages
  PROVE  /\ \A i \in 1 .. Cardinality(S) : \E m \in S : Rank(S, m) = i - 1
         /\ \A a, b \in S : Rank(S, a) = Rank(S, b) => a = b
<1> DEFINE n == Cardinality(S)
           f == [m \in S |-> Rank(S, m) + 1]
<1>1. n \in Nat /\ IsFiniteSet(S)
  BY RowsAreFinite
<1>2. ASSUME NEW a \in S, NEW b \in S, Rank(S, a) = Rank(S, b) PROVE a = b
  <2>1. ~Before(a, b) /\ ~Before(b, a)
    BY <1>2, Ranks
  <2> QED
    BY <2>1, BeforeOrders
<1>3. \A m \in S : f[m] \in 1 .. n
  BY <1>1, Ranks
<1>4. \A a, b \in S : f[a] = f[b] => a = b
  <2> SUFFICES ASSUME NEW a \in S, NEW b \in S, f[a] = f[b] PROVE a = b
    OBVIOUS
  <2>1. Rank(S, a) = Rank(S, b)
    BY Ranks
  <2> QED
    BY <2>1, <1>2
<1>5. f \in Injection(S, 1 .. n)
  BY <1>3, <1>4 DEF Injection, IsInjective
<1>6. IsFiniteSet(1 .. n) /\ Cardinality(1 .. n) = n
  BY <1>1, FS_Interval
<1>7. f \in Surjection(S, 1 .. n)
  <2> HIDE DEF f
  <2> QED
    BY <1>5, <1>6, FS_Injection
<1>8. \A i \in 1 .. n : \E m \in S : f[m] = i
  BY <1>7 DEF Surjection
<1>9. \A m \in S : f[m] = Rank(S, m) + 1 /\ Rank(S, m) \in Nat
  BY Ranks
<1> QED
  BY <1>2, <1>8, <1>9

\* InPosition lists the rows of S, each at its rank.
LEMMA Positions ==
  ASSUME TopicAssumption, TypeInv, NEW S \in SUBSET DOMAIN messages
  PROVE  /\ InPosition(S) \in Seq(S) /\ Len(InPosition(S)) = Cardinality(S)
         /\ DOMAIN InPosition(S) = 1 .. Cardinality(S)
         /\ \A i \in 1 .. Cardinality(S) : InPosition(S)[i] \in S /\ Rank(S, InPosition(S)[i]) = i - 1
<1> DEFINE n == Cardinality(S)
           q == InPosition(S)
<1>1. n \in Nat
  BY RowsAreFinite
<1>2. q = [i \in 1 .. n |-> CHOOSE m \in S : Rank(S, m) = i - 1]
  BY DEF InPosition, Rank
<1>3. \A i \in 1 .. n : q[i] = CHOOSE m \in S : Rank(S, m) = i - 1
  BY <1>2
<1>4. \A i \in 1 .. n : q[i] \in S /\ Rank(S, q[i]) = i - 1
  <2> HIDE DEF q
  <2> SUFFICES ASSUME NEW i \in 1 .. n PROVE q[i] \in S /\ Rank(S, q[i]) = i - 1
    OBVIOUS
  <2>1. \E m \in S : Rank(S, m) = i - 1
    BY EveryRank
  <2> QED
    BY <2>1, <1>3
<1>5. q \in [1 .. n -> S]
  <2> HIDE DEF q
  <2> QED
    BY <1>2, <1>4
<1>6. q \in Seq(S)
  <2> HIDE DEF q, n
  <2> QED
    BY <1>1, <1>5, SeqDef
<1>7. Len(q) = n
  <2> HIDE DEF q, n
  <2> QED
    BY <1>1, <1>5, <1>6
<1> QED
  BY <1>4, <1>5, <1>6, <1>7

\* As many rows as positions ...
LEMMA Counted ==
  ASSUME TopicAssumption, TypeInv, NEW S \in SUBSET DOMAIN messages, NEW n \in Nat, Fills(S, n)
  PROVE  Cardinality(S) = n
<1> DEFINE f == [m \in S |-> messages[m].order + 1]
<1>1. \A m \in S : messages[m].order \in Nat
  BY Rows
<1>2. \A m \in S : f[m] \in 1 .. n
  BY <1>1 DEF Fills
<1>3. \A a, b \in S : f[a] = f[b] => a = b
  BY <1>1 DEF Fills
<1>4. \A i \in 1 .. n : \E m \in S : f[m] = i
  <2> SUFFICES ASSUME NEW i \in 1 .. n PROVE \E m \in S : f[m] = i
    OBVIOUS
  <2>1. i - 1 \in 0 .. n - 1
    OBVIOUS
  <2>2. PICK m \in S : messages[m].order = i - 1
    BY <2>1 DEF Fills
  <2> QED
    BY <2>2
<1>5. f \in Bijection(S, 1 .. n)
  BY <1>2, <1>3, <1>4 DEF Bijection, Injection, Surjection, IsInjective
<1>6. ExistsBijection(S, 1 .. n)
  BY <1>5 DEF ExistsBijection
<1>7. IsFiniteSet(S)
  BY RowsAreFinite
<1>8. Cardinality(1 .. n) = n
  BY FS_Interval
<1> QED
  BY <1>6, <1>7, <1>8, FS_Bijection

\* ... and the messages below one of them fill the positions below it.
LEMMA FillsBelow ==
  ASSUME TopicAssumption, TypeInv, NEW S \in SUBSET DOMAIN messages, NEW n \in Nat, Fills(S, n),
         NEW k \in 0 .. n
  PROVE  Fills({m \in S : messages[m].order < k}, k)
<1> DEFINE T == {m \in S : messages[m].order < k}
<1>1. ASSUME NEW i \in 0 .. k - 1 PROVE \E m \in T : messages[m].order = i
  <2>1. i \in 0 .. n - 1
    OBVIOUS
  <2>2. PICK m \in S : messages[m].order = i
    BY <2>1 DEF Fills
  <2> QED
    BY <2>2
<1> QED
  BY <1>1 DEF Fills

\* Among messages that fill their positions the rank is the position.
LEMMA RankIsOrder ==
  ASSUME TopicAssumption, TypeInv, NEW S \in SUBSET DOMAIN messages, NEW n \in Nat, Fills(S, n),
         NEW m \in S
  PROVE  Rank(S, m) = messages[m].order
<1> DEFINE k == messages[m].order
           T == {a \in S : messages[a].order < k}
<1>1. k \in Nat /\ k < n /\ \A a \in S : messages[a].order \in Nat /\ a \in Nat
  BY Rows DEF Fills
<1>2. \A a \in S : Before(a, m) <=> messages[a].order < k
  <2> SUFFICES ASSUME NEW a \in S PROVE Before(a, m) <=> messages[a].order < k
    OBVIOUS
  <2>1. messages[a].order = messages[m].order => a = m
    BY DEF Fills
  <2>2. a \in Nat
    BY <1>1
  <2> QED
    BY <2>1, <2>2 DEF Before
<1>3. {a \in S : Before(a, m)} = T
  BY <1>2
<1>4. Fills(T, k)
  BY <1>1, FillsBelow
<1>5. Cardinality(T) = k
  <2> T \in SUBSET DOMAIN messages
    OBVIOUS
  <2> HIDE DEF T, k
  <2> QED
    BY <1>1, <1>4, Counted
<1> QED
  BY <1>3, <1>5 DEF Rank

\* InPosition then puts each at its position.
LEMMA InOrder ==
  ASSUME TopicAssumption, TypeInv, NEW S \in SUBSET DOMAIN messages, NEW n \in Nat, Fills(S, n)
  PROVE  /\ InPosition(S) \in Seq(S) /\ Len(InPosition(S)) = n
         /\ \A i \in 1 .. n : InPosition(S)[i] \in S /\ messages[InPosition(S)[i]].order = i - 1
<1>1. Cardinality(S) = n
  BY Counted
<1> QED
  BY <1>1, Positions, RankIsOrder

\* All live messages, read in their order.
LEMMA ReadsAll ==
  ASSUME TopicAssumption, TypeInv, NEW n \in Nat, Fills(Live, n)
  PROVE  /\ GetTopicMessages \in Seq(Live) /\ Len(GetTopicMessages) = n
         /\ First(GetTopicMessages, n)
         /\ \A m \in Live : messages[m].order < n
         /\ Live # {} => n > 0
<1>1. Live \in SUBSET DOMAIN messages
  BY DEF Live
<1>2. Live # {} => n > 0
  <2>1. \A m \in Live : messages[m].order \in Nat
    BY Rows
  <2> QED
    BY <2>1 DEF Fills
<1> QED
  BY <1>1, <1>2, InOrder DEF GetTopicMessages, First, Fills

\* Only one sequence has the first k messages in their order.
LEMMA FirstIsInPosition ==
  ASSUME TopicAssumption, TypeInv, NEW n \in Nat, Fills(Live, n), NEW k \in 0 .. n,
         NEW q \in Seq(Ids), First(q, k)
  PROVE  q = InPosition({m \in Live : messages[m].order < k})
<1> DEFINE T == {m \in Live : messages[m].order < k}
           p == InPosition(T)
<1>1. Live \in SUBSET DOMAIN messages /\ T \in SUBSET DOMAIN messages
  BY DEF Live
<1>2. Fills(T, k)
  BY <1>1, FillsBelow
<1>3. p \in Seq(T) /\ Len(p) = k /\ \A i \in 1 .. k : p[i] \in T /\ messages[p[i]].order = i - 1
  <2> HIDE DEF T
  <2> QED
    BY <1>1, <1>2, InOrder
<1>4. p \in Seq(Ids)
  <2>1. T \subseteq Ids
    BY <1>1, Rows
  <2> HIDE DEF T, p
  <2> QED
    BY <1>3, <2>1, SeqMonotonic
<1>5. \A i \in 1 .. k : p[i] = q[i]
  <2> SUFFICES ASSUME NEW i \in 1 .. k PROVE p[i] = q[i]
    OBVIOUS
  <2>1. p[i] \in Live /\ messages[p[i]].order = i - 1
    BY <1>3
  <2>2. q[i] \in Live /\ messages[q[i]].order = i - 1
    BY DEF First
  <2> HIDE DEF p
  <2> QED
    BY <2>1, <2>2 DEF Fills
<1>6. Len(q) = k
  BY DEF First
<1>7. p = q
  <2> HIDE DEF p
  <2> QED
    BY <1>3, <1>4, <1>5, <1>6, SeqEqual
<1> QED
  BY <1>7

\* The invariant is what HistoryHoldsTogether says, and more.
LEMMA History ==
  ASSUME TopicAssumption, TypeInv, HistoryInv
  PROVE  HistoryHoldsTogether
<1> SUFFICES ASSUME ~strayed
             PROVE  /\ {messages[m].order : m \in Live} = 0 .. Cardinality(Live) - 1
                    /\ \A m \in Live :
                         /\ messages[m].order = 0 <=> messages[m].role = "system"
                         /\ messages[m].role = "assistant" =>
                              messages[m].answers = InPosition({k \in Live : messages[k].order < messages[m].order})
  BY DEF HistoryHoldsTogether
<1>1. PICK n \in Nat : Fills(Live, n)
  BY DEF HistoryInv
<1>2. Cardinality(Live) = n
  <2>1. Live \in SUBSET DOMAIN messages
    BY DEF Live
  <2> QED
    BY <1>1, <2>1, Counted
<1>3. \A m \in Live : messages[m].order \in 0 .. n - 1 /\ messages[m].answers \in Seq(Ids)
  <2>1. \A m \in Live : messages[m].order \in Nat /\ messages[m] \in Row
    BY Rows
  <2> QED
    BY <1>1, <2>1 DEF Fills, Row, Histories
<1>4. {messages[m].order : m \in Live} = 0 .. n - 1
  <2>1. \A k \in 0 .. n - 1 : \E m \in Live : messages[m].order = k
    BY <1>1 DEF Fills
  <2> QED
    BY <1>3, <2>1
<1>5. ASSUME NEW m \in Live
      PROVE  /\ messages[m].order = 0 <=> messages[m].role = "system"
             /\ messages[m].role = "assistant" =>
                  messages[m].answers = InPosition({k \in Live : messages[k].order < messages[m].order})
  <2>1. MessageAt(m)
    BY DEF HistoryInv
  <2>2. messages[m].order \in 0 .. n
    BY <1>3
  <2>3. messages[m].answers \in Seq(Ids)
    BY <1>3
  <2>4. First(messages[m].answers, messages[m].order)
          => messages[m].answers = InPosition({k \in Live : messages[k].order < messages[m].order})
    BY <1>1, <2>2, <2>3, FirstIsInPosition
  <2> QED
    BY <2>1, <2>4 DEF MessageAt
<1> QED
  BY <1>2, <1>4, <1>5

--------------------------------------------------------------------------------
(* How the table and the requests change.                                   *)

\* A new message stands behind the old rows.
LEMMA Inserts ==
  ASSUME TopicAssumption, TypeInv, NEW order \in Orders, NEW role \in {"system", "user", "assistant"},
         NEW seen \in Histories, NEW moved, Insert(order, role, seen, moved)
  PROVE  LET new == Len(messages) + 1 IN
         /\ messages' \in Seq(Row) /\ Len(messages') = new /\ new <= MaxMessages /\ new \in Ids
         /\ Len(messages) \in Nat
         /\ \A m \in DOMAIN messages : messages'[m] = messages[m]
         /\ messages'[new].order = order /\ messages'[new].role = role
         /\ role = "assistant" => messages'[new].answers = seen
         /\ new \notin DOMAIN messages /\ Live' = Live \cup {new}
<1> DEFINE new == Len(messages) + 1
           k == [order |-> order, role |-> role, deleted |-> FALSE,
                 answers |-> IF role = "assistant" THEN seen ELSE <<>>]
<1>1. messages' = Append(messages, k) /\ Len(messages) < MaxMessages
  BY DEF Insert
<1>2. k \in Row
  BY EmptySeq DEF Row, Histories
<1>3. /\ k.order = order /\ k.role = role /\ k.deleted = FALSE
      /\ role = "assistant" => k.answers = seen
  OBVIOUS
<1> HIDE DEF k
<1>4. messages \in Seq(Row) /\ Len(messages) \in Nat /\ DOMAIN messages = 1 .. Len(messages)
  BY Rows DEF TypeInv
<1>5. messages' \in Seq(Row) /\ Len(messages') = new /\ messages'[new] = k
      /\ \A m \in 1 .. Len(messages) : messages'[m] = messages[m]
  BY <1>1, <1>2, <1>4
<1>6. new <= MaxMessages /\ new \in Ids
  BY <1>1, <1>4, ConstantTypes DEF Ids
<1>7. DOMAIN messages' = 1 .. new
  BY <1>5, LenProperties
<1>8. Live' = Live \cup {new}
  <2>1. \A m : m \in DOMAIN messages' <=> m \in DOMAIN messages \/ m = new
    BY <1>4, <1>7
  <2> QED
    BY <1>3, <1>4, <1>5, <2>1 DEF Live
<1> QED
  BY <1>3, <1>4, <1>5, <1>6, <1>8

\* A delete leaves the live messages in front of the position.
LEMMA Deletes ==
  ASSUME TopicAssumption, TypeInv, NEW order \in Orders, messages' = DeletedFrom(order)
  PROVE  /\ messages' \in Seq(Row) /\ Len(messages') = Len(messages) /\ DOMAIN messages' = DOMAIN messages
         /\ \A m \in DOMAIN messages :
              /\ messages'[m].order = messages[m].order /\ messages'[m].role = messages[m].role
              /\ messages'[m].answers = messages[m].answers
         /\ Live' = {m \in Live : messages[m].order < order}
<1> DEFINE n == Len(messages)
<1>1. messages \in Seq(Row) /\ n \in Nat /\ DOMAIN messages = 1 .. n /\ \A m \in 1 .. n : messages[m] \in Row
  BY Rows DEF TypeInv
<1>2. messages' = [m \in 1 .. n |-> [messages[m] EXCEPT !.deleted = @ \/ messages[m].order >= order]]
  BY <1>1 DEF DeletedFrom
<1>3. ASSUME NEW m \in 1 .. n
      PROVE  /\ messages'[m] \in Row
             /\ messages'[m].order = messages[m].order /\ messages'[m].role = messages[m].role
             /\ messages'[m].answers = messages[m].answers
             /\ messages'[m].deleted = (messages[m].deleted \/ messages[m].order >= order)
  <2>1. messages'[m] = [messages[m] EXCEPT !.deleted = @ \/ messages[m].order >= order]
    BY <1>2
  <2>2. (messages[m].deleted \/ messages[m].order >= order) \in BOOLEAN
    OBVIOUS
  <2> DEFINE b == messages[m].deleted \/ messages[m].order >= order
  <2>3. messages'[m] = [messages[m] EXCEPT !.deleted = b] /\ b \in BOOLEAN
    BY <2>1, <2>2
  <2> HIDE DEF b
  <2>4. /\ messages'[m] \in Row
        /\ messages'[m].order = messages[m].order /\ messages'[m].role = messages[m].role
        /\ messages'[m].answers = messages[m].answers /\ messages'[m].deleted = b
    BY <1>1, <2>3 DEF Row
  <2> QED
    BY <2>4 DEF b
<1>4. messages' \in [1 .. n -> Row]
  BY <1>2, <1>3
<1>5. messages' \in Seq(Row)
  BY <1>1, <1>4, SeqDef
<1>6. Len(messages') = n /\ DOMAIN messages' = 1 .. n
  BY <1>1, <1>4, <1>5
<1>7. Live' = {m \in Live : messages[m].order < order}
  <2>1. ASSUME NEW m \in 1 .. n PROVE ~messages'[m].deleted <=> ~messages[m].deleted /\ messages[m].order < order
    <3>1. messages[m].order \in Nat /\ order \in Nat
      BY <1>1, Rows, ConstantTypes DEF Orders
    <3>2. messages[m].order >= order <=> ~(messages[m].order < order)
      BY <3>1
    <3> QED
      BY <1>3, <3>2, Zenon
  <2> QED
    BY <1>1, <1>6, <2>1 DEF Live
<1> QED
  BY <1>1, <1>3, <1>5, <1>6, <1>7

\* A request that is not there.
LEMMA IdleRequest ==
  ASSUME TopicAssumption
  PROVE  Idle \in Request /\ Idle.step = "idle" /\ Idle.op = "create" /\ Idle.seen = <<>>
<1>1. <<>> \in Histories
  BY EmptySeq DEF Histories
<1>2. 0 \in Orders
  BY ConstantTypes DEF Orders
<1> QED
  BY <1>1, <1>2 DEF Idle, Request, Steps

\* The requests outside X are where they were; those that hold what they have
\* read know that they were overtaken.
Others(X) ==
  /\ req' \in [Clients -> Request]
  /\ \A d \in Clients \ X :
       /\ req'[d].op = req[d].op /\ req'[d].step = req[d].step /\ req'[d].at = req[d].at
       /\ req'[d].seen = req[d].seen
       /\ req'[d].moved <=> req[d].moved \/ Holds(d)

\* What is overtaken stays the same apart from that.
LEMMA Overtaken ==
  ASSUME TypeInv
  PROVE  /\ Outdated \in [Clients -> Request]
         /\ \A d \in Clients :
              /\ Outdated[d].op = req[d].op /\ Outdated[d].step = req[d].step /\ Outdated[d].at = req[d].at
              /\ Outdated[d].seen = req[d].seen
              /\ Outdated[d].moved <=> req[d].moved \/ Holds(d)
<1>1. ASSUME NEW d \in Clients
      PROVE  /\ Outdated[d] \in Request
             /\ Outdated[d].op = req[d].op /\ Outdated[d].step = req[d].step /\ Outdated[d].at = req[d].at
             /\ Outdated[d].seen = req[d].seen
             /\ Outdated[d].moved <=> req[d].moved \/ Holds(d)
  <2> DEFINE b == req[d].moved \/ Holds(d)
  <2>1. req[d] \in Request
    BY DEF TypeInv
  <2>2. Outdated[d] = [req[d] EXCEPT !.moved = b] /\ b \in BOOLEAN
    BY DEF Outdated
  <2> HIDE DEF b
  <2>3. /\ Outdated[d] \in Request
        /\ Outdated[d].op = req[d].op /\ Outdated[d].step = req[d].step /\ Outdated[d].at = req[d].at
        /\ Outdated[d].seen = req[d].seen /\ Outdated[d].moved = b
    BY <2>1, <2>2 DEF Request
  <2> QED
    BY <2>3 DEF b
<1>2. Outdated = [d \in Clients |-> Outdated[d]]
  BY DEF Outdated
<1> QED
  BY <1>1, <1>2

\* A step of request c that changes the messages overtakes the others, ...
LEMMA OvertakesOthers ==
  ASSUME TypeInv, NEW c \in Clients, NEW k \in Request, req' = [Outdated EXCEPT ![c] = k]
  PROVE  Others({c}) /\ req'[c] = k
<1> HIDE DEF TypeInv
<1>1. req' \in [Clients -> Request] /\ req'[c] = k /\ \A d \in Clients \ {c} : req'[d] = Outdated[d]
  BY Overtaken
<1> QED
  BY <1>1, Overtaken DEF Others

\* ... one of a thread overtakes all.
LEMMA OvertakesAll ==
  ASSUME TypeInv, req' = Outdated
  PROVE  Others({})
BY Overtaken DEF Others

\* So do the replies that are not stored yet.
LEMMA RepliesOvertaken ==
  ASSUME NEW L, L \subseteq Reply, NEW M, M = {[l EXCEPT !.moved = TRUE] : l \in L}
  PROVE  M \subseteq Reply /\ \A l \in M : l.moved /\ \E k \in L : l.seen = k.seen
<1>1. ASSUME NEW l \in M PROVE l \in Reply /\ l.moved /\ \E k \in L : l.seen = k.seen
  <2>1. PICK k \in L : l = [k EXCEPT !.moved = TRUE]
    OBVIOUS
  <2>2. k \in Reply
    OBVIOUS
  <2>3. l \in Reply /\ l.moved = TRUE /\ l.seen = k.seen
    BY <2>1, <2>2 DEF Reply
  <2> QED
    BY <2>3
<1> QED
  BY <1>1

\* Whoever was not overtaken has not read anything that it goes on with.
LEMMA OthersRely ==
  ASSUME NEW X, Others(X), NEW d \in Clients \ X, ~req'[d].moved
  PROVE  RequestAt(d)'
<1>1. req'[d].op = req[d].op /\ req'[d].step = req[d].step /\ ~Holds(d)
  BY DEF Others
<1> QED
  BY <1>1 DEF RequestAt, Holds

\* What a step that changes the messages has to say of the types: those it
\* overtakes have seen no more than before.
LEMMA OvertakenTypes ==
  ASSUME TopicAssumption, TypeInv, NEW X, Others(X),
         messages' \in Seq(Row), Len(messages') \in Orders, Len(messages') >= Len(messages),
         topic' = topic, failures' = failures, strayed' \in BOOLEAN,
         late' \subseteq Reply, \A l \in late' : \E k \in late : l.seen = k.seen,
         \A c \in X \cap Clients : /\ SeenAt(req[c].seen, Replies(c))'
                                   /\ req'[c].step = "delete" => req'[c].op # "create"
  PROVE  TypeInv'
<1>1. Len(messages) \in Nat /\ Len(messages') \in Nat
  BY Rows, ConstantTypes DEF Orders
<1>2. \A s \in Histories : Len(s) \in Nat
  BY LenProperties DEF Histories
<1>3. ASSUME NEW c \in Clients
      PROVE  /\ SeenAt(req[c].seen, Replies(c))'
             /\ req'[c].step = "delete" => req'[c].op # "create"
  <2>1. CASE c \in X
    BY <2>1
  <2>2. CASE c \notin X
    <3>1. req'[c].op = req[c].op /\ req'[c].step = req[c].step /\ req'[c].seen = req[c].seen
      BY <2>2 DEF Others
    <3>2. req[c].seen \in Histories /\ SeenAt(req[c].seen, Replies(c)) /\ (req[c].step = "delete" => req[c].op # "create")
      BY DEF TypeInv, Request
    <3> HIDE DEF TypeInv
    <3> QED
      BY <1>1, <1>2, <3>1, <3>2 DEF SeenAt, Replies
  <2> QED
    BY <2>1, <2>2
<1>4. ASSUME NEW l \in late' PROVE SeenAt(l.seen, TRUE)'
  <2>1. PICK k \in late : l.seen = k.seen
    OBVIOUS
  <2>2. SeenAt(k.seen, TRUE) /\ k.seen \in Histories
    BY DEF TypeInv, Reply
  <2> HIDE DEF TypeInv
  <2> QED
    BY <1>1, <1>2, <2>1, <2>2 DEF SeenAt
<1>5. /\ topic' \in {"none", "live", "deleted"} /\ failures' \in 0 .. MaxFailures
      /\ req' \in [Clients -> Request]
  BY DEF TypeInv, Others
<1> QED
  BY <1>3, <1>4, <1>5 DEF TypeInv

\* A step of one request that leaves the messages: it may hand its reply to
\* a thread.
LEMMA Keeps ==
  ASSUME TopicAssumption, IInv, NEW c \in Clients, NEW k \in Request, req' = [req EXCEPT ![c] = k],
         UNCHANGED <<topic, messages, strayed>>, failures' \in 0 .. MaxFailures, late' \subseteq Reply,
         \A l \in late' : l \in late \/ (SeenAt(l.seen, TRUE) /\ (~strayed /\ ~l.moved => All(l.seen))),
         SeenAt(k.seen, Replies(c)'), k.step = "delete" => k.op # "create",
         ~strayed /\ ~k.moved => RequestAt(c)'
  PROVE  IInv'
<1>1. req' \in [Clients -> Request] /\ req'[c] = k /\ \A d \in Clients \ {c} : req'[d] = req[d]
  BY DEF IInv, TypeInv
<1>2. Live' = Live
  BY DEF Live
<1>3. \A s, r : SeenAt(s, r)' <=> SeenAt(s, r)
  BY DEF SeenAt
<1>4. TypeInv'
  <2>1. \A d \in Clients : SeenAt(req[d].seen, Replies(d))' /\ (req'[d].step = "delete" => req'[d].op # "create")
    <3> SUFFICES ASSUME NEW d \in Clients
                 PROVE  SeenAt(req[d].seen, Replies(d))' /\ (req'[d].step = "delete" => req'[d].op # "create")
      OBVIOUS
    <3>1. CASE d = c
      BY <1>1, <3>1 DEF SeenAt
    <3>2. CASE d # c
      BY <1>1, <3>2 DEF SeenAt, Replies, IInv, TypeInv
    <3> QED
      BY <3>1, <3>2
  <2>2. \A l \in late' : SeenAt(l.seen, TRUE)'
    BY DEF SeenAt, IInv, TypeInv
  <2> QED
    BY <1>1, <2>1, <2>2 DEF IInv, TypeInv
<1>5. HistoryInv'
  <2>1. \A n : Fills(Live, n)' <=> Fills(Live, n)
    BY <1>2 DEF Fills
  <2>2. \A m : MessageAt(m)' <=> MessageAt(m)
    BY <1>2 DEF MessageAt, First
  <2> QED
    BY <1>2, <2>1, <2>2 DEF IInv, HistoryInv
<1>6. RequestInv'
  <2>1. \A q : All(q)' <=> All(q)
    BY <1>2 DEF All, First
  <2>2. ASSUME ~strayed', NEW d \in Clients, ~req'[d].moved PROVE RequestAt(d)'
    <3>1. CASE d = c
      BY <1>1, <2>2, <3>1
    <3>2. CASE d # c
      <4>1. RequestAt(d) /\ req'[d] = req[d]
        BY <1>1, <2>2, <3>2 DEF IInv, RequestInv
      <4> QED
        BY <4>1, <1>2 DEF RequestAt, All, First
    <3> QED
      BY <3>1, <3>2
  <2>3. ASSUME ~strayed', NEW l \in late', ~l.moved PROVE All(l.seen)'
    BY <2>1, <2>3 DEF IInv, RequestInv
  <2> QED
    BY <2>2, <2>3 DEF RequestInv
<1> QED
  BY <1>4, <1>5, <1>6 DEF IInv

\* A message that is stored behind all the others.
LEMMA HistoryGrows ==
  ASSUME TopicAssumption, TypeInv, HistoryInv, ~strayed, NEW order \in Orders, NEW role \in {"system", "user", "assistant"},
         NEW seen \in Histories, NEW moved, Insert(order, role, seen, moved),
         Fills(Live, order), order = 0 <=> role = "system", role = "assistant" => First(seen, order)
  PROVE  /\ HistoryInv'
         /\ Fills(Live, order + 1)'
         /\ \A q \in Histories, new \in Ids : First(q, order) /\ new = Len(messages) + 1 =>
              First(q, order)' /\ First(Append(q, new), order + 1)'
<1> PICK new \in Ids : new = Len(messages) + 1
  BY Inserts
<1>1. /\ \A m \in Live : m \in DOMAIN messages /\ messages'[m] = messages[m] /\ messages[m].order \in Nat
      /\ messages'[new].order = order /\ messages'[new].role = role
      /\ role = "assistant" => messages'[new].answers = seen
      /\ new \notin Live /\ Live' = Live \cup {new}
      /\ order \in Nat
  <2>1. Live \subseteq DOMAIN messages
    BY DEF Live
  <2> QED
    BY <2>1, Inserts, Rows, ConstantTypes DEF Orders
<1>2. \A q : First(q, order) => First(q, order)'
  BY <1>1 DEF First
<1>3. Fills(Live, order + 1)'
  <2>1. \A m \in Live' : messages'[m].order < order + 1
    BY <1>1 DEF Fills
  <2>2. ASSUME NEW k \in 0 .. order PROVE \E m \in Live' : messages'[m].order = k
    <3>1. CASE k = order
      BY <1>1, <3>1
    <3>2. CASE k # order
      <4>1. k \in 0 .. order - 1
        BY <1>1, <3>2
      <4>2. PICK m \in Live : messages[m].order = k
        BY <4>1 DEF Fills
      <4> QED
        BY <1>1, <4>2
    <3> QED
      BY <3>1, <3>2
  <2>3. \A m, k \in Live' : messages'[m].order = messages'[k].order => m = k
    BY <1>1 DEF Fills
  <2> QED
    BY <1>1, <2>1, <2>2, <2>3 DEF Fills
<1>4. \A m \in Live' : MessageAt(m)'
  <2>1. ASSUME NEW m \in Live PROVE MessageAt(m)'
    <3>1. MessageAt(m)
      BY DEF HistoryInv
    <3>2. First(messages[m].answers, messages[m].order) => First(messages[m].answers, messages[m].order)'
      BY <1>1 DEF First
    <3> QED
      BY <1>1, <3>1, <3>2 DEF MessageAt, First
  <2>2. MessageAt(new)'
    BY <1>1, <1>2 DEF MessageAt, First
  <2> QED
    BY <1>1, <2>1, <2>2
<1>5. HistoryInv'
  BY <1>1, <1>3, <1>4 DEF HistoryInv
<1>6. ASSUME NEW q \in Histories, First(q, order) PROVE First(Append(q, new), order + 1)'
  <2>1. q \in Seq(Ids) /\ new \in Ids /\ Len(q) = order
    BY <1>6, Inserts DEF Histories, First
  <2>2. Len(Append(q, new)) = order + 1 /\ Append(q, new)[order + 1] = new
        /\ \A i \in 1 .. order : Append(q, new)[i] = q[i]
    BY <2>1, <1>1
  <2>3. \A i \in 1 .. order : q[i] \in Live /\ messages[q[i]].order = i - 1
    BY <1>6 DEF First
  <2>4. ASSUME NEW i \in 1 .. order + 1 PROVE Append(q, new)[i] \in Live' /\ messages'[Append(q, new)[i]].order = i - 1
    <3>1. CASE i = order + 1
      BY <1>1, <2>2, <3>1
    <3>2. CASE i # order + 1
      <4>1. i \in 1 .. order
        BY <1>1, <3>2
      <4> QED
        BY <1>1, <2>2, <2>3, <4>1
    <3> QED
      BY <3>1, <3>2
  <2> QED
    BY <2>2, <2>4 DEF First
<1> QED
  BY <1>2, <1>3, <1>5, <1>6

--------------------------------------------------------------------------------
(* Every step preserves the invariant: one lemma per action.                *)

\* At first there are no messages and nobody asks.
LEMMA InitInvariant ==
  ASSUME TopicAssumption, Init
  PROVE  IInv
<1>1. Live = {}
  BY DEF Init, Live
<1>2. \A c \in Clients : req[c] = Idle
  BY DEF Init
<1>3. messages \in Seq(Row) /\ Len(messages) = 0 /\ 0 \in Orders /\ Len(<<>>) = 0
  BY EmptySeq, ConstantTypes DEF Init, Orders
<1>4. TypeInv
  <2>1. \A c \in Clients : SeenAt(req[c].seen, Replies(c))
    BY <1>2, <1>3, IdleRequest DEF SeenAt, Replies
  <2>2. req \in [Clients -> Request] /\ \A c \in Clients : req[c].step = "idle"
    BY <1>2, IdleRequest DEF Init
  <2>3. failures \in 0 .. MaxFailures
    BY ConstantTypes DEF Init
  <2> QED
    BY <1>3, <2>1, <2>2, <2>3 DEF Init, TypeInv
<1>5. HistoryInv
  BY <1>1 DEF HistoryInv, Fills
<1>6. RequestInv
  BY <1>2, IdleRequest DEF Init, RequestInv, RequestAt
<1> QED
  BY <1>4, <1>5, <1>6 DEF IInv

\* A request that is about to read relies on nothing yet.
LEMMA GoesToRead ==
  ASSUME TopicAssumption, IInv, NEW c \in Clients, Goto(c, "read"),
         UNCHANGED <<topic, messages, late, strayed, failures>>
  PROVE  IInv'
<1> DEFINE k == [req[c] EXCEPT !.step = "read"]
<1>1. req[c] \in Request /\ SeenAt(req[c].seen, Replies(c)) /\ req \in [Clients -> Request]
      /\ late \subseteq Reply /\ failures \in 0 .. MaxFailures
  BY DEF IInv, TypeInv
<1>2. k \in Request /\ k.step = "read" /\ k.seen = req[c].seen
  BY <1>1 DEF Request, Steps
<1>3. req' = [req EXCEPT ![c] = k]
  BY <1>1 DEF Goto
<1> HIDE DEF k
<1>4. req'[c] = k
  BY <1>1, <1>3
<1>5. SeenAt(k.seen, Replies(c)') /\ RequestAt(c)'
  BY <1>1, <1>2, <1>4 DEF SeenAt, Replies, RequestAt
<1> QED
  BY <1>1, <1>2, <1>3, <1>5, Keeps

\* Nor does one that has ended.
LEMMA Finishes ==
  ASSUME TopicAssumption, IInv, NEW c \in Clients, Finish(c),
         UNCHANGED <<topic, messages, strayed>>, failures' \in 0 .. MaxFailures, late' \subseteq Reply,
         \A l \in late' : l \in late \/ (SeenAt(l.seen, TRUE) /\ (~strayed /\ ~l.moved => All(l.seen)))
  PROVE  IInv'
<1>1. req \in [Clients -> Request] /\ Len(messages) \in Nat
  BY Rows DEF IInv, TypeInv
<1>2. req' = [req EXCEPT ![c] = Idle] /\ req'[c] = Idle
  BY <1>1 DEF Finish
<1>3. SeenAt(Idle.seen, Replies(c)') /\ RequestAt(c)' /\ Idle \in Request /\ Idle.step # "delete"
  BY <1>1, <1>2, IdleRequest, EmptySeq DEF SeenAt, Replies, RequestAt
<1> QED
  BY <1>2, <1>3, Keeps

\* A create begins with the plan.
LEMMA CreateMessageStep ==
  ASSUME TopicAssumption, IInv, NEW c \in Clients, CreateMessage(c)
  PROVE  IInv'
BY GoesToRead DEF CreateMessage

\* An edit asks the plan after its delete.
LEMMA CheckPlanStep ==
  ASSUME TopicAssumption, IInv, NEW c \in Clients, CheckPlan(c)
  PROVE  IInv'
<1>1. late \subseteq Reply /\ failures \in 0 .. MaxFailures
  BY DEF IInv, TypeInv
<1> QED
  BY <1>1, GoesToRead, Finishes DEF CheckPlan

\* The position to cut at is that of a live message.
LEMMA EditMessageStep ==
  ASSUME TopicAssumption, IInv, NEW c \in Clients, EditMessage(c)
  PROVE  IInv'
<1>1. PICK m \in Live : req' = [req EXCEPT ![c] = [Idle EXCEPT !.op = "edit", !.step = "delete",
                                                              !.at = messages[m].order]]
  BY DEF EditMessage
<1> DEFINE k == [Idle EXCEPT !.op = "edit", !.step = "delete", !.at = messages[m].order]
<1>2. messages[m].order \in Orders /\ Len(messages) \in Nat
  BY Rows DEF IInv
<1>3. k \in Request /\ k.step = "delete" /\ k.op = "edit" /\ k.seen = <<>>
  BY <1>2, IdleRequest DEF Request, Steps
<1> HIDE DEF k
<1>4. req' = [req EXCEPT ![c] = k] /\ req'[c] = k
  BY <1>1 DEF k, IInv, TypeInv
<1>5. SeenAt(k.seen, Replies(c)') /\ RequestAt(c)'
  BY <1>2, <1>3, <1>4, EmptySeq DEF SeenAt, Replies, RequestAt
<1>6. /\ UNCHANGED <<topic, messages, strayed, late>>
      /\ late' \subseteq Reply /\ failures' \in 0 .. MaxFailures
  BY DEF EditMessage, IInv, TypeInv
<1> QED
  BY <1>3, <1>4, <1>5, <1>6, Keeps

\* Whoever reads the topic has seen no more than there is, and all of it.
LEMMA Reads ==
  ASSUME TopicAssumption, IInv
  PROVE  /\ GetTopicMessages \in Seq(DOMAIN messages) /\ GetTopicMessages \in Histories
         /\ Len(GetTopicMessages) \in Nat /\ Len(GetTopicMessages) <= Len(messages)
         /\ \A i \in 1 .. Len(GetTopicMessages) : GetTopicMessages[i] \in Live
         /\ ~strayed => First(GetTopicMessages, Len(GetTopicMessages))
         /\ ~strayed /\ Live # {} => All(GetTopicMessages)
         /\ ~strayed /\ Len(GetTopicMessages) > 0 => All(GetTopicMessages)
<1> DEFINE q == GetTopicMessages
<1>1. Live \in SUBSET DOMAIN messages /\ DOMAIN messages \subseteq Ids
  BY Rows DEF IInv
<1>2. q \in Seq(Live) /\ Len(q) = Cardinality(Live) /\ \A i \in 1 .. Len(q) : q[i] \in Live
  BY <1>1, Positions DEF IInv, GetTopicMessages
<1>3. Len(q) \in Nat /\ Len(q) <= Len(messages)
  BY <1>1, <1>2, RowsAreFinite DEF IInv
<1> HIDE DEF q
<1>4. q \in Seq(DOMAIN messages) /\ q \in Histories
  BY <1>1, <1>2, SeqMonotonic DEF Histories
<1>5. ASSUME ~strayed
      PROVE  First(q, Len(q)) /\ (Live # {} => All(q)) /\ (Len(q) > 0 => All(q))
  <2>1. PICK n \in Nat : Fills(Live, n)
    BY <1>5 DEF IInv, HistoryInv
  <2>2. Len(q) = n /\ First(q, n) /\ (\A m \in Live : messages[m].order < n) /\ (Live # {} => n > 0)
    BY <2>1, ReadsAll DEF IInv, q
  <2>3. n > 0 => q # <<>>
    BY <2>2, EmptySeq
  <2> QED
    BY <2>2, <2>3 DEF All
<1> QED
  BY <1>2, <1>3, <1>4, <1>5 DEF q

\* A create has read all the messages.
LEMMA ReadTopicStep ==
  ASSUME TopicAssumption, IInv, NEW c \in Clients, ReadTopic(c)
  PROVE  IInv'
<1> DEFINE step == IF Live = {} THEN "system" ELSE "user"
           r == [req[c] EXCEPT !.step = step, !.seen = GetTopicMessages]
<1>1. req[c] \in Request /\ req \in [Clients -> Request] /\ Len(messages) \in Nat
  BY Rows DEF IInv, TypeInv
<1>2. step \in Steps \ {"respond", "delete"}
  BY DEF Steps
<1> HIDE DEF step
<1>2a. r \in Request /\ r.step = step /\ r.seen = GetTopicMessages
  BY <1>1, <1>2, Reads DEF Request
<1>2b. req' = [req EXCEPT ![c] = r]
  BY <1>1 DEF ReadTopic, step
<1> HIDE DEF r
<1>3. PICK k \in Request : k = r /\ k.step = step /\ k.seen = GetTopicMessages
  BY <1>2a
<1>4. req' = [req EXCEPT ![c] = k] /\ req'[c] = k
  BY <1>1, <1>3, <1>2b
<1>5. Live' = Live /\ UNCHANGED <<topic, messages, late, strayed, failures>>
  BY DEF ReadTopic, Live
<1>6. SeenAt(k.seen, Replies(c)')
  BY <1>2, <1>3, <1>4, Reads DEF SeenAt, Replies
<1>7. ~strayed => RequestAt(c)'
  <2> SUFFICES ASSUME ~strayed PROVE RequestAt(c)'
    OBVIOUS
  <2>1. CASE Live = {}
    BY <1>3, <1>4, <1>5, <2>1 DEF step, RequestAt
  <2>2. CASE Live # {}
    <3>1. All(GetTopicMessages)
      BY <2>2, Reads
    <3>2. All(GetTopicMessages) => All(k.seen)'
      BY <1>3, <1>5 DEF All, First
    <3> QED
      BY <1>3, <1>4, <2>2, <3>1, <3>2 DEF step, RequestAt
  <2> QED
    BY <2>1, <2>2
<1>8. late' \subseteq Reply /\ failures' \in 0 .. MaxFailures
  BY <1>5 DEF IInv, TypeInv
<1> QED
  BY <1>2, <1>3, <1>4, <1>5, <1>6, <1>7, <1>8, Keeps

\* Of some positions one is the last.
LEMMA HasLast ==
  ASSUME NEW n \in Nat, NEW S \in SUBSET (1 .. n), S # {}
  PROVE  \E i \in S : \A j \in S : j <= i
<1> DEFINE Less == {p \in Nat \X Nat : p[1] < p[2]}
           T == {n - i : i \in S}
<1>1. IsWellFoundedOn(Less, Nat)
  <2>1. OpToRel(<, Nat) = Less
    BY Zenon DEF OpToRel
  <2> QED
    BY <2>1, NatLessThanWellFounded, Zenon
<1>2. T \in SUBSET Nat /\ T # {}
  <2>1. \A i \in S : n - i \in Nat
    OBVIOUS
  <2> QED
    BY <2>1
<1> HIDE DEF Less, T
<1>3. PICK t \in T : \A u \in T : ~(<<u, t>> \in Less)
  BY <1>1, <1>2, WFMin, Zenon
<1>4. PICK i \in S : t = n - i
  BY <1>3 DEF T
<1>5. ASSUME NEW j \in S PROVE j <= i
  <2>1. n - j \in T
    BY DEF T
  <2>2. ~(<<n - j, n - i>> \in Less)
    BY <1>3, <1>4, <2>1
  <2> QED
    BY <2>2 DEF Less
<1> QED
  BY <1>5

\* A reply is regenerated behind the messages that precede the last one.
LEMMA RegenerateMessageStep ==
  ASSUME TopicAssumption, IInv, NEW c \in Clients, RegenerateMessage(c)
  PROVE  IInv'
<1> DEFINE q == GetTopicMessages
           replies == {i \in DOMAIN q : messages[q[i]].role = "assistant"}
           greatest == CHOOSE i \in replies : \A j \in replies : j <= i
           begun == [Idle EXCEPT !.op = "regenerate"]
<1> USE DEF IInv
<1>1. /\ UNCHANGED <<topic, messages, late, strayed, failures>> /\ Live' = Live
      /\ late' \subseteq Reply /\ failures' \in 0 .. MaxFailures /\ req \in [Clients -> Request]
      /\ Len(messages) \in Nat
  BY Rows DEF RegenerateMessage, Live, TypeInv
<1>2. q \in Histories /\ DOMAIN q = 1 .. Len(q) /\ Len(q) \in Nat /\ Len(q) <= Len(messages)
      /\ \A i \in 1 .. Len(q) : q[i] \in Live /\ q[i] \in Ids
  BY Reads, LenProperties, Rows DEF Histories
<1>3. \/ /\ Len(q) = 2
         /\ req' = [req EXCEPT ![c] = [begun EXCEPT !.step = "respond", !.seen = q]]
      \/ /\ Len(q) > 2 /\ replies # {}
         /\ req' = [req EXCEPT ![c] = [begun EXCEPT !.step = "delete", !.at = messages[q[greatest]].order,
                                                    !.seen = SubSeq(q, 1, greatest - 1)]]
  BY DEF RegenerateMessage
<1>4. CASE /\ Len(q) = 2
           /\ req' = [req EXCEPT ![c] = [begun EXCEPT !.step = "respond", !.seen = q]]
  <2> DEFINE r == [begun EXCEPT !.step = "respond", !.seen = q]
  <2>1. r \in Request /\ r.step = "respond" /\ r.seen = q
    BY <1>2, IdleRequest DEF Request, Steps
  <2>2. req' = [req EXCEPT ![c] = r]
    BY <1>4
  <2> HIDE DEF r
  <2>3. PICK k \in Request : k = r /\ k.step = "respond" /\ k.seen = q
    BY <2>1
  <2>4. req' = [req EXCEPT ![c] = k] /\ req'[c] = k
    BY <1>1, <2>2, <2>3
  <2>5. SeenAt(k.seen, Replies(c)')
    BY <1>1, <1>2, <1>4, <2>3 DEF SeenAt
  <2>6. ~strayed => RequestAt(c)'
    <3>1. ~strayed => All(k.seen)
      BY <1>4, <2>3, Reads
    <3>2. All(k.seen) => All(k.seen)'
      BY <1>1 DEF All, First
    <3> QED
      BY <2>3, <2>4, <3>1, <3>2 DEF RequestAt
  <2> QED
    BY <1>1, <2>3, <2>4, <2>5, <2>6, Keeps
<1>5. CASE /\ Len(q) > 2 /\ replies # {}
           /\ req' = [req EXCEPT ![c] = [begun EXCEPT !.step = "delete", !.at = messages[q[greatest]].order,
                                                      !.seen = SubSeq(q, 1, greatest - 1)]]
  <2>1. replies \in SUBSET (1 .. Len(q))
    BY <1>2
  <2>2. greatest \in replies
    <3> HIDE DEF replies, q
    <3>1. \E i \in replies : \A j \in replies : j <= i
      <4>1. Len(q) \in Nat /\ replies # {}
        BY <1>2, <1>5
      <4> QED
        BY <2>1, <4>1, HasLast
    <3> QED
      BY <3>1
  <2>3. PICK i \in 1 .. Len(q) : i = greatest /\ i \in replies
    <3> HIDE DEF greatest, replies
    <3> QED
      BY <2>1, <2>2
  <2>4. q[i] \in Live /\ messages[q[i]].order \in Orders /\ messages[q[i]].role = "assistant"
    BY <1>2, <2>3, Rows
  <2> DEFINE s == SubSeq(q, 1, i - 1)
             r == [begun EXCEPT !.step = "delete", !.at = messages[q[i]].order, !.seen = s]
  <2>5. s \in Histories /\ Len(s) = i - 1 /\ \A j \in 1 .. i - 1 : s[j] = q[j]
    <3> HIDE DEF q
    <3>1. \A j \in 1 .. i - 1 : q[j] \in Ids
      BY <1>2
    <3>2. /\ SubSeq(q, 1, i - 1) \in Seq(Ids)
          /\ Len(SubSeq(q, 1, i - 1)) = IF 1 <= i - 1 THEN i - 1 - 1 + 1 ELSE 0
          /\ \A j \in 1 .. i - 1 - 1 + 1 : SubSeq(q, 1, i - 1)[j] = q[1 + j - 1]
      BY <1>2, <3>1, SubSeqProperties
    <3> QED
      BY <1>2, <3>2 DEF Histories
  <2>6. r \in Request /\ r.step = "delete" /\ r.op = "regenerate" /\ r.seen = s /\ r.at = messages[q[i]].order
    <3> HIDE DEF s, q
    <3> QED
      BY <2>4, <2>5, IdleRequest DEF Request, Steps
  <2>7. req' = [req EXCEPT ![c] = r]
    BY <1>5, <2>3
  <2> HIDE DEF r
  <2>8. PICK k \in Request : k = r
    BY <2>6
  <2>9. req' = [req EXCEPT ![c] = k] /\ req'[c] = k
    BY <1>1, <2>7, <2>8
  <2> HIDE DEF s, q
  <2>10. SeenAt(k.seen, Replies(c)')
    BY <1>1, <1>2, <1>5, <2>5, <2>6, <2>8 DEF SeenAt
  <2>11. ASSUME ~strayed PROVE RequestAt(c)'
    <3>1. \A j \in 1 .. Len(q) : q[j] \in Live /\ messages[q[j]].order = j - 1
      BY <2>11, Reads DEF First, q
    <3>2. i # 1
      <4>1. ASSUME i = 1 PROVE FALSE
        <5>1. MessageAt(q[i]) /\ messages[q[i]].order = 0
          BY <2>4, <2>11, <3>1, <4>1 DEF HistoryInv
        <5> QED
          BY <2>4, <5>1 DEF MessageAt
      <4> QED
        BY <4>1
    <3>3. s # <<>>
      BY <2>5, <3>2, EmptySeq
    <3>4. First(s, i - 1)
      BY <1>2, <2>5, <3>1 DEF First
    <3>5. k.seen = s /\ k.at = i - 1
      BY <2>6, <2>8, <3>1
    <3>6. First(k.seen, i - 1)'
      BY <1>1, <3>4, <3>5 DEF First
    <3> QED
      BY <2>6, <2>8, <2>9, <3>3, <3>5, <3>6 DEF RequestAt
  <2> QED
    BY <1>1, <2>6, <2>8, <2>9, <2>10, <2>11, Keeps
<1> QED
  BY <1>3, <1>4, <1>5

\* What a delete leaves holds together, and who has read the messages that
\* it leaves has now read all of them.
LEMMA HistoryShrinks ==
  ASSUME TopicAssumption, TypeInv, HistoryInv, ~strayed, NEW order \in Orders, messages' = DeletedFrom(order),
         strayed' = strayed
  PROVE  /\ HistoryInv'
         /\ \A q : q # <<>> /\ First(q, order) => All(q)'
<1>1. /\ \A m \in DOMAIN messages :
           /\ messages'[m].order = messages[m].order /\ messages'[m].role = messages[m].role
           /\ messages'[m].answers = messages[m].answers
           /\ messages[m].order \in Nat
      /\ Live' = {m \in Live : messages[m].order < order}
      /\ Live \in SUBSET DOMAIN messages /\ order \in Nat
  BY Deletes, Rows, ConstantTypes DEF Orders
<1>2. PICK n \in Nat : Fills(Live, n)
  BY DEF HistoryInv
<1>3. \E k \in Nat : Fills(Live, k)'
  <2>1. CASE order <= n
    <3>1. Fills({m \in Live : messages[m].order < order}, order)
      BY <1>1, <1>2, <2>1, FillsBelow
    <3>2. Fills(Live, order)'
      BY <1>1, <3>1 DEF Fills
    <3> QED
      BY <1>1, <3>2
  <2>2. CASE n < order
    <3>1. Live' = Live
      BY <1>1, <1>2, <2>2 DEF Fills
    <3>2. Fills(Live, n)'
      BY <1>1, <1>2, <3>1 DEF Fills
    <3> QED
      BY <3>2
  <2> QED
    BY <1>1, <2>1, <2>2
<1>4. ASSUME NEW q, NEW k \in Nat, k <= order, First(q, k) PROVE First(q, k)'
  BY <1>1, <1>4 DEF First
<1>5. ASSUME NEW m \in Live' PROVE MessageAt(m)'
  <2>1. MessageAt(m) /\ m \in Live /\ messages[m].order < order
    BY <1>1 DEF HistoryInv
  <2>2. messages[m].order \in Nat /\ messages[m].order <= order
    BY <1>1, <2>1
  <2>3. First(messages[m].answers, messages[m].order) => First(messages[m].answers, messages[m].order)'
    <3>0. PICK q : q = messages[m].answers
      OBVIOUS
    <3>1. PICK k \in Nat : q = messages[m].answers /\ k = messages[m].order
      BY <2>2, <3>0
    <3>2. q = messages'[m].answers /\ k = messages'[m].order
      BY <1>1, <2>1, <3>1
    <3>3. First(q, k) => First(q, k)'
      BY <1>4, <2>2, <3>1
    <3> QED
      BY <3>1, <3>2, <3>3 DEF First
  <2>4. messages'[m].order = messages[m].order /\ messages'[m].role = messages[m].role
        /\ messages'[m].answers = messages[m].answers
    BY <1>1, <2>1
  <2> QED
    BY <2>1, <2>3, <2>4 DEF MessageAt, First
<1>6. ASSUME NEW q, q # <<>>, First(q, order) PROVE All(q)'
  <2>1. First(q, order)' /\ Len(q) = order
    BY <1>1, <1>4, <1>6 DEF First
  <2>2. \A m \in Live' : messages'[m].order < order
    BY <1>1
  <2> QED
    BY <1>6, <2>1, <2>2 DEF All
<1> QED
  BY <1>3, <1>5, <1>6 DEF HistoryInv

\* Behind its own delete a regeneration has read all that is left.
LEMMA DeleteMessageStep ==
  ASSUME TopicAssumption, IInv, NEW c \in Clients, DeleteMessage(c)
  PROVE  IInv'
<1> USE DEF IInv
<1> DEFINE step == IF req[c].op = "edit" THEN "count" ELSE "respond"
           r == [req[c] EXCEPT !.step = step]
<1>1. /\ req[c].step = "delete" /\ messages' = DeletedFrom(req[c].at) /\ req' = [Outdated EXCEPT ![c] = r]
      /\ late' = LateOutdated /\ UNCHANGED <<topic, strayed, failures>>
  BY DEF DeleteMessage
<1>2. req[c] \in Request /\ req[c].at \in Orders /\ req[c].op # "create" /\ SeenAt(req[c].seen, Replies(c))
  BY <1>1 DEF TypeInv, Request
<1>2a. step \in Steps
  BY DEF Steps
<1>2b. /\ r \in Request /\ r.step = step /\ r.op = req[c].op /\ r.at = req[c].at /\ r.seen = req[c].seen
       /\ r.moved = req[c].moved
  <2> HIDE DEF step
  <2> QED
    BY <1>2, <1>2a DEF Request
<1> HIDE DEF r
<1>3. PICK k \in Request : /\ k = r /\ k.step = step /\ k.op = req[c].op /\ k.at = req[c].at /\ k.seen = req[c].seen
                           /\ k.moved = req[c].moved
  BY <1>2b
<1>4. Others({c}) /\ req'[c] = k
  BY <1>1, <1>3, OvertakesOthers
<1>5. late' \subseteq Reply /\ \A l \in late' : l.moved /\ \E m \in late : l.seen = m.seen
  BY <1>1, RepliesOvertaken DEF LateOutdated, TypeInv
<1>6. messages' \in Seq(Row) /\ Len(messages') = Len(messages) /\ Len(messages) \in Nat /\ Len(messages) \in Orders
  BY <1>1, <1>2, Deletes, Rows DEF TypeInv
<1>7. TypeInv'
  <2>1. SeenAt(req[c].seen, Replies(c))' /\ req'[c].step # "delete"
    BY <1>1, <1>2, <1>3, <1>4, <1>6 DEF SeenAt, Replies, Request
  <2>2. strayed' \in BOOLEAN /\ Len(messages') >= Len(messages)
    BY <1>1, <1>6 DEF TypeInv
  <2> QED
    BY <1>1, <1>4, <1>5, <1>6, <2>1, <2>2, OvertakenTypes
<1>8. ASSUME ~strayed' PROVE HistoryInv' /\ \A q : q # <<>> /\ First(q, req[c].at) => All(q)'
  BY <1>1, <1>2, <1>8, HistoryShrinks
<1>9. ASSUME ~strayed', ~req'[c].moved PROVE RequestAt(c)'
  <2>1. CASE k.op = "edit"
    BY <1>3, <1>4, <2>1 DEF RequestAt
  <2>2. CASE k.op # "edit"
    <3>1. req[c].op = "regenerate" /\ k.step = "respond" /\ ~req[c].moved
      BY <1>2, <1>3, <1>4, <1>9, <2>2 DEF Request
    <3>2. RequestAt(c)
      BY <1>1, <1>9, <3>1 DEF RequestInv
    <3>3. k.seen # <<>> /\ First(k.seen, req[c].at)
      BY <1>1, <1>3, <3>1, <3>2 DEF RequestAt
    <3>4. All(k.seen)'
      BY <1>8, <1>9, <3>3
    <3> QED
      BY <1>4, <3>1, <3>4 DEF RequestAt
  <2> QED
    BY <2>1, <2>2
<1>10. RequestInv'
  <2>1. \A d \in Clients \ {c} : ~req'[d].moved => RequestAt(d)'
    BY <1>4, OthersRely
  <2> QED
    BY <1>5, <1>9, <2>1 DEF RequestInv
<1>11. HistoryInv'
  BY <1>8 DEF HistoryInv
<1> QED
  BY <1>7, <1>10, <1>11

\* All that was read fills the positions it was read from.
LEMMA AllFills ==
  ASSUME TopicAssumption, TypeInv, HistoryInv, ~strayed, NEW q \in Histories, All(q)
  PROVE  Fills(Live, Len(q)) /\ First(q, Len(q)) /\ Len(q) \in Nat /\ Len(q) > 0 /\ q # <<>>
<1>1. Len(q) \in Nat /\ Len(q) > 0
  BY EmptySeq DEF All, Histories
<1>2. PICK n \in Nat : Fills(Live, n)
  BY DEF HistoryInv
<1>3. ASSUME NEW k \in 0 .. Len(q) - 1 PROVE \E m \in Live : messages[m].order = k
  <2>1. k + 1 \in 1 .. Len(q) /\ k + 1 - 1 = k
    BY <1>1
  <2>2. q[k + 1] \in Live /\ messages[q[k + 1]].order = k
    BY <2>1 DEF All, First
  <2> QED
    BY <2>2
<1> QED
  BY <1>1, <1>2, <1>3 DEF All, Fills

\* A system message opens an empty conversation, and is then all there is.
LEMMA CreateSystemMessageStep ==
  ASSUME TopicAssumption, IInv, NEW c \in Clients, CreateSystemMessage(c)
  PROVE  IInv'
<1> USE DEF IInv
<1>1. CASE topic # "live"
  <2>1. /\ Finish(c) /\ UNCHANGED <<topic, messages, late, strayed, failures>>
        /\ late \subseteq Reply /\ failures \in 0 .. MaxFailures
    BY <1>1 DEF CreateSystemMessage, TypeInv
  <2> QED
    BY <2>1, Finishes
<1>2. CASE topic = "live"
  <2> DEFINE r == [req[c] EXCEPT !.step = "user", !.seen = <<Len(messages) + 1>>]
  <2>1. /\ req[c].step = "system" /\ Insert(0, "system", <<>>, req[c].moved)
        /\ req' = [Outdated EXCEPT ![c] = r] /\ late' = LateOutdated /\ UNCHANGED <<topic, failures>>
    BY <1>2 DEF CreateSystemMessage
  <2>2. req[c] \in Request /\ 0 \in Orders /\ <<>> \in Histories
    BY ConstantTypes, EmptySeq DEF TypeInv, Orders, Histories
  <2>3. PICK new \in Ids : /\ new = Len(messages) + 1 /\ Len(messages') = new /\ new <= MaxMessages
                           /\ messages' \in Seq(Row) /\ messages'[new].order = 0 /\ new \notin Live
                           /\ messages'[new].role = "system" /\ Live' = Live \cup {new} /\ Len(messages) \in Nat
    BY <2>1, <2>2, Inserts DEF Live
  <2>4. <<new>> \in Histories /\ Len(<<new>>) = 1 /\ <<new>>[1] = new /\ <<new>> # <<>>
    BY DEF Histories
  <2>4a. r = [req[c] EXCEPT !.step = "user", !.seen = <<new>>]
    BY <2>3
  <2> HIDE DEF r
  <2>4b. r \in Request /\ r.step = "user" /\ r.op = req[c].op /\ r.seen = <<new>> /\ r.moved = req[c].moved
    BY <2>2, <2>4, <2>4a DEF Request, Steps
  <2>5. PICK k \in Request : k = r /\ k.step = "user" /\ k.op = req[c].op /\ k.seen = <<new>> /\ k.moved = req[c].moved
    BY <2>4b
  <2>6. Others({c}) /\ req'[c] = k
    BY <2>1, <2>5, OvertakesOthers
  <2>7. late' \subseteq Reply /\ \A l \in late' : l.moved /\ \E m \in late : l.seen = m.seen
    BY <2>1, RepliesOvertaken DEF LateOutdated, TypeInv
  <2>8. TypeInv'
    <3>1. SeenAt(req[c].seen, Replies(c))' /\ req'[c].step # "delete"
      BY <2>3, <2>4, <2>5, <2>6 DEF SeenAt
    <3>2. Len(messages') \in Orders /\ Len(messages') >= Len(messages)
      BY <2>3, ConstantTypes DEF Orders
    <3>3. strayed' \in BOOLEAN
      BY <2>1 DEF Insert
    <3> QED
      BY <2>1, <2>3, <2>6, <2>7, <3>1, <3>2, <3>3, OvertakenTypes
  <2>9. ASSUME ~strayed' PROVE HistoryInv' /\ All(<<new>>)'
    <3>1. ~strayed /\ ~req[c].moved
      BY <2>1, <2>9 DEF Insert
    <3>2. Live = {}
      BY <2>1, <3>1 DEF RequestInv, RequestAt
    <3>3. Fills(Live, 0)
      BY <3>2 DEF Fills
    <3>4. HistoryInv'
      BY <2>1, <2>2, <3>1, <3>3, HistoryGrows
    <3>5. Live' = {new}
      BY <2>3, <3>2
    <3>6. All(<<new>>)'
      BY <2>3, <2>4, <3>5 DEF All, First
    <3> QED
      BY <3>4, <3>6
  <2>10. RequestInv'
    <3>1. \A d \in Clients \ {c} : ~req'[d].moved => RequestAt(d)'
      BY <2>6, OthersRely
    <3>2. ~strayed' => RequestAt(c)'
      BY <2>5, <2>6, <2>9 DEF RequestAt
    <3> QED
      BY <2>7, <3>1, <3>2 DEF RequestInv
  <2>11. HistoryInv'
    BY <2>9 DEF HistoryInv
  <2> QED
    BY <2>8, <2>10, <2>11
<1> QED
  BY <1>1, <1>2

\* A user's message comes behind all that was read, and is then read as well.
LEMMA CreateUserMessageStep ==
  ASSUME TopicAssumption, IInv, NEW c \in Clients, CreateUserMessage(c)
  PROVE  IInv'
<1> USE DEF IInv
<1> DEFINE r == [req[c] EXCEPT !.step = "respond", !.seen = Append(@, Len(messages) + 1)]
<1>1. /\ req[c].step = "user" /\ Insert(Len(req[c].seen), "user", req[c].seen, req[c].moved)
      /\ req' = [Outdated EXCEPT ![c] = r] /\ late' = LateOutdated /\ UNCHANGED <<topic, failures>>
  BY DEF CreateUserMessage
<1>2. PICK seen \in Histories : seen = req[c].seen /\ SeenAt(seen, Replies(c)) /\ Len(seen) \in Nat
  BY LenProperties DEF TypeInv, Request, Histories
<1>3. Len(seen) \in Orders /\ req[c] \in Request
  BY <1>2, Rows, ConstantTypes DEF SeenAt, Orders, TypeInv
<1>4. PICK new \in Ids : /\ new = Len(messages) + 1 /\ Len(messages') = new /\ new <= MaxMessages
                         /\ messages' \in Seq(Row) /\ messages'[new].order = Len(seen) /\ new \notin Live
                         /\ messages'[new].role = "user" /\ Live' = Live \cup {new} /\ Len(messages) \in Nat
  BY <1>1, <1>2, <1>3, Inserts DEF Live
<1>5. PICK read \in Histories : read = Append(seen, new) /\ Len(read) = Len(seen) + 1 /\ read # <<>>
  <2>1. seen \in Seq(Ids)
    BY DEF Histories
  <2>2. Append(seen, new) \in Seq(Ids) /\ Len(Append(seen, new)) = Len(seen) + 1
    BY <2>1
  <2>3. Append(seen, new) # <<>>
    BY <1>2, <2>2, EmptySeq
  <2> QED
    BY <2>2, <2>3 DEF Histories
<1>6. r = [req[c] EXCEPT !.step = "respond", !.seen = read]
  BY <1>2, <1>4, <1>5
<1> HIDE DEF r
<1>7. r \in Request /\ r.step = "respond" /\ r.op = req[c].op /\ r.seen = read /\ r.moved = req[c].moved
  BY <1>3, <1>6 DEF Request, Steps
<1>8. PICK k \in Request : k = r /\ k.step = "respond" /\ k.op = req[c].op /\ k.seen = read /\ k.moved = req[c].moved
  BY <1>7
<1>9. Others({c}) /\ req'[c] = k
  BY <1>1, <1>8, OvertakesOthers
<1>10. late' \subseteq Reply /\ \A l \in late' : l.moved /\ \E m \in late : l.seen = m.seen
  BY <1>1, RepliesOvertaken DEF LateOutdated, TypeInv
<1>11. TypeInv'
  <2>1. SeenAt(req[c].seen, Replies(c))' /\ req'[c].step # "delete"
    BY <1>2, <1>4, <1>5, <1>8, <1>9 DEF SeenAt
  <2>2. Len(messages') \in Orders /\ Len(messages') >= Len(messages)
    BY <1>4, ConstantTypes DEF Orders
  <2>3. strayed' \in BOOLEAN
    BY <1>1 DEF Insert
  <2> QED
    BY <1>1, <1>4, <1>9, <1>10, <2>1, <2>2, <2>3, OvertakenTypes
<1>12. ASSUME ~strayed' PROVE HistoryInv' /\ All(read)'
  <2>1. ~strayed /\ ~req[c].moved
    BY <1>1, <1>12 DEF Insert
  <2>2. All(seen)
    BY <1>1, <1>2, <2>1 DEF RequestInv, RequestAt
  <2>3. Fills(Live, Len(seen)) /\ First(seen, Len(seen)) /\ Len(seen) > 0
    BY <2>1, <2>2, AllFills
  <2>4. /\ HistoryInv' /\ Fills(Live, Len(seen) + 1)'
        /\ First(Append(seen, new), Len(seen) + 1)'
    <3>1. Insert(Len(seen), "user", seen, req[c].moved)
      BY <1>1, <1>2
    <3>2. Len(seen) # 0
      BY <1>2, <2>3
    <3>3. /\ HistoryInv' /\ Fills(Live, Len(seen) + 1)'
          /\ \A q \in Histories, m \in Ids : First(q, Len(seen)) /\ m = Len(messages) + 1 =>
               First(q, Len(seen))' /\ First(Append(q, m), Len(seen) + 1)'
      BY <1>3, <2>1, <2>3, <3>1, <3>2, HistoryGrows
    <3> QED
      BY <1>4, <2>3, <3>3
  <2>5. First(read, Len(read))' /\ \A m \in Live' : messages'[m].order < Len(read)
    BY <1>5, <2>4 DEF Fills, First
  <2> QED
    BY <1>5, <2>4, <2>5 DEF All
<1>13. RequestInv'
  <2>1. \A d \in Clients \ {c} : ~req'[d].moved => RequestAt(d)'
    BY <1>9, OthersRely
  <2>2. ~strayed' => RequestAt(c)'
    BY <1>8, <1>9, <1>12 DEF RequestAt
  <2> QED
    BY <1>10, <2>1, <2>2 DEF RequestInv
<1>14. HistoryInv'
  BY <1>12 DEF HistoryInv
<1> QED
  BY <1>11, <1>13, <1>14

\* A reply takes its position from what it answers.
LEMMA Stores ==
  ASSUME TopicAssumption, IInv, NEW seen \in Histories, NEW moved \in BOOLEAN,
         Insert(NextOrder(seen), "assistant", seen, moved), SeenAt(seen, TRUE),
         ~strayed /\ ~moved => All(seen)
  PROVE  /\ HistoryInv' /\ strayed' \in BOOLEAN
         /\ messages' \in Seq(Row) /\ Len(messages') \in Orders /\ Len(messages') >= Len(messages)
<1> USE DEF IInv
<1>1. Len(seen) \in Nat /\ Len(seen) <= Len(messages) /\ Len(messages) <= MaxMessages /\ Len(messages) \in Nat
  BY LenProperties, Rows DEF SeenAt, Histories
<1>2. NextOrder(seen) \in Orders
  BY <1>1, ConstantTypes DEF NextOrder, SeenAt, Orders
<1>3. messages' \in Seq(Row) /\ Len(messages') = Len(messages) + 1 /\ Len(messages) + 1 <= MaxMessages
  BY <1>2, Inserts
<1>4. strayed' \in BOOLEAN
  BY DEF Insert
<1>5. ASSUME ~strayed' PROVE HistoryInv'
  <2>1. ~strayed /\ ~moved
    BY <1>5 DEF Insert
  <2>2. Fills(Live, Len(seen)) /\ First(seen, Len(seen)) /\ Len(seen) > 0 /\ seen # <<>>
    BY <2>1, AllFills
  <2>3. NextOrder(seen) = Len(seen)
    BY <2>2 DEF NextOrder
  <2> QED
    BY <1>2, <2>1, <2>2, <2>3, HistoryGrows
<1>6. Len(messages') \in Orders /\ Len(messages') >= Len(messages)
  BY <1>1, <1>3, ConstantTypes DEF Orders
<1> QED
  BY <1>3, <1>4, <1>5, <1>6 DEF HistoryInv

\* A reply is stored by its request, ...
LEMMA AnswerStep ==
  ASSUME TopicAssumption, IInv, NEW c \in Clients, Answer(c)
  PROVE  IInv'
<1> USE DEF IInv
<1>1. /\ req[c].step = "respond" /\ Insert(NextOrder(req[c].seen), "assistant", req[c].seen, req[c].moved)
      /\ req' = [Outdated EXCEPT ![c] = Idle] /\ late' = LateOutdated /\ UNCHANGED <<topic, failures>>
  BY DEF Answer
<1>2. req[c].seen \in Histories /\ req[c].moved \in BOOLEAN /\ SeenAt(req[c].seen, TRUE)
  BY <1>1 DEF TypeInv, Request, SeenAt, Replies
<1>3. ~strayed /\ ~req[c].moved => All(req[c].seen)
  BY <1>1 DEF RequestInv, RequestAt
<1>4. /\ HistoryInv' /\ strayed' \in BOOLEAN
      /\ messages' \in Seq(Row) /\ Len(messages') \in Orders /\ Len(messages') >= Len(messages)
  BY <1>1, <1>2, <1>3, Stores
<1>5. Others({c}) /\ req'[c] = Idle
  BY <1>1, IdleRequest, OvertakesOthers
<1>6. late' \subseteq Reply /\ \A l \in late' : l.moved /\ \E m \in late : l.seen = m.seen
  BY <1>1, RepliesOvertaken DEF LateOutdated, TypeInv
<1>7. TypeInv'
  <2>1. Len(messages') \in Nat
    BY <1>4, ConstantTypes DEF Orders
  <2>2. SeenAt(req[c].seen, Replies(c))' /\ req'[c].step # "delete"
    BY <1>5, <2>1, IdleRequest, EmptySeq DEF SeenAt, Replies
  <2> QED
    BY <1>1, <1>4, <1>5, <1>6, <2>2, OvertakenTypes
<1>8. RequestInv'
  <2>1. \A d \in Clients \ {c} : ~req'[d].moved => RequestAt(d)'
    BY <1>5, OthersRely
  <2>2. RequestAt(c)'
    BY <1>5, IdleRequest DEF RequestAt
  <2> QED
    BY <1>6, <2>1, <2>2 DEF RequestInv
<1> QED
  BY <1>4, <1>7, <1>8

\* ... or by the thread it was handed to, ...
LEMMA StoreLateStep ==
  ASSUME TopicAssumption, IInv, StoreLate
  PROVE  IInv'
<1> USE DEF IInv
<1>1. PICK l \in late : /\ Insert(NextOrder(l.seen), "assistant", l.seen, l.moved)
                        /\ late' = {[k EXCEPT !.moved = TRUE] : k \in late \ {l}}
  BY DEF StoreLate
<1>2. req' = Outdated /\ UNCHANGED <<topic, failures>>
  BY DEF StoreLate
<1>3. l.seen \in Histories /\ l.moved \in BOOLEAN /\ SeenAt(l.seen, TRUE)
  BY DEF TypeInv, Reply
<1>4. ~strayed /\ ~l.moved => All(l.seen)
  BY DEF RequestInv
<1>5. /\ HistoryInv' /\ strayed' \in BOOLEAN
      /\ messages' \in Seq(Row) /\ Len(messages') \in Orders /\ Len(messages') >= Len(messages)
  BY <1>1, <1>3, <1>4, Stores
<1>6. Others({})
  BY <1>2, OvertakesAll
<1>7. late' \subseteq Reply /\ \A r \in late' : r.moved /\ \E m \in late : r.seen = m.seen
  <2> DEFINE L == late \ {l}
             M == {[k EXCEPT !.moved = TRUE] : k \in L}
  <2>1. L \subseteq Reply /\ late' = M
    BY <1>1 DEF TypeInv
  <2>2. M \subseteq Reply /\ \A r \in M : r.moved /\ \E m \in L : r.seen = m.seen
    <3> HIDE DEF L
    <3> QED
      BY <2>1, RepliesOvertaken
  <2> HIDE DEF M
  <2> QED
    BY <2>1, <2>2
<1>8. TypeInv'
  BY <1>2, <1>5, <1>6, <1>7, OvertakenTypes
<1>9. RequestInv'
  <2>1. \A d \in Clients : ~req'[d].moved => RequestAt(d)'
    BY <1>6, OthersRely
  <2> QED
    BY <1>7, <2>1 DEF RequestInv
<1> QED
  BY <1>5, <1>8, <1>9

\* ... which then holds what the request had read.
LEMMA StreamStep ==
  ASSUME TopicAssumption, IInv, NEW c \in Clients, Stream(c)
  PROVE  IInv'
<1> USE DEF IInv
<1> DEFINE r == [seen |-> req[c].seen, moved |-> req[c].moved]
<1>1. /\ req[c].step = "respond" /\ late' = late \cup {r} /\ Finish(c)
      /\ UNCHANGED <<topic, messages, strayed, failures>>
  BY DEF Stream
<1>2. r \in Reply /\ r.seen = req[c].seen /\ r.moved = req[c].moved
  BY DEF TypeInv, Request, Reply
<1>3. SeenAt(r.seen, TRUE)
  BY <1>1 DEF TypeInv, SeenAt, Replies
<1>4. ~strayed /\ ~r.moved => All(r.seen)
  BY <1>1 DEF RequestInv, RequestAt
<1> HIDE DEF r
<1>5. late' \subseteq Reply /\ failures' \in 0 .. MaxFailures
  BY <1>1, <1>2 DEF TypeInv
<1>6. \A l \in late' : l \in late \/ (SeenAt(l.seen, TRUE) /\ (~strayed /\ ~l.moved => All(l.seen)))
  BY <1>1, <1>3, <1>4
<1> QED
  BY <1>1, <1>5, <1>6, Finishes

\* A request may end anywhere.
LEMMA RequestFailsStep ==
  ASSUME TopicAssumption, IInv, NEW c \in Clients, RequestFails(c)
  PROVE  IInv'
<1>1. /\ Finish(c) /\ UNCHANGED <<topic, messages, late, strayed>>
      /\ late \subseteq Reply /\ failures' \in 0 .. MaxFailures
  BY ConstantTypes DEF RequestFails, IInv, TypeInv
<1> QED
  BY <1>1, Finishes

\* What neither a request nor the messages notice.
LEMMA Apart ==
  ASSUME TopicAssumption, IInv, UNCHANGED <<messages, req, strayed>>, topic' \in {"none", "live", "deleted"},
         late' \subseteq late, failures' \in 0 .. MaxFailures
  PROVE  IInv'
<1>1. Live' = Live
  BY DEF Live
<1>2. /\ \A s, r : SeenAt(s, r)' <=> SeenAt(s, r)
      /\ \A c \in Clients : (Replies(c)' <=> Replies(c)) /\ (RequestAt(c)' <=> RequestAt(c))
      /\ \A q : All(q)' <=> All(q)
      /\ \A n : Fills(Live, n)' <=> Fills(Live, n)
      /\ \A m : MessageAt(m)' <=> MessageAt(m)
  BY <1>1 DEF SeenAt, Replies, RequestAt, All, First, Fills, MessageAt
<1>3. TypeInv'
  <2>1. \A c \in Clients : SeenAt(req[c].seen, Replies(c))'
    BY DEF SeenAt, Replies, IInv, TypeInv
  <2>2. \A l \in late' : SeenAt(l.seen, TRUE)'
    BY DEF SeenAt, IInv, TypeInv
  <2> QED
    BY <2>1, <2>2 DEF IInv, TypeInv
<1>4. HistoryInv'
  BY <1>1, <1>2 DEF IInv, HistoryInv
<1>5. RequestInv'
  BY <1>2 DEF IInv, RequestInv
<1> QED
  BY <1>3, <1>4, <1>5 DEF IInv

\* The topic's row, and a reply that is lost.
LEMMA TopicSteps ==
  ASSUME TopicAssumption, IInv, CreateTopic \/ DeleteTopic \/ LateFails \/ UNCHANGED vars
  PROVE  IInv'
<1>1. UNCHANGED <<messages, req, strayed>>
  BY DEF CreateTopic, DeleteTopic, LateFails, vars
<1>2. topic' \in {"none", "live", "deleted"}
  BY DEF CreateTopic, DeleteTopic, LateFails, vars, IInv, TypeInv
<1>3. late' \subseteq late
  BY DEF CreateTopic, DeleteTopic, LateFails, vars
<1>4. failures' \in 0 .. MaxFailures
  BY ConstantTypes DEF CreateTopic, DeleteTopic, LateFails, vars, IInv, TypeInv
<1> QED
  BY <1>1, <1>2, <1>3, <1>4, Apart

\* Together.
LEMMA StepInvariant ==
  ASSUME TopicAssumption, IInv, [Next]_vars
  PROVE  IInv'
<1>1. CASE \E c \in Clients :
             \/ CreateMessage(c) \/ EditMessage(c) \/ RegenerateMessage(c)
             \/ DeleteMessage(c) \/ CheckPlan(c) \/ ReadTopic(c)
  BY <1>1, CreateMessageStep, EditMessageStep, RegenerateMessageStep, DeleteMessageStep, CheckPlanStep,
     ReadTopicStep
<1>2. CASE \E c \in Clients :
             \/ CreateSystemMessage(c) \/ CreateUserMessage(c)
             \/ Answer(c) \/ Stream(c) \/ RequestFails(c)
  BY <1>2, CreateSystemMessageStep, CreateUserMessageStep, AnswerStep, StreamStep, RequestFailsStep
<1>3. CASE StoreLate
  BY <1>3, StoreLateStep
<1>4. CASE CreateTopic \/ DeleteTopic \/ LateFails \/ UNCHANGED vars
  BY <1>4, TopicSteps
<1> QED
  BY <1>1, <1>2, <1>3, <1>4 DEF Next

--------------------------------------------------------------------------------
\* The strengthening is an invariant: what a request has read is still all
\* there is, unless it was overtaken.
THEOREM InductiveInvariant == TopicAssumption /\ Spec => []IInv
<1> SUFFICES ASSUME TopicAssumption PROVE Spec => []IInv
  OBVIOUS
<1>1. Init => IInv
  BY InitInvariant
<1>2. IInv /\ [Next]_vars => IInv'
  BY StepInvariant
<1> QED
  BY <1>1, <1>2, PTL DEF Spec

\* Its types are finer than those of TypeOK.
LEMMA InvariantTypes == TopicAssumption /\ IInv => TypeOK
<1> SUFFICES ASSUME TopicAssumption, TypeInv PROVE TypeOK
  BY DEF IInv
<1>1. \A m \in DOMAIN messages : messages[m] \in Row
  BY Rows
<1> QED
  BY <1>1 DEF TypeInv, TypeOK, Row, Request, Reply

\* TypeOK holds in every state, for any number of requests, messages and
\* failures: above all, a position never exceeds the number of rows.
THEOREM TypeCorrect == TopicAssumption /\ Spec => []TypeOK
<1> SUFFICES ASSUME TopicAssumption PROVE Spec => []TypeOK
  OBVIOUS
<1> QED
  BY InvariantTypes, InductiveInvariant, PTL

\* HistoryHoldsTogether holds in every state: through any creates, edits,
\* regenerations, streams and failures the positions of a conversation stay
\* without gap or repetition and every reply answers what stands before it,
\* as long as nobody stored a message on a read that was overtaken.
THEOREM HistoryHolds == TopicAssumption /\ Spec => []HistoryHoldsTogether
<1> SUFFICES ASSUME TopicAssumption PROVE Spec => []HistoryHoldsTogether
  OBVIOUS
<1>1. IInv => HistoryHoldsTogether
  BY History DEF IInv
<1> QED
  BY <1>1, InductiveInvariant, PTL
================================================================================
