------------------------------ MODULE Conversations ------------------------------
(* The messages of one topic: create_message, edit_message and regenerate_message   *)
(* as the database calls they make, and the thread that stores a streamed reply     *)
(* after the request has ended.  A message is the index of its row; the position    *)
(* of a message (sort_order) is the number of messages its request has seen, and no *)
(* constraint of the table keeps two messages from one position.                    *)
EXTENDS Integers, Sequences, FiniteSets

CONSTANTS
    Clients,        \* requests that may run at a time
    PlanMessages,   \* message_count of the organization's plan
    MaxMessages,    \* bound: rows ever inserted
    MaxFailures     \* bound: failed searches, model calls and database calls

TopicAssumption == {PlanMessages, MaxMessages, MaxFailures} \subseteq Nat

VARIABLES
    topic,          \* the topic's row: "none", "live" or (soft) "deleted"
    messages,       \* the rows of messages, in the order of their insertion
    req,            \* the request of each client
    late,           \* streamed replies not stored yet
    strayed,        \* a message was stored though others changed the topic since its read
    failures

vars == <<topic, messages, req, late, strayed, failures>>

Orders == 0 .. MaxMessages
Ids == 1 .. MaxMessages
Steps == {"idle", "delete", "count", "read", "system", "user", "respond"}
Histories == Seq(Ids)

TypeOK ==
    /\ topic \in {"none", "live", "deleted"}
    /\ Len(messages) \in Orders
    /\ \A m \in DOMAIN messages :
         /\ messages[m].order \in Orders
         /\ messages[m].role \in {"system", "user", "assistant"}
         /\ messages[m].deleted \in BOOLEAN
         /\ messages[m].answers \in Histories
    /\ \A c \in Clients :
         /\ req[c].op \in {"create", "edit", "regenerate"}
         /\ req[c].step \in Steps
         /\ req[c].at \in Orders
         /\ req[c].seen \in Histories
         /\ req[c].moved \in BOOLEAN
    /\ late \subseteq [seen : Histories, moved : BOOLEAN]
    /\ strayed \in BOOLEAN
    /\ failures \in 0 .. MaxFailures

Idle == [op |-> "create", step |-> "idle", at |-> 0, seen |-> <<>>, moved |-> FALSE]

Init ==
    /\ topic = "none" /\ messages = <<>> /\ late = {}
    /\ req = [c \in Clients |-> Idle]
    /\ strayed = FALSE /\ failures = 0

--------------------------------------------------------------------------------
Live == {m \in DOMAIN messages : ~messages[m].deleted}

\* The messages of S in the order of their positions.
Before(a, b) == \/ messages[a].order < messages[b].order
                \/ messages[a].order = messages[b].order /\ a < b
InPosition(S) ==
    [i \in 1 .. Cardinality(S) |->
        CHOOSE m \in S : Cardinality({n \in S : Before(n, m)}) = i - 1]

GetTopicMessages == InPosition(Live)

\* One INSERT: `role` at the position `order`, on top of the messages `seen`.
Insert(order, role, seen, moved) ==
    /\ Len(messages) < MaxMessages
    /\ messages' = Append(messages, [order |-> order, role |-> role, deleted |-> FALSE,
                                     answers |-> IF role = "assistant" THEN seen ELSE <<>>])
    /\ strayed' = (strayed \/ moved)

\* Whoever has read the messages before they change goes on with what it has read.
Holds(c) == \/ req[c].step \in {"system", "user", "respond"}
            \/ req[c].op = "regenerate" /\ req[c].step = "delete"
Outdated == [c \in Clients |-> [req[c] EXCEPT !.moved = @ \/ Holds(c)]]
LateOutdated == {[l EXCEPT !.moved = TRUE] : l \in late}

\* A reply goes behind the messages it answers.
NextOrder(seen) == IF seen = <<>> THEN 2 ELSE Len(seen)

\* Mutant: the message itself stays.
DeletedBehind(order) ==
    [m \in DOMAIN messages |->
        [messages[m] EXCEPT !.deleted = @ \/ messages[m].order > order]]

\* A delete takes the message and everything at its position or behind it.
DeletedFrom(order) ==
    [m \in DOMAIN messages |->
        [messages[m] EXCEPT !.deleted = @ \/ messages[m].order >= order]]

Goto(c, step) == req' = [req EXCEPT ![c].step = step]
Finish(c) == req' = [req EXCEPT ![c] = Idle]

--------------------------------------------------------------------------------
CreateTopic ==
    /\ topic = "none"
    /\ topic' = "live"
    /\ UNCHANGED <<messages, req, late, strayed, failures>>

\* A soft delete, which leaves the messages as they are.
DeleteTopic ==
    /\ topic = "live"
    /\ topic' = "deleted"
    /\ UNCHANGED <<messages, req, late, strayed, failures>>

\* The plan's limit is compared with the rows ever inserted, deleted or not.
WithinPlan == Len(messages) < PlanMessages

CreateMessage(c) ==
    /\ req[c].step = "idle"
    /\ WithinPlan
    /\ Goto(c, "read")
    /\ UNCHANGED <<topic, messages, late, strayed, failures>>

\* The message to edit is looked up by its position among those not deleted.
EditMessage(c) ==
    /\ req[c].step = "idle"
    /\ \E m \in Live :
         req' = [req EXCEPT ![c] = [Idle EXCEPT !.op = "edit", !.step = "delete",
                                                !.at = messages[m].order]]
    /\ UNCHANGED <<topic, messages, late, strayed, failures>>

\* An edit deletes first and then is a create; a regenerated reply comes next.
DeleteMessage(c) ==
    /\ req[c].step = "delete"
    /\ messages' = DeletedFrom(req[c].at)
    /\ req' = [Outdated EXCEPT ![c] = [req[c] EXCEPT !.step =
                                    IF req[c].op = "edit" THEN "count" ELSE "respond"]]
    /\ late' = LateOutdated
    /\ UNCHANGED <<topic, strayed, failures>>

\* By then the message is gone, whether or not the plan allows another one.
CheckPlan(c) ==
    /\ req[c].step = "count"
    /\ IF WithinPlan THEN Goto(c, "read") ELSE Finish(c)
    /\ UNCHANGED <<topic, messages, late, strayed, failures>>

ReadTopic(c) ==
    /\ req[c].step = "read"
    /\ req' = [req EXCEPT ![c].step = IF Live = {} THEN "system" ELSE "user",
                          ![c].seen = GetTopicMessages]
    /\ UNCHANGED <<topic, messages, late, strayed, failures>>

\* The last reply is found, and what precedes it is what the new one answers.
RegenerateMessage(c) ==
    /\ req[c].step = "idle"
    /\ LET previous == GetTopicMessages
           replies == {i \in DOMAIN previous : messages[previous[i]].role = "assistant"}
           last == CHOOSE i \in replies : \A j \in replies : j <= i
           begun == [Idle EXCEPT !.op = "regenerate"]
       IN  \/ /\ Len(previous) = 2
              /\ req' = [req EXCEPT ![c] = [begun EXCEPT !.step = "respond", !.seen = previous]]
           \/ /\ Len(previous) > 2 /\ replies # {}
              /\ req' = [req EXCEPT ![c] = [begun EXCEPT !.step = "delete",
                                                         !.at = messages[previous[last]].order,
                                                         !.seen = SubSeq(previous, 1, last - 1)]]
    /\ UNCHANGED <<topic, messages, late, strayed, failures>>

\* Only the first message of a conversation asks whether its topic is there.
CreateSystemMessage(c) ==
    /\ req[c].step = "system"
    /\ IF topic = "live"
       THEN /\ Insert(0, "system", <<>>, req[c].moved)
            /\ req' = [Outdated EXCEPT ![c] = [req[c] EXCEPT !.step = "user",
                                                             !.seen = <<Len(messages) + 1>>]]
            /\ late' = LateOutdated
       ELSE Finish(c) /\ UNCHANGED <<messages, late, strayed>>
    /\ UNCHANGED <<topic, failures>>

CreateUserMessage(c) ==
    /\ req[c].step = "user"
    /\ Insert(Len(req[c].seen), "user", req[c].seen, req[c].moved)
    /\ req' = [Outdated EXCEPT ![c] = [req[c] EXCEPT !.step = "respond",
                                                     !.seen = Append(@, Len(messages) + 1)]]
    /\ late' = LateOutdated
    /\ UNCHANGED <<topic, failures>>

\* stream_response when the reply is not streamed: stored, then returned.
Answer(c) ==
    /\ req[c].step = "respond"
    /\ Insert(NextOrder(req[c].seen), "assistant", req[c].seen, req[c].moved)
    /\ req' = [Outdated EXCEPT ![c] = Idle]
    /\ late' = LateOutdated
    /\ UNCHANGED <<topic, failures>>

\* When it is, a thread of its own waits for the end of the stream.
Stream(c) ==
    /\ req[c].step = "respond"
    /\ late' = late \cup {[seen |-> req[c].seen, moved |-> req[c].moved]}
    /\ Finish(c)
    /\ UNCHANGED <<topic, messages, strayed, failures>>

StoreLate ==
    /\ \E l \in late :
         /\ Insert(NextOrder(l.seen), "assistant", l.seen, l.moved)
         /\ late' = {[k EXCEPT !.moved = TRUE] : k \in late \ {l}}
    /\ req' = Outdated
    /\ UNCHANGED <<topic, failures>>

\* A database call, the search or the model fails: the request ends where it is.
RequestFails(c) ==
    /\ failures < MaxFailures
    /\ req[c].step # "idle"
    /\ Finish(c)
    /\ failures' = failures + 1
    /\ UNCHANGED <<topic, messages, late, strayed>>

\* The thread ignores the result of its insert, and dies with its server.
LateFails ==
    /\ failures < MaxFailures
    /\ \E l \in late : late' = late \ {l}
    /\ failures' = failures + 1
    /\ UNCHANGED <<topic, messages, req, strayed>>

Next ==
    \/ CreateTopic \/ DeleteTopic \/ StoreLate \/ LateFails
    \/ \E c \in Clients :
         \/ CreateMessage(c) \/ EditMessage(c) \/ RegenerateMessage(c)
         \/ DeleteMessage(c) \/ CheckPlan(c) \/ ReadTopic(c)
         \/ CreateSystemMessage(c) \/ CreateUserMessage(c)
         \/ Answer(c) \/ Stream(c) \/ RequestFails(c)

Spec == Init /\ [][Next]_vars

--------------------------------------------------------------------------------
(* As long as no message was stored by a request (or a thread) that others had      *)
(* overtaken since its read, the conversation holds together through any creates,   *)
(* edits, regenerations and failures: its positions are 0 .. n-1 without a gap or a *)
(* repetition, it opens with the system message, and every reply in it answers      *)
(* exactly the messages that stand before it (delete_message_query cuts at the      *)
(* position from which create_topic_message_query and stream_response count on).    *)
HistoryHoldsTogether ==
    ~strayed =>
        /\ {messages[m].order : m \in Live} = 0 .. Cardinality(Live) - 1
        /\ \A m \in Live :
             /\ messages[m].order = 0 <=> messages[m].role = "system"
             /\ messages[m].role = "assistant" =>
                  messages[m].answers = InPosition({n \in Live : messages[n].order < messages[m].order})

Together == ~strayed
================================================================================
