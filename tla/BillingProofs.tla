------------------------------ MODULE BillingProofs ------------------------------
(***************************************************************************)
(* Proofs about Billing for any number of subscriptions, plans, requests,  *)
(* invoices and requests cut short.                                        *)
(***************************************************************************)
EXTENDS Billing, FiniteSetTheorems, WellFoundedInduction, TLAPS

Steps == {"idle", "existing", "delete", "insert", "look", "store", "org", "end", "reply", "plan"}

\* What request h is about.
Webhook(h)  == handler[h].step \notin {"idle", "plan"}
Checks(h)   == Webhook(h) /\ handler[h].event.kind = "checkout"
Replaces(h) == handler[h].step \in {"existing", "delete", "insert"}
Of(h)       == SubOf(handler[h].event)

\* An event that is being handled will be posted again until it is answered, and
\* one request handles it at a time.
HandlerAt(h) ==
  /\ handler[h].step = "idle" => handler[h] = Idle
  /\ handler[h].step = "plan" => handler[h].event = None /\ handler[h].plan \in Plans
  /\ Webhook(h) => handler[h].event \in outbox
  /\ Replaces(h) => handler[h].event.kind = "checkout"
  /\ handler[h].step = "org" => handler[h].event.kind = "paid"
  /\ handler[h].step = "end" => handler[h].event.kind = "ended"
  /\ handler[h].step \in {"look", "store"} => handler[h].event.kind \in {"checkout", "paid"}

HandlerInv ==
  /\ \A h \in Handlers : HandlerAt(h)
  /\ \A g, h \in Handlers : Webhook(g) /\ Webhook(h) /\ handler[g].event = handler[h].event => g = h

\* Events, rows and invoices are of subscriptions that were bought, and no two
\* rows of the same one.
MadeInv ==
  /\ \A e \in outbox : stripe[SubOf(e)].status # "none"
  /\ \A r \in subscriptions : stripe[r.sub].status # "none"
  /\ \A r, q \in subscriptions : r.sub = q.sub => r = q
  /\ \A i \in Invoice : invoices[i] > 0 => stripe[i[1]].status # "none"
  /\ \A s \in Subscriptions : stripe[s].status # "none" => stripe[s].bought \in Plans

\* Only a checkout and a payment can be about to store one invoice.
StoreInv ==
  \A h \in Handlers : handler[h].step = "store" =>
    /\ invoices[handler[h].event.invoice] <= 1
    /\ \A g \in Handlers \ {h} :
         handler[g].step = "store" /\ handler[g].event.invoice = handler[h].event.invoice =>
           invoices[handler[h].event.invoice] = 0

\* The checkout of s has not come to its insert.
Pending(s) == Checkout(s) \in outbox /\ \A h \in Handlers : Webhook(h) /\ handler[h].event = Checkout(s) => Replaces(h)

\* A checkout was answered without being read.
Missed == \E s \in Subscriptions : Checkout(s) \in unread

\* Whoever took the last row away has not come to its insert, unless its checkout was not read when it was
\* posted again.
SubscribedInv ==
  \/ Missed
  \/ subscriptions # {}
  \/ Acknowledged = {} /\ \A h \in Handlers : Checks(h) => Replaces(h)
  \/ \E s \in Subscriptions : Pending(s)

\* While no two requests run together.
AloneAt(h) ==
  /\ handler[h].step = "insert" => subscriptions = {}
  /\ handler[h].step \in {"delete", "plan"} => \A r \in subscriptions : r.id = handler[h].row
  /\ Checks(h) => last = Of(h) /\ (Replaces(h) \/ \E r \in subscriptions : r.sub = Of(h))
  /\ handler[h].step = "store" => invoices[handler[h].event.invoice] = 0

AloneInv ==
  ~overlapped =>
    /\ \A g, h \in Handlers : handler[g].step # "idle" /\ handler[h].step # "idle" => g = h
    /\ \A r, q \in subscriptions : r = q
    /\ \A h \in Handlers : AloneAt(h)
    /\ last \in Acknowledged => \E r \in subscriptions : r.sub = last
    /\ \A i \in Invoice : invoices[i] <= 1

\* And none of them was cut short: the plan of the row is the one that Stripe
\* charges, or is about to be.
SmoothAt(h) ==
  /\ handler[h].step = "plan" => \A r \in subscriptions : handler[h].plan = stripe[r.sub].plan
  /\ handler[h].step \in {"look", "store"} =>
       IF handler[h].event.kind = "checkout" THEN \A j \in 1 .. MaxInvoices : invoices[<<Of(h), j>>] = 0
                                             ELSE Checkout(Of(h)) \notin outbox

SmoothInv ==
  ~overlapped /\ failures = 0 =>
    /\ \A s \in Subscriptions : Pending(s) =>
         /\ stripe[s].plan = stripe[s].bought
         /\ \A r \in subscriptions : r.sub # s
         /\ \A j \in 1 .. MaxInvoices : invoices[<<s, j>>] = 0
    /\ (\A h \in Handlers : handler[h].step # "plan") => \A r \in subscriptions : r.plan = stripe[r.sub].plan
    /\ \A h \in Handlers : SmoothAt(h)

IInv == TypeOK /\ HandlerInv /\ MadeInv /\ StoreInv /\ SubscribedInv /\ AloneInv /\ SmoothInv /\ BillingFollowsStripe

\* The constants are what Billing assumes of them.
LEMMA ConstantTypes ==
  ASSUME BillingAssumption
  PROVE  /\ Offered \subseteq Plans /\ IsFiniteSet(Handlers) /\ Cardinality(Handlers) \in Nat
         /\ LastSubscription \in Nat /\ MaxInvoices \in Nat /\ MaxInvoices >= 1 /\ MaxDisturbances \in Nat
         /\ MaxUnread \in Nat
BY FS_CardinalityType DEF BillingAssumption

\* What an event says.
LEMMA EventShape ==
  ASSUME BillingAssumption, NEW e \in Event
  PROVE  /\ SubOf(e) \in Subscriptions /\ e.invoice \in Invoice /\ e.invoice[1] = SubOf(e)
         /\ e.invoice = <<SubOf(e), e.invoice[2]>> /\ e.invoice[2] \in 1 .. MaxInvoices
         /\ e.kind \in {"checkout", "paid", "ended"}
         /\ e.kind = "checkout" => e = Checkout(SubOf(e)) /\ e.invoice = <<SubOf(e), 1>>
         /\ e.kind = "paid" => e = Paid(e.invoice)
         /\ e.kind = "ended" => e = Ended(SubOf(e))
BY ConstantTypes DEF Event, Checkout, Paid, Ended, SubOf, Invoice

\* And of which subscription it says it.
LEMMA Events ==
  ASSUME BillingAssumption
  PROVE  /\ \A s \in Subscriptions :
              /\ Checkout(s) \in Event /\ Checkout(s).kind = "checkout" /\ SubOf(Checkout(s)) = s
              /\ Ended(s) \in Event /\ Ended(s).kind = "ended" /\ SubOf(Ended(s)) = s
         /\ \A i \in Invoice : Paid(i) \in Event /\ Paid(i).kind = "paid" /\ SubOf(Paid(i)) = i[1]
BY ConstantTypes DEF Event, Checkout, Paid, Ended, SubOf, Invoice

Work == [step : Steps, event : Event \cup {None}, row : Ids \cup {None}, plan : Plans \cup {None}]

\* The type of a request, on its own.
LEMMA HandlerTypes ==
  ASSUME TypeOK
  PROVE  handler \in [Handlers -> Work] /\ Idle \in Work
BY DEF TypeOK, Work, Steps, Idle

--------------------------------------------------------------------------------
(* How requests move.                                                       *)

\* The other requests stay where they are.
Others(h) ==
  /\ handler' \in [Handlers -> Work]
  /\ \A g \in Handlers \ {h} : handler'[g] = handler[g]

\* A request is replaced by another record.
LEMMA Replaced ==
  ASSUME TypeOK, NEW h \in Handlers, NEW k \in Work, handler' = [handler EXCEPT ![h] = k]
  PROVE  Others(h) /\ handler'[h] = k
BY HandlerTypes DEF Others

\* A request goes to its next statement.
LEMMA Goes ==
  ASSUME TypeOK, NEW h \in Handlers, NEW step \in Steps, GoTo(h, step)
  PROVE  /\ Others(h) /\ handler'[h].step = step
         /\ handler'[h].event = handler[h].event /\ handler'[h].row = handler[h].row
         /\ handler'[h].plan = handler[h].plan
<1> DEFINE k == [handler[h] EXCEPT !.step = step]
<1>1. handler[h] \in Work
  BY HandlerTypes
<1>2. /\ k \in Work /\ k.step = step /\ k.event = handler[h].event /\ k.row = handler[h].row
      /\ k.plan = handler[h].plan
  BY <1>1 DEF Work
<1>3. handler' = [handler EXCEPT ![h] = k]
  BY DEF GoTo
<1> HIDE DEF k
<1> QED
  BY <1>2, <1>3, Replaced

\* A request is over.
LEMMA IsOver ==
  ASSUME TypeOK, NEW h \in Handlers, Fails(h)
  PROVE  Others(h) /\ handler'[h] = Idle
BY HandlerTypes, Replaced DEF Fails

--------------------------------------------------------------------------------
(* There is always an id for a new row.                                     *)

\* Rows and requests use up fewer ids than there are: each row is of another subscription, and the one to
\* be inserted has none yet.
LEMMA FreshId ==
  ASSUME BillingAssumption, TypeOK, MadeInv, NEW h \in Handlers, NEW s \in Subscriptions,
         \A r \in subscriptions : r.sub # s
  PROVE  Ids \ ({r.id : r \in subscriptions} \cup {handler[g].row : g \in Handlers}) # {}
<1> DEFINE R == {r.id : r \in subscriptions}
           H == {handler[g].row : g \in Handlers}
           rest == Subscriptions \ {s}
<1>1. IsFiniteSet(Subscriptions) /\ Cardinality(Subscriptions) = LastSubscription
  BY ConstantTypes, FS_Interval DEF Subscriptions
<1>2. IsFiniteSet(rest) /\ Cardinality(rest) = LastSubscription - 1
  BY <1>1, FS_RemoveElement
<1>3. IsFiniteSet(subscriptions) /\ Cardinality(subscriptions) <= LastSubscription - 1
  <2> DEFINE f == [r \in subscriptions |-> r.sub]
  <2>1. f \in [subscriptions -> rest]
    BY DEF TypeOK, Row
  <2>2. \A r, q \in subscriptions : f[r] = f[q] => r = q
    BY DEF MadeInv
  <2>3. f \in Injection(subscriptions, rest)
    BY <2>1, <2>2 DEF Injection, IsInjective
  <2> HIDE DEF f, rest
  <2> QED
    BY <1>2, <2>3, FS_Injection
<1>4. IsFiniteSet(R) /\ Cardinality(R) <= LastSubscription - 1
  <2> DEFINE f == [r \in subscriptions |-> r.id]
  <2>1. f \in Surjection(subscriptions, R)
    BY DEF Surjection
  <2> HIDE DEF f, R
  <2>2. IsFiniteSet(R) /\ Cardinality(R) <= Cardinality(subscriptions)
    BY <1>3, <2>1, FS_Surjection
  <2> QED
    BY <1>3, <2>2, FS_CardinalityType, ConstantTypes
<1>5. IsFiniteSet(H) /\ Cardinality(H) <= Cardinality(Handlers)
  <2> DEFINE f == [g \in Handlers |-> handler[g].row]
  <2>1. f \in Surjection(Handlers, H)
    BY DEF Surjection
  <2> HIDE DEF f, H
  <2> QED
    BY ConstantTypes, <2>1, FS_Surjection
<1> HIDE DEF R, H
<1>6. IsFiniteSet(R \cup H) /\ Cardinality(R \cup H) <= LastSubscription - 1 + Cardinality(Handlers)
  <2>1. Cardinality(R \cup H) = Cardinality(R) + Cardinality(H) - Cardinality(R \cap H)
        /\ IsFiniteSet(R \cup H)
    BY <1>4, <1>5, FS_Union
  <2>2. IsFiniteSet(R \cap H)
    BY <1>4, FS_Intersection
  <2>3. Cardinality(R \cap H) \in Nat /\ Cardinality(R) \in Nat /\ Cardinality(H) \in Nat
    BY <1>4, <1>5, <2>2, FS_CardinalityType
  <2> QED
    BY <1>4, <1>5, <2>1, <2>3, ConstantTypes
<1>7. Cardinality(Ids) = LastSubscription + Cardinality(Handlers)
  BY <1>1, ConstantTypes, FS_Interval DEF Ids
<1>8. ASSUME Ids \subseteq R \cup H PROVE FALSE
  <2>1. Cardinality(Ids) <= Cardinality(R \cup H)
    BY <1>6, <1>8, FS_Subset
  <2>2. Cardinality(R \cup H) \in Nat
    BY <1>6, FS_CardinalityType
  <2> QED
    BY <1>6, <1>7, <2>1, <2>2, ConstantTypes
<1> QED
  BY <1>8 DEF R, H

\* The bound on invoices is one on each subscription, too.
LEMMA RoomForInvoice ==
  ASSUME BillingAssumption, TypeOK, NEW s \in Subscriptions, Cardinality(Issued) < MaxInvoices
  PROVE  stripe[s].issued < MaxInvoices
<1> SUFFICES ASSUME stripe[s].issued >= MaxInvoices PROVE FALSE
  BY ConstantTypes DEF TypeOK
<1>1. IsFiniteSet(Invoice)
  <2>1. IsFiniteSet(Subscriptions) /\ IsFiniteSet(1 .. MaxInvoices)
    BY ConstantTypes, FS_Interval DEF Subscriptions
  <2> QED
    BY <2>1, FS_Product, Zenon DEF Invoice
<1>2. IsFiniteSet(Issued)
  BY <1>1, FS_Subset DEF Issued
<1> DEFINE f == [k \in 1 .. MaxInvoices |-> <<s, k>>]
<1>3. stripe[s].issued \in Nat
  BY ConstantTypes DEF TypeOK
<1>4. \A k \in 1 .. MaxInvoices : <<s, k>> \in Issued
  BY <1>3, ConstantTypes DEF Issued, Invoice
<1>5. f \in Injection(1 .. MaxInvoices, Issued)
  BY <1>4 DEF Injection, IsInjective
<1> HIDE DEF f
<1>6. Cardinality(1 .. MaxInvoices) <= Cardinality(Issued)
  BY <1>2, <1>5, FS_Injection
<1>7. Cardinality(1 .. MaxInvoices) = MaxInvoices
  BY ConstantTypes, FS_Interval
<1> QED
  BY <1>2, <1>6, <1>7, FS_CardinalityType, ConstantTypes

--------------------------------------------------------------------------------
(* Types.                                                                   *)

\* What Stripe and the requests of the organization do.
External ==
  \/ \E plan \in Offered : PaymentLink(plan)
  \/ \E row \in subscriptions : Cancel(row)
  \/ \E s \in Subscriptions : Renew(s) \/ Lapse(s) \/ \E plan \in Offered : Pay(s, plan)

\* What the request h does.
Handles(h) ==
  \/ WritePlan(h) \/ FindExisting(h) \/ DeleteExisting(h) \/ InsertSubscription(h)
  \/ FindOrganization(h) \/ InvoiceExists(h) \/ CreateInvoice(h) \/ SetPeriodEnd(h)
  \/ Reply(h) \/ Dies(h)

\* A step is external, or of one request.
LEMMA Actions ==
  Next => \/ External
          \/ \E event \in outbox : Skip(event)
          \/ \E h \in Handlers :
               \/ \E row \in subscriptions, plan \in Plans : UpdatePlan(h, row, plan)
               \/ \E event \in outbox : Deliver(h, event)
               \/ Handles(h)
BY DEF Next, External, Handles

Account == [status : {"none", "active", "ended"}, bought : Plans \cup {None}, plan : Plans \cup {None},
            issued : 0 .. MaxInvoices]

\* Stripe's own record of the subscriptions, and what it posts.
LEMMA ExternalTypes ==
  ASSUME BillingAssumption, IInv, External
  PROVE  TypeOK'
<1> USE DEF IInv
<1>1. stripe \in [Subscriptions -> Account] /\ outbox \subseteq Event /\ links \subseteq Plans
      /\ subscriptions \subseteq Row
  BY DEF TypeOK, Account
<1>2. ASSUME stripe' \in [Subscriptions -> Account], outbox' \subseteq Event, links' \subseteq Plans,
             UNCHANGED <<unread, tables, handler, changes, failures, history>>
      PROVE  TypeOK'
  BY <1>2 DEF TypeOK, Account, tables, history
<1>3. ASSUME NEW plan \in Offered, PaymentLink(plan) PROVE TypeOK'
  BY <1>1, <1>2, <1>3, ConstantTypes DEF PaymentLink
<1>4. ASSUME NEW s \in Subscriptions, stripe' = [stripe EXCEPT ![s].status = "ended"], outbox' = outbox \cup {Ended(s)},
             UNCHANGED <<links, unread, tables, handler, changes, failures, history>>
      PROVE  TypeOK'
  <2>1. [stripe[s] EXCEPT !.status = "ended"] \in Account
    BY <1>1 DEF Account
  <2>2. stripe' \in [Subscriptions -> Account]
    BY <1>1, <1>4, <2>1
  <2> QED
    BY <1>1, <1>2, <1>4, <2>2, Events
<1>5. ASSUME NEW row \in subscriptions, Cancel(row) PROVE TypeOK'
  BY <1>1, <1>4, <1>5 DEF Cancel, Row
<1>6. ASSUME NEW s \in Subscriptions, Lapse(s) PROVE TypeOK'
  BY <1>4, <1>6 DEF Lapse
<1>7. ASSUME NEW s \in Subscriptions, Renew(s) PROVE TypeOK'
  <2>1. stripe[s].issued < MaxInvoices /\ stripe[s] \in Account
    BY <1>1, <1>7, RoomForInvoice DEF Renew
  <2>2. stripe[s].issued + 1 \in 1 .. MaxInvoices
    BY <2>1, ConstantTypes DEF Account
  <2>3. [stripe[s] EXCEPT !.issued = @ + 1] \in Account /\ <<s, stripe[s].issued + 1>> \in Invoice
    BY <2>1, <2>2 DEF Account, Invoice
  <2>4. stripe' \in [Subscriptions -> Account]
    BY <1>1, <1>7, <2>3 DEF Renew
  <2> QED
    BY <1>1, <1>2, <1>7, <2>3, <2>4, Events DEF Renew
<1>8. ASSUME NEW s \in Subscriptions, NEW plan \in Offered, Pay(s, plan) PROVE TypeOK'
  <2>1. [status |-> "active", bought |-> plan, plan |-> plan, issued |-> 1] \in Account
    BY ConstantTypes DEF Account
  <2>2. <<s, 1>> \in Invoice
    BY ConstantTypes DEF Invoice
  <2> QED
    BY <1>1, <1>2, <1>8, <2>1, <2>2, Events DEF Pay
<1> QED
  BY <1>3, <1>5, <1>6, <1>7, <1>8 DEF External

\* An event that is not read: it goes from the one set to the other, and nobody is handling it.
LEMMA Skipped ==
  ASSUME TypeOK, NEW e \in outbox, Skip(e)
  PROVE  /\ UNCHANGED <<stripe, links, tables, handler, changes, failures, history>>
         /\ outbox' = outbox \ {e} /\ unread' = unread \cup {e}
         /\ \A h \in Handlers : handler[h].event # e
         /\ Acknowledged' = Acknowledged
         /\ TypeOK'
<1>1. /\ UNCHANGED <<stripe, links, tables, handler, changes, failures, history>>
      /\ outbox' = outbox \ {e} /\ unread' = unread \cup {e}
      /\ \A h \in Handlers : handler[h].event # e
  BY DEF Skip
<1>2. outbox' \cup unread' = outbox \cup unread
  BY <1>1
<1>3. Acknowledged' = Acknowledged
  BY <1>1, <1>2 DEF Acknowledged
<1>4. outbox' \subseteq Event /\ unread' \subseteq Event
  BY <1>1 DEF TypeOK
<1>5. TypeOK'
  BY <1>1, <1>4 DEF TypeOK, tables, history
<1> QED
  BY <1>1, <1>3, <1>5

\* A set of numbers has a least one.
LEMMA HasLeast ==
  ASSUME NEW S \in SUBSET Nat, S # {}
  PROVE  \E x \in S : \A y \in S : x <= y
<1> DEFINE Less == {p \in Nat \X Nat : p[1] < p[2]}
<1>1. OpToRel(<, Nat) = Less
  BY Zenon DEF OpToRel
<1>2. IsWellFoundedOn(Less, Nat)
  BY <1>1, NatLessThanWellFounded, Zenon
<1> HIDE DEF Less
<1>3. PICK x \in S : \A y \in S : ~(<<y, x>> \in Less)
  BY <1>2, WFMin, Zenon
<1>4. \A y \in S : x <= y
  <2> TAKE y \in S
  <2>1. ~(<<y, x>> \in Less)
    BY <1>3
  <2> QED
    BY <2>1 DEF Less
<1> QED
  BY <1>4

\* The row that a checkout inserts.
NewRow(h) ==
  LET used == {row.id : row \in subscriptions} \cup {handler[g].row : g \in Handlers}
      id == CHOOSE i \in Ids \ used : \A j \in Ids \ used : i <= j
  IN  [id |-> id, sub |-> Of(h), plan |-> stripe[Of(h)].bought, ended |-> FALSE]

\* It is a row of the subscription that was bought, with a free id.
LEMMA NewRowShape ==
  ASSUME BillingAssumption, IInv, NEW h \in Handlers, handler[h].step = "insert",
         \A r \in subscriptions : r.sub # Of(h)
  PROVE  /\ NewRow(h) \in Row /\ NewRow(h).sub = Of(h) /\ NewRow(h).plan = stripe[Of(h)].bought
         /\ Of(h) \in Subscriptions /\ stripe[Of(h)].status # "none"
<1> DEFINE S == Ids \ ({r.id : r \in subscriptions} \cup {handler[g].row : g \in Handlers})
           id == CHOOSE i \in S : \A j \in S : i <= j
<1>1. handler[h].event \in outbox /\ outbox \subseteq Event
  BY DEF IInv, HandlerInv, HandlerAt, Webhook, TypeOK
<1>2. Of(h) \in Subscriptions /\ stripe[Of(h)].status # "none" /\ stripe[Of(h)].bought \in Plans
  BY <1>1, EventShape DEF Of, IInv, MadeInv
<1>3. S # {} /\ S \in SUBSET Nat
  BY <1>2, FreshId, ConstantTypes DEF IInv, Ids
<1>4. id \in S
  <2> HIDE DEF S
  <2>1. \E i \in S : \A j \in S : i <= j
    BY <1>3, HasLeast
  <2> QED
    BY <2>1
<1>5. NewRow(h) = [id |-> id, sub |-> Of(h), plan |-> stripe[Of(h)].bought, ended |-> FALSE]
  BY DEF NewRow
<1> HIDE DEF id
<1> QED
  BY <1>2, <1>4, <1>5 DEF Row

--------------------------------------------------------------------------------
(* What each statement of a request does.                                   *)

\* The row that was read before Stripe was asked gets the new plan, if it is still there.
LEMMA PlanWritten ==
  ASSUME IInv, NEW h \in Handlers, WritePlan(h)
  PROVE  /\ Others(h) /\ handler[h].step = "plan" /\ handler'[h] = Idle
         /\ UNCHANGED <<external, outbox, invoices, changes, failures, history>>
         /\ \E new \in [subscriptions -> Row] :
              /\ subscriptions' = {new[r] : r \in subscriptions}
              /\ \A r \in subscriptions :
                   /\ new[r].sub = r.sub /\ new[r].id = r.id
                   /\ new[r].plan = IF r.id = handler[h].row THEN handler[h].plan ELSE r.plan
<1>1. Others(h) /\ handler'[h] = Idle
  BY IsOver DEF IInv, WritePlan, Fails
<1>2. handler[h].step = "plan" /\ handler[h].plan \in Plans
  BY DEF WritePlan, IInv, HandlerInv, HandlerAt
<1> DEFINE new == [r \in subscriptions |-> IF r.id = handler[h].row THEN [r EXCEPT !.plan = handler[h].plan] ELSE r]
<1>3. new \in [subscriptions -> Row] /\
      \A r \in subscriptions :
        /\ new[r].sub = r.sub /\ new[r].id = r.id
        /\ new[r].plan = IF r.id = handler[h].row THEN handler[h].plan ELSE r.plan
  BY <1>2 DEF IInv, TypeOK, Row
<1>4. subscriptions' = {new[r] : r \in subscriptions}
  BY DEF WritePlan
<1> HIDE DEF new
<1> QED
  BY <1>1, <1>2, <1>3, <1>4 DEF WritePlan

\* The row of the subscription is marked; rows keep their number and their plans.
LEMMA PeriodEnds ==
  ASSUME IInv, NEW h \in Handlers, SetPeriodEnd(h)
  PROVE  /\ Others(h) /\ handler[h].step = "end" /\ handler'[h].step = "reply"
         /\ handler'[h].event = handler[h].event
         /\ UNCHANGED <<external, outbox, invoices, changes, failures, history>>
         /\ \E new \in [subscriptions -> Row] :
              /\ subscriptions' = {new[r] : r \in subscriptions}
              /\ \A r \in subscriptions : new[r].sub = r.sub /\ new[r].id = r.id /\ new[r].plan = r.plan
<1>1. Others(h) /\ handler'[h].step = "reply" /\ handler'[h].event = handler[h].event
  <2>1. "reply" \in Steps
    BY DEF Steps
  <2> QED
    BY <2>1, Goes DEF IInv, SetPeriodEnd
<1> DEFINE new == [r \in subscriptions |-> IF r.sub = Of(h) THEN [r EXCEPT !.ended = TRUE] ELSE r]
<1>2. new \in [subscriptions -> Row] /\
      \A r \in subscriptions : new[r].sub = r.sub /\ new[r].id = r.id /\ new[r].plan = r.plan
  <2>1. \A b \in BOOLEAN : \A r \in Row :
          LET q == [r EXCEPT !.ended = b] IN q \in Row /\ q.sub = r.sub /\ q.id = r.id /\ q.plan = r.plan
    BY DEF Row
  <2>2. subscriptions \subseteq Row
    BY DEF IInv, TypeOK
  <2>3. \A r \in subscriptions :
          LET q == [r EXCEPT !.ended = TRUE] IN q \in Row /\ q.sub = r.sub /\ q.id = r.id /\ q.plan = r.plan
    BY <2>1, <2>2, Zenon
  <2> QED
    BY <2>2, <2>3, Zenon
<1>3. subscriptions' = {new[r] : r \in subscriptions}
  BY DEF SetPeriodEnd, Of
<1> HIDE DEF new
<1> QED
  BY <1>1, <1>2, <1>3 DEF SetPeriodEnd

\* The row to replace is chosen, if there is one.
LEMMA ExistingFound ==
  ASSUME IInv, NEW h \in Handlers, FindExisting(h)
  PROVE  /\ Others(h) /\ handler[h].step = "existing" /\ handler'[h].event = handler[h].event
         /\ UNCHANGED <<external, outbox, tables, changes, failures, history>>
         /\ \/ subscriptions = {} /\ handler'[h].step = "insert"
            \/ \E r \in subscriptions : handler'[h].step = "delete" /\ handler'[h].row = r.id
<1>1. handler[h] \in Work
  BY HandlerTypes DEF IInv
<1>2. CASE subscriptions = {} /\ GoTo(h, "insert")
  <2>1. "insert" \in Steps
    BY DEF Steps
  <2> QED
    BY <1>2, <2>1, Goes DEF IInv, FindExisting
<1>3. ASSUME NEW r \in subscriptions, handler' = [handler EXCEPT ![h].step = "delete", ![h].row = r.id]
      PROVE  /\ Others(h) /\ handler'[h].event = handler[h].event
             /\ handler'[h].step = "delete" /\ handler'[h].row = r.id
  <2> DEFINE k == [handler[h] EXCEPT !.step = "delete", !.row = r.id]
  <2>1. r.id \in Ids
    BY DEF IInv, TypeOK, Row
  <2>2. k \in Work /\ k.step = "delete" /\ k.row = r.id /\ k.event = handler[h].event
    BY <1>1, <2>1 DEF Work, Steps
  <2>3. handler' = [handler EXCEPT ![h] = k]
    BY <1>1, <1>3 DEF IInv, TypeOK, Work
  <2> HIDE DEF k
  <2> QED
    BY <2>2, <2>3, Replaced DEF IInv
<1> QED
  BY <1>2, <1>3 DEF FindExisting

\* That row goes, or the request ends because it has gone already.
LEMMA ExistingDeleted ==
  ASSUME IInv, NEW h \in Handlers, DeleteExisting(h)
  PROVE  /\ Others(h) /\ handler[h].step = "delete"
         /\ UNCHANGED <<external, outbox, invoices, changes, failures, history>>
         /\ subscriptions' = {r \in subscriptions : r.id # handler[h].row}
         /\ \/ handler'[h] = Idle /\ subscriptions' = subscriptions
            \/ handler'[h].step = "insert" /\ handler'[h].event = handler[h].event
<1> DEFINE found == {r \in subscriptions : r.id = handler[h].row}
           k == [handler[h] EXCEPT !.step = "insert", !.row = None]
<1>1. handler[h] \in Work
  BY HandlerTypes DEF IInv
<1>2. k \in Work /\ k.step = "insert" /\ k.event = handler[h].event
  BY <1>1 DEF Work, Steps
<1>3. subscriptions' = subscriptions \ found /\ handler' = [handler EXCEPT ![h] = IF found = {} THEN Idle ELSE k]
  BY DEF DeleteExisting
<1>4. CASE found = {}
  <2>1. Others(h) /\ handler'[h] = Idle
    BY <1>3, <1>4, HandlerTypes, Replaced DEF IInv
  <2> QED
    BY <1>3, <1>4, <2>1 DEF DeleteExisting
<1>5. CASE found # {}
  <2>1. Others(h) /\ handler'[h] = k
    <3> HIDE DEF k, found
    <3> QED
      BY <1>2, <1>3, <1>5, Replaced DEF IInv
  <2> QED
    BY <1>2, <1>3, <2>1 DEF DeleteExisting
<1> QED
  BY <1>4, <1>5

\* The new row is added, or the request ends because stripe_id is there already.
LEMMA SubscriptionInserted ==
  ASSUME BillingAssumption, IInv, NEW h \in Handlers, InsertSubscription(h)
  PROVE  /\ Others(h) /\ handler[h].step = "insert"
         /\ UNCHANGED <<external, outbox, invoices, changes, failures, history>>
         /\ \/ /\ \E r \in subscriptions : r.sub = Of(h)
               /\ handler'[h] = Idle /\ subscriptions' = subscriptions
            \/ /\ \A r \in subscriptions : r.sub # Of(h)
               /\ subscriptions' = subscriptions \cup {NewRow(h)}
               /\ handler'[h].step \in {"look", "reply"} /\ handler'[h].event = handler[h].event
<1>1. CASE (\E r \in subscriptions : r.sub = Of(h)) /\ Fails(h) /\ UNCHANGED subscriptions
  BY <1>1, IsOver DEF IInv, InsertSubscription
<1>2. CASE /\ \A r \in subscriptions : r.sub # Of(h)
           /\ subscriptions' = subscriptions \cup {NewRow(h)}
           /\ GoTo(h, "look") \/ GoTo(h, "reply")
  <2>1. "look" \in Steps /\ "reply" \in Steps
    BY DEF Steps
  <2> QED
    BY <1>2, <2>1, Goes DEF IInv, InsertSubscription
<1> QED
  BY <1>1, <1>2 DEF InsertSubscription, NewRow, Of

\* The statements that only look, store an invoice or answer.
LEMMA LooksAndReplies ==
  ASSUME IInv, NEW h \in Handlers
  PROVE  /\ FindOrganization(h) =>
              /\ Others(h) /\ handler[h].step = "org" /\ UNCHANGED <<external, outbox, tables, changes, failures, history>>
              /\ \/ handler'[h] = Idle
                 \/ /\ \E r \in subscriptions : r.sub = Of(h)
                    /\ handler'[h].step = "look" /\ handler'[h].event = handler[h].event
         /\ InvoiceExists(h) =>
              /\ Others(h) /\ handler[h].step = "look" /\ UNCHANGED <<external, outbox, tables, changes, failures, history>>
              /\ \/ invoices[handler[h].event.invoice] > 0 /\ handler'[h] = Idle
                 \/ /\ ~(invoices[handler[h].event.invoice] > 0)
                    /\ handler'[h].step = "store" /\ handler'[h].event = handler[h].event
         /\ CreateInvoice(h) =>
              /\ Others(h) /\ handler[h].step = "store"
              /\ UNCHANGED <<external, outbox, subscriptions, changes, failures, history>>
              /\ invoices' = [invoices EXCEPT ![handler[h].event.invoice] = @ + 1]
              /\ handler'[h].step = "reply" /\ handler'[h].event = handler[h].event
         /\ Reply(h) =>
              /\ Others(h) /\ handler[h].step = "reply" /\ handler'[h] = Idle
              /\ UNCHANGED <<external, tables, changes, failures, history>>
              /\ outbox' = outbox \ {handler[h].event}
         /\ Dies(h) =>
              /\ Others(h) /\ handler[h] # Idle /\ handler'[h] = Idle
              /\ UNCHANGED <<external, outbox, tables, changes, history>>
              /\ changes + failures < MaxDisturbances /\ failures' = failures + 1
<1>1. {"look", "store", "reply"} \subseteq Steps
  BY DEF Steps
<1>2. TypeOK
  BY DEF IInv
<1>3. FindOrganization(h) =>
              /\ Others(h) /\ handler[h].step = "org" /\ UNCHANGED <<external, outbox, tables, changes, failures, history>>
              /\ \/ handler'[h] = Idle
                 \/ /\ \E r \in subscriptions : r.sub = Of(h)
                    /\ handler'[h].step = "look" /\ handler'[h].event = handler[h].event
  BY <1>1, <1>2, Goes, IsOver DEF FindOrganization, Of
<1>4. InvoiceExists(h) =>
              /\ Others(h) /\ handler[h].step = "look" /\ UNCHANGED <<external, outbox, tables, changes, failures, history>>
              /\ \/ invoices[handler[h].event.invoice] > 0 /\ handler'[h] = Idle
                 \/ /\ ~(invoices[handler[h].event.invoice] > 0)
                    /\ handler'[h].step = "store" /\ handler'[h].event = handler[h].event
  BY <1>1, <1>2, Goes, IsOver DEF InvoiceExists
<1>5. CreateInvoice(h) =>
              /\ Others(h) /\ handler[h].step = "store"
              /\ UNCHANGED <<external, outbox, subscriptions, changes, failures, history>>
              /\ invoices' = [invoices EXCEPT ![handler[h].event.invoice] = @ + 1]
              /\ handler'[h].step = "reply" /\ handler'[h].event = handler[h].event
  BY <1>1, <1>2, Goes DEF CreateInvoice
<1>6. Reply(h) =>
              /\ Others(h) /\ handler[h].step = "reply" /\ handler'[h] = Idle
              /\ UNCHANGED <<external, tables, changes, failures, history>>
              /\ outbox' = outbox \ {handler[h].event}
  BY <1>2, IsOver DEF Reply, Fails
<1>7. Dies(h) =>
              /\ Others(h) /\ handler[h] # Idle /\ handler'[h] = Idle
              /\ UNCHANGED <<external, outbox, tables, changes, history>>
              /\ changes + failures < MaxDisturbances /\ failures' = failures + 1
  BY <1>2, IsOver DEF Dies
<1> QED
  BY <1>3, <1>4, <1>5, <1>6, <1>7

\* A request begins while another is in progress, or alone.
LEMMA Started ==
  ASSUME TypeOK, NEW h \in Handlers, NEW k \in Work, Starts(h, k)
  PROVE  /\ Others(h) /\ handler'[h] = k /\ handler[h] = Idle /\ overlapped' \in BOOLEAN
         /\ ~overlapped' => ~overlapped /\ \A g \in Handlers : handler[g] = Idle
<1>1. Others(h) /\ handler'[h] = k /\ handler[h] = Idle
  BY Replaced DEF Starts
<1>2. overlapped' \in BOOLEAN
  BY Zenon DEF Starts
<1>3. overlapped' = (overlapped \/ Busy # {})
  BY DEF Starts
<1>4. ~overlapped' => ~overlapped /\ Busy = {}
  BY <1>3, Zenon
<1> QED
  BY <1>1, <1>2, <1>4 DEF Busy

\* An event begins to be handled where its kind says.
LEMMA Delivered ==
  ASSUME BillingAssumption, IInv, NEW h \in Handlers, NEW e \in outbox, Deliver(h, e)
  PROVE  /\ Others(h) /\ handler[h] = Idle /\ handler'[h].event = e /\ e \in Event
         /\ e.kind = "checkout" => handler'[h].step = "existing"
         /\ e.kind = "paid" => handler'[h].step = "org"
         /\ e.kind = "ended" => handler'[h].step = "end"
         /\ \A g \in Handlers : handler[g].event # e
         /\ UNCHANGED <<external, outbox, tables, changes, failures>>
         /\ overlapped' \in BOOLEAN
         /\ ~overlapped' => ~overlapped /\ \A g \in Handlers : handler[g] = Idle
         /\ last' = IF overlapped' THEN None ELSE IF e.kind = "checkout" THEN SubOf(e) ELSE last
<1>1. e \in Event /\ e.kind \in {"checkout", "paid", "ended"}
  BY EventShape DEF IInv, TypeOK
<1> DEFINE step == CASE e.kind = "checkout" -> "existing" [] e.kind = "paid" -> "org" [] e.kind = "ended" -> "end"
           k == [Idle EXCEPT !.event = e, !.step = step]
<1>2. /\ step \in Steps
      /\ e.kind = "checkout" => step = "existing"
      /\ e.kind = "paid" => step = "org"
      /\ e.kind = "ended" => step = "end"
  BY <1>1 DEF Steps
<1>3. Starts(h, k)
  BY DEF Deliver
<1> HIDE DEF step
<1>4. k \in Work /\ k.event = e /\ k.step = step
  BY <1>1, <1>2 DEF Work, Idle
<1> HIDE DEF k
<1>5. /\ Others(h) /\ handler'[h] = k /\ handler[h] = Idle /\ overlapped' \in BOOLEAN
      /\ ~overlapped' => ~overlapped /\ \A g \in Handlers : handler[g] = Idle
  BY <1>3, <1>4, Started, Zenon DEF IInv
<1> QED
  BY <1>1, <1>2, <1>4, <1>5, Zenon DEF Deliver

\* Stripe charges another plan, which the row is still to be given.
LEMMA PlanChanged ==
  ASSUME IInv, NEW h \in Handlers, NEW row \in subscriptions, NEW plan \in Plans, UpdatePlan(h, row, plan)
  PROVE  /\ Others(h) /\ handler[h] = Idle
         /\ handler'[h].step = "plan" /\ handler'[h].event = None
         /\ handler'[h].row = row.id /\ handler'[h].plan = plan
         /\ changes + failures < MaxDisturbances /\ changes' = changes + 1
         /\ stripe' \in [Subscriptions -> Account] /\ stripe'[row.sub].plan = plan
         /\ \A s \in Subscriptions : stripe'[s].status = stripe[s].status /\ stripe'[s].bought = stripe[s].bought
         /\ \A s \in Subscriptions \ {row.sub} : stripe'[s] = stripe[s]
         /\ UNCHANGED <<links, unread, outbox, tables, failures, last>>
         /\ overlapped' \in BOOLEAN
         /\ ~overlapped' => ~overlapped /\ \A g \in Handlers : handler[g] = Idle
<1>1. row.sub \in Subscriptions /\ row.id \in Ids /\ stripe \in [Subscriptions -> Account]
  BY DEF IInv, TypeOK, Row, Account
<1> DEFINE k == [Idle EXCEPT !.step = "plan", !.row = row.id, !.plan = plan]
           a == [stripe[row.sub] EXCEPT !.plan = plan]
<1>2. k \in Work /\ k.step = "plan" /\ k.event = None /\ k.row = row.id /\ k.plan = plan
  BY <1>1 DEF Work, Idle, Steps
<1>3. a \in Account /\ a.plan = plan /\ a.status = stripe[row.sub].status /\ a.bought = stripe[row.sub].bought
  BY <1>1 DEF Account
<1>4. stripe' = [stripe EXCEPT ![row.sub] = a]
  BY DEF UpdatePlan
<1>5. Starts(h, k)
  BY DEF UpdatePlan
<1> HIDE DEF k, a
<1>6. /\ Others(h) /\ handler'[h] = k /\ handler[h] = Idle /\ overlapped' \in BOOLEAN
      /\ ~overlapped' => ~overlapped /\ \A g \in Handlers : handler[g] = Idle
  BY <1>2, <1>5, Started, Zenon DEF IInv
<1>7. stripe' \in [Subscriptions -> Account] /\ stripe'[row.sub] = a
      /\ \A s \in Subscriptions \ {row.sub} : stripe'[s] = stripe[s]
  BY <1>1, <1>3, <1>4
<1>8. stripe'[row.sub].plan = plan
      /\ \A s \in Subscriptions : stripe'[s].status = stripe[s].status /\ stripe'[s].bought = stripe[s].bought
  BY <1>3, <1>7
<1>9. changes + failures < MaxDisturbances /\ changes' = changes + 1
      /\ UNCHANGED <<links, unread, outbox, tables, failures, last>>
  BY DEF UpdatePlan
<1> QED
  BY <1>2, <1>6, <1>7, <1>8, <1>9, Zenon

\* The four accounts of a step of Stripe or the organization: a page asked for, a
\* subscription bought, or an event about one that was.
LEMMA Reported ==
  ASSUME BillingAssumption, IInv, External
  PROVE  /\ UNCHANGED <<unread, tables, handler, changes, failures, history>>
         /\ \/ UNCHANGED <<stripe, outbox>>
            \/ \E s \in Subscriptions :
                 /\ \A t \in Subscriptions \ {s} : stripe'[t] = stripe[t]
                 /\ \/ /\ stripe[s].status = "none" /\ stripe'[s].status = "active"
                       /\ stripe'[s].bought \in Plans /\ stripe'[s].plan = stripe'[s].bought
                       /\ outbox' = outbox \cup {Checkout(s), Paid(<<s, 1>>)}
                    \/ /\ stripe[s].status = "active" /\ stripe'[s].status # "none"
                       /\ stripe'[s].bought = stripe[s].bought /\ stripe'[s].plan = stripe[s].plan
                       /\ \E e \in Event : SubOf(e) = s /\ e.kind # "checkout" /\ outbox' = outbox \cup {e}
<1>1. stripe \in [Subscriptions -> Account]
  BY DEF IInv, TypeOK, Account
<1>2. ASSUME NEW plan \in Offered, PaymentLink(plan)
      PROVE  UNCHANGED <<unread, tables, handler, changes, failures, history, stripe, outbox>>
  BY <1>2 DEF PaymentLink
<1>3. ASSUME NEW s \in Subscriptions, stripe[s].status = "active", stripe' = [stripe EXCEPT ![s].status = "ended"],
             outbox' = outbox \cup {Ended(s)}
      PROVE  /\ \A t \in Subscriptions \ {s} : stripe'[t] = stripe[t]
             /\ stripe'[s].status # "none"
             /\ stripe'[s].bought = stripe[s].bought /\ stripe'[s].plan = stripe[s].plan
             /\ \E e \in Event : SubOf(e) = s /\ e.kind # "checkout" /\ outbox' = outbox \cup {e}
  <2>1. \A t \in Subscriptions \ {s} : stripe'[t] = stripe[t]
    BY <1>1, <1>3
  <2>2. stripe'[s].status = "ended" /\ stripe'[s].bought = stripe[s].bought /\ stripe'[s].plan = stripe[s].plan
    BY <1>1, <1>3 DEF Account
  <2> QED
    BY <1>3, <2>1, <2>2, Events
<1>4. ASSUME NEW row \in subscriptions, Cancel(row)
      PROVE  row.sub \in Subscriptions /\ UNCHANGED <<unread, tables, handler, changes, failures, history>>
             /\ stripe[row.sub].status = "active" /\ stripe' = [stripe EXCEPT ![row.sub].status = "ended"]
             /\ outbox' = outbox \cup {Ended(row.sub)}
  BY <1>4 DEF Cancel, IInv, TypeOK, Row
<1>5. ASSUME NEW s \in Subscriptions, Lapse(s)
      PROVE  UNCHANGED <<unread, tables, handler, changes, failures, history>>
             /\ stripe[s].status = "active" /\ stripe' = [stripe EXCEPT ![s].status = "ended"]
             /\ outbox' = outbox \cup {Ended(s)}
  BY <1>5 DEF Lapse
<1>6. ASSUME NEW s \in Subscriptions, Renew(s)
      PROVE  /\ UNCHANGED <<unread, tables, handler, changes, failures, history>>
             /\ stripe[s].status = "active"
             /\ \A t \in Subscriptions \ {s} : stripe'[t] = stripe[t]
             /\ stripe'[s].status # "none"
             /\ stripe'[s].bought = stripe[s].bought /\ stripe'[s].plan = stripe[s].plan
             /\ \E e \in Event : SubOf(e) = s /\ e.kind # "checkout" /\ outbox' = outbox \cup {e}
  <2>1. \A t \in Subscriptions \ {s} : stripe'[t] = stripe[t]
    BY <1>1, <1>6 DEF Renew
  <2>2. /\ stripe'[s].status = stripe[s].status /\ stripe'[s].bought = stripe[s].bought
        /\ stripe'[s].plan = stripe[s].plan /\ stripe[s].status = "active"
    BY <1>1, <1>6 DEF Renew, Account
  <2>3. <<s, stripe[s].issued + 1>> \in Invoice
    <3>1. stripe[s].issued < MaxInvoices /\ stripe[s].issued \in 0 .. MaxInvoices
      BY <1>1, <1>6, RoomForInvoice DEF Renew, IInv, Account
    <3> QED
      BY <3>1, ConstantTypes DEF Invoice
  <2>4. Paid(<<s, stripe[s].issued + 1>>) \in Event /\ SubOf(Paid(<<s, stripe[s].issued + 1>>)) = s
        /\ Paid(<<s, stripe[s].issued + 1>>).kind # "checkout"
    BY <2>3, Events
  <2> QED
    BY <1>6, <2>1, <2>2, <2>4 DEF Renew
<1>7. ASSUME NEW s \in Subscriptions, NEW plan \in Offered, Pay(s, plan)
      PROVE  /\ UNCHANGED <<unread, tables, handler, changes, failures, history>>
             /\ \A t \in Subscriptions \ {s} : stripe'[t] = stripe[t]
             /\ stripe[s].status = "none" /\ stripe'[s].status = "active"
             /\ stripe'[s].bought \in Plans /\ stripe'[s].plan = stripe'[s].bought
             /\ outbox' = outbox \cup {Checkout(s), Paid(<<s, 1>>)}
  <2> DEFINE a == [status |-> "active", bought |-> plan, plan |-> plan, issued |-> 1]
  <2>1. a.status = "active" /\ a.bought = plan /\ a.plan = plan /\ plan \in Plans
    BY ConstantTypes
  <2>2. stripe' = [stripe EXCEPT ![s] = a]
    BY <1>7 DEF Pay
  <2> HIDE DEF a
  <2>3. stripe'[s] = a /\ \A t \in Subscriptions \ {s} : stripe'[t] = stripe[t]
    BY <1>1, <2>2
  <2> QED
    BY <1>7, <2>1, <2>3 DEF Pay
<1>8. CASE \E plan \in Offered : PaymentLink(plan)
  BY <1>2, <1>8
<1>9. CASE \E row \in subscriptions : Cancel(row)
  <2>1. PICK row \in subscriptions : Cancel(row)
    BY <1>9
  <2> DEFINE s == row.sub
  <2>2. s \in Subscriptions /\ UNCHANGED <<unread, tables, handler, changes, failures, history>>
        /\ stripe[s].status = "active" /\ stripe' = [stripe EXCEPT ![s].status = "ended"]
        /\ outbox' = outbox \cup {Ended(s)}
    BY <1>4, <2>1
  <2> HIDE DEF s
  <2> QED
    BY <1>3, <2>2
<1>10. CASE \E s \in Subscriptions : Lapse(s)
  BY <1>3, <1>5, <1>10
<1>11. CASE \E s \in Subscriptions : Renew(s)
  BY <1>6, <1>11
<1>12. CASE \E s \in Subscriptions : \E plan \in Offered : Pay(s, plan)
  BY <1>7, <1>12
<1> QED
  BY <1>8, <1>9, <1>10, <1>11, <1>12, Zenon DEF External

\* A request finds the tables and Stripe as the type invariant says, and leaves
\* them so.
LEMMA RequestTypes ==
  ASSUME BillingAssumption, IInv, NEW h \in Handlers,
         \/ \E row \in subscriptions, plan \in Plans : UpdatePlan(h, row, plan)
         \/ \E event \in outbox : Deliver(h, event)
         \/ Handles(h)
  PROVE  TypeOK'
<1>1. /\ stripe \in [Subscriptions -> Account] /\ links \subseteq Plans /\ outbox \subseteq Event
      /\ unread \subseteq Event
      /\ subscriptions \subseteq Row /\ invoices \in [Invoice -> 0 .. 2]
      /\ changes \in 0 .. MaxDisturbances /\ failures \in 0 .. MaxDisturbances
      /\ last \in Subscriptions \cup {None} /\ overlapped \in BOOLEAN
  BY DEF IInv, TypeOK, Account
<1>2. ASSUME Others(h), stripe' \in [Subscriptions -> Account], links' \subseteq Plans, outbox' \subseteq Event,
             unread' \subseteq Event,
             subscriptions' \subseteq Row, invoices' \in [Invoice -> 0 .. 2],
             changes' \in 0 .. MaxDisturbances, failures' \in 0 .. MaxDisturbances,
             last' \in Subscriptions \cup {None}, overlapped' \in BOOLEAN
      PROVE  TypeOK'
  BY <1>2, Zenon DEF Others, Work, Steps, TypeOK, Account
<1>3. ASSUME NEW row \in subscriptions, NEW plan \in Plans, UpdatePlan(h, row, plan) PROVE TypeOK'
  <2>1. changes' \in 0 .. MaxDisturbances
    BY <1>1, <1>3, PlanChanged, ConstantTypes
  <2>2. /\ Others(h) /\ stripe' \in [Subscriptions -> Account] /\ overlapped' \in BOOLEAN
        /\ UNCHANGED <<links, unread, outbox, tables, failures, last>>
    BY <1>3, PlanChanged
  <2> QED
    BY <1>1, <1>2, <2>1, <2>2, Zenon DEF tables
<1>4. ASSUME NEW e \in outbox, Deliver(h, e) PROVE TypeOK'
  <2>1. last' \in Subscriptions \cup {None}
    BY <1>1, <1>4, Delivered, EventShape
  <2>2. Others(h) /\ overlapped' \in BOOLEAN /\ UNCHANGED <<external, outbox, tables, changes, failures>>
    BY <1>4, Delivered
  <2> QED
    BY <1>1, <1>2, <2>1, <2>2, Zenon DEF tables, external
<1>5. ASSUME Others(h), UNCHANGED <<external, history>>, outbox' \subseteq outbox, subscriptions' \subseteq Row,
             invoices' \in [Invoice -> 0 .. 2], changes' = changes, failures' \in 0 .. MaxDisturbances
      PROVE  TypeOK'
  BY <1>1, <1>2, <1>5, Zenon DEF external, history
<1>6. CASE WritePlan(h)
  <2>1. subscriptions' \subseteq Row
    BY <1>6, PlanWritten
  <2> QED
    BY <1>1, <1>5, <1>6, <2>1, PlanWritten
<1>7. CASE FindExisting(h)
  BY <1>1, <1>5, <1>7, ExistingFound DEF tables
<1>8. CASE DeleteExisting(h)
  <2>1. subscriptions' \subseteq Row
    BY <1>1, <1>8, ExistingDeleted
  <2> QED
    BY <1>1, <1>5, <1>8, <2>1, ExistingDeleted
<1>9. CASE InsertSubscription(h)
  <2>1. subscriptions' \subseteq Row
    BY <1>1, <1>9, SubscriptionInserted, NewRowShape
  <2> QED
    BY <1>1, <1>5, <1>9, <2>1, SubscriptionInserted
<1>10. CASE FindOrganization(h) \/ InvoiceExists(h)
  BY <1>1, <1>5, <1>10, LooksAndReplies DEF tables
<1>11. CASE CreateInvoice(h)
  <2>1. handler[h].event \in Event
    BY <1>1, <1>11, LooksAndReplies DEF IInv, HandlerInv, HandlerAt, Webhook
  <2>2. handler[h].event.invoice \in Invoice /\ invoices[handler[h].event.invoice] <= 1
    BY <1>11, <2>1, EventShape, LooksAndReplies DEF IInv, StoreInv
  <2>3. invoices' \in [Invoice -> 0 .. 2]
    BY <1>1, <1>11, <2>2, LooksAndReplies
  <2> QED
    BY <1>1, <1>5, <1>11, <2>3, LooksAndReplies
<1>12. CASE SetPeriodEnd(h)
  <2>1. subscriptions' \subseteq Row
    BY <1>12, PeriodEnds
  <2> QED
    BY <1>1, <1>5, <1>12, <2>1, PeriodEnds
<1>13. CASE Reply(h)
  <2>1. outbox' \subseteq outbox
    BY <1>13, LooksAndReplies
  <2> QED
    BY <1>1, <1>5, <1>13, <2>1, LooksAndReplies DEF tables
<1>14. CASE Dies(h)
  <2>1. failures' \in 0 .. MaxDisturbances
    BY <1>1, <1>14, LooksAndReplies, ConstantTypes
  <2> QED
    BY <1>1, <1>5, <1>14, <2>1, LooksAndReplies DEF tables
<1> QED
  BY <1>3, <1>4, <1>6, <1>7, <1>8, <1>9, <1>10, <1>11, <1>12, <1>13, <1>14 DEF Handles

--------------------------------------------------------------------------------
(* Who handles which event.                                                 *)

\* A step of h that leaves the other requests' events unanswered.
LEMMA HandlersKept ==
  ASSUME IInv, NEW h \in Handlers, Others(h), HandlerAt(h)',
         \A g \in Handlers \ {h} : Webhook(g) => handler[g].event \in outbox',
         Webhook(h)' => \A g \in Handlers \ {h} : Webhook(g) => handler[g].event # handler'[h].event
  PROVE  HandlerInv'
<1>1. \A g \in Handlers \ {h} : handler'[g] = handler[g] /\ HandlerAt(g)
  BY DEF Others, IInv, HandlerInv
<1>2. \A g \in Handlers \ {h} : Webhook(g)' <=> Webhook(g)
  BY <1>1 DEF Webhook
<1>3. \A g \in Handlers \ {h} : HandlerAt(g)'
  BY <1>1, <1>2 DEF HandlerAt, Replaces
<1>4. ASSUME NEW g \in Handlers, NEW k \in Handlers, Webhook(g)', Webhook(k)', handler'[g].event = handler'[k].event
      PROVE  g = k
  BY <1>1, <1>2, <1>4 DEF IInv, HandlerInv
<1> QED
  BY <1>3, <1>4 DEF HandlerInv

\* The next statement of the handling of an event.
LEMMA HandlerMoves ==
  ASSUME IInv, NEW h \in Handlers, Others(h), UNCHANGED outbox, Webhook(h),
         handler'[h].event = handler[h].event, HandlerAt(h)'
  PROVE  HandlerInv'
<1>1. \A g \in Handlers \ {h} : Webhook(g) => handler[g].event \in outbox' /\ handler[g].event # handler[h].event
  BY DEF IInv, HandlerInv, HandlerAt
<1> QED
  BY <1>1, HandlersKept

\* The end of one.
LEMMA HandlerStops ==
  ASSUME IInv, NEW h \in Handlers, Others(h), UNCHANGED outbox, handler'[h] = Idle
  PROVE  HandlerInv'
<1>1. \A g \in Handlers \ {h} : Webhook(g) => handler[g].event \in outbox'
  BY DEF IInv, HandlerInv, HandlerAt
<1>2. HandlerAt(h)' /\ ~Webhook(h)'
  BY DEF HandlerAt, Webhook, Replaces, Idle
<1> QED
  BY <1>1, <1>2, HandlersKept

\* HandlerInv is kept: only Reply takes an event away, and nobody else is handling that one.
LEMMA HandlersStep ==
  ASSUME BillingAssumption, IInv, Next
  PROVE  HandlerInv'
<1>1. CASE External
  <2>1. outbox \subseteq outbox' /\ UNCHANGED handler
    BY <1>1, Reported
  <2> QED
    BY <2>1 DEF IInv, HandlerInv, HandlerAt, Webhook, Replaces
<1>2. ASSUME NEW h \in Handlers, NEW row \in subscriptions, NEW plan \in Plans, UpdatePlan(h, row, plan)
      PROVE  HandlerInv'
  <2>1. HandlerAt(h)' /\ ~Webhook(h)'
    BY <1>2, PlanChanged DEF HandlerAt, Webhook, Replaces
  <2>2. Others(h) /\ UNCHANGED outbox
    BY <1>2, PlanChanged
  <2>3. \A g \in Handlers \ {h} : Webhook(g) => handler[g].event \in outbox'
    BY <2>2 DEF IInv, HandlerInv, HandlerAt
  <2> QED
    BY <2>1, <2>2, <2>3, HandlersKept
<1>3. ASSUME NEW h \in Handlers, NEW e \in outbox, Deliver(h, e) PROVE HandlerInv'
  <2>1. e.kind \in {"checkout", "paid", "ended"}
    BY EventShape DEF IInv, TypeOK
  <2>2. HandlerAt(h)' /\ handler'[h].event = e
    BY <1>3, <2>1, Delivered DEF HandlerAt, Webhook, Replaces
  <2>3. Others(h) /\ UNCHANGED outbox /\ \A g \in Handlers : handler[g].event # e
    BY <1>3, Delivered
  <2>4. \A g \in Handlers \ {h} : Webhook(g) => handler[g].event \in outbox'
    BY <2>3 DEF IInv, HandlerInv, HandlerAt
  <2> QED
    BY <2>2, <2>3, <2>4, HandlersKept
<1>4. ASSUME NEW h \in Handlers, Handles(h) PROVE HandlerInv'
  <2>1. HandlerAt(h)
    BY DEF IInv, HandlerInv
  <2>2. CASE WritePlan(h)
    BY <2>2, PlanWritten, HandlerStops
  <2>3. CASE FindExisting(h)
    <3>1. Webhook(h) /\ HandlerAt(h)'
      BY <2>1, <2>3, ExistingFound DEF HandlerAt, Webhook, Replaces
    <3> QED
      BY <2>3, <3>1, ExistingFound, HandlerMoves
  <2>4. CASE DeleteExisting(h)
    <3>1. CASE handler'[h] = Idle
      BY <2>4, <3>1, ExistingDeleted, HandlerStops
    <3>2. CASE handler'[h].step = "insert" /\ handler'[h].event = handler[h].event
      <4>1. Webhook(h) /\ HandlerAt(h)'
        BY <2>1, <2>4, <3>2, ExistingDeleted DEF HandlerAt, Webhook, Replaces
      <4> QED
        BY <2>4, <3>2, <4>1, ExistingDeleted, HandlerMoves
    <3> QED
      BY <2>4, <3>1, <3>2, ExistingDeleted
  <2>5. CASE InsertSubscription(h)
    <3>1. CASE handler'[h] = Idle
      BY <2>5, <3>1, SubscriptionInserted, HandlerStops
    <3>2. CASE handler'[h].step \in {"look", "reply"} /\ handler'[h].event = handler[h].event
      <4>1. Webhook(h) /\ HandlerAt(h)'
        BY <2>1, <2>5, <3>2, SubscriptionInserted DEF HandlerAt, Webhook, Replaces
      <4> QED
        BY <2>5, <3>2, <4>1, SubscriptionInserted, HandlerMoves
    <3> QED
      BY <2>5, <3>1, <3>2, SubscriptionInserted
  <2>6. CASE FindOrganization(h)
    <3>1. CASE handler'[h] = Idle
      BY <2>6, <3>1, LooksAndReplies, HandlerStops
    <3>2. CASE handler'[h].step = "look" /\ handler'[h].event = handler[h].event
      <4>1. Webhook(h) /\ HandlerAt(h)'
        BY <2>1, <2>6, <3>2, LooksAndReplies DEF HandlerAt, Webhook, Replaces
      <4> QED
        BY <2>6, <3>2, <4>1, LooksAndReplies, HandlerMoves
    <3> QED
      BY <2>6, <3>1, <3>2, LooksAndReplies
  <2>7. CASE InvoiceExists(h)
    <3>1. CASE handler'[h] = Idle
      BY <2>7, <3>1, LooksAndReplies, HandlerStops
    <3>2. CASE handler'[h].step = "store" /\ handler'[h].event = handler[h].event
      <4>1. Webhook(h) /\ HandlerAt(h)'
        BY <2>1, <2>7, <3>2, LooksAndReplies DEF HandlerAt, Webhook, Replaces
      <4> QED
        BY <2>7, <3>2, <4>1, LooksAndReplies, HandlerMoves
    <3> QED
      BY <2>7, <3>1, <3>2, LooksAndReplies
  <2>8. CASE CreateInvoice(h)
    <3>1. Webhook(h) /\ HandlerAt(h)'
      BY <2>1, <2>8, LooksAndReplies DEF HandlerAt, Webhook, Replaces
    <3> QED
      BY <2>8, <3>1, LooksAndReplies, HandlerMoves
  <2>9. CASE SetPeriodEnd(h)
    <3>1. Webhook(h) /\ HandlerAt(h)'
      BY <2>1, <2>9, PeriodEnds DEF HandlerAt, Webhook, Replaces
    <3> QED
      BY <2>9, <3>1, PeriodEnds, HandlerMoves
  <2>10. CASE Reply(h)
    <3>1. HandlerAt(h)' /\ ~Webhook(h)'
      BY <2>10, LooksAndReplies DEF HandlerAt, Webhook, Replaces, Idle
    <3>2. Webhook(h) /\ outbox' = outbox \ {handler[h].event}
      BY <2>10, LooksAndReplies DEF Webhook
    <3>3. \A g \in Handlers \ {h} : Webhook(g) => handler[g].event \in outbox'
      BY <3>2 DEF IInv, HandlerInv, HandlerAt
    <3> QED
      BY <2>10, <3>1, <3>3, LooksAndReplies, HandlersKept
  <2>11. CASE Dies(h)
    BY <2>11, LooksAndReplies, HandlerStops
  <2> QED
    BY <1>4, <2>2, <2>3, <2>4, <2>5, <2>6, <2>7, <2>8, <2>9, <2>10, <2>11 DEF Handles
<1>5. ASSUME NEW e \in outbox, Skip(e) PROVE HandlerInv'
  <2>1. UNCHANGED handler /\ outbox' = outbox \ {e} /\ \A h \in Handlers : handler[h].event # e
    BY <1>5, Skipped DEF IInv
  <2> QED
    BY <2>1 DEF IInv, HandlerInv, HandlerAt, Webhook, Replaces
<1> QED
  BY <1>1, <1>2, <1>3, <1>4, <1>5, Actions

--------------------------------------------------------------------------------
(* What was bought, and what is stored.                                     *)

\* A step that buys nothing.
LEMMA MadeKept ==
  ASSUME IInv, UNCHANGED stripe, outbox' \subseteq outbox,
         \A r \in subscriptions' : stripe[r.sub].status # "none",
         \A r, q \in subscriptions' : r.sub = q.sub => r = q,
         \A i \in Invoice : invoices'[i] > 0 => stripe[i[1]].status # "none"
  PROVE  MadeInv'
BY DEF IInv, MadeInv

\* MadeInv is kept: Pay makes a subscription before any event, row or invoice of it exists.
LEMMA MadeStep ==
  ASSUME BillingAssumption, IInv, Next
  PROVE  MadeInv'
<1>1. \A i \in Invoice : invoices[i] > 0 => stripe[i[1]].status # "none"
  BY DEF IInv, MadeInv
<1>2. ASSUME UNCHANGED <<stripe, tables>>, outbox' \subseteq outbox PROVE MadeInv'
  BY <1>2, MadeKept DEF tables, IInv, MadeInv
<1>3. CASE External
  <2>1. CASE UNCHANGED <<stripe, outbox>>
    BY <1>2, <1>3, <2>1, Reported
  <2>2. CASE ~UNCHANGED <<stripe, outbox>>
    <3>1. \A s \in Subscriptions : SubOf(Checkout(s)) = s /\ SubOf(Paid(<<s, 1>>)) = s
      <4>1. \A s \in Subscriptions : <<s, 1>> \in Invoice
        BY ConstantTypes DEF Invoice
      <4> QED
        BY <4>1, Events
    <3>2. PICK s \in Subscriptions :
             /\ \A t \in Subscriptions \ {s} : stripe'[t] = stripe[t]
             /\ stripe'[s].status # "none"
             /\ stripe'[s].bought \in Plans \/ (stripe[s].status # "none" /\ stripe'[s].bought = stripe[s].bought)
             /\ \A e \in outbox' : e \in outbox \/ SubOf(e) = s
      BY <1>3, <2>2, <3>1, Reported
    <3>3. UNCHANGED tables /\ outbox \subseteq Event /\ subscriptions \subseteq Row
      BY <1>3, Reported DEF IInv, TypeOK
    <3>4. \A t \in Subscriptions : stripe[t].status # "none" => stripe'[t].status # "none"
      BY <3>2
    <3>5. \A t \in Subscriptions : stripe'[t].status # "none" => stripe'[t].bought \in Plans
      BY <3>2 DEF IInv, MadeInv
    <3>6. \A e \in outbox' : stripe'[SubOf(e)].status # "none"
      BY <3>2, <3>3, <3>4, EventShape DEF IInv, MadeInv
    <3>7. \A r \in subscriptions : r.sub \in Subscriptions
      BY <3>3 DEF Row
    <3>8. \A i \in Invoice : i[1] \in Subscriptions
      BY DEF Invoice
    <3> QED
      BY <1>1, <3>3, <3>4, <3>5, <3>6, <3>7, <3>8 DEF IInv, MadeInv, tables
  <2> QED
    BY <2>1, <2>2
<1>4. ASSUME NEW h \in Handlers, NEW row \in subscriptions, NEW plan \in Plans, UpdatePlan(h, row, plan)
      PROVE  MadeInv'
  <2>1. /\ UNCHANGED <<outbox, tables>>
        /\ \A s \in Subscriptions : stripe'[s].status = stripe[s].status /\ stripe'[s].bought = stripe[s].bought
    BY <1>4, PlanChanged
  <2>2. \A e \in outbox : SubOf(e) \in Subscriptions
    BY EventShape DEF IInv, TypeOK
  <2>3. \A r \in subscriptions : r.sub \in Subscriptions
    BY DEF IInv, TypeOK, Row
  <2>4. \A i \in Invoice : i[1] \in Subscriptions
    BY DEF Invoice
  <2> QED
    BY <2>1, <2>2, <2>3, <2>4 DEF IInv, MadeInv, tables
<1>5. ASSUME NEW h \in Handlers, NEW e \in outbox, Deliver(h, e) PROVE MadeInv'
  BY <1>2, <1>5, Delivered DEF external
<1>6. ASSUME NEW new \in [subscriptions -> Row], subscriptions' = {new[r] : r \in subscriptions},
             \A r \in subscriptions : new[r].sub = r.sub, UNCHANGED <<external, outbox, invoices>>
      PROVE  MadeInv'
  <2>1. \A r \in subscriptions' : stripe[r.sub].status # "none"
    BY <1>6 DEF IInv, MadeInv
  <2>2. \A r, q \in subscriptions' : r.sub = q.sub => r = q
    BY <1>6 DEF IInv, MadeInv
  <2> QED
    BY <1>1, <1>6, <2>1, <2>2, MadeKept DEF external
<1>7. ASSUME NEW h \in Handlers, Handles(h) PROVE MadeInv'
  <2>1. CASE WritePlan(h)
    BY <1>6, <2>1, PlanWritten
  <2>2. CASE FindExisting(h)
    BY <1>2, <2>2, ExistingFound DEF external
  <2>3. CASE DeleteExisting(h)
    <3>1. subscriptions' \subseteq subscriptions /\ UNCHANGED <<external, outbox, invoices>>
      BY <2>3, ExistingDeleted
    <3> QED
      BY <1>1, <3>1, MadeKept DEF external, IInv, MadeInv
  <2>4. CASE InsertSubscription(h)
    <3>1. UNCHANGED <<external, outbox, invoices>> /\ handler[h].step = "insert"
      BY <2>4, SubscriptionInserted
    <3>2. CASE subscriptions' = subscriptions
      BY <1>2, <3>1, <3>2 DEF external, tables
    <3>3. CASE subscriptions' = subscriptions \cup {NewRow(h)} /\ \A r \in subscriptions : r.sub # Of(h)
      <4>1. NewRow(h).sub = Of(h) /\ stripe[Of(h)].status # "none"
        BY <3>1, <3>3, NewRowShape
      <4>2. \A r, q \in subscriptions' : r.sub = q.sub => r = q
        BY <3>3, <4>1 DEF IInv, MadeInv
      <4>3. \A r \in subscriptions' : stripe[r.sub].status # "none"
        BY <3>3, <4>1 DEF IInv, MadeInv
      <4> QED
        BY <1>1, <3>1, <4>2, <4>3, MadeKept DEF external
    <3> QED
      BY <2>4, <3>2, <3>3, SubscriptionInserted
  <2>5. CASE FindOrganization(h) \/ InvoiceExists(h) \/ Dies(h)
    BY <1>2, <2>5, LooksAndReplies DEF external
  <2>6. CASE CreateInvoice(h)
    <3>1. UNCHANGED <<external, outbox, subscriptions>>
          /\ invoices' = [invoices EXCEPT ![handler[h].event.invoice] = @ + 1] /\ handler[h].step = "store"
      BY <2>6, LooksAndReplies
    <3>2. handler[h].event \in outbox /\ handler[h].event \in Event
      BY <3>1 DEF IInv, TypeOK, HandlerInv, HandlerAt, Webhook
    <3>3. handler[h].event.invoice \in Invoice /\ stripe[handler[h].event.invoice[1]].status # "none"
      BY <3>2, EventShape DEF IInv, MadeInv
    <3>4. \A i \in Invoice : invoices'[i] > 0 => stripe[i[1]].status # "none"
      BY <1>1, <3>1, <3>3 DEF IInv, TypeOK
    <3> QED
      BY <3>1, <3>4, MadeKept DEF external, IInv, MadeInv
  <2>7. CASE SetPeriodEnd(h)
    BY <1>6, <2>7, PeriodEnds
  <2>8. CASE Reply(h)
    <3>1. outbox' \subseteq outbox /\ UNCHANGED <<external, tables>>
      BY <2>8, LooksAndReplies
    <3> QED
      BY <1>2, <3>1 DEF external
  <2> QED
    BY <1>7, <2>1, <2>2, <2>3, <2>4, <2>5, <2>6, <2>7, <2>8 DEF Handles
<1>8. ASSUME NEW e \in outbox, Skip(e) PROVE MadeInv'
  <2>1. UNCHANGED <<stripe, tables>> /\ outbox' \subseteq outbox
    BY <1>8, Skipped DEF IInv
  <2> QED
    BY <1>2, <2>1
<1> QED
  BY <1>3, <1>4, <1>5, <1>7, <1>8, Actions

\* A step of h that stores nothing and is not about to.
LEMMA StoreKept ==
  ASSUME IInv, NEW h \in Handlers, Others(h), UNCHANGED invoices, handler'[h].step # "store"
  PROVE  StoreInv'
BY DEF IInv, StoreInv, Others

\* StoreInv is kept: a second request that stores the same invoice is at most the other of a checkout and a
\* payment.
LEMMA StoreStep ==
  ASSUME BillingAssumption, IInv, Next
  PROVE  StoreInv'
<1>1. CASE External
  <2>1. UNCHANGED <<tables, handler>>
    BY <1>1, Reported
  <2> QED
    BY <2>1 DEF IInv, StoreInv, tables
<1>2. ASSUME NEW h \in Handlers, NEW row \in subscriptions, NEW plan \in Plans, UpdatePlan(h, row, plan)
      PROVE  StoreInv'
  BY <1>2, PlanChanged, StoreKept DEF tables
<1>3. ASSUME NEW h \in Handlers, NEW e \in outbox, Deliver(h, e) PROVE StoreInv'
  <2>1. e.kind \in {"checkout", "paid", "ended"}
    BY EventShape DEF IInv, TypeOK
  <2> QED
    BY <1>3, <2>1, Delivered, StoreKept DEF tables
<1>4. ASSUME NEW h \in Handlers, Handles(h) PROVE StoreInv'
  <2>1. Idle.step # "store"
    BY DEF Idle
  <2>2. CASE WritePlan(h)
    BY <2>1, <2>2, PlanWritten, StoreKept
  <2>3. CASE FindExisting(h)
    BY <2>3, ExistingFound, StoreKept DEF tables
  <2>4. CASE DeleteExisting(h)
    BY <2>1, <2>4, ExistingDeleted, StoreKept
  <2>5. CASE InsertSubscription(h)
    BY <2>1, <2>5, SubscriptionInserted, StoreKept
  <2>6. CASE FindOrganization(h)
    BY <2>1, <2>6, LooksAndReplies, StoreKept DEF tables
  <2>7. CASE InvoiceExists(h)
    <3>1. Others(h) /\ UNCHANGED tables /\ handler[h].step = "look"
      BY <2>7, LooksAndReplies
    <3>2. CASE handler'[h] = Idle
      BY <2>1, <3>1, <3>2, StoreKept DEF tables
    <3>3. CASE handler'[h].event = handler[h].event /\ ~(invoices[handler[h].event.invoice] > 0)
      <4>1. handler[h].event.invoice \in Invoice
        BY <3>1, EventShape DEF IInv, TypeOK, HandlerInv, HandlerAt, Webhook
      <4>2. invoices[handler[h].event.invoice] = 0
        BY <3>3, <4>1 DEF IInv, TypeOK
      <4> QED
        BY <3>1, <3>3, <4>2 DEF IInv, StoreInv, Others, tables
    <3> QED
      BY <2>7, <3>2, <3>3, LooksAndReplies
  <2>8. CASE CreateInvoice(h)
    <3> DEFINE i == handler[h].event.invoice
    <3>1. /\ Others(h) /\ handler[h].step = "store" /\ handler'[h].step = "reply"
          /\ invoices' = [invoices EXCEPT ![i] = @ + 1]
      BY <2>8, LooksAndReplies
    <3>2. ASSUME NEW g \in Handlers, handler[g].step = "store"
          PROVE  /\ handler[g].event \in Event /\ Webhook(g)
                 /\ handler[g].event.invoice \in Invoice
                 /\ handler[g].event = Checkout(Of(g)) \/ handler[g].event = Paid(handler[g].event.invoice)
                 /\ Of(g) = handler[g].event.invoice[1]
      <4>1. handler[g].event \in Event /\ Webhook(g) /\ handler[g].event.kind \in {"checkout", "paid"}
        BY <3>2 DEF IInv, TypeOK, HandlerInv, HandlerAt, Webhook
      <4> QED
        BY <4>1, EventShape DEF Of
    <3>3. i \in Invoice
      BY <3>1, <3>2
    <3>4. \A j \in Invoice : invoices[j] \in 0 .. 2 /\ invoices'[j] = IF j = i THEN invoices[j] + 1 ELSE invoices[j]
      BY <3>1, <3>3 DEF IInv, TypeOK
    <3>5. \A g \in Handlers : handler'[g].step = "store" => g # h /\ handler'[g] = handler[g]
      BY <3>1 DEF Others
    <3>6. ASSUME NEW g \in Handlers, handler'[g].step = "store"
          PROVE  invoices'[handler[g].event.invoice] <= 1
      <4>1. CASE handler[g].event.invoice = i
        <5>1. invoices[i] = 0
          BY <3>1, <3>5, <3>6, <4>1 DEF IInv, StoreInv
        <5> QED
          BY <3>3, <3>4, <4>1, <5>1
      <4>2. CASE handler[g].event.invoice # i
        BY <3>2, <3>4, <3>5, <3>6, <4>2 DEF IInv, StoreInv
      <4> QED
        BY <4>1, <4>2
    <3>7. ASSUME NEW g \in Handlers, handler'[g].step = "store", NEW k \in Handlers \ {g}, handler'[k].step = "store",
                 handler[k].event.invoice = handler[g].event.invoice
          PROVE  invoices'[handler[g].event.invoice] = 0
      <4>1. handler[g].step = "store" /\ handler[k].step = "store" /\ g # h /\ k # h
        BY <3>5, <3>7
      <4>2. CASE handler[g].event.invoice = i
        <5>1. /\ handler[g].event \in {Checkout(Of(h)), Paid(i)} /\ handler[k].event \in {Checkout(Of(h)), Paid(i)}
              /\ handler[h].event \in {Checkout(Of(h)), Paid(i)} /\ Webhook(g) /\ Webhook(k) /\ Webhook(h)
          BY <3>1, <3>2, <3>7, <4>1, <4>2
        <5>2. /\ handler[g].event # handler[k].event /\ handler[g].event # handler[h].event
              /\ handler[k].event # handler[h].event
          BY <4>1, <5>1 DEF IInv, HandlerInv
        <5> QED
          BY <5>1, <5>2
      <4>3. CASE handler[g].event.invoice # i
        <5>1. invoices[handler[g].event.invoice] = 0
          BY <3>7, <4>1 DEF IInv, StoreInv
        <5> QED
          BY <3>2, <3>4, <4>1, <4>3, <5>1
      <4> QED
        BY <4>2, <4>3
    <3> HIDE DEF i
    <3> QED
      BY <3>5, <3>6, <3>7 DEF StoreInv
  <2>9. CASE SetPeriodEnd(h)
    BY <2>9, PeriodEnds, StoreKept
  <2>10. CASE Reply(h) \/ Dies(h)
    BY <2>1, <2>10, LooksAndReplies, StoreKept DEF tables
  <2> QED
    BY <1>4, <2>2, <2>3, <2>4, <2>5, <2>6, <2>7, <2>8, <2>9, <2>10 DEF Handles
<1>5. ASSUME NEW e \in outbox, Skip(e) PROVE StoreInv'
  <2>1. UNCHANGED <<tables, handler>>
    BY <1>5, Skipped DEF IInv
  <2> QED
    BY <2>1 DEF IInv, StoreInv, tables
<1> QED
  BY <1>1, <1>2, <1>3, <1>4, <1>5, Actions

--------------------------------------------------------------------------------
(* Who took the last row away.                                              *)

\* What Stripe does leaves every checkout where it is, and a new one is pending.
LEMMA CheckoutsKept ==
  ASSUME BillingAssumption, IInv, External
  PROVE  /\ Acknowledged' = Acknowledged
         /\ \A s \in Subscriptions : stripe[s].status # "none" => (Checkout(s) \in outbox <=> Checkout(s) \in outbox')
         /\ \A s \in Subscriptions : Pending(s) => Pending(s)'
         /\ UNCHANGED <<handler, unread>>
<1>1. UNCHANGED <<handler, unread>> /\ outbox \subseteq outbox'
  BY Reported
<1>2. \A s \in Subscriptions :
        /\ stripe[s].status # "none" => stripe'[s].status # "none" /\ (Checkout(s) \in outbox <=> Checkout(s) \in outbox')
        /\ stripe[s].status = "none" => stripe'[s].status = "none" \/ Checkout(s) \in outbox'
  <2>1. CASE UNCHANGED <<stripe, outbox>>
    BY <2>1
  <2>2. CASE ~UNCHANGED <<stripe, outbox>>
    <3>1. PICK s \in Subscriptions :
             /\ \A t \in Subscriptions \ {s} : stripe'[t] = stripe[t]
             /\ \/ /\ stripe[s].status = "none" /\ stripe'[s].status = "active"
                   /\ outbox' = outbox \cup {Checkout(s), Paid(<<s, 1>>)}
                \/ /\ stripe[s].status = "active" /\ stripe'[s].status # "none"
                   /\ \E e \in Event : e.kind # "checkout" /\ outbox' = outbox \cup {e}
      BY <2>2, Reported
    <3>2. \A t \in Subscriptions : Checkout(t).kind = "checkout" /\ SubOf(Checkout(t)) = t
      BY Events
    <3>3. Paid(<<s, 1>>).kind = "paid"
      BY DEF Paid
    <3>4. \A t \in Subscriptions \ {s} : Checkout(t) # Checkout(s)
      BY <3>2
    <3> QED
      BY <3>1, <3>2, <3>3, <3>4
  <2> QED
    BY <2>1, <2>2
<1>3. Acknowledged' = Acknowledged
  BY <1>1, <1>2 DEF Acknowledged
<1>4. ASSUME NEW s \in Subscriptions, Pending(s) PROVE Pending(s)'
  BY <1>1, <1>4 DEF Pending, Webhook, Replaces
<1> QED
  BY <1>1, <1>2, <1>3, <1>4

\* A step of h that takes no last row away, and answers only what has come past its insert.
LEMMA SubscribedKept ==
  ASSUME BillingAssumption, IInv, NEW h \in Handlers, Others(h), UNCHANGED <<stripe, unread>>, outbox' \subseteq outbox,
         subscriptions # {} => subscriptions' # {},
         Checks(h)' => \/ Replaces(h)'
                       \/ handler'[h].event = handler[h].event /\ Checks(h) /\ ~Replaces(h),
         \A s \in Subscriptions : Checkout(s) \in outbox => \/ Checkout(s) \in outbox'
                                                            \/ Checks(h) /\ handler[h].event = Checkout(s) /\ ~Replaces(h)
  PROVE  SubscribedInv'
<1>1. \A s \in Subscriptions : Checkout(s).kind = "checkout"
  BY Events
<1>2. \A g \in Handlers \ {h} : /\ (Checks(g)' <=> Checks(g)) /\ (Webhook(g)' <=> Webhook(g))
                                /\ (Replaces(g)' <=> Replaces(g)) /\ handler'[g].event = handler[g].event
  BY DEF Others, Checks, Webhook, Replaces
<1>3. CASE subscriptions # {}
  BY <1>3 DEF SubscribedInv
<1>4. CASE Acknowledged = {} /\ \A g \in Handlers : Checks(g) => Replaces(g)
  <2>1. \A s \in Subscriptions : Checkout(s) \in outbox => Checkout(s) \in outbox'
    BY <1>4
  <2>2. Acknowledged' = {}
    BY <1>4, <2>1 DEF Acknowledged
  <2>3. \A g \in Handlers : Checks(g)' => Replaces(g)'
    BY <1>2, <1>4
  <2> QED
    BY <2>2, <2>3 DEF SubscribedInv
<1>5. ASSUME NEW s \in Subscriptions, Pending(s) PROVE Pending(s)'
  <2>1. ~(Checks(h) /\ handler[h].event = Checkout(s) /\ ~Replaces(h))
    BY <1>5 DEF Pending, Checks
  <2>2. Checkout(s) \in outbox'
    BY <1>5, <2>1 DEF Pending
  <2>3. Webhook(h)' /\ handler'[h].event = Checkout(s) => Replaces(h)'
    BY <1>1, <2>1 DEF Checks
  <2>4. \A g \in Handlers : Webhook(g)' /\ handler'[g].event = Checkout(s) => Replaces(g)'
    BY <1>2, <1>5, <2>3 DEF Pending
  <2> QED
    BY <2>2, <2>4 DEF Pending
<1>6. Missed => Missed'
  BY DEF Missed
<1> QED
  BY <1>3, <1>4, <1>5, <1>6 DEF IInv, SubscribedInv

\* What a request that replaces the row is about.
LEMMA ReplacesWhat ==
  ASSUME BillingAssumption, IInv, NEW h \in Handlers
  PROVE  /\ Replaces(h) => Webhook(h) /\ Checks(h)
         /\ Checks(h) => /\ Of(h) \in Subscriptions /\ handler[h].event = Checkout(Of(h))
                         /\ Checkout(Of(h)) \in outbox
         /\ Webhook(h) => handler[h].event \in outbox /\ handler[h].event \in Event
<1>1. Webhook(h) => handler[h].event \in outbox /\ handler[h].event \in Event
  BY DEF IInv, HandlerInv, HandlerAt, TypeOK
<1>2. Replaces(h) => Webhook(h) /\ Checks(h)
  BY DEF IInv, HandlerInv, HandlerAt, Replaces, Webhook, Checks
<1>3. Checks(h) => Webhook(h) /\ handler[h].event.kind = "checkout"
  BY DEF Checks
<1> QED
  BY <1>1, <1>2, <1>3, EventShape DEF Of

\* SubscribedInv is kept: a request that deletes the last row makes its own checkout pending.
LEMMA SubscribedStep ==
  ASSUME BillingAssumption, IInv, Next
  PROVE  SubscribedInv'
<1>1. CASE External
  <2>1. UNCHANGED tables
    BY <1>1, Reported
  <2>2. UNCHANGED <<handler, unread>> /\ Acknowledged' = Acknowledged /\ \A s \in Subscriptions : Pending(s) => Pending(s)'
    BY <1>1, CheckoutsKept
  <2> QED
    BY <2>1, <2>2 DEF IInv, SubscribedInv, Missed, Checks, Webhook, Replaces, tables
<1>2. ASSUME NEW h \in Handlers, NEW row \in subscriptions, NEW plan \in Plans, UpdatePlan(h, row, plan)
      PROVE  SubscribedInv'
  <2>1. UNCHANGED tables
    BY <1>2, PlanChanged
  <2> QED
    BY <2>1 DEF SubscribedInv, tables
<1>3. ASSUME NEW h \in Handlers, NEW e \in outbox, Deliver(h, e) PROVE SubscribedInv'
  <2>1. Others(h) /\ UNCHANGED <<external, outbox, tables>>
    BY <1>3, Delivered
  <2>2. Checks(h)' => Replaces(h)'
    BY <1>3, Delivered DEF Checks, Replaces
  <2> QED
    BY <2>1, <2>2, SubscribedKept DEF external, tables
<1>4. ASSUME NEW h \in Handlers, Handles(h) PROVE SubscribedInv'
  <2>1. handler'[h] = Idle => ~Checks(h)'
    BY DEF Idle, Checks, Webhook
  <2>2. /\ Replaces(h) => Webhook(h) /\ Checks(h)
        /\ Checks(h) => /\ Of(h) \in Subscriptions /\ handler[h].event = Checkout(Of(h))
                        /\ Checkout(Of(h)) \in outbox
    BY ReplacesWhat
  <2>3. CASE WritePlan(h)
    <3>1. subscriptions # {} => subscriptions' # {}
      <4>1. PICK new \in [subscriptions -> Row] : subscriptions' = {new[r] : r \in subscriptions}
        BY <2>3, PlanWritten
      <4>2. ASSUME NEW r \in subscriptions PROVE new[r] \in subscriptions'
        BY <4>1
      <4> QED
        BY <4>2
    <3> QED
      BY <2>1, <2>3, <3>1, PlanWritten, SubscribedKept DEF external
  <2>4. CASE FindExisting(h)
    <3>1. Replaces(h)'
      BY <2>4, ExistingFound DEF Replaces
    <3> QED
      BY <2>4, <3>1, ExistingFound, SubscribedKept DEF external, tables
  <2>5. CASE DeleteExisting(h)
    <3>1. Others(h) /\ UNCHANGED <<external, outbox>> /\ handler[h].step = "delete"
      BY <2>5, ExistingDeleted
    <3>2. CASE handler'[h] = Idle /\ subscriptions' = subscriptions
      BY <2>1, <3>1, <3>2, SubscribedKept DEF external
    <3>3. CASE handler'[h].step = "insert" /\ handler'[h].event = handler[h].event
      <4>1. Checks(h) /\ Webhook(h) /\ Replaces(h)'
        BY <2>2, <3>1, <3>3 DEF Replaces
      <4>2. \A g \in Handlers : Webhook(g)' /\ handler'[g].event = Checkout(Of(h)) => Replaces(g)'
        BY <2>2, <3>1, <3>3, <4>1 DEF Others, Webhook, IInv, HandlerInv
      <4>3. Pending(Of(h))'
        BY <2>2, <3>1, <3>3, <4>1, <4>2 DEF Pending, Of
      <4>4. Of(h)' = Of(h)
        BY <3>3 DEF Of
      <4> QED
        BY <2>2, <4>1, <4>3, <4>4 DEF SubscribedInv
    <3> QED
      BY <2>5, <3>2, <3>3, ExistingDeleted
  <2>6. CASE InsertSubscription(h)
    <3>1. CASE handler'[h] = Idle /\ subscriptions' = subscriptions
      BY <2>1, <2>6, <3>1, SubscriptionInserted, SubscribedKept DEF external
    <3>2. CASE subscriptions' = subscriptions \cup {NewRow(h)}
      BY <3>2 DEF SubscribedInv
    <3> QED
      BY <2>6, <3>1, <3>2, SubscriptionInserted
  <2>7. CASE FindOrganization(h)
    <3>1. ~Checks(h)'
      BY <2>1, <2>7, LooksAndReplies DEF Checks, IInv, HandlerInv, HandlerAt
    <3> QED
      BY <2>7, <3>1, LooksAndReplies, SubscribedKept DEF external, tables
  <2>8. CASE InvoiceExists(h)
    <3>1. Checks(h)' => handler'[h].event = handler[h].event /\ Checks(h) /\ ~Replaces(h)
      BY <2>1, <2>8, LooksAndReplies DEF Checks, Webhook, Replaces
    <3> QED
      BY <2>8, <3>1, LooksAndReplies, SubscribedKept DEF external, tables
  <2>9. CASE CreateInvoice(h)
    <3>1. Checks(h)' => handler'[h].event = handler[h].event /\ Checks(h) /\ ~Replaces(h)
      BY <2>9, LooksAndReplies DEF Checks, Webhook, Replaces
    <3> QED
      BY <2>9, <3>1, LooksAndReplies, SubscribedKept DEF external
  <2>10. CASE SetPeriodEnd(h)
    <3>1. ~Checks(h)'
      BY <2>10, PeriodEnds DEF Checks, IInv, HandlerInv, HandlerAt
    <3>2. subscriptions # {} => subscriptions' # {}
      <4>1. PICK new \in [subscriptions -> Row] : subscriptions' = {new[r] : r \in subscriptions}
        BY <2>10, PeriodEnds
      <4>2. ASSUME NEW r \in subscriptions PROVE new[r] \in subscriptions'
        BY <4>1
      <4> QED
        BY <4>2
    <3> QED
      BY <2>10, <3>1, <3>2, PeriodEnds, SubscribedKept DEF external
  <2>11. CASE Reply(h)
    <3>1. /\ Others(h) /\ UNCHANGED <<external, tables>> /\ handler[h].step = "reply" /\ handler'[h] = Idle
          /\ outbox' = outbox \ {handler[h].event}
      BY <2>11, LooksAndReplies
    <3>2. \A s \in Subscriptions : Checkout(s) \in outbox => \/ Checkout(s) \in outbox'
                                                             \/ Checks(h) /\ handler[h].event = Checkout(s) /\ ~Replaces(h)
      BY <3>1, Events DEF Checks, Webhook, Replaces
    <3> QED
      BY <2>1, <3>1, <3>2, SubscribedKept DEF external, tables
  <2>12. CASE Dies(h)
    BY <2>1, <2>12, LooksAndReplies, SubscribedKept DEF external, tables
  <2> QED
    BY <1>4, <2>3, <2>4, <2>5, <2>6, <2>7, <2>8, <2>9, <2>10, <2>11, <2>12 DEF Handles
<1>5. ASSUME NEW e \in outbox, Skip(e) PROVE SubscribedInv'
  <2>1. /\ UNCHANGED <<tables, handler>> /\ Acknowledged' = Acknowledged
        /\ outbox' = outbox \ {e} /\ unread' = unread \cup {e}
    BY <1>5, Skipped DEF IInv
  <2>2. \A s \in Subscriptions : Pending(s) => Pending(s)' \/ Missed'
    BY <2>1 DEF Pending, Missed, Webhook, Replaces
  <2>3. Missed => Missed'
    BY <2>1 DEF Missed
  <2> QED
    BY <2>1, <2>2, <2>3 DEF IInv, SubscribedInv, Checks, Webhook, Replaces, tables
<1> QED
  BY <1>1, <1>2, <1>3, <1>4, <1>5, Actions

--------------------------------------------------------------------------------
(* One request at a time.                                                   *)

\* While no two requests have run together, the others do nothing when h moves.
LEMMA OthersIdle ==
  ASSUME IInv, ~overlapped, NEW h \in Handlers, handler[h].step # "idle", Others(h)
  PROVE  \A g \in Handlers \ {h} : handler[g].step = "idle" /\ handler'[g].step = "idle" /\ handler'[g] = handler[g]
BY DEF IInv, AloneInv, Others

\* AloneInv has to be shown for the one request at work only.
LEMMA AloneKept ==
  ASSUME NEW h \in Handlers,
         \A g \in Handlers \ {h} : handler'[g].step = "idle",
         \A r, q \in subscriptions' : r = q,
         AloneAt(h)',
         last' \in Acknowledged' => \E r \in subscriptions' : r.sub = last',
         \A i \in Invoice : invoices'[i] <= 1
  PROVE  AloneInv'
<1>1. \A g \in Handlers \ {h} : AloneAt(g)'
  BY DEF AloneAt, Checks, Webhook
<1> QED
  BY <1>1 DEF AloneInv

\* The statements of the one request.
LEMMA AloneHandles ==
  ASSUME BillingAssumption, IInv, NEW h \in Handlers, Handles(h), ~overlapped
  PROVE  AloneInv'
<1>1. /\ \A r, q \in subscriptions : r = q
      /\ AloneAt(h)
      /\ last \in Acknowledged => \E r \in subscriptions : r.sub = last
      /\ \A i \in Invoice : invoices[i] <= 1
  BY DEF IInv, AloneInv
<1>2. /\ Replaces(h) => Webhook(h) /\ Checks(h)
      /\ Checks(h) => /\ Of(h) \in Subscriptions /\ handler[h].event = Checkout(Of(h))
                      /\ Checkout(Of(h)) \in outbox
  BY ReplacesWhat
<1>3. Checks(h) => last = Of(h) /\ (Replaces(h) \/ \E r \in subscriptions : r.sub = Of(h))
  BY <1>1 DEF AloneAt
<1>4. handler'[h] = Idle => AloneAt(h)'
  BY DEF Idle, AloneAt, Checks, Webhook
<1>5. Replaces(h) => last \notin Acknowledged
  BY <1>2, <1>3 DEF Acknowledged
<1>6. ASSUME UNCHANGED <<external, outbox>> PROVE Acknowledged' = Acknowledged
  BY <1>6 DEF Acknowledged, external
<1>7. ASSUME Others(h), handler[h].step # "idle", UNCHANGED <<external, outbox, invoices, history>>, AloneAt(h)',
             \A r, q \in subscriptions' : r = q,
             \A r \in subscriptions : \E q \in subscriptions' : q.sub = r.sub
      PROVE  AloneInv'
  <2>1. last' \in Acknowledged' => \E r \in subscriptions' : r.sub = last'
    BY <1>1, <1>6, <1>7 DEF history
  <2> QED
    BY <1>1, <1>7, <2>1, OthersIdle, AloneKept
<1>8. CASE WritePlan(h)
  <2>1. PICK new \in [subscriptions -> Row] :
           subscriptions' = {new[r] : r \in subscriptions} /\ \A r \in subscriptions : new[r].sub = r.sub
    BY <1>8, PlanWritten
  <2>2. \A r, q \in subscriptions' : r = q
    BY <1>1, <2>1
  <2>3. \A r \in subscriptions : \E q \in subscriptions' : q.sub = r.sub
    BY <2>1
  <2> QED
    BY <1>4, <1>7, <1>8, <2>2, <2>3, PlanWritten
<1>9. CASE FindExisting(h)
  <2>1. Replaces(h) /\ UNCHANGED tables
    BY <1>9, ExistingFound DEF Replaces
  <2>2. Of(h)' = Of(h) /\ Checks(h) /\ UNCHANGED history
    BY <1>2, <1>9, <2>1, ExistingFound DEF Of
  <2>3. AloneAt(h)'
    BY <1>1, <1>3, <1>9, <2>1, <2>2, ExistingFound DEF AloneAt, Replaces, tables, history
  <2> QED
    BY <1>1, <1>7, <1>9, <2>1, <2>3, ExistingFound DEF tables
<1>10. CASE DeleteExisting(h)
  <2>1. Others(h) /\ handler[h].step = "delete" /\ UNCHANGED <<external, outbox, invoices, history>>
    BY <1>10, ExistingDeleted
  <2>2. subscriptions' = {} /\ Replaces(h)
    BY <1>1, <1>10, <2>1, ExistingDeleted DEF AloneAt, Replaces
  <2>3. CASE handler'[h] = Idle
    BY <1>1, <1>4, <1>5, <1>6, <2>1, <2>2, <2>3, OthersIdle, AloneKept DEF history
  <2>4. CASE handler'[h].step = "insert" /\ handler'[h].event = handler[h].event
    <3>1. AloneAt(h)'
      BY <1>2, <1>3, <2>1, <2>2, <2>4 DEF AloneAt, Replaces, history, Of
    <3> QED
      BY <1>1, <1>5, <1>6, <2>1, <2>2, <3>1, OthersIdle, AloneKept DEF history
  <2> QED
    BY <1>10, <2>3, <2>4, ExistingDeleted
<1>11. CASE InsertSubscription(h)
  <2>1. Others(h) /\ handler[h].step = "insert" /\ UNCHANGED <<external, outbox, invoices, history>>
    BY <1>11, SubscriptionInserted
  <2>2. subscriptions = {} /\ Replaces(h)
    BY <1>1, <2>1 DEF AloneAt, Replaces
  <2>3. /\ subscriptions' = {NewRow(h)} /\ NewRow(h).sub = Of(h)
        /\ handler'[h].step \in {"look", "reply"} /\ handler'[h].event = handler[h].event
    BY <1>11, <2>1, <2>2, SubscriptionInserted, NewRowShape
  <2>4. AloneAt(h)'
    BY <1>2, <1>3, <2>1, <2>2, <2>3 DEF AloneAt, history, Of
  <2> QED
    BY <1>1, <1>5, <1>6, <2>1, <2>2, <2>3, <2>4, OthersIdle, AloneKept DEF history
<1>12. CASE FindOrganization(h)
  <2>1. ~Checks(h)'
    BY <1>12, LooksAndReplies DEF Checks, Webhook, Idle, IInv, HandlerInv, HandlerAt
  <2>2. AloneAt(h)'
    BY <1>4, <1>12, <2>1, LooksAndReplies DEF AloneAt
  <2> QED
    BY <1>1, <1>7, <1>12, <2>2, LooksAndReplies DEF tables
<1>13. CASE InvoiceExists(h)
  <2>1. Others(h) /\ handler[h].step = "look" /\ UNCHANGED <<external, outbox, tables, history>>
    BY <1>13, LooksAndReplies
  <2>2. CASE handler'[h] = Idle
    BY <1>1, <1>4, <1>7, <2>1, <2>2 DEF tables
  <2>3. CASE handler'[h].step = "store" /\ handler'[h].event = handler[h].event
             /\ ~(invoices[handler[h].event.invoice] > 0)
    <3>1. invoices[handler[h].event.invoice] = 0
      <4>1. Webhook(h)
        BY <2>1 DEF Webhook
      <4>2. handler[h].event.invoice \in Invoice
        BY <4>1, ReplacesWhat, EventShape
      <4> QED
        BY <2>3, <4>2 DEF IInv, TypeOK
    <3>2. AloneAt(h)'
      BY <1>3, <2>1, <2>3, <3>1 DEF AloneAt, Checks, Webhook, Replaces, Of, history, tables
    <3> QED
      BY <1>1, <1>7, <2>1, <3>2 DEF tables
  <2> QED
    BY <1>13, <2>2, <2>3, LooksAndReplies
<1>14. CASE CreateInvoice(h)
  <2>1. /\ Others(h) /\ handler[h].step = "store" /\ UNCHANGED <<external, outbox, subscriptions, history>>
        /\ invoices' = [invoices EXCEPT ![handler[h].event.invoice] = @ + 1]
        /\ handler'[h].step = "reply" /\ handler'[h].event = handler[h].event
    BY <1>14, LooksAndReplies
  <2>2. Webhook(h) /\ handler[h].event.invoice \in Invoice
    BY <2>1, ReplacesWhat, EventShape DEF Webhook
  <2>3. \A i \in Invoice : invoices'[i] <= 1
    BY <1>1, <2>1, <2>2 DEF AloneAt, IInv, TypeOK
  <2>4. AloneAt(h)'
    BY <1>3, <2>1 DEF AloneAt, Checks, Webhook, Replaces, Of, history
  <2> QED
    BY <1>1, <1>6, <2>1, <2>3, <2>4, OthersIdle, AloneKept DEF history
<1>15. CASE SetPeriodEnd(h)
  <2>1. PICK new \in [subscriptions -> Row] :
           subscriptions' = {new[r] : r \in subscriptions} /\ \A r \in subscriptions : new[r].sub = r.sub
    BY <1>15, PeriodEnds
  <2>2. \A r, q \in subscriptions' : r = q
    BY <1>1, <2>1
  <2>3. \A r \in subscriptions : \E q \in subscriptions' : q.sub = r.sub
    BY <2>1
  <2>4. AloneAt(h)'
    BY <1>15, PeriodEnds DEF AloneAt, Checks, IInv, HandlerInv, HandlerAt
  <2> QED
    BY <1>7, <1>15, <2>2, <2>3, <2>4, PeriodEnds
<1>16. CASE Reply(h)
  <2>1. /\ Others(h) /\ handler[h].step = "reply" /\ handler'[h] = Idle /\ UNCHANGED <<external, tables, history>>
        /\ outbox' = outbox \ {handler[h].event}
    BY <1>16, LooksAndReplies
  <2>2. ASSUME last \in Acknowledged' PROVE \E r \in subscriptions : r.sub = last
    <3>1. CASE last \in Acknowledged
      BY <1>1, <3>1
    <3>2. CASE last \notin Acknowledged
      <4>1. last \in Subscriptions /\ handler[h].event = Checkout(last)
        BY <2>1, <2>2, <3>2 DEF Acknowledged, external
      <4>2. Checks(h) /\ ~Replaces(h)
        BY <2>1, <4>1, Events DEF Checks, Webhook, Replaces
      <4> QED
        BY <1>3, <4>2
    <3> QED
      BY <3>1, <3>2
  <2> QED
    BY <1>1, <1>4, <2>1, <2>2, OthersIdle, AloneKept DEF history, tables
<1>17. CASE Dies(h)
  <2>1. handler[h].step # "idle"
    BY <1>17, LooksAndReplies DEF IInv, HandlerInv, HandlerAt
  <2> QED
    BY <1>1, <1>4, <1>7, <1>17, <2>1, LooksAndReplies DEF tables
<1> QED
  BY <1>8, <1>9, <1>10, <1>11, <1>12, <1>13, <1>14, <1>15, <1>16, <1>17 DEF Handles

\* AloneInv is kept: a request that begins while another is there makes overlapped true.
LEMMA AloneStep ==
  ASSUME BillingAssumption, IInv, Next
  PROVE  AloneInv'
<1> SUFFICES ASSUME ~overlapped' PROVE AloneInv'
  BY DEF AloneInv
<1>1. CASE External
  <2>1. UNCHANGED <<tables, history>>
    BY <1>1, Reported
  <2>2. UNCHANGED handler /\ Acknowledged' = Acknowledged
    BY <1>1, CheckoutsKept
  <2> QED
    BY <2>1, <2>2 DEF IInv, AloneInv, AloneAt, Checks, Webhook, Replaces, Of, tables, history
<1>2. ASSUME NEW h \in Handlers, NEW row \in subscriptions, NEW plan \in Plans, UpdatePlan(h, row, plan)
      PROVE  AloneInv'
  <2>1. /\ Others(h) /\ UNCHANGED <<unread, outbox, tables, last>>
        /\ handler'[h].step = "plan" /\ handler'[h].row = row.id
        /\ \A s \in Subscriptions : stripe'[s].status = stripe[s].status
        /\ ~overlapped /\ \A g \in Handlers : handler[g] = Idle
    BY <1>2, PlanChanged
  <2>2. /\ \A r, q \in subscriptions : r = q
        /\ last \in Acknowledged => \E r \in subscriptions : r.sub = last
        /\ \A i \in Invoice : invoices[i] <= 1
    BY <2>1 DEF IInv, AloneInv
  <2>3. Acknowledged' = Acknowledged
    BY <2>1 DEF Acknowledged
  <2>4. AloneAt(h)'
    BY <2>1, <2>2 DEF AloneAt, Checks, Webhook, tables
  <2>5. \A g \in Handlers \ {h} : handler'[g].step = "idle"
    BY <2>1 DEF Others, Idle
  <2> QED
    BY <2>1, <2>2, <2>3, <2>4, <2>5, AloneKept DEF tables
<1>3. ASSUME NEW h \in Handlers, NEW e \in outbox, Deliver(h, e) PROVE AloneInv'
  <2>1. /\ Others(h) /\ handler'[h].event = e /\ e \in Event
        /\ UNCHANGED <<external, outbox, tables>> /\ ~overlapped /\ \A g \in Handlers : handler[g] = Idle
        /\ handler'[h].step \in {"existing", "org", "end"}
        /\ e.kind = "checkout" => handler'[h].step = "existing" /\ last' = SubOf(e)
        /\ e.kind # "checkout" => last' = last
    BY <1>3, Delivered, EventShape
  <2>2. /\ \A r, q \in subscriptions : r = q
        /\ last \in Acknowledged => \E r \in subscriptions : r.sub = last
        /\ \A i \in Invoice : invoices[i] <= 1
    BY <2>1 DEF IInv, AloneInv
  <2>3. AloneAt(h)'
    BY <2>1 DEF AloneAt, Checks, Replaces, Of
  <2>4. last' \in Acknowledged' => last' = last /\ last \in Acknowledged
    BY <2>1, EventShape DEF Acknowledged, external
  <2>5. \A g \in Handlers \ {h} : handler'[g].step = "idle"
    BY <2>1 DEF Others, Idle
  <2> QED
    BY <2>1, <2>2, <2>3, <2>4, <2>5, AloneKept DEF tables
<1>4. ASSUME NEW h \in Handlers, Handles(h) PROVE AloneInv'
  <2>1. ~overlapped
    BY <1>4 DEF Handles, WritePlan, FindExisting, DeleteExisting, InsertSubscription, FindOrganization,
         InvoiceExists, CreateInvoice, SetPeriodEnd, Reply, Dies, history
  <2> QED
    BY <1>4, <2>1, AloneHandles
<1>5. ASSUME NEW e \in outbox, Skip(e) PROVE AloneInv'
  <2>1. UNCHANGED <<tables, handler, history>> /\ Acknowledged' = Acknowledged
    BY <1>5, Skipped DEF IInv
  <2> QED
    BY <2>1 DEF IInv, AloneInv, AloneAt, Checks, Webhook, Replaces, Of, tables, history
<1> QED
  BY <1>1, <1>2, <1>3, <1>4, <1>5, Actions

--------------------------------------------------------------------------------
(* And none of them cut short.                                              *)

\* A step of the one request at work, which leaves every account as it is.
LEMMA SmoothKept ==
  ASSUME IInv, ~overlapped, NEW h \in Handlers, handler[h].step # "idle", Others(h), UNCHANGED stripe,
         \A s \in Subscriptions : Pending(s)' =>
           /\ Pending(s)
           /\ \A r \in subscriptions' : r.sub # s
           /\ \A j \in 1 .. MaxInvoices : invoices'[<<s, j>>] = 0,
         \A r \in subscriptions' : r.plan = stripe[r.sub].plan,
         handler'[h].step # "plan", SmoothAt(h)', failures = 0
  PROVE  SmoothInv'
<1>1. \A g \in Handlers \ {h} : handler'[g].step = "idle"
  BY OthersIdle
<1>2. \A g \in Handlers : SmoothAt(g)'
  BY <1>1 DEF SmoothAt
<1>3. \A s \in Subscriptions : Pending(s) => stripe[s].plan = stripe[s].bought
  BY DEF IInv, SmoothInv
<1> QED
  BY <1>2, <1>3 DEF SmoothInv

\* For the one request at work the checkout of s is pending unless it is handling it.
LEMMA PendingAlone ==
  ASSUME IInv, ~overlapped, NEW h \in Handlers, handler[h].step # "idle", Others(h), NEW s \in Subscriptions
  PROVE  /\ Pending(s) <=> Checkout(s) \in outbox /\ (Webhook(h) /\ handler[h].event = Checkout(s) => Replaces(h))
         /\ Pending(s)' <=> Checkout(s) \in outbox' /\ (Webhook(h)' /\ handler'[h].event = Checkout(s) => Replaces(h)')
<1>1. \A g \in Handlers \ {h} : ~Webhook(g) /\ ~Webhook(g)'
  BY OthersIdle DEF Webhook
<1> QED
  BY <1>1 DEF Pending

\* The statements of the one request.
LEMMA SmoothHandles ==
  ASSUME BillingAssumption, IInv, NEW h \in Handlers, Handles(h), ~overlapped, failures = 0, ~Dies(h)
  PROVE  SmoothInv'
<1>1. /\ \A s \in Subscriptions : Pending(s) =>
           /\ stripe[s].plan = stripe[s].bought
           /\ \A r \in subscriptions : r.sub # s
           /\ \A j \in 1 .. MaxInvoices : invoices[<<s, j>>] = 0
      /\ SmoothAt(h) /\ AloneAt(h)
  BY DEF IInv, SmoothInv, AloneInv
<1>2. /\ Replaces(h) => Webhook(h) /\ Checks(h)
      /\ Checks(h) => /\ Of(h) \in Subscriptions /\ handler[h].event = Checkout(Of(h))
                      /\ Checkout(Of(h)) \in outbox
      /\ Webhook(h) => handler[h].event \in outbox /\ handler[h].event \in Event
  BY ReplacesWhat
<1>3. ASSUME handler[h].step \notin {"idle", "plan"} PROVE \A r \in subscriptions : r.plan = stripe[r.sub].plan
  <2>1. \A g \in Handlers : handler[g].step # "plan"
    BY <1>3 DEF IInv, AloneInv
  <2> QED
    BY <2>1 DEF IInv, SmoothInv
<1>4. \A s \in Subscriptions : Checkout(s).kind = "checkout" /\ SubOf(Checkout(s)) = s
  BY Events
<1>5. handler'[h] = Idle => handler'[h].step # "plan" /\ SmoothAt(h)' /\ ~Webhook(h)'
  BY DEF Idle, SmoothAt, Webhook
<1>6. \A r \in subscriptions : r.sub \in Subscriptions
  BY DEF IInv, TypeOK, Row
<1>7. ASSUME Others(h), handler[h].step # "idle", UNCHANGED <<external, outbox>>,
             Webhook(h) /\ handler[h].event.kind = "checkout" =>
               Webhook(h)' /\ handler'[h].event = handler[h].event /\ (Replaces(h)' => Replaces(h)),
             NEW s \in Subscriptions, Pending(s)'
      PROVE  Pending(s)
  BY <1>4, <1>7, PendingAlone
<1>8. CASE WritePlan(h)
  <2>1. /\ Others(h) /\ handler[h].step = "plan" /\ handler'[h] = Idle
        /\ UNCHANGED <<external, outbox, invoices>>
    BY <1>8, PlanWritten
  <2>2. PICK new \in [subscriptions -> Row] :
           /\ subscriptions' = {new[r] : r \in subscriptions}
           /\ \A r \in subscriptions :
                /\ new[r].sub = r.sub
                /\ new[r].plan = IF r.id = handler[h].row THEN handler[h].plan ELSE r.plan
    BY <1>8, PlanWritten
  <2>3. \A r \in subscriptions : new[r].sub = r.sub /\ new[r].plan = stripe[r.sub].plan
    BY <1>1, <2>1, <2>2 DEF AloneAt, SmoothAt
  <2>4. \A s \in Subscriptions : Pending(s)' => Pending(s)
    BY <1>7, <2>1 DEF Webhook
  <2>5. \A s \in Subscriptions : Pending(s)' => \A r \in subscriptions' : r.sub # s
    BY <1>1, <2>2, <2>3, <2>4
  <2>6. \A r \in subscriptions' : r.plan = stripe[r.sub].plan
    BY <2>2, <2>3
  <2> QED
    BY <1>1, <1>5, <2>1, <2>4, <2>5, <2>6, SmoothKept DEF external
<1>9. CASE FindExisting(h)
  <2>1. /\ Others(h) /\ handler[h].step = "existing" /\ UNCHANGED <<external, outbox, tables>>
        /\ handler'[h].step \in {"insert", "delete"} /\ handler'[h].event = handler[h].event
    BY <1>9, ExistingFound
  <2>2. \A s \in Subscriptions : Pending(s)' => Pending(s)
    BY <1>7, <2>1 DEF Webhook, Replaces
  <2>3. SmoothAt(h)'
    BY <2>1 DEF SmoothAt
  <2> QED
    BY <1>1, <1>3, <2>1, <2>2, <2>3, SmoothKept DEF external, tables
<1>10. CASE DeleteExisting(h)
  <2>1. /\ Others(h) /\ handler[h].step = "delete" /\ UNCHANGED <<external, outbox, invoices>>
        /\ subscriptions' = {r \in subscriptions : r.id # handler[h].row}
    BY <1>10, ExistingDeleted
  <2>2. subscriptions' = {}
    BY <1>1, <2>1 DEF AloneAt
  <2>3. \A s \in Subscriptions : Pending(s)' => Pending(s)
    BY <2>1, PendingAlone DEF Replaces
  <2>4. handler'[h].step # "plan" /\ SmoothAt(h)'
    BY <1>5, <1>10, ExistingDeleted DEF SmoothAt
  <2> QED
    BY <1>1, <2>1, <2>2, <2>3, <2>4, SmoothKept DEF external
<1>11. CASE InsertSubscription(h)
  <2>1. Others(h) /\ handler[h].step = "insert" /\ UNCHANGED <<external, outbox, invoices>>
    BY <1>11, SubscriptionInserted
  <2>2. subscriptions = {} /\ Replaces(h) /\ Webhook(h)
    BY <1>1, <2>1 DEF AloneAt, Replaces, Webhook
  <2>3. /\ subscriptions' = {NewRow(h)} /\ NewRow(h).sub = Of(h) /\ NewRow(h).plan = stripe[Of(h)].bought
        /\ handler'[h].step \in {"look", "reply"} /\ handler'[h].event = handler[h].event
    BY <1>11, <2>1, <2>2, SubscriptionInserted, NewRowShape
  <2>4. Pending(Of(h))
    BY <1>2, <2>1, <2>2, PendingAlone
  <2>5. \A s \in Subscriptions : Pending(s)' => Pending(s) /\ s # Of(h)
    BY <1>2, <2>1, <2>2, <2>3, PendingAlone DEF Webhook, Replaces
  <2>6. Of(h)' = Of(h)
    BY <2>3 DEF Of
  <2>7. SmoothAt(h)'
    BY <1>1, <1>2, <1>4, <2>1, <2>2, <2>3, <2>4, <2>6 DEF SmoothAt
  <2> QED
    BY <1>1, <1>2, <2>1, <2>2, <2>3, <2>4, <2>5, <2>7, SmoothKept DEF external
<1>12. CASE FindOrganization(h)
  <2>1. Others(h) /\ handler[h].step = "org" /\ UNCHANGED <<external, outbox, tables>>
    BY <1>12, LooksAndReplies
  <2>2. handler[h].event.kind = "paid" /\ Webhook(h)
    BY <2>1 DEF IInv, HandlerInv, HandlerAt, Webhook
  <2>3. \A s \in Subscriptions : Pending(s)' => Pending(s)
    BY <1>7, <2>1, <2>2
  <2>4. CASE handler'[h] = Idle
    BY <1>1, <1>3, <1>5, <2>1, <2>3, <2>4, SmoothKept DEF external, tables
  <2>5. CASE (\E r \in subscriptions : r.sub = Of(h)) /\ handler'[h].step = "look" /\ handler'[h].event = handler[h].event
    <3>1. Of(h) \in Subscriptions
      BY <1>6, <2>5
    <3>2. Checkout(Of(h)) \notin outbox
      <4>1. ~Pending(Of(h))
        BY <1>1, <2>5, <3>1
      <4> QED
        BY <1>4, <2>1, <2>2, <3>1, <4>1, PendingAlone
    <3>3. Of(h)' = Of(h)
      BY <2>5 DEF Of
    <3>4. SmoothAt(h)'
      BY <2>1, <2>2, <2>5, <3>2, <3>3 DEF SmoothAt
    <3> QED
      BY <1>1, <1>3, <2>1, <2>3, <2>5, <3>4, SmoothKept DEF external, tables
  <2> QED
    BY <1>12, <2>4, <2>5, LooksAndReplies
<1>13. CASE InvoiceExists(h)
  <2>1. Others(h) /\ handler[h].step = "look" /\ UNCHANGED <<external, outbox, tables>> /\ Webhook(h)
    BY <1>13, LooksAndReplies DEF Webhook
  <2>2. CASE invoices[handler[h].event.invoice] > 0 /\ handler'[h] = Idle
    <3>1. handler[h].event.kind # "checkout"
      <4> SUFFICES ASSUME handler[h].event.kind = "checkout" PROVE FALSE
        OBVIOUS
      <4>1. handler[h].event.invoice = <<Of(h), 1>>
        BY <1>2, <2>1, EventShape DEF Of
      <4>2. invoices[<<Of(h), 1>>] = 0
        BY <1>1, <2>1, ConstantTypes DEF SmoothAt
      <4> QED
        BY <2>2, <4>1, <4>2
    <3>2. \A s \in Subscriptions : Pending(s)' => Pending(s)
      BY <1>7, <2>1, <3>1
    <3> QED
      BY <1>1, <1>3, <1>5, <2>1, <2>2, <3>2, SmoothKept DEF external, tables
  <2>3. CASE handler'[h].step = "store" /\ handler'[h].event = handler[h].event
    <3>1. \A s \in Subscriptions : Pending(s)' => Pending(s)
      BY <1>7, <2>1, <2>3 DEF Webhook, Replaces
    <3>2. Of(h)' = Of(h)
      BY <2>3 DEF Of
    <3>3. SmoothAt(h)'
      BY <1>1, <2>1, <2>3, <3>2 DEF SmoothAt, tables
    <3> QED
      BY <1>1, <1>3, <2>1, <2>3, <3>1, <3>3, SmoothKept DEF external, tables
  <2> QED
    BY <1>13, <2>2, <2>3, LooksAndReplies
<1>14. CASE CreateInvoice(h)
  <2>1. /\ Others(h) /\ handler[h].step = "store" /\ UNCHANGED <<external, outbox, subscriptions>>
        /\ invoices' = [invoices EXCEPT ![handler[h].event.invoice] = @ + 1]
        /\ handler'[h].step = "reply" /\ handler'[h].event = handler[h].event /\ Webhook(h)
    BY <1>14, LooksAndReplies DEF Webhook
  <2>2. Of(h) \in Subscriptions /\ handler[h].event.invoice \in Invoice /\ handler[h].event.invoice[1] = Of(h)
        /\ (handler[h].event.kind = "checkout" => handler[h].event = Checkout(Of(h)))
    BY <1>2, <2>1, EventShape DEF Of
  <2>3. \A s \in Subscriptions : Pending(s)' => Pending(s) /\ s # Of(h)
    <3> TAKE s \in Subscriptions
    <3> HAVE Pending(s)'
    <3>1. Pending(s)
      BY <1>7, <2>1 DEF Webhook, Replaces
    <3>2. CASE handler[h].event.kind = "checkout"
      BY <2>1, <2>2, <3>1, <3>2, PendingAlone DEF Replaces
    <3>3. CASE handler[h].event.kind # "checkout"
      BY <1>1, <2>1, <3>1, <3>3 DEF SmoothAt, Pending
    <3> QED
      BY <3>1, <3>2, <3>3
  <2>4. \A s \in Subscriptions : Pending(s)' => \A j \in 1 .. MaxInvoices : invoices'[<<s, j>>] = 0
    <3> TAKE s \in Subscriptions
    <3> HAVE Pending(s)'
    <3> TAKE j \in 1 .. MaxInvoices
    <3>1. <<s, j>> \in Invoice /\ <<s, j>> # handler[h].event.invoice
      BY <2>2, <2>3 DEF Invoice
    <3> QED
      BY <1>1, <2>1, <2>3, <3>1 DEF IInv, TypeOK
  <2>5. SmoothAt(h)'
    BY <2>1 DEF SmoothAt
  <2> QED
    BY <1>1, <1>3, <2>1, <2>3, <2>4, <2>5, SmoothKept DEF external
<1>15. CASE SetPeriodEnd(h)
  <2>1. /\ Others(h) /\ handler[h].step = "end" /\ handler'[h].step = "reply"
        /\ UNCHANGED <<external, outbox, invoices>>
    BY <1>15, PeriodEnds
  <2>2. PICK new \in [subscriptions -> Row] :
           /\ subscriptions' = {new[r] : r \in subscriptions}
           /\ \A r \in subscriptions : new[r].sub = r.sub /\ new[r].plan = r.plan
    BY <1>15, PeriodEnds
  <2>3. handler[h].event.kind # "checkout"
    BY <2>1 DEF IInv, HandlerInv, HandlerAt
  <2>4. \A s \in Subscriptions : Pending(s)' => Pending(s)
    BY <1>7, <2>1, <2>3
  <2>5. \A s \in Subscriptions : Pending(s)' => \A r \in subscriptions' : r.sub # s
    BY <1>1, <2>2, <2>4
  <2>6. \A r \in subscriptions' : r.plan = stripe[r.sub].plan
    BY <1>3, <2>1, <2>2
  <2>7. SmoothAt(h)'
    BY <2>1 DEF SmoothAt
  <2> QED
    BY <1>1, <2>1, <2>4, <2>5, <2>6, <2>7, SmoothKept DEF external
<1>16. CASE Reply(h)
  <2>1. /\ Others(h) /\ handler[h].step = "reply" /\ handler'[h] = Idle /\ UNCHANGED <<external, tables>>
        /\ outbox' = outbox \ {handler[h].event}
    BY <1>16, LooksAndReplies
  <2>2. \A s \in Subscriptions : Pending(s)' => Pending(s)
    BY <2>1, PendingAlone
  <2> QED
    BY <1>1, <1>3, <1>5, <2>1, <2>2, SmoothKept DEF external, tables
<1> QED
  BY <1>8, <1>9, <1>10, <1>11, <1>12, <1>13, <1>14, <1>15, <1>16 DEF Handles

\* SmoothInv is kept: a plan changes at Stripe only together with a request that will write it.
LEMMA SmoothStep ==
  ASSUME BillingAssumption, IInv, Next
  PROVE  SmoothInv'
<1> SUFFICES ASSUME ~overlapped', failures' = 0 PROVE SmoothInv'
  BY DEF SmoothInv
<1>1. CASE External
  <2>1. UNCHANGED <<tables, handler, failures, history>>
    BY <1>1, Reported
  <2>2. /\ \A s \in Subscriptions : stripe[s].status # "none" => (Checkout(s) \in outbox <=> Checkout(s) \in outbox')
        /\ UNCHANGED handler
    BY <1>1, CheckoutsKept
  <2>3. \A s \in Subscriptions : stripe[s].status # "none" =>
           stripe'[s].plan = stripe[s].plan /\ stripe'[s].bought = stripe[s].bought
    BY <1>1, Reported
  <2>4. \A s \in Subscriptions : stripe[s].status # "none" /\ Pending(s)' => Pending(s)
    BY <2>1, <2>2 DEF Pending, Webhook, Replaces
  <2>5. \A s \in Subscriptions : stripe[s].status = "none" => ~(Checkout(s) \in outbox)
    BY Events DEF IInv, MadeInv
  <2>6. \A s \in Subscriptions : stripe[s].status = "none" /\ Checkout(s) \in outbox' => stripe'[s].plan = stripe'[s].bought
    <3>1. CASE UNCHANGED <<stripe, outbox>>
      BY <2>5, <3>1
    <3>2. CASE ~UNCHANGED <<stripe, outbox>>
      <4>1. PICK s \in Subscriptions :
                 \/ stripe'[s].plan = stripe'[s].bought /\ outbox' = outbox \cup {Checkout(s), Paid(<<s, 1>>)}
                 \/ \E e \in Event : e.kind # "checkout" /\ outbox' = outbox \cup {e}
        BY <1>1, <3>2, Reported
      <4>2. \A t \in Subscriptions : Checkout(t).kind = "checkout" /\ SubOf(Checkout(t)) = t
        BY Events
      <4>3. Paid(<<s, 1>>).kind = "paid"
        BY DEF Paid
      <4>4. \A t \in Subscriptions : Checkout(t) \in outbox' => \/ Checkout(t) \in outbox
                                                                \/ t = s /\ stripe'[s].plan = stripe'[s].bought
        BY <4>1, <4>2, <4>3
      <4> QED
        BY <2>5, <4>4
    <3> QED
      BY <3>1, <3>2
  <2>7. \A s \in Subscriptions : stripe[s].status = "none" =>
           /\ \A r \in subscriptions : r.sub # s
           /\ \A j \in 1 .. MaxInvoices : invoices[<<s, j>>] = 0
    <3>1. \A s \in Subscriptions : \A j \in 1 .. MaxInvoices :
             <<s, j>> \in Invoice /\ <<s, j>>[1] = s /\ invoices[<<s, j>>] \in 0 .. 2
      BY DEF Invoice, IInv, TypeOK
    <3> QED
      BY <3>1 DEF IInv, MadeInv
  <2>8. \A s \in Subscriptions : Pending(s)' =>
         /\ stripe'[s].plan = stripe'[s].bought
         /\ \A r \in subscriptions : r.sub # s
         /\ \A j \in 1 .. MaxInvoices : invoices[<<s, j>>] = 0
    <3> TAKE s \in Subscriptions
    <3> HAVE Pending(s)'
    <3>1. CASE stripe[s].status = "none"
      BY <2>6, <2>7, <3>1 DEF Pending
    <3>2. CASE stripe[s].status # "none"
      BY <2>1, <2>3, <2>4, <3>2 DEF IInv, SmoothInv, history
    <3> QED
      BY <3>1, <3>2
  <2>9. \A r \in subscriptions : stripe'[r.sub].plan = stripe[r.sub].plan
    BY <2>3 DEF IInv, TypeOK, Row, MadeInv
  <2>10. ASSUME NEW h \in Handlers PROVE SmoothAt(h)'
    <3>1. SmoothAt(h)
      BY <2>1 DEF IInv, SmoothInv, history
    <3>2. handler[h].step \in {"look", "store"} => Of(h) \in Subscriptions /\ stripe[Of(h)].status # "none"
      <4>1. handler[h].step \in {"look", "store"} => handler[h].event \in outbox /\ handler[h].event \in Event
        BY ReplacesWhat DEF Webhook
      <4> QED
        BY <4>1, EventShape DEF Of, IInv, MadeInv
    <3>3. Of(h)' = Of(h)
      BY <2>1 DEF Of
    <3>4. handler[h].step = "plan" => \A r \in subscriptions' : handler'[h].plan = stripe'[r.sub].plan
      BY <2>1, <2>9, <3>1 DEF SmoothAt, tables
    <3>5. handler[h].step \in {"look", "store"} =>
            IF handler[h].event.kind = "checkout" THEN \A j \in 1 .. MaxInvoices : invoices'[<<Of(h), j>>] = 0
                                                  ELSE Checkout(Of(h)) \notin outbox'
      BY <2>1, <2>2, <3>1, <3>2 DEF SmoothAt, tables
    <3> QED
      BY <2>1, <3>3, <3>4, <3>5 DEF SmoothAt
  <2>11. (\A h \in Handlers : handler'[h].step # "plan") => \A r \in subscriptions' : r.plan = stripe'[r.sub].plan
    BY <2>1, <2>9 DEF IInv, SmoothInv, history, tables
  <2> QED
    BY <2>1, <2>8, <2>10, <2>11 DEF SmoothInv, tables
<1>2. ASSUME NEW h \in Handlers, NEW row \in subscriptions, NEW plan \in Plans, UpdatePlan(h, row, plan)
      PROVE  SmoothInv'
  <2>1. /\ Others(h) /\ UNCHANGED <<outbox, tables, failures>>
        /\ handler'[h].step = "plan" /\ handler'[h].plan = plan
        /\ stripe'[row.sub].plan = plan
        /\ \A s \in Subscriptions \ {row.sub} : stripe'[s] = stripe[s]
        /\ ~overlapped /\ \A g \in Handlers : handler[g] = Idle
    BY <1>2, PlanChanged
  <2>2. /\ \A r \in subscriptions : r = row
        /\ \A s \in Subscriptions : Pending(s) =>
             /\ stripe[s].plan = stripe[s].bought
             /\ \A r \in subscriptions : r.sub # s
             /\ \A j \in 1 .. MaxInvoices : invoices[<<s, j>>] = 0
    BY <2>1 DEF IInv, AloneInv, SmoothInv
  <2>3. \A g \in Handlers \ {h} : handler'[g].step = "idle"
    BY <2>1 DEF Others, Idle
  <2>4. \A s \in Subscriptions : Pending(s)' => Pending(s)
    BY <2>1 DEF Pending, Webhook, Idle
  <2>5. \A g \in Handlers : SmoothAt(g)'
    BY <2>1, <2>2, <2>3 DEF SmoothAt, tables
  <2>6. \A s \in Subscriptions : Pending(s)' =>
          /\ stripe'[s].plan = stripe'[s].bought
          /\ \A r \in subscriptions : r.sub # s
          /\ \A j \in 1 .. MaxInvoices : invoices[<<s, j>>] = 0
    BY <2>1, <2>2, <2>4
  <2> QED
    BY <2>1, <2>5, <2>6 DEF SmoothInv, tables
<1>3. ASSUME NEW h \in Handlers, NEW e \in outbox, Deliver(h, e) PROVE SmoothInv'
  <2>1. /\ Others(h) /\ handler'[h].step \in {"existing", "org", "end"}
        /\ UNCHANGED <<external, outbox, tables, failures>> /\ ~overlapped /\ \A g \in Handlers : handler[g] = Idle
    BY <1>3, Delivered, EventShape
  <2>2. /\ \A s \in Subscriptions : Pending(s) =>
             /\ stripe[s].plan = stripe[s].bought
             /\ \A r \in subscriptions : r.sub # s
             /\ \A j \in 1 .. MaxInvoices : invoices[<<s, j>>] = 0
        /\ \A r \in subscriptions : r.plan = stripe[r.sub].plan
    BY <2>1 DEF IInv, SmoothInv, Idle
  <2>3. \A g \in Handlers \ {h} : handler'[g].step = "idle"
    BY <2>1 DEF Others, Idle
  <2>4. \A s \in Subscriptions : Pending(s)' => Pending(s)
    BY <2>1 DEF Pending, Webhook, Idle
  <2>5. \A g \in Handlers : SmoothAt(g)'
    BY <2>1, <2>3 DEF SmoothAt
  <2> QED
    BY <2>1, <2>2, <2>4, <2>5 DEF SmoothInv, tables, external
<1>4. ASSUME NEW h \in Handlers, Handles(h) PROVE SmoothInv'
  <2>1. ~overlapped /\ failures' \in {failures, failures + 1}
    BY <1>4 DEF Handles, WritePlan, FindExisting, DeleteExisting, InsertSubscription, FindOrganization,
         InvoiceExists, CreateInvoice, SetPeriodEnd, Reply, Dies, history
  <2>2. failures = 0
    BY <2>1, ConstantTypes DEF IInv, TypeOK
  <2>3. ~Dies(h)
    BY <2>2 DEF Dies
  <2> QED
    BY <1>4, <2>1, <2>2, <2>3, SmoothHandles
<1>5. ASSUME NEW e \in outbox, Skip(e) PROVE SmoothInv'
  <2>1. UNCHANGED <<stripe, tables, handler, failures, history>> /\ outbox' \subseteq outbox
    BY <1>5, Skipped DEF IInv
  <2>2. \A s \in Subscriptions : Pending(s)' => Pending(s)
    BY <2>1 DEF Pending, Webhook, Replaces
  <2>3. \A h \in Handlers : SmoothAt(h) => SmoothAt(h)'
    BY <2>1 DEF SmoothAt, Of, tables
  <2>4. ~overlapped /\ failures = 0
    BY <2>1 DEF history
  <2> QED
    BY <2>1, <2>2, <2>3, <2>4 DEF IInv, SmoothInv, tables
<1> QED
  BY <1>1, <1>2, <1>3, <1>4, <1>5, Actions

--------------------------------------------------------------------------------
(* The theorems.                                                            *)

\* What the runs check follows from the rest of the invariant.
LEMMA Follows ==
  ASSUME TypeOK, SubscribedInv, AloneInv, SmoothInv
  PROVE  BillingFollowsStripe
<1>1. Acknowledged # {} => subscriptions # {} \/ \E s \in Subscriptions : Checkout(s) \in outbox \cup unread
  BY DEF SubscribedInv, Missed, Pending
<1>2. ASSUME ~overlapped
      PROVE  /\ Cardinality(subscriptions) <= 1
             /\ last \in Acknowledged => \E row \in subscriptions : row.sub = last
             /\ \A i \in Invoice : invoices[i] <= 1
  <2>1. \A r, q \in subscriptions : r = q
    BY <1>2 DEF AloneInv
  <2>2. CASE subscriptions = {}
    BY <1>2, <2>2, FS_EmptySet DEF AloneInv
  <2>3. CASE subscriptions # {}
    <3>1. PICK r \in subscriptions : TRUE
      BY <2>3
    <3>2. subscriptions = {r}
      BY <2>1, <3>1
    <3>3. Cardinality(subscriptions) = 1
      BY <3>2, FS_Singleton
    <3> QED
      BY <1>2, <3>3 DEF AloneInv
  <2> QED
    BY <2>2, <2>3
<1>3. ASSUME ~overlapped, failures = 0, Busy = {}
      PROVE  \A row \in subscriptions : row.plan = stripe[row.sub].plan
  <2>1. \A h \in Handlers : handler[h].step # "plan"
    BY <1>3 DEF Busy, Idle
  <2> QED
    BY <1>3, <2>1 DEF SmoothInv
<1> QED
  BY <1>1, <1>2, <1>3 DEF BillingFollowsStripe

\* At first nothing is bought and nothing is handled.
LEMMA InitInvariant ==
  ASSUME BillingAssumption, Init
  PROVE  IInv
<1>1. TypeOK
  <2>1. stripe \in [Subscriptions -> Account]
    BY ConstantTypes DEF Init, Account
  <2>2. handler \in [Handlers -> Work]
    BY DEF Init, Idle, Work, Steps
  <2>3. overlapped \in BOOLEAN
    BY Zenon DEF Init
  <2>4. /\ links \subseteq Plans /\ outbox \subseteq Event /\ unread \subseteq Event /\ subscriptions \subseteq Row
        /\ invoices \in [Invoice -> 0 .. 2] /\ changes \in 0 .. MaxDisturbances
        /\ failures \in 0 .. MaxDisturbances /\ last \in Subscriptions \cup {None}
    BY ConstantTypes DEF Init
  <2> QED
    BY <2>1, <2>2, <2>3, <2>4, Zenon DEF TypeOK, Account, Work, Steps
<1>2. \A h \in Handlers : handler[h] = Idle /\ handler[h].step = "idle"
  BY DEF Init, Idle
<1>3. HandlerInv
  BY <1>2 DEF HandlerInv, HandlerAt, Webhook, Replaces
<1>4. MadeInv
  BY DEF Init, MadeInv
<1>5. StoreInv
  BY <1>2 DEF StoreInv
<1>6. Acknowledged = {}
  BY DEF Acknowledged, Init
<1>7. SubscribedInv
  BY <1>2, <1>6 DEF SubscribedInv, Checks, Webhook
<1>8. AloneInv
  BY <1>2, <1>6 DEF AloneInv, AloneAt, Checks, Webhook, Init
<1>9. SmoothInv
  BY <1>2 DEF SmoothInv, SmoothAt, Pending, Init
<1> QED
  BY <1>1, <1>3, <1>4, <1>5, <1>7, <1>8, <1>9, Follows DEF IInv

\* The parts of IInv together are preserved by every step.
LEMMA StepInvariant ==
  ASSUME BillingAssumption, IInv, [Next]_vars
  PROVE  IInv'
<1>1. CASE Next
  <2>1. TypeOK'
    BY <1>1, Actions, ExternalTypes, RequestTypes, Skipped DEF IInv
  <2>2. HandlerInv' /\ MadeInv' /\ StoreInv' /\ SubscribedInv' /\ AloneInv' /\ SmoothInv'
    BY <1>1, HandlersStep, MadeStep, StoreStep, SubscribedStep, AloneStep, SmoothStep
  <2>3. BillingFollowsStripe'
    BY <2>1, <2>2, Follows, PTL
  <2> QED
    BY <2>1, <2>2, <2>3 DEF IInv
<1>2. CASE UNCHANGED vars
  BY <1>2 DEF vars, tables, external, history, IInv, TypeOK, HandlerInv, HandlerAt, MadeInv, StoreInv,
     SubscribedInv, AloneInv, AloneAt, SmoothInv, SmoothAt, BillingFollowsStripe, Webhook, Checks, Replaces, Of,
     Pending, Missed, Acknowledged, Busy
<1> QED
  BY <1>1, <1>2

\* The invariant of which the others are part: whatever Stripe posts, in whatever order and as often as it
\* likes, and wherever the handlers of handlers/stripe_handler.rs stop.
THEOREM InductiveInvariant == BillingAssumption /\ Spec => []IInv
<1> SUFFICES ASSUME BillingAssumption PROVE Spec => []IInv
  OBVIOUS
<1>1. Init => IInv
  BY InitInvariant
<1>2. IInv /\ [Next]_vars => IInv'
  BY StepInvariant
<1> QED
  BY <1>1, <1>2, PTL DEF Spec

\* The tables, Stripe's accounts and the requests in progress keep their types: no row lacks a free id, no
\* invoice is stored more than twice.
THEOREM TypeCorrect == BillingAssumption /\ Spec => []TypeOK
<1>1. IInv => TypeOK
  BY DEF IInv
<1> QED
  BY <1>1, InductiveInvariant, PTL

\* An organization whose checkout was handled has a row, unless a checkout is still to be answered or was
\* answered without being read; without two requests at
\* once there is one row, of the checkout handled last, and each invoice is stored once; without a request
\* cut short its plan is the one that Stripe charges.
THEOREM FollowsStripe == BillingAssumption /\ Spec => []BillingFollowsStripe
<1>1. IInv => BillingFollowsStripe
  BY DEF IInv
<1> QED
  BY <1>1, InductiveInvariant, PTL
================================================================================
