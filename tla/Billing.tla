------------------------------ MODULE Billing ------------------------------
(***************************************************************************)
(* The subscription of one organization, kept on both sides: at Stripe     *)
(* and in the tables stripe_subscriptions and stripe_invoices.  Stripe     *)
(* reports what happens by events posted to the webhook                    *)
(* (handlers/stripe_handler.rs); an event that is not answered with 200 is *)
(* posted again, events come in any order, and several are handled at      *)
(* once.  A handler is a sequence of statements with no transaction around *)
(* them: another handler may run, or the process may die, between any two. *)
(* No index says that an organization has one subscription, or that an     *)
(* invoice is stored once: the handlers look before they write.            *)
(***************************************************************************)
EXTENDS Integers, FiniteSets

CONSTANTS
  LastSubscription, \* bound: the subscriptions 1 .. LastSubscription are bought, in this order
  Plans,            \* the rows of stripe_plans
  Offered,          \* bound: the plans a payment page is asked for
  Handlers,         \* requests that may be in progress together
  MaxInvoices,      \* bound: invoices that Stripe issues to the organization
  MaxDisturbances,  \* bound: plan changes and requests cut short, together
  MaxUnread,        \* bound: events that are answered without being read
  None

BillingAssumption ==
  /\ Offered \subseteq Plans /\ IsFiniteSet(Handlers)
  /\ LastSubscription \in Nat /\ MaxInvoices \in Nat \ {0}
  /\ MaxDisturbances \in Nat /\ MaxUnread \in Nat

VARIABLES
  stripe,          \* Stripe's view of each subscription
  links,           \* the plans for which a payment page was created
  outbox,          \* the events Stripe has had no 200 for
  unread,          \* the events that had a 200 without being read
  subscriptions,   \* the rows of stripe_subscriptions
  invoices,        \* for each invoice, its rows in stripe_invoices
  handler,         \* what each request in progress is about to do
  changes,         \* requests to change the plan so far
  failures,        \* requests cut short so far
  last,            \* history: the checkout whose handling began last
  overlapped       \* history: two requests were in progress together

vars == <<stripe, links, unread, outbox, subscriptions, invoices, handler, changes, failures, last, overlapped>>

tables == <<subscriptions, invoices>>
external == <<stripe, links, unread>>
history == <<last, overlapped>>

Subscriptions == 1 .. LastSubscription

\* Row ids: enough that a row not yet seen by anyone can always get a new one.
Ids == 1 .. Cardinality(Subscriptions) + Cardinality(Handlers)

Row == [id : Ids, sub : Subscriptions, plan : Plans, ended : BOOLEAN]

Invoice == Subscriptions \X (1 .. MaxInvoices)

Checkout(s) == [kind |-> "checkout", invoice |-> <<s, 1>>]
Paid(i) == [kind |-> "paid", invoice |-> i]
Ended(s) == [kind |-> "ended", invoice |-> <<s, 1>>]

Event == {Checkout(s) : s \in Subscriptions} \cup {Paid(i) : i \in Invoice}
           \cup {Ended(s) : s \in Subscriptions}

SubOf(event) == event.invoice[1]

Idle == [step |-> "idle", event |-> None, row |-> None, plan |-> None]

Busy == {h \in Handlers : handler[h] # Idle}

TypeOK ==
  /\ stripe \in [Subscriptions -> [status : {"none", "active", "ended"}, bought : Plans \cup {None},
                                   plan : Plans \cup {None},
                                   issued : 0 .. MaxInvoices]]
  /\ links \subseteq Plans
  /\ outbox \subseteq Event
  /\ unread \subseteq Event
  /\ subscriptions \subseteq Row
  /\ invoices \in [Invoice -> 0 .. 2]
  /\ handler \in [Handlers -> [step : {"idle", "existing", "delete", "insert", "look", "store", "org",
                                       "end", "reply", "plan"},
                               event : Event \cup {None}, row : Ids \cup {None},
                               plan : Plans \cup {None}]]
  /\ changes \in 0 .. MaxDisturbances
  /\ failures \in 0 .. MaxDisturbances
  /\ last \in Subscriptions \cup {None}
  /\ overlapped \in BOOLEAN

Init ==
  /\ stripe = [s \in Subscriptions |-> [status |-> "none", bought |-> None, plan |-> None, issued |-> 0]]
  /\ links = {}
  /\ outbox = {}
  /\ unread = {}
  /\ subscriptions = {}
  /\ invoices = [i \in Invoice |-> 0]
  /\ handler = [h \in Handlers |-> Idle]
  /\ changes = 0
  /\ failures = 0
  /\ last = None
  /\ overlapped = FALSE

(***************************************************************************)
(* The organization's requests.                                            *)
(***************************************************************************)

\* A page to pay for a plan is refused while the row found for the organization is running.  Nothing
\* refuses a second payment on a page that exists.
PaymentLink(plan) ==
  /\ IF subscriptions = {} THEN TRUE ELSE \E row \in subscriptions : row.ended
  /\ links' = links \cup {plan}
  /\ UNCHANGED <<stripe, unread, outbox, tables, handler, changes, failures, history>>

\* Cancelling only tells Stripe: the row changes when Stripe reports the end.
Cancel(row) ==
  /\ stripe[row.sub].status = "active"
  /\ stripe' = [stripe EXCEPT ![row.sub].status = "ended"]
  /\ outbox' = outbox \cup {Ended(row.sub)}
  /\ UNCHANGED <<links, unread, tables, handler, changes, failures, history>>

Starts(h, next) ==
  /\ handler[h] = Idle
  /\ handler' = [handler EXCEPT ![h] = next]
  /\ overlapped' = (overlapped \/ Busy # {})

\* Another plan: Stripe is changed first, the row it was read from afterwards.
UpdatePlan(h, row, plan) ==
  /\ stripe[row.sub].status = "active"
  /\ changes + failures < MaxDisturbances
  /\ changes' = changes + 1
  /\ stripe' = [stripe EXCEPT ![row.sub].plan = plan]
  /\ Starts(h, [Idle EXCEPT !.step = "plan", !.row = row.id, !.plan = plan])
  /\ UNCHANGED <<links, unread, outbox, tables, failures, last>>

WritePlan(h) ==
  /\ handler[h].step = "plan"
  /\ subscriptions' = {IF row.id = handler[h].row THEN [row EXCEPT !.plan = handler[h].plan] ELSE row :
                         row \in subscriptions}
  /\ handler' = [handler EXCEPT ![h] = Idle]
  /\ UNCHANGED <<external, outbox, invoices, changes, failures, history>>

(***************************************************************************)
(* Stripe.                                                                 *)
(***************************************************************************)

Issued == {i \in Invoice : i[2] <= stripe[i[1]].issued}

\* A page is paid: the subscription starts, with its first invoice paid.
Pay(s, plan) ==
  /\ stripe[s].status = "none" /\ \A t \in 1 .. s - 1 : stripe[t].status # "none"
  /\ plan \in links
  /\ Cardinality(Issued) < MaxInvoices
  /\ stripe' = [stripe EXCEPT ![s] = [status |-> "active", bought |-> plan, plan |-> plan, issued |-> 1]]
  /\ outbox' = outbox \cup {Checkout(s), Paid(<<s, 1>>)}
  /\ UNCHANGED <<links, unread, tables, handler, changes, failures, history>>

Renew(s) ==
  /\ stripe[s].status = "active"
  /\ Cardinality(Issued) < MaxInvoices
  /\ stripe' = [stripe EXCEPT ![s].issued = @ + 1]
  /\ outbox' = outbox \cup {Paid(<<s, stripe[s].issued + 1>>)}
  /\ UNCHANGED <<links, unread, tables, handler, changes, failures, history>>

\* A subscription may end without a request of the organization.
Lapse(s) ==
  /\ stripe[s].status = "active"
  /\ stripe' = [stripe EXCEPT ![s].status = "ended"]
  /\ outbox' = outbox \cup {Ended(s)}
  /\ UNCHANGED <<links, unread, tables, handler, changes, failures, history>>

\* An event is posted, or posted again, when no answer to it is awaited.  (A checkout of mode setup sets a
\* payment method at Stripe and plans are another table: neither is an event here.)
Deliver(h, event) ==
  /\ \A g \in Handlers : handler[g].event # event
  /\ Starts(h, [Idle EXCEPT !.event = event,
                            !.step = CASE event.kind = "checkout" -> "existing"
                                       [] event.kind = "paid" -> "org"
                                       [] event.kind = "ended" -> "end"])
  /\ last' = IF overlapped' THEN None ELSE IF event.kind = "checkout" THEN SubOf(event) ELSE last
  /\ UNCHANGED <<external, outbox, tables, changes, failures>>

\* An event that Webhook::construct_event cannot verify or read (an API version or an object the library
\* does not know, a timestamp out of tolerance) is answered with 200 as well: Stripe will not post it again.
Skip(event) ==
  /\ \A h \in Handlers : handler[h].event # event
  /\ Cardinality(unread) < MaxUnread
  /\ outbox' = outbox \ {event}
  /\ unread' = unread \cup {event}
  /\ UNCHANGED <<stripe, links, tables, handler, changes, failures, history>>

(***************************************************************************)
(* The webhook.                                                            *)
(***************************************************************************)

GoTo(h, step) == handler' = [handler EXCEPT ![h].step = step]

Fails(h) == handler' = [handler EXCEPT ![h] = Idle]

\* Mutant: the old row stays.
FindNothing(h) ==
  /\ handler[h].step = "existing"
  /\ GoTo(h, "insert")
  /\ UNCHANGED <<external, outbox, tables, changes, failures, history>>

\* A checkout replaces the row found for the organization, if there is one ...
FindExisting(h) ==
  /\ handler[h].step = "existing"
  /\ \/ subscriptions = {} /\ GoTo(h, "insert")
     \/ \E row \in subscriptions :
          handler' = [handler EXCEPT ![h].step = "delete", ![h].row = row.id]
  /\ UNCHANGED <<external, outbox, tables, changes, failures, history>>

\* ... which is an error when someone else has just replaced it.
DeleteExisting(h) ==
  /\ handler[h].step = "delete"
  /\ LET found == {row \in subscriptions : row.id = handler[h].row} IN
     /\ subscriptions' = subscriptions \ found
     /\ handler' = [handler EXCEPT ![h] =
                    IF found = {} THEN Idle ELSE [@ EXCEPT !.step = "insert", !.row = None]]
  /\ UNCHANGED <<external, outbox, invoices, changes, failures, history>>

\* stripe_id is unique.  The event carries the plan its payment page was made for, and the invoice if
\* there is one.
InsertSubscription(h) ==
  /\ handler[h].step = "insert"
  /\ LET s == SubOf(handler[h].event)
         used == {row.id : row \in subscriptions} \cup {handler[g].row : g \in Handlers}
         id == CHOOSE i \in Ids \ used : \A j \in Ids \ used : i <= j
     IN IF \E row \in subscriptions : row.sub = s
          THEN Fails(h) /\ UNCHANGED subscriptions
          ELSE /\ subscriptions' = subscriptions \cup
                    {[id |-> id, sub |-> s, plan |-> stripe[s].bought, ended |-> FALSE]}
               /\ GoTo(h, "look") \/ GoTo(h, "reply")
  /\ UNCHANGED <<external, outbox, invoices, changes, failures, history>>

\* The organization of a paid invoice is the one its subscription's row names.
FindOrganization(h) ==
  /\ handler[h].step = "org"
  /\ IF \E row \in subscriptions : row.sub = SubOf(handler[h].event) THEN GoTo(h, "look") ELSE Fails(h)
  /\ UNCHANGED <<external, outbox, tables, changes, failures, history>>

\* Mutant: an invoice is stored as often as it is reported.
InvoiceIgnored(h) ==
  /\ handler[h].step = "look"
  /\ GoTo(h, "store")
  /\ UNCHANGED <<external, outbox, tables, changes, failures, history>>

\* An invoice that has a row is an error.
InvoiceExists(h) ==
  /\ handler[h].step = "look"
  /\ IF invoices[handler[h].event.invoice] > 0 THEN Fails(h) ELSE GoTo(h, "store")
  /\ UNCHANGED <<external, outbox, tables, changes, failures, history>>

CreateInvoice(h) ==
  /\ handler[h].step = "store"
  /\ invoices' = [invoices EXCEPT ![handler[h].event.invoice] = @ + 1]
  /\ GoTo(h, "reply")
  /\ UNCHANGED <<external, outbox, subscriptions, changes, failures, history>>

\* The end of a subscription is written on its row, if it has one.
SetPeriodEnd(h) ==
  /\ handler[h].step = "end"
  /\ subscriptions' = {IF row.sub = SubOf(handler[h].event) THEN [row EXCEPT !.ended = TRUE] ELSE row :
                         row \in subscriptions}
  /\ GoTo(h, "reply")
  /\ UNCHANGED <<external, outbox, invoices, changes, failures, history>>

Reply(h) ==
  /\ handler[h].step = "reply"
  /\ outbox' = outbox \ {handler[h].event}
  /\ handler' = [handler EXCEPT ![h] = Idle]
  /\ UNCHANGED <<external, tables, changes, failures, history>>

\* A statement or a call to Stripe fails, the process dies or the answer is lost: Stripe will post the
\* event again.
Dies(h) ==
  /\ handler[h] # Idle
  /\ changes + failures < MaxDisturbances
  /\ failures' = failures + 1
  /\ Fails(h)
  /\ UNCHANGED <<external, outbox, tables, changes, history>>

Next ==
  \/ \E plan \in Offered : PaymentLink(plan)
  \/ \E row \in subscriptions : Cancel(row)
  \/ \E event \in outbox : Skip(event)
  \/ \E s \in Subscriptions : Renew(s) \/ Lapse(s) \/ \E plan \in Offered : Pay(s, plan)
  \/ \E h \in Handlers :
       \/ \E row \in subscriptions, plan \in Plans : UpdatePlan(h, row, plan)
       \/ \E event \in outbox : Deliver(h, event)
       \/ WritePlan(h) \/ FindExisting(h) \/ DeleteExisting(h) \/ InsertSubscription(h)
       \/ FindOrganization(h) \/ InvoiceExists(h) \/ CreateInvoice(h) \/ SetPeriodEnd(h)
       \/ Reply(h) \/ Dies(h)

Spec == Init /\ [][Next]_vars

(***************************************************************************)
(* Properties.                                                             *)
(***************************************************************************)

\* The subscriptions whose checkout was handled to its end.
Acknowledged ==
  {s \in Subscriptions : stripe[s].status # "none" /\ Checkout(s) \notin outbox \cup unread}

\* The tables follow Stripe.  However its events are interleaved, repeated and cut short, an organization
\* whose checkout was handled has a subscription, unless another checkout, which may have taken the row
\* away, is still to be answered or was answered without being read.  As long as no two requests ran at
\* the same time it has one subscription only, the one of the checkout handled last once that is done,
\* and every invoice is stored at most once.  If no request was cut short either, the row has the plan
\* that Stripe charges (stripe_handler.rs:147-172, 366-373; stripe_operator.rs:380-424).
BillingFollowsStripe ==
  /\ Acknowledged # {} => \/ subscriptions # {}
                          \/ \E s \in Subscriptions : Checkout(s) \in outbox \cup unread
  /\ ~overlapped => /\ Cardinality(subscriptions) <= 1
                    /\ last \in Acknowledged => \E row \in subscriptions : row.sub = last
                    /\ \A i \in Invoice : invoices[i] <= 1
  /\ ~overlapped /\ failures = 0 /\ Busy = {} =>
       \A row \in subscriptions : row.plan = stripe[row.sub].plan
=============================================================================
