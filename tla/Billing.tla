------------------------------- MODULE Billing -------------------------------
(***************************************************************************)
(* Billing: CreateCheckout, the Stripe webhook and the deletion of an      *)
(* account (internal/http: billing_handlers.go, data_handlers.go), with    *)
(* Stripe as those handlers use it.                                        *)
(*                                                                         *)
(* A webhook request records the event, handles it, and takes the record   *)
(* back if that failed: three statements, each committed on its own.       *)
(* Stripe delivers an event in any order, as often as it likes, and at     *)
(* least until it was answered with a 2xx.                                 *)
(***************************************************************************)
EXTENDS Integers, FiniteSets

CONSTANTS
    Tenants,        \* tenant ids
    Customers,      \* ids Stripe gives customers
    Subs,           \* ids Stripe gives subscriptions
    Paid,           \* codes of the plans with a price
    Requests,       \* ids of purchases: a request to check out and the page it opens
    None,           \* NULL
    MaxEvents,      \* bound: events before no subscription begins, changes or falls due
    MaxHandling,    \* bound: events handled at the same time
    MaxFaults       \* bound: statements that fail and processes that die

ASSUME BillingAssumption ==
    /\ None \notin Customers \cup Subs
    /\ "free" \notin Paid
    /\ MaxEvents \in Nat /\ MaxHandling \in Nat /\ MaxFaults \in Nat

Plans == Paid \cup {"free"}
\* customer.subscription.created and updated: of one that is paid, and of one past
\* due or unpaid.
OfSubscription == {"changed", "lapsed"}
Kinds == {"completed", "ended", "unpaid"} \cup OfSubscription

VARIABLES
    tenants,        \* tenants: id -> [customer, sub, plan]
    subs,           \* Stripe: subscriptions, with the tenant in their metadata
    customers,      \* Stripe: ids of the customers created
    events,         \* Stripe: the events that happened
    acked,          \* Stripe: the events answered with a 2xx
    recorded,       \* stripe_events: ids of events
    handling,       \* StripeWebhook: events between the record and the outcome
    checkouts,      \* CreateCheckout: request -> what it holds, or its open Stripe page
    deletions,      \* DeleteAccount: what each request read
    applied,        \* history: events whose statement took effect
    doubtful,       \* history: events whose statement took effect and was reported failed
    abandoned,      \* history: events without effect so far that were recorded, or
                    \* answered, for a request that may have failed or did
    overlooked,     \* history: events answered for want of a price
    faults

requests == <<recorded, handling, acked, applied, doubtful, abandoned, overlooked>>
vars == <<tenants, subs, customers, events, checkouts, deletions, faults, requests>>

\* subscription_status and the dates are for the dashboard only and left out.
TenantRow == [customer : Customers \cup {None}, sub : Subs \cup {None}, plan : Plans]
Subscription == [tenant : Tenants, customer : Customers, plan : Paid, live : BOOLEAN]
\* A subscription fails to be paid and moves to a plan at most once: a bound, which
\* makes the record its own id.
Event == [kind : Kinds, sub : Subs, plan : Paid]
Checkout == [tenant : Tenants, customer : Customers \cup {None}, plan : Paid,
             stage : {"request", "page"}]
Deletion == [tenant : Tenants, sub : Subs \cup {None}, stage : {"cancel", "delete"}]

FreeTenant == [customer |-> None, sub |-> None, plan |-> "free"]

EventOf(kind, s) == [kind |-> kind, sub |-> s, plan |-> subs[s].plan]

MoreEvents == Cardinality(events) < MaxEvents

Without(f, x) == [y \in DOMAIN f \ {x} |-> f[y]]
With(f, x, v) == [y \in DOMAIN f \cup {x} |-> IF y = x THEN v ELSE f[y]]

Fault == faults < MaxFaults /\ faults' = faults + 1

-----------------------------------------------------------------------------
(* CreateCheckout. *)

CheckoutReads(r, t, plan) ==
    /\ MoreEvents /\ r \in Requests \ DOMAIN checkouts /\ t \in DOMAIN tenants
    /\ checkouts' = With(checkouts, r,
          [tenant |-> t, customer |-> tenants[t].customer, plan |-> plan,
           stage |-> "request"])
    /\ UNCHANGED <<tenants, subs, customers, events, deletions, faults, requests>>

\* A customer is created and saved; nobody knows it before it is saved, and the
\* request goes on when saving it fails.
NewCustomer(r, k) ==
    LET t == checkouts[r].tenant
    IN  /\ r \in DOMAIN checkouts /\ checkouts[r].customer = None
        /\ k \in Customers \ customers
        /\ customers' = customers \cup {k}
        /\ checkouts' = [checkouts EXCEPT ![r].customer = k]
        /\ \/ /\ tenants' = IF t \in DOMAIN tenants
                              THEN [tenants EXCEPT ![t].customer = k] ELSE tenants
              /\ UNCHANGED faults
           \/ Fault /\ UNCHANGED tenants
        /\ UNCHANGED <<subs, events, deletions, requests>>

OpenSession(r) ==
    /\ r \in DOMAIN checkouts /\ checkouts[r].customer # None
    /\ checkouts[r].stage = "request"
    /\ checkouts' = [checkouts EXCEPT ![r].stage = "page"]
    /\ UNCHANGED <<tenants, subs, customers, events, deletions, faults, requests>>

\* Stripe cannot be reached, the process dies, or the page expires.
CheckoutFails(r) ==
    /\ r \in DOMAIN checkouts
    /\ checkouts' = Without(checkouts, r)
    /\ UNCHANGED <<tenants, subs, customers, events, deletions, faults, requests>>

-----------------------------------------------------------------------------
(* Stripe and its customers. *)

\* The customer pays: a subscription begins, which is two events.
Completes(r, s) ==
    LET page == checkouts[r]
    IN  /\ MoreEvents /\ s \in Subs \ DOMAIN subs
        /\ r \in DOMAIN checkouts /\ page.stage = "page"
        /\ checkouts' = Without(checkouts, r)
        /\ subs' = With(subs, s, [tenant |-> page.tenant, customer |-> page.customer,
                                  plan |-> page.plan, live |-> TRUE])
        /\ events' = events \cup {[kind |-> k, sub |-> s, plan |-> page.plan] :
                                     k \in {"completed", "changed"}}
        /\ UNCHANGED <<tenants, customers, deletions, faults, requests>>

\* In the portal, which CreatePortal opens for the customer a tenant has.
ChangesPlan(s, plan) ==
    /\ MoreEvents /\ s \in DOMAIN subs /\ subs[s].live /\ subs[s].plan # plan
    /\ \E t \in DOMAIN tenants : tenants[t].customer = subs[s].customer
    /\ [kind |-> "changed", sub |-> s, plan |-> plan] \notin events
    /\ subs' = [subs EXCEPT ![s].plan = plan]
    /\ events' = events \cup {[kind |-> "changed", sub |-> s, plan |-> plan]}
    /\ UNCHANGED <<tenants, customers, checkouts, deletions, faults, requests>>

\* A payment fails and Stripe will try again: the invoice is announced, and that
\* the subscription is past due.
PaymentFails(s) ==
    /\ MoreEvents /\ s \in DOMAIN subs /\ subs[s].live
    /\ \A e \in events : ~(e.kind = "unpaid" /\ e.sub = s)
    /\ events' = events \cup {EventOf("unpaid", s), EventOf("lapsed", s)}
    /\ UNCHANGED <<tenants, subs, customers, checkouts, deletions, faults, requests>>

\* A subscription ends, for whatever reason.
Ended(s) ==
    /\ subs[s].live
    /\ subs' = [subs EXCEPT ![s].live = FALSE]
    /\ events' = events \cup {EventOf("ended", s)}

Ends(s) ==
    /\ s \in DOMAIN subs /\ Ended(s)
    /\ UNCHANGED <<tenants, customers, checkouts, deletions, faults, requests>>

-----------------------------------------------------------------------------
(* StripeWebhook. *)

\* Mutant: the result of the INSERT is not looked at.
DeliverAgain(e) ==
    /\ e \in events
    /\ recorded' = recorded \cup {e}
    /\ handling' = handling \cup {e}
    /\ UNCHANGED <<acked, abandoned, applied, doubtful, overlooked>>
    /\ UNCHANGED <<tenants, subs, customers, events, checkouts, deletions, faults>>

\* The INSERT.  A recorded event is answered with 200 although the request that
\* recorded it may still fail.
Deliver(e) ==
    /\ e \in events
    /\ recorded' = recorded \cup {e}
    /\ IF e \in recorded
         THEN /\ acked' = acked \cup {e}
              /\ abandoned' = IF e \in handling THEN abandoned \cup {e} ELSE abandoned
              /\ UNCHANGED handling
         ELSE /\ Cardinality(handling) < MaxHandling
              /\ handling' = handling \cup {e}
              /\ UNCHANGED <<acked, abandoned>>
    /\ UNCHANGED <<applied, doubtful, overlooked>>
    /\ UNCHANGED <<tenants, subs, customers, events, checkouts, deletions, faults>>

\* Mutant: every subscription of the customer counts.
ConcernedByCustomer(e) ==
    {t \in DOMAIN tenants :
        IF e.kind = "completed" THEN t = subs[e.sub].tenant
                                ELSE tenants[t].customer = subs[e.sub].customer}

\* The tenants an event is about.
Concerned(e) ==
    {t \in DOMAIN tenants :
        CASE e.kind = "completed" -> t = subs[e.sub].tenant
          [] e.kind = "ended" -> /\ tenants[t].customer = subs[e.sub].customer
                                 /\ tenants[t].sub = e.sub
          [] e.kind \in OfSubscription ->
                /\ tenants[t].customer = subs[e.sub].customer
                /\ tenants[t].sub \in {None, e.sub}
          [] OTHER -> tenants[t].customer = subs[e.sub].customer}

\* Mutant: the plan outlives the subscription.
AfterForgetting(row, e) ==
    CASE e.kind = "completed" ->
            [row EXCEPT !.plan = e.plan, !.sub = e.sub]
      [] e.kind = "ended" -> [row EXCEPT !.sub = None]
      [] OTHER -> row

\* The row of such a tenant after the statement.
After(row, e) ==
    CASE e.kind = "completed" ->
            [row EXCEPT !.plan = e.plan, !.sub = e.sub]
      [] e.kind = "ended" ->
            [row EXCEPT !.plan = "free", !.sub = None]
      [] e.kind = "changed" ->
            [row EXCEPT !.plan = e.plan, !.sub = e.sub]
      [] e.kind = "lapsed" ->
            [row EXCEPT !.plan = "free", !.sub = e.sub]
      [] OTHER -> row

\* The UPDATE of applySubscription assigns billing_period and trial_ends_at twice,
\* which the database refuses.
Accepted(e) == e.kind \notin OfSubscription

Apply(e) ==
    /\ tenants' = [t \in DOMAIN tenants |->
          IF t \in Concerned(e) THEN After(tenants[t], e) ELSE tenants[t]]
    /\ applied' = applied \cup {e}
    /\ abandoned' = abandoned \ {e}

\* handleStripeEvent returns nil.
Handle(e) ==
    /\ e \in handling /\ Accepted(e) /\ Apply(e)
    /\ handling' = handling \ {e}
    /\ acked' = acked \cup {e}
    /\ doubtful' = doubtful \ {e}
    /\ UNCHANGED <<recorded, overlooked>>
    /\ UNCHANGED <<subs, customers, events, checkouts, deletions, faults>>

\* applySubscription returns nil before its UPDATE: the subscription has no items,
\* its price is of no plan, or the SELECT of the plan failed, for whatever reason.
Overlook(e) ==
    /\ e \in handling /\ e.kind \in OfSubscription
    /\ handling' = handling \ {e}
    /\ acked' = acked \cup {e}
    /\ overlooked' = overlooked \cup {e}
    /\ UNCHANGED <<recorded, applied, doubtful, abandoned>>
    /\ UNCHANGED <<tenants, subs, customers, events, checkouts, deletions, faults>>

\* Mutant: the record stays.
HandleFailsForGood(e) ==
    /\ e \in handling /\ ~Accepted(e) /\ handling' = handling \ {e}
    /\ UNCHANGED <<recorded, acked, applied, doubtful, abandoned, overlooked>>
    /\ UNCHANGED <<tenants, subs, customers, events, checkouts, deletions, faults>>

\* It returns an error, at times of a statement that took effect, and the record is
\* taken back.
HandleFails(e) ==
    /\ e \in handling
    /\ \/ ~Accepted(e) /\ UNCHANGED <<faults, tenants, applied, doubtful, abandoned>>
       \/ Accepted(e) /\ Fault /\ UNCHANGED <<tenants, applied, doubtful, abandoned>>
       \/ Accepted(e) /\ Fault /\ Apply(e) /\ doubtful' = doubtful \cup {e}
    /\ recorded' = recorded \ {e} /\ handling' = handling \ {e}
    /\ UNCHANGED <<subs, customers, events, checkouts, deletions, acked, overlooked>>

\* The process dies before the statement, or the DELETE of the record fails, whose
\* error is dropped.
Abandon(e) ==
    /\ e \in handling /\ Fault
    /\ handling' = handling \ {e}
    /\ abandoned' = abandoned \cup {e}
    /\ UNCHANGED <<recorded, acked, applied, doubtful, overlooked>>
    /\ UNCHANGED <<tenants, subs, customers, events, checkouts, deletions>>

-----------------------------------------------------------------------------
(* DeleteAccount. *)

\* Bound: a tenant is deleted by one request at a time.
DeletionReads(t) ==
    /\ t \in DOMAIN tenants /\ \A d \in deletions : d.tenant # t
    /\ deletions' = deletions \cup {[tenant |-> t, sub |-> tenants[t].sub,
            stage |-> IF tenants[t].sub = None THEN "delete" ELSE "cancel"]}
    /\ UNCHANGED <<tenants, subs, customers, events, checkouts, faults, requests>>

CancelSubscription(d) ==
    /\ d \in deletions /\ d.stage = "cancel" /\ Ended(d.sub)
    /\ deletions' = (deletions \ {d}) \cup {[d EXCEPT !.stage = "delete"]}
    /\ UNCHANGED <<tenants, customers, checkouts, faults, requests>>

\* Mutant: the tenant goes first.
DeleteTenantFirst(d) ==
    /\ d \in deletions
    /\ deletions' = deletions \ {d}
    /\ tenants' = Without(tenants, d.tenant)
    /\ UNCHANGED <<subs, customers, events, checkouts, faults, requests>>

DeleteTenant(d) ==
    /\ d \in deletions /\ d.stage = "delete"
    /\ deletions' = deletions \ {d}
    /\ tenants' = Without(tenants, d.tenant)
    /\ UNCHANGED <<subs, customers, events, checkouts, faults, requests>>

\* Stripe refuses, which it does for a subscription that has ended, or the database
\* fails, or the process dies.
DeletionFails(d) ==
    /\ d \in deletions
    /\ deletions' = deletions \ {d}
    /\ UNCHANGED <<tenants, subs, customers, events, checkouts, faults, requests>>

-----------------------------------------------------------------------------

Init ==
    /\ tenants = [t \in Tenants |-> FreeTenant]
    /\ subs = [s \in {} |-> [live |-> FALSE]] /\ checkouts = [r \in {} |-> FreeTenant]
    /\ customers = {} /\ events = {} /\ deletions = {}
    /\ acked = {} /\ recorded = {} /\ handling = {}
    /\ applied = {} /\ doubtful = {} /\ abandoned = {} /\ overlooked = {}
    /\ faults = 0

Buy ==
    \E r \in Requests :
        \/ \E t \in Tenants, plan \in Paid : CheckoutReads(r, t, plan)
        \/ \E k \in Customers : NewCustomer(r, k)
        \/ OpenSession(r) \/ CheckoutFails(r)

Stripe ==
    \/ \E r \in DOMAIN checkouts, s \in Subs : Completes(r, s)
    \/ \E s \in DOMAIN subs :
          Ends(s) \/ PaymentFails(s) \/ \E plan \in Paid : ChangesPlan(s, plan)

Webhook ==
    \/ \E e \in events : Deliver(e)
    \/ \E e \in handling : Handle(e) \/ Overlook(e) \/ HandleFails(e) \/ Abandon(e)

Delete ==
    \/ \E t \in DOMAIN tenants : DeletionReads(t)
    \/ \E d \in deletions : CancelSubscription(d) \/ DeleteTenant(d) \/ DeletionFails(d)

Next == Buy \/ Stripe \/ Webhook \/ Delete

Spec == Init /\ [][Next]_vars

-----------------------------------------------------------------------------
(* Properties. *)

TypeOK ==
    /\ tenants \in [DOMAIN tenants -> TenantRow] /\ DOMAIN tenants \subseteq Tenants
    /\ subs \in [DOMAIN subs -> Subscription] /\ DOMAIN subs \subseteq Subs
    /\ customers \subseteq Customers
    /\ checkouts \in [DOMAIN checkouts -> Checkout] /\ DOMAIN checkouts \subseteq Requests
    /\ deletions \subseteq Deletion
    /\ events \subseteq Event /\ \A e \in events : e.sub \in DOMAIN subs
    /\ acked \subseteq events /\ handling \subseteq recorded /\ recorded \subseteq events
    /\ applied \subseteq events /\ doubtful \subseteq applied
    /\ abandoned \subseteq events /\ overlooked \subseteq events
    /\ faults \in 0..MaxFaults

(* A tenant on a paid plan tracks a subscription that was bought for it, with  *)
(* that plan, and a tenant on the free plan tracks none.                       *)
PlansWereBought ==
    \A t \in DOMAIN tenants :
        LET row == tenants[t]
        IN  IF row.plan = "free" THEN row.sub = None
            ELSE /\ row.sub \in DOMAIN subs /\ subs[row.sub].tenant = t
                 /\ [kind |-> "completed", sub |-> row.sub, plan |-> row.plan] \in events

\* Stripe announced that a payment for the subscription failed.
Unpaid(s) == \E e \in events : e.sub = s /\ e.kind \in {"unpaid", "lapsed"}

(* "Cancelling one of those must not revoke a plan the customer is still       *)
(* paying for" (handleStripeEvent): a plan is taken away only when the         *)
(* subscription it is tracked by has ended or a payment for it failed          *)
(* ("anything past due, unpaid or cancelled falls back to free",               *)
(* applySubscription), in whatever order and however often events arrive.      *)
PaidForIsNotRevoked ==
    [][\A t \in DOMAIN tenants \cap DOMAIN tenants' :
          tenants[t].plan # "free" /\ tenants'[t].plan = "free" =>
              ~subs[tenants[t].sub].live \/ Unpaid(tenants[t].sub)]_vars

(* "A duplicate is a cheap no-op rather than a second plan change"             *)
(* (StripeWebhook): no request handles an event that took effect already,      *)
(* unless the database had reported that it did not.                           *)
EventsAreHandledOnce == handling \cap applied \subseteq doubtful

(* "Better a duplicate delivery than a silently dropped subscription change"   *)
(* (StripeWebhook): an event that was answered with a 2xx took effect, unless  *)
(* a request was abandoned, the answer came while another one was at work, or  *)
(* it is about a subscription and applySubscription found no price for it,     *)
(* which it also says of a SELECT that failed.                                 *)
DroppedOnlyWithCause ==
    /\ acked \subseteq applied \cup abandoned \cup overlooked
    /\ \A e \in overlooked : e.kind \in OfSubscription

(* "Cancel billing FIRST" (DeleteAccount): a tenant goes only when the         *)
(* subscription the request had read has ended.                                *)
DeletionCancelsFirst ==
    [][\A d \in deletions \ deletions' :
          d.tenant \in DOMAIN tenants \ DOMAIN tenants' =>
              d.sub = None \/ ~subs[d.sub].live]_vars
=============================================================================
