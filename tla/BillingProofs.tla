---------------------------- MODULE BillingProofs ----------------------------
(* What the webhook keeps true whatever the order and number of deliveries. *)
EXTENDS Billing, TLAPS

(* A page belongs to a customer, and what a deletion read exists at Stripe. *)
References ==
    /\ \A r \in DOMAIN checkouts :
          checkouts[r].stage = "page" => checkouts[r].customer # None
    /\ \A d \in deletions : d.sub # None => d.sub \in DOMAIN subs
    /\ \A d \in deletions : d.stage = "cancel" => d.sub # None

(* Stripe sends the end of a subscription when it has ended, and a deletion   *)
(* goes on only then.                                                         *)
EndsAreTrue ==
    /\ \A e \in events : e.kind = "ended" => ~subs[e.sub].live
    /\ \A d \in deletions : d.stage = "delete" /\ d.sub # None => ~subs[d.sub].live

BillInv == TypeOK /\ References /\ PlansWereBought /\ EndsAreTrue

LEMMA BillInit == Init => BillInv
  BY BillingAssumption
     DEF Init, BillInv, TypeOK, References, PlansWereBought, EndsAreTrue, TenantRow,
         FreeTenant, Plans

LEMMA FaultType == TypeOK /\ Fault => faults' \in 0..MaxFaults
  BY BillingAssumption DEF TypeOK, Fault

LEMMA BuyStep == BillInv /\ Buy => BillInv'
<1> SUFFICES ASSUME BillInv, NEW r \in Requests,
                    \/ \E t \in Tenants, plan \in Paid : CheckoutReads(r, t, plan)
                    \/ \E k \in Customers : NewCustomer(r, k)
                    \/ OpenSession(r) \/ CheckoutFails(r)
             PROVE  BillInv'
  BY DEF Buy
<1> USE DEF BillInv, TypeOK, References, PlansWereBought, EndsAreTrue, requests
<1>1. ASSUME NEW t \in Tenants, NEW plan \in Paid, CheckoutReads(r, t, plan)
      PROVE BillInv'
  <2> DEFINE v == [tenant |-> t, customer |-> tenants[t].customer, plan |-> plan,
                   stage |-> "request"]
  <2>1. v \in Checkout /\ r \notin DOMAIN checkouts /\ v.stage # "page"
    BY <1>1 DEF CheckoutReads, TenantRow, Checkout
  <2>2. checkouts' = With(checkouts, r, v)
    BY <1>1 DEF CheckoutReads
  <2> HIDE DEF v
  <2>3. /\ DOMAIN checkouts' = DOMAIN checkouts \cup {r}
        /\ checkouts' \in [DOMAIN checkouts' -> Checkout]
        /\ checkouts'[r] = v
        /\ \A q \in DOMAIN checkouts : checkouts'[q] = checkouts[q]
    BY <2>1, <2>2 DEF With
  <2> QED BY <1>1, <2>1, <2>3 DEF CheckoutReads
<1>2. ASSUME NEW k \in Customers, NewCustomer(r, k) PROVE BillInv'
  <2> DEFINE t == checkouts[r].tenant
             v == [checkouts[r] EXCEPT !.customer = k]
             w == [tenants[t] EXCEPT !.customer = k]
  <2>1. v \in Checkout /\ v.customer = k /\ k # None
    BY <1>2, BillingAssumption DEF NewCustomer, Checkout
  <2>2. checkouts' = [checkouts EXCEPT ![r] = v]
    BY <1>2 DEF NewCustomer
  <2> HIDE DEF v
  <2>3. /\ DOMAIN checkouts' = DOMAIN checkouts
        /\ checkouts' \in [DOMAIN checkouts' -> Checkout]
        /\ \A q \in DOMAIN checkouts' :
              checkouts'[q].stage = "page" => checkouts'[q].customer # None
    BY <2>1, <2>2
  <2>4. /\ customers' \subseteq Customers /\ subs' = subs /\ events' = events
        /\ deletions' = deletions /\ UNCHANGED requests
    BY <1>2 DEF NewCustomer
  <2>5. faults' \in 0..MaxFaults
    BY <1>2, FaultType DEF NewCustomer
  <2>6. CASE tenants' = tenants
    BY <2>3, <2>4, <2>5, <2>6
  <2>7. CASE t \in DOMAIN tenants /\ tenants' = [tenants EXCEPT ![t].customer = k]
    <3>1. tenants' = [tenants EXCEPT ![t] = w]
      BY <2>7
    <3>2. w \in TenantRow /\ w.plan = tenants[t].plan /\ w.sub = tenants[t].sub
      BY <2>7 DEF TenantRow
    <3> HIDE DEF w, t
    <3>3. /\ DOMAIN tenants' = DOMAIN tenants
          /\ tenants' \in [DOMAIN tenants' -> TenantRow]
          /\ \A q \in DOMAIN tenants : tenants'[q].plan = tenants[q].plan
                                       /\ tenants'[q].sub = tenants[q].sub
      BY <2>7, <3>1, <3>2
    <3>4. PlansWereBought'
      BY <2>4, <3>3
    <3> QED BY <2>3, <2>4, <2>5, <3>3, <3>4
  <2> QED BY <1>2, <2>6, <2>7 DEF NewCustomer
<1>3. CASE OpenSession(r)
  <2> DEFINE v == [checkouts[r] EXCEPT !.stage = "page"]
  <2>1. v \in Checkout /\ v.customer # None
    BY <1>3 DEF OpenSession, Checkout
  <2>2. checkouts' = [checkouts EXCEPT ![r] = v]
    BY <1>3 DEF OpenSession
  <2> HIDE DEF v
  <2>3. /\ DOMAIN checkouts' = DOMAIN checkouts
        /\ checkouts' \in [DOMAIN checkouts' -> Checkout]
        /\ \A q \in DOMAIN checkouts' :
              checkouts'[q].stage = "page" => checkouts'[q].customer # None
    BY <2>1, <2>2
  <2> QED BY <1>3, <2>3 DEF OpenSession
<1>4. CASE CheckoutFails(r)
  BY <1>4 DEF CheckoutFails, Without
<1> QED BY <1>1, <1>2, <1>3, <1>4

(* A subscription that ends, of itself or by DeleteAccount. *)
LEMMA EndedKeeps ==
  ASSUME TypeOK, NEW s \in DOMAIN subs, Ended(s)
  PROVE  /\ DOMAIN subs' = DOMAIN subs
         /\ subs' \in [DOMAIN subs -> Subscription]
         /\ \A q \in DOMAIN subs : /\ subs'[q].tenant = subs[q].tenant
                                   /\ ~subs[q].live => ~subs'[q].live
         /\ ~subs'[s].live
         /\ events' = events \cup {EventOf("ended", s)}
         /\ EventOf("ended", s) \in Event
         /\ EventOf("ended", s).sub = s
<1> DEFINE w == [subs[s] EXCEPT !.live = FALSE]
<1>1. subs' = [subs EXCEPT ![s] = w] /\ events' = events \cup {EventOf("ended", s)}
  BY DEF Ended
<1>2. w \in Subscription /\ ~w.live /\ w.tenant = subs[s].tenant
  BY DEF TypeOK, Subscription
<1>3. EventOf("ended", s) \in Event /\ EventOf("ended", s).sub = s
  BY DEF TypeOK, Subscription, EventOf, Event, Kinds, OfSubscription
<1> HIDE DEF w
<1> QED BY <1>1, <1>2, <1>3 DEF TypeOK

LEMMA StripeStep == BillInv /\ Stripe => BillInv'
<1> SUFFICES ASSUME BillInv, Stripe PROVE BillInv'
  OBVIOUS
<1> USE DEF BillInv, TypeOK, References, PlansWereBought, EndsAreTrue, requests
<1>1. ASSUME NEW r \in DOMAIN checkouts, NEW s \in Subs, Completes(r, s)
      PROVE BillInv'
  <2> DEFINE page == checkouts[r]
             v == [tenant |-> page.tenant, customer |-> page.customer,
                   plan |-> page.plan, live |-> TRUE]
             new == {[kind |-> k, sub |-> s, plan |-> page.plan] :
                       k \in {"completed", "changed"}}
  <2>1. s \notin DOMAIN subs /\ subs' = With(subs, s, v) /\ events' = events \cup new
    BY <1>1 DEF Completes
  <2>2. page \in Checkout /\ page.customer # None
    BY <1>1 DEF Completes
  <2>3. v \in Subscription
    BY <2>2 DEF Checkout, Subscription
  <2>4. new \subseteq Event /\ \A e \in new : e.sub = s /\ e.kind # "ended"
    BY <2>2 DEF Checkout, Event, Kinds, OfSubscription
  <2> HIDE DEF v, new
  <2>5. /\ DOMAIN subs' = DOMAIN subs \cup {s}
        /\ subs' \in [DOMAIN subs' -> Subscription]
        /\ \A q \in DOMAIN subs : subs'[q] = subs[q]
    BY <2>1, <2>3 DEF With
  <2>6. /\ tenants' = tenants /\ customers' = customers /\ deletions' = deletions
        /\ faults' = faults /\ UNCHANGED requests
    BY <1>1 DEF Completes
  <2>7. /\ checkouts' \in [DOMAIN checkouts' -> Checkout]
        /\ DOMAIN checkouts' \subseteq DOMAIN checkouts
        /\ \A q \in DOMAIN checkouts' : checkouts'[q] = checkouts[q]
    BY <1>1 DEF Completes, Without
  <2>8. TypeOK'
    BY <2>1, <2>4, <2>5, <2>6, <2>7
  <2>9. PlansWereBought'
    BY <2>1, <2>5, <2>6
  <2>10. EndsAreTrue'
    BY <2>1, <2>4, <2>5, <2>6
  <2> QED BY <2>5, <2>6, <2>7, <2>8, <2>9, <2>10
<1>2. ASSUME NEW s \in DOMAIN subs, Ends(s) PROVE BillInv'
  BY <1>2, EndedKeeps DEF Ends
<1>3. ASSUME NEW s \in DOMAIN subs, PaymentFails(s) PROVE BillInv'
  <2>1. \A k \in {"unpaid", "lapsed"} :
           EventOf(k, s) \in Event /\ EventOf(k, s).sub = s /\ EventOf(k, s).kind # "ended"
    BY DEF Subscription, EventOf, Event, Kinds, OfSubscription
  <2> QED BY <1>3, <2>1 DEF PaymentFails
<1>4. ASSUME NEW s \in DOMAIN subs, NEW plan \in Paid, ChangesPlan(s, plan)
      PROVE BillInv'
  <2> DEFINE w == [subs[s] EXCEPT !.plan = plan]
             e == [kind |-> "changed", sub |-> s, plan |-> plan]
  <2>1. subs' = [subs EXCEPT ![s] = w] /\ events' = events \cup {e}
    BY <1>4 DEF ChangesPlan
  <2>2. w \in Subscription /\ w.live = subs[s].live /\ w.tenant = subs[s].tenant
    BY DEF Subscription
  <2>3. e \in Event /\ e.sub = s /\ e.kind # "ended"
    BY DEF Event, Kinds, OfSubscription
  <2> HIDE DEF w, e
  <2>4. /\ DOMAIN subs' = DOMAIN subs /\ subs' \in [DOMAIN subs -> Subscription]
        /\ \A q \in DOMAIN subs : subs'[q].live = subs[q].live
                                  /\ subs'[q].tenant = subs[q].tenant
    BY <2>1, <2>2
  <2> QED BY <1>4, <2>1, <2>3, <2>4 DEF ChangesPlan
<1> QED BY <1>1, <1>2, <1>3, <1>4 DEF Stripe

(* Which tenant an event is about. *)
LEMMA ConcernedHow ==
  ASSUME NEW e, NEW t \in Concerned(e)
  PROVE  /\ t \in DOMAIN tenants
         /\ e.kind = "completed" => t = subs[e.sub].tenant
         /\ e.kind = "ended" => tenants[t].sub = e.sub
         /\ e.kind \in OfSubscription => tenants[t].sub \in {None, e.sub}
  BY DEF Concerned, OfSubscription

(* The statement of an event, were it one the database refuses: it frees a    *)
(* tenant only when the subscription it tracks has ended or is past due.      *)
LEMMA ApplyRevokes ==
  ASSUME BillInv, NEW e \in events, Apply(e), NEW t \in DOMAIN tenants,
         tenants[t].plan # "free", tenants'[t].plan = "free"
  PROVE  ~subs[tenants[t].sub].live \/ Unpaid(tenants[t].sub)
<1> DEFINE row == tenants[t]
<1> USE DEF BillInv, TypeOK
<1>1. row \in TenantRow /\ e \in Event /\ e.plan # "free" /\ row.sub # None
  BY BillingAssumption DEF PlansWereBought, Event
<1>2. t \in Concerned(e) /\ tenants'[t] = After(row, e)
  BY DEF Apply
<1>3. CASE e.kind = "ended"
  BY <1>2, <1>3, ConcernedHow DEF EndsAreTrue
<1>4. CASE e.kind = "lapsed"
  BY <1>1, <1>2, <1>4, ConcernedHow DEF OfSubscription, Unpaid
<1>5. CASE e.kind = "changed"
  BY <1>1, <1>2, <1>5 DEF After, TenantRow
<1>6. CASE e.kind = "completed"
  BY <1>1, <1>2, <1>6 DEF After, TenantRow
<1>7. CASE e.kind \notin {"completed", "ended", "changed", "lapsed"}
  BY <1>2, <1>7 DEF After
<1> QED BY <1>3, <1>4, <1>5, <1>6, <1>7

(* The statement of an event: the plan of a tenant changes to one it bought, *)
(* or to free together with the subscription.                                *)
LEMMA ApplyKeeps ==
  ASSUME BillInv, NEW e \in events, Accepted(e), Apply(e), subs' = subs, events' = events
  PROVE  /\ DOMAIN tenants' = DOMAIN tenants
         /\ tenants' \in [DOMAIN tenants -> TenantRow]
         /\ PlansWereBought'
<1> USE DEF BillInv, TypeOK
<1>1. /\ DOMAIN tenants' = DOMAIN tenants
      /\ \A t \in DOMAIN tenants : tenants'[t] =
            IF t \in Concerned(e) THEN After(tenants[t], e) ELSE tenants[t]
      /\ tenants' = [t \in DOMAIN tenants |-> tenants'[t]]
  BY DEF Apply
<1>2. e \in Event /\ e.sub \in DOMAIN subs /\ e.plan \in Paid /\ e.sub # None
      /\ e.plan # "free" /\ e = [kind |-> e.kind, sub |-> e.sub, plan |-> e.plan]
  BY BillingAssumption DEF Event
<1>3. ASSUME NEW t \in DOMAIN tenants
      PROVE /\ tenants'[t] \in TenantRow
            /\ IF tenants'[t].plan = "free" THEN tenants'[t].sub = None
               ELSE /\ tenants'[t].sub \in DOMAIN subs
                    /\ subs[tenants'[t].sub].tenant = t
                    /\ [kind |-> "completed", sub |-> tenants'[t].sub,
                        plan |-> tenants'[t].plan] \in events
  <2> DEFINE row == tenants[t]
  <2>1. row \in TenantRow
        /\ IF row.plan = "free" THEN row.sub = None
           ELSE /\ row.sub \in DOMAIN subs /\ subs[row.sub].tenant = t
                /\ [kind |-> "completed", sub |-> row.sub, plan |-> row.plan] \in events
    BY DEF PlansWereBought
  <2>2. CASE tenants'[t] = row
    BY <2>1, <2>2
  <2>3. CASE e.kind = "completed" /\ t \in Concerned(e)
    <3>1. subs[e.sub].tenant = t
      BY <2>3, ConcernedHow
    <3>2. tenants'[t] = [row EXCEPT !.plan = e.plan, !.sub = e.sub]
      BY <1>1, <2>3 DEF After
    <3>3. /\ [row EXCEPT !.plan = e.plan, !.sub = e.sub] \in TenantRow
          /\ [row EXCEPT !.plan = e.plan, !.sub = e.sub].plan = e.plan
          /\ [row EXCEPT !.plan = e.plan, !.sub = e.sub].sub = e.sub
      BY <1>2, <2>1 DEF TenantRow, Plans
    <3> QED BY <1>2, <2>3, <3>1, <3>2, <3>3
  <2>4. CASE e.kind = "ended" /\ t \in Concerned(e)
    <3>1. tenants'[t] = [row EXCEPT !.plan = "free", !.sub = None]
      BY <1>1, <2>4 DEF After
    <3>2. /\ [row EXCEPT !.plan = "free", !.sub = None] \in TenantRow
          /\ [row EXCEPT !.plan = "free", !.sub = None].plan = "free"
          /\ [row EXCEPT !.plan = "free", !.sub = None].sub = None
      BY <2>1 DEF TenantRow, Plans
    <3> QED BY <3>1, <3>2
  <2>5. CASE e.kind \notin {"completed", "ended"} \/ t \notin Concerned(e)
    BY <1>1, <2>2, <2>5 DEF After, Accepted, OfSubscription
  <2> QED BY <2>3, <2>4, <2>5
<1> QED BY <1>1, <1>3 DEF PlansWereBought

LEMMA WebhookStep == BillInv /\ Webhook => BillInv'
<1> SUFFICES ASSUME BillInv, NEW e \in events,
                    \/ Deliver(e)
                    \/ e \in handling /\ (Handle(e) \/ Overlook(e) \/ HandleFails(e)
                                           \/ Abandon(e))
             PROVE  BillInv'
  BY DEF Webhook, BillInv, TypeOK
<1>1. CASE Deliver(e)
  BY <1>1 DEF Deliver, BillInv, TypeOK, References, PlansWereBought, EndsAreTrue
<1>2. CASE Handle(e)
  <2>1. subs' = subs /\ events' = events /\ Accepted(e) /\ Apply(e)
    BY <1>2 DEF Handle
  <2> QED BY <1>2, <2>1, ApplyKeeps
          DEF Handle, Apply, BillInv, TypeOK, References, EndsAreTrue
<1>3. CASE HandleFails(e)
  <2>1. subs' = subs /\ events' = events /\ customers' = customers
        /\ checkouts' = checkouts /\ deletions' = deletions /\ acked' = acked
        /\ recorded' = recorded \ {e} /\ handling' = handling \ {e}
        /\ overlooked' = overlooked
    BY <1>3 DEF HandleFails
  <2>2. faults' \in 0..MaxFaults
    BY <1>3, FaultType DEF HandleFails, BillInv, TypeOK
  <2>3. CASE UNCHANGED <<tenants, applied, doubtful, abandoned>>
    BY <2>1, <2>2, <2>3 DEF BillInv, TypeOK, References, PlansWereBought, EndsAreTrue
  <2>4. CASE Accepted(e) /\ Apply(e) /\ doubtful' = doubtful \cup {e}
    BY <2>1, <2>2, <2>4, ApplyKeeps DEF Apply, BillInv, TypeOK, References, EndsAreTrue
  <2> QED BY <1>3, <2>3, <2>4 DEF HandleFails
<1>4. CASE Abandon(e)
  BY <1>4, FaultType
     DEF Abandon, BillInv, TypeOK, References, PlansWereBought, EndsAreTrue
<1>5. CASE Overlook(e)
  BY <1>5 DEF Overlook, BillInv, TypeOK, References, PlansWereBought, EndsAreTrue
<1> QED BY <1>1, <1>2, <1>3, <1>4, <1>5

LEMMA DeleteStep == BillInv /\ Delete => BillInv'
<1> SUFFICES ASSUME BillInv, Delete PROVE BillInv'
  OBVIOUS
<1> USE DEF BillInv, TypeOK, References, PlansWereBought, EndsAreTrue, requests
<1>1. ASSUME NEW t \in DOMAIN tenants, DeletionReads(t) PROVE BillInv'
  <2> DEFINE d == [tenant |-> t, sub |-> tenants[t].sub,
                   stage |-> IF tenants[t].sub = None THEN "delete" ELSE "cancel"]
  <2>1. d \in Deletion /\ (d.stage = "delete" <=> d.sub = None)
        /\ (d.stage = "cancel" => d.sub # None)
        /\ d.sub = tenants[t].sub
    BY DEF TenantRow, Deletion
  <2>2. tenants[t].sub # None => tenants[t].sub \in DOMAIN subs
    OBVIOUS
  <2>3. deletions' = deletions \cup {d}
    BY <1>1 DEF DeletionReads
  <2> HIDE DEF d
  <2> QED BY <1>1, <2>1, <2>2, <2>3 DEF DeletionReads
<1>2. ASSUME NEW d \in deletions, CancelSubscription(d) PROVE BillInv'
  <2> DEFINE c == [d EXCEPT !.stage = "delete"]
  <2>1. c \in Deletion /\ c.sub = d.sub /\ c.stage # "cancel"
    BY DEF Deletion
  <2>2. deletions' = (deletions \ {d}) \cup {c} /\ Ended(d.sub)
    BY <1>2 DEF CancelSubscription
  <2>3. d.sub \in DOMAIN subs
    BY <1>2 DEF CancelSubscription
  <2> HIDE DEF c
  <2> QED BY <1>2, <2>1, <2>2, <2>3, EndedKeeps DEF CancelSubscription
<1>3. ASSUME NEW d \in deletions, DeleteTenant(d) PROVE BillInv'
  BY <1>3 DEF DeleteTenant, Without
<1>4. ASSUME NEW d \in deletions, DeletionFails(d) PROVE BillInv'
  BY <1>4 DEF DeletionFails
<1> QED BY <1>1, <1>2, <1>3, <1>4 DEF Delete

LEMMA BillStep == BillInv /\ [Next]_vars => BillInv'
<1>1. BillInv /\ UNCHANGED vars => BillInv'
  BY DEF vars, requests, BillInv, TypeOK, References, PlansWereBought, EndsAreTrue
<1> QED BY <1>1, BuyStep, StripeStep, WebhookStep, DeleteStep DEF Next

LEMMA BillAlways == Spec => []BillInv
  BY BillInit, BillStep, PTL DEF Spec

(* Rows keep their type, and events are of subscriptions Stripe has.          *)
THEOREM TypeCorrect == Spec => []TypeOK
<1>1. BillInv => TypeOK
  BY DEF BillInv
<1> QED BY <1>1, BillAlways, PTL

(* A paid plan is tracked by a subscription bought for the tenant with it.    *)
THEOREM PlansAreBought == Spec => []PlansWereBought
<1>1. BillInv => PlansWereBought
  BY DEF BillInv
<1> QED BY <1>1, BillAlways, PTL

(* No order or number of deliveries takes the plan from a tenant whose        *)
(* tracked subscription lives and was never past due.                         *)
THEOREM PlansAreNotRevoked == Spec => PaidForIsNotRevoked
<1> DEFINE Kept == \A t \in DOMAIN tenants \cap DOMAIN tenants' :
                     tenants[t].plan # "free" /\ tenants'[t].plan = "free" =>
                        ~subs[tenants[t].sub].live \/ Unpaid(tenants[t].sub)
<1>1. BillInv /\ [Next]_vars => [Kept]_vars
  <2> SUFFICES ASSUME BillInv, Next PROVE Kept
    OBVIOUS
  <2>1. CASE UNCHANGED tenants
    BY <2>1
  <2>2. ASSUME NEW e \in events, Handle(e) \/ HandleFails(e) PROVE Kept
    <3>1. Apply(e) \/ UNCHANGED tenants
      BY <2>2 DEF Handle, HandleFails
    <3> QED BY <2>1, <3>1, ApplyRevokes
  <2>3. ASSUME NEW r \in Requests, NEW k \in Customers, NewCustomer(r, k) PROVE Kept
    <3> DEFINE t == checkouts[r].tenant
               w == [tenants[t] EXCEPT !.customer = k]
    <3>1. CASE t \in DOMAIN tenants /\ tenants' = [tenants EXCEPT ![t] = w]
      <4>1. w.plan = tenants[t].plan
        BY <3>1 DEF BillInv, TypeOK, TenantRow
      <4> HIDE DEF w, t
      <4> QED BY <3>1, <4>1
    <3>2. CASE UNCHANGED tenants
      BY <2>1, <3>2
    <3> QED BY <2>3, <3>1, <3>2 DEF NewCustomer
  <2>4. ASSUME NEW d \in deletions, DeleteTenant(d) PROVE Kept
    BY <2>4 DEF DeleteTenant, Without
  <2>5. CASE Buy
    BY <2>1, <2>3, <2>5 DEF Buy, CheckoutReads, OpenSession, CheckoutFails
  <2>6. CASE Stripe
    BY <2>1, <2>6 DEF Stripe, Completes, ChangesPlan, PaymentFails, Ends
  <2>7. CASE Webhook
    BY <2>1, <2>2, <2>7 DEF Webhook, Deliver, Overlook, Abandon, BillInv, TypeOK
  <2>8. CASE Delete
    BY <2>1, <2>4, <2>8 DEF Delete, DeletionReads, CancelSubscription, DeletionFails
  <2> QED BY <2>5, <2>6, <2>7, <2>8 DEF Next
<1> QED BY <1>1, BillAlways, PTL DEF Spec, PaidForIsNotRevoked

(* A tenant goes only after the subscription its deletion had read has ended. *)
THEOREM DeletionsCancelFirst == Spec => DeletionCancelsFirst
<1> DEFINE First == \A d \in deletions \ deletions' :
                      d.tenant \in DOMAIN tenants \ DOMAIN tenants' =>
                          d.sub = None \/ ~subs[d.sub].live
<1>1. BillInv /\ [Next]_vars => [First]_vars
  <2> SUFFICES ASSUME BillInv, Next PROVE First
    OBVIOUS
  <2>1. CASE DOMAIN tenants \subseteq DOMAIN tenants'
    BY <2>1
  <2>2. ASSUME NEW d \in deletions, DeleteTenant(d) PROVE First
    BY <2>2 DEF DeleteTenant, BillInv, EndsAreTrue
  <2>3. CASE Buy
    BY <2>1, <2>3 DEF Buy, CheckoutReads, OpenSession, CheckoutFails, NewCustomer
  <2>4. CASE Stripe
    BY <2>1, <2>4 DEF Stripe, Completes, ChangesPlan, PaymentFails, Ends
  <2>5. CASE Webhook
    BY <2>1, <2>5 DEF Webhook, Deliver, Overlook, Abandon, Handle, HandleFails, Apply
  <2>6. CASE Delete
    BY <2>1, <2>2, <2>6 DEF Delete, DeletionReads, CancelSubscription, DeletionFails
  <2> QED BY <2>3, <2>4, <2>5, <2>6 DEF Next
<1> QED BY <1>1, BillAlways, PTL DEF Spec, DeletionCancelsFirst

-----------------------------------------------------------------------------

(* What took effect for certain stays recorded, and what is recorded is being *)
(* handled, took effect, was abandoned or overlooked.                         *)
RecordInv ==
    /\ handling \subseteq recorded
    /\ applied \ doubtful \subseteq recorded
    /\ recorded \subseteq handling \cup applied \cup abandoned \cup overlooked
    /\ EventsAreHandledOnce
    /\ DroppedOnlyWithCause

LEMMA RecordStep == RecordInv /\ [Next]_vars => RecordInv'
<1> SUFFICES ASSUME RecordInv, [Next]_vars PROVE RecordInv'
  OBVIOUS
<1> USE DEF RecordInv, EventsAreHandledOnce, DroppedOnlyWithCause
<1>1. CASE UNCHANGED requests
  BY <1>1 DEF requests
<1>2. ASSUME NEW e \in events, Deliver(e) PROVE RecordInv'
  BY <1>2 DEF Deliver
<1>3. ASSUME NEW e \in handling, Handle(e) PROVE RecordInv'
  BY <1>3 DEF Handle, Apply
<1>4. ASSUME NEW e \in handling, HandleFails(e) PROVE RecordInv'
  <2>1. recorded' = recorded \ {e} /\ handling' = handling \ {e} /\ acked' = acked
        /\ overlooked' = overlooked
    BY <1>4 DEF HandleFails
  <2>2. CASE UNCHANGED <<applied, doubtful, abandoned>>
    BY <2>1, <2>2
  <2>3. CASE Apply(e) /\ doubtful' = doubtful \cup {e}
    BY <2>1, <2>3 DEF Apply
  <2> QED BY <1>4, <2>2, <2>3 DEF HandleFails
<1>5. ASSUME NEW e \in handling, Abandon(e) PROVE RecordInv'
  BY <1>5 DEF Abandon
<1>6. ASSUME NEW e \in handling, Overlook(e) PROVE RecordInv'
  BY <1>6 DEF Overlook
<1>7. CASE UNCHANGED vars
  BY <1>1, <1>7 DEF vars
<1>8. CASE Buy
  BY <1>1, <1>8 DEF Buy, CheckoutReads, OpenSession, CheckoutFails, NewCustomer
<1>9. CASE Stripe
  BY <1>1, <1>9 DEF Stripe, Completes, ChangesPlan, PaymentFails, Ends
<1>10. CASE Webhook
  BY <1>2, <1>3, <1>4, <1>5, <1>6, <1>10 DEF Webhook
<1>11. CASE Delete
  BY <1>1, <1>11 DEF Delete, DeletionReads, CancelSubscription, DeleteTenant,
                     DeletionFails
<1> QED BY <1>7, <1>8, <1>9, <1>10, <1>11 DEF Next

LEMMA RecordAlways == Spec => []RecordInv
<1>1. Init => RecordInv
  BY DEF Init, RecordInv, EventsAreHandledOnce, DroppedOnlyWithCause
<1> QED BY <1>1, RecordStep, PTL DEF Spec

(* A duplicate is a no-op: nothing is handled that took effect for certain.   *)
THEOREM DuplicatesAreNoOps == Spec => []EventsAreHandledOnce
<1>1. RecordInv => EventsAreHandledOnce
  BY DEF RecordInv
<1> QED BY <1>1, RecordAlways, PTL

(* An event answered with a 2xx and without effect is one whose request was   *)
(* abandoned or was still at work when a duplicate was answered, or one about *)
(* a subscription for which no price was found.                               *)
THEOREM DropsHaveACause == Spec => []DroppedOnlyWithCause
<1>1. RecordInv => DroppedOnlyWithCause
  BY DEF RecordInv
<1> QED BY <1>1, RecordAlways, PTL
=============================================================================
