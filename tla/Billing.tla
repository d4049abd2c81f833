------------------------------- MODULE Billing -------------------------------
(***************************************************************************)
(* The payment provider's webhook: recordBillingEvent                      *)
(* (packages/tenancy/app/src/record-billing-event.ts), the subscription    *)
(* and the workspace it saves, and the plan change that sends a customer   *)
(* to a checkout.  The route hands over the pooled repositories            *)
(* (apps/api/src/index.ts:149), so every statement commits by itself and a *)
(* delivery is a sequence of steps, with other deliveries in between.      *)
(*                                                                         *)
(* The provider is external: it keeps the subscriptions, emits events in   *)
(* order, and sends an event as often as it likes, in any order and to     *)
(* several handlers at once, until one answers 200.                        *)
(*                                                                         *)
(* Left out: the signature, events that are not translated, processed_at   *)
(* (nothing reads it), the name and register of the workspace, renewal     *)
(* dates, and a second workspace: its rows share nothing with these.       *)
(***************************************************************************)
EXTENDS Integers, Sequences, FiniteSets

CONSTANTS
    MaxEvent,    \* bound: the events the provider emits
    MaxSub,      \* bound: checkout sessions that are opened
    MaxRequests, \* bound: the deliveries in flight at one time
    MaxFaults    \* bound: deliveries that die half way

ASSUME BillingAssumption ==
    MaxEvent \in Nat /\ MaxSub \in Nat /\ MaxRequests \in Nat /\ MaxFaults \in Nat

VARIABLES
    status,       \* the provider's subscriptions, in the order they were paid for
    sessions,     \* the checkout sessions opened and not yet paid
    events,       \* what the provider emitted, in order
    unanswered,   \* the events it still has to deliver
    claimed,      \* the ids in webhook_receipts
    subscription, \* the workspace's subscription row
    standing,     \* plan and payment_state of the workspace row
    requests,     \* the deliveries in flight: how far, of what, with what row
    faults,
    applied,      \* ghost: how often each event was saved
    dropped,      \* ghost: the events whose first delivery died
    orderly       \* ghost: so far one subscription and one delivery at a time,
                  \* in order, and none died

providerVars == <<status, sessions, events>>
ghostVars == <<applied, dropped, orderly>>
vars == <<providerVars, unanswered, claimed, subscription, standing, requests,
          faults, ghostVars>>

-----------------------------------------------------------------------------
Event == 1..MaxEvent
Sub == 1..MaxSub
NoSub == 0

Kind == {"checkout_completed", "subscription_updated", "payment_failed",
         "payment_recovered", "subscription_canceled"}

Standing == [plan : {"free", "pro"}, payment : {"none", "active", "past_due", "canceled"}]
Subscription == [plan : {"free", "pro"}, payment : {"none", "active", "past_due", "canceled"},
                 ref : Sub \cup {NoSub}]

\* Subscription.none: what provisioning a workspace writes.
None == [plan |-> "free", payment |-> "none", ref |-> NoSub]

StandingOfBug(s) == [plan |-> s.plan, payment |-> "active"]

StandingOf(s) == [plan |-> s.plan, payment |-> s.payment]

\* Entitlement.resolve: a canceled plan is free, one past due is honoured.
Entitled(s) == s.plan = "pro" /\ s.payment \in {"active", "past_due"}

Delivery(n) == [at |-> "claim", n |-> n, read |-> None]

\* The deliveries that claimed an event and have not answered.
Working == {d \in requests : d.at # "claim"}

Live(s) == status[s] \in {"active", "past_due"}

-----------------------------------------------------------------------------
Init ==
    /\ status = <<>> /\ sessions = 0 /\ events = <<>>
    /\ unanswered = {} /\ claimed = {}
    /\ subscription = None /\ standing = StandingOf(None)
    /\ requests = {}
    /\ faults = 0
    /\ applied = [n \in Event |-> 0] /\ dropped = {} /\ orderly = TRUE

-----------------------------------------------------------------------------
(* The customer and the provider. *)

\* changePlan: who is not entitled to the plan is sent to a checkout.
OpenCheckout ==
    /\ ~Entitled(subscription)
    /\ sessions + Len(status) < MaxSub
    /\ sessions' = sessions + 1
    /\ UNCHANGED <<status, events, unanswered, claimed, subscription, standing,
                   requests, faults, ghostVars>>

\* A session and a subscription carry the workspace in their metadata, an
\* invoice need not.
Emits(kind, sub) ==
    /\ Len(events) < MaxEvent
    /\ \E named \in IF kind \in {"payment_failed", "payment_recovered"}
                    THEN BOOLEAN ELSE {TRUE} :
           events' = Append(events, [kind |-> kind, sub |-> sub, named |-> named])
    /\ unanswered' = unanswered \cup {Len(events) + 1}
    /\ UNCHANGED <<claimed, subscription, standing, requests, faults, applied, dropped>>

Pays ==
    /\ sessions > 0
    /\ sessions' = sessions - 1
    /\ status' = Append(status, "active")
    /\ Emits("checkout_completed", Len(status'))
    /\ orderly' = (orderly /\ \A s \in DOMAIN status : ~Live(s))

Becomes(s, new, kind) ==
    /\ Live(s)
    /\ status' = [status EXCEPT ![s] = new]
    /\ Emits(kind, s)
    /\ UNCHANGED <<sessions, orderly>>

SubscriptionChanges(s) ==
    \/ status[s] = "active" /\ Becomes(s, "active", "subscription_updated")
    \/ Becomes(s, "past_due", "payment_failed")
    \/ Becomes(s, "active", "payment_recovered")
    \/ Becomes(s, "canceled", "subscription_canceled")

-----------------------------------------------------------------------------
(* One delivery of the webhook. *)

Deliver(n) ==
    /\ n \in unanswered /\ Cardinality(requests) < MaxRequests
    /\ requests' = requests \cup {Delivery(n)}
    /\ UNCHANGED <<providerVars, unanswered, claimed, subscription, standing,
                   faults, ghostVars>>

Goes(d, at, row) ==
    requests' = (requests \ {d}) \cup {[d EXCEPT !.at = at, !.read = row]}

\* The route answers 200, and the provider stops.
Answers(d) ==
    /\ requests' = requests \ {d}
    /\ unanswered' = unanswered \ {d.n}

ClaimUnrecordedBug(d) ==
    /\ d.at = "claim"
    /\ Goes(d, "locate", d.read)
    /\ UNCHANGED <<providerVars, unanswered, claimed, subscription, standing,
                   faults, ghostVars>>

ClaimRefusedBug(d) ==
    /\ d.at = "claim"
    /\ claimed' = claimed \cup {d.n}
    /\ requests' = IF d.n \in claimed THEN requests \ {d}
                   ELSE (requests \ {d}) \cup {[d EXCEPT !.at = "locate"]}
    /\ UNCHANGED <<providerVars, unanswered, subscription, standing, faults, ghostVars>>

\* INSERT ... ON CONFLICT DO NOTHING: a delivery that inserts no receipt is a
\* duplicate, whatever became of the first one.
Claim(d) ==
    LET n == d.n
    IN  /\ d.at = "claim"
        /\ claimed' = claimed \cup {n}
        /\ IF n \in claimed THEN Answers(d) /\ UNCHANGED orderly
           ELSE /\ Goes(d, "locate", d.read)
                /\ orderly' = (orderly /\ Working = {} /\ \A m \in 1..(n - 1) : m \in claimed)
                /\ UNCHANGED unanswered
        /\ UNCHANGED <<providerVars, subscription, standing, faults, applied, dropped>>

LocatedBug(event) == event.sub = subscription.ref

\* By its reference, by the customer of a checkout, or by the workspace that
\* the provider's metadata names -- whatever reference the row then has.
Located(event) == event.sub = subscription.ref \/ event.named

Locate(d) ==
    /\ d.at = "locate"
    /\ IF Located(events[d.n])
       THEN /\ Goes(d, "subscription", subscription)
            /\ UNCHANGED unanswered
       ELSE Answers(d)
    /\ UNCHANGED <<providerVars, claimed, subscription, standing, faults, ghostVars>>

\* applyBillingEvent
Applied(current, event) ==
    CASE event.kind = "checkout_completed" ->
            [plan |-> "pro", payment |-> "active", ref |-> event.sub]
      [] event.kind = "subscription_updated" ->
            [plan |-> "pro", payment |-> "active", ref |-> event.sub]
      [] event.kind = "payment_failed" -> [current EXCEPT !.payment = "past_due"]
      [] event.kind = "payment_recovered" -> [current EXCEPT !.payment = "active"]
      [] event.kind = "subscription_canceled" -> [current EXCEPT !.payment = "canceled"]

\* The whole row, from the one that was read.
SaveSubscription(d) ==
    LET n == d.n
    IN  /\ d.at = "subscription"
        /\ subscription' = Applied(d.read, events[n])
        /\ Goes(d, "standing", subscription')
        /\ applied' = [applied EXCEPT ![n] = @ + 1]
        /\ UNCHANGED <<providerVars, unanswered, claimed, standing, faults,
                       dropped, orderly>>

SaveWorkspace(d) ==
    /\ d.at = "standing"
    /\ standing' = StandingOf(d.read)
    /\ Goes(d, "mark", None)
    /\ UNCHANGED <<providerVars, unanswered, claimed, subscription, faults, ghostVars>>

MarkProcessed(d) ==
    /\ d.at = "mark"
    /\ Answers(d)
    /\ UNCHANGED <<providerVars, claimed, subscription, standing, faults, ghostVars>>

\* A statement fails, or the process dies: the provider hears no 200.
Dies(d) ==
    /\ faults < MaxFaults
    /\ faults' = faults + 1
    /\ requests' = requests \ {d}
    /\ dropped' = IF d \in Working THEN dropped \cup {d.n} ELSE dropped
    /\ orderly' = (orderly /\ d \notin Working)
    /\ UNCHANGED <<providerVars, unanswered, claimed, subscription, standing, applied>>

Handles(d) ==
    \/ Claim(d) \/ Locate(d) \/ SaveSubscription(d) \/ SaveWorkspace(d) \/ MarkProcessed(d)

\* The customer does nothing more, and every event was answered.
Finished ==
    /\ unanswered = {} /\ requests = {}
    /\ UNCHANGED vars

Next ==
    \/ OpenCheckout \/ Pays
    \/ \E s \in DOMAIN status : SubscriptionChanges(s)
    \/ \E n \in Event : Deliver(n)
    \/ \E d \in requests : Handles(d) \/ Dies(d)
    \/ Finished

Spec == Init /\ [][Next]_vars

\* A request is carried on, and the provider retries an event until it hears
\* a 200.
Fairness ==
    /\ \A n \in Event : WF_vars(\E d \in requests : d.n = n /\ Handles(d))
    /\ \A n \in Event : SF_vars(Deliver(n))

FairSpec == Spec /\ Fairness

-----------------------------------------------------------------------------
(* Properties *)

Request == [at : {"claim", "locate", "subscription", "standing", "mark"},
             n : Event, read : Subscription]

TypeOK ==
    /\ status \in Seq({"active", "past_due", "canceled"}) /\ sessions \in Nat
    /\ sessions + Len(status) <= MaxSub
    /\ events \in Seq([kind : Kind, sub : Sub, named : BOOLEAN]) /\ Len(events) <= MaxEvent
    /\ unanswered \in SUBSET (1..Len(events)) /\ claimed \in SUBSET (1..Len(events))
    /\ subscription \in Subscription /\ standing \in Standing
    /\ requests \in SUBSET Request
    /\ \A d \in requests : d.n \in 1..Len(events)
    /\ \A d \in Working : d.n \in claimed
    /\ faults \in 0..MaxFaults
    /\ applied \in [Event -> Nat] /\ dropped \in SUBSET claimed /\ orderly \in BOOLEAN

\* The event of n is in the hands of a delivery that claimed it.
InHand(n) == \E d \in Working : d.n = n

\* "Apply a payment-provider webhook, once" (record-billing-event.ts:2): however
\* often an event is delivered, and however deliveries overlap, it is applied at
\* most once; and one that was claimed was applied, unless it names no workspace
\* (an invoice of an unknown subscription) or its own delivery died.
ClaimedIsApplied ==
    \A n \in 1..Len(events) :
        /\ applied[n] <= 1
        /\ n \in claimed => \/ applied[n] = 1 \/ InHand(n)
                            \/ ~events[n].named \/ n \in dropped

\* What the provider says about the newest subscription.
Truth ==
    IF status = <<>> THEN StandingOf(None)
    ELSE [plan |-> "pro", payment |-> status[Len(status)]]

\* End to end: with one live subscription at a time and events that arrive in
\* order and one by one, the workspace has exactly the standing the provider
\* says it paid for ("a canceled subscription kept its paid limits in v1",
\* subscription.ts:63), from the first checkout through every failed payment.
StandingIsTheProviders ==
    /\ orderly /\ Working = {} /\ claimed = 1..Len(events)
    /\ \A n \in 1..Len(events) : applied[n] = 1
    => standing = Truth

\* The provider hears a 200 for every event it emitted, through deaths and overlapping
\* retries ("a stuck webhook queue is a worse outage than a dropped
\* notification", record-billing-event.ts:19).
EventsAreAnswered == unanswered # {} ~> unanswered = {}

-----------------------------------------------------------------------------
(* What a comment of webhook.ts claims and the code does not keep *)

\* "500 so Stripe retries: the delivery was genuine and we lost it"
\* (apps/api/src/billing/webhook.ts:63): the retry is there so that an event
\* which names its workspace is applied before the provider stops.
RetryRecovers ==
    \A n \in (1..Len(events)) \ unanswered :
        events[n].named => applied[n] = 1 \/ InHand(n)
=============================================================================
