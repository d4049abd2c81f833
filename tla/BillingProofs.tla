---------------------------- MODULE BillingProofs ----------------------------
(***************************************************************************)
(* Proofs about Billing, for every number of events, subscriptions,        *)
(* deliveries and deaths: an event is applied at most once however often   *)
(* it is delivered, one that was claimed is accounted for, and orderly     *)
(* events leave the workspace with the standing the provider says.         *)
(*                                                                         *)
(* The insert of a receipt succeeds once, so an event has one working      *)
(* delivery (OneWorks), and how far that one is says whether the event has *)
(* been applied (Progress).  Events that come in order are claimed in      *)
(* turn, the last perhaps in hand (InTurn); what the last one says is what *)
(* the provider says (ProviderOK), so that the standing follows it         *)
(* (StandingOK).                                                           *)
(***************************************************************************)
EXTENDS Billing, SequenceTheorems, TLAPS

OneWorks == \A d, e \in Working : d.n = e.n => d = e

Progress ==
    /\ \A d \in Working : applied[d.n] = IF d.at \in {"locate", "subscription"} THEN 0 ELSE 1
    /\ \A n \in Event : n \notin claimed => applied[n] = 0

Inv == TypeOK /\ OneWorks /\ Progress /\ ClaimedIsApplied

EventRow == [kind : Kind, sub : Sub, named : BOOLEAN]

-----------------------------------------------------------------------------
(* Types *)

LEMMA RowTypes ==
    /\ None \in Subscription /\ StandingOf(None) \in Standing
    /\ \A s \in Subscription : StandingOf(s) \in Standing
BY DEF None, Subscription, Standing, StandingOf

LEMMA AppliedIsSubscription ==
    ASSUME NEW current \in Subscription, NEW event \in EventRow
    PROVE  Applied(current, event) \in Subscription
<1>1. event.kind \in Kind /\ event.sub \in Sub
  BY DEF EventRow
<1>2. CASE event.kind = "checkout_completed" \/ event.kind = "subscription_updated"
  <2>1. Applied(current, event) = [plan |-> "pro", payment |-> "active", ref |-> event.sub]
    BY <1>2, Zenon DEF Applied
  <2> QED BY <1>1, <2>1 DEF Subscription
<1>3. CASE event.kind = "payment_failed"
  <2>1. Applied(current, event) = [current EXCEPT !.payment = "past_due"]
    BY <1>3, Zenon DEF Applied
  <2> QED BY <2>1 DEF Subscription
<1>4. CASE event.kind = "payment_recovered"
  <2>1. Applied(current, event) = [current EXCEPT !.payment = "active"]
    BY <1>4, Zenon DEF Applied
  <2> QED BY <2>1 DEF Subscription
<1>5. CASE event.kind = "subscription_canceled"
  <2>1. Applied(current, event) = [current EXCEPT !.payment = "canceled"]
    BY <1>5, Zenon DEF Applied
  <2> QED BY <2>1 DEF Subscription
<1> QED BY <1>1, <1>2, <1>3, <1>4, <1>5 DEF Kind

\* What the provider does leaves deliveries and rows alone, and only adds to
\* what it emitted.
LEMMA ProviderKeeps ==
    ASSUME Inv,
           UNCHANGED <<claimed, subscription, standing, requests, faults, applied, dropped>>,
           status' \in Seq({"active", "past_due", "canceled"}), sessions' \in Nat,
           sessions' + Len(status') <= MaxSub,
           events' \in Seq(EventRow), Len(events') <= MaxEvent, Len(events) <= Len(events'),
           \A n \in 1..Len(events) : events'[n] = events[n],
           unanswered' \in SUBSET (1..Len(events')), orderly' \in BOOLEAN
    PROVE  Inv'
<1>1. Len(events) \in Nat /\ Len(events') \in Nat /\ Len(events) <= MaxEvent /\ MaxEvent \in Nat
  BY BillingAssumption DEF Inv, TypeOK
<1>2. 1..Len(events) \subseteq 1..Len(events') /\ 1..Len(events') \subseteq Event
  BY <1>1, BillingAssumption DEF Event
<1>3. TypeOK'
  BY <1>2 DEF Inv, TypeOK, EventRow, Working
<1>4. OneWorks' /\ Progress'
  BY DEF Inv, OneWorks, Progress, Working
<1>5. ClaimedIsApplied'
  <2>1. SUFFICES ASSUME NEW n \in 1..Len(events')
                 PROVE  /\ applied[n] <= 1
                        /\ n \in claimed => \/ applied[n] = 1 \/ InHand(n)
                                            \/ ~events'[n].named \/ n \in dropped
    BY DEF ClaimedIsApplied, InHand, Working
  <2>2. CASE n \in 1..Len(events)
    BY <2>2 DEF Inv, ClaimedIsApplied
  <2>3. CASE n \notin 1..Len(events)
    BY <1>2, <2>3 DEF Inv, TypeOK, Progress
  <2> QED BY <2>2, <2>3
<1> QED BY <1>3, <1>4, <1>5 DEF Inv

LEMMA EmitsKeeps ==
    ASSUME Inv, NEW kind \in Kind, NEW sub \in Sub, Emits(kind, sub),
           status' \in Seq({"active", "past_due", "canceled"}), sessions' \in Nat,
           sessions' + Len(status') <= MaxSub, orderly' \in BOOLEAN
    PROVE  Inv'
<1>1. PICK named \in BOOLEAN :
          events' = Append(events, [kind |-> kind, sub |-> sub, named |-> named])
  BY DEF Emits
<1>2. events \in Seq(EventRow) /\ [kind |-> kind, sub |-> sub, named |-> named] \in EventRow
  BY DEF Inv, TypeOK, EventRow
<1>3. /\ events' \in Seq(EventRow) /\ Len(events') = Len(events) + 1
      /\ \A n \in 1..Len(events) : events'[n] = events[n]
  BY <1>1, <1>2, AppendProperties
<1>4. Len(events) \in Nat /\ Len(events') <= MaxEvent
  BY <1>2, <1>3, BillingAssumption DEF Emits
<1>5. unanswered' \in SUBSET (1..Len(events'))
  <2>1. 1..Len(events) \subseteq 1..Len(events') /\ Len(events) + 1 \in 1..Len(events')
    BY <1>3, <1>4
  <2>2. unanswered' = unanswered \cup {Len(events) + 1}
    BY DEF Emits
  <2> QED BY <2>1, <2>2 DEF Inv, TypeOK
<1> QED BY <1>3, <1>4, <1>5, ProviderKeeps DEF Emits

LEMMA CustomerKeeps ==
    ASSUME Inv, OpenCheckout \/ Pays \/ \E s \in DOMAIN status : SubscriptionChanges(s)
    PROVE  Inv'
<1>1. /\ TypeOK /\ Len(status) \in Nat /\ sessions \in Nat /\ MaxSub \in Nat
      /\ DOMAIN status = 1..Len(status) /\ sessions + Len(status) <= MaxSub
  BY BillingAssumption DEF Inv, TypeOK
<1>2. CASE OpenCheckout
  <2>1. sessions' + Len(status') <= MaxSub /\ sessions' \in Nat
    BY <1>1, <1>2 DEF OpenCheckout
  <2> QED BY <1>1, <1>2, <2>1, ProviderKeeps DEF OpenCheckout, ghostVars, TypeOK, EventRow
<1>3. CASE Pays
  <2>1. status' \in Seq({"active", "past_due", "canceled"}) /\ Len(status') = Len(status) + 1
    BY <1>1, <1>3, AppendProperties DEF Pays, TypeOK
  <2>2. sessions' \in Nat /\ sessions' + Len(status') <= MaxSub /\ Len(status') \in Sub
    BY <1>1, <1>3, <2>1 DEF Pays, Sub
  <2>3. Emits("checkout_completed", Len(status')) /\ orderly' \in BOOLEAN
    BY <1>1, <1>3 DEF Pays, TypeOK
  <2> QED BY <2>1, <2>2, <2>3, EmitsKeeps DEF Kind
<1>4. ASSUME NEW s \in DOMAIN status, SubscriptionChanges(s) PROVE Inv'
  <2>1. PICK new \in {"active", "past_due", "canceled"}, kind \in Kind : Becomes(s, new, kind)
    BY <1>4 DEF SubscriptionChanges, Kind
  <2>2. s \in Sub
    BY <1>1 DEF Sub
  <2>3. status' \in Seq({"active", "past_due", "canceled"}) /\ Len(status') = Len(status)
    BY <1>1, <2>1, ExceptSeq DEF Becomes, TypeOK
  <2> QED BY <1>1, <2>1, <2>2, <2>3, EmitsKeeps DEF Becomes, TypeOK
<1> QED BY <1>2, <1>3, <1>4

-----------------------------------------------------------------------------
(* Deliveries *)

\* One delivery goes on, or ends: the others are as before.
LEMMA WorkingMoves ==
    ASSUME Inv, NEW d \in requests, NEW e \in Request, e.n = d.n, e.at # "claim",
           d.at # "claim" \/ d.n \notin claimed,
           requests' = (requests \ {d}) \cup {e}
    PROVE  /\ Working' = (Working \ {d}) \cup {e}
           /\ \A f \in Working \ {d} : f.n # d.n
BY DEF Inv, TypeOK, Working, OneWorks

LEMMA WorkingEnds ==
    ASSUME NEW d \in requests, requests' = requests \ {d}
    PROVE  Working' = Working \ {d}
BY DEF Working

\* A step of a delivery that has its event, which it claims or has claimed.
LEMMA HandKeeps ==
    ASSUME Inv, NEW d \in requests, NEW e \in Request, e.n = d.n, e.at # "claim",
           d.at # "claim" \/ d.n \notin claimed,
           requests' = (requests \ {d}) \cup {e},
           UNCHANGED <<providerVars, unanswered, faults, dropped>>,
           claimed' = claimed \cup {d.n}, orderly' \in BOOLEAN,
           subscription' \in Subscription, standing' \in Standing,
           applied' = IF d.at = "subscription" THEN [applied EXCEPT ![d.n] = @ + 1] ELSE applied,
           \/ d.at = "claim" /\ e.at = "locate"
           \/ d.at = "locate" /\ e.at = "subscription"
           \/ d.at = "subscription" /\ e.at = "standing"
           \/ d.at = "standing" /\ e.at = "mark"
    PROVE  Inv'
<1> DEFINE n == d.n
<1>1. /\ TypeOK /\ n \in 1..Len(events) /\ n \in Event /\ 1..Len(events) \subseteq Event
      /\ applied \in [Event -> Nat] /\ d \in Request
  BY BillingAssumption DEF Inv, TypeOK, Event
<1>2. Working' = (Working \ {d}) \cup {e} /\ \A f \in Working \ {d} : f.n # n
  BY WorkingMoves
<1>3. /\ applied' \in [Event -> Nat] /\ \A m \in Event \ {n} : applied'[m] = applied[m]
      /\ applied'[n] = IF d.at = "subscription" THEN applied[n] + 1 ELSE applied[n]
  BY <1>1
<1>4. applied[n] = IF d.at \in {"claim", "locate", "subscription"} THEN 0 ELSE 1
  <2>1. CASE d.at = "claim"
    BY <1>1, <2>1 DEF Inv, Progress
  <2>2. CASE d.at # "claim"
    BY <2>2 DEF Inv, Progress, Working
  <2> QED BY <2>1, <2>2
<1>5. applied'[n] = IF e.at \in {"locate", "subscription"} THEN 0 ELSE 1
  BY <1>3, <1>4
<1>6. TypeOK'
  <2>1. claimed' \in SUBSET (1..Len(events)) /\ requests' \in SUBSET Request
    BY <1>1 DEF TypeOK
  <2>2. \A f \in requests' : f.n \in 1..Len(events)
    BY <1>1 DEF TypeOK
  <2>3. \A f \in Working' : f.n \in claimed'
    BY <1>1, <1>2 DEF TypeOK
  <2>4. dropped \in SUBSET claimed'
    BY <1>1 DEF TypeOK
  <2> QED BY <1>1, <1>3, <2>1, <2>2, <2>3, <2>4 DEF TypeOK, providerVars
<1>7. OneWorks'
  BY <1>2 DEF Inv, OneWorks
<1>8. Progress'
  <2>1. ASSUME NEW f \in Working'
        PROVE  applied'[f.n] = IF f.at \in {"locate", "subscription"} THEN 0 ELSE 1
    <3>1. CASE f = e
      BY <1>5, <3>1
    <3>2. CASE f # e
      <4>1. f \in Working /\ f.n # n /\ f.n \in Event
        BY <1>1, <1>2, <3>2 DEF TypeOK, Working
      <4> QED BY <1>3, <4>1 DEF Inv, Progress
    <3> QED BY <3>1, <3>2
  <2>2. ASSUME NEW m \in Event, m \notin claimed' PROVE applied'[m] = 0
    BY <1>3, <2>2 DEF Inv, Progress
  <2> QED BY <2>1, <2>2 DEF Progress
<1>9. ClaimedIsApplied'
  <2>1. UNCHANGED <<events, dropped>>
    BY DEF providerVars
  <2>2. ASSUME NEW m \in 1..Len(events)
        PROVE  /\ applied'[m] <= 1
               /\ m \in claimed' => \/ applied'[m] = 1 \/ InHand(m)'
                                    \/ ~events[m].named \/ m \in dropped
    <3>1. CASE m = n
      <4>1. InHand(m)'
        BY <1>2, <3>1 DEF InHand
      <4> QED BY <1>5, <3>1, <4>1
    <3>2. CASE m # n
      <4>1. applied'[m] = applied[m] /\ (m \in claimed' <=> m \in claimed)
        BY <1>1, <1>3, <3>2
      <4>2. InHand(m) => InHand(m)'
        BY <1>2, <3>2 DEF InHand
      <4> QED BY <4>1, <4>2 DEF Inv, ClaimedIsApplied
    <3> QED BY <3>1, <3>2
  <2> QED BY <2>1, <2>2 DEF ClaimedIsApplied
<1> QED BY <1>6, <1>7, <1>8, <1>9 DEF Inv

\* A delivery ends: it had not begun, or what it claimed is accounted for.
LEMMA EndKeeps ==
    ASSUME Inv, NEW d \in requests, requests' = requests \ {d},
           UNCHANGED <<providerVars, claimed, subscription, standing, applied>>,
           unanswered' \in SUBSET unanswered, faults' \in 0..MaxFaults,
           dropped' \in SUBSET claimed, dropped \subseteq dropped', orderly' \in BOOLEAN,
           \/ d.at = "claim" \/ applied[d.n] = 1
           \/ ~events[d.n].named \/ d.n \in dropped'
    PROVE  Inv'
<1>1. Working' = Working \ {d}
  BY WorkingEnds
<1>2. TypeOK'
  BY <1>1 DEF Inv, TypeOK, providerVars
<1>3. OneWorks' /\ Progress'
  BY <1>1 DEF Inv, OneWorks, Progress
<1>4. ClaimedIsApplied'
  <2>1. ASSUME NEW m \in 1..Len(events), m \in claimed
        PROVE  applied[m] = 1 \/ InHand(m)' \/ ~events[m].named \/ m \in dropped'
    <3>1. applied[m] = 1 \/ InHand(m) \/ ~events[m].named \/ m \in dropped
      BY <2>1 DEF Inv, ClaimedIsApplied
    <3>2. ASSUME InHand(m), ~InHand(m)' PROVE d.n = m /\ d.at # "claim"
      BY <1>1, <3>2 DEF InHand, Working
    <3> QED BY <3>1, <3>2
  <2>2. UNCHANGED <<events, applied, claimed>>
    BY DEF providerVars
  <2>3. \A m \in 1..Len(events) : applied[m] <= 1
    BY DEF Inv, ClaimedIsApplied
  <2> QED BY <2>1, <2>2, <2>3 DEF ClaimedIsApplied
<1> QED BY <1>2, <1>3, <1>4 DEF Inv

LEMMA DeliverKeeps ==
    ASSUME Inv, NEW n \in Event, Deliver(n)
    PROVE  Inv'
<1>1. Delivery(n) \in Request /\ Delivery(n).at = "claim" /\ Delivery(n).n = n
  BY RowTypes DEF Delivery, Request
<1>2. requests' = requests \cup {Delivery(n)} /\ n \in 1..Len(events)
  BY DEF Deliver, Inv, TypeOK
<1>3. Working' = Working
  BY <1>1, <1>2 DEF Working
<1>4. TypeOK'
  BY <1>1, <1>2, <1>3 DEF Inv, TypeOK, Deliver, providerVars, ghostVars
<1>5. OneWorks' /\ Progress' /\ ClaimedIsApplied'
  BY <1>3
     DEF Inv, OneWorks, Progress, ClaimedIsApplied, InHand, Deliver, providerVars, ghostVars
<1> QED BY <1>4, <1>5 DEF Inv

LEMMA HandlesKeeps ==
    ASSUME Inv, NEW d \in requests, Handles(d)
    PROVE  Inv'
<1>1. /\ TypeOK /\ d \in Request /\ d.n \in 1..Len(events) /\ d.read \in Subscription
      /\ events[d.n] \in EventRow
  <2>1. TypeOK /\ d \in Request /\ d.n \in 1..Len(events) /\ events \in Seq(EventRow)
    BY DEF Inv, TypeOK, EventRow
  <2>2. d.read \in Subscription
    BY <2>1 DEF Request
  <2>3. events[d.n] \in EventRow
    BY <2>1, ElementOfSeq
  <2> QED BY <2>1, <2>2, <2>3
<1>2. CASE Claim(d)
  <2>1. CASE d.n \in claimed
    <3>1. claimed' = claimed /\ Answers(d)
      BY <1>2, <2>1 DEF Claim
    <3> QED
      BY <1>1, <1>2, <2>1, <3>1, EndKeeps DEF Claim, Answers, providerVars, TypeOK
  <2>2. CASE d.n \notin claimed
    <3> DEFINE e == [d EXCEPT !.at = "locate", !.read = d.read]
    <3>1. e \in Request /\ e.n = d.n /\ e.at = "locate"
      BY <1>1 DEF Request
    <3>2. requests' = (requests \ {d}) \cup {e} /\ d.at = "claim" /\ orderly' \in BOOLEAN
      BY <1>1, <1>2, <2>2 DEF Claim, Goes, TypeOK
    <3> HIDE DEF e
    <3> QED BY <1>1, <1>2, <2>2, <3>1, <3>2, HandKeeps DEF Claim, TypeOK
  <2> QED BY <2>1, <2>2
<1>3. ASSUME d.at # "claim" PROVE claimed = claimed \cup {d.n} /\ d \in Working
  BY <1>3 DEF Inv, TypeOK, Working
<1>4. CASE Locate(d)
  <2>1. CASE Located(events[d.n])
    <3> DEFINE e == [d EXCEPT !.at = "subscription", !.read = subscription]
    <3>1. e \in Request /\ e.n = d.n /\ e.at = "subscription"
      BY <1>1 DEF Request, TypeOK
    <3>2. requests' = (requests \ {d}) \cup {e} /\ d.at = "locate"
      BY <1>4, <2>1 DEF Locate, Goes
    <3> HIDE DEF e
    <3> QED BY <1>1, <1>3, <1>4, <2>1, <3>1, <3>2, HandKeeps DEF Locate, ghostVars, TypeOK
  <2>2. CASE ~Located(events[d.n])
    <3>1. ~events[d.n].named /\ Answers(d)
      BY <1>4, <2>2 DEF Located, Locate
    <3> QED BY <1>1, <1>4, <3>1, EndKeeps DEF Locate, Answers, ghostVars, TypeOK
  <2> QED BY <2>1, <2>2
<1>5. CASE SaveSubscription(d)
  <2>1. subscription' \in Subscription
    BY <1>1, <1>5, AppliedIsSubscription DEF SaveSubscription
  <2> DEFINE e == [d EXCEPT !.at = "standing", !.read = subscription']
  <2>2. e \in Request /\ e.n = d.n /\ e.at = "standing"
    BY <1>1, <2>1 DEF Request
  <2>3. requests' = (requests \ {d}) \cup {e} /\ d.at = "subscription"
    BY <1>5 DEF SaveSubscription, Goes
  <2> HIDE DEF e
  <2> QED BY <1>1, <1>3, <1>5, <2>1, <2>2, <2>3, HandKeeps DEF SaveSubscription, TypeOK
<1>6. CASE SaveWorkspace(d)
  <2>1. standing' \in Standing
    BY <1>1, <1>6, RowTypes DEF SaveWorkspace
  <2> DEFINE e == [d EXCEPT !.at = "mark", !.read = None]
  <2>2. e \in Request /\ e.n = d.n /\ e.at = "mark"
    BY <1>1, RowTypes DEF Request
  <2>3. requests' = (requests \ {d}) \cup {e} /\ d.at = "standing"
    BY <1>6 DEF SaveWorkspace, Goes
  <2> HIDE DEF e
  <2> QED
    BY <1>1, <1>3, <1>6, <2>1, <2>2, <2>3, HandKeeps DEF SaveWorkspace, ghostVars, TypeOK
<1>7. CASE MarkProcessed(d)
  <2>1. applied[d.n] = 1
    BY <1>3, <1>7 DEF MarkProcessed, Inv, Progress
  <2> QED BY <1>1, <1>7, <2>1, EndKeeps DEF MarkProcessed, Answers, ghostVars, TypeOK
<1> QED BY <1>2, <1>4, <1>5, <1>6, <1>7 DEF Handles

LEMMA DiesKeeps ==
    ASSUME Inv, NEW d \in requests, Dies(d)
    PROVE  Inv'
<1>1. TypeOK /\ (d \in Working => d.n \in claimed)
  BY DEF Inv, TypeOK
<1>2. faults' \in 0..MaxFaults
  BY <1>1, BillingAssumption DEF Dies, TypeOK
<1>3. dropped' \in SUBSET claimed /\ dropped \subseteq dropped'
      /\ (d.at = "claim" \/ d.n \in dropped')
  BY <1>1 DEF Dies, TypeOK, Working
<1>4. requests' = requests \ {d} /\ orderly' \in BOOLEAN /\ unanswered' = unanswered
      /\ UNCHANGED <<providerVars, claimed, subscription, standing, applied>>
  BY <1>1 DEF Dies, TypeOK
<1> QED BY <1>2, <1>3, <1>4, EndKeeps

LEMMA Initially == Init => Inv
<1> SUFFICES ASSUME Init PROVE Inv
  OBVIOUS
<1>1. Len(events) = 0 /\ Len(status) = 0 /\ events \in Seq(EventRow)
      /\ status \in Seq({"active", "past_due", "canceled"})
  BY EmptySeq DEF Init
<1>2. Working = {}
  BY DEF Init, Working
<1>3. TypeOK
  BY <1>1, <1>2, RowTypes, BillingAssumption DEF Init, TypeOK, EventRow
<1>4. OneWorks /\ Progress
  BY <1>2 DEF Init, OneWorks, Progress
<1>5. ClaimedIsApplied
  BY <1>1 DEF ClaimedIsApplied
<1> QED BY <1>3, <1>4, <1>5 DEF Inv

LEMMA StepKeeps == Inv /\ [Next]_vars => Inv'
<1> SUFFICES ASSUME Inv, [Next]_vars PROVE Inv'
  OBVIOUS
<1>1. CASE OpenCheckout \/ Pays \/ \E s \in DOMAIN status : SubscriptionChanges(s)
  BY <1>1, CustomerKeeps
<1>2. ASSUME NEW n \in Event, Deliver(n) PROVE Inv'
  BY <1>2, DeliverKeeps
<1>3. ASSUME NEW d \in requests, Handles(d) \/ Dies(d) PROVE Inv'
  BY <1>3, HandlesKeeps, DiesKeeps
<1>4. CASE Finished \/ UNCHANGED vars
  <2>1. UNCHANGED vars
    BY <1>4 DEF Finished
  <2> QED
    BY <2>1
       DEF Inv, vars, providerVars, ghostVars, TypeOK, OneWorks, Progress,
           ClaimedIsApplied, InHand, Working
<1> QED BY <1>1, <1>2, <1>3, <1>4 DEF Next

-----------------------------------------------------------------------------
(* The standing that orderly events give *)

PaymentAfter(kind) ==
    IF kind = "payment_failed" THEN "past_due"
    ELSE IF kind = "subscription_canceled" THEN "canceled" ELSE "active"

\* The standing that events 1 to k give a workspace when each is applied in turn.
After(k) ==
    IF k = 0 THEN StandingOf(None)
    ELSE [plan |-> "pro", payment |-> PaymentAfter(events[k].kind)]

AllApplied(k) == \A n \in 1..k : applied[n] = 1

ProviderOK ==
    /\ Len(status) > 0 => Len(events) > 0
    /\ Len(events) > 0 => events[1].kind = "checkout_completed"
    /\ orderly => /\ Truth = After(Len(events))
                  /\ \A s \in DOMAIN status : Live(s) => s = Len(status)

\* Events 1 to k were claimed in turn, and the last may be in hand.
InTurn(k) ==
    /\ claimed = 1..k /\ \A d \in Working : d.n = k
    /\ Working = {} /\ AllApplied(k) =>
           StandingOf(subscription) = After(k) /\ standing = After(k)
    /\ \A d \in Working : AllApplied(k - 1) =>
           /\ d.at \in {"locate", "subscription"} => StandingOf(subscription) = After(k - 1)
           /\ d.at \in {"standing", "mark"} => StandingOf(subscription) = After(k)
           /\ d.at \in {"subscription", "standing"} => d.read = subscription
           /\ d.at = "mark" => standing = After(k)

StandingOK == orderly => \E k \in 0..Len(events) : InTurn(k)

\* After an event is applied, the standing is what the event says.
LEMMA AppliedStanding ==
    ASSUME NEW current \in Subscription, NEW event \in EventRow,
           current.plan = "pro" \/ event.kind = "checkout_completed"
    PROVE  StandingOf(Applied(current, event)) =
               [plan |-> "pro", payment |-> PaymentAfter(event.kind)]
<1>1. event.kind \in Kind
  BY DEF EventRow
<1>2. CASE event.kind = "checkout_completed" \/ event.kind = "subscription_updated"
  <2>1. Applied(current, event) = [plan |-> "pro", payment |-> "active", ref |-> event.sub]
    BY <1>2, Zenon DEF Applied
  <2> QED BY <1>2, <2>1 DEF StandingOf, PaymentAfter
<1>3. CASE event.kind = "payment_failed"
  <2>1. Applied(current, event) = [current EXCEPT !.payment = "past_due"]
    BY <1>3, Zenon DEF Applied
  <2> QED BY <1>3, <2>1 DEF StandingOf, PaymentAfter, Subscription
<1>4. CASE event.kind = "payment_recovered"
  <2>1. Applied(current, event) = [current EXCEPT !.payment = "active"]
    BY <1>4, Zenon DEF Applied
  <2> QED BY <1>4, <2>1 DEF StandingOf, PaymentAfter, Subscription
<1>5. CASE event.kind = "subscription_canceled"
  <2>1. Applied(current, event) = [current EXCEPT !.payment = "canceled"]
    BY <1>5, Zenon DEF Applied
  <2> QED BY <1>5, <2>1 DEF StandingOf, PaymentAfter, Subscription
<1> QED BY <1>1, <1>2, <1>3, <1>4, <1>5 DEF Kind

LEMMA EmitsAppends ==
    ASSUME Inv, NEW kind \in Kind, NEW sub \in Sub, Emits(kind, sub)
    PROVE  /\ Len(events) \in Nat /\ Len(events') = Len(events) + 1
           /\ \A n \in 1..Len(events) : events'[n] = events[n]
           /\ events'[Len(events) + 1].kind = kind
<1>1. PICK named \in BOOLEAN :
          events' = Append(events, [kind |-> kind, sub |-> sub, named |-> named])
  BY DEF Emits
<1>2. events \in Seq(EventRow) /\ [kind |-> kind, sub |-> sub, named |-> named] \in EventRow
  BY DEF Inv, TypeOK, EventRow
<1> QED BY <1>1, <1>2, AppendProperties, LenProperties

\* The provider: while it has one live subscription, the last event tells how
\* that one is.
LEMMA ProviderKeepsPace ==
    ASSUME Inv, ProviderOK, [Next]_vars
    PROVE  ProviderOK'
<1>1. /\ TypeOK /\ Len(status) \in Nat /\ DOMAIN status = 1..Len(status)
      /\ MaxSub \in Nat /\ Len(status) <= MaxSub
  BY BillingAssumption DEF Inv, TypeOK
<1>2. CASE UNCHANGED <<status, events>> /\ (orderly' => orderly)
  BY <1>2 DEF ProviderOK, Truth, After, Live
<1>3. CASE Pays
  <2>1. /\ status' \in Seq({"active", "past_due", "canceled"}) /\ Len(status') = Len(status) + 1
        /\ \A s \in 1..Len(status) : status'[s] = status[s]
        /\ status'[Len(status) + 1] = "active"
    BY <1>1, <1>3, AppendProperties DEF Pays, TypeOK
  <2>2. Len(status') \in Sub
    <3>1. Len(status) + 1 <= MaxSub
      BY <1>1, <1>3 DEF Pays, TypeOK
    <3> QED BY <1>1, <2>1, <3>1 DEF Sub
  <2>3. /\ Len(events) \in Nat /\ Len(events') = Len(events) + 1
        /\ \A n \in 1..Len(events) : events'[n] = events[n]
        /\ events'[Len(events) + 1].kind = "checkout_completed"
    BY <1>3, <2>2, EmitsAppends DEF Pays, Kind
  <2>4. Truth' = After(Len(events))'
    <3>1. Truth' = [plan |-> "pro", payment |-> "active"]
      BY <1>1, <2>1, EmptySeq DEF Truth
    <3>2. After(Len(events))' = [plan |-> "pro", payment |-> "active"]
      BY <2>3 DEF After, PaymentAfter
    <3> QED BY <3>1, <3>2
  <2>5. Len(events') > 0 /\ events'[1].kind = "checkout_completed"
    <3>1. CASE Len(events) > 0
      BY <2>3, <3>1 DEF ProviderOK
    <3>2. CASE Len(events) = 0
      BY <2>3, <3>2
    <3> QED BY <2>3, <3>1, <3>2
  <2>6. ASSUME orderly', NEW s \in DOMAIN status', Live(s)' PROVE s = Len(status')
    <3>1. s \in 1..Len(status) + 1
      BY <2>1, LenProperties
    <3>2. \A t \in 1..Len(status) : ~Live(t)
      BY <1>1, <1>3, <2>6 DEF Pays
    <3>3. ~(s \in 1..Len(status))
      BY <2>1, <2>6, <3>2 DEF Live
    <3> QED BY <1>1, <2>1, <3>1, <3>3
  <2> QED BY <2>4, <2>5, <2>6 DEF ProviderOK
<1>4. ASSUME NEW s \in DOMAIN status, SubscriptionChanges(s) PROVE ProviderOK'
  <2>1. PICK new \in {"active", "past_due", "canceled"}, kind \in Kind :
            Becomes(s, new, kind) /\ new = PaymentAfter(kind)
    BY <1>4 DEF SubscriptionChanges, Kind, PaymentAfter
  <2>2. s \in Sub
    BY <1>1 DEF Sub
  <2>3. /\ status' \in Seq({"active", "past_due", "canceled"}) /\ Len(status') = Len(status)
        /\ \A t \in 1..Len(status) : status'[t] = IF t = s THEN new ELSE status[t]
    BY <1>1, <2>1, ExceptSeq DEF Becomes, TypeOK
  <2>4. /\ Len(events) \in Nat /\ Len(events') = Len(events) + 1
        /\ \A n \in 1..Len(events) : events'[n] = events[n]
        /\ events'[Len(events) + 1].kind = kind
    BY <2>1, <2>2, EmitsAppends DEF Becomes
  <2>5. Live(s) /\ orderly' = orderly
    BY <2>1 DEF Becomes
  <2>6. Len(events') > 0 /\ events'[1].kind = "checkout_completed"
    <3>1. Len(events) > 0 /\ events[1].kind = "checkout_completed"
      BY <1>1, <2>4 DEF ProviderOK
    <3> QED BY <2>4, <3>1
  <2>7. ASSUME orderly
        PROVE  /\ Truth' = After(Len(events))'
               /\ \A t \in DOMAIN status' : Live(t)' => t = Len(status')
    <3>1. s = Len(status) /\ \A t \in DOMAIN status : Live(t) => t = Len(status)
      BY <2>5, <2>7 DEF ProviderOK
    <3>2. Truth' = [plan |-> "pro", payment |-> new]
      <4>1. Len(status') > 0 /\ status'[Len(status')] = new
        <5>1. s \in 1..Len(status) /\ s = Len(status')
          BY <1>1, <2>3, <3>1
        <5>2. status'[s] = new
          BY <2>3, <5>1
        <5> QED BY <1>1, <5>1, <5>2
      <4>2. status' # <<>>
        BY <4>1, EmptySeq
      <4> QED BY <4>1, <4>2 DEF Truth
    <3>3. After(Len(events))' = [plan |-> "pro", payment |-> PaymentAfter(kind)]
      BY <2>4 DEF After
    <3>4. DOMAIN status' = DOMAIN status
      BY <1>1, <2>3, LenProperties
    <3>5. ASSUME NEW t \in DOMAIN status', Live(t)' PROVE t = Len(status')
      BY <1>1, <2>3, <3>1, <3>4, <3>5 DEF Live
    <3> QED BY <2>1, <3>2, <3>3, <3>5
  <2> QED BY <2>5, <2>6, <2>7 DEF ProviderOK
<1>5. CASE OpenCheckout
  BY <1>2, <1>5 DEF OpenCheckout, ghostVars
<1>6. ASSUME NEW n \in Event, Deliver(n) PROVE ProviderOK'
  BY <1>2, <1>6 DEF Deliver, providerVars, ghostVars
<1>7. ASSUME NEW d \in requests, Handles(d) \/ Dies(d) PROVE ProviderOK'
  <2>1. UNCHANGED <<status, events>>
    BY <1>7 DEF Handles, Claim, Locate, SaveSubscription, SaveWorkspace, MarkProcessed,
                Dies, providerVars
  <2>2. orderly' => orderly
    BY <1>7 DEF Handles, Claim, Locate, SaveSubscription, SaveWorkspace, MarkProcessed,
                Dies, ghostVars
  <2> QED BY <1>2, <2>1, <2>2
<1>8. CASE Finished \/ UNCHANGED vars
  BY <1>2, <1>8 DEF Finished, vars, providerVars, ghostVars
<1> QED BY <1>3, <1>4, <1>5, <1>6, <1>7, <1>8 DEF Next

\* What the steps of the others leave of the event in turn.
LEMMA TurnStays ==
    ASSUME Inv, NEW k \in 0..Len(events), InTurn(k), Len(events) \in Nat,
           Working' = Working,
           UNCHANGED <<claimed, applied, subscription, standing>>,
           Len(events') \in Nat, Len(events) <= Len(events'),
           \A n \in 1..Len(events) : events'[n] = events[n]
    PROVE  k \in 0..Len(events') /\ InTurn(k)'
<1>1. k \in Nat /\ k \in 0..Len(events')
  OBVIOUS
<1>2. After(k)' = After(k)
  <2>1. CASE k = 0
    BY <2>1 DEF After
  <2>2. CASE k # 0
    <3>1. events'[k] = events[k]
      BY <1>1, <2>2
    <3> QED BY <2>2, <3>1 DEF After
  <2> QED BY <2>1, <2>2
<1>3. k > 0 => After(k - 1)' = After(k - 1)
  <2>1. CASE k = 1
    BY <2>1 DEF After
  <2>2. CASE k > 1
    <3>1. events'[k - 1] = events[k - 1] /\ k - 1 # 0
      BY <1>1, <2>2
    <3> QED BY <3>1 DEF After
  <2> QED BY <1>1, <2>1, <2>2
<1>4. AllApplied(k)' = AllApplied(k) /\ AllApplied(k - 1)' = AllApplied(k - 1)
  BY DEF AllApplied
<1>5. ASSUME NEW d \in Working' PROVE k > 0
  <2>1. d.n = k /\ d.n \in 1..Len(events)
    BY <1>5 DEF InTurn, Inv, TypeOK, Working
  <2> QED BY <1>1, <2>1
<1>6. Working' = {} /\ AllApplied(k)' => StandingOf(subscription') = After(k)' /\ standing' = After(k)'
  BY <1>2, <1>4 DEF InTurn
<1>7. ASSUME NEW d \in Working', AllApplied(k - 1)'
      PROVE  /\ d.at \in {"locate", "subscription"} => StandingOf(subscription') = After(k - 1)'
             /\ d.at \in {"standing", "mark"} => StandingOf(subscription') = After(k)'
             /\ d.at \in {"subscription", "standing"} => d.read = subscription'
             /\ d.at = "mark" => standing' = After(k)'
  BY <1>2, <1>3, <1>4, <1>5, <1>7 DEF InTurn
<1>8. claimed' = 1..k /\ \A d \in Working' : d.n = k
  BY DEF InTurn
<1> QED BY <1>1, <1>6, <1>7, <1>8 DEF InTurn

\* The delivery that has the event in turn goes on with it.
LEMMA TurnGoesOn ==
    ASSUME NEW k \in Nat, NEW e, Working' = {e}, e.n = k, claimed' = 1..k,
           AllApplied(k - 1)' =>
               /\ e.at \in {"locate", "subscription"} => StandingOf(subscription') = After(k - 1)'
               /\ e.at \in {"standing", "mark"} => StandingOf(subscription') = After(k)'
               /\ e.at \in {"subscription", "standing"} => e.read = subscription'
               /\ e.at = "mark" => standing' = After(k)'
    PROVE  InTurn(k)'
<1>1. Working' # {} /\ \A d \in Working' : d = e
  OBVIOUS
<1> QED BY <1>1 DEF InTurn

LEMMA HandlesInTurn ==
    ASSUME Inv, ProviderOK, NEW d \in requests, Handles(d), orderly',
           NEW k \in 0..Len(events), InTurn(k)
    PROVE  \E m \in 0..Len(events) : InTurn(m)'
<1> DEFINE n == d.n
<1>1. /\ TypeOK /\ d \in Request /\ n \in 1..Len(events) /\ n \in Event
      /\ Len(events) \in Nat /\ events[n] \in EventRow /\ k \in Nat
      /\ applied \in [Event -> Nat] /\ subscription \in Subscription
  <2>1. /\ TypeOK /\ d \in Request /\ n \in 1..Len(events) /\ events \in Seq(EventRow)
        /\ applied \in [Event -> Nat] /\ subscription \in Subscription
    BY DEF Inv, TypeOK, EventRow
  <2>2. n \in Event
    BY <2>1 DEF Request
  <2> QED BY <2>1, <2>2, ElementOfSeq, LenProperties
<1>2. /\ claimed = 1..k /\ \A f \in Working : f.n = k
      /\ Working = {} /\ AllApplied(k) => StandingOf(subscription) = After(k) /\ standing = After(k)
      /\ \A f \in Working : AllApplied(k - 1) =>
             /\ f.at \in {"locate", "subscription"} => StandingOf(subscription) = After(k - 1)
             /\ f.at \in {"standing", "mark"} => StandingOf(subscription) = After(k)
             /\ f.at \in {"subscription", "standing"} => f.read = subscription
             /\ f.at = "mark" => standing = After(k)
  BY DEF InTurn
<1>3. ASSUME d.at # "claim"
      PROVE  Working = {d} /\ n = k /\ k \in 1..Len(events)
  <2>1. d \in Working
    BY <1>3 DEF Working
  <2>2. \A f \in Working : f = d
    BY <1>2, <2>1 DEF Inv, OneWorks
  <2> QED BY <1>1, <1>2, <2>1, <2>2
<1>4. /\ \A m \in 0..Len(events) : UNCHANGED events => After(m)' = After(m)
      /\ UNCHANGED applied => \A m : AllApplied(m)' = AllApplied(m)
  BY DEF After, AllApplied
<1>5. CASE Claim(d)
  <2>1. /\ d.at = "claim" /\ claimed' = claimed \cup {n}
        /\ UNCHANGED <<events, subscription, standing, applied>>
    BY <1>5 DEF Claim, providerVars
  <2>2. d \notin Working
    BY <2>1 DEF Working
  <2>3. CASE n \in claimed
    <3>1. requests' = requests \ {d} /\ claimed' = claimed
      BY <1>5, <2>1, <2>3 DEF Claim, Answers
    <3>2. Working' = Working
      BY <2>2, <3>1, WorkingEnds
    <3>3. InTurn(k)'
      BY <1>1, <2>1, <3>1, <3>2, TurnStays
    <3> QED BY <2>1, <3>3
  <2>4. CASE n \notin claimed
    <3> DEFINE e == [d EXCEPT !.at = "locate", !.read = d.read]
    <3>1. e \in Request /\ e.n = n /\ e.at = "locate"
      BY <1>1, <2>1 DEF Request
    <3>2. /\ requests' = (requests \ {d}) \cup {e} /\ orderly /\ Working = {}
          /\ \A m \in 1..(n - 1) : m \in claimed
      BY <1>5, <2>4 DEF Claim, Goes
    <3> HIDE DEF e
    <3>3. Working' = {e}
      BY <2>4, <3>1, <3>2, WorkingMoves
    <3>4. n = k + 1
      <4>1. n > k
        BY <1>1, <1>2, <2>4
      <4>2. ASSUME n > k + 1 PROVE FALSE
        <5>1. k + 1 \in 1..(n - 1)
          BY <1>1, <4>2
        <5>2. k + 1 \in 1..k
          BY <1>2, <3>2, <5>1
        <5> QED BY <1>1, <5>2
      <4> QED BY <1>1, <4>1, <4>2
    <3>5. claimed' = 1..n
      <4>1. 1..n = 1..k \cup {n}
        BY <1>1, <3>4
      <4> QED BY <1>2, <2>1, <4>1
    <3>6. AllApplied(n - 1)' => StandingOf(subscription') = After(n - 1)'
      <4>1. n - 1 = k
        BY <1>1, <3>4
      <4>2. AllApplied(k)' = AllApplied(k) /\ After(k)' = After(k)
        BY <1>4, <2>1
      <4> QED BY <1>2, <2>1, <3>2, <4>1, <4>2
    <3>7. InTurn(n)'
      <4>1. n \in Nat /\ e.at = "locate" /\ e.n = n
        BY <1>1, <3>1
      <4> HIDE DEF n
      <4> QED BY <3>3, <3>5, <3>6, <4>1, TurnGoesOn
    <3> QED BY <1>1, <2>1, <3>7
  <2> QED BY <2>3, <2>4
<1>6. CASE Locate(d)
  <2>1. /\ d.at = "locate"
        /\ UNCHANGED <<events, claimed, subscription, standing, applied>>
    BY <1>6 DEF Locate, providerVars, ghostVars
  <2>2. Working = {d} /\ n = k /\ k \in 1..Len(events)
    BY <1>3, <2>1
  <2>3. CASE Located(events[n])
    <3> DEFINE e == [d EXCEPT !.at = "subscription", !.read = subscription]
    <3>1. e \in Request /\ e.n = n /\ e.at = "subscription" /\ e.read = subscription
      BY <1>1 DEF Request
    <3>2. requests' = (requests \ {d}) \cup {e}
      BY <1>6, <2>3 DEF Locate, Goes
    <3> HIDE DEF e
    <3>3. Working' = {e}
      BY <2>1, <2>2, <3>1, <3>2, WorkingMoves
    <3>4. AllApplied(k - 1)' => StandingOf(subscription') = After(k - 1)'
      <4>1. k - 1 \in 0..Len(events)
        BY <1>1, <2>2
      <4>2. AllApplied(k - 1)' = AllApplied(k - 1) /\ After(k - 1)' = After(k - 1)
        BY <1>4, <2>1, <4>1
      <4> QED BY <1>2, <2>1, <2>2, <4>2
    <3>5. InTurn(k)'
      BY <1>1, <1>2, <2>1, <2>2, <3>1, <3>3, <3>4, TurnGoesOn
    <3> QED BY <2>1, <3>5
  <2>4. CASE ~Located(events[n])
    <3>1. requests' = requests \ {d}
      BY <1>6, <2>4 DEF Locate, Answers
    <3>2. Working' = {}
      BY <2>2, <3>1, WorkingEnds
    <3>3. applied[k] = 0
      BY <2>1, <2>2 DEF Inv, Progress
    <3>4. ~AllApplied(k)'
      BY <2>1, <2>2, <3>3 DEF AllApplied
    <3>5. InTurn(k)'
      BY <1>2, <2>1, <3>2, <3>4 DEF InTurn
    <3> QED BY <2>1, <2>2, <3>5
  <2> QED BY <2>3, <2>4
<1>7. CASE SaveSubscription(d)
  <2>1. /\ d.at = "subscription" /\ subscription' = Applied(d.read, events[n])
        /\ applied' = [applied EXCEPT ![n] = @ + 1]
        /\ UNCHANGED <<events, claimed, standing>>
    BY <1>7 DEF SaveSubscription, providerVars
  <2>2. Working = {d} /\ n = k /\ k \in 1..Len(events)
    BY <1>3, <2>1
  <2>3. subscription' \in Subscription
    BY <1>1, <2>1, AppliedIsSubscription DEF Request
  <2> DEFINE e == [d EXCEPT !.at = "standing", !.read = subscription']
  <2>4. e \in Request /\ e.n = n /\ e.at = "standing" /\ e.read = subscription'
    BY <1>1, <2>3 DEF Request
  <2>5. requests' = (requests \ {d}) \cup {e}
    BY <1>7 DEF SaveSubscription, Goes
  <2> HIDE DEF e
  <2>6. Working' = {e}
    BY <2>1, <2>2, <2>4, <2>5, WorkingMoves
  <2>7. AllApplied(k - 1)' => AllApplied(k - 1)
    <3>1. \A m \in 1..(k - 1) : m # k
      BY <1>1
    <3>2. \A m : m # k => applied'[m] = applied[m]
      BY <1>1, <2>1, <2>2
    <3> QED BY <3>1, <3>2 DEF AllApplied
  <2>8. ASSUME AllApplied(k - 1)' PROVE StandingOf(subscription') = After(k)'
    <3>1. StandingOf(subscription) = After(k - 1) /\ d.read = subscription
      BY <1>2, <2>1, <2>2, <2>7, <2>8
    <3>2. subscription.plan = "pro" \/ events[k].kind = "checkout_completed"
      <4>1. CASE k = 1
        BY <1>1, <2>2, <4>1 DEF ProviderOK
      <4>2. CASE k > 1
        <5>1. StandingOf(subscription).plan = "pro"
          BY <1>1, <3>1, <4>2 DEF After
        <5> QED BY <5>1 DEF StandingOf
      <4> QED BY <1>1, <2>2, <4>1, <4>2
    <3>3. StandingOf(subscription') = [plan |-> "pro", payment |-> PaymentAfter(events[k].kind)]
      BY <1>1, <2>1, <2>2, <3>1, <3>2, AppliedStanding
    <3>4. After(k)' = After(k) /\ After(k) = [plan |-> "pro", payment |-> PaymentAfter(events[k].kind)]
      BY <1>4, <2>1, <2>2 DEF After
    <3> QED BY <3>3, <3>4
  <2>9. InTurn(k)'
    BY <1>1, <1>2, <2>1, <2>2, <2>4, <2>6, <2>8, TurnGoesOn
  <2> QED BY <2>1, <2>9
<1>8. CASE SaveWorkspace(d)
  <2>1. /\ d.at = "standing" /\ standing' = StandingOf(d.read)
        /\ UNCHANGED <<events, claimed, subscription, applied>>
    BY <1>8 DEF SaveWorkspace, providerVars, ghostVars
  <2>2. Working = {d} /\ n = k /\ k \in 1..Len(events)
    BY <1>3, <2>1
  <2> DEFINE e == [d EXCEPT !.at = "mark", !.read = None]
  <2>3. e \in Request /\ e.n = n /\ e.at = "mark"
    BY <1>1, RowTypes DEF Request
  <2>4. requests' = (requests \ {d}) \cup {e}
    BY <1>8 DEF SaveWorkspace, Goes
  <2> HIDE DEF e
  <2>5. Working' = {e}
    BY <2>1, <2>2, <2>3, <2>4, WorkingMoves
  <2>6. ASSUME AllApplied(k - 1)'
        PROVE  StandingOf(subscription') = After(k)' /\ standing' = After(k)'
    <3>1. AllApplied(k - 1) /\ After(k)' = After(k)
      BY <1>4, <2>1, <2>6
    <3> QED BY <1>2, <2>1, <2>2, <3>1
  <2>7. InTurn(k)'
    BY <1>1, <1>2, <2>1, <2>2, <2>3, <2>5, <2>6, TurnGoesOn
  <2> QED BY <2>1, <2>7
<1>9. CASE MarkProcessed(d)
  <2>1. /\ d.at = "mark" /\ requests' = requests \ {d}
        /\ UNCHANGED <<events, claimed, subscription, standing, applied>>
    BY <1>9 DEF MarkProcessed, Answers, providerVars, ghostVars
  <2>2. Working = {d} /\ n = k /\ k \in 1..Len(events)
    BY <1>3, <2>1
  <2>3. Working' = {}
    BY <2>1, <2>2, WorkingEnds
  <2>4. ASSUME AllApplied(k)'
        PROVE  StandingOf(subscription') = After(k)' /\ standing' = After(k)'
    <3>1. AllApplied(k) /\ After(k)' = After(k)
      BY <1>4, <2>1, <2>4
    <3>2. AllApplied(k - 1)
      <4>1. 1..(k - 1) \subseteq 1..k
        BY <1>1
      <4> QED BY <3>1, <4>1 DEF AllApplied
    <3> QED BY <1>2, <2>1, <2>2, <3>1, <3>2
  <2>5. InTurn(k)'
    BY <1>2, <2>1, <2>3, <2>4 DEF InTurn
  <2> QED BY <2>1, <2>5
<1> QED BY <1>5, <1>6, <1>7, <1>8, <1>9 DEF Handles

LEMMA StandingKeepsPace ==
    ASSUME Inv, ProviderOK, StandingOK, [Next]_vars
    PROVE  StandingOK'
<1>1. Len(events) \in Nat
  BY LenProperties DEF Inv, TypeOK
<1>2. SUFFICES ASSUME orderly' PROVE \E k \in 0..Len(events') : InTurn(k)'
  BY DEF StandingOK
<1>3. orderly
  BY <1>2
     DEF Next, OpenCheckout, Pays, SubscriptionChanges, Becomes, Deliver, Handles, Claim,
         Locate, SaveSubscription, SaveWorkspace, MarkProcessed, Dies, Finished, vars,
         ghostVars
<1>4. PICK k \in 0..Len(events) : InTurn(k)
  BY <1>3 DEF StandingOK
<1>5. ASSUME NEW d \in requests, Handles(d) PROVE \E m \in 0..Len(events') : InTurn(m)'
  <2>1. UNCHANGED events
    BY <1>5 DEF Handles, Claim, Locate, SaveSubscription, SaveWorkspace, MarkProcessed,
                providerVars
  <2> QED BY <1>2, <1>4, <1>5, <2>1, HandlesInTurn
<1>6. ASSUME Working' = Working,
             UNCHANGED <<claimed, applied, subscription, standing>>,
             Len(events') \in Nat, Len(events) <= Len(events'),
             \A n \in 1..Len(events) : events'[n] = events[n]
      PROVE  \E m \in 0..Len(events') : InTurn(m)'
  BY <1>1, <1>4, <1>6, TurnStays
<1>7. ASSUME NEW kind \in Kind, NEW sub \in Sub, Emits(kind, sub)
      PROVE  \E m \in 0..Len(events') : InTurn(m)'
  <2>1. /\ Len(events') = Len(events) + 1
        /\ \A n \in 1..Len(events) : events'[n] = events[n]
    BY <1>7, EmitsAppends
  <2>2. Working' = Working /\ UNCHANGED <<claimed, applied, subscription, standing>>
    BY <1>7 DEF Emits, Working
  <2> QED BY <1>1, <1>6, <2>1, <2>2
<1>8. CASE Pays
  <2>1. Len(status') \in Sub /\ Emits("checkout_completed", Len(status'))
    <3>1. /\ Len(status) \in Nat /\ sessions \in Nat /\ sessions > 0
          /\ sessions + Len(status) <= MaxSub /\ MaxSub \in Nat
      BY <1>8, LenProperties, BillingAssumption DEF Inv, TypeOK, Pays
    <3>2. Len(status') = Len(status) + 1
      BY <1>8, AppendProperties DEF Inv, TypeOK, Pays
    <3>3. Len(status') \in Sub
      BY <3>1, <3>2 DEF Sub
    <3> QED BY <1>8, <3>3 DEF Pays
  <2> QED BY <1>7, <2>1 DEF Kind
<1>9. ASSUME NEW s \in DOMAIN status, SubscriptionChanges(s)
      PROVE  \E m \in 0..Len(events') : InTurn(m)'
  <2>1. PICK kind \in Kind : Emits(kind, s)
    BY <1>9 DEF SubscriptionChanges, Becomes, Kind
  <2>2. s \in Sub
    <3>1. /\ DOMAIN status = 1..Len(status) /\ Len(status) \in Nat /\ sessions \in Nat
          /\ sessions + Len(status) <= MaxSub /\ MaxSub \in Nat
      BY LenProperties, BillingAssumption DEF Inv, TypeOK
    <3> QED BY <3>1 DEF Sub
  <2> QED BY <1>7, <2>1, <2>2
<1>10. CASE OpenCheckout
  <2>1. Working' = Working /\ UNCHANGED <<events, claimed, applied, subscription, standing>>
    BY <1>10 DEF OpenCheckout, Working, ghostVars
  <2> QED BY <1>1, <1>6, <2>1
<1>11. ASSUME NEW n \in Event, Deliver(n) PROVE \E m \in 0..Len(events') : InTurn(m)'
  <2>1. /\ requests' = requests \cup {Delivery(n)}
        /\ UNCHANGED <<events, claimed, applied, subscription, standing>>
    BY <1>11 DEF Deliver, providerVars, ghostVars
  <2>2. Delivery(n).at = "claim"
    BY DEF Delivery
  <2>3. Working' = Working
    BY <2>1, <2>2 DEF Working
  <2> QED BY <1>1, <1>6, <2>1, <2>3
<1>12. ASSUME NEW d \in requests, Dies(d) PROVE \E m \in 0..Len(events') : InTurn(m)'
  <2>1. /\ requests' = requests \ {d} /\ d \notin Working
        /\ UNCHANGED <<events, claimed, applied, subscription, standing>>
    BY <1>2, <1>12 DEF Dies, providerVars
  <2>2. Working' = Working
    BY <2>1, WorkingEnds
  <2> QED BY <1>1, <1>6, <2>1, <2>2
<1>13. CASE Finished \/ UNCHANGED vars
  <2>1. Working' = Working /\ UNCHANGED <<events, claimed, applied, subscription, standing>>
    BY <1>13 DEF Finished, vars, Working, providerVars, ghostVars
  <2> QED BY <1>1, <1>6, <2>1
<1> QED BY <1>5, <1>8, <1>9, <1>10, <1>11, <1>12, <1>13 DEF Next

LEMMA InitiallyInTurn == Init => ProviderOK /\ StandingOK
<1> SUFFICES ASSUME Init PROVE ProviderOK /\ StandingOK
  OBVIOUS
<1>1. /\ status = <<>> /\ events = <<>> /\ claimed = {} /\ Working = {}
      /\ subscription = None /\ standing = StandingOf(None)
      /\ Len(events) = 0 /\ Len(status) = 0 /\ DOMAIN status = {}
  BY EmptySeq DEF Init, Working
<1>2. After(0) = StandingOf(None)
  BY DEF After
<1>3. ProviderOK
  BY <1>1, <1>2 DEF ProviderOK, Truth
<1>4. InTurn(0) /\ 0 \in 0..Len(events)
  <2>1. 1..0 = {} /\ 0 \in 0..0
    OBVIOUS
  <2> QED BY <1>1, <1>2, <2>1 DEF InTurn
<1> QED BY <1>3, <1>4 DEF StandingOK

-----------------------------------------------------------------------------
\* Every row, event and delivery keeps its type, and a delivery only works on
\* an event whose receipt is in the table.
THEOREM TypesHold == Spec => []TypeOK
<1>1. Inv => TypeOK
  BY DEF Inv
<1> QED BY <1>1, Initially, StepKeeps, PTL DEF Spec

\* record-billing-event.ts:2: an event is applied at most once, and one that was
\* claimed is applied, in hand, names nobody, or lost with its own delivery.
THEOREM EventsApplyOnce == Spec => []ClaimedIsApplied
<1>1. Inv => ClaimedIsApplied
  BY DEF Inv
<1> QED BY <1>1, Initially, StepKeeps, PTL DEF Spec

\* webhook.ts with subscription.ts:63: with one live subscription at a time and
\* events that are handled in order and one by one, the workspace has the plan
\* and the payment state that the provider says.
THEOREM StandingFollows == Spec => []StandingIsTheProviders
<1>1. Inv /\ ProviderOK /\ StandingOK => StandingIsTheProviders
  <2> SUFFICES ASSUME Inv, ProviderOK, StandingOK, orderly, Working = {},
                      claimed = 1..Len(events),
                      \A n \in 1..Len(events) : applied[n] = 1
               PROVE  standing = Truth
    BY DEF StandingIsTheProviders
  <2>1. Len(events) \in Nat
    BY LenProperties DEF Inv, TypeOK
  <2>2. PICK k \in 0..Len(events) : InTurn(k)
    BY DEF StandingOK
  <2>3. k = Len(events)
    <3>1. 1..k = 1..Len(events)
      BY <2>2 DEF InTurn
    <3>2. ASSUME k < Len(events) PROVE FALSE
      <4>1. Len(events) \in 1..Len(events) /\ ~(Len(events) \in 1..k)
        BY <2>1, <3>2
      <4> QED BY <3>1, <4>1
    <3> QED BY <2>1, <3>2
  <2>4. standing = After(Len(events))
    BY <2>2, <2>3 DEF InTurn, AllApplied
  <2> QED BY <2>4 DEF ProviderOK
<1>2. Spec => [](Inv /\ ProviderOK /\ StandingOK)
  <2>1. Init => Inv /\ ProviderOK /\ StandingOK
    BY Initially, InitiallyInTurn
  <2>2. Inv /\ ProviderOK /\ StandingOK /\ [Next]_vars => (Inv /\ ProviderOK /\ StandingOK)'
    BY StepKeeps, ProviderKeepsPace, StandingKeepsPace
  <2> QED BY <2>1, <2>2, PTL DEF Spec
<1> QED BY <1>1, <1>2, PTL
=============================================================================
