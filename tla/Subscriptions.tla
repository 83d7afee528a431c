---------------------------- MODULE Subscriptions ----------------------------
(***************************************************************************)
(* Recurring billing of payment-service (subscriptions.service.ts): the    *)
(* rows of subscription_plans and subscriptions, the provider that charges *)
(* on its own schedule, its webhooks, the owner's cancellation and the     *)
(* hourly sweep.                                                           *)
(*                                                                         *)
(* One SQL statement is one step; a handler is one action per awaited      *)
(* statement or call, and what it read stays in its record call[c].  A     *)
(* subscription s stands for one create() request, its row, and what the   *)
(* provider bills under its reference: as in the code, a renewal carries   *)
(* the reference of the first charge.  The subscription code the provider  *)
(* gives to it is s itself, and so is the plan code it gives to the plan   *)
(* this request made; a nullable column is a set with at most one element. *)
(*                                                                         *)
(* The provider bills by the calendar.  A charge may name the next date;   *)
(* where it does not the code counts a number of days for the interval     *)
(* from the day it handles the charge.  Of the period ends that events     *)
(* carry only an expiry's is kept.                                         *)
(***************************************************************************)
EXTENDS Integers, FiniteSets

CONSTANTS
  Subs,       \* create() requests, and the subscriptions they lead to
  Prices,     \* combinations of amount, currency and interval
  PriceOf,    \* what each subscription asks for
  Calls,      \* webhook and cancel requests in flight together
  Periods,    \* days a charge may pay for: by the calendar, one interval is not always as long
  Approximation, \* days the code takes for the interval when a charge names no next date
  Shortfall,  \* by how many days that may fall short: 1 of 31, 2 of 92 or 184, 1 of 366
  Grace,      \* PAST_DUE_GRACE_DAYS
  MaxDay,     \* bound: the days the model looks at
  MaxCharges, \* bound: charges per subscription
  MaxFaults   \* bound: handlers that die, events and answers that get lost, overtaken subscriptions

ASSUME SubscriptionsAssumption ==
  /\ IsFiniteSet(Subs) /\ Subs # {}
  /\ PriceOf \in [Subs -> Prices]
  /\ Periods \subseteq Nat \ {0}
  /\ {Approximation, MaxDay} \subseteq Nat \ {0}
  /\ {Shortfall, Grace, MaxCharges, MaxFaults} \subseteq Nat
  /\ \A d \in Periods : d <= Approximation + Shortfall
  /\ Shortfall <= Grace

VARIABLES
  cachedPlan,  \* subscription_plans: the plan of a price, {} before its row is there
  plans,       \* provider side: requests whose plan was created
  creating,    \* how far each create() request is, and the plan it goes on with
  status,      \* subscriptions.status, "none" before the INSERT
  planCode,    \* subscriptions.plan_code, {} before the INSERT
  code,        \* subscriptions.paystack_subscription_code, {} for NULL
  periodEnd,   \* subscriptions.current_period_end, 0 for NULL
  born,        \* rank in created_at order
  gw,          \* provider side: the subscription
  charges,     \* provider side: successful charges so far
  paidUntil,   \* provider side: the day the last charge pays up to
  declined,    \* provider side: whether it gave up on this period's charge
  sent,        \* provider side: messages sent about a subscription
  hooks,       \* webhook messages the provider still delivers
  call,        \* webhook and cancel requests in flight
  sweep,       \* the hourly sweep
  broker,      \* events handed to subscription.exchange
  day,
  faults,
  overtaken    \* history: subscriptions with a message handled before an older one was

row      == <<status, planCode, code, periodEnd, born>>
create   == <<cachedPlan, plans, creating>>
provider == <<gw, charges, paidUntil, declined, sent>>
history  == <<faults, overtaken>>
vars == <<create, row, provider, hooks, call, sweep, broker, day, history>>

Hook  == [kind : {"charge", "create", "failed", "disable"}, sub : Subs, until : Nat, n : Nat]
Event == [key : {"created", "charged", "cancelled", "expired"}, sub : Subs, until : Nat]

Statuses == {"none", "pending", "active", "payment_failed", "past_due", "cancelled", "expired"}
Ended    == {"cancelled", "expired"}

CreateSteps == {"start", "create_plan", "insert_plan", "checkout", "insert", "done"}
Steps == {"idle", "apply_charge", "announce_charge",
          "cancel_at_provider", "apply_cancel", "announce_cancel"}

\* first: the row was 'pending' when it was read (wasPending).
Call == [pc : Steps, sub : Subs, until : Nat, first : BOOLEAN, hook : SUBSET Hook]
NoCall == [pc |-> "idle", sub |-> CHOOSE s \in Subs : TRUE, until |-> 0,
           first |-> FALSE, hook |-> {}]

At(c, step) == call[c].pc = step
Enter(c, r) == At(c, "idle") /\ call' = [call EXCEPT ![c] = r]
Goto(c, step, until) ==
  call' = [call EXCEPT ![c] = [pc |-> step, sub |-> call[c].sub, until |-> until,
                               first |-> call[c].first, hook |-> call[c].hook]]

\* Messages are sent in the order of their numbers, and arrive in any.
Message(kind, s, until, n) == [kind |-> kind, sub |-> s, until |-> until, n |-> sent[s] + n]
Send(s, ms) ==
  /\ hooks' = hooks \cup ms
  /\ sent' = [sent EXCEPT ![s] = @ + Cardinality(ms)]

\* Bound: faults, and subscriptions whose messages overtook each other.
Faults == faults + Cardinality(overtaken)

\* Nothing older about the subscription is unanswered, nor is this message being handled.
InTurn(h) ==
  /\ \A g \in hooks : g.sub = h.sub => h.n <= g.n
  /\ \A c \in Calls : h \notin call[c].hook

Delivered(h) ==
  /\ h \in hooks
  /\ InTurn(h) \/ Faults < MaxFaults
  /\ overtaken' = IF InTurn(h) THEN overtaken ELSE overtaken \cup {h.sub}

\* A message is delivered again when the provider does not see its answer.
Answer(hs) ==
  \/ hooks' = hooks \ hs /\ UNCHANGED faults
  \/ hs # {} /\ Faults < MaxFaults /\ faults' = faults + 1 /\ UNCHANGED hooks
Return(c) ==
  /\ call' = [call EXCEPT ![c] = NoCall]
  /\ Answer(call[c].hook)

Init ==
  /\ cachedPlan = [p \in Prices |-> {}]
  /\ plans = {}
  /\ creating = [s \in Subs |-> [pc |-> "start", plan |-> {}]]
  /\ status = [s \in Subs |-> "none"]
  /\ planCode = [s \in Subs |-> {}]
  /\ code = [s \in Subs |-> {}]
  /\ periodEnd = [s \in Subs |-> 0]
  /\ born = [s \in Subs |-> 0]
  /\ gw = [s \in Subs |-> "none"]
  /\ charges = [s \in Subs |-> 0]
  /\ paidUntil = [s \in Subs |-> 0]
  /\ declined = [s \in Subs |-> FALSE]
  /\ sent = [s \in Subs |-> 0]
  /\ hooks = {}
  /\ call = [c \in Calls |-> NoCall]
  /\ sweep = [pc |-> "idle", events |-> {}]
  /\ broker = {}
  /\ day = 1
  /\ faults = 0
  /\ overtaken = {}

-----------------------------------------------------------------------------
(* create(): the plan, cached or new; the checkout; the row. *)

Creating(s, step) == creating[s].pc = step
CreateGoto(s, step, plan) == creating' = [creating EXCEPT ![s] = [pc |-> step, plan |-> plan]]

LookUpPlan(s) ==
  LET cached == cachedPlan[PriceOf[s]] IN
  /\ Creating(s, "start")
  /\ CreateGoto(s, IF cached = {} THEN "create_plan" ELSE "checkout", cached)
  /\ UNCHANGED <<cachedPlan, plans, row, provider, hooks, call, sweep, broker, day, history>>

CreatePlan(s) ==
  /\ Creating(s, "create_plan")
  /\ plans' = plans \cup {s}
  /\ CreateGoto(s, "insert_plan", {s})
  /\ UNCHANGED <<cachedPlan, row, provider, hooks, call, sweep, broker, day, history>>

\* INSERT ... ON CONFLICT ... RETURNING plan_code
CachePlan(s) ==
  LET p == PriceOf[s] IN
  /\ Creating(s, "insert_plan")
  /\ cachedPlan' = [cachedPlan EXCEPT ![p] = IF @ = {} THEN creating[s].plan ELSE @]
  /\ CreateGoto(s, "checkout", cachedPlan'[p])
  /\ UNCHANGED <<plans, row, provider, hooks, call, sweep, broker, day, history>>

OpenCheckout(s) ==
  /\ Creating(s, "checkout")
  /\ gw' = [gw EXCEPT ![s] = "open"]
  /\ CreateGoto(s, "insert", creating[s].plan)
  /\ UNCHANGED <<cachedPlan, plans, row, charges, paidUntil, declined, sent, hooks,
                 call, sweep, broker, day, history>>

InsertRow(s) ==
  /\ Creating(s, "insert")
  /\ status' = [status EXCEPT ![s] = "pending"]
  /\ planCode' = [planCode EXCEPT ![s] = creating[s].plan]
  /\ born' = [born EXCEPT ![s] = 1 + Cardinality({t \in Subs : status[t] # "none"})]
  /\ CreateGoto(s, "done", creating[s].plan)
  /\ UNCHANGED <<cachedPlan, plans, code, periodEnd, provider, hooks, call, sweep,
                 broker, day, history>>

Create(s) == LookUpPlan(s) \/ CreatePlan(s) \/ CachePlan(s) \/ OpenCheckout(s) \/ InsertRow(s)

-----------------------------------------------------------------------------
(* The provider.  It charges the first time when the customer checks out   *)
(* (the link is in the answer to create(), so the row is there), then at   *)
(* the end of each period; it may decline, try again later, or be told to  *)
(* stop on its own dashboard.                                              *)

Charge(s, alsoSent) ==
  /\ charges[s] < MaxCharges
  /\ gw' = [gw EXCEPT ![s] = "live"]
  /\ charges' = [charges EXCEPT ![s] = @ + 1]
  /\ declined' = [declined EXCEPT ![s] = FALSE]
  /\ \E d \in Periods :
       /\ day + d <= MaxDay
       /\ paidUntil' = [paidUntil EXCEPT ![s] = day + d]
       /\ \E explicit \in {0, day + d} :
            Send(s, {Message("charge", s, explicit, 1)} \cup alsoSent)
  /\ UNCHANGED <<create, row, call, sweep, broker, day, history>>

FirstCharge(s) ==
  /\ status[s] # "none" /\ gw[s] = "open"
  /\ Charge(s, {Message("create", s, 0, 2)})

Renew(s) == gw[s] = "live" /\ day >= paidUntil[s] /\ Charge(s, {})

DeclineRenewal(s) ==
  /\ gw[s] = "live" /\ day >= paidUntil[s] /\ ~declined[s]
  /\ declined' = [declined EXCEPT ![s] = TRUE]
  /\ Send(s, {Message("failed", s, 0, 1)})
  /\ UNCHANGED <<create, row, gw, charges, paidUntil, call, sweep, broker, day, history>>

Disable(s) ==
  /\ gw[s] = "live"
  /\ gw' = [gw EXCEPT ![s] = "disabled"]
  /\ Send(s, {Message("disable", s, 0, 1)})
  /\ UNCHANGED <<charges, paidUntil, declined>>

DisableOnDashboard(s) ==
  Disable(s) /\ UNCHANGED <<create, row, call, sweep, broker, day, history>>

\* A charge's handler does not take a day.
Tick ==
  /\ day < MaxDay
  /\ \A c \in Calls : ~At(c, "apply_charge") /\ ~At(c, "announce_charge")
  /\ day' = day + 1
  /\ UNCHANGED <<create, row, provider, hooks, call, sweep, broker, history>>

-----------------------------------------------------------------------------
(* The webhook events. *)

\* computeNextPeriodEnd(): the date the charge names, else so many days from now.
NextPeriodEnd(h) == IF h.until = 0 THEN day + Approximation ELSE h.until

\* handleChargeSuccess() finds the row by the reference and remembers whether it
\* is 'pending' ...
ChargeWebhook(c, h) ==
  /\ Delivered(h) /\ h.kind = "charge"
  /\ Enter(c, [pc |-> "apply_charge", sub |-> h.sub, until |-> NextPeriodEnd(h),
               first |-> status[h.sub] = "pending", hook |-> {h}])
  /\ UNCHANGED <<create, row, provider, hooks, sweep, broker, day, faults>>

\* Mutated: a charge revives only a row that has not ended.
ApplyCharge_UnlessEnded(c) ==
  LET s == call[c].sub IN
  /\ At(c, "apply_charge")
  /\ status' = [status EXCEPT ![s] = IF @ \in Ended THEN @ ELSE "active"]
  /\ periodEnd' = [periodEnd EXCEPT ![s] = call[c].until]
  /\ Goto(c, "announce_charge", call[c].until)
  /\ UNCHANGED <<create, planCode, code, born, provider, hooks, sweep, broker, day, history>>

\* ... then sets 'active' and the period whatever the row has become ...
ApplyCharge(c) ==
  LET s == call[c].sub IN
  /\ At(c, "apply_charge")
  /\ status' = [status EXCEPT ![s] = "active"]
  /\ periodEnd' = [periodEnd EXCEPT ![s] = call[c].until]
  /\ Goto(c, "announce_charge", call[c].until)
  /\ UNCHANGED <<create, planCode, code, born, provider, hooks, sweep, broker, day, history>>

ChargeEvent(c) ==
  [key |-> IF call[c].first THEN "created" ELSE "charged",
   sub |-> call[c].sub, until |-> 0]

\* ... and publishes which of the two it was.
AnnounceCharge(c) ==
  /\ At(c, "announce_charge")
  /\ broker' = broker \cup {ChargeEvent(c)}
  /\ Return(c)
  /\ UNCHANGED <<create, row, provider, sweep, day, overtaken>>

\* Rows that subscription.create may belong to: same plan, no code yet; the
\* newest is taken.
Uncoded(plan) == {s \in Subs : status[s] # "none" /\ planCode[s] = plan /\ code[s] = {}}
Newest(rows) == {s \in rows : \A t \in rows : born[t] <= born[s]}

CreateWebhook(h) ==
  LET found == Newest(Uncoded(planCode[h.sub])) IN
  /\ Delivered(h) /\ h.kind = "create"
  /\ code' = [s \in Subs |-> IF s \in found THEN {h.sub} ELSE code[s]]
  /\ status' = [s \in Subs |-> IF s \in found THEN "active" ELSE status[s]]
  /\ Answer({h})
  /\ UNCHANGED <<create, planCode, periodEnd, born, provider, call, sweep, broker, day>>

FailedWebhook(h) ==
  /\ Delivered(h) /\ h.kind = "failed"
  /\ status' = [s \in Subs |-> IF h.sub \in code[s] /\ status[s] = "active"
                                 THEN "payment_failed" ELSE status[s]]
  /\ Answer({h})
  /\ UNCHANGED <<create, planCode, code, periodEnd, born, provider, call, sweep, broker,
                 day>>

\* Every row with the code is cancelled, the first one returned is announced.
DisableWebhook(c, h) ==
  LET hit == {s \in Subs : h.sub \in code[s] /\ status[s] \notin Ended} IN
  /\ Delivered(h) /\ h.kind = "disable"
  /\ status' = [s \in Subs |-> IF s \in hit THEN "cancelled" ELSE status[s]]
  /\ \/ /\ hit = {}
        /\ Answer({h})
        /\ UNCHANGED call
     \/ /\ \E s \in hit :
             Enter(c, [pc |-> "announce_cancel", sub |-> s, until |-> 0,
                       first |-> FALSE, hook |-> {h}])
        /\ UNCHANGED <<hooks, faults>>
  /\ UNCHANGED <<create, planCode, code, periodEnd, born, provider, sweep, broker, day>>

-----------------------------------------------------------------------------
(* cancel(), by the owner. *)

\* Mutated: the row is cancelled and the provider is not told.
Cancel_LocalOnly(c, s) ==
  /\ status[s] \notin Ended \cup {"none"}
  /\ code[s] # {}
  /\ Enter(c, [pc |-> "apply_cancel", sub |-> s, until |-> 0, first |-> FALSE, hook |-> {}])
  /\ UNCHANGED <<create, row, provider, hooks, sweep, broker, day, history>>

Cancel(c, s) ==
  /\ status[s] \notin Ended \cup {"none"}
  /\ code[s] # {}
  /\ Enter(c, [pc |-> "cancel_at_provider", sub |-> s, until |-> 0, first |-> FALSE, hook |-> {}])
  /\ UNCHANGED <<create, row, provider, hooks, sweep, broker, day, history>>

\* The provider refuses a subscription it has already disabled: the request fails.
CancelAtProvider(c) ==
  /\ At(c, "cancel_at_provider")
  /\ \E x \in code[call[c].sub] :
       \/ Disable(x) /\ Goto(c, "apply_cancel", 0) /\ UNCHANGED faults
       \/ gw[x] # "live" /\ Return(c) /\ UNCHANGED provider
  /\ UNCHANGED <<create, row, sweep, broker, day, overtaken>>

ApplyCancel(c) ==
  LET s == call[c].sub IN
  /\ At(c, "apply_cancel")
  /\ status' = [status EXCEPT ![s] = "cancelled"]
  /\ Goto(c, "announce_cancel", 0)
  /\ UNCHANGED <<create, planCode, code, periodEnd, born, provider, hooks, sweep, broker,
                 day, history>>

AnnounceCancel(c) ==
  /\ At(c, "announce_cancel")
  /\ broker' = broker \cup {[key |-> "cancelled", sub |-> call[c].sub, until |-> 0]}
  /\ Return(c)
  /\ UNCHANGED <<create, row, provider, sweep, day, overtaken>>

-----------------------------------------------------------------------------
(* sweepFailedSubscriptions(), every hour: two UPDATEs, then the events. *)

\* A sweep with nothing to look at changes nothing and is left out.
SweepPastDue ==
  /\ sweep.pc = "idle"
  /\ \E s \in Subs : status[s] \in {"payment_failed", "past_due"}
  /\ status' = [s \in Subs |->
       IF status[s] = "payment_failed" /\ periodEnd[s] # 0 /\ periodEnd[s] < day
         THEN "past_due" ELSE status[s]]
  /\ sweep' = [pc |-> "expire", events |-> {}]
  /\ UNCHANGED <<create, planCode, code, periodEnd, born, provider, hooks, call, broker,
                 day, history>>

\* Mutated: expires as soon as the period is over.
Expirable_NoGrace(s) == status[s] = "past_due" /\ periodEnd[s] # 0 /\ periodEnd[s] < day

\* Mutated: looks for rows that the first UPDATE has just moved on.
Expirable_Failed(s) ==
  status[s] = "payment_failed" /\ periodEnd[s] # 0 /\ periodEnd[s] < day - Grace

Expirable(s) == status[s] = "past_due" /\ periodEnd[s] # 0 /\ periodEnd[s] < day - Grace

\* The events carry the rows as this UPDATE returned them.
SweepExpire ==
  LET rows == {s \in Subs : Expirable(s)} IN
  /\ sweep.pc = "expire"
  /\ status' = [s \in Subs |-> IF s \in rows THEN "expired" ELSE status[s]]
  /\ sweep' = [pc |-> IF rows = {} THEN "idle" ELSE "announce",
               events |-> {[key |-> "expired", sub |-> s, until |-> periodEnd[s]] : s \in rows}]
  /\ UNCHANGED <<create, planCode, code, periodEnd, born, provider, hooks, call, broker,
                 day, history>>

SweepAnnounce ==
  /\ sweep.pc = "announce"
  /\ broker' = broker \cup sweep.events
  /\ sweep' = [pc |-> "idle", events |-> {}]
  /\ UNCHANGED <<create, row, provider, hooks, call, day, history>>

Sweep == SweepPastDue \/ SweepExpire \/ SweepAnnounce

-----------------------------------------------------------------------------
(* Faults: a handler dies at an await, or its event is swallowed. *)

HandlerDies(c) ==
  /\ Faults < MaxFaults
  /\ ~At(c, "idle")
  /\ faults' = faults + 1
  /\ call' = [call EXCEPT ![c] = NoCall]
  /\ UNCHANGED <<create, row, provider, hooks, sweep, broker, day, overtaken>>

PublishLost(c) ==
  /\ Faults < MaxFaults
  /\ At(c, "announce_charge") \/ At(c, "announce_cancel")
  /\ faults' = faults + 1
  /\ call' = [call EXCEPT ![c] = NoCall]
  /\ hooks' = hooks \ call[c].hook
  /\ UNCHANGED <<create, row, provider, sweep, broker, day, overtaken>>

SweepDies ==
  /\ Faults < MaxFaults
  /\ sweep.pc # "idle"
  /\ faults' = faults + 1
  /\ sweep' = [pc |-> "idle", events |-> {}]
  /\ UNCHANGED <<create, row, provider, hooks, call, broker, day, overtaken>>

\* The next step of a request that is already in flight.
Proceed(c) ==
  \/ ApplyCharge(c) \/ AnnounceCharge(c)
  \/ CancelAtProvider(c) \/ ApplyCancel(c) \/ AnnounceCancel(c)

Deliver(h) ==
  \/ CreateWebhook(h) \/ FailedWebhook(h)
  \/ \E c \in Calls : ChargeWebhook(c, h) \/ DisableWebhook(c, h)

Next ==
  \/ \E s \in Subs : \/ Create(s)
                     \/ FirstCharge(s) \/ Renew(s) \/ DeclineRenewal(s) \/ DisableOnDashboard(s)
  \/ \E h \in hooks : Deliver(h)
  \/ \E c \in Calls : \/ Proceed(c) \/ HandlerDies(c) \/ PublishLost(c)
                      \/ \E s \in Subs : Cancel(c, s)
  \/ Sweep \/ SweepDies
  \/ Tick

Spec == Init /\ [][Next]_vars

\* Requests go on, the sweep runs and days pass: messages need not arrive at all.
FairSpec ==
  /\ Spec
  /\ \A c \in Calls : WF_vars(Proceed(c))
  /\ WF_vars(Sweep)
  /\ WF_vars(Tick)

-----------------------------------------------------------------------------
(* Properties *)

\* Rows, messages and requests keep their shape.
TypeOK ==
  /\ cachedPlan \in [Prices -> SUBSET Subs]
  /\ plans \subseteq Subs
  /\ creating \in [Subs -> [pc : CreateSteps, plan : SUBSET Subs]]
  /\ status \in [Subs -> Statuses]
  /\ planCode \in [Subs -> SUBSET Subs]
  /\ code \in [Subs -> SUBSET Subs]
  /\ periodEnd \in [Subs -> Nat]
  /\ born \in [Subs -> Nat]
  /\ gw \in [Subs -> {"none", "open", "live", "disabled"}]
  /\ charges \in [Subs -> Nat]
  /\ paidUntil \in [Subs -> Nat]
  /\ declined \in [Subs -> BOOLEAN]
  /\ sent \in [Subs -> Nat]
  /\ hooks \subseteq Hook
  /\ call \in [Calls -> Call]
  /\ sweep \in [pc : {"idle", "expire", "announce"}, events : SUBSET Event]
  /\ broker \subseteq Event
  /\ day \in 1..MaxDay
  /\ faults \in Nat
  /\ overtaken \subseteq Subs

\* Nothing about s is on its way.
Quiet(s) ==
  /\ \A h \in hooks : h.sub # s
  /\ \A c \in Calls : ~At(c, "idle") => call[c].sub # s
  /\ sweep.pc = "idle"

\* A row has the code of another subscription of its price, or lost its own to that one's.
Mixed(s) == \E t \in Subs \ {s} : s \in code[t] \/ t \in code[s]

\* Once nothing is on its way, the row says what the provider does: disabled there
\* means over here, what is paid for is active (also after it had expired), and a
\* declined renewal does not stay active.  Handlers that died do not matter: the
\* provider repeats its messages.  Excepted are subscriptions whose own messages overtook
\* each other, and those that subscription.create took for one another.
AgreesWhenQuiet ==
  \A s \in Subs : Quiet(s) /\ s \notin overtaken /\ ~Mixed(s) =>
    /\ gw[s] = "disabled" => status[s] \in Ended
    /\ gw[s] = "live" /\ paidUntil[s] > day => status[s] = "active"
    /\ gw[s] = "live" /\ declined[s] => status[s] # "active"

\* No paid day is cut off.  The approximated period on the row may end before the paid
\* one, but by no more than the days the interval was taken too short, and these the
\* grace of the sweep makes up for: a row expires after the last day that was paid for.
\* Excepted are subscriptions whose own messages overtook each other.
NeverCutShort ==
  \A s \in Subs : Quiet(s) /\ s \notin overtaken =>
    /\ periodEnd[s] + Shortfall >= paidUntil[s]
    /\ status[s] = "expired" => paidUntil[s] < day

\* A row gets the code of its own subscription, so that its owner cancels that one: what
\* subscriptions.service.ts:266-267 says of the match by "this exact plan+customer combo".
CodeIsOwn == \A s \in Subs : code[s] \subseteq {s}

\* A row gets a code of its own price, of a subscription that was paid for: its owner can
\* cancel another's, but none of another price.
CodesFitThePrice ==
  \A s \in Subs : \A t \in code[s] : PriceOf[t] = PriceOf[s] /\ gw[t] \in {"live", "disabled"}

\* Rows of one price go on one plan, whoever won the race to cache it.
PlansAgree ==
  \A s \in Subs : status[s] # "none" => planCode[s] = cachedPlan[PriceOf[s]]

\* Every event has its cause at the provider, in whatever order messages arrive: a charge,
\* a subscription that is disabled (of the same price at least: it may be another's), a
\* paid period that is over.
EventsHaveCause ==
  \A e \in broker :
    /\ e.key \in {"created", "charged"} => charges[e.sub] > 0
    /\ e.key = "cancelled" =>
         \E t \in Subs : PriceOf[t] = PriceOf[e.sub] /\ gw[t] = "disabled"
    /\ e.key = "expired" => charges[e.sub] > 0 /\ e.until + Grace < day

\* A subscription whose renewal failed does not stay in between: it is paid in the
\* end, or cancelled, or it expires.  (MaxDay is the end of the model's time.)
FailedEventuallyEnds ==
  \A s \in Subs :
    status[s] = "payment_failed" /\ periodEnd[s] + Grace < MaxDay
      ~> status[s] \notin {"payment_failed", "past_due"}
=============================================================================
