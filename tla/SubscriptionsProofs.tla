------------------------- MODULE SubscriptionsProofs -------------------------
(***************************************************************************)
(* Proofs about Subscriptions: for any number of subscriptions, prices     *)
(* and requests, with messages repeated, lost and in any order, rows of    *)
(* one price share a plan, a row only ever gets the code of a subscription *)
(* of its price, and what is announced was caused.  A subscription whose   *)
(* own messages did not overtake each other keeps its paid days, and when  *)
(* it was not taken for another its row says in the end what the provider  *)
(* does.                                                                   *)
(***************************************************************************)
EXTENDS Subscriptions, FiniteSetTheorems, WellFoundedInduction, TLAPS

\* How far each create() request is, and which plan it goes on with.
PlanSteps ==
  /\ \A p \in Prices : \A t \in cachedPlan[p] : PriceOf[t] = p
  /\ \A s \in Subs : creating[s].pc = "insert_plan" => creating[s].plan = {s}
  /\ \A s \in Subs : creating[s].pc \in {"checkout", "insert", "done"} =>
       creating[s].plan # {} /\ creating[s].plan = cachedPlan[PriceOf[s]]
  /\ \A s \in Subs : status[s] # "none" <=> creating[s].pc = "done"
  /\ \A s \in Subs : status[s] # "none" => planCode[s] = creating[s].plan

\* A subscription that is billed stays billed, now or disabled.
Billed(s) == gw[s] \in {"live", "disabled"}

\* What the provider bills, what it sends, what requests are about: all have a row.
RowsAreThere ==
  /\ \A h \in hooks : Billed(h.sub)
  /\ \A s \in Subs : Billed(s) => status[s] # "none"
  /\ \A s \in Subs : code[s] # {} => status[s] # "none"
  /\ \A c \in Calls : call[c].pc # "idle" => status[call[c].sub] # "none"

\* Ranks in created_at order are bounded.
RanksBounded == \A s \in Subs : born[s] <= 1 + Cardinality(Subs)

\* The inductive invariant.
IInv ==
  /\ TypeOK
  /\ PlanSteps
  /\ RowsAreThere
  /\ RanksBounded
  /\ CodesFitThePrice

-----------------------------------------------------------------------------
(* Types *)

LEMMA DayTypes ==
  ASSUME TypeOK
  PROVE  /\ day \in Nat /\ Approximation \in Nat /\ day + Approximation \in Nat
         /\ \A d \in Periods : d \in Nat /\ day + d \in Nat
  <1>1. day \in Nat /\ Approximation \in Nat /\ \A d \in Periods : d \in Nat
    BY SubscriptionsAssumption DEF TypeOK
  <1>2. QED
    BY <1>1

LEMMA NoCallType == NoCall \in Call
  <1>1. (CHOOSE s \in Subs : TRUE) \in Subs
    BY SubscriptionsAssumption
  <1>2. QED
    BY <1>1 DEF NoCall, Call, Steps

\* A request that moves on keeps its subscription and its messages.
LEMMA GotoType ==
  ASSUME TypeOK, NEW c \in Calls, NEW step \in Steps, NEW until \in Nat, Goto(c, step, until)
  PROVE  call' \in [Calls -> Call]
  <1>1. call[c] \in Call
    BY DEF TypeOK
  <1>2. [pc |-> step, sub |-> call[c].sub, until |-> until, first |-> call[c].first,
         hook |-> call[c].hook] \in Call
    BY <1>1 DEF Call
  <1>3. QED
    BY <1>2 DEF Goto, TypeOK

LEMMA EnterType ==
  ASSUME TypeOK, NEW c \in Calls, NEW r \in Call, Enter(c, r)
  PROVE  call' \in [Calls -> Call]
  BY DEF Enter, TypeOK

LEMMA AnswerType ==
  ASSUME TypeOK, NEW hs, Answer(hs)
  PROVE  hooks' \subseteq hooks /\ faults' \in Nat
  BY DEF Answer, TypeOK

LEMMA ReturnType ==
  ASSUME TypeOK, NEW c \in Calls, Return(c)
  PROVE  call' \in [Calls -> Call] /\ hooks' \subseteq hooks /\ faults' \in Nat
  BY NoCallType, AnswerType DEF Return, TypeOK

LEMMA MessageType ==
  ASSUME TypeOK, NEW kind \in {"charge", "create", "failed", "disable"}, NEW s \in Subs,
         NEW until \in Nat, NEW n \in Nat
  PROVE  /\ Message(kind, s, until, n) \in Hook
         /\ Message(kind, s, until, n).kind = kind
         /\ Message(kind, s, until, n).sub = s
  <1>1. sent[s] + n \in Nat
    BY DEF TypeOK
  <1>2. QED
    BY <1>1 DEF Message, Hook

LEMMA SendType ==
  ASSUME TypeOK, NEW s \in Subs, NEW ms \in SUBSET Hook, IsFiniteSet(ms), Send(s, ms)
  PROVE  hooks' \subseteq Hook /\ sent' \in [Subs -> Nat]
  <1>1. Cardinality(ms) \in Nat
    BY FS_CardinalityType
  <1>2. QED
    BY <1>1 DEF Send, TypeOK

\* A message that is handled first leaves its subscription as it is; any other, excepted.
LEMMA DeliveredType ==
  ASSUME TypeOK, NEW h \in hooks, Delivered(h)
  PROVE  overtaken \subseteq overtaken' /\ overtaken' \subseteq Subs
  <1>1. h.sub \in Subs
    BY DEF TypeOK, Hook
  <1>2. QED
    BY <1>1 DEF Delivered, TypeOK

-----------------------------------------------------------------------------
(* Steps that leave plans and codes alone, and rows where they are. *)

LEMMA Frame ==
  ASSUME IInv, TypeOK', UNCHANGED <<cachedPlan, creating, planCode, code, born>>,
         \A s \in Subs : status'[s] # "none" <=> status[s] # "none",
         \A s \in Subs : Billed(s) => Billed(s)',
         \A s \in Subs : Billed(s)' => status[s] # "none",
         \A h \in hooks' : h \in hooks \/ Billed(h.sub)',
         \A c \in Calls : call'[c].pc # "idle" => status[call'[c].sub] # "none"
  PROVE  IInv'
  <1>1. PlanSteps'
    BY DEF IInv, PlanSteps
  <1>2. RowsAreThere'
    <2>1. /\ \A h \in hooks' : h.sub \in Subs
          /\ \A c \in Calls : call'[c].sub \in Subs
      BY DEF TypeOK, Hook, Call
    <2>2. QED
      BY <2>1 DEF IInv, RowsAreThere
  <1>3. RanksBounded' /\ CodesFitThePrice'
    BY DEF IInv, TypeOK, RanksBounded, CodesFitThePrice, Billed
  <1>4. QED
    BY <1>1, <1>2, <1>3 DEF IInv

\* What a request that moves on, or returns, still owes.
LEMMA GotoRows ==
  ASSUME IInv, NEW c \in Calls, call[c].pc # "idle", NEW step, NEW until, Goto(c, step, until)
  PROVE  /\ status[call[c].sub] # "none"
         /\ \A d \in Calls : call'[d].pc # "idle" => status[call'[d].sub] # "none"
  BY DEF Goto, IInv, TypeOK, RowsAreThere

LEMMA ReturnRows ==
  ASSUME IInv, NEW c \in Calls, call' = [call EXCEPT ![c] = NoCall]
  PROVE  \A d \in Calls : call'[d].pc # "idle" => status[call'[d].sub] # "none"
  BY DEF NoCall, IInv, TypeOK, RowsAreThere

\* Steps that leave the provider's side alone.
LEMMA FrameQuiet ==
  ASSUME IInv, TypeOK', UNCHANGED <<cachedPlan, creating, planCode, code, born, gw>>,
         \A s \in Subs : status'[s] # "none" <=> status[s] # "none",
         hooks' \subseteq hooks,
         \A c \in Calls : call'[c].pc # "idle" => status[call'[c].sub] # "none"
  PROVE  IInv'
  <1>1. /\ \A s \in Subs : Billed(s) => Billed(s)'
        /\ \A s \in Subs : Billed(s)' => status[s] # "none"
    BY DEF IInv, RowsAreThere, Billed
  <1>2. \A h \in hooks' : h \in hooks \/ Billed(h.sub)'
    OBVIOUS
  <1>3. UNCHANGED <<cachedPlan, creating, planCode, code, born>>
    OBVIOUS
  <1>4. QED
    BY <1>1, <1>2, <1>3, Frame

\* The provider's own steps.
LEMMA ChargeStep ==
  ASSUME IInv, NEW s \in Subs, FirstCharge(s) \/ Renew(s)
  PROVE  IInv'
  <1>t. TypeOK
    BY DEF IInv
  <1>1. PICK also \in SUBSET Hook :
          /\ Charge(s, also) /\ IsFiniteSet(also)
          /\ \A h \in also : h.sub = s
    <2>1. CASE FirstCharge(s)
      <3> DEFINE m == Message("create", s, 0, 2)
      <3>1. m \in Hook /\ m.sub = s
        BY <1>t, DayTypes, MessageType
      <3>2. IsFiniteSet({m})
        BY FS_Singleton
      <3>3. QED
        BY <2>1, <3>1, <3>2 DEF FirstCharge
    <2>2. CASE Renew(s)
      BY <2>2, FS_EmptySet DEF Renew
    <2>3. QED
      BY <2>1, <2>2
  <1>2. PICK d \in Periods :
          /\ paidUntil' = [paidUntil EXCEPT ![s] = day + d]
          /\ \E explicit \in {0, day + d} : Send(s, {Message("charge", s, explicit, 1)} \cup also)
    BY <1>1 DEF Charge
  <1>d. day + d \in Nat
    BY <1>t, DayTypes
  <1>e. PICK explicit \in {0, day + d} : Send(s, {Message("charge", s, explicit, 1)} \cup also)
    BY <1>2
  <1> DEFINE m == Message("charge", s, explicit, 1)
             ms == {m} \cup also
  <1>3. m \in Hook /\ m.sub = s
    <2>1. explicit \in Nat /\ 1 \in Nat
      BY <1>d, <1>e
    <2>2. QED
      BY <1>t, <2>1, MessageType
  <1>4. IsFiniteSet(ms)
    <2>1. IsFiniteSet({m})
      BY FS_Singleton
    <2>2. QED
      BY <1>1, <2>1, FS_Union
  <1>5. hooks' \subseteq Hook /\ sent' \in [Subs -> Nat] /\ hooks' = hooks \cup ms
    <2>1. ms \in SUBSET Hook
      BY <1>1, <1>3
    <2>2. QED
      BY <1>t, <1>e, <1>4, <2>1, SendType DEF Send
  <1>6. TypeOK'
    <2>1. /\ gw' \in [Subs -> {"none", "open", "live", "disabled"}]
          /\ charges' \in [Subs -> Nat]
          /\ paidUntil' \in [Subs -> Nat]
          /\ declined' \in [Subs -> BOOLEAN]
      BY <1>t, <1>1, <1>2, <1>d DEF Charge, TypeOK
    <2>2. UNCHANGED <<create, row, call, sweep, broker, day, history>>
      BY <1>1 DEF Charge
    <2>3. QED
      BY <1>t, <1>5, <2>1, <2>2 DEF TypeOK, create, row, history
  <1>7. UNCHANGED <<cachedPlan, creating, planCode, code, born, status>>
    BY <1>1 DEF Charge, create, row
  <1>8. status[s] # "none"
    BY DEF FirstCharge, Renew, IInv, RowsAreThere, Billed
  <1>b. /\ gw'[s] = "live" /\ \A x \in Subs : x # s => gw'[x] = gw[x]
        /\ UNCHANGED call
    BY <1>t, <1>1 DEF Charge, TypeOK
  <1>9. /\ \A h \in hooks' : h \in hooks \/ Billed(h.sub)'
        /\ \A x \in Subs : /\ Billed(x)' => status[x] # "none"
                           /\ Billed(x) => Billed(x)'
        /\ \A c \in Calls : call'[c].pc # "idle" => status[call'[c].sub] # "none"
    <2>1. \A h \in hooks' : h \in hooks \/ h.sub = s
      BY <1>1, <1>3, <1>5
    <2>2. QED
      BY <1>8, <1>b, <2>1 DEF Billed, IInv, RowsAreThere
  <1>10. QED
    BY <1>6, <1>7, <1>9, Frame

\* A message about a subscription that is not its creation.
LEMMA NoticeStep ==
  ASSUME IInv, NEW s \in Subs, DeclineRenewal(s) \/ DisableOnDashboard(s)
  PROVE  IInv'
  <1>t. TypeOK
    BY DEF IInv
  <1>1. PICK kind \in {"failed", "disable"} : Send(s, {Message(kind, s, 0, 1)})
    BY DEF DeclineRenewal, DisableOnDashboard, Disable
  <1> DEFINE m == Message(kind, s, 0, 1)
  <1>2. m \in Hook /\ m.sub = s
    BY <1>t, DayTypes, MessageType
  <1>3. hooks' \subseteq Hook /\ sent' \in [Subs -> Nat] /\ hooks' = hooks \cup {m}
    <2>1. IsFiniteSet({m}) /\ {m} \in SUBSET Hook
      BY <1>2, FS_Singleton
    <2>2. QED
      BY <1>t, <1>1, <2>1, SendType DEF Send
  <1>4. /\ gw' \in [Subs -> {"none", "open", "live", "disabled"}]
        /\ declined' \in [Subs -> BOOLEAN]
        /\ UNCHANGED <<charges, paidUntil>>
    BY <1>t DEF DeclineRenewal, DisableOnDashboard, Disable, TypeOK
  <1>5. UNCHANGED <<cachedPlan, plans, creating, status, planCode, code, periodEnd, born, call,
                    sweep, broker, day, faults, overtaken>>
    BY DEF DeclineRenewal, DisableOnDashboard, create, row, history
  <1>6. TypeOK'
    BY <1>t, <1>3, <1>4, <1>5 DEF TypeOK
  <1>7. status[s] # "none"
    BY DEF DeclineRenewal, DisableOnDashboard, Disable, IInv, RowsAreThere, Billed
  <1>b. Billed(s)' /\ \A x \in Subs : Billed(x) <=> Billed(x)'
    BY <1>t DEF DeclineRenewal, DisableOnDashboard, Disable, TypeOK, Billed
  <1>8. /\ \A h \in hooks' : h \in hooks \/ Billed(h.sub)'
        /\ \A x \in Subs : /\ Billed(x)' => status[x] # "none"
                           /\ Billed(x) => Billed(x)'
        /\ \A c \in Calls : call'[c].pc # "idle" => status[call'[c].sub] # "none"
    BY <1>2, <1>3, <1>5, <1>b DEF IInv, RowsAreThere
  <1>9. QED
    BY <1>3, <1>5, <1>6, <1>8, Frame

\* Webhooks, requests, the sweep and faults only change rows that are there.
LEMMA ChargeWebhookStep ==
  ASSUME IInv, NEW c \in Calls, NEW h \in hooks, ChargeWebhook(c, h)
  PROVE  IInv'
  <1>t. TypeOK
    BY DEF IInv
  <1> DEFINE pending == status[h.sub] = "pending"
             until == NextPeriodEnd(h)
             r == [pc |-> "apply_charge", sub |-> h.sub, until |-> until,
                   first |-> pending, hook |-> {h}]
  <1>1. pending \in BOOLEAN
    BY Zenon
  <1>2. h \in Hook /\ h.sub \in Subs /\ until \in Nat
    BY <1>t, DayTypes DEF TypeOK, Hook, NextPeriodEnd
  <1> HIDE DEF pending, until
  <1>3. r \in Call /\ r.sub = h.sub
    BY <1>1, <1>2 DEF Call, Steps
  <1>4. Enter(c, r)
    BY DEF ChargeWebhook, pending, until
  <1> HIDE DEF r
  <1>5. call' \in [Calls -> Call]
    BY <1>t, <1>3, <1>4, EnterType
  <1>6. UNCHANGED <<cachedPlan, plans, creating, status, planCode, code, periodEnd, born, gw,
                    charges, paidUntil, declined, sent, hooks, sweep, broker, day, faults>>
    BY DEF ChargeWebhook, create, row, provider
  <1>o. overtaken' \subseteq Subs
    BY <1>t, DeliveredType DEF ChargeWebhook
  <1>7. TypeOK'
    BY <1>t, <1>5, <1>6, <1>o DEF TypeOK
  <1>8. \A d \in Calls : call'[d] = IF d = c THEN r ELSE call[d]
    BY <1>t, <1>4 DEF Enter, TypeOK
  <1>9. \A d \in Calls : call'[d].pc # "idle" => status[call'[d].sub] # "none"
    BY <1>2, <1>3, <1>8 DEF IInv, RowsAreThere
  <1>10. QED
    BY <1>6, <1>7, <1>9, FrameQuiet

LEMMA ApplyStep ==
  ASSUME IInv, NEW c \in Calls, ApplyCharge(c) \/ ApplyCancel(c)
  PROVE  IInv'
  <1>t. TypeOK
    BY DEF IInv
  <1>1. call[c] \in Call /\ call[c].sub \in Subs /\ call[c].until \in Nat
    BY <1>t DEF TypeOK, Call
  <1>g. /\ status[call[c].sub] # "none"
        /\ \A d \in Calls : call'[d].pc # "idle" => status[call'[d].sub] # "none"
    BY GotoRows DEF ApplyCharge, ApplyCancel, At
  <1>2. /\ status' \in [Subs -> Statuses]
        /\ periodEnd' \in [Subs -> Nat]
        /\ \A s \in Subs : status'[s] # "none" <=> status[s] # "none"
    <2>1. PICK new \in {"active", "cancelled"} :
            status' = [status EXCEPT ![call[c].sub] = new]
      BY DEF ApplyCharge, ApplyCancel
    <2>2. periodEnd' \in [Subs -> Nat]
      BY <1>t, <1>1 DEF ApplyCharge, ApplyCancel, TypeOK
    <2>3. QED
      BY <1>t, <1>1, <1>g, <2>1, <2>2 DEF TypeOK, Statuses
  <1>3. call' \in [Calls -> Call]
    <2>1. "announce_charge" \in Steps /\ "announce_cancel" \in Steps
      BY DEF Steps
    <2>2. CASE ApplyCharge(c)
      BY <1>t, <1>1, <2>1, <2>2, GotoType DEF ApplyCharge
    <2>3. CASE ApplyCancel(c)
      BY <1>t, <2>1, <2>3, GotoType DEF ApplyCancel
    <2>4. QED
      BY <2>2, <2>3
  <1>4. UNCHANGED <<cachedPlan, plans, creating, planCode, code, born, gw, charges, paidUntil,
                    declined, sent, hooks, sweep, broker, day, faults, overtaken>>
    BY DEF ApplyCharge, ApplyCancel, create, provider, history
  <1>5. TypeOK'
    BY <1>t, <1>2, <1>3, <1>4 DEF TypeOK
  <1>6. QED
    BY <1>g, <1>2, <1>4, <1>5, FrameQuiet

LEMMA AnnounceStep ==
  ASSUME IInv, NEW c \in Calls, AnnounceCharge(c) \/ AnnounceCancel(c)
  PROVE  IInv'
  <1>t. TypeOK
    BY DEF IInv
  <1>1. call[c] \in Call
    BY <1>t DEF TypeOK
  <1>2. broker' \subseteq Event
    <2>1. call[c].sub \in Subs /\ call[c].until \in Nat
      BY <1>1 DEF Call
    <2>2. /\ ChargeEvent(c) \in Event
          /\ [key |-> "cancelled", sub |-> call[c].sub, until |-> 0] \in Event
      BY <2>1 DEF ChargeEvent, Event
    <2>3. QED
      BY <1>t, <2>2 DEF AnnounceCharge, AnnounceCancel, TypeOK
  <1>3. call' \in [Calls -> Call] /\ hooks' \subseteq hooks /\ faults' \in Nat
    BY <1>t, ReturnType DEF AnnounceCharge, AnnounceCancel
  <1>4. UNCHANGED <<cachedPlan, plans, creating, status, planCode, code, periodEnd, born, gw,
                    charges, paidUntil, declined, sent, sweep, day, overtaken>>
    BY DEF AnnounceCharge, AnnounceCancel, create, row, provider
  <1>5. TypeOK'
    BY <1>t, <1>2, <1>3, <1>4 DEF TypeOK
  <1>6. QED
    <2>1. \A d \in Calls : call'[d].pc # "idle" => status[call'[d].sub] # "none"
      BY ReturnRows DEF AnnounceCharge, AnnounceCancel, Return
    <2>2. QED
      BY <1>3, <1>4, <1>5, <2>1, FrameQuiet

LEMMA FailedWebhookStep ==
  ASSUME IInv, NEW h \in hooks, FailedWebhook(h)
  PROVE  IInv'
  <1>t. TypeOK
    BY DEF IInv
  <1>1. /\ status' \in [Subs -> Statuses]
        /\ \A s \in Subs : status'[s] # "none" <=> status[s] # "none"
    BY <1>t DEF FailedWebhook, TypeOK, Statuses
  <1>2. hooks' \subseteq hooks /\ faults' \in Nat
    BY <1>t, AnswerType DEF FailedWebhook
  <1>3. UNCHANGED <<cachedPlan, plans, creating, planCode, code, periodEnd, born, gw, charges,
                    paidUntil, declined, sent, call, sweep, broker, day>>
    BY DEF FailedWebhook, create, provider
  <1>o. overtaken' \subseteq Subs
    BY <1>t, DeliveredType DEF FailedWebhook
  <1>4. TypeOK'
    BY <1>t, <1>1, <1>2, <1>3, <1>o DEF TypeOK
  <1>5. QED
    <2>1. \A d \in Calls : call[d].pc # "idle" => status[call[d].sub] # "none"
      BY DEF IInv, RowsAreThere
    <2>2. QED
      BY <1>1, <1>2, <1>3, <1>4, <2>1, FrameQuiet

LEMMA DisableWebhookStep ==
  ASSUME IInv, NEW c \in Calls, NEW h \in hooks, DisableWebhook(c, h)
  PROVE  IInv'
  <1>t. TypeOK
    BY DEF IInv
  <1> DEFINE hit == {s \in Subs : h.sub \in code[s] /\ status[s] \notin Ended}
  <1>1. status' = [s \in Subs |-> IF s \in hit THEN "cancelled" ELSE status[s]]
    BY DEF DisableWebhook
  <1>2. \A s \in hit : s \in Subs /\ status[s] # "none"
    BY DEF IInv, RowsAreThere
  <1> HIDE DEF hit
  <1>3. /\ status' \in [Subs -> Statuses]
        /\ \A s \in Subs : status'[s] # "none" <=> status[s] # "none"
    BY <1>t, <1>1, <1>2 DEF TypeOK, Statuses
  <1>4. /\ hooks' \subseteq hooks /\ faults' \in Nat
        /\ call' \in [Calls -> Call]
        /\ \A d \in Calls : call'[d].pc # "idle" => status[call'[d].sub] # "none"
    <2>1. CASE Answer({h}) /\ UNCHANGED call
      BY <1>t, <2>1, AnswerType DEF IInv, RowsAreThere, TypeOK
    <2>2. ASSUME NEW s \in hit,
                 Enter(c, [pc |-> "announce_cancel", sub |-> s, until |-> 0,
                           first |-> FALSE, hook |-> {h}]),
                 UNCHANGED <<hooks, faults>>
          PROVE  /\ hooks' \subseteq hooks /\ faults' \in Nat
                 /\ call' \in [Calls -> Call]
                 /\ \A d \in Calls : call'[d].pc # "idle" => status[call'[d].sub] # "none"
      <3> DEFINE r == [pc |-> "announce_cancel", sub |-> s, until |-> 0,
                       first |-> FALSE, hook |-> {h}]
      <3>1. r \in Call /\ r.sub = s
        BY <1>t, <1>2, <2>2 DEF Call, Steps, TypeOK
      <3>2. call' = [call EXCEPT ![c] = r]
        BY <2>2 DEF Enter
      <3> HIDE DEF r
      <3>3. QED
        BY <1>t, <1>2, <2>2, <3>1, <3>2 DEF IInv, RowsAreThere, TypeOK
    <2>3. QED
      BY <2>1, <2>2 DEF DisableWebhook, hit
  <1>5. UNCHANGED <<cachedPlan, plans, creating, planCode, code, periodEnd, born, gw, charges,
                    paidUntil, declined, sent, sweep, broker, day>>
    BY DEF DisableWebhook, create, provider
  <1>o. overtaken' \subseteq Subs
    BY <1>t, DeliveredType DEF DisableWebhook
  <1>6. TypeOK'
    BY <1>t, <1>3, <1>4, <1>5, <1>o DEF TypeOK
  <1>7. QED
    BY <1>3, <1>4, <1>5, <1>6, FrameQuiet

LEMMA CancelStep ==
  ASSUME IInv, NEW c \in Calls, NEW s \in Subs, Cancel(c, s)
  PROVE  IInv'
  <1>t. TypeOK
    BY DEF IInv
  <1> DEFINE r == [pc |-> "cancel_at_provider", sub |-> s, until |-> 0, first |-> FALSE,
                   hook |-> {}]
  <1>1. r \in Call /\ r.sub = s
    BY <1>t, DayTypes DEF Call, Steps
  <1>2. Enter(c, r) /\ status[s] # "none"
    BY DEF Cancel
  <1> HIDE DEF r
  <1>3. call' \in [Calls -> Call]
    BY <1>t, <1>1, <1>2, EnterType
  <1>4. UNCHANGED <<cachedPlan, plans, creating, status, planCode, code, periodEnd, born, gw,
                    charges, paidUntil, declined, sent, hooks, sweep, broker, day, faults, overtaken>>
    BY DEF Cancel, create, row, provider, history
  <1>5. TypeOK'
    BY <1>t, <1>3, <1>4 DEF TypeOK
  <1>6. \A d \in Calls : call'[d].pc # "idle" => status[call'[d].sub] # "none"
    BY <1>t, <1>1, <1>2 DEF Enter, IInv, RowsAreThere, TypeOK
  <1>7. QED
    BY <1>4, <1>5, <1>6, FrameQuiet

LEMMA CancelAtProviderStep ==
  ASSUME IInv, NEW c \in Calls, CancelAtProvider(c)
  PROVE  IInv'
  <1>t. TypeOK
    BY DEF IInv
  <1>1. call[c] \in Call /\ call[c].sub \in Subs
    BY <1>t DEF TypeOK, Call
  <1>2. PICK x \in code[call[c].sub] :
          \/ Disable(x) /\ Goto(c, "apply_cancel", 0) /\ UNCHANGED faults
          \/ gw[x] # "live" /\ Return(c) /\ UNCHANGED provider
    BY DEF CancelAtProvider
  <1>3. x \in Subs
    BY <1>t, <1>1 DEF TypeOK
  <1>4. UNCHANGED <<cachedPlan, plans, creating, status, planCode, code, periodEnd, born,
                    sweep, broker, day, overtaken>>
    BY DEF CancelAtProvider, create, row
  <1>5. CASE Disable(x) /\ Goto(c, "apply_cancel", 0) /\ UNCHANGED faults
    <2> DEFINE m == Message("disable", x, 0, 1)
    <2>1. m \in Hook /\ m.sub = x
      BY <1>t, <1>3, MessageType
    <2>2. hooks' \subseteq Hook /\ sent' \in [Subs -> Nat] /\ hooks' = hooks \cup {m}
      <3>1. IsFiniteSet({m}) /\ {m} \in SUBSET Hook
        BY <2>1, FS_Singleton
      <3>2. QED
        BY <1>t, <1>3, <1>5, <3>1, SendType DEF Disable, Send
    <2>3. status[x] # "none" /\ Billed(x)' /\ \A y \in Subs : Billed(y) <=> Billed(y)'
      BY <1>t, <1>3, <1>5 DEF Disable, IInv, RowsAreThere, Billed, TypeOK
    <2>4. call' \in [Calls -> Call]
      <3>1. "apply_cancel" \in Steps
        BY DEF Steps
      <3>2. QED
        BY <1>t, <1>5, <3>1, DayTypes, GotoType
    <2>5. \A d \in Calls : call'[d].pc # "idle" => status[call'[d].sub] # "none"
      BY <1>5, GotoRows DEF CancelAtProvider, At
    <2>6. gw' \in [Subs -> {"none", "open", "live", "disabled"}]
      BY <1>t, <1>5 DEF Disable, TypeOK
    <2>7. TypeOK'
      BY <1>t, <1>4, <1>5, <2>2, <2>4, <2>6 DEF Disable, TypeOK
    <2>8. /\ \A h \in hooks' : h \in hooks \/ Billed(h.sub)'
          /\ \A y \in Subs : /\ Billed(y)' => status[y] # "none"
                             /\ Billed(y) => Billed(y)'
      BY <2>1, <2>2, <2>3 DEF IInv, RowsAreThere
    <2>9. QED
      BY <1>4, <2>5, <2>7, <2>8, Frame
  <1>6. CASE gw[x] # "live" /\ Return(c) /\ UNCHANGED provider
    <2>1. call' \in [Calls -> Call] /\ hooks' \subseteq hooks /\ faults' \in Nat
      BY <1>t, <1>6, ReturnType
    <2>2. TypeOK'
      BY <1>t, <1>4, <1>6, <2>1 DEF TypeOK, provider
    <2>3. \A d \in Calls : call'[d].pc # "idle" => status[call'[d].sub] # "none"
      BY <1>6, ReturnRows DEF Return
    <2>4. QED
      BY <1>4, <1>6, <2>1, <2>2, <2>3, FrameQuiet DEF provider
  <1>7. QED
    BY <1>2, <1>5, <1>6

LEMMA SweepStep ==
  ASSUME IInv, Sweep \/ SweepDies
  PROVE  IInv'
  <1>t. TypeOK
    BY DEF IInv
  <1>1. /\ status' \in [Subs -> Statuses]
        /\ \A s \in Subs : status'[s] # "none" <=> status[s] # "none"
    BY <1>t DEF Sweep, SweepPastDue, SweepExpire, SweepAnnounce, SweepDies, Expirable, row,
                TypeOK, Statuses
  <1>2. /\ sweep' \in [pc : {"idle", "expire", "announce"}, events : SUBSET Event]
        /\ broker' \subseteq Event
    <2>1. CASE SweepExpire
      <3>1. \A s \in Subs : periodEnd[s] \in Nat
        BY <1>t DEF TypeOK
      <3>2. \A s \in Subs : [key |-> "expired", sub |-> s, until |-> periodEnd[s]] \in Event
        BY <3>1 DEF Event
      <3>3. QED
        BY <1>t, <2>1, <3>2 DEF SweepExpire, TypeOK
    <2>2. CASE ~SweepExpire
      BY <1>t, <2>2 DEF Sweep, SweepPastDue, SweepAnnounce, SweepDies, TypeOK
    <2>3. QED
      BY <2>1, <2>2
  <1>4. faults' \in Nat /\ UNCHANGED overtaken
    BY <1>t DEF Sweep, SweepPastDue, SweepExpire, SweepAnnounce, SweepDies, history, TypeOK
  <1>5. UNCHANGED <<cachedPlan, plans, creating, planCode, code, periodEnd, born, gw, charges,
                    paidUntil, declined, sent, hooks, call, day>>
    BY DEF Sweep, SweepPastDue, SweepExpire, SweepAnnounce, SweepDies, create, row, provider
  <1>6. TypeOK'
    BY <1>t, <1>1, <1>2, <1>4, <1>5 DEF TypeOK
  <1>7. \A d \in Calls : call[d].pc # "idle" => status[call[d].sub] # "none"
    BY DEF IInv, RowsAreThere
  <1>8. QED
    BY <1>1, <1>5, <1>6, <1>7, FrameQuiet

LEMMA FaultStep ==
  ASSUME IInv, NEW c \in Calls, HandlerDies(c) \/ PublishLost(c)
  PROVE  IInv'
  <1>t. TypeOK
    BY DEF IInv
  <1>1. call[c] \in Call /\ call[c].sub \in Subs
    BY <1>t DEF TypeOK, Call
  <1>2. /\ call' = [call EXCEPT ![c] = NoCall]
        /\ hooks' \subseteq hooks
        /\ faults' = faults + 1
    BY DEF HandlerDies, PublishLost
  <1>3. UNCHANGED <<cachedPlan, plans, creating, status, planCode, code, periodEnd, born, gw,
                    charges, paidUntil, declined, sent, sweep, broker, day, overtaken>>
    BY DEF HandlerDies, PublishLost, create, row, provider
  <1>4. TypeOK'
    BY <1>t, <1>1, <1>2, <1>3, NoCallType DEF TypeOK
  <1>5. \A d \in Calls : call'[d].pc # "idle" => status[call'[d].sub] # "none"
    BY <1>2, ReturnRows
  <1>6. QED
    BY <1>2, <1>3, <1>4, <1>5, FrameQuiet

LEMMA TickStep ==
  ASSUME IInv, Tick \/ UNCHANGED vars
  PROVE  IInv'
  <1>t. TypeOK
    BY DEF IInv
  <1>1. UNCHANGED <<cachedPlan, plans, creating, status, planCode, code, periodEnd, born, gw,
                    charges, paidUntil, declined, sent, hooks, call, sweep, broker, faults, overtaken>>
    BY DEF Tick, vars, create, row, provider, history
  <1>2. day' \in 1..MaxDay
    BY <1>t, SubscriptionsAssumption DEF Tick, vars, TypeOK
  <1>3. TypeOK'
    BY <1>t, <1>1, <1>2 DEF TypeOK
  <1>4. \A d \in Calls : call[d].pc # "idle" => status[call[d].sub] # "none"
    BY DEF IInv, RowsAreThere
  <1>5. QED
    BY <1>1, <1>3, <1>4, FrameQuiet

-----------------------------------------------------------------------------
(* create() and the message that gives a row its code. *)

\* The request s moves on.
LEMMA CreatingType ==
  ASSUME TypeOK, NEW s \in Subs, NEW step \in CreateSteps, NEW plan \in SUBSET Subs,
         CreateGoto(s, step, plan)
  PROVE  /\ creating' \in [Subs -> [pc : CreateSteps, plan : SUBSET Subs]]
         /\ creating'[s].pc = step /\ creating'[s].plan = plan
         /\ \A t \in Subs : t # s => creating'[t] = creating[t]
  BY DEF CreateGoto, TypeOK

LEMMA CreateStep ==
  ASSUME IInv, NEW s \in Subs, Create(s)
  PROVE  IInv'
  <1>t. TypeOK /\ PlanSteps /\ RowsAreThere
    BY DEF IInv
  <1> DEFINE p == PriceOf[s]
  <1>1. p \in Prices /\ cachedPlan[p] \in SUBSET Subs /\ creating[s].plan \in SUBSET Subs
    BY <1>t, SubscriptionsAssumption DEF TypeOK
  <1>2. UNCHANGED <<code, periodEnd, charges, paidUntil, declined, sent, hooks, call, sweep,
                    broker, day, faults, overtaken>>
    BY DEF Create, LookUpPlan, CreatePlan, CachePlan, OpenCheckout, InsertRow, row, provider,
           history
  <1>3. /\ "create_plan" \in CreateSteps /\ "insert_plan" \in CreateSteps
        /\ "checkout" \in CreateSteps /\ "insert" \in CreateSteps /\ "done" \in CreateSteps
    BY DEF CreateSteps
  <1>4. CASE LookUpPlan(s)
    <2>1. PICK step \in {"create_plan", "checkout"} :
            /\ CreateGoto(s, step, cachedPlan[p])
            /\ step = "checkout" => cachedPlan[p] # {}
      BY <1>4 DEF LookUpPlan
    <2>2. UNCHANGED <<cachedPlan, plans, status, planCode, born, gw>> /\ creating[s].pc = "start"
      BY <1>4 DEF LookUpPlan, Creating, row, provider
    <2>3. /\ creating' \in [Subs -> [pc : CreateSteps, plan : SUBSET Subs]]
          /\ creating'[s].pc = step /\ creating'[s].plan = cachedPlan[p]
          /\ \A t \in Subs : t # s => creating'[t] = creating[t]
      BY <1>t, <1>1, <1>3, <2>1, CreatingType
    <2>4. TypeOK'
      BY <1>t, <1>2, <2>2, <2>3 DEF TypeOK
    <2>5. PlanSteps'
      BY <1>t, <2>1, <2>2, <2>3 DEF PlanSteps
    <2>6. QED
      BY <1>2, <2>2, <2>4, <2>5 DEF IInv, RowsAreThere, RanksBounded, CodesFitThePrice, Billed
  <1>5. CASE CreatePlan(s)
    <2>1. CreateGoto(s, "insert_plan", {s}) /\ plans' = plans \cup {s}
      BY <1>5 DEF CreatePlan
    <2>2. UNCHANGED <<cachedPlan, status, planCode, born, gw>> /\ creating[s].pc = "create_plan"
      BY <1>5 DEF CreatePlan, Creating, row, provider
    <2>3. /\ creating' \in [Subs -> [pc : CreateSteps, plan : SUBSET Subs]]
          /\ creating'[s].pc = "insert_plan" /\ creating'[s].plan = {s}
          /\ \A t \in Subs : t # s => creating'[t] = creating[t]
      <3>1. {s} \in SUBSET Subs
        OBVIOUS
      <3>2. QED
        BY <1>t, <1>3, <2>1, <3>1, CreatingType
    <2>4. TypeOK'
      BY <1>t, <1>2, <2>1, <2>2, <2>3 DEF TypeOK
    <2>5. PlanSteps'
      BY <1>t, <2>2, <2>3 DEF PlanSteps
    <2>6. QED
      BY <1>2, <2>2, <2>4, <2>5 DEF IInv, RowsAreThere, RanksBounded, CodesFitThePrice, Billed
  <1>6. CASE CachePlan(s)
    <2>1. /\ cachedPlan' = [cachedPlan EXCEPT ![p] = IF @ = {} THEN creating[s].plan ELSE @]
          /\ CreateGoto(s, "checkout", cachedPlan'[p])
      BY <1>6 DEF CachePlan
    <2>2. UNCHANGED <<plans, status, planCode, born, gw>> /\ creating[s].pc = "insert_plan"
      BY <1>6 DEF CachePlan, Creating, row, provider
    <2>3. /\ creating[s].plan = {s}
          /\ cachedPlan'[p] = IF cachedPlan[p] = {} THEN {s} ELSE cachedPlan[p]
          /\ \A q \in Prices : q # p => cachedPlan'[q] = cachedPlan[q]
          /\ cachedPlan' \in [Prices -> SUBSET Subs]
      BY <1>t, <1>1, <2>1, <2>2 DEF PlanSteps, TypeOK
    <2>4. cachedPlan'[p] # {} /\ cachedPlan'[p] \in SUBSET Subs
      BY <1>1, <2>3
    <2>5. /\ creating' \in [Subs -> [pc : CreateSteps, plan : SUBSET Subs]]
          /\ creating'[s].pc = "checkout" /\ creating'[s].plan = cachedPlan'[p]
          /\ \A t \in Subs : t # s => creating'[t] = creating[t]
      BY <1>t, <1>3, <2>1, <2>4, CreatingType
    <2>6. TypeOK'
      BY <1>t, <1>2, <2>2, <2>3, <2>5 DEF TypeOK
    <2>7. PlanSteps'
      <3>1. \A q \in Prices : cachedPlan[q] # {} => cachedPlan'[q] = cachedPlan[q]
        BY <2>3
      <3>2. \A q \in Prices : \A t \in cachedPlan'[q] : PriceOf[t] = q
        BY <1>t, <1>1, <2>3 DEF PlanSteps
      <3>3. \A t \in Subs : creating'[t].pc \in {"checkout", "insert", "done"} =>
              creating'[t].plan # {} /\ creating'[t].plan = cachedPlan'[PriceOf[t]]
        BY <1>t, <2>4, <2>5, <3>1, SubscriptionsAssumption DEF PlanSteps
      <3>4. QED
        BY <1>t, <2>2, <2>5, <3>2, <3>3 DEF PlanSteps
    <2>8. QED
      BY <1>2, <2>2, <2>6, <2>7 DEF IInv, RowsAreThere, RanksBounded, CodesFitThePrice, Billed
  <1>7. CASE OpenCheckout(s)
    <2>1. CreateGoto(s, "insert", creating[s].plan) /\ gw' = [gw EXCEPT ![s] = "open"]
      BY <1>7 DEF OpenCheckout
    <2>2. UNCHANGED <<cachedPlan, plans, status, planCode, born>> /\ creating[s].pc = "checkout"
      BY <1>7 DEF OpenCheckout, Creating, row
    <2>3. /\ creating' \in [Subs -> [pc : CreateSteps, plan : SUBSET Subs]]
          /\ creating'[s].pc = "insert" /\ creating'[s].plan = creating[s].plan
          /\ \A t \in Subs : t # s => creating'[t] = creating[t]
      BY <1>t, <1>1, <1>3, <2>1, CreatingType
    <2>4. TypeOK'
      BY <1>t, <1>2, <2>1, <2>2, <2>3 DEF TypeOK
    <2>5. PlanSteps'
      BY <1>t, <2>2, <2>3 DEF PlanSteps
    <2>6. \A t \in Subs : Billed(t)' <=> Billed(t)
      <3>1. ~Billed(s)
        BY <1>t, <2>2 DEF PlanSteps, RowsAreThere
      <3>2. QED
        BY <1>t, <2>1, <3>1 DEF TypeOK, Billed
    <2>7. RowsAreThere'
      <3>1. \A h \in hooks : h.sub \in Subs
        BY <1>t DEF TypeOK, Hook
      <3>2. QED
        BY <1>t, <1>2, <2>2, <2>6, <3>1 DEF RowsAreThere
    <2>8. RanksBounded' /\ CodesFitThePrice'
      BY <1>t, <1>2, <2>2, <2>6 DEF IInv, TypeOK, RanksBounded, CodesFitThePrice, Billed
    <2>9. QED
      BY <2>4, <2>5, <2>7, <2>8 DEF IInv
  <1>8. CASE InsertRow(s)
    <2>1. /\ CreateGoto(s, "done", creating[s].plan)
          /\ status' = [status EXCEPT ![s] = "pending"]
          /\ planCode' = [planCode EXCEPT ![s] = creating[s].plan]
          /\ born' = [born EXCEPT ![s] = 1 + Cardinality({t \in Subs : status[t] # "none"})]
      BY <1>8 DEF InsertRow
    <2>2. UNCHANGED <<cachedPlan, plans, gw>> /\ creating[s].pc = "insert"
      BY <1>8 DEF InsertRow, Creating, provider
    <2>3. /\ creating' \in [Subs -> [pc : CreateSteps, plan : SUBSET Subs]]
          /\ creating'[s].pc = "done" /\ creating'[s].plan = creating[s].plan
          /\ \A t \in Subs : t # s => creating'[t] = creating[t]
      BY <1>t, <1>1, <1>3, <2>1, CreatingType
    <2>4. born' \in [Subs -> Nat] /\ RanksBounded'
      <3> DEFINE rows == {t \in Subs : status[t] # "none"}
      <3>1. /\ IsFiniteSet(rows) /\ IsFiniteSet(Subs)
            /\ Cardinality(rows) <= Cardinality(Subs)
        BY SubscriptionsAssumption, FS_Subset
      <3>2. Cardinality(rows) \in Nat /\ Cardinality(Subs) \in Nat
        BY <3>1, FS_CardinalityType
      <3>3. born' = [born EXCEPT ![s] = 1 + Cardinality(rows)]
        BY <2>1
      <3> HIDE DEF rows
      <3>4. QED
        BY <1>t, <3>1, <3>2, <3>3 DEF IInv, TypeOK, RanksBounded
    <2>5. /\ status' \in [Subs -> Statuses] /\ status'[s] = "pending"
          /\ planCode' \in [Subs -> SUBSET Subs] /\ planCode'[s] = creating[s].plan
          /\ \A t \in Subs : t # s => status'[t] = status[t] /\ planCode'[t] = planCode[t]
      BY <1>t, <1>1, <2>1 DEF TypeOK, Statuses
    <2>6. TypeOK'
      BY <1>t, <1>2, <2>2, <2>3, <2>4, <2>5 DEF TypeOK
    <2>7. PlanSteps'
      <3>1. \A t \in Subs : status'[t] # "none" <=> creating'[t].pc = "done"
        BY <1>t, <2>3, <2>5 DEF PlanSteps
      <3>2. \A t \in Subs : status'[t] # "none" => planCode'[t] = creating'[t].plan
        BY <1>t, <2>3, <2>5 DEF PlanSteps
      <3>3. \A t \in Subs : creating'[t].plan = creating[t].plan
        BY <2>3
      <3>4. \A t \in Subs : creating'[t].pc \in {"checkout", "insert", "done"} =>
              creating[t].pc \in {"checkout", "insert", "done"}
        BY <2>2, <2>3
      <3>5. \A t \in Subs : creating'[t].pc = "insert_plan" => creating[t].pc = "insert_plan"
        BY <2>3
      <3>6. QED
        BY <1>t, <2>2, <3>1, <3>2, <3>3, <3>4, <3>5 DEF PlanSteps
    <2>8. RowsAreThere'
      <3>1. \A t \in Subs : status[t] # "none" => status'[t] # "none"
        BY <2>5
      <3>2. /\ \A h \in hooks : h.sub \in Subs
            /\ \A c \in Calls : call[c].sub \in Subs
        BY <1>t DEF TypeOK, Hook, Call
      <3>3. QED
        BY <1>t, <1>2, <2>2, <3>1, <3>2 DEF RowsAreThere, Billed
    <2>9. QED
      BY <1>2, <2>2, <2>4, <2>6, <2>7, <2>8 DEF IInv, CodesFitThePrice
  <1>9. QED
    BY <1>4, <1>5, <1>6, <1>7, <1>8 DEF Create

\* Two rows on one plan have one price.
LEMMA SamePlan ==
  ASSUME TypeOK, PlanSteps, NEW s \in Subs, NEW t \in Subs,
         status[s] # "none", status[t] # "none", planCode[s] = planCode[t]
  PROVE  PriceOf[s] = PriceOf[t]
  <1>1. /\ planCode[s] # {}
        /\ planCode[s] = cachedPlan[PriceOf[s]]
        /\ planCode[t] = cachedPlan[PriceOf[t]]
    <2>1. \A x \in {s, t} : creating[x].pc = "done" /\ planCode[x] = creating[x].plan
      BY DEF PlanSteps
    <2>2. \A x \in {s, t} : creating[x].plan # {} /\ creating[x].plan = cachedPlan[PriceOf[x]]
      BY <2>1 DEF PlanSteps
    <2>3. QED
      BY <2>1, <2>2
  <1>2. PICK u : u \in planCode[s]
    BY <1>1
  <1>3. PriceOf[u] = PriceOf[s] /\ PriceOf[u] = PriceOf[t]
    <2>1. PriceOf[s] \in Prices /\ PriceOf[t] \in Prices
      BY SubscriptionsAssumption
    <2>2. u \in cachedPlan[PriceOf[s]] /\ u \in cachedPlan[PriceOf[t]]
      BY <1>1, <1>2
    <2>3. \A p \in Prices : \A x \in cachedPlan[p] : PriceOf[x] = p
      BY DEF PlanSteps
    <2>4. QED
      BY <2>1, <2>2, <2>3
  <1>4. QED
    BY <1>3

LEMMA CreateWebhookStep ==
  ASSUME IInv, NEW h \in hooks, CreateWebhook(h)
  PROVE  IInv'
  <1>t. TypeOK /\ PlanSteps /\ RowsAreThere
    BY DEF IInv
  <1> DEFINE found == Newest(Uncoded(planCode[h.sub]))
  <1>1. /\ code' = [s \in Subs |-> IF s \in found THEN {h.sub} ELSE code[s]]
        /\ status' = [s \in Subs |-> IF s \in found THEN "active" ELSE status[s]]
        /\ Answer({h})
        /\ UNCHANGED <<cachedPlan, plans, creating, planCode, periodEnd, born, gw, charges,
                       paidUntil, declined, sent, call, sweep, broker, day>>
    BY DEF CreateWebhook, create, provider
  <1>2. h.sub \in Subs /\ status[h.sub] # "none" /\ Billed(h.sub)
    BY <1>t DEF TypeOK, Hook, RowsAreThere
  <1>3. \A s \in found : s \in Subs /\ status[s] # "none" /\ planCode[s] = planCode[h.sub]
    BY DEF Newest, Uncoded
  <1> HIDE DEF found
  <1>4. /\ status' \in [Subs -> Statuses] /\ code' \in [Subs -> SUBSET Subs]
        /\ \A s \in Subs : status'[s] # "none" <=> status[s] # "none"
    BY <1>t, <1>1, <1>2, <1>3 DEF TypeOK, Statuses
  <1>5. hooks' \subseteq hooks /\ faults' \in Nat /\ overtaken' \subseteq Subs
    BY <1>t, <1>1, AnswerType, DeliveredType DEF CreateWebhook
  <1>6. TypeOK'
    BY <1>t, <1>1, <1>4, <1>5 DEF TypeOK
  <1>7. PlanSteps'
    BY <1>t, <1>1, <1>4 DEF PlanSteps
  <1>8. RowsAreThere'
    <2>1. /\ \A g \in hooks : g.sub \in Subs
          /\ \A c \in Calls : call[c].sub \in Subs
      BY <1>t DEF TypeOK, Hook, Call
    <2>2. \A s \in Subs : code'[s] # {} => status[s] # "none"
      BY <1>t, <1>1, <1>3 DEF RowsAreThere
    <2>3. QED
      BY <1>t, <1>1, <1>4, <1>5, <2>1, <2>2 DEF RowsAreThere, Billed
  <1>9. CodesFitThePrice' /\ RanksBounded'
    <2>1. ASSUME NEW s \in Subs, NEW t \in code'[s]
          PROVE  PriceOf[t] = PriceOf[s] /\ gw[t] \in {"live", "disabled"}
      <3>1. CASE s \in found
        <4>1. t = h.sub
          BY <1>1, <2>1, <3>1
        <4>2. QED
          BY <1>t, <1>2, <1>3, <3>1, <4>1, SamePlan DEF Billed
      <3>2. CASE s \notin found
        BY <1>1, <2>1, <3>2 DEF IInv, CodesFitThePrice
      <3>3. QED
        BY <3>1, <3>2
    <2>2. QED
      BY <1>1, <2>1 DEF IInv, CodesFitThePrice, RanksBounded
  <1>10. QED
    BY <1>6, <1>7, <1>8, <1>9 DEF IInv

-----------------------------------------------------------------------------
(* The invariant. *)

LEMMA Initially == Init => IInv
  <1> SUFFICES ASSUME Init PROVE IInv
    OBVIOUS
  <1>1. 1 \in 1..MaxDay /\ Cardinality(Subs) \in Nat
    BY SubscriptionsAssumption, FS_CardinalityType
  <1>2. TypeOK
    BY <1>1, NoCallType DEF Init, TypeOK, CreateSteps, Statuses
  <1>3. PlanSteps
    BY DEF Init, PlanSteps
  <1>4. RowsAreThere
    BY DEF Init, RowsAreThere, NoCall, Billed
  <1>5. RanksBounded /\ CodesFitThePrice
    BY <1>1 DEF Init, RanksBounded, CodesFitThePrice
  <1>6. QED
    BY <1>2, <1>3, <1>4, <1>5 DEF IInv

LEMMA Stepwise == IInv /\ [Next]_vars => IInv'
  <1> SUFFICES ASSUME IInv, [Next]_vars PROVE IInv'
    OBVIOUS
  <1>1. ASSUME NEW s \in Subs,
               \/ Create(s)
               \/ FirstCharge(s) \/ Renew(s) \/ DeclineRenewal(s) \/ DisableOnDashboard(s)
        PROVE  IInv'
    BY <1>1, CreateStep, ChargeStep, NoticeStep
  <1>2. ASSUME NEW h \in hooks, Deliver(h)
        PROVE  IInv'
    BY <1>2, CreateWebhookStep, FailedWebhookStep, ChargeWebhookStep, DisableWebhookStep
       DEF Deliver
  <1>3. ASSUME NEW c \in Calls, Proceed(c)
        PROVE  IInv'
    BY <1>3, ApplyStep, AnnounceStep, CancelAtProviderStep DEF Proceed
  <1>4. ASSUME NEW c \in Calls, HandlerDies(c) \/ PublishLost(c)
        PROVE  IInv'
    BY <1>4, FaultStep
  <1>5. ASSUME NEW c \in Calls, NEW s \in Subs, Cancel(c, s)
        PROVE  IInv'
    BY <1>5, CancelStep
  <1>6. CASE Sweep \/ SweepDies \/ Tick \/ UNCHANGED vars
    BY <1>6, SweepStep, TickStep
  <1>7. QED
    BY <1>1, <1>2, <1>3, <1>4, <1>5, <1>6 DEF Next

-----------------------------------------------------------------------------
(* The theorems. *)

\* The invariant is inductive.
THEOREM Inductive == Spec => []IInv
  BY Initially, Stepwise, PTL DEF Spec

\* Rows, messages and requests keep their shape.
THEOREM TypeCorrect == Spec => []TypeOK
  <1>1. IInv => TypeOK
    BY DEF IInv
  <1>2. QED
    BY <1>1, Inductive, PTL

\* Rows of one price go on one plan, however many requests race to cache it.
THEOREM OnePlanPerPrice == Spec => []PlansAgree
  <1>1. IInv => PlansAgree
    BY DEF IInv, PlanSteps, PlansAgree
  <1>2. QED
    BY <1>1, Inductive, PTL

\* A row gets the code of a subscription of its own price, one that was paid for, in
\* whatever order and however often messages arrive: the match by plan alone can mix up
\* the subscriptions of one price, and no others.
THEOREM OwnCodes == Spec => []CodesFitThePrice
  <1>1. IInv => CodesFitThePrice
    BY DEF IInv
  <1>2. QED
    BY <1>1, Inductive, PTL

-----------------------------------------------------------------------------
(* EventsHaveCause: nothing is announced that did not happen at the        *)
(* provider, in whatever order its messages arrive.                        *)

\* Of the price of s one subscription is disabled.
PriceDisabled(s) == \E t \in Subs : PriceOf[t] = PriceOf[s] /\ gw[t] = "disabled"

\* What an event says has happened.
Caused(e) ==
  /\ e.key \in {"created", "charged"} => charges[e.sub] > 0
  /\ e.key = "cancelled" => PriceDisabled(e.sub)
  /\ e.key = "expired" => charges[e.sub] > 0 /\ e.until + Grace < day

\* What a request that is about to announce something stands on: a charge, or that what
\* the row has the code of is disabled.
CallCaused(c) ==
  /\ call[c].pc \in {"apply_charge", "announce_charge"} => charges[call[c].sub] > 0
  /\ call[c].pc \in {"apply_cancel", "announce_cancel"} =>
       \E t \in code[call[c].sub] : gw[t] = "disabled"

\* What a message was sent for.
HookCaused(h) == charges[h.sub] > 0 /\ (h.kind = "disable" => gw[h.sub] = "disabled")

\* Every message, request, period and event has its cause at the provider.
CausesInv ==
  /\ \A s \in Subs : Billed(s) => charges[s] > 0
  /\ \A s \in Subs : periodEnd[s] # 0 => charges[s] > 0
  /\ \A h \in hooks : HookCaused(h)
  /\ \A c \in Calls : CallCaused(c)
  /\ \A e \in broker \cup sweep.events : Caused(e)

\* A cause stays: charges are only counted, a disabled subscription stays disabled, a row
\* keeps its code, days pass.
LEMMA CausesKept ==
  ASSUME IInv, CausesInv, TypeOK',
         \A s \in Subs : /\ charges'[s] >= charges[s]
                         /\ gw[s] = "disabled" => gw'[s] = "disabled"
                         /\ Billed(s)' => Billed(s) \/ charges'[s] > 0
                         /\ code[s] \subseteq code'[s]
                         /\ periodEnd'[s] = periodEnd[s] \/ charges[s] > 0,
         day' >= day,
         \A h \in hooks' : h \in hooks \/ HookCaused(h)',
         \A c \in Calls : call'[c] = call[c] \/ CallCaused(c)',
         \A e \in broker' \cup sweep'.events : e \in broker \cup sweep.events \/ Caused(e)
  PROVE  CausesInv'
  <1>t. TypeOK
    BY DEF IInv
  <1>1. /\ \A s \in Subs : charges[s] \in Nat /\ charges'[s] \in Nat
        /\ \A h \in hooks : h.sub \in Subs
        /\ \A c \in Calls : call[c].sub \in Subs
        /\ \A e \in broker \cup sweep.events : e.sub \in Subs /\ e.until \in Nat
        /\ \A e \in broker' \cup sweep'.events : e.sub \in Subs /\ e.until \in Nat
        /\ day \in Nat /\ day' \in Nat /\ Grace \in Nat
    <2>1. \A e \in Event : e.sub \in Subs /\ e.until \in Nat
      BY DEF Event
    <2>2. /\ broker \cup sweep.events \subseteq Event
          /\ broker' \cup sweep'.events \subseteq Event
      BY <1>t DEF TypeOK
    <2>3. \A h \in hooks : h.sub \in Subs
      BY <1>t DEF TypeOK, Hook
    <2>4. \A c \in Calls : call[c].sub \in Subs
      BY <1>t DEF TypeOK, Call
    <2>5. \A s \in Subs : charges[s] \in Nat /\ charges'[s] \in Nat
      BY <1>t DEF TypeOK
    <2>6. day \in Nat /\ day' \in Nat /\ Grace \in Nat
      BY <1>t, SubscriptionsAssumption DEF TypeOK
    <2>7. QED
      BY <2>1, <2>2, <2>3, <2>4, <2>5, <2>6
  <1>2. \A s \in Subs : charges[s] > 0 => charges'[s] > 0
    BY <1>1
  <1>3. /\ \A s \in Subs : Billed(s)' => charges'[s] > 0
        /\ \A s \in Subs : periodEnd'[s] # 0 => charges'[s] > 0
    BY <1>2 DEF CausesInv
  <1>4. \A h \in hooks' : HookCaused(h)'
    BY <1>1, <1>2 DEF CausesInv, HookCaused
  <1>5. ASSUME NEW c \in Calls PROVE CallCaused(c)'
    <2>1. code[call[c].sub] \subseteq Subs
      BY <1>t, <1>1 DEF TypeOK
    <2>2. QED
      BY <1>1, <1>2, <2>1 DEF CausesInv, CallCaused
  <1>6. \A e \in broker' \cup sweep'.events : Caused(e)'
    <2>1. SUFFICES ASSUME NEW e \in broker' \cup sweep'.events PROVE Caused(e)'
      OBVIOUS
    <2>2. Caused(e) /\ e.sub \in Subs /\ e.until \in Nat
      BY <1>1 DEF CausesInv
    <2>3. e.until + Grace < day => e.until + Grace < day'
      BY <1>1, <2>2
    <2>4. PriceDisabled(e.sub) => PriceDisabled(e.sub)'
      BY DEF PriceDisabled
    <2>5. QED
      BY <1>2, <2>2, <2>3, <2>4 DEF Caused
  <1>7. QED
    BY <1>3, <1>4, <1>5, <1>6 DEF CausesInv

\* The provider's steps only add messages about their own subscription.
LEMMA MessageFields ==
  ASSUME NEW kind, NEW s, NEW until, NEW n
  PROVE  /\ Message(kind, s, until, n).kind = kind
         /\ Message(kind, s, until, n).sub = s
         /\ Message(kind, s, until, n).until = until
         /\ Message(kind, s, until, n).n = sent[s] + n
  BY DEF Message

LEMMA SentHooks ==
  ASSUME NEW s \in Subs,
         FirstCharge(s) \/ Renew(s) \/ DeclineRenewal(s) \/ DisableOnDashboard(s)
  PROVE  \A h \in hooks' : h \in hooks
           \/ (h.sub = s /\ (h.kind = "disable" => DisableOnDashboard(s)))
  <1>1. PICK kind \in {"charge", "failed", "disable"}, also \in {{}, {Message("create", s, 0, 2)}} :
          /\ \E u : hooks' = hooks \cup ({Message(kind, s, u, 1)} \cup also)
          /\ kind = "disable" => DisableOnDashboard(s)
    <2>1. CASE FirstCharge(s)
      BY <2>1 DEF FirstCharge, Charge, Send
    <2>2. CASE Renew(s)
      BY <2>2 DEF Renew, Charge, Send
    <2>3. CASE DeclineRenewal(s)
      BY <2>3 DEF DeclineRenewal, Send
    <2>4. CASE DisableOnDashboard(s)
      BY <2>4 DEF DisableOnDashboard, Disable, Send
    <2>5. QED
      BY <2>1, <2>2, <2>3, <2>4
  <1>2. PICK u : hooks' = hooks \cup ({Message(kind, s, u, 1)} \cup also)
    BY <1>1
  <1> DEFINE m == Message(kind, s, u, 1)
             n == Message("create", s, 0, 2)
  <1>3. m.kind = kind /\ m.sub = s /\ n.kind = "create" /\ n.sub = s
    BY MessageFields
  <1>4. hooks' = hooks \cup ({m} \cup also) /\ also \in {{}, {n}}
    BY <1>2
  <1> HIDE DEF m, n
  <1>5. QED
    <2>1. ASSUME NEW h \in hooks', h \notin hooks PROVE h = m \/ h = n
      BY <1>4, <2>1
    <2>2. m.kind # "disable" \/ DisableOnDashboard(s)
      BY <1>1, <1>3
    <2>3. QED
      BY <1>3, <2>1, <2>2

\* The provider's own steps.
LEMMA ProviderCauses ==
  ASSUME IInv, IInv', CausesInv, NEW s \in Subs,
         FirstCharge(s) \/ Renew(s) \/ DeclineRenewal(s) \/ DisableOnDashboard(s)
  PROVE  CausesInv'
  <1>t. TypeOK /\ TypeOK'
    BY DEF IInv
  <1>1. UNCHANGED <<code, periodEnd, call, sweep, broker, day>>
    BY DEF FirstCharge, Renew, Charge, DeclineRenewal, DisableOnDashboard, row
  <1>2. \A x \in Subs : charges[x] \in Nat
    BY <1>t DEF TypeOK
  <1>3. /\ \A x \in Subs : charges'[x] >= charges[x]
        /\ charges'[s] > 0
        /\ \A x \in Subs : gw[x] = "disabled" => gw'[x] = "disabled"
        /\ \A x \in Subs : Billed(x)' => Billed(x) \/ x = s
    <2>1. CASE \E also : Charge(s, also) /\ gw[s] # "disabled"
      BY <1>t, <1>2, <2>1 DEF Charge, TypeOK, Billed
    <2>2. CASE gw[s] = "live" /\ UNCHANGED charges /\ gw' \in {gw, [gw EXCEPT ![s] = "disabled"]}
      BY <1>t, <1>2, <2>2 DEF CausesInv, TypeOK, Billed
    <2>3. QED
      BY <2>1, <2>2 DEF FirstCharge, Renew, DeclineRenewal, DisableOnDashboard, Disable
  <1>4. \A h \in hooks' : h \in hooks \/ HookCaused(h)'
    <2>2. \A h \in hooks' : h \in hooks
            \/ (h.sub = s /\ (h.kind = "disable" => gw'[s] = "disabled"))
      <3>1. DisableOnDashboard(s) => gw'[s] = "disabled"
        BY <1>t DEF DisableOnDashboard, Disable, TypeOK
      <3>2. QED
        BY <3>1, SentHooks
    <2>3. QED
      BY <1>3, <2>2 DEF HookCaused
  <1>5. QED
    <2>1. day' >= day
      BY <1>t, <1>1 DEF TypeOK
    <2>2. QED
      BY <1>t, <1>1, <1>3, <1>4, <2>1, CausesKept

\* Steps that tell nobody and leave the provider alone.
LEMMA QuietCauses ==
  ASSUME IInv, IInv', CausesInv, UNCHANGED <<gw, charges, periodEnd, call, broker>>,
         \A s \in Subs : code[s] \subseteq code'[s],
         hooks' \subseteq hooks, sweep'.events = {} \/ UNCHANGED sweep, day' >= day
  PROVE  CausesInv'
  <1>1. \A s \in Subs : charges'[s] >= charges[s] /\ (Billed(s)' <=> Billed(s))
    BY DEF IInv, TypeOK, Billed
  <1>2. QED
    BY <1>1, CausesKept DEF IInv

\* A webhook or a request of the owner that leaves the provider alone.
LEMMA RequestCauses ==
  ASSUME IInv, IInv', CausesInv, NEW c \in Calls, UNCHANGED <<gw, charges, code, sweep, day>>,
         hooks' \subseteq hooks,
         \A s \in Subs : periodEnd'[s] = periodEnd[s] \/ charges[s] > 0,
         \A d \in Calls : d # c => call'[d] = call[d],
         call'[c] = call[c] \/ CallCaused(c)',
         \A e \in broker' : e \in broker \/ Caused(e)
  PROVE  CausesInv'
  <1>1. /\ \A s \in Subs : charges'[s] >= charges[s] /\ (Billed(s)' <=> Billed(s))
        /\ day' >= day
    BY DEF IInv, TypeOK, Billed
  <1>2. QED
    BY <1>1, CausesKept DEF IInv

\* A request that ends owes nothing more.
LEMMA IdleCaused ==
  ASSUME IInv, NEW c \in Calls, call' = [call EXCEPT ![c] = NoCall]
  PROVE  CallCaused(c)' /\ \A d \in Calls : d # c => call'[d] = call[d]
  BY DEF IInv, TypeOK, NoCall, CallCaused

LEMMA AnswerShrinks ==
  ASSUME NEW hs, Answer(hs)
  PROVE  hooks' \subseteq hooks
  BY DEF Answer

LEMMA CreateCauses ==
  ASSUME IInv, IInv', CausesInv, NEW s \in Subs, Create(s)
  PROVE  CausesInv'
  <1>t. TypeOK /\ TypeOK'
    BY DEF IInv
  <1>1. UNCHANGED <<charges, code, periodEnd, hooks, call, sweep, broker, day>>
    BY DEF Create, LookUpPlan, CreatePlan, CachePlan, OpenCheckout, InsertRow, row, provider
  <1>2. \A x \in Subs : /\ gw[x] = "disabled" => gw'[x] = "disabled"
                        /\ Billed(x)' => Billed(x)
    <2>1. CASE OpenCheckout(s)
      <3>1. status[s] = "none"
        BY <2>1 DEF OpenCheckout, Creating, IInv, PlanSteps
      <3>2. ~Billed(s)
        BY <3>1 DEF IInv, RowsAreThere
      <3>3. QED
        BY <1>t, <2>1, <3>2 DEF OpenCheckout, TypeOK, Billed
    <2>2. CASE UNCHANGED gw
      BY <2>2 DEF Billed
    <2>3. QED
      BY <2>1, <2>2 DEF Create, LookUpPlan, CreatePlan, CachePlan, InsertRow, provider
  <1>3. (\A x \in Subs : charges'[x] >= charges[x]) /\ day' >= day
    BY <1>t, <1>1 DEF TypeOK
  <1>4. QED
    BY <1>t, <1>1, <1>2, <1>3, CausesKept

LEMMA ChargeWebhookCauses ==
  ASSUME IInv, IInv', CausesInv, NEW c \in Calls, NEW h \in hooks, ChargeWebhook(c, h)
  PROVE  CausesInv'
  <1>t. TypeOK
    BY DEF IInv
  <1> DEFINE until == NextPeriodEnd(h)
             first == status[h.sub] = "pending"
             r == [pc |-> "apply_charge", sub |-> h.sub, until |-> until,
                   first |-> first, hook |-> {h}]
  <1>1. /\ UNCHANGED <<gw, charges, code, periodEnd, sweep, day, hooks, broker>>
        /\ call' = [call EXCEPT ![c] = r]
    BY DEF ChargeWebhook, Enter, row, provider
  <1>2. r.pc = "apply_charge" /\ r.sub = h.sub
    OBVIOUS
  <1> HIDE DEF r
  <1>3. call'[c] = r /\ \A d \in Calls : d # c => call'[d] = call[d]
    BY <1>t, <1>1 DEF TypeOK
  <1>4. CallCaused(c)'
    BY <1>1, <1>2, <1>3 DEF CausesInv, HookCaused, CallCaused
  <1>5. QED
    BY <1>1, <1>3, <1>4, RequestCauses

LEMMA ApplyCauses ==
  ASSUME IInv, IInv', CausesInv, NEW c \in Calls, ApplyCharge(c) \/ ApplyCancel(c)
  PROVE  CausesInv'
  <1>t. TypeOK
    BY DEF IInv
  <1>1. UNCHANGED <<gw, charges, code, sweep, day, hooks, broker>>
    BY DEF ApplyCharge, ApplyCancel, provider
  <1>2. call[c].sub \in Subs /\ CallCaused(c)
    BY <1>t DEF TypeOK, Call, CausesInv
  <1>3. \A s \in Subs : periodEnd'[s] = periodEnd[s] \/ charges[s] > 0
    BY <1>t, <1>2 DEF ApplyCharge, ApplyCancel, At, CallCaused, TypeOK
  <1>4. PICK step \in {"announce_charge", "announce_cancel"} :
          /\ \E until : Goto(c, step, until)
          /\ step = "announce_charge" => call[c].pc = "apply_charge"
          /\ step = "announce_cancel" => call[c].pc = "apply_cancel"
    BY DEF ApplyCharge, ApplyCancel, At
  <1>5. /\ call'[c].pc = step /\ call'[c].sub = call[c].sub
        /\ \A d \in Calls : d # c => call'[d] = call[d]
    BY <1>t, <1>4 DEF Goto, TypeOK
  <1>6. CallCaused(c)'
    BY <1>1, <1>2, <1>4, <1>5 DEF CallCaused
  <1>7. QED
    BY <1>1, <1>3, <1>5, <1>6, RequestCauses

LEMMA AnnounceCauses ==
  ASSUME IInv, IInv', CausesInv, NEW c \in Calls, AnnounceCharge(c) \/ AnnounceCancel(c)
  PROVE  CausesInv'
  <1>1. UNCHANGED <<gw, charges, code, sweep, day, periodEnd>>
    BY DEF AnnounceCharge, AnnounceCancel, row, provider
  <1>2. hooks' \subseteq hooks /\ call' = [call EXCEPT ![c] = NoCall]
    BY AnswerShrinks DEF AnnounceCharge, AnnounceCancel, Return
  <1>3. CallCaused(c)
    BY DEF CausesInv
  <1>4. \A e \in broker' : e \in broker \/ Caused(e)
    <2>1. CASE AnnounceCharge(c)
      <3>1. ChargeEvent(c).key \in {"created", "charged"} /\ ChargeEvent(c).sub = call[c].sub
        BY DEF ChargeEvent
      <3>2. Caused(ChargeEvent(c))
        BY <1>3, <2>1, <3>1 DEF AnnounceCharge, At, CallCaused, Caused
      <3>3. QED
        BY <2>1, <3>2 DEF AnnounceCharge
    <2>2. CASE AnnounceCancel(c)
      <3> DEFINE e == [key |-> "cancelled", sub |-> call[c].sub, until |-> 0]
      <3>1. e.key = "cancelled" /\ e.sub = call[c].sub /\ broker' = broker \cup {e}
        BY <2>2 DEF AnnounceCancel
      <3> HIDE DEF e
      <3>2. call[c].sub \in Subs
        BY DEF IInv, TypeOK, Call
      <3>3. PICK t \in code[call[c].sub] : gw[t] = "disabled"
        BY <1>3, <2>2 DEF AnnounceCancel, At, CallCaused
      <3>4. t \in Subs /\ PriceOf[t] = PriceOf[call[c].sub]
        BY <3>2, <3>3 DEF IInv, TypeOK, CodesFitThePrice
      <3>5. Caused(e)
        BY <3>1, <3>3, <3>4 DEF Caused, PriceDisabled
      <3>6. QED
        BY <3>1, <3>5
    <2>3. QED
      BY <2>1, <2>2
  <1>5. QED
    BY <1>1, <1>2, <1>4, IdleCaused, RequestCauses

\* A row that has a code keeps it.
LEMMA CodesGrow ==
  ASSUME NEW h, CreateWebhook(h) \/ FailedWebhook(h)
  PROVE  \A s \in Subs : code[s] \subseteq code'[s]
  BY DEF CreateWebhook, FailedWebhook, Newest, Uncoded

LEMMA RowWebhookCauses ==
  ASSUME IInv, IInv', CausesInv, NEW h \in hooks, CreateWebhook(h) \/ FailedWebhook(h)
  PROVE  CausesInv'
  <1>1. UNCHANGED <<gw, charges, periodEnd, call, broker, sweep, day>>
    BY DEF CreateWebhook, FailedWebhook, provider
  <1>2. hooks' \subseteq hooks
    BY AnswerShrinks DEF CreateWebhook, FailedWebhook
  <1>3. day' >= day
    BY <1>1 DEF IInv, TypeOK
  <1>4. \A s \in Subs : code[s] \subseteq code'[s]
    BY CodesGrow
  <1>5. QED
    BY <1>1, <1>2, <1>3, <1>4, QuietCauses

LEMMA DisableWebhookCauses ==
  ASSUME IInv, IInv', CausesInv, NEW c \in Calls, NEW h \in hooks, DisableWebhook(c, h)
  PROVE  CausesInv'
  <1>t. TypeOK
    BY DEF IInv
  <1>1. UNCHANGED <<gw, charges, code, periodEnd, broker, sweep, day>>
    BY DEF DisableWebhook, provider
  <1>2. h.kind = "disable" /\ gw[h.sub] = "disabled"
    BY DEF DisableWebhook, CausesInv, HookCaused
  <1>3. CASE Answer({h}) /\ UNCHANGED call
    BY <1>1, <1>3, AnswerShrinks, RequestCauses
  <1>4. ASSUME NEW s \in Subs, h.sub \in code[s], UNCHANGED hooks,
               Enter(c, [pc |-> "announce_cancel", sub |-> s, until |-> 0,
                         first |-> FALSE, hook |-> {h}])
        PROVE  CausesInv'
    <2> DEFINE r == [pc |-> "announce_cancel", sub |-> s, until |-> 0,
                     first |-> FALSE, hook |-> {h}]
    <2>2. r.pc = "announce_cancel" /\ r.sub = s /\ call' = [call EXCEPT ![c] = r]
      BY <1>4 DEF Enter
    <2> HIDE DEF r
    <2>3. call'[c] = r /\ \A d \in Calls : d # c => call'[d] = call[d]
      BY <1>t, <2>2 DEF TypeOK
    <2>4. CallCaused(c)'
      BY <1>1, <1>2, <1>4, <2>2, <2>3 DEF CallCaused
    <2>5. QED
      BY <1>1, <1>4, <2>3, <2>4, RequestCauses
  <1>5. QED
    BY <1>3, <1>4 DEF DisableWebhook

LEMMA CancelCauses ==
  ASSUME IInv, IInv', CausesInv, NEW c \in Calls, NEW s \in Subs, Cancel(c, s)
  PROVE  CausesInv'
  <1>t. TypeOK
    BY DEF IInv
  <1>1. UNCHANGED <<gw, charges, code, periodEnd, sweep, day, hooks, broker>>
    BY DEF Cancel, row, provider
  <1>2. call'[c].pc = "cancel_at_provider" /\ \A d \in Calls : d # c => call'[d] = call[d]
    BY <1>t DEF Cancel, Enter, TypeOK
  <1>3. CallCaused(c)'
    BY <1>2 DEF CallCaused
  <1>4. QED
    BY <1>1, <1>2, <1>3, RequestCauses

\* The owner cancels the subscription whose code the row has.
LEMMA CancelAtProviderCauses ==
  ASSUME IInv, IInv', CausesInv, NEW c \in Calls, CancelAtProvider(c)
  PROVE  CausesInv'
  <1>t. TypeOK /\ TypeOK'
    BY DEF IInv
  <1>1. call[c].sub \in Subs /\ code[call[c].sub] \subseteq Subs
    BY <1>t DEF TypeOK, Call
  <1>2. PICK x \in code[call[c].sub] :
          \/ Disable(x) /\ Goto(c, "apply_cancel", 0) /\ UNCHANGED faults
          \/ gw[x] # "live" /\ Return(c) /\ UNCHANGED provider
    BY DEF CancelAtProvider
  <1>3. UNCHANGED <<code, periodEnd, sweep, broker, day>>
    BY DEF CancelAtProvider, row
  <1>4. CASE Disable(x) /\ Goto(c, "apply_cancel", 0)
    <2> DEFINE m == Message("disable", x, 0, 1)
    <2>1. m.kind = "disable" /\ m.sub = x
      BY MessageFields
    <2>2. /\ gw' = [gw EXCEPT ![x] = "disabled"] /\ gw[x] = "live"
          /\ UNCHANGED charges /\ hooks' = hooks \cup {m}
      BY <1>4 DEF Disable, Send
    <2> HIDE DEF m
    <2>3. /\ \A y \in Subs : gw[y] = "disabled" => gw'[y] = "disabled"
          /\ \A y \in Subs : Billed(y)' => Billed(y)
          /\ gw'[x] = "disabled" /\ charges'[x] > 0
      BY <1>t, <1>1, <2>2 DEF TypeOK, CausesInv, Billed
    <2>4. \A h \in hooks' : h \in hooks \/ HookCaused(h)'
      BY <2>1, <2>2, <2>3 DEF HookCaused
    <2>5. /\ call'[c].pc = "apply_cancel" /\ call'[c].sub = call[c].sub
          /\ \A d \in Calls : d # c => call'[d] = call[d]
      BY <1>t, <1>4 DEF Goto, TypeOK
    <2>6. CallCaused(c)'
      BY <1>3, <2>3, <2>5 DEF CallCaused
    <2>7. (\A y \in Subs : charges'[y] >= charges[y]) /\ day' >= day
      BY <1>t, <1>3, <2>2 DEF TypeOK
    <2>8. QED
      BY <1>t, <1>3, <2>3, <2>4, <2>5, <2>6, <2>7, CausesKept
  <1>5. CASE Return(c) /\ UNCHANGED provider
    <2>1. hooks' \subseteq hooks /\ call' = [call EXCEPT ![c] = NoCall]
      BY <1>5, AnswerShrinks DEF Return
    <2>2. UNCHANGED <<gw, charges>>
      BY <1>5 DEF provider
    <2>3. QED
      BY <1>3, <2>1, <2>2, IdleCaused, RequestCauses
  <1>6. QED
    BY <1>2, <1>4, <1>5

LEMMA FaultCauses ==
  ASSUME IInv, IInv', CausesInv, NEW c \in Calls, HandlerDies(c) \/ PublishLost(c)
  PROVE  CausesInv'
  <1>1. UNCHANGED <<gw, charges, code, sweep, day, periodEnd, broker>> /\ hooks' \subseteq hooks
    BY DEF HandlerDies, PublishLost, row, provider
  <1>2. call' = [call EXCEPT ![c] = NoCall]
    BY DEF HandlerDies, PublishLost
  <1>3. QED
    BY <1>1, <1>2, IdleCaused, RequestCauses

\* The sweep announces rows as they were when it found them over for good.
LEMMA SweepCauses ==
  ASSUME IInv, IInv', CausesInv, Sweep \/ SweepDies
  PROVE  CausesInv'
  <1>t. TypeOK
    BY DEF IInv
  <1>1. UNCHANGED <<gw, charges, code, periodEnd, hooks, call, day>>
    BY DEF Sweep, SweepPastDue, SweepExpire, SweepAnnounce, SweepDies, row, provider
  <1>2. /\ \A x \in Subs : charges'[x] >= charges[x] /\ (Billed(x)' <=> Billed(x))
        /\ day' >= day
    BY <1>t, <1>1 DEF TypeOK, Billed
  <1>3. \A e \in broker' \cup sweep'.events : e \in broker \cup sweep.events \/ Caused(e)
    <2>1. CASE SweepExpire
      <3>1. SUFFICES ASSUME NEW e \in sweep'.events PROVE Caused(e)
        BY <2>1 DEF SweepExpire
      <3>2. PICK s \in Subs : /\ Expirable(s)
                              /\ e = [key |-> "expired", sub |-> s, until |-> periodEnd[s]]
        BY <2>1 DEF SweepExpire
      <3>3. e.key = "expired" /\ e.sub = s /\ e.until = periodEnd[s]
        BY <3>2
      <3>4. periodEnd[s] # 0 /\ periodEnd[s] < day - Grace
        BY <3>2 DEF Expirable
      <3>5. periodEnd[s] \in Nat /\ day \in Nat /\ Grace \in Nat
        BY <1>t, DayTypes, SubscriptionsAssumption DEF TypeOK
      <3>6. periodEnd[s] + Grace < day
        BY <3>4, <3>5
      <3>7. charges[s] > 0
        BY <3>4 DEF CausesInv
      <3>8. QED
        BY <3>3, <3>6, <3>7 DEF Caused
    <2>2. CASE ~SweepExpire
      BY <2>2 DEF Sweep, SweepPastDue, SweepAnnounce, SweepDies
    <2>3. QED
      BY <2>1, <2>2
  <1>4. QED
    BY <1>1, <1>2, <1>3, CausesKept DEF IInv

LEMMA CausesInitially == Init => CausesInv
  BY DEF Init, CausesInv, CallCaused, NoCall, Billed

LEMMA CausesStepwise == IInv /\ CausesInv /\ [Next]_vars => CausesInv'
  <1> SUFFICES ASSUME IInv, CausesInv, [Next]_vars PROVE CausesInv'
    OBVIOUS
  <1>1. IInv'
    BY Stepwise
  <1>2. ASSUME NEW s \in Subs,
               \/ Create(s)
               \/ FirstCharge(s) \/ Renew(s) \/ DeclineRenewal(s) \/ DisableOnDashboard(s)
        PROVE  CausesInv'
    BY <1>1, <1>2, CreateCauses, ProviderCauses
  <1>3. ASSUME NEW h \in hooks, Deliver(h)
        PROVE  CausesInv'
    BY <1>1, <1>3, RowWebhookCauses, ChargeWebhookCauses, DisableWebhookCauses DEF Deliver
  <1>4. ASSUME NEW c \in Calls, Proceed(c)
        PROVE  CausesInv'
    BY <1>1, <1>4, ApplyCauses, AnnounceCauses, CancelAtProviderCauses DEF Proceed
  <1>5. ASSUME NEW c \in Calls, HandlerDies(c) \/ PublishLost(c)
        PROVE  CausesInv'
    BY <1>1, <1>5, FaultCauses
  <1>6. ASSUME NEW c \in Calls, NEW s \in Subs, Cancel(c, s)
        PROVE  CausesInv'
    BY <1>1, <1>6, CancelCauses
  <1>7. CASE Sweep \/ SweepDies
    BY <1>1, <1>7, SweepCauses
  <1>8. CASE Tick \/ UNCHANGED vars
    <2>1. UNCHANGED <<gw, charges, code, periodEnd, hooks, call, broker, sweep>>
      BY <1>8 DEF Tick, vars, row, provider
    <2>2. day' >= day
      BY <1>8 DEF Tick, vars, IInv, TypeOK
    <2>3. QED
      BY <1>1, <2>1, <2>2, QuietCauses
  <1>9. QED
    BY <1>2, <1>3, <1>4, <1>5, <1>6, <1>7, <1>8 DEF Next

\* Every event the broker is given has its cause at the provider: a charge, a subscription
\* of that price that is disabled, a paid period that has been over for the days of grace.
\* For any subscriptions, whichever share a price, in whatever order and however often
\* messages arrive, handlers die and the sweep runs.
THEOREM EventsCaused == Spec => []EventsHaveCause
  <1>1. Init => CausesInv
    BY CausesInitially
  <1>2. IInv /\ CausesInv /\ [Next]_vars => CausesInv'
    BY CausesStepwise
  <1>3. CausesInv => EventsHaveCause
    BY DEF CausesInv, Caused, PriceDisabled, EventsHaveCause
  <1>4. QED
    BY <1>1, <1>2, <1>3, Inductive, PTL DEF Spec

-----------------------------------------------------------------------------
(* The order of messages: of a subscription that none overtook, requests   *)
(* hold the oldest message.                                                *)

\* What the provider's messages are about.
About(s, kinds) == {h \in hooks : h.sub = s /\ h.kind \in kinds}

\* Messages about one subscription have different numbers, and it is billed.
Numbered ==
  /\ \A h \in hooks : h.n <= sent[h.sub]
  /\ \A g, h \in hooks : g.sub = h.sub /\ g.n = h.n => g = h

\* The oldest message about its subscription.
Oldest(h) == h \in hooks /\ \A g \in hooks : g.sub = h.sub => h.n <= g.n

\* Requests that write a charge to the row, or announce it.
ChargeSteps == {"apply_charge", "announce_charge"}

\* What the request c does with the message it holds.
HeldBy(c) ==
  /\ \A h \in call[c].hook : h \in Hook /\ (h.sub \notin overtaken => Oldest(h))
  /\ call[c].pc \in ChargeSteps =>
       \E h \in Hook : /\ call[c].hook = {h} /\ h.kind = "charge" /\ h.sub = call[c].sub
                       /\ call[c].until = NextPeriodEnd(h)
  /\ call[c].pc \notin ChargeSteps => \A h \in call[c].hook : h.kind = "disable"

\* A request holds the oldest message about its subscription, and holds it alone, unless
\* messages about it overtook each other; until it is answered the provider repeats it.
Held ==
  /\ \A c \in Calls : HeldBy(c)
  /\ \A c, d \in Calls : \A h \in call[c].hook :
       h \in call[d].hook /\ h.sub \notin overtaken => c = d

\* The step adds messages about s of these kinds, numbered after all that were sent.
Posts(s, kinds) ==
  /\ hooks \subseteq hooks'
  /\ \A h \in hooks' : h \in hooks \/
       (h.sub = s /\ h.kind \in kinds /\ sent[s] < h.n /\ h.n <= sent'[s])
  /\ \A g, h \in hooks' : g \notin hooks /\ h \notin hooks /\ g.n = h.n => g = h
  /\ \E h \in hooks' : h \notin hooks
  /\ \A t \in Subs : sent'[t] >= sent[t]

LEMMA OnePosted ==
  ASSUME TypeOK, Numbered, NEW s \in Subs,
         NEW kind \in {"charge", "create", "failed", "disable"},
         NEW until \in Nat, Send(s, {Message(kind, s, until, 1)})
  PROVE  /\ Posts(s, {kind})
         /\ \A h \in hooks' : h \notin hooks => h.until = until
  <1> DEFINE m == Message(kind, s, until, 1)
  <1>1. /\ m.kind = kind /\ m.sub = s /\ m.until = until /\ m.n = sent[s] + 1
    BY MessageFields
  <1>2. Cardinality({m}) = 1
    BY FS_Singleton
  <1>3. hooks' = hooks \cup {m} /\ sent' = [sent EXCEPT ![s] = sent[s] + 1]
    BY <1>2 DEF Send
  <1> HIDE DEF m
  <1>4. /\ sent[s] \in Nat /\ sent'[s] = sent[s] + 1 /\ m \notin hooks
        /\ \A t \in Subs : sent'[t] >= sent[t]
    BY <1>1, <1>3 DEF TypeOK, Numbered
  <1>5. \A h \in hooks' : h \notin hooks => h = m
    BY <1>3
  <1>6. m \in hooks'
    BY <1>3
  <1>7. QED
    BY <1>1, <1>3, <1>4, <1>5, <1>6 DEF Posts

\* The first charge is followed by the message that the subscription was made.
LEMMA TwoPosted ==
  ASSUME TypeOK, Numbered, NEW s \in Subs, NEW until \in Nat,
         Send(s, {Message("charge", s, until, 1)} \cup {Message("create", s, 0, 2)})
  PROVE  /\ Posts(s, {"charge", "create"})
         /\ \A h \in hooks' : h \notin hooks /\ h.kind = "charge" => h.until = until
         /\ \E h \in hooks' : h \notin hooks /\ h.kind = "charge"
         /\ \E h \in hooks' : h \notin hooks /\ h.kind = "create"
  <1> DEFINE m == Message("charge", s, until, 1)
             n == Message("create", s, 0, 2)
  <1>1. /\ m.kind = "charge" /\ m.sub = s /\ m.until = until /\ m.n = sent[s] + 1
        /\ n.kind = "create" /\ n.sub = s /\ n.n = sent[s] + 2
    BY MessageFields
  <1>2. Cardinality({m} \cup {n}) = 2
    <2>1. m # n
      BY <1>1
    <2> HIDE DEF m, n
    <2>2. IsFiniteSet({m}) /\ Cardinality({m}) = 1 /\ n \notin {m}
      BY <2>1, FS_Singleton
    <2>3. Cardinality({m} \cup {n}) = Cardinality({m}) + 1
      BY <2>2, FS_AddElement
    <2>4. QED
      BY <2>2, <2>3
  <1>3. hooks' = hooks \cup ({m} \cup {n}) /\ sent' = [sent EXCEPT ![s] = sent[s] + 2]
    BY <1>2 DEF Send
  <1> HIDE DEF m, n
  <1>4. /\ sent[s] \in Nat /\ sent'[s] = sent[s] + 2 /\ m \notin hooks /\ n \notin hooks
        /\ \A t \in Subs : sent'[t] >= sent[t]
    BY <1>1, <1>3 DEF TypeOK, Numbered
  <1>5. \A h \in hooks' : h \notin hooks => h = m \/ h = n
    BY <1>3
  <1>6. m \in hooks' /\ n \in hooks' /\ hooks \subseteq hooks'
    BY <1>3
  <1>7. Posts(s, {"charge", "create"})
    BY <1>1, <1>4, <1>5, <1>6 DEF Posts
  <1>8. QED
    BY <1>1, <1>4, <1>5, <1>6, <1>7

LEMMA FirstChargePosts ==
  ASSUME TypeOK, Numbered, NEW s \in Subs, FirstCharge(s)
  PROVE  /\ Posts(s, {"charge", "create"})
         /\ \A h \in hooks' : h \notin hooks /\ h.kind = "charge" => h.until \in {0, paidUntil'[s]}
         /\ \E h \in hooks' : h \notin hooks /\ h.kind = "charge"
         /\ \E h \in hooks' : h \notin hooks /\ h.kind = "create"
  <1>1. PICK d \in Periods :
          /\ paidUntil' = [paidUntil EXCEPT ![s] = day + d]
          /\ \E u \in {0, day + d} :
               Send(s, {Message("charge", s, u, 1)} \cup {Message("create", s, 0, 2)})
    BY DEF FirstCharge, Charge
  <1>2. day + d \in Nat /\ paidUntil'[s] = day + d
    BY <1>1, DayTypes DEF TypeOK
  <1>3. PICK u \in {0, day + d} :
          Send(s, {Message("charge", s, u, 1)} \cup {Message("create", s, 0, 2)})
    BY <1>1
  <1>4. u \in Nat
    BY <1>2, <1>3
  <1>5. QED
    BY <1>2, <1>3, <1>4, TwoPosted

LEMMA RenewPosts ==
  ASSUME TypeOK, Numbered, NEW s \in Subs, Renew(s)
  PROVE  /\ Posts(s, {"charge"})
         /\ \A h \in hooks' : h \notin hooks => h.until \in {0, paidUntil'[s]}
  <1>1. PICK d \in Periods :
          /\ paidUntil' = [paidUntil EXCEPT ![s] = day + d]
          /\ \E u \in {0, day + d} : Send(s, {Message("charge", s, u, 1)} \cup {})
    BY DEF Renew, Charge
  <1>2. day + d \in Nat /\ paidUntil'[s] = day + d
    BY <1>1, DayTypes DEF TypeOK
  <1>3. PICK u \in {0, day + d} : Send(s, {Message("charge", s, u, 1)} \cup {})
    BY <1>1
  <1>4. u \in Nat
    BY <1>2, <1>3
  <1>5. Send(s, {Message("charge", s, u, 1)})
    <2>1. {Message("charge", s, u, 1)} \cup {} = {Message("charge", s, u, 1)}
      OBVIOUS
    <2>2. QED
      BY <1>3, <2>1
  <1>6. QED
    BY <1>2, <1>3, <1>4, <1>5, OnePosted

LEMMA NoticePosts ==
  ASSUME TypeOK, Numbered, NEW s \in Subs
  PROVE  /\ DeclineRenewal(s) => Posts(s, {"failed"})
         /\ Disable(s) => Posts(s, {"disable"})
  BY DayTypes, OnePosted DEF DeclineRenewal, Disable

OrderInv == Numbered /\ Held

\* A message the step adds comes after all older ones about its subscription.
NewerLast ==
  \A h \in hooks' : h \in hooks \/ \A g \in hooks : g.sub = h.sub => g.n < h.n

LEMMA HookTypes ==
  ASSUME IInv
  PROVE  /\ \A h \in hooks : h.sub \in Subs /\ h.n \in Nat /\ h.until \in Nat
         /\ \A c \in Calls : call[c].sub \in Subs /\ call[c].until \in Nat
         /\ \A s \in Subs : periodEnd[s] \in Nat /\ paidUntil[s] \in Nat /\ sent[s] \in Nat
         /\ day \in Nat /\ Grace \in Nat /\ Approximation \in Nat /\ Shortfall \in Nat
  <1>1. TypeOK
    BY DEF IInv
  <1>3. \A h \in hooks : h.sub \in Subs /\ h.n \in Nat /\ h.until \in Nat
    BY <1>1 DEF TypeOK, Hook
  <1>4. \A c \in Calls : call[c].sub \in Subs /\ call[c].until \in Nat
    BY <1>1 DEF TypeOK, Call
  <1>5. /\ \A s \in Subs : periodEnd[s] \in Nat /\ paidUntil[s] \in Nat /\ sent[s] \in Nat
        /\ day \in Nat /\ Grace \in Nat /\ Approximation \in Nat /\ Shortfall \in Nat
    BY <1>1, SubscriptionsAssumption DEF TypeOK
  <1>6. QED
    BY <1>3, <1>4, <1>5

LEMMA PostsNewer ==
  ASSUME IInv, IInv', Numbered, NEW s \in Subs, NEW kinds, Posts(s, kinds)
  PROVE  NewerLast
  <1>1. SUFFICES ASSUME NEW h \in hooks', h \notin hooks, NEW g \in hooks, g.sub = h.sub
                 PROVE  g.n < h.n
    BY DEF NewerLast
  <1>2. h.sub = s /\ sent[s] < h.n /\ h.n <= sent'[s] /\ g.n <= sent[s]
    BY <1>1 DEF Posts, Numbered
  <1>3. g.n \in Nat /\ sent[s] \in Nat
    BY HookTypes
  <1>4. h.n \in Nat
    BY DEF IInv, TypeOK, Hook
  <1>5. QED
    BY <1>2, <1>3, <1>4

LEMMA NumberedPosts ==
  ASSUME IInv, IInv', Numbered, NEW s \in Subs, NEW kinds, Posts(s, kinds)
  PROVE  Numbered'
  <1>1. ASSUME NEW h \in hooks'
        PROVE  h.n <= sent'[h.sub]
    <2>1. CASE h \in hooks
      <3>1. h.sub \in Subs /\ h.n \in Nat /\ h.n <= sent[h.sub]
        BY <2>1, HookTypes DEF Numbered
      <3>2. sent'[h.sub] >= sent[h.sub] /\ sent[h.sub] \in Nat /\ sent'[h.sub] \in Nat
        BY <3>1 DEF Posts, IInv, TypeOK
      <3>3. QED
        BY <3>1, <3>2
    <2>2. CASE h \notin hooks
      BY <1>1, <2>2 DEF Posts
    <2>3. QED
      BY <2>1, <2>2
  <1>2. ASSUME NEW g \in hooks', NEW h \in hooks', g.sub = h.sub, g.n = h.n
        PROVE  g = h
    <2>1. NewerLast
      BY PostsNewer
    <2>2. \A x, y \in hooks' : x \in hooks /\ y \notin hooks /\ x.sub = y.sub => x.n # y.n
      <3>1. \A y \in hooks' : y.n \in Nat
        BY DEF IInv, TypeOK, Hook
      <3>2. QED
        BY <2>1, <3>1 DEF NewerLast
    <2>3. QED
      BY <1>2, <2>2 DEF Posts, Numbered
  <1>3. QED
    BY <1>1, <1>2 DEF Numbered

LEMMA NumberedKept ==
  ASSUME IInv, Numbered, hooks' \subseteq hooks, UNCHANGED sent
  PROVE  Numbered'
  BY HookTypes DEF Numbered

\* A request that is not touched keeps its message.
LEMMA HeldByKept ==
  ASSUME IInv, IInv', OrderInv, NEW c \in Calls, call'[c] = call[c], NewerLast,
         overtaken \subseteq overtaken',
         \A h \in hooks : h.sub \notin overtaken' /\ h \in call[c].hook => h \in hooks',
         day' = day \/ call[c].pc \notin ChargeSteps
  PROVE  HeldBy(c)'
  <1>1. HeldBy(c)
    BY DEF OrderInv, Held
  <1>2. ASSUME NEW h \in call[c].hook, h.sub \notin overtaken' PROVE Oldest(h)'
    <2>1. Oldest(h) /\ h \in hooks'
      BY <1>1, <1>2 DEF HeldBy, Oldest
    <2>2. ASSUME NEW g \in hooks', g.sub = h.sub PROVE h.n <= g.n
      <3>1. CASE g \in hooks
        BY <2>1, <2>2, <3>1 DEF Oldest
      <3>2. CASE g \notin hooks
        <4>1. h.n < g.n
          BY <2>1, <2>2, <3>2 DEF NewerLast, Oldest
        <4>2. h.n \in Nat /\ g.n \in Nat
          BY <2>1, <2>2 DEF IInv, TypeOK, Hook
        <4>3. QED
          BY <4>1, <4>2
      <3>3. QED
        BY <3>1, <3>2
    <2>3. QED
      BY <2>1, <2>2 DEF Oldest
  <1>3. call[c].pc \in ChargeSteps => \A h : NextPeriodEnd(h)' = NextPeriodEnd(h)
    BY DEF NextPeriodEnd
  <1>4. QED
    BY <1>1, <1>2, <1>3 DEF HeldBy

\* Steps that touch no request.
LEMMA OrderQuiet ==
  ASSUME IInv, IInv', OrderInv, UNCHANGED call, NewerLast, Numbered',
         overtaken \subseteq overtaken',
         \A c \in Calls : \A h \in hooks :
           h.sub \notin overtaken' /\ h \in call[c].hook => h \in hooks',
         day' = day \/ \A c \in Calls : call[c].pc \notin ChargeSteps
  PROVE  OrderInv'
  <1>1. \A c \in Calls : HeldBy(c)'
    BY HeldByKept
  <1>2. QED
    BY <1>1 DEF OrderInv, Held

\* Steps of the request c.
LEMMA OrderRequest ==
  ASSUME IInv, IInv', OrderInv, NEW c \in Calls, day' = day,
         NewerLast, Numbered', HeldBy(c)', overtaken \subseteq overtaken',
         \A d \in Calls : d # c =>
           /\ call'[d] = call[d]
           /\ \A h \in call[d].hook : h.sub \notin overtaken' =>
                h \notin call'[c].hook /\ (h \in hooks => h \in hooks')
  PROVE  OrderInv'
  <1>1. \A d \in Calls : d # c => HeldBy(d)'
    BY HeldByKept
  <1>2. \A d, e \in Calls : \A h \in call'[d].hook :
          h \in call'[e].hook /\ h.sub \notin overtaken' => d = e
    BY DEF OrderInv, Held
  <1>3. QED
    BY <1>1, <1>2 DEF OrderInv, Held

\* No request but one is about the same message, and no two are at the oldest of one
\* subscription.
LEMMA HeldAlone ==
  ASSUME OrderInv, NEW c \in Calls, NEW d \in Calls, c # d,
         NEW g \in call[c].hook, NEW h \in call[d].hook, IInv, h.sub \notin overtaken
  PROVE  g.sub # h.sub
  <1> SUFFICES ASSUME g.sub = h.sub PROVE FALSE
    OBVIOUS
  <1>1. Oldest(g) /\ Oldest(h) /\ g # h
    BY DEF OrderInv, Held, HeldBy
  <1>2. g.n \in Nat /\ h.n \in Nat
    BY <1>1, HookTypes DEF Oldest
  <1>3. g.sub = h.sub => g.n = h.n
    BY <1>1, <1>2 DEF Oldest
  <1>4. QED
    BY <1>1, <1>3 DEF OrderInv, Numbered, Oldest

\* A message that is not handled before an older one, and whose subscription no message
\* overtook before.
LEMMA DeliveredOldest ==
  ASSUME NEW h, Delivered(h)
  PROVE  /\ overtaken \subseteq overtaken'
         /\ h.sub \notin overtaken' => Oldest(h) /\ \A c \in Calls : h \notin call[c].hook
  BY DEF Delivered, InTurn, Oldest

LEMMA SameHooksNewer ==
  ASSUME hooks' \subseteq hooks
  PROVE  NewerLast
  BY DEF NewerLast

LEMMA CreateOrder ==
  ASSUME IInv, IInv', OrderInv, NEW s \in Subs, Create(s)
  PROVE  OrderInv'
  <1>1. UNCHANGED <<hooks, sent, call, day, overtaken>>
    BY DEF Create, LookUpPlan, CreatePlan, CachePlan, OpenCheckout, InsertRow, provider, history
  <1>2. NewerLast /\ Numbered'
    BY <1>1, SameHooksNewer, NumberedKept DEF OrderInv
  <1>3. QED
    BY <1>1, <1>2, OrderQuiet

\* The provider's steps post.
LEMMA ProviderPosts ==
  ASSUME IInv, OrderInv, NEW s \in Subs,
         FirstCharge(s) \/ Renew(s) \/ DeclineRenewal(s) \/ Disable(s)
  PROVE  \E kinds : Posts(s, kinds)
  BY FirstChargePosts, RenewPosts, NoticePosts DEF IInv, OrderInv

LEMMA ProviderOrder ==
  ASSUME IInv, IInv', OrderInv, NEW s \in Subs,
         FirstCharge(s) \/ Renew(s) \/ DeclineRenewal(s) \/ DisableOnDashboard(s)
  PROVE  OrderInv'
  <1>1. UNCHANGED <<call, day, overtaken>>
    BY DEF FirstCharge, Renew, Charge, DeclineRenewal, DisableOnDashboard, history
  <1>2. PICK kinds : Posts(s, kinds)
    BY ProviderPosts DEF DisableOnDashboard
  <1>3. NewerLast /\ Numbered'
    BY <1>2, PostsNewer, NumberedPosts DEF OrderInv
  <1>4. hooks \subseteq hooks'
    BY <1>2 DEF Posts
  <1>5. QED
    BY <1>1, <1>3, <1>4, OrderQuiet

\* A message that no request holds is answered, or nothing is.
LEMMA AnsweredOrder ==
  ASSUME IInv, IInv', OrderInv, UNCHANGED <<sent, call>>, hooks' \subseteq hooks,
         overtaken \subseteq overtaken',
         \A h \in hooks : h.sub \notin overtaken' =>
           h \in hooks' \/ \A c \in Calls : h \notin call[c].hook,
         day' = day \/ \A c \in Calls : call[c].pc \notin ChargeSteps
  PROVE  OrderInv'
  <1>1. NewerLast /\ Numbered'
    BY SameHooksNewer, NumberedKept DEF OrderInv
  <1>2. QED
    BY <1>1, OrderQuiet

LEMMA RowWebhookOrder ==
  ASSUME IInv, IInv', OrderInv, NEW h \in hooks,
         \/ CreateWebhook(h) \/ FailedWebhook(h)
         \/ \E c \in Calls : DisableWebhook(c, h) /\ UNCHANGED call
  PROVE  OrderInv'
  <1>1. UNCHANGED <<sent, call, day>> /\ Delivered(h)
    BY DEF CreateWebhook, FailedWebhook, DisableWebhook, provider
  <1>2. hooks' = hooks \/ hooks' = hooks \ {h}
    BY DEF CreateWebhook, FailedWebhook, DisableWebhook, Answer
  <1>3. /\ overtaken \subseteq overtaken'
        /\ h.sub \notin overtaken' => \A c \in Calls : h \notin call[c].hook
    BY <1>1, DeliveredOldest
  <1>4. QED
    BY <1>1, <1>2, <1>3, AnsweredOrder

\* A request that ends lets its message go, answered or not.
LEMMA EndOrder ==
  ASSUME IInv, IInv', OrderInv, NEW c \in Calls, UNCHANGED <<sent, day, overtaken>>,
         call' = [call EXCEPT ![c] = NoCall],
         hooks' = hooks \/ hooks' = hooks \ call[c].hook
  PROVE  OrderInv'
  <1>1. NewerLast /\ Numbered'
    BY SameHooksNewer, NumberedKept DEF OrderInv
  <1>2. call'[c].hook = {} /\ call'[c].pc = "idle" /\ \A d \in Calls : d # c => call'[d] = call[d]
    BY DEF IInv, TypeOK, NoCall
  <1>3. HeldBy(c)'
    BY <1>2 DEF HeldBy, ChargeSteps
  <1>4. QED
    BY <1>1, <1>2, <1>3, OrderRequest DEF OrderInv, Held

LEMMA ReturnOrder ==
  ASSUME IInv, IInv', OrderInv, NEW c \in Calls,
         \/ AnnounceCharge(c) \/ AnnounceCancel(c) \/ HandlerDies(c) \/ PublishLost(c)
         \/ CancelAtProvider(c) /\ Return(c) /\ UNCHANGED provider
  PROVE  OrderInv'
  <1>1. UNCHANGED <<sent, day, overtaken>>
    BY DEF AnnounceCharge, AnnounceCancel, HandlerDies, PublishLost, CancelAtProvider, provider
  <1>2. /\ call' = [call EXCEPT ![c] = NoCall]
        /\ hooks' = hooks \/ hooks' = hooks \ call[c].hook
    BY DEF AnnounceCharge, AnnounceCancel, HandlerDies, PublishLost, Return, Answer
  <1>3. QED
    BY <1>1, <1>2, EndOrder

\* A message is taken by a request.
LEMMA TakeOrder ==
  ASSUME IInv, IInv', OrderInv, NEW c \in Calls, NEW h \in hooks, NEW r,
         Delivered(h), call' = [call EXCEPT ![c] = r], r.hook = {h},
         UNCHANGED <<sent, hooks, day>>,
         \/ /\ r.pc = "apply_charge" /\ h.kind = "charge" /\ h.sub = r.sub
            /\ r.until = NextPeriodEnd(h)
         \/ r.pc = "announce_cancel" /\ h.kind = "disable"
  PROVE  OrderInv'
  <1>1. NewerLast /\ Numbered'
    BY SameHooksNewer, NumberedKept DEF OrderInv
  <1>2. call'[c] = r /\ \A d \in Calls : d # c => call'[d] = call[d]
    BY DEF IInv, TypeOK
  <1>3. /\ overtaken \subseteq overtaken'
        /\ h.sub \notin overtaken' => Oldest(h) /\ \A d \in Calls : h \notin call[d].hook
    BY DeliveredOldest
  <1>4. \A d \in Calls : d # c => \A g \in call[d].hook : g.sub \notin overtaken' =>
          g \notin call'[c].hook /\ (g \in hooks => g \in hooks')
    BY <1>2, <1>3
  <1>5. HeldBy(c)'
    <2>1. h.sub \notin overtaken' => Oldest(h)'
      BY <1>3 DEF Oldest
    <2>2. h \in Hook
      BY DEF IInv, TypeOK
    <2>3. NextPeriodEnd(h)' = NextPeriodEnd(h)
      BY DEF NextPeriodEnd
    <2>4. QED
      BY <1>2, <2>1, <2>2, <2>3 DEF HeldBy, ChargeSteps
  <1>6. QED
    BY <1>1, <1>2, <1>3, <1>4, <1>5, OrderRequest

LEMMA ChargeWebhookOrder ==
  ASSUME IInv, IInv', OrderInv, NEW c \in Calls, NEW h \in hooks, ChargeWebhook(c, h)
  PROVE  OrderInv'
  <1> DEFINE until == NextPeriodEnd(h)
             first == status[h.sub] = "pending"
             r == [pc |-> "apply_charge", sub |-> h.sub, until |-> until,
                   first |-> first, hook |-> {h}]
  <1>1. /\ UNCHANGED <<sent, hooks, day>> /\ call' = [call EXCEPT ![c] = r]
        /\ Delivered(h) /\ h.kind = "charge"
    BY DEF ChargeWebhook, Enter, provider
  <1>2. r.pc = "apply_charge" /\ h.sub = r.sub /\ r.until = NextPeriodEnd(h) /\ r.hook = {h}
    OBVIOUS
  <1> HIDE DEF r
  <1>3. QED
    BY <1>1, <1>2, TakeOrder

LEMMA DisableWebhookOrder ==
  ASSUME IInv, IInv', OrderInv, NEW c \in Calls, NEW h \in hooks, DisableWebhook(c, h)
  PROVE  OrderInv'
  <1>1. CASE UNCHANGED call
    BY <1>1, RowWebhookOrder
  <1>2. ASSUME NEW s \in Subs, UNCHANGED <<hooks, faults>>,
               Enter(c, [pc |-> "announce_cancel", sub |-> s, until |-> 0,
                         first |-> FALSE, hook |-> {h}])
        PROVE  OrderInv'
    <2> DEFINE r == [pc |-> "announce_cancel", sub |-> s, until |-> 0,
                     first |-> FALSE, hook |-> {h}]
    <2>1. /\ UNCHANGED <<sent, hooks, day>> /\ call' = [call EXCEPT ![c] = r]
          /\ Delivered(h) /\ h.kind = "disable"
      BY <1>2 DEF DisableWebhook, Enter, provider
    <2>2. r.pc = "announce_cancel" /\ r.hook = {h}
      OBVIOUS
    <2> HIDE DEF r
    <2>3. QED
      BY <2>1, <2>2, TakeOrder
  <1>3. QED
    BY <1>1, <1>2 DEF DisableWebhook

\* A request that writes a charge keeps its message.
LEMMA ApplyChargeOrder ==
  ASSUME IInv, IInv', OrderInv, NEW c \in Calls, ApplyCharge(c)
  PROVE  OrderInv'
  <1>t. TypeOK
    BY DEF IInv
  <1>1. /\ UNCHANGED <<sent, hooks, day, overtaken>>
        /\ Goto(c, "announce_charge", call[c].until)
        /\ call[c].pc = "apply_charge"
    BY DEF ApplyCharge, At, provider, history
  <1>2. NewerLast /\ Numbered'
    BY <1>1, SameHooksNewer, NumberedKept DEF OrderInv
  <1>3. /\ call'[c].pc = "announce_charge" /\ call'[c].sub = call[c].sub
        /\ call'[c].until = call[c].until /\ call'[c].hook = call[c].hook
        /\ \A d \in Calls : d # c => call'[d] = call[d]
    BY <1>t, <1>1 DEF Goto, TypeOK
  <1>4. HeldBy(c)
    BY DEF OrderInv, Held
  <1>5. HeldBy(c)'
    <2>1. \A g : (Oldest(g)' <=> Oldest(g)) /\ NextPeriodEnd(g)' = NextPeriodEnd(g)
      BY <1>1 DEF Oldest, NextPeriodEnd
    <2>2. QED
      BY <1>1, <1>3, <1>4, <2>1 DEF HeldBy, ChargeSteps
  <1>6. QED
    BY <1>1, <1>2, <1>3, <1>5, OrderRequest DEF OrderInv, Held

\* The owner's cancellation holds no message and may cause one.
LEMMA CancellingOrder ==
  ASSUME IInv, IInv', OrderInv, NEW c \in Calls,
         \/ ApplyCancel(c)
         \/ \E x \in Subs : Disable(x) /\ CancelAtProvider(c) /\ Goto(c, "apply_cancel", 0)
  PROVE  OrderInv'
  <1>t. TypeOK
    BY DEF IInv
  <1>1. UNCHANGED <<day, overtaken>> /\ call[c].pc \in {"cancel_at_provider", "apply_cancel"}
    BY DEF ApplyCancel, CancelAtProvider, At, history
  <1>2. NewerLast /\ Numbered' /\ hooks \subseteq hooks'
    <2>1. CASE ApplyCancel(c)
      BY <2>1, SameHooksNewer, NumberedKept DEF ApplyCancel, provider, OrderInv
    <2>2. ASSUME NEW x \in Subs, Disable(x) PROVE NewerLast /\ Numbered' /\ hooks \subseteq hooks'
      <3>1. PICK kinds : Posts(x, kinds)
        BY <2>2, ProviderPosts
      <3>3. hooks \subseteq hooks'
        BY <3>1 DEF Posts
      <3>4. QED
        <4>1. Numbered
          BY DEF OrderInv
        <4>2. NewerLast
          BY <3>1, <4>1, PostsNewer
        <4>3. Numbered'
          BY <3>1, <4>1, NumberedPosts
        <4>4. QED
          BY <3>3, <4>2, <4>3
    <2>3. QED
      BY <2>1, <2>2
  <1>3. PICK step \in {"apply_cancel", "announce_cancel"} : \E until : Goto(c, step, until)
    BY DEF ApplyCancel
  <1>4. /\ call'[c].pc = step /\ call'[c].hook = call[c].hook
        /\ \A d \in Calls : d # c => call'[d] = call[d]
    BY <1>t, <1>3 DEF Goto, TypeOK
  <1>5. HeldBy(c)'
    <2>1. \A h \in call[c].hook :
            h \in Hook /\ h.kind = "disable" /\ (h.sub \notin overtaken => Oldest(h))
      BY <1>1 DEF OrderInv, Held, HeldBy, ChargeSteps
    <2>2. ASSUME NEW h \in call[c].hook, h.sub \notin overtaken PROVE Oldest(h)'
      <3>1. Oldest(h) /\ h \in hooks'
        BY <1>2, <2>1, <2>2 DEF Oldest
      <3>2. ASSUME NEW g \in hooks', g.sub = h.sub PROVE h.n <= g.n
        <4>1. h.n \in Nat /\ g.n \in Nat
          BY <3>1, <3>2 DEF IInv, TypeOK, Hook
        <4>2. g \in hooks \/ h.n < g.n
          BY <1>2, <3>1, <3>2 DEF NewerLast, Oldest
        <4>3. QED
          BY <3>1, <3>2, <4>1, <4>2 DEF Oldest
      <3>3. QED
        BY <3>1, <3>2 DEF Oldest
    <2>3. QED
      BY <1>1, <1>4, <2>1, <2>2 DEF HeldBy, ChargeSteps
  <1>6. QED
    BY <1>1, <1>2, <1>4, <1>5, OrderRequest DEF OrderInv, Held

LEMMA CancelOrder ==
  ASSUME IInv, IInv', OrderInv, NEW c \in Calls, NEW s \in Subs, Cancel(c, s)
  PROVE  OrderInv'
  <1>1. UNCHANGED <<sent, hooks, day, overtaken>>
    BY DEF Cancel, provider, history
  <1>2. /\ call'[c].hook = {} /\ call'[c].pc = "cancel_at_provider"
        /\ \A d \in Calls : d # c => call'[d] = call[d]
    BY DEF Cancel, Enter, IInv, TypeOK
  <1>3. NewerLast /\ Numbered'
    BY <1>1, SameHooksNewer, NumberedKept DEF OrderInv
  <1>4. HeldBy(c)'
    BY <1>2 DEF HeldBy, ChargeSteps
  <1>5. QED
    BY <1>1, <1>2, <1>3, <1>4, OrderRequest

LEMMA CancelAtProviderOrder ==
  ASSUME IInv, IInv', OrderInv, NEW c \in Calls, CancelAtProvider(c)
  PROVE  OrderInv'
  <1>1. call[c].sub \in Subs
    BY HookTypes
  <1>2. code[call[c].sub] \subseteq Subs
    BY <1>1 DEF IInv, TypeOK
  <1>3. \/ \E x \in Subs : Disable(x) /\ Goto(c, "apply_cancel", 0)
        \/ Return(c) /\ UNCHANGED provider
    BY <1>2 DEF CancelAtProvider
  <1>4. QED
    BY <1>3, CancellingOrder, ReturnOrder

LEMMA OrderInitially == Init => OrderInv
  <1> SUFFICES ASSUME Init PROVE OrderInv
    OBVIOUS
  <1>1. \A c \in Calls : call[c].hook = {} /\ call[c].pc = "idle"
    BY DEF Init, NoCall
  <1>2. Held
    BY <1>1 DEF Held, HeldBy, ChargeSteps
  <1>3. Numbered
    BY DEF Init, Numbered
  <1>4. QED
    BY <1>2, <1>3 DEF OrderInv

LEMMA OrderStepwise == IInv /\ OrderInv /\ [Next]_vars => OrderInv'
  <1> SUFFICES ASSUME IInv, OrderInv, [Next]_vars PROVE OrderInv'
    OBVIOUS
  <1>1. IInv'
    BY Stepwise
  <1>2. ASSUME NEW s \in Subs,
               \/ Create(s)
               \/ FirstCharge(s) \/ Renew(s) \/ DeclineRenewal(s) \/ DisableOnDashboard(s)
        PROVE  OrderInv'
    BY <1>1, <1>2, CreateOrder, ProviderOrder
  <1>3. ASSUME NEW h \in hooks, Deliver(h)
        PROVE  OrderInv'
    BY <1>1, <1>3, RowWebhookOrder, ChargeWebhookOrder, DisableWebhookOrder DEF Deliver
  <1>4. ASSUME NEW c \in Calls, Proceed(c)
        PROVE  OrderInv'
    BY <1>1, <1>4, ApplyChargeOrder, CancellingOrder, ReturnOrder, CancelAtProviderOrder
       DEF Proceed
  <1>5. ASSUME NEW c \in Calls, HandlerDies(c) \/ PublishLost(c)
        PROVE  OrderInv'
    BY <1>1, <1>5, ReturnOrder
  <1>6. ASSUME NEW c \in Calls, NEW s \in Subs, Cancel(c, s)
        PROVE  OrderInv'
    BY <1>1, <1>6, CancelOrder
  <1>7. CASE Sweep \/ SweepDies \/ Tick \/ UNCHANGED vars
    <2>1. UNCHANGED <<sent, call, hooks, overtaken>>
      BY <1>7 DEF Sweep, SweepPastDue, SweepExpire, SweepAnnounce, SweepDies, Tick, vars,
                  provider, history
    <2>2. day' = day \/ \A c \in Calls : call[c].pc \notin ChargeSteps
      BY <1>7 DEF Sweep, SweepPastDue, SweepExpire, SweepAnnounce, SweepDies, Tick, At, vars,
                  ChargeSteps
    <2>3. QED
      BY <1>1, <2>1, <2>2, AnsweredOrder
  <1>8. QED
    BY <1>2, <1>3, <1>4, <1>5, <1>6, <1>7 DEF Next

-----------------------------------------------------------------------------
(* NeverCutShort: the period a customer paid for is on the row, or in a    *)
(* message that still comes.                                               *)

\* A message about the period the customer paid for last, or about no period: then it is
\* the one that begins when the message is handled.
Covers(h) == h.kind = "charge" /\ (h.until = 0 \/ h.until >= paidUntil[h.sub])

\* The message is written on the row already; only its answer is still due.
Announcing(h) == \E c \in Calls : h \in call[c].hook /\ call[c].pc = "announce_charge"
Due(s) == \E h \in hooks : h.sub = s /\ Covers(h) /\ ~Announcing(h)

\* What was paid for last is written on the row, or still comes, after all older messages:
\* the row's period may be short of it by Shortfall days.
PaidFor ==
  /\ \A s \in Subs : paidUntil[s] <= day + Approximation + Shortfall
  /\ \A g \in hooks : g.kind = "charge" /\ g.sub \notin overtaken =>
       \E h \in hooks : h.sub = g.sub /\ Covers(h) /\ h.n >= g.n
  /\ \A s \in Subs : s \notin overtaken => periodEnd[s] + Shortfall >= paidUntil[s] \/ Due(s)
  /\ \A s \in Subs : s \notin overtaken /\ status[s] = "expired" => paidUntil[s] < day \/ Due(s)

\* Steps that charge nobody and write no period.
LEMMA PaidKept ==
  ASSUME IInv, IInv', OrderInv, PaidFor, UNCHANGED <<paidUntil, periodEnd>>, day' >= day,
         overtaken \subseteq overtaken',
         \A h \in hooks' : h \in hooks \/ h.kind # "charge",
         \A h \in hooks : h.kind = "charge" /\ h \notin hooks' /\ h.sub \notin overtaken' =>
           Announcing(h) /\ Oldest(h),
         \A h \in hooks : Announcing(h)' => Announcing(h),
         \A s \in Subs : status'[s] = "expired" =>
                           status[s] = "expired" \/ periodEnd[s] + Grace < day
  PROVE  PaidFor'
  <1>t. /\ \A s \in Subs : paidUntil[s] \in Nat /\ periodEnd[s] \in Nat
        /\ day \in Nat /\ day' \in Nat /\ Grace \in Nat /\ Approximation \in Nat
        /\ Shortfall \in Nat
        /\ \A h \in hooks : h.sub \in Subs /\ h.n \in Nat
    <2>1. day' \in Nat
      BY DEF IInv, TypeOK
    <2>2. QED
      BY <2>1, HookTypes
  <1>1. \A s \in Subs : paidUntil'[s] <= day' + Approximation + Shortfall
    BY <1>t DEF PaidFor
  <1>2. ASSUME NEW g \in hooks', g.kind = "charge", g.sub \notin overtaken'
        PROVE  \E h \in hooks' : h.sub = g.sub /\ Covers(h)' /\ h.n >= g.n
    <2>1. PICK h \in hooks : h.sub = g.sub /\ Covers(h) /\ h.n >= g.n
      BY <1>2 DEF PaidFor
    <2>2. CASE h \in hooks'
      BY <2>1, <2>2 DEF Covers
    <2>3. CASE h \notin hooks'
      <3>1. g \in hooks /\ Oldest(h)
        BY <1>2, <2>1, <2>3 DEF Covers
      <3>2. g.n = h.n
        BY <1>t, <2>1, <3>1 DEF Oldest
      <3>3. g = h
        BY <2>1, <3>1, <3>2 DEF OrderInv, Numbered
      <3>4. QED
        BY <2>3, <3>3
    <2>4. QED
      BY <2>2, <2>3
  <1>3. \A s \in Subs : s \notin overtaken' /\ Due(s) => Due(s)'
    <2>1. SUFFICES ASSUME NEW s \in Subs, s \notin overtaken',
                          NEW h \in hooks, h.sub = s, Covers(h), ~Announcing(h)
                   PROVE  Due(s)'
      BY DEF Due
    <2>2. h \in hooks' /\ ~Announcing(h)'
      BY <2>1 DEF Covers
    <2>3. Covers(h)'
      BY <2>1 DEF Covers
    <2>4. QED
      BY <2>1, <2>2, <2>3 DEF Due
  <1>4. \A s \in Subs : s \notin overtaken' =>
          periodEnd'[s] + Shortfall >= paidUntil'[s] \/ Due(s)'
    BY <1>3 DEF PaidFor
  <1>5. ASSUME NEW s \in Subs, s \notin overtaken', status'[s] = "expired"
        PROVE  paidUntil'[s] < day' \/ Due(s)'
    <2>1. paidUntil[s] < day \/ Due(s)
      <3>1. CASE status[s] = "expired"
        BY <1>5, <3>1 DEF PaidFor
      <3>2. CASE periodEnd[s] + Grace < day
        <4>1. periodEnd[s] + Shortfall >= paidUntil[s] \/ Due(s)
          BY <1>5 DEF PaidFor
        <4>2. QED
          BY <1>t, <3>2, <4>1, SubscriptionsAssumption
      <3>3. QED
        BY <1>5, <3>1, <3>2
    <2>2. QED
      BY <1>t, <1>3, <1>5, <2>1
  <1>6. QED
    BY <1>1, <1>2, <1>4, <1>5 DEF PaidFor

\* A charge sends a message that covers its period, after all older ones.
LEMMA ChargePaid ==
  ASSUME IInv, IInv', OrderInv, PaidFor, NEW s \in Subs, FirstCharge(s) \/ Renew(s)
  PROVE  PaidFor'
  <1>t. /\ \A t \in Subs : paidUntil[t] \in Nat /\ paidUntil'[t] \in Nat /\ periodEnd[t] \in Nat
                           /\ sent[t] \in Nat
        /\ day \in Nat /\ Approximation \in Nat /\ Shortfall \in Nat
        /\ \A h \in hooks : h.sub \in Subs /\ h.n \in Nat
        /\ \A h \in hooks' : h.sub \in Subs /\ h.n \in Nat
    <2>1. \A t \in Subs : paidUntil'[t] \in Nat
      BY DayTypes DEF IInv, TypeOK
    <2>2. \A h \in hooks' : h.sub \in Subs /\ h.n \in Nat
      BY DEF IInv, TypeOK, Hook
    <2>3. QED
      BY <2>1, <2>2, HookTypes
  <1>1. UNCHANGED <<call, periodEnd, status, day, overtaken>>
    BY DEF FirstCharge, Renew, Charge, row, history
  <1>2. /\ paidUntil'[s] <= day + Approximation + Shortfall
        /\ \A t \in Subs : t # s => paidUntil'[t] = paidUntil[t]
    <2>1. PICK d \in Periods : paidUntil' = [paidUntil EXCEPT ![s] = day + d]
      BY DEF FirstCharge, Renew, Charge
    <2>2. d \in Nat /\ d <= Approximation + Shortfall
      BY SubscriptionsAssumption
    <2>3. paidUntil'[s] = day + d /\ \A t \in Subs : t # s => paidUntil'[t] = paidUntil[t]
      BY <2>1 DEF IInv, TypeOK
    <2>4. QED
      BY <1>t, <2>2, <2>3
  <1>3. PICK kinds : Posts(s, kinds)
    BY FirstChargePosts, RenewPosts DEF IInv, OrderInv
  <1>4. PICK new \in hooks' : new \notin hooks /\ new.kind = "charge" /\ new.until \in {0, paidUntil'[s]}
    <2>1. CASE FirstCharge(s)
      BY <2>1, FirstChargePosts DEF IInv, OrderInv
    <2>2. CASE Renew(s)
      BY <2>2, RenewPosts DEF IInv, OrderInv, Posts
    <2>3. QED
      BY <2>1, <2>2
  <1>5. new.sub = s /\ sent[s] < new.n
    BY <1>3, <1>4 DEF Posts
  <1>6. Covers(new)'
    BY <1>t, <1>2, <1>4, <1>5 DEF Covers
  <1>7. s \notin overtaken => ~Announcing(new)'
    BY <1>1, <1>4, <1>5 DEF Announcing, OrderInv, Held, HeldBy, Oldest
  <1>8. s \notin overtaken => Due(s)'
    BY <1>4, <1>5, <1>6, <1>7 DEF Due
  <1>9. hooks \subseteq hooks' /\ \A h \in hooks' : h \in hooks \/ h.sub = s
    BY <1>3 DEF Posts
  <1>10. \A h \in hooks : h.sub # s /\ Covers(h) => Covers(h)'
    BY <1>t, <1>2 DEF Covers
  <1>11. \A t \in Subs : t # s /\ Due(t) => Due(t)'
    BY <1>1, <1>9, <1>10 DEF Due, Announcing
  <1>12. \A t \in Subs : paidUntil'[t] <= day' + Approximation + Shortfall
    BY <1>t, <1>1, <1>2 DEF PaidFor
  <1>13. ASSUME NEW g \in hooks', g.kind = "charge", g.sub \notin overtaken'
         PROVE  \E h \in hooks' : h.sub = g.sub /\ Covers(h)' /\ h.n >= g.n
    <2>1. CASE g \in hooks /\ g.sub = s
      <3>1. g.n <= sent[s]
        BY <2>1 DEF OrderInv, Numbered
      <3>2. new.n >= g.n
        BY <1>t, <1>5, <2>1, <3>1
      <3>3. QED
        BY <1>4, <1>5, <1>6, <2>1, <3>2
    <2>2. CASE g \in hooks /\ g.sub # s
      <3>1. PICK h \in hooks : h.sub = g.sub /\ Covers(h) /\ h.n >= g.n
        BY <1>1, <1>13, <2>2 DEF PaidFor
      <3>2. QED
        BY <1>9, <1>10, <2>2, <3>1
    <2>3. CASE g \notin hooks
      <3>1. g.until \in {0, paidUntil'[s]} /\ g.sub = s
        BY <1>9, <1>13, <2>3, FirstChargePosts, RenewPosts DEF IInv, OrderInv
      <3>2. Covers(g)'
        BY <1>t, <1>2, <1>13, <3>1 DEF Covers
      <3>3. g.n >= g.n
        BY <1>t
      <3>4. QED
        BY <3>2, <3>3
    <2>4. QED
      BY <2>1, <2>2, <2>3
  <1>14. \A t \in Subs : t \notin overtaken' =>
           periodEnd'[t] + Shortfall >= paidUntil'[t] \/ Due(t)'
    BY <1>1, <1>2, <1>8, <1>11 DEF PaidFor
  <1>15. \A t \in Subs : t \notin overtaken' /\ status'[t] = "expired" =>
           paidUntil'[t] < day' \/ Due(t)'
    BY <1>1, <1>2, <1>8, <1>11 DEF PaidFor
  <1>16. QED
    BY <1>12, <1>13, <1>14, <1>15 DEF PaidFor

\* The oldest charge is written: it covers what was paid for last, or the message that does
\* comes after it.
LEMMA ApplyPaid ==
  ASSUME IInv, IInv', OrderInv, PaidFor, NEW c \in Calls, ApplyCharge(c)
  PROVE  PaidFor'
  <1>t. TypeOK
    BY DEF IInv
  <1>s. PICK s \in Subs : s = call[c].sub
    BY HookTypes
  <1>1. /\ UNCHANGED <<hooks, paidUntil, day, overtaken>> /\ call[c].pc = "apply_charge"
        /\ status' = [status EXCEPT ![s] = "active"]
        /\ periodEnd' = [periodEnd EXCEPT ![s] = call[c].until]
        /\ Goto(c, "announce_charge", call[c].until)
    BY <1>s DEF ApplyCharge, At, provider, history
  <1>2. s \in Subs /\ call[c].until \in Nat
    BY HookTypes
  <1>3. PICK h \in Hook :
          /\ call[c].hook = {h} /\ h.kind = "charge" /\ h.sub = s
          /\ call[c].until = IF h.until = 0 THEN day + Approximation ELSE h.until
    BY <1>s, <1>1 DEF OrderInv, Held, HeldBy, ChargeSteps, NextPeriodEnd
  <1>o. s \notin overtaken => Oldest(h)
    BY <1>3 DEF OrderInv, Held, HeldBy
  <1>4. /\ call'[c].hook = {h}
        /\ \A d \in Calls : d # c => call'[d] = call[d]
    BY <1>t, <1>1, <1>3 DEF Goto, TypeOK
  <1>5. /\ periodEnd'[s] = call[c].until /\ status'[s] = "active"
        /\ \A t \in Subs : t # s => periodEnd'[t] = periodEnd[t] /\ status'[t] = status[t]
    BY <1>t, <1>1, <1>2 DEF TypeOK
  <1>6. \A g \in hooks : g # h /\ Announcing(g)' => Announcing(g)
    BY <1>4 DEF Announcing
  <1>7. \A t \in Subs : t # s /\ Due(t) => Due(t)'
    <2>1. SUFFICES ASSUME NEW t \in Subs, t # s, NEW g \in hooks, g.sub = t, Covers(g), ~Announcing(g)
                   PROVE  Due(t)'
      BY DEF Due
    <2>2. ~Announcing(g)' /\ Covers(g)'
      BY <1>1, <1>3, <1>6, <2>1 DEF Covers
    <2>3. QED
      BY <1>1, <2>1, <2>2 DEF Due
  <1>8. ASSUME s \notin overtaken
        PROVE  periodEnd'[s] + Shortfall >= paidUntil[s] \/ Due(s)'
    <2>o. Oldest(h)
      BY <1>o, <1>8
    <2>1. CASE Covers(h)
      <3>1. paidUntil[s] <= day + Approximation + Shortfall
        BY <1>2 DEF PaidFor
      <3>2. h.until \in Nat
        BY DEF Hook
      <3>3. QED
        BY <1>2, <1>3, <1>5, <2>1, <3>1, <3>2, HookTypes DEF Covers
    <2>2. CASE ~Covers(h)
      <3>1. PICK g \in hooks : g.sub = h.sub /\ Covers(g) /\ g.n >= h.n
        BY <1>3, <1>8, <2>o DEF PaidFor, Oldest
      <3>2. g # h
        BY <2>2, <3>1
      <3>3. ~Announcing(g)
        <4>1. SUFFICES ASSUME NEW d \in Calls, g \in call[d].hook, call[d].pc = "announce_charge"
                       PROVE  FALSE
          BY DEF Announcing
        <4>2. d # c
          BY <1>1, <4>1
        <4>3. g.sub # h.sub
          BY <1>3, <1>8, <3>1, <4>1, <4>2, HeldAlone
        <4>4. QED
          BY <3>1, <4>3
      <3>4. ~Announcing(g)' /\ Covers(g)'
        BY <1>1, <1>6, <3>1, <3>2, <3>3 DEF Covers
      <3>5. g \in hooks' /\ g.sub = s
        BY <1>1, <1>3, <3>1
      <3>6. QED
        BY <3>4, <3>5 DEF Due
    <2>3. QED
      BY <2>1, <2>2
  <1>9. \A t \in Subs : paidUntil'[t] <= day' + Approximation + Shortfall
    BY <1>1 DEF PaidFor
  <1>10. \A g \in hooks' : g.kind = "charge" /\ g.sub \notin overtaken' =>
           \E x \in hooks' : x.sub = g.sub /\ Covers(x)' /\ x.n >= g.n
    BY <1>1 DEF PaidFor, Covers
  <1>11. ASSUME NEW t \in Subs, t \notin overtaken'
         PROVE  periodEnd'[t] + Shortfall >= paidUntil'[t] \/ Due(t)'
    <2>1. CASE t = s
      BY <1>1, <1>8, <1>11, <2>1
    <2>2. CASE t # s
      BY <1>1, <1>5, <1>7, <1>11, <2>2 DEF PaidFor
    <2>3. QED
      BY <2>1, <2>2
  <1>12. \A t \in Subs : t \notin overtaken' /\ status'[t] = "expired" =>
           paidUntil'[t] < day' \/ Due(t)'
    BY <1>1, <1>5, <1>7 DEF PaidFor
  <1>13. QED
    BY <1>9, <1>10, <1>11, <1>12 DEF PaidFor

\* The oldest message that a request lets go is written, or is no charge.
LEMMA ReleasePaid ==
  ASSUME IInv, OrderInv, NEW c \in Calls, NEW h \in call[c].hook, h.kind = "charge",
         call[c].pc # "apply_charge", h.sub \notin overtaken
  PROVE  Announcing(h) /\ Oldest(h)
  <1>1. HeldBy(c)
    BY DEF OrderInv, Held
  <1>2. call[c].pc = "announce_charge" /\ Oldest(h)
    BY <1>1 DEF HeldBy, ChargeSteps
  <1>3. QED
    BY <1>2 DEF Announcing

LEMMA EndPaid ==
  ASSUME IInv, IInv', OrderInv, PaidFor, NEW c \in Calls,
         \/ AnnounceCharge(c) \/ AnnounceCancel(c) \/ HandlerDies(c) \/ PublishLost(c)
         \/ CancelAtProvider(c) /\ Return(c) /\ UNCHANGED provider
  PROVE  PaidFor'
  <1>1. UNCHANGED <<paidUntil, periodEnd, status, day, overtaken>>
    BY DEF AnnounceCharge, AnnounceCancel, HandlerDies, PublishLost, CancelAtProvider, row, provider
  <1>2. /\ call' = [call EXCEPT ![c] = NoCall]
        /\ hooks' = hooks \/ (hooks' = hooks \ call[c].hook /\ call[c].pc # "apply_charge")
    BY DEF AnnounceCharge, AnnounceCancel, HandlerDies, PublishLost, CancelAtProvider, Return, Answer,
           At
  <1>3. \A h \in hooks : h.kind = "charge" /\ h \notin hooks' /\ h.sub \notin overtaken' =>
          Announcing(h) /\ Oldest(h)
    BY <1>1, <1>2, ReleasePaid
  <1>4. \A h \in hooks : Announcing(h)' => Announcing(h)
    BY <1>2 DEF Announcing, NoCall, IInv, TypeOK
  <1>5. day' >= day
    BY <1>1, HookTypes
  <1>6. QED
    BY <1>1, <1>2, <1>3, <1>4, <1>5, PaidKept

\* Steps that take no charge away and write none.
LEMMA OtherPaid ==
  ASSUME IInv, IInv', OrderInv, PaidFor, UNCHANGED <<paidUntil, periodEnd>>, day' >= day,
         overtaken \subseteq overtaken',
         \A h \in hooks' : h \in hooks \/ h.kind # "charge",
         \A h \in hooks : h.kind = "charge" => h \in hooks',
         \A c \in Calls : call'[c] = call[c] \/ call'[c].pc # "announce_charge",
         \A s \in Subs : status'[s] = "expired" =>
                           status[s] = "expired" \/ periodEnd[s] + Grace < day
  PROVE  PaidFor'
  <1>1. \A h \in hooks : Announcing(h)' => Announcing(h)
    BY DEF Announcing
  <1>2. QED
    BY <1>1, PaidKept

LEMMA CreatePaid ==
  ASSUME IInv, IInv', OrderInv, PaidFor, NEW s \in Subs,
         Create(s) \/ DeclineRenewal(s) \/ DisableOnDashboard(s)
  PROVE  PaidFor'
  <1>1. UNCHANGED <<paidUntil, periodEnd, call, day, overtaken>>
    BY DEF Create, LookUpPlan, CreatePlan, CachePlan, OpenCheckout, InsertRow, DeclineRenewal,
           DisableOnDashboard, Disable, row, provider, history
  <1>2. \A h \in hooks' : h \in hooks \/ h.kind # "charge"
    <2>1. CASE Create(s)
      BY <2>1 DEF Create, LookUpPlan, CreatePlan, CachePlan, OpenCheckout, InsertRow, provider
    <2>2. CASE DeclineRenewal(s) \/ DisableOnDashboard(s)
      <3>1. Posts(s, {"failed"}) \/ Posts(s, {"disable"})
        BY <2>2, NoticePosts DEF DisableOnDashboard, IInv, OrderInv
      <3>2. QED
        BY <3>1 DEF Posts
    <2>3. QED
      BY <2>1, <2>2
  <1>3. hooks \subseteq hooks'
    BY DEF Create, LookUpPlan, CreatePlan, CachePlan, OpenCheckout, InsertRow, DeclineRenewal,
           DisableOnDashboard, Disable, Send, provider
  <1>4. \A t \in Subs : status'[t] = "expired" => status[t] = "expired"
    BY DEF Create, LookUpPlan, CreatePlan, CachePlan, OpenCheckout, InsertRow, DeclineRenewal,
           DisableOnDashboard, row, IInv, TypeOK
  <1>5. day' >= day
    BY <1>1, HookTypes
  <1>6. QED
    BY <1>1, <1>2, <1>3, <1>4, <1>5, OtherPaid

LEMMA WebhookPaid ==
  ASSUME IInv, IInv', OrderInv, PaidFor, NEW h \in hooks,
         \/ CreateWebhook(h) \/ FailedWebhook(h)
         \/ \E c \in Calls : ChargeWebhook(c, h) \/ DisableWebhook(c, h)
  PROVE  PaidFor'
  <1>1. UNCHANGED <<paidUntil, periodEnd, day>>
    BY DEF CreateWebhook, FailedWebhook, ChargeWebhook, DisableWebhook, row, provider
  <1>2. hooks' = hooks \/ (hooks' = hooks \ {h} /\ h.kind # "charge")
    BY DEF CreateWebhook, FailedWebhook, ChargeWebhook, DisableWebhook, Answer
  <1>3. \A d \in Calls : call'[d] = call[d] \/ call'[d].pc # "announce_charge"
    <2>1. ASSUME NEW c \in Calls, ChargeWebhook(c, h) \/ DisableWebhook(c, h)
          PROVE  \A d \in Calls : call'[d] = call[d] \/ call'[d].pc # "announce_charge"
      BY <2>1 DEF ChargeWebhook, DisableWebhook, Enter, IInv, TypeOK
    <2>2. QED
      BY <2>1 DEF CreateWebhook, FailedWebhook
  <1>4. \A t \in Subs : status'[t] = "expired" => status[t] = "expired"
    BY DEF CreateWebhook, FailedWebhook, ChargeWebhook, DisableWebhook, row
  <1>5. day' >= day
    BY <1>1, HookTypes
  <1>6. overtaken \subseteq overtaken'
    BY DeliveredOldest DEF CreateWebhook, FailedWebhook, ChargeWebhook, DisableWebhook
  <1>7. QED
    BY <1>1, <1>2, <1>3, <1>4, <1>5, <1>6, OtherPaid

LEMMA CancelPaid ==
  ASSUME IInv, IInv', OrderInv, PaidFor, NEW c \in Calls,
         \/ \E s \in Subs : Cancel(c, s)
         \/ ApplyCancel(c) \/ CancelAtProvider(c)
  PROVE  PaidFor'
  <1>1. CASE CancelAtProvider(c) /\ Return(c) /\ UNCHANGED provider
    BY <1>1, EndPaid
  <1>2. ASSUME NEW x \in Subs, CancelAtProvider(c), Disable(x), Goto(c, "apply_cancel", 0)
        PROVE  PaidFor'
    <2>1. UNCHANGED <<paidUntil, periodEnd, status, day, overtaken>>
      BY <1>2 DEF CancelAtProvider, Disable, row
    <2>2. Posts(x, {"disable"})
      BY <1>2, NoticePosts DEF IInv, OrderInv
    <2>3. \A d \in Calls : call'[d] = call[d] \/ call'[d].pc # "announce_charge"
      BY <1>2 DEF Goto, IInv, TypeOK
    <2>4. day' >= day
      BY <2>1, HookTypes
    <2>5. /\ \A h \in hooks' : h \in hooks \/ h.kind # "charge"
          /\ \A h \in hooks : h \in hooks'
      BY <2>2 DEF Posts
    <2>6. QED
      BY <2>1, <2>3, <2>4, <2>5, OtherPaid
  <1>3. CASE ApplyCancel(c) \/ \E s \in Subs : Cancel(c, s)
    <2>1. UNCHANGED <<paidUntil, periodEnd, hooks, day, overtaken>>
      BY <1>3 DEF ApplyCancel, Cancel, row, provider, history
    <2>2. \A d \in Calls : call'[d] = call[d] \/ call'[d].pc # "announce_charge"
      BY <1>3 DEF ApplyCancel, Cancel, Enter, Goto, IInv, TypeOK
    <2>3. \A t \in Subs : status'[t] = "expired" => status[t] = "expired"
      BY <1>3 DEF ApplyCancel, Cancel, row, IInv, TypeOK
    <2>4. day' >= day
      BY <2>1, HookTypes
    <2>5. QED
      BY <2>1, <2>2, <2>3, <2>4, OtherPaid
  <1>4. QED
    <2>1. ASSUME CancelAtProvider(c)
          PROVE  \/ Return(c) /\ UNCHANGED provider
                 \/ \E x \in Subs : Disable(x) /\ Goto(c, "apply_cancel", 0)
      <3>1. call[c].sub \in Subs
        BY HookTypes
      <3>2. code[call[c].sub] \subseteq Subs
        BY <3>1 DEF IInv, TypeOK
      <3>3. QED
        BY <2>1, <3>2 DEF CancelAtProvider
    <2>2. QED
      BY <1>1, <1>2, <1>3, <2>1

LEMMA SweepPaid ==
  ASSUME IInv, IInv', OrderInv, PaidFor, Sweep \/ SweepDies \/ Tick \/ UNCHANGED vars
  PROVE  PaidFor'
  <1>1. UNCHANGED <<paidUntil, periodEnd, hooks, call, overtaken>>
    BY DEF Sweep, SweepPastDue, SweepExpire, SweepAnnounce, SweepDies, Tick, vars, row, provider,
           history
  <1>2. day' >= day
    BY HookTypes DEF Sweep, SweepPastDue, SweepExpire, SweepAnnounce, SweepDies, Tick, vars
  <1>3. \A s \in Subs : status'[s] = "expired" =>
                          status[s] = "expired" \/ periodEnd[s] + Grace < day
    <2>1. CASE SweepExpire
      <3>1. \A s \in Subs : Expirable(s) => periodEnd[s] + Grace < day
        BY HookTypes DEF Expirable
      <3>2. QED
        BY <2>1, <3>1 DEF SweepExpire
    <2>2. CASE ~SweepExpire
      BY <2>2 DEF Sweep, SweepPastDue, SweepAnnounce, SweepDies, Tick, vars, row
    <2>3. QED
      BY <2>1, <2>2
  <1>4. QED
    BY <1>1, <1>2, <1>3, OtherPaid

LEMMA PaidInitially == Init => PaidFor
  <1>1. 0 <= 1 + Approximation + Shortfall /\ 0 + Shortfall >= 0
    BY SubscriptionsAssumption
  <1>2. QED
    BY <1>1 DEF Init, PaidFor

LEMMA PaidStepwise == IInv /\ OrderInv /\ PaidFor /\ [Next]_vars => PaidFor'
  <1> SUFFICES ASSUME IInv, OrderInv, PaidFor, [Next]_vars PROVE PaidFor'
    OBVIOUS
  <1>1. IInv'
    BY Stepwise
  <1>2. ASSUME NEW s \in Subs,
               \/ Create(s)
               \/ FirstCharge(s) \/ Renew(s) \/ DeclineRenewal(s) \/ DisableOnDashboard(s)
        PROVE  PaidFor'
    BY <1>1, <1>2, CreatePaid, ChargePaid
  <1>3. ASSUME NEW h \in hooks, Deliver(h)
        PROVE  PaidFor'
    BY <1>1, <1>3, WebhookPaid DEF Deliver
  <1>4. ASSUME NEW c \in Calls, Proceed(c)
        PROVE  PaidFor'
    BY <1>1, <1>4, ApplyPaid, EndPaid, CancelPaid DEF Proceed
  <1>5. ASSUME NEW c \in Calls, HandlerDies(c) \/ PublishLost(c)
        PROVE  PaidFor'
    BY <1>1, <1>5, EndPaid
  <1>6. ASSUME NEW c \in Calls, NEW s \in Subs, Cancel(c, s)
        PROVE  PaidFor'
    BY <1>1, <1>6, CancelPaid
  <1>7. CASE Sweep \/ SweepDies \/ Tick \/ UNCHANGED vars
    BY <1>1, <1>7, SweepPaid
  <1>8. QED
    BY <1>2, <1>3, <1>4, <1>5, <1>6, <1>7 DEF Next

\* Whenever nothing about a subscription is on its way, its row covers what the customer
\* paid for but for the days that the interval was approximated too short, and a row that
\* expired did so after the last paid day, whichever handlers died and whatever was
\* delivered again; of subscriptions whose messages did not overtake each other.
THEOREM PaidIsKept == Spec => []NeverCutShort
  <1>1. Init => IInv /\ OrderInv /\ PaidFor
    BY Initially, OrderInitially, PaidInitially
  <1>2. (IInv /\ OrderInv /\ PaidFor) /\ [Next]_vars => (IInv /\ OrderInv /\ PaidFor)'
    BY Stepwise, OrderStepwise, PaidStepwise
  <1>3. IInv /\ PaidFor => NeverCutShort
    BY DEF PaidFor, Due, NeverCutShort, Quiet
  <1>4. QED
    BY <1>1, <1>2, <1>3, PTL DEF Spec

-----------------------------------------------------------------------------
(* AgreesWhenQuiet: what the last message about a subscription will say,   *)
(* or the row says already.                                                *)

\* A subscription that is billed has its code, or will be given it.
Coded(s) == Billed(s) => code[s] = {s} \/ About(s, {"create"}) # {}

\* It was created before any charge failed or it was disabled, which is the end.
InLine(s) ==
  /\ \A g \in About(s, {"create"}), h \in About(s, {"failed", "disable"}) : g.n < h.n
  /\ \A d \in About(s, {"disable"}) : \A g \in hooks : g.sub = s => g.n <= d.n

\* The row is over by the time a request holds that message.
LetGo(s) ==
  \A c \in Calls : \A d \in call[c].hook :
    d.sub = s /\ d.kind = "disable" => status[s] \in Ended

\* Disabled: the row is over for good, or will be.
DisabledWord(s) ==
  gw[s] = "disabled" =>
    \/ status[s] \in Ended /\ About(s, {"charge", "create"}) = {}
    \/ About(s, {"disable"}) # {}

\* Live and paid: the row is active and stays it, or a charge still comes.
PaidWord(s) ==
  gw[s] = "live" /\ ~declined[s] =>
    /\ \A f \in About(s, {"failed"}) : \E h \in About(s, {"charge"}) : h.n > f.n
    /\ status[s] = "active" \/ \E h \in About(s, {"charge"}) : ~Announcing(h)

\* Live and declined: the row is not active and stays so, or a failure comes after all else.
DeclinedWord(s) ==
  gw[s] = "live" /\ declined[s] =>
    \/ status[s] # "active" /\ About(s, {"charge", "create"}) = {}
    \/ \E f \in About(s, {"failed"}) : \A g \in About(s, {"charge", "create"}) : g.n < f.n

WordOf(s) ==
  /\ Coded(s) /\ InLine(s) /\ LetGo(s) /\ DisabledWord(s) /\ PaidWord(s) /\ DeclinedWord(s)
  /\ declined[s] => paidUntil[s] <= day

\* Messages about it came in turn, and it was not taken for another.
Clean(s) == s \notin overtaken /\ ~Mixed(s)

LastWord == \A s \in Subs : Clean(s) => WordOf(s)

\* A message about s that the step takes away: it was the oldest, and a charge on the row
\* or the end of the subscription.
Settled(h, s) ==
  /\ Oldest(h)
  /\ \/ h.kind = "charge" /\ Announcing(h)
     \/ h.kind = "disable" /\ status'[s] \in Ended

\* A step that does not charge, decline, disable or give a code.
LEMMA WordKept ==
  ASSUME IInv, IInv', OrderInv, NEW s \in Subs, WordOf(s),
         Billed(s)' => gw'[s] = gw[s],
         declined'[s] = declined[s], paidUntil'[s] = paidUntil[s], code'[s] = code[s],
         day' >= day,
         \A h \in hooks' : h.sub = s => h \in hooks,
         \A h \in hooks : h.sub = s /\ h \notin hooks' => Settled(h, s),
         \A h \in hooks : h.sub = s /\ Announcing(h)' => Announcing(h),
         status[s] \in Ended => status'[s] \in Ended,
         status'[s] = "active" => status[s] = "active",
         status[s] = "active" => status'[s] = "active" \/ gw[s] = "disabled",
         \A c \in Calls : \A h \in call'[c].hook :
           h.sub = s /\ h.kind = "disable" => h \in call[c].hook \/ status'[s] \in Ended
  PROVE  WordOf(s)'
  <1>t. \A h \in hooks : h.n \in Nat
    BY HookTypes
  <1>1. ASSUME NEW kinds PROVE About(s, kinds)' \subseteq About(s, kinds)
    BY DEF About
  <1>2. ASSUME NEW kinds, "charge" \notin kinds, "disable" \notin kinds
        PROVE  About(s, kinds)' = About(s, kinds)
    BY <1>2 DEF About, Settled
  <1>3. Coded(s)'
    <2>1. About(s, {"create"})' = About(s, {"create"})
      BY <1>2
    <2>2. QED
      BY <2>1 DEF WordOf, Coded, Billed
  <1>4. InLine(s)'
    <2>1. \A d \in About(s, {"disable"})' : \A g \in hooks' : g.sub = s => g.n <= d.n
      BY <1>1 DEF WordOf, InLine
    <2>2. \A g \in About(s, {"create"})', h \in About(s, {"failed", "disable"})' : g.n < h.n
      BY <1>1 DEF WordOf, InLine
    <2>3. QED
      BY <2>1, <2>2 DEF InLine
  <1>5. LetGo(s)'
    BY DEF WordOf, LetGo
  <1>6. DisabledWord(s)'
    <2>1. SUFFICES ASSUME gw'[s] = "disabled", About(s, {"disable"})' = {}
                   PROVE  status'[s] \in Ended /\ About(s, {"charge", "create"})' = {}
      BY DEF DisabledWord
    <2>2. gw[s] = "disabled"
      BY <2>1 DEF Billed
    <2>3. CASE status[s] \in Ended /\ About(s, {"charge", "create"}) = {}
      BY <1>1, <2>3
    <2>4. CASE About(s, {"disable"}) # {}
      <3>1. PICK d \in About(s, {"disable"}) : TRUE
        BY <2>4
      <3>2. d \in hooks /\ d.sub = s /\ d.kind = "disable" /\ d \notin hooks'
        BY <2>1, <3>1 DEF About
      <3>3. Oldest(d) /\ status'[s] \in Ended
        BY <3>2 DEF Settled
      <3>4. ASSUME NEW g \in About(s, {"charge", "create"})' PROVE FALSE
        <4>1. g \in hooks /\ g.sub = s /\ g.kind # "disable"
          BY <3>4 DEF About
        <4>2. g.n <= d.n /\ d.n <= g.n
          BY <3>1, <3>2, <3>3, <4>1 DEF Oldest, WordOf, InLine
        <4>3. g = d
          BY <1>t, <3>2, <4>1, <4>2 DEF OrderInv, Numbered
        <4>4. QED
          BY <3>2, <4>1, <4>3
      <3>5. QED
        BY <3>3, <3>4
    <2>5. QED
      BY <2>2, <2>3, <2>4 DEF WordOf, DisabledWord
  <1>7. PaidWord(s)'
    <2>1. SUFFICES ASSUME gw'[s] = "live", ~declined'[s]
                   PROVE  /\ \A f \in About(s, {"failed"})' : \E h \in About(s, {"charge"})' : h.n > f.n
                          /\ status'[s] = "active" \/ \E h \in About(s, {"charge"})' : ~Announcing(h)'
      BY DEF PaidWord
    <2>2. gw[s] = "live" /\ ~declined[s] /\ PaidWord(s)
      BY <2>1 DEF Billed, WordOf
    <2>3. ASSUME NEW f \in About(s, {"failed"})' PROVE \E h \in About(s, {"charge"})' : h.n > f.n
      <3>1. f \in About(s, {"failed"}) /\ f \in hooks /\ f.sub = s
        BY <2>3 DEF About
      <3>2. PICK h \in About(s, {"charge"}) : h.n > f.n
        BY <2>2, <3>1 DEF PaidWord
      <3>3. h \in hooks /\ h.sub = s /\ h.kind = "charge"
        BY <3>2 DEF About
      <3>4. ~Oldest(h)
        BY <1>t, <3>1, <3>2, <3>3 DEF Oldest
      <3>5. h \in About(s, {"charge"})'
        BY <3>3, <3>4 DEF Settled, About
      <3>6. QED
        BY <3>2, <3>5
    <2>4. CASE status[s] = "active"
      BY <2>2, <2>3, <2>4
    <2>5. CASE \E h \in About(s, {"charge"}) : ~Announcing(h)
      <3>1. PICK h \in About(s, {"charge"}) : ~Announcing(h)
        BY <2>5
      <3>2. h \in About(s, {"charge"})' /\ ~Announcing(h)'
        BY <3>1 DEF About, Settled
      <3>3. QED
        BY <2>3, <3>2
    <2>6. QED
      BY <2>2, <2>4, <2>5 DEF PaidWord
  <1>8. DeclinedWord(s)'
    <2>1. About(s, {"failed"})' = About(s, {"failed"})
      BY <1>2
    <2>2. About(s, {"charge", "create"})' \subseteq About(s, {"charge", "create"})
      BY <1>1
    <2>3. gw'[s] = "live" => gw[s] = "live"
      BY DEF Billed
    <2>4. QED
      BY <2>1, <2>2, <2>3 DEF WordOf, DeclinedWord
  <1>9. declined'[s] => paidUntil'[s] <= day'
    <2>1. paidUntil[s] \in Nat /\ day \in Nat /\ day' \in Nat
      BY HookTypes DEF IInv, TypeOK
    <2>2. QED
      BY <2>1 DEF WordOf
  <1>10. QED
    BY <1>3, <1>4, <1>5, <1>6, <1>7, <1>8, <1>9 DEF WordOf

LEMMA CreateWord ==
  ASSUME IInv, IInv', OrderInv,
         NEW u \in Subs, WordOf(u), Clean(u), Clean(u)',
         NEW s \in Subs, Create(s)
  PROVE  WordOf(u)'
  <1>1. UNCHANGED <<hooks, call, day, code, declined, paidUntil>>
    BY DEF Create, LookUpPlan, CreatePlan, CachePlan, OpenCheckout, InsertRow, row, provider
  <1>2. \A t \in Subs : Billed(t)' => gw'[t] = gw[t]
    BY DEF Create, LookUpPlan, CreatePlan, CachePlan, OpenCheckout, InsertRow, provider, Billed,
           IInv, TypeOK
  <1>3. \A t \in Subs : status'[t] = status[t] \/ (status[t] = "none" /\ status'[t] = "pending")
    <2>1. CASE InsertRow(s)
      <3>1. status[s] = "none"
        BY <2>1 DEF InsertRow, Creating, IInv, PlanSteps
      <3>2. QED
        BY <2>1, <3>1 DEF InsertRow, IInv, TypeOK
    <2>2. CASE UNCHANGED status
      BY <2>2
    <2>3. QED
      BY <2>1, <2>2 DEF Create, LookUpPlan, CreatePlan, CachePlan, OpenCheckout, row
  <1>4. /\ status[u] \in Ended => status'[u] \in Ended
        /\ status'[u] = "active" => status[u] = "active"
        /\ status[u] = "active" => status'[u] = "active"
    BY <1>3 DEF Ended
  <1>5. \A h \in hooks : Announcing(h)' => Announcing(h)
    BY <1>1 DEF Announcing
  <1>6. day' >= day
    BY <1>1, HookTypes
  <1>7. QED
    BY <1>1, <1>2, <1>4, <1>5, <1>6, WordKept

\* A request that ends leaves the row as it is.
LEMMA EndWord ==
  ASSUME IInv, IInv', OrderInv,
         NEW u \in Subs, WordOf(u), Clean(u), Clean(u)',
         NEW c \in Calls,
         \/ AnnounceCharge(c) \/ AnnounceCancel(c) \/ HandlerDies(c) \/ PublishLost(c)
         \/ CancelAtProvider(c) /\ Return(c) /\ UNCHANGED provider
  PROVE  WordOf(u)'
  <1>1. UNCHANGED <<gw, declined, paidUntil, code, status, day>>
    BY DEF AnnounceCharge, AnnounceCancel, HandlerDies, PublishLost, CancelAtProvider, row, provider
  <1>2. /\ call' = [call EXCEPT ![c] = NoCall]
        /\ hooks' = hooks \/ (hooks' = hooks \ call[c].hook /\ call[c].pc # "apply_charge")
    BY DEF AnnounceCharge, AnnounceCancel, HandlerDies, PublishLost, CancelAtProvider, Return, Answer,
           At
  <1>3. call'[c].hook = {} /\ \A d \in Calls : d # c => call'[d] = call[d]
    BY <1>2 DEF NoCall, IInv, TypeOK
  <1>4. ASSUME NEW h \in hooks, h.sub = u, h \notin hooks'
        PROVE  Settled(h, u)
    <2>1. h \in call[c].hook /\ call[c].pc # "apply_charge"
      BY <1>2, <1>4
    <2>2. HeldBy(c)
      BY DEF OrderInv, Held
    <2>3. CASE h.kind = "charge"
      BY <1>4, <2>1, <2>3, ReleasePaid DEF Settled, Clean
    <2>4. CASE h.kind # "charge"
      <3>1. h.kind = "disable" /\ Oldest(h)
        BY <1>4, <2>1, <2>2, <2>4 DEF HeldBy, Clean
      <3>2. status'[u] \in Ended
        BY <1>1, <1>4, <2>1, <3>1 DEF WordOf, LetGo
      <3>3. QED
        BY <3>1, <3>2 DEF Settled
    <2>5. QED
      BY <2>3, <2>4
  <1>5. \A h \in hooks : Announcing(h)' => Announcing(h)
    BY <1>3 DEF Announcing
  <1>6. day' >= day
    BY <1>1, HookTypes
  <1>7. \A d \in Calls : \A h \in call'[d].hook : h \in call[d].hook
    BY <1>3
  <1>8. QED
    BY <1>1, <1>2, <1>4, <1>5, <1>6, <1>7, WordKept

\* A charge is taken up, a cancellation begins: nothing is written yet.
LEMMA BeginWord ==
  ASSUME IInv, IInv', OrderInv,
         NEW u \in Subs, WordOf(u), Clean(u), Clean(u)',
         NEW c \in Calls,
         \/ \E h \in hooks : ChargeWebhook(c, h)
         \/ \E s \in Subs : Cancel(c, s)
  PROVE  WordOf(u)'
  <1>1. UNCHANGED <<gw, declined, paidUntil, code, status, day, hooks>>
    BY DEF ChargeWebhook, Cancel, row, provider
  <1>2. /\ \A d \in Calls : d # c => call'[d] = call[d]
        /\ call'[c].pc # "announce_charge"
        /\ \A h \in call'[c].hook : h.kind = "charge"
    BY DEF ChargeWebhook, Cancel, Enter, IInv, TypeOK
  <1>3. \A h \in hooks : Announcing(h)' => Announcing(h)
    BY <1>2 DEF Announcing
  <1>4. day' >= day
    BY <1>1, HookTypes
  <1>5. \A d \in Calls : \A h \in call'[d].hook : h.kind = "disable" => h \in call[d].hook
    BY <1>2
  <1>6. /\ status'[u] = status[u] /\ gw'[u] = gw[u] /\ code'[u] = code[u]
        /\ declined'[u] = declined[u] /\ paidUntil'[u] = paidUntil[u]
        /\ hooks' = hooks
    BY <1>1
  <1>7. \A d \in Calls : \A h \in call'[d].hook :
          h.sub = u /\ h.kind = "disable" => h \in call[d].hook \/ status'[u] \in Ended
    BY <1>5
  <1>8. QED
    BY <1>3, <1>4, <1>6, <1>7, WordKept

\* The message that a subscription is disabled ends the row with its code, its own.
LEMMA DisableWebhookWord ==
  ASSUME IInv, IInv', CausesInv, OrderInv,
         NEW u \in Subs, WordOf(u), Clean(u), Clean(u)',
         NEW c \in Calls, NEW h \in hooks, DisableWebhook(c, h)
  PROVE  WordOf(u)'
  <1> DEFINE hit == {s \in Subs : h.sub \in code[s] /\ status[s] \notin Ended}
  <1>1. UNCHANGED <<gw, declined, paidUntil, code, day>>
    BY DEF DisableWebhook, provider
  <1>2. /\ h.kind = "disable" /\ gw[h.sub] = "disabled" /\ h.sub \in Subs
        /\ h.sub = u => Oldest(h)
        /\ status' = [s \in Subs |-> IF s \in hit THEN "cancelled" ELSE status[s]]
    BY DeliveredOldest, HookTypes DEF DisableWebhook, CausesInv, HookCaused, Clean
  <1>3. u \in hit => u = h.sub
    BY <1>2 DEF Clean, Mixed
  <1>4. ASSUME u = h.sub PROVE code[u] = {u}
    <2>1. Billed(u) /\ Oldest(h)
      BY <1>2, <1>4 DEF Billed
    <2>2. h \in About(u, {"failed", "disable"})
      BY <1>2, <1>4 DEF About
    <2>3. ASSUME NEW g \in About(u, {"create"}) PROVE FALSE
      <3>1. g.n < h.n
        BY <2>2 DEF WordOf, InLine
      <3>2. g \in hooks /\ h.n <= g.n
        BY <1>4, <2>1 DEF About, Oldest
      <3>3. QED
        BY <3>1, <3>2, HookTypes
    <2>4. QED
      BY <2>1, <2>3 DEF WordOf, Coded
  <1>5. u = h.sub => status'[u] \in Ended
    BY <1>2, <1>4 DEF Ended
  <1>6. /\ hooks' \subseteq hooks
        /\ \A g \in hooks : g \notin hooks' => g = h
    BY DEF DisableWebhook, Answer
  <1>7. /\ \A d \in Calls : \A g \in call'[d].hook : g \in call[d].hook \/ g = h
        /\ \A d \in Calls : call'[d] = call[d] \/ call'[d].pc # "announce_charge"
    <2>1. CASE UNCHANGED call
      BY <2>1
    <2>2. ASSUME NEW s \in Subs,
                 Enter(c, [pc |-> "announce_cancel", sub |-> s, until |-> 0,
                           first |-> FALSE, hook |-> {h}])
          PROVE  /\ \A d \in Calls : \A g \in call'[d].hook : g \in call[d].hook \/ g = h
                 /\ \A d \in Calls : call'[d] = call[d] \/ call'[d].pc # "announce_charge"
      <3>1. /\ \A d \in Calls : d # c => call'[d] = call[d]
            /\ call'[c].hook = {h} /\ call'[c].pc = "announce_cancel"
        BY <2>2 DEF Enter, IInv, TypeOK
      <3>2. QED
        BY <3>1
    <2>3. QED
      BY <2>1, <2>2 DEF DisableWebhook
  <1>8. day' >= day
    BY <1>1, HookTypes
  <1>9. /\ status[u] \in Ended => status'[u] \in Ended
        /\ status'[u] = "active" => status[u] = "active"
        /\ status[u] = "active" => status'[u] = "active" \/ gw[u] = "disabled"
    <2>1. CASE u \in hit
      BY <1>2, <1>3, <2>1 DEF Ended
    <2>2. CASE u \notin hit
      BY <1>2, <2>2
    <2>3. QED
      BY <2>1, <2>2
  <1> HIDE DEF hit
  <1>10. \A g \in hooks : g.sub = u /\ g \notin hooks' => Settled(g, u)
    BY <1>2, <1>5, <1>6 DEF Settled
  <1>11. \A g \in hooks : Announcing(g)' => Announcing(g)
    BY <1>7 DEF Announcing
  <1>12. \A d \in Calls : \A g \in call'[d].hook :
           g.sub = u /\ g.kind = "disable" => g \in call[d].hook \/ status'[u] \in Ended
    BY <1>5, <1>7
  <1>13. QED
    BY <1>1, <1>6, <1>8, <1>9, <1>10, <1>11, <1>12, WordKept

LEMMA ApplyCancelWord ==
  ASSUME IInv, IInv', CausesInv, OrderInv,
         NEW u \in Subs, WordOf(u), Clean(u), Clean(u)',
         NEW c \in Calls, ApplyCancel(c)
  PROVE  WordOf(u)'
  <1>1. UNCHANGED <<gw, declined, paidUntil, code, day, hooks>>
    BY DEF ApplyCancel, provider
  <1>2. /\ call[c].sub \in Subs
        /\ status' = [status EXCEPT ![call[c].sub] = "cancelled"]
    BY HookTypes DEF ApplyCancel, At
  <1>d. call[c].sub = u => gw[u] = "disabled"
    <2>1. \E t \in code[call[c].sub] : gw[t] = "disabled"
      BY DEF ApplyCancel, At, CausesInv, CallCaused
    <2>2. code[u] \subseteq {u}
      BY DEF Clean, Mixed, IInv, TypeOK
    <2>3. QED
      BY <2>1, <2>2
  <1>3. /\ call'[c].pc = "announce_cancel" /\ call'[c].hook = call[c].hook
        /\ \A d \in Calls : d # c => call'[d] = call[d]
    BY DEF ApplyCancel, Goto, IInv, TypeOK
  <1>4. \A h \in hooks : Announcing(h)' => Announcing(h)
    BY <1>3 DEF Announcing
  <1>5. day' >= day
    BY <1>1, HookTypes
  <1>6. \A d \in Calls : \A h \in call'[d].hook : h \in call[d].hook
    BY <1>3
  <1>7. /\ status[u] \in Ended => status'[u] \in Ended
        /\ status'[u] = "active" => status[u] = "active"
        /\ status[u] = "active" => status'[u] = "active" \/ gw[u] = "disabled"
    BY <1>2, <1>d DEF Ended, IInv, TypeOK
  <1>8. QED
    BY <1>1, <1>4, <1>5, <1>6, <1>7, WordKept

LEMMA SweepWord ==
  ASSUME IInv, IInv', OrderInv,
         NEW u \in Subs, WordOf(u), Clean(u), Clean(u)',
         Sweep \/ SweepDies \/ Tick \/ UNCHANGED vars
  PROVE  WordOf(u)'
  <1>1. UNCHANGED <<gw, declined, paidUntil, code, hooks, call>>
    BY DEF Sweep, SweepPastDue, SweepExpire, SweepAnnounce, SweepDies, Tick, vars, row, provider
  <1>2. day' >= day
    BY HookTypes DEF Sweep, SweepPastDue, SweepExpire, SweepAnnounce, SweepDies, Tick, vars
  <1>3. \A s \in Subs : \/ status'[s] = status[s]
                        \/ status[s] = "payment_failed" /\ status'[s] = "past_due"
                        \/ status[s] = "past_due" /\ status'[s] = "expired"
    BY DEF Sweep, SweepPastDue, SweepExpire, SweepAnnounce, SweepDies, Tick, vars, row, Expirable
  <1>4. \A h \in hooks : Announcing(h)' => Announcing(h)
    BY <1>1 DEF Announcing
  <1>5. /\ status[u] \in Ended => status'[u] \in Ended
        /\ status'[u] = "active" => status[u] = "active"
        /\ status[u] = "active" => status'[u] = "active"
    BY <1>3 DEF Ended
  <1>6. QED
    BY <1>1, <1>2, <1>4, <1>5, WordKept

\* Messages about one subscription leave the others alone.
LEMMA WordElsewhere ==
  ASSUME IInv, IInv', OrderInv, NEW s \in Subs, NEW kinds, Posts(s, kinds),
         NEW u \in Subs, WordOf(u), u # s,
         gw'[u] = gw[u], declined'[u] = declined[u], paidUntil'[u] = paidUntil[u],
         UNCHANGED <<code, status, day>>,
         \A c \in Calls : /\ call'[c].hook = call[c].hook
                          /\ call'[c].pc = "announce_charge" => call[c].pc = "announce_charge"
  PROVE  WordOf(u)'
  <1>1. /\ \A h \in hooks' : h.sub = u => h \in hooks
        /\ \A h \in hooks : h \in hooks'
    BY DEF Posts
  <1>2. \A h \in hooks : Announcing(h)' => Announcing(h)
    BY DEF Announcing
  <1>3. day' >= day
    BY HookTypes
  <1>4. QED
    BY <1>1, <1>2, <1>3, WordKept

\* Live: no message says it is disabled.
LEMMA LiveIsNotDisabled ==
  ASSUME CausesInv, NEW s \in Subs, gw[s] # "disabled"
  PROVE  About(s, {"disable"}) = {}
  BY DEF CausesInv, HookCaused, About

\* The last message that there is: the subscription is disabled.
LEMMA DisableWord ==
  ASSUME IInv, IInv', CausesInv, OrderInv,
         NEW u \in Subs, WordOf(u), Clean(u), Clean(u)',
         NEW s \in Subs, Disable(s),
         UNCHANGED <<code, status, day>>,
         \A c \in Calls : /\ call'[c].hook = call[c].hook
                          /\ call'[c].pc = "announce_charge" => call[c].pc = "announce_charge"
  PROVE  WordOf(u)'
  <1>1. Posts(s, {"disable"})
    BY NoticePosts DEF IInv, OrderInv
  <1>2. /\ gw[s] = "live" /\ gw'[s] = "disabled" /\ UNCHANGED <<declined, paidUntil>>
        /\ \A t \in Subs : t # s => gw'[t] = gw[t]
    BY DEF Disable, IInv, TypeOK
  <1>3. CASE u # s
    BY <1>1, <1>2, <1>3, WordElsewhere
  <1>4. ASSUME u = s PROVE WordOf(s)'
    <2>1. WordOf(s) /\ s \notin overtaken
      BY <1>4 DEF Clean
    <2>2. About(s, {"disable"}) = {}
      BY <1>2, LiveIsNotDisabled
    <2>3. PICK d \in hooks' : d \notin hooks
      BY <1>1 DEF Posts
    <2>4. d.sub = s /\ d.kind = "disable"
      BY <1>1, <2>3 DEF Posts
    <2>5. \A h \in hooks' : h \in hooks \/ h = d
      <3>1. hooks' = hooks \cup {Message("disable", s, 0, 1)}
        BY DEF Disable, Send
      <3>2. QED
        BY <2>3, <3>1
    <2>6. \A g \in hooks' : g.sub = s => g.n <= d.n
      <3>1. NewerLast
        BY <1>1, PostsNewer DEF OrderInv
      <3>2. \A g \in hooks' : g.n \in Nat
        BY DEF IInv, TypeOK, Hook
      <3>3. QED
        BY <2>3, <2>4, <2>5, <3>1, <3>2 DEF NewerLast
    <2>7. Coded(s)'
      BY <1>1, <1>2, <2>1 DEF WordOf, Coded, Billed, About, Posts
    <2>8. InLine(s)'
      <3>1. ASSUME NEW x \in About(s, {"disable"})', NEW g \in hooks', g.sub = s PROVE g.n <= x.n
        <4>1. x = d
          BY <2>2, <2>5, <3>1 DEF About
        <4>2. QED
          BY <2>6, <3>1, <4>1
      <3>2. ASSUME NEW g \in About(s, {"create"})', NEW h \in About(s, {"failed", "disable"})'
            PROVE  g.n < h.n
        <4>1. g \in About(s, {"create"}) /\ g \in hooks /\ g.sub = s
          BY <2>4, <2>5, <3>2 DEF About
        <4>2. CASE h \in hooks
          BY <2>1, <3>2, <4>1, <4>2 DEF About, WordOf, InLine
        <4>3. CASE h \notin hooks
          BY <1>1, <3>2, <4>1, <4>3, PostsNewer DEF About, OrderInv, NewerLast
        <4>4. QED
          BY <4>2, <4>3
      <3>3. QED
        BY <3>1, <3>2 DEF InLine
    <2>9. LetGo(s)'
      BY <2>1, <2>2 DEF LetGo, About, OrderInv, Held, HeldBy, Oldest
    <2>10. DisabledWord(s)' /\ PaidWord(s)' /\ DeclinedWord(s)'
      BY <1>2, <2>3, <2>4 DEF DisabledWord, PaidWord, DeclinedWord, About
    <2>11. declined'[s] => paidUntil'[s] <= day'
      BY <1>2, <2>1 DEF WordOf
    <2>12. QED
      BY <2>7, <2>8, <2>9, <2>10, <2>11 DEF WordOf
  <1>5. QED
    BY <1>3, <1>4

\* A failure comes after every charge before it.
LEMMA DeclineWord ==
  ASSUME IInv, IInv', CausesInv, OrderInv,
         NEW u \in Subs, WordOf(u), Clean(u), Clean(u)',
         NEW s \in Subs, DeclineRenewal(s)
  PROVE  WordOf(u)'
  <1>1. Posts(s, {"failed"})
    BY NoticePosts DEF IInv, OrderInv
  <1>2. /\ gw[s] = "live" /\ UNCHANGED <<gw, paidUntil, code, status, day, call>>
        /\ declined'[s] /\ day >= paidUntil[s]
        /\ \A t \in Subs : t # s => declined'[t] = declined[t]
    BY DEF DeclineRenewal, IInv, TypeOK, row
  <1>3. CASE u # s
    BY <1>1, <1>2, <1>3, WordElsewhere
  <1>4. ASSUME u = s PROVE WordOf(s)'
    <2>1. WordOf(s) /\ s \notin overtaken
      BY <1>4 DEF Clean
    <2>2. About(s, {"disable"}) = {}
      BY <1>2, LiveIsNotDisabled
    <2>3. PICK f \in hooks' : f \notin hooks
      BY <1>1 DEF Posts
    <2>4. f.sub = s /\ f.kind = "failed" /\ hooks \subseteq hooks'
      BY <1>1, <2>3 DEF Posts
    <2>5. NewerLast
      BY <1>1, PostsNewer DEF OrderInv
    <2>6. \A kinds : "failed" \notin kinds => About(s, kinds)' = About(s, kinds)
      BY <1>1 DEF About, Posts
    <2>7. Coded(s)'
      BY <1>2, <2>1, <2>6 DEF WordOf, Coded, Billed
    <2>8. InLine(s)'
      <3>1. About(s, {"disable"})' = {} /\ About(s, {"create"})' = About(s, {"create"})
        BY <2>2, <2>6
      <3>2. ASSUME NEW g \in About(s, {"create"})', NEW h \in About(s, {"failed", "disable"})'
            PROVE  g.n < h.n
        <4>1. g \in About(s, {"create"}) /\ g \in hooks /\ g.sub = s
          BY <3>1, <3>2 DEF About
        <4>2. CASE h \in hooks
          BY <2>1, <3>2, <4>1, <4>2 DEF About, WordOf, InLine
        <4>3. CASE h \notin hooks
          BY <2>5, <3>2, <4>1, <4>3 DEF About, NewerLast
        <4>4. QED
          BY <4>2, <4>3
      <3>3. QED
        BY <3>1, <3>2 DEF InLine
    <2>9. LetGo(s)'
      BY <1>2, <2>1 DEF LetGo, WordOf
    <2>10. DisabledWord(s)' /\ PaidWord(s)'
      BY <1>2 DEF DisabledWord, PaidWord
    <2>11. DeclinedWord(s)'
      <3>1. f \in About(s, {"failed"})'
        BY <2>3, <2>4 DEF About
      <3>2. About(s, {"charge", "create"})' = About(s, {"charge", "create"})
        BY <2>6
      <3>3. \A g \in About(s, {"charge", "create"}) : g.n < f.n
        BY <2>3, <2>4, <2>5 DEF About, NewerLast
      <3>4. QED
        BY <3>1, <3>2, <3>3 DEF DeclinedWord
    <2>12. declined'[s] => paidUntil'[s] <= day'
      BY <1>2, HookTypes
    <2>13. QED
      BY <2>7, <2>8, <2>9, <2>10, <2>11, <2>12 DEF WordOf
  <1>5. QED
    BY <1>3, <1>4

\* A charge comes after every failure before it.
LEMMA ChargeWord ==
  ASSUME IInv, IInv', CausesInv, OrderInv,
         NEW u \in Subs, WordOf(u), Clean(u), Clean(u)',
         NEW s \in Subs,
         FirstCharge(s) \/ Renew(s)
  PROVE  WordOf(u)'
  <1>1. PICK kinds \in SUBSET {"charge", "create"} :
          Posts(s, kinds) /\ (FirstCharge(s) \/ "create" \notin kinds)
    <2>1. CASE FirstCharge(s)
      BY <2>1, FirstChargePosts DEF IInv, OrderInv
    <2>2. CASE Renew(s)
      BY <2>2, RenewPosts DEF IInv, OrderInv
    <2>3. QED
      BY <2>1, <2>2
  <1>2. /\ gw[s] \in {"open", "live"} /\ gw'[s] = "live" /\ ~declined'[s]
        /\ FirstCharge(s) => gw[s] = "open"
        /\ Renew(s) => gw[s] = "live"
        /\ UNCHANGED <<code, status, day, call>>
        /\ \A t \in Subs : t # s => /\ gw'[t] = gw[t] /\ declined'[t] = declined[t]
                                    /\ paidUntil'[t] = paidUntil[t]
    <2>1. /\ gw' = [gw EXCEPT ![s] = "live"] /\ declined' = [declined EXCEPT ![s] = FALSE]
          /\ \E d \in Periods : paidUntil' = [paidUntil EXCEPT ![s] = day + d]
      BY DEF FirstCharge, Renew, Charge
    <2>2. /\ gw[s] \in {"open", "live"}
          /\ FirstCharge(s) => gw[s] = "open"
          /\ Renew(s) => gw[s] = "live"
      BY DEF FirstCharge, Renew
    <2>3. UNCHANGED <<code, status, day, call>>
      BY DEF FirstCharge, Renew, Charge, row
    <2>4. gw'[s] = "live" /\ declined'[s] = FALSE
      BY <2>1 DEF IInv, TypeOK
    <2>5. \A t \in Subs : t # s => /\ gw'[t] = gw[t] /\ declined'[t] = declined[t]
                                   /\ paidUntil'[t] = paidUntil[t]
      BY <2>1 DEF IInv, TypeOK
    <2>6. QED
      BY <2>2, <2>3, <2>4, <2>5
  <1>3. CASE u # s
    <2>1. gw'[u] = gw[u] /\ declined'[u] = declined[u] /\ paidUntil'[u] = paidUntil[u]
      BY <1>2, <1>3
    <2>2. UNCHANGED <<code, status, day, call>> /\ Posts(s, kinds)
      BY <1>1, <1>2
    <2>3. QED
      BY <1>3, <2>1, <2>2, WordElsewhere
  <1>4. ASSUME u = s PROVE WordOf(s)'
    <2>1. WordOf(s) /\ s \notin overtaken
      BY <1>4 DEF Clean
    <2>2. About(s, {"disable"}) = {}
      BY <1>2, LiveIsNotDisabled
    <2>3. PICK h \in hooks' : h \notin hooks /\ h.kind = "charge"
      <3>1. CASE FirstCharge(s)
        BY <3>1, FirstChargePosts DEF IInv, OrderInv
      <3>2. CASE Renew(s)
        BY <3>2, RenewPosts DEF IInv, OrderInv, Posts
      <3>3. QED
        BY <3>1, <3>2
    <2>4. h.sub = s /\ hooks \subseteq hooks'
      BY <1>1, <2>3 DEF Posts
    <2>5. NewerLast
      BY <1>1, PostsNewer DEF OrderInv
    <2>6. About(s, {"disable"})' = {} /\ About(s, {"failed"})' = About(s, {"failed"})
      BY <1>1, <2>2 DEF About, Posts
    <2>7. Coded(s)'
      <3>1. CASE FirstCharge(s)
        <4>1. PICK x \in hooks' : x \notin hooks /\ x.kind = "create"
          BY <3>1, FirstChargePosts DEF IInv, OrderInv
        <4>2. x \in About(s, {"create"})'
          BY <1>1, <4>1 DEF About, Posts
        <4>3. QED
          BY <4>2 DEF Coded
      <3>2. CASE Renew(s)
        BY <1>2, <2>1, <2>4, <3>2 DEF WordOf, Coded, Billed, About
      <3>3. QED
        BY <3>1, <3>2
    <2>8. InLine(s)'
      <3>1. ASSUME NEW g \in About(s, {"create"})', NEW f \in About(s, {"failed", "disable"})'
            PROVE  g.n < f.n
        <4>1. f \in About(s, {"failed", "disable"}) /\ f \in hooks /\ f.sub = s
          BY <2>2, <2>6, <3>1 DEF About
        <4>2. Billed(s)
          BY <4>1 DEF IInv, RowsAreThere
        <4>3. g \in About(s, {"create"})
          BY <1>1, <1>2, <3>1, <4>2 DEF Billed, About, Posts
        <4>4. QED
          BY <2>1, <4>1, <4>3 DEF WordOf, InLine
      <3>2. QED
        BY <2>6, <3>1 DEF InLine
    <2>9. LetGo(s)'
      BY <1>2, <2>1 DEF LetGo, WordOf
    <2>10. DisabledWord(s)' /\ DeclinedWord(s)'
      BY <1>2 DEF DisabledWord, DeclinedWord
    <2>11. PaidWord(s)'
      <3>1. h \in About(s, {"charge"})'
        BY <2>3, <2>4 DEF About
      <3>2. ~Announcing(h)'
        BY <1>2, <2>1, <2>3, <2>4 DEF Announcing, OrderInv, Held, HeldBy, Oldest
      <3>3. \A f \in About(s, {"failed"})' : h.n > f.n
        <4>1. SUFFICES ASSUME NEW f \in About(s, {"failed"}) PROVE h.n > f.n
          BY <2>6
        <4>2. f.n < h.n
          BY <2>3, <2>4, <2>5 DEF About, NewerLast
        <4>3. f.n \in Nat /\ h.n \in Nat
          BY <2>3 DEF About, IInv, TypeOK, Hook
        <4>4. QED
          BY <4>2, <4>3
      <3>4. QED
        BY <3>1, <3>2, <3>3 DEF PaidWord
    <2>12. declined'[s] => paidUntil'[s] <= day'
      BY <1>2
    <2>13. QED
      BY <2>7, <2>8, <2>9, <2>10, <2>11, <2>12 DEF WordOf
  <1>5. QED
    BY <1>3, <1>4

\* A charge that is written makes the row active.
LEMMA ApplyChargeWord ==
  ASSUME IInv, IInv', OrderInv,
         NEW u \in Subs, WordOf(u), Clean(u), Clean(u)',
         NEW c \in Calls, ApplyCharge(c)
  PROVE  WordOf(u)'
  <1>s. PICK s \in Subs : s = call[c].sub
    BY HookTypes
  <1>1. /\ UNCHANGED <<gw, declined, paidUntil, code, day, hooks>>
        /\ call[c].pc = "apply_charge" /\ status'[s] = "active"
        /\ \A t \in Subs : t # s => status'[t] = status[t]
    BY <1>s DEF ApplyCharge, At, provider, IInv, TypeOK
  <1>2. PICK h \in Hook : call[c].hook = {h} /\ h.kind = "charge" /\ h.sub = s
    BY <1>s, <1>1 DEF OrderInv, Held, HeldBy, ChargeSteps
  <1>3. /\ call'[c].hook = {h}
        /\ \A d \in Calls : d # c => call'[d] = call[d]
    BY <1>2 DEF ApplyCharge, Goto, IInv, TypeOK
  <1>4. ASSUME u # s PROVE WordOf(u)'
    <2>1. \A g \in hooks : g.sub = u /\ Announcing(g)' => Announcing(g)
      BY <1>2, <1>3, <1>4 DEF Announcing
    <2>2. \A d \in Calls : \A g \in call'[d].hook : g \in call[d].hook
      BY <1>2, <1>3
    <2>3. day' >= day /\ status'[u] = status[u]
      BY <1>1, <1>4, HookTypes
    <2>4. QED
      BY <1>1, <2>1, <2>2, <2>3, WordKept
  <1>5. ASSUME u = s PROVE WordOf(s)'
    <2>1. WordOf(s) /\ s \notin overtaken
      BY <1>5 DEF Clean
    <2>o. h \in hooks
      BY <1>2, <2>1 DEF OrderInv, Held, HeldBy, Oldest
    <2>2. h \in About(s, {"charge", "create"})
      BY <1>2, <2>o DEF About
    <2>3. \A kinds : About(s, kinds)' = About(s, kinds)
      BY <1>1 DEF About
    <2>4. Coded(s)' /\ InLine(s)'
      BY <1>1, <2>1, <2>3 DEF WordOf, Coded, Billed, InLine
    <2>5. LetGo(s)'
      <3>1. SUFFICES ASSUME NEW d \in Calls, NEW g \in call'[d].hook, g.sub = s, g.kind = "disable"
                     PROVE  FALSE
        BY DEF LetGo
      <3>2. d # c /\ g \in call[d].hook
        BY <1>2, <1>3, <3>1
      <3>3. g.sub # h.sub
        BY <1>2, <2>1, <3>1, <3>2, HeldAlone
      <3>4. QED
        BY <1>2, <3>1, <3>3
    <2>6. DisabledWord(s)' /\ DeclinedWord(s)'
      BY <1>1, <2>1, <2>2, <2>3 DEF WordOf, DisabledWord, DeclinedWord
    <2>7. PaidWord(s)'
      BY <1>1, <2>1, <2>3 DEF WordOf, PaidWord
    <2>8. declined'[s] => paidUntil'[s] <= day'
      BY <1>1, <2>1 DEF WordOf
    <2>9. QED
      BY <2>4, <2>5, <2>6, <2>7, <2>8 DEF WordOf
  <1>6. QED
    BY <1>4, <1>5

\* No request holds a message about a subscription whose oldest message none holds.
LEMMA NoneHeld ==
  ASSUME IInv, OrderInv, NEW h, Oldest(h), \A c \in Calls : h \notin call[c].hook,
         NEW c \in Calls, NEW g \in call[c].hook, h.sub \notin overtaken
  PROVE  g.sub # h.sub
  <1> SUFFICES ASSUME g.sub = h.sub PROVE FALSE
    OBVIOUS
  <1>1. Oldest(g) /\ g # h
    BY DEF OrderInv, Held, HeldBy
  <1>2. g.n \in Nat /\ h.n \in Nat
    BY <1>1, HookTypes DEF Oldest
  <1>3. g.sub = h.sub => g.n = h.n
    BY <1>1, <1>2 DEF Oldest
  <1>4. QED
    BY <1>1, <1>3 DEF OrderInv, Numbered, Oldest

\* Of any rows one is the newest.
LEMMA Largest ==
  ASSUME TypeOK, RanksBounded, NEW rows \in SUBSET Subs, rows # {}
  PROVE  Newest(rows) # {}
  <1> DEFINE K == 1 + Cardinality(Subs)
             R == OpToRel(<, Nat)
             T == {K - born[s] : s \in rows}
  <1>k. K \in Nat
    BY SubscriptionsAssumption, FS_CardinalityType
  <1>b. \A s \in Subs : born[s] \in Nat /\ born[s] <= K
    BY DEF TypeOK, RanksBounded
  <1> HIDE DEF K
  <1>1. IsWellFoundedOn(R, Nat)
    BY NatLessThanWellFounded
  <1>2. T \subseteq Nat /\ T # {}
    BY <1>k, <1>b
  <1>3. \A x, y \in Nat : x < y => <<x, y>> \in R
    BY DEF OpToRel
  <1> HIDE DEF R, T
  <1>4. PICK x \in T : \A y \in T : ~(<<y, x>> \in R)
    BY <1>1, <1>2, WFMin
  <1>5. ASSUME NEW y \in T PROVE x <= y
    <2>1. x \in Nat /\ y \in Nat
      BY <1>2
    <2>2. ~(y < x)
      BY <1>3, <1>4, <2>1
    <2>3. QED
      BY <2>1, <2>2
  <1>6. PICK s \in rows : x = K - born[s]
    BY <1>4 DEF T
  <1>7. \A t \in rows : K - born[s] <= K - born[t]
    BY <1>5, <1>6 DEF T
  <1>8. \A t \in rows : born[t] <= born[s]
    BY <1>k, <1>b, <1>7
  <1>9. QED
    BY <1>8 DEF Newest

\* Of rows that were not taken for one another, a subscription's own is found, or it has
\* its code already; no other is.
LEMMA FoundIsOwn ==
  ASSUME IInv, NEW h \in hooks, CreateWebhook(h), NEW u \in Subs, Clean(u), Clean(u)'
  PROVE  /\ u # h.sub => code'[u] = code[u] /\ status'[u] = status[u]
         /\ u = h.sub => code'[u] = {u} /\ status'[u] \in {"active", status[u]}
  <1> DEFINE found == Newest(Uncoded(planCode[h.sub]))
  <1>1. /\ code' = [s \in Subs |-> IF s \in found THEN {h.sub} ELSE code[s]]
        /\ status' = [s \in Subs |-> IF s \in found THEN "active" ELSE status[s]]
    BY DEF CreateWebhook
  <1>2. h.sub \in Subs /\ status[h.sub] # "none" /\ TypeOK /\ RanksBounded
    BY HookTypes DEF IInv, RowsAreThere
  <1>3. found \subseteq Subs /\ (Uncoded(planCode[h.sub]) # {} => found # {})
    BY <1>2, Largest DEF Newest, Uncoded
  <1> HIDE DEF found
  <1>4. \A s \in found : h.sub \in code'[s]
    BY <1>1, <1>3
  <1>5. u # h.sub => u \notin found
    BY <1>2, <1>4 DEF Clean, Mixed
  <1>6. ASSUME u = h.sub PROVE code'[u] = {u}
    <2>1. \A s \in found : s = u
      BY <1>3, <1>4, <1>6 DEF Clean, Mixed
    <2>2. CASE code[u] = {}
      <3>1. u \in Uncoded(planCode[u])
        BY <1>2, <1>6, <2>2 DEF Uncoded
      <3>2. u \in found
        BY <1>3, <1>6, <2>1, <3>1
      <3>3. QED
        BY <1>1, <1>6, <3>2
    <2>3. CASE code[u] # {}
      <3>1. code[u] = {u}
        BY <1>2, <2>3 DEF Clean, Mixed, TypeOK
      <3>2. QED
        BY <1>1, <1>6, <3>1
    <2>4. QED
      BY <2>2, <2>3
  <1>7. QED
    BY <1>1, <1>5, <1>6

\* The message that a subscription was made gives the row its code.
LEMMA CreateWebhookWord ==
  ASSUME IInv, IInv', OrderInv,
         NEW u \in Subs, WordOf(u), Clean(u), Clean(u)',
         NEW h \in hooks, CreateWebhook(h)
  PROVE  WordOf(u)'
  <1>s. PICK s \in Subs : s = h.sub
    BY HookTypes
  <1>1. /\ UNCHANGED <<gw, declined, paidUntil, day, call>>
        /\ h.kind = "create"
        /\ s = u => Oldest(h) /\ \A c \in Calls : h \notin call[c].hook
        /\ hooks' = hooks \/ hooks' = hooks \ {h}
    BY <1>s, DeliveredOldest DEF CreateWebhook, provider, Answer, Clean
  <1>3. /\ u # s => code'[u] = code[u] /\ status'[u] = status[u]
        /\ u = s => code'[u] = {u} /\ status'[u] \in {"active", status[u]}
    BY <1>s, FoundIsOwn
  <1>4. \A g \in hooks : Announcing(g)' <=> Announcing(g)
    BY <1>1 DEF Announcing
  <1>5. ASSUME u # s PROVE WordOf(u)'
    <2>1. /\ \A g \in hooks' : g.sub = u => g \in hooks
          /\ \A g \in hooks : g.sub = u => g \in hooks'
      BY <1>s, <1>1, <1>5
    <2>2. day' >= day
      BY <1>1, HookTypes
    <2>3. \A d \in Calls : \A g \in call'[d].hook : g \in call[d].hook
      BY <1>1
    <2>4. status'[u] = status[u] /\ code'[u] = code[u]
      BY <1>3, <1>5
    <2>5. QED
      BY <1>1, <1>4, <2>1, <2>2, <2>3, <2>4, WordKept
  <1>6. ASSUME u = s PROVE WordOf(s)'
    <2>1. WordOf(s) /\ s \notin overtaken /\ Oldest(h) /\ \A c \in Calls : h \notin call[c].hook
      BY <1>1, <1>6 DEF Clean
    <2>2. h \in About(s, {"charge", "create"})
      BY <1>s, <1>1 DEF About
    <2>3. /\ About(s, {"charge"})' = About(s, {"charge"})
          /\ About(s, {"failed"})' = About(s, {"failed"})
          /\ About(s, {"disable"})' = About(s, {"disable"})
          /\ \A kinds : About(s, kinds)' \subseteq About(s, kinds)
      BY <1>1 DEF About
    <2>4. Coded(s)'
      BY <1>3, <1>6 DEF Coded
    <2>5. InLine(s)'
      <3>1. \A g \in hooks' : g \in hooks
        BY <1>1
      <3>2. QED
        BY <2>1, <2>3, <3>1 DEF WordOf, InLine
    <2>6. LetGo(s)'
      <3>1. \A c \in Calls : \A g \in call'[c].hook : g.sub # s
        BY <1>s, <1>1, <2>1, NoneHeld
      <3>2. QED
        BY <3>1 DEF LetGo
    <2>7. DisabledWord(s)' /\ DeclinedWord(s)'
      BY <1>1, <2>1, <2>2, <2>3 DEF WordOf, DisabledWord, DeclinedWord
    <2>8. PaidWord(s)'
      <3>1. \A x \in About(s, {"charge"}) : Announcing(x)' <=> Announcing(x)
        BY <1>4 DEF About
      <3>2. QED
        BY <1>1, <1>3, <1>6, <2>1, <2>3, <3>1 DEF WordOf, PaidWord
    <2>9. declined'[s] => paidUntil'[s] <= day'
      BY <1>1, <2>1 DEF WordOf
    <2>10. QED
      BY <2>4, <2>5, <2>6, <2>7, <2>8, <2>9 DEF WordOf
  <1>7. QED
    BY <1>5, <1>6

\* The message that a renewal failed: a charge after it says otherwise, or the row is left
\* as not active.
LEMMA FailedWebhookWord ==
  ASSUME IInv, IInv', OrderInv,
         NEW u \in Subs, WordOf(u), Clean(u), Clean(u)',
         NEW h \in hooks, FailedWebhook(h)
  PROVE  WordOf(u)'
  <1>s. PICK s \in Subs : s = h.sub
    BY HookTypes
  <1>1. /\ UNCHANGED <<gw, declined, paidUntil, day, call, code>>
        /\ h.kind = "failed"
        /\ s = u => Oldest(h) /\ \A c \in Calls : h \notin call[c].hook
        /\ hooks' = hooks \/ hooks' = hooks \ {h}
    BY <1>s, DeliveredOldest DEF FailedWebhook, provider, Answer, Clean
  <1>2. /\ u # s => status'[u] = status[u]
        /\ status'[s] = IF s \in code[s] /\ status[s] = "active" THEN "payment_failed"
                                                                 ELSE status[s]
    BY <1>s DEF FailedWebhook, Clean, Mixed
  <1>3. \A g \in hooks : Announcing(g)' <=> Announcing(g)
    BY <1>1 DEF Announcing
  <1>4. ASSUME u # s PROVE WordOf(u)'
    <2>1. /\ \A g \in hooks' : g.sub = u => g \in hooks
          /\ \A g \in hooks : g.sub = u => g \in hooks'
      BY <1>s, <1>1, <1>4
    <2>2. day' >= day
      BY <1>1, HookTypes
    <2>3. \A d \in Calls : \A g \in call'[d].hook : g \in call[d].hook
      BY <1>1
    <2>4. status'[u] = status[u]
      BY <1>2, <1>4
    <2>5. QED
      BY <1>1, <1>3, <2>1, <2>2, <2>3, <2>4, WordKept
  <1>5. ASSUME u = s PROVE WordOf(s)'
    <2>1. WordOf(s) /\ s \notin overtaken /\ Oldest(h) /\ \A c \in Calls : h \notin call[c].hook
      BY <1>1, <1>5 DEF Clean
    <2>2. h \in About(s, {"failed"}) /\ h \in About(s, {"failed", "disable"})
      BY <1>s, <1>1 DEF About
    <2>3. /\ \A kinds : "failed" \notin kinds => About(s, kinds)' = About(s, kinds)
          /\ \A kinds : About(s, kinds)' \subseteq About(s, kinds)
          /\ \A f \in About(s, {"failed"}) : f = h \/ f \in About(s, {"failed"})'
      BY <1>1 DEF About
    <2>4. Coded(s)'
      BY <1>1, <2>1, <2>3 DEF WordOf, Coded, Billed
    <2>5. InLine(s)'
      <3>1. \A g \in hooks' : g \in hooks
        BY <1>1
      <3>2. QED
        BY <2>1, <2>3, <3>1 DEF WordOf, InLine
    <2>6. LetGo(s)'
      <3>1. \A c \in Calls : \A g \in call'[c].hook : g.sub # s
        BY <1>s, <1>1, <2>1, NoneHeld
      <3>2. QED
        BY <3>1 DEF LetGo
    <2>7. DisabledWord(s)'
      <3>1. status[s] \in Ended => status'[s] \in Ended
        BY <1>2 DEF Ended
      <3>2. QED
        BY <1>1, <2>1, <2>3, <3>1 DEF WordOf, DisabledWord
    <2>8. PaidWord(s)'
      <3>1. SUFFICES ASSUME gw[s] = "live", ~declined[s]
                     PROVE  /\ \A f \in About(s, {"failed"})' : \E g \in About(s, {"charge"})' : g.n > f.n
                            /\ \E g \in About(s, {"charge"})' : ~Announcing(g)'
        BY <1>1 DEF PaidWord
      <3>2. \A f \in About(s, {"failed"})' : \E g \in About(s, {"charge"})' : g.n > f.n
        BY <2>1, <2>3, <3>1 DEF WordOf, PaidWord
      <3>3. PICK g \in About(s, {"charge"}) : g.n > h.n
        BY <2>1, <2>2, <3>1 DEF WordOf, PaidWord
      <3>4. \A c \in Calls : g \notin call[c].hook
        BY <1>s, <1>1, <2>1, <3>3, NoneHeld DEF About
      <3>5. ~Announcing(g)' /\ g \in About(s, {"charge"})'
        BY <1>1, <2>3, <3>3, <3>4 DEF Announcing
      <3>6. QED
        BY <3>2, <3>5
    <2>9. DeclinedWord(s)'
      <3>1. SUFFICES ASSUME gw[s] = "live", declined[s]
                     PROVE  \/ status'[s] # "active" /\ About(s, {"charge", "create"}) = {}
                            \/ \E f \in About(s, {"failed"})' :
                                 \A g \in About(s, {"charge", "create"}) : g.n < f.n
        <4>1. About(s, {"charge", "create"})' = About(s, {"charge", "create"})
          BY <2>3
        <4>2. QED
          BY <1>1, <4>1 DEF DeclinedWord
      <3>2. CASE status[s] # "active" /\ About(s, {"charge", "create"}) = {}
        BY <1>2, <3>2
      <3>3. ASSUME NEW f \in About(s, {"failed"}),
                   \A g \in About(s, {"charge", "create"}) : g.n < f.n
            PROVE  \/ status'[s] # "active" /\ About(s, {"charge", "create"}) = {}
                   \/ f \in About(s, {"failed"})'
        <4>1. CASE f = h
          <5>1. ASSUME NEW g \in About(s, {"charge", "create"}) PROVE FALSE
            <6>1. g.n < h.n /\ g \in hooks /\ g.sub = s
              BY <3>3, <4>1, <5>1 DEF About
            <6>2. h.n <= g.n
              BY <1>s, <1>1, <2>1, <6>1 DEF Oldest
            <6>3. QED
              BY <6>1, <6>2, HookTypes
          <5>2. About(s, {"create"}) = {}
            BY <5>1 DEF About
          <5>3. code[s] = {s}
            BY <2>1, <3>1, <5>2 DEF WordOf, Coded, Billed
          <5>4. QED
            BY <1>2, <5>1, <5>3
        <4>2. CASE f # h
          BY <2>3, <4>2
        <4>3. QED
          BY <4>1, <4>2
      <3>4. QED
        BY <2>1, <3>1, <3>2, <3>3 DEF WordOf, DeclinedWord
    <2>10. declined'[s] => paidUntil'[s] <= day'
      BY <1>1, <2>1 DEF WordOf
    <2>11. QED
      BY <2>4, <2>5, <2>6, <2>7, <2>8, <2>9, <2>10 DEF WordOf
  <1>6. QED
    BY <1>4, <1>5

LEMMA CancelAtProviderWord ==
  ASSUME IInv, IInv', CausesInv, OrderInv,
         NEW u \in Subs, WordOf(u), Clean(u), Clean(u)',
         NEW c \in Calls, CancelAtProvider(c)
  PROVE  WordOf(u)'
  <1>1. call[c].sub \in Subs
    BY HookTypes
  <1>2. code[call[c].sub] \subseteq Subs
    BY <1>1 DEF IInv, TypeOK
  <1>3. CASE Return(c) /\ UNCHANGED provider
    BY <1>3, EndWord
  <1>4. ASSUME NEW x \in Subs, Disable(x), Goto(c, "apply_cancel", 0) PROVE WordOf(u)'
    <2>1. UNCHANGED <<code, status, day>>
      BY DEF CancelAtProvider, row
    <2>2. \A d \in Calls : /\ call'[d].hook = call[d].hook
                           /\ call'[d].pc = "announce_charge" => call[d].pc = "announce_charge"
      BY <1>4 DEF Goto, IInv, TypeOK
    <2>3. QED
      BY <1>4, <2>1, <2>2, DisableWord
  <1>5. QED
    BY <1>2, <1>3, <1>4 DEF CancelAtProvider

LEMMA DashboardWord ==
  ASSUME IInv, IInv', CausesInv, OrderInv,
         NEW u \in Subs, WordOf(u), Clean(u), Clean(u)',
         NEW s \in Subs, DisableOnDashboard(s)
  PROVE  WordOf(u)'
  <1>1. UNCHANGED <<code, status, day, call>> /\ Disable(s)
    BY DEF DisableOnDashboard, row
  <1>2. QED
    BY <1>1, DisableWord

LEMMA WordInitially == Init => LastWord
  BY DEF Init, LastWord, WordOf, Coded, Billed, InLine, About, LetGo, NoCall, DisabledWord,
         PaidWord, DeclinedWord

\* Messages that overtook each other did so for good, and a row keeps its code.
LEMMA CleanBefore ==
  ASSUME IInv, [Next]_vars, NEW u \in Subs, Clean(u)'
  PROVE  Clean(u)
  <1>1. overtaken \subseteq overtaken' /\ \A t \in Subs : code[t] \subseteq code'[t]
    <2>1. ASSUME NEW s \in Subs,
                 \/ Create(s)
                 \/ FirstCharge(s) \/ Renew(s) \/ DeclineRenewal(s) \/ DisableOnDashboard(s)
          PROVE  UNCHANGED <<overtaken, code>>
      BY <2>1 DEF Create, LookUpPlan, CreatePlan, CachePlan, OpenCheckout, InsertRow, FirstCharge,
                  Renew, Charge, DeclineRenewal, DisableOnDashboard, history, row
    <2>2. ASSUME NEW h \in hooks, Deliver(h)
          PROVE  overtaken \subseteq overtaken' /\ \A t \in Subs : code[t] \subseteq code'[t]
      <3>1. Delivered(h)
        BY <2>2 DEF Deliver, CreateWebhook, FailedWebhook, ChargeWebhook, DisableWebhook
      <3>2. \/ CreateWebhook(h) \/ FailedWebhook(h)
            \/ UNCHANGED code
        BY <2>2 DEF Deliver, ChargeWebhook, DisableWebhook, row
      <3>3. QED
        BY <3>1, <3>2, DeliveredOldest, CodesGrow
    <2>3. ASSUME NEW c \in Calls,
                 \/ Proceed(c) \/ HandlerDies(c) \/ PublishLost(c)
                 \/ \E s \in Subs : Cancel(c, s)
          PROVE  UNCHANGED <<overtaken, code>>
      BY <2>3 DEF Proceed, ApplyCharge, AnnounceCharge, CancelAtProvider, ApplyCancel,
                  AnnounceCancel, HandlerDies, PublishLost, Cancel, history, row
    <2>4. CASE Sweep \/ SweepDies \/ Tick \/ UNCHANGED vars
      BY <2>4 DEF Sweep, SweepPastDue, SweepExpire, SweepAnnounce, SweepDies, Tick, vars, history,
                  row
    <2>5. QED
      BY <2>1, <2>2, <2>3, <2>4 DEF Next
  <1>2. QED
    BY <1>1 DEF Clean, Mixed

LEMMA WordStepwise == IInv /\ CausesInv /\ OrderInv /\ LastWord /\ [Next]_vars => LastWord'
  <1> SUFFICES ASSUME IInv, CausesInv, OrderInv, LastWord, [Next]_vars,
                      NEW u \in Subs, Clean(u)'
               PROVE  WordOf(u)'
    BY DEF LastWord
  <1>1. IInv' /\ Clean(u) /\ WordOf(u)
    BY Stepwise, CleanBefore DEF LastWord
  <1>2. ASSUME NEW s \in Subs, Create(s) PROVE WordOf(u)'
    BY <1>1, <1>2, CreateWord
  <1>3. ASSUME NEW s \in Subs,
               FirstCharge(s) \/ Renew(s) \/ DeclineRenewal(s) \/ DisableOnDashboard(s)
        PROVE  WordOf(u)'
    BY <1>1, <1>3, ChargeWord, DeclineWord, DashboardWord
  <1>4. ASSUME NEW h \in hooks, Deliver(h)
        PROVE  WordOf(u)'
    BY <1>1, <1>4, CreateWebhookWord, FailedWebhookWord, BeginWord, DisableWebhookWord DEF Deliver
  <1>5. ASSUME NEW c \in Calls, Proceed(c)
        PROVE  WordOf(u)'
    BY <1>1, <1>5, ApplyChargeWord, EndWord, CancelAtProviderWord, ApplyCancelWord DEF Proceed
  <1>6. ASSUME NEW c \in Calls, HandlerDies(c) \/ PublishLost(c)
        PROVE  WordOf(u)'
    BY <1>1, <1>6, EndWord
  <1>7. ASSUME NEW c \in Calls, NEW s \in Subs, Cancel(c, s)
        PROVE  WordOf(u)'
    BY <1>1, <1>7, BeginWord
  <1>8. CASE Sweep \/ SweepDies \/ Tick \/ UNCHANGED vars
    BY <1>1, <1>8, SweepWord
  <1>9. QED
    BY <1>2, <1>3, <1>4, <1>5, <1>6, <1>7, <1>8 DEF Next

\* Once nothing about a subscription is on its way, the row says what the provider does, for
\* any number of subscriptions, requests, charges and faults; of subscriptions whose messages
\* did not overtake each other and that were not taken for one another.
THEOREM RowAgrees == Spec => []AgreesWhenQuiet
  <1> DEFINE All == IInv /\ CausesInv /\ OrderInv /\ LastWord
  <1>1. Init => All
    BY Initially, CausesInitially, OrderInitially, WordInitially
  <1>2. All /\ [Next]_vars => All'
    BY Stepwise, CausesStepwise, OrderStepwise, WordStepwise
  <1>3. All => AgreesWhenQuiet
    <2>1. SUFFICES ASSUME All, NEW s \in Subs, Quiet(s), s \notin overtaken, ~Mixed(s)
                   PROVE  /\ gw[s] = "disabled" => status[s] \in Ended
                          /\ gw[s] = "live" /\ paidUntil[s] > day => status[s] = "active"
                          /\ gw[s] = "live" /\ declined[s] => status[s] # "active"
      BY DEF AgreesWhenQuiet
    <2>2. WordOf(s) /\ \A kinds : About(s, kinds) = {}
      BY <2>1 DEF LastWord, Clean, Quiet, About
    <2>3. paidUntil[s] > day => ~declined[s]
      <3>1. paidUntil[s] \in Nat /\ day \in Nat
        BY <2>1, HookTypes
      <3>2. QED
        BY <2>2, <3>1 DEF WordOf
    <2>4. QED
      BY <2>2, <2>3 DEF WordOf, DisabledWord, PaidWord, DeclinedWord
  <1> HIDE DEF All
  <1>4. QED
    BY <1>1, <1>2, <1>3, PTL DEF Spec
=============================================================================
