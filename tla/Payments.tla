------------------------------ MODULE Payments ------------------------------
(***************************************************************************)
(* One-time checkout of payment-service (payments.service.ts): a payment   *)
(* row, its ledger (the transactions and refunds tables), the provider it  *)
(* is verified against, and the requests that act on it concurrently.      *)
(*                                                                         *)
(* A request is an async handler: every await is a point where any other   *)
(* request may run, so a handler is one action per awaited query or call,  *)
(* and what it read earlier stays in its record call[c].  A handler may    *)
(* die at any await, because a query threw or the process went down; the   *)
(* webhooks take a first query that threw for an unknown payment.          *)
(*                                                                         *)
(* Abstractions.  The transactions and refunds tables are kept as the      *)
(* aggregates the code reads (a SUM, a COUNT of rows).  Refund amounts are *)
(* whole parts of the price.  Only payment.completed is kept of the        *)
(* published events: it is the only one another service acts upon.         *)
(***************************************************************************)
EXTENDS Integers, FiniteSets

CONSTANTS
  Payments,   \* payment references
  Calls,      \* requests that can be in flight together
  Refunders,  \* the requests among them that may run a refund or a reversal
  Price,      \* what every payment charges
  MaxFaults   \* bound: handlers that die, queries that fail, events the broker never gets

ASSUME PaymentsAssumption ==
  /\ Payments # {}
  /\ IsFiniteSet(Calls)
  /\ Refunders \subseteq Calls
  /\ Price \in Nat \ {0}
  /\ MaxFaults \in Nat

VARIABLES
  charge,         \* provider side: what became of the charge
  reversed,       \* provider side: what it reversed on its own dashboard
  hooks,          \* webhook messages the provider still delivers
  status,         \* payments.status, "none" before the INSERT
  pendingRefunds, \* refunds rows in status 'pending'
  refunded,       \* SUM(amount) of the refunds rows in status 'completed'
  paymentRows,    \* transactions rows of type 'payment'
  refundRows,     \* transactions rows of type 'refund'
  refundLedger,   \* SUM(amount) of those
  published,      \* payment.completed events handed to the broker
  call,           \* the requests in flight
  faults,         \* faults that happened so far
  silenced,       \* history: payments whose completion, or its news, was dropped
  severed         \* history: payments with a reversal that died between its writes

provider == <<charge, reversed>>
refunds  == <<pendingRefunds, refunded, refundRows, refundLedger>>
history  == <<faults, silenced, severed>>
vars == <<provider, hooks, status, refunds, paymentRows, published, call, history>>

Amounts == 1..Price

\* refund.processed may leave the amount out (0): the code then takes what remains.
ChargeHook(p)    == [kind |-> "charge", pay |-> p, amt |-> 0]
RefundHook(p, a) == [kind |-> "refund", pay |-> p, amt |-> a]
Hook == [kind : {"charge", "refund"}, pay : Payments, amt : 0..Price]

Charges    == {"none", "open", "failed", "success", "reversed"}
Captured   == {"success", "reversed"}
Statuses   == {"none", "pending", "completed", "failed", "refunded", "partially_refunded"}
Refundable == {"completed", "partially_refunded"}
Settled    == Refundable \cup {"refunded"}

Steps == {"idle", "insert", "verify", "complete", "fail", "ledger", "publish",
          "sum_refund", "sum_reversal", "insert_refund", "insert_reversal",
          "commit_refund", "commit_reversal"}

\* hook: the message a webhook request answers, {} for any other request.
Call == [pc : Steps, pay : Payments, amt : 0..Price, already : Nat, hook : SUBSET Hook]
NoCall == [pc |-> "idle", pay |-> CHOOSE p \in Payments : TRUE, amt |-> 0,
           already |-> 0, hook |-> {}]

At(c, step) == call[c].pc = step
Goto(c, step) == call' = [call EXCEPT ![c].pc = step]
GotoWith(c, step, a, sum) ==
  call' = [call EXCEPT ![c] = [pc |-> step, pay |-> call[c].pay, amt |-> a,
                               already |-> sum, hook |-> call[c].hook]]
Enter(c, step, p, a, h) ==
  /\ At(c, "idle")
  /\ call' = [call EXCEPT ![c] = [pc |-> step, pay |-> p, amt |-> a,
                                  already |-> 0, hook |-> h]]

\* A webhook request that returns is a 200 for its message; the provider stops
\* delivering it, or never sees the reply and delivers it again.
Answer(h) == hooks' \in {hooks, hooks \ h}
Return(c) ==
  /\ call' = [call EXCEPT ![c] = NoCall]
  /\ Answer(call[c].hook)

Init ==
  /\ charge = [p \in Payments |-> "none"]
  /\ reversed = [p \in Payments |-> 0]
  /\ hooks = {}
  /\ status = [p \in Payments |-> "none"]
  /\ pendingRefunds = [p \in Payments |-> 0]
  /\ refunded = [p \in Payments |-> 0]
  /\ paymentRows = [p \in Payments |-> 0]
  /\ refundRows = [p \in Payments |-> 0]
  /\ refundLedger = [p \in Payments |-> 0]
  /\ published = [p \in Payments |-> 0]
  /\ call = [c \in Calls |-> NoCall]
  /\ faults = 0
  /\ silenced = {}
  /\ severed = {}

-----------------------------------------------------------------------------
(* Checkout: the provider is called before the row is written. *)

Initialize(c, p) ==
  /\ charge[p] = "none"
  /\ Enter(c, "insert", p, 0, {})
  /\ charge' = [charge EXCEPT ![p] = "open"]
  /\ UNCHANGED <<reversed, hooks, status, refunds, paymentRows, published, history>>

InsertPending(c) ==
  LET p == call[c].pay IN
  /\ At(c, "insert")
  /\ status' = [status EXCEPT ![p] = "pending"]
  /\ Return(c)
  /\ UNCHANGED <<provider, refunds, paymentRows, published, history>>

-----------------------------------------------------------------------------
(* The provider.  The customer holds the checkout link only once the row is *)
(* written; a declined attempt can be tried again under the same reference. *)

ChargeSucceeds(p) ==
  /\ status[p] # "none"
  /\ charge[p] \in {"open", "failed"}
  /\ charge' = [charge EXCEPT ![p] = "success"]
  /\ hooks' = hooks \cup {ChargeHook(p)}
  /\ UNCHANGED <<reversed, status, refunds, paymentRows, published, call, history>>

ChargeFails(p) ==
  /\ status[p] # "none"
  /\ charge[p] = "open"
  /\ charge' = [charge EXCEPT ![p] = "failed"]
  /\ UNCHANGED <<reversed, hooks, status, refunds, paymentRows, published, call, history>>

\* Bound: one dashboard reversal per payment.
ChargeReversed(p, a) ==
  /\ charge[p] = "success"
  /\ reversed[p] = 0
  /\ reversed' = [reversed EXCEPT ![p] = a]
  /\ charge' = [charge EXCEPT ![p] = IF a = Price THEN "reversed" ELSE @]
  /\ \E reported \in {a, 0} : hooks' = hooks \cup {RefundHook(p, reported)}
  /\ UNCHANGED <<status, refunds, paymentRows, published, call, history>>

-----------------------------------------------------------------------------
(* confirm() and the charge.success webhook converge on the provider's     *)
(* answer, then on markCompleted or markFailed.                            *)

Confirm(c, p) ==
  /\ status[p] \notin {"none", "completed", "failed"}
  /\ Enter(c, "verify", p, 0, {})
  /\ UNCHANGED <<provider, hooks, status, refunds, paymentRows, published, history>>

\* findByReference(...).catch(() => null): a query that fails looks like an unknown
\* payment, and the message is answered with a 200 all the same.
LookupFails(h) ==
  /\ faults < MaxFaults
  /\ faults' = faults + 1
  /\ silenced' = IF h.kind = "charge" THEN silenced \cup {h.pay} ELSE silenced
  /\ Answer({h})
  /\ UNCHANGED <<severed, call>>

ChargeWebhook(c, p) ==
  LET h == ChargeHook(p) IN
  /\ h \in hooks
  /\ \/ /\ status[p] \notin {"none", "completed"}
        /\ Enter(c, "verify", p, 0, {h})
        /\ UNCHANGED <<hooks, history>>
     \/ /\ status[p] \in {"none", "completed"}
        /\ Answer({h})
        /\ UNCHANGED <<call, history>>
     \/ LookupFails(h)
  /\ UNCHANGED <<provider, status, refunds, paymentRows, published>>

VerifyResult(p) == CASE charge[p] = "success" -> "success"
                     [] charge[p] = "failed"  -> "failed"
                     [] OTHER                 -> "pending"

Verify(c) ==
  LET result == VerifyResult(call[c].pay) IN
  /\ At(c, "verify")
  /\ \/ result = "success" /\ Goto(c, "complete") /\ UNCHANGED hooks
     \/ result = "failed"  /\ Goto(c, "fail")     /\ UNCHANGED hooks
     \/ result = "pending" /\ Return(c)
  /\ UNCHANGED <<provider, status, refunds, paymentRows, published, history>>

\* Mutated: an UPDATE without its status guard.
MarkCompleted_Unguarded(c) ==
  /\ At(c, "complete")
  /\ status' = [status EXCEPT ![call[c].pay] = "completed"]
  /\ Goto(c, "ledger")
  /\ UNCHANGED <<provider, hooks, refunds, paymentRows, published, history>>

\* UPDATE ... WHERE status <> 'completed'
MarkCompleted(c) ==
  LET p == call[c].pay IN
  /\ At(c, "complete")
  /\ IF status[p] # "completed"
       THEN /\ status' = [status EXCEPT ![p] = "completed"]
            /\ Goto(c, "ledger")
            /\ UNCHANGED hooks
       ELSE Return(c) /\ UNCHANGED status
  /\ UNCHANGED <<provider, refunds, paymentRows, published, history>>

\* Mutated: a handler that forgets to publish.
RecordPayment_Silent(c) ==
  /\ At(c, "ledger")
  /\ paymentRows' = [paymentRows EXCEPT ![call[c].pay] = @ + 1]
  /\ Return(c)
  /\ UNCHANGED <<provider, status, refunds, published, history>>

RecordPayment(c) ==
  LET p == call[c].pay IN
  /\ At(c, "ledger")
  /\ paymentRows' = [paymentRows EXCEPT ![p] = @ + 1]
  /\ Goto(c, "publish")
  /\ UNCHANGED <<provider, hooks, status, refunds, published, history>>

PublishCompleted(c) ==
  LET p == call[c].pay IN
  /\ At(c, "publish")
  /\ published' = [published EXCEPT ![p] = @ + 1]
  /\ Return(c)
  /\ UNCHANGED <<provider, status, refunds, paymentRows, history>>

\* UPDATE ... WHERE status NOT IN ('completed', 'failed')
MarkFailed(c) ==
  LET p == call[c].pay IN
  /\ At(c, "fail")
  /\ status' = [status EXCEPT ![p] = IF @ \in {"completed", "failed"} THEN @ ELSE "failed"]
  /\ Return(c)
  /\ UNCHANGED <<provider, refunds, paymentRows, published, history>>

-----------------------------------------------------------------------------
(* refund(), issued by an administrator, and handleReversal(), the         *)
(* refund.processed webhook.  Both read the row, then the sum of completed *)
(* refunds, then insert a refunds row, then commit one transaction whose   *)
(* new status comes from the sum read earlier.                             *)

Refund(c, p, a) ==
  /\ c \in Refunders
  /\ status[p] \in Refundable
  /\ Enter(c, "sum_refund", p, a, {})
  /\ UNCHANGED <<provider, hooks, status, refunds, paymentRows, published, history>>

RefundWebhook(c, h) ==
  /\ c \in Refunders
  /\ h \in hooks /\ h.kind = "refund"
  /\ \/ /\ status[h.pay] \in Refundable
        /\ Enter(c, "sum_reversal", h.pay, h.amt, {h})
        /\ UNCHANGED <<hooks, history>>
     \/ /\ status[h.pay] \notin Refundable
        /\ Answer({h})
        /\ UNCHANGED <<call, history>>
     \/ LookupFails(h)
  /\ UNCHANGED <<provider, status, refunds, paymentRows, published>>

\* Mutated: the balance is not looked at.
SumForRefund_Unchecked(c) ==
  LET p == call[c].pay IN
  /\ At(c, "sum_refund")
  /\ GotoWith(c, "insert_refund", call[c].amt, refunded[p])
  /\ UNCHANGED <<provider, hooks, status, refunds, paymentRows, published, history>>

\* A refund beyond the remaining balance is rejected.
SumForRefund(c) ==
  LET p == call[c].pay IN
  /\ At(c, "sum_refund")
  /\ IF refunded[p] + call[c].amt <= Price
       THEN /\ GotoWith(c, "insert_refund", call[c].amt, refunded[p])
            /\ UNCHANGED hooks
       ELSE Return(c)
  /\ UNCHANGED <<provider, status, refunds, paymentRows, published, history>>

\* A reversal is cut down to the remaining balance, and ignored when there is none.
ReversalAmount(c) ==
  LET remaining == Price - refunded[call[c].pay]
  IN  IF call[c].amt = 0 \/ call[c].amt > remaining THEN remaining ELSE call[c].amt

SumForReversal(c) ==
  LET p == call[c].pay IN
  /\ At(c, "sum_reversal")
  /\ IF refunded[p] < Price
       THEN /\ GotoWith(c, "insert_reversal", ReversalAmount(c), refunded[p])
            /\ UNCHANGED hooks
       ELSE Return(c)
  /\ UNCHANGED <<provider, status, refunds, paymentRows, published, history>>

\* Mutated: the row is inserted as 'completed', as a reversal's is.
InsertRefund_Completed(c) ==
  LET p == call[c].pay IN
  /\ At(c, "insert_refund")
  /\ pendingRefunds' = [pendingRefunds EXCEPT ![p] = @ + 1]
  /\ refunded' = [refunded EXCEPT ![p] = @ + call[c].amt]
  /\ Goto(c, "commit_refund")
  /\ UNCHANGED <<provider, hooks, status, refundRows, refundLedger,
                 paymentRows, published, history>>

\* The administrator's refund starts as a 'pending' row ...
InsertRefund(c) ==
  LET p == call[c].pay IN
  /\ At(c, "insert_refund")
  /\ pendingRefunds' = [pendingRefunds EXCEPT ![p] = @ + 1]
  /\ Goto(c, "commit_refund")
  /\ UNCHANGED <<provider, hooks, status, refunded, refundRows, refundLedger,
                 paymentRows, published, history>>

\* ... a reversal is 'completed' at once, outside the transaction that follows.
InsertReversal(c) ==
  LET p == call[c].pay IN
  /\ At(c, "insert_reversal")
  /\ refunded' = [refunded EXCEPT ![p] = @ + call[c].amt]
  /\ Goto(c, "commit_reversal")
  /\ UNCHANGED <<provider, hooks, status, pendingRefunds, refundRows, refundLedger,
                 paymentRows, published, history>>

\* Mutated: any refund counts as a full one.
StatusAfter_AlwaysFull(c) == "refunded"

StatusAfter(c) ==
  IF call[c].already + call[c].amt >= Price THEN "refunded" ELSE "partially_refunded"

\* Common to both transactions: the payment's status and the refund's ledger row.
CommitLedger(c) ==
  LET p == call[c].pay IN
  /\ status' = [status EXCEPT ![p] = StatusAfter(c)]
  /\ refundRows' = [refundRows EXCEPT ![p] = @ + 1]
  /\ refundLedger' = [refundLedger EXCEPT ![p] = @ + call[c].amt]
  /\ Return(c)

CommitRefund(c) ==
  LET p == call[c].pay IN
  /\ At(c, "commit_refund")
  /\ CommitLedger(c)
  /\ pendingRefunds' = [pendingRefunds EXCEPT ![p] = @ - 1]
  /\ refunded' = [refunded EXCEPT ![p] = @ + call[c].amt]
  /\ UNCHANGED <<provider, paymentRows, published, history>>

CommitReversal(c) ==
  /\ At(c, "commit_reversal")
  /\ CommitLedger(c)
  /\ UNCHANGED <<provider, pendingRefunds, refunded, paymentRows, published, history>>

-----------------------------------------------------------------------------
(* Faults.  A handler that dies answers its webhook with an error, so the  *)
(* message stays; a publish that fails is logged and swallowed.            *)

HandlerDies(c) ==
  LET p == call[c].pay IN
  /\ faults < MaxFaults
  /\ ~At(c, "idle")
  /\ faults' = faults + 1
  /\ silenced' = IF call[c].pc \in {"ledger", "publish"} THEN silenced \cup {p} ELSE silenced
  /\ severed' = IF At(c, "commit_reversal") THEN severed \cup {p} ELSE severed
  /\ call' = [call EXCEPT ![c] = NoCall]
  /\ UNCHANGED <<provider, hooks, status, refunds, paymentRows, published>>

PublishLost(c) ==
  /\ faults < MaxFaults
  /\ At(c, "publish")
  /\ faults' = faults + 1
  /\ silenced' = silenced \cup {call[c].pay}
  /\ Return(c)
  /\ UNCHANGED <<provider, status, refunds, paymentRows, published, severed>>

\* The next step of a request that is already in flight.
Proceed(c) ==
  \/ InsertPending(c)
  \/ Verify(c) \/ MarkCompleted(c) \/ RecordPayment(c) \/ PublishCompleted(c) \/ MarkFailed(c)
  \/ SumForRefund(c) \/ SumForReversal(c) \/ InsertRefund(c) \/ InsertReversal(c)
  \/ CommitRefund(c) \/ CommitReversal(c)

Deliver(c) ==
  \/ \E p \in Payments : ChargeWebhook(c, p)
  \/ \E h \in hooks : RefundWebhook(c, h)

Next ==
  \/ \E p \in Payments :
       \/ ChargeSucceeds(p) \/ ChargeFails(p)
       \/ \E a \in Amounts : ChargeReversed(p, a)
  \/ \E c \in Calls :
       \/ Proceed(c) \/ Deliver(c)
       \/ HandlerDies(c) \/ PublishLost(c)
       \/ \E p \in Payments :
            \/ Initialize(c, p) \/ Confirm(c, p)
            \/ \E a \in Amounts : Refund(c, p, a)

Spec == Init /\ [][Next]_vars

\* An awaited query is answered and a webhook is redelivered until it is
\* answered with a 200.  Strong fairness of delivery stands for a server that
\* always has room for one more request: only the model's slots can be full.
FairSpec ==
  /\ Spec
  /\ \A c \in Calls : WF_vars(Proceed(c))
  /\ \A p \in Payments : SF_vars(\E c \in Calls : ChargeWebhook(c, p))

-----------------------------------------------------------------------------
(* Properties *)

\* Every row and every request in flight keeps its shape.
TypeOK ==
  /\ charge \in [Payments -> Charges]
  /\ reversed \in [Payments -> 0..Price]
  /\ hooks \subseteq Hook
  /\ status \in [Payments -> Statuses]
  /\ pendingRefunds \in [Payments -> Nat]
  /\ refunded \in [Payments -> Nat]
  /\ paymentRows \in [Payments -> Nat]
  /\ refundRows \in [Payments -> Nat]
  /\ refundLedger \in [Payments -> Nat]
  /\ published \in [Payments -> Nat]
  /\ call \in [Calls -> Call]
  /\ faults \in Nat
  /\ silenced \subseteq Payments
  /\ severed \subseteq Payments

\* What is settled, entered in the ledger or announced to the other services
\* was captured by the provider: nothing is sold on a client's or a webhook's
\* word, whatever races with whatever (handleWebhook re-verifies, confirm too).
PaidOnlyIfCharged ==
  \A p \in Payments :
    status[p] \in Settled \/ paymentRows[p] > 0 \/ published[p] > 0
      => charge[p] \in Captured

\* A payment completes once, and once more for each refund at most: two paths
\* that race to complete it write one ledger row and publish one event, and
\* the event never comes before its ledger row.
NoDoubleCompletion ==
  \A p \in Payments :
    /\ paymentRows[p] <= 1 + refundRows[p]
    /\ published[p] <= paymentRows[p]

\* The refunds table and the ledger tell the same sum, whatever overlaps and whichever
\* handler dies, but for a reversal that is between its INSERT and its transaction, or
\* died just there: only these two writes are not one.
RefundLedgerComplete ==
  \A p \in Payments :
    \/ refundLedger[p] = refunded[p]
    \/ p \in severed
    \/ \E c \in Calls : At(c, "commit_reversal") /\ call[c].pay = p

\* A payment is marked 'refunded' only when its completed refunds reach its
\* price, although every refund computes the status from a sum it read before.
FullRefundIsReal ==
  \A p \in Payments : status[p] = "refunded" => refunded[p] >= Price

\* Refunds that overlap may each fit the sum they read and exceed the price together,
\* but by no more than there are requests to do so: however often they race, a refund
\* that begins once the price is used up is turned down.
RefundsBounded == \A p \in Payments : refunded[p] <= Price * Cardinality(Refunders)

\* A completed payment is never declared failed or pending again by a request
\* that asked the provider earlier: only a refund moves it on.
CompletedOnlyRefunded ==
  [][\A p \in Payments :
       status[p] = "completed" => status'[p] \in Settled]_vars

\* A captured charge is announced to the other services in the end, unless the request
\* that completed it died before it published, the broker never got the event, or the
\* webhook's query failed: neither the provider nor a later request makes up for these.
ChargedEventuallyAnnounced ==
  \A p \in Payments :
    charge[p] = "success"
      ~> (published[p] > 0 \/ p \in silenced \/ charge[p] = "reversed")
=============================================================================
