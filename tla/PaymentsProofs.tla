--------------------------- MODULE PaymentsProofs ---------------------------
(***************************************************************************)
(* Proofs about Payments: type correctness and the safety invariants, for  *)
(* any number of payments and of concurrent requests and for any price.    *)
(***************************************************************************)
EXTENDS Payments, FiniteSetTheorems, TLAPS

\* The requests on payment p that stand before the given step, and their number.
OnStep(step, p) == {c \in Calls : call[c].pc = step /\ call[c].pay = p}
Count(step, p) == Cardinality(OnStep(step, p))

\* 1 if a request in state r is one of those.
One(r, step, p) == IF r.pc = step /\ r.pay = p THEN 1 ELSE 0

\* The steps that only a captured charge leads to.
CapturedSteps == {"complete", "ledger", "publish", "sum_refund", "sum_reversal",
  "insert_refund", "insert_reversal", "commit_refund", "commit_reversal"}

\* Every refund about to commit has its own 'pending' row.
PendingCovered == \A p \in Payments : Count("commit_refund", p) <= pendingRefunds[p]

\* A handler got past the provider's answer, or past a settled status, only for
\* a captured charge.
StepsCaptured ==
  \A c \in Calls : call[c].pc \in CapturedSteps => charge[call[c].pay] \in Captured

\* A sum read earlier can only be too small, and a reversal's own row is in it.
SumsRead ==
  \A c \in Calls :
    /\ call[c].pc \in {"insert_refund", "insert_reversal", "commit_refund"}
         => call[c].already <= refunded[call[c].pay]
    /\ call[c].pc = "commit_reversal"
         => call[c].already + call[c].amt <= refunded[call[c].pay]

\* The completions counted so far: entered in the ledger, on their way to it, and
\* the one that a payment not yet (or no longer) completed may still have.
CompletionsLeft(p) == IF status[p] = "completed" THEN 0 ELSE 1
CompletionsCounted ==
  \A p \in Payments :
    /\ paymentRows[p] + Count("ledger", p) + CompletionsLeft(p) <= 1 + refundRows[p]
    /\ published[p] + Count("publish", p) <= paymentRows[p]

\* A payment's row is inserted once, before any request can act on it.
InsertedOnce ==
  /\ \A p \in Payments : charge[p] = "none" => status[p] = "none"
  /\ \A c \in Calls : call[c].pc = "insert" =>
       /\ status[call[c].pay] = "none"
       /\ charge[call[c].pay] # "none"
       /\ \A d \in Calls : call[d].pc = "insert" /\ call[d].pay = call[c].pay => d = c
  /\ \A c \in Calls : call[c].pc \notin {"idle", "insert"} => status[call[c].pay] # "none"

\* The inductive invariant.
IInv ==
  /\ TypeOK
  /\ PendingCovered
  /\ InsertedOnce
  /\ StepsCaptured
  /\ PaidOnlyIfCharged
  /\ SumsRead
  /\ FullRefundIsReal
  /\ CompletionsCounted

-----------------------------------------------------------------------------
LEMMA NoCallType == NoCall \in Call /\ NoCall.pc = "idle" /\ NoCall.hook = {}
  BY PaymentsAssumption DEF NoCall, Call, Steps, Hook

\* How the counts change when one request moves on.
LEMMA CountMoves ==
  ASSUME call \in [Calls -> Call], NEW c \in Calls, NEW r \in Call,
         call' = [call EXCEPT ![c] = r], NEW step, NEW p
  PROVE  /\ Count(step, p) \in Nat
         /\ Count(step, p)' = Count(step, p) - One(call[c], step, p) + One(r, step, p)
  <1> DEFINE S == OnStep(step, p)
  <1>1. IsFiniteSet(S)
    BY PaymentsAssumption, FS_Subset DEF OnStep
  <1>2. S' = IF r.pc = step /\ r.pay = p THEN S \cup {c} ELSE S \ {c}
    BY DEF OnStep
  <1>3. c \in S <=> call[c].pc = step /\ call[c].pay = p
    BY DEF OnStep
  <1>4. Cardinality(S) \in Nat
    BY <1>1, FS_CardinalityType
  <1>5. Cardinality(S \cup {c}) = IF c \in S THEN Cardinality(S) ELSE Cardinality(S) + 1
    BY <1>1, FS_AddElement
  <1>6. Cardinality(S \ {c}) = IF c \in S THEN Cardinality(S) - 1 ELSE Cardinality(S)
    BY <1>1, FS_RemoveElement
  <1>7. Count(step, p) = Cardinality(S) /\ Count(step, p)' = Cardinality(S')
    BY DEF Count
  <1> HIDE DEF S
  <1>8. QED
    BY <1>2, <1>3, <1>4, <1>5, <1>6, <1>7 DEF One

\* A request that enters a handler, moves on inside it or returns.
LEMMA EnterMoves ==
  ASSUME TypeOK, NEW c \in Calls, NEW step \in Steps, NEW p \in Payments,
         NEW a \in 0..Price, NEW h \in SUBSET Hook, Enter(c, step, p, a, h)
  PROVE  \E r \in Call : /\ call' = [call EXCEPT ![c] = r]
                         /\ r.pc = step /\ r.pay = p /\ r.amt = a
                         /\ call[c].pc = "idle"
  <1> DEFINE r == [pc |-> step, pay |-> p, amt |-> a, already |-> 0, hook |-> h]
  <1>1. r \in Call
    BY DEF Call
  <1>2. call' = [call EXCEPT ![c] = r] /\ call[c].pc = "idle"
    BY DEF Enter, At
  <1>3. QED
    BY <1>1, <1>2

LEMMA GotoMoves ==
  ASSUME TypeOK, NEW c \in Calls, NEW step \in Steps, Goto(c, step)
  PROVE  \E r \in Call : /\ call' = [call EXCEPT ![c] = r]
                         /\ r.pc = step /\ r.pay = call[c].pay
                         /\ r.amt = call[c].amt /\ r.already = call[c].already
  <1> DEFINE r == [call[c] EXCEPT !.pc = step]
  <1>1. r \in Call /\ call' = [call EXCEPT ![c] = r]
    BY DEF Goto, Call, TypeOK
  <1>2. r.pc = step /\ r.pay = call[c].pay /\ r.amt = call[c].amt /\ r.already = call[c].already
    BY DEF Call, TypeOK
  <1>3. QED
    BY <1>1, <1>2

LEMMA ReturnMoves ==
  ASSUME TypeOK, NEW c \in Calls, Return(c)
  PROVE  /\ call' = [call EXCEPT ![c] = NoCall]
         /\ hooks' \subseteq hooks
  BY DEF Return, Answer


\* The counts the invariant speaks of, after a step of one request.
Tracked == {"commit_refund", "ledger", "publish"}

LEMMA TrackedCounts ==
  ASSUME TypeOK, NEW c \in Calls, NEW r \in Call, call' = [call EXCEPT ![c] = r]
  PROVE  \A step \in Tracked, p \in Payments :
           /\ Count(step, p) \in Nat
           /\ Count(step, p)' = Count(step, p) - One(call[c], step, p) + One(r, step, p)
  <1>1. call \in [Calls -> Call]
    BY DEF TypeOK
  <1>2. TAKE step \in Tracked, p \in Payments
  <1>3. QED
    BY <1>1, CountMoves

\* A step that leaves the tracked steps alone leaves their counts alone.
LEMMA QuietCounts ==
  ASSUME TypeOK, NEW c \in Calls, NEW r \in Call, call' = [call EXCEPT ![c] = r],
         call[c].pc \notin Tracked, r.pc \notin Tracked
  PROVE  \A step \in Tracked, p \in Payments :
           Count(step, p) \in Nat /\ Count(step, p)' = Count(step, p)
  <1>1. TAKE step \in Tracked, p \in Payments
  <1>2. One(call[c], step, p) = 0 /\ One(r, step, p) = 0
    BY DEF One
  <1>3. Count(step, p) \in Nat
         /\ Count(step, p)' = Count(step, p) - One(call[c], step, p) + One(r, step, p)
    BY TrackedCounts
  <1>4. QED
    BY <1>2, <1>3

LEMMA InitializeInv ==
  ASSUME IInv, NEW c \in Calls, NEW p \in Payments, Initialize(c, p)
  PROVE  IInv'
  <1>1. PICK r \in Call : /\ call' = [call EXCEPT ![c] = r]
                          /\ r.pc = "insert" /\ r.pay = p
                          /\ call[c].pc = "idle"
    <2>1. TypeOK /\ "insert" \in Steps /\ 0 \in 0..Price /\ {} \in SUBSET Hook
      BY PaymentsAssumption DEF IInv, Steps
    <2>2. Enter(c, "insert", p, 0, {})
      BY DEF Initialize
    <2>3. QED
      BY <2>1, <2>2, EnterMoves
  <1>2. TypeOK'
    BY <1>1 DEF IInv, TypeOK, Initialize, Charges, refunds, history
  <1>3. PendingCovered' /\ CompletionsCounted'
    <2>1. \A step \in Tracked, q \in Payments : Count(step, q)' = Count(step, q)
      BY <1>1, QuietCounts DEF IInv, Tracked
    <2>2. UNCHANGED <<status, pendingRefunds, refundRows, paymentRows, published>>
      BY DEF Initialize, refunds
    <2>3. QED
      BY <2>1, <2>2 DEF IInv, PendingCovered, CompletionsCounted, CompletionsLeft, Tracked
  <1>4. InsertedOnce'
    BY <1>1 DEF IInv, InsertedOnce, TypeOK, Initialize, refunds, history
  <1>5. StepsCaptured' /\ PaidOnlyIfCharged'
    BY <1>1 DEF IInv, StepsCaptured, CapturedSteps, PaidOnlyIfCharged, Captured, Settled, Refundable,
       InsertedOnce, TypeOK, Initialize, refunds, history
  <1>6. SumsRead' /\ FullRefundIsReal'
    BY <1>1 DEF IInv, SumsRead, FullRefundIsReal, TypeOK, Initialize, refunds, history
  <1>7. QED
    BY <1>2, <1>3, <1>4, <1>5, <1>6 DEF IInv


LEMMA InsertPendingInv ==
  ASSUME IInv, NEW c \in Calls, InsertPending(c)
  PROVE  IInv'
  <1> DEFINE p == call[c].pay
  <1>1. /\ call' = [call EXCEPT ![c] = NoCall] /\ hooks' \subseteq hooks
        /\ NoCall \in Call /\ NoCall.pc = "idle"
        /\ call[c].pc = "insert" /\ p \in Payments /\ TypeOK
    BY ReturnMoves, NoCallType DEF InsertPending, IInv, At, TypeOK, Call
  <1>2. TypeOK'
    BY <1>1 DEF TypeOK, InsertPending, Statuses, provider, refunds, history
  <1>3. PendingCovered' /\ CompletionsCounted'
    <2>1. \A step \in Tracked, q \in Payments : Count(step, q)' = Count(step, q)
      BY <1>1, QuietCounts DEF Tracked
    <2>2. UNCHANGED <<pendingRefunds, refundRows, paymentRows, published>>
      BY DEF InsertPending, refunds
    <2>3. \A q \in Payments : CompletionsLeft(q)' = CompletionsLeft(q)
      BY <1>1 DEF CompletionsLeft, InsertPending, IInv, InsertedOnce, TypeOK
    <2>4. QED
      BY <2>1, <2>2, <2>3 DEF IInv, PendingCovered, CompletionsCounted, Tracked
  <1>4. InsertedOnce'
    BY <1>1 DEF IInv, InsertedOnce, TypeOK, InsertPending, provider, refunds, history
  <1>5. StepsCaptured' /\ PaidOnlyIfCharged'
    BY <1>1 DEF IInv, StepsCaptured, CapturedSteps, PaidOnlyIfCharged, Captured, Settled, Refundable,
       TypeOK, InsertPending, provider, refunds, history
  <1>6. SumsRead' /\ FullRefundIsReal'
    BY <1>1 DEF IInv, SumsRead, FullRefundIsReal, TypeOK, InsertPending, provider, refunds, history
  <1>7. QED
    BY <1>2, <1>3, <1>4, <1>5, <1>6 DEF IInv

\* The provider's own steps only ever move a charge towards being captured.
LEMMA ProviderInv ==
  ASSUME IInv, NEW p \in Payments,
         ChargeSucceeds(p) \/ ChargeFails(p) \/ \E a \in Amounts : ChargeReversed(p, a)
  PROVE  IInv'
  <1>1. UNCHANGED <<status, refunds, paymentRows, published, call, history>>
    BY DEF ChargeSucceeds, ChargeFails, ChargeReversed
  <1>2. /\ charge' \in [Payments -> Charges]
        /\ \A q \in Payments : /\ charge[q] \in Captured => charge'[q] \in Captured
                               /\ charge'[q] = "none" <=> charge[q] = "none"
    BY DEF ChargeSucceeds, ChargeFails, ChargeReversed, IInv, TypeOK, Charges, Captured
  <1>3. reversed' \in [Payments -> 0..Price] /\ hooks' \subseteq Hook
    <2>1. ChargeHook(p) \in Hook /\ \A a \in 0..Price : RefundHook(p, a) \in Hook
      BY PaymentsAssumption DEF ChargeHook, RefundHook, Hook
    <2>2. Amounts \subseteq 0..Price /\ 0 \in 0..Price
      BY PaymentsAssumption DEF Amounts
    <2>3. QED
      BY <2>1, <2>2 DEF ChargeSucceeds, ChargeFails, ChargeReversed, IInv, TypeOK
  <1>4. TypeOK'
    BY <1>1, <1>2, <1>3 DEF IInv, TypeOK, refunds, history
  <1>5. PendingCovered' /\ CompletionsCounted' /\ SumsRead' /\ FullRefundIsReal'
    BY <1>1 DEF IInv, PendingCovered, CompletionsCounted, CompletionsLeft, Count, OnStep,
       SumsRead, FullRefundIsReal, refunds
  <1>6. InsertedOnce' /\ StepsCaptured' /\ PaidOnlyIfCharged'
    BY <1>1, <1>2 DEF IInv, InsertedOnce, StepsCaptured, PaidOnlyIfCharged, TypeOK, Call
  <1>7. QED
    BY <1>4, <1>5, <1>6 DEF IInv


\* Steps that write no row: a request goes from one step to another, and what it
\* carries along is true of the rows as they are.
LEMMA RequestOnlyInv ==
  ASSUME IInv, NEW c \in Calls, NEW r \in Call, call' = [call EXCEPT ![c] = r],
         hooks' \subseteq Hook,
         UNCHANGED <<provider, status, refunds, paymentRows, published, history>>,
         call[c].pc \notin Tracked, r.pc \notin Tracked \cup {"insert", "commit_reversal"},
         r.pc # "idle" => status[r.pay] # "none",
         r.pc \in CapturedSteps => charge[r.pay] \in Captured,
         r.pc \in {"insert_refund", "insert_reversal"} => r.already <= refunded[r.pay]
  PROVE  IInv'
  <1>1. TypeOK'
    BY DEF IInv, TypeOK, provider, refunds, history
  <1>2. PendingCovered' /\ CompletionsCounted'
    <2>1. \A step \in Tracked, q \in Payments : Count(step, q)' = Count(step, q)
      BY QuietCounts DEF IInv
    <2>2. UNCHANGED <<status, pendingRefunds, refundRows, paymentRows, published>>
      BY DEF refunds
    <2>3. QED
      BY <2>1, <2>2 DEF IInv, PendingCovered, CompletionsCounted, CompletionsLeft, Tracked
  <1>3. InsertedOnce'
    BY DEF IInv, InsertedOnce, TypeOK, provider
  <1>4. StepsCaptured' /\ PaidOnlyIfCharged'
    BY DEF IInv, StepsCaptured, PaidOnlyIfCharged, TypeOK, provider
  <1>5. SumsRead' /\ FullRefundIsReal'
    BY DEF IInv, SumsRead, FullRefundIsReal, TypeOK, refunds, Tracked
  <1>6. QED
    BY <1>1, <1>2, <1>3, <1>4, <1>5 DEF IInv

\* A step that changes nothing but the messages still to be delivered.
LEMMA HooksOnlyInv ==
  ASSUME IInv, hooks' \subseteq Hook, faults' \in Nat,
         silenced' \subseteq Payments, severed' \subseteq Payments,
         UNCHANGED <<provider, status, refunds, paymentRows, published, call>>
  PROVE  IInv'
  BY DEF IInv, TypeOK, PendingCovered, CompletionsCounted, CompletionsLeft, Count, OnStep,
     InsertedOnce, StepsCaptured, PaidOnlyIfCharged, SumsRead, FullRefundIsReal,
     provider, refunds

LEMMA LookupFailsInv ==
  ASSUME IInv, NEW h \in hooks, LookupFails(h),
         UNCHANGED <<provider, status, refunds, paymentRows, published>>
  PROVE  IInv'
  <1>1. hooks' \subseteq Hook /\ faults' \in Nat /\ h.pay \in Payments
    BY DEF IInv, TypeOK, LookupFails, Answer, Hook
  <1>2. silenced' \subseteq Payments /\ severed' \subseteq Payments /\ UNCHANGED call
    BY <1>1 DEF IInv, TypeOK, LookupFails
  <1>3. QED
    BY <1>1, <1>2, HooksOnlyInv

LEMMA SettledCaptured ==
  ASSUME IInv, NEW p \in Payments, status[p] \in Refundable
  PROVE  status[p] # "none" /\ charge[p] \in Captured
  BY DEF IInv, PaidOnlyIfCharged, Settled, Refundable

LEMMA ConfirmInv ==
  ASSUME IInv, NEW c \in Calls, NEW p \in Payments, Confirm(c, p)
  PROVE  IInv'
  <1>1. TypeOK /\ "verify" \in Steps /\ 0 \in 0..Price /\ {} \in SUBSET Hook
    BY PaymentsAssumption DEF IInv, Steps
  <1>2. Enter(c, "verify", p, 0, {})
    BY DEF Confirm
  <1>3. PICK r \in Call : /\ call' = [call EXCEPT ![c] = r]
                          /\ r.pc = "verify" /\ r.pay = p /\ call[c].pc = "idle"
    BY <1>1, <1>2, EnterMoves
  <1>4. status[p] # "none"
    BY DEF Confirm
  <1>5. QED
    BY <1>1, <1>3, <1>4, RequestOnlyInv DEF Confirm, CapturedSteps, Tracked, TypeOK

LEMMA ChargeWebhookInv ==
  ASSUME IInv, NEW c \in Calls, NEW p \in Payments, ChargeWebhook(c, p)
  PROVE  IInv'
  <1> DEFINE h == ChargeHook(p)
  <1>1. /\ TypeOK /\ "verify" \in Steps /\ 0 \in 0..Price
        /\ h \in hooks /\ {h} \in SUBSET Hook /\ hooks \subseteq Hook
    BY PaymentsAssumption DEF IInv, Steps, ChargeWebhook, TypeOK
  <1>2. UNCHANGED <<provider, status, refunds, paymentRows, published>>
    BY DEF ChargeWebhook
  <1>3. CASE status[p] \notin {"none", "completed"} /\ Enter(c, "verify", p, 0, {h})
             /\ UNCHANGED <<hooks, history>>
    <2>1. PICK r \in Call : /\ call' = [call EXCEPT ![c] = r]
                            /\ r.pc = "verify" /\ r.pay = p /\ call[c].pc = "idle"
      BY <1>1, <1>3, EnterMoves
    <2>2. QED
      BY <1>1, <1>2, <1>3, <2>1, RequestOnlyInv DEF CapturedSteps, Tracked
  <1>4. CASE Answer({h}) /\ UNCHANGED <<call, history>>
    <2>1. hooks' \subseteq Hook
      BY <1>1, <1>4 DEF Answer
    <2>2. QED
      BY <1>1, <1>2, <1>4, <2>1, HooksOnlyInv DEF history, TypeOK
  <1>5. CASE LookupFails(h)
    BY <1>1, <1>2, <1>5, LookupFailsInv
  <1>6. QED
    BY <1>3, <1>4, <1>5 DEF ChargeWebhook

LEMMA VerifyInv ==
  ASSUME IInv, NEW c \in Calls, Verify(c)
  PROVE  IInv'
  <1> DEFINE p == call[c].pay
  <1>1. /\ TypeOK /\ {"complete", "fail"} \subseteq Steps /\ hooks \subseteq Hook
        /\ call[c].pc = "verify" /\ p \in Payments /\ status[p] # "none"
    BY DEF IInv, Steps, TypeOK, Verify, At, Call, InsertedOnce
  <1>2. UNCHANGED <<provider, status, refunds, paymentRows, published, history>>
    BY DEF Verify
  <1>3. CASE VerifyResult(p) = "success" /\ Goto(c, "complete") /\ UNCHANGED hooks
    <2>1. PICK r \in Call : /\ call' = [call EXCEPT ![c] = r]
                            /\ r.pc = "complete" /\ r.pay = p
      BY <1>1, <1>3, GotoMoves
    <2>2. charge[p] \in Captured
      BY <1>3 DEF VerifyResult, Captured
    <2>3. QED
      BY <1>1, <1>2, <1>3, <2>1, <2>2, RequestOnlyInv DEF Tracked
  <1>4. CASE Goto(c, "fail") /\ UNCHANGED hooks
    <2>1. PICK r \in Call : /\ call' = [call EXCEPT ![c] = r]
                            /\ r.pc = "fail" /\ r.pay = p
      BY <1>1, <1>4, GotoMoves
    <2>2. QED
      BY <1>1, <1>2, <1>4, <2>1, RequestOnlyInv DEF CapturedSteps, Tracked
  <1>5. CASE Return(c)
    <2>1. /\ call' = [call EXCEPT ![c] = NoCall] /\ hooks' \subseteq Hook
          /\ NoCall \in Call /\ NoCall.pc = "idle"
      BY <1>1, <1>5, ReturnMoves, NoCallType
    <2>2. QED
      BY <1>1, <1>2, <2>1, RequestOnlyInv DEF CapturedSteps, Tracked
  <1>6. QED
    BY <1>3, <1>4, <1>5 DEF Verify


LEMMA MarkCompletedInv ==
  ASSUME IInv, NEW c \in Calls, MarkCompleted(c)
  PROVE  IInv'
  <1> DEFINE p == call[c].pay
  <1>1. /\ TypeOK /\ "ledger" \in Steps /\ hooks \subseteq Hook
        /\ call[c].pc = "complete" /\ p \in Payments
        /\ status[p] # "none" /\ charge[p] \in Captured
    BY DEF IInv, Steps, TypeOK, MarkCompleted, At, Call, InsertedOnce, StepsCaptured, CapturedSteps
  <1>2. UNCHANGED <<provider, refunds, paymentRows, published, history>>
    BY DEF MarkCompleted
  <1>3. CASE /\ status[p] # "completed" /\ status' = [status EXCEPT ![p] = "completed"]
             /\ Goto(c, "ledger") /\ UNCHANGED hooks
    <2>1. PICK r \in Call : /\ call' = [call EXCEPT ![c] = r]
                            /\ r.pc = "ledger" /\ r.pay = p
      BY <1>1, <1>3, GotoMoves
    <2>2. TypeOK'
      BY <1>1, <1>2, <1>3, <2>1 DEF TypeOK, Statuses, provider, refunds, history
    <2>3. PendingCovered' /\ CompletionsCounted'
      <3>1. \A q \in Payments :
              /\ Count("commit_refund", q)' = Count("commit_refund", q)
              /\ Count("publish", q)' = Count("publish", q)
              /\ Count("ledger", q) \in Nat
              /\ Count("ledger", q)' = Count("ledger", q) + IF q = p THEN 1 ELSE 0
        <4> TAKE q \in Payments
        <4>1. /\ One(r, "commit_refund", q) = 0 /\ One(r, "publish", q) = 0
              /\ One(r, "ledger", q) = IF q = p THEN 1 ELSE 0
              /\ \A step \in Tracked : One(call[c], step, q) = 0
          BY <1>1, <2>1 DEF One, Tracked
        <4>2. \A step \in Tracked :
                /\ Count(step, q) \in Nat
                /\ Count(step, q)' = Count(step, q) - One(call[c], step, q) + One(r, step, q)
          BY <1>1, <2>1, TrackedCounts
        <4>3. QED
          BY <4>1, <4>2 DEF Tracked
      <3>2. \A q \in Payments :
              CompletionsLeft(q)' = IF q = p THEN 0 ELSE CompletionsLeft(q)
        BY <1>1, <1>3 DEF CompletionsLeft, TypeOK
      <3>3. CompletionsLeft(p) = 1
        BY <1>3 DEF CompletionsLeft
      <3>4. UNCHANGED <<pendingRefunds, refundRows, paymentRows, published>>
        BY <1>2 DEF refunds
      <3>5. QED
        BY <1>1, <3>1, <3>2, <3>3, <3>4 DEF IInv, PendingCovered, CompletionsCounted, TypeOK
    <2>4. InsertedOnce'
      BY <1>1, <1>2, <1>3, <2>1 DEF IInv, InsertedOnce, TypeOK, provider
    <2>5. StepsCaptured' /\ PaidOnlyIfCharged'
      BY <1>1, <1>2, <1>3, <2>1 DEF IInv, StepsCaptured, PaidOnlyIfCharged, TypeOK, provider
    <2>6. SumsRead' /\ FullRefundIsReal'
      BY <1>1, <1>2, <1>3, <2>1 DEF IInv, SumsRead, FullRefundIsReal, TypeOK, refunds
    <2>7. QED
      BY <2>2, <2>3, <2>4, <2>5, <2>6 DEF IInv
  <1>4. CASE Return(c) /\ UNCHANGED status
    <2>1. /\ call' = [call EXCEPT ![c] = NoCall] /\ hooks' \subseteq Hook
          /\ NoCall \in Call /\ NoCall.pc = "idle"
      BY <1>1, <1>4, ReturnMoves, NoCallType
    <2>2. QED
      BY <1>1, <1>2, <1>4, <2>1, RequestOnlyInv DEF CapturedSteps, Tracked
  <1>5. QED
    BY <1>1, <1>3, <1>4 DEF MarkCompleted

LEMMA RecordPaymentInv ==
  ASSUME IInv, NEW c \in Calls, RecordPayment(c)
  PROVE  IInv'
  <1> DEFINE p == call[c].pay
  <1>1. /\ TypeOK /\ "publish" \in Steps /\ call[c].pc = "ledger" /\ p \in Payments
        /\ status[p] # "none" /\ charge[p] \in Captured
    BY DEF IInv, Steps, TypeOK, RecordPayment, At, Call, InsertedOnce, StepsCaptured, CapturedSteps
  <1>2. /\ UNCHANGED <<provider, hooks, status, refunds, published, history>>
        /\ paymentRows' = [paymentRows EXCEPT ![p] = @ + 1]
    BY DEF RecordPayment
  <1>3. PICK r \in Call : call' = [call EXCEPT ![c] = r] /\ r.pc = "publish" /\ r.pay = p
    BY <1>1, GotoMoves DEF RecordPayment
  <1>4. TypeOK'
    BY <1>1, <1>2, <1>3 DEF TypeOK, provider, refunds, history
  <1>5. PendingCovered' /\ CompletionsCounted'
    <2>1. \A q \in Payments :
            /\ Count("commit_refund", q)' = Count("commit_refund", q)
            /\ Count("publish", q) \in Nat /\ Count("ledger", q) \in Nat
            /\ Count("publish", q)' = Count("publish", q) + IF q = p THEN 1 ELSE 0
            /\ Count("ledger", q)' = Count("ledger", q) - IF q = p THEN 1 ELSE 0
      <3> TAKE q \in Payments
      <3>1. /\ One(call[c], "commit_refund", q) = 0 /\ One(r, "commit_refund", q) = 0
            /\ One(call[c], "publish", q) = 0 /\ One(r, "ledger", q) = 0
            /\ One(r, "publish", q) = IF q = p THEN 1 ELSE 0
            /\ One(call[c], "ledger", q) = IF q = p THEN 1 ELSE 0
        BY <1>1, <1>3 DEF One
      <3>2. \A step \in Tracked :
              /\ Count(step, q) \in Nat
              /\ Count(step, q)' = Count(step, q) - One(call[c], step, q) + One(r, step, q)
        BY <1>1, <1>3, TrackedCounts
      <3>3. QED
        BY <3>1, <3>2 DEF Tracked
    <2>2. \A q \in Payments : CompletionsLeft(q)' = CompletionsLeft(q) /\ CompletionsLeft(q) \in Nat
      BY <1>2 DEF CompletionsLeft
    <2>3. UNCHANGED <<pendingRefunds, refundRows, published>>
      BY <1>2 DEF refunds
    <2>4. QED
      BY <1>1, <1>2, <2>1, <2>2, <2>3 DEF IInv, PendingCovered, CompletionsCounted, TypeOK
  <1>6. InsertedOnce'
    BY <1>1, <1>2, <1>3 DEF IInv, InsertedOnce, TypeOK, provider
  <1>7. StepsCaptured' /\ PaidOnlyIfCharged'
    BY <1>1, <1>2, <1>3 DEF IInv, StepsCaptured, PaidOnlyIfCharged, TypeOK, provider
  <1>8. SumsRead' /\ FullRefundIsReal'
    BY <1>1, <1>2, <1>3 DEF IInv, SumsRead, FullRefundIsReal, TypeOK, refunds
  <1>9. QED
    BY <1>4, <1>5, <1>6, <1>7, <1>8 DEF IInv

LEMMA PublishCompletedInv ==
  ASSUME IInv, NEW c \in Calls, PublishCompleted(c)
  PROVE  IInv'
  <1> DEFINE p == call[c].pay
  <1>1. /\ TypeOK /\ call[c].pc = "publish" /\ p \in Payments /\ charge[p] \in Captured
    BY DEF IInv, TypeOK, PublishCompleted, At, Call, StepsCaptured, CapturedSteps
  <1>2. /\ UNCHANGED <<provider, status, refunds, paymentRows, history>>
        /\ published' = [published EXCEPT ![p] = @ + 1]
    BY DEF PublishCompleted
  <1>3. /\ call' = [call EXCEPT ![c] = NoCall] /\ hooks' \subseteq Hook
        /\ NoCall \in Call /\ NoCall.pc = "idle"
    BY <1>1, ReturnMoves, NoCallType DEF PublishCompleted, TypeOK
  <1>4. TypeOK'
    BY <1>1, <1>2, <1>3 DEF TypeOK, provider, refunds, history
  <1>5. PendingCovered' /\ CompletionsCounted'
    <2>1. \A q \in Payments :
            /\ Count("commit_refund", q)' = Count("commit_refund", q)
            /\ Count("ledger", q)' = Count("ledger", q)
            /\ Count("publish", q) \in Nat
            /\ Count("publish", q)' = Count("publish", q) - IF q = p THEN 1 ELSE 0
      <3> TAKE q \in Payments
      <3>1. /\ \A step \in Tracked : One(NoCall, step, q) = 0
            /\ One(call[c], "commit_refund", q) = 0 /\ One(call[c], "ledger", q) = 0
            /\ One(call[c], "publish", q) = IF q = p THEN 1 ELSE 0
        BY <1>1, <1>3 DEF One, Tracked
      <3>2. \A step \in Tracked :
              /\ Count(step, q) \in Nat
              /\ Count(step, q)' = Count(step, q) - One(call[c], step, q) + One(NoCall, step, q)
        BY <1>1, <1>3, TrackedCounts
      <3>3. QED
        BY <3>1, <3>2 DEF Tracked
    <2>2. UNCHANGED <<status, pendingRefunds, refundRows, paymentRows>>
      BY <1>2 DEF refunds
    <2>3. QED
      BY <1>1, <1>2, <2>1, <2>2
      DEF IInv, PendingCovered, CompletionsCounted, CompletionsLeft, TypeOK
  <1>6. InsertedOnce'
    BY <1>1, <1>2, <1>3 DEF IInv, InsertedOnce, TypeOK, provider
  <1>7. StepsCaptured' /\ PaidOnlyIfCharged'
    BY <1>1, <1>2, <1>3 DEF IInv, StepsCaptured, CapturedSteps, PaidOnlyIfCharged, TypeOK, provider
  <1>8. SumsRead' /\ FullRefundIsReal'
    BY <1>1, <1>2, <1>3 DEF IInv, SumsRead, FullRefundIsReal, TypeOK, refunds
  <1>9. QED
    BY <1>4, <1>5, <1>6, <1>7, <1>8 DEF IInv

LEMMA MarkFailedInv ==
  ASSUME IInv, NEW c \in Calls, MarkFailed(c)
  PROVE  IInv'
  <1> DEFINE p == call[c].pay
  <1>1. TypeOK /\ call[c].pc = "fail" /\ p \in Payments /\ status[p] # "none"
    BY DEF IInv, TypeOK, MarkFailed, At, Call, InsertedOnce
  <1>2. /\ UNCHANGED <<provider, refunds, paymentRows, published, history>>
        /\ status' = [status EXCEPT ![p] = IF @ \in {"completed", "failed"} THEN @ ELSE "failed"]
    BY DEF MarkFailed
  <1>3. /\ call' = [call EXCEPT ![c] = NoCall] /\ hooks' \subseteq Hook
        /\ NoCall \in Call /\ NoCall.pc = "idle"
    BY <1>1, ReturnMoves, NoCallType DEF MarkFailed, TypeOK
  <1>4. TypeOK'
    BY <1>1, <1>2, <1>3 DEF TypeOK, Statuses, provider, refunds, history
  <1>5. PendingCovered' /\ CompletionsCounted'
    <2>1. \A step \in Tracked, q \in Payments : Count(step, q)' = Count(step, q)
      BY <1>1, <1>3, QuietCounts DEF Tracked
    <2>2. \A q \in Payments : CompletionsLeft(q)' = CompletionsLeft(q)
      BY <1>1, <1>2 DEF CompletionsLeft, TypeOK
    <2>3. UNCHANGED <<pendingRefunds, refundRows, paymentRows, published>>
      BY <1>2 DEF refunds
    <2>4. QED
      BY <2>1, <2>2, <2>3 DEF IInv, PendingCovered, CompletionsCounted, Tracked
  <1>6. InsertedOnce'
    BY <1>1, <1>2, <1>3 DEF IInv, InsertedOnce, TypeOK, provider
  <1>7. StepsCaptured' /\ PaidOnlyIfCharged'
    BY <1>1, <1>2, <1>3 DEF IInv, StepsCaptured, CapturedSteps, PaidOnlyIfCharged, Settled,
       Refundable, TypeOK, provider
  <1>8. SumsRead' /\ FullRefundIsReal'
    BY <1>1, <1>2, <1>3 DEF IInv, SumsRead, FullRefundIsReal, TypeOK, refunds
  <1>9. QED
    BY <1>4, <1>5, <1>6, <1>7, <1>8 DEF IInv


LEMMA RefundInv ==
  ASSUME IInv, NEW c \in Calls, NEW p \in Payments, NEW a \in Amounts, Refund(c, p, a)
  PROVE  IInv'
  <1>1. /\ TypeOK /\ "sum_refund" \in Steps /\ a \in 0..Price /\ {} \in SUBSET Hook
        /\ hooks' \subseteq Hook
    BY PaymentsAssumption DEF IInv, Steps, Amounts, Refund, TypeOK
  <1>2. Enter(c, "sum_refund", p, a, {}) /\ status[p] \in Refundable
    BY DEF Refund
  <1>3. PICK r \in Call : /\ call' = [call EXCEPT ![c] = r]
                          /\ r.pc = "sum_refund" /\ r.pay = p /\ call[c].pc = "idle"
    BY <1>1, <1>2, EnterMoves
  <1>4. status[p] # "none" /\ charge[p] \in Captured
    BY <1>2, SettledCaptured
  <1>5. QED
    BY <1>1, <1>3, <1>4, RequestOnlyInv DEF Refund, Tracked

LEMMA RefundWebhookInv ==
  ASSUME IInv, NEW c \in Calls, NEW h \in hooks, RefundWebhook(c, h)
  PROVE  IInv'
  <1>1. /\ TypeOK /\ "sum_reversal" \in Steps /\ h \in Hook /\ hooks \subseteq Hook
        /\ h.pay \in Payments /\ h.amt \in 0..Price /\ {h} \in SUBSET Hook
    BY DEF IInv, Steps, TypeOK, Hook
  <1>2. UNCHANGED <<provider, status, refunds, paymentRows, published>>
    BY DEF RefundWebhook
  <1>3. CASE status[h.pay] \in Refundable /\ Enter(c, "sum_reversal", h.pay, h.amt, {h})
             /\ UNCHANGED <<hooks, history>>
    <2>1. PICK r \in Call : /\ call' = [call EXCEPT ![c] = r]
                            /\ r.pc = "sum_reversal" /\ r.pay = h.pay /\ call[c].pc = "idle"
      BY <1>1, <1>3, EnterMoves
    <2>2. status[h.pay] # "none" /\ charge[h.pay] \in Captured
      BY <1>1, <1>3, SettledCaptured
    <2>3. QED
      BY <1>1, <1>2, <1>3, <2>1, <2>2, RequestOnlyInv DEF Tracked
  <1>4. CASE Answer({h}) /\ UNCHANGED <<call, history>>
    <2>1. hooks' \subseteq Hook
      BY <1>1, <1>4 DEF Answer
    <2>2. QED
      BY <1>1, <1>2, <1>4, <2>1, HooksOnlyInv DEF history, TypeOK
  <1>5. CASE LookupFails(h)
    BY <1>2, <1>5, LookupFailsInv
  <1>6. QED
    BY <1>3, <1>4, <1>5 DEF RefundWebhook

LEMMA SumForRefundInv ==
  ASSUME IInv, NEW c \in Calls, SumForRefund(c)
  PROVE  IInv'
  <1> DEFINE p == call[c].pay
             r == [pc |-> "insert_refund", pay |-> call[c].pay, amt |-> call[c].amt,
                   already |-> refunded[p], hook |-> call[c].hook]
  <1>1. /\ TypeOK /\ hooks \subseteq Hook /\ call[c].pc = "sum_refund" /\ p \in Payments
        /\ status[p] # "none" /\ charge[p] \in Captured /\ refunded[p] \in Nat
    BY DEF IInv, TypeOK, SumForRefund, At, Call, InsertedOnce, StepsCaptured, CapturedSteps
  <1>2. UNCHANGED <<provider, status, refunds, paymentRows, published, history>>
    BY DEF SumForRefund
  <1>3. CASE GotoWith(c, "insert_refund", call[c].amt, refunded[p]) /\ UNCHANGED hooks
    <2>1. /\ r \in Call /\ r.pc = "insert_refund" /\ r.pay = p /\ r.already = refunded[p]
          /\ call' = [call EXCEPT ![c] = r]
      <3>1. call[c].amt \in 0..Price /\ call[c].hook \in SUBSET Hook
        BY <1>1 DEF TypeOK, Call
      <3>2. r \in Call
        BY <1>1, <3>1 DEF Call, Steps
      <3>3. QED
        BY <1>3, <3>2 DEF GotoWith
    <2>2. PICK s \in Call : /\ call' = [call EXCEPT ![c] = s] /\ s.pc = "insert_refund"
                            /\ s.pay = p /\ s.already = refunded[p]
      BY <2>1
    <2>3. /\ status[s.pay] # "none" /\ charge[s.pay] \in Captured
          /\ s.already <= refunded[s.pay] /\ hooks' \subseteq Hook
          /\ call[c].pc \notin Tracked /\ s.pc \notin Tracked \cup {"insert", "commit_reversal"}
      BY <1>1, <1>3, <2>2 DEF Tracked
    <2>4. QED
      BY <1>2, <2>2, <2>3, RequestOnlyInv
  <1>4. CASE Return(c)
    <2>1. /\ call' = [call EXCEPT ![c] = NoCall] /\ hooks' \subseteq Hook
          /\ NoCall \in Call /\ NoCall.pc = "idle"
      BY <1>1, <1>4, ReturnMoves, NoCallType
    <2>2. QED
      BY <1>1, <1>2, <2>1, RequestOnlyInv DEF CapturedSteps, Tracked
  <1>5. QED
    BY <1>3, <1>4 DEF SumForRefund

\* What a reversal is cut down to is still a positive part of the price.
LEMMA ReversalAmountType ==
  ASSUME TypeOK, NEW c \in Calls, refunded[call[c].pay] < Price
  PROVE  /\ ReversalAmount(c) \in 1..Price
         /\ ReversalAmount(c) + refunded[call[c].pay] <= Price
  <1>1. call[c].amt \in 0..Price /\ refunded[call[c].pay] \in Nat /\ Price \in Nat
    BY PaymentsAssumption DEF TypeOK, Call
  <1>2. QED
    BY <1>1 DEF ReversalAmount

LEMMA SumForReversalInv ==
  ASSUME IInv, NEW c \in Calls, SumForReversal(c)
  PROVE  IInv'
  <1> DEFINE p == call[c].pay
             r == [pc |-> "insert_reversal", pay |-> call[c].pay, amt |-> ReversalAmount(c),
                   already |-> refunded[p], hook |-> call[c].hook]
  <1>1. /\ TypeOK /\ hooks \subseteq Hook /\ call[c].pc = "sum_reversal" /\ p \in Payments
        /\ status[p] # "none" /\ charge[p] \in Captured /\ refunded[p] \in Nat
    BY DEF IInv, TypeOK, SumForReversal, At, Call, InsertedOnce, StepsCaptured, CapturedSteps
  <1>2. UNCHANGED <<provider, status, refunds, paymentRows, published, history>>
    BY DEF SumForReversal
  <1>3. CASE /\ refunded[p] < Price
             /\ GotoWith(c, "insert_reversal", ReversalAmount(c), refunded[p])
             /\ UNCHANGED hooks
    <2>1. ReversalAmount(c) \in 0..Price
      BY <1>1, <1>3, ReversalAmountType, PaymentsAssumption
    <2>2. /\ r \in Call /\ r.pc = "insert_reversal" /\ r.pay = p /\ r.already = refunded[p]
          /\ call' = [call EXCEPT ![c] = r]
      <3>1. call[c].hook \in SUBSET Hook
        BY <1>1 DEF TypeOK, Call
      <3>2. r \in Call
        BY <1>1, <2>1, <3>1 DEF Call, Steps
      <3>3. QED
        BY <1>3, <3>2 DEF GotoWith
    <2>3. PICK s \in Call : /\ call' = [call EXCEPT ![c] = s] /\ s.pc = "insert_reversal"
                            /\ s.pay = p /\ s.already = refunded[p]
      BY <2>2
    <2>4. /\ status[s.pay] # "none" /\ charge[s.pay] \in Captured
          /\ s.already <= refunded[s.pay] /\ hooks' \subseteq Hook
          /\ call[c].pc \notin Tracked /\ s.pc \notin Tracked \cup {"insert", "commit_reversal"}
      BY <1>1, <1>3, <2>3 DEF Tracked
    <2>5. QED
      BY <1>2, <2>3, <2>4, RequestOnlyInv
  <1>4. CASE Return(c)
    <2>1. /\ call' = [call EXCEPT ![c] = NoCall] /\ hooks' \subseteq Hook
          /\ NoCall \in Call /\ NoCall.pc = "idle"
      BY <1>1, <1>4, ReturnMoves, NoCallType
    <2>2. QED
      BY <1>1, <1>2, <2>1, RequestOnlyInv DEF CapturedSteps, Tracked
  <1>5. QED
    BY <1>3, <1>4 DEF SumForReversal


LEMMA InsertRefundInv ==
  ASSUME IInv, NEW c \in Calls, InsertRefund(c)
  PROVE  IInv'
  <1> DEFINE p == call[c].pay
  <1>1. /\ TypeOK /\ "commit_refund" \in Steps /\ call[c].pc = "insert_refund" /\ p \in Payments
        /\ status[p] # "none" /\ charge[p] \in Captured /\ call[c].already <= refunded[p]
    BY DEF IInv, Steps, TypeOK, InsertRefund, At, Call, InsertedOnce, StepsCaptured, CapturedSteps,
       SumsRead
  <1>2. /\ UNCHANGED <<provider, hooks, status, refunded, refundRows, refundLedger,
                       paymentRows, published, history>>
        /\ pendingRefunds' = [pendingRefunds EXCEPT ![p] = @ + 1]
    BY DEF InsertRefund
  <1>3. PICK r \in Call : /\ call' = [call EXCEPT ![c] = r] /\ r.pc = "commit_refund"
                          /\ r.pay = p /\ r.already = call[c].already
    BY <1>1, GotoMoves DEF InsertRefund
  <1>4. TypeOK'
    BY <1>1, <1>2, <1>3 DEF TypeOK, provider, history
  <1>5. PendingCovered' /\ CompletionsCounted'
    <2>1. \A q \in Payments :
            /\ Count("ledger", q)' = Count("ledger", q)
            /\ Count("publish", q)' = Count("publish", q)
            /\ Count("commit_refund", q) \in Nat
            /\ Count("commit_refund", q)' = Count("commit_refund", q) + IF q = p THEN 1 ELSE 0
      <3> TAKE q \in Payments
      <3>1. /\ \A step \in Tracked : One(call[c], step, q) = 0
            /\ One(r, "ledger", q) = 0 /\ One(r, "publish", q) = 0
            /\ One(r, "commit_refund", q) = IF q = p THEN 1 ELSE 0
        BY <1>1, <1>3 DEF One, Tracked
      <3>2. \A step \in Tracked :
              /\ Count(step, q) \in Nat
              /\ Count(step, q)' = Count(step, q) - One(call[c], step, q) + One(r, step, q)
        BY <1>1, <1>3, TrackedCounts
      <3>3. QED
        BY <3>1, <3>2 DEF Tracked
    <2>2. QED
      BY <1>1, <1>2, <2>1
      DEF IInv, PendingCovered, CompletionsCounted, CompletionsLeft, TypeOK
  <1>6. InsertedOnce'
    BY <1>1, <1>2, <1>3 DEF IInv, InsertedOnce, TypeOK, provider
  <1>7. StepsCaptured' /\ PaidOnlyIfCharged'
    BY <1>1, <1>2, <1>3 DEF IInv, StepsCaptured, PaidOnlyIfCharged, TypeOK, provider
  <1>8. SumsRead' /\ FullRefundIsReal'
    BY <1>1, <1>2, <1>3 DEF IInv, SumsRead, FullRefundIsReal, TypeOK
  <1>9. QED
    BY <1>4, <1>5, <1>6, <1>7, <1>8 DEF IInv

LEMMA InsertReversalInv ==
  ASSUME IInv, NEW c \in Calls, InsertReversal(c)
  PROVE  IInv'
  <1> DEFINE p == call[c].pay
  <1>1. /\ TypeOK /\ "commit_reversal" \in Steps /\ call[c].pc = "insert_reversal"
        /\ p \in Payments /\ call[c].amt \in Nat /\ call[c].already \in Nat
        /\ status[p] # "none" /\ charge[p] \in Captured /\ call[c].already <= refunded[p]
    BY PaymentsAssumption DEF IInv, Steps, TypeOK, InsertReversal, At, Call, InsertedOnce,
       StepsCaptured, CapturedSteps, SumsRead
  <1>2. /\ UNCHANGED <<provider, hooks, status, pendingRefunds, refundRows, refundLedger,
                       paymentRows, published, history>>
        /\ refunded' = [refunded EXCEPT ![p] = @ + call[c].amt]
    BY DEF InsertReversal
  <1>3. PICK r \in Call : /\ call' = [call EXCEPT ![c] = r] /\ r.pc = "commit_reversal"
                          /\ r.pay = p /\ r.already = call[c].already /\ r.amt = call[c].amt
    BY <1>1, GotoMoves DEF InsertReversal
  <1>4. TypeOK'
    BY <1>1, <1>2, <1>3 DEF TypeOK, provider, history
  <1>5. PendingCovered' /\ CompletionsCounted'
    <2>1. \A step \in Tracked, q \in Payments : Count(step, q)' = Count(step, q)
      BY <1>1, <1>3, QuietCounts DEF Tracked
    <2>2. QED
      BY <1>2, <2>1 DEF IInv, PendingCovered, CompletionsCounted, CompletionsLeft, Tracked
  <1>6. InsertedOnce'
    BY <1>1, <1>2, <1>3 DEF IInv, InsertedOnce, TypeOK, provider
  <1>7. StepsCaptured' /\ PaidOnlyIfCharged'
    BY <1>1, <1>2, <1>3 DEF IInv, StepsCaptured, PaidOnlyIfCharged, TypeOK, provider
  <1>8. /\ refunded' \in [Payments -> Nat]
        /\ \A q \in Payments : refunded[q] <= refunded'[q]
        /\ refunded'[p] = refunded[p] + call[c].amt
    BY <1>1, <1>2 DEF TypeOK
  <1>9. SumsRead'
    <2> SUFFICES ASSUME NEW d \in Calls
                 PROVE  /\ call'[d].pc \in {"insert_refund", "insert_reversal", "commit_refund"}
                             => call'[d].already <= refunded'[call'[d].pay]
                        /\ call'[d].pc = "commit_reversal"
                             => call'[d].already + call'[d].amt <= refunded'[call'[d].pay]
      BY DEF SumsRead
    <2>1. CASE d = c
      BY <1>1, <1>3, <1>8, <2>1 DEF TypeOK
    <2>2. CASE d # c
      <3>1. call'[d] = call[d] /\ call[d] \in Call
        BY <1>1, <1>3, <2>2 DEF TypeOK
      <3>2. call[d].already \in Nat /\ call[d].amt \in Nat /\ call[d].pay \in Payments
        BY <3>1, PaymentsAssumption DEF Call
      <3>3. refunded[call[d].pay] \in Nat /\ refunded'[call[d].pay] \in Nat
            /\ refunded[call[d].pay] <= refunded'[call[d].pay]
        BY <1>1, <1>8, <3>2 DEF TypeOK
      <3>4. QED
        BY <3>1, <3>2, <3>3 DEF IInv, SumsRead
    <2>3. QED
      BY <2>1, <2>2
  <1>10. FullRefundIsReal'
    BY <1>1, <1>2, <1>8, PaymentsAssumption DEF IInv, FullRefundIsReal, TypeOK
  <1>11. QED
    BY <1>4, <1>5, <1>6, <1>7, <1>9, <1>10 DEF IInv


\* A request that returns cannot disturb InsertedOnce, as long as no row appears
\* or disappears under it.
LEMMA InsertedOnceKept ==
  ASSUME TypeOK, InsertedOnce, NEW c \in Calls, call' = [call EXCEPT ![c] = NoCall],
         UNCHANGED charge, \A q \in Payments : status'[q] = "none" <=> status[q] = "none"
  PROVE  InsertedOnce'
  <1>1. NoCall.pc = "idle" /\ call'[c] = NoCall /\ \A d \in Calls \ {c} : call'[d] = call[d]
    BY NoCallType DEF TypeOK
  <1>2. \A d \in Calls : call[d].pay \in Payments
    BY DEF TypeOK, Call
  <1>3. \A p \in Payments : charge'[p] = "none" => status'[p] = "none"
    BY DEF InsertedOnce
  <1>4. \A d \in Calls : call'[d].pc = "insert" =>
          /\ d # c /\ call'[d] = call[d]
          /\ status'[call'[d].pay] = "none" /\ charge'[call'[d].pay] # "none"
    BY <1>1, <1>2 DEF InsertedOnce
  <1>5. \A d, e \in Calls : call'[d].pc = "insert" /\ call'[e].pc = "insert"
                              /\ call'[e].pay = call'[d].pay => e = d
    BY <1>4 DEF InsertedOnce
  <1>6. \A d \in Calls : call'[d].pc \notin {"idle", "insert"} => status'[call'[d].pay] # "none"
    BY <1>1, <1>2 DEF InsertedOnce
  <1>7. QED
    BY <1>3, <1>4, <1>5, <1>6 DEF InsertedOnce

\* What both refund transactions share.
LEMMA CommitFacts ==
  ASSUME IInv, NEW c \in Calls, CommitLedger(c),
         call[c].pc \in {"commit_refund", "commit_reversal"}
  PROVE  LET p == call[c].pay IN
         /\ p \in Payments /\ charge[p] \in Captured /\ status[p] # "none"
         /\ call[c].amt \in Nat /\ call[c].already \in Nat
         /\ call' = [call EXCEPT ![c] = NoCall] /\ hooks' \subseteq Hook
         /\ NoCall \in Call /\ NoCall.pc = "idle"
         /\ status' \in [Payments -> Statuses]
         /\ status'[p] \in {"refunded", "partially_refunded"}
         /\ status'[p] = "refunded" => call[c].already + call[c].amt >= Price
         /\ \A q \in Payments \ {p} : status'[q] = status[q]
         /\ refundRows' = [refundRows EXCEPT ![p] = @ + 1]
         /\ refundLedger' = [refundLedger EXCEPT ![p] = @ + call[c].amt]
  <1> DEFINE p == call[c].pay
  <1>1. /\ p \in Payments /\ charge[p] \in Captured /\ status[p] # "none"
        /\ call[c].amt \in Nat /\ call[c].already \in Nat /\ TypeOK
    BY PaymentsAssumption DEF IInv, TypeOK, Call, StepsCaptured, CapturedSteps, InsertedOnce
  <1>2. /\ call' = [call EXCEPT ![c] = NoCall] /\ hooks' \subseteq Hook
        /\ NoCall \in Call /\ NoCall.pc = "idle"
    BY <1>1, ReturnMoves, NoCallType DEF CommitLedger, TypeOK
  <1>3. /\ status' = [status EXCEPT ![p] = StatusAfter(c)]
        /\ refundRows' = [refundRows EXCEPT ![p] = @ + 1]
        /\ refundLedger' = [refundLedger EXCEPT ![p] = @ + call[c].amt]
    BY DEF CommitLedger
  <1>4. StatusAfter(c) \in {"refunded", "partially_refunded"}
    BY DEF StatusAfter
  <1>5. StatusAfter(c) = "refunded" => call[c].already + call[c].amt >= Price
    BY DEF StatusAfter
  <1>6. /\ status' \in [Payments -> Statuses] /\ status'[p] = StatusAfter(c)
        /\ \A q \in Payments \ {p} : status'[q] = status[q]
    BY <1>1, <1>3, <1>4 DEF TypeOK, Statuses
  <1>7. QED
    BY <1>1, <1>2, <1>3, <1>4, <1>5, <1>6

\* A completion less the payment may still have, a refund row more.
LEMMA CommitCounts ==
  ASSUME IInv, NEW c \in Calls, CommitLedger(c),
         call[c].pc \in {"commit_refund", "commit_reversal"},
         UNCHANGED <<paymentRows, published>>
  PROVE  CompletionsCounted'
  <1> DEFINE p == call[c].pay
  <1>1. /\ call' = [call EXCEPT ![c] = NoCall] /\ NoCall \in Call /\ NoCall.pc = "idle"
        /\ refundRows' = [refundRows EXCEPT ![p] = @ + 1] /\ TypeOK /\ p \in Payments
        /\ \A q \in Payments \ {p} : status'[q] = status[q]
    BY CommitFacts DEF IInv
  <1>2. \A q \in Payments : /\ Count("ledger", q)' = Count("ledger", q)
                            /\ Count("publish", q)' = Count("publish", q)
                            /\ Count("ledger", q) \in Nat
    <2> TAKE q \in Payments
    <2>1. /\ One(call[c], "ledger", q) = 0 /\ One(call[c], "publish", q) = 0
          /\ \A step \in Tracked : One(NoCall, step, q) = 0
      BY <1>1 DEF One, Tracked
    <2>2. \A step \in Tracked :
            /\ Count(step, q) \in Nat
            /\ Count(step, q)' = Count(step, q) - One(call[c], step, q) + One(NoCall, step, q)
      BY <1>1, TrackedCounts
    <2>3. QED
      BY <2>1, <2>2 DEF Tracked
  <1>3. \A q \in Payments : /\ CompletionsLeft(q) \in Nat /\ CompletionsLeft(q)' \in Nat
                            /\ CompletionsLeft(q)' <= 1
                            /\ q # p => CompletionsLeft(q)' = CompletionsLeft(q)
    BY <1>1 DEF CompletionsLeft
  <1>4. \A q \in Payments : refundRows'[q] = refundRows[q] + IF q = p THEN 1 ELSE 0
    BY <1>1 DEF TypeOK
  <1>5. QED
    BY <1>1, <1>2, <1>3, <1>4 DEF IInv, CompletionsCounted, TypeOK

LEMMA CommitRefundInv ==
  ASSUME IInv, NEW c \in Calls, CommitRefund(c)
  PROVE  IInv'
  <1> DEFINE p == call[c].pay
  <1>1. /\ TypeOK /\ call[c].pc = "commit_refund" /\ CommitLedger(c)
        /\ call[c].already <= refunded[p]
    BY DEF IInv, CommitRefund, At, SumsRead
  <1>2. /\ p \in Payments /\ charge[p] \in Captured /\ status[p] # "none"
        /\ call[c].amt \in Nat /\ call[c].already \in Nat
        /\ call' = [call EXCEPT ![c] = NoCall] /\ hooks' \subseteq Hook
        /\ NoCall \in Call /\ NoCall.pc = "idle"
        /\ status' \in [Payments -> Statuses]
        /\ status'[p] \in {"refunded", "partially_refunded"}
        /\ status'[p] = "refunded" => call[c].already + call[c].amt >= Price
        /\ \A q \in Payments \ {p} : status'[q] = status[q]
        /\ refundRows' = [refundRows EXCEPT ![p] = @ + 1]
        /\ refundLedger' = [refundLedger EXCEPT ![p] = @ + call[c].amt]
    BY <1>1, CommitFacts
  <1>3. /\ pendingRefunds' = [pendingRefunds EXCEPT ![p] = @ - 1]
        /\ refunded' = [refunded EXCEPT ![p] = @ + call[c].amt]
        /\ UNCHANGED <<provider, paymentRows, published, history>>
    BY DEF CommitRefund
  <1>4. \A q \in Payments :
          /\ Count("commit_refund", q) \in Nat /\ Count("commit_refund", q)' \in Nat
          /\ Count("commit_refund", q)' = Count("commit_refund", q) - IF q = p THEN 1 ELSE 0
    <2> TAKE q \in Payments
    <2>1. /\ One(call[c], "commit_refund", q) = IF q = p THEN 1 ELSE 0
          /\ One(NoCall, "commit_refund", q) = 0
      BY <1>1, <1>2 DEF One
    <2>2. /\ Count("commit_refund", q) \in Nat
          /\ Count("commit_refund", q)' = Count("commit_refund", q)
               - One(call[c], "commit_refund", q) + One(NoCall, "commit_refund", q)
      BY <1>1, <1>2, TrackedCounts DEF Tracked
    <2>3. Count("commit_refund", q)' \in Nat
      <3>1. IsFiniteSet(OnStep("commit_refund", q)')
        BY PaymentsAssumption, FS_Subset DEF OnStep
      <3>2. QED
        BY <3>1, FS_CardinalityType DEF Count
    <2>4. QED
      BY <2>1, <2>2, <2>3
  <1>5. pendingRefunds' \in [Payments -> Nat] /\ PendingCovered'
    <2>1. \A q \in Payments : pendingRefunds'[q] = pendingRefunds[q] - IF q = p THEN 1 ELSE 0
      BY <1>2, <1>3 DEF TypeOK, IInv
    <2>2. \A q \in Payments : Count("commit_refund", q)' <= pendingRefunds'[q]
      BY <1>1, <1>4, <2>1 DEF IInv, PendingCovered, TypeOK
    <2>3. \A q \in Payments : pendingRefunds'[q] \in Nat
      BY <1>1, <1>4, <2>1, <2>2 DEF TypeOK
    <2>4. QED
      BY <1>1, <1>3, <2>2, <2>3 DEF PendingCovered, TypeOK
  <1>6. TypeOK'
    BY <1>1, <1>2, <1>3, <1>5 DEF TypeOK, provider, history
  <1>7. CompletionsCounted'
    BY <1>1, <1>3, CommitCounts
  <1>8. InsertedOnce'
    BY <1>1, <1>2, <1>3, InsertedOnceKept DEF IInv, provider
  <1>9. StepsCaptured' /\ PaidOnlyIfCharged'
    BY <1>1, <1>2, <1>3 DEF IInv, StepsCaptured, CapturedSteps, PaidOnlyIfCharged, TypeOK, provider
  <1>10. \A q \in Payments : /\ refunded[q] \in Nat /\ refunded'[q] \in Nat
                             /\ refunded[q] <= refunded'[q]
    BY <1>1, <1>2, <1>3 DEF TypeOK
  <1>11. SumsRead'
    <2> SUFFICES ASSUME NEW d \in Calls
                 PROVE  /\ call'[d].pc \in {"insert_refund", "insert_reversal", "commit_refund"}
                             => call'[d].already <= refunded'[call'[d].pay]
                        /\ call'[d].pc = "commit_reversal"
                             => call'[d].already + call'[d].amt <= refunded'[call'[d].pay]
      BY DEF SumsRead
    <2>1. CASE d = c
      BY <1>1, <1>2, <2>1 DEF TypeOK
    <2>2. CASE d # c
      <3>1. call'[d] = call[d] /\ call[d] \in Call
        BY <1>1, <1>2, <2>2 DEF TypeOK
      <3>2. call[d].already \in Nat /\ call[d].amt \in Nat /\ call[d].pay \in Payments
        BY <3>1, PaymentsAssumption DEF Call
      <3>3. QED
        BY <1>10, <3>1, <3>2 DEF IInv, SumsRead
    <2>3. QED
      BY <2>1, <2>2
  <1>12. FullRefundIsReal'
    BY <1>1, <1>2, <1>3, <1>10, PaymentsAssumption DEF IInv, FullRefundIsReal, TypeOK
  <1>13. QED
    BY <1>5, <1>6, <1>7, <1>8, <1>9, <1>11, <1>12 DEF IInv

LEMMA CommitReversalInv ==
  ASSUME IInv, NEW c \in Calls, CommitReversal(c)
  PROVE  IInv'
  <1> DEFINE p == call[c].pay
  <1>1. /\ TypeOK /\ call[c].pc = "commit_reversal" /\ CommitLedger(c)
        /\ call[c].already + call[c].amt <= refunded[p]
    BY DEF IInv, CommitReversal, At, SumsRead
  <1>2. /\ p \in Payments /\ charge[p] \in Captured /\ status[p] # "none"
        /\ call[c].amt \in Nat /\ call[c].already \in Nat
        /\ call' = [call EXCEPT ![c] = NoCall] /\ hooks' \subseteq Hook
        /\ NoCall \in Call /\ NoCall.pc = "idle"
        /\ status' \in [Payments -> Statuses]
        /\ status'[p] \in {"refunded", "partially_refunded"}
        /\ status'[p] = "refunded" => call[c].already + call[c].amt >= Price
        /\ \A q \in Payments \ {p} : status'[q] = status[q]
        /\ refundRows' = [refundRows EXCEPT ![p] = @ + 1]
        /\ refundLedger' = [refundLedger EXCEPT ![p] = @ + call[c].amt]
    BY <1>1, CommitFacts
  <1>3. UNCHANGED <<provider, pendingRefunds, refunded, paymentRows, published, history>>
    BY DEF CommitReversal
  <1>4. PendingCovered'
    <2>1. \A q \in Payments : Count("commit_refund", q)' = Count("commit_refund", q)
      BY <1>1, <1>2, QuietCounts DEF Tracked
    <2>2. QED
      BY <1>3, <2>1 DEF IInv, PendingCovered
  <1>5. TypeOK'
    BY <1>1, <1>2, <1>3 DEF TypeOK, provider, history
  <1>6. CompletionsCounted'
    BY <1>1, <1>3, CommitCounts
  <1>7. InsertedOnce'
    BY <1>1, <1>2, <1>3, InsertedOnceKept DEF IInv, provider
  <1>8. StepsCaptured' /\ PaidOnlyIfCharged'
    BY <1>1, <1>2, <1>3 DEF IInv, StepsCaptured, CapturedSteps, PaidOnlyIfCharged, TypeOK, provider
  <1>9. SumsRead'
    BY <1>1, <1>2, <1>3 DEF IInv, SumsRead, TypeOK
  <1>10. FullRefundIsReal'
    BY <1>1, <1>2, <1>3, PaymentsAssumption DEF IInv, FullRefundIsReal, TypeOK
  <1>11. QED
    BY <1>4, <1>5, <1>6, <1>7, <1>8, <1>9, <1>10 DEF IInv

\* A handler that dies takes its own steps with it: counts only go down.
LEMMA DropInv ==
  ASSUME IInv, NEW c \in Calls, call' = [call EXCEPT ![c] = NoCall], hooks' \subseteq Hook,
         UNCHANGED <<provider, status, refunds, paymentRows, published>>,
         faults' = faults + 1, silenced' \subseteq silenced \cup {call[c].pay},
         severed' \subseteq severed \cup {call[c].pay}
  PROVE  IInv'
  <1>1. TypeOK /\ NoCall \in Call /\ NoCall.pc = "idle" /\ call[c].pay \in Payments
    BY NoCallType DEF IInv, TypeOK, Call
  <1>2. TypeOK'
    BY <1>1 DEF TypeOK, provider, refunds
  <1>3. \A step \in Tracked, q \in Payments :
          Count(step, q) \in Nat /\ Count(step, q)' \in Int /\ Count(step, q)' <= Count(step, q)
    <2>1. TAKE step \in Tracked, q \in Payments
    <2>2. One(call[c], step, q) \in {0, 1} /\ One(NoCall, step, q) = 0
      BY <1>1 DEF One, Tracked
    <2>3. Count(step, q) \in Nat
           /\ Count(step, q)' = Count(step, q) - One(call[c], step, q) + One(NoCall, step, q)
      BY <1>1, TrackedCounts
    <2>4. QED
      BY <2>2, <2>3
  <1>4. PendingCovered' /\ CompletionsCounted'
    <2>1. \A q \in Payments :
          /\ Count("commit_refund", q) \in Nat /\ Count("commit_refund", q)' \in Int
          /\ Count("commit_refund", q)' <= Count("commit_refund", q)
          /\ Count("ledger", q) \in Nat /\ Count("ledger", q)' \in Int
          /\ Count("ledger", q)' <= Count("ledger", q)
          /\ Count("publish", q) \in Nat /\ Count("publish", q)' \in Int
          /\ Count("publish", q)' <= Count("publish", q)
      BY <1>3 DEF Tracked
    <2>2. PendingCovered'
      BY <1>1, <2>1 DEF IInv, PendingCovered, refunds, TypeOK
    <2>3. CompletionsCounted'
      <3>1. \A q \in Payments : CompletionsLeft(q)' = CompletionsLeft(q) /\ CompletionsLeft(q) \in Nat
        BY DEF CompletionsLeft
      <3>2. QED
        BY <1>1, <2>1, <3>1 DEF IInv, CompletionsCounted, refunds, TypeOK
    <2>4. QED
      BY <2>2, <2>3
  <1>5. InsertedOnce'
    BY <1>1, InsertedOnceKept DEF IInv, provider
  <1>6. StepsCaptured' /\ PaidOnlyIfCharged'
    BY <1>1 DEF IInv, StepsCaptured, CapturedSteps, PaidOnlyIfCharged, TypeOK, provider
  <1>7. SumsRead' /\ FullRefundIsReal'
    BY <1>1 DEF IInv, SumsRead, FullRefundIsReal, TypeOK, refunds
  <1>8. QED
    BY <1>2, <1>4, <1>5, <1>6, <1>7 DEF IInv

LEMMA FaultsInv ==
  ASSUME IInv, NEW c \in Calls, HandlerDies(c) \/ PublishLost(c)
  PROVE  IInv'
  <1>1. TypeOK
    BY DEF IInv
  <1>2. CASE HandlerDies(c)
    BY <1>1, <1>2, DropInv DEF HandlerDies, TypeOK
  <1>3. CASE PublishLost(c)
    <2>1. call' = [call EXCEPT ![c] = NoCall] /\ hooks' \subseteq Hook
      BY <1>1, <1>3, ReturnMoves DEF PublishLost, TypeOK
    <2>2. QED
      BY <1>3, <2>1, DropInv DEF PublishLost
  <1>4. QED
    BY <1>2, <1>3

-----------------------------------------------------------------------------
LEMMA InitInv == Init => IInv
  <1> SUFFICES ASSUME Init PROVE IInv
    OBVIOUS
  <1>1. TypeOK
    BY NoCallType, PaymentsAssumption DEF Init, TypeOK, Charges, Statuses
  <1>2. \A c \in Calls : call[c].pc = "idle"
    BY NoCallType DEF Init
  <1>3. \A step \in Tracked, p \in Payments : Count(step, p) = 0
    <2>1. TAKE step \in Tracked, p \in Payments
    <2>2. OnStep(step, p) = {}
      BY <1>2 DEF OnStep, Tracked
    <2>3. QED
      BY <2>2, FS_EmptySet DEF Count
  <1>4. PendingCovered /\ CompletionsCounted
    BY <1>3 DEF Init, PendingCovered, CompletionsCounted, CompletionsLeft, Tracked
  <1>5. InsertedOnce /\ StepsCaptured /\ SumsRead
    BY <1>2 DEF Init, InsertedOnce, StepsCaptured, SumsRead, CapturedSteps
  <1>6. PaidOnlyIfCharged /\ FullRefundIsReal
    BY DEF Init, PaidOnlyIfCharged, FullRefundIsReal, Settled, Refundable
  <1>7. QED
    BY <1>1, <1>4, <1>5, <1>6 DEF IInv

LEMMA ProceedInv ==
  ASSUME IInv, NEW c \in Calls, Proceed(c)
  PROVE  IInv'
  BY InsertPendingInv, VerifyInv, MarkCompletedInv, RecordPaymentInv, PublishCompletedInv,
     MarkFailedInv, SumForRefundInv, SumForReversalInv, InsertRefundInv, InsertReversalInv,
     CommitRefundInv, CommitReversalInv
  DEF Proceed

LEMMA NextInv == IInv /\ [Next]_vars => IInv'
  <1> SUFFICES ASSUME IInv, [Next]_vars PROVE IInv'
    OBVIOUS
  <1>1. ASSUME NEW p \in Payments,
               ChargeSucceeds(p) \/ ChargeFails(p) \/ \E a \in Amounts : ChargeReversed(p, a)
        PROVE  IInv'
    BY <1>1, ProviderInv
  <1>2. ASSUME NEW c \in Calls, Proceed(c) PROVE IInv'
    BY <1>2, ProceedInv
  <1>3. ASSUME NEW c \in Calls, Deliver(c) PROVE IInv'
    <2>1. hooks \subseteq Hook
      BY DEF IInv, TypeOK
    <2>2. QED
      BY <1>3, <2>1, ChargeWebhookInv, RefundWebhookInv DEF Deliver
  <1>4. ASSUME NEW c \in Calls, HandlerDies(c) \/ PublishLost(c) PROVE IInv'
    BY <1>4, FaultsInv
  <1>5. ASSUME NEW c \in Calls, NEW p \in Payments,
               Initialize(c, p) \/ Confirm(c, p) \/ \E a \in Amounts : Refund(c, p, a)
        PROVE  IInv'
    BY <1>5, InitializeInv, ConfirmInv, RefundInv
  <1>6. CASE UNCHANGED vars
    BY <1>6 DEF vars, provider, refunds, history, IInv, TypeOK, PendingCovered, Count, OnStep,
       InsertedOnce, StepsCaptured, PaidOnlyIfCharged, SumsRead, FullRefundIsReal,
       CompletionsCounted, CompletionsLeft
  <1>7. QED
    BY <1>1, <1>2, <1>3, <1>4, <1>5, <1>6 DEF Next

\* The inductive invariant holds of every reachable state.
THEOREM Inductive == Spec => []IInv
  BY InitInv, NextInv, PTL DEF Spec

\* Rows and requests keep their shape; in particular no refund closes a 'pending'
\* row that is not there.
THEOREM TypeCorrect == Spec => []TypeOK
  <1>1. IInv => TypeOK
    BY DEF IInv
  <1>2. QED
    BY <1>1, Inductive, PTL

\* Nothing is settled, booked or announced that the provider did not capture,
\* with any number of requests racing.
THEOREM PaidIsCaptured == Spec => []PaidOnlyIfCharged
  <1>1. IInv => PaidOnlyIfCharged
    BY DEF IInv
  <1>2. QED
    BY <1>1, Inductive, PTL

\* 'refunded' is never written on a payment that was not refunded in full.
THEOREM RefundedInFull == Spec => []FullRefundIsReal
  <1>1. IInv => FullRefundIsReal
    BY DEF IInv
  <1>2. QED
    BY <1>1, Inductive, PTL

\* One completion for the payment and at most one more for each of its refunds:
\* the guarded UPDATE of markCompleted is what lets one of two racing paths win.
THEOREM CompletedOnce == Spec => []NoDoubleCompletion
  <1>1. IInv => NoDoubleCompletion
    <2> SUFFICES ASSUME IInv, NEW p \in Payments
                 PROVE  paymentRows[p] <= 1 + refundRows[p] /\ published[p] <= paymentRows[p]
      BY DEF NoDoubleCompletion
    <2>1. \A step \in Tracked : Count(step, p) \in Nat
      <3> TAKE step \in Tracked
      <3>1. IsFiniteSet(OnStep(step, p))
        BY PaymentsAssumption, FS_Subset DEF OnStep
      <3>2. QED
        BY <3>1, FS_CardinalityType DEF Count
    <2>2. Count("ledger", p) \in Nat /\ Count("publish", p) \in Nat
      BY <2>1 DEF Tracked
    <2>3. QED
      BY <2>2 DEF IInv, TypeOK, CompletionsCounted, CompletionsLeft
  <1>2. QED
    BY <1>1, Inductive, PTL

\* 'completed' is left only for a settled status, whatever was read earlier.
THEOREM CompletedStays == Spec => CompletedOnlyRefunded
  <1>1. IInv /\ [Next]_vars =>
          \A p \in Payments : status[p] = "completed" => status'[p] \in Settled
    <2> SUFFICES ASSUME IInv, [Next]_vars, NEW p \in Payments, status[p] = "completed"
                 PROVE  status'[p] \in Settled
      OBVIOUS
    <2>1. TypeOK /\ InsertedOnce /\ status[p] \in Settled
      BY DEF IInv, Settled, Refundable
    <2>2. CASE UNCHANGED status
      BY <2>1, <2>2
    <2>3. ASSUME NEW c \in Calls,
                 InsertPending(c) \/ MarkCompleted(c) \/ MarkFailed(c)
                   \/ CommitRefund(c) \/ CommitReversal(c)
          PROVE  status'[p] \in Settled
      <3>1. CASE InsertPending(c)
        BY <2>1, <3>1 DEF InsertPending, At, InsertedOnce, TypeOK
      <3>2. CASE MarkCompleted(c)
        BY <2>1, <3>2 DEF MarkCompleted, TypeOK, Settled, Refundable
      <3>3. CASE MarkFailed(c)
        BY <2>1, <3>3 DEF MarkFailed, TypeOK
      <3>4. CASE CommitRefund(c) \/ CommitReversal(c)
        BY <2>1, <3>4 DEF CommitRefund, CommitReversal, CommitLedger, StatusAfter, TypeOK,
           Settled, Refundable
      <3>5. QED
        BY <2>3, <3>1, <3>2, <3>3, <3>4
    <2>4. \/ UNCHANGED status
          \/ \E c \in Calls : InsertPending(c) \/ MarkCompleted(c) \/ MarkFailed(c)
                                \/ CommitRefund(c) \/ CommitReversal(c)
      BY DEF Next, vars, Proceed, Deliver, ChargeSucceeds, ChargeFails, ChargeReversed,
         Verify, RecordPayment, PublishCompleted, SumForRefund, SumForReversal, InsertRefund,
         InsertReversal, HandlerDies, PublishLost, Initialize, Confirm, Refund,
         ChargeWebhook, RefundWebhook
    <2>5. QED
      BY <2>2, <2>3, <2>4
  <1>2. QED
    BY <1>1, Inductive, PTL DEF Spec, CompletedOnlyRefunded

-----------------------------------------------------------------------------
(* Sums over the requests in flight.  A sum is counted as a set: one element *)
(* for every unit of each request.                                           *)

\* The amount of a request in state r, if it stands before one of the steps on p.
Part(r, p, steps) == IF r.pc \in steps /\ r.pay = p THEN r.amt ELSE 0

Units(p, steps) == {x \in Calls \X Amounts : x[2] <= Part(call[x[1]], p, steps)}
Sum(p, steps) == Cardinality(Units(p, steps))

\* ... the units of all requests but c.
Others(c, p, steps) ==
  {x \in Calls \X Amounts : x[1] # c /\ x[2] <= Part(call[x[1]], p, steps)}

\* What one request has is a set of as many units, apart from the others'.
LEMMA SumMoves ==
  ASSUME call \in [Calls -> Call], NEW c \in Calls, NEW r \in Call,
         call' = [call EXCEPT ![c] = r], NEW p \in Payments, NEW steps
  PROVE  /\ Cardinality(Others(c, p, steps)) \in Nat
         /\ Sum(p, steps) = Cardinality(Others(c, p, steps)) + Part(call[c], p, steps)
         /\ Sum(p, steps)' = Cardinality(Others(c, p, steps)) + Part(r, p, steps)
  <1> DEFINE rest == Others(c, p, steps)
             own(n) == {c} \X (1..n)
  <1>1. IsFiniteSet(Calls \X Amounts)
    <2>1. IsFiniteSet(Calls) /\ IsFiniteSet(Amounts)
      BY PaymentsAssumption, FS_Interval DEF Amounts
    <2>2. QED
      BY <2>1, FS_Product, Zenon
  <1>2. IsFiniteSet(rest)
    BY <1>1, FS_Subset DEF Others
  <1>3. ASSUME NEW n \in 0..Price
        PROVE  /\ IsFiniteSet(rest \cup own(n))
               /\ Cardinality(rest \cup own(n)) = Cardinality(rest) + n
               /\ Cardinality(rest) \in Nat
    <2>1. n \in Nat /\ 1 \in Int
      BY PaymentsAssumption
    <2>2. IsFiniteSet({c}) /\ Cardinality({c}) = 1
      BY FS_Singleton
    <2>3. IsFiniteSet(1..n) /\ Cardinality(1..n) = n
      BY <2>1, FS_Interval
    <2>4. IsFiniteSet(own(n)) /\ Cardinality(own(n)) = n
      <3>1. /\ IsFiniteSet({c} \X (1..n))
            /\ Cardinality({c} \X (1..n)) = Cardinality({c}) * Cardinality(1..n)
        BY <2>2, <2>3, FS_Product, Zenon
      <3>2. QED
        BY <2>1, <2>2, <2>3, <3>1
    <2>5. rest \cap own(n) = {}
      BY DEF Others
    <2>6. Cardinality(rest) \in Nat /\ Cardinality({}) = 0
      BY <1>2, FS_CardinalityType, FS_EmptySet
    <2> HIDE DEF rest, own
    <2>7. /\ IsFiniteSet(rest \cup own(n))
          /\ Cardinality(rest \cup own(n))
               = Cardinality(rest) + Cardinality(own(n)) - Cardinality(rest \cap own(n))
      BY <1>2, <2>4, FS_Union, Zenon
    <2>8. Cardinality(rest \cap own(n)) = 0
      BY <2>5, <2>6, Zenon
    <2>9. QED
      BY <2>1, <2>4, <2>6, <2>7, <2>8
  <1>4. Part(call[c], p, steps) \in 0..Price /\ Part(r, p, steps) \in 0..Price
    BY PaymentsAssumption DEF Part, Call
  <1>5. Units(p, steps) = rest \cup own(Part(call[c], p, steps))
    BY <1>4, PaymentsAssumption DEF Units, Others, Amounts
  <1>6. \A d \in Calls : call'[d] = IF d = c THEN r ELSE call[d]
    OBVIOUS
  <1>7. Units(p, steps)' = rest \cup own(Part(r, p, steps))
    BY <1>4, <1>6, PaymentsAssumption DEF Units, Others, Amounts, Part
  <1> HIDE DEF rest, own
  <1>8. /\ Sum(p, steps) = Cardinality(rest) + Part(call[c], p, steps)
        /\ Sum(p, steps)' = Cardinality(rest) + Part(r, p, steps)
        /\ Cardinality(rest) \in Nat
    BY <1>3, <1>4, <1>5, <1>7 DEF Sum
  <1>9. QED
    BY <1>8 DEF rest

-----------------------------------------------------------------------------
(* RefundsBounded.  What was refunded and what is about to be, by requests   *)
(* that have read the sum, is never more than a price for each of them: who  *)
(* reads the sum finds room for what it refunds, the others have a price at  *)
(* most.                                                                     *)

RefundSteps == {"sum_refund", "sum_reversal", "insert_refund", "insert_reversal",
                "commit_refund", "commit_reversal"}
SummedSteps == {"insert_refund", "insert_reversal", "commit_refund"}

BoundInv ==
  /\ \A c \in Calls : call[c].pc \in RefundSteps => c \in Refunders
  /\ \A p \in Payments : refunded[p] + Sum(p, SummedSteps) <= Price * Cardinality(Refunders)

LEMMA RefundersFinite == IsFiniteSet(Refunders) /\ Cardinality(Refunders) \in Nat
  BY PaymentsAssumption, FS_Subset, FS_CardinalityType

\* One request moves: what it refunds and what it will refund is what it was before,
\* or less.
LEMMA BoundMove ==
  ASSUME TypeOK, BoundInv, NEW c \in Calls, NEW r \in Call,
         call' = [call EXCEPT ![c] = r],
         r.pc \in RefundSteps => c \in Refunders,
         \A p \in Payments :
           /\ refunded'[p] \in Nat
           /\ refunded'[p] + Part(r, p, SummedSteps)
                <= refunded[p] + Part(call[c], p, SummedSteps)
  PROVE  BoundInv'
  <1>1. \A d \in Calls : call'[d].pc \in RefundSteps => d \in Refunders
    BY DEF BoundInv, TypeOK
  <1>2. ASSUME NEW p \in Payments
        PROVE  refunded'[p] + Sum(p, SummedSteps)' <= Price * Cardinality(Refunders)
    <2> DEFINE n == Cardinality(Others(c, p, SummedSteps))
    <2>6. call \in [Calls -> Call]
      BY DEF TypeOK
    <2>1. /\ n \in Nat
          /\ Sum(p, SummedSteps) = n + Part(call[c], p, SummedSteps)
          /\ Sum(p, SummedSteps)' = n + Part(r, p, SummedSteps)
      BY <2>6, SumMoves
    <2> HIDE DEF n
    <2>2. Part(call[c], p, SummedSteps) \in Nat /\ Part(r, p, SummedSteps) \in Nat
      BY PaymentsAssumption DEF TypeOK, Call, Part
    <2>3. Price * Cardinality(Refunders) \in Nat /\ refunded[p] \in Nat
      BY RefundersFinite, PaymentsAssumption DEF TypeOK
    <2>4. refunded[p] + Sum(p, SummedSteps) <= Price * Cardinality(Refunders)
      BY DEF BoundInv
    <2>5. QED
      BY <2>1, <2>2, <2>3, <2>4
  <1>3. QED
    BY <1>1, <1>2 DEF BoundInv

\* A request that is not about to refund something, and does not become so.
LEMMA BoundAside ==
  ASSUME TypeOK, BoundInv, NEW c \in Calls, NEW r \in Call,
         call' = [call EXCEPT ![c] = r], UNCHANGED refunded,
         r.pc \in RefundSteps => c \in Refunders, r.pc \notin SummedSteps
  PROVE  BoundInv'
  <1>1. ASSUME NEW p \in Payments
        PROVE  /\ refunded'[p] \in Nat
               /\ refunded'[p] + Part(r, p, SummedSteps)
                    <= refunded[p] + Part(call[c], p, SummedSteps)
    BY PaymentsAssumption DEF TypeOK, Call, Part
  <1>2. QED
    BY <1>1, BoundMove

LEMMA BoundReturn ==
  ASSUME TypeOK, BoundInv, NEW c \in Calls, call' = [call EXCEPT ![c] = NoCall],
         UNCHANGED refunded
  PROVE  BoundInv'
  BY NoCallType, BoundAside DEF RefundSteps, SummedSteps

LEMMA BoundEnter ==
  ASSUME TypeOK, BoundInv, NEW c \in Calls, NEW step \in Steps, NEW p \in Payments,
         NEW a \in 0..Price, NEW h \in SUBSET Hook, Enter(c, step, p, a, h),
         UNCHANGED refunded, step \notin SummedSteps, step \in RefundSteps => c \in Refunders
  PROVE  BoundInv'
  <1>1. PICK r \in Call : call' = [call EXCEPT ![c] = r] /\ r.pc = step
    BY EnterMoves
  <1>2. QED
    BY <1>1, BoundAside

\* Steps outside refund() and handleReversal().
LEMMA BoundCheckout ==
  ASSUME TypeOK, BoundInv, NEW c \in Calls,
         InsertPending(c) \/ Verify(c) \/ MarkCompleted(c) \/ RecordPayment(c)
           \/ PublishCompleted(c) \/ MarkFailed(c) \/ HandlerDies(c) \/ PublishLost(c)
  PROVE  BoundInv'
  <1>1. UNCHANGED refunded
    BY DEF InsertPending, Verify, MarkCompleted, RecordPayment, PublishCompleted,
       MarkFailed, HandlerDies, PublishLost, refunds
  <1>2. CASE Return(c) \/ HandlerDies(c)
    BY <1>1, <1>2, BoundReturn DEF Return, HandlerDies
  <1>3. ASSUME NEW step \in {"complete", "fail", "ledger", "publish"}, Goto(c, step)
        PROVE  BoundInv'
    <2>1. PICK r \in Call : call' = [call EXCEPT ![c] = r] /\ r.pc = step
      BY <1>3, GotoMoves DEF Steps
    <2>2. QED
      BY <1>1, <2>1, BoundAside DEF RefundSteps, SummedSteps
  <1>4. QED
    BY <1>2, <1>3 DEF InsertPending, Verify, MarkCompleted, RecordPayment, PublishCompleted,
       MarkFailed, PublishLost

\* The other requests have a price each at most.
LEMMA OthersBounded ==
  ASSUME TypeOK, BoundInv, NEW c \in Refunders, NEW p \in Payments
  PROVE  Cardinality(Others(c, p, SummedSteps)) + Price <= Price * Cardinality(Refunders)
  <1> DEFINE R == Refunders \ {c}
  <1>1. IsFiniteSet(R) /\ Cardinality(R) = Cardinality(Refunders) - 1
    BY RefundersFinite, FS_RemoveElement
  <1>2. IsFiniteSet(Amounts) /\ Cardinality(Amounts) = Price
    BY PaymentsAssumption, FS_Interval DEF Amounts
  <1>3. IsFiniteSet(R \X Amounts) /\ Cardinality(R \X Amounts) = Cardinality(R) * Cardinality(Amounts)
    BY <1>1, <1>2, FS_Product, Zenon
  <1>4. Others(c, p, SummedSteps) \subseteq R \X Amounts
    <2> SUFFICES ASSUME NEW d \in Calls, NEW n \in Amounts, d # c,
                        n <= Part(call[d], p, SummedSteps)
                 PROVE  d \in Refunders
      BY DEF Others
    <2>1. call[d].pc \in SummedSteps
      BY PaymentsAssumption DEF Part, Amounts
    <2>2. QED
      BY <2>1 DEF BoundInv, SummedSteps, RefundSteps
  <1>5. /\ Cardinality(Others(c, p, SummedSteps)) <= Cardinality(R \X Amounts)
        /\ Cardinality(Others(c, p, SummedSteps)) \in Nat
    BY <1>3, <1>4, FS_Subset, FS_CardinalityType, Zenon
  <1> HIDE DEF R
  <1>6. Cardinality(R \X Amounts) = (Cardinality(Refunders) - 1) * Price
    BY <1>1, <1>2, <1>3
  <1>7. (Cardinality(Refunders) - 1) * Price + Price = Price * Cardinality(Refunders)
    BY RefundersFinite, PaymentsAssumption
  <1>8. (Cardinality(Refunders) - 1) * Price \in Int /\ Price * Cardinality(Refunders) \in Int
    BY RefundersFinite, PaymentsAssumption
  <1>9. QED
    BY <1>5, <1>6, <1>7, <1>8, PaymentsAssumption

\* The sum is read, and what goes on fits what is left.
LEMMA BoundSum ==
  ASSUME TypeOK, BoundInv, NEW c \in Calls, SumForRefund(c) \/ SumForReversal(c)
  PROVE  BoundInv'
  <1> DEFINE p == call[c].pay
  <1>1. UNCHANGED refunded /\ c \in Refunders
    BY DEF SumForRefund, SumForReversal, refunds, BoundInv, At, RefundSteps
  <1>2. p \in Payments /\ refunded[p] \in Nat /\ call[c].amt \in 0..Price /\ call[c].hook \in SUBSET Hook
    BY DEF TypeOK, Call
  <1>3. CASE Return(c)
    BY <1>1, <1>3, BoundReturn DEF Return
  <1>4. ASSUME NEW step \in {"insert_refund", "insert_reversal"}, NEW a \in 0..Price,
               refunded[p] + a <= Price, GotoWith(c, step, a, refunded[p])
        PROVE  BoundInv'
    <2>1. [pc |-> step, pay |-> p, amt |-> a, already |-> refunded[p],
           hook |-> call[c].hook] \in Call
      BY <1>2 DEF Call, Steps
    <2>2. PICK r \in Call : call' = [call EXCEPT ![c] = r] /\ r.pay = p /\ r.amt = a
      BY <1>4, <2>1 DEF GotoWith
    <2>3. \A d \in Calls : call'[d].pc \in RefundSteps => d \in Refunders
      BY <1>1, <2>2 DEF BoundInv, TypeOK
    <2>4. ASSUME NEW q \in Payments
          PROVE  refunded'[q] + Sum(q, SummedSteps)' <= Price * Cardinality(Refunders)
      <3> DEFINE n == Cardinality(Others(c, q, SummedSteps))
      <3>7. call \in [Calls -> Call]
        BY DEF TypeOK
      <3>8. call' = [call EXCEPT ![c] = r]
        BY <2>2
      <3>1. /\ n \in Nat
            /\ Sum(q, SummedSteps) = n + Part(call[c], q, SummedSteps)
            /\ Sum(q, SummedSteps)' = n + Part(r, q, SummedSteps)
        BY <3>7, <3>8, SumMoves
      <3>2. n + Price <= Price * Cardinality(Refunders)
        BY <1>1, OthersBounded
      <3> HIDE DEF n
      <3>3. Price * Cardinality(Refunders) \in Nat /\ refunded[q] \in Nat
        BY RefundersFinite, PaymentsAssumption DEF TypeOK
      <3>4. CASE q = p
        <4>1. Part(r, q, SummedSteps) \in 0..a
          BY <1>4, <2>2, PaymentsAssumption DEF Part
        <4>2. QED
          BY <1>1, <1>4, <3>1, <3>2, <3>3, <3>4, <4>1, PaymentsAssumption
      <3>5. CASE q # p
        <4>1. Part(r, q, SummedSteps) = 0 /\ Part(call[c], q, SummedSteps) = 0
          BY <2>2, <3>5 DEF Part
        <4>2. QED
          BY <1>1, <3>1, <4>1 DEF BoundInv
      <3>6. QED
        BY <3>4, <3>5
    <2>5. QED
      BY <2>3, <2>4 DEF BoundInv
  <1>5. CASE SumForRefund(c)
    BY <1>2, <1>3, <1>4, <1>5 DEF SumForRefund
  <1>6. CASE SumForReversal(c)
    <2>1. ASSUME refunded[p] < Price
          PROVE  ReversalAmount(c) \in 0..Price /\ refunded[p] + ReversalAmount(c) <= Price
      BY <1>2, <2>1, PaymentsAssumption DEF ReversalAmount
    <2>2. QED
      BY <1>3, <1>4, <1>6, <2>1 DEF SumForReversal
  <1>7. QED
    BY <1>5, <1>6

\* What was about to be refunded is refunded.
LEMMA BoundWrites ==
  ASSUME TypeOK, BoundInv, NEW c \in Calls,
         InsertRefund(c) \/ InsertReversal(c) \/ CommitRefund(c) \/ CommitReversal(c)
  PROVE  BoundInv'
  <1>1. /\ call[c] \in Call /\ call[c].pay \in Payments /\ call[c].amt \in Nat
        /\ \A p \in Payments : refunded[p] \in Nat
        /\ call[c].pc \in RefundSteps /\ c \in Refunders
    BY PaymentsAssumption DEF TypeOK, Call, InsertRefund, InsertReversal, CommitRefund,
       CommitReversal, At, BoundInv, RefundSteps
  <1>2. CASE InsertRefund(c)
    <2>1. PICK r \in Call : /\ call' = [call EXCEPT ![c] = r]
                            /\ r.pc = "commit_refund" /\ r.pay = call[c].pay
                            /\ r.amt = call[c].amt
      BY <1>2, GotoMoves DEF InsertRefund, Steps
    <2>2. UNCHANGED refunded /\ call[c].pc = "insert_refund"
      BY <1>2 DEF InsertRefund, At
    <2>3. \A p \in Payments : Part(r, p, SummedSteps) = Part(call[c], p, SummedSteps)
      BY <2>1, <2>2 DEF Part, SummedSteps
    <2>4. \A p \in Payments : Part(r, p, SummedSteps) \in Nat
      BY <1>1, <2>1 DEF Part
    <2>5. \A p \in Payments : /\ refunded'[p] \in Nat
                             /\ refunded'[p] + Part(r, p, SummedSteps)
                                  <= refunded[p] + Part(call[c], p, SummedSteps)
      BY <1>1, <2>2, <2>3, <2>4
    <2>6. QED
      BY <1>1, <2>1, <2>5, BoundMove
  <1>3. ASSUME NEW r \in Call, call' = [call EXCEPT ![c] = r], r.pc \notin SummedSteps,
               call[c].pc \in SummedSteps,
               refunded' = [refunded EXCEPT ![call[c].pay] = @ + call[c].amt]
        PROVE  BoundInv'
    <2>1. \A p \in Payments : /\ refunded'[p] \in Nat
                             /\ refunded'[p] + Part(r, p, SummedSteps)
                                  <= refunded[p] + Part(call[c], p, SummedSteps)
      BY <1>1, <1>3 DEF TypeOK, Part
    <2>2. QED
      BY <1>1, <1>3, <2>1, BoundMove
  <1>4. CASE InsertReversal(c)
    <2>1. PICK r \in Call : call' = [call EXCEPT ![c] = r] /\ r.pc = "commit_reversal"
      BY <1>4, GotoMoves DEF InsertReversal, Steps
    <2>2. QED
      BY <1>3, <1>4, <2>1 DEF InsertReversal, At, SummedSteps
  <1>5. CASE CommitRefund(c)
    <2>1. call' = [call EXCEPT ![c] = NoCall] /\ NoCall \in Call /\ NoCall.pc = "idle"
      BY <1>5, NoCallType DEF CommitRefund, CommitLedger, Return
    <2>2. QED
      BY <1>3, <1>5, <2>1 DEF CommitRefund, At, SummedSteps
  <1>6. CASE CommitReversal(c)
    BY <1>6, BoundReturn DEF CommitReversal, CommitLedger, Return
  <1>7. QED
    BY <1>2, <1>4, <1>5, <1>6

LEMMA BoundKept ==
  ASSUME BoundInv, UNCHANGED <<refunded, call>>
  PROVE  BoundInv'
  BY DEF BoundInv, Sum, Units

\* Requests that come in.
LEMMA BoundArrive ==
  ASSUME TypeOK, BoundInv, NEW c \in Calls,
         \/ Deliver(c)
         \/ \E p \in Payments : \/ Initialize(c, p) \/ Confirm(c, p)
                                \/ \E a \in Amounts : Refund(c, p, a)
  PROVE  BoundInv'
  <1>1. UNCHANGED refunded
    BY DEF Deliver, Initialize, Confirm, Refund, ChargeWebhook, RefundWebhook, refunds
  <1>2. CASE UNCHANGED call
    BY <1>1, <1>2, BoundKept
  <1>3. ASSUME NEW step \in {"insert", "verify", "sum_refund", "sum_reversal"},
               NEW p \in Payments, NEW a \in 0..Price, NEW h \in SUBSET Hook,
               Enter(c, step, p, a, h), step \in RefundSteps => c \in Refunders
        PROVE  BoundInv'
    BY <1>1, <1>3, BoundEnter DEF Steps, SummedSteps
  <1>4. "insert" \notin RefundSteps /\ "verify" \notin RefundSteps
    BY DEF RefundSteps
  <1>5. 0 \in 0..Price /\ Amounts \subseteq 0..Price /\ {} \in SUBSET Hook /\ hooks \subseteq Hook
    BY PaymentsAssumption DEF Amounts, TypeOK
  <1>6. ASSUME NEW p \in Payments, Initialize(c, p) \/ Confirm(c, p) PROVE BoundInv'
    BY <1>3, <1>4, <1>5, <1>6 DEF Initialize, Confirm
  <1>7. ASSUME NEW p \in Payments, NEW a \in Amounts, Refund(c, p, a) PROVE BoundInv'
    BY <1>3, <1>5, <1>7 DEF Refund
  <1>8. ASSUME NEW p \in Payments, ChargeWebhook(c, p) PROVE BoundInv'
    <2>1. ChargeHook(p) \in hooks
      BY <1>8 DEF ChargeWebhook
    <2>2. {ChargeHook(p)} \in SUBSET Hook
      BY <1>5, <2>1
    <2>3. QED
      BY <1>2, <1>3, <1>4, <1>5, <1>8, <2>2 DEF ChargeWebhook, LookupFails
  <1>9. ASSUME NEW h \in hooks, RefundWebhook(c, h) PROVE BoundInv'
    <2>1. h.pay \in Payments /\ h.amt \in 0..Price /\ {h} \in SUBSET Hook
      BY <1>5 DEF Hook
    <2>2. QED
      BY <1>2, <1>3, <1>9, <2>1 DEF RefundWebhook, LookupFails
  <1>10. QED
    BY <1>6, <1>7, <1>8, <1>9 DEF Deliver

\* RefundsBounded: however refund() and handleReversal() overlap, and however often the
\* provider repeats itself, a payment is refunded no more than once for each request that
\* may run one at a time.
THEOREM OverRefundIsBounded == Spec => []RefundsBounded
  <1>1. Init => BoundInv
    <2> SUFFICES ASSUME Init PROVE BoundInv
      OBVIOUS
    <2>1. \A c \in Calls : call[c].pc = "idle"
      BY NoCallType DEF Init
    <2>2. ASSUME NEW p \in Payments PROVE Sum(p, SummedSteps) = 0
      <3>1. Units(p, SummedSteps) = {}
        BY <2>1, PaymentsAssumption DEF Units, Part, SummedSteps, Amounts
      <3>2. QED
        BY <3>1, FS_EmptySet DEF Sum
    <2>3. Price * Cardinality(Refunders) \in Nat
      BY RefundersFinite, PaymentsAssumption
    <2>4. QED
      BY <2>1, <2>2, <2>3 DEF Init, BoundInv, RefundSteps
  <1>2. TypeOK /\ BoundInv /\ [Next]_vars => BoundInv'
    <2> SUFFICES ASSUME TypeOK, BoundInv, [Next]_vars PROVE BoundInv'
      OBVIOUS
    <2>1. CASE UNCHANGED <<refunded, call>>
      BY <2>1, BoundKept
    <2>2. ASSUME NEW c \in Calls, Proceed(c) \/ HandlerDies(c) \/ PublishLost(c)
          PROVE  BoundInv'
      BY <2>2, BoundCheckout, BoundSum, BoundWrites DEF Proceed
    <2>3. ASSUME NEW p \in Payments, ChargeSucceeds(p) \/ ChargeFails(p)
                   \/ \E a \in Amounts : ChargeReversed(p, a)
          PROVE  BoundInv'
      BY <2>1, <2>3 DEF ChargeSucceeds, ChargeFails, ChargeReversed, refunds
    <2>4. CASE UNCHANGED vars
      BY <2>1, <2>4 DEF vars, refunds
    <2>5. QED
      BY <2>2, <2>3, <2>4, BoundArrive DEF Next
  <1>3. TypeOK /\ BoundInv => RefundsBounded
    <2> SUFFICES ASSUME TypeOK, BoundInv, NEW p \in Payments
                 PROVE  refunded[p] <= Price * Cardinality(Refunders)
      BY DEF RefundsBounded
    <2>1. Sum(p, SummedSteps) \in Nat
      <3>1. IsFiniteSet(Calls \X Amounts)
        <4>1. IsFiniteSet(Calls) /\ IsFiniteSet(Amounts)
          BY PaymentsAssumption, FS_Interval DEF Amounts
        <4>2. QED
          BY <4>1, FS_Product, Zenon
      <3>2. IsFiniteSet(Units(p, SummedSteps))
        BY <3>1, FS_Subset DEF Units
      <3>3. QED
        BY <3>2, FS_CardinalityType DEF Sum
    <2>2. Price * Cardinality(Refunders) \in Nat /\ refunded[p] \in Nat
      BY RefundersFinite, PaymentsAssumption DEF TypeOK
    <2>3. QED
      BY <2>1, <2>2 DEF BoundInv
  <1>4. QED
    BY <1>1, <1>2, <1>3, TypeCorrect, PTL DEF Spec

-----------------------------------------------------------------------------
(* RefundLedgerComplete.  Several reversals may be between their INSERT and  *)
(* their transaction, and all that is known of the difference of the sums is *)
(* that it is the sum of what these will still enter.                        *)

Entering == {"commit_reversal"}

LedgerInv ==
  \A p \in Payments : p \in severed \/ refunded[p] = refundLedger[p] + Sum(p, Entering)

\* One request moves, and the difference of the sums with what it owes.
LEMMA LedgerMoves ==
  ASSUME TypeOK, LedgerInv, NEW c \in Calls, NEW r \in Call,
         call' = [call EXCEPT ![c] = r], severed \subseteq severed',
         \A p \in Payments :
           \/ p \in severed'
           \/ refunded'[p] - refundLedger'[p] - Part(r, p, Entering)
                = refunded[p] - refundLedger[p] - Part(call[c], p, Entering),
         \A p \in Payments : refunded'[p] \in Nat /\ refundLedger'[p] \in Nat
  PROVE  LedgerInv'
  <1> SUFFICES ASSUME NEW p \in Payments, p \notin severed'
               PROVE  refunded'[p] = refundLedger'[p] + Sum(p, Entering)'
    BY DEF LedgerInv
  <1>1. refunded[p] = refundLedger[p] + Sum(p, Entering)
    BY DEF LedgerInv
  <1> DEFINE n == Cardinality(Others(c, p, Entering))
  <1>6. call \in [Calls -> Call]
    BY DEF TypeOK
  <1>2. /\ n \in Nat
        /\ Sum(p, Entering) = n + Part(call[c], p, Entering)
        /\ Sum(p, Entering)' = n + Part(r, p, Entering)
    BY <1>6, SumMoves
  <1> HIDE DEF n
  <1>3. refunded[p] \in Nat /\ refundLedger[p] \in Nat
    BY DEF TypeOK
  <1>4. Part(call[c], p, Entering) \in Int /\ Part(r, p, Entering) \in Int
    BY PaymentsAssumption DEF TypeOK, Call, Part, Entering
  <1>5. QED
    BY <1>1, <1>2, <1>3, <1>4

\* A request that has nothing to do with a reversal's transaction, before or after.
LEMMA LedgerKept ==
  ASSUME TypeOK, LedgerInv, UNCHANGED <<refunded, refundLedger>>, severed \subseteq severed',
         \/ UNCHANGED call
         \/ \E c \in Calls, r \in Call : /\ call' = [call EXCEPT ![c] = r]
                                       /\ call[c].pc # "commit_reversal"
                                       /\ r.pc # "commit_reversal"
  PROVE  LedgerInv'
  <1>1. CASE UNCHANGED call
    BY <1>1 DEF LedgerInv, Sum, Units
  <1>2. ASSUME NEW c \in Calls, NEW r \in Call, call' = [call EXCEPT ![c] = r],
               call[c].pc # "commit_reversal", r.pc # "commit_reversal"
        PROVE  LedgerInv'
    BY <1>2, LedgerMoves DEF TypeOK, Part, Entering
  <1>3. QED
    BY <1>1, <1>2

\* Requests arrive, move on or return, before and after a reversal.
LEMMA LedgerArrive ==
  ASSUME TypeOK, LedgerInv, NEW c \in Calls,
         Deliver(c) \/ \E p \in Payments :
                          Initialize(c, p) \/ Confirm(c, p) \/ \E a \in Amounts : Refund(c, p, a)
  PROVE  LedgerInv'
  <1>1. UNCHANGED <<refunded, refundLedger, severed>>
    BY DEF Deliver, ChargeWebhook, RefundWebhook, LookupFails, Initialize, Confirm, Refund, refunds, history
  <1>2. \/ UNCHANGED call
        \/ \E step \in Steps \ {"commit_reversal"}, p \in Payments, a \in 0..Price, h \in SUBSET Hook :
             Enter(c, step, p, a, h)
    <2>1. 0 \in 0..Price /\ Amounts \subseteq 0..Price /\ hooks \subseteq Hook
      BY PaymentsAssumption DEF Amounts, TypeOK
    <2>2. CASE \E p \in Payments : ChargeWebhook(c, p)
      BY <2>1, <2>2 DEF ChargeWebhook, LookupFails, Steps
    <2>3. ASSUME NEW h \in hooks, RefundWebhook(c, h)
          PROVE  \/ UNCHANGED call
                 \/ Enter(c, "sum_reversal", h.pay, h.amt, {h})
      BY <2>3 DEF RefundWebhook, LookupFails
    <2>4. \A h \in hooks : h.pay \in Payments /\ h.amt \in 0..Price /\ {h} \in SUBSET Hook
      BY <2>1 DEF Hook
    <2>5. CASE \E p \in Payments :
                 Initialize(c, p) \/ Confirm(c, p) \/ \E a \in Amounts : Refund(c, p, a)
      BY <2>1, <2>5 DEF Initialize, Confirm, Refund, Steps
    <2>6. "sum_reversal" \in Steps \ {"commit_reversal"}
      BY DEF Steps
    <2>7. QED
      BY <2>2, <2>3, <2>4, <2>5, <2>6 DEF Deliver
  <1>3. ASSUME NEW step \in Steps \ {"commit_reversal"}, NEW p \in Payments, NEW a \in 0..Price,
               NEW h \in SUBSET Hook, Enter(c, step, p, a, h)
        PROVE  \E r \in Call : /\ call' = [call EXCEPT ![c] = r]
                               /\ call[c].pc # "commit_reversal" /\ r.pc # "commit_reversal"
    BY <1>3, EnterMoves
  <1>4. QED
    BY <1>1, <1>2, <1>3, LedgerKept

\* The steps of a request but those that insert or commit a refund.
LEMMA LedgerGoesOn ==
  ASSUME TypeOK, LedgerInv, NEW c \in Calls,
         \/ InsertPending(c) \/ Verify(c) \/ MarkCompleted(c) \/ RecordPayment(c)
         \/ PublishCompleted(c) \/ MarkFailed(c) \/ SumForRefund(c) \/ SumForReversal(c)
         \/ InsertRefund(c) \/ PublishLost(c)
  PROVE  LedgerInv'
  <1>1. UNCHANGED <<refunded, refundLedger>> /\ severed \subseteq severed'
    BY DEF InsertPending, Verify, MarkCompleted, RecordPayment, PublishCompleted, MarkFailed,
       SumForRefund, SumForReversal, InsertRefund, PublishLost, refunds, history
  <1>2. call[c].pc # "commit_reversal"
    BY DEF InsertPending, Verify, MarkCompleted, RecordPayment, PublishCompleted, MarkFailed,
       SumForRefund, SumForReversal, InsertRefund, PublishLost, At
  <1>3. \/ Return(c)
        \/ \E step \in Steps \ {"commit_reversal"} : Goto(c, step)
        \/ \E step \in Steps \ {"commit_reversal"} : GotoWith(c, step, call[c].amt, refunded[call[c].pay])
        \/ GotoWith(c, "insert_reversal", ReversalAmount(c), refunded[call[c].pay]) /\ SumForReversal(c)
    BY DEF InsertPending, Verify, MarkCompleted, RecordPayment, PublishCompleted, MarkFailed,
       SumForRefund, SumForReversal, InsertRefund, PublishLost, Steps
  <1>4. call[c] \in Call /\ call[c].pay \in Payments /\ refunded[call[c].pay] \in Nat
    BY DEF TypeOK, Call
  <1>5. ASSUME NEW step \in Steps \ {"commit_reversal"}, NEW a \in 0..Price,
               GotoWith(c, step, a, refunded[call[c].pay])
        PROVE  \E r \in Call : call' = [call EXCEPT ![c] = r] /\ r.pc # "commit_reversal"
    <2> DEFINE r == [pc |-> step, pay |-> call[c].pay, amt |-> a, already |-> refunded[call[c].pay],
                     hook |-> call[c].hook]
    <2>1. r \in Call /\ r.pc # "commit_reversal"
      BY <1>4 DEF Call
    <2>2. QED
      BY <1>5, <2>1 DEF GotoWith
  <1>6. SumForReversal(c) /\ call'[c].pc = "insert_reversal" => ReversalAmount(c) \in 0..Price
    BY <1>4, PaymentsAssumption, NoCallType DEF SumForReversal, ReversalAmount, Call, Return, TypeOK
  <1>7. GotoWith(c, "insert_reversal", ReversalAmount(c), refunded[call[c].pay])
          => call'[c].pc = "insert_reversal"
    BY DEF GotoWith, TypeOK
  <1>8. call[c].amt \in 0..Price /\ "insert_reversal" \in Steps \ {"commit_reversal"}
    BY <1>4 DEF Call, Steps
  <1>9. \E r \in Call : call' = [call EXCEPT ![c] = r] /\ r.pc # "commit_reversal"
    BY <1>3, <1>5, <1>6, <1>7, <1>8, GotoMoves, ReturnMoves, NoCallType
  <1>10. QED
    BY <1>1, <1>2, <1>9, LedgerKept

\* Reversals enter their amounts one after the other, refunds in one transaction.
LEMMA LedgerWrites ==
  ASSUME TypeOK, LedgerInv, NEW c \in Calls,
         InsertReversal(c) \/ CommitRefund(c) \/ CommitReversal(c) \/ HandlerDies(c)
  PROVE  LedgerInv'
  <1>1. /\ call[c] \in Call /\ call[c].pay \in Payments /\ call[c].amt \in Nat
        /\ \A p \in Payments : refunded[p] \in Nat /\ refundLedger[p] \in Nat
    BY PaymentsAssumption DEF TypeOK, Call
  <1>2. CASE InsertReversal(c)
    <2>1. PICK r \in Call : /\ call' = [call EXCEPT ![c] = r]
                            /\ r.pc = "commit_reversal" /\ r.pay = call[c].pay
                            /\ r.amt = call[c].amt
      BY <1>2, GotoMoves DEF InsertReversal, Steps
    <2>2. /\ refunded' = [refunded EXCEPT ![call[c].pay] = @ + call[c].amt]
          /\ UNCHANGED <<refundLedger, severed>> /\ call[c].pc = "insert_reversal"
      BY <1>2 DEF InsertReversal, history, At
    <2>3. \A p \in Payments : /\ refunded'[p] \in Nat /\ refundLedger'[p] \in Nat
                             /\ refunded'[p] - refundLedger'[p] - Part(r, p, Entering)
                                  = refunded[p] - refundLedger[p] - Part(call[c], p, Entering)
      BY <1>1, <2>1, <2>2 DEF TypeOK, Part, Entering
    <2>4. QED
      BY <2>1, <2>2, <2>3, LedgerMoves
  <1>3. CASE CommitRefund(c) \/ CommitReversal(c)
    <2>1. call' = [call EXCEPT ![c] = NoCall] /\ NoCall \in Call /\ UNCHANGED severed
      BY <1>3, NoCallType, ReturnMoves DEF CommitRefund, CommitReversal, CommitLedger, history
    <2>2. /\ refundLedger' = [refundLedger EXCEPT ![call[c].pay] = @ + call[c].amt]
          /\ \/ /\ call[c].pc = "commit_refund"
                /\ refunded' = [refunded EXCEPT ![call[c].pay] = @ + call[c].amt]
             \/ call[c].pc = "commit_reversal" /\ UNCHANGED refunded
      BY <1>3 DEF CommitRefund, CommitReversal, CommitLedger, At
    <2>3. \A p \in Payments : /\ refunded'[p] \in Nat /\ refundLedger'[p] \in Nat
                             /\ refunded'[p] - refundLedger'[p] - Part(NoCall, p, Entering)
                                  = refunded[p] - refundLedger[p] - Part(call[c], p, Entering)
      BY <1>1, <2>2, NoCallType DEF TypeOK, Part, Entering
    <2>4. QED
      BY <2>1, <2>3, LedgerMoves
  <1>4. CASE HandlerDies(c)
    <2>1. /\ call' = [call EXCEPT ![c] = NoCall] /\ NoCall \in Call
          /\ severed' = (IF call[c].pc = "commit_reversal" THEN severed \cup {call[c].pay} ELSE severed)
          /\ UNCHANGED <<refunded, refundLedger>>
      BY <1>4, NoCallType DEF HandlerDies, At, refunds
    <2>2. \A p \in Payments :
            p \in severed' \/ refunded'[p] - refundLedger'[p] - Part(NoCall, p, Entering)
                             = refunded[p] - refundLedger[p] - Part(call[c], p, Entering)
      BY <1>1, <2>1, NoCallType DEF Part, Entering
    <2>3. QED
      BY <1>1, <2>1, <2>2, LedgerMoves
  <1>5. QED
    BY <1>2, <1>3, <1>4

\* RefundLedgerComplete: the refunds table and the ledger of handleReversal() and refund()
\* tell the same sum, unless a reversal is between its INSERT and its transaction, or a
\* handler died just there; however many refunds overlap.
THEOREM LedgerIsComplete == Spec => []RefundLedgerComplete
  <1>1. Init => LedgerInv
    <2> SUFFICES ASSUME Init, NEW p \in Payments PROVE refunded[p] = refundLedger[p] + Sum(p, Entering)
      BY DEF LedgerInv
    <2>1. Units(p, Entering) = {}
      BY NoCallType, PaymentsAssumption DEF Init, Units, Part, Entering, Amounts
    <2>2. QED
      BY <2>1, FS_EmptySet DEF Init, Sum
  <1>2. TypeOK /\ LedgerInv /\ [Next]_vars => LedgerInv'
    <2> SUFFICES ASSUME TypeOK, LedgerInv, [Next]_vars PROVE LedgerInv'
      OBVIOUS
    <2>1. CASE UNCHANGED <<refunded, refundLedger, severed, call>>
      BY <2>1, LedgerKept
    <2>2. ASSUME NEW c \in Calls, Proceed(c) \/ HandlerDies(c) \/ PublishLost(c)
          PROVE  LedgerInv'
      BY <2>2, LedgerGoesOn, LedgerWrites DEF Proceed
    <2>3. ASSUME NEW p \in Payments, ChargeSucceeds(p) \/ ChargeFails(p)
                   \/ \E a \in Amounts : ChargeReversed(p, a)
          PROVE  LedgerInv'
      BY <2>1, <2>3 DEF ChargeSucceeds, ChargeFails, ChargeReversed, refunds, history
    <2>4. CASE UNCHANGED vars
      BY <2>1, <2>4 DEF vars, refunds, history
    <2>5. QED
      BY <2>2, <2>3, <2>4, LedgerArrive DEF Next
  <1>3. TypeOK /\ LedgerInv => RefundLedgerComplete
    <2> SUFFICES ASSUME TypeOK, LedgerInv, NEW p \in Payments, p \notin severed,
                        \A c \in Calls : ~(At(c, "commit_reversal") /\ call[c].pay = p)
                 PROVE  refundLedger[p] = refunded[p]
      BY DEF RefundLedgerComplete
    <2>1. Units(p, Entering) = {}
      BY PaymentsAssumption DEF Units, Part, Entering, Amounts, At
    <2>2. Sum(p, Entering) = 0
      BY <2>1, FS_EmptySet DEF Sum
    <2>3. QED
      BY <2>2 DEF LedgerInv, TypeOK
  <1>4. QED
    BY <1>1, <1>2, <1>3, TypeCorrect, PTL DEF Spec
=============================================================================
