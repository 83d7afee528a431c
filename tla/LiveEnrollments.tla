--------------------------- MODULE LiveEnrollments ---------------------------
(***************************************************************************)
(* Enrollments of one live class (live-class-service,                      *)
(* enrollments.service.ts): enrolling under a capacity, invitations,       *)
(* cancelling, the billing events consumed from RabbitMQ and the hourly    *)
(* expiry.                                                                 *)
(*                                                                         *)
(* Each awaited Mongo operation is one step; what a request read before it *)
(* is in its record call[c].  There is at most one document per student,   *)
(* by the unique index on {classId, studentId}.  Of payment-service there  *)
(* is what it does for a student and the events it publishes; Payments and *)
(* Subscriptions say how it comes to that.  Every routing key has a queue  *)
(* of its own, and a handler waits for the database, so events are handled *)
(* in any order.                                                           *)
(***************************************************************************)
EXTENDS Integers, FiniteSets

CONSTANTS
  Students,
  Calls,         \* requests in flight together
  Terms,         \* paymentModel and accessMode a class may be created with
  Capacity,      \* classes.capacity; null is any number that is never reached
  Period,        \* days a subscription charge pays for
  Grace,         \* days payment-service waits for a late renewal
  MaxDay,        \* bound: the days the model looks at
  MaxEvents,     \* bound: charges per student, each with its event
  MaxFaults      \* bound: failed calls, requests that die, events handled twice or lost

ASSUME LiveEnrollmentsAssumption ==
  /\ Terms \subseteq [payment : {"FREE", "ONE_TIME", "RECURRING"},
                       access : {"OPEN", "INVITE_ONLY"}]
  /\ IsFiniteSet(Students) /\ IsFiniteSet(Calls)
  /\ {Period, MaxDay} \subseteq Nat \ {0}
  /\ {Capacity, Grace, MaxEvents, MaxFaults} \subseteq Nat

VARIABLES
  status,       \* enrollments.status, "none" before the insert
  accessUntil,  \* enrollments.accessUntil
  linked,       \* whether enrollments.subscriptionId is set
  invitation,   \* invitations.status of the student's invitation, "none" before invite()
  call,         \* requests in flight
  billing,      \* payment-service: what it does for the student
  paidUntil,    \* payment-service: the day up to which the student has paid
  sent,         \* payment-service: events published about the student
  queue,        \* events waiting in this service's queues
  class,        \* the class: its terms, and whether classes.endedAt is set
  day,
  faults,
  happened      \* history: mishaps of each student that a property excepts

row   == <<status, accessUntil, linked>>
payer == <<billing, paidUntil, sent>>
vars  == <<row, invitation, call, payer, queue, class, day, faults, happened>>

Never == MaxDay + Period + 1    \* NEVER_EXPIRES
Days  == 0..Never

Event == [key : {"created", "charged", "expired", "completed"}, student : Students,
          until : Days, n : Nat]

Statuses == {"none", "PENDING_PAYMENT", "ACTIVE", "CANCELLED", "EXPIRED"}
Seated   == {"ACTIVE", "PENDING_PAYMENT"}
Mishaps  == {"dropped",       \* an event was not published, or its handler failed
             "overtaken",     \* an event was handled before an older one
             "renewal_only",  \* the first charge was announced as a renewal
             "first_again",   \* a renewal was announced as a first charge
             "outrun"}        \* an enrollment ended that had got a subscription since cancel() read it
Steps    == {"idle", "count", "insert", "bill", "accept", "cancel_billing", "cancel_row"}
Call     == [pc : Steps, student : SUBSET Students]
NoCall   == [pc |-> "idle", student |-> {}]

At(c, step) == call[c].pc = step
Enter(c, step, st) ==
  At(c, "idle") /\ call' = [call EXCEPT ![c] = [pc |-> step, student |-> {st}]]
Goto(c, step) == call' = [call EXCEPT ![c] = [pc |-> step, student |-> call[c].student]]
Return(c) == call' = [call EXCEPT ![c] = NoCall]

\* acceptInvitation() goes on after createEnrollment(), enroll() answers.
Enrolled(c) == IF class.access = "INVITE_ONLY" THEN Goto(c, "accept") ELSE Return(c)

Init ==
  /\ status = [st \in Students |-> "none"]
  /\ accessUntil = [st \in Students |-> 0]
  /\ linked = [st \in Students |-> FALSE]
  /\ invitation = [st \in Students |-> "none"]
  /\ call = [c \in Calls |-> NoCall]
  /\ billing = [st \in Students |-> "none"]
  /\ paidUntil = [st \in Students |-> 0]
  /\ sent = [st \in Students |-> 0]
  /\ queue = {}
  /\ \E t \in Terms : class = [payment |-> t.payment, access |-> t.access, ended |-> FALSE]
  /\ day = 1
  /\ faults = 0
  /\ happened = [st \in Students |-> {}]

-----------------------------------------------------------------------------
(* Enrolling: enroll() and acceptInvitation() both go through              *)
(* createEnrollment().                                                     *)

Invite(st) ==
  /\ class.access = "INVITE_ONLY" /\ invitation[st] = "none"
  /\ invitation' = [invitation EXCEPT ![st] = "pending"]
  /\ UNCHANGED <<row, call, payer, queue, class, day, faults, happened>>

\* Mutated: the invitation is used up before there is an enrollment.
Enroll_UsesUpFirst(c, st) ==
  /\ class.access = "INVITE_ONLY" => invitation[st] = "pending"
  /\ status[st] \notin Seated /\ Enter(c, "count", st)
  /\ invitation' = [invitation EXCEPT ![st] = IF @ = "pending" THEN "accepted" ELSE @]
  /\ UNCHANGED <<row, payer, queue, class, day, faults, happened>>

\* The existing enrollment is returned if it is active or waits for its payment.
Enroll(c, st) ==
  /\ class.access = "INVITE_ONLY" => invitation[st] = "pending"
  /\ \/ status[st] \notin Seated /\ Enter(c, "count", st)
     \/ status[st] \in Seated /\ class.access = "INVITE_ONLY" /\ Enter(c, "accept", st)
  /\ UNCHANGED <<row, invitation, payer, queue, class, day, faults, happened>>

Taken == {st \in Students : status[st] \in Seated}

CountSeats(c) ==
  /\ At(c, "count")
  /\ IF Cardinality(Taken) >= Capacity THEN Return(c) ELSE Goto(c, "insert")
  /\ UNCHANGED <<row, invitation, payer, queue, class, day, faults, happened>>

\* insertOne() throws on the unique index if there is a document of any status.
Insert(c) ==
  /\ At(c, "insert")
  /\ \E st \in call[c].student :
       \/ /\ status[st] # "none"
          /\ Return(c)
          /\ UNCHANGED row
       \/ /\ status[st] = "none"
          /\ status' = [status EXCEPT ![st] =
               IF class.payment = "FREE" THEN "ACTIVE" ELSE "PENDING_PAYMENT"]
          /\ accessUntil' = [accessUntil EXCEPT ![st] =
               IF class.payment = "FREE" THEN Never ELSE day]
          /\ IF class.payment = "FREE" THEN Enrolled(c) ELSE Goto(c, "bill")
          /\ UNCHANGED linked
  /\ UNCHANGED <<invitation, payer, queue, class, day, faults, happened>>

\* initializeOneTimePayment() or createSubscription()
Bill(c) ==
  /\ At(c, "bill")
  /\ \E st \in call[c].student : billing' = [billing EXCEPT ![st] = "open"]
  /\ Enrolled(c)
  /\ UNCHANGED <<row, invitation, paidUntil, sent, queue, class, day, faults, happened>>

Accept(c) ==
  /\ At(c, "accept")
  /\ \E st \in call[c].student : invitation' = [invitation EXCEPT ![st] = "accepted"]
  /\ Return(c)
  /\ UNCHANGED <<row, payer, queue, class, day, faults, happened>>

-----------------------------------------------------------------------------
(* cancel(), by the student or an administrator. *)

Cancel(c, st) ==
  /\ status[st] \in Seated
  /\ Enter(c, IF linked[st] THEN "cancel_billing" ELSE "cancel_row", st)
  /\ UNCHANGED <<row, invitation, payer, queue, class, day, faults, happened>>

\* The subscription is cancelled; status and accessUntil stay.
CancelBilling(c) ==
  /\ At(c, "cancel_billing")
  /\ \E st \in call[c].student :
       billing' = [billing EXCEPT ![st] = IF @ = "live" THEN "cancelled" ELSE @]
  /\ Return(c)
  /\ UNCHANGED <<row, invitation, paidUntil, sent, queue, class, day, faults, happened>>

Note(st, mishap) == happened' = [happened EXCEPT ![st] = @ \cup {mishap}]

\* Without one, the enrollment ends at once, whatever it has become.
CancelRow(c) ==
  /\ At(c, "cancel_row")
  /\ \E st \in call[c].student :
       /\ status' = [status EXCEPT ![st] = "CANCELLED"]
       /\ accessUntil' = [accessUntil EXCEPT ![st] = day]
       /\ IF linked[st] THEN Note(st, "outrun") ELSE UNCHANGED happened
  /\ Return(c)
  /\ UNCHANGED <<linked, invitation, payer, queue, class, day, faults>>

\* A call fails, or the process dies at an await: the request goes no further.
RequestFails(c) ==
  /\ faults < MaxFaults
  /\ ~At(c, "idle")
  /\ faults' = faults + 1
  /\ Return(c)
  /\ UNCHANGED <<row, invitation, payer, queue, class, day, happened>>

-----------------------------------------------------------------------------
(* payment-service. *)

Publish(key, st, until) ==
  queue' = queue \cup {[key |-> key, student |-> st, until |-> until, n |-> sent'[st]]}

\* The checkout link stays good, whatever becomes of the enrollment.
PayOnce(st) ==
  /\ class.payment # "RECURRING" /\ billing[st] = "open"
  /\ billing' = [billing EXCEPT ![st] = "live"]
  /\ sent' = [sent EXCEPT ![st] = 1]
  /\ paidUntil' = [paidUntil EXCEPT ![st] = Never]
  /\ Publish("completed", st, Never)
  /\ UNCHANGED <<row, invitation, call, class, day, faults, happened>>

\* handleChargeSuccess() sets 'active' and the period, and announces a first charge if it
\* read 'pending': not so if subscription.create came first, or if the webhook is delivered
\* again because its handler died before it published.
Charged(st, key, until) ==
  /\ class.payment = "RECURRING"
  /\ billing' = [billing EXCEPT ![st] = "live"]
  /\ sent' = [sent EXCEPT ![st] = @ + 1]
  /\ paidUntil' = [paidUntil EXCEPT ![st] = until]
  /\ Publish(key, st, until)
  /\ UNCHANGED <<row, invitation, call, class, day, faults>>

FirstCharge(st) ==
  /\ billing[st] = "open"
  /\ \/ Charged(st, "created", day + Period) /\ UNCHANGED happened
     \/ Charged(st, "charged", day + Period) /\ Note(st, "renewal_only")

\* A charge of the next period, whatever the subscription has become, or one delivered
\* again: it names the day it named, or counts from the day it is handled.
Renew(st) ==
  /\ billing[st] \in {"live", "cancelled", "expired"} /\ sent[st] < MaxEvents
  /\ \E until \in {paidUntil[st], day + Period} :
       /\ until >= paidUntil[st]
       /\ \/ Charged(st, "charged", until) /\ UNCHANGED happened
          \/ Charged(st, "created", until) /\ Note(st, "first_again")

\* sweepFailedSubscriptions()
GiveUp(st) ==
  /\ class.payment = "RECURRING" /\ billing[st] = "live"
  /\ paidUntil[st] + Grace < day
  /\ billing' = [billing EXCEPT ![st] = "expired"]
  /\ sent' = [sent EXCEPT ![st] = @ + 1]
  /\ Publish("expired", st, paidUntil[st])
  /\ UNCHANGED <<row, invitation, call, paidUntil, class, day, faults, happened>>

-----------------------------------------------------------------------------
(* The consumer.  A handler is one update. *)

\* An older event about the student waits still, or is to be delivered again.
Overtakes(e) == \E x \in queue : x.student = e.student /\ x.n < e.n

\* Every message is acknowledged, and delivered again if the process dies before that.
Ack(e) ==
  \/ queue' = queue \ {e} /\ UNCHANGED faults
  \/ faults < MaxFaults /\ faults' = faults + 1 /\ UNCHANGED queue

\* Mutated: a subscription without an end date in reach.
PeriodEnd_Never(e) == Never

\* currentPeriodEnd, or NEVER_EXPIRES for a one-time payment
PeriodEnd(e) == e.until

\* Mutated: only payment.completed is bound.
Activate_OneTimeOnly(e) ==
  /\ e.key \in {"created", "completed"}
  /\ IF status[e.student] = "PENDING_PAYMENT" /\ e.key = "completed"
       THEN /\ status' = [status EXCEPT ![e.student] = "ACTIVE"]
            /\ accessUntil' = [accessUntil EXCEPT ![e.student] = PeriodEnd(e)]
            /\ UNCHANGED linked
       ELSE UNCHANGED row

\* Mutated: activates whatever the enrollment has become.
Activate_Revives(e) ==
  /\ e.key \in {"created", "completed"}
  /\ status' = [status EXCEPT ![e.student] = "ACTIVE"]
  /\ accessUntil' = [accessUntil EXCEPT ![e.student] = PeriodEnd(e)]
  /\ linked' = [linked EXCEPT ![e.student] = e.key = "created"]

\* activateFromBilling(), for subscription.created and payment.completed
Activate(e) ==
  /\ e.key \in {"created", "completed"}
  /\ IF status[e.student] = "PENDING_PAYMENT"
       THEN /\ status' = [status EXCEPT ![e.student] = "ACTIVE"]
            /\ accessUntil' = [accessUntil EXCEPT ![e.student] = PeriodEnd(e)]
            /\ linked' = [linked EXCEPT ![e.student] = e.key = "created"]
       ELSE UNCHANGED row

\* Mutated: extends an enrollment only while it waits for its payment.
Extend_Pending(e) ==
  /\ e.key = "charged"
  /\ accessUntil' = [accessUntil EXCEPT ![e.student] =
       IF status[e.student] = "PENDING_PAYMENT" THEN e.until ELSE @]
  /\ UNCHANGED <<status, linked>>

\* handleSubscriptionCharged()
Extend(e) ==
  /\ e.key = "charged"
  /\ accessUntil' = [accessUntil EXCEPT ![e.student] =
       IF status[e.student] \in Seated THEN e.until ELSE @]
  /\ UNCHANGED <<status, linked>>

\* handleSubscriptionExpired()
Expire(e) ==
  /\ e.key = "expired"
  /\ status' = [status EXCEPT ![e.student] = IF @ = "none" THEN @ ELSE "EXPIRED"]
  /\ UNCHANGED <<accessUntil, linked>>

Deliver(e) ==
  /\ Activate(e) \/ Extend(e) \/ Expire(e)
  /\ Ack(e)
  /\ IF Overtakes(e) THEN Note(e.student, "overtaken") ELSE UNCHANGED happened
  /\ UNCHANGED <<invitation, call, payer, class, day>>

\* The update fails: logged, and acknowledged all the same.  An event that payment-service
\* fails to publish is dropped before it is here.
Drop(e) ==
  /\ faults < MaxFaults
  /\ faults' = faults + 1
  /\ Note(e.student, "dropped")
  /\ queue' = queue \ {e}
  /\ UNCHANGED <<row, invitation, call, payer, class, day>>

-----------------------------------------------------------------------------

Lapsed(st) == status[st] = "ACTIVE" /\ accessUntil[st] < day /\ accessUntil[st] # Never

\* The hourly cron.
ExpireLapsedEnrollments ==
  /\ \E st \in Students : Lapsed(st)
  /\ status' = [st \in Students |-> IF Lapsed(st) THEN "EXPIRED" ELSE status[st]]
  /\ UNCHANGED <<accessUntil, linked, invitation, call, payer, queue, class, day, faults, happened>>

\* ClassesService.end(): enrollments and subscriptions are left as they are.
EndClass ==
  /\ ~class.ended
  /\ class' = [class EXCEPT !.ended = TRUE]
  /\ UNCHANGED <<row, invitation, call, payer, queue, day, faults, happened>>

\* A request does not take a day.
Tick ==
  /\ day < MaxDay
  /\ \A c \in Calls : At(c, "idle")
  /\ day' = day + 1
  /\ UNCHANGED <<row, invitation, call, payer, queue, class, faults, happened>>

Next ==
  \/ \E c \in Calls :
       \/ \E st \in Students : Enroll(c, st) \/ Cancel(c, st)
       \/ CountSeats(c) \/ Insert(c) \/ Bill(c) \/ Accept(c)
       \/ CancelBilling(c) \/ CancelRow(c) \/ RequestFails(c)
  \/ \E st \in Students : Invite(st) \/ PayOnce(st) \/ FirstCharge(st) \/ Renew(st) \/ GiveUp(st)
  \/ \E e \in queue : Deliver(e) \/ Drop(e)
  \/ ExpireLapsedEnrollments
  \/ EndClass
  \/ Tick

Spec == Init /\ [][Next]_vars

\* The consumer takes what is in its queues, and the cron runs.
FairSpec ==
  /\ Spec
  /\ \A st \in Students : WF_vars(\E e \in queue : e.student = st /\ Deliver(e))
  /\ WF_vars(ExpireLapsedEnrollments)

-----------------------------------------------------------------------------
(* Properties *)

\* The document, the requests and the events keep their shape.
TypeOK ==
  /\ status \in [Students -> Statuses]
  /\ accessUntil \in [Students -> Days]
  /\ linked \in [Students -> BOOLEAN]
  /\ invitation \in [Students -> {"none", "pending", "accepted"}]
  /\ call \in [Calls -> Call]
  /\ billing \in [Students -> {"none", "open", "live", "cancelled", "expired"}]
  /\ paidUntil \in [Students -> Days]
  /\ sent \in [Students -> Nat]
  /\ queue \subseteq Event
  /\ class \in [payment : {"FREE", "ONE_TIME", "RECURRING"}, access : {"OPEN", "INVITE_ONLY"},
                ended : BOOLEAN]
  /\ day \in 1..MaxDay
  /\ faults \in Nat
  /\ happened \in [Students -> SUBSET Mishaps]

\* hasAccess()
HasAccess(st) == status[st] = "ACTIVE" /\ accessUntil[st] > day

\* A paid class is open only to those who paid, and no longer than they paid for, in
\* whatever order, however often and under whichever name the charges are announced.
AccessIsPaid ==
  class.payment # "FREE" => \A st \in Students :
    HasAccess(st) => accessUntil[st] <= paidUntil[st]

\* The charges reach st in order, under names that an active enrollment listens to.
Informed(st) == happened[st] \cap {"dropped", "overtaken", "first_again"} = {}

\* Nothing about st is on its way.
Quiet(st) ==
  /\ \A e \in queue : e.student # st
  /\ \A c \in Calls : st \notin call[c].student

\* An enrollment that is still active lasts as long as its student paid, and a cancelled
\* subscription leaves the access that was paid for, however enrolling, cancelling, paying
\* and renewing overlapped: but for an enrollment that ended because cancel() found no
\* subscription and there was one by the time it wrote.  (An enrollment that had expired
\* when its late renewal came stays expired: the charge finds no document.)
AccessCoversPaid ==
  \A st \in Students : Quiet(st) /\ Informed(st) =>
    /\ status[st] = "ACTIVE" => accessUntil[st] >= paidUntil[st]
    /\ billing[st] = "cancelled" /\ paidUntil[st] > day =>
         status[st] = "EXPIRED" \/ HasAccess(st) \/ "outrun" \in happened[st]

\* The class never has more students, paying or about to pay, than seats: "two students
\* racing the last spot can't both end up paying for it" (enrollments.service.ts:106).
SeatsFit == Cardinality(Taken) <= Capacity

\* An invitation is used up only by an enrollment: a request that fails on the way, or
\* that finds the class full, leaves it good for another try.
InvitationsHonoured ==
  \A st \in Students : invitation[st] = "accepted" => status[st] # "none"

\* An enrollment its student cancelled does not come back with a late billing event.
CancelledStays ==
  [][\A st \in Students : status[st] = "CANCELLED" => status'[st] \in {"CANCELLED", "EXPIRED"}]_vars

\* What is paid for becomes accessible, in whatever order the events come, unless one was
\* lost or the first charge was announced as a renewal, which activates nothing.
PaidEventuallyActive ==
  \A st \in Students :
    status[st] = "PENDING_PAYMENT" /\ billing[st] = "live"
      ~> status[st] # "PENDING_PAYMENT" \/ happened[st] \cap {"dropped", "renewal_only"} # {}

=============================================================================
