----------------------- MODULE LiveEnrollmentsProofs -----------------------
(***************************************************************************)
(* Proofs about LiveEnrollments and the pages of ClassSignup: for any      *)
(* class, any number of students and requests, events in any order, handled*)
(* twice or lost, access is never longer than what was paid, and no shorter*)
(* where it was told; a cancelled enrollment does not come back; an        *)
(* invitation is used up only by an enrollment; the class is overbooked by *)
(* less than the requests in flight.  No page asks for more.               *)
(***************************************************************************)
EXTENDS ClassSignup, FiniteSetTheorems, TLAPS

\* Billing starts for a document that is there, once; nothing is paid before.
BilledOnce ==
  /\ \A st \in Students : billing[st] # "none" => status[st] # "none"
  /\ \A st \in Students : billing[st] \in {"none", "open"} => paidUntil[st] = 0
  /\ \A c \in Calls : At(c, "bill") =>
       \A st \in call[c].student : status[st] # "none" /\ billing[st] = "none"
  /\ \A c, d \in Calls :
       At(c, "bill") /\ At(d, "bill") /\ call[c].student \cap call[d].student # {} => c = d

\* A request is about one student.
OneStudent == \A c \in Calls : \A x, y \in call[c].student : x = y

\* No event promises more than was paid.
QueueBacked == \A e \in queue : e.until <= paidUntil[e.student]

\* An active enrollment lasts no longer than its student paid for, over or not.
ActiveBacked ==
  class.payment # "FREE" =>
    \A st \in Students : status[st] = "ACTIVE" => accessUntil[st] <= paidUntil[st]

\* Only requests that found or made an enrollment accept their invitation.
AcceptsEnrolled ==
  \A c \in Calls : At(c, "accept") => \A st \in call[c].student : status[st] # "none"

\* The inductive invariant.
IInv ==
  /\ TypeOK
  /\ OneStudent
  /\ BilledOnce
  /\ QueueBacked
  /\ ActiveBacked
  /\ AcceptsEnrolled
  /\ InvitationsHonoured

-----------------------------------------------------------------------------
(* How a request moves. *)

LEMMA NoCallType == NoCall \in Call /\ NoCall.pc = "idle" /\ NoCall.student = {}
  BY DEF NoCall, Call, Steps

\* Every way a request moves on replaces its record by one of type Call.
LEMMA EnterMoves ==
  ASSUME NEW c \in Calls, NEW step \in Steps, NEW st \in Students, Enter(c, step, st)
  PROVE  \E r \in Call : /\ call' = [call EXCEPT ![c] = r]
                         /\ r.pc = step /\ r.student = {st}
  <1> DEFINE r == [pc |-> step, student |-> {st}]
  <1>1. r \in Call
    BY DEF Call
  <1>2. call' = [call EXCEPT ![c] = r]
    BY DEF Enter
  <1>3. QED
    BY <1>1, <1>2

LEMMA GotoMoves ==
  ASSUME TypeOK, NEW c \in Calls, NEW step \in Steps, Goto(c, step)
  PROVE  \E r \in Call : /\ call' = [call EXCEPT ![c] = r]
                         /\ r.pc = step /\ r.student = call[c].student
  <1> DEFINE r == [pc |-> step, student |-> call[c].student]
  <1>1. r \in Call
    BY DEF Call, TypeOK
  <1>2. call' = [call EXCEPT ![c] = r]
    BY DEF Goto
  <1>3. QED
    BY <1>1, <1>2

LEMMA ReturnMoves ==
  ASSUME NEW c \in Calls, Return(c)
  PROVE  \E r \in Call : /\ call' = [call EXCEPT ![c] = r]
                         /\ r.pc = "idle" /\ r.student = {}
  BY NoCallType DEF Return

LEMMA EnrolledMoves ==
  ASSUME TypeOK, NEW c \in Calls, Enrolled(c)
  PROVE  \E r \in Call : /\ call' = [call EXCEPT ![c] = r]
                         /\ r.pc \in {"idle", "accept"} /\ r.student \subseteq call[c].student
  <1>1. "accept" \in Steps
    BY DEF Steps
  <1>2. CASE class.access = "INVITE_ONLY"
    BY <1>1, <1>2, GotoMoves DEF Enrolled
  <1>3. CASE class.access # "INVITE_ONLY"
    BY <1>3, ReturnMoves DEF Enrolled
  <1>4. QED
    BY <1>2, <1>3

\* A note in the history takes nothing back, and is about one student.
LEMMA Noted ==
  ASSUME TypeOK, NEW st \in Students, NEW m \in Mishaps, Note(st, m)
  PROVE  /\ happened' \in [Students -> SUBSET Mishaps]
         /\ \A x \in Students : happened[x] \subseteq happened'[x]
         /\ \A x \in Students : x # st => happened'[x] = happened[x]
         /\ m \in happened'[st]
  <1>1. happened \in [Students -> SUBSET Mishaps]
    BY DEF TypeOK
  <1>2. happened' = [happened EXCEPT ![st] = happened[st] \cup {m}]
    BY DEF Note
  <1>3. \A x \in Students : happened'[x] = IF x = st THEN happened[st] \cup {m} ELSE happened[x]
    BY <1>1, <1>2
  <1>4. QED
    BY <1>1, <1>2, <1>3

\* A request that moves to a step where nothing is claimed of its student, while the
\* documents and what is billed stay as they are.
LEMMA PlainMove ==
  ASSUME IInv, NEW c \in Calls, NEW r \in Call, call' = [call EXCEPT ![c] = r],
         \A x, y \in r.student : x = y,
         r.pc # "bill", r.pc = "accept" => \A st \in r.student : status[st] # "none",
         UNCHANGED <<row, payer, queue, class, day>>,
         invitation' \in [Students -> {"none", "pending", "accepted"}],
         \A st \in Students : invitation'[st] = "accepted" => status[st] # "none",
         faults' \in Nat, happened' \in [Students -> SUBSET Mishaps]
  PROVE  IInv'
  <1> USE DEF row, payer
  <1>1. TypeOK'
    BY DEF IInv, TypeOK
  <1>2. \A d \in Calls : call'[d] = IF d = c THEN r ELSE call[d]
    BY DEF IInv, TypeOK
  <1>3. BilledOnce'
    BY <1>2 DEF IInv, BilledOnce, At
  <1>4. QueueBacked' /\ ActiveBacked'
    BY DEF IInv, QueueBacked, ActiveBacked
  <1>5. AcceptsEnrolled'
    BY <1>2 DEF IInv, AcceptsEnrolled, At
  <1>6. InvitationsHonoured'
    BY DEF InvitationsHonoured
  <1>7. OneStudent'
    BY <1>2 DEF IInv, OneStudent
  <1>8. QED
    BY <1>1, <1>3, <1>4, <1>5, <1>6, <1>7 DEF IInv

\* A step of the environment, which leaves the requests and invitations alone, never
\* takes a document away, and never starts a second bill.
LEMMA OutsideStep ==
  ASSUME IInv, UNCHANGED <<call, invitation>>, TypeOK', QueueBacked', ActiveBacked',
         \A st \in Students : status[st] # "none" => status'[st] # "none",
         \A st \in Students : billing[st] = "none" => billing'[st] = "none",
         \A st \in Students : billing'[st] \in {"none", "open"} =>
           billing[st] \in {"none", "open"} /\ paidUntil'[st] = paidUntil[st]
  PROVE  IInv'
  <1>1. BilledOnce'
    <2>1. \A st \in Students : billing'[st] # "none" => billing[st] # "none"
      OBVIOUS
    <2>2. \A c \in Calls : call[c].student \subseteq Students
      BY DEF IInv, TypeOK, Call
    <2>3. QED
      BY <2>1, <2>2 DEF IInv, BilledOnce, At
  <1>2. AcceptsEnrolled'
    <2>1. \A c \in Calls : call[c].student \subseteq Students
      BY DEF IInv, TypeOK, Call
    <2>2. QED
      BY <2>1 DEF IInv, AcceptsEnrolled, At
  <1>3. InvitationsHonoured'
    BY DEF IInv, InvitationsHonoured
  <1>4. OneStudent'
    BY DEF IInv, OneStudent
  <1>5. QED
    BY <1>1, <1>2, <1>3, <1>4 DEF IInv

-----------------------------------------------------------------------------
(* The initial state and the steps. *)

LEMMA Initially == Init => IInv
  <1> SUFFICES ASSUME Init PROVE IInv
    OBVIOUS
  <1> USE LiveEnrollmentsAssumption, NoCallType DEF Init
  <1>1. TypeOK
    BY DEF TypeOK, Days, Never, Statuses
  <1>2. \A c \in Calls : call[c].pc = "idle"
    OBVIOUS
  <1>3. BilledOnce
    BY <1>2 DEF BilledOnce, At
  <1>4. QueueBacked /\ ActiveBacked /\ AcceptsEnrolled /\ InvitationsHonoured /\ OneStudent
    BY <1>2 DEF OneStudent, QueueBacked, ActiveBacked, AcceptsEnrolled, InvitationsHonoured, At
  <1>5. QED
    BY <1>1, <1>3, <1>4 DEF IInv

\* Steps of requests that leave the documents and what is billed alone.
LEMMA RequestStep ==
  ASSUME IInv, NEW c \in Calls,
         \/ \E st \in Students : Enroll(c, st) \/ Cancel(c, st)
         \/ CountSeats(c) \/ Accept(c) \/ RequestFails(c)
  PROVE  IInv'
  <1> USE DEF row, payer
  <1>t. TypeOK
    BY DEF IInv
  <1>i. \A st \in Students : invitation[st] = "accepted" => status[st] # "none"
    BY DEF IInv, InvitationsHonoured
  <1>1. ASSUME NEW st \in Students, Enroll(c, st)
        PROVE  IInv'
    <2>1. PICK step \in Steps : /\ Enter(c, step, st)
                                /\ step = "accept" => status[st] # "none"
                                /\ step \in {"count", "accept"}
      BY <1>1 DEF Enroll, Steps, Seated
    <2>2. PICK r \in Call : /\ call' = [call EXCEPT ![c] = r]
                            /\ r.pc = step /\ r.student = {st}
      BY <2>1, EnterMoves
    <2>3. QED
      BY <1>1, <1>t, <1>i, <2>1, <2>2, PlainMove DEF Enroll, TypeOK
  <1>2. ASSUME NEW st \in Students, Cancel(c, st)
        PROVE  IInv'
    <2>1. PICK step \in Steps : Enter(c, step, st) /\ step \in {"cancel_billing", "cancel_row"}
      BY <1>2 DEF Cancel, Steps
    <2>2. PICK r \in Call : /\ call' = [call EXCEPT ![c] = r]
                            /\ r.pc = step /\ r.student = {st}
      BY <2>1, EnterMoves
    <2>3. QED
      BY <1>2, <1>t, <1>i, <2>1, <2>2, PlainMove DEF Cancel, TypeOK
  <1>3. ASSUME CountSeats(c)
        PROVE  IInv'
    <2>1. \E r \in Call : /\ call' = [call EXCEPT ![c] = r] /\ r.pc \in {"idle", "insert"}
                           /\ r.student \subseteq call[c].student
      <3>1. "insert" \in Steps
        BY DEF Steps
      <3>2. QED
        BY <1>3, <1>t, <3>1, GotoMoves, ReturnMoves DEF CountSeats
    <2>2. PICK r \in Call : /\ call' = [call EXCEPT ![c] = r] /\ r.pc \in {"idle", "insert"}
                            /\ r.student \subseteq call[c].student
      BY <2>1
    <2>3. \A x, y \in r.student : x = y
      BY <2>2 DEF IInv, OneStudent
    <2>4. QED
      BY <1>3, <1>t, <1>i, <2>2, <2>3, PlainMove DEF CountSeats, TypeOK
  <1>4. ASSUME Accept(c)
        PROVE  IInv'
    <2>1. PICK r \in Call : call' = [call EXCEPT ![c] = r] /\ r.pc = "idle" /\ r.student = {}
      BY <1>4, ReturnMoves DEF Accept
    <2>2. PICK st \in call[c].student : invitation' = [invitation EXCEPT ![st] = "accepted"]
      BY <1>4 DEF Accept
    <2>3. st \in Students /\ status[st] # "none"
      BY <1>4, <1>t DEF Accept, IInv, AcceptsEnrolled, TypeOK, Call
    <2>4. /\ invitation' \in [Students -> {"none", "pending", "accepted"}]
          /\ \A x \in Students : invitation'[x] = "accepted" => status[x] # "none"
      BY <1>t, <1>i, <2>2, <2>3 DEF TypeOK
    <2>5. QED
      BY <1>4, <1>t, <2>1, <2>4, PlainMove DEF Accept, TypeOK
  <1>5. ASSUME RequestFails(c)
        PROVE  IInv'
    <2>1. PICK r \in Call : call' = [call EXCEPT ![c] = r] /\ r.pc = "idle" /\ r.student = {}
      BY <1>5, ReturnMoves DEF RequestFails
    <2>2. faults' \in Nat
      BY <1>5, <1>t DEF RequestFails, TypeOK
    <2>3. /\ UNCHANGED <<row, payer, queue, class, day, invitation, happened>>
          /\ invitation \in [Students -> {"none", "pending", "accepted"}]
          /\ happened \in [Students -> SUBSET Mishaps]
      BY <1>5, <1>t DEF RequestFails, TypeOK
    <2>4. QED
      BY <1>i, <2>1, <2>2, <2>3, PlainMove
  <1>6. QED
    BY <1>1, <1>2, <1>3, <1>4, <1>5

\* insertOne(): the document appears, or there was one already.
LEMMA InsertStep ==
  ASSUME IInv, NEW c \in Calls, Insert(c)
  PROVE  IInv'
  <1>t. TypeOK
    BY DEF IInv
  <1>1. PICK st \in call[c].student :
          \/ status[st] # "none" /\ Return(c) /\ UNCHANGED row
          \/ /\ status[st] = "none"
             /\ status' = [status EXCEPT ![st] =
                  IF class.payment = "FREE" THEN "ACTIVE" ELSE "PENDING_PAYMENT"]
             /\ accessUntil' = [accessUntil EXCEPT ![st] =
                  IF class.payment = "FREE" THEN Never ELSE day]
             /\ IF class.payment = "FREE" THEN Enrolled(c) ELSE Goto(c, "bill")
             /\ UNCHANGED linked
    BY DEF Insert
  <1>2. st \in Students /\ call[c].student \subseteq Students
    BY <1>t DEF TypeOK, Call
  <1>3. CASE status[st] # "none" /\ Return(c) /\ UNCHANGED row
    <2>1. PICK r \in Call : call' = [call EXCEPT ![c] = r] /\ r.pc = "idle" /\ r.student = {}
      BY <1>3, ReturnMoves
    <2>2. /\ UNCHANGED <<row, payer, queue, class, day, invitation, faults, happened>>
          /\ invitation \in [Students -> {"none", "pending", "accepted"}]
          /\ happened \in [Students -> SUBSET Mishaps] /\ faults \in Nat
      BY <1>3, <1>t DEF Insert, TypeOK
    <2>3. QED
      BY <2>1, <2>2, PlainMove DEF IInv, InvitationsHonoured
  <1>4. ASSUME status[st] = "none",
               status' = [status EXCEPT ![st] =
                  IF class.payment = "FREE" THEN "ACTIVE" ELSE "PENDING_PAYMENT"],
               accessUntil' = [accessUntil EXCEPT ![st] =
                  IF class.payment = "FREE" THEN Never ELSE day],
               IF class.payment = "FREE" THEN Enrolled(c) ELSE Goto(c, "bill"),
               UNCHANGED linked
        PROVE  IInv'
    <2>1. UNCHANGED <<invitation, billing, paidUntil, sent, queue, class, day, faults, happened>>
      BY DEF Insert, payer
    <2>2. PICK r \in Call : /\ call' = [call EXCEPT ![c] = r]
                            /\ r.pc \in {"idle", "accept", "bill"}
                            /\ r.student \subseteq call[c].student
      <3>1. "bill" \in Steps
        BY DEF Steps
      <3>2. QED
        BY <1>4, <1>t, <3>1, EnrolledMoves, GotoMoves
    <2>3. r.student \subseteq {st}
      BY <1>1, <2>2 DEF IInv, OneStudent
    <2>4. \A d \in Calls : call'[d] = IF d = c THEN r ELSE call[d]
      BY <1>t, <2>2 DEF TypeOK
    <2>5. /\ \A x \in Students : status'[x] # "none" <=> (x = st \/ status[x] # "none")
          /\ \A x \in Students : x # st => status'[x] = status[x] /\ accessUntil'[x] = accessUntil[x]
          /\ class.payment # "FREE" => status'[st] # "ACTIVE"
      BY <1>2, <1>4, <1>t DEF TypeOK
    <2>6. TypeOK'
      <3>1. /\ "ACTIVE" \in Statuses /\ "PENDING_PAYMENT" \in Statuses
            /\ Never \in Days /\ day \in Days
        BY <1>t, LiveEnrollmentsAssumption DEF Statuses, Days, Never, TypeOK
      <3>2. status' \in [Students -> Statuses] /\ accessUntil' \in [Students -> Days]
        BY <1>2, <1>4, <1>t, <3>1 DEF TypeOK
      <3>3. call' \in [Calls -> Call]
        BY <1>t, <2>2 DEF TypeOK
      <3>4. QED
        BY <1>t, <1>4, <2>1, <3>2, <3>3 DEF TypeOK
    <2>7. BilledOnce'
      <3>1. \A x \in Students : billing[x] # "none" => status'[x] # "none"
        BY <2>5 DEF IInv, BilledOnce
      <3>2. \A d \in Calls : call'[d].pc = "bill" => \A x \in call'[d].student :
              status'[x] # "none" /\ billing[x] = "none" /\ (d # c => x # st)
        <4>1. SUFFICES ASSUME NEW d \in Calls, call'[d].pc = "bill", NEW x \in call'[d].student
                       PROVE  status'[x] # "none" /\ billing[x] = "none" /\ (d # c => x # st)
          OBVIOUS
        <4>2. CASE d = c
          BY <1>2, <1>4, <2>3, <2>4, <2>5, <4>1, <4>2 DEF IInv, BilledOnce
        <4>3. CASE d # c
          <5>1. call[d].pc = "bill" /\ x \in call[d].student /\ x \in Students
            BY <1>t, <2>4, <4>1, <4>3 DEF TypeOK, Call
          <5>2. status[x] # "none" /\ billing[x] = "none"
            BY <5>1 DEF IInv, BilledOnce, At
          <5>3. QED
            BY <1>4, <2>5, <4>3, <5>1, <5>2
        <4>4. QED
          BY <4>2, <4>3
      <3>3. \A d, e \in Calls :
              call'[d].pc = "bill" /\ call'[e].pc = "bill"
                /\ call'[d].student \cap call'[e].student # {} => d = e
        <4>1. SUFFICES ASSUME NEW d \in Calls, NEW e \in Calls, call'[d].pc = "bill",
                              call'[e].pc = "bill", call'[d].student \cap call'[e].student # {}
                       PROVE  d = e
          OBVIOUS
        <4>2. PICK x : x \in call'[d].student /\ x \in call'[e].student
          BY <4>1
        <4>3. CASE d = c \/ e = c
          BY <2>3, <2>4, <3>2, <4>1, <4>2, <4>3
        <4>4. CASE d # c /\ e # c
          BY <2>4, <4>1, <4>4 DEF IInv, BilledOnce, At
        <4>5. QED
          BY <4>3, <4>4
      <3>4. QED
        BY <2>1, <3>1, <3>2, <3>3 DEF IInv, BilledOnce, At
    <2>8. QueueBacked' /\ ActiveBacked'
      BY <2>1, <2>5 DEF IInv, QueueBacked, ActiveBacked
    <2>9. AcceptsEnrolled' /\ OneStudent'
      <3>1. \A d \in Calls : call[d].student \subseteq Students
        BY <1>t DEF TypeOK, Call
      <3>2. QED
        BY <1>2, <2>3, <2>4, <2>5, <3>1 DEF IInv, AcceptsEnrolled, OneStudent, At
    <2>10. InvitationsHonoured'
      BY <2>1, <2>5 DEF IInv, InvitationsHonoured
    <2>11. QED
      BY <2>6, <2>7, <2>8, <2>9, <2>10 DEF IInv
  <1>5. QED
    BY <1>1, <1>3, <1>4

\* The bill is opened, once.
LEMMA BillStep ==
  ASSUME IInv, NEW c \in Calls, Bill(c)
  PROVE  IInv'
  <1>t. TypeOK
    BY DEF IInv
  <1>1. PICK st \in call[c].student : billing' = [billing EXCEPT ![st] = "open"]
    BY DEF Bill
  <1>2. /\ st \in Students /\ status[st] # "none" /\ billing[st] = "none"
        /\ call[c].student = {st}
        /\ \A x \in call[c].student : status[x] # "none"
    BY <1>t DEF Bill, IInv, BilledOnce, OneStudent, TypeOK, Call
  <1>3. UNCHANGED <<row, invitation, paidUntil, sent, queue, class, day, faults, happened>>
    BY DEF Bill
  <1>4. PICK r \in Call : /\ call' = [call EXCEPT ![c] = r]
                          /\ r.pc \in {"idle", "accept"} /\ r.student \subseteq {st}
    BY <1>t, <1>2, EnrolledMoves DEF Bill
  <1>5. \A d \in Calls : call'[d] = IF d = c THEN r ELSE call[d]
    BY <1>t, <1>4 DEF TypeOK
  <1>6. \A x \in Students : billing'[x] = IF x = st THEN "open" ELSE billing[x]
    BY <1>t, <1>1 DEF TypeOK
  <1>7. TypeOK'
    BY <1>t, <1>1, <1>2, <1>3, <1>4 DEF TypeOK, row
  <1>8. BilledOnce'
    <2>1. \A d \in Calls : d # c /\ call[d].pc = "bill" => st \notin call[d].student
      BY <1>2 DEF Bill, IInv, BilledOnce, At
    <2>2. \A d \in Calls : call[d].student \subseteq Students
      BY <1>t DEF TypeOK, Call
    <2>3. /\ \A x \in Students : billing'[x] # "none" => status[x] # "none"
          /\ \A x \in Students : billing'[x] \in {"none", "open"} => paidUntil[x] = 0
      BY <1>2, <1>6 DEF IInv, BilledOnce
    <2>4. \A d \in Calls : call'[d].pc = "bill" =>
            d # c /\ \A x \in call'[d].student : status[x] # "none" /\ billing'[x] = "none"
      BY <1>4, <1>5, <1>6, <2>1, <2>2 DEF IInv, BilledOnce, At
    <2>5. \A d, e \in Calls :
            call'[d].pc = "bill" /\ call'[e].pc = "bill"
              /\ call'[d].student \cap call'[e].student # {} => d = e
      BY <1>5, <2>4 DEF IInv, BilledOnce, At
    <2>6. QED
      BY <1>3, <2>3, <2>4, <2>5 DEF BilledOnce, At, row
  <1>9. QueueBacked' /\ ActiveBacked' /\ InvitationsHonoured'
    BY <1>3 DEF IInv, QueueBacked, ActiveBacked, InvitationsHonoured, row
  <1>10. AcceptsEnrolled' /\ OneStudent'
    BY <1>2, <1>3, <1>4, <1>5 DEF IInv, AcceptsEnrolled, OneStudent, At, row
  <1>11. QED
    BY <1>7, <1>8, <1>9, <1>10 DEF IInv

\* cancel() ends the subscription, or the enrollment.
LEMMA CancelStep ==
  ASSUME IInv, NEW c \in Calls, CancelBilling(c) \/ CancelRow(c)
  PROVE  IInv'
  <1>t. TypeOK
    BY DEF IInv
  <1>1. PICK r \in Call : call' = [call EXCEPT ![c] = r] /\ r.pc = "idle" /\ r.student = {}
    BY ReturnMoves DEF CancelBilling, CancelRow
  <1>2. UNCHANGED <<invitation, linked, paidUntil, sent, queue, class, day, faults>>
    BY DEF CancelBilling, CancelRow, row, payer
  <1>3. \A d \in Calls : call'[d] = IF d = c THEN r ELSE call[d]
    BY <1>t, <1>1 DEF TypeOK
  <1>4. /\ \A x \in Students : /\ status'[x] = status[x] \/ status'[x] = "CANCELLED"
                               /\ status[x] # "none" => status'[x] # "none"
                               /\ status'[x] = "ACTIVE" => accessUntil'[x] = accessUntil[x]
                               /\ billing'[x] = billing[x] \/ billing'[x] = "cancelled"
                               /\ billing[x] # "live" => billing'[x] = billing[x]
        /\ status' \in [Students -> Statuses]
        /\ accessUntil' \in [Students -> Days]
        /\ billing' \in [Students -> {"none", "open", "live", "cancelled", "expired"}]
        /\ happened' \in [Students -> SUBSET Mishaps]
    <2>1. CASE CancelBilling(c)
      BY <1>t, <2>1 DEF CancelBilling, TypeOK, row
    <2>2. CASE CancelRow(c)
      <3>1. PICK st \in call[c].student :
              /\ status' = [status EXCEPT ![st] = "CANCELLED"]
              /\ accessUntil' = [accessUntil EXCEPT ![st] = day]
              /\ Note(st, "outrun") \/ happened' = happened
        BY <2>2 DEF CancelRow
      <3>2. st \in Students /\ day \in Days /\ "CANCELLED" \in Statuses
        BY <1>t, <3>1, LiveEnrollmentsAssumption DEF TypeOK, Call, Days, Never, Statuses
      <3>3. happened' \in [Students -> SUBSET Mishaps]
        <4>1. "outrun" \in Mishaps
          BY DEF Mishaps
        <4>2. CASE Note(st, "outrun")
          BY <1>t, <3>2, <4>1, <4>2, Noted
        <4>3. CASE happened' = happened
          BY <1>t, <4>3 DEF TypeOK
        <4>4. QED
          BY <3>1, <4>2, <4>3
      <3>4. QED
        BY <1>t, <2>2, <3>1, <3>2, <3>3 DEF CancelRow, TypeOK, payer
    <2>3. QED
      BY <2>1, <2>2
  <1>5. TypeOK'
    BY <1>t, <1>1, <1>2, <1>4 DEF TypeOK
  <1>6. BilledOnce'
    <2>1. \A d \in Calls : call[d].student \subseteq Students
      BY <1>t DEF TypeOK, Call
    <2>2. /\ \A x \in Students : billing'[x] # "none" => status'[x] # "none"
          /\ \A x \in Students : billing'[x] \in {"none", "open"} => paidUntil[x] = 0
      BY <1>4 DEF IInv, BilledOnce
    <2>3. \A d \in Calls : call'[d].pc = "bill" =>
            d # c /\ \A x \in call'[d].student : status'[x] # "none" /\ billing'[x] = "none"
      BY <1>1, <1>3, <1>4, <2>1 DEF IInv, BilledOnce, At
    <2>4. \A d, e \in Calls :
            call'[d].pc = "bill" /\ call'[e].pc = "bill"
              /\ call'[d].student \cap call'[e].student # {} => d = e
      BY <1>3, <2>3 DEF IInv, BilledOnce, At
    <2>5. QED
      BY <1>2, <2>2, <2>3, <2>4 DEF BilledOnce, At
  <1>7. QueueBacked' /\ ActiveBacked' /\ InvitationsHonoured'
    BY <1>2, <1>4 DEF IInv, QueueBacked, ActiveBacked, InvitationsHonoured
  <1>8. AcceptsEnrolled' /\ OneStudent'
    <2>1. \A d \in Calls : call[d].student \subseteq Students
      BY <1>t DEF TypeOK, Call
    <2>2. QED
      BY <1>1, <1>3, <1>4, <2>1 DEF IInv, AcceptsEnrolled, OneStudent, At
  <1>9. QED
    BY <1>5, <1>6, <1>7, <1>8 DEF IInv

\* A charge replaces what is known of the student, and is announced, in one.
LEMMA ChargeMoves ==
  ASSUME TypeOK, NEW st \in Students, NEW until \in Days,
         NEW key \in {"created", "charged", "expired", "completed"}, Charged(st, key, until)
  PROVE  /\ billing' = [billing EXCEPT ![st] = "live"]
         /\ paidUntil' = [paidUntil EXCEPT ![st] = until]
         /\ sent' = [sent EXCEPT ![st] = sent[st] + 1] /\ sent[st] + 1 \in Nat
         /\ Publish(key, st, until)
         /\ UNCHANGED <<status, accessUntil, linked, invitation, call, class, day, faults>>
  <1>1. sent[st] + 1 \in Nat
    BY DEF TypeOK
  <1>2. QED
    BY <1>1 DEF Charged, row

\* A charge, whichever, carries a day and leaves a note or none.
LEMMA ChargeIs ==
  ASSUME TypeOK, NEW st \in Students, FirstCharge(st) \/ Renew(st),
         billing[st] = "open" => paidUntil[st] = 0
  PROVE  \E until \in Days, key \in {"created", "charged"} :
           /\ Charged(st, key, until) /\ until >= paidUntil[st]
           /\ billing[st] # "none"
           /\ \/ key = "created" /\ billing[st] = "open" /\ happened' = happened
              \/ key = "charged" /\ (happened' = happened \/ Note(st, "renewal_only"))
              \/ key = "created" /\ Note(st, "first_again")
  <1>1. /\ day + Period \in Days /\ paidUntil[st] \in Days /\ paidUntil[st] >= paidUntil[st]
        /\ day + Period >= 0
    BY LiveEnrollmentsAssumption DEF TypeOK, Days, Never
  <1>2. CASE FirstCharge(st)
    <2>1. billing[st] = "open" /\ paidUntil[st] = 0
      BY <1>2 DEF FirstCharge
    <2>2. CASE Charged(st, "created", day + Period) /\ happened' = happened
      BY <1>1, <2>1, <2>2
    <2>3. CASE Charged(st, "charged", day + Period) /\ Note(st, "renewal_only")
      BY <1>1, <2>1, <2>3
    <2>4. QED
      BY <1>2, <2>2, <2>3 DEF FirstCharge
  <1>3. CASE Renew(st)
    <2>1. billing[st] # "none"
      BY <1>3 DEF Renew
    <2>2. PICK until \in {paidUntil[st], day + Period} :
            /\ until >= paidUntil[st]
            /\ \/ Charged(st, "charged", until) /\ happened' = happened
               \/ Charged(st, "created", until) /\ Note(st, "first_again")
      BY <1>3 DEF Renew
    <2>3. until \in Days
      BY <1>1, <2>2
    <2>4. CASE Charged(st, "charged", until) /\ happened' = happened
      BY <2>1, <2>2, <2>3, <2>4
    <2>5. CASE Charged(st, "created", until) /\ Note(st, "first_again")
      BY <2>1, <2>2, <2>3, <2>5
    <2>6. QED
      BY <2>2, <2>4, <2>5
  <1>4. QED
    BY <1>2, <1>3

\* payment-service charges for the first time, again, or gives up.
LEMMA BillingStep ==
  ASSUME IInv, NEW st \in Students, PayOnce(st) \/ FirstCharge(st) \/ Renew(st) \/ GiveUp(st)
  PROVE  IInv'
  <1>t. TypeOK
    BY DEF IInv
  <1>o. billing[st] \in {"none", "open"} => paidUntil[st] = 0
    BY DEF IInv, BilledOnce
  <1>1. UNCHANGED <<status, accessUntil, linked, invitation, call, class, day, faults>>
    BY DEF PayOnce, FirstCharge, Renew, Charged, GiveUp, row
  <1>2. PICK until \in Days, b \in {"live", "expired"}, n \in Nat,
          key \in {"created", "charged", "expired", "completed"} :
          /\ billing' = [billing EXCEPT ![st] = b]
          /\ paidUntil' = [paidUntil EXCEPT ![st] = until]
          /\ sent' = [sent EXCEPT ![st] = n]
          /\ Publish(key, st, until)
          /\ until >= paidUntil[st]
          /\ billing[st] # "none"
    <2>1. CASE FirstCharge(st) \/ Renew(st)
      <3>1. PICK until \in Days, key \in {"created", "charged"} :
              Charged(st, key, until) /\ until >= paidUntil[st] /\ billing[st] # "none"
        BY <1>t, <1>o, <2>1, ChargeIs
      <3>2. /\ billing' = [billing EXCEPT ![st] = "live"]
            /\ paidUntil' = [paidUntil EXCEPT ![st] = until]
            /\ sent' = [sent EXCEPT ![st] = sent[st] + 1] /\ sent[st] + 1 \in Nat
            /\ Publish(key, st, until)
        BY <1>t, <3>1, ChargeMoves
      <3>3. QED
        BY <3>1, <3>2
    <2>2. CASE PayOnce(st)
      <3>1. Never \in Days /\ Never >= 0 /\ 1 \in Nat
        BY LiveEnrollmentsAssumption DEF Days, Never
      <3>2. paidUntil[st] = 0 /\ billing[st] = "open"
        BY <1>o, <2>2 DEF PayOnce
      <3>3. /\ billing' = [billing EXCEPT ![st] = "live"] /\ sent' = [sent EXCEPT ![st] = 1]
            /\ paidUntil' = [paidUntil EXCEPT ![st] = Never]
            /\ Publish("completed", st, Never)
        BY <2>2 DEF PayOnce
      <3>4. QED
        BY <3>1, <3>2, <3>3
    <2>3. CASE GiveUp(st)
      <3>1. paidUntil' = [paidUntil EXCEPT ![st] = paidUntil[st]] /\ paidUntil[st] \in Days
        BY <1>t, <2>3 DEF GiveUp, TypeOK
      <3>2. paidUntil[st] >= paidUntil[st] /\ sent[st] + 1 \in Nat
        BY <1>t, <3>1, LiveEnrollmentsAssumption DEF TypeOK, Days, Never
      <3>3. QED
        BY <2>3, <3>1, <3>2 DEF GiveUp
    <2>4. QED
      BY <2>1, <2>2, <2>3
  <1>h. happened' \in [Students -> SUBSET Mishaps]
    <2>1. {"renewal_only", "first_again"} \subseteq Mishaps
      BY DEF Mishaps
    <2>2. \/ happened' = happened \/ Note(st, "renewal_only") \/ Note(st, "first_again")
      BY DEF PayOnce, FirstCharge, Renew, GiveUp
    <2>3. happened \in [Students -> SUBSET Mishaps]
      BY <1>t DEF TypeOK
    <2>4. QED
      BY <1>t, <2>1, <2>2, <2>3, Noted
  <1>3. TypeOK'
    <2>1. queue' \subseteq Event
      <3>1. sent'[st] \in Nat
        BY <1>t, <1>2 DEF TypeOK
      <3>2. [key |-> key, student |-> st, until |-> until, n |-> sent'[st]] \in Event
        BY <1>2, <3>1 DEF Event
      <3>3. QED
        BY <1>t, <1>2, <3>2 DEF TypeOK, Publish
    <2>2. QED
      BY <1>t, <1>1, <1>2, <1>h, <2>1 DEF TypeOK
  <1>4. \A x \in Students : paidUntil'[x] >= paidUntil[x] /\ paidUntil[x] \in Int /\ paidUntil'[x] \in Int
    BY <1>t, <1>2, LiveEnrollmentsAssumption DEF TypeOK, Days, Never
  <1>5. QueueBacked'
    <2>1. SUFFICES ASSUME NEW e \in queue' PROVE e.until <= paidUntil'[e.student]
      BY DEF QueueBacked
    <2>2. CASE e \in queue
      <3>1. e.student \in Students /\ e.until \in Int
        BY <1>t, <2>2 DEF TypeOK, Event, Days, Never
      <3>2. e.until <= paidUntil[e.student]
        BY <2>2 DEF IInv, QueueBacked
      <3>3. QED
        BY <1>4, <3>1, <3>2
    <2>3. CASE e \notin queue
      <3>1. e.until = until /\ e.student = st
        BY <1>2, <2>1, <2>3 DEF Publish
      <3>2. until \in Int /\ paidUntil'[st] = until
        BY <1>t, <1>2 DEF TypeOK, Days, Never
      <3>3. QED
        BY <3>1, <3>2
    <2>4. QED
      BY <2>2, <2>3
  <1>6. ActiveBacked'
    <2>1. \A x \in Students : accessUntil[x] \in Int
      BY <1>t DEF TypeOK, Days, Never
    <2>2. QED
      BY <1>1, <1>4, <2>1 DEF IInv, ActiveBacked
  <1>7. \A x \in Students : /\ billing[x] = "none" => billing'[x] = "none"
                            /\ billing'[x] \in {"none", "open"} =>
                                 billing[x] \in {"none", "open"} /\ paidUntil'[x] = paidUntil[x]
    BY <1>t, <1>2 DEF TypeOK
  <1>8. QED
    BY <1>1, <1>3, <1>5, <1>6, <1>7, OutsideStep

\* An event is handled, handled again later, or dropped.
LEMMA EventStep ==
  ASSUME IInv, NEW e \in queue, Deliver(e) \/ Drop(e)
  PROVE  IInv'
  <1>t. TypeOK
    BY DEF IInv
  <1>1. UNCHANGED <<invitation, call, billing, paidUntil, sent, class, day>>
    BY DEF Deliver, Drop, payer
  <1>2. queue' \subseteq queue /\ faults' \in Nat /\ happened' \in [Students -> SUBSET Mishaps]
    <2>1. queue' \subseteq queue /\ faults' \in Nat
      BY <1>t DEF Deliver, Drop, Ack, TypeOK
    <2>2. e.student \in Students /\ {"overtaken", "dropped"} \subseteq Mishaps
      BY <1>t DEF TypeOK, Event, Mishaps
    <2>3. happened' = happened \/ Note(e.student, "overtaken") \/ Note(e.student, "dropped")
      BY DEF Deliver, Drop
    <2>4. happened \in [Students -> SUBSET Mishaps]
      BY <1>t DEF TypeOK
    <2>5. QED
      BY <1>t, <2>1, <2>2, <2>3, <2>4, Noted
  <1>3. e.student \in Students /\ e.until \in Days /\ e.until <= paidUntil[e.student]
    BY <1>t DEF IInv, QueueBacked, TypeOK, Event
  <1>4. /\ status' \in [Students -> Statuses]
        /\ accessUntil' \in [Students -> Days]
        /\ linked' \in [Students -> BOOLEAN]
        /\ \A x \in Students : status[x] # "none" => status'[x] # "none"
        /\ \A x \in Students : status'[x] = "ACTIVE" =>
             \/ status[x] = "ACTIVE" /\ accessUntil'[x] = accessUntil[x]
             \/ x = e.student /\ accessUntil'[x] = e.until
    <2>1. CASE Drop(e)
      BY <1>t, <2>1 DEF Drop, row, TypeOK
    <2>2. CASE Activate(e)
      <3>1. CASE status[e.student] = "PENDING_PAYMENT"
        <4>1. /\ status' = [status EXCEPT ![e.student] = "ACTIVE"]
              /\ accessUntil' = [accessUntil EXCEPT ![e.student] = e.until]
              /\ linked' = [linked EXCEPT ![e.student] = e.key = "created"]
          BY <2>2, <3>1 DEF Activate, PeriodEnd
        <4>2. (e.key = "created") \in BOOLEAN /\ "ACTIVE" \in Statuses
          BY DEF Statuses
        <4>3. linked' \in [Students -> BOOLEAN]
          BY <1>t, <4>1, <4>2 DEF TypeOK
        <4>4. status' \in [Students -> Statuses] /\ accessUntil' \in [Students -> Days]
          BY <1>t, <1>3, <4>1, <4>2 DEF TypeOK
        <4>5. QED
          BY <1>t, <1>3, <4>1, <4>3, <4>4 DEF TypeOK
      <3>2. CASE status[e.student] # "PENDING_PAYMENT"
        BY <1>t, <2>2, <3>2 DEF Activate, row, TypeOK
      <3>3. QED
        BY <3>1, <3>2
    <2>3. CASE Extend(e)
      BY <1>t, <1>3, <2>3 DEF Extend, TypeOK, Seated
    <2>4. CASE Expire(e)
      BY <1>t, <1>3, <2>4 DEF Expire, TypeOK, Statuses
    <2>5. QED
      BY <2>1, <2>2, <2>3, <2>4 DEF Deliver
  <1>5. TypeOK'
    BY <1>t, <1>1, <1>2, <1>4 DEF TypeOK
  <1>6. QueueBacked'
    BY <1>1, <1>2 DEF IInv, QueueBacked
  <1>7. ActiveBacked'
    BY <1>1, <1>3, <1>4 DEF IInv, ActiveBacked
  <1>8. QED
    BY <1>1, <1>4, <1>5, <1>6, <1>7, OutsideStep

\* The cron, the end of the class, an invitation, and the passing of a day.
LEMMA OtherStep ==
  ASSUME IInv,
         \/ ExpireLapsedEnrollments \/ EndClass \/ Tick \/ UNCHANGED vars
         \/ \E st \in Students : Invite(st)
  PROVE  IInv'
  <1>t. TypeOK
    BY DEF IInv
  <1>1. CASE ExpireLapsedEnrollments
    <2>1. UNCHANGED <<accessUntil, linked, invitation, call, billing, paidUntil, sent, queue,
                      class, day, faults, happened>>
      BY <1>1 DEF ExpireLapsedEnrollments, payer
    <2>2. \A x \in Students : /\ status'[x] = status[x] \/ status'[x] = "EXPIRED"
                              /\ status[x] # "none" => status'[x] # "none"
      BY <1>1 DEF ExpireLapsedEnrollments, Lapsed
    <2>3. status' \in [Students -> Statuses]
      BY <1>t, <1>1 DEF ExpireLapsedEnrollments, TypeOK, Statuses
    <2>4. TypeOK'
      BY <1>t, <2>1, <2>3 DEF TypeOK
    <2>5. QueueBacked' /\ ActiveBacked'
      BY <2>1, <2>2 DEF IInv, QueueBacked, ActiveBacked
    <2>6. QED
      BY <2>1, <2>2, <2>4, <2>5, OutsideStep
  <1>2. CASE EndClass \/ Tick \/ UNCHANGED vars
    <2>1. UNCHANGED <<status, accessUntil, linked, invitation, call, billing, paidUntil, sent,
                      queue, faults, happened>>
      BY <1>2 DEF EndClass, Tick, vars, row, payer
    <2>2. day' \in 1..MaxDay
      BY <1>t, <1>2, LiveEnrollmentsAssumption DEF EndClass, Tick, vars, TypeOK
    <2>c. /\ class' \in [payment : {"FREE", "ONE_TIME", "RECURRING"},
                          access : {"OPEN", "INVITE_ONLY"}, ended : BOOLEAN]
          /\ class'.payment = class.payment
      BY <1>t, <1>2 DEF EndClass, Tick, vars, TypeOK
    <2>3. TypeOK' /\ QueueBacked' /\ ActiveBacked'
      BY <1>t, <2>1, <2>2, <2>c DEF IInv, TypeOK, QueueBacked, ActiveBacked
    <2>4. QED
      BY <2>1, <2>3, OutsideStep
  <1>3. ASSUME NEW st \in Students, Invite(st)
        PROVE  IInv'
    <2>1. UNCHANGED <<status, accessUntil, linked, call, billing, paidUntil, sent, queue,
                      class, day, faults, happened>>
      BY <1>3 DEF Invite, row, payer
    <2>2. /\ invitation' \in [Students -> {"none", "pending", "accepted"}]
          /\ \A x \in Students : invitation'[x] = "accepted" => invitation[x] = "accepted"
      BY <1>t, <1>3 DEF Invite, TypeOK
    <2>3. TypeOK' /\ InvitationsHonoured'
      BY <1>t, <2>1, <2>2 DEF IInv, TypeOK, InvitationsHonoured
    <2>4. OneStudent' /\ BilledOnce' /\ QueueBacked' /\ ActiveBacked' /\ AcceptsEnrolled'
      BY <2>1 DEF IInv, OneStudent, BilledOnce, QueueBacked, ActiveBacked, AcceptsEnrolled, At
    <2>5. QED
      BY <2>3, <2>4 DEF IInv
  <1>4. QED
    BY <1>1, <1>2, <1>3

LEMMA Stepwise == IInv /\ [Next]_vars => IInv'
  <1> SUFFICES ASSUME IInv, [Next]_vars PROVE IInv'
    OBVIOUS
  <1>1. ASSUME NEW c \in Calls,
               \/ \E st \in Students : Enroll(c, st) \/ Cancel(c, st)
               \/ CountSeats(c) \/ Insert(c) \/ Bill(c) \/ Accept(c)
               \/ CancelBilling(c) \/ CancelRow(c) \/ RequestFails(c)
        PROVE  IInv'
    BY <1>1, RequestStep, InsertStep, BillStep, CancelStep
  <1>2. ASSUME NEW st \in Students, Invite(st) \/ PayOnce(st) \/ FirstCharge(st) \/ Renew(st) \/ GiveUp(st)
        PROVE  IInv'
    BY <1>2, BillingStep, OtherStep
  <1>3. ASSUME NEW e \in queue, Deliver(e) \/ Drop(e)
        PROVE  IInv'
    BY <1>3, EventStep
  <1>4. CASE ExpireLapsedEnrollments \/ EndClass \/ Tick \/ UNCHANGED vars
    BY <1>4, OtherStep
  <1>5. QED
    BY <1>1, <1>2, <1>3, <1>4 DEF Next

-----------------------------------------------------------------------------
(* The theorems. *)

\* The invariant is inductive.
THEOREM Inductive == Spec => []IInv
  BY Initially, Stepwise, PTL DEF Spec

\* Documents, requests and events keep their types.
THEOREM TypeCorrect == Spec => []TypeOK
  <1>1. IInv => TypeOK
    BY DEF IInv
  <1>2. QED
    BY <1>1, Inductive, PTL

\* Nobody has access to a paid class for longer than was paid, whatever the order in
\* which the billing events are handled, and however often.
THEOREM AccessWasPaid == Spec => []AccessIsPaid
  <1>1. IInv => AccessIsPaid
    BY DEF IInv, ActiveBacked, AccessIsPaid, HasAccess
  <1>2. QED
    BY <1>1, Inductive, PTL

\* A request that fails on the way never uses up its invitation.
THEOREM InvitationsKept == Spec => []InvitationsHonoured
  <1>1. IInv => InvitationsHonoured
    BY DEF IInv
  <1>2. QED
    BY <1>1, Inductive, PTL

\* A late billing event never revives a cancelled enrollment.
THEOREM CancelledForGood == Spec => CancelledStays
  <1> DEFINE Stays == \A st \in Students :
               status[st] = "CANCELLED" => status'[st] \in {"CANCELLED", "EXPIRED"}
  <1>1. IInv /\ [Next]_vars => [Stays]_vars
    <2> SUFFICES ASSUME IInv, Next, NEW st \in Students, status[st] = "CANCELLED"
                 PROVE  status'[st] \in {"CANCELLED", "EXPIRED"}
      OBVIOUS
    <2>t. status \in [Students -> Statuses]
      BY DEF IInv, TypeOK
    <2>1. ASSUME NEW c \in Calls,
                 \/ \E x \in Students : Enroll(c, x) \/ Cancel(c, x)
                 \/ CountSeats(c) \/ Bill(c) \/ Accept(c)
                 \/ CancelBilling(c) \/ RequestFails(c)
          PROVE  status' = status
      BY <2>1 DEF Enroll, Cancel, CountSeats, Bill, Accept, CancelBilling, RequestFails, row
    <2>2. ASSUME NEW c \in Calls, Insert(c) \/ CancelRow(c)
          PROVE  status'[st] = "CANCELLED"
      BY <2>t, <2>2 DEF Insert, CancelRow, row
    <2>3. ASSUME NEW x \in Students, Invite(x) \/ PayOnce(x) \/ FirstCharge(x) \/ Renew(x) \/ GiveUp(x)
          PROVE  status' = status
      BY <2>3 DEF Invite, PayOnce, FirstCharge, Charged, Renew, GiveUp, row
    <2>4. ASSUME NEW e \in queue, Deliver(e) \/ Drop(e)
          PROVE  status'[st] \in {"CANCELLED", "EXPIRED"}
      BY <2>t, <2>4 DEF Deliver, Drop, Activate, Extend, Expire, row
    <2>5. ASSUME ExpireLapsedEnrollments \/ EndClass \/ Tick
          PROVE  status'[st] \in {"CANCELLED", "EXPIRED"}
      BY <2>5 DEF ExpireLapsedEnrollments, EndClass, Tick, row
    <2>6. QED
      BY <2>1, <2>2, <2>3, <2>4, <2>5 DEF Next
  <1>2. QED
    BY <1>1, Inductive, PTL DEF Spec, CancelledStays

-----------------------------------------------------------------------------
(* Seats.  A request counts the seats and inserts two steps later, so each  *)
(* of the others in flight may have been told of the same free seat.        *)

Inserting == {c \in Calls : At(c, "insert")}

\* The seats taken and those about to be are fewer than the seats and the requests.
Overrun == Cardinality(Taken) + Cardinality(Inserting) <= Capacity + Cardinality(Calls) - 1

\* The class is overbooked by fewer than the requests that are in flight together.
SeatsNearlyFit == Cardinality(Taken) <= Capacity + Cardinality(Calls) - 1

LEMMA SeatsFinite ==
  /\ IsFiniteSet(Taken) /\ Cardinality(Taken) \in Nat
  /\ IsFiniteSet(Inserting) /\ Cardinality(Inserting) \in Nat
  /\ Cardinality(Inserting) <= Cardinality(Calls) /\ Cardinality(Calls) \in Nat
  <1>1. Taken \subseteq Students /\ Inserting \subseteq Calls
    BY DEF Taken, Inserting
  <1>2. IsFiniteSet(Students) /\ IsFiniteSet(Calls)
    BY LiveEnrollmentsAssumption
  <1>3. QED
    BY <1>1, <1>2, FS_Subset, FS_CardinalityType

\* A step that gives no seat away and lets no request insert.
LEMMA NoSeatGiven ==
  ASSUME Overrun, Taken' \subseteq Taken, Inserting' \subseteq Inserting
  PROVE  Overrun'
  <1>1. Cardinality(Taken') <= Cardinality(Taken) /\ Cardinality(Taken') \in Nat
    BY SeatsFinite, FS_Subset, FS_CardinalityType, Zenon
  <1>2. Cardinality(Inserting') <= Cardinality(Inserting) /\ Cardinality(Inserting') \in Nat
    BY SeatsFinite, FS_Subset, FS_CardinalityType, Zenon
  <1>3. QED
    BY <1>1, <1>2, SeatsFinite, LiveEnrollmentsAssumption DEF Overrun

\* A request that moves on inserts only if it is told to.
LEMMA MoveInserts ==
  ASSUME TypeOK, NEW c \in Calls, NEW r, call' = [call EXCEPT ![c] = r]
  PROVE  /\ r.pc # "insert" => Inserting' = Inserting \ {c}
         /\ Inserting' \subseteq Inserting \cup {c}
  <1>1. \A d \in Calls : call'[d] = IF d = c THEN r ELSE call[d]
    BY DEF TypeOK
  <1>2. QED
    BY <1>1 DEF Inserting, At

\* Only insertOne() takes a seat: an event activates the document that holds it.
LEMMA StatusSeats ==
  ASSUME TypeOK, \A st \in Students : status'[st] \in Seated => status[st] \in Seated
  PROVE  Taken' \subseteq Taken
  BY DEF Taken

LEMMA OverrunKept ==
  ASSUME IInv, Overrun, [Next]_vars
  PROVE  Overrun'
  <1>t. TypeOK
    BY DEF IInv
  <1>1. ASSUME NEW c \in Calls, CountSeats(c)
        PROVE  Overrun'
    <2>1. status' = status
      BY <1>1 DEF CountSeats, row
    <2>2. Taken' = Taken
      BY <2>1 DEF Taken
    <2>3. CASE Cardinality(Taken) >= Capacity
      <3>1. PICK r \in Call : call' = [call EXCEPT ![c] = r] /\ r.pc = "idle" /\ r.student = {}
        BY <1>1, <2>3, ReturnMoves DEF CountSeats
      <3>2. Inserting' = Inserting \ {c}
        BY <1>t, <3>1, MoveInserts
      <3>3. QED
        BY <2>2, <3>2, NoSeatGiven
    <2>4. CASE ~(Cardinality(Taken) >= Capacity)
      <3>1. Cardinality(Inserting') <= Cardinality(Calls) /\ Cardinality(Inserting') \in Nat
        <4>1. Inserting' \subseteq Calls
          BY DEF Inserting
        <4>2. IsFiniteSet(Calls)
          BY LiveEnrollmentsAssumption
        <4>3. QED
          BY <4>1, <4>2, FS_Subset, FS_CardinalityType, Zenon
      <3>2. Cardinality(Taken') = Cardinality(Taken)
        BY <2>2
      <3>3. QED
        BY <2>4, <3>1, <3>2, SeatsFinite, LiveEnrollmentsAssumption DEF Overrun
    <2>5. QED
      BY <2>3, <2>4
  <1>2. ASSUME NEW c \in Calls, Insert(c)
        PROVE  Overrun'
    <2>1. c \in Inserting /\ call[c].student \subseteq Students
      BY <1>2, <1>t DEF Insert, Inserting, TypeOK, Call
    <2>2. PICK st \in call[c].student :
            \/ status[st] # "none" /\ Return(c) /\ UNCHANGED row
            \/ /\ status' = [status EXCEPT ![st] =
                    IF class.payment = "FREE" THEN "ACTIVE" ELSE "PENDING_PAYMENT"]
               /\ IF class.payment = "FREE" THEN Enrolled(c) ELSE Goto(c, "bill")
      BY <1>2 DEF Insert
    <2>3. PICK r \in Call : call' = [call EXCEPT ![c] = r] /\ r.pc # "insert"
      <3>1. "bill" \in Steps
        BY DEF Steps
      <3>2. QED
        BY <1>t, <2>2, <3>1, EnrolledMoves, GotoMoves, ReturnMoves
    <2>4. Inserting' = Inserting \ {c}
      BY <1>t, <2>3, MoveInserts
    <2>5. Taken' \subseteq Taken \cup {st}
      <3>1. \A x \in Students : x # st => status'[x] = status[x]
        BY <1>t, <2>1, <2>2 DEF TypeOK, row
      <3>2. QED
        BY <3>1 DEF Taken
    <2>6. Cardinality(Inserting') = Cardinality(Inserting) - 1
      BY <2>1, <2>4, SeatsFinite, FS_RemoveElement
    <2>7. Cardinality(Taken') <= Cardinality(Taken) + 1 /\ Cardinality(Taken') \in Nat
      <3>1. /\ IsFiniteSet(Taken \cup {st})
            /\ Cardinality(Taken \cup {st}) =
                 IF st \in Taken THEN Cardinality(Taken) ELSE Cardinality(Taken) + 1
        BY SeatsFinite, FS_AddElement, Zenon
      <3>2. Cardinality(Taken') <= Cardinality(Taken \cup {st}) /\ Cardinality(Taken') \in Nat
        BY <2>5, <3>1, FS_Subset, FS_CardinalityType, Zenon
      <3>3. QED
        BY <3>1, <3>2, SeatsFinite
    <2>8. QED
      BY <2>6, <2>7, SeatsFinite, LiveEnrollmentsAssumption DEF Overrun
  <1>3. ASSUME NEW c \in Calls,
               \/ \E st \in Students : Enroll(c, st) \/ Cancel(c, st)
               \/ Bill(c) \/ Accept(c) \/ CancelBilling(c) \/ CancelRow(c) \/ RequestFails(c)
        PROVE  Overrun'
    <2>1. Taken' \subseteq Taken
      <3>1. \A st \in Students : status'[st] \in Seated => status[st] \in Seated
        BY <1>3, <1>t DEF Enroll, Cancel, Bill, Accept, CancelBilling, CancelRow, RequestFails,
                          row, TypeOK, Seated
      <3>2. QED
        BY <1>t, <3>1, StatusSeats
    <2>2. \E r \in Call : call' = [call EXCEPT ![c] = r] /\ r.pc # "insert"
      <3>1. {"count", "accept", "cancel_billing", "cancel_row"} \subseteq Steps
        BY DEF Steps
      <3>2. ASSUME NEW st \in Students, Enroll(c, st) \/ Cancel(c, st)
            PROVE  \E step \in Steps : Enter(c, step, st) /\ step # "insert"
        BY <3>1, <3>2 DEF Enroll, Cancel
      <3>3. CASE \E st \in Students : Enroll(c, st) \/ Cancel(c, st)
        BY <3>2, <3>3, EnterMoves
      <3>4. CASE Bill(c)
        BY <1>t, <3>4, EnrolledMoves DEF Bill
      <3>5. CASE Accept(c) \/ CancelBilling(c) \/ CancelRow(c) \/ RequestFails(c)
        BY <3>5, ReturnMoves DEF Accept, CancelBilling, CancelRow, RequestFails
      <3>6. QED
        BY <1>3, <3>3, <3>4, <3>5
    <2>3. Inserting' \subseteq Inserting
      BY <1>t, <2>2, MoveInserts
    <2>4. QED
      BY <2>1, <2>3, NoSeatGiven
  <1>4. ASSUME \/ \E st \in Students : Invite(st) \/ PayOnce(st) \/ FirstCharge(st) \/ Renew(st) \/ GiveUp(st)
               \/ \E e \in queue : Deliver(e) \/ Drop(e)
               \/ ExpireLapsedEnrollments \/ EndClass \/ Tick \/ UNCHANGED vars
        PROVE  Overrun'
    <2>1. call' = call
      BY <1>4 DEF Invite, PayOnce, FirstCharge, Charged, Renew, GiveUp, Deliver, Drop, ExpireLapsedEnrollments, EndClass,
                  Tick, vars
    <2>2. \A st \in Students : status'[st] \in Seated => status[st] \in Seated
      <3>1. ASSUME NEW e \in queue, Deliver(e) \/ Drop(e)
            PROVE  \A st \in Students : status'[st] \in Seated => status[st] \in Seated
        <4>1. CASE Drop(e)
          BY <4>1 DEF Drop, row
        <4>2. CASE Activate(e)
          BY <1>t, <4>2 DEF Activate, row, TypeOK, Seated
        <4>3. CASE Extend(e) \/ Expire(e)
          BY <1>t, <4>3 DEF Extend, Expire, TypeOK, Seated
        <4>4. QED
          BY <3>1, <4>1, <4>2, <4>3 DEF Deliver
      <3>2. CASE ExpireLapsedEnrollments
        BY <3>2 DEF ExpireLapsedEnrollments, Seated
      <3>3. ASSUME \/ \E st \in Students : Invite(st) \/ PayOnce(st) \/ FirstCharge(st) \/ Renew(st) \/ GiveUp(st)
                   \/ EndClass \/ Tick \/ UNCHANGED vars
            PROVE  status' = status
        BY <3>3 DEF Invite, PayOnce, FirstCharge, Charged, Renew, GiveUp, EndClass, Tick, vars, row
      <3>4. QED
        BY <1>4, <3>1, <3>2, <3>3
    <2>3. Taken' \subseteq Taken /\ Inserting' \subseteq Inserting
      BY <1>t, <2>1, <2>2, StatusSeats DEF Inserting, At
    <2>4. QED
      BY <2>3, NoSeatGiven
  <1>5. QED
    BY <1>1, <1>2, <1>3, <1>4 DEF Next

\* Whatever the number of requests in flight, the class is overbooked by less than that:
\* each of them may insert on a count it took before the others inserted.
THEOREM OverbookedByRequests == Calls # {} /\ Spec => []SeatsNearlyFit
  <1>1. Calls # {} /\ Init => Overrun
    <2>1. SUFFICES ASSUME Calls # {}, Init PROVE Overrun
      OBVIOUS
    <2>2. Taken = {} /\ Inserting = {}
      BY <2>1 DEF Init, Taken, Seated, Inserting, At, NoCall
    <2>3. Cardinality(Taken) = 0 /\ Cardinality(Inserting) = 0
      BY <2>2, FS_EmptySet
    <2>4. Cardinality(Calls) # 0
      BY <2>1, LiveEnrollmentsAssumption, FS_EmptySet
    <2>5. QED
      BY <2>3, <2>4, SeatsFinite, LiveEnrollmentsAssumption DEF Overrun
  <1>2. IInv /\ Overrun /\ [Next]_vars => Overrun'
    BY OverrunKept
  <1>3. Overrun => SeatsNearlyFit
    BY SeatsFinite, LiveEnrollmentsAssumption DEF Overrun, SeatsNearlyFit
  <1>4. QED
    BY <1>1, <1>2, <1>3, Inductive, PTL DEF Spec

-----------------------------------------------------------------------------
(* What was paid for.  The events about a student are numbered as they are  *)
(* published; as long as none overtook another the lowest goes first.       *)

About(st) == {e \in queue : e.student = st}

\* An event that carries the day up to which its student has paid by now.
Covers(e) == e.key # "expired" /\ e.until >= paidUntil[e.student]

\* Every number is given once.
EventsOf(st) ==
  /\ \A e \in About(st) : 1 <= e.n /\ e.n <= sent[st]
  /\ \A e, f \in About(st) : e.n = f.n => e = f

\* Before the first charge there is no event, and access only to a free class.
UnbilledOf(st) ==
  billing[st] \in {"none", "open"} =>
    sent[st] = 0 /\ (status[st] = "ACTIVE" => accessUntil[st] = Never)

\* Only the first event activates; one that tells what was paid comes last; and an active
\* enrollment already knows it or will hear of it from a charge.
CoveredOf(st) ==
  Informed(st) =>
    /\ \A e \in About(st) : e.key \in {"created", "completed"} => e.n = 1
    /\ \A e \in About(st) : e.key # "expired" => \E f \in About(st) : Covers(f) /\ f.n >= e.n
    /\ status[st] = "ACTIVE" => \/ accessUntil[st] >= paidUntil[st]
                                \/ \E e \in About(st) : e.key = "charged" /\ Covers(e)

CoverOf(st) == EventsOf(st) /\ UnbilledOf(st) /\ CoveredOf(st)
CoverInv == \A st \in Students : CoverOf(st)

LEMMA AboutTypes ==
  ASSUME TypeOK, NEW st \in Students
  PROVE  /\ paidUntil[st] \in Int /\ paidUntil[st] <= Never /\ sent[st] \in Nat /\ Never \in Int
         /\ \A e \in About(st) : e \in Event /\ e.n \in Nat /\ e.until \in Int /\ e.student = st
  <1>1. Days \subseteq Int /\ Never \in Int /\ \A d \in Days : d <= Never
    BY LiveEnrollmentsAssumption DEF Days, Never
  <1>2. QED
    BY <1>1 DEF TypeOK, About, Event

\* A step that neither charges the student, nor handles one of its events.
LEMMA CoverKept ==
  ASSUME TypeOK, NEW st \in Students, CoverOf(st),
         \A e : e.student = st => (e \in queue' <=> e \in queue),
         sent'[st] = sent[st], paidUntil'[st] = paidUntil[st], happened[st] \subseteq happened'[st],
         billing'[st] \in {"none", "open"} => billing[st] \in {"none", "open"},
         status'[st] = "ACTIVE" => \/ accessUntil'[st] = Never
                                   \/ status[st] = "ACTIVE" /\ accessUntil'[st] = accessUntil[st]
  PROVE  CoverOf(st)'
  <1>1. About(st)' = About(st)
    BY DEF About
  <1>2. EventsOf(st)'
    BY <1>1 DEF CoverOf, EventsOf
  <1>3. UnbilledOf(st)'
    BY DEF CoverOf, UnbilledOf
  <1>4. \A e \in About(st) : Covers(e) => Covers(e)'
    BY DEF Covers, About
  <1>5. Never >= paidUntil'[st] /\ (Informed(st)' => Informed(st))
    BY AboutTypes DEF Informed
  <1>6. CoveredOf(st)'
    BY <1>1, <1>4, <1>5 DEF CoverOf, CoveredOf
  <1>7. QED
    BY <1>2, <1>3, <1>6 DEF CoverOf

\* Before the first charge nothing is on its way.
LEMMA NothingBefore ==
  ASSUME TypeOK, NEW st \in Students, EventsOf(st), sent[st] = 0
  PROVE  About(st) = {}
  BY AboutTypes DEF EventsOf

\* The first charge, or the only one, is the last word on what was paid.
LEMMA FirstCovers ==
  ASSUME IInv, NEW st \in Students, CoverOf(st), billing[st] = "open",
         NEW key, key # "expired", NEW until, Publish(key, st, until), until \in Int, until <= Never,
         paidUntil'[st] = until, sent'[st] = 1, billing'[st] = "live",
         status' = status, accessUntil' = accessUntil
  PROVE  CoverOf(st)'
  <1>t. TypeOK
    BY DEF IInv
  <1>1. sent[st] = 0 /\ (status[st] = "ACTIVE" => accessUntil[st] = Never)
    BY DEF CoverOf, UnbilledOf
  <1>2. PICK e : /\ e = [key |-> key, student |-> st, until |-> until, n |-> sent'[st]]
                 /\ queue' = queue \cup {e}
    BY DEF Publish
  <1>3. e.n = 1 /\ e.key = key /\ e.until = until /\ e.student = st
    BY <1>2
  <1>4. About(st)' = {e}
    <2>1. About(st) = {}
      BY <1>t, <1>1, NothingBefore DEF CoverOf
    <2>2. QED
      BY <1>2, <1>3, <2>1 DEF About
  <1>5. EventsOf(st)'
    BY <1>3, <1>4 DEF EventsOf
  <1>6. UnbilledOf(st)'
    BY DEF UnbilledOf
  <1>7. Covers(e)' /\ e.n >= e.n
    BY <1>3 DEF Covers
  <1>8. status'[st] = "ACTIVE" => accessUntil'[st] >= paidUntil'[st]
    <2>1. Never \in Int
      BY <1>t, AboutTypes
    <2>2. QED
      BY <1>1, <2>1
  <1>9. CoveredOf(st)'
    BY <1>3, <1>4, <1>7, <1>8 DEF CoveredOf
  <1>10. QED
    BY <1>5, <1>6, <1>9 DEF CoverOf

LEMMA PayOnceCovers ==
  ASSUME IInv, NEW st \in Students, CoverOf(st), PayOnce(st)
  PROVE  CoverOf(st)'
  <1>t. TypeOK
    BY DEF IInv
  <1>1. Never \in Int /\ Never <= Never
    BY LiveEnrollmentsAssumption DEF Never
  <1>2. /\ billing[st] = "open" /\ Publish("completed", st, Never)
        /\ status' = status /\ accessUntil' = accessUntil
    BY DEF PayOnce, row
  <1>3. paidUntil'[st] = Never /\ sent'[st] = 1 /\ billing'[st] = "live"
    BY <1>t DEF PayOnce, TypeOK
  <1>4. QED
    BY <1>1, <1>2, <1>3, FirstCovers

\* The next event about a student gets the next number.
LEMMA NextNumber ==
  ASSUME TypeOK, NEW st \in Students, EventsOf(st), NEW e, e.student = st,
         sent'[st] = sent[st] + 1, e.n = sent[st] + 1, queue' = queue \cup {e}
  PROVE  /\ About(st)' = About(st) \cup {e} /\ EventsOf(st)'
         /\ \A f \in About(st) : e.n >= f.n
  <1>1. About(st)' = About(st) \cup {e}
    BY DEF About
  <1>2. \A f \in About(st) : f.n \in Nat /\ 1 <= f.n /\ f.n <= sent[st]
    BY AboutTypes DEF EventsOf
  <1>3. sent[st] \in Nat
    BY AboutTypes
  <1>4. \A f \in About(st) : e.n >= f.n /\ e.n # f.n
    BY <1>2, <1>3
  <1>5. EventsOf(st)'
    BY <1>1, <1>2, <1>3, <1>4 DEF EventsOf
  <1>6. QED
    BY <1>1, <1>4, <1>5

\* A charge is taken and published in one.
LEMMA ChargeCovers ==
  ASSUME IInv, NEW st \in Students, CoverOf(st), FirstCharge(st) \/ Renew(st)
  PROVE  CoverOf(st)'
  <1>t. TypeOK
    BY DEF IInv
  <1>1. PICK until \in Days, key \in {"created", "charged"} :
          /\ Charged(st, key, until) /\ until >= paidUntil[st]
          /\ \/ key = "created" /\ billing[st] = "open" /\ happened' = happened
             \/ key = "charged" /\ (happened' = happened \/ Note(st, "renewal_only"))
             \/ key = "created" /\ Note(st, "first_again")
    BY <1>t, ChargeIs DEF IInv, BilledOnce
  <1>2. /\ Publish(key, st, until) /\ status' = status /\ accessUntil' = accessUntil
        /\ billing'[st] = "live" /\ sent'[st] = sent[st] + 1 /\ paidUntil'[st] = until
    BY <1>t, <1>1, ChargeMoves DEF TypeOK
  <1>3. until \in Int /\ until <= Never
    BY LiveEnrollmentsAssumption DEF Days, Never
  <1>4. CASE billing[st] = "open"
    <2>1. sent'[st] = 1 /\ key # "expired"
      BY <1>2, <1>4 DEF CoverOf, UnbilledOf
    <2>2. QED
      BY <1>2, <1>3, <1>4, <2>1, FirstCovers
  <1>5. CASE billing[st] # "open"
    <2>1. PICK e : /\ e = [key |-> key, student |-> st, until |-> until, n |-> sent'[st]]
                   /\ queue' = queue \cup {e}
      BY <1>2 DEF Publish
    <2>2. e.student = st /\ e.key = key /\ e.n = sent[st] + 1 /\ e.until = until
      BY <1>2, <2>1
    <2>3. /\ About(st)' = About(st) \cup {e} /\ EventsOf(st)'
          /\ \A f \in About(st) : e.n >= f.n
      BY <1>t, <1>2, <2>1, <2>2, NextNumber DEF CoverOf
    <2>4. UnbilledOf(st)'
      BY <1>2 DEF UnbilledOf
    <2>5. Covers(e)' /\ e.n >= e.n
      <3>1. sent[st] + 1 \in Int
        BY <1>t, AboutTypes
      <3>2. QED
        BY <1>2, <1>3, <2>2, <3>1 DEF Covers
    <2>6. Informed(st)' => Informed(st) /\ key = "charged"
      <3>1. {"renewal_only", "first_again"} \subseteq Mishaps
        BY DEF Mishaps
      <3>2. CASE key = "created" /\ Note(st, "first_again")
        BY <1>t, <3>1, <3>2, Noted DEF Informed
      <3>3. CASE key = "charged" /\ happened' = happened
        BY <3>3 DEF Informed
      <3>4. CASE key = "charged" /\ Note(st, "renewal_only")
        BY <1>t, <3>1, <3>4, Noted DEF Informed
      <3>5. QED
        BY <1>1, <1>5, <3>2, <3>3, <3>4
    <2>7. CoveredOf(st)'
      BY <2>2, <2>3, <2>5, <2>6 DEF CoverOf, CoveredOf
    <2>8. QED
      BY <2>3, <2>4, <2>7 DEF CoverOf
  <1>6. QED
    BY <1>4, <1>5

\* Giving up changes nothing about what was paid.
LEMMA GiveUpCovers ==
  ASSUME IInv, NEW st \in Students, CoverOf(st), GiveUp(st)
  PROVE  CoverOf(st)'
  <1>t. TypeOK
    BY DEF IInv
  <1>1. /\ sent'[st] = sent[st] + 1 /\ paidUntil' = paidUntil /\ billing'[st] = "expired"
        /\ UNCHANGED <<status, accessUntil, happened>>
    BY <1>t DEF TypeOK, GiveUp, row
  <1>2. PICK e : /\ e = [key |-> "expired", student |-> st, until |-> paidUntil[st], n |-> sent'[st]]
                 /\ queue' = queue \cup {e}
    BY DEF GiveUp, Publish
  <1>3. e.student = st /\ e.key = "expired" /\ e.n = sent[st] + 1
    BY <1>1, <1>2
  <1>4. About(st)' = About(st) \cup {e} /\ EventsOf(st)'
    BY <1>t, <1>1, <1>2, <1>3, NextNumber DEF CoverOf
  <1>5. UnbilledOf(st)'
    BY <1>1 DEF UnbilledOf
  <1>6. \A f \in About(st) : Covers(f) => Covers(f)'
    BY <1>1 DEF Covers
  <1>7. CoveredOf(st)'
    BY <1>1, <1>3, <1>4, <1>6 DEF CoverOf, CoveredOf, Informed
  <1>8. QED
    BY <1>4, <1>5, <1>7 DEF CoverOf

\* An event is about a student who was charged.
LEMMA ChargedBefore ==
  ASSUME TypeOK, CoverInv, NEW e \in queue
  PROVE  /\ e.student \in Students /\ e \in About(e.student) /\ CoverOf(e.student)
         /\ billing[e.student] \notin {"none", "open"}
  <1>1. e.student \in Students /\ e \in About(e.student) /\ CoverOf(e.student)
    BY DEF TypeOK, Event, About, CoverInv
  <1>2. sent[e.student] # 0
    <2>1. 1 <= e.n /\ e.n <= sent[e.student]
      BY <1>1 DEF CoverOf, EventsOf
    <2>2. e.n \in Nat /\ sent[e.student] \in Nat
      BY <1>1, AboutTypes
    <2>3. QED
      BY <2>1, <2>2
  <1>3. QED
    BY <1>1, <1>2 DEF CoverOf, UnbilledOf

\* An event that overtakes none is its student's first.
LEMMA FirstInLine ==
  ASSUME TypeOK, CoverInv, NEW e \in queue, ~Overtakes(e)
  PROVE  \A f \in About(e.student) : f = e \/ f.n > e.n
  <1>1. /\ e.student \in Students /\ e \in About(e.student) /\ CoverOf(e.student)
    BY ChargedBefore
  <1>2. ASSUME NEW f \in About(e.student), f # e
        PROVE  f.n > e.n
    <2>1. ~(f.n < e.n)
      BY <1>2 DEF Overtakes, About
    <2>2. e.n # f.n
      BY <1>1, <1>2 DEF CoverOf, EventsOf
    <2>3. e.n \in Nat /\ f.n \in Nat
      BY <1>1, <1>2, AboutTypes
    <2>4. QED
      BY <2>1, <2>2, <2>3
  <1>3. QED
    BY <1>2

\* An event that is not the last word on what was paid is followed by a charge that is.
LEMMA ToldLater ==
  ASSUME TypeOK, CoverInv, NEW e \in queue, ~Overtakes(e), e.key # "expired",
         Informed(e.student)
  PROVE  \/ e.until >= paidUntil[e.student]
         \/ \E f \in About(e.student) : f # e /\ f.key = "charged" /\ Covers(f)
  <1>1. e.student \in Students /\ e \in About(e.student) /\ CoverOf(e.student)
    BY ChargedBefore
  <1>2. PICK f \in About(e.student) : Covers(f) /\ f.n >= e.n
    BY <1>1 DEF CoverOf, CoveredOf
  <1>3. CASE f = e
    BY <1>2, <1>3 DEF Covers
  <1>4. CASE f # e
    <2>1. f.n > e.n /\ 1 <= e.n /\ e.n \in Nat /\ f.n \in Nat
      BY <1>1, <1>4, FirstInLine, AboutTypes DEF CoverOf, EventsOf
    <2>2. f.key \notin {"created", "completed"}
      BY <1>1, <2>1 DEF CoverOf, CoveredOf
    <2>3. f.key \in {"created", "charged", "expired", "completed"}
      BY <1>1, AboutTypes DEF Event
    <2>4. QED
      BY <1>2, <1>4, <2>2, <2>3 DEF Covers
  <1>5. QED
    BY <1>3, <1>4

\* After a step on an event, what is left about its student is still numbered.
LEMMA HandledNumbered ==
  ASSUME TypeOK, CoverInv, NEW e \in queue,
         queue' = queue \/ queue' = queue \ {e}, UNCHANGED payer
  PROVE  /\ EventsOf(e.student)' /\ UnbilledOf(e.student)'
         /\ About(e.student)' \subseteq About(e.student)
         /\ \A f \in About(e.student) : f # e => f \in About(e.student)'
         /\ \A f \in About(e.student) : Covers(f) => Covers(f)'
  <1>1. e.student \in Students /\ CoverOf(e.student) /\ billing[e.student] \notin {"none", "open"}
    BY ChargedBefore
  <1>2. billing' = billing /\ paidUntil' = paidUntil /\ sent' = sent
    BY DEF payer
  <1>3. /\ About(e.student)' \subseteq About(e.student)
        /\ \A f \in About(e.student) : f # e => f \in About(e.student)'
    BY DEF About
  <1>4. EventsOf(e.student)'
    BY <1>1, <1>2, <1>3 DEF CoverOf, EventsOf
  <1>5. UnbilledOf(e.student)'
    BY <1>1, <1>2 DEF UnbilledOf
  <1>6. \A f \in About(e.student) : Covers(f) => Covers(f)'
    BY <1>2 DEF Covers
  <1>7. QED
    BY <1>3, <1>4, <1>5, <1>6

\* The update of one handler leaves the other students alone.
LEMMA HandledOthers ==
  ASSUME TypeOK, NEW e \in queue, Deliver(e), NEW st \in Students, st # e.student
  PROVE  status'[st] = status[st] /\ accessUntil'[st] = accessUntil[st]
  <1>1. CASE Activate(e)
    BY <1>1 DEF Activate, row, TypeOK
  <1>2. CASE Extend(e)
    BY <1>2 DEF Extend, TypeOK
  <1>3. CASE Expire(e)
    BY <1>3 DEF Expire, TypeOK
  <1>4. QED
    BY <1>1, <1>2, <1>3 DEF Deliver

\* What the handler of an event does to its student's coverage.
LEMMA DeliverTells ==
  ASSUME IInv, CoverInv, NEW e \in queue, Deliver(e), ~Overtakes(e), Informed(e.student)
  PROVE  /\ \A g \in About(e.student)' : g.key \in {"created", "completed"} => g.n = 1
         /\ \A g \in About(e.student)' : g.key # "expired" =>
              \E f \in About(e.student)' : Covers(f)' /\ f.n >= g.n
         /\ status'[e.student] = "ACTIVE" =>
              \/ accessUntil'[e.student] >= paidUntil'[e.student]
              \/ \E f \in About(e.student)' : f.key = "charged" /\ Covers(f)'
  <1>t. TypeOK
    BY DEF IInv
  <1> DEFINE st == e.student
  <1>1. /\ UNCHANGED payer /\ paidUntil' = paidUntil
        /\ queue' = queue \/ queue' = queue \ {e}
    BY DEF Deliver, Ack, payer
  <1>2. st \in Students /\ e \in About(st) /\ CoverOf(st)
    BY <1>t, ChargedBefore
  <1>3. \A f \in About(st) : f = e \/ f.n > e.n
    BY <1>t, FirstInLine
  <1>4. /\ About(st)' \subseteq About(st)
        /\ \A f \in About(st) : f # e => f \in About(st)'
        /\ \A f \in About(st) : Covers(f) => Covers(f)'
    BY <1>t, <1>1, HandledNumbered
  <1>5. \A g \in About(st)' : g.key \in {"created", "completed"} => g.n = 1
    BY <1>2, <1>4 DEF CoverOf, CoveredOf
  <1>6. ASSUME NEW g \in About(st)', g.key # "expired"
        PROVE  \E f \in About(st)' : Covers(f)' /\ f.n >= g.n
    <2>1. PICK f \in About(st) : Covers(f) /\ f.n >= g.n
      BY <1>2, <1>4, <1>6 DEF CoverOf, CoveredOf
    <2>2. CASE f # e \/ queue' = queue
      <3>1. f \in About(st)'
        BY <1>4, <2>1, <2>2 DEF About
      <3>2. QED
        BY <1>4, <2>1, <3>1
    <2>3. CASE f = e /\ queue' = queue \ {e}
      <3>1. g \in About(st) /\ g # e
        BY <1>4, <1>6, <2>3 DEF About
      <3>2. g.n > e.n /\ g.n \in Nat /\ e.n \in Nat
        BY <1>t, <1>2, <1>3, <3>1, AboutTypes
      <3>3. QED
        BY <2>1, <2>3, <3>2
    <2>4. QED
      BY <1>1, <2>2, <2>3
  <1>7. ASSUME status'[st] = "ACTIVE"
        PROVE  \/ accessUntil'[st] >= paidUntil'[st]
               \/ \E f \in About(st)' : f.key = "charged" /\ Covers(f)'
    <2>1. \/ status[st] = "ACTIVE" /\ accessUntil'[st] = accessUntil[st] /\ e.key # "charged"
          \/ e.key # "expired" /\ accessUntil'[st] = e.until
      <3>1. CASE Activate(e)
        BY <1>t, <1>2, <1>7, <3>1 DEF Activate, PeriodEnd, row, TypeOK
      <3>2. CASE Extend(e)
        BY <1>t, <1>2, <1>7, <3>2 DEF Extend, Seated, TypeOK
      <3>3. CASE Expire(e)
        BY <1>t, <1>2, <1>7, <3>3 DEF Expire, TypeOK
      <3>4. QED
        BY <3>1, <3>2, <3>3 DEF Deliver
    <2>2. CASE status[st] = "ACTIVE" /\ accessUntil'[st] = accessUntil[st] /\ e.key # "charged"
      <3>1. \/ accessUntil[st] >= paidUntil[st]
            \/ \E f \in About(st) : f.key = "charged" /\ Covers(f)
        BY <1>2, <2>2 DEF CoverOf, CoveredOf
      <3>2. QED
        BY <1>1, <1>4, <2>2, <3>1
    <2>3. CASE e.key # "expired" /\ accessUntil'[st] = e.until
      <3>1. \/ e.until >= paidUntil[st]
            \/ \E f \in About(st) : f # e /\ f.key = "charged" /\ Covers(f)
        BY <1>t, <2>3, ToldLater
      <3>2. QED
        BY <1>1, <1>4, <2>3, <3>1
    <2>4. QED
      BY <2>1, <2>2, <2>3
  <1>8. QED
    BY <1>5, <1>6, <1>7

LEMMA DeliverCovers ==
  ASSUME IInv, CoverInv, NEW e \in queue, Deliver(e)
  PROVE  CoverInv'
  <1>t. TypeOK
    BY DEF IInv
  <1>s. e.student \in Students /\ "overtaken" \in Mishaps
    BY <1>t DEF TypeOK, Event, Mishaps
  <1>1. /\ UNCHANGED payer
        /\ billing' = billing /\ paidUntil' = paidUntil /\ sent' = sent
        /\ queue' = queue \/ queue' = queue \ {e}
    BY DEF Deliver, Ack, payer
  <1>2. ASSUME NEW st \in Students, st # e.student
        PROVE  CoverOf(st)'
    <2>1. CoverOf(st)
      BY DEF CoverInv
    <2>2. status'[st] = status[st] /\ accessUntil'[st] = accessUntil[st]
      BY <1>t, <1>2, HandledOthers
    <2>3. \A x : x.student = st => (x \in queue' <=> x \in queue)
      BY <1>1, <1>2
    <2>4. happened[st] \subseteq happened'[st]
      <3>1. CASE Note(e.student, "overtaken")
        BY <1>t, <1>s, <3>1, Noted
      <3>2. QED
        BY <3>1 DEF Deliver
    <2>5. QED
      BY <1>t, <1>1, <2>1, <2>2, <2>3, <2>4, CoverKept
  <1>3. EventsOf(e.student)' /\ UnbilledOf(e.student)'
    BY <1>t, <1>1, HandledNumbered
  <1>4. CoveredOf(e.student)'
    <2>1. CASE Overtakes(e)
      <3>1. Note(e.student, "overtaken")
        BY <2>1 DEF Deliver
      <3>2. "overtaken" \in happened'[e.student]
        BY <1>t, <1>s, <3>1, Noted
      <3>3. QED
        BY <3>2 DEF CoveredOf, Informed
    <2>2. CASE ~Overtakes(e)
      <3>1. Informed(e.student)' => Informed(e.student)
        BY <2>2 DEF Deliver, Informed
      <3>2. QED
        BY <2>2, <3>1, DeliverTells DEF CoveredOf
    <2>3. QED
      BY <2>1, <2>2
  <1>5. QED
    BY <1>2, <1>3, <1>4 DEF CoverInv, CoverOf

LEMMA DropCovers ==
  ASSUME IInv, CoverInv, NEW e \in queue, Drop(e)
  PROVE  CoverInv'
  <1>t. TypeOK
    BY DEF IInv
  <1>s. e.student \in Students /\ "dropped" \in Mishaps
    BY <1>t DEF TypeOK, Event, Mishaps
  <1>1. /\ UNCHANGED <<payer, row>>
        /\ billing' = billing /\ paidUntil' = paidUntil /\ sent' = sent
        /\ status' = status /\ accessUntil' = accessUntil
        /\ queue' = queue \ {e}
    BY DEF Drop, payer, row
  <1>n. /\ "dropped" \in happened'[e.student]
        /\ \A x \in Students : happened[x] \subseteq happened'[x]
    BY <1>t, <1>s, Noted DEF Drop
  <1>2. ASSUME NEW st \in Students, st # e.student
        PROVE  CoverOf(st)'
    <2>1. CoverOf(st) /\ happened[st] \subseteq happened'[st]
      BY <1>n DEF CoverInv
    <2>2. \A x : x.student = st => (x \in queue' <=> x \in queue)
      BY <1>1, <1>2
    <2>3. QED
      BY <1>t, <1>1, <2>1, <2>2, CoverKept
  <1>3. EventsOf(e.student)' /\ UnbilledOf(e.student)'
    BY <1>t, <1>1, HandledNumbered
  <1>4. CoveredOf(e.student)'
    BY <1>n DEF CoveredOf, Informed
  <1>5. QED
    BY <1>2, <1>3, <1>4 DEF CoverInv, CoverOf

\* Requests bill a document that was not billed, or stop the billing of a live one; the
\* cron and a cancellation only end enrollments.
LEMMA RestCovers ==
  ASSUME IInv, CoverInv,
         \/ \E c \in Calls :
              \/ \E st \in Students : Enroll(c, st) \/ Cancel(c, st)
              \/ CountSeats(c) \/ Insert(c) \/ Bill(c) \/ Accept(c)
              \/ CancelBilling(c) \/ CancelRow(c) \/ RequestFails(c)
         \/ \E st \in Students : Invite(st)
         \/ ExpireLapsedEnrollments \/ EndClass \/ Tick \/ UNCHANGED vars
  PROVE  CoverInv'
  <1>t. TypeOK
    BY DEF IInv
  <1>1. SUFFICES ASSUME NEW st \in Students PROVE CoverOf(st)'
    BY DEF CoverInv
  <1>2. CoverOf(st)
    BY DEF CoverInv
  <1>3. queue' = queue /\ sent' = sent /\ paidUntil' = paidUntil
    BY DEF Enroll, Cancel, CountSeats, Insert, Bill, Accept, CancelBilling, CancelRow,
           RequestFails, Invite, ExpireLapsedEnrollments, EndClass, Tick, vars, payer
  <1>4. billing'[st] \in {"none", "open"} => billing[st] \in {"none", "open"}
    <2>1. ASSUME NEW c \in Calls, Bill(c)
          PROVE  billing'[st] \in {"none", "open"} => billing[st] \in {"none", "open"}
      <3>1. PICK x \in call[c].student : billing' = [billing EXCEPT ![x] = "open"]
        BY <2>1 DEF Bill
      <3>2. billing[x] = "none"
        BY <2>1 DEF Bill, IInv, BilledOnce
      <3>3. QED
        BY <1>t, <3>1, <3>2 DEF TypeOK
    <2>2. ASSUME NEW c \in Calls, CancelBilling(c)
          PROVE  billing'[st] \in {"none", "open"} => billing[st] \in {"none", "open"}
      BY <1>t, <2>2 DEF CancelBilling, TypeOK
    <2>3. ASSUME \/ \E c \in Calls :
                      \/ \E x \in Students : Enroll(c, x) \/ Cancel(c, x)
                      \/ CountSeats(c) \/ Insert(c) \/ Accept(c)
                      \/ CancelRow(c) \/ RequestFails(c)
                 \/ \E x \in Students : Invite(x)
                 \/ ExpireLapsedEnrollments \/ EndClass \/ Tick \/ UNCHANGED vars
          PROVE  billing' = billing
      BY <2>3 DEF Enroll, Cancel, CountSeats, Insert, Accept, CancelRow,
                  RequestFails, Invite, ExpireLapsedEnrollments, EndClass, Tick, vars, payer
    <2>4. QED
      BY <2>1, <2>2, <2>3
  <1>5. status'[st] = "ACTIVE" => \/ accessUntil'[st] = Never
                                  \/ status[st] = "ACTIVE" /\ accessUntil'[st] = accessUntil[st]
    <2>1. ASSUME NEW c \in Calls, Insert(c)
          PROVE  status'[st] = "ACTIVE" =>
                   \/ accessUntil'[st] = Never
                   \/ status[st] = "ACTIVE" /\ accessUntil'[st] = accessUntil[st]
      <3>1. PICK x \in call[c].student :
              \/ UNCHANGED row
              \/ /\ status' = [status EXCEPT ![x] =
                      IF class.payment = "FREE" THEN "ACTIVE" ELSE "PENDING_PAYMENT"]
                 /\ accessUntil' = [accessUntil EXCEPT ![x] =
                      IF class.payment = "FREE" THEN Never ELSE day]
        BY <2>1 DEF Insert
      <3>2. QED
        BY <1>1, <1>t, <3>1 DEF TypeOK, row
    <2>2. ASSUME NEW c \in Calls, CancelRow(c)
          PROVE  status'[st] = "ACTIVE" => status[st] = "ACTIVE" /\ accessUntil'[st] = accessUntil[st]
      BY <1>t, <2>2 DEF CancelRow, TypeOK
    <2>3. ASSUME ExpireLapsedEnrollments
          PROVE  status'[st] = "ACTIVE" => status[st] = "ACTIVE" /\ accessUntil'[st] = accessUntil[st]
      BY <2>3 DEF ExpireLapsedEnrollments
    <2>4. ASSUME \/ \E c \in Calls :
                      \/ \E x \in Students : Enroll(c, x) \/ Cancel(c, x)
                      \/ CountSeats(c) \/ Bill(c) \/ Accept(c)
                      \/ CancelBilling(c) \/ RequestFails(c)
                 \/ \E x \in Students : Invite(x)
                 \/ EndClass \/ Tick \/ UNCHANGED vars
          PROVE  status' = status /\ accessUntil' = accessUntil
      BY <2>4 DEF Enroll, Cancel, CountSeats, Bill, Accept, CancelBilling,
                  RequestFails, Invite, EndClass, Tick, vars, row
    <2>5. QED
      BY <2>1, <2>2, <2>3, <2>4
  <1>6. happened[st] \subseteq happened'[st]
    <2>1. ASSUME NEW c \in Calls, CancelRow(c)
          PROVE  happened[st] \subseteq happened'[st]
      <3>1. PICK x \in call[c].student : Note(x, "outrun") \/ happened' = happened
        BY <2>1 DEF CancelRow
      <3>2. x \in Students /\ "outrun" \in Mishaps
        BY <1>t DEF TypeOK, Call, Mishaps
      <3>3. CASE Note(x, "outrun")
        BY <1>t, <3>2, <3>3, Noted
      <3>4. QED
        BY <3>1, <3>3
    <2>2. ASSUME \/ \E c \in Calls :
                      \/ \E x \in Students : Enroll(c, x) \/ Cancel(c, x)
                      \/ CountSeats(c) \/ Insert(c) \/ Bill(c) \/ Accept(c)
                      \/ CancelBilling(c) \/ RequestFails(c)
                 \/ \E x \in Students : Invite(x)
                 \/ ExpireLapsedEnrollments \/ EndClass \/ Tick \/ UNCHANGED vars
          PROVE  happened' = happened
      BY <2>2 DEF Enroll, Cancel, CountSeats, Insert, Bill, Accept, CancelBilling,
                  RequestFails, Invite, ExpireLapsedEnrollments, EndClass, Tick, vars
    <2>3. QED
      BY <2>1, <2>2
  <1>7. QED
    BY <1>t, <1>2, <1>3, <1>4, <1>5, <1>6, CoverKept

LEMMA CoverStepwise == IInv /\ CoverInv /\ [Next]_vars => CoverInv'
  <1> SUFFICES ASSUME IInv, CoverInv, [Next]_vars PROVE CoverInv'
    OBVIOUS
  <1>t. TypeOK
    BY DEF IInv
  <1>1. ASSUME NEW st \in Students, PayOnce(st) \/ FirstCharge(st) \/ Renew(st) \/ GiveUp(st)
        PROVE  CoverInv'
    <2>1. CoverOf(st)'
      BY <1>1, PayOnceCovers, ChargeCovers, GiveUpCovers DEF CoverInv
    <2>2. ASSUME NEW x \in Students, x # st
          PROVE  CoverOf(x)'
      <3>1. /\ billing'[x] = billing[x] /\ sent'[x] = sent[x] /\ paidUntil'[x] = paidUntil[x]
            /\ status' = status /\ accessUntil' = accessUntil
        BY <1>t, <1>1, <2>2 DEF PayOnce, FirstCharge, Charged, Renew, GiveUp, row, TypeOK
      <3>2. PICK e : e.student = st /\ queue' = queue \cup {e}
        BY <1>1 DEF PayOnce, FirstCharge, Charged, Renew, GiveUp, Publish
      <3>3. \A f : f.student = x => (f \in queue' <=> f \in queue)
        BY <2>2, <3>2
      <3>4. CoverOf(x)
        BY DEF CoverInv
      <3>5. happened[x] \subseteq happened'[x]
        <4>1. {"renewal_only", "first_again"} \subseteq Mishaps
          BY DEF Mishaps
        <4>2. happened' = happened \/ Note(st, "renewal_only") \/ Note(st, "first_again")
          BY <1>1 DEF PayOnce, FirstCharge, Renew, GiveUp
        <4>3. QED
          BY <1>t, <4>1, <4>2, Noted
      <3>6. QED
        BY <1>t, <3>1, <3>3, <3>4, <3>5, CoverKept
    <2>3. QED
      BY <2>1, <2>2 DEF CoverInv
  <1>2. ASSUME NEW e \in queue, Deliver(e) \/ Drop(e)
        PROVE  CoverInv'
    BY <1>2, DeliverCovers, DropCovers
  <1>3. QED
    BY <1>1, <1>2, RestCovers DEF Next

LEMMA CoverInitially == Init => CoverInv
  <1> SUFFICES ASSUME Init, NEW st \in Students PROVE CoverOf(st)
    BY DEF CoverInv
  <1>1. About(st) = {} /\ sent[st] = 0 /\ status[st] = "none"
    BY DEF Init, About
  <1>2. QED
    BY <1>1 DEF CoverOf, EventsOf, UnbilledOf, CoveredOf

\* An enrollment that is active while nothing about it is on its way.
ActiveCovers ==
  \A st \in Students :
    Quiet(st) /\ Informed(st) /\ status[st] = "ACTIVE" => accessUntil[st] >= paidUntil[st]

\* Whatever was on its way at once, and however often it was handled, an active enrollment
\* whose student was informed lasts as long as was paid.
THEOREM ActiveAsPaid == Spec => []ActiveCovers
  <1>1. Init => IInv /\ CoverInv
    BY Initially, CoverInitially
  <1>2. IInv /\ CoverInv /\ [Next]_vars => IInv' /\ CoverInv'
    BY Stepwise, CoverStepwise
  <1>3. CoverInv => ActiveCovers
    BY DEF CoverInv, CoverOf, CoveredOf, ActiveCovers, Quiet, About
  <1>4. QED
    BY <1>1, <1>2, <1>3, PTL DEF Spec

-----------------------------------------------------------------------------
(* Cancelling.  cancel() decides between the subscription and the document  *)
(* by what it read.  A document that got its subscription keeps it, so the  *)
(* one that read it decides rightly however long it takes; the other is     *)
(* noted when it writes.                                                    *)

\* Only an activated enrollment has a subscription, and only then can it be cancelled.
CancelOf(st) ==
  /\ status[st] \in {"none", "PENDING_PAYMENT"} => ~linked[st]
  /\ linked[st] => status[st] \in {"ACTIVE", "EXPIRED"} \/ "outrun" \in happened[st]
  /\ billing[st] = "cancelled" => linked[st]

\* The subscription that cancel() read is still there when it acts.
CancelCall(c) == At(c, "cancel_billing") => \A st \in call[c].student : linked[st]

CancelInv == (\A st \in Students : CancelOf(st)) /\ (\A c \in Calls : CancelCall(c))

\* What the steps do to a document: they never take its subscription, and end it with a
\* note if it has one.
Linkwise(st) ==
  /\ linked[st] => linked'[st]
  /\ linked'[st] /\ ~linked[st] => status'[st] = "ACTIVE"
  /\ status'[st] = "PENDING_PAYMENT" => status[st] \in {"PENDING_PAYMENT", "none"} /\ linked'[st] = linked[st]
  /\ status'[st] = "none" => status[st] = "none" /\ linked'[st] = linked[st]
  /\ linked[st] => \/ status'[st] = status[st] \/ status'[st] \in {"ACTIVE", "EXPIRED"}
                   \/ "outrun" \in happened'[st]
  /\ happened[st] \subseteq happened'[st]
  /\ billing'[st] = "cancelled" => billing[st] = "cancelled" \/ linked[st]

\* A request that moves, but not to the cancellation of a subscription it has not read.
LEMMA CancelKept ==
  ASSUME TypeOK, CancelInv, \A st \in Students : Linkwise(st),
         \/ call' = call
         \/ \E c \in Calls, r \in Call :
              /\ call' = [call EXCEPT ![c] = r]
              /\ r.pc = "cancel_billing" => \A st \in r.student : linked[st]
  PROVE  CancelInv'
  <1>1. ASSUME NEW st \in Students
        PROVE  CancelOf(st)'
    <2>1. CancelOf(st) /\ Linkwise(st)
      BY DEF CancelInv
    <2>2. QED
      BY <2>1 DEF CancelOf, Linkwise
  <1>2. ASSUME NEW d \in Calls
        PROVE  CancelCall(d)'
    <2>1. CancelCall(d) /\ call[d].student \subseteq Students
      BY DEF CancelInv, TypeOK, Call
    <2>2. CASE call'[d] = call[d]
      BY <2>1, <2>2 DEF CancelCall, Linkwise, At
    <2>3. CASE call'[d] # call[d]
      <3>1. PICK r \in Call : /\ call'[d] = r
                              /\ r.pc = "cancel_billing" => \A st \in r.student : linked[st]
        BY <2>3 DEF TypeOK
      <3>2. r.student \subseteq Students
        BY DEF Call
      <3>3. QED
        BY <3>1, <3>2 DEF CancelCall, Linkwise, At
    <2>4. QED
      BY <2>2, <2>3
  <1>3. QED
    BY <1>1, <1>2 DEF CancelInv

\* A step that changes no document, and no billing to cancelled.
LEMMA LinkSame ==
  ASSUME NEW st \in Students, status'[st] = status[st], linked'[st] = linked[st],
         happened[st] \subseteq happened'[st],
         billing'[st] = "cancelled" => billing[st] = "cancelled" \/ linked[st]
  PROVE  Linkwise(st)
  BY DEF Linkwise

\* enroll(), invitations, and a request that fails change no subscription.
LEMMA CancelEnroll ==
  ASSUME IInv, CancelInv, NEW c \in Calls,
         \/ \E st \in Students : Enroll(c, st)
         \/ CountSeats(c) \/ Insert(c) \/ Bill(c) \/ Accept(c) \/ RequestFails(c)
  PROVE  CancelInv'
  <1>t. TypeOK
    BY DEF IInv
  <1>1. \E r \in Call : call' = [call EXCEPT ![c] = r] /\ r.pc # "cancel_billing"
    <2>1. {"count", "accept", "insert", "bill"} \subseteq Steps
      BY DEF Steps
    <2>2. ASSUME NEW st \in Students, Enroll(c, st)
          PROVE  \E step \in Steps : Enter(c, step, st) /\ step # "cancel_billing"
      BY <2>1, <2>2 DEF Enroll
    <2>3. CASE \E st \in Students : Enroll(c, st)
      BY <2>2, <2>3, EnterMoves
    <2>4. CASE CountSeats(c)
      BY <1>t, <2>1, <2>4, ReturnMoves, GotoMoves DEF CountSeats
    <2>5. CASE Insert(c)
      BY <1>t, <2>1, <2>5, ReturnMoves, EnrolledMoves, GotoMoves DEF Insert
    <2>6. CASE Bill(c)
      BY <1>t, <2>6, EnrolledMoves DEF Bill
    <2>7. CASE Accept(c) \/ RequestFails(c)
      BY <2>7, ReturnMoves DEF Accept, RequestFails
    <2>8. QED
      BY <1>1, <2>3, <2>4, <2>5, <2>6, <2>7
  <1>2. linked' = linked /\ happened' = happened
    BY DEF Enroll, CountSeats, Insert, Bill, Accept, RequestFails, row
  <1>3. ASSUME NEW st \in Students
        PROVE  Linkwise(st)
    <2>1. billing'[st] = "cancelled" => billing[st] = "cancelled"
      BY <1>t DEF Enroll, CountSeats, Insert, Bill, Accept, RequestFails, payer, TypeOK
    <2>2. CASE status'[st] = status[st]
      BY <1>2, <2>1, <2>2, LinkSame
    <2>3. CASE status'[st] # status[st]
      <3>1. status[st] = "none" /\ status'[st] \in {"ACTIVE", "PENDING_PAYMENT"}
        BY <1>t, <2>3 DEF Enroll, CountSeats, Insert, Bill, Accept, RequestFails, row, TypeOK
      <3>2. ~linked[st]
        BY <3>1 DEF CancelInv, CancelOf
      <3>3. QED
        BY <1>2, <2>1, <3>1, <3>2 DEF Linkwise
    <2>4. QED
      BY <2>2, <2>3
  <1>4. QED
    BY <1>t, <1>1, <1>3, CancelKept

\* cancel() itself.
LEMMA CancelRequest ==
  ASSUME IInv, CancelInv, NEW c \in Calls,
         \/ \E st \in Students : Cancel(c, st)
         \/ CancelBilling(c) \/ CancelRow(c)
  PROVE  CancelInv'
  <1>t. TypeOK
    BY DEF IInv
  <1>1. ASSUME NEW st \in Students, Cancel(c, st)
        PROVE  CancelInv'
    <2> DEFINE step == IF linked[st] THEN "cancel_billing" ELSE "cancel_row"
    <2>1. /\ status' = status /\ linked' = linked /\ billing' = billing /\ happened' = happened
          /\ Enter(c, step, st)
      BY <1>1 DEF Cancel, row, payer
    <2>2. PICK r \in Call : call' = [call EXCEPT ![c] = r] /\ r.pc = step /\ r.student = {st}
      <3>1. step \in Steps
        BY DEF Steps
      <3>2. QED
        BY <2>1, <3>1, EnterMoves
    <2>3. r.pc = "cancel_billing" => \A x \in r.student : linked[x]
      BY <2>2
    <2>4. \A x \in Students : Linkwise(x)
      BY <2>1, LinkSame
    <2>5. QED
      BY <1>t, <2>2, <2>3, <2>4, CancelKept
  <1>2. ASSUME CancelBilling(c) \/ CancelRow(c)
        PROVE  CancelInv'
    <2>1. PICK r \in Call : call' = [call EXCEPT ![c] = r] /\ r.pc = "idle"
      BY <1>2, ReturnMoves DEF CancelBilling, CancelRow
    <2>2. \A x \in call[c].student : x \in Students
      BY <1>t DEF TypeOK, Call
    <2>3. CASE CancelBilling(c)
      <3>1. PICK st \in call[c].student :
              billing' = [billing EXCEPT ![st] = IF @ = "live" THEN "cancelled" ELSE @]
        BY <2>3 DEF CancelBilling
      <3>2. status' = status /\ linked' = linked /\ happened' = happened
        BY <2>3 DEF CancelBilling, row
      <3>3. linked[st]
        BY <2>3 DEF CancelBilling, CancelInv, CancelCall
      <3>4. \A x \in Students : billing'[x] = "cancelled" => billing[x] = "cancelled" \/ linked[x]
        BY <1>t, <3>1, <3>3 DEF TypeOK
      <3>5. \A x \in Students : Linkwise(x)
        BY <3>2, <3>4, LinkSame
      <3>6. QED
        BY <1>t, <2>1, <3>5, CancelKept
    <2>4. CASE CancelRow(c)
      <3>1. PICK st \in call[c].student :
              /\ status' = [status EXCEPT ![st] = "CANCELLED"]
              /\ IF linked[st] THEN Note(st, "outrun") ELSE UNCHANGED happened
        BY <2>4 DEF CancelRow
      <3>2. linked' = linked /\ billing' = billing /\ st \in Students /\ "outrun" \in Mishaps
        BY <2>2, <2>4 DEF CancelRow, payer, Mishaps
      <3>3. /\ \A x \in Students : happened[x] \subseteq happened'[x]
            /\ linked[st] => "outrun" \in happened'[st]
        BY <1>t, <3>1, <3>2, Noted
      <3>4. ASSUME NEW x \in Students
            PROVE  Linkwise(x)
        <4>1. status'[x] = IF x = st THEN "CANCELLED" ELSE status[x]
          BY <1>t, <3>1, <3>2 DEF TypeOK
        <4>2. QED
          BY <3>2, <3>3, <4>1 DEF Linkwise
      <3>5. QED
        BY <1>t, <2>1, <3>4, CancelKept
    <2>5. QED
      BY <1>2, <2>3, <2>4
  <1>3. QED
    BY <1>1, <1>2

\* The payments, the consumer and the cron.
LEMMA CancelOutside ==
  ASSUME IInv, CancelInv,
         \/ \E st \in Students : Invite(st) \/ PayOnce(st) \/ FirstCharge(st) \/ Renew(st) \/ GiveUp(st)
         \/ \E e \in queue : Deliver(e) \/ Drop(e)
         \/ ExpireLapsedEnrollments \/ EndClass \/ Tick \/ UNCHANGED vars
  PROVE  CancelInv'
  <1>t. TypeOK
    BY DEF IInv
  <1>1. ASSUME NEW st \in Students, Invite(st) \/ PayOnce(st) \/ FirstCharge(st) \/ Renew(st) \/ GiveUp(st)
        PROVE  CancelInv'
    <2>1. status' = status /\ linked' = linked /\ call' = call
      BY <1>1 DEF Invite, PayOnce, FirstCharge, Charged, Renew, GiveUp, row
    <2>2. \A x \in Students : billing'[x] = "cancelled" => billing[x] = "cancelled"
      BY <1>t, <1>1 DEF Invite, PayOnce, FirstCharge, Charged, Renew, GiveUp, payer, TypeOK
    <2>3. \A x \in Students : happened[x] \subseteq happened'[x]
      <3>1. {"renewal_only", "first_again"} \subseteq Mishaps
        BY DEF Mishaps
      <3>2. happened' = happened \/ Note(st, "renewal_only") \/ Note(st, "first_again")
        BY <1>1 DEF Invite, PayOnce, FirstCharge, Renew, GiveUp
      <3>3. QED
        BY <1>t, <3>1, <3>2, Noted
    <2>4. \A x \in Students : Linkwise(x)
      BY <2>1, <2>2, <2>3, LinkSame
    <2>5. QED
      BY <1>t, <2>1, <2>4, CancelKept
  <1>2. ASSUME NEW e \in queue, Deliver(e) \/ Drop(e)
        PROVE  CancelInv'
    <2>1. call' = call /\ billing' = billing /\ e.student \in Students
      BY <1>t, <1>2 DEF Deliver, Drop, payer, TypeOK, Event
    <2>2. \A x \in Students : happened[x] \subseteq happened'[x]
      <3>1. {"overtaken", "dropped"} \subseteq Mishaps
        BY DEF Mishaps
      <3>2. happened' = happened \/ Note(e.student, "overtaken") \/ Note(e.student, "dropped")
        BY <1>2 DEF Deliver, Drop
      <3>3. QED
        BY <1>t, <2>1, <3>1, <3>2, Noted
    <2>3. \A x \in Students :
            \/ status'[x] = status[x] /\ linked'[x] = linked[x]
            \/ status[x] = "PENDING_PAYMENT" /\ status'[x] = "ACTIVE"
            \/ status'[x] = "EXPIRED" /\ status[x] # "none" /\ linked'[x] = linked[x]
      <3>1. CASE Activate(e)
        BY <1>t, <2>1, <3>1 DEF Activate, row, TypeOK
      <3>2. CASE Extend(e) \/ Drop(e)
        BY <3>2 DEF Extend, Drop, row
      <3>3. CASE Expire(e)
        BY <1>t, <2>1, <3>3 DEF Expire, TypeOK
      <3>4. QED
        BY <1>2, <3>1, <3>2, <3>3 DEF Deliver
    <2>4. ASSUME NEW x \in Students
          PROVE  Linkwise(x)
      <3>1. CancelOf(x)
        BY DEF CancelInv
      <3>2. QED
        BY <2>1, <2>2, <2>3, <3>1 DEF Linkwise, CancelOf
    <2>5. QED
      BY <1>t, <2>1, <2>4, CancelKept
  <1>3. CASE ExpireLapsedEnrollments \/ EndClass \/ Tick \/ UNCHANGED vars
    <2>1. call' = call /\ billing' = billing /\ linked' = linked /\ happened' = happened
      BY <1>3 DEF ExpireLapsedEnrollments, EndClass, Tick, vars, row, payer
    <2>2. \A x \in Students : status'[x] = status[x] \/ (status'[x] = "EXPIRED" /\ status[x] = "ACTIVE")
      BY <1>3 DEF ExpireLapsedEnrollments, EndClass, Tick, vars, row, Lapsed
    <2>3. \A x \in Students : Linkwise(x)
      BY <2>1, <2>2 DEF Linkwise
    <2>4. QED
      BY <1>t, <2>1, <2>3, CancelKept
  <1>4. QED
    BY <1>1, <1>2, <1>3

LEMMA CancelStepwise == IInv /\ CancelInv /\ [Next]_vars => CancelInv'
  BY CancelEnroll, CancelRequest, CancelOutside DEF Next

LEMMA CancelInitially == Init => CancelInv
  BY NoCallType DEF Init, CancelInv, CancelOf, CancelCall, At

\* What an informed student paid for is what the student gets, for any number of requests
\* and events on their way at once: an active enrollment lasts that long, and cancelling the
\* subscription does not end the access, but where a cancellation that found no subscription
\* ended the enrollment after it got one.
THEOREM PaidIsOpen == Spec => []AccessCoversPaid
  <1>1. Init => IInv /\ CoverInv /\ CancelInv
    BY Initially, CoverInitially, CancelInitially
  <1>2. IInv /\ CoverInv /\ CancelInv /\ [Next]_vars => IInv' /\ CoverInv' /\ CancelInv'
    BY Stepwise, CoverStepwise, CancelStepwise
  <1>3. IInv /\ CoverInv /\ CancelInv => AccessCoversPaid
    <2> SUFFICES ASSUME IInv, CoverInv, CancelInv, NEW st \in Students, Quiet(st), Informed(st)
                 PROVE  /\ status[st] = "ACTIVE" => accessUntil[st] >= paidUntil[st]
                        /\ billing[st] = "cancelled" /\ paidUntil[st] > day =>
                             status[st] = "EXPIRED" \/ HasAccess(st) \/ "outrun" \in happened[st]
      BY DEF AccessCoversPaid
    <2>1. status[st] = "ACTIVE" => accessUntil[st] >= paidUntil[st]
      BY DEF CoverInv, CoverOf, CoveredOf, Quiet, About
    <2>2. billing[st] = "cancelled" => status[st] \in {"ACTIVE", "EXPIRED"} \/ "outrun" \in happened[st]
      BY DEF CancelInv, CancelOf
    <2>3. accessUntil[st] \in Int /\ paidUntil[st] \in Int /\ day \in Int
      BY LiveEnrollmentsAssumption DEF IInv, TypeOK, Days, Never
    <2>4. QED
      BY <2>1, <2>2, <2>3 DEF HasAccess
  <1>4. QED
    BY <1>1, <1>2, <1>3, PTL DEF Spec

-----------------------------------------------------------------------------
(* The pages *)

\* What a page sends is a request like any other, and pages do nothing else to the rows.
LEMMA SignupStepIs ==
  ASSUME (desk = "requests" /\ Next /\ UNCHANGED signup) \/ SignupNext
  PROVE  [Next]_vars
  <1>1. CASE desk = "requests" /\ Next /\ UNCHANGED signup
    BY <1>1
  <1>2. CASE Browse \/ EnterClassroom \/ OpenInvitation \/ Answered \/ CloseCard
    BY <1>2 DEF Browse, EnterClassroom, OpenInvitation, Answered, CloseCard
  <1>3. CASE OpenEnrollments \/ OpenInvitations \/ FindStudent \/ LeaveTab
    BY <1>3 DEF OpenEnrollments, OpenInvitations, FindStudent, LeaveTab
  <1>4. ASSUME NEW c \in Calls,
               CardEnrolls(c) \/ AcceptInvitation(c) \/ \E st \in Students : Remove(c, st)
        PROVE  Next \/ UNCHANGED vars
    <2>1. Reader \in Students
      BY ClassSignupAssumption
    <2>2. (\E st \in Students : Enroll(c, st) \/ Cancel(c, st)) \/ UNCHANGED vars
      BY <1>4, <2>1 DEF CardEnrolls, AcceptInvitation, Remove
    <2>3. QED
      BY <2>2 DEF Next
  <1>5. CASE \E st \in Students : SendInvitation(st)
    BY <1>5 DEF SendInvitation, Next
  <1>6. CASE desk = "pages" /\ Goes /\ UNCHANGED signup
    BY <1>6 DEF Goes, Next
  <1>7. QED
    BY <1>1, <1>2, <1>3, <1>4, <1>5, <1>6 DEF SignupNext

\* LiveClassCard.tsx, the page of an invitation and the administrator's tabs are among the
\* callers of enrollments.service.ts: however old what they show, they send nothing with
\* which it was not reckoned, so that what is proved whatever is sent holds of them.
THEOREM SignupIsServed == SignupSpec => Spec
  <1>1. SignupInit => Init
    BY DEF SignupInit
  <1>2. [(desk = "requests" /\ Next /\ UNCHANGED signup) \/ SignupNext]_siteVars => [Next]_vars
    BY SignupStepIs DEF siteVars
  <1>3. QED
    BY <1>1, <1>2, PTL DEF SignupSpec, Spec
=============================================================================
