------------------------------ MODULE Bookings ------------------------------
(***************************************************************************)
(* The classes of one instructor and the bookings of his time              *)
(* (live-class-service, classes.service.ts and sessions.service.ts), with  *)
(* the crons that extend the schedules and end what is over.               *)
(*                                                                         *)
(* Each awaited query is one step of a handler; call[c] is a request or a  *)
(* run of a cron.  The queries of one batch check are one step: each looks *)
(* for a conflict, and none looks again.  Everybody here may do what he    *)
(* asks for; who may is not modelled.                                      *)
(***************************************************************************)
EXTENDS Integers, FiniteSets

CONSTANTS
  Classes,      \* classes of the instructor
  Rows,         \* bound: the rows live_sessions may get
  Slots,        \* intervals an admin picks for a session
  Templates,    \* weekly slots of a schedule: a day, and a length (negative over midnight)
  Week, Window, \* length of a week, and GENERATION_WEEKS in days
  Grace,        \* AUTO_END_GRACE_MINUTES
  MaxTime,      \* bound: the last instant
  Calls,        \* bound: requests and cron runs at the same time
  Restarts      \* whether the process may die

ASSUME BookingsAssumption ==
  /\ IsFiniteSet(Rows) /\ Rows \subseteq Nat \ {0}
  /\ Slots \subseteq [from : Int, to : Int] /\ \A s \in Slots : s.from < s.to
  /\ Templates \subseteq [day : Nat, len : Int]
  /\ Week \in Nat \ {0} /\ Window \in Nat
  /\ Restarts \in BOOLEAN /\ Grace \in Nat /\ MaxTime \in Nat

VARIABLES
  now,
  due,          \* crons of this instant that did not run yet
  class,        \* classes: status and schedules
  row,          \* live_sessions
  call,
  unseen        \* history: pairs of sessions of which neither booking could see the other

vars == <<now, due, class, row, call, unseen>>

Time    == Int
Class   == [status : {"none", "DRAFT", "PUBLISHED", "ACTIVE", "ENDED"}, schedules : SUBSET Templates]
Session == [status : {"none", "SCHEDULED", "LIVE", "ENDED"}, of : Classes \cup {"none"}, from : Time, to : Time]
NoRow   == [status |-> "none", of |-> "none", from |-> 0, to |-> 0]

Active(r) == row[r].status \in {"SCHEDULED", "LIVE"}
Overlap(a, b) == a.from < b.to /\ b.from < a.to

\* What a call remembers: the class it works on and the classes of the cron still to
\* come, the slots it means to book and for which class, the rows it means to change,
\* and for the history the rows booked since it looked.
NoCall == [pc |-> "idle", k |-> "none", todo |-> {}, slots |-> {}, of |-> "none", rows |-> {}, since |-> {}]
At(c, step) == call[c].pc = step
Enter(c, new) == At(c, "idle") /\ call' = [call EXCEPT ![c] = new]
Goto(c, new) == call' = [call EXCEPT ![c] = new]
Return(c) == call' = [call EXCEPT ![c] = NoCall]

The(S) == CHOOSE x \in S : TRUE
Pairs(A, B) == {{a, b} : a \in A, b \in B} \ {{a} : a \in A}

Init ==
  /\ now = 0
  /\ due = {}
  /\ class = [k \in Classes |-> [status |-> "none", schedules |-> {}]]
  /\ row = [r \in Rows |-> NoRow]
  /\ call = [c \in Calls |-> NoCall]
  /\ unseen = {}

-----------------------------------------------------------------------------
(* Time, and the crons it starts.  A cron whose instant passes while the    *)
(* process is down does not run.                                            *)

Tick ==
  /\ now < MaxTime
  /\ now' = now + 1
  /\ due' = {"autoEnd"} \cup (IF (now + 1) % Week = 0 THEN {"extend"} ELSE {})
  /\ UNCHANGED <<class, row, call, unseen>>

AutoEndStaleSessions ==
  /\ "autoEnd" \in due
  /\ due' = due \ {"autoEnd"}
  /\ row' = [r \in Rows |-> IF Active(r) /\ row[r].to < now - Grace
                            THEN [row[r] EXCEPT !.status = "ENDED"] ELSE row[r]]
  /\ UNCHANGED <<now, class, call, unseen>>

-----------------------------------------------------------------------------
(* Booking: a conflict check, then an insert or an update.                  *)

\* Mutant: a session that is on blocks nothing.
FindConflict_ScheduledOnly(slot, except) ==
  \E r \in Rows \ except : row[r].status = "SCHEDULED" /\ Overlap(row[r], slot)

FindConflict(slot, except) ==
  \E r \in Rows \ except : Active(r) /\ Overlap(row[r], slot)

\* Call c books the rows R and goes on with next.  The rest is for the history.
Booked(c, R, next) ==
  /\ unseen' = unseen \cup Pairs(R, call[c].since) \cup Pairs(R, R)
  /\ call' = [d \in Calls |-> IF d = c THEN next
                              ELSE IF call[d].pc \in {"insert", "start", "move"}
                                   THEN [call[d] EXCEPT !.since = @ \cup (R \ call[d].rows)]
                              ELSE call[d]]

CreateManual(c, k, slot) ==
  /\ class[k].status # "none"
  /\ Enter(c, [NoCall EXCEPT !.pc = "insert", !.slots = {slot}, !.of = k])
  /\ ~FindConflict(slot, {})
  /\ UNCHANGED <<now, due, class, row, unseen>>

\* What follows the batch of one class: publish() sets the class ACTIVE, the cron takes
\* the next class.
Generated(c, todo) ==
  IF call[c].pc = "insert" /\ call[c].k # "none" THEN [NoCall EXCEPT !.pc = "activate", !.k = call[c].k]
  ELSE IF todo # {} THEN [NoCall EXCEPT !.pc = "generate", !.todo = todo]
  ELSE NoCall

\* insertOne() or insertMany().  The rows run out when the bound is reached.
Insert(c) ==
  LET free  == {r \in Rows : row[r].status = "none"}
      slots == call[c].slots
      place == CHOOSE f \in [slots -> free] : \A s, t \in slots : f[s] = f[t] => s = t
      new   == {place[s] : s \in slots}
  IN
  /\ At(c, "insert")
  /\ Cardinality(slots) <= Cardinality(free)
  /\ row' = [r \in Rows |->
       IF r \notin new THEN row[r]
       ELSE LET s == CHOOSE s \in slots : place[s] = r
            IN [status |-> "SCHEDULED", of |-> call[c].of, from |-> s.from, to |-> s.to]]
  /\ Booked(c, new, Generated(c, call[c].todo))
  /\ UNCHANGED <<now, due, class>>

-----------------------------------------------------------------------------
(* Classes *)

CreateClass(k, S) ==
  /\ class[k].status = "none"
  /\ class' = [class EXCEPT ![k] = [status |-> "DRAFT", schedules |-> S]]
  /\ UNCHANGED <<now, due, row, call, unseen>>

\* update() of the schedules: written first, then tried.
UpdateSchedules(c, k, S) ==
  /\ class[k].status # "none"
  /\ class' = [class EXCEPT ![k].schedules = S]
  /\ Enter(c, [NoCall EXCEPT !.pc = "generate", !.todo = {<<k, S>>}])
  /\ UNCHANGED <<now, due, row, unseen>>

Publish(c, k) ==
  /\ class[k].status = "DRAFT"
  /\ Enter(c, [NoCall EXCEPT !.pc = "publish", !.k = k])
  /\ UNCHANGED <<now, due, class, row, unseen>>

MarkPublished(c) ==
  LET k == call[c].k IN
  /\ At(c, "publish")
  /\ class' = [class EXCEPT ![k].status = "PUBLISHED"]
  /\ Goto(c, [call[c] EXCEPT !.pc = "generate", !.todo = {<<k, class[k].schedules>>}])
  /\ UNCHANGED <<now, due, row, unseen>>

Activate(c) ==
  /\ At(c, "activate")
  /\ class' = [class EXCEPT ![call[c].k].status = "ACTIVE"]
  /\ Return(c)
  /\ UNCHANGED <<now, due, row, unseen>>

EndClass(c, k) ==
  /\ class[k].status = "ACTIVE"
  /\ Enter(c, [NoCall EXCEPT !.pc = "end_class", !.k = k])
  /\ UNCHANGED <<now, due, class, row, unseen>>

MarkEnded(c) ==
  /\ At(c, "end_class")
  /\ class' = [class EXCEPT ![call[c].k].status = "ENDED"]
  /\ Return(c)
  /\ UNCHANGED <<now, due, row, unseen>>

ExtendGeneratedWindows(c) ==
  LET live == {k \in Classes : class[k].status \in {"PUBLISHED", "ACTIVE"} /\ class[k].schedules # {}} IN
  /\ "extend" \in due
  /\ due' = due \ {"extend"}
  /\ IF live = {} THEN UNCHANGED call
     ELSE Enter(c, [NoCall EXCEPT !.pc = "generate",
                                  !.todo = {<<k, class[k].schedules>> : k \in live}])
  /\ UNCHANGED <<now, class, row, unseen>>

\* expandSchedulesToOccurrences(): the effective dates arrive as strings, and comparing
\* a string with a Date is always false, so every schedule runs from now to the horizon.
Occurrences(S) ==
  UNION {{[from |-> t, to |-> t + s.len] : t \in {u \in (now + 1)..(now + Window) : u % Week = s.day}} : s \in S}

\* generateFromSchedules() of one class: candidates are compared with the rows there
\* are, not with each other.  A conflict ends publish() with the class PUBLISHED.
Generate(c) ==
  /\ At(c, "generate")
  /\ \E doc \in call[c].todo :
       LET slots == Occurrences(doc[2])
           rest  == call[c].todo \ {doc}
       IN \/ /\ slots # {} /\ \A s \in slots : ~FindConflict(s, {})
             /\ Goto(c, [call[c] EXCEPT !.pc = "insert", !.slots = slots, !.of = doc[1], !.todo = rest])
          \/ /\ \E s \in slots : FindConflict(s, {})
             /\ Goto(c, Generated(c, rest))
          \/ /\ slots = {}
             /\ Goto(c, IF call[c].k # "none" THEN [NoCall EXCEPT !.pc = "activate", !.k = call[c].k]
                        ELSE Generated(c, rest))
  /\ UNCHANGED <<now, due, class, row, unseen>>

-----------------------------------------------------------------------------
(* Sessions: each handler reads the row, and writes whatever became of it.  *)

Start(c, r) ==
  /\ row[r].status = "SCHEDULED"
  /\ Enter(c, [NoCall EXCEPT !.pc = "start", !.rows = {r}])
  /\ UNCHANGED <<now, due, class, row, unseen>>

MarkLive(c) ==
  LET r == The(call[c].rows) IN
  /\ At(c, "start")
  /\ row' = [row EXCEPT ![r].status = "LIVE"]
  /\ Booked(c, {r}, NoCall)
  /\ UNCHANGED <<now, due, class>>

End(c, r) ==
  /\ Active(r)
  /\ Enter(c, [NoCall EXCEPT !.pc = "end", !.rows = {r}])
  /\ UNCHANGED <<now, due, class, row, unseen>>

MarkSessionEnded(c) ==
  /\ At(c, "end")
  /\ row' = [row EXCEPT ![The(call[c].rows)].status = "ENDED"]
  /\ Return(c)
  /\ UNCHANGED <<now, due, class, unseen>>

Reschedule(c, r, slot) ==
  /\ row[r].status = "SCHEDULED"
  /\ Enter(c, [NoCall EXCEPT !.pc = "check", !.rows = {r}, !.slots = {slot}])
  /\ UNCHANGED <<now, due, class, row, unseen>>

CheckMove(c) ==
  /\ At(c, "check")
  /\ IF FindConflict(The(call[c].slots), call[c].rows) THEN Return(c)
     ELSE Goto(c, [call[c] EXCEPT !.pc = "move", !.since = {}])
  /\ UNCHANGED <<now, due, class, row, unseen>>

Move(c) ==
  LET r == The(call[c].rows)
      s == The(call[c].slots)
  IN
  /\ At(c, "move")
  /\ row' = [row EXCEPT ![r].from = s.from, ![r].to = s.to]
  /\ Booked(c, {r}, NoCall)
  /\ UNCHANGED <<now, due, class>>

\* The process dies and takes its calls with it.
Restart ==
  /\ Restarts
  /\ \E c \in Calls : ~At(c, "idle")
  /\ call' = [c \in Calls |-> NoCall]
  /\ UNCHANGED <<now, due, class, row, unseen>>

Proceed(c) ==
  \/ Insert(c) \/ Generate(c) \/ MarkPublished(c) \/ Activate(c) \/ MarkEnded(c)
  \/ MarkLive(c) \/ MarkSessionEnded(c) \/ CheckMove(c) \/ Move(c)

\* The routes of classes and sessions.
Ask(c, K) ==
  \/ \E k \in K : \/ Publish(c, k) \/ EndClass(c, k)
                   \/ \E S \in SUBSET Templates : UpdateSchedules(c, k, S)
                   \/ \E s \in Slots : CreateManual(c, k, s)
  \/ \E r \in Rows : Start(c, r) \/ End(c, r) \/ \E s \in Slots : Reschedule(c, r, s)

Work(K) ==
  \/ Tick \/ AutoEndStaleSessions \/ Restart
  \/ \E k \in K, S \in SUBSET Templates : CreateClass(k, S)
  \/ \E c \in Calls : Proceed(c) \/ ExtendGeneratedWindows(c) \/ Ask(c, K)

Next == Work(Classes)

Spec == Init /\ [][Next]_vars

-----------------------------------------------------------------------------
(* Properties *)

\* Every variable has its type (class.types.ts, session.types.ts).
TypeOK ==
  /\ now \in 0..MaxTime
  /\ due \subseteq {"autoEnd", "extend"}
  /\ class \in [Classes -> Class]
  /\ row \in [Rows -> Session]
  /\ unseen \subseteq SUBSET Rows

\* "any real overlap [...] is rejected" (sessions.service.ts:81), as far as the code
\* goes: two sessions of the instructor that overlap were booked, moved or revived by
\* calls that ran at the same time, or come from one batch.
OverlapIsUnseen ==
  \A r, q \in Rows : r # q /\ Active(r) /\ Active(q) /\ Overlap(row[r], row[q]) => {r, q} \in unseen

=============================================================================
