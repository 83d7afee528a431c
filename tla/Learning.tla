------------------------------ MODULE Learning ------------------------------
(***************************************************************************)
(* A learner, his enrollment in a course and his progress through it       *)
(* (enrollment-service), while admins edit the course (Courses): bought or *)
(* free, in several tabs, each of which may be playing a video.            *)
(*                                                                         *)
(* updateProgress() is a transaction of several queries and a call to      *)
(* course-service.  Its rows are written when it counts the lessons done   *)
(* or, if it need not count, when it commits; like every row of JPA with   *)
(* all their columns, and locked until it commits.                         *)
(***************************************************************************)
EXTENDS Courses

CONSTANTS
  Tabs,
  Free,         \* titles of what costs nothing
  MaxEvents,    \* bound: deliveries of payment.completed
  MaxFaults     \* bound: sales not announced, failed deliveries, enrollments rolled back

ASSUME LearningAssumption ==
  /\ Free \subseteq Titles
  /\ MaxEvents \in Nat /\ MaxFaults \in Nat

VARIABLES
  enrollment,
  progress,     \* lesson_progress: status by lesson
  tab,          \* requests of the learner
  queue,        \* deliveries of payment.completed still to come
  listener,
  mails,        \* enrollment confirmations published
  raced,        \* history: two requests created the enrollment at the same time
  lost,         \* history: a delivery failed, or a sale was not announced
  crossed,      \* history: two calls wrote or counted without seeing each other
  faults

enrollmentVars == <<enrollment, queue, listener, mails, raced, lost>>
learnerVars == <<enrollmentVars, progress, tab, crossed, faults>>

Done(l) == progress[l] = "completed"
Quiet   == \A t \in Tabs : tab[t].pc = "idle"

\* What a call remembers: the lesson and the row it read for it, the lessons
\* course-service named, whether it found them all done, and for the history
\* whether another call wrote since it counted.
NoTab == [pc |-> "idle", lesson |-> "none", done |-> FALSE, old |-> "none",
          named |-> {}, ends |-> FALSE, since |-> FALSE]
At(t, pc) == tab[t].pc = pc
Goto(t, new) == tab' = [tab EXCEPT ![t] = new]

\* Nothing bought yet, nothing seen yet, or everything.
LearnerInit(status) ==
  /\ enrollment = status
  /\ progress = [l \in Lessons |-> IF status = "completed" /\ item[l].there = "yes"
                                  THEN "completed" ELSE "none"]
  /\ tab = [t \in Tabs |-> NoTab]
  /\ queue = 0
  /\ listener = "idle"
  /\ mails = 0
  /\ raced = FALSE
  /\ lost = FALSE
  /\ crossed = FALSE
  /\ faults = 0

Fault == faults < MaxFaults /\ faults' = faults + 1

-----------------------------------------------------------------------------
(* Enrolling: look for an enrollment, publish that there is one, and insert *)
(* it when the transaction commits.                                         *)

Creating(t) == tab[t].pc \in {"publish", "insert"}
Race == raced' = (raced \/ listener # "idle" \/ \E t \in Tabs : Creating(t))

EnrollFree(t) ==
  /\ At(t, "idle")
  /\ enrollment = "none"
  /\ course.status = "published" /\ course.content.title \in Free
  /\ Goto(t, [NoTab EXCEPT !.pc = "publish"])
  /\ Race
  /\ UNCHANGED <<enrollment, queue, listener, mails, lost, progress, crossed, faults>>

\* publishEnrollmentCreated(): no mail if course-service does not know the course.
Confirm == mails' = IF Gone THEN mails ELSE mails + 1

PublishEnrolled(t) ==
  /\ At(t, "publish")
  /\ Confirm
  /\ Goto(t, [tab[t] EXCEPT !.pc = "insert"])
  /\ UNCHANGED <<enrollment, queue, listener, raced, lost, progress, crossed, faults>>

\* createEnrollment(): UNIQUE (user_id, course_id) refuses a second one.
CreateEnrollment == enrollment' = IF enrollment = "none" THEN "active" ELSE enrollment

Enroll(t) ==
  /\ At(t, "insert")
  /\ CreateEnrollment
  /\ Goto(t, NoTab)
  /\ UNCHANGED <<queue, listener, mails, raced, lost, progress, crossed, faults>>

\* payment-service announces that the course was sold, or announces it once more.
PaymentCompleted ==
  /\ queue' = queue + 1
  /\ UNCHANGED <<enrollment, listener, mails, raced, lost, progress, tab, crossed, faults>>

\* It dies between completing the payment and announcing it, a swallowed failure makes it
\* take the webhook for handled, or the channel refuses: nobody tries again.
SaleUnannounced ==
  /\ Fault
  /\ lost' = TRUE
  /\ UNCHANGED <<enrollment, queue, listener, mails, raced, progress, tab, crossed>>

Unknown == enrollment = "none"

OnPaymentCompleted ==
  /\ queue > 0 /\ listener = "idle"
  /\ IF Unknown THEN listener' = "publish" /\ Race /\ UNCHANGED queue
     ELSE queue' = queue - 1 /\ UNCHANGED <<listener, raced>>
  /\ UNCHANGED <<enrollment, mails, lost, progress, tab, crossed, faults>>

PublishPaid ==
  /\ listener = "publish"
  /\ listener' = "insert"
  /\ Confirm
  /\ UNCHANGED <<enrollment, queue, raced, lost, progress, tab, crossed, faults>>

EnrollFromPayment ==
  /\ listener = "insert"
  /\ listener' = "idle"
  /\ queue' = queue - 1
  /\ CreateEnrollment
  /\ UNCHANGED <<mails, raced, lost, progress, tab, crossed, faults>>

\* Whatever goes wrong is logged, and the message counts as handled.
DeliveryFails ==
  /\ Fault
  /\ queue > 0
  /\ queue' = queue - 1
  /\ listener' = "idle"
  /\ lost' = TRUE
  /\ UNCHANGED <<enrollment, mails, raced, progress, tab, crossed>>

\* Mutant: the message is acknowledged before it is handled.
ListenerDies_Acked ==
  /\ Fault
  /\ listener # "idle"
  /\ listener' = "idle"
  /\ queue' = queue - 1
  /\ UNCHANGED <<enrollment, mails, raced, lost, progress, tab, crossed>>

\* The process dies: the message comes again, the requests do not.
ListenerDies ==
  /\ Fault
  /\ listener # "idle"
  /\ listener' = "idle"
  /\ UNCHANGED <<enrollment, queue, mails, raced, lost, progress, tab, crossed>>

-----------------------------------------------------------------------------
(* Progress.  The player reports where it is every few seconds, and that the *)
(* lesson is done once most of it was seen; so does a button.  A page may   *)
(* be old, and name a lesson that is no longer there.                       *)

UpdateProgress(t, l, done) ==
  /\ At(t, "idle")
  /\ enrollment # "none"
  /\ Goto(t, [NoTab EXCEPT
       !.pc = IF done /\ ~Done(l) /\ enrollment # "completed" THEN "ask" ELSE "save",
       !.lesson = l, !.done = done, !.old = progress[l]])
  /\ UNCHANGED <<enrollmentVars, progress, crossed, faults>>

\* Another transaction holds the row until it commits.
Locked(t, l) == \E u \in Tabs \ {t} : At(u, "commit") /\ tab[u].lesson = l

\* UNIQUE (enrollment_id, lesson_id).
Refuses(t) == tab[t].old = "none" /\ progress[tab[t].lesson] # "none"

NewStatus(t) == IF tab[t].done \/ tab[t].old = "completed" THEN "completed" ELSE "in_progress"

\* The row of the call is written over what it did not see.
Overwrites(t) == progress[tab[t].lesson] # tab[t].old

\* The others that counted already do not see what call t writes.
Wrote(t) == tab' = [u \in Tabs |-> IF u = t THEN NoTab
                                     ELSE IF At(u, "commit") THEN [tab[u] EXCEPT !.since = TRUE]
                                     ELSE tab[u]]

SaveProgress(t) ==
  /\ At(t, "save")
  /\ ~Locked(t, tab[t].lesson)
  /\ IF Refuses(t) THEN Goto(t, NoTab) /\ UNCHANGED <<progress, crossed>>
     ELSE /\ Wrote(t)
          /\ progress' = [progress EXCEPT ![tab[t].lesson] = NewStatus(t)]
          /\ crossed' = (crossed \/ Overwrites(t))
  /\ UNCHANGED <<enrollmentVars, faults>>

\* maybeCompleteEnrollment(): course-service names the lessons, or fails the transaction
\* because the course is gone.
GetCourse(t) ==
  /\ At(t, "ask")
  /\ Goto(t, IF Gone THEN NoTab ELSE [tab[t] EXCEPT !.pc = "count", !.named = There(item)])
  /\ UNCHANGED <<enrollmentVars, progress, crossed, faults>>

\* Mutant: the query does not see the row just written.
CompletedLessons_Before(t) == Cardinality({l \in Lessons : Done(l)})

\* Mutant: the query counts every row.
CompletedLessons_AnyStatus(t) ==
  Cardinality({l \in Lessons : progress[l] # "none"} \cup {tab[t].lesson})

CompletedLessons(t) == Cardinality({l \in Lessons : Done(l)} \cup {tab[t].lesson})

TotalLessons(t) == Cardinality(tab[t].named)

CountLessons(t) ==
  /\ At(t, "count")
  /\ ~Locked(t, tab[t].lesson)
  /\ IF Refuses(t) THEN Goto(t, NoTab) /\ UNCHANGED crossed
     ELSE /\ Goto(t, [tab[t] EXCEPT !.pc = "commit",
                        !.ends = TotalLessons(t) > 0 /\ CompletedLessons(t) >= TotalLessons(t)])
          /\ crossed' = (crossed \/ Overwrites(t))
  /\ UNCHANGED <<enrollmentVars, progress, faults>>

CommitProgress(t) ==
  /\ At(t, "commit")
  /\ Wrote(t)
  /\ progress' = [progress EXCEPT ![tab[t].lesson] = "completed"]
  /\ enrollment' = IF tab[t].ends THEN "completed" ELSE enrollment
  /\ crossed' = (crossed \/ tab[t].since)
  /\ UNCHANGED <<queue, listener, mails, raced, lost, faults>>

\* The process dies, course-service or the database does not answer: nothing was written.
RollBack(t) ==
  /\ ~At(t, "idle")
  /\ IF Creating(t) THEN Fault ELSE UNCHANGED faults
  /\ Goto(t, NoTab)
  /\ UNCHANGED <<enrollmentVars, progress, crossed>>

\* One step of a call for progress.
Progressing(t) ==
  \/ SaveProgress(t)
  \/ GetCourse(t)
  \/ CountLessons(t)
  \/ CommitProgress(t)

Listening ==
  \/ OnPaymentCompleted
  \/ PublishPaid
  \/ EnrollFromPayment

\* getLearnState(): the lessons there are, and which of them are done.
LearnState == [there |-> There(item), done |-> {l \in There(item) : Done(l)}]

\* getCompletion(): rows of lessons that are no longer there count as well.
CompletionPct ==
  LET total == Cardinality(There(item))
  IN IF total = 0 THEN 0 ELSE (Cardinality({l \in Lessons : Done(l)}) * 100) \div total

-----------------------------------------------------------------------------
Enrollment == {"none", "active", "completed"}
Progress   == {"none", "in_progress", "completed"}
Tab == [pc : {"idle", "publish", "insert", "save", "ask", "count", "commit"}, lesson : Lessons \cup {"none"},
        done : BOOLEAN, old : Progress, named : SUBSET Lessons,
        ends : BOOLEAN, since : BOOLEAN]

LearnerTypeOK ==
  /\ enrollment \in Enrollment
  /\ progress \in [Lessons -> Progress]
  /\ tab \in [Tabs -> Tab]
  /\ queue \in 0..MaxEvents /\ listener \in {"idle", "publish", "insert"}
  /\ mails \in Nat /\ raced \in BOOLEAN
  /\ lost \in BOOLEAN /\ crossed \in BOOLEAN /\ faults \in 0..MaxFaults

\* A learner is welcomed to a course once, however often its sale is announced and whoever
\* enrolls him: unless two requests create the enrollment at the same time (each publishes
\* before its insert, and the one that is refused has published as well) or one that has
\* published is rolled back.
OneConfirmation == mails <= 1 \/ raced \/ faults > 0

NeverRemoved == \A l \in Lessons : item[l].there # "no"

\* Completing the last lesson completes the enrollment (README.md:90 of the service), in
\* whatever order and from whatever tabs the lessons were done and whatever was added in
\* between: once no call is under way, a learner who has done every lesson of the course
\* has completed it.  Unless two calls passed each other unseen (both count, neither sees
\* the other's lesson; or one writes back a row that was out of date), or the lesson that
\* was missing was deleted.
LastLessonCompletes ==
  Quiet /\ ~crossed /\ NeverRemoved /\ There(item) # {} /\ enrollment # "none"
    => ((\A l \in There(item) : Done(l)) => enrollment = "completed")

\* A learner completes a course only when he has done all of it: what course-service named
\* is done when the enrollment is, with the same exceptions and if the course did not
\* change while it was asked for and counted.
CompletedCovers ==
  [][\A t \in Tabs :
       /\ enrollment # "completed" /\ enrollment' = "completed"
       /\ ~crossed' /\ NeverRemoved
       /\ At(t, "commit") /\ tab[t].ends /\ tab[t].named = There(item)
       => \A l \in There(item) : progress'[l] = "completed"]_learnerVars

=============================================================================
