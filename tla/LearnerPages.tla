---------------------------- MODULE LearnerPages ----------------------------
(***************************************************************************)
(* The pages of the student app on which a learner gets into a course and  *)
(* through it, over the services they call: the page of the course, the    *)
(* checkout, the player with its review form; the admins who edit the      *)
(* course meanwhile and the page on which its review is moderated.  Every  *)
(* tab shows one page, as it was when it was fetched.                      *)
(***************************************************************************)
EXTENDS Reviews

CONSTANTS
  Errands,      \* what happens in one behaviour: "buy", "learn" or "review"
  MaxPolls      \* bound: the 8 polls of the checkout for the enrollment

ASSUME LearnerPagesAssumption ==
  /\ Errands \subseteq {"buy", "learn", "review"}
  /\ MaxPolls \in Nat

VARIABLES
  screen,
  errand,
  paid,         \* Paystack told a checkout of success
  sales         \* announcements of that sale

studyVars == <<courseVars, learnerVars, reviewVars, screen, errand, paid, sales>>

NoScreen == [at |-> "none"]
Sees(t, at) == screen[t].at = at
Show(t, new) == screen' = [screen EXCEPT ![t] = new]

StudyInit ==
  /\ errand \in Errands
  /\ CoursesInit("published")
  /\ LearnerInit(CASE errand = "buy" -> "none" [] errand = "learn" -> "active" [] OTHER -> "completed")
  /\ ReviewsInit
  /\ screen = [t \in Tabs |-> NoScreen]
  /\ paid = FALSE
  /\ sales = 0

IsFree == course.content.title \in Free

-----------------------------------------------------------------------------
(* Into the course.                                                         *)

\* A course that is not published is not found.
OpenCourse(t) ==
  /\ errand = "buy" /\ At(t, "idle") /\ ~Sees(t, "checkout")
  /\ course.status = "published"
  /\ Show(t, [at |-> "course", free |-> IsFree])
  /\ UNCHANGED <<courseVars, learnerVars, reviewVars, errand, paid, sales>>

HandleEnrollFree(t) ==
  /\ Sees(t, "course") /\ screen[t].free
  /\ EnrollFree(t)
  /\ UNCHANGED <<courseVars, reviewVars, screen, errand, paid, sales>>

\* A course that became free in the meantime sends the learner back.
OpenCheckout(t) ==
  /\ Sees(t, "course") /\ ~screen[t].free
  /\ course.status = "published" /\ ~IsFree
  /\ Show(t, [at |-> "checkout", phase |-> "form", polls |-> 0])
  /\ UNCHANGED <<courseVars, learnerVars, reviewVars, errand, paid, sales>>

Phase(t, phases) == Sees(t, "checkout") /\ screen[t].phase \in phases

\* The button is busy while a payment is under way or confirmed.
CanPay(t) == Phase(t, {"form", "failed"})

HandlePay(t) ==
  /\ CanPay(t)
  /\ Show(t, [screen[t] EXCEPT !.phase = "processing"])
  /\ UNCHANGED <<courseVars, learnerVars, reviewVars, errand, paid, sales>>

\* payment-service does not start the checkout, or the popup is closed.
NotPaid(t) ==
  /\ Phase(t, {"processing"})
  /\ \E phase \in {"failed", "form"} : Show(t, [screen[t] EXCEPT !.phase = phase])
  /\ UNCHANGED <<courseVars, learnerVars, reviewVars, errand, paid, sales>>

HandlePaystackSuccess(t) ==
  /\ Phase(t, {"processing"})
  /\ Show(t, [screen[t] EXCEPT !.phase = "confirming", !.polls = 0])
  /\ paid' = TRUE
  /\ UNCHANGED <<courseVars, learnerVars, reviewVars, errand, sales>>

\* Confirmed by the page or by the webhook, and announced or not; see Payments for how.
AnnounceSale ==
  /\ paid /\ sales < MaxEvents
  /\ sales' = sales + 1
  /\ PaymentCompleted \/ SaleUnannounced
  /\ UNCHANGED <<courseVars, reviewVars, screen, errand, paid>>

\* After the last poll the page says that the learner is enrolled, whether he is or not.
Poll(t) ==
  /\ Phase(t, {"confirming"})
  /\ Show(t, IF enrollment # "none" \/ screen[t].polls + 1 >= MaxPolls
             THEN [screen[t] EXCEPT !.phase = "success"]
             ELSE [screen[t] EXCEPT !.polls = @ + 1])
  /\ UNCHANGED <<courseVars, learnerVars, reviewVars, errand, paid, sales>>

\* Nothing catches a poll that fails: the page goes on confirming for ever.
PollFails(t) ==
  /\ Phase(t, {"confirming"})
  /\ Fault
  /\ Show(t, [screen[t] EXCEPT !.phase = "stuck"])
  /\ UNCHANGED <<courseVars, enrollmentVars, progress, tab, crossed, reviewVars, errand, paid, sales>>

-----------------------------------------------------------------------------
(* Through the course.                                                      *)

OpenPlayer(t) ==
  /\ At(t, "idle") /\ errand # "buy"
  /\ enrollment # "none" /\ ~Gone
  /\ Show(t, [at |-> "player", course |-> LearnState, mine |-> review # NoReview])
  /\ UNCHANGED <<courseVars, learnerVars, reviewVars, errand, paid, sales>>

\* The sidebar: any lesson can be played, in any order.
Playable(t) == screen[t].course.there
Ticked(t)   == screen[t].course.done

\* Every few seconds, and nobody waits for the answer: done once most of it was seen.
SyncProgress(t) ==
  /\ Sees(t, "player") /\ errand = "learn"
  /\ \E l \in Playable(t), done \in BOOLEAN : UpdateProgress(t, l, done)
  /\ UNCHANGED <<courseVars, reviewVars, screen, errand, paid, sales>>

\* The button, unless the page shows the lesson as done; then the page is fetched again,
\* which takes a while (OpenPlayer).
HandleMarkComplete(t) ==
  /\ Sees(t, "player") /\ errand = "learn"
  /\ \E l \in Playable(t) \ Ticked(t) : UpdateProgress(t, l, TRUE)
  /\ UNCHANGED <<courseVars, reviewVars, screen, errand, paid, sales>>

-----------------------------------------------------------------------------
(* What the learner thinks of it.                                           *)

ShownPct(t) == LET total == Cardinality(Playable(t))
               IN IF total = 0 THEN 0 ELSE (Cardinality(Ticked(t)) * 100) \div total

OffersReview(t) ==
  Sees(t, "player") /\ ShownPct(t) >= Threshold /\ (screen[t].mine => ~late)

\* A form for the review the page shows, or for a new one.
ReviewModal(t) ==
  \E text \in Texts : IF screen[t].mine THEN UpdateReview(t, text) ELSE CreateReview(t, text)

HandleReview(t) ==
  /\ errand = "review" /\ At(t, "idle")
  /\ OffersReview(t)
  /\ ReviewModal(t)
  /\ UNCHANGED <<courseVars, learnerVars, screen, errand, paid, sales>>

\* refetchReview() after a review was saved.
ReviewSaved(t) ==
  /\ SaveReview(t)
  /\ screen' = IF Sees(t, "player") /\ ~Second(rcall[t]) THEN [screen EXCEPT ![t].mine = TRUE] ELSE screen
  /\ UNCHANGED <<courseVars, learnerVars, errand, paid, sales>>

\* Each decision is offered but the one the page shows, which may be any other by now.
HandleModerate(m) ==
  /\ \E status \in Decided : Moderate(m, status)
  /\ UNCHANGED <<courseVars, learnerVars, screen, errand, paid, sales>>

Moderated(m) ==
  /\ SaveReview(m)
  /\ UNCHANGED <<courseVars, learnerVars, screen, errand, paid, sales>>

WindowCloses ==
  /\ TimePasses
  /\ UNCHANGED <<courseVars, learnerVars, screen, errand, paid, sales>>

-----------------------------------------------------------------------------
\* The admins: another price or the end of the sale, or other lessons.
AdminStep(a) ==
  /\ \/ errand = "buy" /\ \E form \in Contents : Update(a, form)
     \/ errand = "buy" /\ Archive(a)
     \/ errand = "learn" /\ \E l \in Lessons : CreateLesson(a, l, TRUE)
     \/ errand = "learn" /\ \E l \in Lessons : DeleteLesson(a, l)
     \/ errand = "buy" /\ Delete(a)
     \/ Commit(a)
  /\ UNCHANGED <<learnerVars, reviewVars, screen, errand, paid, sales>>

Others == <<courseVars, reviewVars, screen, errand, paid, sales>>

ProgressStep(t) == Progressing(t) /\ UNCHANGED Others

ListenerStep == Listening /\ UNCHANGED Others

EnrollStep(t) ==
  /\ PublishEnrolled(t) \/ Enroll(t)
  /\ UNCHANGED Others

FaultStep ==
  /\ DeliveryFails \/ ListenerDies \/ \E t \in Tabs : RollBack(t)
  /\ UNCHANGED Others

StudyNext ==
  \/ \E a \in Admins : AdminStep(a)
  \/ \E m \in Moderators : HandleModerate(m) \/ Moderated(m)
  \/ \E t \in Tabs :
       \/ OpenCourse(t)
       \/ HandleEnrollFree(t)
       \/ OpenCheckout(t)
       \/ HandlePay(t)
       \/ NotPaid(t)
       \/ HandlePaystackSuccess(t)
       \/ Poll(t)
       \/ PollFails(t)
       \/ OpenPlayer(t)
       \/ SyncProgress(t)
       \/ HandleMarkComplete(t)
       \/ ProgressStep(t)
       \/ HandleReview(t)
       \/ ReviewSaved(t)
       \/ EnrollStep(t)
  \/ AnnounceSale
  \/ ListenerStep
  \/ FaultStep
  \/ WindowCloses

\* The consumer takes the next message, and payment-service, which the page or Paystack
\* tells of what was paid, is done with it, announced or not; a page is closed when the
\* learner likes.
Fairness == WF_enrollmentVars(ListenerStep) /\ WF_sales(sales = 0 /\ AnnounceSale)

StudySpec == StudyInit /\ [][StudyNext]_studyVars /\ Fairness

-----------------------------------------------------------------------------
Screen == [at : {"none"}]
          \cup [at : {"course"}, free : BOOLEAN]
          \cup [at : {"checkout"}, polls : 0..MaxPolls,
                phase : {"form", "processing", "confirming", "success", "failed", "stuck"}]
          \cup [at : {"player"}, mine : BOOLEAN,
                course : [there : SUBSET Lessons, done : SUBSET Lessons]]

StudyTypeOK ==
  /\ CoursesTypeOK /\ LearnerTypeOK /\ ReviewsTypeOK
  /\ screen \in [Tabs -> Screen]
  /\ errand \in Errands /\ paid \in BOOLEAN /\ sales \in 0..MaxEvents

\* Who paid is enrolled in the end, however often the sale is announced, whoever enrolls
\* him meanwhile, whatever becomes of the course and of the page, unless the sale was not
\* announced (payment-event-publisher.ts:60) or a delivery failed: both are logged and
\* forgotten (PaymentEventListener.java:41).
\* And he is welcomed once.
PaidIsEnrolled == (paid ~> enrollment # "none" \/ lost) /\ []OneConfirmation

\* A player that shows the course as it is offers a review only to a learner whom
\* review-service will let write it: the page and enrollment-service count the lessons
\* done separately, the one those it shows, the other every row there is.
OfferIsGood == \A t \in Tabs :
  Sees(t, "player") /\ Playable(t) = There(item) /\ ~Gone /\ ~crossed
    => (OffersReview(t) => FarEnough)

\* A lesson the player shows as done is done, however old the page: progress that another
\* tab reports afterwards does not take it back, unless it had read the row before.
ShownIsDone == \A t \in Tabs :
  Sees(t, "player") => crossed \/ \A l \in Ticked(t) : Done(l)

\* What the player shows and offers is so.
PlayerIsRight == OfferIsGood /\ ShownIsDone
=============================================================================
