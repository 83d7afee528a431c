------------------------------ MODULE Reviews -------------------------------
(***************************************************************************)
(* The review that a learner writes of the course (review-service), which  *)
(* asks enrollment-service how far he came (Learning), and the moderators  *)
(* who decide on it.  update() and moderate() read the row and write back  *)
(* all of it when they commit.                                             *)
(***************************************************************************)
EXTENDS Learning

CONSTANTS
  Moderators,
  Texts,        \* what a review may say: rating, title and comment
  Threshold     \* percent of the course to be done before a review

ASSUME ReviewsAssumption == Threshold \in 0..100

VARIABLES
  review,
  rcall,        \* what a handler read, and what it will write
  late,         \* the days in which a review can be edited are over
  torn          \* history: a handler wrote back a row that was out of date

reviewVars == <<review, rcall, late, torn>>

Writers == Tabs \cup Moderators
Decided == {"approved", "rejected", "flagged"}

NoReview     == [text |-> "none", status |-> "none"]
NoReviewCall == [op |-> "idle", old |-> NoReview, new |-> NoReview]

ReviewsInit ==
  /\ review = NoReview
  /\ rcall = [x \in Writers |-> NoReviewCall]
  /\ late = FALSE
  /\ torn = FALSE

BeginReview(x, op, new) ==
  /\ rcall[x] = NoReviewCall
  /\ rcall' = [rcall EXCEPT ![x] = [op |-> op, old |-> review, new |-> new]]
  /\ UNCHANGED <<review, late, torn>>

\* Mutant: more than the threshold is asked for.
FarEnough_More == enrollment # "none" /\ ~Gone /\ CompletionPct > Threshold

FarEnough == enrollment # "none" /\ ~Gone /\ CompletionPct >= Threshold

CreateReview(t, text) ==
  /\ review = NoReview
  /\ FarEnough
  /\ BeginReview(t, "create", [text |-> text, status |-> "pending"])

\* Mutant: an edit sends the review back to the moderators.
UpdateReview_Pending(t, text) ==
  /\ review # NoReview /\ ~late
  /\ BeginReview(t, "update", [text |-> text, status |-> "pending"])

\* Once approved, a review stays so whatever it says now.
UpdateReview(t, text) ==
  /\ review # NoReview /\ ~late
  /\ BeginReview(t, "update", [review EXCEPT !.text = text])

Moderate(m, status) ==
  /\ review # NoReview
  /\ BeginReview(m, "moderate", [review EXCEPT !.status = status])

\* UNIQUE (user_id, course_id) refuses a second review.
Second(c) == c.op = "create" /\ review # NoReview

SaveReview(x) ==
  LET c == rcall[x]
  IN /\ c.op # "idle"
     /\ rcall' = [rcall EXCEPT ![x] = NoReviewCall]
     /\ IF Second(c) THEN UNCHANGED <<review, torn>>
        ELSE /\ review' = c.new
             /\ torn' = (torn \/ review # c.old)
     /\ UNCHANGED late

TimePasses ==
  /\ review # NoReview /\ ~late
  /\ late' = TRUE
  /\ UNCHANGED <<review, rcall, torn>>

-----------------------------------------------------------------------------
Review == [text : Texts \cup {"none"}, status : {"none", "pending"} \cup Decided]

ReviewsTypeOK ==
  /\ review \in Review
  /\ rcall \in [Writers -> [op : {"idle", "create", "update", "moderate"},
                            old : Review, new : Review]]
  /\ late \in BOOLEAN /\ torn \in BOOLEAN

\* What became of a review is what a moderator decided last, whatever the learner does to it
\* meanwhile: its status changes only by a decision, unless an edit that had read the row
\* before the decision writes it back, or one decision another.
DecisionStands ==
  [][review # NoReview /\ review'.status # review.status
       => torn' \/ \E m \in Moderators : rcall[m].op = "moderate" /\ rcall'[m] # rcall[m]]_reviewVars
=============================================================================
