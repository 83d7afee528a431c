----------------------------- MODULE ClassPages -----------------------------
(***************************************************************************)
(* The admin's pages of live classes, over the service of Bookings: the    *)
(* form that creates or edits a class and asks for the instructor's        *)
(* availability while rows are typed (ClassForm.tsx), the list, the        *)
(* calendar, and the tabs of one class, which ask for what the rows they   *)
(* loaded allow.  Of a class's terms only what somebody checks is kept.    *)
(***************************************************************************)
EXTENDS Bookings

CONSTANTS
  Desks,       \* who works with the service: direct "calls", the "form", the "pages"
  Edited,      \* the class of the form and the pages
  Clerk,       \* their request
  Entered,     \* terms an admin enters
  Ahead,       \* AVAILABILITY_WINDOW_DAYS
  MaxChecks    \* bound: availability queries under way

ASSUME ClassPagesAssumption ==
  /\ Edited \in Classes /\ Clerk \in Calls /\ Ahead \in Nat /\ MaxChecks \in Nat
  /\ Desks \subseteq {"calls", "form", "pages"}

VARIABLES desk, terms, form, page

pageVars == <<desk, terms, form, page>>
allVars == <<vars, pageVars>>

\* What is typed is blank, invalid or fine; what is stored is fine or null ("blank").
Terms == [type : {"GROUP", "PRIVATE"}, model : {"FREE", "ONE_TIME", "RECURRING"},
          price : {"blank", "bad", "ok"}, capacity : {"blank", "bad", "ok"}]

EmptyTerms == [type |-> "GROUP", model |-> "FREE", price |-> "blank", capacity |-> "blank"]

NoForm == <<>>
NoPage == <<>>

Accepted(body) == (body.model # "FREE" => body.price = "ok") /\ body.capacity # "bad"
AcceptedPatch(body) == body.price # "bad" /\ body.capacity # "bad"

\* Before toClassRequestBody: what a field that is not shown holds is not sent.
Body(v) ==
  [v EXCEPT !.price = IF v.model = "FREE" THEN "blank" ELSE @,
            !.capacity = IF v.type = "GROUP" THEN @ ELSE "blank"]

Valid(v) ==
  /\ v.model # "FREE" => v.price = "ok"
  /\ v.type = "GROUP" => v.capacity # "bad"

PagesInit ==
  /\ Init
  /\ desk \in Desks
  /\ terms = [k \in Classes |-> EmptyTerms]
  /\ form = NoForm /\ page = NoPage

-----------------------------------------------------------------------------
(* The form *)

\* create/page.tsx and EditTab.tsx: what the form starts with.
Initial(k) ==
  [of |-> k, by |-> class[k].status # "none", rows |-> class[k].schedules, terms |-> terms[k],
   timer |-> class[k].status # "none" /\ class[k].schedules # {},
   checks |-> {}, conflicts |-> {}, checked |-> {}, stale |-> FALSE, sending |-> FALSE]

OpenForm ==
  /\ desk = "form" /\ form = NoForm
  /\ form' = Initial(Edited)
  /\ UNCHANGED <<vars, desk, terms, page>>

Typing == form # NoForm /\ ~form.sending

\* The effect of a change of the instructor or the rows: without either there is no
\* conflict, else the timer starts again.  Queries under way go on.
Changed(f) ==
  LET old == {[a EXCEPT !.last = FALSE] : a \in f.checks}
  IN IF f.by /\ f.rows # {} THEN [f EXCEPT !.timer = TRUE, !.checks = old]
     ELSE [f EXCEPT !.timer = FALSE, !.checks = old, !.conflicts = {}, !.checked = {}, !.stale = FALSE]

\* The rows are left out of the effect's dependencies.
EditRows_NoCheck ==
  /\ Typing
  /\ \E S \in SUBSET Templates \ {form.rows} : form' = [form EXCEPT !.rows = S]
  /\ UNCHANGED <<vars, desk, terms, page>>

\* addScheduleRow, updateScheduleRow, removeScheduleRow
EditRows ==
  /\ Typing
  /\ \E S \in SUBSET Templates \ {form.rows} : form' = Changed([form EXCEPT !.rows = S])
  /\ UNCHANGED <<vars, desk, terms, page>>

\* The other fields; type, model and instructor are fixed once the class is there.
EnterTerms ==
  /\ Typing
  /\ \/ \E t \in Entered \ {form.terms} :
          /\ class[form.of].status # "none" => t.type = form.terms.type /\ t.model = form.terms.model
          /\ form' = [form EXCEPT !.terms = t]
     \/ ~form.by /\ form' = Changed([form EXCEPT !.by = TRUE])
  /\ UNCHANGED <<vars, desk, terms, page>>

\* getInstructorAvailability(): the instructor's sessions, without those of this class.
Availability(k) ==
  {row[r] : r \in {r \in Rows : /\ Active(r) /\ row[r].of # k
                               /\ row[r].from < now + Ahead /\ row[r].to > now}}

\* findScheduleConflicts(): a slot of the week stands for a day and a time of it.
Conflicts(S, busy) == {s \in S : s.len > 0 /\ \E b \in busy : b.from % Week = s.day}

\* The timer fires; the query reads at once, its answer takes its time.  A class that
\* is not there yet excludes nothing.
Check ==
  /\ form # NoForm /\ form.timer
  /\ Cardinality(form.checks) < MaxChecks
  /\ LET a == [rows |-> form.rows, hits |-> Conflicts(form.rows, Availability(form.of)), last |-> TRUE]
     IN form' = [form EXCEPT !.timer = FALSE, !.checks = @ \cup {a}]
  /\ UNCHANGED <<vars, desk, terms, page>>

CheckAnswers(a) ==
  /\ form' = [form EXCEPT !.checks = @ \ {a}, !.conflicts = a.hits, !.checked = a.rows, !.stale = ~a.last]
  /\ UNCHANGED <<vars, desk, terms, page>>

CheckFails(a) ==
  /\ form' = [form EXCEPT !.checks = @ \ {a}, !.conflicts = {}, !.checked = a.rows, !.stale = ~a.last]
  /\ UNCHANGED <<vars, desk, terms, page>>

\* handleSubmit; the button is off while conflicts are shown, and a check that is not
\* answered stops nobody.
CanSubmit == Typing /\ form.by /\ Valid(form.terms) /\ form.conflicts = {} /\ At(Clerk, "idle")

\* create(): one insert.  The page goes to the class, and a refusal leaves the form.
SubmitNew ==
  LET body == Body(form.terms) IN
  /\ CanSubmit
  /\ Accepted(body)
  /\ CreateClass(form.of, form.rows)
  /\ terms' = [terms EXCEPT ![form.of] = body]
  /\ form' = NoForm
  /\ UNCHANGED <<desk, page>>

\* update(): the terms and the rows are written, then the sessions are generated.
SubmitEdit ==
  LET body == Body(form.terms) IN
  /\ CanSubmit
  /\ AcceptedPatch(body)
  /\ UpdateSchedules(Clerk, form.of, form.rows)
  /\ terms' = [terms EXCEPT ![form.of].price = body.price, ![form.of].capacity = body.capacity]
  /\ form' = [form EXCEPT !.sending = TRUE]
  /\ UNCHANGED <<desk, page>>

\* The request ends: a refused one leaves the form as it is, the others reload the page.
Refused == At(Clerk, "generate") /\ \E doc \in call[Clerk].todo : Occurrences(doc[2]) # {}
FormGoesOn ==
  /\ desk = "form" /\ Proceed(Clerk)
  /\ form' = IF form = NoForm \/ ~form.sending \/ call'[Clerk] # NoCall THEN form
             ELSE IF Refused THEN [form EXCEPT !.sending = FALSE] ELSE NoForm
  /\ UNCHANGED <<desk, terms, page>>

\* Another class of the instructor gets a session meanwhile.
OtherBooks ==
  /\ desk = "form"
  /\ \E k \in Classes \ {Edited}, s \in Slots :
       IF class[k].status = "none" THEN CreateClass(k, {}) ELSE CreateManual(Clerk, k, s)
  /\ UNCHANGED pageVars

FormNext ==
  \/ OpenForm \/ EditRows \/ EnterTerms \/ Check \/ SubmitNew \/ SubmitEdit
  \/ FormGoesOn \/ OtherBooks
  \/ form # NoForm /\ \E a \in form.checks : CheckAnswers(a) \/ CheckFails(a)
  \/ desk = "form" /\ Tick /\ UNCHANGED pageVars

-----------------------------------------------------------------------------
(* The list, the calendar and the tabs: what they ask for depends on the    *)
(* rows they loaded, which may have changed.                                *)

Loads(at) == [at |-> at, class |-> class[Edited], rows |-> row]
Show(at) == desk = "pages" /\ page' = Loads(at)
On(at) == desk = "pages" /\ page # NoPage /\ page.at = at /\ At(Clerk, "idle")

OpenList ==
  /\ page # NoPage => page.at # "list"
  /\ Show("list") /\ UNCHANGED <<vars, desk, terms, form>>

\* The calendar asks for the sessions of every class of the list; one that fails has none.
OpenCalendar ==
  /\ On("list")
  /\ \/ Show("calendar")
     \/ page' = [Loads("calendar") EXCEPT !.rows = [r \in Rows |-> NoRow]]
  /\ UNCHANGED <<vars, desk, terms, form>>

\* [id]/page.tsx; a tab more is there for a class by invitation.
OpenClass(tab) ==
  /\ On("list") /\ page.class.status # "none"
  /\ Show(tab) /\ UNCHANGED <<vars, desk, terms, form>>

ListPublishes ==
  /\ On("list") \/ On("overview")
  /\ page.class.status = "DRAFT"
  /\ Publish(Clerk, Edited)
  /\ UNCHANGED pageVars

\* OverviewTab.tsx: locking the chat is in Classroom.
OverviewEnds ==
  /\ On("overview")
  /\ page.class.status = "ACTIVE"
  /\ EndClass(Clerk, Edited)
  /\ UNCHANGED pageVars

\* handleEventChange: any event can be dragged; one that is over is refused.
CalendarMoves(r, s) ==
  /\ On("calendar")
  /\ page.rows[r].status # "none"
  /\ Reschedule(Clerk, r, s)
  /\ UNCHANGED pageVars

\* handleCreate of SessionsTab.tsx
SessionsCreate(s) ==
  /\ On("sessions")
  /\ CreateManual(Clerk, Edited, s)
  /\ UNCHANGED pageVars

SessionsStart(r) ==
  /\ On("sessions")
  /\ page.rows[r].status = "SCHEDULED" /\ page.rows[r].of = Edited
  /\ Start(Clerk, r)
  /\ UNCHANGED pageVars

SessionsEnd(r) ==
  /\ On("sessions")
  /\ page.rows[r].status \in {"SCHEDULED", "LIVE"} /\ page.rows[r].of = Edited
  /\ End(Clerk, r)
  /\ UNCHANGED pageVars

\* The request ends: refetch(), or what was loaded stays when it was refused.
PageGoesOn ==
  /\ desk = "pages" /\ Proceed(Clerk)
  /\ \/ page' = page
     \/ call'[Clerk] = NoCall /\ page # NoPage
        /\ page' = [at |-> page.at, class |-> class'[Edited], rows |-> row']
  /\ UNCHANGED <<desk, terms, form>>

PagesNext ==
  \/ OpenList \/ OpenCalendar \/ \E tab \in {"overview", "sessions"} : OpenClass(tab)
  \/ ListPublishes \/ OverviewEnds
  \/ \E r \in Rows : SessionsStart(r) \/ SessionsEnd(r) \/ \E s \in Slots : CalendarMoves(r, s)
  \/ \E s \in Slots : SessionsCreate(s)
  \/ PageGoesOn
  \/ /\ desk = "pages"
     /\ \/ \E S \in SUBSET Templates : CreateClass(Edited, S)
        \/ AutoEndStaleSessions \/ Tick
     /\ UNCHANGED pageVars

-----------------------------------------------------------------------------
CallsNext == desk = "calls" /\ Work({Edited}) /\ UNCHANGED pageVars

SiteSpec == PagesInit /\ [][CallsNext \/ FormNext \/ PagesNext]_allVars

-----------------------------------------------------------------------------
(* Properties *)

\* What is stored is what the form can send, and a page shows rows that were there.
PagesTypeOK ==
  /\ TypeOK
  /\ terms \in [Classes -> Terms]
  /\ form # NoForm => form.terms \in Terms /\ form.rows \subseteq Templates
  /\ page # NoPage => page.rows \in [Rows -> Session]

\* The conflicts shown are about the rows in the form, once nothing is on its way, unless
\* an answer was overtaken by a later one, or by the removal of all rows.
ConflictsAreCurrent ==
  form # NoForm /\ ~form.timer /\ form.checks = {} /\ ~form.stale =>
    form.checked = IF form.by THEN form.rows ELSE {}
=============================================================================
