-------------------------- MODULE AnnouncementPages --------------------------
(***************************************************************************)
(* The administrator's pages of announcements over the service of Notices: *)
(* the list, the form that creates one, and the page of one, with the      *)
(* form again and the dialog that confirms a publication.  One             *)
(* administrator writes one announcement and no request comes from         *)
(* elsewhere, while the sweeps run.  A page shows what it loaded, whatever *)
(* the announcement is by now.                                             *)
(***************************************************************************)
EXTENDS Notices

CONSTANT Entered      \* what may be typed into the form

\* AnnouncementFormValues.  Priority, expiry and audience are the scenario's; `filled`
\* and `audience` are what the validation looks at.
FormValues == [filled : BOOLEAN, audience : {"all", "courses", "no course"},
               schedule : {"draft", "now", "later"}, at : Times]

ASSUME EnteredAssumption == Entered \subseteq FormValues

VARIABLES
  desk,      \* who asks: "requests" of anybody, or the "pages"
  page,
  stale      \* history: a page was left, or used on, without the answer to a save

pageVars == <<desk, page, stale>>
siteVars == <<vars, pageVars>>

NoPage == <<>>
Modals == {"none", "counting", "unknown", "ready", "publishing"}

PagesInit ==
  /\ Init
  /\ desk = IF ann.status = "none" THEN "pages" ELSE "requests"
  /\ page = NoPage /\ stale = FALSE

-----------------------------------------------------------------------------
(* The form *)

At(p) == page # NoPage /\ page.at = p

\* announcementToFormValues(): the stored time is cut out of its UTC text and put in a
\* field of local time, so that saving it again moves it by the offset of the browser.
Refilled ==
  IF ~At("detail") THEN {}
  ELSE {[filled |-> TRUE, audience |-> "all",
         schedule |-> IF page.publishAt = "none" THEN "draft" ELSE "later", at |-> t] :
          t \in IF page.publishAt = "none" THEN {"none"} ELSE {"future", "past"}}

\* validateAnnouncementForm() finds nothing.
Valid(v) ==
  v.filled /\ v.audience # "no course" /\ (v.schedule = "later" => v.at # "none")

\* The time is sent whenever it is filled in.
ToRequestBody_AnySchedule(v) == IF v.at # "none" THEN v.at ELSE "kept"

\* toAnnouncementRequestBody(): only "later" sends a time; otherwise it is left out.
ToRequestBody(v) == IF v.schedule = "later" /\ v.at # "none" THEN v.at ELSE "kept"

CanEdit(status) == status = "draft"

-----------------------------------------------------------------------------
(* The pages *)

List == [at |-> "list", status |-> ann'.status, chosen |-> FALSE]
Detail == [at |-> "detail", status |-> ann'.status, publishAt |-> ann'.at,
           modal |-> "none", saving |-> FALSE, by |-> {}]
NewForm == [at |-> "create", chose |-> "draft", modal |-> "none", saving |-> FALSE,
            by |-> {}]

OpenList ==
  /\ desk = "pages" /\ page = NoPage
  /\ UNCHANGED <<vars, desk, stale>>
  /\ page' = List

Choose ==
  /\ At("list") /\ page.status \notin {"none", "removed"}
  /\ page' = [page EXCEPT !.chosen = ~@]
  /\ UNCHANGED <<vars, desk, stale>>

\* handleBulkDelete
DeleteChosen ==
  /\ At("list") /\ page.chosen
  /\ Remove
  /\ page' = List
  /\ UNCHANGED <<desk, stale>>

OpenCreate ==
  /\ At("list") /\ ann.status = "none"
  /\ page' = NewForm
  /\ UNCHANGED <<vars, desk, stale>>

OpenDetail ==
  /\ At("list") /\ page.status \notin {"none", "removed"}
  /\ UNCHANGED <<vars, desk, stale>>
  /\ page' = Detail

ReadOnly == page.at = "detail" /\ ~CanEdit(page.status)

\* AnnouncementForm can be submitted with v in its fields, behind no dialog.
Submits(v) == ~ReadOnly /\ page.modal = "none" /\ ~page.saving /\ Valid(v)

\* handleSubmit of CreateAnnouncementPage: saved as a draft; to send it is confirmed in a
\* second step.
SubmitNew(v) ==
  /\ At("create") /\ Submits(v)
  /\ LET at == ToRequestBody(v) IN Create(IF at = "kept" THEN "none" ELSE at)
  /\ page' = IF v.schedule = "draft" THEN Detail
             ELSE [page EXCEPT !.modal = "counting", !.chose = v.schedule]
  /\ UNCHANGED <<desk, stale>>

\* handleSave of AnnouncementDetailPage.  The fields start with what was loaded.
SubmitEdit(v) ==
  /\ At("detail") /\ Submits(v)
  /\ EditRead(ToRequestBody(v))
  /\ page' = [page EXCEPT !.saving = TRUE]
  /\ UNCHANGED <<desk, stale>>

\* The save is answered, and the page loads the announcement again, behind a dialog that
\* stays and counts again; or it failed, or its answer is lost.
Saved ==
  /\ At("detail") /\ page.saving /\ edit = NoEdit
  /\ UNCHANGED <<vars, desk>>
  /\ \/ /\ page' = [Detail EXCEPT !.modal = IF page.modal = "none" THEN @ ELSE "counting",
                                  !.by = page.by]
        /\ UNCHANGED stale
     \/ page' = [page EXCEPT !.saving = FALSE] /\ stale' = TRUE

-----------------------------------------------------------------------------
(* PublishConfirmModal *)

\* What the dialog announces: on the page of an announcement by the time that was loaded,
\* after creating by what was chosen in the form.
Says == IF page.at = "create" THEN page.chose
        ELSE IF page.publishAt = "none" THEN "now" ELSE "later"

\* The button of the detail page.
OpenConfirm ==
  /\ At("detail") /\ page.status = "draft" /\ page.modal = "none"
  /\ page' = [page EXCEPT !.modal = "counting"]
  /\ UNCHANGED <<vars, desk, stale>>

\* recipientCount() is answered, or fails, which disables the button.
Counted ==
  /\ page # NoPage /\ ~At("list") /\ page.modal = "counting"
  /\ \/ page' = [page EXCEPT !.modal = "ready"]
     \/ page' = [page EXCEPT !.modal = "unknown"]
  /\ UNCHANGED <<vars, desk, stale>>

\* handleConfirm
Confirm(p) ==
  /\ page # NoPage /\ ~At("list") /\ page.modal = "ready"
  /\ Publish(p)
  /\ page' = [page EXCEPT !.modal = "publishing", !.by = @ \cup {p}]
  /\ stale' = (stale \/ page.saving)
  /\ UNCHANGED desk

\* onPublished, whether or not the dialog is still there, or an error, after which it can
\* be tried again.
Published(p) ==
  /\ page # NoPage /\ ~At("list")
  /\ p \in page.by /\ ~Busy(p)
  /\ UNCHANGED <<vars, desk, stale>>
  /\ \/ page' = [Detail EXCEPT !.saving = page.saving]
     \/ page' = [page EXCEPT !.by = @ \ {p}, !.modal = IF @ = "publishing" THEN "ready" ELSE @]

\* "Cancel" waits for the answer; Escape and the backdrop of Modal do not.
CloseModal ==
  /\ page # NoPage /\ ~At("list") /\ page.modal # "none"
  /\ UNCHANGED <<vars, desk, stale>>
  /\ page' = IF At("create") THEN Detail ELSE [page EXCEPT !.modal = "none"]

\* handleDelete
Delete ==
  /\ At("detail") /\ page.modal = "none"
  /\ Remove
  /\ page' = List
  /\ stale' = (stale \/ page.saving)
  /\ UNCHANGED desk

Leave ==
  /\ At("create") \/ At("detail")
  /\ stale' = (stale \/ page.saving)
  /\ UNCHANGED <<vars, desk>>
  /\ page' = List

-----------------------------------------------------------------------------
\* What goes on without a page.
Goes ==
  \/ \E p \in Publishers : Sweep(p) \/ Running(p) \/ Throws(p)
  \/ EditWrite \/ SweepExpired \/ Time
  \/ Stream \/ Restart

\* announcementsApi and the pages that call it.
PagesNext ==
  \/ OpenList \/ Choose \/ DeleteChosen \/ OpenCreate \/ OpenDetail
  \/ \E v \in Entered : SubmitNew(v)
  \/ \E v \in Entered \cup Refilled : SubmitEdit(v)
  \/ Saved
  \/ OpenConfirm \/ Counted
  \/ \E p \in Publishers : Confirm(p) \/ Published(p)
  \/ CloseModal \/ Delete \/ Leave
  \/ desk = "pages" /\ Goes /\ UNCHANGED pageVars

PagesSpec ==
  /\ PagesInit
  /\ [][(desk = "requests" /\ Next /\ UNCHANGED pageVars) \/ PagesNext]_siteVars
  /\ Fairness

-----------------------------------------------------------------------------
(* Properties *)

\* A page shows what it loaded, whatever there is now (announcements.types.ts).
PagesTypeOK ==
  /\ TypeOK
  /\ page # NoPage => At("create") \/ page.status \in Statuses
  /\ page # NoPage /\ ~At("list") => page.modal \in Modals /\ page.by \subseteq Publishers
  /\ stale \in BOOLEAN

\* What was confirmed as going out now is not put off to a time, whichever page confirmed
\* it and however often the form was saved before, as long as every save was answered.
NowIsNow ==
  [][\A p \in Publishers :
       desk = "pages" /\ pub[p].pc # "schedule" /\ pub'[p].pc = "schedule"
         => Says = "later" \/ stale']_siteVars
=============================================================================
