----------------------------- MODULE ClassSignup -----------------------------
(***************************************************************************)
(* The pages that enroll into a live class, over the service of            *)
(* LiveEnrollments: the card of the class and the page of an invitation,   *)
(* for one student, and the administrator's tabs of enrollments and        *)
(* invitations.  Each shows the rows it loaded, whatever they are by now,  *)
(* and offers what those allow.  To bound the model, one page is open at a *)
(* time and one of their requests in flight.                               *)
(***************************************************************************)
EXTENDS LiveEnrollments

CONSTANTS
  Desks,     \* where requests come from: anywhere ("requests"), or the "pages"
  Reader     \* the student whose pages are open

ASSUME ClassSignupAssumption == Reader \in Students /\ Desks \subseteq {"requests", "pages"}

VARIABLES
  desk,
  card,      \* the student's page
  tab        \* the administrator's

signup == <<desk, card, tab>>
siteVars == <<vars, signup>>

\* What GET /api/classes and /api/classes/enrollments/mine, and the preview of the
\* invitation, brought.
Card == [at : {"list", "invitation", "classroom"}, status : Statuses, ended : BOOLEAN,
         invitation : {"none", "pending", "accepted"}, busy : BOOLEAN]
NoCard == <<>>
Tab == [at : {"enrollments"}, shown : SUBSET Students]
         \cup [at : {"invitations"}, found : SUBSET Students]
NoTab == <<>>

SignupInit == Init /\ desk \in Desks /\ card = NoCard /\ tab = NoTab

-----------------------------------------------------------------------------
(* The student *)

Loaded(at) == [at |-> at, status |-> status[Reader], ended |-> class.ended,
               invitation |-> invitation[Reader], busy |-> FALSE]
Alone == \A c \in Calls : At(c, "idle")
Open(at) == desk = "pages" /\ card # NoCard /\ card.at = at /\ ~card.busy

\* The public list holds classes that are open; a class by invitation shows among the
\* student's own.  The student's enrollments are a request of their own: until it is
\* answered, or when it fails, the card takes the student for a stranger.
Browse ==
  /\ desk = "pages" /\ tab = NoTab /\ (card # NoCard => ~card.busy)
  /\ \E s \in {status[Reader], "none"} :
       /\ class.access = "OPEN" \/ s # "none"
       /\ card' = [Loaded("list") EXCEPT !.status = s]
  /\ UNCHANGED <<vars, desk, tab>>

\* An enrollment that ended does not count as one.
ClassCardAction ==
  CASE card.status = "ACTIVE"          -> "enter-classroom"
    [] card.status = "PENDING_PAYMENT" -> "payment-pending"
    [] card.ended                      -> "ended"
    [] class.payment = "FREE"           -> "enroll-free"
    [] class.payment = "RECURRING"      -> "subscribe"
    [] OTHER                           -> "buy"

\* handleAction of LiveClassCard.tsx.  enroll() refuses a class by invitation.
CardEnrolls(c) ==
  /\ Open("list") /\ Alone
  /\ ClassCardAction \in {"enroll-free", "buy", "subscribe"}
  /\ IF class.access = "OPEN" THEN Enroll(c, Reader) ELSE UNCHANGED vars
  /\ card' = [card EXCEPT !.busy = TRUE]
  /\ UNCHANGED <<desk, tab>>

\* The page of the classroom loads the enrollments again.
EnterClassroom ==
  /\ Open("list") /\ ClassCardAction = "enter-classroom"
  /\ card' = Loaded("classroom")
  /\ UNCHANGED <<vars, desk, tab>>

\* getInvitationPreview(): whoever has the link may read.
OpenInvitation ==
  /\ desk = "pages" /\ tab = NoTab /\ (card # NoCard => ~card.busy)
  /\ invitation[Reader] # "none"
  /\ card' = Loaded("invitation")
  /\ UNCHANGED <<vars, desk, tab>>

\* The page offers what was pending when it was loaded.
AcceptInvitation(c) ==
  /\ Open("invitation") /\ card.invitation = "pending" /\ Alone
  /\ Enroll(c, Reader)
  /\ card' = [card EXCEPT !.busy = TRUE]
  /\ UNCHANGED <<desk, tab>>

CloseCard ==
  /\ card # NoCard /\ ~card.busy
  /\ card' = NoCard
  /\ UNCHANGED <<vars, desk, tab>>

\* The request is answered: with a checkout link, which the browser follows; with the
\* enrollment, and the page goes to the classroom; or with an error.
Answered ==
  /\ card # NoCard /\ card.busy
  /\ \A c \in Calls : Reader \notin call[c].student
  /\ \/ status[Reader] = "PENDING_PAYMENT" /\ card' = NoCard
     \/ status[Reader] # "none" /\ card' = Loaded("classroom")
     \/ card' = [card EXCEPT !.busy = FALSE]
  /\ UNCHANGED <<vars, desk, tab>>

-----------------------------------------------------------------------------
(* The administrator *)

\* listForClass()
OpenEnrollments ==
  /\ desk = "pages" /\ tab = NoTab /\ card = NoCard
  /\ tab' = [at |-> "enrollments", shown |-> {st \in Students : status[st] # "none"}]
  /\ UNCHANGED <<vars, desk, card>>

\* handleRemove: every row but a removed one has the button, and no row is ever removed.
Remove(c, st) ==
  /\ tab # NoTab /\ tab.at = "enrollments" /\ st \in tab.shown /\ Alone
  /\ Cancel(c, st)
  /\ UNCHANGED signup

OpenInvitations ==
  /\ desk = "pages" /\ tab = NoTab /\ card = NoCard /\ class.access = "INVITE_ONLY"
  /\ tab' = [at |-> "invitations", found |-> {}]
  /\ UNCHANGED <<vars, desk, card>>

\* handleSearch: the first match, or none.
FindStudent ==
  /\ tab # NoTab /\ tab.at = "invitations"
  /\ \E st \in Students : tab' = [tab EXCEPT !.found = {st}]
  /\ UNCHANGED <<vars, desk, card>>

SendInvitation(st) ==
  /\ tab # NoTab /\ tab.at = "invitations" /\ st \in tab.found
  /\ Invite(st)
  /\ tab' = [tab EXCEPT !.found = {}]
  /\ UNCHANGED <<desk, card>>

LeaveTab == tab # NoTab /\ tab' = NoTab /\ UNCHANGED <<vars, desk, card>>

-----------------------------------------------------------------------------
\* What goes on without a page.
Goes ==
  \/ \E c \in Calls : CountSeats(c) \/ Insert(c) \/ Bill(c) \/ Accept(c)
                        \/ CancelBilling(c) \/ CancelRow(c) \/ RequestFails(c)
  \/ \E st \in Students : PayOnce(st) \/ FirstCharge(st) \/ Renew(st) \/ GiveUp(st)
  \/ \E e \in queue : Deliver(e) \/ Drop(e)
  \/ ExpireLapsedEnrollments \/ EndClass \/ Tick

SignupNext ==
  \/ Browse \/ EnterClassroom \/ OpenInvitation \/ Answered \/ CloseCard
  \/ \E c \in Calls : CardEnrolls(c) \/ AcceptInvitation(c) \/ \E st \in Students : Remove(c, st)
  \/ OpenEnrollments \/ OpenInvitations \/ FindStudent \/ LeaveTab
  \/ \E st \in Students : SendInvitation(st)
  \/ desk = "pages" /\ Goes /\ UNCHANGED signup

SignupSpec ==
  SignupInit /\ [][(desk = "requests" /\ Next /\ UNCHANGED signup) \/ SignupNext]_siteVars

\* The consumer takes what is in its queues, and the cron runs, as in FairSpec.
SignupFairSpec ==
  /\ SignupSpec
  /\ \A st \in Students : WF_vars(\E e \in queue : e.student = st /\ Deliver(e))
  /\ WF_vars(ExpireLapsedEnrollments)

-----------------------------------------------------------------------------
(* Properties *)

\* A page shows what it loaded, whatever the enrollment is now (types/index.ts).
SignupTypeOK ==
  /\ TypeOK
  /\ card \in Card \cup {NoCard}
  /\ tab \in Tab \cup {NoTab}
=============================================================================
