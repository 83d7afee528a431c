---------------------------- MODULE AccountPages ----------------------------
(***************************************************************************)
(* The pages of Accounts: those on which a student signs in, verifies the  *)
(* address, and changes the password or the profile, in one tab of the     *)
(* student's browser, with what AuthContext takes the student for; and the *)
(* administrator's page of that student.  A page that is left does not     *)
(* stop the request it made.  A form that its own validation stops is not  *)
(* submitted, and refreshUser() is one step.                               *)
(***************************************************************************)
EXTENDS Accounts

CONSTANTS
  Desks,       \* where requests come from: anywhere ("requests"), or the "pages"
  MaxClicks    \* bound: requests of the pages

ASSUME AccountPagesAssumption ==
  Desks \subseteq {"requests", "pages"} /\ MaxClicks \in 0..MaxCalls

VARIABLES
  desk,
  page,      \* the tab
  console,   \* the administrator's page
  over       \* history: what was told to either may have been overtaken

pageVars == <<desk, page, console, over>>
siteVars == <<vars, pageVars>>

Places == {"home", "login", "verify", "forgot", "reset", "profile"}

\* `by` is the request the page waits for, `answer` how it went; `told` is the last
\* message, `who` the AuthState.
Page == [at : Places, by : SUBSET Tabs, kind : Kinds \cup {"none"}, pw : Password,
         answer : {"none", "ok", "error"}, cooling : BOOLEAN,
         who : {"out", "in"},
         told : {"nothing", "verified", "reset", "changed"}]

\* refreshUser(): fetch(), not apiFetch(), which would renew the session.
RefreshUser == IF jar \in access THEN "in" ELSE "out"

\* A page that is loaded asks who the student is.  RegisterPage leads to the code.
PagesInit ==
  /\ Init /\ desk \in Desks
  /\ page = [at |-> IF user.verified THEN "home" ELSE "verify", by |-> {}, kind |-> "none",
             pw |-> "new", answer |-> "none", cooling |-> FALSE, who |-> RefreshUser,
             told |-> "nothing"]
  /\ console = <<>>
  /\ over = [page |-> FALSE, console |-> FALSE]

-----------------------------------------------------------------------------
(* The student's pages *)

At(p) == desk = "pages" /\ page.at = p

\* proxy(): a page that asks for a session, and no cookie.
Redirected(p) == IF p = "profile" /\ jar = 0 THEN "login" ELSE p

\* A link or the address bar; an address reloads the application.
Visit(p, reloads) ==
  /\ desk = "pages"
  /\ page' = [page EXCEPT !.at = Redirected(p), !.by = {}, !.kind = "none", !.answer = "none",
                          !.cooling = FALSE, !.who = IF reloads THEN RefreshUser ELSE @,
                          !.told = IF reloads THEN "nothing" ELSE @]
  /\ UNCHANGED <<vars, desk, console, over>>

Submit(t, kind) ==
  /\ page.by = {} /\ asked < MaxClicks /\ kind \in Asked
  /\ AskFor(t, kind)
  /\ page' = [page EXCEPT !.by = {t}, !.kind = kind, !.told = "nothing", !.pw = call'[t].pw]
  /\ over' = [over EXCEPT !.page = FALSE]
  /\ UNCHANGED <<desk, console>>

LoginPage(t)  == At("login") /\ Submit(t, "login")
ForgotPage(t) == At("forgot") /\ Submit(t, "forgot")
ResetPage(t)  == At("reset") /\ Submit(t, "reset")
VerifyPage(t) ==
  At("verify") /\ (Submit(t, "verify") \/ (~page.cooling /\ Submit(t, "resend")))
ProfileTab(t) == At("profile") /\ Submit(t, "profile")
AccountTab(t) == At("profile") /\ Submit(t, "change")
Logout(t)     == At("home") /\ page.who = "in" /\ Submit(t, "logout")

\* apiFetch() throws on no answer.
Succeeds_Always(a) == TRUE

\* apiFetch(): the answer that ends the request is 2xx.  A logout is answered 200 however it
\* went, and the cookies of a login may not arrive.
Succeeds(a) ==
  LET c == call[a] IN
  \/ c.step = "commit" /\ (c.kind = "reset" => RowsThere(c.seen)) /\ (c.kind = "login" => jar' # jar)
  \/ c.step = "sent" /\ c.kind = "forgot"
  \/ c.step = "sent" /\ c.kind = "resend" /\ ~limited

\* A request writes the row it read before another was committed.
WritesLate == \E a \in Actors : call[a].late /\ call'[a] # call[a] /\ user' # user

\* The service goes on, and may answer the page.  A verification code that is still good
\* activates the account, whatever an administrator has made of it.
Served(t) ==
  /\ desk = "pages" /\ Serve(t)
  /\ page' = IF t \in page.by /\ call'[t].step = "idle"
             THEN [page EXCEPT !.answer = IF Succeeds(t) THEN "ok" ELSE "error"] ELSE page
  /\ over' = [page    |-> over.page \/ WritesLate \/ (t \notin page.by /\ user' # user),
              console |-> over.console \/ WritesLate \/ user'.status # user.status]
  /\ UNCHANGED <<desk, console>>

Then(p) == [page EXCEPT !.by = {}, !.kind = "none", !.answer = "none", !.at = p]

\* The rest of handleSubmit, handleResend and handleLogout: logout() forgets the student
\* even if the request failed.
Answered ==
  /\ desk = "pages" /\ page.answer # "none"
  /\ page' = IF page.kind = "logout" THEN [Then("home") EXCEPT !.who = "out"]
             ELSE IF page.answer = "error" THEN Then(page.at)
             ELSE CASE page.kind = "login"   -> [Then("profile") EXCEPT !.who = RefreshUser]
                    [] page.kind = "verify"  -> [Then("login") EXCEPT !.told = "verified"]
                    [] page.kind = "resend"  -> [Then("verify") EXCEPT !.cooling = TRUE]
                    [] page.kind = "forgot"  -> Then("reset")
                    [] page.kind = "reset"   -> [Then("login") EXCEPT !.told = "reset"]
                    [] page.kind = "profile" -> [Then("profile") EXCEPT !.who = RefreshUser]
                    [] page.kind = "change"  -> [Then("profile") EXCEPT !.told = "changed"]
  /\ UNCHANGED <<vars, desk, console, over>>

\* The countdown of the button that sends another code.
Cooled ==
  /\ page.cooling
  /\ page' = [page EXCEPT !.cooling = FALSE]
  /\ UNCHANGED <<vars, desk, console, over>>

-----------------------------------------------------------------------------
(* The administrator's page of the student *)

Console == [status |-> user.status, busy |-> FALSE, told |-> "nothing"]

OpenStudent ==
  /\ desk = "pages" /\ (console # <<>> => ~console.busy)
  /\ console' = Console
  /\ UNCHANGED <<vars, desk, page, over>>

\* toggleStatus: by the status that was loaded; there is a button for these two.
ToggleStatus ==
  /\ console # <<>> /\ ~console.busy /\ asked < MaxClicks
  /\ console.status \in {"ACTIVE", "SUSPENDED"}
  /\ LET kind == IF console.status = "SUSPENDED" THEN "activate" ELSE "suspend"
     IN kind \in Asked /\ AskFor(Admin, kind)
  /\ console' = [console EXCEPT !.busy = TRUE, !.told = "nothing"]
  /\ over' = [over EXCEPT !.console = FALSE]
  /\ UNCHANGED <<desk, page>>

\* The service goes on, and answers in the end; the page loads the student again.
ServedAdmin ==
  /\ desk = "pages" /\ Serve(Admin)
  /\ console' = IF call'[Admin].step = "idle"
                THEN [status |-> user'.status, busy |-> FALSE,
                      told |-> IF call[Admin].kind = "suspend" THEN "suspended" ELSE "activated"]
                ELSE console
  /\ over' = [over EXCEPT !.page = @ \/ WritesLate, !.console = @ \/ WritesLate]
  /\ UNCHANGED <<desk, page>>

-----------------------------------------------------------------------------
Times == AccessExpires \/ CodeExpires \/ MinutePasses \/ LockEnds

PagesNext ==
  \/ \E p \in Places, reloads \in BOOLEAN : Visit(p, reloads)
  \/ \E t \in Tabs : \/ LoginPage(t) \/ ForgotPage(t) \/ ResetPage(t) \/ VerifyPage(t)
                     \/ ProfileTab(t) \/ AccountTab(t) \/ Logout(t)
                     \/ Served(t)
  \/ Answered \/ Cooled
  \/ OpenStudent \/ ToggleStatus \/ ServedAdmin
  \/ desk = "pages" /\ Times /\ UNCHANGED pageVars

PagesSpec ==
  PagesInit /\ [][(desk = "requests" /\ Next /\ UNCHANGED pageVars) \/ PagesNext]_siteVars

-----------------------------------------------------------------------------
(* Properties *)

\* What the pages announce is so: a verified address, a new password, a suspension -- until
\* a request overtakes it that had read the account's row before, or that its page had left,
\* or a code that was sent before the suspension verifies the address.
ToldIsTrue ==
  /\ ~over.page => CASE page.told = "verified" -> user.verified
                     [] page.told = "reset"    -> user.password = "new"
                     [] page.told = "changed"  -> user.password # page.pw
                     [] OTHER                  -> TRUE
  /\ console # <<>> /\ ~over.console =>
       CASE console.told = "suspended" -> user.status = "SUSPENDED"
         [] console.told = "activated" -> user.status = "ACTIVE"
         [] OTHER                      -> TRUE
=============================================================================
