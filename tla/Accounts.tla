------------------------------ MODULE Accounts ------------------------------
(***************************************************************************)
(* One account, from its registration on: auth-service, the gateway's      *)
(* filter and apiFetch(), through which the tabs of one browser, which     *)
(* share their cookies, call them, while an administrator may suspend the  *)
(* account.                                                                *)
(*                                                                         *)
(* A request reads the account's row, compares a password or a code, and   *)
(* writes the row back with all its columns when its transaction commits.  *)
(* The row has no version: a commit undoes what others have written to it  *)
(* since it was read.  Codes are in Redis, outside the transaction.        *)
(***************************************************************************)
EXTENDS Integers, FiniteSets

CONSTANTS
  Tabs, Admin,
  MaxFailed,    \* wrong passwords that lock the account; 5 in the code
  Asked,        \* kinds of requests the users make
  MaxCalls,     \* bound: requests
  MaxCodes,     \* bound: codes sent for each purpose
  MaxTokens,    \* bound: refresh tokens issued
  MaxFaults     \* bound: tokens Redis fails to blacklist, and cookies that do not arrive

Kinds == {"login", "logout", "verify", "resend", "forgot", "reset", "change", "profile",
          "suspend", "activate"}

ASSUME AccountsAssumption ==
  /\ Admin \notin Tabs
  /\ Asked \subseteq Kinds
  /\ MaxFailed \in Nat \ {0}
  /\ MaxCalls \in Nat /\ MaxCodes \in Nat \ {0} /\ MaxTokens \in Nat /\ MaxFaults \in Nat

VARIABLES
  user,         \* the account's row
  otp,          \* Redis: the codes it accepts, by purpose
  sent,         \* codes sent by e-mail so far, by purpose
  limited,      \* Redis: a verification code was sent within a minute
  tokens,       \* refresh_tokens: their states and the token each was exchanged for
  access,       \* access tokens the gateway accepts, each named for its refresh token
  jar,          \* cookies: the token they hold, or 0
  call,
  asked, faults,
  hist          \* history, for the properties

vars == <<user, otp, sent, limited, tokens, access, jar, call, asked, faults, hist>>

Actors   == Tabs \cup {Admin}
Password == {"old", "new"}
Ids      == 1..MaxTokens
User     == [status : {"PENDING_VERIFICATION", "ACTIVE", "SUSPENDED"}, verified : BOOLEAN,
             password : Password, failed : 0..(2 * MaxCalls),
             locked : {"never", "now", "before"}]
Token    == [state : {"none", "live", "revoked", "deleted"}, of : 0..MaxTokens]

\* What a request remembers: what was asked with which password and code, whether
\* apiFetch() may still renew the session, the cookies it came with, the row and
\* the tokens it read, and for the history the tokens of the sessions there were when
\* it came and whether another request has committed the row, or exchanged the token,
\* since.
NoCall == [step |-> "idle", kind |-> "none", pw |-> "new", n |-> 0, retry |-> TRUE,
           tok |-> 0, row |-> <<>>, seen |-> {}, found |-> {}, late |-> FALSE]
Is(a, step, kinds) == call[a].step = step /\ call[a].kind \in kinds
Goto(a, new)  == call' = [call EXCEPT ![a] = new]
Step(a, step) == Goto(a, [call[a] EXCEPT !.step = step])
Answer(a)     == Goto(a, NoCall)

\* apiFetch(): a 401 is answered by one attempt to renew the session.
Unauthorized(a) == IF call[a].retry THEN Step(a, "renew") ELSE Answer(a)

Used    == {k \in Ids : tokens[k].state # "none"}
Rows    == {k \in Ids : tokens[k].state \in {"live", "revoked"}}
Next1   == Cardinality(Used) + 1
Issue(of) == [tokens EXCEPT ![Next1] = [state |-> "live", of |-> of]]

\* Registered, and a code sent; or provisioned by an administrator; or signed in.
Init ==
  /\ \E as \in {"registered", "provisioned", "signed in"} :
       /\ user = [status |-> IF as = "registered" THEN "PENDING_VERIFICATION" ELSE "ACTIVE",
                  verified |-> as # "registered", password |-> "old", failed |-> 0,
                  locked |-> "never"]
       /\ sent = [verify |-> IF as = "registered" THEN 1 ELSE 0, fp |-> 0]
       /\ otp = [verify |-> 1..sent.verify, fp |-> {}]
       /\ jar = IF as = "signed in" THEN 1 ELSE 0
  /\ tokens = [k \in Ids |-> [state |-> IF k = jar THEN "live" ELSE "none", of |-> 0]]
  /\ access = {jar} \ {0}
  /\ limited = FALSE
  /\ call = [a \in Actors |-> NoCall]
  /\ asked = 0
  /\ faults = 0
  /\ hist = [spent |-> {}, ended |-> {}, missed |-> {}]

-----------------------------------------------------------------------------
(* Asking, the gateway, and renewing the session.                           *)

Public == {"login", "verify", "resend", "forgot", "reset"}
Admins == {"suspend", "activate"}

\* A call may use two tokens: one to renew the session and one to log in.
RoomForTokens == Cardinality(Used) + 2 * Cardinality({a \in Actors : call[a].step # "idle"}) + 2
                   <= MaxTokens

Purpose(kind) == IF kind = "verify" THEN "verify" ELSE "fp"
Codes(kind) == IF kind \in {"verify", "reset"} THEN 1..sent[Purpose(kind)] ELSE {0}
Passwords(kind) == IF kind \in {"login", "change"} THEN Password ELSE {"new"}

AskFor(a, kind) ==
  /\ Is(a, "idle", {"none"})
  /\ asked < MaxCalls /\ RoomForTokens
  /\ \E pw \in Passwords(kind), n \in Codes(kind) :
       Goto(a, [NoCall EXCEPT !.step = "sent", !.kind = kind, !.pw = pw, !.n = n, !.tok = jar,
                             !.found = IF kind \in {"logout", "reset"} THEN Rows ELSE {}])
  /\ asked' = asked + 1
  /\ UNCHANGED <<user, otp, sent, limited, tokens, access, jar, faults, hist>>

Ask(a) == \E kind \in Asked : (kind \in Admins) = (a = Admin) /\ AskFor(a, kind)

\* JwtAuthFilter and validateToken(): a token that is valid and not blacklisted.
Accepted(tok) == tok \in access
Admitted(a, kinds) ==
  Is(a, "sent", kinds) /\ (call[a].kind \in Public \cup Admins \/ Accepted(call[a].tok))

Refuse(a) ==
  /\ Is(a, "sent", Kinds) /\ ~Admitted(a, Kinds)
  /\ Unauthorized(a)
  /\ UNCHANGED <<user, otp, sent, limited, tokens, access, jar, asked, faults, hist>>

\* Mutant: revokedAt is not looked at.
Refreshable_Revoked(k) == tokens[k].state \in {"live", "revoked"}

\* POST /api/auth/refresh is not public either.
Refreshable(k) == tokens[k].state = "live"

Renew(a) ==
  /\ call[a].step = "renew"
  /\ IF Accepted(jar) /\ Refreshable(jar)
       THEN Goto(a, [call[a] EXCEPT !.step = "rotate", !.tok = jar, !.late = FALSE])
       ELSE Answer(a)
  /\ UNCHANGED <<user, otp, sent, limited, tokens, access, jar, asked, faults, hist>>

\* Mutant: a row that is gone is taken for one that was written.
RowsThere_Ignored(ks) == TRUE

\* An UPDATE of a row that is gone fails, and the transaction with it.
RowsThere(ks) == ks \subseteq Rows

\* Set-Cookie reaches the browser, unless the answer is lost.
SetCookies(arrives) ==
  IF arrives THEN jar' = Next1 /\ faults' = faults
             ELSE faults < MaxFaults /\ faults' = faults + 1 /\ jar' = jar

\* The next token belongs to the same session: to those that token k is of.
With(ks, k) == IF k \in ks THEN ks \cup {Next1} ELSE ks

\* A logout or a reset came for the session, has read its tokens, and has yet to delete them.
Ending(k) == \E b \in Actors : Is(b, "commit", {"logout", "reset"}) /\ k \in call[b].found

Rotate(a, arrives) ==
  /\ call[a].step = "rotate"
  /\ IF RowsThere({call[a].tok})
       THEN /\ Next1 \in Ids    \* bound: Ask() leaves room
            /\ tokens' = [Issue(call[a].tok) EXCEPT ![call[a].tok].state = "revoked"]
            /\ access' = access \cup {Next1}
            /\ SetCookies(arrives)
            /\ call' = [b \in Actors |->
                 IF b # a THEN [call[b] EXCEPT !.found = With(@, call[a].tok),
                                               !.late = @ \/ call[b].step = "rotate"]
                 ELSE IF arrives THEN [call[a] EXCEPT !.step = "sent", !.retry = FALSE,
                                                      !.tok = Next1, !.late = FALSE,
                                                      !.found = With(@, call[a].tok)]
                 ELSE NoCall]
            /\ hist' = [hist EXCEPT !.ended = With(@, call[a].tok),
                                    !.missed = IF Ending(call[a].tok) THEN @ \cup {Next1}
                                               ELSE With(@, call[a].tok)]
       ELSE /\ arrives /\ Answer(a)
            /\ UNCHANGED <<tokens, access, jar, faults, hist>>
  /\ UNCHANGED <<user, otp, sent, limited, asked>>

-----------------------------------------------------------------------------
(* Serving a request: what is read first, and what refuses it.              *)

Read(a, step) == Goto(a, [call[a] EXCEPT !.step = step, !.row = user, !.late = FALSE])

Login(a) ==
  /\ Admitted(a, {"login"})
  /\ CASE user.locked = "now"            -> Answer(a)
       [] user.status = "SUSPENDED"      -> Unauthorized(a)
       [] call[a].pw # user.password     -> Step(a, "wrong")
       [] OTHER                          -> Read(a, "commit")
  /\ UNCHANGED <<user, otp, sent, limited, tokens, access, jar, asked, faults, hist>>

\* recordFailedAttempt() reads the row again, in a transaction of its own.
ReadAttempts(a) ==
  /\ Is(a, "wrong", {"login"})
  /\ Read(a, "count")
  /\ UNCHANGED <<user, otp, sent, limited, tokens, access, jar, asked, faults, hist>>

\* checkOtp(): for verifyEmail() and resetPassword().
CheckOtp(a) ==
  /\ Admitted(a, {"verify", "reset"})
  /\ IF call[a].n \in otp[Purpose(call[a].kind)]
       THEN Read(a, "spend") ELSE Unauthorized(a)
  /\ UNCHANGED <<user, otp, sent, limited, tokens, access, jar, asked, faults, hist>>

ChangePassword(a) ==
  /\ Admitted(a, {"change"})
  /\ IF call[a].pw = user.password THEN Read(a, "commit") ELSE Answer(a)
  /\ UNCHANGED <<user, otp, sent, limited, tokens, access, jar, asked, faults, hist>>

UpdateMyProfile(a) ==
  /\ Admitted(a, {"profile"})
  /\ Read(a, "commit")
  /\ UNCHANGED <<user, otp, sent, limited, tokens, access, jar, asked, faults, hist>>

UpdateUserStatus(a) ==
  /\ Admitted(a, Admins)
  /\ Read(a, "commit")
  /\ UNCHANGED <<user, otp, sent, limited, tokens, access, jar, asked, faults, hist>>

\* Mutant: each code has a key of its own, so that the one before stays valid.
IssueOtp_OwnKey(p) ==
  /\ sent[p] < MaxCodes
  /\ sent' = [sent EXCEPT ![p] = @ + 1]
  /\ otp' = [otp EXCEPT ![p] = @ \cup {sent[p] + 1}]

\* Only the latest code is valid: it takes the place of the one before.
IssueOtp(p) ==
  /\ sent[p] < MaxCodes
  /\ sent' = [sent EXCEPT ![p] = @ + 1]
  /\ otp' = [otp EXCEPT ![p] = {sent[p] + 1}]

ForgotPassword(a) ==
  /\ Admitted(a, {"forgot"})
  /\ IF sent.fp < MaxCodes THEN IssueOtp("fp") ELSE UNCHANGED <<otp, sent>>
  /\ Answer(a)
  /\ UNCHANGED <<user, limited, tokens, access, jar, asked, faults, hist>>

ResendVerification(a) ==
  /\ Admitted(a, {"resend"})
  /\ IF limited
       THEN Unauthorized(a) /\ UNCHANGED <<otp, sent, limited>>
       ELSE /\ limited' = TRUE
            /\ IF ~user.verified /\ sent.verify < MaxCodes
                 THEN IssueOtp("verify") ELSE UNCHANGED <<otp, sent>>
            /\ Answer(a)
  /\ UNCHANGED <<user, tokens, access, jar, asked, faults, hist>>

-----------------------------------------------------------------------------
(* What a request does outside the database before its transaction commits, *)
(* and the commit.                                                          *)

\* The key is deleted, whichever code it holds by then.
Deleted(p) == [otp EXCEPT ![p] = {}]

SpendCode(a) ==
  /\ Is(a, "spend", {"verify", "reset"})
  /\ LET p == Purpose(call[a].kind) IN
       /\ otp' = Deleted(p)
       /\ hist' = [hist EXCEPT !.spent = @ \cup {<<p, call[a].n>>}]
  /\ Goto(a, [call[a] EXCEPT !.step = "commit", !.seen = IF call[a].kind = "reset" THEN Rows ELSE {}])
  /\ UNCHANGED <<user, sent, limited, tokens, access, jar, asked, faults>>

\* logout(): a failure to blacklist the access token is only logged.
Blacklist(a) ==
  /\ Admitted(a, {"logout"})
  /\ \/ access' = access \ {call[a].tok} /\ faults' = faults
     \/ faults < MaxFaults /\ faults' = faults + 1 /\ access' = access
  /\ Goto(a, [call[a] EXCEPT !.step = "commit", !.seen = Rows])
  /\ UNCHANGED <<user, otp, sent, limited, tokens, jar, asked, hist>>

Other(pw) == CHOOSE q \in Password : q # pw

\* The row as the request leaves it: all the columns it read, but its own.
New(a) ==
  LET row == call[a].row IN
  CASE call[a].kind = "login"    -> [row EXCEPT !.failed = 0, !.locked = "never"]
    [] call[a].kind = "verify"   -> [row EXCEPT !.verified = TRUE, !.status = "ACTIVE"]
    [] call[a].kind = "reset"    -> [row EXCEPT !.password = call[a].pw, !.failed = 0,
                                                !.locked = "never"]
    [] call[a].kind = "change"   -> [row EXCEPT !.password = Other(call[a].pw)]
    [] call[a].kind = "profile"  -> row
    [] call[a].kind = "suspend"  -> [row EXCEPT !.status = "SUSPENDED"]
    [] call[a].kind = "activate" -> [row EXCEPT !.status = "ACTIVE"]

\* JPA writes no row that did not change; a login, a password and a profile do.
Dirty(a, new) == call[a].kind \in {"verify", "suspend", "activate"} => new # call[a].row

\* What a logout or a reset came for is over, and what it deletes is not missed any more.
Ends(a) == [hist EXCEPT !.ended = @ \cup call[a].found, !.missed = @ \ call[a].seen]

\* The others that have read the row and not committed yet are late from now on.
WriteUser(a, new, after) ==
  /\ user' = new
  /\ call' = [b \in Actors |-> IF b = a THEN after
                ELSE IF call[b].row # <<>> THEN [call[b] EXCEPT !.late = TRUE] ELSE call[b]]
  /\ hist' = IF call[a].kind = "reset" THEN Ends(a) ELSE hist

CommitLogin(a, arrives) ==
  /\ Is(a, "commit", {"login"})
  /\ WriteUser(a, New(a), NoCall)
  /\ tokens' = Issue(0)
  /\ access' = access \cup {Next1}
  /\ SetCookies(arrives)
  /\ UNCHANGED <<otp, sent, limited, asked>>

Commit(a) ==
  /\ Is(a, "commit", {"verify", "change", "profile"} \cup Admins)
  /\ IF Dirty(a, New(a)) THEN WriteUser(a, New(a), NoCall)
                         ELSE Answer(a) /\ UNCHANGED <<user, hist>>
  /\ UNCHANGED <<otp, sent, limited, tokens, access, jar, asked, faults>>

DeleteAllByUserId(ks) == [k \in Ids |-> IF k \in ks THEN [tokens[k] EXCEPT !.state = "deleted"]
                                        ELSE tokens[k]]

CommitReset(a) ==
  /\ Is(a, "commit", {"reset"})
  /\ IF RowsThere(call[a].seen)
       THEN /\ WriteUser(a, New(a), NoCall)
            /\ tokens' = DeleteAllByUserId(call[a].seen)
       ELSE Answer(a) /\ UNCHANGED <<user, tokens, hist>>
  /\ UNCHANGED <<otp, sent, limited, access, jar, asked, faults>>

\* The controller answers that a logout that failed went well; the cookies stay.
CommitLogout(a) ==
  /\ Is(a, "commit", {"logout"})
  /\ IF RowsThere(call[a].seen)
       THEN /\ tokens' = DeleteAllByUserId(call[a].seen)
            /\ hist' = Ends(a)
            /\ jar' = 0
       ELSE UNCHANGED <<tokens, hist, jar>>
  /\ Answer(a)
  /\ UNCHANGED <<user, otp, sent, limited, access, asked, faults>>

\* The attempt is committed, whatever becomes of the login that made it.
Recorded(row) == [row EXCEPT !.failed = @ + 1,
                             !.locked = IF row.failed + 1 >= MaxFailed THEN "now" ELSE @]

RecordFailedAttempt(a) ==
  /\ Is(a, "count", {"login"})
  /\ LET new == Recorded(call[a].row)
         again == [call[a] EXCEPT !.step = "renew", !.row = <<>>] IN
       /\ user' = new
       /\ call' = [b \in Actors |->
            IF b = a THEN IF call[a].row.failed + 1 < MaxFailed /\ call[a].retry THEN again ELSE NoCall
            ELSE IF call[b].row # <<>> THEN [call[b] EXCEPT !.late = TRUE] ELSE call[b]]
  /\ UNCHANGED <<otp, sent, limited, tokens, access, jar, asked, faults, hist>>

-----------------------------------------------------------------------------
(* Time.                                                                    *)

AccessExpires == \E k \in access : access' = access \ {k}
                 /\ UNCHANGED <<user, otp, sent, limited, tokens, jar, call, asked, faults, hist>>

CodeExpires == \E p \in {"verify", "fp"} : otp[p] # {} /\ otp' = [otp EXCEPT ![p] = {}]
               /\ UNCHANGED <<user, sent, limited, tokens, access, jar, call, asked, faults, hist>>

MinutePasses == /\ limited /\ limited' = FALSE
                /\ UNCHANGED <<user, otp, sent, tokens, access, jar, call, asked, faults, hist>>

\* isBefore(lockedUntil): no write, the instant has passed.  A row read before
\* it passed holds the same instant.
LockEnds ==
  /\ user.locked = "now"
  /\ user' = [user EXCEPT !.locked = "before"]
  /\ call' = [a \in Actors |-> IF call[a].row = <<>> THEN call[a]
              ELSE [call[a] EXCEPT !.row.locked = IF @ = "now" THEN "before" ELSE @]]
  /\ UNCHANGED <<otp, sent, limited, tokens, access, jar, asked, faults, hist>>

Serve(a) ==
  \/ Refuse(a) \/ Renew(a)
  \/ \E arrives \in BOOLEAN : Rotate(a, arrives) \/ CommitLogin(a, arrives)
  \/ Login(a) \/ ReadAttempts(a) \/ RecordFailedAttempt(a)
  \/ CheckOtp(a) \/ SpendCode(a) \/ CommitReset(a)
  \/ ForgotPassword(a) \/ ResendVerification(a)
  \/ ChangePassword(a) \/ UpdateMyProfile(a) \/ UpdateUserStatus(a) \/ Commit(a)
  \/ Blacklist(a) \/ CommitLogout(a)

Next ==
  \/ \E a \in Actors : Ask(a) \/ Serve(a)
  \/ AccessExpires \/ CodeExpires \/ MinutePasses \/ LockEnds

Spec == Init /\ [][Next]_vars

-----------------------------------------------------------------------------
(* Properties.                                                              *)

\* Type invariant.
TypeOK ==
  /\ user \in User
  /\ \A p \in {"verify", "fp"} : sent[p] \in 0..MaxCodes /\ otp[p] \subseteq 1..sent[p]
  /\ limited \in BOOLEAN
  /\ tokens \in [Ids -> Token]
  /\ access \subseteq Used /\ jar \in {0} \cup Used
  /\ \A a \in Actors : call[a].row = <<>> \/ call[a].row \in User
  /\ asked \in 0..MaxCalls /\ faults \in 0..MaxFaults

\* Once a logout or a reset has committed, the sessions there were when it came are over:
\* no refresh token of theirs is good any more, neither those there were nor those they were
\* exchanged for before and after.  Except the token of an exchange that commits after the
\* tokens to delete have been read and before they are deleted (AuthService.java:149, 202):
\* nothing revokes it, and the session goes on until something else ends it.
EndedForGood == \A k \in hist.ended \ hist.missed : tokens[k].state # "live"

\* A refresh token is exchanged once, but by requests that were under way together.
OneHeir ==
  [][\A a \in Tabs : call[a].step = "rotate" /\ call'[a].step # "rotate" /\ tokens' # tokens =>
       call[a].late \/ \A k \in Used : tokens[k].of # call[a].tok]_vars

\* A code that passes is the latest one sent and has not been spent before.
OnlyLatestCode ==
  [][\A a \in Tabs : call[a].step = "sent" /\ call'[a].step = "spend" =>
       LET p == Purpose(call[a].kind) IN
       call[a].n = sent[p] /\ <<p, call[a].n>> \notin hist.spent]_vars

=============================================================================
