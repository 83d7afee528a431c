------------------------------ MODULE Notices ------------------------------
(***************************************************************************)
(* notification-service: the publication of one announcement, by requests *)
(* and by the one-minute sweep, and the badge of one student's bell, which*)
(* is fed by a server-sent event stream, by reads of the unread count and, *)
(* once the stream has failed three times, by polling.                     *)
(*                                                                         *)
(* The service runs in one process; every await is a step, and one turn of *)
(* the loop over the recipients, which does not wait for the in-app row,   *)
(* is one.                                                                 *)
(***************************************************************************)
EXTENDS Naturals, FiniteSets

CONSTANTS Users,        \* active students
          Watcher,      \* the student whose bell is open in a browser
          Publishers,   \* publications in progress: requests and sweeps
          Scenarios     \* announcements to start from, each with its bounds

ASSUME UsersAssumption == IsFiniteSet(Users) /\ Watcher \in Users

Times == {"none", "future", "past"}          \* publishAt and expiresAt

\* `watched`: the watcher's bell is open in a browser; `edits`, `events`,
\* `faults`: how often update() is called, how many events of other services ask
\* to notify the watcher, and how many calls fail, links break, or restarts of
\* the service happen.
ASSUME ScenariosAssumption ==
  \A s \in Scenarios : /\ s.at \in Times /\ s.end \in Times
                       /\ s.high \in BOOLEAN /\ s.watched \in BOOLEAN
                       /\ s.to \subseteq Users
                       /\ s.choices \subseteq [inApp : BOOLEAN, email : BOOLEAN]
                       /\ s.status \in {"none", "draft", "expired"}
                       /\ s.status = "expired" => s.to = {}
                       /\ s.edits \in Nat /\ s.events \in Nat /\ s.faults \in Nat

MaxErrors == 3

VARIABLES
  ann,      \* the row of `announcements`; `text` counts its contents from 0
  pub,      \* publish() and sweepScheduled() in progress
  edit,     \* update() in progress: the text and time it will write
  prefs,    \* notification_preferences of the recipients, type "announcement"
  told,     \* what each student was sent: rows, rows asked for, mails; and what failed:
            \* the insert of a row, a mail
  sent,     \* texts that were sent to anybody
  asks,     \* rows asked for by other services' events, for the watcher
  rows,     \* how many rows the watcher has
  unread,   \* the watcher's rows with readAt = null, by insertion number
  news,     \* rows inserted that the stream has not been told of
  bell,     \* NotificationBell and its EventSource
  fetch,    \* refresh() in progress, <<>> when there is none
  marks,    \* PATCH /read requests under way
  left,     \* how many edits and faults there may still be
  cut, again, raced, missed   \* history: see the properties

vars == <<ann, pub, edit, prefs, told, sent, asks, rows, unread, news, bell,
          fetch, marks, left, cut, again, raced, missed>>
bellVars == <<asks, rows, unread, news, bell, fetch, marks, missed>>
pubVars == <<ann, pub, edit, prefs, told, sent, cut, again, raced>>

Statuses == {"none", "draft", "scheduled", "published", "expired", "removed"}

Idle == [pc |-> "idle", text |-> 0, todo |-> {}]
Busy(p) == pub[p].pc # "idle"
NoEdit == <<>>

TypeOK ==
  /\ ann \in [status : Statuses, text : Nat, at : Times,
              end : Times, high : BOOLEAN, to : SUBSET Users]
  /\ pub \in [Publishers -> [pc : {"idle", "schedule", "resolve", "send"},
                             text : Nat, todo : SUBSET Users]]
  /\ edit = NoEdit \/ edit \in [text : Nat, at : Times \cup {"kept"}]
  /\ prefs \in [ann.to -> [inApp : BOOLEAN, email : BOOLEAN]]
  /\ told \in [Users -> [rows : Nat, asked : Nat, mails : Nat, lost : BOOLEAN,
                      unsent : BOOLEAN]]
  /\ sent \subseteq Nat
  /\ asks \in Nat /\ rows \in Nat
  /\ unread \subseteq 1 .. rows /\ news \subseteq 1 .. rows
  /\ bell.link \in {"closed", "opening", "open", "broken", "polling"}
  /\ bell.errors \in 0 .. MaxErrors
  /\ bell.link = "polling" <=> bell.errors = MaxErrors
  /\ bell.count \in Nat
  /\ bell.fresh \subseteq 1 .. rows /\ bell.inbox \subseteq 1 .. rows
  /\ marks \subseteq 1 .. rows
  /\ left \in [edits : Nat, events : Nat, faults : Nat]
  /\ {cut, again, raced, missed} \subseteq BOOLEAN

NewFetch == [read |-> FALSE, seen |-> {}, rows |-> 0]

Init ==
  /\ \E s \in Scenarios :
       /\ ann = [status |-> s.status, text |-> 0, at |-> s.at, end |-> s.end,
                 high |-> s.high, to |-> s.to]
       /\ prefs \in [s.to -> s.choices]
       /\ left = [edits |-> s.edits, events |-> s.events, faults |-> s.faults]
       /\ bell = [count |-> 0, fresh |-> {}, inbox |-> {}, errors |-> 0,
                  link |-> IF s.watched THEN "opening" ELSE "closed"]
       /\ fetch = IF s.watched THEN NewFetch ELSE <<>>
       /\ missed = ~s.watched
  /\ pub = [p \in Publishers |-> Idle]
  /\ edit = NoEdit
  /\ told = [u \in Users |-> [rows |-> 0, asked |-> 0, mails |-> 0, lost |-> FALSE,
                            unsent |-> FALSE]]
  /\ sent = {} /\ asks = 0 /\ rows = 0 /\ unread = {} /\ news = {} /\ marks = {}
  /\ cut = FALSE /\ again = FALSE /\ raced = FALSE

Fault == left.faults > 0 /\ left' = [left EXCEPT !.faults = @ - 1]
NoFault == UNCHANGED left

-----------------------------------------------------------------------------
(* The announcement *)

\* A publication begins with the content it read.
Begin(p, pc) ==
  /\ pub' = [pub EXCEPT ![p] = [pc |-> pc, text |-> ann.text, todo |-> {}]]
  /\ again' = (again \/ cut \/ \E q \in Publishers : Busy(q))
  /\ raced' = (raced \/ edit # NoEdit)
  /\ UNCHANGED <<ann, edit, prefs, told, sent, cut>>

\* publish(): read, check, and either schedule or send now.
Publish(p) ==
  /\ ~Busy(p)
  /\ ann.status = "draft"
  /\ Begin(p, IF ann.at = "future" THEN "schedule" ELSE "resolve")
  /\ NoFault /\ UNCHANGED bellVars

\* publish(): the update to "scheduled", whatever the status is by now.
Schedule(p) ==
  /\ pub[p].pc = "schedule"
  /\ pub' = [pub EXCEPT ![p] = Idle]
  /\ ann' = IF ann.status = "removed" THEN ann ELSE [ann EXCEPT !.status = "scheduled"]
  /\ NoFault
  /\ UNCHANGED <<edit, prefs, told, sent, cut, again, raced, bellVars>>

\* The query asks for the time only.
Sweep_AnyStatus(p) ==
  /\ ~Busy(p)
  /\ ann.status \in {"scheduled", "published"} /\ ann.at = "past"
  /\ Begin(p, "resolve")
  /\ NoFault /\ UNCHANGED bellVars

\* $gte for $lte: what was due before the sweep looked is never found.
Sweep_NotYet(p) ==
  /\ ~Busy(p)
  /\ ann.status = "scheduled" /\ ann.at = "future"
  /\ Begin(p, "resolve")
  /\ NoFault /\ UNCHANGED bellVars

\* sweepScheduled() finds the announcement due.
Sweep(p) ==
  /\ ~Busy(p)
  /\ ann.status = "scheduled" /\ ann.at = "past"
  /\ Begin(p, "resolve")
  /\ NoFault /\ UNCHANGED bellVars

Resolve(p) ==
  /\ pub[p].pc = "resolve"
  /\ pub' = [pub EXCEPT ![p].pc = "send", ![p].todo = ann.to]
  /\ NoFault
  /\ UNCHANGED <<ann, edit, prefs, told, sent, cut, again, raced, bellVars>>

Enabled(u, channel) == prefs[u][channel]

\* A high announcement goes through the sender, which asks the preferences; a
\* normal one becomes a row without asking.
AsksRow(u) == ann.high => Enabled(u, "inApp")
SendsMail(u) == ann.high /\ Enabled(u, "email")

\* send() throws for none of these: the template is unknown or inactive, or the provider
\* refuses, and no mail goes out; or the provider is not heard of any more.  It is logged
\* as failed, and nobody tries again.
Mailings        == {"none", "sent", "failed", "unheard"}
Mailed(mail)    == mail \in {"sent", "unheard"}
MailFails(mail) == mail \in {"failed", "unheard"}

\* One turn of doPublish's loop.
Deliver(p, u, mail) ==
  /\ pub[p].pc = "send" /\ u \in pub[p].todo
  /\ mail = "none" <=> ~SendsMail(u)
  /\ pub' = [pub EXCEPT ![p].todo = @ \ {u}]
  /\ told' = [told EXCEPT ![u].asked = IF AsksRow(u) THEN @ + 1 ELSE @,
                          ![u].mails = IF Mailed(mail) THEN @ + 1 ELSE @,
                          ![u].unsent = @ \/ MailFails(mail)]
  /\ sent' = IF AsksRow(u) \/ Mailed(mail) THEN sent \cup {pub[p].text} ELSE sent
  /\ IF MailFails(mail) THEN Fault ELSE NoFault
  /\ UNCHANGED <<ann, edit, prefs, cut, again, raced, bellVars>>

\* The status is written before the loop is over.
Finish_Early(p) ==
  /\ pub[p].pc = "send"
  /\ pub' = [pub EXCEPT ![p] = Idle]
  /\ ann' = IF ann.status = "removed" THEN ann ELSE [ann EXCEPT !.status = "published"]
  /\ NoFault
  /\ UNCHANGED <<edit, prefs, told, sent, cut, again, raced, bellVars>>

\* The end of doPublish: published, whatever the status is by now.
Finish(p) ==
  /\ pub[p].pc = "send" /\ pub[p].todo = {}
  /\ pub' = [pub EXCEPT ![p] = Idle]
  /\ ann' = IF ann.status = "removed" THEN ann ELSE [ann EXCEPT !.status = "published"]
  /\ NoFault
  /\ UNCHANGED <<edit, prefs, told, sent, cut, again, raced, bellVars>>

\* A call of doPublish throws: the request answers 500, the sweep logs it.
Throws(p) ==
  /\ pub[p].pc \in {"resolve", "send"}
  /\ pub' = [pub EXCEPT ![p] = Idle]
  /\ cut' = TRUE
  /\ Fault
  /\ UNCHANGED <<ann, edit, prefs, told, sent, again, raced, bellVars>>

\* create() of the one announcement.
Create(at) ==
  /\ ann.status = "none"
  /\ ann' = [ann EXCEPT !.status = "draft", !.at = at]
  /\ NoFault
  /\ UNCHANGED <<pub, edit, prefs, told, sent, cut, again, raced, bellVars>>

\* update(): the read that admits only a draft.  A time that the patch leaves out is
\* kept.
EditRead(at) ==
  /\ edit = NoEdit
  /\ ann.status = "draft"
  /\ left.edits > 0 /\ left' = [left EXCEPT !.edits = @ - 1]
  /\ edit' = [text |-> ann.text + 1, at |-> at]
  /\ raced' = (raced \/ cut \/ \E p \in Publishers : Busy(p))
  /\ UNCHANGED <<ann, pub, prefs, told, sent, cut, again, bellVars>>

\* update(): the unconditional $set.
EditWrite ==
  /\ edit # NoEdit
  /\ ann' = [ann EXCEPT !.text = edit.text,
                       !.at = IF edit.at = "kept" THEN @ ELSE edit.at]
  /\ edit' = NoEdit
  /\ NoFault
  /\ UNCHANGED <<pub, prefs, told, sent, cut, again, raced, bellVars>>

Remove ==
  /\ ann.status \notin {"none", "removed"}
  /\ ann' = [ann EXCEPT !.status = "removed"]
  /\ NoFault
  /\ UNCHANGED <<pub, edit, prefs, told, sent, cut, again, raced, bellVars>>

\* sweepExpired()
SweepExpired ==
  /\ ann.status = "published" /\ ann.end = "past"
  /\ ann' = [ann EXCEPT !.status = "expired"]
  /\ NoFault
  /\ UNCHANGED <<pub, edit, prefs, told, sent, cut, again, raced, bellVars>>

\* publishAt or expiresAt passes.
Time ==
  /\ \/ ann.at = "future" /\ ann' = [ann EXCEPT !.at = "past"]
     \/ ann.end = "future" /\ ann' = [ann EXCEPT !.end = "past"]
  /\ NoFault
  /\ UNCHANGED <<pub, edit, prefs, told, sent, cut, again, raced, bellVars>>

-----------------------------------------------------------------------------
(* In-app rows and the stream *)

\* handleMessage: another service's event asks for a row, by the same sender.
Consume ==
  /\ left.events > 0 /\ left' = [left EXCEPT !.events = @ - 1]
  /\ asks' = asks + 1
  /\ UNCHANGED <<pubVars, rows, unread, news, bell, fetch, marks, missed>>

NewRow == /\ rows' = rows + 1
          /\ unread' = unread \cup {rows + 1}
          /\ news' = news \cup {rows + 1}

\* create(): the insert, which nobody waits for.
Insert(u) ==
  /\ told[u].asked > 0
  /\ told' = [told EXCEPT ![u].asked = @ - 1, ![u].rows = @ + 1]
  /\ IF u = Watcher THEN NewRow ELSE UNCHANGED <<rows, unread, news>>
  /\ NoFault
  /\ UNCHANGED <<ann, pub, edit, prefs, sent, cut, again, raced,
                 asks, bell, fetch, marks, missed>>

InsertOther ==
  /\ asks > 0 /\ asks' = asks - 1
  /\ NewRow
  /\ NoFault /\ UNCHANGED <<pubVars, bell, fetch, marks, missed>>

\* create(): the insert fails and is only logged.
InsertFails(u) ==
  /\ told[u].asked > 0
  /\ told' = [told EXCEPT ![u].asked = @ - 1, ![u].lost = TRUE]
  /\ Fault
  /\ UNCHANGED <<ann, pub, edit, prefs, sent, cut, again, raced, bellVars>>

\* create(): stream$.next reaches whoever is subscribed now, and nobody later.
Emit(n) ==
  /\ n \in news
  /\ news' = news \ {n}
  /\ IF bell.link = "open"
     THEN bell' = [bell EXCEPT !.inbox = @ \cup {n}] /\ UNCHANGED missed
     ELSE missed' = TRUE /\ UNCHANGED bell
  /\ NoFault /\ UNCHANGED <<pubVars, asks, rows, unread, fetch, marks>>

\* The process restarts: publications, edits, inserts not done, reads and
\* streams are gone.
Restart ==
  /\ pub' = [p \in Publishers |-> Idle]
  /\ cut' = (cut \/ \E p \in Publishers : Busy(p))
  /\ told' = [u \in Users |-> [told[u] EXCEPT !.asked = 0,
                                !.lost = @ \/ told[u].asked > 0]]
  /\ edit' = NoEdit
  /\ asks' = 0
  /\ news' = {}
  /\ missed' = (missed \/ news \cup bell.inbox # {} \/ fetch # <<>>)
  /\ fetch' = <<>>
  /\ bell' = IF bell.link # "open" THEN bell
             ELSE [bell EXCEPT !.link = "broken", !.errors = 1, !.inbox = {}]
  /\ Fault
  /\ UNCHANGED <<ann, prefs, sent, again, raced, rows, unread, marks>>

-----------------------------------------------------------------------------
(* The bell *)

\* onmessage
Receive(n) ==
  /\ n \in bell.inbox
  /\ bell' = [bell EXCEPT !.inbox = @ \ {n}, !.count = @ + 1, !.fresh = @ \cup {n}]
  /\ NoFault /\ UNCHANGED <<pubVars, asks, rows, unread, news, fetch, marks, missed>>

\* onopen
LinkOpens ==
  /\ bell.link \in {"opening", "broken"}
  /\ bell' = [bell EXCEPT !.link = "open", !.errors = 0]
  /\ NoFault /\ UNCHANGED <<pubVars, asks, rows, unread, news, fetch, marks, missed>>

\* onerror: the link breaks, or the browser's reconnect does not succeed; the
\* third error in a row closes the stream for good and starts the poll timer.
LinkFails ==
  /\ bell.link \in {"opening", "open", "broken"}
  /\ LET errors == bell.errors + 1
         link   == IF errors >= MaxErrors THEN "polling" ELSE "broken"
     IN bell' = [bell EXCEPT !.errors = errors, !.link = link, !.inbox = {}]
  /\ missed' = (missed \/ bell.inbox # {})
  /\ IF bell.link = "open" THEN Fault ELSE NoFault
  /\ UNCHANGED <<pubVars, asks, rows, unread, news, fetch, marks>>

\* The poll timer's refresh(); the first one, on mounting, is in Init.
Poll ==
  /\ bell.link = "polling" /\ fetch = <<>>
  /\ fetch' = NewFetch
  /\ NoFault /\ UNCHANGED <<pubVars, asks, rows, unread, news, bell, marks, missed>>

\* The two reads of refresh(), the count and the list, are one step here.
ReadUnread ==
  /\ fetch # <<>> /\ ~fetch.read
  /\ fetch' = [read |-> TRUE, seen |-> unread, rows |-> rows]
  /\ NoFault /\ UNCHANGED <<pubVars, asks, rows, unread, news, bell, marks, missed>>

\* The answers replace what the bell had.  What came by the stream since the
\* read is forgotten.
Refreshed ==
  /\ fetch # <<>> /\ fetch.read
  /\ bell' = [bell EXCEPT !.count = Cardinality(fetch.seen), !.fresh = fetch.seen]
  /\ missed' = \E n \in (fetch.rows + 1) .. rows : n \notin news \cup bell.inbox
  /\ fetch' = <<>>
  /\ NoFault /\ UNCHANGED <<pubVars, asks, rows, unread, news, marks>>

RefreshFails ==
  /\ fetch # <<>>
  /\ fetch' = <<>>
  /\ missed' = TRUE
  /\ Fault /\ UNCHANGED <<pubVars, asks, rows, unread, news, bell, marks>>

\* The click does not mark the item in the bell's own list.
Click_NotRemembered(n) ==
  /\ n \in bell.fresh
  /\ bell' = [bell EXCEPT !.count = IF @ = 0 THEN 0 ELSE @ - 1]
  /\ marks' = marks \cup {n}
  /\ NoFault /\ UNCHANGED <<pubVars, asks, rows, unread, news, fetch, missed>>

\* handleItemClick on an item the bell holds for unread.
Click(n) ==
  /\ n \in bell.fresh
  /\ bell' = [bell EXCEPT !.count = IF @ = 0 THEN 0 ELSE @ - 1, !.fresh = @ \ {n}]
  /\ marks' = marks \cup {n}
  /\ NoFault /\ UNCHANGED <<pubVars, asks, rows, unread, news, fetch, missed>>

\* markRead arrives, or its failure is swallowed.
Mark(n) ==
  /\ n \in marks
  /\ marks' = marks \ {n}
  /\ \/ NoFault /\ unread' = unread \ {n} /\ UNCHANGED missed
     \/ Fault /\ missed' = TRUE /\ UNCHANGED unread
  /\ UNCHANGED <<pubVars, asks, rows, news, bell, fetch>>

\* "Mark all read" on the notifications page: the bell is not told.
MarkAllRead ==
  /\ unread # {}
  /\ unread' = {}
  /\ NoFault /\ UNCHANGED <<pubVars, asks, rows, news, bell, fetch, marks, missed>>

\* DELETE of an unread row.
DeleteRow(n) ==
  /\ n \in unread
  /\ unread' = unread \ {n}
  /\ NoFault /\ UNCHANGED <<pubVars, asks, rows, news, bell, fetch, marks, missed>>

-----------------------------------------------------------------------------
Running(p) == \/ Resolve(p) \/ Finish(p) \/ Schedule(p)
              \/ \E u \in Users, mail \in Mailings : Deliver(p, u, mail)
Stream == \/ \E u \in Users : Insert(u)
          \/ InsertOther
          \/ \E n \in news : Emit(n)
          \/ \E n \in marks : Mark(n)

Next ==
  \/ \E p \in Publishers : Publish(p) \/ Sweep(p) \/ Running(p) \/ Throws(p)
  \/ \E at \in {"none", "future", "kept"} : EditRead(at)
  \/ EditWrite \/ Remove \/ SweepExpired \/ Time
  \/ Consume \/ Stream \/ \E u \in Users : InsertFails(u)
  \/ Restart
  \/ \E n \in bell.inbox : Receive(n)
  \/ LinkOpens \/ LinkFails
  \/ Poll \/ ReadUnread \/ Refreshed \/ RefreshFails
  \/ \E n \in bell.fresh : Click(n)
  \/ MarkAllRead \/ \E n \in unread : DeleteRow(n)

\* Crons fire and calls return; admins, students and faults owe nothing.
Fairness ==
  /\ WF_vars(Time) /\ WF_vars(EditWrite)
  /\ WF_vars(\E p \in Publishers : Sweep(p) \/ Running(p))

Spec == Init /\ [][Next]_vars /\ Fairness

-----------------------------------------------------------------------------
(* Properties *)

\* Nobody gets an announcement twice, in the bell or by mail, as long as no
\* publication began while another was unfinished or after one was cut off.
NobodyTwice ==
  ~again => \A u \in Users : told[u].rows + told[u].asked <= 1 /\ told[u].mails <= 1

\* An announcement that counts as published has been sent to every recipient who
\* takes it, in the app and for a high priority by mail: nobody was left out, and
\* whoever has no row, or no mail, is one whose insert or whose mail failed, which
\* the publication does not wait for or does not look at (notification-sender.service.ts
\* never throws).  And what was sent is what is stored, unless an edit that was
\* admitted to the draft overlapped the publication, or came after one that was cut off.
PublishedIsTrue ==
  ann.status \in {"published", "expired"} =>
    /\ ~raced => sent \subseteq {ann.text}
    /\ \A u \in ann.to :
         /\ prefs[u].inApp => told[u].rows + told[u].asked > 0 \/ told[u].lost
         /\ ann.high /\ prefs[u].email => told[u].mails > 0 \/ told[u].unsent

\* When nothing is on its way, the badge shows at least the unread rows, unless
\* an event or an answer was missed.
BadgeCoversUnread ==
  fetch = <<>> /\ news \cup bell.inbox \cup marks = {} /\ ~missed =>
    bell.count >= Cardinality(unread)

\* A scheduled announcement is published, or removed, in the end: failures of
\* the sweep are retried.  An edit that overlapped may have taken its time away.
ScheduledIsPublished ==
  (ann.status = "scheduled") ~> (ann.status # "scheduled" \/ raced)
=============================================================================
