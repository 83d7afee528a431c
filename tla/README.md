# Verification of Grammarcetamol

This directory holds TLA+ models of the platform's services and of the pages that
call them, the TLC runs that check them, and TLAPS proofs about them. Paths are
relative to the repository; `payments.service.ts:316` is a line of the file of that
name.

1. [The system](#the-system) and [the modules](#modules)
2. [The runs](#runs), their bounds, the fairness they assume
3. [The proofs](#proofs)
4. [Where the code and its documents disagree](#where-the-code-and-its-documents-disagree)
5. [Plan](#plan) and [what is not modelled](#not-modelled)

## The system

A learning platform made of small services. Java/Spring: auth, course, enrollment,
review, gateway. NestJS: payment and upload (Postgres), live-class and notification
(MongoDB). Two Next.js applications, for students and for administrators, call them
through the gateway. The services share no state. They interact in three ways:

* synchronous HTTP or gRPC calls (live-class asks payment to open a checkout or to
  cancel a subscription; review asks enrollment how far a learner came; enrollment
  asks course for its lessons);
* events on RabbitMQ topic exchanges. Publishing is fire-and-forget inside a
  `try`/`catch` that logs; consuming acknowledges whatever the handler did. Every
  routing key has a queue of its own, so events of different kinds overtake each
  other;
* Paystack's webhooks into payment-service, at least once, in any order.

Hardly any service uses row locks or versions: concurrency control is a conditional
`UPDATE`, a unique index, or nothing. A Node handler gives way at every `await`; a
Java handler is a transaction at READ COMMITTED that writes back whole rows. A page
acts on what it loaded, however old. So the hard behaviours are the same everywhere: a
value read before an `await` and used after it, a row written back over somebody
else's change, a request that dies between two writes, a message repeated or
overtaken, an answer that is lost or comes late.

| Component | State | Operations | Hard | Correct when |
|---|---|---|---|---|
| payment: checkout, refunds (`payments.service.ts`) | `payments`, `transactions`, `refunds` | initialize, confirm, webhook (charge, reversal), refund | confirmation races the webhook; refunds race; handlers die half-way | one completion, announced; ledger and refunds agree; 'refunded' means in full |
| payment: subscriptions (`subscriptions.service.ts`) | `subscription_plans`, `subscriptions` | create, cancel, four webhook events, hourly sweep | webhooks in any order; cancel against renewal | row and provider agree; paid time is kept; a failed one ends |
| live-class: enrollments (`enrollments.service.ts`, consumer) | `enrollments`, `invitations` | enroll, invite, accept, cancel, four billing events, hourly expiry | last seat; event order; cancel while paying | access while paid for; overbooked only by requests that overlap |
| live-class: classes, sessions (`classes.service.ts`, `sessions.service.ts`) | `live_classes`, `live_sessions` | create, update, publish, end; generate, create, start, end, move; crons | check-then-insert against overlaps; cron against user | no overlap that a check could have seen |
| live-class: chat (`chat.service.ts`, `chat.gateway.ts`) | `class_chat_messages`, sockets | post, list, join, lock | history and socket are two sources | a page misses only what it was not there for |
| enrollment (`EnrollmentService.java`) | `enrollments`, `lesson_progress` | enroll free or by payment event, progress, completion | repeated events; last two lessons at once | paid is enrolled; done is completed and nothing less is |
| upload (`uploads.service.ts`) | sessions, files, chunks; multipart uploads in object storage | create, resume, presign, complete chunk, complete or fail file | lost answers, late aborts, stale requests | playable means stored, told means it stays |
| auth (`AuthService.java`) | users, codes, refresh tokens | login, lock, verify, refresh, logout, forgot, reset, change, profile, status | token rotation races; whole rows written back | an ended session stays ended; a code passes once |
| course (`CourseService.java`, `CourseStructureService.java`) | courses, versions, modules, lessons | update, publish, archive, restore, delete; structure edits, reorder | edits overlap; old pages | what students read and watch is kept; order is total |
| review (`ReviewService.java`) | reviews | create, update, moderate | edit against moderation | a decision stands |
| notification (`announcements.service.ts`, `notifications.service.ts`) | announcements, notifications, streams | create, update, publish, sweeps; notify, read, stream | overlapping sweeps; crash in the fan-out; broken streams | everybody once; the badge covers what is unread |
| gateway | JWT filter, rate limits | route | - | a token taken back is refused |
| frontends | what a page loaded, forms, dialogs, polling | pages | stale copies, late answers | what a page says is so |

## Modules

Every awaited query or call of a Node handler is one action; a Java handler is a
read and a commit, with the calls between them as steps of their own where other
services or transactions come in. A request in flight is a record `call[c]`. Modules
of pages are stacked on the module of the service they call: `EXTENDS` with page
variables of its own, whose actions call the service's actions. A constant `Desks`
(or the scenario in `Notices`) chooses at the start whether the requests come from
anybody or from the pages, so that one run covers both without their product.
Faults (a lost answer or event, a dead handler, a failed query) are actions bounded by
`MaxFaults`. History variables (`silenced`, `severed`, `overtaken`, `happened`, `torn`,
`lost`, `late`, `blind`, `crossed`, `raced`, `again`, `unseen`, `missed`, `stale`, the fields
of `hist` and `told`) record that a fault or an overlap happened that a property excepts. No
guard reads them, but for the bound that counts an overtaken subscription as a fault.

### Payments

Rows are functions of the payment reference: `status` is `payments.status`; `refunded`
and `pendingRefunds` are what `SUM` and a count over `refunds` would return;
`paymentRows`, `refundRows`, `refundLedger` the same for `transactions`; `published`
counts `payment.completed`. The provider is `charge`, `reversed` and `hooks`, the
webhook messages not yet answered.

| Code | Actions |
|---|---|
| `initialize`, `initializeItem` | `Initialize` (provider call), `InsertPending` |
| `confirm`, `handleWebhook` (charge.success) | `Confirm`, `ChargeWebhook`, `Verify` |
| `markCompleted`, `markFailed` | `MarkCompleted` (the guarded UPDATE), `RecordPayment`, `PublishCompleted`; `MarkFailed` |
| `refund` | `Refund`, `SumForRefund`, `InsertRefund`, `CommitRefund` |
| `handleReversal` | `RefundWebhook`, `SumForReversal`, `InsertReversal`, `CommitReversal` |
| exceptions, process death, broker failure | `HandlerDies`, `PublishLost`, `LookupFails` (a webhook's first query that throws is taken for an unknown payment) |
| Paystack (external) | `ChargeSucceeds`, `ChargeFails`, `ChargeReversed`, `Answer` |

### Subscriptions

A subscription `s` stands for one `create()` request, its row, and what the provider
bills under its reference. A plan code names the request that created the plan, a
subscription code its subscription, and a nullable column is a set with at most one
element, so that "whose code is this" can be asked. Time is counted in days.

| Code | Actions |
|---|---|
| `create`, `getOrCreatePlanCode` | `LookUpPlan`, `CreatePlan`, `CachePlan`, `OpenCheckout`, `InsertRow` |
| `handleChargeSuccess` | `ChargeWebhook` (read), `ApplyCharge` (update), `AnnounceCharge` (publish) |
| the other webhook events | `CreateWebhook`, `FailedWebhook`, `DisableWebhook`, `AnnounceCancel` |
| `cancel` | `Cancel`, `CancelAtProvider`, `ApplyCancel`, `AnnounceCancel` |
| `sweepFailedSubscriptions` | `SweepPastDue`, `SweepExpire`, `SweepAnnounce` |
| exceptions, process death, broker failure | `HandlerDies`, `PublishLost`, `SweepDies` |
| Paystack (external) | `FirstCharge`, `Renew`, `DeclineRenewal`, `DisableOnDashboard`, `Answer` |

Messages are numbered as they are sent and handled in any order; `overtaken` holds the
subscriptions of which one was handled before an older one. The provider bills by the
calendar: a charge pays for one of `Periods` and may or may not name the next date
(`until` 0). `NextPeriodEnd` is `computeNextPeriodEnd()`: the named date, else
`Approximation` days from the day of the handler, which stands for the 1, 7, 30, 90, 182 or
365 of the interval. `Shortfall` is by how much that may be less than the calendar's: 1 of 31,
2 of 92 or 184, 1 of 366; the one assumption about it, `Shortfall <= Grace`, holds with the
three days of `PAST_DUE_GRACE_DAYS`.

Assumed, because the code assumes it: a renewal carries the reference of the first
charge (`subscriptions.service.ts:216`); the payload of a charge names the plan's interval,
without which the code counts 30 days whatever was sold (`:395-408`); and the customer can
only check out after `create()` has answered, hence after the row is there.

### LiveEnrollments, ClassSignup

One class, created with one of `Terms`. `status`, `accessUntil`, `linked` are a student's
document, of which there is at most one by the unique index; `invitation` the student's
invitation. Of payment-service there is what it does for a student (`billing`, `paidUntil`)
and the events it publishes, `queue`, which are handled in any order. A first charge is
announced as `created` or as `charged`, and so is a later one: which of them depends on
whether the handler reads 'pending', hence on what came first (`Subscriptions` has these
steps). `happened` notes for each student what a property excepts: an event `dropped` or
`overtaken`, a first charge announced as a renewal (`renewal_only`) or the other way round
(`first_again`), an enrollment that ended although it had got a subscription since `cancel()`
read it (`outrun`). `ClassSignup` adds the student's card
of the class and the page of an invitation (`card`), and the administrator's tabs
(`tab`), each with the rows it loaded.

| Code | Actions |
|---|---|
| `enroll`, `acceptInvitation`, `createEnrollment`, `invite` | `Enroll`, `CountSeats`, `Insert`, `Bill`, `Accept`, `Invite` |
| `cancel` | `Cancel`, `CancelBilling`, `CancelRow` |
| consumer, `activateFromBilling`, `handleSubscriptionCharged`, `handleSubscriptionExpired` | `Deliver` (`Activate`, `Extend`, `Expire`, `Ack`), `Drop` |
| `expireLapsedEnrollments`; `ClassesService.end` | `ExpireLapsedEnrollments`; `EndClass` |
| a failed call, process death | `RequestFails` |
| payment-service: `markCompleted`; `handleChargeSuccess`; the sweep | `PayOnce`; `FirstCharge`, `Renew`; `GiveUp` |
| `LiveClassCard`, `LiveClassesBrowser`, `ClassroomPage` | `Browse`, `CardEnrolls`, `EnterClassroom`, `Answered`, `CloseCard` |
| `InvitationPage` | `OpenInvitation`, `AcceptInvitation` |
| `EnrollmentsTab`, `InvitationsTab` | `OpenEnrollments`, `Remove`; `OpenInvitations`, `FindStudent`, `SendInvitation`; `LeaveTab` |

### LessonVideos, Uploads

`LessonVideos` is the abstract promise: parts arrive, a file becomes playable when all
of its parts have arrived, it may be withdrawn until its uploader was told, and never
after. `Uploads` is one session: the rows (`session`, `status`, `bytes`, `chunk`), the
multipart upload in object storage (`store`, `parts`), and the tabs of
`LessonFileUpload.tsx` (`tab`), one per file, each with its place in the loop over the
chunks. Its requests go on when the tab stops waiting for them. `createSession()` opens an
upload in storage for each file (`OpenUpload`) inside one transaction, which commits
(`CreateSession`) or, when any of its calls throws, rolls back (`CreationFails`); or it
commits and the tab does not hear of it (`CreationUnheard`). A tab without the answer has no
id to call `failFile()` with.

| Code | Actions |
|---|---|
| `createSession`, `getSession` (resume) | `SelectFiles`, `OpenUpload`, `CreateSession`, `CreationFails`, `CreationUnheard`; `Resume` |
| `presignChunk` | `Presign`, `MarkUploading`, `TouchFile` |
| `completeChunk` | `ReportChunk`, `AddToFile`, `AddToSession` |
| `completeFile` | `Finish`, `CheckChunks`, `CompleteMultipart`, `CommitFile` |
| `failFile` | `Abort`, `FailRow`, `CountFailed`, `FailSession` |
| `handleFileSelected` | `Send`, `Put`, `GiveUp`, `CloseTab` |
| faults | `AnswerLost`, `HandlerDies`, a refused `Put` or `Abort` |

The refinement: `arrived` is `parts`, `playable` is `status = "completed"`, and `told`
are the files whose tab shows that it is done.

### Bookings, ClassPages

The classes of one instructor (`class`) and the sessions booked (`row`), on a discrete
clock. A schedule template is an offset and a length within the week; generating
expands it over the weeks up to the window and asks `findConflict` for each occurrence.
`unseen` holds the pairs of rows that were booked by calls that ran at the same time.
`ClassPages` adds the form of a class, with its rows, terms, timer, checks under way and
the conflicts it shows, and the list, calendar and tabs with the rows they loaded.

| Code | Actions |
|---|---|
| `ClassesService.create`, `update`, `publish`, `end` | `CreateClass`, `UpdateSchedules`, `Publish` … `MarkPublished`, `Activate`; `EndClass`, `MarkEnded` |
| `generateFromSchedules`, `createManual` | `Generate`, `Insert`; `CreateManual` |
| `start`, `end`, `reschedule` | `Start`, `MarkLive`; `End`, `MarkSessionEnded`; `Reschedule`, `CheckMove`, `Move` |
| crons, restart | `AutoEndStaleSessions`, `ExtendGeneratedWindows`, `Restart` |
| `ClassForm` with `getInstructorAvailability` | `OpenForm`, `EditRows`, `EnterTerms`, `Check`, `CheckAnswers`, `CheckFails`, `SubmitNew`, `SubmitEdit` |
| list, calendar, overview, sessions tab | `ListPublishes`, `CalendarMoves`, `OverviewEnds`, `SessionsCreate`, `SessionsStart`, `SessionsEnd`, `PageGoesOn` |

### Classroom

One booked session and one student's page: the poll of `getRoom()` (`live`), the chat
as stored (`log`), on the socket (`wire`), in the answer to the history (`answer`) and
on the screen (`shown`).

| Code | Actions |
|---|---|
| `start`, `end`, `reschedule` and the cron | `StartReads`, `EndReads`, `RescheduleReads`, `Write`, `EndPasses`, `AutoEndStaleSession` |
| `useSessionLiveStatus` | `Poll`, `PollFails`, `AccessChanges` |
| `ChatService.post`, lock | `Post`, `InsertMessage`, `BroadcastMessage`, `PostDies`, `SetChatLocked` |
| `useClassChat`, `ChatGateway` | `ReadHistory`, `ShowHistory`, `Join`, `Receive`, `Disconnect`, `Reopen` |

### Courses, CoursePages, Learning, Reviews, LearnerPages

A stack over one course. `Courses`: the row of the course, its `versions`, the modules
and lessons (`item`), and one request per administrator: what it read (`old`) and what
it writes; the commit is `SaveCourse` or `SaveStructure`, with the unique index, the
missing row and the cascades. `CoursePages`: the administrators' Overview, Edit, Content
and Versions tabs and the list. `Learning`: `enrollment`, `progress`, the transaction of
`updateProgress()` in its steps (`UpdateProgress`, `SaveProgress`, `GetCourse`,
`CountLessons`, `CommitProgress`, `RollBack`), and the listener of `payment.completed`.
`Reviews`: the review, with the reads and commits of its writers. `LearnerPages`: the
course's page, the checkout with its polls, the player with its review form, and the
moderator's page.

| Code | Actions |
|---|---|
| `CourseService.update`, `publish`, `archive`, `restoreVersion`, `delete` | the operators `Update`, `Publish`, … begun by `HandleSubmit`, `HandlePublish`, `HandleArchive`, `HandleRestore`, `HandleDelete`; ended by `Answer` |
| `CourseStructureService` | `AddModule`, `MoveModule`, `RemoveModule`, `AddLesson`, `MoveLesson`, `RemoveLesson`, `ToggleLesson`, `SaveLessonVideo` |
| `enrollFree`, `PaymentEventListener` | `EnrollFree`, `PublishEnrolled`, `Enroll`; `OnPaymentCompleted`, `PublishPaid`, `EnrollFromPayment`, `DeliveryFails`, `ListenerDies` |
| course page, checkout | `OpenCourse`, `HandleEnrollFree`, `OpenCheckout`, `HandlePay`, `NotPaid`, `HandlePaystackSuccess`, `Poll`, `PollFails`; `AnnounceSale` (`PaymentCompleted` or `SaleUnannounced`) stands for module `Payments` |
| player, review form, moderation | `OpenPlayer`, `SyncProgress`, `HandleMarkComplete`, `HandleReview`, `ReviewSaved`, `HandleModerate`, `Moderated`, `WindowCloses` |

### Accounts, AccountPages

One account: its row (`user`), the codes in Redis (`otp`), the refresh tokens
(`tokens`, numbered as they are issued, each with the one it was exchanged for), the
access tokens the gateway accepts (`access`), and the cookies all tabs share (`jar`). A
request (`call`) carries the row it read and writes all of it back when it commits.
`apiFetch()` is part of it: a 401 is answered by one attempt to renew the session.
`AccountPages` adds the pages of one tab with what `AuthContext` takes the student for,
and the administrator's page of the student.

| Code | Actions |
|---|---|
| `JwtAuthFilter`, `apiFetch`, `refresh` | `AskFor`, `Refuse`, `Renew`, `Rotate` |
| `login`, `recordFailedAttempt` | `Login`, `CommitLogin`, `ReadAttempts`, `RecordFailedAttempt` |
| `forgotPassword`, `resendVerification` | `ForgotPassword`, `ResendVerification` |
| `verifyEmail`, `resetPassword` | `CheckOtp`, `SpendCode`, `Commit`, `CommitReset` |
| `logout` | `Blacklist`, `CommitLogout` |
| `changePassword`, profile, status | `ChangePassword`, `UpdateMyProfile`, `UpdateUserStatus`, `Commit` |
| time | `AccessExpires`, `CodeExpires`, `MinutePasses`, `LockEnds` |
| pages | `Visit`, `LoginPage`, `ForgotPage`, `ResetPage`, `VerifyPage`, `ProfileTab`, `AccountTab`, `Logout`, `Served`, `Answered`, `Cooled`, `OpenStudent`, `ToggleStatus`, `ServedAdmin` |

### Notices, AnnouncementPages

One announcement (`ann`), its publication by requests and sweeps (`pub`), what each
recipient was sent and what failed of it (`told`; a mail ends in one of `Mailings`, and
`send()` throws for none of them), and one bell (`bell`): its stream, its list, its count, and
the read that refreshes it. `AnnouncementPages` adds the list, the form, the page and the
dialog that confirms a publication.

| Code | Actions |
|---|---|
| `create`, `update`, `remove`, `publish` | `Create`, `EditRead`, `EditWrite`, `Remove`, `Publish`, `Schedule` |
| `sweepScheduled`, `doPublish`, `sweepExpired` | `Sweep`, `Resolve`, `Deliver`, `Finish`, `Throws`; `SweepExpired` |
| `NotificationsService`, consumer, stream | `Consume`, `Insert`, `InsertOther`, `InsertFails`, `Emit`, `Mark`, `MarkAllRead`, `DeleteRow`, `Restart` |
| `NotificationBell`, `subscribeToStream` | `Receive`, `LinkOpens`, `LinkFails`, `Poll`, `ReadUnread`, `Refreshed`, `RefreshFails`, `Click` |
| announcement pages | `OpenList`, `Choose`, `DeleteChosen`, `OpenCreate`, `SubmitNew`, `OpenDetail`, `SubmitEdit`, `Saved`, `OpenConfirm`, `Counted`, `Confirm`, `Published`, `CloseModal`, `Delete`, `Leave` |

## Runs

| Run | Question | States |
|---|---|---|
| `payments` | does one payment complete once, announced, with tables that agree | 406,723 |
| `subscriptions` | do row and provider agree once messages are handled; is no paid time cut off; has every event its cause; does a failed subscription end | 1,026,921 |
| `subscriptions_codes` | is a row's subscription code its own (no) | - |
| `live` | is access what was paid for, is a cancellation final, does paid become active, are invitations used up only by enrollments | 1,460,332 |
| `live_seats` | do payments in flight hold their seats (no) | - |
| `uploads` | do rows, storage and tabs stay in step; does every tab end; is `LessonVideos` implemented | 140,263 |
| `bookings` | are overlaps only those no check could see; are the conflicts a form shows about its rows | 1,905,942 |
| `classroom` | does a waiting student get an answer; does the page miss only what it was not there for | 187,008 |
| `courses` | is what students read and watch kept; are versions free, published courses complete, lists in order | 359,625 |
| `learning` | does the last lesson complete, and nothing less; is paid enrolled; does a decision stand | 707,929 |
| `accounts` | do ended sessions stay ended; are tokens and codes used once; is what pages announce so | 472,804 |
| `notices` | does everybody get an announcement once; is now now; does the badge cover what is unread | 303,457 |

Properties, by what they are about:

* *Once*: `NoDoubleCompletion` (a payment), `NobodyTwice` (an announcement), `OneHeir`
  (a refresh token), `OnlyLatestCode` (a code), `InvitationsHonoured`.
* *Two records of one fact agree*: `RefundLedgerComplete`, `FullRefundIsReal`,
  `AgreesWhenQuiet`, `EventsHaveCause`, `AccessCoversPaid`, `AccessIsPaid`,
  `CompletedIsStored`, `KeepsPromise`, `LastLessonCompletes`, `CompletedCovers`,
  `PublishedIsTrue`, `BadgeCoversUnread`, `MissingIsLost`.
* *What a page says is so*: `ConflictsAreCurrent`, `PlayerIsRight`, `ToldIsTrue`,
  `NowIsNow`, and the safety part of `WaitingEnds`.
* *Nothing done is undone by somebody who read earlier*: `NeverCutShort`,
  `CancelledStays`, `EndedForGood`, `DecisionStands`, `KeptForStudents`.
* *Limits and order*: `RefundsBounded`, `OverlapIsUnseen`, `VersionIsFree`, `OrderIsTotal`,
  `PublishedIsComplete`.
* *It ends*: `ChargedEventuallyAnnounced`, `FailedEventuallyEnds`, `PaidEventuallyActive`,
  `PaidIsEnrolled`, `ScheduledIsPublished`, `TabsEndClean`, `WaitingEnds`, `RoomHears`.

Many services make no promise without an exception, because rows have no versions. A
property then says exactly when it may fail: `~late`, `~blind`, `~crossed` and the like
are true only from the step on at which one call wrote over what it had not seen. So
the property still fails if the code goes wrong in any other way, and every exception
is a sentence of [the list below](#where-the-code-and-its-documents-disagree).

### Bounds

* **Payments** do not interact, so one is enough for properties that each speak of one.
  A price of 2 allows partial and full refunds; two requests are every race between two
  handlers; one fault is the one that leaves something half done.
* **Subscriptions** interact only through a shared price, which `SubscriptionsProofs`
  covers for any number; `subscriptions` has one. It pays for one day or two, and the code
  approximates one: so a row may be short by a day, which is the day of grace. `MaxDay` leaves
  room for a first period, one renewal and its expiry. A message that overtakes another
  counts as a fault, of which there is one. `subscriptions_codes` has two subscriptions of one
  price, and no fault.
* **Students** interact only through seats, and `live` is about one of them: two requests at
  once, of enrolling, accepting and cancelling, or the student's card and the administrator's
  tabs; a first charge and one more, under either name and in any order; one fault. A one-time
  class, a recurring one, and one by invitation. `live_seats` has two students and two
  requests for one seat.
* **Uploads**: the files of a session share nothing but its counters, which no property
  is about, so the run has one; two chunks are a first and a last one, two handlers are
  one that is late and one that is sent again, and four faults lose an answer, close a
  tab, refuse the abort and kill a handler in one behaviour. The proof has any number of
  files.
* **Bookings**: two classes (one gets its sessions from elsewhere), two rows, one weekly
  template, four instants with a week of two: an overlap needs two rows, an extension
  one week more. Each of the three desks has its own part of the state space.
* **Classroom**: two messages can be reordered, or lost one without the other; one of
  them is from a student, so that the lock matters. One fault.
* **Courses**: two administrators, three versions, five requests; two modules, one of them
  with two lessons, so that both lists can be reordered and one can be deleted with what
  is in it. **Learning** has one administrator who adds or deletes a lesson under the
  learner, two tabs, two lessons, one fault, two announcements of the sale.
* **Accounts**: two tabs and an administrator, three requests of any kind, of which any
  two may overlap while the third is what one of them is about; two clicks on the pages; a
  lock after two wrong passwords; one token that is not blacklisted or cookie that does
  not arrive.
* **Notices**: five scenarios in one run, each with what it needs: times and an edit; two
  recipients with different preferences; a bell with other events and two faults; a bell
  fed by the publication; the pages.

Deadlock is not checked: when every request has returned, every message is answered,
the days are over and the faults are spent, a model may rightly stop. Symmetry is used
only where a run checks no liveness.

### Fairness

A request in flight goes on, because an awaited query is answered or throws (weak
fairness of the steps of a call); crons run (weak fairness of their sweeps, as
`@nestjs/schedule` fires them again and again); a consumer takes what is in its queue;
Paystack repeats a webhook until it is answered (strong, because the server always has
room for one more handler while the model's two slots may be busy each time one looks);
time passes where a deadline is all that is waited for. A sale that was paid for is
announced or is not: fairness asks for one of the two (`AnnounceSale`), and a paid sale that
nobody announces is `lost`. In `Uploads` a creation that began ends, in an answer or in a
failure; and a tab goes on with its loop (strong, for the same reason of slots). In `Classroom` a page polls and joins
again, which its timers and the socket library do. No student, no administrator and no
fault is ever obliged to do anything: `FairSpec` never contains their actions.

## Proofs

TLC checks the instances above; TLAPS proves the following for every value of the
constants. The assumptions are the named `ASSUME` of each module, which every run
evaluates: constants are numbers or finite sets, nothing bounds them.

| Module | Theorems | For any |
|---|---|---|
| `PaymentsProofs` | `TypeCorrect`, `PaidIsCaptured`, `RefundedInFull` (`FullRefundIsReal`), `CompletedOnce` (`NoDoubleCompletion`), `CompletedStays`, `OverRefundIsBounded` (`RefundsBounded`), `LedgerIsComplete` (`RefundLedgerComplete`) | payments, requests, prices |
| `SubscriptionsProofs` | `TypeCorrect`, `OnePlanPerPrice`, `OwnCodes`, `EventsCaused` (`EventsHaveCause`), `PaidIsKept` (`NeverCutShort`), `RowAgrees` (`AgreesWhenQuiet`) | subscriptions, requests, days, messages |
| `LiveEnrollmentsProofs` | `TypeCorrect`, `AccessWasPaid` (`AccessIsPaid`), `InvitationsKept` (`InvitationsHonoured`), `CancelledForGood` (`CancelledStays`), `OverbookedByRequests`, `ActiveAsPaid`, `PaidIsOpen` (`AccessCoversPaid`), `SignupIsServed` | students, seats, periods, events, pages |
| `UploadsProofs` | `TypeCorrect`, `StoredWhenCompleted` (`CompletedIsStored`), `Implements` (`KeepsPromise`) | files, chunks, handlers, faults |
| `AccountsProofs` | `EndedStaysEnded` (`EndedForGood`), `ExchangedOnce` (`OneHeir`), `LatestCodeOnce` (`OnlyLatestCode`), `PagesAreUsers`, `SaidIsSo` (`ToldIsTrue`) | tabs, requests, codes, tokens, clicks |
| `BookingsProofs` | `OverlapsAreUnseen` (`OverlapIsUnseen`), `SiteIsServed`, `ShownIsCurrent` (`ConflictsAreCurrent`), `ChatIsWhole` (`MissingIsLost`), `EndedIsFinal` | classes, schedules, slots, times, calls; messages, posts |
| `CoursesProofs` | `NextVersionIsFree` (`VersionIsFree`), `ForSaleIsComplete` (`PublishedIsComplete`), `ListsAreNumbered` (`OrderIsTotal`), `WordsAndVideosStay` (`KeptForStudents`), `LastLessonEnds` (`LastLessonCompletes`), `CompletesOnlyAll` (`CompletedCovers`), `PlayerIsSo` (`PlayerIsRight`), `DecisionIsKept` (`DecisionStands`), `WelcomedOnce` | admins, versions, modules, lessons, tabs, moderators, pages |
| `NoticesProofs` | `ToldOnce` (`NobodyTwice`), `PublishedWasTold` (`PublishedIsTrue`), `BadgeIsEnough` (`BadgeCoversUnread`), `SaidIsDone` (`NowIsNow`) | students, publications, announcements, edits, failures, rows |

Most theorems are about `Spec` of the service's module: requests by anybody. That the pages
only restrict these is proved too, step by step: `SignupIsServed`, `PagesAreUsers` and
`SiteIsServed` say that the pages' specification implies the service's, so that its theorems
hold of a service that its pages drive. What a page shows is about the pages' own
specification (`PagesSpec`, `SiteSpec`). Those of `CoursesProofs` are about the pages' `Spec`,
because an order is one of a page's, and about `StudySpec`, the learner and the admins
together; those of `NoticesProofs` are about `PagesSpec`, which begins either with requests or
with pages.

Each proof has the same shape: an inductive invariant (`IInv`, or one for the question),
lemmas that every action preserves it, one that puts the actions together, and theorems that
follow. The theorems have no hypotheses about order, overlap or prices: what a property
excepts, it excepts by a history variable, for the one row that met with it.

**Payments.** `IInv` adds to the properties what requests in flight owe the rows:
`StepsCaptured` (whoever got past the provider's answer did so for a captured charge),
`SumsRead` (a sum read earlier can only be too small, because completed refunds are never
withdrawn), `PendingCovered` (each refund about to commit has its own pending row, counted
with `Cardinality`), `CompletionsCounted` (ledger rows plus requests about to write one,
plus the completion the payment still has, never exceed one more than its refunds) and
`InsertedOnce`. `LedgerInv` counts what a reversal still owes the ledger as a set of units, one
set per request, so that amounts of any number of requests add up by cardinality.
`BoundInv` counts in the same way what requests that have read the sum will refund: whoever
reads it finds room for its own amount and the others have a price each at most, so that the
excess of refunds that overlap is bounded by their number and a refund that begins later is
turned down.

**Subscriptions.** `PlanSteps` says what each `create()` knows at each step: once past the
cache it goes on with the plan that is cached, which never changes again. `RowsAreThere`:
every message and request is about a row that was inserted. `OwnCodes`: a row gets a code of
its own price and of a subscription that was paid for; that it is the row's own is false, see
below. `CausesInv` follows a cause from the provider's charge through message, request and
row to the event. The other two theorems are about subscriptions that are not in `overtaken`,
each by itself, whatever became of the others. `Held`: a request about such a subscription
holds the oldest message about it and nobody else does, so that a message delivered twice is
handled twice in its place. `PaidFor`: what was paid for last is on the row, but for the days
it was approximated too short, or still comes, after everything older; a row that expired was
over for the days of grace, which are no fewer, or is about to be put right. `LastWord` says
of each subscription what the newest of its messages is and what the row is once it is
handled; it has no more to say of one that `subscription.create` took for another (`Mixed`).

**LiveEnrollments.** Every event in a queue was paid for (`QueueBacked`), an active document
of a paid class is backed by a payment (`ActiveBacked`), and who is about to accept has a
document (`AcceptsEnrolled`). `Overrun`: seats taken and requests about to insert are
together fewer than seats and requests, because the last one to count saw a free seat: the
class is overbooked by less than the number of requests in flight, and `SeatsFit` is false.
`CoverInv`: an active document whose student is `Informed` lasts as long as was paid, or the
event that extends it is on its way and newer than all it would undo. `CancelInv`: only an
activated enrollment has a subscription, billing that was cancelled is that of a linked
document which was active, and an enrollment that ends although it got a subscription since
it was read is noted (`outrun`).

**Uploads.** `Waiting`: a tab waits for one request, and for the one its place in the loop
asks for. `FailsAreFinal`: only a tab that gave up asks for `failFile()`, and it goes on with
nothing else. `CommitsAreStored`: a handler about to write 'completed' is about a file that
object storage has put together of all its parts, which no later abort or PUT undoes.
`DoneIsCompleted`: a tab that is done was told so of a file that is completed. With them,
`Implements` maps every step to one of `LessonVideos` or to a stutter: a `Put` is `Arrive`,
`CommitFile` is `Publish`, `FailRow` is `Withdraw`, the answer to a tab is `Tell`.

**Accounts.** `Numbered` (tokens in use are 1..n, so the next one is new, by `FS_Interval`),
`Exchanged` (a token that was exchanged is not live), `Unexchanged` (a rotation that is not
late has a token nobody exchanged), `FoundAreSeen` (a logout or reset deletes at its commit
what it found when it came, unless it is deleted already), `CodesAreFresh` (only the latest
code is stored, and none that was spent). `FoundAreSeen` is what makes `EndedForGood`
inductive: a rotation that overlaps a logout either comes first, and the logout's
`UPDATE` of the row it read is of a row that is there, or finds its row gone and fails.
Of the pages: `RowsCurrent` (a request that is not late holds the row as it is), `TabInv` and
`ConsoleInv` (what a page announced is what its request did, until another overtakes it).
A rotation that commits while a logout or a reset runs, after that one looked for tokens, has
an heir it does not know of: `hist.missed` holds these heirs, until somebody finds them, and
`hist.ended` all the others (see below).
The attempt to prove `ToldIsTrue` of the administrator's page showed one more way to overtake:
an account suspended while a verification code is on its way is activated by that code
(`AuthService.java:76-84`). No run reaches it with two clicks; `Served` counts it in `over`.

**Bookings.** `LookedWell`: whatever overlaps the slots a call found free was booked since,
and the call's history names it. `ReadWell`: the same of a session about to be started,
except for what it overlapped already. A booking then adds to `unseen` exactly the
overlaps it makes. Nothing is assumed of times or of what a schedule expands to. `FormKnows`:
of the checks under way, the last one asks about the rows in the form, and while none is, the
rows checked are those shown.

**Classroom.** `Followed`: a message that was sent is, from the moment the history was read, in
its answer, on the page, on the wire, or counted as lost; `Logged`: it was stored before, once.
Both speak of every message, so that their order and number do not matter. `EndedIsFinal` is
the safety half of `WaitingEnds`.

**Courses.** Two invariants, over the course and over its content. `History`: the versions
before the course's are there, all of them, and complete once it was for sale. `Edits`: what
a transaction read is no newer than the course; so if its version number is not taken, no
snapshot came in between, and it replaces what it read. `WritesOK` says of each transaction
about the content what it writes of what it read, and `SwappedIsOrder` that a page's
`swap()` of a numbering is one; the service compares the names, so an old page's order
numbers exactly what is there.

**Learning, Reviews.** `StudyInv` takes over what admins do from the invariant of the content
and adds `Ages`, by which a lesson is made once and removed once. `CallOf`: a call that
counted is about a lesson that is not done, whose row it holds (`Apart`), and there are
still as many lessons done as it counted, because, but for calls that passed each other
unseen, done stays done; if it counted too few, there are still too few or it takes note that
somebody wrote since. So a commit that leaves nothing open had counted enough
(`LastLessonCompletes`), and one that completes the enrollment leaves one lesson open, its own
(`CompletedCovers`). `ScreenOf`: what a player shows as done was done. `ReviewInv`: an edit
carries the status it read. `Alone`: of those who create an enrollment at most one has
published, and nobody else is about to.

**Notices.** `OneByOne`: as long as no publication overlapped or followed a broken one, there
is at most one, nobody was told anything until it sends, and whoever is still in its `todo`
was not told. `Owed`: a publication that sends has sent to whoever it does not owe any more, what
it sent has arrived or has failed, and `Finish`, which waits for an empty `todo`, owes nobody. `Words`: without a race, a
publication holds the words that are stored, and none is under way or has sent while an edit
is. `PagesAsk` shows that whatever a page does is a step of the service or none of its own,
with a time of the form in the place of the requests' few. `BadgeInv`: unread rows are shown, in
the stream or about to be, a read that is under way has those that were there, and the count
is no smaller than what is shown as new. `PageInv`: while every save was answered, the page on
which a publication is confirmed knows whether the announcement has a time to come.

Model-checked only, since TLAPS proves neither liveness under fairness nor `ENABLED`:
`ChargedEventuallyAnnounced`, `FailedEventuallyEnds`, `PaidEventuallyActive`, `TabsEndClean`,
`WaitingEnds`, `RoomHears`, `PaidIsEnrolled`, `ScheduledIsPublished`. Of these the safety parts
are proved: `EndedIsFinal` and `WelcomedOnce`. Induction over data and RECURSIVE operators are out
of its reach too; no module needs either. Every other property of the runs is stated by a
theorem of the table.

## Where the code and its documents disagree

What modelling brought up. None of it is excluded from the models: each is behaviour that
the actions show, and that a property excepts by name or does not claim.

Payments and billing

* A payment refunded in part is completed once more by the next confirmation, because the
  guard of the UPDATE is the status (`payments.service.ts:316`). `NoDoubleCompletion` counts
  it: at most one more completion than refunds.
* Overlapping refunds, or a `refund.processed` delivered twice, exceed the price (`:271`).
* A process that dies between the UPDATE to 'completed' and the event leaves a payment that
  no later request announces; a publish the broker refuses is logged and forgotten
  (`payment-event-publisher.ts:60`).
* A query that fails is taken for a payment that is not there (`payments.service.ts:190`,
  `:215`): the webhook is answered 200 and not repeated, and the charge or the reversal is
  handled by nobody, unless the page confirms.
* The first charge is announced as a renewal when `subscription.create` arrives before it, and
  two customers of one price may get each other's subscription code, although the comments at
  `subscriptions.service.ts:183` and `:266` speak of the customer too: the run
  `subscriptions_codes`.
* "A later subscription.create/invoice event correcting this" (`subscriptions.service.ts:391`)
  does not exist: no such handler writes the period. A row stays short of the paid period by the
  days the approximation is, until the next charge, and the days of grace are what keeps it from
  expiring.
* The enrollment waits for payment after it was cancelled, and its subscription, once it
  starts, is billed on (`enrollments.service.ts:294`).

Live classes

* Two students who count the last free seat before either inserts both take it, and both get
  a checkout link: "two students racing the last spot can't both end up paying for it"
  (`enrollments.service.ts:106`) is what the run `live_seats` refutes.
* Only `created` activates an enrollment, and only a handler that reads 'pending' announces
  it. A student whose `subscription.create` came before the charge, or whose handler died
  before it published and was called again, paid and stays PENDING_PAYMENT, although the
  comment at `subscriptions.service.ts:219-224` calls that a gap which it fixes. A charge that
  overtakes the creation is undone by it: access is set back until the next charge.
* `cancel()` that found no subscription ends the enrollment although it got one meanwhile.
* Access outlasts a class that has ended. `hasRealAccess` of the card looks at the status
  only. "Their access ends immediately" (`EnrollmentsTab.tsx:24`): `cancel()` of a subscribed
  enrollment keeps access to the end of the paid period, and the status REMOVED is never
  written.
* The card offers enrolling again after CANCELLED or EXPIRED, and the unique index refuses. A
  card with a payment pending has no way back to the checkout. `enroll()` never asks for the
  status of the class, and the student's list shows drafts under "Past".
* The weekly extension generates the same weeks again and meets the class's own sessions
  (`sessions.service.ts:385`, checked at `:378`): windows are never extended, although
  `PHASE4.md:144` says so. Editing a class in the form always sends its schedules again and
  is refused for the same reason, after its other fields were written
  (`classes.service.ts:106-112`). A `publish()` that meets a
  conflict, or whose process dies, leaves the class PUBLISHED: it can neither be published
  again nor ended.
* The candidates of one batch are not compared with each other. `effectiveFrom` and
  `effectiveUntil` of a schedule are not looked at (`sessions.service.ts:165`), and the hours
  are UTC (`setUTCHours`), whatever `class.types.ts:11` says of the time zone.
* `reschedule()` keeps `remindersSent`: no reminder for the new time. Reminders may be lost or
  repeated when the process dies between sending and marking.
* An availability answer that was overtaken is shown for the rows of a later edit. A PATCH may
  take the price of a paid class away.
* Access to the chat is checked when the socket joins, and not again. A history that comes
  after messages from the socket erases them.

Courses and learning

* `publish()` and `archive()` write back the whole row they read. A later edit then computes a
  version number that is taken, and fails each time. Draft and archived edits take no
  snapshot. `enrollment_count` is never written, so a course with students can be deleted.
* Reorders that overlap leave positions that collide. A lesson added to a published course has
  no video. A form cannot clear an optional field.
* Two calls that complete the last two lessons at the same time do not see each other: the
  enrollment stays active. Deleting the lesson that was missing completes nobody, and counts
  include the rows of deleted lessons. Progress that overlaps a completion takes it back.
* `enrollment.created`, its mail and `review.submitted` are published before the insert
  commits; `enrollment.completed` may be published twice. A payment event whose handling fails
  is acknowledged (`PaymentEventListener.java:41`), and a sale may never be announced (see
  above): who paid is not enrolled then, and nothing tries again.
* The checkout says "enrolled" after eight polls whatever they said, and hangs in 'confirming'
  when one throws.
* An edited review keeps the approval its text had not.

Uploads

* A completion whose answer was lost is counted again when the upload is resumed.
* `createSession()` that fails after storage opened an upload, or that the page does not hear of,
  leaves that upload open: no `failFile()` follows, which `uploads.service.ts:280` counts on.

Accounts

* A session cannot be renewed once its access token has expired: the gateway asks for a valid
  token on `/api/auth/refresh` too (`JwtAuthFilter.java:34-47`), against `PLAN.md:464` and the
  service's README. `AuthContext.refreshUser()` goes around the renewal.
* With a session alive, a wrong password is counted twice: `apiFetch()` renews and repeats the
  login. `failedAttempts` stays above the limit when a lock ends, so that the next wrong
  password locks again.
* A logout or a reset deletes the tokens it found when it came (`AuthService.java:149`, `:202`). A
  renewal that commits after that and before the delete (`:168-172`) leaves its new token in
  force, and the session goes on.
* A logout that fails is answered 200 and leaves its cookies, and `AuthContext.logout` forgets the
  student anyway.
* Every request writes back the whole row: a profile saved at the same time undoes a reset, a
  verification or a suspension.

Notifications

* Two publications that overlap, or one that was cut off, send twice. A published
  announcement that expired meanwhile is shown again, when the publication finishes.
* An edit admitted to the draft takes the time of an announcement that was scheduled meanwhile.
  Saving a scheduled draft shifts `publishAt` by the browser's UTC offset (the admin app's
  `announcements.api.ts:117`, `:154`). "Publish Now" in the edit form keeps the stored time and
  publishes nothing; the dialog can be closed while it publishes, and confirmed again; it says
  "scheduled" of a time that has passed, which publishes at once.
* A mail whose template is unknown or inactive, or that the provider refuses, is logged as failed
  and not sent again; the announcement is 'published' all the same
  (`notification-sender.service.ts:54-102`).
* Announcements of low or normal priority go to the app whatever the preference says
  (`announcements.service.ts:165`).
* What the stream says while a bell reconnects is never fetched again
  (`notifications.api.ts:97-103`). "Load more" by offset, after live rows came in, shows rows
  twice. The settings page writes the profile's preferences, which the notification service
  does not read.

## Plan

Done, in this order: `Payments`, `Subscriptions`, `LiveEnrollments` with their proofs;
`LessonVideos` and `Uploads` with the refinement; `Classroom`; `Accounts`; `Notices`;
`Courses`, `Learning`, `Reviews`; `Bookings`; the pages over each; the proofs of `Uploads`,
`Accounts`, `Bookings`, `Courses` and `Notices`; then those of every safety property the runs
check, through the pages.

Next, what would add most:

1. `Subscriptions` and `LiveEnrollments` composed over the broker's queues, against an abstract
   "who is charged has access". The interface is there: `broker` of the one, and `FirstCharge`,
   `Renew`, `GiveUp` of the other.
2. The reminders' cron, with its marks and restarts.

## Not modelled

`PROJECT.json` lists every component. Not modelled, or only in part:

* *revenue*, the at-risk report, dashboards, catalogue, search, public lists: they only read;
* *templates, support tickets, logs, materials, categories, profiles' fields*: single inserts
  or updates of one row nobody else writes;
* *reminders*: the cron marks what it sent and sends messages;
* *registration and provisioning* are initial states of `Accounts`; the profile created with
  them is left out;
* e-mails and events that nothing in the repository consumes;
* the gateway's routes and rate limits, containers, CI, the shared Java library of data classes:
  configuration, or no behaviour;
* `currency`, fractions of the unit a price is counted in, time zones and byte sizes:
  data that no property tells apart.
