----------------------------- MODULE Classroom -----------------------------
(***************************************************************************)
(* One booked session of a class and the classroom page of one student:    *)
(* the join button, that polls getRoom() (useSessionLiveStatus.ts), and    *)
(* the chat, whose history comes over REST and whose news over a socket    *)
(* (useClassChat.ts, chat.service.ts, chat.gateway.ts).                    *)
(*                                                                         *)
(* Each awaited query is one step of a handler.  wire is what the socket   *)
(* carries to the page, in order; what is sent while the page is not in    *)
(* the room of the class is gone.                                          *)
(***************************************************************************)
EXTENDS Naturals, FiniteSets, SequencesExt

CONSTANTS
  Messages,     \* the messages posted
  ByStudents,   \* those of them that students post
  Requests,     \* requests about the session at the same time
  MaxFaults     \* bound: broken connections, lapses of access, dead handlers

ASSUME ClassroomAssumption == IsFiniteSet(Messages) /\ ByStudents \subseteq Messages /\ MaxFaults \in Nat

VARIABLES
  status,       \* live_sessions.status
  over,         \* whether its end time, and the grace, are past
  request,      \* requests to start, end or reschedule it that read the row
  revived,      \* history: start() wrote LIVE over ENDED
  live,         \* the page: state of useSessionLiveStatus()
  access,       \* whether the student has access to the class now
  locked,       \* classes.chatLocked
  msg,          \* what post() of each message did
  log,          \* class_chat_messages, by createdAt
  history,      \* the page: loadHistory()
  answer,       \* the messages its answer carries
  socket,       \* the page's socket, as the gateway sees it
  wire,
  shown,        \* the page: messages
  lost,         \* history: messages sent to a page that was not in the room, or erased there
  faults

session  == <<status, over, request, revived>>
chatPage == <<history, answer, shown>>
chat     == <<locked, msg, log, chatPage, socket, wire, lost>>
roomVars == <<session, live, access, chat, faults>>

RoomInit ==
  /\ status = "SCHEDULED" /\ over = FALSE /\ revived = FALSE
  /\ request = [c \in Requests |-> "idle"]
  /\ live = "not-live" /\ access = TRUE /\ locked = TRUE
  /\ msg = [m \in Messages |-> "none"]
  /\ log = <<>> /\ answer = <<>> /\ wire = <<>> /\ shown = <<>>
  /\ history = "asked" /\ socket = "off"
  /\ lost = {} /\ faults = 0

Fault == faults < MaxFaults /\ faults' = faults + 1

-----------------------------------------------------------------------------
(* The session: every handler reads the row, and writes whatever became of  *)
(* it meanwhile.                                                            *)

Admit(c, step, S) ==
  /\ request[c] = "idle" /\ status \in S
  /\ request' = [request EXCEPT ![c] = step]
  /\ UNCHANGED <<status, over, revived, live, access, chat, faults>>

StartReads(c)      == Admit(c, "start", {"SCHEDULED"})
EndReads(c)        == Admit(c, "end", {"LIVE", "SCHEDULED"})
RescheduleReads(c) == Admit(c, "move", {"SCHEDULED"})

Write(c) ==
  /\ request[c] # "idle"
  /\ request' = [request EXCEPT ![c] = "idle"]
  /\ status' = CASE request[c] = "start" -> "LIVE" [] request[c] = "end" -> "ENDED" [] OTHER -> status
  /\ revived' = (revived \/ (request[c] = "start" /\ status = "ENDED"))
  /\ over' = (over /\ request[c] # "move")
  /\ UNCHANGED <<live, access, chat, faults>>

EndPasses ==
  /\ ~over
  /\ over' = TRUE
  /\ UNCHANGED <<status, request, revived, live, access, chat, faults>>

AutoEndStaleSession ==
  /\ over /\ status # "ENDED"
  /\ status' = "ENDED"
  /\ UNCHANGED <<over, request, revived, live, access, chat, faults>>

-----------------------------------------------------------------------------
(* The join button. *)

\* getRoom() checks access before it looks at the session.
GetRoom ==
  IF ~access THEN "not-enrolled"
  ELSE CASE status = "ENDED" -> "ended" [] status = "LIVE" -> "live" [] OTHER -> "not-live"

\* Mutant: an error is final.
Poll_ErrorIsFinal ==
  /\ live = "not-live"
  /\ live' = GetRoom
  /\ UNCHANGED <<session, access, chat, faults>>

Poll ==
  /\ live \in {"not-live", "error"}
  /\ live' = GetRoom
  /\ UNCHANGED <<session, access, chat, faults>>

\* The poll fails; it is no answer, and the page asks again.
PollFails ==
  /\ live = "not-live" /\ Fault
  /\ live' = "error"
  /\ UNCHANGED <<session, access, chat>>

\* accessUntil passes, or a payment renews it.
AccessChanges ==
  /\ Fault
  /\ access' = ~access
  /\ UNCHANGED <<session, live, chat>>

-----------------------------------------------------------------------------
(* Chat: the service. *)

SetChatLocked ==
  /\ locked' = ~locked
  /\ UNCHANGED <<session, live, access, msg, log, chatPage, socket, wire, lost, faults>>

\* post(): lock and access bind students only, and are looked at once.
Post(m) ==
  /\ msg[m] = "none"
  /\ m \in ByStudents => ~locked /\ access
  /\ msg' = [msg EXCEPT ![m] = "admitted"]
  /\ UNCHANGED <<session, live, access, locked, log, chatPage, socket, wire, lost, faults>>

InsertMessage(m) ==
  /\ msg[m] = "admitted"
  /\ msg' = [msg EXCEPT ![m] = "stored"]
  /\ log' = Append(log, m)
  /\ UNCHANGED <<session, live, access, locked, chatPage, socket, wire, lost, faults>>

\* Mutant: to everyone in the room but its sender, the student of this page.
BroadcastMessage_NotToSender(m) ==
  /\ msg[m] = "stored"
  /\ msg' = [msg EXCEPT ![m] = "sent"]
  /\ IF socket = "joined" /\ m \notin ByStudents THEN wire' = Append(wire, m) ELSE UNCHANGED wire
  /\ UNCHANGED <<session, live, access, locked, log, chatPage, socket, lost, faults>>

BroadcastMessage(m) ==
  /\ msg[m] = "stored"
  /\ msg' = [msg EXCEPT ![m] = "sent"]
  /\ IF socket = "joined" THEN wire' = Append(wire, m) /\ UNCHANGED lost
     ELSE lost' = lost \cup {m} /\ UNCHANGED wire
  /\ UNCHANGED <<session, live, access, locked, log, chatPage, socket, faults>>

\* post() dies after the insert: nobody is told.
PostDies(m) ==
  /\ msg[m] = "stored" /\ Fault
  /\ msg' = [msg EXCEPT ![m] = "sent"]
  /\ lost' = lost \cup {m}
  /\ UNCHANGED <<session, live, access, locked, log, chatPage, socket, wire>>

-----------------------------------------------------------------------------
(* Chat: the page. *)

ReadHistory ==
  /\ history = "asked"
  /\ IF access THEN history' = "read" /\ answer' = log
     ELSE history' = "failed" /\ UNCHANGED answer
  /\ UNCHANGED <<session, live, access, locked, msg, log, shown, socket, wire, lost, faults>>

\* loadHistory() replaces what came over the socket before.
ShowHistory ==
  /\ history = "read"
  /\ history' = "shown"
  /\ shown' = answer
  /\ answer' = <<>>
  /\ lost' = (lost \cup ToSet(shown)) \ ToSet(answer)
  /\ UNCHANGED <<session, live, access, locked, msg, log, socket, wire, faults>>

\* 'connect', and join-class: access is looked at when the page joins, not later.
Join ==
  /\ socket = "off"
  /\ socket' = IF access THEN "joined" ELSE "refused"
  /\ UNCHANGED <<session, live, access, locked, msg, log, chatPage, wire, lost, faults>>

\* What the socket carried is gone; socket.io connects again and joins, and nobody
\* loads the history again.
Disconnect ==
  /\ socket # "off" /\ Fault
  /\ socket' = "off"
  /\ lost' = lost \cup ToSet(wire)
  /\ wire' = <<>>
  /\ UNCHANGED <<session, live, access, locked, msg, log, chatPage>>

\* A message that is in the list already is dropped.
Receive ==
  /\ wire # <<>>
  /\ shown' = IF Contains(shown, Head(wire)) THEN shown ELSE Append(shown, Head(wire))
  /\ wire' = Tail(wire)
  /\ UNCHANGED <<session, live, access, locked, msg, log, history, answer, socket, lost, faults>>

\* The page is left and opened again.
Reopen ==
  /\ Fault
  /\ live' = "not-live"
  /\ history' = "asked" /\ socket' = "off"
  /\ answer' = <<>> /\ wire' = <<>> /\ shown' = <<>>
  /\ lost' = {}
  /\ UNCHANGED <<session, access, locked, msg, log>>

PostGoesOn(m) == InsertMessage(m) \/ BroadcastMessage(m)
ChatGoesOn    == ReadHistory \/ ShowHistory \/ Join \/ Receive

RoomNext ==
  \/ \E c \in Requests : StartReads(c) \/ EndReads(c) \/ RescheduleReads(c) \/ Write(c)
  \/ EndPasses \/ AutoEndStaleSession
  \/ Poll \/ PollFails \/ AccessChanges
  \/ SetChatLocked \/ \E m \in Messages : Post(m) \/ PostGoesOn(m) \/ PostDies(m)
  \/ ChatGoesOn \/ Disconnect \/ Reopen

RoomSpec == RoomInit /\ [][RoomNext]_roomVars

\* The cron runs, handlers go on, and so does an open page.
RoomFairSpec ==
  /\ RoomSpec
  /\ WF_roomVars(AutoEndStaleSession) /\ WF_roomVars(Poll)
  /\ \A m \in Messages : WF_roomVars(PostGoesOn(m))
  /\ WF_roomVars(ReadHistory) /\ WF_roomVars(ShowHistory) /\ WF_roomVars(Join) /\ WF_roomVars(Receive)

-----------------------------------------------------------------------------
(* Properties *)

\* Every variable has its type (session.types.ts, chat-message.types.ts).
RoomTypeOK ==
  /\ status \in {"SCHEDULED", "LIVE", "ENDED"}
  /\ over \in BOOLEAN /\ revived \in BOOLEAN /\ access \in BOOLEAN /\ locked \in BOOLEAN
  /\ request \in [Requests -> {"idle", "start", "end", "move"}]
  /\ live \in {"not-live", "live", "ended", "not-enrolled", "error"}
  /\ msg \in [Messages -> {"none", "admitted", "stored", "sent"}]
  /\ log \in Seq(Messages) /\ answer \in Seq(Messages) /\ wire \in Seq(Messages) /\ shown \in Seq(Messages)
  /\ history \in {"asked", "read", "shown", "failed"}
  /\ socket \in {"off", "joined", "refused"}
  /\ lost \subseteq Messages
  /\ faults \in Nat

\* The page shows what was said, and once (useClassChat.ts:15): when its history is there, its socket is in the room
\* and nothing is on the way, the messages it misses were sent while it was not in
\* the room, or came before the history and were erased by it.
MissingIsLost ==
  /\ IsInjective(shown)
  /\ history = "shown" /\ socket = "joined" /\ wire = <<>>
       => \A m \in Messages : msg[m] = "sent" => Contains(shown, m) \/ m \in lost

\* The page says that the session is over, and stops polling, only when nobody will
\* hold it any more, unless a start() in flight revives it.
EndedPageIsRight == live = "ended" => status = "ENDED" \/ revived

\* "so a forgotten SCHEDULED/LIVE row doesn't linger forever" (sessions.service.ts:42):
\* a session past its end ends, or is moved, also when start() races with the cron.
StaleSessionEnds == over ~> status = "ENDED" \/ ~over

\* A student who waits for a session that is live gets in, or is turned away; and nobody
\* is turned away from a session that will be held, or waits for one that is over.
WaitingEnds ==
  /\ status = "LIVE" ~> live \notin {"not-live", "error"} \/ status # "LIVE"
  /\ []EndedPageIsRight
  /\ StaleSessionEnds

\* A page that is in the room shows every message posted from then on, its own
\* included, which comes back over the socket only (ChatPanel.tsx:31).
RoomHears ==
  \A m \in Messages :
    msg[m] \in {"admitted", "stored"} /\ socket = "joined" ~> Contains(shown, m) \/ m \in lost \/ socket # "joined"
=============================================================================
