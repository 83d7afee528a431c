------------------------------ MODULE Uploads ------------------------------
(***************************************************************************)
(* One upload session (upload-service, uploads.service.ts) and the         *)
(* browser tabs that drive it (LessonFileUpload.tsx): every file is cut    *)
(* into chunks that go straight to object storage, while the service keeps *)
(* rows for session, files and chunks and finalizes the multipart upload.  *)
(*                                                                         *)
(* Each awaited query or storage call of a handler is one step; call[c] is *)
(* a request in flight and goes on when its tab stops waiting for it.      *)
(* Sizes are counted in chunks.                                            *)
(***************************************************************************)
EXTENDS Integers, FiniteSets

CONSTANTS
  Files,        \* the files of the session
  Parts,        \* chunk indexes of a file
  Calls,        \* requests in flight together
  Resumes,      \* whether closed tabs are reopened and go on, as getSession() is there for
  MaxFaults     \* bound: lost requests and answers, refused storage calls, closed tabs

ASSUME UploadsAssumption ==
  /\ IsFiniteSet(Files) /\ Files # {}
  /\ IsFiniteSet(Parts) /\ Parts \subseteq Nat \ {0} /\ Parts # {}
  /\ Resumes \in BOOLEAN
  /\ MaxFaults \in Nat

VARIABLES
  session,      \* the upload_sessions row; 'creating' before its transaction commits
  status,       \* upload_files.status, "none" before the insert
  bytes,        \* upload_files.uploaded_bytes
  chunk,        \* upload_chunks.status
  store,        \* object storage: what became of the multipart upload
  parts,        \* object storage: the parts it has
  tab,          \* what each file's uploader does
  call,         \* requests in flight
  faults,
  torn          \* history: files on which a handler died, or of whose rows no tab knows

files   == <<status, bytes, chunk>>
storage == <<store, parts>>
vars    == <<session, files, storage, tab, call, faults, torn>>

Session  == [status : {"none", "creating", "uploading", "completed", "failed"},
             completed : Nat, failed : Nat, bytes : Nat]
Statuses == {"none", "preparing", "uploading", "completed", "failed"}
Presigns == {"presign", "mark", "touch"}
Reports  == {"report", "add_to_file", "add_to_session"}
Finishes == {"finish", "check_chunks", "store", "commit"}
Fails    == {"fail", "fail_file", "fail_session", "fail_all"}
Call     == [pc : {"idle"} \cup Presigns \cup Reports \cup Finishes \cup Fails,
             file : Files, part : Parts, waited : BOOLEAN]
NoCall   == [pc |-> "idle", file |-> CHOOSE f \in Files : TRUE,
             part |-> CHOOSE p \in Parts : TRUE, waited |-> FALSE]

\* What the loop of handleFileSelected() is about to do with the first chunk of todo.
Tab   == [pc : {"none", "create", "refused", "presign", "put", "report", "finish", "done",
                "error", "gave_up", "closed"},
          todo : SUBSET Parts, waits : BOOLEAN]
NoTab == [pc |-> "none", todo |-> {}, waits |-> FALSE]

Busy == {"create", "presign", "put", "report", "finish"}

At(c, step) == call[c].pc = step
Goto(c, step) == call' = [call EXCEPT ![c].pc = step]
Enter(c, step, f, p, waited) ==
  /\ At(c, "idle")
  /\ call' = [call EXCEPT ![c] = [pc |-> step, file |-> f, part |-> p, waited |-> waited]]

\* The tab goes on with the next chunk, or with completeFile() after the last one.
Loop(todo) == [pc |-> IF todo = {} THEN "finish" ELSE "presign", todo |-> todo, waits |-> FALSE]

After(t) ==
  CASE t.pc = "presign" -> [t EXCEPT !.pc = "put", !.waits = FALSE]
    [] t.pc = "report"  -> Loop(t.todo \ {CHOOSE p \in t.todo : \A q \in t.todo : p <= q})
    [] t.pc = "finish"  -> [t EXCEPT !.pc = "done", !.waits = FALSE]
    [] OTHER            -> t

\* A request ends; its tab, if it still waits, goes on or goes to its catch block.
Answer(c, ok) ==
  LET f == call[c].file IN
  /\ call' = [call EXCEPT ![c] = NoCall]
  /\ tab' = IF ~call[c].waited THEN tab
            ELSE [tab EXCEPT ![f] = IF ok THEN After(@) ELSE [@ EXCEPT !.pc = "error", !.waits = FALSE]]

Init ==
  /\ session = [status |-> "none", completed |-> 0, failed |-> 0, bytes |-> 0]
  /\ status = [f \in Files |-> "none"]
  /\ bytes = [f \in Files |-> 0]
  /\ chunk = [f \in Files |-> [p \in Parts |-> "pending"]]
  /\ store = [f \in Files |-> "none"]
  /\ parts = [f \in Files |-> {}]
  /\ tab = [f \in Files |-> NoTab]
  /\ call = [c \in Calls |-> NoCall]
  /\ faults = 0
  /\ torn = {}

-----------------------------------------------------------------------------
(* createSession(): one transaction, in which every file gets its multipart upload. *)

Tabs(from, to) == [f \in Files |-> IF tab[f].pc = from THEN to ELSE tab[f]]
Refused == [NoTab EXCEPT !.pc = "refused"]

\* handleFileSelected(), again after a failure; while a request that nobody waits for is
\* under way, another makes a session of its own.
SelectFiles ==
  /\ session.status = "none" /\ \A f \in Files : tab[f].pc \notin Busy
  /\ session' = [session EXCEPT !.status = "creating"]
  /\ tab' = [f \in Files |-> [NoTab EXCEPT !.pc = "create"]]
  /\ UNCHANGED <<files, storage, call, faults, torn>>

OpenUpload(f) ==
  /\ session.status = "creating" /\ store[f] = "none"
  /\ store' = [store EXCEPT ![f] = "open"]
  /\ UNCHANGED <<session, files, parts, tab, call, faults, torn>>

\* COMMIT, and the answer.  If it was lost before, nobody has the ids of the files.
CreateSession ==
  /\ session.status = "creating" /\ \A f \in Files : store[f] = "open"
  /\ session' = [session EXCEPT !.status = "uploading"]
  /\ status' = [f \in Files |-> "preparing"]
  /\ tab' = Tabs("create", Loop(Parts))
  /\ torn' = torn \cup {f \in Files : tab[f].pc = "refused"}
  /\ UNCHANGED <<bytes, chunk, storage, call, faults>>

\* Checksum, course-service, storage or a query throws: ROLLBACK.  What was opened in
\* storage stays there, under a key that no row has.
CreationFails ==
  /\ faults < MaxFaults
  /\ session.status = "creating"
  /\ faults' = faults + 1
  /\ session' = [session EXCEPT !.status = "none"]
  /\ store' = [f \in Files |-> "none"]
  /\ tab' = Tabs("create", Refused)
  /\ torn' = torn \cup {f \in Files : store[f] # "none"}
  /\ UNCHANGED <<files, parts, call>>

\* The answer is lost: the tab shows an error and knows no file to fail.
CreationUnheard ==
  /\ faults < MaxFaults
  /\ \E f \in Files : tab[f].pc = "create"
  /\ faults' = faults + 1
  /\ tab' = Tabs("create", Refused)
  /\ UNCHANGED <<session, files, storage, call, torn>>

-----------------------------------------------------------------------------
(* The tab. *)

First(f, p) == p \in tab[f].todo /\ \A q \in tab[f].todo : p <= q

\* presignChunk(), completeChunk() or completeFile(), awaited.
Send(c, f) ==
  /\ tab[f].pc \in {"presign", "report", "finish"} /\ ~tab[f].waits
  /\ \E p \in Parts : /\ tab[f].todo = {} \/ First(f, p)
                      /\ Enter(c, tab[f].pc, f, p, TRUE)
  /\ tab' = [tab EXCEPT ![f].waits = TRUE]
  /\ UNCHANGED <<session, files, storage, faults, torn>>

\* fetch(presign.url, PUT): object storage takes parts of an open upload only.
Put(f) ==
  /\ tab[f].pc = "put"
  /\ \/ /\ store[f] = "open"
        /\ \E p \in Parts : First(f, p) /\ parts' = [parts EXCEPT ![f] = @ \cup {p}]
        /\ tab' = [tab EXCEPT ![f].pc = "report"]
        /\ UNCHANGED faults
     \/ /\ store[f] # "open"
        /\ tab' = [tab EXCEPT ![f].pc = "error"]
        /\ UNCHANGED <<parts, faults>>
     \/ /\ faults < MaxFaults
        /\ faults' = faults + 1
        /\ tab' = [tab EXCEPT ![f].pc = "error"]
        /\ UNCHANGED parts
  /\ UNCHANGED <<session, files, store, call, torn>>

\* The catch block: failFile(), not awaited, its own failure ignored.
GiveUp(c, f) ==
  /\ tab[f].pc = "error"
  /\ Enter(c, "fail", f, CHOOSE p \in Parts : TRUE, FALSE)
  /\ tab' = [tab EXCEPT ![f].pc = "gave_up"]
  /\ UNCHANGED <<session, files, storage, faults, torn>>

\* The connection breaks while the tab waits: its request goes on without it.
AnswerLost(c) ==
  LET f == call[c].file IN
  /\ faults < MaxFaults
  /\ ~At(c, "idle") /\ call[c].waited
  /\ faults' = faults + 1
  /\ call' = [call EXCEPT ![c].waited = FALSE]
  /\ tab' = [tab EXCEPT ![f].pc = "error", ![f].waits = FALSE]
  /\ UNCHANGED <<session, files, storage, torn>>

\* The browser crashes.
CloseTab(f) ==
  /\ faults < MaxFaults
  /\ tab[f].pc \in Busy
  /\ faults' = faults + 1
  /\ call' = [c \in Calls |-> IF call[c].file = f THEN [call[c] EXCEPT !.waited = FALSE] ELSE call[c]]
  /\ tab' = [tab EXCEPT ![f] = [pc |-> "closed", todo |-> {}, waits |-> FALSE]]
  /\ UNCHANGED <<session, files, storage, torn>>

\* getSession(): goes on with the chunks that are not 'completed'.
Resume(f) ==
  /\ Resumes /\ tab[f].pc = "closed" /\ status[f] # "none"
  /\ tab' = [tab EXCEPT ![f] =
       IF status[f] = "completed" THEN [@ EXCEPT !.pc = "done"]
       ELSE Loop({p \in Parts : chunk[f][p] # "completed"})]
  /\ UNCHANGED <<session, files, storage, call, faults, torn>>

-----------------------------------------------------------------------------
(* presignChunk() *)

Presign(c) ==
  LET f == call[c].file IN
  /\ At(c, "presign")
  /\ IF status[f] = "completed" \/ chunk[f][call[c].part] = "completed"
       THEN Answer(c, FALSE) ELSE Goto(c, "mark") /\ UNCHANGED tab
  /\ UNCHANGED <<session, files, storage, faults, torn>>

MarkUploading(c) ==
  LET f == call[c].file IN
  /\ At(c, "mark")
  /\ chunk' = [chunk EXCEPT ![f][call[c].part] = "uploading"]
  /\ Goto(c, "touch")
  /\ UNCHANGED <<session, status, bytes, storage, tab, faults, torn>>

TouchFile(c) ==
  LET f == call[c].file IN
  /\ At(c, "touch")
  /\ status' = [status EXCEPT ![f] = IF @ = "preparing" THEN "uploading" ELSE @]
  /\ Answer(c, TRUE)
  /\ UNCHANGED <<session, bytes, chunk, storage, faults, torn>>

-----------------------------------------------------------------------------
(* completeChunk(): the chunk, then two increments in the database. *)

ReportChunk(c) ==
  LET f == call[c].file IN
  /\ At(c, "report")
  /\ chunk' = [chunk EXCEPT ![f][call[c].part] = "completed"]
  /\ Goto(c, "add_to_file")
  /\ UNCHANGED <<session, status, bytes, storage, tab, faults, torn>>

AddToFile(c) ==
  /\ At(c, "add_to_file")
  /\ bytes' = [bytes EXCEPT ![call[c].file] = @ + 1]
  /\ Goto(c, "add_to_session")
  /\ UNCHANGED <<session, status, chunk, storage, tab, faults, torn>>

AddToSession(c) ==
  /\ At(c, "add_to_session")
  /\ session' = [session EXCEPT !.bytes = @ + 1]
  /\ Answer(c, TRUE)
  /\ UNCHANGED <<files, storage, faults, torn>>

-----------------------------------------------------------------------------
(* completeFile() *)

Finish(c) ==
  /\ At(c, "finish")
  /\ IF status[call[c].file] = "completed" THEN Answer(c, TRUE)
       ELSE Goto(c, "check_chunks") /\ UNCHANGED tab
  /\ UNCHANGED <<session, files, storage, faults, torn>>

\* Mutant: the row is marked before object storage is asked.
CheckChunks_CommitFirst(c) ==
  /\ At(c, "check_chunks")
  /\ IF \E p \in Parts : chunk[call[c].file][p] # "completed" THEN Answer(c, FALSE)
       ELSE Goto(c, "commit") /\ UNCHANGED tab
  /\ UNCHANGED <<session, files, storage, faults, torn>>

CheckChunks(c) ==
  /\ At(c, "check_chunks")
  /\ IF \E p \in Parts : chunk[call[c].file][p] # "completed" THEN Answer(c, FALSE)
       ELSE Goto(c, "store") /\ UNCHANGED tab
  /\ UNCHANGED <<session, files, storage, faults, torn>>

\* Mutant: an upload that is stored already is taken for finished.
CompleteMultipart_StoredIsDone(c) ==
  LET f == call[c].file IN
  /\ At(c, "store")
  /\ \/ /\ store[f] = "open" /\ parts[f] = Parts
        /\ store' = [store EXCEPT ![f] = "stored"]
        /\ Goto(c, "commit")
        /\ UNCHANGED tab
     \/ /\ store[f] # "open"
        /\ Answer(c, store[f] = "stored")
        /\ UNCHANGED store
  /\ UNCHANGED <<session, files, parts, faults, torn>>

\* Object storage completes an open upload that has the parts listed.  Asked again
\* after that, it refuses or repeats its answer; an aborted upload is gone.
CompleteMultipart(c) ==
  LET f == call[c].file IN
  /\ At(c, "store")
  /\ \/ /\ store[f] \in {"open", "stored"} /\ parts[f] = Parts
        /\ store' = [store EXCEPT ![f] = "stored"]
        /\ Goto(c, "commit")
        /\ UNCHANGED tab
     \/ /\ store[f] # "open" \/ parts[f] # Parts
        /\ Answer(c, FALSE)
        /\ UNCHANGED store
  /\ UNCHANGED <<session, files, parts, faults, torn>>

\* One transaction.
CommitFile(c) ==
  LET f == call[c].file
      n == session.completed + 1
  IN
  /\ At(c, "commit")
  /\ status' = [status EXCEPT ![f] = "completed"]
  /\ session' = [session EXCEPT !.completed = n,
                   !.status = IF n >= Cardinality(Files) THEN "completed" ELSE @]
  /\ Answer(c, TRUE)
  /\ UNCHANGED <<bytes, chunk, storage, faults, torn>>

-----------------------------------------------------------------------------
(* failFile(): no step asks what became of the file meanwhile. *)

\* Mutant: only uploads that are under way are aborted.
Abort_UnderWay(c) ==
  LET f == call[c].file IN
  /\ At(c, "fail")
  /\ store' = [store EXCEPT ![f] = IF @ = "open" /\ status[f] = "uploading" THEN "aborted" ELSE @]
  /\ Goto(c, "fail_file")
  /\ UNCHANGED <<session, files, parts, tab, faults, torn>>

\* An abort that object storage refuses is logged and passed over.
Abort(c) ==
  LET f == call[c].file IN
  /\ At(c, "fail")
  /\ \/ /\ store' = [store EXCEPT ![f] = IF @ = "open" THEN "aborted" ELSE @]
        /\ UNCHANGED <<faults, torn>>
     \/ /\ faults < MaxFaults
        /\ faults' = faults + 1
        /\ torn' = torn \cup {f}
        /\ UNCHANGED store
  /\ Goto(c, "fail_file")
  /\ UNCHANGED <<session, files, parts, tab>>

FailRow(c) ==
  /\ At(c, "fail_file")
  /\ status' = [status EXCEPT ![call[c].file] = "failed"]
  /\ Goto(c, "fail_session")
  /\ UNCHANGED <<session, bytes, chunk, storage, tab, faults, torn>>

CountFailed(c) ==
  /\ At(c, "fail_session")
  /\ session' = [session EXCEPT !.failed = @ + 1]
  /\ IF session.failed + 1 >= Cardinality(Files) THEN Goto(c, "fail_all") /\ UNCHANGED tab
       ELSE Answer(c, TRUE)
  /\ UNCHANGED <<files, storage, faults, torn>>

FailSession(c) ==
  /\ At(c, "fail_all")
  /\ session' = [session EXCEPT !.status = "failed"]
  /\ Answer(c, TRUE)
  /\ UNCHANGED <<files, storage, faults, torn>>

\* A handler dies, or its storage call fails after it took effect.
HandlerDies(c) ==
  /\ faults < MaxFaults
  /\ ~At(c, "idle")
  /\ faults' = faults + 1
  /\ torn' = torn \cup {call[c].file}
  /\ Answer(c, FALSE)
  /\ UNCHANGED <<session, files, storage>>

Proceed(c) ==
  \/ Presign(c) \/ MarkUploading(c) \/ TouchFile(c)
  \/ ReportChunk(c) \/ AddToFile(c) \/ AddToSession(c)
  \/ Finish(c) \/ CheckChunks(c) \/ CompleteMultipart(c) \/ CommitFile(c)
  \/ Abort(c) \/ FailRow(c) \/ CountFailed(c) \/ FailSession(c)

Creates == CreateSession \/ \E f \in Files : OpenUpload(f)

Next ==
  \/ SelectFiles \/ Creates \/ CreationFails \/ CreationUnheard
  \/ \E f \in Files : \/ Put(f) \/ CloseTab(f) \/ Resume(f)
                      \/ \E c \in Calls : Send(c, f) \/ GiveUp(c, f)
  \/ \E c \in Calls : Proceed(c) \/ AnswerLost(c) \/ HandlerDies(c)

Spec == Init /\ [][Next]_vars

\* Handlers go on, and so does an open tab; a slot for its request may be taken each
\* time one looks, but not for ever.
FairSpec ==
  /\ Spec
  /\ WF_vars(Creates) /\ \A c \in Calls : WF_vars(Proceed(c))
  /\ \A f \in Files : WF_vars(Put(f)) /\ SF_vars(\E c \in Calls : Send(c, f) \/ GiveUp(c, f))

-----------------------------------------------------------------------------
(* Properties *)

\* Every variable has its type: the rows of uploads.types.ts, and what a tab and a
\* handler of uploads.service.ts can be doing.
TypeOK ==
  /\ session \in Session
  /\ status \in [Files -> Statuses]
  /\ bytes \in [Files -> Nat]
  /\ chunk \in [Files -> [Parts -> {"pending", "uploading", "completed"}]]
  /\ store \in [Files -> {"none", "open", "stored", "aborted"}]
  /\ parts \in [Files -> SUBSET Parts]
  /\ tab \in [Files -> Tab]
  /\ call \in [Calls -> Call]
  /\ faults \in Nat
  /\ torn \subseteq Files

\* getDownloadUrl() signs links to whole objects only: a file is 'completed' after
\* object storage put all its parts together, whatever failFile(), a second
\* completeFile() and a stale presignChunk() did meanwhile.
CompletedIsStored ==
  \A f \in Files : status[f] = "completed" => store[f] = "stored" /\ parts[f] = Parts

\* handleFileSelected() ends: with 'done', in its catch block, or with the tab.
TabEnds == \A f \in Files : tab[f].pc \in Busy ~> tab[f].pc \notin Busy

\* A file given up does not stay 'uploading', although nothing waits for failFile(): it is
\* marked, or a completeFile() whose answer was lost got through.  Either way its multipart
\* upload is not open any more, "so no orphaned incomplete-upload storage cost lingers"
\* (line 280).  One whose creation failed before storage had opened it has no row.
Clean(f) == status[f] \in {"none", "failed", "completed"} /\ store[f] # "open"

\* But: once storage has opened it, a creation that fails, or of which the tab does not
\* hear, leaves an upload behind, for which no failFile() is sent.
GivenUpIsClean ==
  \A f \in Files : tab[f].pc \in {"gave_up", "refused"} ~> Clean(f) \/ f \in torn

\* Every tab comes to an end, and a file it gave up is marked and leaves nothing behind.
TabsEndClean == TabEnds /\ GivenUpIsClean

Promise == INSTANCE LessonVideos WITH
  arrived  <- parts,
  playable <- [f \in Files |-> status[f] = "completed"],
  told     <- {f \in Files : tab[f].pc = "done"}

\* The service and the tabs do what LessonVideos promises: files are offered for
\* playback when all their parts have arrived, and one whose upload was announced as
\* done (LessonFileUpload.tsx:81) is never withdrawn, by a late failFile() for instance.
KeepsPromise == Promise!Spec

=============================================================================
