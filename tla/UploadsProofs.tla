---------------------------- MODULE UploadsProofs ----------------------------
(***************************************************************************)
(* Proofs about Uploads: for any number of files, parts and requests, and  *)
(* any number of faults, a file is 'completed' only when object storage    *)
(* put all its parts together, and the service with the tabs that drive it *)
(* implements LessonVideos.                                                *)
(***************************************************************************)
EXTENDS Uploads, TLAPS

\* Nothing runs before the session is there.
Created == session.status \notin {"none", "creating"}
Untouched ==
  ~Created =>
    /\ \A f \in Files : status[f] = "none" /\ tab[f].pc \in {"none", "create", "refused", "closed"}
    /\ \A c \in Calls : call[c] = NoCall

\* What a tab waits for is what its request does.
SameErrand(a, b) ==
  \/ a = "presign" /\ b \in Presigns
  \/ a = "report"  /\ b \in Reports
  \/ a = "finish"  /\ b \in Finishes

Waiting ==
  \A c \in Calls : call[c].waited =>
    /\ tab[call[c].file].waits
    /\ SameErrand(tab[call[c].file].pc, call[c].pc)
    /\ \A d \in Calls \ {c} : call[d].waited => call[d].file # call[c].file

\* Only a tab that gave up asks for failFile(), and it goes on with nothing else.
FailsAreFinal ==
  \A c \in Calls : call[c].pc \in Fails => ~call[c].waited /\ tab[call[c].file].pc = "gave_up"

\* completeFile() commits what object storage has put together.
CommitsAreStored ==
  \A c \in Calls : At(c, "commit") =>
    store[call[c].file] = "stored" /\ parts[call[c].file] = Parts

\* A tab that is done was told of a file that is completed.
DoneIsCompleted == \A f \in Files : tab[f].pc = "done" => status[f] = "completed"

\* The inductive invariant.
IInv ==
  /\ TypeOK
  /\ Untouched
  /\ Waiting
  /\ FailsAreFinal
  /\ CommitsAreStored
  /\ CompletedIsStored
  /\ DoneIsCompleted

Chores == {Presigns, Reports, Finishes, Fails}

-----------------------------------------------------------------------------
(* Requests and tabs *)

LEMMA NoCallType == NoCall \in Call /\ NoCall.pc = "idle" /\ NoCall.waited = FALSE
  <1>1. (CHOOSE f \in Files : TRUE) \in Files /\ (CHOOSE p \in Parts : TRUE) \in Parts
    BY UploadsAssumption
  <1>2. QED
    BY <1>1 DEF NoCall, Call

\* A request is there only after the session, and so is a tab at work.
LEMMA Begun ==
  ASSUME IInv
  PROVE  /\ \A c \in Calls : call[c].pc # "idle" => Created
         /\ \A f \in Files : tab[f].pc \notin {"none", "create", "refused", "closed"} => Created
  <1>1. NoCall.pc = "idle"
    BY DEF NoCall
  <1>2. QED
    BY <1>1 DEF IInv, Untouched

LEMMA GotoFacts ==
  ASSUME IInv, NEW c \in Calls, NEW K \in Chores, call[c].pc \in K, NEW step \in K,
         Goto(c, step), UNCHANGED tab
  PROVE  /\ call' \in [Calls -> Call]
         /\ \A d \in Calls : call'[d].file = call[d].file /\ call'[d].waited = call[d].waited
         /\ \A d \in Calls \ {c} : call'[d] = call[d]
         /\ call'[c].pc = step
         /\ Waiting' /\ FailsAreFinal'
  <1>1. call \in [Calls -> Call] /\ call[c] \in Call
    BY DEF IInv, TypeOK
  <1>2. call' = [call EXCEPT ![c].pc = step]
    BY DEF Goto
  <1>3. [call[c] EXCEPT !.pc = step] \in Call
    BY <1>1 DEF Call, Chores
  <1>4. call'[c] = [call[c] EXCEPT !.pc = step] /\ call' \in [Calls -> Call]
    BY <1>1, <1>2, <1>3
  <1>5. \A d \in Calls \ {c} : call'[d] = call[d]
    BY <1>1, <1>2
  <1>6. call'[c].pc = step /\ call'[c].file = call[c].file /\ call'[c].waited = call[c].waited
    BY <1>1, <1>4 DEF Call
  <1>7. \A d \in Calls : call'[d].file = call[d].file /\ call'[d].waited = call[d].waited
    BY <1>5, <1>6
  <1>8. Waiting'
    <2>1. \A a : SameErrand(a, call[c].pc) => SameErrand(a, step)
      BY DEF SameErrand, Chores, Presigns, Reports, Finishes, Fails
    <2>2. \A d \in Calls : call[d].waited => SameErrand(tab'[call'[d].file].pc, call'[d].pc)
      BY <1>5, <1>6, <1>7, <2>1 DEF IInv, Waiting
    <2>3. QED
      BY <1>7, <2>2 DEF IInv, Waiting
  <1>9. FailsAreFinal'
    <2>1. step \in Fails => call[c].pc \in Fails
      BY DEF Chores, Presigns, Reports, Finishes, Fails
    <2>2. QED
      BY <1>5, <1>6, <1>7, <2>1 DEF IInv, FailsAreFinal
  <1>10. QED
    BY <1>4, <1>5, <1>6, <1>7, <1>8, <1>9

\* What a tab goes on with; it is done only after completeFile().
LEMMA AfterType ==
  ASSUME NEW t \in Tab
  PROVE  /\ After(t) \in Tab
         /\ [t EXCEPT !.pc = "error", !.waits = FALSE] \in Tab
         /\ After(t).pc = "done" => t.pc \in {"done", "finish"}
  <1>1. \A todo \in SUBSET Parts : Loop(todo) \in Tab /\ Loop(todo).pc # "done"
    BY DEF Loop, Tab
  <1>2. t.todo \in SUBSET Parts
    BY DEF Tab
  <1>3. [t EXCEPT !.pc = "error", !.waits = FALSE] \in Tab
    BY DEF Tab
  <1>4. CASE t.pc = "presign"
    BY <1>3, <1>4 DEF After, Tab
  <1>5. CASE t.pc = "report"
    <2>1. After(t) = Loop(t.todo \ {CHOOSE p \in t.todo : \A q \in t.todo : p <= q})
      BY <1>5 DEF After
    <2>2. QED
      BY <1>1, <1>2, <1>3, <2>1
  <1>6. CASE t.pc = "finish"
    BY <1>3, <1>6 DEF After, Tab
  <1>7. CASE t.pc \notin {"presign", "report", "finish"}
    BY <1>3, <1>7 DEF After
  <1>8. QED
    BY <1>4, <1>5, <1>6, <1>7

LEMMA AnswerFacts ==
  ASSUME IInv, NEW c \in Calls, NEW ok \in BOOLEAN, Answer(c, ok)
  PROVE  /\ call' \in [Calls -> Call] /\ tab' \in [Files -> Tab]
         /\ \A d \in Calls \ {c} : call'[d] = call[d]
         /\ call'[c] = NoCall
         /\ \A f \in Files : tab[f].pc = "done" => tab'[f] = tab[f]
         /\ \A f \in Files : tab'[f].pc = "done" =>
              tab[f].pc = "done" \/ (f = call[c].file /\ ok /\ call[c].pc \in Finishes)
         /\ Waiting' /\ FailsAreFinal'
  <1> DEFINE f == call[c].file
  <1>1. /\ call \in [Calls -> Call] /\ tab \in [Files -> Tab] /\ f \in Files
        /\ call[c].waited \in BOOLEAN
    BY DEF IInv, TypeOK, Call
  <1>2. /\ call' = [call EXCEPT ![c] = NoCall]
        /\ call' \in [Calls -> Call] /\ call'[c] = NoCall
        /\ \A d \in Calls \ {c} : call'[d] = call[d]
    BY <1>1, NoCallType DEF Answer
  <1>3. \A d \in Calls : call'[d].waited => d # c /\ call'[d] = call[d]
    BY <1>2, NoCallType
  <1>4. \A d \in Calls : call'[d].pc \in Fails => d # c /\ call'[d] = call[d]
    BY <1>2, NoCallType DEF Fails
  <1>5. CASE ~call[c].waited
    <2>1. tab' = tab
      BY <1>5 DEF Answer
    <2>2. Waiting'
      BY <1>3, <2>1 DEF IInv, Waiting
    <2>3. FailsAreFinal'
      BY <1>4, <2>1 DEF IInv, FailsAreFinal
    <2>4. QED
      BY <1>1, <1>2, <2>1, <2>2, <2>3
  <1>6. CASE call[c].waited
    <2> DEFINE t == IF ok THEN After(tab[f]) ELSE [tab[f] EXCEPT !.pc = "error", !.waits = FALSE]
    <2>1. t \in Tab
      BY <1>1, AfterType
    <2>2. tab' = [tab EXCEPT ![f] = t]
      BY <1>6, <1>1 DEF Answer
    <2>3. tab' \in [Files -> Tab] /\ tab'[f] = t /\ \A g \in Files \ {f} : tab'[g] = tab[g]
      BY <1>1, <2>1, <2>2
    <2>4. SameErrand(tab[f].pc, call[c].pc)
      BY <1>6 DEF IInv, Waiting
    <2>5. tab[f].pc \in {"presign", "report", "finish"}
      BY <2>4 DEF SameErrand
    <2>6. t.pc = "done" => ok /\ tab[f].pc = "finish"
      <3>1. CASE ok
        <4>1. t = After(tab[f])
          BY <3>1
        <4>2. QED
          BY <1>1, <2>5, <3>1, <4>1, AfterType
      <3>2. CASE ~ok
        BY <1>1, <3>2 DEF Tab
      <3>3. QED
        BY <3>1, <3>2
    <2>7. tab[f].pc = "finish" => call[c].pc \in Finishes
      BY <2>4 DEF SameErrand
    <2>8. Waiting'
      <3> SUFFICES ASSUME NEW d \in Calls, call'[d].waited
                   PROVE  /\ tab'[call'[d].file].waits
                          /\ SameErrand(tab'[call'[d].file].pc, call'[d].pc)
                          /\ \A e \in Calls \ {d} : call'[e].waited => call'[e].file # call'[d].file
        BY DEF Waiting
      <3>1. d # c /\ call'[d] = call[d] /\ call[d].file \in Files
        BY <1>1, <1>3 DEF Call
      <3>2. call[d].file # f
        BY <1>6, <3>1 DEF IInv, Waiting
      <3>3. tab'[call'[d].file] = tab[call[d].file]
        BY <2>3, <3>1, <3>2
      <3>4. QED
        BY <1>3, <3>1, <3>3 DEF IInv, Waiting
    <2>9. FailsAreFinal'
      <3> SUFFICES ASSUME NEW d \in Calls, call'[d].pc \in Fails
                   PROVE  ~call'[d].waited /\ tab'[call'[d].file].pc = "gave_up"
        BY DEF FailsAreFinal
      <3>1. d # c /\ call'[d] = call[d] /\ call[d].file \in Files
        BY <1>1, <1>4 DEF Call
      <3>2. ~call[d].waited /\ tab[call[d].file].pc = "gave_up"
        BY <3>1 DEF IInv, FailsAreFinal
      <3>3. call[d].file # f
        BY <2>5, <3>2
      <3>4. QED
        BY <2>3, <3>1, <3>2, <3>3
    <2>10. QED
      BY <1>2, <2>3, <2>5, <2>6, <2>7, <2>8, <2>9
  <1>7. QED
    BY <1>1, <1>5, <1>6

-----------------------------------------------------------------------------
(* Handlers *)

\* What a step of a handler does to the rows and to object storage.
RowsStay ==
  /\ session' \in Session /\ Created'
  /\ status' \in [Files -> Statuses] /\ bytes' \in [Files -> Nat]
  /\ chunk' \in [Files -> [Parts -> {"pending", "uploading", "completed"}]]
  /\ store' \in [Files -> {"none", "open", "stored", "aborted"}]
  /\ parts' \in [Files -> SUBSET Parts]
  /\ faults' \in Nat /\ torn' \subseteq Files
  /\ CompletedIsStored'
  /\ \A f \in Files : tab[f].pc = "done" => status'[f] = "completed"
  /\ \A f \in Files : store[f] = "stored" /\ parts[f] = Parts =>
                      store'[f] = "stored" /\ parts'[f] = Parts

LEMMA GotoStep ==
  ASSUME IInv, RowsStay, NEW c \in Calls, NEW K \in Chores, call[c].pc \in K, NEW step \in K,
         Goto(c, step), UNCHANGED tab,
         step = "commit" => store'[call[c].file] = "stored" /\ parts'[call[c].file] = Parts
  PROVE  IInv'
  <1>1. /\ call' \in [Calls -> Call] /\ Waiting' /\ FailsAreFinal' /\ call'[c].pc = step
        /\ \A d \in Calls : call'[d].file = call[d].file
        /\ \A d \in Calls \ {c} : call'[d] = call[d]
    BY GotoFacts
  <1>2. TypeOK'
    BY <1>1 DEF IInv, TypeOK, RowsStay
  <1>3. Untouched'
    BY DEF RowsStay, Untouched
  <1>4. CommitsAreStored'
    <2>1. \A d \in Calls : call[d].file \in Files
      BY DEF IInv, TypeOK, Call
    <2>2. QED
      BY <1>1, <2>1 DEF IInv, CommitsAreStored, At, RowsStay
  <1>5. DoneIsCompleted'
    BY DEF DoneIsCompleted, RowsStay
  <1>6. QED
    BY <1>1, <1>2, <1>3, <1>4, <1>5 DEF IInv, RowsStay

LEMMA AnswerStep ==
  ASSUME IInv, RowsStay, NEW c \in Calls, NEW ok \in BOOLEAN, Answer(c, ok),
         ok /\ call[c].pc \in Finishes => status'[call[c].file] = "completed"
  PROVE  IInv'
  <1>1. /\ call' \in [Calls -> Call] /\ tab' \in [Files -> Tab] /\ Waiting' /\ FailsAreFinal'
        /\ call'[c] = NoCall
        /\ \A d \in Calls \ {c} : call'[d] = call[d]
        /\ \A f \in Files : tab'[f].pc = "done" =>
             tab[f].pc = "done" \/ (f = call[c].file /\ ok /\ call[c].pc \in Finishes)
    BY AnswerFacts
  <1>2. TypeOK'
    BY <1>1 DEF IInv, TypeOK, RowsStay
  <1>3. Untouched'
    BY DEF RowsStay, Untouched
  <1>4. CommitsAreStored'
    <2>1. \A d \in Calls : call[d].file \in Files
      BY DEF IInv, TypeOK, Call
    <2>2. \A d \in Calls : call'[d].pc = "commit" => d # c /\ call'[d] = call[d]
      BY <1>1, NoCallType
    <2>3. QED
      BY <2>1, <2>2 DEF IInv, CommitsAreStored, At, RowsStay
  <1>5. DoneIsCompleted'
    BY <1>1 DEF DoneIsCompleted, RowsStay
  <1>6. QED
    BY <1>1, <1>2, <1>3, <1>4, <1>5 DEF IInv, RowsStay

\* A step that changes neither 'completed' nor object storage.
LEMMA SmallStep ==
  ASSUME IInv, NEW c \in Calls, call[c].pc # "idle", UNCHANGED storage,
         session' \in Session, session'.status = session.status,
         status' \in [Files -> Statuses], bytes' \in [Files -> Nat],
         chunk' \in [Files -> [Parts -> {"pending", "uploading", "completed"}]],
         \A f \in Files : status'[f] = "completed" <=> status[f] = "completed",
         faults' \in Nat, torn' \subseteq Files
  PROVE  RowsStay
  <1>1. Created
    BY Begun
  <1>2. QED
    BY <1>1 DEF IInv, TypeOK, RowsStay, storage, CompletedIsStored, DoneIsCompleted, Created

LEMMA PresignInv ==
  ASSUME IInv, NEW c \in Calls, Presign(c) \/ MarkUploading(c) \/ TouchFile(c)
  PROVE  IInv'
  <1>0. TypeOK /\ call[c] \in Call /\ Presigns \in Chores
    BY DEF IInv, TypeOK, Chores
  <1>1. CASE Presign(c)
    <2>1. RowsStay
      BY <1>0, <1>1, SmallStep DEF Presign, At, files, TypeOK
    <2>2. CASE Goto(c, "mark") /\ UNCHANGED tab
      BY <1>0, <1>1, <2>1, <2>2, GotoStep DEF Presign, At, Presigns
    <2>3. CASE Answer(c, FALSE)
      BY <2>1, <2>3, AnswerStep
    <2>4. QED
      BY <1>1, <2>2, <2>3 DEF Presign
  <1>2. CASE MarkUploading(c)
    <2>1. chunk' \in [Files -> [Parts -> {"pending", "uploading", "completed"}]]
      BY <1>0, <1>2 DEF MarkUploading, TypeOK, Call
    <2>2. RowsStay
      BY <1>0, <1>2, <2>1, SmallStep DEF MarkUploading, At, TypeOK
    <2>3. QED
      BY <1>0, <1>2, <2>2, GotoStep DEF MarkUploading, At, Presigns
  <1>3. CASE TouchFile(c)
    <2>1. /\ status' \in [Files -> Statuses]
          /\ \A f \in Files : status'[f] = "completed" <=> status[f] = "completed"
      BY <1>0, <1>3 DEF TouchFile, TypeOK, Call, Statuses
    <2>2. RowsStay
      BY <1>0, <1>3, <2>1, SmallStep DEF TouchFile, At, TypeOK
    <2>3. QED
      BY <1>3, <2>2, AnswerStep DEF TouchFile, At, Finishes
  <1>4. QED
    BY <1>1, <1>2, <1>3

LEMMA ReportInv ==
  ASSUME IInv, NEW c \in Calls, ReportChunk(c) \/ AddToFile(c) \/ AddToSession(c)
  PROVE  IInv'
  <1>0. TypeOK /\ call[c] \in Call /\ Reports \in Chores
    BY DEF IInv, TypeOK, Chores
  <1>1. CASE ReportChunk(c)
    <2>1. chunk' \in [Files -> [Parts -> {"pending", "uploading", "completed"}]]
      BY <1>0, <1>1 DEF ReportChunk, TypeOK, Call
    <2>2. RowsStay
      BY <1>0, <1>1, <2>1, SmallStep DEF ReportChunk, At, TypeOK
    <2>3. QED
      BY <1>0, <1>1, <2>2, GotoStep DEF ReportChunk, At, Reports
  <1>2. CASE AddToFile(c)
    <2>1. bytes' \in [Files -> Nat]
      BY <1>0, <1>2 DEF AddToFile, TypeOK, Call
    <2>2. RowsStay
      BY <1>0, <1>2, <2>1, SmallStep DEF AddToFile, At, TypeOK
    <2>3. /\ call[c].pc \in Reports /\ Goto(c, "add_to_session") /\ UNCHANGED tab
          /\ "add_to_session" \in Reports /\ "add_to_session" # "commit"
      BY <1>2 DEF AddToFile, At, Reports
    <2>4. QED
      BY <1>0, <2>2, <2>3, GotoStep
  <1>3. CASE AddToSession(c)
    <2>1. session' \in Session /\ session'.status = session.status
      BY <1>0, <1>3 DEF AddToSession, TypeOK, Session
    <2>2. RowsStay
      BY <1>0, <1>3, <2>1, SmallStep DEF AddToSession, At, TypeOK, files
    <2>3. QED
      BY <1>3, <2>2, AnswerStep DEF AddToSession, At, Finishes
  <1>4. QED
    BY <1>1, <1>2, <1>3

LEMMA FinishInv ==
  ASSUME IInv, NEW c \in Calls, Finish(c) \/ CheckChunks(c) \/ CompleteMultipart(c) \/ CommitFile(c)
  PROVE  IInv'
  <1> DEFINE f == call[c].file
  <1>0. TypeOK /\ call[c] \in Call /\ Finishes \in Chores /\ f \in Files
    BY DEF IInv, TypeOK, Chores, Call
  <1>1. CASE Finish(c)
    <2>1. RowsStay
      BY <1>0, <1>1, SmallStep DEF Finish, At, files, TypeOK
    <2>2. CASE status[f] = "completed"
      <3>1. Answer(c, TRUE) /\ status' = status
        BY <1>1, <2>2 DEF Finish, files
      <3>2. QED
        BY <2>1, <2>2, <3>1, AnswerStep
    <2>3. CASE status[f] # "completed"
      BY <1>0, <1>1, <2>1, <2>3, GotoStep DEF Finish, At, Finishes
    <2>4. QED
      BY <2>2, <2>3
  <1>2. CASE CheckChunks(c)
    <2>1. RowsStay
      BY <1>0, <1>2, SmallStep DEF CheckChunks, At, files, TypeOK
    <2>2. CASE Answer(c, FALSE)
      BY <2>1, <2>2, AnswerStep
    <2>3. CASE Goto(c, "store") /\ UNCHANGED tab
      BY <1>0, <1>2, <2>1, <2>3, GotoStep DEF CheckChunks, At, Finishes
    <2>4. QED
      BY <1>2, <2>2, <2>3 DEF CheckChunks
  <1>3. CASE CompleteMultipart(c)
    <2>1. Created
      BY <1>3, Begun DEF CompleteMultipart, At
    <2>2. CASE /\ store[f] \in {"open", "stored"} /\ parts[f] = Parts
               /\ store' = [store EXCEPT ![f] = "stored"]
               /\ Goto(c, "commit") /\ UNCHANGED tab
      <3>1. /\ store' \in [Files -> {"none", "open", "stored", "aborted"}] /\ store'[f] = "stored"
            /\ \A g \in Files : store[g] = "stored" => store'[g] = "stored"
        BY <1>0, <2>2 DEF TypeOK
      <3>2. RowsStay
        BY <1>0, <1>3, <2>1, <3>1
        DEF CompleteMultipart, RowsStay, TypeOK, files, IInv, CompletedIsStored, DoneIsCompleted, Created
      <3>3. QED
        BY <1>0, <1>3, <2>2, <3>1, <3>2, GotoStep DEF CompleteMultipart, At, Finishes
    <2>3. CASE Answer(c, FALSE) /\ UNCHANGED store
      <3>1. RowsStay
        BY <1>0, <1>3, <2>3, SmallStep DEF CompleteMultipart, At, files, storage, TypeOK
      <3>2. QED
        BY <2>3, <3>1, AnswerStep
    <2>4. QED
      BY <1>3, <2>2, <2>3 DEF CompleteMultipart
  <1>4. CASE CommitFile(c)
    <2>1. Created /\ session \in Session
      BY <1>0, <1>4, Begun DEF CommitFile, At, TypeOK
    <2>2. session' \in Session /\ Created'
      <3> DEFINE now == IF session.completed + 1 >= Cardinality(Files) THEN "completed"
                        ELSE session.status
      <3>1. session' = [session EXCEPT !.completed = session.completed + 1, !.status = now]
        BY <1>4, <2>1 DEF CommitFile, Session
      <3>2. now \in {"uploading", "completed", "failed"}
        BY <2>1 DEF Session, Created
      <3>3. \A n \in Nat, st \in {"uploading", "completed", "failed"} :
              /\ [session EXCEPT !.completed = n, !.status = st] \in Session
              /\ [session EXCEPT !.completed = n, !.status = st].status = st
        BY <2>1 DEF Session
      <3>4. session.completed + 1 \in Nat
        BY <2>1 DEF Session
      <3> HIDE DEF now
      <3>5. QED
        BY <3>1, <3>2, <3>3, <3>4 DEF Created
    <2>3. /\ status' \in [Files -> Statuses] /\ status'[f] = "completed"
          /\ \A g \in Files \ {f} : status'[g] = status[g]
      BY <1>0, <1>4 DEF CommitFile, TypeOK, Statuses
    <2>4. store[f] = "stored" /\ parts[f] = Parts
      BY <1>4 DEF CommitFile, IInv, CommitsAreStored
    <2>5. RowsStay
      BY <1>0, <1>4, <2>2, <2>3, <2>4
      DEF CommitFile, RowsStay, TypeOK, storage, IInv, CompletedIsStored, DoneIsCompleted
    <2>6. QED
      BY <1>4, <2>3, <2>5, AnswerStep DEF CommitFile
  <1>5. QED
    BY <1>1, <1>2, <1>3, <1>4

LEMMA FailInv ==
  ASSUME IInv, NEW c \in Calls, Abort(c) \/ FailRow(c) \/ CountFailed(c) \/ FailSession(c)
  PROVE  IInv'
  <1> DEFINE f == call[c].file
  <1>0. TypeOK /\ call[c] \in Call /\ Fails \in Chores /\ f \in Files
    BY DEF IInv, TypeOK, Chores, Call
  <1>1. CASE Abort(c)
    <2>1. Created
      BY <1>1, Begun DEF Abort, At
    <2>2. /\ store' \in [Files -> {"none", "open", "stored", "aborted"}]
          /\ \A g \in Files : store[g] = "stored" => store'[g] = "stored"
      BY <1>0, <1>1 DEF Abort, TypeOK
    <2>3. faults' \in Nat /\ torn' \subseteq Files
      BY <1>0, <1>1 DEF Abort, TypeOK
    <2>4. RowsStay
      BY <1>0, <1>1, <2>1, <2>2, <2>3
      DEF Abort, RowsStay, TypeOK, files, IInv, CompletedIsStored, DoneIsCompleted, Created
    <2>5. QED
      BY <1>0, <1>1, <2>4, GotoStep DEF Abort, At, Fails
  <1>2. CASE FailRow(c)
    <2>1. Created /\ tab[f].pc = "gave_up"
      BY <1>2, Begun DEF FailRow, At, IInv, FailsAreFinal, Fails
    <2>2. /\ status' \in [Files -> Statuses] /\ status'[f] = "failed"
          /\ \A g \in Files \ {f} : status'[g] = status[g]
      BY <1>0, <1>2 DEF FailRow, TypeOK, Statuses
    <2>3. RowsStay
      BY <1>0, <1>2, <2>1, <2>2
      DEF FailRow, RowsStay, TypeOK, storage, IInv, CompletedIsStored, DoneIsCompleted, Created
    <2>4. QED
      BY <1>0, <1>2, <2>3, GotoStep DEF FailRow, At, Fails
  <1>3. CASE CountFailed(c)
    <2>1. session' \in Session /\ session'.status = session.status
      BY <1>0, <1>3 DEF CountFailed, TypeOK, Session
    <2>2. RowsStay
      BY <1>0, <1>3, <2>1, SmallStep DEF CountFailed, At, TypeOK, files
    <2>3. CASE Goto(c, "fail_all") /\ UNCHANGED tab
      BY <1>0, <1>3, <2>2, <2>3, GotoStep DEF CountFailed, At, Fails
    <2>4. CASE Answer(c, TRUE)
      BY <1>3, <2>2, <2>4, AnswerStep DEF CountFailed, At, Finishes
    <2>5. QED
      BY <1>3, <2>3, <2>4 DEF CountFailed
  <1>4. CASE FailSession(c)
    <2>1. session' \in Session /\ Created'
      BY <1>0, <1>4 DEF FailSession, TypeOK, Session, Created
    <2>2. RowsStay
      BY <1>0, <1>4, <2>1
      DEF FailSession, RowsStay, TypeOK, files, storage, IInv, CompletedIsStored, DoneIsCompleted
    <2>3. QED
      BY <1>4, <2>2, AnswerStep DEF FailSession, At, Finishes
  <1>5. QED
    BY <1>1, <1>2, <1>3, <1>4

LEMMA DiesInv ==
  ASSUME IInv, NEW c \in Calls, HandlerDies(c)
  PROVE  IInv'
  <1>1. faults' \in Nat /\ torn' \subseteq Files
    BY DEF HandlerDies, IInv, TypeOK, Call
  <1>2. RowsStay
    BY <1>1, SmallStep DEF HandlerDies, At, IInv, TypeOK, files, storage
  <1>3. QED
    BY <1>2, AnswerStep DEF HandlerDies

-----------------------------------------------------------------------------
(* Tabs *)

\* A step of a tab leaves the rows and object storage alone.
LEMMA TabStep ==
  ASSUME IInv, UNCHANGED <<session, files, storage, torn>>, Created \/ Untouched',
         call' \in [Calls -> Call], tab' \in [Files -> Tab], faults' \in Nat,
         Waiting', FailsAreFinal',
         \A c \in Calls : call'[c].pc = "commit" =>
           call[c].pc = "commit" /\ call'[c].file = call[c].file,
         \A f \in Files : tab'[f].pc = "done" => tab[f].pc = "done" \/ status[f] = "completed"
  PROVE  IInv'
  <1>1. TypeOK'
    BY DEF IInv, TypeOK, files, storage
  <1>2. Untouched'
    BY DEF Untouched, Created
  <1>3. CommitsAreStored' /\ CompletedIsStored' /\ DoneIsCompleted'
    BY DEF IInv, CommitsAreStored, CompletedIsStored, DoneIsCompleted, At, files, storage
  <1>4. QED
    BY <1>1, <1>2, <1>3 DEF IInv

LEMMA EnterFacts ==
  ASSUME TypeOK, NEW c \in Calls, NEW step \in {"presign", "report", "finish", "fail"},
         NEW f \in Files, NEW p \in Parts, NEW w \in BOOLEAN, Enter(c, step, f, p, w)
  PROVE  /\ call' \in [Calls -> Call]
         /\ call'[c].pc = step /\ call'[c].file = f /\ call'[c].waited = w
         /\ \A d \in Calls \ {c} : call'[d] = call[d]
  <1>1. [pc |-> step, file |-> f, part |-> p, waited |-> w] \in Call
    BY DEF Call, Presigns, Reports, Finishes, Fails
  <1>2. QED
    BY <1>1 DEF Enter, TypeOK

\* Only a tab at work has a request to wait for, and only one that gave up fails a file.
LEMMA Idlers ==
  ASSUME IInv, NEW f \in Files
  PROVE  /\ tab[f].pc \notin {"presign", "report", "finish"} \/ ~tab[f].waits =>
              \A c \in Calls : call[c].file = f => ~call[c].waited
         /\ tab[f].pc # "gave_up" => \A c \in Calls : call[c].file = f => call[c].pc \notin Fails
  BY DEF IInv, Waiting, FailsAreFinal, SameErrand

LEMMA SendInv ==
  ASSUME IInv, NEW c \in Calls, NEW f \in Files, Send(c, f)
  PROVE  IInv'
  <1>0. TypeOK /\ tab[f] \in Tab
    BY DEF IInv, TypeOK
  <1>1. PICK p \in Parts : Enter(c, tab[f].pc, f, p, TRUE)
    BY DEF Send
  <1>2. tab[f].pc \in {"presign", "report", "finish"} /\ ~tab[f].waits
    BY DEF Send
  <1>3. /\ call' \in [Calls -> Call]
        /\ call'[c].pc = tab[f].pc /\ call'[c].file = f /\ call'[c].waited = TRUE
        /\ \A d \in Calls \ {c} : call'[d] = call[d]
    <2> DEFINE step == tab[f].pc
    <2>1. step \in {"presign", "report", "finish", "fail"} /\ Enter(c, step, f, p, TRUE)
      BY <1>1, <1>2
    <2> HIDE DEF step
    <2>2. /\ call' \in [Calls -> Call]
          /\ call'[c].pc = step /\ call'[c].file = f /\ call'[c].waited = TRUE
          /\ \A d \in Calls \ {c} : call'[d] = call[d]
      BY <1>0, <2>1, EnterFacts
    <2> USE DEF step
    <2>3. QED
      BY <2>2
  <1>4. /\ tab' \in [Files -> Tab] /\ \A g \in Files : tab'[g].pc = tab[g].pc
        /\ tab'[f].waits /\ \A g \in Files : tab[g].waits => tab'[g].waits
    <2> DEFINE t == [tab[f] EXCEPT !.waits = TRUE]
    <2>1. t \in Tab /\ t.pc = tab[f].pc /\ t.waits
      BY <1>0 DEF Tab
    <2>2. tab' = [tab EXCEPT ![f] = t]
      BY DEF Send
    <2> HIDE DEF t
    <2>3. QED
      BY <1>0, <2>1, <2>2 DEF TypeOK
  <1>5. \A d \in Calls : call[d].file \in Files
    BY <1>0 DEF TypeOK, Call
  <1>6. Waiting'
    <2>1. \A d \in Calls \ {c} : call[d].waited => call[d].file # f
      BY <1>2, Idlers
    <2>2. SameErrand(tab[f].pc, tab[f].pc)
      BY <1>2 DEF SameErrand, Presigns, Reports, Finishes
    <2>3. QED
      BY <1>3, <1>4, <1>5, <2>1, <2>2 DEF IInv, Waiting
  <1>7. FailsAreFinal'
    <2>1. call'[c].pc \notin Fails
      BY <1>2, <1>3 DEF Fails
    <2>2. QED
      BY <1>3, <1>4, <1>5, <2>1 DEF IInv, FailsAreFinal
  <1>8. Created
    BY <1>2, Begun
  <1>9. QED
    BY <1>0, <1>2, <1>3, <1>4, <1>6, <1>7, <1>8, TabStep DEF Send, TypeOK

LEMMA GiveUpInv ==
  ASSUME IInv, NEW c \in Calls, NEW f \in Files, GiveUp(c, f)
  PROVE  IInv'
  <1>0. TypeOK /\ tab[f] \in Tab
    BY DEF IInv, TypeOK
  <1>1. (CHOOSE p \in Parts : TRUE) \in Parts
    BY UploadsAssumption
  <1>2. /\ call' \in [Calls -> Call]
        /\ call'[c].pc = "fail" /\ call'[c].file = f /\ call'[c].waited = FALSE
        /\ \A d \in Calls \ {c} : call'[d] = call[d]
    BY <1>0, <1>1, EnterFacts DEF GiveUp
  <1>3. /\ tab' \in [Files -> Tab] /\ tab[f].pc = "error" /\ tab'[f].pc = "gave_up"
        /\ \A g \in Files \ {f} : tab'[g] = tab[g]
    BY <1>0 DEF GiveUp, TypeOK, Tab
  <1>4. \A d \in Calls : call[d].file \in Files
    BY <1>0 DEF TypeOK, Call
  <1>5. \A d \in Calls : call[d].file = f => ~call[d].waited
    BY <1>3, Idlers
  <1>6. Waiting'
    BY <1>2, <1>3, <1>4, <1>5 DEF IInv, Waiting
  <1>7. FailsAreFinal'
    BY <1>2, <1>3, <1>4 DEF IInv, FailsAreFinal
  <1>8. Created
    BY <1>3, Begun
  <1>9. QED
    BY <1>0, <1>2, <1>3, <1>6, <1>7, <1>8, TabStep DEF GiveUp, TypeOK

LEMMA AnswerLostInv ==
  ASSUME IInv, NEW c \in Calls, AnswerLost(c)
  PROVE  IInv'
  <1> DEFINE f == call[c].file
  <1>0. TypeOK /\ call[c] \in Call /\ f \in Files /\ call[c].waited
    BY DEF IInv, TypeOK, Call, AnswerLost
  <1>1. tab[f] \in Tab
    BY <1>0 DEF TypeOK
  <1>2. /\ call' \in [Calls -> Call]
        /\ call'[c].pc = call[c].pc /\ call'[c].file = f /\ call'[c].waited = FALSE
        /\ \A d \in Calls \ {c} : call'[d] = call[d]
    BY <1>0 DEF AnswerLost, TypeOK, Call
  <1>3. tab'[f].pc = "error" /\ tab' \in [Files -> Tab] /\ \A g \in Files \ {f} : tab'[g] = tab[g]
    BY <1>0, <1>1 DEF AnswerLost, TypeOK, Tab
  <1>4. /\ tab[f].pc \in {"presign", "report", "finish"}
        /\ \A d \in Calls \ {c} : call[d].waited => call[d].file # f
    BY <1>0 DEF IInv, Waiting, SameErrand
  <1>5. \A d \in Calls : call[d].file \in Files
    BY <1>0 DEF TypeOK, Call
  <1>6. Waiting'
    BY <1>2, <1>3, <1>4, <1>5 DEF IInv, Waiting
  <1>7. FailsAreFinal'
    BY <1>2, <1>3, <1>4, <1>5, Idlers DEF IInv, FailsAreFinal
  <1>8. Created /\ faults' \in Nat
    BY <1>0, Begun DEF AnswerLost, At, TypeOK
  <1>9. \A g \in Files : tab'[g].pc = "done" => tab[g].pc = "done"
    BY <1>3
  <1>10. \A d \in Calls : call'[d].pc = call[d].pc /\ call'[d].file = call[d].file
    BY <1>2
  <1>11. QED
    BY <1>2, <1>3, <1>6, <1>7, <1>8, <1>9, <1>10, TabStep DEF AnswerLost

LEMMA CloseTabInv ==
  ASSUME IInv, NEW f \in Files, CloseTab(f)
  PROVE  IInv'
  <1>0. TypeOK /\ tab[f].pc \in Busy
    BY DEF IInv, CloseTab
  <1>1. /\ tab' \in [Files -> Tab] /\ tab'[f].pc = "closed"
        /\ \A g \in Files \ {f} : tab'[g] = tab[g]
    BY <1>0 DEF CloseTab, TypeOK, Tab
  <1>2. /\ call' \in [Calls -> Call]
        /\ \A c \in Calls : call'[c].pc = call[c].pc /\ call'[c].file = call[c].file
        /\ \A c \in Calls : call'[c].waited => call[c].waited /\ call[c].file # f
    BY <1>0 DEF CloseTab, TypeOK, Call
  <1>3. \A c \in Calls : call[c].file \in Files
    BY <1>0 DEF TypeOK, Call
  <1>4. Waiting'
    BY <1>1, <1>2, <1>3 DEF IInv, Waiting
  <1>5. FailsAreFinal'
    BY <1>0, <1>1, <1>2, <1>3, Idlers DEF IInv, FailsAreFinal, Busy
  <1>6. Untouched' /\ faults' \in Nat
    <2>1. call' = [c \in Calls |-> IF call[c].file = f THEN [call[c] EXCEPT !.waited = FALSE] ELSE call[c]]
      BY DEF CloseTab
    <2>2. [NoCall EXCEPT !.waited = FALSE] = NoCall
      BY NoCallType DEF Call
    <2>3. ASSUME ~Created, NEW c \in Calls
          PROVE  call'[c] = NoCall
      <3>1. call[c] = NoCall
        BY <2>3 DEF IInv, Untouched
      <3>2. call'[c] = IF call[c].file = f THEN [call[c] EXCEPT !.waited = FALSE] ELSE call[c]
        BY <2>1
      <3>3. QED
        BY <2>2, <3>1, <3>2
    <2>4. QED
      BY <1>0, <1>1, <2>3 DEF CloseTab, TypeOK, IInv, Untouched, Created, files
  <1>7. QED
    BY <1>1, <1>2, <1>4, <1>5, <1>6, TabStep DEF CloseTab

LEMMA ResumeInv ==
  ASSUME IInv, NEW f \in Files, Resume(f)
  PROVE  IInv'
  <1>0. TypeOK /\ tab[f].pc = "closed" /\ tab[f] \in Tab
    BY DEF IInv, TypeOK, Resume
  <1> DEFINE t == IF status[f] = "completed" THEN [tab[f] EXCEPT !.pc = "done"]
                  ELSE Loop({p \in Parts : chunk[f][p] # "completed"})
  <1>1. t \in Tab /\ (t.pc = "done" => status[f] = "completed")
    BY <1>0 DEF Loop, Tab
  <1>2. tab' = [tab EXCEPT ![f] = t]
    BY DEF Resume
  <1>3. tab' \in [Files -> Tab] /\ tab'[f] = t /\ \A g \in Files \ {f} : tab'[g] = tab[g]
    BY <1>0, <1>1, <1>2 DEF TypeOK
  <1>4. \A c \in Calls : call[c].file \in Files
    BY <1>0 DEF TypeOK, Call
  <1>5. \A c \in Calls : call[c].file = f => ~call[c].waited /\ call[c].pc \notin Fails
    BY <1>0, Idlers
  <1>6. Waiting' /\ FailsAreFinal'
    BY <1>3, <1>4, <1>5 DEF IInv, Waiting, FailsAreFinal, Resume
  <1>7. Created
    BY DEF Resume, IInv, Untouched
  <1>8. QED
    BY <1>0, <1>1, <1>3, <1>6, <1>7, TabStep DEF Resume, TypeOK

LEMMA PutInv ==
  ASSUME IInv, NEW f \in Files, Put(f)
  PROVE  IInv'
  <1>0. TypeOK /\ tab[f].pc = "put" /\ tab[f] \in Tab
    BY DEF IInv, TypeOK, Put
  <1>1. /\ tab' \in [Files -> Tab] /\ tab'[f].pc \in {"report", "error"}
        /\ \A g \in Files \ {f} : tab'[g] = tab[g]
    <2>1. PICK new \in {"report", "error"} : tab' = [tab EXCEPT ![f].pc = new]
      BY DEF Put
    <2>2. [tab[f] EXCEPT !.pc = new] \in Tab /\ [tab[f] EXCEPT !.pc = new].pc = new
      BY <1>0 DEF Tab
    <2>3. QED
      BY <1>0, <2>1, <2>2 DEF TypeOK
  <1>2. /\ parts' \in [Files -> SUBSET Parts] /\ faults' \in Nat
        /\ \A g \in Files : store[g] = "stored" => parts'[g] = parts[g]
    BY <1>0 DEF Put, TypeOK
  <1>3. Created
    BY <1>0, Begun
  <1>4. \A c \in Calls : call[c].file \in Files
    BY <1>0 DEF TypeOK, Call
  <1>5. \A c \in Calls : call[c].file = f => ~call[c].waited /\ call[c].pc \notin Fails
    BY <1>0, Idlers
  <1>6. Waiting' /\ FailsAreFinal'
    BY <1>1, <1>4, <1>5 DEF IInv, Waiting, FailsAreFinal, Put
  <1>7. TypeOK' /\ Untouched'
    BY <1>1, <1>2, <1>3 DEF IInv, TypeOK, Untouched, Created, Put, files
  <1>8. CommitsAreStored' /\ CompletedIsStored' /\ DoneIsCompleted'
    BY <1>1, <1>2, <1>4
    DEF IInv, CommitsAreStored, CompletedIsStored, DoneIsCompleted, At, Put, files
  <1>9. QED
    BY <1>6, <1>7, <1>8 DEF IInv

\* Before its rows are there, nothing is asked of a session, and no tab is done.
LEMMA CreationStep ==
  ASSUME IInv, ~Created, UNCHANGED <<parts, call>>, TypeOK', Untouched',
         \A f \in Files : status'[f] # "completed" /\ tab'[f].pc # "done"
  PROVE  IInv'
  <1>1. \A c \in Calls : call'[c].waited = FALSE /\ call'[c].pc = "idle"
    BY NoCallType DEF IInv, Untouched
  <1>2. Waiting' /\ FailsAreFinal' /\ CommitsAreStored'
    BY <1>1 DEF Waiting, FailsAreFinal, CommitsAreStored, At, Fails
  <1>3. CompletedIsStored' /\ DoneIsCompleted'
    BY DEF CompletedIsStored, DoneIsCompleted
  <1>4. QED
    BY <1>2, <1>3 DEF IInv

LEMMA TabsType ==
  ASSUME TypeOK, NEW to \in Tab, to.pc # "done", tab' = Tabs("create", to)
  PROVE  /\ tab' \in [Files -> Tab]
         /\ \A f \in Files : tab'[f] \in {tab[f], to}
  BY DEF TypeOK, Tabs

LEMMA FirstTabs ==
  /\ NoTab \in Tab /\ NoTab.pc = "none"
  /\ Refused \in Tab /\ Refused.pc = "refused"
  /\ [NoTab EXCEPT !.pc = "create"] \in Tab /\ [NoTab EXCEPT !.pc = "create"].pc = "create"
  /\ Loop(Parts) \in Tab /\ Loop(Parts).pc = "presign"
  BY UploadsAssumption DEF NoTab, Refused, Loop, Tab

LEMMA CreateInv ==
  ASSUME IInv, SelectFiles \/ Creates \/ CreationFails
  PROVE  IInv'
  <1>0. TypeOK /\ Untouched
    BY DEF IInv
  <1>1. CASE SelectFiles
    <2>1. ~Created
      BY <1>1 DEF SelectFiles, Created
    <2>2. tab' \in [Files -> Tab] /\ \A f \in Files : tab'[f].pc = "create"
      BY <1>1, FirstTabs DEF SelectFiles
    <2>3. TypeOK' /\ Untouched'
      BY <1>0, <1>1, <2>1, <2>2 DEF SelectFiles, TypeOK, Session, Untouched, files, storage
    <2>4. QED
      BY <1>0, <1>1, <2>1, <2>2, <2>3, CreationStep DEF SelectFiles, Untouched, files, storage
  <1>2. CASE \E f \in Files : OpenUpload(f)
    <2>1. ~Created /\ UNCHANGED <<session, files, parts, tab, call, faults, torn>>
      BY <1>2 DEF OpenUpload, Created
    <2>2. TypeOK' /\ Untouched'
      BY <1>0, <1>2, <2>1 DEF OpenUpload, TypeOK, Untouched, Created, files
    <2>3. QED
      BY <1>0, <2>1, <2>2, CreationStep DEF Untouched, files
  <1>3. CASE CreateSession
    <2>1. ~Created
      BY <1>3 DEF CreateSession, Created
    <2>2. /\ tab' \in [Files -> Tab]
          /\ \A f \in Files : tab'[f].pc \in {tab[f].pc, "presign"}
      BY <1>0, <1>3, FirstTabs, TabsType DEF CreateSession
    <2>3. session' \in Session /\ session'.status = "uploading"
      BY <1>0, <1>3 DEF CreateSession, TypeOK, Session
    <2>4. TypeOK' /\ Untouched'
      BY <1>0, <1>3, <2>2, <2>3 DEF CreateSession, TypeOK, Untouched, Created, Statuses, storage
    <2>5. QED
      BY <1>0, <1>3, <2>1, <2>2, <2>4, CreationStep DEF CreateSession, Untouched, storage
  <1>4. CASE CreationFails
    <2>1. ~Created
      BY <1>4 DEF CreationFails, Created
    <2>2. /\ tab' \in [Files -> Tab]
          /\ \A f \in Files : tab'[f].pc \in {tab[f].pc, "refused"}
      BY <1>0, <1>4, FirstTabs, TabsType DEF CreationFails
    <2>3. session' \in Session /\ session'.status = "none"
      BY <1>0, <1>4 DEF CreationFails, TypeOK, Session
    <2>4. TypeOK' /\ Untouched'
      BY <1>0, <1>4, <2>1, <2>2, <2>3 DEF CreationFails, TypeOK, Untouched, files
    <2>5. QED
      BY <1>0, <1>4, <2>1, <2>2, <2>4, CreationStep DEF CreationFails, Untouched, files
  <1>5. QED
    BY <1>1, <1>2, <1>3, <1>4 DEF Creates

\* The tab that does not hear of its session is not one at work on a file.
LEMMA UnheardInv ==
  ASSUME IInv, CreationUnheard
  PROVE  IInv'
  <1>0. TypeOK /\ Untouched
    BY DEF IInv
  <1>1. tab' \in [Files -> Tab] /\ \A f \in Files : tab'[f] \in {tab[f], Refused}
    BY <1>0, FirstTabs, TabsType DEF CreationUnheard
  <1>2. \A f \in Files : tab[f].pc # "create" => tab'[f] = tab[f]
    BY <1>0 DEF CreationUnheard, Tabs
  <1>3. Waiting' /\ FailsAreFinal'
    <2>1. \A c \in Calls : call[c].file \in Files
      BY <1>0 DEF TypeOK, Call
    <2>2. QED
      BY <1>2, <2>1 DEF CreationUnheard, IInv, Waiting, FailsAreFinal, SameErrand
  <1>4. Untouched'
    BY <1>0, <1>1, FirstTabs DEF CreationUnheard, Untouched, Created, files
  <1>5. QED
    BY <1>0, <1>1, <1>3, <1>4, FirstTabs, TabStep DEF CreationUnheard, TypeOK

LEMMA Initially == Init => IInv
  <1> SUFFICES ASSUME Init PROVE IInv
    OBVIOUS
  <1>1. NoTab \in Tab /\ NoTab.pc = "none"
    BY FirstTabs
  <1>2. TypeOK
    BY <1>1, NoCallType DEF Init, TypeOK, Session, Statuses
  <1>3. Untouched /\ Waiting /\ FailsAreFinal /\ CommitsAreStored
    BY <1>1, NoCallType DEF Init, Untouched, Waiting, FailsAreFinal, CommitsAreStored, At, Fails
  <1>4. CompletedIsStored /\ DoneIsCompleted
    BY <1>1 DEF Init, CompletedIsStored, DoneIsCompleted
  <1>5. QED
    BY <1>2, <1>3, <1>4 DEF IInv

LEMMA Stutters == IInv /\ UNCHANGED vars => IInv'
  BY DEF IInv, TypeOK, Untouched, Created, Waiting, FailsAreFinal, CommitsAreStored, CompletedIsStored,
         DoneIsCompleted, At, vars, files, storage

LEMMA Stepwise == IInv /\ [Next]_vars => IInv'
  <1> SUFFICES ASSUME IInv, [Next]_vars PROVE IInv'
    OBVIOUS
  <1>1. CASE SelectFiles \/ Creates \/ CreationFails \/ CreationUnheard
    BY <1>1, CreateInv, UnheardInv
  <1>2. CASE \E f \in Files : Put(f) \/ CloseTab(f) \/ Resume(f)
    BY <1>2, PutInv, CloseTabInv, ResumeInv
  <1>3. CASE \E f \in Files, c \in Calls : Send(c, f) \/ GiveUp(c, f)
    BY <1>3, SendInv, GiveUpInv
  <1>4. CASE \E c \in Calls : Proceed(c)
    BY <1>4, PresignInv, ReportInv, FinishInv, FailInv DEF Proceed
  <1>5. CASE \E c \in Calls : AnswerLost(c) \/ HandlerDies(c)
    BY <1>5, AnswerLostInv, DiesInv
  <1>6. CASE UNCHANGED vars
    BY <1>6, Stutters
  <1>7. QED
    BY <1>1, <1>2, <1>3, <1>4, <1>5, <1>6 DEF Next

\* The inductive invariant holds in every reachable state.
THEOREM Inductive == Spec => []IInv
  BY Initially, Stepwise, PTL DEF Spec

\* Rows, tabs and requests keep their types.
THEOREM TypeCorrect == Spec => []TypeOK
  <1>1. IInv => TypeOK
    BY DEF IInv
  <1>2. QED
    BY <1>1, Inductive, PTL

\* A file is offered for playback only when object storage put all its parts together
\* (completeFile, failFile).
THEOREM StoredWhenCompleted == Spec => []CompletedIsStored
  <1>1. IInv => CompletedIsStored
    BY DEF IInv
  <1>2. QED
    BY <1>1, Inductive, PTL

-----------------------------------------------------------------------------
(* LessonVideos *)

Done(f)  == tab[f].pc = "done"
Ready(f) == status[f] = "completed"

\* A step about one file that withdraws nothing publishes it, tells of it, or neither.
LEMMA OneFile ==
  ASSUME IInv, IInv', UNCHANGED parts, NEW f \in Files,
         \A g \in Files \ {f} : (Ready(g)' <=> Ready(g)) /\ (Done(g)' <=> Done(g)),
         Ready(f) => Ready(f)', Done(f) => Done(f)'
  PROVE  [Promise!Next]_(Promise!videos)
  <1> DEFINE playable == [g \in Files |-> status[g] = "completed"]
             told == {g \in Files : tab[g].pc = "done"}
  <1>1. Done(f)' => Ready(f)' /\ parts[f] = Parts
    BY DEF IInv, DoneIsCompleted, CompletedIsStored, Done, Ready
  <1>2. Ready(f)' => parts[f] = Parts
    BY DEF IInv, CompletedIsStored, Ready
  <1>3. Ready(f)' => playable' = [playable EXCEPT ![f] = TRUE] /\ playable'[f]
    BY DEF Ready
  <1>4. ~Ready(f)' => playable' = playable
    BY DEF Ready
  <1>5. CASE Done(f)'
    <2>1. told' = told \cup {f}
      BY <1>5 DEF Done
    <2>2. Promise!Tell(f)
      BY <1>1, <1>3, <1>5, <2>1 DEF Promise!Tell
    <2>3. QED
      BY <2>2 DEF Promise!Next
  <1>6. CASE ~Done(f)'
    <2>1. told' = told
      BY <1>6 DEF Done
    <2>2. CASE Ready(f)'
      <3>1. Promise!Publish(f)
        BY <1>2, <1>3, <2>1, <2>2 DEF Promise!Publish
      <3>2. QED
        BY <3>1 DEF Promise!Next
    <2>3. CASE ~Ready(f)'
      BY <1>4, <2>1, <2>3 DEF Promise!videos
    <2>4. QED
      BY <2>2, <2>3
  <1>7. QED
    BY <1>5, <1>6

\* An answer tells the tab that waits for it of nothing but a file that is completed.
LEMMA AnswerTells ==
  ASSUME IInv, IInv', NEW c \in Calls, NEW ok \in BOOLEAN, Answer(c, ok), UNCHANGED parts,
         NEW f \in Files, f = call[c].file,
         \A g \in Files \ {f} : Ready(g)' <=> Ready(g), Ready(f) => Ready(f)'
  PROVE  [Promise!Next]_(Promise!videos)
  <1>1. /\ \A g \in Files : Done(g) => Done(g)'
        /\ \A g \in Files \ {f} : Done(g)' => Done(g)
    BY AnswerFacts DEF Done
  <1>2. QED
    BY <1>1, OneFile

LEMMA GotoTells ==
  ASSUME IInv, IInv', NEW c \in Calls, UNCHANGED <<tab, parts>>,
         \A g \in Files : Ready(g)' <=> Ready(g)
  PROVE  [Promise!Next]_(Promise!videos)
  BY UploadsAssumption, OneFile DEF Done

LEMMA TabTells ==
  ASSUME IInv, IInv', UNCHANGED <<status, parts>>, NEW f \in Files,
         \A g \in Files \ {f} : tab'[g].pc = tab[g].pc, ~Done(f)
  PROVE  [Promise!Next]_(Promise!videos)
  BY OneFile DEF Done, Ready

LEMMA HandlerTells ==
  ASSUME IInv, IInv', NEW c \in Calls, Proceed(c) \/ HandlerDies(c)
  PROVE  [Promise!Next]_(Promise!videos)
  <1>f. PICK f \in Files : f = call[c].file
    BY DEF IInv, TypeOK, Call
  <1>0. TypeOK
    BY DEF IInv
  <1>1. CASE FailRow(c)
    <2>1. ~Done(f)
      BY <1>f, <1>1 DEF FailRow, At, IInv, FailsAreFinal, Fails, Done
    <2>2. status' = [status EXCEPT ![f] = "failed"] /\ UNCHANGED <<parts, tab>>
      BY <1>f, <1>1 DEF FailRow, storage
    <2>3. /\ [g \in Files |-> status'[g] = "completed"] =
               [[g \in Files |-> status[g] = "completed"] EXCEPT ![f] = FALSE]
      BY <1>0, <2>2 DEF TypeOK
    <2>4. Promise!Withdraw(f)
      BY <2>1, <2>2, <2>3 DEF Promise!Withdraw, Done
    <2>5. QED
      BY <1>0, <2>4 DEF Promise!Next
  <1>2. CASE CommitFile(c)
    <2>1. /\ Ready(f)' /\ UNCHANGED parts /\ Answer(c, TRUE)
          /\ \A g \in Files \ {f} : Ready(g)' <=> Ready(g)
      BY <1>f, <1>0, <1>2 DEF CommitFile, TypeOK, Ready, storage
    <2>2. QED
      BY <1>f, <2>1, AnswerTells
  <1>3. CASE /\ Proceed(c) \/ HandlerDies(c)
             /\ ~FailRow(c) /\ ~CommitFile(c)
    <2>1. UNCHANGED parts
      BY <1>3 DEF Proceed, HandlerDies, Presign, MarkUploading, TouchFile, ReportChunk, AddToFile,
                  AddToSession, Finish, CheckChunks, CompleteMultipart, Abort, CountFailed,
                  FailSession, storage
    <2>2. \A g \in Files : Ready(g)' <=> Ready(g)
      <3>1. CASE TouchFile(c)
        BY <1>f, <1>0, <3>1 DEF TouchFile, TypeOK, Ready
      <3>2. CASE ~TouchFile(c)
        BY <1>3, <3>2
        DEF Proceed, HandlerDies, Presign, MarkUploading, ReportChunk, AddToFile, AddToSession,
            Finish, CheckChunks, CompleteMultipart, Abort, CountFailed, FailSession, files, Ready
      <3>3. QED
        BY <3>1, <3>2
    <2>3. \/ UNCHANGED tab
          \/ Answer(c, TRUE) \/ Answer(c, FALSE)
      BY <1>3 DEF Proceed, HandlerDies, Presign, MarkUploading, TouchFile, ReportChunk, AddToFile,
                  AddToSession, Finish, CheckChunks, CompleteMultipart, Abort, CountFailed,
                  FailSession
    <2>4. CASE UNCHANGED tab
      BY <2>1, <2>2, <2>4, GotoTells
    <2>5. CASE Answer(c, TRUE)
      BY <1>f, <2>1, <2>2, <2>5, AnswerTells
    <2>6. CASE Answer(c, FALSE)
      BY <1>f, <2>1, <2>2, <2>6, AnswerTells
    <2>7. QED
      BY <2>3, <2>4, <2>5, <2>6
  <1>4. QED
    BY <1>1, <1>2, <1>3

\* Object storage takes a part.
LEMMA PutTells ==
  ASSUME IInv, IInv', NEW f \in Files, Put(f)
  PROVE  [Promise!Next]_(Promise!videos)
  <1>1. /\ tab[f].pc = "put" /\ UNCHANGED status
        /\ \A g \in Files \ {f} : tab'[g] = tab[g]
        /\ tab'[f].pc # "done"
    <2>1. PICK new \in {"report", "error"} : tab' = [tab EXCEPT ![f].pc = new]
      BY DEF Put
    <2>2. [tab[f] EXCEPT !.pc = new].pc = new
      BY DEF IInv, TypeOK, Tab
    <2>3. QED
      BY <2>1, <2>2 DEF Put, IInv, TypeOK, files
  <1>2. CASE UNCHANGED parts
    BY <1>1, <1>2, TabTells DEF Done
  <1>3. CASE \E p \in Parts : parts' = [parts EXCEPT ![f] = @ \cup {p}]
    <2>1. {g \in Files : tab'[g].pc = "done"} = {g \in Files : tab[g].pc = "done"}
      BY <1>1
    <2>2. PICK p \in Parts : parts' = [parts EXCEPT ![f] = @ \cup {p}]
      BY <1>3
    <2>3. Promise!Arrive(f, p)
      BY <1>1, <2>1, <2>2 DEF Promise!Arrive
    <2>4. QED
      BY <2>3 DEF Promise!Next
  <1>4. QED
    BY <1>2, <1>3 DEF Put

LEMMA CreateTells ==
  ASSUME IInv, IInv', SelectFiles \/ Creates \/ CreationFails \/ CreationUnheard
  PROVE  [Promise!Next]_(Promise!videos)
  <1>1. UNCHANGED parts
    BY DEF SelectFiles, Creates, CreateSession, OpenUpload, CreationFails, CreationUnheard, storage
  <1>2. \A f \in Files : Done(f)' <=> Done(f)
    <2>1. CASE SelectFiles
      BY <2>1, FirstTabs DEF SelectFiles, Done, Created, IInv, Untouched
    <2>2. CASE \E f \in Files : OpenUpload(f)
      BY <2>2 DEF OpenUpload, Done
    <2>3. CASE CreateSession \/ CreationFails \/ CreationUnheard
      BY <2>3, FirstTabs DEF CreateSession, CreationFails, CreationUnheard, Tabs, Done
    <2>4. QED
      BY <2>1, <2>2, <2>3 DEF Creates
  <1>3. \A f \in Files : Ready(f)' <=> Ready(f)
    <2>1. CASE CreateSession
      BY <2>1 DEF CreateSession, IInv, Untouched, Created, Ready
    <2>2. CASE ~CreateSession
      BY <2>2 DEF SelectFiles, Creates, OpenUpload, CreationFails, CreationUnheard, files, Ready
    <2>3. QED
      BY <2>1, <2>2
  <1>4. PICK f \in Files : TRUE
    BY UploadsAssumption
  <1>5. QED
    BY <1>1, <1>2, <1>3, <1>4, OneFile

LEMMA Simulates == IInv /\ IInv' /\ [Next]_vars => [Promise!Next]_(Promise!videos)
  <1> SUFFICES ASSUME IInv, IInv', [Next]_vars PROVE [Promise!Next]_(Promise!videos)
    OBVIOUS
  <1>0. TypeOK
    BY DEF IInv
  <1>1. CASE SelectFiles \/ Creates \/ CreationFails \/ CreationUnheard
    BY <1>1, CreateTells
  <1>2. CASE \E f \in Files : Put(f)
    BY <1>2, PutTells
  <1>3. CASE \E f \in Files : CloseTab(f)
    <2>1. PICK f \in Files : CloseTab(f)
      BY <1>3
    <2>2. UNCHANGED <<status, parts>> /\ \A g \in Files \ {f} : tab'[g].pc = tab[g].pc
      BY <1>0, <2>1 DEF CloseTab, TypeOK, files, storage
    <2>3. ~Done(f)
      BY <2>1 DEF CloseTab, Busy, Done
    <2>4. QED
      BY <2>2, <2>3, TabTells
  <1>4. CASE \E f \in Files : Resume(f)
    <2>1. PICK f \in Files : Resume(f)
      BY <1>4
    <2>2. UNCHANGED <<status, parts>> /\ \A g \in Files \ {f} : tab'[g].pc = tab[g].pc
      BY <1>0, <2>1 DEF Resume, TypeOK, files, storage
    <2>3. ~Done(f)
      BY <2>1 DEF Resume, Done
    <2>4. QED
      BY <2>2, <2>3, TabTells
  <1>5. CASE \E f \in Files, c \in Calls : Send(c, f)
    <2>1. PICK f \in Files, c \in Calls : Send(c, f)
      BY <1>5
    <2>2. UNCHANGED <<status, parts>> /\ \A g \in Files \ {f} : tab'[g].pc = tab[g].pc
      BY <1>0, <2>1 DEF Send, TypeOK, files, storage
    <2>3. ~Done(f)
      BY <2>1 DEF Send, Done
    <2>4. QED
      BY <2>2, <2>3, TabTells
  <1>6. CASE \E f \in Files, c \in Calls : GiveUp(c, f)
    <2>1. PICK f \in Files, c \in Calls : GiveUp(c, f)
      BY <1>6
    <2>2. UNCHANGED <<status, parts>> /\ \A g \in Files \ {f} : tab'[g].pc = tab[g].pc
      BY <1>0, <2>1 DEF GiveUp, TypeOK, files, storage
    <2>3. ~Done(f)
      BY <2>1 DEF GiveUp, Done
    <2>4. QED
      BY <2>2, <2>3, TabTells
  <1>7. CASE \E c \in Calls : AnswerLost(c)
    <2>1. PICK c \in Calls : AnswerLost(c)
      BY <1>7
    <2>2. call[c].file \in Files /\ call[c].waited
      BY <1>0, <2>1 DEF AnswerLost, TypeOK, Call
    <2>3. /\ UNCHANGED <<status, parts>>
          /\ \A g \in Files \ {call[c].file} : tab'[g].pc = tab[g].pc
      BY <1>0, <2>1, <2>2 DEF AnswerLost, TypeOK, files, storage
    <2>4. ~Done(call[c].file)
      BY <2>2 DEF IInv, Waiting, SameErrand, Done
    <2>5. QED
      BY <2>2, <2>3, <2>4, TabTells
  <1>8. CASE \E c \in Calls : Proceed(c) \/ HandlerDies(c)
    BY <1>8, HandlerTells
  <1>9. CASE UNCHANGED vars
    BY <1>9 DEF vars, files, storage, Promise!videos
  <1>10. QED
    BY <1>1, <1>2, <1>3, <1>4, <1>5, <1>6, <1>7, <1>8, <1>9 DEF Next

\* The service and the tabs that drive it implement LessonVideos: a file can be played
\* only with all its parts, and what an uploader was told is there stays there.
THEOREM Implements == Spec => KeepsPromise
  <1>1. Init => Promise!Init
    <2> SUFFICES ASSUME Init PROVE Promise!Init
      OBVIOUS
    <2>1. \A f \in Files : status[f] # "completed" /\ tab[f].pc # "done"
      BY DEF Init, NoTab
    <2>2. QED
      BY <2>1 DEF Init, Promise!Init
  <1>2. QED
    BY <1>1, Simulates, Inductive, PTL DEF Spec, KeepsPromise, Promise!Spec
=============================================================================
