--------------------------- MODULE BookingsProofs ---------------------------
(***************************************************************************)
(* Proofs about the live classes: whatever the classes, schedules, slots   *)
(* and calls that run at the same time, and whenever the process dies, two *)
(* sessions of the instructor overlap only if neither booking could see the*)
(* other; the form of a class shows the conflicts of its rows; and the page*)
(* of a session misses no message but those it was not there for.          *)
(* Nothing is assumed of the times: they are only compared.                *)
(***************************************************************************)
EXTENDS ClassPages, Classroom, TLAPS

\* Steps at which a call has looked for conflicts and not written yet.
Waits == {"insert", "start", "move"}

IsCall(x) == x \in [pc : {x.pc}, k : {x.k}, todo : {x.todo}, slots : {x.slots}, of : {x.of},
                    rows : {x.rows}, since : {x.since}]
IsRow(x)  == x \in [status : {x.status}, of : {x.of}, from : {x.from}, to : {x.to}]

\* Calls about one session know it, and those that move it the slot.
Aims(x) ==
  /\ IsCall(x)
  /\ x.pc \in {"start", "check", "move", "end"} => \E r \in Rows : x.rows = {r}
  /\ x.pc \notin {"start", "check", "move", "end"} => x.rows = {}
  /\ x.pc \in {"check", "move"} => \E s : x.slots = {s}

Shapes ==
  /\ row = [r \in Rows |-> row[r]] /\ \A r \in Rows : IsRow(row[r])
  /\ call = [c \in Calls |-> call[c]] /\ \A c \in Calls : Aims(call[c])

\* A call that found its slots free has taken note of whoever took them since.
LookedWell ==
  \A c \in Calls : call[c].pc \in {"insert", "move"} =>
    \A s \in call[c].slots, q \in Rows \ call[c].rows :
      Active(q) /\ Overlap(s, row[q]) => q \in call[c].since

\* A session about to be started overlapped what it overlaps now when it was read, or
\* was overlapped since.
ReadWell ==
  \A c \in Calls : call[c].pc = "start" =>
    \A r \in call[c].rows, q \in Rows \ call[c].rows :
      Active(q) /\ Overlap(row[r], row[q]) => {r, q} \in unseen \/ q \in call[c].since

\* The inductive invariant.
IInv ==
  /\ Shapes
  /\ OverlapIsUnseen
  /\ LookedWell
  /\ ReadWell

-----------------------------------------------------------------------------
(* Calls and rows *)

\* A call that waits for nothing.
LEMMA NoCallAims == Aims(NoCall) /\ NoCall.pc = "idle"
  BY DEF Aims, IsCall, NoCall

\* A step of one call leaves the other calls alone.
LEMMA GotoFacts ==
  ASSUME Shapes, NEW c \in Calls, NEW x, Aims(x), Goto(c, x)
  PROVE  /\ call' = [d \in Calls |-> call'[d]] /\ \A d \in Calls : Aims(call'[d])
         /\ call'[c] = x /\ \A d \in Calls \ {c} : call'[d] = call[d]
  BY DEF Shapes, Goto

\* Sessions end and calls come and go without another look.
LEMMA Calm ==
  ASSUME IInv, Shapes', unseen' = unseen,
         \A q \in Rows : /\ Active(q)' => Active(q)
                         /\ row'[q].from = row[q].from /\ row'[q].to = row[q].to,
         \A d \in Calls : call'[d].pc \in Waits => call'[d] = call[d]
  PROVE  IInv'
  <1>1. OverlapIsUnseen'
    BY DEF IInv, OverlapIsUnseen, Overlap
  <1>2. LookedWell'
    BY DEF IInv, LookedWell, Overlap, Waits
  <1>3. ReadWell'
    <2> SUFFICES ASSUME NEW d \in Calls, call'[d].pc = "start",
                        NEW r \in call'[d].rows, NEW q \in Rows \ call'[d].rows,
                        Active(q)', Overlap(row'[r], row'[q])
                 PROVE  {r, q} \in unseen' \/ q \in call'[d].since
      BY DEF ReadWell
    <2>1. call'[d] = call[d] /\ r \in Rows
      BY DEF Waits, IInv, Shapes, Aims
    <2>2. QED
      BY <2>1 DEF IInv, ReadWell, Overlap
  <1>4. QED
    BY <1>1, <1>2, <1>3 DEF IInv

\* Noting who booked meanwhile changes nothing else about a call.
LEMMA SinceFacts ==
  ASSUME NEW x, Aims(x), NEW S
  PROVE  /\ Aims([x EXCEPT !.since = S])
         /\ [x EXCEPT !.since = S].since = S
         /\ [x EXCEPT !.since = S].pc = x.pc
         /\ [x EXCEPT !.since = S].slots = x.slots
         /\ [x EXCEPT !.since = S].rows = x.rows
  BY DEF Aims, IsCall

\* Two different sessions, one of each set, are one of the pairs.
LEMMA PairFacts ==
  ASSUME NEW A, NEW B, NEW a \in A, NEW b \in B, a # b
  PROVE  {a, b} \in Pairs(A, B)
  <1>1. \A x : {a, b} # {x}
    OBVIOUS
  <1>2. QED
    BY <1>1 DEF Pairs

\* A booking: what it writes overlaps only what its call has noted, or was known to.
LEMMA BookedInv ==
  ASSUME IInv, NEW c \in Calls, NEW R, NEW next, Booked(c, R, next),
         Aims(next), next.pc \notin Waits,
         row' = [r \in Rows |-> row'[r]], \A r \in Rows : IsRow(row'[r]),
         \A q \in Rows \ R : row'[q] = row[q],
         \A r \in R \cap Rows, q \in Rows \ R :
           Active(q) /\ Overlap(row'[r], row[q]) => {r, q} \in unseen \/ q \in call[c].since
  PROVE  IInv'
  <1>1. \A d \in Calls : Aims(call[d])
    BY DEF IInv, Shapes
  <1>2. call'[c] = next
    BY DEF Booked
  <1>3. \A d \in Calls \ {c} :
          call'[d] = IF call[d].pc \in Waits
                       THEN [call[d] EXCEPT !.since = call[d].since \cup (R \ call[d].rows)]
                       ELSE call[d]
    BY DEF Booked, Waits
  <1>4. \A d \in Calls \ {c} :
          /\ Aims(call'[d]) /\ call'[d].pc = call[d].pc
          /\ call'[d].slots = call[d].slots /\ call'[d].rows = call[d].rows
          /\ call[d].pc \in Waits => call'[d].since = call[d].since \cup (R \ call[d].rows)
    <2> SUFFICES ASSUME NEW d \in Calls \ {c}
                 PROVE  /\ Aims(call'[d]) /\ call'[d].pc = call[d].pc
                        /\ call'[d].slots = call[d].slots /\ call'[d].rows = call[d].rows
                        /\ call[d].pc \in Waits =>
                             call'[d].since = call[d].since \cup (R \ call[d].rows)
      OBVIOUS
    <2>1. CASE call[d].pc \in Waits
      <3> DEFINE S == call[d].since \cup (R \ call[d].rows)
      <3>1. call'[d] = [call[d] EXCEPT !.since = S]
        BY <1>3, <2>1
      <3>2. Aims(call[d])
        BY <1>1
      <3> HIDE DEF S
      <3>3. /\ Aims([call[d] EXCEPT !.since = S])
            /\ [call[d] EXCEPT !.since = S].since = S
            /\ [call[d] EXCEPT !.since = S].pc = call[d].pc
            /\ [call[d] EXCEPT !.since = S].slots = call[d].slots
            /\ [call[d] EXCEPT !.since = S].rows = call[d].rows
        BY <3>2, SinceFacts
      <3>4. QED
        BY <3>1, <3>3 DEF S
    <2>2. CASE call[d].pc \notin Waits
      BY <1>1, <1>3, <2>2
    <2>3. QED
      BY <2>1, <2>2
  <1>5. Shapes'
    BY <1>2, <1>4 DEF Shapes, Booked
  <1>6. /\ unseen \subseteq unseen'
        /\ \A r \in R, q \in call[c].since : r # q => {r, q} \in unseen'
        /\ \A r, q \in R : r # q => {r, q} \in unseen'
    BY PairFacts DEF Booked
  <1>7. \A r \in R \cap Rows, q \in Rows \ R : Active(q) /\ Overlap(row'[r], row[q]) => {r, q} \in unseen'
    BY <1>6
  <1>8. \A q \in Rows \ R : Active(q)' => Active(q)
    BY DEF Active
  <1>9. OverlapIsUnseen'
    <2> SUFFICES ASSUME NEW r \in Rows, NEW q \in Rows, r # q, Active(r)', Active(q)',
                        Overlap(row'[r], row'[q])
                 PROVE  {r, q} \in unseen'
      BY DEF OverlapIsUnseen
    <2>1. CASE r \in R /\ q \in R
      BY <1>6, <2>1
    <2>2. CASE r \in R /\ q \notin R
      BY <1>7, <1>8, <2>2
    <2>3. CASE r \notin R /\ q \in R
      <3>1. {q, r} \in unseen'
        BY <1>7, <1>8, <2>3 DEF Overlap
      <3>2. QED
        BY <3>1
    <2>4. CASE r \notin R /\ q \notin R
      BY <1>6, <1>8, <2>4 DEF IInv, OverlapIsUnseen
    <2>5. QED
      BY <2>1, <2>2, <2>3, <2>4
  <1>10. LookedWell'
    <2> SUFFICES ASSUME NEW d \in Calls, call'[d].pc \in {"insert", "move"},
                        NEW s \in call'[d].slots, NEW q \in Rows \ call'[d].rows,
                        Active(q)', Overlap(s, row'[q])
                 PROVE  q \in call'[d].since
      BY DEF LookedWell
    <2>1. d # c
      BY <1>2 DEF Waits
    <2>2. CASE q \in R
      BY <1>4, <2>1, <2>2 DEF Waits
    <2>3. CASE q \notin R
      BY <1>4, <1>8, <2>1, <2>3 DEF IInv, LookedWell, Waits
    <2>4. QED
      BY <2>2, <2>3
  <1>11. ReadWell'
    <2> SUFFICES ASSUME NEW d \in Calls, call'[d].pc = "start",
                        NEW r \in call'[d].rows, NEW q \in Rows \ call'[d].rows,
                        Active(q)', Overlap(row'[r], row'[q])
                 PROVE  {r, q} \in unseen' \/ q \in call'[d].since
      BY DEF ReadWell
    <2>1. d # c
      BY <1>2 DEF Waits
    <2>2. r \in Rows /\ r # q
      BY <1>5 DEF Shapes, Aims
    <2>3. CASE q \in R
      BY <1>4, <2>1, <2>3 DEF Waits
    <2>4. CASE q \notin R /\ r \in R
      BY <1>7, <1>8, <2>2, <2>4
    <2>5. CASE q \notin R /\ r \notin R
      BY <1>4, <1>6, <1>8, <2>1, <2>2, <2>5 DEF IInv, ReadWell, Waits
    <2>6. QED
      BY <2>3, <2>4, <2>5
  <1>12. QED
    BY <1>5, <1>9, <1>10, <1>11 DEF IInv

-----------------------------------------------------------------------------
(* The actions, one lemma for those that prove alike *)

\* No session and no call at first.
LEMMA InitInv == Init => IInv
  BY NoCallAims DEF Init, IInv, Shapes, IsRow, NoRow, OverlapIsUnseen, LookedWell, ReadWell, Active

\* Steps that leave the rows alone, or only end sessions.
LEMMA TimeInv ==
  ASSUME IInv, Tick \/ AutoEndStaleSessions \/ Restart
              \/ \E k \in Classes, S \in SUBSET Templates : CreateClass(k, S)
  PROVE  IInv'
  <1>1. CASE AutoEndStaleSessions
    <2>1. \A r \in Rows : IsRow(row[r])
      BY DEF IInv, Shapes
    <2>2. \A r \in Rows : row'[r] = IF Active(r) /\ row[r].to < now - Grace
                                    THEN [row[r] EXCEPT !.status = "ENDED"] ELSE row[r]
      BY <1>1 DEF AutoEndStaleSessions
    <2>3. \A r \in Rows : /\ IsRow(row'[r]) /\ row'[r].from = row[r].from /\ row'[r].to = row[r].to
                          /\ row'[r].status = row[r].status \/ row'[r].status = "ENDED"
      BY <2>1, <2>2 DEF IsRow
    <2>4. Shapes' /\ unseen' = unseen /\ call' = call
      BY <1>1, <2>3 DEF AutoEndStaleSessions, IInv, Shapes
    <2>5. \A r \in Rows : Active(r)' => Active(r)
      BY <2>3 DEF Active
    <2>6. QED
      BY <2>3, <2>4, <2>5, Calm
  <1>2. CASE Restart
    <2>1. \A c \in Calls : call'[c] = NoCall
      BY <1>2 DEF Restart
    <2>2. Shapes' /\ unseen' = unseen /\ row' = row
      BY <1>2, NoCallAims DEF Restart, IInv, Shapes
    <2>3. QED
      BY <2>1, <2>2, Calm, NoCallAims DEF Waits, Active
  <1>3. CASE Tick \/ \E k \in Classes, S \in SUBSET Templates : CreateClass(k, S)
    <2>1. UNCHANGED <<row, call, unseen>>
      BY <1>3 DEF Tick, CreateClass
    <2>2. Shapes'
      BY <2>1 DEF IInv, Shapes
    <2>3. QED
      BY <2>1, <2>2, Calm DEF Active
  <1>4. QED
    BY <1>1, <1>2, <1>3

\* A call goes on to a step at which it has not looked.
LEMMA GoesOn ==
  ASSUME IInv, NEW c \in Calls, NEW x, Aims(x), x.pc \notin Waits, Goto(c, x), UNCHANGED <<row, unseen>>
  PROVE  IInv'
  <1>1. Shapes
    BY DEF IInv
  <1>2. /\ call' = [d \in Calls |-> call'[d]] /\ \A d \in Calls : Aims(call'[d])
        /\ call'[c] = x /\ \A d \in Calls \ {c} : call'[d] = call[d]
    BY <1>1, GotoFacts
  <1>3. Shapes'
    BY <1>1, <1>2 DEF Shapes
  <1>4. QED
    BY <1>2, <1>3, Calm DEF Active

\* A call looks, and what it sees is all there is.
LEMMA Looks ==
  ASSUME IInv, NEW c \in Calls, NEW x, Aims(x), Goto(c, x), UNCHANGED <<row, unseen>>,
         x.pc \in {"insert", "move"} => \A s \in x.slots : ~FindConflict(s, x.rows),
         x.pc # "start"
  PROVE  IInv'
  <1>1. Shapes
    BY DEF IInv
  <1>2. /\ call' = [d \in Calls |-> call'[d]] /\ \A d \in Calls : Aims(call'[d])
        /\ call'[c] = x /\ \A d \in Calls \ {c} : call'[d] = call[d]
    BY <1>1, GotoFacts
  <1>3. Shapes' /\ OverlapIsUnseen'
    BY <1>1, <1>2 DEF Shapes, IInv, OverlapIsUnseen, Active
  <1>4. LookedWell'
    <2> SUFFICES ASSUME NEW d \in Calls, call'[d].pc \in {"insert", "move"},
                        NEW s \in call'[d].slots, NEW q \in Rows \ call'[d].rows,
                        Active(q), Overlap(s, row[q])
                 PROVE  q \in call'[d].since
      BY DEF LookedWell, Active
    <2>1. CASE d = c
      BY <1>2, <2>1 DEF FindConflict, Overlap
    <2>2. CASE d # c
      BY <1>2, <2>2 DEF IInv, LookedWell
    <2>3. QED
      BY <2>1, <2>2
  <1>5. ReadWell'
    BY <1>2 DEF IInv, ReadWell, Active
  <1>6. QED
    BY <1>3, <1>4, <1>5 DEF IInv

\* A request that comes in is a call that goes on.
LEMMA EnterGoes == ASSUME NEW c, NEW x, Enter(c, x) PROVE Goto(c, x)
  BY DEF Enter, Goto

\* What a batch goes on with has not looked.
LEMMA GeneratedFacts ==
  ASSUME NEW c, NEW T
  PROVE  Aims(Generated(c, T)) /\ Generated(c, T).pc \notin Waits
  BY DEF Generated, Aims, IsCall, NoCall, Waits

\* What a call about a class starts with.
LEMMA EntryFacts ==
  ASSUME NEW k, NEW T
  PROVE  /\ Aims([NoCall EXCEPT !.pc = "generate", !.todo = T])
         /\ [NoCall EXCEPT !.pc = "generate", !.todo = T].pc \notin Waits
         /\ Aims([NoCall EXCEPT !.pc = "publish", !.k = k])
         /\ [NoCall EXCEPT !.pc = "publish", !.k = k].pc \notin Waits
         /\ Aims([NoCall EXCEPT !.pc = "end_class", !.k = k])
         /\ [NoCall EXCEPT !.pc = "end_class", !.k = k].pc \notin Waits
         /\ Aims([NoCall EXCEPT !.pc = "activate", !.k = k])
         /\ [NoCall EXCEPT !.pc = "activate", !.k = k].pc \notin Waits
  BY DEF Aims, IsCall, NoCall, Waits

\* The routes.
LEMMA AskInv ==
  ASSUME IInv, NEW c \in Calls, Ask(c, Classes) \/ ExtendGeneratedWindows(c)
  PROVE  IInv'
  <1>1. CASE \E k \in Classes, s \in Slots : CreateManual(c, k, s)
    <2>1. PICK k \in Classes, s \in Slots : CreateManual(c, k, s)
      BY <1>1
    <2> DEFINE x == [NoCall EXCEPT !.pc = "insert", !.slots = {s}, !.of = k]
    <2>2. Aims(x) /\ x.pc = "insert" /\ x.slots = {s} /\ x.rows = {}
      BY DEF Aims, IsCall, NoCall
    <2>3. Goto(c, x) /\ ~FindConflict(s, {}) /\ UNCHANGED <<row, unseen>>
      BY <2>1, EnterGoes DEF CreateManual
    <2> HIDE DEF x
    <2>4. QED
      BY <2>2, <2>3, Looks
  <1>2. CASE \E r \in Rows : Start(c, r)
    <2>1. PICK r \in Rows : Start(c, r)
      BY <1>2
    <2> DEFINE x == [NoCall EXCEPT !.pc = "start", !.rows = {r}]
    <2>2. Aims(x) /\ x.pc = "start" /\ x.rows = {r}
      BY DEF Aims, IsCall, NoCall
    <2>3. Goto(c, x) /\ UNCHANGED <<row, unseen>> /\ Active(r) /\ Shapes
      BY <2>1, EnterGoes DEF Start, Active, IInv
    <2> HIDE DEF x
    <2>4. /\ call' = [d \in Calls |-> call'[d]] /\ \A d \in Calls : Aims(call'[d])
          /\ call'[c] = x /\ \A d \in Calls \ {c} : call'[d] = call[d]
      BY <2>2, <2>3, GotoFacts
    <2>5. Shapes' /\ OverlapIsUnseen' /\ LookedWell'
      BY <2>2, <2>3, <2>4 DEF IInv, Shapes, OverlapIsUnseen, LookedWell, Active
    <2>6. ReadWell'
      <3> SUFFICES ASSUME NEW d \in Calls, call'[d].pc = "start",
                          NEW p \in call'[d].rows, NEW q \in Rows \ call'[d].rows,
                          Active(q), Overlap(row[p], row[q])
                   PROVE  {p, q} \in unseen \/ q \in call'[d].since
        BY <2>3 DEF ReadWell, Active
      <3>1. CASE d = c
        BY <2>2, <2>3, <2>4, <3>1 DEF IInv, OverlapIsUnseen
      <3>2. CASE d # c
        BY <2>4, <3>2 DEF IInv, ReadWell
      <3>3. QED
        BY <3>1, <3>2
    <2>7. QED
      BY <2>5, <2>6 DEF IInv
  <1>3. CASE \E r \in Rows : End(c, r) \/ \E s \in Slots : Reschedule(c, r, s)
    <2>1. PICK r \in Rows : End(c, r) \/ \E s \in Slots : Reschedule(c, r, s)
      BY <1>3
    <2>2. CASE End(c, r)
      <3> DEFINE x == [NoCall EXCEPT !.pc = "end", !.rows = {r}]
      <3>1. Aims(x) /\ x.pc \notin Waits
        BY DEF Aims, IsCall, NoCall, Waits
      <3>2. Goto(c, x) /\ UNCHANGED <<row, unseen>>
        BY <2>2, EnterGoes DEF End
      <3> HIDE DEF x
      <3>3. QED
        BY <3>1, <3>2, GoesOn
    <2>3. CASE \E s \in Slots : Reschedule(c, r, s)
      <3>1. PICK s \in Slots : Reschedule(c, r, s)
        BY <2>3
      <3> DEFINE x == [NoCall EXCEPT !.pc = "check", !.rows = {r}, !.slots = {s}]
      <3>2. Aims(x) /\ x.pc \notin Waits
        BY DEF Aims, IsCall, NoCall, Waits
      <3>3. Goto(c, x) /\ UNCHANGED <<row, unseen>>
        BY <3>1, EnterGoes DEF Reschedule
      <3> HIDE DEF x
      <3>4. QED
        BY <3>2, <3>3, GoesOn
    <2>4. QED
      BY <2>1, <2>2, <2>3
  <1>4. CASE \/ ExtendGeneratedWindows(c)
             \/ \E k \in Classes : \/ Publish(c, k) \/ EndClass(c, k)
                                   \/ \E S \in SUBSET Templates : UpdateSchedules(c, k, S)
    <2>1. \A k, T : /\ Aims([NoCall EXCEPT !.pc = "generate", !.todo = T])
                    /\ [NoCall EXCEPT !.pc = "generate", !.todo = T].pc \notin Waits
                    /\ Aims([NoCall EXCEPT !.pc = "publish", !.k = k])
                    /\ [NoCall EXCEPT !.pc = "publish", !.k = k].pc \notin Waits
                    /\ Aims([NoCall EXCEPT !.pc = "end_class", !.k = k])
                    /\ [NoCall EXCEPT !.pc = "end_class", !.k = k].pc \notin Waits
      BY EntryFacts
    <2>2. /\ UNCHANGED <<row, unseen>>
          /\ \/ UNCHANGED call
             \/ \E x : Aims(x) /\ x.pc \notin Waits /\ Enter(c, x)
      BY <1>4, <2>1 DEF ExtendGeneratedWindows, Publish, EndClass, UpdateSchedules
    <2>3. CASE UNCHANGED call
      <3>1. Shapes'
        BY <2>2, <2>3 DEF IInv, Shapes
      <3>2. QED
        BY <2>2, <2>3, <3>1, Calm DEF Active
    <2>4. CASE \E x : Aims(x) /\ x.pc \notin Waits /\ Enter(c, x)
      BY <2>2, <2>4, EnterGoes, GoesOn
    <2>5. QED
      BY <2>2, <2>3, <2>4
  <1>5. QED
    BY <1>1, <1>2, <1>3, <1>4 DEF Ask

\* The handlers: those that look for conflicts, or for nothing.
LEMMA LookInv ==
  ASSUME IInv, NEW c \in Calls,
         Generate(c) \/ MarkPublished(c) \/ Activate(c) \/ MarkEnded(c) \/ CheckMove(c)
  PROVE  IInv'
  <1>0. Aims(call[c])
    BY DEF IInv, Shapes
  <1>1. CASE Generate(c)
    <2>1. PICK doc \in call[c].todo :
            LET slots == Occurrences(doc[2])
                rest  == call[c].todo \ {doc}
            IN \/ /\ slots # {} /\ \A s \in slots : ~FindConflict(s, {})
                  /\ Goto(c, [call[c] EXCEPT !.pc = "insert", !.slots = slots, !.of = doc[1], !.todo = rest])
               \/ Goto(c, Generated(c, rest))
               \/ Goto(c, [NoCall EXCEPT !.pc = "activate", !.k = call[c].k])
      BY <1>1 DEF Generate
    <2>2. UNCHANGED <<row, unseen>> /\ call[c].pc = "generate"
      BY <1>1 DEF Generate, At
    <2> DEFINE slots == Occurrences(doc[2])
               rest  == call[c].todo \ {doc}
               x     == [call[c] EXCEPT !.pc = "insert", !.slots = slots, !.of = doc[1], !.todo = rest]
    <2> HIDE DEF slots, rest
    <2>3. Aims(x) /\ x.pc = "insert" /\ x.slots = slots /\ x.rows = {}
      BY <1>0, <2>2 DEF Aims, IsCall
    <2> HIDE DEF x
    <2>4. CASE Goto(c, x) /\ \A s \in slots : ~FindConflict(s, {})
      BY <2>2, <2>3, <2>4, Looks
    <2>5. CASE Goto(c, Generated(c, rest))
      BY <2>2, <2>5, GeneratedFacts, GoesOn
    <2>6. CASE Goto(c, [NoCall EXCEPT !.pc = "activate", !.k = call[c].k])
      BY <2>2, <2>6, EntryFacts, GoesOn
    <2>7. QED
      BY <2>1, <2>4, <2>5, <2>6 DEF slots, rest, x
  <1>2. CASE MarkPublished(c)
    <2> DEFINE T == {<<call[c].k, class[call[c].k].schedules>>}
               x == [call[c] EXCEPT !.pc = "generate", !.todo = T]
    <2>1. Goto(c, x) /\ UNCHANGED <<row, unseen>> /\ call[c].pc = "publish"
      BY <1>2 DEF MarkPublished, At
    <2> HIDE DEF T
    <2>2. Aims(x) /\ x.pc \notin Waits
      BY <1>0, <2>1 DEF Aims, IsCall, Waits
    <2> HIDE DEF x
    <2>3. QED
      BY <2>1, <2>2, GoesOn
  <1>3. ASSUME Return(c), UNCHANGED <<row, unseen>> PROVE IInv'
    <2>1. Goto(c, NoCall)
      BY <1>3 DEF Return, Goto
    <2>2. QED
      BY <1>3, <2>1, NoCallAims, GoesOn DEF Waits
  <1>4. CASE CheckMove(c)
    <2>1. PICK s : call[c].slots = {s}
      BY <1>0, <1>4 DEF CheckMove, At, Aims
    <2> DEFINE x == [call[c] EXCEPT !.pc = "move", !.since = {}]
    <2>2. Aims(x) /\ x.pc = "move" /\ x.slots = {s} /\ x.rows = call[c].rows
      BY <1>0, <1>4, <2>1 DEF CheckMove, At, Aims, IsCall
    <2>3. /\ UNCHANGED <<row, unseen>>
          /\ Return(c) \/ (Goto(c, x) /\ ~FindConflict(s, call[c].rows))
      <3>1. The(call[c].slots) = s
        BY <2>1 DEF The
      <3>2. QED
        BY <1>4, <3>1 DEF CheckMove
    <2> HIDE DEF x
    <2>4. QED
      BY <1>3, <2>2, <2>3, Looks
  <1>5. CASE Activate(c) \/ MarkEnded(c)
    BY <1>3, <1>5 DEF Activate, MarkEnded
  <1>6. QED
    BY <1>1, <1>2, <1>4, <1>5

\* The handlers that book.
LEMMA BookInv ==
  ASSUME IInv, NEW c \in Calls, Insert(c) \/ MarkLive(c) \/ Move(c)
  PROVE  IInv'
  <1>0. Aims(call[c]) /\ \A r \in Rows : IsRow(row[r])
    BY DEF IInv, Shapes
  <1>1. CASE Insert(c)
    <2> DEFINE free  == {r \in Rows : row[r].status = "none"}
               slots == call[c].slots
               place == CHOOSE f \in [slots -> free] : \A s, t \in slots : f[s] = f[t] => s = t
               new   == {place[s] : s \in slots}
               booked(r) == LET s == CHOOSE s \in slots : place[s] = r
                            IN [status |-> "SCHEDULED", of |-> call[c].of, from |-> s.from, to |-> s.to]
    <2>1. /\ row' = [r \in Rows |-> IF r \notin new THEN row[r] ELSE booked(r)]
          /\ Booked(c, new, Generated(c, call[c].todo))
          /\ call[c].pc = "insert" /\ call[c].rows = {}
      BY <1>0, <1>1 DEF Insert, At, Aims
    <2> HIDE DEF place
    <2>2. \A r \in new : IsRow(booked(r)) /\ \E s \in slots : booked(r).from = s.from /\ booked(r).to = s.to
      <3> SUFFICES ASSUME NEW r \in new
                   PROVE  IsRow(booked(r)) /\ \E s \in slots : booked(r).from = s.from /\ booked(r).to = s.to
        OBVIOUS
      <3> DEFINE t == CHOOSE s \in slots : place[s] = r
      <3>1. t \in slots
        OBVIOUS
      <3> HIDE DEF t
      <3>2. booked(r) = [status |-> "SCHEDULED", of |-> call[c].of, from |-> t.from, to |-> t.to]
        BY DEF t
      <3> HIDE DEF booked, slots
      <3>3. QED
        BY <3>1, <3>2 DEF IsRow
    <2> HIDE DEF slots, new, booked
    <2>3. /\ row' = [r \in Rows |-> row'[r]]
          /\ \A r \in Rows : IsRow(row'[r])
          /\ \A q \in Rows \ new : row'[q] = row[q]
          /\ \A r \in new \cap Rows : \E s \in slots : row'[r].from = s.from /\ row'[r].to = s.to
      BY <1>0, <2>1, <2>2
    <2>4. \A r \in new \cap Rows, q \in Rows \ new :
            Active(q) /\ Overlap(row'[r], row[q]) => {r, q} \in unseen \/ q \in call[c].since
      BY <2>1, <2>3 DEF IInv, LookedWell, Overlap, slots
    <2>5. QED
      BY <2>1, <2>3, <2>4, GeneratedFacts, BookedInv
  <1>2. CASE MarkLive(c)
    <2>1. PICK r \in Rows : call[c].rows = {r}
      BY <1>0, <1>2 DEF MarkLive, At, Aims
    <2>2. /\ row' = [row EXCEPT ![r].status = "LIVE"] /\ Booked(c, {r}, NoCall)
          /\ call[c].pc = "start"
      BY <1>2, <2>1 DEF MarkLive, At, The
    <2>3. /\ row' = [q \in Rows |-> row'[q]]
          /\ \A q \in Rows : IsRow(row'[q])
          /\ \A q \in Rows \ {r} : row'[q] = row[q]
          /\ row'[r].from = row[r].from /\ row'[r].to = row[r].to
      BY <1>0, <2>2 DEF IInv, Shapes, IsRow
    <2>4. \A p \in {r} \cap Rows, q \in Rows \ {r} :
            Active(q) /\ Overlap(row'[p], row[q]) => {p, q} \in unseen \/ q \in call[c].since
      BY <2>1, <2>2, <2>3 DEF IInv, ReadWell, Overlap
    <2>5. QED
      BY <2>2, <2>3, <2>4, NoCallAims, BookedInv DEF Waits
  <1>3. CASE Move(c)
    <2>0. PICK s : call[c].slots = {s}
      BY <1>0, <1>3 DEF Move, At, Aims
    <2>1. PICK r \in Rows : call[c].rows = {r} /\ call[c].slots = {s}
      BY <1>0, <1>3, <2>0 DEF Move, At, Aims
    <2>2. /\ row' = [row EXCEPT ![r].from = s.from, ![r].to = s.to] /\ Booked(c, {r}, NoCall)
          /\ call[c].pc = "move"
      BY <1>3, <2>1 DEF Move, At, The
    <2>3. /\ row' = [q \in Rows |-> row'[q]]
          /\ \A q \in Rows : IsRow(row'[q])
          /\ \A q \in Rows \ {r} : row'[q] = row[q]
          /\ row'[r].from = s.from /\ row'[r].to = s.to
      BY <1>0, <2>2 DEF IInv, Shapes, IsRow
    <2>4. \A p \in {r} \cap Rows, q \in Rows \ {r} :
            Active(q) /\ Overlap(row'[p], row[q]) => {p, q} \in unseen \/ q \in call[c].since
      BY <2>1, <2>2, <2>3 DEF IInv, LookedWell, Overlap
    <2>5. QED
      BY <2>2, <2>3, <2>4, NoCallAims, BookedInv DEF Waits
  <1>4. QED
    BY <1>1, <1>2, <1>3

\* Ending a session: the row may have got any state since it was read.
LEMMA EndInv ==
  ASSUME IInv, NEW c \in Calls, MarkSessionEnded(c)
  PROVE  IInv'
  <1>1. Aims(call[c]) /\ Shapes /\ \A r \in Rows : IsRow(row[r])
    BY DEF IInv, Shapes
  <1>2. PICK r \in Rows : call[c].rows = {r}
    BY <1>1 DEF MarkSessionEnded, At, Aims
  <1>3. row' = [row EXCEPT ![r].status = "ENDED"] /\ Goto(c, NoCall) /\ unseen' = unseen
    BY <1>2 DEF MarkSessionEnded, The, Return, Goto
  <1>4. /\ row' = [q \in Rows |-> row'[q]]
        /\ \A q \in Rows : /\ IsRow(row'[q]) /\ row'[q].from = row[q].from /\ row'[q].to = row[q].to
                           /\ row'[q].status = row[q].status \/ row'[q].status = "ENDED"
    BY <1>1, <1>3 DEF Shapes, IsRow
  <1>5. /\ call' = [d \in Calls |-> call'[d]] /\ \A d \in Calls : Aims(call'[d])
        /\ call'[c] = NoCall /\ \A d \in Calls \ {c} : call'[d] = call[d]
    BY <1>1, <1>3, NoCallAims, GotoFacts
  <1>6. Shapes' /\ \A q \in Rows : Active(q)' => Active(q)
    BY <1>4, <1>5 DEF Shapes, Active
  <1>7. \A d \in Calls : call'[d].pc \in Waits => call'[d] = call[d]
    BY <1>5, NoCallAims DEF Waits
  <1>8. QED
    BY <1>3, <1>4, <1>6, <1>7, Calm

-----------------------------------------------------------------------------
(* The theorems *)

\* Between looking for a conflict and writing, every call knows who booked
\* meanwhile, whatever handlers and crons do and whenever the process dies.
THEOREM Inductive == Spec => []IInv
  <1>1. IInv /\ [Next]_vars => IInv'
    <2> SUFFICES ASSUME IInv, [Next]_vars PROVE IInv'
      OBVIOUS
    <2>1. CASE UNCHANGED vars
      <3>1. Shapes' /\ \A q \in Rows : Active(q)' => Active(q)
        BY <2>1 DEF vars, IInv, Shapes, Active
      <3>2. QED
        BY <2>1, <3>1, Calm DEF vars
    <2>2. CASE Next
      BY <2>2, TimeInv, AskInv, LookInv, BookInv, EndInv DEF Next, Work, Proceed
    <2>3. QED
      BY <2>1, <2>2
  <1>2. QED
    BY <1>1, InitInv, PTL DEF Spec

\* Two sessions of the instructor overlap only if neither booking could see the
\* other: findConflict() misses nothing that was there when it looked.
THEOREM OverlapsAreUnseen == Spec => []OverlapIsUnseen
  <1>1. IInv => OverlapIsUnseen
    BY DEF IInv
  <1>2. QED
    BY <1>1, Inductive, PTL

-----------------------------------------------------------------------------
(* The pages *)

IsCheck(a) == a \in [rows : {a.rows}, hits : {a.hits}, last : BOOLEAN]

IsForm(f) == f \in [of : Classes, by : BOOLEAN, rows : SUBSET Templates, terms : {f.terms},
                    timer : BOOLEAN, checks : {f.checks}, conflicts : {f.conflicts},
                    checked : {f.checked}, stale : BOOLEAN, sending : BOOLEAN]

\* A query that is the last one asks about the rows that are there, and once its answer
\* has come they are the ones that were checked.
FormKnows(f) ==
  /\ IsForm(f) /\ \A a \in f.checks : IsCheck(a)
  /\ f.timer => f.by
  /\ \A a \in f.checks : a.last => a.rows = f.rows /\ f.by /\ ~f.timer
  /\ ~f.timer /\ ~f.stale /\ (\A a \in f.checks : ~a.last) =>
       f.checked = IF f.by THEN f.rows ELSE {}

FormInv == class \in [Classes -> Class] /\ (form # NoForm => FormKnows(form))

SiteNext == CallsNext \/ FormNext \/ PagesNext

\* What every step may do to the classes.
LEMMA ClassesStay ==
  ASSUME class \in [Classes -> Class], [Next]_vars
  PROVE  class' \in [Classes -> Class]
  <1>1. CASE UNCHANGED class
    BY <1>1
  <1>2. CASE \E k \in Classes, S \in SUBSET Templates : CreateClass(k, S)
    BY <1>2 DEF CreateClass, Class
  <1>3. CASE \E c \in Calls, k \in Classes, S \in SUBSET Templates : UpdateSchedules(c, k, S)
    BY <1>3 DEF UpdateSchedules, Class
  <1>4. CASE \E c \in Calls : MarkPublished(c) \/ Activate(c) \/ MarkEnded(c)
    <2>1. ASSUME NEW k, NEW st \in {"PUBLISHED", "ACTIVE", "ENDED"},
                 class' = [class EXCEPT ![k].status = st]
          PROVE  class' \in [Classes -> Class]
      <3>1. CASE k \in Classes
        BY <2>1, <3>1 DEF Class
      <3>2. CASE k \notin Classes
        BY <2>1, <3>2
      <3>3. QED
        BY <3>1, <3>2
    <2>2. PICK c \in Calls : MarkPublished(c) \/ Activate(c) \/ MarkEnded(c)
      BY <1>4
    <2>3. \/ class' = [class EXCEPT ![call[c].k].status = "PUBLISHED"]
          \/ class' = [class EXCEPT ![call[c].k].status = "ACTIVE"]
          \/ class' = [class EXCEPT ![call[c].k].status = "ENDED"]
      BY <2>2 DEF MarkPublished, Activate, MarkEnded
    <2>4. QED
      BY <2>1, <2>3
  <1>5. QED
    BY <1>1, <1>2, <1>3, <1>4 DEF Next, Work, Proceed, Ask, Tick, AutoEndStaleSessions, Restart,
       ExtendGeneratedWindows, Insert, Generate, MarkLive, MarkSessionEnded, CheckMove, Move,
       Publish, EndClass, CreateManual, Start, End, Reschedule, vars

\* The form and the pages send nothing that the service is not sent anyway.
LEMMA SiteStepIs ==
  ASSUME FormInv, SiteNext
  PROVE  [Next]_vars
  <1>1. Clerk \in Calls /\ Edited \in Classes
    BY ClassPagesAssumption
  <1>2. CASE CallsNext
    <2>1. Work({Edited}) => Work(Classes)
      BY <1>1 DEF Work, Ask
    <2>2. QED
      BY <1>2, <2>1 DEF CallsNext, Next
  <1>3. CASE SubmitNew \/ SubmitEdit
    <2>1. form.rows \in SUBSET Templates /\ form.of \in Classes
      BY <1>3 DEF SubmitNew, SubmitEdit, CanSubmit, Typing, FormInv, FormKnows, IsForm
    <2>2. CreateClass(form.of, form.rows) \/ UpdateSchedules(Clerk, form.of, form.rows)
      BY <1>3 DEF SubmitNew, SubmitEdit
    <2>3. QED
      BY <1>1, <2>1, <2>2 DEF Next, Work, Ask
  <1>4. CASE FormGoesOn \/ PageGoesOn
    BY <1>1, <1>4 DEF FormGoesOn, PageGoesOn, Next, Work
  <1>5. CASE OtherBooks
    BY <1>1, <1>5 DEF OtherBooks, Next, Work, Ask
  <1>6. CASE \/ OpenForm \/ EditRows \/ EnterTerms \/ Check
             \/ form # NoForm /\ \E a \in form.checks : CheckAnswers(a) \/ CheckFails(a)
             \/ OpenList \/ OpenCalendar \/ \E tab \in {"overview", "sessions"} : OpenClass(tab)
    BY <1>6 DEF OpenForm, EditRows, EnterTerms, Check, CheckAnswers, CheckFails, OpenList,
       OpenCalendar, OpenClass
  <1>7. CASE \/ ListPublishes \/ OverviewEnds
             \/ \E r \in Rows : SessionsStart(r) \/ SessionsEnd(r)
                                  \/ \E s \in Slots : CalendarMoves(r, s)
             \/ \E s \in Slots : SessionsCreate(s)
    <2>1. Ask(Clerk, Classes)
      BY <1>1, <1>7 DEF ListPublishes, OverviewEnds, SessionsStart, SessionsEnd, CalendarMoves,
         SessionsCreate, Ask
    <2>2. QED
      BY <1>1, <2>1 DEF Next, Work
  <1>8. CASE Tick \/ AutoEndStaleSessions \/ \E S \in SUBSET Templates : CreateClass(Edited, S)
    BY <1>1, <1>8 DEF Next, Work
  <1>9. QED
    BY <1>2, <1>3, <1>4, <1>5, <1>6, <1>7, <1>8 DEF SiteNext, FormNext, PagesNext

\* What a change of the rows or the instructor makes of the form.
LEMMA ChangedKnows ==
  ASSUME NEW f, IsForm(f), \A a \in f.checks : IsCheck(a)
  PROVE  FormKnows(Changed(f))
  <1> DEFINE old == {[a EXCEPT !.last = FALSE] : a \in f.checks}
  <1>1. \A a \in old : IsCheck(a) /\ ~a.last
    <2>1. \A a : IsCheck(a) => /\ IsCheck([a EXCEPT !.last = FALSE])
                               /\ ~[a EXCEPT !.last = FALSE].last
      BY DEF IsCheck
    <2>2. QED
      BY <2>1
  <1>2. Changed(f) = IF f.by /\ f.rows # {} THEN [f EXCEPT !.timer = TRUE, !.checks = old]
                     ELSE [f EXCEPT !.timer = FALSE, !.checks = old, !.conflicts = {},
                                    !.checked = {}, !.stale = FALSE]
    BY DEF Changed
  <1> HIDE DEF old
  <1>3. CASE f.by /\ f.rows # {}
    <2> DEFINE g == [f EXCEPT !.timer = TRUE, !.checks = old]
    <2>1. IsForm(g) /\ g.timer /\ g.checks = old /\ g.by = f.by
      BY DEF IsForm
    <2> HIDE DEF g
    <2>2. FormKnows(g)
      BY <1>1, <1>3, <2>1 DEF FormKnows
    <2> USE DEF g
    <2>3. QED
      BY <1>2, <1>3, <2>2
  <1>4. CASE ~(f.by /\ f.rows # {})
    <2> DEFINE g == [f EXCEPT !.timer = FALSE, !.checks = old, !.conflicts = {},
                              !.checked = {}, !.stale = FALSE]
    <2>1. /\ IsForm(g) /\ g.checks = old /\ g.checked = {} /\ g.by = f.by /\ g.rows = f.rows
          /\ ~g.timer
      BY DEF IsForm
    <2> HIDE DEF g
    <2>2. FormKnows(g)
      BY <1>1, <1>4, <2>1 DEF FormKnows
    <2> USE DEF g
    <2>3. QED
      BY <1>2, <1>4, <2>2
  <1>5. QED
    BY <1>3, <1>4

LEMMA InitialKnows ==
  ASSUME class \in [Classes -> Class], NEW k \in Classes
  PROVE  FormKnows(Initial(k))
  <1> DEFINE by == class[k].status # "none"
             rows == class[k].schedules
             timer == class[k].status # "none" /\ class[k].schedules # {}
             f == [of |-> k, by |-> by, rows |-> rows, terms |-> terms[k], timer |-> timer,
                   checks |-> {}, conflicts |-> {}, checked |-> {}, stale |-> FALSE,
                   sending |-> FALSE]
  <1>1. by \in BOOLEAN /\ timer \in BOOLEAN /\ rows \in SUBSET Templates
    BY DEF Class
  <1>2. (~timer => rows = {} \/ ~by) /\ (timer => by)
    OBVIOUS
  <1>3. Initial(k) = f
    BY DEF Initial
  <1> HIDE DEF by, rows, timer
  <1>4. /\ IsForm(f) /\ f.checks = {} /\ f.checked = {} /\ f.by = by /\ f.rows = rows
        /\ f.timer = timer
    BY <1>1 DEF IsForm
  <1> HIDE DEF f
  <1>5. QED
    BY <1>2, <1>3, <1>4 DEF FormKnows

\* Typing: the rows, the terms, and the instructor.
LEMMA TypingKnows ==
  ASSUME FormInv, EditRows \/ EnterTerms
  PROVE  FormKnows(form')
  <1>1. form # NoForm /\ FormKnows(form)
    BY DEF EditRows, EnterTerms, Typing, FormInv
  <1>2. IsForm(form) /\ \A a \in form.checks : IsCheck(a)
    BY <1>1 DEF FormKnows
  <1>3. ASSUME NEW S \in SUBSET Templates, form' = Changed([form EXCEPT !.rows = S])
        PROVE  FormKnows(form')
    <2> DEFINE f == [form EXCEPT !.rows = S]
    <2>1. IsForm(f) /\ f.checks = form.checks
      BY <1>2 DEF IsForm
    <2> HIDE DEF f
    <2>2. FormKnows(Changed(f))
      BY <1>2, <2>1, ChangedKnows
    <2> USE DEF f
    <2>3. QED
      BY <1>3, <2>2
  <1>4. ASSUME form' = Changed([form EXCEPT !.by = TRUE])
        PROVE  FormKnows(form')
    <2> DEFINE f == [form EXCEPT !.by = TRUE]
    <2>1. IsForm(f) /\ f.checks = form.checks
      BY <1>2 DEF IsForm
    <2> HIDE DEF f
    <2>2. FormKnows(Changed(f))
      BY <1>2, <2>1, ChangedKnows
    <2> USE DEF f
    <2>3. QED
      BY <1>4, <2>2
  <1>5. ASSUME NEW t, form' = [form EXCEPT !.terms = t]
        PROVE  FormKnows(form')
    <2>1. /\ IsForm(form') /\ form'.checks = form.checks /\ form'.rows = form.rows
          /\ form'.by = form.by /\ form'.timer = form.timer /\ form'.stale = form.stale
          /\ form'.checked = form.checked
      BY <1>2, <1>5 DEF IsForm
    <2>2. QED
      BY <1>1, <2>1 DEF FormKnows
  <1>6. QED
    BY <1>3, <1>4, <1>5 DEF EditRows, EnterTerms

\* The timer fires, and queries are answered in any order.
LEMMA CheckKnows ==
  ASSUME FormInv, form # NoForm,
         Check \/ \E a \in form.checks : CheckAnswers(a) \/ CheckFails(a)
  PROVE  FormKnows(form')
  <1>1. FormKnows(form) /\ IsForm(form)
    BY DEF FormInv, FormKnows
  <1>2. CASE Check
    <2> DEFINE hits == Conflicts(form.rows, Availability(form.of))
               a == [rows |-> form.rows, hits |-> hits, last |-> TRUE]
    <2>1. form.timer /\ form' = [form EXCEPT !.timer = FALSE, !.checks = form.checks \cup {a}]
      BY <1>2 DEF Check
    <2> HIDE DEF hits
    <2>2. IsCheck(a) /\ a.last /\ a.rows = form.rows
      BY DEF IsCheck
    <2> HIDE DEF a
    <2>3. /\ IsForm(form') /\ form'.checks = form.checks \cup {a} /\ form'.rows = form.rows
          /\ form'.by = form.by /\ ~form'.timer
      BY <1>1, <2>1 DEF IsForm
    <2>4. \A b \in form.checks : IsCheck(b) /\ ~b.last
      BY <1>1, <2>1 DEF FormKnows, IsCheck
    <2>5. form.by
      BY <1>1, <2>1 DEF FormKnows
    <2>6. QED
      BY <2>2, <2>3, <2>4, <2>5 DEF FormKnows
  <1>3. CASE \E a \in form.checks : CheckAnswers(a) \/ CheckFails(a)
    <2>0. PICK a \in form.checks : CheckAnswers(a) \/ CheckFails(a)
      BY <1>3
    <2>1. \E hits : form' = [form EXCEPT !.checks = form.checks \ {a}, !.conflicts = hits,
                                         !.checked = a.rows, !.stale = ~a.last]
      BY <2>0 DEF CheckAnswers, CheckFails
    <2>2. a.last \in BOOLEAN
      BY <1>1 DEF FormKnows, IsCheck
    <2>3. /\ IsForm(form') /\ form'.checks = form.checks \ {a} /\ form'.rows = form.rows
          /\ form'.by = form.by /\ form'.timer = form.timer /\ form'.checked = a.rows
          /\ form'.stale = ~a.last
      BY <1>1, <2>1, <2>2 DEF IsForm
    <2>4. QED
      BY <1>1, <2>1, <2>3 DEF FormKnows
  <1>4. QED
    BY <1>2, <1>3

\* Whether it is being sent changes nothing else of the form.
LEMMA SendingKnows ==
  ASSUME FormKnows(form), NEW s \in BOOLEAN, form' = [form EXCEPT !.sending = s]
  PROVE  FormKnows(form')
  <1>1. /\ IsForm(form') /\ form'.checks = form.checks /\ form'.rows = form.rows
        /\ form'.by = form.by /\ form'.timer = form.timer /\ form'.stale = form.stale
        /\ form'.checked = form.checked
    BY DEF FormKnows, IsForm
  <1>2. QED
    BY <1>1 DEF FormKnows

LEMMA SiteStay ==
  ASSUME FormInv, SiteNext
  PROVE  FormInv'
  <1>1. class' \in [Classes -> Class]
    BY SiteStepIs, ClassesStay DEF FormInv
  <1>2. CASE form' = form \/ form' = NoForm
    BY <1>1, <1>2 DEF FormInv
  <1>3. CASE OpenForm
    BY <1>1, <1>3, InitialKnows, ClassPagesAssumption DEF OpenForm, FormInv
  <1>4. CASE EditRows \/ EnterTerms
    BY <1>1, <1>4, TypingKnows DEF FormInv
  <1>5. CASE form # NoForm /\ (Check \/ \E a \in form.checks : CheckAnswers(a) \/ CheckFails(a))
    BY <1>1, <1>5, CheckKnows DEF FormInv
  <1>6. CASE form # NoForm /\ \E s \in BOOLEAN : form' = [form EXCEPT !.sending = s]
    BY <1>1, <1>6, SendingKnows DEF FormInv
  <1>7. CASE SubmitNew \/ SubmitEdit \/ FormGoesOn
    <2>1. SubmitNew \/ SubmitEdit => form # NoForm
      BY DEF SubmitNew, SubmitEdit, CanSubmit, Typing
    <2>2. \/ form' = form \/ form' = NoForm
          \/ form # NoForm /\ form' = [form EXCEPT !.sending = TRUE]
          \/ form # NoForm /\ form' = [form EXCEPT !.sending = FALSE]
      BY <1>7, <2>1 DEF SubmitNew, SubmitEdit, FormGoesOn
    <2>3. QED
      BY <1>2, <1>6, <2>2
  <1>8. CASE \/ CallsNext \/ PagesNext \/ OtherBooks
             \/ desk = "form" /\ Tick /\ UNCHANGED pageVars
    <2>1. form' = form
      BY <1>8 DEF CallsNext, PagesNext, OtherBooks, pageVars, OpenList, OpenCalendar, OpenClass,
         ListPublishes, OverviewEnds, SessionsStart, SessionsEnd, CalendarMoves, SessionsCreate,
         PageGoesOn
    <2>2. QED
      BY <1>2, <2>1
  <1>9. Check => form # NoForm
    BY DEF Check
  <1>10. QED
    BY <1>3, <1>4, <1>5, <1>7, <1>8, <1>9 DEF SiteNext, FormNext

\* What the form and the pages know of the rows holds in every reachable state.
THEOREM FormsKnow == SiteSpec => []FormInv
  <1>1. PagesInit => FormInv
    BY DEF PagesInit, Init, FormInv, Class
  <1>2. FormInv /\ [SiteNext]_allVars => FormInv'
    <2>1. ASSUME FormInv, UNCHANGED allVars
          PROVE  FormInv'
      BY <2>1 DEF allVars, vars, pageVars, FormInv
    <2>2. QED
      BY <2>1, SiteStay
  <1>3. QED
    BY <1>1, <1>2, PTL DEF SiteSpec, SiteNext

\* The form and the pages are among the users of classes.service.ts and
\* sessions.service.ts: they send nothing with which these were not reckoned, so
\* that what is proved whatever is sent holds of them.
THEOREM SiteIsServed == SiteSpec => Spec
  <1>1. PagesInit => Init
    BY DEF PagesInit
  <1>2. FormInv /\ [SiteNext]_allVars => [Next]_vars
    BY SiteStepIs DEF allVars
  <1>3. QED
    BY <1>1, <1>2, FormsKnow, PTL DEF SiteSpec, SiteNext, Spec

\* ClassForm.tsx: when the last query was answered after all the others, the conflicts
\* that are shown are those of the rows in the form, however rows were typed and queries
\* answered or lost in between; without an instructor or rows there are none.
THEOREM ShownIsCurrent == SiteSpec => []ConflictsAreCurrent
  <1>1. FormInv => ConflictsAreCurrent
    BY DEF FormInv, FormKnows, ConflictsAreCurrent
  <1>2. QED
    BY <1>1, FormsKnow, PTL

-----------------------------------------------------------------------------
(* The classroom *)

\* What a sequence of messages shows.
LEMMA Appended ==
  ASSUME NEW S, NEW s \in Seq(S), NEW e \in S
  PROVE  /\ Append(s, e) \in Seq(S)
         /\ ToSet(Append(s, e)) = ToSet(s) \cup {e}
         /\ IsInjective(s) /\ e \notin ToSet(s) => IsInjective(Append(s, e))
  <1>1. /\ Append(s, e) \in Seq(S) /\ Len(Append(s, e)) = Len(s) + 1
        /\ \A i \in 1..Len(s) : Append(s, e)[i] = s[i]
        /\ Append(s, e)[Len(s) + 1] = e
        /\ DOMAIN s = 1..Len(s) /\ DOMAIN Append(s, e) = 1..(Len(s) + 1)
        /\ Len(s) \in Nat
    OBVIOUS
  <1>2. \A i \in 1..(Len(s) + 1) : i \in 1..Len(s) \/ i = Len(s) + 1
    BY <1>1
  <1>3. 1..Len(s) \subseteq 1..(Len(s) + 1) /\ Len(s) + 1 \in 1..(Len(s) + 1)
    BY <1>1
  <1>4. ToSet(Append(s, e)) = ToSet(s) \cup {e}
    <2> DEFINE t == Append(s, e)
    <2> HIDE DEF t
    <2>1. /\ \A i \in DOMAIN t : i \in DOMAIN s \/ i = Len(s) + 1
          /\ DOMAIN s \subseteq DOMAIN t /\ Len(s) + 1 \in DOMAIN t
          /\ \A i \in DOMAIN s : t[i] = s[i]
          /\ t[Len(s) + 1] = e
      BY <1>1, <1>2, <1>3 DEF t
    <2>2. {t[i] : i \in DOMAIN t} = {s[i] : i \in DOMAIN s} \cup {e}
      BY <2>1
    <2>3. QED
      BY <2>2 DEF ToSet, t
  <1>5. ASSUME IsInjective(s), e \notin ToSet(s) PROVE IsInjective(Append(s, e))
    BY <1>1, <1>2, <1>5 DEF IsInjective, ToSet
  <1>6. QED
    BY <1>1, <1>4, <1>5

\* The first message, and the others.
LEMMA Taken ==
  ASSUME NEW S, NEW s \in Seq(S), s # <<>>
  PROVE  /\ Head(s) \in S /\ Tail(s) \in Seq(S)
         /\ ToSet(s) = {Head(s)} \cup ToSet(Tail(s))
  <1>1. /\ Len(s) \in Nat \ {0} /\ Head(s) = s[1] /\ Tail(s) \in Seq(S) /\ s[1] \in S
        /\ Len(Tail(s)) = Len(s) - 1
        /\ \A i \in 1..(Len(s) - 1) : Tail(s)[i] = s[i + 1]
        /\ DOMAIN s = 1..Len(s) /\ DOMAIN Tail(s) = 1..(Len(s) - 1)
    OBVIOUS
  <1>2. /\ \A i \in 1..Len(s) : i = 1 \/ (i - 1 \in 1..(Len(s) - 1) /\ i = (i - 1) + 1)
        /\ \A i \in 1..(Len(s) - 1) : i + 1 \in 1..Len(s)
        /\ 1 \in 1..Len(s)
    BY <1>1
  <1>3. ASSUME NEW x \in ToSet(s) PROVE x \in {Head(s)} \cup ToSet(Tail(s))
    <2>1. PICK i \in 1..Len(s) : x = s[i]
      BY <1>1, <1>3 DEF ToSet
    <2>2. CASE i = 1
      BY <1>1, <2>1, <2>2
    <2>3. CASE i # 1
      <3>1. i - 1 \in DOMAIN Tail(s) /\ x = Tail(s)[i - 1]
        BY <1>1, <1>2, <2>1, <2>3
      <3>2. QED
        BY <3>1 DEF ToSet
    <2>4. QED
      BY <2>2, <2>3
  <1>4. ASSUME NEW x \in ToSet(Tail(s)) PROVE x \in ToSet(s)
    <2>1. PICK i \in 1..(Len(s) - 1) : x = Tail(s)[i]
      BY <1>1, <1>4 DEF ToSet
    <2>2. i + 1 \in DOMAIN s /\ x = s[i + 1]
      BY <1>1, <1>2, <2>1
    <2>3. QED
      BY <2>2 DEF ToSet
  <1>5. Head(s) \in ToSet(s)
    BY <1>1, <1>2 DEF ToSet
  <1>6. QED
    BY <1>1, <1>3, <1>4, <1>5

\* A sequence contains what it shows, and the empty one nothing.
LEMMA Shows ==
  /\ \A S, e : \A s \in Seq(S) : (Contains(s, e) <=> e \in ToSet(s)) /\ ToSet(s) \subseteq S
  /\ ToSet(<<>>) = {} /\ IsInjective(<<>>)
  <1>1. ASSUME NEW S, NEW e, NEW s \in Seq(S)
        PROVE  (Contains(s, e) <=> e \in ToSet(s)) /\ ToSet(s) \subseteq S
    <2>1. DOMAIN s = 1..Len(s) /\ \A i \in DOMAIN s : s[i] \in S
      OBVIOUS
    <2>2. QED
      BY <2>1 DEF Contains, ToSet
  <1>2. DOMAIN <<>> = {}
    OBVIOUS
  <1>3. QED
    BY <1>1, <1>2 DEF ToSet, IsInjective

\* A message is stored before it is sent, and once.
Logged ==
  /\ ToSet(log) = {m \in Messages : msg[m] \in {"stored", "sent"}}
  /\ IsInjective(log) /\ IsInjective(answer) /\ IsInjective(shown)

\* From the moment the history was read, a message that was sent is in its answer, on the
\* page, on the way or lost, whether the page was in the room or not; from the moment the
\* page shows the history, the answer no longer counts.
Followed ==
  \A m \in Messages : msg[m] = "sent" =>
    /\ history = "read"  => m \in ToSet(answer) \cup ToSet(shown) \cup ToSet(wire) \cup lost
    /\ history = "shown" => m \in ToSet(shown) \cup ToSet(wire) \cup lost

RoomInv == RoomTypeOK /\ Logged /\ Followed

\* A page that opens knows nothing, and nothing was said yet.
LEMMA RoomStarts == RoomInit => RoomInv
  <1> SUFFICES ASSUME RoomInit PROVE RoomInv
    OBVIOUS
  <1>1. RoomTypeOK
    <2>1. /\ over \in BOOLEAN /\ revived \in BOOLEAN /\ access \in BOOLEAN /\ locked \in BOOLEAN
      BY Zenon DEF RoomInit
    <2>2. /\ log \in Seq(Messages) /\ answer \in Seq(Messages)
          /\ wire \in Seq(Messages) /\ shown \in Seq(Messages)
      BY DEF RoomInit
    <2>3. QED
      BY <2>1, <2>2 DEF RoomInit, RoomTypeOK
  <1>2. Logged
    BY Shows DEF RoomInit, Logged
  <1>3. Followed
    BY DEF RoomInit, Followed
  <1>4. QED
    BY <1>1, <1>2, <1>3 DEF RoomInv

\* What happens to the session, to the join button and to the lock does not touch the chat.
LEMMA OutsideChat ==
  ASSUME RoomInv,
         \/ \E c \in Requests : StartReads(c) \/ EndReads(c) \/ RescheduleReads(c) \/ Write(c)
         \/ EndPasses \/ AutoEndStaleSession \/ Poll \/ PollFails \/ AccessChanges \/ SetChatLocked
         \/ UNCHANGED roomVars
  PROVE  RoomInv'
  <1>1. UNCHANGED <<msg, log, chatPage, socket, wire, lost>>
    BY DEF StartReads, EndReads, RescheduleReads, Admit, Write, EndPasses, AutoEndStaleSession,
       Poll, PollFails, AccessChanges, SetChatLocked, roomVars, chat
  <1>2. Logged' /\ Followed'
    BY <1>1 DEF RoomInv, Logged, Followed, chatPage
  <1>3. RoomTypeOK
    BY DEF RoomInv
  <1>4. ASSUME NEW c \in Requests, StartReads(c) \/ EndReads(c) \/ RescheduleReads(c) \/ Write(c)
        PROVE  RoomTypeOK'
    <2>1. /\ status' \in {"SCHEDULED", "LIVE", "ENDED"}
          /\ over' \in BOOLEAN /\ revived' \in BOOLEAN
          /\ request' \in [Requests -> {"idle", "start", "end", "move"}]
          /\ UNCHANGED <<live, access, locked, faults>>
      BY <1>3, <1>4 DEF StartReads, EndReads, RescheduleReads, Admit, Write, RoomTypeOK, chat
    <2>2. QED
      BY <1>1, <1>3, <2>1 DEF RoomTypeOK, chatPage
  <1>5. CASE EndPasses \/ AutoEndStaleSession \/ UNCHANGED roomVars
    <2>1. /\ status' \in {"SCHEDULED", "LIVE", "ENDED"} /\ over' \in BOOLEAN
          /\ UNCHANGED <<request, revived, live, access, locked, faults>>
      BY <1>3, <1>5 DEF EndPasses, AutoEndStaleSession, RoomTypeOK, chat, roomVars, session
    <2>2. UNCHANGED <<request, revived, live, access, locked, faults, msg, log, history, answer,
                      shown, socket, wire, lost>>
      BY <1>1, <2>1 DEF chatPage
    <2>3. QED
      BY <1>2, <1>3, <2>1, <2>2 DEF RoomTypeOK, RoomInv
  <1>6. CASE Poll \/ PollFails \/ AccessChanges \/ SetChatLocked
    <2>1. live' \in {"not-live", "live", "ended", "not-enrolled", "error"}
      BY <1>3, <1>6 DEF Poll, PollFails, AccessChanges, SetChatLocked, RoomTypeOK, GetRoom
    <2>2. access' \in BOOLEAN /\ locked' \in BOOLEAN
      <3>1. (access' = access \/ access' = ~access) /\ (locked' = locked \/ locked' = ~locked)
        BY <1>6 DEF Poll, PollFails, AccessChanges, SetChatLocked, chat
      <3>2. access \in BOOLEAN /\ locked \in BOOLEAN
        BY <1>3 DEF RoomTypeOK
      <3>3. QED
        BY <3>1, <3>2
    <2>3. faults' \in Nat /\ UNCHANGED session
      BY <1>3, <1>6 DEF Poll, PollFails, AccessChanges, SetChatLocked, RoomTypeOK, Fault
    <2>4. UNCHANGED <<status, over, request, revived, msg, log, history, answer, shown, socket,
                      wire, lost>>
      BY <1>1, <2>3 DEF session, chatPage
    <2>5. QED
      BY <1>2, <1>3, <2>1, <2>2, <2>3, <2>4 DEF RoomTypeOK, RoomInv
  <1>7. QED
    BY <1>2, <1>4, <1>5, <1>6 DEF RoomInv

\* post(): a message that is admitted is no longer none, one that is stored is in the
\* table, and one that is sent is on the way to a page that is in the room, or lost.
LEMMA PostsInv ==
  ASSUME RoomInv, NEW m \in Messages, Post(m) \/ PostGoesOn(m) \/ PostDies(m)
  PROVE  RoomInv'
  <1>1. RoomTypeOK /\ Logged /\ Followed
    BY DEF RoomInv
  <1>2. UNCHANGED <<session, live, access, locked, chatPage, socket>>
    BY DEF Post, PostGoesOn, InsertMessage, BroadcastMessage, PostDies
  <1>3. /\ msg' \in [Messages -> {"none", "admitted", "stored", "sent"}]
        /\ \A n \in Messages \ {m} : msg'[n] = msg[n]
    BY <1>1 DEF Post, PostGoesOn, InsertMessage, BroadcastMessage, PostDies, RoomTypeOK
  <1>4. faults' \in Nat
    BY <1>1 DEF Post, PostGoesOn, InsertMessage, BroadcastMessage, PostDies, RoomTypeOK, Fault
  <1>5. CASE Post(m) \/ InsertMessage(m)
    <2>1. UNCHANGED <<wire, lost>> /\ msg'[m] # "sent"
      BY <1>1, <1>5 DEF Post, InsertMessage, RoomTypeOK
    <2>2. log' \in Seq(Messages) /\ Logged'
      <3>1. CASE Post(m)
        <4>1. log' = log /\ msg[m] = "none" /\ msg'[m] = "admitted"
          BY <1>1, <3>1 DEF Post, RoomTypeOK
        <4>2. QED
          BY <1>1, <1>2, <1>3, <4>1 DEF RoomTypeOK, Logged, chatPage
      <3>2. CASE InsertMessage(m)
        <4>1. log' = Append(log, m) /\ msg[m] = "admitted" /\ msg'[m] = "stored"
          BY <1>1, <3>2 DEF InsertMessage, RoomTypeOK
        <4>2. log \in Seq(Messages) /\ m \notin ToSet(log) /\ IsInjective(log)
          BY <1>1, <4>1 DEF RoomTypeOK, Logged
        <4>3. log' \in Seq(Messages) /\ ToSet(log') = ToSet(log) \cup {m} /\ IsInjective(log')
          BY <4>1, <4>2, Appended
        <4>4. ToSet(log') = {n \in Messages : msg'[n] \in {"stored", "sent"}}
          BY <1>1, <1>3, <4>1, <4>3 DEF Logged
        <4>5. IsInjective(answer') /\ IsInjective(shown')
          BY <1>1, <1>2 DEF Logged, chatPage
        <4>6. QED
          BY <4>3, <4>4, <4>5 DEF Logged
      <3>3. QED
        BY <1>5, <3>1, <3>2
    <2>3. Followed'
      BY <1>1, <1>2, <1>3, <2>1 DEF Followed, chatPage
    <2>4. RoomTypeOK'
      BY <1>1, <1>2, <1>3, <1>4, <2>1, <2>2 DEF RoomTypeOK, session, chatPage
    <2>5. QED
      BY <2>2, <2>3, <2>4 DEF RoomInv
  <1>6. CASE BroadcastMessage(m) \/ PostDies(m)
    <2>1. log' = log /\ msg[m] = "stored" /\ msg'[m] = "sent"
      BY <1>1, <1>6 DEF BroadcastMessage, PostDies, RoomTypeOK
    <2>2. /\ wire' \in Seq(Messages) /\ lost' \subseteq Messages
          /\ ToSet(wire) \subseteq ToSet(wire') /\ lost \subseteq lost'
          /\ m \in ToSet(wire') \cup lost'
      <3>1. wire \in Seq(Messages) /\ lost \subseteq Messages
        BY <1>1 DEF RoomTypeOK
      <3>2. \/ wire' = Append(wire, m) /\ lost' = lost
            \/ wire' = wire /\ lost' = lost \cup {m}
        BY <1>6 DEF BroadcastMessage, PostDies
      <3>3. CASE wire' = Append(wire, m) /\ lost' = lost
        <4>1. wire' \in Seq(Messages) /\ ToSet(wire') = ToSet(wire) \cup {m}
          BY <3>1, <3>3, Appended
        <4>2. QED
          BY <3>1, <3>3, <4>1
      <3>4. CASE wire' = wire /\ lost' = lost \cup {m}
        BY <3>1, <3>4
      <3>5. QED
        BY <3>2, <3>3, <3>4
    <2>3. Logged'
      BY <1>1, <1>2, <1>3, <2>1 DEF Logged, chatPage
    <2>4. Followed'
      BY <1>1, <1>2, <1>3, <2>1, <2>2 DEF Followed, chatPage
    <2>5. RoomTypeOK'
      BY <1>1, <1>2, <1>3, <1>4, <2>1, <2>2 DEF RoomTypeOK, session, chatPage
    <2>6. QED
      BY <2>3, <2>4, <2>5 DEF RoomInv
  <1>7. QED
    BY <1>5, <1>6 DEF PostGoesOn

\* useClassChat.ts: the history holds what was sent when it was read, and what it erases
\* is lost or in it; a broken socket loses what it carried.
LEMMA PageInv ==
  ASSUME RoomInv, ChatGoesOn \/ Disconnect \/ Reopen
  PROVE  RoomInv'
  <1>1. RoomTypeOK /\ Logged /\ Followed
    BY DEF RoomInv
  <1>2. UNCHANGED <<session, access, locked, msg, log>>
    BY DEF ChatGoesOn, ReadHistory, ShowHistory, Join, Receive, Disconnect, Reopen
  <1>3. /\ log \in Seq(Messages) /\ answer \in Seq(Messages) /\ wire \in Seq(Messages)
        /\ shown \in Seq(Messages) /\ lost \subseteq Messages
        /\ <<>> \in Seq(Messages)
    BY <1>1 DEF RoomTypeOK
  <1>4. /\ ToSet(answer) \subseteq Messages /\ ToSet(wire) \subseteq Messages
        /\ ToSet(shown) \subseteq Messages
    BY <1>3, Shows
  <1>5. ASSUME live' \in {"not-live", "live", "ended", "not-enrolled", "error"},
               answer' \in Seq(Messages), wire' \in Seq(Messages), shown' \in Seq(Messages),
               history' \in {"asked", "read", "shown", "failed"},
               socket' \in {"off", "joined", "refused"}, lost' \subseteq Messages, faults' \in Nat,
               IsInjective(answer'), IsInjective(shown'), Followed'
        PROVE  RoomInv'
    <2>1. RoomTypeOK'
      BY <1>1, <1>2, <1>5 DEF RoomTypeOK, session
    <2>2. Logged'
      BY <1>1, <1>2, <1>5 DEF Logged
    <2>3. QED
      BY <1>5, <2>1, <2>2 DEF RoomInv
  <1>6. /\ live \in {"not-live", "live", "ended", "not-enrolled", "error"}
        /\ history \in {"asked", "read", "shown", "failed"}
        /\ socket \in {"off", "joined", "refused"} /\ faults \in Nat
        /\ IsInjective(answer) /\ IsInjective(shown) /\ IsInjective(log)
    BY <1>1 DEF RoomTypeOK, Logged
  <1>7. CASE ReadHistory
    <2>1. UNCHANGED <<live, shown, socket, wire, lost, faults>>
      BY <1>7 DEF ReadHistory
    <2>2. \/ history' = "read" /\ answer' = log
          \/ history' = "failed" /\ answer' = answer
      BY <1>7 DEF ReadHistory
    <2>3. Followed'
      BY <1>1, <1>2, <2>1, <2>2 DEF Followed, Logged
    <2>4. QED
      BY <1>3, <1>5, <1>6, <2>1, <2>2, <2>3
  <1>8. CASE ShowHistory
    <2>1. /\ UNCHANGED <<live, socket, wire, faults>>
          /\ history = "read" /\ history' = "shown" /\ shown' = answer /\ answer' = <<>>
          /\ lost' = (lost \cup ToSet(shown)) \ ToSet(answer)
      BY <1>8 DEF ShowHistory
    <2>2. Followed'
      BY <1>1, <1>2, <2>1 DEF Followed
    <2>3. QED
      BY <1>3, <1>4, <1>5, <1>6, <2>1, <2>2, Shows
  <1>9. CASE Join
    <2>1. UNCHANGED <<live, history, answer, shown, wire, lost, faults>>
      BY <1>9 DEF Join, chatPage
    <2>2. socket' \in {"off", "joined", "refused"}
      BY <1>9 DEF Join
    <2>3. Followed'
      BY <1>1, <1>2, <2>1 DEF Followed
    <2>4. QED
      BY <1>3, <1>5, <1>6, <2>1, <2>2, <2>3
  <1>10. CASE Receive
    <2>1. /\ UNCHANGED <<live, history, answer, socket, lost, faults>>
          /\ wire # <<>> /\ wire' = Tail(wire)
      BY <1>10 DEF Receive
    <2>2. Head(wire) \in Messages /\ wire' \in Seq(Messages) /\ ToSet(wire) = {Head(wire)} \cup ToSet(wire')
      BY <1>3, <2>1, Taken
    <2>3. /\ shown' \in Seq(Messages) /\ IsInjective(shown')
          /\ ToSet(shown') = ToSet(shown) \cup {Head(wire)}
      <3>1. Contains(shown, Head(wire)) <=> Head(wire) \in ToSet(shown)
        BY <1>3, Shows
      <3>2. CASE Contains(shown, Head(wire))
        BY <1>3, <1>6, <1>10, <3>1, <3>2 DEF Receive
      <3>3. CASE ~Contains(shown, Head(wire))
        <4>1. shown' = Append(shown, Head(wire))
          BY <1>10, <3>3 DEF Receive
        <4>2. QED
          BY <1>3, <1>6, <2>2, <3>1, <3>3, <4>1, Appended
      <3>4. QED
        BY <3>2, <3>3
    <2>4. Followed'
      BY <1>1, <1>2, <2>1, <2>2, <2>3 DEF Followed
    <2>5. QED
      BY <1>3, <1>5, <1>6, <2>1, <2>2, <2>3, <2>4
  <1>11. CASE Disconnect
    <2>1. /\ UNCHANGED <<live, history, answer, shown>> /\ socket' = "off" /\ wire' = <<>>
          /\ lost' = lost \cup ToSet(wire) /\ faults' = faults + 1
      BY <1>11 DEF Disconnect, Fault, chatPage
    <2>2. Followed'
      BY <1>1, <1>2, <2>1 DEF Followed
    <2>3. QED
      BY <1>3, <1>4, <1>5, <1>6, <2>1, <2>2
  <1>12. CASE Reopen
    <2>1. /\ live' = "not-live" /\ history' = "asked" /\ socket' = "off" /\ lost' = {}
          /\ answer' = <<>> /\ wire' = <<>> /\ shown' = <<>> /\ faults' = faults + 1
      BY <1>12 DEF Reopen, Fault
    <2>2. Followed'
      BY <2>1 DEF Followed
    <2>3. QED
      BY <1>3, <1>5, <1>6, <2>1, <2>2, Shows
  <1>13. QED
    BY <1>7, <1>8, <1>9, <1>10, <1>11, <1>12 DEF ChatGoesOn

\* What was sent is followed to the page in every reachable state.
THEOREM MessagesFollowed == RoomSpec => []RoomInv
  <1>1. RoomInv /\ [RoomNext]_roomVars => RoomInv'
    BY OutsideChat, PostsInv, PageInv DEF RoomNext
  <1>2. QED
    BY <1>1, RoomStarts, PTL DEF RoomSpec

\* useClassChat.ts:15: a page that shows its history, is in the room and has nothing on the
\* way shows what was said, and once: however many messages were posted by however many at
\* the same time, whatever order the answer of the history and the news of the socket came
\* in, and however often connections broke, what it misses was sent while it was not in
\* the room, or erased by a history that was read before.
THEOREM ChatIsWhole == RoomSpec => []MissingIsLost
  <1>1. RoomInv => MissingIsLost
    <2> SUFFICES ASSUME RoomInv PROVE MissingIsLost
      OBVIOUS
    <2>1. IsInjective(shown) /\ shown \in Seq(Messages)
      BY DEF RoomInv, Logged, RoomTypeOK
    <2>2. ASSUME history = "shown", wire = <<>>, NEW m \in Messages, msg[m] = "sent"
          PROVE  Contains(shown, m) \/ m \in lost
      <3>1. m \in ToSet(shown) \cup ToSet(wire) \cup lost
        BY <2>2 DEF RoomInv, Followed
      <3>2. m \notin ToSet(wire)
        BY <2>2, Shows
      <3>3. QED
        BY <2>1, <3>1, <3>2, Shows
    <2>3. QED
      BY <2>1, <2>2 DEF MissingIsLost
  <1>2. QED
    BY <1>1, MessagesFollowed, PTL

\* useSessionLiveStatus.ts stops polling at "ended": the safety half of WaitingEnds.  No
\* handler or cron takes a session back from ENDED but a start() that had read it before,
\* so that a page that says the session is over is right for good.
THEOREM EndedIsFinal == RoomSpec => []EndedPageIsRight
  <1>1. RoomInit => EndedPageIsRight
    BY DEF RoomInit, EndedPageIsRight
  <1>2. EndedPageIsRight /\ [RoomNext]_roomVars => EndedPageIsRight'
    <2> SUFFICES ASSUME EndedPageIsRight, [RoomNext]_roomVars PROVE EndedPageIsRight'
      OBVIOUS
    <2>1. ASSUME NEW c \in Requests, StartReads(c) \/ EndReads(c) \/ RescheduleReads(c) \/ Write(c)
          PROVE  EndedPageIsRight'
      BY <2>1 DEF StartReads, EndReads, RescheduleReads, Admit, Write, EndedPageIsRight
    <2>2. CASE EndPasses \/ AutoEndStaleSession
      BY <2>2 DEF EndPasses, AutoEndStaleSession, EndedPageIsRight
    <2>3. CASE Poll \/ PollFails
      BY <2>3 DEF Poll, PollFails, GetRoom, session, EndedPageIsRight
    <2>4. CASE UNCHANGED <<live, session>>
      BY <2>4 DEF session, EndedPageIsRight
    <2>5. CASE Reopen
      BY <2>5 DEF Reopen, EndedPageIsRight
    <2>6. CASE AccessChanges \/ SetChatLocked \/ \E m \in Messages : Post(m) \/ PostGoesOn(m) \/ PostDies(m)
      BY <2>4, <2>6 DEF AccessChanges, SetChatLocked, Post, PostGoesOn, InsertMessage, BroadcastMessage, PostDies
    <2>7. CASE ChatGoesOn \/ Disconnect \/ UNCHANGED roomVars
      BY <2>4, <2>7 DEF ChatGoesOn, ReadHistory, ShowHistory, Join, Receive, Disconnect, roomVars
    <2>8. QED
      BY <2>1, <2>2, <2>3, <2>5, <2>6, <2>7 DEF RoomNext
  <1>3. QED
    BY <1>1, <1>2, PTL DEF RoomSpec
=============================================================================
