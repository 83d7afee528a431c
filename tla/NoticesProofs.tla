--------------------------- MODULE NoticesProofs ----------------------------
(***************************************************************************)
(* Proofs about Notices, with and without the pages: for any students,     *)
(* publications in progress, edits and faults, nobody gets an announcement *)
(* twice where no publication overlaps or repeats another, and one that    *)
(* counts as published was sent to whoever takes it, with its own words;   *)
(* the badge of the bell is never too small, and the dialog keeps its word.*)
(***************************************************************************)
EXTENDS AnnouncementPages, FiniteSetTheorems, TLAPS

IsAnn(x)  == x \in [status : {x.status}, text : {x.text}, at : {x.at}, end : {x.end},
                    high : {x.high}, to : SUBSET Users]
IsPub(x)  == x \in [pc : {"idle", "schedule", "resolve", "send"}, text : {x.text}, todo : {x.todo}]
IsTold(x) == x \in [rows : Nat, asked : Nat, mails : Nat, lost : BOOLEAN, unsent : BOOLEAN]

Shapes ==
  /\ IsAnn(ann)
  /\ pub = [p \in Publishers |-> pub[p]] /\ \A p \in Publishers : IsPub(pub[p])
  /\ told = [u \in Users |-> told[u]] /\ \A u \in Users : IsTold(told[u])

Untold(u) == told[u].rows + told[u].asked = 0 /\ told[u].mails = 0
NobodyBusy == \A p \in Publishers : ~Busy(p)

\* As long as publications come one by one, each starts with students who were told
\* nothing, and still owes those of its todo everything.
OneByOne ==
  ~again =>
    /\ \A p, q \in Publishers : Busy(p) /\ Busy(q) => p = q
    /\ cut => NobodyBusy
    /\ \A p \in Publishers : pub[p].pc \in {"schedule", "resolve"} => \A u \in Users : Untold(u)
    /\ \A p \in Publishers : pub[p].pc = "send" => \A u \in Users \cap pub[p].todo : Untold(u)
    /\ ~cut /\ NobodyBusy /\ ann.status \in {"none", "draft", "scheduled"} => \A u \in Users : Untold(u)
    /\ \A u \in Users : told[u].rows + told[u].asked <= 1 /\ told[u].mails <= 1

Reached(u) ==
  /\ prefs[u].inApp => told[u].rows + told[u].asked > 0 \/ told[u].lost
  /\ ann.high /\ prefs[u].email => told[u].mails > 0 \/ told[u].unsent

\* Every publication has reached whoever it does not owe any more.
Owed ==
  /\ \A p \in Publishers : pub[p].pc = "send" => \A u \in ann.to \ pub[p].todo : Reached(u)
  /\ ann.status \in {"published", "expired"} => \A u \in ann.to : Reached(u)

\* Once something is sent no edit is admitted that would not be told of the race.
Words ==
  /\ ~NobodyBusy \/ cut \/ sent # {} => ann.status # "none"
  /\ sent # {} => ~NobodyBusy \/ cut \/ ann.status # "draft"
  /\ ~raced => /\ ~NobodyBusy \/ sent # {} => edit = NoEdit
               /\ \A p \in Publishers : Busy(p) => pub[p].text = ann.text
               /\ sent \subseteq {ann.text}

\* The inductive invariant.
IInv ==
  /\ Shapes
  /\ OneByOne
  /\ Owed
  /\ Words

-----------------------------------------------------------------------------
(* The steps *)

\* At first nothing is sent and nobody publishes.
LEMMA Initially == Init => IInv
  <1> SUFFICES ASSUME Init PROVE IInv
    OBVIOUS
  <1>1. PICK s \in Scenarios : ann = [status |-> s.status, text |-> 0, at |-> s.at, end |-> s.end,
                                      high |-> s.high, to |-> s.to]
    BY DEF Init
  <1>2. s.to \subseteq Users /\ s.status \in {"none", "draft", "expired"} /\ (s.status = "expired" => s.to = {})
    BY ScenariosAssumption
  <1>3. /\ pub = [p \in Publishers |-> Idle] /\ edit = NoEdit /\ sent = {} /\ ~cut /\ ~again /\ ~raced
        /\ told = [u \in Users |-> [rows |-> 0, asked |-> 0, mails |-> 0, lost |-> FALSE,
                                  unsent |-> FALSE]]
    BY DEF Init
  <1>4. Shapes /\ NobodyBusy
    BY <1>1, <1>2, <1>3 DEF Shapes, IsAnn, IsPub, IsTold, Idle, NobodyBusy, Busy
  <1>5. OneByOne
    BY <1>3, <1>4 DEF OneByOne, NobodyBusy, Busy, Idle, Untold
  <1>6. Owed
    BY <1>1, <1>2, <1>3 DEF Owed, Idle
  <1>7. Words
    BY <1>1, <1>2, <1>3, <1>4 DEF Words, NobodyBusy
  <1>8. QED
    BY <1>4, <1>5, <1>6, <1>7 DEF IInv

\* The bell leaves the announcement alone.
LEMMA BellInv == ASSUME IInv, UNCHANGED pubVars PROVE IInv'
  BY DEF pubVars, IInv, Shapes, OneByOne, Owed, Words, NobodyBusy, Busy, Untold, Reached

\* A publication begins with what it reads; if none was unfinished, nobody was told yet.
LEMMA BeginInv ==
  ASSUME IInv, NEW p \in Publishers, NEW pc \in {"schedule", "resolve"}, ~Busy(p), Begin(p, pc),
         ann.status \in {"draft", "scheduled"}
  PROVE  IInv'
  <1>1. /\ pub' = [q \in Publishers |-> pub'[q]]
        /\ pub'[p] = [pc |-> pc, text |-> ann.text, todo |-> {}]
        /\ \A q \in Publishers \ {p} : pub'[q] = pub[q]
        /\ UNCHANGED <<ann, edit, prefs, told, sent, cut>>
    BY DEF Begin, IInv, Shapes
  <1>2. Shapes' /\ Busy(p)'
    BY <1>1 DEF IInv, Shapes, IsPub, Busy
  <1>3. OneByOne'
    <2>1. CASE again'
      BY <2>1 DEF OneByOne
    <2>2. CASE ~again'
      <3>1. ~again /\ ~cut /\ NobodyBusy
        BY <2>2 DEF Begin, NobodyBusy
      <3>2. \A u \in Users : Untold(u) /\ Untold(u)'
        BY <1>1, <3>1 DEF IInv, OneByOne, Untold
      <3>3. QED
        BY <1>1, <1>2, <3>1, <3>2 DEF IInv, OneByOne, NobodyBusy, Busy
    <2>3. QED
      BY <2>1, <2>2
  <1>4. Owed'
    BY <1>1 DEF IInv, Owed, Reached
  <1>5. Words'
    BY <1>1, <1>2 DEF IInv, Words, NobodyBusy, Busy, Begin
  <1>6. QED
    BY <1>2, <1>3, <1>4, <1>5 DEF IInv

\* A publisher that goes leaves the others as they are.
LEMMA Leaves ==
  ASSUME Shapes, NEW p \in Publishers, pub' = [pub EXCEPT ![p] = Idle]
  PROVE  /\ pub' = [q \in Publishers |-> pub'[q]] /\ \A q \in Publishers : IsPub(pub'[q])
         /\ ~Busy(p)' /\ pub'[p].pc = "idle"
         /\ \A q \in Publishers \ {p} : pub'[q] = pub[q] /\ Busy(q)' = Busy(q)
  BY DEF Shapes, IsPub, Idle, Busy

\* A publication ends: the status is written, if the announcement is still there.
LEMMA EndInv ==
  ASSUME IInv, NEW p \in Publishers, Schedule(p) \/ Finish(p)
  PROVE  IInv'
  <1> DEFINE status == IF ann.status = "removed" THEN "removed"
                       ELSE IF pub[p].pc = "schedule" THEN "scheduled" ELSE "published"
  <1>1. /\ pub[p].pc \in {"schedule", "send"} /\ (pub[p].pc = "send" => pub[p].todo = {})
        /\ pub' = [pub EXCEPT ![p] = Idle] /\ Busy(p)
        /\ UNCHANGED <<edit, prefs, told, sent, cut, again, raced>>
    BY DEF Schedule, Finish, Busy
  <1>2. /\ IsAnn(ann') /\ ann'.status = status
        /\ ann'.to = ann.to /\ ann'.text = ann.text /\ ann'.high = ann.high
    BY DEF Schedule, Finish, IInv, Shapes, IsAnn
  <1>3. /\ pub' = [q \in Publishers |-> pub'[q]] /\ \A q \in Publishers : IsPub(pub'[q])
        /\ ~Busy(p)' /\ pub'[p].pc = "idle"
        /\ \A q \in Publishers \ {p} : pub'[q] = pub[q] /\ Busy(q)' = Busy(q)
    BY <1>1, Leaves DEF IInv
  <1>4. Shapes'
    BY <1>1, <1>2, <1>3 DEF IInv, Shapes
  <1>5. OneByOne'
    BY <1>1, <1>2, <1>3 DEF IInv, OneByOne, NobodyBusy, Untold
  <1>6. Owed'
    BY <1>1, <1>2, <1>3 DEF IInv, Owed, Reached
  <1>7. Words'
    BY <1>1, <1>2, <1>3 DEF IInv, Words, NobodyBusy
  <1>8. QED
    BY <1>4, <1>5, <1>6, <1>7 DEF IInv

\* A publication is cut off: what it sent stays sent.
LEMMA ThrowsInv ==
  ASSUME IInv, NEW p \in Publishers, Throws(p)
  PROVE  IInv'
  <1>1. /\ pub' = [pub EXCEPT ![p] = Idle] /\ Busy(p) /\ cut'
        /\ UNCHANGED <<ann, edit, prefs, told, sent, again, raced>>
    BY DEF Throws, Busy
  <1>3. /\ pub' = [q \in Publishers |-> pub'[q]] /\ \A q \in Publishers : IsPub(pub'[q])
        /\ ~Busy(p)' /\ pub'[p].pc = "idle"
        /\ \A q \in Publishers \ {p} : pub'[q] = pub[q] /\ Busy(q)' = Busy(q)
    BY <1>1, Leaves DEF IInv
  <1>4. Shapes'
    BY <1>1, <1>3 DEF IInv, Shapes
  <1>5. OneByOne'
    BY <1>1, <1>3 DEF IInv, OneByOne, NobodyBusy, Untold
  <1>6. Owed'
    BY <1>1, <1>3 DEF IInv, Owed, Reached
  <1>7. Words'
    BY <1>1, <1>3 DEF IInv, Words, NobodyBusy
  <1>8. QED
    BY <1>4, <1>5, <1>6, <1>7 DEF IInv

\* The recipients are read: nobody was told, and everybody is owed.
LEMMA ResolveInv ==
  ASSUME IInv, NEW p \in Publishers, Resolve(p)
  PROVE  IInv'
  <1>1. /\ pub' = [q \in Publishers |-> pub'[q]]
        /\ pub'[p] = [pc |-> "send", text |-> pub[p].text, todo |-> ann.to]
        /\ \A q \in Publishers \ {p} : pub'[q] = pub[q]
        /\ pub[p].pc = "resolve"
        /\ UNCHANGED <<ann, edit, prefs, told, sent, cut, again, raced>>
    BY DEF Resolve, IInv, Shapes, IsPub
  <1>2. Shapes' /\ Busy(p) /\ \A q \in Publishers : Busy(q)' = Busy(q)
    BY <1>1 DEF IInv, Shapes, IsPub, Busy
  <1>3. OneByOne'
    BY <1>1, <1>2 DEF IInv, OneByOne, NobodyBusy, Untold
  <1>4. Owed'
    BY <1>1 DEF IInv, Owed, Reached
  <1>5. Words'
    BY <1>1, <1>2 DEF IInv, Words, NobodyBusy
  <1>6. QED
    BY <1>2, <1>3, <1>4, <1>5 DEF IInv

\* One turn of the loop: whoever is told was owed it, and is told the words read.
LEMMA DeliverInv ==
  ASSUME IInv, NEW p \in Publishers, NEW u \in Users, NEW mail \in Mailings, Deliver(p, u, mail)
  PROVE  IInv'
  <1>1. /\ pub' = [q \in Publishers |-> pub'[q]]
        /\ pub'[p] = [pc |-> "send", text |-> pub[p].text, todo |-> pub[p].todo \ {u}]
        /\ \A q \in Publishers \ {p} : pub'[q] = pub[q]
        /\ pub[p].pc = "send" /\ u \in pub[p].todo /\ (mail = "none" <=> ~SendsMail(u))
        /\ UNCHANGED <<ann, edit, prefs, cut, again, raced>>
    BY DEF Deliver, IInv, Shapes, IsPub
  <1>2. /\ told' = [v \in Users |-> told'[v]]
        /\ \A v \in Users \ {u} : told'[v] = told[v]
        /\ told'[u].rows = told[u].rows /\ told'[u].lost = told[u].lost
        /\ told'[u].asked = IF AsksRow(u) THEN told[u].asked + 1 ELSE told[u].asked
        /\ told'[u].mails = IF Mailed(mail) THEN told[u].mails + 1 ELSE told[u].mails
        /\ told'[u].unsent = (told[u].unsent \/ MailFails(mail))
        /\ IsTold(told'[u])
    <2> DEFINE asked == IF AsksRow(u) THEN told[u].asked + 1 ELSE told[u].asked
               mails == IF Mailed(mail) THEN told[u].mails + 1 ELSE told[u].mails
               fails == told[u].unsent \/ MailFails(mail)
               r     == [rows |-> told[u].rows, asked |-> asked, mails |-> mails,
                         lost |-> told[u].lost, unsent |-> fails]
    <2>1. IsTold(told[u]) /\ told = [v \in Users |-> told[v]]
      BY DEF IInv, Shapes
    <2>2. told' = [told EXCEPT ![u].asked = asked, ![u].mails = mails, ![u].unsent = fails]
      BY DEF Deliver
    <2>3. asked \in Nat /\ mails \in Nat /\ fails \in BOOLEAN
      BY <2>1 DEF IsTold, MailFails
    <2> HIDE DEF asked, mails, fails
    <2>4. told' = [v \in Users |-> told'[v]] /\ \A v \in Users \ {u} : told'[v] = told[v]
      BY <2>1, <2>2
    <2>5. told'[u] = [[[told[u] EXCEPT !.asked = asked] EXCEPT !.mails = mails] EXCEPT !.unsent = fails]
      BY <2>1, <2>2
    <2>6. told'[u] = r
      BY <2>1, <2>5 DEF IsTold
    <2>7. IsTold(r) /\ r.asked = asked /\ r.mails = mails /\ r.rows = told[u].rows
          /\ r.lost = told[u].lost /\ r.unsent = fails
      BY <2>1, <2>3 DEF IsTold
    <2>8. QED
      BY <2>4, <2>6, <2>7 DEF asked, mails, fails
  <1>3. Shapes' /\ Busy(p) /\ \A q \in Publishers : Busy(q)' = Busy(q)
    BY <1>1, <1>2 DEF IInv, Shapes, IsPub, Busy
  <1>4. sent' \subseteq sent \cup {pub[p].text}
    BY DEF Deliver
  <1>5. OneByOne'
    <2>1. CASE again'
      BY <2>1 DEF OneByOne
    <2>2. CASE ~again'
      <3>1. ~again /\ ~cut /\ Untold(u) /\ \A q \in Publishers : Busy(q) => q = p
        BY <1>1, <1>3, <2>2 DEF IInv, OneByOne, NobodyBusy
      <3>2. told'[u].rows + told'[u].asked <= 1 /\ told'[u].mails <= 1
        BY <1>2, <3>1 DEF IInv, Shapes, IsTold, Untold
      <3>3. QED
        BY <1>1, <1>2, <1>3, <3>1, <3>2 DEF IInv, OneByOne, NobodyBusy, Untold, Busy
    <2>3. QED
      BY <2>1, <2>2
  <1>6. Owed'
    <2>1. Reached(u)'
      BY <1>1, <1>2 DEF Reached, AsksRow, SendsMail, Mailings, Mailed, MailFails, Enabled,
                        IInv, Shapes, IsTold
    <2>2. \A v \in Users \ {u} : Reached(v)' = Reached(v)
      BY <1>1, <1>2 DEF Reached
    <2>3. ann.to \subseteq Users
      BY DEF IInv, Shapes, IsAnn
    <2>4. QED
      BY <1>1, <2>1, <2>2, <2>3 DEF IInv, Owed
  <1>7. Words'
    BY <1>1, <1>3, <1>4 DEF IInv, Words, NobodyBusy
  <1>8. QED
    BY <1>3, <1>5, <1>6, <1>7 DEF IInv

\* The announcement is created, removed, or expires, or its time comes: its words and its
\* recipients stay, and nothing becomes a draft but the announcement that was not there.
LEMMA StatusInv ==
  ASSUME IInv, (\E at : Create(at)) \/ Remove \/ SweepExpired \/ Time
  PROVE  IInv'
  <1>1. UNCHANGED <<pub, edit, prefs, told, sent, cut, again, raced>>
    BY DEF Create, Remove, SweepExpired, Time
  <1>2. /\ IsAnn(ann') /\ ann'.to = ann.to /\ ann'.text = ann.text /\ ann'.high = ann.high
        /\ \/ ann'.status = ann.status
           \/ ann.status = "none" /\ ann'.status = "draft"
           \/ ann.status # "none" /\ ann'.status = "removed"
           \/ ann.status = "published" /\ ann'.status = "expired"
    BY DEF Create, Remove, SweepExpired, Time, IInv, Shapes, IsAnn
  <1>3. Shapes'
    BY <1>1, <1>2 DEF IInv, Shapes
  <1>4. OneByOne'
    BY <1>1, <1>2 DEF IInv, OneByOne, NobodyBusy, Busy, Untold
  <1>5. Owed'
    BY <1>1, <1>2 DEF IInv, Owed, Reached
  <1>6. Words'
    BY <1>1, <1>2 DEF IInv, Words, NobodyBusy, Busy
  <1>7. QED
    BY <1>3, <1>4, <1>5, <1>6 DEF IInv

\* An edit is admitted to a draft only, and is a race if anything is under way or was cut off.
LEMMA EditInv ==
  ASSUME IInv, (\E at : EditRead(at)) \/ EditWrite
  PROVE  IInv'
  <1>1. UNCHANGED <<pub, prefs, told, sent, cut, again>>
    BY DEF EditRead, EditWrite
  <1>2. /\ IsAnn(ann') /\ ann'.to = ann.to /\ ann'.status = ann.status /\ ann'.high = ann.high
    BY DEF EditRead, EditWrite, IInv, Shapes, IsAnn
  <1>3. Shapes'
    BY <1>1, <1>2 DEF IInv, Shapes
  <1>4. OneByOne'
    BY <1>1, <1>2 DEF IInv, OneByOne, NobodyBusy, Busy, Untold
  <1>5. Owed'
    BY <1>1, <1>2 DEF IInv, Owed, Reached
  <1>6. Words'
    BY <1>1, <1>2 DEF IInv, Words, NobodyBusy, Busy, EditRead, EditWrite
  <1>7. QED
    BY <1>3, <1>4, <1>5, <1>6 DEF IInv

\* A row that was asked for is inserted, or its insert fails.
LEMMA ToldInv ==
  ASSUME IInv, NEW u \in Users, Insert(u) \/ InsertFails(u)
  PROVE  IInv'
  <1>1. UNCHANGED <<ann, pub, edit, prefs, sent, cut, again, raced>> /\ told[u].asked > 0
    BY DEF Insert, InsertFails
  <1>2. /\ told' = [v \in Users |-> told'[v]]
        /\ \A v \in Users \ {u} : told'[v] = told[v]
        /\ told'[u].mails = told[u].mails /\ told'[u].unsent = told[u].unsent
        /\ \/ told'[u].rows + told'[u].asked = told[u].rows + told[u].asked /\ told'[u].lost = told[u].lost
           \/ told'[u].rows + told'[u].asked <= told[u].rows + told[u].asked /\ told'[u].lost
        /\ IsTold(told'[u])
    <2>1. IsTold(told[u]) /\ told = [v \in Users |-> told[v]]
      BY DEF IInv, Shapes
    <2>2. CASE Insert(u)
      <3> DEFINE r == [rows |-> told[u].rows + 1, asked |-> told[u].asked - 1,
                       mails |-> told[u].mails, lost |-> told[u].lost,
                       unsent |-> told[u].unsent]
      <3>1. told' = [told EXCEPT ![u].asked = @ - 1, ![u].rows = @ + 1]
        BY <2>2 DEF Insert
      <3>2. told' = [v \in Users |-> told'[v]] /\ \A v \in Users \ {u} : told'[v] = told[v]
        BY <2>1, <3>1
      <3>3. told'[u] = r
        BY <2>1, <3>1 DEF IsTold
      <3>4. /\ IsTold(r) /\ r.rows + r.asked = told[u].rows + told[u].asked
            /\ r.mails = told[u].mails /\ r.lost = told[u].lost /\ r.unsent = told[u].unsent
        BY <1>1, <2>1 DEF IsTold
      <3>5. QED
        BY <3>2, <3>3, <3>4
    <2>3. CASE InsertFails(u)
      <3> DEFINE r == [rows |-> told[u].rows, asked |-> told[u].asked - 1,
                       mails |-> told[u].mails, lost |-> TRUE,
                       unsent |-> told[u].unsent]
      <3>1. told' = [told EXCEPT ![u].asked = @ - 1, ![u].lost = TRUE]
        BY <2>3 DEF InsertFails
      <3>2. told' = [v \in Users |-> told'[v]] /\ \A v \in Users \ {u} : told'[v] = told[v]
        BY <2>1, <3>1
      <3>3. told'[u] = r
        BY <2>1, <3>1 DEF IsTold
      <3>4. IsTold(r) /\ r.rows + r.asked <= told[u].rows + told[u].asked /\ r.lost
            /\ r.mails = told[u].mails /\ r.unsent = told[u].unsent
        BY <1>1, <2>1 DEF IsTold
      <3>5. QED
        BY <3>2, <3>3, <3>4
    <2>4. QED
      BY <2>2, <2>3
  <1>3. Shapes'
    BY <1>1, <1>2 DEF IInv, Shapes
  <1>4. ~Untold(u) /\ told[u].rows + told[u].asked > 0
    BY <1>1 DEF IInv, Shapes, IsTold, Untold
  <1>5. OneByOne'
    <2>1. \A v \in Users \ {u} : Untold(v)' = Untold(v)
      BY <1>2 DEF Untold
    <2>2. CASE again
      BY <1>1, <2>2 DEF OneByOne
    <2>3. CASE ~again
      <3>1. told'[u].rows + told'[u].asked <= 1
        BY <1>2, <2>3 DEF IInv, OneByOne, Shapes, IsTold
      <3>2. QED
        BY <1>1, <1>2, <1>4, <2>1, <2>3, <3>1 DEF IInv, OneByOne, NobodyBusy, Busy
    <2>4. QED
      BY <2>2, <2>3
  <1>6. Owed'
    <2>1. \A v \in Users \ {u} : Reached(v)' = Reached(v)
      BY <1>1, <1>2 DEF Reached
    <2>2. Reached(u) => Reached(u)'
      BY <1>1, <1>2, <1>4 DEF Reached
    <2>3. ann.to \subseteq Users
      BY DEF IInv, Shapes, IsAnn
    <2>4. QED
      BY <1>1, <2>1, <2>2, <2>3 DEF IInv, Owed
  <1>7. Words'
    BY <1>1 DEF IInv, Words, NobodyBusy, Busy
  <1>8. QED
    BY <1>3, <1>5, <1>6, <1>7 DEF IInv

\* A restart ends every publication, and loses the rows that were only asked for.
LEMMA RestartInv ==
  ASSUME IInv, Restart
  PROVE  IInv'
  <1>1. /\ pub' = [p \in Publishers |-> Idle] /\ edit' = NoEdit
        /\ cut' = (cut \/ ~NobodyBusy)
        /\ UNCHANGED <<ann, prefs, sent, again, raced>>
    BY DEF Restart, NobodyBusy
  <1>2. /\ told' = [u \in Users |-> told'[u]]
        /\ \A u \in Users :
             /\ told'[u].rows = told[u].rows /\ told'[u].mails = told[u].mails
             /\ told'[u].unsent = told[u].unsent
             /\ told'[u].asked = 0 /\ told'[u].lost = (told[u].lost \/ told[u].asked > 0)
             /\ IsTold(told'[u])
    BY DEF Restart, IInv, Shapes, IsTold
  <1>3. Shapes' /\ NobodyBusy' /\ \A p \in Publishers : pub'[p].pc = "idle"
    BY <1>1, <1>2 DEF IInv, Shapes, IsPub, Idle, NobodyBusy, Busy
  <1>4. \A u \in Users : /\ Untold(u) => Untold(u)'
                         /\ told'[u].rows + told'[u].asked <= told[u].rows + told[u].asked
    BY <1>2 DEF Untold, IInv, Shapes, IsTold
  <1>5. OneByOne'
    <2>1. CASE again
      BY <1>1, <2>1 DEF OneByOne
    <2>2. CASE ~again
      <3>1. \A u \in Users : told'[u].rows + told'[u].asked <= 1 /\ told'[u].mails <= 1
        BY <1>2, <2>2 DEF IInv, OneByOne, Shapes, IsTold
      <3>2. QED
        BY <1>1, <1>3, <1>4, <2>2, <3>1 DEF IInv, OneByOne, NobodyBusy, Busy
    <2>3. QED
      BY <2>1, <2>2
  <1>6. Owed'
    <2>1. \A u \in Users : Reached(u) => Reached(u)'
      BY <1>1, <1>2 DEF Reached, IInv, Shapes, IsTold
    <2>2. ann.to \subseteq Users
      BY DEF IInv, Shapes, IsAnn
    <2>3. QED
      BY <1>1, <1>3, <2>1, <2>2 DEF IInv, Owed
  <1>7. Words'
    BY <1>1, <1>3 DEF IInv, Words, NobodyBusy, Busy
  <1>8. QED
    BY <1>3, <1>5, <1>6, <1>7 DEF IInv

-----------------------------------------------------------------------------
(* The invariant *)

\* Whatever the service does, and whatever time an administrator enters in a form.
LEMMA StepInv ==
  ASSUME IInv, [Next \/ (\E at : Create(at) \/ EditRead(at))]_vars
  PROVE  IInv'
  <1>1. CASE UNCHANGED vars
    BY <1>1, BellInv DEF vars, pubVars
  <1>2. ASSUME NEW p \in Publishers, Publish(p) \/ Sweep(p) \/ Running(p) \/ Throws(p)
        PROVE  IInv'
    <2>1. CASE Publish(p) \/ Sweep(p)
      BY <2>1, BeginInv DEF Publish, Sweep
    <2>2. CASE Running(p)
      BY <2>2, ResolveInv, EndInv, DeliverInv DEF Running
    <2>3. QED
      BY <1>2, <2>1, <2>2, ThrowsInv
  <1>3. CASE \E at : Create(at) \/ EditRead(at)
    BY <1>3, StatusInv, EditInv
  <1>4. CASE EditWrite \/ Remove \/ SweepExpired \/ Time
    BY <1>4, StatusInv, EditInv
  <1>5. CASE Stream \/ \E u \in Users : InsertFails(u)
    BY <1>5, ToldInv, BellInv DEF Stream, InsertOther, Emit, Mark
  <1>6. CASE Restart
    BY <1>6, RestartInv
  <1>7. CASE \/ Consume \/ \E n \in bell.inbox : Receive(n)
             \/ LinkOpens \/ LinkFails
             \/ Poll \/ ReadUnread \/ Refreshed \/ RefreshFails
             \/ \E n \in bell.fresh : Click(n)
             \/ MarkAllRead \/ \E n \in unread : DeleteRow(n)
    BY <1>7, BellInv DEF Consume, Receive, LinkOpens, LinkFails, Poll, ReadUnread, Refreshed,
       RefreshFails, Click, MarkAllRead, DeleteRow
  <1>8. QED
    BY <1>1, <1>2, <1>3, <1>4, <1>5, <1>6, <1>7 DEF Next

\* What the pages do to the service is a step of the service, with the times of the form.
LEMMA PagesAsk ==
  ASSUME [(desk = "requests" /\ Next /\ UNCHANGED pageVars) \/ PagesNext]_siteVars
  PROVE  [Next \/ (\E at : Create(at) \/ EditRead(at))]_vars
  <1>1. CASE UNCHANGED siteVars
    BY <1>1 DEF siteVars
  <1>2. CASE OpenList \/ Choose \/ OpenCreate \/ OpenDetail \/ Saved \/ OpenConfirm \/ Counted
             \/ CloseModal \/ Leave \/ \E p \in Publishers : Published(p)
    BY <1>2 DEF OpenList, Choose, OpenCreate, OpenDetail, Saved, OpenConfirm, Counted, CloseModal,
       Leave, Published
  <1>3. CASE DeleteChosen \/ Delete
    BY <1>3 DEF DeleteChosen, Delete, Next
  <1>4. CASE (\E v \in Entered : SubmitNew(v)) \/ (\E v \in Entered \cup Refilled : SubmitEdit(v))
    BY <1>4 DEF SubmitNew, SubmitEdit
  <1>5. CASE \E p \in Publishers : Confirm(p)
    BY <1>5 DEF Confirm, Next
  <1>6. CASE desk = "pages" /\ Goes /\ UNCHANGED pageVars
    BY <1>6 DEF Goes, Next
  <1>7. QED
    BY <1>1, <1>2, <1>3, <1>4, <1>5, <1>6 DEF PagesNext

\* The inductive invariant holds of the service with the pages, hence without them too.
THEOREM Inductive == PagesSpec => []IInv
  <1>1. PagesInit => IInv
    BY Initially DEF PagesInit
  <1>2. IInv /\ [(desk = "requests" /\ Next /\ UNCHANGED pageVars) \/ PagesNext]_siteVars => IInv'
    BY StepInv, PagesAsk
  <1>3. QED
    BY <1>1, <1>2, PTL DEF PagesSpec

\* NobodyTwice: nobody gets an announcement twice, in the bell or by mail, as long as no
\* call of doPublish began while another ran or after one was cut off.
THEOREM ToldOnce == PagesSpec => []NobodyTwice
  <1>1. IInv => NobodyTwice
    BY DEF IInv, OneByOne, NobodyTwice
  <1>2. QED
    BY <1>1, Inductive, PTL

\* PublishedIsTrue: an announcement that doPublish has marked as published was sent to
\* every recipient who takes it, in the app and by mail: nobody is left out, and whoever has
\* no row or no mail is one whose insert or whose mail failed.  And no words were sent but
\* those stored, races with an edit aside.
THEOREM PublishedWasTold == PagesSpec => []PublishedIsTrue
  <1>1. IInv => PublishedIsTrue
    BY DEF IInv, Owed, Words, Reached, PublishedIsTrue
  <1>2. QED
    BY <1>1, Inductive, PTL

-----------------------------------------------------------------------------
(* The badge *)

IsBell(x)  == x \in [count : Nat, fresh : SUBSET (1 .. rows), inbox : SUBSET (1 .. rows),
                     errors : {x.errors}, link : {x.link}]
IsFetch(x) == x = <<>> \/ x \in [read : BOOLEAN, seen : SUBSET (1 .. rows), rows : 0 .. rows]

\* Where an unread row is, if nothing was missed: shown as new, on its way to the bell,
\* or on its way to being marked.
Known == bell.fresh \cup bell.inbox \cup news \cup marks

\* A read of the unread rows has all that were there, and the badge counts what is new.
BadgeInv ==
  /\ rows \in Nat /\ unread \cup news \subseteq 1 .. rows
  /\ IsBell(bell) /\ IsFetch(fetch)
  /\ Cardinality(bell.fresh) <= bell.count
  /\ fetch # <<>> => (fetch.read => \A n \in unread : n <= fetch.rows => n \in fetch.seen)
  /\ ~missed => unread \subseteq Known

\* The rows up to the last are finitely many.
LEMMA RowsFinite ==
  ASSUME rows \in Nat, NEW S \in SUBSET (1 .. rows)
  PROVE  IsFiniteSet(S) /\ Cardinality(S) \in Nat
  <1>1. IsFiniteSet(1 .. rows)
    BY FS_Interval
  <1>2. QED
    BY <1>1, FS_Subset, FS_CardinalityType

\* At first there is no row.
LEMMA BellInitially == Init => BadgeInv
  <1> SUFFICES ASSUME Init PROVE BadgeInv
    OBVIOUS
  <1>1. /\ rows = 0 /\ unread = {} /\ bell.fresh = {} /\ bell.count = 0
        /\ IsBell(bell) /\ news = {}
    <2>1. PICK s \in Scenarios :
            bell = [count |-> 0, fresh |-> {}, inbox |-> {}, errors |-> 0,
                    link |-> IF s.watched THEN "opening" ELSE "closed"]
      BY DEF Init
    <2>2. QED
      BY <2>1 DEF Init, IsBell
  <1>2. IsFetch(fetch) /\ (fetch # <<>> => ~fetch.read)
    BY <1>1 DEF Init, IsFetch, NewFetch
  <1>3. Cardinality(bell.fresh) <= bell.count
    BY <1>1, FS_EmptySet
  <1>4. QED
    BY <1>1, <1>2, <1>3 DEF BadgeInv

\* A row for the watcher is unread, and the stream is to be told of it.
LEMMA NewRowBell ==
  ASSUME BadgeInv, NewRow, UNCHANGED <<bell, fetch, marks, missed>>
  PROVE  BadgeInv'
  <1>1. /\ rows' = rows + 1 /\ rows' \in Nat /\ 1 .. rows \subseteq 1 .. rows'
        /\ 0 .. rows \subseteq 0 .. rows' /\ rows + 1 \in 1 .. rows'
    BY DEF BadgeInv, NewRow
  <1>2. unread' = unread \cup {rows + 1} /\ news' = news \cup {rows + 1}
    BY DEF NewRow
  <1>3. IsBell(bell)' /\ IsFetch(fetch)'
    BY <1>1 DEF BadgeInv, IsBell, IsFetch
  <1>4. fetch # <<>> => fetch.rows \in Nat /\ fetch.rows < rows + 1
    BY DEF BadgeInv, IsFetch
  <1>5. fetch # <<>> => (fetch.read => \A n \in unread' : n <= fetch.rows => n \in fetch.seen)
    BY <1>2, <1>4 DEF BadgeInv
  <1>6. ~missed => unread' \subseteq Known'
    BY <1>2 DEF BadgeInv, Known
  <1>7. QED
    BY <1>1, <1>2, <1>3, <1>5, <1>6 DEF BadgeInv

\* A step that leaves the bell's own state alone, brings no row, and loses none unnoticed.
LEMMA LessUnread ==
  ASSUME BadgeInv, UNCHANGED <<rows, news, bell, fetch>>, unread' \subseteq unread,
         ~missed' => ~missed /\ unread' \subseteq Known'
  PROVE  BadgeInv'
  BY DEF BadgeInv, IsBell, IsFetch

\* What the stream and the browser do to the bell's link; the badge stays.
LEMMA LinkBell ==
  ASSUME BadgeInv, UNCHANGED <<rows, unread, marks>>, IsBell(bell'), news' \subseteq news,
         bell'.count = bell.count, bell'.fresh = bell.fresh,
         fetch' = fetch \/ fetch' = <<>> \/ fetch' = NewFetch,
         ~missed' => ~missed /\ news \cup bell.inbox \subseteq news' \cup bell'.inbox
  PROVE  BadgeInv'
  <1>1. IsBell(bell)'
    BY DEF IsBell
  <1>2. IsFetch(fetch)' /\ (fetch' = NewFetch => ~fetch'.read)
    <2>1. NewFetch \in [read : BOOLEAN, seen : SUBSET (1 .. rows), rows : 0 .. rows] /\ ~NewFetch.read
      BY DEF BadgeInv, NewFetch
    <2>2. QED
      BY <2>1 DEF BadgeInv, IsFetch
  <1>3. ~missed' => unread' \subseteq Known'
    BY DEF BadgeInv, Known
  <1>4. QED
    BY <1>1, <1>2, <1>3 DEF BadgeInv

\* An update of some fields of the bell.
LEMMA BellFields ==
  ASSUME BadgeInv, NEW errors, NEW link, NEW inbox \in SUBSET (1 .. rows)
  PROVE  LET b == [bell EXCEPT !.errors = errors, !.link = link, !.inbox = inbox]
         IN  /\ IsBell(b) /\ b.count = bell.count /\ b.fresh = bell.fresh
             /\ b.inbox = inbox
  BY DEF BadgeInv, IsBell

\* A message of the stream counts one more, and is shown as new.
LEMMA ReceiveBell ==
  ASSUME BadgeInv, NEW n \in bell.inbox, Receive(n)
  PROVE  BadgeInv'
  <1>1. /\ UNCHANGED <<rows, unread, news, fetch, marks, missed>>
        /\ bell' = [bell EXCEPT !.inbox = @ \ {n}, !.count = @ + 1, !.fresh = @ \cup {n}]
    BY DEF Receive
  <1>2. bell \in [count : Nat, fresh : SUBSET (1 .. rows), inbox : SUBSET (1 .. rows),
                  errors : {bell.errors}, link : {bell.link}]
    BY DEF BadgeInv, IsBell
  <1>3. /\ IsBell(bell') /\ bell'.count = bell.count + 1
        /\ bell'.fresh = bell.fresh \cup {n} /\ bell'.inbox = bell.inbox \ {n}
    <2> DEFINE more  == bell.count + 1
               fresh == bell.fresh \cup {n}
               inbox == bell.inbox \ {n}
    <2>1. more \in Nat /\ fresh \in SUBSET (1 .. rows) /\ inbox \in SUBSET (1 .. rows)
      BY <1>2
    <2>2. bell' = [bell EXCEPT !.inbox = inbox, !.count = more, !.fresh = fresh]
      BY <1>1
    <2> HIDE DEF more, fresh, inbox
    <2>3. IsBell(bell') /\ bell'.count = more /\ bell'.fresh = fresh /\ bell'.inbox = inbox
      BY <1>2, <2>1, <2>2 DEF IsBell
    <2>4. QED
      BY <2>3 DEF more, fresh, inbox
  <1>4. Cardinality(bell'.fresh) <= bell'.count
    <2>1. rows \in Nat /\ IsFiniteSet(bell.fresh) /\ Cardinality(bell.fresh) \in Nat
      BY <1>2, RowsFinite DEF BadgeInv
    <2>2. Cardinality(bell.fresh \cup {n}) =
            IF n \in bell.fresh THEN Cardinality(bell.fresh) ELSE Cardinality(bell.fresh) + 1
      BY <2>1, FS_AddElement, Zenon
    <2>3. QED
      BY <1>2, <1>3, <2>1, <2>2 DEF BadgeInv
  <1>5. ~missed' => unread' \subseteq Known'
    BY <1>1, <1>3 DEF BadgeInv, Known
  <1>6. IsBell(bell)' /\ IsFetch(fetch)'
    BY <1>1, <1>3 DEF BadgeInv, IsBell, IsFetch
  <1>7. QED
    BY <1>1, <1>4, <1>5, <1>6 DEF BadgeInv

\* A click takes one off the badge, and out of what is shown as new.
LEMMA ClickBell ==
  ASSUME BadgeInv, NEW n \in bell.fresh, Click(n)
  PROVE  BadgeInv'
  <1>1. /\ UNCHANGED <<rows, unread, news, fetch, missed>> /\ marks' = marks \cup {n}
        /\ bell' = [bell EXCEPT !.count = IF @ = 0 THEN 0 ELSE @ - 1, !.fresh = @ \ {n}]
    BY DEF Click
  <1>2. bell \in [count : Nat, fresh : SUBSET (1 .. rows), inbox : SUBSET (1 .. rows),
                  errors : {bell.errors}, link : {bell.link}]
    BY DEF BadgeInv, IsBell
  <1>3. /\ IsFiniteSet(bell.fresh) /\ Cardinality(bell.fresh) \in Nat
        /\ Cardinality(bell.fresh \ {n}) = Cardinality(bell.fresh) - 1
        /\ Cardinality(bell.fresh \ {n}) \in Nat
    <2>1. rows \in Nat /\ IsFiniteSet(bell.fresh) /\ Cardinality(bell.fresh) \in Nat
      BY <1>2, RowsFinite DEF BadgeInv
    <2>2. Cardinality(bell.fresh \ {n}) = Cardinality(bell.fresh) - 1 /\ IsFiniteSet(bell.fresh \ {n})
      BY <2>1, FS_RemoveElement
    <2>3. QED
      BY <2>1, <2>2, FS_CardinalityType
  <1>4. bell.count \in Nat /\ bell.count > 0
    BY <1>2, <1>3 DEF BadgeInv
  <1>5. /\ IsBell(bell') /\ bell'.count = bell.count - 1
        /\ bell'.fresh = bell.fresh \ {n} /\ bell'.inbox = bell.inbox
    <2> DEFINE less == IF bell.count = 0 THEN 0 ELSE bell.count - 1
    <2>1. less \in Nat /\ less = bell.count - 1
      BY <1>4
    <2>2. bell' = [bell EXCEPT !.count = less, !.fresh = bell.fresh \ {n}]
      BY <1>1
    <2> HIDE DEF less
    <2>3. QED
      BY <1>2, <2>1, <2>2 DEF IsBell
  <1>6. Cardinality(bell'.fresh) <= bell'.count
    BY <1>3, <1>4, <1>5 DEF BadgeInv
  <1>7. ~missed' => unread' \subseteq Known'
    BY <1>1, <1>5 DEF BadgeInv, Known
  <1>8. IsBell(bell)' /\ IsFetch(fetch)'
    BY <1>1, <1>5 DEF BadgeInv, IsBell, IsFetch
  <1>9. QED
    BY <1>1, <1>6, <1>7, <1>8 DEF BadgeInv

\* The answers of refresh() replace the badge: they have every unread row that was there
\* when they were read, and later ones are on their way, or were missed.
LEMMA RefreshedBell ==
  ASSUME BadgeInv, Refreshed
  PROVE  BadgeInv'
  <1>1. /\ UNCHANGED <<rows, unread, news, marks>> /\ fetch' = <<>>
        /\ bell' = [bell EXCEPT !.count = Cardinality(fetch.seen), !.fresh = fetch.seen]
        /\ missed' = (\E n \in (fetch.rows + 1) .. rows : n \notin news \cup bell.inbox)
        /\ fetch # <<>> /\ fetch.read
    BY DEF Refreshed
  <1>2. /\ bell \in [count : Nat, fresh : SUBSET (1 .. rows), inbox : SUBSET (1 .. rows),
                     errors : {bell.errors}, link : {bell.link}]
        /\ fetch.seen \in SUBSET (1 .. rows) /\ fetch.rows \in 0 .. rows /\ rows \in Nat
        /\ \A n \in unread : n <= fetch.rows => n \in fetch.seen
        /\ unread \subseteq 1 .. rows
    BY <1>1 DEF BadgeInv, IsBell, IsFetch
  <1>3. Cardinality(fetch.seen) \in Nat
    BY <1>2, RowsFinite
  <1>4. /\ IsBell(bell') /\ bell'.count = Cardinality(fetch.seen)
        /\ bell'.fresh = fetch.seen /\ bell'.inbox = bell.inbox
    BY <1>1, <1>2, <1>3 DEF IsBell
  <1>5. ~missed' => unread' \subseteq Known'
    <2>1. SUFFICES ASSUME ~missed', NEW n \in unread
                   PROVE  n \in fetch.seen \cup news \cup bell.inbox
      BY <1>1, <1>4 DEF Known
    <2>2. CASE n <= fetch.rows
      BY <1>2, <2>2
    <2>3. CASE ~(n <= fetch.rows)
      <3>1. n \in (fetch.rows + 1) .. rows
        BY <1>2, <2>3
      <3>2. QED
        BY <1>1, <2>1, <3>1
    <2>4. QED
      BY <2>2, <2>3
  <1>6. IsBell(bell)' /\ IsFetch(fetch)'
    BY <1>1, <1>4 DEF IsBell, IsFetch
  <1>7. Cardinality(bell'.fresh) <= bell'.count
    BY <1>3, <1>4
  <1>8. QED
    BY <1>1, <1>2, <1>5, <1>6, <1>7 DEF BadgeInv

\* refresh() reads every unread row there is.
LEMMA ReadBell ==
  ASSUME BadgeInv, ReadUnread
  PROVE  BadgeInv'
  <1>1. /\ UNCHANGED <<rows, unread, news, bell, marks, missed>>
        /\ fetch' = [read |-> TRUE, seen |-> unread, rows |-> rows]
    BY DEF ReadUnread
  <1>2. IsFetch(fetch)' /\ fetch'.seen = unread
    BY <1>1 DEF BadgeInv, IsFetch
  <1>3. QED
    BY <1>1, <1>2 DEF BadgeInv, IsBell, Known

\* The stream tells whoever listens, opens, breaks, or goes with the service.
LEMMA StreamBell ==
  ASSUME BadgeInv, (\E n \in news : Emit(n)) \/ LinkOpens \/ LinkFails \/ Restart
  PROVE  BadgeInv'
  <1>1. UNCHANGED <<rows, unread, marks>>
    BY DEF Emit, LinkOpens, LinkFails, Restart
  <1>2. bell \in [count : Nat, fresh : SUBSET (1 .. rows), inbox : SUBSET (1 .. rows),
                  errors : {bell.errors}, link : {bell.link}]
    BY DEF BadgeInv, IsBell
  <1>3. CASE \E n \in news : Emit(n)
    <2>1. PICK n \in news : Emit(n)
      BY <1>3
    <2> DEFINE inbox == bell.inbox \cup {n}
    <2>2. inbox \in SUBSET (1 .. rows)
      BY <1>2, <2>1 DEF BadgeInv
    <2>3. news' = news \ {n} /\ fetch' = fetch
      BY <2>1 DEF Emit
    <2>4. CASE bell.link = "open"
      <3>1. bell' = [bell EXCEPT !.inbox = inbox] /\ missed' = missed
        BY <2>1, <2>4 DEF Emit
      <3>2. /\ IsBell(bell') /\ bell'.count = bell.count /\ bell'.fresh = bell.fresh
            /\ bell'.inbox = inbox
        <4> HIDE DEF inbox
        <4>1. QED
          BY <1>2, <2>2, <3>1 DEF IsBell
      <3>3. QED
        BY <1>1, <2>3, <3>1, <3>2, LinkBell
    <2>5. CASE bell.link # "open"
      <3>1. bell' = bell /\ missed'
        BY <2>1, <2>5 DEF Emit
      <3>2. IsBell(bell')
        BY <3>1 DEF BadgeInv, IsBell
      <3>3. QED
        BY <1>1, <2>3, <3>1, <3>2, LinkBell
    <2>6. QED
      BY <2>4, <2>5
  <1>4. CASE LinkOpens
    <2>1. bell' = [bell EXCEPT !.link = "open", !.errors = 0] /\ UNCHANGED <<news, fetch, missed>>
      BY <1>4 DEF LinkOpens
    <2>2. /\ IsBell(bell') /\ bell'.count = bell.count /\ bell'.fresh = bell.fresh
          /\ bell'.inbox = bell.inbox
      BY <1>2, <2>1 DEF IsBell
    <2>3. QED
      BY <1>1, <2>1, <2>2, LinkBell
  <1>5. CASE LinkFails
    <2> DEFINE errors == bell.errors + 1
               link   == IF errors >= MaxErrors THEN "polling" ELSE "broken"
    <2>1. /\ bell' = [bell EXCEPT !.errors = errors, !.link = link, !.inbox = {}]
          /\ UNCHANGED <<news, fetch>> /\ missed' = (missed \/ bell.inbox # {})
      BY <1>5 DEF LinkFails
    <2> HIDE DEF errors, link
    <2>2. IsBell(bell') /\ bell'.count = bell.count /\ bell'.fresh = bell.fresh /\ bell'.inbox = {}
      BY <1>2, <2>1 DEF IsBell
    <2>3. QED
      BY <1>1, <2>1, <2>2, LinkBell
  <1>6. CASE Restart
    <2>1. /\ bell' = IF bell.link # "open" THEN bell
                     ELSE [bell EXCEPT !.link = "broken", !.errors = 1, !.inbox = {}]
          /\ missed' = (missed \/ news \cup bell.inbox # {} \/ fetch # <<>>)
          /\ fetch' = <<>> /\ news' = {}
      BY <1>6 DEF Restart
    <2>2. IsBell(bell') /\ bell'.count = bell.count /\ bell'.fresh = bell.fresh
      BY <1>2, <2>1 DEF IsBell
    <2>3. QED
      BY <1>1, <2>1, <2>2, LinkBell
  <1>7. QED
    BY <1>3, <1>4, <1>5, <1>6

\* Rows are marked, or their mark is lost; read elsewhere; or deleted.
LEMMA GoneBell ==
  ASSUME BadgeInv,
         (\E n \in marks : Mark(n)) \/ MarkAllRead \/ (\E n \in unread : DeleteRow(n))
  PROVE  BadgeInv'
  <1>1. /\ UNCHANGED <<rows, news, bell, fetch>> /\ unread' \subseteq unread
        /\ ~missed' => ~missed /\ \A n \in unread' : n \in marks => n \in marks'
    BY DEF Mark, MarkAllRead, DeleteRow
  <1>2. ~missed' => unread' \subseteq Known'
    BY <1>1 DEF BadgeInv, Known
  <1>3. QED
    BY <1>1, <1>2, LessUnread

\* A refresh begins, or fails.
LEMMA FetchBell ==
  ASSUME BadgeInv, Poll \/ RefreshFails
  PROVE  BadgeInv'
  <1>1. /\ UNCHANGED <<rows, unread, news, bell, marks>> /\ fetch' \in {<<>>, NewFetch}
        /\ ~missed' => ~missed
    BY DEF Poll, RefreshFails
  <1>2. IsBell(bell')
    BY <1>1 DEF BadgeInv, IsBell
  <1>3. QED
    BY <1>1, <1>2, LinkBell

\* The invariant of the badge is inductive.
LEMMA BadgeStep ==
  ASSUME BadgeInv, [Next \/ (\E at : Create(at) \/ EditRead(at))]_vars
  PROVE  BadgeInv'
  <1>1. ASSUME UNCHANGED <<rows, unread, news, bell, fetch, marks, missed>>
        PROVE  BadgeInv'
    BY <1>1 DEF BadgeInv, IsBell, IsFetch, Known
  <1>2. ASSUME \/ UNCHANGED vars \/ (\E at : Create(at) \/ EditRead(at))
               \/ \E p \in Publishers : Publish(p) \/ Sweep(p) \/ Running(p) \/ Throws(p)
               \/ EditWrite \/ Remove \/ SweepExpired \/ Time
               \/ Consume \/ \E u \in Users : InsertFails(u)
        PROVE  BadgeInv'
    <2>1. ASSUME NEW p \in Publishers, Running(p)
          PROVE  UNCHANGED bellVars
      BY <2>1 DEF Running, Resolve, Finish, Schedule, Deliver
    <2>2. UNCHANGED <<rows, unread, news, bell, fetch, marks, missed>>
      BY <1>2, <2>1 DEF vars, bellVars, Create, EditRead, Publish, Sweep, Throws, EditWrite,
         Remove, SweepExpired, Time, Consume, InsertFails
    <2>3. QED
      BY <1>1, <2>2
  <1>3. ASSUME (\E u \in Users : Insert(u)) \/ InsertOther
        PROVE  BadgeInv'
    <2>1. UNCHANGED <<bell, fetch, marks, missed>> /\ (NewRow \/ UNCHANGED <<rows, unread, news>>)
      BY <1>3 DEF Insert, InsertOther
    <2>2. QED
      BY <1>1, <2>1, NewRowBell
  <1>4. CASE (\E n \in news : Emit(n)) \/ LinkOpens \/ LinkFails \/ Restart
    BY <1>4, StreamBell
  <1>5. CASE (\E n \in marks : Mark(n)) \/ MarkAllRead \/ (\E n \in unread : DeleteRow(n))
    BY <1>5, GoneBell
  <1>6. CASE (\E n \in bell.inbox : Receive(n)) \/ (\E n \in bell.fresh : Click(n))
    BY <1>6, ReceiveBell, ClickBell
  <1>7. CASE Poll \/ ReadUnread \/ Refreshed \/ RefreshFails
    BY <1>7, FetchBell, ReadBell, RefreshedBell
  <1>8. QED
    BY <1>2, <1>3, <1>4, <1>5, <1>6, <1>7 DEF Next, Stream

\* BadgeCoversUnread: with nothing on its way and nothing missed, the badge counts every
\* unread row, whatever came by the stream, by reads and by polls, in whatever order.
THEOREM BadgeIsEnough == PagesSpec => []BadgeCoversUnread
  <1>1. PagesInit => BadgeInv
    BY BellInitially DEF PagesInit
  <1>2. BadgeInv /\ [(desk = "requests" /\ Next /\ UNCHANGED pageVars) \/ PagesNext]_siteVars
          => BadgeInv'
    BY BadgeStep, PagesAsk
  <1>3. BadgeInv => BadgeCoversUnread
    <2> SUFFICES ASSUME BadgeInv, news \cup bell.inbox \cup marks = {}, ~missed
                 PROVE  bell.count >= Cardinality(unread)
      BY DEF BadgeCoversUnread
    <2>1. unread \subseteq bell.fresh
      BY DEF BadgeInv, Known
    <2>2. rows \in Nat /\ bell.fresh \in SUBSET (1 .. rows) /\ unread \in SUBSET (1 .. rows)
          /\ bell.count \in Nat
      BY DEF BadgeInv, IsBell
    <2>3. /\ IsFiniteSet(bell.fresh) /\ Cardinality(bell.fresh) \in Nat
          /\ Cardinality(unread) \in Nat
      BY <2>2, RowsFinite
    <2>4. Cardinality(unread) <= Cardinality(bell.fresh)
      BY <2>1, <2>3, FS_Subset
    <2>5. QED
      BY <2>2, <2>3, <2>4 DEF BadgeInv
  <1>4. QED
    BY <1>1, <1>2, <1>3, PTL DEF PagesSpec

-----------------------------------------------------------------------------
(* What the dialog says *)

IsPage(x) ==
  \/ x = NoPage
  \/ x \in [at : {"list"}, status : {x.status}, chosen : {x.chosen}]
  \/ x \in [at : {"detail"}, status : {x.status}, publishAt : {x.publishAt}, modal : {x.modal},
            saving : BOOLEAN, by : {x.by}]
  \/ x \in [at : {"create"}, chose : {x.chose}, modal : {x.modal}, saving : BOOLEAN, by : {x.by}]

\* While every save was answered, an edit in flight is that of the page, which waits for
\* it; the page of the announcement knows of its time, and the form that saved it too.
PageInv ==
  desk = "pages" /\ ~stale =>
    /\ edit # NoEdit => At("detail") /\ page.saving
    /\ ann.at = "future" /\ At("detail") => page.saving \/ page.publishAt # "none"
    /\ ann.at = "future" /\ At("create") => page.modal = "none" \/ page.chose = "later"

FormInv == IsAnn(ann) /\ IsPage(page) /\ stale \in BOOLEAN /\ PageInv

\* The dialog is shown over the page, or put away.
LEMMA ModalSet ==
  ASSUME IsPage(page), page # NoPage, ~At("list"), NEW m, NEW b,
         \/ page' = [page EXCEPT !.modal = m]
         \/ page' = [page EXCEPT !.modal = m, !.by = b]
         \/ page' = [page EXCEPT !.by = b, !.modal = m]
  PROVE  /\ IsPage(page') /\ page' # NoPage /\ page'.at = page.at /\ page'.modal = m
         /\ At("detail") \/ At("create")
         /\ At("detail") => page'.saving = page.saving /\ page'.publishAt = page.publishAt
         /\ At("create") => page'.chose = page.chose
  <1>1. CASE page \in [at : {"detail"}, status : {page.status}, publishAt : {page.publishAt},
                       modal : {page.modal}, saving : BOOLEAN, by : {page.by}]
    <2>1. PICK by : page' \in [at : {"detail"}, status : {page.status}, publishAt : {page.publishAt},
                               modal : {m}, saving : {page.saving}, by : {by}]
      <3>1. CASE page' = [page EXCEPT !.modal = m]
        BY <1>1, <3>1
      <3>2. CASE page' = [page EXCEPT !.modal = m, !.by = b]
        BY <1>1, <3>2
      <3>3. CASE page' = [page EXCEPT !.by = b, !.modal = m]
        BY <1>1, <3>3
      <3>4. QED
        BY <3>1, <3>2, <3>3
    <2>2. IsPage(page') /\ page'.publishAt = page.publishAt /\ page'.saving = page.saving
      BY <1>1, <2>1 DEF IsPage
    <2>3. page' # NoPage
      BY <2>1 DEF NoPage
    <2>4. QED
      BY <1>1, <2>1, <2>2, <2>3 DEF At
  <1>2. CASE page \in [at : {"create"}, chose : {page.chose}, modal : {page.modal},
                       saving : BOOLEAN, by : {page.by}]
    <2>1. PICK by : page' \in [at : {"create"}, chose : {page.chose}, modal : {m},
                               saving : {page.saving}, by : {by}]
      <3>1. CASE page' = [page EXCEPT !.modal = m]
        BY <1>2, <3>1
      <3>2. CASE page' = [page EXCEPT !.modal = m, !.by = b]
        BY <1>2, <3>2
      <3>3. CASE page' = [page EXCEPT !.by = b, !.modal = m]
        BY <1>2, <3>3
      <3>4. QED
        BY <3>1, <3>2, <3>3
    <2>2. IsPage(page') /\ page'.chose = page.chose
      BY <1>2, <2>1 DEF IsPage
    <2>3. page' # NoPage
      BY <2>1 DEF NoPage
    <2>4. QED
      BY <1>2, <2>1, <2>2, <2>3 DEF At
  <1>3. QED
    BY <1>1, <1>2 DEF IsPage, At

\* The form is submitted, and waits for the dialog.
LEMMA ChoseSet ==
  ASSUME IsPage(page), At("create"), NEW m, NEW c,
         page' = [page EXCEPT !.modal = m, !.chose = c]
  PROVE  IsPage(page') /\ page'.at = "create" /\ page'.chose = c
  <1>1. page \in [at : {"create"}, chose : {page.chose}, modal : {page.modal},
                  saving : BOOLEAN, by : {page.by}]
    BY DEF IsPage, At
  <1>2. QED
    BY <1>1 DEF IsPage

\* A save is sent, or not answered.
LEMMA SavingSet ==
  ASSUME IsPage(page), At("detail"), NEW saves \in BOOLEAN,
         page' = [page EXCEPT !.saving = saves]
  PROVE  IsPage(page') /\ page' # NoPage /\ page'.at = "detail" /\ page'.saving = saves
  <1>1. page \in [at : {"detail"}, status : {page.status}, publishAt : {page.publishAt},
                  modal : {page.modal}, saving : BOOLEAN, by : {page.by}]
    BY DEF IsPage, At
  <1>2. QED
    BY <1>1 DEF IsPage, NoPage

\* A page just loaded.
LEMMA ListLoads ==
  /\ IsPage(List) /\ List.at = "list"
  /\ IsPage(NewForm) /\ NewForm.at = "create" /\ NewForm.modal = "none"
  BY DEF IsPage, List, NewForm

\* The page of the announcement has what there is when it loads.
LEMMA DetailLoads ==
  /\ Detail \in [at : {"detail"}, status : {ann'.status}, publishAt : {ann'.at},
                 modal : {"none"}, saving : {FALSE}, by : {{}}]
  /\ IsPage(Detail) /\ Detail.at = "detail" /\ ~Detail.saving /\ Detail.publishAt = ann'.at
  BY DEF IsPage, Detail

\* The page loads behind a dialog that stays.
LEMMA DetailBehind ==
  ASSUME NEW m, NEW b, page' = [Detail EXCEPT !.modal = m, !.by = b]
  PROVE  IsPage(page') /\ page'.at = "detail" /\ page'.publishAt = ann'.at
  <1>1. page' \in [at : {"detail"}, status : {ann'.status}, publishAt : {ann'.at},
                   modal : {m}, saving : {FALSE}, by : {b}]
    BY DetailLoads
  <1>2. QED
    BY <1>1 DEF IsPage

\* The page loads while a save may still be under way.
LEMMA DetailSaving ==
  ASSUME NEW saves \in BOOLEAN, page' = [Detail EXCEPT !.saving = saves]
  PROVE  /\ IsPage(page') /\ page' # NoPage
         /\ page'.at = "detail" /\ page'.publishAt = ann'.at /\ page'.saving = saves
  <1>1. page' \in [at : {"detail"}, status : {ann'.status}, publishAt : {ann'.at},
                   modal : {"none"}, saving : {saves}, by : {{}}]
    BY DetailLoads
  <1>2. IsPage(page') /\ page'.at = "detail" /\ page'.publishAt = ann'.at /\ page'.saving = saves
    BY <1>1 DEF IsPage
  <1>3. page' # NoPage
    BY <1>1 DEF NoPage
  <1>4. QED
    BY <1>2, <1>3

\* Pages that are opened, or left, take no unanswered save along.
LEMMA OpenedForm ==
  ASSUME FormInv, IsAnn(ann'), OpenList \/ OpenCreate \/ OpenDetail \/ Choose \/ Leave
  PROVE  FormInv'
  <1>1. UNCHANGED <<ann, edit, desk>> /\ stale' \in BOOLEAN /\ (~stale' => ~stale)
    BY DEF OpenList, OpenCreate, OpenDetail, Choose, Leave, vars, FormInv, IsPage, At
  <1>2. desk = "pages" /\ ~stale' => edit = NoEdit
    BY DEF OpenList, OpenCreate, OpenDetail, Choose, Leave, FormInv, PageInv, At
  <1>3. IsPage(page') /\ (At("create")' => page'.modal = "none")
                      /\ (At("detail")' => page'.publishAt = ann.at)
    <2>1. CASE OpenList \/ OpenCreate \/ OpenDetail \/ Leave
      BY <1>1, <2>1, ListLoads, DetailLoads DEF OpenList, OpenCreate, OpenDetail, Leave, At
    <2>2. CASE Choose
      BY <2>2 DEF Choose, FormInv, IsPage, At
    <2>3. QED
      BY <2>1, <2>2
  <1>4. QED
    BY <1>1, <1>2, <1>3 DEF FormInv, PageInv, At, IsPage

\* What is deleted from a page; the list is loaded again.
LEMMA DeletedForm ==
  ASSUME FormInv, IsAnn(ann'), DeleteChosen \/ Delete
  PROVE  FormInv'
  <1>1. edit' = edit /\ desk' = desk /\ page' = List /\ stale' \in BOOLEAN /\ (~stale' => ~stale)
    BY DEF DeleteChosen, Delete, Remove, FormInv, IsPage, At
  <1>2. desk = "pages" /\ ~stale' => edit = NoEdit
    BY DEF DeleteChosen, Delete, FormInv, PageInv, At
  <1>3. QED
    BY <1>1, <1>2, ListLoads DEF FormInv, PageInv, At

\* A new announcement has the time of the form that is confirmed next.
LEMMA CreatedForm ==
  ASSUME FormInv, IsAnn(ann'), NEW v \in Entered, SubmitNew(v)
  PROVE  FormInv'
  <1>1. /\ UNCHANGED <<edit, desk, stale>> /\ page # NoPage /\ page.at = "create"
        /\ v.schedule \in {"draft", "now", "later"}
    BY EnteredAssumption DEF SubmitNew, Create, At, FormValues
  <1>2. desk = "pages" /\ ~stale => edit = NoEdit
    BY <1>1 DEF FormInv, PageInv, At
  <1>3. v.schedule # "later" => ann'.at # "future"
    BY DEF SubmitNew, ToRequestBody, Create, FormInv, IsAnn
  <1>4. CASE v.schedule = "draft"
    BY <1>1, <1>2, <1>4, DetailLoads DEF SubmitNew, FormInv, PageInv, At
  <1>5. CASE v.schedule # "draft"
    <2>1. page' = [page EXCEPT !.modal = "counting", !.chose = v.schedule]
      BY <1>5 DEF SubmitNew
    <2>2. IsPage(page') /\ page'.at = "create" /\ page'.chose = v.schedule
      BY <1>1, <2>1, ChoseSet DEF FormInv, At
    <2>3. QED
      BY <1>1, <1>2, <1>3, <2>2 DEF FormInv, PageInv, At
  <1>6. QED
    BY <1>4, <1>5

\* A save is sent, and answered with what is loaded again, or not answered.
LEMMA SavedForm ==
  ASSUME FormInv, IsAnn(ann'), (\E v : SubmitEdit(v)) \/ Saved
  PROVE  FormInv'
  <1>1. CASE \E v : SubmitEdit(v)
    <2>1. /\ page # NoPage /\ page.at = "detail" /\ page' = [page EXCEPT !.saving = TRUE]
          /\ UNCHANGED <<desk, stale>>
      BY <1>1 DEF SubmitEdit, At
    <2>2. IsPage(page') /\ page' # NoPage /\ page'.at = "detail" /\ page'.saving
      BY <2>1, SavingSet DEF FormInv, At
    <2>3. QED
      BY <2>1, <2>2 DEF FormInv, PageInv, At
  <1>2. CASE Saved
    <2>1. /\ page # NoPage /\ page.at = "detail" /\ edit = NoEdit /\ UNCHANGED <<ann, edit, desk>>
      BY <1>2 DEF Saved, At, vars
    <2>2. CASE stale'
      <3>1. page' = [page EXCEPT !.saving = FALSE] \/ \E m, b : page' = [Detail EXCEPT !.modal = m, !.by = b]
        BY <1>2 DEF Saved
      <3>2. IsPage(page')
        BY <2>1, <3>1, SavingSet, DetailBehind DEF FormInv, At
      <3>3. QED
        BY <1>2, <2>1, <2>2, <3>2 DEF FormInv, PageInv, Saved
    <2>3. CASE ~stale'
      <3>1. \E m, b : page' = [Detail EXCEPT !.modal = m, !.by = b]
        BY <1>2, <2>3 DEF Saved
      <3>2. IsPage(page') /\ page'.at = "detail" /\ page'.publishAt = ann'.at
        BY <3>1, DetailBehind
      <3>3. QED
        BY <1>2, <2>1, <2>3, <3>2 DEF FormInv, PageInv, Saved, At
    <2>4. QED
      BY <2>2, <2>3
  <1>3. QED
    BY <1>1, <1>2

\* The dialog, on whichever page it stands.
LEMMA DialogForm ==
  ASSUME FormInv, IsAnn(ann'),
         \/ OpenConfirm \/ Counted \/ CloseModal
         \/ \E p \in Publishers : Confirm(p) \/ Published(p)
  PROVE  FormInv'
  <1>1. /\ UNCHANGED <<ann, edit, desk>> /\ stale' \in BOOLEAN /\ (~stale' => ~stale)
        /\ page # NoPage /\ ~At("list")
    BY DEF OpenConfirm, Counted, CloseModal, Confirm, Published, Publish, Begin, vars, FormInv,
           IsPage, At
  <1>2. At("detail") \/ At("create")
    BY <1>1 DEF FormInv, IsPage, At
  <1>3. \/ page' = Detail /\ At("create")
        \/ page' = [Detail EXCEPT !.saving = page.saving]
        \/ \E m, b : /\ \/ page' = [page EXCEPT !.modal = m]
                        \/ page' = [page EXCEPT !.modal = m, !.by = b]
                        \/ page' = [page EXCEPT !.by = b, !.modal = m]
                     /\ At("create") /\ page.modal = "none" => m = "none"
    <2>1. CASE OpenConfirm \/ Counted \/ CloseModal
      BY <2>1 DEF OpenConfirm, Counted, CloseModal, At
    <2>2. CASE \E p \in Publishers : Confirm(p)
      BY <2>2 DEF Confirm
    <2>3. ASSUME NEW p \in Publishers, Published(p)
          PROVE  \/ page' = [Detail EXCEPT !.saving = page.saving]
                 \/ \E m, b : /\ page' = [page EXCEPT !.by = b, !.modal = m]
                              /\ At("create") /\ page.modal = "none" => m = "none"
      BY <2>3 DEF Published
    <2>4. QED
      BY <2>1, <2>2, <2>3
  <1>4. CASE page' = Detail /\ At("create")
    BY <1>1, <1>4, DetailLoads DEF FormInv, PageInv, At
  <1>5. CASE page' = [Detail EXCEPT !.saving = page.saving]
    <2>1. page.saving \in BOOLEAN
      BY <1>1, <1>2 DEF FormInv, IsPage, At
    <2>2. /\ IsPage(page') /\ page'.at = "detail" /\ page'.saving = page.saving
          /\ page'.publishAt = ann'.at /\ page' # NoPage
      BY <1>5, <2>1, DetailSaving
    <2>3. QED
      BY <1>1, <2>2 DEF FormInv, PageInv, At
  <1>6. ASSUME NEW m, NEW b,
               \/ page' = [page EXCEPT !.modal = m]
               \/ page' = [page EXCEPT !.modal = m, !.by = b]
               \/ page' = [page EXCEPT !.by = b, !.modal = m],
               At("create") /\ page.modal = "none" => m = "none"
        PROVE  FormInv'
    <2>1. /\ IsPage(page') /\ page' # NoPage /\ page'.at = page.at /\ page'.modal = m
          /\ (At("detail") => page'.saving = page.saving /\ page'.publishAt = page.publishAt)
          /\ (At("create") => page'.chose = page.chose)
      BY <1>1, <1>6, ModalSet DEF FormInv
    <2>2. QED
      BY <1>1, <1>2, <1>6, <2>1 DEF FormInv, PageInv, At
  <1>7. QED
    BY <1>3, <1>4, <1>5, <1>6

\* The service writes an edit, lets a time pass, or restarts.
LEMMA GoesForm ==
  ASSUME FormInv, IsAnn(ann'), Goes, UNCHANGED pageVars
  PROVE  FormInv'
  <1>1. UNCHANGED <<desk, page, stale>>
    BY DEF pageVars
  <1>2. /\ edit' # NoEdit => edit # NoEdit
        /\ ann'.at = "future" => ann.at = "future" \/ edit # NoEdit
    <2>1. ASSUME NEW p \in Publishers, Running(p)
          PROVE  edit' = edit /\ (ann'.at = "future" => ann.at = "future")
      BY <2>1 DEF Running, Resolve, Finish, Schedule, Deliver, FormInv, IsAnn
    <2>2. QED
      BY <2>1 DEF Goes, Sweep, Begin, Throws, EditWrite, SweepExpired, Time, Stream, Insert,
         InsertOther, Emit, Mark, Restart, pubVars, bellVars, FormInv, IsAnn
  <1>3. QED
    BY <1>1, <1>2 DEF FormInv, PageInv, At

\* What a form or a dialog does keeps the invariant of the pages.
LEMMA FormStep ==
  ASSUME IInv, IInv', FormInv,
         [(desk = "requests" /\ Next /\ UNCHANGED pageVars) \/ PagesNext]_siteVars
  PROVE  FormInv'
  <1>1. IsAnn(ann')
    BY DEF IInv, Shapes, IsAnn
  <1>2. CASE (desk = "requests" /\ Next /\ UNCHANGED pageVars) \/ UNCHANGED siteVars
    BY <1>1, <1>2 DEF FormInv, PageInv, pageVars, siteVars, vars, At
  <1>3. CASE PagesNext
    BY <1>1, <1>3, OpenedForm, DeletedForm, CreatedForm, SavedForm, DialogForm, GoesForm
       DEF PagesNext
  <1>4. QED
    BY <1>2, <1>3

\* NowIsNow: handleConfirm never puts off to a time what the dialog announced as going out
\* now, for any forms, saves, dialogs and sweeps, as long as every save was answered.
THEOREM SaidIsDone == PagesSpec => NowIsNow
  <1> DEFINE Said == \A p \in Publishers :
               desk = "pages" /\ pub[p].pc # "schedule" /\ pub'[p].pc = "schedule"
                 => Says = "later" \/ stale'
  <1>1. PagesInit => FormInv
    <2> SUFFICES ASSUME PagesInit PROVE FormInv
      OBVIOUS
    <2>1. IsAnn(ann)
      BY Initially DEF PagesInit, IInv, Shapes
    <2>2. QED
      BY <2>1 DEF PagesInit, Init, FormInv, PageInv, IsPage, At
  <1>2. IInv /\ IInv' /\ FormInv
        /\ [(desk = "requests" /\ Next /\ UNCHANGED pageVars) \/ PagesNext]_siteVars => FormInv'
    BY FormStep
  <1>3. IInv /\ FormInv
        /\ [(desk = "requests" /\ Next /\ UNCHANGED pageVars) \/ PagesNext]_siteVars => [Said]_siteVars
    <2> SUFFICES ASSUME IInv, FormInv, PagesNext, NEW p \in Publishers, desk = "pages",
                        pub[p].pc # "schedule", pub'[p].pc = "schedule"
                 PROVE  Says = "later" \/ stale'
      OBVIOUS
    <2>0. pub = [r \in Publishers |-> pub[r]]
      BY DEF IInv, Shapes
    <2>1. PICK q \in Publishers : Confirm(q)
      <3>1. ASSUME \A q \in Publishers : ~Confirm(q)
            PROVE  pub'[p].pc # "schedule"
        <4>1. CASE UNCHANGED pub
          BY <4>1
        <4>2. ASSUME Goes
              PROVE  pub'[p].pc # "schedule"
          <5>1. ASSUME NEW q \in Publishers, Sweep(q)
                PROVE  pub'[p].pc # "schedule"
            BY <2>0, <5>1 DEF Sweep, Begin
          <5>2. ASSUME NEW q \in Publishers, Schedule(q) \/ Finish(q) \/ Throws(q)
                PROVE  pub'[p].pc # "schedule"
            BY <2>0, <5>2 DEF Schedule, Finish, Throws, Idle
          <5>3. ASSUME NEW q \in Publishers, Resolve(q)
                PROVE  pub'[p].pc # "schedule"
            BY <2>0, <5>3 DEF Resolve, IInv, Shapes, IsPub
          <5>4. ASSUME NEW q \in Publishers, NEW u \in Users, NEW mail \in Mailings, Deliver(q, u, mail)
                PROVE  pub'[p].pc # "schedule"
            BY <2>0, <5>4 DEF Deliver, IInv, Shapes, IsPub
          <5>5. CASE Restart
            BY <5>5 DEF Restart, Idle
          <5>6. CASE EditWrite \/ SweepExpired \/ Time \/ Stream
            BY <5>6 DEF EditWrite, SweepExpired, Time, Stream, Insert, InsertOther, Emit, Mark, pubVars
          <5>7. QED
            BY <4>2, <5>1, <5>2, <5>3, <5>4, <5>5, <5>6 DEF Goes, Running
        <4>3. ASSUME ~Goes
              PROVE  UNCHANGED pub
          BY <3>1, <4>3 DEF PagesNext, OpenList, Choose, DeleteChosen, OpenCreate, OpenDetail,
             SubmitNew, SubmitEdit, Saved, OpenConfirm, Counted, Published, CloseModal, Delete,
             Leave, Create, EditRead, Remove, vars
        <4>4. QED
          BY <4>1, <4>2, <4>3
      <3>2. QED
        BY <3>1
    <2>2. ann.at = "future" /\ page.modal = "ready" /\ stale' = (stale \/ page.saving)
      <3>1. Begin(q, IF ann.at = "future" THEN "schedule" ELSE "resolve")
        BY <2>1 DEF Confirm, Publish
      <3>2. pub' = [pub EXCEPT ![q] = [pc |-> IF ann.at = "future" THEN "schedule" ELSE "resolve",
                                       text |-> ann.text, todo |-> {}]]
        BY <3>1 DEF Begin
      <3>3. p = q /\ ann.at = "future"
        BY <2>0, <3>2
      <3>4. QED
        BY <2>1, <3>3 DEF Confirm
    <2>3. At("detail") \/ At("create")
      BY <2>1 DEF FormInv, Confirm, IsPage, At
    <2>4. QED
      BY <2>2, <2>3 DEF FormInv, PageInv, Says, At
  <1>4. QED
    BY <1>1, <1>2, <1>3, Inductive, PTL DEF PagesSpec, NowIsNow
=============================================================================
