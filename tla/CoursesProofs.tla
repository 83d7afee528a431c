--------------------------- MODULE CoursesProofs ----------------------------
(***************************************************************************)
(* Proofs about Courses, edited through CoursePages: whatever the admins   *)
(* do at the same time, from pages of any age, a version number that is    *)
(* asked for is free, a course for sale keeps what it was published with,  *)
(* and what it said stays among its versions, as long as no transaction    *)
(* wrote back a row that was out of date without a snapshot; and modules   *)
(* and lessons stay in order unless a deletion or an overlap disturbs it.  *)
(*                                                                         *)
(* Then about the learner of such a course (Learning, Reviews and          *)
(* LearnerPages), in any number of tabs: the last lesson completes it, and *)
(* nothing less does; what the player shows and offers is so; a review     *)
(* keeps the status it was given, and one mail welcomes the learner.       *)
(***************************************************************************)
EXTENDS CoursePages, LearnerPages, FiniteSetTheorems, TLAPS

Covered(row) == row.content.cover
Live(row) == row.status = "published"
IsCourse(row) == row \in CourseRow /\ row.version # 0

\* What a transaction that edits the course will write, compared with what it read.
EditOK(c) ==
  /\ IsCourse(c.old) /\ c.old.status # "gone"
  /\ IsCourse(c.new) /\ c.new.status # "gone"
  /\ c.snapshot => c.new.version = c.old.version + 1
  /\ ~c.snapshot => /\ c.new.version = c.old.version
                    /\ Covered(c.old) => Covered(c.new)
                    /\ Live(c.old) => c.new.content = c.old.content

\* What it read is no newer than the course, and complete where it was for sale.
EditSeen(c) ==
  /\ c.old.version <= course.version
  /\ c.snapshot => Covered(c.old) /\ Covered(c.new)
  /\ Live(c.new) => Covered(c.new)

Edits ==
  \A a \in Admins : call[a].op = "course" => EditOK(call[a]) /\ (blind \/ EditSeen(call[a]))

\* The versions before the course's are there, and complete.
History ==
  \/ blind
  \/ Gone
  \/ /\ {v.version : v \in versions} = 1..(course.version - 1)
     /\ \A v \in versions : v.content.cover
     /\ Live(course) \/ versions # {} => Covered(course)

CourseTypes ==
  /\ IsCourse(course)
  /\ \A v \in versions : v \in VersionRow
  /\ Gone => versions = {}
  /\ call = [a \in Admins |-> call[a]]

CourseInv ==
  /\ CourseTypes
  /\ Edits
  /\ History

-----------------------------------------------------------------------------
(* The course *)

\* A draft without versions, and no request.
LEMMA CourseInit == Init => CourseInv
  <1> SUFFICES ASSUME Init PROVE CourseInv
    OBVIOUS
  <1>1. CourseTypes
    BY StartAssumption DEF Init, CoursesInit, CourseTypes, IsCourse, CourseRow, Status, Gone
  <1>2. Edits
    BY DEF Init, CoursesInit, Edits, NoCall
  <1>3. History
    BY DEF Init, CoursesInit, History, Live
  <1>4. QED
    BY <1>1, <1>2, <1>3 DEF CourseInv

\* A request that comes in leaves the others, and the rows, alone.
LEMMA BeginFacts ==
  ASSUME call = [a \in Admins |-> call[a]], NEW a \in Admins, NEW c, Begin(a, c)
  PROVE  /\ ~Gone /\ UNCHANGED <<course, versions, item, blind, settled>>
         /\ call' = [b \in Admins |-> call'[b]]
         /\ call'[a] = c /\ \A b \in Admins \ {a} : call'[b] = call[b]
  BY DEF Begin

\* Nor does its end concern them.
LEMMA ReturnFacts ==
  ASSUME call = [a \in Admins |-> call[a]], NEW a \in Admins, Return(a)
  PROVE  /\ call' = [b \in Admins |-> call'[b]]
         /\ call'[a] = NoCall /\ \A b \in Admins \ {a} : call'[b] = call[b]
  BY DEF Return

\* Where the course stays as it is, only new edits matter.
LEMMA CourseStays ==
  ASSUME CourseInv, UNCHANGED <<course, versions, blind>>,
         call' = [a \in Admins |-> call'[a]],
         \A a \in Admins : \/ call'[a] = call[a]
                           \/ call'[a].op # "course"
                           \/ EditOK(call'[a]) /\ (blind \/ EditSeen(call'[a]))
  PROVE  CourseInv'
  <1>1. CourseTypes' /\ History'
    BY DEF CourseInv, CourseTypes, History, Gone
  <1>2. Edits'
    BY DEF CourseInv, Edits, EditSeen
  <1>3. QED
    BY <1>1, <1>2 DEF CourseInv

\* A transaction that read the course as it is.
LEMMA EditBegins ==
  ASSUME CourseInv, NEW a \in Admins, NEW new, NEW snapshot,
         Begin(a, Editor(new, snapshot)), EditOK(Editor(new, snapshot)),
         blind \/ EditSeen(Editor(new, snapshot))
  PROVE  CourseInv'
  <1>1. call = [b \in Admins |-> call[b]]
    BY DEF CourseInv, CourseTypes
  <1>2. QED
    BY <1>1, BeginFacts, CourseStays

\* An edit writes other content, and perhaps the next version.
LEMMA NewRow ==
  ASSUME IsCourse(course), NEW content \in Contents, NEW n \in Nat \ {0}
  PROVE  LET new == [course EXCEPT !.content = content, !.version = n] IN
         /\ IsCourse(new) /\ new.status = course.status
         /\ new.content = content /\ new.version = n
  <1> DEFINE new == [course EXCEPT !.content = content, !.version = n]
  <1>1. course \in [status : Status, content : Contents, version : Nat]
    BY DEF IsCourse, CourseRow
  <1> HIDE DEF Contents, Status
  <1>2. new \in [status : Status, content : Contents, version : Nat]
    BY <1>1
  <1>3. new.status = course.status /\ new.content = content /\ new.version = n
    BY <1>1
  <1>4. QED
    BY <1>2, <1>3 DEF IsCourse, CourseRow

\* update(), restoreVersion(), publish(), archive() and delete() read.
LEMMA EditorsInv ==
  ASSUME CourseInv, NEW a \in Admins, CourseTabs(a) \/ CourseList(a)
  PROVE  CourseInv'
  <1>0. CourseTypes /\ History /\ call = [b \in Admins |-> call[b]] /\ IsCourse(course)
    BY DEF CourseInv, CourseTypes
  <1>1. ASSUME NEW c, Begin(a, c), c.op # "course" PROVE CourseInv'
    BY <1>0, <1>1, BeginFacts, CourseStays
  <1>2. CASE Publish(a)
    <2> DEFINE new == [course EXCEPT !.status = "published"]
    <2>1. /\ IsCourse(new) /\ new.status = "published" /\ new.content = course.content
          /\ new.version = course.version
      BY <1>0 DEF IsCourse, CourseRow, Status
    <2>2. Begin(a, Editor(new, FALSE)) /\ Covered(course) /\ ~Gone
      BY <1>2 DEF Publish, ValidateForPublish, Covered, Begin
    <2> HIDE DEF new
    <2>3. EditOK(Editor(new, FALSE)) /\ EditSeen(Editor(new, FALSE))
      BY <1>0, <2>1, <2>2 DEF EditOK, EditSeen, Editor, Covered, Gone, IsCourse, CourseRow
    <2>4. QED
      BY <2>2, <2>3, EditBegins
  <1>3. CASE Archive(a)
    <2> DEFINE new == [course EXCEPT !.status = "archived"]
    <2>1. /\ IsCourse(new) /\ new.status = "archived" /\ new.content = course.content
          /\ new.version = course.version
      BY <1>0 DEF IsCourse, CourseRow, Status
    <2>2. Begin(a, Editor(new, FALSE)) /\ ~Gone
      BY <1>3 DEF Archive, Begin
    <2> HIDE DEF new
    <2>3. EditOK(Editor(new, FALSE)) /\ EditSeen(Editor(new, FALSE))
      BY <1>0, <2>1, <2>2 DEF EditOK, EditSeen, Editor, Covered, Live, Gone, IsCourse, CourseRow
    <2>4. QED
      BY <2>2, <2>3, EditBegins
  <1>4. CASE Delete(a)
    <2> DEFINE c == [Editor(course, FALSE) EXCEPT !.op = "delete"]
    <2>1. c.op # "course"
      BY DEF Editor
    <2>2. Begin(a, c)
      BY <1>4 DEF Delete
    <2> HIDE DEF c
    <2>3. QED
      BY <1>1, <2>1, <2>2
  <1>5. CASE \E form \in Forms : ValidateCourseForm(form) /\ Update(a, form)
    <2>1. PICK form \in Forms : ValidateCourseForm(form) /\ Update(a, form)
      BY <1>5
    <2> DEFINE live == course.status = "published"
               content == Merged(course.content, form)
               new == [course EXCEPT !.content = content,
                                     !.version = IF live THEN course.version + 1 ELSE course.version]
    <2>2. content \in Contents /\ (course.content.cover => content.cover)
      BY <1>0, <2>1 DEF Merged, Forms, ValidateCourseForm, Contents, IsCourse, CourseRow
    <2>3. Begin(a, Editor(new, live)) /\ ~Gone
      BY <2>1 DEF Update, Begin
    <2> HIDE DEF content
    <2>4. /\ IsCourse(new) /\ new.status = course.status /\ new.content = content
          /\ new.version = IF live THEN course.version + 1 ELSE course.version
      <3> DEFINE n == IF live THEN course.version + 1 ELSE course.version
      <3>1. n \in Nat \ {0}
        BY <1>0 DEF IsCourse, CourseRow
      <3> HIDE DEF n
      <3>2. QED
        BY <1>0, <2>2, <3>1, NewRow DEF n
    <2> HIDE DEF new
    <2>5. EditOK(Editor(new, live))
      BY <1>0, <2>2, <2>3, <2>4 DEF EditOK, Editor, Covered, Live, Gone
    <2>6. blind \/ EditSeen(Editor(new, live))
      <3>1. course.version \in Nat
        BY <1>0 DEF IsCourse, CourseRow
      <3>2. CASE ~live
        <4>1. Editor(new, live) = Editor(new, FALSE)
          BY <3>2
        <4>2. EditSeen(Editor(new, FALSE))
          BY <2>4, <3>1, <3>2 DEF EditSeen, Editor, Live
        <4>3. QED
          BY <4>1, <4>2
      <3>3. CASE ~blind /\ live
        <4>1. Covered(course) /\ Covered(new)
          BY <1>0, <2>2, <2>3, <2>4, <3>3 DEF History, Covered, Live
        <4>2. QED
          BY <3>1, <4>1 DEF EditSeen, Editor
      <3>4. QED
        BY <3>2, <3>3
    <2>7. QED
      BY <2>3, <2>5, <2>6, EditBegins
  <1>6. CASE \E v \in versions : RestoreVersion(a, v)
    <2>1. PICK v \in versions : RestoreVersion(a, v)
      BY <1>6
    <2> DEFINE new == [course EXCEPT !.content = v.content, !.version = course.version + 1]
    <2>2. v.content \in Contents
      BY <1>0, <2>1 DEF CourseTypes, VersionRow
    <2>3. Begin(a, Editor(new, TRUE)) /\ ~Gone
      BY <2>1 DEF RestoreVersion, Begin
    <2>4. /\ IsCourse(new) /\ new.status = course.status /\ new.content = v.content
          /\ new.version = course.version + 1
      <3>1. course.version + 1 \in Nat \ {0}
        BY <1>0 DEF IsCourse, CourseRow
      <3>2. QED
        BY <1>0, <2>2, <3>1, NewRow
    <2> HIDE DEF new
    <2>5. EditOK(Editor(new, TRUE))
      BY <1>0, <2>3, <2>4 DEF EditOK, Editor, Gone
    <2>6. blind \/ EditSeen(Editor(new, TRUE))
      BY <1>0, <2>1, <2>3, <2>4 DEF History, EditSeen, Editor, Covered, IsCourse, CourseRow
    <2>7. QED
      BY <2>3, <2>5, <2>6, EditBegins
  <1>7. QED
    BY <1>2, <1>3, <1>4, <1>5, <1>6
    DEF CourseTabs, CourseList, HandlePublish, HandleArchive, HandleDelete, HandleSubmit, HandleRestore

\* A transaction that commits: either nothing of the course changes, or what it writes
\* replaces what it read, and only a snapshot was taken in between if anything was.
LEMMA SaveFacts ==
  ASSUME CourseInv, NEW a \in Admins, SaveCourse(a), ~blind', course' # course \/ versions' # versions
  PROVE  LET c == call[a] IN
         /\ ~blind /\ ~Gone /\ c.op = "course" /\ course' = c.new /\ c.new # c.old
         /\ EditOK(c) /\ EditSeen(c)
         /\ c.snapshot => /\ c.old.version = course.version
                          /\ c.old.content = course.content
                          /\ versions' = versions \cup {Snapshot(c)}
         /\ ~c.snapshot => course = c.old /\ versions' = versions
  <1> DEFINE c == call[a]
  <1>1. c.op = "course" /\ ~CourseRefused(c)
    BY DEF SaveCourse
  <1>2. EditOK(c) /\ (blind \/ EditSeen(c))
    BY <1>1 DEF CourseInv, Edits
  <1>3. /\ course' = IF c.new = c.old THEN course ELSE c.new
        /\ versions' = IF c.snapshot THEN versions \cup {Snapshot(c)} ELSE versions
        /\ blind' = (blind \/ Unseen(c))
    BY <1>1 DEF SaveCourse
  <1>4. ~blind /\ ~Unseen(c) /\ EditSeen(c) /\ ~Gone /\ (c.snapshot => ~VersionTaken(c))
    BY <1>1, <1>2, <1>3 DEF CourseRefused
  <1>5. c.new # c.old
    <2>1. c.snapshot => c.new # c.old
      BY <1>2 DEF EditOK, IsCourse, CourseRow
    <2>2. QED
      BY <1>3, <2>1
  <1>6. CASE c.snapshot
    <2>1. /\ c.old.version \in Nat /\ c.old.version # 0 /\ course.version \in Nat
          /\ c.old.version <= course.version
      BY <1>2, <1>4 DEF EditOK, EditSeen, IsCourse, CourseRow, CourseInv, CourseTypes
    <2>2. {v.version : v \in versions} = 1..(course.version - 1)
      BY <1>4 DEF CourseInv, History
    <2>3. \A v \in versions : v.version # c.old.version
      BY <1>4, <1>6 DEF VersionTaken
    <2>4. c.old.version \notin 1..(course.version - 1)
      BY <2>2, <2>3
    <2>5. c.old.version = course.version
      BY <2>1, <2>4
    <2>6. c.old.content = course.content
      BY <1>4, <1>5, <1>6, <2>5 DEF Unseen
    <2>7. QED
      BY <1>1, <1>2, <1>3, <1>4, <1>5, <1>6, <2>5, <2>6
  <1>7. CASE ~c.snapshot
    BY <1>1, <1>2, <1>3, <1>4, <1>5, <1>7 DEF Unseen
  <1>8. QED
    BY <1>6, <1>7

\* They commit.
LEMMA SaveInv ==
  ASSUME CourseInv, NEW a \in Admins, SaveCourse(a)
  PROVE  CourseInv'
  <1> DEFINE c == call[a]
  <1>1. CourseTypes /\ call = [b \in Admins |-> call[b]]
    BY DEF CourseInv, CourseTypes
  <1>2. /\ call' = [b \in Admins |-> call'[b]]
        /\ call'[a] = NoCall /\ \A b \in Admins \ {a} : call'[b] = call[b]
    BY <1>1, ReturnFacts DEF SaveCourse
  <1>3. c.op = "course" /\ EditOK(c)
    BY DEF SaveCourse, CourseInv, Edits
  <1>4. CourseTypes'
    <2>1. CASE UNCHANGED <<course, versions>>
      BY <1>1, <1>2, <2>1 DEF CourseTypes, Gone
    <2>2. CASE ~(UNCHANGED <<course, versions>>)
      <3>1. /\ ~CourseRefused(c)
            /\ course' = course \/ course' = c.new
            /\ versions' = versions \/ versions' = versions \cup {Snapshot(c)}
        BY <2>2 DEF SaveCourse
      <3>2. ~Gone' /\ IsCourse(course')
        BY <1>1, <1>3, <3>1 DEF CourseRefused, CourseTypes, EditOK, Gone
      <3>3. Snapshot(c) \in VersionRow
        BY <1>3 DEF EditOK, IsCourse, CourseRow, Snapshot, VersionRow
      <3>4. QED
        BY <1>1, <1>2, <3>1, <3>2, <3>3 DEF CourseTypes
    <2>3. QED
      BY <2>1, <2>2
  <1>5. blind => blind'
    BY DEF SaveCourse
  <1>6. CASE blind'
    <2>1. Edits'
      BY <1>2, <1>6 DEF CourseInv, Edits, NoCall
    <2>2. QED
      BY <1>4, <1>6, <2>1 DEF CourseInv, History
  <1>7. CASE ~blind' /\ UNCHANGED <<course, versions>>
    <2>1. ~blind
      BY <1>5, <1>7
    <2>2. Edits'
      BY <1>2, <1>7, <2>1 DEF CourseInv, Edits, EditSeen, NoCall
    <2>3. History'
      BY <1>7, <2>1 DEF CourseInv, History, Gone
    <2>4. QED
      BY <1>4, <2>2, <2>3 DEF CourseInv
  <1>8. CASE ~blind' /\ ~(UNCHANGED <<course, versions>>)
    <2>1. /\ ~blind /\ ~Gone /\ course' = c.new /\ EditSeen(c)
          /\ c.snapshot => /\ c.old.version = course.version
                           /\ c.old.content = course.content
                           /\ versions' = versions \cup {Snapshot(c)}
          /\ ~c.snapshot => course = c.old /\ versions' = versions
      BY <1>8, SaveFacts
    <2>2. course.version \in Nat /\ course.version # 0 /\ course'.version \in Nat
      BY <1>1, <1>4 DEF CourseTypes, IsCourse, CourseRow
    <2>3. course'.version = IF c.snapshot THEN course.version + 1 ELSE course.version
      BY <1>3, <2>1 DEF EditOK
    <2>4. Edits'
      <3> SUFFICES ASSUME NEW b \in Admins, call'[b].op = "course"
                   PROVE  (EditOK(call[b]) /\ EditSeen(call[b]))'
        BY DEF Edits
      <3>1. b # a /\ call'[b] = call[b]
        BY <1>2 DEF NoCall
      <3>2. EditOK(call[b]) /\ EditSeen(call[b])
        BY <2>1, <3>1 DEF CourseInv, Edits
      <3>3. call[b].old.version \in Nat
        BY <3>2 DEF EditOK, IsCourse, CourseRow
      <3>4. call[b].old.version <= course'.version
        BY <2>2, <2>3, <3>2, <3>3 DEF EditSeen
      <3>5. QED
        BY <3>1, <3>2, <3>4 DEF EditSeen
    <2>5. /\ {v.version : v \in versions} = 1..(course.version - 1)
          /\ \A v \in versions : v.content.cover
          /\ Live(course) \/ versions # {} => Covered(course)
      BY <2>1 DEF CourseInv, History
    <2>6. CASE c.snapshot
      <3>1. /\ Snapshot(c).version = course.version /\ Snapshot(c).content.cover
            /\ Covered(course')
        BY <2>1, <2>6 DEF Snapshot, EditSeen, Covered
      <3>2. {v.version : v \in versions'} = {v.version : v \in versions} \cup {course.version}
        BY <2>1, <2>6, <3>1
      <3>3. {v.version : v \in versions'} = 1..(course'.version - 1)
        BY <2>2, <2>3, <2>5, <2>6, <3>2
      <3>4. \A v \in versions' : v.content.cover
        BY <2>1, <2>5, <2>6, <3>1
      <3>5. QED
        BY <1>4, <2>4, <3>1, <3>3, <3>4 DEF CourseInv, History
    <2>7. CASE ~c.snapshot
      <3>1. Live(course') \/ versions' # {} => Covered(course')
        BY <1>3, <2>1, <2>5, <2>7 DEF EditOK, EditSeen
      <3>2. {v.version : v \in versions'} = 1..(course'.version - 1) /\ \A v \in versions' : v.content.cover
        BY <2>1, <2>3, <2>5, <2>7
      <3>3. QED
        BY <1>4, <2>4, <3>1, <3>2 DEF CourseInv, History
    <2>8. QED
      BY <2>6, <2>7
  <1>9. QED
    BY <1>6, <1>7, <1>8

\* delete() commits.
LEMMA DeleteInv ==
  ASSUME CourseInv, NEW a \in Admins, DeleteCourse(a)
  PROVE  CourseInv'
  <1>1. CourseTypes /\ call = [b \in Admins |-> call[b]]
    BY DEF CourseInv, CourseTypes
  <1>2. /\ call' = [b \in Admins |-> call'[b]]
        /\ call'[a] = NoCall /\ \A b \in Admins \ {a} : call'[b] = call[b]
    BY <1>1, ReturnFacts DEF DeleteCourse
  <1>3. /\ course'.status = "gone" /\ course'.version = course.version /\ IsCourse(course')
        /\ versions' = {} /\ blind' = blind
    BY <1>1 DEF DeleteCourse, CourseTypes, IsCourse, CourseRow, Status
  <1>4. CourseTypes' /\ History'
    BY <1>2, <1>3 DEF CourseTypes, History, Gone
  <1>5. Edits'
    BY <1>2, <1>3 DEF CourseInv, Edits, EditSeen, NoCall
  <1>6. QED
    BY <1>4, <1>5 DEF CourseInv

-----------------------------------------------------------------------------
(* Modules and lessons *)

IsItem(row) == row \in [there : {"never", "yes", "no"}, position : {row.position}, video : BOOLEAN]
IsItems(rows) == rows = [i \in Items |-> rows[i]] /\ \A i \in Items : IsItem(rows[i])

\* The transactions about the content, and what each will write of what it read.
Content == {"create", "update", "remove", "reorder"}
Appends(c, i) ==
  /\ c.rows = {i} /\ c.list = List(i)
  /\ c.old[i].there = "never" /\ ~c.old[i].video
  /\ c.new[i].there = "yes" /\ c.new[i].position = Cardinality(Here(c.old, c.list))
Updates(c, i) ==
  /\ c.rows = {i} /\ c.list = List(i) /\ c.old[i].there = "yes"
  /\ c.new[i].there = c.old[i].there /\ c.new[i].position = c.old[i].position
  /\ c.old[i].video => c.new[i].video
Removes(c, i) == c.rows = {i} /\ c.list = List(i) /\ c.new[i].there = "no"
Reorders(c) ==
  LET here == Here(c.old, c.list)
  IN /\ c.rows = {i \in here : c.new[i].position # c.old[i].position}
     /\ \A i \in here : c.new[i].there = "yes" /\ (c.old[i].video => c.new[i].video)
     /\ {c.new[i].position : i \in here} = 0..(Cardinality(here) - 1)

WritesOK(c) ==
  /\ IsItems(c.old) /\ IsItems(c.new)
  /\ c.list \in Lists
  /\ \/ c.op = "create" /\ \E i \in Items : Appends(c, i)
     \/ c.op = "update" /\ \E i \in Items : Updates(c, i)
     \/ c.op = "remove" /\ \E i \in Items : Removes(c, i)
     \/ c.op = "reorder" /\ Reorders(c)

ContentInv ==
  /\ IsItems(item)
  /\ call = [a \in Admins |-> call[a]]
  /\ settled = [list \in Lists |-> settled[list]]
  /\ \A a \in Admins : call[a].op \in Content => WritesOK(call[a])
  /\ OrderIsTotal

\* The lists of the content are the course's and one of each module.
LEMMA ListType == \A i \in Items : List(i) \in Lists /\ List(i) \notin Lessons
  BY CoursesAssumption, StartAssumption DEF List, Lists, Items

\* There are finitely many rows to count.
LEMMA ItemsFinite == IsFiniteSet(Items)
  BY CoursesAssumption, FS_Union DEF Items

\* So there are in every list.
LEMMA HereFinite == \A rows, list : IsFiniteSet(Here(rows, list)) /\ Cardinality(Here(rows, list)) \in Nat
  <1> TAKE rows, list
  <1>1. Here(rows, list) \subseteq Items
    BY DEF Here
  <1>2. QED
    BY <1>1, ItemsFinite, FS_Subset, FS_CardinalityType

\* A list whose rows keep their places stays numbered.
LEMMA NumberedSame ==
  ASSUME NEW old, NEW new, NEW list, Numbered(old, list),
         \A i \in Items : List(i) = list => /\ new[i].there = old[i].there
                                           /\ new[i].position = old[i].position
  PROVE  Numbered(new, list)
  <1>1. Here(new, list) = Here(old, list)
    BY DEF Here
  <1>2. {new[i].position : i \in Here(old, list)} = {old[i].position : i \in Here(old, list)}
    BY DEF Here
  <1>3. QED
    BY <1>1, <1>2 DEF Numbered

\* A list without rows is numbered.
LEMMA NumberedEmpty ==
  ASSUME NEW rows, NEW list, Here(rows, list) = {}
  PROVE  Numbered(rows, list)
  BY FS_EmptySet DEF Numbered

\* swap() of a numbering is one.
LEMMA SwappedIsOrder ==
  ASSUME NEW H, NEW n \in Nat, NEW o \in Bijection(H, 0..(n - 1)), NEW i \in H, o[i] + 1 < n
  PROVE  /\ DOMAIN Swapped(o, i) = H
         /\ {Swapped(o, i)[j] : j \in H} = 0..(n - 1)
  <1> DEFINE f == Swapped(o, i)
  <1>1. o \in [H -> 0..(n - 1)] /\ \A k \in 0..(n - 1) : \E j \in H : o[j] = k
    BY DEF Bijection, Surjection, Injection
  <1>2. f = [j \in H |-> CASE o[j] = o[i]     -> o[j] + 1
                           [] o[j] = o[i] + 1 -> o[i]
                           [] OTHER           -> o[j]]
    BY <1>1 DEF Swapped
  <1> HIDE DEF f
  <1>3. \A j \in H : f[j] = IF o[j] = o[i] THEN o[j] + 1
                            ELSE IF o[j] = o[i] + 1 THEN o[i] ELSE o[j]
    <2> TAKE j \in H
    <2>1. o[j] \in Int /\ o[i] \in Int
      BY <1>1
    <2>2. QED
      BY <1>2, <2>1
  <1>4. \A j \in H : f[j] \in 0..(n - 1)
    BY <1>1, <1>3
  <1>5. ASSUME NEW k \in 0..(n - 1) PROVE \E j \in H : f[j] = k
    <2>1. o[i] \in 0..(n - 1)
      BY <1>1
    <2>2. CASE k = o[i] + 1
      BY <1>3, <2>2
    <2>3. CASE k = o[i]
      <3>1. PICK j \in H : o[j] = o[i] + 1
        BY <1>1, <2>1
      <3>2. f[j] = o[i]
        BY <1>3, <2>1, <3>1
      <3>3. QED
        BY <2>3, <3>2
    <2>4. CASE k # o[i] + 1 /\ k # o[i]
      <3>1. PICK j \in H : o[j] = k
        BY <1>1
      <3>2. QED
        BY <1>3, <2>4, <3>1
    <2>5. QED
      BY <2>2, <2>3, <2>4
  <1>6. QED
    BY <1>2, <1>4, <1>5 DEF f

\* The content at the start is in order.
LEMMA ContentInit == ASSUME NEW status, CoursesInit(status) PROVE ContentInv
  <1>1. item = Start /\ call = [a \in Admins |-> NoCall] /\ settled = [list \in Lists |-> TRUE]
    BY DEF CoursesInit
  <1>2. IsItems(item)
    <2>1. Start \in [Items -> ItemRow]
      BY StartAssumption
    <2>2. \A r \in ItemRow : IsItem(r)
      BY DEF ItemRow, IsItem
    <2>3. QED
      BY <1>1, <2>1, <2>2 DEF IsItems
  <1>3. OrderIsTotal
    BY <1>1, StartAssumption DEF OrderIsTotal
  <1>4. QED
    BY <1>1, <1>2, <1>3 DEF ContentInv, NoCall, Content

\* Where the rows stay as they are, only new transactions matter.
LEMMA ContentStays ==
  ASSUME ContentInv, UNCHANGED <<item, settled>>,
         call' = [a \in Admins |-> call'[a]],
         \A a \in Admins : \/ call'[a] = call[a]
                           \/ call'[a].op \notin Content
                           \/ WritesOK(call'[a])
  PROVE  ContentInv'
  <1>1. OrderIsTotal'
    BY DEF ContentInv, OrderIsTotal
  <1>2. QED
    BY <1>1 DEF ContentInv

\* A transaction that read the rows as they are.
LEMMA ContentBegins ==
  ASSUME ContentInv, NEW a \in Admins, NEW c, Begin(a, c), c.op \notin Content \/ WritesOK(c)
  PROVE  ContentInv'
  <1>1. call = [b \in Admins |-> call[b]]
    BY DEF ContentInv
  <1>2. QED
    BY <1>1, BeginFacts, ContentStays

\* What a request about the content is about to write, or why it is none of its kind.
LEMMA CreateInv ==
  ASSUME ContentInv, NEW a \in Admins, NEW i \in Items, NEW video \in BOOLEAN, Create(a, i, video)
  PROVE  ContentInv'
  <1> DEFINE new == [item EXCEPT ![i] = [there |-> "yes", video |-> video,
                                         position |-> Cardinality(Here(item, List(i)))]]
             c == Structure("create", new, {i}, List(i))
  <1>1. Begin(a, c) /\ item[i] = Unmade
    BY DEF Create
  <1>2. IsItems(item)
    BY DEF ContentInv
  <1>3. /\ new = [j \in Items |-> new[j]]
        /\ new[i] = [there |-> "yes", video |-> video, position |-> Cardinality(Here(item, List(i)))]
        /\ \A j \in Items \ {i} : new[j] = item[j]
    BY <1>2 DEF IsItems
  <1> HIDE DEF new
  <1>4. IsItems(new)
    <2>1. IsItem(new[i])
      BY <1>3 DEF IsItem
    <2>2. QED
      BY <1>2, <1>3, <2>1 DEF IsItems
  <1>5. c.old = item /\ c.new = new /\ c.rows = {i} /\ c.list = List(i) /\ c.op = "create"
    BY DEF Structure
  <1> HIDE DEF c
  <1>6. Appends(c, i)
    BY <1>1, <1>3, <1>5 DEF Appends, Unmade
  <1>7. WritesOK(c)
    BY <1>2, <1>4, <1>5, <1>6, ListType DEF WritesOK
  <1>8. QED
    BY <1>1, <1>7, ContentBegins

\* A lesson gets a title, or a file, and keeps its place.
LEMMA UpdateLessonInv ==
  ASSUME ContentInv, NEW a \in Admins, NEW i \in Lessons, NEW video \in BOOLEAN, UpdateLesson(a, i, video)
  PROVE  ContentInv'
  <1> DEFINE new == [item EXCEPT ![i] = Attached(item[i], video)]
             c == Structure("update", new, {i}, List(i))
  <1>0. i \in Items
    BY DEF Items
  <1>1. Begin(a, c) /\ item[i].there = "yes"
    BY DEF UpdateLesson
  <1>2. IsItems(item)
    BY DEF ContentInv
  <1>3. /\ new = [j \in Items |-> new[j]]
        /\ new[i] = Attached(item[i], video)
        /\ \A j \in Items \ {i} : new[j] = item[j]
    BY <1>0, <1>2 DEF IsItems
  <1> HIDE DEF new
  <1>4. /\ IsItem(new[i]) /\ new[i].there = item[i].there /\ new[i].position = item[i].position
        /\ item[i].video => new[i].video
    BY <1>0, <1>2, <1>3 DEF IsItems, IsItem, Attached
  <1>5. IsItems(new)
    BY <1>2, <1>3, <1>4 DEF IsItems
  <1>6. c.old = item /\ c.new = new /\ c.rows = {i} /\ c.list = List(i) /\ c.op = "update"
    BY DEF Structure
  <1> HIDE DEF c
  <1>7. Updates(c, i)
    BY <1>1, <1>4, <1>6 DEF Updates
  <1>8. WritesOK(c)
    BY <1>0, <1>2, <1>5, <1>6, <1>7, ListType DEF WritesOK
  <1>9. QED
    BY <1>1, <1>8, ContentBegins

\* A row goes.
LEMMA RemoveInv ==
  ASSUME ContentInv, NEW a \in Admins, NEW i \in Items, RemoveItem(a, i)
  PROVE  ContentInv'
  <1> DEFINE new == [item EXCEPT ![i] = Removed]
             c == Structure("remove", new, {i}, List(i))
  <1>1. Begin(a, c)
    BY DEF RemoveItem
  <1>2. IsItems(item)
    BY DEF ContentInv
  <1>3. /\ new = [j \in Items |-> new[j]] /\ new[i] = Removed
        /\ \A j \in Items \ {i} : new[j] = item[j]
    BY <1>2 DEF IsItems
  <1> HIDE DEF new
  <1>4. IsItem(Removed) /\ Removed.there = "no"
    BY DEF Removed, Unmade, IsItem
  <1>5. IsItems(new)
    BY <1>2, <1>3, <1>4 DEF IsItems
  <1>6. c.old = item /\ c.new = new /\ c.rows = {i} /\ c.list = List(i) /\ c.op = "remove"
    BY DEF Structure
  <1> HIDE DEF c
  <1>7. Removes(c, i)
    BY <1>3, <1>4, <1>6 DEF Removes
  <1>8. WritesOK(c)
    BY <1>2, <1>5, <1>6, <1>7, ListType DEF WritesOK
  <1>9. QED
    BY <1>1, <1>8, ContentBegins

\* An order that came from a page of any age, and names what is there, numbers it.
LEMMA ReorderInv ==
  ASSUME ContentInv, NEW a \in Admins, NEW list \in Lists, NEW rows,
         NEW order \in Moves(rows, list), Reorder(a, list, order)
  PROVE  ContentInv'
  <1> DEFINE here == Here(item, list)
             n    == Cardinality(here)
             new  == [i \in Items |-> IF i \in DOMAIN order
                                      THEN [item[i] EXCEPT !.position = NewPosition(order, i)]
                                      ELSE item[i]]
             c    == Structure("reorder", new,
                       {i \in DOMAIN order : NewPosition(order, i) # item[i].position}, list)
  <1>1. Begin(a, c) /\ DOMAIN order = here
    BY DEF Reorder
  <1>2. IsItems(item)
    BY DEF ContentInv
  <1>3. n \in Nat /\ here \subseteq Items
    BY HereFinite DEF Here
  <1>4. {order[i] : i \in here} = 0..(n - 1)
    <2>1. PICK o \in Listed(rows, list) : \E i \in DOMAIN o : /\ o[i] + 1 < Cardinality(DOMAIN o)
                                                             /\ order = Swapped(o, i)
      BY DEF Moves
    <2>2. PICK i \in DOMAIN o : o[i] + 1 < Cardinality(DOMAIN o) /\ order = Swapped(o, i)
      BY <2>1
    <2> DEFINE H == Here(rows, list)
               m == Cardinality(H)
    <2>3. o \in Bijection(H, 0..(m - 1)) /\ m \in Nat
      BY HereFinite DEF Listed
    <2>4. DOMAIN o = H
      BY <2>3 DEF Bijection, Injection
    <2> HIDE DEF H, m
    <2>5. DOMAIN order = H /\ {order[j] : j \in H} = 0..(m - 1)
      BY <2>2, <2>3, <2>4, SwappedIsOrder DEF m
    <2>6. H = here
      BY <1>1, <2>5
    <2>7. QED
      BY <2>5, <2>6 DEF m
  <1> HIDE DEF n
  <1>5. /\ \A i \in here : /\ new[i].position = order[i] /\ IsItem(new[i])
                           /\ new[i].there = item[i].there /\ new[i].video = item[i].video
        /\ \A i \in Items \ here : new[i] = item[i]
    <2>1. \A i \in here : new[i] = [item[i] EXCEPT !.position = order[i]] /\ IsItem(item[i])
      BY <1>1, <1>2, <1>3 DEF NewPosition, IsItems
    <2>2. ASSUME NEW i \in here
          PROVE  /\ [item[i] EXCEPT !.position = order[i]].position = order[i]
                 /\ IsItem([item[i] EXCEPT !.position = order[i]])
                 /\ [item[i] EXCEPT !.position = order[i]].there = item[i].there
                 /\ [item[i] EXCEPT !.position = order[i]].video = item[i].video
      BY <2>1 DEF IsItem
    <2>3. QED
      BY <1>1, <1>3, <2>1, <2>2
  <1>6. new = [i \in Items |-> new[i]]
    OBVIOUS
  <1> HIDE DEF new
  <1>7. IsItems(new)
    BY <1>2, <1>5, <1>6 DEF IsItems
  <1>8. c.old = item /\ c.new = new /\ c.list = list /\ c.op = "reorder"
        /\ c.rows = {i \in here : order[i] # item[i].position}
    BY <1>1 DEF Structure, NewPosition
  <1> HIDE DEF c
  <1>9. Reorders(c)
    <2>1. Here(c.old, c.list) = here
      BY <1>8
    <2>2. {new[i].position : i \in here} = {order[i] : i \in here}
      BY <1>5
    <2>3. \A i \in here : item[i].there = "yes"
      BY DEF Here
    <2>4. c.rows = {i \in here : new[i].position # item[i].position}
      BY <1>5, <1>8
    <2>5. \A i \in here : new[i].there = "yes" /\ (item[i].video => new[i].video)
      BY <1>5, <2>3
    <2>6. {new[i].position : i \in here} = 0..(Cardinality(here) - 1)
      BY <1>4, <2>2 DEF n
    <2> HIDE DEF here
    <2>7. QED
      BY <1>8, <2>1, <2>4, <2>5, <2>6 DEF Reorders
  <1>10. WritesOK(c)
    BY <1>2, <1>7, <1>8, <1>9 DEF WritesOK
  <1>11. QED
    BY <1>1, <1>10, ContentBegins

\* The content tab.
LEMMA ContentTabInv ==
  ASSUME ContentInv, NEW a \in Admins, ContentTab(a)
  PROVE  ContentInv'
  <1>1. Modules \subseteq Items /\ Lessons \subseteq Items /\ "course" \in Lists /\ Modules \subseteq Lists
    BY DEF Items, Lists
  <1>2. CASE AddModule(a) \/ AddLesson(a)
    BY <1>1, <1>2, CreateInv DEF AddModule, AddLesson, CreateModule, CreateLesson
  <1>3. CASE MoveModule(a) \/ MoveLesson(a)
    BY <1>1, <1>3, ReorderInv DEF MoveModule, MoveLesson, ReorderModules, ReorderLessons
  <1>4. CASE RemoveModule(a) \/ RemoveLesson(a)
    BY <1>1, <1>4, RemoveInv DEF RemoveModule, RemoveLesson, DeleteModule, DeleteLesson
  <1>5. CASE ToggleLesson(a)
    BY <1>5, UpdateLessonInv DEF ToggleLesson
  <1>6. CASE SaveLessonVideo(a)
    <2>1. PICK l \in Lessons, typed \in BOOLEAN : UpdateLesson(a, l, typed \/ Rows(a)[l].video)
      BY <1>6 DEF SaveLessonVideo
    <2>2. (typed \/ Rows(a)[l].video) \in BOOLEAN
      OBVIOUS
    <2>3. QED
      BY <2>1, <2>2, UpdateLessonInv
  <1>7. QED
    BY <1>2, <1>3, <1>4, <1>5, <1>6 DEF ContentTab

\* A transaction about the content commits.
LEMMA SaveStructureInv ==
  ASSUME ContentInv, NEW a \in Admins, SaveStructure(a)
  PROVE  ContentInv'
  <1> DEFINE c == call[a]
             ok(list) == settled[list] => Numbered(item, list)
  <1>1. /\ call = [b \in Admins |-> call[b]] /\ IsItems(item)
        /\ settled = [list \in Lists |-> settled[list]]
        /\ c.op \in Content /\ WritesOK(c)
    BY DEF ContentInv, SaveStructure, Content
  <1>2. /\ call' = [b \in Admins |-> call'[b]]
        /\ call'[a] = NoCall /\ \A b \in Admins \ {a} : call'[b] = call[b]
    BY <1>1, ReturnFacts DEF SaveStructure
  <1>3. NoCall.op \notin Content
    BY DEF NoCall, Content
  <1>4. CASE Refused(c)
    <2>1. UNCHANGED <<item, settled>>
      BY <1>4 DEF SaveStructure
    <2>2. QED
      BY <1>2, <1>3, <2>1, ContentStays
  <1>5. CASE ~Refused(c)
    <2>1. /\ item' = After(c)
          /\ settled' = [settled EXCEPT ![c.list] =
                           ~Moved(c) /\ (c.op = "reorder" \/ (settled[c.list] /\ c.op # "remove"))]
      BY <1>5 DEF SaveStructure
    <2>2. /\ item' = [i \in Items |-> item'[i]]
          /\ \A i \in Items :
               item'[i] = IF i \in c.rows THEN c.new[i]
                          ELSE IF c.op = "remove" /\ List(i) \in c.rows /\ item[i].there = "yes"
                               THEN Removed ELSE item[i]
      BY <2>1 DEF After
    <2>3. IsItems(item')
      <3>1. IsItem(Removed)
        BY DEF IsItem, Removed, Unmade
      <3>2. QED
        BY <1>1, <2>2, <3>1 DEF IsItems, WritesOK
    <2>4. /\ settled' = [list \in Lists |-> settled'[list]]
          /\ settled'[c.list] => /\ ~Moved(c)
                                 /\ c.op = "reorder" \/ (settled[c.list] /\ c.op # "remove")
          /\ \A list \in Lists \ {c.list} : settled'[list] = settled[list]
      BY <1>1, <2>1 DEF WritesOK
    <2>5. \A i \in c.rows : i \in Items /\ List(i) = c.list
      BY <1>1 DEF WritesOK, Appends, Updates, Removes, Reorders, Here
    <2>6. ASSUME NEW list \in Lists \ {c.list}, settled'[list] PROVE Numbered(item', list)
      <3>1. Numbered(item, list)
        BY <2>4, <2>6 DEF ContentInv, OrderIsTotal
      <3>2. CASE c.op = "remove" /\ list \in c.rows
        <4>1. \A i \in Items : List(i) = list => item'[i].there # "yes"
          BY <2>2, <2>5, <3>2 DEF Removed, Unmade
        <4>2. Here(item', list) = {}
          BY <4>1 DEF Here
        <4>3. QED
          BY <4>2, NumberedEmpty
      <3>3. CASE ~(c.op = "remove" /\ list \in c.rows)
        <4>1. \A i \in Items : List(i) = list => item'[i] = item[i]
          BY <2>2, <2>5, <3>3
        <4>2. QED
          BY <3>1, <4>1, NumberedSame
      <3>4. QED
        BY <3>2, <3>3
    <2>7. ASSUME settled'[c.list] PROVE Numbered(item', c.list)
      <3> DEFINE list == c.list
      <3>0. list \in Lists
        BY <1>1 DEF WritesOK
      <3>1. \A i \in Items : List(i) = list => /\ item[i].there = c.old[i].there
                                              /\ item[i].position = c.old[i].position
        BY <2>4, <2>7 DEF Moved
      <3>2. Here(item, list) = Here(c.old, list)
        BY <3>1 DEF Here
      <3>3. CASE c.op = "create"
        <4>1. PICK i \in Items : Appends(c, i)
          BY <1>1, <3>3 DEF WritesOK
        <4> DEFINE here == Here(item, list)
                   n    == Cardinality(here)
        <4>2. /\ \A j \in Items \ {i} : item'[j] = item[j]
              /\ item'[i].there = "yes" /\ item'[i].position = n /\ List(i) = list
          BY <2>2, <3>2, <3>3, <4>1 DEF Appends
        <4>3. i \notin here
          BY <3>1, <4>1 DEF Appends, Here
        <4>4. Here(item', list) = here \cup {i}
          BY <4>2 DEF Here
        <4>5. Cardinality(here \cup {i}) = n + 1 /\ n \in Nat
          BY <4>3, HereFinite, FS_AddElement
        <4>6. {item[j].position : j \in here} = 0..(n - 1)
          BY <2>4, <2>7, <3>0, <3>3 DEF ContentInv, OrderIsTotal, Numbered
        <4>7. here \subseteq Items
          BY DEF Here
        <4> HIDE DEF here, n
        <4>8. {item'[j].position : j \in here \cup {i}} = {item[j].position : j \in here} \cup {n}
          BY <4>2, <4>3, <4>7
        <4>9. 0..(n - 1) \cup {n} = 0..((n + 1) - 1)
          BY <4>5
        <4>10. QED
          BY <4>4, <4>5, <4>6, <4>8, <4>9 DEF Numbered
      <3>4. CASE c.op = "update"
        <4>1. PICK i \in Items : Updates(c, i)
          BY <1>1, <3>4 DEF WritesOK
        <4>2. Numbered(item, list)
          BY <2>4, <2>7, <3>0, <3>4 DEF ContentInv, OrderIsTotal
        <4>3. \A j \in Items : List(j) = list => /\ item'[j].there = item[j].there
                                                /\ item'[j].position = item[j].position
          BY <2>2, <3>1, <3>4, <4>1 DEF Updates
        <4>4. QED
          BY <4>2, <4>3, NumberedSame
      <3>5. CASE c.op = "reorder"
        <4>1. Reorders(c)
          BY <1>1, <3>5 DEF WritesOK
        <4> DEFINE here == Here(c.old, list)
        <4>2. \A i \in here : item'[i].position = c.new[i].position
          BY <2>2, <3>1, <3>5, <4>1 DEF Reorders, Here
        <4>3. Here(item', list) = here
          <5>1. \A i \in Items : List(i) = list => (item'[i].there = "yes" <=> c.old[i].there = "yes")
            BY <2>2, <3>1, <3>5, <4>1 DEF Reorders, Here
          <5>2. QED
            BY <5>1 DEF Here
        <4> HIDE DEF here
        <4>4. {item'[i].position : i \in here} = {c.new[i].position : i \in here}
          BY <4>2
        <4>5. QED
          BY <4>1, <4>3, <4>4 DEF Numbered, Reorders, here
      <3>6. QED
        BY <1>1, <2>4, <2>7, <3>3, <3>4, <3>5 DEF WritesOK
    <2>8. OrderIsTotal'
      BY <2>6, <2>7 DEF OrderIsTotal
    <2>9. QED
      BY <1>1, <1>2, <1>3, <2>3, <2>4, <2>8 DEF ContentInv
  <1>6. QED
    BY <1>4, <1>5

\* The course goes, and its content with it.
LEMMA DeleteContentInv ==
  ASSUME ContentInv, NEW a \in Admins, DeleteCourse(a)
  PROVE  ContentInv'
  <1>1. /\ call = [b \in Admins |-> call[b]] /\ IsItems(item)
        /\ settled = [list \in Lists |-> settled[list]]
    BY DEF ContentInv
  <1>2. /\ call' = [b \in Admins |-> call'[b]]
        /\ call'[a] = NoCall /\ \A b \in Admins \ {a} : call'[b] = call[b]
    BY <1>1, ReturnFacts DEF DeleteCourse
  <1>3. /\ item' = [i \in Items |-> item'[i]]
        /\ \A i \in Items : item'[i] = IF item[i].there = "yes" THEN Removed ELSE item[i]
        /\ settled' = settled
    BY DEF DeleteCourse
  <1>4. IsItem(Removed) /\ Removed.there = "no"
    BY DEF IsItem, Removed, Unmade
  <1>5. IsItems(item') /\ \A list : Here(item', list) = {}
    BY <1>1, <1>3, <1>4 DEF IsItems, Here
  <1>6. OrderIsTotal'
    BY <1>5, NumberedEmpty DEF OrderIsTotal
  <1>7. QED
    BY <1>1, <1>2, <1>3, <1>5, <1>6 DEF ContentInv, NoCall, Content

-----------------------------------------------------------------------------
(* The two together *)

\* The inductive invariant.
IInv ==
  /\ CourseInv
  /\ ContentInv

\* A request starts a transaction of one kind or the other, and writes nothing.
LEMMA StartsOne ==
  ASSUME NEW a \in Admins, CourseTabs(a) \/ CourseList(a) \/ ContentTab(a)
  PROVE  \E c : /\ Begin(a, c)
                /\ IF ContentTab(a) THEN c.op \in Content ELSE c.op \in {"course", "delete"}
  <1>1. ASSUME NEW i, NEW video, Create(a, i, video) PROVE \E c : Begin(a, c) /\ c.op \in Content
    BY <1>1 DEF Create, Structure, Content
  <1>2. ASSUME NEW i, NEW video, UpdateLesson(a, i, video) PROVE \E c : Begin(a, c) /\ c.op \in Content
    BY <1>2 DEF UpdateLesson, Structure, Content
  <1>3. ASSUME NEW i, RemoveItem(a, i) PROVE \E c : Begin(a, c) /\ c.op \in Content
    BY <1>3 DEF RemoveItem, Structure, Content
  <1>4. ASSUME NEW list, NEW order, Reorder(a, list, order) PROVE \E c : Begin(a, c) /\ c.op \in Content
    BY <1>4 DEF Reorder, Structure, Content
  <1>5. ASSUME NEW new, NEW snapshot, Begin(a, Editor(new, snapshot))
        PROVE  \E c : Begin(a, c) /\ c.op \in {"course", "delete"}
    <2>1. Editor(new, snapshot).op = "course"
      BY DEF Editor
    <2>2. QED
      BY <1>5, <2>1
  <1>6. ASSUME Delete(a)
        PROVE  \E c : Begin(a, c) /\ c.op \in {"course", "delete"}
    <2> DEFINE c == [Editor(course, FALSE) EXCEPT !.op = "delete"]
    <2>1. c.op = "delete"
      BY DEF Editor
    <2>2. Begin(a, c)
      BY <1>6 DEF Delete
    <2> HIDE DEF c
    <2>3. QED
      BY <2>1, <2>2
  <1>7. ContentTab(a) => \E c : Begin(a, c) /\ c.op \in Content
    BY <1>1, <1>2, <1>3, <1>4
    DEF ContentTab, AddModule, AddLesson, CreateModule, CreateLesson, MoveModule, MoveLesson,
        ReorderModules, ReorderLessons, RemoveModule, RemoveLesson, DeleteModule, DeleteLesson,
        ToggleLesson, SaveLessonVideo
  <1>8. CourseTabs(a) \/ CourseList(a) => \E c : Begin(a, c) /\ c.op \in {"course", "delete"}
    BY <1>5, <1>6
    DEF CourseTabs, CourseList, HandlePublish, HandleArchive, HandleDelete, HandleSubmit, HandleRestore,
        Publish, Archive, Update, RestoreVersion
  <1>9. QED
    BY <1>7, <1>8

\* Every step keeps it.
LEMMA StepInv == IInv /\ [Next]_vars => IInv'
  <1> SUFFICES ASSUME IInv, [Next]_vars PROVE IInv'
    OBVIOUS
  <1>1. CourseInv /\ ContentInv /\ call = [a \in Admins |-> call[a]]
    BY DEF IInv, ContentInv
  <1>2. CASE UNCHANGED courseVars
    BY <1>1, <1>2, CourseStays, ContentStays DEF courseVars, IInv
  <1>3. ASSUME NEW a \in Admins, CourseTabs(a) \/ CourseList(a) \/ ContentTab(a) PROVE IInv'
    <2>1. PICK c : /\ Begin(a, c)
                   /\ IF ContentTab(a) THEN c.op \in Content ELSE c.op \in {"course", "delete"}
      BY <1>3, StartsOne
    <2>2. CASE ContentTab(a)
      <3>1. c.op # "course"
        BY <2>1, <2>2 DEF Content
      <3>2. CourseInv'
        BY <1>1, <2>1, <3>1, BeginFacts, CourseStays
      <3>3. QED
        BY <1>1, <2>2, <3>2, ContentTabInv DEF IInv
    <2>3. CASE ~ContentTab(a)
      <3>1. ContentInv'
        BY <1>1, <2>1, <2>3, ContentBegins DEF Content
      <3>2. QED
        BY <1>1, <1>3, <2>3, <3>1, EditorsInv DEF IInv
    <2>4. QED
      BY <2>2, <2>3
  <1>4. ASSUME NEW a \in Admins, Answer(a) PROVE IInv'
    <2>1. CASE SaveCourse(a)
      <3>1. ContentInv'
        BY <1>1, <2>1, ReturnFacts, ContentStays DEF SaveCourse, NoCall, Content
      <3>2. QED
        BY <1>1, <2>1, <3>1, SaveInv DEF IInv
    <2>2. CASE DeleteCourse(a)
      BY <1>1, <2>2, DeleteInv, DeleteContentInv DEF IInv
    <2>3. CASE SaveStructure(a)
      <3>1. CourseInv'
        BY <1>1, <2>3, ReturnFacts, CourseStays DEF SaveStructure, NoCall
      <3>2. QED
        BY <1>1, <2>3, <3>1, SaveStructureInv DEF IInv
    <2>4. QED
      BY <1>4, <2>1, <2>2, <2>3 DEF Answer, Commit
  <1>5. QED
    BY <1>2, <1>3, <1>4 DEF Next, OpenPage, vars

-----------------------------------------------------------------------------
(* The theorems *)

\* Whatever transactions overlap, each one knows enough of what it read for the
\* service's checks to do, and the lists stay numbered where nothing disturbs them.
THEOREM Inductive == Spec => []IInv
  <1>1. Init => IInv
    BY CourseInit, ContentInit DEF IInv, Init
  <1>2. QED
    BY <1>1, StepInv, PTL DEF Spec

\* The next edit of a published course, and the next restoration, finds its
\* version number free.
THEOREM NextVersionIsFree == Spec => []VersionIsFree
  <1>1. IInv => VersionIsFree
    <2> SUFFICES ASSUME IInv, ~blind, NEW v \in versions PROVE v.version < course.version
      BY DEF VersionIsFree
    <2>1. versions # {} /\ course.version \in Nat
      BY DEF IInv, CourseInv, CourseTypes, IsCourse, CourseRow
    <2>2. v.version \in 1..(course.version - 1)
      BY <2>1 DEF IInv, CourseInv, CourseTypes, History
    <2>3. QED
      BY <2>1, <2>2
  <1>2. QED
    BY <1>1, Inductive, PTL

\* A course for sale has what publish() asked of its texts.
THEOREM ForSaleIsComplete == Spec => []PublishedIsComplete
  <1>1. IInv => PublishedIsComplete
    BY DEF IInv, CourseInv, History, PublishedIsComplete, Gone, Live, Covered
  <1>2. QED
    BY <1>1, Inductive, PTL

\* A list is numbered 0, 1, 2, ... unless a deletion or an overlap disturbed it.
THEOREM ListsAreNumbered == Spec => []OrderIsTotal
  <1>1. IInv => OrderIsTotal
    BY DEF IInv, ContentInv
  <1>2. QED
    BY <1>1, Inductive, PTL

\* Only an answer comes with a change of the rows.
LEMMA OnlyAnswers ==
  ASSUME [Next]_vars, ~(UNCHANGED <<course, item>>)
  PROVE  \E a \in Admins : Answer(a)
  <1>1. ASSUME NEW a \in Admins, CourseTabs(a) \/ CourseList(a) \/ ContentTab(a)
        PROVE  UNCHANGED <<course, item>>
    BY <1>1, StartsOne DEF Begin
  <1>2. QED
    BY <1>1 DEF Next, vars, courseVars, OpenPage

\* What a published course said is among its versions when it says something else:
\* the first half of KeptForStudents.
LEMMA Replaces ==
  ASSUME IInv, [Next]_vars
  PROVE  \/ blind'
         \/ course.status # "published" \/ course'.status = "gone"
         \/ course'.content = course.content
         \/ \E v \in versions' : v.content = course.content
  <1> SUFFICES ASSUME ~blind', Live(course), course'.status # "gone", course'.content # course.content
               PROVE  \E v \in versions' : v.content = course.content
    BY DEF Live
  <1>1. PICK a \in Admins : Commit(a)
    BY OnlyAnswers DEF Answer
  <1>2. SaveCourse(a)
    BY <1>1 DEF Commit, DeleteCourse, SaveStructure, IInv, CourseInv, CourseTypes, IsCourse, CourseRow
  <1> DEFINE c == call[a]
  <1>3. /\ course' = c.new /\ EditOK(c)
        /\ c.snapshot => c.old.content = course.content /\ versions' = versions \cup {Snapshot(c)}
        /\ ~c.snapshot => course = c.old
    BY <1>2, SaveFacts DEF IInv
  <1>4. c.snapshot
    BY <1>3 DEF EditOK, Live
  <1>5. Snapshot(c).content = course.content /\ Snapshot(c) \in versions'
    BY <1>3, <1>4 DEF Snapshot
  <1>6. QED
    BY <1>5

\* A lesson that loses its video does so to a transaction that had not seen it: the
\* second half.
LEMMA LosesUnseen ==
  ASSUME IInv, [Next]_vars, NEW l \in Lessons,
         item[l].video, item'[l].there = "yes", ~item'[l].video
  PROVE  \E a \in Admins : call'[a] # call[a] /\ ~call[a].old[l].video
  <1>1. l \in Items /\ IsItems(item) /\ call = [a \in Admins |-> call[a]]
    BY DEF Items, IInv, ContentInv
  <1>2. PICK a \in Admins : Commit(a)
    BY OnlyAnswers DEF Answer
  <1>3. SaveStructure(a)
    <2>1. ~DeleteCourse(a)
      BY <1>1 DEF DeleteCourse, Removed, Unmade
    <2>2. ~SaveCourse(a)
      BY DEF SaveCourse
    <2>3. QED
      BY <1>2, <2>1, <2>2 DEF Commit
  <1> DEFINE c == call[a]
  <1>4. WritesOK(c) /\ c.op \in Content
    BY <1>3 DEF IInv, ContentInv, SaveStructure, Content
  <1>5. item'[l] = IF l \in c.rows THEN c.new[l]
                   ELSE IF c.op = "remove" /\ List(l) \in c.rows /\ item[l].there = "yes"
                        THEN Removed ELSE item[l]
    BY <1>1, <1>3 DEF SaveStructure, After
  <1>6. l \in c.rows /\ item'[l] = c.new[l]
    BY <1>5 DEF Removed, Unmade
  <1>7. ~c.old[l].video
    BY <1>4, <1>6 DEF WritesOK, Appends, Updates, Removes, Reorders
  <1>8. call'[a] = NoCall
    BY <1>1, <1>3 DEF SaveStructure, Return
  <1>9. call'[a] # call[a]
    BY <1>4, <1>8 DEF NoCall, Content
  <1>10. QED
    BY <1>7, <1>9

\* What students could read or watch is kept, however the edits of the course and of
\* its lessons overlap.
THEOREM WordsAndVideosStay == Spec => KeptForStudents
  <1>1. IInv /\ [Next]_vars =>
          [\/ blind'
           \/ course.status # "published" \/ course'.status = "gone"
           \/ course'.content = course.content
           \/ \E v \in versions' : v.content = course.content]_courseVars
    BY Replaces
  <1>2. IInv /\ [Next]_vars =>
          [\A l \in Lessons :
             item[l].video /\ item'[l].there = "yes" /\ ~item'[l].video
               => \E a \in Admins : call'[a] # call[a] /\ ~call[a].old[l].video]_vars
    BY LosesUnseen
  <1>3. QED
    BY <1>1, <1>2, Inductive, PTL DEF Spec, KeptForStudents, ReplacedIsKept, VideoIsKept

-----------------------------------------------------------------------------
(* The content, as the learner's tabs come to see it *)

\* A row that is being made was never there, and nobody else makes it.
FreshInv ==
  \A a \in Admins : call[a].op = "create" =>
    /\ \A i \in call[a].rows : item[i].there = "never"
    /\ \A b \in Admins \ {a} : call[b].op = "create" => call[a].rows \cap call[b].rows = {}

\* A row is made, and removed, once.
Ages == \A i \in Items : /\ item[i].there = "no" => item'[i].there = "no"
                         /\ item[i].there = "yes" => item'[i].there # "never"

\* Nothing is made yet.
LEMMA FreshInitially == ASSUME NEW status, CoursesInit(status) PROVE FreshInv
  BY DEF CoursesInit, FreshInv, NoCall

\* A transaction that reads the rows changes none.
LEMMA FreshBegins ==
  ASSUME ContentInv, FreshInv, NEW a \in Admins, NEW c, Begin(a, c),
         c.op = "create" => /\ \A i \in c.rows : item[i].there = "never"
                            /\ \A b \in Admins \ {a} : call[b].op = "create" => c.rows \cap call[b].rows = {}
  PROVE  FreshInv' /\ Ages
  <1>1. /\ UNCHANGED item
        /\ call'[a] = c /\ \A b \in Admins \ {a} : call'[b] = call[b]
    BY BeginFacts DEF ContentInv
  <1>2. Ages
    BY <1>1 DEF Ages
  <1>3. ASSUME NEW b \in Admins, call'[b].op = "create"
        PROVE  /\ \A i \in call'[b].rows : item'[i].there = "never"
               /\ \A d \in Admins \ {b} : call'[d].op = "create" => call'[b].rows \cap call'[d].rows = {}
    <2>1. CASE b = a
      BY <1>1, <1>3, <2>1
    <2>2. CASE b # a
      BY <1>1, <1>3, <2>2 DEF FreshInv
    <2>3. QED
      BY <2>1, <2>2
  <1>4. QED
    BY <1>2, <1>3 DEF FreshInv

\* A transaction that commits makes its row, or removes or changes rows that are there.
LEMMA FreshCommits ==
  ASSUME ContentInv, FreshInv, NEW a \in Admins, Commit(a)
  PROVE  FreshInv' /\ Ages
  <1> DEFINE c == call[a]
  <1>1. /\ call' = [b \in Admins |-> call'[b]]
        /\ call'[a] = NoCall /\ \A b \in Admins \ {a} : call'[b] = call[b]
    BY ReturnFacts DEF ContentInv, Commit, SaveCourse, DeleteCourse, SaveStructure
  <1>2. NoCall.op # "create"
    BY DEF NoCall
  <1>3. IsItems(item)
    BY DEF ContentInv
  <1>4. ASSUME Ages,
               \A b \in Admins \ {a} : call[b].op = "create" =>
                 \A i \in call[b].rows : item'[i].there = "never"
        PROVE  FreshInv'
    BY <1>1, <1>2, <1>4 DEF FreshInv
  <1>5. CASE UNCHANGED item
    BY <1>4, <1>5 DEF FreshInv, Ages
  <1>6. CASE DeleteCourse(a)
    <2>1. \A i \in Items : item'[i] = IF item[i].there = "yes" THEN Removed ELSE item[i]
      BY <1>6 DEF DeleteCourse
    <2>2. Ages
      BY <2>1 DEF Ages, Removed, Unmade
    <2>3. ASSUME NEW b \in Admins \ {a}, call[b].op = "create", NEW i \in call[b].rows
          PROVE  item'[i].there = "never"
      <3>1. item[i].there = "never"
        BY <2>3 DEF FreshInv
      <3>2. i \in Items
        BY <2>3 DEF ContentInv, WritesOK, Content, Appends
      <3>3. QED
        BY <2>1, <3>1, <3>2
    <2>4. QED
      BY <1>4, <2>2, <2>3
  <1>7. CASE SaveStructure(a) /\ ~Refused(c)
    <2>1. /\ c.op \in Content /\ WritesOK(c)
          /\ \A i \in Items :
               item'[i] = IF i \in c.rows THEN c.new[i]
                          ELSE IF c.op = "remove" /\ List(i) \in c.rows /\ item[i].there = "yes"
                               THEN Removed ELSE item[i]
      BY <1>7 DEF ContentInv, SaveStructure, Content, After
    <2>2. c.op # "create" => \A i \in c.rows : item[i].there = "yes"
      BY <1>7 DEF Refused
    <2>3. c.op # "create" => \A i \in c.rows : c.new[i].there # "never"
      BY <2>1 DEF WritesOK, Updates, Removes, Reorders, Content
    <2>4. c.op = "create" => \A i \in c.rows : item[i].there = "never"
      BY DEF FreshInv
    <2>5. Removed.there = "no"
      BY DEF Removed, Unmade
    <2>6. Ages
      BY <2>1, <2>2, <2>3, <2>4, <2>5 DEF Ages
    <2>7. ASSUME NEW b \in Admins \ {a}, call[b].op = "create", NEW i \in call[b].rows
          PROVE  item'[i].there = "never"
      <3>1. item[i].there = "never" /\ (c.op = "create" => i \notin c.rows)
        BY <2>7 DEF FreshInv
      <3>2. i \in Items
        BY <2>7 DEF ContentInv, WritesOK, Content, Appends
      <3>3. i \notin c.rows
        BY <2>2, <3>1
      <3>4. QED
        BY <2>1, <3>1, <3>2, <3>3
    <2>8. QED
      BY <1>4, <2>6, <2>7
  <1>8. QED
    BY <1>5, <1>6, <1>7 DEF Commit, SaveCourse, SaveStructure

\* What the admins of the learner's course do keeps the content as the lists need it.
LEMMA AdminsInv ==
  ASSUME ContentInv, FreshInv, NEW a \in Admins, AdminStep(a)
  PROVE  ContentInv' /\ FreshInv' /\ Ages
  <1>1. ASSUME NEW c, Begin(a, c), c.op \in {"course", "delete"}
        PROVE  ContentInv' /\ FreshInv' /\ Ages
    BY <1>1, ContentBegins, FreshBegins DEF Content
  <1>2. ASSUME NEW l \in Lessons, CreateLesson(a, l, TRUE)
        PROVE  ContentInv' /\ FreshInv' /\ Ages
    <2>1. l \in Items
      BY DEF Items
    <2>2. ContentInv'
      BY <1>2, <2>1, CreateInv DEF CreateLesson
    <2> DEFINE new == [item EXCEPT ![l] = [there |-> "yes", video |-> TRUE,
                                           position |-> Cardinality(Here(item, List(l)))]]
               c == Structure("create", new, {l}, List(l))
    <2>3. /\ Begin(a, c) /\ item[l] = Unmade
          /\ \A b \in Admins : call[b].op = "create" => l \notin call[b].rows
      BY <1>2 DEF CreateLesson, Create
    <2>4. c.rows = {l}
      BY DEF Structure
    <2> HIDE DEF c
    <2>5. FreshInv' /\ Ages
      BY <2>3, <2>4, FreshBegins DEF Unmade
    <2>6. QED
      BY <2>2, <2>5
  <1>3. ASSUME NEW l \in Lessons, DeleteLesson(a, l)
        PROVE  ContentInv' /\ FreshInv' /\ Ages
    <2>1. l \in Items
      BY DEF Items
    <2>2. ContentInv'
      BY <1>3, <2>1, RemoveInv DEF DeleteLesson
    <2> DEFINE c == Structure("remove", [item EXCEPT ![l] = Removed], {l}, List(l))
    <2>3. Begin(a, c) /\ c.op = "remove"
      BY <1>3 DEF DeleteLesson, RemoveItem, Structure
    <2> HIDE DEF c
    <2>4. FreshInv' /\ Ages
      BY <2>3, FreshBegins
    <2>5. QED
      BY <2>2, <2>4
  <1>4. CASE Commit(a)
    <2>1. FreshInv' /\ Ages
      BY <1>4, FreshCommits
    <2>2. SaveCourse(a) => ContentInv'
      BY ReturnFacts, ContentStays DEF SaveCourse, NoCall, Content, ContentInv
    <2>3. QED
      BY <1>4, <2>1, <2>2, DeleteContentInv, SaveStructureInv DEF Commit
  <1>5. ASSUME NEW form \in Contents, Update(a, form)
        PROVE  ContentInv' /\ FreshInv' /\ Ages
    BY <1>1, <1>5 DEF Update, Editor
  <1>6. CASE Archive(a)
    BY <1>1, <1>6 DEF Archive, Editor
  <1>7. CASE Delete(a)
    <2> DEFINE c == [Editor(course, FALSE) EXCEPT !.op = "delete"]
    <2>1. Begin(a, c) /\ c.op = "delete"
      BY <1>7 DEF Delete, Editor
    <2> HIDE DEF c
    <2>2. QED
      BY <1>1, <2>1
  <1>8. QED
    BY <1>2, <1>3, <1>4, <1>5, <1>6, <1>7 DEF AdminStep

-----------------------------------------------------------------------------
(* Progress, and the player *)

\* The rows and the requests have their types.
StudyTypes ==
  /\ enrollment \in Enrollment
  /\ progress \in [Lessons -> Progress]
  /\ tab \in [Tabs -> Tab]
  /\ screen \in [Tabs -> Screen]
  /\ crossed \in BOOLEAN

Calling == {"save", "ask", "count", "commit"}
Known(l) == item[l].there # "never"
Completed == {l \in Lessons : Done(l)}

\* A call for progress names a lesson that a page showed.  One that completes a lesson
\* found it open, holds its row, and counts no less than what it said it counted, unless a
\* call wrote unseen: completed lessons stay completed.
CallOf(t) ==
  LET c == tab[t]
  IN /\ c.pc \in Calling => c.lesson \in Lessons /\ Known(c.lesson) /\ enrollment # "none"
     /\ c.pc = "save" /\ c.done => c.old = "completed" \/ enrollment = "completed"
     /\ c.pc \in {"ask", "count", "commit"} => c.old # "completed"
     /\ c.pc \in {"count", "commit"} => /\ \A l \in c.named : Known(l)
                                        /\ NeverRemoved => c.lesson \in c.named
     /\ c.pc = "commit" /\ ~crossed =>
          /\ progress[c.lesson] = c.old
          /\ c.ends => Cardinality(Completed \cup {c.lesson}) >= Cardinality(c.named)
          /\ ~c.ends /\ ~c.since => \/ Cardinality(Completed \cup {c.lesson}) < Cardinality(c.named)
                                    \/ c.named = {}

\* One call at a time holds the row of a lesson.
Apart == \A t, u \in Tabs :
  At(t, "commit") /\ At(u, "commit") /\ tab[t].lesson = tab[u].lesson => t = u

\* Progress is made by who is enrolled, with lessons that were there; what the last lesson
\* completes is so at any time.
RowsInv ==
  /\ enrollment = "none" => \A l \in Lessons : progress[l] = "none"
  /\ \A l \in Lessons : progress[l] # "none" => Known(l)
  /\ ~crossed /\ NeverRemoved /\ There(item) # {} /\ enrollment # "none" =>
       ((\A l \in There(item) : Done(l)) => enrollment = "completed")

\* A player shows lessons that were there, and as done those that are.
ScreenOf(t) ==
  Sees(t, "player") =>
    /\ enrollment # "none"
    /\ \A l \in Playable(t) : Known(l)
    /\ Ticked(t) \subseteq Playable(t)
    /\ ~crossed => Ticked(t) \subseteq Completed

\* The inductive invariant.
StudyInv ==
  /\ ContentInv /\ FreshInv
  /\ StudyTypes
  /\ \A t \in Tabs : CallOf(t) /\ ScreenOf(t)
  /\ Apart
  /\ RowsInv

\* What never goes back: enrolled, completed, made, removed, and with the exception of
\* calls that wrote unseen, done.
Later ==
  /\ enrollment # "none" => enrollment' # "none"
  /\ enrollment = "completed" => enrollment' = "completed"
  /\ \A l \in Lessons : Known(l) => Known(l)'
  /\ NeverRemoved' => NeverRemoved
  /\ crossed => crossed'
  /\ ~crossed' => Completed \subseteq Completed'

\* There are finitely many lessons.
LEMMA LessonsFinite ==
  \A S \in SUBSET Lessons :
    /\ IsFiniteSet(S) /\ Cardinality(S) \in Nat /\ (Cardinality(S) = 0 <=> S = {})
    /\ \A T \in SUBSET S : Cardinality(T) <= Cardinality(S) /\ (Cardinality(T) = Cardinality(S) => T = S)
  <1> SUFFICES ASSUME NEW S \in SUBSET Lessons
               PROVE  /\ IsFiniteSet(S) /\ Cardinality(S) \in Nat /\ (Cardinality(S) = 0 <=> S = {})
                      /\ \A T \in SUBSET S : /\ Cardinality(T) <= Cardinality(S)
                                             /\ Cardinality(T) = Cardinality(S) => T = S
    OBVIOUS
  <1>1. IsFiniteSet(S)
    BY CoursesAssumption, FS_Subset
  <1>2. Cardinality(S) \in Nat /\ (Cardinality(S) = 0 <=> S = {})
    BY <1>1, FS_CardinalityType, FS_EmptySet
  <1>3. ASSUME NEW T \in SUBSET S
        PROVE  Cardinality(T) <= Cardinality(S) /\ (Cardinality(T) = Cardinality(S) => T = S)
    BY <1>1, <1>3, FS_Subset
  <1>4. QED
    BY <1>1, <1>2, <1>3

\* A call that takes no step is what it was, though others write.
LEMMA CallKept ==
  ASSUME StudyTypes, StudyTypes', Later, NEW u \in Tabs, CallOf(u),
         tab'[u].pc = tab[u].pc, tab'[u].lesson = tab[u].lesson, tab'[u].done = tab[u].done,
         tab'[u].old = tab[u].old, tab'[u].named = tab[u].named, tab'[u].ends = tab[u].ends,
         tab'[u].since = tab[u].since \/ tab'[u].since = TRUE,
         At(u, "commit") => /\ crossed' \/ progress'[tab[u].lesson] = progress[tab[u].lesson]
                            /\ tab'[u].since \/ Completed' = Completed
  PROVE  CallOf(u)'
  <1> DEFINE c == tab[u]
             d == tab'[u]
  <1>1. /\ c.named \in SUBSET Lessons /\ c.since \in BOOLEAN /\ d.since \in BOOLEAN
        /\ c.ends \in BOOLEAN /\ crossed \in BOOLEAN /\ crossed' \in BOOLEAN
    BY DEF StudyTypes, Tab
  <1>2. d.pc \in Calling => d.lesson \in Lessons /\ item'[d.lesson].there # "never" /\ enrollment' # "none"
    BY DEF CallOf, Later, Known
  <1>3. /\ d.pc = "save" /\ d.done => d.old = "completed" \/ enrollment' = "completed"
        /\ d.pc \in {"ask", "count", "commit"} => d.old # "completed"
    BY DEF CallOf, Later
  <1>4. d.pc \in {"count", "commit"} => /\ \A l \in d.named : item'[l].there # "never"
                                        /\ NeverRemoved' => d.lesson \in d.named
    BY <1>1 DEF CallOf, Later, Known
  <1>5. ASSUME d.pc = "commit", ~crossed'
        PROVE  /\ progress'[d.lesson] = d.old
               /\ d.ends => Cardinality(Completed' \cup {d.lesson}) >= Cardinality(d.named)
               /\ ~d.ends /\ ~d.since => \/ Cardinality(Completed' \cup {d.lesson}) < Cardinality(d.named)
                                         \/ d.named = {}
    <2>1. ~crossed /\ c.pc = "commit" /\ Completed \subseteq Completed' /\ c.lesson \in Lessons
      BY <1>5 DEF CallOf, Later, Calling
    <2>2. progress'[d.lesson] = d.old
      BY <1>5, <2>1 DEF CallOf, At
    <2>3. ASSUME d.ends PROVE Cardinality(Completed' \cup {d.lesson}) >= Cardinality(d.named)
      <3>1. Cardinality(Completed \cup {c.lesson}) >= Cardinality(c.named)
        BY <2>1, <2>3 DEF CallOf
      <3>2. /\ Completed' \cup {c.lesson} \in SUBSET Lessons
            /\ Completed \cup {c.lesson} \in SUBSET (Completed' \cup {c.lesson})
        BY <2>1 DEF Completed
      <3>3. /\ Cardinality(Completed \cup {c.lesson}) <= Cardinality(Completed' \cup {c.lesson})
            /\ Cardinality(Completed' \cup {c.lesson}) \in Nat
            /\ Cardinality(c.named) \in Nat
        BY <1>1, <3>2, LessonsFinite
      <3>4. Cardinality(Completed \cup {c.lesson}) \in Nat
        BY <2>1, LessonsFinite DEF Completed
      <3>5. QED
        BY <3>1, <3>3, <3>4
    <2>4. ASSUME ~d.ends, ~d.since
          PROVE  Cardinality(Completed' \cup {d.lesson}) < Cardinality(d.named) \/ d.named = {}
      <3>1. ~c.since /\ Completed' = Completed
        BY <1>1, <2>1, <2>4 DEF At
      <3>2. QED
        BY <2>1, <2>4, <3>1 DEF CallOf
    <2>5. QED
      BY <2>2, <2>3, <2>4
  <1>6. QED
    BY <1>2, <1>3, <1>4, <1>5 DEF CallOf, Known

\* A player that stays open shows what it showed.
LEMMA ScreenKept ==
  ASSUME Later, NEW t \in Tabs, ScreenOf(t),
         Sees(t, "player")' => Sees(t, "player") /\ screen'[t].course = screen[t].course,
         screen[t].course \in [there : SUBSET Lessons, done : SUBSET Lessons] \/ ~Sees(t, "player")
  PROVE  ScreenOf(t)'
  BY DEF Later, ScreenOf, Playable, Ticked

\* What a player shows are lessons.
LEMMA PlayerType ==
  ASSUME StudyTypes, NEW t \in Tabs, Sees(t, "player")
  PROVE  /\ screen[t] \in [at : {"player"}, mine : BOOLEAN,
                           course : [there : SUBSET Lessons, done : SUBSET Lessons]]
         /\ screen[t].course \in [there : SUBSET Lessons, done : SUBSET Lessons]
  <1>1. screen[t] \in Screen /\ screen[t].at = "player"
    BY DEF StudyTypes, Sees
  <1>2. QED
    BY <1>1 DEF Screen

\* The lessons there are, where none was removed.
LEMMA ThereIs == NeverRemoved /\ ContentInv => There(item) = {l \in Lessons : Known(l)}
  <1> SUFFICES ASSUME NeverRemoved, ContentInv PROVE There(item) = {l \in Lessons : Known(l)}
    OBVIOUS
  <1>1. \A l \in Lessons : item[l].there \in {"never", "yes", "no"}
    BY DEF ContentInv, IsItems, IsItem, Items
  <1>2. QED
    BY <1>1 DEF There, Known, NeverRemoved

\* The course does not change.
LEMMA CourseSame ==
  ASSUME ContentInv, FreshInv, UNCHANGED courseVars
  PROVE  /\ ContentInv' /\ FreshInv'
         /\ \A l \in Lessons : Known(l)' <=> Known(l)
         /\ NeverRemoved' <=> NeverRemoved
         /\ There(item') = There(item)
  <1>1. UNCHANGED <<item, call, settled>>
    BY DEF courseVars
  <1>2. ContentInv'
    BY <1>1, ContentStays DEF ContentInv
  <1>3. FreshInv'
    BY <1>1 DEF FreshInv
  <1>4. QED
    BY <1>1, <1>2, <1>3 DEF Known, NeverRemoved

\* The rows stay as they are, and the requests: what is shown matters.
LEMMA RowsStay ==
  ASSUME StudyInv, UNCHANGED <<courseVars, enrollment, progress, tab, crossed>>,
         screen' \in [Tabs -> Screen], \A t \in Tabs : ScreenOf(t)'
  PROVE  StudyInv'
  <1>1. /\ ContentInv' /\ FreshInv'
        /\ \A l \in Lessons : Known(l)' <=> Known(l)
        /\ NeverRemoved' <=> NeverRemoved
        /\ There(item') = There(item)
    BY CourseSame DEF StudyInv
  <1>2. StudyTypes'
    BY DEF StudyInv, StudyTypes
  <1>3. Completed' = Completed
    BY DEF Completed, Done
  <1>4. Later
    BY <1>1, <1>3 DEF Later
  <1>5. ASSUME NEW t \in Tabs PROVE CallOf(t)'
    BY <1>2, <1>3, <1>4, CallKept DEF StudyInv
  <1>6. Apart'
    BY DEF StudyInv, Apart, At
  <1>7. RowsInv'
    BY <1>1 DEF StudyInv, RowsInv, Done
  <1>8. QED
    BY <1>1, <1>2, <1>5, <1>6, <1>7 DEF StudyInv

\* A tab shows something else than the player, or its player what it showed.
LEMMA ShowsInv ==
  ASSUME StudyInv, UNCHANGED <<courseVars, enrollment, progress, tab, crossed>>,
         screen' \in [Tabs -> Screen],
         \A t \in Tabs : Sees(t, "player")' =>
           Sees(t, "player") /\ screen'[t].course = screen[t].course
  PROVE  StudyInv'
  <1>1. Later
    BY CourseSame DEF StudyInv, Later, Completed, Done
  <1>2. ASSUME NEW t \in Tabs PROVE ScreenOf(t)'
    BY <1>1, ScreenKept, PlayerType DEF StudyInv
  <1>3. QED
    BY <1>2, RowsStay

\* What a checkout shows.
LEMMA CheckoutType ==
  ASSUME StudyTypes, NEW t \in Tabs, Sees(t, "checkout")
  PROVE  screen[t] \in [at : {"checkout"}, polls : 0..MaxPolls,
                        phase : {"form", "processing", "confirming", "success", "failed", "stuck"}]
  <1>1. screen[t] \in Screen /\ screen[t].at = "checkout"
    BY DEF StudyTypes, Sees
  <1>2. QED
    BY <1>1 DEF Screen

\* The page of the course and the checkout read the rows, and write none.
LEMMA ShopInv ==
  ASSUME StudyInv, NEW t \in Tabs,
         \/ OpenCourse(t) \/ OpenCheckout(t) \/ HandlePay(t) \/ NotPaid(t)
         \/ HandlePaystackSuccess(t) \/ Poll(t) \/ PollFails(t)
  PROVE  StudyInv'
  <1>1. UNCHANGED <<courseVars, enrollment, progress, tab, crossed>>
    BY DEF OpenCourse, OpenCheckout, HandlePay, NotPaid, HandlePaystackSuccess, Poll, PollFails,
       learnerVars, enrollmentVars
  <1>2. StudyTypes /\ MaxPolls \in Nat
    BY LearnerPagesAssumption DEF StudyInv
  <1>3. ASSUME NEW new \in Screen, Show(t, new), new.at # "player"
        PROVE  StudyInv'
    <2>1. /\ screen' \in [Tabs -> Screen]
          /\ screen'[t] = new /\ \A u \in Tabs \ {t} : screen'[u] = screen[u]
      BY <1>2, <1>3 DEF Show, StudyTypes
    <2>2. QED
      BY <1>1, <1>3, <2>1, ShowsInv DEF Sees
  <1>4. CASE OpenCourse(t)
    <2>1. [at |-> "course", free |-> IsFree] \in Screen
      BY DEF Screen, IsFree
    <2>2. QED
      BY <1>3, <1>4, <2>1 DEF OpenCourse
  <1>5. CASE OpenCheckout(t)
    <2>1. [at |-> "checkout", phase |-> "form", polls |-> 0] \in Screen
      BY <1>2 DEF Screen
    <2>2. QED
      BY <1>3, <1>5, <2>1 DEF OpenCheckout
  <1>6. CASE HandlePay(t) \/ NotPaid(t) \/ HandlePaystackSuccess(t) \/ Poll(t) \/ PollFails(t)
    <2>1. Sees(t, "checkout")
      BY <1>6 DEF HandlePay, CanPay, NotPaid, HandlePaystackSuccess, Poll, PollFails, Phase
    <2>2. screen[t] \in [at : {"checkout"}, polls : 0..MaxPolls,
                         phase : {"form", "processing", "confirming", "success", "failed", "stuck"}]
      BY <1>2, <2>1, CheckoutType
    <2>3. ASSUME NEW phase \in {"form", "processing", "confirming", "success", "failed", "stuck"},
                 NEW n \in 0..MaxPolls
          PROVE  /\ [screen[t] EXCEPT !.phase = phase] \in Screen
                 /\ [screen[t] EXCEPT !.phase = phase].at = "checkout"
                 /\ [screen[t] EXCEPT !.polls = n] \in Screen
                 /\ [screen[t] EXCEPT !.polls = n].at = "checkout"
                 /\ [screen[t] EXCEPT !.phase = phase, !.polls = n] \in Screen
                 /\ [screen[t] EXCEPT !.phase = phase, !.polls = n].at = "checkout"
      BY <2>2 DEF Screen
    <2>4. 0 \in 0..MaxPolls
      BY <1>2
    <2>5. CASE HandlePay(t) \/ NotPaid(t) \/ HandlePaystackSuccess(t) \/ PollFails(t)
      BY <1>3, <2>3, <2>4, <2>5 DEF HandlePay, NotPaid, HandlePaystackSuccess, PollFails
    <2>6. CASE Poll(t)
      <3>1. CASE enrollment # "none" \/ screen[t].polls + 1 >= MaxPolls
        <4>1. Show(t, [screen[t] EXCEPT !.phase = "success"])
          BY <2>6, <3>1 DEF Poll
        <4>2. QED
          BY <1>3, <2>3, <2>4, <4>1
      <3>2. CASE ~(enrollment # "none" \/ screen[t].polls + 1 >= MaxPolls)
        <4>1. screen[t].polls + 1 \in 0..MaxPolls
          BY <1>2, <2>2, <3>2
        <4>2. Show(t, [screen[t] EXCEPT !.polls = screen[t].polls + 1])
          BY <2>6, <3>2 DEF Poll
        <4>3. QED
          BY <1>3, <2>3, <4>1, <4>2
      <3>3. QED
        BY <3>1, <3>2
    <2>7. QED
      BY <1>6, <2>5, <2>6
  <1>7. QED
    BY <1>4, <1>5, <1>6

\* getLearnState(): the lessons there are, and those that are done.
LEMMA OpenPlayerInv ==
  ASSUME StudyInv, NEW t \in Tabs, OpenPlayer(t)
  PROVE  StudyInv'
  <1> DEFINE new == [at |-> "player", course |-> LearnState, mine |-> review # NoReview]
  <1>1. /\ UNCHANGED <<courseVars, enrollment, progress, tab, crossed>>
        /\ enrollment # "none" /\ Show(t, new)
    BY DEF OpenPlayer, learnerVars, enrollmentVars
  <1>2. LearnState \in [there : SUBSET Lessons, done : SUBSET Lessons]
    BY DEF LearnState, There
  <1>3. new \in Screen /\ new.at = "player" /\ new.course = LearnState
    BY <1>2 DEF Screen
  <1> HIDE DEF new
  <1>4. /\ screen' \in [Tabs -> Screen]
        /\ screen'[t] = new /\ \A u \in Tabs \ {t} : screen'[u] = screen[u]
    BY <1>1, <1>3 DEF StudyInv, StudyTypes, Show
  <1>5. Later
    BY <1>1, CourseSame DEF StudyInv, Later, Completed, Done
  <1>6. ScreenOf(t)'
    <2>1. /\ \A l \in There(item) : l \in Lessons /\ Known(l)
          /\ LearnState.there = There(item) /\ LearnState.done = There(item) \cap Completed
      BY DEF There, Known, LearnState, Completed
    <2>2. Completed' = Completed /\ \A l \in Lessons : Known(l)' <=> Known(l)
      BY <1>1, CourseSame DEF StudyInv, Completed, Done
    <2>3. Playable(t)' = There(item) /\ Ticked(t)' = There(item) \cap Completed
      BY <1>3, <1>4, <2>1 DEF Playable, Ticked
    <2>4. QED
      BY <1>1, <2>1, <2>2, <2>3 DEF ScreenOf
  <1>7. ASSUME NEW u \in Tabs \ {t} PROVE ScreenOf(u)'
    BY <1>4, <1>5, ScreenKept, PlayerType DEF StudyInv, Sees
  <1>8. QED
    BY <1>1, <1>4, <1>6, <1>7, RowsStay

\* A review is written or decided about: the player learns of its own.
LEMMA ReviewingInv ==
  ASSUME StudyInv,
         \/ \E m \in Moderators : HandleModerate(m) \/ Moderated(m)
         \/ \E t \in Tabs : HandleReview(t) \/ ReviewSaved(t)
         \/ WindowCloses \/ AnnounceSale \/ UNCHANGED studyVars
  PROVE  StudyInv'
  <1>1. UNCHANGED <<courseVars, enrollment, progress, tab, crossed>>
    BY DEF HandleModerate, Moderated, HandleReview, ReviewSaved, WindowCloses, AnnounceSale, SaleUnannounced,
       PaymentCompleted, learnerVars, enrollmentVars, studyVars
  <1>2. CASE UNCHANGED screen
    BY <1>1, <1>2, ShowsInv DEF StudyInv, StudyTypes, Sees
  <1>3. ASSUME NEW t \in Tabs, Sees(t, "player"), screen' = [screen EXCEPT ![t].mine = TRUE]
        PROVE  StudyInv'
    <2> DEFINE new == [screen[t] EXCEPT !.mine = TRUE]
    <2>1. screen[t] \in [at : {"player"}, mine : BOOLEAN,
                         course : [there : SUBSET Lessons, done : SUBSET Lessons]]
      BY <1>3, PlayerType DEF StudyInv
    <2>2. /\ new \in [at : {"player"}, mine : BOOLEAN,
                      course : [there : SUBSET Lessons, done : SUBSET Lessons]]
          /\ new.course = screen[t].course
      BY <2>1
    <2>3. screen' = [screen EXCEPT ![t] = new]
      BY <1>3
    <2> HIDE DEF new
    <2>4. new \in Screen
      BY <2>2 DEF Screen
    <2>5. /\ screen' \in [Tabs -> Screen]
          /\ screen'[t] = new /\ \A u \in Tabs \ {t} : screen'[u] = screen[u]
      BY <2>3, <2>4 DEF StudyInv, StudyTypes
    <2>6. QED
      BY <1>1, <1>3, <2>2, <2>5, ShowsInv DEF Sees
  <1>4. ASSUME NEW t \in Tabs, ReviewSaved(t)
        PROVE  UNCHANGED screen \/ (Sees(t, "player") /\ screen' = [screen EXCEPT ![t].mine = TRUE])
    BY <1>4 DEF ReviewSaved
  <1>5. QED
    BY <1>2, <1>3, <1>4 DEF HandleModerate, Moderated, HandleReview, WindowCloses, AnnounceSale, SaleUnannounced, studyVars

\* What a tab asks for, or is done with.
LEMMA GotoFacts ==
  ASSUME StudyTypes, NEW t \in Tabs, NEW new \in Tab, Goto(t, new)
  PROVE  /\ tab' \in [Tabs -> Tab]
         /\ tab'[t] = new /\ \A u \in Tabs \ {t} : tab'[u] = tab[u]
  BY DEF StudyTypes, Goto

\* An idle tab asks for nothing.
LEMMA NoTabType == NoTab \in Tab /\ NoTab.pc \notin Calling
  BY DEF NoTab, Tab, Progress, Calling

\* The enrollment is made, or a request for it goes on, or any request is given up.
LEMMA EnrollingInv ==
  ASSUME StudyInv, UNCHANGED <<courseVars, progress, crossed, screen>>,
         enrollment' = enrollment \/ (enrollment = "none" /\ enrollment' = "active"),
         tab' \in [Tabs -> Tab], \A t \in Tabs : tab'[t] = tab[t] \/ tab'[t].pc \notin Calling
  PROVE  StudyInv'
  <1>1. /\ ContentInv' /\ FreshInv'
        /\ \A l \in Lessons : Known(l)' <=> Known(l)
        /\ NeverRemoved' <=> NeverRemoved
        /\ There(item') = There(item)
    BY CourseSame DEF StudyInv
  <1>2. StudyTypes'
    BY DEF StudyInv, StudyTypes, Enrollment
  <1>3. Completed' = Completed
    BY DEF Completed, Done
  <1>4. Later
    BY <1>1, <1>3 DEF Later
  <1>5. ASSUME NEW t \in Tabs PROVE CallOf(t)' /\ ScreenOf(t)'
    <2>1. tab'[t] = tab[t] => CallOf(t)'
      BY <1>2, <1>3, <1>4, CallKept DEF StudyInv
    <2>2. tab'[t].pc \notin Calling => CallOf(t)'
      BY DEF CallOf, Calling
    <2>3. ScreenOf(t)'
      BY <1>4, ScreenKept, PlayerType DEF StudyInv, Sees
    <2>4. QED
      BY <2>1, <2>2, <2>3
  <1>6. Apart'
    BY DEF StudyInv, Apart, At, Calling
  <1>7. RowsInv'
    <2>1. enrollment' = "active" /\ enrollment = "none" => \A l \in Lessons : ~Done(l)
      BY DEF StudyInv, RowsInv, Done
    <2>2. There(item) \subseteq Lessons
      BY DEF There
    <2>3. QED
      BY <1>1, <2>1, <2>2 DEF StudyInv, RowsInv, Done
  <1>8. QED
    BY <1>1, <1>2, <1>5, <1>6, <1>7 DEF StudyInv

\* EnrollmentService.enrollFree() and enrollFromPayment(), and what stops them.
LEMMA EnrollsInv ==
  ASSUME StudyInv,
         \/ \E t \in Tabs : HandleEnrollFree(t) \/ EnrollStep(t)
         \/ ListenerStep \/ FaultStep
  PROVE  StudyInv'
  <1>1. StudyTypes
    BY DEF StudyInv
  <1>2. CASE ListenerStep \/ ((DeliveryFails \/ ListenerDies) /\ UNCHANGED Others)
    <2>1. UNCHANGED <<courseVars, progress, crossed, screen, tab>>
      BY <1>2 DEF ListenerStep, Listening, OnPaymentCompleted, PublishPaid, EnrollFromPayment,
         DeliveryFails, ListenerDies, Others
    <2>2. enrollment' = enrollment \/ (enrollment = "none" /\ enrollment' = "active")
      BY <1>2 DEF ListenerStep, Listening, OnPaymentCompleted, PublishPaid, EnrollFromPayment,
         DeliveryFails, ListenerDies, CreateEnrollment
    <2>3. QED
      BY <1>1, <2>1, <2>2, EnrollingInv DEF StudyTypes
  <1>3. ASSUME NEW t \in Tabs, HandleEnrollFree(t) \/ EnrollStep(t) \/ (RollBack(t) /\ UNCHANGED Others)
        PROVE  StudyInv'
    <2>1. UNCHANGED <<courseVars, progress, crossed, screen>>
      BY <1>3 DEF HandleEnrollFree, EnrollFree, EnrollStep, PublishEnrolled, Enroll, RollBack, Others
    <2>2. enrollment' = enrollment \/ (enrollment = "none" /\ enrollment' = "active")
      BY <1>3 DEF HandleEnrollFree, EnrollFree, EnrollStep, PublishEnrolled, Enroll, RollBack,
         CreateEnrollment, enrollmentVars
    <2>3. PICK new \in Tab : Goto(t, new) /\ new.pc \notin Calling
      <3>1. tab[t] \in Tab
        BY <1>1 DEF StudyTypes
      <3>2. CASE HandleEnrollFree(t)
        <4>1. [NoTab EXCEPT !.pc = "publish"] \in Tab /\ [NoTab EXCEPT !.pc = "publish"].pc \notin Calling
          BY DEF NoTab, Tab, Progress, Calling
        <4>2. QED
          BY <3>2, <4>1 DEF HandleEnrollFree, EnrollFree
      <3>3. CASE PublishEnrolled(t)
        <4>1. [tab[t] EXCEPT !.pc = "insert"] \in Tab /\ [tab[t] EXCEPT !.pc = "insert"].pc \notin Calling
          BY <3>1 DEF Tab, Calling
        <4>2. QED
          BY <3>3, <4>1 DEF PublishEnrolled
      <3>4. CASE Enroll(t) \/ RollBack(t)
        BY <3>4, NoTabType DEF Enroll, RollBack
      <3>5. QED
        BY <1>3, <3>2, <3>3, <3>4 DEF EnrollStep
    <2>4. /\ tab' \in [Tabs -> Tab]
          /\ tab'[t] = new /\ \A u \in Tabs \ {t} : tab'[u] = tab[u]
      BY <1>1, <2>3, GotoFacts
    <2>5. QED
      BY <2>1, <2>2, <2>3, <2>4, EnrollingInv
  <1>4. QED
    BY <1>2, <1>3 DEF FaultStep

\* A call that reads the rows, or finds that it cannot write, changes only itself.
LEMMA CallingInv ==
  ASSUME StudyInv, UNCHANGED <<courseVars, enrollment, progress, screen>>,
         crossed' \in BOOLEAN, crossed => crossed',
         NEW t \in Tabs, NEW new \in Tab, Goto(t, new), CallOf(t)',
         new.pc = "commit" => \A u \in Tabs \ {t} : At(u, "commit") => tab[u].lesson # new.lesson
  PROVE  StudyInv'
  <1>1. /\ ContentInv' /\ FreshInv'
        /\ \A l \in Lessons : Known(l)' <=> Known(l)
        /\ NeverRemoved' <=> NeverRemoved
        /\ There(item') = There(item)
    BY CourseSame DEF StudyInv
  <1>2. /\ tab' \in [Tabs -> Tab]
        /\ tab'[t] = new /\ \A u \in Tabs \ {t} : tab'[u] = tab[u]
    BY GotoFacts DEF StudyInv
  <1>3. StudyTypes'
    BY <1>2 DEF StudyInv, StudyTypes
  <1>4. Completed' = Completed
    BY DEF Completed, Done
  <1>5. Later
    BY <1>1, <1>4 DEF Later
  <1>6. ASSUME NEW u \in Tabs PROVE CallOf(u)' /\ ScreenOf(u)'
    <2>1. u # t => CallOf(u)'
      BY <1>2, <1>3, <1>4, <1>5, CallKept DEF StudyInv
    <2>2. ScreenOf(u)'
      BY <1>5, ScreenKept, PlayerType DEF StudyInv, Sees
    <2>3. QED
      BY <2>1, <2>2
  <1>7. Apart'
    BY <1>2 DEF StudyInv, Apart, At
  <1>8. RowsInv'
    BY <1>1 DEF StudyInv, RowsInv, Done
  <1>9. QED
    BY <1>1, <1>3, <1>6, <1>7, <1>8 DEF StudyInv

\* The player reports a lesson that it shows.
LEMMA ReportsInv ==
  ASSUME StudyInv, NEW t \in Tabs, SyncProgress(t) \/ HandleMarkComplete(t)
  PROVE  StudyInv'
  <1>1. /\ Sees(t, "player")
        /\ UNCHANGED <<courseVars, screen>>
        /\ \E l \in Playable(t), done \in BOOLEAN : UpdateProgress(t, l, done)
    BY DEF SyncProgress, HandleMarkComplete, Others
  <1>2. PICK l \in Playable(t), done \in BOOLEAN : UpdateProgress(t, l, done)
    BY <1>1
  <1>3. /\ l \in Lessons /\ Known(l) /\ enrollment # "none"
    BY <1>1, PlayerType DEF StudyInv, ScreenOf, Playable
  <1> DEFINE new == [NoTab EXCEPT
                       !.pc = IF done /\ ~Done(l) /\ enrollment # "completed" THEN "ask" ELSE "save",
                       !.lesson = l, !.done = done, !.old = progress[l]]
  <1>4. Goto(t, new) /\ UNCHANGED <<enrollment, progress, crossed>>
    BY <1>2 DEF UpdateProgress, enrollmentVars
  <1>5. /\ new \in Tab /\ new.lesson = l /\ new.done = done /\ new.old = progress[l]
        /\ new.pc = IF done /\ ~Done(l) /\ enrollment # "completed" THEN "ask" ELSE "save"
    <2>1. progress[l] \in Progress
      BY <1>3 DEF StudyInv, StudyTypes
    <2>2. QED
      BY <1>3, <2>1 DEF NoTab, Tab
  <1> HIDE DEF new
  <1>6. tab'[t] = new
    BY <1>4, <1>5, GotoFacts DEF StudyInv
  <1>7. CallOf(t)'
    BY <1>1, <1>3, <1>4, <1>5, <1>6 DEF CallOf, Calling, Known, Done, courseVars
  <1>8. QED
    BY <1>1, <1>4, <1>5, <1>7, CallingInv DEF StudyInv, StudyTypes

\* maybeCompleteEnrollment() asks course-service for the lessons there are.
LEMMA GetCourseInv ==
  ASSUME StudyInv, NEW t \in Tabs, GetCourse(t), UNCHANGED Others
  PROVE  StudyInv'
  <1>1. /\ At(t, "ask") /\ UNCHANGED <<courseVars, screen, enrollment, progress, crossed>>
        /\ tab[t] \in Tab /\ CallOf(t)
    BY DEF GetCourse, Others, enrollmentVars, StudyInv, StudyTypes
  <1> DEFINE new == [tab[t] EXCEPT !.pc = "count", !.named = There(item)]
  <1>2. CASE Gone
    <2>1. Goto(t, NoTab)
      BY <1>2 DEF GetCourse
    <2>2. tab'[t] = NoTab
      BY <2>1, GotoFacts, NoTabType DEF StudyInv
    <2>3. CallOf(t)' /\ NoTab.pc # "commit"
      BY <2>2, NoTabType DEF CallOf, Calling
    <2>4. QED
      BY <1>1, <2>1, <2>3, NoTabType, CallingInv DEF StudyInv, StudyTypes
  <1>3. CASE ~Gone
    <2>1. Goto(t, new)
      BY <1>3 DEF GetCourse
    <2>2. /\ new \in Tab /\ new.pc = "count" /\ new.named = There(item)
          /\ new.lesson = tab[t].lesson /\ new.old = tab[t].old
      BY <1>1 DEF Tab, There
    <2> HIDE DEF new
    <2>3. tab'[t] = new
      BY <2>1, <2>2, GotoFacts DEF StudyInv
    <2>4. tab[t].lesson \in Lessons /\ Known(tab[t].lesson) /\ enrollment # "none" /\ tab[t].old # "completed"
      BY <1>1 DEF CallOf, At, Calling
    <2>5. NeverRemoved => tab[t].lesson \in There(item)
      BY <2>4, ThereIs DEF StudyInv
    <2>6. \A l \in There(item) : Known(l)
      BY DEF There, Known
    <2>7. item' = item
      BY <1>1 DEF courseVars
    <2>8. CallOf(t)'
      BY <1>1, <2>2, <2>3, <2>4, <2>5, <2>6, <2>7 DEF CallOf, Calling, Known, NeverRemoved
    <2>9. QED
      BY <1>1, <2>1, <2>2, <2>8, CallingInv DEF StudyInv, StudyTypes
  <1>4. QED
    BY <1>2, <1>3

\* It counts what is done with the lesson it will write, whose row it holds from now on.
LEMMA CountInv ==
  ASSUME StudyInv, NEW t \in Tabs, CountLessons(t), UNCHANGED Others
  PROVE  StudyInv'
  <1>1. /\ At(t, "count") /\ ~Locked(t, tab[t].lesson)
        /\ UNCHANGED <<courseVars, screen, enrollment, progress>>
        /\ tab[t] \in Tab /\ CallOf(t)
    BY DEF CountLessons, Others, enrollmentVars, StudyInv, StudyTypes
  <1> DEFINE ends == TotalLessons(t) > 0 /\ CompletedLessons(t) >= TotalLessons(t)
             new  == [tab[t] EXCEPT !.pc = "commit", !.ends = ends]
  <1>2. CASE Refuses(t)
    <2>1. Goto(t, NoTab) /\ UNCHANGED crossed
      BY <1>2 DEF CountLessons
    <2>2. tab'[t] = NoTab
      BY <2>1, GotoFacts, NoTabType DEF StudyInv
    <2>3. CallOf(t)' /\ NoTab.pc # "commit"
      BY <2>2, NoTabType DEF CallOf, Calling
    <2>4. QED
      BY <1>1, <2>1, <2>3, NoTabType, CallingInv DEF StudyInv, StudyTypes
  <1>3. CASE ~Refuses(t)
    <2>1. Goto(t, new) /\ crossed' = (crossed \/ Overwrites(t))
      BY <1>3 DEF CountLessons
    <2>2. ends \in BOOLEAN
      OBVIOUS
    <2>3. /\ new \in Tab /\ new.pc = "commit" /\ new.named = tab[t].named /\ new.ends = ends
          /\ new.lesson = tab[t].lesson /\ new.old = tab[t].old
      BY <1>1, <2>2 DEF Tab
    <2> HIDE DEF new
    <2>4. tab'[t] = new
      BY <2>1, <2>3, GotoFacts DEF StudyInv
    <2>5. /\ tab[t].lesson \in Lessons /\ Known(tab[t].lesson) /\ enrollment # "none"
          /\ tab[t].old # "completed"
          /\ \A l \in tab[t].named : Known(l)
          /\ NeverRemoved => tab[t].lesson \in tab[t].named
      BY <1>1 DEF CallOf, At, Calling
    <2>6. item' = item /\ Completed' = Completed
      BY <1>1 DEF courseVars, Completed, Done
    <2>7. /\ CompletedLessons(t) = Cardinality(Completed \cup {tab[t].lesson})
          /\ TotalLessons(t) = Cardinality(tab[t].named)
      BY DEF CompletedLessons, TotalLessons, Completed
    <2>8. ~crossed' => progress[tab[t].lesson] = tab[t].old
      BY <2>1 DEF Overwrites
    <2>9. /\ Cardinality(Completed \cup {tab[t].lesson}) \in Nat
          /\ Cardinality(tab[t].named) \in Nat
          /\ Cardinality(tab[t].named) = 0 => tab[t].named = {}
      BY <1>1, <2>5, LessonsFinite DEF Completed, Tab
    <2>10. /\ ends => Cardinality(Completed \cup {tab[t].lesson}) >= Cardinality(tab[t].named)
           /\ ~ends => \/ Cardinality(Completed \cup {tab[t].lesson}) < Cardinality(tab[t].named)
                       \/ tab[t].named = {}
      BY <2>7, <2>9
    <2> HIDE DEF ends
    <2>11. CallOf(t)'
      BY <1>1, <2>3, <2>4, <2>5, <2>6, <2>8, <2>10 DEF CallOf, Calling, Known, NeverRemoved
    <2>12. \A u \in Tabs \ {t} : At(u, "commit") => tab[u].lesson # new.lesson
      BY <1>1, <2>3 DEF Locked
    <2>13. crossed' \in BOOLEAN /\ (crossed => crossed')
      BY <2>1 DEF StudyInv, StudyTypes
    <2>14. QED
      BY <1>1, <2>1, <2>3, <2>11, <2>12, <2>13, CallingInv
  <1>4. QED
    BY <1>2, <1>3

\* A call that writes ends, and those that have counted take note.
LEMMA WroteFacts ==
  ASSUME StudyTypes, NEW t \in Tabs, Wrote(t)
  PROVE  /\ tab' \in [Tabs -> Tab] /\ tab'[t] = NoTab
         /\ \A u \in Tabs \ {t} :
              /\ tab'[u].pc = tab[u].pc /\ tab'[u].lesson = tab[u].lesson
              /\ tab'[u].done = tab[u].done /\ tab'[u].old = tab[u].old
              /\ tab'[u].named = tab[u].named /\ tab'[u].ends = tab[u].ends
              /\ tab'[u].since = tab[u].since \/ tab'[u].since = TRUE
              /\ At(u, "commit") => tab'[u].since = TRUE
  <1>1. /\ tab' = [u \in Tabs |-> tab'[u]] /\ tab'[t] = NoTab
        /\ \A u \in Tabs \ {t} : tab'[u] = IF At(u, "commit") THEN [tab[u] EXCEPT !.since = TRUE] ELSE tab[u]
    BY DEF Wrote
  <1>2. ASSUME NEW u \in Tabs \ {t}
        PROVE  /\ tab'[u] \in Tab
               /\ tab'[u].pc = tab[u].pc /\ tab'[u].lesson = tab[u].lesson
               /\ tab'[u].done = tab[u].done /\ tab'[u].old = tab[u].old
               /\ tab'[u].named = tab[u].named /\ tab'[u].ends = tab[u].ends
               /\ tab'[u].since = tab[u].since \/ tab'[u].since = TRUE
               /\ At(u, "commit") => tab'[u].since = TRUE
    <2>1. tab[u] \in Tab
      BY DEF StudyTypes
    <2>2. QED
      BY <1>1, <2>1 DEF Tab
  <1>3. QED
    BY <1>1, <1>2, NoTabType

\* A call writes the row of its lesson, which no other holds.
LEMMA WritesInv ==
  ASSUME StudyInv, NEW t \in Tabs, Wrote(t), UNCHANGED <<courseVars, screen>>,
         NEW l \in Lessons, Known(l), NEW status \in Progress,
         progress' = [progress EXCEPT ![l] = status],
         enrollment # "none", enrollment' \in {enrollment, "completed"},
         crossed' \in BOOLEAN, crossed => crossed',
         ~crossed' /\ Done(l) => status = "completed",
         \A u \in Tabs \ {t} : At(u, "commit") => tab[u].lesson # l,
         /\ ~crossed' /\ NeverRemoved /\ There(item) # {}
         /\ \A k \in There(item) : progress'[k] = "completed"
         => enrollment' = "completed"
  PROVE  StudyInv'
  <1>1. /\ ContentInv' /\ FreshInv'
        /\ \A k \in Lessons : Known(k)' <=> Known(k)
        /\ NeverRemoved' <=> NeverRemoved
        /\ There(item') = There(item)
    BY CourseSame DEF StudyInv
  <1>2. /\ tab' \in [Tabs -> Tab] /\ tab'[t] = NoTab
        /\ \A u \in Tabs \ {t} :
             /\ tab'[u].pc = tab[u].pc /\ tab'[u].lesson = tab[u].lesson
             /\ tab'[u].done = tab[u].done /\ tab'[u].old = tab[u].old
             /\ tab'[u].named = tab[u].named /\ tab'[u].ends = tab[u].ends
             /\ tab'[u].since = tab[u].since \/ tab'[u].since = TRUE
             /\ At(u, "commit") => tab'[u].since = TRUE
    BY WroteFacts DEF StudyInv
  <1>3. /\ progress' \in [Lessons -> Progress]
        /\ progress'[l] = status /\ \A k \in Lessons \ {l} : progress'[k] = progress[k]
    BY DEF StudyInv, StudyTypes
  <1>4. StudyTypes'
    BY <1>2, <1>3 DEF StudyInv, StudyTypes, Enrollment
  <1>5. ~crossed' => Completed \subseteq Completed'
    BY <1>3 DEF Completed, Done
  <1>6. Later
    BY <1>1, <1>5 DEF Later
  <1>7. ASSUME NEW u \in Tabs PROVE CallOf(u)' /\ ScreenOf(u)'
    <2>1. u # t => CallOf(u)'
      <3>1. ASSUME u # t, At(u, "commit") PROVE progress'[tab[u].lesson] = progress[tab[u].lesson]
        BY <1>3, <3>1 DEF StudyInv, CallOf, At, Calling
      <3>2. QED
        BY <1>2, <1>4, <1>6, <3>1, CallKept DEF StudyInv
    <2>2. u = t => CallOf(u)'
      BY <1>2, NoTabType DEF CallOf, Calling
    <2>3. ScreenOf(u)'
      BY <1>6, ScreenKept, PlayerType DEF StudyInv, Sees
    <2>4. QED
      BY <2>1, <2>2, <2>3
  <1>8. Apart'
    BY <1>2, NoTabType DEF StudyInv, Apart, At, Calling
  <1>9. RowsInv'
    <2>1. enrollment' # "none"
      OBVIOUS
    <2>2. \A k \in Lessons : progress'[k] # "none" => Known(k)'
      BY <1>1, <1>3 DEF StudyInv, RowsInv
    <2>3. QED
      BY <1>1, <2>1, <2>2 DEF RowsInv, Done
  <1>10. QED
    BY <1>1, <1>4, <1>7, <1>8, <1>9 DEF StudyInv

\* A call that counts nothing writes where it left off, or what was done already.
LEMMA SaveProgressInv ==
  ASSUME StudyInv, NEW t \in Tabs, SaveProgress(t), UNCHANGED Others
  PROVE  StudyInv'
  <1> DEFINE l == tab[t].lesson
  <1>1. /\ At(t, "save") /\ ~Locked(t, l) /\ UNCHANGED <<courseVars, screen, enrollment>>
        /\ tab[t] \in Tab /\ CallOf(t)
    BY DEF SaveProgress, Others, enrollmentVars, StudyInv, StudyTypes
  <1>2. /\ l \in Lessons /\ Known(l) /\ enrollment # "none"
        /\ tab[t].done => tab[t].old = "completed" \/ enrollment = "completed"
    BY <1>1 DEF CallOf, At, Calling
  <1>3. CASE Refuses(t)
    <2>1. Goto(t, NoTab) /\ UNCHANGED <<progress, crossed>>
      BY <1>3 DEF SaveProgress
    <2>2. tab'[t] = NoTab
      BY <2>1, GotoFacts, NoTabType DEF StudyInv
    <2>3. CallOf(t)' /\ NoTab.pc # "commit"
      BY <2>2, NoTabType DEF CallOf, Calling
    <2>4. QED
      BY <1>1, <2>1, <2>3, NoTabType, CallingInv DEF StudyInv, StudyTypes
  <1>4. CASE ~Refuses(t)
    <2>1. /\ Wrote(t) /\ progress' = [progress EXCEPT ![l] = NewStatus(t)]
          /\ crossed' = (crossed \/ Overwrites(t))
      BY <1>4 DEF SaveProgress
    <2>2. NewStatus(t) \in Progress /\ progress[l] \in Progress
      BY <1>2 DEF NewStatus, Progress, StudyInv, StudyTypes
    <2>3. crossed' \in BOOLEAN /\ (crossed => crossed')
      BY <2>1 DEF StudyInv, StudyTypes
    <2>4. ~crossed' => ~crossed /\ progress[l] = tab[t].old
      BY <2>1 DEF Overwrites
    <2>5. ~crossed' /\ Done(l) => NewStatus(t) = "completed"
      BY <2>4 DEF Done, NewStatus
    <2>6. \A u \in Tabs \ {t} : At(u, "commit") => tab[u].lesson # l
      BY <1>1 DEF Locked
    <2>7. ASSUME ~crossed', NeverRemoved, There(item) # {},
                 \A k \in There(item) : progress'[k] = "completed"
          PROVE  enrollment' = "completed"
      <3>1. CASE enrollment = "completed"
        BY <1>1, <3>1
      <3>2. CASE enrollment # "completed"
        <4>1. NewStatus(t) = "completed" => Done(l)
          BY <1>2, <2>4, <2>7, <3>2 DEF NewStatus, Done
        <4>2. \A k \in There(item) : k \in Lessons
          BY DEF There
        <4>3. progress'[l] = NewStatus(t) /\ \A k \in Lessons \ {l} : progress'[k] = progress[k]
          BY <1>2, <2>1 DEF StudyInv, StudyTypes
        <4>4. \A k \in There(item) : Done(k)
          BY <2>7, <4>1, <4>2, <4>3 DEF Done
        <4>5. QED
          BY <1>1, <1>2, <2>4, <2>7, <4>4 DEF StudyInv, RowsInv
      <3>3. QED
        BY <3>1, <3>2
    <2>8. QED
      BY <1>1, <1>2, <2>1, <2>2, <2>3, <2>5, <2>6, <2>7, WritesInv
  <1>5. QED
    BY <1>3, <1>4

\* A call that counted completes its lesson, and with the last one the enrollment.
LEMMA CommitProgressInv ==
  ASSUME StudyInv, NEW t \in Tabs, CommitProgress(t), UNCHANGED Others
  PROVE  StudyInv'
  <1> DEFINE c == tab[t]
             l == c.lesson
  <1>1. /\ At(t, "commit") /\ Wrote(t) /\ UNCHANGED <<courseVars, screen>>
        /\ progress' = [progress EXCEPT ![l] = "completed"]
        /\ enrollment' = IF c.ends THEN "completed" ELSE enrollment
        /\ crossed' = (crossed \/ c.since)
        /\ c \in Tab /\ CallOf(t)
    BY DEF CommitProgress, Others, StudyInv, StudyTypes
  <1>2. /\ l \in Lessons /\ Known(l) /\ enrollment # "none"
        /\ \A k \in c.named : Known(k)
        /\ NeverRemoved => l \in c.named
    BY <1>1 DEF CallOf, At, Calling
  <1>3. crossed' \in BOOLEAN /\ (crossed => crossed') /\ "completed" \in Progress
    BY <1>1 DEF StudyInv, StudyTypes, Tab, Progress
  <1>4. \A u \in Tabs \ {t} : At(u, "commit") => tab[u].lesson # l
    BY <1>1 DEF StudyInv, Apart
  <1>5. ASSUME ~crossed', NeverRemoved, There(item) # {},
               \A k \in There(item) : progress'[k] = "completed"
        PROVE  enrollment' = "completed"
    <2>1. ~crossed /\ ~c.since
      BY <1>1, <1>5
    <2>2. c.named \in SUBSET There(item)
      <3>1. c.named \in SUBSET Lessons
        BY <1>1 DEF Tab
      <3>2. QED
        BY <1>2, <1>5, <3>1, ThereIs DEF StudyInv
    <2>3. There(item) \in SUBSET (Completed \cup {l})
      <3>1. \A k \in Lessons \ {l} : progress'[k] = progress[k]
        BY <1>1 DEF StudyInv, StudyTypes
      <3>2. QED
        BY <1>5, <3>1 DEF There, Completed, Done
    <2>4. /\ Cardinality(c.named) <= Cardinality(Completed \cup {l})
          /\ Cardinality(c.named) \in Nat /\ Cardinality(Completed \cup {l}) \in Nat
      <3>1. Completed \cup {l} \in SUBSET Lessons /\ c.named \in SUBSET (Completed \cup {l})
        BY <1>2, <2>2, <2>3 DEF Completed
      <3>2. QED
        BY <1>1, <3>1, LessonsFinite DEF Tab
    <2>5. c.named # {}
      BY <1>2, <1>5
    <2>6. c.ends
      BY <1>1, <2>1, <2>4, <2>5 DEF CallOf, At
    <2>7. QED
      BY <1>1, <2>6
  <1>6. enrollment' \in {enrollment, "completed"}
    BY <1>1
  <1> HIDE DEF l, c
  <1>7. QED
    BY <1>1, <1>2, <1>3, <1>4, <1>5, <1>6, WritesInv

\* The admins make and remove lessons under the learner's hands.
LEMMA EditedInv ==
  ASSUME StudyInv, NEW a \in Admins, AdminStep(a)
  PROVE  StudyInv'
  <1>1. ContentInv' /\ FreshInv' /\ Ages
    BY AdminsInv DEF StudyInv
  <1>2. UNCHANGED <<enrollment, progress, tab, crossed, screen>>
    BY DEF AdminStep, learnerVars, enrollmentVars
  <1>3. StudyTypes'
    BY <1>2 DEF StudyInv, StudyTypes
  <1>4. Completed' = Completed
    BY <1>2 DEF Completed, Done
  <1>5. \A l \in Lessons : l \in Items /\ item[l].there \in {"never", "yes", "no"}
    BY DEF StudyInv, ContentInv, IsItems, IsItem, Items
  <1>6. /\ \A l \in Lessons : Known(l) => Known(l)'
        /\ NeverRemoved' => NeverRemoved
    BY <1>1, <1>5 DEF Ages, Known, NeverRemoved
  <1>7. Later
    BY <1>2, <1>4, <1>6 DEF Later
  <1>8. ASSUME NEW t \in Tabs PROVE CallOf(t)' /\ ScreenOf(t)'
    BY <1>2, <1>3, <1>4, <1>7, CallKept, ScreenKept, PlayerType DEF StudyInv, Sees
  <1>9. Apart'
    BY <1>2 DEF StudyInv, Apart, At
  <1>10. RowsInv'
    <2>1. ASSUME ~crossed, NeverRemoved', There(item)' # {}, enrollment # "none",
                 \A l \in There(item)' : Done(l)
          PROVE  enrollment = "completed"
      <3>1. NeverRemoved /\ There(item) = {l \in Lessons : Known(l)}
        BY <1>6, <2>1, ThereIs DEF StudyInv
      <3>2. There(item)' = {l \in Lessons : Known(l)'}
        <4>1. \A l \in Lessons : item'[l].there \in {"never", "yes", "no"}
          BY <1>1 DEF ContentInv, IsItems, IsItem, Items
        <4>2. QED
          BY <2>1, <4>1 DEF There, Known, NeverRemoved
      <3>3. \A l \in There(item)' : l \in Lessons /\ Known(l)
        BY <2>1, <3>2 DEF StudyInv, RowsInv, Done
      <3>4. There(item) # {} /\ \A l \in There(item) : Done(l)
        BY <1>6, <2>1, <3>1, <3>2, <3>3
      <3>5. QED
        BY <2>1, <3>1, <3>4 DEF StudyInv, RowsInv
    <2>2. QED
      BY <1>2, <1>6, <2>1 DEF StudyInv, RowsInv, Done
  <1>11. QED
    BY <1>1, <1>3, <1>8, <1>9, <1>10 DEF StudyInv

-----------------------------------------------------------------------------
(* The learner, from the start and step by step *)

\* Nothing bought yet, nothing seen yet, or everything; no call, and no page.
LEMMA StudyStarts == StudyInit => StudyInv
  <1> SUFFICES ASSUME StudyInit PROVE StudyInv
    OBVIOUS
  <1>1. PICK status \in Enrollment : LearnerInit(status)
    BY DEF StudyInit, Enrollment
  <1>2. /\ enrollment = status /\ tab = [t \in Tabs |-> NoTab] /\ crossed = FALSE
        /\ progress = [l \in Lessons |-> IF status = "completed" /\ item[l].there = "yes"
                                         THEN "completed" ELSE "none"]
        /\ screen = [t \in Tabs |-> NoScreen]
    BY <1>1 DEF LearnerInit, StudyInit
  <1>3. ContentInv /\ FreshInv
    BY ContentInit, FreshInitially DEF StudyInit
  <1>4. StudyTypes
    <2>1. NoScreen \in Screen
      BY DEF NoScreen, Screen
    <2>2. \A l \in Lessons : progress[l] \in Progress
      BY <1>2 DEF Progress
    <2>3. QED
      BY <1>2, <2>1, <2>2, NoTabType DEF StudyTypes
  <1>5. \A t \in Tabs : CallOf(t) /\ ScreenOf(t)
    BY <1>2, NoTabType DEF CallOf, ScreenOf, Sees, NoScreen, Calling
  <1>6. Apart
    BY <1>2, NoTabType DEF Apart, At, Calling
  <1>7. RowsInv
    BY <1>2 DEF RowsInv, Known, Done, There, Enrollment
  <1>8. QED
    BY <1>3, <1>4, <1>5, <1>6, <1>7 DEF StudyInv

\* Every step keeps it.
LEMMA StudyStep == StudyInv /\ [StudyNext]_studyVars => StudyInv'
  <1> SUFFICES ASSUME StudyInv, [StudyNext]_studyVars PROVE StudyInv'
    OBVIOUS
  <1>1. ASSUME NEW t \in Tabs, ProgressStep(t)
        PROVE  StudyInv'
    BY <1>1, SaveProgressInv, GetCourseInv, CountInv, CommitProgressInv DEF ProgressStep, Progressing
  <1>2. ASSUME NEW a \in Admins, AdminStep(a)
        PROVE  StudyInv'
    BY <1>2, EditedInv
  <1>3. ASSUME NEW t \in Tabs,
               \/ OpenCourse(t) \/ OpenCheckout(t) \/ HandlePay(t) \/ NotPaid(t)
               \/ HandlePaystackSuccess(t) \/ Poll(t) \/ PollFails(t) \/ OpenPlayer(t)
               \/ SyncProgress(t) \/ HandleMarkComplete(t)
        PROVE  StudyInv'
    BY <1>3, ShopInv, OpenPlayerInv, ReportsInv
  <1>4. CASE \/ \E t \in Tabs : HandleEnrollFree(t) \/ EnrollStep(t)
             \/ ListenerStep \/ FaultStep
    BY <1>4, EnrollsInv
  <1>5. CASE \/ \E m \in Moderators : HandleModerate(m) \/ Moderated(m)
             \/ \E t \in Tabs : HandleReview(t) \/ ReviewSaved(t)
             \/ WindowCloses \/ AnnounceSale \/ UNCHANGED studyVars
    BY <1>5, ReviewingInv
  <1>6. QED
    BY <1>1, <1>2, <1>3, <1>4, <1>5 DEF StudyNext

\* Whatever happens, calls, rows and players agree as StudyInv says.
THEOREM StudyInductive == StudySpec => []StudyInv
  <1>1. StudyInit => StudyInv
    BY StudyStarts
  <1>2. StudyInv /\ [StudyNext]_studyVars => StudyInv'
    BY StudyStep
  <1>3. QED
    BY <1>1, <1>2, PTL DEF StudySpec

\* Whatever lessons the learner does, in whatever order and from however many tabs, and
\* whatever the admins add in between: the last one completes the enrollment
\* (maybeCompleteEnrollment()).
THEOREM LastLessonEnds == StudySpec => []LastLessonCompletes
  <1>1. StudyInv => LastLessonCompletes
    BY DEF StudyInv, RowsInv, LastLessonCompletes
  <1>2. QED
    BY <1>1, StudyInductive, PTL

\* More lessons done of as many are no smaller a share.
LEMMA ShareGrows ==
  ASSUME NEW n \in Nat, NEW a \in Nat, NEW b \in Nat, n # 0, a <= b
  PROVE  (a * 100) \div n <= (b * 100) \div n
  <1> DEFINE x == a * 100
             y == b * 100
  <1>1. x \in Nat /\ y \in Nat /\ x <= y
    OBVIOUS
  <1> HIDE DEF x, y
  <1>2. x \div n <= y \div n
    BY <1>1
  <1>3. QED
    BY <1>2 DEF x, y

\* A player that shows the course as it is, and a call wrote nothing unseen, counts no
\* lesson that enrollment-service does not count.
LEMMA OfferIsFarEnough ==
  ASSUME StudyInv, NEW t \in Tabs, Sees(t, "player"), Playable(t) = There(item), ~Gone, ~crossed,
         OffersReview(t)
  PROVE  FarEnough
  <1>1. /\ enrollment # "none" /\ Ticked(t) \in SUBSET Completed
        /\ Threshold \in Nat
    BY ReviewsAssumption DEF StudyInv, ScreenOf
  <1>2. Completed \in SUBSET Lessons /\ Ticked(t) \in SUBSET Lessons /\ There(item) \in SUBSET Lessons
    BY <1>1 DEF Completed, There
  <1>3. /\ Cardinality(Ticked(t)) \in Nat /\ Cardinality(Completed) \in Nat
        /\ Cardinality(Ticked(t)) <= Cardinality(Completed)
        /\ Cardinality(There(item)) \in Nat
    BY <1>1, <1>2, LessonsFinite
  <1>4. /\ CompletionPct = IF Cardinality(There(item)) = 0 THEN 0
                           ELSE (Cardinality(Completed) * 100) \div Cardinality(There(item))
        /\ ShownPct(t) = IF Cardinality(There(item)) = 0 THEN 0
                         ELSE (Cardinality(Ticked(t)) * 100) \div Cardinality(There(item))
    BY DEF CompletionPct, Completed, ShownPct
  <1>5. /\ ShownPct(t) <= CompletionPct
        /\ ShownPct(t) \in Int /\ CompletionPct \in Int
    <2>1. CASE Cardinality(There(item)) = 0
      BY <1>4, <2>1
    <2>2. CASE Cardinality(There(item)) # 0
      <3>1. (Cardinality(Ticked(t)) * 100) \div Cardinality(There(item))
              <= (Cardinality(Completed) * 100) \div Cardinality(There(item))
        BY <1>3, <2>2, ShareGrows
      <3>2. \A a \in Nat, n \in Nat \ {0} : (a * 100) \div n \in Int
        OBVIOUS
      <3>3. QED
        BY <1>3, <1>4, <2>2, <3>1, <3>2
    <2>3. QED
      BY <2>1, <2>2
  <1>6. ShownPct(t) >= Threshold
    BY DEF OffersReview
  <1>7. CompletionPct >= Threshold
    BY <1>1, <1>5, <1>6
  <1>8. QED
    BY <1>1, <1>7 DEF FarEnough

\* Whatever the player shows as done is done, and whatever it offers is accepted, however
\* old the page (getLearnState(), ReviewService.create()).
THEOREM PlayerIsSo == StudySpec => []PlayerIsRight
  <1>1. StudyInv => ShownIsDone
    BY DEF StudyInv, ScreenOf, ShownIsDone, Completed
  <1>2. StudyInv => OfferIsGood
    BY OfferIsFarEnough DEF OfferIsGood
  <1>3. QED
    BY <1>1, <1>2, StudyInductive, PTL DEF PlayerIsRight

-----------------------------------------------------------------------------
(* What completes a course *)

\* Only a call that counted enough lessons completes the enrollment.
LEMMA OnlyCommitsComplete ==
  ASSUME [StudyNext]_studyVars, enrollment # "completed", enrollment' = "completed"
  PROVE  \E u \in Tabs : CommitProgress(u)
  <1>1. ASSUME NEW t \in Tabs, ProgressStep(t), ~CommitProgress(t)
        PROVE  UNCHANGED enrollment
    BY <1>1 DEF ProgressStep, Progressing, SaveProgress, GetCourse, CountLessons, enrollmentVars
  <1>2. ASSUME NEW a \in Admins, AdminStep(a)
        PROVE  UNCHANGED enrollment
    BY <1>2 DEF AdminStep, learnerVars, enrollmentVars
  <1>3. ASSUME NEW t \in Tabs,
               \/ OpenCourse(t) \/ OpenCheckout(t) \/ HandlePay(t) \/ NotPaid(t)
               \/ HandlePaystackSuccess(t) \/ Poll(t) \/ PollFails(t) \/ OpenPlayer(t)
               \/ HandleReview(t) \/ ReviewSaved(t)
        PROVE  UNCHANGED enrollment
    BY <1>3 DEF OpenCourse, OpenCheckout, HandlePay, NotPaid, HandlePaystackSuccess, Poll, PollFails,
       OpenPlayer, HandleReview, ReviewSaved, learnerVars, enrollmentVars
  <1>4. ASSUME NEW t \in Tabs, SyncProgress(t) \/ HandleMarkComplete(t)
        PROVE  UNCHANGED enrollment
    BY <1>4 DEF SyncProgress, HandleMarkComplete, UpdateProgress, enrollmentVars
  <1>5. ASSUME NEW t \in Tabs, HandleEnrollFree(t) \/ EnrollStep(t)
        PROVE  enrollment' \in {enrollment, "active"}
    BY <1>5 DEF HandleEnrollFree, EnrollFree, EnrollStep, PublishEnrolled, Enroll, CreateEnrollment
  <1>6. ListenerStep \/ FaultStep \/ AnnounceSale => enrollment' \in {enrollment, "active"}
    BY DEF ListenerStep, Listening, OnPaymentCompleted, PublishPaid, EnrollFromPayment, CreateEnrollment,
       FaultStep, DeliveryFails, ListenerDies, RollBack, AnnounceSale, SaleUnannounced, PaymentCompleted, enrollmentVars
  <1>7. ASSUME NEW m \in Moderators, HandleModerate(m) \/ Moderated(m)
        PROVE  UNCHANGED enrollment
    BY <1>7 DEF HandleModerate, Moderated, learnerVars, enrollmentVars
  <1>8. WindowCloses \/ UNCHANGED studyVars => UNCHANGED enrollment
    BY DEF WindowCloses, studyVars, learnerVars, enrollmentVars
  <1>9. QED
    BY <1>1, <1>2, <1>3, <1>4, <1>5, <1>6, <1>7, <1>8 DEF StudyNext

\* What a call holds open, and what is done, is all there is: the call is the one that commits.
LEMMA CompletesAll ==
  ASSUME StudyInv, [StudyNext]_studyVars, NEW t \in Tabs,
         enrollment # "completed", enrollment' = "completed", ~crossed', NeverRemoved,
         At(t, "commit"), tab[t].ends, tab[t].named = There(item)
  PROVE  \A l \in There(item) : progress'[l] = "completed"
  <1>1. PICK u \in Tabs : CommitProgress(u)
    BY OnlyCommitsComplete
  <1>2. /\ At(u, "commit")
        /\ progress' = [progress EXCEPT ![tab[u].lesson] = "completed"]
        /\ crossed' = (crossed \/ tab[u].since)
    BY <1>1 DEF CommitProgress
  <1>3. /\ ~crossed
        /\ There(item) = {l \in Lessons : Known(l)}
        /\ Completed \in SUBSET There(item)
    BY <1>2, ThereIs DEF StudyInv, RowsInv, Completed, Done
  <1>4. ASSUME NEW v \in Tabs, At(v, "commit")
        PROVE  tab[v].lesson \in There(item) /\ tab[v].lesson \notin Completed
    <2>1. CallOf(v) /\ tab[v].pc = "commit"
      BY <1>4 DEF StudyInv, At
    <2>2. /\ tab[v].lesson \in Lessons /\ Known(tab[v].lesson)
          /\ tab[v].old # "completed" /\ progress[tab[v].lesson] = tab[v].old
      BY <1>3, <2>1 DEF CallOf, Calling
    <2>3. QED
      BY <1>3, <2>2 DEF Completed, Done
  <1>5. Completed \cup {tab[t].lesson} = There(item)
    <2>1. Cardinality(Completed \cup {tab[t].lesson}) >= Cardinality(There(item))
      BY <1>3 DEF StudyInv, CallOf, At
    <2>2. /\ There(item) \in SUBSET Lessons
          /\ Completed \cup {tab[t].lesson} \in SUBSET There(item)
          /\ Completed \cup {tab[t].lesson} \in SUBSET Lessons
      BY <1>3, <1>4
    <2>3. /\ Cardinality(Completed \cup {tab[t].lesson}) <= Cardinality(There(item))
          /\ Cardinality(Completed \cup {tab[t].lesson}) = Cardinality(There(item))
               => Completed \cup {tab[t].lesson} = There(item)
          /\ Cardinality(There(item)) \in Nat
          /\ Cardinality(Completed \cup {tab[t].lesson}) \in Nat
      BY <2>2, LessonsFinite
    <2>4. QED
      BY <2>1, <2>3
  <1>6. tab[u].lesson = tab[t].lesson
    BY <1>2, <1>4, <1>5
  <1>7. /\ tab[t].lesson \in Lessons /\ progress \in [Lessons -> Progress]
        /\ There(item) \subseteq Lessons
    BY <1>3, <1>4 DEF StudyInv, StudyTypes
  <1>8. \A l \in There(item) : l = tab[t].lesson \/ progress[l] = "completed"
    BY <1>5 DEF Completed, Done
  <1>9. QED
    BY <1>2, <1>6, <1>7, <1>8

\* A learner completes a course only when he has done all of it: of the calls that have
\* counted, one lesson is open, and only one call holds it (maybeCompleteEnrollment()).
THEOREM CompletesOnlyAll == StudySpec => CompletedCovers
  <1> DEFINE Covers == \A t \in Tabs :
               /\ enrollment # "completed" /\ enrollment' = "completed"
               /\ ~crossed' /\ NeverRemoved
               /\ At(t, "commit") /\ tab[t].ends /\ tab[t].named = There(item)
               => \A l \in There(item) : progress'[l] = "completed"
  <1>1. StudyInv /\ [StudyNext]_studyVars => [Covers]_learnerVars
    BY CompletesAll
  <1>2. QED
    BY <1>1, StudyInductive, PTL DEF StudySpec, CompletedCovers

-----------------------------------------------------------------------------
(* The review *)

\* An edit leaves the status alone, and moderators decide.
ReviewInv ==
  /\ ReviewsTypeOK
  /\ \A x \in Writers :
       /\ rcall[x].op = "update" => rcall[x].new.status = rcall[x].old.status
       /\ rcall[x].op = "moderate" => x \in Moderators

\* A handler reads the row, and what it will write is right by what it read.
LEMMA ReviewBegins ==
  ASSUME ReviewInv, NEW x \in Writers, NEW op, NEW new \in Review, BeginReview(x, op, new),
         op \in {"create", "update", "moderate"},
         op = "update" => new.status = review.status,
         op = "moderate" => x \in Moderators
  PROVE  ReviewInv' /\ UNCHANGED review
  <1> DEFINE c == [op |-> op, old |-> review, new |-> new]
  <1>1. /\ c \in [op : {"idle", "create", "update", "moderate"}, old : Review, new : Review]
        /\ c.op = op /\ c.new = new /\ c.old = review
    BY DEF ReviewInv, ReviewsTypeOK
  <1>2. UNCHANGED <<review, late, torn>> /\ rcall' = [rcall EXCEPT ![x] = c]
    BY DEF BeginReview
  <1> HIDE DEF c
  <1>3. /\ rcall'[x] = c /\ \A y \in Writers \ {x} : rcall'[y] = rcall[y]
        /\ ReviewsTypeOK'
    BY <1>1, <1>2 DEF ReviewInv, ReviewsTypeOK
  <1>4. QED
    BY <1>1, <1>2, <1>3 DEF ReviewInv

\* A handler writes its row, or is refused.
LEMMA ReviewCommits ==
  ASSUME ReviewInv, NEW x \in Writers, SaveReview(x)
  PROVE  /\ ReviewInv'
         /\ review # NoReview /\ review'.status # review.status =>
              torn' \/ \E m \in Moderators : rcall[m].op = "moderate" /\ rcall'[m] # rcall[m]
  <1> DEFINE c == rcall[x]
  <1>1. /\ c.op # "idle"
        /\ rcall' = [rcall EXCEPT ![x] = NoReviewCall]
        /\ IF Second(c) THEN UNCHANGED <<review, torn>>
           ELSE /\ review' = c.new
                /\ torn' = (torn \/ review # c.old)
        /\ UNCHANGED late
    BY DEF SaveReview
  <1>2. c \in [op : {"idle", "create", "update", "moderate"}, old : Review, new : Review]
    BY DEF ReviewInv, ReviewsTypeOK
  <1>3. /\ NoReviewCall \in [op : {"idle", "create", "update", "moderate"}, old : Review, new : Review]
        /\ NoReviewCall.op = "idle"
    BY DEF NoReviewCall, NoReview, Review
  <1>4. /\ rcall'[x] = NoReviewCall /\ \A y \in Writers \ {x} : rcall'[y] = rcall[y]
        /\ ReviewsTypeOK'
    BY <1>1, <1>2, <1>3 DEF ReviewInv, ReviewsTypeOK
  <1>5. ReviewInv'
    BY <1>3, <1>4 DEF ReviewInv
  <1>6. ASSUME review # NoReview, review'.status # review.status, ~torn'
        PROVE  \E m \in Moderators : rcall[m].op = "moderate" /\ rcall'[m] # rcall[m]
    <2>1. ~Second(c) /\ review' = c.new /\ review = c.old
      BY <1>1, <1>6
    <2>2. c.op = "moderate"
      BY <1>1, <1>2, <1>6, <2>1 DEF Second, ReviewInv
    <2>3. x \in Moderators /\ rcall'[x] # c
      BY <1>3, <1>4, <2>2 DEF ReviewInv
    <2>4. QED
      BY <2>2, <2>3
  <1>7. QED
    BY <1>5, <1>6

\* What the learner and the moderators do, and everything else.
LEMMA ReviewSteps ==
  ASSUME ReviewInv, [StudyNext]_studyVars
  PROVE  /\ ReviewInv'
         /\ review # NoReview /\ review'.status # review.status =>
              torn' \/ \E m \in Moderators : rcall[m].op = "moderate" /\ rcall'[m] # rcall[m]
  <1>1. CASE UNCHANGED reviewVars
    BY <1>1 DEF reviewVars, ReviewInv, ReviewsTypeOK
  <1>2. ASSUME NEW t \in Tabs, HandleReview(t)
        PROVE  ReviewInv' /\ UNCHANGED review
    <2>1. t \in Writers /\ review \in Review
      BY DEF Writers, ReviewInv, ReviewsTypeOK
    <2>2. PICK text \in Texts : IF screen[t].mine THEN UpdateReview(t, text) ELSE CreateReview(t, text)
      BY <1>2 DEF HandleReview, ReviewModal
    <2>3. CASE UpdateReview(t, text)
      <3> DEFINE new == [review EXCEPT !.text = text]
      <3>1. new \in Review /\ new.status = review.status
        BY <2>1 DEF Review
      <3>2. BeginReview(t, "update", new)
        BY <2>3 DEF UpdateReview
      <3> HIDE DEF new
      <3>3. QED
        BY <2>1, <3>1, <3>2, ReviewBegins
    <2>4. CASE CreateReview(t, text)
      <3> DEFINE new == [text |-> text, status |-> "pending"]
      <3>1. new \in Review
        BY DEF Review
      <3>2. BeginReview(t, "create", new)
        BY <2>4 DEF CreateReview
      <3> HIDE DEF new
      <3>3. QED
        BY <2>1, <3>1, <3>2, ReviewBegins
    <2>5. QED
      BY <2>2, <2>3, <2>4
  <1>3. ASSUME NEW m \in Moderators, HandleModerate(m)
        PROVE  ReviewInv' /\ UNCHANGED review
    <2>1. m \in Writers /\ review \in Review
      BY DEF Writers, ReviewInv, ReviewsTypeOK
    <2>2. PICK status \in Decided : Moderate(m, status)
      BY <1>3 DEF HandleModerate
    <2> DEFINE new == [review EXCEPT !.status = status]
    <2>3. new \in Review
      BY <2>1 DEF Review
    <2>4. BeginReview(m, "moderate", new)
      BY <2>2 DEF Moderate
    <2> HIDE DEF new
    <2>5. QED
      BY <2>1, <2>3, <2>4, ReviewBegins
  <1>4. CASE \E x \in Writers : SaveReview(x)
    BY <1>4, ReviewCommits
  <1>5. CASE WindowCloses
    BY <1>5 DEF WindowCloses, TimePasses, ReviewInv, ReviewsTypeOK
  <1>6. ASSUME NEW t \in Tabs,
               \/ OpenCourse(t) \/ OpenCheckout(t) \/ HandlePay(t) \/ NotPaid(t)
               \/ HandlePaystackSuccess(t) \/ Poll(t) \/ PollFails(t) \/ OpenPlayer(t)
               \/ SyncProgress(t) \/ HandleMarkComplete(t) \/ HandleEnrollFree(t) \/ EnrollStep(t)
               \/ ProgressStep(t)
        PROVE  UNCHANGED reviewVars
    BY <1>6 DEF OpenCourse, OpenCheckout, HandlePay, NotPaid, HandlePaystackSuccess, Poll, PollFails,
       OpenPlayer, SyncProgress, HandleMarkComplete, HandleEnrollFree, EnrollStep, ProgressStep, Others
  <1>7. ASSUME \/ \E a \in Admins : AdminStep(a)
               \/ AnnounceSale \/ ListenerStep \/ FaultStep \/ UNCHANGED studyVars
        PROVE  UNCHANGED reviewVars
    BY <1>7 DEF AdminStep, AnnounceSale, SaleUnannounced, ListenerStep, FaultStep, Others, studyVars
  <1>8. ASSUME NEW x \in Tabs \cup Moderators, ReviewSaved(x) \/ Moderated(x)
        PROVE  x \in Writers /\ SaveReview(x)
    BY <1>8 DEF ReviewSaved, Moderated, Writers
  <1>9. CASE \E m \in Moderators : HandleModerate(m) \/ Moderated(m)
    BY <1>3, <1>4, <1>8, <1>9
  <1>10. CASE \E t \in Tabs : HandleReview(t) \/ ReviewSaved(t)
    BY <1>2, <1>4, <1>8, <1>10
  <1>11. QED
    BY <1>1, <1>5, <1>6, <1>7, <1>9, <1>10 DEF StudyNext

\* A review keeps the status that a moderator gave it, whatever the learner does to it
\* meanwhile, unless a row that was out of date is written back (ReviewService.update(),
\* moderate()).
THEOREM DecisionIsKept == StudySpec => DecisionStands
  <1> DEFINE Stands == review # NoReview /\ review'.status # review.status
               => torn' \/ \E m \in Moderators : rcall[m].op = "moderate" /\ rcall'[m] # rcall[m]
  <1>1. StudyInit => ReviewInv
    <2>1. NoReview \in Review /\ NoReviewCall.op = "idle"
      BY DEF NoReview, NoReviewCall, Review
    <2>2. NoReviewCall \in [op : {"idle", "create", "update", "moderate"}, old : Review, new : Review]
      BY <2>1 DEF NoReviewCall
    <2>3. ReviewsInit => ReviewInv
      BY <2>1, <2>2 DEF ReviewsInit, ReviewInv, ReviewsTypeOK
    <2>4. QED
      BY <2>3 DEF StudyInit
  <1>2. ReviewInv /\ [StudyNext]_studyVars => ReviewInv'
    BY ReviewSteps
  <1>3. ReviewInv /\ [StudyNext]_studyVars => [Stands]_reviewVars
    BY ReviewSteps
  <1>4. QED
    BY <1>1, <1>2, <1>3, PTL DEF StudySpec, DecisionStands

-----------------------------------------------------------------------------
(* The welcome *)

\* While no two requests created the enrollment at the same time and none failed: at most
\* one is about to, nobody else does, and only it has published before there is one.
Alone ==
  \/ raced \/ faults > 0
  \/ /\ mails <= 1
     /\ \A t, u \in Tabs : Creating(t) /\ Creating(u) => t = u
     /\ (\E t \in Tabs : Creating(t)) => listener = "idle" /\ enrollment = "none"
     /\ listener # "idle" => enrollment = "none"
     /\ enrollment = "none" => mails = 0 \/ listener = "insert" \/ \E t \in Tabs : At(t, "insert")

WelcomeInv ==
  /\ mails \in Nat /\ raced \in BOOLEAN /\ faults \in Nat
  /\ listener \in {"idle", "publish", "insert"}
  /\ Alone

\* Nobody creates the enrollment, or goes on to.
LEMMA WelcomeStays ==
  ASSUME StudyInv, WelcomeInv, UNCHANGED <<mails, raced, faults, listener>>,
         \/ enrollment' = enrollment
         \/ enrollment # "none" /\ enrollment' # "none",
         \A t \in Tabs : /\ Creating(t)' <=> Creating(t)
                         /\ At(t, "insert")' <=> At(t, "insert")
  PROVE  WelcomeInv'
  BY DEF WelcomeInv, Alone

\* A tab goes on creating the enrollment, and is the only one.
LEMMA TabWelcomes ==
  ASSUME StudyInv, WelcomeInv, NEW t \in Tabs,
         HandleEnrollFree(t) \/ EnrollStep(t) \/ RollBack(t)
  PROVE  WelcomeInv'
  <1>1. tab \in [Tabs -> Tab] /\ tab[t] \in Tab
    BY DEF StudyInv, StudyTypes
  <1>2. ASSUME NEW new \in Tab, Goto(t, new)
        PROVE  tab'[t] = new /\ \A u \in Tabs \ {t} : tab'[u] = tab[u]
    BY <1>2, GotoFacts DEF StudyInv
  <1>3. CASE HandleEnrollFree(t)
    <2> DEFINE new == [NoTab EXCEPT !.pc = "publish"]
    <2>1. new \in Tab /\ new.pc = "publish" /\ Goto(t, new)
      BY <1>3, NoTabType DEF HandleEnrollFree, EnrollFree, NoTab, Tab
    <2> HIDE DEF new
    <2>2. tab'[t].pc = "publish" /\ \A u \in Tabs \ {t} : tab'[u] = tab[u]
      BY <1>2, <2>1
    <2>3. /\ UNCHANGED <<enrollment, mails, listener, faults>> /\ enrollment = "none"
          /\ raced' = (raced \/ listener # "idle" \/ \E u \in Tabs : Creating(u))
      BY <1>3 DEF HandleEnrollFree, EnrollFree, Race
    <2>4. CASE raced'
      BY <2>3, <2>4 DEF WelcomeInv, Alone
    <2>5. CASE ~raced' /\ ~(faults > 0)
      <3>1. listener = "idle" /\ \A u \in Tabs : ~Creating(u)
        BY <2>3, <2>5
      <3>2. \A u \in Tabs : ~At(u, "insert")
        BY <3>1 DEF Creating, At
      <3>3. mails = 0
        BY <2>3, <2>5, <3>1, <3>2 DEF WelcomeInv, Alone
      <3>4. \A u \in Tabs \ {t} : ~Creating(u)'
        BY <2>2, <3>1 DEF Creating
      <3>5. QED
        BY <2>3, <2>5, <3>1, <3>3, <3>4 DEF WelcomeInv, Alone
    <2>6. CASE faults > 0
      BY <2>3, <2>6 DEF WelcomeInv, Alone
    <2>7. QED
      BY <2>4, <2>5, <2>6
  <1>4. CASE PublishEnrolled(t)
    <2> DEFINE new == [tab[t] EXCEPT !.pc = "insert"]
    <2>1. new \in Tab /\ new.pc = "insert" /\ Goto(t, new)
      BY <1>1, <1>4 DEF PublishEnrolled, Tab
    <2> HIDE DEF new
    <2>2. tab'[t].pc = "insert" /\ \A u \in Tabs \ {t} : tab'[u] = tab[u]
      BY <1>2, <2>1
    <2>3. /\ UNCHANGED <<enrollment, listener, faults, raced>> /\ tab[t].pc = "publish"
          /\ mails' = mails \/ mails' = mails + 1
      BY <1>4 DEF PublishEnrolled, Confirm, At
    <2>4. CASE raced \/ faults > 0
      BY <2>3, <2>4 DEF WelcomeInv, Alone
    <2>5. CASE ~raced /\ ~(faults > 0)
      <3>1. Creating(t) /\ ~At(t, "insert")
        BY <2>3 DEF Creating, At
      <3>2. listener = "idle" /\ enrollment = "none" /\ \A u \in Tabs \ {t} : ~Creating(u)
        BY <2>5, <3>1 DEF WelcomeInv, Alone
      <3>3. mails = 0
        BY <2>5, <3>1, <3>2 DEF WelcomeInv, Alone, Creating, At
      <3>4. \A u \in Tabs \ {t} : ~Creating(u)'
        BY <2>2, <3>2 DEF Creating
      <3>5. At(t, "insert")'
        BY <2>2 DEF At
      <3>6. mails' \in Nat /\ mails' <= 1
        BY <2>3, <3>3
      <3>7. QED
        BY <2>3, <2>5, <3>2, <3>4, <3>5, <3>6 DEF WelcomeInv, Alone
    <2>6. QED
      BY <2>4, <2>5
  <1>5. CASE Enroll(t)
    <2>1. tab'[t] = NoTab /\ \A u \in Tabs \ {t} : tab'[u] = tab[u]
      BY <1>2, <1>5, NoTabType DEF Enroll
    <2>2. /\ UNCHANGED <<mails, listener, faults, raced>> /\ tab[t].pc = "insert"
          /\ enrollment' # "none"
      BY <1>5 DEF Enroll, CreateEnrollment, At
    <2>3. CASE raced \/ faults > 0
      BY <2>2, <2>3 DEF WelcomeInv, Alone
    <2>4. CASE ~raced /\ ~(faults > 0)
      <3>1. Creating(t)
        BY <2>2 DEF Creating
      <3>2. listener = "idle" /\ \A u \in Tabs \ {t} : ~Creating(u)
        BY <2>4, <3>1 DEF WelcomeInv, Alone
      <3>3. \A u \in Tabs : ~Creating(u)'
        BY <2>1, <3>2, NoTabType DEF Creating, NoTab
      <3>4. QED
        BY <2>2, <2>4, <3>2, <3>3 DEF WelcomeInv, Alone
    <2>5. QED
      BY <2>3, <2>4
  <1>6. CASE RollBack(t) /\ Creating(t)
    <2>1. faults' \in Nat /\ faults' > 0 /\ UNCHANGED <<mails, raced, listener>>
      BY <1>6 DEF RollBack, Fault, enrollmentVars, WelcomeInv
    <2>2. QED
      BY <2>1 DEF WelcomeInv, Alone
  <1>7. CASE RollBack(t) /\ ~Creating(t)
    <2>1. UNCHANGED <<mails, raced, listener, faults, enrollment>> /\ Goto(t, NoTab)
      BY <1>7 DEF RollBack, enrollmentVars
    <2>2. tab'[t] = NoTab /\ \A u \in Tabs \ {t} : tab'[u] = tab[u]
      BY <1>2, <2>1, NoTabType
    <2>3. QED
      BY <1>7, <2>1, <2>2, WelcomeStays DEF Creating, At, NoTab
  <1>8. QED
    BY <1>3, <1>4, <1>5, <1>6, <1>7 DEF EnrollStep

\* The listener goes on creating the enrollment, or fails.
LEMMA ListenerWelcomes ==
  ASSUME StudyInv, WelcomeInv, Listening \/ DeliveryFails \/ ListenerDies
  PROVE  WelcomeInv'
  <1>1. UNCHANGED tab
    BY DEF Listening, OnPaymentCompleted, PublishPaid, EnrollFromPayment, DeliveryFails, ListenerDies
  <1>2. \A t \in Tabs : /\ Creating(t)' <=> Creating(t)
                        /\ At(t, "insert")' <=> At(t, "insert")
                        /\ At(t, "insert") => Creating(t)
    BY <1>1 DEF Creating, At
  <1>3. CASE OnPaymentCompleted
    <2>1. /\ UNCHANGED <<enrollment, mails, faults>> /\ listener = "idle"
          /\ \/ UNCHANGED <<listener, raced>>
             \/ /\ enrollment = "none" /\ listener' = "publish"
                /\ raced' = (raced \/ \E t \in Tabs : Creating(t))
      BY <1>3 DEF OnPaymentCompleted, Unknown, Race
    <2>2. CASE UNCHANGED <<listener, raced>>
      BY <1>2, <2>1, <2>2, WelcomeStays
    <2>3. CASE /\ enrollment = "none" /\ listener' = "publish"
               /\ raced' = (raced \/ \E t \in Tabs : Creating(t))
      BY <1>2, <2>1, <2>3 DEF WelcomeInv, Alone
    <2>4. QED
      BY <2>1, <2>2, <2>3
  <1>4. CASE PublishPaid
    <2>1. /\ UNCHANGED <<enrollment, faults, raced>> /\ listener = "publish" /\ listener' = "insert"
          /\ mails' = mails \/ mails' = mails + 1
      BY <1>4 DEF PublishPaid, Confirm
    <2>2. raced \/ faults > 0 \/ (mails = 0 /\ \A t \in Tabs : ~Creating(t))
      BY <1>2, <2>1 DEF WelcomeInv, Alone
    <2>3. mails' \in Nat /\ (mails = 0 => mails' <= 1)
      BY <2>1 DEF WelcomeInv
    <2>4. QED
      BY <1>2, <2>1, <2>2, <2>3 DEF WelcomeInv, Alone
  <1>5. CASE EnrollFromPayment
    <2>1. /\ UNCHANGED <<mails, faults, raced>> /\ listener = "insert" /\ listener' = "idle"
          /\ enrollment' # "none"
      BY <1>5 DEF EnrollFromPayment, CreateEnrollment
    <2>2. raced \/ faults > 0 \/ \A t \in Tabs : ~Creating(t)
      BY <2>1 DEF WelcomeInv, Alone
    <2>3. QED
      BY <1>2, <2>1, <2>2 DEF WelcomeInv, Alone
  <1>6. CASE DeliveryFails \/ ListenerDies
    <2>1. faults' \in Nat /\ faults' > 0 /\ UNCHANGED <<mails, raced>> /\ listener' = "idle"
      BY <1>6 DEF DeliveryFails, ListenerDies, Fault, WelcomeInv
    <2>2. QED
      BY <2>1 DEF WelcomeInv, Alone
  <1>7. QED
    BY <1>3, <1>4, <1>5, <1>6 DEF Listening

\* Calls for progress are of who is enrolled.
LEMMA ProgressWelcomes ==
  ASSUME StudyInv, WelcomeInv, NEW t \in Tabs,
         Progressing(t) \/ \E l \in Lessons, done \in BOOLEAN : UpdateProgress(t, l, done)
  PROVE  WelcomeInv'
  <1>1. tab \in [Tabs -> Tab] /\ tab[t] \in Tab
    BY DEF StudyInv, StudyTypes
  <1>2. ASSUME NEW new, new.pc \notin {"publish", "insert"}, Goto(t, new), ~Creating(t)
        PROVE  \A u \in Tabs : /\ Creating(u)' <=> Creating(u)
                               /\ At(u, "insert")' <=> At(u, "insert")
    BY <1>1, <1>2 DEF Goto, Creating, At
  <1>3. ASSUME Wrote(t), ~Creating(t)
        PROVE  \A u \in Tabs : /\ Creating(u)' <=> Creating(u)
                               /\ At(u, "insert")' <=> At(u, "insert")
    <2>1. /\ tab'[t] = NoTab /\ NoTab.pc = "idle"
          /\ \A u \in Tabs \ {t} : tab'[u].pc = tab[u].pc
      BY <1>3, WroteFacts DEF StudyInv, NoTab
    <2>2. QED
      BY <1>3, <2>1 DEF Creating, At
  <1>4. NoTab.pc \notin {"publish", "insert"}
    BY DEF NoTab
  <1>5. CASE \E l \in Lessons, done \in BOOLEAN : UpdateProgress(t, l, done)
    <2>1. PICK l \in Lessons, done \in BOOLEAN : UpdateProgress(t, l, done)
      BY <1>5
    <2> DEFINE new == [NoTab EXCEPT
                         !.pc = IF done /\ ~Done(l) /\ enrollment # "completed" THEN "ask" ELSE "save",
                         !.lesson = l, !.done = done, !.old = progress[l]]
    <2>2. new.pc \notin {"publish", "insert"} /\ Goto(t, new) /\ ~Creating(t)
      BY <2>1 DEF UpdateProgress, NoTab, Creating, At
    <2>3. UNCHANGED <<mails, raced, faults, listener, enrollment>>
      BY <2>1 DEF UpdateProgress, enrollmentVars
    <2> HIDE DEF new
    <2>4. QED
      BY <1>2, <2>2, <2>3, WelcomeStays
  <1>6. CASE SaveProgress(t)
    <2>1. /\ UNCHANGED <<mails, raced, faults, listener, enrollment>> /\ ~Creating(t)
          /\ Goto(t, NoTab) \/ Wrote(t)
      BY <1>6 DEF SaveProgress, enrollmentVars, Creating, At
    <2>2. QED
      BY <1>2, <1>3, <1>4, <2>1, WelcomeStays
  <1>7. CASE GetCourse(t)
    <2> DEFINE new == [tab[t] EXCEPT !.pc = "count", !.named = There(item)]
    <2>1. /\ UNCHANGED <<mails, raced, faults, listener, enrollment>> /\ ~Creating(t)
          /\ Goto(t, NoTab) \/ Goto(t, new)
      BY <1>7 DEF GetCourse, enrollmentVars, Creating, At
    <2>2. new.pc \notin {"publish", "insert"}
      BY <1>1 DEF Tab
    <2> HIDE DEF new
    <2>3. QED
      BY <1>2, <1>4, <2>1, <2>2, WelcomeStays
  <1>8. CASE CountLessons(t)
    <2> DEFINE new == [tab[t] EXCEPT !.pc = "commit",
                         !.ends = TotalLessons(t) > 0 /\ CompletedLessons(t) >= TotalLessons(t)]
    <2>1. /\ UNCHANGED <<mails, raced, faults, listener, enrollment>> /\ ~Creating(t)
          /\ Goto(t, NoTab) \/ Goto(t, new)
      BY <1>8 DEF CountLessons, enrollmentVars, Creating, At
    <2>2. new.pc \notin {"publish", "insert"}
      BY <1>1 DEF Tab
    <2> HIDE DEF new
    <2>3. QED
      BY <1>2, <1>4, <2>1, <2>2, WelcomeStays
  <1>9. CASE CommitProgress(t)
    <2>1. /\ UNCHANGED <<mails, raced, faults, listener>> /\ ~Creating(t) /\ Wrote(t)
          /\ enrollment' \in {enrollment, "completed"} /\ At(t, "commit")
      BY <1>9 DEF CommitProgress, Creating, At
    <2>2. enrollment # "none"
      BY <2>1 DEF StudyInv, CallOf, At, Calling
    <2>3. QED
      BY <1>3, <2>1, <2>2, WelcomeStays
  <1>10. QED
    BY <1>5, <1>6, <1>7, <1>8, <1>9 DEF Progressing

\* Every step keeps it.
LEMMA WelcomeStep == StudyInv /\ WelcomeInv /\ [StudyNext]_studyVars => WelcomeInv'
  <1> SUFFICES ASSUME StudyInv, WelcomeInv, [StudyNext]_studyVars PROVE WelcomeInv'
    OBVIOUS
  <1>1. CASE UNCHANGED <<mails, raced, faults, listener, enrollment, tab>>
    BY <1>1, WelcomeStays DEF Creating, At
  <1>2. ASSUME NEW t \in Tabs, SyncProgress(t) \/ HandleMarkComplete(t)
        PROVE  WelcomeInv'
    <2>1. PICK l \in Playable(t), done \in BOOLEAN : UpdateProgress(t, l, done)
      BY <1>2 DEF SyncProgress, HandleMarkComplete
    <2>2. Playable(t) \subseteq Lessons
      BY <1>2, PlayerType DEF SyncProgress, HandleMarkComplete, StudyInv, Playable
    <2>3. QED
      BY <2>1, <2>2, ProgressWelcomes
  <1>3. ASSUME NEW t \in Tabs, HandleEnrollFree(t) \/ EnrollStep(t)
        PROVE  WelcomeInv'
    BY <1>3, TabWelcomes
  <1>4. ASSUME NEW t \in Tabs, ProgressStep(t)
        PROVE  WelcomeInv'
    BY <1>4, ProgressWelcomes DEF ProgressStep
  <1>5. CASE ListenerStep \/ FaultStep
    BY <1>5, ListenerWelcomes, TabWelcomes DEF ListenerStep, FaultStep
  <1>6. ASSUME NEW t \in Tabs, PollFails(t)
        PROVE  WelcomeInv'
    <2>1. UNCHANGED <<mails, raced, listener>> /\ faults' \in Nat /\ faults' > 0
      BY <1>6 DEF PollFails, Fault, enrollmentVars, WelcomeInv
    <2>2. QED
      BY <2>1 DEF WelcomeInv, Alone
  <1>7. ASSUME NEW t \in Tabs,
               \/ OpenCourse(t) \/ OpenCheckout(t) \/ HandlePay(t) \/ NotPaid(t)
               \/ HandlePaystackSuccess(t) \/ Poll(t) \/ OpenPlayer(t)
               \/ HandleReview(t) \/ ReviewSaved(t)
        PROVE  UNCHANGED <<mails, raced, faults, listener, enrollment, tab>>
    BY <1>7 DEF OpenCourse, OpenCheckout, HandlePay, NotPaid, HandlePaystackSuccess, Poll,
       OpenPlayer, HandleReview, ReviewSaved, learnerVars, enrollmentVars
  <1>8. ASSUME \/ \E a \in Admins : AdminStep(a)
               \/ \E m \in Moderators : HandleModerate(m) \/ Moderated(m)
               \/ WindowCloses \/ UNCHANGED studyVars
        PROVE  UNCHANGED <<mails, raced, faults, listener, enrollment, tab>>
    BY <1>8 DEF AdminStep, HandleModerate, Moderated, WindowCloses, studyVars, learnerVars,
       enrollmentVars
  <1>9. CASE AnnounceSale
    <2>1. CASE PaymentCompleted
      <3>1. UNCHANGED <<mails, raced, faults, listener, enrollment, tab>>
        BY <2>1 DEF PaymentCompleted
      <3>2. QED
        BY <1>1, <3>1
    <2>2. CASE SaleUnannounced
      <3>1. UNCHANGED <<mails, raced, listener>> /\ faults' \in Nat /\ faults' > 0
        BY <2>2 DEF SaleUnannounced, Fault, WelcomeInv
      <3>2. QED
        BY <3>1 DEF WelcomeInv, Alone
    <2>3. QED
      BY <1>9, <2>1, <2>2 DEF AnnounceSale
  <1>10. QED
    BY <1>1, <1>2, <1>3, <1>4, <1>5, <1>6, <1>7, <1>8, <1>9 DEF StudyNext

\* A learner is welcomed once, however often the sale is announced, unless two requests
\* created the enrollment at the same time or one failed (EnrollmentService, which looks for
\* an enrollment, publishes and inserts).
THEOREM WelcomedOnce == StudySpec => []OneConfirmation
  <1>1. StudyInit => WelcomeInv
    <2>1. ASSUME NEW status, LearnerInit(status) PROVE WelcomeInv
      <3>1. \A t \in Tabs : ~Creating(t)
        <4>1. tab = [t \in Tabs |-> NoTab] /\ NoTab.pc = "idle"
          BY <2>1 DEF LearnerInit, NoTab
        <4>2. QED
          BY <4>1 DEF Creating
      <3>2. mails = 0 /\ faults = 0 /\ listener = "idle"
        BY <2>1 DEF LearnerInit
      <3>3. mails <= 1 /\ mails \in Nat /\ faults \in Nat
        BY <3>2
      <3>4. raced \in BOOLEAN
        BY <2>1 DEF LearnerInit
      <3>5. Alone
        BY <3>1, <3>2, <3>3 DEF Alone
      <3>6. QED
        BY <3>2, <3>3, <3>4, <3>5 DEF WelcomeInv
    <2>2. QED
      BY <2>1 DEF StudyInit
  <1>2. WelcomeInv => OneConfirmation
    BY DEF WelcomeInv, Alone, OneConfirmation
  <1>3. QED
    BY <1>1, <1>2, WelcomeStep, StudyInductive, PTL DEF StudySpec
=============================================================================
