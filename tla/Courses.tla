------------------------------ MODULE Courses ------------------------------
(***************************************************************************)
(* One course, its earlier versions, its modules and their lessons         *)
(* (course-service, CourseService and CourseStructureService), edited by   *)
(* admins who do not wait for one another.                                 *)
(*                                                                         *)
(* A handler is a transaction: it reads, and writes when it commits.  JPA  *)
(* writes every column of a row that changed, with the values read, and    *)
(* nothing of a row that did not.  The content of a course is its title,   *)
(* for all the texts it must have, and whether it has a cover image, for   *)
(* what it may lack.                                                       *)
(***************************************************************************)
EXTENDS Integers, FiniteSets, Functions

CONSTANTS
  Admins,       \* each with at most one request at a time
  Titles,
  Modules,      \* bound: the modules it may ever get
  Lessons,      \* bound: the lessons it may ever get
  ModuleOf,     \* the module a lesson is made in
  Written,      \* the content at the start
  Start,        \* the modules and lessons at the start
  MaxVersion    \* bound: the last version

ASSUME CoursesAssumption ==
  /\ IsFiniteSet(Modules) /\ IsFiniteSet(Lessons) /\ ModuleOf \in [Lessons -> Modules]
  /\ MaxVersion \in Nat

VARIABLES
  course,
  versions,     \* course_versions, UNIQUE (course_id, version)
  item,         \* the rows of modules and lessons
  call,
  blind,        \* history: a write replaced content or a version its transaction had not seen
  settled       \* history, of each list: no deletion and no overlap disturbed its order

courseVars == <<course, versions, item, call, blind, settled>>

Contents == [title : Titles, cover : BOOLEAN]
Items    == Modules \cup Lessons
Lists    == {"course"} \cup Modules
List(i)  == IF i \in Modules THEN "course" ELSE ModuleOf[i]

Status    == {"draft", "published", "archived", "gone"}
CourseRow == [status : Status, content : Contents, version : Nat]
VersionRow == [version : Nat, content : Contents]
ItemRow == [there : {"never", "yes", "no"}, position : Nat, video : BOOLEAN]

Gone == course.status = "gone"
Unmade == [there |-> "never", position |-> 0, video |-> FALSE]
Removed == [Unmade EXCEPT !.there = "no"]
There(rows) == {l \in Lessons : rows[l].there = "yes"}
Here(rows, list) == {i \in Items : List(i) = list /\ rows[i].there = "yes"}

Numbered(rows, list) ==
  LET here == Here(rows, list)
  IN {rows[i].position : i \in here} = 0..(Cardinality(here) - 1)

ASSUME StartAssumption ==
  /\ Modules \cap Lessons = {} /\ "course" \notin Items
  /\ Written \in Contents
  /\ Start \in [Items -> ItemRow] /\ \A list \in Lists : Numbered(Start, list)

\* What a transaction remembers: the course or the rows as it read them and as it will
\* leave them, the rows it writes and their list, and whether it snapshots the course it read.
NoCall  == [op |-> "idle"]
Idle(a) == call[a].op = "idle"

CoursesInit(status) ==
  /\ course = [status |-> status, content |-> Written, version |-> 1]
  /\ versions = {}
  /\ item = Start
  /\ call = [a \in Admins |-> NoCall]
  /\ blind = FALSE
  /\ settled = [list \in Lists |-> TRUE]

Begin(a, c) ==
  /\ Idle(a)
  /\ ~Gone
  /\ call' = [call EXCEPT ![a] = c]
  /\ UNCHANGED <<course, versions, item, blind, settled>>

Editor(new, snapshot) ==
  [op |-> "course", old |-> course, new |-> new, snapshot |-> snapshot]
Structure(op, new, rows, list) ==
  [op |-> op, old |-> item, new |-> new, rows |-> rows, list |-> list]

Return(a) == call' = [call EXCEPT ![a] = NoCall]

-----------------------------------------------------------------------------
(* The course.                                                              *)

\* Mutant: what a form leaves blank is blanked.
Merged_Blank(old, form) == form

\* A form sends null for what is blank, which update() takes for no change.
Merged(old, form) == [form EXCEPT !.cover = @ \/ old.cover]

Update(a, form) ==
  LET live == course.status = "published"
  IN /\ course.version < MaxVersion
     /\ Begin(a, Editor([course EXCEPT !.content = Merged(@, form),
                                       !.version = IF live THEN @ + 1 ELSE @], live))

\* Mutant: a restoration does not count up.
RestoreVersion_SameVersion(a, v) ==
  /\ course.version < MaxVersion
  /\ Begin(a, Editor([course EXCEPT !.content = v.content], TRUE))

RestoreVersion(a, v) ==
  /\ course.version < MaxVersion
  /\ Begin(a, Editor([course EXCEPT !.content = v.content, !.version = @ + 1], TRUE))

ValidateForPublish ==
  /\ course.content.cover
  /\ There(item) # {}
  /\ \A l \in There(item) : item[l].video

Publish(a) ==
  /\ ValidateForPublish
  /\ Begin(a, Editor([course EXCEPT !.status = "published"], FALSE))

Archive(a) == Begin(a, Editor([course EXCEPT !.status = "archived"], FALSE))

\* Nothing counts the enrollments of a course, so delete() is never refused.
EnrollmentCount == 0

Delete(a) ==
  /\ EnrollmentCount = 0
  /\ Begin(a, [Editor(course, FALSE) EXCEPT !.op = "delete"])

\* snapshotVersion(): the row as it was read, refused when its version is taken.
Snapshot(c) == [version |-> c.old.version, content |-> c.old.content]

VersionTaken(c) == \E v \in versions : v.version = c.old.version

Unseen(c) ==
  /\ c.new # c.old
  /\ IF c.snapshot THEN course.version = c.old.version /\ course.content # c.old.content
     ELSE course # c.old

CourseRefused(c) == Gone \/ (c.snapshot /\ VersionTaken(c))

SaveCourse(a) ==
  LET c == call[a]
  IN /\ c.op = "course"
     /\ Return(a)
     /\ IF CourseRefused(c)
        THEN UNCHANGED <<course, versions, blind>>
        ELSE /\ course' = IF c.new = c.old THEN course ELSE c.new
             /\ versions' = IF c.snapshot THEN versions \cup {Snapshot(c)} ELSE versions
             /\ blind' = (blind \/ Unseen(c))
     /\ UNCHANGED <<item, settled>>

\* What refers to the course goes with it (ON DELETE CASCADE).
DeleteCourse(a) ==
  /\ call[a].op = "delete"
  /\ Return(a)
  /\ course' = [course EXCEPT !.status = "gone"]
  /\ versions' = {}
  /\ item' = [i \in Items |-> IF item[i].there = "yes" THEN Removed ELSE item[i]]
  /\ UNCHANGED <<blind, settled>>

-----------------------------------------------------------------------------
(* Modules and lessons.                                                     *)

\* getModuleInCourse().
ParentThere(i) == i \in Lessons => item[ModuleOf[i]].there = "yes"

Create(a, i, video) ==
  /\ item[i] = Unmade /\ ParentThere(i)
  /\ \A b \in Admins : call[b].op = "create" => i \notin call[b].rows
  /\ Begin(a, Structure("create",
               [item EXCEPT ![i] = [there |-> "yes", video |-> video,
                                    position |-> Cardinality(Here(item, List(i)))]],
               {i}, List(i)))

CreateModule(a, m)        == Create(a, m, FALSE)
CreateLesson(a, l, video) == Create(a, l, video)

\* Mutant: what a request leaves out is cleared.
Attached_OrCleared(row, video) == [row EXCEPT !.video = video]

Attached(row, video) == [row EXCEPT !.video = @ \/ video]

\* A new title, say, or the file that was missing.
UpdateLesson(a, l, video) ==
  /\ item[l].there = "yes" /\ ParentThere(l)
  /\ Begin(a, Structure("update", [item EXCEPT ![l] = Attached(@, video)], {l}, List(l)))

RemoveItem(a, i) ==
  /\ item[i].there = "yes" /\ ParentThere(i)
  /\ Begin(a, Structure("remove", [item EXCEPT ![i] = Removed], {i}, List(i)))

DeleteModule(a, m) == RemoveItem(a, m)
DeleteLesson(a, l) == RemoveItem(a, l)

\* Mutant: the first one is number one.
NewPosition_FromOne(order, i) == order[i] + 1

NewPosition(order, i) == order[i]

\* applyOrder(): the order must name exactly what is in the list, and only the rows whose
\* position changes are written.
Reorder(a, list, order) ==
  /\ list \in Modules => item[list].there = "yes"
  /\ DOMAIN order = Here(item, list)
  /\ Begin(a, Structure("reorder",
              [i \in Items |-> IF i \in DOMAIN order
                               THEN [item[i] EXCEPT !.position = NewPosition(order, i)]
                               ELSE item[i]],
              {i \in DOMAIN order : NewPosition(order, i) # item[i].position}, list))

ReorderModules(a, order)    == Reorder(a, "course", order)
ReorderLessons(a, m, order) == Reorder(a, m, order)

\* For the history: the list is not what the transaction read.
Moved(c) == \E i \in Items : /\ List(i) = c.list
                             /\ \/ item[i].there # c.old[i].there
                                \/ item[i].position # c.old[i].position

\* A row that is no longer there fails the whole transaction, and so does a missing parent.
Refused(c) == \/ Gone
              \/ c.op # "create" /\ \E i \in c.rows : item[i].there # "yes"
              \/ c.op = "create" /\ \E i \in c.rows : ~ParentThere(i)

\* The lessons of a deleted module go with it (ON DELETE CASCADE).
After(c) == [i \in Items |->
  IF i \in c.rows THEN c.new[i]
  ELSE IF c.op = "remove" /\ List(i) \in c.rows /\ item[i].there = "yes" THEN Removed
  ELSE item[i]]

SaveStructure(a) ==
  LET c == call[a]
  IN /\ c.op \in {"create", "update", "remove", "reorder"}
     /\ Return(a)
     /\ IF Refused(c)
        THEN UNCHANGED <<item, settled>>
        ELSE /\ item' = After(c)
             /\ settled' = [settled EXCEPT ![c.list] =
                              /\ ~Moved(c)
                              /\ c.op = "reorder" \/ (@ /\ c.op # "remove")]
     /\ UNCHANGED <<course, versions, blind>>

Commit(a) ==
  \/ SaveCourse(a)
  \/ DeleteCourse(a)
  \/ SaveStructure(a)

\* The answer to a request that commits now is an error.
Fails(a) == LET c == call[a]
            IN CASE c.op = "course" -> CourseRefused(c)
                 [] c.op = "delete" -> Gone
                 [] OTHER           -> Refused(c)

-----------------------------------------------------------------------------
CallOK(c) ==
  \/ c = NoCall
  \/ /\ c.op \in {"course", "delete"} /\ c.snapshot \in BOOLEAN
     /\ c.old \in CourseRow /\ c.new \in CourseRow
  \/ /\ c.op \in {"create", "update", "remove", "reorder"} /\ c.rows \subseteq Items
     /\ c.list \in Lists /\ c.old \in [Items -> ItemRow] /\ c.new \in [Items -> ItemRow]

CoursesTypeOK ==
  /\ course \in CourseRow
  /\ versions \subseteq VersionRow
  /\ item \in [Items -> ItemRow]
  /\ DOMAIN call = Admins /\ \A a \in Admins : CallOK(call[a])
  /\ blind \in BOOLEAN /\ settled \in [Lists -> BOOLEAN]

\* However the edits of a published course and the restorations of earlier versions
\* overlap, the next one finds its version number free: as long as no publish, archive
\* or edit of an unpublished course wrote back a row that was out of date (update() and
\* restoreVersion() number the snapshot before they count up, CourseService.java:167, 307).
VersionIsFree == ~blind => \A v \in versions : v.version < course.version

\* What students could read is not lost: a step that changes what a published course says
\* leaves the words it replaces among the versions, with the same exception.  Of two edits
\* that read the same version, one fails on UNIQUE (course_id, version).
ReplacedIsKept ==
  [][\/ blind'
     \/ course.status # "published" \/ course'.status = "gone"
     \/ course'.content = course.content
     \/ \E v \in versions' : v.content = course.content]_courseVars

\* What validateForPublish() asked of the texts stays true while the course is for sale:
\* no form that leaves the cover blank, no restoration of what it said as a draft and no
\* edit that overlapped the publication takes the cover away, with the same exception.
PublishedIsComplete == course.status = "published" /\ ~blind => course.content.cover

\* The modules, and the lessons of each, are numbered 0, 1, 2, ...: from the start until one
\* is deleted or two changes of the list overlap, and again after a reorder nobody overlapped,
\* from however old a page it came.
OrderIsTotal == \A list \in Lists : settled[list] => Numbered(item, list)

=============================================================================
