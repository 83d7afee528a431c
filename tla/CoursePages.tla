---------------------------- MODULE CoursePages -----------------------------
(***************************************************************************)
(* The pages from which admins edit a course (admin app: the Overview,     *)
(* Edit, Content and Versions tabs), over the handlers they call (Courses).*)
(* A page acts on the course as it showed it: it is fetched anew after a   *)
(* request that succeeded, and stays as it is after one that failed.       *)
(***************************************************************************)
EXTENDS Courses

CONSTANTS
  Blank,        \* a title left blank
  Desks,        \* what the admins work on in one behaviour: "course", "content"
  MaxRequests   \* bound: requests about the content

ASSUME PagesAssumption ==
  /\ Blank \notin Titles
  /\ Desks \subseteq {"course", "content"}
  /\ MaxRequests \in Nat

VARIABLES page, desk, requests

pageVars == <<page, desk, requests>>
vars == <<courseVars, pageVars>>

\* A page that shows nothing yet.
NoPage == [course |-> <<>>, rows |-> <<>>]
Open(a) == page[a] # NoPage
Shown(a) == page[a].course
Rows(a) == page[a].rows

Init ==
  /\ CoursesInit("draft")
  /\ page = [a \in Admins |-> NoPage]
  /\ desk \in Desks
  /\ requests = 0

GetDetail == [course |-> course, rows |-> item]

\* useFetch() of the course: at first, after a success, or when the admin reloads.
OpenPage(a) ==
  /\ Idle(a) /\ ~Gone
  /\ page' = [page EXCEPT ![a] = GetDetail]
  /\ UNCHANGED <<courseVars, desk, requests>>

-----------------------------------------------------------------------------
(* The Overview, Edit and Versions tabs.                                    *)

Press(a) ==
  /\ desk = "course" /\ Open(a)
  /\ UNCHANGED pageVars

HandlePublish(a) == Shown(a).status = "draft" /\ Publish(a)

HandleArchive(a) == Shown(a).status # "archived" /\ Archive(a)

HandleDelete(a) == EnrollmentCount = 0 /\ Delete(a)

Forms == [title : Titles \cup {Blank}, cover : BOOLEAN]

ValidateCourseForm(form) == form.title # Blank

HandleSubmit(a) == \E form \in Forms : ValidateCourseForm(form) /\ Update(a, form)

\* The list of versions may be old as well, but nothing takes a version away.
HandleRestore(a) == \E v \in versions : RestoreVersion(a, v)

\* Each of the admin's buttons starts at most one request.
CourseTabs(a) ==
  /\ Press(a)
  /\ \/ HandlePublish(a)
     \/ HandleArchive(a)
     \/ HandleDelete(a)
     \/ HandleSubmit(a)
     \/ HandleRestore(a)

\* The list of courses offers two of them, by the status it shows.
CourseList(a) ==
  /\ Press(a)
  /\ HandleArchive(a) \/ HandleDelete(a)

-----------------------------------------------------------------------------
(* The Content tab.                                                         *)

\* The order in which a page lists the rows of one list, those of one position in any order.
Listed(rows, list) ==
  LET here == Here(rows, list)
  IN {o \in Bijection(here, 0..(Cardinality(here) - 1)) :
        \A i, j \in here : rows[i].position < rows[j].position => o[i] < o[j]}

\* swap(): the i-th one and the next change places.
Swapped(o, i) ==
  [j \in DOMAIN o |-> CASE o[j] = o[i]     -> o[j] + 1
                        [] o[j] = o[i] + 1 -> o[i]
                        [] OTHER           -> o[j]]

Moves(rows, list) ==
  UNION {{Swapped(o, i) : i \in {j \in DOMAIN o : o[j] + 1 < Cardinality(DOMAIN o)}} :
           o \in Listed(rows, list)}

Click(a) ==
  /\ desk = "content" /\ Open(a)
  /\ requests < MaxRequests
  /\ requests' = requests + 1
  /\ UNCHANGED <<page, desk>>

On(a, i) == Rows(a)[i].there = "yes"

AddModule(a)    == \E m \in Modules : CreateModule(a, m)
MoveModule(a)   == \E order \in Moves(Rows(a), "course") : ReorderModules(a, order)
RemoveModule(a) == \E m \in Modules : On(a, m) /\ DeleteModule(a, m)

\* A new lesson is a video without a file.
AddLesson(a)    == \E l \in Lessons : On(a, ModuleOf[l]) /\ CreateLesson(a, l, FALSE)
MoveLesson(a)   == \E m \in Modules : \E order \in Moves(Rows(a), m) :
                     On(a, m) /\ ReorderLessons(a, m, order)
RemoveLesson(a) == \E l \in Lessons : On(a, l) /\ DeleteLesson(a, l)

\* Preview or download: what else the row holds is sent by nobody.
ToggleLesson(a) == \E l \in Lessons : On(a, l) /\ UpdateLesson(a, l, FALSE)

\* A link, or a file uploaded: the link shown is sent again, and a blank one is left out.
SaveLessonVideo(a) == \E l \in Lessons, typed \in BOOLEAN :
  On(a, l) /\ UpdateLesson(a, l, typed \/ Rows(a)[l].video)

ContentTab(a) ==
  /\ Click(a)
  /\ \/ AddModule(a)
     \/ MoveModule(a)
     \/ RemoveModule(a)
     \/ AddLesson(a)
     \/ MoveLesson(a)
     \/ RemoveLesson(a)
     \/ ToggleLesson(a)
     \/ SaveLessonVideo(a)

-----------------------------------------------------------------------------
\* The answer: after a success the page is fetched again.
Answer(a) ==
  /\ Commit(a)
  /\ page' = IF Fails(a) THEN page ELSE [page EXCEPT ![a] = NoPage]
  /\ UNCHANGED <<desk, requests>>

Next == \E a \in Admins :
  \/ OpenPage(a)
  \/ CourseTabs(a)
  \/ CourseList(a)
  \/ ContentTab(a)
  \/ Answer(a)

Spec == Init /\ [][Next]_vars

-----------------------------------------------------------------------------
\* A file once attached to a lesson stays attached, however old the page from which the
\* lesson is moved, marked or given another link: a request leaves out what it does not
\* change, and only a transaction that read the row before the file was attached writes it
\* back without (CourseStructureService.java:112).
VideoIsKept ==
  [][\A l \in Lessons :
       item[l].video /\ item'[l].there = "yes" /\ ~item'[l].video
         => \E a \in Admins : call'[a] # call[a] /\ ~call[a].old[l].video]_vars

\* What students could read or watch is kept: the words of a published course among its
\* versions, the video with its lesson.
KeptForStudents == ReplacedIsKept /\ VideoIsKept
=============================================================================
