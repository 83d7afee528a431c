----------------------------- MODULE MCCourses ------------------------------
EXTENDS CoursePages, TLC

CONSTANTS a1, a2, t1, t2, m1, m2, l1, l2, l3

MCAdmins   == {a1, a2}
MCTitles   == {t1, t2}
MCModules  == {m1, m2}
MCLessons  == {l1, l2, l3}
MCModuleOf == [l \in MCLessons |-> IF l = l3 THEN m2 ELSE m1]
MCWritten  == [title |-> t1, cover |-> FALSE]
MCStart    == [i \in MCModules \cup MCLessons |->
                 [Unmade EXCEPT !.there = IF i \in {m1, l1} THEN "yes" ELSE @,
                                !.video = i = l1]]
MCDesks    == {"course", "content"}

Symmetry == Permutations(MCAdmins)
=============================================================================
