----------------------------- MODULE MCLearning -----------------------------
EXTENDS LearnerPages

CONSTANTS a1, t1, t2, m1, l1, l2, w1, w2, d1, x1, x2

MCAdmins     == {a1}
MCTitles     == {t1, t2}
MCFree       == {t1}
MCModules    == {m1}
MCLessons    == {l1, l2}
MCModuleOf   == [l \in MCLessons |-> m1]
MCWritten    == [title |-> t2, cover |-> TRUE]
MCStart      == [i \in MCModules \cup MCLessons |->
                   [Unmade EXCEPT !.there = IF i = l2 THEN @ ELSE "yes", !.video = i = l1]]
MCTabs       == {w1, w2}
MCModerators == {d1}
MCTexts      == {x1, x2}
MCErrands    == {"buy", "learn", "review"}
=============================================================================
