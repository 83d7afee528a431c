---------------------------- MODULE MCClassroom ----------------------------
EXTENDS Classroom

CONSTANTS m1, m2, c1, c2

MCMessages   == {m1, m2}
MCByStudents == {m1}
MCCalls      == {c1}
=============================================================================
