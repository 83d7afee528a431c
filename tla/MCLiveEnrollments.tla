-------------------------- MODULE MCLiveEnrollments --------------------------
(* Small instances of LiveEnrollments, with its pages, for TLC. *)
EXTENDS ClassSignup

CONSTANTS st1, st2, c1, c2

MCOneStudent == {st1}
MCTwoStudents == {st1, st2}
MCTwoCalls == {c1, c2}
MCDesks == {"requests", "pages"}

MCTerms == {[payment |-> "ONE_TIME", access |-> "INVITE_ONLY"],
            [payment |-> "RECURRING", access |-> "OPEN"],
            [payment |-> "RECURRING", access |-> "INVITE_ONLY"]}
MCOpenOneTime == {[payment |-> "ONE_TIME", access |-> "OPEN"]}
=============================================================================
