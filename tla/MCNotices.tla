----------------------------- MODULE MCNotices -----------------------------
(* Small instances, all in one run: an announcement for one student with    *)
(* every time, an edit and a fault; one for two students; a    *)
(* bell fed by other events, with two faults; one fed by the publication;   *)
(* and the pages of an administrator, from nothing on.                      *)
EXTENDS AnnouncementPages
CONSTANTS w, u, v

MCUsers == {w, u, v}
Everything == [inApp |-> TRUE, email |-> TRUE]
MailOnly == [inApp |-> FALSE, email |-> TRUE]

Times2 == {"none", "future"}
None == {"none"}

Timed == [high : {TRUE}, at : Times2, end : Times2, to : {{u}},
          choices : {{Everything}},
          watched : {FALSE}, status : {"draft"}, edits : {1}, events : {0}, faults : {1}]
ToTwo == [high : BOOLEAN, at : None, end : None, to : {{u, v}},
          choices : {{Everything, MailOnly}},
          watched : {FALSE}, status : {"draft"}, edits : {0}, events : {0}, faults : {1}]
Watched == [high : {FALSE}, at : None, end : None, to : {{}},
            choices : {{Everything}},
            watched : {TRUE}, status : {"expired"}, edits : {0}, events : {2}, faults : {2}]
Both == [high : {FALSE}, at : None, end : None, to : {{w}},
         choices : {{Everything}},
         watched : {TRUE}, status : {"draft"}, edits : {0}, events : {0}, faults : {0}]
Pages == [high : {FALSE}, at : None, end : None, to : {{}},
          choices : {{Everything}},
          watched : {FALSE}, status : {"none"}, edits : {1}, events : {0}, faults : {0}]
MCScenarios == Timed \cup ToTwo \cup Watched \cup Both \cup Pages

\* A course or a time is missing; and what can be submitted.
MCEntered ==
  {[filled |-> TRUE, audience |-> "no course", schedule |-> "now", at |-> "none"],
   [filled |-> TRUE, audience |-> "all", schedule |-> "later", at |-> "none"],
   [filled |-> TRUE, audience |-> "courses", schedule |-> "draft", at |-> "none"],
   [filled |-> TRUE, audience |-> "all", schedule |-> "now", at |-> "future"],
   [filled |-> TRUE, audience |-> "all", schedule |-> "later", at |-> "future"]}
=============================================================================
