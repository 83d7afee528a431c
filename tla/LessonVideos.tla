---------------------------- MODULE LessonVideos ----------------------------
(***************************************************************************)
(* What an upload promises, apart from how it is done: a file can be       *)
(* played only when all its parts have arrived, and a file whose uploader  *)
(* was told that it is there stays playable.                               *)
(***************************************************************************)
CONSTANTS Files, Parts

VARIABLES
  arrived,    \* parts of a file that object storage holds
  playable,   \* whether a download link for the file is given out
  told        \* files whose uploader was told of success

videos == <<arrived, playable, told>>

Init ==
  /\ arrived = [f \in Files |-> {}]
  /\ playable = [f \in Files |-> FALSE]
  /\ told = {}

Arrive(f, p) ==
  /\ arrived' = [arrived EXCEPT ![f] = @ \cup {p}]
  /\ UNCHANGED <<playable, told>>

Publish(f) ==
  /\ arrived[f] = Parts
  /\ playable' = [playable EXCEPT ![f] = TRUE]
  /\ UNCHANGED <<arrived, told>>

\* The uploader gave up, or was told nothing.
Withdraw(f) ==
  /\ f \notin told
  /\ playable' = [playable EXCEPT ![f] = FALSE]
  /\ UNCHANGED <<arrived, told>>

Tell(f) ==
  /\ playable'[f]
  /\ playable' = [playable EXCEPT ![f] = TRUE]
  /\ arrived[f] = Parts
  /\ told' = told \cup {f}
  /\ UNCHANGED arrived

Next == \E f \in Files : Publish(f) \/ Withdraw(f) \/ Tell(f) \/ \E p \in Parts : Arrive(f, p)

Spec == Init /\ [][Next]_videos
=============================================================================
