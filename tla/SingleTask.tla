------------------------------ MODULE SingleTask ------------------------------
(***************************************************************************)
(* What _ensure_camera_pipeline promises of a camera: "One running task    *)
(* per camera".  A task is launched only while no other one is live, under *)
(* an id never used before, and a live task can only be retired.           *)
(***************************************************************************)
CONSTANT Tasks

VARIABLES
  live,  \* the tasks that were launched and not told to stop
  used   \* the ids of all tasks ever launched

Init == live = {} /\ used = {}

Launch(t) ==
  /\ live = {}
  /\ t \notin used
  /\ live' = {t}
  /\ used' = used \cup {t}

Retire ==
  /\ live # {}
  /\ live' = {}
  /\ UNCHANGED used

Next == Retire \/ \E t \in Tasks : Launch(t)

Spec == Init /\ [][Next]_<<live, used>>
===============================================================================
