------------------------------- MODULE LiveView -------------------------------
(***************************************************************************)
(* The live view of one camera: pipeline tasks elect a publisher through a *)
(* key that expires and publish frames that expire (stream_utils.py), and  *)
(* the API serves them to a browser until none comes any more              *)
(* (camera_controller.py).                                                 *)
(*                                                                         *)
(* An action is one call to Redis.  Time passes in ticks, also between two *)
(* calls of a publisher.  Several copies of a task may run at a time: the  *)
(* broker delivers a message again that has not been acknowledged in time, *)
(* and acknowledgement is late (celery_worker.py).                         *)
(***************************************************************************)
EXTENDS Naturals

CONSTANTS
  Copies,       \* executions of pipeline tasks of the camera
  TaskOf,       \* the Celery id of each: self.request.id
  ClaimTTL,     \* FRAME_OWNER_TTL_SECONDS, in ticks
  FrameTTL,     \* FRAME_TTL_SECONDS
  IdleTimeout,  \* STREAM_IDLE_TIMEOUT
  MaxFaults     \* bound: Redis calls that fail

None == "none"   \* no such key

\* A frame outlives a tick, in which the viewer polls at least once.
ASSUME LiveViewAssumption ==
  /\ ClaimTTL \in Nat \ {0} /\ FrameTTL \in Nat \ {0, 1} /\ IdleTimeout \in Nat
  /\ MaxFaults \in Nat
  /\ \A c \in Copies : TaskOf[c] # None

NotIdle == IdleTimeout + 2

VARIABLES
  phase,   \* where each copy is in publish_frame; "new" and "dead" copies do not run
  claim,   \* Redis: the task that publishes, and for how long
  frame,   \* Redis: the copy that wrote the latest frame, and for how long it stays
  viewer,  \* the generator of stream_camera
  idle,    \* ticks since its idle_since, or NotIdle
  polled,  \* whether it has polled since the last tick
  faults,  \* Redis calls that have failed
  lapsed,  \* history: copies whose claim expired while they were publishing
  age,     \* history: ticks since the last frame was written
  blind    \* history: a read has failed since the last one that found a frame

redis == <<claim, frame>>
view == <<viewer, idle, polled, blind>>
vars == <<phase, redis, view, faults, lapsed, age>>

NoKey == [by |-> None, left |-> 0]
KeyWithoutTTL(by, ttl) == [by |-> by, left |-> 0]
Key(by, ttl) == [by |-> by, left |-> ttl]

\* What is left of a key after a tick; one without a TTL (0) stays.
Aged(k) == CASE k.left = 0 -> k
             [] k.left = 1 -> NoKey
             [] OTHER -> [k EXCEPT !.left = @ - 1]

Publishing == {"claim", "compare", "renew", "write"}
Running == {c \in Copies : phase[c] \in Publishing \cup {"loop"}}

Capped(n, cap) == IF n < cap THEN n + 1 ELSE cap

Goto(c, p) == phase' = [phase EXCEPT ![c] = p]

Init ==
  /\ phase = [c \in Copies |-> "new"]
  /\ claim = NoKey
  /\ frame = NoKey
  /\ viewer = "closed"
  /\ idle = NotIdle
  /\ polled = FALSE
  /\ faults = 0
  /\ lapsed = {}
  /\ age = IdleTimeout + 1
  /\ blind = FALSE

-----------------------------------------------------------------------------
(* The publishers.                                                         *)

Start(c) == phase[c] = "new" /\ Goto(c, "loop")
                /\ UNCHANGED <<redis, view, faults, lapsed, age>>

\* The task ends or its worker dies, at any moment.
Die(c) == c \in Running /\ Goto(c, "dead") /\ lapsed' = lapsed \ {c}
              /\ UNCHANGED <<redis, view, faults, age>>

\* The loop has a frame to show.
BeginPublish(c) ==
  /\ phase[c] = "loop"
  /\ Goto(c, "claim")
  /\ UNCHANGED <<redis, view, faults, lapsed, age>>

\* SET NX EX.
Unconditionally == TRUE
IfAbsent == claim = NoKey

ClaimView(c) ==
  /\ phase[c] = "claim"
  /\ IF IfAbsent
     THEN claim' = Key(TaskOf[c], ClaimTTL) /\ Goto(c, "write")
     ELSE UNCHANGED claim /\ Goto(c, "compare")
  /\ UNCHANGED <<frame, view, faults, lapsed, age>>

\* GET: somebody else's claim, or none any more, means no publication.
IsTaken(c) == claim # NoKey
IsMine(c) == claim.by = TaskOf[c]

CompareOwner(c) ==
  /\ phase[c] = "compare"
  /\ Goto(c, IF IsMine(c) THEN "renew" ELSE "loop")
  /\ UNCHANGED <<redis, view, faults, lapsed, age>>

\* EXPIRE: without effect if the key is gone, and its result is not looked at.
RenewClaim(c) ==
  /\ phase[c] = "renew"
  /\ claim' = IF claim = NoKey THEN NoKey ELSE Key(claim.by, ClaimTTL)
  /\ Goto(c, "write")
  /\ UNCHANGED <<frame, view, faults, lapsed, age>>

\* The frame is encoded, and SET EX.  A frame that cannot be encoded is given
\* up like one whose SET was not served (PublishFails).
WriteFrame(c) ==
  /\ phase[c] = "write"
  /\ frame' = Key(c, FrameTTL)
  /\ age' = 0
  /\ lapsed' = lapsed \ {c}
  /\ Goto(c, "loop")
  /\ UNCHANGED <<claim, view, faults>>

\* A call raises, and the frame is given up; the call may have been served.
PublishFails(c) ==
  /\ phase[c] \in Publishing
  /\ faults < MaxFaults
  /\ faults' = faults + 1
  /\ Goto(c, "loop")
  /\ \/ UNCHANGED <<redis, age>>
     \/ /\ phase[c] = "claim" /\ claim = NoKey
        /\ claim' = Key(TaskOf[c], ClaimTTL)
        /\ UNCHANGED <<frame, age>>
     \/ /\ phase[c] = "renew" /\ claim # NoKey
        /\ claim' = Key(claim.by, ClaimTTL)
        /\ UNCHANGED <<frame, age>>
     \/ /\ phase[c] = "write"
        /\ frame' = Key(c, FrameTTL) /\ age' = 0
        /\ UNCHANGED claim
  /\ lapsed' = lapsed \ {c}
  /\ UNCHANGED view

-----------------------------------------------------------------------------
(* The viewer.                                                             *)

OpenStream ==
  /\ viewer = "closed"
  /\ viewer' = "open"
  /\ idle' = NotIdle
  /\ polled' = FALSE
  /\ blind' = FALSE
  /\ UNCHANGED <<phase, redis, faults, lapsed, age>>

\* get_latest_frame has a frame; it is sent if it is not the one sent last.
KeepIdle == idle
ResetIdle == NotIdle

PollFrame ==
  /\ viewer = "open" /\ frame # NoKey
  /\ idle' = ResetIdle
  /\ blind' = FALSE
  /\ polled' = TRUE
  /\ UNCHANGED <<phase, redis, viewer, faults, lapsed, age>>

\* It has none: the generator ends if that has been so for too long.
IdleFromNow == 0
IdleSince == IF idle = NotIdle THEN 0 ELSE idle

PollNothing ==
  /\ idle' = IdleSince
  /\ viewer' = IF idle = IdleTimeout + 1 THEN "closed" ELSE viewer
  /\ polled' = TRUE

PollMiss ==
  /\ viewer = "open" /\ frame = NoKey
  /\ PollNothing
  /\ UNCHANGED <<phase, redis, blind, faults, lapsed, age>>

\* A failed read counts as none.
PollFails ==
  /\ viewer = "open" /\ faults < MaxFaults
  /\ faults' = faults + 1
  /\ PollNothing
  /\ blind' = TRUE
  /\ UNCHANGED <<phase, redis, lapsed, age>>

-----------------------------------------------------------------------------
\* A poll takes much less than a tick.
Tick ==
  /\ viewer = "open" => polled
  /\ polled' = FALSE
  /\ claim' = Aged(claim)
  /\ frame' = Aged(frame)
  /\ idle' = IF idle = NotIdle THEN idle ELSE Capped(idle, IdleTimeout + 1)
  /\ age' = Capped(age, IdleTimeout + 1)
  /\ lapsed' = IF claim' # NoKey THEN lapsed
               ELSE lapsed \cup {c \in Copies : phase[c] \in {"renew", "write"}}
  /\ UNCHANGED <<phase, viewer, faults, blind>>

Poll == PollFrame \/ PollMiss

Publish(c) ==
  BeginPublish(c) \/ ClaimView(c) \/ CompareOwner(c) \/ RenewClaim(c) \/ WriteFrame(c)

Next ==
  \/ \E c \in Copies : Start(c) \/ Die(c) \/ Publish(c) \/ PublishFails(c)
  \/ OpenStream \/ Poll \/ PollFails
  \/ Tick

Spec == Init /\ [][Next]_vars

\* Time passes, a pipeline that runs goes on to its next frame, the generator
\* goes on polling.
FairSpec ==
  /\ Spec
  /\ WF_vars(Tick)
  /\ WF_vars(Poll)
  /\ \A c \in Copies : WF_vars(Publish(c))

-----------------------------------------------------------------------------
(* Properties.                                                             *)

Claims == [by : {TaskOf[c] : c \in Copies}, left : 1 .. ClaimTTL] \cup {NoKey}
Frames == [by : Copies, left : 1 .. FrameTTL] \cup {NoKey}

TypeOK ==
  /\ phase \in [Copies -> Publishing \cup {"new", "loop", "dead"}]
  /\ claim \in Claims
  /\ frame \in Frames
  /\ viewer \in {"closed", "open"}
  /\ idle \in 0 .. NotIdle
  /\ polled \in BOOLEAN
  /\ faults \in 0 .. MaxFaults
  /\ lapsed \subseteq Copies
  /\ age \in 0 .. IdleTimeout + 1
  /\ blind \in BOOLEAN

\* "Elect one publisher per camera" (stream_utils.py): two tasks are about to
\* write a frame at the same time only if the claim of one of them has expired
\* since it was told that it owns the view.
OnePublisherUnlessLapsed ==
  \A c, d \in Copies :
    phase[c] = "write" /\ phase[d] = "write" /\ {c, d} \cap lapsed = {} =>
      TaskOf[c] = TaskOf[d]

\* The picture changes from one task's to another's only when the first task's
\* claim is over, or the second one is late.
PictureFromTheOwner ==
  [][\A c \in Copies :
       phase[c] = "write" /\ phase'[c] = "loop" /\ frame' = Key(c, FrameTTL) /\ frame # NoKey =>
         \/ TaskOf[c] = TaskOf[frame.by]
         \/ claim.by # TaskOf[frame.by]
         \/ c \in lapsed]_vars

\* "The claim expires so another task takes over if the owner dies": as long
\* as a pipeline runs there is a frame again and again.
PictureComesBack == []<>(frame # NoKey \/ Running = {})

\* "A missing key means the detection task has stopped": the response ends
\* when no pipeline runs, so that it does not hold the connection forever.
StreamEnds == viewer = "open" ~> (viewer = "closed" \/ Running # {})

\* And it does not end while frames are published: only after no frame has
\* been written for the whole timeout, unless reads have failed.
StreamLastsWithFrames ==
  [][viewer = "open" /\ viewer' = "closed" => age > IdleTimeout \/ blind']_vars
===============================================================================
