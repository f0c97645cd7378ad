---------------------------- MODULE LiveViewProofs ----------------------------
(***************************************************************************)
(* Theorems about LiveView, for any copies of any tasks, any lifetimes of  *)
(* the keys and any number of failing calls.                               *)
(***************************************************************************)
EXTENDS LiveView, TLAPS

\* A copy that is about to renew the claim or to write was told that it owns
\* the view; the claim is still that of its task, or it has lapsed.
ClaimHeld ==
  \A c \in Copies :
    phase[c] \in {"renew", "write"} /\ c \notin lapsed =>
      claim # NoKey /\ claim.by = TaskOf[c]

\* A viewer that has been idle for longer than there has been no frame has not
\* polled yet since the frame was written: it is still there.
IdleAgrees ==
  viewer = "open" /\ ~blind /\ idle # NotIdle /\ idle > age =>
    frame # NoKey /\ (polled => frame.left = FrameTTL)

IInv == TypeOK /\ ClaimHeld /\ IdleAgrees

-----------------------------------------------------------------------------
LEMMA AgedClaim ==
  ASSUME claim \in Claims
  PROVE  /\ Aged(claim) \in Claims
         /\ Aged(claim) # NoKey => Aged(claim).by = claim.by
<1>1. CASE claim.left = 0
  BY <1>1 DEF Aged
<1>2. CASE claim.left = 1
  BY <1>2 DEF Aged, Claims
<1>3. CASE claim.left \notin {0, 1}
  <2>1. /\ claim \in [by : {TaskOf[c] : c \in Copies}, left : 1 .. ClaimTTL]
        /\ claim.left - 1 \in 1 .. ClaimTTL
    BY <1>3, LiveViewAssumption DEF Claims, NoKey
  <2>2. Aged(claim) = [claim EXCEPT !.left = claim.left - 1]
    BY <1>3 DEF Aged
  <2> QED
    BY <2>1, <2>2 DEF Claims
<1> QED
  BY <1>1, <1>2, <1>3

LEMMA AgedFrame ==
  ASSUME frame \in Frames
  PROVE  /\ Aged(frame) \in Frames
         /\ frame.left = FrameTTL => Aged(frame) # NoKey
<1>1. CASE frame.left = 0
  BY <1>1, LiveViewAssumption DEF Aged
<1>2. CASE frame.left = 1
  BY <1>2, LiveViewAssumption DEF Aged, Frames
<1>3. CASE frame.left \notin {0, 1}
  <2>1. /\ frame \in [by : Copies, left : 1 .. FrameTTL]
        /\ frame.left - 1 \in 1 .. FrameTTL
    BY <1>3, LiveViewAssumption DEF Frames, NoKey
  <2>2. Aged(frame) = [frame EXCEPT !.left = frame.left - 1]
    BY <1>3 DEF Aged
  <2>3. Aged(frame).left # 0
    BY <2>1, <2>2
  <2> QED
    BY <2>1, <2>2, <2>3 DEF Frames, NoKey
<1> QED
  BY <1>1, <1>2, <1>3

LEMMA Keys ==
  /\ \A c \in Copies :
       /\ Key(TaskOf[c], ClaimTTL) \in Claims
       /\ Key(c, FrameTTL) \in Frames
  /\ claim \in Claims /\ claim # NoKey => Key(claim.by, ClaimTTL) \in Claims
  /\ \A by : /\ Key(by, ClaimTTL) # NoKey /\ Key(by, ClaimTTL).by = by
             /\ Key(by, FrameTTL) # NoKey /\ Key(by, FrameTTL).left = FrameTTL
<1>1. ClaimTTL \in 1 .. ClaimTTL /\ FrameTTL \in 1 .. FrameTTL
  BY LiveViewAssumption
<1>2. \A by : /\ Key(by, ClaimTTL).left # NoKey.left
              /\ Key(by, FrameTTL).left # NoKey.left
  BY LiveViewAssumption DEF Key, NoKey
<1> QED
  BY <1>1, <1>2 DEF Key, Claims, Frames

-----------------------------------------------------------------------------
\* What one copy does keeps what another one may rely on, as long as a claim
\* that exists stays with its task.
LEMMA OthersKeepClaim ==
  ASSUME ClaimHeld, NEW c \in Copies,
         claim # NoKey => claim' # NoKey /\ claim'.by = claim.by,
         \A d \in Copies \ {c} : phase'[d] = phase[d],
         lapsed' = lapsed \ {c} \/ lapsed' = lapsed,
         phase'[c] \in {"renew", "write"} /\ c \notin lapsed' =>
           claim' # NoKey /\ claim'.by = TaskOf[c]
  PROVE  ClaimHeld'
BY DEF ClaimHeld

LEMMA InitIInv == Init => IInv
<1> SUFFICES ASSUME Init PROVE IInv
  OBVIOUS
<1>1. /\ phase \in [Copies -> Publishing \cup {"new", "loop", "dead"}]
      /\ lapsed \subseteq Copies
  BY DEF Init
<1>2. claim \in Claims /\ frame \in Frames
  BY DEF Init, Claims, Frames
<1>3. idle \in 0 .. NotIdle /\ faults \in 0 .. MaxFaults /\ age \in 0 .. IdleTimeout + 1
  BY LiveViewAssumption DEF Init, NotIdle
<1>4. viewer \in {"closed", "open"} /\ polled \in BOOLEAN /\ blind \in BOOLEAN
  BY DEF Init
<1>5. ClaimHeld /\ IdleAgrees
  BY DEF Init, ClaimHeld, IdleAgrees
<1> QED
  BY <1>1, <1>2, <1>3, <1>4, <1>5 DEF IInv, TypeOK

LEMMA PublisherKeepsIInv ==
  ASSUME IInv, NEW c \in Copies, Start(c) \/ Die(c) \/ Publish(c)
  PROVE  IInv'
<1> USE DEF IInv, TypeOK
<1>1. CASE Start(c)
  BY <1>1, OthersKeepClaim DEF Start, Goto, redis, view, IdleAgrees, Publishing
<1>2. CASE Die(c)
  BY <1>2, OthersKeepClaim DEF Die, Goto, redis, view, IdleAgrees
<1>3. CASE BeginPublish(c)
  BY <1>3, OthersKeepClaim DEF BeginPublish, Goto, redis, view, IdleAgrees, Publishing
<1>4. CASE ClaimView(c)
  <2>1. TypeOK' /\ IdleAgrees'
    BY <1>4, Keys DEF ClaimView, Goto, view, IdleAgrees, Publishing
  <2>2. CASE IfAbsent
    <3>1. /\ claim = NoKey
          /\ claim' = Key(TaskOf[c], ClaimTTL)
          /\ phase' = [phase EXCEPT ![c] = "write"]
          /\ lapsed' = lapsed
      BY <1>4, <2>2 DEF ClaimView, IfAbsent, Goto
    <3>2. ClaimHeld'
      BY <3>1, Keys, OthersKeepClaim
    <3> QED
      BY <2>1, <3>2
  <2>3. CASE ~IfAbsent
    <3>1. ClaimHeld'
      BY <1>4, <2>3, OthersKeepClaim DEF ClaimView, Goto
    <3> QED
      BY <2>1, <3>1
  <2> QED
    BY <2>2, <2>3
<1>5. CASE CompareOwner(c)
  <2>1. TypeOK' /\ IdleAgrees'
    BY <1>5 DEF CompareOwner, Goto, redis, view, IdleAgrees, Publishing
  <2>2. IsMine(c) => claim # NoKey
    BY LiveViewAssumption DEF IsMine, NoKey
  <2>3. ClaimHeld'
    BY <1>5, <2>2, OthersKeepClaim DEF CompareOwner, Goto, redis, IsMine
  <2> QED
    BY <2>1, <2>3
<1>6. CASE RenewClaim(c)
  <2>1. TypeOK' /\ IdleAgrees'
    BY <1>6, Keys DEF RenewClaim, Goto, view, IdleAgrees, Publishing
  <2>2. phase[c] = "renew" /\ lapsed' = lapsed
    BY <1>6 DEF RenewClaim
  <2>3. c \notin lapsed => claim # NoKey /\ claim.by = TaskOf[c]
    BY <2>2 DEF ClaimHeld
  <2>4. ClaimHeld'
    BY <1>6, <2>2, <2>3, Keys, OthersKeepClaim DEF RenewClaim, Goto
  <2> QED
    BY <2>1, <2>4
<1>7. CASE WriteFrame(c)
  <2>1. TypeOK' /\ IdleAgrees'
    BY <1>7, Keys, LiveViewAssumption DEF WriteFrame, Goto, view, IdleAgrees, Publishing
  <2>2. ClaimHeld'
    BY <1>7, OthersKeepClaim DEF WriteFrame, Goto
  <2> QED
    BY <2>1, <2>2
<1> QED
  BY <1>1, <1>2, <1>3, <1>4, <1>5, <1>6, <1>7 DEF Publish

LEMMA FailureKeepsIInv ==
  ASSUME IInv, NEW c \in Copies, PublishFails(c)
  PROVE  IInv'
<1> USE DEF IInv, TypeOK
<1>1. /\ faults < MaxFaults /\ faults' = faults + 1
      /\ phase' = [phase EXCEPT ![c] = "loop"]
      /\ lapsed' = lapsed \ {c}
      /\ UNCHANGED <<viewer, idle, polled, blind>>
  BY DEF PublishFails, Goto, view
<1>2. /\ claim' \in Claims /\ frame' \in Frames /\ age' \in 0 .. IdleTimeout + 1
      /\ claim # NoKey => claim' # NoKey /\ claim'.by = claim.by
  BY Keys, LiveViewAssumption DEF PublishFails, redis
<1>3. TypeOK'
  BY <1>1, <1>2, LiveViewAssumption
<1>4. ClaimHeld'
  BY <1>1, <1>2, OthersKeepClaim
<1>5. \/ frame' = frame /\ age' = age
      \/ frame' = Key(c, FrameTTL)
  BY DEF PublishFails, redis
<1>6. IdleAgrees'
  BY <1>1, <1>5, Keys DEF IdleAgrees
<1> QED
  BY <1>3, <1>4, <1>6

LEMMA ViewerKeepsIInv ==
  ASSUME IInv, OpenStream \/ Poll \/ PollFails
  PROVE  IInv'
<1> USE LiveViewAssumption DEF IInv, TypeOK, redis, NotIdle
<1>1. CASE OpenStream
  <2>1. idle' = NotIdle /\ polled' \in BOOLEAN /\ blind' = FALSE
    BY <1>1 DEF OpenStream
  <2>2. /\ viewer' \in {"closed", "open"}
        /\ UNCHANGED <<phase, claim, frame, faults, lapsed, age>>
    BY <1>1 DEF OpenStream
  <2>3. TypeOK'
    <3>1. idle' \in 0 .. NotIdle
      BY <2>1
    <3>2. blind' \in BOOLEAN
      BY <2>1
    <3> QED
      BY <2>1, <2>2, <3>1, <3>2
  <2> QED
    BY <2>1, <2>2, <2>3 DEF IdleAgrees, ClaimHeld
<1>2. CASE PollFrame
  <2>1. idle' = NotIdle /\ polled' \in BOOLEAN /\ blind' = FALSE
    BY <1>2 DEF PollFrame, ResetIdle
  <2>2. /\ viewer' \in {"closed", "open"}
        /\ UNCHANGED <<phase, claim, frame, faults, lapsed, age>>
    BY <1>2 DEF PollFrame, ResetIdle
  <2>3. TypeOK'
    <3>1. idle' \in 0 .. NotIdle
      BY <2>1
    <3>2. blind' \in BOOLEAN
      BY <2>1
    <3> QED
      BY <2>1, <2>2, <3>1, <3>2
  <2> QED
    BY <2>1, <2>2, <2>3 DEF IdleAgrees, ClaimHeld
<1>3. CASE PollMiss
  BY <1>3 DEF PollMiss, PollNothing, IdleSince, IdleAgrees, ClaimHeld
<1>4. CASE PollFails
  BY <1>4 DEF PollFails, PollNothing, IdleSince, IdleAgrees, ClaimHeld
<1> QED
  BY <1>1, <1>2, <1>3, <1>4 DEF Poll

LEMMA TickKeepsIInv ==
  ASSUME IInv, Tick
  PROVE  IInv'
<1> USE DEF IInv, TypeOK
<1>1. TypeOK'
  <2>1. claim' \in Claims /\ frame' \in Frames
    BY AgedClaim, AgedFrame DEF Tick
  <2>2. idle' \in 0 .. NotIdle /\ age' \in 0 .. IdleTimeout + 1
    BY LiveViewAssumption DEF Tick, Capped, NotIdle
  <2> QED
    BY <2>1, <2>2 DEF Tick
<1>2. ClaimHeld'
  BY AgedClaim DEF Tick, ClaimHeld
<1>3. IdleAgrees'
  <2>1. idle' > age' /\ idle' # NotIdle => idle > age /\ idle # NotIdle
    BY LiveViewAssumption DEF Tick, Capped, NotIdle
  <2> QED
    BY <2>1, AgedFrame DEF Tick, IdleAgrees
<1> QED
  BY <1>1, <1>2, <1>3

\* A task that was told that it owns the view holds the claim until it has written,
\* unless the claim has expired meanwhile; and a viewer who has been idle for longer
\* than there has been no frame has the new frame still before him.
THEOREM LiveViewInvariant == Spec => []IInv
<1>1. IInv /\ [Next]_vars => IInv'
  <2> SUFFICES ASSUME IInv, [Next]_vars PROVE IInv'
    OBVIOUS
  <2>1. CASE UNCHANGED vars
    BY <2>1
       DEF vars, redis, view, IInv, TypeOK, ClaimHeld, IdleAgrees
  <2> QED
    BY <2>1, PublisherKeepsIInv, FailureKeepsIInv, ViewerKeepsIInv, TickKeepsIInv DEF Next
<1> QED
  BY <1>1, InitIInv, PTL DEF Spec

\* Every variable has its type, for any tasks, copies, faults and times to live.
THEOREM LiveViewTypes == Spec => []TypeOK
<1>1. IInv => TypeOK
  BY DEF IInv
<1> QED
  BY <1>1, LiveViewInvariant, PTL

\* Two tasks are about to write a frame at the same time only if a claim has
\* expired since its holder was told that it owns the view.
THEOREM LiveViewOnePublisher == Spec => []OnePublisherUnlessLapsed
<1>1. IInv => OnePublisherUnlessLapsed
  BY DEF IInv, ClaimHeld, OnePublisherUnlessLapsed
<1> QED
  BY <1>1, LiveViewInvariant, PTL

\* The picture changes hands only when the claim of the one who wrote it is over,
\* or when the one who writes is late.
THEOREM LiveViewPictureFromTheOwner == Spec => PictureFromTheOwner
<1> DEFINE A == \A c \in Copies :
              phase[c] = "write" /\ phase'[c] = "loop" /\ frame' = Key(c, FrameTTL) /\ frame # NoKey =>
                \/ TaskOf[c] = TaskOf[frame.by]
                \/ claim.by # TaskOf[frame.by]
                \/ c \in lapsed
<1>1. IInv => A
  BY DEF IInv, ClaimHeld
<1>2. [][A]_vars <=> PictureFromTheOwner
  BY DEF PictureFromTheOwner
<1> HIDE DEF A
<1>3. Spec => [][A]_vars
  BY <1>1, LiveViewInvariant, PTL
<1> QED
  BY <1>2, <1>3

\* The response of the viewer ends only after the whole idle timeout without a
\* frame, or when a read has failed.
THEOREM LiveViewStreamLasts == Spec => StreamLastsWithFrames
<1> DEFINE A == viewer = "open" /\ viewer' = "closed" => age > IdleTimeout \/ blind'
<1>1. IInv /\ [Next]_vars => [A]_vars
  <2> SUFFICES ASSUME IInv, Next, viewer = "open", viewer' = "closed"
               PROVE  age > IdleTimeout \/ blind'
    BY DEF vars, view
  <2>1. CASE PollMiss
    <3>1. idle = IdleTimeout + 1 /\ frame = NoKey /\ blind' = blind
      BY <2>1 DEF PollMiss, PollNothing
    <3> QED
      BY <3>1, LiveViewAssumption DEF IInv, TypeOK, IdleAgrees, NotIdle
  <2>2. CASE PollFails
    BY <2>2 DEF PollFails
  <2> QED
    BY <2>1, <2>2
       DEF Next, Start, Die, Publish, BeginPublish, ClaimView, CompareOwner, RenewClaim,
           WriteFrame, PublishFails, OpenStream, Poll, PollFrame, Tick, view
<1>2. [][A]_vars <=> StreamLastsWithFrames
  BY DEF StreamLastsWithFrames
<1> HIDE DEF A
<1>3. Spec => [][A]_vars
  BY <1>1, LiveViewInvariant, PTL DEF Spec
<1> QED
  BY <1>2, <1>3

=============================================================================
