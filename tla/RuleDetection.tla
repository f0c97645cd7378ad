----------------------------- MODULE RuleDetection -----------------------------
(***************************************************************************)
(* What the pipeline of one camera (camera_pipeline_service.py) does with  *)
(* a frame: every loaded rule keeps its own runtime state (crowd timer,    *)
(* cooldown, recording) through reloads of the rules, raises events        *)
(* (event_service.py) and hands the clips it has recorded to threads that  *)
(* write them (local_storage.py).                                          *)
(*                                                                         *)
(* One execution of the task, from its initial load of the rules; when it  *)
(* is started, aborted and started again is the subject of RulePipeline.   *)
(* Clips are measured in frames, of which the loop assumes FPS in a        *)
(* second, everything else in ticks of a clock, which has Rate in one.     *)
(***************************************************************************)
EXTENDS Integers, FiniteSets

CONSTANTS
  Rules,       \* primary keys of the camera's rules
  Cells,       \* places in the picture where a person can be detected
  Offer,       \* what each rule may be saved as: a set of Specs per rule
  FPS,         \* frames in a second, as the stream declares or 25
  Rate,        \* ticks of the clock in a second
  Delays,      \* ticks that an iteration of the loop may take
  PersonSkip,  \* DETECTION_FRAME_SKIP
  ShopSkip,    \* SHOPLIFTING_FRAME_SKIP
  Cooldown,    \* RESTRICTED_ALERT_COOLDOWN_SECONDS
  MaxFrames,   \* bound: frames read
  Faults       \* the kinds of fault that may happen

Crowd == "CROWD_DETECTION"
Restricted == "RESTRICTED_AREA"
Shoplifting == "SHOPLIFTING"
Types == {Crowd, Restricted, Shoplifting}
Unreadable == -1   \* a rule value that int() refuses
NoLimit == -1      \* None as max_people or lookout

FaultKinds == {"database",  \* the database is unavailable for a while
               "end",       \* the task is aborted, the video ends, an exception
               "disk",      \* a clip cannot be written
               "worker"}    \* the worker process dies

\* load_active_rules: what it keeps of a row. max and lookout are the values
\* "Number of Person" and "Time to Lookout", without meaning for other types.
Specs == [type : Types, roi : SUBSET Cells,
          max : Nat \cup {Unreadable}, lookout : Nat \cup {Unreadable}]

ASSUME ConstantsAssumption ==
  /\ IsFiniteSet(Cells)
  /\ Offer \in [Rules -> SUBSET Specs]
  /\ FPS \in Nat \ {0} /\ Rate \in Nat \ {0} /\ Cooldown \in Nat \ {0}
  /\ PersonSkip \in Nat \ {0} /\ ShopSkip \in Nat \ {0}
  /\ Delays \subseteq Nat \ {0}
  /\ MaxFrames \in Nat
  /\ Faults \subseteq FaultKinds

PreRoll == 2 * FPS
PostRoll == 2 * FPS
NoTime == -1                             \* None as alert_timer
NeverAlerted == -(Cooldown * Rate)       \* 0.0 as last_alert_at: long ago
Second(t) == t \div Rate                 \* int(now)
NoPath == <<"None", 0>>                  \* None as pending_clip_path
PathTo(kind, t) == <<kind, Second(t)>>   \* <kind>_<camera>_<second>.mp4
Min2(i, j) == IF i < j THEN i ELSE j

VARIABLES
  table,         \* the Active rows of the camera
  gone,          \* deleted rules: a deleted rule does not become Active again
  cameraActive,  \* Camera.status
  dbUp,          \* the database answers
  running,       \* the loop runs
  specs,         \* the rules loaded last
  states,        \* their runtime states
  now,           \* the time the current iteration has read
  frame,         \* frame_count
  person,        \* last_person_dets: the cells with a person
  shop,          \* last_shop_dets is not empty
  alerts,        \* history: the calls of record_detection_event
  writers,       \* threads of save_video_clip_async that have not ended
  files          \* pairs of a path and a clip that its file contains

control == <<table, gone, cameraActive, dbUp>>
loop == <<running, specs, states, now, frame, person, shop>>
storage == <<writers, files>>
vars == <<control, loop, alerts, storage>>

-----------------------------------------------------------------------------
(* The runtime state of a rule.                                            *)

NewState(s) ==
  LET readable == s.type = Crowd /\ Unreadable \notin {s.max, s.lookout}
  IN  [max |-> IF readable THEN s.max ELSE NoLimit,
       lookout |-> IF readable THEN s.lookout ELSE NoLimit,
       count |-> 0, timer |-> NoTime, active |-> FALSE,
       recording |-> FALSE, saved |-> 0, start |-> 0, path |-> NoPath,
       last |-> NeverAlerted]

\* A rule that is loaded again keeps its state, whatever it has become. When
\* int() refuses a value, those assigned before it stay assigned.
Synced(s, c) ==
  IF s.type # Crowd \/ s.max = Unreadable THEN c
  ELSE [c EXCEPT !.max = s.max,
                 !.lookout = IF s.lookout = Unreadable THEN @ ELSE s.lookout]

\* Mutants of SyncRuntime: deleted rules stay; every reload starts afresh.
SyncKeepsDeleted(rows, old) ==
  [r \in DOMAIN rows \cup DOMAIN old |->
     IF r \in DOMAIN rows THEN NewState(rows[r]) ELSE old[r]]
SyncAfresh(rows, old) == [r \in DOMAIN rows |-> NewState(rows[r])]

SyncRuntime(rows, old) ==
  [r \in DOMAIN rows |-> IF r \in DOMAIN old THEN Synced(rows[r], old[r])
                         ELSE NewState(rows[r])]

Init ==
  /\ \E D \in SUBSET Rules : table \in [D -> UNION {Offer[r] : r \in D}]
  /\ \A r \in DOMAIN table : table[r] \in Offer[r]
  /\ gone = {}
  /\ cameraActive = TRUE
  /\ dbUp = TRUE
  /\ running = TRUE
  /\ specs = table
  /\ states = [r \in DOMAIN table |-> NewState(table[r])]
  /\ now = 0
  /\ frame = 0
  /\ person = {}
  /\ shop = FALSE
  /\ alerts = {}
  /\ writers = {}
  /\ files = {}

-----------------------------------------------------------------------------
(* The control plane and the database.                                     *)

SaveRule(r, s) ==
  /\ dbUp
  /\ r \notin gone
  /\ table' = [q \in DOMAIN table \cup {r} |-> IF q = r THEN s ELSE table[q]]
  /\ UNCHANGED <<gone, cameraActive, dbUp, loop, alerts, storage>>

RemoveRule(r) ==
  /\ dbUp
  /\ r \in DOMAIN table
  /\ table' = [q \in DOMAIN table \ {r} |-> table[q]]
  /\ gone' = gone \cup {r}
  /\ UNCHANGED <<cameraActive, dbUp, loop, alerts, storage>>

\* remove_camera_service: the rules and the pipeline stay as they are.
RemoveCamera ==
  /\ dbUp
  /\ cameraActive' = FALSE
  /\ UNCHANGED <<table, gone, dbUp, loop, alerts, storage>>

DatabaseFails ==
  /\ "database" \in Faults
  /\ dbUp
  /\ dbUp' = FALSE
  /\ UNCHANGED <<table, gone, cameraActive, loop, alerts, storage>>

DatabaseReturns ==
  /\ ~dbUp
  /\ dbUp' = TRUE
  /\ UNCHANGED <<table, gone, cameraActive, loop, alerts, storage>>

-----------------------------------------------------------------------------
(* The loop: in an iteration it may reload the rules, then reads a frame.  *)

NoRules == [r \in {} |-> r]

\* The task returns; its locals are gone.
Return ==
  /\ running' = FALSE
  /\ specs' = NoRules
  /\ states' = NoRules
  /\ person' = {}
  /\ shop' = FALSE

\* load_active_rules, _sync_runtime. Without rules the loop ends; without
\* the database, too: nothing in the loop catches the exception.
Reload ==
  /\ running
  /\ IF dbUp /\ DOMAIN table # {}
     THEN /\ specs' = table
          /\ states' = SyncRuntime(table, states)
          /\ UNCHANGED <<running, person, shop>>
     ELSE Return
  /\ UNCHANGED <<now, frame, control, alerts, storage>>

Stop ==
  /\ "end" \in Faults
  /\ running
  /\ Return
  /\ UNCHANGED <<now, frame, control, alerts, storage>>

NeedsPerson == \E r \in DOMAIN specs : specs[r].type \in {Crowd, Restricted}
NeedsShop == \E r \in DOMAIN specs : specs[r].type = Shoplifting

\* A crowd rule counts the persons in its region, if there are any in the
\* picture.
Counted(s, c, dets) ==
  IF s.type = Crowd /\ dets # {}
  THEN [c EXCEPT !.count = Cardinality(dets \cap s.roi)]
  ELSE c

\* continue: a crowd rule without limits is not evaluated any further.
Skipped(s, c) == s.type = Crowd /\ NoLimit \in {c.max, c.lookout}

\* Mutant of Sustained: an alert in progress does not keep the next one away.
SustainedAnyway(c, t) ==
  c.count > c.max /\ c.timer # NoTime /\ t - c.timer >= c.lookout * Rate

\* The count has been over the limit for the time to lookout, no alert yet.
Sustained(c, t) ==
  /\ c.count > c.max
  /\ c.timer # NoTime
  /\ t - c.timer >= c.lookout * Rate
  /\ ~c.active

Judged(s, c, t) ==
  IF s.type # Crowd \/ Skipped(s, c) THEN c
  ELSE IF c.count > c.max
       THEN [c EXCEPT !.timer = IF @ = NoTime THEN t ELSE @,
                      !.active = @ \/ Sustained(c, t)]
       ELSE [c EXCEPT !.timer = NoTime, !.active = FALSE]

\* The event of this frame, for the state c of a rule after Counted.
Triggers(s, c, t, dets, theft) ==
  /\ ~c.recording
  /\ \/ s.type = Crowd /\ ~Skipped(s, c) /\ Sustained(c, t)
     \/ s.type = Restricted /\ dets \cap s.roi # {}
                            /\ t - c.last >= Cooldown * Rate
     \/ s.type = Shoplifting /\ theft

\* Mutant of Started: save_start_frame is not set again.
StartedBefore(s, c, t, n) ==
  [c EXCEPT !.recording = TRUE, !.saved = Min2(n, PreRoll),
            !.path = PathTo(s.type, t),
            !.last = IF s.type = Restricted THEN t ELSE @]

\* A recording begins with the frames of video_queue, this one included.
Started(s, c, t, n) ==
  [c EXCEPT !.recording = TRUE, !.saved = Min2(n, PreRoll), !.start = n,
            !.path = PathTo(s.type, t),
            !.last = IF s.type = Restricted THEN t ELSE @]

\* Mutant of RecordingEnds: one frame too late.
RecordingEndsLate(s, c, n) ==
  c.recording /\ ~Skipped(s, c) /\ n - c.start > PostRoll

RecordingEnds(s, c, n) ==
  c.recording /\ ~Skipped(s, c) /\ n - c.start >= PostRoll

\* _finish_clip
Finished(c) == [c EXCEPT !.recording = FALSE, !.saved = 0, !.path = NoPath]

Recorded(s, c, n) ==
  IF ~c.recording \/ Skipped(s, c) THEN c
  ELSE IF RecordingEnds(s, c, n) THEN Finished(c)
       ELSE [c EXCEPT !.saved = @ + 1]

\* The state of a rule before the recording of the n-th frame.
Evaluated(s, c, t, n, dets, theft) ==
  LET k == Counted(s, c, dets)
      j == Judged(s, k, t)
  IN  IF Triggers(s, k, t, dets, theft) THEN Started(s, j, t, n) ELSE j

\* record_detection_event: both rows are committed, or neither is. When an
\* alert of a crowd rule began is only known here.
Alert(r, s, c, t, n) ==
  [rule |-> r, type |-> s.type, at |-> t, frame |-> n,
   since |-> IF s.type = Crowd THEN c.timer ELSE t,
   lookout |-> IF s.type = Crowd THEN c.lookout ELSE 0,
   path |-> PathTo(s.type, t), stored |-> dbUp /\ cameraActive]

\* save_video_clip_async: the thread gets the frames and the path.
Writer(r, c, n) ==
  [path |-> c.path, open |-> FALSE,
   clip |-> [rule |-> r, start |-> c.start, end |-> n, frames |-> c.saved + 1]]

ReadFrame(d, dets, theft) ==
  /\ running
  /\ frame < MaxFrames
  /\ now' = now + d
  /\ frame' = frame + 1
  /\ person' = dets
  /\ shop' = theft
  /\ LET before == [r \in DOMAIN specs |-> Counted(specs[r], states[r], dets)]
         after == [r \in DOMAIN specs |->
                     Evaluated(specs[r], states[r], now', frame', dets, theft)]
     IN  /\ states' = [r \in DOMAIN specs |->
                         Recorded(specs[r], after[r], frame')]
         /\ alerts' = alerts \cup
              {Alert(r, specs[r], before[r], now', frame') :
                 r \in {q \in DOMAIN specs :
                          Triggers(specs[q], before[q], now', dets, theft)}}
         /\ writers' = writers \cup
              {Writer(r, after[r], frame') :
                 r \in {q \in DOMAIN specs :
                          RecordingEnds(specs[q], after[q], frame')}}
  /\ UNCHANGED <<running, specs, control, files>>

\* The models see every n-th frame; in between their last answer stays.
Frame(d) ==
  \E dets \in IF NeedsPerson /\ (frame + 1) % PersonSkip = 0
              THEN SUBSET Cells ELSE {person} :
  \E theft \in IF NeedsShop /\ (frame + 1) % ShopSkip = 0
               THEN BOOLEAN ELSE {shop} :
    ReadFrame(d, dets, theft)

-----------------------------------------------------------------------------
(* The threads that write clips (save_video_clip).                         *)

\* ffmpeg -y: an existing file is emptied.
OpenClip(w) ==
  /\ ~w.open
  /\ writers' = (writers \ {w}) \cup {[w EXCEPT !.open = TRUE]}
  /\ files' = {f \in files : f[1] # w.path}
  /\ UNCHANGED <<control, loop, alerts>>

CloseClip(w) ==
  /\ w.open
  /\ writers' = writers \ {w}
  /\ files' = files \cup {<<w.path, w.clip>>}
  /\ UNCHANGED <<control, loop, alerts>>

\* ffmpeg and OpenCV both fail; the thread reports it and ends. What is left
\* of a clip that it had begun to write cannot be played.
Broken(clip) == [clip EXCEPT !.frames = 0]

FailClip(w) ==
  /\ "disk" \in Faults
  /\ writers' = writers \ {w}
  /\ files' = files \cup (IF w.open THEN {<<w.path, Broken(w.clip)>>} ELSE {})
  /\ UNCHANGED <<control, loop, alerts>>

\* The threads are daemons of the worker process.
WorkerDies ==
  /\ "worker" \in Faults
  /\ running \/ writers # {}
  /\ Return
  /\ writers' = {}
  /\ UNCHANGED <<now, frame, control, alerts, files>>

\* What happens to the rows when the loop has ended changes nothing here.
Control ==
  /\ running
  /\ \/ \E r \in Rules : RemoveRule(r) \/ \E s \in Offer[r] : SaveRule(r, s)
     \/ RemoveCamera
     \/ DatabaseFails
     \/ DatabaseReturns

Loop ==
  \/ Reload
  \/ Stop
  \/ \E d \in Delays : Frame(d)

Writing == \E w \in writers : OpenClip(w) \/ CloseClip(w) \/ FailClip(w)

Next == Control \/ Loop \/ Writing \/ WorkerDies

Spec == Init /\ [][Next]_vars

-----------------------------------------------------------------------------
(* Properties.                                                             *)

Clips == [rule : Rules, start : Nat, end : Nat, frames : Nat]
Paths == (Types \cup {"None"}) \X Int
States == [max : Nat \cup {NoLimit}, lookout : Nat \cup {NoLimit}, count : Nat,
           timer : Nat \cup {NoTime}, active : BOOLEAN, recording : BOOLEAN,
           saved : Nat, start : Nat, path : Paths,
           last : Int]
Alerts == [rule : Rules, type : Types, at : Nat, frame : Nat, since : Nat,
           lookout : Nat, path : Paths, stored : BOOLEAN]
Writers == [path : Paths, open : BOOLEAN, clip : Clips]

\* Every variable has its type, and the loop has a state for exactly the
\* rules it has loaded (states[spec["id"]] must not raise).
TypeOK ==
  /\ DOMAIN table \subseteq Rules /\ table \in [DOMAIN table -> Specs]
  /\ DOMAIN specs \subseteq Rules /\ specs \in [DOMAIN specs -> Specs]
  /\ states \in [DOMAIN specs -> States]
  /\ gone \subseteq Rules
  /\ cameraActive \in BOOLEAN /\ dbUp \in BOOLEAN /\ running \in BOOLEAN
  /\ now \in Nat /\ frame \in Nat
  /\ person \subseteq Cells /\ shop \in BOOLEAN
  /\ alerts \subseteq Alerts
  /\ writers \subseteq Writers
  /\ files \subseteq Paths \X Clips

\* A crowd raises one event, however long it stays and whatever is reloaded,
\* recorded or lost meanwhile, and not before the time to lookout has passed.
OneEventPerCrowd ==
  \A a, b \in alerts :
    (a.type = Crowd /\ b.type = Crowd /\ a.rule = b.rule) =>
      /\ a.since = b.since => a = b
      /\ a.at - a.since >= a.lookout * Rate

\* Two events of a restricted area are a cooldown apart, also when the rule has
\* been reloaded or has been of another type in between.
RestrictedCooldown ==
  \A a, b \in alerts :
    (a.type = Restricted /\ b.type = Restricted /\ a.rule = b.rule /\ a # b) =>
      a.at - b.at >= Cooldown * Rate \/ b.at - a.at >= Cooldown * Rate

AlertOf(path, clip) ==
  \E a \in alerts : a.path = path /\ a.rule = clip.rule /\ a.frame = clip.start

\* A clip is stored under the path that the event it was recorded for names,
\* though path and clip are fixed many frames before the clip is written.
ClipFollowsAlert ==
  /\ \A w \in writers : AlertOf(w.path, w.clip)
  /\ \A f \in files : AlertOf(f[1], f[2])

ClipOf(a) ==
  [rule |-> a.rule, start |-> a.frame, end |-> a.frame + PostRoll,
   frames |-> Min2(a.frame, PreRoll) + PostRoll + 1]

\* The clip of an event is recorded, with every frame that was read since,
Recording(a) ==
  /\ a.rule \in DOMAIN states
  /\ LET c == states[a.rule]
     IN  /\ c.recording /\ c.start = a.frame /\ c.path = a.path
         /\ frame < a.frame + PostRoll
         /\ c.saved = Min2(a.frame, PreRoll) + (frame - a.frame) + 1
  /\ \A w \in writers : w.path # a.path

\* complete and written by the only thread that has its path,
BeingWritten(a) ==
  \E w \in writers :
    /\ w.clip = ClipOf(a)
    /\ {v \in writers : v.path = a.path} = {w}
    /\ w.open => \A f \in files : f[1] # a.path

\* or all that its file contains.
Filed(a) ==
  /\ \A w \in writers : w.path # a.path
  /\ {f \in files : f[1] = a.path} = {<<a.path, ClipOf(a)>>}

HasItsClip(a) == Recording(a) \/ BeingWritten(a) \/ Filed(a)

\* What may cost an event its clip: while it is recorded, the loop ends, a
\* reload does not find the rule any more, or the rule is skipped because it has
\* become a crowd rule without limits; while it is written, the worker dies or
\* the disk fails.
Cut(a) ==
  \/ /\ Recording(a)
     /\ \/ ~running'
        \/ a.rule \notin DOMAIN states'
        \/ frame' # frame /\ Skipped(specs[a.rule], states'[a.rule])
  \/ /\ BeingWritten(a)
     /\ WorkerDies \/ \E w \in writers : w.path = a.path /\ FailClip(w)

SharesPath(a) == \E b \in alerts : b # a /\ b.path = a.path

\* An event has its clip, and no other, from the frame it is raised on for ever,
\* through recording, writing and whatever other events do, unless it is cut.
EventHasItsClip ==
  [][\A a \in alerts' :
       (a \in alerts => HasItsClip(a)) => HasItsClip(a)' \/ Cut(a)]_vars

\* The same, but for events that name one path: that no event of another second
\* or type, late thread, reload or change of the rule takes its clip away.
ClipUnlessShared ==
  [][\A a \in alerts' :
       (a \in alerts => HasItsClip(a)) =>
         HasItsClip(a)' \/ Cut(a) \/ SharesPath(a)']_vars

\* No recording is lost because the loop ends before its postroll is over.
EndKeepsRecordings ==
  [][\A a \in alerts : Recording(a) => running']_vars

\* An overcrowding event is about people in the picture: none is raised on a
\* frame whose detection, the last one, has seen nobody.
EmptyRoomIsNoCrowd ==
  [][\A a \in alerts' \ alerts : a.type = Crowd => person' # {}]_vars

\* While the database is unavailable, detection goes on.
OutageKeepsDetection == [][running /\ ~dbUp => running']_vars

-----------------------------------------------------------------------------
(* Why the events are right: what the runtime state of a rule remembers of *)
(* the events it has raised.                                               *)

\* A rule that has raised an event is loaded, and has been since, or deleted.
Bookkeeping ==
  /\ gone \cap DOMAIN table = {}
  /\ DOMAIN specs \subseteq DOMAIN table \cup gone
  /\ running => \A a \in alerts : a.rule \in DOMAIN specs \cup gone

NothingFromTheFuture ==
  /\ \A a \in alerts : a.since <= now /\ a.frame <= frame
  /\ \A r \in DOMAIN specs : states[r].timer <= now

\* The timer of a crowd that has had its event is that of an active alert.
CrowdsRemembered ==
  \A r \in DOMAIN specs : \A a \in alerts :
    (a.rule = r /\ a.type = Crowd /\ a.since = states[r].timer) =>
      states[r].active

CooldownRemembered ==
  \A r \in DOMAIN specs : \A a \in alerts :
    (a.rule = r /\ a.type = Restricted) => a.at <= states[r].last

RecordingsHaveAlerts ==
  \A r \in DOMAIN specs :
    states[r].recording =>
      \E a \in alerts : a.path = states[r].path /\ a.rule = r
                       /\ a.frame = states[r].start

\* What has gone to a writer is not recorded any more.
RecordingsAreYounger ==
  \A r \in DOMAIN specs : states[r].recording =>
    /\ \A w \in writers : w.clip.rule = r => w.clip.start < states[r].start
    /\ \A f \in files : f[2].rule = r => f[2].start < states[r].start

\* The inductive invariant.
IInv ==
  /\ TypeOK
  /\ Bookkeeping
  /\ NothingFromTheFuture
  /\ CrowdsRemembered
  /\ CooldownRemembered
  /\ RecordingsHaveAlerts
  /\ RecordingsAreYounger
  /\ OneEventPerCrowd
  /\ RestrictedCooldown
  /\ ClipFollowsAlert
=============================================================================
