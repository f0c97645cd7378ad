# Verification of the CCTV core API

TLA+ models, TLC checks and TLAPS proofs for the backend in `src/`: a Flask API
(gunicorn, two processes of eight threads), Celery workers that run one
detection pipeline per camera, Redis (broker, result backend, coordination keys
and live frames) and an SQL database.

## The system

| Component | State it keeps | Operations | Correct when |
|---|---|---|---|
| Rule control plane, `services/rule_service.py` | `RuleConfig` rows (`status`, `task_id`, `model_type`) | save, change, delete a rule; `_ensure_camera_pipeline` | a camera with Active rules has exactly one pipeline task, which every Active rule names |
| Coordination keys, `services/stream_utils.py` | `camera_pipeline_task:<id>`, `camera_rules_epoch:<id>` in Redis | get, set, clear, increment; every error is swallowed | a lost call costs a restart of the pipeline or a late reload, never the detection |
| Reconciliation, `services/rule_reconciliation.py` | none of its own | at API start and by CLI: deactivate rules whose task is gone | only rules whose task is gone are deactivated |
| Camera pipeline, `services/camera_pipeline_service.py` | loaded rules, last epoch, reload timer; per rule: crowd timer, cooldown, recording | start, abort check, reload, detect, record, stop | it evaluates the Active rules as they are, stops when aborted or without rules, records one event per incident, with its clip |
| Events and clips, `services/event_service.py`, `services/local_storage.py` | `Event`, `Alert` rows; clip files written by threads | create both rows in one transaction; write a clip in the background | every event's clip path gets the clip of that event |
| Live view, `services/stream_utils.py`, `controllers/camera_controller.py` | publisher claim (5 s), latest frame (10 s) in Redis | claim, publish, serve MJPEG, give up when idle | one publisher per camera; a dead one is replaced |
| Operations API, `controllers/operations_controller.py` | `Alert` status and timestamps, `CameraHealth` | acknowledge, resolve, reopen; refresh health | status and timestamps agree; who acknowledged first stays; a refresh is all or nothing |
| Memberships, `controllers/membership_controller.py`, `controllers/auth_controller.py`, `auth.py` | `User`, `Membership`, `Organization` | register, invite, change role, remove, switch, authenticate | an organization keeps an owner; an invitation can be accepted once and not after removal |
| Rate limiting, `services/rate_limit.py` | counters in Redis, or a list of times in memory | allow | at most `limit` in a window; a window ends |
| Cameras, `services/camera_service.py`, `image_capture.py`, `local_storage.py` | `Camera` rows, snapshot files | add, list, soft delete | a camera's snapshot shows that camera |
| Celery, `celery_worker.py` | queue, executing tasks, abort marks | late acknowledgement, prefetch 1, concurrency 2 (`docker-compose.yml`) | external |

API threads, workers and broker share nothing but the database, Redis and
Celery's result backend. No handler takes a lock and each read is a transaction
of its own, so the interesting behaviours are what happens between two accesses
of a handler: steps of other handlers and of pipelines, a lost Redis call (all
errors of `stream_utils` are swallowed), a failing `delay()` (logged, and the
request succeeds), a dying worker, a killed API process.

The database is taken to be SQLite, the default (`.env.example`). With
`DB_ENGINE=mysql` (`config/db_config.py`) there is no write lock that the first
`INSERT` or `UPDATE` takes until the commit, and a transaction goes on seeing what
it saw first; what is said here of memberships, alerts, health and cameras does
not carry over (which parts rest on it is said below).

## Modules

| Module | What it is |
|---|---|
| `SingleTask` | abstract: what `_ensure_camera_pipeline` promises, a camera's tasks launched one after the other |
| `RulePipeline` | rows, keys, abort marks, API threads, pipelines and worker of one camera |
| `MCRulePipeline` | values of its constants for TLC |
| `RulePipelineProofs` | theorems |
| `RuleDetection` | what one pipeline does with a frame: rules' runtime states, events, clips |
| `MCRuleDetection` | values of its constants for TLC |
| `RuleDetectionProofs` | theorems |
| `LiveView`, `MCLiveView`, `LiveViewProofs` | publishers, viewer and expiring keys of one camera's live view |
| `Membership`, `MCMembership`, `MembershipProofs` | users, organizations, memberships; the checks of organization-scoped requests |
| `Cameras` | cameras and their snapshots; requests, their time and the write lock |
| `Operations`, `MCOperations`, `OperationsProofs` | extends `Cameras`: alerts and camera health, so that a refresh meets cameras that come and go |
| `RateLimit`, `MCRateLimit`, `RateLimitProofs` | attempts of one client at login and registration |

`RulePipeline` and `RuleDetection` meet in the loop of a pipeline: the first says
when the loop runs and which rules it has, and takes a frame as one step; the
second takes the reload as a choice in every iteration and models the frame.
`LiveView` begins where a frame is published; `Operations` asks whether there is
a published frame and leaves the answer open. `Membership` says who may call the
handlers of the other modules.

### RulePipeline

One camera. An action is one access to the database, Redis, Celery or the video
stream; between two actions of a handler anybody else may act. What a handler
has loaded stays in its locals (`sib`, `sibTask`: the rows and the `task_id`s
found in them; `held`: `pipeline_id`, then `task.id`; `probe`: the answer of
Celery's inspect) exactly as long as it does in the code: SQLAlchemy reads the
rows once, and writes only the columns that it then finds changed (`Changed`,
`Deactivate`).

* `SaveNewRule`, `SaveExistingRule`: the part of `save_rule_for_camera` up to
  its commit. A rule of any status can be changed, and none is reactivated.
* `Ensure...`: the calls of `_ensure_camera_pipeline` in their order.
  `EnsureReadPipelineId` decides between taking over the task that key and rows
  agree on (`EnsureAdopt`) and replacing whatever there is (`EnsureAbort`,
  `EnsureClear`, `EnsureDispatch`, `EnsureSetPipelineId`, `EnsureCommit`).
* `Remove...`: `remove_camera_rule`; it signals before it commits.
  `Deactivate` is its commit, and that of the reconciliation.
* `ReconcileProbe`, `ReconcileList`: Celery is asked first, rows are read after.
* `Pipeline...`, `Loop...`: `process_camera_pipeline` up to what it does with a
  frame: load rules, read the epoch, load the models; then in a loop the abort
  check, the epoch, the reload, the frame.
* `WorkerTake`, `ProcessCrash`, `WorkerCrash`, `Redeliver`: Celery, external, as
  `celery_worker.py` configures it. With `task_acks_late` and without
  `task_reject_on_worker_lost` the task of a process that is killed is
  acknowledged: it is gone (`killed`). What a whole worker executed when it died
  stays unacknowledged (`lost`); the broker may deliver it again, under the same
  id, when its visibility timeout is over, or never. In both cases the rows go on
  naming the task: the rules are `Orphaned`, as `rule_reconciliation.py:4-6` and
  `init.py:101-102` say, and a save adopts the dead task.
* Faults: a Redis call is lost (`redis`), an abort is not recorded (`backend`),
  `delay()` raises and nothing is queued (`broker`), or the task is queued all the
  same (`confirm`), a pipeline fails (`stream`: the stream does not
  open or ends, an exception), the worker or one of its processes dies
  (`worker`), an API process dies in
  the middle of a request (`api`). The constant `Faults` says which may happen.

Abstractions: a rule is its model type (the ROI and the values change nothing
here); a task id is a number, fresh like a UUID; `RULES_RELOAD_SECONDS` is the
choice to reload at an unchanged epoch (`LoopTimer`); a database that fails is
not modelled; two copies of one task running at a time (redelivery after the
visibility timeout) are modelled only where they publish frames, in `LiveView`.

Bounds: `MaxRules` rows, `MaxRequests` requests (each dispatches one task at
most), `MaxFaults` faults. They bound the guards of `Request`, `SaveNewRule` and
`Fault` and nothing else. Two rules are enough for a rule to have a sibling and
for a deletion to be or not to be the last; with three requests a task can be
launched, shared or replaced, and given up, and a rule deleted while another one
stays (`RemoveSignal`); with four, a second task outlives
the first one's rules.

Fairness: a handler goes on until it returns, a worker with a free slot takes a
queued task, a pipeline goes on (weak). That a worker's process is replaced, by
Celery, or the worker itself, by its supervisor, is what keeps the slot; that the
broker delivers a lost task again is not assumed. The reload timer expires again and again in a pipeline that loops: time
passes in each iteration (strong, because the pipeline is at that point only
part of the time). Nothing is assumed about faults and new requests.

### RuleDetection

One execution of `process_camera_pipeline`. The loop is sequential, so an
iteration is at most two actions, `Reload` and `Frame`; what acts in between are
API requests (`SaveRule`, `RemoveRule`, `RemoveCamera`), the database and the
threads that write clips.

* `states` is the dictionary of runtime states. `SyncRuntime` drops deleted
  rules, creates new ones (`NewState`) and keeps the others whatever they have
  become (`Synced`); a deleted rule does not come back, because no request makes
  a row Active again (`gone`).
* `ReadFrame` does for every rule what the `for` loop does, in its order:
  `Counted` (a crowd rule counts only when somebody is in the picture),
  `Skipped` (the `continue` of a rule without limits), `Judged` (timer and
  alert), `Triggers`, `Started`, `Recorded` with `RecordingEnds` and `Finished`.
  The rules of a frame do not read each other's state, so their order is left
  out. On frames that a model does not see its last answer stays
  (`PersonSkip`, `ShopSkip`).
* `alerts` is the history of the calls of `record_detection_event`: `stored`
  says whether rows were committed; the loop ignores the result. `since` is
  when a crowd's timer was started, which the event itself does not tell.
* `Writer`, `OpenClip`, `CloseClip`, `FailClip`: `save_video_clip_async`. A file
  is the set of clips it contains; opening it empties it, and two threads that
  have it open both leave their clip in it.

Abstractions: a person is a cell of the picture, a region a set of cells; the
saved frames are their number; a path is a type and a second (the camera is the
only one). Clips are counted in frames, of which the loop assumes `FPS` in a
second; time is counted in ticks, `Rate` in a second, and an iteration takes any
of `Delays`. The two are independent: a source may deliver faster or slower than
the loop assumes (`camera_pipeline_service.py:228-230`), so that a whole clip fits
into a second; `Rate` may be as fine as one likes, so that a tick at least is no
restriction of an iteration.
`FailClip` is a failure of both encoders, before there is a file or with a part of
one. `Offer` is what the rules may be saved as.

Bounds: five frames at one per second, each taking two seconds: preroll and
postroll are two frames, so that a clip is complete after two more frames, a
crowd that leaves has its second event and a restricted area (cooldown seven
seconds, longer than a recording) its second one on the last frame. The time of
a recording is not that of its frames, as on a slow machine. One rule changes
between crowd and restricted area, the other one keeps the loop alive when it is
deleted; no two rules have the same type. Values that cannot be read, of which
`Skipped` is the consequence, are only in the proofs. `IInv` and
`ClipUnlessShared` were also checked with two overlapping restricted areas and
four ticks in a second, so that clips do share paths, and, on four frames, with
unreadable values.

### LiveView

The Redis keys of one camera's live view and who uses them. `publish_frame` is
the actions `BeginPublish`, `ClaimView` (`SET NX EX`), `CompareOwner` (`GET`),
`RenewClaim` (`EXPIRE`), `WriteFrame` (`SET EX`); time may pass and others may act
between any two. A copy is one execution of a task: copies of one task, which
the broker makes when a task outlives the visibility timeout, hold the claim in
one name, so that they do not exclude each other. `PublishFails` is the
`except` of `publish_frame`; the failed call may have been served. The viewer is
the generator of `stream_camera` with its `idle_since`.

History: `lapsed` are copies whose claim expired between being told that they own
the view and writing; `age` is the time since the last frame; `blind` says that a
read failed, which `get_latest_frame` reports as no frame.

Abstractions: time is in ticks, a key of TTL n lives for n of them; the frame is
the copy that wrote it. The TTLs keep the order of the code's (claim 5 s, frame
10 s, idle timeout 15 s): 2, 3 and 4 ticks. Two tasks and a second copy of one
are the smallest case in which a claim is contested, taken over and shared.

Fairness: time passes, a loop reaches its next frame, the generator is polled
(`STREAM_POLL_INTERVAL`, 0.05 s, which is why it polls in every tick). A task may
die at any moment.

### Membership

An action is one query or one commit. A `SELECT` sees what is committed when it
runs (SQLite, and no handler opens a transaction before it reads); the first
`INSERT` or `UPDATE` takes the write lock until the commit, so that what `register`
does after flushing its user (`RegisterWithToken`, `RegisterWithOrganization`) is
one action. With MySQL a removal can commit between the two, and
`MembershipLifecycle` and `ClaimedByInvitation` would not follow. A loaded row stays as it was (`req[t].row`),
and only columns whose value differs from the loaded one are written (`Invited`,
`Rewritten`); that is what makes an overtaken request resurrect or merge rows.

`RegisterRead` to `RegisterRefused` are `register`; `InviteCheck`, `InviteRead`,
`InviteSend` are `invite_member`; `LoadMembership`, `CheckPermission`,
`CheckLastOwner`, `WriteMembership` are both `update_member_role` and
`remove_member` (role `Removed`), which differ only in what they write;
`BindUser`, `RequireActiveOrg`, `ActInOrg` are any handler that is scoped to an
organization. `overtaken` is a history variable: organizations where a commit made
obsolete what a request in flight had read (`Overtakes`: its membership, its
caller's, or the owners). The safety properties hold exactly up to it: the code
takes no lock, and with two threads `OrganizationKeepsAnOwner` is false.

Abstractions: an e-mail address is a user, a token is the number of its
invitation; passwords, names and JWT contents are left out, a request claims any
organization. Bounds: three addresses (two owners and an invited one), two
organizations, five requests, two threads. Six requests were also checked.

### Cameras and Operations

`Cameras`: `AddCamera`, `Capture`, `SaveSnapshot`, `FillSnapshot`, `InsertCamera`
are `add_camera_service` in its order: name, screenshot, file, row.
`LoadCamera`, `RemoveCamera` are the soft delete. A file is what can be seen in
it; `contested` are files whose name two cameras share, because it is made from
the camera's name only. `writer` is the holder of SQLite's write lock.

`Operations`: `LoadAlert`, `CommitAlert` are `update_alert`; `ListCameras`,
`QueryHealth`, `ReadFrame`, `CommitHealth` are `_refresh_health`. SQLAlchemy writes
a row before the next query (autoflush), hence `QueryHealth` of the second camera
takes the lock, and a row that another refresh has inserted meanwhile makes it
fail (`Conflict`, `RefreshFails`). That no camera commits after a later one
(`RefreshIsAtomic`) rests on the same lock. `Flushed` is the UPDATE: columns that differ from
the loaded ones. History: `stale` are requests whose loaded alert has been
overwritten, `suspect` says that one of them wrote the alert last.

Abstractions: the time of a request is its number, one alert stands for all; a
health row is left without `checked_at`, which every refresh writes. Left out: a
request that waits longer than SQLite's busy timeout, which `_refresh_health` can
cause (it holds the lock while it asks Redis), is answered 500; a disk that is
full when a snapshot is written leaves an emptied file and no row.
Bounds: two operators, two cameras, two file names, four requests: two requests
overlap while a third and fourth find what they left. Fairness: a request that
has begun goes on; a camera that does not answer is given up after
`STREAM_TIMEOUT_MS`.

### RateLimit

One client key. `Increment` (`INCR`), `Expire` (`EXPIRE`) and `MemoryAllow` (the
fallback, under its process's lock) are `allow`; `RedisFails` is its `except`, and the
call may have been served. Counters beyond the limit are one value; time stamps
are counted by age (`Stamps`, `Total`). Left out: a process that dies between the
two calls (the counter stays without an expiry, as after a lost `EXPIRE`), a
process that is restarted with an empty list and a Redis that is restarted without
its counters, both of which allow more than the bound. History: `allowed` are the attempts that
Redis let pass, `allowedHere` those that each process did; `expireLost`: an `EXPIRE` has failed and its counter is still
there. Two processes, the first with two threads; a limit of two in a window of
three ticks (three and three were also checked). Fairness: time passes, and a
request that has begun is answered.

## Runs

| Run | Shows |
|---|---|
| `rule_serial` | One API thread, four requests, two faults of Redis, broker, stream or worker: at most one task has not been told to stop, at any moment (`OneTaskPerCamera`); between requests it is the task of all Active rules (`SharedByActiveRules`); the camera implements `SingleTask`; the inductive invariant `IInv` of the proofs holds |
| `rule_serial_live` | One API thread, three requests, lost Redis calls and dying workers: a camera with Active rules keeps a task that nobody told to stop (`ActiveRulesKeepATask`), a save takes over none that was told to or has returned (`AdoptsRunningTask`), in the end a pipeline that runs evaluates the Active rules as they are, whatever signal came early or was lost (`EventuallyInSync`), and every Active rule is evaluated as last saved unless a dead worker has orphaned it (`EventuallyWatched`): lost calls of Redis alone cost no rule its detection |
| `rule_concurrent` | Two API threads that save, delete and reconcile, with lost Redis calls, lost aborts, unconfirmed dispatches and killed threads: pipelines may leak, but every one stops when the rules are gone (`EventuallyNoneWithoutRules`) and when told to (`AbortedPipelineStops`). One worker slot: which pipeline runs is left to the interleaving |
| `v_stream_ends` | Violated: a stream that ends ends the pipeline; key and row still agree on the dead task, so that saving another rule does not start one |
| `rule_detection` | All faults, rules saved and deleted at any time: one event per crowd, after its lookout (`OneEventPerCrowd`); the cooldown of restricted areas (`RestrictedCooldown`); a clip goes to the path of its event (`ClipFollowsAlert`); an event has its own, complete clip, recorded, being written or filed, from its frame on for ever, unless the loop ends, the rule is deleted or skipped while it records, or the worker or the disk fails it while it writes (`ClipUnlessShared`; the second events of this run, reloads and late threads cost no event its clip); the inductive invariant `IInv` of the proofs |
| `v_shared_clip` | Violated: two restricted areas that see a person on the same frame write one file (`EventHasItsClip`, which is `ClipUnlessShared` without its exception) |
| `v_empty_room` | Violated: everybody leaves a crowded room at once, the count is not refreshed, and the event is raised for an empty room |
| `live_view` | One failing call, tasks that die and are started at any time: two tasks never both believe that they own the view unless a claim lapsed (`OnePublisherUnlessLapsed`), the picture changes hands only with the claim (`PictureFromTheOwner`), there is a picture as long as a pipeline runs (`PictureComesBack`); the response ends without a pipeline (`StreamEnds`) and not before the whole idle timeout has passed without a frame (`StreamLastsWithFrames`) |
| `membership` | Requests in any interleaving: no organization loses its last owner (`OwnersUnlessOvertaken`) and nobody acts with a role he does not have any more (`AuthorityUnlessOvertaken`) unless a commit overtook a request; in any interleaving, a removed member comes back only by a new invitation (`MembershipLifecycle`; that an Active membership does not become Pending again has the exception, too), an account is claimed only by an invitation to its own address (`ClaimedByInvitation`), and no two memberships share a token (`TokensOpenOneMembership`; that an Active one has none left has it again) |
| `v_dead_invitation` | Violated: a registered user who is invited can never accept |
| `operations` | Overlapping requests: status and timestamps of an alert agree unless an overtaken request wrote last (`AlertAgreesUnlessSuspect`), name and time of the acknowledgement always belong together (`AcknowledgedBySomebody`), only an overtaken request replaces who acknowledged first (`FirstAcknowledgementStays`); health columns agree though overlapping refreshes each write some of them (`HealthAgrees`), a failing refresh leaves nothing behind (`RefreshIsAtomic`), a snapshot shows its camera (`PictureOfItsCamera`), every request is answered (`EveryRequestIsAnswered`) |
| `rate_limit` | Failing calls at any point: at most `2 * Limit - 1` attempts pass in a window, and `Limit` more per process (`AllowedIsBounded`, reached in this instance); a client whom the Redis counter refuses is let in again unless an `EXPIRE` was lost (`RefusalEnds`; the lists are not its subject) |

Known divergences that have no run of their own, each with the instance in which
TLC finds it at once:

* Two overlapping saves leave two tasks, against `rule_service.py:85`
  (`OneTaskPerCamera`, two threads).
* A rule saved while the last other one is deleted takes over the task that was
  just aborted (`ActiveRulesKeepATask`, two threads, two rules, three requests).
* A task whose `delay()` raises after the message was published is named by
  nobody, and the next save starts a second one, against `rule_service.py:85`
  (`OneTaskPerCamera`, one thread, `Faults = {"confirm"}`).
* A killed process or worker leaves Active rules without a pipeline, and saving
  them does not start one, as `rule_reconciliation.py:4-6` says; but the rules it
  then deactivates can not "be started again" (line 9): no handler makes a rule
  Active. It has to be added anew (`EventuallyWatched` without `Orphaned`,
  `Faults = {"worker"}`).
* Missing shoplifting weights end the pipeline of all rules of the camera,
  against `README.md:136` (`EventuallyWatched`, `WeightsMissing = {"SHOPLIFTING"}`).
* Reconciliation deactivates a rule whose task was dispatched after Celery was
  asked, or waits in the queue (`ReconcilesOnlyGoneTasks`, `Reconciling = TRUE`).
* A reload during a database outage ends the detection, against
  `event_service.py:57` (`OutageKeepsDetection`, `Faults = {"database"}`).
* When the loop ends within the two seconds of a postroll (abort, end of the
  stream, an exception) or a reload finds the rule deleted, the event is stored
  and names a clip that is never written, against `README.md:14`
  (`EndKeepsRecordings`, `Faults = {"end"}`).
* `.env.example:45` has `AUTH_RATE_LIMIT` attempts within the window; a window that
  straddles two lives of the counter lets almost twice as many pass, and an
  unavailable Redis as many more in each process (the bound of `AllowedIsBounded`,
  which the instance reaches).
* Two owners who step down at the same time leave an organization without one
  (`OrganizationKeepsAnOwner`, two threads, one organization, five requests).

A task counts as live (`Unaborted`) from its dispatch until it is aborted, also
when its pipeline has failed: that is all the control plane can know, and
`OneTaskPerCamera` is the stronger for it. Deadlock is not checked
where requests are bounded: when they are served everything may have stopped.
`live_view` and `rate_limit` check it.

## Proofs

`RulePipelineProofs`, for every number of rules, requests and faults:

* `TypeCorrect`: types and referential integrity (key, rows, abort marks and
  locals name dispatched tasks), for any number of threads and all faults.
* With `Serial` (one thread, aborts are recorded, no reconciliation, no killed
  process, `delay()` does not raise after publishing): `SerialCoordination` (`IInv` is invariant), `SerialOneTask`,
  `SerialShared`, `SerialImplementsSingleTask`.
* With `Serial` and a broker that takes every task: `SerialKeepsATask`.
* If, besides, streams do not end and all weights are installed:
  `SerialAdoptsRunningTask`.

`OneTaskPerCamera` is not inductive: that no task is left when the next one is
dispatched follows from what the thread read, checked and aborted before. `IInv`
says so label by label (`Coordinated`): before the abort every live task is in
some Active row and the rows loaded are still current, hence all are aborted;
after it no task is left until `delay()`; after `delay()` only the one held.
Between requests each Active row names the one task (`AllShare`); in a request
that has just created a row, this row may have none yet (`SomeShare`). `Serial`
is necessary: a second thread breaks each property (known divergences), and an
abort that is lost leaves two tasks at once.

Steps of pipelines and workers keep the set of live tasks
(`TaskStepKeepsTasks`, `CrashKeepsTasks`), which is the only thing `IInv` says of
them; the refinement of `SingleTask` follows because only `EnsureAbort`,
`RemoveAbort` (retire) and `EnsureDispatch` (launch) change it.

That a camera with Active rules keeps a task needs the converse (`KInv`): rows name
live tasks, except while the request that has aborted them replaces them
(`NamesLive`), and when a request is done there is one (`HasTask`). A `delay()` that
raises after the abort would break it: the rows go on naming the aborted task. A
task that is taken over has not returned (`GoesOn`) unless something ended it that
no request notices; `v_stream_ends` shows that the stream is such a thing, and
missing weights are another. The death of its process is a third, which the
statement leaves open: it says `returned`, not `runs`. Nor does it say that a
task that runs is taken over: when the key is lost it is replaced.

`RuleDetectionProofs`, for all rules (with unreadable values and any types), any
rate of frames and of the clock, cooldown, delays of at least a tick and all
faults:

* `DetectionInvariant` (`IInv`), `DetectionTypes`, `DetectionOneEventPerCrowd`,
  `DetectionCooldown`, `DetectionClipFollowsAlert`.

The properties speak of past events, the code only of its runtime state; `IInv`
relates them. A crowd that has had its event is remembered by an active alert
with its timer (`CrowdsRemembered`), and every other timer is younger than all
events (`NothingFromTheFuture`); the last event of a restricted area by
`last_alert_at` (`CooldownRemembered`); the event of a recording by its path and
first frame (`RecordingsHaveAlerts`). That a reload may give a new rule fresh
state needs that no event is left of it, hence that deleted rules stay deleted
(`Bookkeeping`). The lemmas `CountedType` to `RecordedFacts` say what each
operator of a frame leaves alone; `FrameKeepsIInv` uses nothing else of them.

`DetectionClipUnlessShared` has no hypotheses. It follows an event from the frame it
is raised on (`HasItsClip`): the rule records it, with one saved frame for each
frame read (`Recording`); on the last frame of the postroll the clip is complete
and gets a writer, the only one with its path (`BeingWritten`); what it closes is
all that the file contains (`Filed`). A stage is left for the next one, or by what
`Cut` lists, or because another event names the path (`SharesPath`). Everything
written to a path is the clip of an event that names it (`ClipFollowsAlert`), and
a rule that records has handed its earlier clips over (`RecordingsAreYounger`),
so that a clip does not meet itself. Exactly what may go wrong is in `Cut` and
`SharesPath`; both do (known divergences, `v_shared_clip`).

`LiveViewProofs`, for any tasks and copies, any number of faults and every time
to live of a frame of at least two ticks (`LiveViewAssumption`: with one the frame
could expire before the viewer polls again):
`LiveViewInvariant`, `LiveViewTypes`,
`LiveViewOnePublisher`, `LiveViewPictureFromTheOwner`, `LiveViewStreamLasts`.
A copy that was told that it owns the view holds the claim until it has written,
unless the claim has expired (`ClaimHeld`); that two of them would be one task
follows. The generator has been idle for longer than there has been no frame only
while the frame that ended the gap is still there to be seen at its next poll,
unless a read failed (`IdleAgrees`).

`MembershipProofs`, for any users, organizations, threads and requests:
`MembershipInvariant`, `MembershipTypes`, `MembershipOwners`,
`MembershipAuthority`, `MembershipTokens`, `MembershipLifecycles`,
`MembershipClaims`. Type correctness includes that only who was invited or has
registered has a membership (`RowsBelong`). The invariant says of every request in flight that what it
has read (the loaded row, its caller's role, a second owner) still holds unless
its organization was overtaken (`InFlight`). A write that takes the owner's role
has passed the last-owner check, so there is another owner, and `GuardedStill`
finds him in the state in which it is written. `MembershipClaims`, that a
removed member stays removed (`MembershipLifecycles`) and that no two memberships
share a token (`MembershipTokens`) hold in any interleaving. Where
requests do not overlap (`OneRequestAtATime`) nothing is ever overtaken, and
`MembershipOwnersInTurn` gives `OrganizationKeepsAnOwner`, which two overlapping
requests break: the guard of the code lacks a lock and nothing else.

`OperationsProofs`, for any operators, cameras, files and requests (an operator
is not called `Nobody`): `OperationsTypes`, `OperationsAcknowledged`,
`OperationsAlertAgrees`, `OperationsFirstAcknowledgement`, `OperationsHealth`,
`OperationsRefreshIsAtomic`, `OperationsPictures`, and, if updates of the alert do
not overlap, `OperationsAlertInTurn`: no row is ever `suspect`. Four inductive invariants over
one of the state's shape (`Shape`):

* `AlertInv`: in the row and in every copy a request has loaded, who and when
  stand together; a copy that is not stale is the row. Hence an update writes
  both columns or none, and one that is not stale writes what the handler means.
* `HealthInv`: a row a refresh has loaded is outlived by the one in the database
  (a frame once seen, a row once inserted, stay); what it will write is
  `Observed` of the loaded one. `CommittedRow` is the merge: for every state the
  row may be in meanwhile, the columns written and the columns kept agree.
* `SweepInv`: a refresh misses no active camera older than one it looks at, and
  no camera has a row before it exists. `UpcomingIsNext` needs the least number
  principle, which is taken from the well-foundedness of `<` on the naturals.
* `PictureInv`: a file that nobody else asked for belongs to one camera or to
  one request that adds it, and shows it before the row is inserted.

`RateLimitProofs`, for any limit, window, processes (finitely many) and threads:
`RateLimitInvariant`, `RateLimitTypes`, `RateLimitBound`. `AllowedIsBounded` counts
attempts over a window that may straddle two lives of the counter. The invariant
(`RInv`) splits them at that point (`Split`): those of the old counter without the
one that opened it, at most `Limit - 1`, because the opener is as old as the TTL
that is spent and has left the window when the counter expires; and those of the
present one, no more than it counts (`Counting`). A counter gets its TTL from one
thread only, the one that opened it (`OneOpener`). What a process has
allowed is what its list holds (`MemoryInv`), at most `Limit`. The lemmas
`StampAdds`, `OlderCounts` and `StampsSet` say what a new time stamp and a tick do
to a total; cardinalities of unions come from `FiniteSetTheorems`.

Only model-checked: everything about liveness and fairness (`PictureComesBack`,
`StreamEnds`, `EveryRequestIsAnswered`, `RefusalEnds`, `AbortedPipelineStops` and
the `Eventually...`). Every other property of the passing runs is a theorem, under
the hypotheses named here.

## Plan

What is left: a second copy of a running task in `RulePipeline`; what stays true
of its tasks when requests do overlap, beyond types.

## Not modelled

Stream URL validation, e-mail, overlay drawing, serializers, login, JWT encoding,
listings and configuration (stateless or pure I/O); request validation; the legacy
per-rule tasks, which no handler dispatches any more.
