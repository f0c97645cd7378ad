----------------------------- MODULE RulePipeline -----------------------------
(***************************************************************************)
(* The detection rules of one camera and the Celery tasks that run them.   *)
(*                                                                         *)
(* API threads save, change and delete rules (rule_service.py) and         *)
(* reconcile them with Celery (rule_reconciliation.py).  They share the    *)
(* RuleConfig rows, the two Redis keys of the camera (the id of its        *)
(* pipeline task and its rules epoch) and Celery's abort marks with the    *)
(* pipeline tasks (camera_pipeline_service.py), which reload the Active    *)
(* rules whenever the epoch changes or a timer expires.                    *)
(*                                                                         *)
(* An action is one access to the database, to Redis, to Celery or to the  *)
(* video stream; what a handler has read stays in its locals until its     *)
(* request returns.  What a pipeline does with a frame is not modelled     *)
(* here.                                                                   *)
(***************************************************************************)
EXTENDS Naturals, Integers, FiniteSets

CONSTANTS
  Threads,         \* API threads (gunicorn: two processes of eight threads)
  MaxRules,        \* bound: rows RuleConfig ever holds for the camera
  MaxRequests,     \* bound: requests served; each dispatches one task at most
  MaxFaults,       \* bound: faults that happen
  Slots,           \* concurrency of the Celery worker
  Models,          \* model types of rules
  WeightsMissing,  \* the model types whose weight file is not installed
  Faults,          \* the kinds of fault that may happen
  Reconciling      \* whether the API reconciles rules with Celery

FaultKinds == {"redis",    \* a Redis call of stream_utils fails, is swallowed
               "backend",  \* an abort is not recorded, the error swallowed
               "broker",   \* delay() raises, nothing is queued
               "confirm",  \* delay() raises although the task is queued
               "stream",   \* a pipeline fails on its own
               "worker",   \* the Celery worker, or one of its processes, dies
               "api"}      \* an API thread dies in the middle of a request

ASSUME ConstantsAssumption ==
  /\ MaxRules \in Nat /\ MaxRequests \in Nat /\ MaxFaults \in Nat
  /\ Slots \in Nat \ {0}
  /\ Models # {} /\ WeightsMissing \subseteq Models
  /\ Faults \subseteq FaultKinds
  /\ Reconciling \in BOOLEAN

Rules == 1 .. MaxRules      \* primary keys, in the order of creation
Tasks == 1 .. MaxRequests   \* Celery task ids, in the order of dispatch
NoTask == 0                 \* None as a task id
NoEpoch == -1               \* None as an epoch

VARIABLES
  status,    \* RuleConfig.status of each rule, "Absent" before its INSERT
  taskId,    \* RuleConfig.task_id
  model,     \* RuleConfig.model_type
  key,       \* Redis: the camera's pipeline task id
  epoch,     \* Redis: the camera's rules epoch
  aborted,   \* result backend: tasks marked ABORTED
  run,       \* where each task is
  specs,     \* specs of a pipeline: the <<rule, model>> pairs it loaded
  seen,      \* last_epoch of a pipeline
  polled,    \* epoch of a pipeline: the value it has just read
  pc,        \* where each API thread is
  sib,       \* the rows a thread has loaded
  sibTask,   \* and the task_id it found in them
  held,      \* pipeline_id, then task.id, in _ensure_camera_pipeline
  probe,     \* what Celery's inspect answered a reconciling thread
  requests,  \* requests served so far
  faults     \* faults so far

db == <<status, taskId, model>>
redis == <<key, epoch>>
pipes == <<run, specs, seen, polled>>
locals == <<sib, sibTask, held, probe>>
vars == <<db, redis, aborted, pipes, pc, locals, requests, faults>>

-----------------------------------------------------------------------------
(* State functions.                                                        *)

Statuses == {"Absent", "Active", "Inactive"}
LoopStates == {"top", "poll", "reload", "frame"}
StartStates == {"load", "epoch", "models"}
Over == {"ended",   \* the task returned
         "killed",  \* its process died: acknowledged, it does not come back
         "lost"}    \* its worker died: unacknowledged, it may come back
RunStates == {"none", "queued"} \cup Over \cup StartStates \cup LoopStates
EnsureLabels == {"siblings", "readKey", "adopt", "abort", "clear", "dispatch",
                 "setKey", "commit", "signal"}
RemoveLabels == {"others", "removeSignal", "removeAbort", "removeClear",
                 "deactivate"}
Labels == {"idle", "reconcile"} \cup EnsureLabels \cup RemoveLabels

ActiveRules == {r \in Rules : status[r] = "Active"}
ActiveSpecs == {<<r, model[r]>> : r \in ActiveRules}
Dispatched == {t \in Tasks : run[t] # "none"}
Unaborted == Dispatched \ aborted
Executing == {t \in Tasks : run[t] \in StartStates \cup LoopStates}

\* task_id of the rows rs, as a thread that loads them now sees it.
Loaded(rs) == [r \in Rules |-> IF r \in rs THEN taskId[r] ELSE NoTask]

NeedsMissing(ss) == \E s \in ss : s[2] \in WeightsMissing

Goto(th, label) == pc' = [pc EXCEPT ![th] = label]

Return(th) ==
  /\ Goto(th, "idle")
  /\ sib' = [sib EXCEPT ![th] = {}]
  /\ sibTask' = [sibTask EXCEPT ![th] = [r \in Rules |-> NoTask]]
  /\ held' = [held EXCEPT ![th] = NoTask]
  /\ probe' = [probe EXCEPT ![th] = {}]

Load(th, rs) ==
  /\ sib' = [sib EXCEPT ![th] = rs]
  /\ sibTask' = [sibTask EXCEPT ![th] = Loaded(rs)]

Request(th) ==
  /\ pc[th] = "idle"
  /\ requests < MaxRequests
  /\ requests' = requests + 1

Fault(kind) ==
  /\ kind \in Faults
  /\ faults < MaxFaults
  /\ faults' = faults + 1

\* Either the call works or the fault makes it do nothing.
Works(kind, ok) == IF ok THEN UNCHANGED faults ELSE Fault(kind)

Init ==
  /\ status = [r \in Rules |-> "Absent"]
  /\ taskId = [r \in Rules |-> NoTask]
  /\ model = [r \in Rules |-> CHOOSE m \in Models : TRUE]
  /\ key = NoTask
  /\ epoch = 0
  /\ aborted = {}
  /\ run = [t \in Tasks |-> "none"]
  /\ specs = [t \in Tasks |-> {}]
  /\ seen = [t \in Tasks |-> NoEpoch]
  /\ polled = [t \in Tasks |-> NoEpoch]
  /\ pc = [th \in Threads |-> "idle"]
  /\ sib = [th \in Threads |-> {}]
  /\ sibTask = [th \in Threads |-> [r \in Rules |-> NoTask]]
  /\ held = [th \in Threads |-> NoTask]
  /\ probe = [th \in Threads |-> {}]
  /\ requests = 0
  /\ faults = 0

-----------------------------------------------------------------------------
(* save_rule_for_camera: the row is written and committed, then the camera *)
(* gets a pipeline.  A rule of any status can be changed; none becomes     *)
(* Active again.                                                           *)

SaveNewRule(th) ==
  /\ Request(th)
  /\ \E r \in Rules, m \in Models :
       /\ status[r] = "Absent"
       /\ \A q \in Rules : status[q] = "Absent" => r <= q
       /\ status' = [status EXCEPT ![r] = "Active"]
       /\ model' = [model EXCEPT ![r] = m]
  /\ Goto(th, "siblings")
  /\ UNCHANGED <<taskId, redis, aborted, pipes, locals, faults>>

SaveExistingRule(th) ==
  /\ Request(th)
  /\ \E r \in Rules, m \in Models :
       /\ status[r] # "Absent"
       /\ model' = [model EXCEPT ![r] = m]
  /\ Goto(th, "siblings")
  /\ UNCHANGED <<status, taskId, redis, aborted, pipes, locals, faults>>

-----------------------------------------------------------------------------
(* _ensure_camera_pipeline                                                 *)

EnsureListSiblings(th) ==
  /\ pc[th] = "siblings"
  /\ IF ActiveRules = {}
     THEN Return(th)
     ELSE /\ Load(th, ActiveRules)
          /\ Goto(th, "readKey")
          /\ UNCHANGED <<held, probe>>
  /\ UNCHANGED <<db, redis, aborted, pipes, requests, faults>>

\* Mutant: whatever the key names is taken for the running task.
SharedByKeyAlone(th, id) == id # NoTask

Shared(th, id) == id # NoTask /\ \E r \in sib[th] : sibTask[th][r] = id

EnsureReadPipelineId(th) ==
  /\ pc[th] = "readKey"
  /\ \E id \in {key, NoTask} :
       /\ Works("redis", id = key)
       /\ held' = [held EXCEPT ![th] = id]
       /\ Goto(th, IF Shared(th, id) THEN "adopt" ELSE "abort")
  /\ UNCHANGED <<db, redis, aborted, pipes, sib, sibTask, probe, requests>>

\* Mutant: only rows without a task are given one.
ChangedIfNone(th) == {r \in sib[th] : sibTask[th][r] = NoTask}

\* The siblings that the ORM finds changed, and so writes, when the task id
\* of each is set to held.
Changed(th) == {r \in sib[th] : sibTask[th][r] # held[th]}

WriteHeld(th) ==
  taskId' = [r \in Rules |-> IF r \in Changed(th) THEN held[th] ELSE taskId[r]]

EnsureAdopt(th) ==
  /\ pc[th] = "adopt"
  /\ WriteHeld(th)
  /\ Goto(th, "signal")
  /\ UNCHANGED <<status, model, redis, aborted, pipes, locals, requests, faults>>

\* Mutant: the task that the key names is aborted, those of the rows are not.
AbortTargetsOfKey(th) == {held[th]} \ {NoTask}

AbortTargets(th) ==
  ({sibTask[th][r] : r \in sib[th]} \cup {held[th]}) \ {NoTask}

\* One abort of several may fail, so any part of the targets may be marked.
Abort(targets) ==
  \E done \in SUBSET targets :
    /\ Works("backend", done = targets)
    /\ aborted' = aborted \cup done

EnsureAbort(th) ==
  /\ pc[th] = "abort"
  /\ Abort(AbortTargets(th))
  /\ held' = [held EXCEPT ![th] = NoTask]
  /\ Goto(th, "clear")
  /\ UNCHANGED <<db, redis, pipes, sib, sibTask, probe, requests>>

ClearKey ==
  \E id \in {key, NoTask} :
    /\ Works("redis", id = NoTask)
    /\ key' = id

EnsureClear(th) ==
  /\ pc[th] = "clear"
  /\ ClearKey
  /\ Goto(th, "dispatch")
  /\ UNCHANGED <<db, epoch, aborted, pipes, locals, requests>>

Fresh(t) == run[t] = "none" /\ \A u \in Tasks : run[u] = "none" => t <= u

EnsureDispatch(th) ==
  /\ pc[th] = "dispatch"
  /\ \E t \in Tasks :
       /\ Fresh(t)
       /\ run' = [run EXCEPT ![t] = "queued"]
       /\ held' = [held EXCEPT ![th] = t]
  /\ Goto(th, "setKey")
  /\ UNCHANGED <<db, redis, aborted, specs, seen, polled, sib, sibTask, probe,
                 requests, faults>>

\* Mutant: the id is made before the call, whose error goes unnoticed.
EnsureDispatchUnnoticed(th) ==
  /\ pc[th] = "dispatch"
  /\ Fault("broker")
  /\ \E t \in Tasks : Fresh(t) /\ held' = [held EXCEPT ![th] = t]
  /\ Goto(th, "setKey")
  /\ UNCHANGED <<db, redis, aborted, pipes, sib, sibTask, probe, requests>>

\* delay() raises: save_rule_for_camera logs it and answers as if it had not.
EnsureDispatchFails(th) ==
  /\ pc[th] = "dispatch"
  /\ Fault("broker")
  /\ Return(th)
  /\ UNCHANGED <<db, redis, aborted, pipes, requests>>

\* The connection fails after the message was published: so does delay(), and
\* nobody knows the id of the task.
EnsureDispatchUnconfirmed(th) ==
  /\ pc[th] = "dispatch"
  /\ Fault("confirm")
  /\ \E t \in Tasks : Fresh(t) /\ run' = [run EXCEPT ![t] = "queued"]
  /\ Return(th)
  /\ UNCHANGED <<db, redis, aborted, specs, seen, polled, requests>>

EnsureSetPipelineId(th) ==
  /\ pc[th] = "setKey"
  /\ \E id \in {key, held[th]} :
       /\ Works("redis", id = held[th])
       /\ key' = id
  /\ Goto(th, "commit")
  /\ UNCHANGED <<db, epoch, aborted, pipes, locals, requests>>

EnsureCommit(th) ==
  /\ pc[th] = "commit"
  /\ WriteHeld(th)
  /\ Goto(th, "signal")
  /\ UNCHANGED <<status, model, redis, aborted, pipes, locals, requests, faults>>

BumpEpoch ==
  \E e \in {epoch, epoch + 1} :
    /\ Works("redis", e = epoch + 1)
    /\ epoch' = e

EnsureSignal(th) ==
  /\ pc[th] = "signal"
  /\ BumpEpoch
  /\ Return(th)
  /\ UNCHANGED <<db, key, aborted, pipes, requests>>

-----------------------------------------------------------------------------
(* remove_camera_rule: a rule of any status can be deleted, its row stays. *)

RemoveLoad(th) ==
  /\ Request(th)
  /\ \E r \in Rules : status[r] # "Absent" /\ Load(th, {r})
  /\ Goto(th, "others")
  /\ UNCHANGED <<db, redis, aborted, pipes, held, probe, faults>>

RemoveListOthers(th) ==
  /\ pc[th] = "others"
  /\ Goto(th, IF ActiveRules \subseteq sib[th] THEN "removeAbort"
                                              ELSE "removeSignal")
  /\ UNCHANGED <<db, redis, aborted, pipes, locals, requests, faults>>

RemoveSignal(th) ==
  /\ pc[th] = "removeSignal"
  /\ BumpEpoch
  /\ Goto(th, "deactivate")
  /\ UNCHANGED <<db, key, aborted, pipes, locals, requests>>

\* Mutant: the last rule is deleted without aborting its task.
RemoveAbortNothing(th) ==
  /\ pc[th] = "removeAbort"
  /\ Goto(th, "removeClear")
  /\ UNCHANGED <<db, redis, aborted, pipes, locals, requests, faults>>

RemoveAbort(th) ==
  /\ pc[th] = "removeAbort"
  /\ Abort({sibTask[th][r] : r \in sib[th]} \ {NoTask})
  /\ Goto(th, "removeClear")
  /\ UNCHANGED <<db, redis, pipes, locals, requests>>

RemoveClear(th) ==
  /\ pc[th] = "removeClear"
  /\ ClearKey
  /\ Goto(th, "deactivate")
  /\ UNCHANGED <<db, epoch, aborted, pipes, locals, requests>>

\* status becomes Inactive and task_id None in the loaded rows; the ORM does
\* not write a task_id it had found None.
Deactivate(th) ==
  /\ pc[th] = "deactivate"
  /\ status' = [r \in Rules |-> IF r \in sib[th] THEN "Inactive" ELSE status[r]]
  /\ taskId' = [r \in Rules |->
                  IF sibTask[th][r] # NoTask THEN NoTask ELSE taskId[r]]
  /\ Return(th)
  /\ UNCHANGED <<model, redis, aborted, pipes, requests, faults>>

-----------------------------------------------------------------------------
(* reconcile_rule_tasks: Celery is asked first, the rows are read after.   *)
(* No worker that answers, no reconciliation.  Executing tasks are all a   *)
(* worker holds: with late acknowledgement and a prefetch of one per       *)
(* process it reserves none beyond them.                                   *)

ReconcileProbe(th) ==
  /\ Reconciling
  /\ Request(th)
  /\ probe' = [probe EXCEPT ![th] = Executing]
  /\ Goto(th, "reconcile")
  /\ UNCHANGED <<db, redis, aborted, pipes, sib, sibTask, held, faults>>

Stale(th) ==
  {r \in ActiveRules : taskId[r] = NoTask \/ taskId[r] \notin probe[th]}

ReconcileList(th) ==
  /\ pc[th] = "reconcile"
  /\ IF Stale(th) = {}
     THEN Return(th)
     ELSE /\ Load(th, Stale(th))
          /\ Goto(th, "deactivate")
          /\ UNCHANGED <<held, probe>>
  /\ UNCHANGED <<db, redis, aborted, pipes, requests, faults>>

\* The process of the thread is killed: what it has not committed is lost.
HandlerCrash(th) ==
  /\ pc[th] # "idle"
  /\ Fault("api")
  /\ Return(th)
  /\ UNCHANGED <<db, redis, aborted, pipes, requests>>

-----------------------------------------------------------------------------
(* process_camera_pipeline, and the Celery worker that runs it.            *)

End(t, state) ==
  /\ run' = [run EXCEPT ![t] = state]
  /\ specs' = [specs EXCEPT ![t] = {}]
  /\ seen' = [seen EXCEPT ![t] = NoEpoch]
  /\ polled' = [polled EXCEPT ![t] = NoEpoch]

Stop(t) == End(t, "ended")

Advance(t, state) == run' = [run EXCEPT ![t] = state]

WorkerTake(t) ==
  /\ run[t] = "queued"
  /\ Cardinality(Executing) < Slots
  /\ Advance(t, "load")
  /\ UNCHANGED <<db, redis, aborted, specs, seen, polled, pc, locals, requests,
                 faults>>

PipelineLoadRules(t) ==
  /\ run[t] = "load"
  /\ Advance(t, "epoch")
  /\ specs' = [specs EXCEPT ![t] = ActiveSpecs]
  /\ UNCHANGED <<db, redis, aborted, seen, polled, pc, locals, requests, faults>>

ReadEpoch(e) == e \in {epoch, NoEpoch} /\ Works("redis", e = epoch)

PipelineReadEpoch(t) ==
  /\ run[t] = "epoch"
  /\ \E e \in {epoch, NoEpoch} :
       /\ ReadEpoch(e)
       /\ seen' = [seen EXCEPT ![t] = e]
  /\ Advance(t, "models")
  /\ UNCHANGED <<db, redis, aborted, specs, polled, pc, locals, requests>>

PipelineLoadModels(t) ==
  /\ run[t] = "models"
  /\ IF NeedsMissing(specs[t])
     THEN Stop(t)
     ELSE Advance(t, "top") /\ UNCHANGED <<specs, seen, polled>>
  /\ UNCHANGED <<db, redis, aborted, pc, locals, requests, faults>>

\* Mutant: the abort mark is not looked at.
LoopCheckNothing(t) ==
  /\ run[t] = "top"
  /\ Advance(t, "poll")
  /\ UNCHANGED <<db, redis, aborted, specs, seen, polled, pc, locals, requests,
                 faults>>

LoopCheckAbort(t) ==
  /\ run[t] = "top"
  /\ IF t \in aborted
     THEN Stop(t)
     ELSE Advance(t, "poll") /\ UNCHANGED <<specs, seen, polled>>
  /\ UNCHANGED <<db, redis, aborted, pc, locals, requests, faults>>

LoopPoll(t) ==
  /\ run[t] = "poll"
  /\ \E e \in {epoch, NoEpoch} :
       /\ ReadEpoch(e)
       /\ IF e # seen[t]
          THEN Advance(t, "reload") /\ polled' = [polled EXCEPT ![t] = e]
          ELSE Advance(t, "frame") /\ UNCHANGED polled
  /\ UNCHANGED <<db, redis, aborted, specs, seen, pc, locals, requests>>

\* Mutant: rules are reloaded on a signal only.
LoopTimerNever(t) == FALSE /\ UNCHANGED vars

\* The epoch is unchanged, but RULES_RELOAD_SECONDS have passed.
LoopTimer(t) ==
  /\ run[t] = "poll"
  /\ epoch = seen[t]
  /\ Advance(t, "reload")
  /\ polled' = [polled EXCEPT ![t] = epoch]
  /\ UNCHANGED <<db, redis, aborted, specs, seen, pc, locals, requests, faults>>

\* Mutant: a pipeline left without rules goes on.
LoopReloadEmpty(t) ==
  /\ run[t] = "reload"
  /\ IF NeedsMissing(ActiveSpecs)
     THEN Stop(t)
     ELSE /\ Advance(t, "frame")
          /\ specs' = [specs EXCEPT ![t] = ActiveSpecs]
          /\ seen' = [seen EXCEPT ![t] = polled[t]]
          /\ polled' = [polled EXCEPT ![t] = NoEpoch]
  /\ UNCHANGED <<db, redis, aborted, pc, locals, requests, faults>>

LoopReload(t) ==
  /\ run[t] = "reload"
  /\ IF ActiveSpecs = {} \/ NeedsMissing(ActiveSpecs)
     THEN Stop(t)
     ELSE /\ Advance(t, "frame")
          /\ specs' = [specs EXCEPT ![t] = ActiveSpecs]
          /\ seen' = [seen EXCEPT ![t] = polled[t]]
          /\ polled' = [polled EXCEPT ![t] = NoEpoch]
  /\ UNCHANGED <<db, redis, aborted, pc, locals, requests, faults>>

LoopFrame(t) ==
  /\ run[t] = "frame"
  /\ Advance(t, "top")
  /\ UNCHANGED <<db, redis, aborted, specs, seen, polled, pc, locals, requests,
                 faults>>

\* The stream does not open, a frame cannot be read, or anything else raises.
PipelineFails(t) ==
  /\ run[t] \in {"load", "frame"}
  /\ Fault("stream")
  /\ Stop(t)
  /\ UNCHANGED <<db, redis, aborted, pc, locals, requests>>

\* A process of the worker is killed: the worker acknowledges its task (there
\* is no task_reject_on_worker_lost), and that was it.
ProcessCrash(t) ==
  /\ t \in Executing
  /\ Fault("worker")
  /\ End(t, "killed")
  /\ UNCHANGED <<db, redis, aborted, pc, locals, requests>>

\* The worker dies: nobody acknowledges its tasks.
WorkerCrash ==
  /\ Executing # {}
  /\ Fault("worker")
  /\ run' = [t \in Tasks |-> IF t \in Executing THEN "lost" ELSE run[t]]
  /\ specs' = [t \in Tasks |-> {}]
  /\ seen' = [t \in Tasks |-> NoEpoch]
  /\ polled' = [t \in Tasks |-> NoEpoch]
  /\ UNCHANGED <<db, redis, aborted, pc, locals, requests>>

\* The broker delivers an unacknowledged task again when its visibility timeout
\* is over, under the same id.  rule_reconciliation.py does not count on it,
\* and nothing here does.
Redeliver(t) ==
  /\ run[t] = "lost"
  /\ Advance(t, "queued")
  /\ UNCHANGED <<db, redis, aborted, specs, seen, polled, pc, locals, requests,
                 faults>>

-----------------------------------------------------------------------------
NewRequest(th) ==
  SaveNewRule(th) \/ SaveExistingRule(th) \/ RemoveLoad(th) \/ ReconcileProbe(th)

EnsureStep(th) ==
  \/ EnsureListSiblings(th) \/ EnsureReadPipelineId(th) \/ EnsureAdopt(th)
  \/ EnsureAbort(th) \/ EnsureClear(th) \/ EnsureDispatch(th)
  \/ EnsureDispatchFails(th) \/ EnsureDispatchUnconfirmed(th)
  \/ EnsureSetPipelineId(th) \/ EnsureCommit(th) \/ EnsureSignal(th)

RemoveStep(th) ==
  \/ RemoveListOthers(th) \/ RemoveSignal(th) \/ RemoveAbort(th)
  \/ RemoveClear(th) \/ Deactivate(th)

HandlerStep(th) == EnsureStep(th) \/ RemoveStep(th) \/ ReconcileList(th)

PipelineStep(t) ==
  \/ PipelineLoadRules(t) \/ PipelineReadEpoch(t) \/ PipelineLoadModels(t)
  \/ LoopCheckAbort(t) \/ LoopPoll(t) \/ LoopTimer(t) \/ LoopReload(t)
  \/ LoopFrame(t)

WorkerStep(t) == WorkerTake(t) \/ Redeliver(t)

Next ==
  \/ \E th \in Threads : NewRequest(th) \/ HandlerStep(th) \/ HandlerCrash(th)
  \/ \E t \in Tasks : PipelineStep(t) \/ PipelineFails(t) \/ WorkerStep(t)
                      \/ ProcessCrash(t)
  \/ WorkerCrash

Spec == Init /\ [][Next]_vars

\* A thread finishes its request unless it crashes; a worker takes queued
\* tasks and runs them.  The reload timer of a pipeline that keeps looping
\* expires again and again.  That the broker ever delivers a task again is
\* not assumed.
Fairness ==
  /\ \A th \in Threads : WF_vars(HandlerStep(th))
  /\ \A t \in Tasks : /\ WF_vars(PipelineStep(t))
                      /\ WF_vars(WorkerTake(t))
                      /\ SF_vars(LoopTimer(t))

FairSpec == Spec /\ Fairness

-----------------------------------------------------------------------------
(* Properties.                                                             *)

TypeOK ==
  /\ status \in [Rules -> Statuses]
  /\ model \in [Rules -> Models]
  /\ taskId \in [Rules -> Dispatched \cup {NoTask}]
  /\ key \in Dispatched \cup {NoTask}
  /\ epoch \in Nat
  /\ aborted \subseteq Dispatched
  /\ run \in [Tasks -> RunStates]
  /\ specs \in [Tasks -> SUBSET (Rules \X Models)]
  /\ seen \in [Tasks -> Nat \cup {NoEpoch}]
  /\ polled \in [Tasks -> Nat \cup {NoEpoch}]
  /\ pc \in [Threads -> Labels]
  /\ sib \in [Threads -> SUBSET Rules]
  /\ sibTask \in [Threads -> [Rules -> Dispatched \cup {NoTask}]]
  /\ held \in [Threads -> Dispatched \cup {NoTask}]
  /\ probe \in [Threads -> SUBSET Dispatched]
  /\ requests \in 0 .. MaxRequests
  /\ faults \in 0 .. MaxFaults

Quiet == \A th \in Threads : pc[th] = "idle"

\* "One running task per camera" (_ensure_camera_pipeline): of the tasks
\* dispatched for the camera at most one has not been told to stop, in the
\* middle of a request too, and whatever faults have lost.
OneTaskPerCamera == \A s, t \in Unaborted : s = t

\* "... shared by every Active rule on it": between requests a task that has
\* not been told to stop is the task_id of every Active rule, and there is
\* one.  No pipeline runs that no rule could be used to stop.
SharedByActiveRules ==
  Quiet => \A t \in Unaborted :
             ActiveRules # {} /\ \A r \in ActiveRules : taskId[r] = t

\* "One running task per camera", the other half: between requests a camera
\* with an Active rule has a task that nobody has told to stop.
ActiveRulesKeepATask ==
  Quiet /\ ActiveRules # {} => Unaborted # {}

\* The camera's tasks behave as those of SingleTask.
Single == INSTANCE SingleTask WITH live <- Unaborted, used <- Dispatched
ImplementsSingleTask == Single!Spec

Watched(r) == \E t \in Executing \ aborted : <<r, model[r]>> \in specs[t]

\* What a dead worker leaves behind (rule_reconciliation.py): an Active rule
\* whose task died with it.
Orphaned(r) == taskId[r] # NoTask /\ run[taskId[r]] \in {"killed", "lost"}

\* Once requests and faults have ceased, each Active rule whose model is
\* installed is evaluated, as it was last saved, by a pipeline that nobody
\* has told to stop, unless a dead worker has orphaned it: lost calls of
\* Redis orphan no rule, and no rule is left with a task that returned.
EventuallyWatched ==
  <>[](\A r \in ActiveRules :
         model[r] \notin WeightsMissing => Watched(r) \/ Orphaned(r))

\* A pipeline that runs on evaluates the Active rules as they are, although
\* the signal can come before the change it announces (remove_camera_rule)
\* or between the two reads of a starting pipeline: the timer makes up for it.
EventuallyInSync ==
  <>[](\A t \in Executing : specs[t] = ActiveSpecs)

\* A pipeline of a camera without Active rules stops, whether or not the
\* abort reached it.
EventuallyNoneWithoutRules ==
  <>[](ActiveRules = {} => Executing = {})

\* A pipeline that was told to stop, does.
AbortedPipelineStops ==
  \A t \in Tasks : t \in aborted /\ t \in Executing ~> t \notin Executing

\* A task that _ensure_camera_pipeline takes for the running one has not been
\* told to stop and has not returned.  It may have died with its worker, which
\* neither the key nor the rows show.
AdoptsRunningTask ==
  [][\A th \in Threads : pc[th] = "readKey" /\ pc'[th] = "adopt" =>
       held'[th] \notin aborted /\ run[held'[th]] # "ended"]_vars

\* reconcile_rule_tasks: "Mark 'Active' rules whose Celery task is gone as
\* 'Inactive'": the task of a rule it marks neither waits nor runs.
ReconcilesOnlyGoneTasks ==
  [][\A th \in Threads : pc[th] = "deactivate" /\ probe[th] # {} =>
       \A r \in sib[th] : status'[r] = "Inactive" =>
         taskId[r] \notin {t \in Unaborted : run[t] \notin Over}]_vars

-----------------------------------------------------------------------------
(* Why a single thread keeps to one task: what it relies on at each step.  *)

Serial ==
  /\ \E th : Threads = {th}
  /\ Faults \cap {"confirm", "backend", "api"} = {}
  /\ Reconciling = FALSE

\* Every Active rule has the task.
AllShare ==
  \A t \in Unaborted :
    ActiveRules # {} /\ \A r \in ActiveRules : taskId[r] = t

\* Some Active rule has the task, the others none or that one too.
SomeShare ==
  \A t \in Unaborted :
    /\ \E r \in ActiveRules : taskId[r] = t
    /\ \A r \in ActiveRules : taskId[r] \in {t, NoTask}

\* The rows a thread loaded are still as it found them.
Current(th) == \A r \in Rules : r \in sib[th] => sibTask[th][r] = taskId[r]

HasSiblings(th) == ActiveRules # {} /\ sib[th] = ActiveRules /\ Current(th)

Coordinated(th) ==
  /\ pc[th] # "reconcile"
  /\ \A r \in Rules : r \notin sib[th] => sibTask[th][r] = NoTask
  /\ pc[th] \in {"idle", "signal", "others", "removeSignal", "removeAbort",
                 "deactivate"} => AllShare
  /\ pc[th] \in {"siblings", "readKey", "adopt", "abort"} => SomeShare
  /\ pc[th] \in {"clear", "dispatch", "removeClear"} => Unaborted = {}
  /\ pc[th] \in {"setKey", "commit"} => Unaborted = {held[th]}
  /\ pc[th] \in {"readKey", "adopt", "abort", "clear", "dispatch", "setKey",
                 "commit"} => HasSiblings(th)
  /\ pc[th] = "adopt" => Shared(th, held[th])
  /\ pc[th] \in {"others", "removeAbort"} => Current(th)
  /\ pc[th] = "removeAbort" => ActiveRules \subseteq sib[th]
  /\ pc[th] = "removeSignal" => ~(ActiveRules \subseteq sib[th])
  /\ pc[th] = "deactivate" => Unaborted = {} \/ ~(ActiveRules \subseteq sib[th])

IInv ==
  /\ TypeOK
  /\ \A r \in Rules : status[r] = "Absent" => taskId[r] = NoTask
  /\ \A th \in Threads : Coordinated(th)
=============================================================================
