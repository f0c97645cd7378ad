-------------------------- MODULE RulePipelineProofs --------------------------
(***************************************************************************)
(* Safety of RulePipeline, for every value of its constants.               *)
(***************************************************************************)
EXTENDS RulePipeline, TLAPS

USE DEF NoTask, NoEpoch

-----------------------------------------------------------------------------
(* What the operators the actions are made of do to the types.             *)

\* A call that works counts no fault, one that fails counts one, within the
\* bound.
LEMMA WorksType ==
  ASSUME TypeOK, NEW kind, NEW ok, Works(kind, ok)
  PROVE  faults' \in 0 .. MaxFaults
BY ConstantsAssumption DEF Works, Fault, TypeOK

\* A task that moves on stays dispatched, and no other task is touched.
LEMMA AdvanceType ==
  ASSUME TypeOK, NEW t \in Tasks, run[t] # "none",
         NEW s \in RunStates \ {"none"}, Advance(t, s)
  PROVE  run' \in [Tasks -> RunStates] /\ Dispatched' = Dispatched
BY DEF Advance, TypeOK, Dispatched

\* So does a task that ends, and what it had loaded is forgotten.
LEMMA EndType ==
  ASSUME TypeOK, NEW t \in Tasks, run[t] # "none", NEW s \in Over, End(t, s)
  PROVE  /\ run' \in [Tasks -> RunStates]
         /\ Dispatched' = Dispatched
         /\ specs' \in [Tasks -> SUBSET (Rules \X Models)]
         /\ seen' \in [Tasks -> Nat \cup {NoEpoch}]
         /\ polled' \in [Tasks -> Nat \cup {NoEpoch}]
<1>1. s \in RunStates \ {"none"}
  BY DEF RunStates, Over
<1>2. run' \in [Tasks -> RunStates] /\ Dispatched' = Dispatched
  BY <1>1 DEF End, TypeOK, Dispatched
<1> QED
  BY <1>2 DEF End, TypeOK

LEMMA StopType ==
  ASSUME TypeOK, NEW t \in Tasks, run[t] # "none", Stop(t)
  PROVE  /\ run' \in [Tasks -> RunStates]
         /\ Dispatched' = Dispatched
         /\ specs' \in [Tasks -> SUBSET (Rules \X Models)]
         /\ seen' \in [Tasks -> Nat \cup {NoEpoch}]
         /\ polled' \in [Tasks -> Nat \cup {NoEpoch}]
BY EndType DEF Stop, Over

\* The label a thread goes to is one of the labels.
LEMMA GotoType ==
  ASSUME TypeOK, NEW th \in Threads, NEW label \in Labels, Goto(th, label)
  PROVE  pc' \in [Threads -> Labels]
BY DEF Goto, TypeOK

\* What a thread finds in the rows it loads are dispatched tasks.
LEMMA LoadType ==
  ASSUME TypeOK, NEW th \in Threads, NEW rs \in SUBSET Rules, Load(th, rs)
  PROVE  /\ sib' \in [Threads -> SUBSET Rules]
         /\ sibTask' \in [Threads -> [Rules -> Dispatched \cup {NoTask}]]
<1>1. Loaded(rs) \in [Rules -> Dispatched \cup {NoTask}]
  BY DEF Loaded, TypeOK
<1> QED
  BY <1>1 DEF Load, TypeOK

\* A thread that returns forgets its locals.
LEMMA ReturnType ==
  ASSUME TypeOK, NEW th \in Threads, Return(th)
  PROVE  /\ pc' \in [Threads -> Labels]
         /\ sib' \in [Threads -> SUBSET Rules]
         /\ sibTask' \in [Threads -> [Rules -> Dispatched \cup {NoTask}]]
         /\ held' \in [Threads -> Dispatched \cup {NoTask}]
         /\ probe' \in [Threads -> SUBSET Dispatched]
<1>1. "idle" \in Labels
  BY DEF Labels
<1>2. [r \in Rules |-> NoTask] \in [Rules -> Dispatched \cup {NoTask}]
  OBVIOUS
<1> QED
  BY <1>1, <1>2 DEF Return, Goto, TypeOK

\* Only dispatched tasks are aborted.
LEMMA AbortType ==
  ASSUME TypeOK, NEW targets \in SUBSET Dispatched, Abort(targets)
  PROVE  aborted' \subseteq Dispatched /\ faults' \in 0 .. MaxFaults
<1>1. PICK done \in SUBSET targets :
        Works("backend", done = targets) /\ aborted' = aborted \cup done
  BY DEF Abort
<1> QED
  BY <1>1, WorksType DEF TypeOK

\* The key that is cleared holds its task or none.
LEMMA ClearKeyType ==
  ASSUME TypeOK, ClearKey
  PROVE  key' \in Dispatched \cup {NoTask} /\ faults' \in 0 .. MaxFaults
<1>1. PICK id \in {key, NoTask} : Works("redis", id = NoTask) /\ key' = id
  BY DEF ClearKey
<1> QED
  BY <1>1, WorksType DEF TypeOK

LEMMA BumpEpochType ==
  ASSUME TypeOK, BumpEpoch
  PROVE  epoch' \in Nat /\ faults' \in 0 .. MaxFaults
<1>1. PICK e \in {epoch, epoch + 1} : Works("redis", e = epoch + 1) /\ epoch' = e
  BY DEF BumpEpoch
<1> QED
  BY <1>1, WorksType DEF TypeOK

\* Giving rows the task a thread holds leaves them dispatched tasks.
LEMMA WriteHeldType ==
  ASSUME TypeOK, NEW th \in Threads, WriteHeld(th)
  PROVE  taskId' \in [Rules -> Dispatched \cup {NoTask}]
BY DEF WriteHeld, TypeOK

-----------------------------------------------------------------------------
\* Type correctness, with the referential integrity it contains: the key, the
\* rows, the abort marks and the locals of the threads name dispatched tasks.
LEMMA TypeStep == TypeOK /\ [Next]_vars => TypeOK'
<1> USE ConstantsAssumption DEF db, redis, pipes, locals
<1> SUFFICES ASSUME TypeOK, [Next]_vars PROVE TypeOK'
  OBVIOUS
<1>1. ASSUME NEW th \in Threads, SaveNewRule(th) PROVE TypeOK'
  BY <1>1, GotoType DEF SaveNewRule, Request, TypeOK, Statuses,
    Dispatched, Labels, EnsureLabels, RemoveLabels
<1>2. ASSUME NEW th \in Threads, SaveExistingRule(th) PROVE TypeOK'
  BY <1>2, GotoType DEF SaveExistingRule, Request, TypeOK, Dispatched,
    Labels, EnsureLabels, RemoveLabels
<1>3. ASSUME NEW th \in Threads, EnsureListSiblings(th) PROVE TypeOK'
  BY <1>3, GotoType, ReturnType, LoadType DEF EnsureListSiblings,
    ActiveRules, TypeOK, Dispatched, Labels, EnsureLabels, RemoveLabels
<1>4. ASSUME NEW th \in Threads, EnsureReadPipelineId(th) PROVE TypeOK'
  BY <1>4, GotoType, WorksType DEF EnsureReadPipelineId, TypeOK,
    Dispatched, Labels, EnsureLabels, RemoveLabels
<1>5. ASSUME NEW th \in Threads, EnsureAdopt(th) PROVE TypeOK'
  BY <1>5, GotoType, WriteHeldType DEF EnsureAdopt, TypeOK, Dispatched,
    Labels, EnsureLabels, RemoveLabels
<1>6. ASSUME NEW th \in Threads, EnsureAbort(th) PROVE TypeOK'
  BY <1>6, GotoType, AbortType DEF EnsureAbort, AbortTargets, TypeOK,
    Dispatched, Labels, EnsureLabels, RemoveLabels
<1>7. ASSUME NEW th \in Threads, EnsureClear(th) PROVE TypeOK'
  BY <1>7, GotoType, ClearKeyType DEF EnsureClear, TypeOK, Dispatched,
    Labels, EnsureLabels, RemoveLabels
<1>8. ASSUME NEW th \in Threads, EnsureDispatch(th) PROVE TypeOK'
  <2>1. PICK t \in Tasks : /\ run[t] = "none"
                           /\ run' = [run EXCEPT ![t] = "queued"]
                           /\ held' = [held EXCEPT ![th] = t]
    BY <1>8 DEF EnsureDispatch, Fresh
  <2>2. Dispatched' = Dispatched \cup {t}
    BY <2>1 DEF TypeOK, Dispatched
  <2>3. run' \in [Tasks -> RunStates]
    BY <2>1 DEF TypeOK, RunStates
  <2>4. pc' \in [Threads -> Labels]
    BY <1>8, GotoType DEF EnsureDispatch, Labels, EnsureLabels
  <2>5. /\ taskId' \in [Rules -> Dispatched' \cup {NoTask}]
        /\ key' \in Dispatched' \cup {NoTask}
        /\ aborted' \subseteq Dispatched'
    BY <1>8, <2>2 DEF EnsureDispatch, TypeOK
  <2>6. held' \in [Threads -> Dispatched' \cup {NoTask}]
    BY <2>1, <2>2 DEF TypeOK
  <2>7. sibTask' \in [Threads -> [Rules -> Dispatched' \cup {NoTask}]]
    <3>1. [Rules -> Dispatched \cup {NoTask}]
            \subseteq [Rules -> Dispatched' \cup {NoTask}]
      BY <2>2
    <3> QED
      BY <1>8, <3>1 DEF EnsureDispatch, TypeOK
  <2>8. probe' \in [Threads -> SUBSET Dispatched']
    BY <1>8, <2>2 DEF EnsureDispatch, TypeOK
  <2> QED
    BY <1>8, <2>3, <2>4, <2>5, <2>6, <2>7, <2>8 DEF EnsureDispatch, TypeOK
<1>9. ASSUME NEW th \in Threads, EnsureDispatchFails(th) PROVE TypeOK'
  BY <1>9, ReturnType DEF EnsureDispatchFails, Fault, TypeOK, Dispatched
<1>35. ASSUME NEW th \in Threads, EnsureDispatchUnconfirmed(th) PROVE TypeOK'
  <2>1. PICK t \in Tasks : /\ run[t] = "none"
                           /\ run' = [run EXCEPT ![t] = "queued"]
    BY <1>35 DEF EnsureDispatchUnconfirmed, Fresh
  <2>2. Dispatched' = Dispatched \cup {t} /\ run' \in [Tasks -> RunStates]
    BY <2>1 DEF TypeOK, Dispatched, RunStates
  <2>3. /\ pc' \in [Threads -> Labels]
        /\ sib' \in [Threads -> SUBSET Rules]
        /\ sibTask' \in [Threads -> [Rules -> Dispatched \cup {NoTask}]]
        /\ held' \in [Threads -> Dispatched \cup {NoTask}]
        /\ probe' \in [Threads -> SUBSET Dispatched]
    BY <1>35, ReturnType DEF EnsureDispatchUnconfirmed
  <2>4. [Rules -> Dispatched \cup {NoTask}]
          \subseteq [Rules -> Dispatched' \cup {NoTask}]
    BY <2>2
  <2>5. /\ sibTask' \in [Threads -> [Rules -> Dispatched' \cup {NoTask}]]
        /\ held' \in [Threads -> Dispatched' \cup {NoTask}]
        /\ probe' \in [Threads -> SUBSET Dispatched']
    BY <2>2, <2>3, <2>4
  <2>6. /\ taskId' \in [Rules -> Dispatched' \cup {NoTask}]
        /\ key' \in Dispatched' \cup {NoTask}
        /\ aborted' \subseteq Dispatched'
    BY <1>35, <2>2, <2>4 DEF EnsureDispatchUnconfirmed, TypeOK
  <2> QED
    BY <1>35, <2>2, <2>3, <2>5, <2>6
    DEF EnsureDispatchUnconfirmed, Fault, TypeOK
<1>10. ASSUME NEW th \in Threads, EnsureSetPipelineId(th) PROVE TypeOK'
  BY <1>10, GotoType, WorksType DEF EnsureSetPipelineId, TypeOK,
    Dispatched, Labels, EnsureLabels, RemoveLabels
<1>11. ASSUME NEW th \in Threads, EnsureCommit(th) PROVE TypeOK'
  BY <1>11, GotoType, WriteHeldType DEF EnsureCommit, TypeOK, Dispatched,
    Labels, EnsureLabels, RemoveLabels
<1>12. ASSUME NEW th \in Threads, EnsureSignal(th) PROVE TypeOK'
  BY <1>12, ReturnType, BumpEpochType DEF EnsureSignal, TypeOK,
    Dispatched
<1>13. ASSUME NEW th \in Threads, RemoveLoad(th) PROVE TypeOK'
  BY <1>13, GotoType, LoadType DEF RemoveLoad, Request, TypeOK,
    Dispatched, Labels, EnsureLabels, RemoveLabels
<1>14. ASSUME NEW th \in Threads, RemoveListOthers(th) PROVE TypeOK'
  BY <1>14, GotoType DEF RemoveListOthers, TypeOK, Dispatched, Labels,
    EnsureLabels, RemoveLabels
<1>15. ASSUME NEW th \in Threads, RemoveSignal(th) PROVE TypeOK'
  BY <1>15, GotoType, BumpEpochType DEF RemoveSignal, TypeOK, Dispatched,
    Labels, EnsureLabels, RemoveLabels
<1>16. ASSUME NEW th \in Threads, RemoveAbort(th) PROVE TypeOK'
  BY <1>16, GotoType, AbortType DEF RemoveAbort, TypeOK, Dispatched,
    Labels, EnsureLabels, RemoveLabels
<1>17. ASSUME NEW th \in Threads, RemoveClear(th) PROVE TypeOK'
  BY <1>17, GotoType, ClearKeyType DEF RemoveClear, TypeOK, Dispatched,
    Labels, EnsureLabels, RemoveLabels
<1>18. ASSUME NEW th \in Threads, Deactivate(th) PROVE TypeOK'
  BY <1>18, ReturnType DEF Deactivate, TypeOK, Dispatched, Statuses
<1>19. ASSUME NEW th \in Threads, ReconcileProbe(th) PROVE TypeOK'
  BY <1>19, GotoType DEF ReconcileProbe, Request, Executing, StartStates,
    LoopStates, TypeOK, Dispatched, Labels, EnsureLabels, RemoveLabels
<1>20. ASSUME NEW th \in Threads, ReconcileList(th) PROVE TypeOK'
  BY <1>20, GotoType, ReturnType, LoadType DEF ReconcileList, Stale,
    ActiveRules, TypeOK, Dispatched, Labels, EnsureLabels, RemoveLabels
<1>21. ASSUME NEW th \in Threads, HandlerCrash(th) PROVE TypeOK'
  BY <1>21, ReturnType DEF HandlerCrash, Fault, TypeOK, Dispatched
<1>22. ASSUME NEW t \in Tasks, PipelineLoadRules(t) PROVE TypeOK'
  BY <1>22, AdvanceType DEF PipelineLoadRules, ActiveSpecs, ActiveRules,
    TypeOK, RunStates, StartStates, LoopStates
<1>23. ASSUME NEW t \in Tasks, PipelineReadEpoch(t) PROVE TypeOK'
  BY <1>23, AdvanceType, WorksType DEF PipelineReadEpoch, ReadEpoch,
    TypeOK, RunStates, StartStates, LoopStates
<1>24. ASSUME NEW t \in Tasks, PipelineLoadModels(t) PROVE TypeOK'
  BY <1>24, AdvanceType, StopType DEF PipelineLoadModels, TypeOK,
    RunStates, StartStates, LoopStates
<1>25. ASSUME NEW t \in Tasks, LoopCheckAbort(t) PROVE TypeOK'
  BY <1>25, AdvanceType, StopType DEF LoopCheckAbort, TypeOK, RunStates,
    StartStates, LoopStates
<1>26. ASSUME NEW t \in Tasks, LoopPoll(t) PROVE TypeOK'
  <2>1. PICK e \in {epoch, NoEpoch} :
          /\ ReadEpoch(e)
          /\ \/ Advance(t, "reload") /\ polled' = [polled EXCEPT ![t] = e]
             \/ Advance(t, "frame") /\ UNCHANGED polled
    BY <1>26 DEF LoopPoll
  <2>2. e \in Nat \cup {NoEpoch} /\ faults' \in 0 .. MaxFaults
    BY <2>1, WorksType DEF ReadEpoch, TypeOK
  <2>3. {"reload", "frame"} \subseteq RunStates \ {"none"} /\ run[t] # "none"
    BY <1>26 DEF LoopPoll, RunStates, LoopStates
  <2>4. run' \in [Tasks -> RunStates] /\ Dispatched' = Dispatched
    BY <2>1, <2>3, AdvanceType
  <2>5. polled' \in [Tasks -> Nat \cup {NoEpoch}]
    BY <2>1, <2>2 DEF TypeOK
  <2> QED
    BY <1>26, <2>2, <2>4, <2>5 DEF LoopPoll, TypeOK
<1>27. ASSUME NEW t \in Tasks, LoopTimer(t) PROVE TypeOK'
  BY <1>27, AdvanceType DEF LoopTimer, TypeOK, RunStates, StartStates,
    LoopStates
<1>28. ASSUME NEW t \in Tasks, LoopReload(t) PROVE TypeOK'
  <2>1. run[t] # "none" /\ "frame" \in RunStates \ {"none"}
    BY <1>28 DEF LoopReload, RunStates, LoopStates
  <2>2. CASE Stop(t)
    BY <1>28, <2>1, <2>2, StopType DEF LoopReload, TypeOK
  <2>3. CASE ~Stop(t)
    <3>1. ActiveSpecs \in SUBSET (Rules \X Models)
      BY DEF ActiveSpecs, ActiveRules, TypeOK
    <3>2. /\ specs' \in [Tasks -> SUBSET (Rules \X Models)]
          /\ seen' \in [Tasks -> Nat \cup {NoEpoch}]
          /\ polled' \in [Tasks -> Nat \cup {NoEpoch}]
      BY <1>28, <2>3, <3>1 DEF LoopReload, TypeOK
    <3> QED
      BY <1>28, <2>1, <2>3, <3>2, AdvanceType DEF LoopReload, TypeOK
  <2> QED
    BY <2>2, <2>3
<1>29. ASSUME NEW t \in Tasks, LoopFrame(t) PROVE TypeOK'
  BY <1>29, AdvanceType DEF LoopFrame, TypeOK, RunStates, StartStates,
    LoopStates
<1>30. ASSUME NEW t \in Tasks, PipelineFails(t) PROVE TypeOK'
  BY <1>30, StopType DEF PipelineFails, Fault, TypeOK, RunStates,
    StartStates, LoopStates
<1>31. ASSUME NEW t \in Tasks, WorkerTake(t) PROVE TypeOK'
  BY <1>31, AdvanceType DEF WorkerTake, TypeOK, RunStates, StartStates,
    LoopStates
<1>32. ASSUME NEW t \in Tasks, Redeliver(t) PROVE TypeOK'
  BY <1>32, AdvanceType DEF Redeliver, TypeOK, RunStates, StartStates,
    LoopStates
<1>36. ASSUME NEW t \in Tasks, ProcessCrash(t) PROVE TypeOK'
  BY <1>36, EndType DEF ProcessCrash, Executing, Fault, TypeOK, Over,
    StartStates, LoopStates
<1>33. CASE WorkerCrash
  <2>1. run' \in [Tasks -> RunStates] /\ Dispatched' = Dispatched
    BY <1>33 DEF WorkerCrash, TypeOK, Dispatched, Executing, RunStates, Over,
                StartStates, LoopStates
  <2> QED
    BY <1>33, <2>1 DEF WorkerCrash, Fault, TypeOK
<1>34. CASE UNCHANGED vars
  BY <1>34 DEF vars, TypeOK, Dispatched
<1> QED
  BY <1>1, <1>2, <1>3, <1>4, <1>5, <1>6, <1>7, <1>8, <1>9, <1>10, <1>11,
    <1>12, <1>13, <1>14, <1>15, <1>16, <1>17, <1>18, <1>19, <1>20, <1>21,
    <1>22, <1>23, <1>24, <1>25, <1>26, <1>27, <1>28, <1>29, <1>30, <1>31,
    <1>32, <1>33, <1>34, <1>35, <1>36
    DEF Next, NewRequest, HandlerStep, EnsureStep,
    RemoveStep, PipelineStep, WorkerStep

THEOREM TypeCorrect == Spec => []TypeOK
<1>1. Init => TypeOK
  BY ConstantsAssumption
  DEF Init, Rules, Tasks, TypeOK, Statuses, RunStates, Over, Dispatched, Labels
<1> QED
  BY <1>1, TypeStep, PTL DEF Spec

-----------------------------------------------------------------------------
(* One API thread at a time: the camera has one task.                      *)
(*                                                                         *)
(* IInv says, label by label, what the thread relies on: that the rows it  *)
(* loaded are still as it found them, hence that the tasks it aborts are   *)
(* all there are, hence that none is left when it dispatches the next one. *)

\* What happens to the tasks and to Redis leaves the coordination alone.
LEMMA Frame ==
  ASSUME IInv, TypeOK', Unaborted' = Unaborted,
         UNCHANGED <<status, taskId, pc, sib, sibTask, held>>
  PROVE  IInv'
BY DEF IInv, Coordinated, AllShare, SomeShare, HasSiblings, Current, Shared,
       ActiveRules

\* A task that moves on, ends or is lost is still dispatched.
LEMMA TaskStepKeepsTasks ==
  ASSUME TypeOK, NEW t \in Tasks,
         PipelineStep(t) \/ PipelineFails(t) \/ WorkerStep(t)
               \/ ProcessCrash(t)
  PROVE  Unaborted' = Unaborted /\ Dispatched' = Dispatched
<1>1. run[t] # "none" /\ aborted' = aborted
  BY DEF Executing, StartStates, LoopStates, PipelineStep, WorkerStep,
         PipelineLoadRules, PipelineReadEpoch,
         PipelineLoadModels, LoopCheckAbort, LoopPoll, LoopTimer, LoopReload,
         LoopFrame, PipelineFails, WorkerTake, ProcessCrash, Redeliver
<1>2. \/ \E s \in Over : End(t, s)
      \/ \E s \in RunStates \ {"none"} : Advance(t, s)
  BY DEF Stop, Over, PipelineStep, WorkerStep, PipelineLoadRules,
         PipelineReadEpoch,
         PipelineLoadModels, LoopCheckAbort, LoopPoll, LoopTimer, LoopReload,
         LoopFrame, PipelineFails, WorkerTake, ProcessCrash, Redeliver,
         RunStates,
         StartStates, LoopStates
<1>3. Dispatched' = Dispatched
  BY <1>1, <1>2, EndType, AdvanceType
<1> QED
  BY <1>1, <1>3 DEF Unaborted

LEMMA CrashKeepsTasks ==
  TypeOK /\ WorkerCrash => Unaborted' = Unaborted /\ Dispatched' = Dispatched
BY DEF WorkerCrash, Unaborted, Dispatched, TypeOK, Executing, StartStates,
       LoopStates

\* With one thread, a step that preserves types, the rows of rules that do
\* not exist and what its thread relies on preserves the invariant.
LEMMA OneThread ==
  ASSUME Serial, IInv, TypeOK', NEW th \in Threads, Coordinated(th)',
         \A r \in Rules : status'[r] = "Absent" => taskId'[r] = NoTask
  PROVE  IInv'
BY DEF Serial, IInv

\* Without failing aborts every target is marked.
LEMMA AbortAll ==
  ASSUME Serial, NEW targets, Abort(targets)
  PROVE  aborted' = aborted \cup targets
BY DEF Serial, Abort, Works, Fault

\* The rows a thread loads are current until somebody writes.
LEMMA LoadCurrent ==
  ASSUME TypeOK, NEW th \in Threads, NEW rs \in SUBSET Rules, Load(th, rs)
  PROVE  /\ sib'[th] = rs
         /\ \A r \in Rules : sibTask'[th][r] = IF r \in rs THEN taskId[r] ELSE NoTask
BY DEF Load, Loaded, TypeOK

LEMMA ReturnLocals ==
  ASSUME TypeOK, NEW th \in Threads, Return(th)
  PROVE  /\ pc'[th] = "idle"
         /\ sib'[th] = {}
         /\ \A r \in Rules : sibTask'[th][r] = NoTask
BY DEF Return, Goto, TypeOK

\* The steps of a save.
LEMMA SaveStep ==
  ASSUME Serial, IInv, TypeOK', NEW th \in Threads,
         SaveNewRule(th) \/ SaveExistingRule(th)
  PROVE  IInv'
<1> USE DEF db, redis, pipes, locals
<1>1. Coordinated(th) /\ TypeOK /\ AllShare
  BY DEF IInv, Coordinated, SaveNewRule, SaveExistingRule, Request
<1>2. Unaborted' = Unaborted /\ UNCHANGED <<taskId, sib, sibTask, held>>
  BY DEF SaveNewRule, SaveExistingRule, Unaborted, Dispatched
<1>3. pc'[th] = "siblings"
  BY <1>1 DEF SaveNewRule, SaveExistingRule, Goto, TypeOK
<1>4. /\ ActiveRules \subseteq ActiveRules'
      /\ \A r \in ActiveRules' \ ActiveRules : taskId[r] = NoTask
  <2>1. CASE SaveExistingRule(th)
    BY <2>1 DEF SaveExistingRule, ActiveRules
  <2>2. CASE SaveNewRule(th)
    <3>1. PICK r \in Rules : /\ status[r] = "Absent"
                             /\ status' = [status EXCEPT ![r] = "Active"]
      BY <2>2 DEF SaveNewRule
    <3>2. ActiveRules' = ActiveRules \cup {r}
      BY <3>1, <1>1 DEF ActiveRules, TypeOK
    <3> QED
      BY <3>1, <3>2 DEF IInv
  <2> QED
    BY <2>1, <2>2
<1>5. SomeShare'
  BY <1>1, <1>2, <1>4 DEF SomeShare, AllShare
<1>6. \A r \in Rules : status'[r] = "Absent" => taskId'[r] = NoTask
  <2>1. CASE SaveExistingRule(th)
    BY <2>1 DEF SaveExistingRule, IInv
  <2>2. CASE SaveNewRule(th)
    BY <2>2, <1>1 DEF SaveNewRule, IInv, TypeOK
  <2> QED
    BY <2>1, <2>2
<1>7. Coordinated(th)'
  BY <1>1, <1>2, <1>3, <1>5 DEF Coordinated
<1> QED
  BY <1>6, <1>7, OneThread

\* The rows of the Active rules get the task that the thread holds.
LEMMA WriteHeldShares ==
  ASSUME TypeOK, NEW th \in Threads, WriteHeld(th), HasSiblings(th),
         status' = status
  PROVE  /\ ActiveRules' = ActiveRules
         /\ \A r \in ActiveRules : taskId'[r] = held[th]
         /\ \A r \in Rules \ ActiveRules : taskId'[r] = taskId[r]
BY DEF WriteHeld, Changed, HasSiblings, Current, ActiveRules, TypeOK

\* An abort leaves no task that could go on.
LEMMA AbortEmpties ==
  ASSUME Serial, IInv, NEW th \in Threads, EnsureAbort(th) \/ RemoveAbort(th)
  PROVE  Unaborted' = {} /\ Dispatched' = Dispatched
<1>1. Coordinated(th) /\ TypeOK /\ Dispatched' = Dispatched
  BY DEF IInv, EnsureAbort, RemoveAbort, pipes, Dispatched
<1>2. CASE EnsureAbort(th)
  <2>1. Abort(AbortTargets(th)) /\ SomeShare /\ HasSiblings(th)
    BY <1>1, <1>2 DEF EnsureAbort, Coordinated
  <2>2. Unaborted \subseteq AbortTargets(th)
    BY <2>1 DEF SomeShare, HasSiblings, Current, AbortTargets, ActiveRules,
                Unaborted, Dispatched, Tasks
  <2> QED
    BY <1>1, <2>1, <2>2, AbortAll DEF Unaborted
<1>3. CASE RemoveAbort(th)
  <2> DEFINE targets == {sibTask[th][r] : r \in sib[th]} \ {NoTask}
  <2>1. /\ Abort(targets) /\ AllShare /\ Current(th)
        /\ ActiveRules \subseteq sib[th]
    BY <1>1, <1>3 DEF RemoveAbort, Coordinated
  <2>2. Unaborted \subseteq targets
    BY <2>1 DEF AllShare, Current, ActiveRules, Unaborted, Dispatched, Tasks
  <2> QED
    BY <1>1, <2>1, <2>2, AbortAll DEF Unaborted
<1> QED
  BY <1>2, <1>3

\* A dispatch happens while there is none, under an id that is new.
LEMMA DispatchLaunches ==
  ASSUME Serial, IInv, NEW th \in Threads, EnsureDispatch(th)
  PROVE  /\ Unaborted = {}
         /\ \E t \in Tasks : /\ t \notin Dispatched
                             /\ Dispatched' = Dispatched \cup {t}
                             /\ Unaborted' = {t}
                             /\ held'[th] = t
<1>1. Coordinated(th) /\ TypeOK
  BY DEF IInv
<1>2. PICK t \in Tasks : /\ run[t] = "none"
                         /\ run' = [run EXCEPT ![t] = "queued"]
                         /\ held' = [held EXCEPT ![th] = t]
  BY DEF EnsureDispatch, Fresh
<1>3. Unaborted = {} /\ aborted' = aborted
  BY <1>1 DEF EnsureDispatch, Coordinated
<1>4. /\ t \notin Dispatched /\ Dispatched' = Dispatched \cup {t}
      /\ held'[th] = t /\ t \notin aborted
  BY <1>1, <1>2 DEF TypeOK, Dispatched
<1> QED
  BY <1>3, <1>4 DEF Unaborted

\* The steps of _ensure_camera_pipeline.
LEMMA EnsureStepKeeps ==
  ASSUME Serial, IInv, TypeOK', NEW th \in Threads, EnsureStep(th)
  PROVE  IInv'
<1> USE DEF db, redis, pipes, locals
<1>1. Coordinated(th) /\ TypeOK
  BY DEF IInv
<1>2. CASE EnsureListSiblings(th)
  <2>1. /\ UNCHANGED <<status, taskId>>
        /\ Unaborted' = Unaborted /\ ActiveRules' = ActiveRules
        /\ SomeShare
    BY <1>1, <1>2 DEF EnsureListSiblings, Unaborted, Dispatched, ActiveRules,
                      Coordinated
  <2>2. CASE ActiveRules = {}
    <3>1. Return(th)
      BY <1>2, <2>2 DEF EnsureListSiblings
    <3>2. AllShare'
      BY <2>1, <2>2 DEF SomeShare, AllShare
    <3>3. Coordinated(th)'
      BY <1>1, <3>1, <3>2, ReturnLocals DEF Coordinated
    <3> QED
      BY <2>1, <3>3, OneThread DEF IInv
  <2>3. CASE ActiveRules # {}
    <3>1. Load(th, ActiveRules) /\ pc'[th] = "readKey"
      BY <1>1, <1>2, <2>3 DEF EnsureListSiblings, Goto, TypeOK
    <3>2. ActiveRules \in SUBSET Rules
      BY DEF ActiveRules
    <3>3. /\ sib'[th] = ActiveRules
          /\ \A r \in Rules : sibTask'[th][r] =
                IF r \in ActiveRules THEN taskId[r] ELSE NoTask
      BY <1>1, <3>1, <3>2, LoadCurrent
    <3>4. SomeShare' /\ HasSiblings(th)'
      BY <2>1, <2>3, <3>3 DEF SomeShare, HasSiblings, Current
    <3>5. Coordinated(th)'
      BY <2>1, <3>1, <3>3, <3>4 DEF Coordinated
    <3> QED
      BY <2>1, <3>5, OneThread DEF IInv
  <2> QED
    BY <2>2, <2>3
<1>3. CASE EnsureReadPipelineId(th)
  <2>1. PICK id \in {key, NoTask} :
          /\ held' = [held EXCEPT ![th] = id]
          /\ Goto(th, IF Shared(th, id) THEN "adopt" ELSE "abort")
    BY <1>3 DEF EnsureReadPipelineId
  <2>2. /\ held'[th] = id
        /\ pc'[th] = IF Shared(th, id) THEN "adopt" ELSE "abort"
    BY <1>1, <2>1 DEF Goto, TypeOK
  <2>3. /\ UNCHANGED <<status, taskId, sib, sibTask>>
        /\ Unaborted' = Unaborted /\ ActiveRules' = ActiveRules
        /\ SomeShare /\ HasSiblings(th)
    BY <1>1, <1>3 DEF EnsureReadPipelineId, Unaborted, Dispatched, ActiveRules,
                      Coordinated
  <2>4. SomeShare' /\ HasSiblings(th)'
    BY <2>3 DEF SomeShare, HasSiblings, Current
  <2>5. pc'[th] = "adopt" => Shared(th, held[th])'
    BY <2>2, <2>3 DEF Shared
  <2>6. Coordinated(th)'
    BY <1>1, <2>2, <2>3, <2>4, <2>5 DEF Coordinated
  <2> QED
    BY <2>3, <2>6, OneThread DEF IInv
<1>4. CASE EnsureAdopt(th)
  <2>1. /\ WriteHeld(th) /\ pc'[th] = "signal"
        /\ UNCHANGED <<status, sib, sibTask>> /\ Unaborted' = Unaborted
        /\ SomeShare /\ HasSiblings(th) /\ Shared(th, held[th])
    BY <1>1, <1>4 DEF EnsureAdopt, Goto, TypeOK, Unaborted, Dispatched,
                      Coordinated
  <2>2. \A t \in Unaborted : held[th] = t
    BY <2>1 DEF SomeShare, HasSiblings, Current, Shared, ActiveRules
  <2>3. AllShare'
    BY <1>1, <2>1, <2>2, WriteHeldShares DEF AllShare, HasSiblings
  <2>4. Coordinated(th)'
    BY <1>1, <2>1, <2>3 DEF Coordinated
  <2>5. \A r \in Rules : status'[r] = "Absent" => taskId'[r] = NoTask
    BY <1>1, <2>1, WriteHeldShares DEF IInv, ActiveRules
  <2> QED
    BY <2>4, <2>5, OneThread
<1>5. CASE EnsureAbort(th)
  <2>1. /\ pc'[th] = "clear" /\ UNCHANGED <<status, taskId, sib, sibTask>>
        /\ ActiveRules' = ActiveRules /\ HasSiblings(th)
    BY <1>1, <1>5 DEF EnsureAbort, Goto, TypeOK, ActiveRules, Coordinated
  <2>2. HasSiblings(th)'
    BY <2>1 DEF HasSiblings, Current
  <2>3. Coordinated(th)'
    BY <1>1, <1>5, <2>1, <2>2, AbortEmpties DEF Coordinated
  <2> QED
    BY <2>1, <2>3, OneThread DEF IInv
<1>6. CASE EnsureClear(th)
  <2>1. /\ pc'[th] = "dispatch" /\ UNCHANGED <<status, taskId, sib, sibTask>>
        /\ Unaborted' = {} /\ ActiveRules' = ActiveRules /\ HasSiblings(th)
    BY <1>1, <1>6 DEF EnsureClear, Goto, TypeOK, Unaborted, Dispatched,
                      ActiveRules, Coordinated
  <2>2. HasSiblings(th)'
    BY <2>1 DEF HasSiblings, Current
  <2>3. Coordinated(th)'
    BY <1>1, <2>1, <2>2 DEF Coordinated
  <2> QED
    BY <2>1, <2>3, OneThread DEF IInv
<1>7. CASE EnsureDispatch(th)
  <2>1. /\ pc'[th] = "setKey" /\ UNCHANGED <<status, taskId, sib, sibTask>>
        /\ ActiveRules' = ActiveRules /\ HasSiblings(th)
    BY <1>1, <1>7 DEF EnsureDispatch, Goto, TypeOK, ActiveRules, Coordinated
  <2>2. Unaborted' = {held'[th]}
    BY <1>7, DispatchLaunches
  <2>3. HasSiblings(th)'
    BY <2>1 DEF HasSiblings, Current
  <2>4. Coordinated(th)'
    BY <1>1, <2>1, <2>2, <2>3 DEF Coordinated
  <2> QED
    BY <2>1, <2>4, OneThread DEF IInv
<1>8. CASE EnsureDispatchFails(th)
  <2>1. /\ Return(th) /\ UNCHANGED <<status, taskId>> /\ Unaborted' = {}
    BY <1>1, <1>8 DEF EnsureDispatchFails, Unaborted, Dispatched, Coordinated
  <2>2. Coordinated(th)'
    BY <1>1, <2>1, ReturnLocals DEF Coordinated, AllShare
  <2> QED
    BY <2>1, <2>2, OneThread DEF IInv
<1>12. ~EnsureDispatchUnconfirmed(th)
  BY DEF EnsureDispatchUnconfirmed, Fault, Serial
<1>9. CASE EnsureSetPipelineId(th)
  <2>1. /\ pc'[th] = "commit" /\ UNCHANGED <<status, taskId, sib, sibTask, held>>
        /\ Unaborted' = {held'[th]} /\ ActiveRules' = ActiveRules
        /\ HasSiblings(th)
    BY <1>1, <1>9 DEF EnsureSetPipelineId, Goto, TypeOK, Unaborted, Dispatched,
                      ActiveRules, Coordinated
  <2>2. HasSiblings(th)'
    BY <2>1 DEF HasSiblings, Current
  <2>3. Coordinated(th)'
    BY <1>1, <2>1, <2>2 DEF Coordinated
  <2> QED
    BY <2>1, <2>3, OneThread DEF IInv
<1>10. CASE EnsureCommit(th)
  <2>1. /\ WriteHeld(th) /\ pc'[th] = "signal"
        /\ UNCHANGED <<status, sib, sibTask>> /\ Unaborted' = {held[th]}
        /\ HasSiblings(th)
    BY <1>1, <1>10 DEF EnsureCommit, Goto, TypeOK, Unaborted, Dispatched,
                       Coordinated
  <2>2. AllShare'
    BY <1>1, <2>1, WriteHeldShares DEF AllShare, HasSiblings
  <2>3. Coordinated(th)'
    BY <1>1, <2>1, <2>2 DEF Coordinated
  <2>4. \A r \in Rules : status'[r] = "Absent" => taskId'[r] = NoTask
    BY <1>1, <2>1, WriteHeldShares DEF IInv, ActiveRules
  <2> QED
    BY <2>3, <2>4, OneThread
<1>11. CASE EnsureSignal(th)
  <2>1. /\ Return(th) /\ UNCHANGED <<status, taskId>> /\ AllShare
        /\ Unaborted' = Unaborted /\ ActiveRules' = ActiveRules
    BY <1>1, <1>11 DEF EnsureSignal, Unaborted, Dispatched, ActiveRules,
                       Coordinated
  <2>2. Coordinated(th)'
    BY <1>1, <2>1, ReturnLocals DEF Coordinated, AllShare
  <2> QED
    BY <2>1, <2>2, OneThread DEF IInv
<1> QED
  BY <1>2, <1>3, <1>4, <1>5, <1>6, <1>7, <1>8, <1>9, <1>10, <1>11, <1>12
  DEF EnsureStep

\* The steps of remove_camera_rule.
LEMMA RemoveStepKeeps ==
  ASSUME Serial, IInv, TypeOK', NEW th \in Threads,
         RemoveLoad(th) \/ RemoveStep(th)
  PROVE  IInv'
<1> USE DEF db, redis, pipes, locals
<1>1. Coordinated(th) /\ TypeOK
  BY DEF IInv
<1>2. CASE RemoveLoad(th)
  <2>1. PICK r \in Rules : Load(th, {r})
    BY <1>2 DEF RemoveLoad
  <2>2. /\ pc'[th] = "others" /\ UNCHANGED <<status, taskId>> /\ AllShare
        /\ Unaborted' = Unaborted /\ ActiveRules' = ActiveRules
    BY <1>1, <1>2 DEF RemoveLoad, Request, Goto, TypeOK, Unaborted, Dispatched,
                      ActiveRules, Coordinated
  <2>3. /\ sib'[th] = {r}
        /\ \A q \in Rules : sibTask'[th][q] =
              IF q \in {r} THEN taskId[q] ELSE NoTask
    BY <1>1, <2>1, LoadCurrent
  <2>4. AllShare' /\ Current(th)'
    BY <2>2, <2>3 DEF AllShare, Current
  <2>5. Coordinated(th)'
    BY <2>2, <2>3, <2>4 DEF Coordinated
  <2> QED
    BY <2>2, <2>5, OneThread DEF IInv
<1>3. CASE RemoveListOthers(th)
  <2>1. /\ pc'[th] = IF ActiveRules \subseteq sib[th] THEN "removeAbort"
                                                      ELSE "removeSignal"
        /\ UNCHANGED <<status, taskId, sib, sibTask>> /\ AllShare /\ Current(th)
        /\ Unaborted' = Unaborted /\ ActiveRules' = ActiveRules
    BY <1>1, <1>3 DEF RemoveListOthers, Goto, TypeOK, Unaborted, Dispatched,
                      ActiveRules, Coordinated
  <2>2. AllShare' /\ Current(th)'
    BY <2>1 DEF AllShare, Current
  <2>3. Coordinated(th)'
    BY <1>1, <2>1, <2>2 DEF Coordinated
  <2> QED
    BY <2>1, <2>3, OneThread DEF IInv
<1>4. CASE RemoveSignal(th)
  <2>1. /\ pc'[th] = "deactivate" /\ UNCHANGED <<status, taskId, sib, sibTask>>
        /\ Unaborted' = Unaborted /\ ActiveRules' = ActiveRules
        /\ AllShare /\ ~(ActiveRules \subseteq sib[th])
    BY <1>1, <1>4 DEF RemoveSignal, Goto, TypeOK, Unaborted, Dispatched,
                      ActiveRules, Coordinated
  <2>2. AllShare'
    BY <2>1 DEF AllShare
  <2>3. Coordinated(th)'
    BY <1>1, <2>1, <2>2 DEF Coordinated
  <2> QED
    BY <2>1, <2>3, OneThread DEF IInv
<1>5. CASE RemoveAbort(th)
  <2>1. pc'[th] = "removeClear" /\ UNCHANGED <<status, taskId, sib, sibTask>>
    BY <1>1, <1>5 DEF RemoveAbort, Goto, TypeOK
  <2>2. Coordinated(th)'
    BY <1>1, <1>5, <2>1, AbortEmpties DEF Coordinated
  <2> QED
    BY <2>1, <2>2, OneThread DEF IInv
<1>6. CASE RemoveClear(th)
  <2>1. /\ pc'[th] = "deactivate" /\ UNCHANGED <<status, taskId, sib, sibTask>>
        /\ Unaborted' = {}
    BY <1>1, <1>6 DEF RemoveClear, Goto, TypeOK, Unaborted, Dispatched,
                      Coordinated
  <2>2. Coordinated(th)'
    BY <1>1, <2>1 DEF Coordinated, AllShare
  <2> QED
    BY <2>1, <2>2, OneThread DEF IInv
<1>7. CASE Deactivate(th)
  <2>1. /\ Return(th) /\ Unaborted' = Unaborted /\ AllShare
        /\ Unaborted = {} \/ ~(ActiveRules \subseteq sib[th])
        /\ \A r \in Rules : r \notin sib[th] => sibTask[th][r] = NoTask
    BY <1>1, <1>7 DEF Deactivate, Unaborted, Dispatched, Coordinated
  <2>2. ActiveRules' = ActiveRules \ sib[th]
    BY <1>1, <1>7 DEF Deactivate, ActiveRules, TypeOK
  <2>3. \A r \in Rules \ sib[th] : taskId'[r] = taskId[r]
    BY <1>7, <2>1 DEF Deactivate
  <2>4. AllShare'
    BY <2>1, <2>2, <2>3 DEF AllShare, ActiveRules
  <2>5. Coordinated(th)'
    BY <2>1, <2>4, <1>1, ReturnLocals DEF Coordinated
  <2>6. \A r \in Rules : status'[r] = "Absent" => taskId'[r] = NoTask
    BY <1>7 DEF Deactivate, IInv
  <2> QED
    BY <2>5, <2>6, OneThread
<1> QED
  BY <1>2, <1>3, <1>4, <1>5, <1>6, <1>7 DEF RemoveStep

\* The invariant of one thread.
LEMMA IInvStep ==
  ASSUME Serial
  PROVE  IInv /\ [Next]_vars => IInv'
<1> SUFFICES ASSUME IInv, [Next]_vars PROVE IInv'
  OBVIOUS
<1>1. TypeOK /\ TypeOK'
  BY TypeStep DEF IInv
<1>2. ASSUME NEW th \in Threads,
             NewRequest(th) \/ HandlerStep(th) \/ HandlerCrash(th)
      PROVE  IInv'
  <2>1. ~ReconcileProbe(th) /\ ~ReconcileList(th) /\ ~HandlerCrash(th)
    BY DEF Serial, ReconcileProbe, ReconcileList, HandlerCrash, Fault, IInv,
           Coordinated
  <2> QED
    BY <1>1, <1>2, <2>1, SaveStep, EnsureStepKeeps, RemoveStepKeeps
    DEF NewRequest, HandlerStep
<1>3. ASSUME NEW t \in Tasks,
             PipelineStep(t) \/ PipelineFails(t) \/ WorkerStep(t)
               \/ ProcessCrash(t)
      PROVE  IInv'
  <2>1. UNCHANGED <<status, taskId, pc, sib, sibTask, held>>
    BY <1>3 DEF PipelineStep, WorkerStep, PipelineLoadRules, PipelineReadEpoch,
         PipelineLoadModels, LoopCheckAbort, LoopPoll, LoopTimer, LoopReload,
         LoopFrame, PipelineFails, WorkerTake, ProcessCrash, Redeliver, db, locals
  <2> QED
    BY <1>1, <1>3, <2>1, TaskStepKeepsTasks, Frame
<1>4. CASE WorkerCrash
  BY <1>1, <1>4, CrashKeepsTasks, Frame DEF WorkerCrash, db, locals
<1>5. CASE UNCHANGED vars
  BY <1>1, <1>5, Frame DEF vars, db, pipes, locals, Unaborted, Dispatched
<1> QED
  BY <1>2, <1>3, <1>4, <1>5 DEF Next

LEMMA IInvInit == ASSUME Serial PROVE Init => IInv
BY ConstantsAssumption
DEF Init, IInv, Rules, Tasks, TypeOK, Statuses, RunStates, Dispatched, Labels,
    Coordinated, AllShare, SomeShare, HasSiblings, Current, Unaborted,
    ActiveRules

\* What IInv says at any label leaves one task at most.
LEMMA IInvOneTask == ASSUME Serial, IInv PROVE OneTaskPerCamera
<1>1. PICK th \in Threads : Coordinated(th)
  BY DEF Serial, IInv
<1>2. AllShare => OneTaskPerCamera
  BY DEF AllShare, OneTaskPerCamera, ActiveRules
<1>3. SomeShare => OneTaskPerCamera
  <2> SUFFICES ASSUME SomeShare, NEW s \in Unaborted, NEW t \in Unaborted
               PROVE  s = t
    BY DEF OneTaskPerCamera
  <2>1. PICK r \in ActiveRules : taskId[r] = s
    BY DEF SomeShare
  <2>2. taskId[r] \in {t, NoTask} /\ s # NoTask
    BY <2>1 DEF SomeShare, Unaborted, Dispatched, Tasks
  <2> QED
    BY <2>1, <2>2
<1>4. Unaborted = {} \/ Unaborted = {held[th]} => OneTaskPerCamera
  BY DEF OneTaskPerCamera
<1>5. pc[th] \in Labels
  BY <1>1 DEF IInv, TypeOK
<1> QED
  BY <1>1, <1>2, <1>3, <1>4, <1>5
  DEF Coordinated, Labels, EnsureLabels, RemoveLabels

\* The invariant itself: what a thread relies on holds wherever it is.
THEOREM SerialCoordination == ASSUME Serial PROVE Spec => []IInv
<1>1. Init => IInv
  BY IInvInit
<1>2. IInv /\ [Next]_vars => IInv'
  BY IInvStep
<1> QED
  BY <1>1, <1>2, PTL DEF Spec

\* One running task per camera, through any faults of Redis, the broker, the
\* stream and the worker, as long as requests come one at a time.
THEOREM SerialOneTask == ASSUME Serial PROVE Spec => []OneTaskPerCamera
<1>1. IInv => OneTaskPerCamera
  BY IInvOneTask
<1> QED
  BY <1>1, SerialCoordination, PTL

\* Between requests that task is the task_id of every Active rule.
THEOREM SerialShared == ASSUME Serial PROVE Spec => []SharedByActiveRules
<1>1. IInv => SharedByActiveRules
  BY DEF Serial, IInv, Coordinated, SharedByActiveRules, Quiet, AllShare
<1> QED
  BY <1>1, SerialCoordination, PTL

\* Only an abort and a dispatch change the camera's tasks.
LEMMA OtherStepsKeepTasks ==
  ASSUME TypeOK, NEW th \in Threads,
         NewRequest(th) \/ HandlerStep(th) \/ HandlerCrash(th),
         ~EnsureAbort(th), ~RemoveAbort(th), ~EnsureDispatch(th),
         ~EnsureDispatchUnconfirmed(th)
  PROVE  Unaborted' = Unaborted /\ Dispatched' = Dispatched
<1>1. UNCHANGED <<run, aborted>>
  BY DEF NewRequest, HandlerStep, EnsureStep, RemoveStep, HandlerCrash, pipes,
         SaveNewRule, SaveExistingRule, RemoveLoad, ReconcileProbe,
         EnsureListSiblings, EnsureReadPipelineId, EnsureAdopt, EnsureClear,
         EnsureDispatchFails, EnsureSetPipelineId, EnsureCommit, EnsureSignal,
         RemoveListOthers, RemoveSignal, RemoveClear, Deactivate, ReconcileList
<1> QED
  BY <1>1 DEF Unaborted, Dispatched

\* Each step launches a task while there is none, retires the one there is, or
\* leaves the tasks alone.
LEMMA SingleTaskStep ==
  ASSUME Serial, IInv, [Next]_vars
  PROVE  [Single!Next]_<<Unaborted, Dispatched>>
<1>1. TypeOK
  BY DEF IInv
<1>2. ASSUME NEW th \in Threads, EnsureAbort(th) \/ RemoveAbort(th)
      PROVE  [Single!Next]_<<Unaborted, Dispatched>>
  BY <1>2, AbortEmpties DEF Single!Next, Single!Retire
<1>3. ASSUME NEW th \in Threads, EnsureDispatch(th)
      PROVE  Single!Next
  BY <1>3, DispatchLaunches DEF Single!Next, Single!Launch
<1>4. ASSUME NEW th \in Threads,
             NewRequest(th) \/ HandlerStep(th) \/ HandlerCrash(th),
             ~EnsureAbort(th), ~RemoveAbort(th), ~EnsureDispatch(th)
      PROVE  UNCHANGED <<Unaborted, Dispatched>>
  BY <1>1, <1>4, OtherStepsKeepTasks
  DEF Serial, EnsureDispatchUnconfirmed, Fault
<1>5. ASSUME NEW t \in Tasks,
             PipelineStep(t) \/ PipelineFails(t) \/ WorkerStep(t)
               \/ ProcessCrash(t)
      PROVE  UNCHANGED <<Unaborted, Dispatched>>
  BY <1>1, <1>5, TaskStepKeepsTasks
<1>6. CASE WorkerCrash
  BY <1>1, <1>6, CrashKeepsTasks
<1>7. CASE UNCHANGED vars
  BY <1>7 DEF vars, pipes, Unaborted, Dispatched
<1> QED
  BY <1>2, <1>3, <1>4, <1>5, <1>6, <1>7 DEF Next

\* RulePipeline with one thread implements SingleTask: the camera's tasks are
\* launched one after the other, each under a new id.
THEOREM SerialImplementsSingleTask ==
  ASSUME Serial PROVE Spec => ImplementsSingleTask
<1>1. Init => Single!Init
  BY DEF Init, Single!Init, Unaborted, Dispatched
<1>2. IInv /\ [Next]_vars => [Single!Next]_<<Unaborted, Dispatched>>
  BY SingleTaskStep
<1> QED
  BY <1>1, <1>2, SerialCoordination, PTL
  DEF Spec, ImplementsSingleTask, Single!Spec

-----------------------------------------------------------------------------
(* One API thread at a time, and delay() does not raise: a camera with a    *)
(* rule has its task.                                                      *)
(*                                                                         *)
(* A row names a task that nobody has told to stop (NamesLive) except while *)
(* that task is being replaced or given up: then a new one is written to    *)
(* the same rows, or they are deactivated, before the request returns.      *)

NamesLive == \A r \in ActiveRules : taskId[r] \in Unaborted \cup {NoTask}

HasTask == ActiveRules # {} => Unaborted # {}

Kept(th) ==
  /\ pc[th] \in {"idle", "signal", "others", "removeSignal", "removeAbort"}
       => HasTask
  /\ pc[th] \in {"idle", "siblings", "readKey", "adopt", "signal", "others",
                 "removeSignal", "removeAbort"} => NamesLive
  /\ pc[th] = "removeClear" => ActiveRules \subseteq sib[th]
  /\ pc[th] = "deactivate" =>
       ActiveRules \subseteq sib[th] \/ (HasTask /\ NamesLive)

\* The inductive invariant.
KInv == IInv /\ \A th \in Threads : Kept(th)

\* What happens to the tasks and to Redis leaves it alone.
LEMMA KeptFrame ==
  ASSUME NEW th \in Threads, Kept(th), Unaborted' = Unaborted,
         UNCHANGED <<status, taskId, pc, sib>>
  PROVE  Kept(th)'
BY DEF Kept, NamesLive, HasTask, ActiveRules

\* The steps of a save: a new row has no task yet.
LEMMA SaveKept ==
  ASSUME KInv, NEW th \in Threads, SaveNewRule(th) \/ SaveExistingRule(th)
  PROVE  Kept(th)'
<1> USE DEF db, redis, pipes, locals
<1>1. NamesLive /\ TypeOK
  BY DEF KInv, Kept, IInv, SaveNewRule, SaveExistingRule, Request
<1>2. Unaborted' = Unaborted /\ taskId' = taskId
  BY DEF SaveNewRule, SaveExistingRule, Unaborted, Dispatched
<1>3. pc'[th] = "siblings"
  BY <1>1 DEF SaveNewRule, SaveExistingRule, Goto, TypeOK
<1>4. \A r \in ActiveRules' : r \in ActiveRules \/ taskId[r] = NoTask
  BY <1>1 DEF SaveNewRule, SaveExistingRule, ActiveRules, KInv, IInv, TypeOK
<1>5. NamesLive'
  BY <1>1, <1>2, <1>4 DEF NamesLive
<1> QED
  BY <1>3, <1>5 DEF Kept

\* The steps of _ensure_camera_pipeline: the task taken over is one that a row
\* names, hence live; the task dispatched is written to every Active row.
LEMMA EnsureKept ==
  ASSUME Serial, KInv, "broker" \notin Faults, NEW th \in Threads,
         EnsureStep(th)
  PROVE  Kept(th)'
<1> USE DEF db, redis, pipes, locals
<1>1. Coordinated(th) /\ TypeOK /\ IInv /\ Kept(th)
  BY DEF KInv, IInv
<1>2. CASE EnsureListSiblings(th)
  <2>1. /\ UNCHANGED <<status, taskId>> /\ Unaborted' = Unaborted
        /\ ActiveRules' = ActiveRules /\ NamesLive
    BY <1>1, <1>2 DEF EnsureListSiblings, Unaborted, Dispatched, ActiveRules,
                      Kept
  <2>2. pc'[th] = "readKey" \/ (pc'[th] = "idle" /\ ActiveRules = {})
    BY <1>1, <1>2, ReturnLocals DEF EnsureListSiblings, Goto, TypeOK
  <2> QED
    BY <2>1, <2>2 DEF Kept, NamesLive, HasTask
<1>3. CASE EnsureReadPipelineId(th)
  <2>1. /\ UNCHANGED <<status, taskId>> /\ Unaborted' = Unaborted
        /\ ActiveRules' = ActiveRules /\ NamesLive
    BY <1>1, <1>3 DEF EnsureReadPipelineId, Unaborted, Dispatched, ActiveRules,
                      Kept
  <2>2. pc'[th] \in {"adopt", "abort"}
    BY <1>1, <1>3 DEF EnsureReadPipelineId, Goto, TypeOK
  <2> QED
    BY <2>1, <2>2 DEF Kept, NamesLive
<1>4. CASE EnsureAdopt(th)
  <2>1. /\ WriteHeld(th) /\ pc'[th] = "signal" /\ status' = status
        /\ Unaborted' = Unaborted /\ NamesLive
        /\ HasSiblings(th) /\ Shared(th, held[th])
    BY <1>1, <1>4 DEF EnsureAdopt, Goto, TypeOK, Unaborted, Dispatched,
                      Coordinated, Kept
  <2>2. held[th] \in Unaborted
    BY <2>1 DEF NamesLive, HasSiblings, Current, Shared, ActiveRules
  <2>3. HasTask' /\ NamesLive'
    BY <1>1, <2>1, <2>2, WriteHeldShares DEF HasTask, NamesLive
  <2> QED
    BY <2>1, <2>3 DEF Kept
<1>5. CASE EnsureAbort(th) \/ EnsureClear(th) \/ EnsureDispatch(th)
           \/ EnsureSetPipelineId(th)
  <2>1. pc'[th] \in {"clear", "dispatch", "setKey", "commit"}
    BY <1>1, <1>5 DEF EnsureAbort, EnsureClear, EnsureDispatch,
                      EnsureSetPipelineId, Goto, TypeOK
  <2> QED
    BY <2>1 DEF Kept
<1>6. ~EnsureDispatchFails(th) /\ ~EnsureDispatchUnconfirmed(th)
  BY DEF EnsureDispatchFails, EnsureDispatchUnconfirmed, Fault, Serial
<1>7. CASE EnsureCommit(th)
  <2>1. /\ WriteHeld(th) /\ pc'[th] = "signal" /\ status' = status
        /\ Unaborted' = {held[th]} /\ HasSiblings(th)
    BY <1>1, <1>7 DEF EnsureCommit, Goto, TypeOK, Unaborted, Dispatched,
                      Coordinated
  <2>2. HasTask' /\ NamesLive'
    BY <1>1, <2>1, WriteHeldShares DEF HasTask, NamesLive
  <2> QED
    BY <2>1, <2>2 DEF Kept
<1>8. CASE EnsureSignal(th)
  <2>1. /\ Return(th) /\ UNCHANGED <<status, taskId>>
        /\ Unaborted' = Unaborted /\ ActiveRules' = ActiveRules
        /\ HasTask /\ NamesLive
    BY <1>1, <1>8 DEF EnsureSignal, Unaborted, Dispatched, ActiveRules, Kept
  <2>2. pc'[th] = "idle"
    BY <1>1, <2>1, ReturnLocals
  <2> QED
    BY <2>1, <2>2 DEF Kept, HasTask, NamesLive
<1> QED
  BY <1>2, <1>3, <1>4, <1>5, <1>6, <1>7, <1>8 DEF EnsureStep

\* The steps of remove_camera_rule: the task is given up only when no other
\* rule is Active.
LEMMA RemoveKept ==
  ASSUME KInv, NEW th \in Threads, RemoveLoad(th) \/ RemoveStep(th)
  PROVE  Kept(th)'
<1> USE DEF db, redis, pipes, locals
<1>1. Coordinated(th) /\ TypeOK /\ Kept(th)
  BY DEF KInv, IInv
<1>2. CASE RemoveLoad(th) \/ RemoveListOthers(th) \/ RemoveSignal(th)
  <2>1. /\ UNCHANGED <<status, taskId>> /\ Unaborted' = Unaborted
        /\ ActiveRules' = ActiveRules /\ HasTask /\ NamesLive
    BY <1>1, <1>2 DEF RemoveLoad, RemoveListOthers, RemoveSignal, Request,
                      Unaborted, Dispatched, ActiveRules, Kept
  <2>2. pc'[th] \in {"others", "removeAbort", "removeSignal", "deactivate"}
    BY <1>1, <1>2 DEF RemoveLoad, RemoveListOthers, RemoveSignal, Goto, TypeOK
  <2>3. HasTask' /\ NamesLive'
    BY <2>1 DEF HasTask, NamesLive
  <2> QED
    BY <2>2, <2>3 DEF Kept
<1>3. CASE RemoveAbort(th) \/ RemoveClear(th)
  <2>1. /\ pc'[th] \in {"removeClear", "deactivate"}
        /\ UNCHANGED <<status, sib>> /\ ActiveRules \subseteq sib[th]
    BY <1>1, <1>3 DEF RemoveAbort, RemoveClear, Goto, TypeOK, Coordinated, Kept
  <2> QED
    BY <2>1 DEF Kept, ActiveRules
<1>4. CASE Deactivate(th)
  <2>1. /\ pc'[th] = "idle" /\ Unaborted' = Unaborted
        /\ ActiveRules \subseteq sib[th] \/ (HasTask /\ NamesLive)
        /\ \A r \in Rules : r \notin sib[th] => sibTask[th][r] = NoTask
    BY <1>1, <1>4, ReturnLocals DEF Deactivate, Unaborted, Dispatched,
                                    Coordinated, Kept
  <2>2. ActiveRules' = ActiveRules \ sib[th]
    BY <1>1, <1>4 DEF Deactivate, ActiveRules, TypeOK
  <2>3. \A r \in Rules \ sib[th] : taskId'[r] = taskId[r]
    BY <1>4, <2>1 DEF Deactivate
  <2>4. HasTask' /\ NamesLive'
    BY <2>1, <2>2, <2>3 DEF HasTask, NamesLive, ActiveRules
  <2> QED
    BY <2>1, <2>4 DEF Kept
<1> QED
  BY <1>2, <1>3, <1>4 DEF RemoveStep

LEMMA KInvStep ==
  ASSUME Serial, "broker" \notin Faults
  PROVE  KInv /\ [Next]_vars => KInv'
<1> SUFFICES ASSUME KInv, [Next]_vars PROVE KInv'
  OBVIOUS
<1>1. IInv' /\ IInv /\ TypeOK
  BY IInvStep DEF KInv, IInv
<1> SUFFICES ASSUME NEW th \in Threads PROVE Kept(th)'
  BY <1>1 DEF KInv
<1>2. Kept(th) /\ Threads = {th}
  BY DEF KInv, Serial
<1>3. ASSUME NewRequest(th) \/ HandlerStep(th) \/ HandlerCrash(th)
      PROVE  Kept(th)'
  <2>1. ~ReconcileProbe(th) /\ ~ReconcileList(th) /\ ~HandlerCrash(th)
    BY <1>1 DEF Serial, ReconcileProbe, ReconcileList, HandlerCrash, Fault,
                IInv, Coordinated
  <2> QED
    BY <1>3, <2>1, SaveKept, EnsureKept, RemoveKept DEF NewRequest, HandlerStep
<1>4. ASSUME NEW t \in Tasks,
             PipelineStep(t) \/ PipelineFails(t) \/ WorkerStep(t)
               \/ ProcessCrash(t)
      PROVE  Kept(th)'
  <2>1. UNCHANGED <<status, taskId, pc, sib>>
    BY <1>4 DEF PipelineStep, WorkerStep, PipelineLoadRules, PipelineReadEpoch,
         PipelineLoadModels, LoopCheckAbort, LoopPoll, LoopTimer, LoopReload,
         LoopFrame, PipelineFails, WorkerTake, ProcessCrash, Redeliver, db, locals
  <2> QED
    BY <1>1, <1>2, <1>4, <2>1, TaskStepKeepsTasks, KeptFrame
<1>5. CASE WorkerCrash
  BY <1>1, <1>2, <1>5, CrashKeepsTasks, KeptFrame DEF WorkerCrash, db, locals
<1>6. CASE UNCHANGED vars
  BY <1>2, <1>6, KeptFrame DEF vars, db, pipes, locals, Unaborted, Dispatched
<1> QED
  BY <1>2, <1>3, <1>4, <1>5, <1>6 DEF Next

LEMMA KInvInvariant ==
  ASSUME Serial, "broker" \notin Faults PROVE Spec => []KInv
<1>1. Init => KInv
  BY IInvInit DEF KInv, Init, Kept, HasTask, NamesLive, ActiveRules
<1>2. KInv /\ [Next]_vars => KInv'
  BY KInvStep
<1> QED
  BY <1>1, <1>2, PTL DEF Spec

\* A camera with an Active rule keeps a task that nobody has told to stop, in
\* spite of lost Redis calls, dying workers and failing streams, as long as
\* requests come one at a time and delay() does not raise.
THEOREM SerialKeepsATask ==
  ASSUME Serial, "broker" \notin Faults PROVE Spec => []ActiveRulesKeepATask
<1>1. KInv => ActiveRulesKeepATask
  BY DEF KInv, Serial, Kept, HasTask, ActiveRulesKeepATask, Quiet
<1> QED
  BY <1>1, KInvInvariant, PTL

-----------------------------------------------------------------------------
(* If, besides, streams do not fail and all weights are installed, then the *)
(* task that the rows name has not returned either.                        *)

\* A pipeline returns only without rules or when told to, and then it is not
\* live: one that is has not returned. It may have been killed.
GoesOn == \A t \in Unaborted : run[t] # "ended"

\* At every label a live task means that a rule is Active.
LEMMA LiveTaskHasRules ==
  ASSUME Serial, IInv, Unaborted # {} PROVE ActiveSpecs # {}
<1>1. PICK th \in Threads : Coordinated(th) /\ pc[th] \in Labels
  BY DEF Serial, IInv, TypeOK
<1>2. ActiveRules # {}
  BY <1>1 DEF Coordinated, AllShare, SomeShare, HasSiblings, Labels,
              EnsureLabels, RemoveLabels
<1> QED
  BY <1>2 DEF ActiveSpecs

LEMMA GoesOnStep ==
  ASSUME Serial, Faults \cap {"broker", "stream"} = {}, WeightsMissing = {},
         IInv, GoesOn, [Next]_vars
  PROVE  GoesOn'
<1> USE DEF db, redis, pipes, locals
<1>1. TypeOK
  BY DEF IInv
<1>2. ASSUME NEW th \in Threads,
             NewRequest(th) \/ HandlerStep(th) \/ HandlerCrash(th)
      PROVE  GoesOn'
  <2>1. CASE EnsureDispatch(th)
    <3>1. PICK t \in Tasks : /\ run[t] = "none"
                             /\ run' = [run EXCEPT ![t] = "queued"]
      BY <2>1 DEF EnsureDispatch, Fresh
    <3>2. aborted' = aborted
      BY <2>1 DEF EnsureDispatch
    <3> QED
      BY <1>1, <3>1, <3>2 DEF GoesOn, Unaborted, Dispatched, TypeOK
  <2>2. CASE ~EnsureDispatch(th)
    <3>1. run' = run /\ aborted \subseteq aborted'
      BY <1>2, <2>2 DEF NewRequest, HandlerStep, EnsureStep, RemoveStep,
         HandlerCrash, SaveNewRule, SaveExistingRule, RemoveLoad,
         ReconcileProbe, EnsureListSiblings, EnsureReadPipelineId, EnsureAdopt,
         EnsureAbort, EnsureClear, EnsureDispatchFails,
         EnsureDispatchUnconfirmed, Fault, Serial, EnsureSetPipelineId,
         EnsureCommit, EnsureSignal, RemoveListOthers, RemoveSignal,
         RemoveAbort, RemoveClear, Deactivate, ReconcileList, Abort
    <3> QED
      BY <3>1 DEF GoesOn, Unaborted, Dispatched
  <2> QED
    BY <2>1, <2>2
<1>3. ASSUME NEW t \in Tasks,
             PipelineStep(t) \/ PipelineFails(t) \/ WorkerStep(t)
               \/ ProcessCrash(t)
      PROVE  GoesOn'
  <2>1. Unaborted' = Unaborted
    BY <1>1, <1>3, TaskStepKeepsTasks
  <2>2. ~PipelineFails(t)
    BY DEF PipelineFails, Fault
  <2>3. \/ Stop(t) \/ End(t, "killed")
        \/ \E s \in RunStates \ {"none", "ended"} : Advance(t, s)
    BY <1>3, <2>2 DEF PipelineStep, WorkerStep, PipelineLoadRules,
       PipelineReadEpoch, PipelineLoadModels, LoopCheckAbort, LoopPoll,
       LoopTimer, LoopReload, LoopFrame, WorkerTake, ProcessCrash, Redeliver, RunStates,
       StartStates, LoopStates
  <2>4. Stop(t) => t \notin Unaborted
    <3>1. ~NeedsMissing(specs[t]) /\ ~NeedsMissing(ActiveSpecs)
      BY DEF NeedsMissing
    <3>2. ASSUME Stop(t) PROVE t \in aborted \/ ActiveSpecs = {}
      BY <1>1, <1>3, <2>2, <3>1, <3>2 DEF PipelineStep, WorkerStep,
         PipelineLoadRules, PipelineReadEpoch, PipelineLoadModels,
         LoopCheckAbort, LoopPoll, LoopTimer, LoopReload, LoopFrame,
         WorkerTake, ProcessCrash, Redeliver, Stop, End, Advance, TypeOK
    <3> QED
      BY <3>2, LiveTaskHasRules DEF Unaborted
  <2> QED
    BY <1>1, <2>1, <2>3, <2>4
    DEF GoesOn, Unaborted, Dispatched, Stop, End, Advance, TypeOK
<1>4. CASE WorkerCrash
  BY <1>1, <1>4, CrashKeepsTasks
  DEF WorkerCrash, GoesOn, Unaborted, Dispatched, TypeOK
<1>5. CASE UNCHANGED vars
  BY <1>5 DEF vars, GoesOn, Unaborted, Dispatched
<1> QED
  BY <1>2, <1>3, <1>4, <1>5 DEF Next

\* A task that _ensure_camera_pipeline takes over has not been told to stop and
\* has not returned (it may have died with its worker), as long as requests
\* come one at a time, delay() does not raise, streams do not fail and no
\* weights are missing.
THEOREM SerialAdoptsRunningTask ==
  ASSUME Serial, Faults \cap {"broker", "stream"} = {}, WeightsMissing = {}
  PROVE  Spec => AdoptsRunningTask
<1>1. Init => GoesOn
  BY DEF Init, GoesOn, Unaborted, Dispatched
<1>2. IInv /\ GoesOn /\ [Next]_vars => GoesOn'
  BY GoesOnStep
<1>3. ASSUME KInv, GoesOn, [Next]_vars, NEW th \in Threads,
             pc[th] = "readKey", pc'[th] = "adopt"
      PROVE  held'[th] \notin aborted /\ run[held'[th]] # "ended"
  <2>1. TypeOK /\ HasSiblings(th) /\ NamesLive /\ Threads = {th}
    BY <1>3 DEF KInv, IInv, Coordinated, Kept, Serial
  <2>2. EnsureReadPipelineId(th)
    BY <1>3, <2>1 DEF Next, vars, NewRequest, HandlerStep, EnsureStep,
         RemoveStep, PipelineStep, WorkerStep,
         HandlerCrash, SaveNewRule, SaveExistingRule, RemoveLoad,
         ReconcileProbe, Request, EnsureListSiblings, EnsureAdopt,
         EnsureAbort, EnsureClear, EnsureDispatch, EnsureDispatchFails,
         EnsureDispatchUnconfirmed,
         EnsureSetPipelineId, EnsureCommit, EnsureSignal, RemoveListOthers,
         RemoveSignal, RemoveAbort, RemoveClear, Deactivate, ReconcileList,
         Return, Goto, TypeOK, PipelineLoadRules, PipelineReadEpoch,
         PipelineLoadModels, LoopCheckAbort, LoopPoll, LoopTimer, LoopReload,
         LoopFrame, PipelineFails, WorkerTake, ProcessCrash, Redeliver, WorkerCrash
  <2>3. Shared(th, held'[th])
    BY <1>3, <2>1, <2>2 DEF EnsureReadPipelineId, Goto, TypeOK
  <2>4. held'[th] \in Unaborted
    BY <2>1, <2>3 DEF Shared, HasSiblings, Current, NamesLive, ActiveRules
  <2> QED
    BY <1>3, <2>4 DEF GoesOn, Unaborted
<1>4. KInv /\ GoesOn /\ [Next]_vars =>
        \A th \in Threads : pc[th] = "readKey" /\ pc'[th] = "adopt" =>
          held'[th] \notin aborted /\ run[held'[th]] # "ended"
  BY <1>3
<1>5. Spec => []KInv
  BY KInvInvariant
<1>6. KInv => IInv
  BY DEF KInv
<1> QED
  BY <1>1, <1>2, <1>4, <1>5, <1>6, PTL DEF Spec, AdoptsRunningTask
===============================================================================
