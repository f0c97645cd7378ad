-------------------------- MODULE RuleDetectionProofs --------------------------
(***************************************************************************)
(* Theorems about RuleDetection, for any rules, values, rate of frames and *)
(* clock, delays of the loop and faults.                                   *)
(***************************************************************************)
EXTENDS RuleDetection, FiniteSetTheorems, TLAPS

\* What one frame does to the state of one rule, operator by operator.

LEMMA CountedType ==
  ASSUME NEW s \in Specs, NEW c \in States, NEW dets \in SUBSET Cells
  PROVE  /\ Counted(s, c, dets) \in States
         /\ \E n \in Nat : Counted(s, c, dets) = [c EXCEPT !.count = n]
<1>1. IsFiniteSet(dets \cap s.roi)
  BY ConstantsAssumption, FS_Subset
<1>2. Cardinality(dets \cap s.roi) \in Nat
  BY <1>1, FS_CardinalityType
<1>3. c = [c EXCEPT !.count = c.count] /\ c.count \in Nat
  BY DEF States
<1> QED
  BY <1>2, <1>3 DEF Counted, States

LEMMA JudgedType ==
  ASSUME NEW s \in Specs, NEW c \in States, NEW t \in Nat
  PROVE  /\ Judged(s, c, t) \in States
         /\ Judged(s, c, t).recording = c.recording
         /\ Judged(s, c, t).start = c.start
         /\ Judged(s, c, t).path = c.path
         /\ Judged(s, c, t).last = c.last
<1>1. Sustained(c, t) \in BOOLEAN
  BY DEF Sustained
<1>2. CASE s.type # Crowd \/ Skipped(s, c)
  BY <1>2 DEF Judged
<1>3. CASE ~(s.type # Crowd \/ Skipped(s, c)) /\ c.count > c.max
  <2> DEFINE x == IF c.timer = NoTime THEN t ELSE c.timer
             b == c.active \/ Sustained(c, t)
  <2>1. x \in Nat \cup {NoTime} /\ b \in BOOLEAN
    BY <1>1 DEF States
  <2>2. Judged(s, c, t) = [c EXCEPT !.timer = x, !.active = b]
    BY <1>3 DEF Judged
  <2> HIDE DEF x, b
  <2> QED
    BY <2>1, <2>2 DEF States
<1>4. CASE ~(s.type # Crowd \/ Skipped(s, c)) /\ ~(c.count > c.max)
  <2>1. Judged(s, c, t) = [c EXCEPT !.timer = NoTime, !.active = FALSE]
    BY <1>4 DEF Judged
  <2> QED
    BY <2>1 DEF States
<1> QED
  BY <1>2, <1>3, <1>4

LEMMA PathType ==
  ASSUME NEW type \in Types, NEW t \in Nat
  PROVE  PathTo(type, t) \in Paths
BY ConstantsAssumption DEF PathTo, Paths, Second

LEMMA StartedType ==
  ASSUME NEW s \in Specs, NEW c \in States, NEW t \in Nat, NEW n \in Nat
  PROVE  Started(s, c, t, n) \in States
<1>1. PathTo(s.type, t) \in Paths
  BY PathType DEF Specs
<1>2. Min2(n, PreRoll) \in Nat
  BY ConstantsAssumption DEF Min2, PreRoll
<1> DEFINE last == IF s.type = Restricted THEN t ELSE c.last
<1>3. last \in Int
  BY DEF States
<1>4. Started(s, c, t, n) =
        [c EXCEPT !.recording = TRUE, !.saved = Min2(n, PreRoll), !.start = n,
                  !.path = PathTo(s.type, t), !.last = last]
  BY DEF Started
<1> HIDE DEF last
<1> QED
  BY <1>1, <1>2, <1>3, <1>4 DEF States

LEMMA RecordedType ==
  ASSUME NEW s \in Specs, NEW c \in States, NEW n \in Nat
  PROVE  Recorded(s, c, n) \in States
<1>1. NoPath \in Paths
  BY DEF NoPath, Paths
<1>2. Finished(c) \in States
  BY <1>1 DEF Finished, States
<1>3. [c EXCEPT !.saved = @ + 1] \in States
  BY DEF States
<1> QED
  BY <1>2, <1>3 DEF Recorded

\* What a frame leaves in the state of a rule before its recording goes on.
LEMMA EvaluatedFacts ==
  ASSUME NEW s \in Specs, NEW c \in States, NEW dets \in SUBSET Cells,
         NEW theft \in BOOLEAN, NEW t \in Nat, NEW n \in Nat,
         NEW k, k = Counted(s, c, dets),
         NEW e, e = Evaluated(s, c, t, n, dets, theft)
  PROVE  /\ e \in States
         /\ e.timer \in {c.timer, t, NoTime}
         /\ (c.active /\ c.timer # NoTime /\ e.timer = c.timer) => e.active
         /\ Triggers(s, k, t, dets, theft) =>
              /\ e.recording /\ e.start = n /\ e.path = PathTo(s.type, t)
              /\ s.type = Restricted => e.last = t
         /\ ~Triggers(s, k, t, dets, theft) =>
              /\ e.recording = c.recording /\ e.start = c.start
              /\ e.path = c.path
         /\ ~(Triggers(s, k, t, dets, theft) /\ s.type = Restricted) =>
              e.last = c.last
<1> DEFINE j == Judged(s, k, t)
<1>1. k \in States /\ \E m \in Nat : k = [c EXCEPT !.count = m]
  BY CountedType
<1>2. k.timer = c.timer /\ k.active = c.active /\ k.recording = c.recording
      /\ k.start = c.start /\ k.path = c.path /\ k.last = c.last
  BY <1>1 DEF States
<1>3. k \in States
  BY <1>1
<1>4. /\ j \in States
      /\ j.recording = k.recording /\ j.start = k.start /\ j.path = k.path
      /\ j.last = k.last
  BY <1>3, JudgedType
<1>5. j.timer \in {k.timer, t, NoTime}
  BY <1>1 DEF Judged, States
<1>6. (k.active /\ k.timer # NoTime /\ j.timer = k.timer) => j.active
  BY <1>1 DEF Judged, States
<1>7. e = IF Triggers(s, k, t, dets, theft) THEN Started(s, j, t, n) ELSE j
  BY DEF Evaluated
<1>8. Started(s, j, t, n) \in States
  BY <1>4, StartedType
<1>9. /\ Started(s, j, t, n).timer = j.timer
      /\ Started(s, j, t, n).active = j.active
      /\ Started(s, j, t, n).recording
      /\ Started(s, j, t, n).start = n
      /\ Started(s, j, t, n).path = PathTo(s.type, t)
      /\ Started(s, j, t, n).last = IF s.type = Restricted THEN t ELSE j.last
  BY <1>4 DEF Started, States
<1> HIDE DEF j
<1>10. CASE Triggers(s, k, t, dets, theft)
  BY <1>2, <1>4, <1>5, <1>6, <1>7, <1>8, <1>9, <1>10
<1>11. CASE ~Triggers(s, k, t, dets, theft)
  BY <1>2, <1>4, <1>5, <1>6, <1>7, <1>11
<1> QED
  BY <1>10, <1>11

\* An event of a crowd ends a wait of the time to lookout and begins an active
\* alert; one of a restricted area comes a cooldown after the last.
LEMMA TriggerFacts ==
  ASSUME NEW s \in Specs, NEW c \in States, NEW dets \in SUBSET Cells,
         NEW theft \in BOOLEAN, NEW t \in Nat, NEW n \in Nat,
         NEW k, k = Counted(s, c, dets),
         NEW e, e = Evaluated(s, c, t, n, dets, theft),
         Triggers(s, k, t, dets, theft)
  PROVE  /\ k.timer = c.timer
         /\ s.type = Crowd =>
              /\ c.timer # NoTime /\ ~c.active
              /\ k.lookout \in Nat
              /\ t - c.timer >= k.lookout * Rate
              /\ e.active
         /\ s.type = Restricted => t - c.last >= Cooldown * Rate
<1> DEFINE j == Judged(s, k, t)
<1>1. k \in States /\ \E m \in Nat : k = [c EXCEPT !.count = m]
  BY CountedType
<1>2. k.timer = c.timer /\ k.active = c.active /\ k.last = c.last
  BY <1>1 DEF States
<1>3. e = Started(s, j, t, n)
  BY DEF Evaluated
<1>4. j \in States
  BY <1>1, JudgedType
<1>5. e.active = j.active
  BY <1>3, <1>4 DEF Started, States
<1>6. ASSUME s.type = Crowd
      PROVE  /\ c.timer # NoTime /\ ~c.active
             /\ k.lookout \in Nat
             /\ t - c.timer >= k.lookout * Rate
             /\ e.active
  <2>1. ~Skipped(s, k) /\ Sustained(k, t)
    BY <1>6 DEF Triggers, Crowd, Restricted, Shoplifting
  <2>2. k.lookout \in Nat
    BY <1>1, <1>6, <2>1 DEF Skipped, States
  <2>3. k.count > k.max /\ k.timer # NoTime /\ ~k.active
        /\ t - k.timer >= k.lookout * Rate
    BY <2>1 DEF Sustained
  <2>4. j = [k EXCEPT !.timer = IF k.timer = NoTime THEN t ELSE k.timer,
                      !.active = k.active \/ Sustained(k, t)]
    BY <1>6, <2>1, <2>3 DEF Judged
  <2>5. j.active
    BY <1>1, <2>1, <2>4 DEF States
  <2> QED
    BY <1>2, <1>5, <2>2, <2>3, <2>5
<1>7. s.type = Restricted => t - k.last >= Cooldown * Rate
  BY DEF Triggers, Crowd, Restricted, Shoplifting
<1> QED
  BY <1>2, <1>6, <1>7

LEMMA RecordedFacts ==
  ASSUME NEW s \in Specs, NEW e \in States, NEW n \in Nat,
         NEW f, f = Recorded(s, e, n)
  PROVE  /\ f \in States
         /\ f.timer = e.timer /\ f.active = e.active /\ f.last = e.last
         /\ f.recording =>
              e.recording /\ f.start = e.start /\ f.path = e.path
<1>1. f \in States
  BY RecordedType
<1>2. f \in {e, Finished(e), [e EXCEPT !.saved = @ + 1]}
  BY DEF Recorded
<1>3. ~Finished(e).recording
  BY DEF Finished, States
<1>4. /\ Finished(e).timer = e.timer
      /\ Finished(e).active = e.active
      /\ Finished(e).last = e.last
  BY DEF Finished, States
<1>5. f = e => f.recording = e.recording
  OBVIOUS
<1>6. f = [e EXCEPT !.saved = @ + 1] =>
        /\ f.timer = e.timer /\ f.active = e.active /\ f.last = e.last
        /\ f.recording = e.recording /\ f.start = e.start /\ f.path = e.path
  BY DEF States
<1> QED
  BY <1>1, <1>2, <1>3, <1>4, <1>6

LEMMA AlertType ==
  ASSUME TypeOK, NEW r \in Rules, NEW s \in Specs, NEW c \in States,
         NEW t \in Nat, NEW n \in Nat,
         s.type = Crowd => c.timer # NoTime /\ c.lookout \in Nat
  PROVE  Alert(r, s, c, t, n) \in Alerts
<1>1. PathTo(s.type, t) \in Paths /\ s.type \in Types
  BY PathType DEF Specs
<1>2. c.timer \in Nat \cup {NoTime}
  BY DEF States
<1>3. (dbUp /\ cameraActive) \in BOOLEAN
  OBVIOUS
<1> DEFINE since == IF s.type = Crowd THEN c.timer ELSE t
           lookout == IF s.type = Crowd THEN c.lookout ELSE 0
<1>4. since \in Nat /\ lookout \in Nat
  BY <1>2
<1>5. Alert(r, s, c, t, n) =
        [rule |-> r, type |-> s.type, at |-> t, frame |-> n, since |-> since,
         lookout |-> lookout, path |-> PathTo(s.type, t),
         stored |-> dbUp /\ cameraActive]
  BY DEF Alert
<1> HIDE DEF since, lookout
<1> QED
  BY <1>1, <1>3, <1>4, <1>5 DEF Alerts

LEMMA WriterType ==
  ASSUME NEW r \in Rules, NEW c \in States, NEW n \in Nat
  PROVE  Writer(r, c, n) \in Writers
BY DEF Writer, Writers, Clips, States

-----------------------------------------------------------------------------
(* One lemma for every kind of step.                                       *)

LEMMA InitEstablishesIInv == Init => IInv
<1> SUFFICES ASSUME Init PROVE IInv
  OBVIOUS
<1>1. ASSUME NEW s \in Specs
      PROVE  NewState(s) \in States /\ NewState(s).timer = NoTime
             /\ ~NewState(s).recording
  BY <1>1, ConstantsAssumption
     DEF NewState, States, Specs, NoLimit, Unreadable, NoTime, NeverAlerted,
         NoPath, Paths
<1>2. DOMAIN table \subseteq Rules /\ table \in [DOMAIN table -> Specs]
  BY ConstantsAssumption DEF Init
<1>3. TypeOK
  BY <1>1, <1>2 DEF Init, TypeOK
<1>4. \A r \in DOMAIN specs : states[r].timer = NoTime /\ ~states[r].recording
  BY <1>1, <1>2 DEF Init
<1>5. NothingFromTheFuture
  BY <1>4 DEF Init, NothingFromTheFuture, NoTime
<1>6. RecordingsHaveAlerts /\ RecordingsAreYounger
  BY <1>4 DEF RecordingsHaveAlerts, RecordingsAreYounger
<1> QED
  BY <1>3, <1>5, <1>6
     DEF Init, IInv, Bookkeeping, CrowdsRemembered, CooldownRemembered,
         OneEventPerCrowd, RestrictedCooldown, ClipFollowsAlert

\* The parts of IInv that only the loop can disturb.
LEMMA LoopUnchanged ==
  ASSUME IInv, UNCHANGED <<loop, alerts, storage>>
  PROVE  /\ NothingFromTheFuture' /\ CrowdsRemembered' /\ CooldownRemembered'
         /\ RecordingsHaveAlerts' /\ RecordingsAreYounger'
         /\ OneEventPerCrowd' /\ RestrictedCooldown' /\ ClipFollowsAlert'
BY DEF IInv, loop, storage, NothingFromTheFuture, CrowdsRemembered,
       CooldownRemembered, RecordingsHaveAlerts, RecordingsAreYounger,
       OneEventPerCrowd, RestrictedCooldown, ClipFollowsAlert, AlertOf

LEMMA ControlKeepsIInv == IInv /\ Control => IInv'
<1> SUFFICES ASSUME IInv, Control PROVE IInv'
  OBVIOUS
<1>1. UNCHANGED <<loop, alerts, storage>>
  BY DEF Control, SaveRule, RemoveRule, RemoveCamera, DatabaseFails,
         DatabaseReturns
<1>2. TypeOK' /\ Bookkeeping'
  <2>1. ASSUME NEW r \in Rules, RemoveRule(r) PROVE TypeOK' /\ Bookkeeping'
    BY <2>1 DEF IInv, TypeOK, Bookkeeping, RemoveRule, loop, storage
  <2>2. ASSUME NEW r \in Rules, NEW s \in Offer[r], SaveRule(r, s)
        PROVE  TypeOK' /\ Bookkeeping'
    <3>1. s \in Specs
      BY ConstantsAssumption
    <3> QED
      BY <2>2, <3>1 DEF IInv, TypeOK, Bookkeeping, SaveRule, loop, storage
  <2>3. CASE RemoveCamera
    BY <2>3 DEF IInv, TypeOK, Bookkeeping, RemoveCamera, loop, storage
  <2>4. CASE DatabaseFails
    BY <2>4 DEF IInv, TypeOK, Bookkeeping, DatabaseFails, loop, storage
  <2>5. CASE DatabaseReturns
    BY <2>5 DEF IInv, TypeOK, Bookkeeping, DatabaseReturns, loop, storage
  <2> QED
    BY <2>1, <2>2, <2>3, <2>4, <2>5 DEF Control
<1> QED
  BY <1>1, <1>2, LoopUnchanged DEF IInv

LEMMA ReturnKeepsIInv ==
  ASSUME IInv, Return, UNCHANGED <<now, frame, control, alerts>>,
         writers' \subseteq writers, files' = files
  PROVE  IInv'
<1>1. DOMAIN specs' = {} /\ states' \in [DOMAIN specs' -> States]
  BY DEF Return, NoRules
<1>2. TypeOK'
  BY <1>1 DEF IInv, TypeOK, Return, NoRules, control
<1>3. Bookkeeping'
  BY <1>1 DEF IInv, Bookkeeping, Return, control
<1>4. ClipFollowsAlert'
  BY DEF IInv, ClipFollowsAlert, AlertOf
<1> QED
  BY <1>1, <1>2, <1>3, <1>4
     DEF IInv, NothingFromTheFuture, CrowdsRemembered, CooldownRemembered,
         RecordingsHaveAlerts, RecordingsAreYounger, OneEventPerCrowd,
         RestrictedCooldown

\* A reload keeps the states of the rules that stay, and no event is left of a
\* rule that is new.
LEMMA ReloadKeepsIInv == IInv /\ Reload => IInv'
<1> SUFFICES ASSUME IInv, Reload PROVE IInv'
  OBVIOUS
<1>1. CASE ~(dbUp /\ DOMAIN table # {})
  BY <1>1, ReturnKeepsIInv DEF Reload, storage
<1>2. CASE dbUp /\ DOMAIN table # {}
  <2>1. /\ specs' = table
        /\ states' = [r \in DOMAIN table |->
                        IF r \in DOMAIN states THEN Synced(table[r], states[r])
                        ELSE NewState(table[r])]
        /\ running /\ UNCHANGED <<running, person, shop, now, frame, control,
                                   alerts, storage>>
    BY <1>2 DEF Reload, SyncRuntime
  <2>2. TypeOK /\ DOMAIN states = DOMAIN specs
    BY DEF IInv, TypeOK
  <2>3. ASSUME NEW r \in DOMAIN table, r \in DOMAIN specs
        PROVE  /\ states'[r] \in States
               /\ states'[r].timer = states[r].timer
               /\ states'[r].active = states[r].active
               /\ states'[r].last = states[r].last
               /\ states'[r].recording = states[r].recording
               /\ states'[r].start = states[r].start
               /\ states'[r].path = states[r].path
    <3>1. states'[r] = Synced(table[r], states[r])
      BY <2>1, <2>2, <2>3
    <3>2. states[r] \in States /\ table[r] \in Specs
      BY <2>2, <2>3 DEF TypeOK
    <3> DEFINE lookout == IF table[r].lookout = Unreadable
                          THEN states[r].lookout ELSE table[r].lookout
    <3>3. table[r].max # Unreadable => table[r].max \in Nat \cup {NoLimit}
      BY <3>2 DEF Specs
    <3>4. lookout \in Nat \cup {NoLimit}
      BY <3>2 DEF Specs, States
    <3>5. \/ states'[r] = states[r]
          \/ /\ table[r].max # Unreadable
             /\ states'[r] =
                  [states[r] EXCEPT !.max = table[r].max, !.lookout = lookout]
      BY <3>1 DEF Synced
    <3> HIDE DEF lookout
    <3> QED
      BY <3>2, <3>3, <3>4, <3>5 DEF States
  <2>4. ASSUME NEW r \in DOMAIN table, r \notin DOMAIN specs
        PROVE  /\ states'[r] \in States
               /\ states'[r].timer = NoTime /\ ~states'[r].recording
               /\ \A a \in alerts : a.rule # r
    <3>1. states'[r] = NewState(table[r])
      BY <2>1, <2>2, <2>4
    <3>2. table[r] \in Specs
      BY <2>2 DEF TypeOK
    <3>3. NewState(table[r]) \in States
      BY <3>2, ConstantsAssumption
         DEF NewState, States, Specs, NoLimit, Unreadable, NoTime,
             NeverAlerted, NoPath, Paths
    <3>4. \A a \in alerts : a.rule # r
      BY <2>1, <2>4 DEF IInv, Bookkeeping
    <3> QED
      BY <3>1, <3>3, <3>4 DEF NewState
  <2>5. DOMAIN states' = DOMAIN table /\ states' \in [DOMAIN table -> States]
    BY <2>1, <2>3, <2>4
  <2>6. TypeOK'
    BY <2>1, <2>2, <2>5 DEF TypeOK, control, storage
  <2>7. Bookkeeping'
    BY <2>1 DEF IInv, Bookkeeping, control
  <2>8. NothingFromTheFuture'
    <3>1. \A r \in DOMAIN table : states'[r].timer <= now
      <4> SUFFICES ASSUME NEW r \in DOMAIN table
                   PROVE  states'[r].timer <= now
        OBVIOUS
      <4>1. CASE r \in DOMAIN specs
        BY <2>3, <4>1 DEF IInv, NothingFromTheFuture
      <4>2. CASE r \notin DOMAIN specs
        BY <2>2, <2>4, <4>2 DEF TypeOK, NoTime
      <4> QED
        BY <4>1, <4>2
    <3> QED
      BY <2>1, <3>1 DEF IInv, NothingFromTheFuture
  <2>9. CrowdsRemembered'
    BY <2>1, <2>3, <2>4 DEF IInv, CrowdsRemembered
  <2>10. CooldownRemembered'
    BY <2>1, <2>3, <2>4 DEF IInv, CooldownRemembered
  <2>11. RecordingsHaveAlerts' /\ RecordingsAreYounger'
    BY <2>1, <2>3, <2>4 DEF IInv, RecordingsHaveAlerts, RecordingsAreYounger,
                            storage
  <2>12. OneEventPerCrowd' /\ RestrictedCooldown' /\ ClipFollowsAlert'
    BY <2>1 DEF IInv, OneEventPerCrowd, RestrictedCooldown, ClipFollowsAlert,
                AlertOf, storage
  <2> QED
    BY <2>6, <2>7, <2>8, <2>9, <2>10, <2>11, <2>12 DEF IInv
<1> QED
  BY <1>1, <1>2

LEMMA WritingKeepsIInv == IInv /\ Writing => IInv'
<1> SUFFICES ASSUME IInv, NEW w \in writers,
                    OpenClip(w) \/ CloseClip(w) \/ FailClip(w)
             PROVE  IInv'
  BY DEF Writing
<1>1. UNCHANGED <<control, loop, alerts>>
  BY DEF OpenClip, CloseClip, FailClip
<1>2. w \in Writers /\ AlertOf(w.path, w.clip)
  BY DEF IInv, TypeOK, ClipFollowsAlert
<1>3. TypeOK' /\ ClipFollowsAlert' /\ RecordingsAreYounger'
  <2>1. CASE OpenClip(w)
    <3> DEFINE v == [w EXCEPT !.open = TRUE]
    <3>1. v \in Writers /\ v.path = w.path /\ v.clip = w.clip
      BY <1>2 DEF Writers
    <3>2. writers' = (writers \ {w}) \cup {v} /\ files' \subseteq files
      BY <2>1 DEF OpenClip
    <3> HIDE DEF v
    <3> QED
      BY <1>1, <1>2, <3>1, <3>2
         DEF IInv, TypeOK, ClipFollowsAlert, AlertOf, RecordingsAreYounger,
             control, loop
  <2>2. CASE CloseClip(w)
    <3>1. writers' \subseteq writers /\ files' = files \cup {<<w.path, w.clip>>}
      BY <2>2 DEF CloseClip
    <3>2. w.path \in Paths /\ w.clip \in Clips
      BY <1>2 DEF Writers
    <3> QED
      BY <1>1, <1>2, <3>1, <3>2
         DEF IInv, TypeOK, ClipFollowsAlert, AlertOf, RecordingsAreYounger,
             control, loop
  <2>3. CASE FailClip(w)
    <3> DEFINE b == Broken(w.clip)
    <3>1. /\ writers' \subseteq writers
          /\ files' \subseteq files \cup {<<w.path, b>>}
      BY <2>3 DEF FailClip
    <3>2. w.path \in Paths /\ w.clip \in Clips
      BY <1>2 DEF Writers
    <3>3. b \in Clips /\ b.rule = w.clip.rule /\ b.start = w.clip.start
      BY <3>2 DEF Broken, Clips
    <3> HIDE DEF b
    <3> QED
      BY <1>1, <1>2, <3>1, <3>2, <3>3
         DEF IInv, TypeOK, ClipFollowsAlert, AlertOf, RecordingsAreYounger,
             control, loop
  <2> QED
    BY <2>1, <2>2, <2>3
<1> QED
  BY <1>1, <1>3
     DEF IInv, Bookkeeping, NothingFromTheFuture, CrowdsRemembered,
         CooldownRemembered, RecordingsHaveAlerts,
         OneEventPerCrowd, RestrictedCooldown, control, loop

\* What ClipFollowsAlert says of a clip, whatever its path.
AlertOfClip(clip) ==
  \E a \in alerts : a.rule = clip.rule /\ a.frame = clip.start

LEMMA FrameKeepsIInv ==
  ASSUME IInv, NEW d \in Delays, NEW dets \in SUBSET Cells,
         NEW theft \in BOOLEAN, ReadFrame(d, dets, theft)
  PROVE  IInv'
<1> DEFINE K(r) == Counted(specs[r], states[r], dets)
           T(r) == Triggers(specs[r], K(r), now', dets, theft)
           E(r) == Evaluated(specs[r], states[r], now', frame', dets, theft)
           F(r) == Recorded(specs[r], E(r), frame')
           A(r) == Alert(r, specs[r], K(r), now', frame')
           Ends(r) == RecordingEnds(specs[r], E(r), frame')
           W(r) == Writer(r, E(r), frame')
<1>1. /\ states' = [r \in DOMAIN specs |-> F(r)]
      /\ alerts' = alerts \cup {A(r) : r \in {q \in DOMAIN specs : T(q)}}
      /\ writers' = writers \cup {W(r) : r \in {q \in DOMAIN specs : Ends(q)}}
      /\ running /\ UNCHANGED <<running, specs, control, files>>
      /\ person' = dets /\ shop' = theft
      /\ now' = now + d /\ frame' = frame + 1
  BY DEF ReadFrame
<1>2. TypeOK /\ DOMAIN states = DOMAIN specs /\ DOMAIN specs \subseteq Rules
  BY DEF IInv, TypeOK
<1>3. /\ now \in Nat /\ now' \in Nat /\ now < now'
      /\ frame \in Nat /\ frame' \in Nat /\ frame < frame'
  BY <1>1, <1>2, ConstantsAssumption DEF TypeOK
<1>4. \A r \in DOMAIN specs : specs[r] \in Specs /\ states[r] \in States
  BY <1>2 DEF TypeOK
<1>5. ASSUME NEW r \in DOMAIN specs
      PROVE  /\ K(r) \in States /\ E(r) \in States /\ F(r) \in States
             /\ F(r).timer \in {states[r].timer, now', NoTime}
             /\ (states[r].active /\ states[r].timer # NoTime
                   /\ F(r).timer = states[r].timer) => F(r).active
             /\ ~(T(r) /\ specs[r].type = Restricted) =>
                  F(r).last = states[r].last
             /\ (T(r) /\ specs[r].type = Restricted) => F(r).last = now'
             /\ T(r) => E(r).recording /\ E(r).start = frame'
                        /\ E(r).path = PathTo(specs[r].type, now')
             /\ ~T(r) => /\ E(r).recording = states[r].recording
                         /\ E(r).start = states[r].start
                         /\ E(r).path = states[r].path
             /\ F(r).recording => E(r).recording /\ F(r).start = E(r).start
                                 /\ F(r).path = E(r).path
  <2>1. specs[r] \in Specs /\ states[r] \in States
    BY <1>4
  <2>2. K(r) \in States
    BY <2>1, CountedType
  <2>3. /\ E(r) \in States
        /\ E(r).timer \in {states[r].timer, now', NoTime}
        /\ (states[r].active /\ states[r].timer # NoTime
             /\ E(r).timer = states[r].timer) => E(r).active
    BY <1>3, <2>1, <2>2, EvaluatedFacts
  <2>4. T(r) =>
          /\ E(r).recording /\ E(r).start = frame'
          /\ E(r).path = PathTo(specs[r].type, now')
          /\ specs[r].type = Restricted => E(r).last = now'
    BY <1>3, <2>1, EvaluatedFacts
  <2>5. ~T(r) =>
          /\ E(r).recording = states[r].recording
          /\ E(r).start = states[r].start /\ E(r).path = states[r].path
    BY <1>3, <2>1, EvaluatedFacts
  <2>6. ~(T(r) /\ specs[r].type = Restricted) => E(r).last = states[r].last
    BY <1>3, <2>1, EvaluatedFacts
  <2>7. /\ F(r) \in States
        /\ F(r).timer = E(r).timer /\ F(r).active = E(r).active
        /\ F(r).last = E(r).last
        /\ F(r).recording => E(r).recording /\ F(r).start = E(r).start
                            /\ F(r).path = E(r).path
    BY <1>3, <2>1, <2>3, RecordedFacts
  <2> HIDE DEF K, T, E, F
  <2> QED
    BY <2>2, <2>3, <2>4, <2>5, <2>6, <2>7
<1>6. ASSUME NEW r \in DOMAIN specs, T(r)
      PROVE  /\ K(r).timer = states[r].timer
             /\ specs[r].type = Crowd =>
                  /\ states[r].timer # NoTime /\ ~states[r].active
                  /\ K(r).lookout \in Nat
                  /\ now' - states[r].timer >= K(r).lookout * Rate
                  /\ E(r).active
             /\ specs[r].type = Restricted =>
                  now' - states[r].last >= Cooldown * Rate
  BY <1>3, <1>4, <1>6, TriggerFacts
<1>7. ASSUME NEW r \in DOMAIN specs
      PROVE  F(r).active = E(r).active
  BY <1>3, <1>4, <1>5, RecordedFacts
<1>8. ASSUME NEW r \in DOMAIN specs
      PROVE  /\ A(r).rule = r /\ A(r).type = specs[r].type /\ A(r).at = now'
             /\ A(r).frame = frame' /\ A(r).path = PathTo(specs[r].type, now')
             /\ A(r).since = IF specs[r].type = Crowd THEN K(r).timer ELSE now'
             /\ A(r).lookout = IF specs[r].type = Crowd THEN K(r).lookout ELSE 0
             /\ W(r).path = E(r).path /\ W(r).clip.rule = r
             /\ W(r).clip.start = E(r).start
  BY DEF Alert, Writer
<1>9. ASSUME NEW r \in DOMAIN specs, T(r)
      PROVE  A(r) \in Alerts
  <2>1. r \in Rules /\ specs[r] \in Specs /\ K(r) \in States
    BY <1>2, <1>4, <1>5
  <2>2. specs[r].type = Crowd => K(r).timer # NoTime /\ K(r).lookout \in Nat
    BY <1>6, <1>9
  <2> HIDE DEF K
  <2> QED
    BY <1>2, <1>3, <2>1, <2>2, AlertType
<1>10. ASSUME NEW r \in DOMAIN specs
       PROVE  W(r) \in Writers
  BY <1>2, <1>3, <1>5, WriterType
<1>11. ASSUME NEW r \in DOMAIN specs, Ends(r)
       PROVE  E(r).recording
  BY <1>11 DEF RecordingEnds
<1>ended. ASSUME NEW r \in DOMAIN specs, Ends(r)
       PROVE  ~F(r).recording
  <2>1. ~Finished(E(r)).recording
    BY <1>5 DEF Finished, States
  <2>2. F(r) = Finished(E(r))
    BY <1>ended DEF Recorded, RecordingEnds
  <2> QED
    BY <2>1, <2>2
<1> HIDE DEF K, T, E, F, A, Ends, W
<1>12. /\ alerts \subseteq alerts'
       /\ \A r \in DOMAIN specs : T(r) => A(r) \in alerts'
       /\ \A a \in alerts' :
            a \in alerts \/ \E r \in DOMAIN specs : T(r) /\ a = A(r)
  BY <1>1
<1>13. \A r \in DOMAIN specs : states'[r] = F(r)
  BY <1>1
<1>14. DOMAIN specs' = DOMAIN specs /\ DOMAIN states' = DOMAIN specs
  BY <1>1
<1>15. TypeOK'
  <2>1. states' \in [DOMAIN specs' -> States]
    BY <1>1, <1>5, <1>14
  <2>2. alerts' \subseteq Alerts
    BY <1>2, <1>9, <1>12 DEF TypeOK
  <2>3. writers' \subseteq Writers
    BY <1>1, <1>2, <1>10 DEF TypeOK
  <2> QED
    BY <1>1, <1>2, <1>3, <2>1, <2>2, <2>3 DEF TypeOK, control
<1>16. Bookkeeping'
  <2>1. \A a \in alerts' : a.rule \in DOMAIN specs \cup gone
    BY <1>1, <1>8, <1>12 DEF IInv, Bookkeeping
  <2> QED
    BY <1>1, <2>1 DEF IInv, Bookkeeping, control
<1>17. \A a \in alerts : /\ a.at \in Nat /\ a.since \in Nat /\ a.since <= now
                         /\ a.frame \in Nat /\ a.frame <= frame
  BY <1>2 DEF IInv, TypeOK, NothingFromTheFuture, Alerts
<1>18. \A r \in DOMAIN specs : states[r].timer <= now /\ states[r].last \in Int
                                /\ states[r].timer \in Nat \cup {NoTime}
  BY <1>4 DEF IInv, NothingFromTheFuture, States
<1>19. NothingFromTheFuture'
  <2>1. \A a \in alerts' : a.since <= now' /\ a.frame <= frame'
    <3> SUFFICES ASSUME NEW a \in alerts'
                 PROVE  a.since <= now' /\ a.frame <= frame'
      OBVIOUS
    <3>1. CASE a \in alerts
      BY <1>3, <1>17, <3>1
    <3>2. ASSUME NEW r \in DOMAIN specs, T(r), a = A(r)
          PROVE  a.since <= now' /\ a.frame <= frame'
      BY <1>3, <1>6, <1>8, <1>18, <3>2 DEF NoTime
    <3> QED
      BY <1>12, <3>1, <3>2
  <2>2. \A r \in DOMAIN specs : F(r).timer <= now'
    BY <1>3, <1>5, <1>18 DEF NoTime
  <2> QED
    BY <1>13, <1>14, <2>1, <2>2 DEF NothingFromTheFuture
<1>20. CrowdsRemembered'
  <2> SUFFICES ASSUME NEW r \in DOMAIN specs, NEW a \in alerts',
                      a.rule = r, a.type = Crowd, a.since = F(r).timer
               PROVE  F(r).active
    BY <1>13, <1>14 DEF CrowdsRemembered
  <2>1. CASE a \in alerts
    <3>1. a.since \in Nat /\ a.since < now'
      BY <1>3, <1>17, <2>1
    <3>2. F(r).timer = states[r].timer /\ states[r].timer # NoTime
      BY <1>5, <3>1 DEF NoTime
    <3>3. states[r].active
      BY <2>1, <3>2 DEF IInv, CrowdsRemembered
    <3> QED
      BY <1>5, <3>2, <3>3
  <2>2. ASSUME NEW q \in DOMAIN specs, T(q), a = A(q)
        PROVE  F(r).active
    <3>1. q = r /\ specs[r].type = Crowd
      BY <1>8, <2>2
    <3> QED
      BY <1>6, <1>7, <2>2, <3>1
  <2> QED
    BY <1>12, <2>1, <2>2
<1>21. CooldownRemembered'
  <2> SUFFICES ASSUME NEW r \in DOMAIN specs, NEW a \in alerts',
                      a.rule = r, a.type = Restricted
               PROVE  a.at <= F(r).last
    BY <1>13, <1>14 DEF CooldownRemembered
  <2>1. CASE a \in alerts
    <3>1. a.at \in Nat /\ a.at <= states[r].last
      BY <1>17, <2>1 DEF IInv, CooldownRemembered
    <3>2. CASE T(r) /\ specs[r].type = Restricted
      <4>1. now' - states[r].last >= Cooldown * Rate /\ F(r).last = now'
        BY <1>5, <1>6, <3>2
      <4>2. Cooldown * Rate \in Nat
        BY ConstantsAssumption
      <4> QED
        BY <1>3, <1>18, <3>1, <4>1, <4>2
    <3>3. CASE ~(T(r) /\ specs[r].type = Restricted)
      BY <1>5, <3>1, <3>3
    <3> QED
      BY <3>2, <3>3
  <2>2. ASSUME NEW q \in DOMAIN specs, T(q), a = A(q)
        PROVE  a.at <= F(r).last
    <3>1. q = r /\ specs[r].type = Restricted /\ a.at = now'
      BY <1>8, <2>2
    <3> QED
      BY <1>3, <1>5, <2>2, <3>1
  <2> QED
    BY <1>12, <2>1, <2>2
<1>22. ASSUME NEW r \in DOMAIN specs, E(r).recording
       PROVE  \E a \in alerts' : a.path = E(r).path /\ a.rule = r
                                /\ a.frame = E(r).start
  <2>1. CASE T(r)
    BY <1>5, <1>8, <1>12, <2>1
  <2>2. CASE ~T(r)
    BY <1>5, <1>12, <1>22, <2>2 DEF IInv, RecordingsHaveAlerts
  <2> QED
    BY <2>1, <2>2
<1>23. RecordingsHaveAlerts'
  BY <1>5, <1>13, <1>14, <1>22 DEF RecordingsHaveAlerts
<1>younger. RecordingsAreYounger'
  <2>1. ASSUME NEW r \in DOMAIN specs, F(r).recording, NEW clip,
               AlertOfClip(clip), clip.rule = r,
               states[r].recording => clip.start < states[r].start
        PROVE  clip.start < F(r).start
    <3>1. clip.start \in Nat /\ clip.start <= frame
      BY <1>17, <2>1 DEF AlertOfClip
    <3>2. CASE T(r)
      BY <1>3, <1>5, <2>1, <3>1, <3>2
    <3>3. CASE ~T(r)
      BY <1>5, <2>1, <3>3
    <3> QED
      BY <3>2, <3>3
  <2>2. \A w \in writers : AlertOfClip(w.clip)
    BY DEF IInv, ClipFollowsAlert, AlertOf, AlertOfClip
  <2>3. \A f \in files : AlertOfClip(f[2])
    BY DEF IInv, ClipFollowsAlert, AlertOf, AlertOfClip
  <2>4. ASSUME NEW r \in DOMAIN specs, F(r).recording, NEW w \in writers',
               w.clip.rule = r
        PROVE  w.clip.start < F(r).start
    <3>1. CASE w \in writers
      BY <2>1, <2>2, <2>4, <3>1 DEF IInv, RecordingsAreYounger
    <3>2. ASSUME NEW q \in DOMAIN specs, Ends(q), w = W(q)
          PROVE  FALSE
      BY <1>8, <1>ended, <2>4, <3>2
    <3> QED
      BY <1>1, <3>1, <3>2
  <2>5. ASSUME NEW r \in DOMAIN specs, F(r).recording, NEW f \in files,
               f[2].rule = r
        PROVE  f[2].start < F(r).start
    BY <2>1, <2>3, <2>5 DEF IInv, RecordingsAreYounger
  <2> QED
    BY <1>1, <1>13, <1>14, <2>4, <2>5 DEF RecordingsAreYounger
<1>24. ClipFollowsAlert'
  <2>1. ASSUME NEW w \in writers' PROVE AlertOf(w.path, w.clip)'
    <3>1. CASE w \in writers
      BY <1>12, <3>1 DEF IInv, ClipFollowsAlert, AlertOf
    <3>2. ASSUME NEW r \in DOMAIN specs, Ends(r), w = W(r)
          PROVE  AlertOf(w.path, w.clip)'
      BY <1>8, <1>11, <1>22, <3>2 DEF AlertOf
    <3> QED
      BY <1>1, <3>1, <3>2
  <2>2. ASSUME NEW f \in files PROVE AlertOf(f[1], f[2])'
    BY <1>12 DEF IInv, ClipFollowsAlert, AlertOf
  <2> QED
    BY <1>1, <2>1, <2>2 DEF ClipFollowsAlert
<1>25. OneEventPerCrowd'
  <2>1. ASSUME NEW a \in alerts', a.type = Crowd
        PROVE  a.at - a.since >= a.lookout * Rate
    <3>1. CASE a \in alerts
      BY <2>1, <3>1 DEF IInv, OneEventPerCrowd
    <3>2. ASSUME NEW r \in DOMAIN specs, T(r), a = A(r)
          PROVE  a.at - a.since >= a.lookout * Rate
      BY <1>6, <1>8, <2>1, <3>2
    <3> QED
      BY <1>12, <3>1, <3>2
  <2>2. ASSUME NEW a \in alerts, NEW r \in DOMAIN specs, T(r),
               a.type = Crowd, specs[r].type = Crowd, a.rule = r
        PROVE  a.since # A(r).since
    <3>1. A(r).since = states[r].timer /\ ~states[r].active
      BY <1>6, <1>8, <2>2
    <3> QED
      BY <2>2, <3>1 DEF IInv, CrowdsRemembered
  <2>3. ASSUME NEW a \in alerts', NEW b \in alerts', a.type = Crowd,
               b.type = Crowd, a.rule = b.rule, a.since = b.since
        PROVE  a = b
    <3>1. CASE a \in alerts /\ b \in alerts
      BY <2>3, <3>1 DEF IInv, OneEventPerCrowd
    <3>2. ASSUME NEW r \in DOMAIN specs, T(r), a = A(r) PROVE a = b
      BY <1>8, <1>12, <2>2, <2>3, <3>2
    <3>3. ASSUME NEW r \in DOMAIN specs, T(r), b = A(r) PROVE a = b
      BY <1>8, <1>12, <2>2, <2>3, <3>3
    <3> QED
      BY <1>12, <3>1, <3>2, <3>3
  <2> QED
    BY <2>1, <2>3 DEF OneEventPerCrowd
<1>26. RestrictedCooldown'
  <2>1. ASSUME NEW a \in alerts, NEW r \in DOMAIN specs, T(r),
               a.type = Restricted, specs[r].type = Restricted, a.rule = r
        PROVE  A(r).at - a.at >= Cooldown * Rate
    <3>1. A(r).at = now' /\ now' - states[r].last >= Cooldown * Rate
      BY <1>6, <1>8, <2>1
    <3>2. a.at \in Nat /\ a.at <= states[r].last /\ states[r].last \in Int
      BY <1>17, <1>18, <2>1 DEF IInv, CooldownRemembered
    <3>3. Cooldown * Rate \in Nat
      BY ConstantsAssumption
    <3> QED
      BY <1>3, <3>1, <3>2, <3>3
  <2>2. ASSUME NEW a \in alerts', NEW b \in alerts', a.type = Restricted,
               b.type = Restricted, a.rule = b.rule, a # b
        PROVE  a.at - b.at >= Cooldown * Rate \/ b.at - a.at >= Cooldown * Rate
    <3>1. CASE a \in alerts /\ b \in alerts
      BY <2>2, <3>1 DEF IInv, RestrictedCooldown
    <3>2. ASSUME NEW r \in DOMAIN specs, T(r), a = A(r)
          PROVE  a.at - b.at >= Cooldown * Rate
      BY <1>8, <1>12, <2>1, <2>2, <3>2
    <3>3. ASSUME NEW r \in DOMAIN specs, T(r), b = A(r)
          PROVE  b.at - a.at >= Cooldown * Rate
      BY <1>8, <1>12, <2>1, <2>2, <3>3
    <3> QED
      BY <1>12, <3>1, <3>2, <3>3
  <2> QED
    BY <2>2 DEF RestrictedCooldown
<1> QED
  BY <1>15, <1>16, <1>19, <1>20, <1>21, <1>23, <1>24, <1>25, <1>26, <1>younger
  DEF IInv

-----------------------------------------------------------------------------

LEMMA StepKeepsIInv == IInv /\ [Next]_vars => IInv'
<1> SUFFICES ASSUME IInv, [Next]_vars PROVE IInv'
  OBVIOUS
<1>1. CASE Control
  BY <1>1, ControlKeepsIInv
<1>2. CASE Loop
  <2>1. CASE Reload
    BY <2>1, ReloadKeepsIInv
  <2>2. CASE Stop
    BY <2>2, ReturnKeepsIInv DEF Stop, storage
  <2>3. ASSUME NEW d \in Delays, Frame(d) PROVE IInv'
    <3>1. person \in SUBSET Cells /\ shop \in BOOLEAN
      BY DEF IInv, TypeOK
    <3>2. PICK dets \in SUBSET Cells, theft \in BOOLEAN : ReadFrame(d, dets, theft)
      BY <2>3, <3>1 DEF Frame
    <3> QED
      BY <3>2, FrameKeepsIInv
  <2> QED
    BY <1>2, <2>1, <2>2, <2>3 DEF Loop
<1>3. CASE Writing
  BY <1>3, WritingKeepsIInv
<1>4. CASE WorkerDies
  BY <1>4, ReturnKeepsIInv DEF WorkerDies
<1>5. CASE UNCHANGED vars
  <2>1. UNCHANGED <<loop, alerts, storage>> /\ UNCHANGED control
    BY <1>5 DEF vars
  <2>2. TypeOK' /\ Bookkeeping'
    BY <2>1 DEF IInv, TypeOK, Bookkeeping, loop, storage, control
  <2> QED
    BY <2>1, <2>2, LoopUnchanged DEF IInv
<1> QED
  BY <1>1, <1>2, <1>3, <1>4, <1>5 DEF Next

\* What the runtime states remember of the events (IInv) is always true.
THEOREM DetectionInvariant == Spec => []IInv
<1>1. Init => IInv
  BY InitEstablishesIInv
<1>2. IInv /\ [Next]_vars => IInv'
  BY StepKeepsIInv
<1> QED
  BY <1>1, <1>2, PTL DEF Spec

\* Every variable keeps its type, and the loop has a runtime state for every
\* rule it evaluates.
THEOREM DetectionTypes == Spec => []TypeOK
<1>1. IInv => TypeOK
  BY DEF IInv
<1> QED
  BY <1>1, DetectionInvariant, PTL

\* However the rules change and whatever fails, a crowd raises one event, and
\* not before it has lasted the time to lookout.
THEOREM DetectionOneEventPerCrowd == Spec => []OneEventPerCrowd
<1>1. IInv => OneEventPerCrowd
  BY DEF IInv
<1> QED
  BY <1>1, DetectionInvariant, PTL

\* However the rules change and whatever fails, two events of a restricted area
\* are a cooldown apart.
THEOREM DetectionCooldown == Spec => []RestrictedCooldown
<1>1. IInv => RestrictedCooldown
  BY DEF IInv
<1> QED
  BY <1>1, DetectionInvariant, PTL

\* However late a clip is written, it goes to the path named by the event it
\* was recorded for.
THEOREM DetectionClipFollowsAlert == Spec => []ClipFollowsAlert
<1>1. IInv => ClipFollowsAlert
  BY DEF IInv
<1> QED
  BY <1>1, DetectionInvariant, PTL

-----------------------------------------------------------------------------
(* Every event has its own, complete clip, unless that is cut or another   *)
(* event names the same path.                                              *)

\* Evaluating a frame leaves the limits alone, and saves the preroll with an
\* event.
LEMMA EvaluatedLimits ==
  ASSUME NEW s \in Specs, NEW c \in States, NEW dets \in SUBSET Cells,
         NEW theft \in BOOLEAN, NEW t \in Nat, NEW n \in Nat
  PROVE  /\ Evaluated(s, c, t, n, dets, theft).max = c.max
         /\ Evaluated(s, c, t, n, dets, theft).lookout = c.lookout
<1> DEFINE k == Counted(s, c, dets)
           j == Judged(s, k, t)
           e == Evaluated(s, c, t, n, dets, theft)
<1>1. k \in States /\ k.max = c.max /\ k.lookout = c.lookout
  BY CountedType DEF States
<1>2. j \in States /\ j.max = k.max /\ j.lookout = k.lookout
  <2>1. j \in States
    BY <1>1, JudgedType
  <2> QED
    BY <1>1, <2>1 DEF Judged, States
<1>3. Started(s, j, t, n).max = j.max /\ Started(s, j, t, n).lookout = j.lookout
  BY <1>2 DEF Started, States
<1>4. e \in {j, Started(s, j, t, n)}
  BY DEF Evaluated
<1> HIDE DEF k, j, e
<1>5. e.max = c.max /\ e.lookout = c.lookout
  BY <1>1, <1>2, <1>3, <1>4
<1> QED
  BY <1>5 DEF e

LEMMA EvaluatedSaves ==
  ASSUME NEW s \in Specs, NEW c \in States, NEW dets \in SUBSET Cells,
         NEW theft \in BOOLEAN, NEW t \in Nat, NEW n \in Nat,
         NEW k, k = Counted(s, c, dets),
         NEW e, e = Evaluated(s, c, t, n, dets, theft)
  PROVE  /\ Triggers(s, k, t, dets, theft) =>
              ~c.recording /\ e.saved = Min2(n, PreRoll)
         /\ ~Triggers(s, k, t, dets, theft) => e.saved = c.saved
<1> DEFINE j == Judged(s, k, t)
<1>1. k \in States /\ k.recording = c.recording /\ k.saved = c.saved
  BY CountedType DEF States
<1>2. j \in States /\ j.saved = k.saved
  <2>1. j \in States
    BY <1>1, JudgedType
  <2> QED
    BY <1>1, <2>1 DEF Judged, States
<1>3. Started(s, j, t, n).saved = Min2(n, PreRoll)
  BY <1>2 DEF Started, States
<1>4. e = IF Triggers(s, k, t, dets, theft) THEN Started(s, j, t, n) ELSE j
  BY DEF Evaluated
<1>5. Triggers(s, k, t, dets, theft) => ~k.recording
  BY DEF Triggers
<1> HIDE DEF j
<1> QED
  BY <1>1, <1>2, <1>3, <1>4, <1>5

\* A recording that is not skipped ends after its postroll, and saves every
\* frame until then.
LEMMA RecordedSaves ==
  ASSUME NEW s \in Specs, NEW e \in States, NEW n \in Nat, ~Skipped(s, e),
         NEW f, f = Recorded(s, e, n)
  PROVE  /\ f.max = e.max /\ f.lookout = e.lookout
         /\ RecordingEnds(s, e, n) <=> e.recording /\ n - e.start >= PostRoll
         /\ f.recording <=> e.recording /\ ~RecordingEnds(s, e, n)
         /\ f.recording =>
              f.start = e.start /\ f.path = e.path /\ f.saved = e.saved + 1
<1>1. f = IF ~e.recording THEN e
          ELSE IF RecordingEnds(s, e, n) THEN Finished(e)
          ELSE [e EXCEPT !.saved = e.saved + 1]
  BY DEF Recorded
<1>2. ~Finished(e).recording /\ Finished(e).max = e.max
      /\ Finished(e).lookout = e.lookout
  BY DEF Finished, States
<1>3. RecordingEnds(s, e, n) <=> e.recording /\ n - e.start >= PostRoll
  BY DEF RecordingEnds
<1>4. CASE ~e.recording
  BY <1>1, <1>3, <1>4
<1>5. CASE e.recording /\ RecordingEnds(s, e, n)
  BY <1>1, <1>2, <1>3, <1>5
<1>6. CASE e.recording /\ ~RecordingEnds(s, e, n)
  BY <1>1, <1>3, <1>6 DEF States
<1> QED
  BY <1>4, <1>5, <1>6

\* What ClipUnlessShared says of a step.
ClipStep(a) ==
  (a \in alerts => HasItsClip(a)) =>
    HasItsClip(a)' \/ Cut(a) \/ SharesPath(a)'

\* A clip that is recorded stays so while the rule's state and the writers stay
\* as they are; and one that is written or filed, while the storage does.
LEMMA RecordingStays ==
  ASSUME NEW a, Recording(a), a.rule \in DOMAIN states', frame' = frame,
         states'[a.rule].recording = states[a.rule].recording,
         states'[a.rule].start = states[a.rule].start,
         states'[a.rule].path = states[a.rule].path,
         states'[a.rule].saved = states[a.rule].saved,
         \A w \in writers' : w.path # a.path
  PROVE  Recording(a)'
BY DEF Recording, PostRoll, PreRoll, Min2

LEMMA StoredStays ==
  ASSUME NEW a, UNCHANGED storage
  PROVE  /\ BeingWritten(a) => BeingWritten(a)'
         /\ Filed(a) => Filed(a)'
BY DEF BeingWritten, Filed, storage, ClipOf, PostRoll, PreRoll, Min2

LEMMA QuietKeepsClip ==
  ASSUME NEW a, HasItsClip(a), UNCHANGED <<loop, storage>>
  PROVE  HasItsClip(a)'
<1>1. CASE Recording(a)
  BY <1>1, RecordingStays DEF Recording, HasItsClip, loop, storage
<1>2. CASE BeingWritten(a) \/ Filed(a)
  BY <1>2, StoredStays DEF HasItsClip
<1> QED
  BY <1>1, <1>2 DEF HasItsClip

\* A reload keeps a recording if it keeps the rule.
LEMMA ReloadKeepsClip ==
  ASSUME IInv, Reload, NEW a \in alerts, HasItsClip(a)
  PROVE  HasItsClip(a)' \/ Cut(a)
<1>1. UNCHANGED storage /\ frame' = frame
  BY DEF Reload
<1>2. CASE Recording(a)
  <2>1. CASE ~(dbUp /\ DOMAIN table # {})
    BY <1>2, <2>1 DEF Reload, Return, Cut
  <2>2. CASE dbUp /\ DOMAIN table # {}
    <3>1. /\ states' = [r \in DOMAIN table |->
                          IF r \in DOMAIN states THEN Synced(table[r], states[r])
                          ELSE NewState(table[r])]
      BY <2>2 DEF Reload, SyncRuntime
    <3>2. CASE a.rule \notin DOMAIN table
      BY <1>2, <3>1, <3>2 DEF Cut
    <3>3. CASE a.rule \in DOMAIN table
      <4> DEFINE r == a.rule
      <4>1. r \in DOMAIN states /\ states[r] \in States
        BY <1>2 DEF IInv, TypeOK, Recording
      <4>2. states'[r] = Synced(table[r], states[r])
        BY <3>1, <3>3, <4>1
      <4>3. /\ states'[r].recording = states[r].recording
            /\ states'[r].start = states[r].start
            /\ states'[r].path = states[r].path
            /\ states'[r].saved = states[r].saved
        BY <4>1, <4>2 DEF Synced, States
      <4>4. r \in DOMAIN states' /\ \A w \in writers' : w.path # a.path
        BY <1>1, <1>2, <3>1, <3>3 DEF Recording, storage
      <4> QED
        BY <1>1, <1>2, <4>3, <4>4, RecordingStays DEF HasItsClip
    <3> QED
      BY <3>2, <3>3
  <2> QED
    BY <2>1, <2>2
<1>3. CASE BeingWritten(a) \/ Filed(a)
  BY <1>1, <1>3, StoredStays DEF HasItsClip
<1> QED
  BY <1>2, <1>3 DEF HasItsClip

\* The end of the loop cuts recordings; that of the worker also what is written.
LEMMA EndKeepsClip ==
  ASSUME Stop \/ WorkerDies, NEW a \in alerts, HasItsClip(a)
  PROVE  HasItsClip(a)' \/ Cut(a)
<1>1. CASE Recording(a)
  BY <1>1 DEF Stop, WorkerDies, Return, Cut
<1>2. CASE BeingWritten(a) /\ WorkerDies
  BY <1>2 DEF Cut
<1>3. CASE Stop /\ (BeingWritten(a) \/ Filed(a))
  BY <1>3, StoredStays DEF Stop, HasItsClip
<1>4. CASE Filed(a) /\ WorkerDies
  BY <1>4 DEF Filed, WorkerDies, HasItsClip, ClipOf, PostRoll, PreRoll, Min2
<1> QED
  BY <1>1, <1>2, <1>3, <1>4 DEF HasItsClip

\* The only thread with the path of an event empties the file and writes the
\* clip; the others write elsewhere.
LEMMA WritingKeepsClip ==
  ASSUME IInv, Writing, NEW a \in alerts, HasItsClip(a)
  PROVE  HasItsClip(a)' \/ Cut(a)
<1>1. PICK v \in writers : OpenClip(v) \/ CloseClip(v) \/ FailClip(v)
  BY DEF Writing
<1>2. UNCHANGED loop
  BY <1>1 DEF OpenClip, CloseClip, FailClip
<1>3. v \in Writers /\ ClipOf(a)' = ClipOf(a)
  BY DEF IInv, TypeOK, ClipOf, PostRoll, PreRoll, Min2
<1> DEFINE o == [v EXCEPT !.open = TRUE]
<1>4. o.path = v.path /\ o.clip = v.clip /\ o.open
  BY <1>3 DEF Writers
<1>5. /\ writers' = (writers \ {v}) \cup {o} \/ writers' = writers \ {v}
      /\ \A f \in files : f \in files' \/ f[1] = v.path
      /\ \A f \in files' : f \in files \/ f[1] = v.path
  BY <1>1 DEF OpenClip, CloseClip, FailClip
<1>6. CASE v.path # a.path
  <2>1. /\ {w \in writers' : w.path = a.path} = {w \in writers : w.path = a.path}
        /\ {f \in files' : f[1] = a.path} = {f \in files : f[1] = a.path}
    BY <1>4, <1>5, <1>6
  <2>2. CASE Recording(a)
    BY <1>2, <2>1, <2>2, RecordingStays DEF Recording, HasItsClip, loop
  <2>3. CASE BeingWritten(a)
    <3>1. PICK w \in writers : /\ w.clip = ClipOf(a)
                               /\ {u \in writers : u.path = a.path} = {w}
                               /\ w.open => \A f \in files : f[1] # a.path
      BY <2>3 DEF BeingWritten
    <3>2. {u \in writers' : u.path = a.path} = {w}
      BY <2>1, <3>1
    <3>3. w \in writers'
      BY <3>2
    <3>4. w.open => \A f \in files' : f[1] # a.path
      BY <1>5, <1>6, <3>1
    <3>5. BeingWritten(a)'
      BY <1>3, <3>1, <3>2, <3>3, <3>4 DEF BeingWritten
    <3> QED
      BY <3>5 DEF HasItsClip
  <2>4. CASE Filed(a)
    <3>1. \A w \in writers' : w.path # a.path
      BY <1>4, <1>5, <1>6, <2>4 DEF Filed
    <3>2. Filed(a)'
      BY <1>3, <2>1, <2>4, <3>1 DEF Filed
    <3> QED
      BY <3>2 DEF HasItsClip
  <2> QED
    BY <2>2, <2>3, <2>4 DEF HasItsClip
<1>7. CASE v.path = a.path
  <2>1. BeingWritten(a)
    BY <1>7 DEF HasItsClip, Recording, Filed
  <2>2. v.clip = ClipOf(a) /\ {u \in writers : u.path = a.path} = {v}
        /\ (v.open => \A f \in files : f[1] # a.path)
    BY <1>7, <2>1 DEF BeingWritten
  <2>3. CASE FailClip(v)
    BY <1>7, <2>1, <2>3 DEF Cut
  <2>4. CASE OpenClip(v)
    <3>1. writers' = (writers \ {v}) \cup {o} /\ \A f \in files' : f[1] # a.path
      BY <1>7, <2>4 DEF OpenClip
    <3>2. {u \in writers' : u.path = a.path} = {o}
      BY <1>4, <1>7, <2>2, <3>1
    <3>3. BeingWritten(a)'
      BY <1>3, <1>4, <2>2, <3>1, <3>2 DEF BeingWritten
    <3> QED
      BY <3>3 DEF HasItsClip
  <2>5. CASE CloseClip(v)
    <3>1. v.open /\ writers' = writers \ {v}
          /\ files' = files \cup {<<a.path, ClipOf(a)>>}
      BY <1>7, <2>2, <2>5 DEF CloseClip
    <3>2. \A w \in writers' : w.path # a.path
      BY <2>2, <3>1
    <3>3. {f \in files' : f[1] = a.path} = {<<a.path, ClipOf(a)>>}
      BY <2>2, <3>1
    <3>4. Filed(a)'
      BY <1>3, <3>2, <3>3 DEF Filed
    <3> QED
      BY <3>4 DEF HasItsClip
  <2> QED
    BY <1>1, <2>3, <2>4, <2>5
<1> QED
  BY <1>6, <1>7

\* A frame adds to a recording, ends it after its postroll, or begins one; a
\* thread that it starts has the path of an event that has none.
LEMMA FrameKeepsClip ==
  ASSUME IInv, NEW d \in Delays, NEW dets \in SUBSET Cells,
         NEW theft \in BOOLEAN, ReadFrame(d, dets, theft), NEW a \in alerts'
  PROVE  ClipStep(a)
<1> DEFINE K(r) == Counted(specs[r], states[r], dets)
           T(r) == Triggers(specs[r], K(r), now', dets, theft)
           E(r) == Evaluated(specs[r], states[r], now', frame', dets, theft)
           F(r) == Recorded(specs[r], E(r), frame')
           A(r) == Alert(r, specs[r], K(r), now', frame')
           Ends(r) == RecordingEnds(specs[r], E(r), frame')
           W(r) == Writer(r, E(r), frame')
<1>1. /\ states' = [r \in DOMAIN specs |-> F(r)]
      /\ alerts' = alerts \cup {A(r) : r \in {q \in DOMAIN specs : T(q)}}
      /\ writers' = writers \cup {W(r) : r \in {q \in DOMAIN specs : Ends(q)}}
      /\ running /\ UNCHANGED <<running, specs, control, files>>
      /\ now' = now + d /\ frame' = frame + 1
  BY DEF ReadFrame
<1>2. TypeOK /\ DOMAIN states = DOMAIN specs /\ DOMAIN specs \subseteq Rules
  BY DEF IInv, TypeOK
<1>3. /\ now' \in Nat /\ frame \in Nat /\ frame' \in Nat
      /\ frame' = frame + 1
      /\ PostRoll \in Nat /\ PostRoll >= 1 /\ PreRoll \in Nat
  BY <1>1, <1>2, ConstantsAssumption DEF TypeOK, PostRoll, PreRoll
<1>4. \A r \in DOMAIN specs : specs[r] \in Specs /\ states[r] \in States
  BY <1>2 DEF TypeOK
<1>5. ASSUME NEW r \in DOMAIN specs
      PROVE  /\ E(r) \in States
             /\ E(r).max = states[r].max /\ E(r).lookout = states[r].lookout
             /\ T(r) =>
                  /\ ~states[r].recording /\ E(r).recording
                  /\ E(r).start = frame'
                  /\ E(r).path = PathTo(specs[r].type, now')
                  /\ E(r).saved = Min2(frame', PreRoll)
                  /\ ~Skipped(specs[r], E(r))
             /\ ~T(r) =>
                  /\ E(r).recording = states[r].recording
                  /\ E(r).start = states[r].start /\ E(r).path = states[r].path
                  /\ E(r).saved = states[r].saved
  <2>1. specs[r] \in Specs /\ states[r] \in States
    BY <1>4
  <2>2. /\ E(r) \in States
        /\ T(r) => /\ E(r).recording /\ E(r).start = frame'
                   /\ E(r).path = PathTo(specs[r].type, now')
        /\ ~T(r) => /\ E(r).recording = states[r].recording
                    /\ E(r).start = states[r].start
                    /\ E(r).path = states[r].path
    <3>1. E(r) \in States
      BY <1>3, <2>1, EvaluatedFacts
    <3>2. T(r) => /\ E(r).recording /\ E(r).start = frame'
                  /\ E(r).path = PathTo(specs[r].type, now')
      BY <1>3, <2>1, EvaluatedFacts
    <3>3. ~T(r) => /\ E(r).recording = states[r].recording
                   /\ E(r).start = states[r].start
                   /\ E(r).path = states[r].path
      BY <1>3, <2>1, EvaluatedFacts
    <3> HIDE DEF T, E
    <3> QED
      BY <3>1, <3>2, <3>3
  <2>3. /\ E(r).max = states[r].max /\ E(r).lookout = states[r].lookout
        /\ T(r) => ~states[r].recording /\ E(r).saved = Min2(frame', PreRoll)
        /\ ~T(r) => E(r).saved = states[r].saved
    <3>1. E(r).max = states[r].max /\ E(r).lookout = states[r].lookout
      BY <1>3, <2>1, EvaluatedLimits
    <3>2. T(r) => ~states[r].recording /\ E(r).saved = Min2(frame', PreRoll)
      BY <1>3, <2>1, EvaluatedSaves
    <3>3. ~T(r) => E(r).saved = states[r].saved
      BY <1>3, <2>1, EvaluatedSaves
    <3> HIDE DEF T, E
    <3> QED
      BY <3>1, <3>2, <3>3
  <2>4. T(r) => ~Skipped(specs[r], E(r))
    <3>1. K(r).max = states[r].max /\ K(r).lookout = states[r].lookout
      BY <2>1, CountedType DEF States
    <3>2. T(r) => ~Skipped(specs[r], K(r))
      BY DEF Triggers, Skipped, Crowd, Restricted, Shoplifting
    <3> HIDE DEF K, T, E
    <3> QED
      BY <2>3, <3>1, <3>2 DEF Skipped
  <2> HIDE DEF K, T, E
  <2> QED
    BY <2>2, <2>3, <2>4
<1>6. ASSUME NEW r \in DOMAIN specs, ~Skipped(specs[r], E(r))
      PROVE  /\ Ends(r) <=> E(r).recording /\ frame' - E(r).start >= PostRoll
             /\ F(r).recording <=> E(r).recording /\ ~Ends(r)
             /\ F(r).recording => /\ F(r).start = E(r).start
                                  /\ F(r).path = E(r).path
                                  /\ F(r).saved = E(r).saved + 1
  BY <1>3, <1>4, <1>5, <1>6, RecordedSaves
<1>7. ASSUME NEW r \in DOMAIN specs, Skipped(specs[r], E(r))
      PROVE  Skipped(specs[r], F(r))
  BY <1>7 DEF Recorded
<1>8. ASSUME NEW r \in DOMAIN specs
      PROVE  /\ A(r).rule = r /\ A(r).frame = frame'
             /\ A(r).path = PathTo(specs[r].type, now')
             /\ W(r).path = E(r).path
             /\ W(r).clip = [rule |-> r, start |-> E(r).start, end |-> frame',
                             frames |-> E(r).saved + 1]
             /\ Ends(r) => E(r).recording /\ ~Skipped(specs[r], E(r))
  BY DEF Alert, Writer, RecordingEnds
<1>9. ClipOf(a)' = ClipOf(a)
  BY DEF ClipOf, PostRoll, PreRoll, Min2
<1> HIDE DEF K, T, E, F, A, Ends, W
<1>10. /\ alerts \subseteq alerts' /\ files' = files
       /\ writers \subseteq writers'
       /\ \A w \in writers' :
            w \in writers \/ \E r \in DOMAIN specs : Ends(r) /\ w = W(r)
       /\ \A r \in DOMAIN specs : Ends(r) => W(r) \in writers'
       /\ \A r \in DOMAIN specs : states'[r] = F(r)
       /\ DOMAIN states' = DOMAIN specs
  BY <1>1
<1>11. \A b \in alerts : b.frame \in Nat /\ b.frame <= frame
  BY <1>2 DEF IInv, TypeOK, NothingFromTheFuture, Alerts
\* A recording that ends is that of an earlier event.
<1>12. ASSUME NEW r \in DOMAIN specs, Ends(r)
       PROVE  /\ states[r].recording /\ E(r).start = states[r].start
              /\ \E b \in alerts : /\ b.path = W(r).path /\ b.rule = r
                                   /\ b.frame = states[r].start
  <2>1. E(r).recording /\ frame' - E(r).start >= PostRoll
    BY <1>6, <1>8, <1>12
  <2>2. ~T(r)
    BY <1>3, <1>5, <2>1
  <2>3. /\ states[r].recording /\ E(r).start = states[r].start
        /\ W(r).path = states[r].path
    BY <1>5, <1>8, <2>1, <2>2
  <2>4. \E b \in alerts : /\ b.path = states[r].path /\ b.rule = r
                          /\ b.frame = states[r].start
    BY <2>3 DEF IInv, RecordingsHaveAlerts
  <2> QED
    BY <2>3, <2>4
\* A new thread on the path of an event is that of another event with the path,
\* but for the one that gets its clip.
<1>13. ASSUME NEW r \in DOMAIN specs, Ends(r), W(r).path = a.path,
              a.rule # r \/ a.frame # states[r].start
       PROVE  SharesPath(a)'
  BY <1>10, <1>12, <1>13 DEF SharesPath
<1>14. CASE a \notin alerts
  <2>1. PICK r \in DOMAIN specs : T(r) /\ a = A(r)
    BY <1>1, <1>14 DEF A, T, K
  <2>2. a.rule = r /\ a.frame = frame' /\ a.path = E(r).path
        /\ E(r).start = frame' /\ E(r).recording
        /\ E(r).saved = Min2(frame', PreRoll)
    BY <1>5, <1>8, <2>1
  <2>3. ~Skipped(specs[r], E(r)) /\ ~(frame' - E(r).start >= PostRoll)
    BY <1>3, <1>5, <2>1, <2>2
  <2>4. /\ F(r).recording /\ F(r).start = frame' /\ F(r).path = a.path
        /\ F(r).saved = Min2(frame', PreRoll) + 1
    BY <1>6, <2>2, <2>3
  <2>5. ASSUME NEW w \in writers', w.path = a.path
        PROVE  SharesPath(a)'
    <3>1. CASE w \in writers
      <4>1. PICK b \in alerts : b.path = w.path
        BY <3>1 DEF IInv, ClipFollowsAlert, AlertOf
      <4> QED
        BY <1>10, <1>14, <2>5, <4>1 DEF SharesPath
    <3>2. ASSUME NEW q \in DOMAIN specs, Ends(q), w = W(q)
          PROVE  SharesPath(a)'
      <4>1. PICK b \in alerts : b.path = W(q).path
        BY <1>12, <3>2
      <4> QED
        BY <1>10, <1>14, <2>5, <3>2, <4>1 DEF SharesPath
    <3> QED
      BY <1>10, <3>1, <3>2
  <2>6. frame' < a.frame + PostRoll
        /\ F(r).saved = Min2(a.frame, PreRoll) + (frame' - a.frame) + 1
    <3>1. Min2(frame', PreRoll) \in Nat
      BY <1>3 DEF Min2
    <3> QED
      BY <1>3, <2>2, <2>4, <3>1
  <2>7. CASE \A w \in writers' : w.path # a.path
    <3>1. Recording(a)'
      BY <1>10, <2>2, <2>4, <2>6, <2>7 DEF Recording, PostRoll, PreRoll, Min2
    <3> QED
      BY <3>1 DEF ClipStep, HasItsClip
  <2> QED
    BY <2>5, <2>7 DEF ClipStep
<1>15. CASE a \in alerts /\ Recording(a)
  <2> DEFINE r == a.rule
  <2>1. /\ r \in DOMAIN specs
        /\ states[r].recording /\ states[r].start = a.frame
        /\ states[r].path = a.path
        /\ frame < a.frame + PostRoll
        /\ states[r].saved = Min2(a.frame, PreRoll) + (frame - a.frame) + 1
        /\ \A w \in writers : w.path # a.path
    BY <1>2, <1>15 DEF Recording
  <2>2. /\ E(r).recording /\ E(r).start = a.frame /\ E(r).path = a.path
        /\ E(r).saved = Min2(a.frame, PreRoll) + (frame - a.frame) + 1
    BY <1>5, <2>1
  <2>3. a.frame \in Nat /\ Min2(a.frame, PreRoll) \in Nat
    BY <1>3, <1>11, <1>15 DEF Min2
  <2>4. CASE Skipped(specs[r], E(r))
    <3>1. Skipped(specs[r], states'[r]) /\ frame' # frame
      BY <1>3, <1>7, <1>10, <2>1, <2>4
    <3> QED
      BY <1>15, <3>1 DEF ClipStep, Cut
  <2>5. CASE ~Skipped(specs[r], E(r)) /\ Ends(r)
    <3>1. frame' = a.frame + PostRoll
      BY <1>3, <1>6, <2>1, <2>2, <2>3, <2>5
    <3>2. W(r).path = a.path /\ W(r).clip = ClipOf(a) /\ ~W(r).open
      <4>1. E(r).saved + 1 = Min2(a.frame, PreRoll) + PostRoll + 1
        BY <1>3, <2>2, <2>3, <3>1
      <4>2. W(r).path = E(r).path /\ ~W(r).open
            /\ W(r).clip = [rule |-> r, start |-> E(r).start, end |-> frame',
                            frames |-> E(r).saved + 1]
        BY DEF W, Writer
      <4> QED
        BY <2>2, <3>1, <4>1, <4>2 DEF ClipOf
    <3>3. CASE \A w \in writers' : w.path = a.path => w = W(r)
      <4>1. W(r) \in writers' /\ {w \in writers' : w.path = a.path} = {W(r)}
        BY <1>10, <2>1, <2>5, <3>2, <3>3
      <4>2. BeingWritten(a)'
        BY <1>9, <3>2, <4>1 DEF BeingWritten
      <4> QED
        BY <4>2 DEF ClipStep, HasItsClip
    <3>4. ASSUME NEW w \in writers', w.path = a.path, w # W(r)
          PROVE  SharesPath(a)'
      BY <1>10, <1>13, <2>1, <3>4
    <3> QED
      BY <3>3, <3>4 DEF ClipStep
  <2>6. CASE ~Skipped(specs[r], E(r)) /\ ~Ends(r)
    <3>1. /\ F(r).recording /\ F(r).start = a.frame /\ F(r).path = a.path
          /\ F(r).saved = Min2(a.frame, PreRoll) + (frame - a.frame) + 1 + 1
      BY <1>6, <2>1, <2>2, <2>6
    <3>2. F(r).saved = Min2(a.frame, PreRoll) + (frame' - a.frame) + 1
      BY <1>3, <2>3, <3>1
    <3>3. frame' < a.frame + PostRoll
      BY <1>3, <1>6, <2>1, <2>2, <2>3, <2>6
    <3>4. CASE \A w \in writers' : w.path # a.path
      <4>1. Recording(a)'
        BY <1>10, <2>1, <3>1, <3>2, <3>3, <3>4
           DEF Recording, PostRoll, PreRoll, Min2
      <4> QED
        BY <4>1 DEF ClipStep, HasItsClip
    <3>5. ASSUME NEW w \in writers', w.path = a.path
          PROVE  SharesPath(a)'
      <4>1. PICK q \in DOMAIN specs : Ends(q) /\ w = W(q)
        BY <1>10, <2>1, <3>5
      <4>2. q # a.rule
        BY <2>6, <4>1
      <4> QED
        BY <1>13, <3>5, <4>1, <4>2
    <3> QED
      BY <3>4, <3>5 DEF ClipStep
  <2> QED
    BY <2>4, <2>5, <2>6
\* The rule of a clip that is written or filed is recording a younger one.
<1>16. ASSUME NEW r \in DOMAIN specs, Ends(r), W(r).path = a.path,
              BeingWritten(a) \/ Filed(a)
       PROVE  SharesPath(a)'
  <2>1. /\ ClipOf(a).rule = a.rule /\ ClipOf(a).start = a.frame
        /\ (\E w \in writers : w.clip = ClipOf(a))
             \/ (\E f \in files : f[2] = ClipOf(a))
    <3>1. ASSUME Filed(a) PROVE \E f \in files : f[2] = ClipOf(a)
      <4>1. <<a.path, ClipOf(a)>> \in files
        BY <3>1 DEF Filed
      <4> QED
        BY <4>1
    <3> QED
      BY <1>16, <3>1 DEF BeingWritten, ClipOf
  <2>2. states[r].recording
    BY <1>12, <1>16
  <2>3. a.rule = r => a.frame < states[r].start
    BY <2>1, <2>2 DEF IInv, RecordingsAreYounger
  <2>4. states[r].start \in Nat
    BY <1>4 DEF States
  <2>5. a.rule # r \/ a.frame # states[r].start
    BY <2>3, <2>4
  <2> QED
    BY <1>13, <1>16, <2>5
<1>17. CASE BeingWritten(a) \/ Filed(a)
  <2>1. CASE \E r \in DOMAIN specs : Ends(r) /\ W(r).path = a.path
    BY <1>16, <1>17, <2>1 DEF ClipStep
  <2>2. CASE ~\E r \in DOMAIN specs : Ends(r) /\ W(r).path = a.path
    <3>1. {w \in writers' : w.path = a.path} = {w \in writers : w.path = a.path}
      BY <1>10, <2>2
    <3>2. ASSUME BeingWritten(a) PROVE BeingWritten(a)'
      BY <1>9, <1>10, <3>1, <3>2 DEF BeingWritten
    <3>3. ASSUME Filed(a) PROVE Filed(a)'
      <4>1. \A w \in writers' : w.path # a.path
        BY <3>1, <3>3 DEF Filed
      <4> QED
        BY <1>9, <1>10, <3>3, <4>1 DEF Filed
    <3> QED
      BY <1>17, <3>2, <3>3 DEF ClipStep, HasItsClip
  <2> QED
    BY <2>1, <2>2
<1> QED
  BY <1>14, <1>15, <1>17 DEF ClipStep, HasItsClip

LEMMA StepKeepsClips ==
  IInv /\ [Next]_vars => [\A a \in alerts' : ClipStep(a)]_vars
<1> SUFFICES ASSUME IInv, Next, NEW a \in alerts' PROVE ClipStep(a)
  OBVIOUS
<1>1. CASE Control
  <2>1. UNCHANGED <<loop, alerts, storage>>
    BY <1>1 DEF Control, SaveRule, RemoveRule, RemoveCamera, DatabaseFails,
                DatabaseReturns
  <2> QED
    BY <2>1, QuietKeepsClip DEF ClipStep
<1>2. CASE Loop
  <2>1. CASE Reload
    <3>1. alerts' = alerts
      BY <2>1 DEF Reload
    <3> QED
      BY <2>1, <3>1, ReloadKeepsClip DEF ClipStep
  <2>2. CASE Stop
    <3>1. alerts' = alerts
      BY <2>2 DEF Stop
    <3> QED
      BY <2>2, <3>1, EndKeepsClip DEF ClipStep
  <2>3. ASSUME NEW d \in Delays, Frame(d) PROVE ClipStep(a)
    <3>1. person \in SUBSET Cells /\ shop \in BOOLEAN
      BY DEF IInv, TypeOK
    <3>2. PICK dets \in SUBSET Cells, theft \in BOOLEAN : ReadFrame(d, dets, theft)
      BY <2>3, <3>1 DEF Frame
    <3> QED
      BY <3>2, FrameKeepsClip
  <2> QED
    BY <1>2, <2>1, <2>2, <2>3 DEF Loop
<1>3. CASE Writing
  <2>1. alerts' = alerts
    BY <1>3 DEF Writing, OpenClip, CloseClip, FailClip
  <2> QED
    BY <1>3, <2>1, WritingKeepsClip DEF ClipStep
<1>4. CASE WorkerDies
  <2>1. alerts' = alerts
    BY <1>4 DEF WorkerDies
  <2> QED
    BY <1>4, <2>1, EndKeepsClip DEF ClipStep
<1> QED
  BY <1>1, <1>2, <1>3, <1>4 DEF Next

\* An event has its clip from its frame on for ever, whatever rules, rates,
\* delays and threads do, unless one of the steps of Cut takes it or another
\* event names its path.
THEOREM DetectionClipUnlessShared == Spec => ClipUnlessShared
<1>1. IInv /\ [Next]_vars => [\A a \in alerts' : ClipStep(a)]_vars
  BY StepKeepsClips
<1>2. Spec => [][\A a \in alerts' : ClipStep(a)]_vars
  BY <1>1, DetectionInvariant, PTL DEF Spec
<1> QED
  BY <1>2 DEF ClipUnlessShared, ClipStep

====
