--------------------------- MODULE OperationsProofs ---------------------------
(***************************************************************************)
(* Theorems about Operations, for any operators, cameras, files and        *)
(* requests.                                                               *)
(***************************************************************************)
EXTENDS Operations, SequenceTheorems, WellFoundedInduction, TLAPS

Kept(row, old, new) == IF old = new THEN row ELSE new

LEMMA FlushedAlert ==
  ASSUME NEW row \in Alerts, NEW old \in Alerts, NEW new \in Alerts
  PROVE  Flushed(row, old, new) =
           [status |-> Kept(row.status, old.status, new.status),
            by |-> Kept(row.by, old.by, new.by),
            acknowledged |-> Kept(row.acknowledged, old.acknowledged, new.acknowledged),
            resolved |-> Kept(row.resolved, old.resolved, new.resolved)]
BY DEF Flushed, Alerts, Kept

LEMMA FlushedHealth ==
  ASSUME NEW row \in Healths, NEW old \in Healths, NEW new \in Healths
  PROVE  Flushed(row, old, new) =
           [status |-> Kept(row.status, old.status, new.status),
            seen |-> Kept(row.seen, old.seen, new.seen),
            recent |-> Kept(row.recent, old.recent, new.recent)]
BY DEF Flushed, Healths, Kept

LEMMA UpcomingIsNext ==
  ASSUME NEW o \in Operators, todo[o] \in SUBSET Nat, todo[o] # {}
  PROVE  /\ Upcoming(o) \in todo[o]
         /\ \A d \in todo[o] : Upcoming(o) <= d
<1> DEFINE R == {ss \in Nat \X Nat : ss[1] < ss[2]}
<1>1. IsWellFoundedOn(R, Nat)
  BY NatLessThanWellFounded DEF OpToRel
<1>2. \A d, c \in Nat : <<d, c>> \in R <=> d < c
  OBVIOUS
<1> HIDE DEF R
<1>3. PICK c \in todo[o] : \A d \in todo[o] : ~(<<d, c>> \in R)
  BY <1>1, WFMin
<1>4. \A d \in todo[o] : c <= d
  <2> TAKE d \in todo[o]
  <2>1. c \in Nat /\ d \in Nat
    OBVIOUS
  <2>2. ~(d < c)
    BY <1>2, <1>3, <2>1
  <2> QED
    BY <2>1, <2>2
<1> QED
  BY <1>3, <1>4 DEF Upcoming

-----------------------------------------------------------------------------
(* The inductive invariant.                                                *)

Refreshing == {"query", "frame", "commit"}

\* What a request holds at each of its steps.
RequestShape(o) ==
  /\ pc[o] # "idle" => now[o] # Never
  /\ pc[o] = "patch" => loaded[o] \in Alerts
  /\ pc[o] = "frame" => loaded[o] \in Healths
  /\ pc[o] \in {"query", "frame"} => todo[o] # {}
  /\ pc[o] = "commit" => todo[o] = {}
  /\ DOMAIN rows[o] \subseteq DOMAIN cameras

Shape ==
  /\ TypeOK
  /\ DOMAIN rows = Operators
  /\ \A o \in Operators : RequestShape(o)

\* Who and when stand or fall together, also in what a request has loaded;
\* nobody has overwritten what a request that is not stale has loaded.
AcknowledgedRow(row) == row.by = Nobody <=> row.acknowledged = Never

AlertInv ==
  /\ AcknowledgedRow(alert)
  /\ \A o \in Operators :
       pc[o] = "patch" => /\ AcknowledgedRow(loaded[o])
                          /\ o \in stale \/ loaded[o] = alert

\* A row is only ever overwritten by one that knows as much.
HealthRow(row) ==
  /\ row.status \in {"Absent", "UNKNOWN"} <=> row.seen = Never
  /\ row.status = "ONLINE" <=> row.recent

Outlived(old, row) ==
  /\ old.seen # Never => row.seen # Never
  /\ old.status # "Absent" => row.status # "Absent"

FrameInv(o) ==
  pc[o] = "frame" => HealthRow(loaded[o]) /\ Outlived(loaded[o], health[Upcoming(o)])

RowsInv(o) ==
  \A c \in DOMAIN rows[o] :
    /\ HealthRow(rows[o][c].old) /\ Outlived(rows[o][c].old, health[c])
    /\ \E hasFrame \in BOOLEAN :
         rows[o][c].new = Observed(rows[o][c].old, hasFrame, now[o])

HealthInv ==
  /\ \A c \in 1 .. MaxCameras : HealthRow(health[c])
  /\ \A o \in Operators : FrameInv(o) /\ RowsInv(o)

\* A refresh misses no active camera that is older than one it looks at.
SweepOf(o) ==
  pc[o] \in Refreshing =>
    \A c \in Active, d \in todo[o] \cup DOMAIN rows[o] :
      c < d => c \in todo[o] \cup DOMAIN rows[o]

SweepInv ==
  /\ RefreshIsAtomic
  /\ \A c \in 1 .. MaxCameras : health[c].status # "Absent" => c <= Len(cameras)
  /\ \A o \in Operators : SweepOf(o)

\* A file that was never asked for twice is the file of one camera, or of one
\* request that adds it.
AddingInv(o) ==
  /\ \A c \in DOMAIN cameras : cameras[c].file # file[o]
  /\ \A p \in Adding \ {o} : file[p] # file[o]
  /\ pc[o] = "insert" => picture[file[o]] = {now[o]}

PictureInv ==
  /\ PictureOfItsCamera
  /\ \A o \in Adding : file[o] \notin contested => AddingInv(o)

-----------------------------------------------------------------------------
(* The shape of the state.                                                 *)

LEMMA CamerasDomain ==
  ASSUME CamerasTypeOK
  PROVE  /\ DOMAIN cameras = 1 .. Len(cameras)
         /\ DOMAIN cameras \subseteq 1 .. MaxCameras
         /\ \A c \in DOMAIN cameras : cameras[c] \in CameraRows
BY CamerasAssumption DEF CamerasTypeOK

LEMMA CameraAppended ==
  ASSUME CamerasTypeOK, NEW row \in CameraRows, Len(cameras) < MaxCameras,
         cameras' = Append(cameras, row)
  PROVE  /\ cameras' \in Seq(CameraRows)
         /\ Len(cameras)' = Len(cameras) + 1
         /\ Len(cameras)' \in 1 .. MaxCameras
         /\ DOMAIN cameras' = 1 .. Len(cameras)'
         /\ DOMAIN cameras \subseteq DOMAIN cameras'
         /\ \A c \in DOMAIN cameras : cameras'[c] = cameras[c]
         /\ cameras'[Len(cameras) + 1] = row
BY AppendProperties, CamerasAssumption, CamerasDomain DEF CamerasTypeOK

LEMMA CameraRemoved ==
  ASSUME CamerasTypeOK, NEW c \in DOMAIN cameras,
         cameras' = [cameras EXCEPT ![c].status = "Inactive"]
  PROVE  /\ cameras' \in Seq(CameraRows)
         /\ Len(cameras)' = Len(cameras)
         /\ DOMAIN cameras' = DOMAIN cameras
         /\ \A d \in DOMAIN cameras : /\ cameras'[d].file = cameras[d].file
                                       /\ cameras'[d].shows = cameras[d].shows
         /\ Active' \subseteq Active
<1> DEFINE row == [cameras[c] EXCEPT !.status = "Inactive"]
<1>1. row \in CameraRows
  BY CamerasDomain DEF CameraRows
<1>2. cameras' = [cameras EXCEPT ![c] = row]
  OBVIOUS
<1>3. c \in 1 .. Len(cameras)
  BY CamerasDomain
<1>4. cameras \in Seq(CameraRows)
  BY DEF CamerasTypeOK
<1>5. /\ row.file = cameras[c].file /\ row.shows = cameras[c].shows
      /\ row.status = "Inactive"
  BY CamerasDomain DEF CameraRows
<1> HIDE DEF row
<1>6. /\ cameras' \in Seq(CameraRows)
      /\ Len(cameras)' = Len(cameras)
  BY <1>1, <1>2, <1>3, <1>4, ExceptSeq
<1>7. /\ DOMAIN cameras' = DOMAIN cameras
      /\ \A d \in DOMAIN cameras : cameras'[d] = IF d = c THEN row ELSE cameras[d]
  BY <1>2
<1> QED
  BY <1>5, <1>6, <1>7 DEF Active

Labels == {"idle", "patch", "query", "frame", "commit",
           "capture", "save", "fill", "insert", "remove"}

RowsShape(o) ==
  /\ rows[o] \in [DOMAIN rows[o] -> [old : Healths, new : Healths]]
  /\ pc[o] \notin Refreshing => rows[o] = NoRows

\* An action of one request leaves what the others know alone.
Others(o) ==
  \A p \in Operators \ {o} :
    /\ pc'[p] = pc[p] /\ now'[p] = now[p]
    /\ loaded'[p] = loaded[p] /\ todo'[p] = todo[p] /\ rows'[p] = rows[p]

LEMMA ShapeOfOthers ==
  ASSUME Shape, NEW o \in Operators, Others(o), DOMAIN cameras \subseteq DOMAIN cameras',
         CamerasTypeOK', alert' \in Alerts, health' \in [1 .. MaxCameras -> Healths],
         pc' \in [Operators -> Labels], loaded' \in [Operators -> Alerts \cup Healths],
         wanted' \in [Operators -> {"NEW", "ACKNOWLEDGED", "RESOLVED"}],
         todo' \in [Operators -> SUBSET DOMAIN cameras'],
         stale' \subseteq Operators, suspect' \in BOOLEAN,
         DOMAIN rows' = Operators, RowsShape(o)', RequestShape(o)'
  PROVE  Shape'
<1>1. ASSUME NEW p \in Operators PROVE RowsShape(p)' /\ RequestShape(p)'
  <2>1. RowsShape(p) /\ RequestShape(p)
    BY DEF Shape, TypeOK, RowsShape, Refreshing
  <2>2. CASE p = o
    BY <2>2
  <2>3. CASE p # o
    BY <2>1, <2>3 DEF Others, RowsShape, RequestShape
  <2> QED
    BY <2>2, <2>3
<1>2. TypeOK'
  BY <1>1 DEF TypeOK, Labels, RowsShape, Refreshing
<1> QED
  BY <1>1, <1>2 DEF Shape

\* What the common parts of the actions do to the request and to the time.
LEMMA Requested ==
  ASSUME Shape, NEW o \in Operators, NEW label \in Labels, Request(o), Goto(o, label)
  PROVE  /\ pc[o] = "idle" /\ pc' \in [Operators -> Labels] /\ pc'[o] = label
         /\ now' \in [Operators -> Times] /\ now'[o] # Never /\ requests' \in Times
         /\ \A p \in Operators \ {o} : pc'[p] = pc[p] /\ now'[p] = now[p]
BY CamerasAssumption
DEF Shape, TypeOK, CamerasTypeOK, Request, Goto, Times, Never, Labels

LEMMA Answered ==
  ASSUME Shape, NEW o \in Operators, Answer(o)
  PROVE  /\ pc' \in [Operators -> Labels] /\ pc'[o] = "idle"
         /\ now' \in [Operators -> Times] /\ requests' \in Times /\ writer' \in Nobodys
         /\ \A p \in Operators \ {o} : pc'[p] = pc[p] /\ now'[p] = now[p]
BY CamerasAssumption
DEF Shape, TypeOK, CamerasTypeOK, Answer, Goto, Released, Times, Never, Labels, Nobodys

LEMMA Moved ==
  ASSUME Shape, NEW o \in Operators, NEW label \in Labels, Goto(o, label), now' = now
  PROVE  /\ pc' \in [Operators -> Labels] /\ pc'[o] = label
         /\ \A p \in Operators \ {o} : pc'[p] = pc[p] /\ now'[p] = now[p]
BY DEF Shape, TypeOK, Goto, Labels

LEMMA Returned ==
  ASSUME Shape, NEW o \in Operators, Return(o), UNCHANGED camerasVars
  PROVE  /\ Others(o) /\ pc'[o] = "idle"
         /\ CamerasTypeOK' /\ pc' \in [Operators -> Labels]
         /\ loaded' \in [Operators -> Alerts \cup Healths]
         /\ wanted' \in [Operators -> {"NEW", "ACKNOWLEDGED", "RESOLVED"}]
         /\ todo' \in [Operators -> SUBSET DOMAIN cameras']
         /\ DOMAIN rows' = Operators /\ RowsShape(o)' /\ RequestShape(o)'
<1> USE DEF Return
<1>1. Answer(o)
  OBVIOUS
<1>2. rows'[o] = NoRows /\ DOMAIN NoRows = {}
  BY DEF SessionRemoved, Shape, NoRows
<1>3. Others(o)
  BY <1>1, Answered DEF Others, Shape, TypeOK
<1>4. CamerasTypeOK'
  BY <1>1, Answered DEF Shape, TypeOK, CamerasTypeOK, camerasVars
<1>5. NoRow \in Healths
  BY CamerasAssumption DEF NoRow, Healths, Times, Never
<1>6. /\ loaded' \in [Operators -> Alerts \cup Healths]
      /\ wanted' \in [Operators -> {"NEW", "ACKNOWLEDGED", "RESOLVED"}]
      /\ todo' \in [Operators -> SUBSET DOMAIN cameras']
      /\ DOMAIN rows' = Operators
  BY <1>5 DEF Shape, TypeOK, camerasVars
<1>7. rows'[o] \in [DOMAIN rows'[o] -> [old : Healths, new : Healths]]
  BY <1>2 DEF NoRows
<1>8. RowsShape(o)' /\ RequestShape(o)'
  BY <1>1, <1>2, <1>7, Answered DEF RowsShape, RequestShape
<1> QED
  BY <1>1, <1>3, <1>4, <1>6, <1>8, Answered

LEMMA RowTypes ==
  /\ NewAlert \in Alerts /\ NoRow \in Healths
  /\ \A row, old, new \in Alerts : Flushed(row, old, new) \in Alerts
  /\ \A row, old, new \in Healths : Flushed(row, old, new) \in Healths
<1>1. NewAlert \in Alerts /\ NoRow \in Healths
  BY CamerasAssumption DEF NewAlert, Alerts, NoRow, Healths, Times, Never, Nobodys
<1>2. ASSUME NEW row \in Alerts, NEW old \in Alerts, NEW new \in Alerts
      PROVE  Flushed(row, old, new) \in Alerts
  <2>1. /\ Kept(row.status, old.status, new.status) \in {row.status, new.status}
      /\ Kept(row.by, old.by, new.by) \in {row.by, new.by}
      /\ Kept(row.acknowledged, old.acknowledged, new.acknowledged) \in {row.acknowledged, new.acknowledged}
      /\ Kept(row.resolved, old.resolved, new.resolved) \in {row.resolved, new.resolved}
    BY DEF Kept
  <2> QED
    BY <2>1, FlushedAlert DEF Alerts
<1>3. ASSUME NEW row \in Healths, NEW old \in Healths, NEW new \in Healths
      PROVE  Flushed(row, old, new) \in Healths
  <2>1. /\ Kept(row.status, old.status, new.status) \in {row.status, new.status}
      /\ Kept(row.seen, old.seen, new.seen) \in {row.seen, new.seen}
      /\ Kept(row.recent, old.recent, new.recent) \in {row.recent, new.recent}
    BY DEF Kept
  <2> QED
    BY <2>1, FlushedHealth DEF Healths
<1> QED
  BY <1>1, <1>2, <1>3

LEMMA UpdatedFields ==
  ASSUME Shape, NEW o \in Operators, NEW row \in Alerts
  PROVE  /\ Updated(row, o) \in Alerts
         /\ wanted[o] = "NEW" => Updated(row, o) = NewAlert
         /\ wanted[o] # "NEW" =>
              /\ Updated(row, o).status = wanted[o]
              /\ Updated(row, o).resolved = IF wanted[o] = "RESOLVED" THEN now[o] ELSE Never
              /\ row.acknowledged = Never =>
                   Updated(row, o).by = o /\ Updated(row, o).acknowledged = now[o]
              /\ row.acknowledged # Never =>
                   /\ Updated(row, o).by = row.by
                   /\ Updated(row, o).acknowledged = row.acknowledged
<1> USE RowTypes DEF Updated, Asked
<1>1. wanted[o] \in {"NEW", "ACKNOWLEDGED", "RESOLVED"} /\ now[o] \in Times
  BY DEF Shape, TypeOK, CamerasTypeOK
<1>2. Never \in Times
  BY CamerasAssumption DEF Never, Times
<1>3. CASE wanted[o] = "NEW"
  BY <1>3
<1>4. CASE wanted[o] # "NEW" /\ row.acknowledged = Never
  BY <1>1, <1>2, <1>4 DEF Alerts, Nobodys
<1>5. CASE wanted[o] # "NEW" /\ row.acknowledged # Never
  BY <1>1, <1>2, <1>5 DEF Alerts, Nobodys
<1> QED
  BY <1>3, <1>4, <1>5

LEMMA ObservedFields ==
  ASSUME NEW row \in Healths, NEW hasFrame \in BOOLEAN, NEW time \in Times
  PROVE  /\ Observed(row, hasFrame, time) \in Healths
         /\ Observed(row, hasFrame, time).status =
              IF hasFrame THEN "ONLINE" ELSE IF row.seen # Never THEN "STALE" ELSE "UNKNOWN"
         /\ Observed(row, hasFrame, time).seen = (IF hasFrame THEN time ELSE row.seen)
         /\ Observed(row, hasFrame, time).recent = hasFrame
BY DEF Observed, Healths

LEMMA ShapeOfAlerts ==
  ASSUME Shape, NEW o \in Operators, LoadAlert(o) \/ CommitAlert(o)
  PROVE  Shape' /\ Others(o) /\ UNCHANGED camerasVars
<1>1. CASE LoadAlert(o)
  <2> USE <1>1 DEF LoadAlert
  <2>1. Request(o) /\ Goto(o, "patch") /\ "patch" \in Labels
    BY DEF Labels
  <2>2. Others(o)
    BY <2>1, Requested DEF Others, Shape, TypeOK
  <2>3. CamerasTypeOK'
    BY <2>1, Requested DEF Shape, TypeOK, CamerasTypeOK, camerasVars
  <2>4. rows[o] = NoRows /\ RowsShape(o)
    BY <2>1, Requested DEF Shape, TypeOK, RowsShape, Refreshing
  <2>5. RowsShape(o)' /\ RequestShape(o)'
    BY <2>1, <2>4, Requested
    DEF RowsShape, RequestShape, Refreshing, Shape, TypeOK, camerasVars
  <2>6. /\ loaded' \in [Operators -> Alerts \cup Healths]
        /\ wanted' \in [Operators -> {"NEW", "ACKNOWLEDGED", "RESOLVED"}]
        /\ stale' \subseteq Operators
    BY DEF Shape, TypeOK
  <2>7. UNCHANGED <<alert, health, suspect, todo, rows>> /\ DOMAIN cameras = DOMAIN cameras'
    BY DEF camerasVars
  <2>8. /\ alert' \in Alerts /\ health' \in [1 .. MaxCameras -> Healths]
        /\ suspect' \in BOOLEAN /\ DOMAIN rows' = Operators
        /\ todo' \in [Operators -> SUBSET DOMAIN cameras']
    BY <2>7 DEF Shape, TypeOK
  <2> QED
    BY <2>1, <2>2, <2>3, <2>5, <2>6, <2>7, <2>8, Requested, ShapeOfOthers
<1>2. CASE CommitAlert(o)
  <2> USE <1>2 DEF CommitAlert
  <2>1. Return(o) /\ UNCHANGED camerasVars /\ UNCHANGED health
    OBVIOUS
  <2>2. alert \in Alerts /\ loaded[o] \in Alerts
    BY DEF Shape, TypeOK, RequestShape
  <2>3. alert' \in Alerts
    BY <2>2, RowTypes, UpdatedFields
  <2>4. /\ health' \in [1 .. MaxCameras -> Healths]
        /\ stale' \subseteq Operators
        /\ DOMAIN cameras = DOMAIN cameras'
    BY DEF Shape, TypeOK, camerasVars
  <2>5. suspect' \in BOOLEAN
    OBVIOUS
  <2> QED
    BY <2>1, <2>3, <2>4, <2>5, Returned, ShapeOfOthers
<1> QED
  BY <1>1, <1>2

LEMMA ShapeOfRefreshes ==
  ASSUME Shape, NEW o \in Operators,
         ListCameras(o) \/ QueryHealth(o) \/ CommitHealth(o) \/ RefreshFails(o)
  PROVE  Shape' /\ Others(o) /\ UNCHANGED camerasVars
<1>1. CASE ListCameras(o)
  <2> USE <1>1 DEF ListCameras
  <2> DEFINE label == IF Active = {} THEN "commit" ELSE "query"
  <2>1. Request(o) /\ Goto(o, label) /\ label \in Labels
    BY DEF Labels
  <2>2. todo'[o] = Active /\ Active \subseteq DOMAIN cameras
    BY DEF Shape, TypeOK, Active
  <2>3. CamerasTypeOK'
    BY <2>1, Requested DEF Shape, TypeOK, CamerasTypeOK, camerasVars
  <2>4. rows[o] = NoRows /\ RowsShape(o)
    BY <2>1, Requested DEF Shape, TypeOK, RowsShape, Refreshing
  <2>5. pc'[o] = label /\ label \in {"query", "commit"} /\ (label = "commit" <=> Active = {})
    BY <2>1, Requested
  <2>6. Others(o)
    BY <2>1, Requested DEF Others, Shape, TypeOK
  <2>7. now'[o] # Never
    BY <2>1, Requested
  <2>8. /\ todo' \in [Operators -> SUBSET DOMAIN cameras'] /\ DOMAIN rows' = Operators
        /\ DOMAIN cameras = DOMAIN cameras' /\ rows' = rows
        /\ alert' \in Alerts /\ health' \in [1 .. MaxCameras -> Healths]
        /\ stale' \subseteq Operators /\ suspect' \in BOOLEAN
        /\ loaded' \in [Operators -> Alerts \cup Healths]
        /\ wanted' \in [Operators -> {"NEW", "ACKNOWLEDGED", "RESOLVED"}]
    BY <2>2 DEF Shape, TypeOK, camerasVars
  <2> HIDE DEF label
  <2>9. RowsShape(o)' /\ RequestShape(o)'
    BY <2>2, <2>4, <2>5, <2>7, <2>8
    DEF RowsShape, RequestShape, Refreshing, Shape
  <2>10. pc' \in [Operators -> Labels]
    BY <2>1, Requested
  <2>11. UNCHANGED camerasVars
    BY DEF ListCameras
  <2> QED
    BY <2>3, <2>6, <2>8, <2>9, <2>10, <2>11, ShapeOfOthers
<1>2. CASE QueryHealth(o)
  <2> USE <1>2 DEF QueryHealth
  <2>1. Goto(o, "frame") /\ "frame" \in Labels /\ now' = now
    BY DEF Labels
  <2>2. writer' \in Nobodys
    BY DEF Shape, TypeOK, CamerasTypeOK, Nobodys
  <2>3. CamerasTypeOK'
    BY <2>1, <2>2 DEF Shape, TypeOK, CamerasTypeOK, camerasVars
  <2>4. todo[o] # {} /\ todo[o] \in SUBSET DOMAIN cameras
    BY DEF Shape, TypeOK, RequestShape
  <2>5. Upcoming(o) \in 1 .. MaxCameras
    <3>1. todo[o] \in SUBSET Nat
      BY <2>4, CamerasDomain DEF Shape, TypeOK
    <3> QED
      BY <2>4, <3>1, UpcomingIsNext, CamerasDomain DEF Shape, TypeOK
  <2>6. health[Upcoming(o)] \in Healths
    BY <2>5 DEF Shape, TypeOK
  <2>7. Others(o)
    BY <2>1, Moved DEF Others, Shape, TypeOK
  <2>8. /\ todo' \in [Operators -> SUBSET DOMAIN cameras'] /\ DOMAIN rows' = Operators
        /\ DOMAIN cameras = DOMAIN cameras' /\ rows' = rows /\ todo' = todo
        /\ alert' \in Alerts /\ health' \in [1 .. MaxCameras -> Healths]
        /\ stale' \subseteq Operators /\ suspect' \in BOOLEAN
        /\ loaded' \in [Operators -> Alerts \cup Healths] /\ loaded'[o] \in Healths
        /\ wanted' \in [Operators -> {"NEW", "ACKNOWLEDGED", "RESOLVED"}]
    BY <2>6 DEF Shape, TypeOK, camerasVars
  <2>9. pc'[o] = "frame" /\ pc' \in [Operators -> Labels]
    BY <2>1, Moved
  <2>10. RowsShape(o)' /\ RequestShape(o)'
    BY <2>1, <2>4, <2>8, <2>9 DEF RowsShape, RequestShape, Refreshing, Shape, TypeOK
  <2>11. UNCHANGED camerasVars
    OBVIOUS
  <2> QED
    BY <2>3, <2>7, <2>8, <2>9, <2>10, <2>11, ShapeOfOthers
<1>3. CASE CommitHealth(o)
  <2> USE <1>3 DEF CommitHealth
  <2>1. Return(o) /\ UNCHANGED <<camerasVars, alert, stale, suspect>>
    OBVIOUS
  <2>2. ASSUME NEW c \in 1 .. MaxCameras, c \in AllReady(o)
        PROVE  Flushed(health[c], rows[o][c].old, rows[o][c].new) \in Healths
    <3>1. rows[o] \in [DOMAIN rows[o] -> [old : Healths, new : Healths]]
      BY DEF Shape, TypeOK
    <3>2. rows[o][c] \in [old : Healths, new : Healths]
      BY <2>2, <3>1 DEF AllReady
    <3>3. rows[o][c].old \in Healths /\ rows[o][c].new \in Healths /\ health[c] \in Healths
      BY <3>2 DEF Shape, TypeOK
    <3> QED
      BY <3>3, RowTypes
  <2>3. health' \in [1 .. MaxCameras -> Healths]
    BY <2>2 DEF Shape, TypeOK
  <2>4. /\ alert' \in Alerts /\ stale' \subseteq Operators /\ suspect' \in BOOLEAN
        /\ DOMAIN cameras = DOMAIN cameras'
    BY <2>1 DEF Shape, TypeOK, camerasVars
  <2> QED
    BY <2>1, <2>3, <2>4, Returned, ShapeOfOthers
<1>4. CASE RefreshFails(o)
  <2>1. Return(o) /\ UNCHANGED <<camerasVars, alert, health, stale, suspect>>
    BY <1>4 DEF RefreshFails
  <2>2. /\ alert' \in Alerts /\ stale' \subseteq Operators /\ suspect' \in BOOLEAN
        /\ DOMAIN cameras = DOMAIN cameras' /\ health' \in [1 .. MaxCameras -> Healths]
    BY <2>1 DEF Shape, TypeOK, camerasVars
  <2> QED
    BY <2>1, <2>2, Returned, ShapeOfOthers
<1> QED
  BY <1>1, <1>2, <1>3, <1>4

\* ReadFrame, with the frame it finds.
Looked(o, hasFrame) ==
  rows' = [rows EXCEPT ![o] = [d \in DOMAIN @ \cup {Upcoming(o)} |->
             IF d # Upcoming(o) THEN @[d]
             ELSE [old |-> loaded[o], new |-> Observed(loaded[o], hasFrame, now[o])]]]

LEMMA ReadFrameEffect ==
  ASSUME Shape, NEW o \in Operators, ReadFrame(o)
  PROVE  /\ pc[o] = "frame" /\ loaded[o] \in Healths /\ now[o] \in Times
         /\ Upcoming(o) \in todo[o] /\ Upcoming(o) \in 1 .. MaxCameras
         /\ todo[o] \subseteq DOMAIN cameras
         /\ todo' = [todo EXCEPT ![o] = @ \ {Upcoming(o)}]
         /\ \E hasFrame \in BOOLEAN : Looked(o, hasFrame)
         /\ pc'[o] = (IF todo'[o] = {} THEN "commit" ELSE "query")
         /\ pc' \in [Operators -> Labels] /\ \A p \in Operators \ {o} : pc'[p] = pc[p]
         /\ UNCHANGED <<camerasVars, alert, health, now, loaded, wanted, writer, requests,
                        stale, suspect>>
<1> DEFINE label == IF todo'[o] = {} THEN "commit" ELSE "query"
<1>1. /\ pc[o] = "frame"
      /\ todo' = [todo EXCEPT ![o] = @ \ {Upcoming(o)}]
      /\ Goto(o, label)
      /\ UNCHANGED <<camerasVars, alert, health, now, loaded, wanted, writer, requests,
                     stale, suspect>>
  BY DEF ReadFrame
<1>2. \E hasFrame \in BOOLEAN : Looked(o, hasFrame)
  BY DEF ReadFrame, Looked
<1>3. label \in Labels
  BY DEF Labels
<1> HIDE DEF label
<1>4. /\ pc'[o] = label /\ pc' \in [Operators -> Labels]
      /\ \A p \in Operators \ {o} : pc'[p] = pc[p]
  BY <1>1, <1>3, Moved
<1>5. /\ loaded[o] \in Healths /\ now[o] \in Times
      /\ todo[o] # {} /\ todo[o] \in SUBSET DOMAIN cameras
  BY <1>1 DEF Shape, TypeOK, CamerasTypeOK, RequestShape
<1>6. todo[o] \in SUBSET Nat /\ todo[o] \in SUBSET (1 .. MaxCameras)
  BY <1>5, CamerasDomain DEF Shape, TypeOK
<1>7. Upcoming(o) \in todo[o] /\ Upcoming(o) \in 1 .. MaxCameras
  BY <1>5, <1>6, UpcomingIsNext
<1> QED
  BY <1>1, <1>2, <1>4, <1>5, <1>7 DEF label

LEMMA LookedEffect ==
  ASSUME Shape, NEW o \in Operators, NEW hasFrame \in BOOLEAN, Looked(o, hasFrame)
  PROVE  /\ DOMAIN rows' = Operators
         /\ \A p \in Operators \ {o} : rows'[p] = rows[p]
         /\ DOMAIN rows'[o] = DOMAIN rows[o] \cup {Upcoming(o)}
         /\ rows'[o] = [d \in DOMAIN rows'[o] |-> rows'[o][d]]
         /\ \A d \in DOMAIN rows[o] \ {Upcoming(o)} : rows'[o][d] = rows[o][d]
         /\ rows'[o][Upcoming(o)] =
              [old |-> loaded[o], new |-> Observed(loaded[o], hasFrame, now[o])]
<1> DEFINE c == Upcoming(o)
           new == [old |-> loaded[o], new |-> Observed(loaded[o], hasFrame, now[o])]
           looked == [d \in DOMAIN rows[o] \cup {c} |-> IF d # c THEN rows[o][d] ELSE new]
<1>1. rows' = [rows EXCEPT ![o] = looked]
  BY DEF Looked
<1>2. DOMAIN rows = Operators
  BY DEF Shape
<1> HIDE DEF c, new
<1>3. rows'[o] = looked
  BY <1>1, <1>2
<1>4. /\ DOMAIN rows'[o] = DOMAIN rows[o] \cup {c}
      /\ rows'[o] = [d \in DOMAIN rows'[o] |-> rows'[o][d]]
      /\ \A d \in DOMAIN rows[o] \ {c} : rows'[o][d] = rows[o][d]
      /\ rows'[o][c] = new
  BY <1>3
<1> QED
  BY <1>1, <1>2, <1>4 DEF c, new

LEMMA ShapeOfReadFrame ==
  ASSUME Shape, NEW o \in Operators, ReadFrame(o)
  PROVE  Shape' /\ Others(o) /\ UNCHANGED camerasVars
<1>1. PICK hasFrame \in BOOLEAN : Looked(o, hasFrame)
  BY ReadFrameEffect
<1>0. /\ DOMAIN rows' = Operators
      /\ \A p \in Operators \ {o} : rows'[p] = rows[p]
      /\ DOMAIN rows'[o] = DOMAIN rows[o] \cup {Upcoming(o)}
      /\ rows'[o] = [d \in DOMAIN rows'[o] |-> rows'[o][d]]
      /\ \A d \in DOMAIN rows[o] \ {Upcoming(o)} : rows'[o][d] = rows[o][d]
      /\ rows'[o][Upcoming(o)] =
           [old |-> loaded[o], new |-> Observed(loaded[o], hasFrame, now[o])]
  BY <1>1, LookedEffect
<1>2. Others(o)
  BY <1>0, ReadFrameEffect DEF Others, Shape, TypeOK
<1>3. CamerasTypeOK'
  BY ReadFrameEffect DEF Shape, TypeOK, CamerasTypeOK, camerasVars
<1>4. /\ todo' \in [Operators -> SUBSET DOMAIN cameras'] /\ DOMAIN cameras = DOMAIN cameras'
      /\ alert' \in Alerts /\ health' \in [1 .. MaxCameras -> Healths]
      /\ stale' \subseteq Operators /\ suspect' \in BOOLEAN
      /\ loaded' \in [Operators -> Alerts \cup Healths]
      /\ wanted' \in [Operators -> {"NEW", "ACKNOWLEDGED", "RESOLVED"}]
  BY ReadFrameEffect DEF Shape, TypeOK, camerasVars
<1>5. ASSUME NEW d \in DOMAIN rows'[o]
      PROVE  rows'[o][d] \in [old : Healths, new : Healths]
  <2>1. CASE d = Upcoming(o)
    BY <1>0, <2>1, ReadFrameEffect, ObservedFields
  <2>2. CASE d \in DOMAIN rows[o] \ {Upcoming(o)}
    BY <1>0, <2>2 DEF Shape, TypeOK
  <2> QED
    BY <1>0, <2>1, <2>2
<1>6. rows'[o] = [d \in DOMAIN rows'[o] |-> rows'[o][d]]
  BY <1>0
<1>7. rows'[o] \in [DOMAIN rows'[o] -> [old : Healths, new : Healths]]
  BY <1>5, <1>6
<1>8. pc'[o] \in Refreshing /\ RowsShape(o)'
  BY <1>7, ReadFrameEffect DEF RowsShape, Refreshing
<1>9. DOMAIN rows'[o] \subseteq DOMAIN cameras'
  BY <1>0, <1>4, ReadFrameEffect DEF Shape, RequestShape
<1>10. RequestShape(o)'
  <2>1. now'[o] # Never
    BY ReadFrameEffect DEF Shape, RequestShape
  <2>2. /\ pc'[o] \notin {"idle", "patch", "frame"}
        /\ pc'[o] = "query" => todo'[o] # {}
        /\ pc'[o] = "commit" => todo'[o] = {}
    BY ReadFrameEffect
  <2> QED
    BY <1>9, <2>1, <2>2 DEF RequestShape
<1>11. DOMAIN rows' = Operators /\ pc' \in [Operators -> Labels] /\ UNCHANGED camerasVars
  BY <1>0, ReadFrameEffect
<1> QED
  BY <1>2, <1>3, <1>4, <1>8, <1>10, <1>11, ShapeOfOthers

CamerasStep(o) == OnCameras(BeginCameras(o)) \/ OnCameras(HandleCameras(o))

\* What the actions of Cameras have in common: the cameras that there are stay.
CamerasKept(o) ==
  /\ CamerasTypeOK' /\ DOMAIN cameras \subseteq DOMAIN cameras'
  /\ Len(cameras) <= Len(cameras)'
  /\ pc' \in [Operators -> Labels] /\ pc[o] \notin Refreshing \cup {"patch"}
  /\ pc'[o] \notin Refreshing \cup {"patch"} /\ (pc'[o] # "idle" => now'[o] # Never)
  /\ \A p \in Operators \ {o} : pc'[p] = pc[p] /\ now'[p] = now[p]

LEMMA KeptByAnswer ==
  ASSUME Shape, NEW o \in Operators, AnswerCameras(o), UNCHANGED <<picture, contested>>,
         cameras' \in Seq(CameraRows), Len(cameras)' \in 1 .. MaxCameras,
         DOMAIN cameras \subseteq DOMAIN cameras', Len(cameras) <= Len(cameras)',
         pc[o] \in {"capture", "insert", "remove"}
  PROVE  CamerasKept(o)
<1> USE DEF AnswerCameras
<1>1. SomeFile \in Files /\ 1 \in 1 .. MaxCameras
  BY CamerasAssumption DEF SomeFile
<1>2. /\ pc' \in [Operators -> Labels] /\ pc'[o] = "idle"
      /\ now' \in [Operators -> Times] /\ requests' \in Times /\ writer' \in Nobodys
      /\ \A p \in Operators \ {o} : pc'[p] = pc[p] /\ now'[p] = now[p]
  BY Answered
<1>3. CamerasTypeOK'
  BY <1>1, <1>2 DEF Shape, TypeOK, CamerasTypeOK
<1> QED
  BY <1>2, <1>3 DEF CamerasKept, Refreshing

LEMMA KeptByRequest ==
  ASSUME Shape, NEW o \in Operators, NEW label \in {"capture", "remove"},
         Request(o), Goto(o, label), UNCHANGED <<cameras, picture, writer>>,
         file' \in [Operators -> Files], target' \in [Operators -> 1 .. MaxCameras],
         contested' \subseteq Files
  PROVE  CamerasKept(o)
<1>1. /\ pc[o] = "idle" /\ pc' \in [Operators -> Labels] /\ pc'[o] = label
      /\ now' \in [Operators -> Times] /\ now'[o] # Never /\ requests' \in Times
      /\ \A p \in Operators \ {o} : pc'[p] = pc[p] /\ now'[p] = now[p]
  BY Requested DEF Labels
<1>2. CamerasTypeOK'
  BY <1>1 DEF Shape, TypeOK, CamerasTypeOK
<1>3. Len(cameras) <= Len(cameras)'
  <2>1. Len(cameras) \in 1 .. MaxCameras /\ MaxCameras \in Nat
    BY CamerasAssumption DEF Shape, TypeOK, CamerasTypeOK
  <2>2. Len(cameras)' = Len(cameras)
    OBVIOUS
  <2> QED
    BY <2>1, <2>2
<1> QED
  BY <1>1, <1>2, <1>3 DEF CamerasKept, Refreshing

LEMMA KeptByProceed ==
  ASSUME Shape, NEW o \in Operators, NEW label \in {"save", "fill", "insert"},
         Proceed(o, label), pc[o] \in {"capture", "save", "fill"},
         UNCHANGED <<cameras, file, target, contested>>,
         picture' \in [Files -> {{}} \cup {{t} : t \in Times}]
  PROVE  CamerasKept(o)
<1> USE DEF Proceed
<1>1. /\ pc' \in [Operators -> Labels] /\ pc'[o] = label
      /\ \A p \in Operators \ {o} : pc'[p] = pc[p] /\ now'[p] = now[p]
  BY Moved DEF Labels
<1>2. CamerasTypeOK'
  BY DEF Shape, TypeOK, CamerasTypeOK
<1>3. now[o] # Never
  BY DEF Shape, RequestShape
<1>4. Len(cameras) <= Len(cameras)'
  <2>1. Len(cameras) \in 1 .. MaxCameras /\ MaxCameras \in Nat
    BY CamerasAssumption DEF Shape, TypeOK, CamerasTypeOK
  <2>2. Len(cameras)' = Len(cameras)
    OBVIOUS
  <2> QED
    BY <2>1, <2>2
<1> QED
  BY <1>1, <1>2, <1>3, <1>4 DEF CamerasKept, Refreshing

LEMMA CamerasAreKept ==
  ASSUME Shape, NEW o \in Operators, CamerasStep(o)
  PROVE  CamerasKept(o)
<1>0. /\ CamerasTypeOK /\ Len(cameras) \in Nat /\ now[o] \in Times
      /\ Len(cameras) <= Len(cameras)
  <2>1. CamerasTypeOK
    BY DEF Shape, TypeOK
  <2>2. Len(cameras) \in 1 .. MaxCameras /\ MaxCameras \in Nat
    BY <2>1, CamerasAssumption DEF CamerasTypeOK
  <2>3. Len(cameras) \in Nat /\ Len(cameras) <= Len(cameras)
    BY <2>2
  <2>4. now[o] \in Times
    BY <2>1 DEF CamerasTypeOK
  <2> QED
    BY <2>1, <2>3, <2>4
<1>1. CASE AddCamera(o)
  <2>1. \A f \in Files : [file EXCEPT ![o] = f] \in [Operators -> Files]
    BY <1>0 DEF CamerasTypeOK
  <2>2. file' \in [Operators -> Files] /\ contested' \subseteq Files
    BY <1>0, <1>1, <2>1 DEF AddCamera, CamerasTypeOK
  <2> QED
    BY <1>0, <1>1, <2>2, KeptByRequest DEF AddCamera, CamerasTypeOK
<1>2. CASE LoadCamera(o)
  <2>1. target' \in [Operators -> 1 .. MaxCameras]
    BY <1>0, <1>2, CamerasDomain DEF LoadCamera, CamerasTypeOK
  <2> QED
    BY <1>0, <1>2, <2>1, KeptByRequest DEF LoadCamera, CamerasTypeOK
<1>3. CASE Capture(o)
  <2>1. CASE Proceed(o, "save") /\ UNCHANGED <<file, target>>
    BY <1>0, <1>3, <2>1, KeptByProceed DEF Capture, CamerasTypeOK
  <2>2. CASE AnswerCameras(o)
    BY <1>0, <1>3, <2>2, KeptByAnswer DEF Capture, CamerasTypeOK
  <2> QED
    BY <1>3, <2>1, <2>2 DEF Capture
<1>4. CASE SaveSnapshot(o)
  <2>1. picture' \in [Files -> {{}} \cup {{t} : t \in Times}]
    BY <1>0, <1>4 DEF SaveSnapshot, CamerasTypeOK
  <2> QED
    BY <1>4, <2>1, KeptByProceed DEF SaveSnapshot
<1>5. CASE FillSnapshot(o)
  <2>1. picture' \in [Files -> {{}} \cup {{t} : t \in Times}]
    BY <1>0, <1>5 DEF FillSnapshot, CamerasTypeOK
  <2> QED
    BY <1>5, <2>1, KeptByProceed DEF FillSnapshot
<1>6. CASE InsertCamera(o)
  <2>0. /\ AnswerCameras(o) /\ UNCHANGED <<picture, contested>> /\ pc[o] = "insert"
    BY <1>6 DEF InsertCamera, Insertable
  <2> DEFINE row == [status |-> "Active", file |-> file[o], shows |-> now[o]]
  <2>1. CASE Len(cameras) < MaxCameras /\ cameras' = Append(cameras, row)
    <3>1. row \in CameraRows
      BY <1>0 DEF CamerasTypeOK, CameraRows
    <3>2. /\ cameras' \in Seq(CameraRows) /\ Len(cameras)' \in 1 .. MaxCameras
          /\ DOMAIN cameras \subseteq DOMAIN cameras' /\ Len(cameras)' = Len(cameras) + 1
      BY <1>0, <2>1, <3>1, CameraAppended
    <3> QED
      BY <1>0, <2>0, <3>2, KeptByAnswer
  <2>2. CASE UNCHANGED cameras
    BY <1>0, <2>0, <2>2, KeptByAnswer DEF CamerasTypeOK
  <2> QED
    BY <1>6, <2>1, <2>2 DEF InsertCamera
<1>7. CASE RemoveCamera(o)
  <2>1. /\ AnswerCameras(o) /\ UNCHANGED <<picture, contested>> /\ pc[o] = "remove"
    BY <1>7 DEF RemoveCamera
  <2>2. CASE target[o] \in DOMAIN cameras
    <3>1. /\ cameras' \in Seq(CameraRows) /\ Len(cameras)' = Len(cameras)
          /\ DOMAIN cameras' = DOMAIN cameras
      BY <1>0, <1>7, <2>2, CameraRemoved DEF RemoveCamera
    <3> QED
      BY <1>0, <2>1, <3>1, KeptByAnswer DEF CamerasTypeOK
  <2>3. CASE target[o] \notin DOMAIN cameras
    <3>1. cameras = [c \in DOMAIN cameras |-> cameras[c]]
      BY <1>0 DEF CamerasTypeOK
    <3>2. cameras' = cameras
      BY <1>7, <2>3, <3>1 DEF RemoveCamera
    <3> QED
      BY <1>0, <2>1, <3>2, KeptByAnswer DEF CamerasTypeOK
  <2> QED
    BY <2>2, <2>3
<1> QED
  BY <1>1, <1>2, <1>3, <1>4, <1>5, <1>6, <1>7
  DEF CamerasStep, OnCameras, BeginCameras, HandleCameras

LEMMA ShapeOfCameras ==
  ASSUME Shape, NEW o \in Operators, CamerasStep(o)
  PROVE  /\ Shape' /\ Others(o) /\ CamerasKept(o)
         /\ UNCHANGED <<alert, health, loaded, wanted, todo, rows, stale, suspect>>
<1>1. UNCHANGED <<alert, health, loaded, wanted, todo, rows, stale, suspect>>
  BY DEF CamerasStep, OnCameras, locals
<1>2. CamerasKept(o)
  BY CamerasAreKept
<1>3. /\ todo' \in [Operators -> SUBSET DOMAIN cameras'] /\ DOMAIN rows' = Operators
      /\ alert' \in Alerts /\ health' \in [1 .. MaxCameras -> Healths]
      /\ stale' \subseteq Operators /\ suspect' \in BOOLEAN
      /\ loaded' \in [Operators -> Alerts \cup Healths]
      /\ wanted' \in [Operators -> {"NEW", "ACKNOWLEDGED", "RESOLVED"}]
  BY <1>1, <1>2 DEF CamerasKept, Shape, TypeOK
<1>4. Others(o)
  BY <1>1, <1>2 DEF Others, CamerasKept
<1>5. RowsShape(o)' /\ RequestShape(o)'
  <2>1. RowsShape(o) /\ RequestShape(o)
    BY DEF Shape, TypeOK, RowsShape, Refreshing
  <2> QED
    BY <1>1, <1>2, <2>1 DEF CamerasKept, Refreshing, RowsShape, RequestShape
<1> QED
  BY <1>1, <1>2, <1>3, <1>4, <1>5, ShapeOfOthers DEF CamerasKept

LEMMA Steps ==
  ASSUME Next
  PROVE  \E o \in Operators :
           \/ LoadAlert(o) \/ CommitAlert(o)
           \/ ListCameras(o) \/ QueryHealth(o) \/ ReadFrame(o)
           \/ CommitHealth(o) \/ RefreshFails(o)
           \/ CamerasStep(o)
BY DEF Next, Handle, CamerasStep

LEMMA ShapeInit == Init => Shape
<1> SUFFICES ASSUME Init PROVE Shape
  OBVIOUS
<1> USE DEF Init, CamerasInit
<1>1. SomeFile \in Files
  BY CamerasAssumption DEF SomeFile
<1>2. 0 \in Times /\ Never \in Times
  BY CamerasAssumption DEF Times, Never
<1> DEFINE row == [status |-> "Active", file |-> SomeFile, shows |-> 0]
<1>3. row \in CameraRows
  BY <1>1, <1>2 DEF CameraRows
<1>4. cameras \in Seq(CameraRows) /\ Len(cameras) = 1 /\ Len(cameras) \in 1 .. MaxCameras
  BY <1>3, CamerasAssumption
<1>5. CamerasTypeOK
  BY <1>1, <1>2, <1>4, CamerasAssumption DEF CamerasTypeOK, Nobodys
<1>6. ASSUME NEW o \in Operators
      PROVE  RowsShape(o) /\ RequestShape(o)
  <2>1. rows[o] = NoRows /\ pc[o] = "idle" /\ DOMAIN NoRows = {}
    BY DEF NoRows
  <2>2. NoRows \in [DOMAIN NoRows -> [old : Healths, new : Healths]]
    BY DEF NoRows
  <2> QED
    BY <2>1, <2>2 DEF RowsShape, RequestShape
<1>7. TypeOK
  BY <1>5, <1>6, RowTypes DEF TypeOK, RowsShape, Refreshing
<1> QED
  BY <1>6, <1>7 DEF Shape

LEMMA ShapeStep == Shape /\ [Next]_vars => Shape'
<1> SUFFICES ASSUME Shape, [Next]_vars PROVE Shape'
  OBVIOUS
<1>1. CASE Next
  BY <1>1, Steps, ShapeOfAlerts, ShapeOfRefreshes, ShapeOfReadFrame, ShapeOfCameras
<1>2. CASE UNCHANGED vars
  <2>1. UNCHANGED <<cameras, picture, pc, now, file, target, writer, requests, contested,
                    alert, health, loaded, wanted, todo, rows, stale, suspect>>
    BY <1>2 DEF vars, shared, camerasVars, locals
  <2>2. CamerasTypeOK'
    BY <2>1 DEF Shape, TypeOK, CamerasTypeOK
  <2>3. TypeOK'
    BY <2>1, <2>2 DEF Shape, TypeOK
  <2> QED
    BY <2>1, <2>3 DEF Shape, RequestShape
<1> QED
  BY <1>1, <1>2

\* Every variable has its type, and a request that has come to a step has got
\* what the step needs: a refresh that asks for a camera's row has a camera left.
THEOREM OperationsTypes == Spec => []TypeOK
<1>1. Shape => TypeOK
  BY DEF Shape
<1> QED
  BY <1>1, ShapeInit, ShapeStep, PTL DEF Spec

-----------------------------------------------------------------------------
(* The alert.                                                              *)

LEMMA FlushedBy ==
  ASSUME Shape, NEW o \in Operators, pc[o] = "patch", AlertInv, o \notin stale
  PROVE  Flushed(alert, loaded[o], Updated(loaded[o], o)) = Updated(alert, o)
<1>1. loaded[o] = alert /\ alert \in Alerts
  BY DEF AlertInv, Shape, TypeOK
<1> DEFINE new == Updated(alert, o)
<1>2. new \in Alerts
  BY <1>1, UpdatedFields
<1> HIDE DEF new
<1>3. Flushed(alert, alert, new) =
        [status |-> new.status, by |-> new.by, acknowledged |-> new.acknowledged,
         resolved |-> new.resolved]
  BY <1>1, <1>2, FlushedAlert DEF Kept
<1>4. Flushed(alert, alert, new) = new
  BY <1>2, <1>3 DEF Alerts
<1> QED
  BY <1>1, <1>4 DEF new

LEMMA AcknowledgedUpdate ==
  ASSUME Shape, NEW o \in Operators, pc[o] = "patch", NEW row \in Alerts, NEW old \in Alerts,
         AcknowledgedRow(row), AcknowledgedRow(old)
  PROVE  AcknowledgedRow(Flushed(row, old, Updated(old, o)))
<1> DEFINE new == Updated(old, o)
<1>1. o # Nobody /\ now[o] # Never
  BY CamerasAssumption DEF Shape, RequestShape
<1>2. /\ new \in Alerts
      /\ \/ new.by = Nobody /\ new.acknowledged = Never
         \/ new.by = o /\ new.acknowledged = now[o] /\ old.acknowledged = Never
         \/ new.by = old.by /\ new.acknowledged = old.acknowledged
  BY UpdatedFields DEF NewAlert
<1> HIDE DEF new
<1>3. /\ Flushed(row, old, new).by = Kept(row.by, old.by, new.by)
      /\ Flushed(row, old, new).acknowledged
           = Kept(row.acknowledged, old.acknowledged, new.acknowledged)
  BY <1>2, FlushedAlert
<1>4. AcknowledgedRow(Flushed(row, old, new))
  BY <1>1, <1>2, <1>3 DEF AcknowledgedRow, Kept
<1> QED
  BY <1>4 DEF new

LEMMA NotAboutTheAlert ==
  ASSUME Shape, NEW o \in Operators,
         \/ ListCameras(o) \/ QueryHealth(o) \/ ReadFrame(o)
         \/ CommitHealth(o) \/ RefreshFails(o)
         \/ CamerasStep(o)
  PROVE  Others(o) /\ pc'[o] # "patch" /\ UNCHANGED <<alert, stale, suspect>>
<1>1. CASE ListCameras(o)
  <2> DEFINE label == IF Active = {} THEN "commit" ELSE "query"
  <2>1. Request(o) /\ Goto(o, label) /\ label \in Labels /\ label # "patch"
    BY <1>1 DEF ListCameras, Labels
  <2> HIDE DEF label
  <2>2. pc'[o] # "patch"
    BY <2>1, Requested
  <2> QED
    BY <1>1, <2>2, ShapeOfRefreshes DEF ListCameras
<1>2. CASE QueryHealth(o)
  <2>1. Goto(o, "frame") /\ "frame" \in Labels /\ now' = now
    BY <1>2 DEF QueryHealth, Labels
  <2>2. pc'[o] # "patch"
    BY <2>1, Moved
  <2> QED
    BY <1>2, <2>2, ShapeOfRefreshes DEF QueryHealth
<1>3. CASE ReadFrame(o)
  BY <1>3, ReadFrameEffect, ShapeOfReadFrame
<1>4. CASE CommitHealth(o)
  <2>1. Return(o) /\ UNCHANGED <<camerasVars, alert, stale, suspect>>
    BY <1>4 DEF CommitHealth
  <2> QED
    BY <2>1, Returned
<1>5. CASE RefreshFails(o)
  <2>1. Return(o) /\ UNCHANGED <<camerasVars, alert, stale, suspect>>
    BY <1>5 DEF RefreshFails
  <2> QED
    BY <2>1, Returned
<1>6. CASE CamerasStep(o)
  BY <1>6, ShapeOfCameras DEF CamerasKept
<1> QED
  BY <1>1, <1>2, <1>3, <1>4, <1>5, <1>6

LEMMA AlertStep == Shape /\ AlertInv /\ [Next]_vars => AlertInv'
<1> SUFFICES ASSUME Shape, AlertInv, [Next]_vars PROVE AlertInv'
  OBVIOUS
<1>1. ASSUME NEW o \in Operators, LoadAlert(o) PROVE AlertInv'
  <2>1. Request(o) /\ Goto(o, "patch") /\ "patch" \in Labels
    BY <1>1 DEF LoadAlert, Labels
  <2>2. /\ loaded'[o] = alert /\ alert' = alert /\ stale' = stale \ {o} /\ Others(o)
    BY <1>1, ShapeOfAlerts DEF LoadAlert, Shape, TypeOK
  <2> QED
    BY <2>1, <2>2 DEF AlertInv, Others, AcknowledgedRow
<1>2. ASSUME NEW o \in Operators, CommitAlert(o) PROVE AlertInv'
  <2>1. /\ pc[o] = "patch" /\ Return(o) /\ UNCHANGED camerasVars
        /\ alert' = Flushed(alert, loaded[o], Updated(loaded[o], o))
        /\ stale' = stale \cup {p \in Operators \ {o} : pc[p] = "patch"}
    BY <1>2 DEF CommitAlert
  <2>2. Others(o) /\ pc'[o] = "idle"
    BY <2>1, Returned
  <2>3. AcknowledgedRow(alert)'
    <3>1. /\ alert \in Alerts /\ loaded[o] \in Alerts
          /\ AcknowledgedRow(alert) /\ AcknowledgedRow(loaded[o])
      BY <2>1 DEF Shape, TypeOK, RequestShape, AlertInv
    <3>2. AcknowledgedRow(alert')
      BY <2>1, <3>1, AcknowledgedUpdate
    <3> QED
      BY <3>2 DEF AcknowledgedRow
  <2>4. ASSUME NEW p \in Operators, pc'[p] = "patch"
        PROVE  AcknowledgedRow(loaded[p])' /\ p \in stale'
    <3>1. p # o /\ pc[p] = "patch" /\ loaded'[p] = loaded[p]
      BY <2>2, <2>4 DEF Others
    <3> QED
      BY <2>1, <3>1 DEF AlertInv, AcknowledgedRow
  <2> QED
    BY <2>3, <2>4 DEF AlertInv
<1>3. ASSUME NEW o \in Operators,
             Others(o), pc'[o] # "patch", UNCHANGED <<alert, stale, suspect>>
      PROVE  AlertInv'
  BY <1>3 DEF AlertInv, Others, AcknowledgedRow
<1>4. CASE UNCHANGED vars
  BY <1>4 DEF AlertInv, AcknowledgedRow, vars, shared, locals
<1> QED
  BY <1>1, <1>2, <1>3, <1>4, Steps, NotAboutTheAlert

\* Of an alert, who acknowledged it and when are both known or both not, however
\* the requests that change it overlap.
THEOREM OperationsAcknowledged == Spec => []AcknowledgedBySomebody
<1>1. Init => AlertInv
  BY DEF Init, CamerasInit, AlertInv, AcknowledgedRow, NewAlert
<1>2. AlertInv => AcknowledgedBySomebody
  BY DEF AlertInv, AcknowledgedRow, AcknowledgedBySomebody
<1> QED
  BY <1>1, <1>2, ShapeInit, ShapeStep, AlertStep, PTL DEF Spec

\* The status of an alert and its times agree, unless a request wrote it that
\* had loaded what was overwritten meanwhile.
THEOREM OperationsAlertAgrees == Spec => []AlertAgreesUnlessSuspect
<1>1. Init => AlertInv /\ AlertAgreesUnlessSuspect
  BY DEF Init, CamerasInit, AlertInv, AcknowledgedRow, NewAlert, AlertAgreesUnlessSuspect
<1>2. Shape /\ AlertInv /\ AlertAgreesUnlessSuspect /\ [Next]_vars
        => AlertAgreesUnlessSuspect'
  <2> SUFFICES ASSUME Shape, AlertInv, AlertAgreesUnlessSuspect, [Next]_vars
               PROVE  AlertAgreesUnlessSuspect'
    OBVIOUS
  <2>1. ASSUME NEW o \in Operators, CommitAlert(o), o \notin stale
        PROVE  AlertAgreesUnlessSuspect'
    <3>1. pc[o] = "patch" /\ alert \in Alerts /\ now[o] # Never
      BY <2>1 DEF CommitAlert, Shape, TypeOK, RequestShape
    <3>2. alert' = Updated(alert, o)
      BY <2>1, <3>1, FlushedBy DEF CommitAlert
    <3>3. wanted[o] \in {"NEW", "ACKNOWLEDGED", "RESOLVED"}
      BY DEF Shape, TypeOK
    <3>4. CASE wanted[o] = "NEW"
      BY <3>1, <3>2, <3>4, UpdatedFields DEF AlertAgreesUnlessSuspect, NewAlert
    <3>5. CASE wanted[o] # "NEW"
      BY <3>1, <3>2, <3>3, <3>5, UpdatedFields DEF AlertAgreesUnlessSuspect
    <3> QED
      BY <3>4, <3>5
  <2>2. ASSUME NEW o \in Operators, CommitAlert(o), o \in stale
        PROVE  AlertAgreesUnlessSuspect'
    BY <2>2 DEF CommitAlert, AlertAgreesUnlessSuspect
  <2>3. CASE UNCHANGED <<alert, stale, suspect>>
    BY <2>3 DEF AlertAgreesUnlessSuspect, NewAlert
  <2>4. ASSUME NEW o \in Operators, LoadAlert(o)
        PROVE  AlertAgreesUnlessSuspect'
    BY <2>4 DEF LoadAlert, AlertAgreesUnlessSuspect, NewAlert
  <2>5. UNCHANGED vars => UNCHANGED <<alert, stale, suspect>>
    BY DEF vars
  <2> QED
    BY <2>1, <2>2, <2>3, <2>4, <2>5, Steps, NotAboutTheAlert
<1> QED
  BY <1>1, <1>2, ShapeInit, ShapeStep, AlertStep, PTL DEF Spec

\* The operator who acknowledged first stays the one who acknowledged, unless a
\* request that was overtaken takes the place.
THEOREM OperationsFirstAcknowledgement == Spec => FirstAcknowledgementStays
<1>1. Init => AlertInv
  BY DEF Init, CamerasInit, AlertInv, AcknowledgedRow, NewAlert
<1>2. Shape /\ AlertInv /\ [Next]_vars =>
        [alert.by # Nobody /\ alert'.by # Nobody /\ alert'.by # alert.by => suspect']_vars
  <2> SUFFICES ASSUME Shape, AlertInv, Next, alert.by # Nobody,
                      alert'.by # Nobody, alert'.by # alert.by
               PROVE  suspect'
    OBVIOUS
  <2>1. PICK o \in Operators : CommitAlert(o)
    BY Steps, NotAboutTheAlert DEF LoadAlert
  <2>2. CASE o \in stale
    BY <2>1, <2>2 DEF CommitAlert
  <2>3. CASE o \notin stale
    <3>1. pc[o] = "patch" /\ alert \in Alerts
      BY <2>1 DEF CommitAlert, Shape, TypeOK
    <3>2. alert' = Updated(alert, o)
      BY <2>1, <2>3, <3>1, FlushedBy DEF CommitAlert
    <3>3. alert.acknowledged # Never
      BY DEF AlertInv, AcknowledgedRow
    <3> QED
      BY <3>1, <3>2, <3>3, UpdatedFields DEF NewAlert
  <2> QED
    BY <2>2, <2>3
<1> QED
  BY <1>1, <1>2, ShapeInit, ShapeStep, AlertStep, PTL DEF Spec, FirstAcknowledgementStays

-----------------------------------------------------------------------------
(* Updates of the alert that do not overlap.                               *)

OneUpdateAtATime ==
  \A o, p \in Operators : pc[o] = "patch" /\ pc[p] = "patch" => o = p

AlertAgrees ==
  \/ alert = NewAlert
  \/ /\ alert.status # "NEW"
     /\ alert.acknowledged # Never
     /\ alert.status = "RESOLVED" <=> alert.resolved # Never

NothingStale == stale = {} /\ ~suspect

LEMMA NothingBecomesStale ==
  Shape /\ NothingStale /\ OneUpdateAtATime /\ [Next]_vars => NothingStale'
<1> SUFFICES ASSUME Shape, NothingStale, OneUpdateAtATime, [Next]_vars
             PROVE  NothingStale'
  OBVIOUS
<1>1. ASSUME NEW o \in Operators, LoadAlert(o) PROVE NothingStale'
  BY <1>1 DEF LoadAlert, NothingStale
<1>2. ASSUME NEW o \in Operators, CommitAlert(o) PROVE NothingStale'
  BY <1>2 DEF CommitAlert, NothingStale, OneUpdateAtATime
<1>3. CASE UNCHANGED vars
  BY <1>3 DEF vars, NothingStale
<1> QED
  BY <1>1, <1>2, <1>3, Steps, NotAboutTheAlert DEF NothingStale

\* Served one after the other, updates leave every alert with a status and times
\* that agree, and with the operator who acknowledged it first until it is
\* reopened.
THEOREM OperationsAlertInTurn ==
  Spec /\ []OneUpdateAtATime =>
    /\ []AlertAgrees
    /\ [][alert.by # Nobody /\ alert'.by # Nobody => alert'.by = alert.by]_vars
<1>1. Init => Shape /\ NothingStale
  BY ShapeInit DEF Init, NothingStale
<1>2. Spec /\ []OneUpdateAtATime => []NothingStale
  BY <1>1, ShapeStep, NothingBecomesStale, PTL DEF Spec
<1>3. NothingStale /\ AlertAgreesUnlessSuspect => AlertAgrees
  BY DEF NothingStale, AlertAgreesUnlessSuspect, AlertAgrees
<1>4. NothingStale' /\
      [alert.by # Nobody /\ alert'.by # Nobody /\ alert'.by # alert.by => suspect']_vars
        => [alert.by # Nobody /\ alert'.by # Nobody => alert'.by = alert.by]_vars
  BY DEF NothingStale
<1> QED
  BY <1>2, <1>3, <1>4, OperationsAlertAgrees, OperationsFirstAcknowledgement, PTL
     DEF FirstAcknowledgementStays

-----------------------------------------------------------------------------
(* The health of the cameras.                                              *)

LEMMA CommittedRow ==
  ASSUME NEW row \in Healths, NEW old \in Healths, NEW hasFrame \in BOOLEAN,
         NEW time \in Times, time # Never,
         HealthRow(row), HealthRow(old), Outlived(old, row),
         old.status = "Absent" => row.status = "Absent"
  PROVE  LET new == Flushed(row, old, Observed(old, hasFrame, time))
         IN  HealthRow(new) /\ Outlived(row, new) /\ new.status # "Absent"
<1> DEFINE seen == Observed(old, hasFrame, time)
           new == Flushed(row, old, seen)
<1>1. /\ seen \in Healths
      /\ seen.status =
           IF hasFrame THEN "ONLINE" ELSE IF old.seen # Never THEN "STALE" ELSE "UNKNOWN"
      /\ seen.seen = (IF hasFrame THEN time ELSE old.seen)
      /\ seen.recent = hasFrame
  BY ObservedFields
<1> HIDE DEF seen
<1>2. /\ new.status = Kept(row.status, old.status, seen.status)
      /\ new.seen = Kept(row.seen, old.seen, seen.seen)
      /\ new.recent = Kept(row.recent, old.recent, seen.recent)
  BY <1>1, FlushedHealth
<1>3. /\ row.recent \in BOOLEAN /\ old.recent \in BOOLEAN
      /\ row.status \in {"Absent", "UNKNOWN", "STALE", "ONLINE"}
      /\ old.status \in {"Absent", "UNKNOWN", "STALE", "ONLINE"}
  BY DEF Healths
<1> HIDE DEF new
<1>4. /\ new.status = IF old.status = seen.status THEN row.status ELSE seen.status
      /\ new.seen = IF old.seen = seen.seen THEN row.seen ELSE seen.seen
      /\ new.recent = IF old.recent = hasFrame THEN row.recent ELSE hasFrame
  BY <1>1, <1>2 DEF Kept
<1>5. /\ row.status \in {"Absent", "UNKNOWN"} <=> row.seen = Never
      /\ old.status \in {"Absent", "UNKNOWN"} <=> old.seen = Never
      /\ row.recent = TRUE <=> row.status = "ONLINE"
      /\ old.recent = TRUE <=> old.status = "ONLINE"
  BY <1>3 DEF HealthRow
<1>6. /\ old.seen # Never => row.seen # Never
      /\ old.status # "Absent" => row.status # "Absent"
  BY DEF Outlived
<1>7. /\ new.status \in {"Absent", "UNKNOWN"} <=> new.seen = Never
      /\ row.seen # Never => new.seen # Never
      /\ row.status # "Absent" => new.status # "Absent"
      /\ new.status # "Absent"
  <2>1. CASE hasFrame
    BY <1>1, <1>3, <1>4, <1>5, <1>6, <2>1
  <2>2. CASE ~hasFrame /\ old.seen # Never
    BY <1>1, <1>3, <1>4, <1>5, <1>6, <2>2
  <2>3. CASE ~hasFrame /\ old.seen = Never
    BY <1>1, <1>3, <1>4, <1>5, <1>6, <2>3
  <2> QED
    BY <2>1, <2>2, <2>3
<1>8. new.recent = TRUE <=> new.status = "ONLINE"
  <2>1. CASE hasFrame = TRUE /\ old.recent = TRUE
    <3>1. new.status = row.status /\ new.recent = row.recent
      BY <1>1, <1>4, <1>5, <2>1
    <3> QED
      BY <1>5, <3>1
  <2>2. CASE hasFrame = TRUE /\ old.recent = FALSE
    <3>1. new.status = "ONLINE" /\ new.recent = TRUE
      BY <1>1, <1>4, <1>5, <2>2
    <3> QED
      BY <3>1
  <2>3. CASE hasFrame = FALSE /\ old.recent = TRUE
    <3>1. new.status = seen.status /\ seen.status # "ONLINE" /\ new.recent = FALSE
      BY <1>1, <1>4, <1>5, <2>3
    <3> QED
      BY <3>1
  <2>4. CASE hasFrame = FALSE /\ old.recent = FALSE
    <3>1. new.recent = row.recent /\ seen.status # "ONLINE" /\ old.status # "ONLINE"
      BY <1>1, <1>4, <1>5, <2>4
    <3>2. CASE old.status # seen.status
      <4>1. old.status = "Absent" /\ row.status = "Absent"
        BY <1>1, <1>3, <1>5, <2>4, <3>1, <3>2
      <4>2. new.status # "ONLINE" /\ row.status # "ONLINE"
        BY <1>4, <3>1, <3>2, <4>1
      <4> QED
        BY <1>5, <3>1, <4>2
    <3>3. CASE old.status = seen.status
      BY <1>4, <1>5, <3>1, <3>3
    <3> QED
      BY <3>2, <3>3
  <2> QED
    BY <1>3, <2>1, <2>2, <2>3, <2>4
<1>9. new.recent \in BOOLEAN
  BY <1>3, <1>4
<1>10. HealthRow(new)
  BY <1>7, <1>8, <1>9 DEF HealthRow
<1>11. Outlived(row, new) /\ new.status # "Absent"
  BY <1>7 DEF Outlived
<1> QED
  BY <1>10, <1>11 DEF new, seen

LEMMA HealthOfOthers ==
  ASSUME Shape, HealthInv, NEW o \in Operators, Others(o),
         \A c \in 1 .. MaxCameras : HealthRow(health'[c]) /\ Outlived(health[c], health'[c]),
         FrameInv(o)', RowsInv(o)'
  PROVE  HealthInv'
<1>1. ASSUME NEW p \in Operators, p # o
      PROVE  FrameInv(p)' /\ RowsInv(p)'
  <2>1. /\ pc'[p] = pc[p] /\ now'[p] = now[p]
        /\ loaded'[p] = loaded[p] /\ todo'[p] = todo[p] /\ rows'[p] = rows[p]
    BY <1>1 DEF Others
  <2>2. FrameInv(p) /\ RowsInv(p)
    BY DEF HealthInv
  <2>3. FrameInv(p)'
    <3> SUFFICES ASSUME pc[p] = "frame"
                 PROVE  HealthRow(loaded[p]) /\ Outlived(loaded[p], health'[Upcoming(p)])
      BY <2>1 DEF FrameInv, Upcoming, HealthRow, Outlived
    <3>1. todo[p] # {} /\ todo[p] \in SUBSET (1 .. MaxCameras) /\ todo[p] \in SUBSET Nat
      BY CamerasDomain DEF Shape, TypeOK, RequestShape
    <3>2. Upcoming(p) \in 1 .. MaxCameras
      BY <3>1, UpcomingIsNext
    <3> QED
      BY <2>2, <3>2 DEF FrameInv, Outlived
  <2>4. ASSUME NEW c \in DOMAIN rows[p]
        PROVE  Outlived(rows[p][c].old, health'[c])
    <3>1. c \in 1 .. MaxCameras
      BY CamerasDomain DEF Shape, TypeOK, RequestShape
    <3> QED
      BY <2>2, <3>1 DEF RowsInv, Outlived
  <2>5. RowsInv(p)'
    BY <2>1, <2>2, <2>4 DEF RowsInv, HealthRow, Outlived, Observed
  <2> QED
    BY <2>3, <2>5
<1> QED
  BY <1>1 DEF HealthInv, HealthRow

LEMMA HealthUntouched ==
  ASSUME Shape, HealthInv, NEW o \in Operators, Others(o), UNCHANGED health,
         pc'[o] # "frame", rows'[o] = NoRows
  PROVE  HealthInv'
<1>1. \A c \in 1 .. MaxCameras : HealthRow(health'[c]) /\ Outlived(health[c], health'[c])
  BY DEF HealthInv, Outlived
<1>2. FrameInv(o)'
  BY DEF FrameInv
<1>3. RowsInv(o)'
  BY DEF RowsInv, NoRows
<1> QED
  BY <1>1, <1>2, <1>3, HealthOfOthers

LEMMA CommitHealthEffect ==
  ASSUME Shape, HealthInv, NEW o \in Operators, CommitHealth(o), NEW c \in 1 .. MaxCameras
  PROVE  /\ HealthRow(health'[c]) /\ Outlived(health[c], health'[c])
         /\ c \in DOMAIN rows[o] => health'[c].status # "Absent"
         /\ c \notin DOMAIN rows[o] => health'[c] = health[c]
<1>1. health'[c] = IF c \in DOMAIN rows[o]
                   THEN Flushed(health[c], rows[o][c].old, rows[o][c].new)
                   ELSE health[c]
  BY DEF CommitHealth, AllReady
<1>2. CASE c \notin DOMAIN rows[o]
  BY <1>1, <1>2 DEF HealthInv, Outlived
<1>3. CASE c \in DOMAIN rows[o]
  <2>1. rows[o][c] \in [old : Healths, new : Healths]
    BY <1>3 DEF Shape, TypeOK
  <2>2. rows[o][c].old \in Healths /\ health[c] \in Healths
    BY <2>1 DEF Shape, TypeOK
  <2>3. now[o] \in Times /\ now[o] # Never
    BY DEF Shape, TypeOK, CamerasTypeOK, RequestShape, CommitHealth
  <2>4. /\ HealthRow(health[c])
        /\ HealthRow(rows[o][c].old) /\ Outlived(rows[o][c].old, health[c])
    BY <1>3 DEF HealthInv, RowsInv
  <2>5. PICK hasFrame \in BOOLEAN :
             rows[o][c].new = Observed(rows[o][c].old, hasFrame, now[o])
    BY <1>3 DEF HealthInv, RowsInv
  <2>6. rows[o][c].old.status = "Absent" => health[c].status = "Absent"
    BY <1>3 DEF CommitHealth, Conflict
  <2> QED
    BY <1>1, <1>3, <2>2, <2>3, <2>4, <2>5, <2>6, CommittedRow
<1> QED
  BY <1>2, <1>3

LEMMA HealthStep == Shape /\ HealthInv /\ [Next]_vars => HealthInv'
<1> SUFFICES ASSUME Shape, HealthInv, [Next]_vars PROVE HealthInv'
  OBVIOUS
<1>1. ASSUME NEW o \in Operators, LoadAlert(o) PROVE HealthInv'
  <2>1. Request(o) /\ Goto(o, "patch") /\ "patch" \in Labels
    BY <1>1 DEF LoadAlert, Labels
  <2>2. pc[o] = "idle" /\ pc'[o] = "patch"
    BY <2>1, Requested
  <2>3. rows'[o] = NoRows
    BY <1>1, <2>2 DEF LoadAlert, Shape, TypeOK
  <2> QED
    BY <1>1, <2>2, <2>3, ShapeOfAlerts, HealthUntouched DEF LoadAlert
<1>2. ASSUME NEW o \in Operators, Return(o), UNCHANGED camerasVars, UNCHANGED health
      PROVE  HealthInv'
  <2>1. rows'[o] = NoRows
    BY <1>2 DEF Return, SessionRemoved, Shape
  <2> QED
    BY <1>2, <2>1, Returned, HealthUntouched
<1>3. ASSUME NEW o \in Operators, ListCameras(o) PROVE HealthInv'
  <2> DEFINE label == IF Active = {} THEN "commit" ELSE "query"
  <2>1. Request(o) /\ Goto(o, label) /\ label \in Labels /\ label # "frame"
    BY <1>3 DEF ListCameras, Labels
  <2> HIDE DEF label
  <2>2. pc[o] = "idle" /\ pc'[o] # "frame"
    BY <2>1, Requested
  <2>3. rows'[o] = NoRows
    BY <1>3, <2>2 DEF ListCameras, Shape, TypeOK
  <2> QED
    BY <1>3, <2>2, <2>3, ShapeOfRefreshes, HealthUntouched DEF ListCameras
<1>4. ASSUME NEW o \in Operators, QueryHealth(o) PROVE HealthInv'
  <2>1. /\ UNCHANGED <<health, rows, now, todo>> /\ Others(o)
        /\ loaded'[o] = health[Upcoming(o)] /\ pc[o] = "query"
    BY <1>4, ShapeOfRefreshes DEF QueryHealth, Shape, TypeOK
  <2>2. todo[o] # {} /\ todo[o] \in SUBSET (1 .. MaxCameras) /\ todo[o] \in SUBSET Nat
    BY <2>1, CamerasDomain DEF Shape, TypeOK, RequestShape
  <2>3. HealthRow(health[Upcoming(o)])
    BY <2>2, UpcomingIsNext DEF HealthInv
  <2>4. FrameInv(o)'
    BY <2>1, <2>3 DEF FrameInv, HealthRow, Outlived, Upcoming
  <2>5. RowsInv(o)
    BY DEF HealthInv
  <2>6. RowsInv(o)'
    BY <2>1, <2>5 DEF RowsInv, HealthRow, Outlived, Observed
  <2>7. \A c \in 1 .. MaxCameras : HealthRow(health'[c]) /\ Outlived(health[c], health'[c])
    BY <2>1 DEF HealthInv, Outlived
  <2> QED
    BY <2>1, <2>4, <2>6, <2>7, HealthOfOthers
<1>5. ASSUME NEW o \in Operators, ReadFrame(o) PROVE HealthInv'
  <2>1. PICK hasFrame \in BOOLEAN : Looked(o, hasFrame)
    BY <1>5, ReadFrameEffect
  <2>2. /\ DOMAIN rows'[o] = DOMAIN rows[o] \cup {Upcoming(o)}
        /\ \A d \in DOMAIN rows[o] \ {Upcoming(o)} : rows'[o][d] = rows[o][d]
        /\ rows'[o][Upcoming(o)] =
             [old |-> loaded[o], new |-> Observed(loaded[o], hasFrame, now[o])]
    BY <2>1, LookedEffect
  <2>3. pc[o] = "frame" /\ pc'[o] # "frame" /\ UNCHANGED <<health, now>> /\ Others(o)
    BY <1>5, ReadFrameEffect, ShapeOfReadFrame
  <2>4. FrameInv(o) /\ RowsInv(o)
    BY DEF HealthInv
  <2>5. FrameInv(o)'
    BY <2>3 DEF FrameInv
  <2>6. ASSUME NEW d \in DOMAIN rows'[o]
        PROVE  /\ HealthRow(rows'[o][d].old) /\ Outlived(rows'[o][d].old, health[d])
               /\ \E seen \in BOOLEAN :
                    rows'[o][d].new = Observed(rows'[o][d].old, seen, now[o])
    <3>1. CASE d = Upcoming(o)
      BY <2>2, <2>3, <2>4, <3>1 DEF FrameInv
    <3>2. CASE d \in DOMAIN rows[o] \ {Upcoming(o)}
      BY <2>2, <2>4, <3>2 DEF RowsInv
    <3> QED
      BY <2>2, <3>1, <3>2
  <2>7. RowsInv(o)'
    BY <2>3, <2>6 DEF RowsInv, HealthRow, Outlived, Observed
  <2>8. \A c \in 1 .. MaxCameras : HealthRow(health'[c]) /\ Outlived(health[c], health'[c])
    BY <2>3 DEF HealthInv, Outlived
  <2> QED
    BY <2>3, <2>5, <2>7, <2>8, HealthOfOthers
<1>6. ASSUME NEW o \in Operators, CommitHealth(o) PROVE HealthInv'
  <2>1. Return(o) /\ UNCHANGED camerasVars
    BY <1>6 DEF CommitHealth
  <2>2. Others(o) /\ pc'[o] = "idle" /\ rows'[o] = NoRows
    BY <2>1, Returned DEF Return, SessionRemoved, Shape
  <2>3. FrameInv(o)' /\ RowsInv(o)'
    BY <2>2 DEF FrameInv, RowsInv, NoRows
  <2>4. \A c \in 1 .. MaxCameras : HealthRow(health'[c]) /\ Outlived(health[c], health'[c])
    BY <1>6, CommitHealthEffect
  <2> QED
    BY <2>2, <2>3, <2>4, HealthOfOthers
<1>7. ASSUME NEW o \in Operators, CamerasStep(o) PROVE HealthInv'
  <2>1. Others(o) /\ CamerasKept(o) /\ UNCHANGED <<health, rows>>
    BY <1>7, ShapeOfCameras
  <2>2. pc'[o] # "frame" /\ rows'[o] = NoRows
    BY <2>1 DEF CamerasKept, Refreshing, Shape, TypeOK
  <2> QED
    BY <2>1, <2>2, HealthUntouched
<1>8. CASE UNCHANGED vars
  <2>1. UNCHANGED <<pc, now, health, loaded, todo, rows>>
    BY <1>8 DEF vars, shared, locals
  <2> QED
    BY <2>1 DEF HealthInv, FrameInv, RowsInv, HealthRow, Outlived, Observed, Upcoming
<1>9. ASSUME NEW o \in Operators, CommitAlert(o) \/ RefreshFails(o)
      PROVE  Return(o) /\ UNCHANGED camerasVars /\ UNCHANGED health
  BY <1>9 DEF CommitAlert, RefreshFails
<1> QED
  BY <1>1, <1>2, <1>3, <1>4, <1>5, <1>6, <1>7, <1>8, <1>9, Steps

\* Status, time and detail of every health row agree, though refreshes that
\* overlap each write what they found changed.
THEOREM OperationsHealth == Spec => []HealthAgrees
<1>1. Init => HealthInv
  BY DEF Init, CamerasInit, HealthInv, HealthRow, FrameInv, RowsInv, NoRow, NoRows
<1>2. HealthInv => HealthAgrees
  BY DEF HealthInv, HealthRow, HealthAgrees
<1> QED
  BY <1>1, <1>2, ShapeInit, ShapeStep, HealthStep, PTL DEF Spec

-----------------------------------------------------------------------------
(* What a refresh has written.                                             *)

LEMMA CamerasChange ==
  ASSUME Shape, NEW o \in Operators, CamerasStep(o)
  PROVE  /\ Len(cameras) \in Nat /\ DOMAIN cameras = 1 .. Len(cameras)
         /\ \/ /\ Len(cameras)' = Len(cameras) /\ DOMAIN cameras' = DOMAIN cameras
               /\ Active' \subseteq Active
            \/ /\ Len(cameras)' = Len(cameras) + 1
               /\ DOMAIN cameras' = 1 .. (Len(cameras) + 1)
               /\ Active' \subseteq Active \cup {Len(cameras) + 1}
<1>0. CamerasTypeOK
  BY DEF Shape, TypeOK
<1>1. Len(cameras) \in 1 .. MaxCameras /\ MaxCameras \in Nat
  BY <1>0, CamerasAssumption DEF CamerasTypeOK
<1>2. Len(cameras) \in Nat /\ DOMAIN cameras = 1 .. Len(cameras)
  BY <1>0, <1>1, CamerasDomain
<1>3. CASE UNCHANGED cameras
  BY <1>2, <1>3 DEF Active
<1>4. CASE InsertCamera(o)
  <2> DEFINE row == [status |-> "Active", file |-> file[o], shows |-> now[o]]
  <2>1. CASE Len(cameras) < MaxCameras /\ cameras' = Append(cameras, row)
    <3>1. row \in CameraRows
      BY <1>0 DEF CamerasTypeOK, CameraRows
    <3> HIDE DEF row
    <3>2. /\ Len(cameras)' = Len(cameras) + 1 /\ DOMAIN cameras' = 1 .. Len(cameras)'
          /\ \A c \in DOMAIN cameras : cameras'[c] = cameras[c]
      BY <1>0, <2>1, <3>1, CameraAppended
    <3>3. DOMAIN cameras' = 1 .. (Len(cameras) + 1)
      BY <3>2
    <3>4. ASSUME NEW c \in Active'
          PROVE  c \in Active \cup {Len(cameras) + 1}
      <4>1. c \in 1 .. (Len(cameras) + 1) /\ cameras'[c].status = "Active"
        BY <3>3, <3>4 DEF Active
      <4>2. CASE c \in DOMAIN cameras
        BY <3>2, <4>1, <4>2 DEF Active
      <4>3. CASE c \notin DOMAIN cameras
        BY <1>2, <4>1, <4>3
      <4> QED
        BY <4>2, <4>3
    <3> QED
      BY <1>2, <3>2, <3>3, <3>4
  <2> QED
    BY <1>3, <1>4, <2>1 DEF InsertCamera
<1>5. CASE RemoveCamera(o)
  <2>1. CASE target[o] \in DOMAIN cameras
    BY <1>0, <1>2, <1>5, <2>1, CameraRemoved DEF RemoveCamera
  <2>2. CASE target[o] \notin DOMAIN cameras
    <3>1. cameras = [c \in DOMAIN cameras |-> cameras[c]]
      BY <1>0 DEF CamerasTypeOK
    <3>2. cameras' = cameras
      BY <1>5, <2>2, <3>1 DEF RemoveCamera
    <3> QED
      BY <1>3, <3>2
  <2> QED
    BY <2>1, <2>2
<1> QED
  BY <1>3, <1>4, <1>5
  DEF CamerasStep, OnCameras, BeginCameras, HandleCameras, AddCamera, LoadCamera,
      Capture, SaveSnapshot, FillSnapshot

LEMMA SweepUntouched ==
  ASSUME Shape, SweepInv, NEW o \in Operators, Others(o), UNCHANGED <<camerasVars, health>>,
         SweepOf(o)'
  PROVE  SweepInv'
<1>1. UNCHANGED cameras /\ Active' = Active
  BY DEF camerasVars, Active
<1>2. ASSUME NEW p \in Operators, p # o PROVE SweepOf(p)'
  BY <1>1, <1>2 DEF SweepInv, SweepOf, Others
<1> QED
  BY <1>1, <1>2 DEF SweepInv, RefreshIsAtomic

LEMMA SweepStep == Shape /\ HealthInv /\ SweepInv /\ [Next]_vars => SweepInv'
<1> SUFFICES ASSUME Shape, HealthInv, SweepInv, [Next]_vars PROVE SweepInv'
  OBVIOUS
<1>1. ASSUME NEW o \in Operators, Others(o), UNCHANGED <<camerasVars, health>>,
             pc'[o] \notin Refreshing
      PROVE  SweepInv'
  <2>1. SweepOf(o)'
    BY <1>1 DEF SweepOf
  <2> QED
    BY <1>1, <2>1, SweepUntouched
<1>2. ASSUME NEW o \in Operators, LoadAlert(o) PROVE SweepInv'
  <2>1. Request(o) /\ Goto(o, "patch") /\ "patch" \in Labels
    BY <1>2 DEF LoadAlert, Labels
  <2>2. pc'[o] \notin Refreshing
    BY <2>1, Requested DEF Refreshing
  <2> QED
    BY <1>1, <1>2, <2>2, ShapeOfAlerts DEF LoadAlert
<1>3. ASSUME NEW o \in Operators, CommitAlert(o) \/ RefreshFails(o) PROVE SweepInv'
  <2>1. Return(o) /\ UNCHANGED camerasVars /\ UNCHANGED health
    BY <1>3 DEF CommitAlert, RefreshFails
  <2>2. pc'[o] \notin Refreshing /\ Others(o)
    BY <2>1, Returned DEF Refreshing
  <2> QED
    BY <1>1, <2>1, <2>2
<1>4. ASSUME NEW o \in Operators, ListCameras(o) PROVE SweepInv'
  <2>1. todo'[o] = Active /\ UNCHANGED <<camerasVars, health>>
    BY <1>4 DEF ListCameras, Shape, TypeOK
  <2>2. SweepOf(o)'
    BY <2>1 DEF SweepOf, Active, camerasVars
  <2> QED
    BY <1>4, <2>1, <2>2, ShapeOfRefreshes, SweepUntouched
<1>5. ASSUME NEW o \in Operators, QueryHealth(o) PROVE SweepInv'
  <2>1. UNCHANGED <<camerasVars, health, todo, rows>> /\ pc[o] \in Refreshing
    BY <1>5 DEF QueryHealth, Refreshing
  <2>2. SweepOf(o)
    BY DEF SweepInv
  <2>3. SweepOf(o)'
    BY <2>1, <2>2 DEF SweepOf, Active, camerasVars
  <2> QED
    BY <1>5, <2>1, <2>3, ShapeOfRefreshes, SweepUntouched
<1>6. ASSUME NEW o \in Operators, ReadFrame(o) PROVE SweepInv'
  <2>1. /\ UNCHANGED <<camerasVars, health>> /\ Others(o) /\ pc[o] \in Refreshing
        /\ todo'[o] = todo[o] \ {Upcoming(o)} /\ Upcoming(o) \in todo[o]
    BY <1>6, ReadFrameEffect, ShapeOfReadFrame DEF Refreshing, Shape, TypeOK
  <2>2. DOMAIN rows'[o] = DOMAIN rows[o] \cup {Upcoming(o)}
    BY <1>6, ReadFrameEffect, LookedEffect
  <2>3. todo'[o] \cup DOMAIN rows'[o] = todo[o] \cup DOMAIN rows[o]
    BY <2>1, <2>2
  <2>4. SweepOf(o)
    BY DEF SweepInv
  <2>5. SweepOf(o)'
    BY <2>1, <2>3, <2>4 DEF SweepOf, Active, camerasVars
  <2> QED
    BY <2>1, <2>5, SweepUntouched
<1>7. ASSUME NEW o \in Operators, CommitHealth(o) PROVE SweepInv'
  <2>1. /\ Return(o) /\ UNCHANGED camerasVars /\ pc[o] = "commit"
    BY <1>7 DEF CommitHealth
  <2>2. Others(o) /\ pc'[o] = "idle" /\ UNCHANGED cameras /\ Active' = Active
    BY <2>1, Returned DEF camerasVars, Active
  <2>3. /\ todo[o] = {} /\ SweepOf(o)
        /\ DOMAIN rows[o] \subseteq DOMAIN cameras /\ DOMAIN cameras \subseteq 1 .. MaxCameras
        /\ DOMAIN cameras = 1 .. Len(cameras)
    BY <2>1, CamerasDomain DEF Shape, TypeOK, RequestShape, SweepInv
  <2>4. ASSUME NEW c \in 1 .. MaxCameras
        PROVE  /\ health[c].status # "Absent" => health'[c].status # "Absent"
               /\ c \in DOMAIN rows[o] => health'[c].status # "Absent"
               /\ c \notin DOMAIN rows[o] => health'[c] = health[c]
    BY <1>7, CommitHealthEffect DEF Outlived
  <2>5. ASSUME NEW p \in Operators PROVE SweepOf(p)'
    BY <2>2 DEF SweepInv, SweepOf, Others, Refreshing
  <2>6. ASSUME NEW c \in DOMAIN cameras, NEW d \in DOMAIN cameras, c < d,
               cameras[c].status = "Active", health'[d].status # "Absent"
        PROVE  health'[c].status # "Absent"
    <3>1. c \in Active /\ c \in 1 .. MaxCameras /\ d \in 1 .. MaxCameras
      BY <2>3, <2>6 DEF Active
    <3>2. CASE d \in DOMAIN rows[o]
      <4>1. c \in DOMAIN rows[o]
        BY <2>1, <2>3, <2>6, <3>1, <3>2 DEF SweepOf, Refreshing
      <4> QED
        BY <2>4, <3>1, <4>1
    <3>3. CASE d \notin DOMAIN rows[o]
      <4>1. health[d].status # "Absent"
        BY <2>4, <2>6, <3>1, <3>3
      <4>2. health[c].status # "Absent"
        BY <2>6, <4>1 DEF SweepInv, RefreshIsAtomic
      <4> QED
        BY <2>4, <3>1, <4>2
    <3> QED
      BY <3>2, <3>3
  <2>7. ASSUME NEW c \in 1 .. MaxCameras, health'[c].status # "Absent"
        PROVE  c <= Len(cameras)
    <3>1. CASE c \in DOMAIN rows[o]
      BY <2>3, <3>1
    <3>2. CASE c \notin DOMAIN rows[o]
      BY <2>4, <2>7, <3>2 DEF SweepInv
    <3> QED
      BY <3>1, <3>2
  <2> QED
    BY <2>2, <2>5, <2>6, <2>7 DEF SweepInv, RefreshIsAtomic
<1>8. ASSUME NEW o \in Operators, CamerasStep(o) PROVE SweepInv'
  <2>1. Others(o) /\ CamerasKept(o) /\ UNCHANGED <<health, todo, rows>>
    BY <1>8, ShapeOfCameras
  <2>2. /\ Len(cameras) \in Nat /\ DOMAIN cameras = 1 .. Len(cameras)
        /\ \A c \in 1 .. MaxCameras : health[c].status # "Absent" => c <= Len(cameras)
        /\ DOMAIN cameras \subseteq DOMAIN cameras' /\ Len(cameras) <= Len(cameras)'
        /\ DOMAIN cameras' \subseteq 1 .. MaxCameras
    <3>1. CamerasTypeOK' /\ MaxCameras \in Nat
      BY <2>1, CamerasAssumption DEF CamerasKept
    <3>2. DOMAIN cameras' \subseteq 1 .. MaxCameras
      BY <3>1 DEF CamerasTypeOK
    <3> QED
      BY <1>8, <2>1, <3>2, CamerasChange DEF SweepInv, CamerasKept
  <2>3. /\ Active' \subseteq Active \cup {Len(cameras) + 1}
        /\ Len(cameras)' \in Nat
    BY <1>8, CamerasChange
  <2>4. ASSUME NEW p \in Operators PROVE SweepOf(p)'
    <3> SUFFICES ASSUME pc'[p] \in Refreshing, NEW c \in Active',
                        NEW d \in todo[p] \cup DOMAIN rows[p], c < d
                 PROVE  c \in todo[p] \cup DOMAIN rows[p]
      BY <2>1 DEF SweepOf
    <3>1. pc[p] \in Refreshing
      BY <2>1 DEF Others, CamerasKept
    <3>2. d \in 1 .. Len(cameras)
      BY <2>2 DEF Shape, TypeOK, RequestShape
    <3>3. c \in Active
      BY <2>2, <2>3, <3>2
    <3> QED
      BY <3>1, <3>3 DEF SweepInv, SweepOf
  <2>5. ASSUME NEW c \in DOMAIN cameras', NEW d \in DOMAIN cameras', c < d,
               cameras'[c].status = "Active", health[d].status # "Absent"
        PROVE  health[c].status # "Absent"
    <3>1. c \in Active'
      BY <2>5 DEF Active
    <3>2. d <= Len(cameras) /\ d \in Nat /\ c \in Nat /\ d \in DOMAIN cameras
      BY <2>2, <2>5
    <3>3. c \in Active
      BY <2>2, <2>3, <2>5, <3>1, <3>2
    <3> QED
      BY <2>5, <3>2, <3>3 DEF SweepInv, RefreshIsAtomic, Active
  <2>6. ASSUME NEW c \in 1 .. MaxCameras, health[c].status # "Absent"
        PROVE  c <= Len(cameras)'
    BY <2>2, <2>3, <2>6
  <2> QED
    BY <2>1, <2>4, <2>5, <2>6 DEF SweepInv, RefreshIsAtomic
<1>9. CASE UNCHANGED vars
  <2>1. UNCHANGED <<cameras, pc, health, todo, rows>>
    BY <1>9 DEF vars, shared, camerasVars, locals
  <2> QED
    BY <2>1 DEF SweepInv, RefreshIsAtomic, SweepOf, Active
<1> QED
  BY <1>2, <1>3, <1>4, <1>5, <1>6, <1>7, <1>8, <1>9, Steps

\* A refresh writes all its rows or none: an active camera that is older than one
\* with a row has a row too, whatever cameras come and go during refreshes.
THEOREM OperationsRefreshIsAtomic == Spec => []RefreshIsAtomic
<1>1. Init => HealthInv
  BY DEF Init, CamerasInit, HealthInv, HealthRow, FrameInv, RowsInv, NoRow, NoRows
<1>2. Init => SweepInv
  BY DEF Init, CamerasInit, SweepInv, RefreshIsAtomic, SweepOf, Refreshing, NoRow
<1>3. SweepInv => RefreshIsAtomic
  BY DEF SweepInv
<1> QED
  BY <1>1, <1>2, <1>3, ShapeInit, ShapeStep, HealthStep, SweepStep, PTL DEF Spec

-----------------------------------------------------------------------------
(* The pictures.                                                           *)

AddingLabels == {"capture", "save", "fill", "insert"}

\* A step that adds no camera and touches no picture.
LEMMA PictureUntouched ==
  ASSUME Shape, PictureInv, NEW o \in Operators, UNCHANGED <<picture, contested>>,
         \A p \in Operators \ {o} : pc'[p] = pc[p] /\ now'[p] = now[p] /\ file'[p] = file[p],
         pc'[o] \in AddingLabels => pc[o] \in AddingLabels /\ file'[o] = file[o],
         pc'[o] # "insert",
         DOMAIN cameras' = DOMAIN cameras,
         \A c \in DOMAIN cameras : /\ cameras'[c].file = cameras[c].file
                                   /\ cameras'[c].shows = cameras[c].shows
  PROVE  PictureInv'
<1>1. Adding' \subseteq Adding /\ \A p \in Adding' : file'[p] = file[p]
  BY DEF Adding, AddingLabels
<1>2. ASSUME NEW p \in Adding', file'[p] \notin contested'
      PROVE  AddingInv(p)'
  <2>1. AddingInv(p)
    BY <1>1, <1>2 DEF PictureInv
  <2>2. pc'[p] = "insert" => pc[p] = "insert" /\ now'[p] = now[p]
    BY <1>1 DEF Adding
  <2> QED
    BY <1>1, <2>1, <2>2 DEF AddingInv
<1> QED
  BY <1>2 DEF PictureInv, PictureOfItsCamera

LEMMA PictureElsewhere ==
  ASSUME Shape, PictureInv, NEW o \in Operators, Others(o), UNCHANGED camerasVars,
         pc'[o] \notin AddingLabels
  PROVE  PictureInv'
<1>1. UNCHANGED <<cameras, picture, file, contested>>
  BY DEF camerasVars
<1> QED
  BY <1>1, PictureUntouched DEF Others, AddingLabels

\* A step of a request that is the only one for its file.
LEMMA FileOfOne ==
  ASSUME PictureInv, NEW o \in Adding, NEW p \in Adding, p # o,
         file[p] \notin contested
  PROVE  AddingInv(p) /\ file[p] # file[o]
BY DEF PictureInv, AddingInv

LEMMA PictureOfAdding ==
  ASSUME Shape, PictureInv, NEW o \in Operators, CamerasStep(o)
  PROVE  PictureInv'
<1>0. /\ CamerasTypeOK /\ file[o] \in Files /\ now[o] \in Times
  BY DEF Shape, TypeOK, CamerasTypeOK
<1>1. \A p \in Operators \ {o} : pc'[p] = pc[p] /\ now'[p] = now[p]
  BY CamerasAreKept DEF CamerasKept
<1>2. CASE AddCamera(o)
  <2>1. PICK f \in Files :
             /\ file' = [file EXCEPT ![o] = f]
             /\ contested' = IF Taken(f) THEN contested \cup {f} ELSE contested
    BY <1>2 DEF AddCamera
  <2>2. Request(o) /\ Goto(o, "capture") /\ "capture" \in Labels
        /\ UNCHANGED <<cameras, picture>>
    BY <1>2 DEF AddCamera, Labels
  <2>3. pc[o] = "idle" /\ pc'[o] = "capture"
    BY <2>2, Requested
  <2>4. file'[o] = f /\ \A p \in Operators \ {o} : file'[p] = file[p]
    BY <1>0, <2>1 DEF CamerasTypeOK
  <2>5. Adding' = Adding \cup {o} /\ o \notin Adding
    BY <1>1, <2>3 DEF Adding
  <2>6. contested \subseteq contested' /\ (f \notin contested' => ~Taken(f))
    BY <2>1
  <2>7. PictureOfItsCamera'
    BY <2>2, <2>6 DEF PictureInv, PictureOfItsCamera
  <2>8. ASSUME f \notin contested' PROVE AddingInv(o)'
    <3>1. /\ \A c \in DOMAIN cameras : cameras[c].file # f
          /\ \A p \in Adding : file[p] # f
      BY <2>6, <2>8 DEF Taken
    <3> QED
      BY <2>2, <2>3, <2>4, <2>5, <3>1 DEF AddingInv, Adding
  <2>9. ASSUME NEW p \in Adding, file[p] \notin contested'
        PROVE  AddingInv(p)'
    <3>1. AddingInv(p)
      BY <2>6, <2>9 DEF PictureInv
    <3>2. file[p] # f
      BY <2>1, <2>9 DEF Taken
    <3>3. p # o /\ p \in Operators
      BY <2>5 DEF Adding
    <3>4. \A q \in Adding' \ {p} : file'[q] # file'[p]
      BY <2>4, <2>5, <3>1, <3>2, <3>3 DEF AddingInv, Adding
    <3> QED
      BY <1>1, <2>2, <2>4, <3>1, <3>3, <3>4 DEF AddingInv
  <2>10. \A p \in Adding' : file'[p] \notin contested' => AddingInv(p)'
    BY <2>4, <2>5, <2>8, <2>9 DEF Adding
  <2> QED
    BY <2>7, <2>10 DEF PictureInv
<1>3. CASE LoadCamera(o)
  <2>1. Request(o) /\ Goto(o, "remove") /\ "remove" \in Labels
        /\ UNCHANGED <<cameras, picture, file, contested>>
    BY <1>3 DEF LoadCamera, Labels
  <2>2. pc'[o] = "remove"
    BY <2>1, Requested
  <2> QED
    BY <1>1, <2>1, <2>2, PictureUntouched DEF AddingLabels
\* A request that is answered gives its file up.
<1>4. ASSUME AnswerCameras(o), UNCHANGED <<picture, contested>>,
             DOMAIN cameras' = DOMAIN cameras,
             \A c \in DOMAIN cameras : /\ cameras'[c].file = cameras[c].file
                                       /\ cameras'[c].shows = cameras[c].shows
      PROVE  PictureInv'
  <2>1. pc'[o] = "idle" /\ \A p \in Operators \ {o} : file'[p] = file[p]
    BY <1>0, <1>4, Answered DEF AnswerCameras, CamerasTypeOK
  <2> QED
    BY <1>1, <1>4, <2>1, PictureUntouched DEF AddingLabels
<1>5. CASE Capture(o)
  <2>1. CASE Proceed(o, "save") /\ UNCHANGED <<file, target>>
    <3>1. Goto(o, "save") /\ "save" \in Labels /\ now' = now
      BY <2>1 DEF Proceed, Labels
    <3>2. pc[o] = "capture" /\ pc'[o] = "save" /\ UNCHANGED <<cameras, picture, file, contested>>
      BY <1>5, <2>1, <3>1, Moved DEF Capture
    <3> QED
      BY <1>1, <3>2, PictureUntouched DEF AddingLabels
  <2>2. CASE AnswerCameras(o)
    BY <1>4, <1>5, <2>2 DEF Capture
  <2> QED
    BY <1>5, <2>1, <2>2 DEF Capture
\* The picture changes only in a file that is of this request alone, or contested.
<1>6. ASSUME NEW label \in {"fill", "insert"}, NEW shown,
             Proceed(o, label), pc[o] \in {"save", "fill"},
             picture' = [picture EXCEPT ![file[o]] = shown],
             label = "insert" => shown = {now[o]},
             UNCHANGED <<cameras, file, contested>>
      PROVE  PictureInv'
  <2>1. pc'[o] = label /\ now' = now
    BY <1>6, Moved DEF Proceed, Labels
  <2>2. Adding' = Adding /\ o \in Adding
    BY <1>1, <1>6, <2>1 DEF Adding
  <2>3. /\ picture'[file[o]] = shown
        /\ \A f \in Files \ {file[o]} : picture'[f] = picture[f]
    BY <1>0, <1>6 DEF CamerasTypeOK
  <2>4. PictureOfItsCamera'
    <3> SUFFICES ASSUME NEW c \in DOMAIN cameras, cameras[c].file \notin contested
                 PROVE  picture'[cameras[c].file] = {cameras[c].shows}
      BY <1>6 DEF PictureOfItsCamera
    <3>1. cameras[c].file # file[o]
      BY <2>2 DEF PictureInv, AddingInv
    <3>2. cameras[c].file \in Files
      BY <1>0, CamerasDomain DEF CameraRows
    <3> QED
      BY <2>3, <3>1, <3>2 DEF PictureInv, PictureOfItsCamera
  <2>5. ASSUME NEW p \in Adding, file[p] \notin contested
        PROVE  AddingInv(p)'
    <3>1. AddingInv(p)
      BY <2>5 DEF PictureInv
    <3>2. CASE p = o
      BY <1>6, <2>1, <2>2, <2>3, <3>1, <3>2 DEF AddingInv
    <3>3. CASE p # o
      <4>1. file[p] # file[o] /\ p \in Operators
        BY <2>2, <2>5, <3>3, FileOfOne DEF Adding
      <4>2. file[p] \in Files /\ pc'[p] = pc[p] /\ now'[p] = now[p]
        BY <1>0, <1>1, <3>3, <4>1 DEF CamerasTypeOK
      <4> QED
        BY <1>6, <2>2, <2>3, <3>1, <4>1, <4>2 DEF AddingInv
    <3> QED
      BY <3>2, <3>3
  <2> QED
    BY <1>6, <2>2, <2>4, <2>5 DEF PictureInv
<1>7. CASE SaveSnapshot(o)
  BY <1>6, <1>7 DEF SaveSnapshot
<1>8. CASE FillSnapshot(o)
  BY <1>6, <1>8 DEF FillSnapshot
<1>9. CASE InsertCamera(o)
  <2>0. AnswerCameras(o) /\ UNCHANGED <<picture, contested>> /\ pc[o] = "insert"
    BY <1>9 DEF InsertCamera, Insertable
  <2> DEFINE row == [status |-> "Active", file |-> file[o], shows |-> now[o]]
  <2>1. CASE UNCHANGED cameras
    BY <1>4, <2>0, <2>1
  <2>2. CASE Len(cameras) < MaxCameras /\ cameras' = Append(cameras, row)
    <3>1. row \in CameraRows /\ row.file = file[o] /\ row.shows = now[o]
      BY <1>0 DEF CamerasTypeOK, CameraRows
    <3> HIDE DEF row
    <3>2. /\ DOMAIN cameras = 1 .. Len(cameras) /\ Len(cameras) \in Nat
          /\ DOMAIN cameras' = 1 .. (Len(cameras) + 1)
          /\ \A c \in DOMAIN cameras : cameras'[c] = cameras[c]
          /\ cameras'[Len(cameras) + 1] = row
      <4>1. Len(cameras) \in 1 .. MaxCameras /\ MaxCameras \in Nat
        BY <1>0, CamerasAssumption DEF CamerasTypeOK
      <4>2. Len(cameras)' = Len(cameras) + 1 /\ DOMAIN cameras' = 1 .. Len(cameras)'
            /\ \A c \in DOMAIN cameras : cameras'[c] = cameras[c]
            /\ cameras'[Len(cameras) + 1] = row
        BY <1>0, <2>2, <3>1, CameraAppended
      <4> QED
        BY <1>0, <4>1, <4>2, CamerasDomain
    <3>3. /\ pc'[o] = "idle" /\ o \in Adding
          /\ \A p \in Operators \ {o} : file'[p] = file[p]
      BY <1>0, <2>0, Answered DEF AnswerCameras, CamerasTypeOK, Adding
    <3>4. Adding' = Adding \ {o}
      BY <1>1, <3>3 DEF Adding
    <3>5. ASSUME NEW c \in DOMAIN cameras'
          PROVE  \/ c \in DOMAIN cameras /\ cameras'[c] = cameras[c]
                 \/ cameras'[c].file = file[o] /\ cameras'[c].shows = now[o]
      BY <3>1, <3>2
    <3>6. PictureOfItsCamera'
      <4> SUFFICES ASSUME NEW c \in DOMAIN cameras', cameras'[c].file \notin contested
                   PROVE  picture[cameras'[c].file] = {cameras'[c].shows}
        BY <2>0 DEF PictureOfItsCamera
      <4>1. CASE c \in DOMAIN cameras /\ cameras'[c] = cameras[c]
        BY <4>1 DEF PictureInv, PictureOfItsCamera
      <4>2. CASE cameras'[c].file = file[o] /\ cameras'[c].shows = now[o]
        BY <2>0, <3>3, <4>2 DEF PictureInv, AddingInv
      <4> QED
        BY <3>5, <4>1, <4>2
    <3>7. ASSUME NEW p \in Adding, p # o, file[p] \notin contested
          PROVE  AddingInv(p)'
      <4>1. AddingInv(p) /\ file[p] # file[o] /\ p \in Operators
        BY <3>3, <3>7, FileOfOne DEF Adding
      <4>2. \A c \in DOMAIN cameras' : cameras'[c].file # file[p]
        BY <3>5, <4>1 DEF AddingInv
      <4>3. file'[p] = file[p] /\ pc'[p] = pc[p] /\ now'[p] = now[p]
        BY <1>1, <3>3, <3>7, <4>1
      <4>4. \A q \in Adding' \ {p} : file'[q] # file'[p]
        BY <3>3, <3>4, <4>1, <4>3 DEF AddingInv, Adding
      <4> QED
        BY <2>0, <4>1, <4>2, <4>3, <4>4 DEF AddingInv
    <3> QED
      BY <2>0, <3>3, <3>4, <3>6, <3>7 DEF PictureInv, Adding
  <2> QED
    BY <1>9, <2>1, <2>2 DEF InsertCamera
<1>10. CASE RemoveCamera(o)
  <2>1. AnswerCameras(o) /\ UNCHANGED <<picture, contested>>
    BY <1>10 DEF RemoveCamera
  <2>2. CASE target[o] \in DOMAIN cameras
    BY <1>0, <1>4, <1>10, <2>1, <2>2, CameraRemoved DEF RemoveCamera
  <2>3. CASE target[o] \notin DOMAIN cameras
    <3>1. cameras = [c \in DOMAIN cameras |-> cameras[c]]
      BY <1>0 DEF CamerasTypeOK
    <3>2. cameras' = cameras
      BY <1>10, <2>3, <3>1 DEF RemoveCamera
    <3> QED
      BY <1>4, <2>1, <3>2
  <2> QED
    BY <2>2, <2>3
<1> QED
  BY <1>2, <1>3, <1>5, <1>7, <1>8, <1>9, <1>10
  DEF CamerasStep, OnCameras, BeginCameras, HandleCameras

LEMMA PictureStep == Shape /\ PictureInv /\ [Next]_vars => PictureInv'
<1> SUFFICES ASSUME Shape, PictureInv, [Next]_vars PROVE PictureInv'
  OBVIOUS
<1>1. ASSUME NEW o \in Operators, LoadAlert(o) PROVE PictureInv'
  <2>1. Request(o) /\ Goto(o, "patch") /\ "patch" \in Labels
    BY <1>1 DEF LoadAlert, Labels
  <2>2. pc'[o] \notin AddingLabels
    BY <2>1, Requested DEF AddingLabels
  <2> QED
    BY <1>1, <2>2, ShapeOfAlerts, PictureElsewhere
<1>2. ASSUME NEW o \in Operators, CommitAlert(o) \/ RefreshFails(o) \/ CommitHealth(o)
      PROVE  PictureInv'
  <2>1. Return(o) /\ UNCHANGED camerasVars
    BY <1>2 DEF CommitAlert, RefreshFails, CommitHealth
  <2>2. pc'[o] \notin AddingLabels /\ Others(o)
    BY <2>1, Returned DEF AddingLabels
  <2> QED
    BY <2>1, <2>2, PictureElsewhere
<1>3. ASSUME NEW o \in Operators, ListCameras(o) PROVE PictureInv'
  <2> DEFINE label == IF Active = {} THEN "commit" ELSE "query"
  <2>1. Request(o) /\ Goto(o, label) /\ label \in Labels /\ label \notin AddingLabels
    BY <1>3 DEF ListCameras, Labels, AddingLabels
  <2> HIDE DEF label
  <2>2. pc'[o] \notin AddingLabels
    BY <2>1, Requested
  <2> QED
    BY <1>3, <2>2, ShapeOfRefreshes, PictureElsewhere
<1>4. ASSUME NEW o \in Operators, QueryHealth(o) PROVE PictureInv'
  <2>1. Goto(o, "frame") /\ "frame" \in Labels /\ now' = now
    BY <1>4 DEF QueryHealth, Labels
  <2>2. pc'[o] \notin AddingLabels
    BY <2>1, Moved DEF AddingLabels
  <2> QED
    BY <1>4, <2>2, ShapeOfRefreshes, PictureElsewhere
<1>5. ASSUME NEW o \in Operators, ReadFrame(o) PROVE PictureInv'
  <2>1. pc'[o] \notin AddingLabels
    BY <1>5, ReadFrameEffect DEF AddingLabels
  <2> QED
    BY <1>5, <2>1, ShapeOfReadFrame, PictureElsewhere
<1>6. CASE UNCHANGED vars
  <2>1. UNCHANGED <<cameras, picture, pc, now, file, contested>>
    BY <1>6 DEF vars, shared, camerasVars
  <2> QED
    BY <2>1 DEF PictureInv, PictureOfItsCamera, AddingInv, Adding
<1> QED
  BY <1>1, <1>2, <1>3, <1>4, <1>5, <1>6, Steps, PictureOfAdding

\* The picture of a camera is the one taken of it, unless two cameras were to have
\* a file of one name, also while others are added and adding one fails.
THEOREM OperationsPictures == Spec => []PictureOfItsCamera
<1>1. Init => PictureInv
  <2> SUFFICES ASSUME Init PROVE PictureInv
    OBVIOUS
  <2>1. Adding = {}
    BY DEF Init, CamerasInit, Adding
  <2>2. /\ cameras = <<[status |-> "Active", file |-> SomeFile, shows |-> 0]>>
        /\ picture = [f \in Files |-> IF f = SomeFile THEN {0} ELSE {}]
        /\ SomeFile \in Files
    BY CamerasAssumption DEF Init, CamerasInit, SomeFile
  <2>3. PictureOfItsCamera
    BY <2>2 DEF PictureOfItsCamera
  <2> QED
    BY <2>1, <2>3 DEF PictureInv
<1>2. PictureInv => PictureOfItsCamera
  BY DEF PictureInv
<1> QED
  BY <1>1, <1>2, ShapeInit, ShapeStep, PictureStep, PTL DEF Spec

=============================================================================
