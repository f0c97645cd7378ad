------------------------------ MODULE Operations ------------------------------
(***************************************************************************)
(* The operations API (operations_controller.py): operators acknowledge,   *)
(* resolve and reopen an alert, and every listing of the cameras' health   *)
(* writes it first.                                                        *)
(*                                                                         *)
(* An action is one access to the database or to Redis.  A handler keeps   *)
(* the row it has loaded; its commit writes the columns whose value        *)
(* differs from the one loaded, and nobody else's writes come between its  *)
(* first INSERT or UPDATE and its commit.                                  *)
(***************************************************************************)
EXTENDS Cameras

VARIABLES
  alert,     \* the row of an Alert
  health,    \* the CameraHealth row of each camera
  loaded,    \* the row a request has loaded last
  wanted,    \* the alert status it asks for
  todo,      \* the cameras it has yet to look at
  rows,      \* the health rows it has got ready, with the ones they come from
  stale,     \* history: requests whose loaded alert has been overwritten
  suspect    \* history: whether such a request wrote the alert last

locals == <<loaded, wanted, todo, rows>>
vars == <<shared, camerasVars, alert, health, locals, stale, suspect>>

-----------------------------------------------------------------------------
Alerts == [status : {"NEW", "ACKNOWLEDGED", "RESOLVED"}, by : Nobodys,
           acknowledged : Times, resolved : Times]

NewAlert == [status |-> "NEW", by |-> Nobody, acknowledged |-> Never, resolved |-> Never]

\* seen: last_frame_at; recent: whether detail tells of a recent frame.
Healths == [status : {"Absent", "UNKNOWN", "STALE", "ONLINE"}, seen : Times,
            recent : BOOLEAN]

NoRow == [status |-> "Absent", seen |-> Never, recent |-> FALSE]
NoRows == [c \in {} |-> NoRow]

\* What an UPDATE makes of the row.
Flushed(row, old, new) ==
  [column \in DOMAIN row |->
     IF old[column] = new[column] THEN row[column] ELSE new[column]]

\* The session is removed with the request, failed or not.
SessionKept(o) == rows[o]
SessionRemoved(o) == NoRows

Return(o) ==
  /\ Answer(o)
  /\ loaded' = [loaded EXCEPT ![o] = NoRow]
  /\ wanted' = [wanted EXCEPT ![o] = "NEW"]
  /\ todo' = [todo EXCEPT ![o] = {}]
  /\ rows' = [rows EXCEPT ![o] = SessionRemoved(o)]

Init ==
  /\ CamerasInit
  /\ alert = NewAlert
  /\ health = [c \in 1 .. MaxCameras |-> NoRow]
  /\ loaded = [o \in Operators |-> NoRow]
  /\ wanted = [o \in Operators |-> "NEW"]
  /\ todo = [o \in Operators |-> {}]
  /\ rows = [o \in Operators |-> NoRows]
  /\ stale = {}
  /\ suspect = FALSE

-----------------------------------------------------------------------------
(* update_alert.                                                           *)

LoadAlert(o) ==
  /\ Request(o)
  /\ Goto(o, "patch")
  /\ loaded' = [loaded EXCEPT ![o] = alert]
  /\ \E s \in {"NEW", "ACKNOWLEDGED", "RESOLVED"} : wanted' = [wanted EXCEPT ![o] = s]
  /\ stale' = stale \ {o}
  /\ UNCHANGED <<camerasVars, alert, health, todo, rows, writer, suspect>>

Asked(o) == [status |-> wanted[o], by |-> o, acknowledged |-> now[o],
             resolved |-> IF wanted[o] = "RESOLVED" THEN now[o] ELSE Never]

UpdatedAcknowledger(row, o) == IF wanted[o] = "NEW" THEN NewAlert ELSE Asked(o)

UpdatedResolution(row, o) ==
  IF wanted[o] = "NEW" THEN NewAlert
  ELSE IF row.acknowledged = Never
  THEN [Asked(o) EXCEPT !.resolved = IF @ = Never THEN row.resolved ELSE @]
  ELSE [row EXCEPT !.status = wanted[o],
                   !.resolved = IF wanted[o] = "RESOLVED" THEN now[o] ELSE @]

UpdatedReopening(row, o) ==
  IF wanted[o] = "NEW" THEN [NewAlert EXCEPT !.by = row.by]
  ELSE IF row.acknowledged = Never THEN Asked(o)
  ELSE [Asked(o) EXCEPT !.by = row.by, !.acknowledged = row.acknowledged]

\* The values the handler gives the attributes: only the first of several
\* requests acknowledges.
Updated(row, o) ==
  IF wanted[o] = "NEW" THEN NewAlert
  ELSE IF row.acknowledged = Never THEN Asked(o)
  ELSE [Asked(o) EXCEPT !.by = row.by, !.acknowledged = row.acknowledged]

CommitAlert(o) ==
  /\ pc[o] = "patch" /\ MayWrite(o)
  /\ alert' = Flushed(alert, loaded[o], Updated(loaded[o], o))
  /\ stale' = stale \cup {p \in Operators \ {o} : pc[p] = "patch"}
  /\ suspect' = (o \in stale)
  /\ Return(o)
  /\ UNCHANGED <<camerasVars, health>>

-----------------------------------------------------------------------------
(* _refresh_health, camera by camera, with one commit for all.             *)

ListCameras(o) ==
  /\ Request(o)
  /\ Goto(o, IF Active = {} THEN "commit" ELSE "query")
  /\ todo' = [todo EXCEPT ![o] = Active]
  /\ UNCHANGED <<camerasVars, alert, health, loaded, wanted, rows, writer, stale, suspect>>

\* The rows come in the order of their ids.
Upcoming(o) == CHOOSE c \in todo[o] : \A d \in todo[o] : c <= d

\* A row got ready is written before the next query, or by the commit.
\* Inserting a row that somebody has inserted meanwhile fails.
Conflict(o) ==
  \E c \in DOMAIN rows[o] :
    rows[o][c].old.status = "Absent" /\ health[c].status # "Absent"

QueryHealth(o) ==
  /\ pc[o] = "query"
  /\ IF DOMAIN rows[o] = {}
     THEN UNCHANGED writer
     ELSE MayWrite(o) /\ ~Conflict(o) /\ writer' = o
  /\ Goto(o, "frame")
  /\ loaded' = [loaded EXCEPT ![o] = health[Upcoming(o)]]
  /\ UNCHANGED <<camerasVars, alert, health, now, wanted, todo, rows, requests, stale, suspect>>

ObservedWithoutUnknown(row, hasFrame, time) ==
  [status |-> IF hasFrame THEN "ONLINE" ELSE "STALE",
   seen |-> IF hasFrame THEN time ELSE row.seen,
   recent |-> hasFrame]

Observed(row, hasFrame, time) ==
  [status |-> IF hasFrame THEN "ONLINE" ELSE IF row.seen # Never THEN "STALE" ELSE "UNKNOWN",
   seen |-> IF hasFrame THEN time ELSE row.seen,
   recent |-> hasFrame]

\* Whether there is a frame is left open: LiveView says when.
ReadFrame(o) ==
  LET c == Upcoming(o)
  IN  /\ pc[o] = "frame"
      /\ \E hasFrame \in BOOLEAN :
           rows' = [rows EXCEPT ![o] = [d \in DOMAIN @ \cup {c} |->
                      IF d # c THEN @[d]
                      ELSE [old |-> loaded[o],
                            new |-> Observed(loaded[o], hasFrame, now[o])]]]
      /\ todo' = [todo EXCEPT ![o] = @ \ {c}]
      /\ Goto(o, IF todo'[o] = {} THEN "commit" ELSE "query")
      /\ UNCHANGED <<camerasVars, alert, health, now, loaded, wanted, writer, requests,
                     stale, suspect>>

OnlyLast(o) == {c \in DOMAIN rows[o] : \A d \in DOMAIN rows[o] : d <= c}
AllReady(o) == DOMAIN rows[o]

CommitHealth(o) ==
  /\ pc[o] = "commit"
  /\ MayWrite(o) /\ ~Conflict(o)
  /\ health' = [c \in 1 .. MaxCameras |->
                  IF c \in AllReady(o)
                  THEN Flushed(health[c], rows[o][c].old, rows[o][c].new)
                  ELSE health[c]]
  /\ Return(o)
  /\ UNCHANGED <<camerasVars, alert, stale, suspect>>

\* The error is handled by nobody but Flask: 500, and the session is removed.
RefreshFails(o) ==
  /\ pc[o] \in {"query", "commit"} /\ MayWrite(o) /\ Conflict(o)
  /\ Return(o)
  /\ UNCHANGED <<camerasVars, alert, health, stale, suspect>>

-----------------------------------------------------------------------------
OnCameras(A) == A /\ UNCHANGED <<alert, health, locals, stale, suspect>>

Handle(o) ==
  \/ CommitAlert(o)
  \/ QueryHealth(o) \/ ReadFrame(o) \/ CommitHealth(o) \/ RefreshFails(o)
  \/ OnCameras(HandleCameras(o))

Next ==
  \E o \in Operators :
    LoadAlert(o) \/ ListCameras(o) \/ OnCameras(BeginCameras(o)) \/ Handle(o)

Spec == Init /\ [][Next]_vars

\* A request that has begun goes on: a stream that does not answer is given up
\* after STREAM_TIMEOUT_MS.
FairSpec == Spec /\ \A o \in Operators : WF_vars(Handle(o))

-----------------------------------------------------------------------------
(* Properties.                                                             *)

TypeOK ==
  /\ CamerasTypeOK
  /\ alert \in Alerts
  /\ health \in [1 .. MaxCameras -> Healths]
  /\ pc \in [Operators -> {"idle", "patch", "query", "frame", "commit",
                          "capture", "save", "fill", "insert", "remove"}]
  /\ loaded \in [Operators -> Alerts \cup Healths]
  /\ wanted \in [Operators -> {"NEW", "ACKNOWLEDGED", "RESOLVED"}]
  /\ todo \in [Operators -> SUBSET DOMAIN cameras]
  /\ \A o \in Operators :
       /\ rows[o] \in [DOMAIN rows[o] -> [old : Healths, new : Healths]]
       /\ pc[o] \notin {"query", "frame", "commit"} => rows[o] = NoRows
  /\ stale \subseteq Operators
  /\ suspect \in BOOLEAN

\* update_alert leaves status and timestamps in agreement, whatever the state
\* it finds, unless the alert was written after the request had loaded it.
AlertAgreesUnlessSuspect ==
  \/ suspect
  \/ alert.status = "NEW" /\ alert = NewAlert
  \/ /\ alert.status # "NEW"
     /\ alert.acknowledged # Never
     /\ alert.status = "RESOLVED" <=> alert.resolved # Never

\* Who acknowledged and when come from the same request, however requests
\* overlap: both columns are written, or none.
AcknowledgedBySomebody == alert.by = Nobody <=> alert.acknowledged = Never

\* Only a request that was overtaken puts its operator in the place of the one
\* who acknowledged first.
FirstAcknowledgementStays ==
  [][alert.by # Nobody /\ alert'.by # Nobody /\ alert'.by # alert.by => suspect']_vars

\* The columns of a health row tell one story, though overlapping refreshes
\* each write those they found changed: UNKNOWN means no frame was ever seen,
\* and the detail speaks of a recent frame exactly when the status is ONLINE.
HealthAgrees ==
  \A c \in 1 .. MaxCameras :
    /\ health[c].status \in {"Absent", "UNKNOWN"} <=> health[c].seen = Never
    /\ health[c].status = "ONLINE" <=> health[c].recent

\* A refresh writes all its rows or none: one that fails, because another one
\* has inserted a row first, leaves nothing behind.  A camera has a row if a
\* younger one has, though cameras come and go during refreshes.
RefreshIsAtomic ==
  \A c, d \in DOMAIN cameras :
    c < d /\ cameras[c].status = "Active" /\ health[d].status # "Absent" =>
      health[c].status # "Absent"

\* Every request is answered: one that fails lets the others write.
EveryRequestIsAnswered == \A o \in Operators : pc[o] # "idle" ~> pc[o] = "idle"
===============================================================================
