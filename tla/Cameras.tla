-------------------------------- MODULE Cameras --------------------------------
(***************************************************************************)
(* The cameras of an organization and their snapshots (camera_service.py,  *)
(* image_capture.py, local_storage.py, camera_controller.py), and what     *)
(* their handlers share with those of Operations: requests, the time, and  *)
(* the write lock of SQLite.                                               *)
(*                                                                         *)
(* An action is one access to the stream, the file or the database.  The   *)
(* name of a snapshot's file is made from the camera's name alone.         *)
(***************************************************************************)
EXTENDS Naturals, Sequences

CONSTANTS
  Operators,    \* users: one request of each at a time
  Files,        \* names of snapshot files
  MaxCameras,   \* bound: cameras added
  MaxRequests   \* bound: requests served

Nobody == "nobody"

ASSUME CamerasAssumption ==
  /\ MaxCameras \in Nat \ {0} /\ MaxRequests \in Nat
  /\ Files # {} /\ Nobody \notin Operators

Never == 0                   \* a timestamp that is None
Times == 0 .. MaxRequests    \* now: the number of the request
Nobodys == Operators \cup {Nobody}

VARIABLES
  cameras,    \* Camera rows, in the order of their ids
  picture,    \* what each file shows: one camera, or nothing that can be seen
  pc,         \* where each request is
  now,        \* its time
  file,       \* the file of the camera it adds
  target,     \* the camera it removes
  writer,     \* the request whose transaction has written, or Nobody
  requests,   \* requests served so far
  contested   \* history: files that two cameras were to be shown in

shared == <<pc, now, writer, requests>>
camerasVars == <<cameras, picture, file, target, contested>>

-----------------------------------------------------------------------------
\* shows: the request that added the camera, as what its snapshot shows.
CameraRows == [status : {"Active", "Inactive"}, file : Files, shows : Times]

SomeFile == CHOOSE f \in Files : TRUE
Active == {c \in DOMAIN cameras : cameras[c].status = "Active"}

Goto(o, label) == pc' = [pc EXCEPT ![o] = label]

Request(o) ==
  /\ pc[o] = "idle"
  /\ requests < MaxRequests
  /\ requests' = requests + 1
  /\ now' = [now EXCEPT ![o] = requests + 1]

Held(o) == writer
Released(o) == IF writer = o THEN Nobody ELSE writer

Answer(o) ==
  /\ Goto(o, "idle")
  /\ now' = [now EXCEPT ![o] = Never]
  /\ writer' = Released(o)
  /\ UNCHANGED requests

Proceed(o, label) == Goto(o, label) /\ UNCHANGED <<now, writer, requests>>

\* What a request knows is forgotten when it is answered.
AnswerCameras(o) ==
  /\ Answer(o)
  /\ file' = [file EXCEPT ![o] = SomeFile]
  /\ target' = [target EXCEPT ![o] = 1]

\* SQLite's busy timeout, after which the request fails and has changed
\* nothing, is left out: a writer waits.
MayWrite(o) == writer \in {Nobody, o}

\* At first there is one camera.
CamerasInit ==
  /\ cameras = <<[status |-> "Active", file |-> SomeFile, shows |-> 0]>>
  /\ picture = [f \in Files |-> IF f = SomeFile THEN {0} ELSE {}]
  /\ pc = [o \in Operators |-> "idle"]
  /\ now = [o \in Operators |-> Never]
  /\ file = [o \in Operators |-> SomeFile]
  /\ target = [o \in Operators |-> 1]
  /\ writer = Nobody
  /\ requests = 0
  /\ contested = {}

-----------------------------------------------------------------------------
(* add_camera.                                                             *)

Adding == {o \in Operators : pc[o] \in {"capture", "save", "fill", "insert"}}

Taken(f) ==
  (\E c \in DOMAIN cameras : cameras[c].file = f) \/ (\E o \in Adding : file[o] = f)

AddCamera(o) ==
  /\ Request(o)
  /\ Goto(o, "capture")
  /\ \E f \in Files :
       /\ file' = [file EXCEPT ![o] = f]
       /\ contested' = IF Taken(f) THEN contested \cup {f} ELSE contested
  /\ UNCHANGED <<cameras, picture, target, writer>>

\* capture_rtsp_screenshot; the stream may not open, or give no frame.
Capture(o) ==
  /\ pc[o] = "capture"
  /\ \/ Proceed(o, "save") /\ UNCHANGED <<file, target>>
     \/ AnswerCameras(o)
  /\ UNCHANGED <<cameras, picture, contested>>

\* save_to_local_storage: open empties the file, then write fills it.  That
\* either fails, on a full disk, is left out.
SaveSnapshot(o) ==
  /\ pc[o] = "save"
  /\ picture' = [picture EXCEPT ![file[o]] = {}]
  /\ Proceed(o, "fill")
  /\ UNCHANGED <<cameras, file, target, contested>>

FillSnapshot(o) ==
  /\ pc[o] = "fill"
  /\ picture' = [picture EXCEPT ![file[o]] = {now[o]}]
  /\ Proceed(o, "insert")
  /\ UNCHANGED <<cameras, file, target, contested>>

\* The row comes last; the database may refuse it, and the file stays.
InsertableBeforeSaved(o) == pc[o] \in {"save", "insert"}
Insertable(o) == pc[o] = "insert"

InsertCamera(o) ==
  /\ Insertable(o) /\ MayWrite(o)
  /\ \/ /\ Len(cameras) < MaxCameras
        /\ cameras' = Append(cameras,
             [status |-> "Active", file |-> file[o], shows |-> now[o]])
     \/ UNCHANGED cameras
  /\ AnswerCameras(o)
  /\ UNCHANGED <<picture, contested>>

-----------------------------------------------------------------------------
(* remove_camera.                                                          *)

\* get_camera_service, which also finds cameras that have been removed.
LoadCamera(o) ==
  /\ Request(o)
  /\ Goto(o, "remove")
  /\ \E c \in DOMAIN cameras : target' = [target EXCEPT ![o] = c]
  /\ UNCHANGED <<cameras, picture, file, writer, contested>>

RemoveCamera(o) ==
  /\ pc[o] = "remove" /\ MayWrite(o)
  /\ cameras' = [cameras EXCEPT ![target[o]].status = "Inactive"]
  /\ AnswerCameras(o)
  /\ UNCHANGED <<picture, contested>>

-----------------------------------------------------------------------------
BeginCameras(o) == AddCamera(o) \/ LoadCamera(o)

HandleCameras(o) ==
  \/ Capture(o) \/ SaveSnapshot(o) \/ FillSnapshot(o) \/ InsertCamera(o)
  \/ RemoveCamera(o)

-----------------------------------------------------------------------------
(* Properties.                                                             *)

CamerasTypeOK ==
  /\ cameras \in Seq(CameraRows) /\ Len(cameras) \in 1 .. MaxCameras
  /\ picture \in [Files -> {{}} \cup {{t} : t \in Times}]
  /\ now \in [Operators -> Times]
  /\ file \in [Operators -> Files]
  /\ target \in [Operators -> 1 .. MaxCameras]
  /\ writer \in Nobodys
  /\ requests \in Times
  /\ contested \subseteq Files

\* "A snapshot is captured from the RTSP stream when a camera is added" (README):
\* serve_camera_image finds, for a camera that it knows, the picture of that
\* camera, also while others are added and when adding one fails, unless another
\* one was to have a file of the same name.
PictureOfItsCamera ==
  \A c \in DOMAIN cameras :
    cameras[c].file \in contested \/ picture[cameras[c].file] = {cameras[c].shows}
===============================================================================
