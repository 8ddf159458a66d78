------------------------- MODULE FullscreenActivity -------------------------
(***************************************************************************)
(* The session: FullscreenActivity on the UI thread, its AsyncTasks on     *)
(* AsyncTask.SERIAL_EXECUTOR, the status websockets and the camera.        *)
(*                                                                         *)
(* The UI thread runs one callback at a time, so a callback is one step.   *)
(* A task takes three: it starts, the camera serves its request, and its   *)
(* onPostExecute is posted to the UI queue. LiveviewStopAsyncTask first    *)
(* stops the view, which waits for the rendering thread.                   *)
(* External: the camera, which pushes its status to every open websocket   *)
(* whenever it changes; a request has the effect its name says.            *)
(***************************************************************************)
EXTENDS Naturals, Sequences

LOCAL INSTANCE SequencesExt

CONSTANTS
    Wheels,      \* the wheels, in the order updateStatus loads them
    Iso,         \* the wheel that keeps its adapter while it scrolls
    Menus,       \* per wheel: the lists of values the camera may offer
    None,
    Lossy,       \* TRUE: a liveview connection may fail
    MaxEvents,   \* bound: what the user does
    MaxResumes,  \* bound: onResume calls, hence websockets
    MaxChanges   \* bound: changes the camera makes of its own accord

Kinds   == {Wheels[j] : j \in DOMAIN Wheels}
Values  == UNION {{m[i] : i \in DOMAIN m} : m \in UNION {Menus[k] : k \in Kinds}}
Modes   == {"PHOTO", "VIDEO"}
Codes   == Modes \cup {"OTHER"}   \* what a status may say; OTHER is no CaptureMode
Sockets == 1..MaxResumes

CameraStates ==
    [isInLiveView : BOOLEAN, captureMode : Codes, isRecording : BOOLEAN,
     menu : {f \in [Kinds -> UNION {Menus[k] : k \in Kinds}] :
                \A k \in Kinds : f[k] \in Menus[k]},
     setting : [Kinds -> Values]]

(* A request names the mode or a wheel's setting, and None is Java's null.  *)
ASSUME ConstantsAssumption ==
    /\ Wheels \in Seq(Kinds) /\ "mode" \notin Kinds
    /\ Lossy \in BOOLEAN
    /\ \A k \in Kinds : Menus[k] # {}
    /\ \A k \in Kinds : \A m \in Menus[k] : m \in Seq(Values) /\ Len(m) > 0
    /\ None \notin Codes /\ None \notin Values /\ None \notin CameraStates
    /\ MaxEvents \in Nat /\ MaxResumes \in Nat /\ MaxChanges \in Nat

VARIABLES
    mCaptureMode, mIsRecording, mIsInLiveview,
    mSetting,      \* per kind: mAperture, mShutterSpeed, mExposureMode, mIso
    wheelMenu,     \* per kind: the adapter's items
    wheelItem,     \* per kind: the wheel's current item, counted from 1
    scrolling,     \* the wheels the user is scrolling
    activity,      \* "resumed", "paused", or "stopped": without a surface
    mVisible,
    hidePending,   \* mHideRunnable is posted
    playing,       \* the view has a source: mIn # null
    thread,        \* the view's rendering thread: "none", "running" while mRun,
                   \* "stopping" when mRun is false and it has not seen it
    joined,        \* the thread the executor waits for: "none" that is alive,
                   \* the "current" one, or a "former" one a source replaced
    connecting,    \* liveview connections being opened
    missed,        \* history: the last onResume without a surface found
                   \* mIsInLiveview false, the camera in liveview, and nothing
                   \* was loaded since
    uiQueue,       \* messages posted to the UI thread
    tasks,         \* the tasks of SERIAL_EXECUTOR, the running one first
    stage,         \* of the running task: "queued", "stopping" (mRun is
                   \* false), "joining", "sent" or "served"
    reply,         \* what the camera answered to it
    socket,        \* per onResume: "none", "opening" or "open"
    wire,          \* per onResume: the statuses on their way
    camera,        \* the camera's status
    unnamed,       \* history: its mode has been one without a CaptureMode
    events, resumes, changes,
    failure        \* the exception that killed the process, if any

fields   == <<mCaptureMode, mIsRecording, mIsInLiveview, mSetting>>
wheels   == <<wheelMenu, wheelItem, scrolling>>
window   == <<activity, mVisible, hidePending>>
view     == <<playing, thread, joined, connecting, missed>>
executor == <<tasks, stage, reply>>
network  == <<socket, wire, camera, unnamed>>
bounds   == <<events, resumes, changes>>
vars == <<fields, wheels, window, view, uiQueue, executor, network, bounds,
          failure>>

(* CaptureMode.fromValue: Java's null for any other value.                  *)
FromValue(code) == IF code \in Modes THEN code ELSE None

IndexIn(v, menu) == CHOOSE i \in DOMAIN menu : menu[i] = v
Offered(v, menu) == \E i \in DOMAIN menu : menu[i] = v

Sane(c) == \A k \in Kinds : Offered(c.setting[k], c.menu[k])

Task(op)         == [op |-> op, what |-> None, value |-> None]
PostSettings(w, v) == [op |-> "settings", what |-> w, value |-> v]
Submit(new)      == tasks' = tasks \o new

(* Where the camera does nothing of its own accord (MaxChanges = 0) it is   *)
(* not in liveview when the app starts, and it is never recording then: the *)
(* app learns of a recording only by its own requests, and loads a liveview *)
(* it did not ask for only on the next onResume or refresh.                 *)
Init ==
    /\ mCaptureMode = None
    /\ mIsRecording = FALSE
    /\ mIsInLiveview = FALSE
    /\ mSetting = [k \in Kinds |-> None]
    /\ wheelMenu = [k \in Kinds |-> <<>>]
    /\ wheelItem = [k \in Kinds |-> 1]
    /\ scrolling = {}
    /\ activity = "stopped"        \* created, not resumed: no surface yet
    /\ mVisible = TRUE
    /\ hidePending = TRUE          \* onPostCreate: delayedHide(100)
    /\ playing = FALSE
    /\ thread = "none"
    /\ joined = "none"
    /\ connecting = 0
    /\ missed = FALSE
    /\ uiQueue = <<>>
    /\ tasks = <<>>
    /\ stage = "queued"
    /\ reply = None
    /\ socket = [i \in Sockets |-> "none"]
    /\ wire = [i \in Sockets |-> <<>>]
    /\ camera \in {c \in CameraStates :
                        /\ Sane(c)
                        /\ ~c.isRecording
                        /\ MaxChanges = 0 => ~c.isInLiveView}
    /\ unnamed = (camera.captureMode \notin Modes)
    /\ events = 0
    /\ resumes = 0
    /\ changes = 0
    /\ failure = "none"

-----------------------------------------------------------------------------
(* What the user does.                                                      *)

UserEvent ==
    /\ activity = "resumed"
    /\ events < MaxEvents
    /\ events' = events + 1
    /\ UNCHANGED <<resumes, changes, failure>>

RefreshCameraStatus == <<Task("info"), Task("status")>>
ReadCameraInfo      == <<Task("info")>>
LoadLiveview ==
    /\ connecting' = connecting + 1
    /\ missed' = FALSE
    /\ UNCHANGED <<playing, thread, joined>>

(* onResume, of a new activity or after Pause, with or without the loss of  *)
(* the surface; openWebsocket never closes the socket of an earlier one.    *)
Resume ==
    /\ activity # "resumed"
    /\ resumes < MaxResumes
    /\ activity' = "resumed"
    /\ resumes' = resumes + 1
    /\ Submit(ReadCameraInfo \o RefreshCameraStatus)
    /\ IF mIsInLiveview
       THEN LoadLiveview
       ELSE /\ missed' = (missed \/ (activity = "stopped" /\ camera.isInLiveView))
            /\ UNCHANGED <<playing, thread, joined, connecting>>
    /\ socket' = [socket EXCEPT ![resumes'] = "opening"]
    /\ UNCHANGED <<fields, wheels, mVisible, hidePending, uiQueue, stage, reply,
                   wire, camera, unnamed, events, changes, failure>>

(* The activity leaves the foreground: it has no onPause of its own.        *)
Pause ==
    /\ activity = "resumed"
    /\ activity' = "paused"
    /\ UNCHANGED <<fields, wheels, mVisible, hidePending, view, uiQueue,
                   executor, network, bounds, failure>>

(* surfaceDestroyed when the window is hidden: the UI thread stops the view *)
(* and waits for its thread, whose end is this step; the executor may have  *)
(* waited for the same one.                                                 *)
SurfaceDestroyed ==
    /\ activity = "paused"
    /\ activity' = "stopped"
    /\ playing' = FALSE
    /\ thread' = "none"
    /\ joined' = IF joined = "current" THEN "none" ELSE joined
    /\ UNCHANGED <<fields, wheels, mVisible, hidePending, connecting, missed,
                   uiQueue, executor, network, bounds, failure>>

ClickRefresh ==
    /\ UserEvent
    /\ Submit(ReadCameraInfo \o RefreshCameraStatus)
    /\ IF mIsInLiveview THEN LoadLiveview ELSE UNCHANGED view
    /\ UNCHANGED <<fields, wheels, window, uiQueue, stage, reply, network>>

(* switch (mCaptureMode) throws when the mode is not known.                 *)
ClickCapture ==
    /\ activity = "resumed"
    /\ events < MaxEvents
    /\ events' = events + 1
    /\ \/ /\ ~mIsInLiveview \/ mCaptureMode = "PHOTO"
          /\ Submit(<<Task("photo")>>)
          /\ UNCHANGED failure
       \/ /\ mIsInLiveview /\ mCaptureMode = "VIDEO"
          /\ Submit(<<Task(IF mIsRecording THEN "stopCapture"
                                           ELSE "startCapture")>>)
          /\ UNCHANGED failure
       \/ /\ mIsInLiveview /\ mCaptureMode = None
          /\ failure' = "mode"
          /\ UNCHANGED tasks
    /\ UNCHANGED <<fields, wheels, window, view, uiQueue, stage, reply,
                   network, resumes, changes>>

ClickPhotoMode ==
    /\ UserEvent
    /\ \/ /\ mIsInLiveview /\ mCaptureMode = "PHOTO"
          /\ Submit(<<Task("stopLiveview"), PostSettings("mode", "PHOTO")>>)
       \/ /\ ~mIsInLiveview
          /\ Submit(<<Task("startLiveview"), PostSettings("mode", "PHOTO")>>)
       \/ /\ mIsInLiveview /\ mCaptureMode # "PHOTO"
          /\ Submit(<<PostSettings("mode", "PHOTO")>>)
    /\ UNCHANGED <<fields, wheels, window, view, uiQueue, stage, reply,
                   network>>

ClickVideoMode ==
    /\ UserEvent
    /\ Submit(<<Task("startLiveview"), PostSettings("mode", "VIDEO")>>)
    /\ UNCHANGED <<fields, wheels, window, view, uiQueue, stage, reply,
                   network>>

(* A short touch toggles the controls, a long one sets the focus point.     *)
ShortTouch ==
    /\ UserEvent
    /\ mVisible' = ~mVisible
    /\ UNCHANGED <<fields, wheels, activity, hidePending, view, uiQueue, executor,
                   network>>

LongTouch ==
    /\ UserEvent
    /\ Submit(<<Task("autofocus")>>)
    /\ UNCHANGED <<fields, wheels, window, view, uiQueue, stage, reply,
                   network>>

BeginScroll(k) ==
    /\ UserEvent
    /\ wheelMenu[k] # <<>>
    /\ k \notin scrolling
    /\ scrolling' = scrolling \cup {k}
    /\ UNCHANGED <<fields, wheelMenu, wheelItem, window, view,
                   uiQueue, executor, network>>

(* onChanged: a value that is not known to be the camera's is posted.       *)
OnChanged(k, text, known) ==
    IF text # known THEN <<PostSettings(k, text)>> ELSE <<>>

TurnWheel(k, i) ==
    /\ UserEvent
    /\ k \in scrolling
    /\ i \in DOMAIN wheelMenu[k]
    /\ i # wheelItem[k]
    /\ wheelItem' = [wheelItem EXCEPT ![k] = i]
    /\ Submit(OnChanged(k, wheelMenu[k][i], mSetting[k]))
    /\ UNCHANGED <<fields, wheelMenu, scrolling, window, view, uiQueue,
                   stage, reply, network>>

EndScroll(k) ==
    /\ k \in scrolling
    /\ scrolling' = scrolling \ {k}
    /\ UNCHANGED <<fields, wheelMenu, wheelItem, window, view,
                   uiQueue, executor, network, bounds, failure>>

-----------------------------------------------------------------------------
(* What is posted to the UI thread.                                         *)

HideTimer ==
    /\ hidePending
    /\ hidePending' = FALSE
    /\ mVisible' = FALSE
    /\ UNCHANGED <<fields, wheels, activity, view, uiQueue, executor, network, bounds,
                   failure>>

(* The wheel follows the status unless the user is scrolling it; a value    *)
(* that is not offered leaves the wheel where it is.                        *)
Follow(k, status) ==
    IF k \in scrolling \/ ~Offered(status.setting[k], status.menu[k])
    THEN wheelItem[k]
    ELSE IndexIn(status.setting[k], status.menu[k])

(* What the listener of a wheel that moves submits. "known" is the activity's *)
(* field for that setting.                                                  *)
Echo(k, status, known) ==
    IF Follow(k, status) = wheelItem[k] THEN <<>>
    ELSE OnChanged(k, status.menu[k][Follow(k, status)], known)

(* switch (mCaptureMode) throws on a null that was not null before.         *)
SetCaptureMode(mode) ==
    /\ mCaptureMode' = mode
    /\ failure' = IF mode = None /\ mCaptureMode # None THEN "mode" ELSE failure

\* Mutant: the wheels move before the fields are assigned.
Mutant_UpdateStatus(status) ==
    /\ mSetting' = status.setting
    /\ wheelMenu' = [k \in Kinds |-> status.menu[k]]
    /\ wheelItem' = [k \in Kinds |-> Follow(k, status)]
    /\ Submit(FlattenSeq([j \in DOMAIN Wheels |->
                    Echo(Wheels[j], status, mSetting[Wheels[j]])]))
    /\ SetCaptureMode(FromValue(status.captureMode))
    /\ mIsInLiveview' = status.isInLiveView
    /\ UNCHANGED <<mIsRecording, scrolling>>

\* Mutant: the capture mode is left to the answers of the app's own requests.
MutantMode_UpdateStatus(status) ==
    /\ mSetting' = status.setting
    /\ wheelMenu' = [k \in Kinds |-> status.menu[k]]
    /\ wheelItem' = [k \in Kinds |-> Follow(k, status)]
    /\ mIsInLiveview' = status.isInLiveView
    /\ UNCHANGED <<mCaptureMode, mIsRecording, scrolling, tasks, failure>>

(* updateStatus assigns every setting before it touches a wheel, and the    *)
(* liveview last, unless setCaptureMode has thrown.                         *)
UpdateStatus(status) ==
    /\ mSetting' = status.setting
    /\ wheelMenu' = [k \in Kinds |->
            IF k = Iso /\ k \in scrolling THEN wheelMenu[k] ELSE status.menu[k]]
    /\ wheelItem' = [k \in Kinds |-> Follow(k, status)]
    /\ Submit(FlattenSeq([j \in DOMAIN Wheels |->
                    Echo(Wheels[j], status, mSetting'[Wheels[j]])]))
    /\ SetCaptureMode(FromValue(status.captureMode))
    /\ mIsInLiveview' = IF failure' = "mode" THEN mIsInLiveview
                        ELSE status.isInLiveView
    /\ UNCHANGED <<mIsRecording, scrolling>>

Received(type) == uiQueue # <<>> /\ Head(uiQueue).type = type

\* Mutant: every status is followed by a refresh.
Mutant_HandleStatus ==
    /\ Received("status")
    /\ tasks' = tasks \o RefreshCameraStatus
    /\ uiQueue' = Tail(uiQueue)
    /\ mSetting' = Head(uiQueue).status.setting
    /\ SetCaptureMode(FromValue(Head(uiQueue).status.captureMode))
    /\ mIsInLiveview' = Head(uiQueue).status.isInLiveView
    /\ UNCHANGED <<mIsRecording, wheels, window, view, stage, reply, network,
                   bounds>>

HandleStatus ==
    /\ Received("status")
    /\ UpdateStatus(Head(uiQueue).status)
    /\ uiQueue' = Tail(uiQueue)
    /\ UNCHANGED <<window, view, stage, reply, network, bounds>>

HandleRecording ==
    /\ Received("recording")
    /\ mIsRecording' = Head(uiQueue).recording
    /\ uiQueue' = Tail(uiQueue)
    /\ UNCHANGED <<mCaptureMode, mIsInLiveview, mSetting, wheels, window,
                   view, executor, network, bounds, failure>>

HandleMode ==
    /\ Received("mode")
    /\ SetCaptureMode(Head(uiQueue).mode)
    /\ uiQueue' = Tail(uiQueue)
    /\ UNCHANGED <<mIsRecording, mIsInLiveview, mSetting, wheels, window,
                   view, executor, network, bounds>>

\* Mutant: the stream is only loaded when the status already says liveview.
Mutant_EnableLiveview ==
    /\ Received("liveview")
    /\ IF mIsInLiveview THEN LoadLiveview ELSE UNCHANGED view
    /\ Submit(RefreshCameraStatus)
    /\ uiQueue' = Tail(uiQueue)
    /\ UNCHANGED <<fields, wheels, window, stage, reply, network, bounds,
                   failure>>

EnableLiveview ==
    /\ Received("liveview")
    /\ LoadLiveview
    /\ Submit(RefreshCameraStatus)
    /\ uiQueue' = Tail(uiQueue)
    /\ UNCHANGED <<fields, wheels, window, stage, reply, network, bounds,
                   failure>>

(* Mjpeg.open: the stream arrives, also in the background, or an error or   *)
(* the timeout is logged. setSource sets mRun, so that a thread the executor *)
(* is waiting for goes on as well, and starts a new one.                    *)
LiveviewConnected ==
    /\ connecting > 0
    /\ connecting' = connecting - 1
    /\ playing' = TRUE
    /\ thread' = "running"
    /\ joined' = IF joined = "current" THEN "former" ELSE joined
    /\ UNCHANGED <<fields, wheels, window, missed, uiQueue, executor, network,
                   bounds, failure>>

LiveviewFails ==
    /\ Lossy
    /\ connecting > 0
    /\ connecting' = connecting - 1
    /\ UNCHANGED <<fields, wheels, window, playing, thread, joined, missed,
                   uiQueue, executor, network, bounds, failure>>

(* A rendering thread reads mRun after its frame, and ends when it is false. *)
ThreadEnds ==
    /\ thread = "stopping"
    /\ thread' = "none"
    /\ joined' = IF joined = "current" THEN "none" ELSE joined
    /\ UNCHANGED <<fields, wheels, window, playing, connecting, missed, uiQueue,
                   executor, network, bounds, failure>>

FormerThreadEnds ==
    /\ joined = "former"
    /\ thread # "running"
    /\ joined' = "none"
    /\ UNCHANGED <<fields, wheels, window, playing, thread, connecting, missed,
                   uiQueue, executor, network, bounds, failure>>

-----------------------------------------------------------------------------
(* The executor and the network.                                            *)

StartTask ==
    /\ tasks # <<>>
    /\ stage = "queued"
    /\ Head(tasks).op # "stopLiveview"
    /\ stage' = "sent"
    /\ UNCHANGED <<fields, wheels, window, view, uiQueue, tasks, reply,
                   network, bounds, failure>>

(* LiveviewStopAsyncTask calls disableLiveview on the executor, before its  *)
(* request: stopPlayback clears mRun, joins the thread it then finds, and   *)
(* clears mIn whatever the UI thread has set meanwhile; the refresh it      *)
(* submits comes after itself.                                              *)
StopPlayback ==
    /\ tasks # <<>>
    /\ stage = "queued"
    /\ Head(tasks).op = "stopLiveview"
    /\ stage' = "stopping"
    /\ thread' = IF thread = "running" THEN "stopping" ELSE thread
    /\ UNCHANGED <<fields, wheels, window, playing, joined, connecting, missed,
                   uiQueue, tasks, reply, network, bounds, failure>>

JoinThread ==
    /\ stage = "stopping"
    /\ stage' = "joining"
    /\ joined' = IF thread = "none" THEN "none" ELSE "current"
    /\ UNCHANGED <<fields, wheels, window, playing, thread, connecting, missed,
                   uiQueue, tasks, reply, network, bounds, failure>>

JoinReturns ==
    /\ stage = "joining"
    /\ joined = "none"
    /\ stage' = "sent"
    /\ playing' = FALSE
    /\ Submit(RefreshCameraStatus)
    /\ UNCHANGED <<fields, wheels, window, thread, joined, connecting, missed,
                   uiQueue, reply, network, bounds, failure>>

Push(status) ==
    wire' = [i \in Sockets |->
                IF socket[i] = "open" /\ status # camera
                THEN Append(wire[i], status) ELSE wire[i]]

Served(task) ==
    CASE task.op = "startLiveview" -> [camera EXCEPT !.isInLiveView = TRUE]
      [] task.op = "stopLiveview"  -> [camera EXCEPT !.isInLiveView = FALSE]
      [] task.op = "startCapture"  -> [camera EXCEPT !.isRecording = TRUE]
      [] task.op = "stopCapture"   -> [camera EXCEPT !.isRecording = FALSE]
      [] task.op = "settings" /\ task.what = "mode" ->
            [camera EXCEPT !.captureMode = task.value]
      [] task.op = "settings" /\ task.what # "mode" ->
            [camera EXCEPT !.setting[task.what] = task.value]
      [] OTHER -> camera

ServeTask ==
    /\ stage = "sent"
    /\ stage' = "served"
    /\ camera' = Served(Head(tasks))
    /\ Push(camera')
    /\ reply' = camera'
    /\ UNCHANGED <<fields, wheels, window, view, uiQueue, tasks, socket,
                   unnamed, bounds, failure>>

(* Every exception of the API call becomes a RuntimeException.              *)
FailTask ==
    /\ stage = "sent"
    /\ failure' = "api"
    /\ UNCHANGED <<fields, wheels, window, view, uiQueue, executor, network,
                   bounds>>

\* Mutant: PostSettingsAsyncTask leaves the capture mode to the websocket.
Mutant_OnPostExecute(task) ==
    CASE task.op = "status"        -> <<[type |-> "status", status |-> reply]>>
      [] task.op = "startCapture"  -> <<[type |-> "recording", recording |-> TRUE]>>
      [] task.op = "stopCapture"   -> <<[type |-> "recording", recording |-> FALSE]>>
      [] task.op = "startLiveview" -> <<[type |-> "liveview"]>>
      [] OTHER -> <<>>

OnPostExecute(task) ==
    CASE task.op = "status"        -> <<[type |-> "status", status |-> reply]>>
      [] task.op = "startCapture"  -> <<[type |-> "recording", recording |-> TRUE]>>
      [] task.op = "stopCapture"   -> <<[type |-> "recording", recording |-> FALSE]>>
      [] task.op = "startLiveview" -> <<[type |-> "liveview"]>>
      [] task.op = "settings" /\ task.what = "mode" ->
            <<[type |-> "mode", mode |-> task.value]>>
      [] OTHER -> <<>>

\* Mutant: the answer of the last request is kept.
Mutant_FinishTask ==
    /\ stage = "served"
    /\ stage' = "queued"
    /\ uiQueue' = uiQueue \o OnPostExecute(Head(tasks))
    /\ tasks' = Tail(tasks)
    /\ UNCHANGED <<fields, wheels, window, view, reply, network, bounds,
                   failure>>

FinishTask ==
    /\ stage = "served"
    /\ stage' = "queued"
    /\ reply' = None
    /\ uiQueue' = uiQueue \o OnPostExecute(Head(tasks))
    /\ tasks' = Tail(tasks)
    /\ UNCHANGED <<fields, wheels, window, view, network, bounds, failure>>

SocketOpens(i) ==
    /\ socket[i] = "opening"
    /\ socket' = [socket EXCEPT ![i] = "open"]
    /\ UNCHANGED <<fields, wheels, window, view, uiQueue, executor, wire,
                   camera, unnamed, bounds, failure>>

(* onCompleted uses the socket without looking at the exception.            *)
SocketFails(i) ==
    /\ socket[i] = "opening"
    /\ failure' = "socket"
    /\ UNCHANGED <<fields, wheels, window, view, uiQueue, executor, network,
                   bounds>>

Deliver(i) ==
    /\ wire[i] # <<>>
    /\ uiQueue' = Append(uiQueue, [type |-> "status", status |-> Head(wire[i])])
    /\ wire' = [wire EXCEPT ![i] = Tail(@)]
    /\ UNCHANGED <<fields, wheels, window, view, executor, socket, camera,
                   unnamed, bounds, failure>>

(* The camera body, or another client, changes something.                   *)
AlterCamera ==
    \/ camera' = [camera EXCEPT !.isInLiveView = ~@]
    \/ camera' = [camera EXCEPT !.isRecording = ~@]
    \/ \E m \in Codes : camera' = [camera EXCEPT !.captureMode = m]
    \/ \E k \in Kinds : \E m \in Menus[k] : \E i \in DOMAIN m :
            camera' = [camera EXCEPT !.menu[k] = m, !.setting[k] = m[i]]

CameraChanges ==
    /\ changes < MaxChanges
    /\ changes' = changes + 1
    /\ AlterCamera
    /\ unnamed' = (unnamed \/ camera'.captureMode \notin Modes)
    /\ Push(camera')
    /\ UNCHANGED <<fields, wheels, window, view, uiQueue, executor, socket,
                   events, resumes, failure>>

-----------------------------------------------------------------------------
User ==
    \/ Resume
    \/ Pause
    \/ SurfaceDestroyed
    \/ ClickRefresh
    \/ ClickCapture
    \/ ClickPhotoMode
    \/ ClickVideoMode
    \/ ShortTouch
    \/ LongTouch
    \/ \E k \in Kinds : BeginScroll(k)
    \/ \E k \in Kinds : \E i \in DOMAIN wheelMenu[k] : TurnWheel(k, i)

Looper ==
    \/ HandleStatus
    \/ HandleRecording
    \/ HandleMode
    \/ EnableLiveview

Settling ==
    \/ \E k \in Kinds : EndScroll(k)
    \/ LiveviewConnected
    \/ LiveviewFails

Rendering == ThreadEnds \/ FormerThreadEnds

Executor ==
    \/ StartTask
    \/ StopPlayback
    \/ JoinThread
    \/ JoinReturns
    \/ ServeTask
    \/ FinishTask

Network(i) == SocketOpens(i) \/ Deliver(i)

Running(A) == failure = "none" /\ A

Next ==
    \/ Running(User)
    \/ Running(Looper)
    \/ Running(HideTimer)
    \/ Running(Settling)
    \/ Running(Rendering)
    \/ Running(Executor)
    \/ \E i \in Sockets : Running(Network(i)) \/ Running(SocketFails(i))
    \/ Running(FailTask)
    \/ Running(CameraChanges)

Spec == Init /\ [][Next]_vars

(* The looper runs what is posted to it and its timers, the executor its    *)
(* tasks unless a join keeps it, a request is answered within its timeout,  *)
(* a connection attempt ends, a frame being read arrives or breaks off (no  *)
(* timeout sees to it), a pushed status arrives, a finger leaves the screen. *)
FairSpec ==
    /\ Spec
    /\ WF_vars(Running(Looper))
    /\ WF_vars(Running(HideTimer))
    /\ WF_vars(Running(Settling))
    /\ WF_vars(Running(Rendering))
    /\ WF_vars(Running(Executor))
    /\ \A i \in Sockets : WF_vars(Running(Network(i)))

-----------------------------------------------------------------------------
(* Every variable has its type; the task at the head is the only one that   *)
(* can be past the queue.                                                   *)
TypeOK ==
    /\ mCaptureMode \in Modes \cup {None}
    /\ mIsRecording \in BOOLEAN
    /\ mIsInLiveview \in BOOLEAN
    /\ mSetting \in [Kinds -> Values \cup {None}]
    /\ \A k \in Kinds : wheelMenu[k] \in Menus[k] \cup {<<>>}
    /\ wheelItem \in [Kinds -> Nat \ {0}]
    /\ scrolling \subseteq Kinds
    /\ activity \in {"resumed", "paused", "stopped"}
    /\ mVisible \in BOOLEAN /\ hidePending \in BOOLEAN
    /\ playing \in BOOLEAN /\ connecting \in Nat
    /\ thread \in {"none", "running", "stopping"}
    /\ joined \in {"none", "current", "former"}
    /\ missed \in BOOLEAN /\ unnamed \in BOOLEAN
    /\ stage \in {"queued", "stopping", "joining", "sent", "served"}
    /\ stage # "queued" => tasks # <<>>
    /\ stage = "served" <=> reply # None
    /\ \A i \in Sockets : socket[i] \in {"none", "opening", "open"}
    /\ camera \in CameraStates
    /\ events \in 0..MaxEvents
    /\ resumes \in 0..MaxResumes
    /\ changes \in 0..MaxChanges
    /\ failure \in {"none", "api", "socket", "mode"}

(* Nothing but tasks is on its way.                                         *)
Quiet ==
    /\ uiQueue = <<>>
    /\ \A i \in Sockets : wire[i] = <<>> /\ socket[i] # "opening"
    /\ connecting = 0
    /\ scrolling = {}

(* The user waits and the session is at rest.                               *)
Settled == Quiet /\ tasks = <<>> /\ failure = "none"

(* The executor waits for a thread that a new source has told to go on.     *)
Stuck == stage = "joining" /\ joined # "none" /\ thread = "running"

(* As long as the camera has only been in modes that CaptureMode names, the *)
(* capture button never meets an unknown mode in liveview and no switch     *)
(* throws, although the two fields are written by statuses and by mode      *)
(* changes that interleave. (A mode without a name breaks both: fromValue   *)
(* gives null, which setCaptureMode survives only as the first status.)     *)
CaptureModeKnown ==
    ~unnamed => /\ mIsInLiveview => mCaptureMode # None
                /\ failure # "mode"

(* A status the app receives never makes it post settings: the wheels it    *)
(* moves call their listeners, and an echo would undo what another client   *)
(* or the camera body has just changed.                                     *)
NoEcho == [][HandleStatus => tasks' = tasks]_vars

(* When the camera changes nothing by itself, starts neither recording nor  *)
(* in liveview (Init), and the session is at rest, the activity knows the   *)
(* camera's mode (null if it has no name), liveview and recording state,    *)
(* whether or not a websocket ever opened and whatever old statuses were    *)
(* delivered late.                                                          *)
SessionAgrees ==
    Settled /\ resumes > 0 /\ MaxChanges = 0 =>
        /\ mCaptureMode = FromValue(camera.captureMode)
        /\ mIsInLiveview = camera.isInLiveView
        /\ mIsRecording = camera.isRecording

(* A camera the app put in liveview is shown: no order of pauses, resumes,  *)
(* losses of the surface, the stop task on the executor and the connections *)
(* the UI thread opens leaves the view without a source, provided the       *)
(* connections succeed. Excepted is what onResume misses: a camera that is  *)
(* in liveview while the status that says so has not arrived yet.           *)
LiveviewShown ==
    Settled /\ MaxChanges = 0 /\ ~Lossy /\ activity = "resumed"
        /\ camera.isInLiveView /\ ~missed => playing

(* A session left alone comes to rest, unless an exception has ended the    *)
(* process: statuses, the wheels they move, the settings posted and the     *)
(* statuses these cause are no endless loop. The executor comes to rest     *)
(* with it, or its join() waits for ever for a rendering thread that        *)
(* setSource has set running again: nothing else keeps it.                  *)
Settles ==
    <>[](\/ Quiet /\ (tasks = <<>> \/ Stuck)
         \/ failure # "none")

=============================================================================
