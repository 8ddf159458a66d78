---------------------- MODULE FullscreenActivity_proofs ----------------------
(***************************************************************************)
(* The session's safety properties, for every set of wheels, every list of *)
(* values, and any number of events, resumes and changes.                  *)
(***************************************************************************)
EXTENDS FullscreenActivity, SequenceTheorems, TLAPS

LOCAL INSTANCE SequencesExt
LOCAL Order == INSTANCE WellFoundedInduction

-----------------------------------------------------------------------------
(* What waits in the executor, on the sockets and for the UI thread.        *)

Operations == {"info", "status", "photo", "autofocus", "startLiveview",
               "stopLiveview", "startCapture", "stopCapture"}

Requests ==
    [op : Operations, what : {None}, value : {None}]
        \cup [op : {"settings"}, what : {"mode"}, value : Modes]
        \cup [op : {"settings"}, what : Kinds, value : Values]

MessagesOf(states) ==
    [type : {"status"}, status : states]
        \cup [type : {"recording"}, recording : BOOLEAN]
        \cup [type : {"liveview"}]
        \cup [type : {"mode"}, mode : Modes]

Messages == MessagesOf(CameraStates)

TInv ==
    /\ TypeOK
    /\ tasks \in Seq(Requests)
    /\ uiQueue \in Seq(Messages)
    /\ reply \in CameraStates \cup {None}
    /\ socket \in [Sockets -> {"none", "opening", "open"}]
    /\ wire \in [Sockets -> Seq(CameraStates)]

(* While the camera has only been in modes that CaptureMode names, so has   *)
(* every status of it that is on its way.                                   *)
NamedStates == {c \in CameraStates : c.captureMode \in Modes}

NInv ==
    ~unnamed =>
        /\ camera \in NamedStates
        /\ reply \in NamedStates \cup {None}
        /\ uiQueue \in Seq(MessagesOf(NamedStates))
        /\ wire \in [Sockets -> Seq(NamedStates)]

-----------------------------------------------------------------------------
(* What the activity will know. "f" is a field: "mode" for mCaptureMode,    *)
(* "liveview" for mIsInLiveview, "recording" for mIsRecording.              *)

Writes(m, f) ==
    \/ m.type = "status" /\ f \in {"mode", "liveview"}
    \/ m.type = "mode" /\ f = "mode"
    \/ m.type = "recording" /\ f = "recording"

Written(m, f) ==
    IF m.type = "recording" THEN m.recording
    ELSE IF m.type = "mode" THEN m.mode
    ELSE IF f = "mode" THEN FromValue(m.status.captureMode)
    ELSE m.status.isInLiveView

(* The last message of q that writes f, or the field itself, holds v.       *)
Becomes(q, f, field, v) ==
    \E j \in 0 .. Len(q) :
        /\ IF j = 0 THEN field = v ELSE Writes(q[j], f) /\ Written(q[j], f) = v
        /\ \A l \in j + 1 .. Len(q) : ~Writes(q[l], f)

Awaited(op) == \E j \in DOMAIN tasks : tasks[j].op = op
Posted(type) == \E j \in DOMAIN uiQueue : uiQueue[j].type = type
ServedOp(ops) == stage = "served" /\ Head(tasks).op \in ops

(* A socket that is not open yet has received nothing; the last status on   *)
(* its way is the camera's.                                                 *)
WireEnds ==
    \A i \in Sockets :
        /\ i > resumes => socket[i] = "none"
        /\ wire[i] # <<>> => socket[i] = "open" /\ wire[i][Len(wire[i])] = camera

(* Between the camera's answer and onPostExecute the camera is as the       *)
(* running task left it.                                                    *)
ServedAgrees ==
    stage = "served" =>
        /\ reply = camera
        /\ Head(tasks).op = "startLiveview" => camera.isInLiveView
        /\ Head(tasks).op = "startCapture" => camera.isRecording
        /\ Head(tasks).op = "stopCapture" => ~camera.isRecording
        /\ Head(tasks).op = "settings" /\ Head(tasks).what = "mode" =>
                camera.captureMode = Head(tasks).value

(* A LiveviewStopAsyncTask past its join has its refresh behind it.         *)
StopRefreshes ==
    stage \in {"sent", "served"} /\ Head(tasks).op = "stopLiveview" =>
        \E j \in 2 .. Len(tasks) : tasks[j].op = "status"

(* Only that task stops the view.                                           *)
StopRuns ==
    stage \in {"stopping", "joining"} => Head(tasks).op = "stopLiveview"

(* A status, or the camera's own change, is still on its way.               *)
StatusComes ==
    \/ resumes = 0
    \/ Awaited("status")
    \/ \E i \in Sockets : wire[i] # <<>>

ModeAgrees ==
    \/ StatusComes
    \/ ServedOp({"settings"}) /\ Head(tasks).what = "mode"
    \/ Becomes(uiQueue, "mode", mCaptureMode, FromValue(camera.captureMode))

LiveviewAgrees ==
    \/ StatusComes
    \/ ServedOp({"startLiveview"})
    \/ Posted("liveview")
    \/ Becomes(uiQueue, "liveview", mIsInLiveview, camera.isInLiveView)

RecordingAgrees ==
    \/ ServedOp({"startCapture", "stopCapture"})
    \/ Becomes(uiQueue, "recording", mIsRecording, camera.isRecording)

(* What the camera shows is played, or will be, or onResume has missed it.  *)
Shown ==
    camera.isInLiveView =>
        \/ playing
        \/ connecting > 0
        \/ Posted("liveview")
        \/ ServedOp({"startLiveview"})
        \/ /\ stage \in {"stopping", "joining", "sent"}
           /\ Head(tasks).op = "stopLiveview"
        \/ activity = "stopped"
        \/ missed

SInv ==
    /\ WireEnds
    /\ ServedAgrees
    /\ StopRefreshes
    /\ StopRuns
    /\ ModeAgrees
    /\ LiveviewAgrees
    /\ RecordingAgrees

-----------------------------------------------------------------------------
(* A set of naturals that is not empty has a least element. What fails      *)
(* somewhere fails somewhere first: the induction the provers can use.      *)
LEMMA LeastElement ==
    ASSUME NEW S \in SUBSET Nat, S # {}
    PROVE  \E m \in S : \A k \in S : m <= k
<1> DEFINE R == {ss \in Nat \X Nat : ss[1] < ss[2]}
<1>1. S \subseteq Nat
  OBVIOUS
<1>2. PICK m \in S : \A k \in S : ~(<<k, m>> \in R)
  BY <1>1, Order!NatLessThanWellFounded, Order!WFMin DEF Order!OpToRel
<1>3. ASSUME NEW k \in S PROVE m <= k
  <2>1. k \in Nat /\ m \in Nat
    BY <1>1
  <2>2. k < m => <<k, m>> \in R
    BY <2>1
  <2> QED
    BY <1>2, <2>1, <2>2
<1> QED
  BY <1>3

(* FlattenSeq of nothing but empty sequences is empty.                      *)
LEMMA FlattenEmpty ==
    ASSUME NEW ss \in Seq({<<>>})
    PROVE  FlattenSeq(ss) = <<>>
<1> DEFINE n == Len(ss)
           G(f) == [i \in 1..n |-> IF i = 1 THEN ss[i] ELSE f[i-1] \o ss[i]]
           g == CHOOSE f : f = G(f)
           e == [i \in 1..n |-> <<>>]
<1>1. n \in Nat /\ \A i \in 1..n : ss[i] = <<>>
  OBVIOUS
<1>2. <<>> \o <<>> = <<>>
  OBVIOUS
<1>3. CASE n = 0
  <2>1. ss = <<>>
    BY <1>3
  <2> QED
    BY <2>1 DEF FlattenSeq
<1>4. CASE n # 0
  <2>1. e = G(e)
    <3>1. ASSUME NEW i \in 1..n
          PROVE  (IF i = 1 THEN ss[i] ELSE e[i-1] \o ss[i]) = <<>>
      <4>1. CASE i = 1
        BY <4>1, <1>1
      <4>2. CASE i # 1
        <5>1. i-1 \in 1..n
          BY <4>2, <1>1
        <5> QED
          BY <5>1, <1>2, <4>2, <1>1
      <4> QED
        BY <4>1, <4>2
    <3> QED
      BY <3>1
  <2>2. g = G(g)
    <3> HIDE DEF G
    <3> QED
      BY <2>1
  <2>3. FlattenSeq(ss) = g[n]
    BY <1>4 DEF FlattenSeq
  <2>4. \A i \in 1..n : g[i] = IF i = 1 THEN ss[i] ELSE g[i-1] \o ss[i]
    <3> HIDE DEF g
    <3> QED
      BY <2>2
  <2> HIDE DEF g
  <2>5. \A i \in 1..n : g[i] = <<>>
    <3> DEFINE S == {i \in 1..n : g[i] # <<>>}
    <3> SUFFICES ASSUME S # {} PROVE FALSE
      OBVIOUS
    <3>1. PICK m \in S : \A k \in S : m <= k
      <4>1. S \in SUBSET Nat
        BY <1>1
      <4> HIDE DEF S
      <4> QED
        BY <4>1, LeastElement
    <3>2. m \in 1..n /\ g[m] # <<>>
      OBVIOUS
    <3>3. CASE m = 1
      BY <3>3, <3>2, <2>4, <1>1
    <3>4. CASE m # 1
      <4>1. m-1 \in 1..n /\ m-1 \notin S
        BY <3>4, <3>1, <1>1
      <4> QED
        BY <4>1, <2>4, <3>4, <3>2, <1>2, <1>1
    <3> QED
      BY <3>3, <3>4
  <2> QED
    BY <2>3, <2>5, <1>1, <1>4
<1> QED
  BY <1>3, <1>4

(* A value that is offered is found where it is (IndexIn).                  *)
LEMMA IndexInFinds ==
    ASSUME NEW menu, NEW v, Offered(v, menu)
    PROVE  IndexIn(v, menu) \in DOMAIN menu /\ menu[IndexIn(v, menu)] = v
BY DEF Offered, IndexIn

(* A wheel that follows a status echoes nothing: the field its listener     *)
(* compares with already holds the value.                                   *)
LEMMA EchoIsEmpty ==
    ASSUME NEW k, NEW status
    PROVE  Echo(k, status, status.setting[k]) = <<>>
<1>1. CASE Follow(k, status) = wheelItem[k]
  BY <1>1 DEF Echo
<1>2. CASE Follow(k, status) # wheelItem[k]
  <2>1. /\ Follow(k, status) = IndexIn(status.setting[k], status.menu[k])
        /\ Offered(status.setting[k], status.menu[k])
    BY <1>2 DEF Follow
  <2> QED
    BY <1>2, <2>1, IndexInFinds DEF Echo, OnChanged
<1> QED
  BY <1>1, <1>2

(* updateStatus submits no task.                                            *)
LEMMA StatusSubmitsNothing ==
    ASSUME tasks \in Seq(Requests), NEW status, UpdateStatus(status)
    PROVE  tasks' = tasks
<1> DEFINE posts == [j \in DOMAIN Wheels |->
                        Echo(Wheels[j], status, mSetting'[Wheels[j]])]
<1>1. tasks' = tasks \o FlattenSeq(posts)
  BY DEF UpdateStatus, Submit
<1>2. mSetting' = status.setting
  BY DEF UpdateStatus
<1>3. posts = [j \in DOMAIN Wheels |-> <<>>]
  BY <1>2, EchoIsEmpty
<1>4. posts \in Seq({<<>>})
  <2>1. Len(Wheels) \in Nat /\ DOMAIN Wheels = 1 .. Len(Wheels)
    BY ConstantsAssumption
  <2> HIDE DEF posts
  <2> QED
    BY <1>3, <2>1
<1>5. FlattenSeq(posts) = <<>>
  BY <1>4, FlattenEmpty
<1> HIDE DEF posts
<1> QED
  BY <1>1, <1>5, ConcatEmptySeq

-----------------------------------------------------------------------------
(* What the camera is after a request (Served), for each of the fields the  *)
(* activity keeps.                                                          *)
LEMMA ServedIsCamera ==
    ASSUME camera \in CameraStates, NEW task \in Requests
    PROVE  Served(task) \in CameraStates
<1> DEFINE mode == [camera EXCEPT !.captureMode = task.value]
           setting == [camera EXCEPT !.setting[task.what] = task.value]
<1>1. CASE task \in [op : Operations, what : {None}, value : {None}]
  <2>1. task.op \in Operations
    BY <1>1
  <2>2. task.op # "settings"
    BY <2>1 DEF Operations
  <2>3. Served(task) \in {camera, [camera EXCEPT !.isInLiveView = TRUE],
                          [camera EXCEPT !.isInLiveView = FALSE],
                          [camera EXCEPT !.isRecording = TRUE],
                          [camera EXCEPT !.isRecording = FALSE]}
    BY <2>2 DEF Served
  <2> QED
    BY <2>3 DEF CameraStates
<1>2. CASE task \in [op : {"settings"}, what : {"mode"}, value : Modes]
  <2>1. Served(task) = mode /\ task.value \in Modes
    BY <1>2 DEF Served
  <2> QED
    BY <2>1 DEF CameraStates, Codes
<1>3. CASE task \in [op : {"settings"}, what : Kinds, value : Values]
  <2>1. /\ task.op = "settings" /\ task.what # "mode"
        /\ task.what \in Kinds /\ task.value \in Values
    BY <1>3, ConstantsAssumption
  <2>2. Served(task) = setting
    BY <2>1 DEF Served
  <2> QED
    BY <2>1, <2>2 DEF CameraStates
<1> QED
  BY <1>1, <1>2, <1>3 DEF Requests

(* No item, and one item, make a sequence.                                  *)
LEMMA ShortSequences ==
    ASSUME NEW S
    PROVE  <<>> \in Seq(S) /\ \A x \in S : <<x>> \in Seq(S)
OBVIOUS

(* What a task posts to the UI thread: nothing, or one message.             *)
LEMMA PostedIsMessage ==
    ASSUME NEW S, reply \in S, NEW task \in Requests
    PROVE  \/ OnPostExecute(task) = <<>>
           \/ \E m \in MessagesOf(S) : OnPostExecute(task) = <<m>>
<1> USE DEF MessagesOf
<1>1. CASE task.op = "status"
  <2>1. [type |-> "status", status |-> reply] \in MessagesOf(S)
    OBVIOUS
  <2> QED
    BY <1>1, <2>1 DEF OnPostExecute
<1>2. CASE task.op = "startCapture"
  <2>1. [type |-> "recording", recording |-> TRUE] \in MessagesOf(S)
    OBVIOUS
  <2> QED
    BY <1>2, <2>1 DEF OnPostExecute
<1>3. CASE task.op = "stopCapture"
  <2>1. [type |-> "recording", recording |-> FALSE] \in MessagesOf(S)
    OBVIOUS
  <2> QED
    BY <1>3, <2>1 DEF OnPostExecute
<1>4. CASE task.op = "startLiveview"
  <2>1. [type |-> "liveview"] \in MessagesOf(S)
    OBVIOUS
  <2> QED
    BY <1>4, <2>1 DEF OnPostExecute
<1>5. CASE task.op = "settings" /\ task.what = "mode"
  <2>1. task.value \in Modes
    BY <1>5, ConstantsAssumption DEF Requests, Operations
  <2>2. [type |-> "mode", mode |-> task.value] \in MessagesOf(S)
    BY <2>1
  <2> QED
    BY <1>5, <2>2 DEF OnPostExecute
<1>6. CASE /\ task.op \notin {"status", "startCapture", "stopCapture",
                              "startLiveview"}
           /\ ~(task.op = "settings" /\ task.what = "mode")
  BY <1>6 DEF OnPostExecute
<1> QED
  BY <1>1, <1>2, <1>3, <1>4, <1>5, <1>6

(* Following a status leaves every wheel at a position, counted from 1.     *)
LEMMA FollowIsPosition ==
    ASSUME TypeOK, NEW status \in CameraStates, NEW k \in Kinds
    PROVE  Follow(k, status) \in Nat \ {0}
<1>1. CASE Follow(k, status) = wheelItem[k]
  BY <1>1 DEF TypeOK
<1>2. CASE /\ Follow(k, status) = IndexIn(status.setting[k], status.menu[k])
           /\ Offered(status.setting[k], status.menu[k])
  <2>1. Follow(k, status) \in DOMAIN status.menu[k]
    BY <1>2, IndexInFinds
  <2>2. status.menu[k] \in Seq(Values)
    BY ConstantsAssumption DEF CameraStates
  <2> QED
    BY <2>1, <2>2
<1> QED
  BY <1>1, <1>2 DEF Follow

(* A request for a value of a menu is one the camera knows.                 *)
LEMMA SettingIsRequest ==
    ASSUME NEW k \in Kinds, NEW m \in Menus[k], NEW i \in DOMAIN m
    PROVE  m[i] \in Values
BY DEF Values

-----------------------------------------------------------------------------
(* The session begins with every variable of its type ...                   *)
LEMMA InitTypes == Init => TInv
<1> SUFFICES ASSUME Init PROVE TInv
  OBVIOUS
<1>1. TypeOK
  <2>1. camera \in CameraStates
    BY DEF Init
  <2>2. /\ mCaptureMode \in Modes \cup {None}
        /\ mSetting \in [Kinds -> Values \cup {None}]
        /\ \A k \in Kinds : wheelMenu[k] \in Menus[k] \cup {<<>>}
        /\ wheelItem \in [Kinds -> Nat \ {0}]
    BY DEF Init
  <2>3. /\ events \in 0..MaxEvents
        /\ resumes \in 0..MaxResumes
        /\ changes \in 0..MaxChanges
    BY ConstantsAssumption DEF Init
  <2>4. /\ mIsRecording \in BOOLEAN /\ mIsInLiveview \in BOOLEAN
        /\ scrolling \subseteq Kinds
        /\ activity = "stopped"
        /\ mVisible \in BOOLEAN /\ hidePending \in BOOLEAN
        /\ playing \in BOOLEAN /\ connecting \in Nat
        /\ thread = "none" /\ joined = "none"
        /\ missed \in BOOLEAN /\ unnamed \in BOOLEAN
        /\ stage = "queued" /\ reply = None /\ failure = "none"
        /\ \A i \in Sockets : socket[i] = "none"
    BY DEF Init
  <2> QED
    BY <2>1, <2>2, <2>3, <2>4 DEF TypeOK
<1>2. tasks = <<>> /\ uiQueue = <<>> /\ reply = None
  BY DEF Init
<1>3. socket \in [Sockets -> {"none", "opening", "open"}]
  BY DEF Init
<1>4. wire \in [Sockets -> Seq(CameraStates)]
  BY DEF Init
<1> QED
  BY <1>1, <1>2, <1>3, <1>4 DEF TInv

(* A task whose request takes no argument is a request.                     *)
LEMMA TaskIsRequest ==
    ASSUME NEW op \in Operations
    PROVE  Task(op) \in Requests
BY DEF Task, Requests

(* What a click, a resume, a touch or a status submits.                     *)
LEMMA SubmitTypes ==
    ASSUME tasks \in Seq(Requests), NEW new \in Seq(Requests), Submit(new)
    PROVE  /\ tasks' \in Seq(Requests)
           /\ tasks # <<>> => tasks' # <<>>
BY DEF Submit

LEMMA RefreshIsRequests ==
    /\ RefreshCameraStatus \in Seq(Requests)
    /\ ReadCameraInfo \o RefreshCameraStatus \in Seq(Requests)
<1>1. Task("info") \in Requests /\ Task("status") \in Requests
  BY TaskIsRequest DEF Operations
<1>2. /\ RefreshCameraStatus \in Seq(Requests)
      /\ ReadCameraInfo \in Seq(Requests)
  BY <1>1 DEF RefreshCameraStatus, ReadCameraInfo
<1> QED
  BY <1>2, ConcatProperties

(* The buttons of the two modes submit requests the camera knows ...        *)
LEMMA ModeRequests ==
    ASSUME ClickPhotoMode \/ ClickVideoMode
    PROVE  \E new \in Seq(Requests) : Submit(new)
<1>1. /\ Task("startLiveview") \in Requests
      /\ Task("stopLiveview") \in Requests
      /\ PostSettings("mode", "PHOTO") \in Requests
      /\ PostSettings("mode", "VIDEO") \in Requests
  BY TaskIsRequest DEF Operations, PostSettings, Requests, Modes
<1>2. /\ <<Task("stopLiveview"), PostSettings("mode", "PHOTO")>>
            \in Seq(Requests)
      /\ <<Task("startLiveview"), PostSettings("mode", "PHOTO")>>
            \in Seq(Requests)
      /\ <<Task("startLiveview"), PostSettings("mode", "VIDEO")>>
            \in Seq(Requests)
      /\ <<PostSettings("mode", "PHOTO")>> \in Seq(Requests)
  BY <1>1
<1>3. CASE ClickPhotoMode
  BY <1>2, <1>3 DEF ClickPhotoMode
<1>4. CASE ClickVideoMode
  BY <1>2, <1>4 DEF ClickVideoMode
<1> QED
  BY <1>3, <1>4

(* ... and so does a wheel the user turns.                                  *)
LEMMA TurnRequests ==
    ASSUME TypeOK, NEW k \in Kinds, NEW i \in DOMAIN wheelMenu[k], NEW known
    PROVE  OnChanged(k, wheelMenu[k][i], known) \in Seq(Requests)
<1>1. wheelMenu[k] \in Menus[k]
  BY DEF TypeOK
<1>2. wheelMenu[k][i] \in Values
  BY <1>1, SettingIsRequest
<1>3. PostSettings(k, wheelMenu[k][i]) \in Requests
  BY <1>2 DEF PostSettings, Requests
<1> QED
  BY <1>3, ShortSequences DEF OnChanged

(* Every change the camera makes leaves it a camera, and every status it    *)
(* pushes is one it was in.                                                 *)
LEMMA PushTypes ==
    ASSUME NEW S, wire \in [Sockets -> Seq(S)], NEW status \in S, Push(status)
    PROVE  wire' \in [Sockets -> Seq(S)]
BY DEF Push

(* Loading the stream leaves the view its types.                            *)
LEMMA LoadTypes ==
    ASSUME connecting \in Nat, LoadLiveview
    PROVE  /\ connecting' \in Nat /\ connecting' > 0 /\ missed' = FALSE
           /\ playing' = playing /\ thread' = thread /\ joined' = joined
BY DEF LoadLiveview

(* ... and every step of the user, the looper, the executor, the network    *)
(* and the camera keeps the types.                                          *)
LEMMA NextTypes == TInv /\ [Next]_vars => TInv'
<1> SUFFICES ASSUME TInv, [Next]_vars PROVE TInv'
  OBVIOUS
<1> USE DEF TInv, TypeOK
<1>1. ASSUME Resume PROVE TInv'
  <2>1. tasks' \in Seq(Requests) /\ (tasks # <<>> => tasks' # <<>>)
    BY <1>1, SubmitTypes, RefreshIsRequests DEF Resume
  <2>2. /\ playing' \in BOOLEAN /\ connecting' \in Nat /\ missed' \in BOOLEAN
        /\ UNCHANGED <<thread, joined>>
    <3>1. CASE LoadLiveview
      BY <3>1, LoadTypes, Zenon
    <3>2. CASE /\ missed' = (missed \/ (activity = "stopped" /\ camera.isInLiveView))
               /\ UNCHANGED <<playing, thread, joined, connecting>>
      BY <3>2, Zenon
    <3> QED
      BY <1>1, <3>1, <3>2 DEF Resume
  <2>3. resumes' \in 0..MaxResumes
    BY <1>1, ConstantsAssumption DEF Resume
  <2>4. socket' \in [Sockets -> {"none", "opening", "open"}]
    BY <1>1 DEF Resume
  <2> QED
    BY <1>1, <2>1, <2>2, <2>3, <2>4 DEF Resume, fields, wheels
<1>2. ASSUME ClickRefresh PROVE TInv'
  <2>1. tasks' \in Seq(Requests) /\ (tasks # <<>> => tasks' # <<>>)
    BY <1>2, SubmitTypes, RefreshIsRequests DEF ClickRefresh
  <2>2. /\ playing' \in BOOLEAN /\ connecting' \in Nat /\ missed' \in BOOLEAN
        /\ UNCHANGED <<thread, joined>>
    <3>1. CASE LoadLiveview
      BY <3>1, LoadTypes, Zenon
    <3>2. CASE UNCHANGED view
      BY <3>2, Zenon DEF view
    <3> QED
      BY <1>2, <3>1, <3>2 DEF ClickRefresh
  <2>3. events' \in 0..MaxEvents
    BY <1>2, ConstantsAssumption DEF ClickRefresh, UserEvent
  <2> QED
    BY <1>2, <2>1, <2>2, <2>3
    DEF ClickRefresh, UserEvent, fields, wheels, window, network
<1>3. ASSUME ClickCapture PROVE TInv'
  <2>1. \A op \in Operations : <<Task(op)>> \in Seq(Requests)
    BY TaskIsRequest
  <2>2. /\ tasks' \in Seq(Requests) /\ (tasks # <<>> => tasks' # <<>>)
        /\ failure' \in {"none", "api", "socket", "mode"}
    <3>1. CASE Submit(<<Task("photo")>>) /\ UNCHANGED failure
      BY <3>1, <2>1, SubmitTypes DEF Operations
    <3>2. CASE /\ Submit(<<Task(IF mIsRecording THEN "stopCapture"
                                                ELSE "startCapture")>>)
               /\ UNCHANGED failure
      BY <3>2, <2>1, SubmitTypes DEF Operations
    <3>3. CASE failure' = "mode" /\ UNCHANGED tasks
      BY <3>3
    <3> QED
      BY <1>3, <3>1, <3>2, <3>3 DEF ClickCapture
  <2>3. events' \in 0..MaxEvents
    BY <1>3, ConstantsAssumption DEF ClickCapture
  <2> QED
    BY <1>3, <2>2, <2>3
    DEF ClickCapture, fields, wheels, window, view, network
<1>4. ASSUME ClickPhotoMode \/ ClickVideoMode PROVE TInv'
  <2>1. \E new \in Seq(Requests) : Submit(new)
    BY <1>4, ModeRequests
  <2>2. tasks' \in Seq(Requests) /\ (tasks # <<>> => tasks' # <<>>)
    BY <2>1, SubmitTypes
  <2>3. events' \in 0..MaxEvents
    BY <1>4, ConstantsAssumption DEF ClickPhotoMode, ClickVideoMode, UserEvent
  <2> QED
    BY <1>4, <2>2, <2>3
    DEF ClickPhotoMode, ClickVideoMode, UserEvent, fields, wheels, window,
        view, network
<1>5. ASSUME ShortTouch PROVE TInv'
  BY <1>5, ConstantsAssumption
  DEF ShortTouch, UserEvent, fields, wheels, view, executor, network
<1>6. ASSUME LongTouch PROVE TInv'
  <2>1. tasks' \in Seq(Requests) /\ (tasks # <<>> => tasks' # <<>>)
    <3>1. Task("autofocus") \in Requests
      BY TaskIsRequest DEF Operations
    <3>2. <<Task("autofocus")>> \in Seq(Requests)
      BY <3>1
    <3> QED
      BY <1>6, <3>2, SubmitTypes DEF LongTouch
  <2> QED
    BY <1>6, <2>1, ConstantsAssumption
    DEF LongTouch, UserEvent, fields, wheels, window, view, network
<1>7. ASSUME NEW k \in Kinds, BeginScroll(k) PROVE TInv'
  BY <1>7, ConstantsAssumption
  DEF BeginScroll, UserEvent, fields, window, view, executor, network
<1>8. ASSUME NEW k \in Kinds, NEW i \in DOMAIN wheelMenu[k], TurnWheel(k, i)
      PROVE  TInv'
  <2>1. wheelMenu[k] \in Menus[k]
    BY DEF TypeOK
  <2>2. wheelMenu[k][i] \in Values /\ i \in Nat \ {0}
    BY <2>1, SettingIsRequest, ConstantsAssumption
  <2>3. tasks' \in Seq(Requests) /\ (tasks # <<>> => tasks' # <<>>)
    <3>1. OnChanged(k, wheelMenu[k][i], mSetting[k]) \in Seq(Requests)
      BY TurnRequests
    <3> QED
      BY <1>8, <3>1, SubmitTypes DEF TurnWheel
  <2>4. wheelItem' \in [Kinds -> Nat \ {0}]
    BY <1>8, <2>2 DEF TurnWheel
  <2>5. events' \in 0..MaxEvents
    BY <1>8, ConstantsAssumption DEF TurnWheel, UserEvent
  <2> QED
    BY <1>8, <2>3, <2>4, <2>5
    DEF TurnWheel, UserEvent, fields, window, view, network
<1>9. ASSUME NEW k \in Kinds, EndScroll(k) PROVE TInv'
  BY <1>9 DEF EndScroll, fields, window, view, executor, network, bounds
<1>10. ASSUME HideTimer PROVE TInv'
  <2>1. /\ UNCHANGED <<fields, wheels, activity, view, uiQueue, executor, network,
                        bounds, failure>>
        /\ hidePending' \in BOOLEAN /\ mVisible' \in BOOLEAN
    BY <1>10 DEF HideTimer
  <2> QED
    BY <2>1 DEF fields, wheels, view, executor, network, bounds
<1>11. ASSUME HandleStatus PROVE TInv'
  <2> DEFINE status == Head(uiQueue).status
  <2>1. Head(uiQueue) \in Messages /\ uiQueue' \in Seq(Messages)
    BY <1>11, HeadTailProperties DEF HandleStatus, Received
  <2>2. status \in CameraStates /\ UpdateStatus(status)
    BY <1>11, <2>1 DEF HandleStatus, Received, Messages, MessagesOf
  <2> HIDE DEF status
  <2>3. tasks' = tasks
    BY <2>2, StatusSubmitsNothing
  <2>4. /\ mCaptureMode' \in Modes \cup {None} /\ mIsInLiveview' \in BOOLEAN
        /\ mSetting' \in [Kinds -> Values]
        /\ failure' \in {"none", "api", "socket", "mode"}
    BY <2>2 DEF UpdateStatus, CameraStates, SetCaptureMode, FromValue
  <2>5. \A k \in Kinds : wheelMenu'[k] \in Menus[k] \cup {<<>>}
    BY <2>2 DEF UpdateStatus, CameraStates
  <2>6. wheelItem' \in [Kinds -> Nat \ {0}]
    BY <2>2, FollowIsPosition DEF UpdateStatus
  <2>7. UNCHANGED <<mIsRecording, scrolling>>
    BY <2>2 DEF UpdateStatus
  <2>8. UNCHANGED <<window, view, stage, reply, network, bounds>>
    BY <1>11 DEF HandleStatus
  <2> QED
    BY <2>1, <2>3, <2>4, <2>5, <2>6, <2>7, <2>8, SMTT(30)
    DEF window, view, network, bounds
<1>12. ASSUME HandleRecording \/ HandleMode PROVE TInv'
  <2>1. Head(uiQueue) \in Messages /\ uiQueue' \in Seq(Messages)
    <3>1. uiQueue # <<>> /\ uiQueue' = Tail(uiQueue)
      BY <1>12 DEF HandleRecording, HandleMode, Received
    <3>2. uiQueue \in Seq(Messages)
      OBVIOUS
    <3> QED
      BY <3>1, <3>2, HeadTailProperties
  <2>2. /\ HandleRecording => Head(uiQueue).recording \in BOOLEAN
        /\ HandleMode => Head(uiQueue).mode \in Modes
    BY <2>1 DEF HandleRecording, HandleMode, Received, Messages, MessagesOf
  <2>3. /\ mIsRecording' \in BOOLEAN /\ mCaptureMode' \in Modes \cup {None}
        /\ failure' \in {"none", "api", "socket", "mode"}
    BY <1>12, <2>2 DEF HandleRecording, HandleMode, SetCaptureMode
  <2> QED
    BY <1>12, <2>1, <2>3
    DEF HandleRecording, HandleMode, wheels, window, view, executor,
        network, bounds
<1>13. ASSUME EnableLiveview PROVE TInv'
  <2>1. uiQueue' \in Seq(Messages)
    BY <1>13, HeadTailProperties DEF EnableLiveview, Received
  <2>2. tasks' \in Seq(Requests) /\ (tasks # <<>> => tasks' # <<>>)
    BY <1>13, SubmitTypes, RefreshIsRequests DEF EnableLiveview
  <2>3. /\ playing' \in BOOLEAN /\ connecting' \in Nat /\ missed' \in BOOLEAN
        /\ UNCHANGED <<thread, joined>>
    BY <1>13, LoadTypes, Zenon DEF EnableLiveview
  <2> QED
    BY <1>13, <2>1, <2>2, <2>3
    DEF EnableLiveview, fields, wheels, window, network, bounds
<1>14. ASSUME LiveviewConnected \/ LiveviewFails PROVE TInv'
  <2>1. /\ playing' \in BOOLEAN /\ connecting' \in Nat
        /\ thread' \in {"none", "running", "stopping"}
        /\ joined' \in {"none", "current", "former"} /\ missed' = missed
    <3>1. connecting \in Nat /\ connecting > 0 /\ connecting' = connecting - 1
      BY <1>14 DEF LiveviewConnected, LiveviewFails
    <3>2. /\ playing' \in BOOLEAN
          /\ thread' \in {"none", "running", "stopping"}
          /\ joined' \in {"none", "current", "former"} /\ missed' = missed
      BY <1>14 DEF LiveviewConnected, LiveviewFails
    <3> QED
      BY <3>1, <3>2
  <2> QED
    BY <1>14, <2>1
    DEF LiveviewConnected, LiveviewFails, fields, wheels, window, executor,
      network, bounds
<1>15. ASSUME StartTask \/ StopPlayback \/ JoinThread PROVE TInv'
  <2>1. /\ stage \in {"queued", "stopping"} /\ tasks # <<>>
        /\ stage' \in {"stopping", "joining", "sent"}
        /\ UNCHANGED <<tasks, reply>>
    BY <1>15 DEF StartTask, StopPlayback, JoinThread
  <2>2. /\ thread' \in {"none", "running", "stopping"}
        /\ joined' \in {"none", "current", "former"}
        /\ UNCHANGED <<playing, connecting, missed>>
    BY <1>15 DEF StartTask, StopPlayback, JoinThread, view
  <2> QED
    BY <1>15, <2>1, <2>2
    DEF StartTask, StopPlayback, JoinThread, fields, wheels, window, network,
        bounds
<1>16. ASSUME ServeTask PROVE TInv'
  <2>1. Head(tasks) \in Requests
    BY <1>16, HeadTailProperties DEF ServeTask
  <2>2. camera' \in CameraStates /\ reply' = camera'
    BY <1>16, <2>1, ServedIsCamera DEF ServeTask
  <2>3. wire' \in [Sockets -> Seq(CameraStates)]
    BY <1>16, <2>2, PushTypes DEF ServeTask
  <2>4. reply' # None
    BY <2>2, ConstantsAssumption
  <2> QED
    BY <1>16, <2>2, <2>3, <2>4
    DEF ServeTask, fields, wheels, window, view, bounds
<1>17. ASSUME FinishTask PROVE TInv'
  <2>1. Head(tasks) \in Requests /\ tasks' \in Seq(Requests)
    BY <1>17, HeadTailProperties DEF FinishTask
  <2>2. reply \in CameraStates
    BY <1>17 DEF FinishTask
  <2>3. uiQueue' \in Seq(Messages)
    <3>1. uiQueue' = uiQueue \o OnPostExecute(Head(tasks))
      BY <1>17 DEF FinishTask
    <3>2. OnPostExecute(Head(tasks)) \in Seq(Messages)
      <4> HIDE DEF TInv, TypeOK
      <4> QED
        BY <2>1, <2>2, PostedIsMessage, ShortSequences DEF Messages
    <3> QED
      BY <3>1, <3>2, ConcatProperties
  <2> QED
    BY <1>17, <2>1, <2>3
    DEF FinishTask, fields, wheels, window, view, network, bounds
<1>18. ASSUME NEW i \in Sockets, SocketOpens(i) PROVE TInv'
  BY <1>18
  DEF SocketOpens, fields, wheels, window, view, executor, bounds
<1>19. ASSUME NEW i \in Sockets, Deliver(i) PROVE TInv'
  <2>1. Head(wire[i]) \in CameraStates /\ Tail(wire[i]) \in Seq(CameraStates)
    BY <1>19, HeadTailProperties DEF Deliver
  <2>2. [type |-> "status", status |-> Head(wire[i])] \in Messages
    BY <2>1 DEF Messages, MessagesOf
  <2>3. uiQueue' \in Seq(Messages) /\ wire' \in [Sockets -> Seq(CameraStates)]
    BY <1>19, <2>1, <2>2 DEF Deliver
  <2> QED
    BY <1>19, <2>3
    DEF Deliver, fields, wheels, window, view, executor, bounds
<1>23. ASSUME JoinReturns PROVE TInv'
  <2>1. /\ tasks' \in Seq(Requests) /\ (tasks # <<>> => tasks' # <<>>)
        /\ stage = "joining" /\ stage' = "sent" /\ reply' = reply
        /\ playing' \in BOOLEAN
    BY <1>23, SubmitTypes, RefreshIsRequests DEF JoinReturns
  <2> QED
    BY <1>23, <2>1 DEF JoinReturns, fields, wheels, window, network, bounds
<1>24. ASSUME Pause \/ SurfaceDestroyed PROVE TInv'
  <2>1. /\ UNCHANGED <<fields, wheels, mVisible, hidePending, connecting, missed,
                        uiQueue, executor, network, bounds, failure>>
        /\ activity' \in {"resumed", "paused", "stopped"} /\ playing' \in BOOLEAN
        /\ thread' \in {"none", "running", "stopping"}
        /\ joined' \in {"none", "current", "former"}
    BY <1>24 DEF Pause, SurfaceDestroyed, view
  <2> QED
    BY <2>1 DEF fields, wheels, executor, network, bounds
<1>25. ASSUME ThreadEnds \/ FormerThreadEnds PROVE TInv'
  BY <1>25
  DEF ThreadEnds, FormerThreadEnds, fields, wheels, window, executor, network,
      bounds
<1>20. ASSUME FailTask \/ \E i \in Sockets : SocketFails(i) PROVE TInv'
  BY <1>20
  DEF FailTask, SocketFails, fields, wheels, window, view, executor,
      network, bounds
<1>21. ASSUME CameraChanges PROVE TInv'
  <2>1. camera' \in CameraStates
    <3>1. CASE \/ camera' = [camera EXCEPT !.isInLiveView = ~@]
               \/ camera' = [camera EXCEPT !.isRecording = ~@]
               \/ \E m \in Codes : camera' = [camera EXCEPT !.captureMode = m]
      BY <3>1 DEF CameraStates
    <3>2. ASSUME NEW k \in Kinds, NEW m \in Menus[k], NEW i \in DOMAIN m,
                 camera' = [camera EXCEPT !.menu[k] = m, !.setting[k] = m[i]]
          PROVE  camera' \in CameraStates
      <4>1. m[i] \in Values
        BY SettingIsRequest
      <4>2. [camera.menu EXCEPT ![k] = m]
                \in {f \in [Kinds -> UNION {Menus[j] : j \in Kinds}] :
                        \A j \in Kinds : f[j] \in Menus[j]}
        BY ZenonT(60) DEF CameraStates
      <4>3. [camera.setting EXCEPT ![k] = m[i]] \in [Kinds -> Values]
        BY <4>1 DEF CameraStates
      <4>4. camera' = [isInLiveView |-> camera.isInLiveView,
                       captureMode |-> camera.captureMode,
                       isRecording |-> camera.isRecording,
                       menu |-> [camera.menu EXCEPT ![k] = m],
                       setting |-> [camera.setting EXCEPT ![k] = m[i]]]
        BY <3>2 DEF CameraStates
      <4> QED
        BY <4>2, <4>3, <4>4 DEF CameraStates
    <3> QED
      BY <1>21, <3>1, <3>2 DEF CameraChanges, AlterCamera
  <2>2. wire' \in [Sockets -> Seq(CameraStates)]
    <3>1. Push(camera')
      BY <1>21 DEF CameraChanges
    <3> QED
      BY <2>1, <3>1, PushTypes
  <2>3. changes' \in 0..MaxChanges
    <3>1. changes < MaxChanges /\ changes' = changes + 1
      BY <1>21 DEF CameraChanges
    <3> QED
      BY <3>1, ConstantsAssumption
  <2> QED
    BY <1>21, <2>1, <2>2, <2>3
    DEF CameraChanges, fields, wheels, window, view, executor
<1>22. ASSUME UNCHANGED vars PROVE TInv'
  BY <1>22
  DEF vars, fields, wheels, window, view, executor, network, bounds
<1> HIDE DEF TInv, TypeOK
<1> QED
  BY <1>1, <1>2, <1>3, <1>4, <1>5, <1>6, <1>7, <1>8, <1>9, <1>10, <1>11,
     <1>12, <1>13, <1>14, <1>15, <1>16, <1>17, <1>18, <1>19, <1>20, <1>21,
     <1>22, <1>23, <1>24, <1>25
  DEF Next, Running, User, Looper, Settling, Rendering, Executor, Network

(* Every variable has its type in every state, whatever the wheels, the     *)
(* lists of values and the bounds; so have the tasks, the messages and the  *)
(* statuses on their way (TInv).                                            *)
THEOREM SessionTypes == Spec => []TypeOK
<1>1. TInv => TypeOK
  BY DEF TInv
<1> QED
  BY InitTypes, NextTypes, <1>1, PTL DEF Spec

-----------------------------------------------------------------------------
(* A step of the session, by what it does to the fields, the queues and the *)
(* camera. Most steps touch none of them, or only submit tasks. With        *)
(* connections that succeed, neither takes the source of a surface that     *)
(* stays, and a switch throws only in liveview with an unknown mode.        *)
KeepsView ==
    /\ ~Lossy /\ (playing \/ connecting > 0) =>
            playing' \/ connecting' > 0 \/ activity' = "stopped"
    /\ missed => missed' \/ connecting' > 0
    /\ activity = "stopped" => activity' = "stopped"

Throws == failure' = "mode" => \/ failure = "mode"
                               \/ mIsInLiveview /\ mCaptureMode = None

Still ==
    /\ UNCHANGED <<mCaptureMode, mIsRecording, mIsInLiveview, uiQueue, executor,
                   network, resumes>>
    /\ KeepsView /\ Throws

Submits ==
    /\ \E new \in Seq(Requests) : Submit(new)
    /\ UNCHANGED <<mCaptureMode, mIsRecording, mIsInLiveview, uiQueue, stage,
                   reply, network, resumes>>
    /\ KeepsView /\ Throws

LEMMA StepShape ==
    ASSUME TInv, TInv', [Next]_vars
    PROVE  \/ Still
           \/ Submits
           \/ Resume
           \/ HandleStatus \/ HandleRecording \/ HandleMode \/ EnableLiveview
           \/ StartTask \/ StopPlayback \/ JoinThread \/ JoinReturns
           \/ ServeTask \/ FinishTask
           \/ \E i \in Sockets : SocketOpens(i) \/ Deliver(i)
           \/ CameraChanges
<1>1. ASSUME ClickRefresh PROVE Submits
  <2>1. /\ UNCHANGED <<fields, uiQueue, stage, reply, network, resumes, failure>>
        /\ Submit(ReadCameraInfo \o RefreshCameraStatus)
    BY <1>1 DEF ClickRefresh, UserEvent
  <2>2. KeepsView
    <3>1. connecting \in Nat
      BY DEF TInv, TypeOK
    <3> QED
      BY <1>1, <3>1
      DEF ClickRefresh, UserEvent, LoadLiveview, window, view, KeepsView
  <2> QED
    BY <2>1, <2>2, RefreshIsRequests DEF fields, Submits, Throws
<1>2. ASSUME ClickCapture PROVE Still \/ Submits
  <2>1. UNCHANGED <<fields, window, view, uiQueue, stage, reply, network, resumes>>
    BY <1>2 DEF ClickCapture
  <2>2. \A op \in Operations : <<Task(op)>> \in Seq(Requests)
    BY TaskIsRequest, ShortSequences
  <2>3. UNCHANGED tasks \/ \E new \in Seq(Requests) : Submit(new)
    BY <1>2, <2>2 DEF ClickCapture, Operations
  <2>4. Throws
    BY <1>2 DEF ClickCapture, Throws
  <2> QED
    BY <2>1, <2>3, <2>4
    DEF fields, window, view, executor, KeepsView, Still, Submits
<1>3. ASSUME ClickPhotoMode \/ ClickVideoMode PROVE Submits
  <2>1. UNCHANGED <<fields, window, view, uiQueue, stage, reply, network,
                    resumes, failure>>
    BY <1>3 DEF ClickPhotoMode, ClickVideoMode, UserEvent
  <2>2. \E new \in Seq(Requests) : Submit(new)
    BY <1>3, ModeRequests
  <2> QED
    BY <2>1, <2>2 DEF fields, window, view, KeepsView, Throws, Submits
<1>4. ASSUME LongTouch PROVE Submits
  <2>1. UNCHANGED <<fields, window, view, uiQueue, stage, reply, network,
                    resumes, failure>>
    BY <1>4 DEF LongTouch, UserEvent
  <2>2. Task("autofocus") \in Requests
    BY TaskIsRequest DEF Operations
  <2>3. \E new \in Seq(Requests) : Submit(new)
    BY <1>4, <2>2, ShortSequences DEF LongTouch
  <2> QED
    BY <2>1, <2>3 DEF fields, window, view, KeepsView, Throws, Submits
<1>5. ASSUME NEW k \in Kinds, NEW i \in DOMAIN wheelMenu[k], TurnWheel(k, i)
      PROVE  Submits
  <2>1. UNCHANGED <<fields, window, view, uiQueue, stage, reply, network,
                    resumes, failure>>
    BY <1>5 DEF TurnWheel, UserEvent
  <2>2. OnChanged(k, wheelMenu[k][i], mSetting[k]) \in Seq(Requests)
    BY TurnRequests DEF TInv
  <2>3. \E new \in Seq(Requests) : Submit(new)
    BY <1>5, <2>2 DEF TurnWheel
  <2> QED
    BY <2>1, <2>3 DEF fields, window, view, KeepsView, Throws, Submits
<1>6. ASSUME \/ ShortTouch \/ \E k \in Kinds : BeginScroll(k) \/ EndScroll(k)
             \/ HideTimer \/ FailTask \/ \E i \in Sockets : SocketFails(i)
      PROVE  Still
  <2>1. /\ UNCHANGED <<fields, activity, view, uiQueue, executor, network, resumes>>
        /\ failure' \in {failure, "api", "socket"}
    BY <1>6
    DEF ShortTouch, BeginScroll, EndScroll, HideTimer, FailTask, SocketFails,
        UserEvent, window, bounds
  <2> QED
    BY <2>1 DEF fields, view, KeepsView, Throws, Still
<1>7. ASSUME \/ Pause \/ SurfaceDestroyed \/ LiveviewConnected \/ LiveviewFails
             \/ ThreadEnds \/ FormerThreadEnds
      PROVE  Still
  <2>1. UNCHANGED <<fields, uiQueue, executor, network, resumes, failure>>
    BY <1>7
    DEF Pause, SurfaceDestroyed, LiveviewConnected, LiveviewFails, ThreadEnds,
        FormerThreadEnds, bounds
  <2>2. KeepsView
    BY <1>7
    DEF Pause, SurfaceDestroyed, LiveviewConnected, LiveviewFails, ThreadEnds,
        FormerThreadEnds, window, view, KeepsView
  <2> QED
    BY <2>1, <2>2 DEF fields, Throws, Still
<1>8. ASSUME UNCHANGED vars PROVE Still
  BY <1>8 DEF vars, fields, window, view, bounds, KeepsView, Throws, Still
<1> QED
  BY <1>1, <1>2, <1>3, <1>4, <1>5, <1>6, <1>7, <1>8
  DEF Next, Running, User, Looper, Settling, Rendering, Executor, Network

(* A process that has not been killed never was.                            *)
LEMMA NotKilled ==
    ASSUME [Next]_vars
    PROVE  failure = "none" \/ UNCHANGED vars
BY DEF Next, Running

(* What a message of each kind does to the fields.                          *)
LEMMA StatusStep ==
    ASSUME TInv, HandleStatus, failure = "none"
    PROVE  /\ uiQueue # <<>> /\ uiQueue' = Tail(uiQueue)
           /\ Head(uiQueue) \in Messages /\ Head(uiQueue).type = "status"
           /\ mCaptureMode' = FromValue(Head(uiQueue).status.captureMode)
           /\ \/ failure' = "mode" /\ mCaptureMode' = None
              \/ /\ failure' = failure
                 /\ mIsInLiveview' = Head(uiQueue).status.isInLiveView
           /\ UNCHANGED <<mIsRecording, window, view, executor, network, resumes>>
<1>1. uiQueue # <<>> /\ uiQueue \in Seq(Messages) /\ tasks \in Seq(Requests)
  BY DEF TInv, HandleStatus, Received
<1>2. Head(uiQueue) \in Messages /\ Head(uiQueue).type = "status"
  BY <1>1, HeadTailProperties DEF HandleStatus, Received
<1>3. UpdateStatus(Head(uiQueue).status)
  BY DEF HandleStatus
<1>4. tasks' = tasks
  BY <1>1, <1>3, StatusSubmitsNothing
<1> QED
  BY <1>1, <1>2, <1>3, <1>4
  DEF HandleStatus, UpdateStatus, SetCaptureMode, executor, bounds

LEMMA ModeStep ==
    ASSUME TInv, HandleMode
    PROVE  /\ uiQueue # <<>> /\ uiQueue' = Tail(uiQueue)
           /\ Head(uiQueue) \in Messages /\ Head(uiQueue).type = "mode"
           /\ mCaptureMode' = Head(uiQueue).mode
           /\ mCaptureMode' \in Modes
           /\ failure' = failure
<1>1. uiQueue # <<>> /\ uiQueue \in Seq(Messages)
  BY DEF TInv, HandleMode, Received
<1>2. Head(uiQueue) \in Messages /\ Head(uiQueue).type = "mode"
  BY <1>1, HeadTailProperties DEF HandleMode, Received
<1>3. Head(uiQueue).mode \in Modes
  BY <1>2 DEF Messages, MessagesOf
<1>4. Head(uiQueue).mode # None
  BY <1>3, ConstantsAssumption DEF Codes
<1> QED
  BY <1>1, <1>2, <1>3, <1>4 DEF HandleMode, SetCaptureMode

-----------------------------------------------------------------------------
(* What a request does to the fields of the camera the activity keeps.      *)
LEMMA ServedFields ==
    ASSUME camera \in CameraStates, NEW task \in Requests
    PROVE  /\ IF task.op = "startLiveview" THEN Served(task).isInLiveView
              ELSE IF task.op = "stopLiveview" THEN ~Served(task).isInLiveView
              ELSE Served(task).isInLiveView = camera.isInLiveView
           /\ IF task.op = "startCapture" THEN Served(task).isRecording
              ELSE IF task.op = "stopCapture" THEN ~Served(task).isRecording
              ELSE Served(task).isRecording = camera.isRecording
           /\ IF task.op = "settings" /\ task.what = "mode"
              THEN Served(task).captureMode = task.value
              ELSE Served(task).captureMode = camera.captureMode
<1>1. CASE task.op = "startLiveview"
  BY <1>1 DEF Served, CameraStates
<1>2. CASE task.op = "stopLiveview"
  BY <1>2 DEF Served, CameraStates
<1>3. CASE task.op = "startCapture"
  BY <1>3 DEF Served, CameraStates
<1>4. CASE task.op = "stopCapture"
  BY <1>4 DEF Served, CameraStates
<1>5. CASE task.op = "settings" /\ task.what = "mode"
  BY <1>5 DEF Served, CameraStates
<1>6. CASE task.op = "settings" /\ task.what # "mode"
  BY <1>6 DEF Served, CameraStates
<1>7. CASE task.op \notin {"startLiveview", "stopLiveview", "startCapture",
                           "stopCapture", "settings"}
  BY <1>7 DEF Served
<1> QED
  BY <1>1, <1>2, <1>3, <1>4, <1>5, <1>6, <1>7

(* While the camera has only been in modes with a name, so have the answers *)
(* and the statuses on their way.                                           *)
LEMMA ServedIsNamed ==
    ASSUME TInv, TInv', camera \in NamedStates, ServeTask
    PROVE  camera' \in NamedStates
<1> DEFINE task == Head(tasks)
<1>1. task \in Requests /\ camera' = Served(task) /\ camera \in CameraStates
  BY HeadTailProperties DEF TInv, TypeOK, ServeTask
<1> HIDE DEF task
<1>2. camera' \in CameraStates
  BY DEF TInv, TypeOK
<1>3. CASE task.op = "settings" /\ task.what = "mode"
  <2>1. camera'.captureMode = task.value
    BY <1>1, <1>3, ServedFields
  <2>2. task.value \in Modes
    BY <1>1, <1>3, ConstantsAssumption DEF Requests, Operations
  <2> QED
    BY <1>2, <2>1, <2>2 DEF NamedStates
<1>4. CASE ~(task.op = "settings" /\ task.what = "mode")
  <2>1. camera'.captureMode = camera.captureMode
    BY <1>1, <1>4, ServedFields
  <2> QED
    BY <1>2, <2>1 DEF NamedStates
<1> QED
  BY <1>3, <1>4

LEMMA NextNamed == TInv /\ TInv' /\ NInv /\ [Next]_vars => NInv'
<1> SUFFICES ASSUME TInv, TInv', NInv, [Next]_vars, ~unnamed'
             PROVE  /\ camera' \in NamedStates
                    /\ reply' \in NamedStates \cup {None}
                    /\ uiQueue' \in Seq(MessagesOf(NamedStates))
                    /\ wire' \in [Sockets -> Seq(NamedStates)]
  BY DEF NInv
<1> DEFINE M == MessagesOf(NamedStates)
<1>1. CASE UNCHANGED <<camera, reply, uiQueue, wire, unnamed>>
  BY <1>1 DEF NInv
<1>2. CASE /\ uiQueue # <<>> /\ uiQueue' = Tail(uiQueue)
           /\ UNCHANGED <<camera, reply, wire, unnamed>>
  <2>1. uiQueue \in Seq(M)
    BY <1>2 DEF NInv
  <2>2. uiQueue' \in Seq(M)
    <3> HIDE DEF M
    <3> QED
      BY <1>2, <2>1, HeadTailProperties
  <2> QED
    BY <1>2, <2>2 DEF NInv
<1>3. CASE ServeTask
  <2>1. UNCHANGED <<uiQueue, unnamed>> /\ Push(camera') /\ reply' = camera'
    BY <1>3 DEF ServeTask
  <2>2. /\ camera \in NamedStates /\ uiQueue \in Seq(M)
        /\ wire \in [Sockets -> Seq(NamedStates)]
    BY <2>1 DEF NInv
  <2>3. camera' \in NamedStates
    BY <1>3, <2>2, ServedIsNamed
  <2>4. wire' \in [Sockets -> Seq(NamedStates)]
    BY <2>1, <2>2, <2>3, PushTypes
  <2> QED
    BY <2>1, <2>2, <2>3, <2>4
<1>4. CASE FinishTask
  <2>1. /\ UNCHANGED <<camera, wire, unnamed>> /\ reply' = None
        /\ uiQueue' = uiQueue \o OnPostExecute(Head(tasks))
        /\ Head(tasks) \in Requests /\ reply # None
    BY <1>4, HeadTailProperties DEF FinishTask, network, TInv, TypeOK
  <2>2. reply \in NamedStates /\ uiQueue \in Seq(M)
    BY <2>1 DEF NInv
  <2>3. OnPostExecute(Head(tasks)) \in Seq(M)
    BY <2>1, <2>2, PostedIsMessage, ShortSequences
  <2>4. uiQueue' \in Seq(M)
    BY <2>1, <2>2, <2>3, ConcatProperties
  <2> QED
    BY <2>1, <2>4 DEF NInv
<1>5. ASSUME NEW i \in Sockets, Deliver(i)
      PROVE  /\ camera' \in NamedStates
             /\ reply' \in NamedStates \cup {None}
             /\ uiQueue' \in Seq(M)
             /\ wire' \in [Sockets -> Seq(NamedStates)]
  <2> DEFINE m == [type |-> "status", status |-> Head(wire[i])]
  <2>1. /\ UNCHANGED <<camera, reply, unnamed>> /\ wire[i] # <<>>
        /\ uiQueue' = Append(uiQueue, m)
        /\ wire' = [wire EXCEPT ![i] = Tail(wire[i])]
    BY <1>5 DEF Deliver, executor
  <2>2. /\ wire[i] \in Seq(NamedStates) /\ uiQueue \in Seq(M)
        /\ wire \in [Sockets -> Seq(NamedStates)]
    BY <2>1 DEF NInv
  <2>3. /\ Head(wire[i]) \in NamedStates
        /\ Tail(wire[i]) \in Seq(NamedStates)
    BY <2>1, <2>2, HeadTailProperties
  <2>4. m \in M
    BY <2>3 DEF MessagesOf
  <2> HIDE DEF m, M
  <2>5. uiQueue' \in Seq(M) /\ wire' \in [Sockets -> Seq(NamedStates)]
    BY <2>1, <2>2, <2>3, <2>4
  <2> QED
    BY <2>1, <2>5 DEF NInv
<1>6. CASE CameraChanges
  <2>1. /\ UNCHANGED <<uiQueue, reply>> /\ Push(camera')
        /\ ~unnamed /\ camera'.captureMode \in Modes
    BY <1>6 DEF CameraChanges, executor
  <2>2. camera' \in NamedStates
    BY <2>1 DEF NamedStates, TInv, TypeOK
  <2>3. wire' \in [Sockets -> Seq(NamedStates)]
    BY <2>1, <2>2, PushTypes DEF NInv
  <2> QED
    BY <2>1, <2>2, <2>3 DEF NInv
<1>7. HandleStatus \/ HandleMode \/ HandleRecording \/ EnableLiveview =>
        /\ uiQueue # <<>> /\ uiQueue' = Tail(uiQueue)
        /\ UNCHANGED <<camera, reply, wire, unnamed>>
  BY DEF HandleStatus, HandleMode, HandleRecording, EnableLiveview, Received,
         executor, network
<1>8. (\/ Still \/ Submits \/ Resume
       \/ StartTask \/ StopPlayback \/ JoinThread \/ JoinReturns
       \/ \E i \in Sockets : SocketOpens(i))
        => UNCHANGED <<camera, reply, uiQueue, wire, unnamed>>
  BY DEF Still, Submits, Resume, StartTask, StopPlayback, JoinThread,
         JoinReturns, SocketOpens, executor, network
<1> QED
  BY <1>1, <1>2, <1>3, <1>4, <1>5, <1>6, <1>7, <1>8, StepShape

(* As long as the camera is only in modes that CaptureMode names, a click   *)
(* on the capture button never meets an unknown mode in liveview and no     *)
(* switch throws: whatever statuses and mode changes interleave, each       *)
(* brings a mode (NInv), and only a status turns the liveview on.           *)
THEOREM CaptureModeIsKnown == Spec => []CaptureModeKnown
<1>1. Init => NInv /\ CaptureModeKnown
  <2> SUFFICES ASSUME Init PROVE NInv /\ CaptureModeKnown
    OBVIOUS
  <2>1. /\ camera \in CameraStates /\ unnamed = (camera.captureMode \notin Modes)
        /\ reply = None /\ uiQueue = <<>> /\ wire = [i \in Sockets |-> <<>>]
        /\ mIsInLiveview = FALSE /\ failure = "none"
    BY DEF Init
  <2>2. ~unnamed => camera \in NamedStates
    BY <2>1 DEF NamedStates
  <2> QED
    BY <2>1, <2>2 DEF NInv, CaptureModeKnown
<1>2. TInv /\ TInv' /\ NInv /\ CaptureModeKnown /\ [Next]_vars
        => CaptureModeKnown'
  <2> SUFFICES ASSUME TInv, TInv', NInv, CaptureModeKnown, [Next]_vars, ~unnamed'
               PROVE  /\ mIsInLiveview' => mCaptureMode' # None
                      /\ failure' # "mode"
    BY DEF CaptureModeKnown
  <2>1. ~unnamed
    BY StepShape
    DEF Still, Submits, Resume, HandleStatus, HandleMode, HandleRecording,
        EnableLiveview, StartTask, StopPlayback, JoinThread, JoinReturns,
        ServeTask, FinishTask, SocketOpens, Deliver, CameraChanges, network
  <2>2. failure # "mode" /\ (mIsInLiveview => mCaptureMode # None)
    BY <2>1 DEF CaptureModeKnown
  <2>3. CASE HandleStatus /\ failure = "none"
    <3>1. Head(uiQueue) \in MessagesOf(NamedStates)
      <4>1. uiQueue \in Seq(MessagesOf(NamedStates)) /\ uiQueue # <<>>
        BY <2>1, <2>3 DEF NInv, HandleStatus, Received
      <4> QED
        BY <4>1, HeadTailProperties
    <3>2. Head(uiQueue).status.captureMode \in Modes
      BY <2>3, <3>1 DEF MessagesOf, NamedStates, HandleStatus, Received
    <3>3. mCaptureMode' \in Modes
      BY <2>3, <3>2, StatusStep DEF FromValue
    <3>4. mCaptureMode' # None
      BY <3>3, ConstantsAssumption DEF Codes
    <3> QED
      BY <2>2, <2>3, <3>4, StatusStep
  <2>4. CASE HandleMode
    <3>1. mCaptureMode' # None
      BY <2>4, ModeStep, ConstantsAssumption DEF Codes
    <3> QED
      BY <2>2, <2>4, <3>1, ModeStep
  <2>5. CASE UNCHANGED <<mCaptureMode, mIsInLiveview>> /\ Throws
    BY <2>2, <2>5 DEF Throws
  <2>6. failure = "none" \/ UNCHANGED vars
    BY NotKilled
  <2>7. HandleStatus \/ HandleMode
            \/ (UNCHANGED <<mCaptureMode, mIsInLiveview>> /\ Throws)
    BY StepShape
    DEF Still, Submits, Resume, HandleRecording, EnableLiveview, StartTask,
        StopPlayback, JoinThread, JoinReturns, ServeTask, FinishTask,
        SocketOpens, Deliver, CameraChanges, fields, Throws
  <2>8. UNCHANGED vars => UNCHANGED <<mCaptureMode, mIsInLiveview>> /\ Throws
    BY DEF vars, fields, Throws
  <2> QED
    BY <2>3, <2>4, <2>5, <2>6, <2>7, <2>8
<1> QED
  BY InitTypes, NextTypes, NextNamed, <1>1, <1>2, PTL DEF Spec

(* A status posts no setting, whatever wheels it moves and whoever is       *)
(* scrolling: the wheels' listeners find the fields already assigned.       *)
THEOREM StatusIsNotEchoed == Spec => NoEcho
<1>1. TInv /\ [Next]_vars => (HandleStatus => tasks' = tasks)
  <2> SUFFICES ASSUME TInv, HandleStatus PROVE tasks' = tasks
    OBVIOUS
  <2>1. tasks \in Seq(Requests) /\ UpdateStatus(Head(uiQueue).status)
    BY DEF TInv, HandleStatus
  <2> QED
    BY <2>1, StatusSubmitsNothing
<1> QED
  BY InitTypes, NextTypes, <1>1, PTL DEF Spec, NoEcho

-----------------------------------------------------------------------------
(* The looper handles the first message: what the queue makes of a field    *)
(* does not change.                                                         *)
LEMMA BecomesHandled ==
    ASSUME NEW q \in Seq(Messages), q # <<>>, NEW f, NEW old, NEW new, NEW v,
           Becomes(q, f, old, v),
           new = IF Writes(Head(q), f) THEN Written(Head(q), f) ELSE old
    PROVE  Becomes(Tail(q), f, new, v)
<1>1. PICK j \in 0 .. Len(q) :
        /\ IF j = 0 THEN old = v ELSE Writes(q[j], f) /\ Written(q[j], f) = v
        /\ \A l \in j + 1 .. Len(q) : ~Writes(q[l], f)
  BY DEF Becomes
<1>2. /\ Len(q) \in Nat /\ Len(q) > 0 /\ Len(Tail(q)) = Len(q) - 1
      /\ Head(q) = q[1]
      /\ \A l \in 1 .. Len(q) - 1 : Tail(q)[l] = q[l + 1]
  BY HeadTailProperties
<1>3. CASE j \in {0, 1}
  <2>1. new = v
    BY <1>1, <1>2, <1>3
  <2>2. \A l \in 0 + 1 .. Len(Tail(q)) : ~Writes(Tail(q)[l], f)
    BY <1>1, <1>2, <1>3
  <2>3. 0 \in 0 .. Len(Tail(q))
    BY <1>2
  <2> QED
    BY <2>1, <2>2, <2>3 DEF Becomes
<1>4. CASE j > 1
  <2>1. j - 1 \in 0 .. Len(Tail(q)) /\ j - 1 # 0
    BY <1>1, <1>2, <1>4
  <2>2. Tail(q)[j - 1] = q[j]
    BY <1>1, <1>2, <1>4
  <2>3. \A l \in (j - 1) + 1 .. Len(Tail(q)) : ~Writes(Tail(q)[l], f)
    BY <1>1, <1>2, <1>4
  <2>4. Writes(Tail(q)[j - 1], f) /\ Written(Tail(q)[j - 1], f) = v
    BY <1>1, <1>4, <2>2
  <2> DEFINE k == j - 1
  <2> HIDE DEF k
  <2>5. /\ k \in 0 .. Len(Tail(q)) /\ k # 0
        /\ Writes(Tail(q)[k], f) /\ Written(Tail(q)[k], f) = v
        /\ \A l \in k + 1 .. Len(Tail(q)) : ~Writes(Tail(q)[l], f)
    BY <2>1, <2>3, <2>4, Zenon DEF k
  <2> QED
    BY <2>5, Zenon DEF Becomes
<1> QED
  BY <1>1, <1>3, <1>4

(* A message that writes the field decides what becomes of it ...           *)
LEMMA BecomesWritten ==
    ASSUME NEW q \in Seq(Messages), NEW m \in Messages, NEW f, NEW field,
           Writes(m, f)
    PROVE  Becomes(Append(q, m), f, field, Written(m, f))
<1> DEFINE n == Len(q) + 1
<1>1. Len(q) \in Nat /\ Len(Append(q, m)) = n /\ Append(q, m)[n] = m
  BY AppendProperties
<1>2. n \in 0 .. Len(Append(q, m)) /\ n # 0 /\ n + 1 .. n = {}
  BY <1>1
<1> HIDE DEF n
<1> QED
  BY <1>1, <1>2 DEF Becomes

(* ... and any other message leaves it as it was.                           *)
LEMMA BecomesKept ==
    ASSUME NEW q \in Seq(Messages), NEW m \in Messages, NEW f, NEW field,
           NEW v, ~Writes(m, f), Becomes(q, f, field, v)
    PROVE  Becomes(Append(q, m), f, field, v)
<1>1. PICK j \in 0 .. Len(q) :
        /\ IF j = 0 THEN field = v ELSE Writes(q[j], f) /\ Written(q[j], f) = v
        /\ \A l \in j + 1 .. Len(q) : ~Writes(q[l], f)
  BY DEF Becomes
<1>2. /\ Len(q) \in Nat /\ Len(Append(q, m)) = Len(q) + 1
      /\ \A l \in 1 .. Len(q) : Append(q, m)[l] = q[l]
      /\ Append(q, m)[Len(q) + 1] = m
  BY AppendProperties
<1>3. j \in 0 .. Len(Append(q, m))
  BY <1>2
<1>4. \A l \in j + 1 .. Len(Append(q, m)) : ~Writes(Append(q, m)[l], f)
  <2> SUFFICES ASSUME NEW l \in j + 1 .. Len(Append(q, m))
               PROVE  ~Writes(Append(q, m)[l], f)
    OBVIOUS
  <2>1. CASE l = Len(q) + 1
    BY <1>2, <2>1
  <2>2. CASE l # Len(q) + 1
    <3>1. l \in j + 1 .. Len(q) /\ l \in 1 .. Len(q)
      BY <1>2, <2>2
    <3> QED
      BY <1>1, <1>2, <3>1
  <2> QED
    BY <2>1, <2>2
<1>5. j # 0 => Append(q, m)[j] = q[j]
  BY <1>2
<1> QED
  BY <1>1, <1>3, <1>4, <1>5 DEF Becomes

(* With nothing left to handle the field is what it was to become.          *)
LEMMA BecomesSettled ==
    ASSUME NEW f, NEW field, NEW v
    PROVE  Becomes(<<>>, f, field, v) <=> field = v
<1>1. Len(<<>>) = 0 /\ 0 .. 0 = {0} /\ 0 + 1 .. 0 = {}
  OBVIOUS
<1> QED
  BY <1>1 DEF Becomes

-----------------------------------------------------------------------------
(* A submitted task comes after those that wait.                            *)
LEMMA SubmitKeeps ==
    ASSUME tasks \in Seq(Requests), NEW new \in Seq(Requests), Submit(new)
    PROVE  /\ Len(tasks') = Len(tasks) + Len(new)
           /\ \A j \in 1 .. Len(tasks) : tasks'[j] = tasks[j]
           /\ \A j \in 1 .. Len(new) : tasks'[Len(tasks) + j] = new[j]
           /\ tasks # <<>> => Head(tasks') = Head(tasks)
           /\ \A op : Awaited(op) => Awaited(op)'
<1>1. tasks' = tasks \o new
  BY DEF Submit
<1>2. /\ Len(tasks') = Len(tasks) + Len(new)
      /\ \A j \in 1 .. Len(tasks) + Len(new) :
            tasks'[j] = IF j <= Len(tasks) THEN tasks[j]
                        ELSE new[j - Len(tasks)]
  BY <1>1, ConcatProperties
<1>3. /\ Len(tasks) \in Nat /\ Len(new) \in Nat
      /\ DOMAIN tasks = 1 .. Len(tasks)
      /\ tasks' \in Seq(Requests) /\ DOMAIN tasks' = 1 .. Len(tasks')
  BY <1>1, ConcatProperties, LenProperties
<1>4. \A j \in 1 .. Len(tasks) : tasks'[j] = tasks[j]
  BY <1>2, <1>3
<1>5. \A j \in 1 .. Len(new) : tasks'[Len(tasks) + j] = new[j]
  BY <1>2, <1>3
<1>6. tasks # <<>> => Head(tasks') = Head(tasks)
  <2> SUFFICES ASSUME tasks # <<>> PROVE Head(tasks') = Head(tasks)
    OBVIOUS
  <2>1. Len(tasks) > 0 /\ Len(tasks') > 0
    BY <1>2, <1>3
  <2>2. Head(tasks) = tasks[1] /\ Head(tasks') = tasks'[1]
    BY <2>1, <1>3
  <2> QED
    BY <2>1, <2>2, <1>3, <1>4
<1>7. ASSUME NEW op, Awaited(op) PROVE Awaited(op)'
  <2>1. PICK j \in 1 .. Len(tasks) : tasks[j].op = op
    BY <1>3, <1>7 DEF Awaited
  <2>2. j \in DOMAIN tasks' /\ tasks'[j].op = op
    BY <2>1, <1>2, <1>3, <1>4
  <2> QED
    BY <2>2 DEF Awaited
<1> QED
  BY <1>2, <1>4, <1>5, <1>6, <1>7

(* A refresh awaits the camera's status.                                    *)
LEMMA RefreshAwaits ==
    ASSUME tasks \in Seq(Requests),
           \/ Submit(RefreshCameraStatus)
           \/ Submit(ReadCameraInfo \o RefreshCameraStatus)
    PROVE  \E j \in DOMAIN tasks' : j > Len(tasks) /\ tasks'[j].op = "status"
<1> DEFINE two == RefreshCameraStatus
           three == ReadCameraInfo \o RefreshCameraStatus
<1>1. /\ two \in Seq(Requests) /\ Len(two) = 2 /\ two[2].op = "status"
      /\ three \in Seq(Requests) /\ Len(three) = 3 /\ three[3].op = "status"
  <2> DEFINE one == ReadCameraInfo
  <2>1. /\ Task("info") \in Requests /\ Task("status") \in Requests
        /\ Task("status").op = "status"
    BY TaskIsRequest DEF Operations, Task
  <2>2. /\ one \in Seq(Requests) /\ Len(one) = 1
        /\ two \in Seq(Requests) /\ Len(two) = 2 /\ two[2].op = "status"
    BY <2>1 DEF RefreshCameraStatus, ReadCameraInfo
  <2>3. three = one \o two
    OBVIOUS
  <2> HIDE DEF one, two, three
  <2>4. /\ three \in Seq(Requests) /\ Len(three) = 3
        /\ \A i \in 1 .. 3 : three[i] = IF i <= 1 THEN one[i] ELSE two[i - 1]
    <3>1. /\ three \in Seq(Requests) /\ Len(three) = Len(one) + Len(two)
          /\ \A i \in 1 .. Len(one) + Len(two) :
                three[i] = IF i <= Len(one) THEN one[i] ELSE two[i - Len(one)]
      BY <2>2, <2>3, ConcatProperties
    <3>2. Len(one) + Len(two) = 3
      BY <2>2
    <3> QED
      BY <2>2, <3>1, <3>2
  <2>5. three[3] = two[2]
    BY <2>4
  <2> QED
    BY <2>2, <2>4, <2>5
<1> HIDE DEF two, three
<1>2. Len(tasks) \in Nat /\ DOMAIN tasks' = 1 .. Len(tasks')
  <2>1. tasks' \in Seq(Requests)
    BY <1>1, SubmitTypes DEF two, three
  <2> QED
    BY <2>1, LenProperties
<1>3. ASSUME NEW new \in Seq(Requests), NEW n \in 1 .. Len(new), Submit(new)
      PROVE  Len(tasks) + n \in DOMAIN tasks' /\ tasks'[Len(tasks) + n] = new[n]
  <2>1. /\ Len(tasks') = Len(tasks) + Len(new)
        /\ \A j \in 1 .. Len(new) : tasks'[Len(tasks) + j] = new[j]
    BY <1>3, SubmitKeeps
  <2> QED
    BY <1>2, <2>1
<1>4. CASE Submit(two)
  <2>1. Len(tasks) + 2 \in DOMAIN tasks' /\ tasks'[Len(tasks) + 2] = two[2]
    <3>1. 2 \in 1 .. Len(two)
      BY <1>1
    <3> QED
      BY <1>1, <1>3, <1>4, <3>1
  <2> QED
    BY <1>1, <1>2, <2>1
<1>5. CASE Submit(three)
  <2>1. Len(tasks) + 3 \in DOMAIN tasks' /\ tasks'[Len(tasks) + 3] = three[3]
    <3>1. 3 \in 1 .. Len(three)
      BY <1>1
    <3> QED
      BY <1>1, <1>3, <1>5, <3>1
  <2> QED
    BY <1>1, <1>2, <2>1
<1> QED
  BY <1>4, <1>5 DEF two, three

(* A task that ends leaves the others waiting.                              *)
LEMMA FinishKeeps ==
    ASSUME tasks \in Seq(Requests), tasks # <<>>, tasks' = Tail(tasks),
           NEW op, Head(tasks).op # op, Awaited(op)
    PROVE  Awaited(op)'
<1>1. /\ Len(tasks) \in Nat /\ Len(tasks') = Len(tasks) - 1
      /\ DOMAIN tasks = 1 .. Len(tasks) /\ DOMAIN tasks' = 1 .. Len(tasks')
      /\ Head(tasks) = tasks[1]
      /\ \A j \in 1 .. Len(tasks') : tasks'[j] = tasks[j + 1]
  BY HeadTailProperties, LenProperties
<1>2. PICK j \in 1 .. Len(tasks) : tasks[j].op = op
  BY <1>1 DEF Awaited
<1>3. j - 1 \in 1 .. Len(tasks') /\ tasks'[j - 1] = tasks[j]
  BY <1>1, <1>2
<1> QED
  BY <1>1, <1>2, <1>3 DEF Awaited

-----------------------------------------------------------------------------
(* The session begins with nothing on its way.                              *)
LEMMA InitSession ==
    ASSUME MaxChanges = 0, Init
    PROVE  SInv /\ Shown
<1>1. WireEnds
  BY DEF Init, WireEnds
<1>2. ServedAgrees /\ StopRefreshes /\ StopRuns
  BY DEF Init, ServedAgrees, StopRefreshes, StopRuns
<1>3. ModeAgrees /\ LiveviewAgrees
  BY DEF Init, ModeAgrees, LiveviewAgrees, StatusComes
<1>4. ~camera.isRecording /\ ~camera.isInLiveView /\ camera \in CameraStates
  BY DEF Init
<1>5. uiQueue = <<>> /\ mIsRecording = FALSE /\ Len(<<>>) = 0
  BY DEF Init
<1>6. camera.isRecording = FALSE
  BY <1>4 DEF CameraStates
<1>7. RecordingAgrees
  BY <1>5, <1>6, BecomesSettled DEF RecordingAgrees
<1>8. Shown
  BY <1>4 DEF Shown
<1> QED
  BY <1>1, <1>2, <1>3, <1>7, <1>8 DEF SInv

(* A step that touches neither the fields nor what is on its way.           *)
LEMMA StillKeeps ==
    ASSUME SInv, Still
    PROVE  SInv'
<1> USE DEF Still, executor, network
<1>1. WireEnds'
  BY DEF SInv, WireEnds
<1>2. ServedAgrees' /\ StopRefreshes' /\ StopRuns'
  BY DEF SInv, ServedAgrees, StopRefreshes, StopRuns
<1>3. StatusComes' = StatusComes
  BY DEF StatusComes, Awaited
<1>4. ModeAgrees' /\ LiveviewAgrees' /\ RecordingAgrees'
  BY <1>3
  DEF SInv, ModeAgrees, LiveviewAgrees, RecordingAgrees, ServedOp, Posted
<1> QED
  BY <1>1, <1>2, <1>4 DEF SInv

(* The running task, and the refresh behind it, stay where they are.        *)
LEMMA SubmitBehind ==
    ASSUME TInv, SInv, NEW new \in Seq(Requests), Submit(new)
    PROVE  /\ stage # "queued" => Head(tasks') = Head(tasks)
           /\ Awaited("status") => Awaited("status")'
           /\ stage' = stage => StopRefreshes' /\ StopRuns'
<1>1. /\ \A j \in 1 .. Len(tasks) : tasks'[j] = tasks[j]
      /\ stage # "queued" => Head(tasks') = Head(tasks)
      /\ Awaited("status") => Awaited("status")'
      /\ Len(tasks) \in Nat /\ Len(tasks') \in Nat /\ Len(tasks') >= Len(tasks)
  <2>1. /\ Len(tasks) \in Nat /\ Len(new) \in Nat
        /\ stage # "queued" => tasks # <<>>
    BY LenProperties DEF TInv, TypeOK
  <2> QED
    BY <2>1, SubmitKeeps DEF TInv
<1>2. ASSUME stage' = stage PROVE StopRefreshes'
  <2> SUFFICES ASSUME stage \in {"sent", "served"}, Head(tasks).op = "stopLiveview"
               PROVE  \E j \in 2 .. Len(tasks') : tasks'[j].op = "status"
    BY <1>1, <1>2 DEF StopRefreshes
  <2>1. PICK j \in 2 .. Len(tasks) : tasks[j].op = "status"
    BY <1>2 DEF SInv, StopRefreshes
  <2>2. j \in 2 .. Len(tasks') /\ tasks'[j] = tasks[j]
    BY <1>1, <2>1
  <2> QED
    BY <2>1, <2>2
<1>3. ASSUME stage' = stage PROVE StopRuns'
  BY <1>1, <1>3 DEF SInv, StopRuns
<1> QED
  BY <1>1, <1>2, <1>3

(* Submitted tasks wait behind the running one.                             *)
LEMMA SubmittedKeeps ==
    ASSUME TInv, SInv, NEW new \in Seq(Requests), Submit(new),
           UNCHANGED <<mCaptureMode, mIsRecording, mIsInLiveview, uiQueue, stage,
                       reply, network, resumes>>
    PROVE  SInv'
<1>1. /\ stage # "queued" => Head(tasks') = Head(tasks)
      /\ Awaited("status") => Awaited("status")'
      /\ StopRefreshes' /\ StopRuns'
  <2>1. stage' = stage
    OBVIOUS
  <2> QED
    BY <2>1, SubmitBehind
<1> USE DEF network
<1>2. WireEnds'
  BY DEF SInv, WireEnds
<1>3. ServedAgrees'
  BY <1>1 DEF SInv, ServedAgrees
<1>4. StatusComes => StatusComes'
  BY <1>1 DEF StatusComes
<1>5. /\ \A ops : ServedOp(ops) => ServedOp(ops)'
      /\ Posted("liveview")' = Posted("liveview")
  BY <1>1 DEF ServedOp, Posted
<1>6. ModeAgrees' /\ LiveviewAgrees' /\ RecordingAgrees'
  BY <1>1, <1>4, <1>5
  DEF SInv, ModeAgrees, LiveviewAgrees, RecordingAgrees, ServedOp
<1> QED
  BY <1>1, <1>2, <1>3, <1>6 DEF SInv

(* onResume opens a socket nothing was pushed to, and asks for a status.    *)
LEMMA ResumeKeeps ==
    ASSUME TInv, SInv, Resume
    PROVE  SInv'
<1> DEFINE new == ReadCameraInfo \o RefreshCameraStatus
<1>1. new \in Seq(Requests) /\ Submit(new)
  BY RefreshIsRequests DEF Resume
<1>2. /\ UNCHANGED <<fields, uiQueue, stage, reply, wire, camera>>
      /\ resumes' = resumes + 1 /\ resumes \in Nat
      /\ socket' = [socket EXCEPT ![resumes'] = "opening"]
      /\ socket \in [Sockets -> {"none", "opening", "open"}]
  BY ConstantsAssumption DEF Resume, TInv, TypeOK
<1>3. /\ stage # "queued" => Head(tasks') = Head(tasks)
      /\ StopRefreshes' /\ StopRuns'
  <2> HIDE DEF new
  <2>1. stage' = stage
    BY <1>2
  <2> QED
    BY <1>1, <2>1, SubmitBehind
<1>4. WireEnds'
  <2> SUFFICES ASSUME NEW i \in Sockets
               PROVE  /\ i > resumes' => socket'[i] = "none"
                      /\ wire[i] # <<>> => /\ socket'[i] = "open"
                                           /\ wire[i][Len(wire[i])] = camera
    BY <1>2 DEF WireEnds
  <2>1. CASE i = resumes'
    <3>1. i > resumes /\ ~(i > resumes')
      BY <1>2, <2>1
    <3>2. socket[i] = "none"
      BY <3>1 DEF SInv, WireEnds
    <3>3. wire[i] = <<>>
      BY <3>2 DEF SInv, WireEnds
    <3> QED
      BY <3>1, <3>3
  <2>2. CASE i # resumes'
    <3>1. socket'[i] = socket[i] /\ (i > resumes' => i > resumes)
      BY <1>2, <2>2 DEF Sockets
    <3> QED
      BY <3>1 DEF SInv, WireEnds
  <2> QED
    BY <2>1, <2>2
<1>5. ServedAgrees'
  BY <1>2, <1>3 DEF SInv, ServedAgrees
<1>6. StatusComes'
  <2>1. Awaited("status")'
    BY <1>1, RefreshAwaits DEF Awaited, TInv
  <2> QED
    BY <2>1 DEF StatusComes
<1>7. ModeAgrees' /\ LiveviewAgrees'
  BY <1>6 DEF ModeAgrees, LiveviewAgrees
<1>8. RecordingAgrees'
  BY <1>2, <1>3 DEF SInv, RecordingAgrees, ServedOp, fields
<1> QED
  BY <1>3, <1>4, <1>5, <1>7, <1>8 DEF SInv

(* A liveview message behind another one stays.                             *)
LEMMA LiveviewStays ==
    ASSUME uiQueue \in Seq(Messages), uiQueue # <<>>, uiQueue' = Tail(uiQueue),
           Head(uiQueue).type # "liveview", Posted("liveview")
    PROVE  Posted("liveview")'
<1>1. /\ Len(uiQueue) \in Nat /\ DOMAIN uiQueue = 1 .. Len(uiQueue)
      /\ Len(uiQueue') = Len(uiQueue) - 1
      /\ DOMAIN uiQueue' = 1 .. Len(uiQueue')
      /\ Head(uiQueue) = uiQueue[1]
      /\ \A j \in 1 .. Len(uiQueue') : uiQueue'[j] = uiQueue[j + 1]
  BY HeadTailProperties, LenProperties
<1>2. PICK j \in 1 .. Len(uiQueue) : uiQueue[j].type = "liveview"
  BY <1>1 DEF Posted
<1>3. j - 1 \in 1 .. Len(uiQueue') /\ uiQueue'[j - 1] = uiQueue[j]
  BY <1>1, <1>2
<1> QED
  BY <1>1, <1>2, <1>3 DEF Posted

(* The looper handles a status, a mode or a recording state, and throws     *)
(* nothing: what the queue makes of the fields is the same, and a liveview  *)
(* message stays.                                                           *)
LEMMA HandledKeeps ==
    ASSUME TInv, SInv, failure = "none", failure' = "none",
           HandleStatus \/ HandleMode \/ HandleRecording
    PROVE  SInv'
<1> DEFINE m == Head(uiQueue)
<1>1. /\ uiQueue \in Seq(Messages) /\ uiQueue # <<>> /\ m \in Messages
      /\ uiQueue' = Tail(uiQueue)
      /\ m.type \in {"status", "mode", "recording"}
      /\ UNCHANGED <<executor, network, resumes>>
  <2>1. /\ uiQueue \in Seq(Messages) /\ uiQueue # <<>>
        /\ uiQueue' = Tail(uiQueue)
        /\ m.type \in {"status", "mode", "recording"}
    BY DEF TInv, HandleStatus, HandleMode, HandleRecording, Received
  <2>2. UNCHANGED <<executor, network, resumes>>
    BY StatusStep DEF HandleMode, HandleRecording, bounds
  <2> QED
    BY <2>1, <2>2, HeadTailProperties
<1>2. /\ mCaptureMode' = IF Writes(m, "mode") THEN Written(m, "mode")
                         ELSE mCaptureMode
      /\ mIsInLiveview' = IF Writes(m, "liveview") THEN Written(m, "liveview")
                          ELSE mIsInLiveview
      /\ mIsRecording' = IF Writes(m, "recording") THEN Written(m, "recording")
                         ELSE mIsRecording
  <2>1. CASE HandleStatus
    BY <2>1, StatusStep DEF Writes, Written
  <2>2. CASE HandleMode
    BY <2>2 DEF HandleMode, SetCaptureMode, Received, Writes, Written
  <2>3. CASE HandleRecording
    BY <2>3 DEF HandleRecording, Received, Writes, Written
  <2> QED
    BY <2>1, <2>2, <2>3
<1> HIDE DEF m
<1>3. \A f, old, v : Becomes(uiQueue, f, old, v) =>
            Becomes(uiQueue', f,
                    IF Writes(m, f) THEN Written(m, f) ELSE old, v)
  BY <1>1, BecomesHandled DEF m
<1>4. Posted("liveview") => Posted("liveview")'
  BY <1>1, LiveviewStays DEF m
<1> USE <1>1 DEF executor, network
<1>5. WireEnds'
  BY DEF SInv, WireEnds
<1>6. ServedAgrees' /\ StopRefreshes' /\ StopRuns'
  BY DEF SInv, ServedAgrees, StopRefreshes, StopRuns
<1>7. StatusComes' = StatusComes
  BY DEF StatusComes, Awaited
<1>8. ModeAgrees'
  BY <1>2, <1>3, <1>7 DEF SInv, ModeAgrees, ServedOp
<1>9. LiveviewAgrees'
  BY <1>2, <1>3, <1>4, <1>7 DEF SInv, LiveviewAgrees, ServedOp
<1>10. RecordingAgrees'
  BY <1>2, <1>3 DEF SInv, RecordingAgrees, ServedOp
<1> QED
  BY <1>5, <1>6, <1>8, <1>9, <1>10 DEF SInv

(* The looper handles LiveviewStartAsyncTask's message: it asks for a       *)
(* status, and reads none.                                                  *)
LEMMA EnableKeeps ==
    ASSUME TInv, SInv, EnableLiveview
    PROVE  SInv'
<1>1. /\ Submit(RefreshCameraStatus) /\ RefreshCameraStatus \in Seq(Requests)
      /\ tasks \in Seq(Requests)
  BY RefreshIsRequests DEF EnableLiveview, TInv
<1>2. /\ UNCHANGED <<fields, stage, reply, network, resumes>>
      /\ uiQueue' = Tail(uiQueue)
      /\ uiQueue \in Seq(Messages) /\ uiQueue # <<>>
      /\ Head(uiQueue).type = "liveview"
  BY DEF EnableLiveview, Received, TInv, bounds
<1>3. /\ stage # "queued" => Head(tasks') = Head(tasks)
      /\ StopRefreshes' /\ StopRuns'
  <2>1. stage' = stage
    BY <1>2
  <2> QED
    BY <1>1, <2>1, SubmitBehind
<1>4. WireEnds'
  BY <1>2 DEF SInv, WireEnds, network
<1>5. ServedAgrees'
  BY <1>2, <1>3 DEF SInv, ServedAgrees, network
<1>6. StatusComes'
  <2>1. Awaited("status")'
    BY <1>1, RefreshAwaits DEF Awaited
  <2> QED
    BY <2>1 DEF StatusComes
<1>7. RecordingAgrees'
  <2>1. ~Writes(Head(uiQueue), "recording")
    BY <1>2 DEF Writes
  <2>2. \A v : Becomes(uiQueue, "recording", mIsRecording, v) =>
               Becomes(uiQueue', "recording", mIsRecording, v)
    BY <1>2, <2>1, BecomesHandled
  <2> QED
    BY <1>2, <1>3, <2>2 DEF SInv, RecordingAgrees, ServedOp, fields, network
<1> QED
  BY <1>3, <1>4, <1>5, <1>6, <1>7 DEF SInv, ModeAgrees, LiveviewAgrees

(* A task starts, or LiveviewStopAsyncTask stops the view and joins its     *)
(* thread: the camera has not been asked anything yet.                      *)
LEMMA StartKeeps ==
    ASSUME TInv, SInv, StartTask \/ StopPlayback \/ JoinThread
    PROVE  SInv'
<1>1. /\ UNCHANGED <<fields, uiQueue, tasks, reply, network, resumes>>
      /\ stage \in {"queued", "stopping"}
      /\ \/ stage' = "sent" /\ Head(tasks).op # "stopLiveview"
         \/ stage' \in {"stopping", "joining"} /\ Head(tasks).op = "stopLiveview"
  <2>1. UNCHANGED <<fields, uiQueue, tasks, reply, network, resumes>>
    BY DEF StartTask, StopPlayback, JoinThread, bounds
  <2> QED
    BY <2>1 DEF StartTask, StopPlayback, JoinThread, SInv, StopRuns
<1>2. WireEnds' /\ ServedAgrees' /\ StopRefreshes' /\ StopRuns'
  BY <1>1 DEF SInv, WireEnds, ServedAgrees, StopRefreshes, StopRuns, network
<1>3. StatusComes => StatusComes'
  BY <1>1 DEF StatusComes, Awaited, network
<1>4. \A ops : ~ServedOp(ops)
  BY <1>1 DEF ServedOp
<1>5. ModeAgrees' /\ LiveviewAgrees' /\ RecordingAgrees'
  BY <1>1, <1>3, <1>4
  DEF SInv, ModeAgrees, LiveviewAgrees, RecordingAgrees, Posted, fields, network
<1> QED
  BY <1>2, <1>5 DEF SInv

(* The join returns: the stop task submits its refresh behind itself.       *)
LEMMA JoinReturnsKeeps ==
    ASSUME TInv, SInv, JoinReturns
    PROVE  SInv'
<1>1. /\ UNCHANGED <<fields, uiQueue, reply, network, resumes>>
      /\ stage = "joining" /\ stage' = "sent"
      /\ tasks \in Seq(Requests) /\ tasks # <<>>
      /\ Submit(RefreshCameraStatus) /\ RefreshCameraStatus \in Seq(Requests)
  BY RefreshIsRequests DEF JoinReturns, TInv, TypeOK, bounds
<1>2. WireEnds' /\ ServedAgrees' /\ StopRuns'
  BY <1>1 DEF SInv, WireEnds, ServedAgrees, StopRuns, network
<1>3. StopRefreshes' /\ Awaited("status")'
  <2>1. Len(tasks) \in Nat /\ Len(tasks) > 0
    BY <1>1
  <2>2. PICK j \in DOMAIN tasks' : j > Len(tasks) /\ tasks'[j].op = "status"
    BY <1>1, RefreshAwaits
  <2>3. tasks' \in Seq(Requests)
    BY <1>1, SubmitTypes
  <2>4. j \in 2 .. Len(tasks')
    BY <2>1, <2>2, <2>3
  <2> QED
    BY <2>2, <2>4 DEF StopRefreshes, Awaited
<1>4. StatusComes'
  BY <1>3 DEF StatusComes
<1>5. \A ops : ~ServedOp(ops)
  BY <1>1 DEF ServedOp
<1>6. RecordingAgrees'
  BY <1>1, <1>5 DEF SInv, RecordingAgrees, fields, network
<1> QED
  BY <1>2, <1>3, <1>4, <1>6 DEF SInv, ModeAgrees, LiveviewAgrees

(* What the camera pushes is the last on every wire that is not empty.      *)
LEMMA PushEnds ==
    ASSUME TInv, WireEnds, NEW status \in CameraStates, Push(status)
    PROVE  \A i \in Sockets :
              /\ wire[i] # <<>> => wire'[i] # <<>>
              /\ wire'[i] # <<>> => /\ socket[i] = "open"
                                    /\ wire'[i][Len(wire'[i])] = status
<1> SUFFICES ASSUME NEW i \in Sockets
             PROVE  /\ wire[i] # <<>> => wire'[i] # <<>>
                    /\ wire'[i] # <<>> => /\ socket[i] = "open"
                                          /\ wire'[i][Len(wire'[i])] = status
  OBVIOUS
<1>1. wire[i] \in Seq(CameraStates)
  BY DEF TInv
<1>2. wire'[i] = IF socket[i] = "open" /\ status # camera
                 THEN Append(wire[i], status) ELSE wire[i]
  BY DEF Push
<1>3. CASE socket[i] = "open" /\ status # camera
  BY <1>1, <1>2, <1>3, AppendProperties
<1>4. CASE ~(socket[i] = "open" /\ status # camera)
  BY <1>2, <1>4 DEF WireEnds
<1> QED
  BY <1>3, <1>4

(* The camera serves the running request.                                   *)
LEMMA ServeKeeps ==
    ASSUME TInv, SInv, ServeTask
    PROVE  SInv'
<1> DEFINE task == Head(tasks)
<1>1. /\ UNCHANGED <<fields, uiQueue, tasks, socket, resumes>>
      /\ stage = "sent" /\ stage' = "served" /\ reply' = camera'
      /\ camera' = Served(task) /\ Push(camera')
  BY DEF ServeTask, bounds
<1>2. task \in Requests /\ camera \in CameraStates /\ camera' \in CameraStates
  <2>1. tasks \in Seq(Requests) /\ tasks # <<>> /\ camera \in CameraStates
    BY <1>1 DEF TInv, TypeOK
  <2>2. task \in Requests
    BY <2>1, HeadTailProperties
  <2> QED
    BY <1>1, <2>1, <2>2, ServedIsCamera
<1> HIDE DEF task
<1>3. \A i \in Sockets :
        /\ wire[i] # <<>> => wire'[i] # <<>>
        /\ wire'[i] # <<>> => /\ socket[i] = "open"
                              /\ wire'[i][Len(wire'[i])] = camera'
  BY <1>1, <1>2, PushEnds DEF SInv
<1>4. WireEnds'
  BY <1>1, <1>3 DEF SInv, WireEnds
<1>5. /\ IF task.op = "startLiveview" THEN camera'.isInLiveView
         ELSE IF task.op = "stopLiveview" THEN ~camera'.isInLiveView
         ELSE camera'.isInLiveView = camera.isInLiveView
      /\ IF task.op = "startCapture" THEN camera'.isRecording
         ELSE IF task.op = "stopCapture" THEN ~camera'.isRecording
         ELSE camera'.isRecording = camera.isRecording
      /\ IF task.op = "settings" /\ task.what = "mode"
         THEN camera'.captureMode = task.value
         ELSE camera'.captureMode = camera.captureMode
  BY <1>1, <1>2, ServedFields
<1>6. ServedAgrees'
  BY <1>1, <1>5 DEF ServedAgrees, task
<1>7. StopRefreshes' /\ StopRuns'
  BY <1>1 DEF SInv, StopRefreshes, StopRuns
<1>8. StatusComes => StatusComes'
  BY <1>1, <1>3 DEF StatusComes, Awaited
<1>9. task.op = "stopLiveview" => StatusComes'
  <2>1. task.op = "stopLiveview" => \E j \in 2 .. Len(tasks) : tasks[j].op = "status"
    BY <1>1 DEF SInv, StopRefreshes, task
  <2>2. tasks \in Seq(Requests)
    BY DEF TInv
  <2> QED
    BY <1>1, <2>1, <2>2 DEF StatusComes, Awaited
<1>10. /\ \A ops : ~ServedOp(ops)
       /\ \A ops : ServedOp(ops)' <=> task.op \in ops
       /\ Head(tasks') = task
  BY <1>1 DEF ServedOp, task
<1>11. ModeAgrees'
  BY <1>1, <1>5, <1>8, <1>10 DEF SInv, ModeAgrees, fields
<1>12. LiveviewAgrees'
  BY <1>1, <1>5, <1>8, <1>9, <1>10 DEF SInv, LiveviewAgrees, Posted, fields
<1>13. RecordingAgrees'
  BY <1>1, <1>5, <1>10 DEF SInv, RecordingAgrees, fields
<1> QED
  BY <1>4, <1>6, <1>7, <1>11, <1>12, <1>13 DEF SInv

(* onPostExecute: the queue becomes what the task posts, and nothing else.  *)
LEMMA PostedBecomes ==
    ASSUME TInv, SInv, FinishTask
    PROVE  LET task == Head(tasks)
           IN /\ task.op \in {"status", "startLiveview"}
                    \/ (task.op = "settings" /\ task.what = "mode")
                    \/ task.op \in {"startCapture", "stopCapture"}
                    \/ uiQueue' = uiQueue
              /\ task.op = "status" => \E m \in Messages :
                    /\ uiQueue' = Append(uiQueue, m)
                    /\ m.type = "status" /\ m.status = camera
              /\ task.op = "startLiveview" => \E m \in Messages :
                    uiQueue' = Append(uiQueue, m) /\ m.type = "liveview"
              /\ task.op = "settings" /\ task.what = "mode" => \E m \in Messages :
                    /\ uiQueue' = Append(uiQueue, m)
                    /\ m.type = "mode" /\ m.mode = FromValue(camera.captureMode)
              /\ task.op \in {"startCapture", "stopCapture"} => \E m \in Messages :
                    /\ uiQueue' = Append(uiQueue, m)
                    /\ m.type = "recording" /\ m.recording = camera.isRecording
<1> DEFINE task == Head(tasks)
<1>1. /\ stage = "served" /\ uiQueue' = uiQueue \o OnPostExecute(task)
      /\ uiQueue \in Seq(Messages) /\ reply = camera
      /\ camera \in CameraStates /\ reply \in CameraStates
      /\ task \in Requests
  <2>1. stage = "served" /\ uiQueue' = uiQueue \o OnPostExecute(task)
    BY DEF FinishTask
  <2>2. /\ uiQueue \in Seq(Messages) /\ camera \in CameraStates
        /\ tasks \in Seq(Requests) /\ tasks # <<>>
    BY <2>1 DEF TInv, TypeOK
  <2>3. reply = camera
    BY <2>1 DEF SInv, ServedAgrees
  <2> QED
    BY <2>1, <2>2, <2>3, HeadTailProperties
<1>2. /\ task.op = "startCapture" => camera.isRecording = TRUE
      /\ task.op = "stopCapture" => camera.isRecording = FALSE
      /\ task.op = "settings" /\ task.what = "mode" =>
            camera.captureMode = task.value
  BY <1>1 DEF SInv, ServedAgrees, CameraStates
<1> HIDE DEF task
<1>3. \A m \in Messages : OnPostExecute(task) = <<m>> =>
            uiQueue' = Append(uiQueue, m)
  BY <1>1, AppendIsConcat
<1>4. CASE task.op = "status"
  <2> DEFINE m == [type |-> "status", status |-> reply]
  <2>1. m \in Messages /\ m.type = "status" /\ m.status = camera
    BY <1>1 DEF Messages, MessagesOf
  <2>2. OnPostExecute(task) = <<m>>
    BY <1>4 DEF OnPostExecute
  <2> HIDE DEF m
  <2> QED
    <3>1. uiQueue' = Append(uiQueue, m)
      BY <1>3, <2>1, <2>2
    <3>2. \E n \in Messages : /\ uiQueue' = Append(uiQueue, n)
                              /\ n.type = "status" /\ n.status = camera
      BY <2>1, <3>1
    <3>3. /\ task.op # "startLiveview" /\ task.op # "settings"
          /\ task.op \notin {"startCapture", "stopCapture"}
      BY <1>4
    <3> QED
      BY <1>4, <3>2, <3>3, Zenon DEF task
<1>5. CASE task.op = "startLiveview"
  <2> DEFINE m == [type |-> "liveview"]
  <2>1. m \in Messages /\ m.type = "liveview"
    BY DEF Messages, MessagesOf
  <2>2. OnPostExecute(task) = <<m>>
    BY <1>5 DEF OnPostExecute
  <2> HIDE DEF m
  <2> QED
    <3>1. uiQueue' = Append(uiQueue, m)
      BY <1>3, <2>1, <2>2
    <3>2. \E n \in Messages :
                uiQueue' = Append(uiQueue, n) /\ n.type = "liveview"
      BY <2>1, <3>1
    <3>3. /\ task.op # "status" /\ task.op # "settings"
          /\ task.op \notin {"startCapture", "stopCapture"}
      BY <1>5
    <3> QED
      BY <1>5, <3>2, <3>3, Zenon DEF task
<1>6. CASE task.op = "settings" /\ task.what = "mode"
  <2> DEFINE m == [type |-> "mode", mode |-> task.value]
  <2>1. task.value \in Modes
    BY <1>1, <1>6, ConstantsAssumption DEF Requests, Operations
  <2>2. /\ m \in Messages /\ m.type = "mode"
        /\ m.mode = FromValue(camera.captureMode)
    BY <1>2, <1>6, <2>1 DEF Messages, MessagesOf, FromValue
  <2>3. OnPostExecute(task) = <<m>>
    BY <1>6 DEF OnPostExecute
  <2> HIDE DEF m
  <2> QED
    BY <1>3, <1>6, <2>2, <2>3 DEF task
<1>7. CASE task.op \in {"startCapture", "stopCapture"}
  <2> DEFINE m == [type |-> "recording", recording |-> camera.isRecording]
  <2>1. m \in Messages /\ m.type = "recording" /\ m.recording = camera.isRecording
    BY <1>1 DEF Messages, MessagesOf, CameraStates
  <2>2. OnPostExecute(task) = <<m>>
    BY <1>2, <1>7 DEF OnPostExecute
  <2> HIDE DEF m
  <2> QED
    BY <1>3, <1>7, <2>1, <2>2 DEF task
<1>8. CASE /\ task.op \notin {"status", "startLiveview", "startCapture",
                              "stopCapture"}
           /\ ~(task.op = "settings" /\ task.what = "mode")
  <2>1. OnPostExecute(task) = <<>>
    BY <1>8 DEF OnPostExecute
  <2>2. uiQueue' = uiQueue
    BY <1>1, <2>1, ConcatEmptySeq
  <2> QED
    BY <1>8, <2>2 DEF task
<1> QED
  BY <1>4, <1>5, <1>6, <1>7, <1>8 DEF task

(* What a message added to the queue makes of a field.                      *)
LEMMA AppendBecomes ==
    ASSUME uiQueue \in Seq(Messages), NEW m \in Messages,
           uiQueue' = Append(uiQueue, m)
    PROVE  /\ \A f, field : Writes(m, f) =>
                    Becomes(uiQueue', f, field, Written(m, f))
           /\ \A f, field, v : ~Writes(m, f) /\ Becomes(uiQueue, f, field, v) =>
                    Becomes(uiQueue', f, field, v)
           /\ Posted("liveview") \/ m.type = "liveview" => Posted("liveview")'
<1>1. \A f, field : Writes(m, f) => Becomes(uiQueue', f, field, Written(m, f))
  BY BecomesWritten
<1>2. \A f, field, v : ~Writes(m, f) /\ Becomes(uiQueue, f, field, v) =>
            Becomes(uiQueue', f, field, v)
  BY BecomesKept
<1>3. ASSUME Posted("liveview") \/ m.type = "liveview"
      PROVE  Posted("liveview")'
  <2>1. /\ Len(uiQueue) \in Nat /\ DOMAIN uiQueue = 1 .. Len(uiQueue)
        /\ DOMAIN uiQueue' = 1 .. Len(uiQueue) + 1
        /\ uiQueue'[Len(uiQueue) + 1] = m
        /\ \A j \in 1 .. Len(uiQueue) : uiQueue'[j] = uiQueue[j]
    BY AppendProperties, LenProperties
  <2>2. CASE m.type = "liveview"
    <3>1. Len(uiQueue) + 1 \in DOMAIN uiQueue'
      BY <2>1
    <3> QED
      BY <2>1, <2>2, <3>1 DEF Posted
  <2>3. CASE Posted("liveview")
    <3>1. PICK j \in 1 .. Len(uiQueue) : uiQueue[j].type = "liveview"
      BY <2>1, <2>3 DEF Posted
    <3>2. j \in DOMAIN uiQueue' /\ uiQueue'[j].type = "liveview"
      BY <2>1, <3>1
    <3> QED
      BY <3>2 DEF Posted
  <2> QED
    BY <1>3, <2>2, <2>3
<1> QED
  BY <1>1, <1>2, <1>3

(* A task ends, and posts what the camera is.                               *)
LEMMA FinishKeepsSession ==
    ASSUME TInv, SInv, FinishTask
    PROVE  SInv'
<1> DEFINE task == Head(tasks)
<1>1. /\ UNCHANGED <<fields, network, resumes>>
      /\ stage = "served" /\ stage' = "queued"
      /\ tasks' = Tail(tasks) /\ tasks \in Seq(Requests) /\ tasks # <<>>
      /\ uiQueue \in Seq(Messages)
  BY DEF FinishTask, TInv, TypeOK, bounds
<1>2. WireEnds' /\ ServedAgrees' /\ StopRefreshes' /\ StopRuns'
  BY <1>1 DEF SInv, WireEnds, ServedAgrees, StopRefreshes, StopRuns, network
<1>3. StatusComes /\ task.op # "status" => StatusComes'
  BY <1>1, FinishKeeps DEF StatusComes, network
<1>4. \A ops : ServedOp(ops) <=> task.op \in ops
  BY <1>1 DEF ServedOp
<1> USE DEF fields, network
<1>5. CASE task.op = "status"
  <2>1. PICK m \in Messages : /\ uiQueue' = Append(uiQueue, m)
                              /\ m.type = "status" /\ m.status = camera
    BY <1>5, PostedBecomes
  <2>2. /\ Writes(m, "mode") /\ Written(m, "mode") = FromValue(camera.captureMode)
        /\ Writes(m, "liveview") /\ Written(m, "liveview") = camera.isInLiveView
        /\ ~Writes(m, "recording")
    BY <2>1 DEF Writes, Written
  <2>3. ModeAgrees'
    BY <1>1, <2>1, <2>2, AppendBecomes DEF ModeAgrees
  <2>4. LiveviewAgrees'
    BY <1>1, <2>1, <2>2, AppendBecomes DEF LiveviewAgrees
  <2>5. RecordingAgrees'
    BY <1>1, <1>4, <1>5, <2>1, <2>2, AppendBecomes DEF SInv, RecordingAgrees
  <2> QED
    BY <1>2, <2>3, <2>4, <2>5 DEF SInv
<1>6. CASE task.op = "startLiveview"
  <2>1. PICK m \in Messages :
            uiQueue' = Append(uiQueue, m) /\ m.type = "liveview"
    BY <1>6, PostedBecomes
  <2>2. ~Writes(m, "mode") /\ ~Writes(m, "recording")
    BY <2>1 DEF Writes
  <2>3. ModeAgrees'
    BY <1>1, <1>3, <1>4, <1>6, <2>1, <2>2, AppendBecomes DEF SInv, ModeAgrees
  <2>4. LiveviewAgrees'
    BY <1>1, <2>1, AppendBecomes DEF LiveviewAgrees
  <2>5. RecordingAgrees'
    BY <1>1, <1>4, <1>6, <2>1, <2>2, AppendBecomes DEF SInv, RecordingAgrees
  <2> QED
    BY <1>2, <2>3, <2>4, <2>5 DEF SInv
<1>7. CASE task.op = "settings" /\ task.what = "mode"
  <2>1. PICK m \in Messages :
            /\ uiQueue' = Append(uiQueue, m)
            /\ m.type = "mode" /\ m.mode = FromValue(camera.captureMode)
    BY <1>7, PostedBecomes
  <2>2. /\ Writes(m, "mode") /\ Written(m, "mode") = FromValue(camera.captureMode)
        /\ ~Writes(m, "liveview") /\ ~Writes(m, "recording")
    BY <2>1 DEF Writes, Written
  <2>3. ModeAgrees'
    BY <1>1, <2>1, <2>2, AppendBecomes DEF ModeAgrees
  <2>4. LiveviewAgrees'
    BY <1>1, <1>3, <1>4, <1>7, <2>1, <2>2, AppendBecomes DEF SInv, LiveviewAgrees
  <2>5. RecordingAgrees'
    BY <1>1, <1>4, <1>7, <2>1, <2>2, AppendBecomes DEF SInv, RecordingAgrees
  <2> QED
    BY <1>2, <2>3, <2>4, <2>5 DEF SInv
<1>8. CASE task.op \in {"startCapture", "stopCapture"}
  <2>1. PICK m \in Messages :
            /\ uiQueue' = Append(uiQueue, m)
            /\ m.type = "recording" /\ m.recording = camera.isRecording
    BY <1>8, PostedBecomes
  <2>2. /\ Writes(m, "recording") /\ Written(m, "recording") = camera.isRecording
        /\ ~Writes(m, "liveview") /\ ~Writes(m, "mode")
    BY <2>1 DEF Writes, Written
  <2>3. ModeAgrees'
    BY <1>1, <1>3, <1>4, <1>8, <2>1, <2>2, AppendBecomes DEF SInv, ModeAgrees
  <2>4. LiveviewAgrees'
    BY <1>1, <1>3, <1>4, <1>8, <2>1, <2>2, AppendBecomes DEF SInv, LiveviewAgrees
  <2>5. RecordingAgrees'
    BY <1>1, <2>1, <2>2, AppendBecomes DEF RecordingAgrees
  <2> QED
    BY <1>2, <2>3, <2>4, <2>5 DEF SInv
<1>9. CASE /\ task.op \notin {"status", "startLiveview", "startCapture",
                              "stopCapture"}
           /\ ~(task.op = "settings" /\ task.what = "mode")
  <2>1. uiQueue' = uiQueue
    BY <1>9, PostedBecomes
  <2> QED
    BY <1>1, <1>2, <1>3, <1>4, <1>9, <2>1
    DEF SInv, ModeAgrees, LiveviewAgrees, RecordingAgrees, Posted
<1> QED
  BY <1>5, <1>6, <1>7, <1>8, <1>9

(* A socket that opens has received nothing yet.                            *)
LEMMA OpensKeeps ==
    ASSUME TInv, SInv, NEW i \in Sockets, SocketOpens(i)
    PROVE  SInv'
<1>1. /\ UNCHANGED <<fields, uiQueue, executor, wire, camera, resumes>>
      /\ socket[i] = "opening" /\ socket' = [socket EXCEPT ![i] = "open"]
      /\ socket \in [Sockets -> {"none", "opening", "open"}]
  BY DEF SocketOpens, TInv, bounds
<1>2. WireEnds'
  BY <1>1 DEF SInv, WireEnds
<1>3. StatusComes' = StatusComes
  BY <1>1 DEF StatusComes, Awaited, executor
<1> QED
  BY <1>1, <1>2, <1>3
  DEF SInv, ServedAgrees, StopRefreshes, StopRuns, ModeAgrees, LiveviewAgrees,
      RecordingAgrees, ServedOp, Posted, fields, executor

(* A status arrives; the last one of a socket is the camera's.              *)
LEMMA DeliverKeeps ==
    ASSUME TInv, SInv, NEW i \in Sockets, Deliver(i)
    PROVE  SInv'
<1> DEFINE m == [type |-> "status", status |-> Head(wire[i])]
<1>1. /\ UNCHANGED <<fields, executor, socket, camera, resumes>>
      /\ wire[i] \in Seq(CameraStates) /\ wire[i] # <<>>
      /\ uiQueue' = Append(uiQueue, m) /\ uiQueue \in Seq(Messages)
      /\ wire' = [wire EXCEPT ![i] = Tail(wire[i])]
      /\ wire \in [Sockets -> Seq(CameraStates)]
  BY DEF Deliver, TInv, bounds
<1>2. /\ Head(wire[i]) = wire[i][1] /\ Tail(wire[i]) \in Seq(CameraStates)
      /\ Len(wire[i]) \in Nat /\ Len(Tail(wire[i])) = Len(wire[i]) - 1
      /\ \A j \in 1 .. Len(wire[i]) - 1 : Tail(wire[i])[j] = wire[i][j + 1]
      /\ Head(wire[i]) \in CameraStates
  BY <1>1, HeadTailProperties
<1>3. /\ m \in Messages
      /\ Writes(m, "mode")
      /\ Written(m, "mode") = FromValue(Head(wire[i]).captureMode)
      /\ Writes(m, "liveview")
      /\ Written(m, "liveview") = Head(wire[i]).isInLiveView
      /\ ~Writes(m, "recording")
  BY <1>2 DEF Messages, MessagesOf, Writes, Written
<1> HIDE DEF m
<1>4. wire[i][Len(wire[i])] = camera /\ socket[i] = "open"
  BY <1>1 DEF SInv, WireEnds
<1>5. WireEnds'
  <2> SUFFICES ASSUME NEW k \in Sockets
               PROVE  /\ k > resumes => socket[k] = "none"
                      /\ wire'[k] # <<>> =>
                            /\ socket[k] = "open"
                            /\ wire'[k][Len(wire'[k])] = camera
    BY <1>1 DEF WireEnds
  <2>1. CASE k = i
    <3>1. wire'[i] = Tail(wire[i])
      BY <1>1
    <3>2. Tail(wire[i]) # <<>> => Tail(wire[i])[Len(Tail(wire[i]))] = camera
      <4> SUFFICES ASSUME Tail(wire[i]) # <<>>
                   PROVE  Tail(wire[i])[Len(Tail(wire[i]))] = camera
        OBVIOUS
      <4>1. Len(wire[i]) - 1 \in 1 .. Len(wire[i]) - 1
        BY <1>2
      <4> QED
        BY <1>2, <1>4, <4>1
    <3> QED
      BY <1>4, <2>1, <3>1, <3>2 DEF SInv, WireEnds
  <2>2. CASE k # i
    BY <1>1, <2>2 DEF SInv, WireEnds
  <2> QED
    BY <2>1, <2>2
<1>6. ServedAgrees' /\ StopRefreshes' /\ StopRuns'
  BY <1>1 DEF SInv, ServedAgrees, StopRefreshes, StopRuns, executor
<1>7. RecordingAgrees'
  BY <1>1, <1>3, AppendBecomes
  DEF SInv, RecordingAgrees, ServedOp, fields, executor
<1>8. CASE Tail(wire[i]) # <<>>
  <2>1. StatusComes'
    BY <1>1, <1>8 DEF StatusComes
  <2> QED
    BY <1>5, <1>6, <1>7, <2>1 DEF SInv, ModeAgrees, LiveviewAgrees
<1>9. CASE Tail(wire[i]) = <<>>
  <2>1. Len(wire[i]) = 1
    <3>1. Len(Tail(wire[i])) = 0
      <4>1. Len(<<>>) = 0
        OBVIOUS
      <4>2. \A s : s = <<>> => Len(s) = Len(<<>>)
        OBVIOUS
      <4> QED
        BY <1>9, <4>1, <4>2, Zenon
    <3>2. Len(wire[i]) \in Nat /\ Len(Tail(wire[i])) = Len(wire[i]) - 1
      BY <1>2
    <3> HIDE <1>2
    <3> QED
      BY <3>1, <3>2
  <2>2. Head(wire[i]) = camera
    BY <1>2, <1>4, <2>1
  <2>3. ModeAgrees' /\ LiveviewAgrees'
    BY <1>1, <1>3, <2>2, AppendBecomes DEF ModeAgrees, LiveviewAgrees
  <2> QED
    BY <1>5, <1>6, <1>7, <2>3 DEF SInv
<1> QED
  BY <1>8, <1>9

-----------------------------------------------------------------------------
(* Every step keeps SInv when the camera changes nothing by itself, unless  *)
(* it kills the process.                                                    *)
LEMMA NextSession ==
    ASSUME MaxChanges = 0, TInv, TInv', failure = "none" => SInv, [Next]_vars,
           failure' = "none"
    PROVE  SInv'
<1>0. failure = "none" /\ SInv
  BY NotKilled DEF vars
<1>1. CASE Still
  BY <1>0, <1>1, StillKeeps
<1>2. CASE Submits
  BY <1>0, <1>2, SubmittedKeeps DEF Submits
<1>3. ~CameraChanges
  BY DEF CameraChanges, TInv, TypeOK
<1> QED
  BY <1>0, <1>1, <1>2, <1>3, StepShape, ResumeKeeps, HandledKeeps, EnableKeeps,
     StartKeeps, JoinReturnsKeeps, ServeKeeps, FinishKeepsSession, OpensKeeps,
     DeliverKeeps

(* At rest, with nothing on its way, the fields are what they were to       *)
(* become: the camera's.                                                    *)
LEMMA SettledAgrees ==
    ASSUME SInv, TInv, Settled, resumes > 0
    PROVE  /\ mCaptureMode = FromValue(camera.captureMode)
           /\ mIsInLiveview = camera.isInLiveView
           /\ mIsRecording = camera.isRecording
<1>1. /\ tasks = <<>> /\ uiQueue = <<>> /\ DOMAIN <<>> = {}
      /\ \A i \in Sockets : wire[i] = <<>>
  BY DEF Settled, Quiet
<1>2. stage = "queued"
  BY <1>1 DEF TInv, TypeOK
<1>3. ~StatusComes
  <2>1. resumes # 0
    BY DEF TInv, TypeOK
  <2> QED
    BY <1>1, <2>1 DEF StatusComes, Awaited
<1>4. (\A ops : ~ServedOp(ops)) /\ ~Posted("liveview")
  BY <1>1, <1>2 DEF ServedOp, Posted
<1> QED
  BY <1>1, <1>3, <1>4, BecomesSettled
  DEF SInv, ModeAgrees, LiveviewAgrees, RecordingAgrees

(* However late or out of order the answers, the messages and the statuses  *)
(* of several sockets arrive, and whether or not a socket opens, a session  *)
(* at rest, which no exception has ended, knows the camera's mode (null if  *)
(* it has no name), liveview and recording state.                           *)
THEOREM RestAgrees == Spec => []SessionAgrees
<1> DEFINE I == MaxChanges = 0 /\ failure = "none" => SInv
<1>1. Init => I
  BY InitSession
<1>2. TInv /\ TInv' /\ I /\ [Next]_vars => I'
  BY NextSession
<1>3. TInv /\ I => SessionAgrees
  BY SettledAgrees DEF SessionAgrees, Settled
<1> HIDE DEF I
<1> QED
  BY InitTypes, NextTypes, <1>1, <1>2, <1>3, PTL DEF Spec

-----------------------------------------------------------------------------
(* No step takes from the surface the stream of a camera in liveview: only  *)
(* a stop task does, and the camera leaves liveview next, or the loss of    *)
(* the surface, and the next onResume either loads the stream or misses it. *)
LEMMA NextShown ==
    ASSUME MaxChanges = 0, ~Lossy, TInv, TInv', SInv, Shown, [Next]_vars,
           failure = "none"
    PROVE  Shown'
<1>1. CASE Still
  BY <1>1 DEF Still, KeepsView, Shown, ServedOp, Posted, executor, network
<1>2. CASE Submits
  <2>1. stage # "queued" => Head(tasks') = Head(tasks)
    BY <1>2, SubmitBehind DEF Submits
  <2> QED
    BY <1>2, <2>1 DEF Submits, KeepsView, Shown, ServedOp, Posted, network
<1>3. CASE Resume
  <2>1. /\ UNCHANGED <<uiQueue, stage, camera>> /\ playing' = playing
        /\ \/ connecting' > 0
           \/ /\ connecting' = connecting
              /\ missed' = (missed \/ (activity = "stopped" /\ camera.isInLiveView))
    <3>1. connecting \in Nat
      BY DEF TInv, TypeOK
    <3> QED
      BY <1>3, <3>1, LoadTypes DEF Resume
  <2>2. stage # "queued" => Head(tasks') = Head(tasks)
    BY <1>3, SubmitBehind, RefreshIsRequests DEF Resume
  <2> QED
    BY <2>1, <2>2 DEF Shown, ServedOp, Posted
<1>4. CASE HandleStatus \/ HandleMode \/ HandleRecording
  <2>1. UNCHANGED <<window, view, executor, camera>>
    BY <1>4, StatusStep DEF HandleMode, HandleRecording, network
  <2>2. Posted("liveview") => Posted("liveview")'
    <3>1. /\ uiQueue \in Seq(Messages) /\ uiQueue # <<>>
          /\ uiQueue' = Tail(uiQueue)
          /\ Head(uiQueue).type \in {"status", "mode", "recording"}
      BY <1>4 DEF TInv, HandleStatus, HandleMode, HandleRecording, Received
    <3> QED
      BY <3>1, LiveviewStays
  <2> QED
    BY <2>1, <2>2 DEF Shown, ServedOp, window, view, executor
<1>5. CASE EnableLiveview
  <2>1. connecting' > 0
    BY <1>5, LoadTypes DEF EnableLiveview, TInv, TypeOK
  <2> QED
    BY <2>1 DEF Shown
<1>6. CASE StartTask \/ StopPlayback \/ JoinThread
  <2>1. /\ UNCHANGED <<playing, connecting, missed, activity, uiQueue, camera, tasks>>
        /\ \/ stage = "queued" /\ stage' \in {"sent", "stopping"}
           \/ stage = "stopping" /\ stage' = "joining"
    BY <1>6 DEF StartTask, StopPlayback, JoinThread, window, view, network
  <2> QED
    BY <2>1 DEF Shown, ServedOp, Posted
<1>7. CASE JoinReturns
  <2>1. /\ tasks \in Seq(Requests) /\ tasks # <<>> /\ stage = "joining"
        /\ stage' = "sent" /\ Submit(RefreshCameraStatus)
    BY <1>7 DEF JoinReturns, TInv, TypeOK
  <2>2. Head(tasks).op = "stopLiveview" /\ Head(tasks') = Head(tasks)
    BY <2>1, RefreshIsRequests, SubmitKeeps DEF SInv, StopRuns
  <2> QED
    BY <2>1, <2>2 DEF Shown
<1>8. CASE ServeTask
  <2>1. /\ camera' = Served(Head(tasks)) /\ stage = "sent" /\ stage' = "served"
        /\ UNCHANGED <<window, view, uiQueue, tasks>>
        /\ Head(tasks) \in Requests /\ camera \in CameraStates
    BY <1>8, HeadTailProperties DEF ServeTask, TInv, TypeOK
  <2> QED
    BY <2>1, ServedFields DEF Shown, ServedOp, Posted, window, view
<1>9. CASE FinishTask
  <2>1. /\ stage = "served" /\ UNCHANGED <<window, view, camera>>
        /\ uiQueue \in Seq(Messages)
    BY <1>9 DEF FinishTask, TInv, network
  <2>2. /\ Posted("liveview") => Posted("liveview")'
        /\ Head(tasks).op = "startLiveview" => Posted("liveview")'
    <3>1. uiQueue' = uiQueue \/ \E m \in Messages : uiQueue' = Append(uiQueue, m)
      BY <1>9, PostedBecomes
    <3>2. Head(tasks).op = "startLiveview" => \E m \in Messages :
                uiQueue' = Append(uiQueue, m) /\ m.type = "liveview"
      BY <1>9, PostedBecomes
    <3>3. Posted("liveview") => Posted("liveview")'
      BY <2>1, <3>1, AppendBecomes DEF Posted
    <3> QED
      BY <2>1, <3>2, <3>3, AppendBecomes
  <2> QED
    BY <2>1, <2>2 DEF Shown, ServedOp, window, view
<1>10. CASE \E i \in Sockets : SocketOpens(i)
  BY <1>10 DEF SocketOpens, Shown, ServedOp, Posted, window, view, executor
<1>11. CASE \E i \in Sockets : Deliver(i)
  <2>1. PICK i \in Sockets : Deliver(i)
    BY <1>11
  <2> DEFINE m == [type |-> "status", status |-> Head(wire[i])]
  <2>2. /\ UNCHANGED <<window, view, executor, camera>> /\ uiQueue \in Seq(Messages)
        /\ wire[i] \in Seq(CameraStates) /\ wire[i] # <<>>
        /\ uiQueue' = Append(uiQueue, m)
    BY <2>1 DEF Deliver, TInv
  <2>3. m \in Messages
    BY <2>2, HeadTailProperties DEF Messages, MessagesOf
  <2>4. Posted("liveview") => Posted("liveview")'
    <3> HIDE DEF m
    <3> QED
      BY <2>2, <2>3, AppendBecomes
  <2> QED
    BY <2>2, <2>4 DEF Shown, ServedOp, window, view, executor
<1>12. ~CameraChanges
  BY DEF CameraChanges, TInv, TypeOK
<1> QED
  BY <1>1, <1>2, <1>3, <1>4, <1>5, <1>6, <1>7, <1>8, <1>9, <1>10, <1>11, <1>12,
     StepShape

(* At rest a camera in liveview is played on the surface that is there.     *)
LEMMA SettledShown ==
    ASSUME TInv, Shown, Settled, camera.isInLiveView, activity = "resumed", ~missed
    PROVE  playing
<1>1. tasks = <<>> /\ uiQueue = <<>> /\ connecting = 0 /\ DOMAIN <<>> = {}
  BY DEF Settled, Quiet
<1>2. stage = "queued"
  BY <1>1 DEF TInv, TypeOK
<1> QED
  BY <1>1, <1>2 DEF Shown, ServedOp, Posted

(* A camera that the app put in liveview is shown, in whatever order the    *)
(* pauses, the losses of the surface, the stop tasks on the executor with   *)
(* their joins and the connections the UI thread opens come, for any number *)
(* of clicks and resumes; but not what an onResume has missed.              *)
THEOREM LiveviewIsShown == Spec => []LiveviewShown
<1> DEFINE I == MaxChanges = 0 /\ failure = "none" => SInv
           J == MaxChanges = 0 /\ ~Lossy /\ failure = "none" => Shown
<1>1. Init => I /\ J
  BY InitSession
<1>2. TInv /\ TInv' /\ I /\ J /\ [Next]_vars => I' /\ J'
  <2> SUFFICES ASSUME TInv, TInv', I, J, [Next]_vars, MaxChanges = 0,
                      failure' = "none"
               PROVE  SInv' /\ (~Lossy => Shown')
    OBVIOUS
  <2>1. failure = "none"
    BY NotKilled DEF vars
  <2> QED
    BY <2>1, NextSession, NextShown
<1>3. TInv /\ J => LiveviewShown
  BY SettledShown DEF LiveviewShown, Settled
<1> HIDE DEF I, J
<1> QED
  BY InitTypes, NextTypes, <1>1, <1>2, <1>3, PTL DEF Spec

=============================================================================
