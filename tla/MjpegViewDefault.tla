-------------------------- MODULE MjpegViewDefault --------------------------
(***************************************************************************)
(* The playback side of the liveview: MjpegViewDefault, its rendering      *)
(* threads (MjpegViewThread) and the two threads that call it, the UI      *)
(* thread and the AsyncTask executor (LiveviewStopAsyncTask calls          *)
(* stopPlayback from doInBackground).                                      *)
(*                                                                         *)
(* Every access to a field that another thread may touch is a step of its  *)
(* own, so all the interleavings of the unsynchronised fields are here.    *)
(* Pixels, overlay, display mode and sizes are left out.                   *)
(***************************************************************************)
EXTENDS Naturals, FiniteSets

CONSTANTS
    Views,       \* the MjpegViewDefault instances, one per activity instance
    Sources,     \* the streams given to setSource, each of them once
    Null,        \* Java's null
    Reload,      \* TRUE: setSource may come while a source is playing
    StopOffMain  \* TRUE: stopPlayback may run on the executor

ASSUME ConstantsAssumption ==
    /\ Views \cap Sources = {}
    /\ Null \notin Views \cup Sources
    /\ Reload \in BOOLEAN
    /\ StopOffMain \in BOOLEAN

Callers == {"ui", "executor"}

(* A MjpegViewThread is named after what it was created for: the view whose *)
(* constructor made it, or the source whose setSource made it.              *)
Threads == Views \cup Sources

VARIABLES
    built,        \* views whose constructor has run
    thread,       \* the static field MjpegViewDefault.thread
    mIn,          \* per view: the current source
    mRun,         \* per view: may the rendering loops go on
    surfaceDone,  \* per view: the surface exists
    owner,        \* per thread: the view it is an inner object of
    tpc,          \* per thread: where its run() is
    reading,      \* per thread: the source whose frame it is reading
    canvas,       \* per view: the thread between lockCanvas and unlockCanvasAndPost
    monitor,      \* per view: the thread inside synchronized (mSurfaceHolder)
    closed,       \* sources whose connection has been closed
    cpc,          \* per caller: where it is inside the view's methods
    cview,        \* per caller: the view it has called
    joining,      \* per caller: the thread it joins or locks
    arg,          \* the source setSource was called with
    failure       \* the uncaught exception that killed the process, if any

fields  == <<thread, mIn, mRun, surfaceDone>>
locks   == <<canvas, monitor>>
threads == <<owner, tpc, reading>>
callers == <<cpc, cview, joining, arg>>
vars == <<built, fields, threads, locks, closed, callers, failure>>

ThreadStates == {"none", "new", "loop", "poll", "lock", "sync", "test",
                 "fetch", "reading", "leave", "post", "dead"}
CallerStates == {"idle", "run", "init", "start", "resize", "halt", "check",
                 "join", "wait", "testIn", "close", "clearIn", "forget"}

(* Thread.isAlive: started and not yet returned from run().                 *)
Alive(t) == tpc[t] \notin {"none", "new", "dead"}

Init ==
    /\ built = {}
    /\ thread = Null
    /\ mIn = [v \in Views |-> Null]
    /\ mRun = [v \in Views |-> FALSE]
    /\ surfaceDone = [v \in Views |-> FALSE]
    /\ owner = [t \in Threads |-> Null]
    /\ tpc = [t \in Threads |-> "none"]
    /\ reading = [t \in Threads |-> Null]
    /\ canvas = [v \in Views |-> Null]
    /\ monitor = [v \in Views |-> Null]
    /\ closed = {}
    /\ cpc = [c \in Callers |-> "idle"]
    /\ cview = [c \in Callers |-> Null]
    /\ joining = [c \in Callers |-> Null]
    /\ arg = Null
    /\ failure = "none"

-----------------------------------------------------------------------------
(* The callers.                                                             *)

Goto(c, label) == cpc' = [cpc EXCEPT ![c] = label]

Enter(c, v, label) ==
    /\ cpc[c] = "idle"
    /\ v \in built
    /\ Goto(c, label)
    /\ cview' = [cview EXCEPT ![c] = v]

Return(c) ==
    /\ Goto(c, "idle")
    /\ cview' = [cview EXCEPT ![c] = Null]
    /\ joining' = [joining EXCEPT ![c] = Null]
    /\ arg' = IF c = "ui" THEN Null ELSE arg

(* An uncaught exception on any thread kills the Android process.           *)
Die(cause) == failure' = cause

(* new MjpegViewThread(holder), stored in the static field.                 *)
NewThread(t, v) ==
    /\ owner' = [owner EXCEPT ![t] = v]
    /\ tpc' = [tpc EXCEPT ![t] = "new"]
    /\ thread' = t

(* The constructor: init() creates a first thread, which is never started   *)
(* because resume is TRUE from here on and every setSource creates its own. *)
Construct(v) ==
    /\ cpc["ui"] = "idle"
    /\ v \notin built
    /\ built' = built \cup {v}
    /\ NewThread(v, v)
    /\ UNCHANGED <<mIn, mRun, surfaceDone, reading, locks, closed, callers,
                   failure>>

SetSource(v, s) ==
    /\ Enter("ui", v, "run")
    /\ owner[s] = Null
    /\ Reload \/ (~mRun[v] /\ mIn[v] = Null)
    /\ owner' = [owner EXCEPT ![s] = v]
    /\ mIn' = [mIn EXCEPT ![v] = s]
    /\ arg' = s
    /\ UNCHANGED <<built, thread, mRun, surfaceDone, tpc, reading, locks,
                   closed, joining, failure>>

ResumeRun ==
    /\ cpc["ui"] = "run"
    /\ mRun' = [mRun EXCEPT ![cview["ui"]] = TRUE]
    /\ Goto("ui", "init")
    /\ UNCHANGED <<built, thread, mIn, surfaceDone, threads, locks, closed,
                   cview, joining, arg, failure>>

\* Mutant: the previous thread is started again.
Mutant_ResumeInit ==
    /\ cpc["ui"] = "init"
    /\ Goto("ui", "start")
    /\ UNCHANGED <<built, fields, threads, locks, closed, cview, joining, arg,
                   failure>>

ResumeInit ==
    /\ cpc["ui"] = "init"
    /\ NewThread(arg, cview["ui"])
    /\ Goto("ui", "start")
    /\ UNCHANGED <<built, mIn, mRun, surfaceDone, reading, locks, closed,
                   cview, joining, arg, failure>>

ResumeStart ==
    /\ cpc["ui"] = "start"
    /\ IF thread # Null /\ tpc[thread] = "new"
       THEN /\ tpc' = [tpc EXCEPT ![thread] = "loop"]
            /\ UNCHANGED failure
       ELSE \* NullPointerException or IllegalThreadStateException
            /\ Die("start")
            /\ UNCHANGED tpc
    /\ Return("ui")
    /\ UNCHANGED <<built, fields, owner, reading, locks, closed>>

SurfaceCreated(v) ==
    /\ cpc["ui"] = "idle"
    /\ v \in built
    /\ ~surfaceDone[v]
    /\ surfaceDone' = [surfaceDone EXCEPT ![v] = TRUE]
    /\ UNCHANGED <<built, thread, mIn, mRun, threads, locks, closed, callers,
                   failure>>

(* setSurfaceSize synchronises on the holder of the static thread's view.   *)
SurfaceChanged(v) ==
    /\ surfaceDone[v]
    /\ thread # Null
    /\ Enter("ui", v, "resize")
    /\ joining' = [joining EXCEPT !["ui"] = thread]
    /\ UNCHANGED <<built, fields, threads, locks, closed, arg, failure>>

SetSurfaceSize ==
    /\ cpc["ui"] = "resize"
    /\ monitor[owner[joining["ui"]]] = Null
    /\ Return("ui")
    /\ UNCHANGED <<built, fields, threads, locks, closed, failure>>

SurfaceDestroyed(v) ==
    /\ surfaceDone[v]
    /\ Enter("ui", v, "halt")
    /\ surfaceDone' = [surfaceDone EXCEPT ![v] = FALSE]
    /\ UNCHANGED <<built, thread, mIn, mRun, threads, locks, closed, joining,
                   arg, failure>>

(* LiveviewStopAsyncTask.doInBackground -> disableLiveview -> stopPlayback. *)
StopPlayback(v) ==
    /\ StopOffMain
    /\ Enter("executor", v, "halt")
    /\ UNCHANGED <<built, fields, threads, locks, closed, joining, arg,
                   failure>>

\* Mutant: the thread is joined without being told to stop.
Mutant_StopHalt(c) ==
    /\ cpc[c] = "halt"
    /\ Goto(c, "check")
    /\ UNCHANGED <<built, fields, threads, locks, closed, cview, joining, arg,
                   failure>>

StopHalt(c) ==
    /\ cpc[c] = "halt"
    /\ mRun' = [mRun EXCEPT ![cview[c]] = FALSE]
    /\ Goto(c, "check")
    /\ UNCHANGED <<built, thread, mIn, surfaceDone, threads, locks, closed,
                   cview, joining, arg, failure>>

\* Mutant: the first thread of the view is taken for one never started.
Mutant_StopCheck(c) ==
    /\ cpc[c] = "check"
    /\ Goto(c, IF mIn[cview[c]] = Null THEN "join" ELSE "testIn")
    /\ UNCHANGED <<built, fields, threads, locks, closed, cview, joining, arg,
                   failure>>

StopCheck(c) ==
    /\ cpc[c] = "check"
    /\ Goto(c, IF thread # Null THEN "join" ELSE "testIn")
    /\ UNCHANGED <<built, fields, threads, locks, closed, cview, joining, arg,
                   failure>>

(* The field is read again for the call: it may have become null.           *)
StopJoin(c) ==
    /\ cpc[c] = "join"
    /\ IF thread = Null
       THEN /\ Die("null")
            /\ UNCHANGED <<cpc, joining>>
       ELSE /\ joining' = [joining EXCEPT ![c] = thread]
            /\ Goto(c, "wait")
            /\ UNCHANGED failure
    /\ UNCHANGED <<built, fields, threads, locks, closed, cview, arg>>

\* Mutant: the join is given up (a timeout, an interrupt that is not retried).
Mutant_StopJoined(c) ==
    /\ cpc[c] = "wait"
    /\ Goto(c, "testIn")
    /\ UNCHANGED <<built, fields, threads, locks, closed, cview, joining, arg,
                   failure>>

StopJoined(c) ==
    /\ cpc[c] = "wait"
    /\ ~Alive(joining[c])
    /\ Goto(c, "testIn")
    /\ UNCHANGED <<built, fields, threads, locks, closed, cview, joining, arg,
                   failure>>

\* Mutant: the caller is not done with the view.
Mutant_AfterStop(c) ==
    IF c = "ui" THEN Goto(c, "forget") /\ UNCHANGED <<cview, joining, arg>>
                ELSE Goto(c, "idle") /\ UNCHANGED <<cview, joining, arg>>

AfterStop(c) == IF c = "ui" THEN Goto(c, "forget") /\ UNCHANGED <<cview, joining, arg>>
                            ELSE Return(c)

StopTestIn(c) ==
    /\ cpc[c] = "testIn"
    /\ IF mIn[cview[c]] # Null
       THEN Goto(c, "close") /\ UNCHANGED <<cview, joining, arg>>
       ELSE AfterStop(c)
    /\ UNCHANGED <<built, fields, threads, locks, closed, failure>>

\* Mutant: the field is cleared without closing the stream.
Mutant_StopClose(c) ==
    /\ cpc[c] = "close"
    /\ Goto(c, "clearIn")
    /\ UNCHANGED <<built, fields, threads, locks, closed, cview, joining, arg,
                   failure>>

StopClose(c) ==
    /\ cpc[c] = "close"
    /\ IF mIn[cview[c]] = Null
       THEN /\ Die("null")
            /\ UNCHANGED <<closed, cpc>>
       ELSE /\ closed' = closed \cup {mIn[cview[c]]}
            /\ Goto(c, "clearIn")
            /\ UNCHANGED failure
    /\ UNCHANGED <<built, fields, threads, locks, cview, joining, arg>>

StopClearIn(c) ==
    /\ cpc[c] = "clearIn"
    /\ mIn' = [mIn EXCEPT ![cview[c]] = Null]
    /\ AfterStop(c)
    /\ UNCHANGED <<built, thread, mRun, surfaceDone, threads, locks, closed,
                   failure>>

ForgetThread ==
    /\ cpc["ui"] = "forget"
    /\ thread' = Null
    /\ Return("ui")
    /\ UNCHANGED <<built, mIn, mRun, surfaceDone, threads, locks, closed,
                   failure>>

CallerStep(c) ==
    \/ StopHalt(c)
    \/ StopCheck(c)
    \/ StopJoin(c)
    \/ StopJoined(c)
    \/ StopTestIn(c)
    \/ StopClose(c)
    \/ StopClearIn(c)

UiStep ==
    \/ ResumeRun
    \/ ResumeInit
    \/ ResumeStart
    \/ SetSurfaceSize
    \/ ForgetThread

-----------------------------------------------------------------------------
(* MjpegViewThread.run().                                                   *)

At(t, label)  == tpc[t] = label
Jump(t, label) == tpc' = [tpc EXCEPT ![t] = label]

TestRun(t) ==
    /\ At(t, "loop")
    /\ Jump(t, IF mRun[owner[t]] THEN "poll" ELSE "dead")
    /\ UNCHANGED <<built, fields, owner, reading, locks, closed, callers,
                   failure>>

(* Without a surface the loop spins.                                        *)
TestSurface(t) ==
    /\ At(t, "poll")
    /\ Jump(t, IF surfaceDone[owner[t]] THEN "lock" ELSE "loop")
    /\ UNCHANGED <<built, fields, owner, reading, locks, closed, callers,
                   failure>>

(* SurfaceHolder.lockCanvas keeps the surface lock only when it returns a   *)
(* canvas; it returns null when the surface cannot be drawn to.             *)
LockCanvas(t) ==
    /\ At(t, "lock")
    /\ canvas[owner[t]] = Null
    /\ canvas' \in {canvas, [canvas EXCEPT ![owner[t]] = t]}
    /\ Jump(t, "sync")
    /\ UNCHANGED <<built, fields, owner, reading, monitor, closed, callers,
                   failure>>

\* Mutant: the block is not synchronized.
Mutant_EnterMonitor(t) ==
    /\ At(t, "sync")
    /\ Jump(t, "test")
    /\ UNCHANGED <<built, fields, owner, reading, locks, closed, callers,
                   failure>>

EnterMonitor(t) ==
    /\ At(t, "sync")
    /\ monitor[owner[t]] = Null
    /\ monitor' = [monitor EXCEPT ![owner[t]] = t]
    /\ Jump(t, "test")
    /\ UNCHANGED <<built, fields, owner, reading, canvas, closed, callers,
                   failure>>

TestIn(t) ==
    /\ At(t, "test")
    /\ Jump(t, IF mIn[owner[t]] # Null THEN "fetch" ELSE "leave")
    /\ UNCHANGED <<built, fields, owner, reading, locks, closed, callers,
                   failure>>

(* mIn.readMjpegFrame(): the field is read again for the call.              *)
FetchIn(t) ==
    /\ At(t, "fetch")
    /\ IF mIn[owner[t]] = Null
       THEN /\ Die("null")
            /\ UNCHANGED <<tpc, reading>>
       ELSE /\ reading' = [reading EXCEPT ![t] = mIn[owner[t]]]
            /\ Jump(t, "reading")
            /\ UNCHANGED failure
    /\ UNCHANGED <<built, fields, owner, locks, closed, callers>>

(* A frame, no bitmap, or an IOException that is swallowed: the loop goes   *)
(* on in the three cases.                                                   *)
ReadFrame(t) ==
    /\ At(t, "reading")
    /\ reading' = [reading EXCEPT ![t] = Null]
    /\ Jump(t, "leave")
    /\ UNCHANGED <<built, fields, owner, locks, closed, callers, failure>>

(* A header or a length the reader cannot handle: an unchecked exception    *)
(* leaves run() (MjpegInputStreamDefault.readMjpegFrame).                   *)
RejectFrame(t) ==
    /\ At(t, "reading")
    /\ reading[t] \notin closed
    /\ Die("frame")
    /\ UNCHANGED <<built, fields, threads, locks, closed, callers>>

LeaveMonitor(t) ==
    /\ At(t, "leave")
    /\ monitor' = [monitor EXCEPT ![owner[t]] = Null]
    /\ Jump(t, "post")
    /\ UNCHANGED <<built, fields, owner, reading, canvas, closed, callers,
                   failure>>

\* Mutant: without the finally block, a frame that fails keeps the canvas.
Mutant_UnlockCanvas(t) ==
    /\ At(t, "post")
    /\ \/ canvas' = IF canvas[owner[t]] = t
                    THEN [canvas EXCEPT ![owner[t]] = Null] ELSE canvas
       \/ UNCHANGED canvas
    /\ Jump(t, "loop")
    /\ UNCHANGED <<built, fields, owner, reading, monitor, closed, callers,
                   failure>>

UnlockCanvas(t) ==
    /\ At(t, "post")
    /\ canvas' = IF canvas[owner[t]] = t
                 THEN [canvas EXCEPT ![owner[t]] = Null] ELSE canvas
    /\ Jump(t, "loop")
    /\ UNCHANGED <<built, fields, owner, reading, monitor, closed, callers,
                   failure>>

ThreadStep(t) ==
    \/ TestRun(t)
    \/ TestSurface(t)
    \/ LockCanvas(t)
    \/ EnterMonitor(t)
    \/ TestIn(t)
    \/ FetchIn(t)
    \/ ReadFrame(t)
    \/ LeaveMonitor(t)
    \/ UnlockCanvas(t)

-----------------------------------------------------------------------------

Event(v) ==
    \/ Construct(v)
    \/ \E s \in Sources : SetSource(v, s)
    \/ SurfaceCreated(v)
    \/ SurfaceChanged(v)
    \/ SurfaceDestroyed(v)
    \/ StopPlayback(v)

Running(A) == failure = "none" /\ A

(* The process is gone.                                                     *)
Crashed == failure # "none" /\ UNCHANGED vars

Next ==
    \/ \E v \in Views : Running(Event(v))
    \/ \E c \in Callers : Running(CallerStep(c))
    \/ Running(UiStep)
    \/ \E t \in Threads : Running(ThreadStep(t)) \/ Running(RejectFrame(t))
    \/ Crashed

Spec == Init /\ [][Next]_vars

(* Threads are scheduled, the UI thread and the executor too; a monitor or  *)
(* a surface lock that stays free is taken by someone who waits for it.     *)
(* For ReadFrame this also assumes that the camera sends another frame or   *)
(* ends the stream: no read timeout is set on the connection.               *)
FairSpec ==
    /\ Spec
    /\ \A c \in Callers : WF_vars(Running(CallerStep(c)))
    /\ WF_vars(Running(UiStep))
    /\ \A t \in Threads : WF_vars(Running(ThreadStep(t)))

-----------------------------------------------------------------------------
(* Properties of every use the application makes of the view.               *)

(* Every variable has its type, and a caller has a view exactly while it is *)
(* inside one of that view's methods.                                       *)
TypeOK ==
    /\ built \subseteq Views
    /\ thread \in Threads \cup {Null}
    /\ mIn \in [Views -> Sources \cup {Null}]
    /\ mRun \in [Views -> BOOLEAN]
    /\ surfaceDone \in [Views -> BOOLEAN]
    /\ owner \in [Threads -> Views \cup {Null}]
    /\ tpc \in [Threads -> ThreadStates]
    /\ reading \in [Threads -> Sources \cup {Null}]
    /\ canvas \in [Views -> Threads \cup {Null}]
    /\ monitor \in [Views -> Threads \cup {Null}]
    /\ closed \subseteq Sources
    /\ cpc \in [Callers -> CallerStates]
    /\ cview \in [Callers -> Views \cup {Null}]
    /\ joining \in [Callers -> Threads \cup {Null}]
    /\ arg \in Sources \cup {Null}
    /\ failure \in {"none", "null", "start", "frame"}
    /\ \A c \in Callers : cview[c] = Null <=> cpc[c] = "idle"

(* Two threads are never inside readMjpegFrame of the same stream: its      *)
(* mark/reset parsing keeps no lock of its own, so this rests on the holder *)
(* monitor of run() and on a stream never being given to two views, even    *)
(* when setSource has left several rendering threads behind.                *)
OneReaderPerSource ==
    \A t, u \in Threads :
        reading[t] # Null /\ reading[t] = reading[u] => t = u

(* A canvas posted by a thread is the one it locked, and no thread that has *)
(* left run() keeps the surface locked: the next lockCanvas, of whichever   *)
(* thread, and the end of the join depend on the finally block.             *)
CanvasReturned ==
    \A v \in Views : canvas[v] # Null =>
        /\ owner[canvas[v]] = v
        /\ tpc[canvas[v]] \in {"sync", "test", "fetch", "reading", "leave", "post"}

(* thread.start() in _resumePlayback always finds the thread init() has     *)
(* just made, not null and not started: nothing that runs between the two   *)
(* (the executor inside _stopPlayback) may touch the static field.          *)
FreshStart == failure # "start"

-----------------------------------------------------------------------------
(* Properties of the use the view is made for (~Reload, ~StopOffMain): one  *)
(* source at a time, started and stopped on the UI thread.                  *)

(* At most one rendering thread of a view is alive.                         *)
OneLiveThread ==
    \A t, u \in Threads : Alive(t) /\ Alive(u) /\ owner[t] = owner[u] => t = u

(* Once _stopPlayback is past the join no rendering thread of the view is   *)
(* alive, so nothing uses the stream it closes or the surface Android then  *)
(* takes back.                                                              *)
StopQuiesces ==
    \A c \in Callers : cpc[c] \in {"testIn", "close", "clearIn", "forget"} =>
        \A t \in Threads : Alive(t) => owner[t] # cview[c]

(* No frame is read from a stream whose connection has been closed.         *)
NoReadAfterClose == \A t \in Threads : reading[t] \notin closed

(* No call through a field that another thread has set to null.             *)
NoNullCall == failure # "null"

(* stopPlayback "closes the connection" (comment in _stopPlayback): when it *)
(* is over, every stream the view was ever given is closed.                 *)
StopClosesConnections ==
    \A v \in Views : mIn[v] = Null =>
        \A s \in Sources : owner[s] = v => s \in closed

(* "make sure the thread is not null" (comment in _stopPlayback): at the    *)
(* call of join() the field is not null.                                    *)
JoinTargetNotNull == \A c \in Callers : cpc[c] = "join" => thread # Null

(* The UI thread does not stay in join() for ever (an ANR) when the thread  *)
(* it waits for is one of the view it stops, whatever rendering threads     *)
(* earlier sources left contending for the locks: while it waits nobody     *)
(* else can set mRun again.  The static field may hold another view's       *)
(* thread, which nothing tells to stop.                                     *)
StopReturns ==
    cpc["ui"] = "wait" /\ owner[joining["ui"]] = cview["ui"]
        ~> cpc["ui"] # "wait" \/ failure # "none"

=============================================================================
