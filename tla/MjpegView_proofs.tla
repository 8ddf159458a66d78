------------------------- MODULE MjpegView_proofs -------------------------
(***************************************************************************)
(* Proofs about MjpegViewDefault: for every set of views and of sources    *)
(* and for both values of Reload and of StopOffMain; then for the use it   *)
(* is made for, one view, one source at a time, started and stopped on the *)
(* UI thread; and that so used it implements the safety part of            *)
(* LiveviewPlayback.                                                       *)
(***************************************************************************)
EXTENDS MjpegViewRefinement, TLAPS

(* A thread that exists belongs to a view; the constructor's thread exists  *)
(* only once the constructor has run.                                       *)
ThreadsOwned ==
    /\ \A t \in Threads : tpc[t] # "none" => owner[t] \in Views
    /\ \A v \in Views \ built : tpc[v] = "none" /\ owner[v] = Null

(* Between mIn = source and init() the source has a view and no thread yet. *)
SourceTaken ==
    cpc["ui"] \in {"run", "init"} =>
        /\ arg \in Sources
        /\ cview["ui"] \in Views
        /\ owner[arg] = cview["ui"]
        /\ tpc[arg] = "none"

Owned == ThreadsOwned /\ SourceTaken

(* What a thread reads was given to the thread's view, and it reads it      *)
(* inside the monitor of that view.                                         *)
Inside == {"test", "fetch", "reading", "leave"}

StreamsOwned == \A v \in Views : mIn[v] # Null => owner[mIn[v]] = v

ReadInside ==
    /\ \A t \in Threads : tpc[t] \in Inside => monitor[owner[t]] = t
    /\ \A t \in Threads : reading[t] # Null =>
            tpc[t] = "reading" /\ owner[reading[t]] = owner[t]

(* Between init() and start() the field holds a thread not yet started.     *)
StartReady ==
    cpc["ui"] = "start" => thread \in Threads /\ tpc[thread] = "new"

IInv ==
    /\ TypeOK
    /\ Owned
    /\ StreamsOwned
    /\ ReadInside
    /\ CanvasReturned
    /\ StartReady
    /\ FreshStart

USE ConstantsAssumption

-----------------------------------------------------------------------------
(* The initial states.                                                      *)
LEMMA InitIInv == Init => IInv
  BY DEF Init, IInv, TypeOK, Owned, ThreadsOwned, SourceTaken, StreamsOwned,
         ReadInside, Inside, CanvasReturned, StartReady, FreshStart, Threads,
         Callers, ThreadStates, CallerStates

(* Every step, one action at a time.                                        *)
LEMMA NextIInv == IInv /\ [Next]_vars => IInv'
<1> SUFFICES ASSUME IInv, [Next]_vars PROVE IInv'
  OBVIOUS
<1> USE DEF IInv, TypeOK, Owned, ThreadsOwned, SourceTaken, StreamsOwned,
            ReadInside, Inside, CanvasReturned, StartReady, FreshStart,
            Threads, Callers, ThreadStates, CallerStates,
            vars, fields, threads, locks, callers
<1>1. ASSUME NEW v \in Views, Construct(v) PROVE IInv'
  BY <1>1 DEF Construct, NewThread
<1>2. ASSUME NEW v \in Views, NEW s \in Sources, SetSource(v, s) PROVE IInv'
  BY <1>2 DEF SetSource, Enter, Goto
<1>3. ASSUME NEW v \in Views, SurfaceCreated(v) PROVE IInv'
  BY <1>3 DEF SurfaceCreated
<1>4. ASSUME NEW v \in Views, SurfaceChanged(v) PROVE IInv'
  BY <1>4 DEF SurfaceChanged, Enter, Goto
<1>5. ASSUME NEW v \in Views, SurfaceDestroyed(v) PROVE IInv'
  BY <1>5 DEF SurfaceDestroyed, Enter, Goto
<1>6. ASSUME NEW v \in Views, StopPlayback(v) PROVE IInv'
  BY <1>6 DEF StopPlayback, Enter, Goto
<1>7. ASSUME ResumeRun PROVE IInv'
  BY <1>7 DEF ResumeRun, Goto
<1>8. ASSUME ResumeInit PROVE IInv'
  BY <1>8 DEF ResumeInit, Goto, NewThread
<1>9. ASSUME ResumeStart PROVE IInv'
  BY <1>9 DEF ResumeStart, Die, Return, Goto
<1>10. ASSUME SetSurfaceSize PROVE IInv'
  BY <1>10 DEF SetSurfaceSize, Return, Goto
<1>11. ASSUME ForgetThread PROVE IInv'
  BY <1>11 DEF ForgetThread, Return, Goto
<1>12. ASSUME NEW c \in Callers, StopHalt(c) PROVE IInv'
  BY <1>12 DEF StopHalt, Goto
<1>13. ASSUME NEW c \in Callers, StopCheck(c) PROVE IInv'
  BY <1>13 DEF StopCheck, Goto
<1>14. ASSUME NEW c \in Callers, StopJoin(c) PROVE IInv'
  BY <1>14 DEF StopJoin, Die, Goto
<1>15. ASSUME NEW c \in Callers, StopJoined(c) PROVE IInv'
  BY <1>15 DEF StopJoined, Goto
<1>16. ASSUME NEW c \in Callers, StopTestIn(c) PROVE IInv'
  BY <1>16 DEF StopTestIn, AfterStop, Return, Goto
<1>17. ASSUME NEW c \in Callers, StopClose(c) PROVE IInv'
  BY <1>17 DEF StopClose, Die, Goto
<1>18. ASSUME NEW c \in Callers, StopClearIn(c) PROVE IInv'
  BY <1>18 DEF StopClearIn, AfterStop, Return, Goto
<1>19. ASSUME NEW t \in Threads, TestRun(t) PROVE IInv'
  BY <1>19 DEF TestRun, At, Jump
<1>20. ASSUME NEW t \in Threads, TestSurface(t) PROVE IInv'
  BY <1>20 DEF TestSurface, At, Jump
<1>21. ASSUME NEW t \in Threads, LockCanvas(t) PROVE IInv'
  BY <1>21 DEF LockCanvas, At, Jump
<1>22. ASSUME NEW t \in Threads, EnterMonitor(t) PROVE IInv'
  BY <1>22 DEF EnterMonitor, At, Jump
<1>23. ASSUME NEW t \in Threads, TestIn(t) PROVE IInv'
  BY <1>23 DEF TestIn, At, Jump
<1>24. ASSUME NEW t \in Threads, FetchIn(t) PROVE IInv'
  BY <1>24 DEF FetchIn, At, Jump, Die
<1>25. ASSUME NEW t \in Threads, ReadFrame(t) PROVE IInv'
  BY <1>25 DEF ReadFrame, At, Jump
<1>26. ASSUME NEW t \in Threads, RejectFrame(t) PROVE IInv'
  BY <1>26 DEF RejectFrame, At, Die
<1>27. ASSUME NEW t \in Threads, LeaveMonitor(t) PROVE IInv'
  BY <1>27 DEF LeaveMonitor, At, Jump
<1>28. ASSUME NEW t \in Threads, UnlockCanvas(t) PROVE IInv'
  BY <1>28 DEF UnlockCanvas, At, Jump
<1>29. CASE UNCHANGED vars
  BY <1>29
<1> HIDE DEF IInv, TypeOK, Owned, ThreadsOwned, SourceTaken, StreamsOwned,
             ReadInside, Inside, CanvasReturned, StartReady, FreshStart,
             Threads, Callers, ThreadStates, CallerStates,
             vars, fields, threads, locks, callers
<1> QED
  BY <1>1, <1>2, <1>3, <1>4, <1>5, <1>6, <1>7, <1>8, <1>9, <1>10, <1>11,
     <1>12, <1>13, <1>14, <1>15, <1>16, <1>17, <1>18, <1>19, <1>20, <1>21,
     <1>22, <1>23, <1>24, <1>25, <1>26, <1>27, <1>28, <1>29
     DEF Next, Running, Crashed, Event, UiStep, CallerStep, ThreadStep

(* Types, ownership of threads, streams and locks, and the freshness of the *)
(* thread that is started: in every reachable state, for any number of      *)
(* views and sources.                                                       *)
THEOREM Invariance == Spec => []IInv
  BY InitIInv, NextIInv, PTL DEF Spec

(* The variables always have their types.                                   *)
THEOREM TypeCorrect == Spec => []TypeOK
  BY Invariance, PTL DEF IInv

(* No stream is ever read by two rendering threads at once, for any number  *)
(* of views, sources and threads left behind by setSource.                  *)
THEOREM ReadersExclude == Spec => []OneReaderPerSource
<1>1. IInv => OneReaderPerSource
  BY DEF IInv, TypeOK, ReadInside, Inside, OneReaderPerSource, Threads
<1> QED
  BY <1>1, Invariance, PTL

(* The surface is only ever held by a thread of its view that is inside     *)
(* run() and will post the canvas.                                          *)
THEOREM CanvasHeldInside == Spec => []CanvasReturned
  BY Invariance, PTL DEF IInv

(* thread.start() never meets a null or an already started thread.          *)
THEOREM StartIsFresh == Spec => []FreshStart
  BY Invariance, PTL DEF IInv

-----------------------------------------------------------------------------
(* One view, one source at a time.                                          *)
OneAtATime ==
    /\ ~Reload
    /\ ~StopOffMain
    /\ \E v \in Views : Views = {v}

(* The rendering threads that are alive: none but the last one made, none   *)
(* while it is being made, none after the join.                             *)
NoneAlive == \A t \in Threads : ~Alive(t)

Lifetimes ==
    /\ cpc["executor"] = "idle"
    /\ \A t \in Threads : Alive(t) => t = thread
    /\ \A t \in Threads : owner[t] # Null => owner[t] \in built
    /\ cpc["ui"] \in {"init", "start"} => \A v \in Views : mRun[v]
    /\ cpc["ui"] \in {"run", "init", "start",
                      "testIn", "close", "clearIn", "forget"} => NoneAlive
    /\ \A v \in Views : ~mRun[v] =>
            NoneAlive \/ cpc["ui"] \in {"check", "join", "wait"}
    /\ cpc["ui"] \in {"check", "join", "wait", "testIn", "close", "clearIn",
                      "forget"} => \A v \in Views : ~mRun[v]
    /\ cpc["ui"] = "join" => thread # Null
    /\ cpc["ui"] = "wait" => thread # Null /\ joining["ui"] = thread

(* The streams: mIn stays as it is while a thread is alive, and everything  *)
(* that was given to the view is closed or still current.                   *)
Streams ==
    /\ \A v \in Views : mIn[v] \in closed => cpc["ui"] = "clearIn"
    /\ cpc["ui"] \in {"clearIn"} => \A v \in Views : mIn[v] \in closed
    /\ cpc["ui"] = "close" => \A v \in Views : mIn[v] # Null
    /\ cpc["ui"] = "forget" => \A v \in Views : mIn[v] = Null
    /\ \A t \in Threads : tpc[t] = "fetch" => mIn[owner[t]] # Null
    /\ \A t \in Threads : tpc[t] = "reading" <=> reading[t] # Null
    /\ \A t \in Threads : reading[t] # Null => reading[t] = mIn[owner[t]]
    /\ \A s \in Sources : s \in closed => owner[s] # Null
    /\ \A s \in Sources : owner[s] # Null => s \in closed \/ s = mIn[owner[s]]
    /\ cpc["ui"] \in {"run", "init", "start"} => mIn[cview["ui"]] # Null

CInv ==
    /\ IInv
    /\ Lifetimes
    /\ Streams
    /\ NoNullCall


-----------------------------------------------------------------------------
(* Before the view is built no thread lives and no stream is open.          *)
LEMMA InitCInv == Init => CInv
<1> SUFFICES ASSUME Init PROVE CInv
  OBVIOUS
<1>1. IInv
  BY InitIInv
<1> QED
  BY <1>1 DEF Init, CInv, Lifetimes, NoneAlive, Alive, Streams, NoNullCall,
              Threads, Callers

(* Every step keeps CInv: threads live one at a time, and a stop waits for  *)
(* the last one before it closes its stream.                                *)
LEMMA NextCInv == OneAtATime /\ CInv /\ [Next]_vars => CInv'
<1> SUFFICES ASSUME OneAtATime, CInv, [Next]_vars PROVE CInv'
  OBVIOUS
<1>i. IInv'
  BY NextIInv DEF CInv
<1>v. PICK w \in Views : Views = {w}
  BY DEF OneAtATime
<1> DEFINE Goal == Lifetimes /\ Streams /\ NoNullCall
<1> USE DEF CInv, IInv, TypeOK, Owned, ThreadsOwned, SourceTaken,
            StreamsOwned, Lifetimes, NoneAlive, Alive, Streams, NoNullCall,
            Threads, Callers, ThreadStates, CallerStates,
            vars, fields, threads, locks, callers
<1>1. ASSUME NEW v \in Views, Construct(v) PROVE Goal'
  BY <1>v, <1>1 DEF OneAtATime, Construct, NewThread
<1>2. ASSUME NEW v \in Views, NEW s \in Sources, SetSource(v, s) PROVE Goal'
  BY <1>v, <1>2 DEF OneAtATime, SetSource, Enter, Goto
<1>3. ASSUME NEW v \in Views, SurfaceCreated(v) PROVE Goal'
  BY <1>v, <1>3 DEF OneAtATime, SurfaceCreated
<1>4. ASSUME NEW v \in Views, SurfaceChanged(v) PROVE Goal'
  BY <1>v, <1>4 DEF OneAtATime, SurfaceChanged, Enter, Goto
<1>5. ASSUME NEW v \in Views, SurfaceDestroyed(v) PROVE Goal'
  BY <1>v, <1>5 DEF OneAtATime, SurfaceDestroyed, Enter, Goto
<1>6. ASSUME NEW v \in Views, StopPlayback(v) PROVE Goal'
  BY <1>v, <1>6 DEF OneAtATime, StopPlayback, Enter, Goto
<1>7. ASSUME ResumeRun PROVE Goal'
  BY <1>v, <1>7 DEF OneAtATime, ResumeRun, Goto
<1>8. ASSUME ResumeInit PROVE Goal'
  BY <1>v, <1>8 DEF OneAtATime, ResumeInit, Goto, NewThread
<1>9. ASSUME ResumeStart PROVE Goal'
  BY <1>v, <1>9 DEF OneAtATime, ResumeStart, Die, Return, Goto
<1>10. ASSUME SetSurfaceSize PROVE Goal'
  BY <1>v, <1>10 DEF OneAtATime, SetSurfaceSize, Return, Goto
<1>11. ASSUME ForgetThread PROVE Goal'
  BY <1>v, <1>11 DEF OneAtATime, ForgetThread, Return, Goto
<1>12. ASSUME NEW c \in Callers, StopHalt(c) PROVE Goal'
  BY <1>v, <1>12 DEF OneAtATime, StopHalt, Goto
<1>13. ASSUME NEW c \in Callers, StopCheck(c) PROVE Goal'
  BY <1>v, <1>13 DEF OneAtATime, StopCheck, Goto
<1>14. ASSUME NEW c \in Callers, StopJoin(c) PROVE Goal'
  BY <1>v, <1>14 DEF OneAtATime, StopJoin, Die, Goto
<1>15. ASSUME NEW c \in Callers, StopJoined(c) PROVE Goal'
  BY <1>v, <1>15 DEF OneAtATime, StopJoined, Goto
<1>16. ASSUME NEW c \in Callers, StopTestIn(c) PROVE Goal'
  BY <1>v, <1>16 DEF OneAtATime, StopTestIn, AfterStop, Return, Goto
<1>17. ASSUME NEW c \in Callers, StopClose(c) PROVE Goal'
  BY <1>v, <1>17 DEF OneAtATime, StopClose, Die, Goto
<1>18. ASSUME NEW c \in Callers, StopClearIn(c) PROVE Goal'
  BY <1>v, <1>18 DEF OneAtATime, StopClearIn, AfterStop, Return, Goto
<1>19. ASSUME NEW t \in Threads, TestRun(t) PROVE Goal'
  BY <1>v, <1>19 DEF OneAtATime, TestRun, At, Jump
<1>20. ASSUME NEW t \in Threads, TestSurface(t) PROVE Goal'
  BY <1>v, <1>20 DEF OneAtATime, TestSurface, At, Jump
<1>21. ASSUME NEW t \in Threads, LockCanvas(t) PROVE Goal'
  BY <1>v, <1>21 DEF OneAtATime, LockCanvas, At, Jump
<1>22. ASSUME NEW t \in Threads, EnterMonitor(t) PROVE Goal'
  BY <1>v, <1>22 DEF OneAtATime, EnterMonitor, At, Jump
<1>23. ASSUME NEW t \in Threads, TestIn(t) PROVE Goal'
  BY <1>v, <1>23 DEF OneAtATime, TestIn, At, Jump
<1>24. ASSUME NEW t \in Threads, FetchIn(t) PROVE Goal'
  BY <1>v, <1>24 DEF OneAtATime, FetchIn, At, Jump, Die
<1>25. ASSUME NEW t \in Threads, ReadFrame(t) PROVE Goal'
  BY <1>v, <1>25 DEF OneAtATime, ReadFrame, At, Jump
<1>26. ASSUME NEW t \in Threads, RejectFrame(t) PROVE Goal'
  BY <1>v, <1>26 DEF OneAtATime, RejectFrame, At, Die
<1>27. ASSUME NEW t \in Threads, LeaveMonitor(t) PROVE Goal'
  BY <1>v, <1>27 DEF OneAtATime, LeaveMonitor, At, Jump
<1>28. ASSUME NEW t \in Threads, UnlockCanvas(t) PROVE Goal'
  BY <1>v, <1>28 DEF OneAtATime, UnlockCanvas, At, Jump
<1>29. ASSUME UNCHANGED vars PROVE Goal'
  <2>1. Lifetimes'
    BY <1>29
  <2>2. Streams'
    BY <1>29
  <2> QED
    BY <1>29, <2>1, <2>2
<1> HIDE DEF CInv, IInv, Lifetimes, Streams, NoNullCall, TypeOK
<1>g. Goal'
  BY <1>1, <1>2, <1>3, <1>4, <1>5, <1>6, <1>7, <1>8, <1>9, <1>10, <1>11,
     <1>12, <1>13, <1>14, <1>15, <1>16, <1>17, <1>18, <1>19, <1>20, <1>21,
     <1>22, <1>23, <1>24, <1>25, <1>26, <1>27, <1>28, <1>29
     DEF Next, Running, Crashed, Event, UiStep, CallerStep, ThreadStep
<1> QED
  BY <1>i, <1>g DEF CInv

(* The strengthened contract holds in every reachable state of a view that  *)
(* is given one source at a time and stopped on the UI thread.              *)
THEOREM ContractInvariance == ASSUME OneAtATime PROVE Spec => []CInv
  BY InitCInv, NextCInv, PTL DEF Spec

(* One rendering thread at a time.                                          *)
THEOREM OneThreadAtATime == ASSUME OneAtATime PROVE Spec => []OneLiveThread
<1>1. CInv => OneLiveThread
  BY DEF CInv, Lifetimes, OneLiveThread
<1> QED
  BY <1>1, ContractInvariance, PTL

(* Past the join nothing of the view runs any more.                         *)
THEOREM StopIsQuiet == ASSUME OneAtATime PROVE Spec => []StopQuiesces
<1>1. CInv => StopQuiesces
  BY DEF CInv, Lifetimes, NoneAlive, StopQuiesces, Callers
<1> QED
  BY <1>1, ContractInvariance, PTL

(* A stream is closed only when nobody reads it and never read again.       *)
THEOREM ClosedIsUnread == ASSUME OneAtATime PROVE Spec => []NoReadAfterClose
<1>1. CInv => NoReadAfterClose
  BY DEF CInv, IInv, TypeOK, Owned, ThreadsOwned, Lifetimes, NoneAlive, Alive,
         Streams, NoReadAfterClose
<1> QED
  BY <1>1, ContractInvariance, PTL

(* No field is null when it is called through.                              *)
THEOREM CallsAreSafe == ASSUME OneAtATime PROVE Spec => []NoNullCall
  BY ContractInvariance, PTL DEF CInv

(* Every connection is closed by the stop that ends it.                     *)
THEOREM ConnectionsClosed ==
    ASSUME OneAtATime PROVE Spec => []StopClosesConnections
<1>1. CInv => StopClosesConnections
  BY DEF CInv, Streams, StopClosesConnections
<1> QED
  BY <1>1, ContractInvariance, PTL

-----------------------------------------------------------------------------
(* The refinement.                                                          *)
(* A step of the view, seen as one of the abstract playback.                *)
Mapped == Playback!PNext \/ UNCHANGED <<Phase, Current, Showing, closed>>

Somebody == \E t \in Threads : reading[t] # Null


-----------------------------------------------------------------------------
(* All the threads that read, read the current stream.                      *)
LEMMA ShowingCurrent ==
    ASSUME OneAtATime
    PROVE  CInv => /\ TheView \in Views
                   /\ Views = {TheView}
                   /\ Showing = IF Somebody THEN mIn[TheView] ELSE Null
<1> SUFFICES ASSUME CInv
             PROVE  /\ TheView \in Views
                    /\ Views = {TheView}
                    /\ Showing = IF Somebody THEN mIn[TheView] ELSE Null
  OBVIOUS
<1>1. TheView \in Views /\ Views = {TheView}
  BY DEF OneAtATime, TheView
<1>2. CASE Somebody
  <2> DEFINE r == CHOOSE t \in Threads : reading[t] # Null
  <2>1. r \in Threads /\ reading[r] # Null
    BY <1>2 DEF Somebody
  <2>2. owner[r] = TheView
    BY <1>1, <2>1 DEF CInv, IInv, Owned, ThreadsOwned, ReadInside
  <2>3. reading[r] = mIn[TheView]
    BY <2>1, <2>2 DEF CInv, Streams
  <2> QED
    BY <1>1, <1>2, <2>3 DEF Somebody, Showing
<1>3. CASE ~Somebody
  BY <1>1, <1>3 DEF Somebody, Showing
<1> QED
  BY <1>2, <1>3

(* An unbuilt view is a stopped playback.                                   *)
LEMMA InitRefines == OneAtATime /\ Init => Playback!PInit
<1> SUFFICES ASSUME OneAtATime, Init PROVE Playback!PInit
  OBVIOUS
<1>1. CInv
  BY InitCInv
<1>2. TheView \in Views /\ ~Somebody /\ Showing = Null
  BY <1>1, ShowingCurrent DEF Init, Somebody
<1> QED
  BY <1>2 DEF Init, Playback!PInit, Phase, Current, Stopping, Callers

(* Every step is a step of the abstract playback or leaves it as it is.     *)
LEMMA NextRefines ==
    OneAtATime /\ CInv /\ CInv' /\ [Next]_vars
        => [Playback!PNext]_(Playback!pvars)
<1> SUFFICES ASSUME OneAtATime, CInv, CInv', [Next]_vars
             PROVE  [Playback!PNext]_(Playback!pvars)
  OBVIOUS
<1>s. /\ TheView \in Views /\ Views = {TheView}
      /\ Showing = IF Somebody THEN mIn[TheView] ELSE Null
  BY ShowingCurrent
<1>t. (/\ TheView \in Views
       /\ Views = {TheView}
       /\ Showing = IF Somebody THEN mIn[TheView] ELSE Null)'
  BY ShowingCurrent, PTL
<1> USE <1>s, <1>t DEF CInv, IInv, TypeOK, Owned, ThreadsOwned, SourceTaken,
            Lifetimes, NoneAlive, Alive, Streams, FreshStart, NoNullCall,
            Somebody, Phase, Current, Stopping, Mapped, Playback!PNext,
            Threads, Callers, fields, threads, locks, callers
<1>1. ASSUME failure = "none", NEW v \in Views, Construct(v) PROVE Mapped
  BY <1>1 DEF Construct, NewThread
<1>2. ASSUME failure = "none", NEW v \in Views, NEW s \in Sources, SetSource(v, s)
      PROVE Mapped
  <2>1. v = TheView /\ mIn[v] = Null /\ mIn'[v] = s /\ v \in built
    BY <1>2 DEF SetSource, Enter, OneAtATime
  <2>2. ~Somebody /\ ~Somebody'
    BY <1>2, <2>1 DEF SetSource, Enter, OneAtATime, ReadInside
  <2>3. s \notin closed /\ s # Null
    BY <1>2 DEF SetSource
  <2>4. Phase = "stopped" /\ Phase' = "playing"
    BY <1>2, <2>1, <2>3 DEF SetSource, Enter, Goto
  <2>5. Current' = s /\ Showing' = Showing /\ closed' = closed
    BY <1>2, <2>1, <2>2, <2>3 DEF SetSource
  <2> QED
    BY <2>3, <2>4, <2>5 DEF Playback!Play
<1>3. ASSUME failure = "none", NEW v \in Views, SurfaceCreated(v) PROVE Mapped
  BY <1>3 DEF SurfaceCreated
<1>4. ASSUME failure = "none", NEW v \in Views, SurfaceChanged(v) PROVE Mapped
  BY <1>4 DEF SurfaceChanged, Enter, Goto
<1>5. ASSUME failure = "none", NEW v \in Views, SurfaceDestroyed(v)
      PROVE Mapped
  BY <1>5 DEF SurfaceDestroyed, Enter, Goto, Playback!RequestStop
<1>6. ASSUME failure = "none", NEW v \in Views, StopPlayback(v) PROVE Mapped
  BY <1>6 DEF StopPlayback, Enter, Goto
<1>7. ASSUME failure = "none", ResumeRun PROVE Mapped
  BY <1>7 DEF ResumeRun, Goto
<1>8. ASSUME failure = "none", ResumeInit PROVE Mapped
  BY <1>8 DEF ResumeInit, Goto, NewThread
<1>9. ASSUME failure = "none", ResumeStart PROVE Mapped
  BY <1>9 DEF ResumeStart, Die, Return, Goto
<1>10. ASSUME failure = "none", SetSurfaceSize PROVE Mapped
  BY <1>10 DEF SetSurfaceSize, Return, Goto
<1>11. ASSUME failure = "none", ForgetThread PROVE Mapped
  BY <1>11 DEF ForgetThread, Return, Goto, Playback!EndStop
<1>12. ASSUME failure = "none", NEW c \in Callers, StopHalt(c) PROVE Mapped
  BY <1>12 DEF StopHalt, Goto
<1>13. ASSUME failure = "none", NEW c \in Callers, StopCheck(c) PROVE Mapped
  BY <1>13 DEF StopCheck, Goto
<1>14. ASSUME failure = "none", NEW c \in Callers, StopJoin(c) PROVE Mapped
  BY <1>14 DEF StopJoin, Die, Goto
<1>15. ASSUME failure = "none", NEW c \in Callers, StopJoined(c) PROVE Mapped
  BY <1>15 DEF StopJoined, Goto
<1>16. ASSUME failure = "none", NEW c \in Callers, StopTestIn(c) PROVE Mapped
  BY <1>16 DEF StopTestIn, AfterStop, Return, Goto
<1>17. ASSUME failure = "none", NEW c \in Callers, StopClose(c) PROVE Mapped
  BY <1>17 DEF StopClose, Die, Goto, Playback!Close
<1>18. ASSUME failure = "none", NEW c \in Callers, StopClearIn(c) PROVE Mapped
  BY <1>18 DEF StopClearIn, AfterStop, Return, Goto
<1>19. ASSUME failure = "none", NEW t \in Threads, TestRun(t) PROVE Mapped
  BY <1>19 DEF TestRun, At, Jump
<1>20. ASSUME failure = "none", NEW t \in Threads, TestSurface(t) PROVE Mapped
  BY <1>20 DEF TestSurface, At, Jump
<1>21. ASSUME failure = "none", NEW t \in Threads, LockCanvas(t) PROVE Mapped
  BY <1>21 DEF LockCanvas, At, Jump
<1>22. ASSUME failure = "none", NEW t \in Threads, EnterMonitor(t) PROVE Mapped
  BY <1>22 DEF EnterMonitor, At, Jump
<1>23. ASSUME failure = "none", NEW t \in Threads, TestIn(t) PROVE Mapped
  BY <1>23 DEF TestIn, At, Jump
<1>24. ASSUME failure = "none", NEW t \in Threads, FetchIn(t) PROVE Mapped
  BY <1>24 DEF FetchIn, At, Jump, Die, Playback!BeginFrame
<1>25. ASSUME failure = "none", NEW t \in Threads, ReadFrame(t) PROVE Mapped
  BY <1>25 DEF ReadFrame, At, Jump, Playback!EndFrame
<1>26. ASSUME failure = "none", NEW t \in Threads, RejectFrame(t) PROVE Mapped
  BY <1>26 DEF RejectFrame, At, Die, Playback!Crash
<1>27. ASSUME failure = "none", NEW t \in Threads, LeaveMonitor(t) PROVE Mapped
  BY <1>27 DEF LeaveMonitor, At, Jump
<1>28. ASSUME failure = "none", NEW t \in Threads, UnlockCanvas(t) PROVE Mapped
  BY <1>28 DEF UnlockCanvas, At, Jump
<1>29. ASSUME UNCHANGED vars PROVE Mapped
  BY <1>29 DEF vars
<1> HIDE DEF CInv, IInv, TypeOK, Owned, Lifetimes, Streams, Phase, Current,
            Playback!PNext, Mapped, ThreadsOwned, SourceTaken, Somebody,
            NoneAlive, Alive, Stopping
<1>g. Mapped
  BY <1>1, <1>2, <1>3, <1>4, <1>5, <1>6, <1>7, <1>8, <1>9, <1>10, <1>11,
     <1>12, <1>13, <1>14, <1>15, <1>16, <1>17, <1>18, <1>19, <1>20, <1>21,
     <1>22, <1>23, <1>24, <1>25, <1>26, <1>27, <1>28, <1>29
     DEF Next, Running, Crashed, Event, UiStep, CallerStep, ThreadStep, vars
<1> QED
  BY <1>g DEF Mapped, Playback!pvars


(* Behaviours map to behaviours.                                            *)
THEOREM Refinement == ASSUME OneAtATime PROVE Spec => Playback!PSpec
<1>1. Spec => []CInv
  BY ContractInvariance
<1> QED
  BY <1>1, InitRefines, NextRefines, PTL DEF Spec, Playback!PSpec
=============================================================================
