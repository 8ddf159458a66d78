------------------------ MODULE MjpegViewRefinement ------------------------
(***************************************************************************)
(* MjpegViewDefault, used by one activity that gives it one source at a    *)
(* time, implements LiveviewPlayback.                                      *)
(***************************************************************************)
EXTENDS MjpegViewDefault

TheView == CHOOSE v \in Views : TRUE

Stopping == cpc["ui"] \in {"halt", "check", "join", "wait", "testIn", "close",
                           "clearIn", "forget"}

(* The stream stops being current when it is closed, before the field is    *)
(* cleared.                                                                 *)
Current == IF mIn[TheView] \in closed THEN Null ELSE mIn[TheView]

Phase ==
    CASE failure # "none" -> "crashed"
      [] failure = "none" /\ Stopping -> "stopping"
      [] failure = "none" /\ ~Stopping /\ mIn[TheView] # Null -> "playing"
      [] OTHER -> "stopped"

Showing ==
    IF \E t \in Threads : reading[t] # Null
    THEN reading[CHOOSE t \in Threads : reading[t] # Null]
    ELSE Null

Playback == INSTANCE LiveviewPlayback WITH
    Streams <- Sources, None <- Null,
    phase <- Phase, current <- Current, showing <- Showing, finished <- closed

(* Every behaviour of the view's threads and of its caller is a behaviour   *)
(* of the abstract playback: no frame of a closed stream, no close under a  *)
(* frame being read, no crash but for a bad frame, and every stop returns.  *)
ImplementsPlayback == Playback!PFairSpec

=============================================================================
