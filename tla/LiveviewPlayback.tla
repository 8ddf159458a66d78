-------------------------- MODULE LiveviewPlayback --------------------------
(***************************************************************************)
(* What a liveview surface promises to the activity that uses it: it plays *)
(* one stream at a time, shows frames of that stream only, and a stop      *)
(* lets the frame in progress end, closes the stream once, and returns.    *)
(* The one way to lose the process is a frame that cannot be decoded.      *)
(***************************************************************************)
CONSTANTS Streams, None

VARIABLES
    phase,     \* "stopped", "playing", "stopping" or "crashed"
    current,   \* the open stream
    showing,   \* the stream a frame is being read from
    finished   \* the streams that have been closed

pvars == <<phase, current, showing, finished>>

PInit ==
    /\ phase = "stopped"
    /\ current = None
    /\ showing = None
    /\ finished = {}

Play(s) ==
    /\ phase = "stopped"
    /\ s \notin finished
    /\ phase' = "playing"
    /\ current' = s
    /\ UNCHANGED <<showing, finished>>

BeginFrame ==
    /\ phase \in {"playing", "stopping"}
    /\ current # None
    /\ showing = None
    /\ showing' = current
    /\ UNCHANGED <<phase, current, finished>>

EndFrame ==
    /\ phase # "crashed"
    /\ showing # None
    /\ showing' = None
    /\ UNCHANGED <<phase, current, finished>>

RequestStop ==
    /\ phase \in {"stopped", "playing"}
    /\ phase' = "stopping"
    /\ UNCHANGED <<current, showing, finished>>

Close ==
    /\ phase = "stopping"
    /\ current # None
    /\ showing = None
    /\ finished' = finished \cup {current}
    /\ current' = None
    /\ UNCHANGED <<phase, showing>>

EndStop ==
    /\ phase = "stopping"
    /\ current = None
    /\ phase' = "stopped"
    /\ UNCHANGED <<current, showing, finished>>

Crash ==
    /\ phase # "crashed"
    /\ showing # None
    /\ phase' = "crashed"
    /\ UNCHANGED <<current, showing, finished>>

PNext ==
    \/ \E s \in Streams : Play(s)
    \/ BeginFrame
    \/ EndFrame
    \/ RequestStop
    \/ Close
    \/ EndStop
    \/ Crash

PSpec == PInit /\ [][PNext]_pvars

(* A frame ends and a stop that was asked for returns.                      *)
PFairSpec ==
    PSpec /\ WF_pvars(EndFrame) /\ WF_pvars(Close) /\ WF_pvars(EndStop)

=============================================================================
