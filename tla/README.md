# Camera client for Android: a TLA+ model

The app (src/app) is a remote control for a camera server: it shows the
camera's liveview, follows its status and changes its settings. This directory
holds TLA+ modules for the parts of it whose correctness depends on order -
threads, callbacks, requests, gestures, suspended calls - and for the codecs
of the libjpeg 8d it carries, with TLC runs and TLAPS proofs.

## 1. The system

| part | state | operations | talks to |
|---|---|---|---|
| `MjpegViewDefault` and its `MjpegViewThread` | static `thread`; `mIn`, `mRun`, `surfaceDone`; the surface lock and the holder's monitor | constructor, `_setSource` (`_resumePlayback`), `_stopPlayback`, surface callbacks; the loop of `run()` | called by the activity on the UI thread and by `LiveviewStopAsyncTask` on the executor; reads a stream |
| `MjpegSurfaceView` | the view it delegates to | forwards the surface callbacks | the view above |
| `Mjpeg` | type of stream | `open`: connect on `Schedulers.io`, deliver on the UI thread, with a timeout | the activity's `loadLiveview` |
| `MjpegInputStreamDefault`/`Native` | buffered bytes, `mContentLength` | find markers, read a frame | the rendering thread |
| `MjpegViewNative`, `ImageProc.c` | as the default view, plus `suspending`; C buffers | the native variant | not selected by the app's layout |
| `FullscreenActivity` | `mCaptureMode`, `mIsRecording`, `mIsInLiveview`, the four settings, `mVisible` | buttons, touches, `onResume`, `updateStatus`, wheel listeners | tasks, websocket, wheels, the view |
| AsyncTasks | the serial executor's queue | one REST call each, then `onPostExecute` on the UI thread | `CameraApi` |
| `CameraApi`, `ApiInvoker` | Volley's request queue, a singleton | `invokeAPI` with 30 s and one retry | the camera server |
| `WheelView`, `WheelScroller` | `currentItem`, `scrollingOffset`, `isScrollingPerformed`; `lastScrollY`, a `Scroller`, a pending message | touch events, animation messages, `setViewAdapter`, `setCurrentItem` | listeners of the activity |
| `WheelRecycle`, `ItemsRange`, layout | item views | which views are kept | `WheelView` |
| libjpeg's decompressor (`jdapimin.c` ... `jdpostct.c`) | `global_state`; the input controller's scan and MCU; row counters of the coefficient, main and post buffers | the API calls of an application, one at a time; a source that may suspend any of them | `ImageProc.c` calls it; entropy decoder, IDCT |
| libjpeg's entropy coders (`jchuff.c`, `jdhuff.c`, `jcarith.c`, `jdarith.c`, `jaricom.c`) | DC predictions, bit buffers, end-of-band runs, statistics bins, restart counters | coefficients to bytes and back | marker reader and writer |
| libjpeg's markers and scans (`jdmarker.c`, `jcmarker.c`, `jcmaster.c`, `jcparam.c`) | tables, current scan, `unread_marker`, pass number | reading, writing, resynchronising, validating a script | data source, entropy coders |
| libjpeg's DCT (`jddctmgr.c`, `jcdctmgr.c`, `jidctint.c`, `jfdctint.c`, `jidctfst.c`, `jfdctfst.c`) | a multiplier table and the method it was built for | choose a kernel, build its table, transform | coefficient controllers |
| the rest of libjpeg, generated model classes, resources, template unit tests | - | - | - |

What is hard. The view's fields are plain Java fields that the UI thread, the
executor and the rendering threads read and write without a common lock. The
session state is written by REST answers, pushed statuses and the app's own
optimistic updates, which interleave. A liveview connection arrives seconds
after it was asked for. A status may replace a wheel's adapter in the middle
of a gesture. A JPEG decoder stops in the middle of a marker, of an MCU or of a
row whenever its source has no more bytes, and begins that part again later,
over what it already stored; its reader must find its place after data was
lost. There is no persistence, so crash recovery is not an issue: an uncaught
exception ends the process, and with it the behaviour.

What makes each part correct: a stream has one reader, a stop is over when
nothing renders any more and its connection is closed, a stop returns; the
activity agrees with the camera when nothing is under way, and receiving a
status never changes the camera; a wheel comes to rest on the item nearest its
centre, and coming to rest does not turn it (with two exceptions, section 3);
what was encoded is decoded, however the
bytes arrive, damage stays inside its restart interval, and rows come out once
and in order; a kernel computes the transform it is named for.

## 2. Modules

**`MjpegViewDefault`** - one action per access to a field another thread may
touch: `_stopPlayback` is `StopHalt` (mRun), `StopCheck` (the null test),
`StopJoin`/`StopJoined`, `StopTestIn`, `StopClose`, `StopClearIn`, and
`ForgetThread` for `_surfaceDestroyed`; `_resumePlayback` is `ResumeRun`,
`ResumeInit`, `ResumeStart`; an iteration of `run()` is `TestRun`,
`TestSurface`, `LockCanvas`, `EnterMonitor`, `TestIn`, `FetchIn`, `ReadFrame`
or `RejectFrame`, `LeaveMonitor`, `UnlockCanvas`. `cpc` and `tpc` are program
counters. A thread is named after the view or the source it was created for.
`Reload` says whether a source may be set while another plays (the app's
refresh button does it) and `StopOffMain` whether the executor may stop (the
photo button does it). The pixels, the fps overlay, sizes and display modes
are left out. `failure` is the uncaught exception that ended the process.

**`LiveviewPlayback`** - what a liveview promises: one stream at a time,
frames of that stream only, a stop that ends the frame, closes once and
returns. **`MjpegViewRefinement`** maps the view to it.

**`FullscreenActivity`** - each UI callback is a step. A task is `StartTask`,
`ServeTask` (the camera acts and answers), `FinishTask` (its `onPostExecute`
is queued for the UI thread), or `FailTask`. Each `onResume` opens a socket;
the camera pushes a status to every open socket when it changes. The camera is
external, and its requests do what their names say. Values are the members of
small lists; a settings request is one field and its value. A status may name a
mode (`OTHER`) that `CaptureMode.fromValue` does not know and answers with null:
`setCaptureMode` then throws in its `switch`, unless the field was null before
(`FromValue`, `SetCaptureMode`).
`activity` follows the window: `Pause`, then `Resume` or `SurfaceDestroyed`,
which stops the view. Of the view the session keeps what decides whether
something plays and whether a stop returns: `playing` (`mIn`), the current
rendering `thread` with its `mRun`, and the thread the executor waits for
(`joined`). `LiveviewStopAsyncTask` is `StopPlayback` (mRun), `JoinThread`,
`JoinReturns` (mIn, and its refresh) before its request, and the UI thread may
do anything in between: a `LiveviewConnected` then sets `mRun` again, so that
the thread waited for, now a `former` one, goes on. History variables:
`missed` notes an `onResume` that found the surface gone and the camera in
liveview without knowing it, `unnamed` a mode without a name.

**`WheelScroll`** - pixels, `doScroll`'s rounding with Java's division, the
`Scroller` (external) with its stale Y, `MESSAGE_SCROLL` and
`MESSAGE_JUSTIFY`, and the gestures DOWN, MOVE, UP, fling and CANCEL, after
which `touch` is `"cancelled"`.
`isScrollingPerformed` stands for the two fields of that name, which always
change together. Animated `setCurrentItem` is not called by the app.
`SetViewAdapter` is the listener code of the activity: a new adapter at any
moment and, if the wheel is not scrolling, `setCurrentItem` of an `indexOf`,
which is -1 for a value the list does not have. Lists without items are left
out.

**`DctFixedPoint`, `InverseDct`, `ForwardDct`** - the integer kernels of all 32
block sizes and the fast 8x8 ones. A routine `jpeg_idct_WxH` is a column pass
of one one-dimensional kernel and a row pass of another, and is written so.
The short cut for columns of zeros computes the same and is not repeated.
**`DctManager`** - `start_pass` of both directions, the tables, quantization;
one component through output passes with changing method. Its quantization table
arrives between two passes or in the middle of one, since a pass that asked for
a later scan consumes the input up to it; `latched` is a history variable that
says whether the table was there when the pass began.

**`FrameLayout`** - the arithmetic of block and MCU grids, as operators.
**`JpegDecoder`** - the API calls are actions that begin a call; the call then
takes a step per unit of input or row (`HeaderStep`, `ConsumeStep`, `FillMain`,
`ReadStep`, ...) until it returns or meets `Suspend`. `ip` holds the counters of
the input side, `op` those of the output side. A sample row is its number and
the scan that last reached it, which is all the properties tell apart. Between
two steps only the source acts: the API has one thread.

**`HuffmanTables`, `HuffmanEncoder`, `HuffmanDecoder`** - code derivation,
sequential and progressive coding in both directions. The
encoder emits tokens, which the statistics pass counts and the output pass
codes, as the two variants of `emit_symbol` do. The decoder works on a copy `w`
of the state that it gives up when the bytes run out. **`ArithmeticTable`,
`ArithmeticEncoder`, `ArithmeticDecoder`** - the same for the arithmetic
coder: the probability table, the adaptive bins, carries through stacked FF
bytes, pending zeros. **`MarkerWriter`, `MarkerReader`** - every marker as
bytes; a reading routine that lacks a byte returns "suspended" and starts over.
**`CompressMaster`** - the passes of a compression.
**`JpegStream`** - composes them: a file is compressed, perhaps damaged, and
arrives in pieces while the input controller alternates between
`consume_markers` and `consume_data`. `EOBMAX` and `CORRMAX` are the encoder's
limits, constants so that small images reach them.

**`OptimalTable`** - `jpeg_gen_optimal_table`: a forest of symbols is merged
until one tree is left, its depths are counted, and codes of more than 16 bits
are shortened in pairs. **`ScanScripts`** - the scripts `jcparam.c` makes, and
`validate_script` and `reduce_script` of `jcmaster.c`; **`ScanProgression`** -
what `start_pass_huff_decoder` checks of a progressive scan and notes of it,
which the decoder above uses too. **`CoderSetup`** - what is settled before a
scan is coded or decoded, one step per set-up: a script is asked for
(`set_scan_info`, `simple_progression`), then checked and reduced
(`settle_script`); a table is made for counts (`make_optimal_table`) or derived
from a file's (`derive_table`). `setup` is what came out, or that it was
refused, with as much of what went in as the properties compare it with. The C
code keeps these results in `cinfo` for the coders; here a set-up is a
behaviour of its own, since any of them may precede any image.

**`RecursiveFunctions`** - recursion and induction over the naturals in terms of
sets, for the proofs.

`MC*` modules give the constants for TLC; `*_proofs` modules hold the proofs,
`OptimalTable_proofs` those about single Huffman tables.

## 3. Runs

| run | what it shows |
|---|---|
| `MjpegApp` | two views, two sources, reloads, stops on both threads: types, one reader per stream, canvases are returned, `start()` never meets a null or started thread |
| `MjpegContract` | one view, three successive sources, stopped on the UI thread: one live thread, a quiet stop, no read after close, no null call, closed connections, and `LiveviewPlayback` with its liveness |
| `MjpegStop` | with reloads and executor stops, the UI thread's stop returns |
| `MjpegJoinNull` | violation: the tested field is null at `join()` |
| `SessionRest` | three user events around one resume, or two around two with their sockets, the surface lost between them or kept: at rest the activity agrees with the camera, and a liveview is shown unless `onResume` missed it |
| `SessionChanges` | the camera changes by itself, also to a mode without a name, lists change, connections fail, a wheel is turned, a liveview started and stopped: types, a known capture mode in liveview, no echo, and every session comes to rest, or waits in the executor's join for a thread that was set running again |
| `WheelGestures` | drags, flings, catches, cancels, adapters replaced at any moment, with and without the status's value: the nearest item, no lost pixel, centring keeps the item but for the two exceptions, and the wheel ends centred |
| `JpegDecoder` | an application that may make any legal call, a source that may stop anywhere: rows once and in order, no row older than the scan asked for, smoothing finds its neighbours, the MCUs cover the image, a decompression that is fed ends |
| `DctKernels` | every kernel against the cosine definition; coefficients survive IDCT, forward DCT and quantization; the multiplier table is the one of the method in use |
| `DctLate` | violation: a component whose multipliers are all zero decodes a block that is not |
| `DctForward` | violation: with 12- and 14-point rows a coefficient does not come back |
| `JpegStream` | 16 clean files and those of six kinds of damage, Huffman and arithmetic: coefficients, tables and saved markers come back, damage costs only its restart intervals, suspension is invisible. Beside an empty file, all set-ups: optimal tables are prefix codes, a decoder finds every code of a table it accepts, scripts the encoder accepts decode without a warning and bring each coefficient to the bit asked for |

Bounds. Two sources and two views suffice for a pair of threads to meet on a
lock, a stream or the static field; three sources let a stop follow two
restarts. Each source is used once, as a connection is. The session counts
user events, resumes and autonomous changes (`MaxEvents`, `MaxResumes`,
`MaxChanges`): three events are enough to start, stop and start the liveview
again; one resume has one socket, two duplicate each status. `SessionRest`
takes three events around one resume or two around two (`RestBudget`).
`SessionChanges` takes one event beside a change of the camera's own, or two
without one, enough to touch and turn a wheel, or to start the liveview and stop
it while a connection is on its way; its camera starts with the first value of
each list (`ChangesBudget`). It bounds no queue, since it asks for liveness; both
drop the states with controls that are about to be hidden, and with photos and
focus points, which write no field. `SessionChanges` has two wheels, one of them the
ISO wheel with its own rule, since what matters is that `updateStatus` assigns
every setting before it moves a wheel. In
the run without changes of the camera's own, the camera is neither in
liveview nor recording when the app starts: the app would not know of the
recording, and would show the liveview only after the next refresh. The
wheel has items of 5 pixels, 10 in view: moves of less than half an item, of
one and a half, and beyond the view. The odd height makes the two halves of
an item differ. `CHECK_DEADLOCK FALSE` in the session's configurations:
a user who does nothing, or has used the budget, is a session that stops; in
libjpeg's, an image that is decoded is the end.

`JpegDecoder` has images of two iMCU rows, the least that has a first,
a last and a neighbour, with one to four rows in a strip, of one and two scans,
whole and cut short; one image, two output passes, three lines at a time.
`FrameLayout` is evaluated on 1152 frames off the grid, of most sampling
factors. The DCT runs decode every single
coefficient of every size, with both signs, and a quantization table that tells
rows from columns; linearity up to rounding is what makes single coefficients
telling. `JpegStream` codes blocks of 2x2, 5x5 and 8x8: 5x5 has runs over 16
zeros, a table with 9- and 16-bit codes reaches the slow path of the decoder,
`EOBMAX = 3` and `CORRMAX = 2` make runs and correction bits overflow in five
blocks. Pieces of one and of two bytes, or the rest, put a suspension at each
byte. The set-ups take all counts of up to three symbols, Fibonacci counts of
16 to 20 symbols, whose codes must be shortened to 16 bits, and one more list of
that kind (`Swapped`, below); 900 tables with codes of 1, 2, 3, 5 and 16 bits,
good and bad, and one with more than 256 codes; all scripts of three
scans over four bands for two components, sequential ones of up to two scans,
and simple progressions of up to five components (more than four have one DC
scan each). A tree deeper than `MAX_CLEN` needs counts whose sum
TLC does not count to: only the proofs see that refusal. TLC's integers are those of
the code, 32 bits, and it stops on an overflow.

Fairness. `MjpegViewDefault`: each caller and each thread is scheduled, and a
lock that stays free is taken; a read ends, which supposes that the camera
sends a frame or closes (no read timeout is set). Nothing forces the user, the
surface or a rejected frame. `FullscreenActivity`: the looper, its timers, the
executor, requests, connection attempts and deliveries make progress, and a
finger leaves the screen; a rendering thread that is to stop does so, which again
supposes that its frame arrives or breaks off; failures, user events and the
loss of the surface are not forced, and a join is not: it returns when its
thread has ended, and a thread that is told to run does not end. `WheelScroll`:
messages are handled and the `Scroller`'s time goes on. `JpegDecoder`: the
application's thread goes on making calls, without preferring any, and the
source delivers all bytes it has.

What the violations say. `MjpegJoinNull`: `if (thread != null)
thread.join()` on the executor races `thread = null` on the UI thread and ends
in a NullPointerException. `DctForward`: in `jpeg_fdct_12x12` and
`jpeg_fdct_14x14` (and the 12x6 and 14x7 ones) one sum of pass 1 is shifted
down by `CONST_BITS` without having been scaled up, and vanishes. `DctKernels`
therefore codes again the blocks of all other sizes. `DctLate`: `start_pass`
leaves the multipliers zero where there is no quantization table yet, for
"we'll be reading zeroes from the coefficient controller's buffer anyway". But
`decompress_data` goes on consuming input until the scan asked for is reached,
and the coefficients of a component whose first scan comes then are no zeros:
the component is grey to the end of that pass, and right from the next on.
`TableMatchesMethod` and `InverseIsDct` state exactly that.

Differences met while modelling that have no run, since the repository
promises nothing they contradict or no property needs them:

- `_setSource` overwrites `mIn`: a reload leaves the first connection open
  after the stop, and the executor's stop may wait for a thread that a
  `setSource` keeps running. Then no task is ever run again; `Settles` names
  the case (`Stuck`).
- `onResume` loads a liveview only if `mIsInLiveview` is already true: where the
  surface was lost before the status that says so had arrived, the camera is in
  liveview and nothing plays until the next refresh. `LiveviewShown` excepts it
  (`missed`).
- `CaptureMode.fromValue` gives null for a mode it does not know. As the first
  status with `isInLiveView` this leaves a liveview without a mode, in which
  the capture button throws; later it throws in `setCaptureMode` itself.
  `CaptureModeKnown` supposes modes with a name, and the run has others beside.
- A wheel turned there and back before the first answer leaves the camera on
  the value between: the listener compares with the last status, not with what
  was posted since.
- `setViewAdapter` zeroes the offset and leaves the animation, whose remaining
  distance is scrolled all the same: an adapter replaced during a bounce turns
  the wheel (`Shifted`). So does a touch that catches an animation before its
  first message: the finished `Scroller` still has the Y of the one before
  (`Stale`). `JustifyKeepsItem` names both, and what alone brings them about.
  A list shorter than the one before, without the status's value, leaves
  `currentItem` beyond its end until the wheel is moved (`NearestItem`). A
  gesture that ends with `ACTION_CANCEL` leaves the wheel scrolling, perhaps off
  centre, until the next touch; `RestIsCentred` and `ScrollEnds` except that
  state (`touch` is `"cancelled"`) and no other.
- Nothing hides controls shown by a touch although `AUTO_HIDE` is set.
- `post_process_2pass` bounds the rows it emits from the start of the strip and
  not from `next_row`: a last strip of three or four rows may put padding after
  the last line. `RowsInOrder` allows for exactly these rows (`PastBottom`).
- `process_restart` of `jdhuff.c` leaves `insufficient_data` as it was when it
  has met a marker. Where the segment before was complete the flag is FALSE, and
  the first MCU of a missing segment is decoded from made-up zero bits, where
  the comment expects an empty segment. `ResyncInPlace` asks nothing of it.
- The arithmetic decoder cannot suspend: a file that comes in pieces ends in
  `JERR_CANT_SUSPEND`, as its comment says. `RoundTrip` and `ResyncInPlace`
  allow that error and no other (`GaveUp`).
- With codes shortened to 16 bits, of two symbols that the tree gave the same
  length the commoner one may get the longer code: the lists of values and of
  lengths are both sorted, but within one length of the tree the values are
  sorted by symbol (counts `Swapped`: 15 gets 16 bits, 14 gets 15). "It's not
  real clear to me why we don't need to consider the codelength changes", says
  `jchuff.c` there; the codes are prefix codes all the same. `TablesAreCodes` allows for exactly this.
- The search for the rarest symbol starts at `v = 1000000000` and so does not
  see symbols that are commoner; they stay out of the tree. Only a scan of about as
  many samples has such counts (`FrequenciesAssumption` excludes it).
- `ImageProc.c` asks for scanlines until the last one has come, from a source
  that has no more: a truncated frame is an endless loop. `Finishes` supposes a
  source that ends with an EOI, as libjpeg's own sources make one up.

## 4. Proofs

`MjpegView_proofs`, for any views and sources and both modes of use:
`TypeOK`, `OneReaderPerSource`, `CanvasReturned` and `FreshStart`. None is
inductive alone. `IInv` adds who owns what: a thread exists exactly when its
view or its source has been used, a stream belongs to the view whose field
holds it, a reader is inside its view's monitor, and between `init` and
`start` the static field holds the new thread.

Under `OneAtATime` (one view, no reload, stops on the UI thread): `OneLiveThread`, `StopQuiesces`, `NoReadAfterClose`, `NoNullCall`,
`StopClosesConnections`. `CInv` adds to `IInv` the lifetimes (a thread lives
only between its start and the join of the stop that follows) and the streams
(only the current source is open). `OneAtATime` is not what the app does:
`MjpegJoinNull` shows what is lost without it.

The refinement, under the same assumption: initial states and steps of the view are initial states and steps, or stutters, of `LiveviewPlayback`.

`FullscreenActivity_proofs`, for any wheels, lists of values and numbers of
events, resumes and changes: `TypeOK`, `CaptureModeKnown`, `NoEcho`,
`SessionAgrees` and `LiveviewShown` (the last two speak, as in their runs, of
a camera that does not change by itself, and the last of connections that do
not fail). `CaptureModeKnown` says nothing once a mode without a name has been
seen; until then no such mode is on its way (`NInv`). `TInv` adds to the types
those of the tasks, messages and sockets.
"At rest the activity agrees" says nothing of the way there; `SInv` does: for
each field, a refresh or a pushed status is still to come, or the answer just
served is, or the last message in the UI queue that writes the field
(`Becomes`), or else the field itself, holds the camera's value. It needs that
the last status on a socket is the camera's present one (`WireEnds`), that
between the answer and `onPostExecute` the camera stays as the task left it
(`ServedAgrees`), and that a running `LiveviewStopAsyncTask` has its refresh
queued behind it (`StopRefreshes`). `Shown` does the same for a liveview:
played, being connected, posted, or about to be answered, or the surface is gone
and the next `onResume` either loads it or misses it.

`WheelScroll_proofs`, for every size, list and gesture: the types with the
offset within the view, and `FollowsFinger`; `RestIsCentred`, whose invariant
`RInv` says that a wheel that does not scroll has neither an offset nor a Y not
yet applied. And, whatever adapters are set under the finger or an
animation: `NearestItem`, which `doScroll`'s rounding brings about anew with
every move from wherever the wheel was (`ScrolledIsNear`), and
`JustifyKeepsItem`, with the invariant that under the finger no message waits
and the `Scroller` stands still (`Held`): centring goes exactly the way back
(`CentredIsNear`) unless the Y or the offset is not the animation's own, which
only a touch or an adapter achieves (`OnlyTouch`, `OnlyAdapter`).

`JpegDecoder_proofs`, for every image geometry, mode, order of calls and
arrival of data: `TypeOK`, `RowsInOrder`, `ShowsRequestedScan` and
`SmoothingSeesNeighbours`. Their inductive invariant `DInv` (TLC found it true
in all states of the run) relates the API's state and the call in progress
(`CallsMatch`); the SOS markers consumed, the scan number and which rows of the
coefficient buffer belong to it (`InputInv`); the lines handed out, the iMCU
row, the row group and what the upsampler or the spare row of the merged one
still holds (`Position`), with the scan each comes from (`Fresh`); and the
strips saved and shown again by two-pass quantization (`Saving`, `Showing`).

Also there: `LayoutCoversImage` for every frame the decoder accepts
(`Accepted`) and every scale. It rests on lemmas about `jdiv_round_up`, on
numbers split by a block, an MCU and an iMCU row (`FrameOnce`: the MCUs and the
grid are in bijection), and on the factors of two that `DCT_scaled_size` finds
(`ScaledSize`, `PlanesReachEnd`). A sampling factor's quotient may have an odd
factor, and then only the upsampler makes up for it.

`DctManager_proofs`, for any of the 32 block sizes, any quantization tables and
levels:
- `TypeOK` (`BlocksAreSamples`): a block is decoded to a full block of samples
  in 0..255. The output pass of every kernel ends in the range limit's mask, so
  what remains to prove is that what it masks is a number: each one-dimensional
  kernel, given numbers in the positions it reads, gives numbers in all the
  positions it promises (`Pass3` to `Pass16`), and the first pass fills the
  columns the second one reads (`Samples_...`, a lemma for each size). That the
  multiplier tables hold numbers is `TableIsInts`.
- `TableMatchesMethod`: `start_pass` builds no table when the method is the one
  it noted, so the invariant `TableInv` says that a noted method always has its
  table (`Noted`), and that during a pass the noted method is the one in use,
  unless the quantization table was not there when it began (`Ready`).

`CoderSetup_proofs`, for any scripts, tables, numbers of components and block
sizes, over the lemmas of `OptimalTable_proofs` and `RecursiveFunctions`:
- `ScriptsDecode`. `validate_script` looks at what each scan follows
  (`last_bitpos`); the decoder has only the bits the scans before it left
  (`BitsAfter`), which are the same numbers (`BitsAreLast`). `reduce_script`
  drops scans and cuts others short, so a scan's place changes: `Reduced` says
  which scan each one left comes from, and `Follows`, what a good progression
  says scan by scan, survives it (`Settled`). That the simple progressions are
  good is a walk through their parts, in each of which every component gains
  the same bits (`CompleteScript`). The invariant `Asked` carries, from the
  request to the check, that a script is a sequence of scans and, if it is a
  simple progression, a complete one.
- `CodesAreFound`. Codes are numbered upwards within a length and doubled from
  one length to the next (`huffcode`); where a length ends below its power of
  two, as `BadTable` demands, the last code of each length stays above what
  longer codes begin with (`CodesBeyond`), so comparing with `maxcode` stops at a
  code's own length (`Found`), and none is all ones (`Room`).
- `TablesAreCodes`, whatever the counts of the symbols. Of the forest, each
  merge keeps three things: every symbol is a leaf of one tree (`Shape`), every
  tree is full, so its depths leave no code unused (`FullTree`, `Trees`), and
  no symbol is deeper than a rarer one (`Above`, `Behind`; the pseudo-symbol
  counts as the rarest). The last one is not inductive as it stands: when the
  two symbols are in different trees, how far the weights of the trees may
  differ depends on the difference of the depths (`Gap`). That the weights never
  pass `MAX_WEIGHT` is that they count the occurrences below a root
  (`Weighed`). The counts of the depths then have a `Profile`: at each level, how many nodes there are and how many
  leaves down to it. `MovePair` keeps a profile (`MovedProfile`), and there is
  always a shorter code to split, since a level with no leaf above it would
  have more nodes than there are symbols (`Shallower`); hence `Limit` ends with
  at most 16 levels (`LimitIs`), and without the last code, the pseudo-symbol's,
  the first codes of all lengths fit (`Fits`). In such a table no code is all
  ones (`EveryCodeFits`) and none is a prefix of another (`NotBefore`). The
  values are a permutation of the symbols (`Ranking`); where nothing was
  shortened each has the length the tree gave it (`OwnLength`).

Assumptions on constants, which TLC evaluates in the runs:
`ConstantsAssumption` of the session (a wheel's lists are not empty, `mode` is
no wheel), `DecoderAssumption` of the decompressor (the geometry follows from
the image's size as `initial_setup` computes it, there is a scan for each SOS,
merged upsampling has at most two rows to a group, raw data are not quantized,
frames are accepted ones), `DctAssumption` of the DCT (the sizes are those
`start_pass` has a kernel for, every other one ends in `JERR_BAD_DCTSIZE`;
quantization values are naturals), `TablesAssumption` (a file gives the number
of codes of each length as a byte), `ScriptsAssumption` (a script is an array of
`jpeg_scan_info`), `ComponentsAssumption` (at most `MAX_COMPONENTS`, or
`jpeg_simple_progression` is refused its component ids),
`FrequenciesAssumption` (at least one symbol and not all bytes, no more symbols
in a scan than `MAX_WEIGHT`), and the ones on sizes of the other modules.

Only model-checked: all liveness (`StopReturns`, `ScrollEnds`, `Settles`,
`Finishes`, the fairness part of the refinement), since fairness and ENABLED
are beyond the prover; `JpegStream`'s `TypeOK`, `RoundTrip`, `ResyncInPlace` and
`SuspensionInvisible`, whose coders are RECURSIVE operators over data;
`InverseIsDct` and `RecodingIsStable`, which compare every kernel with the
cosine definition by evaluation: that a table of constants is near the cosines is a computation and not an argument. Facts
about all naturals that need an induction (`Becomes`, the sums of a layout)
are proved from the least element that fails, which `WellFoundedInduction`
gives without an operator for a parameter.

## 5. Plan

1. Done: the view and its playback refinement; the session; the wheel's scroll;
   libjpeg's DCT, decompressor, entropy coders and markers.
2. `FrameReader`: the marker search and `readMjpegFrame` as operators on
   short byte sequences, compared with a reference definition; then what a
   rejected frame does to the view.
3. `MjpegConnection`: `open` with its timeout, and the late stream.
4. Composition of session and view. The session has its own, coarser view with
   the executor's join in it; that the view's module implements that is left.
5. The context-row main controller; several components in `JpegStream`;
   `transupp.c`'s rotations of coefficients.
6. `WheelLayout`: `getItemsRange`, `rebuildItems`, `WheelRecycle`;
   `RequestQueue`: `ApiInvoker` over Volley, with retried POSTs.
7. Proofs: the safety invariants of the modules of 2 to 6.

Not modelled: pixels, layouts and drawing; the generated model classes; of
libjpeg the colour conversion and quantization, the compressor's rows on their
way to the DCT, the floating-point DCT, transcoding, the memory managers and
the command line tools, which are arithmetic on single samples, allocation or
files; `MjpegViewNative` and `ImageProc.c`, which the app's layout does not
select; the stream readers and the retries of the camera's client (plan, 2 and
6); the Java memory model's weak reads of the plain fields (a field is read as
last written, so delays beyond interleaving are not shown).
