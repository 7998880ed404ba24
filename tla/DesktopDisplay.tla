--------------------------- MODULE DesktopDisplay ---------------------------
(***************************************************************************)
(* Which display a desktop session shows, steers and describes             *)
(* (src/desktop.rs): the input worker that handles display.select,         *)
(* video.configure and text.focus, the capture thread that looks at the    *)
(* selection and the quality once per frame, and the text focus task.      *)
(* They share two atomics, a mutex and the stop flag, and nothing orders   *)
(* them.                                                                   *)
(*                                                                         *)
(* Every call on a display, the encoder or the channel may fail; an error  *)
(* ends its thread and sets the stop flag, which ends the others.          *)
(***************************************************************************)
EXTENDS ScreenGeometry

CONSTANTS
    Displays,      \* the ids of displays
    Unselected,    \* u32::MAX: whatever display is the primary one
    Sides,         \* how wide and high the picture of a display may be
    Asked,         \* the widths a browser asks for
    MinWidth,      \* those it may ask for (640 .. 1920 in the code)
    MaxWidth,
    DefaultWidth

ASSUME DisplayAssumption ==
    /\ Unselected \notin Displays
    /\ Sides \subseteq Nat \ {0} /\ Asked \subseteq Nat
    /\ MinWidth \in Nat \ {0} /\ MinWidth % 2 = 0 /\ MaxWidth \in Nat
    /\ DefaultWidth \in MinWidth .. MaxWidth /\ DefaultWidth % 2 = 0

VARIABLES
    stop,       \* the stop flag: "clear" or "set"
    primary,    \* the primary display
    selection,  \* the AtomicU32 shared by input and capture
    quality,    \* the VideoConfig shared by input and capture, as its width
    worker,     \* the input worker: "starting", "running", "ended"
    aimed,      \* the display its coordinates refer to (input.x .. height)
    query,      \* focus_busy: the display a query was started for, or Unselected
    phase,      \* where the capture thread is in its loop
    seen,       \* its current selection
    source,     \* the display it captures
    settings,   \* the settings of its encoder
    frame,      \* the size of the picture it is encoding, as a set
    keyframe,   \* a key frame is requested: "no" or "yes"
    forced,     \* the encoder's next frame is a key frame: "no" or "yes"
    owed        \* a receiver waits for a key frame: "no" or "yes"

inputVars   == <<worker, aimed, query>>
captureVars == <<phase, seen, source, settings, frame>>
frameVars   == <<keyframe, forced, owed>>
vars == <<stop, primary, selection, quality, inputVars, captureVars, frameVars>>

\* --monitor-id is a display or is left out.
Init ==
    /\ stop = "clear"
    /\ primary \in Displays
    /\ selection \in Displays \cup {Unselected}
    /\ quality = DefaultWidth /\ settings = DefaultWidth
    /\ worker = "starting" /\ aimed = Unselected
    /\ query = Unselected
    /\ phase = "starting" /\ seen = Unselected /\ source = Unselected
    /\ frame = {}
    /\ keyframe = "yes" /\ forced = "no" /\ owed = "yes"

\* Mutant: the id of no display is kept for the primary one.
KeepsId(d) == d

\* select_monitor
Resolve(d) == IF d = Unselected THEN primary ELSE d

PrimaryMoves ==
    /\ primary' \in Displays
    /\ UNCHANGED <<stop, selection, quality, inputVars, captureVars, frameVars>>

\* The peer is closed, or a queue or another task of the session failed.
SessionStops ==
    /\ stop' = "set"
    /\ UNCHANGED <<primary, selection, quality, inputVars, captureVars, frameVars>>
-----------------------------------------------------------------------------
(* The input worker.                                                       *)

WorkerLeaves == worker' = "ended" /\ stop' = "set"

InputStarts ==
    /\ worker = "starting"
    /\ \/ worker' = "running" /\ aimed' = Resolve(selection) /\ UNCHANGED stop
       \/ WorkerLeaves /\ UNCHANGED aimed
    /\ UNCHANGED <<primary, selection, quality, query, captureVars, frameVars>>

Commanded == worker = "running" /\ stop = "clear"

\* Mutant: the coordinates stay those of the previous display.
SelectsCaptureOnly(d) == selection' = d /\ UNCHANGED aimed

Selects(d) == aimed' = d /\ selection' = d

\* The display must exist and its geometry be read; the reply may still fail.
HandleSelect ==
    /\ Commanded
    /\ \E d \in Displays \cup {Unselected} :
          \/ Selects(Resolve(d)) /\ (UNCHANGED <<worker, stop>> \/ WorkerLeaves)
          \/ WorkerLeaves /\ UNCHANGED <<aimed, selection>>
    /\ UNCHANGED <<primary, quality, query, captureVars, frameVars>>

\* VideoSettings::validated: a rate or a bit rate out of its range is refused
\* as a width is.
Validated == {Even(w) : w \in Asked \cap MinWidth .. MaxWidth}

\* What is not valid is ignored.
HandleConfigure ==
    /\ Commanded
    /\ quality' \in Validated
    /\ UNCHANGED <<worker, stop>> \/ WorkerLeaves
    /\ UNCHANGED <<primary, selection, aimed, query, captureVars, frameVars>>

\* text.focus and text.regions: one query at a time, with the coordinates of now.
HandleFocus ==
    /\ Commanded
    /\ query = Unselected
    /\ query' = aimed
    /\ UNCHANGED <<stop, primary, selection, quality, worker, aimed, captureVars, frameVars>>

\* The helper took its time; what it found is normalized to the display of
\* the query.  A session that stopped gets no reply.
FocusReplies ==
    /\ query # Unselected
    /\ query' = Unselected
    /\ UNCHANGED <<stop, primary, selection, quality, worker, aimed, captureVars, frameVars>>

WorkerStops ==
    /\ worker = "running" /\ stop = "set"
    /\ worker' = "ended"
    /\ UNCHANGED <<stop, primary, selection, quality, aimed, query, captureVars, frameVars>>
-----------------------------------------------------------------------------
(* The capture thread.                                                     *)

CaptureLeaves == phase' = "ended" /\ stop' = "set"

CaptureFails ==
    /\ phase \notin {"top", "ended"}
    /\ CaptureLeaves
    /\ frame' = {}
    /\ UNCHANGED <<primary, selection, quality, inputVars, seen, source, settings, frameVars>>

CaptureStarts ==
    /\ phase = "starting"
    /\ phase' = "top"
    /\ seen' = selection /\ source' = Resolve(selection)
    /\ settings' = quality
    /\ UNCHANGED <<stop, primary, selection, quality, inputVars, frame, frameVars>>

\* New settings replace the encoder and ask for a key frame.
FollowsQuality ==
    IF quality # settings
    THEN settings' = quality /\ keyframe' = "yes"
    ELSE UNCHANGED <<settings, keyframe>>

ReadQuality ==
    /\ phase = "top"
    /\ IF stop = "set"
       THEN phase' = "ended" /\ UNCHANGED <<settings, keyframe>>
       ELSE phase' = "select" /\ FollowsQuality
    /\ UNCHANGED <<stop, primary, selection, quality, inputVars, seen, source, frame, forced, owed>>

\* Mutant: the display of the previous selection is opened before the new
\* selection is remembered.
OpensThenReads ==
    IF selection # seen
    THEN source' = Resolve(seen) /\ seen' = selection
    ELSE UNCHANGED <<seen, source>>

FollowsSelection ==
    IF selection # seen
    THEN seen' = selection /\ source' = Resolve(selection)
    ELSE UNCHANGED <<seen, source>>

ReadSelection ==
    /\ phase = "select"
    /\ phase' = "grab"
    /\ FollowsSelection
    /\ UNCHANGED <<stop, primary, selection, quality, inputVars, settings, frame, frameVars>>

\* A key frame is forced for a request, or because two seconds are over.
Takes ==
    /\ forced' \in {"yes", IF keyframe = "yes" THEN "yes" ELSE forced}
    /\ keyframe' = "no"

\* The display's picture is captured and scaled; it may have changed its size.
Scales ==
    \E w, h \in Sides :
        \E size \in Scaled([width |-> w, height |-> h], settings) : frame' = {size}

\* Then the request is taken.
TakeRequest ==
    /\ phase = "grab"
    /\ phase' = "encode"
    /\ Scales
    /\ Takes
    /\ UNCHANGED <<stop, primary, selection, quality, inputVars, seen, source, settings, owed>>

\* The encoder may skip a frame to keep its bit rate.
SkipFrame ==
    /\ phase = "encode"
    /\ phase' = "top" /\ frame' = {}
    /\ UNCHANGED <<stop, primary, selection, quality, inputVars, seen, source, settings, frameVars>>

\* Mutant: the request is cleared when the frame has gone out.
ServesAndClears == forced' = "no" /\ keyframe' = "no"

Serves == forced' = "no" /\ UNCHANGED keyframe

\* A key frame answers the requests taken before it was encoded.
SendFrame ==
    /\ phase = "encode"
    /\ phase' = "top" /\ frame' = {}
    /\ Serves
    /\ owed' = IF forced = "yes" THEN keyframe ELSE owed
    /\ UNCHANGED <<stop, primary, selection, quality, inputVars, seen, source, settings>>

\* The receiver lost a frame and asks for a key frame (RTCP).
PictureLost ==
    /\ keyframe' = "yes" /\ owed' = "yes"
    /\ UNCHANGED <<stop, primary, selection, quality, inputVars, captureVars, forced>>
-----------------------------------------------------------------------------
Input   == InputStarts \/ HandleSelect \/ HandleConfigure \/ HandleFocus \/ WorkerStops
Capture == CaptureStarts \/ ReadQuality \/ ReadSelection \/ TakeRequest \/ SkipFrame \/ SendFrame

Next == Input \/ Capture \/ CaptureFails \/ FocusReplies \/ PictureLost \/ PrimaryMoves \/ SessionStops

Spec == Init /\ [][Next]_vars

\* The capture thread runs; the encoder does not skip every frame.
FairSpec == Spec /\ WF_vars(Capture) /\ SF_vars(SendFrame)
-----------------------------------------------------------------------------
TypeOK ==
    /\ stop \in {"clear", "set"}
    /\ primary \in Displays
    /\ selection \in Displays \cup {Unselected} /\ seen \in Displays \cup {Unselected}
    /\ aimed \in Displays \cup {Unselected} /\ source \in Displays \cup {Unselected}
    /\ worker = "running" => aimed \in Displays
    /\ phase \notin {"starting", "ended"} => source \in Displays
    /\ query \in Displays \cup {Unselected}
    /\ quality \in MinWidth .. MaxWidth /\ settings \in MinWidth .. MaxWidth
    /\ worker \in {"starting", "running", "ended"}
    /\ phase \in {"starting", "top", "select", "grab", "encode", "ended"}
    /\ keyframe \in {"no", "yes"} /\ forced \in {"no", "yes"} /\ owed \in {"no", "yes"}

\* docs/remote-capabilities.md, Displays: the panel "switches capture and input
\* together".  Once a display is selected, input is aimed at it, and capture,
\* as soon as it has seen the selection, shows it.
SwitchedTogether ==
    /\ worker = "running" /\ selection # Unselected => aimed = selection
    /\ seen # Unselected => source = seen

\* No request for a key frame is lost between the receiver's report and the
\* frame that answers it, whichever step of the loop it arrives at.
RequestKept == owed = "yes" => keyframe = "yes" \/ forced = "yes"

\* What is encoded has sides the encoder accepts, even and never empty, however
\* flat the display, odd the setting or unlucky the rounding, and it is no wider
\* than the setting the encoder was made for, though a new one may be waiting.
EncodableFrame ==
    \A size \in frame :
        /\ size.width % 2 = 0 /\ size.height % 2 = 0
        /\ size.width \in 2 .. settings /\ size.height \in Nat \ {0, 1}

\* Capture comes to show the selected display, and the encoder gets the
\* settings that video.applied has confirmed, unless others are chosen or the
\* session stops.
CaptureFollows ==
    /\ \A d \in Displays : selection = d ~> source = d \/ selection # d \/ stop = "set"
    /\ \A q \in Validated : quality = q ~> settings = q \/ quality # q \/ stop = "set"

\* A receiver that asks for a key frame gets one: its request reaches the
\* encoder, and the frame the encoder was told to make goes out.
KeyframeAnswered ==
    /\ owed = "yes" ~> forced = "yes" \/ stop = "set"
    /\ forced = "yes" ~> forced = "no" \/ stop = "set"

\* The capture thread serves the browser: what it selects, sets and asks for.
CaptureServes == CaptureFollows /\ KeyframeAnswered
=============================================================================
