------------------------ MODULE DesktopDisplayProofs ------------------------
(***************************************************************************)
(* Input and capture of a desktop session agree on the display, no request *)
(* for a key frame is lost and every frame can be encoded, for any         *)
(* displays and settings; and what the arithmetic of ScreenGeometry        *)
(* computes, for any sizes.                                                *)
(***************************************************************************)
EXTENDS DesktopDisplay, TLAPS

\* Every step of the input worker leaves its coordinates and the selection
\* agreed.
LEMMA InputKeepsTogether ==
    ASSUME SwitchedTogether, Input
    PROVE  SwitchedTogether'
<1>1. CASE InputStarts
  BY <1>1 DEF InputStarts, WorkerLeaves, Resolve, captureVars, SwitchedTogether
<1>2. CASE HandleSelect
  <2>1. (aimed' = selection' \/ UNCHANGED <<aimed, selection>>) /\ UNCHANGED <<seen, source>>
    BY <1>2 DEF HandleSelect, Selects, captureVars
  <2>2. worker = "running" BY <1>2 DEF HandleSelect, Commanded
  <2> QED BY <2>1, <2>2 DEF SwitchedTogether
<1>3. CASE HandleConfigure \/ HandleFocus \/ WorkerStops
  <2>1. worker' = worker \/ worker' = "ended"
    BY <1>3 DEF HandleConfigure, HandleFocus, WorkerStops, WorkerLeaves
  <2>2. UNCHANGED <<aimed, selection, seen, source>>
    BY <1>3 DEF HandleConfigure, HandleFocus, WorkerStops, captureVars
  <2> QED BY <2>1, <2>2 DEF SwitchedTogether
<1> QED BY <1>1, <1>2, <1>3 DEF Input

\* Every step of the capture thread leaves its source and what it saw agreed.
LEMMA CaptureKeepsTogether ==
    ASSUME SwitchedTogether, Capture \/ CaptureFails
    PROVE  SwitchedTogether'
<1>1. UNCHANGED <<worker, aimed, selection>>
  BY DEF Capture, CaptureFails, CaptureStarts, ReadQuality, ReadSelection, TakeRequest,
         SkipFrame, SendFrame, inputVars
<1>2. \/ UNCHANGED <<seen, source>>
      \/ seen' = selection /\ source' = Resolve(selection)
  BY DEF Capture, CaptureFails, CaptureStarts, ReadQuality, ReadSelection, TakeRequest,
         SkipFrame, SendFrame, FollowsSelection, captureVars
<1>3. seen' # Unselected => source' = seen'
  BY <1>2 DEF Resolve, SwitchedTogether
<1> QED BY <1>1, <1>3 DEF SwitchedTogether

\* Input is aimed at the selected display, and capture shows the one it last
\* saw selected (docs/remote-capabilities.md, Displays).
THEOREM InputAndCaptureAgree == Spec => []SwitchedTogether
<1>1. Init => SwitchedTogether
  BY DEF Init, SwitchedTogether
<1>2. SwitchedTogether /\ [Next]_vars => SwitchedTogether'
  <2> SUFFICES ASSUME SwitchedTogether, [Next]_vars PROVE SwitchedTogether'
    OBVIOUS
  <2>1. CASE Input BY <2>1, InputKeepsTogether
  <2>2. CASE Capture \/ CaptureFails BY <2>2, CaptureKeepsTogether
  <2>3. CASE FocusReplies \/ PictureLost \/ PrimaryMoves \/ SessionStops \/ UNCHANGED vars
    <3>1. UNCHANGED <<worker, aimed, selection, seen, source>>
      BY <2>3 DEF FocusReplies, PictureLost, PrimaryMoves, SessionStops, vars, inputVars, captureVars
    <3> QED BY <3>1 DEF SwitchedTogether
  <2> QED BY <2>1, <2>2, <2>3 DEF Next
<1> QED BY <1>1, <1>2, PTL DEF Spec

\* No step loses a request: the loop takes it before it encodes, and a frame
\* answers only what was taken.
THEOREM NoRequestLost == Spec => []RequestKept
<1>1. Init => RequestKept
  BY DEF Init, RequestKept
<1>2. RequestKept /\ [Next]_vars => RequestKept'
  <2> SUFFICES ASSUME RequestKept, [Next]_vars PROVE RequestKept'
    OBVIOUS
  <2>1. CASE TakeRequest BY <2>1 DEF TakeRequest, Takes, RequestKept
  <2>2. CASE SendFrame BY <2>2 DEF SendFrame, Serves, RequestKept
  <2>3. CASE ReadQuality BY <2>3 DEF ReadQuality, FollowsQuality, RequestKept
  <2>4. CASE PictureLost BY <2>4 DEF PictureLost, RequestKept
  <2>5. CASE CaptureStarts \/ ReadSelection \/ SkipFrame \/ CaptureFails
    BY <2>5 DEF CaptureStarts, ReadSelection, SkipFrame, CaptureFails, frameVars, RequestKept
  <2>6. CASE Input \/ FocusReplies \/ PrimaryMoves \/ SessionStops \/ UNCHANGED vars
    <3>1. UNCHANGED frameVars
      BY <2>6 DEF Input, InputStarts, HandleSelect, HandleConfigure, HandleFocus, WorkerStops,
                  FocusReplies, PrimaryMoves, SessionStops, vars
    <3> QED BY <3>1 DEF frameVars, RequestKept
  <2> QED BY <2>1, <2>2, <2>3, <2>4, <2>5, <2>6 DEF Next, Capture
<1> QED BY <1>1, <1>2, PTL DEF Spec
-----------------------------------------------------------------------------
(* The size of a frame.                                                    *)

\* Rounding down to an even number.
LEMMA EvenBelow ==
    ASSUME NEW n \in Nat
    PROVE  Even(n) \in Nat /\ Even(n) <= n /\ Even(n) % 2 = 0
BY DEF Even

\* A side is scaled to a natural number; the width, to the limit at most.
LEMMA ShrunkWithin ==
    ASSUME NEW side \in Nat \ {0}, NEW width \in Nat \ {0}, NEW limit \in Nat \ {0},
           NEW s \in Shrunk(side, width, limit)
    PROVE  s \in Nat /\ (side = width => s <= limit)
<1>1. CASE limit >= width BY <1>1 DEF Shrunk
<1>2. CASE ~(limit >= width)
  <2> DEFINE n == side * limit
  <2>1. n \in Nat /\ n > 0 OBVIOUS
  <2>2. s = n \div width \/ (n % width = 0 /\ s = n \div width - 1)
    BY <1>2 DEF Shrunk
  <2>3. n \div width \in Nat /\ n = (n \div width) * width + (n % width)
    <3> HIDE DEF n
    <3> QED BY <2>1
  <2>4. n % width = 0 => n \div width # 0
    <3> HIDE DEF n
    <3> QED BY <2>1, <2>3
  <2>5. side = width => n \div width = limit
    OBVIOUS
  <2> QED BY <2>2, <2>3, <2>4, <2>5
<1> QED BY <1>1, <1>2

\* A scaled picture can be encoded: its sides are even and at least two, and it
\* is no wider than the setting.
THEOREM ScaledCanBeEncoded ==
    ASSUME NEW w \in Nat \ {0}, NEW h \in Nat \ {0},
           NEW limit \in Nat, limit >= 2,
           NEW size \in Scaled([width |-> w, height |-> h], limit)
    PROVE  /\ size.width % 2 = 0 /\ size.height % 2 = 0
           /\ size.width \in 2 .. limit /\ size.height \in Nat \ {0, 1}
<1>1. PICK sw \in Shrunk(w, w, limit), sh \in Shrunk(h, w, limit) :
          size = [width |-> Larger(2, Even(sw)), height |-> Larger(2, Even(sh))]
  BY DEF Scaled
<1>2. sw \in Nat /\ sh \in Nat /\ sw <= limit BY <1>1, ShrunkWithin
<1>3. /\ Even(sw) \in Nat /\ Even(sw) <= limit /\ Even(sw) % 2 = 0
      /\ Even(sh) \in Nat /\ Even(sh) % 2 = 0
  BY <1>2, EvenBelow
<1> QED BY <1>1, <1>3 DEF Larger

\* The sizes of an encoder's settings and of the frame it is given.
SizeInv ==
    /\ quality \in MinWidth .. MaxWidth /\ settings \in MinWidth .. MaxWidth
    /\ EncodableFrame
    /\ phase # "encode" => frame = {}

\* Valid settings are even widths in the range.
LEMMA ValidatedInRange == Validated \subseteq MinWidth .. MaxWidth
<1> SUFFICES ASSUME NEW w \in Asked \cap MinWidth .. MaxWidth
             PROVE  Even(w) \in MinWidth .. MaxWidth
  BY DEF Validated
<1> QED BY DisplayAssumption DEF Even

\* Whatever sizes displays have and settings are asked for, the encoder gets
\* frames it can encode.
THEOREM FramesCanBeEncoded == Spec => []EncodableFrame
<1> USE DisplayAssumption
<1>1. Init => SizeInv
  BY DEF Init, SizeInv, EncodableFrame
<1>2. SizeInv /\ [Next]_vars => SizeInv'
  <2> SUFFICES ASSUME SizeInv, [Next]_vars PROVE SizeInv'
    OBVIOUS
  <2>1. CASE TakeRequest
    <3>1. UNCHANGED <<quality, settings>> /\ phase' = "encode" /\ Scales
      BY <2>1 DEF TakeRequest
    <3>2. PICK w \in Sides, h \in Sides :
              \E size \in Scaled([width |-> w, height |-> h], settings) : frame' = {size}
      BY <3>1 DEF Scales
    <3>3. w \in Nat \ {0} /\ h \in Nat \ {0} /\ settings \in Nat /\ settings >= 2
      BY DEF SizeInv
    <3>4. EncodableFrame'
      BY <3>1, <3>2, <3>3, ScaledCanBeEncoded DEF EncodableFrame
    <3> QED BY <3>1, <3>4 DEF SizeInv
  <2>2. CASE SkipFrame \/ SendFrame \/ CaptureFails
    BY <2>2 DEF SkipFrame, SendFrame, CaptureFails, CaptureLeaves, SizeInv, EncodableFrame
  <2>3. CASE CaptureStarts \/ ReadQuality
    <3>1. frame' = frame /\ quality' = quality /\ settings' \in {quality, settings}
          /\ phase' # "encode" /\ phase # "encode"
      BY <2>3 DEF CaptureStarts, ReadQuality, FollowsQuality
    <3>2. frame' = {} /\ settings' \in MinWidth .. MaxWidth BY <3>1 DEF SizeInv
    <3> QED BY <3>1, <3>2 DEF SizeInv, EncodableFrame
  <2>4. CASE ReadSelection \/ InputStarts \/ HandleSelect \/ HandleFocus \/ WorkerStops \/ FocusReplies
             \/ PictureLost \/ PrimaryMoves \/ SessionStops \/ UNCHANGED vars
    <3>1. UNCHANGED <<quality, settings, frame>> /\ (phase' = "encode" <=> phase = "encode")
      BY <2>4 DEF ReadSelection, InputStarts, HandleSelect, HandleFocus, WorkerStops, FocusReplies,
                  PictureLost, PrimaryMoves, SessionStops, vars, captureVars
    <3> QED BY <3>1 DEF SizeInv, EncodableFrame
  <2>5. CASE HandleConfigure
    <3>1. quality' \in Validated /\ UNCHANGED <<phase, settings, frame>>
      BY <2>5 DEF HandleConfigure, captureVars
    <3>2. quality' \in MinWidth .. MaxWidth BY <3>1, ValidatedInRange
    <3> QED BY <3>1, <3>2 DEF SizeInv, EncodableFrame
  <2> QED BY <2>1, <2>2, <2>3, <2>4, <2>5 DEF Next, Input, Capture
<1>3. SizeInv => EncodableFrame
  BY DEF SizeInv
<1> QED BY <1>1, <1>2, <1>3, PTL DEF Spec

\* The primary display stands in for a selection that names none.
LEMMA ResolveIsDisplay ==
    ASSUME TypeOK, NEW d \in Displays \cup {Unselected}
    PROVE  Resolve(d) \in Displays
BY DEF TypeOK, Resolve

\* Every reachable state is well typed; above all, a running worker and a
\* capturing thread have a display.
THEOREM TypeCorrect == Spec => []TypeOK
<1> USE DisplayAssumption
<1>1. Init => TypeOK
  BY DEF Init, TypeOK
<1>2. TypeOK /\ [Next]_vars => TypeOK'
  <2> SUFFICES ASSUME TypeOK, [Next]_vars PROVE TypeOK'
    OBVIOUS
  <2>1. CASE InputStarts
    BY <2>1, ResolveIsDisplay DEF InputStarts, WorkerLeaves, TypeOK, captureVars, frameVars
  <2>2. CASE HandleSelect
    BY <2>2, ResolveIsDisplay
    DEF HandleSelect, Selects, WorkerLeaves, TypeOK, captureVars, frameVars
  <2>3. CASE HandleConfigure
    BY <2>3, ValidatedInRange DEF HandleConfigure, WorkerLeaves, TypeOK, captureVars, frameVars
  <2>4. CASE HandleFocus \/ WorkerStops \/ FocusReplies \/ PictureLost \/ PrimaryMoves \/ SessionStops
    BY <2>4 DEF HandleFocus, WorkerStops, FocusReplies, PictureLost, PrimaryMoves, SessionStops,
                TypeOK, inputVars, captureVars, frameVars
  <2>5. CASE CaptureStarts
    BY <2>5, ResolveIsDisplay DEF CaptureStarts, TypeOK, inputVars, frameVars
  <2>6. CASE ReadQuality
    BY <2>6 DEF ReadQuality, FollowsQuality, TypeOK, inputVars
  <2>7. CASE ReadSelection
    BY <2>7, ResolveIsDisplay DEF ReadSelection, FollowsSelection, TypeOK, inputVars, frameVars
  <2>8. CASE TakeRequest
    BY <2>8 DEF TakeRequest, Takes, TypeOK, inputVars
  <2>9. CASE SkipFrame \/ SendFrame \/ CaptureFails
    BY <2>9 DEF SkipFrame, SendFrame, Serves, CaptureFails, CaptureLeaves, TypeOK, inputVars, frameVars
  <2>10. CASE UNCHANGED vars
    BY <2>10 DEF vars, TypeOK, inputVars, captureVars, frameVars
  <2> QED BY <2>1, <2>2, <2>3, <2>4, <2>5, <2>6, <2>7, <2>8, <2>9, <2>10 DEF Next, Input, Capture
<1> QED BY <1>1, <1>2, PTL DEF Spec
-----------------------------------------------------------------------------
(* Scaling, the pointer and text fields.                                   *)

\* The samples of a scaled picture lie in it, the left one without its clamp.
THEOREM SamplesInside ==
    ASSUME NEW old \in Nat \ {0}, NEW new \in Nat \ {0}, NEW i \in 0 .. new - 1
    PROVE  /\ Left(old, new, i) = Position(old, new, i) \div 256
           /\ Left(old, new, i) \in 0 .. old - 1
           /\ Right(old, new, i) \in Left(old, new, i) .. old - 1
           /\ Fraction(old, new, i) \in 0 .. 255
<1> DEFINE n == (2 * i + 1) * old * 128
           p == Position(old, new, i)
<1>1. n \in Nat OBVIOUS
<1>2. n < (256 * old) * new
  <2>1. 2 * i + 1 <= 2 * new - 1 OBVIOUS
  <2>2. (2 * i + 1) * (old * 128) <= (2 * new - 1) * (old * 128) BY <2>1
  <2>3. n = (2 * i + 1) * (old * 128) OBVIOUS
  <2> QED BY <2>2, <2>3
<1>3. n \div new \in Nat /\ n \div new <= 256 * old
  <2> HIDE DEF n
  <2>1. n \div new \in Nat /\ (n \div new) * new <= n BY <1>1
  <2>2. ASSUME n \div new > 256 * old PROVE FALSE
    <3>1. (n \div new) * new >= (256 * old) * new BY <2>1, <2>2
    <3> QED BY <3>1, <2>1, <1>1, <1>2
  <2> QED BY <2>1, <2>2
<1>4. p \in 0 .. 256 * old - 128
  BY <1>1, <1>3 DEF Position, Larger
<1>5. p \div 256 \in 0 .. old - 1 /\ p % 256 \in 0 .. 255
  <2> HIDE DEF p
  <2> QED BY <1>4
<1> QED BY <1>5 DEF Left, Right, Fraction, Smaller

\* An average of two values, weighted in 256 parts, lies between them.
LEMMA Mix ==
    ASSUME NEW lo \in Int, NEW hi \in Int, NEW p \in lo .. hi, NEW q \in lo .. hi,
           NEW f \in 0 .. 255
    PROVE  p * (256 - f) + q * f \in 256 * lo .. 256 * hi
<1>1. lo * (256 - f) <= p * (256 - f) /\ p * (256 - f) <= hi * (256 - f) OBVIOUS
<1>2. lo * f <= q * f /\ q * f <= hi * f OBVIOUS
<1>3. lo * (256 - f) + lo * f = 256 * lo /\ hi * (256 - f) + hi * f = 256 * hi OBVIOUS
<1> QED BY <1>1, <1>2, <1>3

\* A scaled pixel lies between its four neighbours: rounding neither overflows
\* a byte nor changes a picture of one colour.
THEOREM BlendBetween ==
    ASSUME NEW lo \in Int, NEW hi \in Int,
           NEW a \in lo .. hi, NEW b \in lo .. hi, NEW c \in lo .. hi, NEW d \in lo .. hi,
           NEW fx \in 0 .. 255, NEW fy \in 0 .. 255
    PROVE  Blend(a, b, c, d, fx, fy) \in lo .. hi
<1> DEFINE u == a * (256 - fx) + b * fx
           v == c * (256 - fx) + d * fx
           s == u * (256 - fy) + v * fy
<1>1. u \in 256 * lo .. 256 * hi /\ v \in 256 * lo .. 256 * hi BY Mix
<1>2. s \in 256 * (256 * lo) .. 256 * (256 * hi)
  <2> HIDE DEF u, v
  <2> QED BY <1>1, Mix
<1>3. Blend(a, b, c, d, fx, fy) = (s + 32768) \div 65536 BY DEF Blend
<1> HIDE DEF s
<1> QED BY <1>2, <1>3

\* The pointer stays on the screen it is aimed at, whatever the browser sends.
THEOREM PointerOnScreen ==
    ASSUME NEW start \in Int, NEW length \in Nat \ {0}, NEW n \in Int, NEW d \in Nat \ {0}
    PROVE  PointerAt(start, length, n, d) \in start .. start + length - 1
<1> DEFINE part == Larger(0, Smaller(n, d))
           m    == part * (length - 1)
<1>1. part \in 0 .. d BY DEF Larger, Smaller
<1>2. m \in Nat /\ m <= d * (length - 1)
  <2> HIDE DEF part
  <2> QED BY <1>1
<1>3. m \div d \in 0 .. length - 1
  <2> HIDE DEF m
  <2>1. m \div d \in Nat /\ (m \div d) * d <= m BY <1>2
  <2>2. ASSUME m \div d > length - 1 PROVE FALSE
    <3>1. (m \div d) * d >= length * d BY <2>1, <2>2
    <3> QED BY <3>1, <2>1, <1>2
  <2> QED BY <2>1, <2>2
<1>4. PointerAt(start, length, n, d) = start + m \div d
  BY DEF PointerAt, Larger
<1> HIDE DEF m
<1> QED BY <1>3, <1>4

\* The rectangle a pixel lies in.
Covers(r, x, y) == x \in r.x .. r.x + r.width - 1 /\ y \in r.y .. r.y + r.height - 1

Rectangle == [x : Int, y : Int, width : Nat, height : Nat]

\* docs/text-focus.md: bounds "normalized to the selected screen": a reported
\* rectangle covers exactly the pixels of the field that are on the screen, and
\* nothing is reported of a field that has none there.
THEOREM FieldOnScreen ==
    ASSUME NEW field \in Rectangle, NEW screen \in Rectangle
    PROVE  /\ \A r \in Normalized(field, screen) : \A x, y \in Int :
                  Covers(r, x - screen.x, y - screen.y) <=> Covers(field, x, y) /\ Covers(screen, x, y)
           /\ Normalized(field, screen) = {} =>
                  \A x, y \in Int : ~(Covers(field, x, y) /\ Covers(screen, x, y))
<1> DEFINE left   == Larger(0, field.x - screen.x)
           top    == Larger(0, field.y - screen.y)
           right  == Smaller(screen.width, field.x + field.width - screen.x)
           bottom == Smaller(screen.height, field.y + field.height - screen.y)
           some   == /\ screen.width # 0 /\ screen.height # 0
                     /\ field.width > 0 /\ field.height > 0
                     /\ right > left /\ bottom > top
           part   == [x |-> left, y |-> top, width |-> right - left, height |-> bottom - top]
<1>1. Normalized(field, screen) = IF some THEN {part} ELSE {}
  BY DEF Normalized
<1>2. left \in Int /\ top \in Int /\ right \in Int /\ bottom \in Int
  BY DEF Rectangle, Larger, Smaller
<1>3. ASSUME NEW x \in Int, NEW y \in Int
      PROVE  /\ Covers(field, x, y) /\ Covers(screen, x, y) <=>
                  /\ x - screen.x >= left /\ x - screen.x < right
                  /\ y - screen.y >= top /\ y - screen.y < bottom
             /\ Covers(field, x, y) /\ Covers(screen, x, y) => some
  BY DEF Covers, Rectangle, Larger, Smaller
<1>4. ASSUME NEW x \in Int, NEW y \in Int
      PROVE  Covers(part, x - screen.x, y - screen.y) <=>
                  /\ x - screen.x >= left /\ x - screen.x < right
                  /\ y - screen.y >= top /\ y - screen.y < bottom
  <2> HIDE DEF left, top, right, bottom
  <2> QED BY <1>2 DEF Covers, Rectangle
<1> HIDE DEF some, part
<1> QED BY <1>1, <1>3, <1>4
=============================================================================
