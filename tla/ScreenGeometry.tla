--------------------------- MODULE ScreenGeometry ---------------------------
(***************************************************************************)
(* The arithmetic between a screen, its picture and the browser: the size  *)
(* a frame is scaled to (src/desktop.rs), the pixels it is scaled from     *)
(* (src/video_resize.rs), where the pointer goes (src/desktop.rs) and what *)
(* a text field's rectangle becomes (src/text_focus.rs).  A size is        *)
(* [width, height], a rectangle [x, y, width, height].                     *)
(***************************************************************************)
EXTENDS Integers

Larger(a, b)  == IF a > b THEN a ELSE b
Smaller(a, b) == IF a < b THEN a ELSE b

\* Mutant: an odd side is kept.
AsItIs(n) == n

\* H.264 codes two by two pixels at least.
Even(n) == (n \div 2) * 2
-----------------------------------------------------------------------------
(* The size of a frame.                                                    *)

\* A side times limit/width, in floating point: a quotient that would be
\* exact may come out just below.
Shrunk(side, width, limit) ==
    IF limit >= width THEN {side}
    ELSE IF (side * limit) % width = 0
         THEN {(side * limit) \div width, (side * limit) \div width - 1}
         ELSE {(side * limit) \div width}

\* What a picture may be scaled to under the setting limit.
Scaled(size, limit) ==
    {[width |-> Larger(2, Even(w)), height |-> Larger(2, Even(h))] :
        w \in Shrunk(size.width, size.width, limit),
        h \in Shrunk(size.height, size.width, limit)}
-----------------------------------------------------------------------------
(* Bilinear scaling.                                                       *)

\* The centre of pixel i of an axis that is new pixels long, in 1/256 of the
\* old pixels, from the centre of the first of them.
Position(old, new, i) == Larger(0, ((2 * i + 1) * old * 128) \div new - 128)

\* The two pixels it lies between, and how far it is from the first.
Left(old, new, i)     == Smaller(Position(old, new, i) \div 256, old - 1)
Right(old, new, i)    == Smaller(Left(old, new, i) + 1, old - 1)
Fraction(old, new, i) == Position(old, new, i) % 256

\* One channel of a pixel between a, b above and c, d below.
Blend(a, b, c, d, fx, fy) ==
    ((a * (256 - fx) + b * fx) * (256 - fy) + (c * (256 - fx) + d * fx) * fy + 32768) \div 65536
-----------------------------------------------------------------------------
(* The pointer and a text field.                                           *)

\* A coordinate, n of d parts of the picture, on an axis of a screen.
PointerAt(start, length, n, d) ==
    start + (Larger(0, Smaller(n, d)) * Larger(0, length - 1)) \div d

\* The part of a field that is on the screen, relative to the screen's
\* origin (the agent divides by its width and height); none, as a set.
Normalized(field, screen) ==
    LET left   == Larger(0, field.x - screen.x)
        top    == Larger(0, field.y - screen.y)
        right  == Smaller(screen.width, field.x + field.width - screen.x)
        bottom == Smaller(screen.height, field.y + field.height - screen.y)
    IN  IF /\ screen.width # 0 /\ screen.height # 0
           /\ field.width > 0 /\ field.height > 0
           /\ right > left /\ bottom > top
        THEN {[x |-> left, y |-> top, width |-> right - left, height |-> bottom - top]}
        ELSE {}
=============================================================================
