---------------------------- MODULE DesktopInput ----------------------------
(***************************************************************************)
(* The input worker of a desktop session (src/desktop.rs): the queue of    *)
(* commands, the keys and buttons it remembers as pressed, and those the   *)
(* operating system holds down on its behalf.                              *)
(*                                                                         *)
(* The operating system may refuse any press or release (every enigo call  *)
(* returns a Result); a refusal leaves the key as it was.  An error of a   *)
(* command leaves the loop, drops NativeInput and stops the session.       *)
(* Moves, scrolls, display and video commands touch no key; they may fail. *)
(***************************************************************************)
EXTENDS Naturals, Sequences, SequencesExt

CONSTANTS
    Keys,        \* the keys a browser sends
    Buttons,     \* the mouse buttons
    Modifier,    \* the key clipboard_shortcut holds (Control or Meta)
    Letter,      \* the key it clicks (c, x or v)
    KeyLimit,    \* pressed keys remembered (256 in the code)
    QueueSlots   \* capacity of the command queue (64 in the code)

ASSUME InputAssumption ==
    /\ Modifier \in Keys /\ Letter \in Keys
    /\ KeyLimit \in Nat /\ QueueSlots \in Nat

VARIABLES
    os,             \* "obliging", or "refusing" a call now and then
    live,           \* the worker: "running", "leaving" its loop, or "ended"
    stop,           \* the session's stop flag: "clear" or "set"
    queued,         \* commands in the queue
    tracked,        \* pressed_keys
    pressed,        \* pressed_buttons
    held,           \* keys the operating system holds down
    heldButtons,    \* and buttons
    refused,        \* keys held although a release was tried
    refusedButtons  \* and buttons

keyVars    == <<tracked, held, refused>>
buttonVars == <<pressed, heldButtons, refusedButtons>>
vars == <<os, live, stop, queued, keyVars, buttonVars>>

Init ==
    /\ os \in {"obliging", "refusing"}
    /\ live = "running" /\ stop = "clear" /\ queued = 0
    /\ tracked = <<>> /\ held = {} /\ refused = {}
    /\ pressed = {} /\ heldButtons = {} /\ refusedButtons = {}
-----------------------------------------------------------------------------
(* What the operating system does with a call.                             *)

Outcomes == IF os = "refusing" THEN {"ok", "error"} ELSE {"ok"}

\* Pressing a key: it is held, and a release is due again.
Press(k, outcome) ==
    /\ held' = IF outcome = "ok" THEN held \cup {k} ELSE held
    /\ refused' = IF outcome = "ok" THEN refused \ {k} ELSE refused

\* Trying to release some keys, of which those in failed are refused.
Release(tried, failed) ==
    /\ held' = held \ (tried \ failed)
    /\ refused' = (refused \ tried) \cup (failed \cap held)

ReleaseButtons(tried, failed) ==
    /\ heldButtons' = heldButtons \ (tried \ failed)
    /\ refusedButtons' = (refusedButtons \ tried) \cup (failed \cap heldButtons)

Refusable(S) == IF os = "refusing" THEN SUBSET S ELSE {{}}
-----------------------------------------------------------------------------
(* The commands.                                                           *)

\* A command is taken; an error leaves the loop.
Taken(outcome) ==
    /\ live = "running" /\ stop = "clear"
    /\ queued > 0
    /\ queued' = queued - 1
    /\ live' = IF outcome = "ok" THEN "running" ELSE "leaving"
    /\ UNCHANGED <<os, stop>>

Remembers(k) == IF Contains(tracked, k) THEN tracked ELSE Append(tracked, k)

KeyDown(k) ==
    /\ UNCHANGED buttonVars
    /\ \/ /\ Len(Remembers(k)) <= KeyLimit
          /\ tracked' = Remembers(k)
          /\ \E o \in Outcomes : Press(k, o) /\ Taken(o)
       \/ /\ Len(Remembers(k)) > KeyLimit  \* "Too many pressed keys"
          /\ Taken("error")
          /\ UNCHANGED keyVars

\* Retaining the other keys: a key is remembered once at most.
Forgets(k) ==
    IF Contains(tracked, k)
    THEN \E i \in 1 .. Len(tracked) : tracked[i] = k /\ tracked' = RemoveAt(tracked, i)
    ELSE UNCHANGED tracked

KeyUp(k) ==
    /\ Forgets(k)
    /\ \E failed \in Refusable({k}) :
          /\ Release({k}, failed)
          /\ Taken(IF failed = {} THEN "ok" ELSE "error")
    /\ UNCHANGED buttonVars

\* The flag is set before the press and cleared before the release.
ButtonDown(b) ==
    /\ pressed' = pressed \cup {b}
    /\ \E o \in Outcomes :
          /\ heldButtons' = IF o = "ok" THEN heldButtons \cup {b} ELSE heldButtons
          /\ refusedButtons' = IF o = "ok" THEN refusedButtons \ {b} ELSE refusedButtons
          /\ Taken(o)
    /\ UNCHANGED keyVars

ButtonUp(b) ==
    /\ pressed' = pressed \ {b}
    /\ \E failed \in Refusable({b}) :
          /\ ReleaseButtons({b}, failed)
          /\ Taken(IF failed = {} THEN "ok" ELSE "error")
    /\ UNCHANGED keyVars

\* pressed_keys.drain(..) with `?`: n keys are released; when that is not all
\* of them the next one was refused and the rest are forgotten untried.
First(n) == {tracked[i] : i \in 1 .. n}

Drained(n) ==
    /\ n = Len(tracked) \/ os = "refusing"
    /\ LET failed == IF n < Len(tracked) THEN {tracked[n + 1]} ELSE {}
       IN  Release(First(n) \cup failed, failed)

\* Mutant: the keys are forgotten without a release.
ForgetKeys(n) == n = Len(tracked) /\ UNCHANGED <<held, refused>>

DrainKeys(n) == Drained(n)

\* The buttons are tried in order and cleared one by one; the first refusal
\* keeps the rest for the drop.
ButtonsTried(failed) ==
    \E tried \in SUBSET pressed :
        /\ failed \subseteq tried
        /\ failed = {} => tried = pressed
        /\ ReleaseButtons(tried, failed)
        /\ pressed' = pressed \ (tried \ failed)

AtMostOneOf(S) == {{}} \cup {{x} : x \in S}

\* Mutant: releaseAll releases the keys only.
SkipsButtons(failed) == failed = {} /\ UNCHANGED buttonVars

ReleasePressed(failed) == ButtonsTried(failed)

\* releaseAll, and display.select before it moves and replies, which may fail.
HandleReleaseAll ==
    /\ tracked' = <<>>
    /\ \E n \in 0 .. Len(tracked), rest \in {"ok", "error"} :
          /\ DrainKeys(n)
          /\ \/ /\ n < Len(tracked)
                /\ Taken("error")
                /\ UNCHANGED buttonVars
             \/ /\ n = Len(tracked)
                /\ \E failed \in Refusable(pressed) \cap AtMostOneOf(pressed) :
                      /\ ReleasePressed(failed)
                      /\ Taken(IF failed = {} THEN rest ELSE "error")

\* clipboard_shortcut: drain, press the modifier, click the letter, release the
\* modifier whether or not the click worked.  stuck holds those of the two that
\* were pressed and could not be released; without one, the click or the reply
\* to the browser may still fail.
HandleShortcut ==
    /\ tracked' = <<>>
    /\ UNCHANGED buttonVars
    /\ \/ \E n \in 0 .. Len(tracked) :  \* a drained key or the modifier is refused
             os = "refusing" /\ DrainKeys(n) /\ Taken("error")
       \/ \E stuck \in Refusable({Modifier, Letter}), rest \in {"ok", "error"} :
             /\ held' = (held \ (First(Len(tracked)) \cup {Modifier, Letter})) \cup stuck
             /\ refused' = (refused \ (First(Len(tracked)) \cup {Modifier, Letter})) \cup stuck
             /\ Taken(IF stuck = {} THEN rest ELSE "error")

\* Commands that touch no key; they may fail.
HandleOther ==
    /\ \E o \in {"ok", "error"} : Taken(o)
    /\ UNCHANGED <<keyVars, buttonVars>>

Handle ==
    \/ \E k \in Keys : KeyDown(k) \/ KeyUp(k)
    \/ \E b \in Buttons : ButtonDown(b) \/ ButtonUp(b)
    \/ HandleReleaseAll \/ HandleShortcut \/ HandleOther
-----------------------------------------------------------------------------
(* The queue and the end of the session.                                   *)

\* Mutant: the queue holds one command too many.
RoomPlusOne == queued <= QueueSlots

Room == queued < QueueSlots

Arrive ==
    /\ live = "running"
    /\ IF Room
       THEN queued' = queued + 1 /\ UNCHANGED stop
       ELSE stop' = "set" /\ UNCHANGED queued
    /\ UNCHANGED <<os, live, keyVars, buttonVars>>

\* The peer is closed or another task of the session failed.
SessionStops ==
    /\ live = "running" /\ stop = "clear"
    /\ stop' = "set"
    /\ UNCHANGED <<os, live, queued, keyVars, buttonVars>>

\* Mutant: dropping NativeInput releases the buttons only.
DropsButtonsOnly ==
    /\ UNCHANGED <<tracked, held, refused>>
    /\ \E failed \in Refusable(pressed) : ReleaseButtons(pressed, failed)
    /\ pressed' = {}

\* NativeInput's drop tries every remembered key and button once.
DropInput ==
    /\ \E failed \in Refusable(ToSet(tracked)) : Release(ToSet(tracked), failed)
    /\ \E failed \in Refusable(pressed) : ReleaseButtons(pressed, failed)
    /\ tracked' = <<>> /\ pressed' = {}

Leaves ==
    \/ live = "leaving"
    \/ live = "running" /\ stop = "set"

\* The loop is left; only an error sets the stop flag.
Leave ==
    /\ Leaves
    /\ live' = "ended"
    /\ stop' = "set"
    /\ DropInput
    /\ UNCHANGED <<os, queued>>

Next == Handle \/ Arrive \/ SessionStops \/ Leave

Spec == Init /\ [][Next]_vars

\* The worker polls its flag every few milliseconds.
FairSpec == Spec /\ WF_vars(Leave)
-----------------------------------------------------------------------------
TypeOK ==
    /\ os \in {"obliging", "refusing"}
    /\ live \in {"running", "leaving", "ended"} /\ stop \in {"clear", "set"}
    /\ queued \in 0 .. QueueSlots
    /\ tracked \in Seq(Keys) /\ Len(tracked) <= KeyLimit
    /\ held \subseteq Keys /\ refused \subseteq held
    /\ pressed \subseteq Buttons /\ heldButtons \subseteq Buttons
    /\ refusedButtons \subseteq heldButtons

\* A button that is held down is remembered, so releaseAll and the end of the
\* session reach it; or its release was tried and refused.
ButtonsRemembered == heldButtons \subseteq pressed \cup refusedButtons

\* When the session has ended no button is down, unless the operating system
\* refused to release it.
ButtonsReleasedAtEnd == live = "ended" => heldButtons \subseteq refusedButtons

\* A key that is held down is remembered as long as nothing is refused.
KeysRemembered == os = "obliging" => held \subseteq ToSet(tracked)

\* Where nothing is refused, a session that has ended, however it ended, holds
\* nothing down.
NothingHeldAtEnd == os = "obliging" /\ live = "ended" => held = {} /\ heldButtons = {}

\* Nothing that is held down is forgotten while a later releaseAll, shortcut,
\* selection or the drop would still have to release it, and the drop does.
HeldRemembered == ButtonsRemembered /\ ButtonsReleasedAtEnd /\ KeysRemembered /\ NothingHeldAtEnd

\* docs/remote-capabilities.md: "Blur and disconnect release held keys."  At
\* the end no key is down but those whose own release was refused.
KeysReleasedAtEnd == live = "ended" => held \subseteq refused

\* A blur (releaseAll) leaves nothing held down that could be released.
BlurReleases ==
    [][os = "obliging" /\ HandleReleaseAll => held' = {} /\ heldButtons' = {}]_vars

\* A stopped session -- closed, or its queue full -- stops controlling the
\* device, holding nothing that could be released.
StopReleases ==
    os = "obliging" /\ stop = "set" ~> live = "ended" /\ held = {} /\ heldButtons = {}
=============================================================================
