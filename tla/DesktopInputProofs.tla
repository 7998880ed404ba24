------------------------- MODULE DesktopInputProofs -------------------------
(***************************************************************************)
(* The keys and buttons of a desktop session, for any keys, buttons and    *)
(* limits, and whatever the operating system refuses.                      *)
(***************************************************************************)
EXTENDS DesktopInput, SequenceTheorems, TLAPS

\* What is remembered and what is held, before and after the end.
ButtonInv == ButtonsRemembered /\ ButtonsReleasedAtEnd

\* A release that is tried on some buttons and fails on a part of them leaves
\* those of the rest that were held, remembered or refused, still accounted for.
LEMMA ReleaseAccounts ==
    ASSUME ButtonsRemembered,
           NEW tried, NEW failed, failed \subseteq tried,
           ReleaseButtons(tried, failed),
           NEW rest, pressed \ (tried \ failed) \subseteq rest \cup failed
    PROVE  heldButtons' \subseteq rest \cup refusedButtons'
BY DEF ReleaseButtons, ButtonsRemembered

\* A command is only taken by a running worker, which may leave its loop but
\* does not end.
LEMMA TakenNotEnded ==
    ASSUME NEW o, Taken(o)
    PROVE  live' # "ended"
BY DEF Taken

\* Commands that leave the buttons alone keep the account of them.
LEMMA UntouchedKeeps ==
    ASSUME ButtonInv, UNCHANGED buttonVars, live' # "ended"
    PROVE  ButtonInv'
BY DEF ButtonInv, ButtonsRemembered, ButtonsReleasedAtEnd, buttonVars

\* releaseAll stops at the first refusal, which keeps the rest remembered.
LEMMA ReleasePressedKeeps ==
    ASSUME ButtonsRemembered, NEW failed, ReleasePressed(failed)
    PROVE  ButtonsRemembered'
<1>1. PICK tried \in SUBSET pressed :
          /\ failed \subseteq tried
          /\ ReleaseButtons(tried, failed)
          /\ pressed' = pressed \ (tried \ failed)
  BY DEF ReleasePressed, ButtonsTried
<1>2. heldButtons' \subseteq pressed' \cup refusedButtons'
  BY <1>1, ReleaseAccounts
<1> QED BY <1>2 DEF ButtonsRemembered

\* A command keeps the account of the buttons, whatever it was and however it
\* failed.
LEMMA HandleKeeps ==
    ASSUME ButtonInv, Handle
    PROVE  ButtonInv'
<1>1. ASSUME NEW k \in Keys, KeyDown(k) \/ KeyUp(k)
      PROVE  ButtonInv'
  <2>1. UNCHANGED buttonVars BY <1>1 DEF KeyDown, KeyUp
  <2>2. PICK o : Taken(o) BY <1>1 DEF KeyDown, KeyUp
  <2> QED BY <2>1, <2>2, TakenNotEnded, UntouchedKeeps
<1>2. ASSUME NEW b \in Buttons, ButtonDown(b)
      PROVE  ButtonInv'
  <2>1. PICK o : /\ pressed' = pressed \cup {b}
                 /\ heldButtons' = IF o = "ok" THEN heldButtons \cup {b} ELSE heldButtons
                 /\ refusedButtons' = IF o = "ok" THEN refusedButtons \ {b} ELSE refusedButtons
                 /\ Taken(o)
    BY <1>2 DEF ButtonDown
  <2>2. live' # "ended" BY <2>1, TakenNotEnded
  <2>3. heldButtons' \subseteq pressed' \cup refusedButtons'
    BY <2>1 DEF ButtonInv, ButtonsRemembered
  <2> QED BY <2>2, <2>3 DEF ButtonInv, ButtonsRemembered, ButtonsReleasedAtEnd
<1>3. ASSUME NEW b \in Buttons, ButtonUp(b)
      PROVE  ButtonInv'
  <2>1. PICK failed \in Refusable({b}) :
            /\ pressed' = pressed \ {b}
            /\ ReleaseButtons({b}, failed)
            /\ Taken(IF failed = {} THEN "ok" ELSE "error")
    BY <1>3 DEF ButtonUp
  <2>2. failed \subseteq {b} BY <2>1 DEF Refusable
  <2>3. live' # "ended" BY <2>1, TakenNotEnded
  <2>4. heldButtons' \subseteq pressed' \cup refusedButtons'
    BY <2>1, <2>2 DEF ButtonInv, ButtonsRemembered, ReleaseButtons
  <2> QED BY <2>3, <2>4 DEF ButtonInv, ButtonsRemembered, ButtonsReleasedAtEnd
<1>4. ASSUME HandleReleaseAll
      PROVE  ButtonInv'
  <2>1. PICK o : Taken(o) BY <1>4 DEF HandleReleaseAll
  <2>2. live' # "ended" BY <2>1, TakenNotEnded
  <2>3. UNCHANGED buttonVars \/ \E failed : ReleasePressed(failed)
    BY <1>4 DEF HandleReleaseAll
  <2>4. ButtonsRemembered'
    BY <2>2, <2>3, UntouchedKeeps, ReleasePressedKeeps DEF ButtonInv
  <2> QED BY <2>2, <2>4 DEF ButtonInv, ButtonsReleasedAtEnd
<1>5. ASSUME HandleShortcut \/ HandleOther
      PROVE  ButtonInv'
  <2>1. UNCHANGED buttonVars BY <1>5 DEF HandleShortcut, HandleOther
  <2>2. PICK o : Taken(o) BY <1>5 DEF HandleShortcut, HandleOther
  <2> QED BY <2>1, <2>2, TakenNotEnded, UntouchedKeeps
<1> QED BY <1>1, <1>2, <1>3, <1>4, <1>5 DEF Handle

\* The drop tries all that is remembered, so only refused buttons stay held.
LEMMA LeaveKeeps ==
    ASSUME ButtonInv, Leave
    PROVE  ButtonInv'
<1>1. PICK failed \in Refusable(pressed) :
          ReleaseButtons(pressed, failed) /\ pressed' = {}
  BY DEF Leave, DropInput
<1>2. failed \subseteq pressed BY <1>1 DEF Refusable
<1>3. heldButtons' \subseteq refusedButtons'
  BY <1>1, <1>2 DEF ReleaseButtons, ButtonInv, ButtonsRemembered
<1> QED BY <1>3 DEF ButtonInv, ButtonsRemembered, ButtonsReleasedAtEnd

\* The account of the buttons (desktop.rs, NativeInput) holds in every state.
THEOREM ButtonInvariant == Spec => []ButtonInv
<1>1. Init => ButtonInv
  BY DEF Init, ButtonInv, ButtonsRemembered, ButtonsReleasedAtEnd
<1>2. ButtonInv /\ [Next]_vars => ButtonInv'
  <2> SUFFICES ASSUME ButtonInv, [Next]_vars PROVE ButtonInv'
    OBVIOUS
  <2>1. CASE Handle BY <2>1, HandleKeeps
  <2>2. CASE Leave BY <2>2, LeaveKeeps
  <2>3. CASE Arrive \/ SessionStops
    <3>1. UNCHANGED buttonVars /\ live' # "ended"
      BY <2>3 DEF Arrive, SessionStops
    <3> QED BY <3>1, UntouchedKeeps
  <2>4. CASE UNCHANGED vars
    BY <2>4 DEF vars, buttonVars, ButtonInv, ButtonsRemembered, ButtonsReleasedAtEnd
  <2> QED BY <2>1, <2>2, <2>3, <2>4 DEF Next
<1> QED BY <1>1, <1>2, PTL DEF Spec

\* Every button the operating system holds down is one that releaseAll and the
\* drop will reach, or one whose release was refused.
THEOREM HeldButtonsRemembered == Spec => []ButtonsRemembered
<1>1. ButtonInv => ButtonsRemembered BY DEF ButtonInv
<1> QED BY <1>1, ButtonInvariant, PTL

\* Once the worker has ended, no button is down that it could have released.
THEOREM ButtonsUpAtEnd == Spec => []ButtonsReleasedAtEnd
<1>1. ButtonInv => ButtonsReleasedAtEnd BY DEF ButtonInv
<1> QED BY <1>1, ButtonInvariant, PTL
-----------------------------------------------------------------------------
(* The keys, and the types.                                                *)

\* Taking one key out of a sequence of keys leaves the others in it.
LEMMA RemoveOne ==
    ASSUME NEW s \in Seq(Keys), NEW i \in 1 .. Len(s)
    PROVE  /\ RemoveAt(s, i) \in Seq(Keys) /\ Len(RemoveAt(s, i)) = Len(s) - 1
           /\ ToSet(s) \subseteq ToSet(RemoveAt(s, i)) \cup {s[i]}
<1> DEFINE a == SubSeq(s, 1, i - 1)
           b == SubSeq(s, i + 1, Len(s))
           r == RemoveAt(s, i)
<1>1. /\ a \in Seq(Keys) /\ Len(a) = i - 1
      /\ \A j \in 1 .. i - 1 : a[j] = s[j]
  <2>1. \A j \in 1 .. i - 1 : s[j] \in Keys OBVIOUS
  <2>2. i - 1 \in Int /\ (i - 1) - 1 + 1 = i - 1 OBVIOUS
  <2>3. \A j \in 1 .. (i - 1) - 1 + 1 : a[j] = s[1 + j - 1] /\ 1 + j - 1 = j
    BY <2>1, <2>2, SubSeqProperties
  <2>4. Len(a) = i - 1 BY <2>1, <2>2, SubSeqProperties
  <2> QED BY <2>1, <2>2, <2>3, <2>4, SubSeqProperties
<1>2. /\ b \in Seq(Keys) /\ Len(b) = Len(s) - i
      /\ \A j \in 1 .. Len(s) - i : b[j] = s[i + j]
  <2>1. \A j \in i + 1 .. Len(s) : s[j] \in Keys OBVIOUS
  <2>2. i + 1 \in Int /\ Len(s) \in Int OBVIOUS
  <2>3. b \in Seq(Keys) /\ Len(b) = IF i + 1 <= Len(s) THEN Len(s) - (i + 1) + 1 ELSE 0
    BY <2>1, <2>2, SubSeqProperties
  <2>4. \A j \in 1 .. Len(s) - (i + 1) + 1 : b[j] = s[i + 1 + j - 1]
    BY <2>1, <2>2, SubSeqProperties
  <2>5. \A j \in 1 .. Len(s) - i : j \in 1 .. Len(s) - (i + 1) + 1 /\ i + 1 + j - 1 = i + j
    OBVIOUS
  <2> QED BY <2>3, <2>4, <2>5
<1> HIDE DEF a, b
<1>3. r = a \o b BY DEF RemoveAt, a, b
<1>4. /\ r \in Seq(Keys) /\ Len(r) = Len(s) - 1
      /\ \A m \in 1 .. Len(s) - 1 : r[m] = IF m <= i - 1 THEN a[m] ELSE b[m - (i - 1)]
  <2>1. r \in Seq(Keys) /\ Len(r) = Len(a) + Len(b)
    BY <1>1, <1>2, <1>3, ConcatProperties
  <2>2. \A m \in 1 .. Len(a) + Len(b) : r[m] = IF m <= Len(a) THEN a[m] ELSE b[m - Len(a)]
    BY <1>1, <1>2, <1>3, ConcatProperties
  <2>3. Len(a) = i - 1 /\ Len(a) + Len(b) = Len(s) - 1 BY <1>1, <1>2
  <2> QED BY <2>1, <2>2, <2>3
<1>5. ASSUME NEW j \in 1 .. Len(s), j # i
      PROVE  \E m \in 1 .. Len(r) : r[m] = s[j]
  <2>1. CASE j < i
    <3>1. j \in 1 .. Len(r) /\ r[j] = s[j] BY <1>1, <1>4, <2>1
    <3> QED BY <3>1
  <2>2. CASE j > i
    <3>1. j - 1 \in 1 .. Len(s) - 1 /\ ~(j - 1 <= i - 1) BY <2>2
    <3>2. r[j - 1] = b[j - i] /\ j - i \in 1 .. Len(s) - i BY <1>4, <2>2, <3>1
    <3>3. b[j - i] = s[i + (j - i)] /\ i + (j - i) = j BY <1>2, <3>2
    <3> QED BY <1>4, <3>1, <3>2, <3>3
  <2> QED BY <1>5, <2>1, <2>2
<1>6. ToSet(s) \subseteq ToSet(r) \cup {s[i]}
  <2> SUFFICES ASSUME NEW j \in DOMAIN s PROVE s[j] \in ToSet(r) \cup {s[i]}
    BY DEF ToSet
  <2>1. CASE j = i BY <2>1
  <2>2. CASE j # i
    <3>1. j \in 1 .. Len(s) /\ DOMAIN r = 1 .. Len(r) BY <1>4
    <3>2. PICK m \in 1 .. Len(r) : r[m] = s[j] BY <1>5, <2>2, <3>1
    <3> HIDE DEF r
    <3> QED BY <3>1, <3>2 DEF ToSet
  <2> QED BY <2>1, <2>2
<1> QED BY <1>4, <1>6

\* Remembering a key keeps the others.
LEMMA RememberOne ==
    ASSUME tracked \in Seq(Keys), NEW k \in Keys
    PROVE  /\ Remembers(k) \in Seq(Keys)
           /\ ToSet(tracked) \cup {k} \subseteq ToSet(Remembers(k))
<1>1. CASE Contains(tracked, k)
  BY <1>1 DEF Remembers, Contains, ToSet
<1>2. CASE ~Contains(tracked, k)
  <2> DEFINE r == Append(tracked, k)
  <2>1. r \in Seq(Keys) /\ Len(r) = Len(tracked) + 1 /\ r[Len(r)] = k
    OBVIOUS
  <2>2. \A j \in 1 .. Len(tracked) : r[j] = tracked[j] /\ j \in 1 .. Len(r)
    OBVIOUS
  <2>3. Remembers(k) = r BY <1>2 DEF Remembers
  <2> HIDE DEF r
  <2> QED BY <2>1, <2>2, <2>3 DEF ToSet
<1> QED BY <1>1, <1>2

\* The types of what the commands and the drop change.
KeyTypes ==
    /\ tracked \in Seq(Keys) /\ Len(tracked) <= KeyLimit
    /\ held \subseteq Keys /\ refused \subseteq held

ButtonTypes ==
    /\ pressed \subseteq Buttons /\ heldButtons \subseteq Buttons
    /\ refusedButtons \subseteq heldButtons

\* What is remembered of the keys, with the types it rests on.
KeyInv == KeyTypes /\ KeysRemembered

\* Forgetting one key.
LEMMA ForgetOne ==
    ASSUME KeyTypes, NEW k \in Keys, Forgets(k)
    PROVE  /\ tracked' \in Seq(Keys) /\ Len(tracked') <= KeyLimit
           /\ ToSet(tracked) \subseteq ToSet(tracked') \cup {k}
<1>1. CASE Contains(tracked, k)
  <2>1. PICK i \in 1 .. Len(tracked) : tracked[i] = k /\ tracked' = RemoveAt(tracked, i)
    BY <1>1 DEF Forgets
  <2> QED BY <2>1, RemoveOne, InputAssumption DEF KeyTypes
<1>2. CASE ~Contains(tracked, k)
  BY <1>2 DEF Forgets, KeyTypes
<1> QED BY <1>1, <1>2

\* The keys remembered are keys, and the first n of all of them are all.
LEMMA FirstOfAll ==
    ASSUME KeyTypes
    PROVE  /\ First(Len(tracked)) = ToSet(tracked) /\ ToSet(tracked) \subseteq Keys
           /\ \A n \in 0 .. Len(tracked) : First(n) \subseteq Keys
BY DEF KeyTypes, First, ToSet

\* Draining forgets all keys, so those held are gone unless one was refused.
LEMMA DrainKeeps ==
    ASSUME KeyInv, NEW n \in 0 .. Len(tracked), DrainKeys(n), tracked' = <<>>, os' = os
    PROVE  KeyInv'
<1> DEFINE failed == IF n < Len(tracked) THEN {tracked[n + 1]} ELSE {}
<1>1. Release(First(n) \cup failed, failed) /\ (n = Len(tracked) \/ os = "refusing")
  BY DEF DrainKeys, Drained
<1>2. First(n) \subseteq Keys /\ failed \subseteq Keys
  BY FirstOfAll DEF KeyInv, KeyTypes
<1>3. held' \subseteq Keys /\ refused' \subseteq held'
  <2> HIDE DEF failed
  <2> QED BY <1>1, <1>2 DEF Release, KeyInv, KeyTypes
<1>4. os = "obliging" => held' = {}
  BY <1>1, FirstOfAll DEF Release, KeyInv, KeysRemembered
<1>5. <<>> \in Seq(Keys) /\ Len(<<>>) = 0 /\ 0 <= KeyLimit BY InputAssumption
<1> QED BY <1>3, <1>4, <1>5 DEF KeyInv, KeyTypes, KeysRemembered

\* Every command keeps the account of the keys.
LEMMA HandleKeepsKeys ==
    ASSUME KeyInv, Handle
    PROVE  KeyInv'
<1>0. os' = os
  BY DEF Handle, KeyDown, KeyUp, ButtonDown, ButtonUp, HandleReleaseAll, HandleShortcut, HandleOther, Taken
<1>1. ASSUME NEW k \in Keys, KeyDown(k)
      PROVE  KeyInv'
  <2>1. CASE UNCHANGED keyVars
    BY <1>0, <2>1 DEF keyVars, KeyInv, KeyTypes, KeysRemembered
  <2>2. ASSUME Len(Remembers(k)) <= KeyLimit, tracked' = Remembers(k),
               NEW o \in Outcomes, Press(k, o)
        PROVE  KeyInv'
    <3>1. Remembers(k) \in Seq(Keys) /\ ToSet(tracked) \cup {k} \subseteq ToSet(tracked')
      BY <2>2, RememberOne DEF KeyInv, KeyTypes
    <3>2. held' \subseteq held \cup {k} /\ refused' \subseteq held'
      BY <2>2 DEF Press, KeyInv, KeyTypes
    <3> QED BY <1>0, <2>2, <3>1, <3>2 DEF KeyInv, KeyTypes, KeysRemembered
  <2> QED BY <1>1, <2>1, <2>2 DEF KeyDown
<1>2. ASSUME NEW k \in Keys, KeyUp(k)
      PROVE  KeyInv'
  <2>1. PICK failed \in Refusable({k}) : Release({k}, failed) BY <1>2 DEF KeyUp
  <2>2. failed \subseteq {k} /\ (os = "obliging" => failed = {}) BY <2>1 DEF Refusable
  <2>3. /\ tracked' \in Seq(Keys) /\ Len(tracked') <= KeyLimit
        /\ ToSet(tracked) \subseteq ToSet(tracked') \cup {k}
    BY <1>2, ForgetOne DEF KeyUp, KeyInv
  <2>4. held' \subseteq held /\ refused' \subseteq held' /\ (failed = {} => k \notin held')
    BY <2>1, <2>2 DEF Release, KeyInv, KeyTypes
  <2> QED BY <1>0, <2>2, <2>3, <2>4 DEF KeyInv, KeyTypes, KeysRemembered
<1>3. ASSUME UNCHANGED keyVars
      PROVE  KeyInv'
  BY <1>0, <1>3 DEF keyVars, KeyInv, KeyTypes, KeysRemembered
<1>4. ASSUME HandleReleaseAll
      PROVE  KeyInv'
  BY <1>0, <1>4, DrainKeeps DEF HandleReleaseAll
<1>5. ASSUME HandleShortcut
      PROVE  KeyInv'
  <2>1. tracked' = <<>> BY <1>5 DEF HandleShortcut
  <2>2. CASE \E n \in 0 .. Len(tracked) : DrainKeys(n)
    BY <1>0, <2>1, <2>2, DrainKeeps
  <2>3. ASSUME NEW stuck \in Refusable({Modifier, Letter}),
               held' = (held \ (First(Len(tracked)) \cup {Modifier, Letter})) \cup stuck,
               refused' = (refused \ (First(Len(tracked)) \cup {Modifier, Letter})) \cup stuck
        PROVE  KeyInv'
    <3>1. stuck \subseteq Keys /\ (os = "obliging" => stuck = {})
      BY InputAssumption DEF Refusable
    <3>2. held' \subseteq Keys /\ refused' \subseteq held'
      BY <2>3, <3>1 DEF KeyInv, KeyTypes
    <3>3. os = "obliging" => held' = {}
      BY <2>3, <3>1, FirstOfAll DEF KeyInv, KeysRemembered
    <3>4. <<>> \in Seq(Keys) /\ Len(<<>>) = 0 /\ 0 <= KeyLimit BY InputAssumption
    <3> QED BY <1>0, <2>1, <3>2, <3>3, <3>4 DEF KeyInv, KeyTypes, KeysRemembered
  <2> QED BY <1>5, <2>2, <2>3 DEF HandleShortcut
<1>6. ASSUME NEW b \in Buttons, ButtonDown(b) \/ ButtonUp(b)
      PROVE  UNCHANGED keyVars
  BY <1>6 DEF ButtonDown, ButtonUp
<1>7. HandleOther => UNCHANGED keyVars BY DEF HandleOther
<1> QED BY <1>1, <1>2, <1>3, <1>4, <1>5, <1>6, <1>7 DEF Handle

\* The account of the keys holds in every state.
THEOREM KeyInvariant == Spec => []KeyInv
<1>1. Init => KeyInv
  BY InputAssumption DEF Init, KeyInv, KeyTypes, KeysRemembered
<1>2. KeyInv /\ [Next]_vars => KeyInv'
  <2> SUFFICES ASSUME KeyInv, [Next]_vars PROVE KeyInv'
    OBVIOUS
  <2>1. CASE Handle BY <2>1, HandleKeepsKeys
  <2>2. CASE Leave
    <3>1. tracked' = <<>> /\ os' = os BY <2>2 DEF Leave, DropInput
    <3>2. PICK failed \in Refusable(ToSet(tracked)) : Release(ToSet(tracked), failed)
      BY <2>2 DEF Leave, DropInput
    <3>3. failed \subseteq ToSet(tracked) /\ (os = "obliging" => failed = {})
      BY <3>2 DEF Refusable
    <3>4. held' \subseteq Keys /\ refused' \subseteq held' /\ (os = "obliging" => held' = {})
      BY <3>2, <3>3 DEF Release, KeyInv, KeyTypes, KeysRemembered
    <3>5. <<>> \in Seq(Keys) /\ Len(<<>>) = 0 /\ 0 <= KeyLimit BY InputAssumption
    <3> QED BY <3>1, <3>4, <3>5 DEF KeyInv, KeyTypes, KeysRemembered
  <2>3. CASE Arrive \/ SessionStops \/ UNCHANGED vars
    <3>1. UNCHANGED keyVars /\ os' = os BY <2>3 DEF Arrive, SessionStops, vars
    <3> QED BY <3>1 DEF keyVars, KeyInv, KeyTypes, KeysRemembered
  <2> QED BY <2>1, <2>2, <2>3 DEF Next
<1> QED BY <1>1, <1>2, PTL DEF Spec

\* The types of the rest.
WorkerTypes ==
    /\ os \in {"obliging", "refusing"}
    /\ live \in {"running", "leaving", "ended"} /\ stop \in {"clear", "set"}
    /\ queued \in 0 .. QueueSlots

RestInv == WorkerTypes /\ ButtonTypes

\* A command that is taken leaves a well typed worker.
LEMMA TakenTypes ==
    ASSUME WorkerTypes, NEW o, Taken(o)
    PROVE  WorkerTypes'
BY InputAssumption DEF WorkerTypes, Taken

\* Trying to release buttons keeps what is held and refused well typed.
LEMMA ReleaseTypes ==
    ASSUME ButtonTypes, NEW tried, NEW failed, ReleaseButtons(tried, failed), pressed' \subseteq pressed
    PROVE  ButtonTypes'
BY DEF ReleaseButtons, ButtonTypes

\* Every command keeps the worker and the buttons well typed.
LEMMA HandleKeepsTypes ==
    ASSUME RestInv, Handle
    PROVE  RestInv'
<1>1. WorkerTypes'
  <2>1. \E o : Taken(o)
    BY DEF Handle, KeyDown, KeyUp, ButtonDown, ButtonUp, HandleReleaseAll, HandleShortcut, HandleOther
  <2> QED BY <2>1, TakenTypes DEF RestInv
<1>2. CASE UNCHANGED buttonVars BY <1>1, <1>2 DEF buttonVars, RestInv, ButtonTypes
<1>3. ASSUME NEW b \in Buttons, ButtonDown(b)
      PROVE  ButtonTypes'
  BY <1>3 DEF ButtonDown, RestInv, ButtonTypes
<1>4. ASSUME NEW b \in Buttons, ButtonUp(b)
      PROVE  ButtonTypes'
  BY <1>4, ReleaseTypes DEF ButtonUp, RestInv
<1>5. ASSUME NEW failed, ReleasePressed(failed)
      PROVE  ButtonTypes'
  BY <1>5, ReleaseTypes DEF ReleasePressed, ButtonsTried, RestInv
<1> QED BY <1>1, <1>2, <1>3, <1>4, <1>5
    DEF Handle, KeyDown, KeyUp, HandleReleaseAll, HandleShortcut, HandleOther, RestInv

\* Every reachable state is well typed: neither the queue nor the remembered
\* keys exceed their limits, and only what is held was refused.
THEOREM TypeCorrect == Spec => []TypeOK
<1>1. Init => RestInv
  BY InputAssumption DEF Init, RestInv, WorkerTypes, ButtonTypes
<1>2. RestInv /\ [Next]_vars => RestInv'
  <2> SUFFICES ASSUME RestInv, [Next]_vars PROVE RestInv'
    OBVIOUS
  <2>1. CASE Handle BY <2>1, HandleKeepsTypes
  <2>2. CASE Leave
    <3>1. PICK failed : ReleaseButtons(pressed, failed) BY <2>2 DEF Leave, DropInput
    <3>2. pressed' = {} BY <2>2 DEF Leave, DropInput
    <3>3. ButtonTypes' BY <3>1, <3>2, ReleaseTypes DEF RestInv
    <3>4. WorkerTypes' BY <2>2 DEF Leave, RestInv, WorkerTypes
    <3> QED BY <3>3, <3>4 DEF RestInv
  <2>3. CASE Arrive
    BY <2>3, InputAssumption DEF Arrive, Room, RestInv, WorkerTypes, ButtonTypes, buttonVars
  <2>4. CASE SessionStops \/ UNCHANGED vars
    BY <2>4 DEF SessionStops, vars, buttonVars, RestInv, WorkerTypes, ButtonTypes
  <2> QED BY <2>1, <2>2, <2>3, <2>4 DEF Next
<1>3. RestInv /\ KeyInv => TypeOK
  BY DEF RestInv, WorkerTypes, ButtonTypes, KeyInv, KeyTypes, TypeOK
<1> QED BY <1>1, <1>2, <1>3, KeyInvariant, PTL DEF Spec
-----------------------------------------------------------------------------
(* A blur.                                                                 *)

\* An operating system that obliges has refused no button.
NoneRefused == os = "obliging" => refusedButtons = {}

\* When nothing is refused, trying to release buttons releases them all.
LEMMA ObligingRelease ==
    ASSUME os = "obliging", NEW tried, NEW S, NEW failed \in Refusable(S), ReleaseButtons(tried, failed)
    PROVE  /\ failed = {} /\ heldButtons' = heldButtons \ tried
           /\ refusedButtons' = refusedButtons \ tried
BY DEF Refusable, ReleaseButtons

\* What releaseAll does to the buttons and the keys when nothing is refused.
LEMMA ObligingBlur ==
    ASSUME os = "obliging", HandleReleaseAll
    PROVE  /\ heldButtons' = heldButtons \ pressed
           /\ refusedButtons' = refusedButtons \ pressed
           /\ held' = held \ First(Len(tracked))
<1>1. PICK n \in 0 .. Len(tracked), rest \in {"ok", "error"} :
        /\ DrainKeys(n)
        /\ \/ /\ n < Len(tracked)
              /\ Taken("error")
              /\ UNCHANGED buttonVars
           \/ /\ n = Len(tracked)
              /\ \E failed \in Refusable(pressed) \cap AtMostOneOf(pressed) :
                    /\ ReleasePressed(failed)
                    /\ Taken(IF failed = {} THEN rest ELSE "error")
  BY DEF HandleReleaseAll
<1>2. n = Len(tracked) BY <1>1 DEF DrainKeys, Drained
<1>3. PICK failed \in Refusable(pressed) : ReleasePressed(failed) BY <1>1, <1>2
<1>4. failed = {} BY <1>3 DEF Refusable
<1>5. ReleaseButtons(pressed, failed) BY <1>3, <1>4 DEF ReleasePressed, ButtonsTried
<1>6. held' = held \ First(Len(tracked))
  BY <1>1, <1>2 DEF DrainKeys, Drained, Release
<1> QED BY <1>3, <1>5, <1>6, ObligingRelease

\* No step makes an obliging operating system refuse.
LEMMA NoneRefusedKept ==
    ASSUME NoneRefused, [Next]_vars
    PROVE  NoneRefused'
<1>0. os' = os
  BY DEF Next, Handle, KeyDown, KeyUp, ButtonDown, ButtonUp, HandleReleaseAll, HandleShortcut, HandleOther,
         Taken, Arrive, SessionStops, Leave, vars
<1>1. CASE os # "obliging" BY <1>0, <1>1 DEF NoneRefused
<1>2. CASE UNCHANGED refusedButtons BY <1>0, <1>2 DEF NoneRefused
<1>3. ASSUME os = "obliging", NEW b \in Buttons, ButtonDown(b)
      PROVE  NoneRefused'
  <2>1. refusedButtons' \subseteq refusedButtons BY <1>3 DEF ButtonDown
  <2> QED BY <1>3, <2>1 DEF NoneRefused
<1>4. ASSUME os = "obliging", NEW b \in Buttons, ButtonUp(b)
      PROVE  NoneRefused'
  <2>1. PICK failed \in Refusable({b}) : ReleaseButtons({b}, failed) BY <1>4 DEF ButtonUp
  <2> QED BY <1>4, <2>1, ObligingRelease DEF NoneRefused
<1>5. ASSUME os = "obliging", HandleReleaseAll
      PROVE  NoneRefused'
  BY <1>5, ObligingBlur DEF NoneRefused
<1>6. ASSUME os = "obliging", Leave
      PROVE  NoneRefused'
  <2>1. PICK failed \in Refusable(pressed) : ReleaseButtons(pressed, failed) BY <1>6 DEF Leave, DropInput
  <2> QED BY <1>6, <2>1, ObligingRelease DEF NoneRefused
<1>7. (\E k \in Keys : KeyDown(k) \/ KeyUp(k)) \/ HandleShortcut \/ HandleOther
        \/ Arrive \/ SessionStops \/ UNCHANGED vars => UNCHANGED refusedButtons
  BY DEF KeyDown, KeyUp, HandleShortcut, HandleOther, Arrive, SessionStops, buttonVars, vars
<1> QED BY <1>1, <1>2, <1>3, <1>4, <1>5, <1>6, <1>7 DEF Next, Handle

\* Whatever was pressed before it, a blur (releaseAll) leaves no key and no
\* button held, for an operating system that lets go of them.
THEOREM BlurReleasesAll == Spec => BlurReleases
<1>1. Init => NoneRefused
  BY DEF Init, NoneRefused
<1>2. ASSUME NoneRefused, ButtonInv, KeyInv, os = "obliging", HandleReleaseAll
      PROVE  held' = {} /\ heldButtons' = {}
  <2>1. heldButtons \subseteq pressed
    BY <1>2 DEF NoneRefused, ButtonInv, ButtonsRemembered
  <2>2. held \subseteq First(Len(tracked))
    BY <1>2, FirstOfAll DEF KeyInv, KeysRemembered
  <2> QED BY <1>2, <2>1, <2>2, ObligingBlur
<1>3. NoneRefused /\ ButtonInv /\ KeyInv /\ [Next]_vars
        => [os = "obliging" /\ HandleReleaseAll => held' = {} /\ heldButtons' = {}]_vars
  BY <1>2
<1> QED BY <1>1, <1>3, NoneRefusedKept, ButtonInvariant, KeyInvariant, PTL DEF Spec, BlurReleases
-----------------------------------------------------------------------------
(* The end of the session.                                                 *)

\* A worker that has ended remembers no key: the drop forgot them all, and no
\* command is taken any more.
ForgottenAtEnd == live = "ended" => tracked = <<>>

LEMMA ForgottenAtEndKept ==
    ASSUME ForgottenAtEnd, [Next]_vars
    PROVE  ForgottenAtEnd'
<1>1. CASE Handle
  <2>1. \E o : Taken(o)
    BY <1>1 DEF Handle, KeyDown, KeyUp, ButtonDown, ButtonUp, HandleReleaseAll, HandleShortcut, HandleOther
  <2> QED BY <2>1, TakenNotEnded DEF ForgottenAtEnd
<1>2. CASE Leave BY <1>2 DEF Leave, DropInput, ForgottenAtEnd
<1>3. CASE Arrive \/ SessionStops \/ UNCHANGED vars
  BY <1>3 DEF Arrive, SessionStops, vars, keyVars, ForgottenAtEnd
<1> QED BY <1>1, <1>2, <1>3 DEF Next

\* However a session ends, it holds no key and no button down, where the
\* operating system lets go of them.
THEOREM EndsHoldingNothing == Spec => []NothingHeldAtEnd
<1>1. Init => NoneRefused /\ ForgottenAtEnd
  BY DEF Init, NoneRefused, ForgottenAtEnd
<1>2. ASSUME NoneRefused, ForgottenAtEnd, ButtonInv, KeyInv
      PROVE  NothingHeldAtEnd
  <2> SUFFICES ASSUME os = "obliging", live = "ended" PROVE held = {} /\ heldButtons = {}
    BY DEF NothingHeldAtEnd
  <2>1. heldButtons = {}
    BY <1>2 DEF NoneRefused, ButtonInv, ButtonsReleasedAtEnd
  <2>2. tracked = <<>>
    BY <1>2 DEF ForgottenAtEnd
  <2>3. First(Len(tracked)) = {}
    BY <2>2 DEF First
  <2>4. held \subseteq First(Len(tracked))
    BY <1>2, FirstOfAll DEF KeyInv, KeysRemembered
  <2> QED BY <2>1, <2>3, <2>4
<1> QED BY <1>1, <1>2, NoneRefusedKept, ForgottenAtEndKept, ButtonInvariant, KeyInvariant, PTL DEF Spec

\* Nothing held is forgotten, whatever fails, and the drop releases it.
THEOREM HeldIsRemembered == Spec => []HeldRemembered
<1>1. ButtonInv /\ KeyInv /\ NothingHeldAtEnd => HeldRemembered
  BY DEF ButtonInv, KeyInv, HeldRemembered
<1> QED BY <1>1, ButtonInvariant, KeyInvariant, EndsHoldingNothing, PTL
=============================================================================
