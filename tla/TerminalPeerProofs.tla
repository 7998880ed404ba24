------------------------- MODULE TerminalPeerProofs -------------------------
(***************************************************************************)
(* Proofs about TerminalPeer, for queues of any capacity: its types, that  *)
(* a published shell can always be killed, and that over the relay the     *)
(* shell never outlives its peer.                                          *)
(***************************************************************************)
EXTENDS TerminalPeer, TLAPS

\* Every reachable state is well typed: no queue exceeds its capacity, and no
\* read is handed on before it was taken.
THEOREM TypeCorrect == Spec => []TypeOK
<1> USE SlotsAssumption
<1>1. Init => TypeOK
  BY DEF Init, TypeOK
<1>2. TypeOK /\ [Next]_vars => TypeOK'
  <2> SUFFICES ASSUME TypeOK, [Next]_vars
               PROVE  TypeOK'
    OBVIOUS
  <2> USE DEF TypeOK, ownerVars, shellVars, inputVars, outputVars
  <2>1. CASE RelayStart
    BY <2>1 DEF RelayStart, TasksOn
  <2>2. CASE Answer \/ OnOpen
    BY <2>2 DEF Answer, OnOpen
  <2>3. CASE Start
    BY <2>3 DEF Start, StartFails, Spawn, Publish, StartTasks, TasksOn
  <2>4. CASE ShellExits \/ JobEnds \/ Produces
    BY <2>4 DEF ShellExits, JobEnds, Produces
  <2>5. CASE BrowserTypes \/ InputWrites \/ InputEnds
    BY <2>5 DEF BrowserTypes, InputWrites, InputEnds
  <2>6. CASE ReaderReads
    BY <2>6 DEF ReaderReads, OutputRoom
  <2>7. CASE SenderSends
    BY <2>7 DEF SenderSends, FinishSending
  <2>8. CASE ChannelCloses
    BY <2>8 DEF ChannelCloses
  <2>9. CASE OnClose \/ ClosePeer
    BY <2>9 DEF OnClose, ClosePeer, KillShell
  <2>10. CASE UNCHANGED vars
    BY <2>10 DEF vars
  <2> QED
    BY <2>1, <2>2, <2>3, <2>4, <2>5, <2>6, <2>7, <2>8, <2>9, <2>10 DEF Next
<1> QED
  BY <1>1, <1>2, PTL DEF Spec

\* Before terminal::start there is no shell; from publication on a running
\* shell's killer is in the slot that on_close and the peer empty.
StartedInv ==
    /\ channel = "none" => starter = "idle"
    /\ starter \in {"idle", "starting"} => shell = "none"
    /\ ShellHasKiller

\* A running shell can be killed, whichever of the callback, the browser and
\* the control loop comes first.
THEOREM PublishedShellHasKiller == Spec => []ShellHasKiller
<1>1. Init => StartedInv
  BY DEF Init, StartedInv, ShellHasKiller
<1>2. StartedInv /\ [Next]_vars => StartedInv'
  <2> SUFFICES ASSUME StartedInv, [Next]_vars
               PROVE  StartedInv'
    OBVIOUS
  <2> USE DEF StartedInv, ShellHasKiller, ownerVars, shellVars
  <2>1. CASE RelayStart \/ Answer \/ OnOpen
    BY <2>1 DEF RelayStart, Answer, OnOpen
  <2>2. CASE Start
    BY <2>2 DEF Start, StartFails, Spawn, Publish, StartTasks
  <2>3. CASE ShellExits \/ JobEnds
    BY <2>3 DEF ShellExits, JobEnds
  <2>4. CASE OnClose \/ ClosePeer
    BY <2>4 DEF OnClose, ClosePeer, KillShell
  <2>5. CASE \/ Produces \/ BrowserTypes \/ InputWrites \/ InputEnds
             \/ ReaderReads \/ SenderSends \/ ChannelCloses
    BY <2>5 DEF Produces, BrowserTypes, InputWrites, InputEnds, ReaderReads,
                SenderSends, FinishSending, ChannelCloses
  <2>6. CASE UNCHANGED vars
    BY <2>6 DEF vars
  <2> QED
    BY <2>1, <2>2, <2>3, <2>4, <2>5, <2>6 DEF Next
<1>3. StartedInv => ShellHasKiller
  BY DEF StartedInv
<1> QED
  BY <1>1, <1>2, <1>3, PTL DEF Spec

\* Over the relay terminal::start is over before the peer can be closed.
RelayedInv == transport = "relay" =>
    /\ starter \in {"idle", "done", "failed"}
    /\ peer = "none" => shell = "none"
    /\ peer = "closed" => shell # "running"

\* Over the relay the shell never outlives its peer: the control loop that
\* starts the shell is the one that closes the peer.  Over WebRTC it may
\* (terminal_orphan).
THEOREM RelayedShellDiesWithPeer == Spec => []RelayedShellDies
<1>1. Init => RelayedInv
  BY DEF Init, RelayedInv
<1>2. RelayedInv /\ ShellHasKiller /\ [Next]_vars => RelayedInv'
  <2> SUFFICES ASSUME RelayedInv, ShellHasKiller, [Next]_vars
               PROVE  RelayedInv'
    OBVIOUS
  <2> USE DEF RelayedInv, ShellHasKiller, ownerVars, shellVars
  <2>1. CASE RelayStart
    BY <2>1 DEF RelayStart
  <2>2. CASE Answer \/ OnOpen \/ Start \/ ChannelCloses
    BY <2>2 DEF Answer, OnOpen, Start, StartFails, Spawn, Publish, StartTasks, ChannelCloses
  <2>3. CASE ShellExits \/ JobEnds
    BY <2>3 DEF ShellExits, JobEnds
  <2>4. CASE OnClose \/ ClosePeer
    BY <2>4 DEF OnClose, ClosePeer, KillShell
  <2>5. CASE Produces \/ BrowserTypes \/ InputWrites \/ InputEnds \/ ReaderReads \/ SenderSends
    BY <2>5 DEF Produces, BrowserTypes, InputWrites, InputEnds, ReaderReads, SenderSends
  <2>6. CASE UNCHANGED vars
    BY <2>6 DEF vars
  <2> QED
    BY <2>1, <2>2, <2>3, <2>4, <2>5, <2>6 DEF Next
<1>3. RelayedInv => RelayedShellDies
  BY DEF RelayedInv, RelayedShellDies, ShellDiesWithPeer
<1> QED
  BY <1>1, <1>2, <1>3, PublishedShellHasKiller, PTL DEF Spec

\* The reader that ended by itself saw the end of the terminal, after which
\* nothing is produced; the output task is drained only after such a reader.
OutputInv ==
    /\ peer = "none" \/ channel = "none" => starter = "idle"
    /\ starter # "done" => reader = "off" /\ sender = "off"
    /\ reader = "ended" /\ sender # "broken" => ~TerminalHeld /\ read = produced
    /\ sender = "drained" => reader = "ended" /\ sent = read

\* A channel closed because the shell is done has carried all its output
\* (terminal.rs, the reader and the output task).
THEOREM OutputIsComplete == Spec => []OutputComplete
<1>1. Init => OutputInv
  BY DEF Init, OutputInv
<1>2. OutputInv /\ [Next]_vars => OutputInv'
  <2> SUFFICES ASSUME OutputInv, [Next]_vars
               PROVE  OutputInv'
    OBVIOUS
  <2> USE DEF OutputInv, TerminalHeld, ownerVars, shellVars, outputVars
  <2>1. CASE RelayStart
    BY <2>1 DEF RelayStart, TasksOn
  <2>2. CASE Answer
    BY <2>2 DEF Answer
  <2>10. CASE OnOpen
    BY <2>10 DEF OnOpen
  <2>11. CASE ChannelCloses
    BY <2>11 DEF ChannelCloses
  <2>3. CASE Start
    BY <2>3 DEF Start, StartFails, Spawn, Publish, StartTasks, TasksOn
  <2>4. CASE ShellExits \/ JobEnds \/ Produces
    BY <2>4 DEF ShellExits, JobEnds, Produces
  <2>5. CASE BrowserTypes \/ InputWrites \/ InputEnds
    BY <2>5 DEF BrowserTypes, InputWrites, InputEnds
  <2>6. CASE ReaderReads
    BY <2>6 DEF ReaderReads, EndOfFile, SenderDone
  <2>7. CASE SenderSends
    BY <2>7 DEF SenderSends, FinishSending
  <2>8. CASE OnClose \/ ClosePeer
    BY <2>8 DEF OnClose, ClosePeer, KillShell
  <2>9. CASE UNCHANGED vars
    BY <2>9 DEF vars
  <2> QED
    BY <2>1, <2>2, <2>3, <2>4, <2>5, <2>6, <2>7, <2>8, <2>9, <2>10, <2>11
    DEF Next
<1>3. OutputInv => OutputComplete
  BY DEF OutputInv, OutputComplete
<1> QED
  BY <1>1, <1>2, <1>3, PTL DEF Spec
=============================================================================
