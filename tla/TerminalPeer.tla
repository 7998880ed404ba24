---------------------------- MODULE TerminalPeer ----------------------------
(***************************************************************************)
(* One terminal session: the shell that terminal::start spawns, the slot   *)
(* its killer is published in, the tasks that carry its input and output,  *)
(* and the peer that owns all of it (src/terminal.rs, with the terminal    *)
(* half of RemotePeer in src/transport.rs and of RelayPeer in src/relay.rs).*)
(*                                                                         *)
(* Over the relay the control loop itself runs terminal::start; over       *)
(* WebRTC a callback of the data channel does, while the control loop may  *)
(* close the peer.  transport says which.  Terminal contents are counted,  *)
(* not kept; a second data channel is refused at once (`used`), and        *)
(* messages over 16 KiB and resizes change nothing kept here.              *)
(***************************************************************************)
EXTENDS Naturals

CONSTANTS
    InputSlots,   \* capacity of input_tx (32 in the code)
    OutputSlots,  \* capacity of output_tx (32 in the code)
    MaxOutput     \* bound: reads the terminal's output fills

ASSUME SlotsAssumption ==
    InputSlots \in Nat \ {0} /\ OutputSlots \in Nat \ {0} /\ MaxOutput \in Nat

VARIABLES
    transport,\* "relay", the WSS relay, or "webrtc"
    peer,     \* "none", "open" or "closed": RemotePeer or RelayPeer
    channel,  \* "none", "open" or "closed"; over the relay, closed is the stop flag
    onClose,  \* its on_close handler: "unset", "set" or "ran"
    starter,  \* how far terminal::start is
    killer,   \* the killer slot: "none" or "some"
    shell,    \* "none", "running" or "ended"
    job,      \* a process the shell left behind, holding the terminal: "none" or "some"
    inputs,   \* messages in the input queue
    inTask,   \* the task that writes them to the terminal: "off", "on", "ended"
    produced, \* reads the terminal's output fills so far
    read,     \* of those, the ones the reader took
    sent,     \* of those, the ones the channel took
    reader,   \* the blocking reader: "off", "on", "ended"
    sender    \* the output task: "off", "on", "drained" or "broken"

shellVars  == <<shell, job, killer>>
inputVars  == <<inputs, inTask>>
outputVars == <<produced, read, sent, reader, sender>>
ownerVars  == <<transport, peer, channel, onClose>>
vars == <<ownerVars, starter, shellVars, inputVars, outputVars>>

Init ==
    /\ transport \in {"relay", "webrtc"}
    /\ peer = "none" /\ channel = "none" /\ onClose = "unset"
    /\ starter = "idle"
    /\ killer = "none" /\ shell = "none" /\ job = "none"
    /\ inputs = 0 /\ inTask = "off"
    /\ produced = 0 /\ read = 0 /\ sent = 0
    /\ reader = "off" /\ sender = "off"
-----------------------------------------------------------------------------
(* The shell and its killer.                                               *)

TerminalHeld == shell = "running" \/ job = "some"

\* Mutant: the killer is only looked at, and the shell left alone.
TakesKillerOnly == killer' = "none" /\ UNCHANGED <<shell, job>>

\* killer.take(), then kill: the shell ends, what it started may not.
KillShell ==
    /\ killer' = "none"
    /\ IF killer = "some" /\ shell = "running"
       THEN shell' = "ended" /\ job' \in {"none", "some"}
       ELSE UNCHANGED <<shell, job>>

\* The shell exits by itself, or on the end of file of a dropped writer.
ShellExits ==
    /\ shell = "running"
    /\ shell' = "ended"
    /\ job' \in {"none", "some"}
    /\ UNCHANGED <<ownerVars, starter, killer, inputVars, outputVars>>

JobEnds ==
    /\ shell = "ended" /\ job = "some"
    /\ job' = "none"
    /\ UNCHANGED <<ownerVars, starter, shell, killer, inputVars, outputVars>>

Produces ==
    /\ TerminalHeld
    /\ produced < MaxOutput
    /\ produced' = produced + 1
    /\ UNCHANGED <<ownerVars, starter, shellVars, inputVars, read, sent, reader, sender>>
-----------------------------------------------------------------------------
(* terminal::start.                                                        *)

TasksOn == inTask' = "on" /\ reader' = "on" /\ sender' = "on"

\* RelayPeer::start in the control loop; an error drops the peer, and the
\* shell with it if there is one already.
RelayStart ==
    /\ transport = "relay"
    /\ peer = "none"
    /\ \/ /\ peer' = "open" /\ channel' = "open"
          /\ starter' = "done"
          /\ shell' = "running" /\ killer' = "some"
          /\ TasksOn
       \/ /\ peer' = "closed" /\ channel' = "closed"
          /\ starter' = "failed"
          /\ shell' \in {"none", "ended"}
          /\ UNCHANGED <<killer, inTask, reader, sender>>
    /\ UNCHANGED <<transport, onClose, job, inputs, produced, read, sent>>

\* RemotePeer::answer; the browser opens the data channel later.
Answer ==
    /\ transport = "webrtc"
    /\ peer = "none"
    /\ peer' = "open"
    /\ UNCHANGED <<transport, channel, onClose, starter, shellVars, inputVars, outputVars>>

\* on_data_channel installs the handlers and on_open runs.
OnOpen ==
    /\ transport = "webrtc"
    /\ peer = "open" /\ channel = "none"
    /\ channel' = "open" /\ onClose' = "set"
    /\ starter' = "starting"
    /\ UNCHANGED <<transport, peer, shellVars, inputVars, outputVars>>

\* An error of terminal::start: on_open closes the channel.
StartFails ==
    /\ starter \in {"starting", "published"}
    /\ starter' = "failed"
    /\ channel' = "closed"
    /\ UNCHANGED <<transport, peer, onClose, shellVars, inputVars, outputVars>>

Spawn ==
    /\ starter = "starting"
    /\ starter' = "spawned"
    /\ shell' = "running"
    /\ UNCHANGED <<ownerVars, killer, job, inputVars, outputVars>>

\* Mutant: the killer is never published.
ForgetsKiller ==
    /\ starter = "spawned"
    /\ starter' = "published"
    /\ UNCHANGED <<ownerVars, shellVars, inputVars, outputVars>>

\* *killer.lock() = Some(child.clone_killer())
Publish ==
    /\ starter = "spawned"
    /\ starter' = "published"
    /\ killer' = "some"
    /\ UNCHANGED <<ownerVars, shell, job, inputVars, outputVars>>

StartTasks ==
    /\ starter = "published"
    /\ starter' = "done"
    /\ TasksOn
    /\ UNCHANGED <<ownerVars, shellVars, inputs, produced, read, sent>>
-----------------------------------------------------------------------------
(* Input.                                                                  *)

SenderDone == sender \in {"drained", "broken"}

\* A message that finds the queue full, or its task gone, closes the channel.
BrowserTypes ==
    /\ starter = "done" /\ peer = "open" /\ channel = "open"
    /\ IF inputs < InputSlots /\ inTask = "on"
       THEN inputs' = inputs + 1 /\ UNCHANGED channel
       ELSE channel' = "closed" /\ UNCHANGED inputs
    /\ UNCHANGED <<transport, peer, onClose, starter, shellVars, inTask, outputVars>>

\* write_all returns once the terminal has taken the input.
InputWrites ==
    /\ inTask = "on" /\ inputs > 0
    /\ TerminalHeld
    /\ inputs' = inputs - 1
    /\ UNCHANGED <<ownerVars, starter, shellVars, inTask, outputVars>>

\* The write fails, or the channel and its handler, which hold input_tx, are
\* gone with the peer and the output task.
InputEnds ==
    /\ inTask = "on"
    /\ \/ inputs > 0 /\ ~TerminalHeld
       \/ inputs = 0 /\ peer = "closed" /\ SenderDone
    /\ inTask' = "ended" /\ inputs' = 0
    /\ UNCHANGED <<ownerVars, starter, shellVars, outputVars>>
-----------------------------------------------------------------------------
(* Output.                                                                 *)

\* Mutant: the reader stops as soon as the shell is gone.
StopsWithShell == shell = "ended"

\* read returns 0 or an error: nothing holds the terminal and it is drained.
EndOfFile == ~TerminalHeld /\ read = produced

\* Mutant: the channel holds one read too many.
OutputRoomPlusOne == read - sent <= OutputSlots

OutputRoom == read - sent < OutputSlots

ReaderReads ==
    /\ reader = "on"
    /\ IF EndOfFile
       THEN reader' = "ended" /\ UNCHANGED read
       ELSE /\ read < produced
            /\ SenderDone \/ OutputRoom
            /\ reader' = IF SenderDone THEN "ended" ELSE "on"
            /\ read' = IF SenderDone THEN read ELSE read + 1
    /\ UNCHANGED <<ownerVars, starter, shellVars, inputVars, produced, sent, sender>>

\* Mutant: the output task leaves the channel open.
LeavesChannelOpen(how) == sender' = how /\ UNCHANGED channel

FinishSending(how) == sender' = how /\ channel' = "closed"

SenderSends ==
    /\ sender = "on"
    /\ \/ /\ sent < read /\ channel = "open"
          /\ sent' = sent + 1
          /\ UNCHANGED <<sender, channel>>
       \/ /\ sent < read  \* the channel is closed, slow, or over 1 MiB behind
          /\ FinishSending("broken")
          /\ UNCHANGED sent
       \/ /\ sent = read /\ reader = "ended"
          /\ FinishSending("drained")
          /\ UNCHANGED sent
    /\ UNCHANGED <<transport, peer, onClose, starter, shellVars, inputVars, produced, read, reader>>
-----------------------------------------------------------------------------
(* The end of the session.                                                 *)

\* The browser closes the data channel, or it breaks.
ChannelCloses ==
    /\ transport = "webrtc"
    /\ channel = "open"
    /\ channel' = "closed"
    /\ UNCHANGED <<transport, peer, onClose, starter, shellVars, inputVars, outputVars>>

OnClose ==
    /\ channel = "closed" /\ onClose = "set"
    /\ onClose' = "ran"
    /\ KillShell
    /\ UNCHANGED <<transport, peer, channel, starter, inputVars, outputVars>>

\* RemotePeer::close, or the peer is dropped: session.close, relay.start, the
\* end of the connection, or the cleanup tick for a relay that stopped.
ClosePeer ==
    /\ peer = "open"
    /\ peer' = "closed"
    /\ channel' = IF channel = "none" THEN "none" ELSE "closed"
    /\ KillShell
    /\ UNCHANGED <<transport, onClose, starter, inputVars, outputVars>>

Reap == transport = "relay" /\ channel = "closed" /\ ClosePeer

Start == StartFails \/ Spawn \/ Publish \/ StartTasks

Next ==
    \/ RelayStart \/ Answer \/ OnOpen \/ Start
    \/ ShellExits \/ JobEnds \/ Produces
    \/ BrowserTypes \/ InputWrites \/ InputEnds
    \/ ReaderReads \/ SenderSends
    \/ ChannelCloses \/ OnClose \/ ClosePeer

Spec == Init /\ [][Next]_vars

\* The agent's own tasks keep running; the shell, the browser and the server
\* owe nothing.
Fairness ==
    /\ WF_vars(Start) /\ WF_vars(OnClose) /\ WF_vars(Reap)
    /\ WF_vars(ReaderReads) /\ WF_vars(SenderSends) /\ WF_vars(InputEnds)

FairSpec == Spec /\ Fairness
-----------------------------------------------------------------------------
TypeOK ==
    /\ transport \in {"relay", "webrtc"}
    /\ peer \in {"none", "open", "closed"}
    /\ channel \in {"none", "open", "closed"}
    /\ onClose \in {"unset", "set", "ran"}
    /\ killer \in {"none", "some"} /\ job \in {"none", "some"}
    /\ starter \in {"idle", "starting", "spawned", "published", "done", "failed"}
    /\ shell \in {"none", "running", "ended"}
    /\ inputs \in 0 .. InputSlots
    /\ inTask \in {"off", "on", "ended"} /\ reader \in {"off", "on", "ended"}
    /\ sender \in {"off", "on", "drained", "broken"}
    /\ produced \in Nat /\ read \in 0 .. produced /\ sent \in 0 .. read
    /\ read - sent <= OutputSlots

\* A shell that runs can be killed: from its publication on, the slot that
\* on_close and the peer empty holds its killer, and whoever empties the slot
\* ends the shell.
ShellHasKiller == shell = "running" => starter = "spawned" \/ killer = "some"

\* docs/adr/0001-agent-transport.md: "Session disconnect must kill its shell".
\* Once the peer is closed, terminal::start has returned and no handler is left
\* to run, the shell does not run.
ShellDiesWithPeer ==
    peer = "closed" /\ starter \in {"done", "failed"} /\ onClose # "set" =>
        shell # "running"

\* Over the relay, where nothing runs beside RelayPeer::start, that is so.
RelayedShellDies == transport = "relay" => ShellDiesWithPeer

\* A channel that is closed because the shell is done carried all its output:
\* nothing is still in the terminal or in the queue.
OutputComplete == sender = "drained" => sent = produced

\* A shell that ended, leaving nothing behind, closes its channel, whatever is
\* still queued in either direction.
ExitClosesChannel == shell = "ended" /\ job = "none" ~> channel = "closed"

\* Over the relay a closed channel -- a queue that overflowed, a chunk that
\* timed out -- ends the shell without the server's help.
ClosedChannelKills == transport = "relay" /\ channel = "closed" ~> shell # "running"

\* No task of a session outlives its peer and its terminal.
TasksEnd ==
    peer = "closed" /\ ~TerminalHeld /\ starter \in {"done", "failed"} ~>
        /\ inTask # "on" /\ reader # "on"
        /\ sender # "on"

\* Whichever of shell, channel and peer ends first, the others follow.
EndsTogether == ExitClosesChannel /\ ClosedChannelKills /\ TasksEnd
=============================================================================
