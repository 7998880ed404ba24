----------------------------- MODULE DesktopPeer -----------------------------
(***************************************************************************)
(* One desktop session's peer (src/relay.rs, src/transport.rs): the tasks  *)
(* that send to the browser, and how they start, share the way out, fail   *)
(* and end together.                                                       *)
(*                                                                         *)
(* On the relay a message leaves in parts of PartSize bytes through one    *)
(* queue shared by every task and emptied by the control loop, and the     *)
(* browser joins the parts of each channel.  On WebRTC a message goes to   *)
(* the library, and the connection's events start and end the tasks.       *)
(***************************************************************************)
EXTENDS Naturals, Sequences, Functions

CONSTANTS
    PartSize,     \* bytes in one part (32768 in the code)
    FrameLimit,   \* the longest message a Writer takes (2 MiB)
    ReplyLimit,   \* the longest clipboard reply (20000)
    MaxLength,    \* bound: the longest message a task produces
    RelaySlots,   \* capacity of relay_tx (32)
    MaxMessages,  \* bound: messages handed over by all tasks together
    Optional      \* which of "audio" and "files" are enabled

ASSUME PeerAssumption ==
    /\ PartSize \in Nat \ {0} /\ ReplyLimit \in 1 .. PartSize
    /\ FrameLimit \in Nat /\ MaxLength \in Nat \ {0}
    /\ RelaySlots \in Nat \ {0} /\ MaxMessages \in Nat
    /\ Optional \subseteq {"audio", "files"}

\* The tasks: "starter" is RelayPeer::start itself, which runs in the control
\* loop; "focus" is the task of a text focus query.
Senders == {"starter", "worker", "focus", "capture", "audio", "files"}
Channels == {"input", "video", "audio", "files"}

Channel(s) ==
    IF s \in {"starter", "worker", "focus"} THEN "input"
    ELSE IF s = "capture" THEN "video" ELSE s

\* One part of message n of a sender.
Pieces == [from : Senders, n : Nat, part : Nat, last : {"no", "yes"}]

\* A frame of an ended session; and what a channel has "joined" at first.
Stray == [from |-> "stray", n |-> 0, part |-> 0, last |-> "yes"]

VARIABLES
    link,     \* "relay", or the state of the WebRTC connection
    peer,     \* "starting", "open", or "closed": closed and dropped
    stop,     \* the stop flag: "clear" or "set"
    task,     \* sender -> "absent", "idle", "sending", "waiting" or "ended"
    serial,   \* sender -> its messages so far
    len,      \* sender -> the length of its message
    part,     \* sender -> the part it sends next
    queue,    \* relay_tx/relay_rx
    joined,   \* channel -> the last part the browser took from it
    arrived,  \* sender -> the last message the browser has completed
    garbled   \* the channels on which parts were joined that do not belong together

outVars  == <<serial, len, part>>
pipeVars == <<queue, joined, arrived, garbled>>
vars == <<link, peer, stop, task, outVars, pipeVars>>

Relayed == link = "relay"

\* The tasks of a relay peer start with it, those of WebRTC with its events.
\* The queue may hold frames of an ended session.
Init ==
    /\ link \in {"relay", "new"}
    /\ peer = "starting" /\ stop = "clear"
    /\ task = [s \in Senders |->
                 IF Relayed /\ (s \in {"starter", "worker", "focus"} \/ s \in Optional \ {"audio"})
                 THEN "idle" ELSE "absent"]
    /\ serial = [s \in Senders |-> 0]
    /\ len = [s \in Senders |-> 0] /\ part = [s \in Senders |-> 0]
    /\ \E k \in 0 .. RelaySlots : queue = [i \in 1 .. k |-> Stray]
    /\ joined = [c \in Channels |-> Stray]
    /\ arrived = [s \in Senders |-> 0] /\ garbled = {}
-----------------------------------------------------------------------------
(* Writer::send.                                                           *)

\* The number of chunks of l bytes, and whether the last flag is set on one.
Chunks(l) == (l + PartSize - 1) \div PartSize

IsLast(l, p) == (p + 1) * PartSize >= l

\* Mutant: a clipboard reply is as long as the clipboard.
WholeReply(l) == l

\* A clipboard reply over the limit is replaced by an error code.
Reply(l) == IF l <= ReplyLimit THEN l ELSE 1

\* Clipboard replies, frames and listings vary, the rest is short.
Lengths(s) ==
    IF s = "worker" THEN {Reply(l) : l \in 1 .. MaxLength}
    ELSE IF s \in {"capture", "files"} THEN 1 .. MaxLength ELSE {1}

\* Mutant: an error of the capture thread ends only itself.
CaptureIsOptional == {"starter", "worker"}

\* The tasks whose error ends the session.  The files worker closes its
\* channel, which on the relay is the session.
Vital == {"starter", "worker", "capture"} \cup (IF Relayed THEN {"files"} ELSE {})

\* An error: a focus query forgets it, a failed start drops the peer.
Fail(s) ==
    /\ task' = [task EXCEPT ![s] = IF s = "focus" THEN "idle" ELSE "ended"]
    /\ stop' = IF s \in Vital THEN "set" ELSE stop
    /\ peer' = IF s = "starter" THEN "closed" ELSE peer

\* What makes a task produce a message: its loop has looked at the stop flag;
\* commands and requests reach a relay peer only through the control loop.
Produces(s) ==
    /\ task[s] = "idle"
    /\ IF s = "starter" THEN TRUE
       ELSE stop = "clear" /\ peer # "starting"
    /\ s = "focus" => task["worker"] = "idle"

\* A message too long is refused before its first part.
Begin(s) ==
    /\ Produces(s)
    /\ IF Relayed
       THEN \E l \in Lengths(s) :
               IF l > FrameLimit
               THEN Fail(s) /\ UNCHANGED outVars
               ELSE /\ SumFunction(serial) < MaxMessages
                    /\ task' = [task EXCEPT ![s] = "sending"]
                    /\ serial' = [serial EXCEPT ![s] = @ + 1]
                    /\ len' = [len EXCEPT ![s] = l] /\ part' = [part EXCEPT ![s] = 0]
                    /\ UNCHANGED <<peer, stop>>
       ELSE task' = [task EXCEPT ![s] = "waiting"] /\ UNCHANGED <<peer, stop, outVars>>
    /\ UNCHANGED <<link, pipeVars>>

\* Mutant: a part is sent without looking at the stop flag.
ChecksNothing(s) ==
    /\ task[s] = "sending"
    /\ task' = [task EXCEPT ![s] = "waiting"]
    /\ UNCHANGED <<link, peer, stop, outVars, pipeVars>>

\* Before each part: "Relay closed".
CheckStop(s) ==
    /\ task[s] = "sending"
    /\ IF stop = "set"
       THEN Fail(s)
       ELSE task' = [task EXCEPT ![s] = "waiting"] /\ UNCHANGED <<peer, stop>>
    /\ UNCHANGED <<link, outVars, pipeVars>>

\* The message is out.  When the starter's is, RelayPeer::start goes on to
\* start the media and returns to the loop, which enters the peer.
Sent(s) ==
    IF s = "starter"
    THEN /\ peer' = "open"
         /\ task' = [t \in Senders |->
                       IF t = "starter" THEN "ended"
                       ELSE IF t = "capture" \/ (t = "audio" /\ t \in Optional) THEN "idle"
                       ELSE task[t]]
    ELSE task' = [task EXCEPT ![s] = "idle"] /\ UNCHANGED peer

Piece(s) ==
    [from |-> s, n |-> serial[s], part |-> part[s],
     last |-> IF IsLast(len[s], part[s]) THEN "yes" ELSE "no"]

\* Mutant: the queue holds one frame too many.
RoomPlusOne == Len(queue) <= RelaySlots

Room == Len(queue) < RelaySlots

Enqueue(s) ==
    /\ Relayed /\ task[s] = "waiting"
    /\ Room
    /\ queue' = Append(queue, Piece(s))
    /\ IF part[s] + 1 = Chunks(len[s])
       THEN Sent(s) /\ UNCHANGED part
       ELSE /\ task' = [task EXCEPT ![s] = "sending"]
            /\ part' = [part EXCEPT ![s] = @ + 1]
            /\ UNCHANGED peer
    /\ UNCHANGED <<link, stop, serial, len, joined, arrived, garbled>>

\* Mutant: a part waits for the queue as long as it takes.
WaitsOn(s) == FALSE

Deadline(s) == Len(queue) = RelaySlots \/ peer = "closed"

\* Two seconds without room; or the loop, and the queue with it, is gone.
GiveUp(s) ==
    /\ Relayed /\ task[s] = "waiting"
    /\ Deadline(s)
    /\ Fail(s)
    /\ UNCHANGED <<link, outVars, pipeVars>>

\* The library takes a message or refuses it.
LibrarySends(s) ==
    /\ ~Relayed /\ task[s] = "waiting"
    /\ \/ task' = [task EXCEPT ![s] = "idle"] /\ UNCHANGED <<peer, stop>>
       \/ Fail(s)
    /\ UNCHANGED <<link, outVars, pipeVars>>

\* A capture, a command, or the start of the task itself fails.
WorkFails(s) ==
    /\ s \notin {"starter", "focus"}
    /\ task[s] = "idle"
    /\ Fail(s)
    /\ UNCHANGED <<link, outVars, pipeVars>>

\* Between two messages a task looks at the stop flag.
Leave(s) ==
    /\ task[s] = "idle"
    /\ stop = "set" /\ s # "starter"
    /\ task' = [task EXCEPT ![s] = "ended"]
    /\ UNCHANGED <<link, peer, stop, outVars, pipeVars>>

Step(s) == CheckStop(s) \/ Enqueue(s) \/ GiveUp(s) \/ LibrarySends(s) \/ Leave(s)
-----------------------------------------------------------------------------
(* The control loop, the browser behind it, and the end of the peer.       *)

\* Does piece b continue what the channel has joined up to piece a?
Follows(a, b) ==
    IF a.last = "yes"
    THEN b.part = 0
    ELSE b.from = a.from /\ b.n = a.n /\ b.part = a.part + 1

\* Mutant: frames are forwarded for whichever session they carry.
AnySession(b) == b # Stray

OfThisPeer(b) == peer = "open" /\ b # Stray

\* relay_rx.recv, while the loop is not inside RelayPeer::start; a frame of a
\* session that is gone is dropped.
Forward ==
    /\ Relayed /\ peer # "starting"
    /\ queue # <<>>
    /\ queue' = Tail(queue)
    /\ LET b == Head(queue)
           c == Channel(b.from)
       IN  IF OfThisPeer(b)
           THEN /\ joined' = [joined EXCEPT ![c] = b]
                /\ garbled' = IF Follows(joined[c], b) THEN garbled ELSE garbled \cup {c}
                /\ arrived' = IF b.last = "yes" THEN [arrived EXCEPT ![b.from] = b.n] ELSE arrived
           ELSE UNCHANGED <<joined, garbled, arrived>>
    /\ UNCHANGED <<link, peer, stop, task, outVars>>

\* The command queue or the queue of file requests overflows.
Overflow ==
    /\ peer = "open"
    /\ \E s \in {"worker", "files"} : task[s] \notin {"absent", "ended"}
    /\ stop' = "set"
    /\ UNCHANGED <<link, peer, task, outVars, pipeVars>>

\* session.close, a bad frame or the loop's end; on the relay also the tick
\* that finds the peer stopped.
Close ==
    /\ peer = "open"
    /\ peer' = "closed" /\ stop' = "set"
    /\ link' = IF Relayed THEN link ELSE "closed"
    /\ UNCHANGED <<task, outVars, pipeVars>>

Reap == Relayed /\ stop = "set" /\ Close
-----------------------------------------------------------------------------
(* The WebRTC connection.                                                  *)

\* A failed or late negotiation stops and closes the connection.
Negotiate ==
    /\ ~Relayed /\ peer = "starting"
    /\ \/ peer' = "open" /\ UNCHANGED <<link, stop>>
       \/ peer' = "closed" /\ stop' = "set" /\ link' = "closed"
    /\ UNCHANGED <<task, outVars, pipeVars>>

Negotiated == ~Relayed /\ peer # "starting" /\ link # "closed"

\* The first time, the media start, whatever happened since the answer.
Connect ==
    /\ Negotiated /\ link \in {"new", "disconnected"}
    /\ link' = "connected"
    /\ task' = [s \in Senders |->
                  IF task["capture"] = "absent" /\ (s = "capture" \/ (s = "audio" /\ s \in Optional))
                  THEN "idle" ELSE task[s]]
    /\ UNCHANGED <<peer, stop, outVars, pipeVars>>

Disconnect ==
    /\ Negotiated /\ link = "connected"
    /\ link' = "disconnected"
    /\ UNCHANGED <<peer, stop, task, outVars, pipeVars>>

\* Failed, or closed by the other side.
ConnectionFails ==
    /\ Negotiated
    /\ link' \in {"disconnected", "closed"} /\ stop' = "set"
    /\ UNCHANGED <<peer, task, outVars, pipeVars>>

\* A channel of each name is used once; another one is closed.
OpenChannel ==
    /\ Negotiated /\ link = "connected"
    /\ \/ /\ task["worker"] = "absent"
          /\ task' = [task EXCEPT !["worker"] = "idle", !["focus"] = "idle"]
       \/ /\ task["files"] = "absent" /\ "files" \in Optional
          /\ task' = [task EXCEPT !["files"] = "idle"]
    /\ UNCHANGED <<link, peer, stop, outVars, pipeVars>>

\* The watcher looks every 250 ms.
Watch ==
    /\ Negotiated
    /\ stop = "set"
    /\ link' = "closed"
    /\ UNCHANGED <<peer, stop, task, outVars, pipeVars>>
-----------------------------------------------------------------------------
Next ==
    \/ \E s \in Senders : Begin(s) \/ Step(s) \/ WorkFails(s)
    \/ Forward \/ Overflow \/ Close
    \/ Negotiate \/ Connect \/ Disconnect \/ ConnectionFails \/ OpenChannel \/ Watch

Spec == Init /\ [][Next]_vars

\* Tasks, the loop with its tick, the negotiation with its deadline and the
\* watcher run; a message the starter or a task has begun goes on.
Fairness ==
    /\ \A s \in Senders : WF_vars(Step(s))
    /\ WF_vars(Begin("starter")) /\ WF_vars(Forward) /\ WF_vars(Reap)
    /\ WF_vars(Negotiate) /\ WF_vars(Watch)

FairSpec == Spec /\ Fairness
-----------------------------------------------------------------------------
TypeOK ==
    /\ link \in {"relay", "new", "connected", "disconnected", "closed"}
    /\ peer \in {"starting", "open", "closed"} /\ stop \in {"clear", "set"}
    /\ task \in [Senders -> {"absent", "idle", "sending", "waiting", "ended"}]
    /\ serial \in [Senders -> Nat] /\ len \in [Senders -> 0 .. MaxLength]
    /\ part \in [Senders -> Nat]
    /\ \A s \in Senders :
          task[s] \in {"sending", "waiting"} /\ Relayed => len[s] > 0 /\ part[s] < Chunks(len[s])
    /\ queue \in Seq(Pieces \cup {Stray}) /\ Len(queue) <= RelaySlots
    /\ joined \in [Channels -> Pieces \cup {Stray}]
    /\ arrived \in [Senders -> Nat] /\ garbled \subseteq Channels

\* Every part the browser takes from a channel continues the message it is
\* joining or begins one where the last was complete: the parts of two senders
\* never mix, and nothing follows a message abandoned in the middle.
WholeMessages == garbled = {}

\* A message joined in part is completed, unless the session stops: no task
\* leaves the browser waiting for the rest and goes on.
PartialResolved ==
    \A c \in Channels : joined[c].last = "no" ~> joined[c].last = "yes" \/ stop = "set"

\* The start is decided although the loop that empties the queue is the one
\* that waits for room in it; and once the session stops, by whichever task,
\* every task ends and the peer or its connection is closed.
StopEndsAll ==
    /\ peer = "starting" ~> peer # "starting"
    /\ stop = "set" ~> /\ \A s \in Senders : task[s] \in {"absent", "ended"}
                       /\ IF Relayed THEN peer = "closed" ELSE link = "closed"

\* What a sender has handed over that may still arrive: the message it is
\* sending, and those whose last part is in the queue.
Pending(s) ==
    IF peer = "closed" \/ ~Relayed THEN {}
    ELSE (IF task[s] \in {"sending", "waiting"} THEN {serial[s]} ELSE {})
         \cup {queue[i].n : i \in {j \in DOMAIN queue : queue[j].from = s /\ queue[j].last = "yes"}}

Pipe == INSTANCE MessagePipe WITH
    Senders <- Senders, handed <- serial,
    pending <- [s \in Senders |-> Pending(s)], arrived <- arrived

\* The parts, the shared queue and its deadlines implement a pipe per sender.
PipeSpec == Pipe!Spec

\* What the control loop sees of this peer: one session with a relay whose
\* writers put frames into its queue, among those of an ended session.
Loop == INSTANCE ControlPlane WITH
    Sessions <- {"own", "stray"}, Commands <- {},
    AllowTerminal <- FALSE, AllowDesktop <- TRUE, AllowReboot <- FALSE,
    ElevationAvailable <- FALSE, RelaySlots <- RelaySlots, RebootLimit <- 0,
    WireSlots <- 1, MaxDeliveries <- 0, OneAtATime <- FALSE,
    link <- "up", grants <- <<>>, peers <- {}, ended <- {},
    relays <- IF peer = "open" THEN {"own"} ELSE {},
    stopped <- IF peer = "open" /\ stop = "set" THEN {"own"} ELSE {},
    relayQ <- [i \in DOMAIN queue |-> IF queue[i] = Stray THEN "stray" ELSE "own"],
    writing <- IF \E s \in Senders : task[s] = "waiting" THEN {"own"} ELSE {},
    rebootSeen <- {}, rebootsHere <- <<>>, expired <- {}, deliveries <- <<>>,
    down <- <<>>, up <- <<>>, srv <- <<>>, blame <- {}

\* The queue is gone with the loop: there is no loop left to see the failure.
Abandons == peer = "closed" /\ Room /\ \E s \in Senders : GiveUp(s)

\* Whatever the tasks of a started peer do, in any order, the control loop
\* sees a step its writers are allowed, or nothing: no part enters the queue
\* that was not checked against the stop flag, none of a session that was
\* closed before the check, and the flag is never cleared.
TasksFit ==
    [][Relayed /\ peer # "starting" /\ ~Abandons
         /\ ((\E s \in Senders : Begin(s) \/ Step(s) \/ WorkFails(s)) \/ Overflow)
       => Loop!Writers \/ UNCHANGED Loop!vars]_vars
=============================================================================
