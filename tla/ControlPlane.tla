---------------------------- MODULE ControlPlane ----------------------------
(***************************************************************************)
(* The agent's control connection: the loop of `connect` (src/main.rs)     *)
(* that handles the server's signals one at a time, reaps finished relays  *)
(* and forwards relay frames, together with the writer tasks that fill the *)
(* relay queue and the server at the other end of the web socket.          *)
(*                                                                         *)
(* A handler of the loop runs to completion before the next select!, so it *)
(* is one action; the writers, the server and the network interleave with  *)
(* it.  Every `?`, `ensure!` or `bail!` in a handler leaves the loop, which *)
(* ends the connection and everything the loop owned.                      *)
(*                                                                         *)
(* ICE candidates, pings, heartbeats and answers change nothing the loop   *)
(* remembers and are left out, and so are the payloads.                    *)
(***************************************************************************)
EXTENDS Naturals, Sequences, FiniteSets

CONSTANTS
    Sessions,            \* the session UUIDs the server may use
    Commands,            \* the UUIDs of reboot commands
    AllowTerminal,       \* --allow-terminal
    AllowDesktop,        \* --allow-desktop
    AllowReboot,         \* --allow-reboot
    ElevationAvailable,  \* terminal::elevation_available
    RelaySlots,          \* capacity of relay_tx (32 in the code)
    RebootLimit,         \* commands remembered per connection (64 in the code)
    WireSlots,           \* bound: messages in flight in each direction
    MaxDeliveries,       \* bound: how often the server delivers one command
    OneAtATime           \* whether the server asks for a session only when it has none

ASSUME SwitchesAssumption ==
    /\ AllowTerminal \in BOOLEAN /\ AllowDesktop \in BOOLEAN
    /\ AllowReboot \in BOOLEAN /\ ElevationAvailable \in BOOLEAN
    /\ OneAtATime \in BOOLEAN
ASSUME BoundsAssumption ==
    /\ RelaySlots \in Nat \ {0} /\ WireSlots \in Nat \ {0}
    /\ RebootLimit \in Nat /\ MaxDeliveries \in Nat

VARIABLES
    link,        \* whether `connect` is inside its loop
    grants,      \* session -> what it was accepted for
    peers,       \* `sessions`: those with a WebRTC peer
    relays,      \* those with a RelayPeer
    stopped,     \* relays whose stop flag is set (`finished`)
    relayQ,      \* relay_tx/relay_rx: the sessions of the queued frames
    writing,     \* sessions with a chunk past the stop check, not yet queued
    rebootSeen,  \* `reboot_seen`
    rebootsHere, \* command -> times reboot::request ran it on this connection
    expired,     \* commands whose expiresAt has passed
    deliveries,  \* command -> times the server has sent it
    down,        \* server -> agent, in order
    up,          \* agent -> server, in order
    srv,         \* the server's view of each session
    ended,       \* sessions that held the grant and lost it
    blame        \* ended sessions whose message or frames made the loop fail

pipeVars   == <<relayQ, writing>>
agentVars  == <<grants, peers, relays, stopped, ended>>
rebootVars == <<rebootSeen, rebootsHere, expired, deliveries>>
vars == <<link, agentVars, pipeVars, rebootVars, down, up, srv, blame>>
-----------------------------------------------------------------------------
Kinds   == {"Terminal", "Desktop"}
Grant   == [kind : Kinds, elevation : BOOLEAN]
NoGrant == [kind |-> "None", elevation |-> FALSE]

Granted == {s \in Sessions : grants[s] # NoGrant}

DownMessage ==
    [type : {"session.request"}, id : Sessions, grant : Grant]
      \cup [type : {"webrtc.offer", "relay.start", "session.close"}, id : Sessions]
      \cup [type : {"relay.data"}, id : Sessions, valid : BOOLEAN]
      \cup [type : {"device.reboot"}, command : Commands]
      \cup [type : {"agent.updateNow"}]

UpMessage ==
    [type : {"session.accept", "relay.ready", "relay.data", "session.close"}, id : Sessions]
      \cup [type : {"session.reject"}, id : Sessions,
            code : {"TERMINAL_ELEVATION_UNAVAILABLE", "SESSION_BUSY", "CAPABILITY_UNAVAILABLE"}]

Init ==
    /\ link = "down"
    /\ grants = [s \in Sessions |-> NoGrant]
    /\ peers = {} /\ relays = {} /\ stopped = {} /\ ended = {}
    /\ relayQ = <<>> /\ writing = {}
    /\ rebootSeen = {} /\ expired = {}
    /\ rebootsHere = [c \in Commands |-> 0]
    /\ deliveries = [c \in Commands |-> 0]
    /\ down = <<>> /\ up = <<>>
    /\ srv = [s \in Sessions |-> "new"]
    /\ blame = {}
-----------------------------------------------------------------------------
(* The connection.                                                         *)

\* connect up to its loop: every collection starts empty.  The server has
\* given up on the sessions of the previous connection.
Connect ==
    /\ link = "down"
    /\ link' = "up"
    /\ rebootsHere' = [c \in Commands |-> 0]
    /\ srv' = [s \in Sessions |-> IF srv[s] = "new" THEN "new" ELSE "closed"]
    /\ blame' = {}
    /\ UNCHANGED <<agentVars, pipeVars, rebootSeen, expired, deliveries, down, up>>

\* Leaving the loop: the peers are closed, and the relays, the grants, the
\* queue and reboot_seen go with connect's frame.
LeaveLoop(blamed) ==
    /\ link' = "down"
    /\ grants' = [s \in Sessions |-> NoGrant]
    /\ peers' = {} /\ relays' = {} /\ stopped' = {}
    /\ ended' = ended \cup Granted
    /\ relayQ' = <<>> /\ writing' = {}
    /\ rebootSeen' = {}
    /\ down' = <<>> /\ up' = <<>>
    /\ blame' = blamed \cap ended
    /\ UNCHANGED <<rebootsHere, expired, deliveries, srv>>

\* The stream ends, a send fails, or a signal is malformed, stale or unknown.
Disconnect ==
    /\ link = "up"
    /\ LeaveLoop({})
-----------------------------------------------------------------------------
(* Handling the next signal of the stream.                                 *)

\* Mutant: the channel holds one frame too many.
QueueHasRoomPlusOne == Len(relayQ) <= RelaySlots

QueueHasRoom == Len(relayQ) < RelaySlots

Incoming(type) == link = "up" /\ down # <<>> /\ Head(down).type = type
Received       == down' = Tail(down)
Send(m)        == Len(up) < WireSlots /\ up' = Append(up, m)

ElevationBlocked(g) == g.kind = "Terminal" /\ g.elevation /\ ~ElevationAvailable
Capable(g) == \/ g.kind = "Terminal" /\ AllowTerminal
              \/ g.kind = "Desktop" /\ AllowDesktop

\* Mutant: the SESSION_BUSY test is lost.
AcceptsWhileBusy(g) == ~ElevationBlocked(g) /\ Capable(g)

Accepts(g) == ~ElevationBlocked(g) /\ Capable(g) /\ Granted = {}

\* Mutant: the grant outlives the relay.
ReleaseRelayOnly(id) ==
    /\ relays' = relays \ {id} /\ stopped' = stopped \ {id}
    /\ ended' = ended \cup ({id} \cap Granted)
    /\ UNCHANGED grants

\* relays.remove(&id); grants.remove(&id).
Release(id) ==
    /\ relays' = relays \ {id} /\ stopped' = stopped \ {id}
    /\ grants' = [grants EXCEPT ![id] = NoGrant]
    /\ ended' = ended \cup ({id} \cap Granted)

HandleRequest ==
    /\ Incoming("session.request")
    /\ LET m == Head(down)
           elevation == m.grant.kind = "Terminal" /\ m.grant.elevation
           code == IF ElevationBlocked(m.grant) THEN "TERMINAL_ELEVATION_UNAVAILABLE"
                   ELSE IF Granted # {} THEN "SESSION_BUSY" ELSE "CAPABILITY_UNAVAILABLE"
       IN  \/ /\ Accepts(m.grant)
              /\ grants' = [grants EXCEPT ![m.id] = [kind |-> m.grant.kind, elevation |-> elevation]]
              /\ Send([type |-> "session.accept", id |-> m.id])
           \/ /\ ~Accepts(m.grant)
              /\ Send([type |-> "session.reject", id |-> m.id, code |-> code])
              /\ UNCHANGED grants
    /\ Received
    /\ UNCHANGED <<link, peers, relays, stopped, ended, pipeVars, rebootVars, srv, blame>>

\* RemotePeer::answer may fail; the session then stays granted, without a peer.
HandleOffer ==
    /\ Incoming("webrtc.offer")
    /\ LET id == Head(down).id
       IN  IF id \in Granted /\ id \notin peers
           THEN /\ peers' \in {peers, peers \cup {id}}
                /\ Received
                /\ UNCHANGED <<link, grants, relays, stopped, ended, pipeVars, rebootVars, up, srv, blame>>
           ELSE LeaveLoop({id})

\* RelayPeer::start can fail: a terminal that cannot be spawned, or the
\* capabilities of a desktop, sent into a relay queue that only this loop
\* drains and given up after two seconds when the queue is full.
HandleRelayStart ==
    /\ Incoming("relay.start")
    /\ LET id == Head(down).id
           announces == grants[id].kind = "Desktop"
       IN  IF id \notin Granted \/ id \in relays
           THEN LeaveLoop({id})
           ELSE \/ /\ announces => QueueHasRoom
                   /\ peers' = peers \ {id}
                   /\ relays' = relays \cup {id}
                   /\ relayQ' = IF announces THEN Append(relayQ, id) ELSE relayQ
                   /\ Send([type |-> "relay.ready", id |-> id])
                   /\ Received
                   /\ UNCHANGED <<link, grants, stopped, ended, writing, rebootVars, srv, blame>>
                \/ announces /\ ~QueueHasRoom /\ LeaveLoop({relayQ[i] : i \in 1 .. Len(relayQ)})
                \/ ~announces /\ LeaveLoop({})

\* A frame the relay refuses ends the session; one for no relay is ignored.
\* That a frame may overflow the peer's own queue is RelayFails.
HandleRelayData ==
    /\ Incoming("relay.data")
    /\ LET m == Head(down)
       IN  IF m.id \in relays /\ ~m.valid
           THEN /\ Release(m.id)
                /\ Send([type |-> "session.close", id |-> m.id])
           ELSE UNCHANGED <<relays, stopped, grants, ended, up>>
    /\ Received
    /\ UNCHANGED <<link, peers, pipeVars, rebootVars, srv, blame>>

\* Mutant: closing a session leaves its WebRTC peer.
LeavesPeer(id) == Release(id) /\ UNCHANGED peers

\* sessions.remove(&id), and the peer is closed.
EndSession(id) == Release(id) /\ peers' = peers \ {id}

HandleClose ==
    /\ Incoming("session.close")
    /\ EndSession(Head(down).id)
    /\ Received
    /\ UNCHANGED <<link, pipeVars, rebootVars, up, srv, blame>>

\* Mutant: reboot_seen is filled but not consulted.
AdmitsReplay(c) == c \notin expired /\ Cardinality(rebootSeen) < RebootLimit

Admits(c) == c \notin expired /\ Cardinality(rebootSeen) < RebootLimit /\ c \notin rebootSeen

\* The command runs only with --allow-reboot; either way it is answered.
HandleReboot ==
    /\ Incoming("device.reboot")
    /\ LET c == Head(down).command
           ran == IF AllowReboot THEN 1 ELSE 0
       IN  IF Admits(c)
           THEN /\ rebootSeen' = rebootSeen \cup {c}
                /\ rebootsHere' = [rebootsHere EXCEPT ![c] = @ + ran]
                /\ Received
                /\ UNCHANGED <<link, agentVars, pipeVars, expired, deliveries, up, srv, blame>>
           ELSE LeaveLoop({})

\* check_and_stage runs inside the handler and leaves the loop's state alone.
HandleUpdateNow ==
    /\ Incoming("agent.updateNow")
    /\ Received
    /\ UNCHANGED <<link, agentVars, pipeVars, rebootVars, up, srv, blame>>
-----------------------------------------------------------------------------
(* The other branches of the select!.                                      *)

Finished == relays \cap stopped

\* cleanup.tick.  At most one relay exists (RelaysGranted), so the loop over
\* the ended ones has at most one turn.
Cleanup ==
    /\ link = "up"
    /\ \E s \in Finished :
          /\ EndSession(s)
          /\ Send([type |-> "session.close", id |-> s])
    /\ UNCHANGED <<link, pipeVars, rebootVars, down, srv, blame>>

\* Mutant: frames are forwarded for whichever session they carry.
AnyRelay(s) == TRUE

HasRelay(s) == s \in relays

\* relay_rx.recv: a frame whose relay is gone is dropped.
ForwardFrame ==
    /\ link = "up"
    /\ relayQ # <<>>
    /\ relayQ' = Tail(relayQ)
    /\ IF HasRelay(Head(relayQ))
       THEN Send([type |-> "relay.data", id |-> Head(relayQ)])
       ELSE UNCHANGED up
    /\ UNCHANGED <<link, agentVars, writing, rebootVars, down, srv, blame>>
-----------------------------------------------------------------------------
(* The tasks of a relay peer: Writer::send checks the stop flag, then      *)
(* waits up to two seconds for a slot.  Several tasks of one session may   *)
(* be past the check; those that stay keep the session in writing.         *)

WriterChecks(s) ==
    /\ s \in relays \ stopped
    /\ s \notin writing
    /\ writing' = writing \cup {s}
    /\ UNCHANGED <<link, agentVars, relayQ, rebootVars, down, up, srv, blame>>

WriterQueues(s) ==
    /\ s \in writing
    /\ QueueHasRoom
    /\ relayQ' = Append(relayQ, s)
    /\ writing' \in {writing, writing \ {s}}
    /\ UNCHANGED <<link, agentVars, rebootVars, down, up, srv, blame>>

\* The deadline passes: the frame is lost, and a task other than audio and
\* text focus stops the session.
WriterGivesUp(s) ==
    /\ s \in writing
    /\ ~QueueHasRoom
    /\ writing' \in {writing, writing \ {s}}
    /\ stopped' \in {stopped, stopped \cup ({s} \cap relays)}
    /\ UNCHANGED <<link, grants, peers, relays, ended, relayQ, rebootVars, down, up, srv, blame>>

\* The shell exits, capture or input fails, or a queue of the peer overflows.
RelayFails(s) ==
    /\ s \in relays \ stopped
    /\ stopped' = stopped \cup {s}
    /\ UNCHANGED <<link, grants, peers, relays, ended, pipeVars, rebootVars, down, up, srv, blame>>
-----------------------------------------------------------------------------
(* The server.  It uses a session UUID for one session only, forwards the  *)
(* browser's signals for a session it has seen accepted and not closed,    *)
(* and may deliver a reboot command again.                                 *)

ServerSends(m) == link = "up" /\ Len(down) < WireSlots /\ down' = Append(down, m)

ServerRequest(s, g) ==
    /\ srv[s] = "new"
    /\ OneAtATime => \A t \in Sessions : srv[t] \notin {"requested", "open"}
    /\ ServerSends([type |-> "session.request", id |-> s, grant |-> g])
    /\ srv' = [srv EXCEPT ![s] = "requested"]
    /\ UNCHANGED <<link, agentVars, pipeVars, rebootVars, up, blame>>

BrowserSignal(s) ==
    [type : {"webrtc.offer", "relay.start"}, id : {s}]
      \cup [type : {"relay.data"}, id : {s}, valid : BOOLEAN]

ServerForwards(s) ==
    /\ srv[s] = "open"
    /\ \E m \in BrowserSignal(s) : ServerSends(m)
    /\ UNCHANGED <<link, agentVars, pipeVars, rebootVars, up, srv, blame>>

ServerCloses(s) ==
    /\ srv[s] \in {"requested", "open"}
    /\ ServerSends([type |-> "session.close", id |-> s])
    /\ srv' = [srv EXCEPT ![s] = "closed"]
    /\ UNCHANGED <<link, agentVars, pipeVars, rebootVars, up, blame>>

ServerUpdates ==
    /\ ServerSends([type |-> "agent.updateNow"])
    /\ UNCHANGED <<link, agentVars, pipeVars, rebootVars, up, srv, blame>>

ServerReboots(c) ==
    /\ c \notin expired
    /\ deliveries[c] < MaxDeliveries
    /\ ServerSends([type |-> "device.reboot", command |-> c])
    /\ deliveries' = [deliveries EXCEPT ![c] = @ + 1]
    /\ UNCHANGED <<link, agentVars, pipeVars, rebootSeen, rebootsHere, expired, up, srv, blame>>

CommandExpires(c) ==
    /\ deliveries[c] > 0
    /\ c \notin expired
    /\ expired' = expired \cup {c}
    /\ UNCHANGED <<link, agentVars, pipeVars, rebootSeen, rebootsHere, deliveries, down, up, srv, blame>>

ServerReceives ==
    /\ up # <<>>
    /\ up' = Tail(up)
    /\ LET m == Head(up)
           view == IF m.type = "session.accept" /\ srv[m.id] = "requested" THEN "open"
                   ELSE IF m.type \in {"session.reject", "session.close"} THEN "closed"
                   ELSE srv[m.id]
       IN  srv' = [srv EXCEPT ![m.id] = view]
    /\ UNCHANGED <<link, agentVars, pipeVars, rebootVars, down, blame>>
-----------------------------------------------------------------------------
HandleSignal ==
    \/ HandleRequest \/ HandleOffer \/ HandleRelayStart \/ HandleRelayData
    \/ HandleClose \/ HandleReboot \/ HandleUpdateNow

Writers == \E s \in Sessions :
    WriterChecks(s) \/ WriterQueues(s) \/ WriterGivesUp(s) \/ RelayFails(s)

Server ==
    \/ \E s \in Sessions : ServerForwards(s) \/ ServerCloses(s)
    \/ \E s \in Sessions, g \in Grant : ServerRequest(s, g)
    \/ \E c \in Commands : ServerReboots(c) \/ CommandExpires(c)
    \/ ServerUpdates \/ ServerReceives

Next == Connect \/ Disconnect \/ HandleSignal \/ Cleanup \/ ForwardFrame \/ Writers \/ Server

Spec == Init /\ [][Next]_vars

\* select! picks among its ready branches at random, so none is passed over
\* for ever, and a branch that waits for the socket keeps the loop to itself:
\* hence strong fairness.  The server keeps reading its socket.
Fairness == SF_vars(HandleSignal) /\ SF_vars(Cleanup) /\ WF_vars(ServerReceives)

FairSpec == Spec /\ Fairness
-----------------------------------------------------------------------------
TypeOK ==
    /\ link \in {"up", "down"}
    /\ grants \in [Sessions -> Grant \cup {NoGrant}]
    /\ peers \subseteq Sessions /\ relays \subseteq Sessions /\ stopped \subseteq Sessions
    /\ ended \subseteq Sessions
    /\ relayQ \in Seq(Sessions) /\ Len(relayQ) <= RelaySlots
    /\ writing \subseteq Sessions
    /\ rebootSeen \subseteq Commands /\ expired \subseteq Commands
    /\ rebootsHere \in [Commands -> Nat] /\ deliveries \in [Commands -> Nat]
    /\ down \in Seq(DownMessage) /\ up \in Seq(UpMessage)
    /\ srv \in [Sessions -> {"new", "requested", "open", "closed"}]
    /\ blame \subseteq Sessions

\* One grant at a time: session.request is accepted only into an empty table,
\* however requests, closes and relay failures interleave.
OneGrant == Cardinality(Granted) <= 1

\* A relay carries frames only for a session that still holds its grant: each
\* of the paths that end a session gives up both or neither.
RelaysGranted == stopped \subseteq relays /\ relays \subseteq Granted

\* A session that lost its grant never holds a grant or a relay again, though
\* signals sent for it before are still arriving.
EndedHoldsNothing == ended \cap (Granted \cup relays) = {}

\* A WebRTC peer is made under a grant and ends with it, whichever path ends the
\* session: the one that may outlive it is that of a session which also has a
\* relay (an offer that comes after relay.start), when a relay frame is refused.
PeersUnderGrant ==
    [][\A s \in peers' \ Granted' : s \in peers /\ (s \in Granted => s \in relays)]_vars

\* On the wire nothing of a relay follows the session.close that ended it,
\* though its frames may still sit in the relay queue.
NoFrameAfterClose ==
    \A i, j \in 1 .. Len(up) :
        i < j /\ up[i].type = "session.close" /\ up[j].id = up[i].id =>
            up[j].type \notin {"session.accept", "relay.ready", "relay.data"}

\* A server that asks for a session only when it has no other is never told
\* that the agent is busy: a close is handled before the request after it.
NeverBusy ==
    \A i \in 1 .. Len(up) : up[i].type = "session.reject" => up[i].code # "SESSION_BUSY"

\* reboot_seen: within one connection a command delivered again never runs twice.
RebootOncePerConnection == \A c \in Commands : rebootsHere[c] <= 1

\* A relay that stopped is taken down by a later cleanup tick.  Once the
\* server takes a session for closed, by its own close or by the agent's, the
\* agent's grant and relay are eventually gone for good.
ClosedIsReleased ==
    \A s \in Sessions :
        /\ s \in stopped ~> s \notin relays
        /\ srv[s] = "closed" ~> [](s \notin Granted \cup relays)

\* The comment above relay.data: "Never let an ended session disconnect the
\* device control socket."
EndedKeepsSocket == blame = {}
-----------------------------------------------------------------------------
(* The invariant the safety properties rest on.                            *)

AtMostOneGrant == \A s, t \in Granted : s = t

Requests(i, s) == down[i].type = "session.request" /\ down[i].id = s

\* A UUID is asked for once: a request under way is the only one for its
\* session, which has never been granted.
FreshRequests ==
    \A s \in Sessions :
        /\ srv[s] = "new" => /\ s \notin Granted \cup ended
                             /\ \A i \in 1 .. Len(down) : ~Requests(i, s)
        /\ \A i \in 1 .. Len(down) : Requests(i, s) => s \notin Granted \cup ended
        /\ \A i, j \in 1 .. Len(down) : Requests(i, s) /\ Requests(j, s) => i = j

ClosesEnded == \A i \in 1 .. Len(up) : up[i].type = "session.close" => up[i].id \in ended

\* What every step preserves: one grant, relays under it, and wires on which a
\* session is asked for before it lives and closed after.
SessionInv ==
    /\ AtMostOneGrant /\ RelaysGranted /\ EndedHoldsNothing
    /\ FreshRequests /\ ClosesEnded /\ NoFrameAfterClose
-----------------------------------------------------------------------------
\* The table of grants as one slot (SessionSlot).
Slot == INSTANCE SessionSlot WITH
    holders <- Granted,
    carried <- relays,
    past <- ended

SlotSpec == Slot!Spec
=============================================================================
