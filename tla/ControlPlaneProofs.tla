-------------------------- MODULE ControlPlaneProofs --------------------------
(***************************************************************************)
(* Theorems about ControlPlane, for any sessions, commands and bounds.     *)
(***************************************************************************)
EXTENDS ControlPlane, FiniteSetTheorems, SequenceTheorems, TLAPS

LEMMA Messages ==
    /\ \A s \in Sessions, g \in Grant : [type |-> "session.request", id |-> s, grant |-> g] \in DownMessage
    /\ \A s \in Sessions : [type |-> "session.close", id |-> s] \in DownMessage
    /\ \A s \in Sessions : BrowserSignal(s) \subseteq DownMessage
    /\ [type |-> "agent.updateNow"] \in DownMessage
    /\ \A c \in Commands : [type |-> "device.reboot", command |-> c] \in DownMessage
    /\ \A s \in Sessions : [type |-> "session.accept", id |-> s] \in UpMessage
    /\ \A s \in Sessions : [type |-> "relay.ready", id |-> s] \in UpMessage
    /\ \A s \in Sessions : [type |-> "relay.data", id |-> s] \in UpMessage
    /\ \A s \in Sessions : [type |-> "session.close", id |-> s] \in UpMessage
    /\ \A s \in Sessions, c \in {"TERMINAL_ELEVATION_UNAVAILABLE", "SESSION_BUSY", "CAPABILITY_UNAVAILABLE"} :
          [type |-> "session.reject", id |-> s, code |-> c] \in UpMessage
  BY DEF DownMessage, UpMessage, BrowserSignal

\* The fields a handler reads of the message it handles.
LEMMA Fields ==
    ASSUME NEW m \in DownMessage
    PROVE  /\ m.type \in {"session.request", "webrtc.offer", "relay.start", "session.close", "relay.data"} => m.id \in Sessions
           /\ m.type = "session.request" => m.grant \in Grant
           /\ m.type = "device.reboot" => m.command \in Commands
  BY DEF DownMessage, Grant, Kinds

LEMMA UpFields == ASSUME NEW m \in UpMessage PROVE m.id \in Sessions
  BY DEF UpMessage

LEMMA NoGrantIsNone == NoGrant \notin Grant
  BY DEF NoGrant, Grant, Kinds
-----------------------------------------------------------------------------
\* Leaving the loop, from whichever handler, keeps the types.
LEMMA LeaveLoopType ==
    ASSUME TypeOK, NEW blamed, LeaveLoop(blamed)
    PROVE  TypeOK'
  BY BoundsAssumption DEF TypeOK, LeaveLoop, Granted

LEMMA SendType ==
    ASSUME TypeOK, NEW n \in UpMessage, Send(n)
    PROVE  up' \in Seq(UpMessage)
  BY DEF TypeOK, Send

LEMMA HandlerType ==
    ASSUME TypeOK, HandleSignal
    PROVE  TypeOK'
  <1> USE Messages, Fields
  <1> DEFINE m == Head(down)
  <1>1. down # <<>> /\ m \in DownMessage /\ Tail(down) \in Seq(DownMessage)
    BY DEF TypeOK, HandleSignal, HandleRequest, HandleOffer, HandleRelayStart, HandleRelayData,
           HandleClose, HandleReboot, HandleUpdateNow, Incoming
  <1>2. CASE HandleRequest
    <2>1. m.id \in Sessions /\ m.grant \in Grant
      BY <1>1, <1>2 DEF HandleRequest, Incoming
    <2>2. [kind |-> m.grant.kind, elevation |-> m.grant.kind = "Terminal" /\ m.grant.elevation] \in Grant
      BY <2>1 DEF Grant
    <2>3. grants' \in [Sessions -> Grant \cup {NoGrant}]
      BY <1>2, <2>1, <2>2 DEF HandleRequest, TypeOK
    <2>4. up' \in Seq(UpMessage)
      <3>1. PICK n \in UpMessage : Send(n)
        BY <1>2, <2>1, Messages DEF HandleRequest
      <3> QED
        BY <3>1, SendType
    <2>5. down' \in Seq(DownMessage)
      BY <1>1, <1>2 DEF HandleRequest, Received
    <2> QED
      BY <1>2, <2>3, <2>4, <2>5 DEF HandleRequest, TypeOK, pipeVars, rebootVars
  <1>3. CASE HandleOffer
    <2>1. m.id \in Sessions
      BY <1>1, <1>3 DEF HandleOffer, Incoming
    <2> QED
      BY <1>1, <1>3, <2>1, LeaveLoopType DEF HandleOffer, TypeOK, Received, pipeVars, rebootVars
  <1>4. CASE HandleRelayStart
    <2>1. m.id \in Sessions
      BY <1>1, <1>4 DEF HandleRelayStart, Incoming
    <2>2. CASE \E b : LeaveLoop(b)
      BY <2>2, LeaveLoopType
    <2>3. CASE ~ \E b : LeaveLoop(b)
      <3>1. relayQ' \in Seq(Sessions) /\ Len(relayQ') <= RelaySlots
        <4>1. relayQ' = relayQ \/ (Len(relayQ) < RelaySlots /\ relayQ' = Append(relayQ, m.id))
          BY <1>4, <2>3 DEF HandleRelayStart, QueueHasRoom
        <4>2. CASE relayQ' = relayQ
          BY <4>2 DEF TypeOK
        <4>3. ASSUME Len(relayQ) < RelaySlots, relayQ' = Append(relayQ, m.id)
              PROVE  relayQ' \in Seq(Sessions) /\ Len(relayQ') = Len(relayQ) + 1
          BY <2>1, <4>3, AppendProperties DEF TypeOK
        <4> QED
          BY <4>1, <4>2, <4>3, BoundsAssumption DEF TypeOK
      <3>2. up' \in Seq(UpMessage)
        <4>1. Send([type |-> "relay.ready", id |-> m.id])
          BY <1>4, <2>3 DEF HandleRelayStart, QueueHasRoom
        <4> QED
          BY <2>1, <4>1, Messages, SendType
      <3>3. down' \in Seq(DownMessage)
        BY <1>1, <1>4, <2>3 DEF HandleRelayStart, Received
      <3> QED
        BY <1>4, <2>1, <2>3, <3>1, <3>2, <3>3 DEF HandleRelayStart, TypeOK, rebootVars
    <2> QED
      BY <2>2, <2>3
  <1>5. CASE HandleRelayData
    <2>1. m.id \in Sessions
      BY <1>1, <1>5 DEF HandleRelayData, Incoming
    <2>2. up' \in Seq(UpMessage)
      <3>1. up' = up \/ Send([type |-> "session.close", id |-> m.id])
        BY <1>5 DEF HandleRelayData
      <3> QED
        BY <2>1, <3>1, Messages, SendType DEF TypeOK
    <2>3. down' \in Seq(DownMessage)
      BY <1>1, <1>5 DEF HandleRelayData, Received
    <2>4. grants' \in [Sessions -> Grant \cup {NoGrant}]
      BY <1>5, <2>1 DEF HandleRelayData, Release, TypeOK
    <2> QED
      BY <1>5, <2>1, <2>2, <2>3, <2>4 DEF HandleRelayData, Release, TypeOK, pipeVars, rebootVars
  <1>6. CASE HandleClose
    <2>1. m.id \in Sessions
      BY <1>1, <1>6 DEF HandleClose, Incoming
    <2>2. grants' \in [Sessions -> Grant \cup {NoGrant}]
      BY <1>6, <2>1 DEF HandleClose, EndSession, Release, TypeOK
    <2>3. down' \in Seq(DownMessage)
      BY <1>1, <1>6 DEF HandleClose, Received
    <2> QED
      BY <1>6, <2>1, <2>2, <2>3 DEF HandleClose, EndSession, Release, TypeOK, pipeVars, rebootVars
  <1>7. CASE HandleReboot
    <2>1. m.command \in Commands
      BY <1>1, <1>7 DEF HandleReboot, Incoming
    <2>2. CASE \E b : LeaveLoop(b)
      BY <2>2, LeaveLoopType
    <2>3. CASE ~ \E b : LeaveLoop(b)
      <3>1. rebootsHere' \in [Commands -> Nat]
        <4>1. PICK n \in Nat : rebootsHere' = [rebootsHere EXCEPT ![m.command] = @ + n]
          <5> DEFINE ran == IF AllowReboot THEN 1 ELSE 0
          <5>1. ran \in Nat
            OBVIOUS
          <5>2. rebootsHere' = [rebootsHere EXCEPT ![m.command] = @ + ran]
            BY <1>7, <2>3 DEF HandleReboot
          <5> HIDE DEF ran
          <5> QED
            BY <5>1, <5>2
        <4> QED
          BY <2>1, <4>1 DEF TypeOK
      <3>2. rebootSeen' \subseteq Commands
        BY <1>7, <2>1, <2>3 DEF HandleReboot, TypeOK
      <3>3. down' \in Seq(DownMessage)
        BY <1>1, <1>7, <2>3 DEF HandleReboot, Received
      <3> QED
        BY <1>7, <2>3, <3>1, <3>2, <3>3 DEF HandleReboot, TypeOK, pipeVars, agentVars
    <2> QED
      BY <2>2, <2>3
  <1>8. CASE HandleUpdateNow
    BY <1>1, <1>8 DEF HandleUpdateNow, TypeOK, Received, pipeVars, rebootVars, agentVars
  <1> QED
    BY <1>2, <1>3, <1>4, <1>5, <1>6, <1>7, <1>8 DEF HandleSignal

LEMMA LoopType ==
    ASSUME TypeOK, Connect \/ Disconnect \/ Cleanup \/ ForwardFrame \/ Writers
    PROVE  TypeOK'
  <1>1. CASE Connect
    BY <1>1 DEF Connect, TypeOK, agentVars, pipeVars
  <1>2. CASE Disconnect
    BY <1>2, LeaveLoopType DEF Disconnect
  <1>3. CASE Cleanup
    <2>1. up' \in Seq(UpMessage)
      BY <1>3, Messages DEF Cleanup, EndSession, Finished, Release, TypeOK, Send
    <2> QED
      BY <1>3, <2>1 DEF Cleanup, EndSession, Finished, Release, TypeOK, pipeVars, rebootVars
  <1>4. CASE ForwardFrame
    <2>1. Head(relayQ) \in Sessions
      BY <1>4 DEF ForwardFrame, TypeOK
    <2>2. up' \in Seq(UpMessage)
      <3>1. up' = up \/ Send([type |-> "relay.data", id |-> Head(relayQ)])
        BY <1>4 DEF ForwardFrame
      <3> QED
        BY <2>1, <3>1, Messages, SendType DEF TypeOK
    <2>3. relayQ' \in Seq(Sessions) /\ Len(relayQ') <= RelaySlots
      BY <1>4, BoundsAssumption DEF ForwardFrame, TypeOK
    <2> QED
      BY <1>4, <2>2, <2>3 DEF ForwardFrame, TypeOK, agentVars, rebootVars
  <1>5. ASSUME NEW s \in Sessions, WriterChecks(s) \/ WriterQueues(s) \/ WriterGivesUp(s) \/ RelayFails(s)
        PROVE  TypeOK'
    <2> USE DEF agentVars, pipeVars, rebootVars
    <2>1. CASE WriterChecks(s)
      BY <2>1 DEF WriterChecks, TypeOK
    <2>2. CASE WriterQueues(s)
      <3>1. relayQ' \in Seq(Sessions) /\ Len(relayQ') <= RelaySlots
        BY <2>2, BoundsAssumption DEF WriterQueues, QueueHasRoom, TypeOK
      <3> QED
        BY <2>2, <3>1 DEF WriterQueues, QueueHasRoom, TypeOK
    <2>3. CASE WriterGivesUp(s)
      BY <2>3 DEF WriterGivesUp, TypeOK
    <2>4. CASE RelayFails(s)
      BY <2>4 DEF RelayFails, TypeOK
    <2> QED
      BY <1>5, <2>1, <2>2, <2>3, <2>4
  <1> QED
    BY <1>1, <1>2, <1>3, <1>4, <1>5 DEF Writers

LEMMA ServerType ==
    ASSUME TypeOK, Server
    PROVE  TypeOK'
  <1>0. ASSUME NEW n \in DownMessage, ServerSends(n)
        PROVE  down' \in Seq(DownMessage)
    BY <1>0 DEF ServerSends, TypeOK
  <1> USE DEF agentVars, pipeVars, rebootVars
  <1>1. ASSUME NEW s \in Sessions, ServerForwards(s) \/ ServerCloses(s)
        PROVE  TypeOK'
    <2>1. down' \in Seq(DownMessage)
      BY <1>0, <1>1, Messages DEF ServerForwards, ServerCloses
    <2> QED
      BY <1>1, <2>1 DEF ServerForwards, ServerCloses, TypeOK, ServerSends
  <1>2. ASSUME NEW s \in Sessions, NEW g \in Grant, ServerRequest(s, g)
        PROVE  TypeOK'
    <2>1. down' \in Seq(DownMessage)
      BY <1>0, <1>2, Messages DEF ServerRequest
    <2> QED
      BY <1>2, <2>1 DEF ServerRequest, TypeOK
  <1>3. ASSUME NEW c \in Commands, ServerReboots(c) \/ CommandExpires(c)
        PROVE  TypeOK'
    <2>1. down' \in Seq(DownMessage)
      BY <1>0, <1>3, Messages DEF ServerReboots, CommandExpires, TypeOK
    <2> QED
      BY <1>3, <2>1 DEF ServerReboots, CommandExpires, TypeOK, ServerSends
  <1>4. CASE ServerUpdates
    <2>1. down' \in Seq(DownMessage)
      BY <1>0, <1>4, Messages DEF ServerUpdates
    <2> QED
      BY <1>4, <2>1 DEF ServerUpdates, TypeOK, ServerSends
  <1>5. CASE ServerReceives
    <2>1. Head(up) \in UpMessage /\ up' \in Seq(UpMessage)
      BY <1>5 DEF ServerReceives, TypeOK
    <2>2. Head(up).id \in Sessions
      BY <2>1, UpFields
    <2> QED
      BY <1>5, <2>1, <2>2 DEF ServerReceives, TypeOK
  <1> QED
    BY <1>1, <1>2, <1>3, <1>4, <1>5 DEF Server

\* Every reachable state has the types the loop's collections, the queue and
\* the wires are declared with; the relay queue never exceeds its capacity.
THEOREM TypeCorrect == Spec => []TypeOK
  <1>1. Init => TypeOK
    BY BoundsAssumption DEF Init, TypeOK
  <1>2. ASSUME TypeOK, [Next]_vars
        PROVE  TypeOK'
    <2>1. CASE UNCHANGED vars
      BY <2>1, <1>2 DEF TypeOK, vars, agentVars, pipeVars, rebootVars
    <2> QED
      BY <1>2, <2>1, HandlerType, LoopType, ServerType DEF Next
  <1> QED
    BY <1>1, <1>2, PTL DEF Spec
-----------------------------------------------------------------------------
(* What a step does to the slot and to each wire.                          *)

Takes(id) ==
    /\ Granted = {} /\ Granted' = {id}
    /\ link = "up" /\ down # <<>> /\ Requests(1, id)
    /\ down' = Tail(down)
    /\ UNCHANGED <<relays, stopped, ended>>

Carries(id) ==
    /\ id \in Granted \ relays
    /\ Granted' = Granted /\ relays' = relays \cup {id}
    /\ UNCHANGED <<stopped, ended>>

Ends(id) ==
    /\ Granted' = Granted \ {id} /\ relays' = relays \ {id} /\ stopped' = stopped \ {id}
    /\ ended' = ended \cup ({id} \cap Granted)

Leaves == Granted' = {} /\ relays' = {} /\ stopped' = {} /\ ended' = ended \cup Granted

Stays ==
    /\ Granted' = Granted /\ relays' = relays /\ ended' = ended
    /\ stopped' \subseteq stopped \cup relays

SlotStep == Leaves \/ Stays \/ \E id \in Sessions : Takes(id) \/ Carries(id) \/ Ends(id)

DownStep ==
    \/ down' = down
    \/ down' = <<>>
    \/ down # <<>> /\ down' = Tail(down)
    \/ \E n \in DownMessage :
          /\ down' = Append(down, n)
          /\ n.type = "session.request" => srv[n.id] = "new" /\ srv'[n.id] = "requested"

UpStep ==
    \/ up' = up
    \/ up' = <<>>
    \/ up # <<>> /\ up' = Tail(up)
    \/ \E n \in UpMessage :
          /\ up' = Append(up, n)
          /\ n.type \in {"session.accept", "relay.ready"} => n.id \in Granted'
          /\ n.type = "relay.data" => n.id \in relays'
          /\ n.type = "session.close" => n.id \in ended'

SrvStep == \A s \in Sessions : srv'[s] = "new" => srv[s] = "new"

LEMMA GrantsOne ==
    ASSUME TypeOK, NEW id \in Sessions, NEW g \in Grant, grants' = [grants EXCEPT ![id] = g]
    PROVE  Granted' = Granted \cup {id}
  BY NoGrantIsNone DEF Granted, TypeOK

LEMMA GrantsNone ==
    ASSUME TypeOK, NEW id \in Sessions, grants' = [grants EXCEPT ![id] = NoGrant]
    PROVE  Granted' = Granted \ {id}
  BY DEF Granted, TypeOK

LEMMA LeaveLoopStep ==
    ASSUME NEW blamed, LeaveLoop(blamed)
    PROVE  Leaves /\ down' = <<>> /\ up' = <<>> /\ SrvStep
  BY DEF LeaveLoop, Leaves, Granted, SrvStep

LEMMA HandlerStep ==
    ASSUME TypeOK, RelaysGranted, HandleSignal
    PROVE  SlotStep /\ DownStep /\ UpStep /\ SrvStep
  <1> DEFINE m == Head(down)
  <1> DEFINE goal == SlotStep /\ DownStep /\ UpStep /\ SrvStep
  <1>0. ASSUME NEW b, LeaveLoop(b)
        PROVE  goal
    BY <1>0, LeaveLoopStep DEF SlotStep, DownStep, UpStep
  <1>1. down # <<>> /\ m \in DownMessage /\ m = down[1] /\ link = "up"
    BY DEF TypeOK, HandleSignal, HandleRequest, HandleOffer, HandleRelayStart, HandleRelayData,
           HandleClose, HandleReboot, HandleUpdateNow, Incoming
  <1>2. CASE HandleRequest
    <2>1. m.id \in Sessions /\ m.grant \in Grant /\ Requests(1, m.id) /\ down' = Tail(down)
      BY <1>1, <1>2, Fields DEF HandleRequest, Incoming, Requests, Received
    <2> DEFINE g == [kind |-> m.grant.kind, elevation |-> m.grant.kind = "Terminal" /\ m.grant.elevation]
               codes == {"TERMINAL_ELEVATION_UNAVAILABLE", "SESSION_BUSY", "CAPABILITY_UNAVAILABLE"}
               accepts == /\ Granted = {}
                          /\ grants' = [grants EXCEPT ![m.id] = g]
                          /\ up' = Append(up, [type |-> "session.accept", id |-> m.id])
               rejects == /\ UNCHANGED grants
                          /\ \E c \in codes : up' = Append(up, [type |-> "session.reject", id |-> m.id, code |-> c])
    <2>2. accepts \/ rejects
      BY <1>2 DEF HandleRequest, Accepts, Send
    <2>3. CASE rejects
      <3>1. Stays
        BY <1>2, <2>3 DEF HandleRequest, Stays, Granted
      <3>2. UpStep
        BY <2>1, <2>3, Messages DEF UpStep
      <3> QED
        BY <1>1, <1>2, <2>1, <3>1, <3>2 DEF HandleRequest, SlotStep, DownStep, SrvStep
    <2>4. CASE accepts
      <3>1. g \in Grant
        BY <2>1 DEF Grant
      <3>2. Granted' = {m.id}
        BY <2>1, <2>4, <3>1, GrantsOne
      <3>3. Takes(m.id)
        BY <1>1, <1>2, <2>1, <2>4, <3>2 DEF HandleRequest, Takes
      <3>4. UpStep
        BY <2>1, <2>4, <3>2, Messages DEF UpStep
      <3> QED
        BY <1>1, <1>2, <2>1, <3>3, <3>4 DEF HandleRequest, SlotStep, DownStep, SrvStep
    <2> QED
      BY <2>2, <2>3, <2>4
  <1>3. CASE HandleOffer
    <2>1. CASE \E b : LeaveLoop(b)
      BY <1>0, <2>1
    <2>2. CASE ~ \E b : LeaveLoop(b)
      BY <1>1, <1>3, <2>2 DEF HandleOffer, Received, SlotStep, Stays, DownStep, UpStep, SrvStep, Granted
    <2> QED
      BY <2>1, <2>2
  <1>4. CASE HandleRelayStart
    <2>1. CASE \E b : LeaveLoop(b)
      BY <1>0, <2>1
    <2>2. CASE ~ \E b : LeaveLoop(b)
      <3>1. m.id \in Granted \ relays
        BY <1>4, <2>2 DEF HandleRelayStart
      <3>2. Carries(m.id)
        BY <1>4, <2>2, <3>1 DEF HandleRelayStart, Carries, Granted
      <3>3. up' = Append(up, [type |-> "relay.ready", id |-> m.id])
        BY <1>4, <2>2 DEF HandleRelayStart, Send
      <3>4. m.id \in Sessions
        BY <3>1 DEF Granted
      <3>5. UpStep
        BY <3>1, <3>2, <3>3, <3>4, Messages DEF UpStep, Carries
      <3> QED
        BY <1>1, <1>4, <2>2, <3>2, <3>4, <3>5 DEF HandleRelayStart, Received, SlotStep, DownStep, SrvStep
    <2> QED
      BY <2>1, <2>2
  <1>5. CASE HandleRelayData
    <2>1. CASE m.id \in relays /\ ~m.valid
      <3>1. m.id \in Granted /\ m.id \in Sessions
        BY <2>1 DEF RelaysGranted, Granted
      <3>2. grants' = [grants EXCEPT ![m.id] = NoGrant]
        BY <1>5, <2>1 DEF HandleRelayData, Release
      <3>3. Ends(m.id) /\ m.id \in ended'
        BY <1>5, <2>1, <3>1, <3>2, GrantsNone DEF HandleRelayData, Release, Ends
      <3>4. up' = Append(up, [type |-> "session.close", id |-> m.id])
        BY <1>5, <2>1 DEF HandleRelayData, Send
      <3>5. UpStep
        BY <3>1, <3>3, <3>4, Messages DEF UpStep
      <3> QED
        BY <1>1, <1>5, <3>1, <3>3, <3>5 DEF HandleRelayData, Received, SlotStep, DownStep, SrvStep
    <2>2. CASE ~(m.id \in relays /\ ~m.valid)
      BY <1>1, <1>5, <2>2 DEF HandleRelayData, Received, SlotStep, Stays, DownStep, UpStep, SrvStep, Granted
    <2> QED
      BY <2>1, <2>2
  <1>6. CASE HandleClose
    <2>1. m.id \in Sessions
      BY <1>1, <1>6, Fields DEF HandleClose, Incoming
    <2>2. Ends(m.id)
      BY <1>6, <2>1, GrantsNone DEF HandleClose, EndSession, Release, Ends
    <2> QED
      BY <1>1, <1>6, <2>1, <2>2 DEF HandleClose, Received, SlotStep, DownStep, UpStep, SrvStep
  <1>7. CASE HandleReboot
    <2>1. CASE \E b : LeaveLoop(b)
      BY <1>0, <2>1
    <2>2. CASE ~ \E b : LeaveLoop(b)
      BY <1>1, <1>7, <2>2 DEF HandleReboot, Received, SlotStep, Stays, DownStep, UpStep, SrvStep, Granted, agentVars
    <2> QED
      BY <2>1, <2>2
  <1>8. CASE HandleUpdateNow
    BY <1>1, <1>8 DEF HandleUpdateNow, Received, SlotStep, Stays, DownStep, UpStep, SrvStep, Granted, agentVars
  <1> QED
    BY <1>2, <1>3, <1>4, <1>5, <1>6, <1>7, <1>8 DEF HandleSignal

LEMMA LoopStep ==
    ASSUME TypeOK, RelaysGranted, Connect \/ Disconnect \/ Cleanup \/ ForwardFrame \/ Writers
    PROVE  SlotStep /\ DownStep /\ UpStep /\ SrvStep
  <1>1. CASE Connect
    BY <1>1 DEF Connect, agentVars, SlotStep, Stays, DownStep, UpStep, SrvStep, Granted
  <1>2. CASE Disconnect
    BY <1>2, LeaveLoopStep DEF Disconnect, SlotStep, DownStep, UpStep
  <1>3. CASE Cleanup
    <2>1. PICK s \in stopped :
            /\ relays' = relays \ {s} /\ stopped' = stopped \ {s}
            /\ grants' = [grants EXCEPT ![s] = NoGrant]
            /\ ended' = ended \cup ({s} \cap Granted)
            /\ up' = Append(up, [type |-> "session.close", id |-> s])
      BY <1>3 DEF Cleanup, EndSession, Finished, Release, Send
    <2>2. s \in Granted /\ s \in Sessions
      BY <2>1 DEF RelaysGranted, Granted
    <2>3. Ends(s) /\ s \in ended'
      BY <2>1, <2>2, GrantsNone DEF Ends
    <2>4. UpStep
      BY <2>1, <2>2, <2>3, Messages DEF UpStep
    <2> QED
      BY <1>3, <2>2, <2>3, <2>4 DEF Cleanup, SlotStep, DownStep, SrvStep
  <1>4. CASE ForwardFrame
    <2>1. Head(relayQ) \in Sessions
      BY <1>4 DEF ForwardFrame, TypeOK
    <2>2. UpStep
      BY <1>4, <2>1, Messages DEF ForwardFrame, HasRelay, Send, UpStep, agentVars
    <2> QED
      BY <1>4, <2>2 DEF ForwardFrame, agentVars, SlotStep, Stays, DownStep, SrvStep, Granted
  <1>5. ASSUME NEW s \in Sessions, WriterChecks(s) \/ WriterQueues(s) \/ WriterGivesUp(s) \/ RelayFails(s)
        PROVE  SlotStep /\ DownStep /\ UpStep /\ SrvStep
    BY <1>5 DEF WriterChecks, WriterQueues, WriterGivesUp, RelayFails, agentVars, pipeVars,
       SlotStep, Stays, DownStep, UpStep, SrvStep, Granted
  <1> QED
    BY <1>1, <1>2, <1>3, <1>4, <1>5 DEF Writers

LEMMA ServerStep ==
    ASSUME TypeOK, Server
    PROVE  SlotStep /\ DownStep /\ UpStep /\ SrvStep
  <1> USE DEF agentVars, ServerSends
  <1>1. Stays
    BY DEF Server, ServerForwards, ServerCloses, ServerRequest, ServerReboots, CommandExpires,
           ServerUpdates, ServerReceives, Stays, Granted
  <1>2. ASSUME NEW s \in Sessions, ServerForwards(s) \/ ServerCloses(s)
        PROVE  DownStep /\ UpStep /\ SrvStep
    <2>1. PICK n \in DownMessage : n.type # "session.request" /\ down' = Append(down, n)
      BY <1>2, Messages DEF ServerForwards, ServerCloses, BrowserSignal
    <2> QED
      BY <1>2, <2>1 DEF ServerForwards, ServerCloses, DownStep, UpStep, SrvStep, TypeOK
  <1>3. ASSUME NEW s \in Sessions, NEW g \in Grant, ServerRequest(s, g)
        PROVE  DownStep /\ UpStep /\ SrvStep
    <2>1. srv[s] = "new" /\ srv' = [srv EXCEPT ![s] = "requested"]
      BY <1>3 DEF ServerRequest
    <2>2. PICK n \in DownMessage : n.id = s /\ down' = Append(down, n)
      BY <1>3, Messages DEF ServerRequest
    <2>3. srv'[s] = "requested"
      BY <2>1 DEF TypeOK
    <2>4. DownStep
      BY <2>1, <2>2, <2>3 DEF DownStep
    <2> QED
      BY <1>3, <2>1, <2>4 DEF ServerRequest, UpStep, SrvStep, TypeOK
  <1>4. ASSUME NEW c \in Commands, ServerReboots(c) \/ CommandExpires(c)
        PROVE  DownStep /\ UpStep /\ SrvStep
    BY <1>4, Messages DEF ServerReboots, CommandExpires, DownStep, UpStep, SrvStep
  <1>5. CASE ServerUpdates
    <2>1. PICK n \in DownMessage : n.type # "session.request" /\ down' = Append(down, n)
      BY <1>5, Messages DEF ServerUpdates
    <2> QED
      <3>1. DownStep
        BY <2>1 DEF DownStep
      <3>2. up' = up /\ srv' = srv
        BY <1>5 DEF ServerUpdates
      <3> QED
        BY <1>1, <3>1, <3>2 DEF SlotStep, UpStep, SrvStep
  <1>6. CASE ServerReceives
    <2>1. Head(up) \in UpMessage
      BY <1>6 DEF ServerReceives, TypeOK
    <2>2. Head(up).id \in Sessions
      BY <2>1, UpFields
    <2>3. SrvStep
      BY <1>6, <2>2 DEF ServerReceives, SrvStep, TypeOK
    <2> QED
      <3>1. up # <<>> /\ up' = Tail(up) /\ down' = down
        BY <1>6 DEF ServerReceives
      <3> QED
        BY <1>1, <2>3, <3>1 DEF SlotStep, DownStep, UpStep
  <1> QED
    BY <1>1, <1>2, <1>3, <1>4, <1>5, <1>6 DEF Server, SlotStep
LEMMA EveryStep ==
    ASSUME TypeOK, RelaysGranted, [Next]_vars
    PROVE  SlotStep /\ DownStep /\ UpStep /\ SrvStep
  <1>1. CASE UNCHANGED vars
    BY <1>1 DEF vars, agentVars, SlotStep, Stays, DownStep, UpStep, SrvStep, Granted
  <1> QED
    BY <1>1, HandlerStep, LoopStep, ServerStep DEF Next
-----------------------------------------------------------------------------
(* SessionInv is inductive.                                                *)

LEMMA SlotPreserved ==
    ASSUME TypeOK, SessionInv, SlotStep
    PROVE  AtMostOneGrant' /\ RelaysGranted' /\ EndedHoldsNothing'
  <1> USE DEF SessionInv, AtMostOneGrant, RelaysGranted, EndedHoldsNothing
  <1>1. CASE Leaves
    BY <1>1 DEF Leaves
  <1>2. CASE Stays
    BY <1>2 DEF Stays
  <1>3. ASSUME NEW id \in Sessions, Takes(id)
        PROVE  AtMostOneGrant' /\ RelaysGranted' /\ EndedHoldsNothing'
    <2>1. id \notin ended
      BY <1>3 DEF Takes, FreshRequests, TypeOK
    <2> QED
      BY <1>3, <2>1 DEF Takes
  <1>4. ASSUME NEW id \in Sessions, Carries(id)
        PROVE  AtMostOneGrant' /\ RelaysGranted' /\ EndedHoldsNothing'
    BY <1>4 DEF Carries
  <1>5. ASSUME NEW id \in Sessions, Ends(id)
        PROVE  AtMostOneGrant' /\ RelaysGranted' /\ EndedHoldsNothing'
    BY <1>5 DEF Ends
  <1> QED
    BY <1>1, <1>2, <1>3, <1>4, <1>5 DEF SlotStep

\* No step but the handling of its request gives a session a grant, and only a
\* session that was granted ends.
LEMMA NewlyHeld ==
    ASSUME SlotStep, NEW s \in Sessions, s \notin Granted \cup ended, s \in Granted' \cup ended'
    PROVE  Takes(s)
  BY DEF SlotStep, Leaves, Stays, Takes, Carries, Ends

LEMMA RequestsPreserved ==
    ASSUME TypeOK, SessionInv, SlotStep, DownStep, SrvStep
    PROVE  FreshRequests'
  <1> USE DEF SessionInv
  <1> SUFFICES ASSUME NEW s \in Sessions
               PROVE  /\ srv'[s] = "new" => /\ s \notin Granted' \cup ended'
                                            /\ \A i \in 1 .. Len(down') : ~Requests(i, s)'
                      /\ \A i \in 1 .. Len(down') : Requests(i, s)' => s \notin Granted' \cup ended'
                      /\ \A i, j \in 1 .. Len(down') : Requests(i, s)' /\ Requests(j, s)' => i = j
    BY DEF FreshRequests, Requests
  <1>0. down \in Seq(DownMessage)
    BY DEF TypeOK
  <1>1. ASSUME Takes(s)
        PROVE  srv'[s] # "new" /\ \A i \in 1 .. Len(down') : ~Requests(i, s)'
    <2>1. Requests(1, s) /\ 1 \in 1 .. Len(down) /\ down' = Tail(down)
      BY <1>0, <1>1 DEF Takes
    <2>2. srv'[s] # "new"
      BY <2>1 DEF FreshRequests, SrvStep
    <2>3. ASSUME NEW i \in 1 .. Len(down'), Requests(i, s)'
          PROVE  FALSE
      <3>1. i + 1 \in 1 .. Len(down) /\ down'[i] = down[i + 1]
        BY <1>0, <2>1, <2>3
      <3>2. Requests(i + 1, s)
        BY <2>3, <3>1 DEF Requests
      <3> QED
        BY <2>1, <3>1, <3>2 DEF FreshRequests
    <2> QED
      BY <2>2, <2>3
  <1>2. CASE down' = down
    BY <1>1, <1>2, NewlyHeld DEF FreshRequests, Requests, SrvStep
  <1>3. CASE down' = <<>>
    BY <1>1, <1>3, NewlyHeld DEF FreshRequests, SrvStep
  <1>4. CASE down # <<>> /\ down' = Tail(down)
    <2>1. ASSUME NEW i \in 1 .. Len(down')
          PROVE  i + 1 \in 1 .. Len(down) /\ (Requests(i, s)' <=> Requests(i + 1, s))
      <3>1. Len(down') = Len(down) - 1 /\ \A k \in 1 .. Len(down') : down'[k] = down[k + 1]
        BY <1>0, <1>4, HeadTailProperties
      <3>2. i + 1 \in 1 .. Len(down) /\ down'[i] = down[i + 1]
        BY <1>0, <3>1
      <3> QED
        BY <3>2 DEF Requests
    <2> QED
      BY <1>1, <2>1, NewlyHeld DEF FreshRequests, SrvStep
  <1>5. ASSUME NEW n \in DownMessage, down' = Append(down, n),
               n.type = "session.request" => srv[n.id] = "new" /\ srv'[n.id] = "requested"
        PROVE  /\ srv'[s] = "new" => /\ s \notin Granted' \cup ended'
                                     /\ \A i \in 1 .. Len(down') : ~Requests(i, s)'
               /\ \A i \in 1 .. Len(down') : Requests(i, s)' => s \notin Granted' \cup ended'
               /\ \A i, j \in 1 .. Len(down') : Requests(i, s)' /\ Requests(j, s)' => i = j
    <2>1. Len(down') = Len(down) + 1 /\ down'[Len(down) + 1] = n
          /\ \A i \in 1 .. Len(down) : down'[i] = down[i]
      BY <1>0, <1>5
    <2>2. \A i \in 1 .. Len(down) : Requests(i, s)' <=> Requests(i, s)
      BY <2>1 DEF Requests
    <2>3. \A i \in 1 .. Len(down') : i = Len(down) + 1 /\ Requests(i, s)' => srv[s] = "new" /\ srv'[s] = "requested"
      BY <1>5, <2>1 DEF Requests
    <2>4. \A i \in 1 .. Len(down') : i \in 1 .. Len(down) \/ i = Len(down) + 1
      BY <1>0, <2>1
    <2> QED
      <3>1. s \in Granted' \cup ended' => s \in Granted \cup ended \/ Takes(s)
        BY NewlyHeld
      <3>2. ASSUME srv'[s] = "new"
            PROVE  s \notin Granted' \cup ended' /\ \A i \in 1 .. Len(down') : ~Requests(i, s)'
        BY <1>1, <2>2, <2>3, <2>4, <3>1, <3>2 DEF FreshRequests, SrvStep
      <3>3. ASSUME NEW i \in 1 .. Len(down'), Requests(i, s)'
            PROVE  s \notin Granted' \cup ended'
        BY <1>1, <2>2, <2>3, <2>4, <3>1, <3>3 DEF FreshRequests
      <3>4. ASSUME NEW i \in 1 .. Len(down'), NEW j \in 1 .. Len(down'), Requests(i, s)', Requests(j, s)'
            PROVE  i = j
        BY <2>2, <2>3, <2>4, <3>4 DEF FreshRequests
      <3> QED
        BY <3>2, <3>3, <3>4
  <1> QED
    BY <1>2, <1>3, <1>4, <1>5 DEF DownStep
LEMMA ClosesPreserved ==
    ASSUME TypeOK, SessionInv, SlotStep, UpStep, RelaysGranted', EndedHoldsNothing'
    PROVE  ClosesEnded' /\ NoFrameAfterClose'
  <1> USE DEF SessionInv
  <1>0. up \in Seq(UpMessage)
    BY DEF TypeOK
  <1>1. ended \subseteq ended'
    BY DEF SlotStep, Leaves, Stays, Takes, Carries, Ends
  <1>2. CASE up' = up
    BY <1>1, <1>2 DEF ClosesEnded, NoFrameAfterClose
  <1>3. CASE up' = <<>>
    BY <1>3 DEF ClosesEnded, NoFrameAfterClose
  <1>4. CASE up # <<>> /\ up' = Tail(up)
    <2>1. Len(up') = Len(up) - 1 /\ \A k \in 1 .. Len(up') : up'[k] = up[k + 1]
      BY <1>0, <1>4, HeadTailProperties
    <2>2. \A k \in 1 .. Len(up') : k + 1 \in 1 .. Len(up)
      BY <1>0, <2>1
    <2>3. ClosesEnded'
      BY <1>1, <2>1, <2>2 DEF ClosesEnded
    <2>4. ASSUME NEW i \in 1 .. Len(up'), NEW j \in 1 .. Len(up'), i < j,
                 up'[i].type = "session.close", up'[j].id = up'[i].id
          PROVE  up'[j].type \notin {"session.accept", "relay.ready", "relay.data"}
      <3>1. i + 1 < j + 1 /\ i + 1 \in 1 .. Len(up) /\ j + 1 \in 1 .. Len(up)
        BY <2>2, <2>4
      <3> QED
        BY <2>1, <2>4, <3>1 DEF NoFrameAfterClose
    <2> QED
      BY <2>3, <2>4 DEF NoFrameAfterClose
  <1>5. ASSUME NEW n \in UpMessage, up' = Append(up, n),
               n.type \in {"session.accept", "relay.ready"} => n.id \in Granted',
               n.type = "relay.data" => n.id \in relays',
               n.type = "session.close" => n.id \in ended'
        PROVE  ClosesEnded' /\ NoFrameAfterClose'
    <2>1. /\ Len(up') = Len(up) + 1 /\ up'[Len(up) + 1] = n
          /\ \A k \in 1 .. Len(up) : up'[k] = up[k]
      BY <1>0, <1>5, AppendProperties
    <2>2. \A k \in 1 .. Len(up') : k \in 1 .. Len(up) \/ k = Len(up) + 1
      BY <1>0, <2>1
    <2>3. ClosesEnded'
      BY <1>1, <1>5, <2>1, <2>2 DEF ClosesEnded
    <2>4. n.type \in {"session.accept", "relay.ready", "relay.data"} => n.id \notin ended'
      BY <1>5 DEF RelaysGranted, EndedHoldsNothing
    <2>5. ASSUME NEW i \in 1 .. Len(up'), NEW j \in 1 .. Len(up'), i < j,
                 up'[i].type = "session.close", up'[j].id = up'[i].id
          PROVE  up'[j].type \notin {"session.accept", "relay.ready", "relay.data"}
      <3>1. i \in 1 .. Len(up)
        BY <1>0, <2>1, <2>2, <2>5
      <3>2. CASE j \in 1 .. Len(up)
        BY <2>1, <2>5, <3>1, <3>2 DEF NoFrameAfterClose
      <3>3. CASE j = Len(up) + 1
        BY <2>1, <2>3, <2>4, <2>5, <3>3 DEF ClosesEnded
      <3> QED
        BY <2>2, <3>2, <3>3
    <2> QED
      BY <2>3, <2>5 DEF NoFrameAfterClose
  <1> QED
    BY <1>2, <1>3, <1>4, <1>5 DEF UpStep

LEMMA InitSession == Init => SessionInv
  BY DEF Init, SessionInv, AtMostOneGrant, RelaysGranted, EndedHoldsNothing, FreshRequests,
         ClosesEnded, NoFrameAfterClose, Granted

\* The invariant behind the theorems below holds of every reachable state,
\* whatever the server sends and however the writers interleave.
THEOREM SessionInvariant == Spec => []SessionInv
  <1>1. ASSUME TypeOK, SessionInv, [Next]_vars
        PROVE  SessionInv'
    <2>1. SlotStep /\ DownStep /\ UpStep /\ SrvStep
      BY <1>1, EveryStep DEF SessionInv
    <2> QED
      BY <1>1, <2>1, SlotPreserved, RequestsPreserved, ClosesPreserved DEF SessionInv
  <1> QED
    BY <1>1, InitSession, TypeCorrect, PTL DEF Spec

\* At most one session holds the grant.
THEOREM SingleGrant == Spec => []OneGrant
  <1>1. SessionInv => OneGrant
    <2> SUFFICES ASSUME SessionInv
                 PROVE  Cardinality(Granted) <= 1
      BY DEF OneGrant
    <2>1. CASE Granted = {}
      BY <2>1, FS_EmptySet
    <2>2. CASE Granted # {}
      <3>1. PICK s \in Granted : Granted = {s}
        BY <2>2 DEF SessionInv, AtMostOneGrant
      <3>2. Cardinality({s}) = 1
        BY FS_Singleton
      <3> QED
        BY <3>1, <3>2
    <2> QED
      BY <2>1, <2>2
  <1> QED
    BY <1>1, SessionInvariant, PTL

\* Relays never outlive the grant they were started under.
THEOREM RelaysUnderGrant == Spec => []RelaysGranted
  BY SessionInvariant, PTL DEF SessionInv

\* A session that gave up its grant is never granted or relayed again.
THEOREM EndedStaysEnded == Spec => []EndedHoldsNothing
  BY SessionInvariant, PTL DEF SessionInv

\* The server never sees a frame of a relay after the close that ended it.
THEOREM CloseIsLast == Spec => []NoFrameAfterClose
  BY SessionInvariant, PTL DEF SessionInv

\* The control connection implements the one-slot specification.
THEOREM ImplementsSlot == Spec => SlotSpec
  <1>1. Init => Slot!Init
    BY DEF Init, Slot!Init, Granted
  <1>2. ASSUME TypeOK, SessionInv, SlotStep
        PROVE  [Slot!Next]_(Slot!vars)
    <2> USE <1>2 DEF SessionInv, AtMostOneGrant, RelaysGranted, Slot!Next, Slot!vars, Slot!Take, Slot!Carry, Slot!GiveUp
    <2>1. CASE Leaves
      BY <2>1 DEF Leaves, Granted
    <2>2. CASE Stays
      BY <2>2 DEF Stays
    <2>3. ASSUME NEW id \in Sessions, Takes(id)
          PROVE  [Slot!Next]_(Slot!vars)
      BY <2>3 DEF Takes, FreshRequests, TypeOK
    <2>4. ASSUME NEW id \in Sessions, Carries(id)
          PROVE  [Slot!Next]_(Slot!vars)
      BY <2>4 DEF Carries
    <2>5. ASSUME NEW id \in Sessions, Ends(id)
          PROVE  [Slot!Next]_(Slot!vars)
      <3>1. CASE id \in Granted
        BY <2>5, <3>1 DEF Ends
      <3>2. CASE id \notin Granted
        BY <2>5, <3>2 DEF Ends
      <3> QED
        BY <3>1, <3>2
    <2> QED
      BY <1>2, <2>1, <2>2, <2>3, <2>4, <2>5 DEF SlotStep
  <1>3. TypeOK /\ SessionInv /\ [Next]_vars => [Slot!Next]_(Slot!vars)
    BY <1>2, EveryStep DEF SessionInv
  <1> QED
    BY <1>1, <1>3, TypeCorrect, SessionInvariant, PTL DEF Spec, SlotSpec, Slot!Spec
-----------------------------------------------------------------------------
(* WebRTC peers.                                                           *)

\* What a step may do to the peers of sessions without a grant.
PeerStep == \A s \in peers' \ Granted' : s \in peers /\ (s \in Granted => s \in relays)

\* Steps that give no grant up and add no peer.
LEMMA QuietPeers ==
    ASSUME peers' \subseteq peers, Granted \subseteq Granted'
    PROVE  PeerStep
  BY DEF PeerStep

LEMMA EndSessionPeers ==
    ASSUME TypeOK, NEW id \in Sessions, EndSession(id)
    PROVE  PeerStep
  BY GrantsNone DEF EndSession, Release, PeerStep

\* The handlers: of those that end a session only relay.data leaves its peer.
LEMMA HandlerPeers ==
    ASSUME TypeOK, HandleSignal
    PROVE  PeerStep
  <1> DEFINE m == Head(down)
  <1>0. ASSUME NEW b, LeaveLoop(b)
        PROVE  PeerStep
    BY <1>0 DEF LeaveLoop, PeerStep
  <1>1. down # <<>> /\ m \in DownMessage
    BY DEF TypeOK, HandleSignal, HandleRequest, HandleOffer, HandleRelayStart, HandleRelayData,
           HandleClose, HandleReboot, HandleUpdateNow, Incoming
  <1>2. CASE HandleRequest
    <2>1. m.id \in Sessions /\ m.grant \in Grant
      BY <1>1, <1>2, Fields DEF HandleRequest, Incoming
    <2> DEFINE g == [kind |-> m.grant.kind, elevation |-> m.grant.kind = "Terminal" /\ m.grant.elevation]
    <2>2. g \in Grant
      BY <2>1 DEF Grant
    <2>3. peers' = peers /\ (grants' = grants \/ grants' = [grants EXCEPT ![m.id] = g])
      BY <1>2 DEF HandleRequest
    <2> HIDE DEF g
    <2>4. Granted \subseteq Granted'
      BY <2>1, <2>2, <2>3, NoGrantIsNone DEF Granted, TypeOK
    <2> QED
      BY <2>3, <2>4, QuietPeers
  <1>3. CASE HandleOffer
    BY <1>0, <1>3 DEF HandleOffer, PeerStep, Granted
  <1>4. CASE HandleRelayStart
    BY <1>0, <1>4, QuietPeers DEF HandleRelayStart, Granted
  <1>5. CASE HandleRelayData
    <2>1. m.id \in Sessions
      BY <1>1, <1>5, Fields DEF HandleRelayData, Incoming
    <2>2. CASE m.id \in relays /\ ~m.valid
      <3>1. peers' = peers /\ Release(m.id)
        BY <1>5, <2>2 DEF HandleRelayData
      <3> QED
        BY <2>1, <2>2, <3>1, GrantsNone DEF Release, PeerStep
    <2>3. CASE ~(m.id \in relays /\ ~m.valid)
      BY <1>5, <2>3, QuietPeers DEF HandleRelayData, Granted
    <2> QED
      BY <2>2, <2>3
  <1>6. CASE HandleClose
    BY <1>1, <1>6, Fields, EndSessionPeers DEF HandleClose, Incoming
  <1>7. CASE HandleReboot \/ HandleUpdateNow
    BY <1>0, <1>7, QuietPeers DEF HandleReboot, HandleUpdateNow, agentVars, Granted
  <1> QED
    BY <1>2, <1>3, <1>4, <1>5, <1>6, <1>7 DEF HandleSignal

\* A WebRTC peer is made under a grant and ends with it, whichever of the four
\* paths of `connect` ends the session, but for one whose session has a relay too.
THEOREM PeersAreUnderGrant == Spec => PeersUnderGrant
  <1>1. ASSUME TypeOK, [Next]_vars
        PROVE  PeerStep
    <2>1. CASE HandleSignal
      BY <1>1, <2>1, HandlerPeers
    <2>2. CASE Cleanup
      <3>1. PICK s \in Finished : EndSession(s)
        BY <2>2 DEF Cleanup
      <3>2. s \in Sessions
        BY <1>1 DEF Finished, TypeOK
      <3> QED
        BY <1>1, <3>1, <3>2, EndSessionPeers
    <2>3. CASE Disconnect
      BY <2>3 DEF Disconnect, LeaveLoop, PeerStep
    <2>4. CASE Connect \/ ForwardFrame \/ Writers \/ Server \/ UNCHANGED vars
      <3>1. peers' = peers /\ grants' = grants
        BY <2>4 DEF Connect, ForwardFrame, Writers, WriterChecks, WriterQueues, WriterGivesUp,
           RelayFails, Server, ServerForwards, ServerCloses, ServerRequest, ServerReboots,
           CommandExpires, ServerUpdates, ServerReceives, vars, agentVars
      <3> QED
        BY <3>1, QuietPeers DEF Granted
    <2> QED
      BY <1>1, <2>1, <2>2, <2>3, <2>4 DEF Next
  <1>2. TypeOK /\ [Next]_vars => [PeerStep]_vars
    BY <1>1
  <1> QED
    BY <1>2, TypeCorrect, PTL DEF Spec, PeersUnderGrant, PeerStep
-----------------------------------------------------------------------------
(* Reboot commands.                                                        *)

RebootInv ==
    \A c \in Commands :
        /\ rebootsHere[c] <= 1
        /\ link = "up" /\ c \notin rebootSeen => rebootsHere[c] = 0

LEMMA OtherSteps ==
    ASSUME [Next]_vars, ~Connect, ~HandleReboot
    PROVE  rebootsHere' = rebootsHere /\ (link' = "up" => link = "up" /\ rebootSeen' = rebootSeen)
  <1> USE DEF rebootVars
  <1>1. ASSUME NEW b, LeaveLoop(b)
        PROVE  rebootsHere' = rebootsHere /\ link' = "down"
    BY <1>1 DEF LeaveLoop
  <1>2. CASE HandleSignal
    BY <1>1, <1>2 DEF HandleSignal, HandleRequest, HandleOffer, HandleRelayStart, HandleRelayData,
       HandleClose, HandleUpdateNow
  <1>3. CASE Disconnect \/ Cleanup \/ ForwardFrame \/ Writers
    BY <1>1, <1>3 DEF Disconnect, Cleanup, ForwardFrame, Writers, WriterChecks, WriterQueues,
       WriterGivesUp, RelayFails
  <1>4. CASE Server
    BY <1>4 DEF Server, ServerForwards, ServerCloses, ServerRequest, ServerReboots, CommandExpires,
       ServerUpdates, ServerReceives
  <1> QED
    BY <1>2, <1>3, <1>4 DEF Next, vars

\* A reboot command delivered again on the same connection never runs twice.
THEOREM RebootsOnce == Spec => []RebootOncePerConnection
  <1>1. Init => RebootInv
    BY DEF Init, RebootInv
  <1>2. ASSUME TypeOK, RebootInv, [Next]_vars
        PROVE  RebootInv'
    <2>1. CASE Connect
      BY <2>1 DEF Connect, RebootInv
    <2>2. CASE HandleReboot /\ \E b : LeaveLoop(b)
      BY <1>2, <2>2 DEF LeaveLoop, RebootInv
    <2>3. CASE HandleReboot /\ ~ \E b : LeaveLoop(b)
      <3> DEFINE c == Head(down).command
                 ran == IF AllowReboot THEN 1 ELSE 0
      <3>1. /\ link = "up" /\ link' = "up" /\ c \notin rebootSeen
            /\ rebootSeen' = rebootSeen \cup {c}
            /\ rebootsHere' = [rebootsHere EXCEPT ![c] = @ + ran]
        BY <2>3 DEF HandleReboot, Admits, Incoming
      <3>2. ran \in 0 .. 1
        OBVIOUS
      <3> HIDE DEF c, ran
      <3> QED
        BY <1>2, <3>1, <3>2 DEF RebootInv, TypeOK
    <2> QED
      BY <1>2, <2>1, <2>2, <2>3, OtherSteps DEF RebootInv
  <1>3. RebootInv => RebootOncePerConnection
    BY DEF RebootInv, RebootOncePerConnection
  <1> QED
    BY <1>1, <1>2, <1>3, TypeCorrect, PTL DEF Spec
-----------------------------------------------------------------------------
(* A server that asks for one session at a time.                           *)

Alive(s) == srv[s] \in {"requested", "open"}

Closes(j, s) == down[j].type = "session.close" /\ down[j].id = s

Refused == {up[i] : i \in {k \in 1 .. Len(up) : up[k].type = "session.reject"}}

Offline == link = "down" => Granted = {} /\ down = <<>>

OneAlive == \A s, t \in Sessions : Alive(s) /\ Alive(t) => s = t

\* What is granted is alive for the server, or about to be closed.
GrantsAlive == \A s \in Granted : Alive(s) \/ \E j \in 1 .. Len(down) : Closes(j, s)

\* So is what is asked for, after its request; and before a request every
\* other session, granted or asked for, is closed.
RequestsAlive ==
    \A s \in Sessions : \A i \in 1 .. Len(down) : Requests(i, s) =>
        Alive(s) \/ \E j \in i + 1 .. Len(down) : Closes(j, s)

RequestsAfterGrants ==
    \A s, t \in Sessions : \A i \in 1 .. Len(down) : Requests(i, s) /\ t \in Granted =>
        \E j \in 1 .. i - 1 : Closes(j, t)

RequestsApart ==
    \A s, t \in Sessions : \A i \in 1 .. Len(down) : \A k \in 1 .. i - 1 :
        Requests(i, s) /\ Requests(k, t) => \E j \in k + 1 .. i - 1 : Closes(j, t)

\* A session that was refused stays so, and not because the agent was busy.
RefusedFinal ==
    \A m \in Refused :
        /\ m.code # "SESSION_BUSY"
        /\ srv[m.id] # "new" /\ m.id \notin Granted
        /\ \A i \in 1 .. Len(down) : ~Requests(i, m.id)

BusyInv ==
    /\ Offline /\ OneAlive /\ GrantsAlive
    /\ RequestsAlive /\ RequestsAfterGrants /\ RequestsApart
    /\ RefusedFinal

\* What a step means to that server.
Empties == Granted' = {} /\ down' = <<>> /\ Refused' = {} /\ srv' = srv

Reconnects ==
    /\ link = "down" /\ Granted' = Granted /\ down' = down /\ Refused' = Refused
    /\ srv' = [s \in Sessions |-> IF srv[s] = "new" THEN "new" ELSE "closed"]

Settles ==
    /\ link' = link /\ Granted' \subseteq Granted /\ Refused' \subseteq Refused
    /\ down' = down /\ srv' = srv

Handles ==
    /\ link' = "up" /\ Granted' \subseteq Granted /\ Refused' \subseteq Refused
    /\ down # <<>> /\ down' = Tail(down) /\ srv' = srv
    /\ \A s \in Sessions : Closes(1, s) => s \notin Granted'

Accepted(s) ==
    /\ link' = "up" /\ Granted' = {s} /\ Refused' \subseteq Refused
    /\ down # <<>> /\ down' = Tail(down) /\ Requests(1, s) /\ srv' = srv

Declined(s) ==
    /\ link' = "up" /\ Granted' = Granted
    /\ down # <<>> /\ down' = Tail(down) /\ Requests(1, s) /\ srv' = srv
    /\ \E m \in UpMessage :
          /\ Refused' = Refused \cup {m}
          /\ m.id = s /\ (m.code = "SESSION_BUSY" => Granted # {})

Tells(n) ==
    /\ link = "up" /\ link' = "up" /\ Granted' = Granted /\ Refused' = Refused
    /\ down' = Append(down, n) /\ n.type # "session.request"
    /\ \/ srv' = srv
       \/ n.type = "session.close" /\ srv' = [srv EXCEPT ![n.id] = "closed"]

Asks(n) ==
    /\ link = "up" /\ link' = "up" /\ Granted' = Granted /\ Refused' = Refused
    /\ down' = Append(down, n) /\ n.type = "session.request"
    /\ srv[n.id] = "new" /\ srv' = [srv EXCEPT ![n.id] = "requested"]
    /\ \A t \in Sessions : ~Alive(t)

Hears(m) ==
    /\ link' = link /\ Granted' = Granted /\ Refused' \subseteq Refused /\ down' = down
    /\ \/ srv' = srv
       \/ srv[m.id] = "requested" /\ srv' = [srv EXCEPT ![m.id] = "open"]
       \/ m.id \in ended /\ srv' = [srv EXCEPT ![m.id] = "closed"]
       \/ m \in Refused /\ srv' = [srv EXCEPT ![m.id] = "closed"]

ServedStep ==
    \/ Empties \/ Reconnects \/ Settles \/ Handles
    \/ \E s \in Sessions : Accepted(s) \/ Declined(s)
    \/ \E n \in DownMessage : Tells(n) \/ Asks(n)
    \/ \E m \in UpMessage : Hears(m)

\* The refusals on a wire that is unchanged, emptied, read or written.
LEMMA RefusedSteps ==
    ASSUME up \in Seq(UpMessage)
    PROVE  /\ up' = up => Refused' = Refused
           /\ up' = <<>> => Refused' = {}
           /\ up # <<>> /\ up' = Tail(up) => Refused' \subseteq Refused
           /\ \A m \in UpMessage : up' = Append(up, m) =>
                 Refused' = IF m.type = "session.reject" THEN Refused \cup {m} ELSE Refused
  <1>1. up' = up => Refused' = Refused
    BY DEF Refused
  <1>2. up' = <<>> => Refused' = {}
    BY DEF Refused
  <1>3. ASSUME up # <<>>, up' = Tail(up)
        PROVE  Refused' \subseteq Refused
    <2>1. Len(up') = Len(up) - 1 /\ \A k \in 1 .. Len(up') : up'[k] = up[k + 1]
      BY <1>3, HeadTailProperties
    <2>2. \A k \in 1 .. Len(up') : k + 1 \in 1 .. Len(up)
      BY <2>1
    <2> QED
      BY <2>1, <2>2 DEF Refused
  <1>4. ASSUME NEW m \in UpMessage, up' = Append(up, m)
        PROVE  Refused' = IF m.type = "session.reject" THEN Refused \cup {m} ELSE Refused
    <2>1. /\ Len(up') = Len(up) + 1 /\ up'[Len(up) + 1] = m
          /\ \A k \in 1 .. Len(up) : up'[k] = up[k]
      BY <1>4, AppendProperties
    <2>2. \A k \in 1 .. Len(up') : k \in 1 .. Len(up) \/ k = Len(up) + 1
      BY <2>1
    <2>3. 1 .. Len(up) \subseteq 1 .. Len(up') /\ Len(up) + 1 \in 1 .. Len(up')
      BY <2>1
    <2>4. ASSUME NEW x
          PROVE  x \in Refused' <=> x \in Refused \/ (m.type = "session.reject" /\ x = m)
      BY <2>1, <2>2, <2>3 DEF Refused
    <2> QED
      BY <2>4
  <1> QED
    BY <1>1, <1>2, <1>3, <1>4

LEMMA LeaveLoopServed ==
    ASSUME TypeOK, NEW blamed, LeaveLoop(blamed)
    PROVE  Empties
  BY LeaveLoopStep, RefusedSteps DEF TypeOK, Leaves, Empties, LeaveLoop

LEMMA RequestServed ==
    ASSUME TypeOK, HandleRequest
    PROVE  ServedStep
  <1> DEFINE m == Head(down)
             g == [kind |-> m.grant.kind, elevation |-> m.grant.kind = "Terminal" /\ m.grant.elevation]
             codes == {"TERMINAL_ELEVATION_UNAVAILABLE", "SESSION_BUSY", "CAPABILITY_UNAVAILABLE"}
             accepts == /\ Granted = {}
                        /\ grants' = [grants EXCEPT ![m.id] = g]
                        /\ up' = Append(up, [type |-> "session.accept", id |-> m.id])
             refuses(c) == /\ UNCHANGED grants
                           /\ c = "SESSION_BUSY" => Granted # {}
                           /\ up' = Append(up, [type |-> "session.reject", id |-> m.id, code |-> c])
  <1>1. /\ down # <<>> /\ m \in DownMessage /\ m = down[1] /\ link = "up" /\ link' = "up"
        /\ m.type = "session.request" /\ down' = Tail(down) /\ srv' = srv
    BY DEF TypeOK, HandleRequest, Incoming, Received
  <1>2. m.id \in Sessions /\ m.grant \in Grant /\ Requests(1, m.id)
    BY <1>1, Fields DEF Requests
  <1>3. accepts \/ \E c \in codes : refuses(c)
    BY DEF HandleRequest, Accepts, Send
  <1>4. CASE accepts
    <2>1. Granted' = {m.id}
      <3>1. g \in Grant
        BY <1>2 DEF Grant
      <3> QED
        BY <1>2, <1>4, <3>1, GrantsOne
    <2>2. Refused' = Refused
      BY <1>2, <1>4, Messages, RefusedSteps DEF TypeOK
    <2>3. Accepted(m.id)
      BY <1>1, <1>2, <2>1, <2>2 DEF Accepted
    <2> QED
      BY <1>2, <2>3 DEF ServedStep
  <1>5. ASSUME NEW c \in codes, refuses(c)
        PROVE  ServedStep
    <2> DEFINE n == [type |-> "session.reject", id |-> m.id, code |-> c]
    <2>1. n \in UpMessage /\ n.type = "session.reject" /\ n.id = m.id /\ n.code = c
      BY <1>2, <1>5, Messages
    <2>2. Refused' = Refused \cup {n}
      BY <1>5, <2>1, RefusedSteps DEF TypeOK
    <2>3. Granted' = Granted
      BY <1>5 DEF Granted
    <2>4. Declined(m.id)
      <3> HIDE DEF n, m
      <3> QED
        BY <1>1, <1>2, <1>5, <2>1, <2>2, <2>3 DEF Declined
    <2> QED
      BY <1>2, <2>4 DEF ServedStep
  <1> QED
    BY <1>3, <1>4, <1>5

LEMMA HandlerServed ==
    ASSUME TypeOK, RelaysGranted, HandleSignal
    PROVE  ServedStep
  <1> DEFINE m == Head(down)
  <1>0. ASSUME NEW b, LeaveLoop(b)
        PROVE  ServedStep
    BY <1>0, LeaveLoopServed DEF ServedStep
  <1>1. down # <<>> /\ m \in DownMessage /\ m = down[1] /\ link = "up" /\ up \in Seq(UpMessage)
    BY DEF TypeOK, HandleSignal, HandleRequest, HandleOffer, HandleRelayStart, HandleRelayData,
           HandleClose, HandleReboot, HandleUpdateNow, Incoming
  <1>2. ASSUME m.type # "session.close", down' = Tail(down), link' = "up", srv' = srv,
               Granted' \subseteq Granted, Refused' \subseteq Refused
        PROVE  ServedStep
    BY <1>1, <1>2 DEF Handles, ServedStep, Closes
  <1>3. CASE HandleOffer /\ ~ \E b : LeaveLoop(b)
    BY <1>1, <1>2, <1>3, RefusedSteps DEF HandleOffer, Incoming, Received, Granted
  <1>4. CASE HandleRelayStart /\ ~ \E b : LeaveLoop(b)
    <2>1. m.id \in Sessions
      BY <1>1, <1>4, Fields DEF HandleRelayStart, Incoming
    <2>2. up' = Append(up, [type |-> "relay.ready", id |-> m.id])
      BY <1>4 DEF HandleRelayStart, Send
    <2>3. Refused' = Refused
      BY <1>1, <2>1, <2>2, Messages, RefusedSteps
    <2> QED
      BY <1>1, <1>2, <1>4, <2>3 DEF HandleRelayStart, Incoming, Received, Granted
  <1>5. CASE HandleRelayData
    <2>1. m.id \in Sessions /\ m.type = "relay.data"
      BY <1>1, <1>5, Fields DEF HandleRelayData, Incoming
    <2>2. up' = up \/ up' = Append(up, [type |-> "session.close", id |-> m.id])
      BY <1>5 DEF HandleRelayData, Send
    <2>3. Refused' = Refused
      BY <1>1, <2>1, <2>2, Messages, RefusedSteps
    <2>4. Granted' \subseteq Granted
      BY <1>5, <2>1, GrantsNone DEF HandleRelayData, Release, Granted
    <2> QED
      BY <1>1, <1>2, <1>5, <2>1, <2>3, <2>4 DEF HandleRelayData, Received
  <1>6. CASE HandleClose
    <2>1. m.id \in Sessions /\ m.type = "session.close" /\ down' = Tail(down) /\ link' = "up" /\ srv' = srv
      BY <1>1, <1>6, Fields DEF HandleClose, Incoming, Received
    <2>2. Granted' = Granted \ {m.id}
      BY <1>6, <2>1, GrantsNone DEF HandleClose, EndSession, Release
    <2>3. Refused' = Refused
      BY <1>1, <1>6, RefusedSteps DEF HandleClose
    <2> QED
      BY <1>1, <2>1, <2>2, <2>3 DEF Handles, ServedStep, Closes
  <1>7. CASE HandleReboot /\ ~ \E b : LeaveLoop(b)
    BY <1>1, <1>2, <1>7, RefusedSteps DEF HandleReboot, Incoming, Received, Granted, agentVars
  <1>8. CASE HandleUpdateNow
    BY <1>1, <1>2, <1>8, RefusedSteps DEF HandleUpdateNow, Incoming, Received, Granted, agentVars
  <1> QED
    BY <1>0, <1>3, <1>4, <1>5, <1>6, <1>7, <1>8, RequestServed DEF HandleSignal

LEMMA LoopServed ==
    ASSUME TypeOK, RelaysGranted, Connect \/ Disconnect \/ Cleanup \/ ForwardFrame \/ Writers
    PROVE  ServedStep
  <1>0. up \in Seq(UpMessage)
    BY DEF TypeOK
  <1>1. CASE Connect
    BY <1>0, <1>1, RefusedSteps DEF Connect, agentVars, Reconnects, ServedStep, Granted
  <1>2. CASE Disconnect
    BY <1>2, LeaveLoopServed DEF Disconnect, ServedStep
  <1>3. CASE Cleanup
    <2>1. PICK s \in stopped :
            /\ grants' = [grants EXCEPT ![s] = NoGrant]
            /\ up' = Append(up, [type |-> "session.close", id |-> s])
      BY <1>3 DEF Cleanup, EndSession, Finished, Release, Send
    <2>2. s \in Sessions
      BY DEF TypeOK
    <2>3. Granted' \subseteq Granted
      BY <2>1, <2>2, GrantsNone
    <2>4. Refused' = Refused
      BY <1>0, <2>1, <2>2, Messages, RefusedSteps
    <2> QED
      BY <1>3, <2>3, <2>4 DEF Cleanup, Settles, ServedStep
  <1>4. CASE ForwardFrame
    <2>1. Head(relayQ) \in Sessions
      BY <1>4 DEF ForwardFrame, TypeOK
    <2>2. Refused' = Refused
      <3>1. up' = up \/ up' = Append(up, [type |-> "relay.data", id |-> Head(relayQ)])
        BY <1>4 DEF ForwardFrame, Send
      <3> QED
        BY <1>0, <2>1, <3>1, Messages, RefusedSteps
    <2> QED
      BY <1>4, <2>2 DEF ForwardFrame, agentVars, Settles, ServedStep, Granted
  <1>5. ASSUME NEW s \in Sessions, WriterChecks(s) \/ WriterQueues(s) \/ WriterGivesUp(s) \/ RelayFails(s)
        PROVE  ServedStep
    BY <1>0, <1>5, RefusedSteps DEF WriterChecks, WriterQueues, WriterGivesUp, RelayFails, agentVars, pipeVars,
       Settles, ServedStep, Granted
  <1> QED
    BY <1>1, <1>2, <1>3, <1>4, <1>5 DEF Writers

LEMMA ServerServed ==
    ASSUME TypeOK, OneAtATime, ClosesEnded, Server
    PROVE  ServedStep
  <1> USE DEF agentVars, ServerSends
  <1>0. up \in Seq(UpMessage)
    BY DEF TypeOK
  <1>1. Granted' = Granted /\ link' = link
    BY DEF Server, ServerForwards, ServerCloses, ServerRequest, ServerReboots, CommandExpires,
           ServerUpdates, ServerReceives, Granted
  <1>2. ASSUME NEW s \in Sessions, ServerForwards(s)
        PROVE  ServedStep
    <2>1. PICK n \in DownMessage : n.type # "session.request" /\ down' = Append(down, n)
      BY <1>2, Messages DEF ServerForwards, BrowserSignal
    <2>2. Tells(n)
      BY <1>0, <1>1, <1>2, <2>1, RefusedSteps DEF ServerForwards, Tells
    <2> QED
      BY <2>2 DEF ServedStep
  <1>3. ASSUME NEW s \in Sessions, ServerCloses(s)
        PROVE  ServedStep
    <2>1. PICK n \in DownMessage : n.type = "session.close" /\ n.id = s /\ down' = Append(down, n)
      BY <1>3, Messages DEF ServerCloses
    <2>2. Tells(n)
      BY <1>0, <1>1, <1>3, <2>1, RefusedSteps DEF ServerCloses, Tells
    <2> QED
      BY <2>2 DEF ServedStep
  <1>4. ASSUME NEW s \in Sessions, NEW g \in Grant, ServerRequest(s, g)
        PROVE  ServedStep
    <2>1. PICK n \in DownMessage : n.type = "session.request" /\ n.id = s /\ down' = Append(down, n)
      BY <1>4, Messages DEF ServerRequest
    <2>2. Asks(n)
      BY <1>0, <1>1, <1>4, <2>1, RefusedSteps DEF ServerRequest, Asks, Alive
    <2> QED
      BY <2>2 DEF ServedStep
  <1>5. ASSUME NEW c \in Commands, ServerReboots(c)
        PROVE  ServedStep
    <2>1. PICK n \in DownMessage : n.type = "device.reboot" /\ down' = Append(down, n)
      BY <1>5, Messages DEF ServerReboots
    <2>2. Tells(n)
      BY <1>0, <1>1, <1>5, <2>1, RefusedSteps DEF ServerReboots, Tells
    <2> QED
      BY <2>2 DEF ServedStep
  <1>6. ASSUME NEW c \in Commands, CommandExpires(c)
        PROVE  ServedStep
    BY <1>0, <1>1, <1>6, RefusedSteps DEF CommandExpires, Settles, ServedStep
  <1>7. CASE ServerUpdates
    <2>1. PICK n \in DownMessage : n.type = "agent.updateNow" /\ down' = Append(down, n)
      BY <1>7, Messages DEF ServerUpdates
    <2>2. Tells(n)
      BY <1>0, <1>1, <1>7, <2>1, RefusedSteps DEF ServerUpdates, Tells
    <2> QED
      BY <2>2 DEF ServedStep
  <1>8. CASE ServerReceives
    <2> DEFINE m == Head(up)
    <2>1. up # <<>> /\ m \in UpMessage /\ m = up[1] /\ 1 \in 1 .. Len(up) /\ m.id \in Sessions
      BY <1>0, <1>8, UpFields DEF ServerReceives
    <2>2. m.type = "session.close" => m.id \in ended
      BY <2>1 DEF ClosesEnded
    <2>3. m.type = "session.reject" => m \in Refused
      BY <2>1 DEF Refused
    <2>4. Refused' \subseteq Refused /\ down' = down
      BY <1>0, <1>8, <2>1, RefusedSteps DEF ServerReceives
    <2>5. \/ srv' = srv
          \/ srv[m.id] = "requested" /\ srv' = [srv EXCEPT ![m.id] = "open"]
          \/ m.type \in {"session.reject", "session.close"} /\ srv' = [srv EXCEPT ![m.id] = "closed"]
      BY <1>8, <2>1 DEF ServerReceives, TypeOK
    <2>6. Hears(m)
      <3> HIDE DEF m
      <3> QED
        BY <1>1, <2>2, <2>3, <2>4, <2>5 DEF Hears
    <2> QED
      BY <2>1, <2>6 DEF ServedStep
  <1> QED
    BY <1>2, <1>3, <1>4, <1>5, <1>6, <1>7, <1>8 DEF Server

LEMMA EveryServed ==
    ASSUME TypeOK, OneAtATime, RelaysGranted, ClosesEnded, [Next]_vars
    PROVE  ServedStep
  <1>1. CASE UNCHANGED vars
    BY <1>1, RefusedSteps DEF TypeOK, vars, agentVars, Settles, ServedStep, Granted
  <1> QED
    BY <1>1, HandlerServed, LoopServed, ServerServed DEF Next

\* The wire to the agent, read and written.
LEMMA DownRead ==
    ASSUME TypeOK, down # <<>>, down' = Tail(down)
    PROVE  /\ Len(down) \in Nat /\ Len(down') = Len(down) - 1
           /\ \A i \in 1 .. Len(down') : i + 1 \in 1 .. Len(down)
           /\ \A s \in Sessions : \A i \in 1 .. Len(down') :
                 (Requests(i, s)' <=> Requests(i + 1, s)) /\ (Closes(i, s)' <=> Closes(i + 1, s))
  <1>1. down \in Seq(DownMessage) /\ Len(down) \in Nat
    BY DEF TypeOK
  <1>2. Len(down') = Len(down) - 1 /\ \A i \in 1 .. Len(down') : down'[i] = down[i + 1]
    BY <1>1, HeadTailProperties
  <1> QED
    BY <1>1, <1>2 DEF Requests, Closes

LEMMA DownWritten ==
    ASSUME TypeOK, NEW n \in DownMessage, down' = Append(down, n)
    PROVE  /\ Len(down) \in Nat /\ Len(down') = Len(down) + 1
           /\ \A s \in Sessions : \A i \in 1 .. Len(down) :
                 (Requests(i, s)' <=> Requests(i, s)) /\ (Closes(i, s)' <=> Closes(i, s))
           /\ \A s \in Sessions : \A i \in Nat : i = Len(down) + 1 =>
                 /\ Requests(i, s)' <=> n.type = "session.request" /\ n.id = s
                 /\ Closes(i, s)' <=> n.type = "session.close" /\ n.id = s
  <1>1. down \in Seq(DownMessage) /\ Len(down) \in Nat
    BY DEF TypeOK
  <1>2. /\ Len(down') = Len(down) + 1 /\ down'[Len(down) + 1] = n
        /\ \A i \in 1 .. Len(down) : down'[i] = down[i]
    BY <1>1, AppendProperties
  <1> QED
    BY <1>1, <1>2 DEF Requests, Closes

\* A request or a refusal names a session the server knows.
LEMMA RefusedKnown == ASSUME TypeOK PROVE \A m \in Refused : m.id \in Sessions
  BY UpFields DEF TypeOK, Refused

LEMMA EmptiesKeeps ==
    ASSUME TypeOK, BusyInv, Empties
    PROVE  BusyInv'
  <1>1. Len(down') = 0
    BY DEF Empties
  <1>2. Offline' /\ OneAlive'
    BY DEF Empties, BusyInv, Offline, OneAlive, Alive
  <1>3. GrantsAlive' /\ RefusedFinal'
    BY DEF Empties, GrantsAlive, RefusedFinal
  <1>4. RequestsAlive' /\ RequestsAfterGrants' /\ RequestsApart'
    BY <1>1 DEF RequestsAlive, RequestsAfterGrants, RequestsApart
  <1> QED
    BY <1>2, <1>3, <1>4 DEF BusyInv

LEMMA ReconnectsKeeps ==
    ASSUME TypeOK, BusyInv, Reconnects
    PROVE  BusyInv'
  <1>1. Granted' = {} /\ down' = <<>> /\ Len(down') = 0
    BY DEF Reconnects, BusyInv, Offline
  <1>2. RefusedFinal'
    <2> SUFFICES ASSUME NEW m \in Refused'
                 PROVE  m.code # "SESSION_BUSY" /\ srv'[m.id] # "new"
      BY <1>1 DEF RefusedFinal
    <2>1. m \in Refused /\ m.id \in Sessions
      BY RefusedKnown DEF Reconnects
    <2> QED
      BY <2>1 DEF Reconnects, BusyInv, RefusedFinal
  <1>3. Offline' /\ OneAlive'
    BY <1>1 DEF Reconnects, Offline, OneAlive, Alive
  <1>4. GrantsAlive' /\ RequestsAlive' /\ RequestsAfterGrants' /\ RequestsApart'
    BY <1>1 DEF GrantsAlive, RequestsAlive, RequestsAfterGrants, RequestsApart
  <1> QED
    BY <1>2, <1>3, <1>4 DEF BusyInv

LEMMA SettlesKeeps ==
    ASSUME TypeOK, BusyInv, Settles
    PROVE  BusyInv'
  <1> USE DEF BusyInv, Settles
  <1>1. /\ down' = down /\ srv' = srv /\ Len(down') = Len(down)
        /\ \A i, s : (Requests(i, s)' <=> Requests(i, s)) /\ (Closes(i, s)' <=> Closes(i, s))
        /\ \A s : Alive(s)' <=> Alive(s)
    BY DEF Requests, Closes, Alive
  <1>2. OneAlive' /\ Offline'
    BY <1>1 DEF OneAlive, Offline
  <1>3. GrantsAlive'
    <2> SUFFICES ASSUME NEW s \in Granted
                 PROVE  Alive(s)' \/ \E j \in 1 .. Len(down') : Closes(j, s)'
      BY DEF GrantsAlive
    <2> QED
      BY <1>1 DEF GrantsAlive
  <1>4. RequestsAlive'
    <2> SUFFICES ASSUME NEW s \in Sessions, NEW i \in 1 .. Len(down'), Requests(i, s)'
                 PROVE  Alive(s)' \/ \E j \in i + 1 .. Len(down') : Closes(j, s)'
      BY DEF RequestsAlive
    <2>1. Alive(s) \/ \E j \in i + 1 .. Len(down) : Closes(j, s)
      BY <1>1 DEF RequestsAlive
    <2> QED
      BY <1>1, <2>1
  <1>5. RequestsAfterGrants'
    <2> SUFFICES ASSUME NEW s \in Sessions, NEW t \in Granted, NEW i \in 1 .. Len(down'), t \in Sessions,
                        Requests(i, s)'
                 PROVE  \E j \in 1 .. i - 1 : Closes(j, t)'
      BY DEF RequestsAfterGrants
    <2>1. \E j \in 1 .. i - 1 : Closes(j, t)
      BY <1>1 DEF RequestsAfterGrants
    <2> QED
      BY <1>1, <2>1
  <1>6. RequestsApart'
    <2> SUFFICES ASSUME NEW s \in Sessions, NEW t \in Sessions, NEW i \in 1 .. Len(down'),
                        NEW k \in 1 .. i - 1, Requests(i, s)', Requests(k, t)'
                 PROVE  \E j \in k + 1 .. i - 1 : Closes(j, t)'
      BY DEF RequestsApart
    <2>1. \E j \in k + 1 .. i - 1 : Closes(j, t)
      BY <1>1 DEF RequestsApart
    <2> QED
      BY <1>1, <2>1
  <1>7. RefusedFinal'
    <2> SUFFICES ASSUME NEW m \in Refused
                 PROVE  /\ m.code # "SESSION_BUSY" /\ srv'[m.id] # "new" /\ m.id \notin Granted'
                        /\ \A i \in 1 .. Len(down') : ~Requests(i, m.id)'
      BY DEF RefusedFinal, Requests
    <2> QED
      BY <1>1 DEF RefusedFinal
  <1> QED
    BY <1>2, <1>3, <1>4, <1>5, <1>6, <1>7

\* What reading a message keeps, whoever is granted after it: the requests
\* behind it are one place further on.
LEMMA ReadKeeps ==
    ASSUME TypeOK, BusyInv, down # <<>>, down' = Tail(down), srv' = srv
    PROVE  OneAlive' /\ RequestsAlive' /\ RequestsApart'
  <1> USE DownRead DEF BusyInv
  <1>1. OneAlive'
    BY DEF OneAlive, Alive
  <1>2. RequestsAlive'
    <2> SUFFICES ASSUME NEW s \in Sessions, NEW i \in 1 .. Len(down'), Requests(i, s)'
                 PROVE  Alive(s)' \/ \E j \in i + 1 .. Len(down') : Closes(j, s)'
      BY DEF RequestsAlive
    <2>1. Alive(s) \/ \E j \in i + 2 .. Len(down) : Closes(j, s)
      BY DEF RequestsAlive
    <2>2. ASSUME NEW j \in i + 2 .. Len(down), Closes(j, s)
          PROVE  j - 1 \in i + 1 .. Len(down') /\ Closes(j - 1, s)'
      BY <2>2
    <2> QED
      BY <2>1, <2>2 DEF Alive
  <1>3. RequestsApart'
    <2> SUFFICES ASSUME NEW s \in Sessions, NEW t \in Sessions, NEW i \in 1 .. Len(down'),
                        NEW k \in 1 .. i - 1, Requests(i, s)', Requests(k, t)'
                 PROVE  \E j \in k + 1 .. i - 1 : Closes(j, t)'
      BY DEF RequestsApart
    <2>1. \E j \in k + 2 .. i : Closes(j, t)
      BY DEF RequestsApart
    <2>2. ASSUME NEW j \in k + 2 .. i, Closes(j, t)
          PROVE  j - 1 \in k + 1 .. i - 1 /\ Closes(j - 1, t)'
      BY <2>2
    <2> QED
      BY <2>1, <2>2
  <1> QED
    BY <1>1, <1>2, <1>3

LEMMA HandlesKeeps ==
    ASSUME TypeOK, BusyInv, Handles
    PROVE  BusyInv'
  <1> USE DownRead DEF BusyInv, Handles
  <1>1. OneAlive' /\ RequestsAlive' /\ RequestsApart'
    BY ReadKeeps
  <1>2. GrantsAlive'
    <2> SUFFICES ASSUME NEW s \in Granted'
                 PROVE  Alive(s)' \/ \E j \in 1 .. Len(down') : Closes(j, s)'
      BY DEF GrantsAlive
    <2>0. s \in Sessions /\ s \in Granted
      BY DEF Granted
    <2>1. Alive(s) \/ \E j \in 2 .. Len(down) : Closes(j, s)
      BY <2>0 DEF GrantsAlive
    <2>2. ASSUME NEW j \in 2 .. Len(down), Closes(j, s)
          PROVE  j - 1 \in 1 .. Len(down') /\ Closes(j - 1, s)'
      BY <2>0, <2>2
    <2> QED
      BY <2>1, <2>2 DEF Alive
  <1>3. RequestsAfterGrants'
    <2> SUFFICES ASSUME NEW s \in Sessions, NEW t \in Sessions, NEW i \in 1 .. Len(down'),
                        Requests(i, s)', t \in Granted'
                 PROVE  \E j \in 1 .. i - 1 : Closes(j, t)'
      BY DEF RequestsAfterGrants
    <2>1. \E j \in 2 .. i : Closes(j, t)
      BY DEF RequestsAfterGrants
    <2>2. ASSUME NEW j \in 2 .. i, Closes(j, t)
          PROVE  j - 1 \in 1 .. i - 1 /\ Closes(j - 1, t)'
      BY <2>2
    <2> QED
      BY <2>1, <2>2
  <1>4. RefusedFinal'
    BY RefusedKnown DEF RefusedFinal
  <1> QED
    BY <1>1, <1>2, <1>3, <1>4 DEF Offline

LEMMA AcceptedKeeps ==
    ASSUME TypeOK, BusyInv, NEW s \in Sessions, Accepted(s)
    PROVE  BusyInv'
  <1> USE DownRead DEF BusyInv, Accepted
  <1>1. OneAlive' /\ RequestsAlive' /\ RequestsApart'
    BY ReadKeeps
  <1>0. 1 \in 1 .. Len(down)
    BY DEF TypeOK
  <1>2. GrantsAlive'
    <2>1. Alive(s) \/ \E j \in 2 .. Len(down) : Closes(j, s)
      BY <1>0 DEF RequestsAlive
    <2>2. ASSUME NEW j \in 2 .. Len(down), Closes(j, s)
          PROVE  j - 1 \in 1 .. Len(down') /\ Closes(j - 1, s)'
      BY <2>2
    <2> QED
      BY <2>1, <2>2 DEF GrantsAlive, Alive
  <1>3. RequestsAfterGrants'
    <2> SUFFICES ASSUME NEW r \in Sessions, NEW i \in 1 .. Len(down'), Requests(i, r)'
                 PROVE  \E j \in 1 .. i - 1 : Closes(j, s)'
      BY DEF RequestsAfterGrants
    <2>0. Requests(i + 1, r) /\ i + 1 \in 1 .. Len(down) /\ 1 \in 1 .. i /\ i \in Nat
      OBVIOUS
    <2>1. \E j \in 2 .. i : Closes(j, s)
      <3>1. \E j \in 1 + 1 .. (i + 1) - 1 : Closes(j, s)
        BY <2>0 DEF RequestsApart
      <3> QED
        BY <2>0, <3>1
    <2>2. ASSUME NEW j \in 2 .. i, Closes(j, s)
          PROVE  j - 1 \in 1 .. i - 1 /\ Closes(j - 1, s)'
      BY <2>2
    <2> QED
      BY <2>1, <2>2
  <1>4. RefusedFinal'
    BY <1>0, RefusedKnown DEF RefusedFinal
  <1> QED
    BY <1>1, <1>2, <1>3, <1>4 DEF Offline

LEMMA DeclinedKeeps ==
    ASSUME TypeOK, BusyInv, FreshRequests, NEW s \in Sessions, Declined(s)
    PROVE  BusyInv'
  <1> USE DownRead DEF BusyInv, Declined
  <1>0. 1 \in 1 .. Len(down) /\ Granted = {}
    <2>1. 1 \in 1 .. Len(down)
      BY DEF TypeOK
    <2>2. ASSUME NEW t \in Granted
          PROVE  FALSE
      BY <2>1 DEF RequestsAfterGrants, Granted
    <2> QED
      BY <2>1, <2>2
  <1>1. OneAlive' /\ RequestsAlive' /\ RequestsApart'
    BY ReadKeeps
  <1>2. GrantsAlive' /\ RequestsAfterGrants' /\ Offline'
    BY <1>0 DEF GrantsAlive, RequestsAfterGrants, Offline
  <1>3. RefusedFinal'
    <2> SUFFICES ASSUME NEW m \in Refused'
                 PROVE  /\ m.code # "SESSION_BUSY" /\ srv'[m.id] # "new" /\ m.id \notin Granted'
                        /\ \A i \in 1 .. Len(down') : ~Requests(i, m.id)'
      BY DEF RefusedFinal, Requests
    <2>1. CASE m \in Refused
      BY <2>1, RefusedKnown DEF RefusedFinal
    <2>2. CASE m.id = s /\ m.code # "SESSION_BUSY"
      <3>1. srv[s] # "new" /\ \A i \in 1 .. Len(down) : Requests(i, s) => i = 1
        BY <1>0 DEF FreshRequests
      <3> QED
        BY <1>0, <2>2, <3>1
    <2> QED
      BY <1>0, <2>1, <2>2
  <1> QED
    BY <1>1, <1>2, <1>3

\* A message other than a request keeps what is true of the requests; a close
\* accounts for the session it ends.
LEMMA TellsKeeps ==
    ASSUME TypeOK, BusyInv, NEW n \in DownMessage, Tells(n)
    PROVE  BusyInv'
  <1> USE DownWritten DEF BusyInv, Tells
  <1> DEFINE l == Len(down) + 1
  <1>0. /\ l \in Nat /\ Len(down') = l /\ l \in 1 .. Len(down')
        /\ 1 .. Len(down) \subseteq 1 .. Len(down')
        /\ \A i \in 1 .. Len(down') : i \in 1 .. Len(down) \/ i = l
    OBVIOUS
  <1>1. \A s \in Sessions : \A j \in Nat :
           Alive(s) /\ j = l => Alive(s)' \/ Closes(j, s)'
    <2>1. n.type = "session.close" => n.id \in Sessions
      BY Fields
    <2> QED
      BY <1>0, <2>1 DEF Alive, TypeOK
  <1>2. \A s \in Sessions : (Alive(s)' => Alive(s)) /\ (srv[s] # "new" => srv'[s] # "new")
    <2>1. n.type = "session.close" => n.id \in Sessions
      BY Fields
    <2> QED
      BY <2>1 DEF Alive, TypeOK
  <1>3. \A s \in Sessions : \A i \in 1 .. Len(down') : Requests(i, s)' => i \in 1 .. Len(down) /\ Requests(i, s)
    BY <1>0
  <1> HIDE DEF l, Tells
  <1>4. OneAlive'
    BY <1>2 DEF OneAlive
  <1>5. GrantsAlive'
    <2> SUFFICES ASSUME NEW s \in Granted
                 PROVE  Alive(s)' \/ \E j \in 1 .. Len(down') : Closes(j, s)'
      BY DEF GrantsAlive, Tells
    <2>0. s \in Sessions /\ down' = Append(down, n)
      BY DEF Granted, Tells
    <2>1. CASE Alive(s)
      BY <1>0, <1>1, <2>0, <2>1
    <2>2. ASSUME NEW j \in 1 .. Len(down), Closes(j, s)
          PROVE  j \in 1 .. Len(down') /\ Closes(j, s)'
      BY <1>0, <2>0, <2>2
    <2> QED
      BY <2>1, <2>2 DEF GrantsAlive
  <1>6. RequestsAlive'
    <2> SUFFICES ASSUME NEW s \in Sessions, NEW i \in 1 .. Len(down'), Requests(i, s)'
                 PROVE  Alive(s)' \/ \E j \in i + 1 .. Len(down') : Closes(j, s)'
      BY DEF RequestsAlive
    <2>0. i \in 1 .. Len(down) /\ Requests(i, s) /\ down' = Append(down, n)
      BY <1>3 DEF Tells
    <2>1. CASE Alive(s)
      <3>1. l \in i + 1 .. Len(down')
        BY <1>0, <2>0 DEF l
      <3> QED
        BY <1>0, <1>1, <2>1, <3>1
    <2>2. ASSUME NEW j \in i + 1 .. Len(down), Closes(j, s)
          PROVE  j \in i + 1 .. Len(down') /\ Closes(j, s)'
      BY <2>0, <2>2
    <2> QED
      BY <2>0, <2>1, <2>2 DEF RequestsAlive
  <1>7. RequestsAfterGrants'
    <2> SUFFICES ASSUME NEW s \in Sessions, NEW t \in Sessions, NEW i \in 1 .. Len(down'),
                        Requests(i, s)', t \in Granted
                 PROVE  \E j \in 1 .. i - 1 : Closes(j, t)'
      BY DEF RequestsAfterGrants, Tells
    <2>0. i \in 1 .. Len(down) /\ Requests(i, s) /\ down' = Append(down, n)
      BY <1>3 DEF Tells
    <2>1. \E j \in 1 .. i - 1 : Closes(j, t)
      BY <2>0 DEF RequestsAfterGrants
    <2> QED
      BY <2>0, <2>1
  <1>8. RequestsApart'
    <2> SUFFICES ASSUME NEW s \in Sessions, NEW t \in Sessions, NEW i \in 1 .. Len(down'),
                        NEW k \in 1 .. i - 1, Requests(i, s)', Requests(k, t)'
                 PROVE  \E j \in k + 1 .. i - 1 : Closes(j, t)'
      BY DEF RequestsApart
    <2>0. i \in 1 .. Len(down) /\ Requests(i, s) /\ down' = Append(down, n)
      BY <1>3 DEF Tells
    <2>1. k \in 1 .. Len(down) /\ Requests(k, t)
      BY <2>0
    <2>2. \E j \in k + 1 .. i - 1 : Closes(j, t)
      BY <2>0, <2>1 DEF RequestsApart
    <2> QED
      BY <2>0, <2>1, <2>2
  <1>9. RefusedFinal'
    <2> SUFFICES ASSUME NEW m \in Refused
                 PROVE  /\ m.code # "SESSION_BUSY" /\ srv'[m.id] # "new" /\ m.id \notin Granted
                        /\ \A i \in 1 .. Len(down') : ~Requests(i, m.id)'
      BY DEF RefusedFinal, Requests, Tells
    <2> QED
      BY <1>2, <1>3, RefusedKnown DEF RefusedFinal
  <1>10. Offline'
    BY DEF Offline, Tells
  <1> QED
    BY <1>4, <1>5, <1>6, <1>7, <1>8, <1>9, <1>10

\* A request is sent when no session is alive: every other one is granted or
\* asked for only in front of its close.
LEMMA AsksKeeps ==
    ASSUME TypeOK, BusyInv, FreshRequests, NEW n \in DownMessage, Asks(n)
    PROVE  BusyInv'
  <1> USE DownWritten DEF BusyInv
  <1> DEFINE l == Len(down) + 1
  <1>a. /\ link = "up" /\ link' = "up" /\ Granted' = Granted /\ Refused' = Refused
        /\ down' = Append(down, n) /\ n.type = "session.request" /\ n.id \in Sessions
        /\ srv[n.id] = "new" /\ srv' = [srv EXCEPT ![n.id] = "requested"]
        /\ \A t \in Sessions : ~Alive(t)
    BY Fields DEF Asks
  <1>0. /\ l \in Nat /\ Len(down') = l /\ l \in 1 .. Len(down')
        /\ 1 .. Len(down) \subseteq 1 .. Len(down')
        /\ \A i \in 1 .. Len(down') : i \in 1 .. Len(down) \/ i = l
    BY <1>a
  <1>1. \A s \in Sessions : /\ Alive(s)' <=> s = n.id
                            /\ srv[s] # "new" => srv'[s] # "new"
    BY <1>a DEF Alive, TypeOK
  <1>2. \A s \in Sessions : \A i \in 1 .. Len(down') :
           Requests(i, s)' => (i \in 1 .. Len(down) /\ Requests(i, s)) \/ (i = l /\ s = n.id)
    BY <1>0, <1>a
  <1>3. /\ n.id \notin Granted
        /\ \A i \in 1 .. Len(down) : ~Requests(i, n.id)
    BY <1>a DEF FreshRequests
  <1>4. \A t \in Granted : t \in Sessions /\ \E j \in 1 .. Len(down) : Closes(j, t) /\ Closes(j, t)'
    BY <1>a DEF GrantsAlive, Granted
  <1>5. \A t \in Sessions : \A k \in 1 .. Len(down) : Requests(k, t) =>
           \E j \in k + 1 .. Len(down) : Closes(j, t) /\ Closes(j, t)'
    <2> SUFFICES ASSUME NEW t \in Sessions, NEW k \in 1 .. Len(down), Requests(k, t)
                 PROVE  \E j \in k + 1 .. Len(down) : Closes(j, t) /\ Closes(j, t)'
      OBVIOUS
    <2>1. \E j \in k + 1 .. Len(down) : Closes(j, t)
      BY <1>a DEF RequestsAlive
    <2> QED
      BY <1>a, <2>1
  <1>6. OneAlive'
    BY <1>1 DEF OneAlive
  <1>7. GrantsAlive'
    BY <1>0, <1>4, <1>a DEF GrantsAlive
  <1>8. RequestsAlive'
    <2> SUFFICES ASSUME NEW s \in Sessions, NEW i \in 1 .. Len(down'), Requests(i, s)'
                 PROVE  Alive(s)' \/ \E j \in i + 1 .. Len(down') : Closes(j, s)'
      BY DEF RequestsAlive
    <2>1. CASE i = l /\ s = n.id
      BY <1>1, <2>1
    <2>2. CASE i \in 1 .. Len(down) /\ Requests(i, s)
      <3>1. PICK j \in i + 1 .. Len(down) : Closes(j, s)'
        BY <1>5, <2>2
      <3>2. j \in i + 1 .. Len(down')
        BY <1>0, <2>2
      <3> QED
        BY <3>1, <3>2
    <2> QED
      BY <1>2, <2>1, <2>2
  <1>9. RequestsAfterGrants'
    <2> SUFFICES ASSUME NEW s \in Sessions, NEW t \in Sessions, NEW i \in 1 .. Len(down'),
                        Requests(i, s)', t \in Granted
                 PROVE  \E j \in 1 .. i - 1 : Closes(j, t)'
      BY <1>a DEF RequestsAfterGrants
    <2>1. CASE i = l /\ s = n.id
      BY <1>0, <1>4, <2>1
    <2>2. CASE i \in 1 .. Len(down) /\ Requests(i, s)
      <3>1. \E j \in 1 .. i - 1 : Closes(j, t)
        BY <2>2 DEF RequestsAfterGrants
      <3> QED
        BY <1>a, <2>2, <3>1
    <2> QED
      BY <1>2, <2>1, <2>2
  <1>10. RequestsApart'
    <2> SUFFICES ASSUME NEW s \in Sessions, NEW t \in Sessions, NEW i \in 1 .. Len(down'),
                        NEW k \in 1 .. i - 1, Requests(i, s)', Requests(k, t)'
                 PROVE  \E j \in k + 1 .. i - 1 : Closes(j, t)'
      BY DEF RequestsApart
    <2>0. k \in 1 .. Len(down) /\ k # l
      BY <1>0
    <2>1. Requests(k, t)
      BY <1>0, <1>2, <2>0
    <2>2. CASE i = l /\ s = n.id
      <3>1. PICK j \in k + 1 .. Len(down) : Closes(j, t)'
        BY <1>5, <2>0, <2>1
      <3>2. j \in k + 1 .. i - 1
        BY <1>0, <2>0, <2>2
      <3> QED
        BY <3>1, <3>2
    <2>3. CASE i \in 1 .. Len(down) /\ Requests(i, s)
      <3>1. PICK j \in k + 1 .. i - 1 : Closes(j, t)
        BY <2>1, <2>3 DEF RequestsApart
      <3>2. Closes(j, t)'
        BY <1>a, <2>0, <2>3, <3>1
      <3> QED
        BY <3>2
    <2> QED
      BY <1>2, <2>2, <2>3
  <1>11. RefusedFinal'
    <2> SUFFICES ASSUME NEW m \in Refused
                 PROVE  /\ m.code # "SESSION_BUSY" /\ srv'[m.id] # "new" /\ m.id \notin Granted
                        /\ \A i \in 1 .. Len(down') : ~Requests(i, m.id)'
      BY <1>a DEF RefusedFinal, Requests
    <2>1. m.id \in Sessions /\ m.id # n.id
      BY <1>a, RefusedKnown DEF RefusedFinal
    <2> QED
      BY <1>1, <1>2, <2>1 DEF RefusedFinal
  <1>12. Offline'
    BY <1>a DEF Offline
  <1> QED
    BY <1>6, <1>7, <1>8, <1>9, <1>10, <1>11, <1>12

\* The agent's answers: an accepted session stays alive, and one that is closed
\* or refused neither holds the grant nor is asked for.
LEMMA HearsKeeps ==
    ASSUME TypeOK, BusyInv, FreshRequests, EndedHoldsNothing, NEW m \in UpMessage, Hears(m)
    PROVE  BusyInv'
  <1> USE DEF BusyInv, Hears
  <1>0. m.id \in Sessions
    BY UpFields
  <1>1. \A s \in Sessions : /\ Alive(s)' => Alive(s)
                            /\ srv[s] # "new" => srv'[s] # "new"
    BY <1>0 DEF Alive, TypeOK
  <1>2. \A s \in Sessions : Alive(s) /\ ~Alive(s)' =>
           s \notin Granted /\ \A i \in 1 .. Len(down) : ~Requests(i, s)
    <2>1. CASE m.id \in ended
      BY <2>1, <1>0 DEF Alive, TypeOK, FreshRequests, EndedHoldsNothing
    <2>2. CASE m \in Refused
      BY <2>2, <1>0 DEF Alive, TypeOK, RefusedFinal
    <2>3. CASE srv' = srv \/ srv' = [srv EXCEPT ![m.id] = "open"]
      BY <2>3, <1>0 DEF Alive, TypeOK
    <2> QED
      BY <2>1, <2>2, <2>3
  <1>3. \A s \in Sessions : \A i \in 1 .. Len(down) :
           (Requests(i, s)' <=> Requests(i, s)) /\ (Closes(i, s)' <=> Closes(i, s))
    BY DEF Requests, Closes
  <1>4. OneAlive'
    BY <1>1 DEF OneAlive
  <1>5. GrantsAlive'
    BY <1>2 DEF GrantsAlive, Granted, Closes
  <1>6. RequestsAlive'
    BY <1>2 DEF RequestsAlive, Closes, Requests
  <1>7. RequestsAfterGrants' /\ RequestsApart' /\ Offline'
    BY DEF RequestsAfterGrants, RequestsApart, Offline, Closes, Requests
  <1>8. RefusedFinal'
    <2> SUFFICES ASSUME NEW r \in Refused
                 PROVE  /\ r.code # "SESSION_BUSY" /\ srv'[r.id] # "new" /\ r.id \notin Granted
                        /\ \A i \in 1 .. Len(down) : ~Requests(i, r.id)
      BY DEF RefusedFinal, Requests
    <2> QED
      BY <1>1, RefusedKnown DEF RefusedFinal
  <1> QED
    BY <1>4, <1>5, <1>6, <1>7, <1>8

\* A server that asks for a session only when it has no other is never told
\* that the agent is busy, whatever it closes and however often the connection
\* is lost: the close of the last session is on the wire before the request.
THEOREM NeverToldBusy == OneAtATime => (Spec => []NeverBusy)
  <1> SUFFICES ASSUME OneAtATime
               PROVE  Spec => []NeverBusy
    OBVIOUS
  <1>1. Init => BusyInv
    BY DEF Init, BusyInv, Offline, OneAlive, GrantsAlive, RequestsAlive, RequestsAfterGrants,
           RequestsApart, RefusedFinal, Refused, Granted, Alive
  <1>2. ASSUME TypeOK, SessionInv, BusyInv, [Next]_vars
        PROVE  BusyInv'
    <2>1. ServedStep
      BY <1>2, EveryServed DEF SessionInv
    <2> QED
      BY <1>2, <2>1, EmptiesKeeps, ReconnectsKeeps, SettlesKeeps, HandlesKeeps, AcceptedKeeps,
         DeclinedKeeps, TellsKeeps, AsksKeeps, HearsKeeps DEF ServedStep, SessionInv
  <1>3. BusyInv => NeverBusy
    BY DEF BusyInv, RefusedFinal, Refused, NeverBusy
  <1> QED
    BY <1>1, <1>2, <1>3, TypeCorrect, SessionInvariant, PTL DEF Spec
=============================================================================
