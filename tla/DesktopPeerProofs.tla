-------------------------- MODULE DesktopPeerProofs --------------------------
(***************************************************************************)
(* Proofs about DesktopPeer, for parts, messages and queues of any size:   *)
(* its types, that the parts the browser joins belong together, and that   *)
(* it implements a pipe of whole messages per sender.                      *)
(***************************************************************************)
EXTENDS DesktopPeer, TLAPS

\* A quotient with remainder, for any divisor.
LEMMA Quotient ==
    ASSUME NEW a \in Nat, NEW b \in Nat \ {0}
    PROVE  /\ a \div b \in Nat
           /\ (a \div b) * b <= a
           /\ a < (a \div b) * b + b
BY SMT

\* Writer::send: a message has at least one part, and the flag `last` is on
\* the part after which no chunk is left, and on no other.
LEMMA LastPart ==
    ASSUME NEW l \in Nat \ {0}, NEW p \in Nat, p < Chunks(l)
    PROVE  /\ Chunks(l) \in Nat \ {0}
           /\ IsLast(l, p) <=> p + 1 = Chunks(l)
<1> USE PeerAssumption
<1> DEFINE c == Chunks(l)
<1>1. /\ c \in Nat
      /\ c * PartSize <= l + PartSize - 1
      /\ l + PartSize - 1 < c * PartSize + PartSize
  BY Quotient, l + PartSize - 1 \in Nat DEF Chunks
<1>2. CASE p + 1 = c
  BY <1>1, <1>2 DEF IsLast
<1>3. CASE p + 1 < c
  <2>1. \E d \in Nat : c = p + 2 + d
    <3>1. c - (p + 2) \in Nat /\ c = p + 2 + (c - (p + 2))
      BY <1>1, <1>3
    <3> QED
      BY <3>1
  <2>2. PICK d \in Nat : c = p + 2 + d
    BY <2>1
  <2>3. c * PartSize = (p + 1) * PartSize + PartSize + d * PartSize
    BY <2>2
  <2>4. d * PartSize \in Nat
    OBVIOUS
  <2> QED
    BY <1>1, <1>3, <2>3, <2>4 DEF IsLast
<1> QED
  BY <1>1, <1>2, <1>3

\* A message no longer than a part has one.
LEMMA OnePart ==
    ASSUME NEW l \in 1 .. PartSize
    PROVE  Chunks(l) = 1 /\ IsLast(l, 0)
<1> USE PeerAssumption
<1> DEFINE c == Chunks(l)
<1>1. /\ c \in Nat
      /\ c * PartSize <= l + PartSize - 1
      /\ l + PartSize - 1 < c * PartSize + PartSize
  BY Quotient, l + PartSize - 1 \in Nat DEF Chunks
<1>2. c # 0
  BY <1>1
<1>3. ~(c >= 2)
  <2> SUFFICES ASSUME c >= 2
               PROVE  FALSE
    OBVIOUS
  <2>1. c - 2 \in Nat /\ (c - 2) * PartSize \in Nat
    BY <1>1
  <2>2. c * PartSize = (c - 2) * PartSize + PartSize + PartSize
    BY <1>1
  <2> QED
    BY <1>1, <2>1, <2>2
<1> QED
  BY <1>1, <1>2, <1>3 DEF IsLast

\* A message some task produces has a length within the bound.
LEMMA LengthsBounded ==
    ASSUME NEW s \in Senders, NEW l \in Lengths(s)
    PROVE  l \in 1 .. MaxLength
BY PeerAssumption DEF Lengths, Reply

\* What the sender of one message leaves behind for the types.
LEMMA FailTyped ==
    ASSUME TypeOK, NEW s \in Senders, Fail(s), UNCHANGED <<link, outVars, pipeVars>>
    PROVE  TypeOK'
BY PeerAssumption DEF TypeOK, Fail, outVars, pipeVars, Relayed, Vital

\* Begin.
LEMMA BeginTyped ==
    ASSUME TypeOK, NEW s \in Senders, Begin(s)
    PROVE  TypeOK'
<1>1. CASE Fail(s) /\ UNCHANGED <<link, outVars, pipeVars>>
  BY <1>1, FailTyped
<1>2. CASE /\ ~Relayed /\ task' = [task EXCEPT ![s] = "waiting"]
           /\ UNCHANGED <<link, peer, stop, outVars, pipeVars>>
  BY <1>2 DEF TypeOK, outVars, pipeVars, Relayed
<1>3. ASSUME NEW l \in Lengths(s), Relayed,
             task' = [task EXCEPT ![s] = "sending"], serial' = [serial EXCEPT ![s] = @ + 1],
             len' = [len EXCEPT ![s] = l], part' = [part EXCEPT ![s] = 0],
             UNCHANGED <<link, peer, stop, pipeVars>>
      PROVE  TypeOK'
  <2>1. l \in 1 .. MaxLength
    BY LengthsBounded
  <2>2. 0 < Chunks(l)
    BY <2>1, PeerAssumption, Quotient, l + PartSize - 1 \in Nat DEF Chunks
  <2>3. \A t \in Senders : task'[t] \in {"sending", "waiting"} =>
           len'[t] > 0 /\ part'[t] < Chunks(len'[t])
    BY <1>3, <2>1, <2>2, PeerAssumption DEF TypeOK
  <2> QED
    BY <1>3, <2>1, <2>3, PeerAssumption DEF TypeOK, pipeVars
<1> QED
  BY <1>1, <1>2, <1>3 DEF Begin

\* Enqueue.
LEMMA EnqueueTyped ==
    ASSUME TypeOK, NEW s \in Senders, Enqueue(s)
    PROVE  TypeOK'
<1>1. Piece(s) \in Pieces
  BY DEF TypeOK, Piece, Pieces
<1>2. queue' \in Seq(Pieces \cup {Stray}) /\ Len(queue') <= RelaySlots
  BY <1>1, PeerAssumption DEF TypeOK, Enqueue, Room
<1>3. CASE part[s] + 1 = Chunks(len[s])
  BY <1>2, <1>3 DEF TypeOK, Enqueue, Sent, Relayed
<1>4. CASE part[s] + 1 # Chunks(len[s])
  <2>1. Chunks(len[s]) \in Nat /\ part[s] + 1 < Chunks(len[s])
    BY <1>4, LastPart DEF TypeOK, Enqueue
  <2>2. /\ part' = [part EXCEPT ![s] = part[s] + 1]
        /\ task' = [task EXCEPT ![s] = "sending"]
        /\ UNCHANGED <<link, peer, stop, serial, len, joined, arrived, garbled>>
    BY <1>4 DEF Enqueue
  <2>3. \A t \in Senders : task'[t] \in {"sending", "waiting"} /\ link = "relay" =>
           len[t] > 0 /\ part'[t] < Chunks(len[t])
    BY <2>1, <2>2 DEF TypeOK, Enqueue, Relayed
  <2> QED
    BY <1>2, <2>2, <2>3 DEF TypeOK, Relayed
<1> QED
  BY <1>3, <1>4

\* Every reachable state is well typed: the queue never exceeds its capacity,
\* and a task in the middle of a message has a part left to send.
THEOREM TypeCorrect == Spec => []TypeOK
<1> USE PeerAssumption
<1>1. Init => TypeOK
  BY DEF Init, TypeOK, Senders, Channels, Relayed
<1>2. TypeOK /\ [Next]_vars => TypeOK'
  <2> SUFFICES ASSUME TypeOK, [Next]_vars
               PROVE  TypeOK'
    OBVIOUS
  <2>1. ASSUME NEW s \in Senders, Begin(s) \/ Step(s) \/ WorkFails(s)
        PROVE  TypeOK'
    <3>1. CASE Begin(s)
      BY <3>1, BeginTyped
    <3>2. CASE Enqueue(s)
      BY <3>2, EnqueueTyped
    <3>3. CASE Fail(s) /\ UNCHANGED <<link, outVars, pipeVars>>
      BY <3>3, FailTyped
    <3>4. CASE CheckStop(s) /\ stop # "set"
      BY <3>4 DEF CheckStop, TypeOK, outVars, pipeVars, Relayed
    <3>5. CASE /\ LibrarySends(s) \/ Leave(s)
               /\ \/ task' = [task EXCEPT ![s] = "idle"]
                  \/ task' = [task EXCEPT ![s] = "ended"]
               /\ UNCHANGED <<peer, stop>>
      BY <3>5 DEF LibrarySends, Leave, TypeOK, outVars, pipeVars, Relayed
    <3> QED
      BY <2>1, <3>1, <3>2, <3>3, <3>4, <3>5
      DEF Step, CheckStop, GiveUp, LibrarySends, Leave, WorkFails
  <2>2. CASE Forward
    <3>1. queue' \in Seq(Pieces \cup {Stray}) /\ Len(queue') <= RelaySlots
      BY <2>2 DEF Forward, TypeOK
    <3>2. Head(queue) \in Pieces \cup {Stray}
      BY <2>2 DEF Forward, TypeOK
    <3>3. \A b \in Pieces : Channel(b.from) \in Channels /\ b.from \in Senders /\ b.n \in Nat
      BY DEF Pieces, Channel, Channels, Senders
    <3> DEFINE Typed == /\ joined' \in [Channels -> Pieces \cup {Stray}]
                        /\ arrived' \in [Senders -> Nat] /\ garbled' \subseteq Channels
    <3>4. ASSUME OfThisPeer(Head(queue))
          PROVE  Typed
      <4> DEFINE h == Head(queue)
      <4>1. h \in Pieces
        BY <3>2, <3>4 DEF OfThisPeer
      <4>2. joined' = [joined EXCEPT ![Channel(h.from)] = h] /\ garbled' \subseteq garbled \cup {Channel(h.from)}
        BY <2>2, <3>4 DEF Forward
      <4>3. arrived' = arrived \/ arrived' = [arrived EXCEPT ![h.from] = h.n]
        BY <2>2, <3>4 DEF Forward
      <4> HIDE DEF h
      <4> QED
        BY <3>3, <4>1, <4>2, <4>3 DEF TypeOK
    <3>5. ASSUME ~OfThisPeer(Head(queue))
          PROVE  Typed
      BY <2>2, <3>5 DEF Forward, TypeOK
    <3>6. UNCHANGED <<link, peer, stop, task, serial, len, part>>
      BY <2>2 DEF Forward, outVars
    <3> QED
      BY <3>1, <3>4, <3>5, <3>6 DEF TypeOK, Relayed
  <2>3. CASE Overflow \/ Close \/ Negotiate \/ Disconnect \/ ConnectionFails \/ Watch
    BY <2>3 DEF Overflow, Close, Negotiate, Disconnect, ConnectionFails, Watch, Negotiated,
                TypeOK, outVars, pipeVars, Relayed
  <2>4. CASE Connect \/ OpenChannel
    BY <2>4 DEF Connect, OpenChannel, Negotiated, TypeOK, outVars, pipeVars, Relayed
  <2>5. CASE UNCHANGED vars
    BY <2>5 DEF vars, TypeOK, outVars, pipeVars, Relayed
  <2> QED
    BY <2>1, <2>2, <2>3, <2>4, <2>5 DEF Next
<1> QED
  BY <1>1, <1>2, PTL DEF Spec
-----------------------------------------------------------------------------
(* What each channel carries: the part joined last, then those in the      *)
(* queue, then the one its sender is about to send.                        *)

\* Position i of the queue holds a part for channel c.
On(c, i) == i \in DOMAIN queue /\ queue[i] # Stray /\ Channel(queue[i].from) = c

\* x is what channel c carries last before position i.
Before(c, i, x) ==
    \/ \E j \in 1 .. i - 1 : On(c, j) /\ x = queue[j] /\ \A k \in j + 1 .. i - 1 : ~On(c, k)
    \/ x = joined[c] /\ \A k \in 1 .. i - 1 : ~On(c, k)

\* What a sender sends next continues x.
Ready(s, x) ==
    /\ task[s] \in {"absent", "idle"} => x.last = "yes"
    /\ task[s] \in {"sending", "waiting"} =>
          IF part[s] = 0 THEN x.last = "yes"
          ELSE x.from = s /\ x.n = serial[s] /\ x.part + 1 = part[s] /\ x.last = "no"

\* The senders of the shared channel send messages of one part; the media
\* have not begun while the peer starts.
SharedInv ==
    Relayed =>
    /\ \A s \in Senders : Channel(s) = "input" /\ task[s] \in {"sending", "waiting"} =>
          part[s] = 0 /\ len[s] \in 1 .. PartSize
    /\ task["starter"] # "ended" =>
          peer = "starting" /\ task["capture"] = "absent" /\ task["audio"] = "absent"

QueueInv == \A c \in Channels, i \in DOMAIN queue, x \in Pieces \cup {Stray} :
                On(c, i) /\ Before(c, i, x) => Follows(x, queue[i])

SenderInv == \A s \in Senders, x \in Pieces \cup {Stray} :
                Before(Channel(s), Len(queue) + 1, x) => Ready(s, x)

ChainInv ==
    /\ SharedInv
    /\ Relayed /\ peer # "closed" => QueueInv /\ SenderInv
    /\ WholeMessages

\* A part put at the end of the queue is behind everything in it.
LEMMA BeforeAppend ==
    ASSUME TypeOK, NEW b, queue' = Append(queue, b), joined' = joined, NEW c, NEW x
    PROVE  /\ \A i \in 1 .. Len(queue) + 1 : Before(c, i, x)' => Before(c, i, x)
           /\ \A i \in DOMAIN queue : On(c, i)' <=> On(c, i)
           /\ Len(queue') = Len(queue) + 1 /\ queue'[Len(queue) + 1] = b
           /\ \A i \in DOMAIN queue : queue'[i] = queue[i]
           /\ IF b # Stray /\ Channel(b.from) = c
              THEN Before(c, Len(queue) + 1, x)' => x = b
              ELSE Before(c, Len(queue) + 1, x)' => Before(c, Len(queue) + 1, x)
<1>1. /\ Len(queue) \in Nat /\ DOMAIN queue = 1 .. Len(queue)
      /\ Len(queue') = Len(queue) + 1 /\ DOMAIN queue' = 1 .. Len(queue) + 1
      /\ queue'[Len(queue) + 1] = b
      /\ \A i \in 1 .. Len(queue) : queue'[i] = queue[i]
  BY DEF TypeOK
<1>2. \A i \in DOMAIN queue : On(c, i)' <=> On(c, i)
  BY <1>1 DEF On
<1>3. \A i \in 1 .. Len(queue) + 1 : Before(c, i, x)' => Before(c, i, x)
  BY <1>1, <1>2 DEF Before
<1>4. PICK n \in Nat : n = Len(queue)
  BY <1>1
<1>5. On(c, n + 1)' <=> b # Stray /\ Channel(b.from) = c
  BY <1>1, <1>4 DEF On
<1>6. Before(c, Len(queue) + 1, x)' => Before(c, n + 2, x)'
  BY <1>1, <1>4 DEF Before
<1>7. ASSUME b # Stray, Channel(b.from) = c, Before(c, n + 2, x)'
      PROVE  x = b
  BY <1>1, <1>4, <1>5, <1>7 DEF Before
<1>8. ASSUME ~(b # Stray /\ Channel(b.from) = c), Before(c, n + 2, x)'
      PROVE  Before(c, Len(queue) + 1, x)
  <2>1. Before(c, n + 1, x)'
    BY <1>1, <1>4, <1>5, <1>8 DEF Before
  <2> QED
    BY <1>1, <1>3, <1>4, <2>1
<1> QED
  BY <1>1, <1>2, <1>3, <1>6, <1>7, <1>8

\* A part taken from the queue and joined stays before everything behind it.
LEMMA BeforeTail ==
    ASSUME TypeOK, queue # <<>>, queue' = Tail(queue), NEW c \in Channels, NEW x,
           joined' = IF Head(queue) # Stray
                     THEN [joined EXCEPT ![Channel(Head(queue).from)] = Head(queue)]
                     ELSE joined
    PROVE  /\ \A i \in 1 .. Len(queue) : Before(c, i, x)' => Before(c, i + 1, x)
           /\ \A i \in DOMAIN queue' : i + 1 \in DOMAIN queue /\ queue'[i] = queue[i + 1]
           /\ \A i \in DOMAIN queue' : On(c, i)' <=> On(c, i + 1)
           /\ Len(queue) = Len(queue') + 1
<1>1. /\ Len(queue) \in Nat \ {0} /\ DOMAIN queue = 1 .. Len(queue)
      /\ Len(queue') = Len(queue) - 1 /\ DOMAIN queue' = 1 .. Len(queue) - 1
      /\ Head(queue) = queue[1]
      /\ \A i \in 1 .. Len(queue) - 1 : queue'[i] = queue[i + 1]
  BY DEF TypeOK
<1>2. \A i \in 1 .. Len(queue) - 1 : On(c, i)' <=> On(c, i + 1)
  BY <1>1 DEF On
<1>3. ASSUME NEW i \in 1 .. Len(queue), Before(c, i, x)'
      PROVE  Before(c, i + 1, x)
  <2>1. CASE \E j \in 1 .. i - 1 : /\ On(c, j)' /\ x = queue'[j]
                                   /\ \A k \in j + 1 .. i - 1 : ~On(c, k)'
    <3>1. PICK j \in 1 .. i - 1 : /\ On(c, j)' /\ x = queue'[j]
                                  /\ \A k \in j + 1 .. i - 1 : ~On(c, k)'
      BY <2>1
    <3>2. On(c, j + 1) /\ x = queue[j + 1]
      BY <1>1, <1>2, <3>1
    <3>3. \A k \in (j + 1) + 1 .. (i + 1) - 1 : ~On(c, k)
      <4> SUFFICES ASSUME NEW k \in (j + 1) + 1 .. (i + 1) - 1
                   PROVE  ~On(c, k)
        OBVIOUS
      <4>1. k - 1 \in j + 1 .. i - 1 /\ k - 1 \in 1 .. Len(queue) - 1 /\ (k - 1) + 1 = k
        BY <1>1
      <4> QED
        BY <1>2, <3>1, <4>1
    <3> QED
      BY <3>2, <3>3 DEF Before
  <2>2. CASE x = joined'[c] /\ \A k \in 1 .. i - 1 : ~On(c, k)'
    <3>1. \A k \in 2 .. i : ~On(c, k)
      <4> SUFFICES ASSUME NEW k \in 2 .. i
                   PROVE  ~On(c, k)
        OBVIOUS
      <4>1. k - 1 \in 1 .. i - 1 /\ k - 1 \in 1 .. Len(queue) - 1 /\ (k - 1) + 1 = k
        BY <1>1
      <4> QED
        BY <1>2, <2>2, <4>1
    <3>2. CASE On(c, 1)
      <4>1. x = queue[1]
        BY <1>1, <2>2, <3>2 DEF On, TypeOK
      <4> QED
        BY <3>1, <3>2, <4>1 DEF Before
    <3>3. CASE ~On(c, 1)
      <4>1. x = joined[c]
        BY <1>1, <2>2, <3>3 DEF On, TypeOK
      <4> QED
        BY <3>1, <3>3, <4>1 DEF Before
    <3> QED
      BY <3>2, <3>3
  <2> QED
    BY <1>3, <2>1, <2>2 DEF Before
<1> QED
  BY <1>1, <1>2, <1>3

\* Steps that leave the queue and what is joined alone, and each sender as
\* ready to continue as it was.
LEMMA TasksKeepChain ==
    ASSUME ChainInv, UNCHANGED <<link, queue, joined, garbled>>, SharedInv',
           peer' # "closed" => peer # "closed",
           Relayed => \A s \in Senders, x \in Pieces \cup {Stray} : Ready(s, x) => Ready(s, x)'
    PROVE  ChainInv'
<1>1. WholeMessages'
  BY DEF ChainInv, WholeMessages
<1>2. ASSUME Relayed', peer' # "closed"
      PROVE  QueueInv' /\ SenderInv'
  <2>1. QueueInv /\ SenderInv /\ Relayed
    BY <1>2 DEF ChainInv, Relayed
  <2>2. \A c, i : On(c, i)' <=> On(c, i)
    BY DEF On
  <2>3. \A c, i, x : Before(c, i, x)' <=> Before(c, i, x)
    BY <2>2 DEF Before
  <2>4. \A c, x : Before(c, Len(queue) + 1, x)' => Before(c, Len(queue) + 1, x)
    BY <2>2 DEF Before
  <2>5. QueueInv'
    BY <2>1, <2>2, <2>3 DEF QueueInv
  <2>6. SenderInv'
    BY <2>1, <2>4 DEF SenderInv
  <2> QED
    BY <2>5, <2>6
<1> QED
  BY <1>1, <1>2 DEF ChainInv

\* A sender that fails, between messages or in the middle of one.
LEMMA FailKeepsChain ==
    ASSUME TypeOK, ChainInv, NEW s \in Senders, Fail(s), UNCHANGED <<link, outVars, pipeVars>>,
           task[s] \in {"idle", "sending", "waiting"}
    PROVE  ChainInv'
<1>1. /\ task' = [task EXCEPT ![s] = IF s = "focus" THEN "idle" ELSE "ended"]
      /\ peer' = IF s = "starter" THEN "closed" ELSE peer
      /\ UNCHANGED <<link, serial, len, part, queue, joined, garbled>>
  BY DEF Fail, outVars, pipeVars
<1>2. SharedInv'
  BY <1>1 DEF ChainInv, SharedInv, TypeOK, Relayed, Senders
<1>3. ASSUME NEW t \in Senders, NEW x, Ready(t, x), Relayed
      PROVE  Ready(t, x)'
  BY <1>1, <1>3 DEF ChainInv, SharedInv, TypeOK, Ready, Channel, Senders
<1> QED
  BY <1>1, <1>2, <1>3, TasksKeepChain

\* Begin: the first part follows what is complete.
LEMMA BeginKeepsChain ==
    ASSUME TypeOK, ChainInv, NEW s \in Senders, Begin(s)
    PROVE  ChainInv'
<1>1. CASE Fail(s) /\ UNCHANGED <<link, outVars, pipeVars>>
  BY <1>1, FailKeepsChain DEF Begin, Produces
<1>2. CASE /\ ~Relayed /\ task' = [task EXCEPT ![s] = "waiting"]
           /\ UNCHANGED <<link, peer, stop, outVars, pipeVars>>
  BY <1>2 DEF ChainInv, SharedInv, Relayed, WholeMessages, pipeVars
<1>3. ASSUME NEW l \in Lengths(s), Relayed,
             task' = [task EXCEPT ![s] = "sending"], serial' = [serial EXCEPT ![s] = @ + 1],
             len' = [len EXCEPT ![s] = l], part' = [part EXCEPT ![s] = 0],
             UNCHANGED <<link, peer, stop, pipeVars>>
      PROVE  ChainInv'
  <2>1. task[s] = "idle"
    BY DEF Begin, Produces
  <2>2. Channel(s) = "input" => l \in 1 .. PartSize
    BY PeerAssumption DEF Lengths, Reply, Channel, Senders
  <2>3. SharedInv'
    BY <1>3, <2>1, <2>2 DEF ChainInv, SharedInv, TypeOK, Relayed, Senders
  <2>4. ASSUME NEW t \in Senders, NEW x, Ready(t, x)
        PROVE  Ready(t, x)'
    BY <1>3, <2>1, <2>4 DEF TypeOK, Ready
  <2> QED
    BY <1>3, <2>3, <2>4, TasksKeepChain DEF pipeVars
<1> QED
  BY <1>1, <1>2, <1>3 DEF Begin

\* Enqueue: the part follows the last one on its channel, and its sender is
\* ready for the next.
LEMMA EnqueueKeepsChain ==
    ASSUME TypeOK, ChainInv, NEW s \in Senders, Enqueue(s)
    PROVE  ChainInv'
<1> DEFINE b == Piece(s)
<1>1. /\ Relayed /\ task[s] = "waiting" /\ queue' = Append(queue, b)
      /\ UNCHANGED <<link, stop, serial, len, joined, garbled>>
  BY DEF Enqueue
<1>2. /\ b \in Pieces /\ b # Stray /\ b.from = s /\ b.n = serial[s] /\ b.part = part[s]
      /\ b.last = "yes" <=> part[s] + 1 = Chunks(len[s])
      /\ b.last \in {"no", "yes"}
  <2>1. part[s] \in Nat /\ len[s] \in Nat \ {0} /\ part[s] < Chunks(len[s])
    BY <1>1, PeerAssumption DEF TypeOK
  <2>2. IsLast(len[s], part[s]) <=> part[s] + 1 = Chunks(len[s])
    BY <2>1, LastPart
  <2> QED
    BY <2>2 DEF Piece, Pieces, Stray, TypeOK, Senders
<1>3. Channel(s) = "input" => b.last = "yes"
  BY <1>1, <1>2, OnePart DEF ChainInv, SharedInv
<1>4. IF b.last = "yes" THEN Sent(s) /\ UNCHANGED part
      ELSE /\ task' = [task EXCEPT ![s] = "sending"]
           /\ part' = [part EXCEPT ![s] = @ + 1]
           /\ UNCHANGED peer
  BY <1>2 DEF Enqueue
<1>5. /\ task["starter"] # "ended" =>
            peer = "starting" /\ task["capture"] = "absent" /\ task["audio"] = "absent"
      /\ \A t \in Senders : t # s =>
            \/ task'[t] = task[t]
            \/ t \in {"capture", "audio"} /\ task[t] = "absent" /\ task'[t] = "idle"
      /\ s = "starter" => peer = "starting"
      /\ s # "starter" => peer' = peer
      /\ b.last = "yes" => task'[s] \in {"idle", "ended"}
      /\ b.last = "no" => task'[s] = "sending" /\ part'[s] = part[s] + 1
      /\ \A t \in Senders : t # s => part'[t] = part[t]
  <2>1. /\ task["starter"] # "ended" =>
              peer = "starting" /\ task["capture"] = "absent" /\ task["audio"] = "absent"
        /\ task["starter"] = "waiting" => task["starter"] # "ended"
    BY <1>1 DEF ChainInv, SharedInv
  <2>2. task \in [Senders -> {"absent", "idle", "sending", "waiting", "ended"}] /\ part \in [Senders -> Nat]
    BY DEF TypeOK
  <2>3. CASE b.last = "no"
    BY <1>1, <1>4, <2>1, <2>2, <2>3
  <2>4. CASE b.last = "yes" /\ s = "starter"
    <3>1. /\ peer = "starting" /\ task["capture"] = "absent" /\ task["audio"] = "absent"
      BY <1>1, <2>1, <2>4
    <3>2. /\ part' = part
          /\ task' = [t \in Senders |->
                        IF t = "starter" THEN "ended"
                        ELSE IF t = "capture" \/ (t = "audio" /\ t \in Optional) THEN "idle"
                        ELSE task[t]]
      BY <1>4, <2>4 DEF Sent
    <3> QED
      BY <2>1, <2>2, <2>4, <3>1, <3>2
  <2>5. CASE b.last = "yes" /\ s # "starter"
    <3>1. part' = part /\ task' = [task EXCEPT ![s] = "idle"] /\ UNCHANGED peer
      BY <1>4, <2>5 DEF Sent
    <3> QED
      BY <2>1, <2>2, <2>5, <3>1
  <2> HIDE DEF b
  <2> QED
    BY <1>2, <2>3, <2>4, <2>5
<1>6. SharedInv'
  <2>1. ASSUME NEW t \in Senders, Channel(t) = "input", task'[t] \in {"sending", "waiting"}
        PROVE  part'[t] = 0 /\ len'[t] \in 1 .. PartSize
    BY <1>1, <1>2, <1>3, <1>5, <2>1 DEF ChainInv, SharedInv, Channel
  <2>2. ASSUME task'["starter"] # "ended"
        PROVE  peer' = "starting" /\ task'["capture"] = "absent" /\ task'["audio"] = "absent"
    <3>1. s # "starter"
      BY <1>2, <1>3, <1>4, <2>2 DEF Channel, Sent, TypeOK, Senders
    <3> QED
      BY <1>1, <1>4, <1>5, <2>2, <3>1 DEF Sent, TypeOK, Senders
  <2> QED
    BY <2>1, <2>2 DEF SharedInv
<1>7. ASSUME peer' # "closed"
      PROVE  QueueInv' /\ SenderInv'
  <2>1. QueueInv /\ SenderInv
    BY <1>1, <1>5, <1>7 DEF ChainInv
  <2>2. ASSUME NEW x \in Pieces \cup {Stray}, Before(Channel(s), Len(queue) + 1, x)
        PROVE  Follows(x, b)
    <3>1. Ready(s, x)
      BY <2>1, <2>2 DEF SenderInv
    <3> QED
      BY <1>1, <1>2, <3>1 DEF Ready, Follows, TypeOK
  <2>3. Len(queue) \in Nat /\ DOMAIN queue = 1 .. Len(queue) /\ DOMAIN queue' = 1 .. Len(queue) + 1
    BY <1>1 DEF TypeOK
  <2>4. ASSUME NEW c \in Channels, NEW i \in DOMAIN queue', NEW x \in Pieces \cup {Stray},
               On(c, i)', Before(c, i, x)'
        PROVE  Follows(x, queue'[i])
    <3>1. Before(c, i, x)
      BY <1>1, <2>3, <2>4, BeforeAppend
    <3>2. CASE i \in DOMAIN queue
      <4>1. On(c, i) /\ queue'[i] = queue[i]
        BY <1>1, <2>4, <3>2, BeforeAppend
      <4> QED
        BY <2>1, <3>1, <3>2, <4>1 DEF QueueInv
    <3>3. CASE i = Len(queue) + 1
      <4>1. queue'[i] = b
        BY <1>1, <3>3, BeforeAppend
      <4>2. c = Channel(s)
        BY <1>2, <2>4, <4>1 DEF On
      <4> QED
        BY <2>2, <3>1, <3>3, <4>1, <4>2
    <3> QED
      BY <2>3, <3>2, <3>3
  <2>5. ASSUME NEW t \in Senders, NEW x \in Pieces \cup {Stray},
               Before(Channel(t), Len(queue) + 1, x)'
        PROVE  Ready(t, x)'
    <3>1. CASE Channel(t) = Channel(s)
      <4>1. x = b
        BY <1>1, <1>2, <2>5, <3>1, BeforeAppend
      <4>2. CASE t = s
        BY <1>1, <1>2, <1>5, <4>1, <4>2 DEF Ready, TypeOK
      <4>3. CASE t # s
        <5>1. Channel(t) = "input" /\ t \notin {"capture", "audio"}
          BY <3>1, <4>3 DEF Channel, Senders
        <5>2. b.last = "yes" /\ (task[t] \in {"sending", "waiting"} => part[t] = 0)
          BY <1>1, <1>3, <3>1, <5>1 DEF ChainInv, SharedInv
        <5> QED
          BY <1>5, <4>1, <4>3, <5>1, <5>2 DEF Ready
      <4> QED
        BY <4>2, <4>3
    <3>2. CASE Channel(t) # Channel(s)
      <4>1. Before(Channel(t), Len(queue) + 1, x)
        BY <1>1, <1>2, <2>5, <3>2, BeforeAppend
      <4>2. Ready(t, x) /\ t # s
        BY <2>1, <3>2, <4>1 DEF SenderInv
      <4> QED
        BY <1>1, <1>5, <4>2 DEF Ready
    <3> QED
      BY <3>1, <3>2
  <2> QED
    BY <2>4, <2>5 DEF QueueInv, SenderInv
<1> QED
  BY <1>1, <1>6, <1>7 DEF ChainInv, WholeMessages

\* Forward: the part taken from the queue follows what its channel has joined.
LEMMA ForwardKeepsChain ==
    ASSUME TypeOK, ChainInv, Forward
    PROVE  ChainInv'
<1> DEFINE h == Head(queue)
<1>1. /\ Relayed /\ queue # <<>> /\ queue' = Tail(queue)
      /\ UNCHANGED <<link, peer, stop, task, serial, len, part>>
  BY DEF Forward, outVars
<1>2. h \in Pieces \cup {Stray} /\ h = queue[1] /\ 1 \in DOMAIN queue
  BY <1>1 DEF TypeOK
<1>3. SharedInv'
  BY <1>1 DEF ChainInv, SharedInv, Relayed
<1>4. CASE peer = "closed"
  BY <1>1, <1>3, <1>4 DEF ChainInv, Forward, OfThisPeer, WholeMessages
<1>5. CASE peer # "closed"
  <2>1. QueueInv /\ SenderInv /\ peer = "open"
    BY <1>1, <1>5 DEF ChainInv, Forward, TypeOK
  <2>2. joined' = IF h # Stray THEN [joined EXCEPT ![Channel(h.from)] = h] ELSE joined
    BY <2>1 DEF Forward, OfThisPeer
  <2>3. WholeMessages'
    <3>1. CASE h = Stray
      BY <3>1 DEF Forward, OfThisPeer, ChainInv, WholeMessages
    <3>2. CASE h # Stray
      <4> DEFINE c == Channel(h.from)
      <4>1. c \in Channels /\ On(c, 1)
        BY <1>2, <3>2 DEF On, Pieces, Channel, Channels, Senders
      <4>2. joined[c] \in Pieces \cup {Stray} /\ Before(c, 1, joined[c])
        BY <4>1 DEF TypeOK, Before
      <4>3. Follows(joined[c], h)
        BY <1>2, <2>1, <4>1, <4>2 DEF QueueInv
      <4> QED
        BY <2>1, <3>2, <4>3 DEF Forward, OfThisPeer, ChainInv, WholeMessages
    <3> QED
      BY <3>1, <3>2
  <2>4. ASSUME NEW c \in Channels, NEW i \in DOMAIN queue', NEW x \in Pieces \cup {Stray},
               On(c, i)', Before(c, i, x)'
        PROVE  Follows(x, queue'[i])
    <3>1. /\ i + 1 \in DOMAIN queue /\ queue'[i] = queue[i + 1] /\ On(c, i + 1)
          /\ i \in 1 .. Len(queue)
      BY <1>1, <2>2, <2>4, BeforeTail DEF TypeOK
    <3>2. Before(c, i + 1, x)
      BY <1>1, <2>2, <2>4, <3>1, BeforeTail
    <3> QED
      BY <2>1, <3>1, <3>2 DEF QueueInv
  <2>5. ASSUME NEW t \in Senders, NEW x \in Pieces \cup {Stray},
               Before(Channel(t), Len(queue) + 1, x)'
        PROVE  Ready(t, x)'
    <3>1. Channel(t) \in Channels
      BY DEF Channel, Channels, Senders
    <3>2. Len(queue) = Len(queue') + 1 /\ Len(queue) \in 1 .. Len(queue)
      BY <1>1 DEF TypeOK
    <3>3. PICK n \in 1 .. Len(queue) : n = Len(queue)
      BY <3>2
    <3>4. Before(Channel(t), n, x)'
      BY <2>5, <3>2, <3>3
    <3>5. Before(Channel(t), n + 1, x)
      BY <1>1, <2>2, <3>1, <3>4, BeforeTail
    <3>6. Ready(t, x)
      BY <2>1, <3>3, <3>5 DEF SenderInv
    <3> QED
      BY <1>1, <3>6 DEF Ready
  <2> QED
    BY <1>1, <1>3, <2>3, <2>4, <2>5 DEF ChainInv, QueueInv, SenderInv
<1> QED
  BY <1>4, <1>5

\* The account of what each channel carries holds in every reachable state.
LEMMA ChainHolds == Spec => []ChainInv
<1>1. Init => ChainInv
  <2> SUFFICES ASSUME Init
               PROVE  ChainInv
    OBVIOUS
  <2>1. \A i \in DOMAIN queue : queue[i] = Stray
    BY PeerAssumption DEF Init
  <2>2. \A c, i : ~On(c, i)
    BY <2>1 DEF On
  <2>3. \A c \in Channels : \A i, x : Before(c, i, x) => x = Stray
    BY <2>2 DEF Before, Init
  <2>4. QueueInv
    BY <2>2 DEF QueueInv
  <2>5. \A s \in Senders : Channel(s) \in Channels /\ task[s] \in {"absent", "idle"}
    BY DEF Init, Channel, Channels, Senders
  <2>6. SenderInv
    BY <2>3, <2>5 DEF SenderInv, Ready, Stray
  <2>7. SharedInv
    BY <2>5, PeerAssumption DEF SharedInv, Init, Senders
  <2> QED
    BY <2>4, <2>6, <2>7 DEF ChainInv, WholeMessages, Init
<1>2. TypeOK /\ ChainInv /\ [Next]_vars => ChainInv'
  <2> SUFFICES ASSUME TypeOK, ChainInv, [Next]_vars
               PROVE  ChainInv'
    OBVIOUS
  <2>1. ASSUME NEW s \in Senders, Begin(s) \/ Step(s) \/ WorkFails(s)
        PROVE  ChainInv'
    <3>1. CASE Begin(s)
      BY <3>1, BeginKeepsChain
    <3>2. CASE Enqueue(s)
      BY <3>2, EnqueueKeepsChain
    <3>3. CASE /\ Fail(s) /\ UNCHANGED <<link, outVars, pipeVars>>
               /\ task[s] \in {"idle", "sending", "waiting"}
      BY <3>3, FailKeepsChain
    <3>4. CASE /\ UNCHANGED <<link, peer, stop, outVars, pipeVars>>
               /\ \/ task[s] = "sending" /\ task' = [task EXCEPT ![s] = "waiting"]
                  \/ task[s] = "idle" /\ task' = [task EXCEPT ![s] = "ended"] /\ s # "starter"
      <4>1. SharedInv'
        BY <3>4 DEF ChainInv, SharedInv, TypeOK, Relayed, outVars, Senders
      <4>2. \A t \in Senders : \A x : Ready(t, x) => Ready(t, x)'
        BY <3>4 DEF TypeOK, Ready, outVars
      <4> QED
        BY <3>4, <4>1, <4>2, TasksKeepChain DEF pipeVars
    <3>5. CASE LibrarySends(s) /\ UNCHANGED <<link, pipeVars>>
      BY <3>5 DEF LibrarySends, ChainInv, SharedInv, Relayed, WholeMessages, pipeVars
    <3> QED
      BY <2>1, <3>1, <3>2, <3>3, <3>4, <3>5
      DEF Step, CheckStop, GiveUp, LibrarySends, Leave, WorkFails
  <2>2. CASE Forward
    BY <2>2, ForwardKeepsChain
  <2>3. CASE Overflow \/ (Close /\ Relayed) \/ UNCHANGED vars
    <3>1. /\ UNCHANGED <<link, task, outVars, pipeVars>>
          /\ peer' # "closed" => peer' = peer
          /\ peer = "starting" => peer' = "starting"
      BY <2>3 DEF Overflow, Close, vars
    <3>2. SharedInv'
      BY <3>1 DEF ChainInv, SharedInv, Relayed, outVars
    <3>3. \A t \in Senders : \A x : Ready(t, x) => Ready(t, x)'
      BY <3>1 DEF Ready, outVars
    <3> QED
      BY <3>1, <3>2, <3>3, TasksKeepChain DEF pipeVars
  <2>4. CASE ~Relayed /\ (Close \/ Negotiate \/ Connect \/ Disconnect \/ ConnectionFails \/ OpenChannel \/ Watch)
    <3>1. ~Relayed' /\ UNCHANGED garbled
      BY <2>4 DEF Close, Negotiate, Connect, Disconnect, ConnectionFails, OpenChannel, Watch,
                  Negotiated, Relayed, pipeVars
    <3> QED
      BY <3>1 DEF ChainInv, SharedInv, WholeMessages
  <2> QED
    BY <2>1, <2>2, <2>3, <2>4
    DEF Next, Negotiate, Connect, Disconnect, ConnectionFails, OpenChannel, Watch, Negotiated
<1> QED
  BY <1>1, <1>2, TypeCorrect, PTL DEF Spec

\* Whatever stops, fails or overflows, and however the queue is shared: the
\* parts the browser joins on a channel are those of one message in their
\* order, for any sizes of parts, messages and the queue.
THEOREM MessagesWhole == Spec => []WholeMessages
<1>1. ChainInv => WholeMessages
  BY DEF ChainInv
<1> QED
  BY <1>1, ChainHolds, PTL
-----------------------------------------------------------------------------
(* The pipe.                                                               *)

\* The numbers of the messages: what the queue carries of a sender is newer
\* than what has arrived, in order, and older than what it is sending.
OrderInv ==
    Relayed /\ peer # "closed" =>
    /\ \A s \in Senders : arrived[s] <= serial[s]
    /\ \A i \in DOMAIN queue : queue[i] # Stray =>
          arrived[queue[i].from] < queue[i].n /\ queue[i].n <= serial[queue[i].from]
    /\ \A i, j \in DOMAIN queue :
          i < j /\ queue[i] # Stray /\ queue[j] # Stray /\ queue[i].from = queue[j].from =>
             queue[i].n <= queue[j].n /\ (queue[i].last = "yes" => queue[i].n < queue[j].n)
    /\ \A s \in Senders : task[s] \in {"sending", "waiting"} =>
          /\ arrived[s] < serial[s]
          /\ \A i \in DOMAIN queue :
                queue[i].from = s /\ queue[i].last = "yes" => queue[i].n < serial[s]

\* A closed peer has stopped.
ClosedInv == peer = "closed" => stop = "set"

PipeInv == TypeOK /\ SharedInv /\ ClosedInv /\ OrderInv

LEMMA ClosedHolds == Spec => []ClosedInv
<1>1. Init => ClosedInv
  BY DEF Init, ClosedInv
<1>2. ClosedInv /\ [Next]_vars => ClosedInv'
  <2> SUFFICES ASSUME ClosedInv, [Next]_vars
               PROVE  ClosedInv'
    OBVIOUS
  <2>1. stop' = stop \/ stop' = "set"
    BY DEF Next, Begin, Step, WorkFails, CheckStop, Enqueue, GiveUp, LibrarySends, Leave, Fail,
           Forward, Overflow, Close, Negotiate, Connect, Disconnect, ConnectionFails, OpenChannel,
           Watch, vars
  <2>2. peer' = "closed" => peer = "closed" \/ stop' = "set"
    BY DEF Next, Begin, Step, WorkFails, CheckStop, Enqueue, Sent, GiveUp, LibrarySends, Leave, Fail,
           Vital, Forward, Overflow, Close, Negotiate, Connect, Disconnect, ConnectionFails,
           OpenChannel, Watch, vars
  <2> QED
    BY <2>1, <2>2 DEF ClosedInv
<1> QED
  BY <1>1, <1>2, PTL DEF Spec

\* Membership in Pending, spelled out.
LEMMA PendingIs ==
    \A s : \A n : n \in Pending(s) <=>
        /\ Relayed /\ peer # "closed"
        /\ \/ task[s] \in {"sending", "waiting"} /\ n = serial[s]
           \/ \E i \in DOMAIN queue : queue[i].from = s /\ queue[i].last = "yes" /\ n = queue[i].n
BY DEF Pending

\* A step that only takes messages away from one sender loses them.
LEMMA LoseStep ==
    ASSUME NEW s \in Senders, UNCHANGED <<serial, arrived>>, Pending(s)' \subseteq Pending(s),
           \A t \in Senders \ {s} : Pending(t)' = Pending(t)
    PROVE  Pipe!Next
<1> DEFINE lost == Pending(s) \ Pending(s)'
<1>1. lost \in SUBSET Pending(s) /\ Pending(s)' = Pending(s) \ lost
  OBVIOUS
<1>2. [t \in Senders |-> Pending(t)]' = [[t \in Senders |-> Pending(t)] EXCEPT ![s] = @ \ lost]
  BY <1>1
<1>3. Pipe!Lose(s)
  BY <1>1, <1>2 DEF Pipe!Lose
<1> QED
  BY <1>3 DEF Pipe!Next

\* A step that leaves every sender's messages alone is a stutter.
LEMMA StutterStep ==
    ASSUME UNCHANGED <<serial, arrived>>, \A t \in Senders : Pending(t)' = Pending(t)
    PROVE  UNCHANGED Pipe!pipe
BY DEF Pipe!pipe

\* Closing the peer loses whatever is under way.
LEMMA LoseAllStep ==
    ASSUME UNCHANGED <<serial, arrived>>, peer' = "closed"
    PROVE  Pipe!Next
<1>1. \A t \in Senders : Pending(t)' = {}
  BY DEF Pending
<1>2. Pipe!LoseAll
  BY <1>1 DEF Pipe!LoseAll
<1> QED
  BY <1>2 DEF Pipe!Next

\* The fields of what is in the queue.
LEMMA PartsTyped ==
    ASSUME TypeOK
    PROVE  /\ \A i \in DOMAIN queue : queue[i] # Stray =>
                 queue[i].from \in Senders /\ queue[i].n \in Nat /\ queue[i].last \in {"no", "yes"}
           /\ Stray.from \notin Senders
<1>1. \A i \in DOMAIN queue : queue[i] \in Pieces \cup {Stray}
  BY DEF TypeOK
<1>2. \A b \in Pieces : b.from \in Senders /\ b.n \in Nat /\ b.last \in {"no", "yes"}
  BY DEF Pieces
<1> QED
  BY <1>1, <1>2 DEF Stray, Senders

\* Steps that neither send nor forward leave the order alone.
LEMMA OrderKept ==
    ASSUME OrderInv, UNCHANGED <<link, queue, serial, arrived>>,
           peer' # "closed" => peer # "closed",
           \A t \in Senders : task'[t] \in {"sending", "waiting"} => task[t] \in {"sending", "waiting"}
    PROVE  OrderInv'
BY DEF OrderInv, Relayed

\* A failing sender loses the message it was sending.
LEMMA FailLoses ==
    ASSUME PipeInv, NEW s \in Senders, Fail(s), UNCHANGED <<link, outVars, pipeVars>>
    PROVE  (Pipe!Next \/ UNCHANGED Pipe!pipe) /\ OrderInv'
<1>1. /\ task' = [task EXCEPT ![s] = IF s = "focus" THEN "idle" ELSE "ended"]
      /\ peer' = IF s = "starter" THEN "closed" ELSE peer
      /\ UNCHANGED <<link, serial, len, part, queue, joined, arrived>>
  BY DEF Fail, outVars, pipeVars
<1>2. \A t \in Senders : task'[t] = task[t] \/ (t = s /\ task'[t] \in {"idle", "ended"})
  BY <1>1 DEF PipeInv, TypeOK
<1>3. OrderInv'
  BY <1>1, <1>2, OrderKept DEF PipeInv
<1>4. CASE peer' = "closed"
  BY <1>1, <1>3, <1>4, LoseAllStep
<1>5. CASE peer' # "closed"
  <2>1. \A n : n \in Pending(s)' => n \in Pending(s)
    BY <1>1, <1>2, <1>5 DEF Pending, Relayed
  <2>2. \A t \in Senders \ {s} : Pending(t)' = Pending(t)
    BY <1>1, <1>2, <1>5 DEF Pending, Relayed
  <2> QED
    BY <1>1, <1>3, <2>1, <2>2, LoseStep
<1> QED
  BY <1>4, <1>5

\* A sender that begins hands a message over.
LEMMA BeginHandsOver ==
    ASSUME PipeInv, NEW s \in Senders, Begin(s)
    PROVE  (Pipe!Next \/ UNCHANGED Pipe!pipe) /\ OrderInv'
<1>1. CASE Fail(s) /\ UNCHANGED <<link, outVars, pipeVars>>
  BY <1>1, FailLoses
<1>2. CASE /\ ~Relayed /\ task' = [task EXCEPT ![s] = "waiting"]
           /\ UNCHANGED <<link, peer, stop, outVars, pipeVars>>
  <2>1. \A t \in Senders : Pending(t)' = Pending(t)
    BY <1>2 DEF Pending, Relayed
  <2> QED
    BY <1>2, <2>1, StutterStep DEF OrderInv, Relayed, outVars, pipeVars
<1>3. ASSUME NEW l \in Lengths(s), Relayed,
             task' = [task EXCEPT ![s] = "sending"], serial' = [serial EXCEPT ![s] = @ + 1],
             UNCHANGED <<link, peer, stop, pipeVars>>
      PROVE  Pipe!Next /\ OrderInv'
  <2>1. task[s] = "idle" /\ peer # "closed"
    BY <1>3 DEF Begin, Produces, PipeInv, SharedInv, ClosedInv
  <2>2. /\ serial'[s] = serial[s] + 1 /\ serial[s] \in Nat /\ serial \in [Senders -> Nat]
        /\ \A t \in Senders \ {s} : serial'[t] = serial[t] /\ task'[t] = task[t]
        /\ task'[s] = "sending"
        /\ UNCHANGED <<link, peer, queue, joined, arrived, garbled>>
    BY <1>3 DEF PipeInv, TypeOK, pipeVars
  <2>3. /\ arrived \in [Senders -> Nat]
        /\ \A i \in DOMAIN queue : queue[i] # Stray => queue[i].from \in Senders /\ queue[i].n \in Nat
        /\ Stray.from \notin Senders
    BY PartsTyped DEF PipeInv, TypeOK
  <2>4. OrderInv'
    <3>1. \A t \in Senders : arrived[t] \in Nat /\ arrived[t] <= serial[t] /\ arrived[t] <= serial'[t]
      BY <1>3, <2>1, <2>2, <2>3 DEF PipeInv, OrderInv
    <3>2. \A i \in DOMAIN queue : queue[i] # Stray =>
             arrived[queue[i].from] < queue[i].n /\ queue[i].n <= serial[queue[i].from]
      BY <1>3, <2>1 DEF PipeInv, OrderInv
    <3>3. \A i \in DOMAIN queue : queue[i] # Stray => queue[i].n <= serial'[queue[i].from]
      BY <2>2, <2>3, <3>2
    <3>4. ASSUME NEW t \in Senders, task'[t] \in {"sending", "waiting"}
          PROVE  /\ arrived[t] < serial'[t]
                 /\ \A i \in DOMAIN queue :
                       queue[i].from = t /\ queue[i].last = "yes" => queue[i].n < serial'[t]
      <4>1. CASE t = s
        BY <2>2, <2>3, <3>1, <3>2, <4>1
      <4>2. CASE t # s
        BY <1>3, <2>1, <2>2, <3>4, <4>2 DEF PipeInv, OrderInv
      <4> QED
        BY <4>1, <4>2
    <3> QED
      BY <1>3, <2>1, <2>2, <3>1, <3>2, <3>3, <3>4 DEF PipeInv, OrderInv
  <2>5. \A t \in Senders \ {s} : Pending(t)' = Pending(t)
    BY <2>2 DEF Pending, Relayed
  <2>6. Pending(s)' = Pending(s) \cup {serial[s] + 1}
    BY <1>3, <2>1, <2>2 DEF Pending, Relayed
  <2>7. [t \in Senders |-> Pending(t)]' = [[t \in Senders |-> Pending(t)] EXCEPT ![s] = @ \cup {serial[s] + 1}]
    BY <2>5, <2>6
  <2>8. Pipe!HandOver(s)
    BY <1>3, <2>2, <2>7 DEF Pipe!HandOver
  <2> QED
    BY <2>4, <2>8 DEF Pipe!Next
<1> QED
  BY <1>1, <1>2, <1>3 DEF Begin

\* The last part put into the queue leaves its message under way.
LEMMA EnqueueStutters ==
    ASSUME PipeInv, NEW s \in Senders, Enqueue(s)
    PROVE  (Pipe!Next \/ UNCHANGED Pipe!pipe) /\ OrderInv'
<1> DEFINE b == Piece(s)
<1>1. /\ Relayed /\ task[s] = "waiting" /\ queue' = Append(queue, b)
      /\ UNCHANGED <<link, serial, arrived>>
      /\ s = "starter" => peer = "starting"
  BY DEF Enqueue, PipeInv, SharedInv
<1>2. /\ b # Stray /\ b.from = s /\ b.n = serial[s] /\ serial[s] \in Nat
      /\ b.last = "yes" <=> part[s] + 1 = Chunks(len[s])
  <2>1. part[s] \in Nat /\ len[s] \in Nat \ {0} /\ part[s] < Chunks(len[s])
    BY <1>1, PeerAssumption DEF PipeInv, TypeOK
  <2>2. IsLast(len[s], part[s]) <=> part[s] + 1 = Chunks(len[s])
    BY <2>1, LastPart
  <2> QED
    BY <2>2 DEF Piece, Stray, PipeInv, TypeOK, Senders
<1>3. /\ task'[s] \in {"sending", "waiting"} <=> b.last # "yes"
      /\ \A t \in Senders \ {s} :
            \/ task'[t] = task[t]
            \/ task'[t] = "idle" /\ task[t] = "absent"
      /\ peer = "closed" <=> peer' = "closed"
  BY <1>1, <1>2 DEF Enqueue, Sent, PipeInv, TypeOK, SharedInv, Senders
<1>4. /\ Len(queue) \in Nat /\ DOMAIN queue = 1 .. Len(queue)
      /\ DOMAIN queue' = 1 .. Len(queue) + 1
      /\ queue'[Len(queue) + 1] = b
      /\ \A i \in 1 .. Len(queue) : queue'[i] = queue[i]
  BY <1>1 DEF PipeInv, TypeOK
<1>5. OrderInv'
  <2> SUFFICES ASSUME peer' # "closed"
               PROVE  OrderInv'
    BY DEF OrderInv
  <2>1. /\ \A t \in Senders : arrived[t] <= serial[t]
        /\ \A i \in DOMAIN queue : queue[i] # Stray =>
              arrived[queue[i].from] < queue[i].n /\ queue[i].n <= serial[queue[i].from]
        /\ \A i, j \in DOMAIN queue :
              i < j /\ queue[i] # Stray /\ queue[j] # Stray /\ queue[i].from = queue[j].from =>
                 queue[i].n <= queue[j].n /\ (queue[i].last = "yes" => queue[i].n < queue[j].n)
        /\ \A t \in Senders : task[t] \in {"sending", "waiting"} =>
              /\ arrived[t] < serial[t]
              /\ \A i \in DOMAIN queue :
                    queue[i].from = t /\ queue[i].last = "yes" => queue[i].n < serial[t]
    BY <1>1, <1>3 DEF PipeInv, OrderInv
  <2>2. \A i \in DOMAIN queue' : queue'[i] # Stray =>
           arrived[queue'[i].from] < queue'[i].n /\ queue'[i].n <= serial[queue'[i].from]
    BY <1>1, <1>2, <1>4, <2>1
  <2>3. ASSUME NEW i \in DOMAIN queue', NEW j \in DOMAIN queue',
               i < j, queue'[i] # Stray, queue'[j] # Stray, queue'[i].from = queue'[j].from
        PROVE  queue'[i].n <= queue'[j].n /\ (queue'[i].last = "yes" => queue'[i].n < queue'[j].n)
    <3>1. i \in DOMAIN queue /\ queue'[i] = queue[i]
      BY <1>4, <2>3
    <3>2. CASE j \in DOMAIN queue
      BY <1>4, <2>1, <2>3, <3>1, <3>2
    <3>3. CASE queue'[j] = b
      BY <1>1, <1>2, <2>1, <2>3, <3>1, <3>3
    <3> QED
      BY <1>4, <3>2, <3>3
  <2>4. ASSUME NEW t \in Senders, task'[t] \in {"sending", "waiting"}
        PROVE  /\ arrived[t] < serial[t]
               /\ \A i \in DOMAIN queue' :
                     queue'[i].from = t /\ queue'[i].last = "yes" => queue'[i].n < serial[t]
    BY <1>1, <1>2, <1>3, <1>4, <2>1, <2>4
  <2> QED
    BY <1>1, <2>1, <2>2, <2>3, <2>4 DEF OrderInv
<1>6. ASSUME NEW t \in Senders, NEW n
      PROVE  n \in Pending(t)' <=> n \in Pending(t)
  <2>1. (\E i \in DOMAIN queue' : queue'[i].from = t /\ queue'[i].last = "yes" /\ n = queue'[i].n)
        <=> \/ \E i \in DOMAIN queue : queue[i].from = t /\ queue[i].last = "yes" /\ n = queue[i].n
            \/ t = s /\ b.last = "yes" /\ n = serial[s]
    BY <1>2, <1>4
  <2>2. task'[t] \in {"sending", "waiting"} <=>
           task[t] \in {"sending", "waiting"} /\ ~(t = s /\ b.last = "yes")
    BY <1>1, <1>3
  <2> QED
    BY <1>1, <1>3, <2>1, <2>2 DEF Pending, Relayed
<1>7. \A t \in Senders : Pending(t)' = Pending(t)
  BY <1>6
<1> QED
  BY <1>1, <1>5, <1>7, StutterStep

\* Forwarding the last part of a message makes it arrive.
LEMMA ForwardArrives ==
    ASSUME PipeInv, Forward
    PROVE  (Pipe!Next \/ UNCHANGED Pipe!pipe) /\ OrderInv'
<1> DEFINE h == Head(queue)
<1>1. /\ Relayed /\ queue # <<>> /\ queue' = Tail(queue)
      /\ UNCHANGED <<link, peer, task, serial>>
  BY DEF Forward, outVars
<1>2. /\ Len(queue) \in Nat \ {0} /\ DOMAIN queue = 1 .. Len(queue)
      /\ DOMAIN queue' = 1 .. Len(queue) - 1
      /\ h = queue[1] /\ 1 \in DOMAIN queue
      /\ \A i \in DOMAIN queue' : i + 1 \in DOMAIN queue /\ queue'[i] = queue[i + 1]
      /\ \A i \in DOMAIN queue : i # 1 => i - 1 \in DOMAIN queue' /\ queue[i] = queue'[i - 1]
  BY <1>1 DEF PipeInv, TypeOK
<1>3. CASE peer = "closed"
  <2>1. UNCHANGED arrived
    BY <1>3 DEF Forward, OfThisPeer
  <2>2. \A t \in Senders : Pending(t)' = Pending(t)
    BY <1>1, <1>3 DEF Pending
  <2> QED
    BY <1>1, <1>3, <2>1, <2>2, StutterStep DEF OrderInv
<1>4. CASE peer # "closed"
  <2>1. /\ \A t \in Senders : arrived[t] <= serial[t]
        /\ \A i \in DOMAIN queue : queue[i] # Stray =>
              arrived[queue[i].from] < queue[i].n /\ queue[i].n <= serial[queue[i].from]
        /\ \A i, j \in DOMAIN queue :
              i < j /\ queue[i] # Stray /\ queue[j] # Stray /\ queue[i].from = queue[j].from =>
                 queue[i].n <= queue[j].n /\ (queue[i].last = "yes" => queue[i].n < queue[j].n)
        /\ \A t \in Senders : task[t] \in {"sending", "waiting"} =>
              /\ arrived[t] < serial[t]
              /\ \A i \in DOMAIN queue :
                    queue[i].from = t /\ queue[i].last = "yes" => queue[i].n < serial[t]
    BY <1>1, <1>4 DEF PipeInv, OrderInv
  <2>2. peer = "open"
    BY <1>4 DEF Forward, PipeInv, TypeOK
  <2>3. CASE h = Stray \/ h.last # "yes"
    <3>1. UNCHANGED arrived
      BY <2>2, <2>3 DEF Forward, OfThisPeer
    <3>2. OrderInv'
      BY <1>1, <1>2, <2>1, <3>1 DEF OrderInv, Relayed
    <3>3. ASSUME NEW t \in Senders, NEW n
          PROVE  n \in Pending(t)' <=> n \in Pending(t)
      <4>1. ~(h.from = t /\ h.last = "yes")
        BY <2>3, PartsTyped DEF PipeInv
      <4>2. (\E i \in DOMAIN queue' : queue'[i].from = t /\ queue'[i].last = "yes" /\ n = queue'[i].n)
            <=> \E i \in DOMAIN queue : queue[i].from = t /\ queue[i].last = "yes" /\ n = queue[i].n
        BY <1>2, <4>1
      <4> QED
        BY <1>1, <4>2 DEF Pending, Relayed
    <3>4. \A t \in Senders : Pending(t)' = Pending(t)
      BY <3>3
    <3> QED
      BY <1>1, <3>1, <3>2, <3>4, StutterStep
  <2>4. CASE h # Stray /\ h.last = "yes"
    <3>1. PICK f \in Senders, k \in Nat : f = h.from /\ k = h.n
      BY <1>2, <2>4, PartsTyped DEF PipeInv
    <3>2. arrived' = [arrived EXCEPT ![f] = k]
      BY <2>2, <2>4, <3>1 DEF Forward, OfThisPeer
    <3>3. arrived[f] < k /\ k <= serial[f] /\ Stray.from \notin Senders
      BY <1>2, <2>1, <2>4, <3>1, PartsTyped DEF PipeInv
    <3>4. ASSUME NEW i \in DOMAIN queue, i # 1, queue[i].from = f
          PROVE  queue[i] # Stray /\ k < queue[i].n
      <4>1. 1 < i /\ queue[i] # Stray
        BY <1>2, <3>1, <3>3, <3>4
      <4> QED
        BY <1>2, <2>1, <2>4, <3>1, <3>4, <4>1
    <3>5. task[f] \in {"sending", "waiting"} => k < serial[f]
      BY <1>2, <2>1, <2>4, <3>1
    <3>6. arrived'[f] = k /\ \A t \in Senders \ {f} : arrived'[t] = arrived[t]
      BY <3>1, <3>2 DEF PipeInv, TypeOK
    <3>7. OrderInv'
      <4>1. \A t \in Senders : arrived'[t] <= serial[t]
        BY <2>1, <3>3, <3>6
      <4>2. ASSUME NEW i \in DOMAIN queue', queue'[i] # Stray
            PROVE  arrived'[queue'[i].from] < queue'[i].n /\ queue'[i].n <= serial[queue'[i].from]
        <5>1. i + 1 \in DOMAIN queue /\ i + 1 # 1 /\ queue'[i] = queue[i + 1]
          BY <1>2
        <5>2. queue[i + 1].from \in Senders
          BY <4>2, <5>1, PartsTyped DEF PipeInv
        <5> QED
          BY <2>1, <3>4, <3>6, <4>2, <5>1, <5>2
      <4>3. \A i, j \in DOMAIN queue' :
              i < j /\ queue'[i] # Stray /\ queue'[j] # Stray /\ queue'[i].from = queue'[j].from =>
                 queue'[i].n <= queue'[j].n /\ (queue'[i].last = "yes" => queue'[i].n < queue'[j].n)
        BY <1>2, <2>1
      <4>4. ASSUME NEW t \in Senders, task[t] \in {"sending", "waiting"}
            PROVE  /\ arrived'[t] < serial[t]
                   /\ \A i \in DOMAIN queue' :
                         queue'[i].from = t /\ queue'[i].last = "yes" => queue'[i].n < serial[t]
        BY <1>2, <2>1, <3>5, <3>6, <4>4
      <4> QED
        BY <1>1, <4>1, <4>2, <4>3, <4>4 DEF OrderInv
    <3>8. ASSUME NEW t \in Senders, NEW n
          PROVE  n \in Pending(t)' <=> n \in Pending(t) /\ ~(t = f /\ n = k)
      <4>1. (\E i \in DOMAIN queue' : queue'[i].from = t /\ queue'[i].last = "yes" /\ n = queue'[i].n)
            <=> \E i \in DOMAIN queue : i # 1 /\ queue[i].from = t /\ queue[i].last = "yes" /\ n = queue[i].n
        BY <1>2
      <4>2. (\E i \in DOMAIN queue : queue[i].from = t /\ queue[i].last = "yes" /\ n = queue[i].n)
            <=> \/ t = f /\ n = k
                \/ \E i \in DOMAIN queue : i # 1 /\ queue[i].from = t /\ queue[i].last = "yes" /\ n = queue[i].n
        BY <1>2, <2>4, <3>1
      <4>3. t = f /\ n = k =>
               /\ ~(task[t] \in {"sending", "waiting"} /\ n = serial[t])
               /\ ~\E i \in DOMAIN queue : i # 1 /\ queue[i].from = t /\ queue[i].last = "yes" /\ n = queue[i].n
        BY <3>1, <3>4, <3>5
      <4> QED
        BY <1>1, <4>1, <4>2, <4>3 DEF Pending, Relayed
    <3>9. /\ Pending(f)' = Pending(f) \ {k}
          /\ \A t \in Senders \ {f} : Pending(t)' = Pending(t)
      BY <3>1, <3>8
    <3>10. k \in Pending(f)
      <4>1. \E i \in DOMAIN queue : queue[i].from = f /\ queue[i].last = "yes" /\ k = queue[i].n
        BY <1>2, <2>4, <3>1
      <4> QED
        BY <1>1, <1>4, <4>1, PendingIs
    <3>11. ASSUME NEW m \in Pending(f)
           PROVE  k <= m
      <4>1. CASE task[f] \in {"sending", "waiting"} /\ m = serial[f]
        BY <3>1, <3>3, <4>1
      <4>2. CASE \E i \in DOMAIN queue : queue[i].from = f /\ queue[i].last = "yes" /\ m = queue[i].n
        <5>1. PICK i \in DOMAIN queue : queue[i].from = f /\ m = queue[i].n
          BY <4>2
        <5>2. CASE i = 1
          BY <1>2, <3>1, <5>1, <5>2
        <5>3. CASE i # 1
          <6>1. queue[i] # Stray /\ k < queue[i].n
            BY <3>4, <5>1, <5>3
          <6>2. queue[i].n \in Nat
            BY <6>1, PartsTyped DEF PipeInv
          <6> QED
            BY <3>1, <5>1, <6>1, <6>2
        <5> QED
          BY <5>2, <5>3
      <4> QED
        BY <3>11, <4>1, <4>2, PendingIs
    <3>12. [t \in Senders |-> Pending(t)]' = [[t \in Senders |-> Pending(t)] EXCEPT ![f] = @ \ {k}]
      BY <3>1, <3>9
    <3>13. Pipe!Arrive(f)
      <4>1. [t \in Senders |-> Pending(t)][f] = Pending(f)
        BY <3>1
      <4> QED
        BY <1>1, <3>2, <3>3, <3>10, <3>11, <3>12, <4>1 DEF Pipe!Arrive
    <3> QED
      BY <3>1, <3>7, <3>13 DEF Pipe!Next
  <2> QED
    BY <2>3, <2>4
<1> QED
  BY <1>3, <1>4

\* The tasks, the parts and the shared queue with its deadlines implement one
\* pipe of whole messages per sender, in order and without repetition, for any
\* sizes; what is lost is lost with its sender's failure or the peer's end.
THEOREM ImplementsPipe == Spec => PipeSpec
<1>1. Init => OrderInv /\ Pipe!Init
  <2> SUFFICES ASSUME Init
               PROVE  OrderInv /\ Pipe!Init
    OBVIOUS
  <2>1. \A i \in DOMAIN queue : queue[i] = Stray
    BY PeerAssumption DEF Init
  <2>2. \A s \in Senders : task[s] \in {"absent", "idle"}
    BY DEF Init
  <2>3. OrderInv
    BY <2>1, <2>2 DEF Init, OrderInv, Stray, Senders
  <2>4. ASSUME NEW s \in Senders
        PROVE  Pending(s) = {}
    <3>1. \A n : n \notin Pending(s)
      BY <2>1, <2>2, PendingIs DEF Stray, Senders
    <3> QED
      BY <3>1
  <2>5. Pipe!Init
    BY <2>4 DEF Init, Pipe!Init
  <2> QED
    BY <2>3, <2>5
<1>2. TypeOK /\ ChainInv /\ ClosedInv /\ OrderInv /\ [Next]_vars => OrderInv' /\ [Pipe!Next]_(Pipe!pipe)
  <2> SUFFICES ASSUME TypeOK, ChainInv, ClosedInv, OrderInv, [Next]_vars
               PROVE  OrderInv' /\ (Pipe!Next \/ UNCHANGED Pipe!pipe)
    OBVIOUS
  <2>1. PipeInv
    BY DEF PipeInv, ChainInv
  <2>2. ASSUME NEW s \in Senders, Begin(s) \/ Step(s) \/ WorkFails(s)
        PROVE  OrderInv' /\ (Pipe!Next \/ UNCHANGED Pipe!pipe)
    <3>1. CASE Begin(s)
      BY <2>1, <3>1, BeginHandsOver
    <3>2. CASE Enqueue(s)
      BY <2>1, <3>2, EnqueueStutters
    <3>3. CASE Fail(s) /\ UNCHANGED <<link, outVars, pipeVars>>
      BY <2>1, <3>3, FailLoses
    <3>4. CASE /\ UNCHANGED <<link, peer, outVars, pipeVars>>
               /\ \/ task[s] = "sending" /\ task' = [task EXCEPT ![s] = "waiting"]
                  \/ task[s] = "idle" /\ task' = [task EXCEPT ![s] = "ended"]
                  \/ ~Relayed /\ task' = [task EXCEPT ![s] = "idle"]
      <4>1. /\ UNCHANGED <<link, peer, serial, queue, arrived>>
            /\ \A t \in Senders : task'[t] \in {"sending", "waiting"} => task[t] \in {"sending", "waiting"}
            /\ Relayed => \A t \in Senders :
                  task'[t] \in {"sending", "waiting"} <=> task[t] \in {"sending", "waiting"}
        BY <3>4 DEF TypeOK, outVars, pipeVars
      <4>2. OrderInv'
        BY <4>1, OrderKept
      <4>3. \A t \in Senders : Pending(t)' = Pending(t)
        BY <4>1 DEF Pending, Relayed
      <4> QED
        BY <4>1, <4>2, <4>3, StutterStep
    <3> QED
      BY <2>2, <3>1, <3>2, <3>3, <3>4
      DEF Step, CheckStop, GiveUp, LibrarySends, Leave, WorkFails
  <2>3. CASE Forward
    BY <2>1, <2>3, ForwardArrives
  <2>4. CASE Close
    BY <2>4, LoseAllStep DEF Close, OrderInv, outVars, pipeVars
  <2>5. CASE Overflow \/ UNCHANGED vars
    <3>1. UNCHANGED <<link, peer, task, serial, queue, arrived>>
      BY <2>5 DEF Overflow, outVars, pipeVars, vars
    <3>2. \A t \in Senders : Pending(t)' = Pending(t)
      BY <3>1 DEF Pending, Relayed
    <3> QED
      BY <3>1, <3>2, OrderKept, StutterStep
  <2>6. CASE Negotiate \/ Connect \/ Disconnect \/ ConnectionFails \/ OpenChannel \/ Watch
    <3>1. ~Relayed /\ ~Relayed' /\ UNCHANGED <<serial, arrived>>
      BY <2>6 DEF Negotiate, Connect, Disconnect, ConnectionFails, OpenChannel, Watch,
                  Negotiated, Relayed, outVars, pipeVars
    <3>2. \A t \in Senders : Pending(t)' = Pending(t)
      BY <3>1 DEF Pending
    <3> QED
      BY <3>1, <3>2, StutterStep DEF OrderInv
  <2> QED
    BY <2>2, <2>3, <2>4, <2>5, <2>6 DEF Next
<1>3. Spec => []TypeOK /\ []ChainInv /\ []ClosedInv
  BY TypeCorrect, ChainHolds, ClosedHolds
<1> QED
  BY <1>1, <1>2, <1>3, PTL DEF Spec, PipeSpec, Pipe!Spec
-----------------------------------------------------------------------------
(* The tasks seen from the control loop: ControlPlane's writers.           *)

Waiting == \E s \in Senders : task[s] = "waiting"

LEMMA LoopStutters ==
    ASSUME UNCHANGED <<peer, queue>>, stop' = stop \/ peer # "open", Waiting' <=> Waiting
    PROVE  UNCHANGED Loop!vars
BY DEF Waiting, Loop!vars, Loop!agentVars, Loop!pipeVars, Loop!rebootVars

LEMMA LoopChecks ==
    ASSUME UNCHANGED <<peer, stop, queue>>, peer = "open", stop = "clear", ~Waiting, Waiting'
    PROVE  Loop!Writers
<1>1. Loop!WriterChecks("own")
  BY DEF Waiting, Loop!WriterChecks, Loop!agentVars, Loop!rebootVars
<1> QED
  BY <1>1 DEF Loop!Writers

\* The part enters the queue behind what is there, for this session.
LEMMA LoopQueues ==
    ASSUME TypeOK, UNCHANGED <<peer, stop>>, Waiting, Room,
           NEW b, b # Stray, queue' = Append(queue, b)
    PROVE  Loop!Writers
<1> DEFINE View == [i \in DOMAIN queue |-> IF queue[i] = Stray THEN "stray" ELSE "own"]
<1>1. /\ Len(queue) \in Nat /\ DOMAIN queue = 1 .. Len(queue)
      /\ DOMAIN queue' = 1 .. Len(queue) + 1
      /\ queue'[Len(queue) + 1] = b
      /\ \A i \in 1 .. Len(queue) : queue'[i] = queue[i]
  BY DEF TypeOK
<1>2. View \in Seq({"own", "stray"}) /\ Len(View) = Len(queue)
  BY <1>1
<1>3. View' = Append(View, "own")
  <2>1. /\ Append(View, "own") \in Seq({"own", "stray"})
        /\ DOMAIN Append(View, "own") = 1 .. Len(queue) + 1
        /\ \A i \in 1 .. Len(queue) : Append(View, "own")[i] = View[i]
        /\ Append(View, "own")[Len(queue) + 1] = "own"
    BY <1>2
  <2>2. Append(View, "own") = [i \in 1 .. Len(queue) + 1 |-> Append(View, "own")[i]]
    BY <2>1
  <2>3. View' = [i \in 1 .. Len(queue) + 1 |-> IF queue'[i] = Stray THEN "stray" ELSE "own"]
    BY <1>1
  <2>4. \A i \in 1 .. Len(queue) + 1 :
           Append(View, "own")[i] = IF queue'[i] = Stray THEN "stray" ELSE "own"
    BY <1>1, <2>1
  <2> QED
    BY <2>2, <2>3, <2>4
<1>4. Loop!WriterQueues("own")
  BY <1>2, <1>3 DEF Waiting, Room, Loop!WriterQueues, Loop!QueueHasRoom, Loop!agentVars, Loop!rebootVars
<1> QED
  BY <1>4 DEF Loop!Writers

LEMMA LoopGivesUp ==
    ASSUME TypeOK, UNCHANGED <<peer, queue>>, Waiting, Len(queue) = RelaySlots,
           stop' \in {stop, "set"}
    PROVE  Loop!Writers
<1> DEFINE View == [i \in DOMAIN queue |-> IF queue[i] = Stray THEN "stray" ELSE "own"]
<1>1. Len(View) = RelaySlots
  <2>1. Len(queue) \in Nat /\ DOMAIN queue = 1 .. Len(queue)
    BY DEF TypeOK
  <2> QED
    BY <2>1
<1>2. ~Loop!QueueHasRoom
  BY <1>1, PeerAssumption DEF Loop!QueueHasRoom
<1>3. Loop!WriterGivesUp("own")
  BY <1>2 DEF Waiting, Loop!WriterGivesUp, Loop!rebootVars
<1> QED
  BY <1>3 DEF Loop!Writers

LEMMA LoopFails ==
    ASSUME UNCHANGED <<peer, queue>>, peer = "open", stop = "clear", stop' = "set",
           Waiting' <=> Waiting
    PROVE  Loop!Writers
<1>1. Loop!RelayFails("own")
  BY DEF Waiting, Loop!RelayFails, Loop!pipeVars, Loop!rebootVars
<1> QED
  BY <1>1 DEF Loop!Writers

\* A task that fails between two parts, or before one.
LEMMA FailFits ==
    ASSUME TypeOK, ClosedInv, peer # "starting", NEW s \in Senders, s # "starter",
           task[s] \in {"idle", "sending"}, Fail(s), UNCHANGED queue
    PROVE  Loop!Writers \/ UNCHANGED Loop!vars
<1>1. /\ UNCHANGED <<peer, queue>> /\ stop' \in {stop, "set"} /\ stop \in {"clear", "set"}
      /\ Waiting' <=> Waiting
  BY DEF TypeOK, Fail, Waiting
<1>2. CASE peer = "open" /\ stop = "clear" /\ stop' = "set"
  BY <1>1, <1>2, LoopFails
<1>3. CASE ~(peer = "open" /\ stop = "clear" /\ stop' = "set")
  BY <1>1, <1>3, LoopStutters
<1> QED
  BY <1>2, <1>3

\* The composition of a desktop peer with the control loop: what ControlPlane
\* lets a relay's writers do covers everything the tasks of the peer do, for
\* any number of parts, any capacity and in any order.
THEOREM PeerFitsLoop == Spec => TasksFit
<1> USE PeerAssumption
<1>1. TypeOK /\ ChainInv /\ ClosedInv /\ [Next]_vars =>
        [Relayed /\ peer # "starting" /\ ~Abandons
           /\ ((\E s \in Senders : Begin(s) \/ Step(s) \/ WorkFails(s)) \/ Overflow)
         => Loop!Writers \/ UNCHANGED Loop!vars]_vars
  <2> SUFFICES ASSUME TypeOK, SharedInv, ClosedInv, Relayed, peer # "starting", ~Abandons,
                      (\E s \in Senders : Begin(s) \/ Step(s) \/ WorkFails(s)) \/ Overflow
               PROVE  Loop!Writers \/ UNCHANGED Loop!vars
    BY DEF ChainInv
  <2>1. task["starter"] = "ended"
    BY DEF SharedInv
  <2>2. stop \in {"clear", "set"} /\ peer \in {"open", "closed"} /\ Len(queue) \in Nat
    BY DEF TypeOK
  <2>3. CASE Overflow
    <3>1. UNCHANGED <<peer, queue, task>> /\ peer = "open" /\ stop' = "set"
      BY <2>3 DEF Overflow, pipeVars
    <3> QED
      BY <2>2, <3>1, LoopFails, LoopStutters DEF Waiting
  <2>4. ASSUME NEW s \in Senders, Begin(s) \/ Step(s) \/ WorkFails(s)
        PROVE  Loop!Writers \/ UNCHANGED Loop!vars
    <3>1. s # "starter"
      BY <2>1, <2>4 DEF Begin, Produces, Step, CheckStop, Enqueue, GiveUp, LibrarySends, Leave, WorkFails
    <3>2. CASE Fail(s) /\ UNCHANGED queue /\ task[s] \in {"idle", "sending"}
      BY <3>1, <3>2, FailFits
    <3>3. CASE /\ UNCHANGED <<peer, stop, queue>> /\ task[s] = "idle"
               /\ \/ task' = [task EXCEPT ![s] = "sending"]
                  \/ task' = [task EXCEPT ![s] = "ended"]
      BY <3>3, LoopStutters DEF Waiting, TypeOK
    <3>4. CASE CheckStop(s) /\ stop = "clear"
      <4>1. /\ UNCHANGED <<peer, stop, queue>> /\ peer = "open" /\ Waiting'
        BY <2>2, <3>4 DEF CheckStop, ClosedInv, Waiting, TypeOK, pipeVars
      <4> QED
        BY <3>4, <4>1, LoopChecks, LoopStutters
    <3>5. CASE Enqueue(s)
      <4>1. /\ queue' = Append(queue, Piece(s)) /\ Piece(s) # Stray
            /\ Waiting /\ Room /\ UNCHANGED <<peer, stop>>
        BY <3>1, <3>5 DEF Enqueue, Sent, Waiting, Piece, Stray, Senders
      <4> QED
        BY <4>1, LoopQueues
    <3>6. CASE GiveUp(s)
      <4>1. Len(queue) = RelaySlots
        BY <2>2, <3>6 DEF GiveUp, Deadline, Abandons, Room, TypeOK
      <4>2. Waiting /\ UNCHANGED <<peer, queue>> /\ stop' \in {stop, "set"}
        BY <3>1, <3>6 DEF GiveUp, Fail, Waiting, pipeVars
      <4> QED
        BY <4>1, <4>2, LoopGivesUp
    <3> QED
      BY <2>2, <2>4, <3>2, <3>3, <3>4, <3>5, <3>6
      DEF Begin, Produces, Step, CheckStop, LibrarySends, Leave, WorkFails, pipeVars
  <2> QED
    BY <2>3, <2>4
<1>2. Spec => []TypeOK /\ []ChainInv /\ []ClosedInv
  BY TypeCorrect, ChainHolds, ClosedHolds
<1> QED
  BY <1>1, <1>2, PTL DEF Spec, TasksFit
=============================================================================
