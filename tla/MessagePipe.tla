----------------------------- MODULE MessagePipe -----------------------------
(***************************************************************************)
(* What a relay promises whoever joins the parts its channels carry: each  *)
(* sender's messages arrive whole, at most once and in the order they were *)
(* sent; one may be lost, which its sender then knows.  Parts, queues,     *)
(* deadlines and the other senders of a channel are hidden.                *)
(***************************************************************************)
EXTENDS Naturals

CONSTANT Senders

VARIABLES
    handed,   \* sender -> how many messages it has handed over
    pending,  \* sender -> those that are neither lost nor arrived
    arrived   \* sender -> the last one that arrived, 0 for none

pipe == <<handed, pending, arrived>>

Init ==
    /\ handed = [s \in Senders |-> 0]
    /\ pending = [s \in Senders |-> {}]
    /\ arrived = [s \in Senders |-> 0]

HandOver(s) ==
    /\ handed' = [handed EXCEPT ![s] = @ + 1]
    /\ pending' = [pending EXCEPT ![s] = @ \cup {handed[s] + 1}]
    /\ UNCHANGED arrived

\* The oldest pending message, so that the order is kept.
Arrive(s) ==
    /\ \E n \in pending[s] :
          /\ \A m \in pending[s] : n <= m
          /\ n > arrived[s]
          /\ arrived' = [arrived EXCEPT ![s] = n]
          /\ pending' = [pending EXCEPT ![s] = @ \ {n}]
    /\ UNCHANGED handed

Lose(s) ==
    /\ \E lost \in SUBSET pending[s] : pending' = [pending EXCEPT ![s] = @ \ lost]
    /\ UNCHANGED <<handed, arrived>>

LoseAll ==
    /\ pending' = [s \in Senders |-> {}]
    /\ UNCHANGED <<handed, arrived>>

Next == LoseAll \/ \E s \in Senders : HandOver(s) \/ Arrive(s) \/ Lose(s)

Spec == Init /\ [][Next]_pipe
=============================================================================
