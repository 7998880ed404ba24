----------------------------- MODULE SessionSlot -----------------------------
(***************************************************************************)
(* What the control connection promises about sessions, without signals,   *)
(* wires or tasks: there is one slot; a session takes it at most once, may *)
(* carry a relay while it holds it, and gives up both together.            *)
(***************************************************************************)
CONSTANT Sessions

VARIABLES
    holders,  \* the session that holds the slot, if any
    carried,  \* the session that carries a relay, if any
    past      \* the sessions that have given the slot up

vars == <<holders, carried, past>>

Init == holders = {} /\ carried = {} /\ past = {}

Take(s) ==
    /\ holders = {}
    /\ s \notin past
    /\ holders' = {s}
    /\ UNCHANGED <<carried, past>>

Carry(s) ==
    /\ s \in holders
    /\ carried = {}
    /\ carried' = {s}
    /\ UNCHANGED <<holders, past>>

GiveUp(s) ==
    /\ s \in holders
    /\ holders' = {}
    /\ carried' = {}
    /\ past' = past \cup {s}

Next == \E s \in Sessions : Take(s) \/ Carry(s) \/ GiveUp(s)

Spec == Init /\ [][Next]_vars
=============================================================================
