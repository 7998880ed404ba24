---------------------------- MODULE SharedFolder ----------------------------
(***************************************************************************)
(* What file transfer promises of the shared folder: a worker publishes    *)
(* only a file it announced, whole, verified and received within its       *)
(* budget, under a name that is still free; all else is the local user's.  *)
(***************************************************************************)
EXTENDS Naturals, Sequences

CONSTANTS
    Workers,
    Names,
    Contents,  \* what may be in a file
    Max,       \* the size of the largest file
    Quota,     \* the budget of a worker
    Chunk      \* the most bytes of one request

VARIABLES
    folder,  \* name -> the file under it: {} or one file
    wanted,  \* worker -> the file it announced: {} or a name and a size
    used,    \* worker -> the budget it used
    moved    \* worker -> the bytes it took and sent

shared == <<folder, wanted, used, moved>>

Init ==
    /\ folder = [n \in Names |-> {}]
    /\ wanted = [w \in Workers |-> {}]
    /\ used = [w \in Workers |-> 0]
    /\ moved = [w \in Workers |-> 0]

Charge(w, size) ==
    /\ size <= Max /\ used[w] + size <= Quota
    /\ used' = [used EXCEPT ![w] = @ + size]

Announce(w) ==
    /\ wanted[w] = {}
    /\ \E n \in Names, size \in 0 .. Max :
          /\ folder[n] = {}
          /\ Charge(w, size)
          /\ wanted' = [wanted EXCEPT ![w] = {[name |-> n, size |-> size]}]
    /\ UNCHANGED <<folder, moved>>

Fetch(w) ==
    /\ \E n \in Names : \E f \in folder[n] : Charge(w, Len(f.content))
    /\ UNCHANGED <<folder, wanted, moved>>

Move(w) ==
    /\ \E size \in 0 .. Chunk :
          /\ moved[w] + size <= used[w]
          /\ moved' = [moved EXCEPT ![w] = @ + size]
    /\ UNCHANGED <<folder, wanted, used>>

\* The announcements of some workers are void, all of them after a crash.
Void(workers) == wanted' = [w \in Workers |-> IF w \in workers THEN {} ELSE wanted[w]]

GiveUp == (\E workers \in SUBSET Workers : Void(workers)) /\ UNCHANGED <<folder, used, moved>>

Put(n, content) ==
    folder' = [folder EXCEPT ![n] = {[content |-> content, digest |-> content]}]

Publish(w) ==
    /\ \E r \in wanted[w], content \in Contents :
          /\ folder[r.name] = {}
          /\ Len(content) = r.size /\ r.size <= moved[w]
          /\ Put(r.name, content)
    /\ \E workers \in SUBSET Workers : w \in workers /\ Void(workers)
    /\ UNCHANGED <<used, moved>>

Create(n) ==
    /\ folder[n] = {}
    /\ \E content \in Contents : Put(n, content)
    /\ UNCHANGED <<wanted, used, moved>>

Remove(n) ==
    /\ folder' = [folder EXCEPT ![n] = {}]
    /\ UNCHANGED <<wanted, used, moved>>

Next ==
    \/ GiveUp
    \/ \E n \in Names : Create(n) \/ Remove(n)
    \/ \E w \in Workers : Announce(w) \/ Fetch(w) \/ Move(w) \/ Publish(w)

Spec == Init /\ [][Next]_shared
=============================================================================
