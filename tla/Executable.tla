----------------------------- MODULE Executable -----------------------------
(***************************************************************************)
(* What an update promises about the agent's executable: it is set aside   *)
(* before a newer release takes its name, and what was set aside takes     *)
(* the name back only from nothing or from a newer release.  Two updates   *)
(* that contend for the name may put their executables over each other's:  *)
(* then it is promised only that something has been set aside, and is      *)
(* given up only by taking the name back, so that an executable remains.   *)
(***************************************************************************)
EXTENDS Naturals

CONSTANTS
    Versions,  \* what may be installed
    Releases,  \* what an update may install
    None       \* no file has the name

VARIABLES
    installed,  \* the file with the agent's name
    saved,      \* the files set aside
    contended   \* several updates are under way; given, not promised

file == <<installed, saved>>

Init == installed \in Versions /\ saved = {}

SetAside ==
    /\ installed \in Versions
    /\ installed' = None
    /\ saved' = saved \cup {installed}

Install ==
    /\ saved # {}
    /\ installed' \in Releases
    /\ contended \/ (installed = None /\ \E v \in saved : installed' > v)
    /\ UNCHANGED saved

\* Another file of the same version may stay.
PutBack ==
    \E v \in saved :
        /\ contended \/ installed = None \/ installed > v
        /\ installed' = v
        /\ saved' \in {saved, saved \ {v}}

Next == SetAside \/ Install \/ PutBack

Spec == Init /\ [][Next]_file

\* There is always an executable, under its name or set aside.
Survives == installed \in Versions \/ saved \cap Versions # {}
=============================================================================
