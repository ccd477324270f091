----------------------------- MODULE TrustFile -----------------------------
(***************************************************************************)
(* What the hook promises to whoever reads a trust store while it is being *)
(* updated: the file always holds everything it held, with or without all  *)
(* of the organisation's certificates, and an update that is reported as   *)
(* done has added them.  Only a power failure may undo an update, and then *)
(* it undoes all of it.                                                    *)
(***************************************************************************)
CONSTANT Item    \* what a trust store may hold

VARIABLES
    base,   \* what the image's file holds, fixed
    org,    \* the organisation's certificates, fixed
    held,   \* what a reader finds in the file
    done    \* the update is reported as done

vars == <<base, org, held, done>>

Init ==
    /\ base \subseteq Item /\ org \subseteq Item
    /\ held = base
    /\ done = FALSE

\* The file is replaced.  Entries that were hidden may come to light.
Patch ==
    /\ held' \in SUBSET Item
    /\ held \cup org \subseteq held'
    /\ UNCHANGED <<base, org, done>>

Report ==
    /\ org \subseteq held
    /\ done' = TRUE
    /\ UNCHANGED <<base, org, held>>

\* The hook runs again.
Again ==
    /\ done' = FALSE
    /\ UNCHANGED <<base, org, held>>

PowerLoss ==
    /\ held' \in {held, base}
    /\ done' = FALSE
    /\ UNCHANGED <<base, org>>

Next == Patch \/ Report \/ Again \/ PowerLoss

Spec == Init /\ [][Next]_vars

=============================================================================
