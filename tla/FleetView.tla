------------------------------ MODULE FleetView ------------------------------
(***************************************************************************)
(* What the fleet store promises to the pages that read it: every drone    *)
(* is shown by a telemetry message that did arrive, never by an older one  *)
(* after a newer one, and a drone that was given up comes back only with a *)
(* message that the picture has not shown yet.  How long a message waits,  *)
(* and when a drone is given up, is left to the store.                     *)
(***************************************************************************)
EXTENDS Integers

CONSTANT Drones

VARIABLES
    arrived,  \* arrived[d]: how many messages of drone d the browser received
    shown,    \* shown[d]: which of them the picture shows; 0 if it shows none
    live      \* live[d]: whether the picture shows d as connected

vars == <<arrived, shown, live>>

Init ==
    /\ arrived = [d \in Drones |-> 0]
    /\ shown = [d \in Drones |-> 0]
    /\ live = [d \in Drones |-> FALSE]

Arrive(d) ==
    /\ arrived' = [arrived EXCEPT ![d] = @ + 1]
    /\ UNCHANGED <<shown, live>>

\* The newest messages of the drones in D replace what was shown of them.
Show(D) ==
    /\ \A d \in D : shown[d] < arrived[d]
    /\ shown' = [d \in Drones |-> IF d \in D THEN arrived[d] ELSE shown[d]]
    /\ live' = [d \in Drones |-> d \in D \/ live[d]]
    /\ UNCHANGED arrived

\* The drones in D are given up; their last message stays on the picture.
Lose(D) ==
    /\ \A d \in D : live[d]
    /\ live' = [d \in Drones |-> live[d] /\ d \notin D]
    /\ UNCHANGED <<arrived, shown>>

Next ==
    \/ \E d \in Drones : Arrive(d)
    \/ \E D \in SUBSET Drones : Show(D) \/ Lose(D)

Spec == Init /\ [][Next]_vars
=============================================================================
