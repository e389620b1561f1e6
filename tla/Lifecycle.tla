----------------------------- MODULE Lifecycle -----------------------------
(***************************************************************************)
(* What the service promises of an _id under any interleaving: it is       *)
(* fresh, may become the _id of a live document, and once that document is *)
(* gone nothing has that _id again.                                        *)
(***************************************************************************)
CONSTANT Resources
VARIABLE phase

Phases == {"fresh", "live", "gone"}

Init == phase \in [Resources -> {"fresh", "live"}]

Begin(r) == phase[r] = "fresh" /\ phase' = [phase EXCEPT ![r] = "live"]
End(r)   == phase[r] = "live"  /\ phase' = [phase EXCEPT ![r] = "gone"]

Next == \E r \in Resources : Begin(r) \/ End(r)
Spec == Init /\ [][Next]_phase
=============================================================================
