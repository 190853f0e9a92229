------------------------- MODULE NotebookLifecycle -------------------------
(***************************************************************************)
(* What a user is promised of a notebook name (cmd/api/README.md): a       *)
(* create is accepted when the name is free, ends applied or failed, and   *)
(* only then can the notebook be deleted and its name used again.          *)
(***************************************************************************)
CONSTANT Names

VARIABLE phase

Phases == {"absent", "pending", "applied", "failed"}

Init == phase = [n \in Names |-> "absent"]

Move(n, from, to) ==
    /\ phase[n] \in from
    /\ phase' = [phase EXCEPT ![n] = to]

Accept(n) == Move(n, {"absent"}, "pending")
Settle(n) == \E to \in {"applied", "failed"} : Move(n, {"pending"}, to)
Delete(n) == Move(n, {"applied", "failed"}, "absent")

Next == \E n \in Names : Accept(n) \/ Settle(n) \/ Delete(n)

Spec == Init /\ [][Next]_phase
=============================================================================
