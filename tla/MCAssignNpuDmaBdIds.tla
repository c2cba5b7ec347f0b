------------------------- MODULE MCAssignNpuDmaBdIds -------------------------
(* Small tiles and control codes for AssignNpuDmaBdIds.                    *)
EXTENDS AssignNpuDmaBdIds

For(n, s) == [ub |-> n, step |-> s, forall |-> FALSE]
LoopsUsed == {For(3, 1), For(4, 2), [ub |-> 2, step |-> 1, forall |-> TRUE]}
=============================================================================
