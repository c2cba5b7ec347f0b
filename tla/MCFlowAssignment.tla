-------------------------- MODULE MCFlowAssignment --------------------------
(* Two columns; the second one has only a core at first. Shims and cores have *)
(* two channels in each direction, mem tiles three.                           *)
EXTENDS FlowAssignment

shim == <<0, 0>>
mem == <<0, 1>>
near == <<0, 2>>
far == <<1, 2>>

MCNumChannels == [r \in 0 .. 2 |-> IF r = 1 THEN 3 ELSE 2]
To(a, S) == [src |-> a, dsts |-> S]
MCDataConnections == {To(shim, {mem}), To(mem, {near}), To(mem, {near, far}),
                      To(near, {mem}), To(mem, {shim})}

Option(ctrl, tct, broadcast) == [ctrl |-> ctrl, tct |-> tct, broadcast |-> broadcast]
MCOverlays == {Option(FALSE, TRUE, TRUE), Option(TRUE, TRUE, TRUE), Option(TRUE, FALSE, FALSE)}
MCStrategies == {"Auto", "None", "Inputs", "Outputs", "All"}
=============================================================================
