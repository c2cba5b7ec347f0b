--------------------------- MODULE RegisterWrites ---------------------------
(***************************************************************************)
(* What a reconfiguration promises: the tiles' registers take the writes   *)
(* of a transaction, every tile its own in order, and no write overtakes   *)
(* one to a tile of another type.  A write replaces the bits of its mask.  *)
(***************************************************************************)
EXTENDS Integers

VARIABLES
    writes,  \* in order: the tiles written, their type, offset, value, mask
    done,    \* tile -> the last of the writes it has taken
    regs     \* tile -> offset -> bits

Init == done = [t \in DOMAIN regs |-> 0]

Mine(t, i) == t \in writes[i].tiles
Taken(i) == \A t \in writes[i].tiles : done[t] >= i

(* Some of the tiles of a write take it, each as its next one.             *)
Write(i, tiles) ==
    /\ \A t \in tiles : /\ Mine(t, i) /\ i > done[t]
                        /\ \A j \in done[t] + 1 .. i - 1 : ~Mine(t, j)
    /\ \A j \in 1 .. i - 1 : writes[j].type # writes[i].type => Taken(j)
    /\ done' = [t \in DOMAIN done |-> IF t \in tiles THEN i ELSE done[t]]
    /\ regs' = [t \in DOMAIN regs |->
                  IF t \in tiles
                  THEN [regs[t] EXCEPT ![writes[i].off] =
                           (@ \ writes[i].mask) \cup (writes[i].val \cap writes[i].mask)]
                  ELSE regs[t]]
    /\ UNCHANGED writes

Next == \E i \in DOMAIN writes : \E tiles \in SUBSET writes[i].tiles : Write(i, tiles)

Spec == Init /\ [][Next]_<<writes, done, regs>>
=============================================================================
