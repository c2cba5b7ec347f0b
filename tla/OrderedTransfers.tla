--------------------------- MODULE OrderedTransfers ---------------------------
(***************************************************************************)
(* What a workgroup's control code promises, whatever the passes make of   *)
(* it: every connection transfers the DMAs of the program, each once, in   *)
(* program order; no transfer behind a barrier happens before all those    *)
(* ahead of it; and the code ends only when everything was transferred.    *)
(***************************************************************************)
EXTENDS Integers, Sequences

CONSTANT Connection

VARIABLES
    program,   \* the DMAs in program order: connection, barriers ahead
    done,      \* per connection: the DMAs it has transferred
    ended      \* the control code has been executed

Dmas == DOMAIN program
Has(c, i) == \E k \in DOMAIN done[c] : done[c][k] = i
Transferred(i) == Has(program[i].conn, i)

Init == /\ done = [c \in Connection |-> <<>>]
        /\ ended = FALSE

Transfer(i) ==
    /\ ~Transferred(i)
    /\ \A j \in Dmas :
          \/ program[j].conn = program[i].conn /\ j < i
          \/ program[j].barriers < program[i].barriers
          => Transferred(j)
    /\ done' = [done EXCEPT ![program[i].conn] = Append(@, i)]
    /\ UNCHANGED <<program, ended>>

End == /\ \A i \in Dmas : Transferred(i)
       /\ ended' = TRUE
       /\ UNCHANGED <<program, done>>

Next == (\E i \in Dmas : Transfer(i)) \/ End

Spec == Init /\ [][Next]_<<program, done, ended>>
=============================================================================
