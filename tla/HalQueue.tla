------------------------------ MODULE HalQueue ------------------------------
(***************************************************************************)
(* What a program may expect of the device queue of the runtime: buffers   *)
(* hold values, operations happen one after the other, and a dispatch      *)
(* returns only when its output is what its kernel makes of its inputs.    *)
(***************************************************************************)
EXTENDS Naturals

CONSTANTS Buffer, Entry, HostValue

VARIABLES
  contents,   \* [Buffer -> value]
  job,        \* the dispatch being executed, or NoJob
  read,       \* what the host read last
  runs        \* kernel invocations per dispatch: 0 turns kernels off

vars == <<contents, job, read, runs>>

NoJob == [entry |-> "none", ins |-> <<>>, out |-> "none"]
Garbage == [op |-> <<"garbage", "garbage">>, args |-> <<>>]
HostMade(v) == [op |-> <<"host", v>>, args |-> <<>>]
Made(config, instrs, args) == [op |-> <<config, instrs>>, args |-> args]

Result(j) == Made(j.entry, j.entry, [i \in DOMAIN j.ins |-> contents[j.ins[i]]])

Init == /\ contents = [b \in Buffer |-> Garbage]
        /\ job = NoJob /\ read = Garbage /\ runs \in Nat

Set(b, v) == /\ job = NoJob /\ contents' = [contents EXCEPT ![b] = v]
             /\ UNCHANGED <<job, read, runs>>
Copy(b, c) == Set(b, contents[c])
Read(b) == /\ job = NoJob /\ read' = contents[b] /\ UNCHANGED <<contents, job, runs>>
Submit(j) == job = NoJob /\ job' = j /\ UNCHANGED <<contents, read, runs>>
Run == /\ job # NoJob /\ contents' = [contents EXCEPT ![job.out] = Result(job)]
       /\ UNCHANGED <<job, read, runs>>
Return == /\ job # NoJob /\ (runs = 0 \/ contents[job.out] = Result(job))
          /\ job' = NoJob /\ UNCHANGED <<contents, read, runs>>

Job == {[entry |-> e, ins |-> <<i>>, out |-> o] : e \in Entry, i, o \in Buffer}
Next ==
  \/ \E b \in Buffer : \/ Set(b, Garbage) \/ Read(b)
                       \/ \E v \in HostValue : Set(b, HostMade(v))
                       \/ \E c \in Buffer : Copy(b, c)
  \/ \E j \in Job : Submit(j)
  \/ Run \/ Return

Spec == Init /\ [][Next]_vars
=============================================================================
