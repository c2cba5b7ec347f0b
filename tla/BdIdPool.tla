------------------------------ MODULE BdIdPool ------------------------------
(***************************************************************************)
(* What the users of a BD id generator rely on: a pool of ids shared by    *)
(* the channels of a tile.  Which free id a request is given is left open. *)
(***************************************************************************)
EXTENDS Integers

CONSTANTS Channel, ValidBdIds, NullOpt, BdId

VARIABLES held,    \* the ids in use
          asked,   \* the channel of the last request
          reply    \* the answer to it

Allowed(channel) ==
    IF channel \in DOMAIN ValidBdIds THEN ValidBdIds[channel] ELSE {}

Init == held = {} /\ asked = NullOpt /\ reply = NullOpt

(* A request gets any id of its channel that is free.                      *)
Grant(channel) ==
    \E id \in Allowed(channel) \ held : /\ held' = held \cup {id}
                                        /\ asked' = channel
                                        /\ reply' = id

(* A request is refused only when the channel has no free id.              *)
Refuse(channel) == /\ Allowed(channel) \subseteq held
                   /\ asked' = channel /\ reply' = NullOpt
                   /\ held' = held

Free == \E id \in held : /\ held' = held \ {id}
                       /\ UNCHANGED <<asked, reply>>

(* An id may also be taken without a request, when the program names it.   *)
Take == \E id \in BdId : /\ held' = held \cup {id}
                       /\ UNCHANGED <<asked, reply>>

Next == \/ \E channel \in Channel : Grant(channel) \/ Refuse(channel)
        \/ Free
        \/ Take

Spec == Init /\ [][Next]_<<held, asked, reply>>
=============================================================================
