---------------------------- MODULE BoundedFifo ----------------------------
(* What producer and consumer of an object FIFO rely on: at most Depth       *)
(* objects in between, each handed over complete, once and in order.         *)
EXTENDS Naturals

CONSTANTS Depth,   \* number of objects the FIFO holds
          Items    \* bound: objects the producer has to send

VARIABLES sent, received, delivered   \* delivered: the object received last

bvars == <<sent, received, delivered>>

Init == sent = 0 /\ received = 0 /\ delivered = 0

Put == /\ sent < Items
       /\ sent - received < Depth
       /\ sent' = sent + 1
       /\ UNCHANGED <<received, delivered>>

Get == /\ received < sent
       /\ received' = received + 1
       /\ delivered' = received + 1
       /\ UNCHANGED sent

Next == Put \/ Get

Spec == Init /\ [][Next]_bvars
=============================================================================
