------------------------------ MODULE LeasePool ------------------------------
(***************************************************************************)
(* What the concurrency limit of the gateway promises: a pool of Capacity  *)
(* leases, of which a client takes one, once, and gives it back, once. The *)
(* pool forgets every lease in use when its process ends.                  *)
(***************************************************************************)
EXTENDS Integers, FiniteSets

CONSTANTS
    Client,     \* those who may take a lease
    Capacity    \* how many leases may be in use at a time

VARIABLES
    inUse,      \* the clients that hold a lease
    taken       \* the clients that have ever held one

vars == <<inUse, taken>>

Init ==
    /\ inUse = {}
    /\ taken = {}

Take(c) ==
    /\ c \notin taken
    /\ Cardinality(inUse) < Capacity
    /\ inUse' = inUse \cup {c}
    /\ taken' = taken \cup {c}

Give(c) ==
    /\ c \in inUse
    /\ inUse' = inUse \ {c}
    /\ taken' = taken

Forget ==
    /\ inUse' = {}
    /\ taken' = taken

Next ==
    \/ \E c \in Client : Take(c) \/ Give(c)
    \/ Forget

Spec == Init /\ [][Next]_vars
=============================================================================
