---------------------------- MODULE ConnectionGate ----------------------------
(***************************************************************************)
(* What max_connections promises to a caller of the native client: at most *)
(* MaxConnections calls are inside the gate at any moment, a place that    *)
(* falls free may go straight to another call, and once the gate is shut   *)
(* nobody enters any more, although those inside may still leave.          *)
(* NativePool and AsyncPool are shown to implement this specification.     *)
(***************************************************************************)
EXTENDS Naturals, FiniteSets

CONSTANTS Calls,           \* calls of NativeClient.send
          MaxConnections   \* size of the semaphore

VARIABLES inside,          \* the calls that own a permit
          shut             \* the semaphore has been closed

gateVars == <<inside, shut>>

GateInit ==
    /\ inside = {}
    /\ shut = FALSE

Enter(c) ==
    /\ ~shut
    /\ c \notin inside
    /\ Cardinality(inside) < MaxConnections
    /\ inside' = inside \union {c}
    /\ UNCHANGED shut

Leave(c) ==
    /\ c \in inside
    /\ inside' = inside \ {c}
    /\ UNCHANGED shut

HandOver(c, d) ==
    /\ ~shut
    /\ c \in inside
    /\ d \notin inside
    /\ inside' = (inside \ {c}) \union {d}
    /\ UNCHANGED shut

Shut ==
    /\ ~shut
    /\ shut' = TRUE
    /\ UNCHANGED inside

GateNext ==
    \/ \E c \in Calls : Enter(c) \/ Leave(c)
    \/ \E c, d \in Calls : HandOver(c, d)
    \/ Shut

GateSpec == GateInit /\ [][GateNext]_gateVars
===============================================================================
