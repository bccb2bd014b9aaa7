------------------------------ MODULE Service ------------------------------
(***************************************************************************)
(* What clients may expect of the server of a machine, whatever processes  *)
(* it consists of: once it is up it stays up, a connection is taken, and   *)
(* each promise on it gets its answer, unless there has been a fault.      *)
(***************************************************************************)
CONSTANT Conn

VARIABLES
  up,      \* whether connections are accepted or queued
  fault,   \* whether there has been one
  conn     \* client -> the state of its connection

vars == <<up, fault, conn>>

Becomes(c, from, to) ==
  /\ conn[c] = from
  /\ conn' = [conn EXCEPT ![c] = to]
  /\ UNCHANGED <<up, fault>>

Init == up = FALSE /\ fault = FALSE /\ conn = [c \in Conn |-> "none"]

ComesUp == up' = TRUE /\ UNCHANGED <<fault, conn>>

Connect(c) == up /\ Becomes(c, "none", "waiting")
Serve(c)   == Becomes(c, "waiting", "served")
Ask(c)     == Becomes(c, "served", "asked")
Answer(c)  == Becomes(c, "asked", "served") \/ Becomes(c, "asked", "none")
Leave(c)   == Becomes(c, "served", "none")

\* A fault may take the server down and connections with it.
Fault ==
  /\ fault' = TRUE
  /\ up' \in BOOLEAN
  /\ conn' \in [Conn -> {"none", "waiting", "served", "asked", "reset"}]
  /\ \A c \in Conn : conn'[c] \in {conn[c], "none", "reset"}

Next ==
  \/ ComesUp
  \/ Fault
  \/ \E c \in Conn : Connect(c) \/ Serve(c) \/ Ask(c) \/ Answer(c) \/ Leave(c)

Spec == Init /\ [][Next]_vars
=============================================================================
