------------------------------- MODULE HostSlots -------------------------------
(***************************************************************************)
(* What the per-host limiter of src/proxy/stream.rs promises: at most Max   *)
(* requests hold a slot of the host, a request waits only while all slots   *)
(* are taken, and a slot that becomes free goes to a waiting request.       *)
(***************************************************************************)
EXTENDS Naturals, FiniteSets

CONSTANTS
  Request,  \* requests to the host
  Max       \* slots

VARIABLES
  holding,  \* requests that have a slot
  waiting   \* requests that wait for one

vars == <<holding, waiting>>

Init == holding = {} /\ waiting = {}

Full == Cardinality(holding) = Max

Enter(r) ==
  /\ r \notin holding \cup waiting
  /\ ~Full
  /\ holding' = holding \cup {r}
  /\ UNCHANGED waiting

Wait(r) ==
  /\ r \notin holding \cup waiting
  /\ Full
  /\ waiting' = waiting \cup {r}
  /\ UNCHANGED holding

Leave(r) ==
  /\ r \in holding
  /\ waiting = {}
  /\ holding' = holding \ {r}
  /\ UNCHANGED waiting

HandOver(r, q) ==
  /\ r \in holding
  /\ q \in waiting
  /\ holding' = (holding \ {r}) \cup {q}
  /\ waiting' = waiting \ {q}

GiveUp(r) ==
  /\ r \in waiting
  /\ waiting' = waiting \ {r}
  /\ UNCHANGED holding

Next ==
  \/ \E r \in Request : Enter(r) \/ Wait(r) \/ Leave(r) \/ GiveUp(r)
  \/ \E r, q \in Request : HandOver(r, q)

Spec == Init /\ [][Next]_vars

=============================================================================
