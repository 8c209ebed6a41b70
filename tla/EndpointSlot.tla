---------------------------- MODULE EndpointSlot ----------------------------
(***************************************************************************)
(* What the leases promise of a single-slot endpoint: one user at a time,  *)
(* and the slot is empty between two users.                                *)
(***************************************************************************)
CONSTANT Requests
VARIABLE users

Init == users = {}

Begin == users = {} /\ \E r \in Requests : users' = {r}

End == users' = {}

Next == Begin \/ End

Spec == Init /\ [][Next]_users
=============================================================================
