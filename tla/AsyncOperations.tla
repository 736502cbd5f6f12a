-------------------------- MODULE AsyncOperations --------------------------
(***************************************************************************)
(* What FfiClient promises the callers of its asynchronous methods: an     *)
(* operation is started once, its future is then satisfied at most once,   *)
(* by an answer or by a cancellation, and never changes again.             *)
(***************************************************************************)
CONSTANTS
  Operations,  \* the operations
  Outcomes     \* what a satisfied future may hold

VARIABLE status  \* per operation: "unused", "waiting" or its outcome

Init == status = [o \in Operations |-> "unused"]

Start(o) ==
  /\ status[o] = "unused"
  /\ status' = [status EXCEPT ![o] = "waiting"]

Satisfy(o, r) ==
  /\ status[o] = "waiting"
  /\ status' = [status EXCEPT ![o] = r]

Next == \E o \in Operations : Start(o) \/ \E r \in Outcomes : Satisfy(o, r)

Spec == Init /\ [][Next]_status
=============================================================================
