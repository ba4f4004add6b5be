--------------------------- MODULE EventLifecycle ----------------------------
(***************************************************************************)
(* The promise of the contracts about an event row: it is created as       *)
(* announced or as upload_intent_created, moves only along the table of    *)
(* forward transitions, and leaves only by deletion.                       *)
(***************************************************************************)
EXTENDS EventContracts

VARIABLE status   \* the status of each event's row, "none" without one

Init == status = [e \in Event |-> "none"]

Create(e) ==
    /\ status[e] = "none"
    /\ \E s \in {"announced", "upload_intent_created"} : status' = [status EXCEPT ![e] = s]

Advance(e) ==
    /\ status[e] # "none"
    /\ \E s \in Successors[status[e]] : status' = [status EXCEPT ![e] = s]

Remove(e) ==
    /\ status[e] # "none"
    /\ status' = [status EXCEPT ![e] = "none"]

Next == \E e \in Event : Create(e) \/ Advance(e) \/ Remove(e)

Spec == Init /\ [][Next]_status
=============================================================================
