-------------------------------- MODULE BodyRead --------------------------------
(***************************************************************************)
(* What reading a response body promises (src/src/exec.rs), whichever of   *)
(* the two readers does it and however the upstream cuts the body up: the  *)
(* first Limit bytes, and whether there were more.  A body that breaks off *)
(* is an error and nothing of it is kept.                                  *)
(***************************************************************************)
EXTENDS Naturals

CONSTANT Limit  \* max_response_bytes

VARIABLES
    total,   \* bytes the upstream has sent
    outcome  \* what the reader returned

readVars == <<total, outcome>>

Reading == [kind |-> "reading"]
Failed == [kind |-> "failed"]
Body(bytes, truncated) ==
    [kind |-> "body", bytes |-> bytes, truncated |-> truncated]

Init == total = 0 /\ outcome = Reading

Receive ==
    /\ outcome = Reading
    /\ total' \in Nat /\ total' >= total
    /\ UNCHANGED outcome

Finish ==
    /\ outcome = Reading
    /\ outcome' = IF total > Limit THEN Body(Limit, TRUE) ELSE Body(total, FALSE)
    /\ UNCHANGED total

Fail ==
    /\ outcome = Reading
    /\ outcome' = Failed
    /\ UNCHANGED total

Spec == Init /\ [][Receive \/ Finish \/ Fail]_readVars
================================================================================
