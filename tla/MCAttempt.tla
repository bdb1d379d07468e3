------------------------------ MODULE MCAttempt ------------------------------
(* Two call ids over three turns: an id can come back after it ran; one    *)
(* error is tolerated, so the limit is reached by the second.              *)
EXTENDS WorkerAttempt

MCCallIds == {"c1", "c2"}
=============================================================================
