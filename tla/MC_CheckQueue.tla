--------------------------- MODULE MC_CheckQueue ---------------------------
(***************************************************************************)
(* One queue with a worker, two validating threads that compete for it.    *)
(* Four checks are the fewest of which a thread takes two at once.         *)
(***************************************************************************)
EXTENDS CheckQueue

CONSTANT q1

MCQueues == <<q1>>
MCQueueOf == [w \in Worker |-> q1]
MCBatches == {<<"good", "bad">>, <<"good", "good", "good", "good">>}
=============================================================================
