---------------------- MODULE MCConversationRuntime ----------------------
(* Instances of ConversationRuntime for TLC: one message, two runtime replicas. *)
EXTENDS ConversationRuntime, TLC

CONSTANTS j1, w1, w2

TheJobs    == {j1}
TheWorkers == {w1, w2}
AnyAsk     == {"QUESTION", "WORK"}
Replicas   == Permutations(TheWorkers)
=============================================================================
