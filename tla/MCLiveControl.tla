---------------------------- MODULE MCLiveControl ----------------------------
(* A small instance of LiveControl: two handlers, a day of three ticks. *)
EXTENDS ReleaseGate, TLC

MCDeployment == {[liveTestMode |-> TRUE, viewBound |-> FALSE],
                 [liveTestMode |-> FALSE, viewBound |-> TRUE]}
HandlerSymmetry == Permutations(Handler)
=============================================================================
