------------------------- MODULE MCRunnerDeployment -------------------------
(* Instance of RunnerDeployment for TLC. *)
EXTENDS RunnerDeployment

MCReplicas == {None, 2}

===========================================================================
