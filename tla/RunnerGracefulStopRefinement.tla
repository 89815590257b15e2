-------------------- MODULE RunnerGracefulStopRefinement --------------------
(***************************************************************************)
(* RunnerGracefulStop implements RunnerContract: the registration and the  *)
(* agent are the runner's life, and the request counts from the first of   *)
(* the two annotations of 1/4, the pod's.                                  *)
(***************************************************************************)
EXTENDS RunnerGracefulStop

\* A job that GitHub still has on an agent that has left it is no state of the contract.
life ==
    IF ~owner.exists /\ pod.uid = 0 THEN "gone"
    ELSE IF job /\ agent # "busy" THEN "interrupted"
    ELSE IF agent = "busy" THEN "busy"
    ELSE IF agentID = 0 THEN "starting"
    ELSE IF agent = "idle" /\ reg = agentID THEN "idle"
    ELSE "drained"

asked == life # "gone" /\ ("request" \in owner.ann \/ "request" \in pod.ann)

Contract == INSTANCE RunnerContract WITH life <- life, asked <- asked

\* Every behaviour of the controllers, with lagging caches, API errors and restarts between
\* any two calls, is one of the contract's, its liveness included.
RefinesContract == Contract!Spec
=============================================================================
