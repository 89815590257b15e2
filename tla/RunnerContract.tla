--------------------------- MODULE RunnerContract ---------------------------
(***************************************************************************)
(* What a RunnerReplicaSet may rely on in each of its runners, whatever    *)
(* the controllers, Kubernetes and GitHub do to bring it about: a runner   *)
(* registers once, is taken out of service only on request or after its    *)
(* job, never loses a job, and is removed only when it is out of service.  *)
(* docs/releasenotes/0.22.md promises as much of every runner pod.         *)
(***************************************************************************)

CONSTANT Ephemeral  \* the runner stops after one job

VARIABLES
    life,   \* "starting", "idle", "busy", "drained" or "gone"
    asked   \* the runner has been asked to stop

vars == <<life, asked>>

Init == life = "starting" /\ asked = FALSE

Ask ==
    /\ life # "gone" /\ ~ asked
    /\ asked' = TRUE
    /\ UNCHANGED life

Register ==
    /\ life = "starting"
    /\ life' = "idle"
    /\ UNCHANGED asked

TakeJob ==
    /\ life = "idle"
    /\ life' = "busy"
    /\ UNCHANGED asked

FinishJob ==
    /\ life = "busy"
    /\ life' = IF Ephemeral THEN "drained" ELSE "idle"
    /\ UNCHANGED asked

\* A runner that has no job is unregistered, if it was asked to stop.
Drain ==
    /\ life = "idle" /\ asked
    /\ life' = "drained"
    /\ UNCHANGED asked

Remove ==
    /\ life = "drained"
    /\ life' = "gone" /\ asked' = FALSE

Next ==
    \/ Ask
    \/ Register
    \/ TakeJob
    \/ FinishJob
    \/ Drain
    \/ Remove

\* Every runner is registered, and one that is asked to stop or has done its job goes away.
Fairness ==
    /\ WF_vars(Register)
    /\ WF_vars(FinishJob)
    /\ WF_vars(Drain)
    /\ WF_vars(Remove)

Safety == Init /\ [][Next]_vars
Spec == Safety /\ Fairness

=============================================================================
