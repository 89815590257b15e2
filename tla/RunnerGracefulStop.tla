------------------------- MODULE RunnerGracefulStop -------------------------
(***************************************************************************)
(* The life and the graceful stop of one runner, from the creation of its  *)
(* Runner resource to the removal of its last pod.                         *)
(*                                                                         *)
(* Five parties interact, each through the Kubernetes API or GitHub's API: *)
(*   - the runner controller        (controllers/runner_controller.go),    *)
(*   - the runner pod controller    (controllers/runner_pod_controller.go  *)
(*     and controllers/runner_graceful_stop.go),                           *)
(*   - the RunnerReplicaSet controller, as far as it terminates one owner  *)
(*     (the "termination process 1/4 .. 4/4" of runner_pod_owner.go),      *)
(*   - Kubernetes itself: garbage collector, kubelet, informer cache,      *)
(*   - GitHub and the actions/runner agent in the pod (external).          *)
(*                                                                         *)
(* Abstractions.  A timestamp annotation is its presence.  A registration  *)
(* has the number of the pod that made it as its ID: the agent's .runner   *)
(* file lives in the pod's emptyDir, so a pod registers at most once.      *)
(* Durations (requeue delays, the one minute deletion timeout, the 60 s    *)
(* HTTP cache) are "some time later".  Controllers read the pod from an    *)
(* informer cache that lags arbitrarily; the Runner resource is read as it *)
(* is, because what is derived from it is monotone while it exists.        *)
(***************************************************************************)
EXTENDS Naturals

CONSTANTS
    Ephemeral,  \* the runner stops after one job (RUNNER_EPHEMERAL)
    Faults,     \* what the environment may do, a subset of FaultKinds
    MaxPods,    \* bound: pods ever created under the runner's name
    MaxFails    \* bound: API errors, restarts of the controllers, crashes of the agent

(***************************************************************************)
(*  "delete"    somebody other than ARC deletes the pod (drain, eviction)  *)
(*  "crash"     the runner container dies and kubelet restarts it          *)
(*  "forbidden" GitHub answers 403 to RemoveRunner                         *)
(*  "noregister" config.sh never succeeds                                  *)
(***************************************************************************)
FaultKinds == {"delete", "crash", "forbidden", "noregister"}

ASSUME ConstantsAssumption ==
    /\ Ephemeral \in BOOLEAN
    /\ Faults \subseteq FaultKinds
    /\ MaxPods \in Nat \ {0}
    /\ MaxFails \in Nat

VARIABLES
    owner,       \* the Runner resource
    syncer,      \* RunnerReplicaSet controller: "idle", or "owner" between the two patches of 1/4
    pod,         \* the pod in the API server
    cache,       \* the pod in the controllers' informer cache
    pods,        \* number of pods created so far, the last one's uid
    pc,          \* where the runner pod controller's Reconcile is
    rp,          \* Reconcile's local copy of the pod (runnerPod)
    releasing,   \* Reconcile is on the deletion-timestamp path
    target,      \* the runner ID Reconcile is about to annotate or to remove
    agent,       \* the actions/runner process of the current pod
    agentID,     \* the ID that process is registered with, 0 before
    reg,         \* the ID GitHub has registered under the runner's name, 0 if none
    job,         \* GitHub considers that registration busy
    listed,      \* the ID in the HTTP-cached response of ListRunners
    fails        \* number of failures so far

ghVars   == <<reg, job, agentID>>
recVars  == <<pc, rp, releasing, target>>
vars == <<owner, syncer, pod, cache, pods, pc, rp, releasing, target,
          agent, agentID, reg, job, listed, fails>>

-----------------------------------------------------------------------------
(* Types *)

OwnerKeys == {"request", "complete"}
PodKeys   == OwnerKeys \cup {"start", "wait"}

\* @uid 0 stands for "no such pod".  @status is what the controllers make of the phase
\* and the container statuses: "alive", "exited" (the runner container has an exit code
\* but the pod is still Pending, because of a sidecar) or "stopped".
PodRecord ==
    [uid : 0..MaxPods, finalizer : BOOLEAN, deleting : BOOLEAN,
     status : {"alive", "exited", "stopped"}, id : 0..MaxPods, ann : SUBSET PodKeys]

NoPod == [uid |-> 0, finalizer |-> FALSE, deleting |-> FALSE,
          status |-> "alive", id |-> 0, ann |-> {}]

\* @token: Status.Registration is usable; @synced: Status.Phase is not "".
OwnerRecord ==
    [exists : BOOLEAN, finalizer : BOOLEAN, deleting : BOOLEAN,
     token : BOOLEAN, synced : BOOLEAN, ann : SUBSET OwnerKeys]

Steps == {"idle", "annotateID", "start", "unregister", "remove", "wait", "complete",
          "removeFinalizer"}

TypeOK ==
    /\ owner \in OwnerRecord
    /\ syncer \in {"idle", "owner"}
    /\ pod \in PodRecord /\ cache \in PodRecord /\ rp \in PodRecord
    /\ pods \in 0..MaxPods
    /\ pc \in Steps
    /\ releasing \in BOOLEAN
    /\ target \in 0..MaxPods
    /\ agent \in {"none", "config", "idle", "busy", "crashed", "exited"}
    /\ agentID \in 0..MaxPods /\ reg \in 0..MaxPods /\ listed \in 0..MaxPods
    /\ job \in BOOLEAN
    /\ fails \in 0..MaxFails

\* newRunner has just created the Runner: no finalizer, no status, no pod.
Init ==
    /\ owner = [exists |-> TRUE, finalizer |-> FALSE, deleting |-> FALSE,
                token |-> FALSE, synced |-> FALSE, ann |-> {}]
    /\ syncer = "idle"
    /\ pod = NoPod /\ cache = NoPod /\ pods = 0
    /\ pc = "idle" /\ rp = NoPod /\ releasing = FALSE /\ target = 0
    /\ agent = "none" /\ agentID = 0
    /\ reg = 0 /\ job = FALSE /\ listed = 0
    /\ fails = 0

-----------------------------------------------------------------------------
(* Helpers of the controllers *)

\* runnerPodOrContainerIsStopped
Stopped(p) == p.status = "stopped"

\* runnerContainerExitCode(pod) != nil
HasExitCode(p) == p.status # "alive"

-----------------------------------------------------------------------------
(* The runner controller: Reconcile of a Runner.  A failed call changes     *)
(* nothing and is retried, which is a stuttering step.                      *)

RunnerUnchanged == UNCHANGED <<syncer, cache, recVars, reg, job, listed, fails>>

AddRunnerFinalizer ==
    /\ owner.exists /\ ~owner.deleting /\ ~owner.finalizer
    /\ owner' = [owner EXCEPT !.finalizer = TRUE]
    /\ UNCHANGED <<pod, pods, agent, agentID>> /\ RunnerUnchanged

ProcessRunnerDeletion ==
    /\ owner.exists /\ owner.deleting /\ owner.finalizer
    /\ owner' = [owner EXCEPT !.finalizer = FALSE]
    /\ UNCHANGED <<pod, pods, agent, agentID>> /\ RunnerUnchanged

Creating == owner.exists /\ ~owner.deleting /\ owner.finalizer /\ cache.uid = 0

UpdateRegistrationToken ==
    /\ Creating /\ ~owner.token
    /\ owner' = [owner EXCEPT !.token = TRUE]
    /\ UNCHANGED <<pod, pods, agent, agentID>> /\ RunnerUnchanged

\* The pod gets the annotations of its Runner.  It exists without a finalizer until
\* the runner pod controller sees it.
NewPod(uid) ==
    [uid |-> uid, finalizer |-> FALSE, deleting |-> FALSE,
     status |-> "alive", id |-> 0, ann |-> owner.ann]

\* Create fails with AlreadyExists when only the cache misses the pod.
ProcessRunnerCreation ==
    /\ Creating /\ owner.token
    /\ pod.uid = 0 /\ pods < MaxPods
    /\ pods' = pods + 1
    /\ pod' = NewPod(pods + 1)
    /\ agent' = "none" /\ agentID' = 0
    /\ UNCHANGED owner /\ RunnerUnchanged

SyncRunnerStatus ==
    /\ owner.exists /\ ~owner.deleting /\ owner.finalizer /\ cache.uid # 0
    /\ ~owner.synced
    /\ owner' = [owner EXCEPT !.synced = TRUE]
    /\ UNCHANGED <<pod, pods, agent, agentID>> /\ RunnerUnchanged

RunnerReconcile ==
    \/ AddRunnerFinalizer
    \/ ProcessRunnerDeletion
    \/ UpdateRegistrationToken
    \/ ProcessRunnerCreation
    \/ SyncRunnerStatus

-----------------------------------------------------------------------------
(* The RunnerReplicaSet controller, for one owner.  Which owner is redundant *)
(* is decided by RunnerSync; here any synced owner may be.                   *)

SyncUnchanged == UNCHANGED <<cache, pods, recVars, agent, ghVars, listed, fails>>

\* Mutant: a stop that has started counts as complete.
DeletionSafeBug ==
    cache.uid = 0 \/ "start" \in cache.ann \/ cache.deleting

\* deletionSafe == res.total, over the (at most one) pod of the owner
DeletionSafe ==
    cache.uid = 0 \/ "complete" \in cache.ann \/ cache.deleting

\* collectPodsForOwners skips owners that are being deleted
Collectable == owner.exists /\ ~owner.deleting

InTermination == "request" \in owner.ann /\ DeletionSafe

\* 2/4
MarkOwnerComplete ==
    /\ syncer = "idle" /\ Collectable
    /\ "complete" \notin owner.ann /\ InTermination
    /\ owner' = [owner EXCEPT !.ann = @ \cup {"complete"}]
    /\ UNCHANGED <<syncer, pod>> /\ SyncUnchanged

\* Mutant: 3/4 does not wait for 2/4.
DeleteCompleteOwnerBug ==
    /\ syncer = "idle" /\ Collectable
    /\ "request" \in owner.ann
    /\ owner' = [owner EXCEPT !.deleting = TRUE]
    /\ UNCHANGED <<syncer, pod>> /\ SyncUnchanged

\* 3/4
DeleteCompleteOwner ==
    /\ syncer = "idle" /\ Collectable
    /\ "complete" \in owner.ann
    /\ owner' = [owner EXCEPT !.deleting = TRUE]
    /\ UNCHANGED <<syncer, pod>> /\ SyncUnchanged

\* res.total > 0 && res.total == res.completed
DeleteCompletedOwner ==
    /\ syncer = "idle" /\ Collectable
    /\ "complete" \notin owner.ann /\ ~InTermination
    /\ cache.uid # 0 /\ Stopped(cache)
    /\ owner' = [owner EXCEPT !.deleting = TRUE]
    /\ UNCHANGED <<syncer, pod>> /\ SyncUnchanged

\* An owner that reaches currentObjects and is not annotated yet.
Redundant ==
    /\ Collectable /\ owner.synced
    /\ owner.ann = {}
    /\ ~(cache.uid # 0 /\ Stopped(cache))

\* 1/4, first the pod ...
RequestPod ==
    /\ syncer = "idle" /\ Redundant
    /\ \/ /\ cache.uid = 0 \/ "request" \in cache.ann
          /\ UNCHANGED pod
       \/ /\ cache.uid # 0 /\ "request" \notin cache.ann
          /\ pod.uid # 0
          /\ pod' = [pod EXCEPT !.ann = @ \cup {"request"}]
    /\ syncer' = "owner"
    /\ UNCHANGED owner /\ SyncUnchanged

\* Mutant: the owner is annotated with the pod's key.
RequestOwnerBug ==
    /\ syncer = "owner"
    /\ syncer' = "idle"
    /\ owner' = IF owner.exists THEN [owner EXCEPT !.ann = @ \cup {"start"}] ELSE owner
    /\ UNCHANGED pod /\ SyncUnchanged

\* ... then the owner
RequestOwner ==
    /\ syncer = "owner"
    /\ syncer' = "idle"
    /\ owner' = IF owner.exists THEN [owner EXCEPT !.ann = @ \cup {"request"}] ELSE owner
    /\ UNCHANGED pod /\ SyncUnchanged

\* The second patch of 1/4 fails, or the controller restarts between the two.
SyncFails ==
    /\ syncer = "owner" /\ fails < MaxFails
    /\ syncer' = "idle" /\ fails' = fails + 1
    /\ UNCHANGED <<owner, pod, cache, pods, recVars, agent, ghVars, listed>>

Terminate ==
    \/ MarkOwnerComplete
    \/ DeleteCompleteOwner
    \/ DeleteCompletedOwner
    \/ RequestOwner

-----------------------------------------------------------------------------
(* The runner pod controller.  Reconcile is split at each call that leaves  *)
(* the process; between two of them anybody else may act.  Patches carry no *)
(* resourceVersion and no uid: they change whatever pod has the name now,   *)
(* and the answer replaces the local copy.                                  *)

RecUnchanged == UNCHANGED <<owner, syncer, cache, pods, fails>>

\* Nothing but the calls of the pod and of GitHub's API outlives a Reconcile.
Return ==
    pc' = "idle" /\ rp' = NoPod /\ target' = 0

\* On to the call @step with the local copy @p of the pod and the runner ID @id.
Goto(step, p, id) ==
    IF step = "idle" THEN Return
    ELSE pc' = step /\ rp' = p /\ target' = id

\* The path a Reconcile is on lasts as long as the Reconcile.
Releasing == releasing' = (releasing /\ pc' # "idle")

\* annotatePodOnce on the local copy @p, then on to @next.  The patch of a pod that is
\* gone fails.
AnnotatePodOnce(p, key, next) ==
    \/ /\ key \in p.ann
       /\ Goto(next, p, 0)
       /\ UNCHANGED pod
    \/ /\ key \notin p.ann /\ pod.uid # 0
       /\ pod' = [pod EXCEPT !.ann = @ \cup {key}]
       /\ Goto(next, pod', 0)
    \/ /\ key \notin p.ann /\ pod.uid = 0
       /\ Return
       /\ UNCHANGED pod

\* Reconcile reads the pod from the informer cache.  The read and the first call that
\* follows are one step: the cache may be as old as a copy of it would be.
Reconciles == pc = "idle" /\ cache.uid # 0

\* A finalizer cannot be added to an object that is being deleted.
AddPodFinalizer ==
    /\ Reconciles /\ ~cache.deleting /\ ~cache.finalizer
    /\ pod.uid # 0 /\ ~pod.deleting /\ ~pod.finalizer
    /\ pod' = [pod EXCEPT !.finalizer = TRUE]
    /\ UNCHANGED <<recVars, agent, ghVars, listed>> /\ RecUnchanged

Live == Reconciles /\ ~cache.deleting /\ cache.finalizer

\* ensureRunnerPodRegistered: getRunner finds the runner by its name ...
FindRunner ==
    /\ Live /\ ~Stopped(cache) /\ cache.id = 0
    /\ listed # 0
    /\ Goto("annotateID", cache, listed)
    /\ UNCHANGED <<releasing, pod, agent, ghVars, listed>> /\ RecUnchanged

\* ... and its ID is patched onto the pod.  The graceful stop of a live pod is only
\* for those annotated with the request.
AnnotateRunnerID ==
    /\ pc = "annotateID"
    /\ \/ /\ pod.uid # 0
          /\ pod' = [pod EXCEPT !.id = target]
          /\ Goto(IF "request" \in pod.ann THEN "start" ELSE "idle", pod', 0)
       \/ /\ pod.uid = 0
          /\ Return
          /\ UNCHANGED pod
    /\ UNCHANGED <<releasing, agent, ghVars, listed>> /\ RecUnchanged

\* Mutant: the stop does not wait for the registration.
StartRequestedStopBug ==
    /\ \/ pc = "start" /\ AnnotatePodOnce(rp, "start", "unregister")
       \/ /\ Live
          /\ "request" \in cache.ann
          /\ AnnotatePodOnce(cache, "start", "unregister")
    /\ releasing' = FALSE
    /\ UNCHANGED <<agent, ghVars, listed>> /\ RecUnchanged

\* tickRunnerGracefulStop on the path of the unregistration request: in the Reconcile
\* that found the ID, or in a later one
StartRequestedStop ==
    /\ \/ pc = "start" /\ AnnotatePodOnce(rp, "start", "unregister")
       \/ /\ Live /\ (Stopped(cache) \/ cache.id # 0)
          /\ "request" \in cache.ann
          /\ AnnotatePodOnce(cache, "start", "unregister")
    /\ releasing' = FALSE
    /\ UNCHANGED <<agent, ghVars, listed>> /\ RecUnchanged

\* Mutant: the deletion path waits for the registration, too.
StartStopOfDeletedBug ==
    /\ Reconciles /\ cache.deleting /\ cache.finalizer /\ cache.id # 0
    /\ AnnotatePodOnce(cache, "start", "unregister")
    /\ releasing' = (pc' # "idle")
    /\ UNCHANGED <<agent, ghVars, listed>> /\ RecUnchanged

\* Mutant: the start of the stop is not recorded on the deletion path.
StartStopUnrecordedBug ==
    /\ Reconciles /\ cache.deleting /\ cache.finalizer
    /\ Goto("unregister", cache, 0) /\ UNCHANGED pod
    /\ releasing' = TRUE
    /\ UNCHANGED <<agent, ghVars, listed>> /\ RecUnchanged

\* tickRunnerGracefulStop on the path of the deletion timestamp, with no look at the
\* registration before
StartStopOfDeleted ==
    /\ Reconciles /\ cache.deleting /\ cache.finalizer
    /\ AnnotatePodOnce(cache, "start", "unregister")
    /\ releasing' = (pc' # "idle")
    /\ UNCHANGED <<agent, ghVars, listed>> /\ RecUnchanged

\* Mutant: a stopped pod is not exempt from the wait and from RemoveRunner.
EnsureRunnerUnregistrationBug ==
    LET id == IF rp.id # 0 THEN rp.id ELSE listed IN
    /\ pc = "unregister"
    /\ \/ /\ "complete" \in rp.ann \/ id = 0
          /\ Goto("complete", rp, 0)
       \/ /\ ~("complete" \in rp.ann \/ id = 0)
          /\ "wait" \in rp.ann
          /\ Return
       \/ /\ ~("complete" \in rp.ann \/ id = 0)
          /\ "wait" \notin rp.ann
          /\ Goto("remove", rp, id)
    /\ Releasing
    /\ UNCHANGED <<pod, agent, ghVars, listed>> /\ RecUnchanged

\* ensureRunnerUnregistration up to its call of RemoveRunner, in the order of its
\* branches: safe to delete, wait for the job to complete, or unregister.
EnsureRunnerUnregistration ==
    LET id == IF rp.id # 0 THEN rp.id ELSE listed IN
    /\ pc = "unregister"
    /\ \/ /\ "complete" \in rp.ann \/ id = 0 \/ Stopped(rp)
          /\ Goto("complete", rp, 0)
       \/ /\ ~("complete" \in rp.ann \/ id = 0 \/ Stopped(rp))
          /\ "wait" \in rp.ann
          /\ Return
       \/ /\ ~("complete" \in rp.ann \/ id = 0 \/ Stopped(rp))
          /\ "wait" \notin rp.ann
          /\ Goto("remove", rp, id)
    /\ Releasing
    /\ UNCHANGED <<pod, agent, ghVars, listed>> /\ RecUnchanged

RemoveUnchanged == Releasing /\ UNCHANGED <<pod, agent, agentID, job, listed>>

\* 204
RemoveRunner ==
    /\ pc = "remove" /\ reg = target /\ ~job
    /\ reg' = 0
    /\ Goto("complete", rp, 0)
    /\ RemoveUnchanged /\ RecUnchanged

\* Mutant: 422 counts as unregistered.
RemoveBusyRunnerBug ==
    /\ pc = "remove" /\ reg = target /\ job
    /\ Goto("complete", rp, 0)
    /\ UNCHANGED reg /\ RemoveUnchanged /\ RecUnchanged

\* 422: the runner is running a job.  If its container has exited nevertheless it is
\* given up, an ephemeral runner will stop by itself, a static one is retried.
RemoveBusyRunner ==
    /\ pc = "remove" /\ reg = target /\ job
    /\ \/ HasExitCode(rp) /\ Goto("complete", rp, 0)
       \/ ~HasExitCode(rp) /\ Ephemeral /\ Goto("wait", rp, 0)
       \/ ~HasExitCode(rp) /\ ~Ephemeral /\ Return
    /\ UNCHANGED reg /\ RemoveUnchanged /\ RecUnchanged

\* 404 is an error like any other: retried
RemoveUnknownRunner ==
    /\ pc = "remove" /\ reg # target
    /\ Return
    /\ UNCHANGED reg /\ RemoveUnchanged /\ RecUnchanged

\* 403 counts as unregistered
RemoveForbidden ==
    /\ "forbidden" \in Faults
    /\ pc = "remove"
    /\ Goto("complete", rp, 0)
    /\ UNCHANGED reg /\ RemoveUnchanged /\ RecUnchanged

WaitForCompletion ==
    /\ pc = "wait"
    /\ AnnotatePodOnce(rp, "wait", "idle")
    /\ Releasing
    /\ UNCHANGED <<agent, ghVars, listed>> /\ RecUnchanged

\* Mutant: on the deletion path the annotation is left out.
CompleteGracefulStopBug ==
    /\ pc = "complete"
    /\ \/ releasing /\ Goto("removeFinalizer", rp, 0) /\ UNCHANGED pod
       \/ ~releasing /\ AnnotatePodOnce(rp, "complete", "idle")
    /\ Releasing
    /\ UNCHANGED <<agent, ghVars, listed>> /\ RecUnchanged

CompleteGracefulStop ==
    /\ pc = "complete"
    /\ AnnotatePodOnce(rp, "complete", IF releasing THEN "removeFinalizer" ELSE "idle")
    /\ Releasing
    /\ UNCHANGED <<agent, ghVars, listed>> /\ RecUnchanged

\* The patch also repeats the annotations that the two patches before it made, and after
\* such a patch their resourceVersion, so that it may fail with a conflict where this
\* action succeeds; ReconcileFails is what it does then.
RemovePodFinalizer ==
    /\ pc = "removeFinalizer"
    /\ pod' = IF pod.uid # 0 THEN [pod EXCEPT !.finalizer = FALSE] ELSE pod
    /\ Return /\ Releasing
    /\ UNCHANGED <<agent, ghVars, listed>> /\ RecUnchanged

\* The pod object goes away now, whatever its container is doing.
Vanish ==
    /\ pod' = NoPod
    /\ agent' = "exited"

\* Past the deletion timeout: delete with grace period 0.
ForceDelete ==
    /\ Reconciles /\ cache.deleting /\ ~cache.finalizer
    /\ \/ /\ pod.uid # 0 /\ pod.finalizer /\ ~pod.deleting
          /\ pod' = [pod EXCEPT !.deleting = TRUE]
          /\ UNCHANGED agent
       \/ /\ pod.uid # 0 /\ ~pod.finalizer
          /\ Vanish
    /\ UNCHANGED <<recVars, ghVars, listed>> /\ RecUnchanged

\* A call fails or the controller restarts: the local state is lost, what was done stays.
ReconcileFails ==
    /\ pc # "idle" /\ fails < MaxFails
    /\ fails' = fails + 1
    /\ Return /\ Releasing
    /\ UNCHANGED <<owner, syncer, pod, cache, pods, agent, ghVars, listed>>

PodReconcile ==
    \/ AddPodFinalizer
    \/ FindRunner
    \/ AnnotateRunnerID
    \/ StartRequestedStop
    \/ StartStopOfDeleted
    \/ EnsureRunnerUnregistration
    \/ RemoveRunner
    \/ RemoveBusyRunner
    \/ RemoveUnknownRunner
    \/ RemoveForbidden
    \/ WaitForCompletion
    \/ CompleteGracefulStop
    \/ RemovePodFinalizer
    \/ ForceDelete

-----------------------------------------------------------------------------
(* Kubernetes (external) *)

K8sUnchanged == UNCHANGED <<syncer, pods, recVars, ghVars, listed, fails>>

InformerSync ==
    /\ cache # pod
    /\ cache' = pod
    /\ UNCHANGED <<owner, pod, agent>> /\ K8sUnchanged

\* The Runner disappears once its finalizer is gone ...
OwnerGone ==
    /\ owner.exists /\ owner.deleting /\ ~owner.finalizer
    /\ owner' = [owner EXCEPT !.exists = FALSE]
    /\ UNCHANGED <<pod, cache, agent>> /\ K8sUnchanged

\* ... and the garbage collector deletes its pod (4/4).
GarbageCollect ==
    /\ ~owner.exists /\ pod.uid # 0 /\ ~pod.deleting
    /\ pod' = [pod EXCEPT !.deleting = TRUE]
    /\ UNCHANGED <<owner, cache, agent>> /\ K8sUnchanged

ForeignDelete ==
    /\ "delete" \in Faults
    /\ pod.uid # 0 /\ ~pod.deleting
    /\ pod' = [pod EXCEPT !.deleting = TRUE]
    /\ UNCHANGED <<owner, cache, agent>> /\ K8sUnchanged

StartContainer ==
    /\ pod.uid # 0 /\ ~pod.deleting /\ agent = "none"
    /\ agent' = "config"
    /\ UNCHANGED <<owner, pod, cache>> /\ K8sUnchanged

\* Kubelet writes the pod's status.  A sidecar that has not started keeps the pod Pending
\* although the runner container has terminated.
ReportStatus(status) ==
    /\ pod.uid # 0
    /\ IF agent \in {"exited", "crashed"}
         THEN status = "stopped" \/ (status = "exited" /\ pod.status = "alive")
         ELSE status = "alive"
    /\ pod.status # status
    /\ pod' = [pod EXCEPT !.status = status]
    /\ UNCHANGED <<owner, cache, agent>> /\ K8sUnchanged

\* SIGTERM and, after the grace period, SIGKILL: finalizers do not hold it back.
KillContainer ==
    /\ pod.uid # 0 /\ pod.deleting /\ agent # "exited"
    /\ agent' = "exited"
    /\ UNCHANGED <<owner, pod, cache>> /\ K8sUnchanged

PodGone ==
    /\ pod.uid # 0 /\ pod.deleting /\ ~pod.finalizer /\ agent = "exited"
    /\ pod' = NoPod
    /\ UNCHANGED <<owner, cache, agent>> /\ K8sUnchanged

-----------------------------------------------------------------------------
(* GitHub and the agent (external) *)

EnvUnchanged == UNCHANGED <<owner, syncer, pod, cache, pods, recVars>>
AgentUnchanged == EnvUnchanged /\ UNCHANGED fails

\* config.sh --replace
Register ==
    /\ agent = "config"
    /\ agent' = "idle"
    /\ agentID' = pods /\ reg' = pods /\ job' = FALSE
    /\ UNCHANGED listed /\ AgentUnchanged

TakeJob ==
    /\ agent = "idle" /\ reg = agentID /\ ~job
    /\ agent' = "busy" /\ job' = TRUE
    /\ UNCHANGED <<agentID, reg, listed>> /\ AgentUnchanged

\* GitHub unregisters an ephemeral runner with the end of its job.
FinishJob ==
    /\ agent = "busy"
    /\ job' = FALSE
    /\ agent' = IF Ephemeral THEN "exited" ELSE "idle"
    /\ reg' = IF Ephemeral THEN 0 ELSE reg
    /\ UNCHANGED <<agentID, listed>> /\ AgentUnchanged

\* An agent whose registration is gone exits.
NoticeRemoval ==
    /\ agent = "idle" /\ reg # agentID
    /\ agent' = "exited"
    /\ UNCHANGED <<ghVars, listed>> /\ AgentUnchanged

Crash ==
    /\ "crash" \in Faults
    /\ agent \in {"config", "idle", "busy"} /\ fails < MaxFails
    /\ agent' = "crashed" /\ fails' = fails + 1
    /\ UNCHANGED <<ghVars, listed>> /\ EnvUnchanged

\* restartPolicy: OnFailure; kubelet restarts nothing in a pod that is being deleted
Restart ==
    /\ agent = "crashed" /\ ~pod.deleting
    /\ agent' = IF agentID = 0 THEN "config" ELSE "idle"
    /\ UNCHANGED <<ghVars, listed>> /\ AgentUnchanged

\* GitHub gives up on a job whose runner has gone.
AbandonJob ==
    /\ job /\ agent # "busy"
    /\ job' = FALSE
    /\ UNCHANGED <<agent, agentID, reg, listed>> /\ AgentUnchanged

\* ListRunners is answered from an HTTP cache that expires.
RefreshList ==
    /\ listed # reg
    /\ listed' = reg
    /\ UNCHANGED <<agent, ghVars>> /\ AgentUnchanged

-----------------------------------------------------------------------------

Kubernetes ==
    \/ InformerSync
    \/ OwnerGone
    \/ GarbageCollect
    \/ ForeignDelete
    \/ StartContainer
    \/ \E status \in {"alive", "exited", "stopped"} : ReportStatus(status)
    \/ KillContainer
    \/ PodGone

GitHub ==
    \/ Register
    \/ TakeJob
    \/ FinishJob
    \/ NoticeRemoval
    \/ Crash
    \/ Restart
    \/ AbandonJob
    \/ RefreshList

Next ==
    \/ RunnerReconcile
    \/ RequestPod
    \/ Terminate
    \/ SyncFails
    \/ PodReconcile
    \/ ReconcileFails
    \/ Kubernetes
    \/ GitHub

(***************************************************************************)
(* Work queues retry every key until it succeeds, so each controller keeps *)
(* running; so do the informer, the garbage collector and kubelet.  A job  *)
(* ends and config.sh succeeds, the latter unless "noregister".  Nothing   *)
(* is assumed of RequestPod, TakeJob, faults and failures.                 *)
(***************************************************************************)
Fairness ==
    /\ WF_vars(RunnerReconcile)
    /\ WF_vars(Terminate)
    /\ WF_vars(PodReconcile)
    /\ WF_vars(InformerSync)
    /\ WF_vars(OwnerGone)
    /\ WF_vars(GarbageCollect)
    /\ WF_vars(StartContainer)
    /\ WF_vars(ReportStatus("stopped"))
    /\ WF_vars(KillContainer)
    /\ WF_vars(PodGone)
    /\ "noregister" \notin Faults => WF_vars(Register)
    /\ WF_vars(FinishJob)
    /\ WF_vars(NoticeRemoval)
    /\ WF_vars(RefreshList)

Safety == Init /\ [][Next]_vars
Spec == Safety /\ Fairness

\* The part of Fairness that the deletion of a pod needs: nothing of GitHub, of the agent
\* or of the other controllers.
DeletionFairness ==
    /\ WF_vars(PodReconcile)
    /\ WF_vars(InformerSync)
    /\ WF_vars(ReportStatus("stopped"))
    /\ WF_vars(KillContainer)
    /\ WF_vars(PodGone)

DeletionSpec == Safety /\ DeletionFairness

-----------------------------------------------------------------------------
(* Properties *)

\* The runner can neither be running a job nor be given one.
Drained == reg = 0 /\ ~job /\ agent \in {"idle", "exited"}

\* A job ends because the agent finishes it (or dies by itself), never because its pod is
\* terminated under it (docs/releasenotes/0.22.md: "impossible to be in the middle of
\* running a workflow job when a runner pod is being terminated").
NoJobInterrupted ==
    [][agent = "busy" /\ agent' = "exited" => ~job']_vars

\* A pod that is alive and marked with unregistration-complete is not registered and
\* will not come back (ensureRunnerUnregistration, "it won't get registered again").
MarkedPodStaysUnregistered ==
    pod.uid # 0 /\ "complete" \in pod.ann /\ ~pod.deleting => Drained

\* Unregistration of a live pod starts only after its own agent has registered (the
\* comment of AnnotationKeyUnregistrationRequestTimestamp calls this crucial).
RegistrationFirst ==
    pod.uid # 0 /\ "start" \in pod.ann /\ ~pod.deleting => agentID # 0

\* A pod that is marked unregistration-complete is one whose unregistration was started
\* (constants.go:18 "added onto the pod once the previously started unregistration process
\* has been completed"), on whatever copies the patches were based.
CompleteFollowsStart ==
    pod.uid # 0 /\ "complete" \in pod.ann => "start" \in pod.ann

\* Once the Runner and its pod are gone GitHub has no registration left under the name.
NoLeakedRegistration ==
    ~owner.exists /\ pod.uid = 0 => reg = 0

\* The finalizer of a pod is taken off only when the graceful stop of that pod is complete.
ReleasedOnlyWhenComplete ==
    [][pod.finalizer /\ pod'.uid = pod.uid /\ ~pod'.finalizer => "complete" \in pod.ann]_vars

\* A requested stop ends with the Runner and its pod removed.
StopCompletes ==
    ("request" \in owner.ann) ~> (~owner.exists /\ pod.uid = 0)

\* A pod that is being deleted, by whomever, is eventually gone: the graceful stop of the
\* runner pod controller never holds its finalizer for ever.
DeletionCompletes ==
    \A u \in 1..MaxPods : (pod.uid = u /\ pod.deleting) ~> (pod.uid # u)
=============================================================================
