---------------------- MODULE RunnerGracefulStopProofs ----------------------
(* Proofs about RunnerGracefulStop. *)
EXTENDS RunnerGracefulStop, TLAPS

-----------------------------------------------------------------------------
(* Type correctness *)

USE ConstantsAssumption DEF FaultKinds

LEMMA NoPodType == NoPod \in PodRecord
  BY DEF NoPod, PodRecord, PodKeys, OwnerKeys

LEMMA NewPodType ==
  ASSUME NEW u \in 0..MaxPods, owner \in OwnerRecord
  PROVE  NewPod(u) \in PodRecord
<1>1. owner.ann \in SUBSET PodKeys
  BY DEF OwnerRecord, PodKeys, OwnerKeys
<1>2. 0 \in 0..MaxPods
  OBVIOUS
<1> QED
  BY <1>1, <1>2 DEF NewPod, PodRecord

\* Every reachable state is well typed, for every number of pods and failures and
\* whatever the environment may do.
LEMMA TypeInit == Init => TypeOK
<1> SUFFICES ASSUME Init PROVE TypeOK
  OBVIOUS
<1>1. 0 \in 0..MaxPods /\ 0 \in 0..MaxFails
  OBVIOUS
<1>2. owner \in OwnerRecord
  BY DEF Init, OwnerRecord, OwnerKeys
<1> QED
  BY NoPodType, <1>1, <1>2 DEF Init, TypeOK, Steps

LEMMA TypeRunnerReconcile == TypeOK /\ RunnerReconcile => TypeOK'
<1> SUFFICES ASSUME TypeOK, RunnerReconcile PROVE TypeOK'
  OBVIOUS
<1> USE DEF TypeOK, RunnerUnchanged, recVars, OwnerRecord, OwnerKeys
<1>1. CASE AddRunnerFinalizer
  BY <1>1 DEF AddRunnerFinalizer
<1>2. CASE ProcessRunnerDeletion
  BY <1>2 DEF ProcessRunnerDeletion
<1>3. CASE UpdateRegistrationToken
  BY <1>3 DEF UpdateRegistrationToken
<1>4. CASE ProcessRunnerCreation
  <2>1. pods + 1 \in 0..MaxPods /\ pods' \in 0..MaxPods /\ agentID' \in 0..MaxPods
    BY <1>4 DEF ProcessRunnerCreation
  <2>2. pod' \in PodRecord
    BY <1>4, <2>1, NewPodType DEF ProcessRunnerCreation
  <2> QED
    BY <1>4, <2>1, <2>2 DEF ProcessRunnerCreation
<1>5. CASE SyncRunnerStatus
  BY <1>5 DEF SyncRunnerStatus
<1> QED
  BY <1>1, <1>2, <1>3, <1>4, <1>5 DEF RunnerReconcile

\* What a patch does to a pod keeps it a pod.
LEMMA PatchType ==
  ASSUME NEW p \in PodRecord
  PROVE  /\ \A b \in BOOLEAN : [p EXCEPT !.finalizer = b] \in PodRecord
         /\ \A b \in BOOLEAN : [p EXCEPT !.deleting = b] \in PodRecord
         /\ \A i \in 0..MaxPods : [p EXCEPT !.id = i] \in PodRecord
         /\ \A k \in PodKeys : [p EXCEPT !.ann = @ \cup {k}] \in PodRecord
         /\ \A st \in {"alive", "exited", "stopped"} : [p EXCEPT !.status = st] \in PodRecord
  BY DEF PodRecord

LEMMA GotoType ==
  ASSUME NEW step \in Steps, NEW p \in PodRecord, NEW id \in 0..MaxPods,
         Goto(step, p, id) \/ Return
  PROVE  pc' \in Steps /\ rp' \in PodRecord /\ target' \in 0..MaxPods
<1>1. 0 \in 0..MaxPods /\ "idle" \in Steps
  BY DEF Steps
<1> QED
  BY <1>1, NoPodType DEF Goto, Return

LEMMA AnnotateType ==
  ASSUME TypeOK, NEW p \in PodRecord, NEW key \in PodKeys, NEW next \in Steps,
         AnnotatePodOnce(p, key, next)
  PROVE  pod' \in PodRecord /\ pc' \in Steps /\ rp' \in PodRecord /\ target' \in 0..MaxPods
<1>1. 0 \in 0..MaxPods
  OBVIOUS
<1>2. pod \in PodRecord /\ [pod EXCEPT !.ann = @ \cup {key}] \in PodRecord
  BY PatchType DEF TypeOK
<1>3. CASE key \in p.ann
  BY <1>1, <1>2, <1>3, GotoType DEF AnnotatePodOnce
<1>4. CASE key \notin p.ann /\ pod.uid # 0
  BY <1>1, <1>2, <1>4, GotoType DEF AnnotatePodOnce
<1>5. CASE key \notin p.ann /\ pod.uid = 0
  BY <1>1, <1>2, <1>5, GotoType DEF AnnotatePodOnce
<1> QED
  BY <1>3, <1>4, <1>5 DEF AnnotatePodOnce

LEMMA TypeSync == TypeOK /\ (RequestPod \/ Terminate \/ SyncFails) => TypeOK'
<1> SUFFICES ASSUME TypeOK, RequestPod \/ Terminate \/ SyncFails PROVE TypeOK'
  OBVIOUS
<1> USE DEF TypeOK, SyncUnchanged, recVars, ghVars
<1>1. CASE RequestPod
  <2>1. [pod EXCEPT !.ann = @ \cup {"request"}] \in PodRecord
    BY PatchType DEF PodKeys, OwnerKeys
  <2>2. pod' \in PodRecord
    BY <1>1, <2>1 DEF RequestPod
  <2> QED
    BY <1>1, <2>2 DEF RequestPod
<1>2. CASE MarkOwnerComplete
  BY <1>2 DEF MarkOwnerComplete, OwnerRecord, OwnerKeys
<1>3. CASE DeleteCompleteOwner
  BY <1>3 DEF DeleteCompleteOwner, OwnerRecord
<1>4. CASE DeleteCompletedOwner
  BY <1>4 DEF DeleteCompletedOwner, OwnerRecord
<1>5. CASE RequestOwner
  BY <1>5 DEF RequestOwner, OwnerRecord, OwnerKeys
<1>6. CASE SyncFails
  BY <1>6 DEF SyncFails
<1> QED
  BY <1>1, <1>2, <1>3, <1>4, <1>5, <1>6 DEF Terminate

LEMMA TypePodReconcile == TypeOK /\ (PodReconcile \/ ReconcileFails) => TypeOK'
<1> SUFFICES ASSUME TypeOK, PodReconcile \/ ReconcileFails PROVE TypeOK'
  OBVIOUS
<1> USE DEF RecUnchanged, recVars, ghVars
<1>0. /\ 0 \in 0..MaxPods
      /\ {"idle", "annotateID", "start", "unregister", "remove", "wait", "complete",
          "removeFinalizer"} = Steps
      /\ {"start", "wait", "complete"} \subseteq PodKeys
  BY DEF Steps, PodKeys, OwnerKeys
<1>1. CASE AddPodFinalizer
  BY <1>1, PatchType DEF AddPodFinalizer, TypeOK
<1>2. CASE FindRunner
  BY <1>0, <1>2, GotoType DEF FindRunner, TypeOK
<1>3. CASE AnnotateRunnerID
  <2>1. [pod EXCEPT !.id = target] \in PodRecord
    BY PatchType DEF TypeOK
  <2>2. pod' \in PodRecord /\ pc' \in Steps /\ rp' \in PodRecord /\ target' \in 0..MaxPods
    BY <1>0, <1>3, <2>1, GotoType DEF AnnotateRunnerID, TypeOK
  <2> QED
    BY <1>3, <2>2 DEF AnnotateRunnerID, TypeOK
<1>4. CASE StartRequestedStop
  <2>1. pod' \in PodRecord /\ pc' \in Steps /\ rp' \in PodRecord /\ target' \in 0..MaxPods
    BY <1>0, <1>4, AnnotateType DEF StartRequestedStop, TypeOK
  <2> QED
    BY <1>4, <2>1 DEF StartRequestedStop, TypeOK
<1>5. CASE StartStopOfDeleted
  <2>1. pod' \in PodRecord /\ pc' \in Steps /\ rp' \in PodRecord /\ target' \in 0..MaxPods
    BY <1>0, <1>5, AnnotateType DEF StartStopOfDeleted, TypeOK
  <2> QED
    BY <1>5, <2>1 DEF StartStopOfDeleted, TypeOK
<1>6. CASE EnsureRunnerUnregistration
  <2> DEFINE id == IF rp.id # 0 THEN rp.id ELSE listed
  <2>1. id \in 0..MaxPods
    BY DEF TypeOK, PodRecord
  <2>2. /\ Goto("complete", rp, 0) \/ Return \/ Goto("remove", rp, id)
        /\ Releasing
        /\ UNCHANGED <<pod, agent, ghVars, listed>> /\ RecUnchanged
    BY <1>6 DEF EnsureRunnerUnregistration
  <2>3. pc' \in Steps /\ rp' \in PodRecord /\ target' \in 0..MaxPods
    BY <1>0, <2>1, <2>2, GotoType DEF TypeOK
  <2> QED
    BY <2>2, <2>3 DEF Releasing, TypeOK
<1>7. CASE RemoveRunner
  BY <1>0, <1>7, GotoType DEF RemoveRunner, RemoveUnchanged, Releasing, TypeOK
<1>8. CASE RemoveBusyRunner
  BY <1>0, <1>8, GotoType DEF RemoveBusyRunner, RemoveUnchanged, Releasing, TypeOK
<1>9. CASE RemoveUnknownRunner
  BY <1>0, <1>9, GotoType DEF RemoveUnknownRunner, RemoveUnchanged, Releasing, TypeOK
<1>10. CASE RemoveForbidden
  BY <1>0, <1>10, GotoType DEF RemoveForbidden, RemoveUnchanged, Releasing, TypeOK
<1>11. CASE WaitForCompletion
  BY <1>0, <1>11, AnnotateType DEF WaitForCompletion, Releasing, TypeOK
<1>12. CASE CompleteGracefulStop
  BY <1>0, <1>12, AnnotateType DEF CompleteGracefulStop, Releasing, TypeOK
<1>13. CASE RemovePodFinalizer
  BY <1>0, <1>13, PatchType, GotoType DEF RemovePodFinalizer, Releasing, TypeOK
<1>14. CASE ForceDelete
  BY <1>14, PatchType, NoPodType DEF ForceDelete, Vanish, TypeOK
<1>15. CASE ReconcileFails
  BY <1>0, <1>15, GotoType DEF ReconcileFails, Releasing, TypeOK
<1> QED
  BY <1>1, <1>2, <1>3, <1>4, <1>5, <1>6, <1>7, <1>8, <1>9, <1>10, <1>11, <1>12, <1>13,
     <1>14, <1>15 DEF PodReconcile

LEMMA TypeEnvironment == TypeOK /\ (Kubernetes \/ GitHub) => TypeOK'
<1> SUFFICES ASSUME TypeOK, Kubernetes \/ GitHub PROVE TypeOK'
  OBVIOUS
<1> USE DEF TypeOK, K8sUnchanged, EnvUnchanged, AgentUnchanged, recVars, ghVars
<1>1. CASE InformerSync
  BY <1>1 DEF InformerSync
<1>2. CASE OwnerGone
  BY <1>2 DEF OwnerGone, OwnerRecord
<1>3. CASE GarbageCollect \/ ForeignDelete
  BY <1>3, PatchType DEF GarbageCollect, ForeignDelete
<1>4. CASE StartContainer \/ KillContainer
  BY <1>4 DEF StartContainer, KillContainer
<1>5. ASSUME NEW status \in {"alive", "exited", "stopped"}, ReportStatus(status)
      PROVE  TypeOK'
  BY <1>5, PatchType DEF ReportStatus
<1>6. CASE PodGone
  BY <1>6, NoPodType DEF PodGone
<1>7. CASE Register
  <2>1. agentID' \in 0..MaxPods /\ reg' \in 0..MaxPods
    BY <1>7 DEF Register
  <2> QED
    BY <1>7, <2>1 DEF Register
<1>8. CASE TakeJob \/ NoticeRemoval \/ Restart \/ AbandonJob \/ RefreshList
  BY <1>8 DEF TakeJob, NoticeRemoval, Restart, AbandonJob, RefreshList
<1>9. CASE FinishJob
  <2>1. 0 \in 0..MaxPods
    OBVIOUS
  <2> QED
    BY <1>9, <2>1 DEF FinishJob
<1>10. CASE Crash
  <2>1. fails' \in 0..MaxFails
    BY <1>10 DEF Crash
  <2> QED
    BY <1>10, <2>1 DEF Crash
<1> QED
  BY <1>1, <1>2, <1>3, <1>4, <1>5, <1>6, <1>7, <1>8, <1>9, <1>10 DEF Kubernetes, GitHub

LEMMA TypeNext == TypeOK /\ [Next]_vars => TypeOK'
<1>1. TypeOK /\ UNCHANGED vars => TypeOK'
  BY DEF TypeOK, vars
<1> QED
  BY <1>1, TypeRunnerReconcile, TypeSync, TypePodReconcile, TypeEnvironment DEF Next

\* Every variable keeps its type in every behaviour of the controllers, of Kubernetes
\* and of GitHub, for every bound and every set of faults.
THEOREM TypeCorrect == Safety => []TypeOK
  BY TypeInit, TypeNext, PTL DEF Safety

-----------------------------------------------------------------------------
(* The finalizer.  Neither a stale cache nor a pod that was replaced under the *)
(* same name makes the controller release a pod whose stop is not complete.    *)

\* What the cache and the local copy know of a pod with a finalizer is true of it: the
\* finalizer is put on only by the controller itself, and never within a Reconcile
\* that is on its way to take it off.
ReleaseInv ==
    /\ pod.finalizer /\ cache.finalizer => cache.ann \subseteq pod.ann
    /\ pc # "idle" /\ releasing /\ pod.finalizer => rp.ann \subseteq pod.ann
    /\ pc = "removeFinalizer" => releasing /\ "complete" \in rp.ann
    /\ pod.uid = 0 => ~pod.finalizer


LEMMA ReleaseInit == Init => ReleaseInv
  BY DEF Init, ReleaseInv, NoPod

LEMMA ReleaseNext == TypeOK /\ ReleaseInv /\ [Next]_vars => ReleaseInv'
<1> SUFFICES ASSUME TypeOK, ReleaseInv, [Next]_vars PROVE ReleaseInv'
  OBVIOUS
<1> USE DEF ReleaseInv, TypeOK, PodRecord, recVars, ghVars
<1>1. CASE RunnerReconcile
  BY <1>1 DEF RunnerReconcile, AddRunnerFinalizer, ProcessRunnerDeletion, UpdateRegistrationToken,
     ProcessRunnerCreation, SyncRunnerStatus, RunnerUnchanged, NewPod
<1>2. CASE RequestPod
  BY <1>2 DEF RequestPod, SyncUnchanged
<1>3. CASE Terminate \/ SyncFails
  BY <1>3 DEF Terminate, MarkOwnerComplete, DeleteCompleteOwner, DeleteCompletedOwner,
     RequestOwner, SyncFails, SyncUnchanged
<1>4. CASE PodReconcile \/ ReconcileFails
  <2> USE DEF RecUnchanged, Goto, Return, Releasing, AnnotatePodOnce, RemoveUnchanged, NoPod
  <2>1. CASE AddPodFinalizer
    BY <2>1 DEF AddPodFinalizer, Reconciles
  <2>2. CASE FindRunner
    BY <2>2 DEF FindRunner, Live, Reconciles
  <2>3. CASE AnnotateRunnerID
    BY <2>3 DEF AnnotateRunnerID
  <2>4. CASE StartRequestedStop
    BY <2>4 DEF StartRequestedStop, Live, Reconciles
  <2>5. CASE StartStopOfDeleted
    BY <2>5 DEF StartStopOfDeleted, Reconciles
  <2>6. CASE EnsureRunnerUnregistration
    BY <2>6 DEF EnsureRunnerUnregistration
  <2>7. CASE RemoveRunner
    BY <2>7 DEF RemoveRunner
  <2>8. CASE RemoveBusyRunner
    BY <2>8 DEF RemoveBusyRunner
  <2>9. CASE RemoveUnknownRunner
    BY <2>9 DEF RemoveUnknownRunner
  <2>10. CASE RemoveForbidden
    BY <2>10 DEF RemoveForbidden
  <2>11. CASE WaitForCompletion
    BY <2>11 DEF WaitForCompletion
  <2>12. CASE CompleteGracefulStop
    BY <2>12 DEF CompleteGracefulStop
  <2>13. CASE RemovePodFinalizer
    BY <2>13 DEF RemovePodFinalizer
  <2>14. CASE ForceDelete
    BY <2>14 DEF ForceDelete, Vanish, Reconciles
  <2>15. CASE ReconcileFails
    BY <2>15 DEF ReconcileFails
  <2> QED
    BY <1>4, <2>1, <2>2, <2>3, <2>4, <2>5, <2>6, <2>7, <2>8, <2>9, <2>10, <2>11, <2>12, <2>13, <2>14, <2>15 DEF PodReconcile
<1>5. CASE Kubernetes
  BY <1>5 DEF Kubernetes, InformerSync, OwnerGone, GarbageCollect, ForeignDelete, StartContainer,
     ReportStatus, KillContainer, PodGone, K8sUnchanged, NoPod
<1>6. CASE GitHub \/ UNCHANGED vars
  BY <1>6 DEF GitHub, Register, TakeJob, FinishJob, NoticeRemoval, Crash, Restart, AbandonJob,
     RefreshList, AgentUnchanged, EnvUnchanged, vars
<1> QED
  BY <1>1, <1>2, <1>3, <1>4, <1>5, <1>6 DEF Next

LEMMA ReleaseStep ==
  TypeOK /\ ReleaseInv /\ [Next]_vars
    => (pod.finalizer /\ pod'.uid = pod.uid /\ ~pod'.finalizer => "complete" \in pod.ann)
<1> SUFFICES ASSUME TypeOK, ReleaseInv, [Next]_vars,
                    pod.finalizer, pod'.uid = pod.uid, ~pod'.finalizer
             PROVE  "complete" \in pod.ann
  OBVIOUS
<1> USE DEF TypeOK, PodRecord
<1>1. CASE RemovePodFinalizer
  BY <1>1 DEF RemovePodFinalizer, ReleaseInv
<1>2. CASE RunnerReconcile
  BY <1>2 DEF RunnerReconcile, AddRunnerFinalizer, ProcessRunnerDeletion, UpdateRegistrationToken,
     ProcessRunnerCreation, SyncRunnerStatus, NewPod
<1>3. CASE RequestPod \/ Terminate \/ SyncFails
  BY <1>3 DEF RequestPod, Terminate, MarkOwnerComplete, DeleteCompleteOwner, DeleteCompletedOwner,
     RequestOwner, SyncFails
<1>4. CASE PodReconcile /\ ~RemovePodFinalizer
  BY <1>4 DEF PodReconcile, AddPodFinalizer, FindRunner, AnnotateRunnerID, StartRequestedStop,
     StartStopOfDeleted, EnsureRunnerUnregistration, RemoveRunner, RemoveBusyRunner,
     RemoveUnknownRunner, RemoveForbidden, WaitForCompletion, CompleteGracefulStop, ForceDelete,
     Vanish, NoPod, RemoveUnchanged, AnnotatePodOnce
<1>5. CASE Kubernetes
  BY <1>5 DEF Kubernetes, InformerSync, OwnerGone, GarbageCollect, ForeignDelete, StartContainer,
     ReportStatus, KillContainer, PodGone, NoPod
<1>6. CASE ReconcileFails \/ GitHub \/ UNCHANGED vars
  BY <1>6 DEF ReconcileFails, GitHub, Register, TakeJob, FinishJob, NoticeRemoval, Crash, Restart,
     AbandonJob, RefreshList, AgentUnchanged, EnvUnchanged, vars
<1> QED
  BY <1>1, <1>2, <1>3, <1>4, <1>5, <1>6 DEF Next

\* The runner pod controller takes its finalizer off a pod only when that very pod is
\* annotated with unregistration-complete, whatever its caches hold, whoever deletes or
\* recreates pods, and however often it fails half-way.
THEOREM FinalizerHeld == Safety => ReleasedOnlyWhenComplete
<1>1. Safety => [](TypeOK /\ ReleaseInv)
  BY TypeInit, TypeNext, ReleaseInit, ReleaseNext, PTL DEF Safety
<1>2. TypeOK /\ ReleaseInv /\ [Next]_vars =>
        [pod.finalizer /\ pod'.uid = pod.uid /\ ~pod'.finalizer => "complete" \in pod.ann]_vars
  BY ReleaseStep
<1> QED
  BY <1>1, <1>2, PTL DEF Safety, ReleasedOnlyWhenComplete

-----------------------------------------------------------------------------
(* As long as nobody but ARC deletes the pod there is only one, and what a     *)
(* copy of it says stays true of it.  Crashes, refusals and API errors remain. *)

Undisturbed == "delete" \notin Faults
Steady == "crash" \notin Faults

\* What a copy of the pod says, the pod says, too.
MarkInv(p) ==
    /\ p.deleting => ~owner.exists
    /\ p.deleting /\ pod.uid # 0 => pod.deleting
    /\ "complete" \in p.ann => "start" \in p.ann
    /\ "start" \in p.ann /\ pod.uid # 0 => "start" \in pod.ann

\* The only pod is the first: the Runner is annotated after that pod was created, and does
\* not outlive it.
OnePodInv ==
    /\ pods = 0 => pod = NoPod /\ cache = NoPod /\ rp = NoPod /\ agent = "none"
    /\ pods # 0 /\ pod.uid = 0 => ~owner.exists
    /\ owner.ann # {} \/ syncer = "owner" => owner.synced
    /\ owner.synced => pods # 0
    /\ pc \in {"unregister", "remove", "wait", "complete", "removeFinalizer"} => "start" \in rp.ann

UndisturbedInv == MarkInv(pod) /\ MarkInv(cache) /\ MarkInv(rp) /\ OnePodInv

\* Without crashes a container ends by itself only after the agent has registered.
KnownInv(p) ==
    /\ ~p.deleting /\ ("start" \in p.ann \/ p.status # "alive") => agentID # 0
    /\ p.id # 0 => agentID # 0

RegisteredInv ==
    /\ KnownInv(pod) /\ KnownInv(cache) /\ KnownInv(rp)
    /\ agent # "crashed"
    /\ agent \in {"idle", "busy"} => agentID # 0
    /\ agent = "exited" /\ pod.uid # 0 /\ ~pod.deleting => agentID # 0
    /\ reg # 0 \/ listed # 0 => agentID # 0
    /\ agentID # 0 => pods # 0
    /\ pc = "annotateID" => target # 0 /\ agentID # 0
    /\ pc = "start" => rp.id # 0

LEMMA UndisturbedInit == Init => UndisturbedInv
  BY DEF Init, UndisturbedInv, MarkInv, OnePodInv, NoPod

LEMMA UndisturbedRunnerReconcile ==
  Undisturbed /\ TypeOK /\ UndisturbedInv /\ RunnerReconcile => UndisturbedInv'
<1> SUFFICES ASSUME Undisturbed, TypeOK, UndisturbedInv, RunnerReconcile
             PROVE  UndisturbedInv'
  OBVIOUS
<1> USE DEF Undisturbed, TypeOK, PodRecord, OwnerRecord, UndisturbedInv, MarkInv, OnePodInv, NoPod,
            recVars, ghVars,
            RunnerUnchanged, Creating, NewPod
<1>1. CASE AddRunnerFinalizer
  BY <1>1 DEF AddRunnerFinalizer
<1>2. CASE ProcessRunnerDeletion
  BY <1>2 DEF ProcessRunnerDeletion
<1>3. CASE UpdateRegistrationToken
  BY <1>3 DEF UpdateRegistrationToken
<1>4. CASE ProcessRunnerCreation
  BY <1>4 DEF ProcessRunnerCreation
<1>5. CASE SyncRunnerStatus
  BY <1>5 DEF SyncRunnerStatus
<1> QED
  BY <1>1, <1>2, <1>3, <1>4, <1>5 DEF RunnerReconcile

LEMMA UndisturbedSync ==
  Undisturbed /\ TypeOK /\ UndisturbedInv /\ (RequestPod \/ Terminate \/ SyncFails) => UndisturbedInv'
<1> SUFFICES ASSUME Undisturbed, TypeOK, UndisturbedInv, RequestPod \/ Terminate \/ SyncFails
             PROVE  UndisturbedInv'
  OBVIOUS
<1> USE DEF Undisturbed, TypeOK, PodRecord, OwnerRecord, UndisturbedInv, MarkInv, OnePodInv, NoPod,
            recVars, ghVars,
            SyncUnchanged, Collectable, Redundant, InTermination
<1>1. CASE RequestPod
  BY <1>1 DEF RequestPod
<1>2. CASE MarkOwnerComplete
  BY <1>2 DEF MarkOwnerComplete
<1>3. CASE DeleteCompleteOwner
  BY <1>3 DEF DeleteCompleteOwner
<1>4. CASE DeleteCompletedOwner
  BY <1>4 DEF DeleteCompletedOwner
<1>5. CASE RequestOwner
  BY <1>5 DEF RequestOwner
<1>6. CASE SyncFails
  BY <1>6 DEF SyncFails
<1> QED
  BY <1>1, <1>2, <1>3, <1>4, <1>5, <1>6 DEF Terminate

LEMMA UndisturbedPodReconcile ==
  Undisturbed /\ TypeOK /\ UndisturbedInv /\ (PodReconcile \/ ReconcileFails) => UndisturbedInv'
<1> SUFFICES ASSUME Undisturbed, TypeOK, UndisturbedInv, PodReconcile \/ ReconcileFails
             PROVE  UndisturbedInv'
  OBVIOUS
<1> USE DEF Undisturbed, TypeOK, PodRecord, OwnerRecord, UndisturbedInv, MarkInv, OnePodInv, NoPod,
            recVars, ghVars,
            RecUnchanged, Goto, Return, AnnotatePodOnce,
            RemoveUnchanged, Vanish, Reconciles, Live, Stopped
<1>1. CASE AddPodFinalizer
  BY <1>1 DEF AddPodFinalizer
<1>2. CASE FindRunner
  BY <1>2 DEF FindRunner
<1>3. CASE AnnotateRunnerID
  BY <1>3 DEF AnnotateRunnerID
<1>4. CASE StartRequestedStop
  BY <1>4 DEF StartRequestedStop
<1>5. CASE StartStopOfDeleted
  BY <1>5 DEF StartStopOfDeleted
<1>6. CASE EnsureRunnerUnregistration
  BY <1>6 DEF EnsureRunnerUnregistration
<1>7. CASE RemoveRunner
  BY <1>7 DEF RemoveRunner
<1>8. CASE RemoveBusyRunner
  BY <1>8 DEF RemoveBusyRunner
<1>9. CASE RemoveUnknownRunner
  BY <1>9 DEF RemoveUnknownRunner
<1>10. CASE RemoveForbidden
  BY <1>10 DEF RemoveForbidden
<1>11. CASE WaitForCompletion
  BY <1>11 DEF WaitForCompletion
<1>12. CASE CompleteGracefulStop
  BY <1>12 DEF CompleteGracefulStop
<1>13. CASE RemovePodFinalizer
  BY <1>13 DEF RemovePodFinalizer
<1>14. CASE ForceDelete
  BY <1>14 DEF ForceDelete
<1>15. CASE ReconcileFails
  BY <1>15 DEF ReconcileFails
<1> QED
  BY <1>1, <1>2, <1>3, <1>4, <1>5, <1>6, <1>7, <1>8, <1>9, <1>10, <1>11, <1>12,
     <1>13, <1>14, <1>15 DEF PodReconcile

LEMMA UndisturbedKubernetes ==
  Undisturbed /\ TypeOK /\ UndisturbedInv /\ Kubernetes => UndisturbedInv'
<1> SUFFICES ASSUME Undisturbed, TypeOK, UndisturbedInv, Kubernetes
             PROVE  UndisturbedInv'
  OBVIOUS
<1> USE DEF Undisturbed, TypeOK, PodRecord, OwnerRecord, UndisturbedInv, MarkInv, OnePodInv, NoPod,
            recVars, ghVars,
            K8sUnchanged
<1>1. CASE InformerSync
  BY <1>1 DEF InformerSync
<1>2. CASE OwnerGone
  BY <1>2 DEF OwnerGone
<1>3. CASE GarbageCollect
  BY <1>3 DEF GarbageCollect
<1>4. CASE ForeignDelete
  BY <1>4 DEF ForeignDelete
<1>5. CASE StartContainer
  BY <1>5 DEF StartContainer
<1>6. CASE KillContainer
  BY <1>6 DEF KillContainer
<1>7. CASE PodGone
  BY <1>7 DEF PodGone
<1>8. ASSUME NEW status \in {"alive", "exited", "stopped"}, ReportStatus(status)
      PROVE  UndisturbedInv'
  BY <1>8 DEF ReportStatus
<1> QED
  BY <1>1, <1>2, <1>3, <1>4, <1>5, <1>6, <1>7, <1>8 DEF Kubernetes

LEMMA UndisturbedGitHub ==
  Undisturbed /\ TypeOK /\ UndisturbedInv /\ GitHub => UndisturbedInv'
<1> SUFFICES ASSUME Undisturbed, TypeOK, UndisturbedInv, GitHub
             PROVE  UndisturbedInv'
  OBVIOUS
<1> USE DEF Undisturbed, TypeOK, PodRecord, OwnerRecord, UndisturbedInv, MarkInv, OnePodInv, NoPod,
            recVars, ghVars,
            AgentUnchanged, EnvUnchanged
<1>1. CASE Register
  BY <1>1 DEF Register
<1>2. CASE TakeJob
  BY <1>2 DEF TakeJob
<1>3. CASE FinishJob
  BY <1>3 DEF FinishJob
<1>4. CASE NoticeRemoval
  BY <1>4 DEF NoticeRemoval
<1>5. CASE Crash
  BY <1>5 DEF Crash
<1>6. CASE Restart
  BY <1>6 DEF Restart
<1>7. CASE AbandonJob
  BY <1>7 DEF AbandonJob
<1>8. CASE RefreshList
  BY <1>8 DEF RefreshList
<1> QED
  BY <1>1, <1>2, <1>3, <1>4, <1>5, <1>6, <1>7, <1>8 DEF GitHub

LEMMA UndisturbedInvariant == Undisturbed /\ Safety => [](TypeOK /\ UndisturbedInv)
<1>1. UndisturbedInv /\ UNCHANGED vars => UndisturbedInv'
  BY DEF UndisturbedInv, MarkInv, OnePodInv, NoPod, vars
<1>2. Init => TypeOK /\ UndisturbedInv
  BY TypeInit, UndisturbedInit
<1>3. CASE Undisturbed
  <2>1. TypeOK /\ UndisturbedInv /\ [Next]_vars => (TypeOK /\ UndisturbedInv)'
    BY <1>1, <1>3, TypeNext, UndisturbedRunnerReconcile, UndisturbedSync, UndisturbedPodReconcile,
       UndisturbedKubernetes, UndisturbedGitHub DEF Next
  <2> QED
    BY <1>2, <2>1, PTL DEF Safety
<1>4. CASE ~Undisturbed
  BY <1>4
<1> QED
  BY <1>3, <1>4

\* If nobody but ARC deletes the pod, a pod marked unregistration-complete is one whose
\* unregistration was started, whatever crashes, fails or is refused, and however old the
\* copies are that the patches were based on.
THEOREM MarksFollowStarts == Undisturbed /\ Safety => []CompleteFollowsStart
<1>1. UndisturbedInv => CompleteFollowsStart
  BY DEF UndisturbedInv, MarkInv, CompleteFollowsStart
<1> QED
  BY <1>1, UndisturbedInvariant, PTL

LEMMA RegisteredRunnerReconcile ==
  Undisturbed /\ Steady /\ TypeOK /\ UndisturbedInv /\ RegisteredInv /\ RunnerReconcile
    => RegisteredInv'
<1> SUFFICES ASSUME Undisturbed, Steady, TypeOK, UndisturbedInv, RegisteredInv, RunnerReconcile
             PROVE  RegisteredInv'
  OBVIOUS
<1> USE DEF Undisturbed, Steady, TypeOK, PodRecord, OwnerRecord, UndisturbedInv, MarkInv, OnePodInv,
            RegisteredInv, KnownInv, NoPod, recVars, ghVars,
            RunnerUnchanged, Creating, NewPod
<1>1. CASE AddRunnerFinalizer
  BY <1>1 DEF AddRunnerFinalizer
<1>2. CASE ProcessRunnerDeletion
  BY <1>2 DEF ProcessRunnerDeletion
<1>3. CASE UpdateRegistrationToken
  BY <1>3 DEF UpdateRegistrationToken
<1>4. CASE ProcessRunnerCreation
  BY <1>4 DEF ProcessRunnerCreation
<1>5. CASE SyncRunnerStatus
  BY <1>5 DEF SyncRunnerStatus
<1> QED
  BY <1>1, <1>2, <1>3, <1>4, <1>5 DEF RunnerReconcile

LEMMA RegisteredSync ==
  Undisturbed /\ Steady /\ TypeOK /\ UndisturbedInv /\ RegisteredInv /\ (RequestPod \/ Terminate \/ SyncFails)
    => RegisteredInv'
<1> SUFFICES ASSUME Undisturbed, Steady, TypeOK, UndisturbedInv, RegisteredInv,
                    RequestPod \/ Terminate \/ SyncFails
             PROVE  RegisteredInv'
  OBVIOUS
<1> USE DEF Undisturbed, Steady, TypeOK, PodRecord, OwnerRecord, UndisturbedInv, MarkInv, OnePodInv,
            RegisteredInv, KnownInv, NoPod, recVars, ghVars,
            SyncUnchanged, Collectable, Redundant, InTermination
<1>1. CASE RequestPod
  BY <1>1 DEF RequestPod
<1>2. CASE MarkOwnerComplete
  BY <1>2 DEF MarkOwnerComplete
<1>3. CASE DeleteCompleteOwner
  BY <1>3 DEF DeleteCompleteOwner
<1>4. CASE DeleteCompletedOwner
  BY <1>4 DEF DeleteCompletedOwner
<1>5. CASE RequestOwner
  BY <1>5 DEF RequestOwner
<1>6. CASE SyncFails
  BY <1>6 DEF SyncFails
<1> QED
  BY <1>1, <1>2, <1>3, <1>4, <1>5, <1>6 DEF Terminate

LEMMA RegisteredPodReconcile ==
  Undisturbed /\ Steady /\ TypeOK /\ UndisturbedInv /\ RegisteredInv /\ (PodReconcile \/ ReconcileFails)
    => RegisteredInv'
<1> SUFFICES ASSUME Undisturbed, Steady, TypeOK, UndisturbedInv, RegisteredInv,
                    PodReconcile \/ ReconcileFails
             PROVE  RegisteredInv'
  OBVIOUS
<1> USE DEF Undisturbed, Steady, TypeOK, PodRecord, OwnerRecord, UndisturbedInv, MarkInv, OnePodInv,
            RegisteredInv, KnownInv, NoPod, recVars, ghVars,
            RecUnchanged, Goto, Return, AnnotatePodOnce,
            RemoveUnchanged, Vanish, Reconciles, Live, Stopped
<1>1. CASE AddPodFinalizer
  BY <1>1 DEF AddPodFinalizer
<1>2. CASE FindRunner
  BY <1>2 DEF FindRunner
<1>3. CASE AnnotateRunnerID
  BY <1>3 DEF AnnotateRunnerID
<1>4. CASE StartRequestedStop
  BY <1>4 DEF StartRequestedStop
<1>5. CASE StartStopOfDeleted
  BY <1>5 DEF StartStopOfDeleted
<1>6. CASE EnsureRunnerUnregistration
  BY <1>6 DEF EnsureRunnerUnregistration
<1>7. CASE RemoveRunner
  BY <1>7 DEF RemoveRunner
<1>8. CASE RemoveBusyRunner
  BY <1>8 DEF RemoveBusyRunner
<1>9. CASE RemoveUnknownRunner
  BY <1>9 DEF RemoveUnknownRunner
<1>10. CASE RemoveForbidden
  BY <1>10 DEF RemoveForbidden
<1>11. CASE WaitForCompletion
  BY <1>11 DEF WaitForCompletion
<1>12. CASE CompleteGracefulStop
  BY <1>12 DEF CompleteGracefulStop
<1>13. CASE RemovePodFinalizer
  BY <1>13 DEF RemovePodFinalizer
<1>14. CASE ForceDelete
  BY <1>14 DEF ForceDelete
<1>15. CASE ReconcileFails
  BY <1>15 DEF ReconcileFails
<1> QED
  BY <1>1, <1>2, <1>3, <1>4, <1>5, <1>6, <1>7, <1>8, <1>9, <1>10, <1>11, <1>12,
     <1>13, <1>14, <1>15 DEF PodReconcile

LEMMA RegisteredKubernetes ==
  Undisturbed /\ Steady /\ TypeOK /\ UndisturbedInv /\ RegisteredInv /\ Kubernetes
    => RegisteredInv'
<1> SUFFICES ASSUME Undisturbed, Steady, TypeOK, UndisturbedInv, RegisteredInv, Kubernetes
             PROVE  RegisteredInv'
  OBVIOUS
<1> USE DEF Undisturbed, Steady, TypeOK, PodRecord, OwnerRecord, UndisturbedInv, MarkInv, OnePodInv,
            RegisteredInv, KnownInv, NoPod, recVars, ghVars,
            K8sUnchanged
<1>1. CASE InformerSync
  BY <1>1 DEF InformerSync
<1>2. CASE OwnerGone
  BY <1>2 DEF OwnerGone
<1>3. CASE GarbageCollect
  BY <1>3 DEF GarbageCollect
<1>4. CASE ForeignDelete
  BY <1>4 DEF ForeignDelete
<1>5. CASE StartContainer
  BY <1>5 DEF StartContainer
<1>6. CASE KillContainer
  BY <1>6 DEF KillContainer
<1>7. CASE PodGone
  BY <1>7 DEF PodGone
<1>8. ASSUME NEW status \in {"alive", "exited", "stopped"}, ReportStatus(status)
      PROVE  RegisteredInv'
  BY <1>8 DEF ReportStatus
<1> QED
  BY <1>1, <1>2, <1>3, <1>4, <1>5, <1>6, <1>7, <1>8 DEF Kubernetes

LEMMA RegisteredGitHub ==
  Undisturbed /\ Steady /\ TypeOK /\ UndisturbedInv /\ RegisteredInv /\ GitHub
    => RegisteredInv'
<1> SUFFICES ASSUME Undisturbed, Steady, TypeOK, UndisturbedInv, RegisteredInv, GitHub
             PROVE  RegisteredInv'
  OBVIOUS
<1> USE DEF Undisturbed, Steady, TypeOK, PodRecord, OwnerRecord, UndisturbedInv, MarkInv, OnePodInv,
            RegisteredInv, KnownInv, NoPod, recVars, ghVars,
            AgentUnchanged, EnvUnchanged
<1>1. CASE Register
  BY <1>1 DEF Register
<1>2. CASE TakeJob
  BY <1>2 DEF TakeJob
<1>3. CASE FinishJob
  BY <1>3 DEF FinishJob
<1>4. CASE NoticeRemoval
  BY <1>4 DEF NoticeRemoval
<1>5. CASE Crash
  BY <1>5 DEF Crash
<1>6. CASE Restart
  BY <1>6 DEF Restart
<1>7. CASE AbandonJob
  BY <1>7 DEF AbandonJob
<1>8. CASE RefreshList
  BY <1>8 DEF RefreshList
<1> QED
  BY <1>1, <1>2, <1>3, <1>4, <1>5, <1>6, <1>7, <1>8 DEF GitHub

\* If nobody but ARC deletes the pod and its container does not crash, the unregistration of
\* a live pod starts only after the agent of that pod has registered, although the controller
\* acts on stale copies, and even if GitHub refuses to remove runners or config.sh never
\* succeeds.
THEOREM StopsFollowRegistration == Undisturbed /\ Steady /\ Safety => []RegistrationFirst
<1>1. RegisteredInv => RegistrationFirst
  BY DEF RegisteredInv, KnownInv, RegistrationFirst
<1>2. Init => RegisteredInv
  BY DEF Init, RegisteredInv, KnownInv, NoPod
<1>3. RegisteredInv /\ UNCHANGED vars => RegisteredInv'
  BY DEF RegisteredInv, KnownInv, vars
<1>4. CASE Undisturbed /\ Steady
  <2>1. TypeOK /\ UndisturbedInv /\ RegisteredInv /\ [Next]_vars => RegisteredInv'
    BY <1>3, <1>4, RegisteredRunnerReconcile, RegisteredSync, RegisteredPodReconcile,
       RegisteredKubernetes, RegisteredGitHub DEF Next
  <2>2. Safety => [](TypeOK /\ UndisturbedInv)
    BY <1>4, UndisturbedInvariant
  <2> QED
    BY <1>1, <1>2, <2>1, <2>2, PTL DEF Safety
<1>5. CASE ~(Undisturbed /\ Steady)
  BY <1>5
<1> QED
  BY <1>4, <1>5

-----------------------------------------------------------------------------
(* The standard scale-down: nobody but ARC deletes the pod, its container does *)
(* not crash and ARC may remove its runner.  API errors, restarts, stale       *)
(* caches and every interleaving remain.                                       *)

Standard == Faults \cap {"delete", "crash", "forbidden"} = {}

\* What a copy of the pod may say, however old it is.
CopyInv(p) ==
    /\ "complete" \in p.ann \/ p.deleting \/ p.status # "alive" => Drained
    /\ p.deleting => ~owner.exists
    /\ "start" \in p.ann => agentID # 0
    /\ p.id \in {0, agentID}
    /\ p.id # 0 /\ pod.uid # 0 => pod.id # 0

\* One registration, which is the agent's.
AgentInv ==
    /\ agent \in {"none", "config"} => agentID = 0
    /\ agent \in {"idle", "busy", "exited"} => agentID # 0
    /\ agent # "none" => pods # 0
    /\ agent # "crashed"
    /\ reg \in {0, agentID} /\ listed \in {0, agentID}
    /\ job <=> agent = "busy"
    /\ agent = "busy" => reg = agentID
    /\ agent = "exited" => reg = 0

ReconcileInv ==
    /\ pc \in {"start", "unregister"} => Drained \/ rp.id # 0
    /\ pc \in {"annotateID", "remove"} => target = agentID /\ agentID # 0
    /\ pc \in {"complete", "removeFinalizer"} => Drained

\* The only pod is the first, and it outlives its Runner.
OwnerInv ==
    /\ "complete" \in owner.ann \/ owner.deleting \/ ~owner.exists => Drained
    /\ "request" \in owner.ann \/ "complete" \in owner.ann \/ syncer = "owner" => owner.synced
    /\ owner.synced => pods # 0 /\ (cache.uid # 0 \/ Drained)
    /\ pods = 0 => pod = NoPod /\ cache = NoPod /\ rp = NoPod /\ agent = "none"
    /\ pods # 0 /\ pod.uid = 0 => ~owner.exists

StandardInv ==
    /\ CopyInv(pod) /\ CopyInv(cache) /\ CopyInv(rp)
    /\ AgentInv /\ ReconcileInv /\ OwnerInv

LEMMA StandardInit == Init => StandardInv
  BY DEF Init, StandardInv, CopyInv, AgentInv, ReconcileInv, OwnerInv, NoPod, Drained

LEMMA StandardRunnerReconcile ==
  Standard /\ TypeOK /\ StandardInv /\ RunnerReconcile => StandardInv'
<1> SUFFICES ASSUME Standard, TypeOK, StandardInv, RunnerReconcile PROVE StandardInv'
  OBVIOUS
<1> USE DEF Standard, TypeOK, PodRecord, OwnerRecord, StandardInv, CopyInv, AgentInv, ReconcileInv,
            OwnerInv, Drained, NoPod, recVars, ghVars, RunnerUnchanged, Creating, NewPod
<1>1. CASE AddRunnerFinalizer
  BY <1>1 DEF AddRunnerFinalizer
<1>2. CASE ProcessRunnerDeletion
  BY <1>2 DEF ProcessRunnerDeletion
<1>3. CASE UpdateRegistrationToken
  BY <1>3 DEF UpdateRegistrationToken
<1>4. CASE ProcessRunnerCreation
  <2>1. pods = 0
    BY <1>4 DEF ProcessRunnerCreation
  <2>2. "request" \notin owner.ann /\ "complete" \notin owner.ann /\ "start" \notin owner.ann
    BY <2>1 DEF OwnerKeys
  <2>3. /\ pod' = NewPod(1) /\ pods' = 1 /\ agent' = "none" /\ agentID' = 0
        /\ reg = 0 /\ listed = 0
    BY <1>4, <2>1 DEF ProcessRunnerCreation
  <2> QED
    BY <1>4, <2>1, <2>2, <2>3 DEF ProcessRunnerCreation
<1>5. CASE SyncRunnerStatus
  BY <1>5 DEF SyncRunnerStatus
<1> QED
  BY <1>1, <1>2, <1>3, <1>4, <1>5 DEF RunnerReconcile

LEMMA StandardSync ==
  Standard /\ TypeOK /\ StandardInv /\ (RequestPod \/ Terminate \/ SyncFails) => StandardInv'
<1> SUFFICES ASSUME Standard, TypeOK, StandardInv, RequestPod \/ Terminate \/ SyncFails PROVE StandardInv'
  OBVIOUS
<1> USE DEF Standard, TypeOK, PodRecord, OwnerRecord, StandardInv, CopyInv, AgentInv, ReconcileInv,
            OwnerInv, Drained, NoPod, recVars, ghVars, SyncUnchanged, Collectable, Redundant, InTermination, DeletionSafe, Stopped
<1>1. CASE RequestPod
  BY <1>1 DEF RequestPod
<1>2. CASE MarkOwnerComplete
  BY <1>2 DEF MarkOwnerComplete
<1>3. CASE DeleteCompleteOwner
  BY <1>3 DEF DeleteCompleteOwner
<1>4. CASE DeleteCompletedOwner
  BY <1>4 DEF DeleteCompletedOwner
<1>5. CASE RequestOwner
  BY <1>5 DEF RequestOwner
<1>6. CASE SyncFails
  BY <1>6 DEF SyncFails
<1> QED
  BY <1>1, <1>2, <1>3, <1>4, <1>5, <1>6 DEF Terminate

LEMMA StandardPodReconcile ==
  Standard /\ TypeOK /\ StandardInv /\ (PodReconcile \/ ReconcileFails) => StandardInv'
<1> SUFFICES ASSUME Standard, TypeOK, StandardInv, PodReconcile \/ ReconcileFails PROVE StandardInv'
  OBVIOUS
<1> USE DEF Standard, TypeOK, PodRecord, OwnerRecord, StandardInv, CopyInv, AgentInv, ReconcileInv,
            OwnerInv, Drained, NoPod, recVars, ghVars, RecUnchanged, Goto, Return, AnnotatePodOnce, RemoveUnchanged, Vanish, Reconciles, Live, Stopped, HasExitCode
<1>1. CASE AddPodFinalizer
  BY <1>1 DEF AddPodFinalizer
<1>2. CASE FindRunner
  BY <1>2 DEF FindRunner
<1>3. CASE AnnotateRunnerID
  BY <1>3 DEF AnnotateRunnerID
<1>4. CASE StartRequestedStop
  BY <1>4 DEF StartRequestedStop
<1>5. CASE StartStopOfDeleted
  BY <1>5 DEF StartStopOfDeleted
<1>6. CASE EnsureRunnerUnregistration
  BY <1>6 DEF EnsureRunnerUnregistration
<1>7. CASE RemoveRunner
  BY <1>7 DEF RemoveRunner
<1>8. CASE RemoveBusyRunner
  BY <1>8 DEF RemoveBusyRunner
<1>9. CASE RemoveUnknownRunner
  BY <1>9 DEF RemoveUnknownRunner
<1>10. CASE RemoveForbidden
  BY <1>10 DEF RemoveForbidden
<1>11. CASE WaitForCompletion
  BY <1>11 DEF WaitForCompletion
<1>12. CASE CompleteGracefulStop
  BY <1>12 DEF CompleteGracefulStop
<1>13. CASE RemovePodFinalizer
  BY <1>13 DEF RemovePodFinalizer
<1>14. CASE ForceDelete
  BY <1>14 DEF ForceDelete
<1>15. CASE ReconcileFails
  BY <1>15 DEF ReconcileFails
<1> QED
  BY <1>1, <1>2, <1>3, <1>4, <1>5, <1>6, <1>7, <1>8, <1>9, <1>10, <1>11, <1>12, <1>13, <1>14, <1>15 DEF PodReconcile

LEMMA StandardKubernetes ==
  Standard /\ TypeOK /\ StandardInv /\ Kubernetes => StandardInv'
<1> SUFFICES ASSUME Standard, TypeOK, StandardInv, Kubernetes PROVE StandardInv'
  OBVIOUS
<1> USE DEF Standard, TypeOK, PodRecord, OwnerRecord, StandardInv, CopyInv, AgentInv, ReconcileInv,
            OwnerInv, Drained, NoPod, recVars, ghVars, K8sUnchanged
<1>1. CASE InformerSync
  BY <1>1 DEF InformerSync
<1>2. CASE OwnerGone
  BY <1>2 DEF OwnerGone
<1>3. CASE GarbageCollect
  BY <1>3 DEF GarbageCollect
<1>4. CASE ForeignDelete
  BY <1>4 DEF ForeignDelete
<1>5. CASE StartContainer
  BY <1>5 DEF StartContainer
<1>6. CASE KillContainer
  BY <1>6 DEF KillContainer
<1>7. CASE PodGone
  BY <1>7 DEF PodGone
<1>8. ASSUME NEW status \in {"alive", "exited", "stopped"}, ReportStatus(status)
      PROVE  StandardInv'
  BY <1>8 DEF ReportStatus
<1> QED
  BY <1>1, <1>2, <1>3, <1>4, <1>5, <1>6, <1>7, <1>8 DEF Kubernetes

LEMMA StandardGitHub ==
  Standard /\ TypeOK /\ StandardInv /\ GitHub => StandardInv'
<1> SUFFICES ASSUME Standard, TypeOK, StandardInv, GitHub PROVE StandardInv'
  OBVIOUS
<1> USE DEF Standard, TypeOK, PodRecord, OwnerRecord, StandardInv, CopyInv, AgentInv, ReconcileInv,
            OwnerInv, Drained, NoPod, recVars, ghVars, AgentUnchanged, EnvUnchanged
<1>1. CASE Register
  BY <1>1 DEF Register
<1>2. CASE TakeJob
  BY <1>2 DEF TakeJob
<1>3. CASE FinishJob
  BY <1>3 DEF FinishJob
<1>4. CASE NoticeRemoval
  BY <1>4 DEF NoticeRemoval
<1>5. CASE Crash
  BY <1>5 DEF Crash
<1>6. CASE Restart
  BY <1>6 DEF Restart
<1>7. CASE AbandonJob
  BY <1>7 DEF AbandonJob
<1>8. CASE RefreshList
  BY <1>8 DEF RefreshList
<1> QED
  BY <1>1, <1>2, <1>3, <1>4, <1>5, <1>6, <1>7, <1>8 DEF GitHub

LEMMA StandardNext == Standard /\ TypeOK /\ StandardInv /\ [Next]_vars => StandardInv'
<1>1. StandardInv /\ UNCHANGED vars => StandardInv'
  BY DEF StandardInv, CopyInv, AgentInv, ReconcileInv, OwnerInv, Drained, NoPod, vars
<1> QED
  BY <1>1, StandardRunnerReconcile, StandardSync, StandardPodReconcile, StandardKubernetes,
     StandardGitHub DEF Next

LEMMA StandardInvariant == Standard /\ Safety => [](TypeOK /\ StandardInv)
<1>1. Standard /\ TypeOK /\ StandardInv /\ [Next]_vars => (TypeOK /\ StandardInv)'
  BY TypeNext, StandardNext
<1>2. Init => TypeOK /\ StandardInv
  BY TypeInit, StandardInit
<1>3. CASE Standard
  <2>1. TypeOK /\ StandardInv /\ [Next]_vars => (TypeOK /\ StandardInv)'
    BY <1>1, <1>3
  <2> QED
    BY <1>2, <2>1, PTL DEF Safety
<1>4. CASE ~Standard
  BY <1>4
<1> QED
  BY <1>3, <1>4

LEMMA StandardStep ==
  TypeOK /\ StandardInv /\ Next => (agent = "busy" /\ agent' = "exited" => ~job')
<1> SUFFICES ASSUME TypeOK, StandardInv, Next, agent = "busy", agent' = "exited"
             PROVE  ~job'
  OBVIOUS
<1> USE DEF TypeOK, PodRecord, StandardInv, CopyInv, Drained
<1>1. CASE FinishJob
  BY <1>1 DEF FinishJob
<1>2. CASE KillContainer
  BY <1>2 DEF KillContainer
<1>3. CASE ForceDelete
  BY <1>3 DEF ForceDelete, Reconciles
<1>4. CASE RunnerReconcile
  BY <1>4 DEF RunnerReconcile, AddRunnerFinalizer, ProcessRunnerDeletion, UpdateRegistrationToken,
     ProcessRunnerCreation, SyncRunnerStatus
<1>5. CASE RequestPod \/ Terminate \/ SyncFails \/ ReconcileFails
  BY <1>5 DEF RequestPod, Terminate, MarkOwnerComplete, DeleteCompleteOwner, DeleteCompletedOwner,
     RequestOwner, SyncFails, ReconcileFails, SyncUnchanged
<1>6. CASE PodReconcile /\ ~ForceDelete
  BY <1>6 DEF PodReconcile, AddPodFinalizer, FindRunner, AnnotateRunnerID, StartRequestedStop,
     StartStopOfDeleted, EnsureRunnerUnregistration, RemoveRunner, RemoveBusyRunner,
     RemoveUnknownRunner, RemoveForbidden, WaitForCompletion, CompleteGracefulStop,
     RemovePodFinalizer, RemoveUnchanged
<1>7. CASE Kubernetes /\ ~KillContainer
  BY <1>7 DEF Kubernetes, InformerSync, OwnerGone, GarbageCollect, ForeignDelete, StartContainer,
     ReportStatus, PodGone
<1>8. CASE GitHub /\ ~FinishJob
  BY <1>8 DEF GitHub, Register, TakeJob, NoticeRemoval, Crash, Restart, AbandonJob, RefreshList
<1> QED
  BY <1>1, <1>2, <1>3, <1>4, <1>5, <1>6, <1>7, <1>8 DEF Next

\* In the standard scale-down no job is cut off: ARC terminates a runner pod only after
\* the runner was drained, with any number of API errors and controller restarts, stale
\* caches, and for ephemeral and static runners alike.
THEOREM JobsAreNotInterrupted == Standard /\ Safety => NoJobInterrupted
<1>1. TypeOK /\ StandardInv /\ [Next]_vars =>
        [agent = "busy" /\ agent' = "exited" => ~job']_vars
  BY StandardStep
<1> QED
  BY <1>1, StandardInvariant, PTL DEF Safety, NoJobInterrupted

\* In the standard scale-down a live pod that is marked unregistration-complete has no
\* registration and no job, and its agent never gets either again.
THEOREM MarkIsFinal == Standard /\ Safety => []MarkedPodStaysUnregistered
<1>1. StandardInv => MarkedPodStaysUnregistered
  BY DEF StandardInv, CopyInv, MarkedPodStaysUnregistered
<1> QED
  BY <1>1, StandardInvariant, PTL

\* In the standard scale-down GitHub keeps no registration of a runner whose Runner
\* resource and pod are gone.
THEOREM RegistrationsAreRemoved == Standard /\ Safety => []NoLeakedRegistration
<1>1. StandardInv => NoLeakedRegistration
  BY DEF StandardInv, OwnerInv, Drained, NoLeakedRegistration
<1> QED
  BY <1>1, StandardInvariant, PTL
=============================================================================
