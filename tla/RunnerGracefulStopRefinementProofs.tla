----------------- MODULE RunnerGracefulStopRefinementProofs -----------------
(***************************************************************************)
(* In the standard scale-down RunnerGracefulStop implements the safety of  *)
(* RunnerContract: each step of a controller, of Kubernetes or of GitHub   *)
(* is a step of the contract or leaves the contract's state alone.         *)
(***************************************************************************)
EXTENDS RunnerGracefulStopProofs, RunnerGracefulStopRefinement

-----------------------------------------------------------------------------
(* Nobody starts a stop that was not asked for.  The request that a copy of *)
(* the pod shows is on the Runner or on its pod, or the runner is drained.  *)

Requested == "request" \in owner.ann \/ "request" \in pod.ann \/ Drained

RequestInv ==
    /\ \A p \in {pod, cache, rp} : p.ann \cap {"request", "start"} # {} => Requested
    /\ pc \in {"start", "unregister", "remove"} => Requested

LEMMA RequestInit == Init => RequestInv
<1>1. Init => pod.ann = {} /\ cache.ann = {} /\ rp.ann = {} /\ pc = "idle"
  BY DEF Init, NoPod
<1> QED
  BY <1>1 DEF RequestInv

\* The runner controller creates one pod, for a Runner nobody wants to stop yet.
LEMMA FirstPod ==
  TypeOK /\ StandardInv /\ ProcessRunnerCreation
    => /\ pods = 0 /\ owner.ann = {} /\ pod = NoPod /\ cache = NoPod /\ rp = NoPod
       /\ agent = "none" /\ agentID = 0
  BY DEF TypeOK, OwnerRecord, OwnerKeys, StandardInv, AgentInv, OwnerInv, ProcessRunnerCreation,
     Creating

LEMMA RequestNext ==
  Standard /\ TypeOK /\ StandardInv /\ RequestInv /\ [Next]_vars => RequestInv'
<1> SUFFICES ASSUME Standard, TypeOK, StandardInv, RequestInv, [Next]_vars PROVE RequestInv'
  OBVIOUS
<1> USE DEF Standard, RequestInv, Requested, TypeOK, PodRecord, OwnerRecord, OwnerKeys, StandardInv,
            CopyInv, AgentInv, OwnerInv, Drained, recVars, ghVars
<1>1. CASE RunnerReconcile
  <2>1. CASE ProcessRunnerCreation
    BY <2>1, FirstPod DEF ProcessRunnerCreation, RunnerUnchanged, NewPod, NoPod
  <2>2. CASE ~ProcessRunnerCreation
    BY <1>1, <2>2 DEF RunnerReconcile, AddRunnerFinalizer, ProcessRunnerDeletion,
       UpdateRegistrationToken, SyncRunnerStatus, RunnerUnchanged
  <2> QED
    BY <2>1, <2>2
<1>2. CASE RequestPod
  BY <1>2 DEF RequestPod, SyncUnchanged
<1>3. CASE Terminate \/ SyncFails
  BY <1>3 DEF Terminate, MarkOwnerComplete, DeleteCompleteOwner, DeleteCompletedOwner,
     RequestOwner, SyncFails, SyncUnchanged
<1>4. CASE PodReconcile \/ ReconcileFails
  <2> USE DEF RecUnchanged, Goto, Return, AnnotatePodOnce, RemoveUnchanged, NoPod, Live,
              Reconciles
  <2>1. CASE AddPodFinalizer
    BY <2>1 DEF AddPodFinalizer
  <2>2. CASE FindRunner
    BY <2>2 DEF FindRunner
  <2>3. CASE AnnotateRunnerID
    BY <2>3 DEF AnnotateRunnerID
  <2>4. CASE StartRequestedStop
    BY <2>4 DEF StartRequestedStop
  <2>5. CASE StartStopOfDeleted
    BY <2>5 DEF StartStopOfDeleted
  <2>6. CASE EnsureRunnerUnregistration
    BY <2>6 DEF EnsureRunnerUnregistration
  <2>7. CASE RemoveRunner
    BY <2>7 DEF RemoveRunner
  <2>8. CASE RemoveBusyRunner \/ RemoveUnknownRunner \/ RemoveForbidden
    BY <2>8 DEF RemoveBusyRunner, RemoveUnknownRunner, RemoveForbidden
  <2>9. CASE WaitForCompletion
    BY <2>9 DEF WaitForCompletion
  <2>10. CASE CompleteGracefulStop
    BY <2>10 DEF CompleteGracefulStop
  <2>11. CASE RemovePodFinalizer
    BY <2>11 DEF RemovePodFinalizer
  <2>12. CASE ForceDelete
    BY <2>12 DEF ForceDelete, Vanish
  <2>13. CASE ReconcileFails
    BY <2>13 DEF ReconcileFails
  <2> QED
    BY <1>4, <2>1, <2>2, <2>3, <2>4, <2>5, <2>6, <2>7, <2>8, <2>9, <2>10, <2>11, <2>12, <2>13
       DEF PodReconcile
<1>5. CASE Kubernetes
  <2> USE DEF K8sUnchanged, NoPod
  <2>1. CASE InformerSync \/ OwnerGone \/ GarbageCollect \/ ForeignDelete
    BY <2>1 DEF InformerSync, OwnerGone, GarbageCollect, ForeignDelete
  <2>2. CASE StartContainer
    BY <2>2 DEF StartContainer
  <2>3. ASSUME NEW status \in {"alive", "exited", "stopped"}, ReportStatus(status)
        PROVE  RequestInv'
    BY <2>3 DEF ReportStatus
  <2>4. CASE KillContainer
    BY <2>4 DEF KillContainer
  <2>5. CASE PodGone
    BY <2>5 DEF PodGone
  <2> QED
    BY <1>5, <2>1, <2>2, <2>3, <2>4, <2>5 DEF Kubernetes
<1>6. CASE GitHub
  BY <1>6 DEF GitHub, Register, TakeJob, FinishJob, NoticeRemoval, Crash, Restart, AbandonJob,
     RefreshList, AgentUnchanged, EnvUnchanged
<1>7. CASE UNCHANGED vars
  BY <1>7 DEF vars
<1> QED
  BY <1>1, <1>2, <1>3, <1>4, <1>5, <1>6, <1>7 DEF Next

-----------------------------------------------------------------------------
(* The simulation, step by step. *)

Simulated == Contract!Next \/ UNCHANGED Contract!vars

LEMMA SimulatedInit == Init => Contract!Init
  BY DEF Init, NoPod, life, asked, Contract!Init

LEMMA SimulatedRunnerReconcile ==
  Standard /\ TypeOK /\ StandardInv /\ RunnerReconcile => Simulated
<1> SUFFICES ASSUME Standard, TypeOK, StandardInv, RunnerReconcile PROVE Simulated
  OBVIOUS
<1> USE DEF RunnerUnchanged, life, asked
<1>1. CASE ProcessRunnerCreation
  <2>1. owner.exists /\ pod'.ann = {} /\ agent' = "none" /\ agentID' = 0
    BY <1>1, FirstPod DEF ProcessRunnerCreation, Creating, NewPod
  <2>2. UNCHANGED <<life, asked>>
    BY <1>1, <2>1, FirstPod DEF ProcessRunnerCreation, NoPod
  <2> QED
    BY <2>2 DEF Simulated, Contract!vars
<1>2. CASE ~ProcessRunnerCreation
  BY <1>2 DEF TypeOK, OwnerRecord, RunnerReconcile, AddRunnerFinalizer, ProcessRunnerDeletion,
     UpdateRegistrationToken, SyncRunnerStatus, Simulated, Contract!vars
<1> QED
  BY <1>1, <1>2

\* The request on the pod, or the one on the Runner if the pod has none, is the contract's.
LEMMA SimulatedSync ==
  Standard /\ TypeOK /\ StandardInv /\ (RequestPod \/ Terminate \/ SyncFails) => Simulated
<1> SUFFICES ASSUME Standard, TypeOK, StandardInv, RequestPod \/ Terminate \/ SyncFails
             PROVE  Simulated
  OBVIOUS
<1> USE DEF TypeOK, PodRecord, OwnerRecord, SyncUnchanged, ghVars, Simulated, Contract!vars
<1>1. CASE RequestPod
  <2>1. life' = life /\ life # "gone"
    BY <1>1 DEF RequestPod, Redundant, Collectable, life
  <2>2. asked => asked'
    BY <1>1, <2>1 DEF RequestPod, asked
  <2> QED
    BY <2>1, <2>2 DEF Contract!Next, Contract!Ask, asked
<1>2. CASE RequestOwner
  <2>1. life' = life
    BY <1>2 DEF RequestOwner, life
  <2>2. CASE owner.exists
    <3>1. life # "gone" /\ asked'
      BY <1>2, <2>1, <2>2 DEF RequestOwner, life, asked
    <3> QED
      BY <2>1, <3>1 DEF Contract!Next, Contract!Ask, asked
  <2>3. CASE ~owner.exists
    BY <1>2, <2>1, <2>3 DEF RequestOwner, asked
  <2> QED
    BY <2>2, <2>3
<1>3. CASE MarkOwnerComplete \/ DeleteCompleteOwner \/ DeleteCompletedOwner \/ SyncFails
  BY <1>3 DEF MarkOwnerComplete, DeleteCompleteOwner, DeleteCompletedOwner, SyncFails, life, asked
<1> QED
  BY <1>1, <1>2, <1>3 DEF Terminate

\* Only the successful RemoveRunner takes the runner out of service; a forced deletion
\* removes one that is.
LEMMA SimulatedPodReconcile ==
  Standard /\ TypeOK /\ StandardInv /\ RequestInv /\ (PodReconcile \/ ReconcileFails) => Simulated
<1> SUFFICES ASSUME Standard, TypeOK, StandardInv, RequestInv, PodReconcile \/ ReconcileFails
             PROVE  Simulated
  OBVIOUS
<1> USE DEF TypeOK, PodRecord, OwnerRecord, RecUnchanged, ghVars, recVars, Simulated, Contract!vars
<1>1. CASE RemoveRunner
  <2>1. reg = agentID /\ agentID # 0 /\ ~job /\ agent = "idle"
    BY <1>1 DEF RemoveRunner, StandardInv, ReconcileInv, AgentInv
  <2>2. life = "idle" /\ asked
    BY <1>1, <2>1 DEF RemoveRunner, StandardInv, OwnerInv, RequestInv, Requested, Drained, life, asked
  <2>3. life' = "drained" /\ asked'
    BY <1>1, <2>1, <2>2 DEF RemoveRunner, RemoveUnchanged, life, asked
  <2> QED
    BY <2>2, <2>3 DEF Contract!Next, Contract!Drain
<1>2. CASE ForceDelete
  <2>1. ~owner.exists /\ Drained
    BY <1>2 DEF ForceDelete, Reconciles, StandardInv, CopyInv
  <2>2. life = "drained"
    BY <1>2, <2>1 DEF ForceDelete, StandardInv, AgentInv, Drained, life
  <2>3. CASE pod.finalizer
    BY <1>2, <2>3 DEF ForceDelete, life, asked
  <2>4. CASE ~pod.finalizer
    <3>1. life' = "gone" /\ ~asked'
      BY <1>2, <2>1, <2>4 DEF ForceDelete, Vanish, NoPod, life, asked
    <3> QED
      BY <2>2, <3>1 DEF Contract!Next, Contract!Remove, asked
  <2> QED
    BY <2>3, <2>4
<1>3. CASE PodReconcile /\ ~RemoveRunner /\ ~ForceDelete
  <2>1. /\ pod'.uid = pod.uid
        /\ "request" \in pod'.ann <=> "request" \in pod.ann
        /\ UNCHANGED <<owner, agent, agentID, reg, job>>
    BY <1>3 DEF PodReconcile, AddPodFinalizer, FindRunner, AnnotateRunnerID, StartRequestedStop,
       StartStopOfDeleted, EnsureRunnerUnregistration, RemoveBusyRunner, RemoveUnknownRunner,
       RemoveForbidden, WaitForCompletion, CompleteGracefulStop, RemovePodFinalizer,
       RemoveUnchanged, AnnotatePodOnce
  <2> QED
    BY <2>1 DEF life, asked
<1>4. CASE ReconcileFails
  BY <1>4 DEF ReconcileFails, life, asked
<1> QED
  BY <1>1, <1>2, <1>3, <1>4

LEMMA SimulatedKubernetes ==
  Standard /\ TypeOK /\ StandardInv /\ Kubernetes => Simulated
<1> SUFFICES ASSUME Standard, TypeOK, StandardInv, Kubernetes PROVE Simulated
  OBVIOUS
<1> USE DEF TypeOK, PodRecord, OwnerRecord, K8sUnchanged, ghVars, Simulated, Contract!vars
<1>1. CASE OwnerGone
  <2>1. Drained
    BY <1>1 DEF OwnerGone, StandardInv, OwnerInv
  <2>2. life = "drained"
    BY <1>1, <2>1 DEF OwnerGone, StandardInv, AgentInv, Drained, life
  <2>3. CASE pod.uid = 0
    <3>1. life' = "gone" /\ ~asked'
      BY <1>1, <2>3 DEF OwnerGone, life, asked
    <3> QED
      BY <2>2, <3>1 DEF Contract!Next, Contract!Remove, asked
  <2>4. CASE pod.uid # 0
    BY <1>1, <2>4 DEF OwnerGone, life, asked
  <2> QED
    BY <2>3, <2>4
<1>2. CASE PodGone
  <2>1. Drained /\ ~owner.exists
    BY <1>2 DEF PodGone, StandardInv, CopyInv
  <2>2. life = "drained"
    BY <1>2, <2>1 DEF PodGone, StandardInv, AgentInv, Drained, life
  <2>3. life' = "gone" /\ ~asked'
    BY <1>2, <2>1 DEF PodGone, NoPod, life, asked
  <2> QED
    BY <2>2, <2>3 DEF Contract!Next, Contract!Remove, asked
<1>3. CASE KillContainer
  <2>1. Drained
    BY <1>3 DEF KillContainer, StandardInv, CopyInv
  <2>2. life' = life
    BY <1>3, <2>1 DEF KillContainer, StandardInv, AgentInv, Drained, life
  <2> QED
    BY <1>3, <2>2 DEF KillContainer, asked
<1>4. CASE StartContainer
  <2>1. life' = life
    BY <1>4 DEF StartContainer, StandardInv, AgentInv, life
  <2> QED
    BY <1>4, <2>1 DEF StartContainer, asked
<1>5. CASE InformerSync \/ GarbageCollect \/ ForeignDelete
  BY <1>5 DEF InformerSync, GarbageCollect, ForeignDelete, life, asked
<1>6. ASSUME NEW status \in {"alive", "exited", "stopped"}, ReportStatus(status) PROVE Simulated
  BY <1>6 DEF ReportStatus, life, asked
<1> QED
  BY <1>1, <1>2, <1>3, <1>4, <1>5, <1>6 DEF Kubernetes

LEMMA SimulatedGitHub ==
  Standard /\ TypeOK /\ StandardInv /\ GitHub => Simulated
<1> SUFFICES ASSUME Standard, TypeOK, StandardInv, GitHub PROVE Simulated
  OBVIOUS
<1> USE DEF TypeOK, PodRecord, OwnerRecord, AgentUnchanged, EnvUnchanged, ghVars, Simulated,
            Contract!vars
<1>1. CASE Register
  <2>1. life = "starting" /\ pods # 0
    BY <1>1 DEF Register, StandardInv, AgentInv, OwnerInv, Drained, life
  <2>2. life' = "idle" /\ asked' = asked
    BY <1>1, <2>1 DEF Register, life, asked
  <2> QED
    BY <2>1, <2>2 DEF Contract!Next, Contract!Register
<1>2. CASE TakeJob
  <2>1. life = "idle"
    BY <1>2 DEF TakeJob, StandardInv, AgentInv, OwnerInv, Drained, life
  <2>2. life' = "busy" /\ asked' = asked
    BY <1>2, <2>1 DEF TakeJob, life, asked
  <2> QED
    BY <2>1, <2>2 DEF Contract!Next, Contract!TakeJob
<1>3. CASE FinishJob
  <2>1. life = "busy" /\ agentID # 0 /\ reg = agentID
    BY <1>3 DEF FinishJob, StandardInv, AgentInv, OwnerInv, Drained, life
  <2>2. life' = (IF Ephemeral THEN "drained" ELSE "idle") /\ asked' = asked
    BY <1>3, <2>1 DEF FinishJob, life, asked
  <2> QED
    BY <2>1, <2>2 DEF Contract!Next, Contract!FinishJob
<1>4. CASE NoticeRemoval
  <2>1. life' = life
    BY <1>4 DEF NoticeRemoval, StandardInv, AgentInv, life
  <2> QED
    BY <1>4, <2>1 DEF NoticeRemoval, asked
<1>5. CASE RefreshList
  BY <1>5 DEF RefreshList, life, asked
<1>6. ~Crash /\ ~Restart /\ ~AbandonJob
  BY DEF Standard, Crash, Restart, AbandonJob, StandardInv, AgentInv
<1> QED
  BY <1>1, <1>2, <1>3, <1>4, <1>5, <1>6 DEF GitHub

LEMMA SimulatedNext ==
  Standard /\ TypeOK /\ StandardInv /\ RequestInv /\ [Next]_vars => [Contract!Next]_Contract!vars
<1>1. UNCHANGED vars => Simulated
  BY DEF vars, Simulated, Contract!vars, life, asked
<1> QED
  BY <1>1, SimulatedRunnerReconcile, SimulatedSync, SimulatedPodReconcile, SimulatedKubernetes,
     SimulatedGitHub DEF Next, Simulated

\* In the standard scale-down the controllers, with lagging caches, API errors and restarts
\* between any two of their calls, show a RunnerReplicaSet nothing but the contract: a
\* runner registers once, is taken out of service only on request or after its job, never
\* loses a job and is removed only when it is out of service.
THEOREM ImplementsContract == Standard /\ Safety => Contract!Safety
<1>1. CASE Standard
  <2>1. Init => Contract!Init /\ RequestInv
    BY SimulatedInit, RequestInit
  <2>2. TypeOK /\ StandardInv /\ RequestInv /\ [Next]_vars => RequestInv'
    BY <1>1, RequestNext
  <2>3. TypeOK /\ StandardInv /\ RequestInv /\ [Next]_vars => [Contract!Next]_Contract!vars
    BY <1>1, SimulatedNext
  <2>4. Safety => [](TypeOK /\ StandardInv)
    BY <1>1, StandardInvariant
  <2> QED
    BY <2>1, <2>2, <2>3, <2>4, PTL DEF Safety, Contract!Safety
<1>2. CASE ~Standard
  BY <1>2
<1> QED
  BY <1>1, <1>2
=============================================================================
