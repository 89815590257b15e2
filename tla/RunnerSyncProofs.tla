-------------------------- MODULE RunnerSyncProofs --------------------------
(* Proofs about RunnerSync. *)
EXTENDS RunnerSync, FiniteSetTheorems, TLAPS

USE SyncAssumption

-----------------------------------------------------------------------------
(* Type correctness *)

\* There are never more owners than names for them.
LEMMA SlotsBound == ASSUME NEW S \in SUBSET Slots PROVE Cardinality(S) \in 0..MaxOwners
<1>1. IsFiniteSet(Slots) /\ Cardinality(Slots) = MaxOwners
  <2>1. 1 \in Int /\ MaxOwners \in Int
    OBVIOUS
  <2> QED
    BY <2>1, FS_Interval DEF Slots
<1>2. IsFiniteSet(S) /\ Cardinality(S) <= Cardinality(Slots)
  BY <1>1, FS_Subset
<1>3. Cardinality(S) \in Nat
  BY <1>2, FS_CardinalityType
<1> QED
  BY <1>1, <1>2, <1>3

LEMMA SpendType ==
  ASSUME TypeOK, NEW what \in {"changes", "jobs", "fails"}, Spend(what)
  PROVE  used' \in [changes : 0..MaxChanges, jobs : 0..MaxJobs, fails : 0..MaxFails]
<1>1. used \in [changes : 0..MaxChanges, jobs : 0..MaxJobs, fails : 0..MaxFails]
  BY DEF TypeOK
<1>2. CASE what = "changes"
  <2>1. used.changes < MaxChanges /\ used' = [used EXCEPT !.changes = @ + 1]
    BY <1>2 DEF Spend, Bound
  <2> QED
    BY <1>1, <2>1
<1>3. CASE what = "jobs"
  <2>1. used.jobs < MaxJobs /\ used' = [used EXCEPT !.jobs = @ + 1]
    BY <1>3 DEF Spend, Bound
  <2> QED
    BY <1>1, <2>1
<1>4. CASE what = "fails"
  <2>1. used.fails < MaxFails /\ used' = [used EXCEPT !.fails = @ + 1]
    BY <1>4 DEF Spend, Bound
  <2> QED
    BY <1>1, <2>1
<1> QED
  BY <1>2, <1>3, <1>4

LEMMA RecordTypes ==
  /\ NoOwner \in OwnerRecord /\ DeletedOwner \in OwnerRecord /\ NoPod \in PodRecord
  /\ \A w \in OwnerRecord, ann \in SUBSET Keys : [w EXCEPT !.ann = @ \cup ann] \in OwnerRecord
  /\ \A w \in OwnerRecord, b \in BOOLEAN : /\ [w EXCEPT !.synced = b] \in OwnerRecord
                                           /\ [w EXCEPT !.fresh = b] \in OwnerRecord
<1>1. 1 \in 1..Templates
  OBVIOUS
<1> QED
  BY <1>1 DEF NoOwner, DeletedOwner, NoPod, OwnerRecord, PodRecord, Keys

LEMMA TypeInit == Init => TypeOK
<1> SUFFICES ASSUME Init PROVE TypeOK
  OBVIOUS
<1>1. rs \in [replicas : 0..MaxReplicas, template : 1..Templates, ephemeral : BOOLEAN]
  BY DEF Init
<1>2. used \in [changes : 0..MaxChanges, jobs : 0..MaxJobs, fails : 0..MaxFails]
  BY DEF Init
<1> QED
  BY <1>1, <1>2, RecordTypes DEF Init, TypeOK

\* What a Reconcile writes are owners.
LEMMA WrittenType ==
  ASSUME TypeOK, NEW del, NEW comp, NEW req
  PROVE  Written(del, comp, req) \in [Slots -> OwnerRecord]
<1> SUFFICES ASSUME NEW o \in Slots
             PROVE  Written(del, comp, req)[o] \in OwnerRecord
  BY DEF Written
<1> DEFINE ann == (IF o \in comp THEN {"complete"} ELSE {}) \cup (IF o \in req THEN {"request"} ELSE {})
<1>1. owner[o] \in OwnerRecord /\ ann \in SUBSET Keys
  BY DEF TypeOK, Keys
<1>2. [owner[o] EXCEPT !.ann = @ \cup ann] \in OwnerRecord
  BY <1>1, RecordTypes
<1>3. [owner[o] EXCEPT !.ann = @ \cup (IF o \in comp THEN {"complete"} ELSE {})
                                  \cup (IF o \in req THEN {"request"} ELSE {})]
        = [owner[o] EXCEPT !.ann = @ \cup ann]
  BY <1>1 DEF OwnerRecord
<1> QED
  BY <1>2, <1>3, RecordTypes DEF Written

LEMMA NewOwnerType ==
  ASSUME TypeOK, NEW fresh \in BOOLEAN
  PROVE  NewOwner(fresh) \in OwnerRecord
  BY DEF TypeOK, NewOwner, OwnerRecord, Keys

LEMMA AnnotateType ==
  ASSUME TypeOK, NEW req, AnnotatePods(req)
  PROVE  pod' \in [Slots -> PodRecord]
<1>1. \A o \in Slots : /\ pod[o] \in PodRecord
                       /\ [pod[o] EXCEPT !.ann = @ \cup {"request"}] \in PodRecord
  BY SMTT(30) DEF TypeOK, PodRecord, Keys
<1> QED
  BY <1>1 DEF AnnotatePods

LEMMA FinishType ==
  ASSUME TypeOK, NEW req, Finish(req)
  PROVE  owner' \in [Slots -> OwnerRecord] /\ status' \in 0..MaxOwners
<1>1. {o \in Current : podView[o].phase # "none"} \in SUBSET Slots
  BY DEF Current, Remaining
<1>2. ReportedReplicas \in 0..MaxOwners
  <2> DEFINE S == {o \in Current : podView[o].phase # "none"}
  <2>1. S \in SUBSET Slots
    BY <1>1
  <2> HIDE DEF S
  <2>2. Cardinality(S) \in 0..MaxOwners
    BY <2>1, SlotsBound
  <2> QED
    BY <2>2 DEF S, ReportedReplicas
<1>3. owner' \in [Slots -> OwnerRecord]
  <2>1. \E del : owner' = Written(del, Marking, req)
    BY DEF Finish
  <2> QED
    BY <2>1, WrittenType
<1>4. status' = status \/ status' = ReportedReplicas
  BY DEF Finish
<1> QED
  BY <1>2, <1>3, <1>4 DEF TypeOK

LEMMA TypeReconcile ==
  TypeOK /\ (Reconcile \/ CollectFails \/ ScaleDownFails) => TypeOK'
<1> SUFFICES ASSUME TypeOK, Reconcile \/ CollectFails \/ ScaleDownFails PROVE TypeOK'
  OBVIOUS
<1>0. \A S, del : Collect(S, del) => owner' \in [Slots -> OwnerRecord]
  BY WrittenType DEF Collect
<1> USE DEF SyncUnchanged, view
<1>1. CASE CollectReturns
  <2>1. owner' \in [Slots -> OwnerRecord]
    BY <1>0, <1>1 DEF CollectReturns
  <2> QED
    BY <1>1, <2>1 DEF CollectReturns, TypeOK
<1>2. CASE CollectFails
  <2>1. owner' \in [Slots -> OwnerRecord]
    BY <1>0, <1>2 DEF CollectFails
  <2>2. used' \in [changes : 0..MaxChanges, jobs : 0..MaxJobs, fails : 0..MaxFails]
    BY <1>2, SpendType DEF CollectFails, TypeOK
  <2> QED
    BY <1>2, <2>1, <2>2 DEF CollectFails, TypeOK
<1>3. CASE CreateRunners
  <2>1. PICK n \in 0..(rs.replicas - MaybeRunning), fresh \in {FALSE, rs.ephemeral} :
          /\ owner' = [o \in Slots |-> IF o \in Take(n) THEN NewOwner(fresh)
                                       ELSE Written(Complete, Marking, {})[o]]
          /\ order' = (order \cap (Known \X Known)) \cup (Known \X Take(n))
          /\ Spend("fails") \/ UNCHANGED used
    BY <1>3 DEF CreateRunners
  <2>2. NewOwner(fresh) \in OwnerRecord
    <3>1. fresh \in BOOLEAN
      BY DEF TypeOK
    <3> QED
      BY <3>1, NewOwnerType
  <2>3. owner' \in [Slots -> OwnerRecord]
    BY <2>1, <2>2, WrittenType
  <2>4. order' \subseteq Slots \X Slots
    BY <2>1 DEF Known, Take, Free
  <2>5. used' \in [changes : 0..MaxChanges, jobs : 0..MaxJobs, fails : 0..MaxFails]
    BY <2>1, SpendType DEF TypeOK
  <2> QED
    BY <1>3, <2>3, <2>4, <2>5 DEF CreateRunners, TypeOK
<1>4. CASE ScaleDown
  <2>1. PICK req : AnnotatePods(req) /\ Finish(req)
    BY <1>4 DEF ScaleDown
  <2> QED
    BY <1>4, <2>1, AnnotateType, FinishType DEF ScaleDown, TypeOK
<1>5. CASE ScaleDownFails
  <2>1. PICK req, done : AnnotatePods(req) /\ owner' = Written(Complete, Marking, done)
    BY <1>5 DEF ScaleDownFails
  <2>2. used' \in [changes : 0..MaxChanges, jobs : 0..MaxJobs, fails : 0..MaxFails]
    BY <1>5, SpendType DEF ScaleDownFails, TypeOK
  <2> QED
    BY <1>5, <2>1, <2>2, AnnotateType, WrittenType DEF ScaleDownFails, TypeOK
<1>6. CASE Wait
  BY <1>6, FinishType DEF Wait, TypeOK
<1> QED
  BY <1>1, <1>2, <1>3, <1>4, <1>5, <1>6 DEF Reconcile

LEMMA TypeRunner ==
  ASSUME TypeOK, NEW o \in Slots, RunnerStep(o) \/ TimeOut(o) \/ TakeJob(o)
  PROVE  TypeOK'
<1> USE DEF TypeOK, RunnerUnchanged, view
<1> DEFINE Phases == {"none", "pending", "timedout", "running", "completed"}
<1>a. pod[o] \in PodRecord /\ owner[o] \in OwnerRecord
  OBVIOUS
<1>b. ASSUME NEW ph \in Phases PROVE [pod EXCEPT ![o].phase = ph] \in [Slots -> PodRecord]
  <2>1. [pod[o] EXCEPT !.phase = ph] \in PodRecord
    BY <1>a DEF PodRecord
  <2> QED
    BY <2>1
<1>c. ASSUME NEW k \in Keys PROVE [pod EXCEPT ![o].ann = @ \cup {k}] \in [Slots -> PodRecord]
  <2>1. [pod[o] EXCEPT !.ann = @ \cup {k}] \in PodRecord
    BY <1>a DEF PodRecord
  <2> QED
    BY <2>1
<1>1. CASE CreatePod(o)
  <2>1. [phase |-> "pending", deleting |-> FALSE,
         ann |-> IF StatefulSets THEN {} ELSE owner[o].ann] \in PodRecord
    BY <1>a DEF PodRecord, OwnerRecord
  <2> QED
    BY <1>1, <2>1 DEF CreatePod
<1>2. CASE SyncRunnerStatus(o)
  <2>1. owner' \in [Slots -> OwnerRecord]
    <3>1. [owner[o] EXCEPT !.synced = TRUE] \in OwnerRecord
      BY <1>a, RecordTypes
    <3> QED
      BY <1>2, <3>1 DEF SyncRunnerStatus
  <2> QED
    BY <1>2, <2>1 DEF SyncRunnerStatus
<1>3. CASE StartPod(o) \/ AgentExits(o)
  BY <1>b, <1>3 DEF StartPod, AgentExits, Becomes
<1>4. CASE TimeOut(o)
  <2>1. used' \in [changes : 0..MaxChanges, jobs : 0..MaxJobs, fails : 0..MaxFails]
    BY <1>4, SpendType DEF TimeOut
  <2> QED
    BY <1>b, <1>4, <2>1 DEF TimeOut, Becomes
<1>5. CASE TakeJob(o)
  <2>1. used' \in [changes : 0..MaxChanges, jobs : 0..MaxJobs, fails : 0..MaxFails]
    BY <1>5, SpendType DEF TakeJob
  <2> QED
    BY <1>5, <2>1 DEF TakeJob
<1>6. CASE FinishJob(o)
  <2>1. pod' \in [Slots -> PodRecord]
    <3>1. pod[o].phase \in Phases
      BY <1>a DEF PodRecord
    <3>2. \E ph \in Phases : pod' = [pod EXCEPT ![o].phase = ph]
      BY <1>6, <3>1 DEF FinishJob
    <3> QED
      BY <1>b, <3>2
  <2> QED
    BY <1>6, <2>1 DEF FinishJob
<1>7. CASE Unregister(o)
  BY <1>c, <1>7 DEF Unregister, Keys
<1>8. CASE OwnerGone(o)
  <2>1. pod' \in [Slots -> PodRecord]
    <3> DEFINE p == [pod[o] EXCEPT !.deleting = (pod[o].phase # "none"), !.ann = {}]
    <3>1. p \in PodRecord
      BY <1>a DEF PodRecord, Keys
    <3>2. pod' = [pod EXCEPT ![o] = p]
      BY <1>8 DEF OwnerGone
    <3> HIDE DEF p
    <3> QED
      BY <3>1, <3>2
  <2>2. owner' \in [Slots -> OwnerRecord]
    BY <1>8, RecordTypes DEF OwnerGone
  <2> QED
    BY <1>8, <2>1, <2>2 DEF OwnerGone
<1>9. CASE PodGone(o)
  BY <1>9, RecordTypes DEF PodGone
<1> QED
  BY <1>1, <1>2, <1>3, <1>4, <1>5, <1>6, <1>7, <1>8, <1>9 DEF RunnerStep

LEMMA TypeEnvironment ==
  ASSUME TypeOK,
         \/ InformerSyncOwners \/ InformerSyncPods \/ DelayElapses \/ UpdateTemplate
         \/ \E n \in 0..MaxReplicas : SetReplicas(n)
  PROVE  TypeOK'
<1> USE DEF TypeOK, view
<1>1. CASE InformerSyncOwners
  BY <1>1 DEF InformerSyncOwners
<1>2. CASE InformerSyncPods
  BY <1>2 DEF InformerSyncPods
<1>3. NoneFresh(owner) \in [Slots -> OwnerRecord] /\ NoneFresh(ownerView) \in [Slots -> OwnerRecord]
  BY RecordTypes DEF NoneFresh
<1>4. CASE DelayElapses
  BY <1>3, <1>4 DEF DelayElapses
<1>5. CASE UpdateTemplate
  <2>1. used' \in [changes : 0..MaxChanges, jobs : 0..MaxJobs, fails : 0..MaxFails]
    BY <1>5, SpendType DEF UpdateTemplate
  <2>2. rs' \in [replicas : 0..MaxReplicas, template : 1..Templates, ephemeral : BOOLEAN]
    BY <1>5 DEF UpdateTemplate
  <2> QED
    BY <1>5, <2>1, <2>2 DEF UpdateTemplate
<1>6. ASSUME NEW n \in 0..MaxReplicas, SetReplicas(n) PROVE TypeOK'
  <2>1. used' \in [changes : 0..MaxChanges, jobs : 0..MaxJobs, fails : 0..MaxFails]
    BY <1>6, SpendType DEF SetReplicas
  <2>2. rs' \in [replicas : 0..MaxReplicas, template : 1..Templates, ephemeral : BOOLEAN]
    BY <1>6 DEF SetReplicas
  <2> QED
    BY <1>3, <1>6, <2>1, <2>2 DEF SetReplicas
<1> QED
  BY <1>1, <1>2, <1>4, <1>5, <1>6

LEMMA TypeNext == TypeOK /\ [Next]_vars => TypeOK'
<1>1. TypeOK /\ UNCHANGED vars => TypeOK'
  BY DEF TypeOK, vars
<1> QED
  BY <1>1, TypeReconcile, TypeRunner, TypeEnvironment DEF Next

\* Owners, pods and what the caches show of them are well typed, and the status never
\* reports more runners than there can be, for every size of the set.
THEOREM TypeCorrect == Safety => []TypeOK
  BY TypeInit, TypeNext, PTL DEF Safety

-----------------------------------------------------------------------------
(* The inductive invariant: how far a cache may be behind, owner by owner.   *)
(* The two caches lag on their own, so it relates each of them to the        *)
(* objects, and the owners of the one to the pods of the other.              *)

\* What is known of an owner, as it is or as the cache shows it.
KnownInv(o, w) ==
    /\ "request" \in w.ann => podView[o].phase # "none"
    /\ "request" \in w.ann => "request" \in pod[o].ann
    /\ "complete" \in w.ann => "complete" \in pod[o].ann

\* What the cache shows of the pod of an owner that exists was true of that pod before.
LiveInv(o) ==
    /\ ~pod[o].deleting /\ ~podView[o].deleting
    /\ podView[o].ann \subseteq pod[o].ann
    /\ podView[o].phase # "none" => pod[o].phase # "none"
    /\ podView[o].phase = "completed" => pod[o].phase = "completed"
    /\ KnownInv(o, owner[o]) /\ KnownInv(o, ownerView[o])
    /\ owner[o].state = "live" /\ ownerView[o].state = "live"
         => owner[o].template = ownerView[o].template

SlotInv(o) ==
    /\ owner[o].state = "none" => owner[o].ann = {} /\ ~owner[o].synced
    /\ ownerView[o].state = "none" => ownerView[o].ann = {} /\ ~ownerView[o].synced
    /\ pod[o].phase = "none" => pod[o].ann = {} /\ ~pod[o].deleting
    /\ podView[o].phase = "none" => podView[o].ann = {} /\ ~podView[o].deleting
    /\ Exists(o) => LiveInv(o)
    /\ o \in busy => pod[o].phase = "running" /\ "complete" \notin pod[o].ann

SyncInv == \A o \in Slots : SlotInv(o)

LEMMA InvInit == Init => SyncInv
  BY DEF Init, SyncInv, SlotInv, Exists, NoOwner, NoPod

\* Nothing changes for an owner that a step does not touch.
LEMMA Untouched ==
  ASSUME NEW o \in Slots, SlotInv(o),
         owner'[o] = owner[o], ownerView'[o] = ownerView[o],
         pod'[o] = pod[o], podView'[o] = podView[o], o \in busy' <=> o \in busy
  PROVE  SlotInv(o)'
  BY DEF SlotInv, LiveInv, KnownInv, Exists

\* An owner that 2/4 marks has a pod that has been unregistered, unless it is gone.
LEMMA MarkedIsComplete ==
  ASSUME NEW o \in Marking, SlotInv(o), Exists(o)
  PROVE  "complete" \in pod[o].ann
  BY DEF Marking, Verdict, DeletionSafe, SlotInv, LiveInv, KnownInv

\* The fields of an owner that a Reconcile has written.
LEMMA WrittenFields ==
  ASSUME TypeOK, NEW del, NEW comp, NEW req, NEW o \in Slots,
         o \notin del /\ owner[o].state # "deleting"
  PROVE  LET w == Written(del, comp, req)[o]
         IN  /\ w.state = owner[o].state /\ w.template = owner[o].template
             /\ w.synced = owner[o].synced
             /\ w.ann = owner[o].ann \cup (IF o \in comp THEN {"complete"} ELSE {})
                                    \cup (IF o \in req THEN {"request"} ELSE {})
<1>1. owner[o] \in OwnerRecord
  BY DEF TypeOK
<1> QED
  BY <1>1 DEF Written, OwnerRecord

\* What a Reconcile writes of one owner and of its pod keeps the invariant.
LEMMA WriteKeeps ==
  ASSUME TypeOK, NEW o \in Slots, SlotInv(o),
         NEW del, NEW comp, NEW req, NEW annotated,
         owner'[o] = Written(del, comp, req)[o],
         ownerView' = ownerView, podView' = podView, busy' = busy,
         o \in comp => o \in Marking /\ Exists(o),
         o \in annotated => Exists(o) /\ podView[o].phase # "none",
         o \in req => o \in annotated,
         pod'[o] = IF o \in annotated /\ podView[o].phase # "none" /\ "request" \notin podView[o].ann
                     THEN [pod[o] EXCEPT !.ann = @ \cup {"request"}]
                     ELSE pod[o]
  PROVE  SlotInv(o)'
<1>1. pod[o] \in PodRecord /\ owner[o] \in OwnerRecord
  BY DEF TypeOK
<1>2. /\ pod'[o].phase = pod[o].phase /\ pod'[o].deleting = pod[o].deleting
      /\ pod[o].ann \subseteq pod'[o].ann /\ pod'[o].ann \subseteq pod[o].ann \cup {"request"}
      /\ o \notin annotated => pod'[o].ann = pod[o].ann
  BY <1>1 DEF PodRecord
<1>3. o \in annotated => "request" \in pod'[o].ann /\ podView[o].phase # "none" /\ pod[o].phase # "none"
  <2> SUFFICES ASSUME o \in annotated
               PROVE "request" \in pod'[o].ann /\ podView[o].phase # "none" /\ pod[o].phase # "none"
    OBVIOUS
  <2>1. LiveInv(o)
    BY DEF SlotInv
  <2>2. podView[o].phase # "none" /\ pod[o].phase # "none" /\ podView[o].ann \subseteq pod[o].ann
    BY <2>1 DEF LiveInv
  <2>3. CASE "request" \in podView[o].ann
    BY <1>2, <2>2, <2>3
  <2>4. CASE "request" \notin podView[o].ann
    BY <1>1, <2>2, <2>4 DEF PodRecord
  <2> QED
    BY <2>2, <2>3, <2>4
<1>4. CASE ~Exists(o)
  <2>1. o \notin comp /\ o \notin annotated /\ o \notin req
    BY <1>4
  <2>2. owner'[o] = [owner[o] EXCEPT !.ann = @ \cup {} \cup {}]
    BY <1>4, <2>1 DEF Written, Exists
  <2>3. owner'[o] = owner[o]
    BY <1>1, <2>2 DEF OwnerRecord
  <2> QED
    BY <1>1, <2>1, <2>3, Untouched
<1>5. CASE Exists(o) /\ (o \in del \/ owner[o].state = "deleting")
  <2>1. owner'[o] = DeletedOwner
    BY <1>5 DEF Written
  <2>2. owner'[o].state = "deleting" /\ owner'[o].ann = {} /\ ~owner'[o].synced
    BY <2>1 DEF DeletedOwner, NoOwner
  <2>3. LiveInv(o)
    BY <1>5 DEF SlotInv
  <2>4. LiveInv(o)'
    BY <1>2, <2>2, <2>3 DEF LiveInv, KnownInv
  <2> QED
    BY <1>2, <1>3, <2>2, <2>4 DEF SlotInv, Exists
<1>6. CASE Exists(o) /\ o \notin del /\ owner[o].state # "deleting"
  <2>1. /\ owner'[o].state = owner[o].state /\ owner'[o].template = owner[o].template
        /\ owner'[o].synced = owner[o].synced
        /\ "complete" \in owner'[o].ann => "complete" \in owner[o].ann \/ o \in comp
        /\ "request" \in owner'[o].ann => "request" \in owner[o].ann \/ o \in req
    BY <1>6, WrittenFields
  <2>2. LiveInv(o)
    BY <1>6 DEF SlotInv
  <2>3. o \in comp => "complete" \in pod[o].ann
    BY <1>6, MarkedIsComplete
  <2>4. KnownInv(o, owner[o])'
    BY <1>2, <1>3, <2>1, <2>2, <2>3 DEF LiveInv, KnownInv
  <2>5. KnownInv(o, ownerView[o])'
    BY <1>2, <2>2 DEF LiveInv, KnownInv
  <2>6. LiveInv(o)'
    BY <1>2, <2>1, <2>2, <2>4, <2>5 DEF LiveInv
  <2> QED
    BY <1>2, <1>3, <1>6, <2>1, <2>6 DEF SlotInv, Exists
<1> QED
  BY <1>4, <1>5, <1>6

\* Writes that annotate no pod, and those of a Finish.
LEMMA OwnerWriteKeeps ==
  ASSUME TypeOK, SyncInv, NEW del, NEW comp, comp \subseteq Marking,
         \A o \in comp : Exists(o),
         owner' = Written(del, comp, {}), pod' = pod, ownerView' = ownerView,
         podView' = podView, busy' = busy
  PROVE  SyncInv'
<1> SUFFICES ASSUME NEW o \in Slots PROVE SlotInv(o)'
  BY DEF SyncInv
<1>1. SlotInv(o) /\ owner'[o] = Written(del, comp, {})[o]
  BY DEF SyncInv
<1>2. o \in comp => o \in Marking /\ Exists(o)
  OBVIOUS
<1>3. pod'[o] = IF o \in {} /\ podView[o].phase # "none" /\ "request" \notin podView[o].ann
                  THEN [pod[o] EXCEPT !.ann = @ \cup {"request"}] ELSE pod[o]
  OBVIOUS
<1>4. o \notin {}
  OBVIOUS
<1> QED
  BY <1>1, <1>2, <1>3, <1>4, WriteKeeps

LEMMA ScaleDownWriteKeeps ==
  ASSUME TypeOK, SyncInv, SyncedIsSeen, Collected, NEW del, NEW req, NEW annotated,
         req \subseteq annotated, annotated \subseteq Remaining, \A o \in annotated : Exists(o),
         owner' = Written(del, Marking, req), AnnotatePods(annotated),
         ownerView' = ownerView, podView' = podView, busy' = busy
  PROVE  SyncInv'
<1> SUFFICES ASSUME NEW o \in Slots PROVE SlotInv(o)'
  BY DEF SyncInv
<1>1. SlotInv(o) /\ owner'[o] = Written(del, Marking, req)[o]
  BY DEF SyncInv
<1>2. o \in Marking => o \in Marking /\ Exists(o)
  BY DEF Collected, Marking, Terminating
<1>3. pod'[o] = IF o \in annotated /\ podView[o].phase # "none" /\ "request" \notin podView[o].ann
                  THEN [pod[o] EXCEPT !.ann = @ \cup {"request"}] ELSE pod[o]
  BY DEF AnnotatePods
<1>4. (o \in annotated => Exists(o) /\ podView[o].phase # "none") /\ (o \in req => o \in annotated)
  BY DEF SyncedIsSeen, Remaining, Verdict
<1> QED
  BY <1>1, <1>2, <1>3, <1>4, WriteKeeps

LEMMA CreateKeeps ==
  ASSUME TypeOK, SyncInv, CreateRunners
  PROVE  SyncInv'
<1> USE DEF SyncUnchanged, view
<1>1. PICK n, fresh :
        owner' = [o \in Slots |-> IF o \in Take(n) THEN NewOwner(fresh)
                                  ELSE Written(Complete, Marking, {})[o]]
  BY DEF CreateRunners
<1>2. Collected /\ pod' = pod /\ ownerView' = ownerView /\ podView' = podView /\ busy' = busy
  BY DEF CreateRunners
<1> SUFFICES ASSUME NEW o \in Slots PROVE SlotInv(o)'
  BY DEF SyncInv
<1>3. SlotInv(o)
  BY DEF SyncInv
<1>4. CASE o \in Take(n)
  <2>1. /\ ownerView[o].state = "none" /\ pod[o].phase = "none" /\ podView[o].phase = "none"
    BY <1>4 DEF Take, Free
  <2>2. owner'[o].state = "live" /\ owner'[o].ann = {} /\ ~owner'[o].synced
    BY <1>1, <1>4 DEF NewOwner
  <2> QED
    BY <1>2, <1>3, <2>1, <2>2 DEF SlotInv, LiveInv, KnownInv, Exists
<1>5. CASE o \notin Take(n)
  <2>1. owner'[o] = Written(Complete, Marking, {})[o]
    BY <1>1, <1>5
  <2>2. o \in Marking => o \in Marking /\ Exists(o)
    BY <1>2 DEF Collected, Marking, Terminating
  <2>3. pod'[o] = IF o \in {} /\ podView[o].phase # "none" /\ "request" \notin podView[o].ann
                    THEN [pod[o] EXCEPT !.ann = @ \cup {"request"}] ELSE pod[o]
    BY <1>2
  <2>4. o \notin {}
    OBVIOUS
  <2> QED
    BY <1>2, <1>3, <2>1, <2>2, <2>3, <2>4, WriteKeeps
<1> QED
  BY <1>4, <1>5

LEMMA InvReconcile ==
  ASSUME TypeOK, SyncInv, SyncedIsSeen, Reconcile \/ CollectFails \/ ScaleDownFails
  PROVE  SyncInv'
<1> USE DEF SyncUnchanged, view
<1>0. Collected => Marking \subseteq Marking /\ \A o \in Marking : Exists(o)
  BY DEF Collected, Marking, Terminating
<1>1. CASE CollectReturns \/ CollectFails
  <2>1. PICK S, del : /\ \A o \in S : Exists(o)
                      /\ owner' = Written((S \cap Complete) \cup del, S \cap Marking, {})
    <3>1. CASE CollectReturns
      BY <3>1 DEF CollectReturns, Collect
    <3>2. CASE CollectFails
      BY <3>2 DEF CollectFails, Collect
    <3> QED
      BY <1>1, <3>1, <3>2
  <2>2. pod' = pod /\ ownerView' = ownerView /\ podView' = podView /\ busy' = busy
    BY <1>1 DEF CollectReturns, CollectFails
  <2> DEFINE D == (S \cap Complete) \cup del
             C == S \cap Marking
  <2>3. owner' = Written(D, C, {}) /\ C \subseteq Marking /\ \A o \in C : Exists(o)
    BY <2>1
  <2> HIDE DEF D, C
  <2> QED
    BY <2>2, <2>3, OwnerWriteKeeps
<1>2. CASE CreateRunners
  BY <1>2, CreateKeeps
<1>3. CASE ScaleDown
  <2>1. PICK K \in Retainable :
          LET redundant == {o \in Current \ K : Requestable(o)} IN
          /\ \A o \in redundant : Exists(o)
          /\ AnnotatePods(redundant)
          /\ Finish(redundant)
    BY <1>3 DEF ScaleDown
  <2> DEFINE R == {o \in Current \ K : Requestable(o)}
  <2>2. /\ \A o \in R : Exists(o)
        /\ AnnotatePods(R) /\ Finish(R)
        /\ R \subseteq Remaining /\ R \subseteq R
    BY <2>1 DEF Current
  <2>3. Collected /\ ownerView' = ownerView /\ podView' = podView /\ busy' = busy
    BY <1>3 DEF ScaleDown
  <2> HIDE DEF R
  <2>4. PICK del : owner' = Written(del, Marking, R)
    BY <2>2 DEF Finish
  <2> QED
    BY <2>2, <2>3, <2>4, ScaleDownWriteKeeps
<1>4. CASE ScaleDownFails
  <2>1. PICK K \in Retainable :
          LET redundant == {o \in Current \ K : Requestable(o)} IN
          \E req \in SUBSET {o \in redundant : Exists(o)} : \E done \in SUBSET req :
              AnnotatePods(req) /\ owner' = Written(Complete, Marking, done)
    BY <1>4 DEF ScaleDownFails
  <2> DEFINE R == {o \in Current \ K : Requestable(o)}
  <2>a. PICK req \in SUBSET {o \in R : Exists(o)} : \E done \in SUBSET req :
          AnnotatePods(req) /\ owner' = Written(Complete, Marking, done)
    BY <2>1
  <2>b. PICK done \in SUBSET req : AnnotatePods(req) /\ owner' = Written(Complete, Marking, done)
    BY <2>a
  <2>2. \A o \in req : o \in Remaining /\ Exists(o)
    BY <2>a DEF Current
  <2>3. Collected /\ ownerView' = ownerView /\ podView' = podView /\ busy' = busy
    BY <1>4 DEF ScaleDownFails
  <2>4. done \subseteq req /\ req \subseteq Remaining
    BY <2>2
  <2> QED
    BY <2>b, <2>2, <2>3, <2>4, ScaleDownWriteKeeps
<1>5. CASE Wait
  <2>1. PICK del : owner' = Written(del, Marking, {})
    BY <1>5 DEF Wait, Finish
  <2>2. Collected /\ pod' = pod /\ ownerView' = ownerView /\ podView' = podView /\ busy' = busy
    BY <1>5 DEF Wait
  <2> QED
    BY <1>0, <2>1, <2>2, OwnerWriteKeeps
<1> QED
  BY <1>1, <1>2, <1>3, <1>4, <1>5 DEF Reconcile

LEMMA InvRunner ==
  ASSUME TypeOK, SyncInv, NEW p \in Slots,
         RunnerStep(p) \/ TimeOut(p) \/ TakeJob(p)
  PROVE  SyncInv'
<1> USE DEF RunnerUnchanged, view
<1>1. ASSUME NEW o \in Slots, o # p PROVE SlotInv(o)'
  <2>1. SlotInv(o)
    BY DEF SyncInv
  <2>2. ownerView'[o] = ownerView[o] /\ podView'[o] = podView[o]
    BY DEF RunnerStep, CreatePod, SyncRunnerStatus, StartPod, FinishJob, Unregister, AgentExits,
           OwnerGone, PodGone, TimeOut, TakeJob
  <2>3. owner'[o] = owner[o]
    BY <1>1 DEF TypeOK, RunnerStep, CreatePod, SyncRunnerStatus, StartPod, FinishJob, Unregister,
           AgentExits, OwnerGone, PodGone, TimeOut, TakeJob
  <2>4. pod'[o] = pod[o]
    BY <1>1 DEF TypeOK, RunnerStep, CreatePod, SyncRunnerStatus, StartPod, FinishJob, Unregister,
           AgentExits, OwnerGone, PodGone, TimeOut, TakeJob, Becomes
  <2>5. o \in busy' <=> o \in busy
    BY <1>1 DEF TypeOK, RunnerStep, CreatePod, SyncRunnerStatus, StartPod, FinishJob, Unregister,
           AgentExits, OwnerGone, PodGone, TimeOut, TakeJob
  <2> QED
    BY <2>1, <2>2, <2>3, <2>4, <2>5, Untouched
<1>2. SlotInv(p)'
  <2>0. /\ SlotInv(p) /\ pod[p] \in PodRecord /\ owner[p] \in OwnerRecord
        /\ pod \in [Slots -> PodRecord] /\ owner \in [Slots -> OwnerRecord]
    BY DEF SyncInv, TypeOK
  <2>1. CASE CreatePod(p)
    <3>1. /\ pod[p].phase = "none" /\ owner[p].state = "live"
          /\ owner'[p] = owner[p] /\ ownerView'[p] = ownerView[p] /\ podView'[p] = podView[p]
          /\ busy' = busy
      BY <2>1 DEF CreatePod
    <3>2. pod'[p].phase = "pending" /\ ~pod'[p].deleting
      BY <2>0, <2>1 DEF CreatePod
    <3> QED
      BY <2>0, <3>1, <3>2 DEF SlotInv, LiveInv, KnownInv, Exists
  <2>2. CASE SyncRunnerStatus(p)
    <3>1. /\ owner[p].state = "live" /\ pod'[p] = pod[p]
          /\ ownerView'[p] = ownerView[p] /\ podView'[p] = podView[p]
          /\ busy' = busy
      BY <2>2 DEF SyncRunnerStatus
    <3>2. owner'[p] = [owner[p] EXCEPT !.synced = TRUE]
      BY <2>0, <2>2 DEF SyncRunnerStatus
    <3>3. /\ owner'[p].state = owner[p].state /\ owner'[p].ann = owner[p].ann
          /\ owner'[p].template = owner[p].template
      BY <2>0, <3>2 DEF OwnerRecord
    <3> QED
      BY <2>0, <3>1, <3>3 DEF SlotInv, LiveInv, KnownInv, Exists
  <2>3. ASSUME NEW from, NEW to, Becomes(p, from, to), to # "none",
               "none" \notin from, "completed" \notin from,
               p \in busy => "running" \notin from,
               owner' = owner, ownerView' = ownerView, podView' = podView, busy' = busy
        PROVE  SlotInv(p)'
    <3>1. pod[p].phase \in from /\ ~pod[p].deleting /\ pod'[p] = [pod[p] EXCEPT !.phase = to]
      BY <2>0, <2>3 DEF Becomes
    <3>2. pod'[p].phase = to /\ pod'[p].ann = pod[p].ann /\ pod'[p].deleting = pod[p].deleting
      BY <2>0, <3>1 DEF PodRecord
    <3> QED
      BY <2>0, <2>3, <3>1, <3>2 DEF SlotInv, LiveInv, KnownInv, Exists
  <2>4. CASE StartPod(p)
    BY <2>3, <2>4 DEF StartPod
  <2>5. CASE TimeOut(p)
    BY <2>3, <2>5 DEF TimeOut
  <2>6. CASE AgentExits(p)
    <3>1. p \notin busy
      BY <2>0, <2>6 DEF AgentExits, SlotInv
    <3> QED
      BY <2>3, <2>6, <3>1 DEF AgentExits
  <2>7. CASE TakeJob(p)
    BY <2>0, <2>7 DEF TakeJob, SlotInv, LiveInv, KnownInv, Exists
  <2>8. CASE FinishJob(p)
    <3>1. /\ p \in busy /\ p \notin busy'
          /\ owner'[p] = owner[p] /\ ownerView'[p] = ownerView[p] /\ podView'[p] = podView[p]
      BY <2>8 DEF FinishJob
    <3>2. \E ph \in {"completed", pod[p].phase} : pod'[p] = [pod[p] EXCEPT !.phase = ph]
      BY <2>0, <2>8 DEF FinishJob
    <3>3. /\ pod'[p].phase \in {"completed", pod[p].phase} /\ pod'[p].ann = pod[p].ann
          /\ pod'[p].deleting = pod[p].deleting
      BY <2>0, <3>2 DEF PodRecord
    <3> QED
      BY <2>0, <3>1, <3>3 DEF SlotInv, LiveInv, KnownInv, Exists
  <2>9. CASE Unregister(p)
    <3>1. /\ pod[p].phase # "none" /\ p \notin busy /\ busy' = busy
          /\ owner'[p] = owner[p] /\ ownerView'[p] = ownerView[p] /\ podView'[p] = podView[p]
      BY <2>9 DEF Unregister
    <3>2. pod'[p] = [pod[p] EXCEPT !.ann = @ \cup {"complete"}]
      BY <2>0, <2>9 DEF Unregister
    <3>3. /\ pod'[p].phase = pod[p].phase /\ pod'[p].ann = pod[p].ann \cup {"complete"}
          /\ pod'[p].deleting = pod[p].deleting
      BY <2>0, <3>2 DEF PodRecord
    <3> QED
      BY <2>0, <3>1, <3>3 DEF SlotInv, LiveInv, KnownInv, Exists
  <2>10. CASE OwnerGone(p)
    <3>1. ownerView'[p] = ownerView[p] /\ podView'[p] = podView[p] /\ busy' = busy
      BY <2>10 DEF OwnerGone
    <3>2. owner'[p] = NoOwner
      BY <2>0, <2>10 DEF OwnerGone
    <3>3. pod'[p] = [pod[p] EXCEPT !.deleting = (pod[p].phase # "none"), !.ann = {}]
      BY <2>0, <2>10 DEF OwnerGone
    <3>4. /\ pod'[p].phase = pod[p].phase /\ pod'[p].ann = {}
          /\ pod'[p].deleting = (pod[p].phase # "none")
      BY <2>0, <3>3 DEF PodRecord
    <3>5. pod[p].phase = "none" => ~pod'[p].deleting
      BY <3>4
    <3>6. ~Exists(p)' /\ owner'[p].state = "none" /\ owner'[p].ann = {} /\ ~owner'[p].synced
      BY <3>2 DEF Exists, NoOwner
    <3>7. p \in busy' => pod'[p].phase = "running" /\ "complete" \notin pod'[p].ann
      BY <2>0, <3>1, <3>4 DEF SlotInv
    <3> QED
      BY <2>0, <3>1, <3>4, <3>5, <3>6, <3>7 DEF SlotInv
  <2>11. CASE PodGone(p)
    <3>1. /\ owner'[p] = owner[p] /\ ownerView'[p] = ownerView[p] /\ podView'[p] = podView[p]
          /\ p \notin busy' /\ pod[p].deleting
      BY <2>11 DEF PodGone
    <3>2. pod'[p] = NoPod
      BY <2>0, <2>11 DEF PodGone
    <3>3. ~Exists(p)
      BY <2>0, <3>1 DEF SlotInv, LiveInv
    <3> QED
      BY <2>0, <3>1, <3>2, <3>3 DEF SlotInv, Exists, NoPod
  <2> QED
    BY <2>1, <2>2, <2>4, <2>5, <2>6, <2>7, <2>8, <2>9, <2>10, <2>11 DEF RunnerStep
<1> QED
  BY <1>1, <1>2 DEF SyncInv

LEMMA InvEnvironment ==
  ASSUME TypeOK, SyncInv,
         \/ InformerSyncOwners \/ InformerSyncPods \/ DelayElapses \/ UpdateTemplate
         \/ \E n \in 0..MaxReplicas : SetReplicas(n)
  PROVE  SyncInv'
<1> USE DEF view
<1> SUFFICES ASSUME NEW o \in Slots PROVE SlotInv(o)'
  BY DEF SyncInv
<1>0. SlotInv(o) /\ owner[o] \in OwnerRecord /\ ownerView[o] \in OwnerRecord
  BY DEF SyncInv, TypeOK
<1>1. CASE InformerSyncOwners
  BY <1>0, <1>1 DEF InformerSyncOwners, SlotInv, LiveInv, KnownInv, Exists
<1>2. CASE InformerSyncPods
  BY <1>0, <1>2 DEF InformerSyncPods, SlotInv, LiveInv, KnownInv, Exists
<1>3. CASE DelayElapses \/ UpdateTemplate \/ \E n \in 0..MaxReplicas : SetReplicas(n)
  <2>1. pod' = pod /\ podView' = podView /\ busy' = busy
    BY <1>3 DEF DelayElapses, UpdateTemplate, SetReplicas
  <2>2. owner'[o] \in {owner[o], [owner[o] EXCEPT !.fresh = FALSE]}
    BY <1>3 DEF DelayElapses, UpdateTemplate, SetReplicas, NoneFresh
  <2>3. ownerView'[o] \in {ownerView[o], [ownerView[o] EXCEPT !.fresh = FALSE]}
    BY <1>3 DEF DelayElapses, UpdateTemplate, SetReplicas, NoneFresh
  <2>4. /\ owner'[o].state = owner[o].state /\ owner'[o].ann = owner[o].ann
        /\ owner'[o].template = owner[o].template /\ owner'[o].synced = owner[o].synced
    BY <1>0, <2>2 DEF OwnerRecord
  <2>5. /\ ownerView'[o].state = ownerView[o].state /\ ownerView'[o].ann = ownerView[o].ann
        /\ ownerView'[o].template = ownerView[o].template
        /\ ownerView'[o].synced = ownerView[o].synced
    BY <1>0, <2>3 DEF OwnerRecord
  <2> QED
    BY <1>0, <2>1, <2>4, <2>5 DEF SlotInv, LiveInv, KnownInv, Exists
<1> QED
  BY <1>1, <1>2, <1>3

LEMMA InvNext == TypeOK /\ SyncInv /\ SyncedIsSeen /\ [Next]_vars => SyncInv'
<1>1. TypeOK /\ SyncInv /\ UNCHANGED vars => SyncInv'
  BY Untouched DEF SyncInv, vars
<1> QED
  BY <1>1, InvReconcile, InvRunner, InvEnvironment DEF Next

-----------------------------------------------------------------------------
(* Owners that are synced, of a RunnerReplicaSet.                            *)

\* The cache of pods shows the pod of a Runner that is synced, or that the other cache shows
\* as synced.
SeenInv(o) ==
    Exists(o) /\ (owner[o].synced \/ ownerView[o].synced) => podView[o].phase # "none"

AllSeen == \A o \in Slots : SeenInv(o)

LEMMA SeenInit == Init => AllSeen
  BY DEF Init, AllSeen, SeenInv, Exists, NoOwner

LEMMA SeenImplies == AllSeen => SyncedIsSeen
  BY DEF AllSeen, SeenInv, SyncedIsSeen

\* A Reconcile synchronises no owner, and creates none that is synced.
LEMMA ReconcileSyncs ==
  ASSUME TypeOK, SyncInv, Reconcile \/ CollectFails \/ ScaleDownFails, NEW o \in Slots
  PROVE  /\ owner'[o].synced => Exists(o) /\ owner[o].synced
         /\ ~Exists(o) /\ owner'[o].state # "none" => ~ownerView[o].synced
<1>0. SlotInv(o) /\ owner[o] \in OwnerRecord
  BY DEF SyncInv, TypeOK
<1>1. ASSUME NEW del, NEW comp, NEW req, owner'[o] = Written(del, comp, req)[o]
      PROVE  /\ owner'[o].synced => Exists(o) /\ owner[o].synced
             /\ ~Exists(o) => owner'[o].state = "none"
  <2>1. CASE (o \in del /\ Exists(o)) \/ owner[o].state = "deleting"
    BY <1>1, <2>1 DEF Written, DeletedOwner, NoOwner, Exists
  <2>2. CASE ~((o \in del /\ Exists(o)) \/ owner[o].state = "deleting")
    <3>1. owner'[o].synced = owner[o].synced /\ owner'[o].state = owner[o].state
      BY <1>0, <1>1, <2>2 DEF Written, OwnerRecord
    <3> QED
      BY <1>0, <3>1 DEF SlotInv, Exists
  <2> QED
    BY <2>1, <2>2
<1>2. CASE CreateRunners
  <2>1. PICK n, fresh :
          owner' = [p \in Slots |-> IF p \in Take(n) THEN NewOwner(fresh)
                                    ELSE Written(Complete, Marking, {})[p]]
    BY <1>2 DEF CreateRunners
  <2>2. CASE o \in Take(n)
    <3>1. owner'[o] = NewOwner(fresh) /\ ownerView[o].state = "none"
      BY <2>1, <2>2 DEF Take, Free
    <3> QED
      BY <1>0, <3>1 DEF NewOwner, SlotInv
  <2>3. CASE o \notin Take(n)
    <3>1. owner'[o] = Written(Complete, Marking, {})[o]
      BY <2>1, <2>3
    <3> QED
      BY <1>1, <3>1
  <2> QED
    BY <2>2, <2>3
<1>3. CASE CollectReturns \/ CollectFails
  <2>1. PICK del, comp : owner' = Written(del, comp, {})
    BY <1>3 DEF CollectReturns, CollectFails, Collect
  <2> QED
    BY <1>1, <2>1
<1>4. CASE ScaleDown \/ Wait \/ ScaleDownFails
  <2>1. ASSUME NEW req, Finish(req) PROVE \E del : owner' = Written(del, Marking, req)
    BY <2>1 DEF Finish
  <2>2. ScaleDown \/ Wait => \E req : Finish(req)
    BY DEF ScaleDown, Wait
  <2>3. ScaleDownFails => \E req : owner' = Written(Complete, Marking, req)
    BY DEF ScaleDownFails
  <2>4. PICK del, req : owner' = Written(del, Marking, req)
    BY <1>4, <2>1, <2>2, <2>3
  <2> QED
    BY <1>1, <2>4
<1> QED
  BY <1>2, <1>3, <1>4 DEF Reconcile

LEMMA SeenNext ==
  ASSUME ~StatefulSets, TypeOK, SyncInv, AllSeen, [Next]_vars
  PROVE  AllSeen'
<1> SUFFICES ASSUME NEW o \in Slots PROVE SeenInv(o)'
  BY DEF AllSeen
<1>0. /\ SeenInv(o) /\ SlotInv(o) /\ owner[o] \in OwnerRecord /\ ownerView[o] \in OwnerRecord
      /\ owner \in [Slots -> OwnerRecord]
  BY DEF AllSeen, SyncInv, TypeOK
<1>1. CASE Reconcile \/ CollectFails \/ ScaleDownFails
  <2>1. ownerView' = ownerView /\ podView' = podView
    BY <1>1 DEF Reconcile, CollectReturns, CreateRunners, ScaleDown, Wait, CollectFails,
       ScaleDownFails, SyncUnchanged, view
  <2> QED
    BY <1>0, <1>1, <2>1, ReconcileSyncs DEF SeenInv, Exists
<1>2. ASSUME NEW p \in Slots, RunnerStep(p) \/ TimeOut(p) \/ TakeJob(p) PROVE SeenInv(o)'
  <2>1. ownerView' = ownerView /\ podView' = podView
    BY <1>2 DEF RunnerStep, CreatePod, SyncRunnerStatus, StartPod, FinishJob, Unregister, AgentExits,
           OwnerGone, PodGone, TimeOut, TakeJob, RunnerUnchanged, view
  <2>2. CASE SyncRunnerStatus(p)
    <3>1. podView[p].phase # "none"
      BY <2>2 DEF SyncRunnerStatus
    <3>2. CASE o = p
      BY <2>1, <3>1, <3>2 DEF SeenInv
    <3>3. CASE o # p
      <4>1. owner'[o] = owner[o]
        BY <1>0, <2>2, <3>3 DEF SyncRunnerStatus
      <4> QED
        BY <1>0, <2>1, <4>1 DEF SeenInv, Exists
    <3> QED
      BY <3>2, <3>3
  <2>3. CASE OwnerGone(p)
    <3>1. owner'[o] = IF o = p THEN NoOwner ELSE owner[o]
      BY <1>0, <2>3 DEF OwnerGone
    <3> QED
      BY <1>0, <2>1, <3>1 DEF SeenInv, Exists, NoOwner
  <2>4. CASE owner' = owner
    BY <1>0, <2>1, <2>4 DEF SeenInv, Exists
  <2> QED
    BY <1>2, <2>2, <2>3, <2>4 DEF RunnerStep, CreatePod, StartPod, FinishJob, Unregister,
       AgentExits, PodGone, TimeOut, TakeJob
<1>3. CASE InformerSyncOwners
  BY <1>0, <1>3 DEF InformerSyncOwners, SeenInv, Exists
<1>4. CASE InformerSyncPods
  BY <1>0, <1>4 DEF InformerSyncPods, SeenInv, SlotInv, LiveInv, Exists
<1>5. CASE DelayElapses \/ UpdateTemplate \/ \E n \in 0..MaxReplicas : SetReplicas(n)
  <2>1. podView' = podView
    BY <1>5 DEF DelayElapses, UpdateTemplate, SetReplicas, view
  <2>2. owner'[o] \in {owner[o], [owner[o] EXCEPT !.fresh = FALSE]}
    BY <1>5 DEF DelayElapses, UpdateTemplate, SetReplicas, NoneFresh
  <2>3. ownerView'[o] \in {ownerView[o], [ownerView[o] EXCEPT !.fresh = FALSE]}
    BY <1>5 DEF DelayElapses, UpdateTemplate, SetReplicas, NoneFresh, view
  <2>4. /\ owner'[o].state = owner[o].state /\ owner'[o].synced = owner[o].synced
        /\ ownerView'[o].synced = ownerView[o].synced
    BY <1>0, <2>2, <2>3 DEF OwnerRecord
  <2> QED
    BY <1>0, <2>1, <2>4 DEF SeenInv, Exists
<1>6. CASE UNCHANGED vars
  BY <1>0, <1>6 DEF vars, SeenInv, Exists
<1> QED
  BY <1>1, <1>2, <1>3, <1>4, <1>5, <1>6 DEF Next

-----------------------------------------------------------------------------
(* The properties *)

\* SyncedIsSeen holds of a RunnerReplicaSet of any size: the runner controller sets the phase of
\* a Runner, which makes it synced, from the pod that the cache shows, and a cache does not go
\* back.  (The status of a StatefulSet comes from Kubernetes, and there it does not hold.)
THEOREM RunnersAreSeen == ~StatefulSets /\ Safety => []SyncedIsSeen
<1>1. Safety => []TypeOK
  BY TypeCorrect
<1>2. Init => SyncInv /\ AllSeen
  BY InvInit, SeenInit
<1>3. ASSUME ~StatefulSets PROVE Safety => []SyncedIsSeen
  <2>1. TypeOK /\ SyncInv /\ AllSeen /\ [Next]_vars => (SyncInv /\ AllSeen)'
    BY <1>3, InvNext, SeenNext, SeenImplies
  <2> QED
    BY <1>1, <1>2, <2>1, SeenImplies, PTL DEF Safety
<1> QED
  BY <1>3

\* Types and the invariant together, for Runners and for StatefulSets.
LEMMA Invariance == Safety /\ []SyncedIsSeen => [](TypeOK /\ SyncInv)
  BY TypeCorrect, InvInit, InvNext, PTL DEF Safety

\* RequestReachesPod holds of a set of any size, of Runners or of StatefulSets, as long as the
\* synced owners are seen: the patches of 1/4 never miss the pod of an owner they annotate,
\* and a pod that is created later belongs to an owner that has not been annotated.
THEOREM SeenRequestsReachPods == Safety /\ []SyncedIsSeen => []RequestReachesPod
<1>1. SyncInv => RequestReachesPod
  BY DEF SyncInv, SlotInv, LiveInv, KnownInv, Exists, RequestReachesPod
<1> QED
  BY <1>1, Invariance, PTL

\* So it holds of a RunnerReplicaSet of any size, without more.
THEOREM RequestsReachPods == ~StatefulSets /\ Safety => []RequestReachesPod
  BY RunnersAreSeen, SeenRequestsReachPods, PTL

\* A Reconcile deletes only the owners it means to.
LEMMA OnlyDeleted ==
  ASSUME TypeOK, NEW o \in Slots, Deletes(o), NEW del, NEW comp, NEW req,
         owner' = Written(del, comp, req)
  PROVE  o \in del
<1> SUFFICES ASSUME o \notin del PROVE FALSE
  OBVIOUS
<1>1. owner'[o].state = owner[o].state
  BY WrittenFields DEF Deletes
<1> QED
  BY <1>1 DEF Deletes

\* What a Reconcile means to delete: an owner marked complete, one whose runner has completed,
\* and one of an outdated template.  No runner of the first two is running a job.
LEMMA DeletedIsIdle ==
  ASSUME TypeOK, SyncInv, NEW o \in Slots, owner[o].state = "live",
         owner[o].template = rs.template,
         o \in Complete \cup Completed \cup (Remaining \ Current)
  PROVE  o \notin busy
<1>1. SlotInv(o) /\ LiveInv(o)
  BY DEF SyncInv, SlotInv, Exists
<1>2. CASE o \in Complete
  BY <1>1, <1>2 DEF Complete, Verdict, SlotInv, LiveInv, KnownInv
<1>3. CASE o \in Completed
  BY <1>1, <1>3 DEF Completed, Verdict, SlotInv, LiveInv
<1>4. CASE o \in Remaining \ Current
  BY <1>1, <1>4 DEF Remaining, Current, Verdict, LiveInv
<1> QED
  BY <1>2, <1>3, <1>4

\* Finish deletes the owners marked complete and at most an outdated one.
LEMMA FinishDeletes ==
  ASSUME NEW req, Finish(req)
  PROVE  \E del \in SUBSET (Complete \cup (Remaining \ Current)) : owner' = Written(del, Marking, req)
<1>1. CASE \E o \in Remaining \ Current : owner' = Written(Complete \cup {o}, Marking, req)
  <2>1. PICK o \in Remaining \ Current : owner' = Written(Complete \cup {o}, Marking, req)
    BY <1>1
  <2> DEFINE D == Complete \cup {o}
  <2>2. D \in SUBSET (Complete \cup (Remaining \ Current)) /\ owner' = Written(D, Marking, req)
    BY <2>1
  <2> HIDE DEF D
  <2> QED
    BY <2>2
<1>2. CASE owner' = Written(Complete, Marking, req)
  BY <1>2
<1> QED
  BY <1>1, <1>2 DEF Finish

LEMMA ReconcileDeletes ==
  ASSUME TypeOK, Reconcile \/ CollectFails \/ ScaleDownFails, NEW o \in Slots, Deletes(o)
  PROVE  o \in Complete \cup Completed \cup (Remaining \ Current)
<1>1. CASE CollectReturns \/ CollectFails
  <2>1. \E S, del : del \subseteq Completed /\ Collect(S, del)
    <3>1. CASE CollectReturns
      <4>1. PICK S \in SUBSET Terminating :
              (\E p \in Completed : Collect(S, {p})) \/ Collect(S, {})
        BY <3>1 DEF CollectReturns
      <4>2. ASSUME NEW p \in Completed, Collect(S, {p}) PROVE {p} \subseteq Completed /\ Collect(S, {p})
        BY <4>2
      <4> QED
        BY <4>1, <4>2
    <3>2. CASE CollectFails
      BY <3>2 DEF CollectFails
    <3> QED
      BY <1>1, <3>1, <3>2
  <2>2. PICK S, del : del \subseteq Completed /\ Collect(S, del)
    BY <2>1
  <2> DEFINE D == (S \cap Complete) \cup del
             C == S \cap Marking
  <2>3. owner' = Written(D, C, {}) /\ D \subseteq Complete \cup Completed
    BY <2>2 DEF Collect
  <2> HIDE DEF D, C
  <2>4. o \in D
    BY <2>3, OnlyDeleted
  <2> QED
    BY <2>3, <2>4
<1>2. CASE CreateRunners
  <2>1. PICK n, fresh :
          owner' = [p \in Slots |-> IF p \in Take(n) THEN NewOwner(fresh)
                                    ELSE Written(Complete, Marking, {})[p]]
    BY <1>2 DEF CreateRunners
  <2>2. o \notin Take(n)
    BY DEF Take, Free, Deletes, Exists
  <2>3. owner'[o] = Written(Complete, Marking, {})[o]
    BY <2>1, <2>2
  <2>4. o \notin Complete => owner'[o].state = owner[o].state
    BY <2>3, WrittenFields DEF Deletes
  <2> QED
    BY <2>4 DEF Deletes
<1>3. CASE ScaleDown \/ Wait
  <2>1. PICK req : Finish(req)
    BY <1>3 DEF ScaleDown, Wait
  <2>2. PICK del \in SUBSET (Complete \cup (Remaining \ Current)) : owner' = Written(del, Marking, req)
    BY <2>1, FinishDeletes
  <2>3. o \in del
    BY <2>2, OnlyDeleted
  <2> QED
    BY <2>3
<1>4. CASE ScaleDownFails
  <2>1. PICK req : owner' = Written(Complete, Marking, req)
    BY <1>4 DEF ScaleDownFails
  <2>2. o \in Complete
    BY <2>1, OnlyDeleted
  <2> QED
    BY <2>2
<1> QED
  BY <1>1, <1>2, <1>3, <1>4 DEF Reconcile

\* Nobody but a Reconcile deletes an owner.
LEMMA OthersDeleteNothing ==
  ASSUME TypeOK, NEW o \in Slots, Deletes(o), [Next]_vars
  PROVE  Reconcile \/ CollectFails \/ ScaleDownFails
<1>0. owner[o] \in OwnerRecord /\ owner'[o].state # owner[o].state /\ owner'[o].state = "deleting"
  BY DEF TypeOK, Deletes
<1>1. ASSUME NEW p \in Slots, RunnerStep(p) \/ TimeOut(p) \/ TakeJob(p) PROVE FALSE
  <2>1. CASE SyncRunnerStatus(p)
    <3>1. owner'[o] = IF o = p THEN [owner[o] EXCEPT !.synced = TRUE] ELSE owner[o]
      BY <2>1 DEF SyncRunnerStatus, TypeOK
    <3> QED
      BY <1>0, <3>1 DEF OwnerRecord
  <2>2. CASE OwnerGone(p)
    <3>1. owner'[o] = IF o = p THEN NoOwner ELSE owner[o]
      BY <2>2 DEF OwnerGone, TypeOK
    <3> QED
      BY <1>0, <3>1 DEF NoOwner
  <2>3. CASE owner' = owner
    BY <1>0, <2>3
  <2> QED
    BY <1>1, <2>1, <2>2, <2>3 DEF RunnerStep, CreatePod, StartPod, FinishJob, Unregister,
       AgentExits, PodGone, TimeOut, TakeJob
<1>2. CASE owner' = owner \/ owner' = NoneFresh(owner)
  <2>1. owner'[o] \in {owner[o], [owner[o] EXCEPT !.fresh = FALSE]}
    BY <1>2 DEF NoneFresh
  <2> QED
    BY <1>0, <2>1 DEF OwnerRecord
<1>3. InformerSyncOwners \/ InformerSyncPods \/ UpdateTemplate \/ UNCHANGED vars => owner' = owner
  BY DEF InformerSyncOwners, InformerSyncPods, UpdateTemplate, vars
<1>4. DelayElapses \/ (\E n \in 0..MaxReplicas : SetReplicas(n))
        => owner' = owner \/ owner' = NoneFresh(owner)
  BY DEF DelayElapses, SetReplicas
<1> QED
  BY <1>1, <1>2, <1>3, <1>4 DEF Next

\* ScaleDownSparesJobs holds of a set of any size, of Runners or of StatefulSets, as long as the
\* synced owners are seen: a mark or a completion seen in a cache is never withdrawn from the pod
\* while its owner exists.
THEOREM SeenJobsAreSpared == Safety /\ []SyncedIsSeen => ScaleDownSparesJobs
<1>1. TypeOK /\ SyncInv /\ [Next]_vars
        => [\A o \in Slots : Deletes(o) /\ owner[o].template = rs.template => o \notin busy]_vars
  <2> SUFFICES ASSUME TypeOK, SyncInv, [Next]_vars, NEW o \in Slots, Deletes(o),
                      owner[o].template = rs.template
               PROVE  o \notin busy
    OBVIOUS
  <2>1. Reconcile \/ CollectFails \/ ScaleDownFails
    BY OthersDeleteNothing
  <2>2. o \in Complete \cup Completed \cup (Remaining \ Current)
    BY <2>1, ReconcileDeletes
  <2> QED
    BY <2>2, DeletedIsIdle DEF Deletes
<1> QED
  BY <1>1, Invariance, PTL DEF Safety, ScaleDownSparesJobs

\* So a RunnerReplicaSet of any size spares the jobs, whatever the caches show.  A RunnerSet does
\* not.
THEOREM JobsAreSpared == ~StatefulSets /\ Safety => ScaleDownSparesJobs
  BY RunnersAreSeen, SeenJobsAreSpared, PTL
=============================================================================
