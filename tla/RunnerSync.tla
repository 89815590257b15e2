----------------------------- MODULE RunnerSync -----------------------------
(***************************************************************************)
(* How a RunnerReplicaSet (or a RunnerSet) keeps the number of its runners *)
(* at the desired one: syncRunnerPodsOwners and collectPodsForOwners of    *)
(* controllers/runner_pod_owner.go, over every owner of the set.           *)
(*                                                                         *)
(* An owner is a Runner, or a StatefulSet with one replica, and has at     *)
(* most one pod.  A Reconcile is one step: it works on what the informer   *)
(* caches of owners and of pods show, each of which lags on its own, and   *)
(* writes to the real objects.  Caches list objects in any order, so which *)
(* writes precede a failed one or an early return is arbitrary.  The life  *)
(* of one runner is reduced to what RunnerGracefulStop guarantees of it.   *)
(*                                                                         *)
(* Abstractions.  Time is the two comparisons the code makes of the last   *)
(* sync time; as both hold of the last one if they hold of any, that is    *)
(* whether they hold of some one.  Creation times have seconds: owners of  *)
(* one batch are equal.                                                    *)
(***************************************************************************)
EXTENDS Naturals, FiniteSets

CONSTANTS
    StatefulSets, \* the owners are the StatefulSets of a RunnerSet, not Runners
    MaxOwners,    \* bound: owners at a time (a quota)
    MaxReplicas,  \* bound: the largest desired replicas
    Templates,    \* bound: template hashes of the set over time, 1..Templates
    MaxChanges,   \* bound: changes of the set's spec
    MaxJobs,      \* bound: jobs that GitHub assigns
    MaxFails      \* bound: failed writes, registration timeouts, creations on an outdated list

ASSUME SyncAssumption ==
    /\ StatefulSets \in BOOLEAN
    /\ MaxOwners \in Nat /\ MaxReplicas \in Nat \ {0}
    /\ Templates \in Nat \ {0} /\ MaxChanges \in Nat /\ MaxJobs \in Nat /\ MaxFails \in Nat

VARIABLES
    rs,         \* the RunnerReplicaSet's spec
    status,     \* the replicas in its status
    owner, pod, \* the owners and their pods in the API server
    ownerView,  \* the owners in the controllers' informer cache
    podView,    \* the pods in the controllers' informer cache
    order,      \* pairs of owners, the second one created after the first
    busy,       \* owners whose runner is running a job
    used        \* how much of each bound is used up

view == <<ownerView, podView>>
vars == <<rs, status, owner, pod, ownerView, podView, order, busy, used>>

-----------------------------------------------------------------------------
(* Types *)

\* Names for owners
Slots == 1..MaxOwners

Keys == {"request", "complete"}

\* @fresh: the runners are ephemeral, the sync time is after the set's EffectiveTime, and
\* DefaultRunnerPodRecreationDelayAfterWebhookScale has not passed since.
OwnerRecord ==
    [state : {"none", "live", "deleting"}, template : 1..Templates,
     ann : SUBSET Keys, synced : BOOLEAN, fresh : BOOLEAN]

NoOwner == [state |-> "none", template |-> 1, ann |-> {}, synced |-> FALSE,
            fresh |-> FALSE]

\* Nothing looks at the other fields of an owner that is being deleted.
DeletedOwner == [NoOwner EXCEPT !.state = "deleting"]

\* A "timedout" pod is Running without a runner ID for longer than registrationTimeout.
PodRecord ==
    [phase : {"none", "pending", "timedout", "running", "completed"},
     ann : SUBSET Keys, deleting : BOOLEAN]

NoPod == [phase |-> "none", ann |-> {}, deleting |-> FALSE]

TypeOK ==
    /\ rs \in [replicas : 0..MaxReplicas, template : 1..Templates, ephemeral : BOOLEAN]
    /\ status \in 0..MaxOwners
    /\ owner \in [Slots -> OwnerRecord] /\ ownerView \in [Slots -> OwnerRecord]
    /\ pod \in [Slots -> PodRecord] /\ podView \in [Slots -> PodRecord]
    /\ order \subseteq Slots \X Slots
    /\ busy \subseteq Slots
    /\ used \in [changes : 0..MaxChanges, jobs : 0..MaxJobs, fails : 0..MaxFails]

Init ==
    /\ rs \in [replicas : 1..MaxReplicas, template : {1}, ephemeral : BOOLEAN]
    /\ status = 0
    /\ owner = [o \in Slots |-> NoOwner] /\ ownerView = owner
    /\ pod = [o \in Slots |-> NoPod] /\ podView = pod
    /\ order = {}
    /\ busy = {}
    /\ used = [changes |-> 0, jobs |-> 0, fails |-> 0]

Bound == [changes |-> MaxChanges, jobs |-> MaxJobs, fails |-> MaxFails]

Spend(what) ==
    /\ used[what] < Bound[what]
    /\ used' = [used EXCEPT ![what] = @ + 1]

-----------------------------------------------------------------------------
(* collectPodsForOwners *)

Exists(o) == owner[o].state # "none"

\* Mutant: the request counts as completion.
DeletionSafeBug(o) ==
    podView[o].phase = "none" \/ "request" \in podView[o].ann \/ podView[o].deleting

\* deletionSafe == res.total, over the (at most one) pod of the owner
DeletionSafe(o) ==
    podView[o].phase = "none" \/ "complete" \in podView[o].ann \/ podView[o].deleting

\* Mutant: owners that are not synced yet are handled.
VerdictBug(o) ==
    IF ownerView[o].state # "live" THEN "skip"
    ELSE IF "complete" \in ownerView[o].ann THEN "complete"
    ELSE IF "request" \in ownerView[o].ann /\ DeletionSafe(o) THEN "mark"
    ELSE IF podView[o].phase = "completed" THEN "completed"
    ELSE "remaining"

\* What becomes of an owner, by the first test that applies: an owner that is not listed or is
\* being deleted is skipped, 3/4 deletes it, 2/4 annotates it as complete, a completed one is
\* deleted and ends the Reconcile, one that is not synced ends the Reconcile.
Verdict(o) ==
    IF ownerView[o].state # "live" THEN "skip"
    ELSE IF "complete" \in ownerView[o].ann THEN "complete"
    ELSE IF "request" \in ownerView[o].ann /\ DeletionSafe(o) THEN "mark"
    ELSE IF podView[o].phase = "completed" THEN "completed"
    ELSE IF ~ownerView[o].synced THEN "unsynced"
    ELSE "remaining"

Complete    == {o \in Slots : Verdict(o) = "complete"}
Marking     == {o \in Slots : Verdict(o) = "mark"}
Terminating == {o \in Slots : Verdict(o) \in {"complete", "mark"}}
Completed   == {o \in Slots : Verdict(o) = "completed"}
Unsynced    == {o \in Slots : Verdict(o) = "unsynced"}

\* podsForOwnersPerTemplateHash
Remaining   == {o \in Slots : Verdict(o) = "remaining"}

\* The owners after deleting @del and annotating @comp and @req.
Written(del, comp, req) ==
    [o \in Slots |->
        IF (o \in del /\ Exists(o)) \/ owner[o].state = "deleting" THEN DeletedOwner
        ELSE [owner[o] EXCEPT !.ann = @ \cup (IF o \in comp THEN {"complete"} ELSE {})
                                        \cup (IF o \in req THEN {"request"} ELSE {})]]

\* The writes of the termination steps 2/4 and 3/4 for the owners @S, and the deletion
\* of the owners @del.
Collect(S, del) == owner' = Written((S \cap Complete) \cup del, S \cap Marking, {})

SyncUnchanged == UNCHANGED <<rs, view, busy>>

\* An owner that is completed or not synced ends the Reconcile; only the owners listed
\* before it are handled.
CollectReturns ==
    /\ \E S \in SUBSET Terminating :
         /\ \A o \in S : Exists(o)
         /\ \/ \E o \in Completed : Exists(o) /\ Collect(S, {o})
            \/ Unsynced # {} /\ Collect(S, {})
    /\ UNCHANGED <<status, pod, order, used>> /\ SyncUnchanged

\* A write fails: of an owner that is gone, or for any reason.
CollectFails ==
    /\ Terminating \cup Completed # {}
    /\ \E S \in SUBSET Terminating :
         /\ \A o \in S : Exists(o)
         /\ Collect(S, {})
    /\ \/ (\E o \in Terminating \cup Completed : ~Exists(o)) /\ UNCHANGED used
       \/ Spend("fails")
    /\ UNCHANGED <<status, pod, order>> /\ SyncUnchanged

-----------------------------------------------------------------------------
(* syncRunnerPodsOwners, once every owner has been collected.               *)

Collected ==
    /\ Completed = {} /\ Unsynced = {}
    /\ \A o \in Terminating : Exists(o)

Current == {o \in Remaining : ownerView[o].template = rs.template}

\* A pod that is Running counts as running even while it is being deleted.
Pending == {o \in Current : podView[o].phase = "pending" /\ ~podView[o].deleting}
Running == {o \in Current : podView[o].phase = "running"}

MaybeRunning == Cardinality(Pending) + Cardinality(Running)

WantMoreRunners == rs.replicas > MaybeRunning

\* Ephemeral runners that have disappeared are not replaced for a while.
Deferred == \E o \in Remaining : ownerView[o].fresh

NewOwner(fresh) ==
    [state |-> "live", template |-> rs.template, ann |-> {}, synced |-> FALSE,
     fresh |-> fresh]

\* A slot can be used for an owner once nobody knows of an earlier one.
Free == {o \in Slots : /\ ~Exists(o) /\ ownerView[o].state = "none"
                       /\ pod[o].phase = "none" /\ podView[o].phase = "none"}

\* The first free slots, as many as are to be created or as there are.
Take(n) == {o \in Free : Cardinality({p \in Free : p < o}) < n}

\* Owners that somebody knows of.
Known == {o \in Slots : Exists(o) \/ ownerView[o].state # "none"}

\* newRunner sets the sync time once for all; it has seconds, so it may equal the
\* EffectiveTime.  Creation stops at the first failure.
CreateRunners ==
    /\ Collected /\ WantMoreRunners /\ ~Deferred
    /\ \E n \in 0..(rs.replicas - MaybeRunning), fresh \in {FALSE, rs.ephemeral} :
         LET New == Take(n) IN
         /\ owner' = [o \in Slots |-> IF o \in New THEN NewOwner(fresh)
                                      ELSE Written(Complete, Marking, {})[o]]
         /\ order' = (order \cap (Known \X Known)) \cup (Known \X New)
         /\ IF n < rs.replicas - MaybeRunning \/ (ownerView # owner /\ New # {})
              THEN Spend("fails")
              ELSE UNCHANGED used
    /\ UNCHANGED <<status, pod>> /\ SyncUnchanged

Newer(p, o) == <<o, p>> \in order

\* The owners that scale-down may retain: the newest of the running ones.
Retainable ==
    {K \in SUBSET Running :
        /\ Cardinality(K) = rs.replicas
        /\ \A o \in K, p \in Running \ K : ~Newer(p, o)}

\* Mutant: pending pods are counted twice.
ReportedReplicasBug ==
    Cardinality({o \in Current : podView[o].phase # "none"}) + Cardinality(Pending)

\* res.total, over the current objects
ReportedReplicas == Cardinality({o \in Current : podView[o].phase # "none"})

\* The last part of syncRunnerPodsOwners and of Reconcile: one outdated owner is deleted,
\* if there is none the status is updated.
Finish(requested) ==
    \/ \E o \in Remaining \ Current :
         /\ owner' = Written(Complete \cup {o}, Marking, requested)
         /\ UNCHANGED status
    \/ /\ Remaining = Current
       /\ owner' = Written(Complete, Marking, requested)
       /\ status' = ReportedReplicas

\* 1/4: pods first, then their owner.  Those annotated before are left alone.
Requestable(o) == "request" \notin ownerView[o].ann

\* Mutant: only the owner is annotated.
AnnotatePodsBug(req) == UNCHANGED pod

AnnotatePods(req) ==
    pod' = [o \in Slots |->
              IF o \in req /\ podView[o].phase # "none" /\ "request" \notin podView[o].ann
                THEN [pod[o] EXCEPT !.ann = @ \cup {"request"}]
                ELSE pod[o]]

ScaleDown ==
    /\ Collected /\ rs.replicas <= Cardinality(Running)
    /\ \E K \in Retainable :
         LET redundant == {o \in Current \ K : Requestable(o)} IN
         /\ \A o \in redundant : Exists(o)
         /\ AnnotatePods(redundant)
         /\ Finish(redundant)
    /\ UNCHANGED <<order, used>> /\ SyncUnchanged

\* A write of 1/4 fails, for a pod or for its owner: the pods @req, but only the owners
\* @done have been annotated.
ScaleDownFails ==
    /\ Collected /\ rs.replicas <= Cardinality(Running)
    /\ \E K \in Retainable :
         LET redundant == {o \in Current \ K : Requestable(o)} IN
         /\ redundant # {}
         /\ \E req \in SUBSET {o \in redundant : Exists(o)} : \E done \in SUBSET req :
              /\ Cardinality(req \ done) <= 1
              /\ AnnotatePods(req)
              /\ owner' = Written(Complete, Marking, done)
         /\ \/ (\E o \in redundant : ~Exists(o)) /\ UNCHANGED used
            \/ Spend("fails")
    /\ UNCHANGED <<status, order>> /\ SyncUnchanged

\* Deferred, or enough pods that are yet to run
Wait ==
    /\ Collected
    /\ IF WantMoreRunners THEN Deferred ELSE rs.replicas > Cardinality(Running)
    /\ Finish({})
    /\ UNCHANGED <<pod, order, used>> /\ SyncUnchanged

Reconcile ==
    \/ CollectReturns
    \/ CreateRunners
    \/ ScaleDown
    \/ Wait

-----------------------------------------------------------------------------
(* The life of one runner: the runner controller, the runner pod controller, *)
(* kubelet and the agent, see RunnerGracefulStop.                            *)

RunnerUnchanged == UNCHANGED <<rs, status, view, order>>

\* A runner's pod gets the annotations of the Runner, that of a StatefulSet those of its
\* template.
CreatePod(o) ==
    /\ owner[o].state = "live" /\ pod[o].phase = "none"
    /\ ~StatefulSets => podView[o].phase = "none"
    /\ pod' = [pod EXCEPT ![o] = [phase |-> "pending", deleting |-> FALSE,
                                  ann |-> IF StatefulSets THEN {} ELSE owner[o].ann]]
    /\ UNCHANGED <<owner, busy, used>> /\ RunnerUnchanged

\* Mutant: the status of the pod itself is taken.
SyncRunnerStatusBug(o) ==
    /\ owner[o].state = "live" /\ ~owner[o].synced
    /\ pod[o].phase # "none"
    /\ owner' = [owner EXCEPT ![o].synced = TRUE]
    /\ UNCHANGED <<pod, busy, used>> /\ RunnerUnchanged

\* The runner controller gets the pod from the cache that the Reconcile above uses, too, and
\* so this cache has the pod of a Runner that is synced.  The status of a StatefulSet
\* comes from Kubernetes.
SyncRunnerStatus(o) ==
    /\ owner[o].state = "live" /\ ~owner[o].synced
    /\ (IF StatefulSets THEN pod[o].phase ELSE podView[o].phase) # "none"
    /\ owner' = [owner EXCEPT ![o].synced = TRUE]
    /\ UNCHANGED <<pod, busy, used>> /\ RunnerUnchanged

Becomes(o, from, to) ==
    /\ pod[o].phase \in from /\ ~pod[o].deleting
    /\ pod' = [pod EXCEPT ![o].phase = to]

StartPod(o) ==
    /\ Becomes(o, {"pending", "timedout"}, "running")
    /\ UNCHANGED <<owner, busy, used>> /\ RunnerUnchanged

TimeOut(o) ==
    /\ Becomes(o, {"pending"}, "timedout")
    /\ Spend("fails")
    /\ UNCHANGED <<owner, busy>> /\ RunnerUnchanged

TakeJob(o) ==
    /\ pod[o].phase = "running" /\ "complete" \notin pod[o].ann
    /\ ~pod[o].deleting /\ o \notin busy
    /\ Spend("jobs")
    /\ busy' = busy \cup {o}
    /\ UNCHANGED <<owner, pod>> /\ RunnerUnchanged

FinishJob(o) ==
    /\ o \in busy
    /\ busy' = busy \ {o}
    /\ pod' = [pod EXCEPT ![o].phase = IF rs.ephemeral THEN "completed" ELSE @]
    /\ UNCHANGED <<owner, used>> /\ RunnerUnchanged

\* The graceful stop ends when the runner is registered and idle, or has stopped.
Unregister(o) ==
    /\ "request" \in pod[o].ann /\ "complete" \notin pod[o].ann
    /\ pod[o].phase \in {"running", "completed"} /\ o \notin busy
    /\ pod' = [pod EXCEPT ![o].ann = @ \cup {"complete"}]
    /\ UNCHANGED <<owner, busy, used>> /\ RunnerUnchanged

AgentExits(o) ==
    /\ "complete" \in pod[o].ann
    /\ Becomes(o, {"running"}, "completed")
    /\ UNCHANGED <<owner, busy, used>> /\ RunnerUnchanged

\* The Runner disappears and its pod is deleted with it (4/4).
OwnerGone(o) ==
    /\ owner[o].state = "deleting"
    /\ owner' = [owner EXCEPT ![o] = NoOwner]
    /\ pod' = [pod EXCEPT ![o].deleting = (pod[o].phase # "none"), ![o].ann = {}]
    /\ UNCHANGED <<busy, used>> /\ RunnerUnchanged

PodGone(o) ==
    /\ pod[o].deleting
    /\ pod' = [pod EXCEPT ![o] = NoPod]
    /\ busy' = busy \ {o}
    /\ UNCHANGED <<owner, used>> /\ RunnerUnchanged

RunnerStep(o) ==
    \/ CreatePod(o)
    \/ SyncRunnerStatus(o)
    \/ StartPod(o)
    \/ FinishJob(o)
    \/ Unregister(o)
    \/ AgentExits(o)
    \/ OwnerGone(o)
    \/ PodGone(o)

-----------------------------------------------------------------------------
(* The informer caches, the clock and the users of the set *)

InformerSyncOwners ==
    /\ ownerView # owner
    /\ ownerView' = owner
    /\ order' = {pair \in order : Exists(pair[1]) /\ Exists(pair[2])}
    /\ UNCHANGED <<rs, status, owner, pod, podView, busy, used>>

InformerSyncPods ==
    /\ podView # pod
    /\ podView' = pod
    /\ UNCHANGED <<rs, status, owner, pod, ownerView, order, busy, used>>

NoneFresh(owners) == [o \in Slots |-> [owners[o] EXCEPT !.fresh = FALSE]]

\* The recreation delay of the owners created so far has passed.
DelayElapses ==
    /\ \E o \in Slots : owner[o].fresh
    /\ owner' = NoneFresh(owner) /\ ownerView' = NoneFresh(ownerView)
    /\ UNCHANGED <<rs, status, pod, podView, order, busy, used>>

\* The autoscaler updates the EffectiveTime of ephemeral runners with the replicas, a user does not.
SetReplicas(n) ==
    /\ n # rs.replicas
    /\ Spend("changes")
    /\ rs' = [rs EXCEPT !.replicas = n]
    /\ \/ owner' = NoneFresh(owner) /\ ownerView' = NoneFresh(ownerView)
       \/ UNCHANGED <<owner, ownerView>>
    /\ UNCHANGED <<status, pod, podView, order, busy>>

UpdateTemplate ==
    /\ rs.template < Templates
    /\ Spend("changes")
    /\ rs' = [rs EXCEPT !.template = @ + 1]
    /\ UNCHANGED <<status, owner, pod, view, order, busy>>

Next ==
    \/ Reconcile
    \/ CollectFails
    \/ ScaleDownFails
    \/ \E o \in Slots : RunnerStep(o) \/ TimeOut(o) \/ TakeJob(o)
    \/ InformerSyncOwners
    \/ InformerSyncPods
    \/ DelayElapses
    \/ \E n \in 0..MaxReplicas : SetReplicas(n)
    \/ UpdateTemplate

Fairness ==
    /\ WF_vars(Reconcile)
    /\ \A o \in Slots : WF_vars(RunnerStep(o))
    /\ WF_vars(InformerSyncOwners)
    /\ WF_vars(InformerSyncPods)
    /\ WF_vars(DelayElapses)

Safety == Init /\ [][Next]_vars
Spec == Safety /\ Fairness

-----------------------------------------------------------------------------
(* Properties *)

Deletes(o) == owner[o].state = "live" /\ owner'[o].state = "deleting"

\* If the cache of owners shows an owner that is synced, the cache of pods shows its pod,
\* although neither waits for the other (runner_pod_owner.go:590 leaves an owner alone until
\* then).
SyncedIsSeen ==
    \A o \in Slots : Exists(o) /\ ownerView[o].state = "live" /\ ownerView[o].synced
                        => podView[o].phase # "none"

\* The set never deletes an owner of the current template while its runner is running a job,
\* however outdated the caches are that it decides on.
ScaleDownSparesJobs ==
    [][\A o \in Slots : Deletes(o) /\ owner[o].template = rs.template => o \notin busy]_vars

\* A request to stop that an owner carries has reached its pod, whichever of the two patches
\* fails: no pod is left that nobody will ever unregister ("pods ... have started" of 1/4).
RequestReachesPod ==
    \A o \in Slots :
        "request" \in owner[o].ann /\ pod[o].phase # "none" /\ ~pod[o].deleting
          => "request" \in pod[o].ann

Retained == {o \in Slots : owner[o].state = "live" /\ owner[o].ann = {}
                           /\ owner[o].template = rs.template}

\* Scale-down keeps as many runners that it has not asked to stop as are desired (the
\* comment of its loop: "the desired replicas is satisfied").
ScaleDownKeepsDesired ==
    [][(\E o \in Slots : "request" \notin owner[o].ann /\ "request" \in owner'[o].ann)
         => Cardinality(Retained') >= rs.replicas]_vars

Converged ==
    /\ Cardinality(Retained) = rs.replicas
    /\ \A o \in Slots \ Retained : ~Exists(o) /\ pod[o].phase = "none"

\* Once jobs, failures and changes of the desired replicas have ended, the set has the desired
\* number of runners and nothing else, and keeps it (docs/releasenotes/0.22.md: "the current
\* state eventually syncs up with the desired state").
Converges == <>[]Converged
=============================================================================
