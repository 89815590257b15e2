-------------------------- MODULE RunnerDeployment --------------------------
(***************************************************************************)
(* One RunnerDeployment and its RunnerReplicaSets: the rollout of a new    *)
(* template, the scaling of the newest set and the removal of old ones.    *)
(*                                                                         *)
(*   controllers/runnerdeployment_controller.go   CreateSet ... Finish     *)
(*   controllers/runnerreplicaset_controller.go   CreateRunners ...        *)
(*                                                ReportStatus             *)
(*                                                                         *)
(* Both controllers run in one manager and read RunnerReplicaSets from its *)
(* cache (view), which is some past state of the API server (rs).  Update  *)
(* carries the resource version of the copy and fails if the set has       *)
(* changed since; Delete and the status patch do not.                      *)
(*                                                                         *)
(* A RunnerReplicaSet finds its runners by a selector that ends in the     *)
(* hash of the template, not by owner: two sets with the same template     *)
(* count, and scale down, one another's runners.                           *)
(*                                                                         *)
(* Abstractions.                                                           *)
(*  - A set is a slot, numbered in the order of creation; creation times   *)
(*    are distinct.  The hash of a template is the template.               *)
(*  - The runners of a set are numbers: pending, idle and busy.  How they  *)
(*    are stopped and recreated in detail is RunnerSync's subject.         *)
(*  - The RunnerDeployment is read as it is: a Reconcile that reads it too *)
(*    early is one that runs before the change.                            *)
(*  - A Reconcile is one step on the cached copies.  One that ends early,  *)
(*    because a call fails, is a step with the writes made before it.      *)
(***************************************************************************)
EXTENDS Totals, FiniteSetsExt

CONSTANTS
    Templates, Selectors,  \* the values that the user's edits choose from
    Replicas,              \* the values of spec.replicas, None (nil) included
    Rollbacks,             \* an edit may return to a template that some set still has
    MaxEdits,              \* bound of edits of the RunnerDeployment
    MaxDuplicates,         \* bound of sets created twice from an outdated list
    MaxJobs                \* bound of workflow jobs

None == -1
defaultReplicas == 1

ASSUME DeploymentAssumption ==
    /\ Templates # {} /\ Selectors # {} /\ Rollbacks \in BOOLEAN
    /\ Replicas \subseteq Nat \union {None}
    /\ MaxEdits \in Nat /\ MaxDuplicates \in Nat /\ MaxJobs \in Nat

Slots == 1..(1 + MaxEdits + MaxDuplicates)

VARIABLES
    rd,     \* [replicas, template, selector, effective]: spec of the RunnerDeployment
    status, \* its status: [replicas, available, updated]
    rs,     \* per slot: the RunnerReplicaSet as stored
    view,   \* per slot: the RunnerReplicaSet in the cache
    own,    \* per slot: the number of its [pending, idle, busy] runners
    used,   \* slots used so far
    jobs,   \* jobs started so far
    edits, duplicates  \* how much of MaxEdits and MaxDuplicates is used up

vars == <<rd, status, rs, view, own, used, jobs, edits, duplicates>>

NoRunners == [pending |-> 0, idle |-> 0, busy |-> 0]
NoSet == [exists |-> FALSE, template |-> None, selector |-> None, replicas |-> None,
          effective |-> None, status |-> None, ready |-> None]

OrDefault(n) == IF n = None THEN defaultReplicas ELSE n
OrZero(n) == IF n = None THEN 0 ELSE n

newRunnerReplicaSet == [exists |-> TRUE, template |-> rd.template, selector |-> rd.selector,
                        replicas |-> rd.replicas, effective |-> rd.effective,
                        status |-> None, ready |-> None]

Init ==
    /\ rd \in [replicas : Replicas, template : {CHOOSE t \in Templates : TRUE},
               selector : {CHOOSE sel \in Selectors : TRUE}, effective : {0}]
    /\ status = [replicas |-> None, available |-> None, updated |-> None]
    /\ rs = [s \in Slots |-> NoSet]
    /\ view = rs
    /\ own = [s \in Slots |-> NoRunners]
    /\ used = 0 /\ jobs = 0 /\ edits = 0 /\ duplicates = 0

---------------------------------------------------------------------------
(* The user and the autoscaler edit the RunnerDeployment *)

\* When the autoscaler changes the replicas of ephemeral runners it sets the
\* effective time in the same patch.
Edit ==
    /\ edits < MaxEdits
    /\ \E t \in Templates, sel \in Selectors, n \in Replicas :
          /\ <<t, sel, n>> # <<rd.template, rd.selector, rd.replicas>>
          /\ t = rd.template \/ Rollbacks \/ \A s \in Slots : rs[s].template # t
          /\ rd' = [replicas |-> n, template |-> t, selector |-> sel,
                    effective |-> IF n = rd.replicas THEN rd.effective ELSE rd.effective + 1]
    /\ edits' = edits + 1
    /\ UNCHANGED <<status, rs, view, own, used, jobs, duplicates>>

\* A new reservation has taken the place of one that ended: the autoscaler sets
\* the effective time and leaves the replicas as they are.
RenewEffectiveTime ==
    /\ edits < MaxEdits
    /\ rd' = [rd EXCEPT !.effective = @ + 1]
    /\ edits' = edits + 1
    /\ UNCHANGED <<status, rs, view, own, used, jobs, duplicates>>

\* The watch brings the cache up to date.
SyncView ==
    /\ view' = rs
    /\ UNCHANGED <<rd, status, rs, own, used, jobs, edits, duplicates>>

---------------------------------------------------------------------------
(* The RunnerDeployment controller *)

Sets(v) == {s \in Slots : v[s].exists}

\* The list is sorted by creation time, the latest first.
Newest(v) == Max(Sets(v))

\* The slice of old sets starts at the newest one.
OldSetsBug == Sets(view)

OldSets == Sets(view) \ {Newest(view)}

\* The newest set listed has the template that is wanted.
UpToDate == Sets(view) # {} /\ view[Newest(view)].template = rd.template

rdOnly == <<rd, own, jobs, edits>>

\* The hash of a template differs from one computation to the next.
CreateSetBug ==
    /\ duplicates' = duplicates
    /\ used' = used + 1
    /\ rs' = [rs EXCEPT ![used + 1] = newRunnerReplicaSet]
    /\ UNCHANGED <<rdOnly, status, view>>

\* The newest set has the template that is wanted, whether the cache shows it or not.
RolledOut == Sets(rs) # {} /\ rs[Newest(rs)].template = rd.template

\* No set is listed, or the newest one listed has another template.  If the
\* cache does not show the set that was just created, it is created again.
CreateSet ==
    /\ ~ UpToDate
    /\ RolledOut => duplicates < MaxDuplicates
    /\ duplicates' = IF RolledOut THEN duplicates + 1 ELSE duplicates
    /\ used' = used + 1
    /\ rs' = [rs EXCEPT ![used + 1] = newRunnerReplicaSet]
    /\ UNCHANGED <<rdOnly, status, view>>

\* Client.Update: a conflict leaves everything as it was.
Update(s, set) ==
    /\ view[s] = rs[s]
    /\ rs' = [rs EXCEPT ![s] = set]
    /\ UNCHANGED <<rdOnly, status, view, used, duplicates>>

\* A change of the selector alone leaves the same template: the set is updated
\* with the whole spec, replicas included.
UpdateSelector ==
    /\ UpToDate
    /\ view[Newest(view)].selector # rd.selector
    /\ Update(Newest(view), [rs[Newest(view)] EXCEPT !.selector = rd.selector,
                                !.replicas = rd.replicas, !.effective = rd.effective])

\* The effective time is passed on here, and only here, to an existing set.
UpdateReplicas ==
    /\ UpToDate
    /\ view[Newest(view)].selector = rd.selector
    /\ OrDefault(view[Newest(view)].replicas) # OrDefault(rd.replicas)
    /\ Update(Newest(view), [rs[Newest(view)] EXCEPT !.replicas = OrDefault(rd.replicas),
                                !.effective = rd.effective])

\* Nothing is left to change in the newest set.
NewestInSync ==
    /\ UpToDate
    /\ view[Newest(view)].selector = rd.selector
    /\ OrDefault(view[Newest(view)].replicas) = OrDefault(rd.replicas)

NewestAvailable ==
    /\ NewestInSync
    /\ OrZero(view[Newest(view)].ready) >= OrDefault(view[Newest(view)].replicas)

\* Sets without a spec.replicas are taken to be scaled to zero already.
ScalesToZeroBug(s) == view[s].status > 0 /\ view[s].replicas > 0

\* An old set that still has replicas is scaled to zero, once; one without a
\* status, or with no replicas in it, is deleted.
ScalesToZero(s) == view[s].status > 0 /\ view[s].replicas # 0
Deletes(s) == view[s].status <= 0

\* The loop has come past the sets in done.  A deleted set takes its runners with
\* it (garbage collection follows the owner references).
RemoveOldSets(done) ==
    /\ NewestInSync
    /\ OldSets # {} => NewestAvailable
    /\ \A s \in done : ScalesToZero(s) => view[s] = rs[s]
    /\ \A s \in done : Deletes(s) => rs[s].exists
    /\ rs' = [s \in Slots |-> IF s \in done /\ Deletes(s) THEN NoSet
                              ELSE IF s \in done /\ ScalesToZero(s) THEN [rs[s] EXCEPT !.replicas = 0]
                              ELSE rs[s]]
    /\ own' = [s \in Slots |-> IF s \in done /\ Deletes(s) THEN NoRunners ELSE own[s]]
    /\ UNCHANGED <<rd, view, used, jobs, edits, duplicates>>

\* The rest of the Reconcile: the old sets and then the status.
Finish ==
    /\ RemoveOldSets(OldSets)
    /\ status' = [replicas  |-> Total([s \in Slots |-> view[s].status], Sets(view)),
                  available |-> Total([s \in Slots |-> view[s].ready], Sets(view)),
                  updated   |-> OrZero(view[Newest(view)].status)]

\* A call fails: the loop has come past the latest of the old sets only, or past
\* all of them if it is the patch of the status.
FinishFails ==
    /\ \E first \in Slots : RemoveOldSets({s \in OldSets : s >= first})
    /\ UNCHANGED status

---------------------------------------------------------------------------
(* The RunnerReplicaSet controller, for the set in slot s *)

\* The slots whose runners the selector of s matches.
Pool(s) == {t \in Slots : rs[t].exists /\ rs[t].template = rs[s].template}

\* current and ready of the status
Current(s) == Total([t \in Slots |-> own[t].pending + own[t].idle + own[t].busy], Pool(s))
Ready(s) == Total([t \in Slots |-> own[t].idle + own[t].busy], Pool(s))

Desired(s) == OrDefault(view[s].replicas)
WantsMore(s) == Desired(s) > Current(s)
Listed(s) == view[s].exists /\ rs[s].exists

rsOnly == <<rd, status, view, used, edits, duplicates>>

CreateRunners(s) ==
    /\ Listed(s) /\ WantsMore(s)
    /\ own' = [own EXCEPT ![s].pending = @ + (Desired(s) - Current(s))]
    /\ UNCHANGED <<rsOnly, rs, jobs>>

\* More runners run than are wanted: one that runs no job is stopped.
StopRunner(s, t) ==
    /\ Listed(s)
    /\ Desired(s) < Ready(s)
    /\ t \in Pool(s) /\ own[t].idle > 0
    /\ own' = [own EXCEPT ![t].idle = @ - 1]
    /\ UNCHANGED <<rsOnly, rs, jobs>>

\* A Reconcile that creates runners returns before it reports.
ReportStatus(s) ==
    /\ Listed(s) /\ ~ WantsMore(s)
    /\ rs' = [rs EXCEPT ![s].status = Current(s), ![s].ready = Ready(s)]
    /\ UNCHANGED <<rsOnly, own, jobs>>

---------------------------------------------------------------------------
(* Runners *)

RunnerStarts(t) ==
    /\ own[t].pending > 0
    /\ own' = [own EXCEPT ![t].pending = @ - 1, ![t].idle = @ + 1]
    /\ UNCHANGED <<rsOnly, rs, jobs>>

JobStarts(t) ==
    /\ own[t].idle > 0
    /\ jobs < MaxJobs
    /\ jobs' = jobs + 1
    /\ own' = [own EXCEPT ![t].idle = @ - 1, ![t].busy = @ + 1]
    /\ UNCHANGED <<rsOnly, rs>>

\* An ephemeral runner ends with its job.
JobEnds(t) ==
    /\ own[t].busy > 0
    /\ own' = [own EXCEPT ![t].busy = @ - 1]
    /\ UNCHANGED <<rsOnly, rs, jobs>>

---------------------------------------------------------------------------
DeploymentStep ==
    \/ CreateSet
    \/ UpdateSelector
    \/ UpdateReplicas
    \/ Finish

Next ==
    \/ Edit
    \/ RenewEffectiveTime
    \/ SyncView
    \/ DeploymentStep
    \/ FinishFails
    \/ \E s \in Slots : CreateRunners(s) \/ ReportStatus(s)
    \/ \E s, t \in Slots : StopRunner(s, t)
    \/ \E t \in Slots : RunnerStarts(t) \/ JobStarts(t) \/ JobEnds(t)

\* Both controllers are triggered by every change of a set and by resyncs,
\* the watch delivers, pods start and jobs end.
Fairness ==
    /\ WF_vars(SyncView)
    /\ WF_vars(DeploymentStep)
    /\ \A s \in Slots : /\ WF_vars(CreateRunners(s))
                        /\ WF_vars(ReportStatus(s))
                        /\ WF_vars(\E t \in Slots : StopRunner(s, t))
                        /\ WF_vars(RunnerStarts(s))
                        /\ WF_vars(JobEnds(s))

Safety == Init /\ [][Next]_vars
Spec == Safety /\ Fairness

---------------------------------------------------------------------------
(* Properties *)

SetType == [exists : BOOLEAN, template : Templates \union {None},
            selector : Selectors \union {None}, replicas : Nat \union {None},
            effective : 0..MaxEdits \union {None}, status : Nat \union {None},
            ready : Nat \union {None}]

\* Every object has the shape its API type gives it; the cache holds such objects
\* too, and no more sets are created than edits (and outdated lists) ask for.
TypeOK ==
    /\ rd \in [replicas : Replicas, template : Templates, selector : Selectors,
               effective : 0..MaxEdits]
    /\ status \in [replicas : Nat \union {None}, available : Nat \union {None},
                   updated : Nat \union {None}]
    /\ rs \in [Slots -> SetType] /\ view \in [Slots -> SetType]
    /\ own \in [Slots -> [pending : Nat, idle : Nat, busy : Nat]]
    /\ used \in 0..Cardinality(Slots) /\ jobs \in 0..MaxJobs
    /\ edits \in 0..MaxEdits /\ duplicates \in 0..MaxDuplicates

\* The RunnerDeployment controller decides on a cached list and deletes without a
\* precondition (runnerdeployment_controller.go:196-262).  The set that carries the
\* wanted template is nevertheless never deleted, nor scaled to zero unless zero
\* replicas are wanted, whichever of its steps works on an outdated list.
NewestIsKept ==
    [][\A s \in Slots :
         RolledOut /\ s = Newest(rs)
         => /\ rs'[s].exists
            /\ rs'[s].replicas = 0 => rs[s].replicas = 0 \/ rd.replicas = 0]_vars

\* Once the edits have ended there is one set left, with the wanted template,
\* selector and replicas, and the RunnerDeployment's status reports just its
\* runners (runnerdeployment_controller.go:149 "We requeue in order to clean up old
\* runner replica sets later").
RolloutConverges ==
    <>[](/\ Cardinality(Sets(rs)) = 1
         /\ rs[Newest(rs)].template = rd.template
         /\ OrDefault(rs[Newest(rs)].replicas) = OrDefault(rd.replicas)
         /\ rs[Newest(rs)].selector = rd.selector
         /\ status = [replicas |-> OrDefault(rd.replicas), available |-> OrDefault(rd.replicas),
                      updated |-> OrDefault(rd.replicas)])

\* The effective time of the RunnerDeployment reaches its newest set: runnerdeployment_types.go:36
\* "The value is inherited to RunnerRepicaSet(s)".
EffectiveTimeArrives ==
    <>[](Sets(rs) # {} /\ rs[Newest(rs)].effective = rd.effective)

===========================================================================
