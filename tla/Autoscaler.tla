----------------------------- MODULE Autoscaler -----------------------------
(***************************************************************************)
(* One HorizontalRunnerAutoscaler (HRA) and its scale target: the webhook  *)
(* server adds and removes capacity reservations, the HRA controller turns *)
(* them, its metrics and its schedule into spec.replicas of the target.    *)
(*                                                                         *)
(*   controllers/horizontal_runner_autoscaler_webhook.go   tryScale        *)
(*   controllers/horizontalrunnerautoscaler_controller.go  Reconcile ...   *)
(*                                                         PatchStatus     *)
(*   controllers/autoscaling.go, github/github.go          the metrics     *)
(*                                                                         *)
(* Every call that leaves a process is a step of its own.  The two         *)
(* processes read the HRA from caches that lag (view, hookView) and write  *)
(* with merge patches, which hold no resource version: a patch contains    *)
(* what differs from the copy that was read and overwrites just that.      *)
(*                                                                         *)
(* Abstractions.                                                           *)
(*  - The target has as many runners as spec.replicas: that the controllers *)
(*    below bring them about is RunnerSync's subject.  RunnerDeployment and *)
(*    RunnerSet are patched alike and not distinguished.                   *)
(*  - GitHub is reduced to workflow runs, the status of their jobs, and    *)
(*    webhook deliveries, which may be lost, duplicated and reordered.     *)
(*  - The polls of several repositories are one; so are the pages of a     *)
(*    list, and the job lists of the listed runs.                          *)
(*  - The client keeps GitHub's answers, request by request, for as long   *)
(*    as their Cache-Control header says (60 s).  Here an answer is kept   *)
(*    for any time, which is the worse the shorter the sync period is.     *)
(*  - A request of the webhook server reads its cache and patches the HRA  *)
(*    in one step.  Requests that work from the same copy are steps with   *)
(*    no refresh of the cache in between.                                  *)
(*  - A Reconcile ends in the second in which it began.                    *)
(*  - Which HRA a delivery is meant for is ScaleTargets' subject.  Here    *)
(*    every delivery is about this one, with amount 1 or -1.               *)
(*  - status.scheduledOverridesSummary, a text nobody reads back, and the  *)
(*    deletion of the HRA are left out.                                    *)
(***************************************************************************)
EXTENDS ScalingAlgorithms

CONSTANTS
    Runs, JobsOf,     \* workflow runs, and the set of jobs of each
    JobLabels,        \* the labels each job asks for
    RepoOf,           \* the repository of each run
    Target,           \* [repo, org, labels, ephemeral] of the scale target
    InitialReplicas,  \* what spec.replicas of the target may be at first
    Scenarios,        \* sets of specs of the HRA, [min, max, metrics, overrides, delay,
                      \* webhook], with the caches that lag: "hra", "target", "hook",
                      \* "github"
    Duration,         \* of a reservation (ScaleUpTrigger.Duration)
    Horizon,          \* bound: runs are requested up to this time
    MaxTime,          \* bound of the clock
    MaxFails          \* bound of lost and duplicated deliveries and failed calls

BusyMetrics == [type : {"busy"}, up : Int, down : Int, upFactor : Int, downFactor : Int,
                upAdjustment : Int, downAdjustment : Int]
OtherMetrics == [type : STRING \ {"busy"}, repositoryNames : SUBSET STRING]
Overrides == [start : Int, end : Int, freq : Nat, until : Int, min : Nat \union {None}]

\* The specs that the types of the API admit, with a maximum that is not negative.
SpecAssumption(s) ==
    /\ s.min \in Int /\ s.max \in Nat \union {None} /\ s.delay \in Nat
    /\ s.overrides \in Seq(Overrides)
    /\ s.metrics \in Seq(BusyMetrics \union OtherMetrics)

\* A job belongs to one run.
ASSUME AutoscalerAssumption ==
    /\ Horizon \in Nat /\ MaxTime \in Nat /\ Horizon <= MaxTime
    /\ Duration \in Nat /\ MaxFails \in Nat /\ InitialReplicas \subseteq Nat \union {None}
    /\ IsFiniteSet(Runs) /\ Runs \intersect {"runners", "queued", "in_progress"} = {}
    /\ \A r \in Runs : /\ IsFiniteSet(JobsOf[r])
                       /\ \A q \in Runs : q # r => JobsOf[q] \intersect JobsOf[r] = {}
    /\ \A scenario \in Scenarios : \A s \in scenario.specs : SpecAssumption(s)

Jobs == UNION {JobsOf[r] : r \in Runs}

VARIABLES
    now,        \* seconds, the precision of metav1.Time
    spec,       \* HRA spec without the reservations; never changes
    lag,        \* the caches that lag in this behaviour; never changes
    hra,        \* [reservations, desired, lastScaleOut], as stored
    view,       \* the HRA in the controller's cache
    hookView,   \* its reservations in the webhook server's cache
    target,     \* [replicas, effective], as stored
    targetView, \* in the controller's cache
    job,        \* "none" before its run is requested, then its status
    mail,       \* deliveries on their way, per job and action
    answers,    \* the HTTP cache: GitHub's answers, per request
    ctl,        \* the Reconcile in progress: its copies and what it has found
    resynced,   \* a Reconcile has ended in this second
    fails       \* faults so far

vars == <<now, spec, lag, hra, view, hookView, target, targetView, job, mail, answers, ctl,
          resynced, fails>>
hookVars == <<hookView, mail>>
ctlVars  == <<view, targetView, answers, ctl, resynced>>

Actions == {"queued", "completed"}

Statuses == {"none", "queued", "in_progress", "completed"}

NewHRA == [reservations |-> <<>>, desired |-> None, lastScaleOut |-> None]

\* shown and waiting are history: the status of the runs when the first list of them was
\* made, and the jobs that have to be counted.
IdleReconcile ==
    [pc |-> "idle", hra |-> NewHRA, st |-> [replicas |-> None, effective |-> None],
     queued |-> {}, inProgress |-> {}, shown |-> [r \in Runs |-> "none"], waiting |-> {},
     suggested |-> None, new |-> None]

Init ==
    /\ now = 0
    /\ \E s \in Scenarios : spec \in s.specs /\ lag \in s.lags
    /\ hra = NewHRA
    /\ view = NewHRA
    /\ hookView = <<>>
    /\ target \in {[replicas |-> n, effective |-> None] : n \in InitialReplicas}
    /\ targetView = target
    /\ job = [j \in Jobs |-> "none"]
    /\ answers = <<>>
    /\ mail = [e \in Jobs \X Actions |-> 0]
    /\ ctl = IdleReconcile
    /\ resynced = FALSE
    /\ fails = 0

Replicas(t) == IF t.replicas = None THEN defaultReplicas ELSE t.replicas

---------------------------------------------------------------------------
(* GitHub *)

\* A runner of the target can run the job: it has every label asked for.
Runnable(j) == JobLabels[j] \ {"self-hosted"} \subseteq Target.labels

InProgress == {j \in Jobs : job[j] = "in_progress"}
Unfinished == {j \in Jobs : job[j] \in {"queued", "in_progress"}}

RunStatus(r) ==
    LET states == {job[j] : j \in JobsOf[r]}
    IN IF states = {"none"} THEN "none"
       ELSE IF states = {"completed"} THEN "completed"
       ELSE IF states = {"queued"} THEN "queued" ELSE "in_progress"

\* The requests that the client may answer from its HTTP cache: ListRunners, the two
\* lists of workflow runs, and the job list of each run.
Requests == {"runners", "queued", "in_progress"} \union Runs

\* What GitHub answers: the runners that are busy, by their jobs; the status of the runs;
\* the jobs that a run has and their status.
Current(q) == IF q = "runners" THEN InProgress
              ELSE IF q \in Runs THEN [j \in {i \in JobsOf[q] : job[i] # "none"} |-> job[j]]
              ELSE [r \in Runs |-> RunStatus(r)]

\* The two lists in the other order.
RunsWithBug(runs, repos, status) ==
    {r \in Runs : /\ RepoOf[r] \in repos
                  /\ runs[r] = IF status = "queued" THEN "in_progress" ELSE "queued"}

\* The runs of some repositories that are listed for a status.
RunsWith(runs, repos, status) == {r \in Runs : RepoOf[r] \in repos /\ runs[r] = status}

JobRecords(list) == {[id |-> j, status |-> list[j], labels |-> JobLabels[j]] : j \in DOMAIN list}

\* Deliveries about j reach this HRA if webhooks are set up and the target can
\* run the job.
Delivered(j) == spec.webhook /\ Runnable(j)

RunRequested(r) ==
    /\ now <= Horizon
    /\ RunStatus(r) = "none"
    /\ job' = [j \in Jobs |-> IF j \in JobsOf[r] THEN "queued" ELSE job[j]]
    /\ mail' = [e \in DOMAIN mail |->
                  IF e[1] \in JobsOf[r] /\ Delivered(e[1]) /\ e[2] = "queued" THEN 1 ELSE mail[e]]
    /\ UNCHANGED <<now, spec, lag, hra, hookView, target, ctlVars, fails>>

\* A job that the target cannot run is somebody else's.
JobStarts(j) ==
    /\ job[j] = "queued"
    /\ Runnable(j) => Cardinality({i \in InProgress : Runnable(i)}) < Replicas(target)
    /\ job' = [job EXCEPT ![j] = "in_progress"]
    /\ UNCHANGED <<now, spec, lag, hra, target, hookVars, ctlVars, fails>>

JobEnds(j) ==
    /\ job[j] = "in_progress"
    /\ job' = [job EXCEPT ![j] = "completed"]
    /\ mail' = IF Delivered(j) THEN [mail EXCEPT ![<<j, "completed">>] = 1] ELSE mail
    /\ UNCHANGED <<now, spec, lag, hra, hookView, target, ctlVars, fails>>

\* A delivery is lost, or made twice by somebody who presses "Redeliver".
Misdeliver(e) ==
    /\ fails < MaxFails
    /\ mail[e] > 0
    /\ \E n \in {0, 2} : mail' = [mail EXCEPT ![e] = n]
    /\ fails' = fails + 1
    /\ UNCHANGED <<now, spec, lag, hra, hookView, target, job, ctlVars>>

\* Past the horizon the clock waits for what is under way, for the caches and
\* for a resync (SyncPeriod is finite), so that the last reservations and
\* delays are over before it stops.
Tick ==
    /\ now < MaxTime
    /\ ctl.pc = "idle"
    /\ now >= Horizon => /\ Unfinished = {} /\ \A e \in DOMAIN mail : mail[e] = 0
                         /\ "hra" \in lag => view = hra
                         /\ "target" \in lag => targetView = target
                         /\ \A q \in DOMAIN answers : answers[q] = Current(q)
                         /\ resynced
    /\ now' = now + 1
    /\ resynced' = FALSE
    /\ UNCHANGED <<spec, lag, hra, hookVars, view, targetView, answers, ctl, target, job, fails>>

---------------------------------------------------------------------------
(* The webhook server *)

SyncHookView ==
    /\ "hook" \in lag
    /\ hookView' = hra.reservations
    /\ UNCHANGED <<now, spec, lag, hra, mail, target, ctlVars, job, fails>>

CachedReservations == IF "hook" \in lag THEN hookView ELSE hra.reservations

\* Every delivery adds a reservation.
RescaledBug(copy, amount) ==
    Append(Valid(copy, now), [eff |-> now, exp |-> now + Duration, replicas |-> 1])

\* The reservations of the copy that have not expired, with one more or with
\* the first one of the same amount taken out.
Rescaled(copy, amount) ==
    LET valid == Valid(copy, now)
        same  == {i \in DOMAIN valid : valid[i].replicas + amount = 0}
    IN IF amount > 0
       THEN Append(valid, [eff |-> now, exp |-> now + Duration, replicas |-> amount])
       ELSE IF same = {} THEN valid ELSE RemoveAt(valid, Min(same))

\* Handle has found the HRA.  The whole list is written, unless it equals the
\* list of the copy.
tryScale(e) ==
    LET copy == CachedReservations
        list == Rescaled(copy, IF e[2] = "queued" THEN 1 ELSE -1)
    IN /\ mail[e] > 0
       /\ mail' = [mail EXCEPT ![e] = @ - 1]
       /\ hra' = IF list = copy THEN hra ELSE [hra EXCEPT !.reservations = list]
       /\ UNCHANGED <<now, spec, lag, hookView, target, ctlVars, job, fails>>

---------------------------------------------------------------------------
(* The HRA controller *)

SyncView ==
    /\ \/ "hra" \in lag /\ view' = hra /\ UNCHANGED targetView
       \/ "target" \in lag /\ targetView' = target /\ UNCHANGED view
    /\ UNCHANGED <<now, spec, lag, hra, hookVars, target, answers, ctl, resynced, job, fails>>

\* The answer to a request, kept or current.  Of the runs in early GitHub lists no jobs yet.
Answer(q, early) == IF q \in DOMAIN answers THEN answers[q]
                    ELSE IF q \in early THEN <<>> ELSE Current(q)

\* The HTTP cache after the requests of qs.
Cached(qs, early) ==
    IF "github" \in lag THEN [q \in DOMAIN answers \union qs |-> Answer(q, early)] ELSE answers

\* An answer is no longer fresh; or the process has restarted, and all of them are gone.
Expire(q) ==
    /\ q \in DOMAIN answers
    /\ answers' = [p \in DOMAIN answers \ {q} |-> answers[p]]
    /\ UNCHANGED <<now, spec, lag, hra, view, hookVars, target, targetView, ctl, resynced, job, fails>>

Primary == spec.metrics[1].type

\* The position of the metric that lists workflow runs, and its repositories.
runsMetric == IF Primary = "runs" THEN 1 ELSE 2
repos == PolledRepos(Target, spec.metrics[runsMetric])

\* The errors that need no answer of GitHub: nothing is changed by them.
SpecRejected ==
    \/ getMinReplicas(now, spec) = Err
    \/ spec.min = None \/ spec.max = None
    \/ Len(spec.metrics) > 2
    \/ spec.metrics # <<>> /\ Primary \notin {"busy", "runs"}

Reconcile ==
    /\ ctl.pc = "idle"
    /\ ~ SpecRejected
    /\ ctl' = [IdleReconcile EXCEPT
                 !.pc   = IF spec.metrics = <<>> THEN "target"
                          ELSE IF Primary = "busy" THEN "busy" ELSE "queued",
                 !.hra  = IF "hra" \in lag THEN view ELSE hra,
                 !.st   = IF "target" \in lag THEN targetView ELSE target]
    /\ UNCHANGED <<now, spec, lag, hra, view, hookVars, target, targetView, job, answers, resynced, fails>>

\* The second metric is forgotten.
SuggestedBug(i, s) ==
    IF s \in {Err, Panic} THEN IdleReconcile
    ELSE [ctl EXCEPT !.pc = "target", !.suggested = IF s > 0 THEN s ELSE None]

\* What suggestDesiredReplicas makes of the metric at position i.  A primary
\* metric without a positive suggestion hands over to the other one.
Suggested(i, s) ==
    IF s \in {Err, Panic} THEN IdleReconcile
    ELSE IF i = 2 \/ s > 0 THEN [ctl EXCEPT !.pc = "target", !.suggested = s]
    ELSE IF Len(spec.metrics) = 1 THEN [ctl EXCEPT !.pc = "target"]
    ELSE IF Primary = "busy" /\ spec.metrics[2].type = "runs"
    THEN [ctl EXCEPT !.pc = "queued"] ELSE IdleReconcile

\* The runners that the answer shows as busy, without those that Kubernetes no longer
\* has: their jobs have ended since.
SuggestByPercentageRunnersBusy ==
    LET busy == {j \in Answer("runners", {}) : Runnable(j)}
    IN /\ ctl.pc = "busy"
       /\ \E gone \in SUBSET (busy \ InProgress) :
            ctl' = Suggested(1, SuggestByBusy(spec.metrics[1], ctl.st.replicas,
                                              Cardinality(busy \ gone)))
       /\ answers' = Cached({"runners"}, {})
       /\ UNCHANGED <<now, spec, lag, hra, view, hookVars, target, targetView, job, resynced, fails>>

\* ListRepositoryWorkflowRuns asks for the queued runs and then for those in
\* progress.
ListQueuedRuns ==
    LET runs == Answer("queued", {})
    IN /\ ctl.pc = "queued"
       /\ IF repos = {} THEN ctl' = IdleReconcile /\ UNCHANGED answers
          ELSE /\ ctl' = [ctl EXCEPT !.pc = "in_progress", !.shown = runs,
                                     !.queued = RunsWith(runs, repos, "queued")]
               /\ answers' = Cached({"queued"}, {})
       /\ UNCHANGED <<now, spec, lag, hra, view, hookVars, target, targetView, job, resynced, fails>>

\* The second list shows the run in an earlier status than the first.
Stage(status) == IF status = "none" THEN 0 ELSE IF status = "queued" THEN 1
                 ELSE IF status = "in_progress" THEN 2 ELSE 3
Behind(second, first, r) == Stage(second[r]) < Stage(first[r])

ListInProgressRuns ==
    LET runs == Answer("in_progress", {})
        due  == {r \in Runs : /\ RepoOf[r] \in repos /\ ctl.shown[r] \in {"queued", "in_progress"}
                              /\ ~ Behind(runs, ctl.shown, r)}
    IN /\ ctl.pc = "in_progress"
       /\ ctl' = [ctl EXCEPT !.pc = "jobs", !.inProgress = RunsWith(runs, repos, "in_progress"),
                             !.shown = IdleReconcile.shown,
                             !.waiting = UNION {JobsOf[r] : r \in due}]
       /\ answers' = Cached({"in_progress"}, {})
       /\ UNCHANGED <<now, spec, lag, hra, view, hookVars, target, targetView, job, resynced, fails>>

\* The jobs of every listed run are listed and counted.  A run whose jobs
\* cannot be listed (an error that is only logged) adds nothing; one that has
\* no jobs yet adds 1.
CountJobs(failing, early) ==
    LET runs == ctl.queued \union ctl.inProgress
        counted(r) == CountedJobs(JobRecords(Answer(r, early)), Target)
        count(rs)  == Cardinality(UNION {{r} \X counted(r) : r \in rs \ failing})
    IN /\ ctl.pc = "jobs"
       /\ failing \union early \subseteq runs \ DOMAIN answers
       /\ fails + Cardinality(failing \union early) <= MaxFails
       /\ fails' = fails + Cardinality(failing \union early)
       /\ answers' = Cached(runs \ failing, early)
       /\ ctl' = [Suggested(runsMetric, count(ctl.queued) + count(ctl.inProgress))
                    EXCEPT !.waiting = UNION {@ \intersect DOMAIN Answer(r, early) :
                                                r \in Runs \ failing},
                           !.queued = {}, !.inProgress = {}]
       /\ UNCHANGED <<now, spec, lag, hra, view, hookVars, target, targetView, job, resynced>>

\* The closure that Reconcile passes to reconcile.  The patch has spec.replicas
\* if it differs from the copy and, for ephemeral runners, the time of the
\* latest reservation if that differs.
UpdateTarget ==
    LET new == computeReplicas(spec, ctl.hra, now, getMinReplicas(now, spec), ctl.suggested)
        eff == {ctl.hra.reservations[i].eff : i \in DOMAIN ctl.hra.reservations}
    IN /\ ctl.pc = "target"
       /\ target' = [replicas  |-> IF Replicas(ctl.st) # new THEN new ELSE target.replicas,
                     effective |-> IF /\ Target.ephemeral /\ eff # {}
                                      /\ Max(eff) # ctl.st.effective
                                   THEN Max(eff) ELSE target.effective]
       /\ ctl' = [IdleReconcile EXCEPT !.pc = "status", !.new = new,
                                       !.hra.desired = ctl.hra.desired]
       /\ UNCHANGED <<now, spec, lag, hra, view, hookVars, targetView, job, answers, resynced, fails>>

\* The end of the scale-down delay is recorded in place of its start.
PatchStatusBug ==
    /\ ctl.pc = "status"
    /\ hra' = [hra EXCEPT !.desired = ctl.new,
                          !.lastScaleOut = IF ctl.new > ctl.hra.desired THEN now + spec.delay
                                           ELSE @]
    /\ ctl' = IdleReconcile
    /\ resynced' = (now >= Horizon)
    /\ UNCHANGED <<now, spec, lag, view, hookVars, target, targetView, job, answers, fails>>

PatchStatus ==
    LET old == ctl.hra.desired
    IN /\ ctl.pc = "status"
       /\ hra' = [hra EXCEPT
                    !.desired      = IF old # ctl.new THEN ctl.new ELSE @,
                    !.lastScaleOut = IF \/ old = None /\ ctl.new > 1
                                        \/ old # None /\ ctl.new > old
                                     THEN now ELSE @]
       /\ ctl' = IdleReconcile
       /\ resynced' = (now >= Horizon)
       /\ UNCHANGED <<now, spec, lag, view, hookVars, target, targetView, job, answers, fails>>

\* A call to GitHub or to the API server fails, or the process restarts.
ReconcileFails ==
    /\ fails < MaxFails
    /\ ctl.pc \notin {"idle", "jobs"}
    /\ ctl' = IdleReconcile
    /\ fails' = fails + 1
    /\ UNCHANGED <<now, spec, lag, hra, view, hookVars, target, targetView, job, answers, resynced>>

---------------------------------------------------------------------------
ControllerStep ==
    \/ Reconcile
    \/ SuggestByPercentageRunnersBusy
    \/ ListQueuedRuns
    \/ ListInProgressRuns
    \/ CountJobs({}, {})
    \/ UpdateTarget
    \/ PatchStatus

Next ==
    \/ \E r \in Runs : RunRequested(r)
    \/ \E j \in Jobs : JobStarts(j) \/ JobEnds(j)
    \/ \E e \in Jobs \X Actions : Misdeliver(e) \/ tryScale(e)
    \/ Tick
    \/ SyncHookView
    \/ SyncView
    \/ ControllerStep
    \/ \E r \in Runs : CountJobs({r}, {}) \/ CountJobs({}, {r})
    \/ \E q \in Requests : Expire(q)
    \/ ReconcileFails

\* Watches deliver, requests are answered, the manager resyncs every object
\* periodically (SyncPeriod), answers do not stay fresh for ever, GitHub assigns
\* queued jobs to free runners, jobs end, and time passes.  Runs need not be requested, calls need not fail.
Fairness ==
    /\ SF_vars(Tick)
    /\ WF_vars(SyncHookView)
    /\ WF_vars(view' = hra /\ SyncView)
    /\ WF_vars(targetView' = target /\ SyncView)
    /\ \A q \in Requests : WF_vars(Expire(q))
    /\ WF_vars(ControllerStep)
    /\ WF_vars(\E e \in Jobs \X Actions : tryScale(e))
    /\ WF_vars(\E j \in Jobs : JobStarts(j))
    /\ WF_vars(\E j \in Jobs : JobEnds(j))

Safety == Init /\ [][Next]_vars
Spec == Safety /\ Fairness

---------------------------------------------------------------------------
(* Properties *)

\* No time that is recorded lies in the future.
Times == 0..now \union {None}
ReservationSet == [eff : 0..now, exp : Nat, replicas : Nat]
HRASet == [reservations : Seq(ReservationSet), desired : Nat \union {None}, lastScaleOut : Times]
TargetSet == [replicas : Nat \union {None}, effective : Times]
ReconcileSet ==
    [pc : {"idle", "busy", "queued", "in_progress", "jobs", "target", "status"},
     hra : HRASet, st : TargetSet, queued : SUBSET Runs, inProgress : SUBSET Runs,
     shown : [Runs -> Statuses], waiting : SUBSET Jobs, suggested : Int, new : Nat \union {None}]

AnswerSet(q) == IF q = "runners" THEN SUBSET Jobs
                ELSE IF q \in Runs THEN UNION {[js -> Statuses] : js \in SUBSET JobsOf[q]}
                ELSE [Runs -> Statuses]

AnswersOK == DOMAIN answers \subseteq Requests /\ \A q \in DOMAIN answers : answers[q] \in AnswerSet(q)

\* The values of the variables.
TypeOK ==
    /\ now \in 0..MaxTime
    /\ spec \in UNION {scenario.specs : scenario \in Scenarios}
    /\ hra \in HRASet /\ view \in HRASet
    /\ hookView \in Seq(ReservationSet)
    /\ target \in TargetSet /\ targetView \in TargetSet
    /\ job \in [Jobs -> Statuses]
    /\ AnswersOK
    /\ mail \in [Jobs \X Actions -> 0..2]
    /\ ctl \in ReconcileSet
    /\ resynced \in BOOLEAN
    /\ fails \in 0..MaxFails

\* Capacity comes from deliveries: however stale the copies are that the
\* webhook server writes back, and whatever it resurrects with them, there is
\* at most one reservation per job that was queued and per duplicated delivery.
NoPhantomCapacity ==
    Len(hra.reservations) <= Cardinality({j \in Jobs : job[j] # "none"}) + fails

\* What limits the number of replicas at one time or another.
Minima == {IF spec.min >= 0 THEN spec.min ELSE defaultReplicas}
            \union ({spec.overrides[i].min : i \in DOMAIN spec.overrides} \ {None})
Limits == {spec.max} \union Minima

\* Whatever the metrics suggest, the webhooks reserve and the scale-down delay
\* holds on to, what the controller writes stays between the least and the greatest
\* of the limits (a minimum wins over maxReplicas).
ReplicasWithinBounds ==
    \A n \in {hra.desired, IF target.replicas \in InitialReplicas THEN None
                           ELSE target.replicas} :
        n # None => \E low, high \in Limits : low <= n /\ n <= high

\* A run that moves from queued to in progress while the controller lists them
\* is counted twice and never missed, however old the answers are that the client
\* gives it: the suggestion covers every unfinished job of the target that the
\* first list shows as such.  There are two exceptions.  The second list is one
\* kept from before the first, and shows the run in an earlier status.  Or the list
\* of the run's jobs has failed, or does not have the job yet.
NoRunMissed ==
    ctl.pc = "target" =>
        Cardinality({j \in ctl.waiting \intersect Unfinished : Counted(JobLabels[j], Target)})
            <= Max({0, ctl.suggested})

\* README.md:878-883: scaling from 0 "whilst also being able to provision
\* runners as jobs are queued".  Every queued job that the target's runners
\* can run is run: at no time do jobs wait for ever (jobs are finitely many
\* and do not go back, so this is "queued leads to completed" of each).
EveryJobRuns ==
    []<>(\A j \in Jobs : Runnable(j) => job[j] \notin {"queued", "in_progress"})

\* In the end the target is back at the minimum: no reservation, no cached
\* copy and no delay holds on to runners that nobody needs.
CapacityReleased ==
    <>[](SpecRejected \/ Replicas(target) = getMinReplicas(MaxTime, spec))

===========================================================================
