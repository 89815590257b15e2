# A TLA+ model of actions-runner-controller

actions-runner-controller (ARC) runs self-hosted GitHub Actions runners as pods. This
directory models how runners are created, kept at a desired number, unregistered from GitHub and
removed, how new templates are rolled out, and how the desired number follows the jobs that GitHub
reports, while jobs arrive and end, caches lag, deliveries are lost, API calls fail and
controllers restart.

## 1. Inventory

| Component | State | Operations | Talks to |
|---|---|---|---|
| Runner controller (`controllers/runner_controller.go`) | `Runner`: finalizer, annotations, `status.registration`, `status.phase` | add/remove finalizer, registration token, create the pod, copy its phase | API server, GitHub (token) |
| Runner pod controller (`runner_pod_controller.go`, `runner_graceful_stop.go`) | pod finalizer, annotations id, unregistration-request/-start/-complete, completion-wait | find the runner ID, graceful stop (`tickRunnerGracefulStop`), release the finalizer, force delete | API server, GitHub (`ListRunners` through an HTTP cache, `RemoveRunner`) |
| Owner synchronisation (`runner_pod_owner.go`) | annotations of owners and pods, sync-time | create owners, termination 1/4 to 4/4, delete completed and outdated owners | API server, from two informer caches |
| RunnerReplicaSet, RunnerSet controllers | `status.replicas` | call the synchronisation, report | as above |
| RunnerDeployment controller | the newest and the old RunnerReplicaSets, `status` | roll out a template, propagate replicas, selector and EffectiveTime, scale down and delete old sets | RunnerReplicaSet's status, from a cache |
| Horizontal runner autoscaler (`horizontalrunnerautoscaler_controller.go`, `autoscaling.go`, `schedule.go`) | HRA: capacity reservations, desired replicas, last scale-out | compute replicas from busy runners, queued and running jobs, reservations, schedules; patch target and status | RunnerDeployment/RunnerSet, GitHub |
| Webhook-based autoscaler (`horizontal_runner_autoscaler_webhook*.go`) | an index of HRAs by repository, organization, enterprise and group; capacity reservations | find the HRA of an event, add or remove a reservation | HRA (merge patch), GitHub (runner groups) |
| Runner groups (`simulator/`) | none | order groups by precedence, find those visible to a repository | GitHub |
| Globs (`pkg/actionsglob`) | none | match a check run's name | |
| Delivery forwarder (`pkg/hookdeliveryforwarder`) | a position per rule in memory, checkpoints in a ConfigMap | poll deliveries, post the new ones, checkpoint | GitHub, webhook server |
| GitHub client (`github/github.go`) | HTTP cache, token cache | list runners, runs and jobs, remove runners | GitHub |
| Pod mutating webhook, API types, validation, metrics, processes | none | rewrite a pod, check fields, export gauges, parse flags | |

What is hard: every controller decides on informer caches that lag, separately per kind; a
Reconcile makes several writes with no transaction and may stop after any of them; GitHub can
assign a job at any moment until `RemoveRunner` succeeds; names are reused while registrations are
found by name; a container may be restarted by kubelet after it looked finished. The webhook server and
the autoscaler write the same HRA from copies of different age; deliveries are lost, repeated and
reordered; GitHub's lists change between two requests; the forwarder can be killed between a POST
and its checkpoint.

What makes it correct: a runner is never terminated under a job; its registration is removed
before its pod; a stop that was asked for ends; a pod's finalizer is not held for ever; the set
reaches the desired number. A rollout ends with the wanted set alone and never removes it. Every job that
some target can run is run, the replicas stay within their limits, and capacity is released when
the jobs are done. An event scales the runners that GitHub would use. Deliveries are forwarded in
order, and a checkpoint is never ahead of the POST: what it is past was received or its one POST failed,
but for the deliveries that came between two polls, of which only the latest is forwarded and the others are
skipped (`forwarder.go:230`). The hazards are listed with their lines in `PROJECT.json`.

## 2. Modules

### `RunnerGracefulStop`: one runner

From the creation of a `Runner` to the removal of its last pod. The variables are the API
objects (`owner`, `pod`), the pod in the informer cache (`cache`), the local state of the pod
controller's Reconcile (`pc`, `rp`, `releasing`, `target`), and the world outside (`agent`,
`agentID`, `reg`, `job`, `listed`).

* The pod controller's Reconcile is split at every call that leaves the process. `rp` is the Go
  variable `runnerPod`: annotation checks are made on it, and it can be older than the pod. Between
  two calls anybody may act, and `ReconcileFails` is an error or a restart at each of those places.
* Patches carry neither resourceVersion nor uid, so they change whatever pod has the name now (the one that releases the
  finalizer carries the version of an earlier patch of the same Reconcile, and may fail where the model lets it succeed). This is
  why a pod has a number (`uid`) and why the annotated ID may belong to a predecessor.
* The runner controller's operations make one write each and are atomic.
* `MarkOwnerComplete`, `DeleteCompleteOwner`, `DeleteCompletedOwner`, `RequestPod`, `RequestOwner`
  are the termination steps 2/4, 3/4, the deletion of a completed owner and the two patches of 1/4,
  for this owner. When an owner is redundant is the subject of `RunnerSync`; here any synced one may be.
* Kubernetes (garbage collector, kubelet, API server) and GitHub with the agent are external: they
  do what the code relies on, and, as `Faults` permits, what it has to survive.

Simplifications: annotation values (timestamps) are reduced to presence; durations to "some time
later"; the registration ID of a pod is its number; the expiry of registration tokens is left out; the
`Runner` is read as it is, not from a cache. The branches of `ensureRunnerUnregistration` after a
`RemoveRunner` that neither fails nor succeeds (196-220) are dead code, because `unregisterRunner`
never returns `false, nil`; they have no action.

### `RunnerSync`: all owners of a set

`syncRunnerPodsOwners` over up to `MaxOwners` owners, each a Runner or (with
`StatefulSets = TRUE`) a StatefulSet of one replica. `ownerView` and `podView` are the two informer
caches, each of which lags on its own. A Reconcile is one step on the views with effects on the real
objects; caches list in any order, so the writes before an early return or an error are an arbitrary
subset (`CollectReturns`, `CollectFails`, `ScaleDownFails`). `Verdict` is the chain of tests of
`collectPodsForOwners`; `Deferred`, `CreateRunners`, `ScaleDown`, `Wait`, `Finish` are the branches of
`syncRunnerPodsOwners`, including the deletion of one outdated owner and the status.

Time is reduced exactly: recreation is deferred iff the *last* sync time is after EffectiveTime and
less than ten minutes ago; whichever of these holds of any owner holds of the last, so `fresh`
(both hold) of some owner says the same. A sync time in the same second as EffectiveTime is not after it, so
`CreateRunners` chooses. Owners created by one call have equal creation times and are unordered
(`order` is the relation "created after", which holds between owners of different calls only).

The life of a single runner is what `RunnerGracefulStop` establishes: a requested stop completes only
when the runner is idle or has stopped (`Unregister`), and only owners lose pods. A Runner becomes
synced when the *pod cache* shows its pod, because the runner controller shares the cache with the
synchronisation (`SyncedIsSeen`); a StatefulSet is synced by Kubernetes, whatever the pod cache shows. The passing runs
have Runners; section 5 says what becomes of StatefulSets.

A RunnerReplicaSet's status is reduced to its replicas; the ready ones, which RunnerDeployment waits
for, are told apart by no property of this module.
The spec of the set is read as it is, not from a cache.

### `RunnerContract`, `RunnerGracefulStopRefinement`: what a runner promises

`RunnerContract` is the abstract runner: starting, idle, busy, drained, gone, and whether it has been
asked to stop. Nothing leads from busy but the end of the job, and an asked runner is gone in the end.
`RunnerGracefulStopRefinement` maps the registration, the agent and the two request annotations
to it; a job that GitHub still has on an agent that left it maps to no state of the contract, so that
a mapping cannot hide it. `RunnerSync` assumes of each of its runners what the contract says
(`Unregister`, `JobStarts`, `JobEnds`).

### `RunnerDeployment`: the rollout

The RunnerDeployment (`rd`, edited by the user), its RunnerReplicaSets (`rs`, numbered in the order of
creation), the cache of them (`view`), their runners as numbers (`own`), and the RunnerDeployment's status. A
Reconcile takes one of the branches of the code: create a set (`CreateSet`), update the
selector or the replicas of the newest, remove old sets and patch the status (`Finish`); `FinishFails` stops
after any of the removals. An Update with an outdated resource version fails, a Delete does not.
`CreateRunners`, `StopRunner` and `ReportStatus` stand for the RunnerReplicaSet controller: a set finds its
runners by selector, so that two sets with one template see one another's.

### `ScalingAlgorithms`, `Autoscaler`: how many runners

`ScalingAlgorithms` has the calculations without state: the two metrics with their defaults and their
rejected settings, recurring schedules, minimum and maximum, reservations, the scale-down delay. A
result may be an error or a nil dereference; what the code does then is kept.

`Autoscaler` is one HRA. `tryScale` is the webhook server; the controller's Reconcile is split at
the requests to GitHub and the patches (`ctl.pc`), with failures between them; `view`, `hookView` and
`targetView` are the copies the two processes work on. A merge patch holds what differs from the copy
and overwrites just that, which for the reservations is the whole list. GitHub starts, assigns and ends jobs,
and sends deliveries (`mail`), which may be lost, duplicated and reordered.

The controller's requests to GitHub go through the client's HTTP cache (`github.go:89-93`): `answers` holds what is kept, request by
request (the busy runners, the runs that are queued, those in progress, the jobs of each run). A request is answered from it until
`Expire` drops the answer, at any time; in the code that is when its 60 seconds are over, so the model also has caches that are
older. The order of the two lists of runs is thus no guarantee: the list of those in progress may be one kept from before the
list of the queued ones, and a run that has started meanwhile is in neither. `NoRunMissed` names this exception, and says that it is the
only one besides job lists that failed or lack the job. All pages of a list are one request; in the code they are one request and one cached answer each.

### `ScaleTargets`, `WebhookTargets`: which runners

`ScaleTargets` has the calculations of the webhook server: index keys, the order of runner groups, groups visible
to a repository, matching of triggers and labels, and `Match` of `actionsglob` with the
indexing that can panic. The loop of `Match` is a recursive function of the number of rounds (`MatchLoop`), one round is
`MatchToken`; what a pattern means is said without it, by placing the characters that are not stars one after the other (`Fits`), and
`OnlyMatchingNames` compares the two. `WebhookTargets` handles one event with them, in the steps of the code: by
repository, then the managed groups, then the visible ones asked of GitHub, then the traversal in
order of precedence. The two loops take one step per HRA and per group of GitHub, in any order: `todo` is what is left of
the loop, `managed` and `visible` are the `VisibleRunnerGroups` it fills. The user changes targets and deletes HRAs between any two steps; the index of an HRA keeps the keys its
target had when the *HRA* last changed. The server reads targets and HRAs from its informers only (`getJobScaleTarget` at 706 and 737), so
`target` is what the informer has, and the module ends with the HRA that `tryScale` is called for: that it is patched later, and from
what copy, is in `Autoscaler`. The history variable `steady` has the HRAs whose keys were right when the request came and that have not been edited since. The properties
are about these, whatever happens to the others between two steps. The validation of RunnerDeployments is an assumption on the targets (`OneScope`:
just one of enterprise, organization and repository is set); RunnerSets have no validating webhook and may set several, so the properties that
depend on it say so (`ValidSet`).

### `DeliveryForwarder`: forwarded webhooks

One goroutine per rule, split at every request: find or create the hook, get or create the checkpoint, poll, post, save.
A panic (the nil position after a failed poll) or a crash ends all goroutines, `Restart` starts them
from the ConfigMap. A goroutine that returns an error is not restarted while others run. One scan of the newest-first list stops at
the checkpoint or at the first delivery that is older than the start; `Scan` says so by the position at which it stops. As the position moves with
the deliveries found, that is after the latest one; the history variable `skipped` has the new ones that a poll did not find. A poll that the client's HTTP
cache answers is a poll made earlier, as nothing that the rule does in between reads the log or the clock.

### `Totals`: sums without recursion

The totals of `RunnerDeployment` (current and available replicas of the sets) and of `ScalingAlgorithms` (capacity
reserved) are cardinalities, and a filtered list is the part of a sequence at a set of positions, so that theorems can be
proved about the modules that use them.

### The modules named `...Proofs`: theorems, see section 4.

The modules named `MC...` give constants that a `.cfg` cannot write; `MCAutoscaler` also
checks two facts about `ScalingAlgorithms` over more inputs than the scenarios have (`NoFlapping`: up to 40 replicas and
busy runners; `SchedulesAreUnambiguous`: all recurrences of up to 6 ticks).

Definitions ending in `Bug` are mutants: variants of the definition that follows them with one
plausible mistake, used to show that each property can fail.

## 3. Runs

| Run | Instance | Shows |
|---|---|---|
| `stop_standard` | ephemeral, no faults, 2 pods, 2 failures | `NoJobInterrupted`, `MarkedPodStaysUnregistered`, `RegistrationFirst`, `CompleteFollowsStart`, `NoLeakedRegistration`, `StopCompletes`, `RefinesContract` |
| `stop_faults` | static, all faults, 1 pod, 1 failure | `ReleasedOnlyWhenComplete`; `DeletionCompletes`: a pod that is being deleted is gone in the end, whatever GitHub and the agent do |
| `stop_recreate` | foreign deletion, 2 pods | **violation** of `RegistrationFirst`: the predecessor's registration is found under the name |
| `sync_convergence` | Runners, 2 owners, 1 replica, 1 change, 1 job, 1 failure | `Converges`, `RequestReachesPod` |
| `sync_scaledown` | Runners, 2 owners, 2 replicas, 2 templates, 1 change, 2 jobs | `SyncedIsSeen`, `ScaleDownSparesJobs` |
| `sync_overdrain` | 3 owners, 2 replicas, 1 change | **violation** of `ScaleDownKeepsDesired`: owners already asked to stop count as retained |
| `rollout` | 2 templates, 2 selectors, replicas nil or 2, 1 edit, 1 job | `NewestIsKept`, `RolloutConverges` |
| `rollout_effective` | 1 template, 1 edit | **violation** of `EffectiveTimeArrives`: the time is copied only together with a change of the replicas |
| `autoscaler` | 1 run of 2 jobs, 4 ticks, 1 failure, 5 HRAs: both metrics; polling, and busy runners, with GitHub's answers cached; busy with webhooks and a recurring minimum; webhooks with overrides | `NoPhantomCapacity`, `ReplicasWithinBounds`, `NoRunMissed`, `EveryJobRuns`, `CapacityReleased` |
| `scale_from_zero` | webhooks only, minimum 0, nothing lost | **violation** of `EveryJobRuns`: two requests that work from one cached copy overwrite one another's reservation |
| `webhook_targets` | 2 HRAs, 7 shapes of targets, 4 answers of GitHub, 2 edits; all triggers of 3 kinds of events, 1 edit; all patterns and names of up to 3 characters | `SameGroupAsActions`, `NoTargetOverlooked`, `ExactlyOneTrigger`, `OnlyMatchingNames` |
| `forwarder` | 2 rules, 2 deliveries, 2 ticks, 1 crash, 1 failure | `InOrder`, `CheckpointFollowsPost`, `NothingOld`, `LatestArrives` |

Bounds. Two pods under one name are the least with which a pod meets the traces of a predecessor.
Two failures put one inside the Reconcile and one inside its retry. In `RunnerSync`, two owners with
one desired replica have the surplus and the replacement that scale-down and recreation are
about; `MaxFails` also counts creations decided on an outdated list and registration timeouts, since
without a bound on them a set can alternate between creating too many and removing too many for ever.
The quota `MaxOwners` is part of the code's world (Create fails); with two templates it can block an
update, because outdated owners are deleted after their replacements exist, so `sync_convergence` has
one template. `CHECK_DEADLOCK FALSE`: a Runner that is removed, a set that has converged with no
jobs left, and a handler that has answered do nothing more.

In `RunnerDeployment` one edit makes two sets, an old and a new one, and one job keeps a runner of the old one. Three templates with two
edits (one selector, one replica) also pass. In `Autoscaler` two jobs are the least whose
reservations can be lost to one another; a reservation lasts one tick of four, so that it is
added, expires and is restored from an outdated copy within the horizon; a failure is
a lost or repeated delivery or a failed request. No instance has all caches lag at once: the scenarios take the
copies in turn, the one that the scenario's mechanism decides on. `Busy` sets its threshold so high that the
busy metric scales down only; the default thresholds are in `Combined`. Two HRAs are the least for an
ambiguity and for two levels. Two rules are the least that share a ConfigMap, and the two deliveries may be of one rule or of both.

Fairness. Controllers have work queues that retry a key until it succeeds and resync
periodically: their Reconciles are weakly fair, as are the informers, kubelet and the garbage collector.
A job ends and config.sh succeeds (the latter not with the fault "noregister"). No fairness is assumed of
requests to stop, of jobs arriving, or of any failure. `stop_faults` uses `DeletionFairness`, which assumes
nothing of GitHub or the agent. In `RunnerSync` the steps of one runner are fair together
(`RunnerStep`); none of them can be repeated for ever without a job or a change.
In `Autoscaler` the controller is resynced periodically, watches deliver, the webhook server handles what it
receives, answers do not stay fresh for ever in the HTTP cache (60 seconds), GitHub assigns a queued job to a free runner and jobs end: all
weakly fair. The clock is strongly fair,
as nothing stops it for ever while it is disabled during a Reconcile. Deliveries may be lost, within
`MaxFails`. `RunnerDeployment` is fair to each step of the two controllers, the informer, the start of runners and
the end of jobs, not to edits. `DeliveryForwarder` is fair to the restart by Kubernetes and to each rule's steps.

## 4. Proofs

All theorems hold for every value of the constants that satisfies the assumption of the module (`ConstantsAssumption`,
`SyncAssumption`, `DeploymentAssumption`, `AutoscalerAssumption`, `ForwarderAssumption`, and `HraAssumption`, `ShapeAssumption`,
`ScenarioAssumption`): any number of pods, owners, sets, runs, jobs, HRAs, groups, rules, deliveries, failures, crashes and edits. The
assumptions say that bounds are numbers and that scenarios are well typed; `OneScope` on targets is what the admission webhook enforces, and `SpecAssumption` what the types of a
scaling specification admit, without a negative maximum and negative delay, which nothing rejects and no document gives a meaning to. Every inductive invariant below was checked by TLC on the instance of
the run, with the faults and owners that the theorem admits, before it was proved.

**`RunnerGracefulStopProofs`**
* `TypeCorrect`, and `FinalizerHeld`: `Safety => ReleasedOnlyWhenComplete`, for every set of faults. The property is about
  one step; it needs that a Reconcile standing at `removeFinalizer` has left the
  complete annotation on the pod that is there now, and that pods are not replaced while a finalizer
  is held (`ReleaseInv`).
* `MarksFollowStarts` (`CompleteFollowsStart`) under `Undisturbed`: nobody else deletes the pod; crashes, 403s and failed registrations are
  included. `MarkInv` says of the pod and of each copy of it that a complete mark comes with a start mark and that what a copy says
  is still true of the pod; `OnePodInv`, that the first pod is the only one and that a Runner is annotated only after it was created, so that no pod
  inherits a mark. With foreign deletions the property is false (section 5).
* `StopsFollowRegistration` (`RegistrationFirst`) under `Undisturbed` and `Steady` (no crash); GitHub may refuse to remove the runner and
  registration may fail. An ID, a start mark or an exit code that any copy of a live pod shows, and a registration that GitHub has or its
  cached list shows, entail that the agent has registered (`RegisteredInv`): with a single pod there is no predecessor to take them from.
* `JobsAreNotInterrupted`, `MarkIsFinal`, `RegistrationsAreRemoved`: under `Standard` (no foreign deletion, no crash, no
  403; registration may still fail) jobs are not interrupted, a marked pod stays unregistered, and no registration is leaked. The inductive invariant
  `StandardInv` says how far each of the marks (id, start, complete on the pod; request, complete,
  deletion on the owner) entails that the agent has registered and that it is drained, for the pod,
  its cached copy and Reconcile's local copy alike: without the copies it is not inductive, since
  decisions are made on them. `Standard` is needed: section 5 names the faults that break each.

**`RunnerGracefulStopRefinementProofs`**: `ImplementsContract`, the safety part of `RefinesContract` under `Standard`. Beyond `StandardInv` it
needs that nobody starts a stop that was not asked for: a request that any copy of the pod shows is on the Runner or on the pod
now, or the runner is drained (`RequestInv`).

**`RunnerSyncProofs`**
* `TypeCorrect`, for Runners and StatefulSets.
* `SeenRequestsReachPods` and `SeenJobsAreSpared`: `Safety /\ []SyncedIsSeen` implies `RequestReachesPod` and `ScaleDownSparesJobs`, for Runners and
  StatefulSets alike. `SyncInv` says owner by owner how far the two caches may be behind: what a
  cached owner or pod says to be done (requested, complete, completed) is true of the real one, and a pod the cache does not show
  belongs to an owner that carries no request. That a synced owner's pod is seen is thus all that the synchronisation relies on.
* `RunnersAreSeen` (`SyncedIsSeen`) under `~StatefulSets`: `AllSeen` carries it from the Runner to its cached copy. With it follow
  `RequestsReachPods` and `JobsAreSpared`, which need no hypothesis but `~StatefulSets`. With StatefulSets they are false (section 5).

**`RunnerDeploymentProofs`**: `TypeCorrect` and `WantedSetIsKept` (`NewestIsKept`). `ViewInv`: the newest set that the cache shows
exists, so what an outdated cache takes for an old set is one. `CountInv` counts the sets against the edits and the
creations from an outdated list; the slots for sets are enough because of it. Rollbacks and duplicates are included.

**`AutoscalerProofs`**
* `TypeCorrect` and `StaysWithinBounds` (`ReplicasWithinBounds`): every number that is written, read back from a
  cache or kept in a Reconcile lies between limits of the specification (`BoundInv`), and a Reconcile goes on only with a
  specification that it accepts (`AcceptInv`).
* `CapacityIsAccountedFor` (`NoPhantomCapacity`): there is room for one more reservation per delivery on its way in the list that is
  stored and in the list that the webhook server has cached (`CapacityInv`); without the second the invariant breaks
  when an outdated list is written back.
* `NoRunIsMissed` (`NoRunMissed`): a run is counted if the second list is not behind the first, although both may be old. Nothing
  that is kept of GitHub's answers, or that a Reconcile has been shown, is ahead of GitHub, and the jobs of a run begin to exist together
  (`PastInv`); hence a job of a run that the first list shows as queued or in progress, and that is unfinished still, belongs to a run of one of the two lists
  (`ListInv`). Without the answers in the cache the invariant is not inductive, as later Reconciles read them.

**`WebhookTargetsProofs`**
* `TypeCorrect`: the groups stay in the order of precedence with every insertion.
* `NobodyIsOverlooked`, `ChoosesAsActions`, `ScaledTargetIsUnambiguous` (`NoTargetOverlooked`, `SameGroupAsActions`, `ExactlyOneTrigger`), for
  the steady HRAs, whatever is edited meanwhile. `CoverInv`: the loops have passed over no group of a steady HRA; `LeftInv`: the steady HRAs that remain
  candidates are in the groups that are left, though the groups were found while others changed; `VisibleInv`: only visible groups are traversed.
* `OnlyMatchingNamesScale` (`OnlyMatchingNames`): a check run scales an HRA only if a pattern of the trigger fits its name, for patterns and names
  of every length. `MatchIsSound` is the heart of it: whatever the loop has passed over fits the part of the pattern it has done
  (`RoundInvHolds`, `RoundStep`). The induction over the rounds is by the least round at which this fails (`RoundInvHolds`), and that the recursive
  function exists at all is proved, not assumed (`LoopIs`): the library's induction theorems cannot be instantiated here. `FitsLonger`,
  `FitsStar` and `FitsText` extend a fitting part by a star or by text.

**`DeliveryForwarderProofs`**: `TypeCorrect`, `DeliveriesInOrder` (`InOrder`), `CheckpointsFollow` (`CheckpointFollowsPost`) and `OnlyRecent`
(`NothingOld`). `ForwardInv` says per rule that the position in memory is never behind what this life of the process has
posted, and that what is about to be posted is later than what was received and not older than the start. `AccountInv` accounts for every
delivery that the position in memory or the checkpoint is past: received, its POST failed, still to be posted (this only of the position in
memory), older than the start, or passed over by a poll (`skipped`). It speaks of the position too, since the checkpoint is a copy of it.

**`TotalsProofs`**: lemmas on sums, least and greatest elements and filtered sequences that the others cite.

Only model-checked:
* all liveness (`StopCompletes`, `DeletionCompletes`, `Converges`, `EveryJobRuns`, `CapacityReleased`, `RolloutConverges`, `LatestArrives`, and the
  fairness that `RunnerContract` promises), which is out of the prover's reach;
* `NoFlapping` and `SchedulesAreUnambiguous`, facts about concrete factors and recurrences.

## 5. Findings

Four violation runs show where a comment or document says more than the code does; `PROJECT.json` quotes
the lines.

Observations without a run of their own. The first seven were found by TLC, with the constants or the change named; the
others are read from the code.

* With `Faults = {"crash"}`, `NoJobInterrupted` fails: a crashed container counts as a completed one
  (`runner_controller.go:188`, against the comment at `runner_pod_owner.go:576`).
* With `Faults = {"noregister"}`, `StopCompletes` fails: the registration timeout of
  `constants.go:46` does not end the wait at `runner_graceful_stop.go:236`.
* With `StatefulSets = TRUE` (one owner, one job, one change of the replicas), `ScaleDownSparesJobs` fails: a StatefulSet that is synced while the
  other cache does not show its pod yet has `running == 0`; it is asked to stop with no pod to patch, has no pod left to wait for, and is deleted
  under its job. The comment at `runner_pod_owner.go:414` ("all of them are completed now") does not hold; `SyncedIsSeen` is what is missing.
* With `Templates = 2`, `ScaleDownSparesJobs` fails without its condition on the template: an outdated owner is deleted whether or not
  its runner has a job (`runner_pod_owner.go:467`, against `docs/releasenotes/0.22.md:29`).
* With `Faults = {"delete"}` and two pods, `CompleteFollowsStart` fails: `newPod` copies the owner's annotations (`runner_controller.go:341`),
  `unregistration-complete` included, so a pod recreated for an owner that lost its pod and was then marked starts out marked as complete.
* With `Rollbacks = TRUE` or `MaxDuplicates = 1`, `RolloutConverges` fails: two RunnerReplicaSets of one template share their
  selector, and each counts and stops the other's runners for ever.
* Without `Ungrouped`, `SameGroupAsActions` fails: a RunnerSet in a group is also found by the key of the default group
  (`horizontal_runner_autoscaler_webhook.go:900`), so one in a group that the repository cannot use is scaled for its job, against
  `runnergroups.go:107`. `ExactlyOneTrigger` excludes such sets, too.
* Recreation is not deferred when no owner is left, as `lastSyncTime` is nil then.
* An old RunnerReplicaSet whose status is missing or older than its runners is deleted while they are busy
  (`runnerdeployment_controller.go:196-262`).
* `actionsglob.Match` misses names that a glob matches (`*a` and `aa`) and can index past the end; `OnlyMatchingNames` therefore says
  only that what is matched should be.
* A RunnerSet that sets several of enterprise, organization and repository, which the webhook server does not
  reject, is indexed under each of them; `NoTargetOverlooked`, `SameGroupAsActions` and `ExactlyOneTrigger` are about the others (`ValidSet`).
* Two custom groups of one level have no precedence over one another, so for other events than jobs an HRA in the one may be scaled
  although a trigger in the other matches too; `ExactlyOneTrigger` compares the HRAs of one repository or group.
* With an HTTP cache that has the runs in progress from before the queued ones were fetched anew, `NoRunMissed` fails without
  its exception (found by TLC): a run that has started in between is in neither list, and its jobs are not counted until the answer expires.
* A search that fails while the groups are traversed, because a target does not exist, is answered like an event without a target
  (`horizontal_runner_autoscaler_webhook.go:566`); `NoTargetOverlooked` excepts it.
* The forwarder's poll ends at the second new delivery, as the position has moved to the first (`forwarder.go:226-232`): what comes between two polls is skipped,
  but for the latest; `CheckpointFollowsPost` and `LatestArrives` say just that.
* A forwarder whose goroutine has returned an error stays ended while other rules run, and a failed POST is
  not retried; `LatestArrives` names both exceptions.
* The products of `autoscaling.go` are float64: with the default factors they agree with the exact ones up to 89 replicas
  (`int(90 * 0.7)` is 62).

* Times have seconds: a runner created in the second of EffectiveTime does not defer recreation, and two RunnerReplicaSets
  of one second have no order.
* One owner that never becomes synced ends every Reconcile of its set early, and with an exhausted quota an update
  does not proceed, as outdated owners go after their replacements have come.
* The polling metric counts jobs that ask for every label of the runners, the webhook server takes runners that have every label
  of the job. The instances have equal labels.
* Of several HRAs that suit a job the first listed is taken, in any order: the completed event may
  take its reservation from another HRA than the queued event gave it to; expiry corrects this.

## 6. Plan

1. `RunnerGracefulStop` under faults: what of `StandardInv` survives a crash or a foreign deletion beyond `FinalizerHeld`,
   `MarksFollowStarts` and `StopsFollowRegistration`.
2. Safety behind the convergence properties: `Autoscaler` never lowers the target below what the running jobs need within
   one Reconcile; `RunnerDeployment`'s status lies between the counts of the sets it has listed.
3. The hazards that have no property yet (`PROJECT.json`): the deferral of recreation with no owner left needs a history of
   creations; what two sets of one template do to one another needs a statement weaker than `RolloutConverges`.

### Not modelled

* Pod specs, volumes and environment variables, the pod mutating webhook (one rewrite of a pod),
  generated deep copies, metrics, flag parsing and wiring: no state that other parts depend on. Of the validation only the rule that
  other parts rely on is in the model, as the assumption `OneScope` of `WebhookTargets`.
* The pages of GitHub's lists, each of which is a request and a cached answer of its own, are one request in the model. The token cache of the GitHub client and the expiry of registration tokens; signature validation and parsing of webhook requests.
* `InMemoryCheckpointer`, the default that the command always replaces, and the older package
  `githubwebhookdeliveryforwarder`, which only logs.
* Monthly and yearly schedules, whose length depends on the date, and the text
  `status.scheduledOverridesSummary`.
* The deletion of a RunnerDeployment or an HRA as such: their controllers return early.
* The composition of `RunnerDeployment` with `RunnerSync` and of `Autoscaler` with either: each works on what the
  other promises, since the product of the two is out of TLC's reach.
