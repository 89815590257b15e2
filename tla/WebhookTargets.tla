--------------------------- MODULE WebhookTargets ---------------------------
(***************************************************************************)
(* The webhook server handles one GitHub event: from the request to the    *)
(* HRA that tryScale is called for.  What tryScale does is in Autoscaler.  *)
(*                                                                         *)
(*   controllers/horizontal_runner_autoscaler_webhook.go                   *)
(*   controllers/horizontal_runner_autoscaler_webhook_on_*.go              *)
(*   simulator/                                                            *)
(*                                                                         *)
(* HRAs are found through an index of the informer cache.  The keys of an  *)
(* HRA are those its scale target had when the HRA was last added, updated *)
(* or resynced: a change of the target alone does not index it again.  The *)
(* groups that are managed and the labels are read from the targets, each  *)
(* time they are needed.  Between the steps of the handler the user        *)
(* changes targets.                                                        *)
(*                                                                         *)
(* Abstractions.  An index lists HRAs in any order (it is a Go map).  All  *)
(* HRAs are in the namespace the server watches.  A target's Get fails     *)
(* only if it does not exist.  The server reads targets and HRAs from its  *)
(* informers and never from the API: target and deleting are what the      *)
(* informers have, and an edit happens when it arrives there.  The answer  *)
(* names the HRA that tryScale is called for; it is patched after that,    *)
(* from a copy that may be outdated (tryScale of Autoscaler).              *)
(***************************************************************************)
EXTENDS ScaleTargets

CONSTANTS
    Hras,       \* the HorizontalRunnerAutoscalers
    Scenarios,  \* [event, triggers, targets, github, edits]: what a behaviour starts from
    Shapes,     \* the scale targets that an edit chooses from
    MaxEdits    \* bound of the edits of a scenario: changed targets and deleted HRAs

Nobody == "nobody"
Failed == "failed"    \* an error is returned
Aborted == "aborted"  \* the handler panics

NoTarget == [kind |-> "none", repo |-> "", org |-> "", ent |-> "", group |-> "", labels |-> {}]

\* One of repository, organization and enterprise is given.
OneScope(t) == \E s \in {"repo", "org", "ent"} : \A x \in {"repo", "org", "ent"} : t[x] # "" <=> x = s

\* ValidateRepository is asked about RunnerDeployments, not about RunnerSets.
Targets ==
    {t \in [kind : {"RunnerDeployment", "RunnerSet"}, repo : STRING, org : STRING, ent : STRING,
            group : STRING, labels : SUBSET STRING] : t.kind = "RunnerDeployment" => OneScope(t)}

Groups == [scope : {"org", "ent"}, name : STRING]

\* GitHub is not asked for the groups: no client is configured.
NoClient == {}

ASSUME HraAssumption == {Nobody, Failed, Aborted} \intersect Hras = {}
ASSUME ShapeAssumption == Shapes \subseteq Targets
ASSUME ScenarioAssumption ==
    /\ MaxEdits \in Nat
    /\ \A s \in Scenarios :
          /\ s.edits \in 0..MaxEdits
          /\ s.event.repo # "" /\ s.event.owner # ""
          /\ s.targets \in [Hras -> Targets \union {NoTarget}]
          /\ \A g \in s.github : g.group \in Groups
          /\ s.event.name \in Seq(STRING)
          /\ \A h \in Hras : \A i \in DOMAIN s.triggers[h] : s.triggers[h][i].names \in Seq(Seq(STRING))

VARIABLES
    event,     \* the event that is handled
    triggers,  \* per HRA: its ScaleUpTriggers
    deleting,  \* HRAs with a deletion timestamp
    target,    \* per HRA: its scale target, as the informer has it
    index,     \* per HRA: the keys it is indexed by
    github,    \* the runner groups, as GitHub answers
    pc,        \* where the handler is
    todo,      \* HRAs, then groups of GitHub, that a loop has not yet looked at
    managed,   \* the groups found among the targets
    visible,   \* the groups found visible; while they are traversed, those left
    outcome,   \* the answer: [code, hra]
    steady,    \* HRAs indexed rightly when the request came, and not edited since
    edits      \* edits still to come

vars == <<event, triggers, deleting, target, index, github, pc, todo, managed, visible, outcome,
          steady, edits>>
fixed == <<event, triggers, github>>
work == <<todo, managed, visible>>

Pending == [code |-> 0, hra |-> Nobody]

Init ==
    /\ \E s \in Scenarios : /\ event = s.event /\ triggers = s.triggers
                            /\ target = s.targets /\ github = s.github /\ edits = s.edits
    /\ deleting = {}
    /\ index = [h \in Hras |-> IndexKeys(target[h])]
    /\ pc = "idle" /\ todo = {} /\ managed = <<>> /\ visible = <<>> /\ outcome = Pending
    /\ steady = {}

---------------------------------------------------------------------------
(* The user and the informer *)

SetTarget(h, t) ==
    /\ edits > 0 /\ t # target[h]
    /\ target' = [target EXCEPT ![h] = t]
    /\ steady' = steady \ {h} /\ edits' = edits - 1
    /\ UNCHANGED <<fixed, deleting, index, pc, work, outcome>>

DeleteHra(h) ==
    /\ edits > 0 /\ h \notin deleting
    /\ deleting' = deleting \union {h}
    /\ steady' = steady \ {h} /\ edits' = edits - 1
    /\ UNCHANGED <<fixed, target, index, pc, work, outcome>>

\* An event of the HRA, its own resync included, computes its keys again.
Reindex(h) ==
    /\ index' = [index EXCEPT ![h] = IndexKeys(target[h])]
    /\ index' # index
    /\ UNCHANGED <<fixed, deleting, target, pc, work, outcome, steady, edits>>

---------------------------------------------------------------------------
(* Looking for a target by key: the set of the results that are possible *)

Found(key) == {h \in Hras : key \in index[h] /\ h \notin deleting}

\* The first HRA listed that suits the job, if no target before it is missing.
getJobScaleTarget(key) ==
    LET suited  == {h \in Found(key) : ScalesOnJobs(triggers[h])}
        broken  == {h \in suited : target[h] = NoTarget}
        matched == {h \in suited \ broken : HasLabels(target[h], event)}
    IN matched \union (IF broken # {} THEN {Failed} ELSE {})
               \union (IF matched \union broken = {} THEN {Nobody} ELSE {})

Matching(key) ==
    UNION {{<<h, i>> : i \in {k \in DOMAIN triggers[h] : MatchTrigger(triggers[h][k], event) = Yes}} :
           h \in Found(key)}

\* The first of several targets is taken.
getScaleTargetBug(key) ==
    IF Matching(key) = {} THEN {Nobody} ELSE {m[1] : m \in Matching(key)}

\* Exactly one trigger must match; several are as good as none.
getScaleTarget(key) ==
    IF \E h \in Found(key) : \E i \in DOMAIN triggers[h] : MatchTrigger(triggers[h][i], event) = Panics
    THEN {Aborted}
    ELSE IF \E m \in Matching(key) : Matching(key) = {m} THEN {m[1] : m \in Matching(key)}
    ELSE {Nobody}

Search(key) == IF event.kind = "workflow_job" THEN getJobScaleTarget(key) ELSE getScaleTarget(key)

---------------------------------------------------------------------------
(* The handler *)

rest == <<fixed, deleting, target, index, edits>>

\* The end of Handle.  A job event that is worth nothing is answered even if a
\* target was found for it.  The handler's variables are gone.
Answer(code, h) ==
    /\ pc' = "done"
    /\ outcome' = [code |-> code, hra |-> h]
    /\ todo' = {} /\ managed' = <<>> /\ visible' = <<>>
    /\ UNCHANGED <<rest, steady>>

Scale(h) == Answer(200, IF event.kind = "workflow_job" /\ Amount(event) = 0 THEN Nobody ELSE h)

Receive ==
    /\ pc = "idle"
    /\ steady' = {h \in Hras : index[h] = IndexKeys(target[h])}
    /\ IF event.kind = "workflow_job" /\ event.action \notin {"queued", "completed"}
       THEN pc' = "done" /\ outcome' = [code |-> 200, hra |-> Nobody]
       ELSE pc' = "repository" /\ UNCHANGED outcome
    /\ UNCHANGED <<rest, work>>

Goto(label) == pc' = label /\ UNCHANGED <<rest, outcome, steady>>

\* A failed or aborted search ends with an error, or with no answer at all.
SearchRepository ==
    /\ pc = "repository"
    /\ \E r \in Search(<<"repo", event.repo>>) :
          \/ r \in Hras /\ Scale(r)
          \/ r = Failed /\ Answer(500, Nobody)
          \/ r = Aborted /\ Answer(0, Nobody)
          \/ r = Nobody /\ event.ownerType = "User" /\ Answer(200, Nobody)
          \/ r = Nobody /\ event.ownerType # "User"
             /\ Goto("managed") /\ todo' = Hras /\ UNCHANGED <<managed, visible>>

\* The target of one HRA after the other is read.  One that does not exist fails the
\* search for all of them.
getManagedRunnerGroupsFromHRAs ==
    /\ pc = "managed"
    /\ \/ \E h \in todo : target[h] = NoTarget /\ Answer(500, Nobody)
       \/ \E h \in todo :
             /\ target[h] # NoTarget
             /\ managed' = IF IsManaged(event, target[h])
                           THEN Add(managed, GroupOf(target[h])) ELSE managed
             /\ todo' = todo \ {h}
             /\ Goto("managed") /\ UNCHANGED visible
       \/ /\ todo = {}
          /\ todo' = github
          /\ Goto("visible") /\ UNCHANGED <<managed, visible>>

\* One group of GitHub after the other; GitHub may fail to answer.
GetRunnerGroupsVisibleToRepository ==
    /\ pc = "visible"
    /\ \/ /\ github = NoClient
          /\ visible' = managed
          /\ Goto("traverse") /\ UNCHANGED <<todo, managed>>
       \/ github # NoClient /\ Answer(500, Nobody)
       \/ \E g \in todo :
             /\ visible' = IF IsVisible(managed, g) THEN Add(visible, g.group) ELSE visible
             /\ todo' = todo \ {g}
             /\ Goto("visible") /\ UNCHANGED managed
       \/ github # NoClient /\ todo = {} /\ Goto("traverse") /\ UNCHANGED work

\* One group after the other.  An error ends the traversal, and is answered like
\* an event for which there is no target.
Traverse ==
    /\ pc = "traverse"
    /\ \/ visible = <<>> /\ Answer(200, Nobody)
       \/ /\ visible # <<>>
          /\ \E r \in Search(scaleTargetKey(event, Head(visible))) :
                \/ r \in Hras /\ Scale(r)
                \/ r = Failed /\ Answer(200, Nobody)
                \/ r = Aborted /\ Answer(0, Nobody)
                \/ /\ r = Nobody
                   /\ visible' = Tail(visible)
                   /\ Goto("traverse") /\ UNCHANGED <<todo, managed>>

Handle ==
    \/ Receive
    \/ SearchRepository
    \/ getManagedRunnerGroupsFromHRAs
    \/ GetRunnerGroupsVisibleToRepository
    \/ Traverse

Next ==
    \/ Handle
    \/ \E h \in Hras : DeleteHra(h) \/ Reindex(h)
    \/ \E h \in Hras, t \in Shapes \union {NoTarget} : SetTarget(h, t)

Spec == Init /\ [][Next]_vars

---------------------------------------------------------------------------
(* What GitHub does with the event, independently of how it is looked for *)

\* The repository can use the runners of target t.
Reaches(t) ==
    \/ t.repo = event.repo
    \/ /\ event.ownerType # "User"
       /\ t.org = event.owner \/ (t.ent # "" /\ t.ent = event.enterprise)
       /\ github = NoClient \/ \E g \in github : g.group = GroupOf(t) /\ (g.all \/ g.listed)

CanRunJob(h) ==
    /\ h \notin deleting
    /\ Reaches(target[h])
    /\ \A l \in event.labels : l = "self-hosted" \/ l \in target[h].labels

Level(t) == IF t.repo # "" THEN 0 ELSE 1 + Rank(GroupOf(t))

\* Targets in the same repository or in the same runner group.
SamePlace(t, u) == t.repo = u.repo /\ (t.repo = "" => GroupOf(t) = GroupOf(u))

\* A RunnerSet is as RunnerDeployments have to be.
ValidSet(h) == target[h].kind = "RunnerSet" => OneScope(target[h])

\* A RunnerSet is in no group of its own: such a set is also found by the key of the
\* default group.
Ungrouped(h) == target[h].kind = "RunnerSet" => target[h].group = Default

IsJob == event.kind = "workflow_job" /\ Amount(event) # 0
Scaled == outcome.code = 200 /\ outcome.hra # Nobody
Unscaled == outcome.code = 200 /\ outcome.hra = Nobody

---------------------------------------------------------------------------
(* Properties *)

\* Runner groups in the order of precedence.
SortedGroups ==
    {gs \in Seq(Groups) : \A i, j \in DOMAIN gs : i < j => Rank(gs[i]) <= Rank(gs[j])}

\* The handler's state has its types, and the groups it finds are in the order of precedence.
TypeOK ==
    /\ pc \in {"idle", "repository", "managed", "visible", "traverse", "done"}
    /\ outcome \in [code : {0, 200, 500}, hra : Hras \union {Nobody}]
    /\ deleting \subseteq Hras /\ steady \subseteq Hras /\ edits \in 0..MaxEdits
    /\ managed \in SortedGroups /\ visible \in SortedGroups

\* The runners that are scaled for a job are some that GitHub can give it to, and no HRA is
\* passed over whose runners are at a level that takes precedence (repository, default groups,
\* custom groups).  This holds among the HRAs that are steady, whatever happens to the others
\* while the handler is at work (runnergroups.go:107 "ARC chooses the same group as Actions as
\* the scale target").
SameGroupAsActions ==
    IsJob /\ Scaled /\ outcome.hra \in steady /\ ValidSet(outcome.hra) /\ Ungrouped(outcome.hra)
      => /\ CanRunJob(outcome.hra)
         /\ \A h \in steady : ValidSet(h) /\ CanRunJob(h) /\ ScalesOnJobs(triggers[h])
                                => Level(target[outcome.hra]) <= Level(target[h])

\* A job event is answered without a target only if no steady HRA that scales on jobs has
\* runners for it: no key, group or level is overlooked, whatever happens to the other HRAs
\* between the searches, and whatever key an outdated index finds them by.  The exception is
\* a target that does not exist: Traverse answers the error of such a search like "no target".
NoTargetOverlooked ==
    [][IsJob /\ pc # "done" /\ Unscaled' /\ (\A h \in Hras : target[h] # NoTarget)
         => ~ \E h \in steady : ValidSet(h) /\ CanRunJob(h) /\ ScalesOnJobs(triggers[h])]_vars

\* Another event scales an HRA only if there is no second trigger that matches in the same
\* repository or group, among the HRAs that are steady, whatever happens to the others
\* (horizontal_runner_autoscaler_webhook.go:436 "It must be exactly one to avoid ambiguity").
ExactlyOneTrigger ==
    /\ event.kind # "workflow_job" /\ Scaled
    /\ outcome.hra \in steady /\ ValidSet(outcome.hra) /\ Ungrouped(outcome.hra)
    => \A h \in steady \ deleting : \A i \in DOMAIN triggers[h] :
          /\ MatchTrigger(triggers[h][i], event) = Yes /\ ValidSet(h)
          /\ SamePlace(target[h], target[outcome.hra]) /\ Reaches(target[h])
          => h = outcome.hra /\ \A j \in DOMAIN triggers[h] :
                                   MatchTrigger(triggers[h][j], event) = Yes => j = i

\* The first i characters of a pattern fit the first j of a name: at[k] is where the k-th
\* of the pattern ends in the name, and a star may stand for any characters.
Fits(pat, s, i, j) ==
    \E at \in [0..i -> 0..j] :
       /\ at[0] = 0 /\ at[i] = j
       /\ \A k \in 1..i : IF pat[k] = Star THEN at[k - 1] <= at[k]
                          ELSE at[k] = at[k - 1] + 1 /\ s[at[k]] = pat[k]

Matches(pat, s) == Fits(pat, s, Len(pat), Len(s))

\* A check_run event scales an HRA that names job patterns only if the name matches one of
\* them, as GitHub's globs do (horizontalrunnerautoscaler_types.go:85 "Any check_run event
\* whose name matches one of patterns in the list can trigger autoscaling").  Negated patterns
\* are left out: as Match misses names ("*a" and "aa"), "!*a" lets "aa" pass.
OnlyMatchingNames ==
    event.kind = "check_run" /\ Scaled
      => \E i \in DOMAIN triggers[outcome.hra] :
            LET t == triggers[outcome.hra][i]
            IN /\ t.event = "check_run"
               /\ \/ t.names = <<>>
                  \/ \E k \in DOMAIN t.names :
                        t.names[k][1] = Bang \/ Matches(t.names[k], event.name)

=============================================================================
