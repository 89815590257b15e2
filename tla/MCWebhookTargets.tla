-------------------------- MODULE MCWebhookTargets --------------------------
(* Instance of WebhookTargets for TLC: three families of scenarios. *)
EXTENDS WebhookTargets

CONSTANTS h1, h2

MCHras == {h1, h2}

---------------------------------------------------------------------------
(* Scale targets of one owner in one enterprise *)

Runners(kind, scope, group) ==
    [kind |-> kind, repo |-> IF scope = "repo" THEN "owner/repo" ELSE "",
     org |-> IF scope = "org" THEN "owner" ELSE "", ent |-> IF scope = "ent" THEN "corp" ELSE "",
     group |-> group, labels |-> {"gpu"}]

MCShapes ==
    {Runners("RunnerDeployment", "repo", ""), Runners("RunnerDeployment", "org", ""),
     Runners("RunnerDeployment", "org", "big"), Runners("RunnerDeployment", "ent", ""),
     Runners("RunnerDeployment", "ent", "big"), Runners("RunnerSet", "org", "big"),
     [Runners("RunnerDeployment", "org", "") EXCEPT !.labels = {}]}

\* A runner group that GitHub has for the owner.
Group(scope, name, all, listed) ==
    [group |-> [scope |-> scope, name |-> name], all |-> all, listed |-> listed]

Answers ==
    {NoClient,
     {Group("org", "", TRUE, FALSE), Group("ent", "", TRUE, FALSE),
      Group("org", "big", TRUE, FALSE), Group("ent", "big", TRUE, FALSE)},
     {Group("org", "", TRUE, FALSE), Group("org", "big", FALSE, FALSE),
      Group("ent", "big", FALSE, TRUE)},
     {Group("org", "", FALSE, FALSE), Group("org", "big", FALSE, TRUE),
      Group("ent", "", TRUE, FALSE)}}

---------------------------------------------------------------------------
(* Events and triggers *)

Event(kind, action) ==
    [kind |-> kind, action |-> action, repo |-> "owner/repo", owner |-> "owner",
     ownerType |-> "Organization", enterprise |-> "corp", labels |-> {"self-hosted", "gpu"},
     conclusion |-> "success", branch |-> "main", status |-> "queued", name |-> <<>>]

JobEvents ==
    {Event("workflow_job", "queued"), Event("workflow_job", "in_progress"),
     [Event("workflow_job", "queued") EXCEPT !.ownerType = "User"],
     [Event("workflow_job", "completed") EXCEPT !.enterprise = ""],
     [Event("workflow_job", "completed") EXCEPT !.conclusion = "skipped"]}

Trigger(event_) ==
    [event |-> event_, types |-> {}, branches |-> {}, status |-> "", names |-> <<>>,
     repositories |-> {}]

OnJobs == <<Trigger("workflow_job")>>

---------------------------------------------------------------------------
(* Scenarios *)

\* Any two targets, and two edits at any time.
Jobs ==
    [event : JobEvents, triggers : {[h \in MCHras |-> OnJobs]},
     targets : [MCHras -> MCShapes \union {NoTarget}], github : Answers, edits : {2}]

\* Triggers that match, do not match, or match twice, at one level or at two, and one edit.
TriggerLists ==
    {<<>>, OnJobs, <<Trigger("push")>>, <<Trigger("push"), Trigger("push")>>,
     <<[Trigger("pull_request") EXCEPT !.types = {"opened"}, !.branches = {"main"}]>>,
     <<[Trigger("check_run") EXCEPT !.types = {"created"}, !.status = "queued"], Trigger("push")>>,
     <<[Trigger("check_run") EXCEPT !.repositories = {"other"}]>>}

Triggers ==
    [event : {Event("push", ""), Event("pull_request", "opened"), Event("pull_request", "closed"),
              [Event("pull_request", "opened") EXCEPT !.branch = "dev"],
              Event("check_run", "created"), Event("check_run", "completed")},
     triggers : [MCHras -> TriggerLists],
     targets : [MCHras -> {Runners("RunnerDeployment", "repo", ""),
                           Runners("RunnerDeployment", "org", ""), NoTarget}],
     github : {NoClient}, edits : {1}]

\* Every pattern and every name of up to three characters.
Patterns == SeqOf({"a", "b", Star}, 3) \ {<<>>}

Names ==
    [event : {[Event("check_run", "created") EXCEPT !.name = n] : n \in SeqOf({"a", "b"}, 3)},
     triggers : {(h1 :> <<[Trigger("check_run") EXCEPT !.names = ns]>>) @@ (h2 :> <<>>) :
                   ns \in {<<p>> : p \in Patterns} \union {<<<<Bang>> \o p>> : p \in Patterns}
                            \union {<<<<"b">>, p>> : p \in Patterns}},
     targets : {[h \in MCHras |-> Runners("RunnerDeployment", scope, "")] : scope \in {"repo", "org"}},
     github : {NoClient}, edits : {0}]

MCScenarios == Jobs \union Triggers \union Names

=============================================================================
