---------------------------- MODULE ScaleTargets ----------------------------
(***************************************************************************)
(* The calculations with which the webhook server finds what a GitHub      *)
(* event is to scale: the keys an HRA is indexed by, the precedence of     *)
(* runner groups (simulator/), the matching of triggers and of job labels  *)
(* (controllers/horizontal_runner_autoscaler_webhook*.go), and glob        *)
(* patterns (pkg/actionsglob).                                             *)
(*                                                                         *)
(* Abstractions.                                                           *)
(*  - There is one repository, of one owner, in one enterprise; a key is a *)
(*    tuple of what its string is put together from.                       *)
(*  - A name or a pattern is a sequence of characters, as the way it is    *)
(*    split is what the result depends on.                                 *)
(***************************************************************************)
EXTENDS Integers, Sequences, FiniteSets, SequencesExt, FiniteSetsExt

---------------------------------------------------------------------------
(* Runner groups: [scope, name]; the default group has no name *)

Default == ""

\* NewRunnerGroupFromProperties: an enterprise takes precedence.
GroupOf(t) == [scope |-> IF t.ent # "" THEN "ent" ELSE "org", name |-> t.group]

Rank(g) == (IF g.name = Default THEN 0 ELSE 2) + (IF g.scope = "ent" THEN 1 ELSE 0)

\* The comparisons are the wrong way round: custom groups come first.
AddBug(sorted, g) ==
    InsertAt(sorted, Min({i \in DOMAIN sorted : Rank(g) > Rank(sorted[i])} \union {Len(sorted) + 1}), g)

\* sort.Search: before the first group that g takes precedence over.
Add(sorted, g) ==
    InsertAt(sorted, Min({i \in DOMAIN sorted : Rank(g) < Rank(sorted[i])} \union {Len(sorted) + 1}), g)

---------------------------------------------------------------------------
(* Keys.  A scale target is [kind, repo, org, ent, group, labels] *)

KeyOf(scope, owner, group) == IF group = Default THEN <<scope, owner>> ELSE <<scope, owner, group>>

\* The group of an enterprise is looked for among those of the organization.
IndexKeysBug(t) ==
    {<<"repo", t.repo>> : x \in {t.repo} \ {""}}
      \union {KeyOf("org", t.org, t.group) : x \in {t.org} \ {""}}
      \union {KeyOf(IF t.group = Default THEN "ent" ELSE "org", t.ent, t.group) : x \in {t.ent} \ {""}}

\* A RunnerDeployment in a group has the key of the group only, a RunnerSet that
\* of the default group too.  A target that does not exist has none.
IndexKeys(t) ==
    LET keys(scope, owner) ==
          IF owner = "" THEN {}
          ELSE IF t.kind = "RunnerSet"
          THEN {KeyOf(scope, owner, Default), KeyOf(scope, owner, t.group)}
          ELSE {KeyOf(scope, owner, t.group)}
    IN (IF t.repo = "" THEN {} ELSE {<<"repo", t.repo>>})
         \union keys("org", t.org) \union keys("ent", t.ent)

\* scaleTargetKey, for a group found visible to the repository of the event.
scaleTargetKey(e, g) ==
    IF g.scope = "org" THEN KeyOf("org", e.owner, g.name) ELSE KeyOf("ent", e.enterprise, g.name)

\* What getManagedRunnerGroupsFromHRAs takes from one scale target.
IsManaged(e, t) ==
    /\ ~ (t.group # Default /\ t.ent = "" /\ t.org = "")
    /\ t.ent = e.enterprise \/ t.org = e.owner

---------------------------------------------------------------------------
(* Visible groups.  github is a set of [group, all, listed]: GitHub has it for *)
(* the owner, for all repositories or with this one in its list                *)

\* Every group of the organization that is managed counts as visible.
IsVisibleBug(managed, g) == g.group \in ToSet(managed)

\* On github.com GitHub answers for the repository; elsewhere the visibility and
\* then the list of repositories is asked for.  Both come to this.
IsVisible(managed, g) == g.group \in ToSet(managed) /\ (g.all \/ g.listed)

---------------------------------------------------------------------------
(* Glob patterns *)

Yes == "yes"
No == "no"
Panics == "panics"
Star == "*"
Bang == "!"

\* The end of the token of strings.SplitAfter(pat, "*") that follows the i-th character:
\* the next star, or else the end of the pattern.
TokenEnd(pat, i) == Min({k \in i + 1..Len(pat) : pat[k] = Star} \union {Len(pat)})

\* The places where p occurs in s.
Occurrences(s, p) == {i \in 1..Len(s) - Len(p) + 1 : SubSeq(s, i, i + Len(p) - 1) = p}

\* The name may begin with anything.
MatchTokenBug(pat, acc) ==
    LET end   == TokenEnd(pat, acc.done)
        token == SubSeq(pat, acc.done + 1, end)
        last  == \A k \in acc.done + 1..Len(pat) : pat[k] # Star
        tail  == Last(token) = Star
        p     == IF tail THEN Front(token) ELSE token
        at    == Occurrences(acc.s, p)
        rest  == SubSeq(acc.s, Min(at) + Len(p), Len(acc.s))
    IN CASE acc.over -> acc
         [] ~ acc.over /\ (token = <<>> \/ (token = <<Star>> /\ last)) ->
              [acc EXCEPT !.s = <<>>, !.over = TRUE]
         [] ~ acc.over /\ token = <<Star>> /\ ~ last -> [acc EXCEPT !.done = end, !.head = TRUE]
         [] OTHER ->
              IF at = {}
              THEN [acc EXCEPT !.over = TRUE, !.panics = acc.head \/ acc.s = <<>>]
              ELSE IF rest # <<>> /\ ~ tail
              THEN [acc EXCEPT !.over = TRUE]
              ELSE [acc EXCEPT !.done = end, !.s = rest, !.head = tail, !.over = last]

\* One round of the loop over the tokens.  acc is [done, s, head, over, panics]: where in the
\* pattern the next token begins, the rest of the name, whether a wildcard precedes, and
\* whether the loop has ended.
MatchToken(pat, acc) ==
    LET end   == TokenEnd(pat, acc.done)
        token == SubSeq(pat, acc.done + 1, end)
        last  == \A k \in acc.done + 1..Len(pat) : pat[k] # Star
        tail  == Last(token) = Star
        p     == IF tail THEN Front(token) ELSE token
        at    == Occurrences(acc.s, p)
        rest  == SubSeq(acc.s, Min(at) + Len(p), Len(acc.s))
    IN CASE acc.over -> acc
         [] ~ acc.over /\ (token = <<>> \/ (token = <<Star>> /\ last)) ->
              [acc EXCEPT !.s = <<>>, !.over = TRUE]
         [] ~ acc.over /\ token = <<Star>> /\ ~ last -> [acc EXCEPT !.done = end, !.head = TRUE]
         [] OTHER ->
              IF at = {}
              THEN \* SplitN gives one part: the second is read if the first is let pass
                   [acc EXCEPT !.over = TRUE, !.panics = acc.head \/ acc.s = <<>>]
              ELSE IF (Min(at) > 1 /\ ~ acc.head) \/ (rest # <<>> /\ ~ tail)
              THEN [acc EXCEPT !.over = TRUE]
              ELSE [acc EXCEPT !.done = end, !.s = rest, !.head = tail, !.over = last]

\* What the loop has come to, per number of rounds.
MatchLoop(pat, s) ==
    LET loop[n \in Nat] ==
          IF n = 0
          THEN [done |-> 0, s |-> s, head |-> FALSE, over |-> FALSE, panics |-> FALSE]
          ELSE MatchToken(pat, loop[n - 1])
    IN loop

\* The first occurrence decides: "*a" does not match "aa".  There are no more tokens than
\* characters and one.
Match(pat, s) ==
    LET inverse == pat[1] = Bang
        glob    == IF inverse THEN Tail(pat) ELSE pat
        result  == MatchLoop(glob, s)[Len(glob) + 1]
    IN IF pat = <<>> \/ result.panics THEN Panics
       ELSE IF (result.s = <<>>) # inverse THEN Yes ELSE No

---------------------------------------------------------------------------
(* Triggers: [event, types, branches, status, names, repositories] *)

\* matchTriggerConditionAgainstEvent
MatchCondition(accepted, value) == accepted = {} \/ value \in accepted

\* The names are tried in order, up to the first that matches.
MatchNames(names, name) ==
    LET decisive == {i \in DOMAIN names : Match(names[i], name) # No}
    IN IF decisive = {} THEN No ELSE Match(names[Min(decisive)], name)

\* If there are names the repositories are not looked at.
MatchCheckRunEvent(t, e) ==
    IF ~ MatchCondition(t.types, e.action) \/ t.status \notin {"", e.status} THEN No
    ELSE IF t.names # <<>> THEN MatchNames(t.names, e.name)
    ELSE IF MatchCondition(t.repositories, e.repo) THEN Yes ELSE No

\* The matchers of push, pull_request and check_run events.
MatchTrigger(t, e) ==
    CASE t.event # e.kind -> No
      [] t.event = e.kind /\ e.kind = "push" -> Yes
      [] t.event = e.kind /\ e.kind = "pull_request" ->
           IF MatchCondition(t.types, e.action) /\ MatchCondition(t.branches, e.branch)
           THEN Yes ELSE No
      [] t.event = e.kind /\ e.kind = "check_run" -> MatchCheckRunEvent(t, e)
      [] OTHER -> No

---------------------------------------------------------------------------
(* Jobs *)

\* The runners have all labels that the job asks for.
HasLabels(t, e) == e.labels \ {"self-hosted"} \subseteq t.labels

\* The only trigger is for workflow_job events.
ScalesOnJobs(triggers) == Len(triggers) = 1 /\ triggers[1].event = "workflow_job"

\* What a workflow_job event is worth; 0 is "received and ignored".
Amount(e) == IF e.action = "queued" THEN 1
             ELSE IF e.action = "completed" /\ e.conclusion # "skipped" THEN -1 ELSE 0

=============================================================================
