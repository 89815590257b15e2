------------------------ MODULE WebhookTargetsProofs ------------------------
(***************************************************************************)
(* Proofs about WebhookTargets: for any number of HRAs, runner groups and  *)
(* edits, the handler finds the runners that GitHub would use, among the   *)
(* HRAs that stay as they are meanwhile.                                   *)
(***************************************************************************)
EXTENDS WebhookTargets, TotalsProofs, SequenceTheorems, TLAPS

---------------------------------------------------------------------------
(* The inductive invariants *)

\* Of the HRA's runners a job may take one.
Wanted(h) == CanRunJob(h) /\ ScalesOnJobs(triggers[h])

\* What does not change during a behaviour, and the targets there may be.
WorldInv ==
    /\ event.repo # "" /\ event.owner # ""
    /\ target \in [Hras -> Targets \union {NoTarget}]
    /\ index = [h \in Hras |-> index[h]]
    /\ \A g \in github : g.group \in Groups

\* As long as an HRA is steady its index is right; a search among groups is for a repository
\* of an organization, and there is no answer before the end.
HandlerInv ==
    /\ \A h \in Hras : h \in steady => index[h] = IndexKeys(target[h])
    /\ pc \in {"managed", "visible", "traverse"} => event.ownerType # "User"
    /\ pc = "managed" => todo \subseteq Hras
    /\ pc = "visible" => todo \subseteq github
    /\ pc # "done" => outcome = Pending

\* Only visible groups are traversed.
VisibleInv ==
    github # NoClient
      => \A x \in ToSet(visible) : \E g \in github : g.group = x /\ (g.all \/ g.listed)

\* The loops pass over no group of a steady HRA, and over no group of GitHub.
CoverInv ==
    /\ \A h \in Hras :
          /\ h \in steady
          /\ (pc = "managed" /\ h \notin todo) \/ pc = "visible"
          /\ IsManaged(event, target[h])
          => GroupOf(target[h]) \in ToSet(managed)
    /\ \A g \in github :
          pc = "visible" /\ g \notin todo /\ IsVisible(managed, g) => g.group \in ToSet(visible)

\* The HRAs that are left for the rest of the search are in the groups left for it.
LeftInv ==
    event.kind = "workflow_job" =>
      \A h \in Hras : h \in steady /\ ValidSet(h) /\ Wanted(h) =>
        /\ pc \in {"managed", "visible", "traverse"} => target[h].repo # event.repo
        /\ pc = "traverse" => GroupOf(target[h]) \in ToSet(visible)

---------------------------------------------------------------------------
(* Keys and groups *)

\* A key tells what it is put together from.
LEMMA KeyIsUnique ==
    \A a, b, c, x, y, z : KeyOf(a, b, c) = KeyOf(x, y, z) => a = x /\ b = y /\ c = z
<1> SUFFICES ASSUME NEW a, NEW b, NEW c, NEW x, NEW y, NEW z, KeyOf(a, b, c) = KeyOf(x, y, z)
             PROVE  a = x /\ b = y /\ c = z
  OBVIOUS
<1>1. CASE c = Default /\ z = Default
  BY <1>1 DEF KeyOf
<1>2. CASE c # Default /\ z # Default
  BY <1>2 DEF KeyOf
<1>3. CASE (c = Default /\ z # Default) \/ (c # Default /\ z = Default)
  BY <1>3 DEF KeyOf
<1> QED
  BY <1>1, <1>2, <1>3

\* No key of a group is one of a repository.
LEMMA KeyOfGroup ==
    ASSUME NEW a \in {"org", "ent"}, NEW b, NEW c, NEW r
    PROVE  KeyOf(a, b, c) # <<"repo", r>>
BY DEF KeyOf

\* An HRA is indexed by a repository just if it is that of its target.
LEMMA RepositoryKey ==
    ASSUME NEW t, NEW r
    PROVE  <<"repo", r>> \in IndexKeys(t) <=> t.repo # "" /\ r = t.repo
BY KeyOfGroup DEF IndexKeys

\* The group of a target is looked for by a key that the target is indexed by.
LEMMA HomeKey ==
    ASSUME NEW t, NEW e, OneScope(t), e.owner # "",
           t.org = e.owner \/ (t.ent # "" /\ t.ent = e.enterprise)
    PROVE  scaleTargetKey(e, GroupOf(t)) \in IndexKeys(t) /\ t.repo = ""
<1>1. t.repo = "" /\ (t.org = "" \/ t.ent = "")
  BY DEF OneScope
<1>2. CASE t.ent = ""
  BY <1>1, <1>2 DEF scaleTargetKey, GroupOf, IndexKeys
<1>3. CASE t.ent # ""
  BY <1>1, <1>3 DEF scaleTargetKey, GroupOf, IndexKeys
<1> QED
  BY <1>1, <1>2, <1>3

\* A target that is found by the key of a group is in this group, unless it is a RunnerSet
\* in a group of its own.
LEMMA KeyLeadsHome ==
    ASSUME NEW t, NEW e, NEW g \in Groups, OneScope(t), t.kind = "RunnerSet" => t.group = Default,
           scaleTargetKey(e, g) \in IndexKeys(t)
    PROVE  /\ GroupOf(t) = g /\ t.repo = ""
           /\ t.org = e.owner \/ (t.ent # "" /\ t.ent = e.enterprise)
<1>1. /\ g.scope \in {"org", "ent"} /\ g = [scope |-> g.scope, name |-> g.name]
  BY DEF Groups
<1>o. PICK who : who = IF g.scope = "org" THEN e.owner ELSE e.enterprise
  OBVIOUS
<1>k. scaleTargetKey(e, g) = KeyOf(g.scope, who, g.name)
  BY <1>1, <1>o DEF scaleTargetKey
<1>2. \/ t.org # "" /\ scaleTargetKey(e, g) = KeyOf("org", t.org, t.group)
      \/ t.ent # "" /\ scaleTargetKey(e, g) = KeyOf("ent", t.ent, t.group)
  BY <1>1, KeyOfGroup DEF IndexKeys, scaleTargetKey
<1>3. CASE t.org # "" /\ scaleTargetKey(e, g) = KeyOf("org", t.org, t.group)
  <2>1. t.ent = "" /\ t.repo = ""
    BY <1>3 DEF OneScope
  <2>k. KeyOf(g.scope, who, g.name) = KeyOf("org", t.org, t.group)
    BY <1>k, <1>3
  <2>2. g.scope = "org" /\ t.org = e.owner /\ g.name = t.group
    <3>1. g.scope = "org" /\ who = t.org /\ g.name = t.group
      BY <2>k, KeyIsUnique
    <3> QED
      BY <1>o, <3>1
  <2> QED
    BY <1>1, <2>1, <2>2 DEF GroupOf
<1>4. CASE t.ent # "" /\ scaleTargetKey(e, g) = KeyOf("ent", t.ent, t.group)
  <2>1. t.org = "" /\ t.repo = ""
    BY <1>4 DEF OneScope
  <2>k. KeyOf(g.scope, who, g.name) = KeyOf("ent", t.ent, t.group)
    BY <1>k, <1>4
  <2>2. g.scope = "ent" /\ t.ent = e.enterprise /\ g.name = t.group
    <3>1. g.scope = "ent" /\ who = t.ent /\ g.name = t.group
      BY <2>k, KeyIsUnique
    <3> QED
      BY <1>o, <3>1
  <2> QED
    BY <1>1, <1>4, <2>1, <2>2 DEF GroupOf
<1> QED
  BY <1>2, <1>3, <1>4

---------------------------------------------------------------------------
(* Lists of groups *)

LEMMA RankType ==
    ASSUME NEW g
    PROVE  Rank(g) \in 0..3
BY DEF Rank

\* The place of sort.Search: what precedes it is not of lower precedence than g, and g
\* precedes what follows.
LEMMA AddPlace ==
    ASSUME NEW gs \in SortedGroups, NEW g
    PROVE  \E k \in 1..Len(gs) + 1 :
              /\ Add(gs, g) = InsertAt(gs, k, g)
              /\ \A i \in 1..Len(gs) : i < k => Rank(gs[i]) <= Rank(g)
              /\ \A i \in 1..Len(gs) : i >= k => Rank(g) < Rank(gs[i])
<1> DEFINE S == {i \in DOMAIN gs : Rank(g) < Rank(gs[i])} \union {Len(gs) + 1}
           k == Min(S)
<1>1. gs \in Seq(Groups) /\ \A i, j \in DOMAIN gs : i < j => Rank(gs[i]) <= Rank(gs[j])
  BY DEF SortedGroups
<1>2. Len(gs) \in Nat /\ DOMAIN gs = 1..Len(gs)
  BY <1>1
<1>3. S \subseteq Nat /\ S # {}
  BY <1>2
<1>4. k \in S /\ \A i \in S : k <= i
  <2> HIDE DEF S
  <2> QED
    BY <1>3, MinIsLeast
<1>5. k \in 1..Len(gs) + 1
  BY <1>2, <1>4
<1>6. ASSUME NEW i \in 1..Len(gs), i < k
      PROVE  Rank(gs[i]) <= Rank(g)
  <2>1. i \notin S
    <3> HIDE DEF S, k
    <3> QED
      BY <1>3, <1>4, <1>5, <1>6
  <2>2. ~ (Rank(g) < Rank(gs[i]))
    BY <2>1, <1>2
  <2> QED
    BY <2>2, RankType
<1>7. ASSUME NEW i \in 1..Len(gs), i >= k
      PROVE  Rank(g) < Rank(gs[i])
  <2>1. k \in 1..Len(gs) /\ Rank(g) < Rank(gs[k])
    <3>1. k # Len(gs) + 1
      BY <1>2, <1>5, <1>7
    <3> QED
      BY <3>1, <1>2, <1>4
  <2>2. Rank(gs[k]) <= Rank(gs[i])
    <3> HIDE DEF k
    <3>1. CASE i = k
      BY <3>1, RankType
    <3>2. CASE i > k
      BY <3>2, <1>1, <1>2, <2>1
    <3> QED
      BY <3>1, <3>2, <1>7, <2>1
  <2> HIDE DEF k
  <2> QED
    BY <2>1, <2>2, RankType
<1>8. Add(gs, g) = InsertAt(gs, k, g)
  BY DEF Add
<1> HIDE DEF k
<1> QED
  BY <1>5, <1>6, <1>7, <1>8

\* InsertAt, by its elements.
LEMMA Inserted ==
    ASSUME NEW G, NEW gs \in Seq(G), NEW g \in G, NEW k \in 1..Len(gs) + 1
    PROVE  /\ InsertAt(gs, k, g) \in Seq(G)
           /\ Len(InsertAt(gs, k, g)) = Len(gs) + 1
           /\ \A i \in 1..Len(gs) + 1 :
                 InsertAt(gs, k, g)[i] = IF i < k THEN gs[i] ELSE IF i = k THEN g ELSE gs[i - 1]
<1> DEFINE a == SubSeq(gs, 1, k - 1)
           b == SubSeq(gs, k, Len(gs))
<1>1. a \in Seq(G) /\ Len(a) = k - 1 /\ \A i \in 1..k - 1 : a[i] = gs[i]
  OBVIOUS
<1>2. b \in Seq(G) /\ Len(b) = Len(gs) - k + 1 /\ \A i \in 1..Len(gs) - k + 1 : b[i] = gs[k + i - 1]
  OBVIOUS
<1>3. InsertAt(gs, k, g) = (a \o <<g>>) \o b
  BY DEF InsertAt
<1> HIDE DEF a, b
<1>4. a \o <<g>> \in Seq(G) /\ Len(a \o <<g>>) = k
      /\ \A i \in 1..k : (a \o <<g>>)[i] = IF i < k THEN gs[i] ELSE g
  BY <1>1
<1> DEFINE c == a \o <<g>>
<1> HIDE DEF c
<1>5. c \in Seq(G) /\ Len(c) = k /\ \A i \in 1..k : c[i] = IF i < k THEN gs[i] ELSE g
  BY <1>4 DEF c
<1>6. c \o b \in Seq(G) /\ Len(c \o b) = Len(gs) + 1
      /\ \A i \in 1..Len(gs) + 1 : (c \o b)[i] = IF i <= k THEN c[i] ELSE b[i - k]
  <2>1. c \o b \in Seq(G) /\ Len(c \o b) = Len(c) + Len(b)
    BY <1>2, <1>5, ConcatProperties
  <2>2. \A i \in 1..Len(c) + Len(b) : (c \o b)[i] = IF i <= Len(c) THEN c[i] ELSE b[i - Len(c)]
    BY <1>2, <1>5
  <2>3. Len(c) + Len(b) = Len(gs) + 1
    BY <1>2, <1>5
  <2> QED
    BY <2>1, <2>2, <2>3, <1>5
<1>7. \A i \in 1..Len(gs) + 1 : i > k => b[i - k] = gs[i - 1]
  BY <1>2
<1> QED
  BY SMTT(30), <1>3, <1>5, <1>6, <1>7 DEF c

\* A group that is added keeps the order of precedence.
LEMMA AddKeepsOrder ==
    ASSUME NEW gs \in SortedGroups, NEW g \in Groups
    PROVE  Add(gs, g) \in SortedGroups
<1>1. gs \in Seq(Groups) /\ \A i, j \in DOMAIN gs : i < j => Rank(gs[i]) <= Rank(gs[j])
  BY DEF SortedGroups
<1>2. PICK k \in 1..Len(gs) + 1 :
         /\ Add(gs, g) = InsertAt(gs, k, g)
         /\ \A i \in 1..Len(gs) : i < k => Rank(gs[i]) <= Rank(g)
         /\ \A i \in 1..Len(gs) : i >= k => Rank(g) < Rank(gs[i])
  BY AddPlace
<1> DEFINE ns == InsertAt(gs, k, g)
<1>3. /\ ns \in Seq(Groups) /\ Len(ns) = Len(gs) + 1
      /\ \A i \in 1..Len(gs) + 1 : ns[i] = IF i < k THEN gs[i] ELSE IF i = k THEN g ELSE gs[i - 1]
  BY <1>1, Inserted
<1> HIDE DEF ns
<1>4. ASSUME NEW i \in 1..Len(gs) + 1, NEW j \in 1..Len(gs) + 1, i < j
      PROVE  Rank(ns[i]) <= Rank(ns[j])
  <2>0. Len(gs) \in Nat /\ DOMAIN gs = 1..Len(gs)
    BY <1>1
  <2>1. CASE j < k
    BY <2>0, <2>1, <1>1, <1>3, <1>4
  <2>2. CASE j = k
    BY <2>0, <2>2, <1>2, <1>3, <1>4
  <2>3. CASE i < k /\ j > k
    <3>1. ns[i] = gs[i] /\ ns[j] = gs[j - 1] /\ j - 1 \in 1..Len(gs) /\ i \in 1..Len(gs)
      BY <2>0, <2>3, <1>3
    <3>2. i < j - 1 \/ i = j - 1
      BY <2>3
    <3> QED
      BY <2>0, <3>1, <3>2, <1>1, RankType
  <2>4. CASE i = k
    <3>1. ns[i] = g /\ ns[j] = gs[j - 1] /\ j - 1 \in 1..Len(gs) /\ j - 1 >= k
      BY <2>0, <2>4, <1>3, <1>4
    <3> QED
      BY <3>1, <1>2, RankType
  <2>5. CASE i > k
    <3>1. /\ ns[i] = gs[i - 1] /\ ns[j] = gs[j - 1]
          /\ i - 1 \in 1..Len(gs) /\ j - 1 \in 1..Len(gs) /\ i - 1 < j - 1
      BY <2>0, <2>5, <1>3, <1>4
    <3> QED
      BY <2>0, <3>1, <1>1
  <2> QED
    BY <2>1, <2>2, <2>3, <2>4, <2>5, <1>4
<1>5. DOMAIN ns = 1..Len(gs) + 1
  BY <1>3
<1>6. ns \in SortedGroups
  BY <1>3, <1>4, <1>5 DEF SortedGroups
<1> QED
  BY <1>2, <1>6 DEF ns

\* Adding a group adds it, and nothing else.
LEMMA AddAddsOne ==
    ASSUME NEW gs \in SortedGroups, NEW g \in Groups
    PROVE  ToSet(Add(gs, g)) = ToSet(gs) \union {g}
<1>1. gs \in Seq(Groups)
  BY DEF SortedGroups
<1>2. PICK k \in 1..Len(gs) + 1 : Add(gs, g) = InsertAt(gs, k, g)
  BY AddPlace
<1> DEFINE ns == InsertAt(gs, k, g)
<1>3. /\ ns \in Seq(Groups) /\ Len(ns) = Len(gs) + 1
      /\ \A i \in 1..Len(gs) + 1 : ns[i] = IF i < k THEN gs[i] ELSE IF i = k THEN g ELSE gs[i - 1]
  BY <1>1, Inserted
<1> HIDE DEF ns
<1>4. Len(gs) \in Nat /\ DOMAIN gs = 1..Len(gs) /\ DOMAIN ns = 1..Len(gs) + 1
  BY <1>1, <1>3
<1>5. ASSUME NEW x \in ToSet(ns) PROVE x \in ToSet(gs) \union {g}
  <2>1. PICK i \in 1..Len(gs) + 1 : x = ns[i]
    BY <1>4 DEF ToSet
  <2>2. x = g \/ (\E j \in 1..Len(gs) : x = gs[j])
    BY <1>3, <1>4, <2>1
  <2> QED
    BY <1>4, <2>2 DEF ToSet
<1>6. ASSUME NEW x \in ToSet(gs) PROVE x \in ToSet(ns)
  <2>1. PICK i \in 1..Len(gs) : x = gs[i]
    BY <1>4 DEF ToSet
  <2>2. CASE i < k
    <3>1. ns[i] = x /\ i \in 1..Len(gs) + 1
      BY <1>3, <1>4, <2>1, <2>2
    <3> QED
      BY <1>4, <3>1 DEF ToSet
  <2>3. CASE i >= k
    <3>1. i + 1 \in 1..Len(gs) + 1 /\ ns[i + 1] = x
      BY <1>3, <1>4, <2>1, <2>3
    <3> QED
      BY <1>4, <3>1 DEF ToSet
  <2> QED
    BY <2>2, <2>3
<1>7. g \in ToSet(ns)
  <2>1. ns[k] = g
    BY <1>3
  <2> QED
    BY <1>4, <2>1 DEF ToSet
<1> QED
  BY <1>2, <1>5, <1>6, <1>7 DEF ns

---------------------------------------------------------------------------
(* What a step leaves alone *)

\* The handler changes nothing but its own variables.
LEMMA HandlerFrame ==
    ASSUME Handle
    PROVE  /\ UNCHANGED <<event, triggers, github, deleting, target, index, edits>>
           /\ pc # "idle" => UNCHANGED steady
<1>1. CASE Receive
  BY <1>1 DEF Receive, rest, fixed
<1>2. CASE SearchRepository
  BY <1>2 DEF SearchRepository, Scale, Answer, Goto, rest, fixed
<1>3. CASE getManagedRunnerGroupsFromHRAs
  BY <1>3 DEF getManagedRunnerGroupsFromHRAs, Answer, Goto, rest, fixed
<1>4. CASE GetRunnerGroupsVisibleToRepository
  BY <1>4 DEF GetRunnerGroupsVisibleToRepository, Answer, Goto, rest, fixed
<1>5. CASE Traverse
  BY <1>5 DEF Traverse, Scale, Answer, Goto, rest, fixed
<1> QED
  BY <1>1, <1>2, <1>3, <1>4, <1>5 DEF Handle

\* The user and the informer leave the handler alone.
LEMMA UserFrame ==
    ASSUME [Next]_vars, ~ Handle
    PROVE  UNCHANGED <<event, triggers, github, pc, todo, managed, visible, outcome>>
<1>1. ASSUME NEW h \in Hras, DeleteHra(h) \/ Reindex(h)
      PROVE  UNCHANGED <<event, triggers, github, pc, todo, managed, visible, outcome>>
  BY <1>1 DEF DeleteHra, Reindex, fixed, work
<1>2. ASSUME NEW h \in Hras, NEW t \in Shapes \union {NoTarget}, SetTarget(h, t)
      PROVE  UNCHANGED <<event, triggers, github, pc, todo, managed, visible, outcome>>
  BY <1>2 DEF SetTarget, fixed, work
<1>3. CASE UNCHANGED vars
  BY <1>3 DEF vars
<1> QED
  BY <1>1, <1>2, <1>3 DEF Next

\* An edit ends the steadiness of its HRA; the others stay as they are.
LEMMA SteadyFrame ==
    ASSUME WorldInv, [Next]_vars, ~ Handle, NEW h \in Hras, h \in steady'
    PROVE  /\ h \in steady /\ target'[h] = target[h]
           /\ h \in deleting' <=> h \in deleting
           /\ index'[h] = index[h] \/ index'[h] = IndexKeys(target[h])
<1>1. ASSUME NEW x \in Hras, DeleteHra(x)
      PROVE  /\ h \in steady /\ target'[h] = target[h] /\ index'[h] = index[h]
             /\ h \in deleting' <=> h \in deleting
  BY <1>1 DEF DeleteHra
<1>2. ASSUME NEW x \in Hras, Reindex(x)
      PROVE  /\ h \in steady /\ target'[h] = target[h]
             /\ h \in deleting' <=> h \in deleting
             /\ index'[h] = index[h] \/ index'[h] = IndexKeys(target[h])
  BY <1>2 DEF Reindex, WorldInv
<1>3. ASSUME NEW x \in Hras, NEW t \in Shapes \union {NoTarget}, SetTarget(x, t)
      PROVE  /\ h \in steady /\ target'[h] = target[h] /\ index'[h] = index[h]
             /\ h \in deleting' <=> h \in deleting
  BY <1>3 DEF SetTarget, WorldInv
<1>4. CASE UNCHANGED vars
  BY <1>4 DEF vars
<1> QED
  BY <1>1, <1>2, <1>3, <1>4 DEF Next

---------------------------------------------------------------------------
(* Types, and what does not change *)

LEMMA WorldInit ==
    ASSUME Init
    PROVE  WorldInv /\ TypeOK /\ HandlerInv
<1>1. PICK s \in Scenarios : /\ event = s.event /\ triggers = s.triggers
                             /\ target = s.targets /\ github = s.github /\ edits = s.edits
  BY DEF Init
<1>2. /\ event.repo # "" /\ event.owner # "" /\ edits \in 0..MaxEdits
      /\ target \in [Hras -> Targets \union {NoTarget}]
      /\ \A g \in github : g.group \in Groups
  BY <1>1, ScenarioAssumption
<1>3. index = [h \in Hras |-> index[h]]
  BY DEF Init
<1>4. <<>> \in SortedGroups
  BY DEF SortedGroups
<1>5. TypeOK
  BY <1>2, <1>4 DEF Init, TypeOK, Pending
<1>6. HandlerInv
  BY DEF Init, HandlerInv
<1> QED
  BY <1>2, <1>3, <1>5, <1>6 DEF WorldInv

LEMMA WorldStep ==
    ASSUME WorldInv, [Next]_vars
    PROVE  WorldInv'
<1> USE DEF WorldInv
<1>1. CASE Handle
  BY <1>1, HandlerFrame
<1>2. CASE UNCHANGED vars
  BY <1>2 DEF vars
<1>3. ASSUME NEW h \in Hras, DeleteHra(h) PROVE WorldInv'
  BY <1>3 DEF DeleteHra, fixed
<1>4. ASSUME NEW h \in Hras, Reindex(h) PROVE WorldInv'
  BY <1>4 DEF Reindex, fixed
<1>5. ASSUME NEW h \in Hras, NEW t \in Shapes \union {NoTarget}, SetTarget(h, t) PROVE WorldInv'
  <2>1. t \in Targets \union {NoTarget}
    BY ShapeAssumption
  <2> QED
    BY <1>5, <2>1 DEF SetTarget, fixed
<1> QED
  BY <1>1, <1>2, <1>3, <1>4, <1>5 DEF Next

LEMMA HandlerStep ==
    ASSUME HandlerInv, WorldInv, [Next]_vars
    PROVE  HandlerInv'
<1>1. CASE ~ Handle
  <2>1. UNCHANGED <<event, triggers, github, pc, todo, managed, visible, outcome>>
    BY <1>1, UserFrame
  <2>2. \A h \in Hras : h \in steady' => index'[h] = IndexKeys(target'[h])
    BY <1>1, SteadyFrame DEF HandlerInv
  <2> QED
    BY <2>1, <2>2 DEF HandlerInv, Pending
<1>2. CASE Handle
  <2>1. UNCHANGED <<event, triggers, github, deleting, target, index>>
        /\ (pc # "idle" => UNCHANGED steady)
    BY <1>2, HandlerFrame
  <2>2. \A h \in Hras : h \in steady' => index'[h] = IndexKeys(target'[h])
    <3>1. CASE pc = "idle"
      <4>1. Receive
        BY <1>2, <3>1 DEF Handle, SearchRepository, getManagedRunnerGroupsFromHRAs,
           GetRunnerGroupsVisibleToRepository, Traverse
      <4> QED
        BY <4>1, <2>1 DEF Receive
    <3>2. CASE pc # "idle"
      BY <2>1, <3>2 DEF HandlerInv
    <3> QED
      BY <3>1, <3>2
  <2>3. CASE Receive
    BY <2>1, <2>2, <2>3 DEF HandlerInv, Receive, Pending
  <2>4. CASE SearchRepository
    BY <2>1, <2>2, <2>4 DEF HandlerInv, SearchRepository, Scale, Answer, Goto, Pending
  <2>5. CASE getManagedRunnerGroupsFromHRAs
    BY <2>1, <2>2, <2>5 DEF HandlerInv, getManagedRunnerGroupsFromHRAs, Answer, Goto, Pending
  <2>6. CASE GetRunnerGroupsVisibleToRepository
    BY <2>1, <2>2, <2>6 DEF HandlerInv, GetRunnerGroupsVisibleToRepository, Answer, Goto, Pending,
       work
  <2>7. CASE Traverse
    BY <2>1, <2>2, <2>7 DEF HandlerInv, Traverse, Scale, Answer, Goto, Pending
  <2> QED
    BY <1>2, <2>3, <2>4, <2>5, <2>6, <2>7 DEF Handle
<1> QED
  BY <1>1, <1>2

\* The end of a list in order is in order.
LEMMA TailKeepsOrder ==
    ASSUME NEW gs \in SortedGroups, gs # <<>>
    PROVE  /\ Tail(gs) \in SortedGroups
           /\ Head(gs) \in Groups
           /\ ToSet(gs) = ToSet(Tail(gs)) \union {Head(gs)}
           /\ \A g \in ToSet(gs) : Rank(Head(gs)) <= Rank(g)
<1>1. gs \in Seq(Groups) /\ \A i, j \in DOMAIN gs : i < j => Rank(gs[i]) <= Rank(gs[j])
  BY DEF SortedGroups
<1>2. /\ Len(gs) \in Nat \ {0} /\ DOMAIN gs = 1..Len(gs)
      /\ Head(gs) = gs[1] /\ Head(gs) \in Groups
      /\ Tail(gs) \in Seq(Groups) /\ Len(Tail(gs)) = Len(gs) - 1
      /\ \A i \in 1..Len(gs) - 1 : Tail(gs)[i] = gs[i + 1]
  BY <1>1
<1> DEFINE ts == Tail(gs)
<1> HIDE DEF ts
<1>3. DOMAIN ts = 1..Len(gs) - 1 /\ ts \in Seq(Groups)
  BY <1>2 DEF ts
<1>4. \A i \in 1..Len(gs) - 1 : ts[i] = gs[i + 1] /\ i + 1 \in 1..Len(gs)
  BY <1>2 DEF ts
<1>5. ASSUME NEW i \in DOMAIN ts, NEW j \in DOMAIN ts, i < j PROVE Rank(ts[i]) <= Rank(ts[j])
  <2>1. i + 1 \in DOMAIN gs /\ j + 1 \in DOMAIN gs /\ i + 1 < j + 1
    BY <1>2, <1>3, <1>5
  <2> QED
    BY <1>1, <1>3, <1>4, <2>1
<1>6. ts \in SortedGroups
  BY <1>3, <1>5 DEF SortedGroups
<1>7. ASSUME NEW x \in ToSet(gs) PROVE x \in ToSet(ts) \union {gs[1]} /\ Rank(gs[1]) <= Rank(x)
  <2>1. PICK i \in 1..Len(gs) : x = gs[i]
    BY <1>2 DEF ToSet
  <2>2. CASE i = 1
    BY <2>1, <2>2, RankType
  <2>3. CASE i # 1
    <3>1. i - 1 \in 1..Len(gs) - 1 /\ ts[i - 1] = x
      BY <1>2, <1>4, <2>1, <2>3
    <3>2. Rank(gs[1]) <= Rank(gs[i])
      BY <1>1, <1>2, <2>3
    <3> QED
      BY <1>3, <2>1, <3>1, <3>2 DEF ToSet
  <2> QED
    BY <2>2, <2>3
<1>8. ASSUME NEW x \in ToSet(ts) PROVE x \in ToSet(gs)
  <2>1. PICK i \in 1..Len(gs) - 1 : x = ts[i]
    BY <1>3 DEF ToSet
  <2>2. i + 1 \in DOMAIN gs /\ x = gs[i + 1]
    BY <1>2, <1>4, <2>1
  <2> QED
    BY <2>2 DEF ToSet
<1>9. gs[1] \in ToSet(gs)
  BY <1>2 DEF ToSet
<1> QED
  BY <1>2, <1>6, <1>7, <1>8, <1>9 DEF ts

LEMMA EmptyList == <<>> \in SortedGroups /\ ToSet(<<>>) = {}
BY DEF SortedGroups, ToSet

\* The group of a target is a group.
LEMMA GroupOfType ==
    ASSUME NEW t \in Targets
    PROVE  GroupOf(t) \in Groups
<1>1. t.group \in STRING
  BY DEF Targets
<1> QED
  BY <1>1 DEF GroupOf, Groups

\* What the two loops do with one HRA, and with one group.
LEMMA ManagedStep ==
    ASSUME WorldInv, HandlerInv, TypeOK, NEW h \in todo, pc = "managed", target[h] # NoTarget,
           managed' = IF IsManaged(event, target[h]) THEN Add(managed, GroupOf(target[h])) ELSE managed
    PROVE  /\ managed' \in SortedGroups
           /\ ToSet(managed) \subseteq ToSet(managed')
           /\ IsManaged(event, target[h]) => GroupOf(target[h]) \in ToSet(managed')
<1>1. h \in Hras /\ managed \in SortedGroups
  BY DEF HandlerInv, TypeOK
<1>2. GroupOf(target[h]) \in Groups
  <2>1. target[h] \in Targets
    BY <1>1 DEF WorldInv
  <2> QED
    BY <2>1, GroupOfType
<1>3. CASE IsManaged(event, target[h])
  BY <1>1, <1>2, <1>3, AddKeepsOrder, AddAddsOne
<1>4. CASE ~ IsManaged(event, target[h])
  BY <1>1, <1>4
<1> QED
  BY <1>3, <1>4

LEMMA VisibleStep ==
    ASSUME WorldInv, HandlerInv, TypeOK, NEW g \in todo, pc = "visible",
           visible' = IF IsVisible(managed, g) THEN Add(visible, g.group) ELSE visible
    PROVE  /\ visible' \in SortedGroups
           /\ ToSet(visible') = ToSet(visible) \union (IF IsVisible(managed, g) THEN {g.group} ELSE {})
<1>1. g \in github /\ visible \in SortedGroups
  BY DEF HandlerInv, TypeOK
<1>2. g.group \in Groups
  BY <1>1 DEF WorldInv
<1>3. CASE IsVisible(managed, g)
  BY <1>1, <1>2, <1>3, AddKeepsOrder, AddAddsOne
<1>4. CASE ~ IsVisible(managed, g)
  BY <1>1, <1>4
<1> QED
  BY <1>3, <1>4

LEMMA TypeStep ==
    ASSUME TypeOK, WorldInv, HandlerInv, [Next]_vars
    PROVE  TypeOK'
<1> DEFINE Work == managed \in SortedGroups /\ visible \in SortedGroups
           Outcomes == [code : {0, 200, 500}, hra : Hras \union {Nobody}]
           Labels == {"idle", "repository", "managed", "visible", "traverse", "done"}
<1>0. /\ pc \in Labels /\ outcome \in Outcomes /\ deleting \subseteq Hras
      /\ steady \subseteq Hras /\ edits \in 0..MaxEdits /\ MaxEdits \in Nat /\ Work
  BY ScenarioAssumption DEF TypeOK
<1>1. CASE UNCHANGED vars
  BY <1>1 DEF vars, TypeOK
<1>2. ASSUME NEW h \in Hras, DeleteHra(h) PROVE TypeOK'
  <2>1. edits > 0 /\ edits' = edits - 1 /\ steady' = steady \ {h}
    BY <1>2 DEF DeleteHra
  <2>2. edits' \in 0..MaxEdits
    BY <1>0, <2>1
  <2>3. UNCHANGED <<pc, outcome, managed, visible>> /\ deleting' \subseteq Hras
    BY <1>0, <1>2 DEF DeleteHra, work
  <2> QED
    BY <1>0, <2>1, <2>2, <2>3 DEF TypeOK
<1>3. ASSUME NEW h \in Hras, Reindex(h) PROVE TypeOK'
  BY <1>0, <1>3 DEF Reindex, fixed, work, TypeOK
<1>4. ASSUME NEW h \in Hras, NEW t \in Shapes \union {NoTarget}, SetTarget(h, t) PROVE TypeOK'
  <2>1. edits > 0 /\ edits' = edits - 1 /\ steady' = steady \ {h}
    BY <1>4 DEF SetTarget
  <2>2. edits' \in 0..MaxEdits
    BY <1>0, <2>1
  <2>3. UNCHANGED <<pc, outcome, managed, visible>> /\ deleting' \subseteq Hras
    BY <1>0, <1>4 DEF SetTarget, work
  <2> QED
    BY <1>0, <2>1, <2>2, <2>3 DEF TypeOK
<1>5. CASE Handle
  <2>1. UNCHANGED <<deleting, edits>> /\ (pc # "idle" => UNCHANGED steady)
    BY <1>5, HandlerFrame
  <2>2. ASSUME NEW c \in {0, 200, 500}, NEW h \in Hras \union {Nobody}, Answer(c, h)
        PROVE  pc' \in Labels /\ outcome' \in Outcomes /\ Work'
    BY <2>2, EmptyList DEF Answer
  <2>3. CASE Receive
    <3>1. steady' \subseteq Hras
      BY <2>3 DEF Receive
    <3> QED
      BY <1>0, <2>1, <2>3, <3>1 DEF Receive, work, TypeOK
  <2>4. CASE SearchRepository
    <3>1. pc' \in Labels /\ outcome' \in Outcomes /\ Work'
      <4>1. \/ \E c \in {0, 200, 500}, h \in Hras \union {Nobody} : Answer(c, h)
            \/ Goto("managed") /\ UNCHANGED <<managed, visible>>
        BY <2>4 DEF SearchRepository, Scale
      <4> QED
        BY <1>0, <2>2, <4>1 DEF Goto
    <3> QED
      BY <1>0, <2>1, <2>4, <3>1 DEF SearchRepository, TypeOK
  <2>5. CASE getManagedRunnerGroupsFromHRAs
    <3>1. pc' \in Labels /\ outcome' \in Outcomes /\ Work'
      <4>1. CASE Answer(500, Nobody)
        BY <2>2, <4>1
      <4>2. ASSUME NEW h \in todo, target[h] # NoTarget, Goto("managed"), UNCHANGED visible,
                   managed' = IF IsManaged(event, target[h])
                              THEN Add(managed, GroupOf(target[h])) ELSE managed
            PROVE  pc' \in Labels /\ outcome' \in Outcomes /\ Work'
        <5>1. managed' \in SortedGroups
          BY <2>5, <4>2, ManagedStep DEF getManagedRunnerGroupsFromHRAs
        <5> QED
          BY <1>0, <4>2, <5>1 DEF Goto
      <4>3. CASE Goto("visible") /\ UNCHANGED <<managed, visible>>
        BY <1>0, <4>3 DEF Goto
      <4> QED
        BY <2>5, <4>1, <4>2, <4>3 DEF getManagedRunnerGroupsFromHRAs
    <3> QED
      BY <1>0, <2>1, <2>5, <3>1 DEF getManagedRunnerGroupsFromHRAs, TypeOK
  <2>6. CASE GetRunnerGroupsVisibleToRepository
    <3>1. pc' \in Labels /\ outcome' \in Outcomes /\ Work'
      <4>1. CASE Answer(500, Nobody)
        BY <2>2, <4>1
      <4>2. ASSUME NEW g \in todo, Goto("visible"), UNCHANGED managed,
                   visible' = IF IsVisible(managed, g) THEN Add(visible, g.group) ELSE visible
            PROVE  pc' \in Labels /\ outcome' \in Outcomes /\ Work'
        <5>1. visible' \in SortedGroups
          BY <2>6, <4>2, VisibleStep DEF GetRunnerGroupsVisibleToRepository
        <5> QED
          BY <1>0, <4>2, <5>1 DEF Goto
      <4>3. CASE Goto("traverse") /\ visible' \in {managed, visible} /\ UNCHANGED managed
        BY <1>0, <4>3 DEF Goto
      <4> QED
        BY <2>6, <4>1, <4>2, <4>3 DEF GetRunnerGroupsVisibleToRepository, work
    <3> QED
      BY <1>0, <2>1, <2>6, <3>1 DEF GetRunnerGroupsVisibleToRepository, TypeOK
  <2>7. CASE Traverse
    <3>1. pc' \in Labels /\ outcome' \in Outcomes /\ Work'
      <4>1. \/ \E c \in {0, 200, 500}, h \in Hras \union {Nobody} : Answer(c, h)
            \/ visible # <<>> /\ Goto("traverse") /\ UNCHANGED managed /\ visible' = Tail(visible)
        BY <2>7 DEF Traverse, Scale
      <4> QED
        <5>1. visible # <<>> => Tail(visible) \in SortedGroups
          BY <1>0, TailKeepsOrder
        <5>2. CASE \E c \in {0, 200, 500}, h \in Hras \union {Nobody} : Answer(c, h)
          BY <2>2, <5>2
        <5>3. CASE Goto("traverse") /\ UNCHANGED managed /\ visible' \in SortedGroups
          BY <1>0, <5>3 DEF Goto
        <5> QED
          BY <4>1, <5>1, <5>2, <5>3
    <3> QED
      BY <1>0, <2>1, <2>7, <3>1 DEF Traverse, TypeOK
  <2> QED
    BY <1>5, <2>3, <2>4, <2>5, <2>6, <2>7 DEF Handle
<1> QED
  BY <1>1, <1>2, <1>3, <1>4, <1>5 DEF Next

BaseInv == TypeOK /\ WorldInv /\ HandlerInv

LEMMA BaseHolds == Spec => []BaseInv
<1>1. Init => BaseInv
  BY WorldInit DEF BaseInv
<1>2. BaseInv /\ [Next]_vars => BaseInv'
  BY TypeStep, WorldStep, HandlerStep DEF BaseInv
<1> QED
  BY <1>1, <1>2, PTL DEF Spec

\* In every reachable state the handler's variables have their types, and the lists of runner
\* groups are in the order of precedence, so that the binary search of Add is sound and
\* Traverse visits default groups before custom ones and those of the organization before
\* those of the enterprise (simulator/runnergroups.go).
THEOREM TypeCorrect == Spec => []TypeOK
<1>1. BaseInv => TypeOK
  BY DEF BaseInv
<1> QED
  BY <1>1, BaseHolds, PTL

---------------------------------------------------------------------------
(* What a search by key says *)

LEMMA JobSearch ==
    ASSUME event.kind = "workflow_job", NEW key, NEW r \in Search(key)
    PROVE  /\ r \in Hras => /\ r \in Found(key) /\ ScalesOnJobs(triggers[r])
                            /\ target[r] # NoTarget /\ HasLabels(target[r], event)
           /\ r = Failed => \E h \in Found(key) : target[h] = NoTarget
           /\ r = Nobody => \A h \in Found(key) :
                               ScalesOnJobs(triggers[h])
                                 => target[h] # NoTarget /\ ~ HasLabels(target[h], event)
<1> DEFINE suited  == {h \in Found(key) : ScalesOnJobs(triggers[h])}
           broken  == {h \in suited : target[h] = NoTarget}
           matched == {h \in suited \ broken : HasLabels(target[h], event)}
<1>1. r \in matched \union (IF broken # {} THEN {Failed} ELSE {})
               \union (IF matched \union broken = {} THEN {Nobody} ELSE {})
  BY DEF Search, getJobScaleTarget
<1>2. Failed \notin Hras /\ Nobody \notin Hras /\ Failed # Nobody
  BY HraAssumption DEF Failed, Nobody
<1>3. matched \subseteq Hras
  BY DEF Found
<1> HIDE DEF matched, broken
<1>4. /\ r \in Hras => r \in matched
      /\ r = Failed => broken # {}
      /\ r = Nobody => matched = {} /\ broken = {}
  BY <1>1, <1>2, <1>3
<1> USE DEF matched, broken
<1>5. ASSUME r \in Hras
      PROVE  /\ r \in Found(key) /\ ScalesOnJobs(triggers[r])
             /\ target[r] # NoTarget /\ HasLabels(target[r], event)
  BY <1>4, <1>5
<1>6. ASSUME r = Failed PROVE \E h \in Found(key) : target[h] = NoTarget
  BY <1>4, <1>6
<1>7. ASSUME r = Nobody, NEW h \in Found(key), ScalesOnJobs(triggers[h])
      PROVE  target[h] # NoTarget /\ ~ HasLabels(target[h], event)
  BY <1>4, <1>7
<1> QED
  BY <1>5, <1>6, <1>7

LEMMA OtherSearch ==
    ASSUME event.kind # "workflow_job", NEW key, NEW r \in Search(key), r \in Hras
    PROVE  r \in Found(key) /\ \E m \in Matching(key) : Matching(key) = {m} /\ m[1] = r
<1>1. Aborted \notin Hras /\ Nobody \notin Hras
  BY HraAssumption
<1>2. (\E m \in Matching(key) : Matching(key) = {m}) /\ r \in {m[1] : m \in Matching(key)}
  BY <1>1 DEF Search, getScaleTarget
<1>3. PICK m \in Matching(key) : Matching(key) = {m} /\ r = m[1]
  BY <1>2
<1>4. PICK h \in Found(key) :
         m \in {<<h, i>> : i \in {k \in DOMAIN triggers[h] : MatchTrigger(triggers[h][k], event) = Yes}}
  BY <1>3 DEF Matching
<1>5. m[1] = h
  BY <1>4
<1> QED
  BY <1>3, <1>4, <1>5

\* An HRA is in the answer only if it is what a search found.
LEMMA Scaling ==
    ASSUME Handle, outcome'.hra \in Hras, outcome.hra = Nobody
    PROVE  \/ pc = "repository" /\ outcome'.hra \in Search(<<"repo", event.repo>>)
           \/ /\ pc = "traverse" /\ visible # <<>>
              /\ outcome'.hra \in Search(scaleTargetKey(event, Head(visible)))
<1>0. Nobody \notin Hras
  BY HraAssumption
<1>1. ASSUME NEW c, Answer(c, Nobody) PROVE FALSE
  BY <1>0, <1>1 DEF Answer
<1>2. ASSUME NEW r, Scale(r) PROVE outcome'.hra = r
  BY <1>0, <1>2 DEF Scale, Answer
<1>3. CASE Receive
  BY <1>0, <1>3 DEF Receive
<1>4. CASE SearchRepository
  BY <1>0, <1>1, <1>2, <1>4 DEF SearchRepository, Goto
<1>5. CASE getManagedRunnerGroupsFromHRAs
  BY <1>0, <1>1, <1>5 DEF getManagedRunnerGroupsFromHRAs, Goto
<1>6. CASE GetRunnerGroupsVisibleToRepository
  BY <1>0, <1>1, <1>6 DEF GetRunnerGroupsVisibleToRepository, Goto
<1>7. CASE Traverse
  BY <1>0, <1>1, <1>2, <1>7 DEF Traverse, Goto
<1> QED
  BY <1>3, <1>4, <1>5, <1>6, <1>7 DEF Handle

---------------------------------------------------------------------------
(* No target is overlooked *)

\* What the properties say of an HRA changes only with the HRA and its target.
LEMMA Steady ==
    ASSUME UNCHANGED <<event, triggers, github>>, NEW h, target'[h] = target[h],
           h \in deleting' <=> h \in deleting
    PROVE  /\ Wanted(h)' <=> Wanted(h)
           /\ CanRunJob(h)' <=> CanRunJob(h)
           /\ Reaches(target[h])' <=> Reaches(target[h])
           /\ ValidSet(h)' <=> ValidSet(h)
           /\ Ungrouped(h)' <=> Ungrouped(h)
<1>1. Reaches(target[h])' <=> Reaches(target[h])
  BY DEF Reaches
<1>2. CanRunJob(h)' <=> CanRunJob(h)
  BY DEF CanRunJob, Reaches
<1>3. Wanted(h)' <=> Wanted(h)
  BY <1>2 DEF Wanted
<1>4. ValidSet(h)' <=> ValidSet(h)
  BY DEF ValidSet
<1>5. Ungrouped(h)' <=> Ungrouped(h)
  BY DEF Ungrouped
<1> QED
  BY <1>1, <1>2, <1>3, <1>4, <1>5

\* Runners that the repository can use have one scope.
LEMMA Scoped ==
    ASSUME WorldInv, NEW h \in Hras, ValidSet(h), Reaches(target[h])
    PROVE  OneScope(target[h]) /\ target[h] # NoTarget
<1>1. target[h] # NoTarget
  <2>1. NoTarget.repo = "" /\ NoTarget.org = "" /\ NoTarget.ent = ""
    BY DEF NoTarget
  <2>2. event.repo # "" /\ event.owner # ""
    BY DEF WorldInv
  <2>3. ~ Reaches(NoTarget)
    BY <2>1, <2>2 DEF Reaches
  <2> QED
    BY <2>3
<1>2. target[h] \in Targets
  BY <1>1 DEF WorldInv
<1>3. CASE target[h].kind = "RunnerSet"
  BY <1>1, <1>3 DEF ValidSet
<1>4. CASE target[h].kind = "RunnerDeployment"
  BY <1>1, <1>2, <1>4 DEF Targets
<1>5. target[h].kind \in {"RunnerDeployment", "RunnerSet"}
  BY <1>2 DEF Targets
<1> QED
  BY <1>1, <1>3, <1>4, <1>5

\* An HRA that is wanted, and indexed by the key, is not passed over.
LEMMA NotPassedOver ==
    ASSUME event.kind = "workflow_job", NEW h \in Hras, Wanted(h), NEW key, key \in index[h],
           Nobody \in Search(key)
    PROVE  FALSE
<1>1. h \in Found(key) /\ ScalesOnJobs(triggers[h]) /\ HasLabels(target[h], event)
  BY DEF Wanted, CanRunJob, Found, HasLabels
<1> QED
  BY <1>1, JobSearch

LEMMA CoverStep ==
    ASSUME CoverInv, BaseInv, [Next]_vars
    PROVE  CoverInv'
<1>1. CASE ~ Handle
  <2>1. UNCHANGED <<event, github, pc, todo, managed, visible>>
    BY <1>1, UserFrame
  <2>2. \A h \in Hras : h \in steady' => h \in steady /\ target'[h] = target[h]
    BY <1>1, SteadyFrame DEF BaseInv
  <2> QED
    BY <2>1, <2>2 DEF CoverInv, IsVisible
<1>2. CASE Handle
  <2> USE DEF CoverInv
  <2>1. UNCHANGED <<event, triggers, github, deleting, target, index>>
        /\ (pc # "idle" => UNCHANGED steady)
    BY <1>2, HandlerFrame
  <2>2. CASE pc' \notin {"managed", "visible"}
    BY <2>2
  <2>3. CASE pc' \in {"managed", "visible"} /\ pc = "repository"
    <3>1. SearchRepository
      BY <1>2, <2>3 DEF Handle, Receive, getManagedRunnerGroupsFromHRAs,
         GetRunnerGroupsVisibleToRepository, Traverse
    <3>2. pc' = "managed" /\ todo' = Hras
      BY <2>3, <3>1 DEF SearchRepository, Scale, Answer, Goto
    <3> QED
      BY <3>2
  <2>4. CASE pc' \in {"managed", "visible"} /\ pc = "managed"
    <3>1. getManagedRunnerGroupsFromHRAs
      BY <1>2, <2>4 DEF Handle, Receive, SearchRepository,
         GetRunnerGroupsVisibleToRepository, Traverse
    <3>2. ASSUME NEW h \in todo, target[h] # NoTarget, pc' = "managed", todo' = todo \ {h},
                 managed' = IF IsManaged(event, target[h])
                            THEN Add(managed, GroupOf(target[h])) ELSE managed
          PROVE  CoverInv'
      <4>1. /\ ToSet(managed) \subseteq ToSet(managed')
            /\ IsManaged(event, target[h]) => GroupOf(target[h]) \in ToSet(managed')
        BY <2>4, <3>2, ManagedStep DEF BaseInv
      <4> QED
        BY <2>1, <2>4, <3>2, <4>1
    <3>3. CASE todo = {} /\ todo' = github /\ pc' = "visible" /\ UNCHANGED managed
      BY <2>1, <2>4, <3>3
    <3> QED
      BY <2>4, <3>1, <3>2, <3>3 DEF getManagedRunnerGroupsFromHRAs, Answer, Goto
  <2>5. CASE pc' \in {"managed", "visible"} /\ pc = "visible"
    <3>1. GetRunnerGroupsVisibleToRepository
      BY <1>2, <2>5 DEF Handle, Receive, SearchRepository, getManagedRunnerGroupsFromHRAs, Traverse
    <3>2. PICK g \in todo :
             /\ visible' = IF IsVisible(managed, g) THEN Add(visible, g.group) ELSE visible
             /\ todo' = todo \ {g} /\ pc' = "visible" /\ UNCHANGED managed
      BY <2>5, <3>1 DEF GetRunnerGroupsVisibleToRepository, Answer, Goto
    <3>3. ToSet(visible') = ToSet(visible) \union (IF IsVisible(managed, g) THEN {g.group} ELSE {})
      BY <2>5, <3>2, VisibleStep DEF BaseInv
    <3> QED
      BY <2>1, <2>5, <3>2, <3>3 DEF IsVisible
  <2>6. pc' \notin {"managed", "visible"} \/ pc \in {"repository", "managed", "visible"}
    BY <1>2 DEF Handle, Receive, Traverse, SearchRepository, getManagedRunnerGroupsFromHRAs,
       GetRunnerGroupsVisibleToRepository, Scale, Answer, Goto
  <2> QED
    BY <2>2, <2>3, <2>4, <2>5, <2>6
<1> QED
  BY <1>1, <1>2

\* Runners that the repository uses through a group are among those that are managed.
LEMMA ReachedIsManaged ==
    ASSUME WorldInv, NEW t,
           t.org = event.owner \/ (t.ent # "" /\ t.ent = event.enterprise)
    PROVE  IsManaged(event, t)
BY DEF WorldInv, IsManaged

LEMMA LeftStep ==
    ASSUME LeftInv, CoverInv, BaseInv, [Next]_vars
    PROVE  LeftInv'
<1>0. TypeOK /\ WorldInv /\ HandlerInv
  BY DEF BaseInv
<1>1. CASE ~ Handle
  <2>1. UNCHANGED <<event, triggers, github, pc, visible>>
    BY <1>1, UserFrame
  <2>2. SUFFICES ASSUME event.kind = "workflow_job", NEW h \in Hras, h \in steady',
                        ValidSet(h)', Wanted(h)'
                 PROVE  /\ pc \in {"managed", "visible", "traverse"} => target'[h].repo # event.repo
                        /\ pc = "traverse" => GroupOf(target'[h]) \in ToSet(visible)
    BY <2>1 DEF LeftInv
  <2>3. h \in steady /\ target'[h] = target[h] /\ (h \in deleting' <=> h \in deleting)
    BY <1>0, <1>1, <2>2, SteadyFrame
  <2>4. ValidSet(h) /\ Wanted(h)
    BY <2>1, <2>2, <2>3, Steady
  <2> QED
    BY <2>2, <2>3, <2>4 DEF LeftInv
<1>2. CASE Handle
  <2>1. UNCHANGED <<event, triggers, github, deleting, target, index>>
        /\ (pc # "idle" => UNCHANGED steady)
    BY <1>2, HandlerFrame
  <2>2. SUFFICES ASSUME event.kind = "workflow_job", NEW h \in Hras, h \in steady', ValidSet(h),
                        Wanted(h)
                 PROVE  /\ pc' \in {"managed", "visible", "traverse"} => target[h].repo # event.repo
                        /\ pc' = "traverse" => GroupOf(target[h]) \in ToSet(visible')
    BY <2>1, Steady DEF LeftInv
  <2>3. Reaches(target[h]) /\ OneScope(target[h])
    BY <1>0, <2>2, Scoped DEF Wanted, CanRunJob
  <2>4. CASE Receive
    BY <2>4 DEF Receive
  <2>5. pc # "idle" => h \in steady /\ index[h] = IndexKeys(target[h])
    BY <1>0, <2>1, <2>2 DEF HandlerInv
  <2>6. CASE SearchRepository
    <3>1. CASE pc' = "managed"
      <4>1. Nobody \in Search(<<"repo", event.repo>>)
        BY <2>6, <3>1 DEF SearchRepository, Scale, Answer
      <4>2. CASE target[h].repo = event.repo
        <5>1. <<"repo", event.repo>> \in index[h]
          BY <1>0, <2>5, <2>6, <4>2, RepositoryKey DEF SearchRepository, WorldInv
        <5> QED
          BY <2>2, <4>1, <5>1, NotPassedOver
      <4> QED
        BY <3>1, <4>2
    <3> QED
      BY <2>6, <3>1 DEF SearchRepository, Scale, Answer, Goto
  <2>7. CASE getManagedRunnerGroupsFromHRAs
    BY <2>1, <2>2, <2>5, <2>7 DEF getManagedRunnerGroupsFromHRAs, Answer, Goto, LeftInv
  <2>8. CASE GetRunnerGroupsVisibleToRepository
    <3>0. pc = "visible" /\ h \in steady /\ target[h].repo # event.repo
      BY <2>2, <2>5, <2>8 DEF GetRunnerGroupsVisibleToRepository, LeftInv
    <3>1. CASE pc' = "traverse"
      <4>1. GroupOf(target[h]) \in ToSet(managed)
        <5>1. IsManaged(event, target[h])
          BY <1>0, <2>3, <3>0, ReachedIsManaged DEF Reaches
        <5> QED
          BY <3>0, <5>1 DEF CoverInv
      <4>2. CASE github = NoClient
        <5>1. visible' = managed
          BY <1>0, <2>8, <3>1, <4>2 DEF GetRunnerGroupsVisibleToRepository, Answer, Goto, HandlerInv,
             NoClient
        <5> QED
          BY <3>0, <4>1, <5>1
      <4>3. CASE github # NoClient
        <5>1. todo = {} /\ visible' = visible
          BY <2>8, <3>1, <4>3 DEF GetRunnerGroupsVisibleToRepository, Answer, Goto, work
        <5>2. PICK g \in github : g.group = GroupOf(target[h]) /\ (g.all \/ g.listed)
          BY <2>3, <3>0, <4>3 DEF Reaches
        <5>3. IsVisible(managed, g)
          BY <4>1, <5>2 DEF IsVisible
        <5> QED
          BY <3>0, <5>1, <5>2, <5>3 DEF CoverInv
      <4> QED
        BY <3>0, <4>2, <4>3
    <3> QED
      BY <3>0, <3>1
  <2>9. CASE Traverse
    <3>0. pc = "traverse" /\ h \in steady /\ target[h].repo # event.repo
          /\ GroupOf(target[h]) \in ToSet(visible)
      BY <2>2, <2>5, <2>9 DEF Traverse, LeftInv
    <3>1. CASE pc' = "traverse"
      <4>1. visible # <<>> /\ visible' = Tail(visible)
            /\ Nobody \in Search(scaleTargetKey(event, Head(visible)))
        BY <2>9, <3>1 DEF Traverse, Scale, Answer
      <4>2. ToSet(visible) = ToSet(Tail(visible)) \union {Head(visible)}
        BY <1>0, <4>1, TailKeepsOrder DEF TypeOK
      <4>3. CASE GroupOf(target[h]) = Head(visible)
        <5>1. scaleTargetKey(event, Head(visible)) \in index[h]
          <6>1. scaleTargetKey(event, GroupOf(target[h])) \in IndexKeys(target[h])
            BY <1>0, <2>3, <3>0, HomeKey DEF Reaches, WorldInv
          <6> QED
            BY <2>5, <3>0, <4>3, <6>1
        <5> QED
          BY <2>2, <4>1, <5>1, NotPassedOver
      <4> QED
        BY <3>0, <4>1, <4>2, <4>3
    <3> QED
      BY <3>0, <3>1 
  <2> QED
    BY <1>2, <2>4, <2>6, <2>7, <2>8, <2>9 DEF Handle
<1> QED
  BY <1>1, <1>2

LEMMA VisibleInvStep ==
    ASSUME VisibleInv, BaseInv, [Next]_vars
    PROVE  VisibleInv'
<1>0. TypeOK /\ WorldInv /\ HandlerInv
  BY DEF BaseInv
<1>1. github' = github
  BY HandlerFrame, UserFrame
<1>2. SUFFICES ASSUME github # NoClient, NEW x \in ToSet(visible')
               PROVE  \E g \in github : g.group = x /\ (g.all \/ g.listed)
  BY <1>1 DEF VisibleInv
<1>3. CASE x \in ToSet(visible)
  BY <1>2, <1>3 DEF VisibleInv
<1>4. CASE x \notin ToSet(visible)
  <2>1. visible' # visible /\ visible' # <<>>
    BY <1>2, <1>4, EmptyList
  <2>2. Handle
    BY <2>1, UserFrame
  <2>3. GetRunnerGroupsVisibleToRepository \/ (Traverse /\ visible # <<>> /\ visible' = Tail(visible))
    BY <2>1, <2>2 DEF Handle, Receive, SearchRepository, getManagedRunnerGroupsFromHRAs, Traverse,
       Scale, Answer, work
  <2>4. CASE Traverse /\ visible # <<>> /\ visible' = Tail(visible)
    <3>1. ToSet(visible) = ToSet(Tail(visible)) \union {Head(visible)}
      BY <1>0, <2>4, TailKeepsOrder DEF TypeOK
    <3> QED
      BY <1>2, <1>4, <2>4, <3>1
  <2>5. CASE GetRunnerGroupsVisibleToRepository
    <3>1. PICK g \in todo : visible' = IF IsVisible(managed, g) THEN Add(visible, g.group) ELSE visible
      BY <1>2, <2>1, <2>5 DEF GetRunnerGroupsVisibleToRepository, Answer, work
    <3>2. pc = "visible" /\ g \in github
      BY <1>0, <2>5 DEF GetRunnerGroupsVisibleToRepository, HandlerInv
    <3>3. ToSet(visible') = ToSet(visible) \union (IF IsVisible(managed, g) THEN {g.group} ELSE {})
      BY <1>0, <3>1, <3>2, VisibleStep
    <3>4. x = g.group /\ IsVisible(managed, g)
      BY <1>2, <1>4, <3>3
    <3> QED
      BY <3>2, <3>4 DEF IsVisible
  <2> QED
    BY <2>3, <2>4, <2>5
<1> QED
  BY <1>3, <1>4

SearchInv == BaseInv /\ CoverInv /\ LeftInv /\ VisibleInv

LEMMA SearchInvInit ==
    ASSUME Init
    PROVE  SearchInv /\ outcome = Pending
<1>1. BaseInv
  BY WorldInit DEF BaseInv
<1>2. pc = "idle" /\ visible = <<>> /\ outcome = Pending
  BY DEF Init
<1>3. CoverInv
  BY <1>2 DEF CoverInv
<1>4. LeftInv
  BY <1>2 DEF LeftInv
<1>5. VisibleInv
  BY <1>2, EmptyList DEF VisibleInv
<1> QED
  BY <1>1, <1>2, <1>3, <1>4, <1>5 DEF SearchInv

LEMMA SearchInvStep ==
    ASSUME SearchInv, [Next]_vars
    PROVE  SearchInv'
<1>1. BaseInv'
  BY TypeStep, WorldStep, HandlerStep DEF SearchInv, BaseInv
<1> QED
  BY <1>1, CoverStep, LeftStep, VisibleInvStep DEF SearchInv

\* A job is answered without a target in three places only.
LEMMA Unscaling ==
    ASSUME Handle, HandlerInv, IsJob, outcome'.code = 200, outcome'.hra = Nobody
    PROVE  \/ /\ pc = "repository" /\ event.ownerType = "User"
              /\ Nobody \in Search(<<"repo", event.repo>>)
           \/ pc = "traverse" /\ visible = <<>>
           \/ pc = "traverse" /\ Failed \in Search(scaleTargetKey(event, Head(visible)))
<1>0. Nobody \notin Hras /\ event.kind = "workflow_job" /\ Amount(event) # 0
  BY HraAssumption DEF IsJob
<1>1. ASSUME NEW r \in Hras, Scale(r) PROVE FALSE
  BY <1>0, <1>1 DEF Scale, Answer
<1>2. ASSUME NEW c, Answer(c, Nobody) PROVE c = 200
  BY <1>2 DEF Answer
<1>3. pc # "done" /\ UNCHANGED outcome => FALSE
  BY DEF HandlerInv, Pending
<1>4. CASE Receive
  <2>1. event.action \in {"queued", "completed"}
    BY <1>0 DEF Amount
  <2> QED
    BY <1>3, <1>4, <2>1 DEF Receive
<1>5. CASE SearchRepository
  BY <1>1, <1>2, <1>3, <1>5 DEF SearchRepository, Goto
<1>6. CASE getManagedRunnerGroupsFromHRAs
  BY <1>2, <1>3, <1>6 DEF getManagedRunnerGroupsFromHRAs, Goto
<1>7. CASE GetRunnerGroupsVisibleToRepository
  BY <1>2, <1>3, <1>7 DEF GetRunnerGroupsVisibleToRepository, Goto
<1>8. CASE Traverse
  BY <1>1, <1>2, <1>3, <1>8 DEF Traverse, Goto
<1> QED
  BY <1>4, <1>5, <1>6, <1>7, <1>8 DEF Handle

\* The answer without a target, given to a job while every target exists.
LEMMA OverlookStep ==
    ASSUME SearchInv, [Next]_vars, IsJob, pc # "done", Unscaled',
           \A x \in Hras : target[x] # NoTarget,
           NEW h \in Hras, h \in steady, ValidSet(h), Wanted(h)
    PROVE  FALSE
<1>0. TypeOK /\ WorldInv /\ HandlerInv /\ CoverInv /\ LeftInv
  BY DEF SearchInv, BaseInv
<1>1. CASE ~ Handle
  <2>1. outcome' = Pending
    BY <1>0, <1>1, UserFrame DEF HandlerInv
  <2> QED
    BY <2>1 DEF Unscaled, Pending
<1>2. CASE Handle
  <2>1. event.kind = "workflow_job" /\ Reaches(target[h]) /\ index[h] = IndexKeys(target[h])
    BY <1>0 DEF IsJob, Wanted, CanRunJob, HandlerInv
  <2>2. \/ /\ pc = "repository" /\ event.ownerType = "User"
           /\ Nobody \in Search(<<"repo", event.repo>>)
        \/ pc = "traverse" /\ visible = <<>>
        \/ pc = "traverse" /\ Failed \in Search(scaleTargetKey(event, Head(visible)))
    BY <1>0, <1>2, Unscaling DEF Unscaled
  <2>3. CASE pc = "repository" /\ event.ownerType = "User" /\ Nobody \in Search(<<"repo", event.repo>>)
    <3>1. target[h].repo = event.repo
      BY <2>1, <2>3 DEF Reaches
    <3>2. <<"repo", event.repo>> \in index[h]
      BY <1>0, <2>1, <3>1, RepositoryKey DEF WorldInv
    <3> QED
      BY <2>1, <2>3, <3>2, NotPassedOver
  <2>4. CASE pc = "traverse" /\ visible = <<>>
    BY <1>0, <2>1, <2>4, EmptyList DEF LeftInv
  <2>5. CASE pc = "traverse" /\ Failed \in Search(scaleTargetKey(event, Head(visible)))
    <3>1. PICK x \in Found(scaleTargetKey(event, Head(visible))) : target[x] = NoTarget
      BY <2>1, <2>5, JobSearch
    <3> QED
      BY <3>1 DEF Found
  <2> QED
    BY <2>2, <2>3, <2>4, <2>5
<1> QED
  BY <1>1, <1>2

\* While every target exists, a job event is answered without a target only if no HRA that
\* scales on jobs, and that has been steady since the request, has runners for it: neither the
\* search by the repository nor the two loops over groups nor the traversal overlooks a key, a
\* group or a level, whatever is done to the other HRAs between any two of these steps.
THEOREM NobodyIsOverlooked == Spec => NoTargetOverlooked
<1> DEFINE A == IsJob /\ pc # "done" /\ Unscaled' /\ (\A h \in Hras : target[h] # NoTarget)
                  => ~ \E h \in steady : ValidSet(h) /\ CanRunJob(h) /\ ScalesOnJobs(triggers[h])
<1>1. Init => SearchInv
  BY SearchInvInit
<1>2. SearchInv /\ [Next]_vars => SearchInv'
  BY SearchInvStep
<1>3. ASSUME SearchInv, [Next]_vars PROVE [A]_vars
  <2>1. steady \subseteq Hras
    BY <1>3 DEF SearchInv, BaseInv, TypeOK
  <2> SUFFICES ASSUME IsJob, pc # "done", Unscaled', \A h \in Hras : target[h] # NoTarget,
                      NEW h \in steady, ValidSet(h), CanRunJob(h), ScalesOnJobs(triggers[h])
               PROVE  FALSE
    OBVIOUS
  <2> QED
    BY <1>3, <2>1, OverlookStep DEF Wanted
<1> QED
  BY <1>1, <1>2, <1>3, PTL DEF Spec, NoTargetOverlooked

---------------------------------------------------------------------------
(* The right target is scaled *)

\* A steady target that a search finds is one the repository can use, and in the place
\* that is searched.
LEMMA FoundInPlace ==
    ASSUME SearchInv, NEW r \in Hras, r \in steady, ValidSet(r), Ungrouped(r),
           NEW key, r \in Found(key),
           \/ pc = "repository" /\ key = <<"repo", event.repo>>
           \/ pc = "traverse" /\ visible # <<>> /\ key = scaleTargetKey(event, Head(visible))
    PROVE  /\ Reaches(target[r])
           /\ pc = "repository" => target[r].repo = event.repo
           /\ pc = "traverse" => target[r].repo = "" /\ GroupOf(target[r]) = Head(visible)
<1>0. TypeOK /\ WorldInv /\ HandlerInv /\ VisibleInv
  BY DEF SearchInv, BaseInv
<1>1. key \in IndexKeys(target[r]) /\ r \notin deleting
  BY <1>0 DEF HandlerInv, Found
<1>2. CASE pc = "repository" /\ key = <<"repo", event.repo>>
  <2>1. target[r].repo = event.repo
    BY <1>1, <1>2, RepositoryKey
  <2> QED
    BY <1>2, <2>1 DEF Reaches
<1>3. CASE pc = "traverse" /\ visible # <<>> /\ key = scaleTargetKey(event, Head(visible))
  <2>1. Head(visible) \in Groups /\ Head(visible) \in ToSet(visible)
    BY <1>0, <1>3, TailKeepsOrder DEF TypeOK
  <2>2. target[r] \in Targets
    <3>1. IndexKeys(NoTarget) = {}
      BY DEF IndexKeys, NoTarget
    <3> QED
      BY <1>0, <1>1, <3>1 DEF WorldInv
  <2>3. OneScope(target[r])
    <3>1. target[r].kind \in {"RunnerDeployment", "RunnerSet"}
      BY <2>2 DEF Targets
    <3>2. CASE target[r].kind = "RunnerSet"
      BY <3>2 DEF ValidSet
    <3>3. CASE target[r].kind = "RunnerDeployment"
      BY <2>2, <3>3 DEF Targets
    <3> QED
      BY <3>1, <3>2, <3>3
  <2>4. target[r].kind = "RunnerSet" => target[r].group = Default
    BY DEF Ungrouped
  <2>5. /\ GroupOf(target[r]) = Head(visible) /\ target[r].repo = ""
        /\ \/ target[r].org = event.owner
           \/ target[r].ent # "" /\ target[r].ent = event.enterprise
    BY <1>1, <1>3, <2>1, <2>3, <2>4, KeyLeadsHome
  <2>6. event.ownerType # "User"
    BY <1>0, <1>3 DEF HandlerInv
  <2>7. github = NoClient \/ \E g \in github : g.group = GroupOf(target[r]) /\ (g.all \/ g.listed)
    BY <1>0, <2>1, <2>5 DEF VisibleInv
  <2>8. Reaches(target[r])
    BY <2>5, <2>6, <2>7 DEF Reaches
  <2> QED
    BY <1>3, <2>5, <2>8
<1> QED
  BY <1>2, <1>3

LEMMA LevelType ==
    ASSUME NEW t
    PROVE  /\ Level(t) \in Nat
           /\ t.repo # "" => Level(t) = 0
           /\ t.repo = "" => Level(t) = 1 + Rank(GroupOf(t))
<1>1. Rank(GroupOf(t)) \in Nat
  BY RankType
<1>2. 1 + Rank(GroupOf(t)) \in Nat
  BY <1>1
<1>3. CASE t.repo # ""
  BY <1>3 DEF Level
<1>4. CASE t.repo = ""
  BY <1>2, <1>4 DEF Level
<1> QED
  BY <1>3, <1>4

\* What SameGroupAsActions says of an HRA that is scaled.
First(r, S) ==
    /\ CanRunJob(r)
    /\ \A h \in S : ValidSet(h) /\ Wanted(h) => Level(target[r]) <= Level(target[h])

\* The steady HRAs, and what is said of them, are after a step as they were before.
StaySteady ==
    /\ UNCHANGED <<event, triggers, github>>
    /\ \A h \in steady' : target'[h] = target[h] /\ (h \in deleting' <=> h \in deleting)

LEMMA SteadyStep ==
    ASSUME SearchInv, [Next]_vars
    PROVE  StaySteady /\ steady' \subseteq Hras /\ (~ Handle => steady' \subseteq steady)
<1>1. steady' \subseteq Hras
  BY SearchInvStep DEF SearchInv, BaseInv, TypeOK
<1>2. CASE Handle
  BY <1>1, <1>2, HandlerFrame DEF StaySteady
<1>3. CASE ~ Handle
  <2>1. UNCHANGED <<event, triggers, github>>
    BY <1>3, UserFrame
  <2> QED
    BY <1>1, <1>3, <2>1, SteadyFrame DEF StaySteady, SearchInv, BaseInv
<1> QED
  BY <1>2, <1>3

LEMMA FirstStaysFirst ==
    ASSUME StaySteady,
           /\ IsJob /\ Scaled' /\ outcome'.hra \in steady'
           /\ ValidSet(outcome'.hra) /\ Ungrouped(outcome'.hra)
           => First(outcome'.hra, steady')
    PROVE  SameGroupAsActions'
<1>1. SUFFICES ASSUME NEW r \in steady', r = outcome'.hra,
                      IsJob', Scaled', ValidSet(r)', Ungrouped(r)'
               PROVE  /\ CanRunJob(r)'
                      /\ \A h \in steady' : ValidSet(h)' /\ CanRunJob(h)' /\ ScalesOnJobs(triggers'[h])
                                             => Level(target'[r]) <= Level(target'[h])
  BY DEF SameGroupAsActions
<1>2. \A h \in steady' : /\ ValidSet(h)' <=> ValidSet(h)
                         /\ Ungrouped(h)' <=> Ungrouped(h)
                         /\ CanRunJob(h)' <=> CanRunJob(h)
  BY Steady DEF StaySteady
<1>3. IsJob
  BY <1>1 DEF StaySteady, IsJob
<1>4. First(r, steady')
  BY <1>1, <1>2, <1>3
<1>5. ASSUME NEW h \in steady', ValidSet(h)', CanRunJob(h)', ScalesOnJobs(triggers'[h])
      PROVE  Level(target'[r]) <= Level(target'[h])
  <2>1. ValidSet(h) /\ Wanted(h)
    BY <1>2, <1>5 DEF Wanted, StaySteady
  <2>2. target'[r] = target[r] /\ target'[h] = target[h]
    BY DEF StaySteady
  <2>3. Level(target[r]) <= Level(target[h])
    BY <1>4, <2>1 DEF First
  <2> QED
    BY <2>2, <2>3
<1> QED
  BY <1>2, <1>4, <1>5 DEF First

LEMMA SameGroupStep ==
    ASSUME SearchInv, SameGroupAsActions, [Next]_vars
    PROVE  SameGroupAsActions'
<1>0. TypeOK /\ WorldInv /\ HandlerInv /\ LeftInv
  BY DEF SearchInv, BaseInv
<1>s. StaySteady /\ steady' \subseteq Hras /\ (~ Handle => steady' \subseteq steady)
  BY SteadyStep
<1>1. SUFFICES ASSUME IsJob, Scaled', NEW r \in steady', r = outcome'.hra,
                      ValidSet(r), Ungrouped(r)
               PROVE  First(r, steady')
  BY <1>s, FirstStaysFirst
<1>2. CASE ~ Handle
  <2>1. outcome' = outcome
    BY <1>2, UserFrame
  <2>2. First(r, steady)
    BY <1>1, <1>2, <1>s, <2>1 DEF SameGroupAsActions, Scaled, First, Wanted
  <2> QED
    BY <1>2, <1>s, <2>2 DEF First
<1>3. CASE Handle
  <2>3. outcome.hra = Nobody
    <3>1. pc # "done"
      BY <1>3 DEF Handle, Receive, SearchRepository, getManagedRunnerGroupsFromHRAs,
         GetRunnerGroupsVisibleToRepository, Traverse
    <3> QED
      BY <1>0, <3>1 DEF HandlerInv, Pending
  <2>4. PICK key : /\ r \in Search(key)
                   /\ \/ pc = "repository" /\ key = <<"repo", event.repo>>
                      \/ pc = "traverse" /\ visible # <<>> /\ key = scaleTargetKey(event, Head(visible))
    BY <1>1, <1>3, <1>s, <2>3, Scaling
  <2>5. event.kind = "workflow_job" /\ steady' = steady /\ r \in Hras
    BY <1>1, <1>3, <1>s, <2>4, HandlerFrame DEF IsJob
  <2>6. r \in Found(key) /\ HasLabels(target[r], event)
    BY <2>4, <2>5, JobSearch
  <2>7. /\ Reaches(target[r])
        /\ pc = "repository" => target[r].repo = event.repo
        /\ pc = "traverse" => target[r].repo = "" /\ GroupOf(target[r]) = Head(visible)
    BY <1>1, <2>4, <2>5, <2>6, FoundInPlace
  <2>8. CanRunJob(r)
    BY <2>6, <2>7 DEF CanRunJob, HasLabels, Found
  <2>9. ASSUME NEW h \in Hras, h \in steady, ValidSet(h), Wanted(h)
        PROVE  Level(target[r]) <= Level(target[h])
    <3>1. CASE pc = "repository"
      <4>1. Level(target[r]) = 0
        BY <1>0, <2>7, <3>1, LevelType DEF WorldInv
      <4>2. Level(target[h]) \in Nat
        BY LevelType
      <4> QED
        BY <4>1, <4>2
    <3>2. CASE pc = "traverse"
      <4>1. target[h].repo # event.repo /\ GroupOf(target[h]) \in ToSet(visible)
        BY <1>0, <2>5, <2>9, <3>2 DEF LeftInv
      <4>2. OneScope(target[h]) /\ Reaches(target[h])
        BY <1>0, <2>9, Scoped DEF Wanted, CanRunJob
      <4>3. target[h].repo = ""
        BY <1>0, <4>1, <4>2, HomeKey DEF Reaches, WorldInv
      <4>4. Rank(Head(visible)) <= Rank(GroupOf(target[h]))
        BY <1>0, <2>4, <3>2, <4>1, TailKeepsOrder DEF TypeOK
      <4>5. /\ Level(target[h]) = 1 + Rank(GroupOf(target[h]))
            /\ Level(target[r]) = 1 + Rank(GroupOf(target[r]))
        BY <2>7, <3>2, <4>3, LevelType
      <4> QED
        <5>1. PICK a \in Nat : a = Rank(GroupOf(target[r]))
          BY RankType
        <5>2. PICK b \in Nat : b = Rank(GroupOf(target[h]))
          BY RankType
        <5>3. a <= b
          BY <2>7, <3>2, <4>4, <5>1, <5>2
        <5> QED
          BY <4>5, <5>1, <5>2, <5>3
    <3> QED
      BY <2>4, <3>1, <3>2
  <2> QED
    BY <1>s, <2>5, <2>8, <2>9 DEF First
<1> QED
  BY <1>2, <1>3

\* The runners that are scaled for a job are some that GitHub can give the job to, and among
\* the HRAs that are steady no runners that scale on jobs are at a level that takes precedence,
\* whatever is done to the other HRAs while the handler is at work: "ARC chooses the same group as Actions as the scale target"
\* (simulator/runnergroups.go:107), for any number of HRAs and groups.
THEOREM ChoosesAsActions == Spec => []SameGroupAsActions
<1>1. Init => SearchInv /\ SameGroupAsActions
  BY SearchInvInit DEF SameGroupAsActions, Scaled, Pending
<1>2. SearchInv /\ SameGroupAsActions /\ [Next]_vars => (SearchInv /\ SameGroupAsActions)'
  BY SearchInvStep, SameGroupStep
<1> QED
  BY <1>1, <1>2, PTL DEF Spec

\* A trigger that matches, of an HRA found by the key, is the one that is taken.
LEMMA TheOneMatch ==
    ASSUME event.kind # "workflow_job", NEW key, NEW r \in Search(key), r \in Hras,
           NEW h \in Found(key), NEW i \in DOMAIN triggers[h],
           MatchTrigger(triggers[h][i], event) = Yes
    PROVE  /\ h = r
           /\ \A j \in DOMAIN triggers[h] : MatchTrigger(triggers[h][j], event) = Yes => j = i
<1>1. PICK m \in Matching(key) : Matching(key) = {m} /\ m[1] = r
  BY OtherSearch
<1>2. ASSUME NEW j \in DOMAIN triggers[h], MatchTrigger(triggers[h][j], event) = Yes
      PROVE  <<h, j>> = m
  <2>1. <<h, j>> \in Matching(key)
    BY <1>2 DEF Matching
  <2> QED
    BY <1>1, <2>1
<1>3. <<h, i>> = m
  BY <1>2
<1>4. h = r
  BY <1>1, <1>3
<1>5. ASSUME NEW j \in DOMAIN triggers[h], MatchTrigger(triggers[h][j], event) = Yes
      PROVE  j = i
  <2>1. <<h, j>> = <<h, i>>
    BY <1>2, <1>3, <1>5
  <2> QED
    BY <2>1
<1> QED
  BY <1>4, <1>5

\* No other HRA of S has a trigger that matches in the place of r.
Unrivalled(r, S) ==
    \A h \in S \ deleting : \A i \in DOMAIN triggers[h] :
       /\ MatchTrigger(triggers[h][i], event) = Yes /\ ValidSet(h)
       /\ SamePlace(target[h], target[r]) /\ Reaches(target[h])
       => h = r /\ \A j \in DOMAIN triggers[h] : MatchTrigger(triggers[h][j], event) = Yes => j = i

LEMMA RivalsAreSteady ==
    ASSUME StaySteady,
           /\ event.kind # "workflow_job" /\ Scaled' /\ outcome'.hra \in steady'
           /\ ValidSet(outcome'.hra) /\ Ungrouped(outcome'.hra)
           => Unrivalled(outcome'.hra, steady')
    PROVE  ExactlyOneTrigger'
<1>1. \A h \in steady' : /\ ValidSet(h)' <=> ValidSet(h)
                         /\ Ungrouped(h)' <=> Ungrouped(h)
                         /\ Reaches(target[h])' <=> Reaches(target[h])
  BY Steady DEF StaySteady
<1>e. event' = event /\ triggers' = triggers
  BY DEF StaySteady
<1>2. SUFFICES ASSUME event.kind # "workflow_job", Scaled', outcome'.hra \in steady',
                      ValidSet(outcome'.hra), Ungrouped(outcome'.hra),
                      NEW h \in steady', h \notin deleting', NEW i \in DOMAIN triggers[h],
                      MatchTrigger(triggers[h][i], event) = Yes, ValidSet(h),
                      SamePlace(target'[h], target'[outcome'.hra]), Reaches(target[h])
               PROVE  /\ h = outcome'.hra
                      /\ \A j \in DOMAIN triggers[h] :
                            MatchTrigger(triggers[h][j], event) = Yes => j = i
  BY <1>1, <1>e DEF ExactlyOneTrigger
<1>3. Unrivalled(outcome'.hra, steady')
  BY <1>2
<1>4. h \notin deleting /\ SamePlace(target[h], target[outcome'.hra])
  BY <1>2 DEF StaySteady
<1> QED
  BY <1>2, <1>3, <1>4 DEF Unrivalled

LEMMA TriggerStep ==
    ASSUME SearchInv, ExactlyOneTrigger, [Next]_vars
    PROVE  ExactlyOneTrigger'
<1>0. TypeOK /\ WorldInv /\ HandlerInv
  BY DEF SearchInv, BaseInv
<1>s. StaySteady /\ steady' \subseteq Hras /\ (~ Handle => steady' \subseteq steady)
  BY SteadyStep
<1>1. SUFFICES ASSUME event.kind # "workflow_job", Scaled', NEW r \in steady', r = outcome'.hra,
                      ValidSet(r), Ungrouped(r)
               PROVE  Unrivalled(r, steady')
  BY <1>s, RivalsAreSteady
<1>2. CASE ~ Handle
  <2>1. outcome' = outcome
    BY <1>2, UserFrame
  <2>2. Unrivalled(r, steady)
    BY <1>1, <1>2, <1>s, <2>1 DEF ExactlyOneTrigger, Scaled, Unrivalled
  <2> QED
    BY <1>2, <1>s, <2>2 DEF Unrivalled
<1>3. CASE Handle
  <2>3. outcome.hra = Nobody
    <3>1. pc # "done"
      BY <1>3 DEF Handle, Receive, SearchRepository, getManagedRunnerGroupsFromHRAs,
         GetRunnerGroupsVisibleToRepository, Traverse
    <3> QED
      BY <1>0, <3>1 DEF HandlerInv, Pending
  <2>4. PICK key : /\ r \in Search(key)
                   /\ \/ pc = "repository" /\ key = <<"repo", event.repo>>
                      \/ pc = "traverse" /\ visible # <<>> /\ key = scaleTargetKey(event, Head(visible))
    BY <1>1, <1>3, <1>s, <2>3, Scaling
  <2>2. steady' = steady /\ r \in Hras
    BY <1>3, <1>s, <2>4, HandlerFrame
  <2>5. \A x \in Hras : x \in steady => index[x] = IndexKeys(target[x])
    BY <1>0 DEF HandlerInv
  <2>6. r \in Found(key)
    BY <1>1, <2>2, <2>4, OtherSearch
  <2>7. /\ pc = "repository" => target[r].repo = event.repo
        /\ pc = "traverse" => target[r].repo = "" /\ GroupOf(target[r]) = Head(visible)
    BY <1>1, <2>2, <2>4, <2>6, FoundInPlace
  <2>8. ASSUME NEW h \in Hras, h \in steady, h \notin deleting, NEW i \in DOMAIN triggers[h],
               MatchTrigger(triggers[h][i], event) = Yes, ValidSet(h),
               SamePlace(target[h], target[r]), Reaches(target[h])
        PROVE  /\ h = r
               /\ \A j \in DOMAIN triggers[h] : MatchTrigger(triggers[h][j], event) = Yes => j = i
    <3>1. CASE pc = "repository"
      <4>1. target[h].repo = event.repo /\ event.repo # ""
        BY <1>0, <2>7, <2>8, <3>1 DEF SamePlace, WorldInv
      <4>2. key \in index[h]
        BY <2>4, <2>5, <2>8, <3>1, <4>1, RepositoryKey
      <4> QED
        BY <1>1, <2>2, <2>4, <2>8, <4>2, TheOneMatch DEF Found
    <3>2. CASE pc = "traverse"
      <4>1. target[h].repo = "" /\ GroupOf(target[h]) = Head(visible)
        BY <2>7, <2>8, <3>2 DEF SamePlace
      <4>2. OneScope(target[h])
        BY <1>0, <2>8, Scoped
      <4>3. scaleTargetKey(event, GroupOf(target[h])) \in IndexKeys(target[h])
        BY <1>0, <2>8, <4>1, <4>2, HomeKey DEF Reaches, WorldInv
      <4>4. key \in index[h]
        BY <2>4, <2>5, <2>8, <3>2, <4>1, <4>3
      <4> QED
        BY <1>1, <2>2, <2>4, <2>8, <4>4, TheOneMatch DEF Found
    <3> QED
      BY <2>4, <3>1, <3>2
  <2> QED
    BY <1>s, <2>2, <2>8 DEF Unrivalled
<1> QED
  BY <1>2, <1>3

\* For a push, pull_request or check_run event an HRA is scaled only if, among the HRAs that
\* are steady, no second trigger matches in the same repository or runner group, whatever is
\* done to the other HRAs while the handler is at work: "It must
\* be exactly one to avoid ambiguity" (horizontal_runner_autoscaler_webhook.go:436).
THEOREM ScaledTargetIsUnambiguous == Spec => []ExactlyOneTrigger
<1>1. Init => SearchInv /\ ExactlyOneTrigger
  BY SearchInvInit DEF ExactlyOneTrigger, Scaled, Pending
<1>2. SearchInv /\ ExactlyOneTrigger /\ [Next]_vars => (SearchInv /\ ExactlyOneTrigger)'
  BY SearchInvStep, TriggerStep
<1> QED
  BY <1>1, <1>2, PTL DEF Spec

---------------------------------------------------------------------------
(* Names of check runs.  The loop over the tokens of a pattern is a recursive *)
(* function; that it has a value is shown first.                              *)

\* The loop is as its definition says, after every number of rounds.
LEMMA LoopIs ==
    ASSUME NEW pat, NEW s
    PROVE  MatchLoop(pat, s)
             = [n \in Nat |-> IF n = 0
                              THEN [done |-> 0, s |-> s, head |-> FALSE, over |-> FALSE, panics |-> FALSE]
                              ELSE MatchToken(pat, MatchLoop(pat, s)[n - 1])]
<1> DEFINE start == [done |-> 0, s |-> s, head |-> FALSE, over |-> FALSE, panics |-> FALSE]
           Upto(h, m) == h = [n \in 0..m |-> IF n = 0 THEN start ELSE MatchToken(pat, h[n - 1])]
           Defined == {m \in Nat : \E h : Upto(h, m)}
           Same(h, g, m) == \A n \in 0..m : h[n] = g[n]
<1>1. \A m \in Nat : \E h : Upto(h, m)
  <2> SUFFICES ASSUME Nat \ Defined # {} PROVE FALSE
    OBVIOUS
  <2> DEFINE m == Min(Nat \ Defined)
  <2>1. m \in Nat \ Defined /\ \A x \in Nat \ Defined : m <= x
    <3> HIDE DEF Defined
    <3> QED
      BY MinIsLeast
  <2> HIDE DEF m
  <2>2. m # 0
    <3>1. Upto([n \in 0..0 |-> start], 0)
      OBVIOUS
    <3> QED
      BY <2>1, <3>1
  <2>3. m - 1 \in Defined
    <3>1. m - 1 \in Nat /\ ~(m <= m - 1)
      BY <2>1, <2>2
    <3> HIDE DEF Defined
    <3> QED
      BY <2>1, <3>1
  <2>4. PICK h : Upto(h, m - 1)
    BY <2>3
  <2> DEFINE g == [n \in 0..m |-> IF n = m THEN MatchToken(pat, h[m - 1]) ELSE h[n]]
  <2>5. ASSUME NEW n \in 0..m PROVE g[n] = IF n = 0 THEN start ELSE MatchToken(pat, g[n - 1])
    <3>1. CASE n = m
      <4>1. g[n] = MatchToken(pat, h[m - 1]) /\ g[n - 1] = h[m - 1]
        BY <2>1, <2>2, <3>1
      <4> QED
        BY <2>2, <3>1, <4>1
    <3>2. CASE n # m
      <4>1. n \in 0..m - 1 /\ g[n] = h[n] /\ (n # 0 => n - 1 \in 0..m /\ n - 1 # m)
        BY <2>1, <3>2
      <4>2. n # 0 => g[n - 1] = h[n - 1]
        BY <4>1
      <4>3. h[n] = IF n = 0 THEN start ELSE MatchToken(pat, h[n - 1])
        BY <2>4, <4>1
      <4> QED
        BY <4>1, <4>2, <4>3
    <3> QED
      BY <3>1, <3>2
  <2>6. Upto(g, m)
    <3> DEFINE e == [n \in 0..m |-> IF n = 0 THEN start ELSE MatchToken(pat, g[n - 1])]
    <3>1. \A n \in 0..m : g[n] = e[n]
      <4> HIDE DEF g
      <4> QED
        BY <2>5
    <3>2. g = e
      BY <3>1
    <3> QED
      BY <3>2
  <2> QED
    BY <2>1, <2>6
<1>2. ASSUME NEW m \in Nat, NEW k \in Nat, m <= k, NEW h, Upto(h, m), NEW g, Upto(g, k)
      PROVE  Same(h, g, m)
  <2> DEFINE Differ == {n \in 0..m : h[n] # g[n]}
  <2> SUFFICES ASSUME Differ # {} PROVE FALSE
    OBVIOUS
  <2> DEFINE d == Min(Differ)
  <2>1. d \in Differ /\ \A x \in Differ : d <= x
    <3>1. Differ \in SUBSET Nat
      OBVIOUS
    <3> HIDE DEF Differ
    <3> QED
      BY <3>1, MinIsLeast
  <2> HIDE DEF d
  <2>2. d \in 0..m /\ d \in 0..k
    BY <1>2, <2>1
  <2>3. /\ h[d] = IF d = 0 THEN start ELSE MatchToken(pat, h[d - 1])
        /\ g[d] = IF d = 0 THEN start ELSE MatchToken(pat, g[d - 1])
    BY <1>2, <2>2
  <2>4. CASE d = 0
    BY <2>1, <2>3, <2>4
  <2>5. CASE d # 0
    <3>1. d - 1 \in 0..m /\ ~(d <= d - 1)
      BY <2>2, <2>5
    <3>2. h[d - 1] = g[d - 1]
      BY <2>1, <3>1
    <3> QED
      BY <2>1, <2>3, <2>5, <3>2
  <2> QED
    BY <2>4, <2>5
<1> DEFINE part == [m \in Nat |-> CHOOSE h : Upto(h, m)]
           all == [n \in Nat |-> part[n][n]]
<1>3. \A m \in Nat : Upto(part[m], m)
  <2> SUFFICES ASSUME NEW m \in Nat PROVE Upto(part[m], m)
    OBVIOUS
  <2>1. \E h : Upto(h, m)
    BY <1>1
  <2>2. part[m] = CHOOSE h : Upto(h, m)
    OBVIOUS
  <2> HIDE DEF Upto, part
  <2> QED
    BY <2>1, <2>2
<1> HIDE DEF part
<1>4. ASSUME NEW n \in Nat PROVE all[n] = IF n = 0 THEN start ELSE MatchToken(pat, all[n - 1])
  <2>1. part[n][n] = IF n = 0 THEN start ELSE MatchToken(pat, part[n][n - 1])
    <3>1. Upto(part[n], n) /\ n \in 0..n
      BY <1>3
    <3> QED
      BY <3>1
  <2>2. CASE n = 0
    BY <2>1, <2>2
  <2>3. CASE n # 0
    <3>1. n - 1 \in Nat /\ n - 1 <= n /\ n - 1 \in 0..n - 1
      BY <2>3
    <3>2. Upto(part[n - 1], n - 1) /\ Upto(part[n], n)
      BY <1>3, <3>1
    <3>3. Same(part[n - 1], part[n], n - 1)
      <4> HIDE DEF Upto, Same
      <4> QED
        BY <1>2, <3>1, <3>2
    <3>4. part[n - 1][n - 1] = part[n][n - 1]
      BY <3>1, <3>3
    <3> QED
      BY <2>1, <2>3, <3>1, <3>4
  <2> QED
    BY <2>2, <2>3
<1>5. all = [n \in Nat |-> IF n = 0 THEN start ELSE MatchToken(pat, all[n - 1])]
  <2> DEFINE e == [n \in Nat |-> IF n = 0 THEN start ELSE MatchToken(pat, all[n - 1])]
  <2>1. \A n \in Nat : all[n] = e[n]
    <3> HIDE DEF all
    <3> QED
      BY <1>4
  <2>2. all = e
    BY <2>1
  <2> QED
    BY <2>2
<1> HIDE DEF all
<1>6. MatchLoop(pat, s) = CHOOSE f : f = [n \in Nat |-> IF n = 0 THEN start ELSE MatchToken(pat, f[n - 1])]
  BY DEF MatchLoop
<1> HIDE DEF start
<1>7. MatchLoop(pat, s) = [n \in Nat |-> IF n = 0 THEN start ELSE MatchToken(pat, MatchLoop(pat, s)[n - 1])]
  BY <1>5, <1>6
<1> QED
  BY <1>7 DEF start

\* After a star the name may go on.
LEMMA FitsLonger ==
    ASSUME NEW pat, NEW s, NEW i \in Nat \ {0}, NEW j \in Nat, NEW m \in Nat, j <= m,
           Fits(pat, s, i, j), pat[i] = Star
    PROVE  Fits(pat, s, i, m)
<1>1. PICK at \in [0..i -> 0..j] :
         /\ at[0] = 0 /\ at[i] = j
         /\ \A k \in 1..i : IF pat[k] = Star THEN at[k - 1] <= at[k]
                            ELSE at[k] = at[k - 1] + 1 /\ s[at[k]] = pat[k]
  BY DEF Fits
<1> DEFINE to == [k \in 0..i |-> IF k = i THEN m ELSE at[k]]
<1>2. to \in [0..i -> 0..m] /\ to[0] = 0 /\ to[i] = m
  BY <1>1
<1>3. ASSUME NEW k \in 1..i
      PROVE  IF pat[k] = Star THEN to[k - 1] <= to[k]
             ELSE to[k] = to[k - 1] + 1 /\ s[to[k]] = pat[k]
  <2>1. to[k - 1] = at[k - 1] /\ at[k - 1] \in 0..j
    BY <1>1, <1>3
  <2>2. CASE k = i
    BY <2>1, <2>2
  <2>3. CASE k # i
    <3>1. to[k] = at[k]
      BY <2>3
    <3> QED
      BY <1>1, <2>1, <3>1
  <2> QED
    BY <2>2, <2>3
<1> HIDE DEF to
<1> QED
  BY <1>2, <1>3 DEF Fits

\* A star fits nothing.
LEMMA FitsStar ==
    ASSUME NEW pat, NEW s, NEW i \in Nat, NEW j \in Nat, Fits(pat, s, i, j), pat[i + 1] = Star
    PROVE  Fits(pat, s, i + 1, j)
<1>1. PICK at \in [0..i -> 0..j] :
         /\ at[0] = 0 /\ at[i] = j
         /\ \A k \in 1..i : IF pat[k] = Star THEN at[k - 1] <= at[k]
                            ELSE at[k] = at[k - 1] + 1 /\ s[at[k]] = pat[k]
  BY DEF Fits
<1> DEFINE to == [k \in 0..i + 1 |-> IF k = i + 1 THEN j ELSE at[k]]
<1>2. to \in [0..i + 1 -> 0..j] /\ to[0] = 0 /\ to[i + 1] = j
  BY <1>1
<1>3. ASSUME NEW k \in 1..i + 1
      PROVE  IF pat[k] = Star THEN to[k - 1] <= to[k]
             ELSE to[k] = to[k - 1] + 1 /\ s[to[k]] = pat[k]
  <2>1. to[k - 1] = at[k - 1] /\ at[k - 1] \in 0..j
    BY <1>1, <1>3
  <2>2. CASE k = i + 1
    BY <2>1, <2>2
  <2>3. CASE k # i + 1
    <3>1. to[k] = at[k] /\ k \in 1..i
      BY <2>3
    <3> QED
      BY <1>1, <2>1, <3>1
  <2> QED
    BY <2>2, <2>3
<1> HIDE DEF to
<1> QED
  BY <1>2, <1>3 DEF Fits

\* Characters that are no stars fit themselves.
LEMMA FitsText ==
    ASSUME NEW pat, NEW s, NEW i \in Nat, NEW j \in Nat, NEW m \in Nat, Fits(pat, s, i, j),
           \A x \in 1..m : pat[i + x] # Star /\ s[j + x] = pat[i + x]
    PROVE  Fits(pat, s, i + m, j + m)
<1>1. PICK at \in [0..i -> 0..j] :
         /\ at[0] = 0 /\ at[i] = j
         /\ \A k \in 1..i : IF pat[k] = Star THEN at[k - 1] <= at[k]
                            ELSE at[k] = at[k - 1] + 1 /\ s[at[k]] = pat[k]
  BY DEF Fits
<1> DEFINE to == [k \in 0..i + m |-> IF k <= i THEN at[k] ELSE j + (k - i)]
<1>2. to \in [0..i + m -> 0..j + m] /\ to[0] = 0 /\ to[i + m] = j + m
  BY <1>1
<1>3. ASSUME NEW k \in 1..i + m
      PROVE  IF pat[k] = Star THEN to[k - 1] <= to[k]
             ELSE to[k] = to[k - 1] + 1 /\ s[to[k]] = pat[k]
  <2>1. CASE k <= i
    <3>1. to[k] = at[k] /\ to[k - 1] = at[k - 1] /\ k \in 1..i
      BY <2>1
    <3> QED
      BY <1>1, <3>1
  <2>2. CASE k > i
    <3>1. to[k] = j + (k - i) /\ to[k - 1] = j + (k - 1 - i)
      BY <1>1, <2>2
    <3>2. k - i \in 1..m /\ i + (k - i) = k
      BY <2>2
    <3>3. pat[k] # Star /\ s[j + (k - i)] = pat[k]
      BY <3>2
    <3> QED
      BY <3>1, <3>3
  <2> QED
    BY <2>1, <2>2
<1> HIDE DEF to
<1> QED
  BY <1>2, <1>3 DEF Fits

\* A token ends with the first star that follows, or with the pattern.
LEMMA TokenIs ==
    ASSUME NEW pat \in Seq(STRING), NEW i \in 0..Len(pat), NEW end \in {TokenEnd(pat, i)},
           NEW last \in {\A k \in i + 1..Len(pat) : pat[k] # Star}
    PROVE  /\ end \in i..Len(pat)
           /\ i < Len(pat) => i < end
           /\ \A k \in i + 1..end - 1 : pat[k] # Star
           /\ last => end = Len(pat) /\ \A k \in i + 1..end : pat[k] # Star
           /\ ~last => i < end /\ pat[end] = Star
<1> DEFINE S == {k \in i + 1..Len(pat) : pat[k] = Star} \union {Len(pat)}
<1>0. Len(pat) \in Nat
  OBVIOUS
<1>1. S \in SUBSET Nat /\ S # {}
  BY <1>0
<1>2. end \in S /\ \A x \in S : end <= x
  <2>1. end = Min(S)
    BY DEF TokenEnd
  <2> HIDE DEF S
  <2> QED
    BY <1>1, <2>1, MinIsLeast
<1>3. end \in i..Len(pat) /\ (i < Len(pat) => i < end)
  BY <1>0, <1>2
<1>4. ASSUME NEW k \in i + 1..end - 1 PROVE pat[k] # Star
  <2>1. k \in i + 1..Len(pat) /\ ~(end <= k)
    BY <1>0, <1>3
  <2> QED
    BY <1>2, <2>1
<1>5. ASSUME last PROVE end = Len(pat) /\ \A k \in i + 1..end : pat[k] # Star
  BY <1>2, <1>5
<1>6. ASSUME ~last PROVE i < end /\ pat[end] = Star
  <2>1. PICK k \in i + 1..Len(pat) : pat[k] = Star
    BY <1>6
  <2>2. end <= k
    BY <1>2, <2>1
  <2>3. CASE end = Len(pat)
    BY <1>0, <2>1, <2>2, <2>3
  <2>4. CASE end # Len(pat)
    BY <1>2, <2>4
  <2> QED
    BY <2>3, <2>4
<1> QED
  BY <1>3, <1>4, <1>5, <1>6

\* What holds after n rounds.  Unless the loop has ended, what is done of the pattern fits
\* what is done of the name, and ends with a star; each round takes up one character at least.
States(pat) == [done : 0..Len(pat), s : Seq(STRING), head : BOOLEAN, over : BOOLEAN, panics : BOOLEAN]

Rest(s, j, t) == Len(t) = Len(s) - j /\ \A x \in 1..Len(t) : t[x] = s[j + x]

RoundInv(pat, s, n, acc) ==
    /\ acc \in States(pat)
    /\ ~ acc.over => /\ n <= acc.done
                     /\ \E j \in 0..Len(s) : Rest(s, j, acc.s) /\ Fits(pat, s, acc.done, j)
                     /\ acc.head => acc.done > 0
                     /\ acc.done > 0 => pat[acc.done] = Star
    /\ acc.over /\ ~ acc.panics /\ acc.s = <<>> => Matches(pat, s)

\* A place in a part of a sequence, but for its last, is one in the sequence.
LEMMA Shifted ==
    ASSUME NEW e \in Nat, NEW f \in Nat, NEW k \in Nat, NEW x \in Nat \ {0},
           x <= k - 1, k = e - f
    PROVE  x \in 1..k /\ f + x \in f + 1..e - 1
<1>1. f + x <= e - 1
  OBVIOUS
<1> QED
  BY <1>1

\* A piece of a string.
LEMMA PieceIs ==
    ASSUME NEW t \in Seq(STRING), NEW a \in 1..Len(t) + 1, NEW b \in a - 1..Len(t),
           NEW u \in {SubSeq(t, a, b)}
    PROVE  /\ u \in Seq(STRING) /\ Len(u) = b - a + 1
           /\ \A x \in 1..Len(u) : u[x] = t[a + x - 1]
<1>1. a \in Int /\ b \in Int /\ Len(t) \in Nat /\ u = SubSeq(t, a, b)
  OBVIOUS
<1>2. \A x \in a..b : t[x] \in STRING
  <2> SUFFICES ASSUME NEW x \in a..b PROVE t[x] \in STRING
    OBVIOUS
  <2>1. x \in 1..Len(t)
    BY <1>1
  <2> QED
    BY <2>1
<1>3. /\ u \in Seq(STRING)
      /\ Len(u) = IF a <= b THEN b - a + 1 ELSE 0
      /\ \A x \in 1..b - a + 1 : u[x] = t[a + x - 1]
  BY <1>1, <1>2, SubSeqProperties
<1>4. Len(u) = b - a + 1
  BY <1>1, <1>3
<1> QED
  BY <1>3, <1>4

\* The part of the name at an occurrence of p, and what follows it.
LEMMA OccurrenceIs ==
    ASSUME NEW t \in Seq(STRING), NEW p \in Seq(STRING), NEW k \in Occurrences(t, p),
           NEW rest_ \in {SubSeq(t, k + Len(p), Len(t))}
    PROVE  /\ k \in 1..Len(t) - Len(p) + 1
           /\ \A x \in 1..Len(p) : t[k - 1 + x] = p[x]
           /\ rest_ \in Seq(STRING) /\ Len(rest_) = Len(t) - Len(p) - k + 1
           /\ \A x \in 1..Len(rest_) : rest_[x] = t[k - 1 + Len(p) + x]
<1>0. Len(t) \in Nat /\ Len(p) \in Nat
  OBVIOUS
<1>1. k \in 1..Len(t) - Len(p) + 1 /\ SubSeq(t, k, k + Len(p) - 1) = p
  BY DEF Occurrences
<1>2. ASSUME NEW x \in 1..Len(p) PROVE t[k - 1 + x] = p[x]
  <2>1. SubSeq(t, k, k + Len(p) - 1)[x] = t[k + x - 1]
    BY <1>0, <1>1
  <2> QED
    BY <1>0, <1>1, <2>1
<1> DEFINE a == k + Len(p)
<1>3. a \in 1..Len(t) + 1 /\ Len(t) \in a - 1..Len(t) /\ a \in Nat
  BY <1>0, <1>1
<1>4. /\ rest_ \in Seq(STRING) /\ Len(rest_) = Len(t) - a + 1
      /\ \A x \in 1..Len(rest_) : rest_[x] = t[a + x - 1]
  <2>1. rest_ \in {SubSeq(t, a, Len(t))}
    OBVIOUS
  <2> HIDE DEF a
  <2> QED
    BY <1>3, <2>1, PieceIs
<1>5. Len(rest_) = Len(t) - Len(p) - k + 1
  BY <1>0, <1>1, <1>4
<1>6. ASSUME NEW x \in 1..Len(rest_) PROVE rest_[x] = t[k - 1 + Len(p) + x]
  <2>1. a + x - 1 = k - 1 + Len(p) + x
    BY <1>0, <1>1, <1>4
  <2> HIDE DEF a
  <2> QED
    BY <1>4, <2>1
<1> QED
  BY <1>1, <1>2, <1>4, <1>5, <1>6

LEMMA RoundStep ==
    ASSUME NEW pat \in Seq(STRING), pat # <<>>, NEW s \in Seq(STRING), NEW n \in Nat,
           NEW acc, RoundInv(pat, s, n, acc)
    PROVE  RoundInv(pat, s, n + 1, MatchToken(pat, acc))
<1>0. /\ acc \in States(pat) /\ acc.done \in 0..Len(pat) /\ acc.s \in Seq(STRING)
      /\ acc.over \in BOOLEAN /\ acc.head \in BOOLEAN /\ acc.panics \in BOOLEAN
      /\ Len(pat) \in Nat \ {0} /\ Len(s) \in Nat /\ Len(acc.s) \in Nat
  BY DEF RoundInv, States
<1>1. CASE acc.over
  <2>1. MatchToken(pat, acc) = acc
    BY <1>1 DEF MatchToken
  <2> QED
    BY <1>1, <2>1 DEF RoundInv
<1>2. CASE ~ acc.over
  <2> DEFINE end   == TokenEnd(pat, acc.done)
             token == SubSeq(pat, acc.done + 1, end)
             last  == \A k \in acc.done + 1..Len(pat) : pat[k] # Star
             tail  == Last(token) = Star
             p     == IF tail THEN Front(token) ELSE token
             at    == Occurrences(acc.s, p)
             left  == SubSeq(acc.s, Min(at) + Len(p), Len(acc.s))
             next  == MatchToken(pat, acc)
  <2>1. PICK j \in 0..Len(s) : Rest(s, j, acc.s) /\ Fits(pat, s, acc.done, j)
    BY <1>2 DEF RoundInv
  <2>2. /\ n <= acc.done
        /\ acc.head => acc.done > 0
        /\ acc.done > 0 => pat[acc.done] = Star
    BY <1>2 DEF RoundInv
  <2>3. /\ end \in acc.done..Len(pat)
        /\ acc.done < Len(pat) => acc.done < end
        /\ \A k \in acc.done + 1..end - 1 : pat[k] # Star
        /\ last => end = Len(pat) /\ \A k \in acc.done + 1..end : pat[k] # Star
        /\ ~last => acc.done < end /\ pat[end] = Star
    <3> HIDE DEF end, last
    <3> QED
      BY <1>0, TokenIs DEF end, last
  <2>4. next = IF token = <<>> \/ (token = <<Star>> /\ last)
               THEN [acc EXCEPT !.s = <<>>, !.over = TRUE]
               ELSE IF token = <<Star>> THEN [acc EXCEPT !.done = end, !.head = TRUE]
               ELSE IF at = {}
               THEN [acc EXCEPT !.over = TRUE, !.panics = acc.head \/ acc.s = <<>>]
               ELSE IF (Min(at) > 1 /\ ~ acc.head) \/ (left # <<>> /\ ~ tail)
               THEN [acc EXCEPT !.over = TRUE]
               ELSE [acc EXCEPT !.done = end, !.s = left, !.head = tail, !.over = last]
    <3> DEFINE tok == token = <<>> \/ (token = <<Star>> /\ last)
               star == token = <<Star>>
               none == at = {}
               miss == (Min(at) > 1 /\ ~ acc.head) \/ (left # <<>> /\ ~ tail)
               r1 == [acc EXCEPT !.s = <<>>, !.over = TRUE]
               r2 == [acc EXCEPT !.done = end, !.head = TRUE]
               r3 == [acc EXCEPT !.over = TRUE, !.panics = acc.head \/ acc.s = <<>>]
               r4 == [acc EXCEPT !.over = TRUE]
               r5 == [acc EXCEPT !.done = end, !.s = left, !.head = tail, !.over = last]
    <3>1. next = CASE acc.over -> acc
                   [] ~ acc.over /\ tok -> r1
                   [] ~ acc.over /\ star /\ ~last -> r2
                   [] OTHER -> IF none THEN r3 ELSE IF miss THEN r4 ELSE r5
      BY DEF MatchToken
    <3>2. (star /\ last => tok) /\ ~(tok /\ star /\ ~last)
      <4>1. <<Star>> # <<>>
        OBVIOUS
      <4> HIDE DEF token, last
      <4> QED
        BY <4>1
    <3> HIDE DEF tok, star, none, miss, r1, r2, r3, r4, r5, last, next
    <3>3. next = IF tok THEN r1 ELSE IF star THEN r2 ELSE IF none THEN r3 ELSE IF miss THEN r4 ELSE r5
      <4>1. CASE tok
        BY <1>2, <3>1, <3>2, <4>1
      <4>2. CASE ~tok /\ star
        BY <1>2, <3>1, <3>2, <4>2
      <4>3. CASE ~tok /\ ~star
        BY <1>2, <3>1, <4>3
      <4> QED
        BY <4>1, <4>2, <4>3
    <3> QED
      BY <3>3 DEF tok, star, none, miss, r1, r2, r3, r4, r5
  <2> HIDE DEF end, last, next
  <2>5. /\ token \in Seq(STRING) /\ Len(token) = end - acc.done
        /\ \A x \in 1..Len(token) : token[x] = pat[acc.done + x]
    <3> DEFINE a == acc.done + 1
    <3>1. a \in 1..Len(pat) + 1 /\ end \in a - 1..Len(pat) /\ acc.done \in Nat /\ a \in Nat
      BY <1>0, <2>3
    <3>2. token \in {SubSeq(pat, a, end)}
      OBVIOUS
    <3>3. /\ token \in Seq(STRING) /\ Len(token) = end - a + 1
          /\ \A x \in 1..Len(token) : token[x] = pat[a + x - 1]
      <4> HIDE DEF a, token
      <4> QED
        BY <3>1, <3>2, PieceIs
    <3>4. end - a + 1 = end - acc.done /\ \A x \in 1..Len(token) : a + x - 1 = acc.done + x
      <4>1. end \in Int /\ a = acc.done + 1 /\ acc.done \in Int
        BY <3>1
      <4> HIDE DEF token, a
      <4>2. end - a + 1 = end - acc.done
        BY <4>1
      <4>3. ASSUME NEW x \in 1..Len(token) PROVE a + x - 1 = acc.done + x
        BY <4>1
      <4> QED
        BY <4>2, <4>3
    <3> HIDE DEF a, token
    <3> QED
      BY <3>3, <3>4
  <2>q. last \in BOOLEAN /\ end \in 0..Len(pat) /\ acc.done \in Nat /\ end \in Nat
    <3>1. last \in BOOLEAN
      BY DEF last
    <3> QED
      BY <1>0, <2>3, <3>1
  <2> HIDE DEF token
  <2>l. Len(token) = end - acc.done
    BY <2>5
  <2>6. CASE token = <<>> \/ (token = <<Star>> /\ last)
    <3>1. token = <<>>
      <4> SUFFICES ASSUME token = <<Star>>, last PROVE FALSE
        BY <2>6
      <4>1. Len(token) = 1 /\ token[1] = Star
        OBVIOUS
      <4>2. pat[acc.done + 1] = Star /\ acc.done + 1 = end
        BY <1>0, <2>3, <2>5, <4>1
      <4> QED
        BY <1>0, <2>3, <4>2
    <3>2. acc.done = Len(pat) /\ acc.done > 0
      BY <1>0, <2>3, <2>5, <3>1
    <3>3. Fits(pat, s, Len(pat), Len(s))
      BY <1>0, <2>1, <2>2, <3>2, FitsLonger
    <3>4. next = [acc EXCEPT !.s = <<>>, !.over = TRUE]
      BY <2>4, <2>6
    <3>5. next \in States(pat) /\ next.over
      <4>1. <<>> \in Seq(STRING)
        OBVIOUS
      <4> QED
        BY <1>0, <3>4, <4>1 DEF States
    <3> QED
      BY <3>3, <3>5 DEF RoundInv, Matches, next
  <2>7. CASE token = <<Star>> /\ ~last
    <3>1. Len(token) = 1 /\ token[1] = Star
      BY <2>7
    <3>2. end = acc.done + 1 /\ pat[acc.done + 1] = Star
      <4>1. end = acc.done + 1
        BY <2>l, <2>q, <3>1
      <4>2. token[1] = pat[acc.done + 1]
        BY <2>5, <3>1
      <4> QED
        BY <3>1, <4>1, <4>2
    <3>3. Fits(pat, s, end, j)
      BY <1>0, <2>1, <3>2, FitsStar
    <3>4. next = [acc EXCEPT !.done = end, !.head = TRUE]
      BY <2>4, <2>7
    <3>5. next \in States(pat) /\ next.done = end /\ next.s = acc.s /\ ~next.over
      BY <1>0, <1>2, <2>q, <3>4 DEF States
    <3>6. n + 1 <= end /\ end > 0
      BY <1>0, <2>2, <3>2
    <3> QED
      BY <2>1, <3>2, <3>3, <3>5, <3>6 DEF RoundInv, next
  <2>8. CASE token # <<>> /\ token # <<Star>>
    <3>1. Len(token) \in Nat \ {0} /\ acc.done < end
      BY <1>0, <2>3, <2>5, <2>8
    <3>2. Last(token) = pat[end]
      <4>1. Len(token) \in 1..Len(token) /\ acc.done + Len(token) = end
        BY <2>5, <2>q, <3>1
      <4>2. token[Len(token)] = pat[acc.done + Len(token)]
        BY <2>5, <4>1
      <4> QED
        BY <4>1, <4>2 DEF Last
    <3>3. tail <=> ~last
      <4>1. last => pat[end] # Star
        <5> SUFFICES ASSUME last PROVE pat[end] # Star
          OBVIOUS
        <5>1. end \in acc.done + 1..end
          BY <2>q, <3>1
        <5> QED
          BY <2>3, <5>1
      <4>2. ~last => pat[end] = Star
        BY <2>3
      <4> QED
        BY <2>q, <3>2, <4>1, <4>2
    <3>4. /\ p \in Seq(STRING)
          /\ Len(p) = IF tail THEN end - acc.done - 1 ELSE end - acc.done
          /\ \A x \in 1..Len(p) : p[x] = pat[acc.done + x] /\ pat[acc.done + x] # Star
      <4>1. CASE tail
        <5>1. p = SubSeq(token, 1, Len(token) - 1)
          BY <4>1 DEF Front
        <5>2. p \in Seq(STRING) /\ Len(p) = Len(token) - 1 /\ \A x \in 1..Len(p) : p[x] = token[x]
          <6>1. 1 \in 1..Len(token) + 1 /\ Len(token) - 1 \in 1 - 1..Len(token)
            BY <3>1
          <6>2. /\ p \in Seq(STRING) /\ Len(p) = Len(token) - 1 - 1 + 1
                /\ \A x \in 1..Len(p) : p[x] = token[1 + x - 1]
            <7>1. p \in {SubSeq(token, 1, Len(token) - 1)}
              BY <5>1
            <7> HIDE DEF p
            <7> QED
              BY <2>5, <6>1, <7>1, PieceIs
          <6> HIDE DEF p
          <6>3. Len(token) - 1 - 1 + 1 = Len(token) - 1 /\ \A x \in 1..Len(p) : 1 + x - 1 = x
            BY <3>1, <6>2
          <6> QED
            BY <6>2, <6>3
        <5>3. \A x \in 1..Len(p) : x \in 1..Len(token) /\ acc.done + x \in acc.done + 1..end - 1
          <6> HIDE DEF p
          <6> SUFFICES ASSUME NEW x \in 1..Len(p)
                       PROVE  x \in 1..Len(token) /\ acc.done + x \in acc.done + 1..end - 1
            OBVIOUS
          <6>1. Len(p) = Len(token) - 1
            BY <5>2
          <6>2. x \in Nat \ {0} /\ x <= Len(token) - 1 /\ Len(token) \in Nat
            BY <3>1, <6>1
          <6> QED
            BY <2>l, <2>q, <6>2, Shifted
        <5> QED
          BY <2>3, <2>5, <4>1, <5>2, <5>3
      <4>2. CASE ~tail
        <5>1. p = token /\ last
          BY <3>3, <4>2
        <5>2. \A x \in 1..Len(p) : acc.done + x \in acc.done + 1..end
          BY <1>0, <2>3, <2>5, <5>1
        <5> QED
          BY <2>3, <2>5, <4>2, <5>1, <5>2
      <4> QED
        BY <4>1, <4>2
    <3>t. tail \in BOOLEAN
      OBVIOUS
    <3> HIDE DEF p, tail
    <3>5. CASE at = {}
      <4>1. next = [acc EXCEPT !.over = TRUE, !.panics = acc.head \/ acc.s = <<>>]
        BY <2>4, <2>8, <3>5
      <4>2. next \in States(pat) /\ next.over /\ (acc.s = <<>> => next.panics) /\ next.s = acc.s
        BY <1>0, <4>1 DEF States
      <4> QED
        BY <4>2 DEF RoundInv, next
    <3>6. CASE at # {}
      <4> DEFINE k == Min(at)
      <4>1. k \in at
        <5>1. at \in SUBSET Nat
          BY DEF Occurrences
        <5> HIDE DEF at
        <5> QED
          BY <3>6, <5>1, MinIsLeast
      <4>2. /\ k \in 1..Len(acc.s) - Len(p) + 1
            /\ \A x \in 1..Len(p) : acc.s[k - 1 + x] = p[x]
            /\ left \in Seq(STRING) /\ Len(left) = Len(acc.s) - Len(p) - k + 1
            /\ \A x \in 1..Len(left) : left[x] = acc.s[k - 1 + Len(p) + x]
        <5> HIDE DEF k
        <5> QED
          BY <1>0, <3>4, <4>1, OccurrenceIs DEF k
      <4>l. Len(p) \in Nat
        BY <3>4
      <4> HIDE DEF at, left, k
      <4>3. CASE (k > 1 /\ ~ acc.head) \/ (left # <<>> /\ ~ tail)
        <5>1. next = [acc EXCEPT !.over = TRUE]
          BY <2>4, <2>8, <3>6, <4>3 DEF k
        <5>2. acc.s # <<>>
          <6>1. left # <<>> => Len(left) > 0
            BY <4>2
          <6>2. Len(acc.s) > 0
            BY <1>0, <4>2, <4>3, <4>l, <6>1
          <6> QED
            BY <6>2
        <5>3. next \in States(pat) /\ next.over /\ next.s = acc.s
          BY <1>0, <5>1 DEF States
        <5> QED
          BY <5>2, <5>3 DEF RoundInv, next
      <4>4. CASE ~ ((k > 1 /\ ~ acc.head) \/ (left # <<>> /\ ~ tail))
        <5>1. next = [acc EXCEPT !.done = end, !.s = left, !.head = tail, !.over = last]
          BY <2>4, <2>8, <3>6, <4>4 DEF k
        <5> DEFINE b == j + (k - 1)
                   e == b + Len(p)
        <5>2. /\ b \in Nat /\ j <= b /\ e \in 0..Len(s)
              /\ Len(acc.s) = Len(s) - j
              /\ \A x \in 1..Len(acc.s) : acc.s[x] = s[j + x]
          BY <1>0, <2>1, <4>2, <4>l DEF Rest
        <5>3. Fits(pat, s, acc.done, b)
          <6>1. CASE k = 1
            BY <2>1, <6>1
          <6>2. CASE k # 1
            <7>1. acc.done \in Nat \ {0} /\ pat[acc.done] = Star
              BY <1>0, <2>2, <4>2, <4>4, <6>2
            <7> HIDE DEF b
            <7> QED
              BY <2>1, <5>2, <7>1, FitsLonger
          <6> QED
            BY <6>1, <6>2
        <5>4. \A x \in 1..Len(p) : pat[acc.done + x] # Star /\ s[b + x] = pat[acc.done + x]
          <6> SUFFICES ASSUME NEW x \in 1..Len(p) PROVE s[b + x] = pat[acc.done + x]
            BY <3>4
          <6>1. k - 1 + x \in 1..Len(acc.s) /\ j + (k - 1 + x) = b + x
            BY <1>0, <4>2, <4>l
          <6>2. acc.s[k - 1 + x] = s[j + (k - 1 + x)]
            BY <5>2, <6>1
          <6> QED
            BY <3>4, <4>2, <6>1, <6>2
        <5>5. Fits(pat, s, acc.done + Len(p), e)
          <6> HIDE DEF b
          <6> QED
            BY <2>q, <4>l, <5>2, <5>3, <5>4, FitsText
        <5>6. Fits(pat, s, end, e)
          <6>1. CASE tail
            <7>1. end = acc.done + Len(p) + 1 /\ pat[acc.done + Len(p) + 1] = Star
              <8>1. Len(p) = end - acc.done - 1
                BY <3>4, <6>1
              <8>2. end = acc.done + Len(p) + 1
                BY <2>q, <4>l, <8>1
              <8>3. pat[end] = Star
                BY <2>3, <3>3, <6>1
              <8> QED
                BY <8>2, <8>3
            <7>2. acc.done + Len(p) \in Nat /\ e \in Nat
              BY <1>0, <4>l, <5>2
            <7> HIDE DEF e
            <7> QED
              BY <5>5, <7>1, <7>2, FitsStar
          <6>2. CASE ~tail
            <7>1. end = acc.done + Len(p)
              BY <1>0, <2>3, <3>4, <6>2
            <7> QED
              BY <5>5, <7>1
          <6> QED
            BY <6>1, <6>2
        <5>7. Rest(s, e, left)
          <6>1. Len(left) = Len(s) - e
            BY <1>0, <4>2, <4>l, <5>2
          <6>2. ASSUME NEW x \in 1..Len(left) PROVE left[x] = s[e + x]
            <7>1. k - 1 + Len(p) + x \in 1..Len(acc.s) /\ j + (k - 1 + Len(p) + x) = e + x
              <8>1. k \in Nat \ {0} /\ j \in Nat /\ x \in Nat \ {0} /\ Len(acc.s) \in Nat
                BY <1>0, <4>2, <6>1
              <8>2. x <= Len(acc.s) - Len(p) - k + 1
                BY <1>0, <4>2, <4>l
              <8> QED
                BY <4>l, <8>1, <8>2
            <7>2. acc.s[k - 1 + Len(p) + x] = s[j + (k - 1 + Len(p) + x)]
              BY <5>2, <7>1
            <7> QED
              BY <4>2, <7>1, <7>2
          <6> QED
            BY <6>1, <6>2 DEF Rest
        <5> HIDE DEF e
        <5>8. /\ next \in States(pat) /\ next.done = end /\ next.s = left /\ next.head = tail
              /\ next.over = last
          <6>1. left \in Seq(STRING)
            BY <4>2
          <6> QED
            BY <1>0, <2>q, <3>t, <5>1, <6>1 DEF States
        <5>9. CASE last
          <6>1. left = <<>> /\ end = Len(pat)
            BY <2>3, <3>3, <4>4, <5>9
          <6>2. e = Len(s)
            <7>1. Len(left) = 0
              BY <6>1
            <7> QED
              BY <1>0, <5>2, <5>7, <7>1 DEF Rest
          <6>3. Matches(pat, s)
            BY <5>6, <6>1, <6>2 DEF Matches
          <6> QED
            BY <5>8, <5>9, <6>3 DEF RoundInv, next
        <5>10. CASE ~last
          <6>1. pat[end] = Star /\ end > 0 /\ n + 1 <= end
            BY <1>0, <2>2, <2>3, <3>1, <5>10
          <6>2. \E i \in 0..Len(s) : Rest(s, i, next.s) /\ Fits(pat, s, next.done, i)
            BY <5>2, <5>6, <5>7, <5>8
          <6> QED
            BY <5>8, <5>10, <6>1, <6>2 DEF RoundInv, next
        <5> QED
          BY <5>9, <5>10
      <4> QED
        BY <4>3, <4>4
    <3> QED
      BY <3>5, <3>6
  <2> QED
    BY <2>6, <2>7, <2>8
<1> QED
  BY <1>1, <1>2

\* After every number of rounds.
LEMMA RoundInvHolds ==
    ASSUME NEW pat \in Seq(STRING), pat # <<>>, NEW s \in Seq(STRING), NEW n \in Nat
    PROVE  RoundInv(pat, s, n, MatchLoop(pat, s)[n])
<1> DEFINE Broken == {k \in Nat : ~ RoundInv(pat, s, k, MatchLoop(pat, s)[k])}
           start == [done |-> 0, s |-> s, head |-> FALSE, over |-> FALSE, panics |-> FALSE]
<1> SUFFICES ASSUME Broken # {} PROVE FALSE
  OBVIOUS
<1> DEFINE m == Min(Broken)
<1>1. m \in Broken /\ \A x \in Broken : m <= x
  <2>1. Broken \in SUBSET Nat
    OBVIOUS
  <2> HIDE DEF Broken
  <2> QED
    BY <2>1, MinIsLeast
<1> HIDE DEF m
<1>2. m \in Nat /\ ~ RoundInv(pat, s, m, MatchLoop(pat, s)[m])
  BY <1>1
<1>3. MatchLoop(pat, s)[m] = IF m = 0 THEN start ELSE MatchToken(pat, MatchLoop(pat, s)[m - 1])
  <2> DEFINE loop == MatchLoop(pat, s)
  <2>1. loop = [k \in Nat |-> IF k = 0 THEN start ELSE MatchToken(pat, loop[k - 1])]
    BY LoopIs
  <2> HIDE DEF loop, start
  <2>2. loop[m] = IF m = 0 THEN start ELSE MatchToken(pat, loop[m - 1])
    BY <1>2, <2>1
  <2> QED
    BY <2>2 DEF loop
<1>4. CASE m = 0
  <2>1. MatchLoop(pat, s)[m] = start
    BY <1>3, <1>4
  <2>2. start \in States(pat) /\ ~ start.over /\ start.done = 0 /\ ~ start.head /\ start.s = s
    BY DEF States
  <2>3. Rest(s, 0, s) /\ 0 \in 0..Len(s)
    BY DEF Rest
  <2>4. Fits(pat, s, 0, 0)
    <3> DEFINE at == [k \in 0..0 |-> 0]
    <3>1. at \in [0..0 -> 0..0] /\ at[0] = 0
      OBVIOUS
    <3>2. \A k \in 1..0 : FALSE
      OBVIOUS
    <3> HIDE DEF at
    <3> QED
      BY <3>1, <3>2 DEF Fits
  <2> HIDE DEF start
  <2>5. RoundInv(pat, s, m, start)
    BY <1>4, <2>2, <2>3, <2>4 DEF RoundInv
  <2> QED
    BY <1>2, <2>1, <2>5
<1>5. CASE m # 0
  <2>1. m - 1 \in Nat /\ ~ (m <= m - 1) /\ m - 1 + 1 = m
    BY <1>2, <1>5
  <2>2. RoundInv(pat, s, m - 1, MatchLoop(pat, s)[m - 1])
    BY <1>1, <2>1
  <2>3. RoundInv(pat, s, m - 1 + 1, MatchToken(pat, MatchLoop(pat, s)[m - 1]))
    BY <2>1, <2>2, RoundStep
  <2> QED
    BY <1>2, <1>3, <1>5, <2>1, <2>3
<1> QED
  BY <1>4, <1>5

\* Whatever the pattern and the name: a name that a pattern is found to match is one that fits
\* the pattern (pkg/actionsglob).  Negated patterns are left out.
LEMMA MatchIsSound ==
    ASSUME NEW pat \in Seq(STRING), pat[1] # Bang, NEW s \in Seq(STRING), Match(pat, s) = Yes
    PROVE  Matches(pat, s)
<1> DEFINE result == MatchLoop(pat, s)[Len(pat) + 1]
<1>1. pat # <<>> /\ ~ result.panics /\ result.s = <<>>
  BY DEF Match, Yes, No, Panics
<1>2. Len(pat) \in Nat /\ Len(pat) + 1 \in Nat
  OBVIOUS
<1>3. RoundInv(pat, s, Len(pat) + 1, result)
  BY <1>1, <1>2, RoundInvHolds
<1> HIDE DEF result
<1>4. result.over
  <2> SUFFICES ASSUME ~ result.over PROVE FALSE
    OBVIOUS
  <2>1. Len(pat) + 1 <= result.done /\ result.done \in 0..Len(pat)
    BY <1>3 DEF RoundInv, States
  <2> QED
    BY <1>2, <2>1
<1> QED
  BY <1>1, <1>3, <1>4 DEF RoundInv

\* The trigger is one for check_run events, and its names let the name of the event pass.
Accepts(t) ==
    /\ t.event = "check_run"
    /\ \/ t.names = <<>>
       \/ \E k \in DOMAIN t.names : t.names[k][1] = Bang \/ Matches(t.names[k], event.name)

LEMMA NamesAccept ==
    ASSUME NEW t, t.names \in Seq(Seq(STRING)), event.name \in Seq(STRING),
           event.kind = "check_run", MatchTrigger(t, event) = Yes
    PROVE  Accepts(t)
<1>1. t.event = "check_run" /\ MatchCheckRunEvent(t, event) = Yes
  <2>1. t.event = event.kind
    BY DEF MatchTrigger, Yes, No
  <2> QED
    BY <2>1 DEF MatchTrigger, Yes, No
<1>2. SUFFICES ASSUME t.names # <<>>
               PROVE  \E k \in DOMAIN t.names : t.names[k][1] = Bang \/ Matches(t.names[k], event.name)
  BY <1>1 DEF Accepts
<1> DEFINE decisive == {i \in DOMAIN t.names : Match(t.names[i], event.name) # No}
           d == Min(decisive)
<1>3. MatchNames(t.names, event.name) = Yes
  BY <1>1, <1>2 DEF MatchCheckRunEvent, Yes, No
<1>4. decisive # {} /\ Match(t.names[d], event.name) = Yes
  BY <1>3 DEF MatchNames, Yes, No
<1>5. decisive \in SUBSET Nat
  OBVIOUS
<1>6. d \in decisive
  <2> HIDE DEF decisive
  <2> QED
    BY <1>4, <1>5, MinIsLeast
<1>7. d \in DOMAIN t.names
  BY <1>6
<1> HIDE DEF d
<1>8. t.names[d] \in Seq(STRING)
  BY <1>7, ElementOfSeq
<1> QED
  BY <1>4, <1>7, <1>8, MatchIsSound

\* Names and patterns are strings, and an HRA that a check run scales has a trigger for it.
NamesInv ==
    /\ event.name \in Seq(STRING)
    /\ \A h \in Hras : \A i \in DOMAIN triggers[h] : triggers[h][i].names \in Seq(Seq(STRING))
    /\ event.kind = "check_run" /\ Scaled
         => \E i \in DOMAIN triggers[outcome.hra] : Accepts(triggers[outcome.hra][i])

LEMMA NamesStep ==
    ASSUME BaseInv, NamesInv, [Next]_vars
    PROVE  NamesInv'
<1>0. TypeOK /\ WorldInv /\ HandlerInv
  BY DEF BaseInv
<1>1. CASE ~ Handle
  <2>1. UNCHANGED <<event, triggers, outcome>>
    BY <1>1, UserFrame
  <2> QED
    BY <2>1 DEF NamesInv, Scaled, Accepts
<1>2. CASE Handle
  <2>1. UNCHANGED <<event, triggers>>
    BY <1>2, HandlerFrame
  <2>2. outcome' \in [code : {0, 200, 500}, hra : Hras \union {Nobody}]
    BY <1>0, TypeStep DEF TypeOK
  <2>3. SUFFICES ASSUME event.kind = "check_run", outcome'.hra \in Hras
                 PROVE  \E i \in DOMAIN triggers[outcome'.hra] : Accepts(triggers[outcome'.hra][i])
    <3>1. Scaled' => outcome'.hra \in Hras
      BY <2>2 DEF Scaled
    <3> QED
      BY <2>1, <3>1 DEF NamesInv, Accepts
  <2>4. outcome.hra = Nobody
    <3>1. pc # "done"
      BY <1>2 DEF Handle, Receive, SearchRepository, getManagedRunnerGroupsFromHRAs,
         GetRunnerGroupsVisibleToRepository, Traverse
    <3> QED
      BY <1>0, <3>1 DEF HandlerInv, Pending
  <2>5. PICK key : outcome'.hra \in Search(key)
    BY <1>2, <2>3, <2>4, Scaling
  <2>6. PICK m \in Matching(key) : m[1] = outcome'.hra
    BY <2>3, <2>5, OtherSearch
  <2>7. PICK h \in Found(key) :
           m \in {<<h, i>> : i \in {k \in DOMAIN triggers[h] : MatchTrigger(triggers[h][k], event) = Yes}}
    BY <2>6 DEF Matching
  <2>8. PICK i \in DOMAIN triggers[h] : m = <<h, i>> /\ MatchTrigger(triggers[h][i], event) = Yes
    BY <2>7
  <2>9. h = outcome'.hra /\ h \in Hras
    BY <2>3, <2>6, <2>8
  <2>10. Accepts(triggers[h][i])
    BY <2>3, <2>8, <2>9, NamesAccept DEF NamesInv
  <2> QED
    BY <2>8, <2>9, <2>10
<1> QED
  BY <1>1, <1>2

\* A check_run event scales an HRA only if a trigger of it is for such events, and the name of
\* the check run fits one of its patterns, if it has any: for every pattern and every name the
\* loop over the tokens (pkg/actionsglob) accepts only what GitHub's globs do, whatever changes
\* while the handler is at work.
THEOREM OnlyMatchingNamesScale == Spec => []OnlyMatchingNames
<1>1. Init => NamesInv
  <2> SUFFICES ASSUME Init PROVE NamesInv
    OBVIOUS
  <2>1. PICK s \in Scenarios : event = s.event /\ triggers = s.triggers
    BY DEF Init
  <2>2. ~ Scaled
    BY DEF Init, Scaled, Pending
  <2> QED
    BY <2>1, <2>2, ScenarioAssumption DEF NamesInv
<1>2. BaseInv /\ NamesInv /\ [Next]_vars => NamesInv'
  BY NamesStep
<1>3. NamesInv => OnlyMatchingNames
  BY DEF NamesInv, OnlyMatchingNames, Accepts
<1> QED
  BY <1>1, <1>2, <1>3, BaseHolds, PTL DEF Spec

=============================================================================
