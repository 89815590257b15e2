----------------------- MODULE RunnerDeploymentProofs -----------------------
(* Proofs about RunnerDeployment. *)
EXTENDS RunnerDeployment, TotalsProofs

USE DeploymentAssumption DEF None, defaultReplicas

-----------------------------------------------------------------------------
(* The newest set and the totals *)

LEMMA NewestIsLatest ==
  ASSUME NEW v, Sets(v) # {}
  PROVE  Newest(v) \in Sets(v) /\ \A s \in Sets(v) : s <= Newest(v)
<1> DEFINE N == 1 + MaxEdits + MaxDuplicates
<1>1. N \in Nat
  OBVIOUS
<1>2. Sets(v) \in SUBSET (0..N)
  BY DEF Sets, Slots
<1> HIDE DEF N
<1>3. Max(Sets(v)) \in Sets(v) /\ \A s \in Sets(v) : s <= Max(Sets(v))
  BY <1>1, <1>2, MaxIsGreatest
<1> QED
  BY <1>3 DEF Newest

\* A listed set that no other one follows is the newest.
LEMMA LatestIsNewest ==
  ASSUME NEW v, NEW m \in Sets(v), \A s \in Sets(v) : s <= m
  PROVE  Newest(v) = m
<1>1. Newest(v) \in Sets(v) /\ \A s \in Sets(v) : s <= Newest(v)
  BY NewestIsLatest
<1> QED
  BY <1>1 DEF Sets, Slots

LEMMA SlotsFinite == IsFiniteSet(Slots) /\ Cardinality(Slots) = 1 + MaxEdits + MaxDuplicates
<1>1. 1 \in Int /\ 1 + MaxEdits + MaxDuplicates \in Int /\ ~(1 > 1 + MaxEdits + MaxDuplicates)
  OBVIOUS
<1> QED
  BY <1>1, FS_Interval DEF Slots

LEMMA TotalOfSets ==
  ASSUME NEW n \in [Slots -> Int], NEW S \in SUBSET Slots
  PROVE  Total(n, S) \in Nat
<1>1. IsFiniteSet(S)
  BY SlotsFinite, FS_Subset
<1> QED
  BY <1>1, TotalType

-----------------------------------------------------------------------------
(* The inductive invariant *)

\* The newest set that the cache shows is never deleted, so it still exists.
ViewInv ==
    /\ Sets(rs) \subseteq 1..used /\ Sets(view) \subseteq 1..used
    /\ Sets(view) # {} => Newest(view) \in Sets(rs)

\* Every set was created for an edit or from an outdated list, but for one: the first, as
\* long as no edit has made it outdated.
CountInv ==
    /\ rd.effective <= edits
    /\ used <= edits + duplicates + (IF RolledOut THEN 1 ELSE 0)

DeployInv == TypeOK /\ ViewInv /\ CountInv

LEMMA InvInit == Init => DeployInv
<1> SUFFICES ASSUME Init PROVE DeployInv
  OBVIOUS
<1>1. NoSet \in SetType /\ NoRunners \in [pending : Nat, idle : Nat, busy : Nat]
  BY DEF NoSet, SetType, NoRunners
<1>2. rd \in [replicas : Replicas, template : Templates, selector : Selectors,
              effective : 0..MaxEdits] /\ rd.effective = 0
  BY DEF Init
<1>3. TypeOK
  BY <1>1, <1>2, SlotsFinite DEF Init, TypeOK
<1>4. Sets(rs) = {} /\ Sets(view) = {}
  BY DEF Init, Sets, NoSet
<1> QED
  BY <1>2, <1>3, <1>4 DEF Init, DeployInv, ViewInv, CountInv, RolledOut

\* Newest(rs) follows the newest set that the cache shows.
LEMMA ViewIsBehind ==
  ASSUME ViewInv, Sets(view) # {}
  PROVE  /\ Newest(view) \in Slots /\ Newest(view) \in Sets(rs)
         /\ Sets(rs) # {} /\ Newest(rs) \in Sets(rs) /\ Newest(rs) \in Slots
         /\ Newest(view) <= Newest(rs)
         /\ \A s \in OldSets : s \in Slots /\ s < Newest(view)
<1>1. Newest(view) \in Sets(view) /\ \A s \in Sets(view) : s <= Newest(view)
  BY NewestIsLatest
<1>2. Newest(view) \in Sets(rs) /\ Sets(rs) # {}
  BY DEF ViewInv
<1>3. Newest(rs) \in Sets(rs) /\ \A s \in Sets(rs) : s <= Newest(rs)
  BY <1>2, NewestIsLatest
<1> QED
  BY <1>1, <1>2, <1>3 DEF OldSets, Sets, Slots

\* A step that neither creates nor deletes a set, nor changes a template.
LEMMA SameSets ==
  ASSUME ViewInv, Sets(rs') = Sets(rs), view' = view \/ view' = rs, used' = used
  PROVE  ViewInv'
<1>1. CASE view' = view
  BY <1>1 DEF ViewInv
<1>2. CASE view' = rs
  <2>1. Sets(view)' = Sets(rs)
    BY <1>2
  <2>2. Newest(view)' = Newest(rs)
    BY <1>2
  <2>3. Sets(rs) # {} => Newest(rs) \in Sets(rs)
    BY NewestIsLatest
  <2> QED
    BY <2>1, <2>2, <2>3 DEF ViewInv
<1> QED
  BY <1>1, <1>2

LEMMA SameCount ==
  ASSUME TypeOK, CountInv, RolledOut => RolledOut', rd' = rd, used' = used, edits' = edits,
         duplicates' = duplicates
  PROVE  CountInv'
  BY DEF CountInv, TypeOK

LEMMA StillRolledOut ==
  ASSUME Sets(rs') = Sets(rs), rd' = rd, RolledOut,
         \A s \in Sets(rs) : rs'[s].template = rs[s].template
  PROVE  RolledOut'
<1>1. Newest(rs) \in Sets(rs)
  BY NewestIsLatest DEF RolledOut
<1>2. Newest(rs)' = Newest(rs)
  BY DEF Newest
<1> QED
  BY <1>1, <1>2 DEF RolledOut

LEMMA InvEdit ==
  ASSUME DeployInv, Edit \/ RenewEffectiveTime
  PROVE  DeployInv'
<1> USE DEF DeployInv
<1>1. /\ rs' = rs /\ view' = view /\ used' = used /\ duplicates' = duplicates /\ edits' = edits + 1
      /\ edits < MaxEdits /\ status' = status /\ own' = own /\ jobs' = jobs
  BY DEF Edit, RenewEffectiveTime
<1>2. /\ rd' \in [replicas : Replicas, template : Templates, selector : Selectors, effective : Nat]
      /\ rd'.effective <= rd.effective + 1
  <2>0. rd \in [replicas : Replicas, template : Templates, selector : Selectors,
                effective : 0..MaxEdits]
    BY DEF TypeOK
  <2>1. CASE Edit
    <3>1. PICK t \in Templates, sel \in Selectors, n \in Replicas :
             rd' = [replicas |-> n, template |-> t, selector |-> sel,
                    effective |-> IF n = rd.replicas THEN rd.effective ELSE rd.effective + 1]
      BY <2>1 DEF Edit
    <3>2. rd.effective \in Nat
      BY <2>0
    <3> QED
      BY <3>1, <3>2
  <2>2. CASE RenewEffectiveTime
    <3>1. rd' = [rd EXCEPT !.effective = @ + 1]
      BY <2>2 DEF RenewEffectiveTime
    <3> QED
      BY <2>0, <3>1
  <2> QED
    BY <2>1, <2>2
<1>3. rd.effective \in Nat /\ edits \in Nat /\ duplicates \in Nat /\ used \in Nat
  BY SlotsFinite DEF TypeOK
<1>4. rd'.effective <= edits'
  BY <1>1, <1>2, <1>3 DEF CountInv
<1>5. TypeOK'
  <2>1. rd'.effective \in 0..MaxEdits
    BY <1>1, <1>2, <1>3, <1>4 DEF TypeOK
  <2>2. rd' \in [replicas : Replicas, template : Templates, selector : Selectors,
                 effective : 0..MaxEdits]
    BY <1>2, <2>1
  <2>3. edits' \in 0..MaxEdits
    BY <1>1, <1>3
  <2> QED
    BY <1>1, <2>2, <2>3 DEF TypeOK
<1>6. ViewInv'
  BY <1>1, SameSets
<1>7. used' <= edits' + duplicates' + (IF RolledOut' THEN 1 ELSE 0)
  <2>1. used <= edits + duplicates + 1
    BY <1>3 DEF CountInv
  <2> QED
    BY <1>1, <1>3, <2>1
<1> QED
  BY <1>4, <1>5, <1>6, <1>7 DEF CountInv

LEMMA InvSyncView ==
  ASSUME DeployInv, SyncView
  PROVE  DeployInv'
<1> USE DEF DeployInv, SyncView
<1>1. TypeOK'
  BY DEF TypeOK
<1>2. ViewInv'
  BY SameSets
<1>3. RolledOut' <=> RolledOut
  BY DEF RolledOut, Newest
<1> QED
  BY <1>1, <1>2, <1>3, SameCount

LEMMA InSlots ==
  ASSUME NEW u \in Nat, NEW e \in 0..MaxEdits, NEW d \in 0..MaxDuplicates, u <= e + d
  PROVE  u + 1 \in Slots
<1>1. e \in Nat /\ d \in Nat /\ e <= MaxEdits /\ d <= MaxDuplicates
  OBVIOUS
<1>2. e + d <= MaxEdits + MaxDuplicates
  BY <1>1
<1> QED
  BY <1>1, <1>2 DEF Slots

LEMMA InvCreateSet ==
  ASSUME DeployInv, CreateSet
  PROVE  DeployInv'
<1> USE DEF DeployInv
<1>0. /\ rd' = rd /\ own' = own /\ jobs' = jobs /\ edits' = edits /\ status' = status /\ view' = view
      /\ used' = used + 1 /\ rs' = [rs EXCEPT ![used + 1] = newRunnerReplicaSet]
  BY DEF CreateSet, rdOnly
<1>1. /\ used \in Nat /\ edits \in 0..MaxEdits /\ duplicates \in 0..MaxDuplicates
      /\ rs \in [Slots -> SetType]
  BY SlotsFinite DEF TypeOK
<1>2. duplicates' \in 0..MaxDuplicates /\ used <= edits + duplicates'
  <2>1. CASE RolledOut
    <3>1. duplicates < MaxDuplicates /\ duplicates' = duplicates + 1
      BY <2>1 DEF CreateSet
    <3>2. used <= edits + duplicates + 1
      BY <2>1 DEF CountInv
    <3> QED
      BY <1>0, <1>1, <3>1, <3>2
  <2>2. CASE ~RolledOut
    <3>1. duplicates' = duplicates
      BY <2>2 DEF CreateSet
    <3>2. used <= edits + duplicates + 0
      BY <2>2 DEF CountInv
    <3> QED
      BY <1>0, <1>1, <3>1, <3>2
  <2> QED
    BY <2>1, <2>2
<1>3. used + 1 \in Slots
  BY <1>1, <1>2, InSlots
<1>4. newRunnerReplicaSet \in SetType
  <2>1. rd \in [replicas : Replicas, template : Templates, selector : Selectors,
                effective : 0..MaxEdits]
    BY DEF TypeOK
  <2> QED
    BY <2>1 DEF newRunnerReplicaSet, SetType
<1>5. TypeOK'
  <2>1. rs' \in [Slots -> SetType]
    BY <1>0, <1>1, <1>4
  <2>2. used' \in 0..Cardinality(Slots)
    BY <1>0, <1>1, <1>3, SlotsFinite DEF Slots
  <2> QED
    BY <1>0, <1>2, <2>1, <2>2 DEF TypeOK
<1>6. Sets(rs') = Sets(rs) \cup {used + 1}
  BY <1>0, <1>1, <1>3 DEF Sets, newRunnerReplicaSet
<1>7. ViewInv'
  <2>1. Sets(view)' = Sets(view) /\ Newest(view)' = Newest(view)
    BY <1>0
  <2>2. 1..used \subseteq 1..used' /\ used + 1 \in 1..used'
    BY <1>0, <1>1
  <2> QED
    BY <1>6, <2>1, <2>2 DEF ViewInv
<1>8. Newest(rs') = used + 1
  <2>1. used + 1 \in Sets(rs')
    BY <1>6
  <2>2. \A s \in Sets(rs') : s <= used + 1
    BY <1>1, <1>6 DEF ViewInv
  <2> QED
    BY <2>1, <2>2, LatestIsNewest
<1>9. RolledOut'
  <2>1. rs'[used + 1].template = rd'.template
    BY <1>0, <1>1, <1>3 DEF newRunnerReplicaSet
  <2> QED
    BY <1>6, <1>8, <2>1 DEF RolledOut
<1>10. CountInv'
  <2>1. \A u, e, d \in Nat : u <= e + d => u + 1 <= e + d + 1
    OBVIOUS
  <2>2. edits \in Nat /\ duplicates' \in Nat
    BY <1>1, <1>2
  <2>3. used + 1 <= edits + duplicates' + 1
    BY <1>1, <1>2, <2>1, <2>2
  <2>4. used' = used + 1 /\ edits' = edits /\ rd'.effective <= edits'
    BY <1>0 DEF CountInv
  <2> QED
    BY <1>9, <2>3, <2>4 DEF CountInv
<1> QED
  BY <1>5, <1>7, <1>10

\* What Client.Update may do to a set of the list.
LEMMA InvUpdate ==
  ASSUME DeployInv, NEW s \in Sets(view), NEW set \in SetType, Update(s, set),
         set.exists, set.template = rs[s].template
  PROVE  DeployInv'
<1> USE DEF DeployInv
<1>0. /\ rd' = rd /\ own' = own /\ jobs' = jobs /\ edits' = edits /\ status' = status /\ view' = view
      /\ used' = used /\ duplicates' = duplicates /\ rs' = [rs EXCEPT ![s] = set]
      /\ view[s] = rs[s]
  BY DEF Update, rdOnly
<1>1. s \in Slots /\ rs[s].exists /\ rs \in [Slots -> SetType]
  BY <1>0 DEF Sets, TypeOK
<1>2. TypeOK'
  <2>1. rs' \in [Slots -> SetType]
    BY <1>0, <1>1
  <2> QED
    BY <1>0, <2>1 DEF TypeOK
<1>3. Sets(rs') = Sets(rs) /\ \A t \in Sets(rs) : rs'[t].template = rs[t].template
  BY <1>0, <1>1 DEF Sets
<1>4. ViewInv'
  BY <1>0, <1>3, SameSets
<1>5. RolledOut => RolledOut'
  BY <1>0, <1>3, StillRolledOut
<1> QED
  BY <1>0, <1>2, <1>4, <1>5, SameCount

\* The set that UpdateSelector or UpdateReplicas writes.
LEMMA InvUpdateNewest ==
  ASSUME DeployInv, UpdateSelector \/ UpdateReplicas
  PROVE  DeployInv'
<1> DEFINE s == Newest(view)
<1>1. s \in Sets(view)
  BY NewestIsLatest DEF UpdateSelector, UpdateReplicas, UpToDate
<1>2. s \in Slots /\ view[s].exists /\ rs[s] \in SetType
  BY <1>1 DEF DeployInv, TypeOK, Sets
<1>3. rd \in [replicas : Replicas, template : Templates, selector : Selectors,
              effective : 0..MaxEdits]
  BY DEF DeployInv, TypeOK
<1> HIDE DEF s
<1>4. CASE UpdateSelector
  <2> DEFINE set == [rs[s] EXCEPT !.selector = rd.selector, !.replicas = rd.replicas,
                                  !.effective = rd.effective]
  <2>1. set \in SetType /\ set.template = rs[s].template /\ set.exists = rs[s].exists
    BY <1>2, <1>3 DEF SetType
  <2>2. Update(s, set)
    BY <1>4 DEF UpdateSelector, s
  <2>3. set.exists
    BY <1>2, <2>1, <2>2 DEF Update
  <2> HIDE DEF set
  <2> QED
    BY <1>1, <2>1, <2>2, <2>3, InvUpdate
<1>5. CASE UpdateReplicas
  <2> DEFINE set == [rs[s] EXCEPT !.replicas = OrDefault(rd.replicas), !.effective = rd.effective]
  <2>0. OrDefault(rd.replicas) \in Nat
    BY <1>3 DEF OrDefault
  <2>1. set \in SetType /\ set.template = rs[s].template /\ set.exists = rs[s].exists
    BY <1>2, <1>3, <2>0 DEF SetType
  <2>2. Update(s, set)
    BY <1>5 DEF UpdateReplicas, s
  <2>3. set.exists
    BY <1>2, <2>1, <2>2 DEF Update
  <2> HIDE DEF set
  <2> QED
    BY <1>1, <2>1, <2>2, <2>3, InvUpdate
<1> QED
  BY <1>4, <1>5

\* The loop over the old sets does not touch the newest set, as the cache shows it or as it is.
LEMMA NewestIsPassed ==
  ASSUME DeployInv, NEW done \in SUBSET OldSets, RemoveOldSets(done)
  PROVE  /\ Newest(view) \in Slots /\ Newest(rs) \in Slots
         /\ Newest(view) \in Sets(rs) /\ Newest(rs) \in Sets(rs) /\ Sets(rs) # {}
         /\ rs'[Newest(view)] = rs[Newest(view)] /\ rs'[Newest(rs)] = rs[Newest(rs)]
<1>1. Sets(view) # {}
  BY DEF RemoveOldSets, NewestInSync, UpToDate
<1>2. /\ Newest(view) \in Slots /\ Newest(view) \in Sets(rs)
      /\ Sets(rs) # {} /\ Newest(rs) \in Sets(rs) /\ Newest(rs) \in Slots
      /\ Newest(view) <= Newest(rs)
      /\ \A s \in OldSets : s \in Slots /\ s < Newest(view)
  BY <1>1, ViewIsBehind DEF DeployInv
<1>3. Newest(view) \notin done /\ Newest(rs) \notin done
  <2>1. Newest(view) \in Nat /\ Newest(rs) \in Nat
    BY <1>2 DEF Slots
  <2> QED
    BY <1>2, <2>1
<1>4. \A s \in Slots \ done : rs'[s] = rs[s]
  BY DEF RemoveOldSets
<1> QED
  BY <1>2, <1>3, <1>4

LEMMA InvRemoveOldSets ==
  ASSUME DeployInv, NEW done \in SUBSET OldSets, RemoveOldSets(done),
         status' \in [replicas : Nat \union {None}, available : Nat \union {None},
                      updated : Nat \union {None}]
  PROVE  DeployInv'
<1> USE DEF DeployInv
<1>0. /\ rd' = rd /\ jobs' = jobs /\ edits' = edits /\ view' = view
      /\ used' = used /\ duplicates' = duplicates
  BY DEF RemoveOldSets
<1>a. NoSet \in SetType
  BY DEF SetType, NoSet
<1>b. ASSUME NEW s \in Slots
      PROVE  /\ rs[s] \in SetType /\ [rs[s] EXCEPT !.replicas = 0] \in SetType
             /\ [rs[s] EXCEPT !.replicas = 0].exists = rs[s].exists
  <2>1. rs[s] \in SetType
    BY DEF TypeOK
  <2>2. 0 \in Nat \union {None}
    OBVIOUS
  <2> QED
    BY <2>1, <2>2 DEF SetType
<1>1. \A s \in Slots : /\ rs[s] \in SetType /\ NoSet \in SetType
                       /\ [rs[s] EXCEPT !.replicas = 0] \in SetType
                       /\ [rs[s] EXCEPT !.replicas = 0].exists = rs[s].exists
  BY <1>a, <1>b
<1>2. TypeOK'
  <2>1. rs' \in [Slots -> SetType]
    BY <1>1 DEF RemoveOldSets
  <2>2. own' \in [Slots -> [pending : Nat, idle : Nat, busy : Nat]]
    BY DEF RemoveOldSets, TypeOK, NoRunners
  <2> QED
    BY <1>0, <2>1, <2>2 DEF TypeOK
<1>3. Sets(rs') \subseteq Sets(rs)
  <2> SUFFICES ASSUME NEW s \in Slots, rs'[s].exists PROVE rs[s].exists
    BY DEF Sets
  <2>1. rs'[s] \in {rs[s], NoSet, [rs[s] EXCEPT !.replicas = 0]}
    BY DEF RemoveOldSets
  <2>2. rs'[s] # NoSet
    BY DEF NoSet
  <2> QED
    BY <1>1, <2>1, <2>2
<1>4. /\ Newest(view) \in Slots /\ Newest(rs) \in Slots
      /\ Newest(view) \in Sets(rs) /\ Newest(rs) \in Sets(rs) /\ Sets(rs) # {}
      /\ rs'[Newest(view)] = rs[Newest(view)] /\ rs'[Newest(rs)] = rs[Newest(rs)]
  BY NewestIsPassed
<1>5. Newest(view) \in Sets(rs') /\ Newest(rs) \in Sets(rs')
  BY <1>4 DEF Sets
<1>6. ViewInv'
  <2>1. Sets(view)' = Sets(view) /\ Newest(view)' = Newest(view)
    BY <1>0
  <2> QED
    BY <1>0, <1>3, <1>5, <2>1 DEF ViewInv
<1>7. RolledOut => RolledOut'
  <2>1. \A s \in Sets(rs) : s <= Newest(rs)
    BY <1>4, NewestIsLatest
  <2>2. Newest(rs') = Newest(rs)
    BY <1>3, <1>5, <2>1, LatestIsNewest
  <2> QED
    BY <1>0, <1>4, <1>5, <2>2 DEF RolledOut
<1> QED
  BY <1>0, <1>2, <1>6, <1>7, SameCount

LEMMA InvFinish ==
  ASSUME DeployInv, Finish \/ FinishFails
  PROVE  DeployInv'
<1> DEFINE StatusType == [replicas : Nat \union {None}, available : Nat \union {None},
                          updated : Nat \union {None}]
<1>1. CASE Finish
  <2>1. /\ [s \in Slots |-> view[s].status] \in [Slots -> Int]
        /\ [s \in Slots |-> view[s].ready] \in [Slots -> Int]
        /\ Sets(view) \in SUBSET Slots
    BY DEF DeployInv, TypeOK, SetType, Sets
  <2>2. /\ Total([s \in Slots |-> view[s].status], Sets(view)) \in Nat
        /\ Total([s \in Slots |-> view[s].ready], Sets(view)) \in Nat
    BY <2>1, TotalOfSets
  <2>3. OrZero(view[Newest(view)].status) \in Nat
    <3>1. Newest(view) \in Slots
      BY <1>1, ViewIsBehind DEF DeployInv, Finish, RemoveOldSets, NewestInSync, UpToDate
    <3>2. view[Newest(view)].status \in Nat \union {None}
      BY <3>1 DEF DeployInv, TypeOK, SetType
    <3> QED
      BY <3>2 DEF OrZero
  <2>4. status' \in StatusType
    BY <1>1, <2>2, <2>3 DEF Finish
  <2>5. RemoveOldSets(OldSets) /\ OldSets \in SUBSET OldSets
    BY <1>1 DEF Finish
  <2> QED
    BY <2>4, <2>5, InvRemoveOldSets
<1>2. CASE FinishFails
  <2>1. PICK first \in Slots : RemoveOldSets({s \in OldSets : s >= first})
    BY <1>2 DEF FinishFails
  <2> DEFINE done == {s \in OldSets : s >= first}
  <2>2. done \in SUBSET OldSets /\ RemoveOldSets(done)
    BY <2>1
  <2>3. status' \in StatusType
    BY <1>2 DEF FinishFails, DeployInv, TypeOK
  <2> HIDE DEF done
  <2> QED
    BY <2>2, <2>3, InvRemoveOldSets
<1> QED
  BY <1>1, <1>2

LEMMA CountsType ==
  ASSUME TypeOK, NEW s \in Slots
  PROVE  Current(s) \in Nat /\ Ready(s) \in Nat /\ Desired(s) \in Nat
<1> DEFINE all == [t \in Slots |-> own[t].pending + own[t].idle + own[t].busy]
           running == [t \in Slots |-> own[t].idle + own[t].busy]
<1>1. \A t \in Slots : own[t].pending \in Nat /\ own[t].idle \in Nat /\ own[t].busy \in Nat
  BY DEF TypeOK
<1>2. all \in [Slots -> Int] /\ running \in [Slots -> Int] /\ Pool(s) \in SUBSET Slots
  BY <1>1 DEF Pool
<1>3. Total(all, Pool(s)) \in Nat /\ Total(running, Pool(s)) \in Nat
  <2> HIDE DEF all, running
  <2> QED
    BY <1>2, TotalOfSets
<1>4. view[s].replicas \in Nat \union {None}
  BY DEF TypeOK, SetType
<1> QED
  BY <1>3, <1>4 DEF Current, Ready, Desired, OrDefault

\* Steps that only move, add or remove runners.
LEMMA InvOwn ==
  ASSUME DeployInv, UNCHANGED <<rd, status, rs, view, used, edits, duplicates>>,
         own' \in [Slots -> [pending : Nat, idle : Nat, busy : Nat]], jobs' \in 0..MaxJobs
  PROVE  DeployInv'
<1>1. TypeOK'
  BY DEF DeployInv, TypeOK
<1>2. ViewInv'
  BY DEF DeployInv, ViewInv
<1>3. RolledOut' <=> RolledOut
  BY DEF RolledOut, Newest
<1>4. CountInv'
  BY <1>3 DEF DeployInv, CountInv
<1> QED
  BY <1>1, <1>2, <1>4 DEF DeployInv

LEMMA InvRunners ==
  ASSUME DeployInv, NEW s \in Slots, NEW t \in Slots,
         \/ CreateRunners(s) \/ StopRunner(s, t)
         \/ RunnerStarts(t) \/ JobStarts(t) \/ JobEnds(t)
  PROVE  DeployInv'
<1> DEFINE Numbers == [pending : Nat, idle : Nat, busy : Nat]
<1>0. own \in [Slots -> Numbers] /\ jobs \in 0..MaxJobs
  BY DEF DeployInv, TypeOK
<1>a. UNCHANGED <<rd, status, rs, view, used, edits, duplicates>>
  BY DEF CreateRunners, StopRunner, RunnerStarts, JobStarts, JobEnds, rsOnly
<1>b. jobs' \in 0..MaxJobs
  BY <1>0 DEF CreateRunners, StopRunner, RunnerStarts, JobStarts, JobEnds
<1>c. ASSUME NEW u \in Slots, NEW n \in Numbers, own' = [own EXCEPT ![u] = n]
      PROVE  DeployInv'
  <2>1. own' \in [Slots -> Numbers]
    BY <1>0, <1>c
  <2> QED
    BY <1>a, <1>b, <2>1, InvOwn
<1>d. own[s] \in Numbers /\ own[t] \in Numbers
  BY <1>0
<1>1. CASE CreateRunners(s)
  <2> DEFINE n == [own[s] EXCEPT !.pending = @ + (Desired(s) - Current(s))]
  <2>1. Desired(s) - Current(s) \in Nat
    BY <1>1, CountsType DEF CreateRunners, WantsMore, DeployInv
  <2>2. n \in Numbers
    BY <1>d, <2>1
  <2>3. own' = [own EXCEPT ![s] = n]
    BY <1>1 DEF CreateRunners
  <2> HIDE DEF n, Numbers
  <2> QED
    BY <1>c, <2>2, <2>3
<1>2. CASE StopRunner(s, t)
  <2> DEFINE n == [own[t] EXCEPT !.idle = @ - 1]
  <2>1. own[t].idle > 0
    BY <1>2 DEF StopRunner
  <2>2. n \in Numbers
    BY <1>d, <2>1
  <2>3. own' = [own EXCEPT ![t] = n]
    BY <1>2 DEF StopRunner
  <2> HIDE DEF n, Numbers
  <2> QED
    BY <1>c, <2>2, <2>3
<1>3. CASE RunnerStarts(t)
  <2> DEFINE n == [own[t] EXCEPT !.pending = @ - 1, !.idle = @ + 1]
  <2>1. own[t].pending > 0
    BY <1>3 DEF RunnerStarts
  <2>2. n \in Numbers
    <3> DEFINE m == [own[t] EXCEPT !.pending = @ - 1]
    <3>1. m \in Numbers
      BY <1>d, <2>1
    <3>2. n = [m EXCEPT !.idle = @ + 1]
      OBVIOUS
    <3> HIDE DEF m, n
    <3> QED
      BY <3>1, <3>2
  <2>3. own' = [own EXCEPT ![t] = n]
    <3>1. own' = [own EXCEPT ![t].pending = @ - 1, ![t].idle = @ + 1]
      BY <1>3 DEF RunnerStarts
    <3> HIDE DEF Numbers
    <3> QED
      BY <1>0, <3>1
  <2> HIDE DEF n, Numbers
  <2> QED
    BY <1>c, <2>2, <2>3
<1>4. CASE JobStarts(t)
  <2> DEFINE n == [own[t] EXCEPT !.idle = @ - 1, !.busy = @ + 1]
  <2>1. own[t].idle > 0
    BY <1>4 DEF JobStarts
  <2>2. n \in Numbers
    <3> DEFINE m == [own[t] EXCEPT !.idle = @ - 1]
    <3>1. m \in Numbers
      BY <1>d, <2>1
    <3>2. n = [m EXCEPT !.busy = @ + 1]
      OBVIOUS
    <3> HIDE DEF m, n
    <3> QED
      BY <3>1, <3>2
  <2>3. own' = [own EXCEPT ![t] = n]
    <3>1. own' = [own EXCEPT ![t].idle = @ - 1, ![t].busy = @ + 1]
      BY <1>4 DEF JobStarts
    <3> HIDE DEF Numbers
    <3> QED
      BY <1>0, <3>1
  <2> HIDE DEF n, Numbers
  <2> QED
    BY <1>c, <2>2, <2>3
<1>5. CASE JobEnds(t)
  <2> DEFINE n == [own[t] EXCEPT !.busy = @ - 1]
  <2>1. own[t].busy > 0
    BY <1>5 DEF JobEnds
  <2>2. n \in Numbers
    BY <1>d, <2>1
  <2>3. own' = [own EXCEPT ![t] = n]
    BY <1>5 DEF JobEnds
  <2> HIDE DEF n, Numbers
  <2> QED
    BY <1>c, <2>2, <2>3
<1> QED
  BY <1>1, <1>2, <1>3, <1>4, <1>5

\* What ReportStatus leaves alone.
LEMMA ReportFields ==
  ASSUME TypeOK, NEW s \in Slots, ReportStatus(s)
  PROVE  /\ rs' \in [Slots -> SetType]
         /\ \A t \in Slots : /\ rs'[t].exists = rs[t].exists
                             /\ rs'[t].template = rs[t].template
                             /\ rs'[t].replicas = rs[t].replicas
<1> DEFINE set == [rs[s] EXCEPT !.status = Current(s), !.ready = Ready(s)]
<1>1. rs \in [Slots -> SetType] /\ rs[s] \in SetType
  BY DEF TypeOK
<1>2. Current(s) \in Nat /\ Ready(s) \in Nat
  BY CountsType
<1>3. set \in SetType /\ set.exists = rs[s].exists /\ set.template = rs[s].template
      /\ set.replicas = rs[s].replicas
  BY <1>1, <1>2 DEF SetType
<1>4. rs' = [rs EXCEPT ![s] = set]
  BY <1>1 DEF ReportStatus
<1> HIDE DEF set
<1> QED
  BY <1>1, <1>3, <1>4

LEMMA InvReport ==
  ASSUME DeployInv, NEW s \in Slots, ReportStatus(s)
  PROVE  DeployInv'
<1> USE DEF DeployInv
<1>1. UNCHANGED <<rd, status, view, used, edits, duplicates, own, jobs>>
  BY DEF ReportStatus, rsOnly
<1>2. rs' \in [Slots -> SetType]
  BY ReportFields
<1>3. Sets(rs') = Sets(rs) /\ \A t \in Sets(rs) : rs'[t].template = rs[t].template
  BY ReportFields DEF Sets
<1>4. TypeOK'
  BY <1>1, <1>2 DEF TypeOK
<1>5. ViewInv'
  BY <1>1, <1>3, SameSets
<1>6. RolledOut => RolledOut'
  BY <1>1, <1>3, StillRolledOut
<1> QED
  BY <1>1, <1>4, <1>5, <1>6, SameCount

LEMMA InvNext == DeployInv /\ [Next]_vars => DeployInv'
<1> SUFFICES ASSUME DeployInv, [Next]_vars PROVE DeployInv'
  OBVIOUS
<1>1. CASE Edit \/ RenewEffectiveTime
  BY <1>1, InvEdit
<1>2. CASE SyncView
  BY <1>2, InvSyncView
<1>3. CASE DeploymentStep \/ FinishFails
  BY <1>3, InvCreateSet, InvUpdateNewest, InvFinish DEF DeploymentStep
<1>4. ASSUME NEW s \in Slots, CreateRunners(s) \/ ReportStatus(s) PROVE DeployInv'
  BY <1>4, InvRunners, InvReport
<1>5. ASSUME NEW s \in Slots, NEW t \in Slots, StopRunner(s, t) PROVE DeployInv'
  BY <1>5, InvRunners
<1>6. ASSUME NEW t \in Slots, RunnerStarts(t) \/ JobStarts(t) \/ JobEnds(t) PROVE DeployInv'
  BY <1>6, InvRunners
<1>7. CASE UNCHANGED vars
  <2>1. own' \in [Slots -> [pending : Nat, idle : Nat, busy : Nat]] /\ jobs' \in 0..MaxJobs
    BY <1>7 DEF vars, DeployInv, TypeOK
  <2> QED
    BY <1>7, <2>1, InvOwn DEF vars
<1> QED
  BY <1>1, <1>2, <1>3, <1>4, <1>5, <1>6, <1>7 DEF Next

LEMMA Invariance == Safety => []DeployInv
  BY InvInit, InvNext, PTL DEF Safety

-----------------------------------------------------------------------------
(* The properties *)

\* Objects and cache are well typed for every bound, and the controller creates no more sets
\* than edits and outdated lists ask for.
THEOREM TypeCorrect == Safety => []TypeOK
<1>1. DeployInv => TypeOK
  BY DEF DeployInv
<1> QED
  BY <1>1, Invariance, PTL

\* NewestIsKept holds however many edits, rollbacks and outdated lists there are.
THEOREM WantedSetIsKept == Safety => NewestIsKept
<1> DEFINE Kept == \A s \in Slots :
                     RolledOut /\ s = Newest(rs)
                     => /\ rs'[s].exists
                        /\ rs'[s].replicas = 0 => rs[s].replicas = 0 \/ rd.replicas = 0
<1>1. DeployInv /\ [Next]_vars => [Kept]_vars
  <2> SUFFICES ASSUME DeployInv, Next, NEW s \in Slots, RolledOut, s = Newest(rs)
               PROVE  /\ rs'[s].exists
                      /\ rs'[s].replicas = 0 => rs[s].replicas = 0 \/ rd.replicas = 0
    OBVIOUS
  <2>1. s \in Sets(rs) /\ rs[s].exists
    BY NewestIsLatest DEF RolledOut, Sets
  <2>2. CASE rs'[s] = rs[s]
    BY <2>1, <2>2
  <2>3. rs \in [Slots -> SetType] /\ rd.replicas \in Nat \union {None}
    BY DEF DeployInv, TypeOK
  <2>4. CASE CreateSet
    <3>1. s # used + 1
      <4>1. s \in 1..used /\ used \in Nat
        BY <2>1, SlotsFinite DEF DeployInv, ViewInv, TypeOK
      <4> QED
        BY <4>1
    <3>2. rs'[s] = rs[s]
      BY <2>3, <2>4, <3>1 DEF CreateSet
    <3> QED
      BY <2>2, <3>2
  <2>5. CASE UpdateSelector \/ UpdateReplicas
    <3> DEFINE m == Newest(view)
               a == [rs[m] EXCEPT !.selector = rd.selector, !.replicas = rd.replicas,
                                  !.effective = rd.effective]
               b == [rs[m] EXCEPT !.replicas = OrDefault(rd.replicas), !.effective = rd.effective]
    <3>1. rs' = [rs EXCEPT ![m] = a] \/ rs' = [rs EXCEPT ![m] = b]
      BY <2>5 DEF UpdateSelector, UpdateReplicas, Update
    <3>2. CASE s # m
      <4>1. rs'[s] = rs[s]
        BY <2>3, <3>1, <3>2
      <4> QED
        BY <2>2, <4>1
    <3>3. CASE s = m
      <4>1. rs[m] \in SetType /\ rs[m].exists
        BY <2>1, <2>3, <3>3
      <4>2. a.exists /\ a.replicas = rd.replicas /\ b.exists /\ b.replicas = OrDefault(rd.replicas)
        BY <4>1 DEF SetType
      <4>3. rs'[s] = a \/ rs'[s] = b
        BY <2>3, <3>1, <3>3
      <4>4. OrDefault(rd.replicas) = 0 => rd.replicas = 0
        BY <2>3 DEF OrDefault
      <4> QED
        BY <4>2, <4>3, <4>4
    <3> QED
      BY <3>2, <3>3
  <2>6. CASE Finish \/ FinishFails
    <3>1. PICK done \in SUBSET OldSets : RemoveOldSets(done)
      <4>1. CASE Finish
        BY <4>1 DEF Finish
      <4>2. CASE FinishFails
        <5>1. PICK first \in Slots : RemoveOldSets({u \in OldSets : u >= first})
          BY <4>2 DEF FinishFails
        <5> DEFINE done == {u \in OldSets : u >= first}
        <5>2. done \in SUBSET OldSets /\ RemoveOldSets(done)
          BY <5>1
        <5> HIDE DEF done
        <5> QED
          BY <5>2
      <4> QED
        BY <2>6, <4>1, <4>2
    <3>2. rs'[s] = rs[s]
      BY <3>1, NewestIsPassed
    <3> QED
      BY <2>2, <3>2
  <2>7. CASE \E t \in Slots : ReportStatus(t)
    BY <2>1, <2>7, ReportFields DEF DeployInv
  <2>8. CASE rs' = rs
    BY <2>2, <2>8
  <2> QED
    BY <2>4, <2>5, <2>6, <2>7, <2>8 DEF Next, Edit, RenewEffectiveTime, SyncView, DeploymentStep,
       CreateRunners, StopRunner, RunnerStarts, JobStarts, JobEnds
<1> QED
  BY <1>1, Invariance, PTL DEF Safety, NewestIsKept
=============================================================================
