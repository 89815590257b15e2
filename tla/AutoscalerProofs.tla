-------------------------- MODULE AutoscalerProofs --------------------------
(* Proofs about Autoscaler. *)
EXTENDS Autoscaler, TotalsProofs, SequenceTheorems

USE DEF None, Err, Panic, Bad, defaultReplicas, Statuses

-----------------------------------------------------------------------------
(* The inductive invariant *)

\* A Reconcile goes on only with a spec and a schedule that are accepted, and asks for busy
\* runners if the first metric is about them.
AcceptInv ==
    /\ ctl.pc # "idle" => ~ SpecRejected
    /\ ctl.pc = "busy" => spec.metrics # <<>> /\ Primary = "busy"

\* Every number of replicas that the controller has written, may read back or is about to
\* write lies between two of the limits.
Within(n) == n = None \/ \E low, high \in Limits : low <= n /\ n <= high
BoundInv ==
    /\ Within(hra.desired) /\ Within(view.desired)
    /\ Within(ctl.hra.desired) /\ Within(ctl.new)
    /\ target.replicas \in InitialReplicas \/ Within(target.replicas)

\* A delivery on its way may still add a reservation, to the list that is stored or to the
\* one that the webhook server's cache shows.
Requested == {j \in Jobs : job[j] # "none"}
Incoming(m) == {p \in Jobs \X (1..2) : p[2] <= m[<<p[1], "queued">>]}
Room(list) == Len(list) + Cardinality(Incoming(mail)) <= Cardinality(Requested) + fails
CapacityInv == Room(hra.reservations) /\ Room(hookView)

\* Nothing that GitHub has answered is ahead of what is the case now, and the jobs of a run
\* begin to exist together.
Past(q, a) ==
    /\ q \in Runs => \A j \in DOMAIN a : a[j] # "none" /\ Stage(a[j]) <= Stage(job[j])
    /\ q \in {"queued", "in_progress"} => \A r \in Runs : Stage(a[r]) <= Stage(RunStatus(r))
Together == \A r \in Runs : \A i, j \in JobsOf[r] : job[i] = "none" => job[j] = "none"
PastInv ==
    /\ \A q \in DOMAIN answers : Past(q, answers[q])
    /\ \A r \in Runs : Stage(ctl.shown[r]) <= Stage(RunStatus(r))
    /\ Together

\* A job that has to be counted, and is unfinished still, belongs to a run of one of the
\* two lists.
Waiting == ctl.waiting \intersect Unfinished
ListInv ==
    /\ ctl.waiting \subseteq Requested
    /\ ctl.pc \in {"busy", "queued", "in_progress"} => ctl.waiting = {}
    /\ ctl.pc = "in_progress" => ctl.queued = RunsWith(ctl.shown, repos, "queued")
    /\ ctl.pc = "jobs" => \A r \in Runs : \A j \in JobsOf[r] \intersect Waiting :
                            r \in ctl.queued \union ctl.inProgress

-----------------------------------------------------------------------------
(* The calculations *)

LEMMA SpecTyped == TypeOK => SpecAssumption(spec)
BY AutoscalerAssumption DEF TypeOK

\* The minimum of a schedule that is accepted is one of the limits.
LEMMA MinimumIsLimit ==
  ASSUME SpecAssumption(spec), getMinReplicas(now, spec) # Err
  PROVE  getMinReplicas(now, spec) \in Minima
<1> DEFINE active == {i \in DOMAIN spec.overrides :
                        MatchSchedule(now, spec.overrides[i]).active # None}
           m == matchScheduledOverrides(now, spec.overrides)
<1>1. spec.overrides \in Seq(Overrides) /\ spec.min \in Int
  BY DEF SpecAssumption
<1>2. active \in SUBSET Nat
  BY <1>1
<1>3. active # {} => Min(active) \in active
  <2> HIDE DEF active
  <2> QED
    BY <1>2, MinIsLeast
<1>4. m \in {Err, None} \/ (active # {} /\ m = spec.overrides[Min(active)].min)
  <2> DEFINE bad == \E i \in DOMAIN spec.overrides : MatchSchedule(now, spec.overrides[i]).err
  <2>1. m = IF bad THEN Err ELSE IF active = {} THEN None ELSE spec.overrides[Min(active)].min
    BY DEF matchScheduledOverrides
  <2> HIDE DEF bad, active, m
  <2> QED
    BY <2>1
<1>5. m \in {Err, None} \/ \E i \in DOMAIN spec.overrides : m = spec.overrides[i].min
  BY ZenonT(60), <1>3, <1>4
<1> HIDE DEF m, active
<1>6. getMinReplicas(now, spec) = IF m # None THEN m
                                  ELSE IF spec.min >= 0 THEN spec.min ELSE defaultReplicas
  BY DEF m, getMinReplicas
<1> QED
  BY <1>5, <1>6 DEF Minima

LEMMA LimitsAreNumbers ==
  ASSUME SpecAssumption(spec), spec.max # None
  PROVE  Limits \subseteq Nat
<1>1. /\ spec.overrides \in Seq(Overrides) /\ spec.min \in Int
      /\ spec.max \in Nat
  BY DEF SpecAssumption
<1>2. ASSUME NEW i \in DOMAIN spec.overrides PROVE spec.overrides[i].min \in Nat \union {None}
  <2>1. spec.overrides[i] \in Overrides
    BY <1>1, LenProperties, ElementOfSeq
  <2> QED
    BY <2>1 DEF Overrides
<1> QED
  BY <1>1, <1>2 DEF Limits, Minima

\* What is left of a list of reservations when the expired ones are dropped.
LEMMA ValidType ==
  ASSUME NEW S, NEW list \in Seq(S), NEW t
  PROVE  Valid(list, t) \in Seq(S) /\ Len(Valid(list, t)) <= Len(list)
<1> DEFINE P == {i \in DOMAIN list : list[i].exp > t}
<1>1. P \in SUBSET DOMAIN list
  OBVIOUS
<1>2. Valid(list, t) = Keep(list, P)
  BY DEF Valid
<1> HIDE DEF P
<1> QED
  BY <1>1, <1>2, KeepType

LEMMA ReservedType ==
  ASSUME NEW list \in Seq(ReservationSet), NEW t
  PROVE  Reserved(list, t) \in Nat
<1> DEFINE v == Valid(list, t)
           n == [i \in DOMAIN v |-> v[i].replicas]
<1>1. v \in Seq(ReservationSet)
  BY ValidType
<1> HIDE DEF v
<1>2. Len(v) \in Nat /\ DOMAIN v = 1..Len(v)
  BY <1>1, LenProperties
<1>3. ASSUME NEW i \in DOMAIN v PROVE n[i] \in Int
  <2>1. v[i] \in ReservationSet
    BY <1>1, <1>2, ElementOfSeq
  <2> QED
    BY <2>1 DEF ReservationSet
<1>4. IsFiniteSet(DOMAIN v)
  <2>1. 1 \in Int /\ Len(v) \in Int
    BY <1>2
  <2> QED
    BY <1>2, <2>1, FS_Interval
<1>5. Reserved(list, t) = Total(n, DOMAIN v)
  BY DEF Reserved, v
<1> HIDE DEF n
<1> QED
  BY <1>3, <1>4, <1>5, TotalType

\* A delivery changes the length of a list by one at most, and only a queued job adds to it.
LEMMA RescaledType ==
  ASSUME now \in Nat, NEW copy \in Seq(ReservationSet), NEW amount \in {1, -1}
  PROVE  /\ Rescaled(copy, amount) \in Seq(ReservationSet)
         /\ amount = 1 => Len(Rescaled(copy, amount)) <= Len(copy) + 1
         /\ amount = -1 => Len(Rescaled(copy, amount)) <= Len(copy)
<1> DEFINE v == Valid(copy, now)
           first == {i \in DOMAIN v : v[i].replicas + amount = 0}
           fresh == [eff |-> now, exp |-> now + Duration, replicas |-> amount]
<1>0. Rescaled(copy, amount) = IF amount > 0 THEN Append(v, fresh)
                               ELSE IF first = {} THEN v ELSE RemoveAt(v, Min(first))
  BY DEF Rescaled
<1>1. v \in Seq(ReservationSet) /\ Len(v) <= Len(copy) /\ Len(v) \in Nat /\ Len(copy) \in Nat
  BY ValidType, LenProperties
<1>2. CASE amount = 1
  <2>1. fresh \in ReservationSet
    BY <1>2, AutoscalerAssumption DEF ReservationSet
  <2>2. Rescaled(copy, amount) = Append(v, fresh)
    BY <1>0, <1>2
  <2> HIDE DEF v, fresh
  <2>3. Append(v, fresh) \in Seq(ReservationSet) /\ Len(Append(v, fresh)) = Len(v) + 1
    BY <1>1, <2>1, AppendProperties
  <2> QED
    BY <1>1, <1>2, <2>2, <2>3
<1>3. CASE amount = -1
  <2>1. CASE first = {}
    <3>1. Rescaled(copy, amount) = v
      BY <1>0, <1>3, <2>1
    <3> QED
      BY <1>1, <1>3, <3>1
  <2>2. CASE first # {}
    <3> DEFINE k == Min(first)
               before == SubSeq(v, 1, k - 1)
               after == SubSeq(v, k + 1, Len(v))
    <3>1. k \in first
      <4>1. first \in SUBSET Nat
        BY <1>1
      <4> HIDE DEF first
      <4> QED
        BY <2>2, <4>1, MinIsLeast
    <3>2. Rescaled(copy, amount) = before \o after
      <4>1. RemoveAt(v, Min(first)) = before \o after
        BY DEF RemoveAt
      <4> HIDE DEF v, first, before, after
      <4> QED
        BY <1>0, <1>3, <2>2, <4>1
    <3>3. k \in 1..Len(v)
      BY <1>1, <3>1
    <3> HIDE DEF k, v, first
    <3>4. \A i \in 1..Len(v) : v[i] \in ReservationSet
      BY <1>1, ElementOfSeq
    <3>5. before \in Seq(ReservationSet) /\ Len(before) = k - 1
      <4>1. 1 \in Int /\ k - 1 \in Int /\ \A i \in 1..(k - 1) : v[i] \in ReservationSet
        BY <1>1, <3>3, <3>4
      <4>2. /\ before \in Seq(ReservationSet)
            /\ Len(before) = IF 1 <= k - 1 THEN (k - 1) - 1 + 1 ELSE 0
        BY <4>1, SubSeqProperties
      <4> HIDE DEF before
      <4> QED
        BY <3>3, <4>2, <1>1
    <3>6. after \in Seq(ReservationSet) /\ Len(after) = Len(v) - k
      <4>1. k + 1 \in Int /\ Len(v) \in Int /\ \A i \in (k + 1)..Len(v) : v[i] \in ReservationSet
        BY <1>1, <3>3, <3>4
      <4>2. /\ after \in Seq(ReservationSet)
            /\ Len(after) = IF k + 1 <= Len(v) THEN Len(v) - (k + 1) + 1 ELSE 0
        BY <4>1, SubSeqProperties
      <4> HIDE DEF after
      <4> QED
        BY <3>3, <4>2, <1>1
    <3> HIDE DEF before, after
    <3>7. /\ before \o after \in Seq(ReservationSet)
          /\ Len(before \o after) = Len(before) + Len(after)
      BY <3>5, <3>6, ConcatProperties
    <3>8. Len(before) + Len(after) <= Len(copy)
      BY <1>1, <3>3, <3>5, <3>6
    <3>9. Rescaled(copy, amount) \in Seq(ReservationSet)
      BY <3>2, <3>7
    <3>10. Len(Rescaled(copy, amount)) <= Len(copy)
      BY <3>2, <3>7, <3>8
    <3>11. amount # 1
      BY <1>3
    <3> QED
      BY <3>9, <3>10, <3>11
  <2> QED
    BY <2>1, <2>2
<1> QED
  BY <1>2, <1>3

LEMMA BusyType ==
  ASSUME NEW m \in BusyMetrics, NEW n \in Nat \union {None}, NEW busy \in Nat
  PROVE  SuggestByBusy(m, n, busy) \in Int
<1> DEFINE before == IF n = None THEN 1 ELSE n
           up     == IF before = 0 THEN busy > 0
                                   ELSE 100 * busy >= OrDefault(m, "up") * before
           down   == before # 0 /\ 100 * busy < OrDefault(m, "down") * before
           grown  == Ceil(before * OrDefault(m, "upFactor"), 100)
           shrunk == (before * OrDefault(m, "downFactor")) \div 100
<1>1. before \in Nat
  OBVIOUS
<1>2. m.upAdjustment \in Int /\ m.downAdjustment \in Int
  BY DEF BusyMetrics
<1>3. OrDefault(m, "upFactor") \in Int /\ OrDefault(m, "downFactor") \in Int
  BY DEF BusyMetrics, OrDefault, defaultBusy
<1>4. SuggestByBusy(m, n, busy)
        = IF BusyMetricInvalid(m) THEN Err
          ELSE IF up THEN IF m.upAdjustment > 0 THEN before + m.upAdjustment ELSE grown
          ELSE IF down THEN IF m.downAdjustment > 0 THEN before - m.downAdjustment ELSE shrunk
          ELSE IF n = None THEN Panic ELSE n
  BY DEF SuggestByBusy
<1>5. grown \in Int /\ shrunk \in Int
  <2> HIDE DEF before
  <2>1. /\ before * OrDefault(m, "upFactor") \in Int
        /\ before * OrDefault(m, "downFactor") \in Int
    BY <1>1, <1>3
  <2> QED
    BY <2>1 DEF Ceil
<1> HIDE DEF before, up, down, grown, shrunk
<1> QED
  BY <1>1, <1>2, <1>4, <1>5

\* Between two limits a number is clamped to another one between limits.
LEMMA ClampWithin ==
  ASSUME NEW n \in Int, NEW L \in SUBSET Nat, NEW lo \in L, NEW hi \in L
  PROVE  /\ Clamp(n, lo, hi) \in Nat
         /\ \E low, high \in L : low <= Clamp(n, lo, hi) /\ Clamp(n, lo, hi) <= high
<1>1. \/ Clamp(n, lo, hi) = lo \/ Clamp(n, lo, hi) = hi
      \/ Clamp(n, lo, hi) = n /\ lo <= n /\ n <= hi
  BY DEF Clamp
<1> QED
  BY <1>1

\* What the controller computes lies within the limits, and so does what it holds on to.
LEMMA ComputedWithin ==
  ASSUME SpecAssumption(spec), spec.max # None, now \in Nat,
         NEW copy \in HRASet, Within(copy.desired),
         NEW min \in Minima, NEW suggested \in Int
  PROVE  LET n == computeReplicas(spec, copy, now, min, suggested)
         IN n \in Nat /\ Within(n)
<1> DEFINE base == (IF suggested = None THEN min ELSE suggested) + Reserved(copy.reservations, now)
           wanted == Clamp(base, min, spec.max)
<1>1. Limits \subseteq Nat /\ min \in Limits /\ spec.max \in Limits
  BY LimitsAreNumbers DEF Limits
<1>2. Reserved(copy.reservations, now) \in Nat
  BY ReservedType DEF HRASet
<1>3. base \in Int
  BY <1>1, <1>2
<1> HIDE DEF base
<1>5. wanted \in Nat
  BY <1>1, <1>3, ClampWithin
<1>6. \E low, high \in Limits : low <= wanted /\ wanted <= high
  BY <1>1, <1>3, ClampWithin
<1>7. computeReplicas(spec, copy, now, min, suggested) = wanted
      \/ /\ computeReplicas(spec, copy, now, min, suggested) = copy.desired
         /\ copy.desired # None
  BY DEF computeReplicas, wanted, base
<1>8. copy.desired \in Nat \union {None}
  BY DEF HRASet
<1> QED
  BY <1>5, <1>6, <1>7, <1>8 DEF Within

-----------------------------------------------------------------------------
(* Types and limits *)

ReplicaInv == TypeOK /\ AcceptInv /\ BoundInv

LEMMA SameSets ==
  ASSUME UNCHANGED now
  PROVE  /\ HRASet' = HRASet /\ TargetSet' = TargetSet /\ ReconcileSet' = ReconcileSet
         /\ ReservationSet' = ReservationSet
BY DEF HRASet, TargetSet, ReconcileSet, ReservationSet, Times

LEMMA SameLimits ==
  ASSUME UNCHANGED spec
  PROVE  Limits' = Limits
BY DEF Limits, Minima

LEMMA AnswersKept == AnswersOK /\ answers' = answers => AnswersOK'
BY DEF AnswersOK

\* What GitHub answers, or has answered, has its type.
LEMMA AnswerType ==
  ASSUME AnswersOK, job \in [Jobs -> Statuses], NEW q \in Requests, NEW early \in SUBSET Runs
  PROVE  Answer(q, early) \in AnswerSet(q)
<1>1. CASE q \in DOMAIN answers
  BY <1>1 DEF Answer, AnswersOK
<1>2. CASE q \notin DOMAIN answers /\ q \in early
  <2>1. q \in Runs /\ q # "runners"
    BY <1>2, AutoscalerAssumption
  <2>2. <<>> \in [{} -> Statuses] /\ {} \in SUBSET JobsOf[q]
    OBVIOUS
  <2>3. <<>> \in UNION {[js -> Statuses] : js \in SUBSET JobsOf[q]}
    BY <2>2
  <2> QED
    BY <1>2, <2>1, <2>3 DEF Answer, AnswerSet
<1>3. CASE q \notin DOMAIN answers /\ q \notin early
  <2>1. CASE q = "runners"
    BY <1>3, <2>1 DEF Answer, AnswerSet, Current, InProgress
  <2>2. CASE q # "runners" /\ q \in Runs
    <3> DEFINE js == {i \in JobsOf[q] : job[i] # "none"}
               list == [j \in js |-> job[j]]
    <3>1. js \in SUBSET JobsOf[q] /\ \A j \in js : job[j] \in Statuses
      BY <2>2 DEF Jobs
    <3>2. list \in [js -> Statuses]
      BY <3>1
    <3>3. Answer(q, early) = list
      BY <1>3, <2>2 DEF Answer, Current
    <3> HIDE DEF js, list
    <3> QED
      BY <2>2, <3>1, <3>2, <3>3 DEF AnswerSet
  <2>3. CASE q # "runners" /\ q \notin Runs
    <3>1. \A r \in Runs : RunStatus(r) \in Statuses
      BY DEF RunStatus
    <3> QED
      BY <1>3, <2>3, <3>1 DEF Answer, AnswerSet, Current
  <2> QED
    BY <2>1, <2>2, <2>3
<1> QED
  BY <1>1, <1>2, <1>3

\* The HTTP cache keeps answers.
LEMMA CachedType ==
  ASSUME TypeOK, NEW qs \in SUBSET Requests, NEW early \in SUBSET Runs,
         answers' = Cached(qs, early)
  PROVE  AnswersOK'
<1>1. CASE "github" \notin lag
  BY <1>1, AnswersKept DEF Cached, TypeOK
<1>2. CASE "github" \in lag
  <2>1. answers' = [q \in DOMAIN answers \union qs |-> Answer(q, early)]
    BY <1>2 DEF Cached
  <2>2. DOMAIN answers' = DOMAIN answers \union qs /\ DOMAIN answers \subseteq Requests
    BY <2>1 DEF TypeOK, AnswersOK
  <2>3. ASSUME NEW q \in DOMAIN answers' PROVE answers'[q] \in AnswerSet(q)
    <3>1. answers'[q] = Answer(q, early) /\ q \in Requests
      BY <2>1, <2>2
    <3> QED
      BY <3>1, AnswerType DEF TypeOK
  <2> QED
    BY <2>2, <2>3 DEF AnswersOK, AnswerSet
<1> QED
  BY <1>1, <1>2

LEMMA IdleTyped ==
  ASSUME now \in Nat
  PROVE  NewHRA \in HRASet /\ IdleReconcile \in ReconcileSet
<1>1. NewHRA \in HRASet
  BY EmptySeq DEF NewHRA, HRASet, Times
<1> QED
  BY <1>1 DEF IdleReconcile, ReconcileSet, TargetSet, Times

LEMMA ReplicaInit == Init => ReplicaInv
<1> SUFFICES ASSUME Init PROVE ReplicaInv
  OBVIOUS
<1>1. now = 0 /\ now \in Nat /\ now \in 0..MaxTime
  BY AutoscalerAssumption DEF Init
<1>2. NewHRA \in HRASet /\ IdleReconcile \in ReconcileSet
  BY <1>1, IdleTyped
<1>3. TypeOK
  <2>1. spec \in UNION {scenario.specs : scenario \in Scenarios}
    BY DEF Init
  <2>2. target \in TargetSet /\ targetView \in TargetSet
    BY AutoscalerAssumption DEF Init, TargetSet, Times
  <2>3. hookView \in Seq(ReservationSet)
    BY EmptySeq DEF Init
  <2>4. /\ job \in [Jobs -> Statuses]
        /\ mail \in [Jobs \X Actions -> 0..2]
    BY DEF Init
  <2>5. fails \in 0..MaxFails /\ resynced \in BOOLEAN
    <3>1. fails \in 0..MaxFails
      BY AutoscalerAssumption DEF Init
    <3>2. resynced \in BOOLEAN
      BY DEF Init
    <3> QED
      BY <3>1, <3>2
  <2>6. AnswersOK
    BY DEF Init, AnswersOK
  <2> QED
    BY <1>1, <1>2, <2>1, <2>2, <2>3, <2>4, <2>5, <2>6 DEF TypeOK, Init
<1>4. AcceptInv
  BY DEF AcceptInv, Init, IdleReconcile
<1>5. BoundInv
  <2>1. target.replicas \in InitialReplicas
    BY DEF Init
  <2> QED
    BY <2>1 DEF BoundInv, Within, Init, IdleReconcile, NewHRA
<1> QED
  BY <1>3, <1>4, <1>5 DEF ReplicaInv

\* What GitHub and the webhook server do leaves the numbers of replicas alone.
LEMMA ReplicasUntouched ==
  ASSUME ReplicaInv, UNCHANGED <<now, spec, target, view, ctl>>, hra'.desired = hra.desired
  PROVE  AcceptInv' /\ BoundInv'
<1>1. Limits' = Limits
  BY SameLimits
<1>2. BoundInv'
  BY <1>1 DEF ReplicaInv, BoundInv, Within
<1>3. AcceptInv'
  BY DEF ReplicaInv, AcceptInv, SpecRejected, Primary
<1> QED
  BY <1>2, <1>3

LEMMA ReplicaRunRequested ==
  ASSUME ReplicaInv, NEW r \in Runs, RunRequested(r)
  PROVE  ReplicaInv'
<1>1. UNCHANGED <<now, spec, lag, hra, hookView, target, ctlVars, fails>>
  BY DEF RunRequested
<1>2. /\ HRASet' = HRASet /\ TargetSet' = TargetSet /\ ReconcileSet' = ReconcileSet
      /\ ReservationSet' = ReservationSet
  BY <1>1, SameSets
<1>3. job' \in [Jobs -> Statuses]
  BY DEF RunRequested, ReplicaInv, TypeOK
<1>4. mail' \in [Jobs \X Actions -> 0..2]
  BY DEF RunRequested, ReplicaInv, TypeOK
<1>5. TypeOK'
  BY <1>1, <1>2, <1>3, <1>4, AnswersKept DEF TypeOK, ReplicaInv, ctlVars
<1> QED
  BY <1>1, <1>5, ReplicasUntouched DEF ReplicaInv, ctlVars

LEMMA ReplicaJobStarts ==
  ASSUME ReplicaInv, NEW j \in Jobs, JobStarts(j)
  PROVE  ReplicaInv'
<1>1. UNCHANGED <<now, spec, lag, hra, target, hookVars, ctlVars, fails>>
  BY DEF JobStarts
<1>2. /\ HRASet' = HRASet /\ TargetSet' = TargetSet /\ ReconcileSet' = ReconcileSet
      /\ ReservationSet' = ReservationSet
  BY <1>1, SameSets
<1>3. job' \in [Jobs -> Statuses]
  BY DEF JobStarts, ReplicaInv, TypeOK
<1>4. TypeOK'
  BY <1>1, <1>2, <1>3, AnswersKept DEF TypeOK, ReplicaInv, ctlVars, hookVars
<1> QED
  BY <1>1, <1>4, ReplicasUntouched DEF ReplicaInv, ctlVars

LEMMA ReplicaJobEnds ==
  ASSUME ReplicaInv, NEW j \in Jobs, JobEnds(j)
  PROVE  ReplicaInv'
<1>1. UNCHANGED <<now, spec, lag, hra, hookView, target, ctlVars, fails>>
  BY DEF JobEnds
<1>2. /\ HRASet' = HRASet /\ TargetSet' = TargetSet /\ ReconcileSet' = ReconcileSet
      /\ ReservationSet' = ReservationSet
  BY <1>1, SameSets
<1>3. job' \in [Jobs -> Statuses]
  BY DEF JobEnds, ReplicaInv, TypeOK
<1>4. mail' \in [Jobs \X Actions -> 0..2]
  BY DEF JobEnds, ReplicaInv, TypeOK, Actions
<1>5. TypeOK'
  BY <1>1, <1>2, <1>3, <1>4, AnswersKept DEF TypeOK, ReplicaInv, ctlVars
<1> QED
  BY <1>1, <1>5, ReplicasUntouched DEF ReplicaInv, ctlVars

LEMMA ReplicaMisdeliver ==
  ASSUME ReplicaInv, NEW e \in Jobs \X Actions, Misdeliver(e)
  PROVE  ReplicaInv'
<1>1. UNCHANGED <<now, spec, lag, hra, hookView, target, job, ctlVars>>
  BY DEF Misdeliver
<1>2. /\ HRASet' = HRASet /\ TargetSet' = TargetSet /\ ReconcileSet' = ReconcileSet
      /\ ReservationSet' = ReservationSet
  BY <1>1, SameSets
<1>3. mail' \in [Jobs \X Actions -> 0..2]
  BY DEF Misdeliver, ReplicaInv, TypeOK
<1>4. fails' \in 0..MaxFails
  BY AutoscalerAssumption DEF Misdeliver, ReplicaInv, TypeOK
<1>5. TypeOK'
  BY <1>1, <1>2, <1>3, <1>4, AnswersKept DEF TypeOK, ReplicaInv, ctlVars
<1> QED
  BY <1>1, <1>5, ReplicasUntouched DEF ReplicaInv, ctlVars

LEMMA ReplicaTryScale ==
  ASSUME ReplicaInv, NEW e \in Jobs \X Actions, tryScale(e)
  PROVE  ReplicaInv'
<1> DEFINE copy == CachedReservations
           list == Rescaled(copy, IF e[2] = "queued" THEN 1 ELSE -1)
<1>1. UNCHANGED <<now, spec, lag, hookView, target, ctlVars, job, fails>>
  BY DEF tryScale
<1>2. /\ HRASet' = HRASet /\ TargetSet' = TargetSet /\ ReconcileSet' = ReconcileSet
      /\ ReservationSet' = ReservationSet
  BY <1>1, SameSets
<1>3. mail' \in [Jobs \X Actions -> 0..2]
  <2>1. mail[e] \in 0..2 /\ mail[e] > 0
    BY DEF tryScale, ReplicaInv, TypeOK
  <2>2. mail[e] - 1 \in 0..2
    BY <2>1
  <2>3. mail' = [mail EXCEPT ![e] = mail[e] - 1]
    BY DEF tryScale
  <2> QED
    BY <2>2, <2>3 DEF ReplicaInv, TypeOK
<1>4. copy \in Seq(ReservationSet)
  BY DEF CachedReservations, ReplicaInv, TypeOK, HRASet
<1>5. list \in Seq(ReservationSet)
  <2>1. now \in Nat /\ (IF e[2] = "queued" THEN 1 ELSE -1) \in {1, -1}
    BY AutoscalerAssumption DEF ReplicaInv, TypeOK
  <2> HIDE DEF copy
  <2> QED
    BY <1>4, <2>1, RescaledType
<1>6. hra' = hra \/ hra' = [hra EXCEPT !.reservations = list]
  BY DEF tryScale
<1> HIDE DEF list
<1>7. hra' \in HRASet /\ hra'.desired = hra.desired
  BY <1>5, <1>6 DEF ReplicaInv, TypeOK, HRASet
<1>8. TypeOK'
  BY <1>1, <1>2, <1>3, <1>7, AnswersKept DEF TypeOK, ReplicaInv, ctlVars
<1> QED
  BY <1>1, <1>7, <1>8, ReplicasUntouched DEF ReplicaInv, ctlVars

LEMMA ReplicaSyncHookView ==
  ASSUME ReplicaInv, SyncHookView
  PROVE  ReplicaInv'
<1>1. UNCHANGED <<now, spec, lag, hra, mail, target, ctlVars, job, fails>>
  BY DEF SyncHookView
<1>2. /\ HRASet' = HRASet /\ TargetSet' = TargetSet /\ ReconcileSet' = ReconcileSet
      /\ ReservationSet' = ReservationSet
  BY <1>1, SameSets
<1>3. hookView' \in Seq(ReservationSet)
  BY DEF SyncHookView, ReplicaInv, TypeOK, HRASet
<1>4. TypeOK'
  BY <1>1, <1>2, <1>3, AnswersKept DEF TypeOK, ReplicaInv, ctlVars
<1> QED
  BY <1>1, <1>4, ReplicasUntouched DEF ReplicaInv, ctlVars

\* No time that was recorded lies in the future when time has passed.
LEMMA LaterSets ==
  ASSUME now \in Nat, now' = now + 1
  PROVE  /\ HRASet \subseteq HRASet' /\ TargetSet \subseteq TargetSet'
         /\ ReconcileSet \subseteq ReconcileSet'
         /\ Seq(ReservationSet) \subseteq Seq(ReservationSet')
<1>1. Times \subseteq Times' /\ ReservationSet \subseteq ReservationSet'
  BY DEF Times, ReservationSet
<1>2. ASSUME NEW list \in Seq(ReservationSet) PROVE list \in Seq(ReservationSet')
  <2>1. Len(list) \in Nat /\ list \in [1..Len(list) -> ReservationSet]
    BY LenProperties
  <2>2. list \in [1..Len(list) -> ReservationSet']
    BY <1>1, <2>1
  <2> QED
    BY <2>1, <2>2
<1>3. HRASet \subseteq HRASet'
  BY <1>1, <1>2 DEF HRASet
<1>4. TargetSet \subseteq TargetSet'
  BY <1>1 DEF TargetSet
<1>5. ReconcileSet \subseteq ReconcileSet'
  BY <1>3, <1>4 DEF ReconcileSet
<1> QED
  BY <1>2, <1>3, <1>4, <1>5

LEMMA ReplicaTick ==
  ASSUME ReplicaInv, Tick
  PROVE  ReplicaInv'
<1>1. /\ UNCHANGED <<spec, lag, hra, hookVars, view, targetView, answers, ctl, target, job, fails>>
      /\ ctl.pc = "idle"
  BY DEF Tick
<1>2. now \in Nat /\ now' = now + 1 /\ now' \in 0..MaxTime
  BY AutoscalerAssumption DEF Tick, ReplicaInv, TypeOK
<1>3. /\ HRASet \subseteq HRASet' /\ TargetSet \subseteq TargetSet'
      /\ ReconcileSet \subseteq ReconcileSet'
      /\ Seq(ReservationSet) \subseteq Seq(ReservationSet')
  BY <1>2, LaterSets
<1>4. resynced' \in BOOLEAN
  BY DEF Tick
<1>5. TypeOK'
  BY <1>1, <1>2, <1>3, <1>4, AnswersKept DEF TypeOK, ReplicaInv, hookVars
<1>6. AcceptInv'
  BY <1>1 DEF AcceptInv
<1>7. Limits' = Limits
  BY <1>1, SameLimits
<1>8. BoundInv'
  BY <1>1, <1>7 DEF ReplicaInv, BoundInv, Within
<1> QED
  BY <1>5, <1>6, <1>8 DEF ReplicaInv

LEMMA ReplicaSyncView ==
  ASSUME ReplicaInv, SyncView
  PROVE  ReplicaInv'
<1>1. UNCHANGED <<now, spec, lag, hra, hookVars, target, answers, ctl, resynced, job, fails>>
  BY DEF SyncView
<1>2. /\ HRASet' = HRASet /\ TargetSet' = TargetSet /\ ReconcileSet' = ReconcileSet
      /\ ReservationSet' = ReservationSet
  BY <1>1, SameSets
<1>3. view' \in {view, hra} /\ targetView' \in {targetView, target}
  BY DEF SyncView
<1>4. TypeOK'
  BY <1>1, <1>2, <1>3, AnswersKept DEF TypeOK, ReplicaInv, hookVars
<1>5. Limits' = Limits
  BY <1>1, SameLimits
<1>6. BoundInv'
  BY <1>1, <1>3, <1>5 DEF ReplicaInv, BoundInv, Within
<1>7. AcceptInv'
  BY <1>1 DEF ReplicaInv, AcceptInv, SpecRejected, Primary
<1> QED
  BY <1>4, <1>6, <1>7 DEF ReplicaInv

\* A step of the Reconcile that writes nothing, and keeps its copy or forgets it.
LEMMA ReplicaControllerStep ==
  ASSUME ReplicaInv, ctl' \in ReconcileSet,
         UNCHANGED <<now, spec, lag, hra, view, hookVars, target, targetView, job, resynced>>,
         fails' \in 0..MaxFails, AnswersOK',
         ctl'.pc # "idle" => ~ SpecRejected,
         ctl'.pc = "busy" => spec.metrics # <<>> /\ Primary = "busy",
         ctl'.hra.desired \in {None, hra.desired, view.desired, ctl.hra.desired},
         ctl'.new \in {None, ctl.new}
  PROVE  ReplicaInv'
<1>1. /\ HRASet' = HRASet /\ TargetSet' = TargetSet /\ ReconcileSet' = ReconcileSet
      /\ ReservationSet' = ReservationSet
  BY SameSets
<1>2. TypeOK'
  BY <1>1 DEF TypeOK, ReplicaInv, hookVars
<1>3. Limits' = Limits
  BY SameLimits
<1>4. BoundInv'
  BY <1>3 DEF ReplicaInv, BoundInv, Within
<1>5. AcceptInv'
  BY DEF ReplicaInv, AcceptInv, SpecRejected, Primary
<1> QED
  BY <1>2, <1>4, <1>5 DEF ReplicaInv

LEMMA ReplicaReconcile ==
  ASSUME ReplicaInv, Reconcile
  PROVE  ReplicaInv'
<1>1. /\ UNCHANGED <<now, spec, lag, hra, view, hookVars, target, targetView, job, resynced, fails>>
      /\ ~ SpecRejected /\ answers' = answers
  BY DEF Reconcile
<1>2. now \in Nat /\ fails \in 0..MaxFails /\ hra \in HRASet /\ view \in HRASet
      /\ target \in TargetSet /\ targetView \in TargetSet
  BY DEF ReplicaInv, TypeOK
<1>3. IdleReconcile \in ReconcileSet
  BY <1>2, IdleTyped
<1>4. /\ ctl' \in ReconcileSet
      /\ ctl'.pc = "busy" => spec.metrics # <<>> /\ Primary = "busy"
      /\ ctl'.hra \in {hra, view}
      /\ ctl'.new = None
  BY ZenonT(60), <1>2, <1>3 DEF Reconcile, ReconcileSet, IdleReconcile
<1>5. AnswersOK'
  BY <1>1, AnswersKept DEF ReplicaInv, TypeOK
<1> QED
  BY <1>1, <1>2, <1>4, <1>5, ReplicaControllerStep

\* What becomes of the Reconcile when a metric has been evaluated.
LEMMA SuggestedCases ==
  ASSUME NEW i, NEW s
  PROVE  \/ Suggested(i, s) = IdleReconcile
         \/ Suggested(i, s) = [ctl EXCEPT !.pc = "target", !.suggested = s]
         \/ Suggested(i, s) = [ctl EXCEPT !.pc = "target"] /\ ~ (s > 0)
         \/ Suggested(i, s) = [ctl EXCEPT !.pc = "queued"] /\ i # 2 /\ Primary = "busy"
BY DEF Suggested

LEMMA SuggestedTyped ==
  ASSUME ReplicaInv, NEW i, NEW s \in Int
  PROVE  /\ Suggested(i, s) \in ReconcileSet
         /\ Suggested(i, s).pc # "busy"
         /\ Suggested(i, s).hra.desired \in {None, ctl.hra.desired}
         /\ Suggested(i, s).new \in {None, ctl.new}
<1>1. ctl \in ReconcileSet /\ now \in Nat
  BY DEF ReplicaInv, TypeOK
<1>2. IdleReconcile \in ReconcileSet
  BY <1>1, IdleTyped
<1>3. CASE Suggested(i, s) = IdleReconcile
  BY <1>2, <1>3 DEF IdleReconcile, NewHRA
<1>4. CASE Suggested(i, s) = [ctl EXCEPT !.pc = "target", !.suggested = s]
  BY <1>1, <1>4 DEF ReconcileSet
<1>5. CASE Suggested(i, s) = [ctl EXCEPT !.pc = "target"]
  BY <1>1, <1>5 DEF ReconcileSet
<1>6. CASE Suggested(i, s) = [ctl EXCEPT !.pc = "queued"]
  BY <1>1, <1>6 DEF ReconcileSet
<1> QED
  BY <1>3, <1>4, <1>5, <1>6, SuggestedCases

LEMMA JobsFinite ==
  /\ IsFiniteSet(Jobs)
  /\ \A S \in SUBSET Jobs : IsFiniteSet(S) /\ Cardinality(S) \in Nat
<1>1. IsFiniteSet(Jobs)
  BY AutoscalerAssumption, FiniteFamily DEF Jobs
<1> QED
  BY <1>1, FS_Subset, FS_CardinalityType

\* The answers to the two kinds of lists.
LEMMA ListType ==
  ASSUME TypeOK, NEW q \in {"queued", "in_progress"}
  PROVE  Answer(q, {}) \in [Runs -> Statuses]
<1>1. Answer(q, {}) \in AnswerSet(q)
  BY AnswerType DEF TypeOK, Requests
<1> QED
  BY <1>1, AutoscalerAssumption DEF AnswerSet

LEMMA JobListType ==
  ASSUME TypeOK, NEW r \in Runs, NEW early \in SUBSET Runs
  PROVE  DOMAIN Answer(r, early) \in SUBSET JobsOf[r]
<1>1. Answer(r, early) \in AnswerSet(r)
  BY AnswerType DEF TypeOK, Requests
<1>2. Answer(r, early) \in UNION {[js -> Statuses] : js \in SUBSET JobsOf[r]}
  BY <1>1, AutoscalerAssumption DEF AnswerSet
<1> QED
  BY <1>2

LEMMA ReplicaBusy ==
  ASSUME ReplicaInv, SuggestByPercentageRunnersBusy
  PROVE  ReplicaInv'
<1>0. PICK busy \in SUBSET Answer("runners", {}) :
        /\ UNCHANGED <<now, spec, lag, hra, view, hookVars, target, targetView, job, resynced, fails>>
        /\ ctl.pc = "busy" /\ answers' = Cached({"runners"}, {})
        /\ ctl' = Suggested(1, SuggestByBusy(spec.metrics[1], ctl.st.replicas, Cardinality(busy)))
  BY DEF SuggestByPercentageRunnersBusy
<1> DEFINE s == SuggestByBusy(spec.metrics[1], ctl.st.replicas, Cardinality(busy))
<1>1. /\ UNCHANGED <<now, spec, lag, hra, view, hookVars, target, targetView, job, resynced, fails>>
      /\ ctl.pc = "busy" /\ ctl' = Suggested(1, s)
  BY <1>0
<1>2. ~ SpecRejected /\ spec.metrics # <<>> /\ Primary = "busy" /\ fails \in 0..MaxFails
  BY <1>1 DEF ReplicaInv, AcceptInv, TypeOK
<1>3. spec.metrics[1] \in BusyMetrics
  <2>1. spec.metrics \in Seq(BusyMetrics \union OtherMetrics)
    BY SpecTyped DEF ReplicaInv, SpecAssumption
  <2>2. 1 \in 1..Len(spec.metrics)
    BY <1>2, <2>1, EmptySeq
  <2>3. spec.metrics[1] \in BusyMetrics \union OtherMetrics
    BY <2>1, <2>2, ElementOfSeq
  <2> QED
    BY <1>2, <2>3 DEF OtherMetrics, Primary
<1>4. Cardinality(busy) \in Nat
  <2>1. Answer("runners", {}) \in AnswerSet("runners")
    BY AnswerType DEF ReplicaInv, TypeOK, Requests
  <2>2. busy \in SUBSET Jobs
    BY <2>1 DEF AnswerSet
  <2> QED
    BY <2>2, JobsFinite
<1>5. ctl.st.replicas \in Nat \union {None}
  BY DEF ReplicaInv, TypeOK, ReconcileSet, TargetSet
<1>6. s \in Int
  BY <1>3, <1>4, <1>5, BusyType
<1> HIDE DEF s
<1>7. /\ ctl' \in ReconcileSet /\ ctl'.pc # "busy"
      /\ ctl'.hra.desired \in {None, ctl.hra.desired} /\ ctl'.new \in {None, ctl.new}
  BY <1>1, <1>6, SuggestedTyped
<1>8. AnswersOK'
  BY <1>0, CachedType DEF ReplicaInv, Requests
<1> QED
  BY <1>1, <1>2, <1>7, <1>8, ReplicaControllerStep

LEMMA ReplicaListQueuedRuns ==
  ASSUME ReplicaInv, ListQueuedRuns
  PROVE  ReplicaInv'
<1> DEFINE runs == Answer("queued", {})
           found == RunsWith(runs, repos, "queued")
<1>1. /\ UNCHANGED <<now, spec, lag, hra, view, hookVars, target, targetView, job, resynced, fails>>
      /\ ctl.pc = "queued"
      /\ answers' = answers \/ answers' = Cached({"queued"}, {})
      /\ \/ ctl' = IdleReconcile
         \/ ctl' = [ctl EXCEPT !.pc = "in_progress", !.shown = runs, !.queued = found]
  BY DEF ListQueuedRuns
<1>2. ~ SpecRejected /\ now \in Nat /\ ctl \in ReconcileSet /\ fails \in 0..MaxFails
  BY <1>1 DEF ReplicaInv, AcceptInv, TypeOK
<1>3. AnswersOK'
  BY <1>1, AnswersKept, CachedType DEF ReplicaInv, TypeOK, Requests
<1>4. CASE ctl' = IdleReconcile
  <2>1. ctl' \in ReconcileSet
    BY <1>2, <1>4, IdleTyped
  <2>2. ctl'.pc # "busy" /\ ctl'.hra.desired = None /\ ctl'.new = None
    BY <1>4 DEF IdleReconcile, NewHRA
  <2> QED
    BY <1>1, <1>2, <1>3, <2>1, <2>2, ReplicaControllerStep
<1>5. CASE ctl' = [ctl EXCEPT !.pc = "in_progress", !.shown = runs, !.queued = found]
  <2>1. runs \in [Runs -> Statuses] /\ found \in SUBSET Runs
    BY ListType DEF ReplicaInv, RunsWith
  <2> HIDE DEF runs, found
  <2>2. ctl' \in ReconcileSet
    BY <1>2, <1>5, <2>1 DEF ReconcileSet
  <2>3. ctl'.pc # "busy" /\ ctl'.hra.desired = ctl.hra.desired /\ ctl'.new = ctl.new
    BY <1>2, <1>5 DEF ReconcileSet
  <2> QED
    BY <1>1, <1>2, <1>3, <2>2, <2>3, ReplicaControllerStep
<1> QED
  BY <1>1, <1>4, <1>5

LEMMA ReplicaListInProgressRuns ==
  ASSUME ReplicaInv, ListInProgressRuns
  PROVE  ReplicaInv'
<1> DEFINE runs == Answer("in_progress", {})
           found == RunsWith(runs, repos, "in_progress")
<1>0. PICK due \in SUBSET Runs :
        /\ UNCHANGED <<now, spec, lag, hra, view, hookVars, target, targetView, job, resynced, fails>>
        /\ ctl.pc = "in_progress" /\ answers' = Cached({"in_progress"}, {})
        /\ ctl' = [ctl EXCEPT !.pc = "jobs", !.inProgress = found, !.shown = IdleReconcile.shown,
                              !.waiting = UNION {JobsOf[r] : r \in due}]
  BY DEF ListInProgressRuns
<1>1. /\ UNCHANGED <<now, spec, lag, hra, view, hookVars, target, targetView, job, resynced, fails>>
      /\ ctl.pc = "in_progress"
  BY <1>0
<1>2. ~ SpecRejected /\ ctl \in ReconcileSet /\ fails \in 0..MaxFails
  BY <1>1 DEF ReplicaInv, AcceptInv, TypeOK
<1>3. found \in SUBSET Runs /\ UNION {JobsOf[r] : r \in due} \in SUBSET Jobs
  BY DEF RunsWith, Jobs
<1>4. IdleReconcile.shown \in [Runs -> Statuses]
  BY DEF IdleReconcile
<1> HIDE DEF found
<1>5. ctl' \in ReconcileSet
  BY <1>0, <1>2, <1>3, <1>4 DEF ReconcileSet
<1>6. ctl'.pc # "busy" /\ ctl'.hra.desired = ctl.hra.desired /\ ctl'.new = ctl.new
  BY <1>0, <1>2 DEF ReconcileSet
<1>7. AnswersOK'
  BY <1>0, CachedType DEF ReplicaInv, Requests
<1> QED
  BY <1>1, <1>2, <1>5, <1>6, <1>7, ReplicaControllerStep

\* What is counted of the runs of a list.
Count(runs, failing, early) ==
    UNION {{r} \X CountedJobs(JobRecords(Answer(r, early)), Target) : r \in runs \ failing}

LEMMA CountFinite ==
  ASSUME TypeOK, NEW runs \in SUBSET Runs, NEW failing, NEW early \in SUBSET Runs
  PROVE  /\ IsFiniteSet(Count(runs, failing, early))
         /\ Cardinality(Count(runs, failing, early)) \in Nat
<1> DEFINE S == runs \ failing
           counted(r) == CountedJobs(JobRecords(Answer(r, early)), Target)
           f == [r \in S |-> {r} \X counted(r)]
<1>1. IsFiniteSet(S)
  BY AutoscalerAssumption, FS_Subset
<1>2. ASSUME NEW r \in S PROVE IsFiniteSet(f[r])
  <2> DEFINE list == Answer(r, early)
             J == DOMAIN list
             R == JobRecords(list)
             g == [j \in J |-> [id |-> j, status |-> list[j], labels |-> JobLabels[j]]]
  <2>1. IsFiniteSet(J)
    <3>1. J \in SUBSET JobsOf[r] /\ r \in Runs
      BY JobListType
    <3> HIDE DEF J
    <3> QED
      BY <3>1, AutoscalerAssumption, FS_Subset
  <2>2. g \in Surjection(J, R)
    <3> HIDE DEF list
    <3> QED
      BY DEF Surjection, JobRecords
  <2>3. IsFiniteSet(R)
    <3> HIDE DEF g, J, R
    <3> QED
      BY <2>1, <2>2, FS_Surjection
  <2>4. counted(r) = {None} \/ counted(r) \in SUBSET R
    BY DEF CountedJobs
  <2>5. IsFiniteSet(counted(r))
    <3> HIDE DEF R, counted
    <3> QED
      BY <2>3, <2>4, FS_Subset, FS_Singleton
  <2>6. IsFiniteSet({r} \X counted(r))
    <3> HIDE DEF counted
    <3> QED
      BY <2>5, FS_Singleton, FS_Product
  <2> QED
    BY <2>6
<1>3. Count(runs, failing, early) = UNION {f[r] : r \in S}
  BY DEF Count
<1>4. IsFiniteSet(UNION {f[r] : r \in S})
  <2> HIDE DEF S, f
  <2> QED
    BY <1>1, <1>2, FiniteFamily
<1> HIDE DEF f, S
<1> QED
  BY <1>3, <1>4, FS_CardinalityType

LEMMA ReplicaCountJobs ==
  ASSUME ReplicaInv, NEW failing, NEW early, CountJobs(failing, early)
  PROVE  ReplicaInv'
<1> DEFINE n == Cardinality(Count(ctl.queued, failing, early))
                  + Cardinality(Count(ctl.inProgress, failing, early))
           c == Suggested(runsMetric, n)
           d == Cardinality(failing \union early)
<1>1. /\ UNCHANGED <<now, spec, lag, hra, view, hookVars, target, targetView, job, resynced>>
      /\ ctl.pc = "jobs"
      /\ failing \union early \subseteq ctl.queued \union ctl.inProgress
      /\ fails + d <= MaxFails /\ fails' = fails + d
      /\ ctl' = [c EXCEPT !.waiting = UNION {@ \intersect DOMAIN Answer(r, early) :
                                               r \in Runs \ failing},
                          !.queued = {}, !.inProgress = {}]
      /\ answers' = Cached((ctl.queued \union ctl.inProgress) \ failing, early)
  BY DEF CountJobs, Count
<1>2. ~ SpecRejected /\ ctl \in ReconcileSet /\ fails \in 0..MaxFails
  BY <1>1 DEF ReplicaInv, AcceptInv, TypeOK
<1>3. /\ ctl.queued \in SUBSET Runs /\ ctl.inProgress \in SUBSET Runs
      /\ early \in SUBSET Runs
  BY <1>1, <1>2 DEF ReconcileSet
<1>4. n \in Nat
  BY <1>3, CountFinite DEF ReplicaInv
<1>5. d \in Nat
  <2> DEFINE F == failing \union early
  <2>1. F \in SUBSET Runs
    BY <1>1, <1>3
  <2>2. IsFiniteSet(F)
    <3> HIDE DEF F
    <3> QED
      BY <2>1, AutoscalerAssumption, FS_Subset
  <2> QED
    BY <2>2, FS_CardinalityType
<1>6. fails' \in 0..MaxFails
  <2> HIDE DEF d
  <2> QED
    BY <1>1, <1>2, <1>5, AutoscalerAssumption
<1> HIDE DEF n, d
<1>7. /\ c \in ReconcileSet /\ c.pc # "busy"
      /\ c.hra.desired \in {None, ctl.hra.desired} /\ c.new \in {None, ctl.new}
  BY <1>4, SuggestedTyped
<1> HIDE DEF c
<1>8. ctl' \in ReconcileSet
  <2>1. UNION {c.waiting \intersect DOMAIN Answer(r, early) : r \in Runs \ failing} \in SUBSET Jobs
    BY <1>7 DEF ReconcileSet
  <2> QED
    BY <1>1, <1>7, <2>1 DEF ReconcileSet
<1>9. ctl'.pc = c.pc /\ ctl'.hra = c.hra /\ ctl'.new = c.new
  BY <1>1, <1>7 DEF ReconcileSet
<1>10. AnswersOK'
  BY <1>1, <1>3, CachedType DEF ReplicaInv, Requests
<1> QED
  BY <1>1, <1>2, <1>6, <1>7, <1>8, <1>9, <1>10, ReplicaControllerStep

LEMMA ReplicaReconcileFails ==
  ASSUME ReplicaInv, ReconcileFails
  PROVE  ReplicaInv'
<1>1. /\ UNCHANGED <<now, spec, lag, hra, view, hookVars, target, targetView, job, resynced>>
      /\ ctl' = IdleReconcile /\ answers' = answers
  BY DEF ReconcileFails
<1>2. fails' \in 0..MaxFails
  BY AutoscalerAssumption DEF ReconcileFails, ReplicaInv, TypeOK
<1>3. ctl' \in ReconcileSet
  BY <1>1, IdleTyped DEF ReplicaInv, TypeOK
<1>4. ctl'.pc = "idle" /\ ctl'.hra.desired = None /\ ctl'.new = None
  BY <1>1 DEF IdleReconcile, NewHRA
<1>5. AnswersOK'
  BY <1>1, AnswersKept DEF ReplicaInv, TypeOK
<1> QED
  BY <1>1, <1>2, <1>3, <1>4, <1>5, ReplicaControllerStep

LEMMA ReplicaExpire ==
  ASSUME ReplicaInv, NEW q \in Requests, Expire(q)
  PROVE  ReplicaInv'
<1>1. /\ UNCHANGED <<now, spec, lag, hra, view, hookVars, target, targetView, ctl, resynced, job, fails>>
      /\ answers' = [p \in DOMAIN answers \ {q} |-> answers[p]]
  BY DEF Expire
<1>2. AnswersOK'
  BY <1>1 DEF ReplicaInv, TypeOK, AnswersOK, AnswerSet
<1>3. /\ HRASet' = HRASet /\ TargetSet' = TargetSet /\ ReconcileSet' = ReconcileSet
      /\ ReservationSet' = ReservationSet
  BY <1>1, SameSets
<1>4. TypeOK'
  BY <1>1, <1>2, <1>3 DEF TypeOK, ReplicaInv, hookVars
<1> QED
  BY <1>1, <1>4, ReplicasUntouched DEF ReplicaInv

LEMMA ReplicaUpdateTarget ==
  ASSUME ReplicaInv, UpdateTarget
  PROVE  ReplicaInv'
<1> DEFINE min == getMinReplicas(now, spec)
           new == computeReplicas(spec, ctl.hra, now, min, ctl.suggested)
           eff == {ctl.hra.reservations[i].eff : i \in DOMAIN ctl.hra.reservations}
           stamped == Target.ephemeral /\ eff # {} /\ Max(eff) # ctl.st.effective
<1>1. /\ UNCHANGED <<now, spec, lag, hra, view, hookVars, targetView, job, answers, resynced, fails>>
      /\ ctl.pc = "target"
      /\ target' = [replicas  |-> IF Replicas(ctl.st) # new THEN new ELSE target.replicas,
                    effective |-> IF stamped THEN Max(eff) ELSE target.effective]
      /\ ctl' = [IdleReconcile EXCEPT !.pc = "status", !.new = new,
                                      !.hra.desired = ctl.hra.desired]
  BY DEF UpdateTarget
<1>2. /\ ~ SpecRejected /\ SpecAssumption(spec) /\ now \in Nat
      /\ ctl \in ReconcileSet /\ target \in TargetSet
  BY <1>1, SpecTyped DEF ReplicaInv, AcceptInv, TypeOK
<1>3. new \in Nat /\ Within(new)
  <2>1. min \in Minima /\ spec.max # None
    BY <1>2, MinimumIsLimit DEF SpecRejected
  <2>2. ctl.hra \in HRASet /\ ctl.suggested \in Int
    BY <1>2 DEF ReconcileSet
  <2>3. Within(ctl.hra.desired)
    BY DEF ReplicaInv, BoundInv
  <2> HIDE DEF min
  <2> QED
    BY <1>2, <2>1, <2>2, <2>3, ComputedWithin
<1>4. eff # {} => Max(eff) \in 0..now
  <2>1. ctl.hra.reservations \in Seq(ReservationSet)
    BY <1>2 DEF ReconcileSet, HRASet
  <2>2. \A i \in DOMAIN ctl.hra.reservations : ctl.hra.reservations[i] \in ReservationSet
    BY <2>1, LenProperties, ElementOfSeq
  <2>3. eff \in SUBSET (0..now)
    BY <2>2 DEF ReservationSet
  <2> HIDE DEF eff
  <2> QED
    BY <1>2, <2>3, MaxIsGreatest
<1> HIDE DEF new, eff, min
<1>5. target' \in TargetSet
  BY <1>1, <1>2, <1>3, <1>4 DEF TargetSet, Times
<1>6. target'.replicas \in {new, target.replicas}
  BY <1>1
<1>7. ctl' \in ReconcileSet /\ ctl'.pc = "status" /\ ctl'.new = new
      /\ ctl'.hra.desired = ctl.hra.desired
  <2> DEFINE copy == [NewHRA EXCEPT !.desired = ctl.hra.desired]
  <2>1. copy \in HRASet /\ copy.desired = ctl.hra.desired
    <3>1. NewHRA \in HRASet /\ ctl.hra.desired \in Nat \union {None}
      BY <1>2, IdleTyped DEF ReconcileSet, HRASet
    <3> QED
      BY <3>1 DEF HRASet
  <2>2. IdleReconcile \in ReconcileSet
    BY <1>2, IdleTyped
  <2>3. ctl' = [IdleReconcile EXCEPT !.pc = "status", !.new = new, !.hra = copy]
    BY <1>1 DEF IdleReconcile
  <2> HIDE DEF copy
  <2> QED
    BY <1>3, <2>1, <2>2, <2>3 DEF ReconcileSet
<1>8. TypeOK'
  <2>1. /\ HRASet' = HRASet /\ TargetSet' = TargetSet /\ ReconcileSet' = ReconcileSet
        /\ ReservationSet' = ReservationSet
    BY <1>1, SameSets
  <2> QED
    BY <1>1, <1>5, <1>7, <2>1, AnswersKept DEF ReplicaInv, TypeOK, hookVars
<1>9. AcceptInv'
  BY <1>1, <1>2, <1>7 DEF AcceptInv, SpecRejected, Primary
<1>10. BoundInv'
  <2>1. Limits' = Limits
    BY <1>1, SameLimits
  <2> QED
    BY <1>1, <1>3, <1>6, <1>7, <2>1 DEF ReplicaInv, BoundInv, Within
<1> QED
  BY <1>8, <1>9, <1>10 DEF ReplicaInv

LEMMA ReplicaPatchStatus ==
  ASSUME ReplicaInv, PatchStatus
  PROVE  ReplicaInv'
<1>1. /\ UNCHANGED <<now, spec, lag, view, hookVars, target, targetView, job, answers, fails>>
      /\ ctl' = IdleReconcile /\ resynced' = (now >= Horizon)
  BY DEF PatchStatus
<1>2. now \in Nat /\ hra \in HRASet /\ ctl \in ReconcileSet
  BY DEF ReplicaInv, TypeOK
<1>3. \E d \in {ctl.new, hra.desired}, t \in {now, hra.lastScaleOut} :
        hra' = [hra EXCEPT !.desired = d, !.lastScaleOut = t]
  BY DEF PatchStatus
<1>4. PICK d \in {ctl.new, hra.desired}, t \in {now, hra.lastScaleOut} :
        hra' = [hra EXCEPT !.desired = d, !.lastScaleOut = t]
  BY <1>3
<1>5. d \in Nat \union {None} /\ t \in Times
  BY <1>2 DEF ReconcileSet, HRASet, Times
<1>6. hra' \in HRASet /\ hra'.desired = d
  BY <1>2, <1>4, <1>5 DEF HRASet
<1>7. ctl' \in ReconcileSet
  BY <1>1, <1>2, IdleTyped
<1>8. resynced' \in BOOLEAN
  BY <1>1
<1>9. TypeOK'
  <2>1. /\ HRASet' = HRASet /\ TargetSet' = TargetSet /\ ReconcileSet' = ReconcileSet
        /\ ReservationSet' = ReservationSet
    BY <1>1, SameSets
  <2> QED
    BY <1>1, <1>6, <1>7, <1>8, <2>1, AnswersKept DEF ReplicaInv, TypeOK, hookVars
<1>10. ctl'.pc = "idle" /\ ctl'.hra.desired = None /\ ctl'.new = None
  BY <1>1 DEF IdleReconcile, NewHRA
<1>11. AcceptInv'
  BY <1>10 DEF AcceptInv
<1>12. BoundInv'
  <2>1. Limits' = Limits
    BY <1>1, SameLimits
  <2> QED
    BY <1>1, <1>4, <1>6, <1>10, <2>1 DEF ReplicaInv, BoundInv, Within
<1> QED
  BY <1>9, <1>11, <1>12 DEF ReplicaInv

LEMMA ReplicaNext == ReplicaInv /\ [Next]_vars => ReplicaInv'
<1> SUFFICES ASSUME ReplicaInv, [Next]_vars PROVE ReplicaInv'
  OBVIOUS
<1>1. CASE \E r \in Runs : RunRequested(r)
  BY <1>1, ReplicaRunRequested
<1>2. CASE \E j \in Jobs : JobStarts(j) \/ JobEnds(j)
  BY <1>2, ReplicaJobStarts, ReplicaJobEnds
<1>3. CASE \E e \in Jobs \X Actions : Misdeliver(e) \/ tryScale(e)
  BY <1>3, ReplicaMisdeliver, ReplicaTryScale
<1>4. CASE Tick \/ SyncHookView \/ SyncView
  BY <1>4, ReplicaTick, ReplicaSyncHookView, ReplicaSyncView
<1>5. CASE ControllerStep
  BY <1>5, ReplicaReconcile, ReplicaBusy, ReplicaListQueuedRuns, ReplicaListInProgressRuns,
     ReplicaCountJobs, ReplicaUpdateTarget, ReplicaPatchStatus DEF ControllerStep
<1>6. CASE \E r \in Runs : CountJobs({r}, {}) \/ CountJobs({}, {r})
  BY <1>6, ReplicaCountJobs
<1>7. CASE ReconcileFails \/ \E q \in Requests : Expire(q)
  BY <1>7, ReplicaReconcileFails, ReplicaExpire
<1>8. CASE UNCHANGED vars
  <2>1. UNCHANGED <<now, spec, target, view, ctl, hra>>
    BY <1>8 DEF vars
  <2>2. AcceptInv' /\ BoundInv'
    BY <2>1, ReplicasUntouched
  <2>3. /\ HRASet' = HRASet /\ TargetSet' = TargetSet /\ ReconcileSet' = ReconcileSet
        /\ ReservationSet' = ReservationSet
    BY <2>1, SameSets
  <2>4. TypeOK'
    BY <1>8, <2>3, AnswersKept DEF ReplicaInv, TypeOK, vars
  <2> QED
    BY <2>2, <2>4 DEF ReplicaInv
<1> QED
  BY <1>1, <1>2, <1>3, <1>4, <1>5, <1>6, <1>7, <1>8 DEF Next

\* Every variable keeps its type; no reservation, no scale-out and no effective time that
\* any copy holds lies in the future.
THEOREM TypeCorrect == Safety => []TypeOK
<1>1. Init => ReplicaInv
  BY ReplicaInit
<1>2. ReplicaInv /\ [Next]_vars => ReplicaInv'
  BY ReplicaNext
<1>3. ReplicaInv => TypeOK
  BY DEF ReplicaInv
<1> QED
  BY <1>1, <1>2, <1>3, PTL DEF Safety

\* Whatever the metrics, the reservations, the stale copies and the scale-down delay are,
\* the numbers of replicas that the controller writes stay within the limits.
THEOREM StaysWithinBounds == Safety => []ReplicasWithinBounds
<1>1. Init => ReplicaInv
  BY ReplicaInit
<1>2. ReplicaInv /\ [Next]_vars => ReplicaInv'
  BY ReplicaNext
<1>3. ReplicaInv => ReplicasWithinBounds
  BY DEF ReplicaInv, BoundInv, Within, ReplicasWithinBounds
<1> QED
  BY <1>1, <1>2, <1>3, PTL DEF Safety

-----------------------------------------------------------------------------
(* Reservations *)

Mail == [Jobs \X Actions -> 0..2]

LEMMA IncomingFinite ==
  ASSUME NEW m
  PROVE  IsFiniteSet(Incoming(m)) /\ Cardinality(Incoming(m)) \in Nat
<1>1. IsFiniteSet(1..2)
  <2>1. 1 \in Int /\ 2 \in Int
    OBVIOUS
  <2> QED
    BY <2>1, FS_Interval
<1>2. IsFiniteSet(Jobs \X (1..2))
  BY <1>1, JobsFinite, FS_Product
<1>3. Incoming(m) \in SUBSET (Jobs \X (1..2))
  BY DEF Incoming
<1> QED
  BY <1>2, <1>3, FS_Subset, FS_CardinalityType

\* Only the number of deliveries about queued jobs matters.
LEMMA OtherMail ==
  ASSUME NEW m, NEW n, \A j \in Jobs : n[<<j, "queued">>] = m[<<j, "queued">>]
  PROVE  Incoming(n) = Incoming(m)
BY DEF Incoming

LEMMA OneLess ==
  ASSUME NEW m \in Mail, NEW j \in Jobs, m[<<j, "queued">>] > 0,
         NEW n, n = [m EXCEPT ![<<j, "queued">>] = m[<<j, "queued">>] - 1]
  PROVE  Cardinality(Incoming(n)) = Cardinality(Incoming(m)) - 1
<1> DEFINE k == m[<<j, "queued">>]
<1>1. k \in 1..2 /\ <<j, "queued">> \in Jobs \X Actions
  BY DEF Mail, Actions
<1>2. <<j, k>> \in Incoming(m)
  BY <1>1 DEF Incoming
<1>3. \A i \in Jobs : i # j => n[<<i, "queued">>] = m[<<i, "queued">>]
  BY DEF Mail, Actions
<1>4. n[<<j, "queued">>] = k - 1
  BY <1>1 DEF Mail
<1>5. \A x \in 1..2 : x <= k - 1 <=> (x <= k /\ x # k)
  BY <1>1
<1>6. Incoming(n) = Incoming(m) \ {<<j, k>>}
  <2> HIDE DEF k
  <2>1. ASSUME NEW i \in Jobs, NEW x \in 1..2
        PROVE  x <= n[<<i, "queued">>] <=> (x <= m[<<i, "queued">>] /\ <<i, x>> # <<j, k>>)
    <3>1. CASE i = j
      BY <1>4, <1>5, <3>1 DEF k
    <3>2. CASE i # j
      BY <1>3, <3>2
    <3> QED
      BY <3>1, <3>2
  <2> QED
    BY <2>1 DEF Incoming
<1> HIDE DEF k
<1> QED
  BY <1>2, <1>6, IncomingFinite, FS_RemoveElement

\* A delivery that is lost or made twice.
LEMMA OneMore ==
  ASSUME NEW m \in Mail, NEW e \in Jobs \X Actions, m[e] > 0, NEW x \in {0, 2},
         NEW n, n = [m EXCEPT ![e] = x]
  PROVE  Cardinality(Incoming(n)) <= Cardinality(Incoming(m)) + 1
<1> DEFINE p == <<e[1], 2>>
<1>1. Incoming(n) \in SUBSET (Incoming(m) \union {p})
  <2>1. ASSUME NEW i \in Jobs, NEW k \in 1..2, k <= n[<<i, "queued">>]
        PROVE  k <= m[<<i, "queued">>] \/ <<i, k>> = p
    <3>1. CASE e = <<i, "queued">>
      <4>1. m[e] \in {1, 2} /\ e[1] = i
        BY <3>1 DEF Mail
      <4>2. k = 1 \/ k = 2
        OBVIOUS
      <4> QED
        BY <3>1, <4>1, <4>2
    <3>2. CASE e # <<i, "queued">>
      BY <2>1, <3>2 DEF Mail, Actions
    <3> QED
      BY <3>1, <3>2
  <2> HIDE DEF p
  <2> QED
    BY <2>1 DEF Incoming
<1> HIDE DEF p
<1> DEFINE S == Incoming(m)
           T == Incoming(m) \union {p}
<1>2. IsFiniteSet(S) /\ Cardinality(S) \in Nat /\ Cardinality(Incoming(n)) \in Nat
  BY IncomingFinite
<1>3. IsFiniteSet(T) /\ Cardinality(T) = IF p \in S THEN Cardinality(S) ELSE Cardinality(S) + 1
  <2> HIDE DEF S
  <2> QED
    BY <1>2, FS_AddElement DEF S
<1>4. Cardinality(Incoming(n)) <= Cardinality(T)
  <2>1. Incoming(n) \in SUBSET T
    BY <1>1
  <2> HIDE DEF T
  <2> QED
    BY <1>3, <2>1, FS_Subset
<1> HIDE DEF S, T
<1>5. Cardinality(Incoming(n)) <= Cardinality(S) + 1
  BY <1>2, <1>3, <1>4
<1> QED
  BY <1>5 DEF S

\* The deliveries of a run that is requested.
LEMMA RunMore ==
  ASSUME NEW m \in Mail, NEW n \in Mail, NEW R \in SUBSET Jobs,
         \A j \in Jobs : \/ n[<<j, "queued">>] = m[<<j, "queued">>]
                         \/ j \in R /\ n[<<j, "queued">>] = 1
  PROVE  Cardinality(Incoming(n)) <= Cardinality(Incoming(m)) + Cardinality(R)
<1> DEFINE New == R \X {1}
<1>1. Incoming(n) \in SUBSET (Incoming(m) \union New)
  <2>1. ASSUME NEW j \in Jobs, NEW k \in 1..2, k <= n[<<j, "queued">>]
        PROVE  k <= m[<<j, "queued">>] \/ <<j, k>> \in New
    <3>1. CASE n[<<j, "queued">>] = m[<<j, "queued">>]
      BY <2>1, <3>1
    <3>2. CASE j \in R /\ n[<<j, "queued">>] = 1
      <4>1. k = 1
        BY <2>1, <3>2
      <4> QED
        BY <3>2, <4>1
    <3> QED
      BY <3>1, <3>2
  <2> HIDE DEF New
  <2>2. ASSUME NEW p \in Jobs \X (1..2), p[2] <= n[<<p[1], "queued">>]
        PROVE  p[2] <= m[<<p[1], "queued">>] \/ p \in New
    <3>1. p[1] \in Jobs /\ p[2] \in 1..2 /\ p = <<p[1], p[2]>>
      OBVIOUS
    <3> QED
      BY <2>1, <2>2, <3>1
  <2> QED
    BY <2>2 DEF Incoming
<1>2. IsFiniteSet(R) /\ Cardinality(R) \in Nat
  BY JobsFinite
<1>3. IsFiniteSet(New) /\ Cardinality(New) = Cardinality(R)
  <2>1. IsFiniteSet({1}) /\ Cardinality({1}) = 1
    BY FS_Singleton
  <2>2. IsFiniteSet(New) /\ Cardinality(New) = Cardinality(R) * Cardinality({1})
    BY <1>2, <2>1, FS_Product
  <2> QED
    BY <1>2, <2>1, <2>2
<1> HIDE DEF New
<1>4. /\ IsFiniteSet(Incoming(m) \union New)
      /\ Cardinality(Incoming(m) \union New)
           = Cardinality(Incoming(m)) + Cardinality(New) - Cardinality(Incoming(m) \intersect New)
  BY <1>3, IncomingFinite, FS_Union
<1>5. Cardinality(Incoming(m) \intersect New) \in Nat
  BY IncomingFinite, FS_Intersection, FS_CardinalityType
<1>6. Cardinality(Incoming(n)) <= Cardinality(Incoming(m) \union New)
  BY <1>1, <1>4, FS_Subset
<1> QED
  BY <1>2, <1>3, <1>4, <1>5, <1>6, IncomingFinite

LEMMA MoreRoom ==
  ASSUME NEW l \in Nat, NEW i \in Nat, NEW r \in Nat, NEW f \in Nat, l + i <= r + f,
         NEW ii \in Nat, NEW rr \in Nat, NEW ff \in Nat,
         ii + r + f <= i + rr + ff
  PROVE  l + ii <= rr + ff
OBVIOUS

LEMMA RequestedSize ==
  /\ Requested \in SUBSET Jobs /\ Cardinality(Requested) \in Nat
  /\ Requested' \in SUBSET Jobs /\ Cardinality(Requested') \in Nat
<1>1. Requested \in SUBSET Jobs /\ Requested' \in SUBSET Jobs
  BY DEF Requested
<1> QED
  BY <1>1, JobsFinite

LEMMA ListLengths ==
  ASSUME TypeOK
  PROVE  /\ Len(hra.reservations) \in Nat /\ Len(hookView) \in Nat
         /\ hra.reservations \in Seq(ReservationSet) /\ hookView \in Seq(ReservationSet)
         /\ fails \in Nat /\ mail \in Mail
<1>1. /\ hra.reservations \in Seq(ReservationSet) /\ hookView \in Seq(ReservationSet)
  BY DEF TypeOK, HRASet
<1>2. fails \in Nat /\ mail \in Mail
  BY AutoscalerAssumption DEF TypeOK, Mail
<1> QED
  BY <1>1, <1>2, LenProperties

\* A step that writes no list, and adds as many jobs or faults as deliveries.
LEMMA RoomKept ==
  ASSUME TypeOK, fails' \in Nat, CapacityInv,
         hra'.reservations = hra.reservations, hookView' \in {hookView, hra.reservations},
         Cardinality(Incoming(mail')) + Cardinality(Requested) + fails
           <= Cardinality(Incoming(mail)) + Cardinality(Requested') + fails'
  PROVE  CapacityInv'
<1> DEFINE i == Cardinality(Incoming(mail))
           ii == Cardinality(Incoming(mail'))
           r == Cardinality(Requested)
           rr == Cardinality(Requested')
<1>1. i \in Nat /\ ii \in Nat /\ r \in Nat /\ rr \in Nat /\ fails \in Nat /\ fails' \in Nat
  BY IncomingFinite, RequestedSize, ListLengths
<1>2. ASSUME NEW l \in Nat, l + i <= r + fails PROVE l + ii <= rr + fails'
  <2>1. ii + r + fails <= i + rr + fails'
    OBVIOUS
  <2> HIDE DEF i, ii, r, rr
  <2> QED
    BY <1>1, <1>2, <2>1, MoreRoom
<1>3. Len(hra.reservations) + i <= r + fails /\ Len(hookView) + i <= r + fails
  BY DEF CapacityInv, Room
<1> HIDE DEF i, ii, r, rr
<1>4. Len(hra.reservations) + ii <= rr + fails' /\ Len(hookView) + ii <= rr + fails'
  BY <1>2, <1>3, ListLengths
<1>5. Len(hra'.reservations) + ii <= rr + fails' /\ Len(hookView') + ii <= rr + fails'
  BY <1>4
<1> QED
  BY <1>5 DEF CapacityInv, Room, ii, rr

\* Most steps do not touch deliveries, jobs or lists.
LEMMA RoomUntouched ==
  ASSUME TypeOK, fails' \in Nat, CapacityInv, fails <= fails',
         hra'.reservations = hra.reservations, hookView' \in {hookView, hra.reservations},
         mail' = mail, job' = job
  PROVE  CapacityInv'
<1>1. Requested' = Requested
  BY DEF Requested
<1> DEFINE i == Cardinality(Incoming(mail))
           r == Cardinality(Requested)
<1>2. i \in Nat /\ r \in Nat /\ fails \in Nat
  BY IncomingFinite, RequestedSize, ListLengths
<1>3. i + r + fails <= i + r + fails'
  <2> HIDE DEF i, r
  <2> QED
    BY <1>2
<1>4. Cardinality(Incoming(mail')) + Cardinality(Requested) + fails
        <= Cardinality(Incoming(mail)) + Cardinality(Requested') + fails'
  BY <1>1, <1>3
<1> QED
  BY <1>4, RoomKept

LEMMA CapacityRunRequested ==
  ASSUME TypeOK, TypeOK', CapacityInv, NEW r \in Runs, RunRequested(r)
  PROVE  CapacityInv'
<1>1. hra' = hra /\ hookView' = hookView /\ fails' = fails
  BY DEF RunRequested
<1>2. mail \in Mail /\ mail' \in Mail /\ fails \in Nat
  BY ListLengths DEF TypeOK, Mail
<1>3. JobsOf[r] \in SUBSET Jobs
  BY DEF Jobs
<1>4. \A j \in JobsOf[r] : job[j] = "none"
  <2>1. {job[j] : j \in JobsOf[r]} = {"none"}
    BY DEF RunRequested, RunStatus
  <2> QED
    BY <2>1
<1>5. \A j \in Jobs : \/ mail'[<<j, "queued">>] = mail[<<j, "queued">>]
                      \/ j \in JobsOf[r] /\ mail'[<<j, "queued">>] = 1
  BY <1>2 DEF RunRequested, Mail, Actions
<1>6. Cardinality(Incoming(mail')) <= Cardinality(Incoming(mail)) + Cardinality(JobsOf[r])
  BY <1>2, <1>3, <1>5, RunMore
<1>7. Requested' = Requested \union JobsOf[r] /\ Requested \intersect JobsOf[r] = {}
  BY <1>3, <1>4 DEF Requested, RunRequested
<1>8. /\ IsFiniteSet(JobsOf[r]) /\ Cardinality(JobsOf[r]) \in Nat
      /\ IsFiniteSet(Requested)
  BY <1>3, JobsFinite, RequestedSize
<1>9. Cardinality(Requested') = Cardinality(Requested) + Cardinality(JobsOf[r])
  <2>1. Cardinality(Requested \union JobsOf[r])
          = Cardinality(Requested) + Cardinality(JobsOf[r])
              - Cardinality(Requested \intersect JobsOf[r])
    BY <1>8, FS_Union
  <2>2. Cardinality(Requested \intersect JobsOf[r]) = 0
    BY <1>7, FS_EmptySet
  <2> QED
    BY <1>7, <1>8, <2>1, <2>2, RequestedSize
<1>10. Cardinality(Incoming(mail')) + Cardinality(Requested) + fails
         <= Cardinality(Incoming(mail)) + Cardinality(Requested') + fails'
  <2> DEFINE i == Cardinality(Incoming(mail))
             ii == Cardinality(Incoming(mail'))
             q == Cardinality(Requested)
             qq == Cardinality(Requested')
             k == Cardinality(JobsOf[r])
  <2>1. i \in Nat /\ ii \in Nat /\ q \in Nat /\ qq \in Nat /\ k \in Nat
    BY <1>8, IncomingFinite, RequestedSize
  <2>2. ii <= i + k /\ qq = q + k
    BY <1>6, <1>9
  <2> HIDE DEF i, ii, q, qq, k
  <2>3. ii + q + fails <= i + qq + fails
    BY <1>2, <2>1, <2>2
  <2> QED
    BY <1>1, <2>3 DEF i, ii, q, qq
<1> QED
  BY <1>1, <1>2, <1>10, RoomKept

LEMMA CapacityJobMoves ==
  ASSUME TypeOK, TypeOK', CapacityInv, NEW j \in Jobs, JobStarts(j) \/ JobEnds(j)
  PROVE  CapacityInv'
<1>1. hra' = hra /\ hookView' = hookView /\ fails' = fails
  BY DEF JobStarts, JobEnds, hookVars
<1>2. mail \in Mail /\ mail' \in Mail /\ fails \in Nat
  BY ListLengths DEF TypeOK, Mail
<1>3. \A i \in Jobs : mail'[<<i, "queued">>] = mail[<<i, "queued">>]
  <2>1. mail' = mail \/ mail' = [mail EXCEPT ![<<j, "completed">>] = 1]
    BY DEF JobStarts, JobEnds, hookVars
  <2> QED
    BY <1>2, <2>1 DEF Mail, Actions
<1>4. Incoming(mail') = Incoming(mail)
  BY <1>3, OtherMail
<1>5. Requested' = Requested
  BY DEF Requested, JobStarts, JobEnds, TypeOK
<1>6. Cardinality(Incoming(mail')) + Cardinality(Requested) + fails
        <= Cardinality(Incoming(mail)) + Cardinality(Requested') + fails'
  <2> DEFINE i == Cardinality(Incoming(mail))
             q == Cardinality(Requested)
  <2>1. i \in Nat /\ q \in Nat
    BY IncomingFinite, RequestedSize
  <2> HIDE DEF i, q
  <2>2. i + q + fails <= i + q + fails
    BY <1>2, <2>1
  <2> QED
    BY <1>1, <1>4, <1>5, <2>2 DEF i, q
<1> QED
  BY <1>1, <1>2, <1>6, RoomKept

LEMMA CapacityMisdeliver ==
  ASSUME TypeOK, TypeOK', CapacityInv, NEW e \in Jobs \X Actions, Misdeliver(e)
  PROVE  CapacityInv'
<1>1. hra' = hra /\ hookView' = hookView /\ fails' = fails + 1 /\ job' = job /\ mail[e] > 0
  BY DEF Misdeliver
<1>2. mail \in Mail /\ fails \in Nat
  BY ListLengths
<1>3. PICK x \in {0, 2} : mail' = [mail EXCEPT ![e] = x]
  BY DEF Misdeliver
<1>4. Cardinality(Incoming(mail')) <= Cardinality(Incoming(mail)) + 1
  BY <1>1, <1>2, <1>3, OneMore
<1>5. Requested' = Requested
  BY <1>1 DEF Requested
<1>6. Cardinality(Incoming(mail')) + Cardinality(Requested) + fails
        <= Cardinality(Incoming(mail)) + Cardinality(Requested') + fails'
  <2> DEFINE i == Cardinality(Incoming(mail))
             ii == Cardinality(Incoming(mail'))
             q == Cardinality(Requested)
  <2>1. i \in Nat /\ ii \in Nat /\ q \in Nat
    BY IncomingFinite, RequestedSize
  <2>2. ii <= i + 1
    BY <1>4
  <2> HIDE DEF i, ii, q
  <2>3. ii + q + fails <= i + q + (fails + 1)
    BY <1>2, <2>1, <2>2
  <2> QED
    BY <1>1, <1>5, <2>3 DEF i, ii, q
<1> QED
  BY <1>1, <1>2, <1>6, RoomKept

\* The list that is written has no more elements than the copy and the delivery account for.
LEMMA CapacityTryScale ==
  ASSUME TypeOK, TypeOK', CapacityInv, NEW e \in Jobs \X Actions, tryScale(e)
  PROVE  CapacityInv'
<1> DEFINE copy == CachedReservations
           amount == IF e[2] = "queued" THEN 1 ELSE -1
           list == Rescaled(copy, amount)
           i == Cardinality(Incoming(mail))
           ii == Cardinality(Incoming(mail'))
           q == Cardinality(Requested)
<1>1. /\ mail[e] > 0 /\ mail' = [mail EXCEPT ![e] = mail[e] - 1]
      /\ hra'.reservations \in {hra.reservations, list}
      /\ hookView' = hookView /\ job' = job /\ fails' = fails
  <2>1. hra' = hra \/ hra' = [hra EXCEPT !.reservations = list]
    BY DEF tryScale
  <2>2. hra'.reservations \in {hra.reservations, list}
    <3> HIDE DEF list
    <3> QED
      BY <2>1 DEF TypeOK, HRASet
  <2> QED
    BY <2>2 DEF tryScale
<1>2. /\ Len(hra.reservations) \in Nat /\ Len(hookView) \in Nat
      /\ hra.reservations \in Seq(ReservationSet) /\ hookView \in Seq(ReservationSet)
      /\ fails \in Nat /\ mail \in Mail
  BY ListLengths
<1>3. copy \in {hookView, hra.reservations}
  BY DEF CachedReservations
<1>4. copy \in Seq(ReservationSet) /\ Len(copy) \in Nat
  BY <1>2, <1>3
<1>5. now \in Nat /\ amount \in {1, -1}
  BY DEF TypeOK
<1>6. i \in Nat /\ ii \in Nat /\ q \in Nat
  BY IncomingFinite, RequestedSize
<1>7. Requested' = Requested
  BY <1>1 DEF Requested
<1>8. /\ Len(hra.reservations) + i <= q + fails /\ Len(hookView) + i <= q + fails
      /\ Len(copy) + i <= q + fails
  BY <1>3 DEF CapacityInv, Room
<1> HIDE DEF copy, i, ii, q
<1>9. list \in Seq(ReservationSet) /\ Len(list) \in Nat
  <2>1. list \in Seq(ReservationSet)
    BY <1>4, <1>5, RescaledType
  <2> HIDE DEF list
  <2> QED
    BY <2>1, LenProperties
<1>10. Len(list) + ii <= q + fails /\ ii <= i
  <2>1. CASE e[2] = "queued"
    <3>1. e = <<e[1], "queued">> /\ e[1] \in Jobs
      BY <2>1
    <3>2. ii = i - 1
      BY <1>1, <1>2, <3>1, OneLess DEF i, ii
    <3>3. amount = 1
      BY <2>1
    <3>4. Len(list) <= Len(copy) + 1
      <4> HIDE DEF amount
      <4> QED
        BY <1>4, <1>5, <3>3, RescaledType
    <3> HIDE DEF list
    <3> QED
      BY <1>2, <1>4, <1>6, <1>8, <1>9, <3>2, <3>4
  <2>2. CASE e[2] # "queued"
    <3>1. \A j \in Jobs : mail'[<<j, "queued">>] = mail[<<j, "queued">>]
      BY <1>1, <1>2, <2>2 DEF Mail, Actions
    <3>2. ii = i
      BY <3>1, OtherMail DEF i, ii
    <3>3. amount = -1
      BY <2>2
    <3>4. Len(list) <= Len(copy)
      <4> HIDE DEF amount
      <4> QED
        BY <1>4, <1>5, <3>3, RescaledType
    <3> HIDE DEF list
    <3> QED
      BY <1>2, <1>4, <1>6, <1>8, <1>9, <3>2, <3>4
  <2> QED
    BY <2>1, <2>2
<1> HIDE DEF list
<1>11. Len(hra.reservations) + ii <= q + fails /\ Len(hookView) + ii <= q + fails
  BY <1>2, <1>6, <1>8, <1>10
<1>12. Len(hra'.reservations) + ii <= q + fails'
  BY <1>1, <1>10, <1>11
<1>13. Len(hookView') + ii <= q + fails'
  BY <1>1, <1>11
<1> QED
  BY <1>7, <1>12, <1>13 DEF CapacityInv, Room, ii, q

LEMMA CapacityNext == TypeOK /\ TypeOK' /\ CapacityInv /\ [Next]_vars => CapacityInv'
<1> SUFFICES ASSUME TypeOK, TypeOK', CapacityInv, [Next]_vars PROVE CapacityInv'
  OBVIOUS
<1>0. fails \in Nat /\ fails' \in Nat
  BY AutoscalerAssumption DEF TypeOK
<1>1. CASE \E r \in Runs : RunRequested(r)
  BY <1>1, CapacityRunRequested
<1>2. CASE \E j \in Jobs : JobStarts(j) \/ JobEnds(j)
  BY <1>2, CapacityJobMoves
<1>3. CASE \E e \in Jobs \X Actions : Misdeliver(e) \/ tryScale(e)
  BY <1>3, CapacityMisdeliver, CapacityTryScale
<1>4. CASE Tick \/ SyncHookView \/ SyncView
  <2>1. /\ hra' = hra /\ hookView' \in {hookView, hra.reservations}
        /\ mail' = mail /\ job' = job /\ fails' = fails
    BY <1>4 DEF Tick, SyncHookView, SyncView, hookVars
  <2> QED
    BY <1>0, <2>1, RoomUntouched
<1>5. CASE PatchStatus
  <2>1. /\ hookView' = hookView /\ mail' = mail /\ job' = job /\ fails' = fails
    BY <1>5 DEF PatchStatus, hookVars
  <2>2. hra'.reservations = hra.reservations
    BY <1>5 DEF PatchStatus, TypeOK, HRASet
  <2> QED
    BY <1>0, <2>1, <2>2, RoomUntouched
<1>6. CASE \E failing, early \in SUBSET Runs : CountJobs(failing, early)
  <2>1. PICK failing \in SUBSET Runs, early \in SUBSET Runs : CountJobs(failing, early)
    BY <1>6
  <2> DEFINE F == failing \union early
             d == Cardinality(F)
  <2>2. d \in Nat
    <3>1. F \in SUBSET Runs
      OBVIOUS
    <3>2. IsFiniteSet(F)
      <4> HIDE DEF F
      <4> QED
        BY <3>1, AutoscalerAssumption, FS_Subset
    <3> QED
      BY <3>2, FS_CardinalityType
  <2>3. /\ hra' = hra /\ hookView' = hookView /\ mail' = mail /\ job' = job
        /\ fails' = fails + d
    BY <2>1 DEF CountJobs, hookVars
  <2>4. fails <= fails'
    <3> HIDE DEF d
    <3> QED
      BY <1>0, <2>2, <2>3
  <2> QED
    BY <1>0, <2>3, <2>4, RoomUntouched
<1>7. CASE Reconcile \/ SuggestByPercentageRunnersBusy \/ ListQueuedRuns \/ ListInProgressRuns
           \/ UpdateTarget \/ ReconcileFails \/ \E q \in Requests : Expire(q)
  <2>1. /\ hra' = hra /\ hookView' = hookView /\ mail' = mail /\ job' = job
        /\ fails' \in {fails, fails + 1}
    BY <1>7 DEF Reconcile, SuggestByPercentageRunnersBusy, ListQueuedRuns, ListInProgressRuns,
                UpdateTarget, ReconcileFails, Expire, hookVars
  <2>2. fails <= fails'
    BY <1>0, <2>1
  <2> QED
    BY <1>0, <2>1, <2>2, RoomUntouched
<1>8. CASE UNCHANGED vars
  BY <1>0, <1>8, RoomUntouched DEF vars
<1>9. CountJobs({}, {}) => \E failing, early \in SUBSET Runs : CountJobs(failing, early)
  OBVIOUS
<1>10. ASSUME NEW r \in Runs, CountJobs({r}, {}) \/ CountJobs({}, {r})
       PROVE  \E failing, early \in SUBSET Runs : CountJobs(failing, early)
  <2>1. {r} \in SUBSET Runs /\ {} \in SUBSET Runs
    OBVIOUS
  <2> QED
    BY <1>10, <2>1
<1> QED
  BY <1>1, <1>2, <1>3, <1>4, <1>5, <1>6, <1>7, <1>8, <1>9, <1>10 DEF Next, ControllerStep

\* However stale the lists are that the webhook server writes back, there is at most one
\* reservation per job that was queued and per fault.
THEOREM CapacityIsAccountedFor == Safety => []NoPhantomCapacity
<1>1. Init => ReplicaInv /\ CapacityInv
  <2> SUFFICES ASSUME Init PROVE CapacityInv
    BY ReplicaInit
  <2>1. \A j \in Jobs : mail[<<j, "queued">>] = 0
    BY DEF Init, Actions
  <2>2. Incoming(mail) = {}
    BY <2>1 DEF Incoming
  <2>3. Cardinality(Incoming(mail)) = 0
    BY <2>2, FS_EmptySet
  <2>4. Len(hra.reservations) = 0 /\ Len(hookView) = 0 /\ fails = 0
    BY DEF Init, NewHRA
  <2> QED
    BY <2>3, <2>4, RequestedSize DEF CapacityInv, Room
<1>2. ReplicaInv /\ CapacityInv /\ [Next]_vars => (ReplicaInv /\ CapacityInv)'
  BY ReplicaNext, CapacityNext DEF ReplicaInv
<1>3. ReplicaInv /\ CapacityInv => NoPhantomCapacity
  <2> SUFFICES ASSUME TypeOK, CapacityInv PROVE NoPhantomCapacity
    BY DEF ReplicaInv
  <2>1. Cardinality(Incoming(mail)) \in Nat /\ Len(hra.reservations) \in Nat
    BY IncomingFinite, ListLengths
  <2>2. Len(hra.reservations) + Cardinality(Incoming(mail)) <= Cardinality(Requested) + fails
    BY DEF CapacityInv, Room
  <2>3. Len(hra.reservations) <= Cardinality(Requested) + fails
    BY <2>1, <2>2, RequestedSize, ListLengths
  <2> QED
    BY <2>3 DEF NoPhantomCapacity, Requested
<1> QED
  BY <1>1, <1>2, <1>3, PTL DEF Safety

-----------------------------------------------------------------------------
(* The answers of the HTTP cache are old, and never ahead *)

LEMMA StageType == \A s : Stage(s) \in 0..3
BY DEF Stage

\* A run with an unfinished job is queued or in progress.
LEMMA UnfinishedRun ==
  ASSUME NEW r \in Runs, NEW j \in JobsOf[r], job[j] \in {"queued", "in_progress"}
  PROVE  RunStatus(r) \in {"queued", "in_progress"}
<1> DEFINE states == {job[i] : i \in JobsOf[r]}
<1>1. states # {"none"} /\ states # {"completed"}
  OBVIOUS
<1>2. RunStatus(r) = IF states = {"none"} THEN "none"
                     ELSE IF states = {"completed"} THEN "completed"
                     ELSE IF states = {"queued"} THEN "queued" ELSE "in_progress"
  BY DEF RunStatus
<1> HIDE DEF states
<1> QED
  BY <1>1, <1>2

LEMMA NoRunYet ==
  ASSUME NEW r \in Runs, RunStatus(r) = "none"
  PROVE  \A j \in JobsOf[r] : job[j] = "none"
<1>1. {job[j] : j \in JobsOf[r]} = {"none"}
  BY DEF RunStatus
<1> QED
  BY <1>1

LEMMA SameStatus ==
  ASSUME NEW r \in Runs, \A j \in JobsOf[r] : job'[j] = job[j]
  PROVE  RunStatus(r)' = RunStatus(r)
BY DEF RunStatus

\* No step takes a job or a run back.
LEMMA OnwardRunRequested ==
  ASSUME TypeOK, PastInv, NEW q \in Runs, RunRequested(q)
  PROVE  /\ \A j \in Jobs : Stage(job[j]) <= Stage(job'[j]) /\ (job[j] # "none" => job'[j] # "none")
         /\ \A r \in Runs : Stage(RunStatus(r)) <= Stage(RunStatus(r)')
         /\ Together'
<1>1. \A j \in JobsOf[q] : job[j] = "none"
  BY NoRunYet DEF RunRequested
<1>2. /\ \A j \in Jobs : j \notin JobsOf[q] => job'[j] = job[j]
      /\ \A j \in Jobs : j \in JobsOf[q] => job'[j] = "queued"
  BY DEF RunRequested
<1>3. \A j \in Jobs : Stage(job[j]) <= Stage(job'[j]) /\ (job[j] # "none" => job'[j] # "none")
  BY <1>1, <1>2, StageType DEF Stage
<1>4. ASSUME NEW r \in Runs, r # q PROVE \A j \in JobsOf[r] : job'[j] = job[j]
  BY <1>2, <1>4, AutoscalerAssumption DEF Jobs
<1>5. ASSUME NEW r \in Runs PROVE Stage(RunStatus(r)) <= Stage(RunStatus(r)')
  <2>1. CASE r = q
    <3>1. Stage(RunStatus(r)) = 0
      BY <2>1 DEF RunRequested, Stage
    <3> QED
      BY <3>1, StageType
  <2>2. CASE r # q
    <3>1. RunStatus(r)' = RunStatus(r)
      BY <1>4, <2>2, SameStatus
    <3> QED
      BY <3>1, StageType
  <2> QED
    BY <2>1, <2>2
<1>6. Together'
  <2>1. ASSUME NEW r \in Runs, NEW i \in JobsOf[r], NEW j \in JobsOf[r], job'[i] = "none"
        PROVE  job'[j] = "none"
    <3>1. r # q
      BY <1>2, <2>1 DEF Jobs
    <3> QED
      BY <1>4, <2>1, <3>1 DEF PastInv, Together
  <2> QED
    BY <2>1 DEF Together
<1> QED
  BY <1>3, <1>5, <1>6

LEMMA OnwardJobMoves ==
  ASSUME TypeOK, PastInv, NEW k \in Jobs, JobStarts(k) \/ JobEnds(k)
  PROVE  /\ \A j \in Jobs : Stage(job[j]) <= Stage(job'[j]) /\ (job[j] # "none" => job'[j] # "none")
         /\ \A r \in Runs : Stage(RunStatus(r)) <= Stage(RunStatus(r)')
         /\ Together'
<1>1. \/ job[k] = "queued" /\ job'[k] = "in_progress"
      \/ job[k] = "in_progress" /\ job'[k] = "completed"
  BY DEF JobStarts, JobEnds, TypeOK
<1>2. \A j \in Jobs : j # k => job'[j] = job[j]
  BY DEF JobStarts, JobEnds, TypeOK
<1>3. \A j \in Jobs : Stage(job[j]) <= Stage(job'[j]) /\ (job[j] # "none" => job'[j] # "none")
  BY <1>1, <1>2, StageType DEF Stage
<1>4. ASSUME NEW r \in Runs PROVE Stage(RunStatus(r)) <= Stage(RunStatus(r)')
  <2>1. CASE k \in JobsOf[r]
    <3>1. RunStatus(r) \in {"queued", "in_progress"}
      BY <1>1, <2>1, UnfinishedRun
    <3>2. Stage(RunStatus(r)) <= 2
      BY <3>1 DEF Stage
    <3>3. Stage(RunStatus(r)') >= 2
      <4> DEFINE states == {job'[i] : i \in JobsOf[r]}
      <4>1. states # {"none"} /\ states # {"queued"}
        BY <1>1, <2>1
      <4>2. RunStatus(r)' = IF states = {"none"} THEN "none"
                            ELSE IF states = {"completed"} THEN "completed"
                            ELSE IF states = {"queued"} THEN "queued" ELSE "in_progress"
        BY DEF RunStatus
      <4> HIDE DEF states
      <4>3. RunStatus(r)' \in {"completed", "in_progress"}
        BY <4>1, <4>2
      <4> QED
        BY <4>3 DEF Stage
    <3> QED
      BY <3>2, <3>3, StageType
  <2>2. CASE k \notin JobsOf[r]
    <3>1. RunStatus(r)' = RunStatus(r)
      BY <1>2, <2>2, SameStatus DEF Jobs
    <3> QED
      BY <3>1, StageType
  <2> QED
    BY <2>1, <2>2
<1>5. Together'
  <2>1. ASSUME NEW r \in Runs, NEW i \in JobsOf[r], NEW j \in JobsOf[r], job'[i] = "none"
        PROVE  job'[j] = "none"
    <3>1. i \in Jobs /\ j \in Jobs
      BY DEF Jobs
    <3>2. job[i] = "none"
      BY <1>3, <2>1, <3>1
    <3>3. job[j] = "none"
      BY <3>2 DEF PastInv, Together
    <3> QED
      BY <1>1, <1>2, <3>1, <3>3
  <2> QED
    BY <2>1 DEF Together
<1> QED
  BY <1>3, <1>4, <1>5

\* What was a status of the past stays one.
LEMMA PastMoves ==
  ASSUME TypeOK, PastInv, UNCHANGED <<answers, ctl>>,
         \A j \in Jobs : Stage(job[j]) <= Stage(job'[j]),
         \A r \in Runs : Stage(RunStatus(r)) <= Stage(RunStatus(r)'),
         Together'
  PROVE  PastInv'
<1>1. ASSUME NEW q \in DOMAIN answers PROVE Past(q, answers[q])'
  <2>1. ASSUME q \in Runs, NEW j \in DOMAIN answers[q]
        PROVE  answers[q][j] # "none" /\ Stage(answers[q][j]) <= Stage(job'[j])
    <3>1. j \in Jobs
      <4>1. DOMAIN Answer(q, {}) \in SUBSET JobsOf[q]
        BY <2>1, JobListType
      <4> QED
        BY <2>1, <4>1 DEF Answer, Jobs
    <3>2. answers[q][j] # "none" /\ Stage(answers[q][j]) <= Stage(job[j])
      BY <2>1 DEF PastInv, Past
    <3>3. Stage(job[j]) <= Stage(job'[j])
      BY <3>1
    <3> QED
      BY <3>2, <3>3, StageType
  <2>2. ASSUME q \in {"queued", "in_progress"}, NEW r \in Runs
        PROVE  Stage(answers[q][r]) <= Stage(RunStatus(r)')
    <3>1. Stage(answers[q][r]) <= Stage(RunStatus(r))
      BY <2>2 DEF PastInv, Past
    <3> QED
      BY <3>1, StageType
  <2> QED
    BY <2>1, <2>2 DEF Past
<1>2. ASSUME NEW r \in Runs PROVE Stage(ctl.shown[r]) <= Stage(RunStatus(r)')
  <2>1. Stage(ctl.shown[r]) <= Stage(RunStatus(r))
    BY DEF PastInv
  <2> QED
    BY <2>1, StageType
<1> QED
  BY <1>1, <1>2 DEF PastInv

\* A step that leaves the jobs alone.
LEMMA PastSame ==
  ASSUME PastInv, UNCHANGED job,
         \A q \in DOMAIN answers' : Past(q, answers'[q]),
         \A r \in Runs : Stage(ctl'.shown[r]) <= Stage(RunStatus(r))
  PROVE  PastInv'
<1>1. \A r \in Runs : RunStatus(r)' = RunStatus(r)
  BY SameStatus
<1>2. \A q, a : Past(q, a)' = Past(q, a)
  BY <1>1 DEF Past
<1>3. Together'
  BY DEF PastInv, Together
<1> QED
  BY <1>1, <1>2, <1>3 DEF PastInv

\* An answer, kept or current, shows what was the case at some time.
LEMMA AnswerPast ==
  ASSUME PastInv, NEW q \in Requests, NEW early \in SUBSET Runs
  PROVE  Past(q, Answer(q, early))
<1>0. q \notin Runs \/ q \notin {"queued", "in_progress", "runners"}
  BY AutoscalerAssumption
<1>1. CASE q \in DOMAIN answers
  BY <1>1 DEF Answer, PastInv
<1>2. CASE q \notin DOMAIN answers /\ q \in early
  <2>1. Answer(q, early) = <<>> /\ q \in Runs
    BY <1>2 DEF Answer
  <2> QED
    BY <1>0, <2>1 DEF Past
<1>3. CASE q \notin DOMAIN answers /\ q \notin early /\ q \in Runs
  <2>1. Answer(q, early) = [j \in {i \in JobsOf[q] : job[i] # "none"} |-> job[j]]
    BY <1>0, <1>3 DEF Answer, Current
  <2>2. ASSUME NEW j \in DOMAIN Answer(q, early)
        PROVE  /\ Answer(q, early)[j] # "none"
               /\ Stage(Answer(q, early)[j]) <= Stage(job[j])
    <3>1. Answer(q, early)[j] = job[j] /\ job[j] # "none"
      BY <2>1
    <3> QED
      BY <3>1, StageType
  <2> QED
    BY <1>0, <1>3, <2>2 DEF Past
<1>4. CASE q \notin DOMAIN answers /\ q \notin early /\ q \notin Runs
  <2>1. q \in {"queued", "in_progress"} => Answer(q, early) = [r \in Runs |-> RunStatus(r)]
    BY <1>4 DEF Answer, Current
  <2> QED
    BY <1>4, <2>1, StageType DEF Past
<1> QED
  BY <1>1, <1>2, <1>3, <1>4

LEMMA CachedPast ==
  ASSUME TypeOK, PastInv, NEW qs \in SUBSET Requests, NEW early \in SUBSET Runs,
         answers' = Cached(qs, early)
  PROVE  \A q \in DOMAIN answers' : Past(q, answers'[q])
<1>1. CASE "github" \notin lag
  BY <1>1 DEF Cached, PastInv
<1>2. CASE "github" \in lag
  <2>1. answers' = [q \in DOMAIN answers \union qs |-> Answer(q, early)]
    BY <1>2 DEF Cached
  <2>2. DOMAIN answers \union qs \subseteq Requests
    BY DEF TypeOK, AnswersOK
  <2> QED
    BY <2>1, <2>2, AnswerPast
<1> QED
  BY <1>1, <1>2

\* What the first list has shown is forgotten with the Reconcile, and not before.
LEMMA SuggestedShown ==
  ASSUME TypeOK, NEW i, NEW s, NEW w,
         \/ ctl' = Suggested(i, s)
         \/ ctl' = [Suggested(i, s) EXCEPT !.waiting = w, !.queued = {}, !.inProgress = {}]
  PROVE  ctl'.shown \in {ctl.shown, IdleReconcile.shown}
<1> DEFINE c == Suggested(i, s)
<1>1. ctl \in ReconcileSet
  BY DEF TypeOK
<1>2. /\ c.shown \in {ctl.shown, IdleReconcile.shown}
      /\ [c EXCEPT !.waiting = w, !.queued = {}, !.inProgress = {}].shown = c.shown
  <2>1. CASE c = IdleReconcile
    <3> HIDE DEF c
    <3> QED
      BY <2>1 DEF IdleReconcile
  <2>2. CASE c = [ctl EXCEPT !.pc = "target", !.suggested = s]
    <3> HIDE DEF c
    <3> QED
      BY <1>1, <2>2 DEF ReconcileSet
  <2>3. CASE c = [ctl EXCEPT !.pc = "target"]
    <3> HIDE DEF c
    <3> QED
      BY <1>1, <2>3 DEF ReconcileSet
  <2>4. CASE c = [ctl EXCEPT !.pc = "queued"]
    <3> HIDE DEF c
    <3> QED
      BY <1>1, <2>4 DEF ReconcileSet
  <2> QED
    BY <2>1, <2>2, <2>3, <2>4, SuggestedCases
<1> QED
  BY <1>2

LEMMA PastNext == TypeOK /\ PastInv /\ [Next]_vars => PastInv'
<1> SUFFICES ASSUME TypeOK, PastInv, [Next]_vars PROVE PastInv'
  OBVIOUS
<1> DEFINE kept == \A q \in DOMAIN answers' : Past(q, answers'[q])
           shown == \A r \in Runs : Stage(ctl'.shown[r]) <= Stage(RunStatus(r))
<1>1. CASE \E r \in Runs : RunRequested(r)
  BY <1>1, OnwardRunRequested, PastMoves DEF RunRequested, ctlVars
<1>2. CASE \E j \in Jobs : JobStarts(j) \/ JobEnds(j)
  <2>1. PICK k \in Jobs : JobStarts(k) \/ JobEnds(k)
    BY <1>2
  <2>2. UNCHANGED <<answers, ctl>>
    BY <2>1 DEF JobStarts, JobEnds, ctlVars
  <2> QED
    BY <2>1, <2>2, OnwardJobMoves, PastMoves
<1>3. ASSUME UNCHANGED <<answers, ctl, job>> PROVE PastInv'
  BY <1>3, PastSame DEF PastInv
<1>4. ASSUME UNCHANGED job, kept, ctl'.shown \in {ctl.shown, IdleReconcile.shown} PROVE PastInv'
  <2>1. shown
    <3>1. CASE ctl'.shown = ctl.shown
      BY <3>1 DEF PastInv
    <3>2. CASE ctl'.shown = IdleReconcile.shown
      <4>1. \A r \in Runs : ctl'.shown[r] = "none"
        BY <3>2 DEF IdleReconcile
      <4> QED
        BY <4>1, StageType DEF Stage
    <3> QED
      BY <1>4, <3>1, <3>2
  <2> QED
    BY <1>4, <2>1, PastSame
<1>5. CASE \E e \in Jobs \X Actions : Misdeliver(e) \/ tryScale(e)
  BY <1>3, <1>5 DEF Misdeliver, tryScale, ctlVars
<1>6. CASE Tick \/ SyncHookView \/ SyncView \/ UNCHANGED vars
  BY <1>3, <1>6 DEF Tick, SyncHookView, SyncView, ctlVars, vars
<1>7. CASE Reconcile \/ PatchStatus \/ ReconcileFails \/ UpdateTarget
  <2>1. UNCHANGED <<answers, job>>
    BY <1>7 DEF Reconcile, PatchStatus, ReconcileFails, UpdateTarget
  <2>2. ctl'.shown = IdleReconcile.shown
    BY <1>7 DEF Reconcile, PatchStatus, ReconcileFails, UpdateTarget, IdleReconcile
  <2>3. kept
    BY <2>1 DEF PastInv
  <2> QED
    BY <1>4, <2>1, <2>2, <2>3
<1>8. CASE SuggestByPercentageRunnersBusy
  <2>1. PICK s : ctl' = Suggested(1, s)
    BY <1>8 DEF SuggestByPercentageRunnersBusy
  <2>2. UNCHANGED job /\ answers' = Cached({"runners"}, {})
    BY <1>8 DEF SuggestByPercentageRunnersBusy
  <2>3. kept
    BY <2>2, CachedPast DEF Requests
  <2> QED
    BY <1>4, <2>1, <2>2, <2>3, SuggestedShown
<1>9. CASE ListQueuedRuns
  <2>1. UNCHANGED job /\ (answers' = answers \/ answers' = Cached({"queued"}, {}))
    BY <1>9 DEF ListQueuedRuns
  <2>2. kept
    BY <2>1, CachedPast DEF Requests, PastInv
  <2>3. CASE ctl' = IdleReconcile
    BY <1>4, <2>1, <2>2, <2>3
  <2>4. CASE ctl' # IdleReconcile
    <3>1. ctl'.shown = Answer("queued", {})
      BY <1>9, <2>4 DEF ListQueuedRuns, TypeOK, ReconcileSet
    <3>2. Past("queued", Answer("queued", {}))
      BY AnswerPast DEF Requests
    <3>3. shown
      BY <3>1, <3>2 DEF Past
    <3> QED
      BY <2>1, <2>2, <3>3, PastSame
  <2> QED
    BY <2>3, <2>4
<1>10. CASE ListInProgressRuns
  <2>1. UNCHANGED job /\ answers' = Cached({"in_progress"}, {})
    BY <1>10 DEF ListInProgressRuns
  <2>2. kept
    BY <2>1, CachedPast DEF Requests
  <2>3. ctl'.shown = IdleReconcile.shown
    BY <1>10 DEF ListInProgressRuns, TypeOK, ReconcileSet
  <2> QED
    BY <1>4, <2>1, <2>2, <2>3
<1>11. CASE \E failing, early : CountJobs(failing, early)
  <2>1. PICK failing, early : CountJobs(failing, early)
    BY <1>11
  <2> DEFINE runs == ctl.queued \union ctl.inProgress
  <2>2. PICK n, w : ctl' = [Suggested(runsMetric, n) EXCEPT !.waiting = w, !.queued = {},
                                                           !.inProgress = {}]
    BY <2>1 DEF CountJobs
  <2>3. /\ UNCHANGED job /\ answers' = Cached(runs \ failing, early)
        /\ early \subseteq runs
    BY <2>1 DEF CountJobs
  <2>4. runs \in SUBSET Runs
    BY DEF TypeOK, ReconcileSet
  <2>5. kept
    BY <2>3, <2>4, CachedPast DEF Requests
  <2> QED
    BY <1>4, <2>2, <2>3, <2>5, SuggestedShown
<1>12. CASE \E q \in Requests : Expire(q)
  <2>1. PICK q \in Requests : Expire(q)
    BY <1>12
  <2>2. UNCHANGED <<job, ctl>> /\ answers' = [p \in DOMAIN answers \ {q} |-> answers[p]]
    BY <2>1 DEF Expire
  <2>3. kept
    BY <2>2 DEF PastInv
  <2> QED
    BY <1>4, <2>2, <2>3
<1> QED
  BY <1>1, <1>2, <1>5, <1>6, <1>7, <1>8, <1>9, <1>10, <1>11, <1>12 DEF Next, ControllerStep

-----------------------------------------------------------------------------
(* Listing workflow runs *)

\* The jobs that the suggestion has to cover.
Owed == {j \in Waiting : Counted(JobLabels[j], Target)}

LEMMA MaxWithZero ==
  ASSUME NEW x \in Int
  PROVE  Max({0, x}) \in Int /\ 0 <= Max({0, x}) /\ x <= Max({0, x})
<1>1. \E m \in {0, x} : \A y \in {0, x} : m >= y
  OBVIOUS
<1>2. Max({0, x}) \in {0, x} /\ \A y \in {0, x} : Max({0, x}) >= y
  BY <1>1 DEF Max
<1> QED
  BY <1>2

LEMMA OwedSize ==
  ASSUME TypeOK
  PROVE  IsFiniteSet(Owed) /\ Cardinality(Owed) \in Nat /\ ctl.suggested \in Int
<1>1. Owed \in SUBSET Jobs
  BY DEF Owed, Waiting, Unfinished
<1> QED
  BY <1>1, JobsFinite DEF TypeOK, ReconcileSet

LEMMA OwedCovered == NoRunMissed <=> (ctl.pc = "target" => Cardinality(Owed) <= Max({0, ctl.suggested}))
BY DEF NoRunMissed, Owed, Waiting

\* A Reconcile that has listed nothing has missed nothing.
LEMMA NothingWaits ==
  ASSUME TypeOK, TypeOK', ctl'.waiting = {}, ctl'.pc # "in_progress"
  PROVE  ListInv' /\ NoRunMissed'
<1>1. Waiting' = {}
  BY DEF Waiting
<1>2. ListInv'
  BY <1>1 DEF ListInv
<1>3. {j \in ctl'.waiting \intersect Unfinished' : Counted(JobLabels[j], Target)} = {}
  OBVIOUS
<1>4. Cardinality({j \in ctl'.waiting \intersect Unfinished' : Counted(JobLabels[j], Target)}) = 0
  BY <1>3, FS_EmptySet
<1>5. ctl'.suggested \in Int
  BY DEF TypeOK, ReconcileSet
<1>6. 0 <= Max({0, ctl'.suggested})
  BY <1>5, MaxWithZero
<1> QED
  BY <1>2, <1>4, <1>6 DEF NoRunMissed

\* Jobs move on while the lists are made: those that wait become fewer.
LEMMA JobsMoveOn ==
  ASSUME TypeOK, TypeOK', ListInv, NoRunMissed, UNCHANGED <<spec, ctl>>,
         Requested \subseteq Requested', Waiting' \subseteq Waiting
  PROVE  ListInv' /\ NoRunMissed'
<1>1. repos' = repos
  BY DEF repos, runsMetric, Primary
<1>2. ListInv'
  BY <1>1 DEF ListInv, RunsWith
<1>3. NoRunMissed'
  <2> DEFINE S == Owed
             T == {j \in Waiting' : Counted(JobLabels[j], Target)}
  <2>1. T \in SUBSET S
    BY DEF Owed
  <2>2. IsFiniteSet(S) /\ Cardinality(S) \in Nat /\ ctl.suggested \in Int
    BY OwedSize
  <2> HIDE DEF S, T
  <2>3. Cardinality(T) <= Cardinality(S) /\ Cardinality(T) \in Nat
    BY <2>1, <2>2, FS_Subset, FS_CardinalityType
  <2>4. ctl.pc = "target" => Cardinality(S) <= Max({0, ctl.suggested})
    BY OwedCovered DEF S
  <2>5. Max({0, ctl.suggested}) \in Int
    BY <2>2, MaxWithZero
  <2>6. ctl.pc = "target" => Cardinality(T) <= Max({0, ctl.suggested})
    BY <2>2, <2>3, <2>4, <2>5
  <2> QED
    BY <2>6 DEF NoRunMissed, T, Waiting
<1> QED
  BY <1>2, <1>3

LEMMA ListRunRequested ==
  ASSUME TypeOK, TypeOK', ListInv, NoRunMissed, NEW q \in Runs, RunRequested(q)
  PROVE  ListInv' /\ NoRunMissed'
<1>1. UNCHANGED <<spec, ctl>>
  BY DEF RunRequested, ctlVars
<1>2. \A j \in JobsOf[q] : job[j] = "none"
  BY NoRunYet DEF RunRequested
<1>3. /\ \A j \in Jobs : j \notin JobsOf[q] => job'[j] = job[j]
      /\ \A j \in Jobs : j \in JobsOf[q] => job'[j] = "queued"
  BY DEF RunRequested
<1>4. Requested \subseteq Requested'
  BY <1>2, <1>3 DEF Requested
<1>5. ctl.waiting \intersect JobsOf[q] = {}
  BY <1>2 DEF ListInv, Requested
<1>6. Waiting' \subseteq Waiting
  BY <1>1, <1>3, <1>5 DEF Waiting, Unfinished
<1> QED
  BY <1>1, <1>4, <1>6, JobsMoveOn

LEMMA ListJobMoves ==
  ASSUME TypeOK, TypeOK', ListInv, NoRunMissed, NEW i \in Jobs, JobStarts(i) \/ JobEnds(i)
  PROVE  ListInv' /\ NoRunMissed'
<1>1. UNCHANGED <<spec, ctl>>
  BY DEF JobStarts, JobEnds, ctlVars
<1>2. /\ job[i] \in {"queued", "in_progress"} /\ job'[i] \in {"in_progress", "completed"}
      /\ \A j \in Jobs : j # i => job'[j] = job[j]
  BY DEF JobStarts, JobEnds, TypeOK
<1>3. Requested \subseteq Requested' /\ Waiting' \subseteq Waiting
  BY <1>1, <1>2 DEF Requested, Waiting, Unfinished
<1> QED
  BY <1>1, <1>3, JobsMoveOn

LEMMA ListUntouched ==
  ASSUME TypeOK, TypeOK', ListInv, NoRunMissed, UNCHANGED <<spec, ctl, job>>
  PROVE  ListInv' /\ NoRunMissed'
<1>1. Requested' = Requested /\ Waiting' = Waiting
  BY DEF Requested, Waiting, Unfinished
<1> QED
  BY <1>1, JobsMoveOn

LEMMA ListListQueuedRuns ==
  ASSUME TypeOK, TypeOK', ListInv, NoRunMissed, ListQueuedRuns
  PROVE  ListInv' /\ NoRunMissed'
<1>1. UNCHANGED <<spec, job>> /\ ctl.pc = "queued"
  BY DEF ListQueuedRuns
<1>2. CASE ctl' = IdleReconcile
  BY <1>2, NothingWaits DEF IdleReconcile
<1> DEFINE runs == Answer("queued", {})
<1>3. CASE ctl' = [ctl EXCEPT !.pc = "in_progress", !.shown = runs,
                              !.queued = RunsWith(runs, repos, "queued")]
  <2> HIDE DEF runs
  <2>1. /\ ctl'.pc = "in_progress" /\ ctl'.queued = RunsWith(runs, repos, "queued")
        /\ ctl'.shown = runs /\ ctl'.waiting = ctl.waiting
    BY <1>3 DEF TypeOK, ReconcileSet
  <2>2. repos' = repos
    BY <1>1 DEF repos, runsMetric, Primary
  <2>3. ctl'.waiting = {}
    BY <1>1, <2>1 DEF ListInv
  <2>4. ListInv'
    BY <2>1, <2>2, <2>3 DEF ListInv, RunsWith
  <2> QED
    BY <2>1, <2>4 DEF NoRunMissed
<1> QED
  BY <1>2, <1>3 DEF ListQueuedRuns

\* A run that the first list shows in progress, and that has a job still unfinished, is in
\* progress in the second list unless that one is behind.
LEMMA ListListInProgressRuns ==
  ASSUME TypeOK, TypeOK', PastInv, ListInv, NoRunMissed, ListInProgressRuns
  PROVE  ListInv' /\ NoRunMissed'
<1> DEFINE runs == Answer("in_progress", {})
           due  == {r \in Runs : /\ RepoOf[r] \in repos /\ ctl.shown[r] \in {"queued", "in_progress"}
                                 /\ ~ Behind(runs, ctl.shown, r)}
<1>1. UNCHANGED <<spec, job>> /\ ctl.pc = "in_progress"
  BY DEF ListInProgressRuns
<1>2. /\ ctl'.pc = "jobs" /\ ctl'.inProgress = RunsWith(runs, repos, "in_progress")
      /\ ctl'.queued = ctl.queued /\ ctl'.waiting = UNION {JobsOf[r] : r \in due}
  BY DEF ListInProgressRuns, TypeOK, ReconcileSet
<1>3. runs \in [Runs -> Statuses] /\ \A r \in Runs : Stage(runs[r]) <= Stage(RunStatus(r))
  BY ListType, AnswerPast DEF Requests, Past
<1> HIDE DEF runs
<1>4. ASSUME NEW r \in due, NEW j \in JobsOf[r] PROVE j \in Requested
  <2>1. Stage(ctl.shown[r]) >= 1 /\ Stage(ctl.shown[r]) <= Stage(RunStatus(r))
    BY DEF PastInv, Stage
  <2>2. RunStatus(r) # "none"
    BY <2>1, StageType DEF Stage
  <2>3. PICK i \in JobsOf[r] : job[i] # "none"
    <3>1. {job[i] : i \in JobsOf[r]} # {"none"}
      BY <2>2 DEF RunStatus
    <3> QED
      BY <3>1
  <2>4. job[j] # "none" /\ r \in Runs
    BY <2>3 DEF PastInv, Together
  <2> QED
    BY <2>4 DEF Requested, Jobs
<1>5. ctl'.waiting \subseteq Requested'
  <2>1. Requested' = Requested
    BY <1>1 DEF Requested
  <2> QED
    BY <1>2, <1>4, <2>1
<1>6. ASSUME NEW r \in Runs, NEW j \in JobsOf[r] \intersect Waiting'
      PROVE  r \in ctl'.queued \union ctl'.inProgress
  <2>1. j \in ctl'.waiting /\ job[j] \in {"queued", "in_progress"}
    BY <1>1 DEF Waiting, Unfinished
  <2>2. PICK p \in due : j \in JobsOf[p]
    BY <1>2, <2>1
  <2>3. p = r
    BY <2>2, AutoscalerAssumption
  <2>4. /\ RepoOf[r] \in repos /\ ctl.shown[r] \in {"queued", "in_progress"}
        /\ ~ (Stage(runs[r]) < Stage(ctl.shown[r]))
    BY <2>2, <2>3 DEF Behind
  <2>5. CASE ctl.shown[r] = "queued"
    BY <1>1, <1>2, <2>4, <2>5 DEF ListInv, RunsWith
  <2>6. CASE ctl.shown[r] = "in_progress"
    <3>1. RunStatus(r) \in {"queued", "in_progress"}
      BY <2>1, UnfinishedRun
    <3>2. Stage(RunStatus(r)) <= 2 /\ Stage(ctl.shown[r]) = 2
      BY <2>6, <3>1 DEF Stage
    <3>3. Stage(runs[r]) = 2
      BY <1>3, <2>4, <3>2, StageType
    <3>4. runs[r] = "in_progress"
      BY <1>3, <3>3 DEF Stage
    <3> QED
      BY <1>2, <2>4, <3>4 DEF RunsWith
  <2> QED
    BY <2>4, <2>5, <2>6
<1>7. ListInv'
  BY <1>2, <1>5, <1>6 DEF ListInv
<1> QED
  BY <1>2, <1>7 DEF NoRunMissed

\* What is left to cover after the jobs have been listed.
Listed(failing, early) ==
    UNION {ctl.waiting \intersect DOMAIN Answer(r, early) : r \in Runs \ failing}
OwedOf(failing, early) ==
    {j \in Listed(failing, early) \intersect Unfinished : Counted(JobLabels[j], Target)}

\* Every job owed is counted, in one of the two lists at least: a list that is old shows
\* the job in an earlier status, but not as completed.
LEMMA OwedAreCounted ==
  ASSUME TypeOK, PastInv, ListInv, ctl.pc = "jobs", NEW failing, NEW early \in SUBSET Runs
  PROVE  /\ Cardinality(OwedOf(failing, early)) \in Nat
         /\ Cardinality(OwedOf(failing, early))
              <= Cardinality(Count(ctl.queued, failing, early))
                   + Cardinality(Count(ctl.inProgress, failing, early))
<1> DEFINE Q == Count(ctl.queued, failing, early)
           P == Count(ctl.inProgress, failing, early)
           O == OwedOf(failing, early)
           U == Q \union P
           run(j) == CHOOSE r \in Runs : j \in JobsOf[r]
           rec(j) == [id |-> j, status |-> Answer(run(j), early)[j], labels |-> JobLabels[j]]
           f == [j \in O |-> <<run(j), rec(j)>>]
<1>1. ctl.queued \in SUBSET Runs /\ ctl.inProgress \in SUBSET Runs
  BY DEF TypeOK, ReconcileSet
<1>2. /\ IsFiniteSet(Q) /\ Cardinality(Q) \in Nat
      /\ IsFiniteSet(P) /\ Cardinality(P) \in Nat
  BY <1>1, CountFinite
<1>3. IsFiniteSet(U) /\ Cardinality(U) <= Cardinality(Q) + Cardinality(P)
  <2> HIDE DEF Q, P
  <2>1. /\ IsFiniteSet(U)
        /\ Cardinality(U) = Cardinality(Q) + Cardinality(P) - Cardinality(Q \intersect P)
    BY <1>2, FS_Union
  <2>2. Cardinality(Q \intersect P) \in Nat
    BY <1>2, FS_Intersection, FS_CardinalityType
  <2> QED
    BY <1>2, <2>1, <2>2
<1>4. ASSUME NEW j \in O PROVE <<run(j), rec(j)>> \in U
  <2>1. /\ j \in Waiting /\ j \in Jobs /\ Counted(JobLabels[j], Target)
        /\ job[j] \in {"queued", "in_progress"}
    BY DEF OwedOf, Listed, Waiting, Unfinished
  <2>2. PICK r \in Runs \ failing : j \in DOMAIN Answer(r, early)
    BY DEF OwedOf, Listed
  <2>3. j \in JobsOf[r]
    BY <2>2, JobListType
  <2>4. run(j) = r
    BY <2>3, AutoscalerAssumption
  <2>5. r \in ctl.queued \union ctl.inProgress
    BY <2>1, <2>3 DEF ListInv
  <2> DEFINE list == Answer(r, early)
  <2>6. list[j] \in {"queued", "in_progress"}
    <3>1. list[j] # "none" /\ Stage(list[j]) <= Stage(job[j])
      <4>1. Past(r, list)
        BY AnswerPast DEF Requests
      <4> QED
        BY <2>2, <4>1 DEF Past
    <3>2. list[j] \in Statuses
      <4>1. list \in AnswerSet(r)
        BY AnswerType DEF TypeOK, Requests
      <4>2. list \in UNION {[js -> Statuses] : js \in SUBSET JobsOf[r]}
        BY <4>1, AutoscalerAssumption DEF AnswerSet
      <4> HIDE DEF list
      <4> QED
        BY <2>2, <4>2 DEF list
    <3>3. Stage(list[j]) <= 2
      BY <2>1, <3>1, StageType DEF Stage
    <3> HIDE DEF list
    <3> QED
      BY <3>1, <3>2, <3>3 DEF Stage
  <2>7. rec(j) \in CountedJobs(JobRecords(list), Target)
    <3>1. rec(j) \in JobRecords(list)
      BY <2>2, <2>4 DEF JobRecords
    <3>2. Counted(rec(j).labels, Target) /\ rec(j).status \in {"queued", "in_progress"}
      BY <2>1, <2>4, <2>6
    <3> HIDE DEF rec, list
    <3> QED
      BY <3>1, <3>2 DEF CountedJobs
  <2> HIDE DEF rec, run
  <2> QED
    BY <2>2, <2>4, <2>5, <2>7 DEF Count
<1>5. f \in Injection(O, U)
  <2>1. f \in [O -> U]
    BY <1>4
  <2>2. ASSUME NEW j \in O, NEW k \in O, f[j] = f[k] PROVE j = k
    <3>1. rec(j) = rec(k)
      <4> HIDE DEF rec, run
      <4> QED
        BY <2>2
    <3>2. rec(j).id = rec(k).id
      <4> HIDE DEF rec
      <4> QED
        BY <3>1
    <3> QED
      BY <3>2
  <2> HIDE DEF f
  <2> QED
    BY <2>1, <2>2 DEF Injection, IsInjective
<1>6. Cardinality(O) <= Cardinality(U) /\ IsFiniteSet(O)
  <2> HIDE DEF f, U, O
  <2> QED
    BY <1>3, <1>5, FS_Injection
<1>7. Cardinality(O) \in Nat /\ Cardinality(U) \in Nat
  BY <1>3, <1>6, FS_CardinalityType
<1> HIDE DEF O, U, Q, P
<1>8. Cardinality(O) <= Cardinality(Q) + Cardinality(P)
  BY <1>2, <1>3, <1>6, <1>7
<1> QED
  BY <1>7, <1>8 DEF O, Q, P

LEMMA ListCountJobs ==
  ASSUME TypeOK, TypeOK', PastInv, ListInv, NoRunMissed,
         NEW failing, NEW early, CountJobs(failing, early)
  PROVE  ListInv' /\ NoRunMissed'
<1> DEFINE n == Cardinality(Count(ctl.queued, failing, early))
                  + Cardinality(Count(ctl.inProgress, failing, early))
           c == Suggested(runsMetric, n)
           w(s) == UNION {s \intersect DOMAIN Answer(r, early) : r \in Runs \ failing}
           k == Cardinality(OwedOf(failing, early))
<1>1. /\ UNCHANGED <<spec, job>> /\ ctl.pc = "jobs"
      /\ early \subseteq ctl.queued \union ctl.inProgress
      /\ ctl' = [c EXCEPT !.waiting = w(@), !.queued = {}, !.inProgress = {}]
  BY DEF CountJobs, Count
<1>2. ctl \in ReconcileSet /\ IdleReconcile \in ReconcileSet
  BY IdleTyped DEF TypeOK
<1>3. early \in SUBSET Runs
  BY <1>1, <1>2 DEF ReconcileSet
<1>4. n \in Nat
  BY <1>2, <1>3, CountFinite DEF ReconcileSet
<1>5. k \in Nat /\ k <= n
  BY <1>1, <1>3, OwedAreCounted
<1>6. \/ c = IdleReconcile
      \/ c = [ctl EXCEPT !.pc = "target", !.suggested = n]
      \/ c = [ctl EXCEPT !.pc = "target"] /\ ~ (n > 0)
  <2>1. runsMetric # 2 => Primary # "busy"
    BY DEF runsMetric
  <2> HIDE DEF n
  <2> QED
    BY <2>1, SuggestedCases
<1> HIDE DEF n, k
<1>7. /\ c \in ReconcileSet
      /\ \/ c.waiting = {} /\ c.pc = "idle"
         \/ /\ c.waiting = ctl.waiting /\ c.pc = "target"
            /\ c.suggested = n \/ n = 0
  <2>1. CASE c = IdleReconcile
    <3> HIDE DEF c
    <3> QED
      BY <1>2, <2>1 DEF IdleReconcile
  <2>2. CASE c = [ctl EXCEPT !.pc = "target", !.suggested = n]
    <3>1. n \in Int
      BY <1>4
    <3> HIDE DEF c
    <3> QED
      BY <1>2, <2>2, <3>1 DEF ReconcileSet
  <2>3. CASE c = [ctl EXCEPT !.pc = "target"] /\ ~ (n > 0)
    <3> HIDE DEF c
    <3> QED
      BY <1>2, <1>4, <2>3 DEF ReconcileSet
  <2> QED
    BY <1>6, <2>1, <2>2, <2>3
<1> HIDE DEF c
<1>8. ctl'.pc = c.pc /\ ctl'.suggested = c.suggested /\ ctl'.waiting = w(c.waiting)
  <2> HIDE DEF w
  <2> QED
    BY <1>1, <1>7 DEF ReconcileSet
<1>9. CASE c.waiting = {} /\ c.pc = "idle"
  <2>1. ctl'.waiting = {} /\ ctl'.pc # "in_progress"
    BY <1>8, <1>9
  <2> QED
    BY <2>1, NothingWaits
<1>10. CASE c.waiting = ctl.waiting /\ c.pc = "target" /\ (c.suggested = n \/ n = 0)
  <2>1. ctl'.waiting = Listed(failing, early) /\ ctl'.pc = "target"
    BY <1>8, <1>10 DEF Listed
  <2>2. ListInv'
    <3>1. ctl'.waiting \subseteq ctl.waiting
      BY <2>1 DEF Listed
    <3>2. Requested' = Requested
      BY <1>1 DEF Requested
    <3> QED
      BY <2>1, <3>1, <3>2 DEF ListInv
  <2>3. ctl'.suggested \in Int
    BY DEF TypeOK, ReconcileSet
  <2>4. k <= Max({0, ctl'.suggested})
    <3> DEFINE m == Max({0, ctl'.suggested})
    <3>1. m \in Int /\ 0 <= m /\ ctl'.suggested <= m
      BY <2>3, MaxWithZero
    <3> HIDE DEF m
    <3>2. n <= m
      BY <1>8, <1>10, <3>1
    <3>3. k <= m
      BY <1>4, <1>5, <3>1, <3>2
    <3> QED
      BY <3>3 DEF m
  <2>5. {j \in ctl'.waiting \intersect Unfinished' : Counted(JobLabels[j], Target)}
          = OwedOf(failing, early)
    BY <1>1, <2>1 DEF OwedOf, Unfinished
  <2>6. NoRunMissed'
    BY <2>4, <2>5 DEF NoRunMissed, k
  <2> QED
    BY <2>2, <2>6
<1> QED
  BY <1>7, <1>9, <1>10

LEMMA ListNext ==
  TypeOK /\ TypeOK' /\ PastInv /\ ListInv /\ NoRunMissed /\ [Next]_vars => ListInv' /\ NoRunMissed'
<1> SUFFICES ASSUME TypeOK, TypeOK', PastInv, ListInv, NoRunMissed, [Next]_vars
             PROVE  ListInv' /\ NoRunMissed'
  OBVIOUS
<1>1. CASE \E r \in Runs : RunRequested(r)
  BY <1>1, ListRunRequested
<1>2. CASE \E j \in Jobs : JobStarts(j) \/ JobEnds(j)
  BY <1>2, ListJobMoves
<1>3. CASE \E e \in Jobs \X Actions : Misdeliver(e) \/ tryScale(e)
  BY <1>3, ListUntouched DEF Misdeliver, tryScale, ctlVars
<1>4. CASE Tick \/ SyncHookView \/ SyncView
  BY <1>4, ListUntouched DEF Tick, SyncHookView, SyncView, ctlVars
<1>5. CASE Reconcile \/ PatchStatus \/ ReconcileFails
  <2>1. CASE Reconcile
    BY <2>1, NothingWaits DEF Reconcile, IdleReconcile
  <2>2. CASE PatchStatus
    BY <2>2, NothingWaits DEF PatchStatus, IdleReconcile
  <2>3. CASE ReconcileFails
    BY <2>3, NothingWaits DEF ReconcileFails, IdleReconcile
  <2> QED
    BY <1>5, <2>1, <2>2, <2>3
<1>6. CASE UpdateTarget
  <2>1. ctl'.waiting = {} /\ ctl'.pc # "in_progress"
    BY <1>6 DEF UpdateTarget, IdleReconcile
  <2> QED
    BY <2>1, NothingWaits
<1>7. CASE SuggestByPercentageRunnersBusy
  <2>1. PICK s : ctl' = Suggested(1, s)
    BY <1>7 DEF SuggestByPercentageRunnersBusy
  <2>2. ctl.waiting = {} /\ ctl \in ReconcileSet
    BY <1>7 DEF SuggestByPercentageRunnersBusy, ListInv, TypeOK
  <2>3. ctl'.waiting = {} /\ ctl'.pc # "in_progress"
    <3>1. CASE ctl' = IdleReconcile
      BY <3>1 DEF IdleReconcile
    <3>2. CASE ctl' = [ctl EXCEPT !.pc = "target", !.suggested = s]
      BY <2>2, <3>2 DEF ReconcileSet
    <3>3. CASE ctl' = [ctl EXCEPT !.pc = "target"]
      BY <2>2, <3>3 DEF ReconcileSet
    <3>4. CASE ctl' = [ctl EXCEPT !.pc = "queued"]
      BY <2>2, <3>4 DEF ReconcileSet
    <3> QED
      BY <2>1, <3>1, <3>2, <3>3, <3>4, SuggestedCases
  <2> QED
    BY <2>3, NothingWaits
<1>8. CASE ListQueuedRuns \/ ListInProgressRuns
  BY <1>8, ListListQueuedRuns, ListListInProgressRuns
<1>9. CASE \E failing, early : CountJobs(failing, early)
  BY <1>9, ListCountJobs
<1>10. CASE \E q \in Requests : Expire(q)
  BY <1>10, ListUntouched DEF Expire
<1>11. CASE UNCHANGED vars
  BY <1>11, ListUntouched DEF vars
<1> QED
  BY <1>1, <1>2, <1>3, <1>4, <1>5, <1>6, <1>7, <1>8, <1>9, <1>10, <1>11 DEF Next, ControllerStep

\* However old the answers are that the client has kept, a run that moves from queued to in
\* progress between the two lists is not missed: the suggestion covers every job of the
\* target that the first list shows as unfinished and that is so still, unless the second
\* list shows its run in an earlier status than the first, or the list of the run's jobs
\* has failed or does not have the job yet.
THEOREM NoRunIsMissed == Safety => []NoRunMissed
<1>1. Init => ReplicaInv /\ PastInv /\ ListInv /\ NoRunMissed
  <2> SUFFICES ASSUME Init PROVE PastInv /\ ListInv /\ NoRunMissed
    BY ReplicaInit
  <2>1. /\ ctl.pc = "idle" /\ ctl.waiting = {} /\ \A r \in Runs : ctl.shown[r] = "none"
        /\ answers = <<>> /\ \A j \in Jobs : job[j] = "none"
    BY DEF Init, IdleReconcile
  <2>2. PastInv
    <3>1. \A r \in Runs : Stage(ctl.shown[r]) <= Stage(RunStatus(r))
      BY <2>1, StageType DEF Stage
    <3>2. Together
      BY <2>1 DEF Together, Jobs
    <3> QED
      BY <2>1, <3>1, <3>2 DEF PastInv
  <2> QED
    BY <2>1, <2>2 DEF ListInv, NoRunMissed, Waiting
<1>2. ReplicaInv /\ PastInv /\ ListInv /\ NoRunMissed /\ [Next]_vars
        => (ReplicaInv /\ PastInv /\ ListInv /\ NoRunMissed)'
  BY ReplicaNext, PastNext, ListNext DEF ReplicaInv
<1> QED
  BY <1>1, <1>2, PTL DEF Safety

=============================================================================
