------------------------- MODULE ScalingAlgorithms -------------------------
(***************************************************************************)
(* The calculations of the horizontal runner autoscaler that keep no state *)
(* of their own: the two pull-based metrics (controllers/autoscaling.go),  *)
(* scheduled overrides (controllers/schedule.go) and the desired replicas  *)
(* with reservations, limits and the scale-down delay                      *)
(* (controllers/horizontalrunnerautoscaler_controller.go).                 *)
(*                                                                         *)
(* Abstractions.                                                           *)
(*  - Thresholds and factors are percentages, and the code's float64       *)
(*    products are exact.  For the default factors both agree up to 89     *)
(*    replicas (int(90 * 0.7) is 62 in float64).                           *)
(*  - A frequency is a fixed number of ticks; Monthly and Yearly, whose    *)
(*    length depends on the date, are not distinguished from it.           *)
(*  - A result is a number, None (nil), Err (an error is returned) or      *)
(*    Panic (a nil pointer is dereferenced and the process ends).          *)
(***************************************************************************)
EXTENDS Totals, SequencesExt, FiniteSetsExt

None  == -1      \* a nil pointer
Bad   == -2      \* a string that strconv.ParseFloat rejects
Err   == -1001   \* "return nil, err"
Panic == -1002

\* defaultReplicas of the package, and the defaults of a busy metric in percent.
defaultReplicas == 1
defaultBusy == [up |-> 80, down |-> 30, upFactor |-> 130, downFactor |-> 70]

Ceil(n, d) == (n + d - 1) \div d

---------------------------------------------------------------------------
(* PercentageRunnersBusy *)

\* One of the factors together with an adjustment, a negative adjustment, or
\* a number that does not parse: the metric is rejected before GitHub is asked.
BusyMetricInvalid(m) ==
    \/ m.up = Bad \/ m.down = Bad
    \/ m.upAdjustment < 0 \/ m.downAdjustment < 0
    \/ m.upAdjustment # 0 /\ m.upFactor # None
    \/ m.downAdjustment # 0 /\ m.downFactor # None
    \/ m.upFactor = Bad \/ m.downFactor = Bad

OrDefault(m, field) == IF m[field] = None THEN defaultBusy[field] ELSE m[field]

\* replicas is the scale target's spec.replicas (or None), busy the number of
\* its registered runners that GitHub reports as busy.  The fraction
\* busy / before is never computed here: before = 0 makes it NaN (busy = 0:
\* both comparisons are false) or infinite (busy > 0: at least any threshold).
SuggestByBusy(m, replicas, busy) ==
    LET before == IF replicas = None THEN 1 ELSE replicas
        up     == IF before = 0 THEN busy > 0
                                ELSE 100 * busy >= OrDefault(m, "up") * before
        down   == before # 0 /\ 100 * busy < OrDefault(m, "down") * before
    IN IF BusyMetricInvalid(m) THEN Err
       ELSE IF up
       THEN IF m.upAdjustment > 0
            THEN before + m.upAdjustment
            ELSE Ceil(before * OrDefault(m, "upFactor"), 100)
       ELSE IF down
       THEN IF m.downAdjustment > 0
            THEN before - m.downAdjustment
            ELSE (before * OrDefault(m, "downFactor")) \div 100
       ELSE IF replicas = None THEN Panic ELSE replicas

---------------------------------------------------------------------------
(* TotalNumberOfQueuedAndInProgressWorkflowRuns *)

\* The repositories that are polled; {} stands for the two validation errors.
PolledRepos(st, m) == IF st.repo # "" THEN {st.repo}
                      ELSE IF st.org = "" THEN {} ELSE m.repositoryNames

\* A job counts if it asks for a self-hosted runner and for every label of the
\* scale target.
Counted(labels, st) == "self-hosted" \in labels /\ st.labels \subseteq labels

\* What is counted of one listed run.  jobs is the set of its jobs, [id, status, labels];
\* GitHub may list none yet, and then the run counts as one job.
CountedJobs(jobs, st) ==
    IF jobs = {} THEN {None}
    ELSE {j \in jobs : Counted(j.labels, st) /\ j.status \in {"queued", "in_progress"}}

---------------------------------------------------------------------------
(* Scheduled overrides: o = [start, end, freq, until, min]; freq = 0 is "" *)

Periods(o, last) ==
    {t \in {o.start + k * o.freq : k \in 0..last} : o.until = None \/ t <= o.until}

\* Both searches of rrule.Between include their ends.  -1 nanosecond is -1
\* tick here: a period [t, t + duration) is active from t to t + duration - 1.
MatchSchedule(now, o) ==
    LET duration == o.end - o.start
        started  == {t \in Periods(o, now) : now - duration + 1 <= t /\ t <= now}
        later    == {t \in Periods(o, now + o.freq) : now + 1 <= t /\ t <= now + o.freq}
    IN IF o.freq = 0
       THEN [err      |-> FALSE,
             active   |-> IF o.start <= now /\ now < o.end THEN o.start ELSE None,
             upcoming |-> IF now < o.start THEN o.start ELSE None]
       ELSE IF duration > o.freq \/ Cardinality(started) > 1
       THEN [err |-> TRUE, active |-> None, upcoming |-> None]
       ELSE [err      |-> FALSE,
             active   |-> IF started = {} THEN None ELSE Max(started),
             upcoming |-> IF later = {} THEN None ELSE Min(later)]

\* The first override that is active decides, even if it sets no minimum.
matchScheduledOverrides(now, overrides) ==
    LET active == {i \in DOMAIN overrides : MatchSchedule(now, overrides[i]).active # None}
    IN IF \E i \in DOMAIN overrides : MatchSchedule(now, overrides[i]).err THEN Err
       ELSE IF active = {} THEN None ELSE overrides[Min(active)].min

getMinReplicas(now, spec) ==
    LET m == matchScheduledOverrides(now, spec.overrides)
    IN IF m # None THEN m
       ELSE IF spec.min >= 0 THEN spec.min ELSE defaultReplicas

---------------------------------------------------------------------------
(* Desired replicas *)

\* Expired reservations stay.
ValidBug(reservations, now) == reservations

\* reservations are [eff, exp, replicas]; those that have expired are left out.
Valid(reservations, now) ==
    Keep(reservations, {i \in DOMAIN reservations : reservations[i].exp > now})
Reserved(reservations, now) ==
    LET valid == Valid(reservations, now)
    IN Total([i \in DOMAIN valid |-> valid[i].replicas], DOMAIN valid)

Clamp(n, min, max) == IF n < min THEN min
                      ELSE IF max # None /\ n > max THEN max ELSE n

\* The limits are applied before the reservations are added.
computeReplicasBug(spec, hra, now, min, suggested) ==
    Clamp(IF suggested = None THEN min ELSE suggested, min, spec.max)
      + Reserved(hra.reservations, now)

\* hra is the controller's copy of the object, suggested the metrics' answer.
computeReplicas(spec, hra, now, min, suggested) ==
    LET wanted == Clamp((IF suggested = None THEN min ELSE suggested)
                          + Reserved(hra.reservations, now), min, spec.max)
        scalesOut == hra.desired = None \/ hra.desired < wanted
    IN IF scalesOut \/ hra.lastScaleOut = None \/ hra.lastScaleOut + spec.delay <= now
       THEN wanted
       ELSE hra.desired

============================================================================
