---------------------------- MODULE MCAutoscaler ----------------------------
(* Instances of Autoscaler for TLC: one workflow run with two jobs. *)
EXTENDS Autoscaler

MCRuns      == {"r1"}
MCJobsOf    == [r \in MCRuns |-> {"j1", "j2"}]
MCJobLabels == [j \in {"j1", "j2"} |-> {"self-hosted", "gpu"}]
MCRepoOf    == [r \in MCRuns |-> "repo"]
MCTarget    == [repo |-> "", org |-> "org", labels |-> {"gpu"}, ephemeral |-> TRUE]
MCInitialReplicas == {None}

RunsMetric == [type |-> "runs", repositoryNames |-> {"repo"}]
BusyMetric == [type |-> "busy", up |-> None, down |-> None, upFactor |-> None,
               downFactor |-> None, upAdjustment |-> 0, downAdjustment |-> 0]

\* Polling for workflow runs, from zero.
Polling == [min |-> 0, max |-> 2, metrics |-> <<RunsMetric>>, overrides |-> <<>>,
            delay |-> 1, webhook |-> FALSE]

\* Both metrics, from zero.
Combined == [Polling EXCEPT !.metrics = <<BusyMetric, RunsMetric>>]

\* Busy runners and webhooks, with a threshold above the fraction that one
\* runner can reach, and a recurring minimum.
Busy == [min |-> 1, max |-> 2, metrics |-> <<[BusyMetric EXCEPT !.up = 150]>>,
         overrides |-> <<[start |-> 0, end |-> 1, freq |-> 2, until |-> 0, min |-> 2]>>,
         delay |-> 1, webhook |-> TRUE]

\* Busy runners alone.
BusyOnly == [Busy EXCEPT !.overrides = <<>>, !.webhook = FALSE]

\* Webhooks only.
Webhooks == [Polling EXCEPT !.metrics = <<>>, !.webhook = TRUE]

\* Webhooks with a minimum of one and two overrides, the first of them without
\* a minimum, the second one above maxReplicas.
Scheduled ==
    [min |-> 1, max |-> 1, metrics |-> <<>>, delay |-> 1, webhook |-> TRUE,
     overrides |-> <<[start |-> 0, end |-> 1, freq |-> 0, until |-> None, min |-> None],
                     [start |-> 0, end |-> 2, freq |-> 0, until |-> None, min |-> 2]>>]

PassScenarios ==
    {[specs |-> {Combined}, lags |-> {{"hra"}, {"target"}}],
     [specs |-> {Polling, BusyOnly}, lags |-> {{"github"}}],
     [specs |-> {Busy}, lags |-> {{}}],
     [specs |-> {Scheduled}, lags |-> {{"hook"}}]}
WebhookOnly == {[specs |-> {Webhooks}, lags |-> {{"hook"}}]}

---------------------------------------------------------------------------
(* The pure calculations, over more inputs than the scenarios give them *)

\* One evaluation of the busy metric never undoes the one before: with the
\* default thresholds and an unchanged load a scale-up is not followed by a
\* scale-down, nor the other way round (autoscaling.go:326-352).
ASSUME NoFlapping ==
    LET m == [type |-> "busy", up |-> None, down |-> None, upFactor |-> None,
              downFactor |-> None, upAdjustment |-> 0, downAdjustment |-> 0]
        next(n, busy) == SuggestByBusy(m, n, busy)
    IN \A n \in 1..40, busy \in 0..40 :
         /\ next(n, busy) > n => next(next(n, busy), busy) >= next(n, busy)
         /\ next(n, busy) < n => next(next(n, busy), busy) <= next(n, busy)

\* schedule.go:101 calls more than one active period a bug: the only error a
\* recurring override gives is that it is longer than its frequency, and a
\* period that is active ends no later than the upcoming one starts.
ASSUME SchedulesAreUnambiguous ==
    \A t, start \in 0..6, length \in 1..5, freq \in 1..4, until \in {None, 4} :
        LET o == [start |-> start, end |-> start + length, freq |-> freq,
                  until |-> until, min |-> 0]
            m == MatchSchedule(t, o)
        IN /\ m.err <=> length > freq
           /\ m.active # None /\ m.upcoming # None => m.active + length <= m.upcoming

===========================================================================
