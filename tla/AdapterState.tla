---------------------------- MODULE AdapterState ----------------------------
(***************************************************************************)
(* The circuit breaker and the rate limiter of one adapter in one process:  *)
(* their settings, their state, and what a caller may rely on.  What        *)
(* changes the state is in AdapterGuard.                                    *)
(***************************************************************************)
EXTENDS Naturals, Sequences, FiniteSets

CONSTANTS
    Threshold,    \* failure_threshold
    Limit,        \* sends per window of an adapter
    WindowLength, \* _WINDOW_SECONDS, in ticks
    MaxTime,      \* bounds on the clock, the calls, and the operator's controls and restarts
    MaxCalls,
    MaxControls

ASSUME GuardAssumption == Threshold \in Nat \ {0} /\ Limit \in Nat \ {0} /\ WindowLength \in Nat \ {0}
ASSUME GuardBoundsAssumption == MaxTime \in Nat /\ MaxCalls \in Nat /\ MaxControls \in Nat

VARIABLES
    breaker,      \* the process's _SimulatedCircuitBreakerState of one adapter
    bucket,       \* the sends the rate limiter remembers, by their number in contacts
    calls,        \* history: how the calls let through since the last restart or control ended
    contacts,     \* history: times of the provider contacts since the last restart
    now,
    made,         \* calls so far
    controls      \* controls and restarts so far

-----------------------------------------------------------------------------
Failures == {"timeout", "transient", "permanent", "unready", "invalid"}

\* The failures an adapter reported since its last success.
Streak ==
    LET sent == {i \in 1 .. Len(calls) : calls[i] = "sent"} IN
    Cardinality({i \in 1 .. Len(calls) : calls[i] \in Failures /\ \A j \in sent : j < i})

\* A closed breaker has seen fewer than Threshold reported failures in a row since an
\* operator or a restart touched it, and none after which no retry helps (execute).
ClosedMeansHealthy ==
    breaker.state = "closed" =>
        /\ Streak < Threshold
        /\ calls # <<>> => calls[Len(calls)] \notin {"permanent", "invalid"}

\* Only a message that got through, an operator or a restart closes a breaker.
OnlySuccessCloses ==
    [][breaker.state # "closed" /\ breaker'.state = "closed" =>
         calls' = Append(calls, "sent") \/ controls' = controls + 1
      ]_<<breaker, bucket, calls, contacts, now, made, controls>>
=============================================================================
