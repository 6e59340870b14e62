---------------------------- MODULE AdapterGuard ----------------------------
(***************************************************************************)
(* What stands between a caller and a provider inside one process: the      *)
(* circuit breaker of integrations/base_integration.py and the sliding      *)
(* window of integrations/adapter_rate_limiter.py, with the order in which  *)
(* integrations/slack_adapter.py asks them.  Both live in module variables, *)
(* so every process has its own and a restart clears them; the calls of a   *)
(* process follow one another (sync workers, a single-threaded daemon).     *)
(*                                                                          *)
(* The cooldown is left out: it only makes an operator pass                 *)
(* override_cooldown, and request_half_open_probe, which would wait for it, *)
(* has no caller.                                                           *)
(***************************************************************************)
EXTENDS Integers, FiniteSets, Sequences, AdapterState

vars == <<breaker, bucket, calls, contacts, now, made, controls>>

Breakers == [state : {"closed", "open", "half_open"}, failures : 0 .. Threshold, probe : BOOLEAN]

\* How a call of the adapter ends: sent; no answer in time; a failure worth retrying; an
\* HTTP refusal; an exception the adapter does not classify; and, without contacting the
\* provider, a missing credential ("unready"), a missing guard or an unusable webhook
\* ("invalid"), or a full window.  The callers send only actions the adapter supports.
Contacting == {"sent", "timeout", "transient", "permanent", "raised"}
Outcomes == Contacting \cup {"unready", "invalid", "limited"}

TypeOK ==
    /\ breaker \in Breakers
    /\ contacts \in Seq(0 .. MaxTime) /\ bucket \subseteq 1 .. Len(contacts)
    /\ calls \in Seq(Outcomes)
    /\ now \in 0 .. MaxTime /\ made \in 0 .. MaxCalls /\ controls \in 0 .. MaxControls

-----------------------------------------------------------------------------
\* Circuit breaker: what becomes of a breaker b.

\* _reset_to_closed_success: a new breaker, a success, a manual reset.
Closed == [state |-> "closed", failures |-> 0, probe |-> FALSE]

\* _force_open.
Tripped(b) == [state |-> "open", probe |-> FALSE,
               failures |-> IF b.failures < Threshold THEN Threshold ELSE b.failures]

\* _complete_half_open_failure and a manual force-open leave the count alone.
Opened(b) == [state |-> "open", failures |-> b.failures, probe |-> FALSE]

\* manual_enable_half_open_probe.
Probing(b) == [state |-> "half_open", failures |-> b.failures, probe |-> TRUE]

\* execute() consumes the probe it lets through.
Spent(b) == [state |-> b.state, failures |-> b.failures, probe |-> FALSE]

\* Mutant of CountFailure: the breaker opens one failure too late.
CountFailureLate(b) ==
    IF b.failures >= Threshold THEN Tripped(b) ELSE [b EXCEPT !.failures = @ + 1]

\* _apply_failure_increment on a closed breaker.
CountFailure(b) ==
    IF b.failures + 1 >= Threshold THEN Tripped(b)
    ELSE [state |-> b.state, failures |-> b.failures + 1, probe |-> b.probe]

\* execute() lets the call through.
Admits(b) == b.state = "closed" \/ (b.state = "half_open" /\ b.probe)

\* Mutant of Settled: a rate-limited probe counts as a recovery.
SettledLimitedCloses(b, outcome) ==
    IF outcome \in {"sent", "limited"} THEN Closed
    ELSE IF b.state = "half_open" THEN Opened(b)
    ELSE IF outcome = "raised" THEN b
    ELSE IF outcome \in {"permanent", "invalid"} THEN Tripped(b)
    ELSE CountFailure(b)

\* execute() consumes the probe, and _integrate_circuit_after_simulation books the outcome.
\* A rate-limited probe leaves the breaker half open with its probe used; an exception is
\* booked for a probe only.
Settled(b, outcome) ==
    IF outcome = "sent" THEN Closed
    ELSE IF outcome = "limited" THEN Spent(b)
    ELSE IF b.state = "half_open" THEN Opened(b)
    ELSE IF outcome = "raised" THEN b
    ELSE IF outcome \in {"permanent", "invalid"} THEN Tripped(b)
    ELSE CountFailure(b)

-----------------------------------------------------------------------------
\* Rate limiter.

\* check_adapter_rate_limit drops what is at or before the start of the window.
Recent == {i \in bucket : contacts[i] > now - WindowLength}

Full == Cardinality(Recent) >= Limit

-----------------------------------------------------------------------------
Init ==
    /\ breaker = Closed /\ bucket = {}
    /\ calls = <<>> /\ contacts = <<>>
    /\ now = 0 /\ made = 0 /\ controls = 0

\* execute() let the call through and the adapter ran to this outcome; a call that is not
\* let through changes nothing.
Ended(outcome) ==
    /\ made < MaxCalls /\ Admits(breaker)
    /\ made' = made + 1
    /\ breaker' = Settled(breaker, outcome)
    /\ calls' = Append(calls, outcome)
    /\ UNCHANGED <<now, controls>>

\* Guards and webhook pass, the window has room: the provider is contacted.
Contact(outcome) ==
    /\ ~Full
    /\ Ended(outcome)
    /\ contacts' = Append(contacts, now) /\ bucket' = Recent \cup {Len(contacts) + 1}

\* The window is full.
HitLimit ==
    /\ Full
    /\ Ended("limited")
    /\ bucket' = Recent
    /\ UNCHANGED contacts

\* A guard, a credential or a usable webhook is missing; checked before the rate limit.
NotReady(outcome) ==
    /\ Ended(outcome)
    /\ UNCHANGED <<bucket, contacts>>

\* The super-admin routes, served by this process.
Control(b) ==
    /\ controls < MaxControls
    /\ controls' = controls + 1
    /\ breaker' = b
    /\ calls' = <<>>
    /\ UNCHANGED <<bucket, contacts, now, made>>

ManualReset == Control(Closed)
ManualForceOpen == Control(Opened(breaker))
ManualEnableHalfOpen == breaker.state = "open" /\ Control(Probing(breaker))

\* The process starts again with empty module variables.
Restart ==
    /\ controls < MaxControls
    /\ controls' = controls + 1
    /\ breaker' = Closed /\ bucket' = {}
    /\ calls' = <<>> /\ contacts' = <<>>
    /\ UNCHANGED <<now, made>>

Tick ==
    /\ now < MaxTime
    /\ now' = now + 1
    /\ UNCHANGED <<breaker, bucket, calls, contacts, made, controls>>

Next ==
    \/ \E outcome \in Contacting : Contact(outcome)
    \/ \E outcome \in {"unready", "invalid"} : NotReady(outcome)
    \/ HitLimit
    \/ ManualReset \/ ManualForceOpen \/ ManualEnableHalfOpen \/ Restart
    \/ Tick

Spec == Init /\ [][Next]_vars

-----------------------------------------------------------------------------
\* Properties.

\* A half-open breaker lets through the one call the operator granted, and only a probe
\* the rate limiter swallowed leaves it half open (execute).
OneProbePerGrant ==
    breaker.state = "half_open" => calls = IF breaker.probe THEN <<>> ELSE <<"limited">>

\* The provider is not contacted more than Limit times within WindowLength ticks
\* (check_adapter_rate_limit).
WindowLimit ==
    \A t \in 0 .. MaxTime :
        Cardinality({i \in 1 .. Len(contacts) : contacts[i] \in t .. t + WindowLength - 1}) <= Limit
=============================================================================
