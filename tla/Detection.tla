------------------------------ MODULE Detection ------------------------------
(***************************************************************************)
(* Detection of engines/ingest_engine.py, engines/detection_engine.py and   *)
(* engines/correlation_engine.py for one source address.  A session (a sync *)
(* web worker) ingests the events of a request in one transaction: it       *)
(* inserts an event, runs the detectors of the event's type one by one,     *)
(* and, when one of them raised an alert, the correlation rules; after the  *)
(* last event it commits.  A query sees what others have committed and what *)
(* its own transaction wrote, and NOW() is the time the transaction began.  *)
(* Analysts resolve and reopen alerts; the audit row that starts a cooldown *)
(* is written by a transaction of its own.                                  *)
(*                                                                          *)
(* An event is its kind: type, source, the value a rule tells apart (user,  *)
(* path or port), and for a firewall its destination, direction and role.   *)
(* Reputation and location lookups are left out but for the score's verdict.*)
(***************************************************************************)
EXTENDS Integers, FiniteSets, Sequences, FiniteSetsExt

CONSTANTS
    Sessions,         \* web workers that ingest
    Scenes,           \* what may happen to the address: see TypeOK
    Params,           \* rule -> [threshold, window], its effective parameters
    Limits,           \* the parameters that only one rule has
    CorrelationWindow, \* correlation rule -> its window
    Cooldown,         \* PFSENSE_ALERT_COOLDOWN_MINUTES
    Multiplier,       \* PFSENSE_SEVERITY_ESCALATION_MULTIPLIER
    None,             \* no value, NULL
    MaxEvents, MaxBatch, MaxTime, MaxChanges

VARIABLES
    scene,            \* the kinds that arrive, inactive rules, whether the address is protected or disreputable
    events,           \* committed events
    alerts,           \* committed alerts; seen: how many there were when it was raised
    audit,            \* committed "resolved" rows of the audit log
    unlogged,         \* alerts resolved and not yet in the audit log
    session,          \* session -> its transaction
    now, begun, changes

vars == <<scene, events, alerts, audit, unlogged, session, now, begun, changes>>

Sources == {"bank_app", "honeypot", "pfsense", "nginx", "azure_insights", "opentelemetry"}
Rank == [low |-> 0, medium |-> 1, high |-> 2, critical |-> 3]
Idle == [at |-> None]

-----------------------------------------------------------------------------
\* Rules that count: how many recent events, or different values, of these types and one source.

Counting(types, distinct, severity, sources) ==
    [types |-> types, distinct |-> distinct, severity |-> severity, sources |-> sources]

FailedLogin == Counting({"failed_login", "login_failure", "unauthorized_access"}, FALSE, "high",
                        {"bank_app", "azure_insights", "nginx", "opentelemetry"})
HttpError == Counting({"http_error"}, FALSE, "medium",
                      {"honeypot", "nginx", "azure_insights", "opentelemetry"})
PortScan == Counting({"port_scan"}, TRUE, "medium", {"bank_app"})
PasswordSpraying == Counting({"failed_login"}, TRUE, "high", {"bank_app", "azure_insights"})
ApplicationException == Counting({"application_exception"}, FALSE, "high",
                                 {"azure_insights", "opentelemetry"})
UnauthorizedAccess == Counting({"unauthorized_access"}, FALSE, "high", {"azure_insights"})
HighRequestRate == Counting({"normal_activity", "unauthorized_access", "http_error"}, FALSE, "medium",
                            {"nginx", "opentelemetry"})
EnvProbe == Counting({"env_probe"}, TRUE, "high", {"honeypot"})
AdminProbe == Counting({"admin_probe"}, TRUE, "medium", {"honeypot"})
ScannerDetected == Counting({"scanner_detected"}, FALSE, "medium", {"honeypot"})
CredentialStuffing == Counting({"credential_stuffing"}, TRUE, "high", {"honeypot"})
\* The roll-up of a noisy firewall source.
NoisySource == Counting({"firewall_block", "firewall_allow"}, FALSE, "low", {"pfsense"})

CountingRules == [
    failed_login_threshold |-> FailedLogin, http_error_threshold |-> HttpError,
    port_scan_threshold |-> PortScan, password_spraying_threshold |-> PasswordSpraying,
    application_exception_threshold |-> ApplicationException,
    app_insights_unauthorized_access_threshold |-> UnauthorizedAccess,
    high_request_rate_threshold |-> HighRequestRate,
    honeypot_env_probe_threshold |-> EnvProbe, honeypot_admin_probe_threshold |-> AdminProbe,
    honeypot_scanner_detected |-> ScannerDetected,
    honeypot_credential_stuffing_threshold |-> CredentialStuffing,
    pfsense_firewall_noisy_source |-> NoisySource]

FirewallRules == {"pfsense_firewall_repeated_deny", "pfsense_firewall_port_scan",
                  "pfsense_firewall_suspicious_allow", "pfsense_firewall_allow_after_deny"}
CooldownRules == FirewallRules \cup {"pfsense_firewall_noisy_source"}
BaseRules == DOMAIN CountingRules \cup FirewallRules \cup {"successful_login_after_spray"}

\* Mutant of Recent: the event that opens the window is left out.
RecentOpen(evs, types, source, t, window) ==
    {i \in DOMAIN evs : evs[i].kind.type \in types /\ evs[i].kind.source = source /\ evs[i].at > t - window}

\* The events of a detector's window.
Recent(evs, types, source, t, window) ==
    {i \in DOMAIN evs : evs[i].kind.type \in types /\ evs[i].kind.source = source /\ evs[i].at >= t - window}

Values(evs, hits) == {evs[i].kind.value : i \in hits}

Count(rule, evs, source, t) ==
    LET r == CountingRules[rule]
        hits == Recent(evs, r.types, source, t, Params[rule].window)
    IN  Cardinality(IF r.distinct THEN Values(evs, hits) \ {None} ELSE hits)

\* What a detector may raise: a severity, and the rank of its group in the loop.
Candidate(severity) == [order |-> 0, severity |-> severity]

\* successful_login_after_spray: a recent success after failures of enough users.
AfterSpray(evs, source, t) ==
    LET p == Params["successful_login_after_spray"]
        sprayed(s) == {i \in Recent(evs, {"failed_login"}, source, t, Limits.failedLookback) :
                          evs[i].at \in evs[s].at - Limits.sprayWindow .. evs[s].at}
    IN  IF \E s \in Recent(evs, {"successful_login"}, source, t, p.window) :
              Cardinality(Values(evs, sprayed(s)) \ {None}) >= p.threshold
        THEN {Candidate("critical")} ELSE {}

-----------------------------------------------------------------------------
\* Firewall rules.

\* _pfsense_repeated_deny_severity.
RepeatedDenySeverity(threshold, count, dir, initiations) ==
    IF dir = "out"
    THEN IF ~scene.protected \/ initiations >= threshold THEN "high" ELSE IF initiations > 0 THEN "medium" ELSE "low"
    ELSE IF count >= threshold * Multiplier THEN "medium" ELSE "low"

\* One group per destination, port and direction, in the order of their first events.
RepeatedDeny(evs, t) ==
    LET p == Params["pfsense_firewall_repeated_deny"]
        hits == Recent(evs, {"firewall_block"}, "pfsense", t, p.window)
        key(i) == <<evs[i].kind.dest, evs[i].kind.value, evs[i].kind.dir>>
        group(i) == {j \in hits : key(j) = key(i)}
    IN  {[order |-> Min({evs[j].at : j \in group(i)}),
          severity |-> RepeatedDenySeverity(p.threshold, Cardinality(group(i)), evs[i].kind.dir,
                          Cardinality({j \in group(i) : evs[j].kind.role = "initiation"}))] :
             i \in {j \in hits : Cardinality(group(j)) >= p.threshold}}

\* _pfsense_port_scan_severity.
PortScanSeverity(ports, portThreshold, hosts, hostThreshold) ==
    IF \/ ports >= portThreshold * 3 \/ hosts >= hostThreshold * 3
       \/ scene.disreputable /\ (ports >= portThreshold * 2 \/ hosts >= hostThreshold * 2)
    THEN "high" ELSE "medium"

\* Many ports or many hosts; the replies of a protected host do not count.
FirewallPortScan(evs, t) ==
    LET p == Params["pfsense_firewall_port_scan"]
        reply(k) == k.dir = "out" /\ scene.protected /\ k.role \in {"reply", "ambiguous"}
        hits == {i \in Recent(evs, {"firewall_block"}, "pfsense", t, p.window) :
                    evs[i].kind.value # None /\ ~reply(evs[i].kind)}
        ports == Cardinality(Values(evs, hits))
        hosts == Cardinality({evs[i].kind.dest : i \in hits})
    IN  IF hits # {} /\ (ports >= p.threshold \/ hosts >= Limits.hosts)
        THEN {Candidate(PortScanSeverity(ports, p.threshold, hosts, Limits.hosts))} ELSE {}

\* _pfsense_suspicious_allow_severity.
SuspiciousAllowSeverity(count, ports) ==
    IF count >= Limits.repeats \/ ports >= Limits.ports \/ (scene.disreputable /\ count >= 2)
    THEN "high" ELSE "medium"

\* Inbound traffic let through to sensitive ports.
SuspiciousAllow(evs, t) ==
    LET p == Params["pfsense_firewall_suspicious_allow"]
        hits == {i \in Recent(evs, {"firewall_allow"}, "pfsense", t, p.window) :
                    evs[i].kind.dir = "in" /\ evs[i].kind.value \in Limits.sensitive}
    IN  IF Cardinality(hits) >= p.threshold
        THEN {Candidate(SuspiciousAllowSeverity(Cardinality(hits), Cardinality(Values(evs, hits))))}
        ELSE {}

\* Inbound traffic let through to a service that was denied before.
AllowAfterDeny(evs, t) ==
    LET p == Params["pfsense_firewall_allow_after_deny"]
        allows == {i \in Recent(evs, {"firewall_allow"}, "pfsense", t, p.window) :
                      evs[i].kind.dir = "in" /\ evs[i].kind.value # None /\ evs[i].kind.dest # None}
        last(k) == Max({evs[i].at : i \in {j \in allows : evs[j].kind = k}})
        denies(k) == {i \in DOMAIN evs : /\ evs[i].kind.type = "firewall_block" /\ evs[i].kind.dir = "in"
                                         /\ evs[i].kind.value = k.value
                                         /\ evs[i].at \in last(k) - p.window .. last(k)}
        exact(k) == {i \in denies(k) : evs[i].kind.dest = k.dest}
        severity(k) == IF \/ Cardinality(exact(k)) >= Limits.denies
                          \/ Cardinality(denies(k)) >= Limits.denies /\ k.value \in Limits.sensitive
                       THEN "high" ELSE "medium"
    IN  {Candidate(severity(k)) :
             k \in {j \in {evs[i].kind : i \in allows} : Cardinality(denies(j)) >= p.threshold}}

-----------------------------------------------------------------------------
\* Correlation rules: both groups of a pattern have an open alert of the window.

WebToApp == <<{"http_error_threshold", "high_request_rate_threshold"} \X {"nginx"},
              {"failed_login_threshold", "password_spraying_threshold"} \X {"bank_app"}>>
SprayThenSuccess == <<{"password_spraying_threshold"} \X Sources,
                      {"successful_login_after_spray"} \X Sources>>
CloudAppError == <<{"http_error_threshold", "application_exception_threshold"} \X {"azure_insights"},
                   {"http_error_threshold", "high_request_rate_threshold"} \X {"nginx"}>>
AzureAuthAbuse == <<{"app_insights_unauthorized_access_threshold", "password_spraying_threshold",
                     "failed_login_threshold"} \X {"azure_insights"},
                    {"application_exception_threshold"} \X {"azure_insights"}>>

Patterns == [web_to_app_attack_pattern |-> WebToApp, spray_then_success_pattern |-> SprayThenSuccess,
             cloud_app_error_pattern |-> CloudAppError,
             azure_auth_abuse_exception_correlation |-> AzureAuthAbuse]

\* The alert types generate_correlated_activity_alerts counts.
CorrelatedTypes == {"failed_login_threshold", "password_spraying_threshold", "successful_login_after_spray",
                    "port_scan_threshold", "http_error_threshold", "high_request_rate_threshold",
                    "pfsense_firewall_repeated_deny", "pfsense_firewall_port_scan",
                    "pfsense_firewall_suspicious_allow"}

\* The order in which the correlation rules run.
CorrelationRules == <<"correlated_activity", "web_to_app_attack_pattern", "spray_then_success_pattern",
                      "cloud_app_error_pattern", "azure_auth_abuse_exception_correlation">>

\* Windows are counted in ticks.
ASSUME WindowAssumption ==
    /\ \A rule \in BaseRules : Params[rule].window \in Nat
    /\ \A rule \in DOMAIN Patterns : CorrelationWindow[rule] \in Nat

\* open: the <<rule, source>> of the open alerts of the window.
Correlated(rule, open) ==
    IF rule = "correlated_activity"
    THEN LET parts == {p \in open : p[1] \in CorrelatedTypes}
         IN Cardinality({p[1] : p \in parts}) >= 2 /\ Cardinality({p[2] : p \in parts}) >= 2
    ELSE \A g \in 1 .. 2 : Patterns[rule][g] \cap open # {}

-----------------------------------------------------------------------------
\* Ingest.

\* detector_candidates of ingest_normalized_event.
Detectors(type) ==
    CASE type = "failed_login" -> <<"failed_login_threshold", "password_spraying_threshold",
                                    "successful_login_after_spray">>
      [] type = "unauthorized_access" -> <<"failed_login_threshold",
                 "app_insights_unauthorized_access_threshold", "high_request_rate_threshold">>
      [] type = "http_error" -> <<"http_error_threshold", "high_request_rate_threshold">>
      [] type = "application_exception" -> <<"application_exception_threshold">>
      [] type = "normal_activity" -> <<"high_request_rate_threshold">>
      [] type = "successful_login" -> <<"successful_login_after_spray">>
      [] type = "port_scan" -> <<"port_scan_threshold">>
      [] type = "env_probe" -> <<"honeypot_env_probe_threshold">>
      [] type = "admin_probe" -> <<"honeypot_admin_probe_threshold">>
      [] type = "scanner_detected" -> <<"honeypot_scanner_detected">>
      [] type = "credential_stuffing" -> <<"honeypot_credential_stuffing_threshold">>
      [] type = "firewall_block" -> <<"pfsense_firewall_repeated_deny", "pfsense_firewall_port_scan",
                                      "pfsense_firewall_noisy_source">>
      [] type = "firewall_allow" -> <<"pfsense_firewall_allow_after_deny",
                 "pfsense_firewall_suspicious_allow", "pfsense_firewall_noisy_source">>
      [] OTHER -> <<>>

\* rule_applies_to_source and the active flag.
Applies(rule, source) ==
    /\ rule \notin scene.inactive
    /\ CASE rule \in DOMAIN CountingRules -> source \in CountingRules[rule].sources
         [] rule \in FirewallRules -> source = "pfsense"
         [] OTHER -> source \in {"bank_app", "azure_insights"}

\* The detectors of an event that run, in their order.
ToRun(kind) ==
    LET all == Detectors(kind.type)
        run == {i \in DOMAIN all : Applies(all[i], kind.source)}
    IN [k \in 1 .. Cardinality(run) |-> all[CHOOSE i \in run : Cardinality({j \in run : j <= i}) = k]]

\* What a query of session s sees.
VisibleEvents(s) ==
    events \o [i \in DOMAIN session[s].own |-> [kind |-> session[s].own[i], at |-> session[s].at, alone |-> TRUE]]

\* Mutant of OpenAlerts: the transaction does not see the alerts it raised itself.
OpenAlertsCommitted(s) ==
    {<<alerts[a].rule, alerts[a].source, alerts[a].at>> : a \in {b \in DOMAIN alerts : alerts[b].status = "open"}}

OpenAlerts(s) ==
    {<<alerts[a].rule, alerts[a].source, alerts[a].at>> : a \in {b \in DOMAIN alerts : alerts[b].status = "open"}}
    \cup {<<session[s].raised[i].rule, session[s].raised[i].source, session[s].at>> :
             i \in DOMAIN session[s].raised}

\* Mutant of Guarded: an open alert does not keep its rule from firing again.
GuardedNever(s, rule) == FALSE

\* An open alert keeps the rule from raising another; any firewall alert keeps the roll-up back.
Guarded(s, rule) ==
    LET guards == IF rule = "pfsense_firewall_noisy_source" THEN CooldownRules ELSE {rule}
    IN \E open \in OpenAlerts(s) : open[1] \in guards

\* _pfsense_cooldown_suppresses: the alert of this rule closed last, within the cooldown, was
\* at least as severe.
Suppressed(rule, severity, t) ==
    LET closed == {i \in DOMAIN audit : /\ alerts[audit[i].alert].rule = rule
                                        /\ alerts[audit[i].alert].status = "resolved"
                                        /\ audit[i].at >= t - Cooldown}
    IN /\ rule \in CooldownRules /\ closed # {}
       /\ Rank[severity] <= Rank[alerts[audit[Max(closed)].alert].severity]

\* What the rule would raise for session s.
Candidates(s, rule) ==
    LET evs == VisibleEvents(s)
        source == session[s].own[Len(session[s].own)].source
        t == session[s].at
        recentOpen == {<<o[1], o[2]>> : o \in {p \in OpenAlerts(s) : p[3] >= t - CorrelationWindow[rule]}}
    IN CASE rule \in DOMAIN CountingRules ->
              IF Count(rule, evs, source, t) >= Params[rule].threshold
              THEN {Candidate(CountingRules[rule].severity)} ELSE {}
         [] rule = "successful_login_after_spray" -> AfterSpray(evs, source, t)
         [] rule = "pfsense_firewall_repeated_deny" -> RepeatedDeny(evs, t)
         [] rule = "pfsense_firewall_port_scan" -> FirewallPortScan(evs, t)
         [] rule = "pfsense_firewall_suspicious_allow" -> SuspiciousAllow(evs, t)
         [] rule = "pfsense_firewall_allow_after_deny" -> AllowAfterDeny(evs, t)
         [] OTHER -> IF Correlated(rule, recentOpen) THEN {Candidate("high")} ELSE {}

-----------------------------------------------------------------------------

Init ==
    /\ scene \in Scenes
    /\ events = <<>> /\ alerts = <<>> /\ audit = <<>> /\ unlogged = {}
    /\ session = [s \in Sessions |-> Idle]
    /\ now = 0 /\ begun = 0 /\ changes = 0

Busy(s) == session[s] # Idle

\* A request: the transaction opens and inserts its first event.
Begin(s, kind) ==
    LET others == \E r \in Sessions : Busy(r)
    IN /\ ~Busy(s) /\ begun < MaxEvents
       /\ session' = [r \in Sessions |->
             CASE r = s -> [at |-> now, own |-> <<kind>>, todo |-> ToRun(kind), raised |-> <<>>,
                            fresh |-> FALSE, alone |-> ~others]
               [] Busy(r) -> [session[r] EXCEPT !.alone = FALSE]
               [] OTHER -> Idle]
       /\ begun' = begun + 1
       /\ UNCHANGED <<scene, events, alerts, audit, unlogged, now, changes>>

\* The next event of a batch (/ingest/azure and /ingest/otel).
NextEvent(s, kind) ==
    /\ Busy(s) /\ session[s].todo = <<>> /\ ~session[s].fresh
    /\ begun < MaxEvents /\ Len(session[s].own) < MaxBatch
    /\ session' = [session EXCEPT ![s].own = Append(@, kind), ![s].todo = ToRun(kind)]
    /\ begun' = begun + 1
    /\ UNCHANGED <<scene, events, alerts, audit, unlogged, now, changes>>

\* The next rule of the list runs; the alert it may raise belongs to the transaction.  (The
\* source of a correlation alert is that of the newest alert it is built on; nothing reads it.)
RunRule(s) ==
    LET t == session[s]
        rule == Head(t.todo)
        left == IF Guarded(s, rule) THEN {}
                ELSE {c \in Candidates(s, rule) : ~Suppressed(rule, c.severity, t.at)}
        first == {c \in left : \A d \in left : c.order <= d.order}
        alert(c) == [rule |-> rule, severity |-> c.severity, seen |-> Len(alerts),
                     source |-> t.own[Len(t.own)].source]
        base == rule \in BaseRules
    IN /\ Busy(s) /\ t.todo # <<>>
       /\ \/ /\ first = {}
             /\ session' = [session EXCEPT ![s].todo = Tail(@)]
          \/ \E c \in first :
                session' = [session EXCEPT ![s].todo = Tail(@), ![s].raised = Append(@, alert(c)),
                                           ![s].fresh = @ \/ base]
       /\ UNCHANGED <<scene, events, alerts, audit, unlogged, now, begun, changes>>

\* The event's detectors raised an alert: the correlation rules run.
Correlate(s) ==
    /\ Busy(s) /\ session[s].todo = <<>> /\ session[s].fresh
    /\ session' = [session EXCEPT ![s].todo = CorrelationRules, ![s].fresh = FALSE]
    /\ UNCHANGED <<scene, events, alerts, audit, unlogged, now, begun, changes>>

\* The commit of the ingest route.
Commit(s) ==
    LET t == session[s]
    IN /\ Busy(s) /\ t.todo = <<>> /\ ~t.fresh
       /\ events' = events \o [i \in DOMAIN t.own |-> [kind |-> t.own[i], at |-> t.at, alone |-> t.alone]]
       /\ alerts' = alerts \o [i \in DOMAIN t.raised |->
             [rule |-> t.raised[i].rule, source |-> t.raised[i].source, at |-> t.at,
              severity |-> t.raised[i].severity, seen |-> t.raised[i].seen,
              status |-> "open", reopened |-> FALSE]]
       /\ session' = [session EXCEPT ![s] = Idle]
       /\ UNCHANGED <<scene, audit, unlogged, now, begun, changes>>

\* An exception of any query or lookup rolls the request back, its events included.
Abort(s) ==
    /\ Busy(s)
    /\ session' = [session EXCEPT ![s] = Idle]
    /\ UNCHANGED <<scene, events, alerts, audit, unlogged, now, begun, changes>>

-----------------------------------------------------------------------------
\* update_alert_status commits the status, and then log_audit_event its row.
SetStatus(a, status) ==
    /\ changes < MaxChanges /\ changes' = changes + 1
    /\ alerts' = [alerts EXCEPT ![a].status = status, ![a].reopened = @ \/ status = "open"]
    /\ unlogged' = IF status = "resolved" THEN unlogged \cup {a} ELSE unlogged
    /\ UNCHANGED <<scene, events, audit, session, now, begun>>

LogStatus(a) ==
    /\ audit' = Append(audit, [alert |-> a, at |-> now])
    /\ unlogged' = unlogged \ {a}
    /\ UNCHANGED <<scene, events, alerts, session, now, begun, changes>>

Tick ==
    /\ now < MaxTime /\ now' = now + 1
    /\ UNCHANGED <<scene, events, alerts, audit, unlogged, session, begun, changes>>

Ingest(s) ==
    \/ \E kind \in scene.kinds : Begin(s, kind) \/ NextEvent(s, kind)
    \/ RunRule(s) \/ Correlate(s) \/ Commit(s) \/ Abort(s)

Next ==
    \/ \E s \in Sessions : Ingest(s)
    \/ \E a \in DOMAIN alerts, status \in {"open", "resolved"} : SetStatus(a, status)
    \/ \E a \in unlogged : LogStatus(a)
    \/ Tick

Spec == Init /\ [][Next]_vars

-----------------------------------------------------------------------------
(* Properties. *)

\* Two alerts of one type stand open at a time only if the later was raised before the earlier
\* was committed, or an analyst reopened the earlier: the check for an open alert closes every
\* other way to a duplicate.
DuplicatesOverlap ==
    \A a, b \in DOMAIN alerts :
        /\ a < b /\ alerts[a].rule = alerts[b].rule
        /\ alerts[a].status = "open" /\ alerts[b].status = "open" /\ ~alerts[a].reopened
        => alerts[b].seen < a

\* No burst goes unseen when nothing was ingested beside it: once an event brings a counting
\* rule to its threshold, an alert of the rule has been raised.  The event and its evidence are
\* counted here from the table, without the detector's own query.
BurstIsSeen ==
    \A i \in DOMAIN events, rule \in DOMAIN CountingRules \ CooldownRules :
        LET e == events[i]
            r == CountingRules[rule]
            hits == {j \in 1 .. i : /\ events[j].kind.type \in r.types /\ events[j].kind.source = e.kind.source
                                    /\ e.at - events[j].at <= Params[rule].window}
            count == Cardinality(IF r.distinct THEN {events[j].kind.value : j \in hits} \ {None} ELSE hits)
        IN  /\ e.alone /\ \E k \in DOMAIN ToRun(e.kind) : ToRun(e.kind)[k] = rule
            /\ count >= Params[rule].threshold
            => \E a \in DOMAIN alerts : alerts[a].rule = rule /\ alerts[a].at <= e.at

\* A pattern is missed only by overlapping requests: when both of its groups have alerts of the
\* window, neither ever resolved, and the later was raised after the earlier was committed, the
\* correlation alert has been raised.
PatternIsSeen ==
    \A a, b \in DOMAIN alerts, rule \in DOMAIN Patterns :
        /\ <<alerts[a].rule, alerts[a].source>> \in Patterns[rule][1]
        /\ <<alerts[b].rule, alerts[b].source>> \in Patterns[rule][2]
        /\ alerts[a].seen >= b \/ alerts[b].seen >= a
        /\ alerts[a].at - alerts[b].at <= CorrelationWindow[rule]
        /\ alerts[b].at - alerts[a].at <= CorrelationWindow[rule]
        /\ changes = 0
        => \E c \in DOMAIN alerts : alerts[c].rule = rule
=============================================================================
