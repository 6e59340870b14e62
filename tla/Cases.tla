------------------------------- MODULE Cases -------------------------------
(***************************************************************************)
(* What follows a committed alert besides its response: enrolment in a     *)
(* recon activity (core/recon_activity_store.py), its notification, and the *)
(* incident it opens or joins (core/incident_store.py), with the analysts   *)
(* who resolve alerts and move incidents on.                                *)
(*                                                                          *)
(* A web session works on one alert, in one transaction per stage. What a   *)
(* stage reads and what it writes are two steps, and everything commits     *)
(* with the write: between the two any other session may commit. All alerts *)
(* concern one protected range and lie within 30 minutes. Nothing in the    *)
(* program assigns an incident, so assigned_to is always NULL.              *)
(***************************************************************************)
EXTENDS Integers, FiniteSets
LOCAL INSTANCE FiniteSetsExt

CONSTANTS Sessions,     \* connections of the web workers
          Alerts,       \* alert ids, in the order of creation
          CaseScenes,   \* alert -> its type, severity, address, ports and evidence
          ManySources,  \* addresses that make an activity high (25)
          MaxMoves,     \* bound on what analysts do by hand and on rollbacks
          Nothing

VARIABLES scene,        \* the alerts of this behaviour
          alertStatus,  \* alert -> "none", "open" or "resolved"
          busy,         \* alerts with an unfinished queue row, playbook or approval
          incident,     \* incidents, by id
          linked,       \* incident_alerts
          activity,     \* recon_activities, by id
          member,       \* alert -> its activity (recon_activity_alerts)
          ledger,       \* deliveries of recon notifications: <<activity, key>>
          session,      \* session -> stage, alert and what it read
          moves

caseVars == <<scene, alertStatus, busy, incident, linked, activity, member, ledger, session, moves>>

Active == {"open", "investigating"}
Ids == 1 .. Cardinality(Alerts)
-----------------------------------------------------------------------------
(* How much an alert is worth: core/investigation_intelligence.py.          *)

\* What the policy knows of an alert; its context names its activity once it is enrolled.
Evidence(a) == scene[a].evidence \cup (IF member[a] # Nothing THEN {"recon"} ELSE {})

\* build_campaign_intelligence: any evidence makes a campaign present.
CampaignPresent(ev) == ev \cap {"recon", "days", "sources", "targets", "corroborated", "progression"} # {}

\* build_local_evidence_override_reasons.  A returning attacker is never among them: the
\* policy's history has no observed_at.
Overrides(a) ==
    \/ scene[a].type \in {"successful_login_after_spray", "spray_then_success_pattern", "web_to_app_attack_pattern"}
    \/ CampaignPresent(Evidence(a))
    \/ scene[a].evidence \cap {"authenticated", "sensitive_repeat"} # {}

\* build_internet_noise_decision: a commodity scanner, in policy mode, loses urgency unless
\* local evidence speaks against it; the shadow mode changes nothing.
Commodity(a) == "commodity" \in scene[a].evidence /\ ~Overrides(a)

Weight == [progression |-> 3, corroborated |-> 2, responded |-> 1, repeated |-> 1, days |-> 1]
Points(a) ==
    LET ev == Evidence(a)
        base == CASE scene[a].severity = "critical" -> 3 [] scene[a].severity = "high" -> 2 [] OTHER -> 0
        n == base + (IF CampaignPresent(ev) THEN 2 ELSE 0)
                  + MapThenSumSet(LAMBDA e : Weight[e], ev \cap DOMAIN Weight)
    IN IF Commodity(a) THEN Max({n - 2, 0}) ELSE n
\* build_investigation_value
InvestigationValue(a) == CASE Points(a) >= 6 -> "high" [] Points(a) >= 3 -> "medium" [] OTHER -> "low"

\* determine_incident_priority
DeterminePriority(a) ==
    CASE scene[a].severity = "critical" -> "P1"
      [] "progression" \in scene[a].evidence -> "P2"
      [] scene[a].severity = "high" /\ "recon" \in Evidence(a) /\ InvestigationValue(a) = "high" -> "P2"
      [] OTHER -> "P3"

Refused == [eligible |-> FALSE, priority |-> "P3", grouped |-> FALSE]
Eligible(priority) == [eligible |-> TRUE, priority |-> priority, grouped |-> FALSE]

\* _build_incident_policy
Policy(a) ==
    LET t == scene[a].type
        campaign == member[a] # Nothing
        progression == "progression" \in scene[a].evidence
        urgent == IF progression \/ campaign THEN "P2" ELSE "P3"
    IN CASE scene[a].severity = "critical" -> Eligible("P1")
         [] t \in {"scanner_detected", "admin_probe"} -> Refused
         [] t = "env_probe" ->
              IF progression \/ campaign \/ scene[a].evidence \cap {"approved", "sensitive_repeat", "corroborated"} # {}
              THEN Eligible(urgent) ELSE Refused
         [] t = "credential_stuffing" -> Eligible(urgent)
         [] t = "pfsense" ->
              IF "incident_eligible" \notin scene[a].evidence \/ Commodity(a) THEN Refused
              ELSE [Eligible(DeterminePriority(a)) EXCEPT !.grouped = campaign /\ ~progression]
         [] OTHER -> IF scene[a].severity # "high" \/ Commodity(a) THEN Refused ELSE Eligible(DeterminePriority(a))
-----------------------------------------------------------------------------
(* Recon activities.                                                        *)

\* _choose_activity_id: most ports in common, then the newest.
Chosen(a) ==
    LET overlap(k) == Cardinality(activity[k].ports \cap scene[a].ports)
        candidates == {k \in DOMAIN activity : overlap(k) > 0}
    IN CHOOSE k \in candidates : \A j \in candidates :
         overlap(k) > overlap(j) \/ (overlap(k) = overlap(j) /\ k >= j)

Members(k) == {a \in Alerts : member[a] = k}
Sources(S) == {scene[a].ip : a \in S}

\* build_recon_intelligence_projection, for a span shorter than 30 minutes and no
\* established coordination.
Score(S, has_incident) ==
    LET atLeast(n, one, two) == IF n >= 3 THEN two ELSE IF n >= 2 THEN one ELSE 0 IN
    atLeast(Cardinality(S), 1, 2) + atLeast(Cardinality(Sources(S)), 1, 2)
    + (IF Cardinality(S) >= 2 THEN 1 ELSE 0) + (IF has_incident THEN 2 ELSE 0)
Classification(S, has_incident) ==
    CASE Cardinality(S) <= 1 /\ ~has_incident -> "recon_candidate"
      [] Score(S, has_incident) >= 7 /\ (has_incident \/ Cardinality(Sources(S)) >= 3) -> "campaign_recon"
      [] Score(S, has_incident) >= 4 -> "possible_campaign"
      [] OTHER -> "recon_cluster"

\* The newest active incident of the alerts of an activity.
RelatedIncident(S) ==
    LET ids == {i \in DOMAIN incident : incident[i].status \in Active /\ \E a \in S : <<i, a>> \in linked}
    IN IF ids = {} THEN Nothing ELSE Max(ids)

\* _aggregate_summary with what _update_activity_summary derives from it.
Summary(S) ==
    LET n == Cardinality(Sources(S))
        sev == CASE n >= ManySources -> "high" [] n >= 2 -> "medium" [] OTHER -> "low"
    IN [alerts |-> S, severity |-> sev, status |-> IF sev = "high" THEN "open" ELSE "monitoring",
        related |-> RelatedIncident(S), class |-> Classification(S, RelatedIncident(S) # Nothing),
        services |-> UNION {scene[a].ports : a \in S}]

\* _recon_activity_material_fingerprint
Fingerprint(k) ==
    <<activity[k].summary.severity, activity[k].summary.status, activity[k].summary.services>>
-----------------------------------------------------------------------------
Idle == [stage |-> "idle", alert |-> Nothing, found |-> Nothing, read |-> {}, late |-> {}]
NewActivity(a) == [ports |-> scene[a].ports, summary |-> Summary({a}), opened |-> FALSE, fingerprint |-> Nothing]
Next_(S) == CHOOSE n \in Ids : n \notin S /\ \A m \in Ids \ S : n <= m

Init ==
    /\ scene \in CaseScenes
    /\ alertStatus = [a \in Alerts |-> "none"]
    /\ busy = {} /\ linked = {} /\ ledger = {} /\ moves = 0
    /\ incident = [i \in {} |-> Nothing]
    /\ activity = [k \in {} |-> Nothing]
    /\ member = [a \in Alerts |-> Nothing]
    /\ session = [s \in Sessions |-> Idle]

\* What commits between another session's read and its write is late for that session.
Late(s, what) == [t \in Sessions |-> IF t # s /\ session[t].stage # "idle"
                                     THEN [session[t] EXCEPT !.late = @ \cup what] ELSE session[t]]
At(s, stage) == session[s].stage = stage
Stage(s, stage) == [session EXCEPT ![s] = [Idle EXCEPT !.stage = stage, !.alert = session[s].alert]]

\* The ingest commits an alert, in the order of the ids; its response may take time.
Ingest(s, a) ==
    /\ At(s, "idle") /\ alertStatus[a] = "none"
    /\ \A b \in Alerts : b < a => alertStatus[b] # "none"
    /\ alertStatus' = [alertStatus EXCEPT ![a] = "open"]
    /\ busy' = IF "response" \in scene[a].evidence THEN busy \cup {a} ELSE busy
    /\ session' = [session EXCEPT ![s] = [Idle EXCEPT !.alert = a, !.stage =
                     IF "aggregate" \in scene[a].evidence /\ scene[a].ports # {} THEN "enroll" ELSE "match"]]
    /\ UNCHANGED <<scene, incident, linked, activity, member, ledger, moves>>

\* enroll_alert_in_recon_activity up to the membership row, which nobody else sees yet.
Choose(s) ==
    /\ At(s, "enroll")
    /\ LET a == session[s].alert
           fits == \E k \in DOMAIN activity : activity[k].ports \cap scene[a].ports # {}
           taken == DOMAIN activity \cup {session[t].found : t \in {u \in Sessions : session[u].stage = "summarise"}}
       IN session' = [session EXCEPT ![s].stage = "summarise", ![s].late = {},
                        ![s].found = IF fits THEN Chosen(a) ELSE Next_(taken)]
    /\ UNCHANGED <<scene, alertStatus, busy, incident, linked, activity, member, ledger, moves>>

\* The alerts _aggregate_summary finds: committed members and the session's own.
Aggregated(s) == Members(session[s].found) \cup {session[s].alert}

Summarise(s) ==
    /\ At(s, "summarise")
    /\ session' = [session EXCEPT ![s].stage = "save", ![s].late = {}, ![s].read = Aggregated(s)]
    /\ UNCHANGED <<scene, alertStatus, busy, incident, linked, activity, member, ledger, moves>>

\* _update_activity_summary's UPDATE waits for the row and then writes what was read.
Save(s) ==
    /\ At(s, "save")
    /\ LET a == session[s].alert
           k == session[s].found
           row == IF k \in DOMAIN activity THEN activity[k] ELSE NewActivity(a)
       IN /\ activity' = [j \in DOMAIN activity \cup {k} |->
                            IF j = k THEN [row EXCEPT !.summary = Summary(session[s].read)] ELSE activity[j]]
          /\ member' = [member EXCEPT ![a] = k]
          /\ session' = [Late(s, {<<"member", a>>}) EXCEPT ![s] = [Idle EXCEPT !.stage = "notify", !.alert = a, !.found = k]]
    /\ UNCHANGED <<scene, alertStatus, busy, incident, linked, ledger, moves>>

\* notify_for_material_recon_activity: an opening message, then one for each material
\* change, each under its own key; or the policy says no.
Key(k) == <<k, IF activity[k].opened THEN "update" ELSE "opening", Fingerprint(k)>>
Notify(s) ==
    /\ At(s, "notify")
    /\ LET k == session[s].found
           due == ~activity[k].opened \/ Fingerprint(k) # activity[k].fingerprint
       IN \/ /\ due /\ Key(k) \notin ledger
             /\ session' = [session EXCEPT ![s].stage = "record", ![s].read = {Key(k)}]
          \/ session' = Stage(s, "match")
    /\ UNCHANGED <<scene, alertStatus, busy, incident, linked, activity, member, ledger, moves>>

\* record_recon_activity_notification, after a delivery that worked.
Record(s) ==
    /\ At(s, "record")
    /\ LET k == session[s].found
           key == CHOOSE x \in session[s].read : TRUE
       IN /\ activity' = [activity EXCEPT ![k].opened = @ \/ key[2] = "opening", ![k].fingerprint = key[3]]
          /\ ledger' = ledger \cup {key}
    /\ session' = Stage(s, "match")
    /\ UNCHANGED <<scene, alertStatus, busy, incident, linked, member, moves>>

\* The delivery failed: nothing is recorded and the next alert of the activity tries again.
Undelivered(s) ==
    /\ At(s, "record")
    /\ session' = Stage(s, "match")
    /\ UNCHANGED <<scene, alertStatus, busy, incident, linked, activity, member, ledger, moves>>
-----------------------------------------------------------------------------
(* Incidents.                                                               *)

\* _load_recon_activity_incident and find_open_incident_by_source_ip.
GroupIncident(a) ==
    IF Policy(a).grouped /\ activity[member[a]].summary.related # Nothing
       /\ incident[activity[member[a]].summary.related].status \in Active
    THEN activity[member[a]].summary.related ELSE Nothing
OpenAt(ip) == {i \in DOMAIN incident : incident[i].status \in Active /\ incident[i].ip = ip}
Existing(a) ==
    IF GroupIncident(a) # Nothing THEN GroupIncident(a)
    ELSE IF OpenAt(scene[a].ip) = {} THEN Nothing ELSE Max(OpenAt(scene[a].ip))

\* maybe_create_or_link_incident up to its decision.
Match(s) ==
    /\ At(s, "match")
    /\ session' = IF Policy(session[s].alert).eligible
                  THEN [session EXCEPT ![s].stage = "attach", ![s].late = {}, ![s].found = Existing(session[s].alert),
                          ![s].read = {i \in DOMAIN incident : incident[i].severity = "critical"}]
                  ELSE [session EXCEPT ![s] = Idle]
    /\ UNCHANGED <<scene, alertStatus, busy, incident, linked, activity, member, ledger, moves>>

\* _maybe_upgrade_incident_severity, where `seen' are the incidents read as critical.
Upgraded(i, a, seen) ==
    IF scene[a].severity = "critical" /\ i \notin seen
    THEN [incident[i] EXCEPT !.severity = "critical", !.priority = "P1"] ELSE incident[i]

\* link_alert_to_incident for the incident that was found, whatever became of it since.
Join(s) ==
    /\ At(s, "attach") /\ session[s].found # Nothing
    /\ LET a == session[s].alert
           i == session[s].found
       IN /\ incident' = [incident EXCEPT ![i] = Upgraded(i, a, session[s].read)]
          /\ linked' = linked \cup {<<i, a>>}
          /\ session' = [Late(s, {<<"alert", a>>}) EXCEPT ![s] = Idle]
    /\ UNCHANGED <<scene, alertStatus, busy, activity, member, ledger, moves>>

\* create_incident, and the activity that asked for it is pointed at it.
Open(s) ==
    /\ At(s, "attach") /\ session[s].found = Nothing
    /\ LET a == session[s].alert
           i == Next_(DOMAIN incident)
       IN /\ incident' = [j \in DOMAIN incident \cup {i} |->
                IF j = i THEN [severity |-> scene[a].severity, priority |-> Policy(a).priority, status |-> "open",
                               ip |-> scene[a].ip]
                ELSE incident[j]]
          /\ linked' = linked \cup {<<i, a>>}
          /\ activity' = IF Policy(a).grouped THEN [activity EXCEPT ![member[a]].summary.related = i] ELSE activity
          /\ session' = [Late(s, {<<"alert", a>>, <<"incident", i>>}) EXCEPT ![s] = Idle]
    /\ UNCHANGED <<scene, alertStatus, busy, member, ledger, moves>>

\* An error in a stage rolls its transaction back and ends the request.
Fail(s) ==
    /\ session[s].stage \in {"summarise", "save", "attach", "close"} /\ moves < MaxMoves
    /\ session' = [session EXCEPT ![s] = Idle]
    /\ moves' = moves + 1
    /\ UNCHANGED <<scene, alertStatus, busy, incident, linked, activity, member, ledger>>
-----------------------------------------------------------------------------
(* Analysts.                                                                *)

LinkedTo(i) == {a \in Alerts : <<i, a>> \in linked}

\* Mutant of Quiet: a resolved alert speaks for the whole incident.
QuietForOne(i, a) == a \in LinkedTo(i) /\ a \notin busy

\* The counts of auto_close_resolved_p3_incidents_for_alert: the session's own update of
\* the alert is all it sees of what is not committed.
Quiet(i, a) == LinkedTo(i) \cap busy = {} /\ \A b \in LinkedTo(i) : b = a \/ alertStatus[b] = "resolved"

\* update_alert_status to resolved, up to the incidents it is going to close.  The
\* alert's row stays locked until the end.
Resolve(s, a) ==
    /\ At(s, "idle") /\ alertStatus[a] # "none" /\ moves < MaxMoves
    /\ \A t \in Sessions : ~(At(t, "close") /\ session[t].alert = a)
    /\ session' = [session EXCEPT ![s] = [Idle EXCEPT !.stage = "close", !.alert = a,
                     !.read = {i \in DOMAIN incident : /\ a \in LinkedTo(i) /\ incident[i].priority = "P3"
                                                       /\ incident[i].status \in {"open", "resolved"}
                                                       /\ Quiet(i, a)}]]
    /\ moves' = moves + 1
    /\ UNCHANGED <<scene, alertStatus, busy, incident, linked, activity, member, ledger>>

\* The UPDATE repeats the test of the status, not that of the priority.
Close(s) ==
    /\ At(s, "close")
    /\ alertStatus' = [alertStatus EXCEPT ![session[s].alert] = "resolved"]
    /\ incident' = [i \in DOMAIN incident |->
          IF i \in session[s].read /\ incident[i].status \in {"open", "resolved"}
          THEN [incident[i] EXCEPT !.status = "closed"] ELSE incident[i]]
    /\ session' = [session EXCEPT ![s] = Idle]
    /\ UNCHANGED <<scene, busy, linked, activity, member, ledger, moves>>

\* update_alert_status to open.
Reopen(a) ==
    /\ alertStatus[a] = "resolved" /\ moves < MaxMoves
    /\ \A t \in Sessions : ~(At(t, "close") /\ session[t].alert = a)
    /\ alertStatus' = [alertStatus EXCEPT ![a] = "open"]
    /\ session' = [t \in Sessions |-> IF At(t, "close") THEN [session[t] EXCEPT !.late = @ \cup {<<"alert", a>>}]
                                      ELSE session[t]]
    /\ moves' = moves + 1
    /\ UNCHANGED <<scene, busy, incident, linked, activity, member, ledger>>

\* update_incident_status
Allowed == {<<"open", "investigating">>, <<"open", "resolved">>, <<"open", "closed">>,
            <<"investigating", "resolved">>, <<"investigating", "closed">>, <<"resolved", "closed">>,
            <<"resolved", "open">>}
Move(i, status) ==
    /\ moves < MaxMoves /\ <<incident[i].status, status>> \in Allowed
    /\ incident' = [incident EXCEPT ![i].status = status]
    /\ session' = [t \in Sessions |->
          IF status = "open" /\ At(t, "attach") THEN [session[t] EXCEPT !.late = @ \cup {<<"incident", i>>}]
          ELSE session[t]]
    /\ moves' = moves + 1
    /\ UNCHANGED <<scene, alertStatus, busy, linked, activity, member, ledger>>

\* The response to an alert ends.
Finish(a) ==
    /\ a \in busy
    /\ busy' = busy \ {a}
    /\ UNCHANGED <<scene, alertStatus, incident, linked, activity, member, ledger, session, moves>>

Next ==
    \/ \E s \in Sessions : \/ \E a \in Alerts : Ingest(s, a) \/ Resolve(s, a)
                           \/ Choose(s) \/ Summarise(s) \/ Save(s) \/ Notify(s) \/ Record(s) \/ Undelivered(s)
                           \/ Match(s) \/ Join(s) \/ Open(s) \/ Close(s) \/ Fail(s)
    \/ \E a \in Alerts : Reopen(a) \/ Finish(a)
    \/ \E i \in DOMAIN incident, status \in {"open", "investigating", "resolved", "closed"} : Move(i, status)

Spec == Init /\ [][Next]_caseVars
-----------------------------------------------------------------------------
(* Properties.                                                              *)

\* An incident is closed by itself only over resolved alerts, except for an alert that was
\* linked or reopened after the counts were read.
ClosedQuietly ==
    [][\A s \in Sessions : At(s, "close") /\ session'[s].stage = "idle" =>
         \A i \in DOMAIN incident : incident[i].status # "closed" /\ incident'[i].status = "closed" =>
            \A a \in LinkedTo(i) : alertStatus'[a] = "resolved" \/ <<"alert", a>> \in session[s].late]_caseVars

=============================================================================
