-------------------------- MODULE ResponseOutcomes --------------------------
(***************************************************************************)
(* The canonical response outcomes (core/soar_response_outcomes.py), the    *)
(* outcomes inferred for rows that have none                                *)
(* (core/soar_response_outcomes_legacy.py) and the script that writes them  *)
(* down (scripts/soar_outcome_backfill.py) while workers go on.             *)
(*                                                                          *)
(* A row of queue, log, playbook execution, approval, notification or       *)
(* blocklist is one record; an outcome is its mode, its state and the one   *)
(* flag that may be set. A decision is known by its correlation id, an      *)
(* event by its idempotency key. NOW() is the time at which a transaction   *)
(* began, and no two begin at once; `nth' orders the events of one.         *)
(***************************************************************************)
EXTENDS Naturals, Sequences, FiniteSets

CONSTANTS Workers,     \* queue and playbook workers
          Scenes,      \* initial tables: [rows, blocked, audited]
          Fresh,       \* ids of the queue rows that may still be enqueued
          MaxRuns,     \* times the backfill is started
          None

VARIABLES rows,        \* the tables, by id
          audits,      \* executions with an audit row that names no decision
          decisions,   \* soar_response_decisions, by correlation id
          events,      \* soar_response_outcome_events, by idempotency key
          backfill,    \* the script: phase, start, what it announced, the mappings left and what it has written
          job,         \* the row a worker carries, as it read it
          clock, runs,
          executed,    \* rows whose worker reached a provider
          blind        \* rows a worker read before they were linked

vars == <<rows, audits, decisions, events, backfill, job, clock, runs, executed, blind>>

Alert == 1
Modes == {"observed", "simulation", "tracking_only", "real", "internal", "read_only"}
States == {"observed", "selected", "queued", "awaiting_approval", "running", "skipped", "blocked",
           "succeeded", "failed"}
Final == {"skipped", "blocked", "succeeded", "failed"}
Outcome(mode, state, flag) == [mode |-> mode, state |-> state, flag |-> flag]
Simulated(state) == Outcome("simulation", state, "none")

\* validate_outcome_booleans
Consistent(o) ==
    /\ o.flag = "simulated" => o.mode = "simulation"
    /\ o.flag = "external" => o.mode = "real" /\ o.state = "succeeded"
    /\ o.flag = "tracking" => o.mode = "tracking_only" /\ o.state = "succeeded"
Accepted(o) == o.mode \in Modes /\ o.state \in States /\ Consistent(o)

\* derive_outcome_label: a state it does not know raises; then the state speaks first, then the mode.
Label(o) ==
    CASE o.state \notin States -> "raises"
      [] o.state \in {"awaiting_approval", "blocked", "skipped", "failed", "running", "queued", "selected"} -> o.state
      [] o.mode = "observed" -> "observed"
      [] o.mode = "simulation" \/ o.flag = "simulated" -> "simulated"
      [] o.mode = "tracking_only" \/ o.flag = "tracking" -> "tracking"
      [] o.mode = "real" -> IF o.flag = "external" THEN "executed" ELSE "failed"
      [] OTHER -> IF o.state = "succeeded" THEN "selected" ELSE "observed"
-----------------------------------------------------------------------------
(* Inference: what a row without a decision is taken to mean.               *)

InferQueue(r) ==
    CASE r.status = "pending" -> Simulated("queued")
      [] r.status \in {"running", "awaiting_approval", "skipped", "failed"} -> Simulated(r.status)
      [] r.status = "success" -> Outcome("simulation", "succeeded", "simulated")
      [] OTHER -> Simulated("selected")

\* r.note: what the details of a log row hint at.
InferLog(r, blocked) ==
    CASE r.status \in {"skipped", "failed"} -> Simulated(r.status)
      [] r.note = "tracking" \/ (r.action = "block_ip" /\ blocked) -> Outcome("tracking_only", "succeeded", "tracking")
      [] OTHER -> Outcome("simulation", "succeeded", "simulated")

InferApproval(r) ==
    CASE r.status = "pending" -> Simulated("awaiting_approval")
      [] r.status \in {"denied", "expired"} -> Simulated("blocked")
      [] OTHER -> Simulated("selected")

\* _notification_metadata_confirms_execution, of the facts in the metadata
ConfirmsExecution(meta) ==
    {"executed", "not_simulated"} \subseteq meta /\ meta \cap {"adapter_real", "provider_accepted"} # {}

\* Mutant: a delivery that names a real adapter is taken at its word.
InferNotificationByMode(r) ==
    IF r.mode = "real" /\ r.status = "success" THEN Outcome("real", "succeeded", "external") ELSE Simulated("selected")
InferNotification(r) ==
    CASE r.status = "success" ->
           IF r.mode = "real" /\ ConfirmsExecution(r.meta) THEN Outcome("real", "succeeded", "external")
                                                            ELSE Outcome("simulation", "succeeded", "simulated")
      [] r.status = "blocked" -> Simulated("blocked")
      [] r.status \in {"failed", "timeout"} ->
           Outcome(r.mode, "failed", IF r.mode = "simulation" THEN "simulated" ELSE "none")
      [] r.status = "pending" -> Outcome(r.mode, "running", "none")
      [] OTHER -> Simulated("selected")

\* r.meta: what the last step reports, None without steps; _playbook_step_evidence
InferExecution(r, corroborated) ==
    LET evidence == IF r.meta = None THEN {} ELSE r.meta
        flag     == IF "simulated" \in evidence THEN "simulated" ELSE "none"
    IN CASE r.status = "pending" -> Simulated("queued")
         [] r.status \in {"running", "awaiting_approval"} -> Simulated(r.status)
         [] r.status \in {"failed", "not_actioned"} -> Outcome("simulation", r.status, flag)
         [] r.status \in {"abandoned", "permanently_failed"} -> Outcome("simulation", "skipped", flag)
         [] r.status \in {"success", "completed"} ->
              IF "executed" \in evidence
              THEN IF corroborated THEN Outcome("real", "succeeded", "external")
                                   ELSE Outcome("simulation", "succeeded", "simulated")
              ELSE IF "tracking" \in evidence THEN Outcome("tracking_only", "succeeded", "tracking")
              ELSE Outcome("simulation", "succeeded", IF r.meta = None THEN "simulated" ELSE flag)
         [] OTHER -> Simulated("selected")

InferBlocked(r) == Outcome("tracking_only", "succeeded", "tracking")

Ids(table) == {i \in DOMAIN rows : rows[i].table = table}
\* the EXISTS queries: an active block of the row's alert, a confirmed real delivery of the execution
BlockExists == \E i \in Ids("blocked_ips") : rows[i].alert = Alert /\ rows[i].status = "active"
Corroborated(x) ==
    \E i \in Ids("notification") : /\ rows[i].exec = x /\ rows[i].mode = "real" /\ rows[i].status = "success"
                                   /\ ConfirmsExecution(rows[i].meta)

\* The latest delivery of the alert
AlertDelivery == {i \in Ids("notification") : \A j \in Ids("notification") : j <= i}
\* infer_alert_legacy_outcome: nothing selected means observed, an action without evidence stays selected.
InferAlert ==
    IF Ids("queue") \cup Ids("log") # {} \/ \E i \in Ids("alert") : rows[i].action # None
    THEN Simulated("selected") ELSE Outcome("observed", "observed", "none")
\* infer_alert_notification_legacy_outcome: a refused approval outranks the delivery's own status.
InferAlertNotification(n) ==
    IF rows[n].approval # None /\ rows[rows[n].approval].status \in {"denied", "expired"}
    THEN Simulated("blocked") ELSE InferNotification(rows[n])

\* the inference a backfill writes down
Infer(i) ==
    CASE rows[i].table = "queue" -> InferQueue(rows[i])
      [] rows[i].table = "log" -> InferLog(rows[i], BlockExists)
      [] rows[i].table = "execution" -> InferExecution(rows[i], Corroborated(i))
      [] rows[i].table = "approval" -> InferApproval(rows[i])
      [] rows[i].table = "notification" -> InferNotification(rows[i])
-----------------------------------------------------------------------------
(* Reading: what is committed.                                              *)

\* ORDER BY occurred_at DESC, created_at DESC, id DESC
Later(x, y) == x.at > y.at \/ (x.at = y.at /\ x.nth > y.nth)
Newest(log, S) == CHOOSE i \in S : \A j \in S \ {i} : Later(log[i], log[j])
EventsOf(d) == {e \in DOMAIN events : events[e].decision = d}
\* Mutant: the first event, as the timeline lists them.
LatestEventOldest(d) == CHOOSE e \in EventsOf(d) : \A f \in EventsOf(d) \ {e} : Later(events[f], events[e])
\* get_latest_outcome_for_decision
LatestEvent(d) == Newest(events, EventsOf(d))

\* build_latest_outcome_api_shape: a decision without events is selected, observed.
Shape(d) == IF EventsOf(d) = {} THEN Outcome("observed", "selected", "none") ELSE events[LatestEvent(d)].outcome
\* build_archive_record: the row that would be kept of it
Archived(d) == [decision |-> d, exec |-> decisions[d].exec, outcome |-> Shape(d)]
Earlier(log, S, i) == {j \in S : Later(log[i], log[j])}
\* serialize_outcome_timeline: oldest first, each event after as many as are earlier
Timeline(d) == [n \in 1 .. Cardinality(EventsOf(d)) |->
                  CHOOSE e \in EventsOf(d) : Cardinality(Earlier(events, EventsOf(d), e)) = n - 1]

Linked(i) == rows[i].decision # None
\* get_decision_with_latest_outcome, else inference
CanonicalElse(i, inferred) == IF Linked(i) THEN Shape(rows[i].decision) ELSE inferred
ResolveQueue(i) == CanonicalElse(i, InferQueue(rows[i]))
ResolveLog(i) == CanonicalElse(i, InferLog(rows[i], BlockExists))
ResolveExecution(i) == CanonicalElse(i, InferExecution(rows[i], Corroborated(i)))
ResolveApproval(i) == CanonicalElse(i, InferApproval(rows[i]))
ResolveNotification(i) == CanonicalElse(i, InferNotification(rows[i]))
ResolveBlocked(i) == InferBlocked(rows[i])

OfAlert(log) == {d \in DOMAIN log : log[d].alert = Alert}
\* serialize_latest_outcome of an alert: its newest decision
LatestOfAlert == IF OfAlert(decisions) = {} THEN None ELSE Shape(Newest(decisions, OfAlert(decisions)))
\* resolve_alert_outcome: that, else the alert's latest delivery, else the alert itself
ResolveAlert == IF LatestOfAlert # None THEN LatestOfAlert
                ELSE IF AlertDelivery = {} THEN InferAlert
                ELSE InferAlertNotification(CHOOSE n \in AlertDelivery : TRUE)
Resolve(i) ==
    CASE rows[i].table = "queue" -> ResolveQueue(i)
      [] rows[i].table = "log" -> ResolveLog(i)
      [] rows[i].table = "execution" -> ResolveExecution(i)
      [] rows[i].table = "approval" -> ResolveApproval(i)
      [] rows[i].table = "notification" -> ResolveNotification(i)
      [] rows[i].table = "blocked_ips" -> ResolveBlocked(i)
      [] rows[i].table = "alert" -> ResolveAlert
\* get_response_outcome_traceability_report: was anything actually executed, decision by decision
Trace == {[of |-> Archived(d), label |-> Label(Archived(d).outcome)] : d \in OfAlert(decisions)}

\* Mutant: without link_priority the newest decision that shares an execution wins.
PriorityFlat(i, d) == 0
\* link_priority: the row's own decision first (its decision_id and soar_correlation_id are set together)
Priority(i, d) == IF d = rows[i].decision THEN 0 ELSE 2
\* DISTINCT ON over the row's decision and those the join adds
Preferred(i, others) ==
    LET joined == {d \in DOMAIN decisions : d = rows[i].decision} \cup others
        best   == {d \in joined : \A c \in joined : Priority(i, d) <= Priority(i, c)}
    IN IF best = {} THEN None ELSE Shape(Newest(decisions, best))
QueuesBulk(i) == Preferred(i, {})
ExecutionsBulk(i) == Preferred(i, {})
ApprovalsBulk(i) == Preferred(i, {d \in DOMAIN decisions : decisions[d].approval = i})
DeliveriesBulk(i) ==
    Preferred(i, {d \in DOMAIN decisions : \/ rows[i].approval # None /\ decisions[d].approval = rows[i].approval
                                           \/ rows[i].exec # None /\ decisions[d].exec = rows[i].exec})
\* get_latest_outcomes_for_blocked_ips_bulk: through the alert that caused the block
BlockedBulk(i) == IF rows[i].alert = None THEN None ELSE LatestOfAlert
\* get_latest_outcomes_for_alerts_bulk: the alert's newest event, of whichever decision
AlertsBulk == IF OfAlert(events) = {} THEN None ELSE events[Newest(events, OfAlert(events))].outcome
Bulk(i) ==
    CASE rows[i].table = "queue" -> QueuesBulk(i)
      [] rows[i].table = "execution" -> ExecutionsBulk(i)
      [] rows[i].table = "approval" -> ApprovalsBulk(i)
      [] rows[i].table = "notification" -> DeliveriesBulk(i)
      [] rows[i].table = "blocked_ips" -> BlockedBulk(i)
      [] rows[i].table = "alert" -> AlertsBulk
      [] OTHER -> None
-----------------------------------------------------------------------------
(* Writing.                                                                 *)

Decision(i, at) ==
    [alert |-> rows[i].alert, at |-> at, nth |-> i,
     exec |-> IF rows[i].table = "execution" THEN i ELSE rows[i].exec,
     approval |-> IF rows[i].table = "approval" THEN i ELSE rows[i].approval]
Event(d, i, outcome, at, nth) ==
    [decision |-> d, alert |-> rows[i].alert, outcome |-> outcome, at |-> at, nth |-> nth]
\* create_response_decision and append_outcome_event: what exists under that id is returned instead.
With(log, id, entry) == [k \in DOMAIN log \cup {id} |-> IF k \in DOMAIN log THEN log[k] ELSE entry]

Nothing == [i \in {} |-> None]
Idle == [phase |-> "idle", at |-> 0, plan |-> {}, todo |-> Nothing, decisions |-> Nothing, events |-> Nothing,
         links |-> Nothing, audited |-> {}]
MappedTables == {"queue", "log", "execution", "approval", "notification"}
\* _legacy_mappings: the rows without a decision and what each is taken to mean, table by table, in id order
TableRank(t) == CASE t = "queue" -> 1 [] t = "log" -> 2 [] t = "execution" -> 3 [] t = "approval" -> 4 [] OTHER -> 5
Unlinked == {i \in DOMAIN rows : rows[i].table \in MappedTables /\ ~Linked(i)}
Before(i, j) == TableRank(rows[i].table) < TableRank(rows[j].table)
                \/ (rows[i].table = rows[j].table /\ i < j)
Mappings == [i \in Unlinked |-> Infer(i)]
\* plan_backfill_dry_run: the rows it announces; a delivery that corroborates an unlinked execution
\* is represented by the execution.
Announced ==
    {i \in Unlinked : ~(/\ rows[i].table = "notification" /\ rows[i].exec # None
                        /\ Infer(i).flag = "external" /\ ~Linked(rows[i].exec))}

\* main: the transaction begins with the dry run and the mappings.
Begin ==
    /\ backfill.phase \in {"idle", "done"} /\ runs < MaxRuns
    /\ backfill' = [Idle EXCEPT !.phase = "apply", !.at = clock, !.todo = Mappings, !.plan = Announced]
    /\ runs' = runs + 1 /\ clock' = clock + 1
    /\ UNCHANGED <<rows, audits, decisions, events, job, executed, blind>>

LegacyId(i) == <<"legacy", i>>
AuditId(i) == <<"audit", i>>
\* _create_or_get_decision and _append_or_get_event, in the open transaction
Staged(id, log, mine, entry) == IF id \in DOMAIN log THEN mine ELSE With(mine, id, entry)
\* _link_legacy_row
Link(i, links) == With(links, i, LegacyId(i))

\* apply_backfill: decision, event and link of one mapping
Apply ==
    \E i \in DOMAIN backfill.todo :
        LET d == LegacyId(i)
            e == Event(d, i, backfill.todo[i], backfill.at, Cardinality(DOMAIN backfill.events))
        IN /\ backfill.phase = "apply" /\ Accepted(backfill.todo[i])
           /\ \A j \in DOMAIN backfill.todo \ {i} : Before(i, j)
           /\ backfill' = [backfill EXCEPT !.todo = [j \in DOMAIN @ \ {i} |-> @[j]],
                                           !.decisions = Staged(d, decisions, @, Decision(i, backfill.at)),
                                           !.events = Staged(d, events, @, e),
                                           !.links = Link(i, @)]
           /\ UNCHANGED <<rows, audits, decisions, events, job, clock, runs, executed, blind>>

DecisionSeen(i) == IF i \in DOMAIN backfill.links THEN backfill.links[i] ELSE rows[i].decision
Unaudited == {i \in audits \ backfill.audited : DecisionSeen(i) # None}
\* _link_relevant_audit_rows: the event it appends says "selected", whatever the execution did.
LinkAudit ==
    \E i \in Unaudited :
        /\ backfill.phase = "apply" /\ backfill.todo = Nothing
        /\ backfill' = [backfill EXCEPT !.audited = @ \cup {i},
                !.events = Staged(AuditId(i), events, @, Event(DecisionSeen(i), i, Simulated("selected"), backfill.at,
                                                               Cardinality(DOMAIN backfill.events)))]
        /\ UNCHANGED <<rows, audits, decisions, events, job, clock, runs, executed, blind>>

Merged(log, mine) == [k \in DOMAIN log \cup DOMAIN mine |-> IF k \in DOMAIN log THEN log[k] ELSE mine[k]]
Commit ==
    /\ backfill.phase = "apply" /\ backfill.todo = Nothing /\ Unaudited = {}
    /\ rows' = [i \in DOMAIN rows |-> [rows[i] EXCEPT !.decision = DecisionSeen(i)]]
    /\ decisions' = Merged(decisions, backfill.decisions) /\ events' = Merged(events, backfill.events)
    /\ audits' = audits \ backfill.audited
    /\ backfill' = [Idle EXCEPT !.phase = "done", !.plan = backfill.plan]
    /\ UNCHANGED <<job, clock, runs, executed, blind>>

\* An outcome that append_outcome_event rejects, an error or a killed script: nothing remains.
Rollback ==
    /\ backfill.phase = "apply"
    /\ backfill' = Idle
    /\ UNCHANGED <<rows, audits, decisions, events, job, clock, runs, executed, blind>>
-----------------------------------------------------------------------------
(* The workers meanwhile: they report only for the decision they read.      *)

Free(i) == i \notin DOMAIN backfill.links   \* an uncommitted link locks the row
Seeing(i) == blind' = IF Linked(i) THEN blind ELSE blind \cup {i}

\* _queue_outcome_classification
QueueOutcome(i, state) ==
    IF rows[i].action = "block_ip"
    THEN Outcome("tracking_only", state, IF state = "succeeded" THEN "tracking" ELSE "none")
    ELSE IF rows[i].action = "monitor" THEN Outcome("internal", state, "none")
    ELSE Outcome("simulation", state, IF state = "succeeded" THEN "simulated" ELSE "none")
ReportQueue(i, d, state) ==
    /\ events' = IF d = None THEN events ELSE With(events, <<state, i>>, Event(d, i, QueueOutcome(i, state), clock, 0))
    /\ clock' = clock + 1

\* The queue worker commits its claim, and carries the row it read until it ends.
Claim(w, i) ==
    /\ job[w] = None /\ rows[i].table = "queue" /\ rows[i].status = "pending" /\ Free(i)
    /\ job' = [job EXCEPT ![w] = [row |-> i, decision |-> rows[i].decision]]
    /\ rows' = [rows EXCEPT ![i].status = "running"]
    /\ ReportQueue(i, rows[i].decision, "running") /\ Seeing(i)
    /\ UNCHANGED <<audits, decisions, backfill, runs, executed>>

Ends == {[status |-> "success", state |-> "succeeded"], [status |-> "failed", state |-> "failed"]}
Finish(w) ==
    /\ job[w] # None /\ Free(job[w].row)
    /\ \E end \in Ends : /\ rows' = [rows EXCEPT ![job[w].row].status = end.status]
                         /\ ReportQueue(job[w].row, job[w].decision, end.state)
    /\ job' = [job EXCEPT ![w] = None]
    /\ UNCHANGED <<audits, decisions, backfill, runs, executed, blind>>

\* _notification_delivery_has_real_evidence and _map_notification_delivery_outcome
DeliveryOutcome(mode, status, meta) ==
    IF status = "success"
    THEN IF mode = "real" /\ ConfirmsExecution(meta) THEN Outcome("real", "succeeded", "external")
                                                      ELSE Outcome("simulation", "succeeded", "simulated")
    ELSE Outcome(mode, IF status = "blocked" THEN "blocked" ELSE "failed", IF mode = "real" THEN "none" ELSE "simulated")
\* What one step tells: an internal or read-only step, or a delivery and whether the provider took it
Steps == {[outcome |-> Outcome(mode, state, "none"), real |-> FALSE] :
              mode \in {"internal", "read_only"}, state \in {"succeeded", "failed"}}
         \cup {[outcome |-> DeliveryOutcome(mode, status, meta), real |-> mode = "real" /\ status = "success" /\ meta # {}] :
              mode \in {"simulation", "real"}, status \in {"success", "timeout", "blocked"},
              meta \in {{}, {"executed", "not_simulated", "adapter_real"}}}
\* The playbook's events: claimed, its step, its end
Played(i, d, step, state) ==
    LET said == <<Outcome("internal", "running", "none"), step.outcome, Outcome("internal", state, "none")>>
    IN [key \in {<<"play", i, n>> : n \in 1 .. 3} |-> Event(d, i, said[key[3]], clock, key[3])]

\* process_playbook_execution_batch: claim, step and end in one transaction
Play(i) ==
    /\ rows[i].table = "execution" /\ rows[i].status = "pending" /\ Free(i)
    /\ \E step \in Steps, end \in Ends :
          /\ rows' = [rows EXCEPT ![i].status = end.status]
          /\ executed' = IF step.real THEN executed \cup {i} ELSE executed
          /\ events' = IF Linked(i) THEN Merged(events, Played(i, rows[i].decision, step, end.state)) ELSE events
    /\ clock' = clock + 1 /\ Seeing(i)
    /\ UNCHANGED <<audits, decisions, backfill, job, runs>>

\* enqueue_response_action with _try_write_canonical_enqueue_outcome: row, decision and event in one transaction
LiveId(i) == <<"live", i>>
NewRow(i) == [table |-> "queue", alert |-> Alert, exec |-> None, approval |-> None, status |-> "pending",
              action |-> "monitor", mode |-> None, meta |-> None, note |-> None, decision |-> LiveId(i)]
Enqueue ==
    \E i \in Fresh \ DOMAIN rows :
        /\ rows' = With(rows, i, NewRow(i))
        /\ decisions' = With(decisions, LiveId(i), [alert |-> Alert, at |-> clock, nth |-> i, exec |-> None, approval |-> None])
        /\ events' = With(events, <<"enqueue", i>>, [decision |-> LiveId(i), alert |-> Alert, at |-> clock, nth |-> 0,
                                                    outcome |-> Outcome("simulation", "queued", "simulated")])
        /\ clock' = clock + 1
        /\ UNCHANGED <<audits, backfill, job, runs, executed, blind>>

Init ==
    /\ \E scene \in Scenes : rows = scene.rows /\ audits = scene.audits
    /\ decisions = Nothing /\ events = Nothing /\ backfill = Idle
    /\ job = [w \in Workers |-> None] /\ clock = 0 /\ runs = 0 /\ executed = {} /\ blind = {}

Next ==
    \/ Begin \/ Apply \/ LinkAudit \/ Commit \/ Rollback \/ Enqueue
    \/ \E w \in Workers : Finish(w)
    \/ \E i \in DOMAIN rows : Play(i) \/ \E w \in Workers : Claim(w, i)

Spec == Init /\ [][Next]_vars
-----------------------------------------------------------------------------
(* Properties.                                                              *)

\* No reader claims a real execution (a row's outcome, its alert's, the traceability report's) without a
\* delivery whose metadata confirms it or a worker that reached the provider.
Proven == executed # {} \/ \E n \in Ids("notification") : rows[n].mode = "real" /\ rows[n].status = "success"
                                                            /\ ConfirmsExecution(rows[n].meta)
NoUnprovenExecution ==
    (\/ \E i \in DOMAIN rows : Label(Resolve(i)) = "executed" \/ (Bulk(i) # None /\ Label(Bulk(i)) = "executed")
     \/ \E t \in Trace : t.label = "executed") => Proven

\* The readers agree about a linked row: the bulk readers' join, which also finds decisions that only share its
\* execution or approval, and the end of the timeline show the outcome of the row's own decision.
ReadersAgree ==
    \A i \in DOMAIN rows : Linked(i) =>
        /\ rows[i].table # "log" => Bulk(i) = Resolve(i)
        /\ LET line == Timeline(rows[i].decision)
           IN line # <<>> => events[line[Len(line)]].outcome = Resolve(i)

\* A finished row with a decision reads as finished: the backfill's guess never covers a later report, unless
\* the worker read the row before it was linked, or the backfill linked an audit row to it.
FinishedReadsFinished ==
    \A i \in DOMAIN rows :
        Linked(i) /\ rows[i].status \in {"success", "failed"} /\ i \notin blind
        /\ AuditId(i) \notin DOMAIN events => Resolve(i).state \in Final

=============================================================================
