---------------------------- MODULE PlaybookSteps ----------------------------
(***************************************************************************)
(* What the steps of a playbook do (engines/playbook_step_executor.py):     *)
(* branches that jump forward over steps, steps that trigger another        *)
(* playbook, gates that park the execution, and the steps that respond,     *)
(* with the bindings of their parameters.  Definitions are validated when   *)
(* they are saved (engines/playbook_registry.py) and may be edited while    *)
(* executions of them run or are parked.                                    *)
(*                                                                          *)
(* One alert and one incident.  A worker takes one execution through its    *)
(* steps in a transaction: its log and the executions it triggers are its   *)
(* draft until it commits, and a rollback drops them.  Leases, batches and  *)
(* the operator's control of executions are in PlaybookExecution.           *)
(***************************************************************************)
EXTENDS Integers, Sequences, FiniteSets, SequencesExt

CONSTANTS Playbooks,
          Drafts,          \* playbook -> the definitions a super admin submits for it
          Content,         \* definition -> its trigger and its steps
          Alerts,          \* the alerts the run may be about
          Workers,
          MaxChainDepth,
          MaxRuns,         \* bound on the executions
          MaxRequests,     \* bound on what analysts save, enable, start and retry
          MaxRollbacks,    \* bound on transactions lost
          None

VARIABLES definition, \* playbook -> whether it is enabled, and its definition
          alert,    \* the alert
          run,      \* playbook_executions, in the order of their ids
          pass,     \* worker -> the draft of its transaction
          requests, \* requests of the analysts so far
          rollbacks,
          arrived   \* the alert was handed to the orchestrator

stepVars == <<definition, alert, run, pass, requests, rollbacks, arrived>>

Rank == [low |-> 1, medium |-> 2, high |-> 3, critical |-> 4]
Outcomes == {"success", "failed", "skipped"}
Decisions == {"approved", "denied", "expired"}
Equality == {"==", "!="}
Ordinal == {">=", ">", "<=", "<"}
Active == {"pending", "awaiting_approval"}
-----------------------------------------------------------------------------
(* Conditions and labels: engines/playbook_branch_conditions.py *)

\* _compare_numeric and _compare_equality
Compare(a, op, b) ==
    CASE op = "==" -> a = b
      [] op = "!=" -> a # b
      [] op = ">=" -> a >= b
      [] op = ">" -> a > b
      [] op = "<=" -> a <= b
      [] op = "<" -> a < b

\* validate_branch_condition
ValidCondition(c) ==
    CASE c.source = "alert" -> /\ c.field \in {"severity", "reputation_score", "alert_type"}
                               /\ c.op \in Equality \cup (IF c.field = "alert_type" THEN {} ELSE Ordinal)
      [] c.source = "previous_step" -> c.op \in Equality /\ c.value \in Outcomes
      [] c.source = "approval" -> c.op \in Equality /\ c.value \in Decisions

\* _latest_previous_step_status and _latest_approval_decision_status
LatestStatus(log, among) ==
    LET k == SelectLastInSeq(log, LAMBDA entry : entry.status \in among)
    IN  IF k = 0 THEN None ELSE log[k].status

\* _resolve_alert_field
AlertField(e, field) ==
    IF ~e.alert THEN None
    ELSE IF field = "severity" THEN Rank[alert.severity] ELSE alert[field]
\* What the condition looks at, None where evaluate_branch_condition raises.
Actual(c, e, log) ==
    CASE c.source = "alert" -> AlertField(e, c.field)
      [] c.source = "previous_step" -> LatestStatus(log, Outcomes)
      [] c.source = "approval" -> LatestStatus(log, Decisions)
Expected(c) == IF c.source = "alert" /\ c.field = "severity" THEN Rank[c.value] ELSE c.value

\* build_label_index_map: of two steps with one label the later one counts.
LabelIndex(steps, label) ==
    LET hits == {i \in DOMAIN steps : steps[i].label = label}
    IN  IF hits = {} THEN None ELSE CHOOSE i \in hits : \A j \in hits : j <= i
\* resolve_label_target_index: branches only jump forward.
TargetIndex(steps, label, i) ==
    LET j == LabelIndex(steps, label) IN IF j = None THEN None ELSE IF j <= i THEN None ELSE j

\* validate_branch_step
ValidBranch(steps, i) ==
    /\ ValidCondition(steps[i].condition)
    /\ TargetIndex(steps, steps[i].goto_true, i) # None
    /\ steps[i].goto_false # None => TargetIndex(steps, steps[i].goto_false, i) # None
\* validate_playbook_steps, for step lists of known actions.
ValidSteps(steps, b) ==
    /\ \A i, j \in DOMAIN steps : steps[i].label = steps[j].label /\ steps[i].label # None => i = j
    /\ \A i \in DOMAIN steps :
          /\ steps[i].action = "branch" => ValidBranch(steps, i)
          /\ steps[i].action = "trigger_playbook" => steps[i].playbook \notin {None, b}
          /\ steps[i].source_ip # "alert.unknown"    \* validate_step_param_bindings
-----------------------------------------------------------------------------
(* Which playbooks an alert starts: engines/playbook_engine.py *)

\* _evaluate_trigger: a trigger names only the keys it asks about.
Matches(trigger, a) ==
    /\ "exclude_alert_types" \in DOMAIN trigger => a.alert_type \notin trigger.exclude_alert_types
    /\ "alert_type" \in DOMAIN trigger => a.alert_type = trigger.alert_type
    /\ "min_severity" \in DOMAIN trigger => Rank[a.severity] >= Rank[trigger.min_severity]
    /\ "source" \in DOMAIN trigger => a.source = trigger.source
    /\ "correlation_flag" \in DOMAIN trigger => (a.alert_type = "correlated_activity") = trigger.correlation_flag
    /\ "reputation_score_min" \in DOMAIN trigger =>
          (IF a.reputation_score = None THEN 0 ELSE a.reputation_score) >= trigger.reputation_score_min
MatchedPlaybooks == {b \in Playbooks : definition[b].enabled /\ Matches(Content[definition[b].draft].trigger, alert)}
-----------------------------------------------------------------------------
(* Executions *)

\* get_playbook_definition
StepsOf(b) == Content[definition[b].draft].steps
NewRun(b, onAlert, parent, depth) ==
    [book |-> b, alert |-> onAlert, status |-> "pending", log |-> <<>>, last |-> 0, ask |-> None, parent |-> parent, depth |-> depth]
ActiveFor(rows, b, onAlert) == \E i \in DOMAIN rows : rows[i].book = b /\ rows[i].alert = onAlert /\ rows[i].status \in Active

\* One of the workers' transactions has inserted an execution of b for the alert, or is
\* rewriting one: the unique index makes another insert wait for it.
Busy(workers, b) ==
    \E v \in workers : pass[v] # None /\ (ActiveFor(pass[v].born, b, TRUE) \/ (run[pass[v].of].book = b /\ run[pass[v].of].alert))
Room(n) == Len(run) + n <= MaxRuns
Held(e) == \E w \in Workers : pass[w] # None /\ pass[w].of = e

\* get_playbook_execution_ancestor_chain, at most MaxChainDepth hops.
AncestorsNearest(e) == {run[e].parent} \ {None}
AncestorChain(e) ==
    LET Up[n \in 0 .. MaxChainDepth] ==
            IF n = 0 THEN {} ELSE Up[n - 1] \cup ({run[x].parent : x \in Up[n - 1] \cup {e}} \ {None})
    IN  Up[MaxChainDepth]
\* _target_in_execution_ancestry
InAncestry(e, b) == b = run[e].book \/ \E x \in AncestorChain(e) : run[x].book = b

Init ==
    /\ alert \in Alerts
    /\ \E d \in [Playbooks -> DOMAIN Content] :
          /\ \A b \in Playbooks : d[b] \in Drafts[b] /\ ValidSteps(Content[d[b]].steps, b)
          /\ definition = [b \in Playbooks |-> [enabled |-> TRUE, draft |-> d[b]]]
    /\ run = <<>>
    /\ pass = [w \in Workers |-> None]
    /\ requests = 0 /\ rollbacks = 0 /\ arrived = FALSE

\* update_playbook_definition
Saved(b, value, d) == [definition EXCEPT ![b] = [enabled |-> value, draft |-> d]]
\* update_playbook_route; the playbooks exist.
SaveDefinition(b) ==
    /\ requests < MaxRequests
    /\ \E d \in Drafts[b], value \in BOOLEAN :
          ValidSteps(Content[d].steps, b) /\ definition' = Saved(b, value, d)
    /\ requests' = requests + 1
    /\ UNCHANGED <<alert, run, pass, rollbacks, arrived>>
\* patch_playbook_enabled_route
SetEnabled(b, value) ==
    /\ requests < MaxRequests /\ definition[b].enabled # value
    /\ definition' = [definition EXCEPT ![b].enabled = value]
    /\ requests' = requests + 1
    /\ UNCHANGED <<alert, run, pass, rollbacks, arrived>>

\* create_pending_executions_for_committed_alerts: one execution for each playbook that
\* matches, unless it already has an active one.
Orchestrate ==
    /\ ~arrived
    /\ \A b \in MatchedPlaybooks : ~Busy(Workers, b)
    /\ LET new == {b \in MatchedPlaybooks : ~ActiveFor(run, b, TRUE)}
           order == CHOOSE s \in SetToSeqs(new) : TRUE
       IN  /\ Room(Cardinality(new))
           /\ run' = run \o [i \in DOMAIN order |-> NewRun(order[i], TRUE, None, 0)]
    /\ arrived' = TRUE
    /\ UNCHANGED <<definition, alert, pass, requests, rollbacks>>

\* create_manual_playbook_execution_route, on the alert or on the incident.
Trigger(b, onAlert) ==
    /\ requests < MaxRequests /\ definition[b].enabled /\ Room(1)
    /\ ~ActiveFor(run, b, onAlert)
    /\ \A w \in Workers : pass[w] # None => ~ActiveFor(pass[w].born, b, onAlert)
    /\ run' = Append(run, NewRun(b, onAlert, None, 0))
    /\ requests' = requests + 1
    /\ UNCHANGED <<definition, alert, pass, rollbacks, arrived>>
\* The retry route: create_retry_execution copies the target and not the lineage.
Retry(e) ==
    /\ requests < MaxRequests /\ run[e].status = "failed" /\ Room(1) /\ ~ActiveFor(run, run[e].book, run[e].alert)
    /\ \A w \in Workers : pass[w] # None => ~ActiveFor(pass[w].born, run[e].book, run[e].alert)
    /\ run' = Append(run, NewRun(run[e].book, run[e].alert, None, 0))
    /\ requests' = requests + 1
    /\ UNCHANGED <<definition, alert, pass, rollbacks, arrived>>
\* An analyst decides on the request of a parked execution, or it expires.
Decide(e) ==
    /\ run[e].status = "awaiting_approval" /\ run[e].ask = "pending"
    /\ \E d \in Decisions : run' = [run EXCEPT ![e].ask = d]
    /\ UNCHANGED <<definition, alert, pass, requests, rollbacks, arrived>>
-----------------------------------------------------------------------------
(* One pass over the steps *)

Entry(i, status) == [step |-> i, status |-> status, to |-> None]
\* The steps a pass goes through: the definition as it was read when the pass began.
PassSteps(p) == Content[p.draft].steps
\* _step_already_succeeded_in_log and _step_already_skipped_in_log: the loop goes past the
\* steps the log has settled.
Onward(p) ==
    LET InLog(i, status) == \E k \in DOMAIN p.log : p.log[k].step = i /\ p.log[k].status = status
        open == {i \in p.at .. Len(PassSteps(p)) : ~InLog(i, "success") /\ ~InLog(i, "skipped")}
        next == IF open = {} THEN Max({p.at, Len(PassSteps(p)) + 1}) ELSE Min(open)
        done == {i \in p.at .. next - 1 : InLog(i, "success")}
    IN  [p EXCEPT !.at = next, !.last = IF done = {} THEN @ ELSE Max(done)]
Pass(e, from, log, last) ==
    Onward([of |-> e, draft |-> definition[run[e].book].draft, at |-> from, log |-> log, last |-> last, failed |-> FALSE, born |-> <<>>])

\* _process_running_execution with _resume_progress.
Begin(w, e) ==
    /\ pass[w] = None /\ run[e].status = "pending" /\ ~Held(e)
    /\ pass' = [pass EXCEPT ![w] = Pass(e, run[e].last + 1, run[e].log, run[e].last)]
    /\ UNCHANGED <<definition, alert, run, requests, rollbacks, arrived>>

\* _latest_gate_entry
GateOf(e) == run[e].log[SelectLastInSeq(run[e].log, LAMBDA entry : entry.status = "awaiting_approval")].step
\* The gate's on_denied or on_expired, in the definition as it is now.
GoesOn(e) ==
    LET steps == StepsOf(run[e].book)
        gate == GateOf(e)
    IN  gate \in DOMAIN steps /\ steps[gate].refused = "branch"
\* _process_awaiting_approval_execution, for a granted request and for a refused one whose
\* gate continues to its branch.
Resume(w, e) ==
    /\ pass[w] = None /\ run[e].status = "awaiting_approval" /\ ~Held(e)
    /\ run[e].ask = "approved" \/ (run[e].ask \in {"denied", "expired"} /\ GoesOn(e))
    /\ LET gate == GateOf(e) IN
       pass' = [pass EXCEPT ![w] = Pass(e, gate + 1, Append(run[e].log, Entry(gate, run[e].ask)), gate)]
    /\ UNCHANGED <<definition, alert, run, requests, rollbacks, arrived>>

\* _skipped_branch_step_entries and _skipped_later_step_entries
SkipEntriesLate(from, upto) == [k \in 1 .. (IF upto > from THEN upto - from - 1 ELSE 0) |-> Entry(from + k, "skipped")]
SkipEntries(from, upto) == [k \in 1 .. (IF upto > from THEN upto - from ELSE 0) |-> Entry(from + k - 1, "skipped")]
\* The same, for a refused request whose gate stops the playbook: every later step is skipped.
Refuse(e) ==
    /\ run[e].status = "awaiting_approval" /\ ~Held(e)
    /\ run[e].ask \in {"denied", "expired"} /\ ~GoesOn(e)
    /\ LET gate == GateOf(e) IN
       run' = [run EXCEPT ![e].status = "not_actioned",
                          ![e].log = Append(@, Entry(gate, run[e].ask)) \o SkipEntries(gate + 1, Len(StepsOf(run[e].book)) + 1)]
    /\ UNCHANGED <<definition, alert, pass, requests, rollbacks, arrived>>

At(w, actions) ==
    /\ pass[w] # None /\ pass[w].at <= Len(PassSteps(pass[w]))
    /\ PassSteps(pass[w])[pass[w].at].action \in actions
\* The loop's bookkeeping: a success goes to next, a failure stops the playbook unless its
\* step says to continue.
Went(w, entries, next) ==
    LET p == pass[w]
        ok == Head(entries).status = "success"
    IN  Onward([p EXCEPT !.log = @ \o entries,
                         !.last = IF ok THEN p.at ELSE @,
                         !.failed = @ \/ ~ok,
                         !.at = IF ok THEN next ELSE IF PassSteps(p)[p.at].on_failure = "continue" THEN p.at + 1 ELSE Len(PassSteps(p)) + 1])

\* _execute_branch_step
Branch(w) ==
    /\ At(w, {"branch"})
    /\ LET p == pass[w]
           s == PassSteps(p)[p.at]
           actual == Actual(s.condition, run[p.of], p.log)
           holds == Compare(actual, s.condition.op, Expected(s.condition))
           target == IF holds THEN TargetIndex(PassSteps(p), s.goto_true, p.at)
                     ELSE IF s.goto_false # None THEN TargetIndex(PassSteps(p), s.goto_false, p.at) ELSE p.at + 1
           taken == <<[Entry(p.at, "success") EXCEPT !.to = target]>> \o SkipEntries(p.at + 1, target)
       IN  pass' = [pass EXCEPT ![w] =
                      IF actual = None THEN Went(w, <<Entry(p.at, "failed")>>, None)
                      ELSE IF target = None THEN Went(w, <<Entry(p.at, "failed")>>, None)
                      ELSE Went(w, taken, target)]
    /\ UNCHANGED <<definition, alert, run, requests, rollbacks, arrived>>

\* The refusals of _execute_trigger_playbook_step, in its order.
TriggerRefused(e, b) ==
    \/ b \notin Playbooks
    \/ ~definition[b].enabled \/ run[e].depth >= MaxChainDepth \/ InAncestry(e, b) \/ ~run[e].alert
\* _execute_trigger_playbook_step; an active execution of the target counts as triggered.
TriggerPlaybook(w) ==
    /\ At(w, {"trigger_playbook"})
    /\ LET p == pass[w]
           b == PassSteps(p)[p.at].playbook
           new == [Went(w, <<Entry(p.at, "success")>>, p.at + 1) EXCEPT !.born = Append(@, NewRun(b, TRUE, p.of, run[p.of].depth + 1))]
       IN  \/ /\ TriggerRefused(p.of, b)
              /\ pass' = [pass EXCEPT ![w] = Went(w, <<Entry(p.at, "failed")>>, None)]
           \/ /\ ~TriggerRefused(p.of, b) /\ ActiveFor(run \o p.born, b, TRUE) /\ ~Busy(Workers \ {w}, b)
              /\ pass' = [pass EXCEPT ![w] = Went(w, <<Entry(p.at, "success")>>, p.at + 1)]
           \/ /\ ~TriggerRefused(p.of, b) /\ ~ActiveFor(run \o p.born, b, TRUE) /\ ~Busy(Workers \ {w}, b)
              /\ Room(Len(p.born) + 1)
              /\ pass' = [pass EXCEPT ![w] = new]
    /\ UNCHANGED <<definition, alert, run, requests, rollbacks, arrived>>

\* resolve_step_params for the parameter source_ip: {{alert.source_ip}} or a literal.
Unbound == "unbound"
ResolvedAddress(s, e) ==
    IF s.source_ip # "alert.source_ip" THEN s.source_ip
    ELSE IF e.alert /\ alert.source_ip # None THEN alert.source_ip ELSE Unbound

\* _record_playbook_block_tracking: an address that may not be tracked is passed over.
Tracking(ip) == IF ip \in {None, "private"} THEN {"skipped"} ELSE {"recorded", "refused"}
\* _simulate_adapter_step for block_ip: a protected address is refused before the adapter,
\* and a block that could not be tracked has failed.
BlockOutcomes(s, e) ==
    LET ip == ResolvedAddress(s, e)
    IN  IF ip \in {Unbound, "protected"} THEN {"failed"}
        ELSE {"failed"} \cup {IF t = "refused" THEN "failed" ELSE "success" : t \in Tracking(ip)}
\* and for the notifications, whose delivery is in NotificationDelivery.
NotifyOutcomes(s, e) == {"failed"} \cup (IF ResolvedAddress(s, e) = Unbound THEN {} ELSE {"success"})
\* _execute_canonical_response_step: monitor needs an address, a flag an address or an alert.
ResponseOutcomes(s, e) ==
    LET ip == ResolvedAddress(s, e)
        aimed == ip # None \/ (s.action = "flag_high_priority" /\ e.alert)
    IN  {"failed"} \cup (IF ip # Unbound /\ aimed THEN {"success"} ELSE {})
\* _execute_enrich_context_step: reads only, and fails when one of the reads does.
EnrichOutcomes == {"success", "failed"}
StepOutcomes(s, e) ==
    CASE s.action = "block_ip" -> BlockOutcomes(s, e)
      [] s.action = "notify_teams" -> NotifyOutcomes(s, e)
      [] s.action \in {"monitor", "flag_high_priority"} -> ResponseOutcomes(s, e)
      [] s.action = "enrich_context" -> EnrichOutcomes
\* _simulate_step
Simulate(w) ==
    /\ At(w, {"block_ip", "notify_teams", "monitor", "flag_high_priority", "enrich_context"})
    /\ LET p == pass[w] IN
       \E o \in StepOutcomes(PassSteps(p)[p.at], run[p.of]) : pass' = [pass EXCEPT ![w] = Went(w, <<Entry(p.at, o)>>, p.at + 1)]
    /\ UNCHANGED <<definition, alert, run, requests, rollbacks, arrived>>

\* What the transaction leaves: the execution's row and the executions it triggered.
Written(w, status, log, ask) ==
    LET p == pass[w]
    IN  [run EXCEPT ![p.of] = [@ EXCEPT !.status = status, !.log = log, !.last = p.last, !.ask = ask]] \o p.born
\* A require_approval step parks the execution.
Park(w) ==
    /\ At(w, {"require_approval"})
    /\ run' = Written(w, "awaiting_approval", Append(pass[w].log, Entry(pass[w].at, "awaiting_approval")), "pending")
    /\ pass' = [pass EXCEPT ![w] = None]
    /\ UNCHANGED <<definition, alert, requests, rollbacks, arrived>>
\* The end of _process_steps.
Finish(w) ==
    /\ pass[w] # None /\ pass[w].at > Len(PassSteps(pass[w]))
    /\ run' = Written(w, IF pass[w].failed THEN "failed" ELSE "success", pass[w].log, None)
    /\ pass' = [pass EXCEPT ![w] = None]
    /\ UNCHANGED <<definition, alert, requests, rollbacks, arrived>>
Rollback(w) ==
    /\ pass[w] # None /\ rollbacks < MaxRollbacks
    /\ pass' = [pass EXCEPT ![w] = None]
    /\ rollbacks' = rollbacks + 1
    /\ UNCHANGED <<definition, alert, run, requests, arrived>>

Next ==
    \/ \E b \in Playbooks : SaveDefinition(b)
    \/ \E b \in Playbooks, value \in BOOLEAN : SetEnabled(b, value)
    \/ \E b \in Playbooks, onAlert \in BOOLEAN : Trigger(b, onAlert)
    \/ Orchestrate
    \/ \E e \in DOMAIN run : Retry(e) \/ Decide(e) \/ Refuse(e)
    \/ \E w \in Workers, e \in DOMAIN run : Begin(w, e) \/ Resume(w, e)
    \/ \E w \in Workers : Branch(w) \/ TriggerPlaybook(w) \/ Simulate(w) \/ Park(w) \/ Finish(w) \/ Rollback(w)

Spec == Init /\ [][Next]_stepVars
-----------------------------------------------------------------------------
\* Playbooks that trigger one another end: along the chain from an execution to the one an
\* alert or an analyst started no playbook comes twice, and chain_depth is the length of that
\* chain and at most MAX_CHAIN_DEPTH, whatever definitions are saved meanwhile, transactions
\* rolled back and executions retried.
ChainIsAcyclic ==
    LET Up[n \in 0 .. Len(run)] == [e \in DOMAIN run |->
            IF n = 0 THEN {} ELSE Up[n - 1][e] \cup ({run[x].parent : x \in Up[n - 1][e] \cup {e}} \ {None})]
    IN  \A e \in DOMAIN run :
          /\ \A x \in Up[Len(run)][e] : run[x].book # run[e].book
          /\ run[e].depth = Cardinality(Up[Len(run)][e]) /\ run[e].depth <= MaxChainDepth

\* Every step of an execution is accounted for exactly once: below the highest step its log
\* mentions each step was done, failed, skipped or a gate that was decided, none of them
\* twice, and the steps a branch jumped over were skipped and never run, although the
\* execution may have been parked, resumed under another definition or rolled back between.
EveryStepAccounted ==
    \A e \in DOMAIN run :
        LET log == run[e].log
            Of(i, among) == {k \in DOMAIN log : log[k].step = i /\ log[k].status \in among}
        IN  \A k \in DOMAIN log :
              /\ \A i \in 1 .. log[k].step - 1 : Cardinality(Of(i, Outcomes)) + Cardinality(Of(i, Decisions)) = 1
              /\ Cardinality(Of(log[k].step, Outcomes)) + Cardinality(Of(log[k].step, Decisions)) <= 1
              /\ log[k].to # None => \A i \in log[k].step + 1 .. log[k].to - 1 : Of(i, {"success", "failed"}) = {}
=============================================================================
