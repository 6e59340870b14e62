---------------------------- MODULE Investigation ----------------------------
(***************************************************************************)
(* A guided investigation (investigation_service.run_investigation with     *)
(* its planner) and the draft it may end in or that an analyst asks for     *)
(* (drafting_service.create_draft).                                         *)
(*                                                                          *)
(* A request plans its read tools, reads the context of its subject, runs   *)
(* the tools, validates what they returned, has a model correlate it and,   *)
(* for a severe subject, has a review-only draft written, parsed, validated *)
(* and repaired.  Every read sees the rows as they are at that moment.      *)
(* A row is a token; a text that contains another one is a pair of Inside;  *)
(* what a model writes is a member of Writings: a summary's status, or a    *)
(* draft that is unreadable, invalid or valid.                              *)
(***************************************************************************)
EXTENDS Naturals, Sequences, FiniteSets, SequencesExt, TLC

CONSTANTS
    Inquiries,       \* the requests: what is asked about, the tools wanted, the role
    Inside,          \* <<a, b>>: the text of a is part of the text of b
    CallsPerPass,    \* MAX_TOOL_CALLS_PER_PASS, and the executor's own bound
    DraftCalls,      \* max_tool_calls of an automatic draft
    MaxEdits,        \* bound on changes of rows while the request runs
    None

VARIABLES
    inquiry,
    held,            \* row -> [there, severity, ip]: what the tables hold
    edits,
    stops,           \* reasons to stop that hold by now: cancelled, timeout
    run              \* the run so far

inquiryVars == <<inquiry, held, edits, stops, run>>

Types == {"alert", "incident", "source_ip", "recon_activity", "response_registry", "dashboard", "general", "detection"}

\* WORKFLOW_BY_CONTEXT.
WorkflowOf(type) ==
    CASE type = "detection" -> "alert"
      [] type \in {"dashboard", "general"} -> "anomaly"
      [] OTHER -> type

Workflows == {"alert", "incident", "source_ip", "recon_activity", "response_registry", "anomaly"}

\* WORKFLOW_STEPS: the last two workflows have no draft step.
Drafting == Workflows \ {"response_registry", "anomaly"}

\* DRAFT_DEFINITIONS: the context types a draft is made for.
DraftContexts(draft) ==
    CASE draft = "incident_note" -> {"incident", "alert", "source_ip", "recon_activity", "general"}
      [] draft = "escalation_summary" -> {"incident", "alert", "source_ip", "recon_activity", "dashboard", "general"}
      [] draft = "investigation_checklist" -> Types
      [] OTHER -> {}

Same(a, b) == a = b \/ <<a, b>> \in Inside

-----------------------------------------------------------------------------
(* The plan. *)

Call(tool, on) == [tool |-> tool, on |-> on]

Lists == {"search_alerts", "search_incidents", "list_playbook_executions", "read_audit_log"}
ById == {"get_alert_detail", "get_related_events", "get_source_ip_context", "get_incident_timeline", "get_response_registry_context"}

If(condition, s) == IF condition THEN s ELSE <<>>

\* build_deterministic_tool_plan: the tools the client named, else those the subject and the
\* words of the question call for.
Deterministic(q) ==
    LET subject == CASE q.type = "alert" /\ q.id # None -> <<Call("get_alert_detail", q.id), Call("get_related_events", q.id)>>
                     [] q.type = "incident" /\ q.id # None -> <<Call("get_incident_timeline", q.id)>>
                     [] q.type = "source_ip" /\ q.ip # None -> <<Call("get_source_ip_context", q.ip), Call("get_related_events", q.ip)>>
                     [] q.type = "response_registry" /\ q.id # None -> <<Call("get_response_registry_context", q.id)>>
                     [] OTHER -> <<>>
        words == If(q.ip # None /\ "source" \in q.words,
                    <<Call("get_source_ip_context", q.ip), Call("search_alerts", q.ip), Call("get_related_events", q.ip),
                      Call("get_response_registry_context", q.ip)>>)
                 \o If("incident" \in q.words /\ q.type # "incident", <<Call("search_incidents", None)>>)
                 \o If("playbook" \in q.words, <<Call("list_playbook_executions", None)>>)
                 \o If("audit" \in q.words, <<Call("read_audit_log", None)>>) IN
    IF q.wanted # None THEN q.wanted
    ELSE IF subject \o words = <<>> THEN <<Call("search_alerts", None)>> ELSE subject \o words

\* _dedupe_calls keeps the first of equal calls.
Deduped(calls) ==
    LET firsts == {i \in DOMAIN calls : \A j \in 1 .. i - 1 : calls[j] # calls[i]} IN
    [k \in 1 .. Cardinality(firsts) |-> calls[CHOOSE i \in firsts : Cardinality({j \in firsts : j <= i}) = k]]

Cut(s, limit) == SubSeq(s, 1, IF Len(s) < limit THEN Len(s) ELSE limit)

Workflow(q) == IF q.workflow = None THEN WorkflowOf(q.type) ELSE q.workflow

\* _planned_tool_calls up to the bound of a pass.
Planned(q) ==
    LET base == Deterministic(q)
        incident == Workflow(q) = "incident" /\ q.type = "incident" /\ q.id # None
        alert == Workflow(q) = "alert" /\ q.ip # None
        all == If(incident, <<Call("get_incident_timeline", q.id)>>) \o base
               \o If(incident, <<Call("list_playbook_executions", None)>>)
               \o If(alert, <<Call("get_source_ip_context", q.ip), Call("list_playbook_executions", None)>>)
               \o If(Workflow(q) = "response_registry" /\ q.ip # None, <<Call("get_source_ip_context", q.ip)>>)
               \o If(Workflow(q) = "anomaly", <<Call("search_alerts", None)>>) IN
    Cut(Deduped(all), CallsPerPass)

\* normalize_context_type and workflow_for_context.
PlanRefused(q) ==
    \/ q.type \notin Types
    \/ /\ q.workflow # None
       /\ \/ q.workflow \notin Workflows
          \/ q.workflow # WorkflowOf(q.type) /\ q.type \notin {"general", "detection"}

\* validate_tool_name and validate_tool_args: a tool that is unknown or lacks its argument.
Malformed(c) == c.tool \notin Lists \cup ById \/ (c.tool \in ById /\ c.on = None)

-----------------------------------------------------------------------------
(* What the reads return. *)

There(e) == e \in DOMAIN held /\ held[e].there

NoContext == [sources |-> {}, severity |-> None, insufficient |-> TRUE]

Found(sources, severity) == [sources |-> sources, severity |-> severity, insufficient |-> FALSE]

Present(q) == q.id # None /\ There(q.id)

\* The builders.  None stands for AiContextError: a required id is missing or its row is gone.
AlertContext(q) == IF Present(q) THEN Found({q.id}, held[q.id].severity) ELSE None
IncidentContext(q) == IF Present(q) THEN Found({q.id}, held[q.id].severity) ELSE None
ActivityContext(q) == IF Present(q) THEN Found({q.id}, None) ELSE None
RegistryContext(q) == IF Present(q) THEN Found({q.id}, None) ELSE None

\* An address has a context even if nothing is known of it.
AddressContext(q) == IF q.ip = None THEN None ELSE Found({q.ip}, None)

\* A detection is that of an alert or of a rule.
DetectionContext(q) ==
    IF q.id = None THEN Found({"matrix"}, None) ELSE IF There(q.id) THEN Found({q.id}, None) ELSE None

\* What the page shows, if it sent anything.
VisibleContext(q) == [Found({"visible"}, None) EXCEPT !.insufficient = ~q.visible]

\* build_ai_context.
Context(q) ==
    CASE q.type = "alert" -> AlertContext(q)
      [] q.type = "incident" -> IncidentContext(q)
      [] q.type = "recon_activity" -> ActivityContext(q)
      [] q.type = "response_registry" -> RegistryContext(q)
      [] q.type = "source_ip" -> AddressContext(q)
      [] q.type = "detection" -> DetectionContext(q)
      [] OTHER -> VisibleContext(q)

\* execute_tool: who may, and what is found.  A row that is not there fails a tool that reads
\* it by its id; a list, or what is known of an address, may be empty.
Result(c, role, broken) ==
    LET rows == {e \in DOMAIN held : There(e) /\ (c.on \in {None, e, held[e].ip})}
        texts == rows \cup {held[e].ip : e \in rows} \cup (IF c.on = None THEN {} ELSE {c.on})
        Ended(status, sources, text) == [call |-> c, status |-> status, sources |-> sources, text |-> text] IN
    IF Malformed(c) THEN Ended("validation_error", {}, {})
    ELSE IF c.tool = "read_audit_log" /\ role # "super_admin" THEN Ended("forbidden", {}, {})
    ELSE IF broken \/ (c.tool \in {"get_alert_detail", "get_incident_timeline"} /\ ~There(c.on)) THEN Ended("failed", {}, {})
    ELSE Ended("success", IF c.on = None THEN {c.tool} ELSE {c.on}, texts)

\* execute_tool_plan: the calls up to the bound, the rest are omitted.
Executed(calls, limit, role, broken) ==
    [i \in 1 .. Len(Cut(calls, limit)) |-> Result(calls[i], role, i \in broken)]

\* _tools_requiring_id_match.
IdTools(type) ==
    CASE type = "alert" -> {"get_alert_detail", "get_related_events"}
      [] type = "detection" -> {"get_alert_detail", "get_related_events"}
      [] type = "recon_activity" -> {"get_related_events"}
      [] type = "incident" -> {"get_incident_timeline"}
      [] type = "response_registry" -> {"get_response_registry_context"}
      [] OTHER -> {}

\* _tool_result_rejection_reason: results that were refused, are not of the request's address
\* or not of its row; an address or a row number matches any text it is part of.
Accepts(q, r) ==
    /\ r.status \in {"success", "truncated"}
    /\ q.ip # None => \E t \in r.text : Same(q.ip, t)
    /\ (q.id # None /\ r.call.tool \in IdTools(q.type)) => \E s \in r.sources : Same(q.id, s)

Accepted(q, results) == SelectSeq(results, LAMBDA r : Accepts(q, r))

SourcesOf(results) == UNION {results[i].sources : i \in DOMAIN results}

\* select_automatic_draft: the type of the draft, or None.
SelectedDraft(q, context, accepted) ==
    LET wanted == /\ q.drafts /\ Workflow(q) \in Drafting
                  /\ ~context.insufficient
                  /\ Workflow(q) \in {"alert", "incident"} => context.severity \in {"high", "critical"}
                  /\ context.sources \cup SourcesOf(accepted) # {} IN
    IF ~wanted THEN None
    ELSE IF Workflow(q) = "incident" THEN "incident_note"
    ELSE IF Workflow(q) = "alert" /\ context.severity = "critical" /\ q.escalates THEN "escalation_summary"
    ELSE "investigation_checklist"

-----------------------------------------------------------------------------
(* The run. *)

NoRun == [at |-> "asked", calls |-> <<>>, context |-> NoContext, results |-> <<>>, accepted |-> <<>>, draft |-> None,
          summary |-> None, repairs |-> 0, written |-> None, tools |-> <<>>, drafts |-> <<>>, status |-> None]

Init ==
    /\ inquiry \in Inquiries
    /\ held = inquiry.rows
    /\ edits = 0 /\ stops = {}
    /\ run = NoRun

Become(changed) == run' = changed /\ UNCHANGED <<inquiry, held, edits, stops>>

Ended(r, status) == [r EXCEPT !.at = "ended", !.status = status]

\* _stop_result: nothing that was collected is returned.
Stopped == [NoRun EXCEPT !.at = "ended", !.calls = run.calls,
                         !.status = IF "cancelled" \in stops THEN "cancelled" ELSE "timeout"]

\* build_investigation_plan.  A wanted tool that does not exist raises an error run_investigation
\* does not expect.
Plan ==
    LET q == inquiry IN
    /\ run.at = "asked" /\ q.asks = "investigation"
    /\ Become(IF PlanRefused(q) THEN Ended(run, "failed")
              ELSE IF \E i \in DOMAIN Planned(q) : Malformed(Planned(q)[i]) THEN [run EXCEPT !.at = "raised"]
              ELSE [run EXCEPT !.at = "planned", !.calls = Planned(q)])

BuildContext ==
    /\ run.at = "planned"
    /\ Become(IF stops # {} THEN Stopped
              ELSE IF Context(inquiry) = None THEN Ended(run, "insufficient_context")
              ELSE [run EXCEPT !.at = "context", !.context = Context(inquiry)])

\* The tools, the validation of what they returned and the draft that will be wanted.
RunTools(broken) ==
    LET results == Executed(run.calls, CallsPerPass, inquiry.role, broken)
        accepted == Accepted(inquiry, results) IN
    /\ run.at = "context"
    /\ broken \subseteq DOMAIN run.calls
    /\ Become(IF stops # {} THEN Stopped
              ELSE [run EXCEPT !.at = "validated", !.results = results, !.accepted = accepted,
                               !.draft = SelectedDraft(inquiry, run.context, accepted)])

\* _build_correlation_prompt_result and the call: what is mandatory must fit the profile, else
\* the summary is made from the evidence alone; what is optional is left out as needed.
Summary(fits, reply) == IF ~fits THEN "fallback" ELSE IF reply = "success" THEN "model" ELSE None

Correlate(fits, reply) ==
    /\ run.at = "validated"
    /\ Become(IF stops # {} THEN Stopped ELSE [run EXCEPT !.at = "correlated", !.summary = Summary(fits, reply)])

\* Mutant of FinalStatus: only the accepted results are looked at.
FinalStatusOfAccepted(r) ==
    LET found == r.context.sources \cup SourcesOf(r.accepted) IN
    IF r.context.insufficient /\ SourcesOf(r.accepted) = {} THEN "insufficient_context"
    ELSE IF r.summary # "model" THEN IF found # {} THEN "partial" ELSE "failed"
    ELSE IF \E i \in DOMAIN r.accepted : r.accepted[i].status # "success" THEN "partial"
    ELSE "success"

\* _final_status.
FinalStatus(r) ==
    LET found == r.context.sources \cup SourcesOf(r.accepted) IN
    IF r.context.insufficient /\ SourcesOf(r.accepted) = {} THEN "insufficient_context"
    ELSE IF r.summary # "model" THEN IF found # {} THEN "partial" ELSE "failed"
    ELSE IF Len(r.results) < Len(r.calls) \/ \E i \in DOMAIN r.results : r.results[i].status # "success" THEN "partial"
    ELSE "success"

\* The draft step is left out or stopped, and the result assembled.
FinishWithoutDraft ==
    /\ run.at = "correlated"
    /\ run.draft = None \/ run.summary # "model" \/ stops # {}
    /\ Become(Ended(run, FinalStatus(run)))

-----------------------------------------------------------------------------
(* create_draft, at the end of an investigation or by itself. *)

\* The draft asked for, the type of its context and the tools it may use.
Wanted == IF inquiry.asks = "draft" THEN inquiry.draft ELSE run.draft

DraftPlan == IF inquiry.asks = "investigation" THEN Cut(run.calls, DraftCalls)
             ELSE IF inquiry.tools THEN Cut(Deterministic(inquiry), CallsPerPass) ELSE <<>>

\* The request is parsed and its context and tools are read, again and unvalidated.  An
\* error escapes: an investigation that got this far is lost with it.
StartDraft(broken) ==
    LET results == Executed(DraftPlan, CallsPerPass, inquiry.role, broken)
        useful == \E i \in DOMAIN results : results[i].status = "success" IN
    /\ \/ inquiry.asks = "draft" /\ run.at = "asked"
       \/ run.at = "correlated" /\ run.draft # None /\ run.summary = "model" /\ stops = {}
    /\ broken \subseteq DOMAIN DraftPlan
    /\ Become(IF inquiry.type \notin DraftContexts(Wanted) \/ Context(inquiry) = None THEN [run EXCEPT !.at = "raised"]
              ELSE IF Context(inquiry).insufficient /\ ~useful
              THEN [run EXCEPT !.at = "drafted", !.drafts = <<[status |-> "insufficient_context", content |-> None]>>]
              ELSE [run EXCEPT !.at = "drafting", !.tools = results])

Drafted(r, status, content) == [r EXCEPT !.at = "drafted", !.drafts = <<[status |-> status, content |-> content]>>]

\* The first generation: a prompt that does not fit, a gateway that does not answer, or a text.
Write(fits, reply, text) ==
    /\ run.at = "drafting"
    /\ Become(IF ~fits THEN Drafted(run, "insufficient_context", None)
              ELSE IF reply # "success" THEN Drafted(run, reply, None)
              ELSE [run EXCEPT !.at = IF text = "unreadable" THEN "unread" ELSE "parsed", !.written = text])

\* _attempt_draft_repair of an answer that is not JSON.
RepairParse(reply, text) ==
    LET tried == [run EXCEPT !.repairs = @ + 1] IN
    /\ run.at = "unread"
    /\ Become(IF reply # "success" \/ text = "unreadable" THEN Drafted(tried, "parse_failed", None)
              ELSE [tried EXCEPT !.at = "parsed", !.written = text])

\* Mutant of RepairSchema: the repaired draft is taken once it is JSON.
RepairSchemaUnvalidated(reply, text) ==
    LET tried == [run EXCEPT !.repairs = @ + 1] IN
    /\ run.at = "parsed" /\ run.written = "invalid"
    /\ Become(IF reply = "success" /\ text # "unreadable" THEN Drafted(tried, "success", text)
              ELSE Drafted(tried, "validation_failed", None))

\* The repair of one that does not match its schema; it is used only if it does.
RepairSchema(reply, text) ==
    LET tried == [run EXCEPT !.repairs = @ + 1] IN
    /\ run.at = "parsed" /\ run.written = "invalid"
    /\ Become(IF reply = "success" /\ text = "valid" THEN Drafted(tried, "success", text)
              ELSE Drafted(tried, "validation_failed", None))

Accept ==
    /\ run.at = "parsed" /\ run.written = "valid"
    /\ Become(Drafted(run, "success", run.written))

\* The draft is returned by itself or with the investigation it closes.
Finish ==
    /\ run.at = "drafted"
    /\ Become(Ended(run, IF inquiry.asks = "draft" THEN run.drafts[1].status ELSE FinalStatus(run)))

-----------------------------------------------------------------------------
(* What happens meanwhile. *)

\* The time runs out, or the caller cancels.
Stop(why) ==
    /\ run.at \notin {"ended", "raised"} /\ why \notin stops /\ inquiry.asks = "investigation"
    /\ stops' = stops \cup {why}
    /\ UNCHANGED <<inquiry, held, edits, run>>

\* A row is deleted or its severity changes.
Edit(e, there, severity) ==
    /\ run.at \notin {"ended", "raised"} /\ edits < MaxEdits /\ There(e)
    /\ held' = [held EXCEPT ![e] = [@ EXCEPT !.there = there, !.severity = severity]]
    /\ edits' = edits + 1
    /\ UNCHANGED <<inquiry, stops, run>>

ReplyKinds == {"success", "provider_timeout"}
Texts == {"unreadable", "invalid", "valid"}

Next ==
    \/ Plan \/ BuildContext \/ FinishWithoutDraft \/ Accept \/ Finish
    \/ \E broken \in SUBSET (1 .. CallsPerPass) : Cardinality(broken) <= 1 /\ (RunTools(broken) \/ StartDraft(broken))
    \/ \E fits \in BOOLEAN, reply \in ReplyKinds : Correlate(fits, reply)
    \/ \E fits \in BOOLEAN, reply \in ReplyKinds, text \in Texts : Write(fits, reply, text)
    \/ \E reply \in ReplyKinds, text \in Texts : RepairParse(reply, text) \/ RepairSchema(reply, text)
    \/ \E why \in {"cancelled", "timeout"} : Stop(why)
    \/ \E e \in DOMAIN held, there \in BOOLEAN, s \in {"low", "critical"} : Edit(e, there, s)

Spec == Init /\ [][Next]_inquiryVars

-----------------------------------------------------------------------------
(* Properties. *)

\* A run that says it succeeded carried out every planned read, each of them succeeded, its
\* summary is the model's and it names a source, whatever failed, was deleted or timed out
\* meanwhile.
SuccessIsWhole ==
    (run.at = "ended" /\ run.status = "success" /\ inquiry.asks = "investigation") =>
        /\ run.summary = "model"
        /\ Len(run.results) = Len(run.calls)
        /\ \A i \in DOMAIN run.results : run.results[i].status = "success"
        /\ run.context.sources \cup SourcesOf(run.accepted) # {}

\* A draft that is returned as a success matches its schema after however many repairs, and
\* one comes out of an investigation only with a summary, of a subject that was severe when
\* its context was read.
DraftIsSound ==
    \A i \in DOMAIN run.drafts :
        /\ run.drafts[i].status = "success" => run.drafts[i].content = "valid"
        /\ inquiry.asks = "investigation" =>
              /\ run.summary = "model"
              /\ Workflow(inquiry) \in {"alert", "incident"} => run.context.severity \in {"high", "critical"}

\* A draft is repaired at most once.
OneRepair == run.repairs <= 1

=============================================================================
