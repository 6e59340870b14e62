------------------------------ MODULE MCAiCalls ------------------------------
(***************************************************************************)
(* One instance for what calls the AI gateway: the paid call itself, the    *)
(* turn of an analyst, a guided investigation with its draft and the        *)
(* scheduled investigation of a briefing.  Each of them meets the gateway   *)
(* as one that answers, refuses or fails, so a behaviour is a behaviour of  *)
(* one of them while the others stay as they began.                         *)
(***************************************************************************)
EXTENDS PaidUsage, Sequences, TLC

CONSTANTS TurnScenes, Responses, Answers, Framing, PacketLimit, PromptLimit, PlanLimit, MaxLimit, MaxEvidence, Bad,
          Workers, Subjects, Prints, Modes, Replies, Sections, MaxEntities, MaxCalls, CallCap, Horizon, MaxTime, MaxChanges,
          Inquiries, Inside, CallsPerPass, DraftCalls, MaxEdits, None,
          Parts           \* the components this run goes through

VARIABLES part,
          question, known, stage, facts, first, second, outcome, lookup, answer,
          tick, entity, changes, engine, reports,
          inquiry, held, edits, stops, run

T == INSTANCE AnalystTurn
S == INSTANCE ScheduledInvestigation
I == INSTANCE Investigation

\* Tools a client names are calls, of whatever tool and argument; bounds count calls.
ASSUME WantedAssumption == \A q \in Inquiries : q.wanted = None \/ q.wanted \in Seq([tool : STRING, on : STRING \cup {None}])
ASSUME PassAssumption == CallsPerPass \in Nat /\ DraftCalls \in Nat

\* The budget of a briefing counts entities and calls, and the entities there are can be counted.
ASSUME BudgetAssumption == MaxEntities \in Nat /\ MaxCalls \in Nat /\ CallCap \in Nat /\ IsFiniteSet(DOMAIN Subjects)

turnVars == <<question, known, stage, facts, first, second, outcome, lookup, answer>>
engineVars == <<tick, entity, changes, engine, reports>>
inquiryVars == <<inquiry, held, edits, stops, run>>
-----------------------------------------------------------------------------
(* Two calls of different cost in budgets that fit one, two or all of them. *)

CallCosts == [c \in Calls |-> IF c = 1 THEN 1 ELSE 2]
-----------------------------------------------------------------------------
(* What an analyst asks and a planner proposes. *)
E(t, i) == [type |-> t, id |-> i]
AlertA == E("alert", "a1")
AlertB == E("alert", "a2")
Activity == E("recon_activity", "r1")
Address == E("source_ip", "ip1")
Case == E("incident", "c1")
Fact(size, assistant, named) == [size |-> size, assistant |-> assistant, entity |-> named]
NoFacts == [c \in {"recent_tool_results", "recent_conclusions", "unresolved_questions", "analyst_corrections",
               "conversation_summary", "recent_turns", "prior_recommendations", "analyst_statements"} |-> <<>>]
Told == [NoFacts EXCEPT !["recent_turns"] = <<Fact(1, TRUE, TRUE), Fact(1, FALSE, FALSE)>>, !["analyst_statements"] = <<Fact(2, FALSE, FALSE)>>]
Rec(table, id, keys) == [table |-> table, id |-> id, keys |-> keys]
TheRecords ==
    {Rec("alert", "a1", [alert_id |-> "a1", source_ip |-> "ip1", severity |-> "high"]), Rec("alert", "a2", [alert_id |-> "a2", source_ip |-> "ip2", severity |-> "high"]),
     Rec("event", "e1", [alert_id |-> "a1", activity_id |-> "r1", source_ip |-> "ip1"]), Rec("event", "e2", [alert_id |-> "a2", source_ip |-> "ip2"]),
     Rec("incident", "c1", [incident_id |-> "c1", severity |-> "high"])}
Scene(preferred, page, told, thread, bare, role) ==
    [mandatory |-> 2, thread_facts |-> told, thread |-> thread, preferred |-> preferred, page |-> page, artifact |-> FALSE,
     rows |-> {AlertA, AlertB, Activity, Address, Case}, address |-> [e \in {AlertA, AlertB, Case} |-> IF e = AlertA THEN "ip1" ELSE None],
     linked |-> {}, inferences |-> {[turn |-> 1, entity |-> AlertA]}, records |-> TheRecords, bare |-> bare, role |-> role]
SmallTurnScenes ==
    {Scene("quick_explain", AlertA, Told, "current", FALSE, "analyst"),
     Scene(None, None, NoFacts, "current", TRUE, "analyst"),
     Scene("generate_artifact", AlertA, Told, "stale", FALSE, "analyst"),
     Scene("decision_support", None, NoFacts, "answered", FALSE, "analyst"),
     Scene("deep_investigate", AlertB, NoFacts, "current", FALSE, "viewer"),
     [Scene("generate_artifact", AlertA, Told, "current", FALSE, "analyst") EXCEPT !.mandatory = 3],
     [Scene("decision_support", AlertA, Told, "current", FALSE, "analyst") EXCEPT !.mandatory = 9]}
Base == [current_turn_intent |-> "fresh_evidence_lookup", relationship_to_prior_turn |-> "new_question", resolved_entities |-> <<>>,
         evidence_sufficiency |-> "insufficient", required_evidence |-> <<"recent activity">>, proposed_strategy |-> "quick_evidence_lookup",
         proposed_capability |-> "quick_explain", proposed_tool_categories |-> <<"alerts">>, evidence_requirements |-> [severity |-> "high"],
         reasoning_summary |-> "look it up"]
On(entities, tool, filters) == [Base EXCEPT !.resolved_entities = entities, !.proposed_tool_categories = <<tool>>, !.evidence_requirements = filters]
DirectPlan == [Base EXCEPT !.current_turn_intent = "evidence_explanation", !.resolved_entities = <<AlertA>>, !.evidence_sufficiency = "sufficient",
            !.required_evidence = <<>>, !.proposed_strategy = "direct_answer", !.proposed_tool_categories = <<>>, !.evidence_requirements = [k \in {} |-> None]]
Plans ==
    {Base, DirectPlan,
     [DirectPlan EXCEPT !.current_turn_intent = "state_summary", !.resolved_entities = <<>>],
     [DirectPlan EXCEPT !.evidence_sufficiency = "insufficient"],
     [DirectPlan EXCEPT !.proposed_strategy = Bad, !.reasoning_summary = None],
     [DirectPlan EXCEPT !.proposed_strategy = "compare_entities", !.resolved_entities = <<AlertA, AlertA>>],
     [DirectPlan EXCEPT !.current_turn_intent = "comparison", !.proposed_strategy = "compare_entities", !.proposed_capability = "deep_investigate",
                    !.resolved_entities = <<AlertA, AlertB>>],
     [DirectPlan EXCEPT !.current_turn_intent = "analyst_correction"] @@ [referenced_turn_sequence |-> 1],
     [DirectPlan EXCEPT !.current_turn_intent = "analyst_correction", !.resolved_entities = <<AlertB>>] @@ [referenced_turn_sequence |-> 1],
     [DirectPlan EXCEPT !.current_turn_intent = "clarification", !.proposed_strategy = "clarification_required", !.proposed_capability = None,
                    !.evidence_sufficiency = "ambiguous"] @@ [clarification_question |-> "which one"],
     [Base EXCEPT !.evidence_requirements = [limit |-> Bad]],
     [Base EXCEPT !.evidence_requirements = [severity |-> "high", limit |-> 1]],
     On(<<>>, "events", [limit |-> 1]),
     On(<<>>, "events", [alert_type |-> "port_scan"]),
     On(<<AlertA>>, "events", [alert_id |-> "a1"]),
     On(<<AlertB>>, "alerts", [alert_id |-> "a1"]),
     On(<<AlertA>>, "alerts", [alert_id |-> "a1", severity |-> "high"]),
     On(<<Activity>>, "recon_activity", [activity_id |-> "r1"]),
     On(<<Activity>>, "recon_activity", [activity_id |-> "r1", alert_id |-> "a2"]),
     On(<<Address>>, "source_ip_activity", [source_ip |-> "ip1"]),
     On(<<Case>>, "incidents", [incident_id |-> "c1"]),
     On(<<Case>>, "response_registry", [source_ip |-> "ip1"])}
Response(status, state, plan, size) == [status |-> status, state |-> state, plan |-> plan, size |-> size]
SmallResponses ==
    {Response("success", "complete", p, 2) : p \in Plans}
    \cup {Response("success", "complete", Base, 6), Response("success", "complete", None, 1), Response("success", "output_exhausted", Base, 2),
          Response("provider_timeout", "provider_error", None, 0), Response("refused", "provider_error", None, 0)}
SmallAnswers == {[kind |-> None, ids |-> i, ips |-> a] : i \in {{}, {"a1"}, {"a2"}, {"e1"}}, a \in {{}, {"ip1"}, {"ip9"}}}
-----------------------------------------------------------------------------
(* The rows a scheduled run finds and what the gateway returns to it. *)

Subject(type, severity, internal) == [type |-> type, severity |-> severity, internal |-> internal]
SmallSubjects == <<Subject("alert", "critical", FALSE), Subject("incident", "high", TRUE)>>
Everywhere(items) == [s \in Sections |-> items]
Reply(kind, paid, sections) == [kind |-> kind, paid |-> paid, sections |-> sections]
SmallReplies == {Reply("valid", FALSE, Everywhere(<<"internal">>)), Reply("valid", TRUE, Everywhere(<<"plain">>)),
                 Reply("malformed", FALSE, None), Reply("unavailable", FALSE, None)}
OneSubject == <<Subject("incident", "high", FALSE)>>
OneReply == {Reply("valid", FALSE, Everywhere(<<"plain">>))}
-----------------------------------------------------------------------------
(* The requests for investigations and drafts: numbers that are part of     *)
(* other numbers, tools a client names, and every kind of subject.          *)

Ask(tool, on) == [tool |-> tool, on |-> on]
HeldRow(there, severity, ip) == [there |-> there, severity |-> severity, ip |-> ip]
TheRows == [e \in {"a1", "a12", "c1"} |-> HeldRow(TRUE, IF e = "a12" THEN "low" ELSE "critical", IF e = "a12" THEN "ip12" ELSE "ip1")]
Inquiry(type, id, ip) ==
    [asks |-> "investigation", type |-> type, workflow |-> None, id |-> id, ip |-> ip, words |-> {}, wanted |-> None, role |-> "analyst",
     visible |-> TRUE, drafts |-> TRUE, escalates |-> FALSE, draft |-> None, tools |-> FALSE, rows |-> TheRows]
SmallInquiries ==
    {Inquiry("alert", "a1", None), Inquiry("alert", "a1", "ip1"), [Inquiry("incident", "c1", None) EXCEPT !.words = {"playbook", "audit"}],
     [Inquiry("source_ip", None, "ip1") EXCEPT !.words = {"source", "incident"}],
     [Inquiry("alert", "a1", None) EXCEPT !.wanted = <<Ask("get_alert_detail", "a12")>>, !.escalates = TRUE],
     [Inquiry("alert", "a1", None) EXCEPT !.wanted = <<Ask("drop_table", None)>>],
     [Inquiry("general", None, None) EXCEPT !.visible = FALSE], [Inquiry("general", None, None) EXCEPT !.workflow = "source_ip"],
     [Inquiry("alert", "a1", None) EXCEPT !.workflow = "incident"], Inquiry("response_registry", "c1", None),
     [Inquiry("detection", "a1", None) EXCEPT !.workflow = "source_ip"],
     [Inquiry("alert", "a1", None) EXCEPT !.asks = "draft", !.draft = "escalation_summary", !.tools = TRUE],
     [Inquiry("detection", None, None) EXCEPT !.asks = "draft", !.draft = "incident_note"],
     [Inquiry("general", None, None) EXCEPT !.asks = "draft", !.draft = "incident_note", !.visible = FALSE]}
SmallInside == {<<"a1", "a12">>, <<"ip1", "ip12">>}
-----------------------------------------------------------------------------
AllInit ==
    /\ part \in Parts
    /\ Init /\ T!Init /\ S!Init /\ I!Init
    /\ part # "turn" => question = CHOOSE q \in TurnScenes : TRUE
    /\ part # "inquiry" => inquiry = CHOOSE q \in Inquiries : TRUE

AllNext ==
    \/ part = "paid" /\ Next /\ UNCHANGED <<part, turnVars, engineVars, inquiryVars>>
    \/ part = "turn" /\ T!Next /\ UNCHANGED <<part, vars, engineVars, inquiryVars>>
    \/ part = "scheduled" /\ S!Next /\ UNCHANGED <<part, vars, turnVars, inquiryVars>>
    \/ part = "inquiry" /\ I!Next /\ UNCHANGED <<part, vars, turnVars, engineVars>>

AllSpec == AllInit /\ [][AllNext]_<<part, vars, turnVars, engineVars, inquiryVars>>
-----------------------------------------------------------------------------
(* The properties of the parts. *)

\* A lookup reads only records of the entity the planner resolved.
LookupStaysOnEntity == T!LookupStaysOnEntity

\* An answer names only what the read returned.
AnswerIsGrounded == T!AnswerIsGrounded

\* What a briefing leaves out as a duplicate was reported with the same fingerprint.
SkippedWasReported == S!SkippedWasReported

\* A run that says it succeeded carried out and cites every planned read.
SuccessIsWhole == I!SuccessIsWhole

\* A draft returned as a success matches its schema and rests on a summary.
DraftIsSound == I!DraftIsSound

\* A candidate that changed since it was last investigated is investigated again.
NewEvidenceIsInvestigated == S!NewEvidenceIsInvestigated

\* A draft is repaired at most once.
OneRepair == I!OneRepair
=============================================================================
