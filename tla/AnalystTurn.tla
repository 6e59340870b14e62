------------------------------ MODULE AnalystTurn ------------------------------
(***************************************************************************)
(* One question of an analyst: the planner's packet, the proposal a model   *)
(* makes, its validation, the single repair, the shortcut that stands in    *)
(* for an unavailable planner, the execution context, the one bounded read  *)
(* and the answer that is checked against what the read returned            *)
(* (agentic_analyst_planner, conversation_orchestration_service,            *)
(* soc_tools, soc_tool_executor, explainer_service).  A text is a token, a   *)
(* malformed value is Bad, a row id or an address is a token of its kind,    *)
(* and what a model writes is one of Responses or Answers.                   *)
(***************************************************************************)
EXTENDS Naturals, Sequences, FiniteSets, SequencesExt, TLC

CONSTANTS
    TurnScenes,     \* what the submission and the tables hold when the question arrives
    Responses,      \* what the gateway may return to a planning call
    Answers,        \* what the model may write as an answer
    Framing,        \* PLANNER_GATEWAY_FRAMING_CHARS
    PacketLimit,    \* PLANNER_PACKET_MAX_CHARS
    PromptLimit,    \* max_prompt_chars of the planning profile
    PlanLimit,      \* PLANNER_PLAN_MAX_CHARS
    MaxLimit,       \* MAX_PLANNER_EVIDENCE_LIMIT
    MaxEvidence,    \* records an evidence envelope carries
    None, Bad

VARIABLES
    question,       \* the scene of this turn
    known,          \* the entities the tables hold
    stage,          \* where the turn is
    facts,          \* the optional facts the packet carries, by category
    first,          \* the first response, then the repaired one
    second,
    outcome,        \* the PlannerOutcome
    lookup,         \* the tool request, its result and what it returned
    answer          \* the stored answer

turnVars == <<question, known, stage, facts, first, second, outcome, lookup, answer>>

-----------------------------------------------------------------------------
(* The tables of the contract. *)

Contract(least, most, reads, clarifies, capability) ==
    [least |-> least, most |-> most, reads |-> reads, clarifies |-> clarifies, capability |-> capability]

\* Which action may use which strategy, and what such a plan must look like.
Contracts(action, strategy) ==
    CASE <<action, strategy>> = <<"state_summary", "direct_answer">> -> Contract(0, 1, FALSE, FALSE, "quick_explain")
      [] <<action, strategy>> = <<"fresh_evidence_lookup", "quick_evidence_lookup">> -> Contract(0, 1, TRUE, FALSE, "quick_explain")
      [] <<action, strategy>> = <<"evidence_explanation", "direct_answer">> -> Contract(1, 1, FALSE, FALSE, "quick_explain")
      [] <<action, strategy>> = <<"evidence_explanation", "quick_evidence_lookup">> -> Contract(1, 1, TRUE, FALSE, "quick_explain")
      [] <<action, strategy>> = <<"decision_support", "decision_support">> -> Contract(1, 1, FALSE, FALSE, "decision_support")
      [] <<action, strategy>> = <<"artifact_draft", "artifact_draft">> -> Contract(1, 1, FALSE, FALSE, "generate_artifact")
      [] <<action, strategy>> = <<"comparison", "compare_entities">> -> Contract(2, 2, FALSE, FALSE, "deep_investigate")
      [] <<action, strategy>> = <<"bounded_investigation", "bounded_investigation">> -> Contract(1, 1, FALSE, FALSE, "deep_investigate")
      [] <<action, strategy>> = <<"clarification", "clarification_required">> -> Contract(0, 2, FALSE, TRUE, None)
      [] <<action, strategy>> = <<"analyst_correction", "direct_answer">> -> Contract(1, 1, FALSE, FALSE, "quick_explain")
      [] <<action, strategy>> = <<"unsupported", "unsupported_or_boundary">> -> Contract(0, 2, FALSE, FALSE, None)
      [] OTHER -> None

Actions == {"state_summary", "fresh_evidence_lookup", "evidence_explanation", "decision_support", "artifact_draft",
            "comparison", "bounded_investigation", "clarification", "analyst_correction", "unsupported"}

\* The capability of a strategy, whatever the action.
StrategyCapability ==
    [direct_answer |-> "quick_explain", quick_evidence_lookup |-> "quick_explain", decision_support |-> "decision_support",
     artifact_draft |-> "generate_artifact", compare_entities |-> "deep_investigate",
     bounded_investigation |-> "deep_investigate", clarification_required |-> None, unsupported_or_boundary |-> None]

EventCategories == {"events", "authentication_activity", "network_activity", "recon_activity"}

\* The filters a category of evidence understands.
CategoryKeys(category) ==
    CASE category = "alerts" -> {"alert_id", "severity", "alert_type", "source_ip", "destination_ip", "hostname", "username",
                                 "time_window_minutes", "sort", "limit"}
      [] category = "incidents" -> {"incident_id", "severity", "limit"}
      [] category = "source_ip_activity" -> {"source_ip"}
      [] category \in EventCategories -> {"alert_id", "activity_id", "source_ip", "alert_type", "limit"}
      [] category = "response_registry" -> {"registry_id", "source_ip", "limit"}
      [] OTHER -> {}

AllKeys == CategoryKeys("alerts") \cup {"incident_id", "activity_id", "registry_id"}

\* The filter that must name the resolved entity, None where the pair cannot be bound.
BindingKey(type, category) ==
    CASE type = "alert" /\ category \in {"alerts"} \cup EventCategories -> "alert_id"
      [] type = "detection" /\ category = "alerts" -> "alert_id"
      [] type = "incident" /\ category = "incidents" -> "incident_id"
      [] type = "source_ip" /\ category \in {"alerts", "source_ip_activity", "response_registry"} \cup EventCategories -> "source_ip"
      [] type = "recon_activity" /\ category \in EventCategories -> "activity_id"
      [] type = "response_registry" /\ category = "response_registry" -> "registry_id"
      [] OTHER -> None

\* Mutant of BoundKeys: a bound lookup may carry any filter of its category.
BoundKeysOfCategory(type, category) == CategoryKeys(category)

\* What else a bound lookup may filter on.
BoundKeys(type, category) ==
    CASE type = "incident" -> {"incident_id"}
      [] type = "source_ip" /\ category = "source_ip_activity" -> {"source_ip"}
      [] type = "source_ip" /\ category = "response_registry" -> {"source_ip", "limit"}
      [] type = "response_registry" -> {"registry_id", "limit"}
      [] type = "alert" /\ category \in EventCategories -> {"alert_id", "limit"}
      [] type = "source_ip" /\ category \in EventCategories -> {"source_ip", "alert_type", "limit"}
      [] type = "recon_activity" -> {"activity_id"}
      [] OTHER -> CategoryKeys(category)

-----------------------------------------------------------------------------
(* The packet. *)

\* The optional categories, most useful first.
FactOrder == <<"recent_tool_results", "recent_entity_turns", "recent_conclusions", "unresolved_questions", "analyst_corrections",
               "conversation_summary", "recent_turns", "prior_recommendations", "analyst_statements">>

\* The candidates of a thread: turns about an entity come before the others.
Candidates(source) ==
    [c \in Range(FactOrder) |->
        CASE c = "recent_entity_turns" -> SelectSeq(source["recent_turns"], LAMBDA f : f.entity)
          [] c = "recent_turns" -> SelectSeq(source["recent_turns"], LAMBDA f : ~f.entity)
          [] OTHER -> source[c]]

FitsPacket(size) == size <= PacketLimit /\ size + Framing <= PromptLimit

\* The facts of a category are added one by one while the packet still fits.
WithCategory(packet, category, source) ==
    FoldLeft(LAMBDA p, f : IF f.size > 0 /\ FitsPacket(p.size + f.size)
                           THEN [size |-> p.size + f.size, kept |-> [p.kept EXCEPT ![category] = Append(@, f)]]
                           ELSE p,
             packet, Candidates(source)[category])

\* build_planner_packet, given that the mandatory part fits.
Packet(mandatory, source) ==
    FoldLeft(LAMBDA p, c : WithCategory(p, c, source),
             [size |-> mandatory, kept |-> [c \in Range(FactOrder) |-> <<>>]], FactOrder).kept

\* _packet_has_answerable_context
Answerable(kept) ==
    \/ \E c \in {"recent_tool_results", "recent_conclusions", "analyst_corrections", "unresolved_questions",
                 "conversation_summary"} : kept[c] # <<>>
    \/ \E c \in {"recent_entity_turns", "recent_turns"} : \E f \in Range(kept[c]) : f.assistant

-----------------------------------------------------------------------------
(* The validation of a proposal. *)

Required == {"current_turn_intent", "relationship_to_prior_turn", "resolved_entities", "evidence_sufficiency", "required_evidence",
             "proposed_strategy", "proposed_capability", "proposed_tool_categories", "evidence_requirements", "reasoning_summary"}

Optional == {"artifact_type", "referenced_turn_sequence", "clarification_question", "confidence"}

Get(p, field) == IF field \in DOMAIN p THEN p[field] ELSE None

\* A field that holds a usable text.
Given(v) == v # None /\ v # Bad

When(condition, code, field) == IF condition THEN {<<code, field>>} ELSE {}

\* _string_list: the usable items of a list, at most two.
Tools(p) == LET listed == Get(p, "proposed_tool_categories") IN
            IF Given(listed) THEN LET usable == SelectSeq(listed, Given) IN SubSeq(usable, 1, IF Len(usable) < 2 THEN Len(usable) ELSE 2)
                             ELSE <<>>

\* The filters that survive normalisation.
Filters(p) == LET v == Get(p, "evidence_requirements") IN
              IF Given(v) THEN [k \in {j \in DOMAIN v \cap AllKeys : Given(v[j])} |-> v[k]] ELSE [k \in {} |-> None]

\* A filter value of the wrong form; for limit and time window the code adds a bare string.
Malformed(p) == LET v == Get(p, "evidence_requirements") IN IF Given(v) THEN {k \in DOMAIN v \cap AllKeys : v[k] = Bad} ELSE {}

\* _validated_evidence_requirements
RequirementIssues(p) ==
    LET v == Get(p, "evidence_requirements")
        category == IF Len(Tools(p)) = 1 THEN Tools(p)[1] ELSE None IN
    IF ~Given(v) THEN {<<"wrong_type", "evidence_requirements">>}
    ELSE When(DOMAIN v \ AllKeys # {}, "unknown_evidence_filter", "evidence_requirements")
         \cup When((DOMAIN v \cap AllKeys) \ CategoryKeys(category) # {}, "unsupported_evidence_filter", "evidence_requirements")
         \cup When({"hostname", "username"} \subseteq DOMAIN v, "mutually_exclusive_filters", "evidence_requirements")
         \cup When(Malformed(p) \ {"limit", "time_window_minutes"} # {}, "invalid_filter_value", "evidence_requirements")
         \cup When(Malformed(p) \cap {"limit", "time_window_minutes"} # {}, "untyped", None)

\* The entities that survive _validated_planner_entities, with its complaints.
Entities(p) ==
    LET v == Get(p, "resolved_entities")
        item(i) == IF i \in DOMAIN v /\ Given(v[i]) THEN <<v[i]>> ELSE <<>> IN
    IF ~Given(v) \/ Len(v) > 2 THEN <<>> ELSE item(1) \o (IF item(2) = item(1) THEN <<>> ELSE item(2))

EntityIssues(p) ==
    LET v == Get(p, "resolved_entities") IN
    IF ~Given(v) THEN {<<"wrong_type", "resolved_entities">>}
    ELSE IF Len(v) > 2 THEN {<<"entity_cardinality", "resolved_entities">>}
    ELSE When(Bad \in Range(v), "wrong_type", "resolved_entities")
         \cup When(Len(v) = 2 /\ v[1] = v[2] /\ Given(v[1]), "duplicate_entity", "resolved_entities")

\* _entity_evidence_binding_errors: the lookup names the resolved entity and nothing else.
BindingIssues(entity, category, filters) ==
    LET key == BindingKey(entity.type, category) IN
    IF key = None THEN {<<"unsupported_entity_tool_binding", "evidence_requirements">>}
    ELSE IF entity.id = Bad THEN {<<"invalid_entity_identity", "resolved_entities">>}
    ELSE IF key \notin DOMAIN filters THEN {<<"missing_entity_identity", "evidence_requirements">>}
    ELSE IF filters[key] # entity.id THEN {<<"mismatched_entity_identity", "evidence_requirements">>}
    ELSE When(DOMAIN filters \ BoundKeys(entity.type, category) # {}, "unsupported_bound_filter", "evidence_requirements")

\* What is wrong with the shape of the plan: fields, enums and lists.
SchemaIssues(p) ==
    LET listed == Get(p, "proposed_tool_categories")
        evidence == Get(p, "required_evidence")
        turn == Get(p, "referenced_turn_sequence") IN
    When(Required \ DOMAIN p # {}, "missing_required_fields", "$")
    \cup When(DOMAIN p \ (Required \cup Optional) # {}, "unknown_fields", "$")
    \cup When(~Given(Get(p, "relationship_to_prior_turn")), "invalid_enum", "relationship_to_prior_turn")
    \cup When(Get(p, "current_turn_intent") \notin Actions, "invalid_enum", "current_turn_intent")
    \cup When(~Given(Get(p, "evidence_sufficiency")), "invalid_enum", "evidence_sufficiency")
    \cup When(Get(p, "proposed_strategy") \notin DOMAIN StrategyCapability, "invalid_enum", "proposed_strategy")
    \cup When(Get(p, "proposed_capability") = Bad, "wrong_type", "proposed_capability")
    \cup When(~Given(listed), "wrong_type", "proposed_tool_categories")
    \cup When(Given(listed) /\ Bad \in Range(listed), "invalid_list_item", "proposed_tool_categories")
    \cup When(Get(p, "clarification_question") = Bad, "wrong_type", "clarification_question")
    \cup When(Get(p, "artifact_type") = Bad, "wrong_type", "artifact_type")
    \cup When(turn = Bad, "invalid_positive_integer", "referenced_turn_sequence")
    \cup When(~Given(evidence), "wrong_type", "required_evidence")
    \cup When(Given(evidence) /\ Bad \in Range(evidence), "invalid_list_item", "required_evidence")
    \cup When(Given(evidence) /\ Len(evidence) > 6, "list_too_long", "required_evidence")
    \cup When(Get(p, "confidence") = Bad, "invalid_enum", "confidence")
    \cup When(~Given(Get(p, "reasoning_summary")), "missing_nonempty_string", "reasoning_summary")

\* What is wrong with the plan by the contract of its action and strategy.
ContractIssues(p, contract) ==
    LET tools == Tools(p)
        entities == Entities(p)
        evidence == Get(p, "required_evidence")
        question_given == Given(Get(p, "clarification_question")) IN
    When(contract.reads /\ (Len(tools) # 1 \/ Get(p, "evidence_sufficiency") # "insufficient"), "lookup_contract", "proposed_tool_categories")
    \cup When(Len(entities) < contract.least \/ Len(entities) > contract.most, "entity_cardinality", "resolved_entities")
    \cup When(~contract.reads /\ tools # <<>>, "tool_not_allowed", "proposed_tool_categories")
    \cup When(contract.reads /\ DOMAIN Filters(p) = {}, "missing_evidence_requirements", "evidence_requirements")
    \cup When(~contract.reads /\ DOMAIN Filters(p) # {}, "evidence_requirements_not_allowed", "evidence_requirements")
    \cup When(contract.clarifies /\ ~question_given, "missing_clarification_question", "clarification_question")
    \cup When(~contract.clarifies /\ question_given, "clarification_not_allowed", "clarification_question")
    \cup When(contract.reads /\ (Given(evidence) => SelectSeq(evidence, Given) = <<>>), "required_evidence_missing", "required_evidence")

\* What is wrong with how much evidence the plan claims, its artifact and the turn it corrects.
ClaimIssues(p, kept) ==
    LET action == Get(p, "current_turn_intent")
        strategy == Get(p, "proposed_strategy")
        sufficiency == Get(p, "evidence_sufficiency")
        turn == IF Given(Get(p, "referenced_turn_sequence")) THEN Get(p, "referenced_turn_sequence") ELSE None IN
    When(sufficiency = "insufficient" /\ strategy = "direct_answer", "insufficient_direct_answer", "evidence_sufficiency")
    \cup When(sufficiency = "sufficient" /\ strategy # "unsupported_or_boundary" /\ ~Answerable(kept), "ungrounded_sufficiency", "evidence_sufficiency")
    \cup When(sufficiency = "ambiguous" /\ strategy \notin {"clarification_required", "unsupported_or_boundary"},
              "ambiguous_without_clarification", "evidence_sufficiency")
    \cup When(strategy = "clarification_required" /\ sufficiency # "ambiguous", "clarification_sufficiency", "evidence_sufficiency")
    \cup When(strategy = "artifact_draft" /\ ~Given(Get(p, "artifact_type")), "artifact_type_required", "artifact_type")
    \cup When(strategy # "artifact_draft" /\ Given(Get(p, "artifact_type")), "artifact_type_not_allowed", "artifact_type")
    \cup When(action = "analyst_correction" /\ turn = None, "correction_reference_required", "referenced_turn_sequence")
    \cup When(action # "analyst_correction" /\ turn # None, "correction_reference_not_allowed", "referenced_turn_sequence")

\* What is wrong with what the plan says, given the facts the packet carried.
SemanticIssues(p, kept) ==
    LET strategy == Get(p, "proposed_strategy")
        tools == Tools(p)
        entities == Entities(p)
        contract == Contracts(Get(p, "current_turn_intent"), strategy)
        valid == strategy \in DOMAIN StrategyCapability IN
    When(valid /\ contract = None, "action_strategy_incompatible", "proposed_strategy")
    \cup When(valid /\ (IF Given(Get(p, "proposed_capability")) THEN Get(p, "proposed_capability") ELSE None) # StrategyCapability[strategy],
              "strategy_capability_incompatible", "proposed_capability")
    \cup When(Len(tools) > 1, "tool_cardinality", "proposed_tool_categories")
    \cup When(\E t \in Range(tools) : CategoryKeys(t) = {}, "unsupported_tool", "proposed_tool_categories")
    \cup (IF contract = None THEN {} ELSE ContractIssues(p, contract))
    \cup ClaimIssues(p, kept)
    \cup (IF strategy = "quick_evidence_lookup" /\ Len(entities) = 1 /\ Len(tools) = 1
          THEN BindingIssues(entities[1], tools[1], Filters(p)) ELSE {})

\* parse_and_validate_plan; a repair also keeps the action and the preserved fields.
Issues(response, kept, action, preserved) ==
    IF response.plan = None THEN {<<"invalid_json_object", "$">>}
    ELSE IF response.size > PlanLimit THEN {<<"plan_too_large", "$">>}
    ELSE SchemaIssues(response.plan) \cup RequirementIssues(response.plan) \cup EntityIssues(response.plan)
         \cup SemanticIssues(response.plan, kept)
         \cup When(action # None /\ Get(response.plan, "current_turn_intent") # action, "repair_changed_preserved_field", "current_turn_intent")
         \cup UNION {When(Get(response.plan, f) # preserved[f], "repair_changed_preserved_field", f) : f \in DOMAIN preserved}

\* Fields that an issue makes free although it is reported elsewhere.
Invalidated(code) ==
    CASE code = "action_strategy_incompatible" ->
           {"proposed_strategy", "proposed_capability", "evidence_sufficiency", "required_evidence", "proposed_tool_categories",
            "evidence_requirements", "artifact_type", "clarification_question"}
      [] code = "lookup_contract" -> {"evidence_sufficiency", "required_evidence", "proposed_tool_categories", "evidence_requirements"}
      [] code = "strategy_capability_incompatible" -> {"proposed_capability"}
      [] OTHER -> {}

\* _validated_repair_preservation: what the repair may not change.
Preserved(plan, issues) ==
    IF plan = None THEN [f \in {} |-> None]
    ELSE [f \in (DOMAIN plan \cap (Required \cup Optional))
                \ UNION {Invalidated(i[1]) \cup {i[2]} : i \in issues} |-> plan[f]]

\* _candidate_action
CandidateAction(plan) == IF plan # None /\ Get(plan, "current_turn_intent") \in Actions THEN plan.current_turn_intent ELSE None

\* _build_repair_prompt: the proposal, the complaints and the entities fit the profile.
RepairFits(response) == response.size <= PlanLimit /\ question.mandatory + response.size + Framing <= PromptLimit

-----------------------------------------------------------------------------
(* The outcome of planning. *)

Ended(status, plan, repaired, provider, exhausted) ==
    [status |-> status, plan |-> plan, repaired |-> repaired, provider |-> provider, exhausted |-> exhausted]

\* The plan that is executed, from the proposal that passed.
Accepted(p) ==
    [intent |-> p.current_turn_intent, strategy |-> p.proposed_strategy, capability |-> Get(p, "proposed_capability"),
     entities |-> Entities(p), sufficiency |-> p.evidence_sufficiency, tools |-> Tools(p), filters |-> Filters(p),
     turn |-> Get(p, "referenced_turn_sequence")]

\* _planner_explicit_shortcut_allowed; the other statuses of the code's list behave alike.
ShortcutAllowed(o) ==
    /\ o.status = "unavailable"
    /\ ~o.repaired
    /\ o.provider \in {"provider_timeout", "disabled", "budget_exhausted"}
    /\ ~o.exhausted

\* deterministic_shortcut_plan: the button the analyst pressed, on the entity of the page.
Shortcut(capability) ==
    IF question.page = None \/ (capability = "generate_artifact" /\ ~question.artifact)
    THEN Ended("unavailable", None, FALSE, None, FALSE)
    ELSE LET strategy == CASE capability = "quick_explain" -> "direct_answer"
                           [] capability = "deep_investigate" -> "bounded_investigation"
                           [] capability = "decision_support" -> "decision_support"
                           [] OTHER -> "artifact_draft" IN
         Ended("degraded_explicit_hint",
               [intent |-> IF capability = "quick_explain" THEN "evidence_explanation" ELSE strategy,
                strategy |-> strategy, capability |-> capability, entities |-> <<question.page>>,
                sufficiency |-> IF capability = "deep_investigate" THEN "insufficient" ELSE "sufficient",
                tools |-> <<>>, filters |-> [k \in {} |-> None], turn |-> None],
               FALSE, None, FALSE)

\* The end of plan_conversational_submission: the shortcut replaces an outcome without a plan.
Conclude(o) ==
    /\ outcome' = IF o.plan = None /\ question.preferred # None /\ ShortcutAllowed(o) THEN Shortcut(question.preferred) ELSE o
    /\ stage' = "prepare"

NoLookup == [tool |-> None, args |-> [k \in {} |-> None], status |-> None, returned |-> {}, total |-> 0]

NoAnswer == [kind |-> None, ids |-> {}, ips |-> {}]

Init ==
    /\ question \in TurnScenes
    /\ known = question.rows
    /\ stage = "new"
    /\ facts = [c \in Range(FactOrder) |-> <<>>]
    /\ first = None /\ second = None
    /\ outcome = Ended(None, None, FALSE, None, FALSE)
    /\ lookup = NoLookup
    /\ answer = NoAnswer

\* plan_conversational_submission up to the first call: the thread, the earlier submission and the packet.
Submit ==
    /\ stage = "new"
    /\ \/ question.thread = "stale" /\ stage' = "refused" /\ UNCHANGED <<facts, outcome>>
       \/ question.thread = "answered" /\ stage' = "duplicate" /\ UNCHANGED <<facts, outcome>>
       \/ /\ question.thread = "current"
          /\ IF FitsPacket(question.mandatory)
             THEN facts' = Packet(question.mandatory, question.thread_facts) /\ stage' = "plan" /\ UNCHANGED outcome
             ELSE stage' = "prepare" /\ outcome' = Ended("unavailable", None, FALSE, None, FALSE) /\ UNCHANGED facts
    /\ UNCHANGED <<question, known, first, second, lookup, answer>>

\* plan_turn with the first response: exhausted, unavailable, planned, beyond repair, or to be
\* repaired.  A bare string among the issues has no path, and reading it raises.
Propose(r) ==
    LET issues == Issues(r, facts, None, [f \in {} |-> None]) IN
    /\ stage = "plan"
    /\ first' = r
    /\ \/ r.state = "output_exhausted" /\ Conclude(Ended("truncated", None, FALSE, r.status, TRUE))
       \/ /\ r.state # "output_exhausted" /\ r.status # "success"
          /\ Conclude(Ended("unavailable", None, FALSE, r.status, FALSE))
       \/ /\ r.state # "output_exhausted" /\ r.status = "success"
          /\ \/ issues = {} /\ Conclude(Ended("planned", Accepted(r.plan), FALSE, r.status, FALSE))
             \/ <<"untyped", None>> \in issues /\ stage' = "raised" /\ UNCHANGED outcome
             \/ /\ issues # {} /\ <<"untyped", None>> \notin issues
                /\ IF RepairFits(r) THEN stage' = "repair" /\ UNCHANGED outcome
                                    ELSE Conclude(Ended("invalid", None, FALSE, r.status, FALSE))
    /\ UNCHANGED <<question, known, facts, second, lookup, answer>>

\* plan_turn with the response to the repair prompt.
Repair(r) ==
    LET before == Issues(first, facts, None, [f \in {} |-> None])
        issues == Issues(r, facts, CandidateAction(first.plan), Preserved(first.plan, before)) IN
    /\ stage = "repair"
    /\ second' = r
    /\ \/ r.state = "output_exhausted" /\ Conclude(Ended("truncated", None, TRUE, r.status, TRUE))
       \/ /\ r.state # "output_exhausted" /\ r.status # "success"
          /\ Conclude(Ended("unavailable", None, TRUE, r.status, FALSE))
       \/ /\ r.state # "output_exhausted" /\ r.status = "success"
          /\ \/ issues = {} /\ Conclude(Ended("planned", Accepted(r.plan), TRUE, r.status, FALSE))
             \/ <<"untyped", None>> \in issues /\ stage' = "raised" /\ UNCHANGED outcome
             \/ issues # {} /\ <<"untyped", None>> \notin issues /\ Conclude(Ended("invalid", None, TRUE, r.status, FALSE))
    /\ UNCHANGED <<question, known, facts, first, lookup, answer>>

-----------------------------------------------------------------------------
(* The execution of the plan. *)

\* The identity fields of the execution context: the entity's own, never the page's.
Context(plan) ==
    IF plan.entities = <<>> THEN [k \in {} |-> None]
    ELSE LET e == plan.entities[1]
             own == CASE e.type \in {"alert", "detection"} -> {<<"alert_id", e.id>>}
                      [] e.type = "incident" -> {<<"incident_id", e.id>>}
                      [] e.type = "source_ip" -> {<<"source_ip", e.id>>}
                      [] e.type = "recon_activity" -> {<<"activity_id", e.id>>}
                      [] e.type = "response_registry" -> {<<"registry_id", e.id>>}
                      [] e.type = "investigation" -> {<<"investigation_id", e.id>>} \cup question.linked
                      [] OTHER -> {}
             address == IF e.type \in {"alert", "detection", "incident"} THEN {<<"source_ip", question.address[e]>>} ELSE {}
             fields == own \cup {f \in address : f[2] # None} IN
         [k \in {f[1] : f \in fields} |-> (CHOOSE f \in fields : f[1] = k)[2]]

Present(filters, k) == k \in DOMAIN filters

Pick(filters, keys) == [k \in keys \cap DOMAIN filters |-> filters[k]]

\* The first of the keys that is given, as a one-field argument list.
FirstOf(filters, keys) ==
    LET at == {i \in DOMAIN keys : keys[i] \in DOMAIN filters} IN
    IF at = {} THEN [k \in {} |-> None] ELSE Pick(filters, {keys[CHOOSE i \in at : \A j \in at : i <= j]})

\* A read's arguments: what it is bound to, and the filters that may go along.
With(bound, more) == [k \in DOMAIN bound \cup DOMAIN more |-> IF k \in DOMAIN bound THEN bound[k] ELSE more[k]]

Call(tool, args) == [tool |-> tool, args |-> args]

\* _planner_tool_request: the one bounded read of a plan, None where there is nothing to ask for.
ToolRequest(category, filters, context) ==
    CASE category = "alerts" -> Call("search_alerts", filters)
      [] category = "incidents" ->
           IF Present(filters, "incident_id") THEN Call("get_incident_timeline", Pick(filters, {"incident_id"}))
           ELSE Call("search_incidents", Pick(filters, {"severity", "limit"}))
      [] category = "source_ip_activity" ->
           LET args == IF Present(filters, "source_ip") THEN filters ELSE Pick(context, {"source_ip"}) IN
           IF args = [k \in {} |-> None] THEN None ELSE Call("get_source_ip_context", args)
      [] category = "response_registry" ->
           LET bound == FirstOf(filters, <<"registry_id", "source_ip">>)
               args == With(IF DOMAIN bound # {} THEN bound ELSE Pick(context, {"registry_id", "source_ip"}), Pick(filters, {"limit"})) IN
           IF DOMAIN args = {} THEN None ELSE Call("get_response_registry_context", args)
      [] OTHER ->
           LET bound == FirstOf(filters, <<"alert_id", "activity_id", "source_ip">>)
               around == FirstOf(context, <<"source_ip", "alert_id", "activity_id">>)
               args == With(IF DOMAIN bound # {} THEN bound ELSE around, Pick(filters, {"alert_type", "limit"})) IN
           IF \/ DOMAIN bound = {} /\ Present(filters, "alert_type") /\ ~Present(context, "source_ip")
              \/ DOMAIN args = {}
           THEN None ELSE Call("get_related_events", args)

\* validate_conversation_entity, for the plan's entities and the address of the active one.
Validated(plan) ==
    /\ Range(plan.entities) \subseteq known
    /\ plan.intent = "analyst_correction" =>
           \E i \in question.inferences : i.turn = plan.turn /\ i.entity \in {None, plan.entities[1]}

\* _prepare_submission: a plan that asks or refuses is answered at once, any other is validated
\* against the tables and turned into a request.
Prepare ==
    LET plan == outcome.plan IN
    /\ stage = "prepare"
    /\ IF plan = None
       THEN stage' = "answered" /\ answer' = [NoAnswer EXCEPT !.kind = "message"] /\ UNCHANGED lookup
       ELSE IF ~Validated(plan) THEN stage' = "refused" /\ UNCHANGED <<lookup, answer>>
       ELSE IF plan.strategy \in {"clarification_required", "unsupported_or_boundary"}
       THEN stage' = "answered" /\ answer' = [NoAnswer EXCEPT !.kind = "message"] /\ UNCHANGED lookup
       ELSE IF plan.strategy # "quick_evidence_lookup"
       THEN /\ stage' = IF plan.capability = "quick_explain" THEN "execute" ELSE "delegated"
            /\ UNCHANGED <<lookup, answer>>
       ELSE LET request == ToolRequest(plan.tools[1], plan.filters, Context(plan)) IN
            IF request = None THEN stage' = "refused" /\ UNCHANGED <<lookup, answer>>
            ELSE stage' = "lookup" /\ lookup' = [NoLookup EXCEPT !.tool = request.tool, !.args = request.args] /\ UNCHANGED answer
    /\ UNCHANGED <<question, known, facts, first, second, outcome>>

\* validate_tool_args, for the tools a plan can name.
ArgumentsValid(tool, args) ==
    CASE tool = "get_related_events" -> DOMAIN args \cap {"alert_id", "activity_id", "source_ip"} # {}
      [] tool = "get_response_registry_context" -> DOMAIN args \cap {"registry_id", "source_ip"} # {}
      [] OTHER -> TRUE

\* The filters a tool really applies: events are read by alert, else by address, else by activity.
Applied(tool, args) ==
    IF tool = "get_related_events"
    THEN IF Present(args, "alert_id") THEN Pick(args, {"alert_id"})
         ELSE IF Present(args, "source_ip") THEN Pick(args, {"source_ip", "alert_type"})
         ELSE Pick(args, {"activity_id"})
    ELSE IF tool = "get_response_registry_context"
    THEN FirstOf(args, <<"registry_id", "source_ip">>)
    ELSE Pick(args, DOMAIN args \ {"limit", "sort"})

TableOf(tool) ==
    CASE tool \in {"search_alerts", "get_source_ip_context"} -> "alert"
      [] tool = "get_related_events" -> "event"
      [] tool \in {"search_incidents", "get_incident_timeline"} -> "incident"
      [] OTHER -> "registry"

Matching(tool, args) ==
    LET by == Applied(tool, args) IN
    {r \in question.records : /\ r.table = TableOf(tool)
                              /\ \A k \in DOMAIN by : k \in DOMAIN r.keys /\ r.keys[k] = by[k]
                              /\ \A e \in question.rows \ known : e.type = r.table => e.id # r.id}

\* The row a read by id starts from is gone.
Gone(tool, args) ==
    \/ tool = "get_related_events" /\ Present(args, "alert_id") /\ [type |-> "alert", id |-> args["alert_id"]] \notin known
    \/ tool = "get_incident_timeline" /\ [type |-> "incident", id |-> args["incident_id"]] \notin known

\* execute_tool: refused for a role, invalid, failed, not found, or the newest records up to the
\* limit; a context too large to be kept whole is reported as truncated and not as a success.
Lookup(status) ==
    LET matching == Matching(lookup.tool, lookup.args)
        size == IF Present(lookup.args, "limit") THEN lookup.args["limit"] ELSE MaxLimit IN
    /\ stage = "lookup"
    /\ IF question.role \notin {"analyst", "super_admin"} THEN status = "forbidden"
       ELSE IF ~ArgumentsValid(lookup.tool, lookup.args) THEN status = "validation_error"
       ELSE \/ status = "failed"
            \/ status = IF Gone(lookup.tool, lookup.args) THEN "not_found" ELSE "success"
            \/ status = "truncated" /\ lookup.tool = "get_source_ip_context"
    /\ \E returned \in IF status \in {"success", "truncated"}
                       THEN {m \in SUBSET matching : Cardinality(m) <= size /\ (m # matching => Cardinality(m) = size)} ELSE {{}} :
          lookup' = [lookup EXCEPT !.status = status, !.returned = returned,
                                   !.total = IF lookup.tool = "search_alerts" THEN Cardinality(matching) ELSE Cardinality(returned)]
    /\ stage' = "execute"
    /\ UNCHANGED <<question, known, facts, first, second, outcome, answer>>

-----------------------------------------------------------------------------
(* The answer. *)

\* _build_evidence_envelope: the records the answer may rest on.  An incident's timeline and a
\* registry entry read by id hold no list and no record field, so nothing of them is seen.
Envelope(records) ==
    LET hidden == lookup.tool = "get_incident_timeline"
                  \/ (lookup.tool = "get_response_registry_context" /\ Present(lookup.args, "registry_id")) IN
    IF lookup.status # "success" THEN [success |-> FALSE, count |-> 0, records |-> {}]
    ELSE [success |-> TRUE, count |-> IF hidden THEN 0 ELSE lookup.total, records |-> IF hidden THEN {} ELSE records]

Addresses(records) == {r.keys["source_ip"] : r \in {q \in records : "source_ip" \in DOMAIN q.keys}}

AllowedAddresses(envelope) == Addresses(envelope.records) \cup {lookup.args[k] : k \in DOMAIN lookup.args \cap {"source_ip", "destination_ip"}}

\* _response_mode
ResponseMode ==
    IF outcome.plan.strategy = "decision_support" THEN "prioritization"
    ELSE IF lookup.tool = None THEN IF outcome.plan.strategy = "direct_answer" THEN "conversation_state" ELSE "context_answer"
    ELSE IF lookup.tool = "search_alerts"
    THEN LET substantive == Present(lookup.args, "severity") \/ Present(lookup.args, "alert_type") IN
         IF Present(lookup.args, "source_ip") /\ ~substantive /\ ~Present(lookup.args, "time_window_minutes") THEN "source_ip_lookup"
         ELSE IF Present(lookup.args, "time_window_minutes") /\ ~substantive /\ ~Present(lookup.args, "source_ip") THEN "time_window_lookup"
         ELSE "alert_lookup"
    ELSE IF Present(lookup.args, "source_ip") THEN "source_ip_lookup" ELSE "evidence_lookup"

\* Mutant of Rejected: the ids an answer names are not compared with the returned ones.
RejectedByAddress(a, envelope) == (a.ids = {} /\ a.ips = {}) \/ a.ips \ AllowedAddresses(envelope) # {}

\* _grounding_rejection: a named address or id that was not returned, a missing identity, or nothing concrete.
Rejected(a, envelope) ==
    LET ids == {r.id : r \in envelope.records} IN
    \/ a.ids = {} /\ a.ips = {}
    \/ a.ips \ AllowedAddresses(envelope) # {}
    \/ a.ids \ ids # {}
    \/ ResponseMode = "alert_lookup" /\ ids # {} /\ a.ids = {}
    \/ ResponseMode = "source_ip_lookup" /\ Present(lookup.args, "source_ip") /\ lookup.args["source_ip"] \notin a.ips

\* _compose_evidence_answer: a sentence about each of the first three records.
Composed(envelope, shown) ==
    IF envelope.count = 0 THEN [kind |-> "no_match", ids |-> {}, ips |-> {}]
    ELSE [kind |-> "composed", ids |-> {r.id : r \in shown}, ips |-> AllowedAddresses([envelope EXCEPT !.records = shown])]

\* _normalize_grounded_answer
Normalized(a, envelope, shown) ==
    IF ResponseMode = "conversation_state" THEN [kind |-> "state", ids |-> {}, ips |-> {}]
    ELSE IF ~envelope.success THEN [kind |-> "ungrounded", ids |-> a.ids, ips |-> a.ips]
    ELSE IF envelope.count = 0 \/ Rejected(a, envelope) THEN Composed(envelope, shown)
    ELSE [kind |-> "grounded", ids |-> a.ids, ips |-> a.ips]

\* _answer_from_context: without context, evidence or thread state there is no call; without room
\* in the prompt there is none either; a failed generation stores no answer.
Explain(a, fits, generated) ==
    /\ stage = "execute"
    /\ \E records \in {m \in SUBSET lookup.returned : Cardinality(m) <= MaxEvidence /\ (m # lookup.returned => Cardinality(m) = MaxEvidence)} :
       \E shown \in {m \in SUBSET records : Cardinality(m) <= 3 /\ (m # records => Cardinality(m) = 3)} :
          LET envelope == Envelope(records)
              state == outcome.plan.strategy = "direct_answer" /\ outcome.plan.intent = "state_summary" /\ Answerable(facts) IN
          IF question.bare /\ ~envelope.success /\ ~state
          THEN answer' = [NoAnswer EXCEPT !.kind = "insufficient_context"] /\ stage' = "answered"
          ELSE IF ~fits
          THEN /\ answer' = IF envelope.success THEN Composed(envelope, shown) ELSE [NoAnswer EXCEPT !.kind = "insufficient_context"]
               /\ stage' = "answered"
          ELSE IF ~generated THEN stage' = "failed" /\ UNCHANGED answer
          ELSE answer' = Normalized(a, envelope, shown) /\ stage' = "answered"
    /\ UNCHANGED <<question, known, facts, first, second, outcome, lookup>>

\* Another user removes or closes one of the rows, between planning and execution.
Vanish(e) ==
    /\ known = question.rows
    /\ stage \in {"plan", "repair", "prepare", "lookup"}
    /\ known' = known \ {e}
    /\ UNCHANGED <<question, stage, facts, first, second, outcome, lookup, answer>>

Next ==
    \/ Submit
    \/ \E r \in Responses : Propose(r) \/ Repair(r)
    \/ Prepare
    \/ \E status \in {"success", "truncated", "failed", "not_found", "forbidden", "validation_error"} : Lookup(status)
    \/ \E a \in Answers, fits, generated \in BOOLEAN : Explain(a, fits, generated)
    \/ \E e \in known : Vanish(e)

Spec == Init /\ [][Next]_turnVars

-----------------------------------------------------------------------------
(* Properties. *)

\* Whatever filters the model proposed, each record the bounded read returns belongs to the entity
\* the plan resolved: the binding the validator demands is the one the tool obeys.
LookupStaysOnEntity ==
    outcome.plan # None /\ lookup.tool # None /\ outcome.plan.entities # <<>> =>
        LET e == outcome.plan.entities[1]
            key == BindingKey(e.type, outcome.plan.tools[1]) IN
        \A r \in lookup.returned : key \in DOMAIN r.keys /\ r.keys[key] = e.id

\* After a successful read the stored answer names no id and no address that the read did not
\* return or was not asked for, whether the model, the composer or the fallback wrote it.
AnswerIsGrounded ==
    stage = "answered" /\ lookup.status = "success" =>
        /\ answer.ids \subseteq {r.id : r \in lookup.returned}
        /\ answer.ips \subseteq Addresses(lookup.returned)
                                \cup {lookup.args[k] : k \in DOMAIN lookup.args \cap {"source_ip", "destination_ip"}}

=============================================================================
