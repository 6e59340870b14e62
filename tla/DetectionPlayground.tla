------------------------ MODULE DetectionPlayground ------------------------
(***************************************************************************)
(* The detection simulator (engines/detection_simulator.py) and the Sigma   *)
(* import in front of it (engines/sigma_playground.py).                     *)
(*                                                                          *)
(* In the playground an analyst writes a condition over named selections,   *)
(* token by token, and submits it with pasted events: the condition is      *)
(* parsed and compiled into a temporary rule, the rule is validated and     *)
(* evaluated, and the stages are reported.  The simulation of a production  *)
(* rule is in ProductionSimulation.                                         *)
(*                                                                          *)
(* Field values are atoms, so `contains', `starts_with' and `ends_with' are *)
(* left out.  YAML reading and the per-source parsers either give an event  *)
(* or refuse an item.                                                       *)
(***************************************************************************)
EXTENDS ProductionSimulation, Sequences, FiniteSets
LOCAL INSTANCE FiniteSetsExt

CONSTANTS MaxTokens,     \* bound on the length of a condition
          MaxDepth,      \* MAX_TEMP_PREDICATE_DEPTH (8)
          MaxNodes,      \* MAX_TEMP_PREDICATE_NODES (64)
          Rules,         \* what surrounds the condition of a Sigma rule
          Batches        \* pasted events

VARIABLES tokens, report
playVars == <<mode, tokens, report, history, open, sim>>

Names == {"a", "b"}
Token == Names \cup {"not", "and", "or", "(", ")"}
-----------------------------------------------------------------------------
(* The condition: class _ConditionParser.  A parse gives a tree and what is *)
(* left of the tokens.                                                      *)

Bad == [ok |-> FALSE, tree |-> Absent, rest |-> <<>>]
Good(tree, rest) == [ok |-> TRUE, tree |-> tree, rest |-> rest]
Peek(s) == IF s = <<>> THEN "end" ELSE Head(s)
Tree(op, kids) == [op |-> op, kids |-> kids]
Selection(name) == [op |-> "selection", kids |-> <<>>, name |-> name]
Joined(op, nodes) == IF Len(nodes) = 1 THEN nodes[1] ELSE Tree(op, nodes)

RECURSIVE ParseOr(_), ParseAnd(_), ParseNot(_), MoreOr(_, _), MoreAnd(_, _)

\* _parse_primary
ParsePrimary(s) ==
    CASE Peek(s) = "(" -> LET r == ParseOr(Tail(s)) IN
                          IF r.ok /\ Peek(r.rest) = ")" THEN Good(r.tree, Tail(r.rest)) ELSE Bad
      [] Peek(s) \in Names -> Good(Selection(Head(s)), Tail(s))
      [] OTHER -> Bad
\* _parse_not
ParseNot(s) ==
    IF Peek(s) # "not" THEN ParsePrimary(s)
    ELSE LET r == ParseNot(Tail(s)) IN IF r.ok THEN Good(Tree("not", <<r.tree>>), r.rest) ELSE Bad
\* _parse_and and its loop
MoreAnd(nodes, s) ==
    IF Peek(s) # "and" THEN Good(Joined("all", nodes), s)
    ELSE LET r == ParseNot(Tail(s)) IN IF r.ok THEN MoreAnd(Append(nodes, r.tree), r.rest) ELSE Bad
ParseAnd(s) == LET r == ParseNot(s) IN IF r.ok THEN MoreAnd(<<r.tree>>, r.rest) ELSE Bad

\* Mutant of MoreOr: what follows an `or' is one operand, not a conjunction.
MoreOrFlat(nodes, s) ==
    IF Peek(s) # "or" THEN Good(Joined("any", nodes), s)
    ELSE LET r == ParseNot(Tail(s)) IN
         IF ~r.ok THEN Bad ELSE MoreAnd(<<Joined("any", Append(nodes, r.tree))>>, r.rest)

\* _parse_or and its loop
MoreOr(nodes, s) ==
    IF Peek(s) # "or" THEN Good(Joined("any", nodes), s)
    ELSE LET r == ParseAnd(Tail(s)) IN IF r.ok THEN MoreOr(Append(nodes, r.tree), r.rest) ELSE Bad
ParseOr(s) == LET r == ParseAnd(s) IN IF r.ok THEN MoreOr(<<r.tree>>, r.rest) ELSE Bad

\* parse: nothing may be left.
Parse(s) == LET r == ParseOr(s) IN IF r.ok /\ r.rest = <<>> THEN r ELSE Bad
-----------------------------------------------------------------------------
(* Compilation and validation of the temporary rule.                        *)

\* TEMPORARY_RULE_ALLOWED_FIELDS_BY_SOURCE, _GROUPABLE_FIELDS_BY_SOURCE and
\* _SUPPORTED_INPUT_FORMATS.
Fields ==
    [honeypot |-> {"source_ip", "username", "event_type", "severity"},
     bank_app |-> {"source_ip", "username", "event_type", "event_outcome", "severity"},
     pfsense |-> {"source_ip", "destination_ip", "destination_port", "event_type", "action", "severity"},
     nginx |-> {"source_ip", "event_type", "http_status", "severity"},
     azure_insights |-> {"source_ip", "username", "event_type", "event_outcome", "http_status", "severity"},
     opentelemetry |-> {"source_ip", "event_type", "http_status", "severity"}]
Groupable(source) == Fields[source] \cap {"source_ip", "username", "destination_ip", "destination_port"}
Formats(source) == CASE source = "nginx" -> {"raw_text"}
                     [] source = "pfsense" -> {"raw_text", "json_lines", "json_array"}
                     [] OTHER -> {"json_lines", "json_array"}
Numeric == {"destination_port", "http_status"}

\* _compile_field_predicate: a value is matched exactly, a list by membership.  A leaf is a
\* field and the set of values it accepts.
Leaf(field, values) == [op |-> "leaf", kids |-> <<>>, field |-> field, values |-> values]
\* _compile_selection
CompileSelection(r, name) ==
    LET sel == r.selections[name]
        leaf(n) == Leaf(sel[n].field, sel[n].values)
    IN Joined("all", [n \in DOMAIN sel |-> leaf(n)])
\* _resolve_condition_tree
RECURSIVE Resolve(_, _)
Resolve(r, node) ==
    IF node.op = "selection" THEN CompileSelection(r, node.name)
    ELSE Tree(node.op, [n \in DOMAIN node.kids |-> Resolve(r, node.kids[n])])

\* _validate_predicate_node
RECURSIVE Depth(_), Nodes(_), Leaves(_)
Depth(node) == 1 + (IF node.kids = <<>> THEN 0 ELSE Max({Depth(node.kids[n]) : n \in DOMAIN node.kids}))
Nodes(node) == 1 + MapThenSumSet(LAMBDA n : Nodes(node.kids[n]), DOMAIN node.kids)
Leaves(node) == IF node.op = "leaf" THEN {node} ELSE UNION {Leaves(node.kids[n]) : n \in DOMAIN node.kids}
PredicateOk(r, node) ==
    /\ Nodes(node) <= MaxNodes /\ Depth(node) <= MaxDepth
    /\ \A leaf \in Leaves(node) : leaf.field \in Fields[r.source]
\* map_field_alias: a selection over a field the source lacks is refused, used or not.
SelectionsOk(r) == \A name \in DOMAIN r.selections : \A n \in DOMAIN r.selections[name] :
                      r.selections[name][n].field \in Fields[r.source]
\* _validate_temporary_rule_contract
RuleOk(r) == r.source \in DOMAIN Fields /\ r.format \in Formats(r.source) /\ r.groupBy \in Groupable(r.source)
-----------------------------------------------------------------------------
(* Evaluation.                                                              *)

\* _extract_temporary_rule_field
Extract(event, field) == IF field \in DOMAIN event.fields THEN event.fields[field] ELSE Absent
\* _evaluate_temporary_predicate; a field the event lacks matches nothing.
RECURSIVE Evaluate(_, _)
Evaluate(node, event) ==
    CASE node.op = "leaf" -> Extract(event, node.field) # Absent /\ Extract(event, node.field) \in node.values
      [] node.op = "all" -> \A n \in DOMAIN node.kids : Evaluate(node.kids[n], event)
      [] node.op = "any" -> \E n \in DOMAIN node.kids : Evaluate(node.kids[n], event)
      [] node.op = "not" -> ~Evaluate(node.kids[1], event)

Timed(E) == \A e \in E : e.time # Absent
\* The events of a group in the window before its latest one; all, when one has no time.
InWindow(E, window) ==
    IF Timed(E) THEN {e \in E : e.time >= Max({f.time : f \in E}) - window} ELSE E

\* _run_temporary_pipeline: the events of the batch that count, grouped, the largest group first.
Evaluated(r, node, batch) ==
    LET candidates == {e \in batch : r.eventType = Absent \/ e.type = r.eventType}
        matching == {e \in candidates : Evaluate(node, e) /\ Extract(e, r.groupBy) # Absent}
        groups == {Extract(e, r.groupBy) : e \in matching}
        of(g) == InWindow({e \in matching : Extract(e, r.groupBy) = g}, r.window)
        size(g) == Cardinality(of(g))
        top == CHOOSE g \in groups : \A h \in groups : size(h) <= size(g)
    IN CASE groups = {} -> [outcome |-> "no_match", group |-> Absent, observed |-> 0]
         [] size(top) < r.threshold -> [outcome |-> "no_match", group |-> top, observed |-> size(top)]
         \* The group's events are looked up by its text, so a number finds none, and the
         \* preview's INSERT lacks the address it must have.
         [] r.groupBy \in Numeric -> [outcome |-> "error", group |-> top, observed |-> size(top)]
         [] OTHER -> [outcome |-> "alert", group |-> top, observed |-> size(top)]

Refusal(why) == [outcome |-> why, group |-> Absent, observed |-> 0]
\* _run_sigma_subset_simulation, into _run_temporary_rule_simulation.
Simulated(r, s, batch) ==
    IF ~SelectionsOk(r) \/ ~Parse(s).ok THEN Refusal("not_compiled")
    ELSE LET node == Resolve(r, Parse(s).tree)
             parsed == {e \in batch : e.parses}
         IN CASE ~RuleOk(r) \/ ~PredicateOk(r, node) -> Refusal("rule_refused")
              [] parsed = {} -> Refusal("parser_failed")
              [] OTHER -> Evaluated(r, node, parsed)

Write(token) ==
    /\ mode = "playground" /\ report = Absent /\ Len(tokens) < MaxTokens
    /\ tokens' = Append(tokens, token)
    /\ UNCHANGED <<mode, report, history, open, sim>>
Submit(r, batch) ==
    /\ mode = "playground" /\ report = Absent
    /\ report' = [Simulated(r, tokens, batch) EXCEPT !.outcome = <<@, r, batch>>]
    /\ UNCHANGED <<mode, tokens, history, open, sim>>
Init == SimInit /\ tokens = <<>> /\ report = Absent

Next ==
    \/ \E token \in Token : Write(token)
    \/ \E r \in Rules, batch \in Batches : Submit(r, batch)
    \/ SimNext /\ UNCHANGED <<tokens, report>>

Spec == Init /\ [][Next]_playVars
-----------------------------------------------------------------------------
(* What a condition means, read from its loosest connective.                *)

\* Parentheses that are open before place i.
Nesting(s, i) == Cardinality({j \in 1 .. i - 1 : s[j] = "("}) - Cardinality({j \in 1 .. i - 1 : s[j] = ")"})
RECURSIVE Meaning(_, _)
Meaning(s, True) ==
    LET at(op) == {i \in DOMAIN s : s[i] = op /\ Nesting(s, i) = 0}
        around(op) == <<Meaning(SubSeq(s, 1, Max(at(op)) - 1), True), Meaning(SubSeq(s, Max(at(op)) + 1, Len(s)), True)>>
        value(p) == IF p THEN "true" ELSE "false"
    IN CASE s = <<>> -> "bad"
         [] at("or") # {} -> LET m == around("or") IN
              IF "bad" \in {m[1], m[2]} THEN "bad" ELSE value("true" \in {m[1], m[2]})
         [] at("or") = {} /\ at("and") # {} -> LET m == around("and") IN
              IF "bad" \in {m[1], m[2]} THEN "bad" ELSE value({m[1], m[2]} = {"true"})
         [] at("or") = {} /\ at("and") = {} /\ s # <<>> ->
              CASE s[1] = "not" -> LET m == Meaning(Tail(s), True) IN IF m = "bad" THEN "bad" ELSE value(m = "false")
                [] s[1] = "(" /\ s[Len(s)] = ")" /\ Len(s) > 1 -> Meaning(SubSeq(s, 2, Len(s) - 1), True)
                [] s[1] \in Names /\ Len(s) = 1 -> value(s[1] \in True)
                [] OTHER -> "bad"

\* The selections an event satisfies.
Satisfied(r, e) ==
    {name \in Names : \A n \in DOMAIN r.selections[name] :
        Extract(e, r.selections[name][n].field) \in r.selections[name][n].values \ {Absent}}

\* What the playground reports for a condition and a batch is what the condition means:
\* an alert is previewed exactly if as many events of one group as the threshold asks
\* satisfy it within the window, and a condition that means nothing is not compiled.
\* Grouping by a number fails instead, and a rule past the limits is refused.
PreviewIsTheMeaning ==
    report # Absent =>
      LET what == report.outcome[1]
          r == report.outcome[2]
          batch == report.outcome[3]
          holds == {e \in batch : /\ e.parses /\ r.eventType \in {Absent, e.type}
                                  /\ Meaning(tokens, Satisfied(r, e)) = "true"
                                  /\ r.groupBy \in DOMAIN e.fields}
          enough == \E e \in holds : LET E == {f \in holds : f.fields[r.groupBy] = e.fields[r.groupBy]} IN
                       Cardinality(IF Timed(E) THEN {f \in E : \A g \in E : g.time - f.time <= r.window} ELSE E) >= r.threshold
      IN /\ Meaning(tokens, {}) = "bad" => what = "not_compiled"
         /\ what \in {"alert", "error"} => enough
         /\ what = "alert" => r.groupBy \notin Numeric
         /\ what = "no_match" => ~enough
=============================================================================
