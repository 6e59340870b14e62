----------------------------- MODULE MCResponses -----------------------------
(***************************************************************************)
(* One instance for what a response goes through on its way out: the        *)
(* steps of the playbooks that decide on it, the delivery of a notification *)
(* with its dead letters, the breaker and the window an adapter asks, and   *)
(* the response commands on an address.  A step meets the others only as    *)
(* one that succeeds or fails, so a behaviour is a behaviour of one part    *)
(* while the others stay as they began.                                     *)
(***************************************************************************)
EXTENDS NotificationDelivery, AdapterState, RegistryState, TLC

CONSTANTS Playbooks, Drafts, Content, Alerts, MaxChainDepth, MaxRuns, MaxRequests, MaxRollbacks

\* A chain is as long as a number, there are finitely many playbooks, and no execution's id means none.
ASSUME ChainAssumption == MaxChainDepth \in Nat /\ IsFiniteSet(Playbooks) /\ None \notin Nat
\* What is submitted for a playbook is a definition there is, and its steps are a list.
ASSUME ContentAssumption ==
    /\ \A b \in Playbooks : Drafts[b] \subseteq DOMAIN Content
    /\ \A d \in DOMAIN Content : Len(Content[d].steps) \in Nat /\ DOMAIN Content[d].steps = 1 .. Len(Content[d].steps)

VARIABLES part,
          definition, alert, run, pass, requests, rollbacks, arrived

G == INSTANCE AdapterGuard
C == INSTANCE ResponseCommands
P == INSTANCE PlaybookSteps

guardVars == <<breaker, bucket, calls, contacts, now, made, controls>>
commandVars == <<registry, blocks, past, incidents, events, holder, session, commands, changes, repeated>>

stepVars == <<definition, alert, run, pass, requests, rollbacks, arrived>>

-----------------------------------------------------------------------------
(* Three playbooks that trigger each other in a circle, with branches over  *)
(* and behind a gate; a definition whose branch goes backward is refused.   *)

Step(action) == [action |-> action, label |-> None, condition |-> None, goto_true |-> None, goto_false |-> None,
                 playbook |-> None, source_ip |-> None, on_failure |-> "abort", refused |-> "fail"]
If(source, field, op, value, yes, no) ==
    [Step("branch") EXCEPT !.condition = [source |-> source, field |-> field, op |-> op, value |-> value], !.goto_true = yes, !.goto_false = no]
Start(b) == [Step("trigger_playbook") EXCEPT !.playbook = b]
Gate(label, refused) == [Step("require_approval") EXCEPT !.label = label, !.refused = refused]
Book(trigger, steps) == [trigger |-> trigger, steps |-> steps]
Block(ip) == [Step("block_ip") EXCEPT !.source_ip = ip, !.on_failure = "continue"]
SmallContent == [
  contain |-> Book([min_severity |-> "high", exclude_alert_types |-> {"scan"}],
    <<If("alert", "severity", ">=", "high", "ask", None), [Step("monitor") EXCEPT !.source_ip = "alert.source_ip"], Gate("ask", "branch"),
      If("approval", "status", "==", "approved", "go", "told"), [Start("investigate") EXCEPT !.label = "go"], [Step("notify_teams") EXCEPT !.label = "told"]>>),
  strict |-> Book([reputation_score_min |-> 1, source |-> "pfsense"],
    <<Block("alert.source_ip"), If("previous_step", "status", "!=", "success", "end", None), Gate(None, "fail"), [Start("investigate") EXCEPT !.label = "end"]>>),
  backward |-> Book([alert_type |-> "scan"], <<[Step("monitor") EXCEPT !.label = "back"], If("alert", "reputation_score", "<", 5, "back", None)>>),
  investigate |-> Book([alert_type |-> "scan"], <<Step("enrich_context"), Start("report")>>),
  report |-> Book([correlation_flag |-> TRUE], <<If("alert", "reputation_score", "<", 5, "again", "again"), [Start("contain") EXCEPT !.label = "again"]>>)]
SmallDrafts == [contain |-> {"contain", "strict", "backward"}, investigate |-> {"investigate"}, report |-> {"report"}]
SmallAlerts == {[alert_type |-> "correlated_activity", severity |-> "high", source |-> "pfsense", reputation_score |-> None, source_ip |-> "public"],
                [alert_type |-> "scan", severity |-> "low", source |-> "pfsense", reputation_score |-> 7, source_ip |-> None]}
-----------------------------------------------------------------------------
\* A part that stays idle begins in one of its initial states.
AllInit ==
    /\ part \in {"delivery", "guard", "commands", "steps"} /\ Init /\ G!Init /\ C!Init /\ P!Init
    /\ part # "steps" => alert = CHOOSE a \in Alerts : TRUE
    /\ part # "steps" => definition["contain"].draft = "contain"

AllNext ==
    \/ part = "delivery" /\ Next /\ UNCHANGED <<part, guardVars, commandVars, stepVars>>
    \/ part = "guard" /\ G!Next /\ UNCHANGED <<part, vars, commandVars, stepVars>>
    \/ part = "commands" /\ C!Next /\ UNCHANGED <<part, vars, guardVars, stepVars>>
    \/ part = "steps" /\ P!Next /\ UNCHANGED <<part, vars, guardVars, commandVars>>

AllSpec == AllInit /\ [][AllNext]_<<part, vars, guardVars, commandVars, stepVars>>

\* Workers, concurrent requests and playbooks have no order; execution ids do.
Interchangeable == Permutations(Workers) \cup Permutations(Operators) \cup Permutations(Books)
-----------------------------------------------------------------------------
(* The properties of the parts. *)

\* Playbooks that trigger one another end.
ChainIsAcyclic == P!ChainIsAcyclic

\* Every step of an execution is accounted for exactly once.
EveryStepAccounted == P!EveryStepAccounted
=============================================================================
