------------------------------ MODULE MCRecords ------------------------------
(***************************************************************************)
(* One instance for the three stores that keep records about an alert:      *)
(* ResponseOutcomes, Cases and Workspaces.  They share no table, so a       *)
(* behaviour is a behaviour of one of them; the others stay as they began. *)
(***************************************************************************)
EXTENDS Integers, Sequences, TLC

CONSTANTS Workers, Scenes, Fresh, MaxRuns, None,
          Sessions, Alerts, CaseScenes, ManySources, MaxMoves,
          Analysts, Requests, MaxRecords, References, MaxRequests

VARIABLES part,
          rows, audits, decisions, events, backfill, job, clock, runs, executed, blind,
          scene, alertStatus, busy, incident, linked, activity, member, ledger, session, moves,
          workspace, record, pin, request, issued, asked

O == INSTANCE ResponseOutcomes
C == INSTANCE Cases WITH Nothing <- None
W == INSTANCE Workspaces

outcomeVars == <<rows, audits, decisions, events, backfill, job, clock, runs, executed, blind>>
caseVars == <<scene, alertStatus, busy, incident, linked, activity, member, ledger, session, moves>>
workVars == <<workspace, record, pin, request, issued, asked>>
-----------------------------------------------------------------------------
(* The scenes of ResponseOutcomes: one alert and the rows a legacy table    *)
(* may hold for it, in every status the inference tells apart.              *)

Blank == [table |-> "alert", alert |-> 1, exec |-> None, approval |-> None, status |-> "open", action |-> None,
          mode |-> None, meta |-> None, note |-> None, decision |-> None]
Row(table, status) == [Blank EXCEPT !.table = table, !.status = status]
Delivery(status, mode, meta, exec, approval) ==
    [Row("notification", status) EXCEPT !.mode = mode, !.meta = meta, !.exec = exec, !.approval = approval]

Claims == {{"executed", "not_simulated", "provider_accepted"}, {"executed", "adapter_real"}, {}}
Scene(rs, audited) == [rows |-> rs, audits |-> audited]

Queued == {Scene(<<Blank, Row("queue", s), [Row("log", t) EXCEPT !.action = "block_ip", !.note = n],
                   Row("blocked_ips", "active")>>, {}) :
             s \in {"pending", "success", "awaiting_approval", "cancelled"},
             t \in {"skipped", "executed"}, n \in {"tracking", None}}
Finished == {Scene(<<Blank, [Row("execution", s) EXCEPT !.meta = m], Delivery("success", "real", c, 2, None)>>, a) :
               s \in {"success", "abandoned"}, m \in {{"executed"}, {"tracking"}, None}, c \in Claims, a \in {{}, {2}}}
Pending == {Scene(<<Blank, Row("execution", "pending"), Delivery("success", "real", c, 2, None)>>, a) :
              c \in Claims, a \in {{}, {2}}}
Unactioned == {Scene(<<Blank, Row("execution", "not_actioned")>>, {})}
Gated == {Scene(<<[Blank EXCEPT !.action = "block_ip"], Row("execution", "awaiting_approval"),
                  [Row("approval", s) EXCEPT !.exec = 2],
                  Delivery(t, m, {}, 2, 3)>>, {}) :
            s \in {"pending", "denied", "approved"}, t \in {"blocked", "timeout", "pending"}, m \in {"simulation", "real"}}
SmallScenes == Queued \cup Finished \cup Pending \cup Unactioned \cup Gated

\* A scene is a database as it stood before canonical outcomes: no row names a decision, an approval has one of
\* the statuses its column admits (migrations/0005_soar_approvals.sql), and an id is no decision.
LegacyRow(r) ==
    /\ DOMAIN r = DOMAIN Blank /\ r.decision = None
    /\ r.table \in {"queue", "log", "execution", "approval", "notification", "blocked_ips", "alert"}
    /\ r.table = "approval" => r.status \in {"pending", "approved", "denied", "expired"}
ASSUME ScenesAssumption ==
    /\ \A s \in Scenes : /\ DOMAIN s.rows \subseteq Nat /\ \A i \in DOMAIN s.rows : LegacyRow(s.rows[i])
                         /\ s.audits \subseteq DOMAIN s.rows
    /\ Fresh \subseteq Nat /\ None \notin {"legacy", "live"} \X Nat
-----------------------------------------------------------------------------
(* The scenes of Cases: three alerts of one or two addresses.               *)
A(type, severity, ip, ports, evidence) ==
    [type |-> type, severity |-> severity, ip |-> ip, ports |-> ports, evidence |-> evidence]
Scan(ip, ports, severity, more) ==
    A("pfsense", severity, ip, ports, {"aggregate", "incident_eligible", "targets", "repeated"} \cup more)

SmallCaseScenes == {
    <<Scan(1, {1}, "low", {}), Scan(2, {1, 2}, "medium", {}), A("credential_stuffing", "critical", 1, {}, {})>>,
    <<Scan(1, {1}, "high", {"recon"}), Scan(2, {2}, "high", {"progression"}), Scan(1, {1, 2}, "low", {"corroborated"})>>,
    <<A("env_probe", "medium", 1, {}, {"sensitive_repeat"}), A("failed_login", "high", 1, {}, {"response"}),
      A("env_probe", "critical", 1, {}, {})>>,
    <<A("failed_login", "high", 1, {}, {"commodity"}), A("scanner_detected", "high", 1, {}, {}),
      A("credential_stuffing", "low", 1, {}, {"days"})>>}

RecordSymmetry == Permutations(Sessions)
-----------------------------------------------------------------------------
Parts == {"outcomes", "cases", "workspaces"}

Init ==
    /\ part \in Parts
    /\ O!Init /\ C!Init /\ W!Init
    /\ part # "outcomes" => [rows |-> rows, audits |-> audits] = CHOOSE start \in Scenes : TRUE
    /\ part # "cases" => scene = CHOOSE start \in CaseScenes : TRUE

Next ==
    \/ part = "outcomes" /\ O!Next /\ UNCHANGED <<part, caseVars, workVars>>
    \/ part = "cases" /\ C!Next /\ UNCHANGED <<part, outcomeVars, workVars>>
    \/ part = "workspaces" /\ W!Next /\ UNCHANGED <<part, outcomeVars, caseVars>>

Spec == Init /\ [][Next]_<<part, outcomeVars, caseVars, workVars>>
-----------------------------------------------------------------------------
(* The properties of the parts, each where its part runs.                   *)

\* No reader claims a real execution that no delivery and no worker proves.
NoUnprovenExecution == part = "outcomes" => O!NoUnprovenExecution

\* The single and the bulk readers of a row show the same outcome.
ReadersAgree == part = "outcomes" => O!ReadersAgree

\* A row that is finished reads as finished, before and after the backfill.
FinishedReadsFinished == part = "outcomes" => O!FinishedReadsFinished

\* An incident closes by itself only over resolved alerts.
ClosedQuietly == C!ClosedQuietly

\* An analyst's bundle is closed under its references.
BundleIsClosed == part = "workspaces" => W!BundleIsClosed
=============================================================================
