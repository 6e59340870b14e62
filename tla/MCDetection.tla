----------------------------- MODULE MCDetection -----------------------------
(***************************************************************************)
(* Instances of Detection and of DetectionPlayground.  The playground works *)
(* on copies and rolls back, so a behaviour is a behaviour of one of them   *)
(* and the other stays as it began.                                         *)
(***************************************************************************)
EXTENDS Detection, ProductionSimulation, TLC

CONSTANTS MaxTokens, MaxDepth, MaxNodes, Rules, Batches
VARIABLES part, tokens, report

P == INSTANCE DetectionPlayground
playVars == <<mode, tokens, report, history, open, sim>>
-----------------------------------------------------------------------------
(* Detection: small parameters, and one scene for each family of rules.     *)

Plain(type, source, value) ==
    [type |-> type, source |-> source, value |-> value, dest |-> None, dir |-> None, role |-> None]
Wall(type, value, dest, dir, role) ==
    [type |-> type, source |-> "pfsense", value |-> value, dest |-> dest, dir |-> dir, role |-> role]
Scene(kinds, protected, disreputable) ==
    [kinds |-> kinds, protected |-> protected, disreputable |-> disreputable, inactive |-> {}]

Logins == Scene({Plain("failed_login", "bank_app", "u1"), Plain("failed_login", "bank_app", "u2"),
                 Plain("successful_login", "bank_app", "u1")}, FALSE, FALSE)
Web == Scene({Plain("normal_activity", "nginx", None), Plain("failed_login", "bank_app", "u1")}, FALSE, FALSE)
Cloud(kind) == Scene({Plain("application_exception", "azure_insights", None), kind}, FALSE, FALSE)
Probes == Scene({Plain("env_probe", "honeypot", "p1"), Plain("scanner_detected", "honeypot", None)}, FALSE, FALSE)
Stuffing == Scene({Plain("admin_probe", "honeypot", "p1"), Plain("credential_stuffing", "honeypot", "u1")},
                  FALSE, FALSE)
Scan == [Scene({Plain("port_scan", "bank_app", 1), Plain("port_scan", "bank_app", 2),
                Plain("failed_login", "bank_app", None)}, FALSE, FALSE)
         EXCEPT !.inactive = {"failed_login_threshold"}]
Denied == Scene({Wall("firewall_block", 1, "h1", "out", "initiation"),
                 Wall("firewall_block", 2, "h1", "out", "reply")}, TRUE, FALSE)
Allowed == Scene({Wall("firewall_block", 1, "h1", "in", "initiation"),
                  Wall("firewall_allow", 1, "h1", "in", "initiation")}, FALSE, TRUE)

SmallScenes == {Logins, Web, Cloud(Plain("http_error", "nginx", None)),
                Cloud(Plain("unauthorized_access", "azure_insights", None)), Probes, Stuffing, Scan, Denied, Allowed}

Twice == {"failed_login_threshold", "password_spraying_threshold", "port_scan_threshold",
          "pfsense_firewall_noisy_source", "pfsense_firewall_port_scan", "successful_login_after_spray"}
\* A window of 0 holds the events of the same tick.
SmallParams == [r \in BaseRules |-> [threshold |-> IF r \in Twice THEN 2 ELSE 1,
                                     window |-> IF r = "port_scan_threshold" THEN 0 ELSE 1]]
SmallLimits == [failedLookback |-> 2, sprayWindow |-> 1, hosts |-> 2, repeats |-> 3, ports |-> 2,
                denies |-> 2, sensitive |-> {1}]

SmallWindows == [r \in {CorrelationRules[i] : i \in DOMAIN CorrelationRules} |->
                     IF r \in {"correlated_activity", "spray_then_success_pattern"} THEN 1 ELSE 0]

SessionSymmetry == Permutations(Sessions)
-----------------------------------------------------------------------------
(* DetectionPlayground: pfSense rules over two selections, pasted events.   *)
Pf(groupBy, threshold, window, eventType) ==
    [source |-> "pfsense", format |-> "json_array", eventType |-> eventType, groupBy |-> groupBy,
     threshold |-> threshold, window |-> window,
     selections |-> [a |-> <<[field |-> "destination_port", values |-> {22, 23}]>>,
                     b |-> <<[field |-> "action", values |-> {"block"}], [field |-> "severity", values |-> {"high"}]>>]]
SmallRules == {Pf("source_ip", 2, 15, Absent), Pf("destination_port", 1, 15, "firewall_block"),
               [Pf("source_ip", 1, 15, Absent) EXCEPT !.source = "nginx", !.format = "raw_text"],
               Pf("username", 1, 15, Absent)}

Ev(id, ip, port, action, time) ==
    [id |-> id, parses |-> TRUE, type |-> "firewall_block", time |-> time,
     fields |-> [source_ip |-> ip, destination_port |-> port, action |-> action, severity |-> "high"]]
SmallBatches == {{Ev(1, "x", 22, "block", 0), Ev(2, "x", 80, "block", 10), Ev(3, "y", 23, "pass", 20)},
                 {Ev(1, "x", 80, "pass", 0), Ev(2, "x", 80, "pass", 20), Ev(3, "y", 22, "block", Absent)},
                 {Ev(1, "x", 22, "pass", 0), Ev(2, "x", 23, "pass", 15), Ev(3, "x", 80, "block", 30)},
                 {[Ev(1, "x", 22, "block", 0) EXCEPT !.parses = FALSE]}}
-----------------------------------------------------------------------------
BothInit ==
    /\ part \in {"detection", "playground"}
    /\ Init /\ P!Init
    /\ part = "detection" => mode = "playground"
    /\ part = "playground" => scene = Logins

BothNext ==
    \/ part = "detection" /\ Next /\ UNCHANGED <<part, playVars>>
    \/ part = "playground" /\ P!Next /\ UNCHANGED <<part, vars>>

BothSpec == BothInit /\ [][BothNext]_<<part, vars, playVars>>

\* The playground previews what a condition means.
PreviewIsTheMeaning == P!PreviewIsTheMeaning
=============================================================================
