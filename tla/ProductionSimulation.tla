------------------------ MODULE ProductionSimulation ------------------------
(***************************************************************************)
(* Simulation of a production rule (engines/detection_simulator.py), for    *)
(* one source address.  The pasted events go through the real detector in a *)
(* transaction that is always rolled back, while production commits events  *)
(* and alerts between its statements.                                       *)
(***************************************************************************)
EXTENDS Integers

CONSTANTS Threshold,     \* of the production rule
          MaxHistory,    \* bound on production's events
          Absent         \* no value, None

\* A threshold is a number, and a missing value is not.
ASSUME SimulationAssumption == Threshold \in Nat /\ Absent \notin Nat

VARIABLES mode,     \* whether the request is for the playground or for a production rule
          history,  \* production's events of the address in the rule's window
          open,     \* production has an open alert
          sim       \* the simulation's request
simVars == <<mode, history, open, sim>>
-----------------------------------------------------------------------------
Start == [pc |-> "idle", pasted |-> 0, preOpen |-> FALSE, matched |-> FALSE, observed |-> Absent, late |-> FALSE]

\* The detector with a threshold: what it creates an alert over, or Absent.
Detected(pasted, threshold) == IF ~open /\ history + pasted >= threshold THEN history + pasted ELSE Absent

\* Mutant of Evidence: the detector's search for an open alert is bypassed.
EvidenceUndeduplicated(pasted) == IF history + pasted >= 1 THEN history + pasted ELSE Absent

\* _fetch_threshold_evidence: the same detector with the least threshold.
Evidence(pasted) == Detected(pasted, 1)

Committed == sim' = IF sim.pc = "idle" THEN sim ELSE [sim EXCEPT !.late = TRUE]

\* _run_existing_detection_simulation and the checks before anything is inserted.
Precheck(n) ==
    /\ mode = "production" /\ sim.pc = "idle"
    /\ sim' = [Start EXCEPT !.pc = "detect", !.pasted = n, !.preOpen = open]
    /\ UNCHANGED <<mode, history, open>>
\* _run_pipeline: the pasted events are ingested in the simulation's transaction.
Detect ==
    /\ sim.pc = "detect"
    /\ LET seen == Detected(sim.pasted, Threshold)
           next == IF seen # Absent \/ sim.preOpen THEN "report" ELSE "evidence"
       IN sim' = [sim EXCEPT !.pc = next, !.matched = seen # Absent, !.observed = seen, !.late = FALSE]
    /\ UNCHANGED <<mode, history, open>>
LowerThreshold ==
    /\ sim.pc = "evidence"
    /\ sim' = [sim EXCEPT !.pc = "report", !.observed = Evidence(sim.pasted)]
    /\ UNCHANGED <<mode, history, open>>
\* The transaction is rolled back and the stages are returned.
Rollback ==
    /\ sim.pc = "report"
    /\ sim' = Start
    /\ UNCHANGED <<mode, history, open>>

\* Production ingests an event and runs the same detector, in one transaction.
IngestEvent ==
    /\ mode = "production" /\ history < MaxHistory
    /\ history' = history + 1
    /\ open' = (open \/ history + 1 >= Threshold)
    /\ Committed
    /\ UNCHANGED mode
\* The window moves on; an analyst resolves the alert.
Expire ==
    /\ mode = "production" /\ history > 0
    /\ history' = history - 1
    /\ Committed
    /\ UNCHANGED <<mode, open>>
ResolveAlert ==
    /\ open
    /\ open' = FALSE
    /\ Committed
    /\ UNCHANGED <<mode, history>>

SimInit == mode \in {"playground", "production"} /\ history = 0 /\ open = FALSE /\ sim = Start

SimNext ==
    \/ \E n \in 1 .. Threshold : Precheck(n)
    \/ Detect \/ LowerThreshold \/ Rollback \/ IngestEvent \/ Expire \/ ResolveAlert

SimSpec == SimInit /\ [][SimNext]_simVars
-----------------------------------------------------------------------------
\* A production simulation that reports no match and an observed value reports one below
\* the threshold, unless production committed something between the two runs of the
\* detector.
ExplanationIsHonest ==
    sim.pc = "report" /\ ~sim.matched /\ sim.observed # Absent => sim.observed < Threshold \/ sim.late
=============================================================================
