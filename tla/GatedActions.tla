---------------------------- MODULE GatedActions ----------------------------
(***************************************************************************)
(* What the response-action queue promises the analysts who use it, with no *)
(* workers, retries, leases or clocks: a requested action is settled once,   *)
(* it is performed at most once and only while it is open, one that needs an *)
(* approval is performed only after the approval was given, and nobody takes *)
(* a decision back.                                                          *)
(***************************************************************************)
EXTENDS Integers

CONSTANTS
    Actions,      \* requested actions
    Gated         \* actions that need an approval

VARIABLES
    outcome,      \* action -> what became of it
    decision,     \* action -> what was decided about it
    performed     \* action -> how often its effect was committed

vars == <<outcome, decision, performed>>

Outcomes == {"absent", "open", "done", "failed", "dropped"}
Decisions == {"undecided", "approved", "refused"}

Init ==
    /\ outcome = [a \in Actions |-> "absent"]
    /\ decision = [a \in Actions |-> "undecided"]
    /\ performed = [a \in Actions |-> 0]

Request(a) ==
    /\ outcome[a] = "absent"
    /\ outcome' = [outcome EXCEPT ![a] = "open"]
    /\ UNCHANGED <<decision, performed>>

\* Somebody approves an action that waits.
Approve(a) ==
    /\ outcome[a] = "open" /\ decision[a] = "undecided"
    /\ decision' = [decision EXCEPT ![a] = "approved"]
    /\ UNCHANGED <<outcome, performed>>

\* Refusals, by somebody or by time, come with any step that settles an action, or alone.
Refusals ==
    /\ decision' \in [Actions -> Decisions]
    /\ \A a \in Actions : \/ decision'[a] = decision[a]
                          \/ decision[a] = "undecided" /\ decision'[a] = "refused"

\* The action is settled with its effect: it is done, or failed after the effect.
Perform(a) ==
    /\ outcome[a] = "open"
    /\ a \in Gated => decision[a] = "approved"
    /\ \E result \in {"done", "failed"} : outcome' = [outcome EXCEPT ![a] = result]
    /\ performed' = [performed EXCEPT ![a] = 1]
    /\ Refusals

\* Open actions, one or several, are settled without an effect.
Settle ==
    /\ outcome' \in [Actions -> Outcomes]
    /\ \A a \in Actions : \/ outcome'[a] = outcome[a]
                          \/ outcome[a] = "open" /\ outcome'[a] \in {"failed", "dropped"}
    /\ Refusals
    /\ UNCHANGED performed

Next == (\E a \in Actions : Request(a) \/ Approve(a) \/ Perform(a)) \/ Settle

Spec == Init /\ [][Next]_vars
=============================================================================
