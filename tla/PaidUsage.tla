----------------------------- MODULE PaidUsage -----------------------------
(***************************************************************************)
(* Paid AI calls: AiGateway.generate on a profile of the paid provider      *)
(* (core/ai/gateway.py), the daily budget of core/ai/paid_usage_store.py    *)
(* and the runtime policy an administrator changes meanwhile                *)
(* (core/ai/gateway_config_store.py).                                       *)
(*                                                                          *)
(* A call reads the policy, reserves its conservative cost, contacts the    *)
(* provider and settles, each in a transaction or a request of its own, so  *)
(* that policy changes, other calls, midnight UTC and crashes fall between. *)
(* Money is a natural number of quanta; a call's cost is a constant and     *)
(* what the provider reports is any of Reports.                             *)
(***************************************************************************)
EXTENDS Integers, FiniteSets

CONSTANTS
    Calls,        \* gateway calls on a paid profile
    Cost,         \* call -> conservative_request_cost, positive
    Reports,      \* token costs a provider may report; below, at or above the reservation
    Caps,         \* daily budgets an administrator sets
    SourceCap,    \* daily budget of the environment, in force until a policy is stored
    LastDay,      \* bound on the UTC days the model goes through
    MaxUpdates,   \* bound on policy updates
    NoPolicy      \* ai_gateway_config has no row

ASSUME CostAssumption == Cost \in [Calls -> Nat \ {0}] /\ Reports \subseteq Nat
ASSUME CapsAssumption == Caps \subseteq Nat \ {0} /\ SourceCap \in Nat \ {0}
ASSUME BoundsAssumption == LastDay \in Nat /\ MaxUpdates \in Nat

Days == 0 .. LastDay
\* What decides a paid call: routing stands for gateway_mode = automatic_fallback, the
\* preferred model and anthropic_routing_enabled.
Policies == [routing : BOOLEAN, cap : Caps \cup {SourceCap}]
SourcePolicy == [routing |-> TRUE, cap |-> SourceCap]
ASSUME NoPolicyAssumption == NoPolicy \notin Policies

VARIABLES
    policy,       \* the row of ai_gateway_config
    day,          \* today's UTC date
    cap,          \* day -> daily_cap_usd of its ai_paid_usage_days row, 0 without one
    reserved,     \* day -> reserved_usd
    settled,      \* day -> settled_usd
    attempt,      \* call -> status of its ai_paid_request_attempts row
    usageDay,     \* call -> usage_day of its attempt
    charge,       \* call -> settled_cost_usd
    seen,         \* call -> the policy generate() resolved
    pc,           \* call -> where it stands
    updates       \* policy updates so far

dayVars == <<cap, reserved, settled>>
attemptVars == <<attempt, usageDay, charge>>
callVars == <<seen, pc>>
vars == <<policy, day, dayVars, attemptVars, callVars, updates>>

PCs == {"idle", "resolved", "reserved", "answered", "local", "paid", "withheld", "blocked", "dead"}

TypeOK ==
    /\ policy \in Policies \cup {NoPolicy}
    /\ day \in Days
    /\ cap \in [Days -> Nat] /\ reserved \in [Days -> Nat] /\ settled \in [Days -> Nat]
    /\ attempt \in [Calls -> {"none", "reserved", "settled", "budget_exhausted"}]
    /\ usageDay \in [Calls -> Days]
    /\ charge \in [Calls -> Nat]
    /\ seen \in [Calls -> Policies]
    /\ pc \in [Calls -> PCs]
    /\ updates \in 0 .. MaxUpdates

Init ==
    /\ policy = NoPolicy
    /\ day = 0
    /\ cap = [d \in Days |-> 0]
    /\ reserved = [d \in Days |-> 0] /\ settled = [d \in Days |-> 0]
    /\ attempt = [c \in Calls |-> "none"]
    /\ usageDay = [c \in Calls |-> 0]
    /\ charge = [c \in Calls |-> 0]
    /\ seen = [c \in Calls |-> SourcePolicy]
    /\ pc = [c \in Calls |-> "idle"]
    /\ updates = 0

-----------------------------------------------------------------------------
Used(d) == reserved[d] + settled[d]

\* The policy in force: the stored row, or the environment's.
InForce == IF policy = NoPolicy THEN SourcePolicy ELSE policy

GoTo(c, state) == pc' = [pc EXCEPT ![c] = state]

\* stage_update merges the fields it names into the stored row under FOR UPDATE.
UpdatePolicy(p) ==
    /\ updates < MaxUpdates
    /\ policy' = p
    /\ updates' = updates + 1
    /\ UNCHANGED <<day, dayVars, attemptVars, callVars>>

Midnight ==
    /\ day < LastDay
    /\ day' = day + 1
    /\ UNCHANGED <<policy, dayVars, attemptVars, callVars, updates>>

\* generate(): the policy is read once; without routing the call is blocked, or answered
\* by the local fallback profile.  An unreadable row fails closed the same way.
Resolve(c) ==
    /\ pc[c] = "idle"
    /\ seen' = [seen EXCEPT ![c] = InForce]
    /\ \/ InForce.routing /\ GoTo(c, "resolved")
       \/ GoTo(c, "blocked") \/ GoTo(c, "local")
    /\ UNCHANGED <<policy, day, dayVars, attemptVars, updates>>

\* Mutant of StillCurrent: only the routing switch is read again.
StillCurrentRouting(c) == InForce.routing

\* _assert_runtime_policy_current, FOR SHARE on the row until the reservation commits.
StillCurrent(c) == policy = NoPolicy \/ policy = seen[c]

\* The cap the day's row carries after reserve() has looked at it: the one the call was
\* given, unless more than that is already used.
DayCap(c) == IF cap[day] = 0 \/ Used(day) <= seen[c].cap THEN seen[c].cap ELSE cap[day]

\* Mutant of Remaining: reservations that are not settled yet are not counted.
RemainingSettled(c) == IF settled[day] < seen[c].cap THEN seen[c].cap - settled[day] ELSE 0

Remaining(c) == IF Used(day) < seen[c].cap THEN seen[c].cap - Used(day) ELSE 0

\* reserve(): one transaction under the day row's lock.
Reserve(c) ==
    /\ pc[c] = "resolved" /\ StillCurrent(c)
    /\ Cost[c] <= Remaining(c)
    /\ cap' = [cap EXCEPT ![day] = DayCap(c)]
    /\ reserved' = [reserved EXCEPT ![day] = @ + Cost[c]]
    /\ attempt' = [attempt EXCEPT ![c] = "reserved"]
    /\ usageDay' = [usageDay EXCEPT ![c] = day]
    /\ GoTo(c, "reserved")
    /\ UNCHANGED <<policy, day, settled, charge, seen, updates>>

\* The budget is exhausted: the refusal is recorded, the local fallback may answer.
ReserveExhausted(c) ==
    /\ pc[c] = "resolved" /\ StillCurrent(c)
    /\ Cost[c] > Remaining(c)
    /\ cap' = [cap EXCEPT ![day] = DayCap(c)]
    /\ attempt' = [attempt EXCEPT ![c] = "budget_exhausted"]
    /\ usageDay' = [usageDay EXCEPT ![c] = day]
    /\ GoTo(c, "blocked") \/ GoTo(c, "local")
    /\ UNCHANGED <<policy, day, reserved, settled, charge, seen, updates>>

\* The policy changed, or accounting is unavailable: rolled back, nothing contacted.
ReserveRefused(c) ==
    /\ pc[c] = "resolved"
    /\ GoTo(c, "blocked") \/ GoTo(c, "local")
    /\ UNCHANGED <<policy, day, dayVars, attemptVars, seen, updates>>

\* provider.generate answers or fails; either is settled.
Contact(c) ==
    /\ pc[c] = "reserved"
    /\ GoTo(c, "answered")
    /\ UNCHANGED <<policy, day, dayVars, attemptVars, seen, updates>>

\* settle(): the reported cost, never more than the reservation.
Charge(c, reported) == IF reported <= Cost[c] THEN reported ELSE Cost[c]

\* settle() accepts: the attempt is open and the day's row stays consistent.
Settleable(c, reported) ==
    LET d == usageDay[c] IN
    /\ attempt[c] = "reserved"
    /\ cap[d] # 0 /\ reserved[d] >= Cost[c]
    /\ reserved[d] - Cost[c] + settled[d] + Charge(c, reported) <= cap[d]

\* Mutant of SettledOn: the settlement is booked on today's row.
SettledOnToday(c) == day

\* The day a settlement is booked on: the reservation's.
SettledOn(c) == usageDay[c]

Settle(c, reported) ==
    LET d == SettledOn(c) IN
    /\ pc[c] = "answered" /\ Settleable(c, reported)
    /\ reserved' = [reserved EXCEPT ![d] = @ - Cost[c]]
    /\ settled' = [settled EXCEPT ![d] = @ + Charge(c, reported)]
    /\ attempt' = [attempt EXCEPT ![c] = "settled"]
    /\ charge' = [charge EXCEPT ![c] = Charge(c, reported)]
    /\ GoTo(c, "paid")
    /\ UNCHANGED <<policy, day, cap, usageDay, seen, updates>>

\* Settlement fails (the database, or one of settle()'s checks): the answer is withheld
\* and the reservation stays.
SettleUnavailable(c) ==
    /\ pc[c] = "answered"
    /\ GoTo(c, "withheld")
    /\ UNCHANGED <<policy, day, dayVars, attemptVars, seen, updates>>

\* The process dies with its call; a reservation it held is never released.
Die(c) ==
    /\ pc[c] \in {"resolved", "reserved", "answered"}
    /\ GoTo(c, "dead")
    /\ UNCHANGED <<policy, day, dayVars, attemptVars, seen, updates>>

-----------------------------------------------------------------------------
Next ==
    \/ \E p \in Policies : UpdatePolicy(p)
    \/ Midnight
    \/ \E c \in Calls :
        \/ Resolve(c) \/ Reserve(c) \/ ReserveExhausted(c) \/ ReserveRefused(c) \/ Contact(c)
        \/ SettleUnavailable(c) \/ Die(c)
        \/ \E reported \in Reports : Settle(c, reported)

Spec == Init /\ [][Next]_vars

-----------------------------------------------------------------------------
\* Properties.

\* What f gives the calls of S, quantum by quantum, and its amount.
Quanta(S, f) == UNION {{c} \X (1 .. f[c]) : c \in S}
SumOver(S, f) == Cardinality(Quanta(S, f))
BookedOn(d, status) == {c \in Calls : usageDay[c] = d /\ attempt[c] = status}

\* The day's counters are the books' totals: what is reserved is what open attempts of
\* that day hold, what is settled is what its closed attempts were charged, through
\* every interleaving of calls, policy changes, midnights and crashes.
BooksBalance ==
    \A d \in Days : /\ reserved[d] = SumOver(BookedOn(d, "reserved"), Cost)
                    /\ settled[d] = SumOver(BookedOn(d, "settled"), charge)

\* A day never holds more than its recorded cap, however the cap was lowered and raised
\* meanwhile: the CHECK on ai_paid_usage_days never fails a transaction.
WithinDailyCap == \A d \in Days : Used(d) <= cap[d]

\* Money is committed only under the policy in force at that moment and within its cap:
\* a call that read an older policy reserves nothing.
ReservedUnderPolicyInForce ==
    [][\A c \in Calls : attempt[c] = "none" /\ attempt'[c] = "reserved" =>
         /\ InForce.routing
         /\ reserved'[day] + settled'[day] <= InForce.cap]_vars

\* A paid answer is shown only for a settled attempt, and only an attempt that contacted
\* the provider is charged.
PaidAnswerIsBooked ==
    \A c \in Calls : /\ pc[c] = "paid" <=> attempt[c] = "settled"
                     /\ pc[c] \in {"blocked", "local", "resolved"} => attempt[c] # "reserved"
                     /\ charge[c] <= Cost[c]
=============================================================================
