--------------------------- MODULE PaidUsageProofs ---------------------------
(***************************************************************************)
(* Proofs about PaidUsage for every set of calls, every cost, every budget  *)
(* and every number of days and policy updates, then about Investigation   *)
(* (instance I of MCAiCalls), AnalystTurn (instance T) and                  *)
(* ScheduledInvestigation (instance S) for every set of requests,           *)
(* responses, answers, entities and replies.                               *)
(***************************************************************************)
EXTENDS MCAiCalls, FiniteSetTheorems, SequenceTheorems, TLAPS

\* What a call knows where it stands: no attempt before reserve(), routing allowed by the policy it
\* read, and that policy is the environment's as long as none is stored.
CallsAreOrdered ==
    \A c \in Calls :
        /\ pc[c] \in {"idle", "resolved"} => attempt[c] = "none"
        /\ pc[c] = "resolved" => seen[c].routing = TRUE
        /\ policy = NoPolicy => seen[c] = SourcePolicy

\* The inductive invariant.
IInv == TypeOK /\ WithinDailyCap /\ PaidAnswerIsBooked /\ CallsAreOrdered

-----------------------------------------------------------------------------
\* The environment's policy is a policy.
LEMMA SourceIsPolicy == SourcePolicy \in Policies /\ InForce \in Policies \cup {policy}
  BY CapsAssumption DEF SourcePolicy, Policies, InForce

\* The inductive invariant holds before any call and with empty books.
LEMMA InitEstablishes == Init => IInv
  BY CostAssumption, CapsAssumption, BoundsAssumption, SourceIsPolicy
  DEF Init, IInv, TypeOK, WithinDailyCap, PaidAnswerIsBooked, CallsAreOrdered, Used, Days, PCs
\* What reserve() finds: the day's cap after its look at the row covers what is used, and a
\* cost that fits the remainder fits the policy's cap and the day's.
LEMMA CapArithmetic ==
    ASSUME IInv, NEW c \in Calls
    PROVE  /\ seen[c].cap \in Nat /\ DayCap(c) \in Nat /\ Remaining(c) \in Nat
           /\ Used(day) \in Nat /\ Used(day) <= DayCap(c)
           /\ Cost[c] <= Remaining(c) =>
                Used(day) + Cost[c] <= seen[c].cap /\ Used(day) + Cost[c] <= DayCap(c)
<1>1. seen[c].cap \in Nat /\ Cost[c] \in Nat \ {0}
  BY CapsAssumption, CostAssumption DEF IInv, TypeOK, Policies
<1>2. day \in Days /\ cap[day] \in Nat /\ Used(day) \in Nat /\ Used(day) <= cap[day]
  BY DEF IInv, TypeOK, WithinDailyCap, Used
<1> QED
  BY <1>1, <1>2 DEF DayCap, Remaining

\* Type correctness is preserved by every step.
LEMMA TypePreserved == IInv /\ [Next]_vars => TypeOK'
<1> SUFFICES ASSUME IInv, [Next]_vars PROVE TypeOK'
  OBVIOUS
<1> USE CostAssumption, CapsAssumption, BoundsAssumption, NoPolicyAssumption, SourceIsPolicy
<1> USE DEF IInv, TypeOK, PCs, dayVars, attemptVars, callVars
<1>1. ASSUME NEW p \in Policies, UpdatePolicy(p) PROVE TypeOK'
  BY <1>1 DEF UpdatePolicy
<1>2. ASSUME Midnight PROVE TypeOK'
  BY <1>2 DEF Midnight, Days
<1>3. ASSUME NEW c \in Calls, Resolve(c) PROVE TypeOK'
  BY <1>3 DEF Resolve, InForce, GoTo
<1>4. ASSUME NEW c \in Calls, Reserve(c) PROVE TypeOK'
  <2>1. DayCap(c) \in Nat /\ Cost[c] \in Nat
    BY CapArithmetic, CostAssumption
  <2>2. cap' \in [Days -> Nat] /\ reserved' \in [Days -> Nat]
    <3>1. cap' = [cap EXCEPT ![day] = DayCap(c)] /\ reserved' = [reserved EXCEPT ![day] = @ + Cost[c]]
      BY <1>4 DEF Reserve
    <3> QED
      BY <2>1, <3>1
  <2> QED
    BY <1>4, <2>2 DEF Reserve, GoTo
<1>5. ASSUME NEW c \in Calls, ReserveExhausted(c) PROVE TypeOK'
  BY <1>5, CapArithmetic DEF ReserveExhausted, GoTo
<1>6. ASSUME NEW c \in Calls, ReserveRefused(c) PROVE TypeOK'
  BY <1>6 DEF ReserveRefused, GoTo
<1>7. ASSUME NEW c \in Calls, Contact(c) PROVE TypeOK'
  BY <1>7 DEF Contact, GoTo
<1>8. ASSUME NEW c \in Calls, SettleUnavailable(c) PROVE TypeOK'
  BY <1>8 DEF SettleUnavailable, GoTo
<1>9. ASSUME NEW c \in Calls, Die(c) PROVE TypeOK'
  BY <1>9 DEF Die, GoTo
<1>10. ASSUME NEW c \in Calls, NEW reported \in Reports, Settle(c, reported) PROVE TypeOK'
  <2>1. usageDay[c] \in Days /\ Cost[c] \in Nat /\ Charge(c, reported) \in Nat
    BY CostAssumption DEF Charge
  <2>2. reserved[usageDay[c]] >= Cost[c] /\ reserved[usageDay[c]] \in Nat
    BY <1>10 DEF Settle, Settleable
  <2>3. reserved[usageDay[c]] - Cost[c] \in Nat
    BY <2>1, <2>2
  <2>4. reserved' \in [Days -> Nat] /\ settled' \in [Days -> Nat] /\ charge' \in [Calls -> Nat]
    <3>1. /\ reserved' = [reserved EXCEPT ![usageDay[c]] = @ - Cost[c]]
          /\ settled' = [settled EXCEPT ![usageDay[c]] = @ + Charge(c, reported)]
          /\ charge' = [charge EXCEPT ![c] = Charge(c, reported)]
      BY <1>10 DEF Settle, SettledOn
    <3> QED
      BY <2>1, <2>3, <3>1
  <2> QED
    BY <1>10, <2>4 DEF Settle, GoTo
<1>11. CASE UNCHANGED vars
  BY <1>11 DEF vars, Used
<1> QED
  BY <1>1, <1>2, <1>3, <1>4, <1>5, <1>6, <1>7, <1>8, <1>9, <1>10, <1>11 DEF Next

\* No step takes a day beyond its recorded cap.
LEMMA CapPreserved == IInv /\ [Next]_vars => WithinDailyCap'
<1> SUFFICES ASSUME IInv, [Next]_vars PROVE WithinDailyCap'
  OBVIOUS
<1> USE CostAssumption, CapsAssumption, BoundsAssumption, NoPolicyAssumption, SourceIsPolicy
<1> USE DEF IInv, TypeOK, Days, WithinDailyCap, Used, Policies, dayVars, attemptVars, callVars
<1>1. ASSUME NEW p \in Policies, UpdatePolicy(p) PROVE WithinDailyCap'
  BY <1>1 DEF UpdatePolicy
<1>2. ASSUME Midnight PROVE WithinDailyCap'
  BY <1>2 DEF Midnight, Days
<1>3. ASSUME NEW c \in Calls, Resolve(c) PROVE WithinDailyCap'
  BY <1>3 DEF Resolve, InForce, GoTo
<1>4. ASSUME NEW c \in Calls, Reserve(c) PROVE WithinDailyCap'
  <2>1. DayCap(c) \in Nat /\ Cost[c] \in Nat /\ Used(day) + Cost[c] <= DayCap(c)
    BY <1>4, CapArithmetic, CostAssumption DEF Reserve
  <2>2. reserved'[day] = reserved[day] + Cost[c] /\ settled' = settled /\ cap'[day] = DayCap(c)
        /\ \A d \in Days : d # day => cap'[d] = cap[d] /\ reserved'[d] = reserved[d]
    BY <1>4 DEF Reserve
  <2>3. Used(day)' <= cap'[day]
    BY <1>4, <2>1, <2>2 DEF Reserve
  <2> QED
    BY <1>4, <2>2, <2>3 DEF Reserve
<1>5. ASSUME NEW c \in Calls, ReserveExhausted(c) PROVE WithinDailyCap'
  BY <1>5, CapArithmetic DEF ReserveExhausted, GoTo
<1>6. ASSUME NEW c \in Calls, ReserveRefused(c) PROVE WithinDailyCap'
  BY <1>6 DEF ReserveRefused, GoTo
<1>7. ASSUME NEW c \in Calls, Contact(c) PROVE WithinDailyCap'
  BY <1>7 DEF Contact, GoTo
<1>8. ASSUME NEW c \in Calls, SettleUnavailable(c) PROVE WithinDailyCap'
  BY <1>8 DEF SettleUnavailable, GoTo
<1>9. ASSUME NEW c \in Calls, Die(c) PROVE WithinDailyCap'
  BY <1>9 DEF Die, GoTo
<1>10. ASSUME NEW c \in Calls, NEW reported \in Reports, Settle(c, reported) PROVE WithinDailyCap'
  BY <1>10 DEF Settle, SettledOn, Settleable, Charge, Used, GoTo
<1>11. CASE UNCHANGED vars
  BY <1>11 DEF vars, Used
<1> QED
  BY <1>1, <1>2, <1>3, <1>4, <1>5, <1>6, <1>7, <1>8, <1>9, <1>10, <1>11 DEF Next

\* Answers and attempts stay in step.
LEMMA BookedPreserved == IInv /\ [Next]_vars => PaidAnswerIsBooked'
<1> SUFFICES ASSUME IInv, [Next]_vars PROVE PaidAnswerIsBooked'
  OBVIOUS
<1> USE CostAssumption, CapsAssumption, BoundsAssumption, NoPolicyAssumption, SourceIsPolicy
<1> USE DEF IInv, TypeOK, PaidAnswerIsBooked, CallsAreOrdered, PCs, dayVars, attemptVars, callVars
<1>1. ASSUME NEW p \in Policies, UpdatePolicy(p) PROVE PaidAnswerIsBooked'
  BY <1>1 DEF UpdatePolicy
<1>2. ASSUME Midnight PROVE PaidAnswerIsBooked'
  BY <1>2 DEF Midnight, Days
<1>3. ASSUME NEW c \in Calls, Resolve(c) PROVE PaidAnswerIsBooked'
  BY <1>3 DEF Resolve, InForce, GoTo
<1>4. ASSUME NEW c \in Calls, Reserve(c) PROVE PaidAnswerIsBooked'
  BY <1>4 DEF Reserve, GoTo
<1>5. ASSUME NEW c \in Calls, ReserveExhausted(c) PROVE PaidAnswerIsBooked'
  BY <1>5 DEF ReserveExhausted, GoTo
<1>6. ASSUME NEW c \in Calls, ReserveRefused(c) PROVE PaidAnswerIsBooked'
  BY <1>6 DEF ReserveRefused, GoTo
<1>7. ASSUME NEW c \in Calls, Contact(c) PROVE PaidAnswerIsBooked'
  BY <1>7 DEF Contact, GoTo
<1>8. ASSUME NEW c \in Calls, SettleUnavailable(c) PROVE PaidAnswerIsBooked'
  BY <1>8 DEF SettleUnavailable, GoTo
<1>9. ASSUME NEW c \in Calls, Die(c) PROVE PaidAnswerIsBooked'
  BY <1>9 DEF Die, GoTo
<1>10. ASSUME NEW c \in Calls, NEW reported \in Reports, Settle(c, reported) PROVE PaidAnswerIsBooked'
  BY <1>10 DEF Settle, SettledOn, Settleable, Charge, Used, GoTo
<1>11. CASE UNCHANGED vars
  BY <1>11 DEF vars, Used
<1> QED
  BY <1>1, <1>2, <1>3, <1>4, <1>5, <1>6, <1>7, <1>8, <1>9, <1>10, <1>11 DEF Next

\* The order of a call's stages is kept.
LEMMA OrderPreserved == IInv /\ [Next]_vars => CallsAreOrdered'
<1> SUFFICES ASSUME IInv, [Next]_vars PROVE CallsAreOrdered'
  OBVIOUS
<1> USE CostAssumption, CapsAssumption, BoundsAssumption, NoPolicyAssumption, SourceIsPolicy
<1> USE DEF IInv, TypeOK, PaidAnswerIsBooked, CallsAreOrdered, PCs, dayVars, attemptVars, callVars
<1>1. ASSUME NEW p \in Policies, UpdatePolicy(p) PROVE CallsAreOrdered'
  BY <1>1 DEF UpdatePolicy
<1>2. ASSUME Midnight PROVE CallsAreOrdered'
  BY <1>2 DEF Midnight, Days
<1>3. ASSUME NEW c \in Calls, Resolve(c) PROVE CallsAreOrdered'
  BY <1>3 DEF Resolve, InForce, GoTo
<1>4. ASSUME NEW c \in Calls, Reserve(c) PROVE CallsAreOrdered'
  BY <1>4 DEF Reserve, GoTo
<1>5. ASSUME NEW c \in Calls, ReserveExhausted(c) PROVE CallsAreOrdered'
  BY <1>5 DEF ReserveExhausted, GoTo
<1>6. ASSUME NEW c \in Calls, ReserveRefused(c) PROVE CallsAreOrdered'
  BY <1>6 DEF ReserveRefused, GoTo
<1>7. ASSUME NEW c \in Calls, Contact(c) PROVE CallsAreOrdered'
  BY <1>7 DEF Contact, GoTo
<1>8. ASSUME NEW c \in Calls, SettleUnavailable(c) PROVE CallsAreOrdered'
  BY <1>8 DEF SettleUnavailable, GoTo
<1>9. ASSUME NEW c \in Calls, Die(c) PROVE CallsAreOrdered'
  BY <1>9 DEF Die, GoTo
<1>10. ASSUME NEW c \in Calls, NEW reported \in Reports, Settle(c, reported) PROVE CallsAreOrdered'
  BY <1>10 DEF Settle, SettledOn, Settleable, Charge, Used, GoTo
<1>11. CASE UNCHANGED vars
  BY <1>11 DEF vars, Used
<1> QED
  BY <1>1, <1>2, <1>3, <1>4, <1>5, <1>6, <1>7, <1>8, <1>9, <1>10, <1>11 DEF Next

-----------------------------------------------------------------------------
\* The inductive invariant holds in every reachable state, whatever calls, administrators, midnights
\* and crashes do.
THEOREM Inductive == Spec => []IInv
<1>1. IInv /\ [Next]_vars => IInv'
  BY TypePreserved, CapPreserved, BookedPreserved, OrderPreserved DEF IInv
<1> QED
  BY InitEstablishes, <1>1, PTL DEF Spec

\* Every column and call keeps its type; no counter of a day becomes negative.
THEOREM TypeCorrect == Spec => []TypeOK
<1>1. IInv => TypeOK
  BY DEF IInv
<1> QED
  BY Inductive, <1>1, PTL

\* A day never holds more than its recorded cap, so the CHECK on ai_paid_usage_days never fails.
THEOREM BudgetHolds == Spec => []WithinDailyCap
<1>1. IInv => WithinDailyCap
  BY DEF IInv
<1> QED
  BY Inductive, <1>1, PTL

\* A paid answer is shown exactly for settled attempts, charged at most the reservation.
THEOREM AnswersAreBooked == Spec => []PaidAnswerIsBooked
<1>1. IInv => PaidAnswerIsBooked
  BY DEF IInv
<1> QED
  BY Inductive, <1>1, PTL

\* A step reserves money only under the policy in force and within its cap.
ReservesInForce ==
    \A c \in Calls : attempt[c] = "none" /\ attempt'[c] = "reserved" =>
        /\ InForce.routing
        /\ reserved'[day] + settled'[day] <= InForce.cap

\* Only Reserve opens a reservation, and it compared the policy under a lock.
LEMMA OnlyReserveReserves == IInv /\ [Next]_vars => ReservesInForce
<1> SUFFICES ASSUME IInv, [Next]_vars PROVE ReservesInForce
  OBVIOUS
<1> USE DEF IInv, TypeOK, Days, attemptVars, ReservesInForce
<1>1. ASSUME NEW p \in Policies, UpdatePolicy(p) PROVE ReservesInForce
  BY <1>1 DEF UpdatePolicy
<1>2. ASSUME Midnight PROVE ReservesInForce
  BY <1>2 DEF Midnight
<1>3. ASSUME NEW c \in Calls, Resolve(c) PROVE ReservesInForce
  BY <1>3 DEF Resolve
<1>4. ASSUME NEW c \in Calls, Reserve(c) PROVE ReservesInForce
  <2>1. InForce = seen[c] /\ seen[c].routing = TRUE /\ seen[c].cap \in Nat
    BY <1>4, CapsAssumption DEF Reserve, StillCurrent, InForce, CallsAreOrdered, Policies
  <2>2. reserved'[day] + settled'[day] <= seen[c].cap
    <3>1. Used(day) + Cost[c] <= seen[c].cap
      BY <1>4, CapArithmetic DEF Reserve
    <3>2. reserved'[day] = reserved[day] + Cost[c] /\ settled' = settled
      BY <1>4 DEF Reserve
    <3> QED
      BY <2>1, <3>1, <3>2, CostAssumption DEF Used
  <2>3. \A b \in Calls : b # c => attempt'[b] = attempt[b]
    BY <1>4 DEF Reserve
  <2> QED
    BY <2>1, <2>2, <2>3
<1>5. ASSUME NEW c \in Calls, ReserveExhausted(c) PROVE ReservesInForce
  BY <1>5 DEF ReserveExhausted
<1>6. ASSUME NEW c \in Calls, ReserveRefused(c) PROVE ReservesInForce
  BY <1>6 DEF ReserveRefused
<1>7. ASSUME NEW c \in Calls, Contact(c) PROVE ReservesInForce
  BY <1>7 DEF Contact
<1>8. ASSUME NEW c \in Calls, SettleUnavailable(c) PROVE ReservesInForce
  BY <1>8 DEF SettleUnavailable
<1>9. ASSUME NEW c \in Calls, Die(c) PROVE ReservesInForce
  BY <1>9 DEF Die
<1>10. ASSUME NEW c \in Calls, NEW reported \in Reports, Settle(c, reported) PROVE ReservesInForce
  BY <1>10 DEF Settle
<1>11. CASE UNCHANGED vars
  BY <1>11 DEF vars
<1> QED
  BY <1>1, <1>2, <1>3, <1>4, <1>5, <1>6, <1>7, <1>8, <1>9, <1>10, <1>11 DEF Next

\* Money is committed only under the policy in force at that moment and within its cap.
THEOREM ReservationsAreCurrent == Spec => ReservedUnderPolicyInForce
<1>1. IInv /\ [Next]_vars =>
        [\A c \in Calls : attempt[c] = "none" /\ attempt'[c] = "reserved" =>
           /\ InForce.routing
           /\ reserved'[day] + settled'[day] <= InForce.cap]_vars
  BY OnlyReserveReserves DEF ReservesInForce
<1> QED
  BY Inductive, <1>1, PTL DEF Spec, ReservedUnderPolicyInForce
-----------------------------------------------------------------------------
(* The sums of the books, counted quantum by quantum.                       *)

\* The books balance, and what a day's attempts hold can be counted.
Countable(d) == /\ IsFiniteSet(Quanta(BookedOn(d, "reserved"), Cost))
                /\ IsFiniteSet(Quanta(BookedOn(d, "settled"), charge))
BooksInv == BooksBalance /\ \A d \in Days : Countable(d)

\* One more call adds its amount.
LEMMA SumAdds ==
    ASSUME NEW D, NEW c, c \notin D, NEW f, f[c] \in Nat, IsFiniteSet(Quanta(D, f))
    PROVE  IsFiniteSet(Quanta(D \cup {c}, f)) /\ SumOver(D \cup {c}, f) = SumOver(D, f) + f[c]
<1> DEFINE own == {c} \X (1 .. f[c])
<1>1. Quanta(D \cup {c}, f) = Quanta(D, f) \cup own /\ Quanta(D, f) \cap own = {}
  BY DEF Quanta
<1>2. IsFiniteSet(1 .. f[c]) /\ Cardinality(1 .. f[c]) = f[c]
  BY FS_Interval
<1>3. IsFiniteSet({c}) /\ Cardinality({c}) = 1
  BY FS_Singleton
<1>4. IsFiniteSet(own) /\ Cardinality(own) = f[c]
  <2>1. IsFiniteSet(own) /\ Cardinality(own) = Cardinality({c}) * Cardinality(1 .. f[c])
    BY <1>2, <1>3, FS_Product
  <2>2. Cardinality(own) = 1 * f[c]
    BY <1>2, <1>3, <2>1
  <2> QED
    BY <2>1, <2>2
<1> HIDE DEF own
<1>5. Cardinality(Quanta(D, f) \cap own) = 0
  BY <1>1, FS_EmptySet
<1>6. /\ IsFiniteSet(Quanta(D, f) \cup own)
      /\ Cardinality(Quanta(D, f) \cup own) = Cardinality(Quanta(D, f)) + Cardinality(own) - Cardinality(Quanta(D, f) \cap own)
  BY <1>4, FS_Union
<1>7. SumOver(D, f) \in Nat
  BY FS_CardinalityType DEF SumOver
<1>8. SumOver(D \cup {c}, f) = SumOver(D, f) + f[c] - 0
  BY <1>1, <1>4, <1>5, <1>6 DEF SumOver
<1>9. IsFiniteSet(Quanta(D \cup {c}, f))
  BY <1>1, <1>6
<1>10. \A m, n \in Nat : m + n - 0 = m + n
  OBVIOUS
<1> QED
  BY <1>7, <1>8, <1>9, <1>10

\* One call less leaves what the others hold.
LEMMA SumLoses ==
    ASSUME NEW D, NEW c \in D, NEW f, f[c] \in Nat, IsFiniteSet(Quanta(D, f))
    PROVE  IsFiniteSet(Quanta(D \ {c}, f)) /\ SumOver(D \ {c}, f) = SumOver(D, f) - f[c]
<1>1. Quanta(D \ {c}, f) \in SUBSET Quanta(D, f)
  BY DEF Quanta
<1>2. IsFiniteSet(Quanta(D \ {c}, f)) /\ SumOver(D \ {c}, f) \in Nat
  BY <1>1, FS_Subset, FS_CardinalityType DEF SumOver
<1>3. c \notin D \ {c} /\ (D \ {c}) \cup {c} = D
  OBVIOUS
<1>4. SumOver((D \ {c}) \cup {c}, f) = SumOver(D \ {c}, f) + f[c]
  BY <1>2, <1>3, SumAdds
<1>5. SumOver(D, f) = SumOver(D \ {c}, f) + f[c]
  BY <1>3, <1>4
<1> QED
  BY <1>2, <1>5

\* The sum depends on what its calls are given.
LEMMA SumOfSame ==
    ASSUME NEW D, NEW f, NEW g, \A c \in D : f[c] = g[c]
    PROVE  Quanta(D, f) = Quanta(D, g) /\ SumOver(D, f) = SumOver(D, g)
<1>1. Quanta(D, f) = Quanta(D, g)
  BY DEF Quanta
<1> QED
  BY <1>1 DEF SumOver

\* Empty books balance.
LEMMA BooksBegin == Init => BooksInv
<1> SUFFICES ASSUME Init, NEW d \in Days PROVE Countable(d) /\ reserved[d] = SumOver(BookedOn(d, "reserved"), Cost)
                                               /\ settled[d] = SumOver(BookedOn(d, "settled"), charge)
  BY DEF BooksInv, BooksBalance
<1>1. BookedOn(d, "reserved") = {} /\ BookedOn(d, "settled") = {} /\ reserved[d] = 0 /\ settled[d] = 0
  BY DEF Init, BookedOn
<1>2. \A f : Quanta({}, f) = {}
  BY DEF Quanta
<1> QED
  BY <1>1, <1>2, FS_EmptySet DEF Countable, SumOver

\* A step that opens and closes no attempt leaves the books alone.
LEMMA BooksUntouched ==
    ASSUME BooksInv, UNCHANGED <<reserved, settled, charge>>,
           \A d \in Days, status \in {"reserved", "settled"} : BookedOn(d, status)' = BookedOn(d, status)
    PROVE  BooksInv'
  BY DEF BooksInv, BooksBalance, Countable

\* A reservation adds its call to the day's open attempts, and its cost to what is reserved.
LEMMA ReserveBalances == ASSUME IInv, BooksInv, NEW c \in Calls, Reserve(c) PROVE BooksInv'
<1>1. /\ c \notin BookedOn(day, "reserved") /\ day \in Days /\ day' = day
      /\ BookedOn(day, "reserved")' = BookedOn(day, "reserved") \cup {c}
      /\ \A d \in Days : d # day => BookedOn(d, "reserved")' = BookedOn(d, "reserved")
      /\ \A d \in Days : BookedOn(d, "settled")' = BookedOn(d, "settled")
  <2>1. attempt[c] = "none" /\ attempt \in [Calls -> {"none", "reserved", "settled", "budget_exhausted"}]
        /\ usageDay \in [Calls -> Days] /\ day \in Days
    BY DEF IInv, TypeOK, CallsAreOrdered, Reserve
  <2>2. attempt' = [attempt EXCEPT ![c] = "reserved"] /\ usageDay' = [usageDay EXCEPT ![c] = day] /\ day' = day
    BY DEF Reserve
  <2>3. c \notin BookedOn(day, "reserved") /\ BookedOn(day, "reserved")' = BookedOn(day, "reserved") \cup {c}
    BY <2>1, <2>2 DEF BookedOn
  <2>4. \A d \in Days : d # day => BookedOn(d, "reserved")' = BookedOn(d, "reserved")
    BY <2>1, <2>2 DEF BookedOn
  <2>5. \A d \in Days : BookedOn(d, "settled")' = BookedOn(d, "settled")
    BY <2>1, <2>2 DEF BookedOn
  <2> QED
    BY <2>1, <2>2, <2>3, <2>4, <2>5
<1>2. reserved' = [reserved EXCEPT ![day] = @ + Cost[c]] /\ UNCHANGED <<settled, charge>> /\ reserved \in [Days -> Nat]
  BY DEF Reserve, IInv, TypeOK
<1>3. /\ IsFiniteSet(Quanta(BookedOn(day, "reserved") \cup {c}, Cost))
      /\ SumOver(BookedOn(day, "reserved") \cup {c}, Cost) = reserved[day] + Cost[c]
  <2>1. Cost[c] \in Nat /\ IsFiniteSet(Quanta(BookedOn(day, "reserved"), Cost))
        /\ reserved[day] = SumOver(BookedOn(day, "reserved"), Cost)
    BY <1>1, CostAssumption DEF BooksInv, BooksBalance, Countable
  <2>2. c \notin BookedOn(day, "reserved")
    BY <1>1
  <2>3. /\ IsFiniteSet(Quanta(BookedOn(day, "reserved") \cup {c}, Cost))
        /\ SumOver(BookedOn(day, "reserved") \cup {c}, Cost) = SumOver(BookedOn(day, "reserved"), Cost) + Cost[c]
    BY <2>1, <2>2, SumAdds
  <2> QED
    BY <2>1, <2>3
<1>4. ASSUME NEW d \in Days PROVE Countable(d)' /\ reserved'[d] = SumOver(BookedOn(d, "reserved")', Cost)
                                  /\ settled'[d] = SumOver(BookedOn(d, "settled")', charge')
  <2>1. CASE d = day
    <3>1. reserved'[d] = reserved[d] + Cost[c] /\ settled'[d] = settled[d] /\ charge' = charge /\ Cost' = Cost
      BY <1>1, <1>2, <2>1
    <3>2. settled[d] = SumOver(BookedOn(d, "settled"), charge) /\ IsFiniteSet(Quanta(BookedOn(d, "settled"), charge))
      BY DEF BooksInv, BooksBalance, Countable
    <3>3. BookedOn(d, "settled")' = BookedOn(d, "settled") /\ BookedOn(d, "reserved")' = BookedOn(d, "reserved") \cup {c}
      BY <1>1, <2>1
    <3>4. IsFiniteSet(Quanta(BookedOn(d, "reserved")', Cost)) /\ reserved'[d] = SumOver(BookedOn(d, "reserved")', Cost)
      BY <1>3, <2>1, <3>1, <3>3
    <3> QED
      BY <3>1, <3>2, <3>3, <3>4 DEF Countable
  <2>2. CASE d # day
    BY <1>1, <1>2, <2>2 DEF BooksInv, BooksBalance, Countable
  <2> QED
    BY <2>1, <2>2
<1> QED
  BY <1>4 DEF BooksInv, BooksBalance

\* A settlement moves its call from the open to the closed attempts of the reservation's day.
LEMMA SettleBalances == ASSUME IInv, BooksInv, NEW c \in Calls, NEW reported \in Reports, Settle(c, reported) PROVE BooksInv'
<1> DEFINE on == usageDay[c]
           due == Charge(c, reported)
<1>1. /\ attempt \in [Calls -> {"none", "reserved", "settled", "budget_exhausted"}] /\ attempt[c] = "reserved"
      /\ usageDay \in [Calls -> Days] /\ reserved \in [Days -> Nat] /\ settled \in [Days -> Nat] /\ charge \in [Calls -> Nat]
      /\ Cost[c] \in Nat /\ due \in Nat /\ on \in Days
  BY CostAssumption DEF IInv, TypeOK, Settle, Settleable, Charge
<1>2. /\ reserved' = [reserved EXCEPT ![on] = @ - Cost[c]] /\ settled' = [settled EXCEPT ![on] = @ + due]
      /\ attempt' = [attempt EXCEPT ![c] = "settled"] /\ charge' = [charge EXCEPT ![c] = due] /\ usageDay' = usageDay
  BY DEF Settle, SettledOn
<1> HIDE DEF due
<1>3. /\ c \in BookedOn(on, "reserved") /\ c \notin BookedOn(on, "settled")
      /\ BookedOn(on, "reserved")' = BookedOn(on, "reserved") \ {c}
      /\ BookedOn(on, "settled")' = BookedOn(on, "settled") \cup {c}
      /\ \A d \in Days : d # on => BookedOn(d, "reserved")' = BookedOn(d, "reserved")
      /\ \A d \in Days : d # on => BookedOn(d, "settled")' = BookedOn(d, "settled")
      /\ \A d \in Days : BookedOn(d, "settled") \subseteq Calls \ {c}
  BY <1>1, <1>2 DEF BookedOn
<1>4. \A d \in Days : /\ Quanta(BookedOn(d, "settled"), charge') = Quanta(BookedOn(d, "settled"), charge)
                      /\ SumOver(BookedOn(d, "settled"), charge') = SumOver(BookedOn(d, "settled"), charge)
  <2> SUFFICES ASSUME NEW d \in Days
               PROVE /\ Quanta(BookedOn(d, "settled"), charge') = Quanta(BookedOn(d, "settled"), charge)
                     /\ SumOver(BookedOn(d, "settled"), charge') = SumOver(BookedOn(d, "settled"), charge)
    OBVIOUS
  <2>1. \A b \in BookedOn(d, "settled") : charge'[b] = charge[b]
    BY <1>1, <1>2, <1>3
  <2> QED
    BY <2>1, SumOfSame
<1>5. /\ IsFiniteSet(Quanta(BookedOn(on, "reserved") \ {c}, Cost))
      /\ SumOver(BookedOn(on, "reserved") \ {c}, Cost) = reserved[on] - Cost[c]
  <2>1. IsFiniteSet(Quanta(BookedOn(on, "reserved"), Cost)) /\ reserved[on] = SumOver(BookedOn(on, "reserved"), Cost)
    BY <1>1 DEF BooksInv, BooksBalance, Countable
  <2> QED
    BY <1>1, <1>3, <2>1, SumLoses
<1>6. /\ IsFiniteSet(Quanta(BookedOn(on, "settled") \cup {c}, charge'))
      /\ SumOver(BookedOn(on, "settled") \cup {c}, charge') = settled[on] + due
  <2>1. IsFiniteSet(Quanta(BookedOn(on, "settled"), charge')) /\ settled[on] = SumOver(BookedOn(on, "settled"), charge')
    BY <1>1, <1>4 DEF BooksInv, BooksBalance, Countable
  <2>2. charge'[c] = due /\ charge'[c] \in Nat
    BY <1>1, <1>2
  <2> QED
    BY <1>3, <2>1, <2>2, SumAdds
<1>7. ASSUME NEW d \in Days PROVE Countable(d)' /\ reserved'[d] = SumOver(BookedOn(d, "reserved")', Cost)
                                  /\ settled'[d] = SumOver(BookedOn(d, "settled")', charge')
  <2>1. CASE d = on
    BY <1>1, <1>2, <1>3, <1>5, <1>6, <2>1 DEF Countable
  <2>2. CASE d # on
    BY <1>1, <1>2, <1>3, <1>4, <2>2 DEF BooksInv, BooksBalance, Countable
  <2> QED
    BY <2>1, <2>2
<1> QED
  BY <1>7 DEF BooksInv, BooksBalance

\* No other step touches the books: an exhausted budget closes an attempt that held nothing.
LEMMA BooksPreserved == IInv /\ BooksInv /\ [Next]_vars => BooksInv'
<1> SUFFICES ASSUME IInv, BooksInv, [Next]_vars PROVE BooksInv'
  OBVIOUS
<1>1. ASSUME UNCHANGED <<dayVars, attemptVars>> PROVE BooksInv'
  <2>1. UNCHANGED <<reserved, settled, attempt, usageDay, charge>>
    BY <1>1 DEF dayVars, attemptVars
  <2> QED
    BY <2>1, BooksUntouched DEF BookedOn
<1>2. ASSUME NEW p \in Policies, UpdatePolicy(p) PROVE BooksInv'
  BY <1>1, <1>2 DEF UpdatePolicy
<1>3. ASSUME Midnight PROVE BooksInv'
  BY <1>1, <1>3 DEF Midnight
<1>4. ASSUME NEW c \in Calls, Resolve(c) \/ ReserveRefused(c) \/ Contact(c) \/ SettleUnavailable(c) \/ Die(c) PROVE BooksInv'
  BY <1>1, <1>4 DEF Resolve, ReserveRefused, Contact, SettleUnavailable, Die
<1>5. ASSUME NEW c \in Calls, ReserveExhausted(c) PROVE BooksInv'
  <2>1. attempt[c] = "none" /\ attempt \in [Calls -> {"none", "reserved", "settled", "budget_exhausted"}]
        /\ usageDay \in [Calls -> Days]
    BY <1>5 DEF IInv, TypeOK, CallsAreOrdered, ReserveExhausted
  <2>2. attempt' = [attempt EXCEPT ![c] = "budget_exhausted"] /\ usageDay' = [usageDay EXCEPT ![c] = day]
        /\ UNCHANGED <<reserved, settled, charge>>
    BY <1>5 DEF ReserveExhausted
  <2>3. \A d \in Days, status \in {"reserved", "settled"} : BookedOn(d, status)' = BookedOn(d, status)
    BY <2>1, <2>2 DEF BookedOn
  <2> QED
    BY <2>2, <2>3, BooksUntouched
<1>6. CASE UNCHANGED vars
  BY <1>1, <1>6 DEF vars
<1> QED
  BY <1>2, <1>3, <1>4, <1>5, <1>6, ReserveBalances, SettleBalances DEF Next

\* A day's counters are the totals of its attempts, through every interleaving of calls, policies, midnights
\* and crashes: paid_usage_store neither loses nor invents money.
THEOREM BooksAlwaysBalance == Spec => []BooksBalance
<1>1. IInv /\ BooksInv /\ [Next]_vars => (IInv /\ BooksInv)'
  BY BooksPreserved, TypePreserved, CapPreserved, BookedPreserved, OrderPreserved DEF IInv
<1>2. BooksInv => BooksBalance
  BY DEF BooksInv
<1> QED
  BY InitEstablishes, BooksBegin, <1>1, <1>2, PTL DEF Spec

-----------------------------------------------------------------------------
(***************************************************************************)
(* Guided investigations and their drafts (Investigation), for every set of *)
(* requests, every bound on calls and every order of edits and stops.      *)
(***************************************************************************)

\* A sequence, of whatever it holds.
IsList(s) == \E D : s \in Seq(D)

\* Concatenations, and the lists the plan is made of, are sequences.
LEMMA JoinIsList == ASSUME NEW s, NEW t, IsList(s), IsList(t) PROVE IsList(s \o t)
<1>1. PICK D : s \in Seq(D)
  BY DEF IsList
<1>2. PICK R : t \in Seq(R)
  BY DEF IsList
<1>3. s \in Seq(D \cup R) /\ t \in Seq(D \cup R)
  BY <1>1, <1>2, SeqMonotonic
<1>4. s \o t \in Seq(D \cup R)
  BY <1>3
<1> QED
  BY <1>4 DEF IsList

LEMMA TupleIsList == \A a, b, c, d : /\ IsList(<<>>) /\ IsList(<<a>>) /\ IsList(<<a, b>>) /\ IsList(<<a, b, c, d>>)
<1> SUFFICES ASSUME NEW a, NEW b, NEW c, NEW d
             PROVE  /\ IsList(<<>>) /\ IsList(<<a>>) /\ IsList(<<a, b>>) /\ IsList(<<a, b, c, d>>)
  OBVIOUS
<1>1. <<>> \in Seq({a}) /\ <<a>> \in Seq({a}) /\ <<a, b>> \in Seq({a, b}) /\ <<a, b, c, d>> \in Seq({a, b, c, d})
  OBVIOUS
<1> QED
  BY <1>1 DEF IsList

\* A list has a length and a first part.
LEMMA ListFacts ==
    ASSUME NEW s, IsList(s)
    PROVE  Len(s) \in Nat /\ DOMAIN s = 1 .. Len(s)
<1>1. PICK D : s \in Seq(D)
  BY DEF IsList
<1> QED
  BY <1>1

\* The tools of a plan, and the planned calls, are lists.
LEMMA PlanIsList == ASSUME NEW q \in Inquiries PROVE IsList(I!Deterministic(q))
<1> DEFINE subject == CASE q.type = "alert" /\ q.id # None -> <<I!Call("get_alert_detail", q.id), I!Call("get_related_events", q.id)>>
                        [] q.type = "incident" /\ q.id # None -> <<I!Call("get_incident_timeline", q.id)>>
                        [] q.type = "source_ip" /\ q.ip # None -> <<I!Call("get_source_ip_context", q.ip), I!Call("get_related_events", q.ip)>>
                        [] q.type = "response_registry" /\ q.id # None -> <<I!Call("get_response_registry_context", q.id)>>
                        [] OTHER -> <<>>
           w1 == I!If(q.ip # None /\ "source" \in q.words,
                    <<I!Call("get_source_ip_context", q.ip), I!Call("search_alerts", q.ip), I!Call("get_related_events", q.ip),
                      I!Call("get_response_registry_context", q.ip)>>)
           w2 == I!If("incident" \in q.words /\ q.type # "incident", <<I!Call("search_incidents", None)>>)
           w3 == I!If("playbook" \in q.words, <<I!Call("list_playbook_executions", None)>>)
           w4 == I!If("audit" \in q.words, <<I!Call("read_audit_log", None)>>)
<1>1. IsList(subject)
  BY TupleIsList, Zenon
<1>2. IsList(w1) /\ IsList(w2) /\ IsList(w3) /\ IsList(w4)
  BY TupleIsList, Zenon DEF I!If
<1>3. I!Deterministic(q) = IF q.wanted # None THEN q.wanted
                           ELSE IF subject \o (w1 \o w2 \o w3 \o w4) = <<>> THEN <<I!Call("search_alerts", None)>>
                           ELSE subject \o (w1 \o w2 \o w3 \o w4)
  BY DEF I!Deterministic
<1> HIDE DEF subject, w1, w2, w3, w4
<1>4. IsList(subject \o (w1 \o w2 \o w3 \o w4))
  BY <1>1, <1>2, JoinIsList
<1>5. q.wanted # None => IsList(q.wanted)
  BY WantedAssumption DEF IsList
<1> QED
  BY <1>3, <1>4, <1>5, TupleIsList, Zenon

\* A cut list is a list no longer than the original and than the cut.
LEMMA CutFacts ==
    ASSUME NEW s, IsList(s), NEW limit \in Nat
    PROVE  /\ IsList(I!Cut(s, limit))
           /\ Len(I!Cut(s, limit)) = IF Len(s) < limit THEN Len(s) ELSE limit
<1>1. PICK D : s \in Seq(D)
  BY DEF IsList
<1>2. SubSeq(s, 1, IF Len(s) < limit THEN Len(s) ELSE limit) \in Seq(D)
  BY <1>1, SubSeqProperties
<1>3. Len(SubSeq(s, 1, IF Len(s) < limit THEN Len(s) ELSE limit)) = IF Len(s) < limit THEN Len(s) ELSE limit
  BY <1>1, SubSeqProperties
<1> QED
  BY <1>2, <1>3 DEF I!Cut, IsList

\* A function on 1 .. n is a list of length n.
LEMMA FunctionIsList ==
    ASSUME NEW f, NEW n \in Nat, f = [i \in 1 .. n |-> f[i]]
    PROVE  IsList(f) /\ Len(f) = n
<1>1. f \in Seq({f[i] : i \in 1 .. n})
  BY IsASeq
<1>2. DOMAIN f = 1 .. n
  OBVIOUS
<1>3. Len(f) \in Nat /\ DOMAIN f = 1 .. Len(f)
  BY <1>1
<1>4. Len(f) = n
  BY <1>2, <1>3, SMT
<1> QED
  BY <1>1, <1>4 DEF IsList

LEMMA DedupedIsList == ASSUME NEW calls, IsList(calls) PROVE IsList(I!Deduped(calls))
<1> DEFINE firsts == {i \in DOMAIN calls : \A j \in 1 .. i - 1 : calls[j] # calls[i]}
           d == I!Deduped(calls)
<1>0. Len(calls) \in Nat /\ DOMAIN calls = 1 .. Len(calls)
  BY ListFacts
<1>1. IsFiniteSet(1 .. Len(calls)) /\ firsts \subseteq 1 .. Len(calls)
  <2>1. IsFiniteSet(1 .. Len(calls))
    BY <1>0, FS_Interval
  <2> QED
    BY <1>0, <2>1
<1>2. IsFiniteSet(firsts)
  BY <1>1, FS_Subset, Zenon
<1>3. Cardinality(firsts) \in Nat
  BY <1>2, FS_CardinalityType, Zenon
<1>4. d = [k \in 1 .. Cardinality(firsts) |-> calls[CHOOSE i \in firsts : Cardinality({j \in firsts : j <= i}) = k]]
  BY Zenon DEF I!Deduped, I!Cardinality, Cardinality
<1> HIDE DEF firsts, d
<1>5. d = [k \in 1 .. Cardinality(firsts) |-> d[k]]
  BY <1>4
<1>6. IsList(d)
  BY <1>3, <1>5, FunctionIsList
<1> QED
  BY <1>6 DEF d

LEMMA PlannedIsList == ASSUME NEW q \in Inquiries PROVE IsList(I!Planned(q))
<1> DEFINE incident == I!Workflow(q) = "incident" /\ q.type = "incident" /\ q.id # None
           alert == I!Workflow(q) = "alert" /\ q.ip # None
           w1 == I!If(incident, <<I!Call("get_incident_timeline", q.id)>>)
           w2 == I!If(incident, <<I!Call("list_playbook_executions", None)>>)
           w3 == I!If(alert, <<I!Call("get_source_ip_context", q.ip), I!Call("list_playbook_executions", None)>>)
           w4 == I!If(I!Workflow(q) = "response_registry" /\ q.ip # None, <<I!Call("get_source_ip_context", q.ip)>>)
           w5 == I!If(I!Workflow(q) = "anomaly", <<I!Call("search_alerts", None)>>)
           all == w1 \o I!Deterministic(q) \o w2 \o w3 \o w4 \o w5
<1>1. IsList(w1) /\ IsList(w2) /\ IsList(w3) /\ IsList(w4) /\ IsList(w5)
  BY TupleIsList, Zenon DEF I!If
<1>2. I!Planned(q) = I!Cut(I!Deduped(all), CallsPerPass)
  BY DEF I!Planned
<1> HIDE DEF w1, w2, w3, w4, w5
<1>3. IsList(all)
  BY <1>1, PlanIsList, JoinIsList
<1> HIDE DEF all
<1>4. IsList(I!Deduped(all))
  BY <1>3, DedupedIsList
<1> QED
  BY <1>2, <1>4, CutFacts, PassAssumption

\* The executor runs the first calls of a plan, one result each.
LEMMA ExecutedFacts ==
    ASSUME NEW calls, IsList(calls), NEW role, NEW broken
    PROVE  /\ IsList(I!Executed(calls, CallsPerPass, role, broken))
           /\ Len(I!Executed(calls, CallsPerPass, role, broken)) <= Len(calls)
<1> DEFINE results == I!Executed(calls, CallsPerPass, role, broken)
           n == Len(I!Cut(calls, CallsPerPass))
<1>1. n \in Nat /\ n <= Len(calls)
  BY CutFacts, ListFacts, PassAssumption
<1>2. results = [i \in 1 .. n |-> I!Result(calls[i], role, i \in broken)]
  BY DEF I!Executed
<1> HIDE DEF results, n
<1>3. results = [i \in 1 .. n |-> results[i]]
  BY <1>2
<1>4. IsList(results) /\ Len(results) = n
  BY <1>1, <1>3, FunctionIsList
<1> QED
  BY <1>1, <1>4 DEF results

\* A context that is not insufficient has a source.
LEMMA ContextHasSource ==
    ASSUME NEW q, I!Context(q) # None
    PROVE  ~I!Context(q).insufficient => I!Context(q).sources # {}
<1>1. \A e, v : I!Found({e}, v).sources # {}
  BY DEF I!Found
<1>2. I!VisibleContext(q).sources # {}
  BY DEF I!VisibleContext, I!Found
<1>3. (\E e, v : I!Context(q) = I!Found({e}, v)) \/ I!Context(q) = I!VisibleContext(q)
  <2> USE DEF I!Context
  <2>1. CASE q.type = "alert"
    BY <2>1 DEF I!AlertContext
  <2>2. CASE q.type = "incident"
    BY <2>2 DEF I!IncidentContext
  <2>3. CASE q.type = "recon_activity"
    BY <2>3 DEF I!ActivityContext
  <2>4. CASE q.type = "response_registry"
    BY <2>4 DEF I!RegistryContext
  <2>5. CASE q.type = "source_ip"
    BY <2>5 DEF I!AddressContext
  <2>6. CASE q.type = "detection"
    BY <2>6 DEF I!DetectionContext
  <2>7. CASE q.type \notin {"alert", "incident", "recon_activity", "response_registry", "source_ip", "detection"}
    BY <2>7
  <2> QED
    BY <2>1, <2>2, <2>3, <2>4, <2>5, <2>6, <2>7
<1> QED
  BY <1>1, <1>2, <1>3, Zenon

-----------------------------------------------------------------------------
\* What the fields of a run say: its fields are those of a run that was asked, its plan and its
\* results are lists and no result is without its call, and a context that suffices has a source.
RunFits ==
    /\ inquiry \in Inquiries
    /\ DOMAIN run = DOMAIN I!NoRun
    /\ IsList(run.calls) /\ IsList(run.results) /\ Len(run.results) <= Len(run.calls)
    /\ run.at \in {"asked", "planned", "context"} => run.results = <<>>
    /\ ~run.context.insufficient => run.context.sources # {}

\* A draft is selected for a severe subject, and begun and kept only under a model's summary.
DraftsRest ==
    /\ run.draft # None => (I!Workflow(inquiry) \in {"alert", "incident"} => run.context.severity \in {"high", "critical"})
    /\ run.at \in {"asked", "planned", "context"} => run.draft = None
    /\ run.at \in {"asked", "planned", "context", "validated", "correlated", "drafting", "unread", "parsed"} => run.drafts = <<>>
    /\ inquiry.asks = "investigation" /\ (run.at \in {"drafting", "unread", "parsed", "drafted"} \/ run.drafts # <<>>) =>
          run.summary = "model" /\ run.draft # None

\* The inductive invariant.
InvestigationInv == RunFits /\ DraftsRest /\ SuccessIsWhole /\ DraftIsSound

-----------------------------------------------------------------------------
\* It holds when the request arrives.
LEMMA InvestigationBegins == I!Init => InvestigationInv
<1> SUFFICES ASSUME I!Init PROVE InvestigationInv
  OBVIOUS
<1>1. run = I!NoRun /\ inquiry \in Inquiries
  BY DEF I!Init
<1>2. run.at = "asked" /\ run.calls = <<>> /\ run.results = <<>> /\ run.drafts = <<>> /\ run.draft = None /\ run.context = I!NoContext
  BY <1>1 DEF I!NoRun
<1>3. IsList(<<>>) /\ Len(<<>>) = 0
  BY TupleIsList, Zenon
<1>4. run.context.insufficient = TRUE
  BY <1>2 DEF I!NoContext
<1>5. RunFits
  BY <1>1, <1>2, <1>3, <1>4 DEF RunFits
<1>6. DOMAIN run.drafts = {}
  BY <1>2
<1> QED
  BY <1>2, <1>5, <1>6 DEF InvestigationInv, DraftsRest, SuccessIsWhole, DraftIsSound, I!SuccessIsWhole, I!DraftIsSound

\* A step that leaves the request, the stage of the run and its result alone changes nothing of it.
LEMMA RunUnchanged ==
    ASSUME InvestigationInv, UNCHANGED <<inquiry, run>>
    PROVE  InvestigationInv'
  BY DEF InvestigationInv, RunFits, DraftsRest, SuccessIsWhole, DraftIsSound, I!SuccessIsWhole, I!DraftIsSound, I!Workflow, I!SourcesOf

\* A status that success follows from means a whole run.
LEMMA SuccessMeansWhole ==
    ASSUME RunFits, I!FinalStatus(run) = "success"
    PROVE  /\ run.summary = "model"
           /\ Len(run.results) = Len(run.calls)
           /\ \A i \in DOMAIN run.results : run.results[i].status = "success"
           /\ run.context.sources \cup I!SourcesOf(run.accepted) # {}
<1>1. ~(run.context.insufficient /\ I!SourcesOf(run.accepted) = {}) /\ run.summary = "model"
  BY DEF I!FinalStatus
<1>2. ~(Len(run.results) < Len(run.calls)) /\ \A i \in DOMAIN run.results : run.results[i].status = "success"
  BY <1>1 DEF I!FinalStatus
<1>3. Len(run.results) \in Nat /\ Len(run.calls) \in Nat /\ Len(run.results) <= Len(run.calls)
  BY ListFacts DEF RunFits
<1> QED
  BY <1>1, <1>2, <1>3 DEF RunFits

\* A run that ends, whole if it is said to, fits as before.
LEMMA EndedKeeps ==
    ASSUME InvestigationInv, NEW status, run' = I!Ended(run, status), inquiry' = inquiry,
           status = "success" /\ inquiry.asks = "investigation" => I!FinalStatus(run) = "success"
    PROVE  InvestigationInv'
<1>1. DOMAIN run = DOMAIN I!NoRun
  BY DEF InvestigationInv, RunFits
<1>2. {"at", "status", "calls", "results", "context", "accepted", "draft", "drafts", "summary"} \subseteq DOMAIN run
  BY <1>1 DEF I!NoRun
<1>3. /\ run'.at = "ended" /\ run'.status = status /\ run'.calls = run.calls /\ run'.results = run.results
      /\ run'.context = run.context /\ run'.accepted = run.accepted /\ run'.draft = run.draft /\ run'.drafts = run.drafts
      /\ run'.summary = run.summary /\ DOMAIN run' = DOMAIN run
  BY <1>2 DEF I!Ended
<1>4. RunFits'
  BY <1>1, <1>3 DEF InvestigationInv, RunFits, I!NoRun, I!NoContext
<1>5. DraftsRest'
  BY <1>3 DEF InvestigationInv, DraftsRest, I!Workflow
<1>6. SuccessIsWhole'
  BY <1>3, SuccessMeansWhole DEF InvestigationInv, SuccessIsWhole, I!SuccessIsWhole, I!SourcesOf
<1>7. DraftIsSound'
  BY <1>3 DEF InvestigationInv, DraftIsSound, I!DraftIsSound, I!Workflow
<1> QED
  BY <1>4, <1>5, <1>6, <1>7 DEF InvestigationInv

\* A stopped run keeps its plan only.
LEMMA StoppedKeeps ==
    ASSUME InvestigationInv, run' = I!Stopped, inquiry' = inquiry
    PROVE  InvestigationInv'
<1>1. /\ run'.at = "ended" /\ run'.status \in {"cancelled", "timeout"} /\ run'.calls = run.calls /\ run'.results = <<>>
      /\ run'.context = I!NoContext /\ run'.draft = None /\ run'.drafts = <<>> /\ DOMAIN run' = DOMAIN I!NoRun
  BY DEF I!Stopped, I!NoRun
<1>2. IsList(<<>>) /\ Len(<<>>) = 0 /\ Len(run.calls) \in Nat
  BY TupleIsList, ListFacts DEF InvestigationInv, RunFits
<1>3. DOMAIN I!NoRun' = DOMAIN I!NoRun /\ run'.context.insufficient = TRUE
  BY <1>1 DEF I!NoContext, I!NoRun
<1>4. RunFits'
  BY <1>1, <1>2, <1>3 DEF InvestigationInv, RunFits
<1>5. DOMAIN run'.drafts = {}
  BY <1>1
<1> QED
  BY <1>1, <1>4, <1>5 DEF InvestigationInv, DraftsRest, SuccessIsWhole, DraftIsSound, I!SuccessIsWhole, I!DraftIsSound

\* A step to another stage that leaves everything but what it writes alone.
LEMMA Fields ==
    ASSUME InvestigationInv
    PROVE  {"at", "calls", "context", "results", "accepted", "draft", "summary", "repairs", "written", "tools", "drafts", "status"} \subseteq DOMAIN run
  BY DEF InvestigationInv, RunFits, I!NoRun

LEMMA PlanKeeps == ASSUME InvestigationInv, I!Plan PROVE InvestigationInv'
<1>1. run.at = "asked" /\ inquiry.asks = "investigation" /\ inquiry' = inquiry
  BY DEF I!Plan, I!Become
<1>2. CASE run' = I!Ended(run, "failed")
  BY <1>1, <1>2, EndedKeeps
<1>3. CASE run' = [run EXCEPT !.at = "raised"]
  <2>1. /\ run'.at = "raised" /\ run'.calls = run.calls /\ run'.results = run.results /\ run'.context = run.context
        /\ run'.draft = run.draft /\ run'.drafts = run.drafts /\ run'.summary = run.summary /\ DOMAIN run' = DOMAIN run
    BY <1>3, Fields
  <2> QED
    BY <1>1, <2>1 DEF InvestigationInv, RunFits, DraftsRest, SuccessIsWhole, DraftIsSound, I!SuccessIsWhole, I!DraftIsSound, I!Workflow, I!NoRun, I!NoContext
<1>4. CASE run' = [run EXCEPT !.at = "planned", !.calls = I!Planned(inquiry)]
  <2>0. PICK p : p = I!Planned(inquiry)
    OBVIOUS
  <2>1. /\ run'.at = "planned" /\ run'.calls = p /\ run'.results = run.results /\ run'.context = run.context
        /\ run'.draft = run.draft /\ run'.drafts = run.drafts /\ run'.summary = run.summary /\ DOMAIN run' = DOMAIN run
    BY <1>4, <2>0, Fields
  <2>2. IsList(p) /\ Len(p) \in Nat
    BY <2>0, PlannedIsList, ListFacts DEF InvestigationInv, RunFits
  <2>3. run.results = <<>>
    BY <1>1 DEF InvestigationInv, RunFits
  <2> QED
    BY <1>1, <2>1, <2>2, <2>3 DEF InvestigationInv, RunFits, DraftsRest, SuccessIsWhole, DraftIsSound, I!SuccessIsWhole, I!DraftIsSound, I!Workflow, I!NoRun, I!NoContext
<1> QED
  BY <1>2, <1>3, <1>4 DEF I!Plan, I!Become

LEMMA BuildContextKeeps == ASSUME InvestigationInv, I!BuildContext PROVE InvestigationInv'
<1>1. run.at = "planned" /\ inquiry' = inquiry
  BY DEF I!BuildContext, I!Become
<1>2. CASE run' = I!Stopped
  BY <1>1, <1>2, StoppedKeeps
<1>3. CASE run' = I!Ended(run, "insufficient_context")
  BY <1>1, <1>3, EndedKeeps
<1>4. CASE I!Context(inquiry) # None /\ run' = [run EXCEPT !.at = "context", !.context = I!Context(inquiry)]
  <2>0. PICK x : x = I!Context(inquiry)
    OBVIOUS
  <2>1. /\ run'.at = "context" /\ run'.calls = run.calls /\ run'.results = run.results /\ run'.context = x
        /\ run'.draft = run.draft /\ run'.drafts = run.drafts /\ run'.summary = run.summary /\ DOMAIN run' = DOMAIN run
    BY <1>4, <2>0, Fields
  <2>2. ~x.insufficient => x.sources # {}
    BY <1>4, <2>0, ContextHasSource
  <2>3. run.draft = None /\ run.drafts = <<>> /\ DOMAIN run.drafts = {}
    BY <1>1 DEF InvestigationInv, DraftsRest
  <2> QED
    BY <1>1, <2>1, <2>2, <2>3 DEF InvestigationInv, RunFits, DraftsRest, SuccessIsWhole, DraftIsSound, I!SuccessIsWhole, I!DraftIsSound, I!Workflow, I!NoRun, I!NoContext
<1> QED
  BY <1>2, <1>3, <1>4 DEF I!BuildContext, I!Become

LEMMA RunToolsKeeps == ASSUME InvestigationInv, NEW broken, I!RunTools(broken) PROVE InvestigationInv'
<1>1. run.at = "context" /\ inquiry' = inquiry
  BY DEF I!RunTools, I!Become
<1>2. CASE run' = I!Stopped
  BY <1>1, <1>2, StoppedKeeps
<1>3. ASSUME NEW results, NEW accepted, NEW d, results = I!Executed(run.calls, CallsPerPass, inquiry.role, broken),
             d = I!SelectedDraft(inquiry, run.context, accepted),
             run' = [run EXCEPT !.at = "validated", !.results = results, !.accepted = accepted, !.draft = d]
      PROVE InvestigationInv'
  <2>1. /\ run'.at = "validated" /\ run'.calls = run.calls /\ run'.results = results /\ run'.context = run.context
        /\ run'.draft = d /\ run'.drafts = run.drafts /\ run'.summary = run.summary /\ DOMAIN run' = DOMAIN run
    BY <1>3, Fields
  <2>2. IsList(results) /\ Len(results) <= Len(run.calls)
    BY <1>3, ExecutedFacts DEF InvestigationInv, RunFits
  <2>3. d # None => (I!Workflow(inquiry) \in {"alert", "incident"} => run.context.severity \in {"high", "critical"})
    BY <1>3 DEF I!SelectedDraft
  <2>4. run.drafts = <<>> /\ DOMAIN run.drafts = {}
    BY <1>1 DEF InvestigationInv, DraftsRest
  <2> QED
    BY <1>1, <2>1, <2>2, <2>3, <2>4 DEF InvestigationInv, RunFits, DraftsRest, SuccessIsWhole, DraftIsSound, I!SuccessIsWhole, I!DraftIsSound, I!Workflow, I!NoRun, I!NoContext
<1> DEFINE r == I!Executed(run.calls, CallsPerPass, inquiry.role, broken)
           a == I!Accepted(inquiry, r)
           s == I!SelectedDraft(inquiry, run.context, a)
<1>4. run' = I!Stopped \/ run' = [run EXCEPT !.at = "validated", !.results = r, !.accepted = a, !.draft = s]
  BY DEF I!RunTools, I!Become
<1> QED
  BY <1>2, <1>3, <1>4

LEMMA CorrelateKeeps == ASSUME InvestigationInv, NEW fits, NEW reply, I!Correlate(fits, reply) PROVE InvestigationInv'
<1>1. run.at = "validated" /\ inquiry' = inquiry
  BY DEF I!Correlate, I!Become
<1>2. CASE run' = I!Stopped
  BY <1>1, <1>2, StoppedKeeps
<1>3. ASSUME NEW s, run' = [run EXCEPT !.at = "correlated", !.summary = s] PROVE InvestigationInv'
  <2>1. /\ run'.at = "correlated" /\ run'.calls = run.calls /\ run'.results = run.results /\ run'.context = run.context
        /\ run'.draft = run.draft /\ run'.drafts = run.drafts /\ run'.summary = s /\ DOMAIN run' = DOMAIN run
    BY <1>3, Fields
  <2>2. run.drafts = <<>> /\ DOMAIN run.drafts = {}
    BY <1>1 DEF InvestigationInv, DraftsRest
  <2> QED
    BY <1>1, <2>1, <2>2 DEF InvestigationInv, RunFits, DraftsRest, SuccessIsWhole, DraftIsSound, I!SuccessIsWhole, I!DraftIsSound, I!Workflow, I!NoRun, I!NoContext
<1> QED
  BY <1>2, <1>3 DEF I!Correlate, I!Become

LEMMA FinishWithoutDraftKeeps == ASSUME InvestigationInv, I!FinishWithoutDraft PROVE InvestigationInv'
<1>1. inquiry' = inquiry /\ run' = I!Ended(run, I!FinalStatus(run))
  BY DEF I!FinishWithoutDraft, I!Become
<1> QED
  BY <1>1, EndedKeeps

\* A step of the draft from a stage where nothing is drafted: what it rests on is left alone.
LEMMA DraftStageKeeps ==
    ASSUME InvestigationInv, inquiry' = inquiry, DOMAIN run' = DOMAIN run, run'.calls = run.calls, run'.results = run.results,
           run'.context = run.context, run'.draft = run.draft, run'.summary = run.summary, run'.drafts = run.drafts,
           run'.at \in {"drafting", "unread", "parsed"}, run.at \in {"asked", "correlated", "drafting", "unread", "parsed"},
           inquiry.asks = "investigation" => run.summary = "model" /\ run.draft # None
    PROVE  InvestigationInv'
<1>1. run.drafts = <<>> /\ DOMAIN run.drafts = {}
  BY DEF InvestigationInv, DraftsRest
<1> QED
  BY <1>1 DEF InvestigationInv, RunFits, DraftsRest, SuccessIsWhole, DraftIsSound, I!SuccessIsWhole, I!DraftIsSound, I!Workflow, I!NoRun, I!NoContext

\* The end of the draft: one that is a success has content that matches the schema.
LEMMA DraftedKeeps ==
    ASSUME InvestigationInv, NEW status, NEW content, inquiry' = inquiry, DOMAIN run' = DOMAIN run, run'.calls = run.calls,
           run'.results = run.results, run'.context = run.context, run'.draft = run.draft, run'.summary = run.summary,
           run'.drafts = <<[status |-> status, content |-> content]>>, run'.at = "drafted",
           run.at \notin {"ended", "raised"},
           inquiry.asks = "investigation" => run.summary = "model" /\ run.draft # None,
           status = "success" => content = "valid"
    PROVE  InvestigationInv'
<1>1. DOMAIN run'.drafts = {1} /\ run'.drafts[1].status = status /\ run'.drafts[1].content = content
  OBVIOUS
<1> QED
  BY <1>1 DEF InvestigationInv, RunFits, DraftsRest, SuccessIsWhole, DraftIsSound, I!SuccessIsWhole, I!DraftIsSound, I!Workflow, I!NoRun, I!NoContext

LEMMA StartDraftKeeps == ASSUME InvestigationInv, NEW broken, I!StartDraft(broken) PROVE InvestigationInv'
<1>1. inquiry' = inquiry /\ run.at \in {"asked", "correlated"}
  BY DEF I!StartDraft, I!Become
<1>2. inquiry.asks = "investigation" => run.summary = "model" /\ run.draft # None
  BY DEF I!StartDraft
<1>3. CASE run' = [run EXCEPT !.at = "raised"]
  <2>1. /\ run'.at = "raised" /\ run'.calls = run.calls /\ run'.results = run.results /\ run'.context = run.context
        /\ run'.draft = run.draft /\ run'.drafts = run.drafts /\ run'.summary = run.summary /\ DOMAIN run' = DOMAIN run
    BY <1>3, Fields
  <2>2. run.drafts = <<>> /\ DOMAIN run.drafts = {}
    BY <1>1 DEF InvestigationInv, DraftsRest
  <2> QED
    BY <1>1, <2>1, <2>2 DEF InvestigationInv, RunFits, DraftsRest, SuccessIsWhole, DraftIsSound, I!SuccessIsWhole, I!DraftIsSound, I!Workflow, I!NoRun, I!NoContext
<1>4. CASE run' = [run EXCEPT !.at = "drafted", !.drafts = <<[status |-> "insufficient_context", content |-> None]>>]
  <2>1. /\ run'.at = "drafted" /\ run'.calls = run.calls /\ run'.results = run.results /\ run'.context = run.context
        /\ run'.draft = run.draft /\ run'.summary = run.summary /\ DOMAIN run' = DOMAIN run
        /\ run'.drafts = <<[status |-> "insufficient_context", content |-> None]>>
    BY <1>4, Fields
  <2> QED
    BY <1>1, <1>2, <2>1, DraftedKeeps
<1>5. ASSUME NEW results, run' = [run EXCEPT !.at = "drafting", !.tools = results] PROVE InvestigationInv'
  <2>1. /\ run'.at = "drafting" /\ run'.calls = run.calls /\ run'.results = run.results /\ run'.context = run.context
        /\ run'.draft = run.draft /\ run'.drafts = run.drafts /\ run'.summary = run.summary /\ DOMAIN run' = DOMAIN run
    BY <1>5, Fields
  <2> QED
    BY <1>1, <1>2, <2>1, DraftStageKeeps
<1>6. \/ run' = [run EXCEPT !.at = "raised"]
      \/ run' = [run EXCEPT !.at = "drafted", !.drafts = <<[status |-> "insufficient_context", content |-> None]>>]
      \/ \E results : run' = [run EXCEPT !.at = "drafting", !.tools = results]
  BY Zenon DEF I!StartDraft, I!Become
<1> QED
  BY <1>3, <1>4, <1>5, <1>6

\* From a stage of the draft: what an investigation rests on, and what the run becomes.
LEMMA DraftingRests ==
    ASSUME InvestigationInv, run.at \in {"drafting", "unread", "parsed"}
    PROVE  inquiry.asks = "investigation" => run.summary = "model" /\ run.draft # None
  BY DEF InvestigationInv, DraftsRest

LEMMA DraftedFields ==
    ASSUME InvestigationInv, run.at \in {"drafting", "unread", "parsed"}, NEW status, NEW content,
           inquiry' = inquiry, status = "success" => content = "valid",
           NEW r, r = run \/ r = [run EXCEPT !.repairs = @ + 1], run' = I!Drafted(r, status, content)
    PROVE  InvestigationInv'
<1>1. /\ r.calls = run.calls /\ r.results = run.results /\ r.context = run.context /\ r.draft = run.draft
      /\ r.summary = run.summary /\ DOMAIN r = DOMAIN run
  BY Fields
<1>2. /\ run'.at = "drafted" /\ run'.calls = run.calls /\ run'.results = run.results /\ run'.context = run.context
      /\ run'.draft = run.draft /\ run'.summary = run.summary /\ DOMAIN run' = DOMAIN run
      /\ run'.drafts = <<[status |-> status, content |-> content]>>
  <2>1. run' = [[r EXCEPT !.at = "drafted"] EXCEPT !.drafts = <<[status |-> status, content |-> content]>>]
    BY DEF I!Drafted
  <2> QED
    BY <1>1, <2>1, Fields
<1> QED
  BY <1>2, DraftingRests, DraftedKeeps

LEMMA WriteKeeps == ASSUME InvestigationInv, NEW fits, NEW reply, NEW text, I!Write(fits, reply, text) PROVE InvestigationInv'
<1>1. inquiry' = inquiry /\ run.at = "drafting"
  BY DEF I!Write, I!Become
<1>2. CASE run' = I!Drafted(run, "insufficient_context", None)
  BY <1>1, <1>2, DraftedFields, Zenon
<1>3. CASE reply # "success" /\ run' = I!Drafted(run, reply, None)
  BY <1>1, <1>3, DraftedFields, Zenon
<1>4. ASSUME NEW a \in {"unread", "parsed"}, run' = [run EXCEPT !.at = a, !.written = text] PROVE InvestigationInv'
  <2>1. /\ run'.at = a /\ run'.calls = run.calls /\ run'.results = run.results /\ run'.context = run.context
        /\ run'.draft = run.draft /\ run'.drafts = run.drafts /\ run'.summary = run.summary /\ DOMAIN run' = DOMAIN run
    BY <1>4, Fields
  <2> QED
    BY <1>1, <2>1, DraftStageKeeps, DraftingRests
<1> DEFINE b == IF text = "unreadable" THEN "unread" ELSE "parsed"
<1>5. \/ run' = I!Drafted(run, "insufficient_context", None)
      \/ reply # "success" /\ run' = I!Drafted(run, reply, None)
      \/ run' = [run EXCEPT !.at = b, !.written = text]
  BY Zenon DEF I!Write, I!Become
<1>6. b \in {"unread", "parsed"}
  OBVIOUS
<1> HIDE DEF b
<1> QED
  BY <1>2, <1>3, <1>4, <1>5, <1>6

LEMMA RepairParseKeeps == ASSUME InvestigationInv, NEW reply, NEW text, I!RepairParse(reply, text) PROVE InvestigationInv'
<1>1. inquiry' = inquiry /\ run.at = "unread"
  BY DEF I!RepairParse, I!Become
<1> DEFINE tried == [run EXCEPT !.repairs = @ + 1]
<1>2. CASE run' = I!Drafted(tried, "parse_failed", None)
  BY <1>1, <1>2, DraftedFields
<1>3. CASE run' = [tried EXCEPT !.at = "parsed", !.written = text]
  <2>1. /\ run'.at = "parsed" /\ run'.calls = run.calls /\ run'.results = run.results /\ run'.context = run.context
        /\ run'.draft = run.draft /\ run'.drafts = run.drafts /\ run'.summary = run.summary /\ DOMAIN run' = DOMAIN run
    BY <1>3, Fields
  <2> QED
    BY <1>1, <2>1, DraftStageKeeps, DraftingRests
<1> QED
  BY <1>2, <1>3 DEF I!RepairParse, I!Become

LEMMA RepairSchemaKeeps == ASSUME InvestigationInv, NEW reply, NEW text, I!RepairSchema(reply, text) PROVE InvestigationInv'
<1>1. inquiry' = inquiry /\ run.at = "parsed"
  BY DEF I!RepairSchema, I!Become
<1> DEFINE tried == [run EXCEPT !.repairs = @ + 1]
<1>2. CASE run' = I!Drafted(tried, "validation_failed", None)
  BY <1>1, <1>2, DraftedFields
<1>3. CASE text = "valid" /\ run' = I!Drafted(tried, "success", text)
  BY <1>1, <1>3, DraftedFields
<1> QED
  BY <1>2, <1>3 DEF I!RepairSchema, I!Become

LEMMA AcceptKeeps == ASSUME InvestigationInv, I!Accept PROVE InvestigationInv'
<1>1. inquiry' = inquiry /\ run.at = "parsed" /\ run.written = "valid" /\ run' = I!Drafted(run, "success", run.written)
  BY DEF I!Accept, I!Become
<1> QED
  BY <1>1, DraftedFields, Zenon

LEMMA FinishKeeps == ASSUME InvestigationInv, I!Finish PROVE InvestigationInv'
<1> DEFINE s == IF inquiry.asks = "draft" THEN run.drafts[1].status ELSE I!FinalStatus(run)
<1>1. inquiry' = inquiry /\ run' = I!Ended(run, s)
  BY DEF I!Finish, I!Become
<1>2. inquiry.asks = "investigation" => s = I!FinalStatus(run)
  OBVIOUS
<1> HIDE DEF s
<1> QED
  BY <1>1, <1>2, EndedKeeps

\* Every step of a request preserves the invariant.
LEMMA InvestigationStep == InvestigationInv /\ [I!Next]_(I!inquiryVars) => InvestigationInv'
<1> SUFFICES ASSUME InvestigationInv, [I!Next]_(I!inquiryVars) PROVE InvestigationInv'
  OBVIOUS
<1>1. ASSUME NEW why, I!Stop(why) PROVE InvestigationInv'
  BY <1>1, RunUnchanged DEF I!Stop
<1>2. ASSUME NEW e, NEW there, NEW severity, I!Edit(e, there, severity) PROVE InvestigationInv'
  BY <1>2, RunUnchanged DEF I!Edit
<1>3. CASE UNCHANGED I!inquiryVars
  BY <1>3, RunUnchanged DEF I!inquiryVars
<1> QED
  BY <1>1, <1>2, <1>3, PlanKeeps, BuildContextKeeps, RunToolsKeeps, CorrelateKeeps, FinishWithoutDraftKeeps, StartDraftKeeps,
     WriteKeeps, RepairParseKeeps, RepairSchemaKeeps, AcceptKeeps, FinishKeeps, Zenon DEF I!Next

\* The strengthened invariant of the investigations: what run_investigation holds at each of its
\* stages, whatever tools fail, rows change and however it is stopped.
THEOREM InvestigationInductive == I!Spec => []InvestigationInv
  BY InvestigationBegins, InvestigationStep, PTL DEF I!Spec

\* An investigation that reports success carried out every planned read and rests on the model's
\* summary (_final_status), for every plan, bound on calls and number of edits.
THEOREM InvestigationsSucceedWhole == I!Spec => []SuccessIsWhole
  BY InvestigationInductive, PTL DEF InvestigationInv

\* A draft returned as a success matches its schema, and one that comes out of an investigation
\* rests on the model's summary of a subject that was severe when it was read (create_draft).
THEOREM DraftsAreSound == I!Spec => []DraftIsSound
  BY InvestigationInductive, PTL DEF InvestigationInv

-----------------------------------------------------------------------------
(***************************************************************************)
(* The turn of an analyst (AnalystTurn), for every scene, every response of *)
(* the planner, every answer of the model and every bound on sizes.        *)
(***************************************************************************)

\* A plan that reads, reads by the identity of the entity it resolved.
PlanIsBound(plan) ==
    plan.strategy = "quick_evidence_lookup" /\ plan.entities # <<>> =>
        LET key == T!BindingKey(plan.entities[1].type, plan.tools[1]) IN
        /\ key # None /\ key \in DOMAIN plan.filters
        /\ plan.filters[key] = plan.entities[1].id
        /\ DOMAIN plan.filters \subseteq T!BoundKeys(plan.entities[1].type, plan.tools[1])

\* The read that is asked for filters on that identity.
ReadIsBound(plan, tool, args) ==
    plan.entities # <<>> =>
        LET key == T!BindingKey(plan.entities[1].type, plan.tools[1]) IN
        key \in DOMAIN T!Applied(tool, args) /\ T!Applied(tool, args)[key] = plan.entities[1].id

\* Every record the read returned matches the filters the tool applied.
ReturnedMatches ==
    \A r \in lookup.returned : \A k \in DOMAIN T!Applied(lookup.tool, lookup.args) :
        k \in DOMAIN r.keys /\ r.keys[k] = T!Applied(lookup.tool, lookup.args)[k]

\* The inductive invariant of a turn.
TurnInv ==
    /\ DOMAIN lookup = DOMAIN T!NoLookup
    /\ stage \in {"new", "plan", "repair", "prepare"} => lookup = T!NoLookup
    /\ outcome.plan # None => PlanIsBound(outcome.plan)
    /\ lookup.tool # None /\ outcome.plan # None => ReadIsBound(outcome.plan, lookup.tool, lookup.args)
    /\ ReturnedMatches
    /\ AnswerIsGrounded

-----------------------------------------------------------------------------
\* A condition whose issue is not raised is false.
LEMMA NoIssue == \A condition, code, field : T!When(condition, code, field) = {} => ~condition
  BY DEF T!When

\* What a plan without issues says of a lookup: one tool, and its entity bound to its filters.
LEMMA EmptyParts == \A A, B : A \cup B = {} => A = {} /\ B = {}
  OBVIOUS

LEMMA AcceptedIsBound ==
    ASSUME NEW r, NEW kept, NEW action, NEW preserved, T!Issues(r, kept, action, preserved) = {}
    PROVE  PlanIsBound(T!Accepted(r.plan))
<1> DEFINE p == r.plan
           entities == T!Entities(p)
           tools == T!Tools(p)
           filters == T!Filters(p)
           contract == T!Contracts(T!Get(p, "current_turn_intent"), T!Get(p, "proposed_strategy"))
<1>1. T!SchemaIssues(p) = {} /\ T!SemanticIssues(p, kept) = {}
  <2>1. r.plan # None /\ ~(r.size > PlanLimit)
    BY DEF T!Issues
  <2>2. T!SchemaIssues(p) \subseteq T!Issues(r, kept, action, preserved)
    BY <2>1, SMT DEF T!Issues
  <2>3. T!SemanticIssues(p, kept) \subseteq T!Issues(r, kept, action, preserved)
    BY <2>1, SMT DEF T!Issues
  <2> QED
    BY <2>2, <2>3
<1>2. T!Required \ DOMAIN p = {} /\ T!Get(p, "proposed_strategy") \in DOMAIN T!StrategyCapability
  <2>1. T!When(T!Required \ DOMAIN p # {}, "missing_required_fields", "$") = {}
    BY <1>1, EmptyParts, Zenon DEF T!SchemaIssues
  <2>2. T!When(T!Get(p, "proposed_strategy") \notin DOMAIN T!StrategyCapability, "invalid_enum", "proposed_strategy") = {}
    BY <1>1, EmptyParts, Zenon DEF T!SchemaIssues
  <2> QED
    BY <2>1, <2>2, NoIssue
<1>3. p.proposed_strategy = T!Get(p, "proposed_strategy")
  BY <1>2 DEF T!Required, T!Get
<1>4. contract # None
  <2>1. T!When(T!Get(p, "proposed_strategy") \in DOMAIN T!StrategyCapability /\ contract = None, "action_strategy_incompatible", "proposed_strategy") = {}
    BY <1>1, EmptyParts, Zenon DEF T!SemanticIssues
  <2> QED
    BY <1>2, <2>1, NoIssue
<1>5. /\ ~(contract.reads /\ (Len(tools) # 1 \/ T!Get(p, "evidence_sufficiency") # "insufficient"))
      /\ ~(Len(entities) < contract.least \/ Len(entities) > contract.most)
  <2> DEFINE w1 == T!When(contract.reads /\ (Len(tools) # 1 \/ T!Get(p, "evidence_sufficiency") # "insufficient"), "lookup_contract", "proposed_tool_categories")
             w2 == T!When(Len(entities) < contract.least \/ Len(entities) > contract.most, "entity_cardinality", "resolved_entities")
  <2>1. (IF contract = None THEN {} ELSE T!ContractIssues(p, contract)) = {}
    BY <1>1, EmptyParts, Zenon DEF T!SemanticIssues
  <2>2. T!ContractIssues(p, contract) = {}
    BY <1>4, <2>1
  <2> HIDE DEF contract
  <2>3. w1 = {} /\ w2 = {}
    BY <2>2, EmptyParts, Zenon DEF T!ContractIssues
  <2> QED
    BY <2>3, NoIssue
<1>6. p.proposed_strategy = "quick_evidence_lookup" /\ Len(entities) = 1 /\ Len(tools) = 1
        => T!BindingIssues(entities[1], tools[1], filters) = {}
  <2>1. (IF T!Get(p, "proposed_strategy") = "quick_evidence_lookup" /\ Len(entities) = 1 /\ Len(tools) = 1
         THEN T!BindingIssues(entities[1], tools[1], filters) ELSE {}) = {}
    BY <1>1, EmptyParts, Zenon DEF T!SemanticIssues
  <2> QED
    BY <1>3, <2>1
<1>7. p.proposed_strategy = "quick_evidence_lookup" => contract.reads = TRUE /\ contract.most = 1
  BY <1>3, <1>4 DEF T!Contracts, T!Contract
<1>8. entities # <<>> => Len(entities) \in {1, 2}
  BY DEF T!Entities
<1> DEFINE plan == T!Accepted(p)
<1>9. plan.strategy = p.proposed_strategy /\ plan.entities = entities /\ plan.tools = tools /\ plan.filters = filters
  BY DEF T!Accepted
<1>10. ASSUME plan.strategy = "quick_evidence_lookup", entities # <<>>
       PROVE  LET key == T!BindingKey(entities[1].type, tools[1]) IN
              /\ key # None /\ key \in DOMAIN filters
              /\ filters[key] = entities[1].id
              /\ DOMAIN filters \subseteq T!BoundKeys(entities[1].type, tools[1])
  <2>1. contract.reads = TRUE /\ contract.most = 1
    BY <1>7, <1>9, <1>10
  <2> HIDE DEF contract, entities, tools, filters
  <2>2. Len(tools) = 1
    BY <1>5, <2>1
  <2>3. Len(entities) = 1
    BY <1>5, <1>8, <1>10, <2>1
  <2>4. T!BindingIssues(entities[1], tools[1], filters) = {}
    BY <1>6, <1>9, <1>10, <2>2, <2>3
  <2> QED
    BY <2>4, NoIssue DEF T!BindingIssues
<1> QED
  BY <1>9, <1>10 DEF PlanIsBound

\* The parts of argument lists.
LEMMA PickFacts ==
    \A f, keys : /\ DOMAIN T!Pick(f, keys) = keys \cap DOMAIN f
                 /\ \A k \in keys \cap DOMAIN f : T!Pick(f, keys)[k] = f[k]
  BY DEF T!Pick

\* Of a list of keys, the first that is given is taken.
LEMMA FirstOfFacts ==
    ASSUME NEW f, NEW keys, NEW i \in DOMAIN keys, DOMAIN keys \subseteq Nat, keys[i] \in DOMAIN f,
           \A j \in DOMAIN keys : j < i => keys[j] \notin DOMAIN f
    PROVE  T!FirstOf(f, keys) = T!Pick(f, {keys[i]})
<1> DEFINE at == {j \in DOMAIN keys : keys[j] \in DOMAIN f}
           least == CHOOSE j \in at : \A l \in at : j <= l
<1>1. T!FirstOf(f, keys) = IF at = {} THEN [k \in {} |-> None] ELSE T!Pick(f, {keys[least]})
  BY Zenon DEF T!FirstOf
<1>2. i \in at /\ \A j \in at : i <= j
  OBVIOUS
<1>3. \A j \in at : j # i => ~(\A l \in at : j <= l)
  BY <1>2
<1>4. least = i
  <2> HIDE DEF at
  <2>1. least \in at /\ \A j \in at : least <= j
    BY <1>2, Zenon
  <2> HIDE DEF least
  <2> QED
    BY <1>3, <2>1, Zenon
<1> QED
  BY <1>1, <1>2, <1>4

\* The key of a registry read, and that of a read of events, is the one that is given.
LEMMA RegistryKey ==
    ASSUME NEW f, NEW key \in {"registry_id", "source_ip"}, key \in DOMAIN f, DOMAIN f \subseteq {key, "limit"}
    PROVE  T!FirstOf(f, <<"registry_id", "source_ip">>) = T!Pick(f, {key})
<1> DEFINE keys == <<"registry_id", "source_ip">>
<1>1. DOMAIN keys = {1, 2} /\ keys[1] = "registry_id" /\ keys[2] = "source_ip"
  OBVIOUS
<1> HIDE DEF keys
<1>2. PICK i \in {1, 2} : keys[i] = key
  BY <1>1
<1>3. \A j \in DOMAIN keys : j < i => keys[j] \notin DOMAIN f
  BY <1>1, <1>2
<1>4. i \in DOMAIN keys /\ DOMAIN keys \subseteq Nat /\ keys[i] \in DOMAIN f
  BY <1>1, <1>2
<1>5. T!FirstOf(f, keys) = T!Pick(f, {keys[i]})
  BY <1>3, <1>4, FirstOfFacts
<1> QED
  BY <1>2, <1>5 DEF keys

LEMMA EventKey ==
    ASSUME NEW f, NEW key \in {"alert_id", "activity_id", "source_ip"}, key \in DOMAIN f, DOMAIN f \subseteq {key, "alert_type", "limit"}
    PROVE  T!FirstOf(f, <<"alert_id", "activity_id", "source_ip">>) = T!Pick(f, {key})
<1> DEFINE keys == <<"alert_id", "activity_id", "source_ip">>
<1>1. DOMAIN keys = {1, 2, 3} /\ keys[1] = "alert_id" /\ keys[2] = "activity_id" /\ keys[3] = "source_ip"
  OBVIOUS
<1> HIDE DEF keys
<1>2. PICK i \in {1, 2, 3} : keys[i] = key
  BY <1>1
<1>3. \A j \in DOMAIN keys : j < i => keys[j] \notin DOMAIN f
  BY <1>1, <1>2
<1>4. i \in DOMAIN keys /\ DOMAIN keys \subseteq Nat /\ keys[i] \in DOMAIN f
  BY <1>1, <1>2
<1>5. T!FirstOf(f, keys) = T!Pick(f, {keys[i]})
  BY <1>3, <1>4, FirstOfFacts
<1> QED
  BY <1>2, <1>5 DEF keys

\* Arguments joined to a bound keep the bound.
LEMMA WithFacts ==
    \A f, g : /\ DOMAIN T!With(f, g) = DOMAIN f \cup DOMAIN g
              /\ \A k \in DOMAIN f : T!With(f, g)[k] = f[k]
              /\ \A k \in DOMAIN g \ DOMAIN f : T!With(f, g)[k] = g[k]
  BY DEF T!With

\* Whatever the bounded read is, the filter on the resolved entity is the one it applies.
LEMMA BoundReadApplies ==
    ASSUME NEW type, NEW id, NEW category, NEW filters, NEW context,
           T!BindingKey(type, category) # None, T!BindingKey(type, category) \in DOMAIN filters,
           filters[T!BindingKey(type, category)] = id,
           DOMAIN filters \subseteq T!BoundKeys(type, category),
           T!ToolRequest(category, filters, context) # None
    PROVE  LET request == T!ToolRequest(category, filters, context)
               key == T!BindingKey(type, category) IN
           key \in DOMAIN T!Applied(request.tool, request.args) /\ T!Applied(request.tool, request.args)[key] = id
<1> DEFINE request == T!ToolRequest(category, filters, context)
           key == T!BindingKey(type, category)
           Bound(tool, args) == key \in DOMAIN T!Applied(tool, args) /\ T!Applied(tool, args)[key] = id
<1> SUFFICES Bound(request.tool, request.args)
  OBVIOUS
<1>0. \A tool, args : request = T!Call(tool, args) => request.tool = tool /\ request.args = args
  BY DEF T!Call
<1>a. key \in DOMAIN filters /\ filters[key] = id
  OBVIOUS
<1>c. DOMAIN filters \subseteq T!BoundKeys(type, category) /\ key # None
  OBVIOUS
<1> HIDE DEF key
<1>1. CASE category = "alerts"
  <2>1. key \in {"alert_id", "source_ip"}
    BY <1>1, <1>c DEF key, T!BindingKey, T!EventCategories
  <2>2. request = T!Call("search_alerts", filters)
    BY <1>1 DEF T!ToolRequest
  <2>3. T!Applied("search_alerts", filters) = T!Pick(filters, DOMAIN filters \ {"limit", "sort"})
    BY DEF T!Applied
  <2>4. Bound("search_alerts", filters)
    BY <1>a, <2>1, <2>3, PickFacts
  <2> QED
    BY <1>0, <2>2, <2>4
<1>2. CASE category = "incidents"
  <2>1. key = "incident_id"
    BY <1>2, <1>c DEF key, T!BindingKey, T!EventCategories
  <2> DEFINE args == T!Pick(filters, {"incident_id"})
  <2>2. request = T!Call("get_incident_timeline", args)
    BY <1>a, <1>2, <2>1 DEF T!ToolRequest, T!Present
  <2>3. T!Applied("get_incident_timeline", args) = T!Pick(args, DOMAIN args \ {"limit", "sort"})
    BY DEF T!Applied
  <2>4. key \in DOMAIN args /\ args[key] = id
    BY <1>a, <2>1, PickFacts
  <2> HIDE DEF args
  <2>5. Bound("get_incident_timeline", args)
    BY <2>1, <2>3, <2>4, PickFacts
  <2> QED
    BY <1>0, <2>2, <2>5
<1>3. CASE category = "source_ip_activity"
  <2>1. key = "source_ip"
    BY <1>3, <1>c DEF key, T!BindingKey, T!EventCategories
  <2>2. request = T!Call("get_source_ip_context", filters)
    BY <1>a, <1>3, <2>1 DEF T!ToolRequest, T!Present
  <2>3. T!Applied("get_source_ip_context", filters) = T!Pick(filters, DOMAIN filters \ {"limit", "sort"})
    BY DEF T!Applied
  <2>4. Bound("get_source_ip_context", filters)
    BY <1>a, <2>1, <2>3, PickFacts
  <2> QED
    BY <1>0, <2>2, <2>4
<1>4. CASE category = "response_registry"
  <2>1. \/ type = "source_ip" /\ key = "source_ip" /\ DOMAIN filters \subseteq {"source_ip", "limit"}
        \/ type = "response_registry" /\ key = "registry_id" /\ DOMAIN filters \subseteq {"registry_id", "limit"}
    BY <1>4, <1>c DEF key, T!BindingKey, T!EventCategories, T!BoundKeys
  <2> DEFINE bound == T!Pick(filters, {key})
             more == T!Pick(filters, {"limit"})
             args == T!With(bound, more)
  <2>2. T!FirstOf(filters, <<"registry_id", "source_ip">>) = bound
    BY <1>a, <2>1, RegistryKey
  <2>3. key \in DOMAIN bound /\ bound[key] = id /\ DOMAIN bound = {key}
    BY <1>a, PickFacts
  <2>4. key \in DOMAIN args /\ args[key] = id /\ DOMAIN args \subseteq {key, "limit"}
    <3>1. DOMAIN more = {"limit"} \cap DOMAIN filters
      BY PickFacts, Zenon
    <3>2. DOMAIN args = DOMAIN bound \cup DOMAIN more /\ \A k \in DOMAIN bound : args[k] = bound[k]
      BY WithFacts, Zenon
    <3> HIDE DEF bound, more, args
    <3> QED
      BY <2>3, <3>1, <3>2
  <2>5. request = T!Call("get_response_registry_context", args)
    <3>1. DOMAIN T!FirstOf(filters, <<"registry_id", "source_ip">>) # {} /\ DOMAIN args # {}
      BY <2>2, <2>3, <2>4
    <3> HIDE DEF bound
    <3> QED
      BY <1>4, <2>2, <3>1 DEF T!ToolRequest
  <2> HIDE DEF args
  <2>6. T!FirstOf(args, <<"registry_id", "source_ip">>) = T!Pick(args, {key})
    BY <2>1, <2>4, RegistryKey
  <2>7. Bound("get_response_registry_context", args)
    <3>1. T!Applied("get_response_registry_context", args) = T!Pick(args, {key})
      BY <2>6 DEF T!Applied
    <3> QED
      BY <2>4, <3>1, PickFacts
  <2> QED
    BY <1>0, <2>5, <2>7
<1>5. CASE category \notin {"alerts", "incidents", "source_ip_activity", "response_registry"}
  <2>1. \/ key = "alert_id" /\ DOMAIN filters \subseteq {"alert_id", "limit"}
        \/ key = "source_ip" /\ DOMAIN filters \subseteq {"source_ip", "alert_type", "limit"}
        \/ key = "activity_id" /\ DOMAIN filters \subseteq {"activity_id"}
    BY <1>5, <1>c DEF key, T!BindingKey, T!EventCategories, T!BoundKeys
  <2> DEFINE bound == T!Pick(filters, {key})
             more == T!Pick(filters, {"alert_type", "limit"})
             args == T!With(bound, more)
  <2>2. T!FirstOf(filters, <<"alert_id", "activity_id", "source_ip">>) = bound
    BY <1>a, <2>1, EventKey
  <2>3. key \in DOMAIN bound /\ bound[key] = id /\ DOMAIN bound = {key}
    BY <1>a, PickFacts
  <2>4. key \in DOMAIN args /\ args[key] = id /\ DOMAIN args \subseteq {key, "alert_type", "limit"}
    <3>1. DOMAIN more = {"alert_type", "limit"} \cap DOMAIN filters
      BY PickFacts, Zenon
    <3>2. DOMAIN args = DOMAIN bound \cup DOMAIN more /\ \A k \in DOMAIN bound : args[k] = bound[k]
      BY WithFacts, Zenon
    <3> HIDE DEF bound, more, args
    <3> QED
      BY <2>3, <3>1, <3>2
  <2>5. request = T!Call("get_related_events", args)
    <3>1. DOMAIN T!FirstOf(filters, <<"alert_id", "activity_id", "source_ip">>) # {} /\ DOMAIN args # {}
      BY <2>2, <2>3, <2>4
    <3> HIDE DEF bound
    <3> QED
      BY <1>5, <2>2, <3>1 DEF T!ToolRequest
  <2> HIDE DEF args
  <2>6. Bound("get_related_events", args)
    <3>1. \/ key = "alert_id" /\ T!Applied("get_related_events", args) = T!Pick(args, {"alert_id"})
          \/ key = "source_ip" /\ T!Applied("get_related_events", args) = T!Pick(args, {"source_ip", "alert_type"})
          \/ key = "activity_id" /\ T!Applied("get_related_events", args) = T!Pick(args, {"activity_id"})
      BY <2>1, <2>4 DEF T!Applied, T!Present
    <3>2. \A keys : key \in keys /\ T!Applied("get_related_events", args) = T!Pick(args, keys) => Bound("get_related_events", args)
      <4> SUFFICES ASSUME NEW keys, key \in keys, T!Applied("get_related_events", args) = T!Pick(args, keys)
                   PROVE  Bound("get_related_events", args)
        OBVIOUS
      <4>1. DOMAIN T!Pick(args, keys) = keys \cap DOMAIN args /\ T!Pick(args, keys)[key] = args[key]
        BY <2>4, PickFacts
      <4> QED
        BY <2>4, <4>1
    <3> HIDE DEF Bound
    <3> QED
      BY <3>1, <3>2
  <2> QED
    BY <1>0, <2>5, <2>6
<1> QED
  BY <1>1, <1>2, <1>3, <1>4, <1>5

-----------------------------------------------------------------------------
LEMMA TurnBegins == T!Init => TurnInv
<1> SUFFICES ASSUME T!Init PROVE TurnInv
  OBVIOUS
<1>1. lookup = T!NoLookup /\ stage = "new" /\ outcome = T!Ended(None, None, FALSE, None, FALSE)
  BY DEF T!Init
<1>2. lookup.tool = None /\ lookup.returned = {} /\ outcome.plan = None
  BY <1>1 DEF T!NoLookup, T!Ended
<1> QED
  BY <1>1, <1>2 DEF TurnInv, ReturnedMatches, AnswerIsGrounded, T!AnswerIsGrounded

\* A step that leaves the plan and the read alone, and answers nothing, preserves the invariant.
LEMMA PlanAndReadStand ==
    ASSUME TurnInv, outcome' = outcome, lookup' = lookup,
           stage' \in {"new", "plan", "repair", "prepare"} => stage \in {"new", "plan", "repair", "prepare"},
           AnswerIsGrounded'
    PROVE  TurnInv'
<1>1. DOMAIN T!NoLookup' = DOMAIN T!NoLookup /\ T!NoLookup' = T!NoLookup
  BY DEF T!NoLookup
<1>2. ReturnedMatches'
  BY DEF TurnInv, ReturnedMatches
<1>3. outcome.plan # None => PlanIsBound(outcome.plan)'
  BY DEF TurnInv, PlanIsBound
<1>4. lookup.tool # None /\ outcome.plan # None => ReadIsBound(outcome.plan, lookup.tool, lookup.args)'
  BY DEF TurnInv, ReadIsBound
<1> QED
  BY <1>1, <1>2, <1>3, <1>4 DEF TurnInv

\* The end of planning before any read: the plan it may leave is bound.
LEMMA Concludes ==
    ASSUME TurnInv, NEW o, T!Conclude(o), lookup = T!NoLookup, lookup' = lookup, o.plan # None => PlanIsBound(o.plan)
    PROVE  TurnInv'
<1>1. stage' = "prepare" /\ lookup'.tool = None /\ lookup'.returned = {} /\ T!NoLookup' = T!NoLookup
  BY DEF T!Conclude, T!NoLookup
<1>2. outcome'.plan # None => PlanIsBound(outcome'.plan)
  <2>1. CASE outcome' = o
    BY <2>1
  <2>2. CASE outcome' = T!Shortcut(question.preferred)
    <3>1. outcome'.plan # None => outcome'.plan.strategy \in {"direct_answer", "bounded_investigation", "decision_support", "artifact_draft"}
      BY <2>2 DEF T!Shortcut, T!Ended
    <3> QED
      BY <3>1 DEF PlanIsBound
  <2> QED
    BY <2>1, <2>2 DEF T!Conclude
<1> QED
  BY <1>1, <1>2 DEF TurnInv, ReturnedMatches, AnswerIsGrounded, T!AnswerIsGrounded, PlanIsBound

LEMMA SubmitKeeps == ASSUME TurnInv, T!Submit PROVE TurnInv'
<1>1. stage = "new" /\ lookup' = lookup /\ answer' = answer /\ lookup = T!NoLookup
  BY DEF T!Submit, TurnInv
<1>2. stage' \in {"refused", "duplicate", "plan", "prepare"}
  BY DEF T!Submit
<1>3. AnswerIsGrounded'
  BY <1>2 DEF AnswerIsGrounded, T!AnswerIsGrounded
<1>4. CASE outcome' = outcome
  BY <1>1, <1>3, <1>4, PlanAndReadStand
<1>5. CASE stage' = "prepare" /\ outcome' = T!Ended("unavailable", None, FALSE, None, FALSE)
  <2>1. lookup'.tool = None /\ lookup'.returned = {} /\ T!NoLookup' = T!NoLookup
    BY <1>1 DEF T!NoLookup
  <2>2. outcome'.plan = None
    BY <1>5 DEF T!Ended
  <2> QED
    BY <1>1, <1>3, <2>1, <2>2 DEF TurnInv, ReturnedMatches
<1> QED
  BY <1>4, <1>5 DEF T!Submit

LEMMA ProposeKeeps == ASSUME TurnInv, NEW r, T!Propose(r) PROVE TurnInv'
<1>1. stage = "plan" /\ lookup' = lookup /\ lookup = T!NoLookup
  BY DEF T!Propose, TurnInv
<1>2. ASSUME NEW o, T!Conclude(o), o.plan = None PROVE TurnInv'
  BY <1>1, <1>2, Concludes
<1>3. CASE /\ T!Issues(r, facts, None, [f \in {} |-> None]) = {}
           /\ T!Conclude(T!Ended("planned", T!Accepted(r.plan), FALSE, r.status, FALSE))
  <2> DEFINE o == T!Ended("planned", T!Accepted(r.plan), FALSE, r.status, FALSE)
  <2>1. o.plan = T!Accepted(r.plan)
    BY DEF T!Ended
  <2>2. PlanIsBound(o.plan)
    BY <1>3, <2>1, AcceptedIsBound
  <2> HIDE DEF o
  <2>3. T!Conclude(o)
    BY <1>3 DEF o
  <2> QED
    BY <1>1, <2>2, <2>3, Concludes
<1>4. CASE stage' \in {"raised", "repair"} /\ outcome' = outcome
  BY <1>1, <1>4, PlanAndReadStand DEF AnswerIsGrounded, T!AnswerIsGrounded
<1> QED
  <2> DEFINE o1 == T!Ended("truncated", None, FALSE, r.status, TRUE)
             o2 == T!Ended("unavailable", None, FALSE, r.status, FALSE)
             o3 == T!Ended("invalid", None, FALSE, r.status, FALSE)
  <2>1. o1.plan = None /\ o2.plan = None /\ o3.plan = None
    BY DEF T!Ended
  <2> HIDE DEF o1, o2, o3
  <2>2. T!Conclude(o1) \/ T!Conclude(o2) \/ T!Conclude(o3) => TurnInv'
    BY <1>2, <2>1
  <2> QED
    BY <1>3, <1>4, <2>2, Zenon DEF T!Propose, o1, o2, o3

LEMMA RepairKeeps == ASSUME TurnInv, NEW r, T!Repair(r) PROVE TurnInv'
<1> DEFINE action == T!CandidateAction(first.plan)
           preserved == T!Preserved(first.plan, T!Issues(first, facts, None, [f \in {} |-> None]))
<1>1. stage = "repair" /\ lookup' = lookup /\ lookup = T!NoLookup
  BY DEF T!Repair, TurnInv
<1>2. ASSUME NEW o, T!Conclude(o), o.plan = None PROVE TurnInv'
  BY <1>1, <1>2, Concludes
<1>3. CASE /\ T!Issues(r, facts, action, preserved) = {}
           /\ T!Conclude(T!Ended("planned", T!Accepted(r.plan), TRUE, r.status, FALSE))
  <2> DEFINE o == T!Ended("planned", T!Accepted(r.plan), TRUE, r.status, FALSE)
  <2>1. o.plan = T!Accepted(r.plan)
    BY DEF T!Ended
  <2>2. PlanIsBound(o.plan)
    BY <1>3, <2>1, AcceptedIsBound
  <2> HIDE DEF o
  <2>3. T!Conclude(o)
    BY <1>3 DEF o
  <2> QED
    BY <1>1, <2>2, <2>3, Concludes
<1>4. CASE stage' = "raised" /\ outcome' = outcome
  BY <1>1, <1>4, PlanAndReadStand DEF AnswerIsGrounded, T!AnswerIsGrounded
<1> QED
  <2> DEFINE o1 == T!Ended("truncated", None, TRUE, r.status, TRUE)
             o2 == T!Ended("unavailable", None, TRUE, r.status, FALSE)
             o3 == T!Ended("invalid", None, TRUE, r.status, FALSE)
  <2>1. o1.plan = None /\ o2.plan = None /\ o3.plan = None
    BY DEF T!Ended
  <2> HIDE DEF o1, o2, o3
  <2>2. T!Conclude(o1) \/ T!Conclude(o2) \/ T!Conclude(o3) => TurnInv'
    BY <1>2, <2>1
  <2> QED
    BY <1>3, <1>4, <2>2, Zenon DEF T!Repair, o1, o2, o3

LEMMA PrepareKeeps == ASSUME TurnInv, T!Prepare PROVE TurnInv'
<1> DEFINE plan == outcome.plan
           request == T!ToolRequest(plan.tools[1], plan.filters, T!Context(plan))
<1>1. stage = "prepare" /\ outcome' = outcome
  BY DEF T!Prepare
<1>2. CASE stage' = "answered" /\ answer' = [T!NoAnswer EXCEPT !.kind = "message"] /\ lookup' = lookup
  <2>1. answer'.ids = {} /\ answer'.ips = {}
    BY <1>2 DEF T!NoAnswer
  <2>2. AnswerIsGrounded'
    BY <2>1 DEF AnswerIsGrounded, T!AnswerIsGrounded
  <2> QED
    BY <1>1, <1>2, <2>2, PlanAndReadStand
<1>3. CASE stage' \in {"refused", "execute", "delegated"} /\ lookup' = lookup
  BY <1>1, <1>3, PlanAndReadStand DEF AnswerIsGrounded, T!AnswerIsGrounded
<1>4. CASE /\ plan # None /\ plan.strategy = "quick_evidence_lookup" /\ request # None /\ stage' = "lookup"
           /\ lookup' = [T!NoLookup EXCEPT !.tool = request.tool, !.args = request.args]
  <2> DEFINE tool == request.tool
             args == request.args
  <2>1. lookup'.tool = tool /\ lookup'.args = args /\ lookup'.returned = {} /\ DOMAIN lookup' = DOMAIN T!NoLookup
    BY <1>4 DEF T!NoLookup
  <2>2. PlanIsBound(plan)
    BY <1>4 DEF TurnInv
  <2>3. ReadIsBound(plan, tool, args)
    <3> SUFFICES ASSUME plan.entities # <<>>
                 PROVE  LET key == T!BindingKey(plan.entities[1].type, plan.tools[1]) IN
                        key \in DOMAIN T!Applied(tool, args) /\ T!Applied(tool, args)[key] = plan.entities[1].id
      BY DEF ReadIsBound
    <3> DEFINE key == T!BindingKey(plan.entities[1].type, plan.tools[1])
    <3>1. /\ key # None /\ key \in DOMAIN plan.filters /\ plan.filters[key] = plan.entities[1].id
          /\ DOMAIN plan.filters \subseteq T!BoundKeys(plan.entities[1].type, plan.tools[1])
      BY <1>4, <2>2 DEF PlanIsBound
    <3> QED
      BY <1>4, <3>1, BoundReadApplies
  <2> HIDE DEF tool, args
  <2>4. T!NoLookup' = T!NoLookup
    BY DEF T!NoLookup
  <2>5. AnswerIsGrounded' /\ ReturnedMatches'
    BY <1>4, <2>1 DEF AnswerIsGrounded, T!AnswerIsGrounded, ReturnedMatches
  <2>6. outcome'.plan = plan /\ PlanIsBound(outcome'.plan) /\ ReadIsBound(outcome'.plan, lookup'.tool, lookup'.args)
    BY <1>1, <2>1, <2>2, <2>3
  <2> QED
    BY <1>4, <2>1, <2>4, <2>5, <2>6 DEF TurnInv, PlanIsBound, ReadIsBound
<1> QED
  BY <1>2, <1>3, <1>4, Zenon DEF T!Prepare

LEMMA LookupKeeps == ASSUME TurnInv, NEW status, T!Lookup(status) PROVE TurnInv'
<1> DEFINE matching == T!Matching(lookup.tool, lookup.args)
           size == IF T!Present(lookup.args, "limit") THEN lookup.args["limit"] ELSE MaxLimit
           options == IF status \in {"success", "truncated"}
                      THEN {m \in SUBSET matching : T!Cardinality(m) <= size /\ (m # matching => T!Cardinality(m) = size)} ELSE {{}}
           total(m) == IF lookup.tool = "search_alerts" THEN T!Cardinality(matching) ELSE T!Cardinality(m)
<1>1. outcome' = outcome /\ stage' = "execute"
  BY DEF T!Lookup
<1>2. PICK m \in options : lookup' = [lookup EXCEPT !.status = status, !.returned = m, !.total = total(m)]
  BY DEF T!Lookup
<1>3. m \subseteq matching
  <2>1. \A x \in options : x \subseteq matching
    <3> HIDE DEF matching
    <3> QED
      BY Zenon
  <2> QED
    BY <2>1
<1> HIDE DEF matching, options, total
<1>4. /\ DOMAIN lookup' = DOMAIN lookup /\ lookup'.tool = lookup.tool /\ lookup'.args = lookup.args
      /\ lookup'.returned = m
  BY <1>2 DEF TurnInv, T!NoLookup
<1>5. \A r \in m : \A k \in DOMAIN T!Applied(lookup.tool, lookup.args) :
          k \in DOMAIN r.keys /\ r.keys[k] = T!Applied(lookup.tool, lookup.args)[k]
  BY <1>3 DEF matching, T!Matching
<1>6. ReturnedMatches'
  BY <1>4, <1>5 DEF ReturnedMatches
<1>7. T!NoLookup' = T!NoLookup /\ AnswerIsGrounded'
  BY <1>1 DEF T!NoLookup, AnswerIsGrounded, T!AnswerIsGrounded
<1> QED
  BY <1>1, <1>4, <1>6, <1>7 DEF TurnInv, PlanIsBound, ReadIsBound

\* What an answer may name: ids and addresses of returned records, and addresses that were asked for.
Grounded(a) ==
    /\ a.ids \subseteq {r.id : r \in lookup.returned}
    /\ a.ips \subseteq T!Addresses(lookup.returned) \cup {lookup.args[k] : k \in DOMAIN lookup.args \cap {"source_ip", "destination_ip"}}

\* Every answer that follows a successful read is grounded, composed or checked.
LEMMA ComposedIsGrounded ==
    ASSUME NEW records, NEW shown, shown \subseteq records, records \subseteq lookup.returned
    PROVE  Grounded(T!Composed(T!Envelope(records), shown))
<1> DEFINE e == T!Envelope(records)
           c == T!Composed(e, shown)
<1>1. CASE e.count = 0
  <2>1. c.ids = {} /\ c.ips = {}
    BY <1>1 DEF T!Composed
  <2> QED
    BY <2>1 DEF Grounded
<1>2. CASE e.count # 0
  <2>1. c.ids = {r.id : r \in shown} /\ c.ips = T!AllowedAddresses([e EXCEPT !.records = shown])
    BY <1>2 DEF T!Composed
  <2>2. [e EXCEPT !.records = shown].records = shown
    BY DEF T!Envelope
  <2>3. c.ips = T!Addresses(shown) \cup {lookup.args[k] : k \in DOMAIN lookup.args \cap {"source_ip", "destination_ip"}}
    BY <2>1, <2>2 DEF T!AllowedAddresses
  <2>4. T!Addresses(shown) \subseteq T!Addresses(lookup.returned)
    BY DEF T!Addresses
  <2>5. {r.id : r \in shown} \subseteq {r.id : r \in lookup.returned}
    OBVIOUS
  <2> HIDE DEF c, e
  <2>6. c.ids \subseteq {r.id : r \in lookup.returned}
    BY <2>1, <2>5
  <2>7. c.ips \subseteq T!Addresses(lookup.returned) \cup {lookup.args[k] : k \in DOMAIN lookup.args \cap {"source_ip", "destination_ip"}}
    BY <2>3, <2>4
  <2> QED
    BY <2>6, <2>7 DEF Grounded, c, e
<1> QED
  BY <1>1, <1>2

LEMMA NormalizedIsGrounded ==
    ASSUME NEW a, NEW records, NEW shown, shown \subseteq records, records \subseteq lookup.returned, lookup.status = "success"
    PROVE  Grounded(T!Normalized(a, T!Envelope(records), shown))
<1> DEFINE e == T!Envelope(records)
           n == T!Normalized(a, e, shown)
<1>1. e.success = TRUE /\ e.records \subseteq lookup.returned
  BY DEF T!Envelope
<1>2. CASE n = [kind |-> "state", ids |-> {}, ips |-> {}]
  <2>1. n.ids = {} /\ n.ips = {}
    BY <1>2
  <2> QED
    BY <2>1 DEF Grounded
<1>3. CASE n = T!Composed(e, shown)
  BY <1>3, ComposedIsGrounded
<1>4. CASE ~T!Rejected(a, e) /\ n = [kind |-> "grounded", ids |-> a.ids, ips |-> a.ips]
  <2>1. n.ids = a.ids /\ n.ips = a.ips
    BY <1>4
  <2>2. a.ids \subseteq {r.id : r \in e.records} /\ a.ips \subseteq T!AllowedAddresses(e)
    BY <1>4 DEF T!Rejected
  <2> HIDE DEF n, e
  <2>3. a.ids \subseteq {r.id : r \in lookup.returned}
    BY <1>1, <2>2
  <2>4. T!Addresses(e.records) \subseteq T!Addresses(lookup.returned)
    BY <1>1 DEF T!Addresses
  <2>5. a.ips \subseteq T!Addresses(lookup.returned) \cup {lookup.args[k] : k \in DOMAIN lookup.args \cap {"source_ip", "destination_ip"}}
    BY <2>2, <2>4 DEF T!AllowedAddresses
  <2> QED
    BY <2>1, <2>3, <2>5 DEF Grounded, n, e
<1>5. \/ n = [kind |-> "state", ids |-> {}, ips |-> {}]
      \/ n = T!Composed(e, shown)
      \/ ~T!Rejected(a, e) /\ n = [kind |-> "grounded", ids |-> a.ids, ips |-> a.ips]
  <2> HIDE DEF e
  <2> QED
    BY <1>1 DEF T!Normalized
<1> QED
  BY <1>2, <1>3, <1>4, <1>5

LEMMA ExplainKeeps ==
    ASSUME TurnInv, NEW a, NEW fits \in BOOLEAN, NEW generated \in BOOLEAN, T!Explain(a, fits, generated)
    PROVE  TurnInv'
<1>1. stage = "execute" /\ outcome' = outcome /\ lookup' = lookup
  BY DEF T!Explain
<1>2. \E records \in SUBSET lookup.returned : \E shown \in SUBSET records :
         \/ stage' = "failed"
         \/ /\ stage' = "answered"
            /\ \/ answer' = [T!NoAnswer EXCEPT !.kind = "insufficient_context"]
               \/ answer' = T!Composed(T!Envelope(records), shown)
               \/ answer' = T!Normalized(a, T!Envelope(records), shown)
  BY Zenon DEF T!Explain
<1>3. PICK records \in SUBSET lookup.returned : \E shown \in SUBSET records :
         \/ stage' = "failed"
         \/ /\ stage' = "answered"
            /\ \/ answer' = [T!NoAnswer EXCEPT !.kind = "insufficient_context"]
               \/ answer' = T!Composed(T!Envelope(records), shown)
               \/ answer' = T!Normalized(a, T!Envelope(records), shown)
  BY <1>2, Zenon
<1>4. PICK shown \in SUBSET records :
         \/ stage' = "failed"
         \/ /\ stage' = "answered"
            /\ \/ answer' = [T!NoAnswer EXCEPT !.kind = "insufficient_context"]
               \/ answer' = T!Composed(T!Envelope(records), shown)
               \/ answer' = T!Normalized(a, T!Envelope(records), shown)
  BY <1>3, Zenon
<1>5. CASE stage' = "failed"
  BY <1>1, <1>5, PlanAndReadStand DEF AnswerIsGrounded, T!AnswerIsGrounded
<1>6. CASE /\ stage' = "answered"
           /\ \/ answer' = [T!NoAnswer EXCEPT !.kind = "insufficient_context"]
              \/ answer' = T!Composed(T!Envelope(records), shown)
              \/ answer' = T!Normalized(a, T!Envelope(records), shown)
  <2>1. lookup.status = "success" => Grounded(answer')
    <3>1. CASE answer' = [T!NoAnswer EXCEPT !.kind = "insufficient_context"]
      <4>1. answer'.ids = {} /\ answer'.ips = {}
        BY <3>1 DEF T!NoAnswer
      <4> QED
        BY <4>1 DEF Grounded
    <3>2. CASE answer' = T!Composed(T!Envelope(records), shown)
      BY <3>2, ComposedIsGrounded
    <3>3. CASE answer' = T!Normalized(a, T!Envelope(records), shown)
      BY <3>3, NormalizedIsGrounded
    <3> QED
      BY <1>6, <3>1, <3>2, <3>3
  <2>2. AnswerIsGrounded'
    BY <1>1, <2>1 DEF Grounded, AnswerIsGrounded, T!AnswerIsGrounded, T!Addresses
  <2> QED
    BY <1>1, <1>6, <2>2, PlanAndReadStand
<1> QED
  BY <1>4, <1>5, <1>6

\* Every step of a turn preserves the invariant.
LEMMA TurnStep == TurnInv /\ [T!Next]_(T!turnVars) => TurnInv'
<1> SUFFICES ASSUME TurnInv, [T!Next]_(T!turnVars) PROVE TurnInv'
  OBVIOUS
<1>1. ASSUME NEW e, T!Vanish(e) PROVE TurnInv'
  <2>1. outcome' = outcome /\ lookup' = lookup /\ answer' = answer /\ stage' = stage
    BY <1>1 DEF T!Vanish
  <2> QED
    BY <2>1, PlanAndReadStand DEF TurnInv, AnswerIsGrounded, T!AnswerIsGrounded, T!Addresses
<1>2. CASE UNCHANGED T!turnVars
  <2>1. outcome' = outcome /\ lookup' = lookup /\ answer' = answer /\ stage' = stage
    BY <1>2 DEF T!turnVars
  <2> QED
    BY <2>1, PlanAndReadStand DEF TurnInv, AnswerIsGrounded, T!AnswerIsGrounded, T!Addresses
<1> QED
  BY <1>1, <1>2, SubmitKeeps, ProposeKeeps, RepairKeeps, PrepareKeeps, LookupKeeps, ExplainKeeps, Zenon DEF T!Next

\* The strengthened invariant of a turn: the plan is bound to its entity, the read to the plan, the
\* records to the read and the answer to the records, whatever the model writes.
THEOREM TurnInductive == T!Spec => []TurnInv
  BY TurnBegins, TurnStep, PTL DEF T!Spec

\* A lookup reads only records of the entity the plan resolved (_entity_evidence_binding_errors,
\* _planner_tool_request and the tools' own filters), for every proposal and repair.
THEOREM LookupsStayOnEntity == T!Spec => []LookupStaysOnEntity
<1>1. TurnInv => LookupStaysOnEntity
  BY DEF TurnInv, LookupStaysOnEntity, T!LookupStaysOnEntity, ReadIsBound, ReturnedMatches
<1> QED
  BY TurnInductive, <1>1, PTL

\* After a successful read an answer names only what it returned or was asked for
\* (_normalize_grounded_answer), whatever the model wrote.
THEOREM AnswersAreGrounded == T!Spec => []AnswerIsGrounded
  BY TurnInductive, PTL DEF TurnInv

-----------------------------------------------------------------------------
(***************************************************************************)
(* The scheduled investigation (ScheduledInvestigation), for every set of   *)
(* workers, entities and replies and every order of their runs.            *)
(***************************************************************************)

\* A candidate is an entity and the fingerprint read of it.
IsCandidate(c) == c = [id |-> c.id, print |-> c.print]
AreCandidates(s) == IsList(s) /\ \A i \in DOMAIN s : IsCandidate(s[i])

\* One of the first upto runs reported c, ended well and began within the horizon of window n.
Reported(c, n, upto) ==
    \E j \in 1 .. upto : /\ reports[j].status \in {"success", "partial"}
                         /\ reports[j].started < n /\ reports[j].started + Horizon >= n
                         /\ c \in S!Range(reports[j].selected)

\* The steps of a run before its end record no result.
Quiet(steps) == \A i \in DOMAIN steps : ~(steps[i].type = "candidate_result" /\ steps[i].status = "success")

\* A committed run: its results are candidates it investigated, and what it left out was told before it.
ReportFits(i) ==
    /\ reports[i].started \in Nat
    /\ AreCandidates(reports[i].selected)
    /\ S!Results(reports[i]) \subseteq S!Range(reports[i].selected)
    /\ \A c \in S!Range(reports[i].skipped) : Reported(c, reports[i].window, i - 1)

\* A run in progress: no result yet, and what it leaves out was told by a run already committed.
EngineFits(k) ==
    /\ DOMAIN engine[k] = {"at", "window", "started", "selected", "skipped", "over", "calls", "refs", "steps", "next"}
    /\ engine[k].started \in Nat /\ engine[k].next \in Nat
    /\ AreCandidates(engine[k].selected)
    /\ Quiet(engine[k].steps)
    /\ \A c \in S!Range(engine[k].skipped) : Reported(c, engine[k].window, Len(reports))

ScheduledInv ==
    /\ tick \in Nat
    /\ IsList(reports)
    /\ \A i \in DOMAIN reports : ReportFits(i)
    /\ DOMAIN engine = Workers
    /\ \A k \in Workers : engine[k].at # "idle" => EngineFits(k)

-----------------------------------------------------------------------------
\* Every place of a finite set of positions is taken: as many of it are less.
LEMMA PlaceIsTaken ==
    ASSUME NEW N \in Nat, NEW D \in SUBSET (1 .. N), NEW n \in 1 .. Cardinality(D)
    PROVE  \E x \in D : Cardinality({y \in D : y < x}) = n - 1
<1> DEFINE Below(x) == {y \in D : y < x}
           C == Cardinality(D)
           rank == [x \in D |-> Cardinality(Below(x))]
<1>1. IsFiniteSet(D) /\ C \in Nat
  <2>1. IsFiniteSet(1 .. N)
    BY FS_Interval
  <2> QED
    BY <2>1, FS_Subset, FS_CardinalityType
<1>2. \A x \in D : IsFiniteSet(Below(x)) /\ Cardinality(Below(x)) \in Nat
  <2> SUFFICES ASSUME NEW x \in D PROVE IsFiniteSet(Below(x)) /\ Cardinality(Below(x)) \in Nat
    OBVIOUS
  <2>1. Below(x) \in SUBSET D
    OBVIOUS
  <2> QED
    BY <1>1, <2>1, FS_Subset, FS_CardinalityType
<1>3. \A x \in D : Cardinality(Below(x)) \in 0 .. C - 1
  <2> SUFFICES ASSUME NEW x \in D PROVE Cardinality(Below(x)) \in 0 .. C - 1
    OBVIOUS
  <2>1. IsFiniteSet(D \ {x}) /\ Cardinality(D \ {x}) = C - 1
    BY <1>1, FS_RemoveElement
  <2>2. Below(x) \in SUBSET (D \ {x})
    OBVIOUS
  <2>3. Cardinality(Below(x)) <= Cardinality(D \ {x})
    BY <2>1, <2>2, FS_Subset
  <2> QED
    BY <1>1, <1>2, <2>1, <2>3
<1>4. \A x, z \in D : x < z => Cardinality(Below(x)) < Cardinality(Below(z))
  <2> SUFFICES ASSUME NEW x \in D, NEW z \in D, x < z PROVE Cardinality(Below(x)) < Cardinality(Below(z))
    OBVIOUS
  <2>1. x \in Below(z) /\ IsFiniteSet(Below(z))
    BY <1>2
  <2>2. IsFiniteSet(Below(z) \ {x}) /\ Cardinality(Below(z) \ {x}) = Cardinality(Below(z)) - 1
    BY <2>1, FS_RemoveElement
  <2>3. Below(x) \in SUBSET (Below(z) \ {x})
    <3>1. \A y \in D : y < x => y < z /\ y # x
      OBVIOUS
    <3> QED
      BY <3>1
  <2>4. Cardinality(Below(x)) <= Cardinality(Below(z) \ {x})
    BY <2>2, <2>3, FS_Subset
  <2> QED
    BY <1>2, <2>2, <2>4
<1> HIDE DEF Below
<1>5. rank \in Injection(D, 0 .. C - 1)
  <2>1. rank \in [D -> 0 .. C - 1]
    BY <1>3
  <2>2. \A x, z \in D : rank[x] = rank[z] => x = z
    <3> SUFFICES ASSUME NEW x \in D, NEW z \in D, x # z PROVE rank[x] # rank[z]
      OBVIOUS
    <3>1. x \in Nat /\ z \in Nat /\ (x < z \/ z < x)
      OBVIOUS
    <3> QED
      BY <1>2, <1>4, <3>1
  <2> QED
    BY <2>1, <2>2 DEF Injection, IsInjective
<1>6. IsFiniteSet(0 .. C - 1) /\ Cardinality(0 .. C - 1) = C
  <2>1. 0 \in Int /\ C - 1 \in Int
    BY <1>1
  <2>2. IsFiniteSet(0 .. C - 1) /\ Cardinality(0 .. C - 1) = IF 0 > C - 1 THEN 0 ELSE C - 1 - 0 + 1
    BY <2>1, FS_Interval
  <2> QED
    BY <1>1, <2>2
<1>7. rank \in Surjection(D, 0 .. C - 1)
  BY <1>5, <1>6, FS_Injection
<1>8. n - 1 \in 0 .. C - 1
  BY <1>1
<1>9. \E x \in D : rank[x] = n - 1
  BY <1>7, <1>8 DEF Surjection
<1> QED
  BY <1>9 DEF Below

\* The entries of a list at some of its places are a list of entries at those places.
LEMMA WhereFacts ==
    ASSUME NEW s, IsList(s), NEW D \in SUBSET DOMAIN s
    PROVE  /\ IsList(S!Where(s, D))
           /\ \A i \in DOMAIN S!Where(s, D) : \E x \in D : S!Where(s, D)[i] = s[x]
<1> DEFINE W == S!Where(s, D)
           C == Cardinality(D)
<1>1. Len(s) \in Nat /\ D \in SUBSET (1 .. Len(s))
  BY ListFacts
<1>2. C \in Nat
  <2>1. IsFiniteSet(1 .. Len(s))
    BY <1>1, FS_Interval
  <2> QED
    BY <1>1, <2>1, FS_Subset, FS_CardinalityType
<1>3. W = [n \in 1 .. C |-> s[CHOOSE x \in D : Cardinality({y \in D : y < x}) = n - 1]]
  BY DEF S!Where, S!PlaceOf, S!Cardinality, Cardinality
<1> HIDE DEF W
<1>4. W = [n \in 1 .. C |-> W[n]]
  BY <1>3
<1>5. IsList(W)
  BY <1>2, <1>4, FunctionIsList
<1>6. ASSUME NEW n \in DOMAIN W PROVE \E x \in D : W[n] = s[x]
  <2>1. n \in 1 .. C
    BY <1>3, <1>6
  <2>2. \E x \in D : Cardinality({y \in D : y < x}) = n - 1
    BY <1>1, <2>1, PlaceIsTaken
  <2>3. (CHOOSE x \in D : Cardinality({y \in D : y < x}) = n - 1) \in D
    BY <2>2
  <2> QED
    BY <1>3, <2>1, <2>3
<1> QED
  BY <1>5, <1>6 DEF W

\* Of some runs there is an oldest: none of them began earlier, nor as early and was committed before.
LEMMA OldestExists ==
    ASSUME NEW D \in SUBSET DOMAIN reports, D # {}, IsList(reports), \A i \in D : reports[i].started \in Nat
    PROVE  \E i \in D : \A j \in D : reports[i].started < reports[j].started
                                        \/ (reports[i].started = reports[j].started /\ i <= j)
<1> DEFINE less == OpToRel(<, Nat)
           starts == {reports[i].started : i \in D}
<1>0. IsWellFoundedOn(less, Nat)
  BY NatLessThanWellFounded, Zenon
<1>1. \A m, n \in Nat : m < n => <<m, n>> \in less
  BY Zenon DEF OpToRel
<1> HIDE DEF less
<1>2. \A W \in SUBSET Nat : W # {} => \E m \in W : \A n \in W : m <= n
  <2> SUFFICES ASSUME NEW W \in SUBSET Nat, W # {} PROVE \E m \in W : \A n \in W : m <= n
    OBVIOUS
  <2>1. PICK m \in W : \A n \in W : ~(<<n, m>> \in less)
    BY <1>0, WFMin
  <2>2. \A n \in W : ~(n < m)
    BY <1>1, <2>1
  <2> QED
    BY <2>2
<1>3. starts \in SUBSET Nat /\ starts # {}
  OBVIOUS
<1>4. PICK m \in starts : \A n \in starts : m <= n
  BY <1>2, <1>3
<1> DEFINE first_ones == {i \in D : reports[i].started = m}
<1>5. first_ones \in SUBSET Nat /\ first_ones # {}
  BY <1>4, ListFacts
<1>6. PICK i \in first_ones : \A j \in first_ones : i <= j
  BY <1>2, <1>5
<1>7. ASSUME NEW j \in D
      PROVE  reports[i].started < reports[j].started \/ (reports[i].started = reports[j].started /\ i <= j)
  <2>1. reports[i].started = m /\ reports[j].started \in starts /\ m \in Nat /\ reports[j].started \in Nat
    BY <1>3
  <2>2. m <= reports[j].started
    BY <1>4, <2>1
  <2>3. reports[j].started = m => i <= j
    BY <1>6
  <2> QED
    BY <2>1, <2>2, <2>3
<1> QED
  BY <1>6, <1>7

\* A candidate that is known was reported by a run already committed.
LEMMA KnownWasReported ==
    ASSUME ScheduledInv, NEW c, IsCandidate(c), NEW n, S!Known(c, n)
    PROVE  Reported(c, n, Len(reports))
<1> DEFINE runs == {i \in DOMAIN reports : S!Counts(reports[i], n) /\ \E d \in S!Results(reports[i]) : d.id = c.id}
           oldest == CHOOSE i \in runs : \A j \in runs : reports[i].started < reports[j].started
                                            \/ (reports[i].started = reports[j].started /\ i <= j)
           d == CHOOSE e \in S!Results(reports[oldest]) : e.id = c.id
<1>1. runs # {} /\ d.print = c.print
  BY DEF S!Known
<1>2. runs \in SUBSET DOMAIN reports /\ \A i \in runs : reports[i].started \in Nat
  BY DEF ScheduledInv, ReportFits
<1>3. IsList(reports)
  BY DEF ScheduledInv
<1>4. oldest \in runs
  <2> HIDE DEF runs
  <2>1. \E i \in runs : \A j \in runs : reports[i].started < reports[j].started
                                            \/ (reports[i].started = reports[j].started /\ i <= j)
    BY <1>1, <1>2, <1>3, OldestExists
  <2> QED
    BY <2>1
<1> HIDE DEF oldest
<1>5. oldest \in DOMAIN reports /\ S!Counts(reports[oldest], n)
  BY <1>4
<1>6. d \in S!Results(reports[oldest]) /\ d.id = c.id
  BY <1>4
<1>7. d \in S!Range(reports[oldest].selected) /\ IsCandidate(d)
  <2>1. ReportFits(oldest)
    BY <1>5 DEF ScheduledInv
  <2>2. d \in S!Range(reports[oldest].selected)
    BY <1>6, <2>1 DEF ReportFits
  <2> HIDE DEF d
  <2> QED
    BY <2>1, <2>2 DEF ReportFits, AreCandidates, S!Range
<1>8. d = c
  <2> HIDE DEF d
  <2> QED
    BY <1>1, <1>6, <1>7 DEF IsCandidate
<1>9. oldest \in 1 .. Len(reports)
  BY <1>3, <1>5, ListFacts
<1> QED
  BY <1>5, <1>7, <1>8, <1>9 DEF Reported, S!Counts

\* What stands at an index once a list of steps was put from at on.
LEMMA PutEntry ==
    ASSUME NEW steps, NEW at \in Nat, NEW s, IsList(s), NEW i \in DOMAIN S!PutAll(steps, at, s)
    PROVE  \/ i - at + 1 \in DOMAIN s /\ S!PutAll(steps, at, s)[i] = s[i - at + 1]
           \/ i \in DOMAIN steps /\ S!PutAll(steps, at, s)[i] = steps[i]
<1>1. Len(s) \in Nat /\ DOMAIN s = 1 .. Len(s)
  BY ListFacts
<1>2. i \in at .. at + Len(s) - 1 => i - at + 1 \in DOMAIN s
  BY <1>1
<1> QED
  BY <1>2 DEF S!PutAll

\* Steps put behind steps without a result add none, if they have none.
LEMMA PutQuiet ==
    ASSUME NEW steps, Quiet(steps), NEW at \in Nat, NEW s, IsList(s), Quiet(s)
    PROVE  Quiet(S!PutAll(steps, at, s))
<1> DEFINE put == S!PutAll(steps, at, s)
<1>1. ASSUME NEW i \in DOMAIN put PROVE ~(put[i].type = "candidate_result" /\ put[i].status = "success")
  <2>1. \/ i - at + 1 \in DOMAIN s /\ put[i] = s[i - at + 1]
        \/ i \in DOMAIN steps /\ put[i] = steps[i]
    BY <1>1, PutEntry
  <2> HIDE DEF put
  <2> QED
    BY <2>1 DEF Quiet
<1> QED
  BY <1>1 DEF Quiet

LEMMA PutOneQuiet ==
    ASSUME NEW steps, Quiet(steps), NEW at \in Nat, NEW step, ~(step.type = "candidate_result" /\ step.status = "success")
    PROVE  Quiet(S!Put(steps, at, step))
<1>1. IsList(<<step>>)
  BY TupleIsList, Zenon
<1>2. Quiet(<<step>>)
  BY DEF Quiet
<1> QED
  BY <1>1, <1>2, PutQuiet DEF S!Put

\* A list cut short, or without its first part, is a list of its own entries.
LEMMA ScheduledCut ==
    ASSUME NEW s, IsList(s), NEW limit \in Nat
    PROVE  /\ IsList(S!Cut(s, limit)) /\ DOMAIN S!Cut(s, limit) \subseteq DOMAIN s
           /\ \A i \in DOMAIN S!Cut(s, limit) : S!Cut(s, limit)[i] = s[i]
<1> DEFINE m == IF Len(s) < limit THEN Len(s) ELSE limit
<1>1. PICK D : s \in Seq(D)
  BY DEF IsList
<1>2. SubSeq(s, 1, m) \in Seq(D) /\ Len(SubSeq(s, 1, m)) = m /\ m \in 0 .. Len(s) /\ Len(s) \in Nat
  BY <1>1, SubSeqProperties
<1>3. \A i \in 1 .. m : SubSeq(s, 1, m)[i] = s[i]
  BY <1>1, <1>2, SubSeqProperties
<1>4. DOMAIN SubSeq(s, 1, m) = 1 .. m /\ DOMAIN s = 1 .. Len(s)
  BY <1>1, <1>2
<1>5. S!Cut(s, limit) = SubSeq(s, 1, m)
  BY DEF S!Cut
<1> HIDE DEF m
<1> QED
  BY <1>2, <1>3, <1>4, <1>5 DEF IsList

\* A run told of is told of by the reports that follow, and by more of them.
LEMMA ReportedStays ==
    ASSUME IsList(reports), NEW r, reports' = Append(reports, r), NEW c, NEW n, NEW upto \in 0 .. Len(reports), Reported(c, n, upto)
    PROVE  /\ \E j \in 1 .. upto : /\ reports'[j].status \in {"success", "partial"}
                                   /\ reports'[j].started < n /\ reports'[j].started + Horizon >= n
                                   /\ c \in S!Range(reports'[j].selected)
           /\ \E j \in 1 .. Len(reports) + 1 : /\ reports'[j].status \in {"success", "partial"}
                                   /\ reports'[j].started < n /\ reports'[j].started + Horizon >= n
                                   /\ c \in S!Range(reports'[j].selected)
<1>1. PICK j \in 1 .. upto : /\ reports[j].status \in {"success", "partial"}
                             /\ reports[j].started < n /\ reports[j].started + Horizon >= n
                             /\ c \in S!Range(reports[j].selected)
  BY DEF Reported
<1>2. PICK D : reports \in Seq(D)
  BY DEF IsList
<1>3. Len(reports) \in Nat
  BY <1>2
<1>4. j \in 1 .. Len(reports) /\ j \in 1 .. Len(reports) + 1
  BY <1>3
<1>5. reports'[j] = reports[j]
  BY <1>2, <1>4
<1> QED
  BY <1>1, <1>4, <1>5

\* The reports with one more: their lengths and entries.
LEMMA AppendFacts ==
    ASSUME NEW s, IsList(s), NEW r
    PROVE  /\ IsList(Append(s, r)) /\ Len(Append(s, r)) = Len(s) + 1
           /\ DOMAIN Append(s, r) = (DOMAIN s) \cup {Len(s) + 1}
           /\ Append(s, r)[Len(s) + 1] = r /\ \A i \in DOMAIN s : Append(s, r)[i] = s[i]
<1>1. PICK D : s \in Seq(D)
  BY DEF IsList
<1>2. s \in Seq(D \cup {r})
  BY <1>1, SeqMonotonic
<1>3. Append(s, r) \in Seq(D \cup {r})
  BY <1>2
<1>4. Len(s) \in Nat /\ DOMAIN s = 1 .. Len(s) /\ Len(Append(s, r)) = Len(s) + 1
  BY <1>2
<1>5. DOMAIN Append(s, r) = 1 .. Len(s) + 1
  BY <1>3, <1>4
<1>6. Append(s, r)[Len(s) + 1] = r /\ \A i \in DOMAIN s : Append(s, r)[i] = s[i]
  BY <1>2, <1>4
<1> QED
  BY <1>3, <1>4, <1>5, <1>6 DEF IsList

\* The invariant holds before any run.
LEMMA ScheduledBegins == S!Init => ScheduledInv
<1> SUFFICES ASSUME S!Init PROVE ScheduledInv
  OBVIOUS
<1>1. IsList(<<>>)
  BY TupleIsList, Zenon
<1>2. DOMAIN reports = {} /\ tick = 1
  BY DEF S!Init
<1>3. \A k \in Workers : engine[k].at = "idle"
  BY DEF S!Init, S!Idle
<1> QED
  BY <1>1, <1>2, <1>3 DEF S!Init, ScheduledInv

\* A step that leaves the reports alone and the other workers as they are.
LEMMA WorkerMoves ==
    ASSUME ScheduledInv, NEW k \in Workers, NEW e, engine' = [engine EXCEPT ![k] = e], reports' = reports, tick' \in Nat,
           e.at # "idle" => /\ DOMAIN e = {"at", "window", "started", "selected", "skipped", "over", "calls", "refs", "steps", "next"}
                            /\ e.started \in Nat /\ e.next \in Nat
                            /\ AreCandidates(e.selected) /\ Quiet(e.steps)
                            /\ \A c \in S!Range(e.skipped) : Reported(c, e.window, Len(reports))
    PROVE  ScheduledInv'
<1>1. DOMAIN engine' = Workers /\ engine'[k] = e /\ \A j \in Workers \ {k} : engine'[j] = engine[j]
  BY DEF ScheduledInv
<1>2. \A i \in DOMAIN reports : ReportFits(i)'
  BY DEF ScheduledInv, ReportFits, Reported
<1>3. ASSUME NEW j \in Workers, engine'[j].at # "idle" PROVE EngineFits(j)'
  <2>1. CASE j = k
    BY <1>1, <1>3, <2>1 DEF EngineFits, Reported
  <2>2. CASE j # k
    BY <1>1, <1>3, <2>2 DEF ScheduledInv, EngineFits, Reported
  <2> QED
    BY <2>1, <2>2
<1> QED
  BY <1>1, <1>2, <1>3 DEF ScheduledInv

\* A step that commits the run of a worker.
LEMMA WorkerCommits ==
    ASSUME ScheduledInv, NEW k \in Workers, engine[k].at # "idle", engine' = [engine EXCEPT ![k] = S!Idle], tick' = tick,
           NEW status, NEW steps, NEW sections,
           NEW r, r = S!Report(engine[k], status, steps, sections), reports' = Append(reports, r),
           S!Results(r) \subseteq S!Range(engine[k].selected)
    PROVE  ScheduledInv'
<1>1. r.started = engine[k].started /\ r.selected = engine[k].selected /\ r.skipped = engine[k].skipped /\ r.window = engine[k].window
  BY DEF S!Report
<1>2. EngineFits(k) /\ IsList(reports) /\ tick \in Nat /\ DOMAIN engine = Workers
  BY DEF ScheduledInv
<1>3. /\ IsList(reports') /\ Len(reports') = Len(reports) + 1 /\ DOMAIN reports' = (DOMAIN reports) \cup {Len(reports) + 1}
      /\ reports'[Len(reports) + 1] = r /\ \A i \in DOMAIN reports : reports'[i] = reports[i]
      /\ Len(reports) \in Nat /\ DOMAIN reports = 1 .. Len(reports)
  BY <1>2, AppendFacts, ListFacts
<1> DEFINE Still(c, n, upto) == \E j \in 1 .. upto : /\ reports'[j].status \in {"success", "partial"}
                                                     /\ reports'[j].started < n /\ reports'[j].started + Horizon >= n
                                                     /\ c \in S!Range(reports'[j].selected)
<1>4. ASSUME NEW c, NEW n, NEW upto \in 0 .. Len(reports), Reported(c, n, upto)
      PROVE  Still(c, n, upto) /\ Still(c, n, Len(reports) + 1)
  BY <1>2, <1>4, ReportedStays
<1> HIDE DEF Still
<1>5. ASSUME NEW i \in DOMAIN reports PROVE ReportFits(i)'
  <2>1. ReportFits(i) /\ reports'[i] = reports[i] /\ i - 1 \in 0 .. Len(reports)
    BY <1>3, <1>5 DEF ScheduledInv
  <2>2. \A c \in S!Range(reports[i].skipped) : Still(c, reports[i].window, i - 1)
    BY <1>4, <2>1 DEF ReportFits
  <2> QED
    BY <2>1, <2>2 DEF ReportFits, Reported, Still
<1>6. ASSUME NEW i, i = Len(reports) + 1 PROVE ReportFits(i)'
  <2>1. \A c \in S!Range(r.skipped) : Still(c, r.window, Len(reports))
    <3>1. Len(reports) \in 0 .. Len(reports)
      BY <1>3
    <3> QED
      BY <1>1, <1>2, <1>4, <3>1 DEF EngineFits
  <2>2. i - 1 = Len(reports) /\ reports'[i] = r
    BY <1>3, <1>6
  <2> QED
    BY <1>1, <1>2, <1>3, <2>1, <2>2 DEF ReportFits, EngineFits, Reported, Still
<1>7. ASSUME NEW j \in Workers, engine'[j].at # "idle" PROVE EngineFits(j)'
  <2>1. j # k /\ engine'[j] = engine[j]
    BY <1>2, <1>7 DEF S!Idle
  <2>2. EngineFits(j)
    BY <1>7, <2>1 DEF ScheduledInv
  <2>3. Len(reports) \in 0 .. Len(reports)
    BY <1>3
  <2>4. \A c \in S!Range(engine[j].skipped) : Still(c, engine[j].window, Len(reports) + 1)
    BY <1>4, <2>2, <2>3 DEF EngineFits
  <2> QED
    BY <1>3, <2>1, <2>2, <2>4 DEF EngineFits, Reported, Still
<1>8. \A i \in DOMAIN reports' : ReportFits(i)'
  BY <1>3, <1>5, <1>6
<1>9. DOMAIN engine' = Workers /\ tick' \in Nat
  BY <1>2
<1> QED
  BY <1>3, <1>7, <1>8, <1>9 DEF ScheduledInv

-----------------------------------------------------------------------------
LEMMA CandidatesAreCandidates == \A n : AreCandidates(S!Candidates(n))
<1> SUFFICES ASSUME NEW n PROVE AreCandidates(S!Candidates(n))
  OBVIOUS
<1> DEFINE found == {e \in S!Ids : S!InWindow(e, n)}
           entry(i) == S!PlaceOf(i, found, S!Before)
           list == [i \in 1 .. Cardinality(found) |-> [id |-> entry(i), print |-> S!Fingerprint(entry(i))]]
<1>1. S!Candidates(n) = list
  BY DEF S!Candidates, S!Cardinality, Cardinality
<1>2. Cardinality(found) \in Nat
  BY BudgetAssumption, FS_Subset, FS_CardinalityType DEF S!Ids
<1> HIDE DEF found, entry
<1>3. list = [i \in 1 .. Cardinality(found) |-> list[i]]
  OBVIOUS
<1>4. IsList(list)
  BY <1>2, <1>3, FunctionIsList
<1>5. \A i \in DOMAIN list : IsCandidate(list[i])
  BY DEF IsCandidate
<1> QED
  BY <1>1, <1>4, <1>5 DEF AreCandidates

\* The read calls planned for a list are a list.
LEMMA PlannedCallsIsList == ASSUME NEW s, IsList(s) PROVE IsList(S!PlannedCalls(s))
<1> DEFINE reads == {r \in (DOMAIN s) \X {1, 2} : r[2] = 2 => S!Type(s[r[1]].id) = "alert"}
           p == S!PlannedCalls(s)
<1>1. Cardinality(reads) \in Nat
  <2>1. IsFiniteSet(DOMAIN s) /\ IsFiniteSet({1, 2})
    <3>0. Len(s) \in Int /\ 1 \in Int /\ 2 \in Int
      BY ListFacts
    <3>1. IsFiniteSet(1 .. Len(s)) /\ IsFiniteSet(1 .. 2)
      BY <3>0, FS_Interval
    <3>2. 1 .. 2 = {1, 2}
      OBVIOUS
    <3> QED
      BY <3>1, <3>2, ListFacts
  <2>2. IsFiniteSet((DOMAIN s) \X {1, 2})
    BY <2>1, FS_Product
  <2>3. reads \in SUBSET ((DOMAIN s) \X {1, 2})
    OBVIOUS
  <2> QED
    BY <2>2, <2>3, FS_Subset, FS_CardinalityType
<1>2. p = [n \in 1 .. Cardinality(reads) |-> p[n]]
  BY Zenon DEF S!PlannedCalls, S!Cardinality, Cardinality
<1> HIDE DEF p, reads
<1>3. IsList(p)
  BY <1>1, <1>2, FunctionIsList
<1> QED
  BY <1>3 DEF p

\* The fields of a run in progress.
LEMMA ScheduledRun ==
    ASSUME ScheduledInv, NEW k \in Workers, engine[k].at # "idle"
    PROVE  /\ EngineFits(k) /\ tick \in Nat /\ IsList(reports) /\ DOMAIN engine = Workers
           /\ IsList(engine[k].selected) /\ DOMAIN engine[k].selected = 1 .. Len(engine[k].selected) /\ Len(engine[k].selected) \in Nat
<1>1. EngineFits(k)
  BY DEF ScheduledInv
<1>2. IsList(engine[k].selected)
  BY <1>1 DEF EngineFits, AreCandidates
<1> QED
  BY <1>1, <1>2, ListFacts DEF ScheduledInv

\* Planning leaves out only what it found known.
LEMMA PlanRunKeeps == ASSUME ScheduledInv, NEW k \in Workers, NEW n, S!Plan(k, n) PROVE ScheduledInv'
<1> DEFINE candidates == S!Candidates(n)
           kept == S!Cut(candidates, MaxEntities)
           repeated == {i \in DOMAIN kept : S!Known(kept[i], n)}
           left == S!Where(kept, repeated)
           others == (DOMAIN kept) \ repeated
           chosen == S!Where(kept, others)
           start == S!Put(S!Put(<<>>, 0, S!Step("runtime_investigation_start", "success", None)), 1, S!Step("investigation_plan", "success", None))
           skips == [i \in DOMAIN left |-> S!Step("candidate_result", "skipped", left[i])]
           e == [at |-> "planned", window |-> n, started |-> tick, selected |-> chosen,
                 skipped |-> left, over |-> S!Rest(candidates, MaxEntities), calls |-> 0, refs |-> {},
                 steps |-> S!PutAll(start, 2, skips), next |-> 2 + Len(left)]
<1>1. engine' = [engine EXCEPT ![k] = e] /\ reports' = reports /\ tick' = tick
  BY DEF S!Plan
<1>2. AreCandidates(kept)
  <2>1. IsList(candidates) /\ \A i \in DOMAIN candidates : IsCandidate(candidates[i])
    BY CandidatesAreCandidates DEF AreCandidates
  <2> HIDE DEF candidates
  <2> QED
    BY <2>1, BudgetAssumption, ScheduledCut DEF AreCandidates
<1> HIDE DEF kept, candidates
<1>3. /\ IsList(left) /\ \A i \in DOMAIN left : \E x \in repeated : left[i] = kept[x]
      /\ IsList(chosen) /\ \A i \in DOMAIN chosen : \E x \in others : chosen[i] = kept[x]
  <2>1. IsList(kept)
    BY <1>2 DEF AreCandidates
  <2>2. repeated \in SUBSET DOMAIN kept /\ others \in SUBSET DOMAIN kept
    OBVIOUS
  <2> HIDE DEF repeated, others
  <2>3. IsList(left) /\ \A i \in DOMAIN left : \E x \in repeated : left[i] = kept[x]
    BY <2>1, <2>2, WhereFacts
  <2>4. IsList(chosen) /\ \A i \in DOMAIN chosen : \E x \in others : chosen[i] = kept[x]
    BY <2>1, <2>2, WhereFacts
  <2> QED
    BY <2>3, <2>4
<1>4. \A c \in S!Range(left) : Reported(c, n, Len(reports))
  <2> SUFFICES ASSUME NEW i \in DOMAIN left PROVE Reported(left[i], n, Len(reports))
    BY DEF S!Range
  <2>1. PICK x \in DOMAIN kept : left[i] = kept[x] /\ S!Known(kept[x], n)
    BY <1>3
  <2>2. IsCandidate(kept[x])
    BY <1>2, <2>1 DEF AreCandidates
  <2>3. Reported(kept[x], n, Len(reports))
    BY <2>1, <2>2, KnownWasReported
  <2> QED
    BY <2>1, <2>3
<1>5. AreCandidates(chosen)
  BY <1>2, <1>3 DEF AreCandidates
<1> HIDE DEF left, chosen, repeated, others
<1>6. IsList(skips) /\ Quiet(skips) /\ Len(left) \in Nat
  <2>1. Len(left) \in Nat /\ DOMAIN left = 1 .. Len(left)
    BY <1>3, ListFacts
  <2>2. skips = [i \in 1 .. Len(left) |-> skips[i]]
    BY <2>1
  <2>3. Quiet(skips)
    BY DEF Quiet, S!Step
  <2> HIDE DEF skips
  <2> QED
    BY <2>1, <2>2, <2>3, FunctionIsList
<1>7. Quiet(e.steps)
  <2>1. Quiet(<<>>)
    BY DEF Quiet
  <2>2. /\ ~(S!Step("runtime_investigation_start", "success", None).type = "candidate_result")
        /\ ~(S!Step("investigation_plan", "success", None).type = "candidate_result")
    BY DEF S!Step
  <2>3. Quiet(S!Put(<<>>, 0, S!Step("runtime_investigation_start", "success", None)))
    BY <2>1, <2>2, PutOneQuiet
  <2>4. Quiet(start)
    BY <2>2, <2>3, PutOneQuiet
  <2> HIDE DEF start, skips
  <2>5. Quiet(S!PutAll(start, 2, skips))
    BY <1>6, <2>4, PutQuiet
  <2> QED
    BY <2>5
<1> HIDE DEF start, skips
<1>8. /\ DOMAIN e = {"at", "window", "started", "selected", "skipped", "over", "calls", "refs", "steps", "next"}
      /\ e.started = tick /\ e.next = 2 + Len(left) /\ e.selected = chosen /\ e.skipped = left /\ e.window = n
  OBVIOUS
<1> HIDE DEF e
<1>9. tick \in Nat /\ 2 + Len(left) \in Nat
  BY <1>6 DEF ScheduledInv
<1> QED
  BY <1>1, <1>4, <1>5, <1>7, <1>8, <1>9, WorkerMoves

\* Collecting adds steps that are no results.
LEMMA CollectKeeps == ASSUME ScheduledInv, NEW k \in Workers, NEW failing, S!Collect(k, failing) PROVE ScheduledInv'
<1> DEFINE r == engine[k]
           planned == S!Cut(S!PlannedCalls(r.selected), MaxCalls)
           executed == S!Cut(planned, CallCap)
           validated == [i \in DOMAIN planned |-> S!Step("soc_read_tool_validation", "success", planned[i])]
           done == [i \in DOMAIN executed |-> S!Step("soc_read_tool", IF i \in failing THEN "partial" ELSE "success", executed[i])]
           none == [r EXCEPT !.at = "collected", !.next = @ + 1, !.steps = S!Put(@, r.next, S!Step("evidence_collection", "skipped", None))]
           some == [r EXCEPT !.at = "collected", !.next = @ + Len(planned), !.calls = Len(executed),
                             !.refs = {executed[i].id : i \in DOMAIN executed \ failing},
                             !.steps = S!PutAll(S!PutAll(@, r.next, validated), r.next + Len(planned), done)]
<1>1. r.at = "planned" /\ engine' = [engine EXCEPT ![k] = IF r.selected = <<>> THEN none ELSE some] /\ reports' = reports /\ tick' = tick
  BY DEF S!Collect
<1>2. EngineFits(k) /\ tick \in Nat /\ IsList(r.selected)
  BY <1>1, ScheduledRun
<1>3. IsList(planned) /\ IsList(executed)
  <2>1. IsList(planned)
    BY <1>2, PlannedCallsIsList, ScheduledCut, BudgetAssumption
  <2> HIDE DEF planned
  <2> QED
    BY <2>1, ScheduledCut, BudgetAssumption
<1> HIDE DEF planned, executed
<1>4. Len(planned) \in Nat /\ DOMAIN planned = 1 .. Len(planned) /\ Len(executed) \in Nat /\ DOMAIN executed = 1 .. Len(executed)
  BY <1>3, ListFacts
<1>5. IsList(validated) /\ Quiet(validated) /\ IsList(done) /\ Quiet(done)
  <2>1. Quiet(validated) /\ Quiet(done)
    BY DEF Quiet, S!Step
  <2>2. validated = [i \in 1 .. Len(planned) |-> validated[i]] /\ done = [i \in 1 .. Len(executed) |-> done[i]]
    BY <1>4
  <2> HIDE DEF validated, done
  <2> QED
    BY <1>4, <2>1, <2>2, FunctionIsList
<1> HIDE DEF validated, done
<1>6. Quiet(r.steps) /\ r.next \in Nat /\ r.next + Len(planned) \in Nat
  BY <1>2, <1>4 DEF EngineFits
<1>7. Quiet(S!Put(r.steps, r.next, S!Step("evidence_collection", "skipped", None)))
  <2>1. S!Step("evidence_collection", "skipped", None).type = "evidence_collection"
    BY DEF S!Step
  <2> QED
    BY <1>6, <2>1, PutOneQuiet
<1>8. Quiet(S!PutAll(S!PutAll(r.steps, r.next, validated), r.next + Len(planned), done))
  <2>1. Quiet(S!PutAll(r.steps, r.next, validated))
    BY <1>5, <1>6, PutQuiet
  <2> QED
    BY <1>5, <1>6, <2>1, PutQuiet
<1> DEFINE e == IF r.selected = <<>> THEN none ELSE some
<1>9. DOMAIN r = {"at", "window", "started", "selected", "skipped", "over", "calls", "refs", "steps", "next"}
  BY <1>2 DEF EngineFits
<1>10. /\ DOMAIN e = DOMAIN r /\ e.started = r.started /\ e.selected = r.selected /\ e.skipped = r.skipped /\ e.window = r.window
       /\ e.next \in Nat /\ Quiet(e.steps)
  <2>1. CASE r.selected = <<>>
    <3>1. /\ DOMAIN none = DOMAIN r /\ none.started = r.started /\ none.selected = r.selected /\ none.skipped = r.skipped
          /\ none.window = r.window /\ none.next = r.next + 1
          /\ none.steps = S!Put(r.steps, r.next, S!Step("evidence_collection", "skipped", None))
      BY <1>9
    <3> HIDE DEF none, some
    <3> QED
      BY <1>6, <1>7, <2>1, <3>1
  <2>2. CASE r.selected # <<>>
    <3>1. /\ DOMAIN some = DOMAIN r /\ some.started = r.started /\ some.selected = r.selected /\ some.skipped = r.skipped
          /\ some.window = r.window /\ some.next = r.next + Len(planned)
          /\ some.steps = S!PutAll(S!PutAll(r.steps, r.next, validated), r.next + Len(planned), done)
      BY <1>9
    <3> HIDE DEF none, some
    <3> QED
      BY <1>6, <1>8, <2>2, <3>1
  <2> QED
    BY <2>1, <2>2
<1>11. engine' = [engine EXCEPT ![k] = e]
  BY <1>1
<1>12. /\ DOMAIN e = {"at", "window", "started", "selected", "skipped", "over", "calls", "refs", "steps", "next"}
       /\ e.started \in Nat /\ e.next \in Nat /\ AreCandidates(e.selected) /\ Quiet(e.steps)
       /\ \A c \in S!Range(e.skipped) : Reported(c, e.window, Len(reports))
  <2> HIDE DEF e, none, some
  <2> QED
    BY <1>2, <1>9, <1>10 DEF EngineFits
<1>13. reports' = reports /\ tick' \in Nat
  BY <1>1, <1>2
<1> HIDE DEF e, none, some, r
<1> QED
  BY <1>11, <1>12, <1>13, WorkerMoves

\* The results a finished run records are of its selected candidates.
LEMMA FinishRunKeeps ==
    ASSUME ScheduledInv, NEW k \in Workers, NEW mode, NEW reply, NEW repair, S!Finish(k, mode, reply, repair)
    PROVE  ScheduledInv'
<1> DEFINE e == engine[k]
           results == [i \in DOMAIN e.selected |-> S!Step("candidate_result", "success", e.selected[i])]
           status == S!Synthesis(mode, reply, repair).status
           last == <<S!Step("ai_synthesis", status, None), S!Step("briefing_persisted", "success", None)>>
           steps == S!PutAll(e.steps, e.next, results \o last)
           sections == S!Ensured(S!Synthesis(mode, reply, repair).given, e)
           r == S!Report(e, status, steps, sections)
<1>1. e.at = "collected" /\ reports' = Append(reports, r) /\ engine' = [engine EXCEPT ![k] = S!Idle] /\ tick' = tick
  BY DEF S!Finish
<1>2. EngineFits(k) /\ IsList(e.selected) /\ DOMAIN e.selected = 1 .. Len(e.selected) /\ Len(e.selected) \in Nat
  BY <1>1, ScheduledRun
<1> HIDE DEF status, sections
<1>3. IsList(results) /\ Len(results) = Len(e.selected)
  <2>1. results = [i \in 1 .. Len(e.selected) |-> results[i]]
    BY <1>2
  <2> HIDE DEF results
  <2> QED
    BY <1>2, <2>1, FunctionIsList
<1>4. IsList(last) /\ Len(last) = 2 /\ \A m \in 1 .. 2 : last[m].type # "candidate_result"
  <2>1. IsList(last)
    BY TupleIsList, Zenon
  <2> QED
    BY <2>1 DEF S!Step
<1>5. ASSUME NEW m \in DOMAIN (results \o last), (results \o last)[m].type = "candidate_result"
      PROVE  (results \o last)[m].candidate \in S!Range(e.selected)
  <2> HIDE DEF last
  <2>0. PICK D : results \in Seq(D)
    BY <1>3 DEF IsList
  <2>1. PICK Q : last \in Seq(Q)
    BY <1>4 DEF IsList
  <2> HIDE DEF results
  <2>2. results \in Seq(D \cup Q) /\ last \in Seq(D \cup Q)
    BY <2>0, <2>1, SeqMonotonic
  <2>3. m \in 1 .. Len(results) + 2 /\ Len(results) \in Nat
    BY <1>4, <1>5, <2>2, ConcatProperties
  <2>4. (results \o last)[m] = IF m <= Len(results) THEN results[m] ELSE last[m - Len(results)]
    BY <1>4, <2>2, <2>3, ConcatProperties
  <2>5. m <= Len(results)
    <3> SUFFICES ASSUME ~(m <= Len(results)) PROVE FALSE
      OBVIOUS
    <3>1. m - Len(results) \in 1 .. 2
      BY <2>3
    <3> QED
      BY <1>4, <1>5, <2>4, <3>1
  <2>6. m \in DOMAIN e.selected
    BY <1>2, <1>3, <2>3, <2>5
  <2>7. results[m].candidate = e.selected[m]
    BY <2>6 DEF results, S!Step
  <2> QED
    BY <2>4, <2>5, <2>6, <2>7 DEF S!Range
<1>6. IsList(results \o last)
  BY <1>3, <1>4, JoinIsList
<1> DEFINE list == results \o last
<1>7. \A m \in DOMAIN list : list[m].type = "candidate_result" => list[m].candidate \in S!Range(e.selected)
  BY <1>5
<1> HIDE DEF results, last, list
<1>8. r.steps = S!PutAll(e.steps, e.next, list)
  BY DEF S!Report, list
<1>9. S!Results(r) \subseteq S!Range(e.selected)
  <2> SUFFICES ASSUME NEW i \in DOMAIN r.steps, r.steps[i].type = "candidate_result", r.steps[i].status = "success"
               PROVE  r.steps[i].candidate \in S!Range(e.selected)
    BY DEF S!Results
  <2>1. e.next \in Nat /\ Quiet(e.steps) /\ Len(list) \in Nat /\ DOMAIN list = 1 .. Len(list)
    BY <1>2, <1>6, ListFacts DEF EngineFits, list
  <2>2. IsList(list) /\ i \in DOMAIN S!PutAll(e.steps, e.next, list)
    BY <1>6, <1>8 DEF list
  <2>3. \/ i - e.next + 1 \in DOMAIN list /\ S!PutAll(e.steps, e.next, list)[i] = list[i - e.next + 1]
        \/ i \in DOMAIN e.steps /\ S!PutAll(e.steps, e.next, list)[i] = e.steps[i]
    BY <2>1, <2>2, PutEntry
  <2> QED
    BY <1>7, <1>8, <2>1, <2>3 DEF Quiet
<1> HIDE DEF steps
<1> QED
  BY <1>1, <1>9, WorkerCommits

\* A run that ran out of time records no result.
LEMMA ExhaustKeeps == ASSUME ScheduledInv, NEW k \in Workers, S!Exhaust(k) PROVE ScheduledInv'
<1> DEFINE e == engine[k]
           empty == [e EXCEPT !.selected = <<>>, !.skipped = <<>>, !.refs = {c.id : c \in S!Range(e.selected)}]
           steps == S!Put(e.steps, 98, S!Step("budget_guard", "partial", None))
           sections == [x \in Sections |-> S!Deterministic(x, empty.selected, empty.skipped, empty.refs)]
           r == S!Report(e, "partial", steps, sections)
<1>1. e.at = "planned" /\ reports' = Append(reports, r) /\ engine' = [engine EXCEPT ![k] = S!Idle] /\ tick' = tick
  BY DEF S!Exhaust
<1> HIDE DEF sections, empty
<1>2. EngineFits(k)
  BY <1>1, ScheduledRun
<1>3. Quiet(steps)
  <2>1. Quiet(e.steps) /\ 98 \in Nat
    BY <1>2 DEF EngineFits
  <2>2. ~(S!Step("budget_guard", "partial", None).type = "candidate_result" /\ S!Step("budget_guard", "partial", None).status = "success")
    BY DEF S!Step
  <2> QED
    BY <2>1, <2>2, PutOneQuiet
<1> HIDE DEF steps
<1>4. r.steps = steps
  BY DEF S!Report
<1>5. S!Results(r) \subseteq S!Range(e.selected)
  BY <1>3, <1>4 DEF S!Results, Quiet
<1> QED
  BY <1>1, <1>5, WorkerCommits

\* A worker that dies leaves the reports as they are.
LEMMA LoseKeeps == ASSUME ScheduledInv, NEW k \in Workers, S!Lose(k) PROVE ScheduledInv'
<1>1. engine' = [engine EXCEPT ![k] = S!Idle] /\ reports' = reports /\ tick' \in Nat /\ S!Idle.at = "idle"
  BY DEF S!Lose, ScheduledInv, S!Idle
<1> QED
  BY <1>1, WorkerMoves

LEMMA ScheduledStep == ScheduledInv /\ [S!Next]_(S!engineVars) => ScheduledInv'
<1> SUFFICES ASSUME ScheduledInv, [S!Next]_(S!engineVars) PROVE ScheduledInv'
  OBVIOUS
<1>1. ASSUME reports' = reports, engine' = engine, tick' \in Nat PROVE ScheduledInv'
  <2>1. \A i \in DOMAIN reports : ReportFits(i)'
    BY <1>1 DEF ScheduledInv, ReportFits, Reported
  <2>2. \A k \in Workers : engine'[k].at # "idle" => EngineFits(k)'
    BY <1>1 DEF ScheduledInv, EngineFits, Reported
  <2> QED
    BY <1>1, <2>1, <2>2 DEF ScheduledInv
<1>2. CASE S!Pass
  BY <1>1, <1>2 DEF S!Pass, ScheduledInv
<1>3. ASSUME NEW e, NEW p, NEW open, S!Update(e, p, open) PROVE ScheduledInv'
  BY <1>1, <1>3 DEF S!Update, ScheduledInv
<1>4. CASE UNCHANGED S!engineVars
  BY <1>1, <1>4 DEF S!engineVars, ScheduledInv
<1> QED
  BY <1>2, <1>3, <1>4, PlanRunKeeps, CollectKeeps, FinishRunKeeps, ExhaustKeeps, LoseKeeps DEF S!Next

\* The scheduled investigation keeps its invariant.
THEOREM ScheduledInductive == S!Spec => []ScheduledInv
<1> QED
  BY ScheduledBegins, ScheduledStep, PTL DEF S!Spec

\* What a briefing leaves out as a duplicate was reported, by a run that ended well within the horizon
\* and investigated that very candidate: nothing an analyst was not told is suppressed.
THEOREM SkipsWereReported == S!Spec => []SkippedWasReported
<1>1. ScheduledInv => SkippedWasReported
  BY DEF ScheduledInv, ReportFits, Reported, SkippedWasReported, S!SkippedWasReported
<1> QED
  BY <1>1, ScheduledInductive, PTL
=============================================================================
