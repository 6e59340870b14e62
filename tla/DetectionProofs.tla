-------------------------- MODULE DetectionProofs --------------------------
(***************************************************************************)
(* Proofs about Detection, for any number of sessions, events and alerts:  *)
(* a second open alert of a rule needs requests that overlapped or a       *)
(* reopened alert; a burst ingested alone has its alert; a pattern is      *)
(* missed only by overlapping requests or after an analyst's change.  Each *)
(* rests on an invariant of the open transactions: what they have raised   *)
(* and which rules are still to run.  At the end, what the simulation of a *)
(* production rule reports (ProductionSimulation).                         *)
(***************************************************************************)
EXTENDS Detection, ProductionSimulation, FiniteSetTheorems, TLAPS

\* A list, of whatever it holds.
IsList(s) == Len(s) \in Nat /\ DOMAIN s = 1 .. Len(s) /\ \E S : s \in Seq(S)

\* A function on 1 .. n is a list; lists are joined, extended and shortened to lists.
LEMMA FunctionIsList ==
    ASSUME NEW n \in Nat, NEW s, s = [i \in 1 .. n |-> s[i]]
    PROVE  IsList(s) /\ Len(s) = n
<1>1. s \in Seq({s[i] : i \in 1 .. n})
  OBVIOUS
<1>2. DOMAIN s = 1 .. n
  OBVIOUS
<1>3. Len(s) = n
  BY <1>1, <1>2
<1> QED
  BY <1>1, <1>2, <1>3 DEF IsList

\* What a joined list holds, half by half.
LEMMA JoinFacts ==
    ASSUME NEW s, NEW t, IsList(s), IsList(t)
    PROVE  /\ IsList(s \o t) /\ Len(s \o t) = Len(s) + Len(t)
           /\ \A i \in 1 .. Len(s) : (s \o t)[i] = s[i]
           /\ \A i \in 1 .. Len(t) : (s \o t)[Len(s) + i] = t[i]
           /\ \A i \in Len(s) + 1 .. Len(s) + Len(t) : (s \o t)[i] = t[i - Len(s)]
<1>1. PICK S : s \in Seq(S)
  BY DEF IsList
<1>2. PICK T : t \in Seq(T)
  BY DEF IsList
<1>3. s \in Seq(S \cup T) /\ t \in Seq(S \cup T)
  <2>1. \A i \in 1 .. Len(s) : s[i] \in S \cup T
    BY <1>1
  <2>2. \A i \in 1 .. Len(t) : t[i] \in S \cup T
    BY <1>2
  <2>3. s = [i \in 1 .. Len(s) |-> s[i]] /\ t = [i \in 1 .. Len(t) |-> t[i]]
    BY <1>1, <1>2
  <2> QED
    BY <2>1, <2>2, <2>3 DEF IsList
<1>4. s \o t \in Seq(S \cup T) /\ Len(s \o t) = Len(s) + Len(t)
  BY <1>3
<1> QED
  BY <1>3, <1>4 DEF IsList

\* What a list holds after an append.
LEMMA AppendFacts ==
    ASSUME NEW s, NEW e, IsList(s)
    PROVE  /\ IsList(Append(s, e)) /\ Len(Append(s, e)) = Len(s) + 1
           /\ \A i \in 1 .. Len(s) : Append(s, e)[i] = s[i]
           /\ Append(s, e)[Len(s) + 1] = e
<1>1. PICK S : s \in Seq(S)
  BY DEF IsList
<1>2. s \in Seq(S \cup {e})
  <2>1. s = [i \in 1 .. Len(s) |-> s[i]] /\ \A i \in 1 .. Len(s) : s[i] \in S \cup {e}
    BY <1>1
  <2> QED
    BY <2>1 DEF IsList
<1>3. Append(s, e) \in Seq(S \cup {e}) /\ Len(Append(s, e)) = Len(s) + 1
  BY <1>2
<1> QED
  BY <1>2, <1>3 DEF IsList

\* What is left of a list without its head.
LEMMA TailFacts ==
    ASSUME NEW s, IsList(s), s # <<>>
    PROVE  /\ Len(s) > 0 /\ Head(s) = s[1] /\ IsList(Tail(s)) /\ Len(Tail(s)) = Len(s) - 1
           /\ \A i \in 2 .. Len(s) : Tail(s)[i - 1] = s[i]
<1>1. PICK S : s \in Seq(S)
  BY DEF IsList
<1>2. Tail(s) \in Seq(S) /\ Len(s) > 0 /\ Len(Tail(s)) = Len(s) - 1
  BY <1>1
<1> QED
  BY <1>1, <1>2 DEF IsList

\* The empty list.
LEMMA EmptyIsList == IsList(<<>>) /\ Len(<<>>) = 0
<1>1. <<>> \in Seq({}) /\ Len(<<>>) = 0 /\ DOMAIN <<>> = 1 .. 0
  OBVIOUS
<1> QED
  BY <1>1 DEF IsList

\* The detectors of an event are a list.
LEMMA ToRunIsList == ASSUME NEW kind PROVE IsList(ToRun(kind))
<1> DEFINE all == Detectors(kind.type)
           run == {i \in DOMAIN all : Applies(all[i], kind.source)}
<1>1. IsFiniteSet(run) /\ Cardinality(run) \in Nat
  <2>1. \E n \in 0 .. 3 : DOMAIN all = 1 .. n
    BY DEF Detectors
  <2>2. IsFiniteSet(DOMAIN all)
    BY <2>1, FS_Interval
  <2>3. run \subseteq DOMAIN all
    OBVIOUS
  <2> QED
    BY <2>2, <2>3, FS_Subset, FS_CardinalityType
<1> HIDE DEF all, run
<1> DEFINE n == Cardinality(run)
           s == [k \in 1 .. n |-> all[CHOOSE i \in run : Cardinality({j \in run : j <= i}) = k]]
<1>2. ToRun(kind) = s
  BY DEF ToRun, all, run
<1>3. n \in Nat
  BY <1>1
<1> HIDE DEF n
<1>4. s = [k \in 1 .. n |-> s[k]]
  OBVIOUS
<1> HIDE DEF s
<1>5. IsList(s)
  BY <1>3, <1>4, FunctionIsList
<1> QED
  BY <1>2, <1>5

-----------------------------------------------------------------------------
(* What the tables and the transactions look like. *)

Open(t) ==
    /\ DOMAIN t = {"at", "own", "todo", "raised", "fresh", "alone"}
    /\ t.at \in Nat /\ t.at <= now
    /\ IsList(t.own) /\ Len(t.own) > 0 /\ IsList(t.todo) /\ IsList(t.raised)
    /\ \A i \in DOMAIN t.raised : t.raised[i].seen \in Nat /\ t.raised[i].seen <= Len(alerts)

AlertsAreShaped ==
    /\ IsList(alerts)
    /\ \A a \in DOMAIN alerts : /\ DOMAIN alerts[a] = {"rule", "source", "at", "severity", "seen", "status", "reopened"}
                                /\ alerts[a].at \in Nat /\ alerts[a].at <= now
                                /\ alerts[a].seen \in Nat /\ alerts[a].seen < a

EventsAreShaped == IsList(events) /\ \A i \in DOMAIN events : events[i].at \in Nat

SessionsAreShaped ==
    /\ session = [s \in Sessions |-> session[s]]
    /\ \A s \in Sessions : session[s] = Idle \/ Open(session[s])

Shape == now \in Nat /\ changes \in Nat /\ AlertsAreShaped /\ EventsAreShaped /\ SessionsAreShaped

\* A busy session has an open transaction.
LEMMA BusyIsOpen ==
    ASSUME Shape, NEW s \in Sessions
    PROVE  /\ Busy(s) => Open(session[s])
           /\ Open(session[s]) => Busy(s)
<1>1. DOMAIN Idle = {"at"}
  BY DEF Idle
<1> QED
  BY <1>1 DEF Shape, SessionsAreShaped, Busy, Open

\* What a rule of a transaction raises, and that it raises nothing.
Said(s, rule, severity) ==
    [rule |-> rule, severity |-> severity, seen |-> Len(alerts), source |-> session[s].own[Len(session[s].own)].source]

Left(s, rule) ==
    IF Guarded(s, rule) THEN {} ELSE {c \in Candidates(s, rule) : ~Suppressed(rule, c.severity, session[s].at)}

Quiet(s, rule) == {c \in Left(s, rule) : \A d \in Left(s, rule) : c.order <= d.order} = {}

\* What a step of a rule does to its transaction.
LEMMA RunRuleFacts ==
    ASSUME Shape, NEW s \in Sessions, RunRule(s)
    PROVE  /\ Open(session[s]) /\ session[s].todo # <<>>
           /\ \A r \in Sessions \ {s} : session'[r] = session[r]
           /\ session' = [r \in Sessions |-> session'[r]]
           /\ DOMAIN session'[s] = DOMAIN session[s]
           /\ session'[s].at = session[s].at /\ session'[s].own = session[s].own /\ session'[s].alone = session[s].alone
           /\ session'[s].todo = Tail(session[s].todo)
           /\ \/ /\ session'[s].raised = session[s].raised /\ session'[s].fresh = session[s].fresh
                 /\ Quiet(s, Head(session[s].todo))
              \/ /\ ~Guarded(s, Head(session[s].todo))
                 /\ \E c : session'[s].raised = Append(session[s].raised, Said(s, Head(session[s].todo), c))
                 /\ session[s].fresh \/ Head(session[s].todo) \in BaseRules => session'[s].fresh
<1> DEFINE t == session[s]
           rule == Head(t.todo)
           first == {c \in Left(s, rule) : \A d \in Left(s, rule) : c.order <= d.order}
<1>1. Open(t) /\ t.todo # <<>> /\ session = [r \in Sessions |-> session[r]]
  BY BusyIsOpen DEF RunRule, Shape, SessionsAreShaped
<1>2. \/ /\ first = {}
         /\ session' = [session EXCEPT ![s].todo = Tail(@)]
      \/ \E c \in first : session' = [session EXCEPT ![s].todo = Tail(@), ![s].raised = Append(@, Said(s, rule, c.severity)),
                                                     ![s].fresh = @ \/ (rule \in BaseRules)]
  BY Zenon DEF RunRule, Left, Said
<1> HIDE DEF first
<1>3. CASE first = {} /\ session' = [session EXCEPT ![s].todo = Tail(@)]
  <2>1. Quiet(s, rule)
    BY <1>3 DEF first, Quiet
  <2> QED
    BY <1>1, <1>3, <2>1 DEF Open
<1>4. ASSUME NEW c \in first, 
             session' = [session EXCEPT ![s].todo = Tail(@), ![s].raised = Append(@, Said(s, rule, c.severity)),
                                        ![s].fresh = @ \/ (rule \in BaseRules)]
      PROVE  /\ \A r \in Sessions \ {s} : session'[r] = session[r]
             /\ session' = [r \in Sessions |-> session'[r]]
             /\ DOMAIN session'[s] = DOMAIN session[s]
             /\ session'[s].at = session[s].at /\ session'[s].own = session[s].own /\ session'[s].alone = session[s].alone
             /\ session'[s].todo = Tail(session[s].todo)
             /\ ~Guarded(s, rule)
             /\ session'[s].raised = Append(session[s].raised, Said(s, rule, c.severity))
             /\ session[s].fresh \/ rule \in BaseRules => session'[s].fresh
  <2>1. ~Guarded(s, rule)
    BY DEF first, Left
  <2> DEFINE said == Append(t.raised, Said(s, rule, c.severity))
             fresh == t.fresh \/ (rule \in BaseRules)
             u == [t EXCEPT !.todo = Tail(t.todo), !.raised = said, !.fresh = fresh]
  <2>2. session' = [session EXCEPT ![s] = u]
    BY <1>4
  <2>3. session'[s] = u /\ \A r \in Sessions \ {s} : session'[r] = session[r]
    BY <1>1, <2>2
  <2>4. session' = [r \in Sessions |-> session'[r]]
    BY <1>1, <2>2
  <2> HIDE DEF said, fresh
  <2>5. DOMAIN u = DOMAIN t /\ u.at = t.at /\ u.own = t.own /\ u.alone = t.alone /\ u.todo = Tail(t.todo) /\ u.raised = said /\ u.fresh = fresh
    BY <1>1 DEF Open
  <2>6. (t.fresh \/ rule \in BaseRules) => fresh
    BY DEF fresh
  <2> HIDE DEF u
  <2> QED
    BY <2>1, <2>3, <2>4, <2>5, <2>6 DEF said
<1> QED
  BY <1>1, <1>2, <1>3, <1>4

\* What the begin of a request, the next event and the correlation do.
LEMMA BeginFacts ==
    ASSUME Shape, NEW s \in Sessions, NEW kind, Begin(s, kind)
    PROVE  /\ ~Busy(s) /\ session' = [r \in Sessions |-> session'[r]]
           /\ DOMAIN session'[s] = {"at", "own", "todo", "raised", "fresh", "alone"}
           /\ session'[s].at = now /\ session'[s].own = <<kind>> /\ session'[s].todo = ToRun(kind) /\ session'[s].raised = <<>>
           /\ session'[s].alone => \A r \in Sessions : ~Busy(r)
           /\ \A r \in Sessions \ {s} : ~Busy(r) => session'[r] = session[r]
           /\ \A r \in Sessions \ {s} : Busy(r) => session'[r] = [session[r] EXCEPT !.alone = FALSE]
           /\ UNCHANGED <<scene, events, alerts, audit, unlogged, now, changes>>
<1>1. ~Busy(s)
  BY DEF Begin
<1>2. \A r \in Sessions : ~Busy(r) => session[r] = Idle
  BY DEF Busy
<1> DEFINE others == \E r \in Sessions : Busy(r)
           t == [at |-> now, own |-> <<kind>>, todo |-> ToRun(kind), raised |-> <<>>, fresh |-> FALSE, alone |-> ~others]
<1>3. session' = [r \in Sessions |-> CASE r = s -> t [] Busy(r) -> [session[r] EXCEPT !.alone = FALSE] [] OTHER -> Idle]
  BY Zenon DEF Begin
<1> HIDE DEF t, others
<1>4. session' = [r \in Sessions |-> session'[r]] /\ session'[s] = t
  BY <1>1, <1>3
<1>5. \A r \in Sessions \ {s} : ~Busy(r) => session'[r] = session[r]
  BY <1>2, <1>3
<1>6. \A r \in Sessions \ {s} : Busy(r) => session'[r] = [session[r] EXCEPT !.alone = FALSE]
  BY <1>3
<1>7. UNCHANGED <<scene, events, alerts, audit, unlogged, now, changes>>
  BY DEF Begin
<1>8. /\ DOMAIN t = {"at", "own", "todo", "raised", "fresh", "alone"} /\ t.alone = ~others
      /\ t.at = now /\ t.own = <<kind>> /\ t.todo = ToRun(kind) /\ t.raised = <<>>
  BY DEF t
<1>9. t.alone => \A r \in Sessions : ~Busy(r)
  BY <1>8, Zenon DEF others
<1> QED
  BY <1>1, <1>4, <1>5, <1>6, <1>7, <1>8, <1>9

\* The next event of a batch moves its own transaction only.
LEMMA NextEventFacts ==
    ASSUME Shape, NEW s \in Sessions, NEW kind, NextEvent(s, kind)
    PROVE  /\ Open(session[s]) /\ session[s].todo = <<>> /\ ~session[s].fresh
           /\ session' = [r \in Sessions |-> session'[r]]
           /\ session'[s] = [session[s] EXCEPT !.own = Append(session[s].own, kind), !.todo = ToRun(kind)]
           /\ \A r \in Sessions \ {s} : session'[r] = session[r]
           /\ UNCHANGED <<scene, events, alerts, audit, unlogged, now, changes>>
<1>1. session = [r \in Sessions |-> session[r]]
  BY DEF Shape, SessionsAreShaped
<1>2. session' = [session EXCEPT ![s].own = Append(@, kind), ![s].todo = ToRun(kind)]
  BY DEF NextEvent
<1>3. session' = [session EXCEPT ![s] = [session[s] EXCEPT !.own = Append(session[s].own, kind), !.todo = ToRun(kind)]]
  BY <1>2
<1>4. session[s].todo = <<>> /\ ~session[s].fresh /\ UNCHANGED <<scene, events, alerts, audit, unlogged, now, changes>> /\ Busy(s)
  BY DEF NextEvent
<1> QED
  BY <1>1, <1>3, <1>4, BusyIsOpen

\* The correlation gives its transaction the correlation rules to run.
LEMMA CorrelateFacts ==
    ASSUME Shape, NEW s \in Sessions, Correlate(s)
    PROVE  /\ Open(session[s]) /\ session[s].todo = <<>>
           /\ session' = [r \in Sessions |-> session'[r]]
           /\ session'[s] = [session[s] EXCEPT !.todo = CorrelationRules, !.fresh = FALSE]
           /\ \A r \in Sessions \ {s} : session'[r] = session[r]
           /\ UNCHANGED <<scene, events, alerts, audit, unlogged, now, changes>>
<1>1. session = [r \in Sessions |-> session[r]]
  BY DEF Shape, SessionsAreShaped
<1>2. session' = [session EXCEPT ![s].todo = CorrelationRules, ![s].fresh = FALSE]
  BY DEF Correlate
<1>3. session' = [session EXCEPT ![s] = [session[s] EXCEPT !.todo = CorrelationRules, !.fresh = FALSE]]
  BY <1>2
<1>4. session[s].todo = <<>> /\ UNCHANGED <<scene, events, alerts, audit, unlogged, now, changes>> /\ Busy(s)
  BY DEF Correlate
<1> QED
  BY <1>1, <1>3, <1>4, BusyIsOpen

\* What a commit appends, and that it ends the transaction.
EventsOf(t) == [i \in DOMAIN t.own |-> [kind |-> t.own[i], at |-> t.at, alone |-> t.alone]]

AlertsOf(t) ==
    [i \in DOMAIN t.raised |-> [rule |-> t.raised[i].rule, source |-> t.raised[i].source, at |-> t.at,
                                severity |-> t.raised[i].severity, seen |-> t.raised[i].seen,
                                status |-> "open", reopened |-> FALSE]]

\* A commit appends the events and alerts of its transaction, in their order, and ends it.
LEMMA CommitFacts ==
    ASSUME Shape, NEW s \in Sessions, Commit(s)
    PROVE  /\ Open(session[s]) /\ session[s].todo = <<>> /\ ~session[s].fresh
           /\ IsList(events') /\ Len(events') = Len(events) + Len(session[s].own)
           /\ \A i \in DOMAIN events : events'[i] = events[i]
           /\ \A i \in DOMAIN session[s].own : events'[Len(events) + i] = EventsOf(session[s])[i]
           /\ \A i \in DOMAIN events' : i \in DOMAIN events \/ i - Len(events) \in DOMAIN session[s].own
           /\ IsList(alerts') /\ Len(alerts') = Len(alerts) + Len(session[s].raised)
           /\ \A a \in DOMAIN alerts : alerts'[a] = alerts[a]
           /\ \A i \in DOMAIN session[s].raised : alerts'[Len(alerts) + i] = AlertsOf(session[s])[i]
           /\ \A a \in DOMAIN alerts' : a \in DOMAIN alerts \/ a - Len(alerts) \in DOMAIN session[s].raised
           /\ session' = [r \in Sessions |-> session'[r]] /\ session'[s] = Idle
           /\ \A r \in Sessions \ {s} : session'[r] = session[r]
           /\ UNCHANGED <<scene, audit, unlogged, now, changes>>
<1> DEFINE t == session[s]
<1>1. Open(t) /\ t.todo = <<>> /\ ~t.fresh /\ UNCHANGED <<scene, audit, unlogged, now, changes>>
  BY BusyIsOpen DEF Commit
<1>2. events' = events \o EventsOf(t) /\ alerts' = alerts \o AlertsOf(t)
  BY DEF Commit, EventsOf, AlertsOf
<1>3. session' = [r \in Sessions |-> session'[r]] /\ session'[s] = Idle /\ \A r \in Sessions \ {s} : session'[r] = session[r]
  BY DEF Commit, Shape, SessionsAreShaped
<1>4. IsList(t.own) /\ IsList(t.raised) /\ IsList(events) /\ IsList(alerts)
  BY <1>1 DEF Open, Shape, EventsAreShaped, AlertsAreShaped
<1>5. IsList(EventsOf(t)) /\ Len(EventsOf(t)) = Len(t.own)
  <2>1. EventsOf(t) = [i \in 1 .. Len(t.own) |-> EventsOf(t)[i]] /\ Len(t.own) \in Nat
    BY <1>4 DEF EventsOf, IsList
  <2> QED
    BY <2>1, FunctionIsList
<1>6. IsList(AlertsOf(t)) /\ Len(AlertsOf(t)) = Len(t.raised)
  <2>1. AlertsOf(t) = [i \in 1 .. Len(t.raised) |-> AlertsOf(t)[i]] /\ Len(t.raised) \in Nat
    BY <1>4 DEF AlertsOf, IsList
  <2> QED
    BY <2>1, FunctionIsList
<1>7. /\ IsList(events') /\ Len(events') = Len(events) + Len(t.own)
      /\ \A i \in DOMAIN events : events'[i] = events[i]
      /\ \A i \in DOMAIN t.own : events'[Len(events) + i] = EventsOf(t)[i]
  <2> DEFINE new == EventsOf(t)
             all == events \o new
  <2>1. DOMAIN events = 1 .. Len(events) /\ DOMAIN t.own = 1 .. Len(new) /\ IsList(events) /\ IsList(new)
    BY <1>4, <1>5 DEF IsList
  <2> HIDE DEF new
  <2>2. /\ IsList(all) /\ Len(all) = Len(events) + Len(new)
        /\ \A i \in 1 .. Len(events) : all[i] = events[i]
        /\ \A i \in 1 .. Len(new) : all[Len(events) + i] = new[i]
    <3>1. IsList(all)
      BY <2>1, JoinFacts
    <3>2. Len(all) = Len(events) + Len(new)
      BY <2>1, JoinFacts
    <3>3. \A i \in 1 .. Len(events) : all[i] = events[i]
      BY <2>1, JoinFacts
    <3>4. \A i \in 1 .. Len(new) : all[Len(events) + i] = new[i]
      BY <2>1, JoinFacts
    <3> QED
      BY <3>1, <3>2, <3>3, <3>4
  <2>3. events' = all /\ Len(new) = Len(t.own)
    BY <1>2, <1>5 DEF new
  <2> HIDE DEF all
  <2> QED
    BY <2>1, <2>2, <2>3 DEF new
<1>8. \A i \in DOMAIN events' : i \in DOMAIN events \/ i - Len(events) \in DOMAIN t.own
  BY <1>4, <1>7 DEF IsList
<1>9. /\ IsList(alerts') /\ Len(alerts') = Len(alerts) + Len(t.raised)
      /\ \A a \in DOMAIN alerts : alerts'[a] = alerts[a]
      /\ \A i \in DOMAIN t.raised : alerts'[Len(alerts) + i] = AlertsOf(t)[i]
  <2> DEFINE new == AlertsOf(t)
             all == alerts \o new
  <2>1. DOMAIN alerts = 1 .. Len(alerts) /\ DOMAIN t.raised = 1 .. Len(new) /\ IsList(alerts) /\ IsList(new)
    BY <1>4, <1>6 DEF IsList
  <2> HIDE DEF new
  <2>2. /\ IsList(all) /\ Len(all) = Len(alerts) + Len(new)
        /\ \A i \in 1 .. Len(alerts) : all[i] = alerts[i]
        /\ \A i \in 1 .. Len(new) : all[Len(alerts) + i] = new[i]
    <3>1. IsList(all)
      BY <2>1, JoinFacts
    <3>2. Len(all) = Len(alerts) + Len(new)
      BY <2>1, JoinFacts
    <3>3. \A i \in 1 .. Len(alerts) : all[i] = alerts[i]
      BY <2>1, JoinFacts
    <3>4. \A i \in 1 .. Len(new) : all[Len(alerts) + i] = new[i]
      BY <2>1, JoinFacts
    <3> QED
      BY <3>1, <3>2, <3>3, <3>4
  <2>3. alerts' = all /\ Len(new) = Len(t.raised)
    BY <1>2, <1>6 DEF new
  <2> HIDE DEF all
  <2> QED
    BY <2>1, <2>2, <2>3 DEF new
<1>10. \A a \in DOMAIN alerts' : a \in DOMAIN alerts \/ a - Len(alerts) \in DOMAIN t.raised
  BY <1>4, <1>9 DEF IsList
<1> QED
  BY <1>1, <1>3, <1>7, <1>8, <1>9, <1>10

\* What a change of an alert's status leaves alone.
LEMMA SetStatusFacts ==
    ASSUME Shape, NEW a \in DOMAIN alerts, NEW status \in {"open", "resolved"}, SetStatus(a, status)
    PROVE  /\ IsList(alerts') /\ Len(alerts') = Len(alerts) /\ DOMAIN alerts' = DOMAIN alerts
           /\ \A b \in DOMAIN alerts : /\ DOMAIN alerts'[b] = DOMAIN alerts[b]
                                       /\ alerts'[b].rule = alerts[b].rule /\ alerts'[b].source = alerts[b].source
                                       /\ alerts'[b].at = alerts[b].at /\ alerts'[b].seen = alerts[b].seen
                                       /\ alerts'[b].status = "open" /\ ~alerts'[b].reopened
                                          => alerts[b].status = "open" /\ ~alerts[b].reopened
           /\ changes' = changes + 1 /\ UNCHANGED <<scene, events, audit, session, now, begun>>
<1> DEFINE reopened == alerts[a].reopened \/ status = "open"
           x == [alerts[a] EXCEPT !.status = status, !.reopened = reopened]
<1>1. IsList(alerts) /\ DOMAIN alerts[a] = {"rule", "source", "at", "severity", "seen", "status", "reopened"}
  BY DEF Shape, AlertsAreShaped
<1>2. alerts' = [alerts EXCEPT ![a] = x] /\ changes' = changes + 1 /\ UNCHANGED <<scene, events, audit, session, now, begun>>
  BY DEF SetStatus
<1> HIDE DEF reopened
<1>3. /\ DOMAIN x = DOMAIN alerts[a] /\ x.rule = alerts[a].rule /\ x.source = alerts[a].source /\ x.at = alerts[a].at
      /\ x.seen = alerts[a].seen /\ x.status = status /\ x.reopened = reopened
  BY <1>1
<1> HIDE DEF x
<1>4. DOMAIN alerts' = DOMAIN alerts /\ alerts'[a] = x /\ \A b \in DOMAIN alerts \ {a} : alerts'[b] = alerts[b]
  BY <1>2
<1>5. IsList(alerts') /\ Len(alerts') = Len(alerts)
  <2>1. Len(alerts) \in Nat /\ alerts' = [i \in 1 .. Len(alerts) |-> alerts'[i]]
    BY <1>1, <1>2 DEF IsList
  <2> QED
    BY <2>1, FunctionIsList
<1>6. x.status = "open" => reopened
  BY <1>3 DEF reopened
<1>7. x.status = "open" /\ ~x.reopened => FALSE
  BY <1>3, <1>6
<1> QED
  BY <1>2, <1>3, <1>4, <1>5, <1>7

-----------------------------------------------------------------------------
(* The tables and the transactions keep their form. *)

\* An open transaction stays one while the clock and the alert table do not shrink.
LEMMA StaysOpen ==
    ASSUME NEW t, Open(t), now \in Nat, now' \in Nat, now' >= now, Len(alerts) \in Nat, Len(alerts') \in Nat, Len(alerts') >= Len(alerts)
    PROVE  Open(t)'
  BY DEF Open, IsList

\* Every step keeps the form.
LEMMA ShapeKept == Shape /\ [Next]_vars => Shape'
<1> SUFFICES ASSUME Shape, [Next]_vars PROVE Shape'
  OBVIOUS
<1>0. /\ now \in Nat /\ changes \in Nat /\ Len(alerts) \in Nat /\ IsList(alerts) /\ IsList(events)
      /\ session = [s \in Sessions |-> session[s]] /\ \A s \in Sessions : session[s] = Idle \/ Open(session[s])
  BY DEF Shape, AlertsAreShaped, EventsAreShaped, SessionsAreShaped, IsList
<1>a. ASSUME UNCHANGED <<events, alerts, now, changes>>, session' = [r \in Sessions |-> session'[r]],
             NEW s \in Sessions, \A r \in Sessions \ {s} : session'[r] = session[r], session'[s] = Idle \/ Open(session'[s])
      PROVE  Shape'
  <2>1. AlertsAreShaped' /\ EventsAreShaped'
    BY <1>a DEF Shape, AlertsAreShaped, EventsAreShaped, IsList
  <2>2. \A r \in Sessions : session'[r] = Idle \/ Open(session'[r])
    BY <1>0, <1>a
  <2>3. \A r \in Sessions : (session[r] = Idle \/ Open(session[r]))'
    BY <1>a, <2>2 DEF Open, Idle
  <2> QED
    BY <1>0, <1>a, <2>1, <2>3 DEF Shape, SessionsAreShaped
<1>1. ASSUME NEW s \in Sessions, NEW kind, Begin(s, kind) PROVE Shape'
  <2>1. IsList(session'[s].own) /\ Len(session'[s].own) = 1
    <3> DEFINE own == <<kind>>
    <3>1. own = [i \in 1 .. 1 |-> own[i]] /\ session'[s].own = own
      BY <1>1, BeginFacts
    <3> HIDE DEF own
    <3> QED
      BY <3>1, FunctionIsList
  <2>2. Open(session'[s])
    BY <1>0, <1>1, <2>1, BeginFacts, ToRunIsList, EmptyIsList DEF Open
  <2>3. ASSUME NEW r \in Sessions \ {s} PROVE session'[r] = Idle \/ Open(session'[r])
    <3>1. CASE ~Busy(r)
      BY <1>0, <1>1, <3>1, BeginFacts
    <3>2. CASE Busy(r)
      <4>1. Open(session[r]) /\ session'[r] = [session[r] EXCEPT !.alone = FALSE]
        BY <1>1, <3>2, BeginFacts, BusyIsOpen
      <4> DEFINE u == [session[r] EXCEPT !.alone = FALSE]
      <4>2. /\ DOMAIN u = DOMAIN session[r] /\ u.at = session[r].at /\ u.own = session[r].own
            /\ u.todo = session[r].todo /\ u.raised = session[r].raised
        BY <4>1 DEF Open
      <4> QED
        BY <4>1, <4>2 DEF Open
    <3> QED
      BY <3>1, <3>2
  <2>4. UNCHANGED <<events, alerts, now, changes>> /\ session' = [r \in Sessions |-> session'[r]]
    BY <1>1, BeginFacts
  <2>5. AlertsAreShaped' /\ EventsAreShaped'
    BY <2>4 DEF Shape, AlertsAreShaped, EventsAreShaped, IsList
  <2>6. \A r \in Sessions : session'[r] = Idle \/ Open(session'[r])
    BY <2>2, <2>3
  <2>7. \A r \in Sessions : (session[r] = Idle \/ Open(session[r]))'
    BY <2>4, <2>6 DEF Open, Idle
  <2> QED
    BY <1>0, <2>4, <2>5, <2>7 DEF Shape, SessionsAreShaped
<1>2. ASSUME NEW s \in Sessions, NEW kind, NextEvent(s, kind) PROVE Shape'
  <2> DEFINE t == session[s]
             own == Append(t.own, kind)
             u == [t EXCEPT !.own = own, !.todo = ToRun(kind)]
  <2>1. Open(t) /\ session'[s] = u
    BY <1>2, NextEventFacts
  <2>2. IsList(own) /\ Len(own) = Len(t.own) + 1 /\ IsList(ToRun(kind))
    BY <2>1, AppendFacts, ToRunIsList DEF Open
  <2> HIDE DEF own
  <2>3. DOMAIN u = DOMAIN t /\ u.at = t.at /\ u.own = own /\ u.todo = ToRun(kind) /\ u.raised = t.raised
    BY <2>1 DEF Open
  <2> HIDE DEF u
  <2>4. Open(u)
    <3>1. Len(t.own) \in Nat /\ Len(t.own) > 0 /\ IsList(t.raised)
      BY <2>1 DEF Open, IsList
    <3> QED
      BY <2>1, <2>2, <2>3, <3>1 DEF Open
  <2> QED
    BY <1>2, <2>1, <2>4, <1>a, NextEventFacts
<1>3. ASSUME NEW s \in Sessions, RunRule(s) PROVE Shape'
  <2> DEFINE t == session[s]
             u == session'[s]
  <2>1. Open(t) /\ IsList(Tail(t.todo))
    BY <1>3, RunRuleFacts, TailFacts DEF Open
  <2>2. DOMAIN u = DOMAIN t /\ u.at = t.at /\ u.own = t.own /\ u.todo = Tail(t.todo)
    BY <1>3, RunRuleFacts
  <2>3. CASE u.raised = t.raised
    <3>1. Open(u)
      BY <2>1, <2>2, <2>3 DEF Open
    <3> QED
      BY <1>3, <3>1, <1>a, RunRuleFacts DEF RunRule
  <2>4. ASSUME NEW c, u.raised = Append(t.raised, Said(s, Head(t.todo), c)) PROVE Shape'
    <3>1. /\ IsList(u.raised) /\ DOMAIN u.raised = 1 .. Len(t.raised) + 1 /\ DOMAIN t.raised = 1 .. Len(t.raised)
          /\ \A i \in 1 .. Len(t.raised) : u.raised[i] = t.raised[i]
          /\ u.raised[Len(t.raised) + 1] = Said(s, Head(t.todo), c) /\ Len(t.raised) \in Nat
      <4> DEFINE old == t.raised
                 said == Said(s, Head(t.todo), c)
      <4>1. IsList(old)
        BY <2>1 DEF Open
      <4> HIDE DEF old, said
      <4>2. IsList(Append(old, said)) /\ Len(Append(old, said)) = Len(old) + 1
        BY <4>1, AppendFacts
      <4>3. \A i \in 1 .. Len(old) : Append(old, said)[i] = old[i]
        BY <4>1, AppendFacts
      <4>4. Append(old, said)[Len(old) + 1] = said
        BY <4>1, AppendFacts
      <4>5. DOMAIN old = 1 .. Len(old) /\ Len(old) \in Nat /\ DOMAIN Append(old, said) = 1 .. Len(old) + 1
        BY <4>1, <4>2 DEF IsList
      <4> QED
        BY <2>4, <4>2, <4>3, <4>4, <4>5 DEF old, said
    <3>2. \A i \in DOMAIN u.raised : u.raised[i].seen \in Nat /\ u.raised[i].seen <= Len(alerts)
      BY <1>0, <2>1, <3>1 DEF Said, Open
    <3>3. Open(u)
      BY <2>1, <2>2, <3>1, <3>2 DEF Open
    <3> QED
      BY <1>3, <3>3, <1>a, RunRuleFacts DEF RunRule
  <2> QED
    BY <1>3, <2>3, <2>4, RunRuleFacts
<1>4. ASSUME NEW s \in Sessions, Correlate(s) PROVE Shape'
  <2> DEFINE t == session[s]
             u == [t EXCEPT !.todo = CorrelationRules, !.fresh = FALSE]
  <2>1. Open(t) /\ session'[s] = u
    BY <1>4, CorrelateFacts
  <2>2. IsList(CorrelationRules)
    <3>1. CorrelationRules = [i \in 1 .. 5 |-> CorrelationRules[i]]
      BY DEF CorrelationRules
    <3> QED
      BY <3>1, FunctionIsList
  <2>3. DOMAIN u = DOMAIN t /\ u.at = t.at /\ u.own = t.own /\ u.todo = CorrelationRules /\ u.raised = t.raised
    BY <2>1 DEF Open
  <2>4. Open(u)
    BY <2>1, <2>2, <2>3 DEF Open
  <2> QED
    BY <1>4, <2>1, <2>4, <1>a, CorrelateFacts
<1>5. ASSUME NEW s \in Sessions, Commit(s) PROVE Shape'
  <2> DEFINE t == session[s]
  <2>1. Open(t) /\ IsList(alerts') /\ IsList(events') /\ UNCHANGED <<now, changes>> /\ session' = [r \in Sessions |-> session'[r]]
    BY <1>5, CommitFacts
  <2>2. ASSUME NEW a \in DOMAIN alerts'
        PROVE  /\ DOMAIN alerts'[a] = {"rule", "source", "at", "severity", "seen", "status", "reopened"}
               /\ alerts'[a].at \in Nat /\ alerts'[a].at <= now
               /\ alerts'[a].seen \in Nat /\ alerts'[a].seen < a
    <3>1. CASE a \in DOMAIN alerts
      BY <1>5, <3>1, CommitFacts DEF Shape, AlertsAreShaped
    <3>2. CASE a - Len(alerts) \in DOMAIN t.raised
      <4> DEFINE i == a - Len(alerts)
      <4>1. a = Len(alerts) + i /\ i \in Nat /\ i > 0
        BY <1>0, <2>1, <3>2 DEF IsList, Open
      <4>2. alerts'[a] = AlertsOf(t)[i]
        BY <1>5, <3>2, <4>1, CommitFacts
      <4>3. t.raised[i].seen \in Nat /\ t.raised[i].seen <= Len(alerts) /\ t.at \in Nat /\ t.at <= now
        BY <2>1, <3>2 DEF Open
      <4> HIDE DEF i
      <4>4. /\ DOMAIN AlertsOf(t)[i] = {"rule", "source", "at", "severity", "seen", "status", "reopened"}
            /\ AlertsOf(t)[i].at = t.at /\ AlertsOf(t)[i].seen = t.raised[i].seen
        BY <3>2 DEF AlertsOf, i
      <4> QED
        BY <1>0, <4>1, <4>2, <4>3, <4>4
    <3> QED
      BY <1>5, <3>1, <3>2, CommitFacts
  <2>3. ASSUME NEW i \in DOMAIN events' PROVE events'[i].at \in Nat
    <3>1. CASE i \in DOMAIN events
      BY <1>5, <3>1, CommitFacts DEF Shape, EventsAreShaped
    <3>2. CASE i - Len(events) \in DOMAIN t.own
      <4> DEFINE k == i - Len(events)
      <4>1. i = Len(events) + k
        BY <1>0, <2>1, <2>3, <3>2 DEF IsList
      <4>2. events'[i] = EventsOf(t)[k]
        BY <1>5, <3>2, <4>1, CommitFacts
      <4> HIDE DEF k
      <4>3. EventsOf(t)[k].at = t.at
        BY <3>2 DEF EventsOf, k
      <4> QED
        BY <2>1, <4>2, <4>3 DEF Open
    <3> QED
      BY <1>5, <3>1, <3>2, CommitFacts
  <2>4. Len(alerts') \in Nat /\ Len(alerts') >= Len(alerts)
    <3>1. Len(t.raised) \in Nat
      BY <2>1 DEF IsList, Open
    <3>2. Len(alerts') = Len(alerts) + Len(t.raised)
      BY <1>5, CommitFacts
    <3> QED
      BY <1>0, <3>1, <3>2
  <2>5. ASSUME NEW r \in Sessions PROVE (session[r] = Idle \/ Open(session[r]))'
    <3>1. CASE r = s
      BY <1>5, <3>1, CommitFacts DEF Idle
    <3>2. CASE r # s /\ session[r] = Idle
      BY <1>5, <3>2, CommitFacts DEF Idle
    <3>3. CASE r # s /\ Open(session[r])
      <4>1. session'[r] = session[r] /\ now' = now
        BY <1>5, <3>3, CommitFacts
      <4> QED
        BY <1>0, <2>4, <3>3, <4>1 DEF Open, IsList
    <3> QED
      BY <1>0, <3>1, <3>2, <3>3
  <2> QED
    BY <1>0, <2>1, <2>2, <2>3, <2>5 DEF Shape, AlertsAreShaped, EventsAreShaped, SessionsAreShaped
<1>6. ASSUME NEW s \in Sessions, Abort(s) PROVE Shape'
  <2>1. /\ UNCHANGED <<events, alerts, now, changes>> /\ session' = [r \in Sessions |-> session'[r]]
        /\ \A r \in Sessions \ {s} : session'[r] = session[r]
        /\ session'[s] = Idle
    BY <1>0, <1>6 DEF Abort
  <2> QED
    BY <2>1, <1>a
<1>7. ASSUME NEW a \in DOMAIN alerts, NEW status \in {"open", "resolved"}, SetStatus(a, status) PROVE Shape'
  <2>1. AlertsAreShaped'
    BY <1>7, SetStatusFacts DEF Shape, AlertsAreShaped
  <2>2. /\ UNCHANGED <<events, now, session>> /\ changes' = changes + 1 /\ Len(alerts') = Len(alerts)
    BY <1>7, SetStatusFacts
  <2>3. EventsAreShaped' /\ changes' \in Nat
    BY <1>0, <2>2 DEF Shape, EventsAreShaped, IsList
  <2>4. ASSUME NEW r \in Sessions PROVE (session[r] = Idle \/ Open(session[r]))'
    BY <1>0, <2>2 DEF Open, IsList, Idle
  <2> QED
    BY <1>0, <2>1, <2>2, <2>3, <2>4 DEF Shape, SessionsAreShaped
<1>8. CASE UNCHANGED <<events, alerts, session, changes>> /\ now' \in Nat /\ now' >= now
  <2>3. \A a \in DOMAIN alerts : alerts[a].at \in Nat /\ alerts[a].at <= now'
    BY <1>0, <1>8 DEF Shape, AlertsAreShaped
  <2>4. AlertsAreShaped'
    BY <1>8, <2>3 DEF Shape, AlertsAreShaped, IsList
  <2>1. AlertsAreShaped' /\ EventsAreShaped'
    BY <1>8, <2>4 DEF Shape, EventsAreShaped, IsList
  <2>2. ASSUME NEW r \in Sessions PROVE (session[r] = Idle \/ Open(session[r]))'
    BY <1>0, <1>8 DEF Open, IsList, Idle
  <2> QED
    BY <1>0, <1>8, <2>1, <2>2 DEF Shape, SessionsAreShaped
<1>9. ASSUME NEW a, LogStatus(a) PROVE Shape'
  BY <1>0, <1>8, <1>9 DEF LogStatus
<1>10. CASE Tick
  BY <1>0, <1>8, <1>10 DEF Tick
<1>11. CASE UNCHANGED vars
  BY <1>0, <1>8, <1>11 DEF vars
<1> QED
  BY <1>1, <1>2, <1>3, <1>4, <1>5, <1>6, <1>7, <1>9, <1>10, <1>11, Zenon DEF Next, Ingest

-----------------------------------------------------------------------------
(* Duplicates (DuplicatesOverlap). *)

\* An alert that was never resolved.
Standing(a) == alerts[a].status = "open" /\ ~alerts[a].reopened

\* What DuplicatesOverlap rests on, whatever became of the later alert.
CommittedOverlap ==
    \A a, b \in DOMAIN alerts : a < b /\ alerts[a].rule = alerts[b].rule /\ Standing(a) => alerts[b].seen < a

\* The alerts of a transaction: one of a rule, and none behind a committed one that stood when it was raised.
RaisedOverlap ==
    \A s \in Sessions : Open(session[s]) =>
        \A i \in DOMAIN session[s].raised :
            /\ \A a \in DOMAIN alerts : session[s].raised[i].rule = alerts[a].rule /\ Standing(a) => session[s].raised[i].seen < a
            /\ \A j \in DOMAIN session[s].raised : session[s].raised[i].rule = session[s].raised[j].rule => i = j

OverlapInv == Shape /\ CommittedOverlap /\ RaisedOverlap

\* A rule that raises has no open alert, committed or its own.
LEMMA UnguardedIsNew ==
    ASSUME NEW s \in Sessions, NEW rule, ~Guarded(s, rule)
    PROVE  /\ \A a \in DOMAIN alerts : alerts[a].status = "open" => alerts[a].rule # rule
           /\ \A i \in DOMAIN session[s].raised : session[s].raised[i].rule # rule
<1>1. rule \in (IF rule = "pfsense_firewall_noisy_source" THEN CooldownRules ELSE {rule})
  BY DEF CooldownRules
<1>2. \A o \in OpenAlerts(s) : o[1] # rule
  BY <1>1 DEF Guarded
<1>3. ASSUME NEW a \in DOMAIN alerts, alerts[a].status = "open" PROVE alerts[a].rule # rule
  <2>1. <<alerts[a].rule, alerts[a].source, alerts[a].at>> \in OpenAlerts(s)
    BY <1>3 DEF OpenAlerts
  <2> QED
    BY <1>2, <2>1
<1>4. ASSUME NEW i \in DOMAIN session[s].raised PROVE session[s].raised[i].rule # rule
  <2>1. <<session[s].raised[i].rule, session[s].raised[i].source, session[s].at>> \in OpenAlerts(s)
    BY DEF OpenAlerts
  <2> QED
    BY <1>2, <2>1
<1> QED
  BY <1>3, <1>4

\* Every step keeps the invariant of the duplicates.
LEMMA OverlapKept == OverlapInv /\ [Next]_vars => OverlapInv'
<1> SUFFICES ASSUME OverlapInv, [Next]_vars PROVE OverlapInv'
  OBVIOUS
<1>0. Shape /\ CommittedOverlap /\ RaisedOverlap /\ Shape' /\ Len(alerts) \in Nat /\ DOMAIN alerts = 1 .. Len(alerts)
  BY ShapeKept DEF OverlapInv, Shape, AlertsAreShaped, IsList
\* Nothing new is raised and nothing is committed.
<1>a. ASSUME alerts' = alerts,
             \A r \in Sessions : Open(session[r])' => Open(session[r]) /\ session'[r].raised = session[r].raised
      PROVE  OverlapInv'
  <2>1. CommittedOverlap'
    BY <1>0, <1>a DEF CommittedOverlap, Standing
  <2>2. RaisedOverlap'
    BY <1>0, <1>a DEF RaisedOverlap, Standing
  <2> QED
    BY <1>0, <2>1, <2>2 DEF OverlapInv
<1>b. ASSUME NEW r \in Sessions, session'[r] = session[r] PROVE Open(session[r])' => Open(session[r])
  BY <1>0, <1>b, BusyIsOpen DEF Shape, SessionsAreShaped, Open, Idle
<1>1. ASSUME NEW s \in Sessions, NEW kind, Begin(s, kind) PROVE OverlapInv'
  <2>1. alerts' = alerts
    BY <1>0, <1>1, BeginFacts
  <2>2. CommittedOverlap'
    BY <1>0, <2>1 DEF CommittedOverlap, Standing
  <2>3. ASSUME NEW r \in Sessions \ {s}, Open(session[r])' PROVE Open(session[r]) /\ session'[r].raised = session[r].raised
    <3>1. CASE Busy(r)
      <4>1. Open(session[r]) /\ session'[r] = [session[r] EXCEPT !.alone = FALSE]
        BY <1>0, <1>1, <3>1, BeginFacts, BusyIsOpen
      <4> QED
        BY <4>1 DEF Open
    <3>2. CASE ~Busy(r)
      <4>1. session'[r] = session[r] /\ session[r] = Idle
        BY <1>0, <1>1, <3>2, BeginFacts DEF Busy
      <4> QED
        BY <2>3, <4>1 DEF Open, Idle
    <3> QED
      BY <3>1, <3>2
  <2>4. DOMAIN session'[s].raised = {}
    BY <1>0, <1>1, BeginFacts, EmptyIsList DEF IsList
  <2>5. RaisedOverlap'
    BY <1>0, <2>1, <2>3, <2>4 DEF RaisedOverlap, Standing
  <2> QED
    BY <1>0, <2>2, <2>5 DEF OverlapInv
<1>2. ASSUME NEW s \in Sessions, NEW kind, NextEvent(s, kind) PROVE OverlapInv'
  <2>1. /\ alerts' = alerts /\ Open(session[s]) /\ \A r \in Sessions \ {s} : session'[r] = session[r]
        /\ session'[s] = [session[s] EXCEPT !.own = Append(session[s].own, kind), !.todo = ToRun(kind)]
    BY <1>0, <1>2, NextEventFacts
  <2>2. session'[s].raised = session[s].raised
    BY <2>1 DEF Open
  <2>3. ASSUME NEW r \in Sessions, Open(session[r])' PROVE Open(session[r]) /\ session'[r].raised = session[r].raised
    BY <1>b, <2>1, <2>2, <2>3
  <2> QED
    BY <2>1, <2>3, <1>a
<1>3. ASSUME NEW s \in Sessions, RunRule(s) PROVE OverlapInv'
  <2> DEFINE rule == Head(session[s].todo)
             old == session[s].raised
  <2>1. alerts' = alerts /\ Open(session[s]) /\ \A r \in Sessions \ {s} : session'[r] = session[r]
    BY <1>0, <1>3, RunRuleFacts DEF RunRule
  <2>2. CASE session'[s].raised = session[s].raised
    <3>1. ASSUME NEW r \in Sessions, Open(session[r])' PROVE Open(session[r]) /\ session'[r].raised = session[r].raised
      BY <1>b, <2>1, <2>2, <3>1
    <3> QED
      BY <2>1, <3>1, <1>a
  <2>3. ASSUME NEW c, ~Guarded(s, rule), session'[s].raised = Append(old, Said(s, rule, c)) PROVE OverlapInv'
    <3> DEFINE said == Said(s, rule, c)
    <3>1. IsList(old) /\ said.rule = rule
      BY <2>1 DEF Open, Said
    <3>2. /\ \A a \in DOMAIN alerts : Standing(a) => alerts[a].rule # rule
          /\ \A i \in DOMAIN old : old[i].rule # rule
      BY <2>3, UnguardedIsNew DEF Standing
    <3> HIDE DEF old, said, rule
    <3>3. DOMAIN old = 1 .. Len(old) /\ Len(old) \in Nat
      BY <3>1 DEF IsList
    <3>4. /\ DOMAIN Append(old, said) = 1 .. Len(old) + 1 /\ Append(old, said)[Len(old) + 1] = said
          /\ \A i \in 1 .. Len(old) : Append(old, said)[i] = old[i]
      <4>1. IsList(Append(old, said)) /\ Len(Append(old, said)) = Len(old) + 1
        BY <3>1, AppendFacts
      <4>2. Append(old, said)[Len(old) + 1] = said
        BY <3>1, AppendFacts
      <4>3. \A i \in 1 .. Len(old) : Append(old, said)[i] = old[i]
        BY <3>1, AppendFacts
      <4> QED
        BY <4>1, <4>2, <4>3 DEF IsList
    <3> DEFINE new == Append(old, said)
    <3> HIDE DEF new
    <3>5. /\ DOMAIN new = 1 .. Len(old) + 1 /\ new[Len(old) + 1].rule = rule
          /\ \A i \in 1 .. Len(old) : new[i] = old[i]
      BY <3>1, <3>4 DEF new
    <3>6. CommittedOverlap'
      BY <1>0, <2>1 DEF CommittedOverlap, Standing
    <3>7. ASSUME NEW r \in Sessions, Open(session[r])', NEW i \in DOMAIN session'[r].raised
          PROVE  /\ \A a \in DOMAIN alerts : session'[r].raised[i].rule = alerts[a].rule /\ Standing(a) => session'[r].raised[i].seen < a
                 /\ \A j \in DOMAIN session'[r].raised : session'[r].raised[i].rule = session'[r].raised[j].rule => i = j
      <4>1. CASE r # s
        <5>1. session'[r] = session[r] /\ Open(session[r])
          BY <1>b, <2>1, <3>7, <4>1
        <5> QED
          BY <1>0, <3>7, <5>1 DEF RaisedOverlap
      <4>2. CASE r = s
        <5>1. session'[r].raised = new /\ old = session[s].raised
          BY <2>3, <4>2 DEF new, old, said, rule
        <5>2. CASE i \in 1 .. Len(old)
          <6>1. \A a \in DOMAIN alerts : old[i].rule = alerts[a].rule /\ Standing(a) => old[i].seen < a
            BY <1>0, <2>1, <3>3, <5>1, <5>2 DEF RaisedOverlap
          <6>2. \A j \in DOMAIN old : old[i].rule = old[j].rule => i = j
            BY <1>0, <2>1, <3>3, <5>1, <5>2 DEF RaisedOverlap
          <6>3. \A j \in DOMAIN new : new[i].rule = new[j].rule => i = j
            BY <3>2, <3>3, <3>5, <5>2, <6>2
          <6> QED
            BY <3>5, <5>1, <5>2, <6>1, <6>3
        <5>3. CASE i = Len(old) + 1
          <6>1. new[i].rule = rule /\ \A j \in DOMAIN new : new[j].rule = rule => i = j
            BY <3>2, <3>3, <3>5, <5>3
          <6> QED
            BY <3>2, <5>1, <6>1
        <5> QED
          BY <3>3, <3>5, <3>7, <5>1, <5>2, <5>3
      <4> QED
        BY <4>1, <4>2
    <3>8. RaisedOverlap'
      BY <2>1, <3>7 DEF RaisedOverlap, Standing
    <3> QED
      BY <1>0, <3>6, <3>8 DEF OverlapInv
  <2> QED
    BY <1>0, <1>3, <2>2, <2>3, RunRuleFacts
<1>4. ASSUME NEW s \in Sessions, Correlate(s) PROVE OverlapInv'
  <2>1. /\ alerts' = alerts /\ Open(session[s]) /\ \A r \in Sessions \ {s} : session'[r] = session[r]
        /\ session'[s] = [session[s] EXCEPT !.todo = CorrelationRules, !.fresh = FALSE]
    BY <1>0, <1>4, CorrelateFacts
  <2>2. session'[s].raised = session[s].raised
    BY <2>1 DEF Open
  <2>3. ASSUME NEW r \in Sessions, Open(session[r])' PROVE Open(session[r]) /\ session'[r].raised = session[r].raised
    BY <1>b, <2>1, <2>2, <2>3
  <2> QED
    BY <2>1, <2>3, <1>a
<1>5. ASSUME NEW s \in Sessions, Commit(s) PROVE OverlapInv'
  <2> DEFINE t == session[s]
             n == Len(alerts)
  <2>1. Open(t) /\ n \in Nat /\ IsList(t.raised)
    BY <1>0, <1>5, CommitFacts DEF Open
  <2>2. \A i \in DOMAIN t.raised : i \in Nat /\ i > 0 /\ t.raised[i].seen \in Nat /\ t.raised[i].seen <= n
    BY <2>1 DEF Open, IsList
  <2>3. /\ \A a \in DOMAIN alerts : a \in Nat /\ a <= n /\ alerts'[a] = alerts[a]
        /\ \A i \in DOMAIN t.raised : alerts'[n + i].rule = t.raised[i].rule /\ alerts'[n + i].seen = t.raised[i].seen
        /\ DOMAIN alerts' \subseteq Nat
        /\ \A a \in DOMAIN alerts' : a \in DOMAIN alerts \/ a - n \in DOMAIN t.raised
    <3>1. \A i \in DOMAIN t.raised : alerts'[n + i] = AlertsOf(t)[i]
      BY <1>0, <1>5, CommitFacts
    <3>2. \A i \in DOMAIN t.raised : AlertsOf(t)[i].rule = t.raised[i].rule /\ AlertsOf(t)[i].seen = t.raised[i].seen
      BY DEF AlertsOf
    <3>3. IsList(alerts') /\ \A a \in DOMAIN alerts : alerts'[a] = alerts[a]
      BY <1>0, <1>5, CommitFacts
    <3>4. \A a \in DOMAIN alerts' : a \in DOMAIN alerts \/ a - n \in DOMAIN t.raised
      BY <1>0, <1>5, CommitFacts
    <3>5. DOMAIN alerts' \subseteq Nat
      BY <3>3 DEF IsList
    <3> QED
      BY <1>0, <3>1, <3>2, <3>3, <3>4, <3>5
  <2>4. ASSUME NEW a \in DOMAIN alerts', NEW b \in DOMAIN alerts', a < b, alerts'[a].rule = alerts'[b].rule, Standing(a)'
        PROVE  alerts'[b].seen < a
    <3>1. CASE a \in DOMAIN alerts /\ b \in DOMAIN alerts
      <4>1. Standing(a)
        BY <2>3, <2>4, <3>1 DEF Standing
      <4> QED
        BY <1>0, <2>3, <2>4, <3>1, <4>1 DEF CommittedOverlap
    <3>2. CASE a \in DOMAIN alerts /\ b - n \in DOMAIN t.raised
      <4> DEFINE i == b - n
      <4>1. i \in DOMAIN t.raised /\ b = n + i /\ Standing(a)
        BY <2>1, <2>3, <2>4, <3>2 DEF Standing
      <4> HIDE DEF i
      <4>2. alerts'[b].rule = t.raised[i].rule /\ alerts'[b].seen = t.raised[i].seen /\ alerts'[a].rule = alerts[a].rule
        BY <2>3, <3>2, <4>1
      <4> QED
        BY <1>0, <2>1, <2>4, <3>2, <4>1, <4>2 DEF RaisedOverlap
    <3>3. CASE a - n \in DOMAIN t.raised /\ b - n \in DOMAIN t.raised
      <4> DEFINE i == a - n
                 j == b - n
      <4>1. i \in DOMAIN t.raised /\ a = n + i /\ j \in DOMAIN t.raised /\ b = n + j
        BY <2>1, <2>3, <2>4, <3>3
      <4> HIDE DEF i, j
      <4>2. t.raised[i].rule = t.raised[j].rule
        BY <2>3, <2>4, <4>1
      <4>3. i = j
        BY <1>0, <2>1, <4>1, <4>2 DEF RaisedOverlap
      <4> QED
        BY <2>1, <2>2, <2>4, <4>1, <4>3
    <3>4. CASE a - n \in DOMAIN t.raised /\ b \in DOMAIN alerts
      BY <2>1, <2>2, <2>3, <2>4, <3>4
    <3> QED
      BY <2>3, <3>1, <3>2, <3>3, <3>4
  <2>5. CommittedOverlap'
    BY <2>4 DEF CommittedOverlap
  <2>6. ASSUME NEW r \in Sessions, Open(session[r])'
        PROVE  \A i \in DOMAIN session'[r].raised :
                  /\ \A a \in DOMAIN alerts' : session'[r].raised[i].rule = alerts'[a].rule /\ Standing(a)' => session'[r].raised[i].seen < a
                  /\ \A j \in DOMAIN session'[r].raised : session'[r].raised[i].rule = session'[r].raised[j].rule => i = j
    <3>1. r # s
      BY <1>0, <1>5, <2>6, CommitFacts DEF Open, Idle
    <3>2. session'[r] = session[r] /\ Open(session[r])
      <4>1. session'[r] = session[r]
        BY <1>0, <1>5, <3>1, CommitFacts
      <4> QED
        BY <1>b, <2>6, <4>1
    <3>3. ASSUME NEW i \in DOMAIN session[r].raised, NEW a \in DOMAIN alerts', session[r].raised[i].rule = alerts'[a].rule, Standing(a)'
          PROVE  session[r].raised[i].seen < a
      <4>1. session[r].raised[i].seen \in Nat /\ session[r].raised[i].seen <= n
        BY <3>2 DEF Open
      <4>2. CASE a \in DOMAIN alerts
        <5>1. Standing(a) /\ session[r].raised[i].rule = alerts[a].rule
          BY <2>3, <3>3, <4>2 DEF Standing
        <5> QED
          BY <1>0, <3>2, <4>2, <5>1 DEF RaisedOverlap
      <4>3. CASE a - n \in DOMAIN t.raised
        <5>1. a \in Nat /\ a - n > 0
          BY <2>1, <2>2, <2>3, <4>3
        <5> QED
          BY <2>1, <4>1, <5>1
      <4> QED
        BY <2>3, <4>2, <4>3
    <3> QED
      BY <1>0, <3>2, <3>3 DEF RaisedOverlap
  <2>7. RaisedOverlap'
    BY <2>6 DEF RaisedOverlap
  <2> QED
    BY <1>0, <2>5, <2>7 DEF OverlapInv
<1>6. ASSUME NEW s \in Sessions, Abort(s) PROVE OverlapInv'
  <2>1. alerts' = alerts /\ session' = [session EXCEPT ![s] = Idle] /\ session = [r \in Sessions |-> session[r]]
    BY <1>0, <1>6 DEF Abort, Shape, SessionsAreShaped
  <2>2. session'[s] = Idle /\ \A r \in Sessions \ {s} : session'[r] = session[r]
    BY <2>1
  <2>3. ASSUME NEW r \in Sessions, Open(session[r])' PROVE Open(session[r]) /\ session'[r].raised = session[r].raised
    <3>1. r # s
      BY <2>2, <2>3 DEF Open, Idle
    <3> QED
      BY <1>b, <2>2, <2>3, <3>1
  <2> QED
    BY <2>1, <2>3, <1>a
<1>7. ASSUME NEW a \in DOMAIN alerts, NEW status \in {"open", "resolved"}, SetStatus(a, status) PROVE OverlapInv'
  <2>1. /\ DOMAIN alerts' = DOMAIN alerts /\ session' = session
        /\ \A b \in DOMAIN alerts : /\ alerts'[b].rule = alerts[b].rule /\ alerts'[b].seen = alerts[b].seen
                                    /\ Standing(b)' => Standing(b)
    BY <1>0, <1>7, SetStatusFacts DEF Standing
  <2>2. CommittedOverlap'
    BY <1>0, <2>1 DEF CommittedOverlap
  <2>3. ASSUME NEW r \in Sessions, Open(session[r])' PROVE Open(session[r])
    BY <1>b, <2>1, <2>3
  <2>4. RaisedOverlap'
    BY <1>0, <2>1, <2>3 DEF RaisedOverlap
  <2> QED
    BY <1>0, <2>2, <2>4 DEF OverlapInv
<1>8. CASE UNCHANGED <<alerts, session>>
  <2>1. ASSUME NEW r \in Sessions, Open(session[r])' PROVE Open(session[r])
    BY <1>8, <1>b, <2>1
  <2> QED
    BY <1>8, <1>a, <2>1
<1>9. ASSUME NEW a, LogStatus(a) PROVE OverlapInv'
  BY <1>8, <1>9 DEF LogStatus
<1>10. CASE Tick
  BY <1>8, <1>10 DEF Tick
<1>11. CASE UNCHANGED vars
  BY <1>8, <1>11 DEF vars
<1> QED
  BY <1>1, <1>2, <1>3, <1>4, <1>5, <1>6, <1>7, <1>9, <1>10, <1>11, Zenon DEF Next, Ingest

\* Nothing is committed and no request runs at the start.
LEMMA BeginsShaped == Init => Shape /\ alerts = <<>> /\ events = <<>> /\ \A s \in Sessions : session[s] = Idle
<1> SUFFICES ASSUME Init PROVE Shape /\ alerts = <<>> /\ events = <<>> /\ \A s \in Sessions : session[s] = Idle
  OBVIOUS
<1>1. alerts = <<>> /\ events = <<>> /\ session = [s \in Sessions |-> Idle] /\ now = 0 /\ changes = 0
  BY DEF Init
<1>2. DOMAIN alerts = {} /\ DOMAIN events = {} /\ IsList(alerts) /\ IsList(events)
  BY <1>1, EmptyIsList DEF IsList
<1>3. session = [s \in Sessions |-> session[s]] /\ \A s \in Sessions : session[s] = Idle
  BY <1>1
<1> QED
  BY <1>1, <1>2, <1>3 DEF Shape, AlertsAreShaped, EventsAreShaped, SessionsAreShaped

\* The form of the tables, that an alert is raised only where none of its rule is open, and what
\* follows for the committed ones are kept by every step of ingest, commit and review.
THEOREM OverlapInductive == Spec => []OverlapInv
<1>1. Init => OverlapInv
  <2> SUFFICES ASSUME Init PROVE OverlapInv
    OBVIOUS
  <2>1. Shape /\ DOMAIN alerts = {} /\ \A s \in Sessions : session[s] = Idle
    BY BeginsShaped, EmptyIsList DEF IsList
  <2>2. \A s \in Sessions : ~Open(session[s])
    BY <2>1 DEF Open, Idle
  <2> QED
    BY <2>1, <2>2 DEF OverlapInv, CommittedOverlap, RaisedOverlap
<1>2. OverlapInv /\ [Next]_vars => OverlapInv'
  BY OverlapKept
<1> QED
  BY <1>1, <1>2, PTL DEF Spec

\* Two alerts of a type stand open only when their requests overlapped or an analyst reopened the
\* earlier one (the open-alert check of every detector).
THEOREM DuplicatesRequireOverlap == Spec => []DuplicatesOverlap
<1>1. OverlapInv => DuplicatesOverlap
  BY DEF OverlapInv, CommittedOverlap, Standing, DuplicatesOverlap
<1> QED
  BY <1>1, OverlapInductive, PTL

-----------------------------------------------------------------------------
(* Bursts (BurstIsSeen). *)

\* The rules a burst is judged by, and whether one runs on an event.
Judged == DOMAIN CountingRules \ CooldownRules
Runs(kind, rule) == \E k \in DOMAIN ToRun(kind) : ToRun(kind)[k] = rule

\* The i-th event of evs brings the rule to its threshold, counted as BurstIsSeen counts.
Burst(evs, i, rule) ==
    LET e == evs[i]
        r == CountingRules[rule]
        hits == {j \in 1 .. i : /\ evs[j].kind.type \in r.types /\ evs[j].kind.source = e.kind.source
                                /\ e.at - evs[j].at <= Params[rule].window}
        count == Cardinality(IF r.distinct THEN {evs[j].kind.value : j \in hits} \ {None} ELSE hits)
    IN  count >= Params[rule].threshold

\* What transaction t sees behind the events evs.
Seen(evs, t) == evs \o [i \in DOMAIN t.own |-> [kind |-> t.own[i], at |-> t.at, alone |-> TRUE]]

\* A rule is still to run, has an alert, or is raised by the transaction.
Due(t, rule) == \E n \in DOMAIN t.todo : t.todo[n] = rule
Found(rule) == \E a \in DOMAIN alerts : alerts[a].rule = rule
Raised(t, rule) == \E i \in DOMAIN t.raised : t.raised[i].rule = rule

\* A transaction that began alone, and whom no other joined, sees all there is.
AloneIsAlone ==
    \A s \in Sessions : Open(session[s]) /\ session[s].alone =>
        /\ \A r \in Sessions \ {s} : ~Open(session[r])
        /\ \A a \in DOMAIN alerts : alerts[a].at <= session[s].at

\* The events evs behind which t stands bring the rule to its threshold with the k-th event of t.
Bursts(evs, t, kind, k, rule) == t.own[k] = kind /\ Burst(Seen(evs, t), Len(evs) + k, rule)
Settled(t, k, rule) == (k = Len(t.own) /\ Due(t, rule)) \/ Found(rule) \/ Raised(t, rule)

PendingBurst ==
    \A kind, rule : rule \in Judged /\ Runs(kind, rule) =>
        \A s \in Sessions : Open(session[s]) /\ session[s].alone =>
            \A k \in DOMAIN session[s].own : Bursts(events, session[s], kind, k, rule) => Settled(session[s], k, rule)

CommittedBurst ==
    \A kind, rule : rule \in Judged /\ Runs(kind, rule) =>
        \A i \in DOMAIN events : events[i].kind = kind /\ events[i].alone /\ Burst(events, i, rule) =>
            \E a \in DOMAIN alerts : alerts[a].rule = rule /\ alerts[a].at <= events[i].at

BurstInv == Shape /\ AloneIsAlone /\ PendingBurst /\ CommittedBurst

\* The rules that run on an event do not change.
LEMMA RunsKept == ASSUME scene' = scene, NEW kind, NEW rule PROVE Runs(kind, rule)' <=> Runs(kind, rule)
  BY DEF Runs, ToRun, Applies

\* A burst depends on the kinds and times of the events up to it.
LEMMA SameBurst ==
    ASSUME NEW old, NEW new, NEW i \in Nat, i > 0, NEW rule,
           \A j \in 1 .. i : old[j].kind = new[j].kind /\ old[j].at = new[j].at
    PROVE  Burst(old, i, rule) => Burst(new, i, rule)
<1> DEFINE w == Params[rule].window
           types == CountingRules[rule].types
           hits(evs) == {j \in 1 .. i : /\ evs[j].kind.type \in types /\ evs[j].kind.source = evs[i].kind.source
                                        /\ evs[i].at - evs[j].at <= w}
           values(evs) == {evs[j].kind.value : j \in hits(evs)} \ {None}
<1>1. i \in 1 .. i
  OBVIOUS
<1>2. old[i].kind = new[i].kind /\ old[i].at = new[i].at
  BY <1>1
<1>3. hits(old) = hits(new)
  BY <1>2
<1>4. values(old) = values(new)
  <2>1. hits(old) \subseteq 1 .. i
    OBVIOUS
  <2> HIDE DEF hits
  <2> QED
    BY <1>3, <2>1
<1> QED
  BY <1>2, <1>3, <1>4 DEF Burst

\* What a transaction sees: the committed events, then its own at its own time.
LEMMA SeenFacts ==
    ASSUME NEW evs, NEW t, IsList(evs), IsList(t.own)
    PROVE  /\ DOMAIN Seen(evs, t) = 1 .. Len(evs) + Len(t.own)
           /\ \A i \in 1 .. Len(evs) : Seen(evs, t)[i] = evs[i]
           /\ \A k \in 1 .. Len(t.own) : Seen(evs, t)[Len(evs) + k].kind = t.own[k] /\ Seen(evs, t)[Len(evs) + k].at = t.at
<1> DEFINE new == [i \in DOMAIN t.own |-> [kind |-> t.own[i], at |-> t.at, alone |-> TRUE]]
<1>1. DOMAIN t.own = 1 .. Len(t.own) /\ Len(t.own) \in Nat
  BY DEF IsList
<1>2. new = [i \in 1 .. Len(t.own) |-> new[i]]
  BY <1>1
<1>3. \A k \in 1 .. Len(t.own) : new[k].kind = t.own[k] /\ new[k].at = t.at
  BY <1>1
<1> HIDE DEF new
<1>4. IsList(new) /\ Len(new) = Len(t.own)
  BY <1>1, <1>2, FunctionIsList
<1> DEFINE all == evs \o new
<1>5. IsList(all) /\ Len(all) = Len(evs) + Len(new)
  BY <1>4, JoinFacts
<1>6. \A i \in 1 .. Len(evs) : all[i] = evs[i]
  BY <1>4, JoinFacts
<1>7. \A i \in 1 .. Len(new) : all[Len(evs) + i] = new[i]
  BY <1>4, JoinFacts
<1>8. Seen(evs, t) = all
  BY DEF Seen, new
<1> HIDE DEF all
<1>9. DOMAIN all = 1 .. Len(evs) + Len(new)
  BY <1>5 DEF IsList
<1> QED
  BY <1>3, <1>4, <1>6, <1>7, <1>8, <1>9

\* A rule whose burst the transaction sees raises an alert, unless an open one keeps it back.
LEMMA BurstFires ==
    ASSUME Shape, NEW s \in Sessions, Open(session[s]), NEW rule \in Judged, Quiet(s, rule),
           Burst(Seen(events, session[s]), Len(events) + Len(session[s].own), rule)
    PROVE  Guarded(s, rule)
<1> SUFFICES ASSUME ~Guarded(s, rule) PROVE FALSE
  OBVIOUS
<1> DEFINE t == session[s]
           evs == Seen(events, t)
           i == Len(events) + Len(t.own)
           w == Params[rule].window
           r == CountingRules[rule]
           hits == {j \in 1 .. i : /\ evs[j].kind.type \in r.types /\ evs[j].kind.source = evs[i].kind.source
                                   /\ evs[i].at - evs[j].at <= w}
           source == t.own[Len(t.own)].source
<1>1. IsList(events) /\ IsList(t.own) /\ Len(t.own) \in Nat /\ Len(t.own) > 0 /\ Len(events) \in Nat /\ t.at \in Nat
  BY DEF Open, Shape, EventsAreShaped, IsList
<1>2. evs[i].kind.source = source /\ evs[i].at = t.at /\ DOMAIN evs = 1 .. i
  <2> DEFINE n == Len(t.own)
  <2>1. n \in 1 .. n
    BY <1>1
  <2> HIDE DEF t
  <2>2. Seen(events, t)[Len(events) + n].kind = t.own[n] /\ Seen(events, t)[Len(events) + n].at = t.at
    <3>1. \A k \in 1 .. Len(t.own) : Seen(events, t)[Len(events) + k].kind = t.own[k] /\ Seen(events, t)[Len(events) + k].at = t.at
      BY <1>1, SeenFacts
    <3> HIDE DEF n
    <3> QED
      BY <2>1, <3>1 DEF n
  <2>3. DOMAIN evs = 1 .. i
    BY <1>1, SeenFacts
  <2> QED
    BY <2>2, <2>3
<1>3. \A j \in 1 .. i : evs[j].at \in Nat
  <2>1. \A j \in 1 .. Len(events) : evs[j].at \in Nat
    BY <1>1, SeenFacts DEF Shape, EventsAreShaped, IsList
  <2>2. \A k \in 1 .. Len(t.own) : evs[Len(events) + k].at \in Nat
    BY <1>1, SeenFacts
  <2>3. \A j \in 1 .. i : j \in 1 .. Len(events) \/ (j - Len(events) \in 1 .. Len(t.own) /\ j = Len(events) + (j - Len(events)))
    BY <1>1
  <2> HIDE DEF evs
  <2> QED
    BY <1>1, <2>1, <2>2, <2>3
<1>4. w \in Nat
  BY WindowAssumption DEF Judged, BaseRules
<1>5. VisibleEvents(s) = evs
  BY DEF VisibleEvents, Seen
<1>6. Burst(evs, i, rule)
  OBVIOUS
<1>7. Cardinality(IF r.distinct THEN {evs[j].kind.value : j \in hits} \ {None} ELSE hits) >= Params[rule].threshold
  BY <1>6 DEF Burst
<1> HIDE DEF evs, i
<1>8. Recent(evs, r.types, source, t.at, w) = hits
  BY <1>2, <1>3, <1>4, <1>1 DEF Recent
<1>9. Count(rule, evs, source, t.at) >= Params[rule].threshold
  BY <1>7, <1>8 DEF Count, Values
<1>10. Candidates(s, rule) = {Candidate(r.severity)}
  <2>1. rule \in DOMAIN CountingRules
    BY DEF Judged
  <2>2. Count(rule, VisibleEvents(s), session[s].own[Len(session[s].own)].source, session[s].at) >= Params[rule].threshold
    BY <1>5, <1>9
  <2>3. rule \notin {"successful_login_after_spray"} \cup FirewallRules
    BY <2>1 DEF CountingRules, FirewallRules
  <2> QED
    BY <2>1, <2>2, <2>3 DEF Candidates, FirewallRules
<1>11. ~Suppressed(rule, Candidate(r.severity).severity, t.at)
  BY DEF Suppressed, Judged
<1>12. Left(s, rule) = {Candidate(r.severity)}
  BY <1>10, <1>11 DEF Left
<1>13. Candidate(r.severity) \in {c \in Left(s, rule) : \A d \in Left(s, rule) : c.order <= d.order}
  BY <1>12 DEF Candidate
<1> QED
  BY <1>13 DEF Quiet

\* A step of a rule keeps what its transaction raised, and adds an alert or has nothing to say.
LEMMA RaisedGrows ==
    ASSUME Shape, NEW s \in Sessions, RunRule(s)
    PROVE  /\ \A rule : Raised(session[s], rule) => Raised(session'[s], rule)
           /\ Quiet(s, Head(session[s].todo)) \/ Raised(session'[s], Head(session[s].todo))
           /\ \A i \in DOMAIN session'[s].raised :
                 \/ i \in DOMAIN session[s].raised /\ session'[s].raised[i] = session[s].raised[i]
                 \/ /\ session'[s].raised[i].rule = Head(session[s].todo)
                    /\ Head(session[s].todo) \in BaseRules => session'[s].fresh
<1> DEFINE old == session[s].raised
           new == session'[s].raised
           h == Head(session[s].todo)
           fresh == h \in BaseRules => session'[s].fresh
<1>1. IsList(old)
  BY RunRuleFacts DEF Open
<1>2. CASE new = old /\ Quiet(s, h)
  BY <1>2 DEF Raised
<1>3. ASSUME NEW c, new = Append(old, Said(s, h, c)), fresh
      PROVE  /\ \A rule : Raised(session[s], rule) => Raised(session'[s], rule)
             /\ Raised(session'[s], h)
             /\ \A i \in DOMAIN new : \/ i \in DOMAIN old /\ new[i] = old[i]
                                      \/ new[i].rule = h /\ fresh
  <2> DEFINE said == Said(s, h, c)
             all == Append(old, said)
  <2>1. said.rule = h
    BY DEF Said
  <2> HIDE DEF old, said, h, fresh
  <2>2. IsList(all) /\ Len(all) = Len(old) + 1
    BY <1>1, AppendFacts
  <2>3. \A i \in 1 .. Len(old) : all[i] = old[i]
    BY <1>1, AppendFacts
  <2>4. all[Len(old) + 1] = said
    BY <1>1, AppendFacts
  <2> HIDE DEF all
  <2>5. DOMAIN old = 1 .. Len(old) /\ Len(old) \in Nat /\ DOMAIN all = 1 .. Len(old) + 1
    BY <1>1, <2>2 DEF IsList
  <2>6. /\ \A i \in DOMAIN old : i \in DOMAIN all /\ all[i] = old[i]
        /\ \E i \in DOMAIN all : all[i].rule = h
        /\ \A i \in DOMAIN all : \/ i \in DOMAIN old /\ all[i] = old[i]
                                 \/ all[i].rule = h /\ fresh
    BY <1>3, <2>1, <2>3, <2>4, <2>5
  <2>7. new = all
    BY <1>3 DEF all, said
  <2> QED
    BY <2>6, <2>7 DEF Raised, old
<1> QED
  BY <1>2, <1>3, RunRuleFacts

\* Only the rule that runs leaves the list.
LEMMA DueShrinks ==
    ASSUME Shape, NEW s \in Sessions, RunRule(s)
    PROVE  \A rule : Due(session[s], rule) => rule = Head(session[s].todo) \/ Due(session'[s], rule)
<1> DEFINE todo == session[s].todo
           h == Head(todo)
<1>1. IsList(todo) /\ todo # <<>> /\ session'[s].todo = Tail(todo)
  BY RunRuleFacts DEF Open
<1>2. /\ Len(todo) \in Nat /\ DOMAIN todo = 1 .. Len(todo) /\ h = todo[1]
      /\ DOMAIN Tail(todo) = 1 .. Len(todo) - 1 /\ \A i \in 2 .. Len(todo) : Tail(todo)[i - 1] = todo[i]
  BY <1>1, TailFacts DEF IsList
<1>3. ASSUME NEW rule, NEW n \in DOMAIN todo, todo[n] = rule, rule # h PROVE Due(session'[s], rule)
  <2>1. n \in 2 .. Len(todo) /\ n - 1 \in 1 .. Len(todo) - 1
    BY <1>2, <1>3
  <2>2. n - 1 \in DOMAIN session'[s].todo /\ session'[s].todo[n - 1] = rule
    BY <1>1, <1>2, <1>3, <2>1
  <2> QED
    BY <2>2 DEF Due
<1> QED
  BY <1>3 DEF Due

\* What keeps a rule back is an alert of its own.
LEMMA GuardedByOwn ==
    ASSUME NEW s \in Sessions, NEW rule, rule # "pfsense_firewall_noisy_source", Guarded(s, rule)
    PROVE  Found(rule) \/ Raised(session[s], rule)
<1>1. PICK o \in OpenAlerts(s) : o[1] = rule
  BY DEF Guarded
<1>2. CASE \E a \in DOMAIN alerts : o = <<alerts[a].rule, alerts[a].source, alerts[a].at>>
  BY <1>1, <1>2 DEF Found
<1>3. CASE \E i \in DOMAIN session[s].raised : o = <<session[s].raised[i].rule, session[s].raised[i].source, session[s].at>>
  BY <1>1, <1>3 DEF Raised
<1> QED
  BY <1>1, <1>2, <1>3 DEF OpenAlerts

\* Every step keeps the invariant of the bursts.
LEMMA BurstKept == BurstInv /\ [Next]_vars => BurstInv'
<1> SUFFICES ASSUME BurstInv, [Next]_vars PROVE BurstInv'
  OBVIOUS
<1>0. /\ Shape /\ AloneIsAlone /\ PendingBurst /\ CommittedBurst /\ Shape' /\ Len(events) \in Nat /\ DOMAIN events = 1 .. Len(events)
      /\ Len(alerts) \in Nat /\ DOMAIN alerts = 1 .. Len(alerts) /\ IsList(events)
  BY ShapeKept DEF BurstInv, Shape, AlertsAreShaped, EventsAreShaped, IsList
<1>s. scene' = scene
  BY Zenon DEF Next, Ingest, Begin, NextEvent, RunRule, Correlate, Commit, Abort, SetStatus, LogStatus, Tick, vars
<1>r. \A kind, rule : Runs(kind, rule)' <=> Runs(kind, rule)
  BY <1>s, RunsKept
<1>b. ASSUME NEW r \in Sessions, session'[r] = session[r] PROVE Open(session[r])' => Open(session[r])
  BY <1>0, <1>b, BusyIsOpen DEF Shape, SessionsAreShaped, Open, Idle
\* Sessions end or stand still, and no alert changes its rule or its time.
<1>a. ASSUME UNCHANGED events, DOMAIN alerts' = DOMAIN alerts,
             \A a \in DOMAIN alerts : alerts'[a].rule = alerts[a].rule /\ alerts'[a].at = alerts[a].at,
             \A r \in Sessions : Open(session[r])' => Open(session[r]) /\ session'[r] = session[r]
      PROVE  BurstInv'
  <2>1. CommittedBurst'
    BY <1>0, <1>a, <1>r DEF CommittedBurst
  <2>2. AloneIsAlone'
    BY <1>0, <1>a DEF AloneIsAlone
  <2>3. \A rule : Found(rule)' <=> Found(rule)
    BY <1>a DEF Found
  <2>4. PendingBurst'
    BY <1>0, <1>a, <1>r, <2>3 DEF PendingBurst, Settled
  <2> QED
    BY <1>0, <2>1, <2>2, <2>4 DEF BurstInv
\* One session moves on, with its events and time, and no alert is committed.
<1>c. ASSUME UNCHANGED <<events, alerts>>, NEW s \in Sessions, Open(session[s]), Open(session[s])',
             \A r \in Sessions \ {s} : session'[r] = session[r],
             session'[s].at = session[s].at, session'[s].alone = session[s].alone,
             session'[s].alone => \A kind, rule : rule \in Judged /\ Runs(kind, rule) =>
                 \A k \in DOMAIN session'[s].own : Bursts(events, session'[s], kind, k, rule) => Settled(session'[s], k, rule)
      PROVE  BurstInv'
  <2>1. CommittedBurst'
    BY <1>0, <1>c, <1>r DEF CommittedBurst
  <2>2. \A r \in Sessions \ {s} : Open(session[r])' => Open(session[r])
    BY <1>b, <1>c
  <2>3. AloneIsAlone'
    <3>1. ASSUME NEW r \in Sessions, Open(session[r])', session'[r].alone
          PROVE  /\ \A q \in Sessions \ {r} : ~Open(session[q])'
                 /\ \A a \in DOMAIN alerts : alerts[a].at <= session'[r].at
      <4>1. Open(session[r]) /\ session[r].alone /\ session'[r].at = session[r].at
        BY <1>c, <2>2, <3>1
      <4>2. \A q \in Sessions \ {r} : ~Open(session[q])
        BY <1>0, <4>1 DEF AloneIsAlone
      <4>3. \A q \in Sessions : Open(session[q])' => Open(session[q])
        BY <1>c, <2>2
      <4> QED
        BY <1>0, <4>1, <4>2, <4>3 DEF AloneIsAlone
    <3> QED
      BY <1>c, <3>1 DEF AloneIsAlone
  <2>4. \A rule : Found(rule)' <=> Found(rule)
    BY <1>c DEF Found
  <2>5. PendingBurst'
    <3>1. ASSUME NEW kind, NEW rule \in Judged, Runs(kind, rule), NEW r \in Sessions, Open(session[r])', session'[r].alone,
                 NEW k \in DOMAIN session'[r].own, Bursts(events, session'[r], kind, k, rule)
          PROVE  Settled(session'[r], k, rule)
      <4>1. CASE r = s
        BY <1>c, <3>1, <4>1
      <4>2. CASE r # s
        <5>1. session'[r] = session[r] /\ Open(session[r])
          BY <1>c, <2>2, <3>1, <4>2
        <5> QED
          BY <1>0, <3>1, <5>1 DEF PendingBurst
      <4> QED
        BY <4>1, <4>2
    <3> QED
      BY <1>c, <1>r, <2>4, <3>1 DEF PendingBurst, Settled
  <2> QED
    BY <1>0, <2>1, <2>3, <2>5 DEF BurstInv
<1>1. ASSUME NEW s \in Sessions, NEW kind, Begin(s, kind) PROVE BurstInv'
  <2> DEFINE t == session'[s]
  <2>1. /\ UNCHANGED <<events, alerts, now>> /\ t.own = <<kind>> /\ t.todo = ToRun(kind) /\ t.at = now
        /\ t.alone => \A r \in Sessions : ~Busy(r)
    BY <1>0, <1>1, BeginFacts
  <2>2. ASSUME NEW r \in Sessions \ {s}, Open(session[r])' PROVE ~session'[r].alone /\ Busy(r)
    <3>1. CASE Busy(r)
      <4>1. Open(session[r]) /\ session'[r] = [session[r] EXCEPT !.alone = FALSE]
        BY <1>0, <1>1, <3>1, BeginFacts, BusyIsOpen
      <4> QED
        BY <3>1, <4>1 DEF Open
    <3>2. CASE ~Busy(r)
      <4>1. session'[r] = Idle
        BY <1>0, <1>1, <3>2, BeginFacts DEF Busy
      <4> QED
        BY <2>2, <4>1 DEF Open, Idle
    <3> QED
      BY <3>1, <3>2
  <2>3. AloneIsAlone'
    <3>1. \A a \in DOMAIN alerts : alerts[a].at <= now
      BY <1>0 DEF Shape, AlertsAreShaped
    <3> QED
      BY <2>1, <2>2, <3>1 DEF AloneIsAlone
  <2>4. CommittedBurst'
    BY <1>0, <1>r, <2>1 DEF CommittedBurst
  <2>5. ASSUME NEW of, NEW rule \in Judged, Runs(of, rule), NEW k \in DOMAIN t.own, Bursts(events, t, of, k, rule)
        PROVE  Settled(t, k, rule)
    <3>1. IsList(t.own) /\ Len(t.own) = 1 /\ DOMAIN t.own = {1} /\ t.own[1] = kind
      <4> DEFINE own == <<kind>>
      <4>1. own = [i \in 1 .. 1 |-> own[i]] /\ own[1] = kind
        OBVIOUS
      <4>2. t.own = own
        BY <2>1
      <4> HIDE DEF own, t
      <4>3. IsList(own) /\ Len(own) = 1
        BY <4>1, FunctionIsList
      <4> QED
        BY <4>1, <4>2, <4>3 DEF IsList
    <3>2. k = 1
      BY <2>5, <3>1
    <3>3. of = kind
      BY <2>5, <3>1, <3>2 DEF Bursts
    <3> QED
      BY <2>1, <2>5, <3>1, <3>2, <3>3 DEF Runs, Due, Settled
  <2>6. ASSUME NEW of, NEW rule \in Judged, Runs(of, rule), NEW r \in Sessions, Open(session[r])', session'[r].alone,
               NEW k \in DOMAIN session'[r].own, Bursts(events, session'[r], of, k, rule)
        PROVE  Settled(session'[r], k, rule)
    BY <2>2, <2>5, <2>6
  <2>7. \A rule : Found(rule)' <=> Found(rule)
    BY <2>1 DEF Found
  <2>8. PendingBurst'
    BY <1>r, <2>1, <2>6, <2>7 DEF PendingBurst, Settled
  <2> QED
    BY <1>0, <2>3, <2>4, <2>8 DEF BurstInv
<1>2. ASSUME NEW s \in Sessions, NEW kind, NextEvent(s, kind) PROVE BurstInv'
  <2> DEFINE t == session[s]
             u == session'[s]
             n == Len(t.own)
  <2>1. /\ UNCHANGED <<events, alerts>> /\ Open(t) /\ t.todo = <<>> /\ \A r \in Sessions \ {s} : session'[r] = session[r]
        /\ u = [t EXCEPT !.own = Append(t.own, kind), !.todo = ToRun(kind)]
    BY <1>0, <1>2, NextEventFacts
  <2>2. /\ DOMAIN u = DOMAIN t /\ u.own = Append(t.own, kind) /\ u.todo = ToRun(kind) /\ u.at = t.at /\ u.alone = t.alone
        /\ u.raised = t.raised
    BY <2>1 DEF Open
  <2>3. IsList(t.own) /\ n \in Nat /\ n > 0 /\ DOMAIN t.own = 1 .. n
    BY <2>1 DEF Open, IsList
  <2>4. IsList(u.own) /\ Len(u.own) = n + 1 /\ DOMAIN u.own = 1 .. n + 1 /\ u.own[n + 1] = kind /\ \A k \in 1 .. n : u.own[k] = t.own[k]
    <3> DEFINE old == t.own
               new == Append(old, kind)
    <3>1. IsList(old)
      BY <2>3
    <3> HIDE DEF old
    <3>2. IsList(new) /\ Len(new) = Len(old) + 1
      BY <3>1, AppendFacts
    <3>3. \A i \in 1 .. Len(old) : new[i] = old[i]
      BY <3>1, AppendFacts
    <3>4. new[Len(old) + 1] = kind
      BY <3>1, AppendFacts
    <3> HIDE DEF new
    <3>5. u.own = new
      BY <2>2 DEF new, old
    <3> HIDE DEF u
    <3> QED
      BY <2>3, <3>2, <3>3, <3>4, <3>5 DEF old, IsList
  <2>5. Open(session[s])'
    <3>1. Busy(s)'
      BY <2>1, <2>2 DEF Busy, Open, Idle
    <3> QED
      BY <1>0, <3>1 DEF Shape, SessionsAreShaped, Busy
  <2> HIDE DEF t, u
  <2>7. /\ \A k \in 1 .. Len(u.own) : Seen(events, u)[Len(events) + k].kind = u.own[k] /\ Seen(events, u)[Len(events) + k].at = u.at
        /\ \A k \in 1 .. n : Seen(events, t)[Len(events) + k].kind = t.own[k] /\ Seen(events, t)[Len(events) + k].at = t.at
    <3>1. \A k \in 1 .. Len(u.own) : Seen(events, u)[Len(events) + k].kind = u.own[k] /\ Seen(events, u)[Len(events) + k].at = u.at
      BY <1>0, <2>4, SeenFacts
    <3>2. \A k \in 1 .. Len(t.own) : Seen(events, t)[Len(events) + k].kind = t.own[k] /\ Seen(events, t)[Len(events) + k].at = t.at
      <4>1. IsList(events) /\ IsList(t.own)
        BY <1>0, <2>3
      <4> QED
        BY <4>1, SeenFacts
    <3> QED
      BY <3>1, <3>2
  <2>6. ASSUME u.alone, NEW of, NEW rule \in Judged, Runs(of, rule), NEW k \in DOMAIN u.own, Bursts(events, u, of, k, rule)
        PROVE  Settled(u, k, rule)
    <3>1. CASE k = n + 1
      <4>1. of = kind
        BY <2>4, <2>6, <3>1 DEF Bursts
      <4> QED
        BY <2>2, <2>4, <2>6, <3>1, <4>1 DEF Runs, Due, Settled
    <3>2. CASE k \in 1 .. n
      <4>1. ASSUME NEW j \in 1 .. Len(events) + k
            PROVE  Seen(events, u)[j].kind = Seen(events, t)[j].kind /\ Seen(events, u)[j].at = Seen(events, t)[j].at
        <5>1. CASE j \in 1 .. Len(events)
          BY <1>0, <2>3, <2>4, <5>1, SeenFacts
        <5>2. CASE j - Len(events) \in 1 .. k
          <6> DEFINE i == j - Len(events)
          <6>1. j = Len(events) + i /\ i \in 1 .. n /\ i \in 1 .. Len(u.own)
            BY <1>0, <2>3, <2>4, <3>2, <5>2
          <6> HIDE DEF i
          <6>2. Seen(events, u)[j].kind = u.own[i] /\ Seen(events, u)[j].at = u.at
            BY <2>7, <6>1
          <6>3. Seen(events, t)[j].kind = t.own[i] /\ Seen(events, t)[j].at = t.at
            BY <2>7, <6>1
          <6> QED
            BY <2>2, <2>4, <6>1, <6>2, <6>3
        <5> QED
          BY <1>0, <2>3, <3>2, <5>1, <5>2
      <4>2. Burst(Seen(events, t), Len(events) + k, rule)
        <5> DEFINE i == Len(events) + k
                   old == Seen(events, u)
                   new == Seen(events, t)
        <5>1. i \in Nat /\ i > 0 /\ Burst(old, i, rule) /\ \A j \in 1 .. i : old[j].kind = new[j].kind /\ old[j].at = new[j].at
          BY <1>0, <2>3, <2>6, <3>2, <4>1 DEF Bursts
        <5> HIDE DEF i, old, new
        <5>2. Burst(new, i, rule)
          BY <5>1, SameBurst
        <5> QED
          BY <5>2 DEF i, new
      <4>3. Settled(t, k, rule)
        <5>1. Bursts(events, t, of, k, rule)
          BY <2>4, <2>6, <3>2, <4>2 DEF Bursts
        <5> QED
          BY <1>0, <2>1, <2>2, <2>3, <2>6, <3>2, <5>1 DEF PendingBurst, t
      <4>4. ~Due(t, rule)
        BY <2>1, EmptyIsList DEF Due, IsList
      <4> QED
        BY <2>2, <4>3, <4>4 DEF Raised, Settled
    <3> QED
      BY <2>3, <2>4, <2>6, <3>1, <3>2
  <2> QED
    BY <2>1, <2>2, <2>5, <2>6, <1>c DEF t, u
<1>3. ASSUME NEW s \in Sessions, RunRule(s) PROVE BurstInv'
  <2> DEFINE t == session[s]
             u == session'[s]
             h == Head(t.todo)
  <2>1. /\ UNCHANGED <<events, alerts>> /\ Open(t) /\ t.todo # <<>> /\ \A r \in Sessions \ {s} : session'[r] = session[r]
        /\ DOMAIN u = DOMAIN t /\ u.own = t.own /\ u.todo = Tail(t.todo) /\ u.at = t.at /\ u.alone = t.alone
    BY <1>0, <1>3, RunRuleFacts DEF RunRule
  <2>2. Open(session[s])'
    <3>1. Busy(s)'
      BY <2>1 DEF Busy, Open, Idle
    <3> QED
      BY <1>0, <3>1 DEF Shape, SessionsAreShaped, Busy
  <2>4. Len(t.own) \in Nat /\ Len(t.own) > 0
    BY <2>1 DEF Open, IsList
  <2>5. \A rule : Raised(t, rule) => Raised(u, rule)
    BY <1>0, <1>3, RaisedGrows
  <2>6. Quiet(s, h) \/ Raised(u, h)
    BY <1>0, <1>3, RaisedGrows
  <2>7. \A rule : Due(t, rule) => rule = h \/ Due(u, rule)
    BY <1>0, <1>3, DueShrinks
  <2>8. Seen(events, u) = Seen(events, t)
    BY <2>1 DEF Seen
  <2>9. ASSUME u.alone, NEW of, NEW rule \in Judged, Runs(of, rule), NEW k \in DOMAIN u.own, Bursts(events, u, of, k, rule)
        PROVE  Settled(u, k, rule)
    <3>1. Settled(t, k, rule)
      <4>1. Bursts(events, t, of, k, rule)
        BY <2>1, <2>8, <2>9 DEF Bursts
      <4> QED
        BY <1>0, <2>1, <2>9, <4>1 DEF PendingBurst
    <3>2. CASE k = Len(t.own) /\ rule = h
      <4>1. CASE Quiet(s, h)
        <5>1. Guarded(s, rule)
          BY <1>0, <2>1, <2>8, <2>9, <3>2, <4>1, BurstFires DEF Bursts
        <5>2. rule # "pfsense_firewall_noisy_source"
          BY DEF Judged, CooldownRules
        <5>3. Found(rule) \/ Raised(t, rule)
          BY <5>1, <5>2, GuardedByOwn
        <5> QED
          BY <2>5, <5>3 DEF Settled
      <4> QED
        BY <2>6, <3>2, <4>1 DEF Settled
    <3> HIDE DEF h
    <3> QED
      BY <2>1, <2>5, <2>7, <3>1, <3>2 DEF Settled
  <2> HIDE DEF h
  <2> QED
    BY <2>1, <2>2, <2>9, <1>c
<1>4. ASSUME NEW s \in Sessions, Correlate(s) PROVE BurstInv'
  <2> DEFINE t == session[s]
             u == session'[s]
  <2>1. /\ UNCHANGED <<events, alerts>> /\ Open(t) /\ t.todo = <<>> /\ \A r \in Sessions \ {s} : session'[r] = session[r]
        /\ u = [t EXCEPT !.todo = CorrelationRules, !.fresh = FALSE]
    BY <1>0, <1>4, CorrelateFacts
  <2>2. DOMAIN u = DOMAIN t /\ u.own = t.own /\ u.at = t.at /\ u.alone = t.alone /\ u.raised = t.raised
    BY <2>1 DEF Open
  <2>3. Open(session[s])'
    <3>1. Busy(s)'
      BY <2>1, <2>2 DEF Busy, Open, Idle
    <3> QED
      BY <1>0, <3>1 DEF Shape, SessionsAreShaped, Busy
  <2>4. ASSUME u.alone, NEW of, NEW rule \in Judged, Runs(of, rule), NEW k \in DOMAIN u.own, Bursts(events, u, of, k, rule)
        PROVE  Settled(u, k, rule)
    <3>1. Seen(events, u) = Seen(events, t)
      BY <2>2 DEF Seen
    <3>2. Settled(t, k, rule)
      <4>1. Bursts(events, t, of, k, rule)
        BY <2>2, <2>4, <3>1 DEF Bursts
      <4> QED
        BY <1>0, <2>1, <2>2, <2>4, <4>1 DEF PendingBurst
    <3>3. ~Due(t, rule)
      BY <2>1, EmptyIsList DEF Due, IsList
    <3> QED
      BY <2>2, <3>2, <3>3 DEF Raised, Settled
  <2> HIDE DEF u
  <2> QED
    BY <2>1, <2>2, <2>3, <2>4, <1>c DEF u
<1>5. ASSUME NEW s \in Sessions, Commit(s) PROVE BurstInv'
  <2> DEFINE t == session[s]
             n == Len(events)
             m == Len(alerts)
  <2>1. Open(t) /\ t.todo = <<>> /\ IsList(t.own) /\ IsList(t.raised) /\ Len(t.own) \in Nat /\ DOMAIN t.own = 1 .. Len(t.own)
    BY <1>0, <1>5, CommitFacts DEF Open, IsList
  <2>2. ASSUME NEW r \in Sessions, Open(session[r])' PROVE ~session'[r].alone
    <3>1. r # s
      BY <1>0, <1>5, <2>2, CommitFacts DEF Open, Idle
    <3>2. session'[r] = session[r]
      BY <1>0, <1>5, <3>1, CommitFacts
    <3>3. Open(session[r])
      BY <1>b, <2>2, <3>2
    <3> QED
      BY <1>0, <2>1, <3>1, <3>2, <3>3 DEF AloneIsAlone
  <2>3. AloneIsAlone' /\ PendingBurst'
    BY <2>2 DEF AloneIsAlone, PendingBurst
  <2>4. /\ \A a \in DOMAIN alerts : a \in DOMAIN alerts' /\ alerts'[a] = alerts[a]
        /\ \A i \in DOMAIN t.raised : m + i \in DOMAIN alerts' /\ alerts'[m + i].rule = t.raised[i].rule /\ alerts'[m + i].at = t.at
    <3>1. IsList(alerts') /\ Len(alerts') = m + Len(t.raised) /\ \A a \in DOMAIN alerts : alerts'[a] = alerts[a]
      BY <1>0, <1>5, CommitFacts
    <3>2. \A i \in DOMAIN t.raised : alerts'[m + i] = AlertsOf(t)[i]
      BY <1>0, <1>5, CommitFacts
    <3>3. \A i \in DOMAIN t.raised : AlertsOf(t)[i].rule = t.raised[i].rule /\ AlertsOf(t)[i].at = t.at
      BY DEF AlertsOf
    <3>4. DOMAIN alerts' = 1 .. m + Len(t.raised) /\ DOMAIN t.raised = 1 .. Len(t.raised) /\ Len(t.raised) \in Nat
      BY <2>1, <3>1 DEF IsList
    <3> QED
      BY <1>0, <3>1, <3>2, <3>3, <3>4
  <2>5. /\ \A i \in DOMAIN events : events'[i] = events[i]
        /\ \A k \in DOMAIN t.own : /\ events'[n + k].kind = t.own[k] /\ events'[n + k].at = t.at /\ events'[n + k].alone = t.alone
        /\ \A i \in DOMAIN events' : i \in Nat /\ (i \in DOMAIN events \/ i - n \in DOMAIN t.own)
    <3>1. IsList(events') /\ \A i \in DOMAIN events : events'[i] = events[i]
      BY <1>0, <1>5, CommitFacts
    <3>2. \A k \in DOMAIN t.own : events'[n + k] = EventsOf(t)[k]
      BY <1>0, <1>5, CommitFacts
    <3>3. \A k \in DOMAIN t.own : EventsOf(t)[k].kind = t.own[k] /\ EventsOf(t)[k].at = t.at /\ EventsOf(t)[k].alone = t.alone
      BY DEF EventsOf
    <3>4. \A i \in DOMAIN events' : i \in DOMAIN events \/ i - n \in DOMAIN t.own
      BY <1>0, <1>5, CommitFacts
    <3>5. DOMAIN events' \subseteq Nat
      BY <3>1 DEF IsList
    <3> QED
      BY <3>1, <3>2, <3>3, <3>4, <3>5
  <2>6. ASSUME NEW of, NEW rule \in Judged, Runs(of, rule), NEW i \in DOMAIN events', events'[i].kind = of, events'[i].alone,
               Burst(events', i, rule)
        PROVE  \E a \in DOMAIN alerts' : alerts'[a].rule = rule /\ alerts'[a].at <= events'[i].at
    <3>1. CASE i \in DOMAIN events
      <4>1. \A j \in 1 .. i : j \in DOMAIN events /\ events'[j].kind = events[j].kind /\ events'[j].at = events[j].at
        BY <1>0, <2>5, <3>1
      <4>2. Burst(events, i, rule)
        <5> DEFINE old == events'
        <5>1. i \in Nat /\ i > 0 /\ Burst(old, i, rule) /\ \A j \in 1 .. i : old[j].kind = events[j].kind /\ old[j].at = events[j].at
          BY <1>0, <2>6, <3>1, <4>1
        <5> HIDE DEF old
        <5> QED
          BY <5>1, SameBurst
      <4>3. PICK a \in DOMAIN alerts : alerts[a].rule = rule /\ alerts[a].at <= events[i].at
        BY <1>0, <2>5, <2>6, <3>1, <4>2 DEF CommittedBurst
      <4> QED
        BY <2>4, <2>5, <3>1, <4>3
    <3>2. CASE i - n \in DOMAIN t.own
      <4> DEFINE k == i - n
                 new == Seen(events, t)
      <4>1. k \in DOMAIN t.own /\ i = n + k /\ k \in Nat /\ k > 0 /\ k <= Len(t.own)
        <5>1. i \in Nat /\ n \in Nat /\ k \in 1 .. Len(t.own)
          BY <1>0, <2>1, <2>5, <3>2
        <5> QED
          BY <2>1, <5>1
      <4> HIDE DEF k
      <4>2. t.alone /\ events'[i].at = t.at
        BY <2>5, <2>6, <4>1
      <4>3. ASSUME NEW j \in 1 .. i PROVE events'[j].kind = new[j].kind /\ events'[j].at = new[j].at
        <5>0. /\ \A l \in 1 .. n : new[l] = events[l]
              /\ \A l \in 1 .. Len(t.own) : new[n + l].kind = t.own[l] /\ new[n + l].at = t.at
          <6>1. \A l \in 1 .. n : new[l] = events[l]
            BY <1>0, <2>1, SeenFacts
          <6>2. \A l \in 1 .. Len(t.own) : new[n + l].kind = t.own[l] /\ new[n + l].at = t.at
            BY <1>0, <2>1, SeenFacts
          <6> QED
            BY <6>1, <6>2
        <5> HIDE DEF new
        <5>1. CASE j \in 1 .. n
          BY <1>0, <2>5, <5>0, <5>1
        <5>2. CASE j - n \in 1 .. k
          <6> DEFINE l == j - n
          <6>1. j = n + l /\ l \in DOMAIN t.own
            BY <1>0, <2>1, <4>1, <5>2
          <6> HIDE DEF l
          <6>2. new[j].kind = t.own[l] /\ new[j].at = t.at
            BY <2>1, <5>0, <6>1
          <6> QED
            BY <2>5, <6>1, <6>2
        <5> QED
          BY <1>0, <4>1, <5>1, <5>2
      <4>4. Burst(new, i, rule)
        <5> DEFINE old == events'
        <5>1. i \in Nat /\ i > 0 /\ Burst(old, i, rule) /\ \A j \in 1 .. i : old[j].kind = new[j].kind /\ old[j].at = new[j].at
          BY <1>0, <2>6, <4>1, <4>3
        <5> HIDE DEF old, new
        <5> QED
          BY <5>1, SameBurst
      <4>5. Settled(t, k, rule)
        <5>1. Bursts(events, t, of, k, rule)
          BY <2>5, <2>6, <4>1, <4>4 DEF Bursts
        <5> QED
          BY <1>0, <2>1, <2>6, <4>1, <4>2, <5>1 DEF PendingBurst
      <4>6. ~Due(t, rule)
        BY <2>1, EmptyIsList DEF Due, IsList
      <4>7. CASE Found(rule)
        <5>1. PICK a \in DOMAIN alerts : alerts[a].rule = rule
          BY <4>7 DEF Found
        <5>2. alerts[a].at <= t.at
          BY <1>0, <2>1, <4>2 DEF AloneIsAlone
        <5> QED
          BY <2>4, <4>2, <5>1, <5>2
      <4>8. CASE Raised(t, rule)
        <5>1. PICK l \in DOMAIN t.raised : t.raised[l].rule = rule
          BY <4>8 DEF Raised
        <5>2. t.at \in Nat
          BY <2>1 DEF Open
        <5> QED
          BY <2>4, <4>2, <5>1, <5>2
      <4> QED
        BY <4>5, <4>6, <4>7, <4>8 DEF Settled
    <3> QED
      BY <2>5, <3>1, <3>2
  <2>7. CommittedBurst'
    BY <1>r, <2>6 DEF CommittedBurst
  <2> QED
    BY <1>0, <2>3, <2>7 DEF BurstInv
<1>6. ASSUME NEW s \in Sessions, Abort(s) PROVE BurstInv'
  <2>1. UNCHANGED <<events, alerts>> /\ session' = [session EXCEPT ![s] = Idle] /\ session = [r \in Sessions |-> session[r]]
    BY <1>0, <1>6 DEF Abort, Shape, SessionsAreShaped
  <2>2. session'[s] = Idle /\ \A r \in Sessions \ {s} : session'[r] = session[r]
    BY <2>1
  <2>3. ASSUME NEW r \in Sessions, Open(session[r])' PROVE Open(session[r]) /\ session'[r] = session[r]
    <3>1. r # s
      BY <2>2, <2>3 DEF Open, Idle
    <3> QED
      BY <1>b, <2>2, <2>3, <3>1
  <2> QED
    BY <2>1, <2>3, <1>a
<1>7. ASSUME NEW a \in DOMAIN alerts, NEW status \in {"open", "resolved"}, SetStatus(a, status) PROVE BurstInv'
  <2>1. /\ DOMAIN alerts' = DOMAIN alerts /\ UNCHANGED <<session, events>>
        /\ \A b \in DOMAIN alerts : alerts'[b].rule = alerts[b].rule /\ alerts'[b].at = alerts[b].at
    BY <1>0, <1>7, SetStatusFacts
  <2>2. ASSUME NEW r \in Sessions, Open(session[r])' PROVE Open(session[r]) /\ session'[r] = session[r]
    BY <1>b, <2>1, <2>2
  <2> QED
    BY <2>1, <2>2, <1>a
<1>8. CASE UNCHANGED <<events, alerts, session>>
  <2>1. ASSUME NEW r \in Sessions, Open(session[r])' PROVE Open(session[r]) /\ session'[r] = session[r]
    BY <1>8, <1>b, <2>1
  <2> QED
    BY <1>8, <1>a, <2>1
<1>9. ASSUME NEW a, LogStatus(a) PROVE BurstInv'
  BY <1>8, <1>9 DEF LogStatus
<1>10. CASE Tick
  BY <1>8, <1>10 DEF Tick
<1>11. CASE UNCHANGED vars
  BY <1>8, <1>11 DEF vars
<1> QED
  BY <1>1, <1>2, <1>3, <1>4, <1>5, <1>6, <1>7, <1>9, <1>10, <1>11, Zenon DEF Next, Ingest

\* That a lone transaction sees all there is, and that the burst it brings is still to be judged
\* or has its alert, are kept by every step.
THEOREM BurstInductive == Spec => []BurstInv
<1>1. Init => BurstInv
  <2> SUFFICES ASSUME Init PROVE BurstInv
    OBVIOUS
  <2>1. Shape /\ DOMAIN events = {} /\ \A s \in Sessions : session[s] = Idle
    BY BeginsShaped, EmptyIsList DEF IsList
  <2>2. \A s \in Sessions : ~Open(session[s])
    BY <2>1 DEF Open, Idle
  <2> QED
    BY <2>1, <2>2 DEF BurstInv, AloneIsAlone, PendingBurst, CommittedBurst
<1>2. BurstInv /\ [Next]_vars => BurstInv'
  BY BurstKept
<1> QED
  BY <1>1, <1>2, PTL DEF Spec

\* An event that brings a counting rule to its threshold, ingested alone, has its alert (the
\* detectors of ingest_engine run after every insert and see the transaction's own events).
THEOREM BurstsAreSeen == Spec => []BurstIsSeen
<1>1. BurstInv => BurstIsSeen
  <2> SUFFICES ASSUME BurstInv, NEW i \in DOMAIN events, NEW rule \in Judged, events[i].alone,
                      Runs(events[i].kind, rule), Burst(events, i, rule)
               PROVE  \E a \in DOMAIN alerts : alerts[a].rule = rule /\ alerts[a].at <= events[i].at
    BY DEF BurstIsSeen, Burst, Runs, Judged
  <2> QED
    BY DEF BurstInv, CommittedBurst
<1> QED
  BY <1>1, BurstInductive, PTL

-----------------------------------------------------------------------------
(* Patterns (PatternIsSeen). *)

\* Two alerts of the two groups of a pattern, and times within its window.
Matches(rule, x, y) ==
    \E g, h \in 1 .. 2 : g # h /\ <<x.rule, x.source>> \in Patterns[rule][g] /\ <<y.rule, y.source>> \in Patterns[rule][h]
Near(rule, p, q) == p - q <= CorrelationWindow[rule] /\ q - p <= CorrelationWindow[rule]

\* The correlation of the alerts a transaction has raised is to come, in its list, or done.
Judging(t, rule) == t.fresh \/ Due(t, rule) \/ Found(rule) \/ Raised(t, rule)

AllOpen == \A a \in DOMAIN alerts : alerts[a].status = "open"

PendingPattern ==
    \A s \in Sessions, rule \in DOMAIN Patterns, a \in DOMAIN alerts : Open(session[s]) =>
        \A i \in DOMAIN session[s].raised :
            /\ a <= session[s].raised[i].seen /\ Matches(rule, session[s].raised[i], alerts[a])
            /\ Near(rule, session[s].at, alerts[a].at)
            => Judging(session[s], rule)

CommittedPattern ==
    \A a, b \in DOMAIN alerts, rule \in DOMAIN Patterns :
        b <= alerts[a].seen /\ Matches(rule, alerts[a], alerts[b]) /\ Near(rule, alerts[a].at, alerts[b].at) => Found(rule)

PatternInv == Shape /\ (changes = 0 => AllOpen /\ PendingPattern /\ CommittedPattern)

\* The groups of a pattern hold alerts of detectors, and every pattern is among the correlation rules.
LEMMA PatternFacts ==
    ASSUME NEW rule \in DOMAIN Patterns
    PROVE  /\ \E n \in DOMAIN CorrelationRules : CorrelationRules[n] = rule
           /\ rule \notin BaseRules \cup CooldownRules \cup {"correlated_activity"}
           /\ \A x, y : Matches(rule, x, y) => x.rule \in BaseRules
<1>1. rule \in {"web_to_app_attack_pattern", "spray_then_success_pattern", "cloud_app_error_pattern",
                "azure_auth_abuse_exception_correlation"}
  BY DEF Patterns
<1>2. \E n \in DOMAIN CorrelationRules : CorrelationRules[n] = rule
  <2>1. DOMAIN CorrelationRules = 1 .. 5
    BY DEF CorrelationRules
  <2>2. /\ CorrelationRules[2] = "web_to_app_attack_pattern" /\ CorrelationRules[3] = "spray_then_success_pattern"
        /\ CorrelationRules[4] = "cloud_app_error_pattern" /\ CorrelationRules[5] = "azure_auth_abuse_exception_correlation"
    BY DEF CorrelationRules
  <2> QED
    BY <1>1, <2>1, <2>2
<1>3. rule \notin BaseRules \cup CooldownRules \cup {"correlated_activity"}
  BY <1>1 DEF BaseRules, CountingRules, CooldownRules, FirewallRules
<1>4. ASSUME NEW g \in 1 .. 2, NEW type, NEW source, <<type, source>> \in Patterns[rule][g] PROVE type \in BaseRules
  <2> DEFINE types == {"http_error_threshold", "high_request_rate_threshold", "failed_login_threshold",
                       "password_spraying_threshold", "application_exception_threshold",
                       "app_insights_unauthorized_access_threshold", "successful_login_after_spray"}
  <2>1. types \subseteq BaseRules
    BY DEF BaseRules, CountingRules
  <2>2. CASE rule = "web_to_app_attack_pattern"
    <3>1. Patterns[rule] = WebToApp
      BY <2>2 DEF Patterns
    <3>2. \A p \in WebToApp[1] \cup WebToApp[2] : p[1] \in types
      BY DEF WebToApp
    <3> QED
      BY <1>4, <2>1, <3>1, <3>2
  <2>3. CASE rule = "spray_then_success_pattern"
    <3>1. Patterns[rule] = SprayThenSuccess
      BY <2>3 DEF Patterns
    <3>2. \A p \in SprayThenSuccess[1] \cup SprayThenSuccess[2] : p[1] \in types
      BY DEF SprayThenSuccess
    <3> QED
      BY <1>4, <2>1, <3>1, <3>2
  <2>4. CASE rule = "cloud_app_error_pattern"
    <3>1. Patterns[rule] = CloudAppError
      BY <2>4 DEF Patterns
    <3>2. \A p \in CloudAppError[1] \cup CloudAppError[2] : p[1] \in types
      BY DEF CloudAppError
    <3> QED
      BY <1>4, <2>1, <3>1, <3>2
  <2>5. CASE rule = "azure_auth_abuse_exception_correlation"
    <3>1. Patterns[rule] = AzureAuthAbuse
      BY <2>5 DEF Patterns
    <3>2. \A p \in AzureAuthAbuse[1] \cup AzureAuthAbuse[2] : p[1] \in types
      BY DEF AzureAuthAbuse
    <3> QED
      BY <1>4, <2>1, <3>1, <3>2
  <2> QED
    BY <1>1, <2>2, <2>3, <2>4, <2>5
<1> QED
  BY <1>2, <1>3, <1>4 DEF Matches

\* A pattern whose two alerts the transaction sees is raised, unless an open one keeps it back.
LEMMA PatternFires ==
    ASSUME Shape, AllOpen, NEW s \in Sessions, Open(session[s]), NEW rule \in DOMAIN Patterns, Quiet(s, rule),
           NEW i \in DOMAIN session[s].raised, NEW a \in DOMAIN alerts,
           Matches(rule, session[s].raised[i], alerts[a]), Near(rule, session[s].at, alerts[a].at)
    PROVE  Guarded(s, rule)
<1> SUFFICES ASSUME ~Guarded(s, rule) PROVE FALSE
  OBVIOUS
<1> DEFINE t == session[s]
           x == t.raised[i]
           y == alerts[a]
           w == CorrelationWindow[rule]
           inRange == {<<o[1], o[2]>> : o \in {p \in OpenAlerts(s) : p[3] >= t.at - w}}
<1>1. w \in Nat /\ t.at \in Nat /\ y.at \in Nat
  BY WindowAssumption DEF Open, Shape, AlertsAreShaped
<1>2. <<x.rule, x.source>> \in inRange
  <2>1. <<x.rule, x.source, t.at>> \in OpenAlerts(s)
    BY DEF OpenAlerts
  <2>2. t.at >= t.at - w
    BY <1>1
  <2> QED
    BY <2>1, <2>2
<1>3. <<y.rule, y.source>> \in inRange
  <2>1. <<y.rule, y.source, y.at>> \in OpenAlerts(s)
    BY DEF OpenAlerts, AllOpen
  <2>2. y.at >= t.at - w
    BY <1>1 DEF Near
  <2> QED
    BY <2>1, <2>2
<1> HIDE DEF inRange
<1>4. rule # "correlated_activity" /\ rule \notin BaseRules /\ rule \notin CooldownRules
  BY PatternFacts
<1>5. Correlated(rule, inRange)
  <2>1. PICK g, h \in 1 .. 2 : g # h /\ <<x.rule, x.source>> \in Patterns[rule][g] /\ <<y.rule, y.source>> \in Patterns[rule][h]
    BY DEF Matches
  <2>2. \A k \in 1 .. 2 : k = g \/ k = h
    BY <2>1
  <2> HIDE DEF x, y
  <2>3. \A k \in 1 .. 2 : Patterns[rule][k] \cap inRange # {}
    BY <1>2, <1>3, <2>1, <2>2
  <2> QED
    BY <1>4, <2>3 DEF Correlated
<1>6. Candidates(s, rule) = {Candidate("high")}
  <2>1. rule \notin DOMAIN CountingRules /\ rule \notin FirewallRules /\ rule # "successful_login_after_spray"
    BY <1>4 DEF BaseRules
  <2>2. Correlated(rule, {<<o[1], o[2]>> : o \in {p \in OpenAlerts(s) : p[3] >= session[s].at - CorrelationWindow[rule]}})
    BY <1>5 DEF inRange
  <2> QED
    BY <2>1, <2>2 DEF Candidates, FirewallRules
<1>7. ~Suppressed(rule, Candidate("high").severity, t.at)
  BY <1>4 DEF Suppressed
<1>8. Left(s, rule) = {Candidate("high")}
  BY <1>6, <1>7 DEF Left
<1>9. Candidate("high") \in {c \in Left(s, rule) : \A d \in Left(s, rule) : c.order <= d.order}
  BY <1>8 DEF Candidate
<1> QED
  BY <1>9 DEF Quiet

\* Every step keeps the invariant of the patterns.
LEMMA PatternKept == PatternInv /\ [Next]_vars => PatternInv'
<1> SUFFICES ASSUME PatternInv, [Next]_vars PROVE PatternInv'
  OBVIOUS
<1>0. /\ Shape /\ Shape' /\ Len(alerts) \in Nat /\ DOMAIN alerts = 1 .. Len(alerts) /\ changes \in Nat
  BY ShapeKept DEF PatternInv, Shape, AlertsAreShaped, IsList
<1>b. ASSUME NEW r \in Sessions, session'[r] = session[r] PROVE Open(session[r])' => Open(session[r])
  BY <1>0, <1>b, BusyIsOpen DEF Shape, SessionsAreShaped, Open, Idle
\* No alert is committed, and what a session may owe it has owed before.
<1>a. ASSUME UNCHANGED <<alerts, changes>>,
             \A r \in Sessions : Open(session[r])' => Open(session[r]),
             changes = 0 /\ AllOpen /\ PendingPattern => \A r \in Sessions, rule \in DOMAIN Patterns, a \in DOMAIN alerts :
                 Open(session[r])' => \A i \in DOMAIN session'[r].raised :
                     /\ a <= session'[r].raised[i].seen /\ Matches(rule, session'[r].raised[i], alerts[a])
                     /\ Near(rule, session'[r].at, alerts[a].at)
                     => Judging(session'[r], rule)
      PROVE  PatternInv'
  <2>1. \A rule : Found(rule)' <=> Found(rule)
    BY <1>a DEF Found
  <2>2. changes' = 0 => AllOpen' /\ CommittedPattern'
    BY <1>0, <1>a, <2>1 DEF PatternInv, AllOpen, CommittedPattern
  <2>3. changes' = 0 => PendingPattern'
    BY <1>0, <1>a, <2>1 DEF PatternInv, PendingPattern, Judging
  <2> QED
    BY <1>0, <2>2, <2>3 DEF PatternInv
\* One session moves on and the others do not.
<1>c. ASSUME UNCHANGED <<alerts, changes>>, NEW s \in Sessions, Open(session[s]),
             \A r \in Sessions \ {s} : session'[r] = session[r],
             session'[s].at = session[s].at,
             changes = 0 /\ AllOpen /\ PendingPattern => \A rule \in DOMAIN Patterns, a \in DOMAIN alerts, i \in DOMAIN session'[s].raised :
                     /\ a <= session'[s].raised[i].seen /\ Matches(rule, session'[s].raised[i], alerts[a])
                     /\ Near(rule, session[s].at, alerts[a].at)
                     => Judging(session'[s], rule)
      PROVE  PatternInv'
  <2>1. \A r \in Sessions : Open(session[r])' => Open(session[r])
    BY <1>b, <1>c
  <2>2. ASSUME changes = 0, AllOpen, PendingPattern, NEW r \in Sessions, NEW rule \in DOMAIN Patterns, NEW a \in DOMAIN alerts,
               Open(session[r])', NEW i \in DOMAIN session'[r].raised,
               a <= session'[r].raised[i].seen, Matches(rule, session'[r].raised[i], alerts[a]),
               Near(rule, session'[r].at, alerts[a].at)
        PROVE  Judging(session'[r], rule)
    <3>1. CASE r = s
      BY <1>c, <2>2, <3>1
    <3>2. CASE r # s
      <4>1. session'[r] = session[r] /\ Open(session[r])
        BY <1>c, <2>1, <2>2, <3>2
      <4> QED
        BY <2>2, <4>1 DEF PendingPattern
    <3> QED
      BY <3>1, <3>2
  <2> QED
    BY <1>a, <1>c, <2>1, <2>2
<1>1. ASSUME NEW s \in Sessions, NEW kind, Begin(s, kind) PROVE PatternInv'
  <2>1. UNCHANGED <<alerts, changes>> /\ session'[s].raised = <<>>
    BY <1>0, <1>1, BeginFacts
  <2>2. ASSUME NEW r \in Sessions \ {s}, Open(session[r])'
        PROVE  /\ Open(session[r]) /\ session'[r].raised = session[r].raised /\ session'[r].at = session[r].at
               /\ session'[r].todo = session[r].todo /\ session'[r].fresh = session[r].fresh
    <3>1. CASE Busy(r)
      <4>1. Open(session[r]) /\ session'[r] = [session[r] EXCEPT !.alone = FALSE]
        BY <1>0, <1>1, <3>1, BeginFacts, BusyIsOpen
      <4> QED
        BY <4>1 DEF Open
    <3>2. CASE ~Busy(r)
      <4>1. session'[r] = session[r] /\ session[r] = Idle
        BY <1>0, <1>1, <3>2, BeginFacts DEF Busy
      <4> QED
        BY <2>2, <4>1 DEF Open, Idle
    <3> QED
      BY <3>1, <3>2
  <2>3. \A rule : Found(rule)' <=> Found(rule)
    BY <2>1 DEF Found
  <2>4. DOMAIN session'[s].raised = {}
    BY <2>1, EmptyIsList DEF IsList
  <2>5. ASSUME changes' = 0 PROVE AllOpen' /\ CommittedPattern'
    BY <1>0, <2>1, <2>3, <2>5 DEF PatternInv, AllOpen, CommittedPattern
  <2>6. ASSUME changes' = 0, NEW r \in Sessions, NEW rule \in DOMAIN Patterns, NEW a \in DOMAIN alerts, Open(session[r])',
               NEW i \in DOMAIN session'[r].raised,
               a <= session'[r].raised[i].seen, Matches(rule, session'[r].raised[i], alerts[a]),
               Near(rule, session'[r].at, alerts[a].at)
        PROVE  Judging(session'[r], rule)
    <3>1. /\ r # s
      BY <2>4, <2>6
    <3>2. Judging(session[r], rule)
      BY <2>1, <2>2, <2>6, <3>1 DEF PatternInv, PendingPattern
    <3> QED
      BY <2>2, <2>6, <3>1, <3>2 DEF Judging, Due, Raised
  <2>7. changes' = 0 => PendingPattern'
    BY <2>1, <2>3, <2>6 DEF PendingPattern, Judging
  <2> QED
    BY <1>0, <2>5, <2>7 DEF PatternInv
<1>2. ASSUME NEW s \in Sessions, NEW kind, NextEvent(s, kind) PROVE PatternInv'
  <2> DEFINE t == session[s]
             u == session'[s]
  <2>1. /\ UNCHANGED <<alerts, changes>> /\ Open(t) /\ t.todo = <<>> /\ ~t.fresh /\ \A r \in Sessions \ {s} : session'[r] = session[r]
        /\ u = [t EXCEPT !.own = Append(t.own, kind), !.todo = ToRun(kind)]
    BY <1>0, <1>2, NextEventFacts
  <2>2. u.at = t.at /\ u.raised = t.raised
    BY <2>1 DEF Open
  <2>3. \A rule : ~Due(t, rule)
    BY <2>1, EmptyIsList DEF Due, IsList
  <2>4. ASSUME PendingPattern, NEW rule \in DOMAIN Patterns, NEW a \in DOMAIN alerts, NEW i \in DOMAIN u.raised,
               a <= u.raised[i].seen, Matches(rule, u.raised[i], alerts[a]), Near(rule, t.at, alerts[a].at)
        PROVE  Judging(u, rule)
    <3>1. Judging(t, rule)
      BY <2>1, <2>2, <2>4 DEF PendingPattern
    <3> QED
      BY <2>1, <2>2, <2>3, <3>1 DEF Judging, Raised
  <2> QED
    BY <2>1, <2>2, <2>4, <1>c
<1>3. ASSUME NEW s \in Sessions, RunRule(s) PROVE PatternInv'
  <2> DEFINE t == session[s]
             u == session'[s]
             h == Head(t.todo)
  <2>1. /\ UNCHANGED <<alerts, changes>> /\ Open(t) /\ \A r \in Sessions \ {s} : session'[r] = session[r]
        /\ u.at = t.at
    BY <1>0, <1>3, RunRuleFacts DEF RunRule
  <2>5. t.fresh => u.fresh
    BY <1>0, <1>3, RunRuleFacts
  <2>2. /\ \A rule : Raised(t, rule) => Raised(u, rule)
        /\ Quiet(s, h) \/ Raised(u, h)
        /\ \A i \in DOMAIN u.raised : \/ i \in DOMAIN t.raised /\ u.raised[i] = t.raised[i]
                                      \/ u.raised[i].rule = h /\ (h \in BaseRules => u.fresh)
    BY <1>0, <1>3, RaisedGrows
  <2>3. \A rule : Due(t, rule) => rule = h \/ Due(u, rule)
    BY <1>0, <1>3, DueShrinks
  <2> HIDE DEF h
  <2>4. ASSUME AllOpen, PendingPattern, NEW rule \in DOMAIN Patterns, NEW a \in DOMAIN alerts, NEW i \in DOMAIN u.raised,
               a <= u.raised[i].seen, Matches(rule, u.raised[i], alerts[a]), Near(rule, t.at, alerts[a].at)
        PROVE  Judging(u, rule)
    <3>1. CASE u.raised[i].rule = h /\ (h \in BaseRules => u.fresh)
      BY <2>4, <3>1, PatternFacts DEF Judging
    <3>2. CASE i \in DOMAIN t.raised /\ u.raised[i] = t.raised[i]
      <4>1. Judging(t, rule)
        BY <2>1, <2>4, <3>2 DEF PendingPattern
      <4>2. CASE rule = h /\ Quiet(s, h)
        <5>1. Guarded(s, rule)
          BY <1>0, <2>1, <2>4, <3>2, <4>2, PatternFires
        <5>2. rule # "pfsense_firewall_noisy_source"
          BY PatternFacts DEF CooldownRules
        <5> QED
          BY <2>2, <5>1, <5>2, GuardedByOwn DEF Judging
      <4> QED
        BY <2>2, <2>3, <2>5, <4>1, <4>2 DEF Judging
    <3> QED
      BY <2>2, <3>1, <3>2
  <2> QED
    BY <2>1, <2>4, <1>c
<1>4. ASSUME NEW s \in Sessions, Correlate(s) PROVE PatternInv'
  <2> DEFINE t == session[s]
             u == session'[s]
  <2>1. /\ UNCHANGED <<alerts, changes>> /\ Open(t) /\ \A r \in Sessions \ {s} : session'[r] = session[r]
        /\ u = [t EXCEPT !.todo = CorrelationRules, !.fresh = FALSE]
    BY <1>0, <1>4, CorrelateFacts
  <2>2. u.at = t.at /\ u.todo = CorrelationRules
    BY <2>1 DEF Open
  <2>3. \A rule \in DOMAIN Patterns : Judging(u, rule)
    BY <2>2, PatternFacts DEF Judging, Due
  <2> QED
    BY <2>1, <2>2, <2>3, <1>c
<1>5. ASSUME NEW s \in Sessions, Commit(s) PROVE PatternInv'
  <2> DEFINE t == session[s]
             n == Len(alerts)
  <2>1. /\ Open(t) /\ t.todo = <<>> /\ ~t.fresh /\ IsList(t.raised) /\ changes' = changes
    BY <1>0, <1>5, CommitFacts DEF Open
  <2>2. \A i \in DOMAIN t.raised : i \in Nat /\ i > 0 /\ t.raised[i].seen \in Nat /\ t.raised[i].seen <= n
    BY <2>1 DEF Open, IsList
  <2>3. /\ \A a \in DOMAIN alerts : a \in Nat /\ a <= n /\ alerts'[a] = alerts[a] /\ a \in DOMAIN alerts'
        /\ \A i \in DOMAIN t.raised : /\ n + i \in DOMAIN alerts'
                                      /\ alerts'[n + i].rule = t.raised[i].rule /\ alerts'[n + i].source = t.raised[i].source
                                      /\ alerts'[n + i].seen = t.raised[i].seen /\ alerts'[n + i].at = t.at
                                      /\ alerts'[n + i].status = "open"
        /\ DOMAIN alerts' \subseteq Nat
        /\ \A a \in DOMAIN alerts' : a \in DOMAIN alerts \/ a - n \in DOMAIN t.raised
    <3>1. \A i \in DOMAIN t.raised : alerts'[n + i] = AlertsOf(t)[i]
      BY <1>0, <1>5, CommitFacts
    <3>2. \A i \in DOMAIN t.raised : /\ AlertsOf(t)[i].rule = t.raised[i].rule /\ AlertsOf(t)[i].source = t.raised[i].source
                                     /\ AlertsOf(t)[i].seen = t.raised[i].seen /\ AlertsOf(t)[i].at = t.at
                                     /\ AlertsOf(t)[i].status = "open"
      BY DEF AlertsOf
    <3>3. IsList(alerts') /\ Len(alerts') = n + Len(t.raised) /\ \A a \in DOMAIN alerts : alerts'[a] = alerts[a]
      BY <1>0, <1>5, CommitFacts
    <3>4. \A a \in DOMAIN alerts' : a \in DOMAIN alerts \/ a - n \in DOMAIN t.raised
      BY <1>0, <1>5, CommitFacts
    <3>5. DOMAIN alerts' = 1 .. n + Len(t.raised) /\ DOMAIN t.raised = 1 .. Len(t.raised) /\ Len(t.raised) \in Nat
      BY <2>1, <3>3 DEF IsList
    <3>6. /\ DOMAIN alerts' \subseteq Nat /\ \A a \in DOMAIN alerts : a \in DOMAIN alerts'
          /\ \A i \in DOMAIN t.raised : n + i \in DOMAIN alerts'
      BY <1>0, <3>5
    <3> QED
      BY <1>0, <3>1, <3>2, <3>3, <3>4, <3>6
  <2>4. \A rule : Found(rule) \/ Raised(t, rule) => Found(rule)'
    BY <2>3 DEF Found, Raised
  <2>5. ASSUME changes' = 0 PROVE AllOpen'
    <3>1. ASSUME NEW a \in DOMAIN alerts' PROVE alerts'[a].status = "open"
      <4>1. CASE a \in DOMAIN alerts
        BY <2>1, <2>3, <2>5, <4>1 DEF PatternInv, AllOpen
      <4>2. CASE a - n \in DOMAIN t.raised
        <5>1. a = n + (a - n)
          BY <1>0, <2>3, <3>1
        <5> QED
          BY <2>3, <4>2, <5>1
      <4> QED
        BY <2>3, <4>1, <4>2
    <3> QED
      BY <3>1 DEF AllOpen
  <2>6. ASSUME changes' = 0, NEW a \in DOMAIN alerts', NEW b \in DOMAIN alerts', NEW rule \in DOMAIN Patterns,
               b <= alerts'[a].seen, Matches(rule, alerts'[a], alerts'[b]), Near(rule, alerts'[a].at, alerts'[b].at)
        PROVE  Found(rule)'
    <3>1. CASE a \in DOMAIN alerts
      <4>1. b \in DOMAIN alerts
        <5>1. alerts[a].seen \in Nat /\ alerts[a].seen < a /\ a <= n
          BY <1>0, <3>1 DEF Shape, AlertsAreShaped
        <5>2. b <= n
          BY <1>0, <2>3, <2>6, <3>1, <5>1
        <5> QED
          BY <1>0, <2>2, <2>3, <2>6, <5>2
      <4>2. Found(rule)
        BY <2>1, <2>3, <2>6, <3>1, <4>1 DEF PatternInv, CommittedPattern
      <4> QED
        BY <2>4, <4>2
    <3>2. CASE a - n \in DOMAIN t.raised
      <4> DEFINE i == a - n
      <4>1. i \in DOMAIN t.raised /\ a = n + i
        BY <1>0, <2>3, <3>2
      <4> HIDE DEF i
      <4>2. alerts'[a].seen = t.raised[i].seen /\ alerts'[a].at = t.at /\ t.raised[i].seen <= n
        BY <2>2, <2>3, <4>1
      <4>3. b \in DOMAIN alerts
        BY <1>0, <2>2, <2>3, <2>6, <4>1, <4>2
      <4>4. Matches(rule, t.raised[i], alerts[b])
        BY <2>3, <2>6, <4>1, <4>3 DEF Matches
      <4>5. Judging(t, rule)
        BY <2>1, <2>3, <2>6, <4>1, <4>2, <4>3, <4>4 DEF PatternInv, PendingPattern
      <4>6. ~Due(t, rule)
        BY <2>1, EmptyIsList DEF Due, IsList
      <4> QED
        BY <2>1, <2>4, <4>5, <4>6 DEF Judging
    <3> QED
      BY <2>3, <3>1, <3>2
  <2>7. changes' = 0 => CommittedPattern'
    BY <2>6 DEF CommittedPattern
  <2>8. ASSUME changes' = 0, NEW r \in Sessions, NEW rule \in DOMAIN Patterns, NEW a \in DOMAIN alerts', Open(session[r])',
               NEW i \in DOMAIN session'[r].raised, a <= session'[r].raised[i].seen,
               Matches(rule, session'[r].raised[i], alerts'[a]), Near(rule, session'[r].at, alerts'[a].at)
        PROVE  Judging(session[r], rule)'
    <3>1. r # s
      BY <1>0, <1>5, <2>8, CommitFacts DEF Open, Idle
    <3>2. session'[r] = session[r]
      BY <1>0, <1>5, <3>1, CommitFacts
    <3>3. Open(session[r])
      BY <1>b, <2>8, <3>2
    <3>4. session[r].raised[i].seen \in Nat /\ session[r].raised[i].seen <= n
      BY <2>8, <3>2, <3>3 DEF Open
    <3>5. a \in DOMAIN alerts
      BY <1>0, <2>2, <2>3, <2>8, <3>2, <3>4
    <3>6. Judging(session[r], rule)
      BY <2>1, <2>3, <2>8, <3>2, <3>3, <3>5 DEF PatternInv, PendingPattern
    <3> QED
      BY <2>4, <3>2, <3>6 DEF Judging
  <2>9. changes' = 0 => PendingPattern'
    BY <2>8 DEF PendingPattern, Judging
  <2> QED
    BY <1>0, <2>5, <2>7, <2>9 DEF PatternInv
<1>6. ASSUME NEW s \in Sessions, Abort(s) PROVE PatternInv'
  <2>1. UNCHANGED <<alerts, changes>> /\ session' = [session EXCEPT ![s] = Idle] /\ session = [r \in Sessions |-> session[r]]
    BY <1>0, <1>6 DEF Abort, Shape, SessionsAreShaped
  <2>2. session'[s] = Idle /\ \A r \in Sessions \ {s} : session'[r] = session[r]
    BY <2>1
  <2>3. ASSUME NEW r \in Sessions, Open(session[r])' PROVE Open(session[r]) /\ session'[r] = session[r]
    <3>1. r # s
      BY <2>2, <2>3 DEF Open, Idle
    <3> QED
      BY <1>b, <2>2, <2>3, <3>1
  <2> QED
    BY <2>1, <2>3, <1>a DEF PendingPattern
<1>7. ASSUME NEW a \in DOMAIN alerts, NEW status \in {"open", "resolved"}, SetStatus(a, status) PROVE PatternInv'
  <2>1. changes' # 0
    BY <1>0, <1>7, SetStatusFacts
  <2> QED
    BY <1>0, <2>1 DEF PatternInv
<1>8. CASE UNCHANGED <<alerts, session, changes>>
  <2>1. ASSUME NEW r \in Sessions, Open(session[r])' PROVE Open(session[r]) /\ session'[r] = session[r]
    BY <1>8, <1>b, <2>1
  <2> QED
    BY <1>8, <1>a, <2>1 DEF PendingPattern
<1>9. ASSUME NEW a, LogStatus(a) PROVE PatternInv'
  BY <1>8, <1>9 DEF LogStatus
<1>10. CASE Tick
  BY <1>8, <1>10 DEF Tick
<1>11. CASE UNCHANGED vars
  BY <1>8, <1>11 DEF vars
<1> QED
  BY <1>1, <1>2, <1>3, <1>4, <1>5, <1>6, <1>7, <1>9, <1>10, <1>11, Zenon DEF Next, Ingest

\* That a transaction which raised an alert has its correlation to come, in its list or done, is
\* kept by every step.
THEOREM PatternInductive == Spec => []PatternInv
<1>1. Init => PatternInv
  <2> SUFFICES ASSUME Init PROVE PatternInv
    OBVIOUS
  <2>1. Shape /\ DOMAIN alerts = {} /\ \A s \in Sessions : session[s] = Idle
    BY BeginsShaped, EmptyIsList DEF IsList
  <2> QED
    BY <2>1 DEF PatternInv, AllOpen, PendingPattern, CommittedPattern
<1>2. PatternInv /\ [Next]_vars => PatternInv'
  BY PatternKept
<1> QED
  BY <1>1, <1>2, PTL DEF Spec

\* A pattern is missed only by overlapping requests or after an analyst's change (the correlation
\* rules run at the end of every event that raised an alert).
THEOREM PatternsAreSeen == Spec => []PatternIsSeen
<1>1. PatternInv => PatternIsSeen
  <2> SUFFICES ASSUME PatternInv, NEW a \in DOMAIN alerts, NEW b \in DOMAIN alerts, NEW rule \in DOMAIN Patterns,
                      <<alerts[a].rule, alerts[a].source>> \in Patterns[rule][1],
                      <<alerts[b].rule, alerts[b].source>> \in Patterns[rule][2],
                      alerts[a].seen >= b \/ alerts[b].seen >= a,
                      alerts[a].at - alerts[b].at <= CorrelationWindow[rule],
                      alerts[b].at - alerts[a].at <= CorrelationWindow[rule], changes = 0
               PROVE  \E c \in DOMAIN alerts : alerts[c].rule = rule
    BY DEF PatternIsSeen
  <2>1. Matches(rule, alerts[a], alerts[b]) /\ Matches(rule, alerts[b], alerts[a])
    <3>1. 1 \in 1 .. 2 /\ 2 \in 1 .. 2 /\ 1 # 2
      OBVIOUS
    <3> QED
      BY <3>1 DEF Matches
  <2>2. alerts[a].seen \in Nat /\ alerts[b].seen \in Nat /\ a \in Nat /\ b \in Nat
    BY DEF PatternInv, Shape, AlertsAreShaped, IsList
  <2>3. CASE alerts[a].seen >= b
    BY <2>1, <2>2, <2>3 DEF PatternInv, CommittedPattern, Near, Found
  <2>4. CASE alerts[b].seen >= a
    BY <2>1, <2>2, <2>4 DEF PatternInv, CommittedPattern, Near, Found
  <2> QED
    BY <2>3, <2>4
<1> QED
  BY <1>1, PatternInductive, PTL

-----------------------------------------------------------------------------
(***************************************************************************)
(* ProductionSimulation, for every threshold and every order of what        *)
(* production commits beside the simulation.                                *)
(***************************************************************************)

\* The detector raised nothing with the rule's own threshold, and nothing was committed since:
\* an alert is open or there is too little for one.
StillBelow == sim.late \/ open \/ history + sim.pasted < Threshold

SimTypes ==
    /\ history \in Nat /\ open \in BOOLEAN
    /\ sim \in [pc : {"idle", "detect", "evidence", "report"}, pasted : Nat, preOpen : BOOLEAN,
                matched : BOOLEAN, observed : Nat \cup {Absent}, late : BOOLEAN]

SimInv ==
    /\ SimTypes
    /\ sim.pc = "evidence" => ~sim.matched /\ StillBelow
    /\ ExplanationIsHonest

\* What the detector says, with whatever threshold.
LEMMA DetectedSays ==
    ASSUME SimTypes, NEW n \in Nat, NEW limit \in Nat
    PROVE  /\ Detected(n, limit) \in Nat \cup {Absent}
           /\ Detected(n, limit) # Absent => ~open /\ Detected(n, limit) = history + n
           /\ Detected(n, limit) = Absent => open \/ history + n < limit
<1>1. history \in Nat /\ open \in BOOLEAN /\ history + n \in Nat /\ history + n # Absent
  BY SimulationAssumption DEF SimTypes
<1> QED
  BY <1>1 DEF Detected

\* Nothing is reported before a simulation.
LEMMA StartFits == Start \in [pc : {"idle", "detect", "evidence", "report"}, pasted : Nat, preOpen : BOOLEAN,
                              matched : BOOLEAN, observed : Nat \cup {Absent}, late : BOOLEAN] /\ Start.pc = "idle"
  BY DEF Start

\* Production commits, or an analyst does: a simulation that runs is late from then on.
LEMMA CommittedKeeps ==
    ASSUME SimInv, Committed, history' \in Nat, open' \in BOOLEAN
    PROVE  SimInv'
<1>1. CASE sim.pc = "idle"
  BY <1>1 DEF SimInv, SimTypes, StillBelow, ExplanationIsHonest, Committed
<1>2. CASE sim.pc # "idle"
  <2>1. /\ sim'.late = TRUE /\ sim'.pc = sim.pc /\ sim'.matched = sim.matched
        /\ sim' \in [pc : {"idle", "detect", "evidence", "report"}, pasted : Nat, preOpen : BOOLEAN,
                     matched : BOOLEAN, observed : Nat \cup {Absent}, late : BOOLEAN]
    BY <1>2 DEF SimInv, SimTypes, Committed
  <2> QED
    BY <2>1 DEF SimInv, SimTypes, StillBelow, ExplanationIsHonest
<1> QED
  BY <1>1, <1>2

LEMMA DetectKeeps == ASSUME SimInv, Detect PROVE SimInv'
<1>1. PICK seen : seen = Detected(sim.pasted, Threshold)
  OBVIOUS
<1>2. sim.pasted \in Nat
  BY DEF SimInv, SimTypes
<1>3. /\ seen \in Nat \cup {Absent}
      /\ seen = Absent => open \/ history + sim.pasted < Threshold
  BY <1>1, <1>2, SimulationAssumption, DetectedSays DEF SimInv
<1>4. PICK next \in {"report", "evidence"} :
         /\ sim' = [sim EXCEPT !.pc = next, !.matched = seen # Absent, !.observed = seen, !.late = FALSE]
         /\ next = "evidence" => seen = Absent
         /\ history' = history /\ open' = open
  BY <1>1 DEF Detect
<1>5. /\ sim'.pc = next /\ sim'.pasted = sim.pasted /\ sim'.observed = seen /\ sim'.matched = (seen # Absent)
      /\ sim' \in [pc : {"idle", "detect", "evidence", "report"}, pasted : Nat, preOpen : BOOLEAN,
                   matched : BOOLEAN, observed : Nat \cup {Absent}, late : BOOLEAN]
  BY <1>3, <1>4 DEF SimInv, SimTypes
<1> QED
  BY <1>3, <1>4, <1>5 DEF SimInv, SimTypes, StillBelow, ExplanationIsHonest

\* The second run of the detector sees what the first saw, or is late.
LEMMA LowerThresholdKeeps == ASSUME SimInv, LowerThreshold PROVE SimInv'
<1>1. PICK seen : seen = Evidence(sim.pasted)
  OBVIOUS
<1>2. sim.pasted \in Nat /\ StillBelow /\ sim.pc = "evidence"
  BY DEF LowerThreshold, SimInv, SimTypes
<1>3. seen \in Nat \cup {Absent} /\ (seen # Absent => ~open /\ seen = history + sim.pasted)
  BY <1>1, <1>2, DetectedSays DEF SimInv, Evidence
<1>4. sim' = [sim EXCEPT !.pc = "report", !.observed = seen] /\ history' = history /\ open' = open
  BY <1>1 DEF LowerThreshold
<1>5. /\ sim'.pc = "report" /\ sim'.observed = seen /\ sim'.late = sim.late
      /\ sim' \in [pc : {"idle", "detect", "evidence", "report"}, pasted : Nat, preOpen : BOOLEAN,
                   matched : BOOLEAN, observed : Nat \cup {Absent}, late : BOOLEAN]
  BY <1>3, <1>4 DEF SimInv, SimTypes
<1>6. seen # Absent => seen < Threshold \/ sim.late
  <2>1. history \in Nat /\ open \in BOOLEAN
    BY DEF SimInv, SimTypes
  <2> QED
    BY <1>2, <1>3, <2>1 DEF StillBelow
<1>7. ExplanationIsHonest'
  BY <1>5, <1>6 DEF ExplanationIsHonest
<1>8. SimTypes'
  BY <1>4, <1>5 DEF SimInv, SimTypes
<1> QED
  BY <1>5, <1>7, <1>8 DEF SimInv

LEMMA SimBegins == SimInit => SimInv
<1> SUFFICES ASSUME SimInit PROVE SimInv
  OBVIOUS
<1>1. history = 0 /\ open = FALSE /\ sim = Start
  BY DEF SimInit
<1>2. SimTypes /\ sim.pc = "idle"
  BY <1>1, StartFits DEF SimTypes
<1> QED
  BY <1>2 DEF SimInv, ExplanationIsHonest

LEMMA SimStep == SimInv /\ [SimNext]_simVars => SimInv'
<1> SUFFICES ASSUME SimInv, [SimNext]_simVars PROVE SimInv'
  OBVIOUS
<1>0. history \in Nat /\ open \in BOOLEAN /\ Threshold \in Nat
  BY SimulationAssumption DEF SimInv, SimTypes
<1>1. ASSUME NEW n \in 1 .. Threshold, Precheck(n) PROVE SimInv'
  <2>1. sim' = [Start EXCEPT !.pc = "detect", !.pasted = n, !.preOpen = open] /\ history' = history /\ open' = open
    BY <1>1 DEF Precheck
  <2>2. sim'.pc = "detect" /\ sim' \in [pc : {"idle", "detect", "evidence", "report"}, pasted : Nat, preOpen : BOOLEAN,
                                        matched : BOOLEAN, observed : Nat \cup {Absent}, late : BOOLEAN]
    <3>1. n \in Nat
      BY <1>0
    <3> QED
      BY <1>0, <2>1, <3>1, StartFits
  <2> QED
    BY <1>0, <2>1, <2>2 DEF SimInv, SimTypes, ExplanationIsHonest
<1>2. CASE Rollback
  <2>1. sim' = Start /\ history' = history /\ open' = open
    BY <1>2 DEF Rollback
  <2> QED
    BY <1>0, <2>1, StartFits DEF SimInv, SimTypes, ExplanationIsHonest
<1>3. CASE IngestEvent
  BY <1>0, <1>3, CommittedKeeps DEF IngestEvent
<1>4. CASE Expire
  BY <1>0, <1>4, CommittedKeeps DEF Expire
<1>5. CASE ResolveAlert
  BY <1>0, <1>5, CommittedKeeps DEF ResolveAlert
<1>6. CASE UNCHANGED simVars
  BY <1>6 DEF simVars, SimInv, SimTypes, StillBelow, ExplanationIsHonest
<1> QED
  BY <1>1, <1>2, <1>3, <1>4, <1>5, <1>6, DetectKeeps, LowerThresholdKeeps DEF SimNext

\* A simulation of a production rule that reports no match reports a value below the rule's
\* threshold, whatever the threshold, unless production committed between the two runs of the detector.
THEOREM ExplanationsAreHonest == SimSpec => []ExplanationIsHonest
<1>1. SimInv => ExplanationIsHonest
  BY DEF SimInv
<1> QED
  BY <1>1, SimBegins, SimStep, PTL DEF SimSpec
=============================================================================
