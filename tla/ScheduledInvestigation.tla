----------------------- MODULE ScheduledInvestigation -----------------------
(***************************************************************************)
(* What a briefing worker does inside a run                                *)
(* (core/ai/soc_briefing_investigation_engine.py): the candidates of the   *)
(* window, the ones left out because a recent run reported them, the read  *)
(* tools under their budgets, the synthesis with its one repair, the       *)
(* sections that are stored and the numbered steps of the run.             *)
(*                                                                         *)
(* A run is one transaction of its worker, so its rows appear together in  *)
(* reports and a lost worker leaves none.  Time is counted in ticks; the   *)
(* window n covers the ticks n - 1 and n.  A fingerprint is a token, an    *)
(* item of a section is plain, internal (it uses a term analysts are not   *)
(* shown) or blank.                                                        *)
(***************************************************************************)
EXTENDS Naturals, Sequences, FiniteSets, SequencesExt, TLC

CONSTANTS
    Workers,
    Subjects,       \* entity -> its type, severity and whether its label is internal
    Prints,         \* fingerprints an alert or an incident can have
    Modes,          \* gateway configurations, or a prompt beyond the token budget ("oversized")
    Replies,        \* what the gateway may return: kind, paid and the sections
    Sections,       \* BRIEFING_SECTIONS
    MaxEntities,    \* max_entities of the budget
    MaxCalls,       \* max_tool_calls of the budget
    CallCap,        \* DEFAULT_MAX_TOOL_CALLS, the executor's own bound
    Horizon,        \* dedup_horizon_hours
    MaxTime, MaxChanges,    \* bounds: ticks and changes of entities
    None

VARIABLES
    tick,
    entity,         \* entity -> [open, first, last, print]
    changes,
    engine,         \* worker -> its run so far
    reports         \* the committed runs, in the order of their commits

engineVars == <<tick, entity, changes, engine, reports>>

Ids == DOMAIN Subjects
Type(e) == Subjects[e].type

\* The order of the final cut: by entity type, then by id; severity plays no part.
TypeRank == [alert |-> 1, incident |-> 2, indicator |-> 3, recon_activity |-> 4]

Severity(e) == Subjects[e].severity

Idle == [at |-> "idle"]

Init ==
    /\ tick = 1
    /\ entity = [e \in Ids |-> [open |-> TRUE, first |-> 0, last |-> 0, print |-> CHOOSE p \in Prints : TRUE]]
    /\ changes = 0
    /\ engine = [k \in Workers |-> Idle]
    /\ reports = <<>>

-----------------------------------------------------------------------------
(* The candidates of a window and the runs that came before. *)

\* Which rows the four queries find: alerts created in the window,
AlertIn(x, n) == x.first >= n - 1 /\ x.first <= n

\* incidents that are open or ended late enough,
IncidentIn(x, n) == x.open \/ (x.first <= n /\ x.last + Horizon >= n)

\* open activity seen since the window began,
ReconIn(x, n) == x.open /\ x.last >= n - 1 /\ x.first <= n

\* and indicators that are watched, of whatever age.
IndicatorIn(x, n) == x.open /\ x.last <= n

InWindow(e, n) ==
    CASE Type(e) = "alert" -> AlertIn(entity[e], n)
      [] Type(e) = "incident" -> IncidentIn(entity[e], n)
      [] Type(e) = "recon_activity" -> ReconIn(entity[e], n)
      [] OTHER -> IndicatorIn(entity[e], n)

\* The fingerprint of a row: activity and indicators carry the time of their last change.
Fingerprint(e) == IF Type(e) \in {"alert", "incident"} THEN entity[e].print ELSE ToString(entity[e].last)

\* The order of the cut: by entity type, then by id.
Before(a, b) == TypeRank[Type(a)] < TypeRank[Type(b)] \/ (Type(a) = Type(b) /\ a < b)
\* The n-th of a set in an order: n - 1 of it are less.
PlaceOf(n, set, Less(_, _)) == CHOOSE x \in set : Cardinality({y \in set : Less(y, x)}) = n - 1

\* plan_investigation_candidates: the ordered candidates, each with the fingerprint read.
Candidates(n) ==
    LET found == {e \in Ids : InWindow(e, n)}
        entry(e) == [id |-> e, print |-> Fingerprint(e)] IN
    [i \in 1 .. Cardinality(found) |-> entry(PlaceOf(i, found, Before))]

\* The entries of a list at some of its places, in their order.
Where(s, places) == [n \in 1 .. Cardinality(places) |-> s[PlaceOf(n, places, LAMBDA i, j : i < j)]]

Cut(s, limit) == SubSeq(s, 1, IF Len(s) < limit THEN Len(s) ELSE limit)

Rest(s, limit) == IF Len(s) <= limit THEN <<>> ELSE SubSeq(s, limit + 1, Len(s))

Step(type, status, candidate) == [type |-> type, status |-> status, candidate |-> candidate]

\* create_run_step, for the steps of a list from an index on: a second step under the same
\* index replaces the first.
PutAll(steps, at, list) ==
    [i \in DOMAIN steps \cup at .. at + Len(list) - 1 |-> IF i \in at .. at + Len(list) - 1 THEN list[i - at + 1] ELSE steps[i]]
Put(steps, at, step) == PutAll(steps, at, <<step>>)

\* The results a report recorded for its candidates.
Results(report) == {report.steps[i].candidate : i \in {j \in DOMAIN report.steps :
                        /\ report.steps[j].type = "candidate_result"
                        /\ report.steps[j].status = "success"}}

\* Mutant of Counts: a run that was blocked or failed counts as well.
CountsAnyway(report, n) == report.started < n /\ report.started + Horizon >= n

\* The runs _recent_dedup_fingerprints joins: not failed, and begun within the horizon before the window ended.
Counts(report, n) ==
    /\ report.status \in {"success", "partial"}
    /\ report.started < n /\ report.started + Horizon >= n

\* previous == candidate.fingerprint: rows arrive newest first and a later row overwrites an
\* earlier one, so that the fingerprint of the oldest run is the one compared.
Known(c, n) ==
    LET runs == {i \in DOMAIN reports : Counts(reports[i], n) /\ \E d \in Results(reports[i]) : d.id = c.id}
        oldest == CHOOSE i \in runs : \A j \in runs : reports[i].started < reports[j].started
                                            \/ (reports[i].started = reports[j].started /\ i <= j) IN
    runs # {} /\ (CHOOSE d \in Results(reports[oldest]) : d.id = c.id).print = c.print

-----------------------------------------------------------------------------
(* The run. *)

\* run_scheduled_investigation up to the collection of evidence.
Plan(k, n) ==
    LET candidates == Candidates(n)
        kept == Cut(candidates, MaxEntities)
        repeated == {i \in DOMAIN kept : Known(kept[i], n)}
        known == Where(kept, repeated)
        selected == Where(kept, DOMAIN kept \ repeated)
        start == Put(Put(<<>>, 0, Step("runtime_investigation_start", "success", None)), 1, Step("investigation_plan", "success", None)) IN
    /\ engine[k].at = "idle"
    /\ n <= tick
    /\ \A i \in DOMAIN reports : reports[i].window # n
    /\ \A j \in Workers : engine[j].at # "idle" => engine[j].window # n
    /\ engine' = [engine EXCEPT ![k] =
           [at |-> "planned", window |-> n, started |-> tick, selected |-> selected,
            skipped |-> known, over |-> Rest(candidates, MaxEntities), calls |-> 0, refs |-> {},
            steps |-> PutAll(start, 2, [i \in DOMAIN known |-> Step("candidate_result", "skipped", known[i])]),
            next |-> 2 + Len(known)]]
    /\ UNCHANGED <<tick, entity, changes, reports>>

\* The read calls of the selected candidates: an alert needs its detail and its events.
PlannedCalls(selected) ==
    LET reads == {r \in (DOMAIN selected) \X {1, 2} : r[2] = 2 => Type(selected[r[1]].id) = "alert"}
        Sooner(r, q) == r[1] < q[1] \/ (r[1] = q[1] /\ r[2] < q[2]) IN
    [n \in 1 .. Cardinality(reads) |-> selected[PlaceOf(n, reads, Sooner)[1]]]

\* _execute_evidence_tools: a step per validated call and, behind them, a step per executed
\* one; the executor stops at its own cap.  The caller goes on behind the validated ones only.
Collect(k, failing) ==
    LET run == engine[k]
        planned == Cut(PlannedCalls(run.selected), MaxCalls)
        executed == Cut(planned, CallCap)
        validated == [i \in DOMAIN planned |-> Step("soc_read_tool_validation", "success", planned[i])]
        done == [i \in DOMAIN executed |-> Step("soc_read_tool", IF i \in failing THEN "partial" ELSE "success", executed[i])] IN
    /\ run.at = "planned"
    /\ failing \subseteq DOMAIN executed
    /\ engine' = [engine EXCEPT ![k] =
           IF run.selected = <<>>
           THEN [run EXCEPT !.at = "collected", !.next = @ + 1,
                            !.steps = Put(@, run.next, Step("evidence_collection", "skipped", None))]
           ELSE [run EXCEPT !.at = "collected", !.next = @ + Len(planned), !.calls = Len(executed),
                            !.refs = {executed[i].id : i \in DOMAIN executed \ failing},
                            !.steps = PutAll(PutAll(@, run.next, validated), run.next + Len(planned), done)]]
    /\ UNCHANGED <<tick, entity, changes, reports>>

-----------------------------------------------------------------------------
(* The content of the briefing. *)

Label(e) == IF Subjects[e].internal THEN "internal" ELSE "plain"

\* _deterministic_sections: what each section holds without a model.
Deterministic(section, selected, skipped, refs) ==
    LET about(s) == [i \in DOMAIN s |-> Label(s[i].id)]
        some == CASE section = "alerts_reviewed" -> about(selected)
                  [] section = "dismissed_low_priority_findings" -> about(skipped)
                  [] section = "escalations" -> about(SelectSeq(selected, LAMBDA c : Severity(c.id) \in {"critical", "high"}))
                  [] section = "critical_findings" -> about(SelectSeq(selected, LAMBDA c : Severity(c.id) = "critical"))
                  [] OTHER -> IF refs = {} THEN <<>> ELSE <<"plain">> IN
    IF some = <<>> THEN <<"plain">> ELSE some

Shown(items) == SelectSeq(items, LAMBDA i : i = "plain")

\* _normalize_section_items: the items that can be shown, else those of the fallback, else a
\* fixed sentence of the section.
Normalized(items, fallback) ==
    LET given == Shown(IF items = <<>> THEN fallback ELSE items) IN
    IF given # <<>> THEN given ELSE IF Shown(fallback) # <<>> THEN Shown(fallback) ELSE <<"plain">>

\* _ensure_sections, over the sections a valid reply carries or over none.
Ensured(given, run) ==
    [s \in Sections |-> LET base == Deterministic(s, run.selected, run.skipped, run.refs) IN
                        Normalized(IF given = None THEN base ELSE given[s], base)]

\* _gateway_block: configurations under which no call is made.
Blocked(mode) ==
    CASE mode = "invalid" -> "failed"
      [] mode \in {"disabled", "local_unconfigured", "ask_before_paid"} -> "blocked"
      [] OTHER -> None

\* _synthesize_briefing: the status of the run and the sections of the reply that is used.
\* An unusable reply is repaired once; a paid one, or a paid repair, is never used.
Synthesis(mode, reply, repair) ==
    LET Ended(status, sections) == [status |-> status, given |-> sections] IN
    IF mode = "oversized" THEN Ended("partial", None)
    ELSE IF Blocked(mode) # None THEN Ended(Blocked(mode), None)
    ELSE IF reply.paid THEN Ended("blocked", None)
    ELSE IF reply.kind = "unavailable" THEN Ended("blocked", None)
    ELSE IF reply.kind \in {"timeout", "failed"} THEN Ended("partial", None)
    ELSE IF reply.kind = "valid" THEN Ended("success", reply.sections)
    ELSE IF repair.kind \notin {"valid", "malformed"} THEN Ended("partial", None)
    ELSE IF repair.paid THEN Ended("blocked", None)
    ELSE IF repair.kind = "valid" THEN Ended("success", repair.sections)
    ELSE Ended("partial", None)

Report(run, status, steps, sections) ==
    [window |-> run.window, started |-> run.started, status |-> status, steps |-> steps, calls |-> run.calls,
     selected |-> run.selected, skipped |-> run.skipped, sections |-> sections]

\* The rest of run_scheduled_investigation and of _process_job, to the commit.
Finish(k, mode, reply, repair) ==
    LET run == engine[k]
        results == [i \in DOMAIN run.selected |-> Step("candidate_result", "success", run.selected[i])]
        synthesis == Synthesis(mode, reply, repair)
        last == <<Step("ai_synthesis", synthesis.status, None), Step("briefing_persisted", "success", None)>> IN
    /\ run.at = "collected"
    /\ reports' = Append(reports, Report(run, synthesis.status, PutAll(run.steps, run.next, results \o last),
                                         Ensured(synthesis.given, run)))
    /\ engine' = [engine EXCEPT ![k] = Idle]
    /\ UNCHANGED <<tick, entity, changes>>

\* _budget_exhausted: the deadline passed before the tools; a partial briefing without results.
Exhaust(k) ==
    LET run == engine[k]
        empty == [run EXCEPT !.selected = <<>>, !.skipped = <<>>, !.refs = {c.id : c \in Range(run.selected)}] IN
    /\ run.at = "planned" /\ run.selected # <<>>
    /\ reports' = Append(reports, Report(run, "partial", Put(run.steps, 98, Step("budget_guard", "partial", None)),
                                         [s \in Sections |-> Deterministic(s, empty.selected, empty.skipped, empty.refs)]))
    /\ engine' = [engine EXCEPT ![k] = Idle]
    /\ UNCHANGED <<tick, entity, changes>>

\* The worker dies or a statement fails: nothing of the run is kept.
Lose(k) ==
    /\ engine[k].at # "idle"
    /\ engine' = [engine EXCEPT ![k] = Idle]
    /\ UNCHANGED <<tick, entity, changes, reports>>

-----------------------------------------------------------------------------
(* The world around it: time passes, and rows are updated and closed. *)

Pass == tick < MaxTime /\ tick' = tick + 1 /\ UNCHANGED <<entity, changes, engine, reports>>

Update(e, p, open) ==
    /\ changes < MaxChanges
    /\ changes' = changes + 1
    /\ entity' = [entity EXCEPT ![e] = [@ EXCEPT !.last = tick, !.print = p, !.open = open]]
    /\ UNCHANGED <<tick, engine, reports>>

Next ==
    \/ Pass
    \/ \E e \in Ids, p \in Prints, open \in BOOLEAN : Update(e, p, open)
    \/ \E k \in Workers, n \in 1 .. MaxTime : Plan(k, n)
    \/ \E k \in Workers, failing \in SUBSET (1 .. CallCap) : Collect(k, failing)
    \/ \E k \in Workers, m \in Modes, reply, repair \in Replies : Finish(k, m, reply, repair)
    \/ \E k \in Workers : Exhaust(k) \/ Lose(k)

Spec == Init /\ [][Next]_engineVars

-----------------------------------------------------------------------------
(* Properties. *)

\* A candidate is left out of a briefing only when an earlier run that ended well, within the
\* horizon, recorded it with the very fingerprint it has now: nothing an analyst has not been
\* told is suppressed as a duplicate.
SkippedWasReported ==
    \A i \in DOMAIN reports : \A c \in Range(reports[i].skipped) :
        \E j \in 1 .. i - 1 : /\ reports[j].status \in {"success", "partial"}
                              /\ reports[j].started < reports[i].window
                              /\ reports[j].started + Horizon >= reports[i].window
                              /\ c \in Range(reports[j].selected)

\* A candidate that changed since the last investigation of it is investigated again: what is
\* left out as a duplicate has the fingerprint of the latest run that reported it.
NewEvidenceIsInvestigated ==
    \A i \in DOMAIN reports : \A c \in Range(reports[i].skipped) :
        LET before == {j \in 1 .. i - 1 : /\ Counts(reports[j], reports[i].window)
                                          /\ \E d \in Results(reports[j]) : d.id = c.id} IN
        \E j \in before : /\ c \in Results(reports[j])
                          /\ \A l \in before : reports[l].started <= reports[j].started
=============================================================================
