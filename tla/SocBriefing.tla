---------------------------- MODULE SocBriefing ----------------------------
(***************************************************************************)
(* SOC briefings: the schedule and its windows, the run-now requests and    *)
(* the one-shot workers of core/ai/soc_briefing_worker.py over the tables   *)
(* of core/ai/soc_briefing_runtime_store.py.                                *)
(*                                                                          *)
(* Time is counted in ticks, and due times lie Cadence apart.  A worker     *)
(* names itself anew at every start, so a job whose worker died belongs to  *)
(* Gone.  The investigation is one transaction from the insert of its run   *)
(* to the commit; the foreign key of that insert keeps a share lock on the  *)
(* job's row, which FOR UPDATE SKIP LOCKED passes over.  The worker never   *)
(* renews its lease (heartbeat_job_lease has no caller).                    *)
(***************************************************************************)
EXTENDS Integers, FiniteSets, SequencesExt

CONSTANTS
    Workers,
    Requests,        \* run-now requests
    Cadence,         \* the schedule's policy: cadence_minutes,
    Policies,        \*   catch_up_enabled and coalesce_missed_windows (some of AllPolicies),
    MaxCatchUp,      \*   max_catch_up_windows
    Lookback,        \*   and max_lookback_hours, in ticks
    MaxAttempts,     \* max_attempts of a scheduled job
    Outcomes,        \* how an investigation may end
    Start,           \* bounds: where the clock starts and ends, and the workers' deaths
    MaxTime,
    MaxDeaths,
    Nobody, Gone     \* no worker; a worker that died

\* No catch-up, a window for each missed due time, or one window over all of them.
AllPolicies == {"newest", "each", "coalesce"}

ASSUME PolicyAssumption ==
    /\ Policies \subseteq AllPolicies
    /\ Cadence \in Nat \ {0} /\ MaxCatchUp \in Nat \ {0} /\ Lookback \in Nat \ {0}
    /\ MaxAttempts \in Nat \ {0}
ASSUME BoundsAssumption == MaxTime \in Nat /\ Start \in 0 .. MaxTime /\ MaxDeaths \in Nat
ASSUME OutcomesAssumption == Outcomes \subseteq {"success", "partial", "blocked", "failed"}
ASSUME NamesAssumption == Nobody \notin Workers /\ Gone \notin Workers /\ Nobody # Gone

VARIABLES
    now,
    policy,       \* the schedule without catch-up, with a window each, or coalescing them
    due,          \* next_due_at
    window,       \* window -> its status, for the rows there are
    job,          \* window -> its job, for the rows there are
    order,        \* the jobs in the order of their insertion
    runs,         \* window -> statuses of its committed runs, oldest first
    worker,       \* worker -> where it stands
    asked,        \* run-now request -> where it stands
    deaths

vars == <<now, policy, due, window, job, order, runs, worker, asked, deaths>>

Closed == Outcomes \cup {"success", "blocked", "failed", "interrupted"}

Scheduled(from, to) == [kind |-> "scheduled", from |-> from, to |-> to]
Manual(r) == [kind |-> "manual", from |-> r, to |-> r]

Jobs == [status : {"pending", "running"} \cup Closed, attempts : Nat, limit : Nat,
         owner : Workers \cup {Nobody, Gone}, stale : BOOLEAN]

\* Where a worker stands: recovered stale jobs; read the schedule; claims jobs; claimed one;
\* investigates it.  kept: the job was still its own when the investigation began.
Idle == [at |-> "idle", due |-> 0, window |-> Nobody, kept |-> FALSE]

Places == {"idle", "recovered", "read", "claiming", "claimed", "investigating"}

TypeOK ==
    /\ now \in 0 .. MaxTime /\ due \in Int /\ policy \in Policies
    /\ DOMAIN job \subseteq DOMAIN window
    /\ \A w \in DOMAIN window : window[w] \in {"queued", "skipped", "failed"} \cup Outcomes
    /\ \A w \in DOMAIN job : job[w] \in Jobs /\ job[w].attempts <= job[w].limit
    /\ DOMAIN runs = DOMAIN job /\ \A w \in DOMAIN job : runs[w] \in Seq(Outcomes)
    /\ worker \in [Workers -> [at : Places, due : Int, window : DOMAIN job \cup {Nobody}, kept : BOOLEAN]]
    /\ asked \in [Requests -> {"new", "none_active", "done"}]
    /\ deaths \in 0 .. MaxDeaths

-----------------------------------------------------------------------------
\* materialize_due_schedule: the due times it meets when it runs at time t having read d.

Met(d, t) == {e \in d .. t : (e - d) % Cadence = 0}
Recent(d, t) == {e \in Met(d, t) : e >= t - Lookback}

\* The newest n of a set of times.
Newest(n, S) == {e \in S : Cardinality({f \in S : f >= e}) <= n}

\* The due times that get a window to investigate.
Selected(d, t) == Newest(IF policy = "newest" THEN 1 ELSE MaxCatchUp, Recent(d, t))

Oldest(S) == CHOOSE e \in S : \A f \in S : e <= f
Latest(S) == CHOOSE e \in S : \A f \in S : f <= e

\* One window over all of them when there were too many and they coalesce, else one each.
Runnable(d, t) ==
    IF policy = "coalesce" /\ Selected(d, t) # Recent(d, t)
    THEN {Scheduled(Oldest(Selected(d, t)) - Cadence, Latest(Selected(d, t)))}
    ELSE {Scheduled(e - Cadence, e) : e \in Selected(d, t)}

\* The row _create_skipped_window leaves for the due times passed over.
SkippedRows(d, t) ==
    LET from == t - Lookback
        to == IF Oldest(Recent(d, t)) <= from THEN from + 1 ELSE Oldest(Recent(d, t))
    IN  IF Selected(d, t) = Recent(d, t) THEN {} ELSE {Scheduled(from, to)}

\* The first due time after t.
NextDue(d, t) == d + Cadence * ((t - d) \div Cadence + 1)

-----------------------------------------------------------------------------
\* Rows.

\* create_or_get_window: rows already there stay as they are.
WithWindows(rows, status) ==
    [w \in DOMAIN window \cup rows |-> IF w \in DOMAIN window THEN window[w] ELSE status]

NewJob(limit) == [status |-> "pending", attempts |-> 0, limit |-> limit,
                  owner |-> Nobody, stale |-> FALSE]

\* create_or_get_job for each of the windows, oldest first.
InsertJobs(new, limit) ==
    /\ job' = [w \in DOMAIN job \cup new |-> IF w \in DOMAIN job THEN job[w] ELSE NewJob(limit)]
    /\ runs' = [w \in DOMAIN job \cup new |-> IF w \in DOMAIN job THEN runs[w] ELSE <<>>]
    /\ order' = order \o SetToSortSeq(new \ DOMAIN job, LAMBDA v, w : v.to < w.to)

Released(w, status) == [job[w] EXCEPT !.status = status, !.owner = Nobody, !.stale = FALSE]

\* An investigation's transaction is open on the job.
Locked(w) == \E k \in Workers : worker[k].at = "investigating" /\ worker[k].window = w

\* Mutant of Recovered: a job whose attempts are used up stays as it is.
RecoveredKept(w) == IF job[w].attempts < job[w].limit THEN Released(w, "pending") ELSE job[w]

\* recover_stale_jobs on one job: a briefing already saved closes it, else it is tried again
\* until its attempts are used up.
Recovered(w) ==
    LET last == IF runs[w] = <<>> THEN "none" ELSE Last(runs[w]) IN
    CASE last \in {"success", "partial"} -> Released(w, "success")
      [] last = "blocked" -> Released(w, "blocked")
      [] OTHER -> Released(w, IF job[w].attempts < job[w].limit THEN "pending" ELSE "failed")

\* claim_next_job passes over locked rows, and takes manual jobs first, then the oldest.
Claimable(w) == job[w].status = "pending" /\ ~Locked(w)
Before(v, w) ==
    \/ v.kind = "manual" /\ w.kind # "manual"
    \/ /\ v.kind = w.kind
       /\ \E i, j \in DOMAIN order : i < j /\ order[i] = v /\ order[j] = w

\* Mutant of Owns: completing a job matches neither its status nor its owner.
OwnsAlways(k) == TRUE

\* complete_job finds the job running for this worker.
Owns(k) == job[worker[k].window].status = "running" /\ job[worker[k].window].owner = k

-----------------------------------------------------------------------------
Init ==
    /\ now = Start /\ due = Cadence /\ deaths = 0
    /\ policy \in Policies
    /\ window = <<>> /\ job = <<>> /\ order = <<>> /\ runs = <<>>
    /\ worker = [k \in Workers |-> Idle]
    /\ asked = [r \in Requests |-> "new"]

rows == <<window, job, order, runs>>
world == <<now, policy, asked>>

\* A worker starts: stale jobs are recovered and committed.
Recover(k) ==
    /\ worker[k].at = "idle"
    /\ worker' = [worker EXCEPT ![k].at = "recovered"]
    /\ job' = [w \in DOMAIN job |-> IF job[w].status = "running" /\ job[w].stale /\ ~Locked(w)
                                    THEN Recovered(w) ELSE job[w]]
    /\ UNCHANGED <<due, window, order, runs, deaths, world>>

\* It reads a schedule that is due.
ReadSchedule(k) ==
    /\ worker[k].at = "recovered" /\ due <= now
    /\ worker' = [worker EXCEPT ![k].at = "read", ![k].due = due]
    /\ UNCHANGED <<due, rows, deaths, world>>

\* Scheduling is off (update_controls may switch mode and pause at any time, so a worker
\* may find it either way), or the schedule is not due.
NothingDue(k) ==
    /\ worker[k].at = "recovered"
    /\ worker' = [worker EXCEPT ![k].at = "claiming"]
    /\ UNCHANGED <<due, rows, deaths, world>>

\* materialize_due_schedule with what was read, and its commit.
Materialize(k) ==
    LET d == worker[k].due IN
    /\ worker[k].at = "read"
    /\ worker' = [worker EXCEPT ![k] = [Idle EXCEPT !.at = "claiming"]]
    /\ window' = [w \in DOMAIN window \cup SkippedRows(d, now) \cup Runnable(d, now) |->
                      IF w \in DOMAIN window THEN window[w]
                      ELSE IF w \in SkippedRows(d, now) THEN "skipped" ELSE "queued"]
    /\ InsertJobs(Runnable(d, now), MaxAttempts)
    /\ due' = NextDue(d, now)
    /\ UNCHANGED <<deaths, world>>

\* claim_next_job and its commit.
Claim(k) ==
    /\ worker[k].at = "claiming"
    /\ \E w \in DOMAIN job :
          /\ Claimable(w) /\ \A v \in DOMAIN job : Claimable(v) => ~Before(v, w)
          /\ job' = [job EXCEPT ![w].status = "running", ![w].owner = k, ![w].stale = FALSE,
                                ![w].attempts = @ + 1]
          /\ worker' = [worker EXCEPT ![k].at = "claimed", ![k].window = w]
    /\ UNCHANGED <<due, window, order, runs, deaths, world>>

\* create_run opens the investigation's transaction.
Begin(k) ==
    /\ worker[k].at = "claimed"
    /\ worker' = [worker EXCEPT ![k].at = "investigating", ![k].kept = Owns(k)]
    /\ UNCHANGED <<due, rows, deaths, world>>

\* The investigation ends and run, briefing, job and window commit together.
Finish(k, outcome) ==
    LET w == worker[k].window IN
    /\ worker[k].at = "investigating" /\ Owns(k)
    /\ runs' = [runs EXCEPT ![w] = Append(@, outcome)]
    /\ job' = [job EXCEPT ![w] = Released(w, outcome)]
    /\ window' = [window EXCEPT ![w] = outcome]
    /\ worker' = [worker EXCEPT ![k] = [Idle EXCEPT !.at = "claiming"]]
    /\ UNCHANGED <<due, order, deaths, world>>

\* The job is no longer its own: complete_job finds no row, the transaction rolls back and
\* the worker ends.
LoseJob(k) ==
    /\ worker[k].at = "investigating" /\ ~Owns(k)
    /\ worker' = [worker EXCEPT ![k] = Idle]
    /\ UNCHANGED <<due, rows, deaths, world>>

\* Nothing to claim, the batch is full, the time is up, or a shutdown was requested: the
\* worker ends.  _interrupt_owned_running_jobs runs after the loop.
Rest(k) ==
    LET owned == {w \in DOMAIN job : job[w].status = "running" /\ job[w].owner = k} IN
    /\ worker[k].at = "claiming"
    /\ worker' = [worker EXCEPT ![k] = Idle]
    /\ job' = [w \in DOMAIN job |-> IF w \in owned THEN Released(w, "interrupted") ELSE job[w]]
    /\ window' = [w \in DOMAIN window |-> IF w \in owned THEN "failed" ELSE window[w]]
    /\ UNCHANGED <<due, order, runs, deaths, world>>

\* An exception or a kill: the open transaction rolls back, a claimed job stays running.
Die(k) ==
    /\ deaths < MaxDeaths /\ worker[k].at # "idle"
    /\ deaths' = deaths + 1
    /\ worker' = [worker EXCEPT ![k] = Idle]
    /\ job' = [w \in DOMAIN job |-> IF job[w].owner = k THEN [job[w] EXCEPT !.owner = Gone] ELSE job[w]]
    /\ UNCHANGED <<due, window, order, runs, world>>

\* lease_expires_at passes.
Expire(w) ==
    /\ job[w].status = "running" /\ ~job[w].stale
    /\ job' = [job EXCEPT ![w].stale = TRUE]
    /\ UNCHANGED <<due, window, order, runs, worker, deaths, world>>

ActiveManual == \E w \in DOMAIN job : w.kind = "manual" /\ job[w].status \in {"pending", "running"}

\* A run-now request: create_manual_briefing_job looks for an active manual job ...
RunNow(r) ==
    /\ asked[r] = "new"
    /\ asked' = [asked EXCEPT ![r] = IF ActiveManual THEN "done" ELSE "none_active"]
    /\ UNCHANGED <<now, policy, due, rows, worker, deaths>>

\* ... and, having found none, inserts its window and job.
CreateManual(r) ==
    /\ asked[r] = "none_active"
    /\ asked' = [asked EXCEPT ![r] = "done"]
    /\ window' = WithWindows({Manual(r)}, "queued")
    /\ InsertJobs({Manual(r)}, 1)
    /\ UNCHANGED <<now, policy, due, worker, deaths>>

Tick ==
    /\ now < MaxTime
    /\ now' = now + 1
    /\ UNCHANGED <<policy, asked, due, rows, worker, deaths>>

\* What a running worker does.
Step(k) ==
    \/ Recover(k) \/ ReadSchedule(k) \/ NothingDue(k) \/ Materialize(k) \/ Claim(k) \/ Begin(k)
    \/ \E outcome \in Outcomes : Finish(k, outcome)
    \/ LoseJob(k) \/ Rest(k)

Next ==
    \/ \E k \in Workers : Step(k) \/ Die(k)
    \/ \E w \in DOMAIN job : Expire(w)
    \/ \E r \in Requests : RunNow(r) \/ CreateManual(r)
    \/ Tick

Spec == Init /\ [][Next]_vars

-----------------------------------------------------------------------------
\* Properties.

\* A run and its briefing are committed exactly when the worker that made them closes the
\* job, and at most once per job (_process_job, complete_job).
OneBriefingPerJob ==
    \A w \in DOMAIN job :
        /\ Len(runs[w]) <= 1
        /\ runs[w] # <<>> => job[w].status = runs[w][1] /\ window[w] = runs[w][1]
        /\ job[w].status \in Closed /\ runs[w] = <<>> => job[w].status = "failed"

\* An investigation begun by the owner of the job ends as its owner, however long it takes
\* and whoever recovers stale leases meanwhile (create_run, recover_stale_jobs).
InvestigationKeepsItsJob ==
    \A k \in Workers : worker[k].at = "investigating" /\ worker[k].kept => Owns(k)

\* The timer starts the worker again and again, a start takes its steps to the end, a job
\* left pending is not passed over for ever, and leases run out.
Fairness ==
    /\ \A k \in Workers : WF_vars(Step(k)) /\ SF_vars(Claim(k))
    /\ WF_vars(\E w \in DOMAIN job : Expire(w))

LiveSpec == Spec /\ Fairness

\* Every job is closed in the end, although workers die, lose their jobs and leases run out
\* (recover_stale_jobs, complete_job).
JobsAreClosed ==
    \A i \in 1 .. (MaxTime \div Cadence) + Cardinality(Requests) :
        (Len(order) >= i) ~> (Len(order) >= i /\ job[order[i]].status \in Closed)
=============================================================================
