------------------------- MODULE SocBriefingProofs -------------------------
(***************************************************************************)
(* Proofs about SocBriefing: an investigation keeps its job and a job is    *)
(* briefed once, for any workers, schedule policy, attempts, outcomes and   *)
(* numbers of deaths.                                                       *)
(***************************************************************************)
EXTENDS SocBriefing, SequenceTheorems, TLAPS

Busy == {"claimed", "investigating"}
WorkerStates == [at : Places, due : Int, window : DOMAIN job \cup {Nobody}, kept : BOOLEAN]

\* A worker with a job has a job that is there.
Held == \A k \in Workers : worker[k].at \in Busy => worker[k].window \in DOMAIN job

\* A worker that owns a running job is at work on it.
Attending ==
    \A w \in DOMAIN job, k \in Workers : job[w].status = "running" /\ job[w].owner = k =>
        worker[k].at \in Busy /\ worker[k].window = w

\* A pending job has attempts left.
Spare == \A w \in DOMAIN job : job[w].status = "pending" => job[w].attempts < job[w].limit

IInv == TypeOK /\ Held /\ Attending /\ Spare /\ OneBriefingPerJob /\ InvestigationKeepsItsJob

RowTypes ==
    /\ DOMAIN job \subseteq DOMAIN window
    /\ \A w \in DOMAIN window : window[w] \in {"queued", "skipped", "failed"} \cup Outcomes
    /\ \A w \in DOMAIN job : job[w] \in Jobs /\ job[w].attempts <= job[w].limit
    /\ DOMAIN runs = DOMAIN job /\ \A w \in DOMAIN job : runs[w] \in Seq(Outcomes)

WorldTypes ==
    /\ now \in 0 .. MaxTime /\ due \in Int /\ policy \in Policies
    /\ asked \in [Requests -> {"new", "none_active", "done"}] /\ deaths \in 0 .. MaxDeaths

\* No row changes.
SameRows ==
    /\ DOMAIN job' = DOMAIN job /\ \A w \in DOMAIN job : job'[w] = job[w]
    /\ DOMAIN window' = DOMAIN window /\ \A w \in DOMAIN window : window'[w] = window[w]
    /\ runs' = runs

LEMMA TypeParts == TypeOK <=> RowTypes /\ WorldTypes /\ worker \in [Workers -> WorkerStates]
  BY DEF TypeOK, RowTypes, WorldTypes, WorkerStates

\* A worker between two jobs.
LEMMA Claiming ==
    /\ [Idle EXCEPT !.at = "claiming"] \in WorkerStates
    /\ [Idle EXCEPT !.at = "claiming"].at = "claiming"
<1>1. Idle \in WorkerStates /\ "claiming" \in Places
  BY DEF Idle, WorkerStates, Places
<1> QED
  BY <1>1 DEF WorkerStates

\* What a job looks like once it is given up.
LEMMA ReleasedJob ==
    ASSUME TypeOK, NEW w \in DOMAIN job, NEW st \in {"pending"} \cup Closed
    PROVE  /\ Released(w, st) \in Jobs /\ Released(w, st).status = st /\ Released(w, st).owner = Nobody
           /\ Released(w, st).attempts = job[w].attempts /\ Released(w, st).limit = job[w].limit
<1>1. job[w] \in Jobs
  BY DEF TypeOK
<1> QED
  BY <1>1 DEF Released, Jobs

\* A running job has no committed run.
LEMMA RunningHasNoRun ==
    ASSUME IInv, NEW w \in DOMAIN job, job[w].status = "running"
    PROVE  runs[w] = <<>>
<1>1. runs[w] \in Seq(Outcomes)
  BY DEF IInv, TypeOK
<1>2. ASSUME runs[w] # <<>> PROVE FALSE
  <2>1. job[w].status = runs[w][1]
    BY <1>2 DEF IInv, OneBriefingPerJob
  <2>2. runs[w][1] \in Outcomes
    BY <1>1, <1>2
  <2> QED
    BY <2>1, <2>2, OutcomesAssumption
<1> QED
  BY <1>2

\* What recovery makes of a running job: it is tried again or has failed.
LEMMA RecoveredJob ==
    ASSUME IInv, NEW w \in DOMAIN job, job[w].status = "running"
    PROVE  /\ Recovered(w) \in Jobs /\ Recovered(w).owner = Nobody
           /\ Recovered(w).attempts = job[w].attempts /\ Recovered(w).limit = job[w].limit
           /\ Recovered(w).status = "failed" \/ (Recovered(w).status = "pending" /\ job[w].attempts < job[w].limit)
<1>1. runs[w] = <<>>
  BY RunningHasNoRun
<1>2. Recovered(w) = Released(w, IF job[w].attempts < job[w].limit THEN "pending" ELSE "failed")
  BY <1>1 DEF Recovered
<1>3. TypeOK /\ "failed" \in Closed
  BY DEF IInv, Closed
<1>4. CASE job[w].attempts < job[w].limit
  BY <1>2, <1>3, <1>4, ReleasedJob
<1>5. CASE ~(job[w].attempts < job[w].limit)
  BY <1>2, <1>3, <1>5, ReleasedJob
<1> QED
  BY <1>4, <1>5

\* Rows and workers stay as they are.
LEMMA RowsStay ==
    ASSUME IInv, UNCHANGED <<window, job, runs, worker>>, WorldTypes'
    PROVE  IInv'
<1>1. RowTypes' /\ worker' \in [Workers -> WorkerStates]'
  BY TypeParts DEF IInv, RowTypes, WorkerStates
<1>2. TypeOK'
  BY <1>1 DEF TypeOK, RowTypes, WorldTypes, WorkerStates
<1>3. Held' /\ Attending' /\ Spare' /\ OneBriefingPerJob' /\ InvestigationKeepsItsJob'
  BY DEF IInv, Held, Attending, Spare, OneBriefingPerJob, InvestigationKeepsItsJob, Owns
<1> QED
  BY <1>2, <1>3 DEF IInv

\* One worker moves without touching a row: to a place without a job, if it owns none there.
LEMMA WorkerMoves ==
    ASSUME IInv, NEW k \in Workers, NEW at \in Places \ Busy, NEW x,
           x \in WorkerStates, x.at = at,
           worker' = [worker EXCEPT ![k] = x],
           \A w \in DOMAIN job : job[w].status = "running" => job[w].owner # k,
           SameRows, WorldTypes'
    PROVE  IInv'
<1>1. worker \in [Workers -> WorkerStates] /\ RowTypes
  BY TypeParts DEF IInv
<1>2. worker'[k] = x /\ \A j \in Workers \ {k} : worker'[j] = worker[j]
  BY <1>1
<1>3. worker' \in [Workers -> WorkerStates]' /\ RowTypes'
  BY <1>1 DEF WorkerStates, RowTypes, SameRows
<1>4. TypeOK'
  BY <1>3 DEF TypeOK, RowTypes, WorldTypes, WorkerStates
<1>5. Held' /\ Spare' /\ OneBriefingPerJob'
  BY <1>1, <1>2 DEF IInv, Held, Spare, OneBriefingPerJob, SameRows, RowTypes
<1>6. Attending'
  BY <1>2 DEF IInv, Attending, SameRows
<1>7. InvestigationKeepsItsJob'
  <2>1. ASSUME NEW j \in Workers, worker'[j].at = "investigating", worker'[j].kept
        PROVE  Owns(j)'
    <3>1. worker'[j] = worker[j]
      BY <1>2, <2>1 DEF Busy
    <3>2. Owns(j) /\ worker[j].window \in DOMAIN job
      BY <2>1, <3>1 DEF IInv, InvestigationKeepsItsJob, Held, Busy
    <3> QED
      BY <3>1, <3>2 DEF Owns, SameRows
  <2> QED
    BY <2>1 DEF InvestigationKeepsItsJob
<1> QED
  BY <1>4, <1>5, <1>6, <1>7 DEF IInv

\* ReadSchedule, NothingDue, LoseJob.
LEMMA WaitingSteps ==
    ASSUME IInv, NEW k \in Workers, ReadSchedule(k) \/ NothingDue(k) \/ LoseJob(k)
    PROVE  IInv'
<1>1. /\ worker \in [Workers -> WorkerStates] /\ WorldTypes /\ worker[k] \in WorkerStates
  BY TypeParts DEF IInv
<1>2. SameRows /\ WorldTypes'
  BY <1>1 DEF ReadSchedule, NothingDue, LoseJob, rows, world, WorldTypes, SameRows
<1>3. ASSUME NEW w \in DOMAIN job, job[w].status = "running", job[w].owner = k PROVE FALSE
  BY <1>3 DEF IInv, Attending, Busy, ReadSchedule, NothingDue, LoseJob, Owns
<1>4. CASE ReadSchedule(k)
  <2> DEFINE x == [worker[k] EXCEPT !.at = "read", !.due = due]
  <2>1. worker' = [worker EXCEPT ![k] = x]
    BY <1>1, <1>4 DEF ReadSchedule
  <2>2. x \in WorkerStates /\ x.at = "read" /\ "read" \in Places \ Busy
    BY <1>1 DEF WorldTypes, WorkerStates, Places, Busy
  <2> HIDE DEF x
  <2> QED
    BY <1>2, <1>3, <2>1, <2>2, WorkerMoves
<1>5. CASE NothingDue(k)
  <2> DEFINE x == [worker[k] EXCEPT !.at = "claiming"]
  <2>1. worker' = [worker EXCEPT ![k] = x]
    BY <1>1, <1>5 DEF NothingDue
  <2>2. x \in WorkerStates /\ x.at = "claiming" /\ "claiming" \in Places \ Busy
    BY <1>1 DEF WorkerStates, Places, Busy
  <2> HIDE DEF x
  <2> QED
    BY <1>2, <1>3, <2>1, <2>2, WorkerMoves
<1>6. CASE LoseJob(k)
  <2>1. worker' = [worker EXCEPT ![k] = Idle]
    BY <1>6 DEF LoseJob
  <2>2. Idle \in WorkerStates /\ Idle.at = "idle" /\ "idle" \in Places \ Busy
    BY DEF WorkerStates, Idle, Places, Busy
  <2> QED
    BY <1>2, <1>3, <2>1, <2>2, WorkerMoves
<1> QED
  BY <1>4, <1>5, <1>6

LEMMA BeginKeeps ==
    ASSUME IInv, NEW k \in Workers, Begin(k)
    PROVE  IInv'
<1>1. /\ worker[k].at = "claimed"
      /\ worker' = [worker EXCEPT ![k].at = "investigating", ![k].kept = Owns(k)]
      /\ UNCHANGED <<now, policy, asked, due, window, job, order, runs, deaths>>
  BY DEF Begin, rows, world
<1>2. /\ worker \in [Workers -> WorkerStates] /\ WorldTypes /\ RowTypes /\ worker[k] \in WorkerStates
  BY TypeParts DEF IInv
<1>3. Owns(k) \in BOOLEAN
  BY DEF Owns
<1>4. /\ worker'[k] = [worker[k] EXCEPT !.at = "investigating", !.kept = Owns(k)]
      /\ \A j \in Workers \ {k} : worker'[j] = worker[j]
  BY <1>1, <1>2
<1>5. /\ worker'[k] \in WorkerStates /\ worker'[k].at = "investigating"
      /\ worker'[k].window = worker[k].window /\ worker'[k].kept = Owns(k)
  BY <1>2, <1>3, <1>4 DEF WorkerStates, Places
<1>6. worker' \in [Workers -> WorkerStates]
  BY <1>1, <1>2, <1>4, <1>5
<1>7. TypeOK'
  BY <1>1, <1>2, <1>6 DEF TypeOK, RowTypes, WorldTypes, WorkerStates
<1>8. Spare' /\ OneBriefingPerJob'
  BY <1>1 DEF IInv, Spare, OneBriefingPerJob
<1>9. \A j \in Workers : worker'[j].window = worker[j].window /\ (worker'[j].at \in Busy <=> worker[j].at \in Busy)
  BY <1>1, <1>4, <1>5 DEF Busy
<1>10. Held' /\ Attending'
  BY <1>1, <1>9 DEF IInv, Held, Attending
<1>11. InvestigationKeepsItsJob'
  <2>1. ASSUME NEW j \in Workers, worker'[j].at = "investigating", worker'[j].kept
        PROVE  Owns(j)
    BY <1>4, <1>5, <2>1 DEF IInv, InvestigationKeepsItsJob
  <2>2. \A j \in Workers : Owns(j) => Owns(j)'
    BY <1>1, <1>9 DEF Owns
  <2> QED
    BY <2>1, <2>2 DEF InvestigationKeepsItsJob
<1> QED
  BY <1>7, <1>8, <1>10, <1>11 DEF IInv

LEMMA RecoverKeeps ==
    ASSUME IInv, NEW k \in Workers, Recover(k)
    PROVE  IInv'
<1>1. /\ worker[k].at = "idle" /\ worker' = [worker EXCEPT ![k].at = "recovered"]
      /\ job' = [w \in DOMAIN job |-> IF job[w].status = "running" /\ job[w].stale /\ ~Locked(w)
                                      THEN Recovered(w) ELSE job[w]]
      /\ UNCHANGED <<now, policy, asked, due, window, order, runs, deaths>>
  BY DEF Recover, world
<1>2. /\ worker \in [Workers -> WorkerStates] /\ WorldTypes /\ RowTypes /\ worker[k] \in WorkerStates
  BY TypeParts DEF IInv
<1>3. DOMAIN job' = DOMAIN job
  BY <1>1
<1>4. /\ worker'[k] = [worker[k] EXCEPT !.at = "recovered"]
      /\ \A j \in Workers \ {k} : worker'[j] = worker[j]
  BY <1>1, <1>2
<1>5. worker'[k] \in WorkerStates /\ worker'[k].at = "recovered"
  BY <1>2, <1>4 DEF WorkerStates, Places
<1>6. worker' \in [Workers -> WorkerStates]
  BY <1>1, <1>2, <1>4, <1>5
<1>7. ASSUME NEW w \in DOMAIN job
      PROVE  \/ job'[w] = job[w]
             \/ /\ job[w].status = "running" /\ ~Locked(w)
                /\ job'[w] \in Jobs /\ job'[w].owner = Nobody
                /\ job'[w].attempts = job[w].attempts /\ job'[w].limit = job[w].limit
                /\ job'[w].status \in {"failed", "pending"}
                /\ job'[w].status = "pending" => job[w].attempts < job[w].limit
  BY <1>1, RecoveredJob
<1>8. TypeOK'
  <2>1. \A w \in DOMAIN job : job'[w] \in Jobs /\ job'[w].attempts <= job'[w].limit
    BY <1>2, <1>7 DEF RowTypes
  <2> QED
    BY <1>1, <1>2, <1>3, <1>6, <2>1 DEF TypeOK, RowTypes, WorldTypes, WorkerStates
<1>9. Held'
  BY <1>3, <1>4, <1>5 DEF IInv, Held, Busy
<1>10. Attending'
  BY <1>1, <1>3, <1>4, <1>5, <1>7, NamesAssumption DEF IInv, Attending, Busy
<1>11. Spare'
  BY <1>3, <1>7 DEF IInv, Spare
<1>12. OneBriefingPerJob'
  <2>1. ASSUME NEW w \in DOMAIN job
        PROVE  /\ Len(runs'[w]) <= 1
               /\ runs'[w] # <<>> => job'[w].status = runs'[w][1] /\ window'[w] = runs'[w][1]
               /\ job'[w].status \in Closed /\ runs'[w] = <<>> => job'[w].status = "failed"
    <3>1. CASE job'[w] = job[w]
      BY <1>1, <3>1 DEF IInv, OneBriefingPerJob
    <3>2. CASE job[w].status = "running" /\ job'[w].status \in {"failed", "pending"}
      <4>1. runs'[w] = <<>> /\ "pending" \notin Closed
        BY <1>1, <3>2, RunningHasNoRun, OutcomesAssumption DEF Closed
      <4> QED
        BY <3>2, <4>1
    <3> QED
      BY <1>7, <3>1, <3>2
  <2> QED
    BY <1>3, <2>1 DEF OneBriefingPerJob
<1>13. InvestigationKeepsItsJob'
  <2>1. ASSUME NEW j \in Workers, worker'[j].at = "investigating", worker'[j].kept
        PROVE  Owns(j)'
    <3>1. j # k /\ worker'[j] = worker[j]
      BY <1>4, <1>5, <2>1
    <3>2. Owns(j) /\ worker[j].window \in DOMAIN job /\ Locked(worker[j].window)
      BY <2>1, <3>1 DEF IInv, InvestigationKeepsItsJob, Held, Busy, Locked
    <3>3. job'[worker[j].window] = job[worker[j].window]
      BY <1>7, <3>2
    <3> QED
      BY <3>1, <3>2, <3>3 DEF Owns
  <2> QED
    BY <2>1 DEF InvestigationKeepsItsJob
<1> QED
  BY <1>8, <1>9, <1>10, <1>11, <1>12, <1>13 DEF IInv

\* New jobs come with new runs lists and leave the rows that are there alone.
LEMMA InsertKeeps ==
    ASSUME IInv, NEW new, NEW limit \in Nat \ {0}, InsertJobs(new, limit),
           new \subseteq DOMAIN window', DOMAIN window \subseteq DOMAIN window',
           \A w \in DOMAIN window : window'[w] = window[w],
           \A w \in DOMAIN window' : window'[w] \in {"queued", "skipped", "failed"} \cup Outcomes
    PROVE  /\ RowTypes' /\ Spare' /\ OneBriefingPerJob'
           /\ DOMAIN job' = DOMAIN job \cup new
           /\ \A w \in DOMAIN job : job'[w] = job[w]
           /\ \A w \in DOMAIN job' \ DOMAIN job : job'[w].status = "pending"
<1>1. /\ DOMAIN job' = DOMAIN job \cup new /\ DOMAIN runs' = DOMAIN job'
      /\ \A w \in DOMAIN job : job'[w] = job[w] /\ runs'[w] = runs[w]
      /\ \A w \in new \ DOMAIN job : job'[w] = NewJob(limit) /\ runs'[w] = <<>>
  BY DEF InsertJobs
<1>2. RowTypes
  BY TypeParts DEF IInv
<1>3. /\ NewJob(limit) \in Jobs /\ NewJob(limit).attempts = 0 /\ NewJob(limit).limit = limit
      /\ NewJob(limit).status = "pending"
  BY DEF NewJob, Jobs
<1>4. \A w \in DOMAIN job' : job'[w] \in Jobs /\ job'[w].attempts <= job'[w].limit
  BY <1>1, <1>2, <1>3 DEF RowTypes
<1>5. \A w \in DOMAIN job' : runs'[w] \in Seq(Outcomes)
  <2>1. <<>> \in Seq(Outcomes)
    BY EmptySeq
  <2>2. \A w \in DOMAIN job : runs'[w] \in Seq(Outcomes)
    BY <1>1, <1>2 DEF RowTypes
  <2> QED
    BY <1>1, <2>1, <2>2
<1>6. RowTypes'
  BY <1>1, <1>2, <1>4, <1>5 DEF RowTypes
<1>7. Spare'
  BY <1>1, <1>3 DEF IInv, Spare
<1>8. "pending" \notin Closed
  BY OutcomesAssumption DEF Closed
<1>9. OneBriefingPerJob'
  <2>1. ASSUME NEW w \in DOMAIN job'
        PROVE  /\ Len(runs'[w]) <= 1
               /\ runs'[w] # <<>> => job'[w].status = runs'[w][1] /\ window'[w] = runs'[w][1]
               /\ job'[w].status \in Closed /\ runs'[w] = <<>> => job'[w].status = "failed"
    <3>1. CASE w \in DOMAIN job
      BY <1>1, <1>2, <3>1 DEF IInv, OneBriefingPerJob, RowTypes
    <3>2. CASE w \notin DOMAIN job
      <4>1. runs'[w] = <<>> /\ job'[w].status = "pending"
        BY <1>1, <1>3, <3>2
      <4> QED
        BY <1>8, <4>1
    <3> QED
      BY <3>1, <3>2
  <2> QED
    BY <2>1 DEF OneBriefingPerJob
<1> QED
  BY <1>1, <1>3, <1>6, <1>7, <1>9
\* The workers of the jobs that are there keep theirs when jobs are added, and worker k, who
\* owned none, goes on or ends.
LEMMA AddedJobs ==
    ASSUME IInv, NEW k \in Workers, NEW x,
           worker' = worker \/ (worker' = [worker EXCEPT ![k] = x] /\ worker[k].at \notin Busy),
           x \in WorkerStates, x.at \notin Busy,
           RowTypes', WorldTypes', Spare', OneBriefingPerJob',
           DOMAIN job \subseteq DOMAIN job', \A w \in DOMAIN job : job'[w] = job[w],
           \A w \in DOMAIN job' \ DOMAIN job : job'[w].status = "pending"
    PROVE  IInv'
<1>1. worker \in [Workers -> WorkerStates]
  BY TypeParts DEF IInv
<1>2. worker' \in [Workers -> WorkerStates]
  BY <1>1
<1>3. worker' \in [Workers -> WorkerStates']
  <2>1. WorkerStates \subseteq WorkerStates'
    BY DEF WorkerStates
  <2> QED
    BY <1>2, <2>1
<1>4. TypeOK'
  BY <1>3 DEF TypeOK, RowTypes, WorldTypes, WorkerStates
<1>5. \A j \in Workers : \/ worker'[j] = worker[j]
                         \/ j = k /\ worker[j].at \notin Busy /\ worker'[j].at \notin Busy
  BY <1>1
<1>6. Held'
  BY <1>5 DEF IInv, Held
<1>7. Attending'
  <2>1. ASSUME NEW w \in DOMAIN job', NEW j \in Workers, job'[w].status = "running", job'[w].owner = j
        PROVE  worker'[j].at \in Busy /\ worker'[j].window = w
    <3>1. w \in DOMAIN job /\ job'[w] = job[w]
      BY <2>1
    <3>2. worker[j].at \in Busy /\ worker[j].window = w
      BY <2>1, <3>1 DEF IInv, Attending
    <3> QED
      BY <1>5, <3>2
  <2> QED
    BY <2>1 DEF Attending
<1>8. InvestigationKeepsItsJob'
  <2>1. ASSUME NEW j \in Workers, worker'[j].at = "investigating", worker'[j].kept
        PROVE  Owns(j)'
    <3>1. worker'[j] = worker[j]
      BY <1>5, <2>1 DEF Busy
    <3>2. Owns(j) /\ worker[j].window \in DOMAIN job
      BY <2>1, <3>1 DEF IInv, InvestigationKeepsItsJob, Held, Busy
    <3> QED
      BY <3>1, <3>2 DEF Owns
  <2> QED
    BY <2>1 DEF InvestigationKeepsItsJob
<1> QED
  BY <1>4, <1>6, <1>7, <1>8 DEF IInv

LEMMA MaterializeKeeps ==
    ASSUME IInv, NEW k \in Workers, Materialize(k)
    PROVE  IInv'
<1> DEFINE d == worker[k].due
           x == [Idle EXCEPT !.at = "claiming"]
           skipped == SkippedRows(d, now)
           runnable == Runnable(d, now)
<1>1. /\ worker[k].at = "read" /\ worker' = [worker EXCEPT ![k] = x]
      /\ window' = [w \in DOMAIN window \cup skipped \cup runnable |->
                       IF w \in DOMAIN window THEN window[w]
                       ELSE IF w \in skipped THEN "skipped" ELSE "queued"]
      /\ InsertJobs(runnable, MaxAttempts)
      /\ due' = NextDue(d, now) /\ UNCHANGED <<now, policy, asked, deaths>>
  BY DEF Materialize, world
<1>2. worker[k] \in WorkerStates /\ WorldTypes /\ RowTypes
  BY TypeParts DEF IInv
<1>3. x \in WorkerStates /\ x.at = "claiming"
  BY Claiming
<1>4. WorldTypes'
  <2>1. d \in Int /\ now \in Int /\ Cadence \in Int /\ Cadence > 0
    BY <1>2, PolicyAssumption, BoundsAssumption DEF WorkerStates, WorldTypes
  <2>2. (now - d) \div Cadence \in Int
    BY <2>1
  <2>3. NextDue(d, now) \in Int
    BY <2>1, <2>2 DEF NextDue
  <2> QED
    BY <1>1, <1>2, <2>3 DEF WorldTypes
<1> HIDE DEF d, x, skipped, runnable
<1>5. /\ runnable \subseteq DOMAIN window' /\ DOMAIN window \subseteq DOMAIN window'
      /\ \A w \in DOMAIN window : window'[w] = window[w]
      /\ \A w \in DOMAIN window' : window'[w] \in {"queued", "skipped", "failed"} \cup Outcomes
  BY <1>1, <1>2 DEF RowTypes
<1>6. /\ RowTypes' /\ Spare' /\ OneBriefingPerJob'
      /\ DOMAIN job' = DOMAIN job \cup runnable
      /\ \A w \in DOMAIN job : job'[w] = job[w]
      /\ \A w \in DOMAIN job' \ DOMAIN job : job'[w].status = "pending"
  BY <1>1, <1>5, InsertKeeps, PolicyAssumption
<1>7. worker[k].at \notin Busy /\ x.at \notin Busy
  BY <1>1, <1>3 DEF Busy
<1> QED
  BY <1>1, <1>3, <1>4, <1>6, <1>7, AddedJobs

LEMMA CreateManualKeeps ==
    ASSUME IInv, NEW r \in Requests, CreateManual(r)
    PROVE  IInv'
<1>1. /\ asked' = [asked EXCEPT ![r] = "done"]
      /\ window' = WithWindows({Manual(r)}, "queued") /\ InsertJobs({Manual(r)}, 1)
      /\ UNCHANGED <<now, policy, due, worker, deaths>>
  BY DEF CreateManual
<1>2. WorldTypes /\ RowTypes /\ worker \in [Workers -> WorkerStates]
  BY TypeParts DEF IInv
<1>3. WorldTypes'
  BY <1>1, <1>2 DEF WorldTypes
<1>4. /\ {Manual(r)} \subseteq DOMAIN window' /\ DOMAIN window \subseteq DOMAIN window'
      /\ \A w \in DOMAIN window : window'[w] = window[w]
      /\ \A w \in DOMAIN window' : window'[w] \in {"queued", "skipped", "failed"} \cup Outcomes
  BY <1>1, <1>2 DEF RowTypes, WithWindows
<1>5. /\ RowTypes' /\ Spare' /\ OneBriefingPerJob'
      /\ DOMAIN job' = DOMAIN job \cup {Manual(r)}
      /\ \A w \in DOMAIN job : job'[w] = job[w]
      /\ \A w \in DOMAIN job' \ DOMAIN job : job'[w].status = "pending"
  <2> DEFINE new == {Manual(r)}
             limit == 1
  <2>1. limit \in Nat \ {0}
    OBVIOUS
  <2>2. /\ new \subseteq DOMAIN window' /\ InsertJobs(new, limit)
    BY <1>1, <1>4
  <2> HIDE DEF new, limit
  <2>3. /\ RowTypes' /\ Spare' /\ OneBriefingPerJob'
        /\ DOMAIN job' = DOMAIN job \cup new
        /\ \A w \in DOMAIN job : job'[w] = job[w]
        /\ \A w \in DOMAIN job' \ DOMAIN job : job'[w].status = "pending"
    BY <1>4, <2>1, <2>2, InsertKeeps
  <2> QED
    BY <2>3 DEF new
<1>6. TypeOK'
  <2>1. WorkerStates \subseteq WorkerStates'
    BY <1>5 DEF WorkerStates
  <2>2. worker' \in [Workers -> WorkerStates']
    BY <1>1, <1>2, <2>1
  <2> QED
    BY <1>3, <1>5, <2>2 DEF TypeOK, RowTypes, WorldTypes, WorkerStates
<1>7. Held' /\ Attending'
  BY <1>1, <1>5 DEF IInv, Held, Attending
<1>8. InvestigationKeepsItsJob'
  <2>1. ASSUME NEW j \in Workers, worker[j].at = "investigating", worker[j].kept
        PROVE  Owns(j) /\ worker[j].window \in DOMAIN job
    BY <2>1 DEF IInv, InvestigationKeepsItsJob, Held, Busy
  <2> QED
    BY <1>1, <1>5, <2>1 DEF InvestigationKeepsItsJob, Owns
<1> QED
  BY <1>5, <1>6, <1>7, <1>8 DEF IInv

LEMMA ClaimKeeps ==
    ASSUME IInv, NEW k \in Workers, Claim(k)
    PROVE  IInv'
<1>1. PICK w \in DOMAIN job :
          /\ Claimable(w)
          /\ job' = [job EXCEPT ![w].status = "running", ![w].owner = k, ![w].stale = FALSE,
                                ![w].attempts = @ + 1]
          /\ worker' = [worker EXCEPT ![k].at = "claimed", ![k].window = w]
  BY DEF Claim
<1>2. worker[k].at = "claiming" /\ UNCHANGED <<now, policy, asked, due, window, order, runs, deaths>>
  BY DEF Claim, world
<1>3. /\ worker \in [Workers -> WorkerStates] /\ WorldTypes /\ RowTypes /\ worker[k] \in WorkerStates
  BY TypeParts DEF IInv
<1>4. /\ job[w] \in Jobs /\ job[w].status = "pending" /\ job[w].attempts < job[w].limit
  BY <1>1, <1>3 DEF IInv, Spare, RowTypes, Claimable
<1>5. /\ DOMAIN job' = DOMAIN job /\ \A v \in DOMAIN job \ {w} : job'[v] = job[v]
      /\ job'[w] = [job[w] EXCEPT !.status = "running", !.owner = k, !.stale = FALSE, !.attempts = @ + 1]
  BY <1>1
<1>6. /\ job'[w] \in Jobs /\ job'[w].status = "running" /\ job'[w].owner = k
      /\ job'[w].attempts <= job'[w].limit
  <2>1. job[w].attempts \in Nat /\ job[w].limit \in Nat /\ job[w].attempts + 1 <= job[w].limit
    BY <1>4 DEF Jobs
  <2>2. /\ job'[w].status = "running" /\ job'[w].owner = k /\ job'[w].stale = FALSE
        /\ job'[w].attempts = job[w].attempts + 1 /\ job'[w].limit = job[w].limit
    BY <1>4, <1>5 DEF Jobs
  <2>3. job'[w] = [status |-> "running", attempts |-> job[w].attempts + 1, limit |-> job[w].limit,
                   owner |-> k, stale |-> FALSE]
    BY <1>4, <1>5 DEF Jobs
  <2> QED
    BY <2>1, <2>2, <2>3 DEF Jobs
<1>7. /\ worker'[k] = [worker[k] EXCEPT !.at = "claimed", !.window = w]
      /\ \A j \in Workers \ {k} : worker'[j] = worker[j]
  BY <1>1, <1>3
<1>8. worker'[k] \in WorkerStates /\ worker'[k].at = "claimed" /\ worker'[k].window = w
  BY <1>3, <1>7 DEF WorkerStates, Places
<1>9. worker' \in [Workers -> WorkerStates]
  BY <1>1, <1>3, <1>7, <1>8
<1>10. TypeOK'
  <2>1. \A v \in DOMAIN job : job'[v] \in Jobs /\ job'[v].attempts <= job'[v].limit
    BY <1>3, <1>5, <1>6 DEF RowTypes
  <2> QED
    BY <1>2, <1>3, <1>5, <1>9, <2>1 DEF TypeOK, RowTypes, WorldTypes, WorkerStates
<1>11. Held'
  BY <1>5, <1>7, <1>8 DEF IInv, Held
<1>12. Attending'
  <2>1. ASSUME NEW v \in DOMAIN job, NEW j \in Workers, job'[v].status = "running", job'[v].owner = j
        PROVE  worker'[j].at \in Busy /\ worker'[j].window = v
    <3>1. CASE v = w
      BY <1>6, <1>8, <2>1, <3>1 DEF Busy
    <3>2. CASE v # w
      <4>1. job[v].status = "running" /\ job[v].owner = j
        BY <1>5, <2>1, <3>2
      <4>2. worker[j].at \in Busy /\ worker[j].window = v
        BY <4>1 DEF IInv, Attending
      <4>3. j # k
        BY <1>2, <4>2 DEF Busy
      <4> QED
        BY <1>7, <4>2, <4>3
    <3> QED
      BY <3>1, <3>2
  <2> QED
    BY <1>5, <2>1 DEF Attending
<1>13. Spare'
  BY <1>5, <1>6 DEF IInv, Spare
<1>14. OneBriefingPerJob'
  <2>1. runs[w] = <<>> /\ "running" \notin Closed
    <3>1. ASSUME runs[w] # <<>> PROVE FALSE
      <4>1. runs[w] \in Seq(Outcomes) /\ job[w].status = runs[w][1]
        BY <1>3, <3>1 DEF IInv, OneBriefingPerJob, RowTypes
      <4>2. runs[w][1] \in Outcomes
        BY <3>1, <4>1
      <4> QED
        BY <1>4, <4>1, <4>2, OutcomesAssumption
    <3> QED
      BY <3>1, OutcomesAssumption DEF Closed
  <2>2. ASSUME NEW v \in DOMAIN job
        PROVE  /\ Len(runs'[v]) <= 1
               /\ runs'[v] # <<>> => job'[v].status = runs'[v][1] /\ window'[v] = runs'[v][1]
               /\ job'[v].status \in Closed /\ runs'[v] = <<>> => job'[v].status = "failed"
    <3>1. CASE v = w
      BY <1>2, <1>6, <2>1, <3>1
    <3>2. CASE v # w
      BY <1>2, <1>5, <3>2 DEF IInv, OneBriefingPerJob
    <3> QED
      BY <3>1, <3>2
  <2> QED
    BY <1>5, <2>2 DEF OneBriefingPerJob
<1>15. InvestigationKeepsItsJob'
  <2>1. ASSUME NEW j \in Workers, worker'[j].at = "investigating", worker'[j].kept
        PROVE  Owns(j)'
    <3>1. j # k /\ worker'[j] = worker[j]
      BY <1>7, <1>8, <2>1
    <3>2. Owns(j) /\ worker[j].window \in DOMAIN job
      BY <2>1, <3>1 DEF IInv, InvestigationKeepsItsJob, Held, Busy
    <3>3. worker[j].window # w
      BY <1>4, <3>2 DEF Owns
    <3> QED
      BY <1>5, <3>1, <3>2, <3>3 DEF Owns
  <2> QED
    BY <2>1 DEF InvestigationKeepsItsJob
<1> QED
  BY <1>10, <1>11, <1>12, <1>13, <1>14, <1>15 DEF IInv

LEMMA FinishKeeps ==
    ASSUME IInv, NEW k \in Workers, NEW outcome \in Outcomes, Finish(k, outcome)
    PROVE  IInv'
<1> DEFINE w == worker[k].window
           x == [Idle EXCEPT !.at = "claiming"]
<1>1. /\ worker[k].at = "investigating" /\ Owns(k)
      /\ runs' = [runs EXCEPT ![w] = Append(@, outcome)]
      /\ job' = [job EXCEPT ![w] = Released(w, outcome)]
      /\ window' = [window EXCEPT ![w] = outcome]
      /\ worker' = [worker EXCEPT ![k] = x]
      /\ UNCHANGED <<now, policy, asked, due, order, deaths>>
  BY DEF Finish, world
<1>2. /\ worker \in [Workers -> WorkerStates] /\ WorldTypes /\ RowTypes
  BY TypeParts DEF IInv
<1>3. x \in WorkerStates /\ x.at = "claiming"
  BY Claiming
<1>4. /\ w \in DOMAIN job /\ w \in DOMAIN runs /\ w \in DOMAIN window
      /\ job[w].status = "running" /\ job[w].owner = k
  BY <1>1, <1>2 DEF IInv, Held, Busy, Owns, RowTypes
<1> HIDE DEF w, x
<1>5. runs[w] = <<>>
  BY <1>4, RunningHasNoRun
<1>6. outcome \in Closed /\ outcome # "running" /\ outcome # "pending"
  BY OutcomesAssumption DEF Closed
<1>7. /\ DOMAIN job' = DOMAIN job /\ \A v \in DOMAIN job \ {w} : job'[v] = job[v]
      /\ job'[w] = Released(w, outcome)
  BY <1>1, <1>4
<1>8. /\ job'[w] \in Jobs /\ job'[w].status = outcome /\ job'[w].attempts = job[w].attempts
      /\ job'[w].limit = job[w].limit
  <2>1. TypeOK /\ outcome \in {"pending"} \cup Closed
    BY <1>6 DEF IInv
  <2> QED
    BY <1>4, <1>7, <2>1, ReleasedJob
<1>9. /\ DOMAIN runs' = DOMAIN runs /\ \A v \in DOMAIN runs \ {w} : runs'[v] = runs[v]
      /\ runs'[w] = Append(<<>>, outcome)
  BY <1>1, <1>4, <1>5
<1>10. runs'[w] \in Seq(Outcomes) /\ Len(runs'[w]) = 1 /\ runs'[w][1] = outcome /\ runs'[w] # <<>>
  BY <1>9
<1>11. /\ DOMAIN window' = DOMAIN window /\ \A v \in DOMAIN window \ {w} : window'[v] = window[v]
       /\ window'[w] = outcome
  BY <1>1, <1>4
<1>12. worker'[k] = x /\ \A j \in Workers \ {k} : worker'[j] = worker[j]
  BY <1>1, <1>2
<1>13. worker' \in [Workers -> WorkerStates]
  BY <1>1, <1>2, <1>3
<1>14. TypeOK'
  <2>1. \A v \in DOMAIN job : job'[v] \in Jobs /\ job'[v].attempts <= job'[v].limit
    BY <1>2, <1>4, <1>7, <1>8 DEF RowTypes
  <2>2. \A v \in DOMAIN job : runs'[v] \in Seq(Outcomes)
    BY <1>2, <1>9, <1>10 DEF RowTypes
  <2>3. \A v \in DOMAIN window : window'[v] \in {"queued", "skipped", "failed"} \cup Outcomes
    BY <1>2, <1>11 DEF RowTypes
  <2>4. RowTypes'
    BY <1>2, <1>7, <1>9, <1>11, <2>1, <2>2, <2>3 DEF RowTypes
  <2> QED
    BY <1>1, <1>2, <1>7, <1>13, <2>4 DEF TypeOK, RowTypes, WorldTypes, WorkerStates
<1>15. Held'
  BY <1>3, <1>7, <1>12 DEF IInv, Held, Busy
<1>16. Attending'
  <2>1. ASSUME NEW v \in DOMAIN job, NEW j \in Workers, job'[v].status = "running", job'[v].owner = j
        PROVE  worker'[j].at \in Busy /\ worker'[j].window = v
    <3>1. v # w /\ job'[v] = job[v]
      BY <1>6, <1>7, <1>8, <2>1
    <3>2. worker[j].at \in Busy /\ worker[j].window = v
      BY <2>1, <3>1 DEF IInv, Attending
    <3>3. j # k
      BY <3>1, <3>2 DEF w
    <3> QED
      BY <1>12, <3>2, <3>3
  <2> QED
    BY <1>7, <2>1 DEF Attending
<1>17. Spare'
  BY <1>6, <1>7, <1>8 DEF IInv, Spare
<1>18. OneBriefingPerJob'
  <2>1. ASSUME NEW v \in DOMAIN job
        PROVE  /\ Len(runs'[v]) <= 1
               /\ runs'[v] # <<>> => job'[v].status = runs'[v][1] /\ window'[v] = runs'[v][1]
               /\ job'[v].status \in Closed /\ runs'[v] = <<>> => job'[v].status = "failed"
    <3>1. CASE v = w
      <4>1. Len(runs'[v]) = 1
        BY <1>10, <3>1
      <4>2. runs'[v] # <<>> /\ job'[v].status = runs'[v][1] /\ window'[v] = runs'[v][1]
        BY <1>8, <1>10, <1>11, <3>1
      <4>3. 1 <= 1
        OBVIOUS
      <4> QED
        BY <4>1, <4>2, <4>3
    <3>2. CASE v # w
      <4>1. job'[v] = job[v] /\ runs'[v] = runs[v] /\ window'[v] = window[v]
        BY <1>2, <1>7, <1>9, <1>11, <3>2 DEF RowTypes
      <4> QED
        BY <4>1 DEF IInv, OneBriefingPerJob
    <3> QED
      BY <3>1, <3>2
  <2> QED
    BY <1>7, <2>1 DEF OneBriefingPerJob
<1>19. InvestigationKeepsItsJob'
  <2>1. ASSUME NEW j \in Workers, worker'[j].at = "investigating", worker'[j].kept
        PROVE  Owns(j)'
    <3>1. j # k /\ worker'[j] = worker[j]
      BY <1>3, <1>12, <2>1
    <3>2. Owns(j) /\ worker[j].window \in DOMAIN job
      BY <2>1, <3>1 DEF IInv, InvestigationKeepsItsJob, Held, Busy
    <3>3. worker[j].window # w
      BY <1>4, <3>1, <3>2 DEF Owns
    <3> QED
      BY <1>7, <3>1, <3>2, <3>3 DEF Owns
  <2> QED
    BY <2>1 DEF InvestigationKeepsItsJob
<1> QED
  BY <1>14, <1>15, <1>16, <1>17, <1>18, <1>19 DEF IInv

\* A worker at rest owns no job, so nothing is interrupted.
LEMMA RestKeeps ==
    ASSUME IInv, NEW k \in Workers, Rest(k)
    PROVE  IInv'
<1> DEFINE owned == {w \in DOMAIN job : job[w].status = "running" /\ job[w].owner = k}
<1>1. /\ worker[k].at = "claiming" /\ worker' = [worker EXCEPT ![k] = Idle]
      /\ job' = [w \in DOMAIN job |-> IF w \in owned THEN Released(w, "interrupted") ELSE job[w]]
      /\ window' = [w \in DOMAIN window |-> IF w \in owned THEN "failed" ELSE window[w]]
      /\ UNCHANGED <<now, policy, asked, due, order, runs, deaths>>
  BY DEF Rest, world
<1>2. ASSUME NEW w \in DOMAIN job, job[w].status = "running", job[w].owner = k PROVE FALSE
  BY <1>1, <1>2 DEF IInv, Attending, Busy
<1>3. owned = {}
  BY <1>2
<1> HIDE DEF owned
<1>4. SameRows
  BY <1>1, <1>3 DEF SameRows
<1>5. WorldTypes'
  BY <1>1, TypeParts DEF IInv, WorldTypes
<1>6. Idle \in WorkerStates /\ Idle.at = "idle" /\ "idle" \in Places \ Busy
  BY DEF WorkerStates, Idle, Places, Busy
<1> QED
  BY <1>1, <1>2, <1>4, <1>5, <1>6, WorkerMoves

LEMMA DieKeeps ==
    ASSUME IInv, NEW k \in Workers, Die(k)
    PROVE  IInv'
<1>1. /\ worker' = [worker EXCEPT ![k] = Idle] /\ deaths < MaxDeaths /\ deaths' = deaths + 1
      /\ job' = [w \in DOMAIN job |->
                    IF job[w].owner = k THEN [job[w] EXCEPT !.owner = Gone] ELSE job[w]]
      /\ UNCHANGED <<now, policy, asked, due, window, order, runs>>
  BY DEF Die, world
<1>2. /\ worker \in [Workers -> WorkerStates] /\ WorldTypes /\ RowTypes
  BY TypeParts DEF IInv
<1>3. WorldTypes'
  BY <1>1, <1>2, BoundsAssumption DEF WorldTypes
<1>4. Idle \in WorkerStates /\ Idle.at = "idle" /\ Idle.at \notin Busy
  BY DEF WorkerStates, Idle, Places, Busy
<1>5. DOMAIN job' = DOMAIN job
  BY <1>1
<1>6. ASSUME NEW w \in DOMAIN job
      PROVE  /\ job'[w] \in Jobs /\ job'[w].status = job[w].status
             /\ job'[w].attempts = job[w].attempts /\ job'[w].limit = job[w].limit
             /\ job'[w].owner = IF job[w].owner = k THEN Gone ELSE job[w].owner
  <2>1. job[w] \in Jobs
    BY <1>2 DEF RowTypes
  <2> QED
    BY <1>1, <2>1 DEF Jobs
<1>7. worker'[k] = Idle /\ \A j \in Workers \ {k} : worker'[j] = worker[j]
  BY <1>1, <1>2
<1>8. worker' \in [Workers -> WorkerStates]
  BY <1>1, <1>2, <1>4
<1>9. TypeOK'
  <2>1. \A w \in DOMAIN job : job'[w] \in Jobs /\ job'[w].attempts <= job'[w].limit
    BY <1>2, <1>6 DEF RowTypes
  <2> QED
    BY <1>1, <1>2, <1>3, <1>5, <1>8, <2>1 DEF TypeOK, RowTypes, WorldTypes, WorkerStates
<1>10. Held'
  BY <1>4, <1>5, <1>7 DEF IInv, Held
<1>11. Attending'
  BY <1>5, <1>6, <1>7, NamesAssumption DEF IInv, Attending
<1>12. Spare' /\ OneBriefingPerJob'
  BY <1>1, <1>5, <1>6 DEF IInv, Spare, OneBriefingPerJob
<1>13. InvestigationKeepsItsJob'
  <2>1. ASSUME NEW j \in Workers, worker'[j].at = "investigating", worker'[j].kept
        PROVE  Owns(j)'
    <3>1. j # k /\ worker'[j] = worker[j]
      BY <1>4, <1>7, <2>1
    <3>2. Owns(j) /\ worker[j].window \in DOMAIN job
      BY <2>1, <3>1 DEF IInv, InvestigationKeepsItsJob, Held, Busy
    <3> QED
      BY <1>6, <3>1, <3>2 DEF Owns
  <2> QED
    BY <2>1 DEF InvestigationKeepsItsJob
<1> QED
  BY <1>9, <1>10, <1>11, <1>12, <1>13 DEF IInv

LEMMA ExpireKeeps ==
    ASSUME IInv, NEW e \in DOMAIN job, Expire(e)
    PROVE  IInv'
<1>1. /\ job' = [job EXCEPT ![e].stale = TRUE]
      /\ UNCHANGED <<now, policy, asked, due, window, order, runs, worker, deaths>>
  BY DEF Expire, world
<1>2. /\ worker \in [Workers -> WorkerStates] /\ WorldTypes /\ RowTypes
  BY TypeParts DEF IInv
<1>3. /\ DOMAIN job' = DOMAIN job /\ \A w \in DOMAIN job \ {e} : job'[w] = job[w]
      /\ job'[e] = [job[e] EXCEPT !.stale = TRUE]
  BY <1>1
<1>4. ASSUME NEW w \in DOMAIN job
      PROVE  /\ job'[w] \in Jobs /\ job'[w].status = job[w].status /\ job'[w].owner = job[w].owner
             /\ job'[w].attempts = job[w].attempts /\ job'[w].limit = job[w].limit
  <2>1. job[w] \in Jobs /\ job[e] \in Jobs
    BY <1>2 DEF RowTypes
  <2> QED
    BY <1>3, <2>1 DEF Jobs
<1>5. TypeOK'
  <2>1. \A w \in DOMAIN job : job'[w] \in Jobs /\ job'[w].attempts <= job'[w].limit
    BY <1>2, <1>4 DEF RowTypes
  <2> QED
    BY <1>1, <1>2, <1>3, <2>1 DEF TypeOK, RowTypes, WorldTypes, WorkerStates
<1>6. Held' /\ Attending'
  BY <1>1, <1>3, <1>4 DEF IInv, Held, Attending
<1>7. Spare' /\ OneBriefingPerJob'
  BY <1>1, <1>3, <1>4 DEF IInv, Spare, OneBriefingPerJob
<1>8. InvestigationKeepsItsJob'
  <2>1. ASSUME NEW j \in Workers, worker[j].at = "investigating", worker[j].kept
        PROVE  Owns(j) /\ worker[j].window \in DOMAIN job
    BY <2>1 DEF IInv, InvestigationKeepsItsJob, Held, Busy
  <2> QED
    BY <1>1, <1>4, <2>1 DEF InvestigationKeepsItsJob, Owns
<1> QED
  BY <1>5, <1>6, <1>7, <1>8 DEF IInv

-----------------------------------------------------------------------------

\* What the theorems below rest on: every step of a worker, a request, a lease and the clock
\* keeps the strengthened invariant.
THEOREM Inductive == Spec => []IInv
<1>1. Init => IInv
  <2> SUFFICES ASSUME Init PROVE IInv
    OBVIOUS
  <2>1. DOMAIN job = {} /\ DOMAIN window = {} /\ DOMAIN runs = {}
    BY DEF Init
  <2>2. RowTypes
    BY <2>1 DEF RowTypes
  <2>3. WorldTypes
    BY PolicyAssumption, BoundsAssumption DEF Init, WorldTypes
  <2>4. worker \in [Workers -> WorkerStates] /\ \A k \in Workers : worker[k].at = "idle"
    BY DEF Init, Idle, WorkerStates, Places
  <2>5. TypeOK
    BY <2>2, <2>3, <2>4, TypeParts
  <2>6. Held /\ Attending /\ Spare /\ OneBriefingPerJob /\ InvestigationKeepsItsJob
    BY <2>1, <2>4 DEF Held, Attending, Spare, OneBriefingPerJob, InvestigationKeepsItsJob, Busy
  <2> QED
    BY <2>5, <2>6 DEF IInv
<1>2. IInv /\ [Next]_vars => IInv'
  <2> SUFFICES ASSUME IInv, [Next]_vars PROVE IInv'
    OBVIOUS
  <2>1. ASSUME NEW k \in Workers, Step(k) \/ Die(k) PROVE IInv'
    <3>1. CASE Recover(k)
      BY <3>1, RecoverKeeps
    <3>2. CASE ReadSchedule(k) \/ NothingDue(k) \/ LoseJob(k)
      BY <3>2, WaitingSteps
    <3>3. CASE Materialize(k)
      BY <3>3, MaterializeKeeps
    <3>4. CASE Claim(k)
      BY <3>4, ClaimKeeps
    <3>5. CASE Begin(k)
      BY <3>5, BeginKeeps
    <3>6. CASE \E outcome \in Outcomes : Finish(k, outcome)
      BY <3>6, FinishKeeps
    <3>7. CASE Rest(k)
      BY <3>7, RestKeeps
    <3>8. CASE Die(k)
      BY <3>8, DieKeeps
    <3> QED
      BY <2>1, <3>1, <3>2, <3>3, <3>4, <3>5, <3>6, <3>7, <3>8 DEF Step
  <2>2. ASSUME NEW w \in DOMAIN job, Expire(w) PROVE IInv'
    BY <2>2, ExpireKeeps
  <2>3. ASSUME NEW r \in Requests, CreateManual(r) PROVE IInv'
    BY <2>3, CreateManualKeeps
  <2>4. ASSUME (\E r \in Requests : RunNow(r)) \/ Tick \/ UNCHANGED vars PROVE IInv'
    <3>1. WorldTypes
      BY TypeParts DEF IInv
    <3>2. UNCHANGED <<window, job, runs, worker>>
      BY <2>4 DEF RunNow, Tick, rows, vars
    <3>3. WorldTypes'
      BY <2>4, <3>1, BoundsAssumption DEF RunNow, Tick, vars, WorldTypes
    <3> QED
      BY <3>2, <3>3, RowsStay
  <2> QED
    BY <2>1, <2>2, <2>3, <2>4 DEF Next
<1> QED
  BY <1>1, <1>2, PTL DEF Spec

\* Every table and every worker keeps its type, however many windows there come to be.
THEOREM TypeCorrect == Spec => []TypeOK
<1>1. IInv => TypeOK
  BY DEF IInv
<1> QED
  BY <1>1, Inductive, PTL

\* A job commits at most one run, together with its own closing and its window's
\* (_process_job, complete_job), for any number of workers and recoveries.
THEOREM JobIsBriefedOnce == Spec => []OneBriefingPerJob
<1>1. IInv => OneBriefingPerJob
  BY DEF IInv
<1> QED
  BY <1>1, Inductive, PTL

\* The lock of the run's foreign key keeps recover_stale_jobs from taking a job away from the
\* investigation its owner began.
THEOREM OwnerKeepsJob == Spec => []InvestigationKeepsItsJob
<1>1. IInv => InvestigationKeepsItsJob
  BY DEF IInv
<1> QED
  BY <1>1, Inductive, PTL
=============================================================================
