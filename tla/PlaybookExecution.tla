------------------------- MODULE PlaybookExecution -------------------------
(***************************************************************************)
(* Playbook executions: playbook_executions rows, the approval requests of *)
(* their require_approval steps, the workers that run batches over them    *)
(* (engines/soar_playbook_worker.py, engines/playbook_step_executor.py) and*)
(* the operator's control routes (routes/playbook_routes.py).              *)
(*                                                                         *)
(* A worker runs a whole batch in one database transaction.  Row locks it  *)
(* takes last until that transaction ends, what it wrote is its draft until*)
(* then, and a rollback drops the draft; messages its steps already sent   *)
(* stay sent.  The status running and the lease columns therefore never    *)
(* reach another connection, which is why the lease arithmetic and the     *)
(* stale-lease recovery are not actions here.                              *)
(*                                                                         *)
(* All executions share one linear step list.  The approval requests of an *)
(* execution are kept in its row (ap); time is the set due of executions   *)
(* whose pending request is past expires_at.                               *)
(***************************************************************************)
EXTENDS Integers, FiniteSets

CONSTANTS
    Execs,        \* execution ids, in SERIAL order
    Pair,         \* execution -> its (playbook, alert) pair
    Workers,      \* processes running process_playbook_execution_batch
    LastStep,     \* number of steps of the playbook
    Gates,        \* the require_approval steps
    Continue,     \* steps with on_failure = continue
    Branch,       \* <<gate, refusal>> pairs with on_denied / on_expired = branch
    Poison,       \* executions with a step that can fail inside PostgreSQL
    BatchSize,    \* limit of a batch
    MaxCrashes,   \* bound on workers dying inside a batch
    MaxResumes,   \* bound on resume requests
    MaxSends,     \* where the count of a step's deliveries saturates
    NoExec        \* what a worker between two executions works on

Steps == 1 .. LastStep
Refusals == {"denied", "expired"}

ASSUME ExecsAssumption == Execs \subseteq Nat /\ NoExec \notin Execs
ASSUME StepsAssumption ==
    /\ LastStep \in Nat /\ Gates \subseteq Steps /\ Continue \subseteq Steps
    /\ Branch \subseteq Gates \X Refusals
ASSUME BoundsAssumption ==
    BatchSize \in Nat \ {0} /\ MaxCrashes \in Nat /\ MaxResumes \in Nat /\ MaxSends \in Nat \ {0}

VARIABLES
    row,          \* execution -> its committed row
    due,          \* executions whose pending approval request is past expires_at
    sent,         \* execution -> step -> times its effect left the system
    draft,        \* worker -> the rows its open transaction locked and rewrote
    phase,        \* worker -> "claim" (pending rows) or "await" (parked rows)
    left,         \* worker -> what is left of the batch limit
    todo,         \* worker -> parked executions still to visit in this batch
    cur,          \* worker -> the execution it works on
    pos,          \* worker -> index of the step it is at, 0 when at none
    failed,       \* worker -> the local flag: a step of this pass failed
    resuming,     \* executions with a resume request between its check and its write
    resumes,      \* resume requests so far
    crashes       \* crashes so far

batchVars == <<draft, phase, left, todo, cur, pos, failed>>
operatorVars == <<resuming, resumes>>
vars == <<row, due, sent, batchVars, operatorVars, crashes>>

Active == {"pending", "running", "awaiting_approval"}
Terminal == {"success", "failed", "abandoned", "not_actioned", "permanently_failed"}
ApprovalStatuses == {"none", "pending", "approved"} \cup Refusals

\* status, last_completed_step (0: null), the latest gate entry of steps_log (0: none),
\* the steps logged as success and as failed, and the request of each gate.
Rows == [status : {"absent"} \cup Active \cup Terminal, done : 0 .. LastStep,
         gate : {0} \cup Gates, ok : SUBSET Steps, bad : SUBSET Steps,
         ap : [Gates -> ApprovalStatuses]]

\* A draft holds rows of some of the executions.
DraftTypeOK ==
    DOMAIN draft = Workers /\ \A w \in Workers : \E S \in SUBSET Execs : draft[w] \in [S -> Rows]

TypeOK ==
    /\ row \in [Execs -> Rows]
    /\ due \subseteq Execs
    /\ sent \in [Execs -> [Steps -> 0 .. MaxSends]]
    /\ DraftTypeOK
    /\ phase \in [Workers -> {"claim", "await"}]
    /\ left \in [Workers -> 0 .. BatchSize]
    /\ todo \in [Workers -> SUBSET Execs]
    /\ cur \in [Workers -> Execs \cup {NoExec}]
    /\ pos \in [Workers -> 0 .. LastStep + 1]
    /\ failed \in [Workers -> BOOLEAN]
    /\ resuming \subseteq Execs
    /\ resumes \in 0 .. MaxResumes
    /\ crashes \in 0 .. MaxCrashes

NoRow == [status |-> "absent", done |-> 0, gate |-> 0, ok |-> {}, bad |-> {},
          ap |-> [g \in Gates |-> "none"]]
NoDraft == [e \in {} |-> NoRow]

Init ==
    /\ row = [e \in Execs |-> NoRow]
    /\ due = {}
    /\ sent = [e \in Execs |-> [i \in Steps |-> 0]]
    /\ draft = [w \in Workers |-> NoDraft]
    /\ phase = [w \in Workers |-> "claim"]
    /\ left = [w \in Workers |-> BatchSize]
    /\ todo = [w \in Workers |-> {}]
    /\ cur = [w \in Workers |-> NoExec]
    /\ pos = [w \in Workers |-> 0]
    /\ failed = [w \in Workers |-> FALSE]
    /\ resuming = {}
    /\ resumes = 0
    /\ crashes = 0

-----------------------------------------------------------------------------
\* Rows, locks and drafts.

Lowest(S, e) == e \in S /\ \A f \in S : e <= f

\* Executions whose row an open transaction has locked.
Locked == UNION {DOMAIN draft[w] : w \in Workers}

\* w has read that e's request was refused and holds the request's lock, not e's.
Refusing(w, e) == cur[w] = e /\ pos[w] = 0

\* No other transaction holds e's row or its approval request.
Free(w, e) == \A v \in Workers \ {w} : e \notin DOMAIN draft[v] /\ ~Refusing(v, e)

\* Row e as w's own transaction sees it.
View(w, e) == IF e \in DOMAIN draft[w] THEN draft[w][e] ELSE row[e]

\* Mutant of PendingRows: the claim neither skips nor waits for locked rows.
PendingRowsUnlocked == {e \in Execs : row[e].status = "pending"}

PendingRows == {e \in Execs : row[e].status = "pending"} \ Locked
Parked(w) == {e \in Execs : View(w, e).status = "awaiting_approval"}

Put(w, e, v) ==
    draft' = [draft EXCEPT ![w] = [f \in DOMAIN draft[w] \cup {e} |->
                                     IF f = e THEN v ELSE draft[w][f]]]

\* The approval request of e's gate as w reads it, an overdue one as expired.
Outcome(w, e) ==
    LET v == View(w, e) IN
    IF e \in due /\ v.gate = row[e].gate /\ v.ap[v.gate] = "pending"
    THEN "expired" ELSE v.ap[v.gate]

\* From index i on, j is the first step without a success entry in steps_log.
NextOpen(v, i, j) == j \in i .. LastStep + 1 /\ j \notin v.ok /\ i .. j - 1 \subseteq v.ok

\* w goes to the first step it has to run at or after i.
Start(w, v, i) == \E j \in i .. LastStep + 1 : NextOpen(v, i, j) /\ pos' = [pos EXCEPT ![w] = j]

\* w leases e, with row v, and enters _process_steps at index i.
Lease(w, e, v, i) ==
    /\ Put(w, e, v)
    /\ cur' = [cur EXCEPT ![w] = e]
    /\ Start(w, v, i)
    /\ failed' = [failed EXCEPT ![w] = FALSE]

LeaveExecution(w) ==
    /\ cur' = [cur EXCEPT ![w] = NoExec]
    /\ pos' = [pos EXCEPT ![w] = 0]
    /\ failed' = [failed EXCEPT ![w] = FALSE]

\* Mutant of NewBatch: the limit is not reset.
NewBatchOldLimit(w) ==
    /\ draft' = [draft EXCEPT ![w] = NoDraft]
    /\ phase' = [phase EXCEPT ![w] = "claim"]
    /\ todo' = [todo EXCEPT ![w] = {}]
    /\ UNCHANGED left
    /\ LeaveExecution(w)

\* w's transaction ends and its next batch begins.
NewBatch(w) ==
    /\ draft' = [draft EXCEPT ![w] = NoDraft]
    /\ phase' = [phase EXCEPT ![w] = "claim"]
    /\ left' = [left EXCEPT ![w] = BatchSize]
    /\ todo' = [todo EXCEPT ![w] = {}]
    /\ LeaveExecution(w)

-----------------------------------------------------------------------------
\* A batch: pending executions first, then the parked ones.

\* claim_next_pending_playbook_execution_with_lease: SELECT ... FOR UPDATE SKIP LOCKED.
Claim(w, e) ==
    /\ phase[w] = "claim" /\ cur[w] = NoExec /\ left[w] > 0
    /\ Lowest(PendingRows, e)
    /\ Lease(w, e, [row[e] EXCEPT !.status = "running"], row[e].done + 1)
    /\ left' = [left EXCEPT ![w] = @ - 1]
    /\ UNCHANGED <<row, due, sent, phase, todo, operatorVars, crashes>>

\* The pending rows or the limit are used up: the oldest parked rows fill the batch.
ListAwaiting(w) ==
    /\ phase[w] = "claim" /\ cur[w] = NoExec
    /\ left[w] = 0 \/ PendingRows = {}
    /\ phase' = [phase EXCEPT ![w] = "await"]
    /\ todo' = [todo EXCEPT ![w] =
                  {e \in Parked(w) : Cardinality({f \in Parked(w) : f < e}) < left[w]}]
    /\ UNCHANGED <<row, due, sent, draft, left, cur, pos, failed, operatorVars, crashes>>

\* e is the next parked execution of w's batch.
Visiting(w, e) == phase[w] = "await" /\ cur[w] = NoExec /\ Lowest(todo[w], e)
Visited(w, e) == todo' = [todo EXCEPT ![w] = @ \ {e}]

\* Finished meanwhile, or still undecided.
VisitSkipped(w, e) ==
    /\ Visiting(w, e)
    /\ \/ View(w, e).status \in Terminal
       \/ /\ View(w, e).status = "awaiting_approval" /\ Free(w, e)
          /\ View(w, e).ap[View(w, e).gate] = "pending"
    /\ Visited(w, e)
    /\ UNCHANGED <<row, due, sent, draft, phase, left, cur, pos, failed, operatorVars, crashes>>

\* Put back to pending by a resume request meanwhile: acquire_execution_lease.
VisitRequeued(w, e) ==
    /\ Visiting(w, e) /\ Free(w, e)
    /\ View(w, e).status = "pending"
    /\ Lease(w, e, [View(w, e) EXCEPT !.status = "running"], View(w, e).done + 1)
    /\ Visited(w, e)
    /\ UNCHANGED <<row, due, sent, phase, left, operatorVars, crashes>>

\* Mutant of Goes: any decision resumes the execution.
GoesOnceDecided(g, outcome) == outcome # "pending"

\* The decision lets the execution continue behind its gate.
Goes(g, outcome) == outcome = "approved" \/ <<g, outcome>> \in Branch

\* Mutant of VisitResumed: an approved execution starts over.
VisitResumedFromScratch(w, e) ==
    LET v == View(w, e) IN
    /\ Visiting(w, e) /\ Free(w, e)
    /\ v.status = "awaiting_approval"
    /\ Goes(v.gate, Outcome(w, e))
    /\ Put(w, e, [v EXCEPT !.status = "running", !.ap[v.gate] = Outcome(w, e)])
    /\ cur' = [cur EXCEPT ![w] = e]
    /\ pos' = [pos EXCEPT ![w] = 1]
    /\ Visited(w, e)
    /\ UNCHANGED <<row, due, sent, phase, left, failed, operatorVars, crashes>>

\* Approved, or refused with a branch: acquire_awaiting_approval_resume_lease.
VisitResumed(w, e) ==
    LET v == View(w, e) IN
    /\ Visiting(w, e) /\ Free(w, e)
    /\ v.status = "awaiting_approval"
    /\ Goes(v.gate, Outcome(w, e))
    /\ Lease(w, e, [v EXCEPT !.status = "running", !.done = v.gate,
                             !.ap[v.gate] = Outcome(w, e)], v.gate + 1)
    /\ Visited(w, e)
    /\ UNCHANGED <<row, due, sent, phase, left, operatorVars, crashes>>

\* Refused without a branch.  The row was read, not locked.
VisitRefused(w, e) ==
    /\ Visiting(w, e) /\ Free(w, e)
    /\ View(w, e).status = "awaiting_approval"
    /\ Outcome(w, e) \in Refusals /\ ~Goes(View(w, e).gate, Outcome(w, e))
    /\ cur' = [cur EXCEPT ![w] = e]
    /\ Visited(w, e)
    /\ UNCHANGED <<row, due, sent, draft, phase, left, pos, failed, operatorVars, crashes>>

\* _finalize_not_actioned: the second UPDATE has no condition but the id.
RefuseWrite(w, e) ==
    LET v == View(w, e) IN
    /\ Refusing(w, e) /\ Free(w, e)
    /\ Put(w, e, [v EXCEPT !.status = "not_actioned", !.ap[v.gate] = Outcome(w, e)])
    /\ LeaveExecution(w)
    /\ UNCHANGED <<row, due, sent, phase, left, todo, operatorVars, crashes>>

\* The re-read before that UPDATE already shows another status.  (The request's expiry,
\* if that was the refusal, is left to ExpireDue.)
RefuseSkipped(w, e) ==
    /\ Refusing(w, e)
    /\ View(w, e).status # "awaiting_approval"
    /\ LeaveExecution(w)
    /\ UNCHANGED <<row, due, sent, draft, phase, left, todo, operatorVars, crashes>>

\* The overdue requests that w's draft leaves undecided; a reused request keeps expires_at.
StillDue(w) == {e \in due : e \in DOMAIN draft[w] => draft[w][e].ap[row[e].gate] = "pending"}

\* Mutant of Commit: progress is committed in the middle of an execution.
CommitMidway(w) ==
    /\ row' = [e \in Execs |-> View(w, e)]
    /\ due' = StillDue(w)
    /\ NewBatch(w)
    /\ UNCHANGED <<sent, operatorVars, crashes>>

\* conn.commit() of the whole batch.
Commit(w) ==
    /\ phase[w] = "await" /\ cur[w] = NoExec /\ todo[w] = {}
    /\ row' = [e \in Execs |-> View(w, e)]
    /\ due' = StillDue(w)
    /\ NewBatch(w)
    /\ UNCHANGED <<sent, operatorVars, crashes>>

-----------------------------------------------------------------------------
\* _process_steps: one step of the execution w works on.

AtStep(w, e) == cur[w] = e /\ e # NoExec /\ pos[w] \in Steps \ Gates

StepSucceeds(w, e) ==
    LET i == pos[w]
        v == [draft[w][e] EXCEPT !.ok = @ \cup {i}, !.done = i] IN
    /\ AtStep(w, e)
    /\ sent' = [sent EXCEPT ![e][i] = IF @ < MaxSends THEN @ + 1 ELSE @]
    /\ Put(w, e, v)
    /\ Start(w, v, i + 1)
    /\ UNCHANGED <<row, due, phase, left, todo, cur, failed, operatorVars, crashes>>

StepFailsContinue(w, e) ==
    LET v == [draft[w][e] EXCEPT !.bad = @ \cup {pos[w]}] IN
    /\ AtStep(w, e) /\ pos[w] \in Continue
    /\ Put(w, e, v)
    /\ Start(w, v, pos[w] + 1)
    /\ failed' = [failed EXCEPT ![w] = TRUE]
    /\ UNCHANGED <<row, due, sent, phase, left, todo, cur, operatorVars, crashes>>

\* The loop breaks; _finalize_failed also writes the dead letter.
StepFailsAbort(w, e) ==
    /\ AtStep(w, e) /\ pos[w] \notin Continue
    /\ Put(w, e, [draft[w][e] EXCEPT !.bad = @ \cup {pos[w]}, !.status = "failed"])
    /\ LeaveExecution(w)
    /\ UNCHANGED <<row, due, sent, phase, left, todo, operatorVars, crashes>>

\* The SQL error is caught, the aborted transaction is not: the next statement raises
\* and the daemon rolls the batch back.
StepSqlError(w, e) ==
    /\ AtStep(w, e) /\ e \in Poison
    /\ NewBatch(w)
    /\ UNCHANGED <<row, due, sent, operatorVars, crashes>>

\* require_approval: an active request is reused, the lease is released, the local
\* failure flag is dropped.
PauseForApproval(w, e) ==
    LET g == pos[w] IN
    /\ cur[w] = e /\ e # NoExec /\ g \in Gates
    /\ Put(w, e, [draft[w][e] EXCEPT !.status = "awaiting_approval", !.gate = g,
                    !.ap[g] = IF @ \in {"pending", "approved"} THEN @ ELSE "pending"])
    /\ LeaveExecution(w)
    /\ UNCHANGED <<row, due, sent, phase, left, todo, operatorVars, crashes>>

Finish(w, e) ==
    /\ cur[w] = e /\ e # NoExec /\ pos[w] = LastStep + 1
    /\ Put(w, e, [draft[w][e] EXCEPT !.status = IF failed[w] THEN "failed" ELSE "success"])
    /\ LeaveExecution(w)
    /\ UNCHANGED <<row, due, sent, phase, left, todo, operatorVars, crashes>>

-----------------------------------------------------------------------------
\* Failures of the whole batch.

\* The process or its connection dies: PostgreSQL rolls the batch back.
Crash(w) ==
    /\ DOMAIN draft[w] # {} \/ cur[w] # NoExec
    /\ crashes < MaxCrashes
    /\ crashes' = crashes + 1
    /\ NewBatch(w)
    /\ UNCHANGED <<row, due, sent, operatorVars>>

\* w waits for a lock that v holds.
Waits(w, v) ==
    \E e \in Execs : /\ Visiting(w, e) /\ View(w, e).status \in Active
                     /\ e \in DOMAIN draft[v] \/ Refusing(v, e)

\* PostgreSQL's deadlock detector aborts one of two workers that wait for each other.
DeadlockVictim(w) ==
    /\ \E v \in Workers \ {w} : Waits(w, v) /\ Waits(v, w)
    /\ NewBatch(w)
    /\ UNCHANGED <<row, due, sent, operatorVars, crashes>>

-----------------------------------------------------------------------------
\* Ingest, operators and time.

SetStatus(e, s) == row' = [row EXCEPT ![e].status = s]

\* The partial unique index on (playbook_id, alert_id) admits e as an active row.
PairFree(e) == \A f \in Execs \ {e} : Pair[f] = Pair[e] => row[f].status \notin Active

\* create_pending_playbook_execution_once: ON CONFLICT DO NOTHING.
Create(e) ==
    /\ row[e].status = "absent"
    /\ \A d \in Execs : d < e => row[d].status # "absent"
    /\ PairFree(e)
    /\ SetStatus(e, "pending")
    /\ UNCHANGED <<due, sent, batchVars, operatorVars, crashes>>

\* create_retry_execution: a new row, the source stays as it is.
Retry(s, e) ==
    /\ row[s].status \in {"failed", "abandoned"} /\ Pair[s] = Pair[e]
    /\ Create(e)

\* The guarded UPDATE waits for a worker's row lock and then looks at the status again.
Abandon(e) ==
    /\ row[e].status \in Active /\ e \notin Locked
    /\ SetStatus(e, "abandoned")
    /\ UNCHANGED <<due, sent, batchVars, operatorVars, crashes>>

PermanentlyFail(e) ==
    /\ row[e].status \in {"running", "failed", "awaiting_approval"} /\ e \notin Locked
    /\ SetStatus(e, "permanently_failed")
    /\ UNCHANGED <<due, sent, batchVars, operatorVars, crashes>>

\* resume_playbook_execution_route reads, checks, and then updates by id alone.
ResumeCheck(e) ==
    /\ row[e].status = "awaiting_approval" /\ row[e].ap[row[e].gate] = "approved"
    /\ e \notin resuming /\ resumes < MaxResumes
    /\ resuming' = resuming \cup {e}
    /\ resumes' = resumes + 1
    /\ UNCHANGED <<row, due, sent, batchVars, crashes>>

ResumeWrite(e) ==
    /\ e \in resuming /\ e \notin Locked
    /\ PairFree(e)
    /\ SetStatus(e, "pending")
    /\ resuming' = resuming \ {e}
    /\ UNCHANGED <<due, sent, batchVars, resumes, crashes>>

\* The unique index refuses the update: another execution of the pair is active.
ResumeRefused(e) ==
    /\ e \in resuming /\ e \notin Locked
    /\ ~PairFree(e)
    /\ resuming' = resuming \ {e}
    /\ UNCHANGED <<row, due, sent, batchVars, resumes, crashes>>

\* The request of e's gate is undecided, and no transaction has it locked.
Undecided(e) ==
    /\ row[e].gate \in Gates /\ row[e].ap[row[e].gate] = "pending"
    /\ e \notin Locked /\ \A w \in Workers : ~Refusing(w, e)

SetApproval(S, a) ==
    row' = [e \in Execs |-> IF e \in S THEN [row[e] EXCEPT !.ap[row[e].gate] = a] ELSE row[e]]

\* The approval routes: only a request that is not overdue can be decided.
Decide(e, decision) ==
    /\ Undecided(e) /\ e \notin due
    /\ SetApproval({e}, decision)
    /\ UNCHANGED <<due, sent, batchVars, operatorVars, crashes>>

ComesDue(e) ==
    /\ row[e].gate \in Gates /\ row[e].ap[row[e].gate] = "pending" /\ e \notin due
    /\ due' = due \cup {e}
    /\ UNCHANGED <<row, sent, batchVars, operatorVars, crashes>>

\* expire_pending_requests (FOR UPDATE SKIP LOCKED), called by the action queue's worker
\* and by the expire-pending route.
ExpireDue ==
    LET S == {e \in due : Undecided(e)} IN
    /\ S # {}
    /\ SetApproval(S, "expired")
    /\ due' = due \ S
    /\ UNCHANGED <<sent, batchVars, operatorVars, crashes>>

-----------------------------------------------------------------------------
WorkerStep(w) ==
    \/ ListAwaiting(w) \/ Commit(w) \/ DeadlockVictim(w)
    \/ \E e \in Execs :
        \/ Claim(w, e)
        \/ VisitSkipped(w, e) \/ VisitRequeued(w, e) \/ VisitResumed(w, e) \/ VisitRefused(w, e)
        \/ RefuseWrite(w, e) \/ RefuseSkipped(w, e)
        \/ StepSucceeds(w, e) \/ StepFailsContinue(w, e) \/ StepFailsAbort(w, e)
        \/ StepSqlError(w, e) \/ PauseForApproval(w, e) \/ Finish(w, e)

OperatorStep(e) ==
    \/ Create(e) \/ Abandon(e) \/ PermanentlyFail(e)
    \/ \E s \in Execs : Retry(s, e)
    \/ ResumeCheck(e) \/ ResumeWrite(e) \/ ResumeRefused(e)
    \/ Decide(e, "approved") \/ Decide(e, "denied")

Next ==
    \/ \E w \in Workers : WorkerStep(w) \/ Crash(w)
    \/ \E e \in Execs : OperatorStep(e) \/ ComesDue(e)
    \/ ExpireDue

Spec == Init /\ [][Next]_vars

\* The daemon loops for ever (Restart=on-failure), time passes, and the action queue's
\* worker keeps expiring overdue requests.  No operator has to do anything.
Fairness ==
    /\ \A w \in Workers : WF_vars(WorkerStep(w))
    /\ \A e \in Execs : WF_vars(ComesDue(e))
    /\ WF_vars(ExpireDue)

FairSpec == Spec /\ Fairness

-----------------------------------------------------------------------------
\* Properties.

\* No execution is in two workers' transactions at once: the claim skips locked rows and
\* every other way to a row waits for its lock.
OneOwner == \A v, w \in Workers : v # w => DOMAIN draft[v] \cap DOMAIN draft[w] = {}

\* A step whose success is committed never takes effect again, whatever crashes, resume
\* requests and re-visited gates bring the execution back (_resume_progress and the
\* steps_log guard of _process_steps).
CommittedStepNotRerun ==
    [][\A e \in Execs : \A i \in row[e].ok : sent'[e][i] = sent[e][i]]_vars

\* A step behind a gate takes effect only if the gate's request was approved, or was
\* refused and the gate says to branch.  The expiry that a worker acted upon may have
\* been rolled back with its batch, but then the request is overdue and can only expire.
GatedStepApproved ==
    \A e \in Execs : \A g \in Gates, i \in Steps :
        g < i /\ sent[e][i] > 0 =>
            \/ row[e].ap[g] = "approved" \/ <<g, row[e].ap[g]>> \in Branch
            \/ row[e].ap[g] = "pending" /\ e \in due /\ <<g, "expired">> \in Branch

\* What a batch commits is never half done: no committed row is running, and a parked
\* row has a request for the gate it stands at and no progress beyond that gate.
CommittedRowsAreWhole ==
    \A e \in Execs :
        /\ row[e].status # "running"
        /\ row[e].status = "awaiting_approval" =>
              /\ row[e].gate \in Gates /\ row[e].ap[row[e].gate] # "none"
              /\ row[e].done < row[e].gate

\* A (playbook, alert) pair has at most one active execution, counting what workers have
\* not yet committed, although a retry and a late resume request may both bring one back.
OneActivePerPair ==
    \A e, f \in Execs :
        /\ e # f /\ Pair[e] = Pair[f]
        /\ row[e].status \in Active
        => /\ row[f].status \notin Active
           /\ \A w \in Workers : f \in DOMAIN draft[w] => draft[w][f].status \notin Active

\* A finished execution becomes active again only by the late write of a resume request
\* that had found it parked: no worker's stale draft, retry or decision reopens one.
TerminalNotReopened ==
    [][\A e \in Execs :
         row[e].status \in Terminal /\ row'[e].status \in Active => e \in resuming \ resuming']_vars

\* Every execution that is created reaches a terminal status, even if nobody decides its
\* approvals and although parked executions fill the batches of the others.
ExecutionSettles ==
    \A e \in Execs \ Poison : row[e].status = "pending" ~> row[e].status \in Terminal
=============================================================================
