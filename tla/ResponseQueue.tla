--------------------------- MODULE ResponseQueue ---------------------------
(***************************************************************************)
(* The response-action queue: response_actions_queue rows, the approval    *)
(* requests that gate block_ip, and the workers that drain the queue       *)
(* (engines/soar_action_worker.py over core/response_action_queue_store.py *)
(* and core/approval_store.py).                                            *)
(*                                                                         *)
(* A step of this module is one committed database transaction, or the     *)
(* part of one between two statements another connection can get between.  *)
(* A worker's pass over one row is two transactions: the claim, which      *)
(* commits, and everything after it.  Queue rows carry no owner, so nothing*)
(* but the row's status ties the second transaction to the first.          *)
(*                                                                         *)
(* Time is abstracted to two facts that only time can make true: a running *)
(* row's updated_at is older than STALE_RUNNING_TIMEOUT (stale), and a     *)
(* pending approval's expires_at has passed (due).                         *)
(***************************************************************************)
EXTENDS Integers, FiniteSets

CONSTANTS
    Rows,         \* queue row ids, in SERIAL order
    Workers,      \* processes that run process_batch: the timer's runner, admin run-once requests
    Gated,        \* rows whose action is block_ip (APPROVAL_REQUIRED_ACTIONS)
    Monitors,     \* rows whose action is monitor
    Adapted,      \* rows whose action is not canonical: they run through the executor
    Protected,    \* gated rows whose target is in SOAR_PROTECTED_IPS
    Poison,       \* rows whose command always fails inside PostgreSQL
    MaxRetries,   \* max_retries of a row
    MaxFaults,    \* bound on worker crashes and on rows going stale under a live worker
    NoRow         \* the row of a worker that holds none

ASSUME RowsAssumption == Rows \subseteq Nat
ASSUME KindsAssumption ==
    /\ Gated \subseteq Rows /\ Monitors \subseteq Rows /\ Adapted \subseteq Rows
    /\ Gated \cap Adapted = {} /\ Gated \cap Monitors = {} /\ Monitors \cap Adapted = {}
    /\ Protected \subseteq Gated /\ Poison \subseteq Rows \ Adapted
ASSUME RetriesAssumption == MaxRetries \in Nat \ {0}
ASSUME FaultsAssumption == MaxFaults \in Nat
ASSUME NoRowAssumption == NoRow \notin Rows

VARIABLES
    status,       \* row -> its status, "absent" before it is enqueued
    retryCount,   \* row -> retry_count
    stale,        \* rows running for longer than STALE_RUNNING_TIMEOUT
    approval,     \* row -> status of its one approval request, "none" before it exists
    due,          \* rows whose pending approval is past expires_at
    logged,       \* row -> the statuses response_actions_log holds for it
    effects,      \* row -> committed executions of its command
    pc,           \* worker -> where its pass stands
    held,         \* worker -> the row it claimed
    faults        \* crashes and slow passes so far

rowVars == <<status, retryCount, stale, logged, effects>>
approvalVars == <<approval, due>>
workerVars == <<pc, held>>
vars == <<rowVars, approvalVars, workerVars, faults>>

Statuses == {"absent", "pending", "running", "awaiting_approval",
             "success", "failed", "skipped"}
Terminal == {"success", "failed", "skipped"}
ApprovalStatuses == {"none", "pending", "approved", "denied", "expired"}
LogStatuses == {"executed", "skipped", "failed"}

TypeOK ==
    /\ status \in [Rows -> Statuses]
    /\ retryCount \in [Rows -> 0 .. MaxRetries]
    /\ stale \subseteq Rows
    /\ approval \in [Rows -> ApprovalStatuses]
    /\ due \subseteq Rows
    /\ logged \in [Rows -> SUBSET LogStatuses]
    /\ effects \in [Rows -> Nat]
    /\ pc \in [Workers -> {"idle", "claimed", "unmarked", "unlocked"}]
    /\ held \in [Workers -> Rows \cup {NoRow}]
    /\ faults \in 0 .. MaxFaults

Init ==
    /\ status = [r \in Rows |-> "absent"]
    /\ retryCount = [r \in Rows |-> 0]
    /\ stale = {}
    /\ approval = [r \in Rows |-> "none"]
    /\ due = {}
    /\ logged = [r \in Rows |-> {}]
    /\ effects = [r \in Rows |-> 0]
    /\ pc = [w \in Workers |-> "idle"]
    /\ held = [w \in Workers |-> NoRow]
    /\ faults = 0

-----------------------------------------------------------------------------
\* State formulae and transaction fragments.

\* The first row of S in id order, as every claim query selects it.
Lowest(S, r) == r \in S /\ \A s \in S : r <= s

\* Mutant of Locked: no foreign key from the decision to the queue row.
LockedWithoutForeignKey == {}

\* Rows every FOR UPDATE SKIP LOCKED passes over: an open transaction inserted a
\* decision whose foreign key holds a KEY SHARE lock on the queue row.
Locked == {held[w] : w \in {v \in Workers : pc[v] = "unmarked"}}

PendingRows == {r \in Rows : status[r] = "pending"} \ Locked
ApprovedRows == {r \in Rows : status[r] = "awaiting_approval" /\ approval[r] = "approved"} \ Locked

\* What expire_pending_requests leaves of the approvals: every due pending one is expired.
Expired == [r \in Rows |-> IF approval[r] = "pending" /\ r \in due THEN "expired" ELSE approval[r]]
ExpirePending == approval' = Expired /\ due' = {}

\* Rows the terminal-approval sweep selects once the approvals read a.
RefusedRows(a) == {r \in Rows : status[r] = "awaiting_approval" /\ a[r] \in {"denied", "expired"}}

\* A guarded UPDATE of row r to status s refreshes updated_at.
MoveRow(r, s) == /\ status' = [status EXCEPT ![r] = s]
                 /\ stale' = stale \ {r}
Log(r, s) == logged' = [logged EXCEPT ![r] = @ \cup {s}]

GoIdle(w) == pc' = [pc EXCEPT ![w] = "idle"] /\ held' = [held EXCEPT ![w] = NoRow]
Take(w, r) == pc' = [pc EXCEPT ![w] = "claimed"] /\ held' = [held EXCEPT ![w] = r]

\* w's pass stands after its claim, with row r.
Holds(w, r) == pc[w] = "claimed" /\ held[w] = r
\* The gate lets row r through to execution.
GatePassed(r) == r \in Gated => r \notin Protected /\ approval[r] = "approved"

-----------------------------------------------------------------------------
\* Ingest.

\* enqueue_response_action after the alert commits; ON CONFLICT (idempotency_key) DO NOTHING.
Enqueue(r) ==
    /\ status[r] = "absent"
    /\ MoveRow(r, "pending")
    /\ UNCHANGED <<retryCount, logged, effects, approvalVars, workerVars, faults>>

-----------------------------------------------------------------------------
\* process_next_action: the claim transaction.

ClaimPending(w, r) ==
    /\ pc[w] = "idle"
    /\ Lowest(PendingRows, r)
    /\ MoveRow(r, "running")
    /\ Take(w, r)
    /\ UNCHANGED <<retryCount, logged, effects, approvalVars, faults>>

\* No pending row: due approvals expire, and the first approved row is claimed.
ClaimApproved(w, r) ==
    /\ pc[w] = "idle"
    /\ PendingRows = {}
    /\ ExpirePending
    /\ Lowest(ApprovedRows, r)
    /\ MoveRow(r, "running")
    /\ Take(w, r)
    /\ UNCHANGED <<retryCount, logged, effects, faults>>

\* Nothing pending and nothing approved: the first refused row is skipped and logged.
SkipRefused(w, r) ==
    /\ pc[w] = "idle"
    /\ PendingRows = {} /\ ApprovedRows = {}
    /\ ExpirePending
    /\ Lowest(RefusedRows(Expired), r)
    /\ MoveRow(r, "skipped")
    /\ Log(r, "skipped")
    /\ UNCHANGED <<retryCount, effects, workerVars, faults>>

-----------------------------------------------------------------------------
\* process_next_action: the second transaction, gate first.

\* The statuses the gate gives a row it holds back, by the approval it reads.
GateStatus(a) == IF a \in {"none", "pending"} THEN "awaiting_approval" ELSE "skipped"

GateProtected(w, r) ==
    /\ Holds(w, r) /\ r \in Protected
    /\ status[r] = "running"
    /\ MoveRow(r, "skipped")
    /\ Log(r, "skipped")
    /\ GoIdle(w)
    /\ UNCHANGED <<retryCount, effects, approvalVars, faults>>

\* Approved rows pass; a missing approval is requested, a refused one skips the row.
GateHold(w, r) ==
    LET a == Expired[r] IN
    /\ Holds(w, r) /\ r \in Gated \ Protected
    /\ a # "approved"
    /\ status[r] = "running"
    /\ approval' = [Expired EXCEPT ![r] = IF a = "none" THEN "pending" ELSE a]
    /\ due' = {}
    /\ MoveRow(r, GateStatus(a))
    /\ IF GateStatus(a) = "skipped" THEN Log(r, "skipped") ELSE UNCHANGED logged
    /\ GoIdle(w)
    /\ UNCHANGED <<retryCount, effects, faults>>

\* The command commits with the status change.  A monitor command that only renews an
\* active watch writes no log row.
ExecuteSuccess(w, r) ==
    /\ Holds(w, r) /\ GatePassed(r) /\ r \notin Poison
    /\ status[r] = "running"
    /\ MoveRow(r, "success")
    /\ \/ Log(r, "executed")
       \/ r \in Monitors /\ UNCHANGED logged
    /\ effects' = [effects EXCEPT ![r] = @ + 1]
    /\ IF r \in Gated THEN ExpirePending ELSE UNCHANGED approvalVars
    /\ GoIdle(w)
    /\ UNCHANGED <<retryCount, faults>>

\* Mutant of ExecuteUnmarked: the command commits before the row is marked.
ExecuteCommitsFirst(w, r) ==
    /\ Holds(w, r) /\ GatePassed(r) /\ r \notin Poison
    /\ status[r] # "running"
    /\ effects' = [effects EXCEPT ![r] = @ + 1]
    /\ GoIdle(w)
    /\ UNCHANGED <<status, retryCount, stale, logged, approvalVars, faults>>

\* mark_action_success finds the row no longer running and raises with the command's
\* writes still in the open transaction.  The decision the command inserted keeps the
\* queue row locked; an executor, and a monitor command that only renews a watch,
\* inserted none.
ExecuteUnmarked(w, r) ==
    /\ Holds(w, r) /\ GatePassed(r) /\ r \notin Poison
    /\ status[r] # "running"
    /\ \/ r \notin Adapted /\ pc' = [pc EXCEPT ![w] = "unmarked"]
       \/ r \in Adapted \cup Monitors /\ pc' = [pc EXCEPT ![w] = "unlocked"]
    /\ UNCHANGED <<rowVars, approvalVars, held, faults>>

\* The command or the executor refuses the action (SkippedAction).
ExecuteRejected(w, r) ==
    /\ Holds(w, r) /\ GatePassed(r) /\ r \notin Poison
    /\ status[r] = "running"
    /\ MoveRow(r, "skipped")
    /\ Log(r, "skipped")
    /\ IF r \in Gated THEN ExpirePending ELSE UNCHANGED approvalVars
    /\ GoIdle(w)
    /\ UNCHANGED <<retryCount, effects, faults>>

\* mark_action_failed on a running row.
Fail(r) ==
    /\ status[r] = "running"
    /\ MoveRow(r, "failed")
    /\ retryCount' = [retryCount EXCEPT ![r] = @ + 1]

\* The command raises something that is not an SQL error: a final failure.
ExecuteError(w, r) ==
    /\ Holds(w, r) /\ GatePassed(r) /\ r \notin Poison
    /\ Fail(r)
    /\ Log(r, "failed")
    /\ IF r \in Gated THEN ExpirePending ELSE UNCHANGED approvalVars
    /\ GoIdle(w)
    /\ UNCHANGED <<effects, faults>>

\* The executor raises RetryableActionError: failed, and back to pending in the same
\* transaction while the budget lasts; only the last failure is logged.
ExecuteRetryable(w, r) ==
    /\ Holds(w, r) /\ r \in Adapted
    /\ status[r] = "running"
    /\ retryCount' = [retryCount EXCEPT ![r] = @ + 1]
    /\ IF retryCount[r] + 1 < MaxRetries
       THEN MoveRow(r, "pending") /\ UNCHANGED logged
       ELSE MoveRow(r, "failed") /\ Log(r, "failed")
    /\ GoIdle(w)
    /\ UNCHANGED <<effects, approvalVars, faults>>

\* The handler of mark_action_success's error calls record_action_failure: if another
\* worker has claimed the row meanwhile, that claim is marked failed and whatever the
\* command wrote is committed with it.
RecordLateFailure(w, r) ==
    /\ pc[w] \in {"unmarked", "unlocked"} /\ held[w] = r
    /\ Fail(r)
    /\ logged' = [logged EXCEPT ![r] =
                    @ \cup {"failed"} \cup IF pc[w] = "unmarked" THEN {"executed"} ELSE {}]
    /\ effects' = IF r \in Adapted THEN effects ELSE [effects EXCEPT ![r] = @ + 1]
    /\ IF r \in Gated THEN ExpirePending ELSE UNCHANGED approvalVars
    /\ GoIdle(w)
    /\ UNCHANGED faults

\* A guarded UPDATE matched nothing: QueueTransitionError leaves process_next_action,
\* the runner exits and its transaction is rolled back.
Raise(w, r) ==
    /\ pc[w] # "idle" /\ held[w] = r
    /\ status[r] # "running"
    /\ GoIdle(w)
    /\ UNCHANGED <<rowVars, approvalVars, faults>>

\* A PostgreSQL error aborts the transaction, so record_action_failure raises too.
ExecuteSqlError(w, r) ==
    /\ Holds(w, r) /\ GatePassed(r) /\ r \in Poison
    /\ GoIdle(w)
    /\ UNCHANGED <<rowVars, approvalVars, faults>>

\* The process dies between its transactions or inside the second one.
Crash(w) ==
    /\ pc[w] # "idle"
    /\ faults < MaxFaults
    /\ faults' = faults + 1
    /\ GoIdle(w)
    /\ UNCHANGED <<rowVars, approvalVars>>

-----------------------------------------------------------------------------
\* Recovery, time and operators.

\* No process is working on row r.
Orphan(r) == \A w \in Workers : held[w] # r

\* updated_at falls behind STALE_RUNNING_TIMEOUT; under a live worker that is a fault.
BecomeStale(r) ==
    /\ status[r] = "running" /\ r \notin stale
    /\ \/ Orphan(r) /\ UNCHANGED faults
       \/ ~Orphan(r) /\ faults < MaxFaults /\ faults' = faults + 1
    /\ stale' = stale \cup {r}
    /\ UNCHANGED <<status, retryCount, logged, effects, approvalVars, workerVars>>

\* Mutant of RecoverStale: only the rows of the first retry are recovered.
RecoverStaleUnretried ==
    /\ \E r \in stale : retryCount[r] > 0
    /\ status' = [r \in Rows |-> IF r \in stale /\ retryCount[r] > 0 THEN "pending" ELSE status[r]]
    /\ stale' = {r \in stale : retryCount[r] = 0}
    /\ UNCHANGED <<retryCount, logged, effects, approvalVars, workerVars, faults>>

\* recover_stale_running_actions: retry_count stays as it is.
RecoverStale ==
    /\ stale # {}
    /\ status' = [r \in Rows |->
                    IF r \notin stale THEN status[r]
                    ELSE IF retryCount[r] < MaxRetries THEN "pending" ELSE "failed"]
    /\ stale' = {}
    /\ UNCHANGED <<retryCount, logged, effects, approvalVars, workerVars, faults>>

ApprovalComesDue(r) ==
    /\ approval[r] = "pending" /\ r \notin due
    /\ due' = due \cup {r}
    /\ UNCHANGED <<rowVars, approval, workerVars, faults>>

\* decision_approval_route: a due request raises and the rollback undoes its expiration,
\* so only a request that is not due can be decided.
Decide(r, decision) ==
    /\ approval[r] = "pending" /\ r \notin due
    /\ approval' = [approval EXCEPT ![r] = decision]
    /\ UNCHANGED <<rowVars, due, workerVars, faults>>

\* POST /admin/soar/approvals/expire-pending: expire, then sweep every refused row,
\* without a response_actions_log row.
ExpireAndSweep ==
    /\ RefusedRows(Expired) # {}
    /\ ExpirePending
    /\ status' = [r \in Rows |-> IF r \in RefusedRows(Expired) THEN "skipped" ELSE status[r]]
    /\ stale' = stale \ RefusedRows(Expired)
    /\ UNCHANGED <<retryCount, logged, effects, workerVars, faults>>

-----------------------------------------------------------------------------
WorkerStep(w) ==
    \E r \in Rows :
        \/ ClaimPending(w, r) \/ ClaimApproved(w, r) \/ SkipRefused(w, r)
        \/ GateProtected(w, r) \/ GateHold(w, r)
        \/ ExecuteSuccess(w, r) \/ ExecuteUnmarked(w, r) \/ ExecuteRejected(w, r)
        \/ ExecuteError(w, r) \/ ExecuteRetryable(w, r) \/ ExecuteSqlError(w, r)
        \/ RecordLateFailure(w, r) \/ Raise(w, r)

OperatorStep ==
    \/ ExpireAndSweep
    \/ \E r \in Rows : Decide(r, "approved") \/ Decide(r, "denied")

Next ==
    \/ \E r \in Rows : Enqueue(r) \/ BecomeStale(r) \/ ApprovalComesDue(r)
    \/ \E w \in Workers : WorkerStep(w) \/ Crash(w)
    \/ RecoverStale
    \/ OperatorStep

Spec == Init /\ [][Next]_vars

\* The timer keeps starting the runner, which recovers stale rows and then drains;
\* time passes.  Nobody is obliged to decide an approval.
Fairness ==
    /\ \A w \in Workers : WF_vars(WorkerStep(w))
    /\ WF_vars(RecoverStale)
    /\ \A r \in Rows : WF_vars(BecomeStale(r) /\ Orphan(r)) /\ WF_vars(ApprovalComesDue(r))

FairSpec == Spec /\ Fairness

-----------------------------------------------------------------------------
\* Properties.

\* A block_ip command commits only for a row whose approval request was approved and
\* whose target is not protected, whichever worker runs it and however often the row
\* was recovered and claimed again (_handle_approval_gate).
GatedEffectApproved ==
    \A r \in Gated : effects[r] > 0 => approval[r] = "approved" /\ r \notin Protected

\* A row's command commits at most once although a stale row is run again by a second
\* worker: a row is success only with its effect committed, and a row that is still
\* open or skipped has none (the command shares mark_action_success's transaction).
EffectOnce ==
    \A r \in Rows :
        /\ effects[r] <= 1
        /\ status[r] = "success" => effects[r] = 1
        /\ status[r] \notin {"success", "failed"} => effects[r] = 0

\* An undecided approval belongs to a row that waits for it, and a waiting row has an
\* approval somebody can decide or a decision the next pass will find: no row waits
\* for an approval that does not exist.
ApprovalPairing ==
    \A r \in Rows :
        /\ approval[r] = "pending" => status[r] = "awaiting_approval"
        /\ status[r] = "awaiting_approval" => approval[r] # "none" /\ r \in Gated \ Protected

\* A row that can still be worked on has retry budget left, so stale recovery always
\* returns it to pending (the 'stale running action exhausted retries' branch is dead).
OpenRowsHaveBudget ==
    \A r \in Rows : status[r] \notin Terminal => retryCount[r] < MaxRetries

\* A final row stays final and its command is never committed again, whatever a late
\* worker does ("queue status is a one-way door").
TerminalIsFinal ==
    [][\A r \in Rows : status[r] \in Terminal =>
            status'[r] = status[r] /\ effects'[r] = effects[r]]_vars

\* A decision on an approval is final and none is made once expires_at has passed.
DecisionIsFinal ==
    [][\A r \in Rows :
         /\ approval[r] \in {"approved", "denied", "expired"} => approval'[r] = approval[r]
         /\ r \in due /\ approval'[r] # approval[r] => approval'[r] = "expired"]_vars

\* Every enqueued row reaches a final status: crashed claims are recovered, approvals
\* nobody decides expire.
EnqueuedSettles == \A r \in Rows : status[r] = "pending" ~> status[r] \in Terminal

\* A failed row is never also logged as executed.  Nothing but the row lock that the
\* decision's foreign key holds keeps a recovered row from being claimed, and failed
\* over that claim, by a worker whose command already succeeded.
FailedRowNotExecuted ==
    \A r \in Rows : status[r] = "failed" => "executed" \notin logged[r]

-----------------------------------------------------------------------------
\* The abstract specification the queue implements.

Outcome(r) ==
    CASE status[r] = "absent" -> "absent"
      [] status[r] = "success" -> "done"
      [] status[r] = "failed" -> "failed"
      [] status[r] = "skipped" -> "dropped"
      [] OTHER -> "open"

Decision(r) ==
    CASE approval[r] = "approved" -> "approved"
      [] approval[r] \in {"denied", "expired"} -> "refused"
      [] OTHER -> "undecided"

Promise == INSTANCE GatedActions WITH
    Actions <- Rows,
    outcome <- [r \in Rows |-> Outcome(r)],
    decision <- [r \in Rows |-> Decision(r)],
    performed <- effects

\* The queue does what it promises: every step of a worker, an operator, recovery or time
\* settles, performs, approves or refuses as GatedActions allows, or changes nothing an analyst
\* can see (process_next_action, recover_stale_running_actions, the sweep, the decision route).
KeepsPromise == Promise!Spec
=============================================================================
