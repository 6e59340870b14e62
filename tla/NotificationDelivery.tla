------------------------ MODULE NotificationDelivery ------------------------
(***************************************************************************)
(* The Slack messages about one alert: playbook executions whose            *)
(* notify_slack step sends an equivalent message (one idempotency key of    *)
(* core/notification_policy_service.py), the delivery ledger they share,    *)
(* and the dead letters of executions that failed with the operator's       *)
(* retries (core/dead_letter_store.py, routes/dead_letter_routes.py).       *)
(*                                                                          *)
(* Workers run executions in batches that commit once; a ledger row is      *)
(* visible to its own batch at once and to others from the commit.  What    *)
(* the adapter answers is any of Outcomes: AdapterGuard says when.          *)
(***************************************************************************)
EXTENDS Integers, FiniteSets, Sequences

CONSTANTS
    Execs,        \* execution ids, 1 .. N
    Books,        \* playbooks that match the alert
    Workers,      \* processes that run playbooks
    Operators,    \* concurrent retry-execute requests
    Lookback,     \* rows _existing_policy_delivery looks at
    BatchSize,    \* executions of one batch
    MaxCrashes,   \* bound on crashes
    None          \* no execution, no playbook

ASSUME ExecsAssumption == Execs = 1 .. Cardinality(Execs)
ASSUME NoneAssumption == None \notin Execs /\ None \notin Books
ASSUME BoundsAssumption == Lookback \in Nat \ {0} /\ BatchSize \in Nat \ {0} /\ MaxCrashes \in Nat

VARIABLES
    exec,         \* execution -> committed status
    book,         \* execution -> its playbook
    ledger,       \* statuses of the key's committed delivery rows, oldest first
    draft,        \* worker -> delivery rows of its open batch
    work,         \* worker -> execution -> outcome in its open batch
    letter,       \* execution -> status of its dead letter
    retryOf,      \* execution -> the execution whose dead letter it retries
    asked,        \* operator -> the dead letter its retry-execute request found retrying
    sent,         \* messages that left the system
    crashes

storeVars == <<exec, book, ledger, letter, retryOf>>
batchVars == <<draft, work>>
vars == <<storeVars, batchVars, asked, sent, crashes>>

\* "duplicate" is status blocked with failure_code duplicate_delivery.
Rows == {"success", "failed", "blocked", "duplicate"}
Letters == {"none", "open", "retrying", "retried", "dismissed"}

TypeOK ==
    /\ exec \in [Execs -> {"absent", "pending", "success", "failed"}]
    /\ book \in [Execs -> Books \cup {None}]
    /\ ledger \in Seq(Rows) /\ draft \in [Workers -> Seq(Rows)]
    /\ work \in [Workers -> [Execs -> {"no", "success", "failed"}]]
    /\ letter \in [Execs -> Letters]
    /\ retryOf \in [Execs -> Execs \cup {None}]
    /\ asked \in [Operators -> Execs \cup {None}]
    /\ sent \in Nat /\ crashes \in 0 .. MaxCrashes

NoWork == [e \in Execs |-> "no"]

Init ==
    /\ exec = [e \in Execs |-> "absent"] /\ book = [e \in Execs |-> None]
    /\ ledger = <<>>
    /\ draft = [w \in Workers |-> <<>>] /\ work = [w \in Workers |-> NoWork]
    /\ letter = [e \in Execs |-> "none"] /\ retryOf = [e \in Execs |-> None]
    /\ asked = [o \in Operators |-> None]
    /\ sent = 0 /\ crashes = 0

-----------------------------------------------------------------------------
\* Workers.

\* What a query of worker w sees of the ledger.
Visible(w) == ledger \o draft[w]

\* Mutant of Delivered: rows of other open batches are seen as well.
DeliveredUncommitted(w) ==
    \E v \in Workers : \E i \in DOMAIN Visible(v) : Visible(v)[i] = "success"

\* _existing_policy_delivery: the newest Lookback rows of the key hold a delivery.
Delivered(w) ==
    LET rows == Visible(w)
        oldest == IF Len(rows) > Lookback THEN Len(rows) - Lookback + 1 ELSE 1
    IN  \E i \in oldest .. Len(rows) : rows[i] = "success"

\* An execution no worker has claimed (FOR UPDATE SKIP LOCKED), in a batch that is not full.
Claimable(w, e) ==
    /\ exec[e] = "pending" /\ \A v \in Workers : work[v][e] = "no"
    /\ Cardinality({f \in Execs : work[w][f] # "no"}) < BatchSize

\* What became of the execution, and a row of the ledger, in the worker's batch.
Finish(w, e, outcome) == work' = [work EXCEPT ![w][e] = outcome]
Record(w, row) == draft' = [draft EXCEPT ![w] = Append(@, row)]

\* An equivalent message was delivered: the step succeeds without a call.
NotifySuppressed(w, e) ==
    /\ Claimable(w, e) /\ Delivered(w)
    /\ Record(w, "duplicate") /\ Finish(w, e, "success")
    /\ UNCHANGED <<storeVars, asked, sent, crashes>>

\* The call succeeds.
NotifySent(w, e) ==
    /\ Claimable(w, e) /\ ~Delivered(w)
    /\ sent' = sent + 1
    /\ Record(w, "success") /\ Finish(w, e, "success")
    /\ UNCHANGED <<storeVars, asked, crashes>>

\* The provider refuses or does not answer in time: the message may have gone out.
NotifyFailed(w, e) ==
    /\ Claimable(w, e) /\ ~Delivered(w)
    /\ sent' \in {sent, sent + 1}
    /\ Record(w, "failed") /\ Finish(w, e, "failed")
    /\ UNCHANGED <<storeVars, asked, crashes>>

\* Breaker, rate limit, guards or credentials keep the call back.
NotifyBlocked(w, e) ==
    /\ Claimable(w, e) /\ ~Delivered(w)
    /\ Record(w, "blocked") /\ Finish(w, e, "failed")
    /\ UNCHANGED <<storeVars, asked, sent, crashes>>

\* The notification policy sends nothing for this source or severity: asked before anything
\* else, recorded as blocked, and the step succeeds.
NotifyWithheld(w, e) ==
    /\ Claimable(w, e)
    /\ Record(w, "blocked") /\ Finish(w, e, "success")
    /\ UNCHANGED <<storeVars, asked, sent, crashes>>

\* An exception leaves the adapter: _process_steps fails the step, and no row is written.
NotifyRaised(w, e) ==
    /\ Claimable(w, e) /\ ~Delivered(w)
    /\ sent' \in {sent, sent + 1}
    /\ Finish(w, e, "failed")
    /\ UNCHANGED <<storeVars, draft, asked, crashes>>

\* The batch commits: statuses, rows, and a dead letter for each execution that failed.
Commit(w) ==
    /\ work[w] # NoWork
    /\ exec' = [e \in Execs |-> IF work[w][e] = "no" THEN exec[e] ELSE work[w][e]]
    /\ letter' = [e \in Execs |-> IF work[w][e] = "failed" THEN "open" ELSE letter[e]]
    /\ ledger' = ledger \o draft[w]
    /\ draft' = [draft EXCEPT ![w] = <<>>] /\ work' = [work EXCEPT ![w] = NoWork]
    /\ UNCHANGED <<book, retryOf, asked, sent, crashes>>

\* The worker dies, or the database does: the batch is rolled back.
Crash(w) ==
    /\ crashes < MaxCrashes /\ work[w] # NoWork
    /\ crashes' = crashes + 1
    /\ draft' = [draft EXCEPT ![w] = <<>>] /\ work' = [work EXCEPT ![w] = NoWork]
    /\ UNCHANGED <<storeVars, asked, sent>>

-----------------------------------------------------------------------------
\* Executions and dead letters.

\* The partial unique index on active (playbook_id, alert_id).
PairFree(b) == \A e \in Execs : book[e] = b => exec[e] # "pending"

\* A new row, with the next id.
Insert(e, b, source) ==
    /\ exec[e] = "absent" /\ \A d \in Execs : d < e => exec[d] # "absent"
    /\ PairFree(b)
    /\ exec' = [exec EXCEPT ![e] = "pending"]
    /\ book' = [book EXCEPT ![e] = b]
    /\ retryOf' = [retryOf EXCEPT ![e] = source]

\* create_pending_playbook_execution_once.
Trigger(e, b) ==
    /\ Insert(e, b, None)
    /\ UNCHANGED <<ledger, letter, batchVars, asked, sent, crashes>>

\* mark_dead_letter_dismissed and mark_dead_letter_retry_requested: one guarded UPDATE each.
MoveLetter(e, from, to) ==
    /\ letter[e] \in from
    /\ letter' = [letter EXCEPT ![e] = to]
    /\ UNCHANGED <<exec, book, ledger, retryOf, batchVars, asked, sent, crashes>>

Dismiss(e) == MoveLetter(e, {"open", "retrying"}, "dismissed")
RetryRequest(e) == MoveLetter(e, {"open"}, "retrying")

\* retry_execute_dead_letter reads the letter ...
RetryCheck(o, e) ==
    /\ asked[o] = None /\ letter[e] = "retrying"
    /\ asked' = [asked EXCEPT ![o] = e]
    /\ UNCHANGED <<storeVars, batchVars, sent, crashes>>

\* Mutant of StillRetrying: mark_dead_letter_retried does not look at the status again.
StillRetryingUnchecked(e) == TRUE

\* mark_dead_letter_retried, FOR UPDATE.
StillRetrying(e) == letter[e] = "retrying"

\* ... and in one transaction creates the retry and marks the letter, or rolls back.
RetryExecute(o, f) ==
    LET e == asked[o] IN
    /\ e # None /\ exec[e] = "failed"
    /\ Insert(f, book[e], e)
    /\ StillRetrying(e)
    /\ letter' = [letter EXCEPT ![e] = "retried"]
    /\ asked' = [asked EXCEPT ![o] = None]
    /\ UNCHANGED <<ledger, batchVars, sent, crashes>>

RetryRefused(o) ==
    /\ asked[o] # None
    /\ ~StillRetrying(asked[o]) \/ ~PairFree(book[asked[o]])
    /\ asked' = [asked EXCEPT ![o] = None]
    /\ UNCHANGED <<storeVars, batchVars, sent, crashes>>

-----------------------------------------------------------------------------
Deliver(w, e) == NotifySuppressed(w, e) \/ NotifySent(w, e) \/ NotifyFailed(w, e)
                 \/ NotifyBlocked(w, e) \/ NotifyWithheld(w, e) \/ NotifyRaised(w, e)
WorkerStep(w) == Commit(w) \/ \E e \in Execs : Deliver(w, e)

LetterStep ==
    \/ \E e \in Execs : Dismiss(e) \/ RetryRequest(e)
    \/ \E o \in Operators : RetryRefused(o) \/ \E e \in Execs : RetryCheck(o, e) \/ RetryExecute(o, e)

Next ==
    \/ \E w \in Workers : WorkerStep(w) \/ Crash(w)
    \/ \E e \in Execs, b \in Books : Trigger(e, b)
    \/ LetterStep

Spec == Init /\ [][Next]_vars

-----------------------------------------------------------------------------
\* Properties.

\* A message is suppressed only behind a delivery that is on record: whatever batches
\* were rolled back or committed in between, a committed duplicate row has a committed
\* success before it (_existing_policy_delivery inside the batch's transaction).
SuppressedBehindDelivery ==
    \A i \in 1 .. Len(ledger) :
        ledger[i] = "duplicate" => \E j \in 1 .. i - 1 : ledger[j] = "success"

\* An operator's retry of a dead letter starts one execution: a letter is marked retried
\* exactly when an execution retries it, and no two do, also when two requests race each
\* other, the execution they start, and a dismissal (retry_execute_dead_letter).
LetterRetriedOnce ==
    /\ \A e \in Execs : letter[e] = "retried" <=> \E f \in Execs : retryOf[f] = e
    /\ \A f, g \in Execs : retryOf[f] # None /\ retryOf[f] = retryOf[g] => f = g
=============================================================================
