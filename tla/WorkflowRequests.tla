-------------------------- MODULE WorkflowRequests --------------------------
(***************************************************************************)
(* Anakin conversations: one thread of core/ai/session_memory_store.py, the *)
(* asynchronous requests of core/ai/workflow_request_store.py linked to its *)
(* turns, and the workers of core/ai/workflow_request_worker.py that answer *)
(* them; Quick Explain turns are answered by the web process itself.        *)
(*                                                                          *)
(* A submission is a client_request_id: its user turn and, when it is       *)
(* asynchronous, its request carry the same identity.  A step is one        *)
(* committed transaction.  Text, entities, evidence and stages are left     *)
(* out; time is two facts: a lease is past lease_expires_at, and the thread *)
(* is past expires_at.                                                      *)
(***************************************************************************)
EXTENDS Integers, FiniteSets

CONSTANTS
    Async,        \* submissions answered by a worker, linked to a turn
    Loose,        \* requests without a turn (repository assistant, NIST explanation)
    Sync,         \* Quick Explain submissions
    Notes,        \* analyst statements and corrections, recorded without an answer
    Workers,      \* worker processes; each run leases under a name of its own
    MaxAttempts,  \* max_attempts of a request
    MaxFaults,    \* bound on crashes and on leases lost by a live worker
    Nobody        \* lease_owner of a request without a lease

Requests == Async \cup Loose
Turns == Async \cup Sync \cup Notes
Subs == Requests \cup Turns

ASSUME KindsAssumption ==
    /\ Async \cap Loose = {} /\ Async \cap Sync = {} /\ Async \cap Notes = {}
    /\ Loose \cap Sync = {} /\ Loose \cap Notes = {} /\ Sync \cap Notes = {}
ASSUME AttemptsAssumption == MaxAttempts \in 1 .. 5
ASSUME FaultsAssumption == MaxFaults \in Nat
ASSUME NobodyAssumption == Nobody \notin Workers /\ Nobody \notin Subs

VARIABLES
    request,      \* request -> status; "completed" stands for completed, partial and degraded
    attempts,     \* request -> attempt_count
    lease,        \* request -> lease_owner
    lapsed,       \* running requests past lease_expires_at
    turn,         \* submission -> lifecycle_status of its user turn
    askedAt,      \* submission -> thread_version_after_append of its turn, 0 without one
    answeredAt,   \* submission -> the thread version its assistant turn made, 0 without one
    version,      \* the thread's version
    thread,       \* the thread's status
    pc,           \* worker -> where its run stands
    job,          \* worker -> the request it claimed
    serving,      \* Sync submissions a web process is generating for
    faults

requestVars == <<request, attempts, lease, lapsed>>
threadVars == <<turn, askedAt, answeredAt, version, thread>>
workerVars == <<pc, job>>
vars == <<requestVars, threadVars, workerVars, serving, faults>>

Open == {"queued", "running"}
Finished == {"completed", "failed", "timed_out"}

TypeOK ==
    /\ request \in [Requests -> {"absent"} \cup Open \cup Finished]
    /\ attempts \in [Requests -> 0 .. MaxAttempts]
    /\ lease \in [Requests -> Workers \cup {Nobody}]
    /\ lapsed \subseteq Requests
    /\ turn \in [Turns -> {"none", "recorded", "queued", "completed", "failed"}]
    /\ askedAt \in [Turns -> Nat] /\ answeredAt \in [Turns -> Nat]
    /\ version \in Nat
    /\ thread \in {"active", "expired", "reset"}
    /\ pc \in [Workers -> {"off", "idle", "claimed", "generating"}]
    /\ job \in [Workers -> Requests \cup {Nobody}]
    /\ serving \subseteq Sync
    /\ faults \in 0 .. MaxFaults

Init ==
    /\ request = [r \in Requests |-> "absent"]
    /\ attempts = [r \in Requests |-> 0]
    /\ lease = [r \in Requests |-> Nobody]
    /\ lapsed = {}
    /\ turn = [s \in Turns |-> "none"]
    /\ askedAt = [s \in Turns |-> 0] /\ answeredAt = [s \in Turns |-> 0]
    /\ version = 1 /\ thread = "active"
    /\ pc = [w \in Workers |-> "off"] /\ job = [w \in Workers |-> Nobody]
    /\ serving = {}
    /\ faults = 0

-----------------------------------------------------------------------------
\* The session store's transactions, as fragments of the actions below.

\* Mutant of Idle: a second execution may start while one is open.
IdleUnchecked == TRUE

\* No turn of the thread is being answered (lifecycle_status queued; no code sets running).
Idle == \A s \in Turns : turn[s] # "queued"

\* append_turn, FOR UPDATE on the thread, for a client that saw the current version.
\* Any other client, and a repeated client_request_id, changes nothing.
Append(s, lifecycle) ==
    /\ thread = "active" /\ turn[s] = "none"
    /\ lifecycle = "queued" => Idle
    /\ turn' = [turn EXCEPT ![s] = lifecycle]
    /\ askedAt' = [askedAt EXCEPT ![s] = version + 1]
    /\ version' = version + 1
    /\ UNCHANGED <<answeredAt, thread>>

\* Mutant of Answerable: the completion does not compare the thread's version.
AnswerableAtAnyVersion(s) == thread = "active" /\ turn[s] = "queued"

\* finalize_execution_turn accepts the answer: nothing was appended since the question.
Answerable(s) == thread = "active" /\ version = askedAt[s] /\ turn[s] = "queued"

Finalize(s) ==
    /\ Answerable(s)
    /\ turn' = [turn EXCEPT ![s] = "completed"]
    /\ answeredAt' = [answeredAt EXCEPT ![s] = version + 1]
    /\ version' = version + 1
    /\ UNCHANGED <<askedAt, thread>>

\* fail_execution_turn closes an open turn, whatever became of its thread.
FailTurn(s) ==
    /\ turn' = IF s \in Turns /\ turn[s] = "queued" THEN [turn EXCEPT ![s] = "failed"] ELSE turn
    /\ UNCHANGED <<askedAt, answeredAt, version, thread>>

-----------------------------------------------------------------------------
\* Submissions.

\* queue_conversational_request: the queued turn, the request and their link commit together.
SubmitAsync(r) ==
    /\ Append(r, "queued")
    /\ request' = [request EXCEPT ![r] = "queued"]
    /\ UNCHANGED <<attempts, lease, lapsed, workerVars, serving, faults>>

\* queue_workflow_request without a conversation.
SubmitLoose(r) ==
    /\ request[r] = "absent"
    /\ request' = [request EXCEPT ![r] = "queued"]
    /\ UNCHANGED <<attempts, lease, lapsed, threadVars, workerVars, serving, faults>>

\* run_conversational_workflow: the turn commits before generation starts.
SubmitSync(s) ==
    /\ Append(s, "queued")
    /\ serving' = serving \cup {s}
    /\ UNCHANGED <<requestVars, workerVars, faults>>

\* The planner asks back or refuses: question and answer commit together.
Clarify(s) ==
    /\ thread = "active" /\ turn[s] = "none" /\ Idle
    /\ turn' = [turn EXCEPT ![s] = "completed"]
    /\ askedAt' = [askedAt EXCEPT ![s] = version + 1]
    /\ answeredAt' = [answeredAt EXCEPT ![s] = version + 2]
    /\ version' = version + 2
    /\ UNCHANGED <<requestVars, thread, workerVars, serving, faults>>

\* submit_thread_turn_request, also while an execution is open.
SubmitNote(s) ==
    /\ Append(s, "recorded")
    /\ UNCHANGED <<requestVars, workerVars, serving, faults>>

\* _complete_sync: the answer is stored, or the turn fails.
FinishSync(s) ==
    /\ s \in serving
    /\ Finalize(s) \/ FailTurn(s)
    /\ serving' = serving \ {s}
    /\ UNCHANGED <<requestVars, workerVars, faults>>

\* The web process dies while it generates.
CrashSync(s) ==
    /\ s \in serving /\ faults < MaxFaults
    /\ serving' = serving \ {s}
    /\ faults' = faults + 1
    /\ UNCHANGED <<requestVars, threadVars, workerVars>>

\* reset_thread, and the expiry every read of a due thread commits.
CloseThread(status) ==
    /\ thread = "active"
    /\ thread' = status
    /\ version' = version + 1
    /\ UNCHANGED <<requestVars, turn, askedAt, answeredAt, workerVars, serving, faults>>

-----------------------------------------------------------------------------
\* run_anakin_workflow_worker.

GoTo(w, state, r) == pc' = [pc EXCEPT ![w] = state] /\ job' = [job EXCEPT ![w] = r]

\* Mutant of Recovered: only the lease is taken away.
RecoveredLeaseOnly(r) == "running"

\* recover_stale_requests: what becomes of a lapsed request.
Recovered(r) == IF attempts[r] < MaxAttempts THEN "queued" ELSE "timed_out"

\* A run starts with the recovery; the linked turns are not touched.
StartRun(w) ==
    /\ pc[w] = "off"
    /\ request' = [r \in Requests |-> IF r \in lapsed THEN Recovered(r) ELSE request[r]]
    /\ lease' = [r \in Requests |-> IF r \in lapsed THEN Nobody ELSE lease[r]]
    /\ lapsed' = {}
    /\ GoTo(w, "idle", Nobody)
    /\ UNCHANGED <<attempts, threadVars, serving, faults>>

\* The batch is full, nothing is queued, the deadline passed or a shutdown was asked for.
EndRun(w) ==
    /\ pc[w] = "idle"
    /\ GoTo(w, "off", Nobody)
    /\ UNCHANGED <<requestVars, threadVars, serving, faults>>

\* claim_next_request; the priorities of one class of requests put no order on them.
Claim(w, r) ==
    /\ pc[w] = "idle" /\ request[r] = "queued"
    /\ request' = [request EXCEPT ![r] = "running"]
    /\ attempts' = [attempts EXCEPT ![r] = @ + 1]
    /\ lease' = [lease EXCEPT ![r] = w]
    /\ GoTo(w, "claimed", r)
    /\ UNCHANGED <<lapsed, threadVars, serving, faults>>

\* The guard of every store update: status = 'running' AND lease_owner = owner.
Owns(w, r) == request[r] = "running" /\ lease[r] = w

\* prepare_worker_conversation finds the turn open in an active thread; the stages are
\* written and heartbeat_request renews the lease, both only for the owner.
Prepare(w, r) ==
    /\ pc[w] = "claimed" /\ job[w] = r
    /\ r \in Async => thread = "active" /\ turn[r] = "queued"
    /\ lapsed' = IF Owns(w, r) THEN lapsed \ {r} ELSE lapsed
    /\ GoTo(w, "generating", r)
    /\ UNCHANGED <<request, attempts, lease, threadVars, serving, faults>>

\* complete_request and fail_request give the lease back with the final status.
Release(r, status) ==
    /\ request' = [request EXCEPT ![r] = status]
    /\ lease' = [lease EXCEPT ![r] = Nobody]
    /\ lapsed' = lapsed \ {r}
    /\ UNCHANGED attempts

\* Mutant of Complete: the answer commits before the request is closed.
CompleteInTwoTransactions(w, r) ==
    /\ pc[w] = "generating" /\ job[w] = r
    /\ IF r \in Async THEN Finalize(r) ELSE UNCHANGED threadVars
    /\ GoTo(w, IF Owns(w, r) THEN "claimed" ELSE "off", IF Owns(w, r) THEN r ELSE Nobody)
    /\ UNCHANGED <<requestVars, serving, faults>>

\* The answer and complete_request commit together.
Complete(w, r) ==
    /\ pc[w] = "generating" /\ job[w] = r
    /\ Owns(w, r)
    /\ IF r \in Async THEN Finalize(r) ELSE UNCHANGED threadVars
    /\ Release(r, "completed")
    /\ GoTo(w, "idle", Nobody)
    /\ UNCHANGED <<serving, faults>>

\* The model answers with a failure: the turn fails, the request ends degraded or failed.
CompleteWithoutAnswer(w, r) ==
    /\ pc[w] = "generating" /\ job[w] = r
    /\ Owns(w, r)
    /\ FailTurn(r)
    /\ Release(r, "completed") \/ Release(r, "failed")
    /\ GoTo(w, "idle", Nobody)
    /\ UNCHANGED <<serving, faults>>

\* Any exception: what was written is rolled back, turn and request fail together.
Fail(w, r) ==
    /\ pc[w] \in {"claimed", "generating"} /\ job[w] = r
    /\ Owns(w, r)
    /\ FailTurn(r)
    /\ Release(r, "failed")
    /\ GoTo(w, "idle", Nobody)
    /\ UNCHANGED <<serving, faults>>

\* The lease is gone: complete_request and fail_request match nothing, the exception
\* leaves the run, and its rollback also undoes fail_worker_conversation.
LoseLease(w, r) ==
    /\ pc[w] \in {"claimed", "generating"} /\ job[w] = r
    /\ ~Owns(w, r)
    /\ GoTo(w, "off", Nobody)
    /\ UNCHANGED <<requestVars, threadVars, serving, faults>>

Crash(w) ==
    /\ pc[w] # "off" /\ faults < MaxFaults
    /\ faults' = faults + 1
    /\ GoTo(w, "off", Nobody)
    /\ UNCHANGED <<requestVars, threadVars, serving>>

\* The owner of r's lease is at work on it.
Attended(r) == \E w \in Workers : lease[r] = w /\ job[w] = r

\* lease_expires_at passes; under a live worker that is a fault (240 seconds without heartbeat).
Lapse(r) ==
    /\ request[r] = "running" /\ r \notin lapsed
    /\ \/ ~Attended(r) /\ UNCHANGED faults
       \/ Attended(r) /\ faults < MaxFaults /\ faults' = faults + 1
    /\ lapsed' = lapsed \cup {r}
    /\ UNCHANGED <<request, attempts, lease, threadVars, workerVars, serving>>

-----------------------------------------------------------------------------
Work(w) == \E r \in Requests : Prepare(w, r) \/ Complete(w, r) \/ CompleteWithoutAnswer(w, r)
                               \/ Fail(w, r) \/ LoseLease(w, r)

Next ==
    \/ \E r \in Async : SubmitAsync(r)
    \/ \E r \in Loose : SubmitLoose(r)
    \/ \E s \in Sync : SubmitSync(s) \/ Clarify(s) \/ FinishSync(s) \/ CrashSync(s)
    \/ \E s \in Notes : SubmitNote(s)
    \/ CloseThread("expired") \/ CloseThread("reset")
    \/ \E w \in Workers : StartRun(w) \/ EndRun(w) \/ Work(w) \/ Crash(w)
    \/ \E w \in Workers, r \in Requests : Claim(w, r)
    \/ \E r \in Requests : Lapse(r)

Spec == Init /\ [][Next]_vars

\* The timer starts a run ten seconds after the last one ended, a run takes what is
\* queued and ends within max_runtime_seconds, and the clock passes lease_expires_at.
Fairness ==
    /\ \A w \in Workers : WF_vars(StartRun(w)) /\ WF_vars(EndRun(w)) /\ WF_vars(Work(w))
    /\ \A r \in Requests : /\ SF_vars(\E w \in Workers : Claim(w, r))
                           /\ WF_vars(Lapse(r) /\ ~Attended(r))

FairSpec == Spec /\ Fairness

-----------------------------------------------------------------------------
\* Properties.

\* A thread has one execution at a time, whichever mix of web requests and workers
\* opens and closes them (append_turn's check under the thread lock).
OneExecution == \A s, t \in Turns : turn[s] = "queued" /\ turn[t] = "queued" => s = t

\* An answer stands directly behind its question: no turn was appended in between, no
\* question has two answers, and no failed turn has one, even when a request whose
\* lease ran out is answered by two workers (finalize_execution_turn).
AnswerFollowsQuestion ==
    \A s \in Turns :
        /\ turn[s] = "completed" => answeredAt[s] = askedAt[s] + 1
        /\ turn[s] # "completed" => answeredAt[s] = 0
        /\ \A t \in Turns : turn[s] = "completed" => askedAt[t] # answeredAt[s]

\* A request and its turn close together: an open request has an open turn, and a turn
\* is completed or failed only by the transaction that closes the request.
RequestAndTurnAgree ==
    \A r \in Async :
        /\ request[r] = "absent" <=> turn[r] = "none"
        /\ request[r] \in Open => turn[r] = "queued"
        /\ request[r] \in {"completed", "failed"} => turn[r] \in {"completed", "failed"}
        /\ turn[r] = "completed" => request[r] = "completed"
        /\ turn[r] = "failed" => request[r] \in {"completed", "failed"}

\* A queued request has an attempt left, so recovery never revives one for good.
QueuedHasAttemptLeft == \A r \in Requests : request[r] = "queued" => attempts[r] < MaxAttempts

\* Only the worker that holds the lease completes or fails a request; a worker that was
\* declared stale leaves the request, and the turn, to its successor.
OnlyOwnerCloses ==
    [][\A r \in Requests :
         request[r] = "running" /\ request'[r] \in {"completed", "failed"} =>
            \E w \in Workers : lease[r] = w /\ job[w] = r /\ pc'[w] = "idle"]_vars

\* Every request a client queued is answered, fails or times out.
RequestSettles == \A r \in Requests : request[r] = "queued" ~> request[r] \in Finished

=============================================================================
