------------------------ MODULE ResponseQueueProofs ------------------------
(***************************************************************************)
(* Proofs about ResponseQueue for every set of rows and workers, every     *)
(* retry budget and every number of faults.                                *)
(***************************************************************************)
EXTENDS ResponseQueue, TLAPS

\* Only running rows are stale, for every status change refreshes updated_at; only undecided
\* requests are due.
TimeMarks ==
    /\ \A r \in stale : status[r] = "running"
    /\ \A r \in due : approval[r] = "pending"

\* A worker past mark_action_success's error passed the gate, and while its decision
\* locks the row nobody runs it.
LateWorkers ==
    \A w \in Workers : pc[w] \in {"unmarked", "unlocked"} =>
        /\ held[w] \in Rows
        /\ GatePassed(held[w])
        /\ pc[w] = "unmarked" => status[held[w]] # "running"

\* An "executed" log row belongs to a row that succeeded.
ExecutedRowsSucceeded == \A r \in Rows : "executed" \in logged[r] => status[r] = "success"

\* The inductive invariant.
IInv ==
    /\ TypeOK
    /\ OpenRowsHaveBudget
    /\ EffectOnce
    /\ ApprovalPairing
    /\ GatedEffectApproved
    /\ TimeMarks
    /\ LateWorkers
    /\ ExecutedRowsSucceeded

-----------------------------------------------------------------------------
\* The initial state satisfies the inductive invariant (empty tables, idle workers).
LEMMA InitEstablishes == Init => IInv
  BY RetriesAssumption, FaultsAssumption, KindsAssumption
  DEF Init, IInv, TypeOK, OpenRowsHaveBudget, EffectOnce, ApprovalPairing,
      GatedEffectApproved, TimeMarks, LateWorkers, ExecutedRowsSucceeded,
      Statuses, Terminal, ApprovalStatuses, LogStatuses

\* Type correctness and the retry budget are preserved by every step.
LEMMA TypePreserved == IInv /\ [Next]_vars => TypeOK' /\ OpenRowsHaveBudget'
<1> SUFFICES ASSUME IInv, [Next]_vars PROVE TypeOK' /\ OpenRowsHaveBudget'
  OBVIOUS
<1> USE RetriesAssumption, FaultsAssumption, NoRowAssumption
<1> USE DEF IInv, TypeOK, OpenRowsHaveBudget, TimeMarks, Statuses, Terminal,
            ApprovalStatuses, LogStatuses, rowVars, approvalVars, workerVars, MoveRow, Log, GoIdle, Take
<1>1. ASSUME NEW r \in Rows, Enqueue(r) PROVE TypeOK' /\ OpenRowsHaveBudget'
  BY <1>1 DEF Enqueue
<1>2. ASSUME NEW r \in Rows, BecomeStale(r) PROVE TypeOK' /\ OpenRowsHaveBudget'
  BY <1>2 DEF BecomeStale
<1>3. ASSUME NEW r \in Rows, ApprovalComesDue(r) PROVE TypeOK' /\ OpenRowsHaveBudget'
  BY <1>3 DEF ApprovalComesDue
<1>4. ASSUME NEW w \in Workers, NEW r \in Rows, ClaimPending(w, r)
      PROVE TypeOK' /\ OpenRowsHaveBudget'
  BY <1>4 DEF ClaimPending, Lowest, PendingRows
<1>5. ASSUME NEW w \in Workers, NEW r \in Rows, ClaimApproved(w, r)
      PROVE TypeOK' /\ OpenRowsHaveBudget'
  BY <1>5 DEF ClaimApproved, Lowest, ApprovedRows, ExpirePending, Expired
<1>6. ASSUME NEW w \in Workers, NEW r \in Rows, SkipRefused(w, r)
      PROVE TypeOK' /\ OpenRowsHaveBudget'
  BY <1>6 DEF SkipRefused, ExpirePending, Expired
<1>7. ASSUME NEW w \in Workers, NEW r \in Rows, GateProtected(w, r)
      PROVE TypeOK' /\ OpenRowsHaveBudget'
  BY <1>7 DEF GateProtected
<1>8. ASSUME NEW w \in Workers, NEW r \in Rows, GateHold(w, r)
      PROVE TypeOK' /\ OpenRowsHaveBudget'
  BY <1>8 DEF GateHold, GateStatus, Expired
<1>9. ASSUME NEW w \in Workers, NEW r \in Rows, ExecuteSuccess(w, r)
      PROVE TypeOK' /\ OpenRowsHaveBudget'
  BY <1>9 DEF ExecuteSuccess, ExpirePending, Expired
<1>10. ASSUME NEW w \in Workers, NEW r \in Rows, ExecuteUnmarked(w, r)
      PROVE TypeOK' /\ OpenRowsHaveBudget'
  BY <1>10 DEF ExecuteUnmarked
<1>11. ASSUME NEW w \in Workers, NEW r \in Rows, ExecuteRejected(w, r)
      PROVE TypeOK' /\ OpenRowsHaveBudget'
  BY <1>11 DEF ExecuteRejected, ExpirePending, Expired
<1>12. ASSUME NEW w \in Workers, NEW r \in Rows, ExecuteError(w, r)
      PROVE TypeOK' /\ OpenRowsHaveBudget'
  BY <1>12 DEF ExecuteError, Fail, ExpirePending, Expired
<1>13. ASSUME NEW w \in Workers, NEW r \in Rows, ExecuteRetryable(w, r)
      PROVE TypeOK' /\ OpenRowsHaveBudget'
  BY <1>13 DEF ExecuteRetryable
<1>14. ASSUME NEW w \in Workers, NEW r \in Rows, ExecuteSqlError(w, r)
      PROVE TypeOK' /\ OpenRowsHaveBudget'
  BY <1>14 DEF ExecuteSqlError
<1>15. ASSUME NEW w \in Workers, NEW r \in Rows, RecordLateFailure(w, r)
      PROVE TypeOK' /\ OpenRowsHaveBudget'
  BY <1>15 DEF RecordLateFailure, Fail, ExpirePending, Expired
<1>16. ASSUME NEW w \in Workers, NEW r \in Rows, Raise(w, r)
      PROVE TypeOK' /\ OpenRowsHaveBudget'
  BY <1>16 DEF Raise
<1>17. ASSUME NEW w \in Workers, Crash(w) PROVE TypeOK' /\ OpenRowsHaveBudget'
  BY <1>17 DEF Crash
<1>18. ASSUME RecoverStale PROVE TypeOK' /\ OpenRowsHaveBudget'
  BY <1>18 DEF RecoverStale
<1>19. ASSUME NEW r \in Rows, NEW d \in {"approved", "denied"}, Decide(r, d)
       PROVE TypeOK' /\ OpenRowsHaveBudget'
  BY <1>19 DEF Decide
<1>20. ASSUME ExpireAndSweep PROVE TypeOK' /\ OpenRowsHaveBudget'
  BY <1>20 DEF ExpireAndSweep, ExpirePending, Expired, RefusedRows
<1>21. CASE UNCHANGED vars
  BY <1>21 DEF vars
<1> QED
  BY <1>1, <1>2, <1>3, <1>4, <1>5, <1>6, <1>7, <1>8, <1>9, <1>10, <1>11, <1>12, <1>13,
     <1>14, <1>15, <1>16, <1>17, <1>18, <1>19, <1>20, <1>21
  DEF Next, WorkerStep, OperatorStep

\* The marks that time leaves stay on running rows and on undecided requests.
LEMMA MarksPreserved == IInv /\ [Next]_vars => TimeMarks'
<1> SUFFICES ASSUME IInv, [Next]_vars PROVE TimeMarks'
  OBVIOUS
<1> USE KindsAssumption, RetriesAssumption, NoRowAssumption
<1> USE DEF IInv, TypeOK, TimeMarks, Statuses, Terminal, ApprovalStatuses, LogStatuses,
            rowVars, approvalVars, workerVars, MoveRow, Log, GoIdle, Take
<1>1. ASSUME NEW r \in Rows, Enqueue(r) PROVE TimeMarks'
  BY <1>1 DEF Enqueue
<1>2. ASSUME NEW r \in Rows, BecomeStale(r) PROVE TimeMarks'
  BY <1>2 DEF BecomeStale
<1>3. ASSUME NEW r \in Rows, ApprovalComesDue(r) PROVE TimeMarks'
  BY <1>3 DEF ApprovalComesDue
<1>4. ASSUME NEW w \in Workers, NEW r \in Rows, ClaimPending(w, r) PROVE TimeMarks'
  BY <1>4 DEF ClaimPending, Lowest, PendingRows, Locked
<1>5. ASSUME NEW w \in Workers, NEW r \in Rows, ClaimApproved(w, r) PROVE TimeMarks'
  BY <1>5 DEF ClaimApproved, Lowest, ApprovedRows, Locked, ExpirePending, Expired
<1>6. ASSUME NEW w \in Workers, NEW r \in Rows, SkipRefused(w, r) PROVE TimeMarks'
  BY <1>6 DEF SkipRefused, Lowest, RefusedRows, ExpirePending, Expired
<1>7. ASSUME NEW w \in Workers, NEW r \in Rows, GateProtected(w, r) PROVE TimeMarks'
  BY <1>7 DEF GateProtected, Holds
<1>8. ASSUME NEW w \in Workers, NEW r \in Rows, GateHold(w, r) PROVE TimeMarks'
  BY <1>8 DEF GateHold, GateStatus, Holds, Expired
<1>9. ASSUME NEW w \in Workers, NEW r \in Rows, ExecuteSuccess(w, r) PROVE TimeMarks'
  BY <1>9 DEF ExecuteSuccess, Holds, ExpirePending, Expired
<1>10. ASSUME NEW w \in Workers, NEW r \in Rows, ExecuteUnmarked(w, r) PROVE TimeMarks'
  BY <1>10 DEF ExecuteUnmarked, Holds
<1>11. ASSUME NEW w \in Workers, NEW r \in Rows, ExecuteRejected(w, r) PROVE TimeMarks'
  BY <1>11 DEF ExecuteRejected, Holds, ExpirePending, Expired
<1>12. ASSUME NEW w \in Workers, NEW r \in Rows, ExecuteError(w, r) PROVE TimeMarks'
  BY <1>12 DEF ExecuteError, Fail, Holds, ExpirePending, Expired
<1>13. ASSUME NEW w \in Workers, NEW r \in Rows, ExecuteRetryable(w, r) PROVE TimeMarks'
  BY <1>13 DEF ExecuteRetryable, Holds
<1>14. ASSUME NEW w \in Workers, NEW r \in Rows, ExecuteSqlError(w, r) PROVE TimeMarks'
  BY <1>14 DEF ExecuteSqlError, Holds
<1>15. ASSUME NEW w \in Workers, NEW r \in Rows, RecordLateFailure(w, r) PROVE TimeMarks'
  BY <1>15 DEF RecordLateFailure, Fail, ExpirePending, Expired
<1>16. ASSUME NEW w \in Workers, NEW r \in Rows, Raise(w, r) PROVE TimeMarks'
  BY <1>16 DEF Raise
<1>17. ASSUME NEW w \in Workers, Crash(w) PROVE TimeMarks'
  BY <1>17 DEF Crash
<1>18. ASSUME RecoverStale PROVE TimeMarks'
  BY <1>18 DEF RecoverStale
<1>19. ASSUME NEW r \in Rows, NEW d \in {"approved", "denied"}, Decide(r, d) PROVE TimeMarks'
  BY <1>19 DEF Decide
<1>20. ASSUME ExpireAndSweep PROVE TimeMarks'
  BY <1>20 DEF ExpireAndSweep, ExpirePending, Expired, RefusedRows
<1>21. CASE UNCHANGED vars
  BY <1>21 DEF vars
<1> QED
  BY <1>1, <1>2, <1>3, <1>4, <1>5, <1>6, <1>7, <1>8, <1>9, <1>10, <1>11, <1>12, <1>13, <1>14, <1>15, <1>16, <1>17, <1>18, <1>19, <1>20, <1>21
  DEF Next, WorkerStep, OperatorStep

\* A row's command commits once.
LEMMA EffectPreserved == IInv /\ [Next]_vars => EffectOnce'
<1> SUFFICES ASSUME IInv, [Next]_vars PROVE EffectOnce'
  OBVIOUS
<1> USE KindsAssumption, RetriesAssumption, NoRowAssumption
<1> USE DEF IInv, TypeOK, EffectOnce, TimeMarks, Statuses, Terminal, ApprovalStatuses, LogStatuses,
            rowVars, approvalVars, workerVars, MoveRow, Log, GoIdle, Take
<1>1. ASSUME NEW r \in Rows, Enqueue(r) PROVE EffectOnce'
  BY <1>1 DEF Enqueue
<1>2. ASSUME NEW r \in Rows, BecomeStale(r) PROVE EffectOnce'
  BY <1>2 DEF BecomeStale
<1>3. ASSUME NEW r \in Rows, ApprovalComesDue(r) PROVE EffectOnce'
  BY <1>3 DEF ApprovalComesDue
<1>4. ASSUME NEW w \in Workers, NEW r \in Rows, ClaimPending(w, r) PROVE EffectOnce'
  BY <1>4 DEF ClaimPending, Lowest, PendingRows, Locked
<1>5. ASSUME NEW w \in Workers, NEW r \in Rows, ClaimApproved(w, r) PROVE EffectOnce'
  BY <1>5 DEF ClaimApproved, Lowest, ApprovedRows, Locked, ExpirePending, Expired
<1>6. ASSUME NEW w \in Workers, NEW r \in Rows, SkipRefused(w, r) PROVE EffectOnce'
  BY <1>6 DEF SkipRefused, Lowest, RefusedRows, ExpirePending, Expired
<1>7. ASSUME NEW w \in Workers, NEW r \in Rows, GateProtected(w, r) PROVE EffectOnce'
  BY <1>7 DEF GateProtected, Holds
<1>8. ASSUME NEW w \in Workers, NEW r \in Rows, GateHold(w, r) PROVE EffectOnce'
  BY <1>8 DEF GateHold, GateStatus, Holds, Expired
<1>9. ASSUME NEW w \in Workers, NEW r \in Rows, ExecuteSuccess(w, r) PROVE EffectOnce'
  BY <1>9 DEF ExecuteSuccess, Holds, ExpirePending, Expired
<1>10. ASSUME NEW w \in Workers, NEW r \in Rows, ExecuteUnmarked(w, r) PROVE EffectOnce'
  BY <1>10 DEF ExecuteUnmarked, Holds
<1>11. ASSUME NEW w \in Workers, NEW r \in Rows, ExecuteRejected(w, r) PROVE EffectOnce'
  BY <1>11 DEF ExecuteRejected, Holds, ExpirePending, Expired
<1>12. ASSUME NEW w \in Workers, NEW r \in Rows, ExecuteError(w, r) PROVE EffectOnce'
  BY <1>12 DEF ExecuteError, Fail, Holds, ExpirePending, Expired
<1>13. ASSUME NEW w \in Workers, NEW r \in Rows, ExecuteRetryable(w, r) PROVE EffectOnce'
  BY <1>13 DEF ExecuteRetryable, Holds
<1>14. ASSUME NEW w \in Workers, NEW r \in Rows, ExecuteSqlError(w, r) PROVE EffectOnce'
  BY <1>14 DEF ExecuteSqlError, Holds
<1>15. ASSUME NEW w \in Workers, NEW r \in Rows, RecordLateFailure(w, r) PROVE EffectOnce'
  BY <1>15 DEF RecordLateFailure, Fail, ExpirePending, Expired
<1>16. ASSUME NEW w \in Workers, NEW r \in Rows, Raise(w, r) PROVE EffectOnce'
  BY <1>16 DEF Raise
<1>17. ASSUME NEW w \in Workers, Crash(w) PROVE EffectOnce'
  BY <1>17 DEF Crash
<1>18. ASSUME RecoverStale PROVE EffectOnce'
  BY <1>18 DEF RecoverStale
<1>19. ASSUME NEW r \in Rows, NEW d \in {"approved", "denied"}, Decide(r, d) PROVE EffectOnce'
  BY <1>19 DEF Decide
<1>20. ASSUME ExpireAndSweep PROVE EffectOnce'
  BY <1>20 DEF ExpireAndSweep, ExpirePending, Expired, RefusedRows
<1>21. CASE UNCHANGED vars
  BY <1>21 DEF vars
<1> QED
  BY <1>1, <1>2, <1>3, <1>4, <1>5, <1>6, <1>7, <1>8, <1>9, <1>10, <1>11, <1>12, <1>13, <1>14, <1>15, <1>16, <1>17, <1>18, <1>19, <1>20, <1>21
  DEF Next, WorkerStep, OperatorStep

\* Undecided approvals and waiting rows stay paired.
LEMMA PairingPreserved == IInv /\ [Next]_vars => ApprovalPairing'
<1> SUFFICES ASSUME IInv, [Next]_vars PROVE ApprovalPairing'
  OBVIOUS
<1> USE KindsAssumption, RetriesAssumption, NoRowAssumption
<1> USE DEF IInv, TypeOK, ApprovalPairing, TimeMarks, Statuses, Terminal, ApprovalStatuses, LogStatuses,
            rowVars, approvalVars, workerVars, MoveRow, Log, GoIdle, Take
<1>1. ASSUME NEW r \in Rows, Enqueue(r) PROVE ApprovalPairing'
  BY <1>1 DEF Enqueue
<1>2. ASSUME NEW r \in Rows, BecomeStale(r) PROVE ApprovalPairing'
  BY <1>2 DEF BecomeStale
<1>3. ASSUME NEW r \in Rows, ApprovalComesDue(r) PROVE ApprovalPairing'
  BY <1>3 DEF ApprovalComesDue
<1>4. ASSUME NEW w \in Workers, NEW r \in Rows, ClaimPending(w, r) PROVE ApprovalPairing'
  BY <1>4 DEF ClaimPending, Lowest, PendingRows, Locked
<1>5. ASSUME NEW w \in Workers, NEW r \in Rows, ClaimApproved(w, r) PROVE ApprovalPairing'
  BY <1>5 DEF ClaimApproved, Lowest, ApprovedRows, Locked, ExpirePending, Expired
<1>6. ASSUME NEW w \in Workers, NEW r \in Rows, SkipRefused(w, r) PROVE ApprovalPairing'
  BY <1>6 DEF SkipRefused, Lowest, RefusedRows, ExpirePending, Expired
<1>7. ASSUME NEW w \in Workers, NEW r \in Rows, GateProtected(w, r) PROVE ApprovalPairing'
  BY <1>7 DEF GateProtected, Holds
<1>8. ASSUME NEW w \in Workers, NEW r \in Rows, GateHold(w, r) PROVE ApprovalPairing'
  BY <1>8 DEF GateHold, GateStatus, Holds, Expired
<1>9. ASSUME NEW w \in Workers, NEW r \in Rows, ExecuteSuccess(w, r) PROVE ApprovalPairing'
  BY <1>9 DEF ExecuteSuccess, Holds, ExpirePending, Expired
<1>10. ASSUME NEW w \in Workers, NEW r \in Rows, ExecuteUnmarked(w, r) PROVE ApprovalPairing'
  BY <1>10 DEF ExecuteUnmarked, Holds
<1>11. ASSUME NEW w \in Workers, NEW r \in Rows, ExecuteRejected(w, r) PROVE ApprovalPairing'
  BY <1>11 DEF ExecuteRejected, Holds, ExpirePending, Expired
<1>12. ASSUME NEW w \in Workers, NEW r \in Rows, ExecuteError(w, r) PROVE ApprovalPairing'
  BY <1>12 DEF ExecuteError, Fail, Holds, ExpirePending, Expired
<1>13. ASSUME NEW w \in Workers, NEW r \in Rows, ExecuteRetryable(w, r) PROVE ApprovalPairing'
  BY <1>13 DEF ExecuteRetryable, Holds
<1>14. ASSUME NEW w \in Workers, NEW r \in Rows, ExecuteSqlError(w, r) PROVE ApprovalPairing'
  BY <1>14 DEF ExecuteSqlError, Holds
<1>15. ASSUME NEW w \in Workers, NEW r \in Rows, RecordLateFailure(w, r) PROVE ApprovalPairing'
  BY <1>15 DEF RecordLateFailure, Fail, ExpirePending, Expired
<1>16. ASSUME NEW w \in Workers, NEW r \in Rows, Raise(w, r) PROVE ApprovalPairing'
  BY <1>16 DEF Raise
<1>17. ASSUME NEW w \in Workers, Crash(w) PROVE ApprovalPairing'
  BY <1>17 DEF Crash
<1>18. ASSUME RecoverStale PROVE ApprovalPairing'
  BY <1>18 DEF RecoverStale
<1>19. ASSUME NEW r \in Rows, NEW d \in {"approved", "denied"}, Decide(r, d) PROVE ApprovalPairing'
  BY <1>19 DEF Decide
<1>20. ASSUME ExpireAndSweep PROVE ApprovalPairing'
  BY <1>20 DEF ExpireAndSweep, ExpirePending, Expired, RefusedRows
<1>21. CASE UNCHANGED vars
  BY <1>21 DEF vars
<1> QED
  BY <1>1, <1>2, <1>3, <1>4, <1>5, <1>6, <1>7, <1>8, <1>9, <1>10, <1>11, <1>12, <1>13, <1>14, <1>15, <1>16, <1>17, <1>18, <1>19, <1>20, <1>21
  DEF Next, WorkerStep, OperatorStep

\* Gated commands commit under an approval.
LEMMA GatePreserved == IInv /\ [Next]_vars => GatedEffectApproved'
<1> SUFFICES ASSUME IInv, [Next]_vars PROVE GatedEffectApproved'
  OBVIOUS
<1> USE KindsAssumption, RetriesAssumption, NoRowAssumption
<1> USE DEF IInv, TypeOK, GatedEffectApproved, LateWorkers, GatePassed, Statuses, Terminal, ApprovalStatuses, LogStatuses,
            rowVars, approvalVars, workerVars, MoveRow, Log, GoIdle, Take
<1>1. ASSUME NEW r \in Rows, Enqueue(r) PROVE GatedEffectApproved'
  BY <1>1 DEF Enqueue
<1>2. ASSUME NEW r \in Rows, BecomeStale(r) PROVE GatedEffectApproved'
  BY <1>2 DEF BecomeStale
<1>3. ASSUME NEW r \in Rows, ApprovalComesDue(r) PROVE GatedEffectApproved'
  BY <1>3 DEF ApprovalComesDue
<1>4. ASSUME NEW w \in Workers, NEW r \in Rows, ClaimPending(w, r) PROVE GatedEffectApproved'
  BY <1>4 DEF ClaimPending, Lowest, PendingRows, Locked
<1>5. ASSUME NEW w \in Workers, NEW r \in Rows, ClaimApproved(w, r) PROVE GatedEffectApproved'
  BY <1>5 DEF ClaimApproved, Lowest, ApprovedRows, Locked, ExpirePending, Expired
<1>6. ASSUME NEW w \in Workers, NEW r \in Rows, SkipRefused(w, r) PROVE GatedEffectApproved'
  BY <1>6 DEF SkipRefused, Lowest, RefusedRows, ExpirePending, Expired
<1>7. ASSUME NEW w \in Workers, NEW r \in Rows, GateProtected(w, r) PROVE GatedEffectApproved'
  BY <1>7 DEF GateProtected, Holds
<1>8. ASSUME NEW w \in Workers, NEW r \in Rows, GateHold(w, r) PROVE GatedEffectApproved'
  BY <1>8 DEF GateHold, GateStatus, Holds, Expired
<1>9. ASSUME NEW w \in Workers, NEW r \in Rows, ExecuteSuccess(w, r) PROVE GatedEffectApproved'
  BY <1>9 DEF ExecuteSuccess, Holds, ExpirePending, Expired
<1>10. ASSUME NEW w \in Workers, NEW r \in Rows, ExecuteUnmarked(w, r) PROVE GatedEffectApproved'
  BY <1>10 DEF ExecuteUnmarked, Holds
<1>11. ASSUME NEW w \in Workers, NEW r \in Rows, ExecuteRejected(w, r) PROVE GatedEffectApproved'
  BY <1>11 DEF ExecuteRejected, Holds, ExpirePending, Expired
<1>12. ASSUME NEW w \in Workers, NEW r \in Rows, ExecuteError(w, r) PROVE GatedEffectApproved'
  BY <1>12 DEF ExecuteError, Fail, Holds, ExpirePending, Expired
<1>13. ASSUME NEW w \in Workers, NEW r \in Rows, ExecuteRetryable(w, r) PROVE GatedEffectApproved'
  BY <1>13 DEF ExecuteRetryable, Holds
<1>14. ASSUME NEW w \in Workers, NEW r \in Rows, ExecuteSqlError(w, r) PROVE GatedEffectApproved'
  BY <1>14 DEF ExecuteSqlError, Holds
<1>15. ASSUME NEW w \in Workers, NEW r \in Rows, RecordLateFailure(w, r) PROVE GatedEffectApproved'
  BY <1>15 DEF RecordLateFailure, Fail, ExpirePending, Expired
<1>16. ASSUME NEW w \in Workers, NEW r \in Rows, Raise(w, r) PROVE GatedEffectApproved'
  BY <1>16 DEF Raise
<1>17. ASSUME NEW w \in Workers, Crash(w) PROVE GatedEffectApproved'
  BY <1>17 DEF Crash
<1>18. ASSUME RecoverStale PROVE GatedEffectApproved'
  BY <1>18 DEF RecoverStale
<1>19. ASSUME NEW r \in Rows, NEW d \in {"approved", "denied"}, Decide(r, d) PROVE GatedEffectApproved'
  BY <1>19 DEF Decide
<1>20. ASSUME ExpireAndSweep PROVE GatedEffectApproved'
  BY <1>20 DEF ExpireAndSweep, ExpirePending, Expired, RefusedRows
<1>21. CASE UNCHANGED vars
  BY <1>21 DEF vars
<1> QED
  BY <1>1, <1>2, <1>3, <1>4, <1>5, <1>6, <1>7, <1>8, <1>9, <1>10, <1>11, <1>12, <1>13, <1>14, <1>15, <1>16, <1>17, <1>18, <1>19, <1>20, <1>21
  DEF Next, WorkerStep, OperatorStep

\* Late workers passed the gate and hold rows nobody runs.
LEMMA LatePreserved == IInv /\ [Next]_vars => LateWorkers'
<1> SUFFICES ASSUME IInv, [Next]_vars PROVE LateWorkers'
  OBVIOUS
<1> USE KindsAssumption, RetriesAssumption, NoRowAssumption
<1> USE DEF IInv, TypeOK, LateWorkers, TimeMarks, GatePassed, Statuses, Terminal, ApprovalStatuses, LogStatuses,
            rowVars, approvalVars, workerVars, MoveRow, Log, GoIdle, Take
<1>1. ASSUME NEW r \in Rows, Enqueue(r) PROVE LateWorkers'
  BY <1>1 DEF Enqueue
<1>2. ASSUME NEW r \in Rows, BecomeStale(r) PROVE LateWorkers'
  BY <1>2 DEF BecomeStale
<1>3. ASSUME NEW r \in Rows, ApprovalComesDue(r) PROVE LateWorkers'
  BY <1>3 DEF ApprovalComesDue
<1>4. ASSUME NEW w \in Workers, NEW r \in Rows, ClaimPending(w, r) PROVE LateWorkers'
  BY <1>4 DEF ClaimPending, Lowest, PendingRows, Locked
<1>5. ASSUME NEW w \in Workers, NEW r \in Rows, ClaimApproved(w, r) PROVE LateWorkers'
  BY <1>5 DEF ClaimApproved, Lowest, ApprovedRows, Locked, ExpirePending, Expired
<1>6. ASSUME NEW w \in Workers, NEW r \in Rows, SkipRefused(w, r) PROVE LateWorkers'
  BY <1>6 DEF SkipRefused, Lowest, RefusedRows, ExpirePending, Expired
<1>7. ASSUME NEW w \in Workers, NEW r \in Rows, GateProtected(w, r) PROVE LateWorkers'
  BY <1>7 DEF GateProtected, Holds
<1>8. ASSUME NEW w \in Workers, NEW r \in Rows, GateHold(w, r) PROVE LateWorkers'
  BY <1>8 DEF GateHold, GateStatus, Holds, Expired
<1>9. ASSUME NEW w \in Workers, NEW r \in Rows, ExecuteSuccess(w, r) PROVE LateWorkers'
  BY <1>9 DEF ExecuteSuccess, Holds, ExpirePending, Expired
<1>10. ASSUME NEW w \in Workers, NEW r \in Rows, ExecuteUnmarked(w, r) PROVE LateWorkers'
  BY <1>10 DEF ExecuteUnmarked, Holds
<1>11. ASSUME NEW w \in Workers, NEW r \in Rows, ExecuteRejected(w, r) PROVE LateWorkers'
  BY <1>11 DEF ExecuteRejected, Holds, ExpirePending, Expired
<1>12. ASSUME NEW w \in Workers, NEW r \in Rows, ExecuteError(w, r) PROVE LateWorkers'
  BY <1>12 DEF ExecuteError, Fail, Holds, ExpirePending, Expired
<1>13. ASSUME NEW w \in Workers, NEW r \in Rows, ExecuteRetryable(w, r) PROVE LateWorkers'
  BY <1>13 DEF ExecuteRetryable, Holds
<1>14. ASSUME NEW w \in Workers, NEW r \in Rows, ExecuteSqlError(w, r) PROVE LateWorkers'
  BY <1>14 DEF ExecuteSqlError, Holds
<1>15. ASSUME NEW w \in Workers, NEW r \in Rows, RecordLateFailure(w, r) PROVE LateWorkers'
  BY <1>15 DEF RecordLateFailure, Fail, ExpirePending, Expired
<1>16. ASSUME NEW w \in Workers, NEW r \in Rows, Raise(w, r) PROVE LateWorkers'
  BY <1>16 DEF Raise
<1>17. ASSUME NEW w \in Workers, Crash(w) PROVE LateWorkers'
  BY <1>17 DEF Crash
<1>18. ASSUME RecoverStale PROVE LateWorkers'
  BY <1>18 DEF RecoverStale
<1>19. ASSUME NEW r \in Rows, NEW d \in {"approved", "denied"}, Decide(r, d) PROVE LateWorkers'
  BY <1>19 DEF Decide
<1>20. ASSUME ExpireAndSweep PROVE LateWorkers'
  BY <1>20 DEF ExpireAndSweep, ExpirePending, Expired, RefusedRows
<1>21. CASE UNCHANGED vars
  BY <1>21 DEF vars
<1> QED
  BY <1>1, <1>2, <1>3, <1>4, <1>5, <1>6, <1>7, <1>8, <1>9, <1>10, <1>11, <1>12, <1>13, <1>14, <1>15, <1>16, <1>17, <1>18, <1>19, <1>20, <1>21
  DEF Next, WorkerStep, OperatorStep

\* An executed row stays a success.
LEMMA LogPreserved == IInv /\ [Next]_vars => ExecutedRowsSucceeded'
<1> SUFFICES ASSUME IInv, [Next]_vars PROVE ExecutedRowsSucceeded'
  OBVIOUS
<1> USE KindsAssumption, RetriesAssumption, NoRowAssumption
<1> USE DEF IInv, TypeOK, ExecutedRowsSucceeded, LateWorkers, TimeMarks, Statuses, Terminal, ApprovalStatuses, LogStatuses,
            rowVars, approvalVars, workerVars, MoveRow, Log, GoIdle, Take
<1>1. ASSUME NEW r \in Rows, Enqueue(r) PROVE ExecutedRowsSucceeded'
  BY <1>1 DEF Enqueue
<1>2. ASSUME NEW r \in Rows, BecomeStale(r) PROVE ExecutedRowsSucceeded'
  BY <1>2 DEF BecomeStale
<1>3. ASSUME NEW r \in Rows, ApprovalComesDue(r) PROVE ExecutedRowsSucceeded'
  BY <1>3 DEF ApprovalComesDue
<1>4. ASSUME NEW w \in Workers, NEW r \in Rows, ClaimPending(w, r) PROVE ExecutedRowsSucceeded'
  BY <1>4 DEF ClaimPending, Lowest, PendingRows, Locked
<1>5. ASSUME NEW w \in Workers, NEW r \in Rows, ClaimApproved(w, r) PROVE ExecutedRowsSucceeded'
  BY <1>5 DEF ClaimApproved, Lowest, ApprovedRows, Locked, ExpirePending, Expired
<1>6. ASSUME NEW w \in Workers, NEW r \in Rows, SkipRefused(w, r) PROVE ExecutedRowsSucceeded'
  BY <1>6 DEF SkipRefused, Lowest, RefusedRows, ExpirePending, Expired
<1>7. ASSUME NEW w \in Workers, NEW r \in Rows, GateProtected(w, r) PROVE ExecutedRowsSucceeded'
  BY <1>7 DEF GateProtected, Holds
<1>8. ASSUME NEW w \in Workers, NEW r \in Rows, GateHold(w, r) PROVE ExecutedRowsSucceeded'
  BY <1>8 DEF GateHold, GateStatus, Holds, Expired
<1>9. ASSUME NEW w \in Workers, NEW r \in Rows, ExecuteSuccess(w, r) PROVE ExecutedRowsSucceeded'
  BY <1>9 DEF ExecuteSuccess, Holds, ExpirePending, Expired
<1>10. ASSUME NEW w \in Workers, NEW r \in Rows, ExecuteUnmarked(w, r) PROVE ExecutedRowsSucceeded'
  BY <1>10 DEF ExecuteUnmarked, Holds
<1>11. ASSUME NEW w \in Workers, NEW r \in Rows, ExecuteRejected(w, r) PROVE ExecutedRowsSucceeded'
  BY <1>11 DEF ExecuteRejected, Holds, ExpirePending, Expired
<1>12. ASSUME NEW w \in Workers, NEW r \in Rows, ExecuteError(w, r) PROVE ExecutedRowsSucceeded'
  BY <1>12 DEF ExecuteError, Fail, Holds, ExpirePending, Expired
<1>13. ASSUME NEW w \in Workers, NEW r \in Rows, ExecuteRetryable(w, r) PROVE ExecutedRowsSucceeded'
  BY <1>13 DEF ExecuteRetryable, Holds
<1>14. ASSUME NEW w \in Workers, NEW r \in Rows, ExecuteSqlError(w, r) PROVE ExecutedRowsSucceeded'
  BY <1>14 DEF ExecuteSqlError, Holds
<1>15. ASSUME NEW w \in Workers, NEW r \in Rows, RecordLateFailure(w, r) PROVE ExecutedRowsSucceeded'
  BY <1>15 DEF RecordLateFailure, Fail, ExpirePending, Expired
<1>16. ASSUME NEW w \in Workers, NEW r \in Rows, Raise(w, r) PROVE ExecutedRowsSucceeded'
  BY <1>16 DEF Raise
<1>17. ASSUME NEW w \in Workers, Crash(w) PROVE ExecutedRowsSucceeded'
  BY <1>17 DEF Crash
<1>18. ASSUME RecoverStale PROVE ExecutedRowsSucceeded'
  BY <1>18 DEF RecoverStale
<1>19. ASSUME NEW r \in Rows, NEW d \in {"approved", "denied"}, Decide(r, d) PROVE ExecutedRowsSucceeded'
  BY <1>19 DEF Decide
<1>20. ASSUME ExpireAndSweep PROVE ExecutedRowsSucceeded'
  BY <1>20 DEF ExpireAndSweep, ExpirePending, Expired, RefusedRows
<1>21. CASE UNCHANGED vars
  BY <1>21 DEF vars
<1> QED
  BY <1>1, <1>2, <1>3, <1>4, <1>5, <1>6, <1>7, <1>8, <1>9, <1>10, <1>11, <1>12, <1>13, <1>14, <1>15, <1>16, <1>17, <1>18, <1>19, <1>20, <1>21
  DEF Next, WorkerStep, OperatorStep

-----------------------------------------------------------------------------
\* The inductive invariant holds in every reachable state of the queue, whatever workers,
\* recovery, operators and time do.
THEOREM Inductive == Spec => []IInv
<1>1. IInv /\ [Next]_vars => IInv'
  BY TypePreserved, MarksPreserved, EffectPreserved, PairingPreserved, GatePreserved,
     LatePreserved, LogPreserved
  DEF IInv
<1> QED
  BY InitEstablishes, <1>1, PTL DEF Spec

\* Every table column and worker keeps its type; in particular retry_count never passes
\* max_retries.
THEOREM TypeCorrect == Spec => []TypeOK
<1>1. IInv => TypeOK
  BY DEF IInv
<1> QED
  BY Inductive, <1>1, PTL

\* A row's command commits at most once, and exactly once if the row succeeded, although a
\* recovered row is run again while its first worker may still be alive.
THEOREM CommandCommitsOnce == Spec => []EffectOnce
<1>1. IInv => EffectOnce
  BY DEF IInv
<1> QED
  BY Inductive, <1>1, PTL

\* A block_ip command commits only under an approved request for an unprotected target.
THEOREM BlockNeedsApproval == Spec => []GatedEffectApproved
<1>1. IInv => GatedEffectApproved
  BY DEF IInv
<1> QED
  BY Inductive, <1>1, PTL

\* Undecided approvals and waiting rows are always paired.
THEOREM ApprovalsArePaired == Spec => []ApprovalPairing
<1>1. IInv => ApprovalPairing
  BY DEF IInv
<1> QED
  BY Inductive, <1>1, PTL

\* A row that is not final has retry budget left, so stale recovery never fails a row.
THEOREM BudgetRemains == Spec => []OpenRowsHaveBudget
<1>1. IInv => OpenRowsHaveBudget
  BY DEF IInv
<1> QED
  BY Inductive, <1>1, PTL

\* A failed row is never logged as executed: the decision's foreign key keeps other workers
\* off the row while a late worker is still inside its transaction.
THEOREM FailureIsHonest == Spec => []FailedRowNotExecuted
<1>1. IInv => FailedRowNotExecuted
  BY DEF IInv, TypeOK, ExecutedRowsSucceeded, FailedRowNotExecuted
<1> QED
  BY Inductive, <1>1, PTL

-----------------------------------------------------------------------------
\* What a step does to a final row.
FinalRowsKept ==
    \A r \in Rows : status[r] \in Terminal =>
        status'[r] = status[r] /\ effects'[r] = effects[r]

\* A step keeps every final row final.
LEMMA FinalKept == IInv /\ [Next]_vars => FinalRowsKept
<1> SUFFICES ASSUME IInv, [Next]_vars PROVE FinalRowsKept
  OBVIOUS
<1> USE KindsAssumption, RetriesAssumption, NoRowAssumption
<1> USE DEF IInv, TypeOK, FinalRowsKept, LateWorkers, TimeMarks, Statuses, Terminal, ApprovalStatuses, LogStatuses,
            rowVars, approvalVars, workerVars, MoveRow, Log, GoIdle, Take
<1>1. ASSUME NEW r \in Rows, Enqueue(r) PROVE FinalRowsKept
  BY <1>1 DEF Enqueue
<1>2. ASSUME NEW r \in Rows, BecomeStale(r) PROVE FinalRowsKept
  BY <1>2 DEF BecomeStale
<1>3. ASSUME NEW r \in Rows, ApprovalComesDue(r) PROVE FinalRowsKept
  BY <1>3 DEF ApprovalComesDue
<1>4. ASSUME NEW w \in Workers, NEW r \in Rows, ClaimPending(w, r) PROVE FinalRowsKept
  BY <1>4 DEF ClaimPending, Lowest, PendingRows, Locked
<1>5. ASSUME NEW w \in Workers, NEW r \in Rows, ClaimApproved(w, r) PROVE FinalRowsKept
  BY <1>5 DEF ClaimApproved, Lowest, ApprovedRows, Locked, ExpirePending, Expired
<1>6. ASSUME NEW w \in Workers, NEW r \in Rows, SkipRefused(w, r) PROVE FinalRowsKept
  BY <1>6 DEF SkipRefused, Lowest, RefusedRows, ExpirePending, Expired
<1>7. ASSUME NEW w \in Workers, NEW r \in Rows, GateProtected(w, r) PROVE FinalRowsKept
  BY <1>7 DEF GateProtected, Holds
<1>8. ASSUME NEW w \in Workers, NEW r \in Rows, GateHold(w, r) PROVE FinalRowsKept
  BY <1>8 DEF GateHold, GateStatus, Holds, Expired
<1>9. ASSUME NEW w \in Workers, NEW r \in Rows, ExecuteSuccess(w, r) PROVE FinalRowsKept
  BY <1>9 DEF ExecuteSuccess, Holds, ExpirePending, Expired
<1>10. ASSUME NEW w \in Workers, NEW r \in Rows, ExecuteUnmarked(w, r) PROVE FinalRowsKept
  BY <1>10 DEF ExecuteUnmarked, Holds
<1>11. ASSUME NEW w \in Workers, NEW r \in Rows, ExecuteRejected(w, r) PROVE FinalRowsKept
  BY <1>11 DEF ExecuteRejected, Holds, ExpirePending, Expired
<1>12. ASSUME NEW w \in Workers, NEW r \in Rows, ExecuteError(w, r) PROVE FinalRowsKept
  BY <1>12 DEF ExecuteError, Fail, Holds, ExpirePending, Expired
<1>13. ASSUME NEW w \in Workers, NEW r \in Rows, ExecuteRetryable(w, r) PROVE FinalRowsKept
  BY <1>13 DEF ExecuteRetryable, Holds
<1>14. ASSUME NEW w \in Workers, NEW r \in Rows, ExecuteSqlError(w, r) PROVE FinalRowsKept
  BY <1>14 DEF ExecuteSqlError, Holds
<1>15. ASSUME NEW w \in Workers, NEW r \in Rows, RecordLateFailure(w, r) PROVE FinalRowsKept
  BY <1>15 DEF RecordLateFailure, Fail, ExpirePending, Expired
<1>16. ASSUME NEW w \in Workers, NEW r \in Rows, Raise(w, r) PROVE FinalRowsKept
  BY <1>16 DEF Raise
<1>17. ASSUME NEW w \in Workers, Crash(w) PROVE FinalRowsKept
  BY <1>17 DEF Crash
<1>18. ASSUME RecoverStale PROVE FinalRowsKept
  BY <1>18 DEF RecoverStale
<1>19. ASSUME NEW r \in Rows, NEW d \in {"approved", "denied"}, Decide(r, d) PROVE FinalRowsKept
  BY <1>19 DEF Decide
<1>20. ASSUME ExpireAndSweep PROVE FinalRowsKept
  BY <1>20 DEF ExpireAndSweep, ExpirePending, Expired, RefusedRows
<1>21. CASE UNCHANGED vars
  BY <1>21 DEF vars
<1> QED
  BY <1>1, <1>2, <1>3, <1>4, <1>5, <1>6, <1>7, <1>8, <1>9, <1>10, <1>11, <1>12, <1>13, <1>14, <1>15, <1>16, <1>17, <1>18, <1>19, <1>20, <1>21
  DEF Next, WorkerStep, OperatorStep

\* What a step does to decided and to due approvals.
DecisionsKept ==
    \A r \in Rows :
        /\ approval[r] \in {"approved", "denied", "expired"} => approval'[r] = approval[r]
        /\ r \in due /\ approval'[r] # approval[r] => approval'[r] = "expired"

\* A step keeps every decision.
LEMMA DecisionKept == IInv /\ [Next]_vars => DecisionsKept
<1> SUFFICES ASSUME IInv, [Next]_vars PROVE DecisionsKept
  OBVIOUS
<1> USE KindsAssumption, RetriesAssumption, NoRowAssumption
<1> USE DEF IInv, TypeOK, DecisionsKept, LateWorkers, TimeMarks, Statuses, Terminal, ApprovalStatuses, LogStatuses,
            rowVars, approvalVars, workerVars, MoveRow, Log, GoIdle, Take
<1>1. ASSUME NEW r \in Rows, Enqueue(r) PROVE DecisionsKept
  BY <1>1 DEF Enqueue
<1>2. ASSUME NEW r \in Rows, BecomeStale(r) PROVE DecisionsKept
  BY <1>2 DEF BecomeStale
<1>3. ASSUME NEW r \in Rows, ApprovalComesDue(r) PROVE DecisionsKept
  BY <1>3 DEF ApprovalComesDue
<1>4. ASSUME NEW w \in Workers, NEW r \in Rows, ClaimPending(w, r) PROVE DecisionsKept
  BY <1>4 DEF ClaimPending, Lowest, PendingRows, Locked
<1>5. ASSUME NEW w \in Workers, NEW r \in Rows, ClaimApproved(w, r) PROVE DecisionsKept
  BY <1>5 DEF ClaimApproved, Lowest, ApprovedRows, Locked, ExpirePending, Expired
<1>6. ASSUME NEW w \in Workers, NEW r \in Rows, SkipRefused(w, r) PROVE DecisionsKept
  BY <1>6 DEF SkipRefused, Lowest, RefusedRows, ExpirePending, Expired
<1>7. ASSUME NEW w \in Workers, NEW r \in Rows, GateProtected(w, r) PROVE DecisionsKept
  BY <1>7 DEF GateProtected, Holds
<1>8. ASSUME NEW w \in Workers, NEW r \in Rows, GateHold(w, r) PROVE DecisionsKept
  BY <1>8 DEF GateHold, GateStatus, Holds, Expired
<1>9. ASSUME NEW w \in Workers, NEW r \in Rows, ExecuteSuccess(w, r) PROVE DecisionsKept
  BY <1>9 DEF ExecuteSuccess, Holds, ExpirePending, Expired
<1>10. ASSUME NEW w \in Workers, NEW r \in Rows, ExecuteUnmarked(w, r) PROVE DecisionsKept
  BY <1>10 DEF ExecuteUnmarked, Holds
<1>11. ASSUME NEW w \in Workers, NEW r \in Rows, ExecuteRejected(w, r) PROVE DecisionsKept
  BY <1>11 DEF ExecuteRejected, Holds, ExpirePending, Expired
<1>12. ASSUME NEW w \in Workers, NEW r \in Rows, ExecuteError(w, r) PROVE DecisionsKept
  BY <1>12 DEF ExecuteError, Fail, Holds, ExpirePending, Expired
<1>13. ASSUME NEW w \in Workers, NEW r \in Rows, ExecuteRetryable(w, r) PROVE DecisionsKept
  BY <1>13 DEF ExecuteRetryable, Holds
<1>14. ASSUME NEW w \in Workers, NEW r \in Rows, ExecuteSqlError(w, r) PROVE DecisionsKept
  BY <1>14 DEF ExecuteSqlError, Holds
<1>15. ASSUME NEW w \in Workers, NEW r \in Rows, RecordLateFailure(w, r) PROVE DecisionsKept
  BY <1>15 DEF RecordLateFailure, Fail, ExpirePending, Expired
<1>16. ASSUME NEW w \in Workers, NEW r \in Rows, Raise(w, r) PROVE DecisionsKept
  BY <1>16 DEF Raise
<1>17. ASSUME NEW w \in Workers, Crash(w) PROVE DecisionsKept
  BY <1>17 DEF Crash
<1>18. ASSUME RecoverStale PROVE DecisionsKept
  BY <1>18 DEF RecoverStale
<1>19. ASSUME NEW r \in Rows, NEW d \in {"approved", "denied"}, Decide(r, d) PROVE DecisionsKept
  BY <1>19 DEF Decide
<1>20. ASSUME ExpireAndSweep PROVE DecisionsKept
  BY <1>20 DEF ExpireAndSweep, ExpirePending, Expired, RefusedRows
<1>21. CASE UNCHANGED vars
  BY <1>21 DEF vars
<1> QED
  BY <1>1, <1>2, <1>3, <1>4, <1>5, <1>6, <1>7, <1>8, <1>9, <1>10, <1>11, <1>12, <1>13, <1>14, <1>15, <1>16, <1>17, <1>18, <1>19, <1>20, <1>21
  DEF Next, WorkerStep, OperatorStep

\* A final row stays final and its command is never committed again.
THEOREM FinalIsFinal == Spec => TerminalIsFinal
<1>1. IInv /\ [Next]_vars => [\A r \in Rows : status[r] \in Terminal =>
                                status'[r] = status[r] /\ effects'[r] = effects[r]]_vars
  BY FinalKept DEF FinalRowsKept
<1> QED
  BY Inductive, <1>1, PTL DEF Spec, TerminalIsFinal

\* A decision is final, and a request past expires_at can only expire.
THEOREM DecisionsAreFinal == Spec => DecisionIsFinal
<1>1. IInv /\ [Next]_vars =>
        [\A r \in Rows :
           /\ approval[r] \in {"approved", "denied", "expired"} => approval'[r] = approval[r]
           /\ r \in due /\ approval'[r] # approval[r] => approval'[r] = "expired"]_vars
  BY DecisionKept DEF DecisionsKept
<1> QED
  BY Inductive, <1>1, PTL DEF Spec, DecisionIsFinal

-----------------------------------------------------------------------------
\* The refinement of GatedActions.

\* No decision changes but from undecided to refused.
OnlyRefusals ==
    \A r \in Rows : Decision(r)' = Decision(r) \/ (Decision(r) = "undecided" /\ Decision(r)' = "refused")

\* What a step may do to what analysts see, other than request, approve or perform: row by row.
Quiet ==
    /\ effects' = effects
    /\ \A r \in Rows :
          Outcome(r)' = Outcome(r) \/ (Outcome(r) = "open" /\ Outcome(r)' \in {"failed", "dropped"})
    /\ OnlyRefusals

\* Decisions that only turn from undecided to refused are the abstract Refusals.
LEMMA RefusalsMap == OnlyRefusals => Promise!Refusals
<1>1. \A r \in Rows : Decision(r)' \in {"undecided", "approved", "refused"}
  BY DEF Decision
<1> HIDE DEF Decision
<1> QED
  BY <1>1 DEF OnlyRefusals, Promise!Refusals, Promise!Decisions

\* A quiet step is an abstract Settle.
LEMMA QuietSettles == Quiet => Promise!Settle
<1> SUFFICES ASSUME Quiet PROVE Promise!Settle
  OBVIOUS
<1>1. Promise!Refusals
  BY RefusalsMap DEF Quiet
<1> QED
  BY <1>1 DEF Quiet, Promise!Settle, Promise!Outcomes, Outcome

\* Recovery, gates, errors, sweeps and time are quiet.
LEMMA QuietSteps ==
    ASSUME IInv, IInv',
           \/ \E r \in Rows : BecomeStale(r) \/ ApprovalComesDue(r) \/ Decide(r, "denied")
           \/ \E w \in Workers, r \in Rows :
                 \/ ClaimPending(w, r) \/ ClaimApproved(w, r) \/ SkipRefused(w, r)
                 \/ GateProtected(w, r) \/ GateHold(w, r) \/ ExecuteUnmarked(w, r)
                 \/ ExecuteRejected(w, r) \/ ExecuteError(w, r) \/ ExecuteRetryable(w, r)
                 \/ ExecuteSqlError(w, r) \/ Raise(w, r)
           \/ \E w \in Workers : Crash(w)
           \/ RecoverStale \/ ExpireAndSweep
    PROVE  Quiet
<1> USE DEF IInv, TypeOK, TimeMarks, Statuses, Terminal, ApprovalStatuses, LogStatuses, Quiet, OnlyRefusals, Outcome, Decision,
            rowVars, approvalVars, workerVars, MoveRow, Log, GoIdle, Take
<1>1. ASSUME NEW r \in Rows, BecomeStale(r) PROVE Quiet
  BY <1>1 DEF BecomeStale
<1>2. ASSUME NEW r \in Rows, ApprovalComesDue(r) PROVE Quiet
  BY <1>2 DEF ApprovalComesDue
<1>3. ASSUME NEW r \in Rows, Decide(r, "denied") PROVE Quiet
  BY <1>3 DEF Decide
<1>4. ASSUME NEW w \in Workers, NEW r \in Rows, ClaimPending(w, r) PROVE Quiet
  BY <1>4 DEF ClaimPending, Lowest, PendingRows
<1>5. ASSUME NEW w \in Workers, NEW r \in Rows, ClaimApproved(w, r) PROVE Quiet
  BY <1>5 DEF ClaimApproved, Lowest, ApprovedRows, ExpirePending, Expired
<1>6. ASSUME NEW w \in Workers, NEW r \in Rows, SkipRefused(w, r) PROVE Quiet
  BY <1>6 DEF SkipRefused, Lowest, RefusedRows, ExpirePending, Expired
<1>7. ASSUME NEW w \in Workers, NEW r \in Rows, GateProtected(w, r) PROVE Quiet
  BY <1>7 DEF GateProtected, Holds
<1>8. ASSUME NEW w \in Workers, NEW r \in Rows, GateHold(w, r) PROVE Quiet
  BY <1>8 DEF GateHold, GateStatus, Holds, Expired
<1>9. ASSUME NEW w \in Workers, NEW r \in Rows, ExecuteUnmarked(w, r) PROVE Quiet
  BY <1>9 DEF ExecuteUnmarked, Holds
<1>10. ASSUME NEW w \in Workers, NEW r \in Rows, ExecuteRejected(w, r) PROVE Quiet
  BY <1>10 DEF ExecuteRejected, Holds, GatePassed, ExpirePending, Expired
<1>11. ASSUME NEW w \in Workers, NEW r \in Rows, ExecuteError(w, r) PROVE Quiet
  BY <1>11 DEF ExecuteError, Holds, Fail, ExpirePending, Expired
<1>12. ASSUME NEW w \in Workers, NEW r \in Rows, ExecuteRetryable(w, r) PROVE Quiet
  BY <1>12 DEF ExecuteRetryable, Holds
<1>13. ASSUME NEW w \in Workers, NEW r \in Rows, ExecuteSqlError(w, r) PROVE Quiet
  BY <1>13 DEF ExecuteSqlError, Holds
<1>14. ASSUME NEW w \in Workers, NEW r \in Rows, Raise(w, r) PROVE Quiet
  BY <1>14 DEF Raise, Holds
<1>15. ASSUME NEW w \in Workers, Crash(w) PROVE Quiet
  BY <1>15 DEF Crash
<1>16. ASSUME RecoverStale PROVE Quiet
  BY <1>16 DEF RecoverStale
<1>17. ASSUME ExpireAndSweep PROVE Quiet
  BY <1>17 DEF ExpireAndSweep, ExpirePending, Expired, RefusedRows
<1> QED
  BY <1>1, <1>2, <1>3, <1>4, <1>5, <1>6, <1>7, <1>8, <1>9, <1>10, <1>11, <1>12, <1>13, <1>14, <1>15, <1>16, <1>17

\* The steps that commit a command's effect are abstract Performs of an open, permitted action.
LEMMA PerformingSteps ==
    ASSUME IInv, IInv', NEW w \in Workers, NEW r \in Rows, ExecuteSuccess(w, r) \/ RecordLateFailure(w, r)
    PROVE  Promise!Perform(r) \/ Quiet
<1> USE KindsAssumption
<1> USE DEF IInv, TypeOK, Statuses, Terminal, ApprovalStatuses, LogStatuses, MoveRow, Fail
<1>1. status[r] = "running" /\ status'[r] \in {"success", "failed"}
      /\ \A q \in Rows : q # r => status'[q] = status[q]
  BY DEF ExecuteSuccess, RecordLateFailure
<1>2. OnlyRefusals
  BY DEF ExecuteSuccess, RecordLateFailure, ExpirePending, Expired, OnlyRefusals, Decision, approvalVars
<1>3. r \in Gated => approval[r] = "approved"
  BY <1>1 DEF EffectOnce, ExecuteSuccess, RecordLateFailure, LateWorkers, GatePassed
<1>4. effects' = effects \/ effects' = [effects EXCEPT ![r] = 1]
  BY <1>1 DEF EffectOnce, ExecuteSuccess, RecordLateFailure
<1>5. CASE effects' = effects
  BY <1>1, <1>2, <1>5 DEF Quiet, EffectOnce, Outcome
<1>6. CASE effects' = [effects EXCEPT ![r] = 1]
  <2>1. Promise!Refusals
    BY <1>2, RefusalsMap
  <2>2. \E result \in {"done", "failed"} :
          [q \in Rows |-> Outcome(q)]' = [[q \in Rows |-> Outcome(q)] EXCEPT ![r] = result]
    <3>1. Outcome(r)' \in {"done", "failed"} /\ \A q \in Rows : q # r => Outcome(q)' = Outcome(q)
      BY <1>1 DEF Outcome
    <3>2. [q \in Rows |-> Outcome(q)]' = [[q \in Rows |-> Outcome(q)] EXCEPT ![r] = Outcome(r)']
      BY <3>1
    <3> QED
      BY <3>1, <3>2
  <2>3. [q \in Rows |-> Outcome(q)][r] = "open"
    BY <1>1 DEF Outcome
  <2>4. r \in Gated => [q \in Rows |-> Decision(q)][r] = "approved"
    BY <1>1, <1>3 DEF Decision, EffectOnce
  <2> QED
    BY <1>6, <2>1, <2>2, <2>3, <2>4 DEF Promise!Perform
<1> QED
  BY <1>4, <1>5, <1>6

\* The queue keeps the promise of GatedActions: its initial state is an abstract initial state and
\* every step an abstract step or one that changes nothing analysts see.
THEOREM QueueKeepsPromise == Spec => KeepsPromise
<1>1. Init => Promise!Init
  BY DEF Init, Promise!Init, Outcome, Decision
<1>2. IInv /\ IInv' /\ [Next]_vars => [Promise!Next]_(Promise!vars)
  <2> SUFFICES ASSUME IInv, IInv', [Next]_vars PROVE Promise!Next \/ UNCHANGED Promise!vars
    OBVIOUS
  <2>1. ASSUME NEW r \in Rows, Enqueue(r) PROVE Promise!Request(r)
    BY <2>1 DEF Enqueue, Promise!Request, Outcome, Decision, MoveRow, IInv, TypeOK, Statuses,
                rowVars, approvalVars, workerVars
  <2>2. ASSUME NEW r \in Rows, Decide(r, "approved") PROVE Promise!Approve(r)
    <3> USE DEF IInv, TypeOK, Statuses, ApprovalStatuses
    <3>1. status[r] = "awaiting_approval" /\ approval[r] = "pending" /\ status' = status /\ effects' = effects
          /\ approval' = [approval EXCEPT ![r] = "approved"]
      BY <2>2 DEF Decide, ApprovalPairing, rowVars
    <3>2. Outcome(r) = "open" /\ \A q \in Rows : Outcome(q)' = Outcome(q)
      BY <3>1 DEF Outcome
    <3>3. Decision(r) = "undecided" /\ Decision(r)' = "approved" /\ \A q \in Rows : q # r => Decision(q)' = Decision(q)
      BY <3>1 DEF Decision
    <3>4. [q \in Rows |-> Decision(q)]' = [[q \in Rows |-> Decision(q)] EXCEPT ![r] = "approved"]
      BY <3>3
    <3> QED
      BY <3>1, <3>2, <3>3, <3>4 DEF Promise!Approve
  <2>3. CASE UNCHANGED vars
    <3>1. UNCHANGED Promise!vars
      BY <2>3 DEF vars, Promise!vars, Outcome, Decision, rowVars, approvalVars
    <3> QED
      BY <3>1
  <2>4. ASSUME Quiet PROVE Promise!Next
    BY <2>4, QuietSettles DEF Promise!Next
  <2>5. ASSUME NEW w \in Workers, NEW r \in Rows, ExecuteSuccess(w, r) \/ RecordLateFailure(w, r)
        PROVE  Promise!Next
    BY <2>4, <2>5, PerformingSteps DEF Promise!Next
  <2> QED
    BY <2>1, <2>2, <2>3, <2>4, <2>5, QuietSteps DEF Promise!Next, Next, WorkerStep, OperatorStep
<1> QED
  BY Inductive, <1>1, <1>2, PTL DEF Spec, KeepsPromise, Promise!Spec
=============================================================================
