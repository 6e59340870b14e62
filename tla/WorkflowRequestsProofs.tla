------------------------ MODULE WorkflowRequestsProofs ------------------------
(***************************************************************************)
(* Proofs about WorkflowRequests for every set of submissions and workers,  *)
(* every attempt limit and every number of faults.                          *)
(***************************************************************************)
EXTENDS WorkflowRequests, TLAPS

\* Only running requests are past their lease, and a request nobody made was never attempted.
LeasesAreRunning ==
    /\ \A r \in lapsed : request[r] = "running"
    /\ \A r \in Requests : request[r] = "absent" => attempts[r] = 0

\* No turn is younger than the thread.
VersionsAreBehind == \A s \in Turns : askedAt[s] <= version /\ answeredAt[s] <= version

\* The inductive invariant.
IInv ==
    /\ TypeOK
    /\ LeasesAreRunning
    /\ VersionsAreBehind
    /\ OneExecution
    /\ AnswerFollowsQuestion
    /\ RequestAndTurnAgree
    /\ QueuedHasAttemptLeft

-----------------------------------------------------------------------------
\* An empty thread, no requests.
LEMMA InitEstablishes == Init => IInv
  BY AttemptsAssumption, FaultsAssumption, NobodyAssumption
  DEF Init, IInv, TypeOK, LeasesAreRunning, VersionsAreBehind, OneExecution, AnswerFollowsQuestion,
      RequestAndTurnAgree, QueuedHasAttemptLeft, Requests, Turns, Open, Finished

\* Type correctness is preserved by every step.
LEMMA TypePreserved == IInv /\ [Next]_vars => TypeOK'
<1> SUFFICES ASSUME IInv, [Next]_vars PROVE TypeOK'
  OBVIOUS
<1> USE KindsAssumption, AttemptsAssumption, FaultsAssumption, NobodyAssumption
<1> USE DEF IInv, TypeOK, QueuedHasAttemptLeft, Open, Finished, Requests, Turns, requestVars, threadVars, workerVars
<1>1. ASSUME NEW r \in Async, SubmitAsync(r) PROVE TypeOK'
  BY <1>1 DEF SubmitAsync, Append, Idle
<1>2. ASSUME NEW r \in Loose, SubmitLoose(r) PROVE TypeOK'
  BY <1>2 DEF SubmitLoose
<1>3. ASSUME NEW s \in Sync, SubmitSync(s) PROVE TypeOK'
  BY <1>3 DEF SubmitSync, Append, Idle
<1>4. ASSUME NEW s \in Sync, Clarify(s) PROVE TypeOK'
  BY <1>4 DEF Clarify, Idle
<1>5. ASSUME NEW s \in Sync, FinishSync(s) PROVE TypeOK'
  BY <1>5 DEF FinishSync, Finalize, Answerable, FailTurn
<1>6. ASSUME NEW s \in Sync, CrashSync(s) PROVE TypeOK'
  BY <1>6 DEF CrashSync
<1>7. ASSUME NEW s \in Notes, SubmitNote(s) PROVE TypeOK'
  BY <1>7 DEF SubmitNote, Append
<1>8. ASSUME NEW status \in {"expired", "reset"}, CloseThread(status) PROVE TypeOK'
  BY <1>8 DEF CloseThread
<1>9. ASSUME NEW w \in Workers, StartRun(w) PROVE TypeOK'
  BY <1>9 DEF StartRun, Recovered, GoTo
<1>10. ASSUME NEW w \in Workers, EndRun(w) PROVE TypeOK'
  BY <1>10 DEF EndRun, GoTo
<1>11. ASSUME NEW w \in Workers, NEW r \in Requests, Prepare(w, r) PROVE TypeOK'
  BY <1>11 DEF Prepare, GoTo
<1>12. ASSUME NEW w \in Workers, NEW r \in Requests, Complete(w, r) PROVE TypeOK'
  BY <1>12 DEF Complete, Finalize, Answerable, Release, Owns, GoTo
<1>13. ASSUME NEW w \in Workers, NEW r \in Requests, CompleteWithoutAnswer(w, r) PROVE TypeOK'
  BY <1>13 DEF CompleteWithoutAnswer, FailTurn, Release, Owns, GoTo
<1>14. ASSUME NEW w \in Workers, NEW r \in Requests, Fail(w, r) PROVE TypeOK'
  BY <1>14 DEF Fail, FailTurn, Release, Owns, GoTo
<1>15. ASSUME NEW w \in Workers, NEW r \in Requests, LoseLease(w, r) PROVE TypeOK'
  BY <1>15 DEF LoseLease, GoTo
<1>16. ASSUME NEW w \in Workers, Crash(w) PROVE TypeOK'
  BY <1>16 DEF Crash, GoTo
<1>17. ASSUME NEW w \in Workers, NEW r \in Requests, Claim(w, r) PROVE TypeOK'
  BY <1>17 DEF Claim, GoTo
<1>18. ASSUME NEW r \in Requests, Lapse(r) PROVE TypeOK'
  BY <1>18 DEF Lapse
<1>19. CASE UNCHANGED vars
  BY <1>19 DEF vars
<1> QED
  BY <1>1, <1>2, <1>3, <1>4, <1>5, <1>6, <1>7, <1>8, <1>9, <1>10, <1>11, <1>12, <1>13, <1>14, <1>15, <1>16, <1>17, <1>18, <1>19 DEF Next, Work

\* Leases lapse on running requests only.
LEMMA LeasesPreserved == IInv /\ [Next]_vars => LeasesAreRunning'
<1> SUFFICES ASSUME IInv, [Next]_vars PROVE LeasesAreRunning'
  OBVIOUS
<1> USE KindsAssumption, AttemptsAssumption, FaultsAssumption, NobodyAssumption
<1> USE DEF IInv, TypeOK, LeasesAreRunning, Requests, Turns, requestVars, threadVars, workerVars
<1>1. ASSUME NEW r \in Async, SubmitAsync(r) PROVE LeasesAreRunning'
  <2>1. request[r] = "absent"
    BY <1>1 DEF SubmitAsync, Append, RequestAndTurnAgree
  <2> QED
    BY <1>1, <2>1 DEF SubmitAsync, LeasesAreRunning
<1>2. ASSUME NEW r \in Loose, SubmitLoose(r) PROVE LeasesAreRunning'
  BY <1>2 DEF SubmitLoose
<1>3. ASSUME NEW s \in Sync, SubmitSync(s) PROVE LeasesAreRunning'
  BY <1>3 DEF SubmitSync, Append, Idle
<1>4. ASSUME NEW s \in Sync, Clarify(s) PROVE LeasesAreRunning'
  BY <1>4 DEF Clarify, Idle
<1>5. ASSUME NEW s \in Sync, FinishSync(s) PROVE LeasesAreRunning'
  BY <1>5 DEF FinishSync, Finalize, Answerable, FailTurn
<1>6. ASSUME NEW s \in Sync, CrashSync(s) PROVE LeasesAreRunning'
  BY <1>6 DEF CrashSync
<1>7. ASSUME NEW s \in Notes, SubmitNote(s) PROVE LeasesAreRunning'
  BY <1>7 DEF SubmitNote, Append
<1>8. ASSUME NEW status \in {"expired", "reset"}, CloseThread(status) PROVE LeasesAreRunning'
  BY <1>8 DEF CloseThread
<1>9. ASSUME NEW w \in Workers, StartRun(w) PROVE LeasesAreRunning'
  BY <1>9 DEF StartRun, Recovered, GoTo
<1>10. ASSUME NEW w \in Workers, EndRun(w) PROVE LeasesAreRunning'
  BY <1>10 DEF EndRun, GoTo
<1>11. ASSUME NEW w \in Workers, NEW r \in Requests, Prepare(w, r) PROVE LeasesAreRunning'
  BY <1>11 DEF Prepare, GoTo
<1>12. ASSUME NEW w \in Workers, NEW r \in Requests, Complete(w, r) PROVE LeasesAreRunning'
  BY <1>12 DEF Complete, Finalize, Answerable, Release, Owns, GoTo
<1>13. ASSUME NEW w \in Workers, NEW r \in Requests, CompleteWithoutAnswer(w, r) PROVE LeasesAreRunning'
  BY <1>13 DEF CompleteWithoutAnswer, FailTurn, Release, Owns, GoTo
<1>14. ASSUME NEW w \in Workers, NEW r \in Requests, Fail(w, r) PROVE LeasesAreRunning'
  BY <1>14 DEF Fail, FailTurn, Release, Owns, GoTo
<1>15. ASSUME NEW w \in Workers, NEW r \in Requests, LoseLease(w, r) PROVE LeasesAreRunning'
  BY <1>15 DEF LoseLease, GoTo
<1>16. ASSUME NEW w \in Workers, Crash(w) PROVE LeasesAreRunning'
  BY <1>16 DEF Crash, GoTo
<1>17. ASSUME NEW w \in Workers, NEW r \in Requests, Claim(w, r) PROVE LeasesAreRunning'
  BY <1>17 DEF Claim, GoTo
<1>18. ASSUME NEW r \in Requests, Lapse(r) PROVE LeasesAreRunning'
  BY <1>18 DEF Lapse
<1>19. CASE UNCHANGED vars
  BY <1>19 DEF vars
<1> QED
  BY <1>1, <1>2, <1>3, <1>4, <1>5, <1>6, <1>7, <1>8, <1>9, <1>10, <1>11, <1>12, <1>13, <1>14, <1>15, <1>16, <1>17, <1>18, <1>19 DEF Next, Work

\* The thread stays ahead of its turns.
LEMMA VersionsPreserved == IInv /\ [Next]_vars => VersionsAreBehind'
<1> SUFFICES ASSUME IInv, [Next]_vars PROVE VersionsAreBehind'
  OBVIOUS
<1> USE KindsAssumption, AttemptsAssumption, FaultsAssumption, NobodyAssumption
<1> USE DEF IInv, TypeOK, VersionsAreBehind, Requests, Turns, requestVars, threadVars, workerVars
<1>1. ASSUME NEW r \in Async, SubmitAsync(r) PROVE VersionsAreBehind'
  BY <1>1 DEF SubmitAsync, Append, Idle
<1>2. ASSUME NEW r \in Loose, SubmitLoose(r) PROVE VersionsAreBehind'
  BY <1>2 DEF SubmitLoose
<1>3. ASSUME NEW s \in Sync, SubmitSync(s) PROVE VersionsAreBehind'
  BY <1>3 DEF SubmitSync, Append, Idle
<1>4. ASSUME NEW s \in Sync, Clarify(s) PROVE VersionsAreBehind'
  BY <1>4 DEF Clarify, Idle
<1>5. ASSUME NEW s \in Sync, FinishSync(s) PROVE VersionsAreBehind'
  BY <1>5 DEF FinishSync, Finalize, Answerable, FailTurn
<1>6. ASSUME NEW s \in Sync, CrashSync(s) PROVE VersionsAreBehind'
  BY <1>6 DEF CrashSync
<1>7. ASSUME NEW s \in Notes, SubmitNote(s) PROVE VersionsAreBehind'
  BY <1>7 DEF SubmitNote, Append
<1>8. ASSUME NEW status \in {"expired", "reset"}, CloseThread(status) PROVE VersionsAreBehind'
  BY <1>8 DEF CloseThread
<1>9. ASSUME NEW w \in Workers, StartRun(w) PROVE VersionsAreBehind'
  BY <1>9 DEF StartRun, Recovered, GoTo
<1>10. ASSUME NEW w \in Workers, EndRun(w) PROVE VersionsAreBehind'
  BY <1>10 DEF EndRun, GoTo
<1>11. ASSUME NEW w \in Workers, NEW r \in Requests, Prepare(w, r) PROVE VersionsAreBehind'
  BY <1>11 DEF Prepare, GoTo
<1>12. ASSUME NEW w \in Workers, NEW r \in Requests, Complete(w, r) PROVE VersionsAreBehind'
  BY <1>12 DEF Complete, Finalize, Answerable, Release, Owns, GoTo
<1>13. ASSUME NEW w \in Workers, NEW r \in Requests, CompleteWithoutAnswer(w, r) PROVE VersionsAreBehind'
  BY <1>13 DEF CompleteWithoutAnswer, FailTurn, Release, Owns, GoTo
<1>14. ASSUME NEW w \in Workers, NEW r \in Requests, Fail(w, r) PROVE VersionsAreBehind'
  BY <1>14 DEF Fail, FailTurn, Release, Owns, GoTo
<1>15. ASSUME NEW w \in Workers, NEW r \in Requests, LoseLease(w, r) PROVE VersionsAreBehind'
  BY <1>15 DEF LoseLease, GoTo
<1>16. ASSUME NEW w \in Workers, Crash(w) PROVE VersionsAreBehind'
  BY <1>16 DEF Crash, GoTo
<1>17. ASSUME NEW w \in Workers, NEW r \in Requests, Claim(w, r) PROVE VersionsAreBehind'
  BY <1>17 DEF Claim, GoTo
<1>18. ASSUME NEW r \in Requests, Lapse(r) PROVE VersionsAreBehind'
  BY <1>18 DEF Lapse
<1>19. CASE UNCHANGED vars
  BY <1>19 DEF vars
<1> QED
  BY <1>1, <1>2, <1>3, <1>4, <1>5, <1>6, <1>7, <1>8, <1>9, <1>10, <1>11, <1>12, <1>13, <1>14, <1>15, <1>16, <1>17, <1>18, <1>19 DEF Next, Work

\* A second execution never opens.
LEMMA ExecutionPreserved == IInv /\ [Next]_vars => OneExecution'
<1> SUFFICES ASSUME IInv, [Next]_vars PROVE OneExecution'
  OBVIOUS
<1> USE KindsAssumption, AttemptsAssumption, FaultsAssumption, NobodyAssumption
<1> USE DEF IInv, TypeOK, OneExecution, Requests, Turns, requestVars, threadVars, workerVars
<1>1. ASSUME NEW r \in Async, SubmitAsync(r) PROVE OneExecution'
  BY <1>1 DEF SubmitAsync, Append, Idle
<1>2. ASSUME NEW r \in Loose, SubmitLoose(r) PROVE OneExecution'
  BY <1>2 DEF SubmitLoose
<1>3. ASSUME NEW s \in Sync, SubmitSync(s) PROVE OneExecution'
  BY <1>3 DEF SubmitSync, Append, Idle
<1>4. ASSUME NEW s \in Sync, Clarify(s) PROVE OneExecution'
  BY <1>4 DEF Clarify, Idle
<1>5. ASSUME NEW s \in Sync, FinishSync(s) PROVE OneExecution'
  BY <1>5 DEF FinishSync, Finalize, Answerable, FailTurn
<1>6. ASSUME NEW s \in Sync, CrashSync(s) PROVE OneExecution'
  BY <1>6 DEF CrashSync
<1>7. ASSUME NEW s \in Notes, SubmitNote(s) PROVE OneExecution'
  BY <1>7 DEF SubmitNote, Append
<1>8. ASSUME NEW status \in {"expired", "reset"}, CloseThread(status) PROVE OneExecution'
  BY <1>8 DEF CloseThread
<1>9. ASSUME NEW w \in Workers, StartRun(w) PROVE OneExecution'
  BY <1>9 DEF StartRun, Recovered, GoTo
<1>10. ASSUME NEW w \in Workers, EndRun(w) PROVE OneExecution'
  BY <1>10 DEF EndRun, GoTo
<1>11. ASSUME NEW w \in Workers, NEW r \in Requests, Prepare(w, r) PROVE OneExecution'
  BY <1>11 DEF Prepare, GoTo
<1>12. ASSUME NEW w \in Workers, NEW r \in Requests, Complete(w, r) PROVE OneExecution'
  BY <1>12 DEF Complete, Finalize, Answerable, Release, Owns, GoTo
<1>13. ASSUME NEW w \in Workers, NEW r \in Requests, CompleteWithoutAnswer(w, r) PROVE OneExecution'
  BY <1>13 DEF CompleteWithoutAnswer, FailTurn, Release, Owns, GoTo
<1>14. ASSUME NEW w \in Workers, NEW r \in Requests, Fail(w, r) PROVE OneExecution'
  BY <1>14 DEF Fail, FailTurn, Release, Owns, GoTo
<1>15. ASSUME NEW w \in Workers, NEW r \in Requests, LoseLease(w, r) PROVE OneExecution'
  BY <1>15 DEF LoseLease, GoTo
<1>16. ASSUME NEW w \in Workers, Crash(w) PROVE OneExecution'
  BY <1>16 DEF Crash, GoTo
<1>17. ASSUME NEW w \in Workers, NEW r \in Requests, Claim(w, r) PROVE OneExecution'
  BY <1>17 DEF Claim, GoTo
<1>18. ASSUME NEW r \in Requests, Lapse(r) PROVE OneExecution'
  BY <1>18 DEF Lapse
<1>19. CASE UNCHANGED vars
  BY <1>19 DEF vars
<1> QED
  BY <1>1, <1>2, <1>3, <1>4, <1>5, <1>6, <1>7, <1>8, <1>9, <1>10, <1>11, <1>12, <1>13, <1>14, <1>15, <1>16, <1>17, <1>18, <1>19 DEF Next, Work

\* Answers stay directly behind their questions.
LEMMA AnswersPreserved == IInv /\ [Next]_vars => AnswerFollowsQuestion'
<1> SUFFICES ASSUME IInv, [Next]_vars PROVE AnswerFollowsQuestion'
  OBVIOUS
<1> USE KindsAssumption, AttemptsAssumption, FaultsAssumption, NobodyAssumption
<1> USE DEF IInv, TypeOK, VersionsAreBehind, AnswerFollowsQuestion, Requests, Turns, requestVars, threadVars, workerVars
<1>1. ASSUME NEW r \in Async, SubmitAsync(r) PROVE AnswerFollowsQuestion'
  BY <1>1 DEF SubmitAsync, Append, Idle
<1>2. ASSUME NEW r \in Loose, SubmitLoose(r) PROVE AnswerFollowsQuestion'
  BY <1>2 DEF SubmitLoose
<1>3. ASSUME NEW s \in Sync, SubmitSync(s) PROVE AnswerFollowsQuestion'
  BY <1>3 DEF SubmitSync, Append, Idle
<1>4. ASSUME NEW s \in Sync, Clarify(s) PROVE AnswerFollowsQuestion'
  BY <1>4 DEF Clarify, Idle
<1>5. ASSUME NEW s \in Sync, FinishSync(s) PROVE AnswerFollowsQuestion'
  BY <1>5 DEF FinishSync, Finalize, Answerable, FailTurn
<1>6. ASSUME NEW s \in Sync, CrashSync(s) PROVE AnswerFollowsQuestion'
  BY <1>6 DEF CrashSync
<1>7. ASSUME NEW s \in Notes, SubmitNote(s) PROVE AnswerFollowsQuestion'
  BY <1>7 DEF SubmitNote, Append
<1>8. ASSUME NEW status \in {"expired", "reset"}, CloseThread(status) PROVE AnswerFollowsQuestion'
  BY <1>8 DEF CloseThread
<1>9. ASSUME NEW w \in Workers, StartRun(w) PROVE AnswerFollowsQuestion'
  BY <1>9 DEF StartRun, Recovered, GoTo
<1>10. ASSUME NEW w \in Workers, EndRun(w) PROVE AnswerFollowsQuestion'
  BY <1>10 DEF EndRun, GoTo
<1>11. ASSUME NEW w \in Workers, NEW r \in Requests, Prepare(w, r) PROVE AnswerFollowsQuestion'
  BY <1>11 DEF Prepare, GoTo
<1>12. ASSUME NEW w \in Workers, NEW r \in Requests, Complete(w, r) PROVE AnswerFollowsQuestion'
  BY <1>12 DEF Complete, Finalize, Answerable, Release, Owns, GoTo
<1>13. ASSUME NEW w \in Workers, NEW r \in Requests, CompleteWithoutAnswer(w, r) PROVE AnswerFollowsQuestion'
  BY <1>13 DEF CompleteWithoutAnswer, FailTurn, Release, Owns, GoTo
<1>14. ASSUME NEW w \in Workers, NEW r \in Requests, Fail(w, r) PROVE AnswerFollowsQuestion'
  BY <1>14 DEF Fail, FailTurn, Release, Owns, GoTo
<1>15. ASSUME NEW w \in Workers, NEW r \in Requests, LoseLease(w, r) PROVE AnswerFollowsQuestion'
  BY <1>15 DEF LoseLease, GoTo
<1>16. ASSUME NEW w \in Workers, Crash(w) PROVE AnswerFollowsQuestion'
  BY <1>16 DEF Crash, GoTo
<1>17. ASSUME NEW w \in Workers, NEW r \in Requests, Claim(w, r) PROVE AnswerFollowsQuestion'
  BY <1>17 DEF Claim, GoTo
<1>18. ASSUME NEW r \in Requests, Lapse(r) PROVE AnswerFollowsQuestion'
  BY <1>18 DEF Lapse
<1>19. CASE UNCHANGED vars
  BY <1>19 DEF vars
<1> QED
  BY <1>1, <1>2, <1>3, <1>4, <1>5, <1>6, <1>7, <1>8, <1>9, <1>10, <1>11, <1>12, <1>13, <1>14, <1>15, <1>16, <1>17, <1>18, <1>19 DEF Next, Work

\* Requests and turns close together.
LEMMA AgreementPreserved == IInv /\ [Next]_vars => RequestAndTurnAgree'
<1> SUFFICES ASSUME IInv, [Next]_vars PROVE RequestAndTurnAgree'
  OBVIOUS
<1> USE KindsAssumption, AttemptsAssumption, FaultsAssumption, NobodyAssumption
<1> USE DEF IInv, TypeOK, LeasesAreRunning, RequestAndTurnAgree, Open, Requests, Turns, requestVars, threadVars, workerVars
<1>1. ASSUME NEW r \in Async, SubmitAsync(r) PROVE RequestAndTurnAgree'
  BY <1>1 DEF SubmitAsync, Append, Idle
<1>2. ASSUME NEW r \in Loose, SubmitLoose(r) PROVE RequestAndTurnAgree'
  BY <1>2 DEF SubmitLoose
<1>3. ASSUME NEW s \in Sync, SubmitSync(s) PROVE RequestAndTurnAgree'
  BY <1>3 DEF SubmitSync, Append, Idle
<1>4. ASSUME NEW s \in Sync, Clarify(s) PROVE RequestAndTurnAgree'
  BY <1>4 DEF Clarify, Idle
<1>5. ASSUME NEW s \in Sync, FinishSync(s) PROVE RequestAndTurnAgree'
  BY <1>5 DEF FinishSync, Finalize, Answerable, FailTurn
<1>6. ASSUME NEW s \in Sync, CrashSync(s) PROVE RequestAndTurnAgree'
  BY <1>6 DEF CrashSync
<1>7. ASSUME NEW s \in Notes, SubmitNote(s) PROVE RequestAndTurnAgree'
  BY <1>7 DEF SubmitNote, Append
<1>8. ASSUME NEW status \in {"expired", "reset"}, CloseThread(status) PROVE RequestAndTurnAgree'
  BY <1>8 DEF CloseThread
<1>9. ASSUME NEW w \in Workers, StartRun(w) PROVE RequestAndTurnAgree'
  BY <1>9 DEF StartRun, Recovered, GoTo
<1>10. ASSUME NEW w \in Workers, EndRun(w) PROVE RequestAndTurnAgree'
  BY <1>10 DEF EndRun, GoTo
<1>11. ASSUME NEW w \in Workers, NEW r \in Requests, Prepare(w, r) PROVE RequestAndTurnAgree'
  BY <1>11 DEF Prepare, GoTo
<1>12. ASSUME NEW w \in Workers, NEW r \in Requests, Complete(w, r) PROVE RequestAndTurnAgree'
  BY <1>12 DEF Complete, Finalize, Answerable, Release, Owns, GoTo
<1>13. ASSUME NEW w \in Workers, NEW r \in Requests, CompleteWithoutAnswer(w, r) PROVE RequestAndTurnAgree'
  BY <1>13 DEF CompleteWithoutAnswer, FailTurn, Release, Owns, GoTo
<1>14. ASSUME NEW w \in Workers, NEW r \in Requests, Fail(w, r) PROVE RequestAndTurnAgree'
  BY <1>14 DEF Fail, FailTurn, Release, Owns, GoTo
<1>15. ASSUME NEW w \in Workers, NEW r \in Requests, LoseLease(w, r) PROVE RequestAndTurnAgree'
  BY <1>15 DEF LoseLease, GoTo
<1>16. ASSUME NEW w \in Workers, Crash(w) PROVE RequestAndTurnAgree'
  BY <1>16 DEF Crash, GoTo
<1>17. ASSUME NEW w \in Workers, NEW r \in Requests, Claim(w, r) PROVE RequestAndTurnAgree'
  BY <1>17 DEF Claim, GoTo
<1>18. ASSUME NEW r \in Requests, Lapse(r) PROVE RequestAndTurnAgree'
  BY <1>18 DEF Lapse
<1>19. CASE UNCHANGED vars
  BY <1>19 DEF vars
<1> QED
  BY <1>1, <1>2, <1>3, <1>4, <1>5, <1>6, <1>7, <1>8, <1>9, <1>10, <1>11, <1>12, <1>13, <1>14, <1>15, <1>16, <1>17, <1>18, <1>19 DEF Next, Work

\* Queued requests keep an attempt.
LEMMA AttemptsPreserved == IInv /\ [Next]_vars => QueuedHasAttemptLeft'
<1> SUFFICES ASSUME IInv, [Next]_vars PROVE QueuedHasAttemptLeft'
  OBVIOUS
<1> USE KindsAssumption, AttemptsAssumption, FaultsAssumption, NobodyAssumption
<1> USE DEF IInv, TypeOK, LeasesAreRunning, QueuedHasAttemptLeft, Requests, Turns, requestVars, threadVars, workerVars
<1>1. ASSUME NEW r \in Async, SubmitAsync(r) PROVE QueuedHasAttemptLeft'
  <2>1. request[r] = "absent"
    BY <1>1 DEF SubmitAsync, Append, RequestAndTurnAgree
  <2> QED
    BY <1>1, <2>1 DEF SubmitAsync, LeasesAreRunning
<1>2. ASSUME NEW r \in Loose, SubmitLoose(r) PROVE QueuedHasAttemptLeft'
  BY <1>2 DEF SubmitLoose
<1>3. ASSUME NEW s \in Sync, SubmitSync(s) PROVE QueuedHasAttemptLeft'
  BY <1>3 DEF SubmitSync, Append, Idle
<1>4. ASSUME NEW s \in Sync, Clarify(s) PROVE QueuedHasAttemptLeft'
  BY <1>4 DEF Clarify, Idle
<1>5. ASSUME NEW s \in Sync, FinishSync(s) PROVE QueuedHasAttemptLeft'
  BY <1>5 DEF FinishSync, Finalize, Answerable, FailTurn
<1>6. ASSUME NEW s \in Sync, CrashSync(s) PROVE QueuedHasAttemptLeft'
  BY <1>6 DEF CrashSync
<1>7. ASSUME NEW s \in Notes, SubmitNote(s) PROVE QueuedHasAttemptLeft'
  BY <1>7 DEF SubmitNote, Append
<1>8. ASSUME NEW status \in {"expired", "reset"}, CloseThread(status) PROVE QueuedHasAttemptLeft'
  BY <1>8 DEF CloseThread
<1>9. ASSUME NEW w \in Workers, StartRun(w) PROVE QueuedHasAttemptLeft'
  BY <1>9 DEF StartRun, Recovered, GoTo
<1>10. ASSUME NEW w \in Workers, EndRun(w) PROVE QueuedHasAttemptLeft'
  BY <1>10 DEF EndRun, GoTo
<1>11. ASSUME NEW w \in Workers, NEW r \in Requests, Prepare(w, r) PROVE QueuedHasAttemptLeft'
  BY <1>11 DEF Prepare, GoTo
<1>12. ASSUME NEW w \in Workers, NEW r \in Requests, Complete(w, r) PROVE QueuedHasAttemptLeft'
  BY <1>12 DEF Complete, Finalize, Answerable, Release, Owns, GoTo
<1>13. ASSUME NEW w \in Workers, NEW r \in Requests, CompleteWithoutAnswer(w, r) PROVE QueuedHasAttemptLeft'
  BY <1>13 DEF CompleteWithoutAnswer, FailTurn, Release, Owns, GoTo
<1>14. ASSUME NEW w \in Workers, NEW r \in Requests, Fail(w, r) PROVE QueuedHasAttemptLeft'
  BY <1>14 DEF Fail, FailTurn, Release, Owns, GoTo
<1>15. ASSUME NEW w \in Workers, NEW r \in Requests, LoseLease(w, r) PROVE QueuedHasAttemptLeft'
  BY <1>15 DEF LoseLease, GoTo
<1>16. ASSUME NEW w \in Workers, Crash(w) PROVE QueuedHasAttemptLeft'
  BY <1>16 DEF Crash, GoTo
<1>17. ASSUME NEW w \in Workers, NEW r \in Requests, Claim(w, r) PROVE QueuedHasAttemptLeft'
  BY <1>17 DEF Claim, GoTo
<1>18. ASSUME NEW r \in Requests, Lapse(r) PROVE QueuedHasAttemptLeft'
  BY <1>18 DEF Lapse
<1>19. CASE UNCHANGED vars
  BY <1>19 DEF vars
<1> QED
  BY <1>1, <1>2, <1>3, <1>4, <1>5, <1>6, <1>7, <1>8, <1>9, <1>10, <1>11, <1>12, <1>13, <1>14, <1>15, <1>16, <1>17, <1>18, <1>19 DEF Next, Work

-----------------------------------------------------------------------------
\* The inductive invariant holds in every reachable state, whatever clients, workers, recovery and
\* time do.
THEOREM Inductive == Spec => []IInv
<1>1. IInv /\ [Next]_vars => IInv'
  BY TypePreserved, LeasesPreserved, VersionsPreserved, ExecutionPreserved, AnswersPreserved,
     AgreementPreserved, AttemptsPreserved
  DEF IInv
<1> QED
  BY InitEstablishes, <1>1, PTL DEF Spec

\* Every column keeps its type; attempt_count never passes max_attempts.
THEOREM TypeCorrect == Spec => []TypeOK
<1>1. IInv => TypeOK
  BY DEF IInv
<1> QED
  BY Inductive, <1>1, PTL

\* A thread has one execution at a time.
THEOREM ThreadHasOneExecution == Spec => []OneExecution
<1>1. IInv => OneExecution
  BY DEF IInv
<1> QED
  BY Inductive, <1>1, PTL

\* An answer stands directly behind its question, and no question has two.
THEOREM AnswersFollowQuestions == Spec => []AnswerFollowsQuestion
<1>1. IInv => AnswerFollowsQuestion
  BY DEF IInv
<1> QED
  BY Inductive, <1>1, PTL

\* A request and its turn close in one transaction.
THEOREM RequestsAndTurnsAgree == Spec => []RequestAndTurnAgree
<1>1. IInv => RequestAndTurnAgree
  BY DEF IInv
<1> QED
  BY Inductive, <1>1, PTL

\* A queued request has an attempt left.
THEOREM QueuedCanRun == Spec => []QueuedHasAttemptLeft
<1>1. IInv => QueuedHasAttemptLeft
  BY DEF IInv
<1> QED
  BY Inductive, <1>1, PTL

-----------------------------------------------------------------------------
\* What a step may do to a running request.
OwnersClose ==
    \A q \in Requests :
        request[q] = "running" /\ request'[q] \in {"completed", "failed"} =>
            \E v \in Workers : lease[q] = v /\ job[v] = q /\ pc'[v] = "idle"

\* No step closes a running request but its owner's.
LEMMA OnlyOwnersClose == IInv /\ [Next]_vars => OwnersClose
<1> SUFFICES ASSUME IInv, [Next]_vars PROVE OwnersClose
  OBVIOUS
<1> USE KindsAssumption, AttemptsAssumption, FaultsAssumption, NobodyAssumption
<1> USE DEF IInv, TypeOK, OwnersClose, Requests, Turns, requestVars, threadVars, workerVars
<1>1. ASSUME NEW r \in Async, SubmitAsync(r) PROVE OwnersClose
  BY <1>1 DEF SubmitAsync, Append, Idle
<1>2. ASSUME NEW r \in Loose, SubmitLoose(r) PROVE OwnersClose
  BY <1>2 DEF SubmitLoose
<1>3. ASSUME NEW s \in Sync, SubmitSync(s) PROVE OwnersClose
  BY <1>3 DEF SubmitSync, Append, Idle
<1>4. ASSUME NEW s \in Sync, Clarify(s) PROVE OwnersClose
  BY <1>4 DEF Clarify, Idle
<1>5. ASSUME NEW s \in Sync, FinishSync(s) PROVE OwnersClose
  BY <1>5 DEF FinishSync, Finalize, Answerable, FailTurn
<1>6. ASSUME NEW s \in Sync, CrashSync(s) PROVE OwnersClose
  BY <1>6 DEF CrashSync
<1>7. ASSUME NEW s \in Notes, SubmitNote(s) PROVE OwnersClose
  BY <1>7 DEF SubmitNote, Append
<1>8. ASSUME NEW status \in {"expired", "reset"}, CloseThread(status) PROVE OwnersClose
  BY <1>8 DEF CloseThread
<1>9. ASSUME NEW w \in Workers, StartRun(w) PROVE OwnersClose
  BY <1>9 DEF StartRun, Recovered, GoTo
<1>10. ASSUME NEW w \in Workers, EndRun(w) PROVE OwnersClose
  BY <1>10 DEF EndRun, GoTo
<1>11. ASSUME NEW w \in Workers, NEW r \in Requests, Prepare(w, r) PROVE OwnersClose
  BY <1>11 DEF Prepare, GoTo
<1>12. ASSUME NEW w \in Workers, NEW r \in Requests, Complete(w, r) PROVE OwnersClose
  BY <1>12 DEF Complete, Finalize, Answerable, Release, Owns, GoTo
<1>13. ASSUME NEW w \in Workers, NEW r \in Requests, CompleteWithoutAnswer(w, r) PROVE OwnersClose
  BY <1>13 DEF CompleteWithoutAnswer, FailTurn, Release, Owns, GoTo
<1>14. ASSUME NEW w \in Workers, NEW r \in Requests, Fail(w, r) PROVE OwnersClose
  BY <1>14 DEF Fail, FailTurn, Release, Owns, GoTo
<1>15. ASSUME NEW w \in Workers, NEW r \in Requests, LoseLease(w, r) PROVE OwnersClose
  BY <1>15 DEF LoseLease, GoTo
<1>16. ASSUME NEW w \in Workers, Crash(w) PROVE OwnersClose
  BY <1>16 DEF Crash, GoTo
<1>17. ASSUME NEW w \in Workers, NEW r \in Requests, Claim(w, r) PROVE OwnersClose
  BY <1>17 DEF Claim, GoTo
<1>18. ASSUME NEW r \in Requests, Lapse(r) PROVE OwnersClose
  BY <1>18 DEF Lapse
<1>19. CASE UNCHANGED vars
  BY <1>19 DEF vars
<1> QED
  BY <1>1, <1>2, <1>3, <1>4, <1>5, <1>6, <1>7, <1>8, <1>9, <1>10, <1>11, <1>12, <1>13, <1>14, <1>15, <1>16, <1>17, <1>18, <1>19 DEF Next, Work

\* Only the worker that holds the lease completes or fails a request.
THEOREM OwnerCloses == Spec => OnlyOwnerCloses
<1>1. IInv /\ [Next]_vars =>
        [\A r \in Requests :
           request[r] = "running" /\ request'[r] \in {"completed", "failed"} =>
              \E w \in Workers : lease[r] = w /\ job[w] = r /\ pc'[w] = "idle"]_vars
  BY OnlyOwnersClose DEF OwnersClose
<1> QED
  BY Inductive, <1>1, PTL DEF Spec, OnlyOwnerCloses
=============================================================================
