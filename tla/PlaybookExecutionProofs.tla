---------------------- MODULE PlaybookExecutionProofs ----------------------
(***************************************************************************)
(* Proofs about PlaybookExecution for every set of executions and workers, *)
(* every step list and every number of crashes and resume requests.        *)
(***************************************************************************)
EXTENDS PlaybookExecution, TLAPS

\* A parked row has a request for its gate and no progress beyond it.
ParkedWhole(v) ==
    v.status = "awaiting_approval" =>
        v.gate \in Gates /\ v.ap[v.gate] # "none" /\ v.done < v.gate

\* A worker inside _process_steps holds the row it works on, which is running, and stands
\* at a step that is neither done nor logged as success.
AtWork ==
    \A w \in Workers :
        /\ cur[w] = NoExec => pos[w] = 0
        /\ cur[w] # NoExec => row[cur[w]].status # "absent"
        /\ cur[w] # NoExec /\ pos[w] # 0 =>
              /\ cur[w] \in DOMAIN draft[w]
              /\ draft[w][cur[w]].status = "running"
              /\ draft[w][cur[w]].done < pos[w]
              /\ pos[w] \notin draft[w][cur[w]].ok

\* What an open transaction wrote extends what is committed: no logged success is lost, no
\* finished row becomes active, and only the row being worked on is running.
DraftsExtend ==
    \A w \in Workers : \A e \in DOMAIN draft[w] :
        /\ row[e].ok \subseteq draft[w][e].ok
        /\ draft[w][e].status \in Active => row[e].status \in Active
        /\ draft[w][e].status \notin {"pending", "absent"}
        /\ row[e].status # "absent"
        /\ draft[w][e].status = "running" => cur[w] = e /\ pos[w] # 0
        /\ ParkedWhole(draft[w][e])

\* The partial unique index on committed rows.
PairUnique ==
    \A e, f \in Execs : e # f /\ Pair[e] = Pair[f] =>
        ~(row[e].status \in Active /\ row[f].status \in Active)

\* The inductive invariant.
IInv ==
    /\ TypeOK
    /\ OneOwner
    /\ AtWork
    /\ DraftsExtend
    /\ CommittedRowsAreWhole
    /\ PairUnique

-----------------------------------------------------------------------------
\* Facts about rows and drafts.

\* Drafts are functions from executions to rows.
LEMMA DraftType ==
    ASSUME TypeOK, NEW w \in Workers
    PROVE  /\ DOMAIN draft[w] \subseteq Execs
           /\ draft[w] \in [DOMAIN draft[w] -> Rows]
  BY DEF TypeOK, DraftTypeOK

\* A worker sees every execution as a row.
LEMMA ViewType ==
    ASSUME TypeOK, NEW w \in Workers, NEW e \in Execs
    PROVE  View(w, e) \in Rows
  BY DraftType DEF TypeOK, View

\* Put changes row e of w's draft and nothing else.
LEMMA PutEffect ==
    ASSUME TypeOK, NEW w \in Workers, NEW e \in Execs, NEW v \in Rows, Put(w, e, v)
    PROVE  /\ DraftTypeOK'
           /\ DOMAIN draft'[w] = DOMAIN draft[w] \cup {e}
           /\ draft'[w][e] = v
           /\ \A f \in DOMAIN draft[w] \ {e} : draft'[w][f] = draft[w][f]
           /\ \A u \in Workers \ {w} : draft'[u] = draft[u]
<1> DEFINE D == [f \in DOMAIN draft[w] \cup {e} |-> IF f = e THEN v ELSE draft[w][f]]
<1>1. draft' = [draft EXCEPT ![w] = D]
  BY DEF Put
<1>2. D \in [DOMAIN draft[w] \cup {e} -> Rows]
  BY DraftType
<1>3. DOMAIN draft[w] \cup {e} \in SUBSET Execs
  BY DraftType
<1>4. DraftTypeOK
  BY DEF TypeOK
<1> HIDE DEF D
<1>5. /\ DOMAIN draft' = Workers /\ draft'[w] = D
      /\ \A u \in Workers \ {w} : draft'[u] = draft[u]
  BY <1>1, <1>4 DEF DraftTypeOK
<1>6. DraftTypeOK'
  BY <1>2, <1>3, <1>4, <1>5 DEF DraftTypeOK
<1> QED
  BY <1>5, <1>6 DEF D

\* A transaction that has written nothing has an empty draft.
LEMMA NoDraftType == NoDraft \in [{} -> Rows] /\ DOMAIN NoDraft = {}
  BY DEF NoDraft

\* NewBatch empties w's draft and nothing else.
LEMMA NewBatchEffect ==
    ASSUME TypeOK, NEW w \in Workers, NewBatch(w)
    PROVE  /\ DraftTypeOK'
           /\ DOMAIN draft'[w] = {}
           /\ \A u \in Workers \ {w} : draft'[u] = draft[u]
           /\ phase' \in [Workers -> {"claim", "await"}]
           /\ left' \in [Workers -> 0 .. BatchSize]
           /\ todo' \in [Workers -> SUBSET Execs]
           /\ cur' = [cur EXCEPT ![w] = NoExec]
           /\ pos' = [pos EXCEPT ![w] = 0]
           /\ failed' \in [Workers -> BOOLEAN]
<1>1. draft' = [draft EXCEPT ![w] = NoDraft] /\ DraftTypeOK
  BY DEF NewBatch, TypeOK
<1>2. DraftTypeOK' /\ draft'[w] = NoDraft
      /\ \A u \in Workers \ {w} : draft'[u] = draft[u]
  BY <1>1, NoDraftType DEF DraftTypeOK
<1>3. BatchSize \in 0 .. BatchSize
  BY BoundsAssumption
<1> QED
  BY <1>2, <1>3, NoDraftType DEF NewBatch, LeaveExecution, TypeOK

-----------------------------------------------------------------------------
\* What the kinds of steps have in common.

Safe == OneOwner /\ AtWork /\ DraftsExtend /\ CommittedRowsAreWhole /\ PairUnique

\* w works on e with row v at the first open step from i on: every claim, resume and step
\* that stays inside _process_steps.
LEMMA WorkOn ==
    ASSUME IInv, NEW w \in Workers, NEW e \in Execs, NEW v \in Rows, NEW i \in 1 .. LastStep + 1,
           cur[w] \in {NoExec, e}, \A u \in Workers \ {w} : e \notin DOMAIN draft[u],
           v.status = "running", v.done < i,
           row[e].status \in Active, row[e].ok \subseteq v.ok,
           Put(w, e, v), cur' = [cur EXCEPT ![w] = e], Start(w, v, i), row' = row
    PROVE  /\ DraftTypeOK'
           /\ cur' \in [Workers -> Execs \cup {NoExec}]
           /\ pos' \in [Workers -> 0 .. LastStep + 1]
           /\ Safe'
<1>1. TypeOK /\ OneOwner /\ AtWork /\ DraftsExtend /\ CommittedRowsAreWhole /\ PairUnique
  BY DEF IInv
<1>2. /\ DraftTypeOK'
      /\ DOMAIN draft'[w] = DOMAIN draft[w] \cup {e}
      /\ draft'[w][e] = v
      /\ \A f \in DOMAIN draft[w] \ {e} : draft'[w][f] = draft[w][f]
      /\ \A u \in Workers \ {w} : draft'[u] = draft[u]
  BY <1>1, PutEffect
<1>3. cur \in [Workers -> Execs \cup {NoExec}] /\ pos \in [Workers -> 0 .. LastStep + 1]
  BY <1>1 DEF TypeOK
<1>4. PICK j \in i .. LastStep + 1 : j \notin v.ok /\ pos' = [pos EXCEPT ![w] = j]
  BY DEF Start, NextOpen
<1>5. j \in 1 .. LastStep + 1 /\ v.done < j /\ v.done \in Nat
  BY StepsAssumption DEF Rows
<1>6. /\ cur' \in [Workers -> Execs \cup {NoExec}] /\ cur'[w] = e
      /\ pos' \in [Workers -> 0 .. LastStep + 1] /\ pos'[w] = j
      /\ \A u \in Workers \ {w} : cur'[u] = cur[u] /\ pos'[u] = pos[u]
  BY <1>3, <1>4, <1>5, StepsAssumption
<1>7. OneOwner'
  BY <1>1, <1>2 DEF OneOwner
<1>8. AtWork'
  BY <1>1, <1>2, <1>4, <1>5, <1>6, ExecsAssumption DEF AtWork, Active
<1>9. DraftsExtend'
  <2> SUFFICES ASSUME NEW u \in Workers, NEW f \in DOMAIN draft'[u]
               PROVE  /\ row[f].ok \subseteq draft'[u][f].ok
                      /\ draft'[u][f].status \in Active => row[f].status \in Active
                      /\ draft'[u][f].status \notin {"pending", "absent"}
                      /\ row[f].status # "absent"
                      /\ draft'[u][f].status = "running" => cur'[u] = f /\ pos'[u] # 0
                      /\ ParkedWhole(draft'[u][f])
    BY DEF DraftsExtend, ParkedWhole
  <2>1. CASE u # w
    BY <2>1, <1>1, <1>2, <1>6 DEF DraftsExtend
  <2>2. CASE u = w /\ f = e
    BY <2>2, <1>2, <1>5, <1>6 DEF ParkedWhole, Active
  <2>3. CASE u = w /\ f # e
    BY <2>3, <1>1, <1>2, ExecsAssumption, DraftType DEF DraftsExtend
  <2> QED
    BY <2>1, <2>2, <2>3
<1>10. CommittedRowsAreWhole' /\ PairUnique'
  BY <1>1 DEF CommittedRowsAreWhole, PairUnique
<1> QED
  BY <1>2, <1>6, <1>7, <1>8, <1>9, <1>10 DEF Safe

\* w puts v as its last word on e and leaves it: finished, parked or refused.
LEMMA Release ==
    ASSUME IInv, NEW w \in Workers, NEW e \in Execs, NEW v \in Rows,
           cur[w] = e, \A u \in Workers \ {w} : e \notin DOMAIN draft[u],
           v.status \notin {"running", "pending", "absent"}, ParkedWhole(v),
           v.status \in Active => row[e].status \in Active, row[e].ok \subseteq v.ok,
           Put(w, e, v), LeaveExecution(w), row' = row
    PROVE  /\ DraftTypeOK'
           /\ cur' \in [Workers -> Execs \cup {NoExec}]
           /\ pos' \in [Workers -> 0 .. LastStep + 1]
           /\ Safe'
<1>1. TypeOK /\ OneOwner /\ AtWork /\ DraftsExtend /\ CommittedRowsAreWhole /\ PairUnique
  BY DEF IInv
<1>2. /\ DraftTypeOK'
      /\ DOMAIN draft'[w] = DOMAIN draft[w] \cup {e}
      /\ draft'[w][e] = v
      /\ \A f \in DOMAIN draft[w] \ {e} : draft'[w][f] = draft[w][f]
      /\ \A u \in Workers \ {w} : draft'[u] = draft[u]
  BY <1>1, PutEffect
<1>3. cur \in [Workers -> Execs \cup {NoExec}] /\ pos \in [Workers -> 0 .. LastStep + 1]
  BY <1>1 DEF TypeOK
<1>4. /\ cur' \in [Workers -> Execs \cup {NoExec}] /\ cur'[w] = NoExec
      /\ pos' \in [Workers -> 0 .. LastStep + 1] /\ pos'[w] = 0
      /\ \A u \in Workers \ {w} : cur'[u] = cur[u] /\ pos'[u] = pos[u]
  BY <1>3, StepsAssumption DEF LeaveExecution
<1>5. OneOwner'
  BY <1>1, <1>2 DEF OneOwner
<1>6. AtWork'
  BY <1>1, <1>2, <1>4 DEF AtWork
<1>7. DraftsExtend'
  <2> SUFFICES ASSUME NEW u \in Workers, NEW f \in DOMAIN draft'[u]
               PROVE  /\ row[f].ok \subseteq draft'[u][f].ok
                      /\ draft'[u][f].status \in Active => row[f].status \in Active
                      /\ draft'[u][f].status \notin {"pending", "absent"}
                      /\ row[f].status # "absent"
                      /\ draft'[u][f].status = "running" => cur'[u] = f /\ pos'[u] # 0
                      /\ ParkedWhole(draft'[u][f])
    BY DEF DraftsExtend, ParkedWhole
  <2>1. CASE u # w
    BY <2>1, <1>1, <1>2, <1>4 DEF DraftsExtend
  <2>2. CASE u = w /\ f = e
    BY <2>2, <1>1, <1>2, <1>4, ExecsAssumption DEF AtWork
  <2>3. CASE u = w /\ f # e
    BY <2>3, <1>1, <1>2 DEF DraftsExtend
  <2> QED
    BY <2>1, <2>2, <2>3
<1>8. CommittedRowsAreWhole' /\ PairUnique'
  BY <1>1 DEF CommittedRowsAreWhole, PairUnique
<1> QED
  BY <1>2, <1>4, <1>5, <1>6, <1>7, <1>8 DEF Safe

\* A batch is dropped: a crash, an SQL error, a deadlock.
LEMMA Rollback ==
    ASSUME IInv, NEW w \in Workers, NewBatch(w), crashes' \in 0 .. MaxCrashes,
           UNCHANGED <<row, due, sent, operatorVars>>
    PROVE  TypeOK' /\ Safe'
<1>1. TypeOK /\ OneOwner /\ AtWork /\ DraftsExtend /\ CommittedRowsAreWhole /\ PairUnique
  BY DEF IInv
<1>2. /\ DOMAIN draft'[w] = {}
      /\ \A u \in Workers \ {w} : draft'[u] = draft[u]
      /\ cur' = [cur EXCEPT ![w] = NoExec]
      /\ pos' = [pos EXCEPT ![w] = 0]
  BY <1>1, NewBatchEffect
<1>3. cur \in [Workers -> Execs \cup {NoExec}] /\ pos \in [Workers -> 0 .. LastStep + 1]
  BY <1>1 DEF TypeOK
<1>4. /\ cur'[w] = NoExec /\ pos'[w] = 0
      /\ \A u \in Workers \ {w} : cur'[u] = cur[u] /\ pos'[u] = pos[u]
  BY <1>2, <1>3
<1>5. OneOwner'
  BY <1>1, <1>2 DEF OneOwner
<1>6. AtWork'
  BY <1>1, <1>2, <1>4 DEF AtWork
<1>7. DraftsExtend'
  BY <1>1, <1>2, <1>4 DEF DraftsExtend, ParkedWhole
<1>8. CommittedRowsAreWhole' /\ PairUnique'
  BY <1>1 DEF CommittedRowsAreWhole, PairUnique
<1>9. cur' \in [Workers -> Execs \cup {NoExec}] /\ pos' \in [Workers -> 0 .. LastStep + 1]
  BY <1>2, <1>3, StepsAssumption
<1>10. /\ DraftTypeOK' /\ phase' \in [Workers -> {"claim", "await"}]
       /\ left' \in [Workers -> 0 .. BatchSize] /\ todo' \in [Workers -> SUBSET Execs]
       /\ failed' \in [Workers -> BOOLEAN]
  BY <1>1, NewBatchEffect
<1>11. TypeOK'
  BY <1>1, <1>9, <1>10 DEF TypeOK, operatorVars
<1> QED
  BY <1>5, <1>6, <1>7, <1>8, <1>11 DEF Safe

\* A batch commits: rows of other drafts stay, and what becomes visible is whole.
LEMMA CommitBatch ==
    ASSUME IInv, NEW w \in Workers, Commit(w)
    PROVE  row' \in [Execs -> Rows] /\ Safe'
<1>1. TypeOK /\ OneOwner /\ AtWork /\ DraftsExtend /\ CommittedRowsAreWhole /\ PairUnique
  BY DEF IInv
<1>2. /\ DOMAIN draft'[w] = {}
      /\ \A u \in Workers \ {w} : draft'[u] = draft[u]
      /\ cur' = [cur EXCEPT ![w] = NoExec]
      /\ pos' = [pos EXCEPT ![w] = 0]
  BY <1>1, NewBatchEffect DEF Commit
<1>3. cur \in [Workers -> Execs \cup {NoExec}] /\ pos \in [Workers -> 0 .. LastStep + 1]
  BY <1>1 DEF TypeOK
<1>4. /\ cur'[w] = NoExec /\ pos'[w] = 0
      /\ \A u \in Workers \ {w} : cur'[u] = cur[u] /\ pos'[u] = pos[u]
  BY <1>2, <1>3
<1>5. cur[w] = NoExec /\ row' = [e \in Execs |-> View(w, e)]
  BY DEF Commit
<1>6. \A e \in Execs : /\ e \in DOMAIN draft[w] => row'[e] = draft[w][e]
                       /\ e \notin DOMAIN draft[w] => row'[e] = row[e]
  BY <1>5 DEF View
<1>7. row' \in [Execs -> Rows]
  BY <1>1, <1>5, ViewType
<1>8. \A e \in Execs : row'[e].status \in Active => row[e].status \in Active
  BY <1>1, <1>6 DEF DraftsExtend
<1>9. OneOwner'
  BY <1>1, <1>2 DEF OneOwner
<1>10. AtWork'
  <2>1. \A e \in Execs : row[e].status # "absent" => row'[e].status # "absent"
    BY <1>1, <1>6 DEF DraftsExtend
  <2> QED
    BY <1>1, <1>2, <1>3, <1>4, <2>1 DEF AtWork
<1>11. DraftsExtend'
  <2> SUFFICES ASSUME NEW u \in Workers, NEW f \in DOMAIN draft'[u]
               PROVE  /\ row'[f].ok \subseteq draft'[u][f].ok
                      /\ draft'[u][f].status \in Active => row'[f].status \in Active
                      /\ draft'[u][f].status \notin {"pending", "absent"}
                      /\ row'[f].status # "absent"
                      /\ draft'[u][f].status = "running" => cur'[u] = f /\ pos'[u] # 0
                      /\ ParkedWhole(draft'[u][f])
    BY DEF DraftsExtend, ParkedWhole
  <2>1. u # w /\ f \in DOMAIN draft[u] /\ draft'[u] = draft[u]
    BY <1>2
  <2>2. f \in Execs /\ f \notin DOMAIN draft[w]
    BY <2>1, <1>1, DraftType DEF OneOwner
  <2>3. row'[f] = row[f]
    BY <2>2, <1>6
  <2> QED
    BY <2>1, <2>3, <1>1, <1>4 DEF DraftsExtend
<1>12. CommittedRowsAreWhole'
  <2> SUFFICES ASSUME NEW e \in Execs
               PROVE  row'[e].status # "running" /\ ParkedWhole(row'[e])
    BY DEF CommittedRowsAreWhole, ParkedWhole
  <2>1. CASE e \in DOMAIN draft[w]
    BY <2>1, <1>1, <1>5, <1>6, ExecsAssumption DEF DraftsExtend
  <2>2. CASE e \notin DOMAIN draft[w]
    BY <2>2, <1>1, <1>6 DEF CommittedRowsAreWhole, ParkedWhole
  <2> QED
    BY <2>1, <2>2
<1>13. PairUnique'
  BY <1>1, <1>8 DEF PairUnique
<1> QED
  BY <1>7, <1>9, <1>10, <1>11, <1>12, <1>13 DEF Safe

\* A route or the expiry of requests writes committed rows outside every open
\* transaction: no locked row changes, and logged successes stay.
LEMMA RouteWrite ==
    ASSUME IInv, UNCHANGED <<draft, cur, pos>>,
           \A e \in Execs : row'[e].ok = row[e].ok,
           \A e \in Execs : row[e].status # "absent" => row'[e].status # "absent",
           \A e \in Locked : row'[e] = row[e],
           \A e \in Execs : row'[e].status # "running" /\ ParkedWhole(row'[e]),
           PairUnique'
    PROVE  Safe'
<1>1. TypeOK /\ OneOwner /\ AtWork /\ DraftsExtend
  BY DEF IInv
<1>2. OneOwner' /\ AtWork'
  BY <1>1 DEF OneOwner, AtWork, TypeOK
<1>3. DraftsExtend'
  BY <1>1 DEF DraftsExtend, ParkedWhole, Locked
<1>4. CommittedRowsAreWhole'
  BY DEF CommittedRowsAreWhole, ParkedWhole
<1> QED
  BY <1>2, <1>3, <1>4 DEF Safe

\* A step that touches neither rows nor drafts nor a worker's place in an execution.
LEMMA Elsewhere ==
    ASSUME IInv, UNCHANGED <<row, draft, cur, pos>>
    PROVE  Safe'
  BY DEF IInv, Safe, OneOwner, AtWork, DraftsExtend, CommittedRowsAreWhole, PairUnique, ParkedWhole

-----------------------------------------------------------------------------
\* Empty tables and idle workers satisfy the invariant.
LEMMA InitEstablishes == Init => IInv
<1> SUFFICES ASSUME Init PROVE IInv
  OBVIOUS
<1> USE StepsAssumption, BoundsAssumption, ExecsAssumption DEF Init
<1>1. NoRow \in Rows
  BY DEF NoRow, Rows, ApprovalStatuses, Steps
<1>2. DraftTypeOK
  BY NoDraftType DEF DraftTypeOK
<1>3. TypeOK
  <2>1. sent \in [Execs -> [Steps -> 0 .. MaxSends]]
    OBVIOUS
  <2>2. row \in [Execs -> Rows]
    BY <1>1
  <2> HIDE DEF Init
  <2>3. /\ due \subseteq Execs /\ resuming \subseteq Execs
        /\ phase \in [Workers -> {"claim", "await"}] /\ left \in [Workers -> 0 .. BatchSize]
        /\ todo \in [Workers -> SUBSET Execs] /\ cur \in [Workers -> Execs \cup {NoExec}]
        /\ pos \in [Workers -> 0 .. LastStep + 1] /\ failed \in [Workers -> BOOLEAN]
        /\ resumes \in 0 .. MaxResumes /\ crashes \in 0 .. MaxCrashes
    BY DEF Init
  <2> QED
    BY <1>2, <2>1, <2>2, <2>3 DEF TypeOK
<1>4. OneOwner /\ DraftsExtend
  BY NoDraftType DEF OneOwner, DraftsExtend
<1>5. AtWork
  BY DEF AtWork
<1>6. CommittedRowsAreWhole /\ PairUnique
  BY DEF CommittedRowsAreWhole, PairUnique, NoRow, Active
<1> QED
  BY <1>3, <1>4, <1>5, <1>6 DEF IInv

-----------------------------------------------------------------------------
\* Claims and visits of parked executions keep the invariant.
LEMMA VisitsKeep ==
    ASSUME IInv, NEW w \in Workers, NEW e \in Execs,
           \/ Claim(w, e) \/ VisitRequeued(w, e) \/ VisitResumed(w, e)
           \/ VisitSkipped(w, e) \/ VisitRefused(w, e)
    PROVE  TypeOK' /\ Safe'
<1>1. TypeOK /\ AtWork /\ DraftsExtend /\ CommittedRowsAreWhole
  BY DEF IInv
<1>2. row[e] \in Rows /\ View(w, e) \in Rows
  BY <1>1, ViewType DEF TypeOK
<1>3. CASE Claim(w, e)
  <2> DEFINE v == [row[e] EXCEPT !.status = "running"]
  <2>1. /\ cur[w] = NoExec /\ left[w] > 0 /\ e \in PendingRows
        /\ Lease(w, e, v, row[e].done + 1)
        /\ left' = [left EXCEPT ![w] = @ - 1]
        /\ UNCHANGED <<row, due, sent, phase, todo, operatorVars, crashes>>
    BY <1>3 DEF Claim, Lowest
  <2>2. row[e].status = "pending" /\ \A u \in Workers : e \notin DOMAIN draft[u]
    BY <2>1 DEF PendingRows, Locked
  <2>3. v \in Rows /\ v.status = "running" /\ v.done = row[e].done /\ v.ok = row[e].ok
    BY <1>2 DEF Rows, Active
  <2>4. row[e].done + 1 \in 1 .. LastStep + 1 /\ row[e].done < row[e].done + 1
    BY <1>2, StepsAssumption DEF Rows
  <2>5. /\ Put(w, e, v) /\ cur' = [cur EXCEPT ![w] = e] /\ Start(w, v, row[e].done + 1)
        /\ failed' = [failed EXCEPT ![w] = FALSE]
    BY <2>1 DEF Lease
  <2> HIDE DEF v
  <2>6. /\ DraftTypeOK'
        /\ cur' \in [Workers -> Execs \cup {NoExec}]
        /\ pos' \in [Workers -> 0 .. LastStep + 1]
        /\ Safe'
    BY <2>1, <2>2, <2>3, <2>4, <2>5, WorkOn DEF Active
  <2>7. left' \in [Workers -> 0 .. BatchSize]
    BY <1>1, <2>1, BoundsAssumption DEF TypeOK
  <2> QED
    BY <1>1, <2>1, <2>5, <2>6, <2>7 DEF TypeOK, operatorVars
<1>4. CASE VisitRequeued(w, e)
  <2> DEFINE v == [View(w, e) EXCEPT !.status = "running"]
  <2>1. /\ cur[w] = NoExec /\ Free(w, e) /\ View(w, e).status = "pending"
        /\ Lease(w, e, v, View(w, e).done + 1)
        /\ Visited(w, e)
        /\ UNCHANGED <<row, due, sent, phase, left, operatorVars, crashes>>
    BY <1>4 DEF VisitRequeued, Visiting
  <2>2. View(w, e) = row[e]
    BY <1>1, <2>1 DEF View, DraftsExtend
  <2>3. v \in Rows /\ v.status = "running" /\ v.done = row[e].done /\ v.ok = row[e].ok
    BY <1>2, <2>2 DEF Rows, Active
  <2>4. row[e].done + 1 \in 1 .. LastStep + 1 /\ row[e].done < row[e].done + 1
    BY <1>2, StepsAssumption DEF Rows
  <2>5. /\ Put(w, e, v) /\ cur' = [cur EXCEPT ![w] = e] /\ Start(w, v, row[e].done + 1)
        /\ failed' = [failed EXCEPT ![w] = FALSE]
    BY <2>1, <2>2 DEF Lease
  <2> HIDE DEF v
  <2>6. /\ DraftTypeOK'
        /\ cur' \in [Workers -> Execs \cup {NoExec}]
        /\ pos' \in [Workers -> 0 .. LastStep + 1]
        /\ Safe'
    BY <2>1, <2>2, <2>3, <2>4, <2>5, WorkOn DEF Active, Free
  <2>7. todo' \in [Workers -> SUBSET Execs]
    BY <1>1, <2>1 DEF TypeOK, Visited
  <2> QED
    BY <1>1, <2>1, <2>5, <2>6, <2>7 DEF TypeOK, operatorVars
<1>5. CASE VisitResumed(w, e)
  <2> DEFINE g == View(w, e).gate
             v == [View(w, e) EXCEPT !.status = "running", !.done = g, !.ap[g] = Outcome(w, e)]
  <2>1. /\ cur[w] = NoExec /\ Free(w, e) /\ View(w, e).status = "awaiting_approval"
        /\ Goes(g, Outcome(w, e))
        /\ Lease(w, e, v, g + 1)
        /\ Visited(w, e)
        /\ UNCHANGED <<row, due, sent, phase, left, operatorVars, crashes>>
    BY <1>5 DEF VisitResumed, Visiting
  <2>2. Outcome(w, e) \in ApprovalStatuses
    BY <2>1, StepsAssumption DEF Goes, ApprovalStatuses
  <2>3. /\ row[e].status \in Active /\ row[e].ok \subseteq View(w, e).ok
        /\ g \in Gates
    BY <1>1, <2>1 DEF View, DraftsExtend, CommittedRowsAreWhole, ParkedWhole, Active
  <2>4. g \in 1 .. LastStep
    BY <2>3, StepsAssumption DEF Steps
  <2>5. v \in Rows /\ v.status = "running" /\ v.done = g /\ v.ok = View(w, e).ok
    <3>1. View(w, e) \in Rows
      BY <1>2
    <3> DEFINE x == View(w, e)
               a == [x.ap EXCEPT ![g] = Outcome(w, e)]
    <3>2. a \in [Gates -> ApprovalStatuses]
      BY <3>1, <2>2 DEF Rows
    <3>3. v = [x EXCEPT !.status = "running", !.done = g, !.ap = a]
      BY <3>1 DEF Rows
    <3> HIDE DEF x, a, v
    <3>4. x \in Rows /\ g \in 0 .. LastStep
      BY <3>1, <2>4, StepsAssumption DEF x
    <3> HIDE DEF g
    <3>5. v \in Rows /\ v.status = "running" /\ v.done = g /\ v.ok = x.ok
      BY <3>2, <3>3, <3>4 DEF Rows, Active
    <3> QED
      BY <3>5 DEF x
  <2>6. g + 1 \in 1 .. LastStep + 1 /\ g < g + 1
    BY <2>4, StepsAssumption
  <2>7. /\ Put(w, e, v) /\ cur' = [cur EXCEPT ![w] = e] /\ Start(w, v, g + 1)
        /\ failed' = [failed EXCEPT ![w] = FALSE]
    BY <2>1 DEF Lease
  <2> HIDE DEF v, g
  <2>8. /\ DraftTypeOK'
        /\ cur' \in [Workers -> Execs \cup {NoExec}]
        /\ pos' \in [Workers -> 0 .. LastStep + 1]
        /\ Safe'
    BY <2>1, <2>3, <2>5, <2>6, <2>7, WorkOn DEF Free
  <2>9. todo' \in [Workers -> SUBSET Execs]
    BY <1>1, <2>1 DEF TypeOK, Visited
  <2> QED
    BY <1>1, <2>1, <2>7, <2>8, <2>9 DEF TypeOK, operatorVars
<1>6. CASE VisitSkipped(w, e)
  <2>1. Safe'
    BY <1>6, Elsewhere DEF VisitSkipped
  <2> QED
    BY <1>1, <1>6, <2>1 DEF VisitSkipped, Visited, TypeOK, DraftTypeOK, operatorVars
<1>7. CASE VisitRefused(w, e)
  <2>1. /\ cur[w] = NoExec /\ cur' = [cur EXCEPT ![w] = e] /\ pos[w] = 0
        /\ UNCHANGED <<row, draft, pos>>
    BY <1>1, <1>7 DEF VisitRefused, Visiting, AtWork
  <2>2. cur \in [Workers -> Execs \cup {NoExec}]
    BY <1>1 DEF TypeOK
  <2>3. cur'[w] = e /\ \A u \in Workers \ {w} : cur'[u] = cur[u]
    BY <2>1, <2>2
  <2>4. OneOwner' /\ CommittedRowsAreWhole' /\ PairUnique'
    BY <2>1 DEF IInv, OneOwner, CommittedRowsAreWhole, PairUnique
  <2>5. AtWork'
    <3>1. row[e].status # "absent"
      BY <1>1, <1>7 DEF VisitRefused, View, DraftsExtend
    <3> QED
      BY <1>1, <2>1, <2>3, <3>1, ExecsAssumption DEF AtWork
  <2>6. DraftsExtend'
    BY <1>1, <2>1, <2>3 DEF DraftsExtend, ParkedWhole
  <2> QED
    BY <1>1, <1>7, <2>1, <2>4, <2>5, <2>6 DEF VisitRefused, Visited, TypeOK, DraftTypeOK, operatorVars, Safe
<1> QED
  BY <1>3, <1>4, <1>5, <1>6, <1>7

\* The second half of a refusal keeps the invariant.
LEMMA RefusalsKeep ==
    ASSUME IInv, NEW w \in Workers, NEW e \in Execs, RefuseWrite(w, e) \/ RefuseSkipped(w, e)
    PROVE  TypeOK' /\ Safe'
<1>1. TypeOK /\ AtWork /\ DraftsExtend /\ OneOwner /\ CommittedRowsAreWhole /\ PairUnique
  BY DEF IInv
<1>2. View(w, e) \in Rows
  BY <1>1, ViewType
<1>3. cur[w] = e /\ pos[w] = 0
  BY DEF RefuseWrite, RefuseSkipped, Refusing
<1>4. CASE RefuseWrite(w, e)
  <2> DEFINE x == View(w, e)
             a == [x.ap EXCEPT ![x.gate] = Outcome(w, e)]
             v == [x EXCEPT !.status = "not_actioned", !.ap[x.gate] = Outcome(w, e)]
  <2>1. /\ Put(w, e, v) /\ LeaveExecution(w) /\ Free(w, e)
        /\ UNCHANGED <<row, due, sent, phase, left, todo, operatorVars, crashes>>
    BY <1>4 DEF RefuseWrite
  <2>2. x.gate \in Gates => Outcome(w, e) \in ApprovalStatuses
    BY <1>2 DEF Outcome, Rows, ApprovalStatuses, Refusals
  <2>3. a \in [Gates -> ApprovalStatuses]
    <3>1. CASE x.gate \in Gates
      BY <3>1, <1>2, <2>2 DEF Rows
    <3>2. CASE x.gate \notin Gates
      BY <3>2, <1>2 DEF Rows
    <3> QED
      BY <3>1, <3>2
  <2>4. v = [x EXCEPT !.status = "not_actioned", !.ap = a]
    BY <1>2 DEF Rows
  <2>5. row[e].ok \subseteq x.ok
    BY <1>1 DEF View, DraftsExtend
  <2> HIDE DEF v, a
  <2>6. v \in Rows /\ v.status = "not_actioned" /\ v.ok = x.ok
    BY <1>2, <2>3, <2>4 DEF Rows, Active, Terminal
  <2> HIDE DEF x
  <2>7. /\ DraftTypeOK'
        /\ cur' \in [Workers -> Execs \cup {NoExec}]
        /\ pos' \in [Workers -> 0 .. LastStep + 1]
        /\ Safe'
    BY <1>3, <2>1, <2>5, <2>6, Release DEF Free, ParkedWhole, Active
  <2> QED
    BY <1>1, <2>1, <2>7 DEF TypeOK, operatorVars, LeaveExecution
<1>5. CASE RefuseSkipped(w, e)
  <2>1. /\ cur' = [cur EXCEPT ![w] = NoExec] /\ pos' = [pos EXCEPT ![w] = 0]
        /\ UNCHANGED <<row, draft>>
    BY <1>5 DEF RefuseSkipped, LeaveExecution
  <2>2. cur \in [Workers -> Execs \cup {NoExec}] /\ pos \in [Workers -> 0 .. LastStep + 1]
    BY <1>1 DEF TypeOK
  <2>3. /\ cur' \in [Workers -> Execs \cup {NoExec}] /\ cur'[w] = NoExec
        /\ pos' \in [Workers -> 0 .. LastStep + 1] /\ pos'[w] = 0
        /\ \A u \in Workers \ {w} : cur'[u] = cur[u] /\ pos'[u] = pos[u]
    BY <2>1, <2>2, StepsAssumption
  <2>4. OneOwner' /\ CommittedRowsAreWhole' /\ PairUnique'
    BY <1>1, <2>1 DEF OneOwner, CommittedRowsAreWhole, PairUnique
  <2>5. AtWork'
    BY <1>1, <2>1, <2>3 DEF AtWork
  <2>6. DraftsExtend'
    BY <1>1, <1>3, <2>1, <2>3 DEF DraftsExtend, ParkedWhole
  <2> QED
    BY <1>1, <1>5, <2>1, <2>3, <2>4, <2>5, <2>6
    DEF RefuseSkipped, LeaveExecution, TypeOK, DraftTypeOK, operatorVars, Safe
<1> QED
  BY <1>4, <1>5

\* The steps of _process_steps keep the invariant.
LEMMA StepsKeep ==
    ASSUME IInv, NEW w \in Workers, NEW e \in Execs,
           \/ StepSucceeds(w, e) \/ StepFailsContinue(w, e) \/ StepFailsAbort(w, e)
           \/ StepSqlError(w, e) \/ PauseForApproval(w, e) \/ Finish(w, e)
    PROVE  TypeOK' /\ Safe'
<1>1. TypeOK /\ AtWork /\ DraftsExtend /\ OneOwner
  BY DEF IInv
<1>2. cur[w] = e /\ pos[w] \in 1 .. LastStep + 1
  BY StepsAssumption
  DEF StepSucceeds, StepFailsContinue, StepFailsAbort, StepSqlError, PauseForApproval, Finish,
      AtStep, Steps
<1> DEFINE x == draft[w][e]
           i == pos[w]
<1>3. /\ e \in DOMAIN draft[w] /\ x \in Rows
      /\ x.status = "running" /\ x.done < i /\ i \notin x.ok
  BY <1>1, <1>2, ExecsAssumption, DraftType DEF AtWork
<1>4. \A u \in Workers \ {w} : e \notin DOMAIN draft[u]
  BY <1>1, <1>3 DEF OneOwner
<1>5. row[e].ok \subseteq x.ok /\ row[e].status \in Active
  BY <1>1, <1>3 DEF DraftsExtend, Active
<1>6. cur \in [Workers -> Execs \cup {NoExec}]
  BY <1>1 DEF TypeOK
<1>7. cur = [cur EXCEPT ![w] = e]
  BY <1>2, <1>6
<1>8. CASE StepSucceeds(w, e)
  <2> DEFINE v == [x EXCEPT !.ok = @ \cup {i}, !.done = i]
  <2>1. /\ i \in Steps /\ Put(w, e, v) /\ Start(w, v, i + 1)
        /\ sent' = [sent EXCEPT ![e][i] = IF @ < MaxSends THEN @ + 1 ELSE @]
        /\ UNCHANGED <<row, due, phase, left, todo, cur, failed, operatorVars, crashes>>
    BY <1>8 DEF StepSucceeds, AtStep
  <2>2. v \in Rows /\ v.status = "running" /\ v.done = i /\ x.ok \subseteq v.ok
    <3> HIDE DEF x, i
    <3>1. i \in 0 .. LastStep
      BY <2>1, StepsAssumption DEF Steps
    <3> QED
      BY <1>3, <2>1, <3>1 DEF Rows
  <2>3. i + 1 \in 1 .. LastStep + 1 /\ i < i + 1
    BY <2>1, StepsAssumption DEF Steps
  <2> HIDE DEF v
  <2>4. /\ DraftTypeOK'
        /\ cur' \in [Workers -> Execs \cup {NoExec}]
        /\ pos' \in [Workers -> 0 .. LastStep + 1]
        /\ Safe'
    BY <1>2, <1>4, <1>5, <1>7, <2>1, <2>2, <2>3, WorkOn
  <2>5. sent' \in [Execs -> [Steps -> 0 .. MaxSends]]
    <3>1. sent \in [Execs -> [Steps -> 0 .. MaxSends]] /\ MaxSends \in Nat
      BY <1>1, BoundsAssumption DEF TypeOK
    <3>2. (IF sent[e][i] < MaxSends THEN sent[e][i] + 1 ELSE sent[e][i]) \in 0 .. MaxSends
      BY <2>1, <3>1
    <3> QED
      BY <2>1, <3>1, <3>2
  <2> QED
    BY <1>1, <2>1, <2>4, <2>5 DEF TypeOK, operatorVars
<1>9. CASE StepFailsContinue(w, e)
  <2> DEFINE v == [x EXCEPT !.bad = @ \cup {i}]
  <2>1. /\ i \in Steps /\ Put(w, e, v) /\ Start(w, v, i + 1)
        /\ failed' = [failed EXCEPT ![w] = TRUE]
        /\ UNCHANGED <<row, due, sent, phase, left, todo, cur, operatorVars, crashes>>
    BY <1>9 DEF StepFailsContinue, AtStep
  <2>2. v \in Rows /\ v.status = "running" /\ v.done = x.done /\ v.ok = x.ok
    BY <1>3, <2>1 DEF Rows
  <2>3. i + 1 \in 1 .. LastStep + 1 /\ x.done < i + 1
    BY <1>3, <2>1, StepsAssumption DEF Steps, Rows
  <2> HIDE DEF v
  <2>4. /\ DraftTypeOK'
        /\ cur' \in [Workers -> Execs \cup {NoExec}]
        /\ pos' \in [Workers -> 0 .. LastStep + 1]
        /\ Safe'
    BY <1>2, <1>4, <1>5, <1>7, <2>1, <2>2, <2>3, WorkOn
  <2> QED
    BY <1>1, <2>1, <2>4 DEF TypeOK, operatorVars
<1>10. CASE StepFailsAbort(w, e)
  <2> DEFINE v == [x EXCEPT !.bad = @ \cup {i}, !.status = "failed"]
  <2>1. /\ i \in Steps /\ Put(w, e, v) /\ LeaveExecution(w)
        /\ UNCHANGED <<row, due, sent, phase, left, todo, operatorVars, crashes>>
    BY <1>10 DEF StepFailsAbort, AtStep
  <2>2. v \in Rows /\ v.status = "failed" /\ v.ok = x.ok
    BY <1>3, <2>1 DEF Rows, Terminal
  <2> HIDE DEF v
  <2>3. /\ DraftTypeOK'
        /\ cur' \in [Workers -> Execs \cup {NoExec}]
        /\ pos' \in [Workers -> 0 .. LastStep + 1]
        /\ Safe'
    BY <1>2, <1>4, <1>5, <2>1, <2>2, Release DEF ParkedWhole, Active
  <2> QED
    BY <1>1, <2>1, <2>3 DEF TypeOK, operatorVars, LeaveExecution
<1>11. CASE StepSqlError(w, e)
  <2>1. NewBatch(w) /\ UNCHANGED <<row, due, sent, operatorVars, crashes>>
    BY <1>11 DEF StepSqlError
  <2>2. crashes' \in 0 .. MaxCrashes
    BY <1>1, <2>1 DEF TypeOK
  <2> QED
    BY <2>1, <2>2, Rollback
<1>12. CASE PauseForApproval(w, e)
  <2> DEFINE a == [x.ap EXCEPT ![i] = IF @ \in {"pending", "approved"} THEN @ ELSE "pending"]
             v == [x EXCEPT !.status = "awaiting_approval", !.gate = i,
                            !.ap[i] = IF @ \in {"pending", "approved"} THEN @ ELSE "pending"]
  <2>1. /\ i \in Gates /\ Put(w, e, v) /\ LeaveExecution(w)
        /\ UNCHANGED <<row, due, sent, phase, left, todo, operatorVars, crashes>>
    BY <1>12 DEF PauseForApproval
  <2>2. a \in [Gates -> ApprovalStatuses] /\ a[i] # "none"
    BY <1>3, <2>1 DEF Rows, ApprovalStatuses
  <2>3. v = [x EXCEPT !.status = "awaiting_approval", !.gate = i, !.ap = a]
    BY <1>3 DEF Rows
  <2> HIDE DEF v, a
  <2>4. /\ v \in Rows /\ v.status = "awaiting_approval" /\ v.ok = x.ok
        /\ v.gate = i /\ v.ap = a /\ v.done = x.done
    BY <1>3, <2>1, <2>2, <2>3 DEF Rows, Active
  <2>5. ParkedWhole(v)
    BY <1>3, <2>1, <2>2, <2>4 DEF ParkedWhole
  <2>6. /\ DraftTypeOK'
        /\ cur' \in [Workers -> Execs \cup {NoExec}]
        /\ pos' \in [Workers -> 0 .. LastStep + 1]
        /\ Safe'
    BY <1>2, <1>4, <1>5, <2>1, <2>4, <2>5, Release
  <2> QED
    BY <1>1, <2>1, <2>6 DEF TypeOK, operatorVars, LeaveExecution
<1>13. CASE Finish(w, e)
  <2> DEFINE v == [x EXCEPT !.status = IF failed[w] THEN "failed" ELSE "success"]
  <2>1. /\ Put(w, e, v) /\ LeaveExecution(w)
        /\ UNCHANGED <<row, due, sent, phase, left, todo, operatorVars, crashes>>
    BY <1>13 DEF Finish
  <2>2. v \in Rows /\ v.status \in {"failed", "success"} /\ v.ok = x.ok
    BY <1>3 DEF Rows, Terminal
  <2> HIDE DEF v
  <2>3. /\ DraftTypeOK'
        /\ cur' \in [Workers -> Execs \cup {NoExec}]
        /\ pos' \in [Workers -> 0 .. LastStep + 1]
        /\ Safe'
    BY <1>2, <1>4, <1>5, <2>1, <2>2, Release DEF ParkedWhole, Active
  <2> QED
    BY <1>1, <2>1, <2>3 DEF TypeOK, operatorVars, LeaveExecution
<1> QED
  BY <1>8, <1>9, <1>10, <1>11, <1>12, <1>13

\* The ends of a batch and the listing of parked executions keep the invariant.
LEMMA BatchesKeep ==
    ASSUME IInv, NEW w \in Workers,
           ListAwaiting(w) \/ Commit(w) \/ DeadlockVictim(w) \/ Crash(w)
    PROVE  TypeOK' /\ Safe'
<1>1. TypeOK
  BY DEF IInv
<1>2. CASE ListAwaiting(w)
  <2>1. Safe'
    BY <1>2, Elsewhere DEF ListAwaiting
  <2>2. \A S : {e \in Parked(w) : Cardinality({f \in Parked(w) : f < e}) < S} \subseteq Execs
    BY DEF Parked
  <2>3. /\ phase' \in [Workers -> {"claim", "await"}] /\ todo' \in [Workers -> SUBSET Execs]
        /\ UNCHANGED <<row, due, sent, draft, left, cur, pos, failed, operatorVars, crashes>>
    BY <1>1, <1>2, <2>2 DEF ListAwaiting, TypeOK
  <2> QED
    BY <1>1, <2>1, <2>3 DEF TypeOK, DraftTypeOK, operatorVars
<1>3. CASE Commit(w)
  <2>1. row' \in [Execs -> Rows] /\ Safe'
    BY <1>3, CommitBatch
  <2>2. NewBatch(w) /\ due' \subseteq due /\ UNCHANGED <<sent, operatorVars, crashes>>
    BY <1>3 DEF Commit, StillDue
  <2>3. cur' \in [Workers -> Execs \cup {NoExec}] /\ pos' \in [Workers -> 0 .. LastStep + 1]
    BY <1>1, <2>2, StepsAssumption DEF NewBatch, LeaveExecution, TypeOK
  <2>4. /\ DraftTypeOK' /\ phase' \in [Workers -> {"claim", "await"}]
        /\ left' \in [Workers -> 0 .. BatchSize] /\ todo' \in [Workers -> SUBSET Execs]
        /\ failed' \in [Workers -> BOOLEAN]
    BY <1>1, <2>2, NewBatchEffect
  <2> QED
    BY <1>1, <2>1, <2>2, <2>3, <2>4 DEF TypeOK, operatorVars
<1>4. CASE DeadlockVictim(w)
  BY <1>1, <1>4, Rollback DEF DeadlockVictim, TypeOK
<1>5. CASE Crash(w)
  <2>1. crashes' \in 0 .. MaxCrashes
    BY <1>1, <1>5, BoundsAssumption DEF Crash, TypeOK
  <2> QED
    BY <1>5, <2>1, Rollback DEF Crash
<1> QED
  BY <1>2, <1>3, <1>4, <1>5

\* Setting the status of a row that no transaction has locked keeps the invariant if the
\* new status is not running or parked, and an active one only where the index allows it.
LEMMA SetStatusKeeps ==
    ASSUME IInv, NEW e \in Execs, NEW s \in {"pending"} \cup Terminal,
           e \notin Locked, s = "pending" => PairFree(e),
           SetStatus(e, s), UNCHANGED <<draft, cur, pos>>
    PROVE  row' \in [Execs -> Rows] /\ Safe'
<1>1. TypeOK /\ CommittedRowsAreWhole /\ PairUnique
  BY DEF IInv
<1>2. row \in [Execs -> Rows]
  BY <1>1 DEF TypeOK
<1>3. row' = [row EXCEPT ![e] = [row[e] EXCEPT !.status = s]]
  BY <1>2 DEF SetStatus
<1> DEFINE v == [row[e] EXCEPT !.status = s]
<1>4. v \in Rows /\ v.status = s /\ v.ok = row[e].ok
  BY <1>2 DEF Rows, Active
<1> HIDE DEF v
<1>5. row' \in [Execs -> Rows] /\ row'[e] = v /\ \A f \in Execs \ {e} : row'[f] = row[f]
  BY <1>2, <1>3, <1>4 DEF v
<1>6. \A f \in Execs : row'[f].ok = row[f].ok
  BY <1>4, <1>5
<1>7. \A f \in Locked : row'[f] = row[f]
  BY <1>1, <1>5, DraftType DEF Locked
<1>8. \A f \in Execs : row'[f].status # "running" /\ ParkedWhole(row'[f])
  BY <1>1, <1>4, <1>5 DEF CommittedRowsAreWhole, ParkedWhole, Terminal
<1>9. PairUnique'
  BY <1>1, <1>4, <1>5 DEF PairUnique, PairFree, Terminal, Active
<1>10. \A f \in Execs : row[f].status # "absent" => row'[f].status # "absent"
  BY <1>4, <1>5 DEF Terminal
<1> QED
  BY <1>5, <1>6, <1>7, <1>8, <1>9, <1>10, RouteWrite

\* Setting the requests of rows that no transaction has locked keeps the invariant.
LEMMA SetApprovalKeeps ==
    ASSUME IInv, NEW S \in SUBSET Execs, NEW a \in ApprovalStatuses \ {"none"},
           \A e \in S : Undecided(e),
           SetApproval(S, a), UNCHANGED <<draft, cur, pos>>
    PROVE  row' \in [Execs -> Rows] /\ Safe'
<1>1. TypeOK /\ CommittedRowsAreWhole /\ PairUnique
  BY DEF IInv
<1>2. row \in [Execs -> Rows]
  BY <1>1 DEF TypeOK
<1> DEFINE v(e) == [row[e] EXCEPT !.ap[row[e].gate] = a]
           b(e) == [row[e].ap EXCEPT ![row[e].gate] = a]
<1>3. \A e \in S : v(e) = [row[e] EXCEPT !.ap = b(e)]
  BY <1>2 DEF Rows
<1>4. \A e \in S : b(e) \in [Gates -> ApprovalStatuses] /\ b(e)[row[e].gate] = a
  BY <1>2 DEF Rows, Undecided
<1>5. row' = [e \in Execs |-> IF e \in S THEN v(e) ELSE row[e]]
  BY DEF SetApproval
<1> HIDE DEF v, b
<1>6. \A e \in S : /\ v(e) \in Rows /\ v(e).status = row[e].status /\ v(e).ok = row[e].ok
                   /\ v(e).gate = row[e].gate /\ v(e).done = row[e].done /\ v(e).ap = b(e)
  <2> TAKE e \in S
  <2>1. row[e] \in Rows
    BY <1>2
  <2> QED
    BY <2>1, <1>3, <1>4 DEF Rows
<1>7. row' \in [Execs -> Rows]
  BY <1>2, <1>5, <1>6
<1>8. \A e \in Execs : row'[e].ok = row[e].ok /\ row'[e].status = row[e].status
  BY <1>5, <1>6
<1>9. \A e \in Locked : row'[e] = row[e]
  BY <1>1, <1>5, DraftType DEF Locked, Undecided
<1>10. \A e \in Execs : row'[e].status # "running" /\ ParkedWhole(row'[e])
  BY <1>1, <1>4, <1>5, <1>6 DEF CommittedRowsAreWhole, ParkedWhole
<1>11. PairUnique'
  BY <1>1, <1>8 DEF PairUnique
<1> QED
  BY <1>7, <1>8, <1>9, <1>10, <1>11, RouteWrite

\* Ingest, the control routes, decisions and time keep the invariant.
LEMMA RoutesKeep ==
    ASSUME IInv, NEW e \in Execs, OperatorStep(e) \/ ComesDue(e)
    PROVE  TypeOK' /\ Safe'
<1>1. TypeOK /\ DraftsExtend
  BY DEF IInv
<1> USE DEF batchVars, operatorVars
<1>2. ASSUME NEW s \in {"pending"} \cup Terminal, e \notin Locked, s = "pending" => PairFree(e),
             SetStatus(e, s), UNCHANGED <<batchVars, due, sent, crashes>>,
             resuming' \subseteq Execs, resumes' \in 0 .. MaxResumes
      PROVE  TypeOK' /\ Safe'
  <2>1. row' \in [Execs -> Rows] /\ Safe'
    BY <1>2, SetStatusKeeps
  <2> QED
    BY <1>1, <1>2, <2>1 DEF TypeOK, DraftTypeOK
<1>3. resuming \subseteq Execs /\ resumes \in 0 .. MaxResumes
  BY <1>1 DEF TypeOK
<1>4. CASE Create(e) \/ \E s \in Execs : Retry(s, e)
  <2>1. Create(e)
    BY <1>4 DEF Retry
  <2>2. e \notin Locked
    BY <1>1, <2>1 DEF Create, DraftsExtend, Locked
  <2> QED
    BY <1>2, <1>3, <2>1, <2>2 DEF Create
<1>5. CASE Abandon(e) \/ PermanentlyFail(e)
  BY <1>2, <1>3, <1>5 DEF Abandon, PermanentlyFail, Terminal
<1>6. CASE ResumeWrite(e)
  BY <1>2, <1>3, <1>6 DEF ResumeWrite
<1>7. CASE ResumeCheck(e) \/ ResumeRefused(e) \/ ComesDue(e)
  <2>1. UNCHANGED <<row, sent, batchVars, crashes>>
    BY <1>7 DEF ResumeCheck, ResumeRefused, ComesDue
  <2>2. Safe'
    BY <2>1, Elsewhere
  <2>3. due' \subseteq Execs /\ resuming' \subseteq Execs /\ resumes' \in 0 .. MaxResumes
    BY <1>1, <1>3, <1>7, BoundsAssumption DEF ResumeCheck, ResumeRefused, ComesDue, TypeOK
  <2> QED
    BY <1>1, <2>1, <2>2, <2>3 DEF TypeOK, DraftTypeOK
<1>8. CASE Decide(e, "approved") \/ Decide(e, "denied")
  <2>1. PICK d \in {"approved", "denied"} : Decide(e, d)
    BY <1>8
  <2>2. row' \in [Execs -> Rows] /\ Safe'
    BY <2>1, SetApprovalKeeps DEF Decide, ApprovalStatuses, Refusals
  <2> QED
    BY <1>1, <2>1, <2>2 DEF Decide, TypeOK, DraftTypeOK
<1> QED
  BY <1>4, <1>5, <1>6, <1>7, <1>8 DEF OperatorStep

-----------------------------------------------------------------------------
\* Every reachable state satisfies the inductive invariant.
THEOREM Inductive == Spec => []IInv
<1>1. IInv /\ [Next]_vars => IInv'
  <2> SUFFICES ASSUME IInv, [Next]_vars PROVE TypeOK' /\ Safe'
    BY DEF IInv, Safe
  <2>1. CASE UNCHANGED vars
    <3>1. Safe'
      BY <2>1, Elsewhere DEF vars, batchVars
    <3> QED
      BY <2>1, <3>1 DEF IInv, TypeOK, DraftTypeOK, vars, batchVars, operatorVars
  <2>2. ASSUME NEW w \in Workers, WorkerStep(w) \/ Crash(w) PROVE TypeOK' /\ Safe'
    BY <2>2, BatchesKeep, VisitsKeep, RefusalsKeep, StepsKeep DEF WorkerStep
  <2>3. ASSUME NEW e \in Execs, OperatorStep(e) \/ ComesDue(e) PROVE TypeOK' /\ Safe'
    BY <2>3, RoutesKeep
  <2>4. CASE ExpireDue
    <3> DEFINE S == {e \in due : Undecided(e)}
    <3>1. /\ S \in SUBSET Execs /\ \A e \in S : Undecided(e)
          /\ SetApproval(S, "expired") /\ due' \subseteq due
          /\ UNCHANGED <<sent, batchVars, operatorVars, crashes>>
      BY <2>4 DEF ExpireDue, IInv, TypeOK
    <3>2. row' \in [Execs -> Rows] /\ Safe'
      BY <3>1, SetApprovalKeeps DEF batchVars, ApprovalStatuses, Refusals
    <3> QED
      BY <3>1, <3>2 DEF IInv, TypeOK, DraftTypeOK, batchVars, operatorVars
  <2> QED
    BY <2>1, <2>2, <2>3, <2>4 DEF Next
<1> QED
  BY InitEstablishes, <1>1, PTL DEF Spec

\* Rows, drafts and the workers' local state keep their types.
THEOREM TypeCorrect == Spec => []TypeOK
<1>1. IInv => TypeOK
  BY DEF IInv
<1> QED
  BY Inductive, <1>1, PTL

\* No execution is in the open transactions of two workers.
THEOREM ExecutionHasOneOwner == Spec => []OneOwner
<1>1. IInv => OneOwner
  BY DEF IInv
<1> QED
  BY Inductive, <1>1, PTL

\* No committed row is running, and a parked one has a request for its gate and no
\* progress beyond it.
THEOREM BatchesCommitWhole == Spec => []CommittedRowsAreWhole
<1>1. IInv => CommittedRowsAreWhole
  BY DEF IInv
<1> QED
  BY Inductive, <1>1, PTL

\* A playbook and alert have at most one active execution, drafts included.
THEOREM PairHasOneActive == Spec => []OneActivePerPair
<1>1. IInv => OneActivePerPair
  BY DEF IInv, OneActivePerPair, PairUnique, DraftsExtend
<1> QED
  BY Inductive, <1>1, PTL

\* Only a step that succeeds has an effect outside.
LEMMA OnlyStepsSend == Next => (\E w \in Workers, f \in Execs : StepSucceeds(w, f)) \/ sent' = sent
<1>1. ASSUME NEW w \in Workers, WorkerStep(w), \A f \in Execs : ~StepSucceeds(w, f)
      PROVE  sent' = sent
  BY <1>1 DEF WorkerStep, ListAwaiting, Commit, DeadlockVictim, Claim, VisitSkipped,
              VisitRequeued, VisitResumed, VisitRefused, RefuseWrite, RefuseSkipped,
              StepFailsContinue, StepFailsAbort, StepSqlError, PauseForApproval, Finish
<1>2. ASSUME NEW w \in Workers, Crash(w) PROVE sent' = sent
  BY <1>2 DEF Crash
<1>3. ASSUME NEW f \in Execs, OperatorStep(f) \/ ComesDue(f) PROVE sent' = sent
  BY <1>3 DEF OperatorStep, Create, Abandon, PermanentlyFail, Retry, ResumeCheck,
              ResumeWrite, ResumeRefused, Decide, ComesDue
<1>4. ASSUME ExpireDue PROVE sent' = sent
  BY <1>4 DEF ExpireDue
<1> QED
  BY <1>1, <1>2, <1>3, <1>4 DEF Next

\* A step whose success is committed never takes effect again.
THEOREM CommittedStepsStay == Spec => CommittedStepNotRerun
<1>1. IInv /\ [Next]_vars =>
          [\A e \in Execs : \A i \in row[e].ok : sent'[e][i] = sent[e][i]]_vars
  <2> SUFFICES ASSUME IInv, Next, NEW e \in Execs, NEW i \in row[e].ok
               PROVE  sent'[e][i] = sent[e][i]
    BY DEF vars
  <2>1. TypeOK /\ AtWork /\ DraftsExtend
    BY DEF IInv
  <2>2. i \in Steps /\ sent \in [Execs -> [Steps -> 0 .. MaxSends]]
    BY <2>1 DEF TypeOK, Rows
  <2>3. ASSUME NEW w \in Workers, NEW f \in Execs, StepSucceeds(w, f)
        PROVE  sent'[e][i] = sent[e][i]
    <3>1. /\ cur[w] = f /\ pos[w] \in Steps
          /\ sent' = [sent EXCEPT ![f][pos[w]] = IF @ < MaxSends THEN @ + 1 ELSE @]
      BY <2>3 DEF StepSucceeds, AtStep
    <3>2. pos[w] # 0 /\ cur[w] # NoExec
      BY <3>1, ExecsAssumption, StepsAssumption DEF Steps
    <3>3. pos[w] \notin row[f].ok
      BY <2>1, <3>1, <3>2 DEF AtWork, DraftsExtend
    <3> QED
      BY <2>2, <3>1, <3>3
  <2>4. ASSUME sent' = sent PROVE sent'[e][i] = sent[e][i]
    BY <2>4
  <2> QED
    BY <2>3, <2>4, OnlyStepsSend
<1> QED
  BY Inductive, <1>1, PTL DEF Spec, CommittedStepNotRerun

\* Only the late write of a resume request makes a finished execution active again: the
\* workers, the other routes and ingest never do.
THEOREM OnlyResumeReopens == Spec => TerminalNotReopened
<1> DEFINE Kept == \A e \in Execs : row[e].status \in Terminal /\ row'[e].status \in Active
                                      => e \in resuming \ resuming'
<1>1. IInv /\ [Next]_vars => [Kept]_vars
  <2> SUFFICES ASSUME IInv, Next PROVE Kept
    OBVIOUS
  <2>1. TypeOK /\ DraftsExtend
    BY DEF IInv
  <2>2. row \in [Execs -> Rows]
    BY <2>1 DEF TypeOK
  <2>3. ASSUME row' = row PROVE Kept
    BY <2>3 DEF Terminal, Active
  <2>4. ASSUME NEW w \in Workers, Commit(w) PROVE Kept
    <3>1. row' = [e \in Execs |-> View(w, e)]
      BY <2>4 DEF Commit
    <3> QED
      BY <2>1, <3>1 DEF View, DraftsExtend, Terminal, Active
  <2>5. ASSUME NEW w \in Workers, WorkerStep(w), ~Commit(w) PROVE row' = row
    BY <2>5 DEF WorkerStep, ListAwaiting, DeadlockVictim, Claim, VisitSkipped,
                VisitRequeued, VisitResumed, VisitRefused, RefuseWrite, RefuseSkipped,
                StepSucceeds, StepFailsContinue, StepFailsAbort, StepSqlError,
                PauseForApproval, Finish
  <2>6. ASSUME NEW w \in Workers, Crash(w) PROVE row' = row
    BY <2>6 DEF Crash
  <2>7. ASSUME NEW S \in SUBSET Execs, NEW a, SetApproval(S, a) PROVE Kept
    <3>1. \A e \in Execs : row'[e] \in {row[e], [row[e] EXCEPT !.ap[row[e].gate] = a]}
      BY <2>7 DEF SetApproval
    <3>2. \A e \in Execs : row'[e].status = row[e].status
      BY <2>2, <3>1 DEF Rows
    <3> QED
      BY <3>2 DEF Terminal, Active
  <2>8. ASSUME NEW e \in Execs, NEW s, SetStatus(e, s), row[e].status \notin Terminal \/ s \notin Active
        PROVE  Kept
    <3>1. \A f \in Execs \ {e} : row'[f] = row[f]
      BY <2>2, <2>8 DEF SetStatus
    <3>2. row'[e] = [row[e] EXCEPT !.status = s]
      BY <2>2, <2>8 DEF SetStatus
    <3>3. row'[e].status = s
      BY <2>2, <3>2 DEF Rows
    <3> QED
      BY <2>8, <3>1, <3>3 DEF Terminal, Active
  <2>9. ASSUME NEW e \in Execs, OperatorStep(e) \/ ComesDue(e) PROVE Kept
    <3>1. CASE Create(e) \/ \E s \in Execs : Retry(s, e)
      BY <2>8, <3>1 DEF Create, Retry, Terminal
    <3>2. CASE Abandon(e) \/ PermanentlyFail(e)
      BY <2>8, <3>2 DEF Abandon, PermanentlyFail, Active
    <3>3. CASE ResumeCheck(e) \/ ResumeRefused(e) \/ ComesDue(e)
      BY <2>3, <3>3 DEF ResumeCheck, ResumeRefused, ComesDue
    <3>4. CASE ResumeWrite(e)
      <4>1. \A f \in Execs \ {e} : row'[f] = row[f]
        BY <2>2, <3>4 DEF ResumeWrite, SetStatus
      <4>2. e \in resuming \ resuming'
        BY <3>4 DEF ResumeWrite
      <4> QED
        BY <4>1, <4>2 DEF Terminal, Active
    <3>5. CASE Decide(e, "approved") \/ Decide(e, "denied")
      BY <2>7, <3>5 DEF Decide
    <3> QED
      BY <2>9, <3>1, <3>2, <3>3, <3>4, <3>5 DEF OperatorStep
  <2>10. CASE ExpireDue
    <3>1. {e \in due : Undecided(e)} \in SUBSET Execs
      BY <2>1 DEF TypeOK
    <3> QED
      BY <2>7, <2>10, <3>1 DEF ExpireDue
  <2> QED
    BY <2>3, <2>4, <2>5, <2>6, <2>9, <2>10 DEF Next
<1> QED
  BY Inductive, <1>1, PTL DEF Spec, TerminalNotReopened
-----------------------------------------------------------------------------
(* What GatedStepApproved rests on.                                         *)

\* Row v may run behind gate g.
Auth(v, g) == Goes(g, v.ap[g])

\* No refusal of gate g lets an execution continue.
Unbranched(g) == \A r \in Refusals : <<g, r>> \notin Branch

\* Gates whose authority a rolled-back batch and a late resume request cannot undo: they
\* have no branch, or no gate is before them, or nobody asks for a resume.
Steady(g) == Unbranched(g) \/ (\A h \in Gates : g <= h) \/ MaxResumes = 0

\* A row passes its gates in order: those it has done are authorised, those before the
\* one it stands at are done, those behind have no request.  A gate ahead of a row on
\* its way has no refusal that could become a branch.
GatesInOrder(v) ==
    \A g \in Gates :
        /\ g \notin v.ok
        /\ g < v.gate => g <= v.done
        /\ g <= v.done => Auth(v, g)
        /\ g > v.gate => v.ap[g] = "none"
        /\ v.status \in {"absent", "pending", "running"} /\ g > v.done /\ Steady(g) =>
              v.ap[g] \in {"none", "approved"} \/ Unbranched(g)

\* What is committed for gate g lets e's steps behind it take effect, or can only expire
\* into a branch.
Granted(e, g) ==
    \/ Auth(row[e], g)
    \/ row[e].ap[g] = "pending" /\ e \in due /\ <<g, "expired">> \in Branch

\* A draft d of e only moves on from the committed row, and takes no authority from
\* elsewhere.
Follows(e, d) ==
    /\ row[e].gate <= d.gate /\ row[e].done <= d.done
    /\ \A g \in Gates :
        /\ row[e].ap[g] = "approved" => d.ap[g] = "approved"
        /\ row[e].ap[g] = "pending" => d.ap[g] \in {"pending", "expired"}
        /\ Auth(d, g) => Granted(e, g)
        /\ Steady(g) /\ Auth(row[e], g) => Auth(d, g)

RowsInOrder == \A e \in Execs : GatesInOrder(row[e])
DraftsInOrder == \A w \in Workers : \A e \in DOMAIN draft[w] : GatesInOrder(draft[w][e]) /\ Follows(e, draft[w][e])

\* A worker has passed the gates before its step.
PlacesInOrder ==
    \A w \in Workers : cur[w] # NoExec /\ pos[w] # 0 =>
        \A g \in Gates : g < pos[w] => g <= draft[w][cur[w]].done

\* Only the request of the latest gate is overdue.
DueIsPending == \A e \in due : row[e].gate \in Gates /\ row[e].ap[row[e].gate] = "pending"

\* A resume request was made behind the first gate or at its approval.
ResumesAreGranted ==
    \A e \in resuming :
        /\ resumes > 0
        /\ \A g \in Gates : (\A h \in Gates : g <= h) => g <= row[e].done \/ row[e].ap[g] = "approved"

\* GatedStepApproved for the steady gates.
SteadyGateApproved ==
    \A e \in Execs : \A g \in Gates, i \in Steps :
        Steady(g) /\ g < i /\ sent[e][i] > 0 => Granted(e, g)

GInv == RowsInOrder /\ DraftsInOrder /\ PlacesInOrder /\ DueIsPending /\ ResumesAreGranted /\ SteadyGateApproved

-----------------------------------------------------------------------------
\* An approval authorises; a request that is missing or undecided does not.
LEMMA Unauthorised ==
    ASSUME NEW g \in Gates
    PROVE  Goes(g, "approved") /\ ~Goes(g, "none") /\ ~Goes(g, "pending")
  BY StepsAssumption DEF Goes, Refusals

\* Only an approval authorises a gate that has no branch.
LEMMA UnbranchedApproved ==
    ASSUME NEW g \in Gates, NEW v, Auth(v, g), v.ap[g] \in {"none", "approved"} \/ Unbranched(g)
    PROVE  v.ap[g] = "approved"
  BY StepsAssumption, Unauthorised DEF Auth, Goes, Unbranched, Refusals

\* Gates and the columns they are compared with are numbers.
LEMMA GateNumbers ==
    /\ \A g \in Gates : g \in Int /\ g \in 1 .. LastStep
    /\ \A v \in Rows : v.gate \in Int /\ v.done \in Int
<1>1. \A g \in Gates : g \in Int /\ g \in 1 .. LastStep
  BY StepsAssumption DEF Steps
<1>2. ASSUME NEW v \in Rows PROVE v.gate \in Int /\ v.done \in Int
  <2>1. v.gate \in {0} \cup Gates /\ v.done \in 0 .. LastStep
    BY DEF Rows
  <2> QED
    BY <1>1, <2>1, StepsAssumption
<1> QED
  BY <1>1, <1>2

\* A row with the requests, the gate and the progress of another one is in order if that is.
LEMMA SameRequests ==
    ASSUME NEW e \in Execs, NEW x, NEW v, GatesInOrder(x), Follows(e, x),
           v.ok = x.ok, v.done = x.done, v.gate = x.gate, v.ap = x.ap,
           v.status \in {"absent", "pending", "running"} => x.status \in {"absent", "pending", "running"}
    PROVE  GatesInOrder(v) /\ Follows(e, v)
  BY DEF GatesInOrder, Follows, Auth

\* What a worker sees of an execution is in order and follows the committed row.
LEMMA ViewInOrder ==
    ASSUME IInv, GInv, NEW w \in Workers, NEW e \in Execs
    PROVE  GatesInOrder(View(w, e)) /\ Follows(e, View(w, e))
<1>1. CASE e \in DOMAIN draft[w]
  BY <1>1 DEF GInv, DraftsInOrder, View
<1>2. CASE e \notin DOMAIN draft[w]
  <2>1. row[e] \in Rows
    BY DEF IInv, TypeOK
  <2> QED
    BY <1>2, <2>1, GateNumbers DEF GInv, RowsInOrder, View, Follows, Granted
<1> QED
  BY <1>1, <1>2

\* A worker reads a request as it is, or an overdue one as expired.
LEMMA OutcomeRead ==
    ASSUME NEW w \in Workers, NEW e \in Execs
    PROVE  LET x == View(w, e) IN
           \/ Outcome(w, e) = x.ap[x.gate]
           \/ /\ Outcome(w, e) = "expired" /\ x.ap[x.gate] = "pending"
              /\ e \in due /\ x.gate = row[e].gate
  BY DEF Outcome

\* Writing what was read of the request leaves the row in order.
LEMMA DecidedInOrder ==
    ASSUME IInv, GInv, NEW w \in Workers, NEW e \in Execs, NEW v \in Rows, NEW x \in Rows,
           x = View(w, e), v.ok = x.ok, v.gate = x.gate,
           \A g \in Gates : v.ap[g] = IF g = x.gate THEN Outcome(w, e) ELSE x.ap[g],
           \/ v.done = x.done /\ v.status \notin {"absent", "pending", "running"}
           \/ v.done = x.gate /\ x.done <= x.gate /\ x.gate \in Gates /\ Goes(x.gate, Outcome(w, e))
    PROVE  GatesInOrder(v) /\ Follows(e, v)
<1>1. GatesInOrder(x) /\ Follows(e, x)
  BY ViewInOrder
<1>2. /\ \A g \in Gates : g \in Int
      /\ v.gate \in Int /\ v.done \in Int /\ x.gate \in Int /\ x.done \in Int
      /\ row[e].gate \in Int /\ row[e].done \in Int
  BY GateNumbers DEF IInv, TypeOK
<1> DEFINE o == Outcome(w, e)
<1>3. \/ o = x.ap[x.gate]
      \/ o = "expired" /\ x.ap[x.gate] = "pending" /\ e \in due /\ x.gate = row[e].gate
  BY OutcomeRead
<1>4. e \in due => row[e].ap[row[e].gate] = "pending"
  BY DEF GInv, DueIsPending
<1> HIDE DEF o
<1>5. ASSUME NEW g \in Gates, Auth(x, g) PROVE v.ap[g] = x.ap[g] /\ Auth(v, g)
  BY <1>3, <1>5, Unauthorised DEF Auth, o
<1>6. GatesInOrder(v)
  <2> SUFFICES ASSUME NEW g \in Gates
               PROVE  /\ g \notin v.ok
                      /\ g < v.gate => g <= v.done
                      /\ g <= v.done => Auth(v, g)
                      /\ g > v.gate => v.ap[g] = "none"
                      /\ v.status \in {"absent", "pending", "running"} /\ g > v.done /\ Steady(g) =>
                            v.ap[g] \in {"none", "approved"} \/ Unbranched(g)
    BY DEF GatesInOrder
  <2>1. /\ g \notin x.ok
        /\ g < x.gate => g <= x.done
        /\ g <= x.done => Auth(x, g)
        /\ g > x.gate => x.ap[g] = "none"
    BY <1>1 DEF GatesInOrder
  <2>2. g \notin v.ok /\ (g < v.gate => g <= v.done)
    BY <1>2, <2>1
  <2>3. g > v.gate => v.ap[g] = "none"
    BY <1>2, <2>1
  <2>4. g <= v.done => Auth(v, g)
    <3>1. CASE v.done = x.done
      BY <1>5, <2>1, <3>1
    <3>2. CASE v.done = x.gate /\ Goes(x.gate, o) /\ g = x.gate
      BY <3>2 DEF Auth, o
    <3>3. CASE v.done = x.gate /\ g # x.gate
      BY <1>2, <1>5, <2>1, <3>3
    <3> QED
      BY <3>1, <3>2, <3>3 DEF o
  <2>5. v.status \in {"absent", "pending", "running"} /\ g > v.done => v.ap[g] = "none"
    BY <1>2, <2>3
  <2> QED
    BY <2>2, <2>3, <2>4, <2>5
<1>7. Follows(e, v)
  <2>1. row[e].gate <= v.gate /\ row[e].done <= v.done
    BY <1>1, <1>2 DEF Follows
  <2> SUFFICES ASSUME NEW g \in Gates
               PROVE  /\ row[e].ap[g] = "approved" => v.ap[g] = "approved"
                      /\ row[e].ap[g] = "pending" => v.ap[g] \in {"pending", "expired"}
                      /\ Auth(v, g) => Granted(e, g)
                      /\ Steady(g) /\ Auth(row[e], g) => Auth(v, g)
    BY <2>1 DEF Follows
  <2>2. /\ row[e].ap[g] = "approved" => x.ap[g] = "approved"
        /\ row[e].ap[g] = "pending" => x.ap[g] \in {"pending", "expired"}
        /\ Auth(x, g) => Granted(e, g)
        /\ Steady(g) /\ Auth(row[e], g) => Auth(x, g)
    BY <1>1 DEF Follows
  <2>3. v.ap[g] = IF g = x.gate THEN o ELSE x.ap[g]
    BY DEF o
  <2>4. Auth(v, g) => Granted(e, g)
    <3>1. CASE v.ap[g] = x.ap[g]
      BY <2>2, <3>1 DEF Auth
    <3>2. CASE g = x.gate /\ o = "expired" /\ e \in due /\ x.gate = row[e].gate
      BY <1>4, <2>3, <3>2 DEF Auth, Goes, Granted
    <3> QED
      BY <1>3, <2>3, <3>1, <3>2
  <2> QED
    BY <1>3, <1>5, <2>2, <2>3, <2>4
<1> QED
  BY <1>6, <1>7

\* A worker that enters _process_steps at i has passed the gates before i, and no gate is
\* among the steps it skips as done.
LEMMA StartInOrder ==
    ASSUME IInv, NEW w \in Workers, NEW v \in Rows, NEW i \in 1 .. LastStep + 1, Start(w, v, i),
           \A g \in Gates : g \notin v.ok /\ (g < i => g <= v.done)
    PROVE  \A g \in Gates : g < pos'[w] => g <= v.done
<1>1. PICK j \in i .. LastStep + 1 : NextOpen(v, i, j) /\ pos' = [pos EXCEPT ![w] = j]
  BY DEF Start
<1>2. pos'[w] = j
  BY <1>1 DEF IInv, TypeOK
<1>3. ASSUME NEW g \in Gates, g < j PROVE g < i
  <2>1. g \notin i .. j - 1
    BY <1>1 DEF NextOpen
  <2> QED
    BY <1>3, <2>1, GateNumbers, StepsAssumption
<1> QED
  BY <1>2, <1>3

\* A draft that goes on in order, with committed rows, due requests and operators as they
\* were.
LEMMA DraftsGoOn ==
    ASSUME IInv, GInv, NEW w \in Workers, NEW e \in Execs, NEW v \in Rows, Put(w, e, v),
           GatesInOrder(v), Follows(e, v),
           UNCHANGED <<row, due, operatorVars>>
    PROVE  RowsInOrder' /\ DraftsInOrder' /\ DueIsPending' /\ ResumesAreGranted'
<1>1. /\ DOMAIN draft'[w] = DOMAIN draft[w] \cup {e}
      /\ draft'[w][e] = v
      /\ \A f \in DOMAIN draft[w] \ {e} : draft'[w][f] = draft[w][f]
      /\ \A u \in Workers \ {w} : draft'[u] = draft[u]
  BY PutEffect DEF IInv
<1>2. RowsInOrder' /\ DueIsPending' /\ ResumesAreGranted'
  BY DEF GInv, RowsInOrder, GatesInOrder, Auth, DueIsPending, ResumesAreGranted, operatorVars
<1>3. ASSUME NEW u \in Workers, NEW f \in DOMAIN draft'[u]
      PROVE  GatesInOrder(draft'[u][f]) /\ Follows(f, draft'[u][f])
  <2>1. CASE u = w /\ f = e
    BY <1>1, <2>1
  <2>2. CASE ~(u = w /\ f = e)
    BY <1>1, <2>2 DEF GInv, DraftsInOrder
  <2> QED
    BY <2>1, <2>2
<1>4. DraftsInOrder'
  BY <1>3 DEF DraftsInOrder, GatesInOrder, Follows, Granted, Auth
<1> QED
  BY <1>2, <1>4

\* w works on e with row v from i on.
LEMMA WorkInOrder ==
    ASSUME IInv, GInv, NEW w \in Workers, NEW e \in Execs, NEW v \in Rows, NEW i \in 1 .. LastStep + 1,
           Put(w, e, v), cur' = [cur EXCEPT ![w] = e], Start(w, v, i),
           GatesInOrder(v), \A g \in Gates : g < i => g <= v.done
    PROVE  PlacesInOrder'
<1>1. /\ draft'[w][e] = v
      /\ \A u \in Workers \ {w} : draft'[u] = draft[u]
  BY PutEffect DEF IInv
<1>2. \A g \in Gates : g < pos'[w] => g <= v.done
  BY StartInOrder DEF GatesInOrder
<1>3. cur'[w] = e /\ \A u \in Workers \ {w} : cur'[u] = cur[u] /\ pos'[u] = pos[u]
  BY DEF Start, IInv, TypeOK
<1> QED
  BY <1>1, <1>2, <1>3 DEF PlacesInOrder, GInv

\* w puts v as its last word on e.
LEMMA LeaveInOrder ==
    ASSUME IInv, GInv, NEW w \in Workers, NEW e \in Execs, NEW v \in Rows,
           Put(w, e, v), LeaveExecution(w)
    PROVE  PlacesInOrder'
<1>1. \A u \in Workers \ {w} : draft'[u] = draft[u]
  BY PutEffect DEF IInv
<1>2. cur'[w] = NoExec /\ \A u \in Workers \ {w} : cur'[u] = cur[u] /\ pos'[u] = pos[u]
  BY DEF LeaveExecution, IInv, TypeOK
<1> QED
  BY <1>1, <1>2 DEF PlacesInOrder, GInv

\* What is granted stays granted while rows and due requests stay.
LEMMA GrantsStay ==
    ASSUME GInv, UNCHANGED <<row, due, sent>>
    PROVE  SteadyGateApproved'
  BY DEF GInv, SteadyGateApproved, Granted, Auth

\* Claims and visits keep the gates in order.
LEMMA VisitsInOrder ==
    ASSUME IInv, GInv, NEW w \in Workers, NEW e \in Execs,
           \/ Claim(w, e) \/ VisitRequeued(w, e) \/ VisitResumed(w, e)
           \/ VisitSkipped(w, e) \/ VisitRefused(w, e)
    PROVE  GInv'
<1>1. TypeOK /\ AtWork /\ DraftsExtend /\ CommittedRowsAreWhole
  BY DEF IInv
<1>2. row[e] \in Rows /\ View(w, e) \in Rows
  BY <1>1, ViewType DEF TypeOK
<1>3. GatesInOrder(View(w, e)) /\ Follows(e, View(w, e))
  BY ViewInOrder
<1>4. UNCHANGED <<row, due, sent, operatorVars>>
  BY DEF Claim, VisitRequeued, VisitResumed, VisitSkipped, VisitRefused
<1>5. SteadyGateApproved'
  BY <1>4, GrantsStay
<1>6. ASSUME View(w, e).status = "pending",
             Lease(w, e, [View(w, e) EXCEPT !.status = "running"], View(w, e).done + 1)
      PROVE  GInv'
  <2> DEFINE x == View(w, e)
             v == [x EXCEPT !.status = "running"]
  <2>1. /\ v \in Rows /\ v.status = "running" /\ v.done = x.done /\ v.ok = x.ok
        /\ v.gate = x.gate /\ v.ap = x.ap
    BY <1>2 DEF Rows, Active
  <2>2. x.done + 1 \in 1 .. LastStep + 1
    BY <1>2, StepsAssumption DEF Rows
  <2>3. Put(w, e, v) /\ cur' = [cur EXCEPT ![w] = e] /\ Start(w, v, x.done + 1)
    BY <1>6 DEF Lease
  <2>4. GatesInOrder(x) /\ Follows(e, x) /\ x.status = "pending" /\ x \in Rows
    BY <1>2, <1>3, <1>6
  <2> HIDE DEF x, v
  <2>5. GatesInOrder(v) /\ Follows(e, v)
    BY <2>1, <2>4, SameRequests
  <2>6. \A g \in Gates : g < x.done + 1 => g <= v.done
    BY <2>1, <2>4, GateNumbers
  <2>7. PlacesInOrder'
    BY <2>1, <2>2, <2>3, <2>5, <2>6, WorkInOrder
  <2>8. RowsInOrder' /\ DraftsInOrder' /\ DueIsPending' /\ ResumesAreGranted'
    BY <1>4, <2>1, <2>3, <2>5, DraftsGoOn
  <2> QED
    BY <1>5, <2>7, <2>8 DEF GInv
<1>7. CASE Claim(w, e)
  <2>1. View(w, e) = row[e] /\ row[e].status = "pending"
    BY <1>7 DEF Claim, Lowest, PendingRows, Locked, View
  <2> QED
    BY <1>6, <1>7, <2>1 DEF Claim
<1>8. CASE VisitRequeued(w, e)
  BY <1>6, <1>8 DEF VisitRequeued
<1>9. CASE VisitResumed(w, e)
  <2> DEFINE x == View(w, e)
             g == x.gate
             o == Outcome(w, e)
             v == [x EXCEPT !.status = "running", !.done = g, !.ap[g] = o]
  <2>1. x.status = "awaiting_approval" /\ Goes(g, o) /\ Lease(w, e, v, g + 1)
    BY <1>9 DEF VisitResumed
  <2>2. g \in Gates /\ x.done < g
    BY <1>1, <2>1 DEF View, DraftsExtend, CommittedRowsAreWhole, ParkedWhole
  <2>3. o \in ApprovalStatuses
    BY <2>1, <2>2, StepsAssumption DEF Goes, ApprovalStatuses
  <2> DEFINE a == [x.ap EXCEPT ![g] = o]
  <2>4. a \in [Gates -> ApprovalStatuses] /\ \A h \in Gates : a[h] = IF h = g THEN o ELSE x.ap[h]
    BY <1>2, <2>3 DEF Rows
  <2>5. v = [x EXCEPT !.status = "running", !.done = g, !.ap = a]
    BY <1>2 DEF Rows
  <2>6. x \in Rows /\ g \in 0 .. LastStep /\ g + 1 \in 1 .. LastStep + 1
    BY <1>2, <2>2, GateNumbers, StepsAssumption
  <2>7. Put(w, e, v) /\ cur' = [cur EXCEPT ![w] = e] /\ Start(w, v, g + 1)
    BY <2>1 DEF Lease
  <2>8. x.done <= x.gate
    BY <2>2, <2>6, GateNumbers
  <2> HIDE DEF a, v
  <2>9. /\ v \in Rows /\ v.status = "running" /\ v.done = x.gate /\ v.ok = x.ok
        /\ v.gate = x.gate /\ v.ap = a
    BY <2>4, <2>5, <2>6 DEF Rows, Active
  <2>10. \A h \in Gates : v.ap[h] = IF h = x.gate THEN Outcome(w, e) ELSE x.ap[h]
    BY <2>4, <2>9
  <2> HIDE DEF x
  <2>11. GatesInOrder(v) /\ Follows(e, v)
    BY <2>1, <2>2, <2>6, <2>8, <2>9, <2>10, DecidedInOrder DEF x
  <2>12. \A h \in Gates : h < g + 1 => h <= v.done
    BY <2>2, <2>9, GateNumbers
  <2> HIDE DEF g
  <2>13. PlacesInOrder'
    BY <2>6, <2>7, <2>9, <2>11, <2>12, WorkInOrder
  <2>14. RowsInOrder' /\ DraftsInOrder' /\ DueIsPending' /\ ResumesAreGranted'
    BY <1>4, <2>7, <2>9, <2>11, DraftsGoOn
  <2> QED
    BY <1>5, <2>13, <2>14 DEF GInv
<1>10. CASE VisitSkipped(w, e) \/ VisitRefused(w, e)
  <2>1. UNCHANGED <<draft, pos>> /\ cur[w] = NoExec /\ pos[w] = 0
        /\ (cur' = cur \/ cur' = [cur EXCEPT ![w] = e])
    BY <1>1, <1>10 DEF VisitSkipped, VisitRefused, Visiting, AtWork
  <2>2. \A u \in Workers : pos'[u] # 0 => cur'[u] = cur[u] /\ u # w
    BY <1>1, <2>1 DEF TypeOK
  <2>3. PlacesInOrder'
    BY <2>1, <2>2 DEF GInv, PlacesInOrder
  <2>4. RowsInOrder' /\ DraftsInOrder' /\ DueIsPending' /\ ResumesAreGranted'
    BY <1>4, <2>1 DEF GInv, RowsInOrder, DraftsInOrder, DueIsPending, ResumesAreGranted, GatesInOrder, Follows, Granted, Auth, operatorVars
  <2> QED
    BY <1>5, <2>3, <2>4 DEF GInv
<1> QED
  BY <1>7, <1>8, <1>9, <1>10

\* The second half of a refusal keeps the gates in order.
LEMMA RefusalsInOrder ==
    ASSUME IInv, GInv, NEW w \in Workers, NEW e \in Execs, RefuseWrite(w, e) \/ RefuseSkipped(w, e)
    PROVE  GInv'
<1>1. TypeOK /\ View(w, e) \in Rows /\ UNCHANGED <<row, due, sent, operatorVars>>
  BY ViewType DEF IInv, RefuseWrite, RefuseSkipped
<1>2. SteadyGateApproved'
  BY <1>1, GrantsStay
<1>3. CASE RefuseWrite(w, e)
  <2> DEFINE x == View(w, e)
             o == Outcome(w, e)
             a == [x.ap EXCEPT ![x.gate] = o]
             v == [x EXCEPT !.status = "not_actioned", !.ap[x.gate] = o]
  <2>1. Put(w, e, v) /\ LeaveExecution(w)
    BY <1>3 DEF RefuseWrite
  <2>2. x.gate \in Gates => o \in ApprovalStatuses
    BY <1>1 DEF Outcome, Rows, ApprovalStatuses, Refusals
  <2>3. a \in [Gates -> ApprovalStatuses] /\ \A g \in Gates : a[g] = IF g = x.gate THEN o ELSE x.ap[g]
    <3>1. x.ap \in [Gates -> ApprovalStatuses]
      BY <1>1 DEF Rows
    <3>2. CASE x.gate \in Gates
      BY <2>2, <3>1, <3>2
    <3>3. CASE x.gate \notin Gates
      BY <3>1, <3>3
    <3> QED
      BY <3>2, <3>3
  <2>4. v = [x EXCEPT !.status = "not_actioned", !.ap = a]
    BY <1>1 DEF Rows
  <2> HIDE DEF v, a
  <2>5. /\ v \in Rows /\ v.status = "not_actioned" /\ v.ok = x.ok
        /\ v.done = x.done /\ v.gate = x.gate /\ v.ap = a
    BY <1>1, <2>3, <2>4 DEF Rows, Active, Terminal
  <2>6. \A g \in Gates : v.ap[g] = IF g = x.gate THEN Outcome(w, e) ELSE x.ap[g]
    BY <2>3, <2>5
  <2>7. x \in Rows
    BY <1>1
  <2> HIDE DEF x
  <2>8. GatesInOrder(v) /\ Follows(e, v)
    BY <2>5, <2>6, <2>7, DecidedInOrder DEF x
  <2>9. RowsInOrder' /\ DraftsInOrder' /\ DueIsPending' /\ ResumesAreGranted'
    BY <1>1, <2>1, <2>5, <2>8, DraftsGoOn
  <2>10. PlacesInOrder'
    BY <2>1, <2>5, LeaveInOrder
  <2> QED
    BY <1>2, <2>9, <2>10 DEF GInv
<1>4. CASE RefuseSkipped(w, e)
  <2>1. draft' = draft /\ LeaveExecution(w)
    BY <1>4 DEF RefuseSkipped
  <2>2. cur'[w] = NoExec /\ \A u \in Workers \ {w} : cur'[u] = cur[u] /\ pos'[u] = pos[u]
    BY <1>1, <2>1 DEF LeaveExecution, TypeOK
  <2>3. PlacesInOrder'
    BY <2>1, <2>2 DEF GInv, PlacesInOrder
  <2>4. RowsInOrder' /\ DraftsInOrder' /\ DueIsPending' /\ ResumesAreGranted'
    BY <1>1, <2>1 DEF GInv, RowsInOrder, DraftsInOrder, DueIsPending, ResumesAreGranted, GatesInOrder, Follows,
                      Granted, Auth, operatorVars
  <2> QED
    BY <1>2, <2>3, <2>4 DEF GInv
<1> QED
  BY <1>3, <1>4

\* A dropped batch keeps the gates in order.
LEMMA RollbackInOrder ==
    ASSUME IInv, GInv, NEW w \in Workers, NewBatch(w), UNCHANGED <<row, due, sent, operatorVars>>
    PROVE  GInv'
<1>1. /\ DOMAIN draft'[w] = {}
      /\ \A u \in Workers \ {w} : draft'[u] = draft[u]
      /\ cur' = [cur EXCEPT ![w] = NoExec]
      /\ pos' = [pos EXCEPT ![w] = 0]
  BY NewBatchEffect DEF IInv
<1>2. cur'[w] = NoExec /\ \A u \in Workers \ {w} : cur'[u] = cur[u] /\ pos'[u] = pos[u]
  BY <1>1 DEF IInv, TypeOK
<1>3. PlacesInOrder'
  BY <1>1, <1>2 DEF GInv, PlacesInOrder
<1>4. RowsInOrder' /\ DueIsPending' /\ ResumesAreGranted'
  BY DEF GInv, RowsInOrder, DueIsPending, ResumesAreGranted, GatesInOrder, Auth, operatorVars
<1>5. DraftsInOrder'
  BY <1>1 DEF GInv, DraftsInOrder, GatesInOrder, Follows, Granted, Auth
<1> QED
  BY <1>3, <1>4, <1>5, GrantsStay DEF GInv

\* The steps of _process_steps keep the gates in order; what takes effect is granted.
LEMMA StepsInOrder ==
    ASSUME IInv, GInv, NEW w \in Workers, NEW e \in Execs,
           \/ StepSucceeds(w, e) \/ StepFailsContinue(w, e) \/ StepFailsAbort(w, e)
           \/ StepSqlError(w, e) \/ PauseForApproval(w, e) \/ Finish(w, e)
    PROVE  GInv' /\ \A g \in Gates, i \in Steps : g < i /\ sent'[e][i] # sent[e][i] => Granted(e, g)
<1> DEFINE x == draft[w][e]
           i == pos[w]
           Effects == \A g \in Gates, j \in Steps : g < j /\ sent'[e][j] # sent[e][j] => Granted(e, g)
<1>1. TypeOK /\ AtWork
  BY DEF IInv
<1>2. cur[w] = e /\ i \in 1 .. LastStep + 1 /\ e # NoExec
  BY StepsAssumption, ExecsAssumption
  DEF StepSucceeds, StepFailsContinue, StepFailsAbort, StepSqlError, PauseForApproval, Finish, AtStep, Steps
<1>3. e \in DOMAIN draft[w] /\ x \in Rows /\ x.status = "running" /\ x.done < i
  BY <1>1, <1>2, DraftType DEF AtWork
<1>4. GatesInOrder(x) /\ Follows(e, x) /\ \A g \in Gates : g < i => g <= x.done
  BY <1>2, <1>3 DEF GInv, DraftsInOrder, PlacesInOrder
<1>5. UNCHANGED <<row, due, operatorVars>> /\ (~StepSucceeds(w, e) => sent' = sent)
  BY DEF StepSucceeds, StepFailsContinue, StepFailsAbort, StepSqlError, PauseForApproval, Finish
<1>6. cur = [cur EXCEPT ![w] = e]
  BY <1>1, <1>2 DEF TypeOK
<1>7. /\ x.done \in Int /\ x.gate \in Int /\ i \in Int /\ row[e].gate \in Int /\ row[e].done \in Int
      /\ \A g \in Gates : g \in Int
  BY <1>1, <1>2, <1>3, GateNumbers, StepsAssumption DEF TypeOK
<1>8. CASE StepSucceeds(w, e)
  <2> DEFINE v == [x EXCEPT !.ok = @ \cup {i}, !.done = i]
  <2>1. /\ i \in Steps \ Gates /\ Put(w, e, v) /\ Start(w, v, i + 1) /\ cur' = cur
        /\ sent' = [sent EXCEPT ![e][i] = IF @ < MaxSends THEN @ + 1 ELSE @]
    BY <1>8 DEF StepSucceeds, AtStep
  <2>2. /\ v \in Rows /\ v.status = "running" /\ v.done = i /\ v.ok = x.ok \cup {i}
        /\ v.gate = x.gate /\ v.ap = x.ap
    <3> HIDE DEF x, i
    <3>1. i \in 0 .. LastStep
      BY <2>1, StepsAssumption DEF Steps
    <3> QED
      BY <1>3, <2>1, <3>1 DEF Rows
  <2>3. i + 1 \in 1 .. LastStep + 1
    BY <2>1, StepsAssumption DEF Steps
  <2> HIDE DEF v, x, i
  <2>4. GatesInOrder(v)
    BY <1>3, <1>4, <1>7, <2>1, <2>2 DEF GatesInOrder, Auth
  <2>5. Follows(e, v)
    BY <1>3, <1>4, <1>7, <2>2 DEF Follows, Auth
  <2>6. PlacesInOrder'
    <3>1. \A g \in Gates : g < i + 1 => g <= v.done
      BY <1>7, <2>2
    <3> QED
      BY <1>6, <2>1, <2>2, <2>3, <2>4, <3>1, WorkInOrder
  <2>7. RowsInOrder' /\ DraftsInOrder' /\ DueIsPending' /\ ResumesAreGranted'
    BY <1>5, <2>1, <2>2, <2>4, <2>5, DraftsGoOn
  <2>8. \A g \in Gates : g < i => Granted(e, g)
    BY <1>4 DEF GatesInOrder, Follows
  <2>9. /\ sent' \in [Execs -> [Steps -> Int]]
        /\ \A f \in Execs, j \in Steps : ~(f = e /\ j = i) => sent'[f][j] = sent[f][j]
    <3>1. sent \in [Execs -> [Steps -> 0 .. MaxSends]] /\ MaxSends \in Nat
      BY <1>1, BoundsAssumption DEF TypeOK
    <3> QED
      BY <2>1, <3>1
  <2>10. SteadyGateApproved'
    <3> SUFFICES ASSUME NEW f \in Execs, NEW g \in Gates, NEW j \in Steps,
                        Steady(g), g < j, sent'[f][j] > 0
                 PROVE  Granted(f, g)
      BY <1>5 DEF SteadyGateApproved, Granted, Auth
    <3>1. CASE f = e /\ j = i
      BY <2>8, <3>1
    <3>2. CASE ~(f = e /\ j = i)
      BY <2>9, <3>2 DEF GInv, SteadyGateApproved
    <3> QED
      BY <3>1, <3>2
  <2>11. Effects
    BY <2>8, <2>9
  <2> QED
    BY <2>6, <2>7, <2>10, <2>11 DEF GInv
<1>9. CASE StepFailsContinue(w, e)
  <2> DEFINE v == [x EXCEPT !.bad = @ \cup {i}]
  <2>1. i \in Steps \ Gates /\ Put(w, e, v) /\ Start(w, v, i + 1) /\ cur' = cur
    BY <1>9 DEF StepFailsContinue, AtStep
  <2>2. /\ v \in Rows /\ v.status = x.status /\ v.done = x.done /\ v.ok = x.ok
        /\ v.gate = x.gate /\ v.ap = x.ap
    BY <1>3, <2>1 DEF Rows
  <2>3. i + 1 \in 1 .. LastStep + 1
    BY <2>1, StepsAssumption DEF Steps
  <2> HIDE DEF v, x, i
  <2>4. GatesInOrder(v) /\ Follows(e, v)
    BY <1>4, <2>2, SameRequests
  <2>5. \A g \in Gates : g < i + 1 => g <= v.done
    BY <1>4, <1>7, <2>1, <2>2
  <2>6. PlacesInOrder'
    BY <1>6, <2>1, <2>2, <2>3, <2>4, <2>5, WorkInOrder
  <2>7. RowsInOrder' /\ DraftsInOrder' /\ DueIsPending' /\ ResumesAreGranted'
    BY <1>5, <2>1, <2>2, <2>4, DraftsGoOn
  <2>8. sent' = sent
    BY <1>9 DEF StepFailsContinue
  <2> QED
    BY <1>5, <2>6, <2>7, <2>8, GrantsStay DEF GInv
<1>10. ASSUME NEW v \in Rows, Put(w, e, v), LeaveExecution(w), sent' = sent,
              GatesInOrder(v), Follows(e, v)
       PROVE  GInv' /\ Effects
  <2>1. PlacesInOrder'
    BY <1>10, LeaveInOrder
  <2>2. RowsInOrder' /\ DraftsInOrder' /\ DueIsPending' /\ ResumesAreGranted'
    BY <1>5, <1>10, DraftsGoOn
  <2> QED
    BY <1>5, <1>10, <2>1, <2>2, GrantsStay DEF GInv
<1>11. CASE StepFailsAbort(w, e)
  <2> DEFINE v == [x EXCEPT !.bad = @ \cup {i}, !.status = "failed"]
  <2>1. i \in Steps /\ Put(w, e, v) /\ LeaveExecution(w) /\ sent' = sent
    BY <1>11 DEF StepFailsAbort, AtStep
  <2>2. /\ v \in Rows /\ v.status = "failed" /\ v.done = x.done /\ v.ok = x.ok
        /\ v.gate = x.gate /\ v.ap = x.ap
    BY <1>3, <2>1 DEF Rows, Terminal
  <2> HIDE DEF v, x
  <2> QED
    BY <1>4, <1>10, <2>1, <2>2, SameRequests
<1>12. CASE StepSqlError(w, e)
  BY <1>12, RollbackInOrder DEF StepSqlError
<1>13. CASE PauseForApproval(w, e)
  <2> DEFINE a == [x.ap EXCEPT ![i] = IF @ \in {"pending", "approved"} THEN @ ELSE "pending"]
             v == [x EXCEPT !.status = "awaiting_approval", !.gate = i,
                            !.ap[i] = IF @ \in {"pending", "approved"} THEN @ ELSE "pending"]
  <2>1. i \in Gates /\ Put(w, e, v) /\ LeaveExecution(w) /\ sent' = sent
    BY <1>13 DEF PauseForApproval
  <2>2. /\ a \in [Gates -> ApprovalStatuses]
        /\ \A g \in Gates \ {i} : a[g] = x.ap[g]
        /\ a[i] = IF x.ap[i] = "approved" THEN "approved" ELSE "pending"
    BY <1>3, <2>1 DEF Rows, ApprovalStatuses
  <2>3. v = [x EXCEPT !.status = "awaiting_approval", !.gate = i, !.ap = a]
    BY <1>3 DEF Rows
  <2> HIDE DEF v, a
  <2>4. /\ v \in Rows /\ v.status = "awaiting_approval" /\ v.ok = x.ok
        /\ v.gate = i /\ v.ap = a /\ v.done = x.done
    BY <1>3, <2>1, <2>2, <2>3 DEF Rows, Active
  <2> HIDE DEF x, i
  <2>5. x.gate <= i /\ ~(i <= x.done)
    BY <1>3, <1>4, <1>7, <2>1 DEF GatesInOrder
  <2>6. GatesInOrder(v)
    <3> SUFFICES ASSUME NEW g \in Gates
                 PROVE  /\ g \notin v.ok
                        /\ g < v.gate => g <= v.done
                        /\ g <= v.done => Auth(v, g)
                        /\ g > v.gate => v.ap[g] = "none"
      BY <2>4 DEF GatesInOrder
    <3>1. g = i \/ v.ap[g] = x.ap[g]
      BY <2>2, <2>4
    <3> QED
      BY <1>4, <1>7, <2>4, <2>5, <3>1 DEF GatesInOrder, Auth
  <2>7. Follows(e, v)
    <3> SUFFICES ASSUME NEW g \in Gates
                 PROVE  /\ row[e].ap[g] = "approved" => v.ap[g] = "approved"
                        /\ row[e].ap[g] = "pending" => v.ap[g] \in {"pending", "expired"}
                        /\ Auth(v, g) => Granted(e, g)
                        /\ Steady(g) /\ Auth(row[e], g) => Auth(v, g)
      BY <1>4, <1>7, <2>4, <2>5 DEF Follows
    <3>1. /\ row[e].ap[g] = "approved" => x.ap[g] = "approved"
          /\ row[e].ap[g] = "pending" => x.ap[g] \in {"pending", "expired"}
          /\ Auth(x, g) => Granted(e, g)
          /\ Steady(g) /\ Auth(row[e], g) => Auth(x, g)
      BY <1>4 DEF Follows
    <3>2. CASE g # i
      BY <2>2, <2>4, <3>1, <3>2 DEF Auth
    <3>3. CASE g = i
      <4>1. v.ap[g] = IF x.ap[g] = "approved" THEN "approved" ELSE "pending"
        BY <2>2, <2>4, <3>3
      <4>2. Steady(g) /\ Auth(x, g) => x.ap[g] = "approved"
        BY <1>3, <1>4, <1>7, <2>5, <3>3, UnbranchedApproved DEF GatesInOrder
      <4> QED
        BY <3>1, <4>1, <4>2, Unauthorised DEF Auth
    <3> QED
      BY <3>2, <3>3
  <2> QED
    BY <1>10, <2>1, <2>4, <2>6, <2>7
<1>14. CASE Finish(w, e)
  <2> DEFINE v == [x EXCEPT !.status = IF failed[w] THEN "failed" ELSE "success"]
  <2>1. Put(w, e, v) /\ LeaveExecution(w) /\ sent' = sent
    BY <1>14 DEF Finish
  <2>2. /\ v \in Rows /\ v.status \in {"failed", "success"} /\ v.done = x.done /\ v.ok = x.ok
        /\ v.gate = x.gate /\ v.ap = x.ap
    BY <1>3 DEF Rows, Terminal
  <2> HIDE DEF v, x
  <2> QED
    BY <1>4, <1>10, <2>1, <2>2, SameRequests
<1> QED
  BY <1>8, <1>9, <1>11, <1>12, <1>13, <1>14

\* A commit keeps the gates in order, and what was granted behind a steady gate.
LEMMA CommitInOrder ==
    ASSUME IInv, GInv, NEW w \in Workers, Commit(w)
    PROVE  GInv'
<1>1. /\ DOMAIN draft'[w] = {}
      /\ \A u \in Workers \ {w} : draft'[u] = draft[u]
      /\ cur' = [cur EXCEPT ![w] = NoExec]
      /\ pos' = [pos EXCEPT ![w] = 0]
  BY NewBatchEffect DEF IInv, Commit
<1>2. cur'[w] = NoExec /\ \A u \in Workers \ {w} : cur'[u] = cur[u] /\ pos'[u] = pos[u]
  BY <1>1 DEF IInv, TypeOK
<1>3. /\ row' = [e \in Execs |-> View(w, e)] /\ due' = StillDue(w)
      /\ UNCHANGED <<sent, operatorVars>>
  BY DEF Commit
<1>4. \A e \in Execs : row[e] \in Rows /\ View(w, e) \in Rows
  BY ViewType DEF IInv, TypeOK
<1>5. \A e \in Execs : GatesInOrder(View(w, e)) /\ Follows(e, View(w, e)) /\ GatesInOrder(row[e])
  BY ViewInOrder DEF GInv, RowsInOrder
<1>6. due' \subseteq due /\ due \subseteq Execs
  BY <1>3 DEF StillDue, IInv, TypeOK
<1>7. PlacesInOrder'
  BY <1>1, <1>2 DEF GInv, PlacesInOrder
<1>8. RowsInOrder'
  BY <1>3, <1>5 DEF RowsInOrder, GatesInOrder, Auth
<1>9. DueIsPending'
  <2> SUFFICES ASSUME NEW e \in due'
               PROVE  row'[e].gate \in Gates /\ row'[e].ap[row'[e].gate] = "pending"
    BY DEF DueIsPending
  <2> DEFINE x == View(w, e)
             h == row[e].gate
  <2>1. row'[e] = x /\ e \in Execs /\ e \in due
    BY <1>3, <1>6
  <2>2. h \in Gates /\ row[e].ap[h] = "pending"
    BY <2>1 DEF GInv, DueIsPending
  <2>3. x.ap[h] = "pending"
    BY <1>3, <2>1, <2>2 DEF StillDue, View
  <2>4. h <= x.gate /\ (h < x.gate => Auth(x, h))
    BY <1>5, <2>1, <2>2 DEF Follows, GatesInOrder
  <2>5. h = x.gate
    BY <1>4, <2>1, <2>2, <2>3, <2>4, GateNumbers, Unauthorised DEF Auth
  <2> QED
    BY <2>1, <2>2, <2>3, <2>5
<1>10. ResumesAreGranted'
  <2> SUFFICES ASSUME NEW e \in resuming, NEW g \in Gates, \A h \in Gates : g <= h
               PROVE  g <= View(w, e).done \/ View(w, e).ap[g] = "approved"
    BY <1>3 DEF ResumesAreGranted, GInv, operatorVars, IInv, TypeOK
  <2>1. e \in Execs
    BY DEF IInv, TypeOK
  <2>2. g <= row[e].done \/ row[e].ap[g] = "approved"
    BY DEF GInv, ResumesAreGranted
  <2> QED
    BY <1>4, <1>5, <2>1, <2>2, GateNumbers DEF Follows
<1>11. DraftsInOrder'
  <2> SUFFICES ASSUME NEW u \in Workers, NEW f \in DOMAIN draft'[u]
               PROVE  (GatesInOrder(draft[u][f]) /\ Follows(f, draft[u][f]))'
    BY DEF DraftsInOrder
  <2>1. u # w /\ draft'[u] = draft[u] /\ f \in DOMAIN draft[u]
    BY <1>1
  <2>2. f \in Execs /\ f \notin DOMAIN draft[w]
    BY <2>1, DraftType DEF IInv, OneOwner
  <2>3. row'[f] = row[f] /\ (f \in due => f \in due')
    BY <1>3, <2>2 DEF View, StillDue
  <2>4. GatesInOrder(draft[u][f]) /\ Follows(f, draft[u][f])
    BY <2>1 DEF GInv, DraftsInOrder
  <2> QED
    BY <2>1, <2>3, <2>4 DEF GatesInOrder, Follows, Granted, Auth
<1>12. SteadyGateApproved'
  <2> SUFFICES ASSUME NEW e \in Execs, NEW g \in Gates, Steady(g), Granted(e, g)
               PROVE  Granted(e, g)'
    BY <1>3 DEF GInv, SteadyGateApproved
  <2> DEFINE x == View(w, e)
  <2>1. row'[e] = x
    BY <1>3
  <2>2. CASE Auth(row[e], g)
    BY <1>5, <2>1, <2>2 DEF Follows, Granted, Auth
  <2>3. CASE row[e].ap[g] = "pending" /\ e \in due /\ <<g, "expired">> \in Branch
    <3>1. x.ap[g] \in {"pending", "expired"}
      BY <1>5, <2>3 DEF Follows
    <3>2. g = row[e].gate
      BY <1>4, <1>5, <2>3, GateNumbers, Unauthorised DEF GatesInOrder, Auth
    <3>3. CASE x.ap[g] = "expired"
      BY <2>1, <2>3, <3>3 DEF Granted, Auth, Goes
    <3>4. CASE x.ap[g] = "pending"
      <4>1. e \in due'
        BY <1>3, <2>3, <3>2, <3>4 DEF StillDue, View
      <4> QED
        BY <2>1, <2>3, <3>4, <4>1 DEF Granted
    <3> QED
      BY <3>1, <3>3, <3>4
  <2> QED
    BY <2>2, <2>3 DEF Granted
<1> QED
  BY <1>7, <1>8, <1>9, <1>10, <1>11, <1>12 DEF GInv

\* Routes, decisions and time write rows that no draft holds; what they keep keeps GInv.
LEMMA RouteInOrder ==
    ASSUME IInv, GInv, UNCHANGED <<draft, cur, pos, sent>>,
           \A e \in Locked : row'[e] = row[e] /\ (e \in due => e \in due'),
           \A e \in Execs : GatesInOrder(row'[e]),
           \A e \in Execs, g \in Gates : Granted(e, g) => Granted(e, g)',
           DueIsPending', ResumesAreGranted'
    PROVE  GInv'
<1>1. RowsInOrder'
  BY DEF RowsInOrder, GatesInOrder, Auth
<1>2. PlacesInOrder' /\ SteadyGateApproved'
  BY DEF GInv, PlacesInOrder, SteadyGateApproved
<1>3. DraftsInOrder'
  <2> SUFFICES ASSUME NEW u \in Workers, NEW f \in DOMAIN draft[u]
               PROVE  (GatesInOrder(draft[u][f]) /\ Follows(f, draft[u][f]))'
    BY DEF DraftsInOrder
  <2>1. row'[f] = row[f] /\ (f \in due => f \in due')
    BY DEF Locked
  <2>2. GatesInOrder(draft[u][f]) /\ Follows(f, draft[u][f])
    BY DEF GInv, DraftsInOrder
  <2> QED
    BY <2>1, <2>2 DEF GatesInOrder, Follows, Granted, Auth
<1> QED
  BY <1>1, <1>2, <1>3 DEF GInv

\* A new status of an unlocked row keeps the gates in order; a pending one needs the gates
\* ahead of it as a row on its way has them.
LEMMA StatusInOrder ==
    ASSUME IInv, GInv, NEW e \in Execs, NEW s \in {"pending"} \cup Terminal, e \notin Locked,
           s = "pending" => \A g \in Gates : g > row[e].done /\ Steady(g) =>
                                row[e].ap[g] \in {"none", "approved"} \/ Unbranched(g),
           SetStatus(e, s), UNCHANGED <<draft, cur, pos, sent, due, resumes>>, resuming' \subseteq resuming
    PROVE  GInv'
<1>1. row \in [Execs -> Rows] /\ resuming \subseteq Execs
  BY DEF IInv, TypeOK
<1>2. /\ row'[e] = [row[e] EXCEPT !.status = s] /\ row[e] \in Rows
      /\ \A f \in Execs \ {e} : row'[f] = row[f]
  BY <1>1 DEF SetStatus
<1>3. /\ row'[e].status = s /\ row'[e].done = row[e].done /\ row'[e].gate = row[e].gate
      /\ row'[e].ap = row[e].ap /\ row'[e].ok = row[e].ok
  BY <1>2 DEF Rows
<1>4. \A f \in Execs : GatesInOrder(row[f])
  BY DEF GInv, RowsInOrder
<1>5. \A f \in Execs : GatesInOrder(row'[f])
  <2>1. GatesInOrder(row'[e])
    <3>1. s = "pending" \/ s \notin {"absent", "pending", "running"}
      BY DEF Terminal
    <3>2. GatesInOrder(row[e])
      BY <1>4
    <3> QED
      BY <1>3, <3>1, <3>2 DEF GatesInOrder, Auth
  <2> QED
    BY <1>2, <1>4, <2>1
<1>6. \A f \in Execs : row'[f].done = row[f].done /\ row'[f].gate = row[f].gate /\ row'[f].ap = row[f].ap
  BY <1>2, <1>3
<1>7. \A f \in Execs, g \in Gates : Granted(f, g) => Granted(f, g)'
  BY <1>6 DEF Granted, Auth
<1>8. DueIsPending' /\ ResumesAreGranted'
  <2>1. due \subseteq Execs
    BY DEF IInv, TypeOK
  <2>2. DueIsPending'
    BY <1>6, <2>1 DEF GInv, DueIsPending
  <2>3. ResumesAreGranted'
    BY <1>1, <1>6 DEF GInv, ResumesAreGranted
  <2> QED
    BY <2>2, <2>3
<1>9. \A f \in Locked : row'[f] = row[f]
  BY <1>2, DraftType DEF Locked, IInv
<1> QED
  BY <1>5, <1>7, <1>8, <1>9, RouteInOrder

\* The answer to undecided requests keeps the gates in order: an overdue one is left
\* alone, or expires.
LEMMA AnswerInOrder ==
    ASSUME IInv, GInv, NEW S \in SUBSET Execs, NEW a \in {"approved"} \cup Refusals,
           \A e \in S : Undecided(e), SetApproval(S, a), due' = due \ S, S \cap due = {} \/ a = "expired",
           UNCHANGED <<draft, cur, pos, sent, operatorVars>>
    PROVE  GInv'
<1>1. row \in [Execs -> Rows] /\ due \subseteq Execs /\ resuming \subseteq Execs
  BY DEF IInv, TypeOK
<1> DEFINE b(e) == [row[e].ap EXCEPT ![row[e].gate] = a]
<1>2. ASSUME NEW e \in S
      PROVE  /\ row[e].gate \in Gates /\ row[e].ap[row[e].gate] = "pending"
             /\ row'[e] = [row[e] EXCEPT !.ap = b(e)]
             /\ b(e) \in [Gates -> ApprovalStatuses]
             /\ \A g \in Gates : b(e)[g] = IF g = row[e].gate THEN a ELSE row[e].ap[g]
  <2>1. row[e] \in Rows
    BY <1>1
  <2>2. row'[e] = [row[e] EXCEPT !.ap[row[e].gate] = a]
    BY DEF SetApproval
  <2> QED
    BY <2>1, <2>2 DEF Rows, Undecided, ApprovalStatuses
<1> HIDE DEF b
<1>3. ASSUME NEW e \in S
      PROVE  /\ row'[e].status = row[e].status /\ row'[e].done = row[e].done
             /\ row'[e].gate = row[e].gate /\ row'[e].ok = row[e].ok
             /\ \A g \in Gates : row'[e].ap[g] = IF g = row[e].gate THEN a ELSE row[e].ap[g]
  <2>1. row[e] \in Rows
    BY <1>1
  <2>2. /\ row'[e].status = row[e].status /\ row'[e].done = row[e].done
        /\ row'[e].gate = row[e].gate /\ row'[e].ok = row[e].ok /\ row'[e].ap = b(e)
    BY <1>2, <2>1 DEF Rows
  <2>3. \A g \in Gates : b(e)[g] = IF g = row[e].gate THEN a ELSE row[e].ap[g]
    BY <1>2
  <2> QED
    BY <2>2, <2>3
<1>4. \A e \in Execs \ S : row'[e] = row[e]
  BY DEF SetApproval
<1>5. \A e \in Execs : GatesInOrder(row[e]) /\ row[e].done \in Int /\ row[e].gate \in Int
  BY <1>1, GateNumbers DEF GInv, RowsInOrder
<1>6. \A e \in S, g \in Gates : Auth(row[e], g) => g # row[e].gate /\ row'[e].ap[g] = row[e].ap[g]
  <2> TAKE e \in S, g \in Gates
  <2>1. ASSUME g = row[e].gate PROVE ~Auth(row[e], g)
    <3>1. row[e].ap[g] = "pending"
      BY <1>2, <2>1
    <3> QED
      BY <3>1, Unauthorised DEF Auth
  <2> QED
    BY <1>3, <2>1
<1>7. ASSUME NEW e \in Execs PROVE GatesInOrder(row'[e])
  <2>1. CASE e \notin S
    BY <1>4, <1>5, <2>1
  <2>2. CASE e \in S
    <3> SUFFICES ASSUME NEW g \in Gates
                 PROVE  /\ g <= row[e].done => Auth(row'[e], g)
                        /\ g > row[e].gate => row'[e].ap[g] = "none"
                        /\ row[e].status \in {"absent", "pending", "running"} /\ g > row[e].done /\ Steady(g) =>
                              row'[e].ap[g] \in {"none", "approved"} \/ Unbranched(g)
      BY <1>3, <1>5, <2>2 DEF GatesInOrder
    <3>1. /\ g <= row[e].done => Auth(row[e], g)
          /\ g > row[e].gate => row[e].ap[g] = "none"
          /\ row[e].status \in {"absent", "pending", "running"} /\ g > row[e].done /\ Steady(g) =>
                row[e].ap[g] \in {"none", "approved"} \/ Unbranched(g)
      BY <1>5 DEF GatesInOrder
    <3>2. g <= row[e].done => Auth(row'[e], g)
      BY <1>6, <2>2, <3>1 DEF Auth
    <3>3. CASE g # row[e].gate
      BY <1>3, <2>2, <3>1, <3>2, <3>3
    <3>4. CASE g = row[e].gate
      BY <1>2, <1>5, <2>2, <3>1, <3>2, <3>4
    <3> QED
      BY <3>3, <3>4
  <2> QED
    BY <2>1, <2>2
<1>8. ASSUME NEW e \in Execs, NEW g \in Gates, Granted(e, g) PROVE Granted(e, g)'
  <2>1. CASE e \notin S
    BY <1>4, <1>8, <2>1 DEF Granted, Auth
  <2>2. CASE e \in S /\ Auth(row[e], g)
    BY <1>6, <2>2 DEF Granted, Auth
  <2>3. CASE e \in S /\ row[e].ap[g] = "pending" /\ e \in due /\ <<g, "expired">> \in Branch
    <3>1. g = row[e].gate
      BY <1>5, <2>3, GateNumbers, Unauthorised DEF GatesInOrder, Auth
    <3>2. row'[e].ap[g] = "expired"
      BY <1>3, <2>3, <3>1
    <3> QED
      BY <2>3, <3>2 DEF Granted, Auth, Goes
  <2> QED
    BY <1>8, <2>1, <2>2, <2>3 DEF Granted
<1>9. DueIsPending'
  BY <1>1, <1>4 DEF GInv, DueIsPending
<1>10. ResumesAreGranted'
  <2> SUFFICES ASSUME NEW e \in resuming, NEW g \in Gates, \A h \in Gates : g <= h
               PROVE  g <= row'[e].done \/ row'[e].ap[g] = "approved"
    BY DEF ResumesAreGranted, GInv, operatorVars
  <2>1. e \in Execs /\ (g <= row[e].done \/ row[e].ap[g] = "approved")
    BY <1>1 DEF GInv, ResumesAreGranted
  <2>2. CASE e \in S
    <3>1. row[e].ap[row[e].gate] = "pending" /\ row'[e].done = row[e].done
          /\ row'[e].ap[g] = IF g = row[e].gate THEN a ELSE row[e].ap[g]
      BY <1>2, <1>3, <2>2
    <3> QED
      BY <2>1, <3>1
  <2> QED
    BY <1>4, <2>1, <2>2
<1>11. \A e \in Locked : e \notin S
  BY DEF Undecided
<1>12. \A e \in Locked : row'[e] = row[e] /\ (e \in due => e \in due')
  BY <1>4, <1>11, DraftType DEF Locked, IInv
<1> QED
  BY <1>7, <1>8, <1>9, <1>10, <1>12, RouteInOrder

\* Ingest, the control routes, decisions and time keep the gates in order.
LEMMA RoutesInOrder ==
    ASSUME IInv, GInv, NEW e \in Execs, OperatorStep(e) \/ ComesDue(e)
    PROVE  GInv'
<1> USE DEF batchVars, operatorVars
<1>1. TypeOK /\ GatesInOrder(row[e]) /\ row[e] \in Rows
  BY DEF IInv, TypeOK, GInv, RowsInOrder
<1>2. CASE Create(e) \/ \E s \in Execs : Retry(s, e)
  <2>1. Create(e)
    BY <1>2 DEF Retry
  <2>2. e \notin Locked
    BY <2>1 DEF Create, DraftsExtend, Locked, IInv
  <2> QED
    BY <1>1, <2>1, <2>2, StatusInOrder DEF Create, GatesInOrder
<1>3. CASE Abandon(e) \/ PermanentlyFail(e)
  BY <1>3, StatusInOrder DEF Abandon, PermanentlyFail, Terminal
<1>4. CASE ResumeWrite(e)
  <2>1. ASSUME NEW g \in Gates, g > row[e].done, Steady(g)
        PROVE  row[e].ap[g] \in {"none", "approved"} \/ Unbranched(g)
    <3>1. /\ resumes > 0
          /\ (\A h \in Gates : g <= h) => g <= row[e].done \/ row[e].ap[g] = "approved"
      BY <1>4 DEF ResumeWrite, GInv, ResumesAreGranted
    <3>2. resumes \in 0 .. MaxResumes
      BY <1>1 DEF TypeOK
    <3>3. g \in Int /\ row[e].done \in Int /\ MaxResumes \in Nat
      BY <1>1, GateNumbers, BoundsAssumption
    <3>4. MaxResumes # 0 /\ ~(g <= row[e].done)
      BY <2>1, <3>1, <3>2, <3>3
    <3> QED
      BY <2>1, <3>1, <3>4 DEF Steady
  <2> QED
    BY <1>4, <2>1, StatusInOrder DEF ResumeWrite
<1>5. CASE ResumeCheck(e) \/ ResumeRefused(e)
  <2>1. UNCHANGED <<row, due, sent, draft, cur, pos>>
    BY <1>5 DEF ResumeCheck, ResumeRefused
  <2>2. ResumesAreGranted'
    <3>1. CASE ResumeRefused(e)
      BY <3>1 DEF ResumeRefused, GInv, ResumesAreGranted
    <3>2. CASE ResumeCheck(e)
      <4>1. /\ row[e].gate \in Gates /\ row[e].ap[row[e].gate] = "approved"
            /\ resuming' = resuming \cup {e} /\ resumes' = resumes + 1 /\ row' = row
        BY <3>2 DEF ResumeCheck, IInv, CommittedRowsAreWhole
      <4>2. resumes \in Nat
        BY <1>1, BoundsAssumption DEF TypeOK
      <4>3. \A g \in Gates : (\A h \in Gates : g <= h) => g <= row[e].done \/ row[e].ap[g] = "approved"
        BY <1>1, <4>1, GateNumbers DEF GatesInOrder
      <4> QED
        BY <4>1, <4>2, <4>3 DEF GInv, ResumesAreGranted
    <3> QED
      BY <1>5, <3>1, <3>2
  <2>3. DueIsPending' /\ \A f \in Execs, g \in Gates : Granted(f, g) => Granted(f, g)'
    BY <2>1 DEF GInv, DueIsPending, Granted, Auth
  <2> QED
    BY <2>1, <2>2, <2>3, RouteInOrder DEF GInv, RowsInOrder
<1>6. CASE ComesDue(e)
  <2>1. /\ row[e].gate \in Gates /\ row[e].ap[row[e].gate] = "pending" /\ due' = due \cup {e}
        /\ UNCHANGED <<row, sent, draft, cur, pos, resuming, resumes>>
    BY <1>6 DEF ComesDue
  <2>2. DueIsPending' /\ ResumesAreGranted'
    BY <2>1 DEF GInv, DueIsPending, ResumesAreGranted
  <2>3. \A f \in Execs, g \in Gates : Granted(f, g) => Granted(f, g)'
    BY <2>1 DEF Granted, Auth
  <2> QED
    BY <2>1, <2>2, <2>3, RouteInOrder DEF GInv, RowsInOrder
<1>7. CASE Decide(e, "approved") \/ Decide(e, "denied")
  <2>1. PICK d \in {"approved", "denied"} : Decide(e, d)
    BY <1>7
  <2>2. due' = due \ {e} /\ {e} \cap due = {} /\ d \in {"approved"} \cup Refusals
    BY <2>1 DEF Decide, Refusals
  <2> QED
    BY <2>1, <2>2, AnswerInOrder DEF Decide
<1> QED
  BY <1>2, <1>3, <1>4, <1>5, <1>6, <1>7 DEF OperatorStep

-----------------------------------------------------------------------------
\* A step that nobody takes keeps the gates in order.
LEMMA StutterInOrder ==
    ASSUME GInv, UNCHANGED vars PROVE GInv'
  BY DEF vars, batchVars, operatorVars, GInv, RowsInOrder, DraftsInOrder, PlacesInOrder, DueIsPending,
         ResumesAreGranted, SteadyGateApproved, GatesInOrder, Follows, Granted, Auth

\* Every reachable state passes its gates in order.
THEOREM GatesAreInOrder == Spec => []GInv
<1>1. Init => GInv
  <2> SUFFICES ASSUME Init PROVE GInv
    OBVIOUS
  <2>1. GatesInOrder(NoRow)
    BY GateNumbers DEF GatesInOrder, NoRow
  <2>2. RowsInOrder
    BY <2>1 DEF RowsInOrder, Init
  <2>3. DraftsInOrder /\ PlacesInOrder /\ DueIsPending /\ ResumesAreGranted
    BY NoDraftType DEF DraftsInOrder, PlacesInOrder, DueIsPending, ResumesAreGranted, Init
  <2>4. SteadyGateApproved
    BY DEF SteadyGateApproved, Init
  <2> QED
    BY <2>2, <2>3, <2>4 DEF GInv
<1>2. IInv /\ GInv /\ [Next]_vars => GInv'
  <2> SUFFICES ASSUME IInv, GInv, [Next]_vars PROVE GInv'
    OBVIOUS
  <2>1. ASSUME NEW w \in Workers, WorkerStep(w) \/ Crash(w) PROVE GInv'
    <3>1. CASE ListAwaiting(w)
      BY <3>1 DEF ListAwaiting, operatorVars, GInv, RowsInOrder, DraftsInOrder, PlacesInOrder, DueIsPending,
                  ResumesAreGranted, SteadyGateApproved, GatesInOrder, Follows, Granted, Auth
    <3>2. CASE DeadlockVictim(w) \/ Crash(w)
      BY <3>2, RollbackInOrder DEF DeadlockVictim, Crash
    <3> QED
      BY <2>1, <3>1, <3>2, CommitInOrder, VisitsInOrder, RefusalsInOrder, StepsInOrder DEF WorkerStep
  <2>2. ASSUME NEW e \in Execs, OperatorStep(e) \/ ComesDue(e) PROVE GInv'
    BY <2>2, RoutesInOrder
  <2>3. CASE ExpireDue
    <3> DEFINE S == {e \in due : Undecided(e)}
    <3>1. /\ S \in SUBSET Execs /\ \A e \in S : Undecided(e)
          /\ SetApproval(S, "expired") /\ due' = due \ S /\ UNCHANGED <<draft, cur, pos, sent, operatorVars>>
      BY <2>3 DEF ExpireDue, IInv, TypeOK, batchVars
    <3> HIDE DEF S
    <3> QED
      BY <3>1, AnswerInOrder DEF Refusals
  <2> QED
    BY <2>1, <2>2, <2>3, StutterInOrder DEF Next
<1> QED
  BY <1>1, <1>2, Inductive, PTL DEF Spec

\* Whatever crashes, deadlocks and resume requests do, a step behind a steady gate that took
\* effect has what lets it: the gate's approval, its branch, or a due request that can
\* only expire into the branch.  In particular a gate without a branch was approved.
THEOREM SteadyGatesHold == Spec => []SteadyGateApproved
<1>1. GInv => SteadyGateApproved
  BY DEF GInv
<1> QED
  BY GatesAreInOrder, <1>1, PTL

\* Where all gates are steady, no step takes effect behind a gate that does not let it.
THEOREM GatesHold == (\A g \in Gates : Steady(g)) => (Spec => []GatedStepApproved)
<1> SUFFICES ASSUME \A g \in Gates : Steady(g) PROVE Spec => []GatedStepApproved
  OBVIOUS
<1>1. GInv => GatedStepApproved
  BY DEF GInv, SteadyGateApproved, GatedStepApproved, Granted, Auth, Goes
<1> QED
  BY GatesAreInOrder, <1>1, PTL

\* Any gate, steady or not: when a step takes effect, what is committed at that moment
\* lets it pass the gates before it, although the worker acts on its own draft.
EffectNeedsGrant ==
    [][\A e \in Execs : \A g \in Gates, i \in Steps :
         g < i /\ sent'[e][i] # sent[e][i] => Granted(e, g)]_vars

\* The worker's uncommitted draft never stands in for a decision (_process_steps).
THEOREM EffectsAreGranted == Spec => EffectNeedsGrant
<1> DEFINE Needs == \A e \in Execs : \A g \in Gates, i \in Steps :
                       g < i /\ sent'[e][i] # sent[e][i] => Granted(e, g)
<1>1. IInv /\ GInv /\ [Next]_vars => [Needs]_vars
  <2> SUFFICES ASSUME IInv, GInv, Next PROVE Needs
    OBVIOUS
  <2>1. ASSUME NEW w \in Workers, NEW f \in Execs, StepSucceeds(w, f) PROVE Needs
    <3>1. \A g \in Gates, i \in Steps : g < i /\ sent'[f][i] # sent[f][i] => Granted(f, g)
      BY <2>1, StepsInOrder
    <3>2. \A e \in Execs \ {f} : sent'[e] = sent[e]
      BY <2>1 DEF StepSucceeds, IInv, TypeOK
    <3> QED
      BY <3>1, <3>2
  <2> QED
    BY <2>1, OnlyStepsSend
<1> QED
  BY Inductive, GatesAreInOrder, <1>1, PTL DEF Spec, EffectNeedsGrant
=============================================================================
