--------------------------- MODULE ResponsesProofs ---------------------------
(***************************************************************************)
(* Proofs about the parts a response meets on its way out, each from its    *)
(* own specification and for every value of its constants: the delivery of  *)
(* notifications with their dead letters (NotificationDelivery), the        *)
(* breaker and the window of an adapter (AdapterGuard, G), the commands on   *)
(* an address (ResponseCommands, C) and the executions playbooks trigger    *)
(* (PlaybookSteps, P).                                                      *)
(***************************************************************************)
EXTENDS MCResponses, SequenceTheorems, FiniteSetTheorems, TLAPS
-----------------------------------------------------------------------------
(* NotificationDelivery: executions, the ledger and the dead letters.       *)

\* An execution in a batch is still pending, and in no other batch.
Working ==
    \A w \in Workers, e \in Execs : work[w][e] # "no" =>
        exec[e] = "pending" /\ \A v \in Workers \ {w} : work[v][e] = "no"

\* Only executions that failed have a dead letter, only inserted ones a source.
Rooted ==
    \A e \in Execs : /\ letter[e] # "none" => exec[e] = "failed"
                     /\ exec[e] = "absent" => retryOf[e] = None

OnRecord == \E j \in 1 .. Len(ledger) : ledger[j] = "success"

\* A duplicate in a draft has a success before it, committed or in the same draft.
DraftsBehind ==
    \A w \in Workers : \A i \in 1 .. Len(draft[w]) : draft[w][i] = "duplicate" =>
        OnRecord \/ \E j \in 1 .. i - 1 : draft[w][j] = "success"

DeliveryInv == TypeOK /\ Working /\ Rooted /\ LetterRetriedOnce /\ DraftsBehind /\ SuppressedBehindDelivery

\* A row at the end of a list of rows.
LEMMA Grown ==
    ASSUME NEW q \in Seq(Rows), NEW x \in Rows
    PROVE  /\ Append(q, x) \in Seq(Rows) /\ Len(q) \in Nat /\ Len(Append(q, x)) = Len(q) + 1
           /\ \A i \in 1 .. Len(q) : Append(q, x)[i] = q[i]
           /\ Append(q, x)[Len(q) + 1] = x
  BY AppendProperties, LenProperties

\* What a worker sees as delivered is a success of the ledger or of its own draft.
LEMMA DeliveredIsThere ==
    ASSUME TypeOK, NEW w \in Workers, Delivered(w)
    PROVE  OnRecord \/ \E j \in 1 .. Len(draft[w]) : draft[w][j] = "success"
<1> DEFINE rows == ledger \o draft[w]
           oldest == IF Len(rows) > Lookback THEN Len(rows) - Lookback + 1 ELSE 1
<1>1. ledger \in Seq(Rows) /\ draft[w] \in Seq(Rows)
  BY DEF TypeOK
<1>2. Len(ledger) \in Nat /\ Len(draft[w]) \in Nat
  BY <1>1
<1>3. /\ Len(rows) = Len(ledger) + Len(draft[w])
      /\ \A i \in 1 .. Len(ledger) + Len(draft[w]) :
            rows[i] = IF i <= Len(ledger) THEN ledger[i] ELSE draft[w][i - Len(ledger)]
  BY <1>1, ConcatProperties
<1>4. PICK i \in oldest .. Len(rows) : rows[i] = "success"
  BY DEF Delivered, Visible
<1>5. i \in 1 .. Len(ledger) + Len(draft[w])
  BY <1>2, <1>3, <1>4, BoundsAssumption
<1> HIDE DEF rows
<1>6. CASE i <= Len(ledger)
  <2>1. i \in 1 .. Len(ledger) /\ ledger[i] = "success"
    BY <1>2, <1>3, <1>4, <1>5, <1>6
  <2> QED
    BY <2>1 DEF OnRecord
<1>7. CASE ~(i <= Len(ledger))
  <2>1. i - Len(ledger) \in 1 .. Len(draft[w]) /\ draft[w][i - Len(ledger)] = "success"
    BY <1>2, <1>3, <1>4, <1>5, <1>7
  <2> QED
    BY <2>1
<1> QED
  BY <1>6, <1>7

\* A notify_slack step, however it ends, changes its worker's batch alone.
LEMMA DeliverShape ==
    ASSUME DeliveryInv, NEW w \in Workers, NEW e \in Execs, Deliver(w, e)
    PROVE  /\ exec[e] = "pending" /\ \A v \in Workers : work[v][e] = "no"
           /\ UNCHANGED <<exec, book, ledger, letter, retryOf, asked, crashes>> /\ sent' \in Nat
           /\ \E outcome \in {"success", "failed"} : work' = [work EXCEPT ![w][e] = outcome]
           /\ \/ draft' = draft
              \/ \E row \in Rows : /\ draft' = [draft EXCEPT ![w] = Append(@, row)]
                                   /\ row = "duplicate" => Delivered(w)
<1>1. sent \in Nat
  BY DEF DeliveryInv, TypeOK
<1>2. {"success", "failed", "blocked", "duplicate"} = Rows
  BY DEF Rows
<1>3. CASE NotifySuppressed(w, e)
  BY <1>1, <1>2, <1>3 DEF NotifySuppressed, Claimable, Finish, Record, storeVars
<1>4. CASE NotifySent(w, e)
  <2>1. /\ exec[e] = "pending" /\ \A v \in Workers : work[v][e] = "no"
        /\ UNCHANGED <<exec, book, ledger, letter, retryOf, asked, crashes>> /\ sent' \in Nat
    BY <1>1, <1>4 DEF NotifySent, Claimable, storeVars
  <2>2. /\ work' = [work EXCEPT ![w][e] = "success"]
        /\ draft' = [draft EXCEPT ![w] = Append(@, "success")]
    BY <1>4 DEF NotifySent, Finish, Record
  <2> QED
    BY <1>2, <2>1, <2>2
<1>5. CASE NotifyFailed(w, e)
  <2>1. /\ exec[e] = "pending" /\ \A v \in Workers : work[v][e] = "no"
        /\ UNCHANGED <<exec, book, ledger, letter, retryOf, asked, crashes>> /\ sent' \in Nat
    BY <1>1, <1>5 DEF NotifyFailed, Claimable, storeVars
  <2>2. /\ work' = [work EXCEPT ![w][e] = "failed"]
        /\ draft' = [draft EXCEPT ![w] = Append(@, "failed")]
    BY <1>5 DEF NotifyFailed, Finish, Record
  <2> QED
    BY <1>2, <2>1, <2>2
<1>6. CASE NotifyBlocked(w, e)
  BY <1>1, <1>2, <1>6 DEF NotifyBlocked, Claimable, Finish, Record, storeVars
<1>7. CASE NotifyRaised(w, e)
  BY <1>1, <1>2, <1>7 DEF NotifyRaised, Claimable, Finish, Record, storeVars
<1>8. CASE NotifyWithheld(w, e)
  BY <1>1, <1>2, <1>8 DEF NotifyWithheld, Claimable, Finish, Record, storeVars
<1> QED
  BY <1>3, <1>4, <1>5, <1>6, <1>7, <1>8 DEF Deliver

LEMMA DeliverKeeps ==
    ASSUME DeliveryInv, NEW w \in Workers, NEW e \in Execs, Deliver(w, e)
    PROVE  DeliveryInv'
<1>1. /\ exec[e] = "pending" /\ \A v \in Workers : work[v][e] = "no"
      /\ UNCHANGED <<exec, book, ledger, letter, retryOf, asked, crashes>> /\ sent' \in Nat
  BY DeliverShape
<1>2. PICK outcome \in {"success", "failed"} : work' = [work EXCEPT ![w][e] = outcome]
  BY DeliverShape
<1>3. work \in [Workers -> [Execs -> {"no", "success", "failed"}]] /\ draft \in [Workers -> Seq(Rows)]
  BY DEF DeliveryInv, TypeOK
<1>4. work' \in [Workers -> [Execs -> {"no", "success", "failed"}]]
  BY <1>2, <1>3
<1>5. \A v \in Workers, f \in Execs : v # w \/ f # e => work'[v][f] = work[v][f]
  BY <1>2, <1>3
<1>6. /\ draft' \in [Workers -> Seq(Rows)] /\ DraftsBehind'
  <2>1. CASE draft' = draft
    BY <1>1, <1>3, <2>1 DEF DeliveryInv, DraftsBehind, OnRecord
  <2>2. ASSUME NEW row \in Rows, draft' = [draft EXCEPT ![w] = Append(@, row)],
               row = "duplicate" => Delivered(w)
        PROVE  draft' \in [Workers -> Seq(Rows)] /\ DraftsBehind'
    <3>1. /\ Append(draft[w], row) \in Seq(Rows) /\ Len(draft[w]) \in Nat
          /\ Len(Append(draft[w], row)) = Len(draft[w]) + 1
          /\ \A i \in 1 .. Len(draft[w]) : Append(draft[w], row)[i] = draft[w][i]
          /\ Append(draft[w], row)[Len(draft[w]) + 1] = row
      BY <1>3, Grown
    <3>2. draft' \in [Workers -> Seq(Rows)]
      BY <1>3, <2>2, <3>1
    <3>3. draft'[w] = Append(draft[w], row) /\ \A v \in Workers \ {w} : draft'[v] = draft[v]
      BY <1>3, <2>2
    <3>4. OnRecord' <=> OnRecord
      BY <1>1 DEF OnRecord
    <3>5. ASSUME NEW v \in Workers, NEW i \in 1 .. Len(draft'[v]), draft'[v][i] = "duplicate"
          PROVE  OnRecord' \/ \E j \in 1 .. i - 1 : draft'[v][j] = "success"
      <4>1. CASE v # w
        BY <3>3, <3>4, <3>5, <4>1 DEF DeliveryInv, DraftsBehind
      <4>2. CASE v = w /\ i \in 1 .. Len(draft[w])
        <5>1. draft[w][i] = "duplicate"
          BY <3>1, <3>3, <3>5, <4>2
        <5>2. OnRecord \/ \E j \in 1 .. i - 1 : draft[w][j] = "success"
          BY <4>2, <5>1 DEF DeliveryInv, DraftsBehind
        <5> QED
          BY <3>1, <3>3, <3>4, <4>2, <5>2
      <4>3. CASE v = w /\ i = Len(draft[w]) + 1
        <5>1. Delivered(w) /\ TypeOK
          BY <2>2, <3>1, <3>3, <3>5, <4>3 DEF DeliveryInv
        <5>2. OnRecord \/ \E j \in 1 .. Len(draft[w]) : draft[w][j] = "success"
          BY <5>1, DeliveredIsThere
        <5> QED
          BY <3>1, <3>3, <3>4, <4>3, <5>2
      <4> QED
        BY <3>1, <3>3, <3>5, <4>1, <4>2, <4>3
    <3> QED
      BY <3>2, <3>5 DEF DraftsBehind
  <2> QED
    BY <2>1, <2>2, DeliverShape
<1>7. TypeOK'
  BY <1>1, <1>4, <1>6 DEF DeliveryInv, TypeOK
<1>8. Working'
  BY <1>1, <1>5 DEF DeliveryInv, Working
<1>9. Rooted' /\ LetterRetriedOnce' /\ SuppressedBehindDelivery'
  BY <1>1 DEF DeliveryInv, Rooted, LetterRetriedOnce, SuppressedBehindDelivery
<1> QED
  BY <1>6, <1>7, <1>8, <1>9 DEF DeliveryInv

LEMMA CommitKeeps ==
    ASSUME DeliveryInv, NEW w \in Workers, Commit(w)
    PROVE  DeliveryInv'
<1>1. /\ exec' = [e \in Execs |-> IF work[w][e] = "no" THEN exec[e] ELSE work[w][e]]
      /\ letter' = [e \in Execs |-> IF work[w][e] = "failed" THEN "open" ELSE letter[e]]
      /\ ledger' = ledger \o draft[w]
      /\ draft' = [draft EXCEPT ![w] = <<>>] /\ work' = [work EXCEPT ![w] = NoWork]
      /\ UNCHANGED <<book, retryOf, asked, sent, crashes>>
  BY DEF Commit
<1>2. /\ work \in [Workers -> [Execs -> {"no", "success", "failed"}]]
      /\ draft \in [Workers -> Seq(Rows)] /\ ledger \in Seq(Rows)
      /\ exec \in [Execs -> {"absent", "pending", "success", "failed"}]
      /\ letter \in [Execs -> Letters]
  BY DEF DeliveryInv, TypeOK
<1>3. /\ work'[w] = NoWork /\ draft'[w] = <<>>
      /\ \A v \in Workers \ {w} : work'[v] = work[v] /\ draft'[v] = draft[v]
  BY <1>1, <1>2
<1>4. /\ ledger' \in Seq(Rows) /\ Len(ledger) \in Nat /\ Len(draft[w]) \in Nat
      /\ Len(ledger') = Len(ledger) + Len(draft[w])
      /\ \A i \in 1 .. Len(ledger) + Len(draft[w]) :
            ledger'[i] = IF i <= Len(ledger) THEN ledger[i] ELSE draft[w][i - Len(ledger)]
  BY <1>1, <1>2, ConcatProperties
<1>5. TypeOK'
  <2>1. exec' \in [Execs -> {"absent", "pending", "success", "failed"}] /\ letter' \in [Execs -> Letters]
    BY <1>1, <1>2 DEF Letters
  <2>2. work' \in [Workers -> [Execs -> {"no", "success", "failed"}]]
    BY <1>1, <1>2 DEF NoWork
  <2>3. draft' \in [Workers -> Seq(Rows)]
    BY <1>1, <1>2
  <2> QED
    BY <1>1, <1>4, <2>1, <2>2, <2>3 DEF DeliveryInv, TypeOK
<1>6. \A e \in Execs : work[w][e] # "no" => exec[e] = "pending" /\ \A v \in Workers \ {w} : work[v][e] = "no"
  BY DEF DeliveryInv, Working
<1>7. Working'
  BY <1>1, <1>3, <1>6 DEF DeliveryInv, Working, NoWork
<1>8. \A e \in Execs : work[w][e] # "no" => letter[e] = "none"
  BY <1>6 DEF DeliveryInv, Rooted
<1>9. Rooted'
  BY <1>1, <1>2, <1>6, <1>8 DEF DeliveryInv, Rooted
<1>10. \A e \in Execs : letter'[e] = "retried" <=> letter[e] = "retried"
  BY <1>1, <1>2, <1>8
<1>11. LetterRetriedOnce'
  BY <1>1, <1>10 DEF DeliveryInv, LetterRetriedOnce
<1>12. OnRecord => OnRecord'
  BY <1>4 DEF OnRecord
<1>13. DraftsBehind'
  <2>1. ASSUME NEW v \in Workers, NEW i \in 1 .. Len(draft'[v]), draft'[v][i] = "duplicate"
        PROVE  OnRecord' \/ \E j \in 1 .. i - 1 : draft'[v][j] = "success"
    <3>1. v # w
      BY <1>3, <2>1
    <3> QED
      BY <1>3, <1>12, <2>1, <3>1 DEF DeliveryInv, DraftsBehind
  <2> QED
    BY <2>1 DEF DraftsBehind
<1>14. SuppressedBehindDelivery'
  <2>1. ASSUME NEW i \in 1 .. Len(ledger'), ledger'[i] = "duplicate"
        PROVE  \E j \in 1 .. i - 1 : ledger'[j] = "success"
    <3>1. CASE i <= Len(ledger)
      <4>1. i \in 1 .. Len(ledger) /\ ledger[i] = "duplicate"
        BY <1>4, <2>1, <3>1
      <4>2. PICK j \in 1 .. i - 1 : ledger[j] = "success"
        BY <4>1 DEF DeliveryInv, SuppressedBehindDelivery
      <4>3. ledger'[j] = "success"
        BY <1>4, <3>1, <4>1, <4>2
      <4> QED
        BY <4>2, <4>3
    <3>2. CASE ~(i <= Len(ledger))
      <4> DEFINE k == i - Len(ledger)
      <4>1. k \in 1 .. Len(draft[w]) /\ draft[w][k] = "duplicate"
        BY <1>4, <2>1, <3>2
      <4>2. OnRecord \/ \E j \in 1 .. k - 1 : draft[w][j] = "success"
        BY <4>1 DEF DeliveryInv, DraftsBehind
      <4>3. CASE OnRecord
        <5>1. PICK j \in 1 .. Len(ledger) : ledger[j] = "success"
          BY <4>3 DEF OnRecord
        <5>2. j \in 1 .. i - 1 /\ ledger'[j] = "success"
          BY <1>4, <2>1, <3>2, <5>1
        <5> QED
          BY <5>2
      <4>4. ASSUME NEW j \in 1 .. k - 1, draft[w][j] = "success"
            PROVE  \E n \in 1 .. i - 1 : ledger'[n] = "success"
        <5>1. /\ Len(ledger) + j \in 1 .. i - 1 /\ Len(ledger) + j \in 1 .. Len(ledger) + Len(draft[w])
              /\ ~(Len(ledger) + j <= Len(ledger)) /\ (Len(ledger) + j) - Len(ledger) = j
          BY <1>4, <2>1, <4>1, <4>4
        <5>2. ledger'[Len(ledger) + j] = "success"
          BY <1>4, <4>4, <5>1
        <5> QED
          BY <5>1, <5>2
      <4> QED
        BY <4>2, <4>3, <4>4
    <3> QED
      BY <3>1, <3>2
  <2> QED
    BY <2>1 DEF SuppressedBehindDelivery
<1> QED
  BY <1>5, <1>7, <1>9, <1>11, <1>13, <1>14 DEF DeliveryInv

LEMMA CrashKeeps ==
    ASSUME DeliveryInv, NEW w \in Workers, Crash(w)
    PROVE  DeliveryInv'
<1>1. /\ crashes < MaxCrashes /\ crashes' = crashes + 1
      /\ draft' = [draft EXCEPT ![w] = <<>>] /\ work' = [work EXCEPT ![w] = NoWork]
      /\ UNCHANGED <<exec, book, ledger, letter, retryOf, asked, sent>>
  BY DEF Crash, storeVars
<1>2. /\ work \in [Workers -> [Execs -> {"no", "success", "failed"}]]
      /\ draft \in [Workers -> Seq(Rows)] /\ crashes \in 0 .. MaxCrashes
  BY DEF DeliveryInv, TypeOK
<1>3. /\ work'[w] = NoWork /\ draft'[w] = <<>>
      /\ \A v \in Workers \ {w} : work'[v] = work[v] /\ draft'[v] = draft[v]
  BY <1>1, <1>2
<1>4. work' \in [Workers -> [Execs -> {"no", "success", "failed"}]]
  BY <1>1, <1>2 DEF NoWork
<1>5. draft' \in [Workers -> Seq(Rows)] /\ crashes' \in 0 .. MaxCrashes
  BY <1>1, <1>2, BoundsAssumption
<1>6. TypeOK'
  BY <1>1, <1>4, <1>5 DEF DeliveryInv, TypeOK
<1>7. Working'
  BY <1>1, <1>3 DEF DeliveryInv, Working, NoWork
<1>8. OnRecord' <=> OnRecord
  BY <1>1 DEF OnRecord
<1>9. DraftsBehind'
  <2>1. ASSUME NEW v \in Workers, NEW i \in 1 .. Len(draft'[v]), draft'[v][i] = "duplicate"
        PROVE  OnRecord' \/ \E j \in 1 .. i - 1 : draft'[v][j] = "success"
    <3>1. v # w
      BY <1>3, <2>1
    <3> QED
      BY <1>3, <1>8, <2>1, <3>1 DEF DeliveryInv, DraftsBehind
  <2> QED
    BY <2>1 DEF DraftsBehind
<1>10. Rooted' /\ LetterRetriedOnce' /\ SuppressedBehindDelivery'
  BY <1>1 DEF DeliveryInv, Rooted, LetterRetriedOnce, SuppressedBehindDelivery
<1> QED
  BY <1>6, <1>7, <1>9, <1>10 DEF DeliveryInv

\* The steps on executions and letters leave the ledger and the batches alone.
LEMMA LedgerStays ==
    ASSUME DeliveryInv, UNCHANGED <<ledger, draft>>
    PROVE  DraftsBehind' /\ SuppressedBehindDelivery'
  BY DEF DeliveryInv, DraftsBehind, SuppressedBehindDelivery, OnRecord

\* An execution that is inserted was absent: no batch has it, no letter is its own.
LEMMA InsertKeeps ==
    ASSUME DeliveryInv, NEW e \in Execs, NEW b \in Books \cup {None}, NEW source \in Execs \cup {None},
           Insert(e, b, source), work' = work
    PROVE  /\ exec' \in [Execs -> {"absent", "pending", "success", "failed"}]
           /\ book' \in [Execs -> Books \cup {None}] /\ retryOf' \in [Execs -> Execs \cup {None}]
           /\ Working' /\ letter[e] = "none" /\ retryOf[e] = None /\ retryOf'[e] = source
           /\ \A f \in Execs \ {e} : exec'[f] = exec[f] /\ retryOf'[f] = retryOf[f]
           /\ exec[e] = "absent" /\ exec'[e] = "pending"
<1>1. /\ exec[e] = "absent" /\ exec' = [exec EXCEPT ![e] = "pending"]
      /\ book' = [book EXCEPT ![e] = b] /\ retryOf' = [retryOf EXCEPT ![e] = source]
  BY DEF Insert
<1>2. /\ exec \in [Execs -> {"absent", "pending", "success", "failed"}]
      /\ book \in [Execs -> Books \cup {None}] /\ retryOf \in [Execs -> Execs \cup {None}]
  BY DEF DeliveryInv, TypeOK
<1>3. /\ exec' \in [Execs -> {"absent", "pending", "success", "failed"}]
      /\ book' \in [Execs -> Books \cup {None}] /\ retryOf' \in [Execs -> Execs \cup {None}]
  BY <1>1, <1>2
<1>4. /\ exec'[e] = "pending" /\ retryOf'[e] = source
      /\ \A f \in Execs \ {e} : exec'[f] = exec[f] /\ retryOf'[f] = retryOf[f]
  BY <1>1, <1>2
<1>5. Working'
  BY <1>4 DEF DeliveryInv, Working
<1>6. letter[e] = "none" /\ retryOf[e] = None
  BY <1>1 DEF DeliveryInv, Rooted
<1> QED
  BY <1>1, <1>3, <1>4, <1>5, <1>6

LEMMA TriggerKeeps ==
    ASSUME DeliveryInv, NEW e \in Execs, NEW b \in Books, Trigger(e, b)
    PROVE  DeliveryInv'
<1>1. Insert(e, b, None) /\ UNCHANGED <<ledger, letter, draft, work, asked, sent, crashes>>
  BY DEF Trigger, batchVars
<1>2. /\ exec' \in [Execs -> {"absent", "pending", "success", "failed"}]
      /\ book' \in [Execs -> Books \cup {None}] /\ retryOf' \in [Execs -> Execs \cup {None}]
      /\ Working' /\ letter[e] = "none" /\ retryOf[e] = None /\ retryOf'[e] = None
      /\ \A f \in Execs \ {e} : exec'[f] = exec[f] /\ retryOf'[f] = retryOf[f]
      /\ exec[e] = "absent" /\ exec'[e] = "pending"
  BY <1>1, InsertKeeps
<1>3. TypeOK'
  BY <1>1, <1>2 DEF DeliveryInv, TypeOK
<1>4. Rooted'
  BY <1>1, <1>2 DEF DeliveryInv, Rooted
<1>5. \A f \in Execs : retryOf'[f] = retryOf[f]
  BY <1>2
<1>6. LetterRetriedOnce'
  BY <1>1, <1>5 DEF DeliveryInv, LetterRetriedOnce
<1> QED
  BY <1>1, <1>2, <1>3, <1>4, <1>6, LedgerStays DEF DeliveryInv

LEMMA MoveLetterKeeps ==
    ASSUME DeliveryInv, NEW e \in Execs, Dismiss(e) \/ RetryRequest(e)
    PROVE  DeliveryInv'
<1>1. PICK to \in {"dismissed", "retrying"} :
        /\ letter[e] \in {"open", "retrying"} /\ letter' = [letter EXCEPT ![e] = to]
  BY DEF Dismiss, RetryRequest, MoveLetter
<1>2. UNCHANGED <<exec, book, ledger, retryOf, draft, work, asked, sent, crashes>>
  BY DEF Dismiss, RetryRequest, MoveLetter, batchVars
<1>3. letter \in [Execs -> Letters]
  BY DEF DeliveryInv, TypeOK
<1>4. letter'[e] = to /\ \A f \in Execs \ {e} : letter'[f] = letter[f]
  BY <1>1, <1>3
<1>5. letter' \in [Execs -> Letters]
  BY <1>1, <1>3 DEF Letters
<1>6. TypeOK'
  BY <1>2, <1>5 DEF DeliveryInv, TypeOK
<1>7. Working' /\ Rooted'
  BY <1>1, <1>2, <1>4 DEF DeliveryInv, Working, Rooted
<1>8. \A f \in Execs : letter'[f] = "retried" <=> letter[f] = "retried"
  BY <1>1, <1>4
<1>9. LetterRetriedOnce'
  BY <1>2, <1>8 DEF DeliveryInv, LetterRetriedOnce
<1> QED
  BY <1>2, <1>6, <1>7, <1>9, LedgerStays DEF DeliveryInv

LEMMA RetryExecuteKeeps ==
    ASSUME DeliveryInv, NEW o \in Operators, NEW f \in Execs, RetryExecute(o, f)
    PROVE  DeliveryInv'
<1> DEFINE e == asked[o]
<1>1. /\ e # None /\ Insert(f, book[e], e) /\ letter[e] = "retrying" /\ exec[e] = "failed"
      /\ letter' = [letter EXCEPT ![e] = "retried"] /\ asked' = [asked EXCEPT ![o] = None]
      /\ UNCHANGED <<ledger, draft, work, sent, crashes>>
  BY DEF RetryExecute, StillRetrying, batchVars
<1>2. /\ letter \in [Execs -> Letters] /\ asked \in [Operators -> Execs \cup {None}]
      /\ book \in [Execs -> Books \cup {None}]
  BY DEF DeliveryInv, TypeOK
<1>3. e \in Execs /\ book[e] \in Books \cup {None}
  BY <1>1, <1>2
<1> HIDE DEF e
<1>4. /\ exec' \in [Execs -> {"absent", "pending", "success", "failed"}]
      /\ book' \in [Execs -> Books \cup {None}] /\ retryOf' \in [Execs -> Execs \cup {None}]
      /\ Working' /\ letter[f] = "none" /\ retryOf[f] = None /\ retryOf'[f] = e
      /\ \A g \in Execs \ {f} : exec'[g] = exec[g] /\ retryOf'[g] = retryOf[g]
      /\ exec[f] = "absent" /\ exec'[f] = "pending"
  BY <1>1, <1>3, InsertKeeps
<1>5. letter' \in [Execs -> Letters] /\ asked' \in [Operators -> Execs \cup {None}]
  BY <1>1, <1>2, <1>3 DEF Letters
<1>6. letter'[e] = "retried" /\ \A g \in Execs \ {e} : letter'[g] = letter[g]
  BY <1>1, <1>2, <1>3
<1>7. TypeOK'
  BY <1>1, <1>4, <1>5 DEF DeliveryInv, TypeOK
<1>8. f # e
  BY <1>1, <1>4
<1>9. Rooted'
  BY <1>1, <1>4, <1>6, <1>8 DEF DeliveryInv, Rooted
<1>10. \A g \in Execs : retryOf[g] # e
  BY <1>1, <1>3 DEF DeliveryInv, LetterRetriedOnce
<1>11. \A g \in Execs : letter'[g] = "retried" <=> \E h \in Execs : retryOf'[h] = g
  <2>1. ASSUME NEW g \in Execs, g # e
        PROVE  letter'[g] = "retried" <=> \E h \in Execs : retryOf'[h] = g
    <3>1. \A h \in Execs : retryOf'[h] = g <=> retryOf[h] = g
      BY <1>4, <2>1, NoneAssumption
    <3>2. letter[g] = "retried" <=> \E h \in Execs : retryOf[h] = g
      BY DEF DeliveryInv, LetterRetriedOnce
    <3> QED
      BY <1>6, <2>1, <3>1, <3>2
  <2> QED
    BY <1>4, <1>6, <2>1
<1>12. \A g, h \in Execs : retryOf'[g] # None /\ retryOf'[g] = retryOf'[h] => g = h
  BY <1>4, <1>10 DEF DeliveryInv, LetterRetriedOnce
<1>13. LetterRetriedOnce'
  BY <1>11, <1>12 DEF LetterRetriedOnce
<1> QED
  BY <1>1, <1>4, <1>7, <1>9, <1>13, LedgerStays DEF DeliveryInv

\* The requests that only read a letter, or give up.
LEMMA AskingKeeps ==
    ASSUME DeliveryInv, NEW o \in Operators,
           RetryRefused(o) \/ \E e \in Execs : RetryCheck(o, e)
    PROVE  DeliveryInv'
<1>1. UNCHANGED <<exec, book, ledger, letter, retryOf, draft, work, sent, crashes>>
  BY DEF RetryRefused, RetryCheck, storeVars, batchVars
<1>2. asked' \in [Operators -> Execs \cup {None}]
  BY DEF DeliveryInv, TypeOK, RetryRefused, RetryCheck
<1>3. TypeOK'
  BY <1>1, <1>2 DEF DeliveryInv, TypeOK
<1>4. Working' /\ Rooted' /\ LetterRetriedOnce'
  BY <1>1 DEF DeliveryInv, Working, Rooted, LetterRetriedOnce
<1> QED
  BY <1>1, <1>3, <1>4, LedgerStays DEF DeliveryInv

\* The inductive invariant holds in every reachable state, for any constants.
THEOREM DeliveryInductive == Spec => []DeliveryInv
<1>1. Init => DeliveryInv
  <2> SUFFICES ASSUME Init PROVE DeliveryInv
    OBVIOUS
  <2>1. ledger = <<>> /\ \A w \in Workers : draft[w] = <<>>
    BY DEF Init
  <2>2. TypeOK
    BY BoundsAssumption DEF Init, TypeOK, NoWork, Letters
  <2>3. Working /\ Rooted /\ LetterRetriedOnce
    BY NoneAssumption DEF Init, NoWork, Working, Rooted, LetterRetriedOnce
  <2>4. DraftsBehind /\ SuppressedBehindDelivery
    BY <2>1 DEF DraftsBehind, SuppressedBehindDelivery
  <2> QED
    BY <2>2, <2>3, <2>4 DEF DeliveryInv
<1>2. DeliveryInv /\ [Next]_vars => DeliveryInv'
  <2> SUFFICES ASSUME DeliveryInv, [Next]_vars PROVE DeliveryInv'
    OBVIOUS
  <2>1. CASE UNCHANGED vars
    <3>1. UNCHANGED <<exec, book, ledger, letter, retryOf, draft, work, asked, sent, crashes>>
      BY <2>1 DEF vars, storeVars, batchVars
    <3>2. TypeOK' /\ Working' /\ Rooted' /\ LetterRetriedOnce'
      BY <3>1 DEF DeliveryInv, TypeOK, Working, Rooted, LetterRetriedOnce
    <3> QED
      BY <3>1, <3>2, LedgerStays DEF DeliveryInv
  <2>2. ASSUME NEW w \in Workers, WorkerStep(w) \/ Crash(w) PROVE DeliveryInv'
    BY <2>2, DeliverKeeps, CommitKeeps, CrashKeeps DEF WorkerStep
  <2>3. CASE LetterStep
    BY <2>3, MoveLetterKeeps, RetryExecuteKeeps, AskingKeeps DEF LetterStep
  <2> QED
    BY <2>1, <2>2, <2>3, TriggerKeeps DEF Next
<1> QED
  BY <1>1, <1>2, PTL DEF Spec

\* Type correctness of the tables and of the workers' open batches.
THEOREM DeliveryTypeCorrect == Spec => []TypeOK
<1>1. DeliveryInv => TypeOK
  BY DEF DeliveryInv
<1> QED
  BY <1>1, DeliveryInductive, PTL

\* A committed duplicate always has a committed delivery before it, whatever was rolled back.
THEOREM SuppressionIsGrounded == Spec => []SuppressedBehindDelivery
<1>1. DeliveryInv => SuppressedBehindDelivery
  BY DEF DeliveryInv
<1> QED
  BY <1>1, DeliveryInductive, PTL

\* A dead letter is retried by at most one execution, and is marked so exactly then.
THEOREM LettersAreRetriedOnce == Spec => []LetterRetriedOnce
<1>1. DeliveryInv => LetterRetriedOnce
  BY DEF DeliveryInv
<1> QED
  BY <1>1, DeliveryInductive, PTL
-----------------------------------------------------------------------------
(* AdapterGuard: the breaker, the grants of a probe and the window.         *)

\* AdapterGuard counts with the library's Cardinality.
LEMMA SameCount == \A S : G!Cardinality(S) = Cardinality(S)
  BY DEF G!Cardinality, Cardinality

\* The failures of the streak, by their place in calls.
Hits == {i \in 1 .. Len(calls) :
           calls[i] \in G!Failures /\ \A j \in {k \in 1 .. Len(calls) : calls[k] = "sent"} : j < i}

\* A closed breaker's failure_count is the streak of reported failures, below the threshold.
CountIsStreak ==
    breaker.state = "closed" =>
        /\ breaker.failures = G!Streak /\ breaker.failures < Threshold
        /\ calls # <<>> => calls[Len(calls)] \notin {"permanent", "invalid"}

\* The limiter remembers every contact of the current window, and no contact is in the future.
Remembered ==
    \A i \in 1 .. Len(contacts) :
        contacts[i] <= now /\ (contacts[i] > now - WindowLength => i \in bucket)

\* The inductive invariant.
GuardInv == G!TypeOK /\ CountIsStreak /\ G!OneProbePerGrant /\ Remembered /\ G!WindowLimit

\* What the steps of Next share, by what they do to the history.
Called(outcome) == G!Admits(breaker) /\ breaker' = G!Settled(breaker, outcome) /\ calls' = Append(calls, outcome)
Controlled ==
    /\ calls' = <<>> /\ controls' = controls + 1
    /\ \/ breaker' = G!Closed
       \/ breaker' = G!Opened(breaker)
       \/ breaker.state = "open" /\ breaker' = G!Probing(breaker)

-----------------------------------------------------------------------------
\* Every step is a call that ended, a control or restart, or leaves breaker and calls alone.
LEMMA StepKinds ==
    ASSUME [G!Next]_G!vars
    PROVE  \/ \E outcome \in G!Outcomes : Called(outcome)
           \/ Controlled
           \/ UNCHANGED <<breaker, calls>>
<1>1. ASSUME NEW outcome \in G!Contacting, G!Contact(outcome) PROVE Called(outcome) /\ outcome \in G!Outcomes
  BY <1>1 DEF G!Contact, G!Ended, Called, G!Outcomes
<1>2. ASSUME NEW outcome \in {"unready", "invalid"}, G!NotReady(outcome)
      PROVE  Called(outcome) /\ outcome \in G!Outcomes
  BY <1>2 DEF G!NotReady, G!Ended, Called, G!Outcomes
<1>3. ASSUME G!HitLimit PROVE Called("limited") /\ "limited" \in G!Outcomes
  BY <1>3 DEF G!HitLimit, G!Ended, Called, G!Outcomes
<1>4. ASSUME G!ManualReset \/ G!ManualForceOpen \/ G!ManualEnableHalfOpen \/ G!Restart PROVE Controlled
  BY <1>4 DEF G!ManualReset, G!ManualForceOpen, G!ManualEnableHalfOpen, G!Restart, G!Control, Controlled
<1>5. ASSUME G!Tick \/ UNCHANGED G!vars PROVE UNCHANGED <<breaker, calls>>
  BY <1>5 DEF G!Tick, G!vars
<1> QED
  BY <1>1, <1>2, <1>3, <1>4, <1>5 DEF G!Next

\* The streak is a finite number of calls.
LEMMA StreakIsFinite ==
    ASSUME G!TypeOK PROVE IsFiniteSet(Hits) /\ G!Streak = Cardinality(Hits) /\ G!Streak \in Nat
<1>1. Len(calls) \in Nat /\ IsFiniteSet(1 .. Len(calls))
  BY FS_Interval, SameCount DEF G!TypeOK
<1>2. IsFiniteSet(Hits)
  BY <1>1, FS_Subset, SameCount DEF Hits
<1> QED
  BY <1>2, FS_CardinalityType, SameCount DEF Hits, G!Streak

\* What a call does to the streak: a success ends it, a reported failure prolongs it.
LEMMA StreakOfCall ==
    ASSUME G!TypeOK, G!TypeOK', NEW outcome \in G!Outcomes, calls' = Append(calls, outcome)
    PROVE  /\ outcome = "sent" => G!Streak' = 0
           /\ outcome \in G!Failures => G!Streak' = G!Streak + 1
           /\ outcome \in {"raised", "limited"} => G!Streak' = G!Streak
<1>1. Len(calls) \in Nat /\ Len(calls') = Len(calls) + 1 /\ calls'[Len(calls) + 1] = outcome
      /\ \A i \in 1 .. Len(calls) : calls'[i] = calls[i]
  BY DEF G!TypeOK
<1>2. IsFiniteSet(Hits) /\ G!Streak = Cardinality(Hits) /\ G!Streak' = Cardinality(Hits')
  BY StreakIsFinite, SameCount DEF Hits, G!Streak
<1>3. CASE outcome = "sent"
  <2>1. Hits' = {}
    BY <1>1, <1>3 DEF Hits, G!Failures
  <2> QED
    BY <1>2, <1>3, <2>1, FS_EmptySet, SameCount DEF G!Failures
<1>4. CASE outcome \in G!Failures
  <2>1. Hits' = Hits \cup {Len(calls) + 1} /\ Len(calls) + 1 \notin Hits
    BY <1>1, <1>4 DEF Hits, G!Failures
  <2> QED
    BY <1>2, <1>4, <2>1, FS_AddElement, SameCount DEF G!Failures
<1>5. CASE outcome \in {"raised", "limited"}
  <2>1. Hits' = Hits
    BY <1>1, <1>5 DEF Hits, G!Failures
  <2> QED
    BY <1>2, <1>5, <2>1 DEF G!Failures
<1> QED
  BY <1>3, <1>4, <1>5 DEF G!Outcomes, G!Contacting, G!Failures

\* No calls, no streak.
LEMMA StreakOfNone == ASSUME calls = <<>> PROVE G!Streak = 0
<1>1. Hits = {} /\ G!Streak = Cardinality(Hits)
  BY SameCount DEF Hits, G!Streak
<1> QED
  BY <1>1, FS_EmptySet, SameCount

-----------------------------------------------------------------------------
\* A new process: closed, nothing sent.
LEMMA GuardInit == G!Init => GuardInv
<1> SUFFICES ASSUME G!Init PROVE GuardInv
  OBVIOUS
<1>1. G!TypeOK
  BY GuardAssumption, GuardBoundsAssumption DEF G!Init, G!TypeOK, G!Breakers, G!Closed
<1>2. CountIsStreak
  BY GuardAssumption, StreakOfNone DEF G!Init, CountIsStreak, G!Closed
<1>3. G!OneProbePerGrant /\ Remembered
  BY DEF G!Init, G!OneProbePerGrant, Remembered, G!Closed
<1>4. \A t \in 0 .. MaxTime : {i \in 1 .. Len(contacts) : contacts[i] \in t .. t + WindowLength - 1} = {}
  BY DEF G!Init
<1>5. G!WindowLimit
  BY <1>4, FS_EmptySet, SameCount, GuardAssumption DEF G!WindowLimit
<1> QED
  BY <1>1, <1>2, <1>3, <1>5 DEF GuardInv

\* Settling a call keeps the breaker's type.
LEMMA SettledType ==
    ASSUME breaker \in G!Breakers, NEW outcome \in G!Outcomes PROVE G!Settled(breaker, outcome) \in G!Breakers
<1> USE GuardAssumption DEF G!Breakers
<1>1. /\ breaker.state \in {"closed", "open", "half_open"} /\ breaker.failures \in 0 .. Threshold
      /\ breaker.probe \in BOOLEAN
  OBVIOUS
<1>2. G!Closed \in G!Breakers /\ G!Tripped(breaker) \in G!Breakers /\ G!Opened(breaker) \in G!Breakers
      /\ G!Spent(breaker) \in G!Breakers
  BY <1>1 DEF G!Closed, G!Tripped, G!Opened, G!Spent
<1>3. G!CountFailure(breaker) \in G!Breakers
  BY <1>1, <1>2 DEF G!CountFailure
<1> QED
  BY <1>2, <1>3 DEF G!Settled

\* What becomes of a half-open breaker.
LEMMA SettledProbe ==
    ASSUME breaker.state = "half_open", NEW outcome \in G!Outcomes
    PROVE  /\ outcome = "sent" => G!Settled(breaker, outcome) = G!Closed
           /\ outcome = "limited" => G!Settled(breaker, outcome) = G!Spent(breaker)
           /\ outcome \notin {"sent", "limited"} => G!Settled(breaker, outcome) = G!Opened(breaker)
  BY DEF G!Settled

\* Type correctness is preserved by every step.
LEMMA GuardTypePreserved == GuardInv /\ [G!Next]_G!vars => G!TypeOK'
<1> SUFFICES ASSUME GuardInv, [G!Next]_G!vars PROVE G!TypeOK'
  OBVIOUS
<1> USE GuardBoundsAssumption DEF GuardInv, G!TypeOK
<1>0. ASSUME NEW outcome \in G!Outcomes, G!Ended(outcome)
      PROVE  /\ breaker' \in G!Breakers /\ calls' \in Seq(G!Outcomes)
             /\ now' \in 0 .. MaxTime /\ made' \in 0 .. MaxCalls /\ controls' \in 0 .. MaxControls
  BY <1>0, SettledType DEF G!Ended
<1>1. ASSUME NEW outcome \in G!Contacting, G!Contact(outcome) PROVE G!TypeOK'
  <2>1. contacts' \in Seq(0 .. MaxTime) /\ Len(contacts') = Len(contacts) + 1 /\ Len(contacts) \in Nat
    BY <1>1 DEF G!Contact
  <2>2. bucket' \subseteq 1 .. Len(contacts')
    <3>1. bucket' = {i \in bucket : contacts[i] > now - WindowLength} \cup {Len(contacts) + 1}
      BY <1>1 DEF G!Contact, G!Recent
    <3>2. \A i \in bucket : i \in Nat /\ 1 <= i /\ i <= Len(contacts)
      BY <2>1
    <3>3. \A i \in bucket' : i \in Nat /\ 1 <= i /\ i <= Len(contacts')
      BY <2>1, <3>1, <3>2
    <3> QED
      BY <2>1, <3>3
  <2> QED
    BY <1>0, <1>1, <2>1, <2>2 DEF G!Contact, G!Outcomes
<1>2. ASSUME NEW outcome \in {"unready", "invalid"}, G!NotReady(outcome) PROVE G!TypeOK'
  BY <1>0, <1>2 DEF G!NotReady, G!Outcomes
<1>3. ASSUME G!HitLimit PROVE G!TypeOK'
  <2>1. bucket' \subseteq 1 .. Len(contacts') /\ contacts' = contacts
    BY <1>3 DEF G!HitLimit, G!Recent
  <2> QED
    BY <1>0, <1>3, <2>1 DEF G!HitLimit, G!Outcomes
<1>4. ASSUME G!ManualReset \/ G!ManualForceOpen \/ G!ManualEnableHalfOpen \/ G!Restart PROVE G!TypeOK'
  <2>1. G!Closed \in G!Breakers /\ G!Opened(breaker) \in G!Breakers /\ G!Probing(breaker) \in G!Breakers
    BY GuardAssumption DEF G!Closed, G!Opened, G!Probing, G!Breakers
  <2>2. ASSUME NEW b \in G!Breakers, G!Control(b) PROVE G!TypeOK'
    BY <2>2 DEF G!Control
  <2>3. CASE G!Restart
    BY <2>1, <2>3 DEF G!Restart
  <2> QED
    BY <1>4, <2>1, <2>2, <2>3 DEF G!ManualReset, G!ManualForceOpen, G!ManualEnableHalfOpen
<1>5. ASSUME G!Tick PROVE G!TypeOK'
  BY <1>5 DEF G!Tick
<1>6. CASE UNCHANGED G!vars
  BY <1>6 DEF G!vars
<1> QED
  BY <1>1, <1>2, <1>3, <1>4, <1>5, <1>6 DEF G!Next

\* The failure count stays the streak.
LEMMA CountPreserved == GuardInv /\ G!TypeOK' /\ [G!Next]_G!vars => CountIsStreak'
<1> SUFFICES ASSUME GuardInv, G!TypeOK', [G!Next]_G!vars PROVE CountIsStreak'
  OBVIOUS
<1> USE GuardAssumption
<1>1. ASSUME NEW outcome \in G!Outcomes, Called(outcome) PROVE CountIsStreak'
  <2>1. G!Streak \in Nat
    BY StreakIsFinite DEF GuardInv
  <2>2. /\ outcome = "sent" => G!Streak' = 0
        /\ outcome \in G!Failures => G!Streak' = G!Streak + 1
        /\ outcome \in {"raised", "limited"} => G!Streak' = G!Streak
    BY <1>1, StreakOfCall DEF GuardInv, Called
  <2>3. calls'[Len(calls')] = outcome
    BY <1>1 DEF GuardInv, G!TypeOK, Called
  <2>4. breaker.state = "closed" \/ breaker.state = "half_open"
    BY <1>1 DEF Called, G!Admits
  <2>5. CASE breaker.state = "closed"
    BY <1>1, <2>1, <2>2, <2>3, <2>5
    DEF GuardInv, G!TypeOK, G!Breakers, Called, CountIsStreak, G!Settled, G!Spent, G!Closed, G!Opened, G!Tripped,
        G!CountFailure, G!Outcomes, G!Contacting, G!Failures
  <2>6. CASE breaker.state = "half_open"
    BY <1>1, <2>2, <2>3, <2>6, SettledProbe DEF Called, CountIsStreak, G!Spent, G!Closed, G!Opened
  <2> QED
    BY <2>4, <2>5, <2>6
<1>2. ASSUME Controlled PROVE CountIsStreak'
  <2>1. G!Streak' = 0
    <3>1. Hits' = {} /\ G!Streak' = Cardinality(Hits')
      BY <1>2, SameCount DEF Controlled, Hits, G!Streak
    <3> QED
      BY <3>1, FS_EmptySet, SameCount
  <2> QED
    BY <1>2, <2>1 DEF GuardInv, G!TypeOK, G!Breakers, Controlled, CountIsStreak, G!Closed, G!Opened, G!Probing
<1>3. ASSUME UNCHANGED <<breaker, calls>> PROVE CountIsStreak'
  BY <1>3 DEF GuardInv, CountIsStreak, G!Streak
<1> QED
  BY <1>1, <1>2, <1>3, StepKinds

\* A grant stays one probe.
LEMMA ProbePreserved == GuardInv /\ G!TypeOK' /\ [G!Next]_G!vars => G!OneProbePerGrant'
<1> SUFFICES ASSUME GuardInv, G!TypeOK', [G!Next]_G!vars PROVE G!OneProbePerGrant'
  OBVIOUS
<1>1. ASSUME NEW outcome \in G!Outcomes, Called(outcome) PROVE G!OneProbePerGrant'
  <2>1. CASE breaker.state = "closed"
    BY <1>1, <2>1
    DEF GuardInv, G!TypeOK, G!Breakers, Called, G!OneProbePerGrant, G!Settled, G!Spent, G!Closed, G!Tripped,
        G!CountFailure, G!Opened
  <2>2. CASE breaker.state = "half_open"
    <3>1. calls = <<>>
      BY <1>1, <2>2 DEF GuardInv, G!OneProbePerGrant, Called, G!Admits
    <3>2. CASE outcome = "limited"
      <4>1. calls' = <<"limited">>
        BY <1>1, <3>1, <3>2 DEF Called
      <4>2. breaker' = G!Spent(breaker)
        BY <1>1, <2>2, <3>2, SettledProbe DEF Called
      <4>3. breaker'.probe = FALSE
        BY <4>2 DEF G!Spent
      <4> QED
        BY <4>1, <4>3, Zenon DEF G!OneProbePerGrant
    <3>3. CASE outcome # "limited"
      BY <1>1, <2>2, <3>3, SettledProbe DEF Called, G!OneProbePerGrant, G!Closed, G!Opened
    <3> QED
      BY <3>2, <3>3
  <2> QED
    BY <1>1, <2>1, <2>2 DEF Called, G!Admits
<1>2. ASSUME Controlled PROVE G!OneProbePerGrant'
  BY <1>2 DEF GuardInv, G!TypeOK, G!Breakers, Controlled, G!OneProbePerGrant, G!Closed, G!Opened, G!Probing
<1>3. ASSUME UNCHANGED <<breaker, calls>> PROVE G!OneProbePerGrant'
  BY <1>3 DEF GuardInv, G!OneProbePerGrant
<1> QED
  BY <1>1, <1>2, <1>3, StepKinds

\* What the steps of Next do to the window: contact the provider, forget what is old, start
\* again, or let time pass.
Contacted == /\ Cardinality(G!Recent) < Limit /\ now' = now
             /\ contacts' = Append(contacts, now) /\ bucket' = G!Recent \cup {Len(contacts) + 1}
Forgot == contacts' = contacts /\ now' = now /\ bucket' \in {bucket, G!Recent}
Cleared == contacts' = <<>> /\ bucket' = {} /\ now' = now
Ticked == now' = now + 1 /\ contacts' = contacts /\ bucket' = bucket

\* A full window is what keeps the provider from being contacted.
LEMMA RecentIsFinite == ASSUME G!TypeOK PROVE IsFiniteSet(G!Recent) /\ Cardinality(G!Recent) \in Nat
<1>1. Len(contacts) \in Nat /\ IsFiniteSet(1 .. Len(contacts))
  BY FS_Interval, SameCount DEF G!TypeOK
<1>2. G!Recent \subseteq 1 .. Len(contacts)
  BY DEF G!TypeOK, G!Recent
<1>3. IsFiniteSet(G!Recent)
  BY <1>1, <1>2, FS_Subset, SameCount
<1> QED
  BY <1>3, FS_CardinalityType, SameCount

\* Every step is one of these four for the window.
LEMMA WindowSteps ==
    ASSUME G!TypeOK, [G!Next]_G!vars PROVE Contacted \/ Forgot \/ Cleared \/ Ticked
<1>1. ASSUME NEW outcome \in G!Contacting, G!Contact(outcome) PROVE Contacted
  BY <1>1, RecentIsFinite, SameCount, GuardAssumption DEF G!Contact, G!Ended, G!Full, Contacted
<1>2. ASSUME NEW outcome \in {"unready", "invalid"}, G!NotReady(outcome) PROVE Forgot
  BY <1>2 DEF G!NotReady, G!Ended, Forgot
<1>3. ASSUME G!HitLimit PROVE Forgot
  BY <1>3 DEF G!HitLimit, G!Ended, Forgot
<1>4. ASSUME G!ManualReset \/ G!ManualForceOpen \/ G!ManualEnableHalfOpen PROVE Forgot
  BY <1>4 DEF G!ManualReset, G!ManualForceOpen, G!ManualEnableHalfOpen, G!Control, Forgot
<1>5. ASSUME G!Restart PROVE Cleared
  BY <1>5 DEF G!Restart, Cleared
<1>6. ASSUME G!Tick PROVE Ticked
  BY <1>6 DEF G!Tick, Ticked
<1>7. CASE UNCHANGED G!vars
  BY <1>7 DEF G!vars, Forgot
<1> QED
  BY <1>1, <1>2, <1>3, <1>4, <1>5, <1>6, <1>7 DEF G!Next

\* The limiter goes on remembering the current window.
LEMMA MemoryPreserved == GuardInv /\ G!TypeOK' /\ [G!Next]_G!vars => Remembered'
<1> SUFFICES ASSUME GuardInv, G!TypeOK', [G!Next]_G!vars PROVE Remembered'
  OBVIOUS
<1> USE GuardAssumption
<1>1. now \in Nat /\ Len(contacts) \in Nat /\ WindowLength \in Nat
      /\ \A i \in 1 .. Len(contacts) : contacts[i] \in Nat
  BY GuardBoundsAssumption DEF GuardInv, G!TypeOK
<1>2. CASE Contacted
  <2>1. Len(contacts') = Len(contacts) + 1 /\ contacts'[Len(contacts) + 1] = now
        /\ \A i \in 1 .. Len(contacts) : contacts'[i] = contacts[i]
    BY <1>2 DEF GuardInv, G!TypeOK, Contacted
  <2> QED
    BY <1>1, <1>2, <2>1 DEF GuardInv, Remembered, Contacted, G!Recent
<1>3. CASE Forgot
  BY <1>1, <1>3 DEF GuardInv, Remembered, Forgot, G!Recent
<1>4. CASE Cleared
  BY <1>4 DEF Remembered, Cleared
<1>5. CASE Ticked
  BY <1>1, <1>5 DEF GuardInv, Remembered, Ticked
<1> QED
  BY <1>2, <1>3, <1>4, <1>5, WindowSteps DEF GuardInv

\* Contacts within the window that begins at t.
Within(t) == {i \in 1 .. Len(contacts) : contacts[i] \in t .. t + WindowLength - 1}

\* No window ever holds more than Limit contacts: a window that takes in the newest contact holds
\* nothing else than what the limiter remembered.
LEMMA LimitPreserved == GuardInv /\ G!TypeOK' /\ [G!Next]_G!vars => G!WindowLimit'
<1> SUFFICES ASSUME GuardInv, G!TypeOK', [G!Next]_G!vars PROVE G!WindowLimit'
  OBVIOUS
<1> USE GuardAssumption
<1>1. now \in Nat /\ Len(contacts) \in Nat /\ WindowLength \in Nat /\ Limit \in Nat
      /\ \A i \in 1 .. Len(contacts) : contacts[i] \in Nat
  BY GuardBoundsAssumption DEF GuardInv, G!TypeOK
<1>2. CASE Contacted
  <2> SUFFICES ASSUME NEW t \in 0 .. MaxTime PROVE Cardinality(Within(t)') <= Limit
    BY SameCount DEF G!WindowLimit, Within
  <2>1. Len(contacts') = Len(contacts) + 1 /\ contacts'[Len(contacts) + 1] = now
        /\ \A i \in 1 .. Len(contacts) : contacts'[i] = contacts[i]
    BY <1>2 DEF GuardInv, G!TypeOK, Contacted
  <2>2. CASE now \in t .. t + WindowLength - 1
    <3>1. Within(t)' \subseteq G!Recent \cup {Len(contacts) + 1}
      BY <1>1, <2>1, <2>2 DEF Within, G!Recent, GuardInv, Remembered
    <3>2. Len(contacts) + 1 \notin G!Recent
      BY <1>1 DEF GuardInv, G!TypeOK, G!Recent
    <3>3. /\ IsFiniteSet(G!Recent \cup {Len(contacts) + 1})
          /\ Cardinality(G!Recent \cup {Len(contacts) + 1}) = Cardinality(G!Recent) + 1
          /\ Cardinality(G!Recent) \in Nat
      BY <3>2, RecentIsFinite, FS_AddElement, SameCount DEF GuardInv
    <3>4. Cardinality(Within(t)') <= Cardinality(G!Recent \cup {Len(contacts) + 1})
          /\ Cardinality(Within(t)') \in Nat
      BY <3>1, <3>3, FS_Subset, SameCount, FS_CardinalityType
    <3> QED
      BY <1>1, <1>2, <3>3, <3>4 DEF Contacted
  <2>3. CASE now \notin t .. t + WindowLength - 1
    <3>1. Within(t)' = Within(t)
      BY <1>1, <2>1, <2>3 DEF Within
    <3> QED
      BY <3>1, SameCount DEF GuardInv, G!WindowLimit, Within
  <2> QED
    BY <2>2, <2>3
<1>3. CASE Forgot \/ Ticked
  BY <1>3 DEF GuardInv, G!WindowLimit, Forgot, Ticked
<1>4. CASE Cleared
  <2>1. \A t \in 0 .. MaxTime : Within(t)' = {}
    BY <1>4 DEF Within, Cleared
  <2>2. \A t \in 0 .. MaxTime : Cardinality(Within(t)') <= Limit
    BY <1>1, <2>1, FS_EmptySet DEF Within
  <2> QED
    BY <2>2, SameCount DEF G!WindowLimit, Within
<1> QED
  BY <1>2, <1>3, <1>4, WindowSteps DEF GuardInv

-----------------------------------------------------------------------------
\* The inductive invariant holds in every reachable state of a process, restarts included.
THEOREM GuardInductive == G!Spec => []GuardInv
<1>1. GuardInv /\ [G!Next]_G!vars => GuardInv'
  BY GuardTypePreserved, CountPreserved, ProbePreserved, MemoryPreserved, LimitPreserved DEF GuardInv
<1> QED
  BY GuardInit, <1>1, PTL DEF G!Spec

\* The breaker and the limiter keep their types; failure_count never passes the threshold.
THEOREM GuardTypeCorrect == G!Spec => []G!TypeOK
<1>1. GuardInv => G!TypeOK
  BY DEF GuardInv
<1> QED
  BY GuardInductive, <1>1, PTL

\* A closed breaker has seen fewer than Threshold failures in a row, and none that is final.
THEOREM ClosedIsHealthy == G!Spec => []ClosedMeansHealthy
<1>1. G!Streak = Streak
  BY SameCount DEF G!Streak, Streak, G!Failures, Failures
<1>2. GuardInv => ClosedMeansHealthy
  BY <1>1 DEF GuardInv, CountIsStreak, ClosedMeansHealthy
<1> QED
  BY GuardInductive, <1>2, PTL

\* An operator's grant lets one call through.
THEOREM GrantIsOneProbe == G!Spec => []G!OneProbePerGrant
<1>1. GuardInv => G!OneProbePerGrant
  BY DEF GuardInv
<1> QED
  BY GuardInductive, <1>1, PTL

\* The provider is contacted at most Limit times in any window of WindowLength.
THEOREM LimitHolds == G!Spec => []G!WindowLimit
<1>1. GuardInv => G!WindowLimit
  BY DEF GuardInv
<1> QED
  BY GuardInductive, <1>1, PTL

\* Only a message that got through, an operator or a restart closes a breaker.
THEOREM SuccessCloses == G!Spec => OnlySuccessCloses
<1>1. GuardInv /\ [G!Next]_G!vars =>
        [breaker.state # "closed" /\ breaker'.state = "closed" =>
           calls' = Append(calls, "sent") \/ controls' = controls + 1]_G!vars
  <2> SUFFICES ASSUME GuardInv, [G!Next]_G!vars, breaker.state # "closed", breaker'.state = "closed"
               PROVE  calls' = Append(calls, "sent") \/ controls' = controls + 1
    OBVIOUS
  <2>1. ASSUME NEW outcome \in G!Outcomes, Called(outcome) PROVE calls' = Append(calls, "sent")
    <3>1. breaker.state = "half_open"
      BY <2>1 DEF Called, G!Admits
    <3>2. outcome = "sent"
      BY <2>1, <3>1, SettledProbe DEF Called, G!Spent, G!Opened
    <3> QED
      BY <2>1, <3>2 DEF Called
  <2>2. ASSUME Controlled PROVE controls' = controls + 1
    BY <2>2 DEF Controlled
  <2> QED
    BY <2>1, <2>2, StepKinds
<1> QED
  BY GuardInductive, <1>1, PTL DEF G!Spec, OnlySuccessCloses, G!vars
-----------------------------------------------------------------------------
(* ResponseCommands: the registry row, the blocks and the incidents of an   *)
(* address.                                                                 *)

\* A transaction behind its upsert holds the registry row.
Holding == \A s \in Sessions : session[s].at \in {"locked", "found"} => holder = s

\* What was read without a lock is still there: no row of either table is ever deleted.
ReadsExist ==
    \A s \in Sessions : session[s].at \in {"looked", "locked"} =>
        /\ session[s].action = "remove_tracking" => session[s].seen \in 0 .. Len(blocks)
        /\ session[s].action = "flag_high_priority" => session[s].seen \in 0 .. Len(incidents)

\* The block a block_ip command found is still active, or there still is none.
FoundIsActive ==
    \A s \in Sessions : session[s].at = "found" =>
        IF session[s].seen = 0 THEN C!Active = {} ELSE session[s].seen \in C!Active

Sound == C!OneActiveBlock /\ C!PointerIsActive /\ C!ShownHasRecord

CommandsInv == C!TypeOK /\ Holding /\ ReadsExist /\ FoundIsActive /\ Sound

BlockStatuses == {"active", "removed"}
IncidentStatuses == {"open", "resolved", "closed"}

\* Only s's transaction changes, to idle, and the rows are still there.
LEMMA Ending ==
    ASSUME CommandsInv, NEW s \in Sessions,
           session' = [session EXCEPT ![s] = C!Idle],
           holder' = IF holder = s THEN Nobody ELSE holder,
           Len(blocks) <= Len(blocks)', Len(blocks)' \in Nat,
           Len(incidents) <= Len(incidents)', Len(incidents)' \in Nat,
           C!Active' = C!Active \/ session[s].at \in {"locked", "found"}
    PROVE  /\ session' \in [Sessions -> C!Transactions] /\ holder' \in Sessions \cup {Nobody}
           /\ Holding' /\ ReadsExist' /\ FoundIsActive'
<1>1. session \in [Sessions -> C!Transactions] /\ holder \in Sessions \cup {Nobody}
  BY DEF CommandsInv, C!TypeOK
<1>2. C!Idle \in C!Transactions /\ C!Idle.at = "idle"
  BY DEF C!Transactions, C!Idle
<1>3. session' \in [Sessions -> C!Transactions] /\ holder' \in Sessions \cup {Nobody}
  BY <1>1, <1>2
<1>4. session'[s] = C!Idle /\ \A t \in Sessions \ {s} : session'[t] = session[t]
  BY <1>1
<1>5. Holding'
  BY <1>2, <1>4, CommandsAssumption DEF CommandsInv, Holding
<1>6. Len(blocks) \in Nat /\ Len(incidents) \in Nat
  BY DEF CommandsInv, C!TypeOK
<1>7. ReadsExist'
  BY <1>2, <1>4, <1>6 DEF CommandsInv, ReadsExist
<1>8. ASSUME NEW t \in Sessions, session'[t].at = "found"
      PROVE  t # s /\ session'[t] = session[t] /\ C!Active' = C!Active
  BY <1>2, <1>4, <1>8 DEF CommandsInv, Holding
<1>9. FoundIsActive'
  BY <1>8 DEF CommandsInv, FoundIsActive
<1> QED
  BY <1>3, <1>5, <1>7, <1>9

\* The upsert changes the disposition of a missing row alone.
LEMMA UpsertedRow ==
    ASSUME C!TypeOK
    PROVE  /\ C!Upserted \in [disposition : C!Dispositions, block : Nat, incident : Nat]
           /\ C!Upserted.block = registry.block /\ C!Upserted.incident = registry.incident
           /\ C!Upserted.disposition \in {registry.disposition, "observed"}
  BY DEF C!TypeOK, C!Upserted, C!Dispositions

LEMMA LookKeeps ==
    ASSUME CommandsInv, NEW s \in Sessions, NEW action \in C!Actions, NEW key \in Keys, C!Look(s, action, key)
    PROVE  CommandsInv'
<1>1. PICK n \in {0, 1} \cup C!Active \cup C!Open :
        /\ C!Reads(action, n)
        /\ session' = [session EXCEPT ![s] = [at |-> "looked", action |-> action, key |-> key,
                                              seen |-> n, past |-> past]]
  BY DEF C!Look
<1>2. UNCHANGED <<registry, blocks, past, incidents, events, holder, changes, repeated>>
  BY DEF C!Look
<1>3. /\ session \in [Sessions -> C!Transactions] /\ past \in SUBSET Nat
      /\ Len(blocks) \in Nat /\ Len(incidents) \in Nat
  BY DEF CommandsInv, C!TypeOK
<1>4. n \in Nat
  BY <1>3 DEF C!Active, C!Open
<1>5. [at |-> "looked", action |-> action, key |-> key, seen |-> n, past |-> past] \in C!Transactions
  BY <1>3, <1>4 DEF C!Transactions
<1>6. session' \in [Sessions -> C!Transactions]
  BY <1>1, <1>3, <1>5
<1>7. /\ session'[s] = [at |-> "looked", action |-> action, key |-> key, seen |-> n, past |-> past]
      /\ \A t \in Sessions \ {s} : session'[t] = session[t]
  BY <1>1, <1>3
<1>8. commands' \in 0 .. MaxCommands
  BY CommandsAssumption DEF CommandsInv, C!TypeOK, C!Look
<1>9. C!TypeOK'
  BY <1>2, <1>6, <1>8 DEF CommandsInv, C!TypeOK
<1>10. Holding'
  BY <1>2, <1>7 DEF CommandsInv, Holding
<1>11. action = "remove_tracking" => n \in 0 .. Len(blocks)
  BY <1>1, <1>3 DEF C!Reads, C!Newest, C!Active
<1>12. action = "flag_high_priority" => n \in 0 .. Len(incidents)
  BY <1>1, <1>3 DEF C!Reads, C!Newest, C!Open
<1>13. ReadsExist'
  BY <1>2, <1>7, <1>11, <1>12 DEF CommandsInv, ReadsExist
<1>14. FoundIsActive' /\ Sound'
  BY <1>2, <1>7 DEF CommandsInv, FoundIsActive, Sound, C!Active, C!OneActiveBlock, C!PointerIsActive,
                     C!ShownHasRecord
<1> QED
  BY <1>9, <1>10, <1>13, <1>14 DEF CommandsInv

LEMMA LockKeeps ==
    ASSUME CommandsInv, NEW s \in Sessions, C!Lock(s)
    PROVE  CommandsInv'
<1>1. /\ session[s].at = "looked" /\ holder' = s /\ holder \in {s, Nobody}
      /\ session' = [session EXCEPT ![s].at = "locked"]
      /\ UNCHANGED <<registry, blocks, past, incidents, events, commands, changes, repeated>>
  BY DEF C!Lock, C!Unheld
<1>2. session \in [Sessions -> C!Transactions]
  BY DEF CommandsInv, C!TypeOK
<1>3. session[s] \in [at : {"looked", "locked", "found"}, action : C!Actions, key : Keys, seen : Nat,
                      past : SUBSET Nat]
  BY <1>1, <1>2 DEF C!Transactions, C!Idle
<1>4. session'[s] = [session[s] EXCEPT !.at = "locked"]
      /\ \A t \in Sessions \ {s} : session'[t] = session[t]
  BY <1>1, <1>2
<1>5. /\ session'[s] \in C!Transactions /\ session'[s].at = "locked"
      /\ session'[s].action = session[s].action /\ session'[s].seen = session[s].seen
  BY <1>3, <1>4 DEF C!Transactions
<1>6. C!TypeOK'
  BY <1>1, <1>2, <1>4, <1>5 DEF CommandsInv, C!TypeOK
<1>7. Holding'
  BY <1>1, <1>4, <1>5, CommandsAssumption DEF CommandsInv, Holding
<1>8. ReadsExist'
  BY <1>1, <1>4, <1>5 DEF CommandsInv, ReadsExist
<1>9. FoundIsActive' /\ Sound'
  BY <1>1, <1>4, <1>5 DEF CommandsInv, FoundIsActive, Sound, C!Active, C!OneActiveBlock, C!PointerIsActive,
                          C!ShownHasRecord
<1> QED
  BY <1>6, <1>7, <1>8, <1>9 DEF CommandsInv

LEMMA FindKeeps ==
    ASSUME CommandsInv, NEW s \in Sessions, C!Find(s)
    PROVE  CommandsInv'
<1> DEFINE live == C!Active \ session[s].past
<1>1. /\ session[s].at = "locked" /\ (live # {} \/ C!Active = {})
      /\ UNCHANGED <<registry, blocks, past, incidents, events, holder, commands, changes, repeated>>
  BY DEF C!Find
<1>2. PICK n \in {0} \cup live :
        C!Eldest(n, live) /\ session' = [session EXCEPT ![s].at = "found", ![s].seen = n]
  BY DEF C!Find
<1>3. session \in [Sessions -> C!Transactions] /\ Len(blocks) \in Nat
  BY DEF CommandsInv, C!TypeOK
<1>4. session[s] \in [at : {"looked", "locked", "found"}, action : C!Actions, key : Keys, seen : Nat,
                      past : SUBSET Nat]
  BY <1>1, <1>3 DEF C!Transactions, C!Idle
<1>5. session'[s] = [session[s] EXCEPT !.at = "found", !.seen = n]
      /\ \A t \in Sessions \ {s} : session'[t] = session[t]
  BY <1>2, <1>3
<1>6. n \in Nat /\ (IF n = 0 THEN C!Active = {} ELSE n \in C!Active)
  BY <1>1, <1>2, <1>3 DEF C!Active, C!Eldest
<1>7. session'[s] \in C!Transactions /\ session'[s].at = "found" /\ session'[s].seen = n
  BY <1>4, <1>5, <1>6 DEF C!Transactions
<1>8. C!TypeOK'
  BY <1>1, <1>2, <1>3, <1>5, <1>7 DEF CommandsInv, C!TypeOK
<1>9. Holding'
  BY <1>1, <1>5, <1>7 DEF CommandsInv, Holding
<1>10. ReadsExist'
  BY <1>1, <1>5, <1>7 DEF CommandsInv, ReadsExist
<1>11. C!Active' = C!Active
  BY <1>1 DEF C!Active
<1>12. FoundIsActive'
  BY <1>5, <1>6, <1>7, <1>11 DEF CommandsInv, FoundIsActive
<1>13. Sound'
  BY <1>1, <1>11 DEF CommandsInv, Sound, C!OneActiveBlock, C!PointerIsActive, C!ShownHasRecord
<1> QED
  BY <1>8, <1>9, <1>10, <1>12, <1>13 DEF CommandsInv

\* What a commit of s does besides the tables: the session ends, and the events and the
\* history have their types.
LEMMA CommitsTypes ==
    ASSUME C!TypeOK, NEW s \in Sessions, NEW key \in Keys \X {"done", "rejected"}, NEW r, C!Commits(s, key, r)
    PROVE  /\ registry' = r /\ repeated' = (repeated \/ key \in events) /\ repeated' \in BOOLEAN
           /\ events' \subseteq Keys \X {"done", "rejected"}
           /\ session' = [session EXCEPT ![s] = C!Idle]
           /\ holder' = IF holder = s THEN Nobody ELSE holder
           /\ UNCHANGED <<past, commands, changes>>
  BY DEF C!TypeOK, C!Commits

\* The key of a transaction that is not idle.
LEMMA KeyType ==
    ASSUME C!TypeOK, NEW s \in Sessions, session[s].at # "idle"
    PROVE  /\ session[s].key \in Keys /\ session[s].seen \in Nat
           /\ session[s] \in [at : {"looked", "locked", "found"}, action : C!Actions,
                              key : Keys, seen : Nat, past : SUBSET Nat]
  BY DEF C!TypeOK, C!Transactions, C!Idle

LEMMA BlockKeeps ==
    ASSUME CommandsInv, NEW s \in Sessions, C!Block(s)
    PROVE  CommandsInv'
<1> DEFINE found == session[s].seen
           id == IF found = 0 THEN Len(blocks) + 1 ELSE found
           r == C!Appended(C!Upserted, C!Done(s), "blocklist_tracked", id, 0)
<1>1. /\ session[s].at = "found" /\ C!Commits(s, C!Done(s), r) /\ incidents' = incidents
      /\ blocks' = IF found = 0 THEN Append(blocks, "active") ELSE blocks
  BY DEF C!Block
<1>2. C!TypeOK /\ blocks \in Seq(BlockStatuses) /\ Len(blocks) \in Nat /\ Len(incidents) \in Nat
  BY DEF CommandsInv, C!TypeOK, BlockStatuses
<1>3. found \in Nat /\ C!Done(s) \in Keys \X {"done", "rejected"}
  BY <1>1, <1>2, KeyType DEF C!Done
<1>4. IF found = 0 THEN C!Active = {} ELSE found \in C!Active
  BY <1>1 DEF CommandsInv, FoundIsActive
<1>5. /\ blocks' \in Seq(BlockStatuses) /\ Len(blocks') \in Nat /\ Len(blocks) <= Len(blocks')
      /\ \A i \in 1 .. Len(blocks) : blocks'[i] = blocks[i]
      /\ found = 0 => Len(blocks') = Len(blocks) + 1 /\ blocks'[Len(blocks) + 1] = "active"
      /\ found # 0 => blocks' = blocks
  <2>1. CASE found = 0
    BY <1>1, <1>2, <2>1, "active" \in BlockStatuses, Grown DEF BlockStatuses
  <2>2. CASE found # 0
    BY <1>1, <1>2, <2>2
  <2> QED
    BY <2>1, <2>2
<1>6. found = 0 => C!Active' = {id}
  BY <1>2, <1>4, <1>5 DEF C!Active
<1>7. found # 0 => C!Active' = C!Active
  BY <1>5 DEF C!Active
<1>8. id \in C!Active' /\ id \in Nat /\ id # 0
  BY <1>2, <1>3, <1>4, <1>6, <1>7 DEF C!Active
<1>9. /\ r \in [disposition : C!Dispositions, block : Nat, incident : Nat]
      /\ C!Done(s) \in events => r = C!Upserted
      /\ C!Done(s) \notin events => r.disposition = "blocklist_tracked" /\ r.block = id
  <2>1. C!Upserted \in [disposition : C!Dispositions, block : Nat, incident : Nat]
    BY <1>2, UpsertedRow
  <2>2. "blocklist_tracked" \in C!Dispositions
    BY DEF C!Dispositions
  <2> QED
    <3>1. id \in Nat /\ id # 0
      BY <1>8
    <3> HIDE DEF id
    <3> QED
      BY <2>1, <2>2, <3>1 DEF C!Appended
<1>10. /\ registry' = r /\ repeated' = (repeated \/ C!Done(s) \in events) /\ repeated' \in BOOLEAN
       /\ events' \subseteq Keys \X {"done", "rejected"}
       /\ session' = [session EXCEPT ![s] = C!Idle]
       /\ holder' = IF holder = s THEN Nobody ELSE holder
       /\ UNCHANGED <<past, commands, changes>>
  BY <1>1, <1>2, <1>3, CommitsTypes
<1>11. /\ session' \in [Sessions -> C!Transactions] /\ holder' \in Sessions \cup {Nobody}
       /\ Holding' /\ ReadsExist' /\ FoundIsActive'
  <2>1. /\ Len(blocks) <= Len(blocks)' /\ Len(blocks)' \in Nat
        /\ Len(incidents) <= Len(incidents)' /\ Len(incidents)' \in Nat
    BY <1>1, <1>2, <1>5
  <2>2. session[s].at \in {"locked", "found"}
    BY <1>1
  <2>3. session' = [session EXCEPT ![s] = C!Idle] /\ holder' = IF holder = s THEN Nobody ELSE holder
    BY <1>10
  <2> QED
    BY <2>1, <2>2, <2>3, Ending
<1>12. C!TypeOK'
  <2>1. past' \subseteq 1 .. Len(blocks')
    BY <1>2, <1>5, <1>10 DEF C!TypeOK
  <2>2. registry' \in [disposition : C!Dispositions, block : Nat, incident : Nat]
    BY <1>9, <1>10
  <2> QED
    BY <1>1, <1>2, <1>5, <1>10, <1>11, <2>1, <2>2 DEF C!TypeOK
<1>13. C!OneActiveBlock'
  BY <1>6, <1>7 DEF CommandsInv, Sound, C!OneActiveBlock
<1>14. C!PointerIsActive'
  BY <1>2, <1>4, <1>6, <1>7, <1>8, <1>9, <1>10, UpsertedRow DEF CommandsInv, Sound, C!PointerIsActive
<1>15. C!ShownHasRecord'
  BY <1>1, <1>2, <1>8, <1>9, <1>10, UpsertedRow DEF CommandsInv, Sound, C!ShownHasRecord
<1> QED
  BY <1>11, <1>12, <1>13, <1>14, <1>15 DEF CommandsInv, Sound

\* A transaction of s that ends without touching the blocks or the pointer keeps the
\* invariant if what the registry then shows has its record.
LEMMA EndsWithoutBlock ==
    ASSUME CommandsInv, NEW s \in Sessions,
           session' = [session EXCEPT ![s] = C!Idle],
           holder' = IF holder = s THEN Nobody ELSE holder,
           incidents' \in Seq(IncidentStatuses), Len(incidents) <= Len(incidents)',
           registry' \in [disposition : C!Dispositions, block : Nat, incident : Nat],
           registry'.block = registry.block,
           events' \subseteq Keys \X {"done", "rejected"}, repeated' \in BOOLEAN,
           C!ShownHasRecord',
           UNCHANGED <<blocks, past, commands, changes>>
    PROVE  CommandsInv'
<1>1. C!Active' = C!Active
  BY DEF C!Active
<1>2. /\ Len(blocks) <= Len(blocks)' /\ Len(blocks)' \in Nat /\ Len(incidents)' \in Nat
  BY DEF CommandsInv, C!TypeOK
<1>3. /\ session' \in [Sessions -> C!Transactions] /\ holder' \in Sessions \cup {Nobody}
      /\ Holding' /\ ReadsExist' /\ FoundIsActive'
  BY <1>1, <1>2, Ending
<1>4. C!TypeOK'
  BY <1>3 DEF CommandsInv, C!TypeOK, BlockStatuses, IncidentStatuses
<1>5. C!OneActiveBlock' /\ C!PointerIsActive'
  BY <1>1 DEF CommandsInv, Sound, C!OneActiveBlock, C!PointerIsActive
<1> QED
  BY <1>3, <1>4, <1>5 DEF CommandsInv, Sound

\* The same for a commit that records disposition d, other than blocklist_tracked, without
\* touching either table.
LEMMA CommitsDisposition ==
    ASSUME CommandsInv, NEW s \in Sessions, NEW key \in Keys \X {"done", "rejected"},
           NEW d \in C!Dispositions \ {"blocklist_tracked", "escalated"},
           NEW r \in [disposition : C!Dispositions, block : Nat, incident : Nat],
           r.block = registry.block, r.incident = registry.incident,
           r.disposition \in {registry.disposition, "observed"},
           C!Commits(s, key, r) \/ C!Commits(s, key, C!Appended(r, key, d, 0, 0)),
           UNCHANGED <<blocks, incidents>>
    PROVE  CommandsInv'
<1>1. C!TypeOK /\ incidents \in Seq(IncidentStatuses) /\ Len(incidents) \in Nat
  BY DEF CommandsInv, C!TypeOK, BlockStatuses, IncidentStatuses
<1>2. /\ registry' \in {r, C!Appended(r, key, d, 0, 0)}
      /\ repeated' = (repeated \/ key \in events) /\ repeated' \in BOOLEAN
      /\ events' \subseteq Keys \X {"done", "rejected"}
      /\ session' = [session EXCEPT ![s] = C!Idle]
      /\ holder' = IF holder = s THEN Nobody ELSE holder
      /\ UNCHANGED <<past, commands, changes>>
  BY <1>1, CommitsTypes
<1>3. /\ registry' \in [disposition : C!Dispositions, block : Nat, incident : Nat]
      /\ registry'.block = registry.block /\ registry'.incident = registry.incident
      /\ registry'.disposition \in {registry.disposition, "observed", d}
  BY <1>2 DEF C!Appended
<1>4. C!ShownHasRecord'
  BY <1>2, <1>3 DEF CommandsInv, Sound, C!ShownHasRecord
<1>5. /\ incidents' \in Seq(IncidentStatuses) /\ Len(incidents) <= Len(incidents)'
      /\ UNCHANGED <<blocks, past, commands, changes>>
  BY <1>1, <1>2
<1> QED
  BY <1>2, <1>3, <1>4, <1>5, EndsWithoutBlock

LEMMA MonitorKeeps ==
    ASSUME CommandsInv, NEW s \in Sessions, C!Monitor(s) \/ C!NoteOrReject(s) \/ C!Stop(s)
    PROVE  CommandsInv'
<1>1. C!TypeOK /\ session[s].at # "idle" /\ UNCHANGED <<blocks, incidents>>
  BY DEF CommandsInv, C!Monitor, C!NoteOrReject, C!Stop
<1>2. session[s].key \in Keys
  BY <1>1, KeyType
<1>3. C!Done(s) \in Keys \X {"done", "rejected"} /\ <<session[s].key, "rejected">> \in Keys \X {"done", "rejected"}
  BY <1>2 DEF C!Done
<1>4. /\ C!Upserted \in [disposition : C!Dispositions, block : Nat, incident : Nat]
      /\ C!Upserted.block = registry.block /\ C!Upserted.incident = registry.incident
      /\ C!Upserted.disposition \in {registry.disposition, "observed"}
  BY <1>1, UpsertedRow
<1>5. registry \in [disposition : C!Dispositions, block : Nat, incident : Nat]
  BY <1>1 DEF C!TypeOK
<1>6. {"monitored", "removed", "rejected"} \subseteq C!Dispositions \ {"blocklist_tracked", "escalated"}
  BY DEF C!Dispositions
<1>7. CASE C!Monitor(s)
  <2>1. C!Commits(s, C!Done(s), C!Appended(C!Upserted, C!Done(s), "monitored", 0, 0))
    BY <1>7 DEF C!Monitor
  <2> QED
    BY <1>1, <1>3, <1>4, <1>6, <2>1, CommitsDisposition
<1>8. CASE C!Stop(s)
  <2>1. C!Commits(s, C!Done(s), C!Appended(registry, C!Done(s), "removed", 0, 0))
    BY <1>8 DEF C!Stop
  <2> QED
    BY <1>1, <1>3, <1>5, <1>6, <2>1, CommitsDisposition
<1>9. CASE C!NoteOrReject(s)
  <2>1. CASE C!Commits(s, C!Done(s), C!Upserted)
    BY <1>1, <1>3, <1>4, <1>6, <2>1, CommitsDisposition
  <2>2. CASE C!Commits(s, <<session[s].key, "rejected">>,
                     C!Appended(C!Upserted, <<session[s].key, "rejected">>, "rejected", 0, 0))
    BY <1>1, <1>3, <1>4, <1>6, <2>2, CommitsDisposition
  <2> QED
    BY <1>9, <2>1, <2>2 DEF C!NoteOrReject
<1> QED
  BY <1>7, <1>8, <1>9

LEMMA EscalateKeeps ==
    ASSUME CommandsInv, NEW s \in Sessions, C!Escalate(s)
    PROVE  CommandsInv'
<1> DEFINE read == session[s].seen
           id == IF read = 0 THEN Len(incidents) + 1 ELSE read
           r == C!Appended(C!Upserted, C!Done(s), "escalated", 0, id)
<1>1. /\ session[s].at = "locked" /\ session[s].action = "flag_high_priority"
      /\ C!Commits(s, C!Done(s), r) /\ blocks' = blocks
      /\ incidents' = IF read = 0 THEN Append(incidents, "open") ELSE incidents
  BY DEF C!Escalate
<1>2. C!TypeOK /\ incidents \in Seq(IncidentStatuses) /\ Len(incidents) \in Nat
  BY DEF CommandsInv, C!TypeOK, BlockStatuses, IncidentStatuses
<1>3. read \in 0 .. Len(incidents)
  BY <1>1 DEF CommandsInv, ReadsExist
<1>4. C!Done(s) \in Keys \X {"done", "rejected"}
  BY <1>1, <1>2, KeyType DEF C!Done
<1>5. /\ incidents' \in Seq(IncidentStatuses) /\ Len(incidents') \in Nat
      /\ Len(incidents) <= Len(incidents') /\ id \in 1 .. Len(incidents')
  <2>1. CASE read = 0
    <3>1. /\ Append(incidents, "open") \in Seq(IncidentStatuses)
          /\ Len(Append(incidents, "open")) = Len(incidents) + 1
      BY <1>2, Grown, "open" \in IncidentStatuses DEF IncidentStatuses
    <3> QED
      BY <1>1, <1>2, <2>1, <3>1
  <2>2. CASE read # 0
    BY <1>1, <1>2, <1>3, <2>2
  <2> QED
    BY <2>1, <2>2
<1>6. /\ registry' = r /\ repeated' \in BOOLEAN
      /\ repeated' = (repeated \/ C!Done(s) \in events)
      /\ events' \subseteq Keys \X {"done", "rejected"}
      /\ session' = [session EXCEPT ![s] = C!Idle]
      /\ holder' = IF holder = s THEN Nobody ELSE holder
      /\ UNCHANGED <<past, commands, changes>>
  BY <1>1, <1>2, <1>4, CommitsTypes
<1>7. /\ C!Upserted \in [disposition : C!Dispositions, block : Nat, incident : Nat]
      /\ C!Upserted.block = registry.block /\ C!Upserted.incident = registry.incident
      /\ C!Upserted.disposition \in {registry.disposition, "observed"}
  BY <1>2, UpsertedRow
<1>8. /\ r \in [disposition : C!Dispositions, block : Nat, incident : Nat] /\ r.block = registry.block
      /\ r = C!Upserted \/ (r.disposition = "escalated" /\ r.incident = id)
  <2>1. id \in Nat /\ id # 0 /\ "escalated" \in C!Dispositions
    BY <1>5 DEF C!Dispositions
  <2> HIDE DEF id
  <2>2. CASE C!Done(s) \in events
    <3>1. r = C!Upserted
      BY <2>2 DEF C!Appended
    <3> HIDE DEF r
    <3> QED
      BY <1>7, <3>1
  <2>3. CASE C!Done(s) \notin events
    <3>1. r = [disposition |-> "escalated", block |-> C!Upserted.block, incident |-> id]
      BY <2>1, <2>3 DEF C!Appended
    <3> QED
      BY <1>7, <2>1, <3>1
  <2> QED
    BY <2>2, <2>3
<1>9. C!ShownHasRecord'
  <2>1. CASE r = C!Upserted
    <3>1. /\ registry'.block = registry.block /\ registry'.incident = registry.incident
          /\ registry'.disposition \in {registry.disposition, "observed"}
      BY <1>6, <1>7, <2>1
    <3>2. 1 .. Len(incidents) \subseteq 1 .. Len(incidents')
      BY <1>2, <1>5
    <3>3. ~repeated' => ~repeated
      BY <1>6
    <3> QED
      BY <3>1, <3>2, <3>3 DEF CommandsInv, Sound, C!ShownHasRecord
  <2>2. CASE r.disposition = "escalated" /\ r.incident = id
    BY <1>5, <1>6, <2>2 DEF C!ShownHasRecord
  <2> QED
    BY <1>8, <2>1, <2>2
<1>10. registry' \in [disposition : C!Dispositions, block : Nat, incident : Nat] /\ registry'.block = registry.block
  BY <1>6, <1>8
<1>11. UNCHANGED <<blocks, past, commands, changes>> /\ Len(incidents) <= Len(incidents)'
  BY <1>1, <1>5, <1>6
<1> QED
  BY <1>5, <1>6, <1>9, <1>10, <1>11, EndsWithoutBlock

LEMMA RemoveKeeps ==
    ASSUME CommandsInv, NEW s \in Sessions, C!Remove(s)
    PROVE  CommandsInv'
<1> DEFINE read == session[s].seen
           r == C!Removed(C!Appended(C!Upserted, C!Done(s), "removed", read, 0))
<1>1. /\ session[s].at = "locked" /\ session[s].action = "remove_tracking" /\ incidents' = incidents
  BY DEF C!Remove
<1>2. /\ C!TypeOK /\ incidents \in Seq(IncidentStatuses) /\ Len(incidents) \in Nat
      /\ blocks \in Seq(BlockStatuses) /\ Len(blocks) \in Nat
  BY DEF CommandsInv, C!TypeOK, BlockStatuses, IncidentStatuses
<1>3. read \in 0 .. Len(blocks) /\ holder = s
  BY <1>1 DEF CommandsInv, ReadsExist, Holding
<1>4. /\ C!Upserted \in [disposition : C!Dispositions, block : Nat, incident : Nat]
      /\ C!Upserted.block = registry.block /\ C!Upserted.incident = registry.incident
      /\ C!Upserted.disposition \in {registry.disposition, "observed"}
  BY <1>2, UpsertedRow
<1>5. CASE read = 0
  <2>1. /\ registry' = C!Upserted /\ holder' = Nobody /\ session' = [session EXCEPT ![s] = C!Idle]
        /\ UNCHANGED <<blocks, past, events, commands, changes, repeated>>
    BY <1>5 DEF C!Remove
  <2>2. C!ShownHasRecord'
    BY <1>1, <1>2, <1>4, <2>1 DEF CommandsInv, Sound, C!ShownHasRecord
  <2>3. /\ holder' = IF holder = s THEN Nobody ELSE holder
        /\ incidents' \in Seq(IncidentStatuses) /\ Len(incidents) <= Len(incidents)'
        /\ registry' \in [disposition : C!Dispositions, block : Nat, incident : Nat]
        /\ registry'.block = registry.block
        /\ events' \subseteq Keys \X {"done", "rejected"} /\ repeated' \in BOOLEAN
    BY <1>1, <1>2, <1>3, <1>4, <2>1 DEF C!TypeOK
  <2> QED
    BY <2>1, <2>2, <2>3, EndsWithoutBlock
<1>6. CASE read # 0
  <2>1. C!Commits(s, C!Done(s), r) /\ blocks' = [blocks EXCEPT ![read] = "removed"]
    BY <1>6 DEF C!Remove
  <2>2. C!Done(s) \in Keys \X {"done", "rejected"}
    BY <1>1, <1>2, KeyType DEF C!Done
  <2>3. /\ registry' = r /\ repeated' = (repeated \/ C!Done(s) \in events) /\ repeated' \in BOOLEAN
        /\ events' \subseteq Keys \X {"done", "rejected"}
        /\ session' = [session EXCEPT ![s] = C!Idle]
        /\ holder' = IF holder = s THEN Nobody ELSE holder
        /\ UNCHANGED <<past, commands, changes>>
    BY <1>2, <2>1, <2>2, CommitsTypes
  <2>4. /\ r \in [disposition : C!Dispositions, block : Nat, incident : Nat] /\ r.block = 0
        /\ r.incident = registry.incident
        /\ r.disposition \in {registry.disposition, "observed", "removed"}
        /\ C!Done(s) \in events \/ r.disposition = "removed"
    <3>1. "removed" \in C!Dispositions /\ read \in Nat
      BY <1>2, <1>3 DEF C!Dispositions
    <3>2. CASE C!Done(s) \in events
      BY <1>4, <3>1, <3>2 DEF C!Appended, C!Removed
    <3>3. CASE C!Done(s) \notin events
      <4>1. C!Appended(C!Upserted, C!Done(s), "removed", read, 0)
              = [disposition |-> "removed", block |-> read, incident |-> C!Upserted.incident]
        BY <1>6, <3>3 DEF C!Appended
      <4> QED
        BY <1>4, <3>1, <4>1 DEF C!Removed
    <3> QED
      BY <3>2, <3>3
  <2>5. /\ blocks' \in Seq(BlockStatuses) /\ Len(blocks') = Len(blocks)
        /\ \A j \in 1 .. Len(blocks) : blocks'[j] = IF j = read THEN "removed" ELSE blocks[j]
    <3>1. read \in 1 .. Len(blocks)
      BY <1>2, <1>3, <1>6
    <3> HIDE DEF read
    <3> QED
      BY <1>2, <2>1, <3>1, "removed" \in BlockStatuses, ExceptSeq DEF BlockStatuses
  <2>6. C!Active' \subseteq C!Active
    BY <1>2, <2>5 DEF C!Active
  <2>7. /\ Len(blocks) <= Len(blocks)' /\ Len(blocks)' \in Nat
        /\ Len(incidents) <= Len(incidents)' /\ Len(incidents)' \in Nat
        /\ session[s].at \in {"locked", "found"}
    BY <1>1, <1>2, <2>5
  <2>8. /\ session' \in [Sessions -> C!Transactions] /\ holder' \in Sessions \cup {Nobody}
        /\ Holding' /\ ReadsExist' /\ FoundIsActive'
    BY <2>3, <2>7, Ending
  <2>9. C!TypeOK'
    <3>1. past' \subseteq 1 .. Len(blocks') /\ incidents' = incidents
      BY <1>1, <1>2, <2>3, <2>5 DEF C!TypeOK
    <3>2. registry' \in [disposition : C!Dispositions, block : Nat, incident : Nat]
      BY <2>3, <2>4
    <3> QED
      BY <1>2, <2>3, <2>5, <2>8, <3>1, <3>2 DEF C!TypeOK
  <2>10. C!OneActiveBlock' /\ C!PointerIsActive'
    BY <2>3, <2>4, <2>6 DEF CommandsInv, Sound, C!OneActiveBlock, C!PointerIsActive
  <2>11. C!ShownHasRecord'
    <3>1. /\ registry'.incident = registry.incident
          /\ registry'.disposition \in {registry.disposition, "observed", "removed"}
          /\ repeated' \/ registry'.disposition = "removed"
      BY <2>3, <2>4
    <3> QED
      BY <1>1, <3>1 DEF CommandsInv, Sound, C!ShownHasRecord
  <2> QED
    BY <2>8, <2>9, <2>10, <2>11 DEF CommandsInv, Sound
<1> QED
  BY <1>5, <1>6

LEMMA UnneededKeeps ==
    ASSUME CommandsInv, NEW s \in Sessions, C!Unneeded(s)
    PROVE  CommandsInv'
<1>1. /\ session[s].at = "looked" /\ registry' = C!Upserted
      /\ session' = [session EXCEPT ![s] = C!Idle]
      /\ UNCHANGED <<blocks, past, incidents, events, holder, commands, changes, repeated>>
  BY DEF C!Unneeded
<1>2. /\ C!TypeOK /\ incidents \in Seq(IncidentStatuses) /\ Len(incidents) \in Nat
      /\ Len(blocks) \in Nat
  BY DEF CommandsInv, C!TypeOK, BlockStatuses, IncidentStatuses
<1>3. /\ C!Upserted \in [disposition : C!Dispositions, block : Nat, incident : Nat]
      /\ C!Upserted.block = registry.block /\ C!Upserted.incident = registry.incident
      /\ C!Upserted.disposition \in {registry.disposition, "observed"}
  BY <1>2, UpsertedRow
<1>4. session \in [Sessions -> C!Transactions] /\ C!Idle \in C!Transactions /\ C!Idle.at = "idle"
  BY <1>2 DEF C!TypeOK, C!Transactions, C!Idle
<1>5. session'[s] = C!Idle /\ \A t \in Sessions \ {s} : session'[t] = session[t]
  BY <1>1, <1>4
<1>6. C!Active' = C!Active
  BY <1>1 DEF C!Active
<1>7. C!TypeOK'
  BY <1>1, <1>2, <1>3, <1>4 DEF C!TypeOK
<1>8. Holding' /\ ReadsExist'
  BY <1>1, <1>4, <1>5 DEF CommandsInv, Holding, ReadsExist
<1>9. FoundIsActive'
  BY <1>4, <1>5, <1>6 DEF CommandsInv, FoundIsActive
<1>10. C!OneActiveBlock' /\ C!PointerIsActive'
  BY <1>1, <1>3, <1>6 DEF CommandsInv, Sound, C!OneActiveBlock, C!PointerIsActive
<1>11. C!ShownHasRecord'
  BY <1>1, <1>2, <1>3 DEF CommandsInv, Sound, C!ShownHasRecord
<1> QED
  BY <1>7, <1>8, <1>9, <1>10, <1>11 DEF CommandsInv, Sound

LEMMA AbortKeeps ==
    ASSUME CommandsInv, NEW s \in Sessions, C!Abort(s)
    PROVE  CommandsInv'
<1>1. /\ holder' = IF holder = s THEN Nobody ELSE holder
      /\ session' = [session EXCEPT ![s] = C!Idle]
      /\ UNCHANGED <<registry, blocks, past, incidents, events, commands, changes, repeated>>
  BY DEF C!Abort
<1>2. C!ShownHasRecord'
  BY <1>1 DEF CommandsInv, Sound, C!ShownHasRecord
<1>3. /\ incidents' \in Seq(IncidentStatuses) /\ Len(incidents) <= Len(incidents)'
      /\ registry' \in [disposition : C!Dispositions, block : Nat, incident : Nat]
      /\ registry'.block = registry.block
      /\ events' \subseteq Keys \X {"done", "rejected"} /\ repeated' \in BOOLEAN
  BY <1>1 DEF CommandsInv, C!TypeOK, BlockStatuses, IncidentStatuses
<1> QED
  BY <1>1, <1>2, <1>3, EndsWithoutBlock

\* Time and the operators' incident changes leave the registry and the blocks alone.
LEMMA WorldKeeps ==
    ASSUME CommandsInv,
           \/ C!Expire
           \/ \E i \in DOMAIN incidents, status \in {"open", "resolved", "closed"} :
                 C!ChangeIncident(i, status)
    PROVE  CommandsInv'
<1>1. UNCHANGED <<registry, blocks, events, holder, session, commands, repeated>>
  BY DEF C!Expire, C!ChangeIncident
<1>2. /\ incidents \in Seq(IncidentStatuses) /\ Len(incidents) \in Nat /\ Len(blocks) \in Nat
      /\ past \subseteq 1 .. Len(blocks) /\ changes \in 0 .. MaxChanges
  BY DEF CommandsInv, C!TypeOK, BlockStatuses, IncidentStatuses
<1>3. /\ incidents' \in Seq(IncidentStatuses) /\ Len(incidents') = Len(incidents)
      /\ past' \subseteq 1 .. Len(blocks) /\ changes' \in 0 .. MaxChanges
  <2>1. CASE C!Expire
    BY <1>2, <2>1 DEF C!Expire
  <2>2. ASSUME NEW i \in DOMAIN incidents, NEW status \in {"open", "resolved", "closed"},
               C!ChangeIncident(i, status)
        PROVE  /\ incidents' \in Seq(IncidentStatuses) /\ Len(incidents') = Len(incidents)
               /\ past' \subseteq 1 .. Len(blocks) /\ changes' \in 0 .. MaxChanges
    <3>1. i \in 1 .. Len(incidents) /\ status \in IncidentStatuses
      BY <1>2 DEF IncidentStatuses
    <3>2. incidents' = [incidents EXCEPT ![i] = status] /\ past' = past /\ changes' \in 0 .. MaxChanges
      BY <1>2, <2>2, CommandsAssumption DEF C!ChangeIncident
    <3>3. incidents' \in Seq(IncidentStatuses) /\ Len(incidents') = Len(incidents)
      BY <1>2, <3>1, <3>2, ExceptSeq
    <3> QED
      BY <1>2, <3>2, <3>3
  <2> QED
    BY <2>1, <2>2
<1>4. C!TypeOK'
  BY <1>1, <1>3 DEF CommandsInv, C!TypeOK, BlockStatuses, IncidentStatuses
<1>5. C!Active' = C!Active
  BY <1>1 DEF C!Active
<1>6. Holding' /\ ReadsExist' /\ FoundIsActive'
  BY <1>1, <1>3, <1>5 DEF CommandsInv, Holding, ReadsExist, FoundIsActive
<1>7. Sound'
  BY <1>1, <1>3, <1>5 DEF CommandsInv, Sound, C!OneActiveBlock, C!PointerIsActive, C!ShownHasRecord
<1> QED
  BY <1>4, <1>6, <1>7 DEF CommandsInv

\* The inductive invariant holds in every reachable state, for any sessions, keys and bounds.
THEOREM CommandsInductive == C!Spec => []CommandsInv
<1>1. C!Init => CommandsInv
  <2> SUFFICES ASSUME C!Init PROVE CommandsInv
    OBVIOUS
  <2>1. C!TypeOK
    <3>1. C!Idle \in C!Transactions
      BY DEF C!Transactions
    <3>2. session \in [Sessions -> C!Transactions] /\ holder \in Sessions \cup {Nobody}
      BY <3>1 DEF C!Init
    <3>3. registry \in [disposition : C!Dispositions, block : Nat, incident : Nat]
      BY DEF C!Init, C!Dispositions
    <3>4. /\ blocks \in Seq({"active", "removed"}) /\ past \subseteq 1 .. Len(blocks)
          /\ incidents \in Seq({"open", "resolved", "closed"})
      BY DEF C!Init
    <3>5. events \subseteq Keys \X {"done", "rejected"} /\ repeated \in BOOLEAN
      BY DEF C!Init
    <3>6. commands \in 0 .. MaxCommands /\ changes \in 0 .. MaxChanges
      BY CommandsAssumption DEF C!Init
    <3> QED
      BY <3>2, <3>3, <3>4, <3>5, <3>6 DEF C!TypeOK
  <2>2. C!Active = {}
    BY DEF C!Init, C!Active
  <2>3. Holding /\ ReadsExist /\ FoundIsActive
    BY DEF C!Init, C!Idle, Holding, ReadsExist, FoundIsActive
  <2>4. Sound
    BY <2>2 DEF C!Init, Sound, C!OneActiveBlock, C!PointerIsActive, C!ShownHasRecord
  <2> QED
    BY <2>1, <2>3, <2>4 DEF CommandsInv
<1>2. CommandsInv /\ [C!Next]_C!vars => CommandsInv'
  <2> SUFFICES ASSUME CommandsInv, [C!Next]_C!vars PROVE CommandsInv'
    OBVIOUS
  <2>1. CASE UNCHANGED C!vars
    BY <2>1 DEF C!vars, CommandsInv, C!TypeOK, Holding, ReadsExist, FoundIsActive, Sound, C!OneActiveBlock,
                C!PointerIsActive, C!ShownHasRecord, C!Active
  <2>2. ASSUME NEW s \in Sessions, C!Step(s) PROVE CommandsInv'
    BY <2>2, LookKeeps, LockKeeps, FindKeeps, BlockKeeps, MonitorKeeps, EscalateKeeps, RemoveKeeps,
       UnneededKeeps, AbortKeeps DEF C!Step
  <2> QED
    BY <2>1, <2>2, WorldKeeps DEF C!Next
<1> QED
  BY <1>1, <1>2, PTL DEF C!Spec

\* Type correctness of the rows and of the sessions' local state.
THEOREM CommandsTypeCorrect == C!Spec => []C!TypeOK
  BY CommandsInductive, PTL DEF CommandsInv

\* The registry row's lock alone keeps two active blocks of the IP apart.
THEOREM BlockIsUnique == C!Spec => []OneActiveBlock
<1>1. CommandsInv => OneActiveBlock
  BY DEF CommandsInv, Sound, C!OneActiveBlock, C!Active, OneActiveBlock, Active
<1> QED
  BY <1>1, CommandsInductive, PTL

\* The registry never points at a block that was removed.
THEOREM PointersAreActive == C!Spec => []C!PointerIsActive
<1>1. CommandsInv => C!PointerIsActive
  BY DEF CommandsInv, Sound
<1> QED
  BY <1>1, CommandsInductive, PTL

\* What the registry shows has its incident or its block, unless a key was repeated.
THEOREM WhatIsShownExists == C!Spec => []ShownHasRecord
<1>1. CommandsInv => ShownHasRecord
  BY DEF CommandsInv, Sound, C!ShownHasRecord, ShownHasRecord
<1> QED
  BY <1>1, CommandsInductive, PTL

-----------------------------------------------------------------------------
(***************************************************************************)
(* The executions playbooks trigger (PlaybookSteps, P), for every set of    *)
(* playbooks and definitions, every bound on the chain and any workers.     *)
(***************************************************************************)

\* A sequence, of whatever it holds.
IsList(s) == \E D : s \in Seq(D)

RunFields == {"book", "alert", "status", "log", "last", "ask", "parent", "depth"}
PassFields == {"of", "draft", "at", "log", "last", "failed", "born"}

\* t is the chain of executions from e to the one an alert or an analyst started, as long as e's
\* depth says, and no playbook comes twice along it.
Climbs(t, e) ==
    /\ DOMAIN t = 0 .. run[e].depth
    /\ t[0] = e /\ run[t[run[e].depth]].parent = None
    /\ \A j \in 0 .. run[e].depth : t[j] \in DOMAIN run
    /\ \A j \in 0 .. run[e].depth - 1 : run[t[j]].parent = t[j + 1]
    /\ \A i, j \in 0 .. run[e].depth : i < j => run[t[i]].book # run[t[j]].book

IsRoot(r) == DOMAIN r = RunFields /\ r.parent = None /\ r.depth = 0

\* r is an execution p may trigger: behind p by one, and of a playbook p's chain does not have.
IsChild(r, p) ==
    /\ DOMAIN r = RunFields /\ r.parent = p /\ p \in DOMAIN run
    /\ r.depth = run[p].depth + 1 /\ r.depth <= MaxChainDepth
    /\ \E t \in [0 .. run[p].depth -> DOMAIN run] : Climbs(t, p) /\ \A j \in 0 .. run[p].depth : run[t[j]].book # r.book

RunFits(e) ==
    /\ DOMAIN run[e] = RunFields /\ run[e].depth \in 0 .. MaxChainDepth /\ run[e].depth < e
    /\ \E t \in [0 .. run[e].depth -> DOMAIN run] : Climbs(t, e)

\* What a worker's open transaction triggered are children of the execution it works on.
PassFits(p) ==
    /\ DOMAIN p = PassFields /\ p.of \in DOMAIN run /\ IsList(p.born)
    /\ \A i \in DOMAIN p.born : IsChild(p.born[i], p.of)

ChainInv ==
    /\ IsList(run) /\ \A e \in DOMAIN run : RunFits(e)
    /\ DOMAIN pass = Workers /\ \A w \in Workers : pass[w] # None => PassFits(pass[w])

-----------------------------------------------------------------------------
\* A set of naturals has a least element.
LEMMA LeastExists == ASSUME NEW D \in SUBSET Nat, D # {} PROVE \E m \in D : \A n \in D : m <= n
<1> DEFINE less == OpToRel(<, Nat)
<1>0. IsWellFoundedOn(less, Nat)
  BY NatLessThanWellFounded, Zenon
<1>1. \A m, n \in Nat : m < n => <<m, n>> \in less
  BY Zenon DEF OpToRel
<1> HIDE DEF less
<1>2. PICK m \in D : \A n \in D : ~(<<n, m>> \in less)
  BY <1>0, WFMin
<1>3. \A n \in D : ~(n < m)
  BY <1>1, <1>2
<1> QED
  BY <1>3

\* The ancestors of e within n steps of its chain.
Hops(e, n) ==
    LET t == CHOOSE t \in [0 .. run[e].depth -> DOMAIN run] : Climbs(t, e)
    IN  {t[j] : j \in 1 .. IF n < run[e].depth THEN n ELSE run[e].depth}

\* One more step adds the parents of what there is.
LEMMA HopAdds ==
    ASSUME ChainInv, NEW e \in DOMAIN run, NEW n \in Nat
    PROVE  /\ Hops(e, 0) = {}
           /\ Hops(e, n + 1) = Hops(e, n) \cup ({run[x].parent : x \in Hops(e, n) \cup {e}} \ {None})
<1> DEFINE t == CHOOSE u \in [0 .. run[e].depth -> DOMAIN run] : Climbs(u, e)
           d == run[e].depth
           Upto(m) == IF m < d THEN m ELSE d
<1>1. d \in Nat /\ DOMAIN run \subseteq Nat
  <2>1. \A D : run \in Seq(D) => DOMAIN run \subseteq Nat
    OBVIOUS
  <2> QED
    BY <2>1, ChainAssumption DEF ChainInv, RunFits, IsList
<1>2. Climbs(t, e)
  BY DEF ChainInv, RunFits
<1>3. \A m : Hops(e, m) = {t[j] : j \in 1 .. Upto(m)}
  BY DEF Hops
<1> HIDE DEF t
<1>4. /\ t[0] = e /\ run[t[d]].parent = None
      /\ \A j \in 0 .. d : t[j] \in DOMAIN run
      /\ \A j \in 0 .. d - 1 : run[t[j]].parent = t[j + 1]
  BY <1>2 DEF Climbs
<1> HIDE DEF d
<1>5. Hops(e, 0) = {}
  BY <1>1, <1>3
<1>6. \A j \in 0 .. Upto(n) : j = 0 \/ t[j] \in Hops(e, n)
  BY <1>1, <1>3
<1>7. ASSUME NEW x \in Hops(e, n + 1) PROVE x \in Hops(e, n) \cup ({run[y].parent : y \in Hops(e, n) \cup {e}} \ {None})
  <2>1. PICK j \in 1 .. Upto(n + 1) : x = t[j]
    BY <1>3
  <2>2. j - 1 \in 0 .. Upto(n) /\ j - 1 \in 0 .. d - 1 /\ j - 1 + 1 = j /\ j \in 0 .. d
    BY <1>1
  <2>3. run[t[j - 1]].parent = x
    BY <1>4, <2>1, <2>2
  <2>4. t[j - 1] \in Hops(e, n) \cup {e}
    BY <1>4, <1>6, <2>2
  <2>5. x # None
    BY <1>1, <1>4, <2>1, <2>2, ChainAssumption
  <2> QED
    BY <2>3, <2>4, <2>5
<1>8. ASSUME NEW y \in Hops(e, n) \cup {e}, run[y].parent # None PROVE run[y].parent \in Hops(e, n + 1)
  <2>1. PICK j \in 0 .. Upto(n) : y = t[j]
    <3>1. 0 \in 0 .. Upto(n)
      BY <1>1
    <3>2. y = e => y = t[0]
      BY <1>4
    <3>3. y \in Hops(e, n) => \E j \in 1 .. Upto(n) : y = t[j]
      BY <1>3
    <3> QED
      BY <3>1, <3>2, <3>3
  <2>2. j # d
    BY <1>4, <1>8, <2>1
  <2>3. j \in 0 .. d - 1 /\ j + 1 \in 1 .. Upto(n + 1)
    BY <1>1, <2>2
  <2>4. run[y].parent = t[j + 1]
    BY <1>4, <2>1, <2>3
  <2> QED
    BY <1>3, <2>3, <2>4
<1>9. Hops(e, n) \subseteq Hops(e, n + 1)
  <2>1. 1 .. Upto(n) \subseteq 1 .. Upto(n + 1)
    BY <1>1
  <2> QED
    BY <1>3, <2>1
<1> QED
  BY <1>5, <1>7, <1>8, <1>9

\* The chain the code walks, at most so many hops, is the chain as far as it is walked.
LEMMA ChainIsHops ==
    ASSUME ChainInv, NEW e \in DOMAIN run
    PROVE  P!AncestorChain(e) = Hops(e, MaxChainDepth)
<1> DEFINE M == MaxChainDepth
           Next1(f, n) == f[n - 1] \cup ({run[x].parent : x \in f[n - 1] \cup {e}} \ {None})
           Up == CHOOSE f : f = [n \in 0 .. M |-> IF n = 0 THEN {} ELSE Next1(f, n)]
           g == [n \in 0 .. M |-> Hops(e, n)]
<1>1. P!AncestorChain(e) = Up[M]
  BY DEF P!AncestorChain
<1>2. g = [n \in 0 .. M |-> IF n = 0 THEN {} ELSE Next1(g, n)]
  <2>1. ASSUME NEW n \in 0 .. M PROVE g[n] = IF n = 0 THEN {} ELSE Next1(g, n)
    <3>1. CASE n = 0
      BY <3>1, HopAdds
    <3>2. CASE n # 0
      <4>1. n - 1 \in Nat /\ n - 1 \in 0 .. M /\ n - 1 + 1 = n
        BY <3>2, ChainAssumption
      <4>2. Hops(e, n) = Hops(e, n - 1) \cup ({run[x].parent : x \in Hops(e, n - 1) \cup {e}} \ {None})
        BY <4>1, HopAdds
      <4> QED
        BY <3>2, <4>1, <4>2
    <3> QED
      BY <3>1, <3>2
  <2> QED
    BY <2>1
<1>3. Up = [n \in 0 .. M |-> IF n = 0 THEN {} ELSE Next1(Up, n)]
  <2> HIDE DEF g, Next1
  <2> QED
    BY <1>2
<1>4. \A n \in 0 .. M : Up[n] = IF n = 0 THEN {} ELSE Next1(Up, n)
  <2> HIDE DEF Up, Next1
  <2> QED
    BY <1>3
<1> HIDE DEF Up
<1> DEFINE bad == {n \in 0 .. M : Up[n] # Hops(e, n)}
<1>5. bad = {}
  <2> SUFFICES ASSUME bad # {} PROVE FALSE
    OBVIOUS
  <2>1. PICK b \in bad : \A n \in bad : b <= n
    <3>1. bad \in SUBSET Nat
      BY ChainAssumption
    <3> HIDE DEF bad
    <3> QED
      BY <3>1, LeastExists
  <2>2. b # 0
    BY <1>4, <2>1, HopAdds
  <2>3. b \in Nat /\ b - 1 \in Nat /\ b - 1 \in 0 .. M /\ b - 1 + 1 = b /\ b \in 0 .. M /\ ~(b <= b - 1)
    BY <2>1, <2>2, ChainAssumption
  <2>4. Up[b - 1] = Hops(e, b - 1)
    BY <2>1, <2>3
  <2>5. Hops(e, b) = Hops(e, b - 1) \cup ({run[x].parent : x \in Hops(e, b - 1) \cup {e}} \ {None})
    BY <2>3, HopAdds
  <2>6. Up[b] = Next1(Up, b)
    BY <1>4, <2>2, <2>3
  <2> QED
    BY <2>1, <2>4, <2>5, <2>6
<1>6. M \in 0 .. M
  BY ChainAssumption
<1> QED
  BY <1>1, <1>5, <1>6

\* All ancestors, as the property gathers them for every execution at once.
LEMMA AncestryIsHops ==
    ASSUME ChainInv
    PROVE  LET Up[n \in 0 .. Len(run)] == [e \in DOMAIN run |->
                   IF n = 0 THEN {} ELSE Up[n - 1][e] \cup ({run[x].parent : x \in Up[n - 1][e] \cup {e}} \ {None})]
           IN  \A e \in DOMAIN run : Up[Len(run)][e] = Hops(e, Len(run))
<1> DEFINE M == Len(run)
           Next1(f, n, e) == f[n - 1][e] \cup ({run[x].parent : x \in f[n - 1][e] \cup {e}} \ {None})
           Up == CHOOSE f : f = [n \in 0 .. M |-> [e \in DOMAIN run |-> IF n = 0 THEN {} ELSE Next1(f, n, e)]]
           g == [n \in 0 .. M |-> [e \in DOMAIN run |-> Hops(e, n)]]
<1>0. M \in Nat
  <2>1. \A D : run \in Seq(D) => Len(run) \in Nat
    OBVIOUS
  <2> QED
    BY <2>1 DEF ChainInv, IsList
<1> SUFFICES \A e \in DOMAIN run : Up[M][e] = Hops(e, M)
  OBVIOUS
<1> HIDE DEF M
<1>2. g = [n \in 0 .. M |-> [e \in DOMAIN run |-> IF n = 0 THEN {} ELSE Next1(g, n, e)]]
  <2>1. ASSUME NEW n \in 0 .. M, NEW e \in DOMAIN run PROVE g[n][e] = IF n = 0 THEN {} ELSE Next1(g, n, e)
    <3>1. CASE n = 0
      BY <3>1, HopAdds
    <3>2. CASE n # 0
      <4>1. n - 1 \in Nat /\ n - 1 \in 0 .. M /\ n - 1 + 1 = n
        BY <3>2, <1>0
      <4>2. Hops(e, n) = Hops(e, n - 1) \cup ({run[x].parent : x \in Hops(e, n - 1) \cup {e}} \ {None})
        BY <4>1, HopAdds
      <4> QED
        BY <3>2, <4>1, <4>2
    <3> QED
      BY <3>1, <3>2
  <2>2. ASSUME NEW n \in 0 .. M PROVE g[n] = [e \in DOMAIN run |-> IF n = 0 THEN {} ELSE Next1(g, n, e)]
    BY <2>1
  <2> HIDE DEF Next1
  <2>3. g = [n \in 0 .. M |-> g[n]]
    OBVIOUS
  <2> HIDE DEF g
  <2> QED
    BY <2>2, <2>3
<1>3. Up = [n \in 0 .. M |-> [e \in DOMAIN run |-> IF n = 0 THEN {} ELSE Next1(Up, n, e)]]
  <2> HIDE DEF g, Next1
  <2> QED
    BY <1>2
<1>4. \A n \in 0 .. M : \A e \in DOMAIN run : Up[n][e] = IF n = 0 THEN {} ELSE Next1(Up, n, e)
  <2> DEFINE Row(n) == [e \in DOMAIN run |-> IF n = 0 THEN {} ELSE Next1(Up, n, e)]
  <2>1. Up = [n \in 0 .. M |-> Row(n)]
    BY <1>3
  <2> HIDE DEF Up, Next1
  <2>2. ASSUME NEW n \in 0 .. M PROVE \A e \in DOMAIN run : Row(n)[e] = IF n = 0 THEN {} ELSE Next1(Up, n, e)
    OBVIOUS
  <2> HIDE DEF Row
  <2>3. \A n \in 0 .. M : Up[n] = Row(n)
    BY <2>1
  <2> QED
    BY <2>2, <2>3
<1> HIDE DEF Up
<1> SUFFICES ASSUME NEW e \in DOMAIN run PROVE Up[M][e] = Hops(e, M)
  OBVIOUS
<1> DEFINE bad == {n \in 0 .. M : Up[n][e] # Hops(e, n)}
<1>5. bad = {}
  <2> SUFFICES ASSUME bad # {} PROVE FALSE
    OBVIOUS
  <2>1. PICK b \in bad : \A n \in bad : b <= n
    <3>1. bad \in SUBSET Nat
      BY <1>0
    <3> HIDE DEF bad
    <3> QED
      BY <3>1, LeastExists
  <2>2. b # 0
    BY <1>4, <2>1, HopAdds
  <2>3. b \in Nat /\ b - 1 \in Nat /\ b - 1 \in 0 .. M /\ b - 1 + 1 = b /\ b \in 0 .. M /\ ~(b <= b - 1)
    BY <2>1, <2>2, <1>0
  <2>4. Up[b - 1][e] = Hops(e, b - 1)
    BY <2>1, <2>3
  <2>5. Hops(e, b) = Hops(e, b - 1) \cup ({run[x].parent : x \in Hops(e, b - 1) \cup {e}} \ {None})
    BY <2>3, HopAdds
  <2>6. Up[b][e] = Next1(Up, b, e)
    BY <1>4, <2>2, <2>3
  <2> QED
    BY <2>1, <2>4, <2>5, <2>6
<1>6. M \in 0 .. M
  BY <1>0
<1> QED
  BY <1>5, <1>6

\* What the whole chain of an execution holds: as many executions as its depth says, of other playbooks.
LEMMA WholeChain ==
    ASSUME ChainInv, NEW e \in DOMAIN run, NEW n \in Nat, run[e].depth <= n
    PROVE  /\ \A x \in Hops(e, n) : run[x].book # run[e].book
           /\ P!Cardinality(Hops(e, n)) = run[e].depth
           /\ \A t : Climbs(t, e) => \A j \in 1 .. run[e].depth : t[j] \in Hops(e, n)
<1> DEFINE t == CHOOSE u \in [0 .. run[e].depth -> DOMAIN run] : Climbs(u, e)
           d == run[e].depth
<1>1. d \in Nat
  BY ChainAssumption DEF ChainInv, RunFits
<1>2. Climbs(t, e)
  BY DEF ChainInv, RunFits
<1>3. Hops(e, n) = {t[j] : j \in 1 .. d}
  <2>1. (IF n < d THEN n ELSE d) = d
    BY <1>1
  <2> QED
    BY <2>1 DEF Hops
<1> HIDE DEF t
<1>4. \A x \in Hops(e, n) : run[x].book # run[e].book
  BY <1>1, <1>2, <1>3 DEF Climbs
<1>5. P!Cardinality(Hops(e, n)) = d
  <2> DEFINE f == [j \in 1 .. d |-> t[j]]
  <2>1. f \in Bijection(1 .. d, Hops(e, n))
    <3>1. f \in [1 .. d -> Hops(e, n)]
      BY <1>3
    <3>2. \A i, j \in 1 .. d : f[i] = f[j] => i = j
      <4> SUFFICES ASSUME NEW i \in 1 .. d, NEW j \in 1 .. d, i # j PROVE t[i] # t[j]
        OBVIOUS
      <4>1. i < j \/ j < i
        OBVIOUS
      <4> QED
        BY <1>1, <1>2, <4>1 DEF Climbs
    <3>3. \A x \in Hops(e, n) : \E j \in 1 .. d : f[j] = x
      BY <1>3
    <3> HIDE DEF f
    <3> QED
      BY <3>1, <3>2, <3>3 DEF Bijection, Injection, Surjection, IsInjective
  <2>2. IsFiniteSet(1 .. d) /\ Cardinality(1 .. d) = d
    <3>0. 1 \in Int /\ d \in Int
      BY <1>1
    <3> HIDE DEF d
    <3>1. IsFiniteSet(1 .. d) /\ Cardinality(1 .. d) = IF 1 > d THEN 0 ELSE d - 1 + 1
      BY <3>0, FS_Interval
    <3> QED
      BY <1>1, <3>1
  <2>3. Cardinality(Hops(e, n)) = d
    <3>1. ExistsBijection(1 .. d, Hops(e, n))
      BY <2>1 DEF ExistsBijection
    <3> QED
      BY <2>2, <3>1, FS_Bijection
  <2> QED
    BY <2>3 DEF P!Cardinality, Cardinality
<1>6. ASSUME NEW u, Climbs(u, e) PROVE \A j \in 1 .. d : u[j] \in Hops(e, n)
  <2> DEFINE bad == {j \in 0 .. d : u[j] # t[j]}
  <2>1. bad = {}
    <3> SUFFICES ASSUME bad # {} PROVE FALSE
      OBVIOUS
    <3>1. PICK b \in bad : \A j \in bad : b <= j
      <4>1. bad \in SUBSET Nat
        BY <1>1
      <4> HIDE DEF bad
      <4> QED
        BY <4>1, LeastExists
    <3>2. b # 0
      BY <1>2, <1>6, <3>1 DEF Climbs
    <3>3. b - 1 \in 0 .. d - 1 /\ b - 1 \in 0 .. d /\ b - 1 + 1 = b /\ ~(b <= b - 1)
      BY <1>1, <3>1, <3>2
    <3>4. u[b - 1] = t[b - 1]
      BY <3>1, <3>3
    <3>5. run[t[b - 1]].parent = t[b] /\ run[u[b - 1]].parent = u[b]
      BY <1>2, <1>6, <3>3 DEF Climbs
    <3> QED
      BY <3>1, <3>4, <3>5
  <2>2. 1 .. d \subseteq 0 .. d
    BY <1>1
  <2> QED
    BY <1>3, <2>1, <2>2
<1> QED
  BY <1>4, <1>5, <1>6

\* The property follows from the invariant.
LEMMA ChainInvIsEnough == ChainInv => ChainIsAcyclic
<1> SUFFICES ASSUME ChainInv PROVE P!ChainIsAcyclic
  BY DEF ChainIsAcyclic
<1>1. \A e \in DOMAIN run : /\ \A x \in Hops(e, Len(run)) : run[x].book # run[e].book
                            /\ P!Cardinality(Hops(e, Len(run))) = run[e].depth /\ run[e].depth <= MaxChainDepth
  <2> TAKE e \in DOMAIN run
  <2>1. run[e].depth \in Nat /\ run[e].depth <= MaxChainDepth /\ run[e].depth < e
    BY ChainAssumption DEF ChainInv, RunFits
  <2>2. Len(run) \in Nat /\ run[e].depth <= Len(run)
    <3>1. \A D : run \in Seq(D) => Len(run) \in Nat /\ DOMAIN run = 1 .. Len(run)
      OBVIOUS
    <3> QED
      BY <2>1, <3>1 DEF ChainInv, IsList
  <2> QED
    BY <2>1, <2>2, WholeChain
<1> QED
  BY <1>1, AncestryIsHops, Zenon DEF P!ChainIsAcyclic

-----------------------------------------------------------------------------
\* Rows that keep their book, parent and depth keep their chains.
Kept == \A x \in DOMAIN run : /\ x \in DOMAIN run' /\ DOMAIN run'[x] = RunFields
                              /\ run'[x].book = run[x].book /\ run'[x].parent = run[x].parent /\ run'[x].depth = run[x].depth

LEMMA ClimbsOn ==
    ASSUME Kept, NEW e \in DOMAIN run, run[e].depth \in Nat, NEW t, Climbs(t, e)
    PROVE  Climbs(t, e)' /\ DOMAIN t = 0 .. run[e].depth /\ \A j \in 0 .. run[e].depth : t[j] \in DOMAIN run'
<1>1. \A j \in 0 .. run[e].depth : t[j] \in DOMAIN run
  BY DEF Climbs
<1>2. run[e].depth \in 0 .. run[e].depth /\ \A j \in 0 .. run[e].depth - 1 : j \in 0 .. run[e].depth
  OBVIOUS
<1>3. run'[e].depth = run[e].depth
  BY DEF Kept
<1>4. \A j \in 0 .. run[e].depth : /\ t[j] \in DOMAIN run'
                                   /\ run'[t[j]].parent = run[t[j]].parent /\ run'[t[j]].book = run[t[j]].book
  BY <1>1 DEF Kept
<1> QED
  BY <1>2, <1>3, <1>4 DEF Climbs

\* and stay children of what triggered them.
LEMMA ChildStays ==
    ASSUME ChainInv, Kept, NEW r, NEW p, IsChild(r, p)
    PROVE  IsChild(r, p)'
<1>1. p \in DOMAIN run /\ run[p].depth \in Nat
  BY ChainAssumption DEF IsChild, ChainInv, RunFits
<1>2. PICK t \in [0 .. run[p].depth -> DOMAIN run] : Climbs(t, p) /\ \A j \in 0 .. run[p].depth : run[t[j]].book # r.book
  BY DEF IsChild
<1>3. Climbs(t, p)' /\ \A j \in 0 .. run[p].depth : t[j] \in DOMAIN run'
  BY <1>1, <1>2, ClimbsOn
<1>4. run'[p].depth = run[p].depth /\ p \in DOMAIN run' /\ \A j \in 0 .. run[p].depth : run'[t[j]].book = run[t[j]].book
  BY <1>1, <1>2 DEF Kept
<1>5. t \in [0 .. run'[p].depth -> DOMAIN run']
  BY <1>2, <1>3, <1>4
<1>6. \A j \in 0 .. run'[p].depth : run'[t[j]].book # r.book
  BY <1>2, <1>4
<1>7. DOMAIN r = RunFields /\ r.parent = p /\ r.depth = run'[p].depth + 1 /\ r.depth <= MaxChainDepth
  BY <1>4 DEF IsChild
<1> QED
  BY <1>3, <1>4, <1>5, <1>6, <1>7 DEF IsChild

\* A row behind its parent's chain has a chain, and so has one without a parent.
LEMMA ChildClimbs ==
    ASSUME ChainInv, Kept, NEW e \in Nat \ {0}, e \in DOMAIN run', DOMAIN run \subseteq Nat, \A x \in DOMAIN run : x < e,
           IsRoot(run'[e]) \/ \E p : IsChild(run'[e], p)
    PROVE  RunFits(e)'
<1>1. CASE IsRoot(run'[e])
  <2> DEFINE t == [j \in 0 .. 0 |-> e]
  <2>1. DOMAIN run'[e] = RunFields /\ run'[e].depth = 0 /\ run'[e].parent = None
    BY <1>1 DEF IsRoot
  <2>2. t \in [0 .. 0 -> DOMAIN run'] /\ t[0] = e /\ DOMAIN t = 0 .. 0 /\ \A j \in 0 .. 0 : t[j] \in DOMAIN run' /\ j = 0
    OBVIOUS
  <2> HIDE DEF t
  <2>3. Climbs(t, e)'
    BY <2>1, <2>2 DEF Climbs
  <2> QED
    BY <2>1, <2>2, <2>3, ChainAssumption DEF RunFits
<1>2. CASE \E p : IsChild(run'[e], p)
  <2>1. PICK p : IsChild(run'[e], p)
    BY <1>2
  <2> DEFINE d == run[p].depth
  <2>2. /\ DOMAIN run'[e] = RunFields /\ run'[e].parent = p /\ p \in DOMAIN run /\ run'[e].depth = d + 1 /\ d + 1 <= MaxChainDepth
        /\ d \in Nat /\ d < p /\ p < e /\ p \in Nat
    BY <2>1, ChainAssumption DEF IsChild, ChainInv, RunFits
  <2>3. PICK t \in [0 .. d -> DOMAIN run] : Climbs(t, p) /\ \A j \in 0 .. d : run[t[j]].book # run'[e].book
    BY <2>1 DEF IsChild
  <2>4. /\ t[0] = p /\ run[t[d]].parent = None
        /\ \A j \in 0 .. d - 1 : run[t[j]].parent = t[j + 1]
        /\ \A i, j \in 0 .. d : i < j => run[t[i]].book # run[t[j]].book
    BY <2>3 DEF Climbs
  <2>5. \A j \in 0 .. d : /\ t[j] \in DOMAIN run' /\ run'[t[j]].parent = run[t[j]].parent
                          /\ run'[t[j]].book = run[t[j]].book
    BY <2>3 DEF Kept
  <2> HIDE DEF d
  <2> DEFINE extended == [j \in 0 .. d + 1 |-> IF j = 0 THEN e ELSE t[j - 1]]
  <2>0. PICK u : u = extended
    OBVIOUS
  <2>6. \A j \in 1 .. d + 1 : j - 1 \in 0 .. d /\ u[j] = t[j - 1] /\ j # 0
    BY <2>0, <2>2
  <2>7. u[0] = e /\ DOMAIN u = 0 .. d + 1
    BY <2>0, <2>2
  <2>8. u \in [0 .. d + 1 -> DOMAIN run']
    <3>1. ASSUME NEW j \in 0 .. d + 1 PROVE extended[j] \in DOMAIN run'
      <4>1. j # 0 => j - 1 \in 0 .. d
        BY <2>2
      <4> QED
        BY <2>5, <4>1
    <3> QED
      BY <2>0, <3>1
  <2> HIDE DEF extended
  <2>9. \A j \in 0 .. d + 1 : u[j] \in DOMAIN run'
    BY <2>8
  <2>10. run'[u[d + 1]].parent = None
    <3>1. d + 1 \in 1 .. d + 1 /\ d + 1 - 1 = d /\ d \in 0 .. d
      BY <2>2
    <3> QED
      BY <2>4, <2>5, <2>6, <3>1
  <2>11. ASSUME NEW j \in 0 .. d PROVE run'[u[j]].parent = u[j + 1]
    <3>1. j + 1 \in 1 .. d + 1 /\ j + 1 - 1 = j
      BY <2>2
    <3>2. u[j + 1] = t[j]
      BY <2>6, <3>1
    <3>3. CASE j = 0
      BY <2>2, <2>4, <2>7, <3>2, <3>3
    <3>4. CASE j # 0
      <4>1. j \in 1 .. d + 1 /\ j - 1 \in 0 .. d - 1 /\ j - 1 \in 0 .. d /\ j - 1 + 1 = j
        BY <2>2, <3>4
      <4>2. u[j] = t[j - 1] /\ run[t[j - 1]].parent = t[j] /\ run'[t[j - 1]].parent = run[t[j - 1]].parent
        BY <2>4, <2>5, <2>6, <4>1
      <4> QED
        BY <3>2, <4>2
    <3> QED
      BY <3>3, <3>4
  <2>12. ASSUME NEW i \in 0 .. d + 1, NEW j \in 0 .. d + 1, i < j PROVE run'[u[i]].book # run'[u[j]].book
    <3>1. j \in 1 .. d + 1 /\ j - 1 \in 0 .. d
      BY <2>2, <2>12
    <3>2. run'[u[j]].book = run[t[j - 1]].book
      BY <2>5, <2>6, <3>1
    <3>3. CASE i = 0
      BY <2>3, <2>7, <3>1, <3>2, <3>3 DEF d
    <3>4. CASE i # 0
      <4>1. i \in 1 .. d + 1 /\ i - 1 \in 0 .. d /\ i - 1 < j - 1
        BY <2>2, <2>12, <3>4
      <4>2. run'[u[i]].book = run[t[i - 1]].book
        BY <2>5, <2>6, <4>1
      <4> QED
        BY <2>4, <3>1, <3>2, <4>1, <4>2
    <3> QED
      BY <3>3, <3>4
  <2>13. Climbs(u, e)'
    <3>1. run'[e].depth = d + 1 /\ run'[e].depth - 1 = d
      BY <2>2
    <3>2. DOMAIN u = 0 .. run'[e].depth /\ u[0] = e /\ run'[u[run'[e].depth]].parent = None
      BY <2>7, <2>10, <3>1
    <3>3. \A j \in 0 .. run'[e].depth : u[j] \in DOMAIN run'
      BY <2>9, <3>1
    <3>4. \A j \in 0 .. run'[e].depth - 1 : run'[u[j]].parent = u[j + 1]
      BY <2>11, <3>1
    <3>5. \A i, j \in 0 .. run'[e].depth : i < j => run'[u[i]].book # run'[u[j]].book
      BY <2>12, <3>1
    <3> QED
      BY <3>2, <3>3, <3>4, <3>5 DEF Climbs
  <2> QED
    BY <2>2, <2>8, <2>13, ChainAssumption DEF RunFits
<1> QED
  BY <1>1, <1>2

\* Lists joined, and a list with one entry more.
LEMMA ListLength == ASSUME NEW s, IsList(s) PROVE Len(s) \in Nat /\ DOMAIN s = 1 .. Len(s)
<1>1. PICK D : s \in Seq(D)
  BY DEF IsList
<1> QED
  BY <1>1

LEMMA JoinFacts ==
    ASSUME NEW s, IsList(s), NEW t, IsList(t)
    PROVE  /\ IsList(s \o t) /\ DOMAIN (s \o t) = 1 .. Len(s) + Len(t)
           /\ \A i \in DOMAIN s : i \in DOMAIN (s \o t) /\ (s \o t)[i] = s[i]
           /\ \A i \in DOMAIN (s \o t) : i \notin DOMAIN s => i - Len(s) \in DOMAIN t /\ (s \o t)[i] = t[i - Len(s)]
<1>1. PICK D : s \in Seq(D)
  BY DEF IsList
<1>2. PICK R : t \in Seq(R)
  BY DEF IsList
<1>3. s \in Seq(D \cup R) /\ t \in Seq(D \cup R)
  BY <1>1, <1>2, SeqMonotonic
<1>4. s \o t \in Seq(D \cup R) /\ Len(s \o t) = Len(s) + Len(t) /\ Len(s) \in Nat /\ Len(t) \in Nat
      /\ DOMAIN s = 1 .. Len(s) /\ DOMAIN t = 1 .. Len(t)
  BY <1>3
<1>5. \A i \in 1 .. Len(s) + Len(t) : (s \o t)[i] = IF i <= Len(s) THEN s[i] ELSE t[i - Len(s)]
  BY <1>3, ConcatProperties
<1>6. DOMAIN (s \o t) = 1 .. Len(s) + Len(t)
  BY <1>4
<1> QED
  BY <1>4, <1>5, <1>6 DEF IsList

LEMMA AppendFacts ==
    ASSUME NEW s, IsList(s), NEW r
    PROVE  /\ IsList(Append(s, r)) /\ DOMAIN Append(s, r) = 1 .. Len(s) + 1
           /\ \A i \in DOMAIN s : i \in DOMAIN Append(s, r) /\ Append(s, r)[i] = s[i]
           /\ \A i \in DOMAIN Append(s, r) : i \notin DOMAIN s => Append(s, r)[i] = r
<1>1. PICK D : s \in Seq(D)
  BY DEF IsList
<1>2. s \in Seq(D \cup {r})
  BY <1>1, SeqMonotonic
<1>3. Append(s, r) \in Seq(D \cup {r}) /\ Len(s) \in Nat /\ DOMAIN s = 1 .. Len(s) /\ Len(Append(s, r)) = Len(s) + 1
  BY <1>2
<1>4. DOMAIN Append(s, r) = 1 .. Len(s) + 1
  BY <1>3
<1>5. Append(s, r)[Len(s) + 1] = r /\ \A i \in DOMAIN s : Append(s, r)[i] = s[i]
  BY <1>2, <1>3
<1>6. \A i \in DOMAIN Append(s, r) : i \notin DOMAIN s => i = Len(s) + 1
  BY <1>3, <1>4
<1> QED
  BY <1>3, <1>4, <1>5, <1>6 DEF IsList

\* A step that adds rows, each without a parent or a child of a row there, and ends passes.
LEMMA RunsGrow ==
    ASSUME ChainInv, Kept, IsList(run'),
           \A e \in DOMAIN run' : e \notin DOMAIN run => IsRoot(run'[e]) \/ \E p : IsChild(run'[e], p),
           DOMAIN pass' = Workers, \A w \in Workers : pass'[w] = pass[w] \/ pass'[w] = None
    PROVE  ChainInv'
<1>1. Len(run) \in Nat /\ DOMAIN run = 1 .. Len(run) /\ Len(run') \in Nat /\ DOMAIN run' = 1 .. Len(run')
  <2>1. IsList(run)
    BY DEF ChainInv
  <2> QED
    BY <2>1, ListLength
<1>2. ASSUME NEW e \in DOMAIN run' PROVE RunFits(e)'
  <2>1. CASE e \in DOMAIN run
    <3>1. RunFits(e) /\ run[e].depth \in Nat
      BY <2>1, ChainAssumption DEF ChainInv, RunFits
    <3>2. PICK t \in [0 .. run[e].depth -> DOMAIN run] : Climbs(t, e)
      BY <3>1 DEF RunFits
    <3>3. Climbs(t, e)' /\ \A j \in 0 .. run[e].depth : t[j] \in DOMAIN run'
      BY <2>1, <3>1, <3>2, ClimbsOn
    <3>4. run'[e].depth = run[e].depth /\ DOMAIN run'[e] = RunFields
      BY <2>1 DEF Kept
    <3>5. t \in [0 .. run'[e].depth -> DOMAIN run']
      BY <3>2, <3>3, <3>4
    <3> QED
      BY <3>1, <3>3, <3>4, <3>5 DEF RunFits
  <2>2. CASE e \notin DOMAIN run
    <3>1. e \in Nat \ {0} /\ DOMAIN run \subseteq Nat /\ \A x \in DOMAIN run : x < e
      BY <1>1, <1>2, <2>2
    <3> QED
      BY <1>2, <2>2, <3>1, ChildClimbs
  <2> QED
    BY <2>1, <2>2
<1>3. ASSUME NEW w \in Workers, pass'[w] # None PROVE PassFits(pass[w])'
  <2>1. PassFits(pass[w]) /\ pass'[w] = pass[w]
    BY <1>3 DEF ChainInv
  <2>2. \A i \in DOMAIN pass[w].born : IsChild(pass[w].born[i], pass[w].of)
    BY <2>1 DEF PassFits
  <2>3. PICK p : p = pass[w]
    OBVIOUS
  <2>4. \A i \in DOMAIN p.born : IsChild(p.born[i], p.of)'
    BY <2>2, <2>3, ChildStays
  <2>5. PassFits(p)'
    BY <2>1, <2>3, <2>4 DEF PassFits, Kept
  <2> QED
    BY <2>1, <2>3, <2>5
<1> QED
  BY <1>2, <1>3 DEF ChainInv

\* A step of one worker's pass.
LEMMA PassMoves ==
    ASSUME ChainInv, run' = run, NEW w \in Workers, NEW p, pass' = [pass EXCEPT ![w] = p], p # None => PassFits(p)
    PROVE  ChainInv'
<1>1. DOMAIN pass' = Workers /\ pass'[w] = p /\ \A v \in Workers \ {w} : pass'[v] = pass[v]
  BY DEF ChainInv
<1>2. ASSUME NEW q, PassFits(q) PROVE PassFits(q)'
  BY <1>2 DEF PassFits, IsChild, Climbs
<1>3. \A v \in Workers : pass'[v] # None => PassFits(pass[v])'
  <2> SUFFICES ASSUME NEW v \in Workers, pass'[v] # None PROVE PassFits(pass[v])'
    OBVIOUS
  <2>1. PICK q : q = pass'[v] /\ PassFits(q)
    BY <1>1 DEF ChainInv
  <2>2. PassFits(q)'
    BY <1>2, <2>1
  <2> QED
    BY <2>1, <2>2
<1>4. ASSUME NEW e \in DOMAIN run PROVE RunFits(e)'
  <2>1. RunFits(e)
    BY DEF ChainInv
  <2>2. \A t : Climbs(t, e) => Climbs(t, e)'
    BY DEF Climbs
  <2> QED
    BY <2>1, <2>2 DEF RunFits
<1> QED
  BY <1>1, <1>3, <1>4 DEF ChainInv

\* What the bookkeeping of the loop leaves of a pass.
LEMMA OnwardFits == ASSUME NEW p, PassFits(p) PROVE PassFits(P!Onward(p)) /\ P!Onward(p).of = p.of /\ P!Onward(p).born = p.born
<1>1. PICK at, last : P!Onward(p) = [p EXCEPT !.at = at, !.last = last]
  BY DEF P!Onward
<1>2. DOMAIN p = PassFields
  BY DEF PassFits
<1>3. DOMAIN P!Onward(p) = PassFields /\ P!Onward(p).of = p.of /\ P!Onward(p).born = p.born
  BY <1>1, <1>2 DEF PassFields
<1> QED
  BY <1>3 DEF PassFits

LEMMA PassBegins == ASSUME NEW e \in DOMAIN run, NEW from, NEW log, NEW last PROVE PassFits(P!Pass(e, from, log, last))
<1> DEFINE p == [of |-> e, draft |-> definition[run[e].book].draft, at |-> from, log |-> log, last |-> last, failed |-> FALSE, born |-> <<>>]
<1>1. <<>> \in Seq({}) /\ DOMAIN <<>> = {}
  OBVIOUS
<1>2. PassFits(p)
  BY <1>1 DEF PassFits, PassFields, IsList
<1> HIDE DEF p
<1>3. PassFits(P!Onward(p))
  BY <1>2, OnwardFits
<1> QED
  BY <1>3 DEF P!Pass, p

LEMMA WentFits ==
    ASSUME NEW w, PassFits(pass[w]), NEW entries, NEW next
    PROVE  PassFits(P!Went(w, entries, next)) /\ P!Went(w, entries, next).of = pass[w].of /\ P!Went(w, entries, next).born = pass[w].born
<1>1. PICK log, last, failed, at :
          P!Went(w, entries, next) = P!Onward([pass[w] EXCEPT !.log = log, !.last = last, !.failed = failed, !.at = at])
  BY DEF P!Went
<1> DEFINE p == [pass[w] EXCEPT !.log = log, !.last = last, !.failed = failed, !.at = at]
<1>2. DOMAIN pass[w] = PassFields
  BY DEF PassFits
<1>3. DOMAIN p = PassFields /\ p.of = pass[w].of /\ p.born = pass[w].born
  BY <1>2 DEF PassFields
<1>4. PassFits(p)
  BY <1>3 DEF PassFits
<1> HIDE DEF p
<1> QED
  BY <1>1, <1>3, <1>4, OnwardFits DEF p

\* The invariant holds before any execution.
LEMMA ChainBegins == P!Init => ChainInv
<1> SUFFICES ASSUME P!Init PROVE ChainInv
  OBVIOUS
<1>1. run = <<>> /\ <<>> \in Seq({}) /\ DOMAIN <<>> = {} /\ pass = [w \in Workers |-> None]
  BY DEF P!Init
<1> QED
  BY <1>1 DEF ChainInv, IsList

\* An execution of an alert or an analyst has no parent.
LEMMA NewRunIsRoot == \A b, onAlert : IsRoot(P!NewRun(b, onAlert, None, 0))
  BY DEF P!NewRun, IsRoot, RunFields

LEMMA RunAppended ==
    ASSUME ChainInv, NEW b, NEW onAlert, run' = Append(run, P!NewRun(b, onAlert, None, 0)), pass' = pass
    PROVE  ChainInv'
<1> DEFINE r == P!NewRun(b, onAlert, None, 0)
<1>1. IsRoot(r)
  BY NewRunIsRoot
<1> HIDE DEF r
<1>2. IsList(run) /\ run' = Append(run, r)
  BY DEF ChainInv, r
<1>3. /\ IsList(run') /\ \A i \in DOMAIN run : i \in DOMAIN run' /\ run'[i] = run[i]
      /\ \A i \in DOMAIN run' : i \notin DOMAIN run => run'[i] = r
  BY <1>2, AppendFacts
<1>4. Kept
  BY <1>3 DEF Kept, ChainInv, RunFits
<1>5. DOMAIN pass' = Workers
  BY DEF ChainInv
<1> QED
  BY <1>1, <1>3, <1>4, <1>5, RunsGrow

\* What is defined on the first numbers is a list.
LEMMA FunctionIsList == ASSUME NEW n \in Nat, NEW f, f = [i \in 1 .. n |-> f[i]] PROVE IsList(f) /\ Len(f) = n
<1>1. \A i \in 1 .. n : f[i] \in {f[j] : j \in 1 .. n}
  OBVIOUS
<1>2. f \in Seq({f[j] : j \in 1 .. n})
  BY <1>1, IsASeq
<1>3. DOMAIN f = 1 .. n
  OBVIOUS
<1>4. Len(f) = n
  BY <1>2, <1>3
<1> QED
  BY <1>2, <1>4 DEF IsList

LEMMA ExceptIsList == ASSUME NEW s, IsList(s), NEW e, NEW x PROVE IsList([s EXCEPT ![e] = x])
<1> DEFINE f == [s EXCEPT ![e] = x]
<1>1. Len(s) \in Nat /\ f = [i \in 1 .. Len(s) |-> f[i]]
  BY ListLength
<1> HIDE DEF f
<1>2. IsList(f)
  BY <1>1, FunctionIsList
<1> QED
  BY <1>2 DEF f

\* A row rewritten, but for its book, parent and depth.
LEMMA RowRewritten ==
    ASSUME ChainInv, NEW e \in DOMAIN run, NEW row, run' = [run EXCEPT ![e] = row], pass' = pass,
           DOMAIN row = RunFields, row.book = run[e].book, row.parent = run[e].parent, row.depth = run[e].depth
    PROVE  ChainInv'
<1>1. DOMAIN run' = DOMAIN run /\ Kept
  BY DEF Kept, ChainInv, RunFits
<1>2. IsList(run')
  BY ExceptIsList DEF ChainInv
<1>3. DOMAIN pass' = Workers
  BY DEF ChainInv
<1> QED
  BY <1>1, <1>2, <1>3, RunsGrow

\* The orchestrator adds executions of playbooks that are there, each without a parent.
LEMMA OrchestrateStarts ==
    ASSUME P!Orchestrate
    PROVE  \E added : run' = run \o added /\ IsList(added) /\ \A i \in DOMAIN added : \E b \in Playbooks : added[i] = P!NewRun(b, TRUE, None, 0)
<1> DEFINE new == {b \in P!MatchedPlaybooks : ~P!ActiveFor(run, b, TRUE)}
           order == CHOOSE s \in P!SetToSeqs(new) : TRUE
           added == [i \in DOMAIN order |-> P!NewRun(order[i], TRUE, None, 0)]
<1>1. run' = run \o added
  BY DEF P!Orchestrate
<1>2. new \in SUBSET Playbooks /\ IsFiniteSet(new)
  <2>1. new \in SUBSET Playbooks
    BY DEF P!MatchedPlaybooks
  <2> QED
    BY <2>1, ChainAssumption, FS_Subset
<1> HIDE DEF new
<1>3. PICK f : f \in [1 .. Cardinality(new) -> new] /\ \A i, j \in 1 .. Cardinality(new) : i # j => f[i] # f[j]
  <2>1. ExistsBijection(1 .. Cardinality(new), new)
    BY <1>2, FS_CardinalityType
  <2> QED
    BY <2>1 DEF ExistsBijection, Bijection, Injection, IsInjective
<1>4. P!SetToSeqs(new) = {g \in [1 .. Cardinality(new) -> new] : \A i, j \in 1 .. Cardinality(new) : i # j => g[i] # g[j]}
  BY DEF P!SetToSeqs, P!Cardinality, Cardinality
<1>5. order \in P!SetToSeqs(new)
  BY <1>3, <1>4
<1> HIDE DEF order
<1>6. order \in [1 .. Cardinality(new) -> new] /\ DOMAIN order = 1 .. Cardinality(new) /\ Cardinality(new) \in Nat
  BY <1>2, <1>4, <1>5, FS_CardinalityType
<1>7. added = [i \in 1 .. Cardinality(new) |-> added[i]]
  BY <1>6
<1>8. \A i \in DOMAIN added : \E b \in Playbooks : added[i] = P!NewRun(b, TRUE, None, 0)
  <2> SUFFICES ASSUME NEW i \in DOMAIN order PROVE order[i] \in Playbooks
    OBVIOUS
  <2> QED
    BY <1>2, <1>6
<1> HIDE DEF added
<1>9. IsList(added)
  BY <1>6, <1>7, FunctionIsList
<1> QED
  BY <1>1, <1>8, <1>9

LEMMA OrchestrateKeeps == ASSUME ChainInv, P!Orchestrate PROVE ChainInv'
<1>1. PICK added : run' = run \o added /\ IsList(added) /\ \A i \in DOMAIN added : \E b \in Playbooks : added[i] = P!NewRun(b, TRUE, None, 0)
  BY OrchestrateStarts
<1>2. pass' = pass /\ IsList(run) /\ DOMAIN pass = Workers
  BY DEF P!Orchestrate, ChainInv
<1>3. \A i \in DOMAIN added : IsRoot(added[i])
  BY <1>1, NewRunIsRoot
<1>4. /\ IsList(run') /\ \A i \in DOMAIN run : i \in DOMAIN run' /\ run'[i] = run[i]
      /\ \A i \in DOMAIN run' : i \notin DOMAIN run => i - Len(run) \in DOMAIN added /\ run'[i] = added[i - Len(run)]
  BY <1>1, <1>2, JoinFacts
<1>5. Kept
  BY <1>4 DEF Kept, ChainInv, RunFits
<1> QED
  BY <1>2, <1>3, <1>4, <1>5, RunsGrow

\* The commit of a pass.
LEMMA WrittenKeeps ==
    ASSUME ChainInv, NEW w \in Workers, pass[w] # None, NEW status, NEW log, NEW ask,
           run' = P!Written(w, status, log, ask), pass' = [pass EXCEPT ![w] = None]
    PROVE  ChainInv'
<1>0. PICK p, e, born : p = pass[w] /\ e = p.of /\ born = p.born
  OBVIOUS
<1> DEFINE row == [run[e] EXCEPT !.status = status, !.log = log, !.last = p.last, !.ask = ask]
           base == [run EXCEPT ![e] = row]
<1>1. run' = base \o born
  BY <1>0 DEF P!Written
<1>2. PassFits(p) /\ e \in DOMAIN run /\ IsList(born) /\ IsList(run)
  BY <1>0 DEF ChainInv, PassFits
<1>3. DOMAIN row = RunFields /\ row.book = run[e].book /\ row.parent = run[e].parent /\ row.depth = run[e].depth
  BY <1>2 DEF ChainInv, RunFits, RunFields
<1> HIDE DEF row
<1>4. DOMAIN base = DOMAIN run /\ IsList(base)
  BY <1>2, ExceptIsList
<1>5. \A x \in DOMAIN run : /\ DOMAIN base[x] = RunFields
                            /\ base[x].book = run[x].book /\ base[x].parent = run[x].parent /\ base[x].depth = run[x].depth
  BY <1>2, <1>3 DEF ChainInv, RunFits
<1> HIDE DEF base
<1>6. /\ IsList(run') /\ \A i \in DOMAIN base : i \in DOMAIN run' /\ run'[i] = base[i]
      /\ \A i \in DOMAIN run' : i \notin DOMAIN base => i - Len(base) \in DOMAIN born /\ run'[i] = born[i - Len(base)]
  BY <1>1, <1>2, <1>4, JoinFacts
<1>7. Kept
  BY <1>4, <1>5, <1>6 DEF Kept
<1>8. \A x \in DOMAIN run' : x \notin DOMAIN run => \E q : IsChild(run'[x], q)
  BY <1>0, <1>2, <1>4, <1>6 DEF PassFits
<1>9. DOMAIN pass' = Workers /\ \A v \in Workers : pass'[v] = pass[v] \/ pass'[v] = None
  BY DEF ChainInv
<1> QED
  BY <1>6, <1>7, <1>8, <1>9, RunsGrow

\* A playbook is triggered only where the chain has room and none of its playbooks is the one.
LEMMA TriggerPlaybookKeeps == ASSUME ChainInv, NEW w \in Workers, P!TriggerPlaybook(w) PROVE ChainInv'
<1> DEFINE p == pass[w]
           b == P!PassSteps(p)[p.at].playbook
           onward == P!Went(w, <<P!Entry(p.at, "success")>>, p.at + 1)
           r == P!NewRun(b, TRUE, p.of, run[p.of].depth + 1)
           new == [onward EXCEPT !.born = Append(@, r)]
<1>1. PassFits(p) /\ p.of \in DOMAIN run /\ run' = run
  BY DEF P!TriggerPlaybook, P!At, ChainInv, PassFits
<1>2. \A entries, next : PassFits(P!Went(w, entries, next))
  BY <1>1, WentFits
<1>3. CASE \E entries, next : pass' = [pass EXCEPT ![w] = P!Went(w, entries, next)]
  BY <1>1, <1>2, <1>3, PassMoves
<1>4. CASE ~P!TriggerRefused(p.of, b) /\ pass' = [pass EXCEPT ![w] = new]
  <2>1. PassFits(onward) /\ onward.of = p.of /\ onward.born = p.born
    BY <1>1, WentFits
  <2>2. /\ run[p.of].depth \in Nat /\ run[p.of].depth + 1 <= MaxChainDepth
        /\ b # run[p.of].book /\ \A x \in P!AncestorChain(p.of) : run[x].book # b
    BY <1>1, <1>4, ChainAssumption DEF P!TriggerRefused, P!InAncestry, ChainInv, RunFits
  <2>3. PICK t \in [0 .. run[p.of].depth -> DOMAIN run] : Climbs(t, p.of)
    BY <1>1 DEF ChainInv, RunFits
  <2>4. \A j \in 1 .. run[p.of].depth : t[j] \in P!AncestorChain(p.of)
    <3>1. run[p.of].depth <= MaxChainDepth /\ MaxChainDepth \in Nat
      BY <2>2, ChainAssumption
    <3>2. P!AncestorChain(p.of) = Hops(p.of, MaxChainDepth)
      BY <1>1, ChainIsHops
    <3>3. PICK e : e = p.of
      OBVIOUS
    <3>4. \A j \in 1 .. run[e].depth : t[j] \in Hops(e, MaxChainDepth)
      BY <1>1, <2>3, <3>1, <3>3, WholeChain
    <3> QED
      BY <3>2, <3>3, <3>4
  <2>5. \A j \in 0 .. run[p.of].depth : run[t[j]].book # b
    <3>1. t[0] = p.of
      BY <2>3 DEF Climbs
    <3>2. \A j \in 0 .. run[p.of].depth : j = 0 \/ j \in 1 .. run[p.of].depth
      BY <2>2
    <3> QED
      BY <2>2, <2>4, <3>1, <3>2
  <2>6. DOMAIN r = RunFields /\ r.parent = p.of /\ r.depth = run[p.of].depth + 1 /\ r.book = b
    BY DEF P!NewRun, RunFields
  <2>7. IsChild(r, p.of)
    BY <1>1, <2>2, <2>3, <2>5, <2>6 DEF IsChild
  <2> HIDE DEF r, onward
  <2>8. DOMAIN new = PassFields /\ new.of = p.of /\ new.born = Append(p.born, r)
    BY <2>1 DEF PassFits, PassFields
  <2>9. IsList(new.born) /\ \A i \in DOMAIN new.born : IsChild(new.born[i], p.of)
    <3>1. IsList(p.born) /\ \A i \in DOMAIN p.born : IsChild(p.born[i], p.of)
      BY <1>1 DEF PassFits
    <3>2. /\ IsList(Append(p.born, r)) /\ \A i \in DOMAIN p.born : Append(p.born, r)[i] = p.born[i]
          /\ \A i \in DOMAIN Append(p.born, r) : i \notin DOMAIN p.born => Append(p.born, r)[i] = r
      BY <3>1, AppendFacts
    <3> QED
      BY <2>7, <2>8, <3>1, <3>2
  <2>10. PassFits(new)
    BY <1>1, <2>8, <2>9 DEF PassFits
  <2> HIDE DEF new
  <2> QED
    BY <1>1, <1>4, <2>10, PassMoves
<1> QED
  BY <1>3, <1>4 DEF P!TriggerPlaybook

LEMMA ChainStep == ChainInv /\ [P!Next]_(P!stepVars) => ChainInv'
<1> SUFFICES ASSUME ChainInv, [P!Next]_(P!stepVars) PROVE ChainInv'
  OBVIOUS
<1>1. ASSUME run' = run, pass' = pass PROVE ChainInv'
  <2>1. IsList(run) /\ Kept
    BY <1>1 DEF ChainInv, Kept, RunFits
  <2> QED
    BY <1>1, <2>1, RunsGrow DEF ChainInv
<1>2. ASSUME NEW b, P!SaveDefinition(b) PROVE ChainInv'
  BY <1>1, <1>2 DEF P!SaveDefinition
<1>3. ASSUME NEW b, NEW value, P!SetEnabled(b, value) PROVE ChainInv'
  BY <1>1, <1>3 DEF P!SetEnabled
<1>4. ASSUME NEW b, NEW onAlert, P!Trigger(b, onAlert) PROVE ChainInv'
  BY <1>4, RunAppended DEF P!Trigger
<1>5. ASSUME NEW e \in DOMAIN run, P!Retry(e) PROVE ChainInv'
  BY <1>5, RunAppended DEF P!Retry
<1>6. ASSUME NEW e \in DOMAIN run, P!Decide(e) PROVE ChainInv'
  <2>1. PICK d : run' = [run EXCEPT ![e].ask = d] /\ pass' = pass
    BY <1>6 DEF P!Decide
  <2> DEFINE row == [run[e] EXCEPT !.ask = d]
  <2>2. DOMAIN row = RunFields /\ row.book = run[e].book /\ row.parent = run[e].parent /\ row.depth = run[e].depth
    BY DEF ChainInv, RunFits, RunFields
  <2>3. run' = [run EXCEPT ![e] = row]
    BY <2>1
  <2> HIDE DEF row
  <2> QED
    BY <2>1, <2>2, <2>3, RowRewritten
<1>7. ASSUME NEW e \in DOMAIN run, P!Refuse(e) PROVE ChainInv'
  <2>1. PICK log : run' = [run EXCEPT ![e].status = "not_actioned", ![e].log = log] /\ pass' = pass
    BY <1>7 DEF P!Refuse
  <2> DEFINE row == [run[e] EXCEPT !.status = "not_actioned", !.log = log]
  <2>2. DOMAIN row = RunFields /\ row.book = run[e].book /\ row.parent = run[e].parent /\ row.depth = run[e].depth
    BY DEF ChainInv, RunFits, RunFields
  <2>3. run' = [run EXCEPT ![e] = row]
    BY <2>1, <2>2
  <2> HIDE DEF row
  <2> QED
    BY <2>1, <2>2, <2>3, RowRewritten
<1>8. ASSUME NEW w \in Workers, NEW e \in DOMAIN run, P!Begin(w, e) PROVE ChainInv'
  BY <1>8, PassBegins, PassMoves DEF P!Begin
<1>9. ASSUME NEW w \in Workers, NEW e \in DOMAIN run, P!Resume(w, e) PROVE ChainInv'
  BY <1>9, PassBegins, PassMoves DEF P!Resume
<1>10. ASSUME NEW w \in Workers, pass[w] # None, run' = run, \E entries, next : pass' = [pass EXCEPT ![w] = P!Went(w, entries, next)]
       PROVE  ChainInv'
  <2>1. PassFits(pass[w])
    BY <1>10 DEF ChainInv
  <2> QED
    BY <1>10, <2>1, WentFits, PassMoves
<1>11. ASSUME NEW w \in Workers, P!Branch(w) PROVE ChainInv'
  <2>1. pass[w] # None /\ run' = run
    BY <1>11 DEF P!Branch, P!At
  <2>2. \E entries, next : pass' = [pass EXCEPT ![w] = P!Went(w, entries, next)]
    BY <1>11 DEF P!Branch
  <2> QED
    BY <1>10, <2>1, <2>2
<1>12. ASSUME NEW w \in Workers, P!Simulate(w) PROVE ChainInv'
  BY <1>10, <1>12 DEF P!Simulate, P!At
<1>13. ASSUME NEW w \in Workers, P!Park(w) PROVE ChainInv'
  BY <1>13, WrittenKeeps DEF P!Park, P!At
<1>14. ASSUME NEW w \in Workers, P!Finish(w) PROVE ChainInv'
  BY <1>14, WrittenKeeps DEF P!Finish
<1>15. ASSUME NEW w \in Workers, P!Rollback(w) PROVE ChainInv'
  BY <1>15, PassMoves DEF P!Rollback
<1>16. CASE UNCHANGED P!stepVars
  BY <1>1, <1>16 DEF P!stepVars
<1> QED
  BY <1>2, <1>3, <1>4, <1>5, <1>6, <1>7, <1>8, <1>9, <1>11, <1>12, <1>13, <1>14, <1>15, <1>16, OrchestrateKeeps, TriggerPlaybookKeeps
  DEF P!Next

\* Every execution has a chain as long as its depth, without a playbook twice.
THEOREM ChainsInductive == P!Spec => []ChainInv
<1> QED
  BY ChainBegins, ChainStep, PTL DEF P!Spec

\* Playbooks that trigger one another end: no playbook comes twice along a chain, however definitions
\* are saved, transactions rolled back and executions retried.
THEOREM ChainsAreAcyclic == P!Spec => []ChainIsAcyclic
<1> QED
  BY ChainsInductive, ChainInvIsEnough, PTL

-----------------------------------------------------------------------------
(***************************************************************************)
(* The logs of those executions, for every definition of every playbook,    *)
(* edited while its executions run or are parked.                           *)
(***************************************************************************)

\* An entry that accounts for its step: done, failed, skipped, or a gate that was decided.
Accounts(x) == x.status \in P!Outcomes \cup P!Decisions

\* Each step before n is accounted for once and none from n on; a branch jumped at most to n,
\* over steps that did not run.
Settled(log, n) ==
    /\ IsList(log) /\ n \in Nat \ {0}
    /\ \A k \in DOMAIN log : log[k].step \in 1 .. n /\ (Accounts(log[k]) => log[k].step < n)
    /\ \A i \in 1 .. n - 1 : \E k \in DOMAIN log : log[k].step = i /\ Accounts(log[k])
    /\ \A k, l \in DOMAIN log : log[k].step = log[l].step /\ Accounts(log[k]) /\ Accounts(log[l]) => k = l
    /\ \A k \in DOMAIN log : log[k].to # None =>
          /\ log[k].to \in 1 .. n
          /\ \A l \in DOMAIN log : log[l].step \in log[k].step + 1 .. log[k].to - 1 => log[l].status \notin {"success", "failed"}

\* The log of a parked execution ends with the gate it waits at.
Parked(log) ==
    \E n : /\ Settled(log, n) /\ Len(log) \in DOMAIN log
           /\ log[Len(log)].status = "awaiting_approval" /\ log[Len(log)].step = n

RowAccounts(r) ==
    /\ r.book \in Playbooks
    /\ \E n : Settled(r.log, n)
    /\ r.status = "pending" => r.log = <<>> /\ r.last = 0
    /\ r.status = "awaiting_approval" => Parked(r.log)

\* A pass stands at the first step its log does not account for, or behind the last one.
PassAccounts(p) ==
    /\ p.draft \in DOMAIN Content /\ p.at \in Nat
    /\ \E n : Settled(p.log, n) /\ (p.at <= Len(P!PassSteps(p)) => p.at = n)
    /\ \A i \in DOMAIN p.born : RowAccounts(p.born[i])

DefinitionsFit ==
    DOMAIN definition = Playbooks /\ \A b \in Playbooks : DOMAIN definition[b] = {"enabled", "draft"} /\ definition[b].draft \in DOMAIN Content

LogsInv ==
    /\ DefinitionsFit
    /\ \A e \in DOMAIN run : RowAccounts(run[e])
    /\ \A w \in Workers : pass[w] # None => PassAccounts(pass[w])

-----------------------------------------------------------------------------
\* Nothing is accounted for before the first step.
LEMMA EmptySettled == Settled(<<>>, 1)
<1>1. <<>> \in Seq({}) /\ DOMAIN <<>> = {}
  OBVIOUS
<1>2. 1 .. 1 - 1 = {}
  OBVIOUS
<1> QED
  BY <1>1, <1>2 DEF Settled, IsList

\* Entries for the steps from n on, in order, settle the log up to the last of them; a branch
\* among them jumps over the entries behind it.
LEMMA SettledGrows ==
    ASSUME NEW log, NEW n, Settled(log, n), NEW s, IsList(s),
           \A k \in 1 .. Len(s) : s[k].step = n + k - 1 /\ Accounts(s[k]),
           \A k \in 1 .. Len(s) : s[k].to # None =>
               s[k].to = n + Len(s) /\ \A l \in 1 .. Len(s) : k < l => s[l].status \notin {"success", "failed"}
    PROVE  Settled(log \o s, n + Len(s))
<1>0. PICK all : all = log \o s
  OBVIOUS
<1>1. PICK m : m = n + Len(s)
  OBVIOUS
<1>2. n \in Nat \ {0} /\ Len(s) \in Nat /\ Len(log) \in Nat /\ DOMAIN s = 1 .. Len(s) /\ DOMAIN log = 1 .. Len(log)
  BY ListLength DEF Settled
<1>3. /\ IsList(all) /\ DOMAIN all = 1 .. Len(log) + Len(s)
      /\ \A i \in DOMAIN log : i \in DOMAIN all /\ all[i] = log[i]
      /\ \A i \in DOMAIN all : i \notin DOMAIN log => i - Len(log) \in DOMAIN s /\ all[i] = s[i - Len(log)]
  BY <1>0, JoinFacts DEF Settled
<1>4. /\ \A k \in DOMAIN log : log[k].step \in 1 .. n /\ (Accounts(log[k]) => log[k].step < n)
      /\ \A i \in 1 .. n - 1 : \E k \in DOMAIN log : log[k].step = i /\ Accounts(log[k])
      /\ \A k, l \in DOMAIN log : log[k].step = log[l].step /\ Accounts(log[k]) /\ Accounts(log[l]) => k = l
      /\ \A k \in DOMAIN log : log[k].to # None =>
          /\ log[k].to \in 1 .. n
          /\ \A l \in DOMAIN log : log[l].step \in log[k].step + 1 .. log[k].to - 1 => log[l].status \notin {"success", "failed"}
  BY DEF Settled
<1>5. \A k \in DOMAIN all : k \notin DOMAIN log => /\ all[k].step = n + k - Len(log) - 1 /\ Accounts(all[k])
                                                   /\ k - Len(log) \in 1 .. Len(s) /\ k \in Nat
  <2> TAKE k \in DOMAIN all
  <2> HAVE k \notin DOMAIN log
  <2>1. k - Len(log) \in 1 .. Len(s) /\ all[k] = s[k - Len(log)] /\ k \in Nat
    BY <1>2, <1>3
  <2>2. all[k].step = n + (k - Len(log)) - 1 /\ Accounts(all[k])
    BY <2>1
  <2> QED
    BY <1>2, <2>1, <2>2
<1>6. ASSUME NEW k \in DOMAIN all PROVE all[k].step \in 1 .. m /\ (Accounts(all[k]) => all[k].step < m)
  <2>1. CASE k \in DOMAIN log
    <3>1. all[k] = log[k] /\ log[k].step \in 1 .. n /\ (Accounts(log[k]) => log[k].step < n)
      BY <1>3, <1>4, <2>1
    <3> QED
      BY <1>1, <1>2, <3>1
  <2>2. CASE k \notin DOMAIN log
    BY <1>1, <1>2, <1>5, <2>2
  <2> QED
    BY <2>1, <2>2
<1>7. ASSUME NEW i \in 1 .. m - 1 PROVE \E k \in DOMAIN all : all[k].step = i /\ Accounts(all[k])
  <2>1. CASE i < n
    <3>1. i \in 1 .. n - 1
      BY <1>1, <1>2, <2>1
    <3> QED
      BY <1>3, <1>4, <3>1
  <2>2. CASE ~(i < n)
    <3>1. PICK k : k = Len(log) + (i - n) + 1
      OBVIOUS
    <3>2. k \in DOMAIN all /\ k \notin DOMAIN log /\ n + k - Len(log) - 1 = i
      BY <1>1, <1>2, <1>3, <2>2, <3>1
    <3> QED
      BY <1>5, <3>2
  <2> QED
    BY <2>1, <2>2
<1>8. ASSUME NEW k \in DOMAIN all, NEW l \in DOMAIN all, all[k].step = all[l].step, Accounts(all[k]), Accounts(all[l])
      PROVE  k = l
  <2>1. \A x \in DOMAIN log : all[x] = log[x] /\ (Accounts(log[x]) => log[x].step < n)
    BY <1>3, <1>4
  <2>2. \A x \in DOMAIN all : x \notin DOMAIN log => all[x].step = n + x - Len(log) - 1 /\ ~(all[x].step < n) /\ x \in Nat
    BY <1>2, <1>5
  <2>3. CASE k \in DOMAIN log /\ l \in DOMAIN log
    BY <1>4, <1>8, <2>1, <2>3
  <2>4. CASE k \notin DOMAIN log /\ l \notin DOMAIN log
    BY <1>2, <1>8, <2>2, <2>4
  <2> QED
    BY <1>8, <2>1, <2>2, <2>3, <2>4
<1>9. ASSUME NEW k \in DOMAIN all, all[k].to # None
      PROVE  /\ all[k].to \in 1 .. m
             /\ \A l \in DOMAIN all : all[l].step \in all[k].step + 1 .. all[k].to - 1 => all[l].status \notin {"success", "failed"}
  <2>1. CASE k \in DOMAIN log
    <3>1. all[k] = log[k] /\ log[k].to \in 1 .. n
      BY <1>3, <1>4, <1>9, <2>1
    <3>2. all[k].to \in 1 .. m
      BY <1>1, <1>2, <3>1
    <3>3. ASSUME NEW l \in DOMAIN all, all[l].step \in all[k].step + 1 .. all[k].to - 1
          PROVE  all[l].status \notin {"success", "failed"}
      <4>1. l \in DOMAIN log
        <5> SUFFICES ASSUME l \notin DOMAIN log PROVE FALSE
          OBVIOUS
        <5>1. all[l].step = n + l - Len(log) - 1 /\ l - Len(log) \in 1 .. Len(s) /\ l \in Nat
          BY <1>5
        <5>2. log[k].step \in 1 .. n
          BY <1>4, <2>1
        <5> QED
          BY <1>2, <3>1, <3>3, <5>1, <5>2
      <4> QED
        BY <1>3, <1>4, <1>9, <2>1, <3>1, <3>3, <4>1
    <3> QED
      BY <3>2, <3>3
  <2>2. CASE k \notin DOMAIN log
    <3>1. PICK j : j = k - Len(log)
      OBVIOUS
    <3>2. j \in 1 .. Len(s) /\ all[k] = s[j] /\ s[j].step = n + j - 1 /\ s[j].to = m
          /\ \A l \in 1 .. Len(s) : j < l => s[l].status \notin {"success", "failed"}
      BY <1>1, <1>2, <1>3, <1>9, <2>2, <3>1
    <3>3. ASSUME NEW l \in DOMAIN all, all[l].step \in all[k].step + 1 .. all[k].to - 1
          PROVE  all[l].status \notin {"success", "failed"}
      <4>1. CASE l \in DOMAIN log
        <5>1. all[l].step \in 1 .. n
          BY <1>3, <1>4, <4>1
        <5> QED
          BY <1>1, <1>2, <3>2, <3>3, <5>1
      <4>2. CASE l \notin DOMAIN log
        <5>1. l - Len(log) \in 1 .. Len(s) /\ all[l] = s[l - Len(log)] /\ s[l - Len(log)].step = n + (l - Len(log)) - 1
          BY <1>2, <1>3, <4>2
        <5>2. j < l - Len(log)
          BY <1>1, <1>2, <3>2, <3>3, <5>1
        <5> QED
          BY <3>2, <5>1, <5>2
      <4> QED
        BY <4>1, <4>2
    <3> QED
      BY <1>1, <1>2, <3>2, <3>3
  <2> QED
    BY <2>1, <2>2
<1>10. m \in Nat \ {0}
  BY <1>1, <1>2
<1>11. Settled(all, m)
  BY <1>3, <1>6, <1>7, <1>8, <1>9, <1>10 DEF Settled
<1> QED
  BY <1>0, <1>1, <1>11

\* One entry for the step at hand, and one skipped for each step up to another.
LEMMA SettledOne ==
    ASSUME NEW log, NEW n, Settled(log, n), NEW x, x.step = n, Accounts(x), x.to = None
    PROVE  Settled(log \o <<x>>, n + 1)
<1>1. <<x>> \in Seq({x}) /\ Len(<<x>>) = 1 /\ \A k \in 1 .. 1 : <<x>>[k] = x /\ k = 1
  OBVIOUS
<1>2. n \in Nat /\ n + 1 - 1 = n
  BY DEF Settled
<1>3. IsList(<<x>>)
  BY <1>1 DEF IsList
<1>4. \A k \in 1 .. Len(<<x>>) : <<x>>[k].step = n + k - 1 /\ Accounts(<<x>>[k]) /\ <<x>>[k].to = None
  BY <1>1, <1>2
<1>5. Settled(log \o <<x>>, n + Len(<<x>>))
  BY <1>3, <1>4, SettledGrows
<1> QED
  BY <1>1, <1>5

LEMMA SkipFacts ==
    ASSUME NEW from \in Nat, NEW upto \in Nat
    PROVE  /\ IsList(P!SkipEntries(from, upto))
           /\ Len(P!SkipEntries(from, upto)) = IF upto > from THEN upto - from ELSE 0
           /\ \A k \in 1 .. Len(P!SkipEntries(from, upto)) :
                 P!SkipEntries(from, upto)[k] = [step |-> from + k - 1, status |-> "skipped", to |-> None]
<1> DEFINE n == IF upto > from THEN upto - from ELSE 0
           s == [k \in 1 .. n |-> P!Entry(from + k - 1, "skipped")]
<1>1. P!SkipEntries(from, upto) = s
  BY DEF P!SkipEntries
<1>2. n \in Nat
  OBVIOUS
<1> HIDE DEF n
<1>3. s = [k \in 1 .. n |-> s[k]]
  OBVIOUS
<1>4. IsList(s) /\ Len(s) = n
  <2> HIDE DEF s
  <2> QED
    BY <1>2, <1>3, FunctionIsList
<1>5. \A k \in 1 .. n : s[k] = [step |-> from + k - 1, status |-> "skipped", to |-> None]
  BY DEF P!Entry
<1> QED
  BY <1>1, <1>4, <1>5 DEF n

LEMMA SettledSkips ==
    ASSUME NEW log, NEW n, Settled(log, n), NEW upto \in Nat
    PROVE  Settled(log \o P!SkipEntries(n, upto), IF upto > n THEN upto ELSE n)
<1> DEFINE s == P!SkipEntries(n, upto)
<1>1. n \in Nat
  BY DEF Settled
<1>2. /\ IsList(s) /\ Len(s) = IF upto > n THEN upto - n ELSE 0
      /\ \A k \in 1 .. Len(s) : s[k] = [step |-> n + k - 1, status |-> "skipped", to |-> None]
  BY <1>1, SkipFacts
<1> HIDE DEF s
<1>3. \A k \in 1 .. Len(s) : s[k].step = n + k - 1 /\ Accounts(s[k]) /\ s[k].to = None
  <2>1. \A k \in 1 .. Len(s) : s[k].step = n + k - 1 /\ s[k].status = "skipped" /\ s[k].to = None
    <3> TAKE k \in 1 .. Len(s)
    <3>1. s[k] = [step |-> n + k - 1, status |-> "skipped", to |-> None]
      BY <1>2
    <3> QED
      BY <3>1
  <2> QED
    BY <2>1 DEF Accounts, P!Outcomes
<1>4. Settled(log \o s, n + Len(s))
  BY <1>2, <1>3, SettledGrows
<1>5. n + Len(s) = IF upto > n THEN upto ELSE n
  BY <1>1, <1>2
<1> QED
  BY <1>4, <1>5 DEF s

\* A branch and the steps it jumps over.
LEMMA SettledJump ==
    ASSUME NEW log, NEW n, Settled(log, n), NEW target \in Nat, target > n
    PROVE  LET taken == <<[P!Entry(n, "success") EXCEPT !.to = target]>> \o P!SkipEntries(n + 1, target)
           IN  Settled(log \o taken, target) /\ Head(taken).status = "success"
<1> DEFINE x == [P!Entry(n, "success") EXCEPT !.to = target]
           s == P!SkipEntries(n + 1, target)
<1> SUFFICES Settled(log \o (<<x>> \o s), target) /\ Head(<<x>> \o s).status = "success"
  OBVIOUS
<1>1. n \in Nat
  BY DEF Settled
<1>2. x = [step |-> n, status |-> "success", to |-> target]
  BY DEF P!Entry
<1> HIDE DEF x
<1>3. /\ IsList(s) /\ Len(s) = target - n - 1 /\ Len(s) \in Nat /\ DOMAIN s = 1 .. Len(s)
      /\ \A k \in 1 .. Len(s) : s[k] = [step |-> n + 1 + k - 1, status |-> "skipped", to |-> None]
  <2>1. n + 1 \in Nat
    BY <1>1
  <2>2. /\ IsList(s) /\ Len(s) = IF target > n + 1 THEN target - (n + 1) ELSE 0
        /\ \A k \in 1 .. Len(s) : s[k] = [step |-> n + 1 + k - 1, status |-> "skipped", to |-> None]
    BY <2>1, SkipFacts
  <2> HIDE DEF s
  <2>3. Len(s) \in Nat /\ DOMAIN s = 1 .. Len(s)
    BY <2>2, ListLength
  <2> QED
    BY <1>1, <2>2, <2>3
<1> HIDE DEF s
<1>4. <<x>> \in Seq({x}) /\ Len(<<x>>) = 1 /\ <<x>>[1] = x /\ DOMAIN <<x>> = {1}
  OBVIOUS
<1>5. PICK taken : taken = <<x>> \o s
  OBVIOUS
<1>6. /\ IsList(taken) /\ DOMAIN taken = 1 .. 1 + Len(s) /\ taken[1] = x
      /\ \A i \in 2 .. 1 + Len(s) : taken[i] = s[i - 1] /\ i - 1 \in 1 .. Len(s)
  <2>1. PICK h : h = <<x>>
    OBVIOUS
  <2>2. IsList(h) /\ Len(h) = 1 /\ DOMAIN h = {1} /\ h[1] = x /\ taken = h \o s
    BY <1>4, <1>5, <2>1 DEF IsList
  <2>3. /\ IsList(taken) /\ DOMAIN taken = 1 .. Len(h) + Len(s)
        /\ \A i \in DOMAIN h : taken[i] = h[i]
        /\ \A i \in DOMAIN taken : i \notin DOMAIN h => i - Len(h) \in DOMAIN s /\ taken[i] = s[i - Len(h)]
    <3>1. IsList(h) /\ IsList(s)
      BY <1>3, <2>2
    <3> HIDE DEF IsList
    <3>2. /\ IsList(h \o s) /\ DOMAIN (h \o s) = 1 .. Len(h) + Len(s)
          /\ \A i \in DOMAIN h : (h \o s)[i] = h[i]
          /\ \A i \in DOMAIN (h \o s) : i \notin DOMAIN h => i - Len(h) \in DOMAIN s /\ (h \o s)[i] = s[i - Len(h)]
      BY <3>1, JoinFacts
    <3> QED
      BY <2>2, <3>2
  <2>4. /\ IsList(taken) /\ DOMAIN taken = 1 .. 1 + Len(s)
        /\ taken[1] = x
        /\ \A i \in DOMAIN taken : i \notin {1} => i - 1 \in DOMAIN s /\ taken[i] = s[i - 1]
    BY <2>2, <2>3
  <2> QED
    BY <1>3, <2>2, <2>4
<1>7. Len(taken) = 1 + Len(s) /\ n + Len(taken) = target
  <2>1. Len(taken) \in Nat /\ 1 .. Len(taken) = 1 .. 1 + Len(s)
    BY <1>6, ListLength
  <2>2. Len(taken) = 1 + Len(s)
    <3>1. Len(taken) \in 1 .. Len(taken) \/ Len(taken) = 0
      BY <2>1
    <3>2. 1 + Len(s) \in 1 .. 1 + Len(s)
      BY <1>3
    <3> QED
      BY <1>3, <2>1, <3>1, <3>2
  <2> QED
    BY <1>1, <1>3, <2>2
<1>8. \A k \in 1 .. Len(taken) : /\ taken[k].step = n + k - 1 /\ Accounts(taken[k])
                                 /\ k = 1 => taken[k].to = target
                                 /\ k # 1 => taken[k].to = None /\ taken[k].status = "skipped"
  <2> TAKE k \in 1 .. Len(taken)
  <2>1. CASE k = 1
    <3>1. taken[k] = [step |-> n, status |-> "success", to |-> target] /\ n + 1 - 1 = n
      BY <1>1, <1>2, <1>6, <2>1
    <3> QED
      BY <2>1, <3>1 DEF Accounts, P!Outcomes
  <2>2. CASE k # 1
    <3>1. k \in 2 .. 1 + Len(s) /\ n + 1 + (k - 1) - 1 = n + k - 1
      BY <1>1, <1>3, <1>7, <2>2
    <3>2. taken[k] = [step |-> n + k - 1, status |-> "skipped", to |-> None]
      BY <1>3, <1>6, <3>1
    <3> QED
      BY <2>2, <3>2 DEF Accounts, P!Outcomes
  <2> QED
    BY <2>1, <2>2
<1>9. \A k, l \in 1 .. Len(taken) : k < l => l # 1
  BY <1>3, <1>7
<1>10. Settled(log \o taken, n + Len(taken))
  BY <1>6, <1>7, <1>8, <1>9, SettledGrows
<1>11. Head(taken) = x
  <2>1. taken # <<>>
    BY <1>3, <1>6
  <2> QED
    BY <1>6, <2>1
<1> QED
  BY <1>2, <1>5, <1>7, <1>10, <1>11

\* A gate that is not decided accounts for nothing.
LEMMA SettledPark ==
    ASSUME NEW log, NEW n, Settled(log, n)
    PROVE  Settled(Append(log, P!Entry(n, "awaiting_approval")), n) /\ Parked(Append(log, P!Entry(n, "awaiting_approval")))
<1> DEFINE x == P!Entry(n, "awaiting_approval")
<1>1. PICK all : all = Append(log, x)
  OBVIOUS
<1>2. x.step = n /\ x.status = "awaiting_approval" /\ x.to = None /\ ~Accounts(x)
  BY DEF P!Entry, Accounts, P!Outcomes, P!Decisions
<1> HIDE DEF x
<1>3. n \in Nat \ {0} /\ Len(log) \in Nat /\ DOMAIN log = 1 .. Len(log)
  BY ListLength DEF Settled
<1>4. /\ IsList(all) /\ DOMAIN all = 1 .. Len(log) + 1
      /\ \A i \in DOMAIN log : i \in DOMAIN all /\ all[i] = log[i]
      /\ \A i \in DOMAIN all : i \notin DOMAIN log => all[i] = x
  BY <1>1, AppendFacts DEF Settled
<1>5. Settled(all, n)
  <2>1. \A k \in DOMAIN all : all[k].step \in 1 .. n /\ (Accounts(all[k]) => all[k].step < n /\ k \in DOMAIN log /\ all[k] = log[k])
    BY <1>2, <1>3, <1>4 DEF Settled
  <2>2. \A i \in 1 .. n - 1 : \E k \in DOMAIN all : all[k].step = i /\ Accounts(all[k])
    BY <1>4 DEF Settled
  <2>3. \A k, l \in DOMAIN all : all[k].step = all[l].step /\ Accounts(all[k]) /\ Accounts(all[l]) => k = l
    BY <2>1 DEF Settled
  <2>4. ASSUME NEW k \in DOMAIN all, all[k].to # None
        PROVE  /\ all[k].to \in 1 .. n
               /\ \A l \in DOMAIN all : all[l].step \in all[k].step + 1 .. all[k].to - 1 => all[l].status \notin {"success", "failed"}
    <3>1. k \in DOMAIN log /\ all[k] = log[k]
      BY <1>2, <1>4, <2>4
    <3>2. \A l \in DOMAIN all : l \notin DOMAIN log => all[l].status \notin {"success", "failed"}
      BY <1>2, <1>4
    <3> QED
      BY <1>4, <2>4, <3>1, <3>2 DEF Settled
  <2> QED
    BY <1>3, <1>4, <2>1, <2>2, <2>3, <2>4 DEF Settled
<1>6. Len(all) = Len(log) + 1 /\ Len(all) \in DOMAIN all /\ all[Len(all)] = x
  BY <1>3, <1>4, ListLength
<1>7. Parked(all)
  BY <1>2, <1>5, <1>6 DEF Parked
<1> QED
  BY <1>1, <1>5, <1>7 DEF x

LEMMA AppendIsJoin == ASSUME NEW log, IsList(log), NEW x PROVE Append(log, x) = log \o <<x>>
<1>1. PICK D : log \in Seq(D)
  BY DEF IsList
<1>2. log \in Seq(D \cup {x})
  BY <1>1, SeqMonotonic
<1> QED
  BY <1>2

\* The loop stays at the first step its log does not account for: the log settles no later one.
LEMMA OnwardStays ==
    ASSUME NEW p, DOMAIN p = PassFields, PassAccounts(p)
    PROVE  PassAccounts(P!Onward(p))
<1> DEFINE N == Len(P!PassSteps(p))
           InLog(i, status) == \E k \in DOMAIN p.log : p.log[k].step = i /\ p.log[k].status = status
           open == {i \in p.at .. N : ~InLog(i, "success") /\ ~InLog(i, "skipped")}
           next == IF open = {} THEN P!Max({p.at, N + 1}) ELSE P!Min(open)
           done == {i \in p.at .. next - 1 : InLog(i, "success")}
           last == IF done = {} THEN p.last ELSE P!Max(done)
<1>1. PICK n : Settled(p.log, n) /\ (p.at <= N => p.at = n)
  BY DEF PassAccounts
<1>2. p.draft \in DOMAIN Content /\ p.at \in Nat /\ N \in Nat /\ n \in Nat
  BY <1>1, ContentAssumption DEF PassAccounts, P!PassSteps, Settled
<1>3. P!Onward(p) = [p EXCEPT !.at = next, !.last = last]
  BY DEF P!Onward
<1>4. next = p.at
  <2>1. CASE p.at <= N
    <3>1. \A i \in p.at .. N : ~InLog(i, "success") /\ ~InLog(i, "skipped")
      <4> SUFFICES ASSUME NEW k \in DOMAIN p.log, p.log[k].status \in {"success", "skipped"}
                   PROVE  p.log[k].step < n
        BY <1>1, <1>2, <2>1
      <4>1. Accounts(p.log[k])
        BY DEF Accounts, P!Outcomes
      <4> QED
        BY <1>1, <4>1 DEF Settled
    <3>2. open = p.at .. N
      BY <3>1
    <3> HIDE DEF open, N
    <3>3. p.at \in open /\ \A y \in open : p.at <= y
      BY <1>2, <2>1, <3>2
    <3>4. open \subseteq Int
      BY <3>2
    <3>5. P!Min(open) = p.at
      <4> DEFINE least == CHOOSE x \in open : \A y \in open : x <= y
      <4>1. P!Min(open) = least
        BY DEF P!Min
      <4>2. least \in open /\ \A y \in open : least <= y
        BY <3>3
      <4> HIDE DEF least
      <4> QED
        BY <1>2, <3>3, <3>4, <4>1, <4>2
    <3> QED
      BY <3>3, <3>5
  <2>2. CASE ~(p.at <= N)
    <3>1. open = {}
      BY <1>2, <2>2
    <3> HIDE DEF open
    <3>2. next = P!Max({p.at, N + 1})
      BY <3>1
    <3> HIDE DEF N
    <3>3. P!Max({p.at, N + 1}) = p.at
      BY <1>2, <2>2 DEF P!Max
    <3> QED
      BY <3>2, <3>3
  <2> QED
    BY <2>1, <2>2
<1> HIDE DEF next, last
<1>5. PICK q : q = P!Onward(p)
  OBVIOUS
<1>6. q.at = p.at /\ q.log = p.log /\ q.draft = p.draft /\ q.born = p.born
  BY <1>3, <1>4, <1>5 DEF PassFields
<1>7. P!PassSteps(q) = P!PassSteps(p)
  BY <1>6 DEF P!PassSteps
<1>8. PassAccounts(q)
  BY <1>6, <1>7 DEF PassAccounts
<1> QED
  BY <1>5, <1>8

\* One turn of the loop: its entries settle the step at hand and what it jumps over.
LEMMA WentSettles ==
    ASSUME NEW w, PassFits(pass[w]), PassAccounts(pass[w]), pass[w].at <= Len(P!PassSteps(pass[w])),
           NEW entries, NEW next, NEW m, Settled(pass[w].log \o entries, m),
           \/ Head(entries).status = "success" /\ next = m
           \/ Head(entries).status # "success" /\ m = pass[w].at + 1
    PROVE  PassAccounts(P!Went(w, entries, next))
<1>1. PICK p : p = pass[w]
  OBVIOUS
<1> DEFINE ok == Head(entries).status = "success"
           at == IF ok THEN next ELSE IF P!PassSteps(p)[p.at].on_failure = "continue" THEN p.at + 1 ELSE Len(P!PassSteps(p)) + 1
           q == [p EXCEPT !.log = @ \o entries, !.last = IF ok THEN p.at ELSE @, !.failed = @ \/ ~ok, !.at = at]
<1>2. P!Went(w, entries, next) = P!Onward(q)
  BY <1>1 DEF P!Went
<1>3. DOMAIN p = PassFields
  BY <1>1 DEF PassFits
<1>4. DOMAIN q = PassFields /\ q.log = p.log \o entries /\ q.at = at /\ q.draft = p.draft /\ q.born = p.born
  BY <1>3 DEF PassFields
<1> HIDE DEF q
<1>5. P!PassSteps(q) = P!PassSteps(p)
  BY <1>4 DEF P!PassSteps
<1>6. p.draft \in DOMAIN Content /\ p.at \in Nat /\ Len(P!PassSteps(p)) \in Nat /\ m \in Nat
  BY <1>1, ContentAssumption DEF PassAccounts, P!PassSteps, Settled
<1>7. at \in Nat /\ (at <= Len(P!PassSteps(p)) => at = m)
  BY <1>1, <1>6
<1> HIDE DEF at
<1>8. \A i \in DOMAIN q.born : RowAccounts(q.born[i])
  BY <1>1, <1>4 DEF PassAccounts
<1>9. PassAccounts(q)
  BY <1>1, <1>4, <1>5, <1>6, <1>7, <1>8 DEF PassAccounts
<1> QED
  BY <1>2, <1>4, <1>9, OnwardStays

\* A turn with one entry.
LEMMA WentOne ==
    ASSUME NEW w, PassFits(pass[w]), PassAccounts(pass[w]), pass[w].at <= Len(P!PassSteps(pass[w])),
           NEW status \in {"success", "failed"}, NEW next, status = "success" => next = pass[w].at + 1
    PROVE  PassAccounts(P!Went(w, <<P!Entry(pass[w].at, status)>>, next))
<1> DEFINE x == P!Entry(pass[w].at, status)
<1>1. x.step = pass[w].at /\ x.status = status /\ x.to = None
  BY DEF P!Entry
<1>2. Settled(pass[w].log, pass[w].at)
  BY DEF PassAccounts
<1> HIDE DEF x
<1>3. Accounts(x)
  BY <1>1 DEF Accounts, P!Outcomes
<1>4. Settled(pass[w].log \o <<x>>, pass[w].at + 1)
  BY <1>1, <1>2, <1>3, SettledOne
<1>5. Head(<<x>>) = x
  OBVIOUS
<1>6. PassAccounts(P!Went(w, <<x>>, next))
  BY <1>1, <1>4, <1>5, WentSettles
<1> QED
  BY <1>6 DEF x

\* A branch's target lies behind it.
LEMMA TargetLiesAhead ==
    ASSUME NEW steps, Len(steps) \in Nat, DOMAIN steps = 1 .. Len(steps), NEW label, NEW i \in Nat, P!TargetIndex(steps, label, i) # None
    PROVE  P!TargetIndex(steps, label, i) \in Nat /\ P!TargetIndex(steps, label, i) > i
<1> DEFINE hits == {k \in DOMAIN steps : steps[k].label = label}
           j == P!LabelIndex(steps, label)
<1>1. hits # {} /\ j = CHOOSE x \in hits : \A y \in hits : y <= x
  BY DEF P!TargetIndex, P!LabelIndex
<1>2. \E x \in hits : \A y \in hits : y <= x
  <2> DEFINE rest == {Len(steps) - k : k \in hits}
  <2>1. \A k \in hits : k \in Nat /\ Len(steps) - k \in Nat /\ Len(steps) - k \in rest
    OBVIOUS
  <2> HIDE DEF hits
  <2>2. rest \in SUBSET Nat /\ rest # {}
    BY <1>1, <2>1
  <2> HIDE DEF rest
  <2>3. PICK r \in rest : \A y \in rest : r <= y
    BY <2>2, LeastExists
  <2>4. PICK x \in hits : r = Len(steps) - x
    BY <2>3 DEF rest
  <2> QED
    BY <2>1, <2>3, <2>4
<1>3. j \in hits
  BY <1>1, <1>2
<1>4. j \in Nat
  BY <1>3
<1> QED
  BY <1>4, ChainAssumption DEF P!TargetIndex

\* The gate a parked execution waits at is the step its log has come to.
LEMMA GateIsNext == ASSUME NEW e, Parked(run[e].log) PROVE Settled(run[e].log, P!GateOf(e)) /\ P!GateOf(e) \in Nat
<1>1. PICK log : log = run[e].log
  OBVIOUS
<1>2. PICK n : Settled(log, n) /\ Len(log) \in DOMAIN log /\ log[Len(log)].status = "awaiting_approval" /\ log[Len(log)].step = n
  BY <1>1 DEF Parked
<1>3. Len(log) \in Nat /\ DOMAIN log = 1 .. Len(log)
  BY <1>2, ListLength DEF Settled
<1> DEFINE askedAt == {i \in 1 .. Len(log) : log[i].status = "awaiting_approval"}
<1>4. P!SelectLastInSeq(log, LAMBDA entry : entry.status = "awaiting_approval") = IF askedAt # {} THEN P!Max(askedAt) ELSE 0
  BY DEF P!SelectLastInSeq
<1>5. Len(log) \in askedAt /\ \A i \in askedAt : i <= Len(log) /\ i \in Nat
  BY <1>2, <1>3
<1> HIDE DEF askedAt
<1>6. P!Max(askedAt) = Len(log)
  BY <1>3, <1>5 DEF P!Max
<1>7. P!GateOf(e) = n
  BY <1>1, <1>2, <1>4, <1>5, <1>6 DEF P!GateOf
<1> QED
  BY <1>1, <1>2, <1>7 DEF Settled

\* The answer to a gate accounts for it.
LEMMA SettledAnswer ==
    ASSUME NEW log, NEW n, Settled(log, n), NEW d \in P!Decisions
    PROVE  Settled(Append(log, P!Entry(n, d)), n + 1)
<1> DEFINE x == P!Entry(n, d)
<1>1. x.step = n /\ x.to = None /\ Accounts(x)
  BY DEF P!Entry, Accounts
<1> HIDE DEF x
<1>2. Settled(log \o <<x>>, n + 1)
  BY <1>1, SettledOne
<1>3. Append(log, x) = log \o <<x>>
  BY AppendIsJoin DEF Settled
<1> QED
  BY <1>2, <1>3 DEF x

-----------------------------------------------------------------------------
\* A pass begins where the log has come to, with the definition as it is now.
LEMMA PassBeginsThere ==
    ASSUME LogsInv, NEW e \in DOMAIN run, NEW from, NEW log, Settled(log, from), NEW last
    PROVE  PassAccounts(P!Pass(e, from, log, last))
<1> DEFINE p == [of |-> e, draft |-> definition[run[e].book].draft, at |-> from, log |-> log, last |-> last, failed |-> FALSE, born |-> <<>>]
<1>1. definition[run[e].book].draft \in DOMAIN Content
  BY DEF LogsInv, DefinitionsFit, RowAccounts
<1>2. from \in Nat /\ DOMAIN <<>> = {}
  BY DEF Settled
<1>3. PassAccounts(p) /\ DOMAIN p = PassFields
  BY <1>1, <1>2 DEF PassAccounts, PassFields
<1> HIDE DEF p
<1>4. PassAccounts(P!Onward(p))
  BY <1>3, OnwardStays
<1> QED
  BY <1>4 DEF P!Pass, p

\* An execution that was created has settled nothing.
LEMMA NewRunAccounts == \A b \in Playbooks : \A onAlert, parent, depth : RowAccounts(P!NewRun(b, onAlert, parent, depth))
<1> SUFFICES ASSUME NEW b \in Playbooks, NEW onAlert, NEW parent, NEW depth PROVE RowAccounts(P!NewRun(b, onAlert, parent, depth))
  OBVIOUS
<1> DEFINE r == P!NewRun(b, onAlert, parent, depth)
<1>1. r.book = b /\ r.status = "pending" /\ r.log = <<>> /\ r.last = 0
  BY DEF P!NewRun
<1> HIDE DEF r
<1>2. RowAccounts(r)
  BY <1>1, EmptySettled DEF RowAccounts
<1> QED
  BY <1>2 DEF r

\* A row rewritten.
LEMMA RowSettles ==
    ASSUME ChainInv, LogsInv, NEW e \in DOMAIN run, NEW row, run' = [run EXCEPT ![e] = row], RowAccounts(row),
           definition' = definition, pass' = pass
    PROVE  LogsInv'
<1>1. DOMAIN run' = DOMAIN run /\ \A x \in DOMAIN run : run'[x] = run[x] \/ run'[x] = row
  OBVIOUS
<1>2. \A x \in DOMAIN run' : RowAccounts(run'[x])
  BY <1>1 DEF LogsInv
<1> QED
  BY <1>2 DEF LogsInv, DefinitionsFit

\* Rows added that have settled nothing.
LEMMA RowsAdded ==
    ASSUME ChainInv, LogsInv, NEW added, IsList(added), run' = run \o added, \A i \in DOMAIN added : RowAccounts(added[i]),
           definition' = definition, pass' = pass
    PROVE  LogsInv'
<1>1. IsList(run)
  BY DEF ChainInv
<1>2. /\ \A i \in DOMAIN run : run'[i] = run[i]
      /\ \A i \in DOMAIN run' : i \notin DOMAIN run => i - Len(run) \in DOMAIN added /\ run'[i] = added[i - Len(run)]
  BY <1>1, JoinFacts
<1>3. \A x \in DOMAIN run' : RowAccounts(run'[x])
  BY <1>2 DEF LogsInv
<1> QED
  BY <1>3 DEF LogsInv, DefinitionsFit

LEMMA RowAdded ==
    ASSUME ChainInv, LogsInv, NEW b \in Playbooks, NEW onAlert, run' = Append(run, P!NewRun(b, onAlert, None, 0)),
           definition' = definition, pass' = pass
    PROVE  LogsInv'
<1>1. PICK r : r = P!NewRun(b, onAlert, None, 0) /\ RowAccounts(r)
  BY NewRunAccounts
<1>2. IsList(run)
  BY DEF ChainInv
<1>3. /\ \A i \in DOMAIN run : run'[i] = run[i]
      /\ \A i \in DOMAIN run' : i \notin DOMAIN run => run'[i] = r
  BY <1>1, <1>2, AppendFacts
<1>4. \A x \in DOMAIN run' : RowAccounts(run'[x])
  BY <1>1, <1>3 DEF LogsInv
<1> QED
  BY <1>4 DEF LogsInv, DefinitionsFit

\* A turn of one worker's pass, and its end without a commit.
LEMMA PassSettles ==
    ASSUME ChainInv, LogsInv, NEW w \in Workers, NEW p, pass' = [pass EXCEPT ![w] = p], p # None => PassAccounts(p),
           definition' = definition, run' = run
    PROVE  LogsInv'
<1>1. \A v \in Workers : pass'[v] = IF v = w THEN p ELSE pass[v]
  BY DEF ChainInv
<1>2. \A v \in Workers : pass'[v] # None => PassAccounts(pass'[v])
  BY <1>1 DEF LogsInv
<1> QED
  BY <1>2 DEF LogsInv, DefinitionsFit

\* The commit of a pass.
LEMMA CommitSettles ==
    ASSUME ChainInv, LogsInv, NEW w \in Workers, pass[w] # None, NEW status, NEW log, NEW ask,
           run' = P!Written(w, status, log, ask), pass' = [pass EXCEPT ![w] = None], definition' = definition,
           \E n : Settled(log, n), status # "pending", status = "awaiting_approval" => Parked(log)
    PROVE  LogsInv'
<1>0. PICK p, e, born : p = pass[w] /\ e = p.of /\ born = p.born
  OBVIOUS
<1> DEFINE row == [run[e] EXCEPT !.status = status, !.log = log, !.last = p.last, !.ask = ask]
           base == [run EXCEPT ![e] = row]
<1>1. run' = base \o born
  BY <1>0 DEF P!Written
<1>2. e \in DOMAIN run /\ IsList(born) /\ IsList(run) /\ \A i \in DOMAIN born : RowAccounts(born[i])
  BY <1>0 DEF ChainInv, PassFits, LogsInv, PassAccounts
<1>3. row.book = run[e].book /\ row.status = status /\ row.log = log
  BY <1>2 DEF ChainInv, RunFits, RunFields
<1> HIDE DEF row
<1>4. RowAccounts(row)
  BY <1>2, <1>3 DEF RowAccounts, LogsInv
<1>5. IsList(base) /\ \A x \in DOMAIN base : RowAccounts(base[x])
  BY <1>2, <1>4, ExceptIsList DEF LogsInv
<1> HIDE DEF base
<1>6. /\ \A i \in DOMAIN base : run'[i] = base[i]
      /\ \A i \in DOMAIN run' : i \notin DOMAIN base => i - Len(base) \in DOMAIN born /\ run'[i] = born[i - Len(base)]
  BY <1>1, <1>2, <1>5, JoinFacts
<1>7. \A x \in DOMAIN run' : RowAccounts(run'[x])
  BY <1>2, <1>5, <1>6
<1>8. \A v \in Workers : pass'[v] # None => PassAccounts(pass'[v])
  BY DEF ChainInv, LogsInv
<1> QED
  BY <1>7, <1>8 DEF LogsInv, DefinitionsFit

LEMMA OrchestrateSettles == ASSUME ChainInv, LogsInv, P!Orchestrate PROVE LogsInv'
<1>1. PICK added : run' = run \o added /\ IsList(added) /\ \A i \in DOMAIN added : \E b \in Playbooks : added[i] = P!NewRun(b, TRUE, None, 0)
  BY OrchestrateStarts
<1>2. \A i \in DOMAIN added : RowAccounts(added[i])
  BY <1>1, NewRunAccounts
<1> QED
  BY <1>1, <1>2, RowsAdded DEF P!Orchestrate

\* A refused execution: every later step is skipped, in the definition as it is now.
LEMMA RefuseSettles == ASSUME ChainInv, LogsInv, NEW e \in DOMAIN run, P!Refuse(e) PROVE LogsInv'
<1>1. PICK gate, log, upto, answer : /\ gate = P!GateOf(e) /\ log = run[e].log /\ upto = Len(P!StepsOf(run[e].book)) + 1 /\ answer = run[e].ask
  OBVIOUS
<1> DEFINE all == Append(log, P!Entry(gate, answer)) \o P!SkipEntries(gate + 1, upto)
           row == [run[e] EXCEPT !.status = "not_actioned", !.log = all]
<1>2. RowAccounts(run[e]) /\ Parked(log) /\ run[e].book \in Playbooks /\ answer \in P!Decisions
  BY <1>1 DEF P!Refuse, LogsInv, RowAccounts, P!Decisions
<1>3. Settled(log, gate) /\ gate \in Nat
  BY <1>1, <1>2, GateIsNext
<1>4. upto \in Nat
  <2>1. Len(P!StepsOf(run[e].book)) \in Nat
    BY <1>2, ContentAssumption DEF P!StepsOf, LogsInv, DefinitionsFit
  <2> QED
    BY <1>1, <2>1
<1>5. Settled(Append(log, P!Entry(gate, answer)), gate + 1)
  BY <1>2, <1>3, SettledAnswer
<1>6. \E n : Settled(all, n)
  BY <1>4, <1>5, SettledSkips
<1>7. run' = [run EXCEPT ![e].status = "not_actioned", ![e].log = all] /\ definition' = definition /\ pass' = pass
  BY <1>1 DEF P!Refuse
<1> HIDE DEF all
<1>8. row.book = run[e].book /\ row.status = "not_actioned" /\ row.log = all
  BY DEF ChainInv, RunFits, RunFields
<1>9. run' = [run EXCEPT ![e] = row]
  BY <1>7, <1>8
<1> HIDE DEF row
<1>10. RowAccounts(row)
  BY <1>2, <1>6, <1>8 DEF RowAccounts
<1> QED
  BY <1>7, <1>9, <1>10, RowSettles

LEMMA BranchSettles == ASSUME ChainInv, LogsInv, NEW w \in Workers, P!Branch(w) PROVE LogsInv'
<1>1. /\ pass[w] # None /\ pass[w].at <= Len(P!PassSteps(pass[w])) /\ run' = run /\ definition' = definition
      /\ PassFits(pass[w]) /\ PassAccounts(pass[w])
  BY DEF P!Branch, P!At, ChainInv, LogsInv
<1>2. PICK p, steps : p = pass[w] /\ steps = P!PassSteps(p)
  OBVIOUS
<1>3. p.at \in Nat /\ p.at + 1 \in Nat /\ Len(steps) \in Nat /\ DOMAIN steps = 1 .. Len(steps) /\ Settled(p.log, p.at)
  BY <1>1, <1>2, ContentAssumption DEF PassAccounts, P!PassSteps
<1>4. \E target : /\ target = None \/ (target \in Nat /\ target > p.at)
                  /\ \/ pass' = [pass EXCEPT ![w] = P!Went(w, <<P!Entry(p.at, "failed")>>, None)]
                     \/ /\ target # None
                        /\ pass' = [pass EXCEPT ![w] = P!Went(w, <<[P!Entry(p.at, "success") EXCEPT !.to = target]>> \o P!SkipEntries(p.at + 1, target), target)]
  <2> DEFINE s == steps[p.at]
             actual == P!Actual(s.condition, run[p.of], p.log)
             holds == P!Compare(actual, s.condition.op, P!Expected(s.condition))
             target == IF holds THEN P!TargetIndex(steps, s.goto_true, p.at)
                       ELSE IF s.goto_false # None THEN P!TargetIndex(steps, s.goto_false, p.at) ELSE p.at + 1
             taken == <<[P!Entry(p.at, "success") EXCEPT !.to = target]>> \o P!SkipEntries(p.at + 1, target)
  <2>1. pass' = [pass EXCEPT ![w] =
                      IF actual = None THEN P!Went(w, <<P!Entry(p.at, "failed")>>, None)
                      ELSE IF target = None THEN P!Went(w, <<P!Entry(p.at, "failed")>>, None)
                      ELSE P!Went(w, taken, target)]
    BY <1>2 DEF P!Branch
  <2>2. \A label : P!TargetIndex(steps, label, p.at) # None =>
            P!TargetIndex(steps, label, p.at) \in Nat /\ P!TargetIndex(steps, label, p.at) > p.at
    BY <1>3, TargetLiesAhead
  <2>3. target = None \/ (target \in Nat /\ target > p.at)
    <3> HIDE DEF holds, s
    <3>1. p.at + 1 > p.at
      BY <1>3
    <3> QED
      BY <1>3, <2>2, <3>1
  <2> HIDE DEF target, actual
  <2> QED
    BY <2>1, <2>3
<1>5. CASE pass' = [pass EXCEPT ![w] = P!Went(w, <<P!Entry(p.at, "failed")>>, None)]
  <2>1. PassAccounts(P!Went(w, <<P!Entry(p.at, "failed")>>, None))
    BY <1>1, <1>2, WentOne
  <2> QED
    BY <1>1, <1>5, <2>1, PassSettles
<1>6. ASSUME NEW target \in Nat, target > p.at,
             pass' = [pass EXCEPT ![w] = P!Went(w, <<[P!Entry(p.at, "success") EXCEPT !.to = target]>> \o P!SkipEntries(p.at + 1, target), target)]
      PROVE  LogsInv'
  <2>1. PICK taken : taken = <<[P!Entry(p.at, "success") EXCEPT !.to = target]>> \o P!SkipEntries(p.at + 1, target)
    OBVIOUS
  <2>2. Settled(p.log \o taken, target) /\ Head(taken).status = "success"
    BY <1>3, <1>6, <2>1, SettledJump
  <2>3. PassAccounts(P!Went(w, taken, target))
    BY <1>1, <1>2, <2>2, WentSettles
  <2> QED
    BY <1>1, <1>6, <2>1, <2>3, PassSettles
<1> QED
  BY <1>4, <1>5, <1>6

LEMMA TriggerPlaybookSettles == ASSUME ChainInv, LogsInv, NEW w \in Workers, P!TriggerPlaybook(w) PROVE LogsInv'
<1> DEFINE p == pass[w]
           b == P!PassSteps(p)[p.at].playbook
           onward == P!Went(w, <<P!Entry(p.at, "success")>>, p.at + 1)
           r == P!NewRun(b, TRUE, p.of, run[p.of].depth + 1)
           new == [onward EXCEPT !.born = Append(@, r)]
<1>1. /\ p # None /\ p.at <= Len(P!PassSteps(p)) /\ run' = run /\ definition' = definition /\ PassFits(p) /\ PassAccounts(p)
  BY DEF P!TriggerPlaybook, P!At, ChainInv, LogsInv
<1>2. PassAccounts(onward) /\ PassAccounts(P!Went(w, <<P!Entry(p.at, "failed")>>, None))
  BY <1>1, WentOne
<1>3. CASE pass' = [pass EXCEPT ![w] = onward] \/ pass' = [pass EXCEPT ![w] = P!Went(w, <<P!Entry(p.at, "failed")>>, None)]
  <2> HIDE DEF onward
  <2> QED
    BY <1>1, <1>2, <1>3, PassSettles
<1>4. CASE ~P!TriggerRefused(p.of, b) /\ pass' = [pass EXCEPT ![w] = new]
  <2>1. PassFits(onward)
    BY <1>1, WentFits
  <2>2. RowAccounts(r)
    BY <1>4, NewRunAccounts DEF P!TriggerRefused
  <2> HIDE DEF r, onward
  <2>3. /\ new.draft = onward.draft /\ new.at = onward.at /\ new.log = onward.log /\ new.born = Append(onward.born, r)
        /\ IsList(onward.born)
    BY <2>1 DEF PassFits, PassFields
  <2> HIDE DEF new
  <2>4. P!PassSteps(new) = P!PassSteps(onward)
    BY <2>3 DEF P!PassSteps
  <2>5. \A i \in DOMAIN new.born : RowAccounts(new.born[i])
    <3>1. /\ \A i \in DOMAIN onward.born : new.born[i] = onward.born[i]
          /\ \A i \in DOMAIN new.born : i \notin DOMAIN onward.born => new.born[i] = r
      BY <2>3, AppendFacts
    <3> QED
      BY <1>2, <2>2, <3>1 DEF PassAccounts
  <2>6. PassAccounts(new)
    BY <1>2, <2>3, <2>4, <2>5 DEF PassAccounts
  <2> QED
    BY <1>1, <1>4, <2>6, PassSettles
<1> QED
  BY <1>3, <1>4 DEF P!TriggerPlaybook

\* Every other step ends as a success or a failure.
LEMMA SimulateSettles == ASSUME ChainInv, LogsInv, NEW w \in Workers, P!Simulate(w) PROVE LogsInv'
<1> DEFINE s == P!PassSteps(pass[w])[pass[w].at]
<1>1. /\ pass[w] # None /\ pass[w].at <= Len(P!PassSteps(pass[w])) /\ run' = run /\ definition' = definition
      /\ PassFits(pass[w]) /\ PassAccounts(pass[w])
  BY DEF P!Simulate, P!At, ChainInv, LogsInv
<1>2. s.action \in {"block_ip", "notify_teams", "monitor", "flag_high_priority", "enrich_context"}
  BY DEF P!Simulate, P!At
<1>3. PICK o \in P!StepOutcomes(s, run[pass[w].of]) : pass' = [pass EXCEPT ![w] = P!Went(w, <<P!Entry(pass[w].at, o)>>, pass[w].at + 1)]
  BY DEF P!Simulate
<1> HIDE DEF s
<1>4. o \in {"success", "failed"}
  BY <1>2, <1>3 DEF P!StepOutcomes, P!BlockOutcomes, P!NotifyOutcomes, P!ResponseOutcomes, P!EnrichOutcomes
<1>5. PassAccounts(P!Went(w, <<P!Entry(pass[w].at, o)>>, pass[w].at + 1))
  BY <1>1, <1>4, WentOne
<1> QED
  BY <1>1, <1>3, <1>5, PassSettles

\* The logs before any execution.
LEMMA LogsBegin == P!Init => LogsInv
<1> SUFFICES ASSUME P!Init PROVE LogsInv
  OBVIOUS
<1>1. run = <<>> /\ DOMAIN <<>> = {} /\ pass = [w \in Workers |-> None]
  BY DEF P!Init
<1>2. PICK d \in [Playbooks -> DOMAIN Content] : definition = [b \in Playbooks |-> [enabled |-> TRUE, draft |-> d[b]]]
  BY DEF P!Init
<1>3. DefinitionsFit
  <2> SUFFICES ASSUME NEW b \in Playbooks PROVE DOMAIN definition[b] = {"enabled", "draft"} /\ definition[b].draft \in DOMAIN Content
    BY <1>2 DEF DefinitionsFit
  <2>1. definition[b] = [enabled |-> TRUE, draft |-> d[b]] /\ d[b] \in DOMAIN Content
    BY <1>2
  <2> QED
    BY <2>1
<1> QED
  BY <1>1, <1>3 DEF LogsInv

\* Definitions are saved and switched; the logs stay.
LEMMA DefinitionSettles ==
    ASSUME LogsInv, NEW b \in Playbooks, NEW one, DOMAIN one = {"enabled", "draft"}, one.draft \in DOMAIN Content,
           definition' = [definition EXCEPT ![b] = one], run' = run, pass' = pass
    PROVE  LogsInv'
<1>1. \A x \in Playbooks : definition'[x] = IF x = b THEN one ELSE definition[x]
  BY DEF LogsInv, DefinitionsFit
<1>2. DefinitionsFit'
  BY <1>1 DEF LogsInv, DefinitionsFit
<1> QED
  BY <1>2 DEF LogsInv

LEMMA LogsStep == ChainInv /\ LogsInv /\ [P!Next]_(P!stepVars) => LogsInv'
<1> SUFFICES ASSUME ChainInv, LogsInv, [P!Next]_(P!stepVars) PROVE LogsInv'
  OBVIOUS
<1>1. ASSUME NEW b \in Playbooks, P!SaveDefinition(b) PROVE LogsInv'
  <2>1. PICK d \in Drafts[b], value \in BOOLEAN : definition' = [definition EXCEPT ![b] = [enabled |-> value, draft |-> d]]
    BY <1>1 DEF P!SaveDefinition, P!Saved
  <2>2. run' = run /\ pass' = pass /\ d \in DOMAIN Content
    BY <1>1, ContentAssumption DEF P!SaveDefinition
  <2> QED
    BY <2>1, <2>2, DefinitionSettles
<1>2. ASSUME NEW b \in Playbooks, NEW value, P!SetEnabled(b, value) PROVE LogsInv'
  <2> DEFINE one == [definition[b] EXCEPT !.enabled = value]
  <2>1. definition' = [definition EXCEPT ![b] = one] /\ run' = run /\ pass' = pass
    BY <1>2 DEF P!SetEnabled
  <2>2. DOMAIN one = {"enabled", "draft"} /\ one.draft \in DOMAIN Content
    BY DEF LogsInv, DefinitionsFit
  <2> HIDE DEF one
  <2> QED
    BY <2>1, <2>2, DefinitionSettles
<1>3. ASSUME NEW b \in Playbooks, NEW onAlert, P!Trigger(b, onAlert) PROVE LogsInv'
  BY <1>3, RowAdded DEF P!Trigger
<1>4. ASSUME NEW e \in DOMAIN run, P!Retry(e) PROVE LogsInv'
  <2>1. run[e].book \in Playbooks
    BY DEF LogsInv, RowAccounts
  <2> QED
    BY <1>4, <2>1, RowAdded DEF P!Retry
<1>5. ASSUME NEW e \in DOMAIN run, P!Decide(e) PROVE LogsInv'
  <2>1. PICK d : run' = [run EXCEPT ![e].ask = d] /\ definition' = definition /\ pass' = pass
    BY <1>5 DEF P!Decide
  <2> DEFINE row == [run[e] EXCEPT !.ask = d]
  <2>2. row.book = run[e].book /\ row.status = run[e].status /\ row.log = run[e].log /\ row.last = run[e].last
    BY DEF ChainInv, RunFits, RunFields
  <2>3. run' = [run EXCEPT ![e] = row]
    BY <2>1
  <2> HIDE DEF row
  <2>4. RowAccounts(row)
    BY <2>2 DEF LogsInv, RowAccounts
  <2> QED
    BY <2>1, <2>3, <2>4, RowSettles
<1>6. ASSUME NEW w \in Workers, NEW e \in DOMAIN run, P!Begin(w, e) PROVE LogsInv'
  <2>1. run[e].log = <<>> /\ run[e].last = 0 /\ run' = run /\ definition' = definition
        /\ pass' = [pass EXCEPT ![w] = P!Pass(e, run[e].last + 1, run[e].log, run[e].last)]
    BY <1>6 DEF P!Begin, LogsInv, RowAccounts
  <2>2. Settled(run[e].log, run[e].last + 1)
    BY <2>1, EmptySettled
  <2>3. PassAccounts(P!Pass(e, run[e].last + 1, run[e].log, run[e].last))
    BY <2>2, PassBeginsThere
  <2> QED
    BY <2>1, <2>3, PassSettles
<1>7. ASSUME NEW w \in Workers, NEW e \in DOMAIN run, P!Resume(w, e) PROVE LogsInv'
  <2>1. PICK gate, log : gate = P!GateOf(e) /\ log = Append(run[e].log, P!Entry(gate, run[e].ask))
    OBVIOUS
  <2>2. /\ Parked(run[e].log) /\ run[e].ask \in P!Decisions
        /\ pass' = [pass EXCEPT ![w] = P!Pass(e, gate + 1, log, gate)] /\ run' = run /\ definition' = definition
    BY <1>7, <2>1 DEF P!Resume, LogsInv, RowAccounts, P!Decisions
  <2>3. Settled(log, gate + 1)
    <3>1. Settled(run[e].log, gate)
      BY <2>1, <2>2, GateIsNext
    <3> QED
      BY <2>1, <2>2, <3>1, SettledAnswer
  <2>4. PassAccounts(P!Pass(e, gate + 1, log, gate))
    BY <2>3, PassBeginsThere
  <2> QED
    BY <2>2, <2>4, PassSettles
<1>8. ASSUME NEW w \in Workers, P!Park(w) PROVE LogsInv'
  <2>1. PICK at, log, all : at = pass[w].at /\ log = pass[w].log /\ all = Append(log, P!Entry(at, "awaiting_approval"))
    OBVIOUS
  <2>2. /\ pass[w] # None /\ run' = P!Written(w, "awaiting_approval", all, "pending") /\ pass' = [pass EXCEPT ![w] = None]
        /\ definition' = definition /\ PassAccounts(pass[w]) /\ at <= Len(P!PassSteps(pass[w]))
    BY <1>8, <2>1 DEF P!Park, P!At, LogsInv
  <2>3. Settled(log, at)
    BY <2>1, <2>2 DEF PassAccounts
  <2>4. Settled(all, at) /\ Parked(all)
    BY <2>1, <2>3, SettledPark
  <2> QED
    BY <2>2, <2>4, CommitSettles
<1>9. ASSUME NEW w \in Workers, P!Finish(w) PROVE LogsInv'
  <2>1. PICK status, log : /\ status \in {"failed", "success"} /\ log = pass[w].log /\ run' = P!Written(w, status, log, None)
    BY <1>9 DEF P!Finish
  <2>2. pass[w] # None /\ pass' = [pass EXCEPT ![w] = None] /\ definition' = definition /\ \E n : Settled(log, n)
    BY <1>9, <2>1 DEF P!Finish, LogsInv, PassAccounts
  <2>3. status # "pending" /\ status # "awaiting_approval"
    BY <2>1
  <2> QED
    BY <2>1, <2>2, <2>3, CommitSettles
<1>10. ASSUME NEW w \in Workers, P!Rollback(w) PROVE LogsInv'
  BY <1>10, PassSettles DEF P!Rollback
<1>11. CASE UNCHANGED P!stepVars
  BY <1>11 DEF P!stepVars, LogsInv, DefinitionsFit
<1> QED
  BY <1>1, <1>2, <1>3, <1>4, <1>5, <1>6, <1>7, <1>8, <1>9, <1>10, <1>11, OrchestrateSettles, RefuseSettles, BranchSettles,
     TriggerPlaybookSettles, SimulateSettles
  DEF P!Next

\* One entry at most accounts for a step, and exactly one for a step before the last.
LEMMA OneOrNone ==
    ASSUME NEW D, \A k, l \in D : k = l
    PROVE  (D = {} /\ P!Cardinality(D) = 0) \/ ((\E k : D = {k}) /\ P!Cardinality(D) = 1)
<1>1. CASE D = {}
  BY <1>1, FS_EmptySet, Zenon DEF P!Cardinality, Cardinality
<1>2. CASE D # {}
  <2>1. PICK k : D = {k}
    BY <1>2
  <2>2. Cardinality(D) = 1
    BY <2>1, FS_Singleton
  <2> QED
    BY <2>1, <2>2, Zenon DEF P!Cardinality, Cardinality
<1> QED
  BY <1>1, <1>2

\* The property follows from the invariant.
LEMMA LogsInvIsEnough == LogsInv => EveryStepAccounted
<1> SUFFICES ASSUME LogsInv, NEW e \in DOMAIN run
             PROVE  LET log == run[e].log
                        Of(i, among) == {k \in DOMAIN log : log[k].step = i /\ log[k].status \in among}
                    IN  \A k \in DOMAIN log :
                          /\ \A i \in 1 .. log[k].step - 1 : P!Cardinality(Of(i, P!Outcomes)) + P!Cardinality(Of(i, P!Decisions)) = 1
                          /\ P!Cardinality(Of(log[k].step, P!Outcomes)) + P!Cardinality(Of(log[k].step, P!Decisions)) <= 1
                          /\ log[k].to # None => \A i \in log[k].step + 1 .. log[k].to - 1 : Of(i, {"success", "failed"}) = {}
  BY DEF EveryStepAccounted, P!EveryStepAccounted
<1> DEFINE log == run[e].log
           Of(i, among) == {k \in DOMAIN log : log[k].step = i /\ log[k].status \in among}
<1>1. PICK n : Settled(log, n)
  BY DEF LogsInv, RowAccounts
<1> HIDE DEF log
<1>2. P!Outcomes \cap P!Decisions = {}
  BY DEF P!Outcomes, P!Decisions
<1>3. ASSUME NEW i
      PROVE  /\ P!Cardinality(Of(i, P!Outcomes)) + P!Cardinality(Of(i, P!Decisions)) <= 1
             /\ (\E k \in DOMAIN log : log[k].step = i /\ Accounts(log[k])) =>
                   P!Cardinality(Of(i, P!Outcomes)) + P!Cardinality(Of(i, P!Decisions)) = 1
  <2>1. \A k, l \in Of(i, P!Outcomes) \cup Of(i, P!Decisions) : k = l
    BY <1>1 DEF Settled, Accounts
  <2>2. Of(i, P!Outcomes) = {} \/ Of(i, P!Decisions) = {}
    BY <1>2, <2>1
  <2>3. (\E k \in DOMAIN log : log[k].step = i /\ Accounts(log[k])) => Of(i, P!Outcomes) # {} \/ Of(i, P!Decisions) # {}
    BY DEF Accounts
  <2> HIDE DEF Of
  <2>4. \A D \in {Of(i, P!Outcomes), Of(i, P!Decisions)} : (D = {} /\ P!Cardinality(D) = 0) \/ (D # {} /\ P!Cardinality(D) = 1)
    <3> SUFFICES ASSUME NEW D \in {Of(i, P!Outcomes), Of(i, P!Decisions)}
                 PROVE  (D = {} /\ P!Cardinality(D) = 0) \/ (D # {} /\ P!Cardinality(D) = 1)
      OBVIOUS
    <3>1. \A k, l \in D : k = l
      BY <2>1
    <3> QED
      BY <3>1, OneOrNone
  <2> QED
    BY <2>2, <2>3, <2>4
<1>4. ASSUME NEW k \in DOMAIN log, NEW i \in 1 .. log[k].step - 1 PROVE \E l \in DOMAIN log : log[l].step = i /\ Accounts(log[l])
  <2>1. log[k].step \in 1 .. n /\ n \in Nat
    BY <1>1 DEF Settled
  <2>2. i \in 1 .. n - 1
    BY <2>1
  <2> QED
    BY <1>1, <2>2 DEF Settled
<1>5. ASSUME NEW k \in DOMAIN log, log[k].to # None, NEW i \in log[k].step + 1 .. log[k].to - 1 PROVE Of(i, {"success", "failed"}) = {}
  BY <1>1, <1>5 DEF Settled
<1> HIDE DEF Of
<1>6. \A k \in DOMAIN log :
        /\ \A i \in 1 .. log[k].step - 1 : P!Cardinality(Of(i, P!Outcomes)) + P!Cardinality(Of(i, P!Decisions)) = 1
        /\ P!Cardinality(Of(log[k].step, P!Outcomes)) + P!Cardinality(Of(log[k].step, P!Decisions)) <= 1
        /\ log[k].to # None => \A i \in log[k].step + 1 .. log[k].to - 1 : Of(i, {"success", "failed"}) = {}
  BY <1>3, <1>4, <1>5
<1> QED
  BY <1>6 DEF log, Of

\* Every log settles its steps one by one, and every pass stands where its log ends.
THEOREM LogsInductive == P!Spec => []LogsInv
<1> QED
  BY LogsBegin, LogsStep, ChainsInductive, PTL DEF P!Spec

\* Every step an execution has gone past was done, failed, skipped or decided exactly once, and what a
\* branch jumped over never ran, however definitions are edited while executions are parked.
THEOREM StepsAreAccounted == P!Spec => []EveryStepAccounted
<1> QED
  BY LogsInductive, LogsInvIsEnough, PTL
=============================================================================
