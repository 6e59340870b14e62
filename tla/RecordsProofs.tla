---------------------------- MODULE RecordsProofs ----------------------------
(***************************************************************************)
(* Proofs about the stores that keep records about an alert, for any number *)
(* of connections, analysts, records and alerts.                            *)
(***************************************************************************)
EXTENDS MCRecords, FiniteSetTheorems, TLAPS
-----------------------------------------------------------------------------
(* Workspaces: what the analysts' bundles rest on.                          *)

\* The columns of a task that name another record, each the name of that record's kind.
Columns == {"hypothesis", "evidence"}
RecordRows == [owner : Analysts, kind : W!Kinds, status : {"open", "closed"},
               hypothesis : Nat \cup {None}, evidence : Nat \cup {None}]

RecordTypes ==
    /\ workspace \subseteq Analysts
    /\ issued \in Nat
    /\ DOMAIN record \subseteq 1 .. issued
    /\ record \in [DOMAIN record -> RecordRows]
    /\ pin \in [Analysts -> [References -> Nat \cup {None}]]

\* The records of an analyst with a workspace; only tasks name others, of the right kind
\* and the same analyst.
RecordsLinked ==
    \A id \in DOMAIN record :
        /\ record[id].owner \in workspace
        /\ \A c \in Columns : record[id][c] # None =>
              /\ record[id].kind = "task"
              /\ record[id][c] \in DOMAIN record
              /\ record[record[id][c]].kind = c /\ record[record[id][c]].owner = record[id].owner

PinsHaveWorkspace == \A o \in Analysts, r \in References : pin[o][r] # None => o \in workspace

\* What a request checked may be gone when it writes, but it is never another record: of
\* the n ids given out, none is given out again.
Named(rec, n, o, c, id) ==
    id # None => id \in 1 .. n /\ (id \in DOMAIN rec => rec[id].kind = c /\ rec[id].owner = o)

\* What request w is about to write is its analyst's own, over the workspaces ws, n ids and
\* the records rec.
Fits(w, ws, n, rec) ==
    /\ w.op # "none" => w.owner \in Analysts
    /\ w.op \in {"create", "pin", "reorder"} => w.created \/ w.owner \in ws
    /\ w.op = "create" =>
          /\ w.row \in RecordRows /\ w.row.owner = w.owner
          /\ \A c \in Columns : Named(rec, n, w.owner, c, w.row[c]) /\ (w.row[c] # None => w.row.kind = "task")
    /\ w.op = "update" =>
          /\ w.id \in 1 .. n
          /\ w.id \in DOMAIN rec => rec[w.id].owner = w.owner
          /\ \/ \E st \in {"open", "closed"} : w.row = [status |-> st]
             \/ w.row = [body |-> None]
             \/ /\ w.id \in DOMAIN rec => rec[w.id].kind = "task"
                /\ \E id \in Nat \cup {None} :
                     \/ w.row = [hypothesis |-> id] /\ Named(rec, n, w.owner, "hypothesis", id)
                     \/ w.row = [evidence |-> id] /\ Named(rec, n, w.owner, "evidence", id)
    /\ w.op = "pin" => w.refs[1] \in References
    /\ w.op = "reorder" => DOMAIN w.refs \subseteq Nat

RequestsFit == \A q \in Requests : Fits(request[q], workspace, issued, record)

BundleInv == RecordTypes /\ RecordsLinked /\ PinsHaveWorkspace /\ RequestsFit
-----------------------------------------------------------------------------
\* Requests keep fitting while no id is reused and no record changes owner or kind.
LEMMA FitsStay ==
    ASSUME NEW w, NEW ws, NEW ws2, NEW n \in Nat, NEW m \in Nat, NEW rec, NEW rec2,
           Fits(w, ws, n, rec), ws \subseteq ws2, n <= m,
           \A id \in 1 .. n : id \in DOMAIN rec2 =>
               id \in DOMAIN rec /\ rec2[id].owner = rec[id].owner /\ rec2[id].kind = rec[id].kind
    PROVE  Fits(w, ws2, m, rec2)
<1>1. \A o, c, id : Named(rec, n, o, c, id) => Named(rec2, m, o, c, id)
  BY DEF Named
<1>2. w.op = "update" => w.id \in 1 .. n /\ w.id \in 1 .. m
  BY DEF Fits
<1> QED
  BY <1>1, <1>2 DEF Fits

\* A write ends its request and disturbs no other one.
LEMMA WriteEnds ==
    ASSUME BundleInv, NEW q \in Requests, W!Done(q), workspace \subseteq workspace',
           issued' \in Nat, issued <= issued',
           \A id \in 1 .. issued : id \in DOMAIN record' =>
               id \in DOMAIN record /\ record'[id].owner = record[id].owner /\ record'[id].kind = record[id].kind
    PROVE  RequestsFit'
<1> SUFFICES ASSUME NEW p \in Requests PROVE Fits(request'[p], workspace', issued', record')
  BY DEF RequestsFit
<1>1. request'[p] = request[p] \/ request'[p] = W!Quiet
  BY DEF W!Done
<1>2. CASE request'[p] = request[p]
  <2>1. Fits(request[p], workspace, issued, record) /\ issued \in Nat
    BY DEF BundleInv, RequestsFit, RecordTypes
  <2> QED
    BY <1>2, <2>1, FitsStay
<1>3. CASE request'[p] = W!Quiet
  BY <1>3 DEF Fits, W!Quiet
<1> QED
  BY <1>1, <1>2, <1>3

\* A request that fits may be asked.
LEMMA AskKeeps ==
    ASSUME BundleInv, NEW q \in Requests, NEW o \in Analysts, NEW what, W!Ask(q, o, what),
           Fits(what, workspace, issued, record)
    PROVE  BundleInv'
<1>1. UNCHANGED <<workspace, record, pin, issued>> /\ request' = [request EXCEPT ![q] = what]
  BY DEF W!Ask
<1>2. RequestsFit'
  BY <1>1 DEF BundleInv, RequestsFit
<1>3. RecordTypes' /\ RecordsLinked' /\ PinsHaveWorkspace'
  BY <1>1 DEF BundleInv, RecordTypes, RecordsLinked, PinsHaveWorkspace
<1> QED
  BY <1>2, <1>3 DEF BundleInv

\* The records an analyst may name are there and the analyst's.
LEMMA RefsAreNamed ==
    ASSUME BundleInv, NEW o \in Analysts
    PROVE  /\ \A id \in W!Hypothesis(o) \cup {None} : id \in Nat \cup {None} /\ Named(record, issued, o, "hypothesis", id)
           /\ \A id \in W!EvidenceRef(o) \cup {None} : id \in Nat \cup {None} /\ Named(record, issued, o, "evidence", id)
<1>1. DOMAIN record \subseteq 1 .. issued /\ issued \in Nat
  BY DEF BundleInv, RecordTypes
<1> QED
  BY <1>1 DEF W!Hypothesis, W!EvidenceRef, W!Owned, Named

\* Every request a route begins fits.
LEMMA AsksKeep ==
    ASSUME BundleInv, NEW q \in Requests, NEW o \in Analysts,
           \/ W!AskCreate(q, o) \/ W!AskInvestigation(q, o) \/ W!AskPin(q, o) \/ W!AskReorder(q, o)
           \/ W!AskUpdate(q, o) \/ W!AskDelete(q, o)
    PROVE  BundleInv'
<1>1. CASE W!AskCreate(q, o)
  <2>1. PICK row \in W!NewRows(o) : W!Ask(q, o, [W!Creating(o, "create") EXCEPT !.row = row])
    BY <1>1 DEF W!AskCreate
  <2>2. /\ row \in RecordRows /\ row.owner = o
        /\ \A c \in Columns : Named(record, issued, o, c, row[c]) /\ (row[c] # None => row.kind = "task")
    <3>1. CASE row \in {W!NoteRow(o), W!HypothesisRow(o), W!EvidenceRow(o)} \cup W!InvestigationRows(o)
      <4>1. PICK kind \in W!Kinds, st \in {"open", "closed"} : row = W!Row(o, kind, st)
        BY <3>1 DEF W!NoteRow, W!HypothesisRow, W!EvidenceRow, W!InvestigationRows, W!Kinds
      <4> QED
        BY <4>1 DEF W!Row, RecordRows, Columns, Named
    <3>2. CASE row \in W!TaskRows(o)
      <4>1. PICK r \in W!ChildRefs(o) : row = [W!Row(o, "task", "open") EXCEPT !.hypothesis = r.hypothesis, !.evidence = r.evidence]
        BY <3>2 DEF W!TaskRows
      <4>2. /\ row = [owner |-> o, kind |-> "task", status |-> "open", hypothesis |-> r.hypothesis, evidence |-> r.evidence]
            /\ r.hypothesis \in W!Hypothesis(o) \cup {None} /\ r.evidence \in W!EvidenceRef(o) \cup {None}
        BY <4>1 DEF W!Row, W!ChildRefs
      <4>3. /\ r.hypothesis \in Nat \cup {None} /\ Named(record, issued, o, "hypothesis", r.hypothesis)
            /\ r.evidence \in Nat \cup {None} /\ Named(record, issued, o, "evidence", r.evidence)
        BY <4>2, RefsAreNamed
      <4> QED
        BY <4>2, <4>3 DEF RecordRows, W!Kinds, Columns
    <3> QED
      BY <3>1, <3>2 DEF W!NewRows
  <2>3. Fits([W!Creating(o, "create") EXCEPT !.row = row], workspace, issued, record)
    BY <2>2 DEF Fits, W!Creating, W!Quiet
  <2> QED
    BY <2>1, <2>3, AskKeeps
<1>2. CASE W!AskInvestigation(q, o)
  <2>1. W!Ask(q, o, W!Creating(o, "inside"))
    BY <1>2 DEF W!AskInvestigation
  <2>2. Fits(W!Creating(o, "inside"), workspace, issued, record)
    BY DEF Fits, W!Creating, W!Quiet
  <2> QED
    BY <2>1, <2>2, AskKeeps
<1>3. CASE W!AskPin(q, o)
  <2>1. PICK r \in References : W!Ask(q, o, [W!Creating(o, "pin") EXCEPT !.refs = <<r>>])
    BY <1>3 DEF W!AskPin
  <2>2. Fits([W!Creating(o, "pin") EXCEPT !.refs = <<r>>], workspace, issued, record)
    BY DEF Fits, W!Creating, W!Quiet
  <2> QED
    BY <2>1, <2>2, AskKeeps
<1>4. CASE W!AskReorder(q, o)
  <2>0. PICK a, b \in References : W!Ask(q, o, [W!Creating(o, "reorder") EXCEPT !.refs = IF a = b THEN <<a>> ELSE <<a, b>>])
    BY <1>4 DEF W!AskReorder
  <2> DEFINE names == IF a = b THEN <<a>> ELSE <<a, b>>
  <2>1. W!Ask(q, o, [W!Creating(o, "reorder") EXCEPT !.refs = names])
    BY <2>0
  <2>3. DOMAIN names \subseteq Nat
    OBVIOUS
  <2> HIDE DEF names
  <2>2. Fits([W!Creating(o, "reorder") EXCEPT !.refs = names], workspace, issued, record)
    BY <2>3 DEF Fits, W!Creating, W!Quiet
  <2> QED
    BY <2>1, <2>2, AskKeeps
<1>5. CASE W!AskUpdate(q, o)
  <2> DEFINE what(name, row) == [W!Quiet EXCEPT !.owner = o, !.op = "update", !.id = name, !.row = row]
  <2>0. PICK id \in DOMAIN record : W!Owned(o, id) /\ \E row \in W!Changes(o, id) : W!Ask(q, o, what(id, row))
    BY <1>5 DEF W!AskUpdate
  <2>1. PICK row \in W!Changes(o, id) : W!Ask(q, o, what(id, row))
    BY <2>0
  <2>2. \/ \E st \in {"open", "closed"} : row = [status |-> st]
        \/ row = [body |-> None]
        \/ /\ record[id].kind = "task"
           /\ \/ \E h \in W!Hypothesis(o) \cup {None} : row = [hypothesis |-> h]
              \/ \E v \in W!EvidenceRef(o) \cup {None} : row = [evidence |-> v]
    BY DEF W!Changes
  <2>3. \/ \E st \in {"open", "closed"} : row = [status |-> st]
        \/ row = [body |-> None]
        \/ /\ record[id].kind = "task"
           /\ \E ref \in Nat \cup {None} :
                \/ row = [hypothesis |-> ref] /\ Named(record, issued, o, "hypothesis", ref)
                \/ row = [evidence |-> ref] /\ Named(record, issued, o, "evidence", ref)
    BY <2>2, RefsAreNamed
  <2>4. id \in 1 .. issued /\ record[id].owner = o
    BY <2>0 DEF W!Owned, BundleInv, RecordTypes
  <2>5. Fits(what(id, row), workspace, issued, record)
    BY <2>3, <2>4 DEF Fits, W!Quiet
  <2> QED
    BY <2>1, <2>5, AskKeeps
<1>6. CASE W!AskDelete(q, o)
  <2>1. CASE \E x \in DOMAIN record : W!Owned(o, x) /\ W!Ask(q, o, [W!Quiet EXCEPT !.owner = o, !.op = "delete", !.id = x])
    <3>1. PICK x : W!Ask(q, o, [W!Quiet EXCEPT !.owner = o, !.op = "delete", !.id = x])
      BY <2>1
    <3>2. Fits([W!Quiet EXCEPT !.owner = o, !.op = "delete", !.id = x], workspace, issued, record)
      BY DEF Fits, W!Quiet
    <3> QED
      BY <3>1, <3>2, AskKeeps
  <2>2. CASE \E r \in References : pin[o][r] # None /\ W!Ask(q, o, [W!Quiet EXCEPT !.owner = o, !.op = "unpin", !.refs = <<r>>])
    <3>1. PICK r : W!Ask(q, o, [W!Quiet EXCEPT !.owner = o, !.op = "unpin", !.refs = <<r>>])
      BY <2>2
    <3>2. Fits([W!Quiet EXCEPT !.owner = o, !.op = "unpin", !.refs = <<r>>], workspace, issued, record)
      BY DEF Fits, W!Quiet
    <3> QED
      BY <3>1, <3>2, AskKeeps
  <2> QED
    BY <1>6, <2>1, <2>2 DEF W!AskDelete
<1> QED
  BY <1>1, <1>2, <1>3, <1>4, <1>5, <1>6

\* An error rolls everything back.
LEMMA RefusedKeeps ==
    ASSUME BundleInv, NEW q \in Requests, W!Refused(q)
    PROVE  BundleInv'
<1>1. UNCHANGED <<workspace, record, pin, issued>> /\ W!Done(q)
  BY DEF W!Refused
<1>2. RequestsFit'
  BY <1>1, WriteEnds DEF BundleInv, RecordTypes
<1> QED
  BY <1>1, <1>2 DEF BundleInv, RecordTypes, RecordsLinked, PinsHaveWorkspace

\* The owner of a request that writes has a workspace once it is written.
LEMMA OwnerHasWorkspace ==
    ASSUME BundleInv, NEW q \in Requests, request[q].op \in {"create", "pin", "reorder"}, W!WithWorkspace(request[q])
    PROVE  /\ request[q].owner \in Analysts /\ request[q].owner \in workspace'
           /\ workspace \subseteq workspace' /\ workspace' \subseteq Analysts
<1>1. Fits(request[q], workspace, issued, record) /\ workspace \subseteq Analysts
  BY DEF BundleInv, RequestsFit, RecordTypes
<1> QED
  BY <1>1 DEF Fits, W!WithWorkspace

\* A new record takes an id nobody had, and links to what is still there.
LEMMA CreateKeeps ==
    ASSUME BundleInv, NEW q \in Requests, W!Create(q)
    PROVE  BundleInv'
<1> DEFINE w == request[q]
<1>1. /\ w.op = "create" /\ W!ReferencesExist(w.row) /\ W!Done(q) /\ UNCHANGED pin
      /\ issued' = issued + 1
      /\ record' = [id \in DOMAIN record \cup {issued'} |-> IF id = issued' THEN w.row ELSE record[id]]
  BY DEF W!Create
<1>2. /\ w.owner \in Analysts /\ w.owner \in workspace' /\ workspace \subseteq workspace' /\ workspace' \subseteq Analysts
  BY <1>1, OwnerHasWorkspace DEF W!Create
<1>3. /\ issued \in Nat /\ issued' \in Nat /\ issued' \notin 1 .. issued /\ DOMAIN record \subseteq 1 .. issued
      /\ 1 .. issued \subseteq 1 .. issued' /\ issued' \in 1 .. issued' /\ issued <= issued'
  BY <1>1 DEF BundleInv, RecordTypes
<1>4. /\ DOMAIN record' = DOMAIN record \cup {issued'} /\ record'[issued'] = w.row
      /\ \A id \in DOMAIN record : record'[id] = record[id]
  BY <1>1, <1>3
<1>5. /\ w.row \in RecordRows /\ w.row.owner = w.owner
      /\ \A c \in Columns : Named(record, issued, w.owner, c, w.row[c]) /\ (w.row[c] # None => w.row.kind = "task")
  BY <1>1 DEF BundleInv, RequestsFit, Fits
<1>6. RecordTypes'
  <2>1. record' \in [DOMAIN record' -> RecordRows]
    BY <1>1, <1>4, <1>5 DEF BundleInv, RecordTypes
  <2> QED
    BY <1>1, <1>2, <1>3, <1>4, <2>1 DEF BundleInv, RecordTypes
<1>7. RecordsLinked'
  <2>1. \A c \in Columns : w.row[c] # None => w.row[c] \in DOMAIN record
    BY <1>1, <1>5 DEF W!ReferencesExist, RecordRows, Columns
  <2>2. \A c \in Columns : w.row[c] # None =>
           w.row.kind = "task" /\ record[w.row[c]].kind = c /\ record[w.row[c]].owner = w.owner
    BY <1>5, <2>1 DEF Named
  <2>3. RecordsLinked
    BY DEF BundleInv
  <2>4. \A id \in DOMAIN record : record'[id].owner \in workspace'
    BY <1>2, <1>4, <2>3 DEF RecordsLinked
  <2>5. ASSUME NEW id \in DOMAIN record, NEW c \in Columns, record'[id][c] # None
        PROVE  /\ record'[id].kind = "task" /\ record'[id][c] \in DOMAIN record'
               /\ record'[record'[id][c]].kind = c /\ record'[record'[id][c]].owner = record'[id].owner
    BY <1>4, <2>3, <2>5 DEF RecordsLinked
  <2>6. ASSUME NEW c \in Columns, record'[issued'][c] # None
        PROVE  /\ record'[issued'].kind = "task" /\ record'[issued'][c] \in DOMAIN record'
               /\ record'[record'[issued'][c]].kind = c /\ record'[record'[issued'][c]].owner = record'[issued'].owner
    BY <1>4, <1>5, <2>1, <2>2, <2>6
  <2> QED
    BY <1>2, <1>4, <1>5, <2>4, <2>5, <2>6 DEF RecordsLinked
<1>8. PinsHaveWorkspace'
  BY <1>1, <1>2 DEF BundleInv, PinsHaveWorkspace
<1>9. RequestsFit'
  BY <1>1, <1>2, <1>3, <1>4, WriteEnds
<1> QED
  BY <1>6, <1>7, <1>8, <1>9 DEF BundleInv

\* The records are as they were when only workspaces and pins are written.
LEMMA PinsKeep ==
    ASSUME BundleInv, NEW q \in Requests, W!Done(q), UNCHANGED <<record, issued>>,
           workspace \subseteq workspace', workspace' \subseteq Analysts,
           pin' \in [Analysts -> [References -> Nat \cup {None}]],
           \A o \in Analysts, r \in References : pin'[o][r] # None => pin[o][r] # None \/ o \in workspace'
    PROVE  BundleInv'
<1>1. RecordTypes'
  BY DEF BundleInv, RecordTypes
<1>2. RecordsLinked'
  <2>1. RecordsLinked
    BY DEF BundleInv
  <2> QED
    BY <2>1 DEF RecordsLinked
<1>3. PinsHaveWorkspace'
  BY DEF BundleInv, PinsHaveWorkspace
<1>4. RequestsFit'
  BY <1>1, WriteEnds DEF BundleInv, RecordTypes
<1> QED
  BY <1>1, <1>2, <1>3, <1>4 DEF BundleInv

\* pin_workspace_item, reorder_workspace_items and the removal of a pin.
LEMMA PinWritesKeep ==
    ASSUME BundleInv, NEW q \in Requests, W!Pin(q) \/ W!Reorder(q) \/ W!Unpin(q)
    PROVE  BundleInv'
<1> DEFINE w == request[q]
<1>0. /\ pin \in [Analysts -> [References -> Nat \cup {None}]] /\ workspace \subseteq Analysts
      /\ Fits(w, workspace, issued, record)
  BY DEF BundleInv, RecordTypes, RequestsFit
<1>1. CASE W!Pin(q)
  <2>1. /\ w.op = "pin" /\ W!Done(q) /\ UNCHANGED <<record, issued>> /\ W!WithWorkspace(w)
        /\ pin' = [pin EXCEPT ![w.owner][w.refs[1]] = IF @ = None THEN 0 ELSE @]
    BY <1>1 DEF W!Pin
  <2>2. w.owner \in workspace' /\ w.owner \in Analysts /\ workspace \subseteq workspace' /\ workspace' \subseteq Analysts
    BY <2>1, OwnerHasWorkspace
  <2>3. w.refs[1] \in References
    BY <1>0, <2>1 DEF Fits
  <2>4. pin' \in [Analysts -> [References -> Nat \cup {None}]]
    BY <1>0, <2>1, <2>2, <2>3
  <2>5. \A o \in Analysts, r \in References : o # w.owner => pin'[o][r] = pin[o][r]
    BY <1>0, <2>1
  <2> QED
    BY <2>1, <2>2, <2>4, <2>5, PinsKeep
<1>2. CASE W!Reorder(q)
  <2> DEFINE place(r) == CHOOSE n \in DOMAIN w.refs : w.refs[n] = r
             order == [r \in References |-> IF pin[w.owner][r] # None /\ \E n \in DOMAIN w.refs : w.refs[n] = r
                                           THEN place(r) ELSE pin[w.owner][r]]
  <2>1. /\ w.op = "reorder" /\ W!Done(q) /\ UNCHANGED <<record, issued>> /\ W!WithWorkspace(w)
        /\ pin' = [pin EXCEPT ![w.owner] = order]
    BY <1>2 DEF W!Reorder
  <2>2. w.owner \in workspace' /\ w.owner \in Analysts /\ workspace \subseteq workspace' /\ workspace' \subseteq Analysts
    BY <2>1, OwnerHasWorkspace
  <2>3. order \in [References -> Nat \cup {None}]
    <3> SUFFICES ASSUME NEW r \in References PROVE order[r] \in Nat \cup {None}
      OBVIOUS
    <3>1. DOMAIN w.refs \subseteq Nat
      BY <1>0, <2>1 DEF Fits
    <3>2. (\E n \in DOMAIN w.refs : w.refs[n] = r) => place(r) \in DOMAIN w.refs
      OBVIOUS
    <3> QED
      BY <1>0, <2>2, <3>1, <3>2
  <2> HIDE DEF order
  <2>4. /\ pin' \in [Analysts -> [References -> Nat \cup {None}]]
        /\ \A o \in Analysts, r \in References : o # w.owner => pin'[o][r] = pin[o][r]
    BY <1>0, <2>1, <2>2, <2>3
  <2> QED
    BY <2>1, <2>2, <2>4, PinsKeep
<1>3. CASE W!Unpin(q)
  <2>1. /\ W!Done(q) /\ UNCHANGED <<record, issued, workspace>>
        /\ pin' = [pin EXCEPT ![w.owner][w.refs[1]] = None]
    BY <1>3 DEF W!Unpin
  <2>2. pin' \in [Analysts -> [References -> Nat \cup {None}]]
    BY <1>0, <2>1
  <2>3. \A o \in Analysts, r \in References : pin'[o][r] # None => pin[o][r] # None
    BY <1>0, <2>1
  <2> QED
    BY <1>0, <2>1, <2>2, <2>3, PinsKeep
<1> QED
  BY <1>1, <1>2, <1>3

\* An update writes the columns _clean_update_value lets through into the analyst's own
\* record, and the record it names is still there.
LEMMA UpdateKeeps ==
    ASSUME BundleInv, NEW q \in Requests, W!Update(q)
    PROVE  BundleInv'
<1> DEFINE w == request[q]
           old == record[w.id]
           new == [c \in DOMAIN old |-> IF c \in DOMAIN w.row THEN w.row[c] ELSE old[c]]
<1>1. /\ w.op = "update" /\ w.id \in DOMAIN record /\ W!ReferencesExist(w.row)
      /\ record' = [record EXCEPT ![w.id] = new] /\ W!Done(q) /\ UNCHANGED <<workspace, pin, issued>>
  BY DEF W!Update
<1>2. /\ record \in [DOMAIN record -> RecordRows] /\ old \in RecordRows /\ issued \in Nat
      /\ DOMAIN record \subseteq 1 .. issued
  BY <1>1 DEF BundleInv, RecordTypes
<1>3. /\ old.owner = w.owner
      /\ \/ \E st \in {"open", "closed"} : w.row = [status |-> st]
         \/ w.row = [body |-> None]
         \/ /\ old.kind = "task"
            /\ \E id \in Nat \cup {None} :
                 \/ w.row = [hypothesis |-> id] /\ Named(record, issued, w.owner, "hypothesis", id)
                 \/ w.row = [evidence |-> id] /\ Named(record, issued, w.owner, "evidence", id)
  BY <1>1 DEF BundleInv, RequestsFit, Fits
<1>4. /\ new \in RecordRows /\ new.owner = old.owner /\ new.kind = old.kind
      /\ \A c \in Columns : \/ new[c] = old[c]
                            \/ /\ new.kind = "task"
                               /\ new[c] # None => new[c] \in DOMAIN record /\ Named(record, issued, w.owner, c, new[c])
  <2>1. CASE \E st \in {"open", "closed"} : w.row = [status |-> st]
    <3>1. PICK st \in {"open", "closed"} : w.row = [status |-> st]
      BY <2>1
    <3>2. new = [owner |-> old.owner, kind |-> old.kind, status |-> st, hypothesis |-> old.hypothesis, evidence |-> old.evidence]
      BY <1>2, <3>1 DEF RecordRows
    <3> QED
      BY <1>2, <3>2 DEF RecordRows, Columns
  <2>2. CASE w.row = [body |-> None]
    <3>1. new = old
      BY <1>2, <2>2 DEF RecordRows
    <3> QED
      BY <1>2, <3>1
  <2>3. CASE old.kind = "task" /\ \E id \in Nat \cup {None} : w.row = [hypothesis |-> id] /\ Named(record, issued, w.owner, "hypothesis", id)
    <3>1. PICK id \in Nat \cup {None} : w.row = [hypothesis |-> id] /\ Named(record, issued, w.owner, "hypothesis", id)
      BY <2>3
    <3>2. new = [owner |-> old.owner, kind |-> old.kind, status |-> old.status, hypothesis |-> id, evidence |-> old.evidence]
      BY <1>2, <3>1 DEF RecordRows
    <3>3. id \in DOMAIN record \cup {None}
      BY <1>1, <3>1 DEF W!ReferencesExist
    <3> QED
      BY <1>2, <2>3, <3>1, <3>2, <3>3 DEF RecordRows, Columns
  <2>4. CASE old.kind = "task" /\ \E id \in Nat \cup {None} : w.row = [evidence |-> id] /\ Named(record, issued, w.owner, "evidence", id)
    <3>1. PICK id \in Nat \cup {None} : w.row = [evidence |-> id] /\ Named(record, issued, w.owner, "evidence", id)
      BY <2>4
    <3>2. new = [owner |-> old.owner, kind |-> old.kind, status |-> old.status, hypothesis |-> old.hypothesis, evidence |-> id]
      BY <1>2, <3>1 DEF RecordRows
    <3>3. id \in DOMAIN record \cup {None}
      BY <1>1, <3>1 DEF W!ReferencesExist
    <3> QED
      BY <1>2, <2>4, <3>1, <3>2, <3>3 DEF RecordRows, Columns
  <2> QED
    BY <1>3, <2>1, <2>2, <2>3, <2>4
<1> HIDE DEF new
<1>5. /\ DOMAIN record' = DOMAIN record /\ record'[w.id] = new
      /\ \A id \in DOMAIN record : id # w.id => record'[id] = record[id]
      /\ \A id \in DOMAIN record : record'[id].owner = record[id].owner /\ record'[id].kind = record[id].kind
  BY <1>1, <1>4
<1>6. RecordTypes'
  <2>1. record' \in [DOMAIN record' -> RecordRows]
    BY <1>1, <1>2, <1>4, <1>5
  <2> QED
    BY <1>1, <1>5, <2>1 DEF BundleInv, RecordTypes
<1>7. RecordsLinked'
  <2>1. RecordsLinked
    BY DEF BundleInv
  <2>2. ASSUME NEW id \in DOMAIN record, NEW c \in Columns, record'[id][c] # None
        PROVE  /\ record'[id].kind = "task" /\ record'[id][c] \in DOMAIN record
               /\ record[record'[id][c]].kind = c /\ record[record'[id][c]].owner = record[id].owner
    <3>1. CASE record'[id][c] = record[id][c]
      BY <1>5, <2>1, <2>2, <3>1 DEF RecordsLinked
    <3>2. CASE record'[id][c] # record[id][c]
      <4>1. id = w.id /\ record'[id] = new /\ new[c] # old[c]
        BY <1>5, <3>2
      <4>2. new.kind = "task" /\ new[c] \in DOMAIN record /\ Named(record, issued, w.owner, c, new[c])
        BY <1>4, <2>2, <4>1
      <4> QED
        BY <1>3, <2>2, <4>1, <4>2 DEF Named
    <3> QED
      BY <3>1, <3>2
  <2> QED
    BY <1>1, <1>5, <2>1, <2>2 DEF RecordsLinked
<1>8. PinsHaveWorkspace'
  BY <1>1 DEF BundleInv, PinsHaveWorkspace
<1>9. RequestsFit'
  BY <1>1, <1>2, <1>5, WriteEnds
<1> QED
  BY <1>6, <1>7, <1>8, <1>9 DEF BundleInv

\* A removed record takes its name out of every task that has it.
LEMMA DeleteKeeps ==
    ASSUME BundleInv, NEW q \in Requests, W!Delete(q)
    PROVE  BundleInv'
<1> DEFINE gone == request[q].id
           kept(x) == IF x = gone THEN None ELSE x
           left(id) == [record[id] EXCEPT !.hypothesis = kept(@), !.evidence = kept(@)]
<1>1. /\ record' = [id \in DOMAIN record \ {gone} |-> left(id)]
      /\ W!Done(q) /\ UNCHANGED <<workspace, pin, issued>>
  BY DEF W!Delete
<1>2. /\ record \in [DOMAIN record -> RecordRows] /\ issued \in Nat /\ DOMAIN record \subseteq 1 .. issued /\ RecordsLinked
  BY DEF BundleInv, RecordTypes
<1>3. ASSUME NEW id \in DOMAIN record
      PROVE  /\ left(id) \in RecordRows /\ left(id).owner = record[id].owner /\ left(id).kind = record[id].kind
             /\ \A c \in Columns : left(id)[c] = kept(record[id][c])
  <2>1. record[id] \in RecordRows
    BY <1>2
  <2>2. kept(record[id].hypothesis) \in Nat \cup {None} /\ kept(record[id].evidence) \in Nat \cup {None}
    BY <2>1 DEF RecordRows
  <2> QED
    BY <2>1, <2>2 DEF RecordRows, Columns
<1> HIDE DEF left
<1>4. /\ DOMAIN record' = DOMAIN record \ {gone}
      /\ \A id \in DOMAIN record' : /\ record'[id] \in RecordRows
                                    /\ record'[id].owner = record[id].owner /\ record'[id].kind = record[id].kind
                                    /\ \A c \in Columns : record'[id][c] = kept(record[id][c])
  BY <1>1, <1>3
<1>5. RecordTypes'
  <2>1. record' \in [DOMAIN record' -> RecordRows]
    BY <1>1, <1>4
  <2> QED
    BY <1>1, <1>2, <1>4, <2>1 DEF BundleInv, RecordTypes
<1>6. RecordsLinked'
  <2>1. ASSUME NEW id \in DOMAIN record', NEW c \in Columns, record'[id][c] # None
        PROVE  /\ record'[id].kind = "task" /\ record'[id][c] \in DOMAIN record'
               /\ record'[record'[id][c]].kind = c /\ record'[record'[id][c]].owner = record'[id].owner
    <3>1. id \in DOMAIN record /\ record[id][c] # None /\ record[id][c] # gone /\ record'[id][c] = record[id][c]
      BY <1>4, <2>1
    <3>2. /\ record[id].kind = "task" /\ record[id][c] \in DOMAIN record
          /\ record[record[id][c]].kind = c /\ record[record[id][c]].owner = record[id].owner
      BY <1>2, <3>1 DEF RecordsLinked
    <3> QED
      BY <1>4, <3>1, <3>2
  <2>2. \A id \in DOMAIN record' : record'[id].owner \in workspace'
    BY <1>1, <1>2, <1>4 DEF RecordsLinked
  <2> QED
    BY <2>1, <2>2 DEF RecordsLinked
<1>7. PinsHaveWorkspace'
  BY <1>1 DEF BundleInv, PinsHaveWorkspace
<1>8. RequestsFit'
  BY <1>1, <1>2, <1>4, WriteEnds
<1> QED
  BY <1>5, <1>6, <1>7, <1>8 DEF BundleInv

\* Every step of the workspaces keeps it.
LEMMA BundleStep == BundleInv /\ [W!Next]_workVars => BundleInv'
<1> SUFFICES ASSUME BundleInv, [W!Next]_workVars PROVE BundleInv'
  OBVIOUS
<1>1. CASE UNCHANGED workVars
  BY <1>1 DEF workVars, BundleInv, RecordTypes, RecordsLinked, PinsHaveWorkspace, RequestsFit
<1>2. CASE W!Next
  BY <1>2, AsksKeep, RefusedKeeps, CreateKeeps, PinWritesKeep, UpdateKeeps, DeleteKeeps DEF W!Next
<1> QED
  BY <1>1, <1>2

\* What the invariant is for: the bundle is closed under its references.
LEMMA BundleClosed == BundleInv => W!BundleIsClosed
<1> SUFFICES ASSUME BundleInv, NEW o \in Analysts
             PROVE  /\ \A t \in W!Listed(o, "task") :
                          /\ record[t].hypothesis \in W!Listed(o, "hypothesis") \cup {None}
                          /\ record[t].evidence \in W!Listed(o, "evidence") \cup {None}
                    /\ W!Items(o) # {} \/ (\E kind \in W!Kinds : W!Listed(o, kind) # {}) => o \in workspace
  BY DEF W!BundleIsClosed
<1>1. ASSUME NEW t \in W!Listed(o, "task"), NEW c \in Columns
      PROVE  record[t][c] \in W!Listed(o, c) \cup {None}
  BY <1>1 DEF W!Listed, W!Owned, BundleInv, RecordsLinked
<1>2. W!Items(o) # {} => o \in workspace
  BY DEF W!Items, BundleInv, PinsHaveWorkspace
<1>3. ASSUME NEW kind \in W!Kinds, W!Listed(o, kind) # {} PROVE o \in workspace
  BY <1>3 DEF W!Listed, W!Owned, BundleInv, RecordsLinked
<1> QED
  BY <1>1, <1>2, <1>3 DEF Columns

\* The invariant of the workspaces holds for any analysts, requests, references and bounds.
THEOREM WorkspacesInductive == W!Spec => []BundleInv
<1>1. W!Init => BundleInv
  BY DEF W!Init, BundleInv, RecordTypes, RecordsLinked, PinsHaveWorkspace, RequestsFit, Fits, W!Quiet
<1> QED
  BY <1>1, BundleStep, PTL DEF W!Spec, workVars, W!workVars

\* However checks, writes and removals of several requests interleave, the bundle an
\* analyst is shown (load_workspace_bundle) holds what its tasks name.
THEOREM BundlesAreClosed == Spec => []BundleIsClosed
<1>1. Init => W!Init
  BY DEF Init
<1>2. [Next]_<<part, outcomeVars, caseVars, workVars>> => [W!Next]_workVars
  BY DEF Next
<1>3. Spec => W!Spec
  BY <1>1, <1>2, PTL DEF Spec, W!Spec, workVars, W!workVars
<1>4. BundleInv => BundleIsClosed
  BY BundleClosed DEF BundleIsClosed
<1> QED
  BY <1>3, <1>4, WorkspacesInductive, PTL
-----------------------------------------------------------------------------
(* Cases: what closing an incident rests on.                                *)

SessionFields == {"stage", "alert", "found", "read", "late"}
CaseTypes ==
    /\ alertStatus \in [Alerts -> {"none", "open", "resolved"}]
    /\ session = [s \in Sessions |-> session[s]]
    /\ \A s \in Sessions : DOMAIN session[s] = SessionFields

\* What a session that closes incidents counted is still so, or it is too late for it.
ClosesQuiet ==
    \A s \in Sessions : C!At(s, "close") =>
        /\ session[s].alert \in Alerts
        /\ \A i \in session[s].read, b \in Alerts : <<i, b>> \in linked =>
              b = session[s].alert \/ alertStatus[b] = "resolved" \/ <<"alert", b>> \in session[s].late

CasesInv == CaseTypes /\ ClosesQuiet

\* Of a session other than s, a step of s changes nothing but what is late for it.
OthersWait(s) ==
    \A t \in Sessions \ {s} : /\ DOMAIN session'[t] = SessionFields
                              /\ session'[t].stage = session[t].stage /\ session'[t].alert = session[t].alert
                              /\ session'[t].read = session[t].read /\ session[t].late \subseteq session'[t].late

\* A step of a session that does not begin to close, tells the others of the alerts it
\* links, and reopens none.
LEMMA CaseStepKeeps ==
    ASSUME CasesInv, NEW s \in Sessions, OthersWait(s),
           session' = [t \in Sessions |-> session'[t]],
           DOMAIN session'[s] = SessionFields, session'[s].stage # "close",
           alertStatus' \in [Alerts -> {"none", "open", "resolved"}],
           \A b \in Alerts : alertStatus[b] = "resolved" => alertStatus'[b] = "resolved",
           \A i, b : <<i, b>> \in linked' => <<i, b>> \in linked \/ \A t \in Sessions \ {s} :
               C!At(t, "close") => <<"alert", b>> \in session'[t].late
    PROVE  CasesInv'
<1>1. CaseTypes'
  BY DEF CaseTypes, OthersWait
<1>2. ASSUME NEW t \in Sessions, C!At(t, "close")'
      PROVE  /\ session'[t].alert \in Alerts
             /\ \A i \in session'[t].read, b \in Alerts : <<i, b>> \in linked' =>
                   b = session'[t].alert \/ alertStatus'[b] = "resolved" \/ <<"alert", b>> \in session'[t].late
  <2>1. t # s /\ C!At(t, "close")
    BY <1>2 DEF C!At, OthersWait
  <2>2. /\ session'[t].alert = session[t].alert /\ session'[t].read = session[t].read
        /\ session[t].late \subseteq session'[t].late
    BY <2>1 DEF OthersWait
  <2>3. /\ session[t].alert \in Alerts
        /\ \A i \in session[t].read, b \in Alerts : <<i, b>> \in linked =>
              b = session[t].alert \/ alertStatus[b] = "resolved" \/ <<"alert", b>> \in session[t].late
    BY <2>1 DEF CasesInv, ClosesQuiet
  <2> QED
    BY <2>1, <2>2, <2>3
<1>3. ClosesQuiet'
  BY <1>2 DEF ClosesQuiet
<1> QED
  BY <1>1, <1>3 DEF CasesInv

\* Late adds to what is late for the others.
LEMMA LateAdds ==
    ASSUME CasesInv, NEW s \in Sessions, NEW what, NEW own, DOMAIN own = SessionFields,
           session' = [C!Late(s, what) EXCEPT ![s] = own]
    PROVE  /\ OthersWait(s) /\ session' = [t \in Sessions |-> session'[t]] /\ session'[s] = own
           /\ \A t \in Sessions \ {s} : C!At(t, "close") => what \subseteq session'[t].late
<1>1. \A t \in Sessions \ {s} : session'[t] = IF session[t].stage # "idle" THEN [session[t] EXCEPT !.late = @ \cup what]
                                                                           ELSE session[t]
  BY DEF C!Late
<1>2. \A t \in Sessions : DOMAIN session[t] = SessionFields
  BY DEF CasesInv, CaseTypes
<1>3. session'[s] = own /\ session' = [t \in Sessions |-> session'[t]]
  BY DEF C!Late
<1>4. ASSUME NEW t \in Sessions \ {s}
      PROVE  /\ DOMAIN session'[t] = SessionFields /\ session'[t].stage = session[t].stage
             /\ session'[t].alert = session[t].alert /\ session'[t].read = session[t].read
             /\ session[t].late \subseteq session'[t].late
             /\ session[t].stage # "idle" => what \subseteq session'[t].late
  <2>1. CASE session[t].stage # "idle"
    <3>1. session'[t] = [session[t] EXCEPT !.late = session[t].late \cup what]
      BY <1>1, <2>1
    <3>2. /\ DOMAIN session'[t] = SessionFields /\ session'[t].late = session[t].late \cup what
          /\ session'[t].stage = session[t].stage
          /\ session'[t].alert = session[t].alert /\ session'[t].read = session[t].read
      BY <1>2, <3>1 DEF SessionFields
    <3> QED
      BY <3>2
  <2>2. CASE session[t].stage = "idle"
    BY <1>1, <1>2, <2>2
  <2> QED
    BY <2>1, <2>2
<1>5. OthersWait(s)
  BY <1>4 DEF OthersWait
<1>6. \A t \in Sessions \ {s} : C!At(t, "close") => what \subseteq session'[t].late
  BY <1>4 DEF C!At
<1> QED
  BY <1>3, <1>5, <1>6

\* A step that only moves its own session on.
LEMMA OwnStepWaits ==
    ASSUME CasesInv, NEW s \in Sessions, NEW own, session' = [session EXCEPT ![s] = own], DOMAIN own = SessionFields
    PROVE  OthersWait(s) /\ session' = [t \in Sessions |-> session'[t]] /\ session'[s] = own
  BY DEF CasesInv, CaseTypes, OthersWait

\* So such a step keeps the invariant unless the session begins to close.
LEMMA OwnStepKeeps ==
    ASSUME CasesInv, NEW s \in Sessions, NEW own, session' = [session EXCEPT ![s] = own],
           DOMAIN own = SessionFields, own.stage # "close", UNCHANGED linked,
           \/ UNCHANGED alertStatus
           \/ \E a \in Alerts : alertStatus[a] = "none" /\ alertStatus' = [alertStatus EXCEPT ![a] = "open"]
    PROVE  CasesInv'
<1>1. alertStatus \in [Alerts -> {"none", "open", "resolved"}]
  BY DEF CasesInv, CaseTypes
<1>2. OthersWait(s) /\ session' = [t \in Sessions |-> session'[t]] /\ session'[s] = own
  BY OwnStepWaits
<1>3. /\ alertStatus' \in [Alerts -> {"none", "open", "resolved"}]
      /\ \A b \in Alerts : alertStatus[b] = "resolved" => alertStatus'[b] = "resolved"
  BY <1>1
<1> QED
  BY <1>2, <1>3, CaseStepKeeps

\* The stages of an alert, from its commit to its incident.
LEMMA AlertStagesKeep ==
    ASSUME CasesInv, NEW s \in Sessions,
           \/ \E a \in Alerts : C!Ingest(s, a)
           \/ C!Choose(s) \/ C!Summarise(s) \/ C!Notify(s) \/ C!Record(s) \/ C!Undelivered(s)
           \/ C!Match(s) \/ C!Fail(s)
    PROVE  CasesInv'
<1>1. /\ DOMAIN session[s] = SessionFields /\ DOMAIN C!Idle = SessionFields /\ C!Idle.stage = "idle"
  BY DEF CasesInv, CaseTypes, SessionFields, C!Idle
<1>2. ASSUME NEW a \in Alerts, C!Ingest(s, a) PROVE CasesInv'
  <2> DEFINE own == [C!Idle EXCEPT !.alert = a, !.stage =
                       IF "aggregate" \in scene[a].evidence /\ scene[a].ports # {} THEN "enroll" ELSE "match"]
  <2>1. /\ session' = [session EXCEPT ![s] = own] /\ UNCHANGED linked
        /\ alertStatus[a] = "none" /\ alertStatus' = [alertStatus EXCEPT ![a] = "open"]
    BY <1>2 DEF C!Ingest
  <2>2. DOMAIN own = SessionFields /\ own.stage # "close"
    BY DEF C!Idle, SessionFields
  <2> HIDE DEF own
  <2> QED
    BY <2>1, <2>2, OwnStepKeeps
<1>3. CASE C!Choose(s)
  <2>1. PICK f : session' = [session EXCEPT ![s].stage = "summarise", ![s].late = {}, ![s].found = f]
    BY <1>3 DEF C!Choose
  <2> DEFINE own == [session[s] EXCEPT !.stage = "summarise", !.late = {}, !.found = f]
  <2>2. /\ session' = [session EXCEPT ![s] = own] /\ UNCHANGED <<linked, alertStatus>>
        /\ DOMAIN own = SessionFields /\ own.stage # "close"
    BY <1>1, <1>3, <2>1 DEF C!Choose, SessionFields, CasesInv, CaseTypes
  <2> HIDE DEF own
  <2> QED
    BY <2>2, OwnStepKeeps
<1>4. CASE C!Summarise(s)
  <2> DEFINE own == [session[s] EXCEPT !.stage = "save", !.late = {}, !.read = C!Aggregated(s)]
  <2>1. /\ session' = [session EXCEPT ![s] = own] /\ UNCHANGED <<linked, alertStatus>>
        /\ DOMAIN own = SessionFields /\ own.stage # "close"
    BY <1>1, <1>4 DEF C!Summarise, SessionFields, CasesInv, CaseTypes
  <2> HIDE DEF own
  <2> QED
    BY <2>1, OwnStepKeeps
<1>5. ASSUME session' = C!Stage(s, "match"), UNCHANGED <<linked, alertStatus>> PROVE CasesInv'
  <2> DEFINE own == [C!Idle EXCEPT !.stage = "match", !.alert = session[s].alert]
  <2>1. session' = [session EXCEPT ![s] = own] /\ DOMAIN own = SessionFields /\ own.stage # "close"
    BY <1>5 DEF C!Stage, C!Idle, SessionFields
  <2> HIDE DEF own
  <2> QED
    BY <1>5, <2>1, OwnStepKeeps
<1>6. CASE C!Notify(s)
  <2>1. CASE session' = [session EXCEPT ![s].stage = "record", ![s].read = {C!Key(session[s].found)}]
    <3> DEFINE own == [session[s] EXCEPT !.stage = "record", !.read = {C!Key(session[s].found)}]
    <3>1. /\ session' = [session EXCEPT ![s] = own] /\ UNCHANGED <<linked, alertStatus>>
          /\ DOMAIN own = SessionFields /\ own.stage # "close"
      BY <1>1, <1>6, <2>1 DEF C!Notify, SessionFields, CasesInv, CaseTypes
    <3> HIDE DEF own
    <3> QED
      BY <3>1, OwnStepKeeps
  <2> QED
    BY <1>5, <1>6, <2>1 DEF C!Notify
<1>7. CASE C!Record(s) \/ C!Undelivered(s)
  BY <1>5, <1>7 DEF C!Record, C!Undelivered
<1>8. CASE session' = [session EXCEPT ![s] = C!Idle] /\ UNCHANGED <<linked, alertStatus>>
  BY <1>1, <1>8, OwnStepKeeps
<1>9. CASE C!Match(s)
  <2>1. CASE C!Policy(session[s].alert).eligible
    <3>1. PICK f, r : session' = [session EXCEPT ![s].stage = "attach", ![s].late = {}, ![s].found = f, ![s].read = r]
      BY <1>9, <2>1 DEF C!Match
    <3> DEFINE own == [session[s] EXCEPT !.stage = "attach", !.late = {}, !.found = f, !.read = r]
    <3>2. /\ session' = [session EXCEPT ![s] = own] /\ UNCHANGED <<linked, alertStatus>>
          /\ DOMAIN own = SessionFields /\ own.stage # "close"
      BY <1>1, <1>9, <3>1 DEF C!Match, SessionFields, CasesInv, CaseTypes
    <3> HIDE DEF own
    <3> QED
      BY <3>2, OwnStepKeeps
  <2> QED
    BY <1>8, <1>9, <2>1 DEF C!Match
<1>10. CASE C!Fail(s)
  BY <1>8, <1>10 DEF C!Fail
<1> QED
  BY <1>2, <1>3, <1>4, <1>6, <1>7, <1>9, <1>10

\* A session that saves or links tells the others of it.
LEMMA TellingKeeps ==
    ASSUME CasesInv, NEW s \in Sessions, NEW what, NEW own, session' = [C!Late(s, what) EXCEPT ![s] = own],
           DOMAIN own = SessionFields, own.stage # "close", UNCHANGED alertStatus,
           \/ UNCHANGED linked
           \/ \E i, a : linked' = linked \cup {<<i, a>>} /\ <<"alert", a>> \in what
    PROVE  CasesInv'
<1>1. alertStatus \in [Alerts -> {"none", "open", "resolved"}]
  BY DEF CasesInv, CaseTypes
<1>2. /\ OthersWait(s) /\ session' = [t \in Sessions |-> session'[t]] /\ session'[s] = own
      /\ \A t \in Sessions \ {s} : C!At(t, "close") => what \subseteq session'[t].late
  BY LateAdds
<1>3. ASSUME NEW i, NEW b, <<i, b>> \in linked', <<i, b>> \notin linked PROVE <<"alert", b>> \in what
  <2>1. PICK j, a : linked' = linked \cup {<<j, a>>} /\ <<"alert", a>> \in what
    BY <1>3
  <2>2. <<i, b>> = <<j, a>>
    BY <1>3, <2>1
  <2>3. b = a
    BY <2>2
  <2> QED
    BY <2>1, <2>3
<1> QED
  BY <1>1, <1>2, <1>3, CaseStepKeeps

\* Saving a membership, and linking an alert to an incident.
LEMMA LinksKeep ==
    ASSUME CasesInv, NEW s \in Sessions, C!Save(s) \/ C!Join(s) \/ C!Open(s)
    PROVE  CasesInv'
<1> DEFINE a == session[s].alert
<1>1. DOMAIN C!Idle = SessionFields /\ C!Idle.stage = "idle"
  BY DEF SessionFields, C!Idle
<1>2. CASE C!Save(s)
  <2> DEFINE own == [C!Idle EXCEPT !.stage = "notify", !.alert = a, !.found = session[s].found]
  <2>1. session' = [C!Late(s, {<<"member", a>>}) EXCEPT ![s] = own] /\ UNCHANGED <<linked, alertStatus>>
    BY <1>2 DEF C!Save
  <2>2. DOMAIN own = SessionFields /\ own.stage # "close"
    BY DEF C!Idle, SessionFields
  <2> HIDE DEF own
  <2> QED
    BY <2>1, <2>2, TellingKeeps
<1>3. CASE C!Join(s)
  <2>1. /\ session' = [C!Late(s, {<<"alert", a>>}) EXCEPT ![s] = C!Idle] /\ UNCHANGED alertStatus
        /\ linked' = linked \cup {<<session[s].found, a>>}
    BY <1>3 DEF C!Join
  <2> QED
    BY <1>1, <2>1, TellingKeeps
<1>4. CASE C!Open(s)
  <2> DEFINE i == C!Next_(DOMAIN incident)
  <2>1. /\ session' = [C!Late(s, {<<"alert", a>>, <<"incident", i>>}) EXCEPT ![s] = C!Idle] /\ UNCHANGED alertStatus
        /\ linked' = linked \cup {<<i, a>>}
    BY <1>4 DEF C!Open
  <2> HIDE DEF i
  <2>2. <<"alert", a>> \in {<<"alert", a>>, <<"incident", i>>}
    OBVIOUS
  <2> QED
    BY <1>1, <2>1, <2>2, TellingKeeps
<1> QED
  BY <1>2, <1>3, <1>4

\* update_alert_status to resolved: what it counts.
LEMMA ResolveKeeps ==
    ASSUME CasesInv, NEW s \in Sessions, NEW a \in Alerts, C!Resolve(s, a)
    PROVE  CasesInv'
<1>1. /\ DOMAIN session[s] = SessionFields /\ DOMAIN C!Idle = SessionFields /\ C!Idle.stage = "idle"
      /\ alertStatus \in [Alerts -> {"none", "open", "resolved"}]
  BY DEF CasesInv, CaseTypes, SessionFields, C!Idle
<1> DEFINE counted == {i \in DOMAIN incident : /\ a \in C!LinkedTo(i) /\ incident[i].priority = "P3"
                                               /\ incident[i].status \in {"open", "resolved"}
                                               /\ C!Quiet(i, a)}
           own == [C!Idle EXCEPT !.stage = "close", !.alert = a, !.read = counted]
<1>2. session' = [session EXCEPT ![s] = own] /\ UNCHANGED <<linked, alertStatus>>
  BY DEF C!Resolve
<1>3. DOMAIN own = SessionFields /\ own.alert = a /\ own.read = counted
  BY DEF C!Idle, SessionFields
<1>4. \A i \in counted, b \in Alerts : <<i, b>> \in linked => b = a \/ alertStatus[b] = "resolved"
  BY DEF C!Quiet, C!LinkedTo
<1> HIDE DEF own, counted
<1>5. OthersWait(s) /\ session' = [t \in Sessions |-> session'[t]] /\ session'[s] = own
  BY <1>2, <1>3, OwnStepWaits
<1>6. CaseTypes'
  BY <1>1, <1>2, <1>3, <1>5 DEF CaseTypes, OthersWait
<1>7. ClosesQuiet'
  <2> SUFFICES ASSUME NEW t \in Sessions, C!At(t, "close")'
               PROVE  /\ session'[t].alert \in Alerts
                      /\ \A i \in session'[t].read, b \in Alerts : <<i, b>> \in linked =>
                            \/ b = session'[t].alert \/ alertStatus[b] = "resolved"
                            \/ <<"alert", b>> \in session'[t].late
    BY <1>2 DEF ClosesQuiet
  <2>1. CASE t = s
    BY <1>3, <1>4, <1>5, <2>1
  <2>2. CASE t # s
    BY <1>2, <1>5, <2>2 DEF CasesInv, ClosesQuiet, C!At, CaseTypes
  <2> QED
    BY <2>1, <2>2
<1> QED
  BY <1>6, <1>7 DEF CasesInv

\* The close itself.
LEMMA CloseKeeps ==
    ASSUME CasesInv, NEW s \in Sessions, C!Close(s)
    PROVE  CasesInv'
<1>1. /\ DOMAIN session[s] = SessionFields /\ DOMAIN C!Idle = SessionFields /\ C!Idle.stage = "idle"
      /\ alertStatus \in [Alerts -> {"none", "open", "resolved"}]
  BY DEF CasesInv, CaseTypes, SessionFields, C!Idle
<1>2. /\ session' = [session EXCEPT ![s] = C!Idle] /\ UNCHANGED linked
      /\ alertStatus' = [alertStatus EXCEPT ![session[s].alert] = "resolved"]
  BY DEF C!Close
<1>3. OthersWait(s) /\ session' = [t \in Sessions |-> session'[t]] /\ session'[s] = C!Idle
  BY <1>1, <1>2, OwnStepWaits
<1> QED
  BY <1>1, <1>2, <1>3, CaseStepKeeps

\* What the analysts do besides: reopening an alert is late for those who counted it.
LEMMA AnalystsKeep ==
    ASSUME CasesInv,
           \/ \E a \in Alerts : C!Reopen(a) \/ C!Finish(a)
           \/ \E i \in DOMAIN incident, status \in {"open", "investigating", "resolved", "closed"} : C!Move(i, status)
    PROVE  CasesInv'
<1>1. \A t \in Sessions : DOMAIN session[t] = SessionFields
  BY DEF CasesInv, CaseTypes
<1>2. ASSUME NEW a \in Alerts, C!Reopen(a) PROVE CasesInv'
  <2>1. /\ alertStatus' = [alertStatus EXCEPT ![a] = "open"] /\ UNCHANGED linked
        /\ session' = [t \in Sessions |-> IF C!At(t, "close") THEN [session[t] EXCEPT !.late = @ \cup {<<"alert", a>>}]
                                          ELSE session[t]]
    BY <1>2 DEF C!Reopen
  <2>2. ASSUME NEW t \in Sessions
        PROVE  /\ DOMAIN session'[t] = SessionFields /\ session'[t].stage = session[t].stage
               /\ session'[t].alert = session[t].alert /\ session'[t].read = session[t].read
               /\ session'[t].late = IF C!At(t, "close") THEN session[t].late \cup {<<"alert", a>>} ELSE session[t].late
    BY <1>1, <2>1 DEF SessionFields
  <2>3. CaseTypes'
    BY <2>1, <2>2 DEF CasesInv, CaseTypes
  <2>4. ASSUME NEW t \in Sessions, C!At(t, "close")'
        PROVE  /\ session'[t].alert \in Alerts
               /\ \A i \in session'[t].read, b \in Alerts : <<i, b>> \in linked' =>
                     \/ b = session'[t].alert \/ alertStatus'[b] = "resolved"
                     \/ <<"alert", b>> \in session'[t].late
    BY <2>1, <2>2, <2>4 DEF CasesInv, CaseTypes, ClosesQuiet, C!At
  <2> QED
    BY <2>3, <2>4 DEF CasesInv, ClosesQuiet
<1>3. ASSUME NEW a \in Alerts, C!Finish(a) PROVE CasesInv'
  BY <1>3 DEF C!Finish, CasesInv, CaseTypes, ClosesQuiet, C!At
<1>4. ASSUME NEW i, NEW status, C!Move(i, status) PROVE CasesInv'
  <2>1. /\ UNCHANGED <<linked, alertStatus>>
        /\ session' = [t \in Sessions |->
              IF status = "open" /\ C!At(t, "attach") THEN [session[t] EXCEPT !.late = @ \cup {<<"incident", i>>}]
              ELSE session[t]]
    BY <1>4 DEF C!Move
  <2>2. ASSUME NEW t \in Sessions
        PROVE  /\ DOMAIN session'[t] = SessionFields /\ session'[t].stage = session[t].stage
               /\ session[t].stage = "close" => session'[t] = session[t]
    BY <1>1, <2>1 DEF SessionFields, C!At
  <2>3. CaseTypes'
    BY <2>1, <2>2 DEF CasesInv, CaseTypes
  <2>4. ClosesQuiet'
    BY <2>1, <2>2 DEF CasesInv, ClosesQuiet, C!At
  <2> QED
    BY <2>3, <2>4 DEF CasesInv
<1> QED
  BY <1>2, <1>3, <1>4

\* Every step of the cases keeps it.
LEMMA CasesStep == CasesInv /\ [C!Next]_caseVars => CasesInv'
<1> SUFFICES ASSUME CasesInv, [C!Next]_caseVars PROVE CasesInv'
  OBVIOUS
<1>1. CASE UNCHANGED caseVars
  BY <1>1 DEF caseVars, CasesInv, CaseTypes, ClosesQuiet, C!At
<1>2. CASE C!Next
  BY <1>2, AlertStagesKeep, ResolveKeeps, CloseKeeps, LinksKeep, AnalystsKeep DEF C!Next
<1> QED
  BY <1>1, <1>2

\* A session that was closing and is idle has closed, or changed no incident.
LEMMA CloserIsItself ==
    ASSUME CasesInv, C!Next, NEW s \in Sessions, C!At(s, "close"), session'[s].stage = "idle"
    PROVE  C!Close(s) \/ UNCHANGED incident
<1>1. \A t \in Sessions : DOMAIN session[t] = SessionFields
  BY DEF CasesInv, CaseTypes
<1>2. DOMAIN C!Idle = SessionFields
  BY DEF C!Idle, SessionFields
<1>3. ASSUME NEW t \in Sessions, C!Join(t) \/ C!Open(t) \/ C!Close(t), t # s PROVE FALSE
  <2>1. CASE C!Close(t)
    BY <1>3, <2>1 DEF C!Close, C!At
  <2>2. CASE C!Join(t)
    <3>1. session' = [C!Late(t, {<<"alert", session[t].alert>>}) EXCEPT ![t] = C!Idle]
      BY <2>2 DEF C!Join
    <3>2. OthersWait(t)
      BY <1>2, <3>1, LateAdds
    <3> QED
      BY <1>3, <3>2 DEF OthersWait, C!At
  <2>3. CASE C!Open(t)
    <3>1. PICK what : session' = [C!Late(t, what) EXCEPT ![t] = C!Idle]
      BY <2>3 DEF C!Open
    <3>2. OthersWait(t)
      BY <1>2, <3>1, LateAdds
    <3> QED
      BY <1>3, <3>2 DEF OthersWait, C!At
  <2> QED
    BY <1>3, <2>1, <2>2, <2>3
<1>4. ~C!Join(s) /\ ~C!Open(s)
  BY DEF C!Join, C!Open, C!At
<1>5. ASSUME NEW i, NEW status, C!Move(i, status) PROVE FALSE
  BY <1>1, <1>5 DEF C!Move, C!At, SessionFields
<1>6. ASSUME NEW t \in Sessions, NEW a \in Alerts, C!Ingest(t, a) \/ C!Resolve(t, a) \/ C!Reopen(a) \/ C!Finish(a)
      PROVE  UNCHANGED incident
  BY <1>6 DEF C!Ingest, C!Resolve, C!Reopen, C!Finish
<1>7. ASSUME NEW t \in Sessions,
             \/ C!Choose(t) \/ C!Summarise(t) \/ C!Save(t) \/ C!Notify(t)
             \/ C!Record(t) \/ C!Undelivered(t) \/ C!Match(t) \/ C!Fail(t)
      PROVE  UNCHANGED incident
  BY <1>7 DEF C!Choose, C!Summarise, C!Save, C!Notify, C!Record, C!Undelivered, C!Match, C!Fail
<1> QED
  BY <1>3, <1>4, <1>5, <1>6, <1>7 DEF C!Next

\* The invariant of the cases holds for any sessions, alerts and scenes.
THEOREM CasesInductive == C!Spec => []CasesInv
<1>1. C!Init => CasesInv
  BY DEF C!Init, C!Idle, C!At, CasesInv, CaseTypes, ClosesQuiet, SessionFields
<1> QED
  BY <1>1, CasesStep, PTL DEF C!Spec, caseVars, C!caseVars

\* auto_close_resolved_p3_incidents_for_alert closes an incident only over alerts that are
\* resolved, but for those linked or reopened since it counted.
THEOREM IncidentsCloseQuietly == Spec => ClosedQuietly
<1> DEFINE Closing == \A s \in Sessions : C!At(s, "close") /\ session'[s].stage = "idle" =>
         \A i \in DOMAIN incident : incident[i].status # "closed" /\ incident'[i].status = "closed" =>
            \A a \in C!LinkedTo(i) : alertStatus'[a] = "resolved" \/ <<"alert", a>> \in session[s].late
<1>1. CasesInv /\ [C!Next]_caseVars => [Closing]_caseVars
  <2> SUFFICES ASSUME CasesInv, C!Next, NEW s \in Sessions, C!At(s, "close"), session'[s].stage = "idle",
                      NEW i \in DOMAIN incident, incident[i].status # "closed", incident'[i].status = "closed",
                      NEW a \in C!LinkedTo(i)
               PROVE  alertStatus'[a] = "resolved" \/ <<"alert", a>> \in session[s].late
    OBVIOUS
  <2>1. C!Close(s) \/ UNCHANGED incident
    BY CloserIsItself
  <2>2. /\ i \in session[s].read /\ C!Close(s)
        /\ alertStatus' = [alertStatus EXCEPT ![session[s].alert] = "resolved"]
    BY <2>1 DEF C!Close
  <2>3. <<i, a>> \in linked /\ a \in Alerts
    BY DEF C!LinkedTo
  <2>4. alertStatus \in [Alerts -> {"none", "open", "resolved"}] /\ session[s].alert \in Alerts
    BY DEF CasesInv, CaseTypes, ClosesQuiet
  <2>5. a = session[s].alert \/ alertStatus[a] = "resolved" \/ <<"alert", a>> \in session[s].late
    BY <2>2, <2>3 DEF CasesInv, ClosesQuiet
  <2> QED
    BY <2>2, <2>3, <2>4, <2>5
<1>2. C!Spec => ClosedQuietly
  BY <1>1, CasesInductive, PTL DEF C!Spec, ClosedQuietly, C!ClosedQuietly, caseVars, C!caseVars
<1>3. Init => C!Init
  BY DEF Init
<1>4. [Next]_<<part, outcomeVars, caseVars, workVars>> => [C!Next]_caseVars
  BY DEF Next
<1>5. Spec => C!Spec
  BY <1>3, <1>4, PTL DEF Spec, C!Spec, caseVars, C!caseVars
<1> QED
  BY <1>2, <1>5
-----------------------------------------------------------------------------
(* Outcomes: what the readers of the response outcomes rest on.             *)

Ended == {"success", "failed"}

\* The tables; a linked row names the decision made for it.
RowsFit ==
    /\ DOMAIN rows \subseteq Nat /\ audits \subseteq DOMAIN rows
    /\ \A i \in DOMAIN rows :
          /\ DOMAIN rows[i] = DOMAIN Blank
          /\ rows[i].table \in O!MappedTables \cup {"blocked_ips", "alert"}
          /\ rows[i].table = "approval" => rows[i].status \notin Ended
          /\ O!Linked(i) => /\ rows[i].table \in O!MappedTables
                           /\ rows[i].decision \in {O!LegacyId(i), O!LiveId(i)} /\ rows[i].decision \in DOMAIN decisions

\* The entries of a log are finitely many, and no two are of the same moment.
InOrder(log) ==
    /\ IsFiniteSet(DOMAIN log)
    /\ \A k \in DOMAIN log : log[k].at \in Nat /\ log[k].nth \in Nat
    /\ \A k, l \in DOMAIN log : k # l => log[k].at # log[l].at \/ log[k].nth # log[l].nth
\* ... and they are past.
Past(log) == \A k \in DOMAIN log : log[k].at < clock
LogsFit == clock \in Nat /\ InOrder(decisions) /\ Past(decisions) /\ InOrder(events) /\ Past(events)

\* A key's second part is the row it is about: each decision is its row's, each event of its row's decision,
\* and a worker's report that the row has ended is followed by that status.
KeysFit ==
    /\ \A k \in DOMAIN decisions : k[2] \in DOMAIN rows /\ O!Linked(k[2]) /\ rows[k[2]].decision = k
    /\ \A k \in DOMAIN events :
          /\ k[2] \in DOMAIN rows /\ O!Linked(k[2])
          /\ events[k].decision = rows[k[2]].decision
          /\ k[1] \in {"succeeded", "failed", "play"} => rows[k[2]].status \in Ended

\* An open backfill has a moment of its own, and stages entries in their order; what it has still to map, and what
\* it links, are rows no decision is committed for.
UnlinkedRow(i) == i \in DOMAIN rows /\ rows[i].table \in O!MappedTables /\ ~O!Linked(i)
StagedFits ==
    /\ DOMAIN backfill = DOMAIN O!Idle
    /\ backfill.phase = "apply" =>
          /\ backfill.at \in Nat /\ backfill.at < clock
          /\ \A k \in DOMAIN decisions : decisions[k].at # backfill.at
          /\ \A k \in DOMAIN events : events[k].at # backfill.at
    /\ \A i \in DOMAIN backfill.todo : UnlinkedRow(i) /\ i \notin DOMAIN backfill.links
    /\ \A i \in DOMAIN backfill.links :
          /\ UnlinkedRow(i) /\ backfill.links[i] = O!LegacyId(i)
          /\ O!LegacyId(i) \in DOMAIN backfill.decisions /\ O!LegacyId(i) \in DOMAIN backfill.events
    /\ InOrder(backfill.decisions) /\ InOrder(backfill.events)
    /\ \A k \in DOMAIN backfill.decisions :
          /\ k[2] \in DOMAIN backfill.links /\ k = O!LegacyId(k[2])
          /\ backfill.decisions[k].at = backfill.at /\ backfill.decisions[k].nth = k[2]
    /\ \A k \in DOMAIN backfill.events :
          /\ k[2] \in DOMAIN rows /\ k \in {O!LegacyId(k[2]), O!AuditId(k[2])}
          /\ k = O!LegacyId(k[2]) => k[2] \in DOMAIN backfill.links
          /\ O!DecisionSeen(k[2]) # None /\ backfill.events[k].decision = O!DecisionSeen(k[2])
          /\ backfill.events[k].at = backfill.at
          /\ backfill.events[k].nth < Cardinality(DOMAIN backfill.events)

\* Each worker carries a running row of its own: it knows its decision, or read it before it was linked.
JobsFit ==
    /\ DOMAIN job = Workers
    /\ \A w \in Workers : job[w] # None =>
          /\ job[w].row \in DOMAIN rows
          /\ rows[job[w].row].table = "queue" /\ rows[job[w].row].status = "running"
          /\ \/ job[w].decision = None /\ job[w].row \in blind
             \/ job[w].decision = rows[job[w].row].decision /\ O!Linked(job[w].row)
          /\ \A v \in Workers \ {w} : job[v] # None => job[v].row # job[w].row

\* An outcome says "external" only with proof of it.
Sound(outcome) == outcome.flag = "external" => O!Proven
OutcomesSound ==
    /\ \A k \in DOMAIN events : Sound(events[k].outcome)
    /\ \A k \in DOMAIN backfill.events : Sound(backfill.events[k].outcome)
    /\ \A i \in DOMAIN backfill.todo : Sound(backfill.todo[i])

\* Where a row has ended, and no worker was blind to its decision, what is said of it last is final.
EndsFinal(i) ==
    \E e \in O!EventsOf(rows[i].decision) :
        /\ events[e].outcome.state \in O!Final
        /\ \A f \in O!EventsOf(rows[i].decision) \ {e} : O!Later(events[e], events[f])
EndsTold ==
    \A i \in DOMAIN rows : rows[i].status \in Ended /\ i \notin blind =>
        /\ O!Linked(i) /\ O!AuditId(i) \notin DOMAIN events => EndsFinal(i)
        /\ i \in DOMAIN backfill.todo => backfill.todo[i].state \in O!Final
        /\ i \in DOMAIN backfill.links => backfill.events[O!LegacyId(i)].outcome.state \in O!Final

OutcomesInv == RowsFit /\ LogsFit /\ KeysFit /\ StagedFits /\ JobsFit /\ OutcomesSound /\ EndsTold
-----------------------------------------------------------------------------
\* The counts of ResponseOutcomes are the library's.
LEMMA OutcomeCounts == \A S : O!Cardinality(S) = Cardinality(S) /\ (O!IsFiniteSet(S) <=> IsFiniteSet(S))
  BY DEF O!Cardinality, Cardinality, O!IsFiniteSet, IsFiniteSet

\* Of the entries of a log in order, one is later than another, transitively.
LEMMA LaterOrders ==
    ASSUME NEW log, InOrder(log), NEW S \in SUBSET DOMAIN log
    PROVE  /\ \A i, j \in S : i # j => O!Later(log[i], log[j]) \/ O!Later(log[j], log[i])
           /\ \A i \in S : ~O!Later(log[i], log[i])
           /\ \A i, j, k \in S : O!Later(log[i], log[j]) /\ O!Later(log[j], log[k]) => O!Later(log[i], log[k])
<1>1. \A i \in S : log[i].at \in Nat /\ log[i].nth \in Nat
  BY DEF InOrder
<1>2. \A i, j \in S : i # j => log[i].at # log[j].at \/ log[i].nth # log[j].nth
  BY DEF InOrder
<1> HIDE DEF InOrder
<1>3. ASSUME NEW i \in S, NEW j \in S, i # j PROVE O!Later(log[i], log[j]) \/ O!Later(log[j], log[i])
  BY <1>1, <1>2, <1>3 DEF O!Later
<1>4. ASSUME NEW i \in S PROVE ~O!Later(log[i], log[i])
  BY <1>1 DEF O!Later
<1>5. ASSUME NEW i \in S, NEW j \in S, NEW k \in S, O!Later(log[i], log[j]), O!Later(log[j], log[k])
      PROVE  O!Later(log[i], log[k])
  BY <1>1, <1>5 DEF O!Later
<1> QED
  BY <1>3, <1>4, <1>5

\* A log that is not empty has a newest entry.
LEMMA NewestIsLast ==
    ASSUME NEW log, InOrder(log), NEW S \in SUBSET DOMAIN log, S # {}
    PROVE  O!Newest(log, S) \in S /\ \A j \in S \ {O!Newest(log, S)} : O!Later(log[O!Newest(log, S)], log[j])
<1> DEFINE After(i) == {j \in S : O!Later(log[j], log[i])}
           T == {After(i) : i \in S}
<1>1. IsFiniteSet(S)
  BY FS_Subset DEF InOrder
<1>2. \A i \in S : After(i) \in FiniteSubsetsOf(S)
  <2> SUFFICES ASSUME NEW i \in S PROVE After(i) \in FiniteSubsetsOf(S)
    OBVIOUS
  <2>1. After(i) \in SUBSET S
    OBVIOUS
  <2>2. IsFiniteSet(After(i))
    BY <1>1, <2>1, FS_Subset
  <2> QED
    BY <2>1, <2>2 DEF FiniteSubsetsOf
<1>3. T \subseteq FiniteSubsetsOf(S) /\ T # {}
  BY <1>2
<1>4. PICK least \in T : \A other \in T : ~(<<other, least>> \in StrictSubsetOrdering(S))
  BY <1>3, FS_StrictSubsetOrderingWellFounded, WFMin
<1>5. PICK i \in S : least = After(i)
  BY <1>4
<1>6. After(i) = {}
  <2> SUFFICES ASSUME NEW j \in After(i) PROVE FALSE
    OBVIOUS
  <2>1. j \in S /\ O!Later(log[j], log[i])
    OBVIOUS
  <2>2. After(j) \subseteq After(i) /\ j \notin After(j)
    BY <2>1, LaterOrders
  <2>3. <<After(j), After(i)>> \in StrictSubsetOrdering(S)
    BY <2>2 DEF StrictSubsetOrdering
  <2> QED
    BY <1>4, <1>5, <2>1, <2>3
<1>7. \A j \in S \ {i} : O!Later(log[i], log[j])
  BY <1>6, LaterOrders
<1> QED
  BY <1>7 DEF O!Newest

\* ... and no other entry is later than all.
LEMMA NewestIsUnique ==
    ASSUME NEW log, InOrder(log), NEW S \in SUBSET DOMAIN log, NEW e \in S,
           \A j \in S \ {e} : O!Later(log[e], log[j])
    PROVE  O!Newest(log, S) = e
<1>1. O!Newest(log, S) \in S /\ \A j \in S \ {O!Newest(log, S)} : O!Later(log[O!Newest(log, S)], log[j])
  BY NewestIsLast
<1>2. ASSUME O!Newest(log, S) # e PROVE FALSE
  <2>1. O!Later(log[e], log[O!Newest(log, S)]) /\ O!Later(log[O!Newest(log, S)], log[e])
    BY <1>1, <1>2
  <2> QED
    BY <2>1, <1>1, LaterOrders
<1> QED
  BY <1>2

\* An entry of a moment of its own keeps a log in order.
LEMMA WithKeepsOrder ==
    ASSUME NEW log, InOrder(log), NEW id, NEW entry, entry.at \in Nat, entry.nth \in Nat,
           \A k \in DOMAIN log : log[k].at # entry.at \/ log[k].nth # entry.nth
    PROVE  /\ InOrder(O!With(log, id, entry))
           /\ DOMAIN O!With(log, id, entry) = DOMAIN log \cup {id}
           /\ \A k \in DOMAIN log : O!With(log, id, entry)[k] = log[k]
           /\ id \notin DOMAIN log => O!With(log, id, entry)[id] = entry
<1>1. /\ DOMAIN O!With(log, id, entry) = DOMAIN log \cup {id}
      /\ \A k \in DOMAIN log : O!With(log, id, entry)[k] = log[k]
      /\ id \notin DOMAIN log => O!With(log, id, entry)[id] = entry
  BY DEF O!With
<1>2. IsFiniteSet(DOMAIN log \cup {id})
  BY FS_AddElement DEF InOrder
<1>3. \A k \in DOMAIN O!With(log, id, entry) :
         (k \in DOMAIN log /\ O!With(log, id, entry)[k] = log[k])
         \/ (k = id /\ k \notin DOMAIN log /\ O!With(log, id, entry)[k] = entry)
  BY <1>1
<1> QED
  BY <1>1, <1>2, <1>3 DEF InOrder

\* So do the entries of another log of another moment.
LEMMA MergedKeepsOrder ==
    ASSUME NEW log, InOrder(log), NEW mine, InOrder(mine),
           \A k \in DOMAIN log, l \in DOMAIN mine : log[k].at # mine[l].at
    PROVE  /\ InOrder(O!Merged(log, mine))
           /\ DOMAIN O!Merged(log, mine) = DOMAIN log \cup DOMAIN mine
           /\ \A k \in DOMAIN log : O!Merged(log, mine)[k] = log[k]
           /\ \A k \in DOMAIN mine : k \notin DOMAIN log => O!Merged(log, mine)[k] = mine[k]
<1>1. /\ DOMAIN O!Merged(log, mine) = DOMAIN log \cup DOMAIN mine
      /\ \A k \in DOMAIN log : O!Merged(log, mine)[k] = log[k]
      /\ \A k \in DOMAIN mine : k \notin DOMAIN log => O!Merged(log, mine)[k] = mine[k]
  BY DEF O!Merged
<1>2. IsFiniteSet(DOMAIN log \cup DOMAIN mine)
  BY FS_Union DEF InOrder
<1>3. \A k \in DOMAIN O!Merged(log, mine) :
         (k \in DOMAIN log /\ O!Merged(log, mine)[k] = log[k])
         \/ (k \in DOMAIN mine /\ k \notin DOMAIN log /\ O!Merged(log, mine)[k] = mine[k])
  BY <1>1
<1>4. \A k \in DOMAIN O!Merged(log, mine) : O!Merged(log, mine)[k].at \in Nat /\ O!Merged(log, mine)[k].nth \in Nat
  BY <1>3 DEF InOrder
<1>5. ASSUME NEW k \in DOMAIN O!Merged(log, mine), NEW l \in DOMAIN O!Merged(log, mine), k # l
      PROVE  \/ O!Merged(log, mine)[k].at # O!Merged(log, mine)[l].at
             \/ O!Merged(log, mine)[k].nth # O!Merged(log, mine)[l].nth
  BY <1>3, <1>5 DEF InOrder
<1> QED
  BY <1>1, <1>2, <1>4, <1>5 DEF InOrder

\* What the script does before it commits leaves the tables as they are.
LEMMA ScriptKeeps ==
    ASSUME OutcomesInv, UNCHANGED <<rows, audits, decisions, events, job, executed, blind>>,
           clock' \in Nat, clock <= clock'
    PROVE  RowsFit' /\ LogsFit' /\ KeysFit' /\ JobsFit' /\ (O!Proven' <=> O!Proven)
<1>1. RowsFit' /\ KeysFit' /\ JobsFit'
  BY DEF OutcomesInv, RowsFit, KeysFit, JobsFit, O!Linked
<1>2. Past(decisions)' /\ Past(events)'
  <2>1. \A k \in DOMAIN decisions : decisions[k].at \in Nat /\ decisions[k].at < clock
    BY DEF OutcomesInv, LogsFit, InOrder, Past
  <2>2. \A k \in DOMAIN events : events[k].at \in Nat /\ events[k].at < clock
    BY DEF OutcomesInv, LogsFit, InOrder, Past
  <2>3. clock \in Nat
    BY DEF OutcomesInv, LogsFit
  <2> QED
    BY <2>1, <2>2, <2>3 DEF Past
<1>3. LogsFit'
  BY <1>2 DEF OutcomesInv, LogsFit, InOrder
<1>4. O!Proven' <=> O!Proven
  BY DEF O!Proven, O!Ids
<1> QED
  BY <1>1, <1>3, <1>4

\* A backfill with nothing staged, and mappings that fit, fits.
LEMMA EmptyFits ==
    ASSUME OutcomesInv, UNCHANGED <<rows, audits, decisions, events, job, executed, blind>>,
           clock' \in Nat, clock <= clock',
           DOMAIN backfill' = DOMAIN O!Idle,
           DOMAIN backfill'.links = {}, DOMAIN backfill'.decisions = {}, DOMAIN backfill'.events = {},
           backfill'.phase = "apply" => backfill'.at = clock /\ clock' = clock + 1,
           \A i \in DOMAIN backfill'.todo :
               /\ UnlinkedRow(i) /\ Sound(backfill'.todo[i])
               /\ rows[i].status \in Ended => backfill'.todo[i].state \in O!Final
    PROVE  OutcomesInv'
<1>1. RowsFit' /\ LogsFit' /\ KeysFit' /\ JobsFit' /\ (O!Proven' <=> O!Proven)
  BY ScriptKeeps
<1>2. IsFiniteSet({})
  BY FS_EmptySet
<1>3. InOrder(backfill.decisions)' /\ InOrder(backfill.events)'
  BY <1>2 DEF InOrder
<1>4. ASSUME backfill'.phase = "apply"
      PROVE  /\ backfill'.at \in Nat /\ backfill'.at < clock'
             /\ \A k \in DOMAIN decisions' : decisions'[k].at # backfill'.at
             /\ \A k \in DOMAIN events' : events'[k].at # backfill'.at
  <2>1. \A k \in DOMAIN decisions : decisions[k].at \in Nat /\ decisions[k].at < clock
    BY DEF OutcomesInv, LogsFit, InOrder, Past
  <2>2. \A k \in DOMAIN events : events[k].at \in Nat /\ events[k].at < clock
    BY DEF OutcomesInv, LogsFit, InOrder, Past
  <2>3. clock \in Nat
    BY DEF OutcomesInv, LogsFit
  <2> QED
    BY <1>4, <2>1, <2>2, <2>3
<1>5. StagedFits'
  BY <1>3, <1>4 DEF StagedFits, UnlinkedRow, O!Linked, O!Idle
<1>6. OutcomesSound'
  BY <1>1 DEF OutcomesInv, OutcomesSound, Sound
<1>7. EndsTold'
  <2> SUFFICES ASSUME NEW i \in DOMAIN rows, rows[i].status \in Ended, i \notin blind
               PROVE  /\ O!Linked(i) /\ O!AuditId(i) \notin DOMAIN events => EndsFinal(i)
                      /\ i \in DOMAIN backfill'.todo => backfill'.todo[i].state \in O!Final
    BY DEF EndsTold, EndsFinal, O!Linked, O!EventsOf
  <2> QED
    BY DEF OutcomesInv, EndsTold
<1> QED
  BY <1>1, <1>5, <1>6, <1>7 DEF OutcomesInv

\* An inference says "external" only over a confirmed delivery, and of a row that has ended something final.
LEMMA InferenceFits ==
    ASSUME RowsFit, NEW i \in O!Unlinked
    PROVE  Sound(O!Infer(i)) /\ (rows[i].status \in Ended => O!Infer(i).state \in O!Final)
<1>1. i \in DOMAIN rows /\ rows[i].table \in O!MappedTables
  BY DEF O!Unlinked
<1>2. CASE rows[i].table = "queue"
  <2>1. O!Infer(i) = O!InferQueue(rows[i])
    BY <1>2 DEF O!Infer
  <2> QED
    BY <2>1 DEF O!InferQueue, O!Simulated, O!Outcome, Sound, Ended, O!Final
<1>3. CASE rows[i].table = "log"
  <2>1. O!Infer(i) = O!InferLog(rows[i], O!BlockExists)
    BY <1>3 DEF O!Infer
  <2> QED
    BY <2>1 DEF O!InferLog, O!Simulated, O!Outcome, Sound, Ended, O!Final
<1>4. CASE rows[i].table = "execution"
  <2>1. O!Infer(i) = O!InferExecution(rows[i], O!Corroborated(i))
    BY <1>4 DEF O!Infer
  <2>2. O!Corroborated(i) => O!Proven
    BY DEF O!Corroborated, O!Proven
  <2> QED
    BY <2>1, <2>2 DEF O!InferExecution, O!Simulated, O!Outcome, Sound, Ended, O!Final
<1>5. CASE rows[i].table = "approval"
  <2>1. O!Infer(i) = O!InferApproval(rows[i]) /\ rows[i].status \notin Ended
    BY <1>1, <1>5 DEF O!Infer, RowsFit
  <2> QED
    BY <2>1 DEF O!InferApproval, O!Simulated, O!Outcome, Sound
<1>6. CASE rows[i].table = "notification"
  <2>1. O!Infer(i) = O!InferNotification(rows[i]) /\ i \in O!Ids("notification")
    BY <1>1, <1>6 DEF O!Infer, O!Ids
  <2>2. rows[i].mode = "real" /\ rows[i].status = "success" /\ O!ConfirmsExecution(rows[i].meta) => O!Proven
    BY <2>1 DEF O!Proven
  <2> QED
    BY <2>1, <2>2 DEF O!InferNotification, O!Simulated, O!Outcome, Sound, Ended, O!Final
<1> QED
  BY <1>1, <1>2, <1>3, <1>4, <1>5, <1>6 DEF O!MappedTables

\* The script begins, or gives up.
LEMMA BeginKeeps == ASSUME OutcomesInv, O!Begin PROVE OutcomesInv'
<1> DEFINE plan == [i \in O!Unlinked |-> O!Infer(i)]
<1>1. /\ backfill' = [O!Idle EXCEPT !.phase = "apply", !.at = clock, !.todo = plan, !.plan = O!Announced]
      /\ clock' = clock + 1
      /\ UNCHANGED <<rows, audits, decisions, events, job, executed, blind>>
  BY DEF O!Begin, O!Mappings
<1> HIDE DEF plan
<1>2. /\ DOMAIN backfill' = DOMAIN O!Idle /\ backfill'.todo = plan
      /\ backfill'.links = O!Nothing /\ backfill'.decisions = O!Nothing /\ backfill'.events = O!Nothing
      /\ backfill'.at = clock
  BY <1>1 DEF O!Idle
<1>3. DOMAIN O!Nothing = {}
  BY DEF O!Nothing
<1>4. clock' \in Nat /\ clock <= clock'
  BY <1>1 DEF OutcomesInv, LogsFit
<1>5. DOMAIN plan = O!Unlinked /\ \A i \in O!Unlinked : plan[i] = O!Infer(i)
  BY DEF plan
<1>6. \A i \in O!Unlinked : UnlinkedRow(i)
  BY DEF O!Unlinked, UnlinkedRow
<1>7. \A i \in DOMAIN backfill'.todo :
         /\ UnlinkedRow(i) /\ Sound(backfill'.todo[i])
         /\ rows[i].status \in Ended => backfill'.todo[i].state \in O!Final
  BY <1>2, <1>5, <1>6, InferenceFits DEF OutcomesInv
<1> QED
  BY <1>1, <1>2, <1>3, <1>4, <1>7, EmptyFits

\* A rollback forgets what is staged and nothing else.
LEMMA RollbackKeeps == ASSUME OutcomesInv, O!Rollback PROVE OutcomesInv'
<1>1. backfill' = O!Idle /\ UNCHANGED <<rows, audits, decisions, events, job, clock, executed, blind>>
  BY DEF O!Rollback
<1>2. /\ backfill'.todo = O!Nothing /\ backfill'.links = O!Nothing
      /\ backfill'.decisions = O!Nothing /\ backfill'.events = O!Nothing /\ backfill'.phase # "apply"
  BY <1>1 DEF O!Idle
<1>3. DOMAIN O!Nothing = {}
  BY DEF O!Nothing
<1>4. clock' \in Nat /\ clock <= clock'
  BY <1>1 DEF OutcomesInv, LogsFit
<1> QED
  BY <1>1, <1>2, <1>3, <1>4, EmptyFits

\* A staged event comes after those the transaction already staged.
LEMMA StagedEvent ==
    ASSUME StagedFits, backfill.phase = "apply", NEW k, k \notin DOMAIN backfill.events,
           NEW entry, entry.at = backfill.at, entry.nth = O!Cardinality(DOMAIN backfill.events)
    PROVE  LET mine == O!With(backfill.events, k, entry)
           IN  /\ InOrder(mine)
               /\ DOMAIN mine = DOMAIN backfill.events \cup {k} /\ mine[k] = entry
               /\ \A l \in DOMAIN backfill.events : mine[l] = backfill.events[l]
               /\ Cardinality(DOMAIN mine) = Cardinality(DOMAIN backfill.events) + 1
               /\ \A l \in DOMAIN mine : mine[l].nth < Cardinality(DOMAIN mine)
<1> DEFINE staged == backfill.events
           mine == O!With(staged, k, entry)
<1>1. /\ InOrder(staged) /\ backfill.at \in Nat
      /\ \A l \in DOMAIN staged : staged[l].at = backfill.at /\ staged[l].nth \in Nat /\ staged[l].nth < Cardinality(DOMAIN staged)
  BY DEF StagedFits, InOrder
<1>2. IsFiniteSet(DOMAIN staged)
  BY <1>1 DEF InOrder
<1>3. Cardinality(DOMAIN staged) \in Nat /\ Cardinality(DOMAIN staged \cup {k}) = Cardinality(DOMAIN staged) + 1
  BY <1>2, FS_CardinalityType, FS_AddElement
<1>4. entry.nth = Cardinality(DOMAIN staged)
  BY OutcomeCounts
<1> HIDE DEF staged
<1>5. \A l \in DOMAIN staged : staged[l].at # entry.at \/ staged[l].nth # entry.nth
  BY <1>1, <1>3, <1>4
<1>6. entry.at \in Nat /\ entry.nth \in Nat /\ k \notin DOMAIN staged
  BY <1>1, <1>3, <1>4 DEF staged
<1>7. /\ InOrder(mine) /\ DOMAIN mine = DOMAIN staged \cup {k} /\ mine[k] = entry
      /\ \A l \in DOMAIN staged : mine[l] = staged[l]
  <2> HIDE DEF mine
  <2>1. InOrder(staged)
    BY <1>1
  <2>2. /\ InOrder(O!With(staged, k, entry))
        /\ DOMAIN O!With(staged, k, entry) = DOMAIN staged \cup {k}
        /\ \A l \in DOMAIN staged : O!With(staged, k, entry)[l] = staged[l]
        /\ k \notin DOMAIN staged => O!With(staged, k, entry)[k] = entry
    BY <1>5, <1>6, <2>1, WithKeepsOrder
  <2> QED
    BY <1>6, <2>2 DEF mine
<1> HIDE DEF mine
<1>8. \A l \in DOMAIN mine : mine[l].nth < Cardinality(DOMAIN mine)
  BY <1>1, <1>3, <1>4, <1>7
<1> QED
  BY <1>3, <1>7, <1>8 DEF mine, staged

\* A row no decision is committed for has no committed entries.
LEMMA UnlinkedHasNone ==
    ASSUME OutcomesInv, NEW i, UnlinkedRow(i)
    PROVE  /\ O!LegacyId(i) \notin DOMAIN decisions
           /\ \A k \in DOMAIN events : k[2] # i
           /\ O!LegacyId(i) \notin DOMAIN events
<1>1. O!LegacyId(i) \in {"legacy", "live"} \X Nat /\ O!LegacyId(i)[2] = i
  BY DEF UnlinkedRow, OutcomesInv, RowsFit, O!LegacyId
<1>2. O!LegacyId(i) # None
  BY <1>1, ScenesAssumption
<1>3. \A k \in DOMAIN decisions : k[2] # i
  BY DEF OutcomesInv, KeysFit, UnlinkedRow, O!Linked
<1>4. \A k \in DOMAIN events : k[2] # i
  BY DEF OutcomesInv, KeysFit, UnlinkedRow
<1> QED
  BY <1>1, <1>2, <1>3, <1>4

\* One mapping becomes a staged decision, its event and its link.
LEMMA ApplyKeeps == ASSUME OutcomesInv, O!Apply PROVE OutcomesInv'
<1> USE DEF OutcomesInv
<1>1. PICK i \in DOMAIN backfill.todo :
        LET d == O!LegacyId(i)
            e == O!Event(d, i, backfill.todo[i], backfill.at, O!Cardinality(DOMAIN backfill.events))
        IN /\ backfill.phase = "apply"
           /\ backfill' = [backfill EXCEPT !.todo = [j \in DOMAIN @ \ {i} |-> @[j]],
                                           !.decisions = O!Staged(d, decisions, @, O!Decision(i, backfill.at)),
                                           !.events = O!Staged(d, events, @, e),
                                           !.links = O!Link(i, @)]
           /\ UNCHANGED <<rows, audits, decisions, events, job, clock, runs, executed, blind>>
  BY DEF O!Apply
<1> DEFINE d == O!LegacyId(i)
           e == O!Event(d, i, backfill.todo[i], backfill.at, O!Cardinality(DOMAIN backfill.events))
           told == O!Decision(i, backfill.at)
<1>17. backfill.phase = "apply" /\ UNCHANGED <<rows, audits, decisions, events, job, clock, executed, blind>>
  BY <1>1
<1>2. UnlinkedRow(i) /\ i \notin DOMAIN backfill.links /\ i \in Nat
  BY DEF StagedFits, UnlinkedRow, RowsFit
<1>3. d \notin DOMAIN decisions /\ d \notin DOMAIN events
  BY <1>2, UnlinkedHasNone
<1>4. d[2] = i /\ d = O!LegacyId(d[2])
  BY DEF O!LegacyId
<1>5. d \notin DOMAIN backfill.events /\ d \notin DOMAIN backfill.decisions
  BY <1>2, <1>4 DEF StagedFits
<1>6. e.decision = d /\ e.at = backfill.at /\ e.nth = O!Cardinality(DOMAIN backfill.events) /\ e.outcome = backfill.todo[i]
  BY DEF O!Event
<1>7. told.at = backfill.at /\ told.nth = i
  BY DEF O!Decision
<1> HIDE DEF e, told, d
<1>8. /\ DOMAIN backfill' = DOMAIN backfill /\ backfill'.phase = "apply" /\ backfill'.at = backfill.at
      /\ backfill'.todo = [j \in DOMAIN backfill.todo \ {i} |-> backfill.todo[j]]
      /\ backfill'.decisions = O!With(backfill.decisions, d, told)
      /\ backfill'.events = O!With(backfill.events, d, e)
      /\ backfill'.links = O!With(backfill.links, i, d)
  <2>1. DOMAIN backfill = {"phase", "at", "plan", "todo", "decisions", "events", "links", "audited"}
    BY DEF StagedFits, O!Idle
  <2> QED
    BY <1>1, <1>3, <2>1 DEF d, e, told, O!Staged, O!Link
<1>9. /\ InOrder(backfill'.events)
      /\ DOMAIN backfill'.events = DOMAIN backfill.events \cup {d} /\ backfill'.events[d] = e
      /\ \A l \in DOMAIN backfill.events : backfill'.events[l] = backfill.events[l]
      /\ \A l \in DOMAIN backfill'.events : backfill'.events[l].nth < Cardinality(DOMAIN backfill'.events)
  <2>1. /\ InOrder(O!With(backfill.events, d, e))
        /\ DOMAIN O!With(backfill.events, d, e) = DOMAIN backfill.events \cup {d} /\ O!With(backfill.events, d, e)[d] = e
        /\ \A l \in DOMAIN backfill.events : O!With(backfill.events, d, e)[l] = backfill.events[l]
        /\ \A l \in DOMAIN O!With(backfill.events, d, e) :
               O!With(backfill.events, d, e)[l].nth < Cardinality(DOMAIN O!With(backfill.events, d, e))
    <3>1. StagedFits /\ backfill.phase = "apply" /\ d \notin DOMAIN backfill.events
      BY <1>5, <1>17
    <3>2. e.at = backfill.at /\ e.nth = O!Cardinality(DOMAIN backfill.events)
      BY <1>6
    <3> HIDE DEF OutcomesInv
    <3> QED
      BY <3>1, <3>2, StagedEvent
  <2> QED
    BY <1>8, <2>1
<1>10. /\ InOrder(backfill'.decisions)
       /\ DOMAIN backfill'.decisions = DOMAIN backfill.decisions \cup {d} /\ backfill'.decisions[d] = told
       /\ \A l \in DOMAIN backfill.decisions : backfill'.decisions[l] = backfill.decisions[l]
  <2>1. backfill.at \in Nat /\ InOrder(backfill.decisions)
    BY <1>17 DEF StagedFits
  <2>2. \A k \in DOMAIN backfill.decisions :
            backfill.decisions[k].at # told.at \/ backfill.decisions[k].nth # told.nth
    BY <1>2, <1>7 DEF StagedFits
  <2>3. told.at \in Nat /\ told.nth \in Nat
    BY <1>2, <1>7, <2>1
  <2>4. /\ InOrder(O!With(backfill.decisions, d, told))
        /\ DOMAIN O!With(backfill.decisions, d, told) = DOMAIN backfill.decisions \cup {d}
        /\ \A k \in DOMAIN backfill.decisions : O!With(backfill.decisions, d, told)[k] = backfill.decisions[k]
        /\ d \notin DOMAIN backfill.decisions => O!With(backfill.decisions, d, told)[d] = told
    BY <2>1, <2>2, <2>3, WithKeepsOrder
  <2> QED
    BY <1>5, <1>8, <2>4
<1>11. /\ DOMAIN backfill'.links = DOMAIN backfill.links \cup {i} /\ backfill'.links[i] = d
       /\ \A j \in DOMAIN backfill.links : backfill'.links[j] = backfill.links[j]
  BY <1>2, <1>8 DEF O!With
<1>12. /\ DOMAIN backfill'.todo = DOMAIN backfill.todo \ {i}
       /\ \A j \in DOMAIN backfill'.todo : backfill'.todo[j] = backfill.todo[j]
  BY <1>8
<1>13. RowsFit' /\ LogsFit' /\ KeysFit' /\ JobsFit' /\ (O!Proven' <=> O!Proven)
  <2>1. clock' \in Nat /\ clock <= clock'
    BY <1>17 DEF LogsFit
  <2> QED
    BY <1>17, <2>1, ScriptKeeps
<1>14. StagedFits'
  <2>1. DOMAIN backfill' = DOMAIN O!Idle /\ (O!LegacyId(i) = d) /\ d[2] = i
    BY <1>4, <1>8 DEF StagedFits, d
  <2>2. /\ backfill'.at \in Nat /\ backfill'.at < clock'
        /\ \A k \in DOMAIN decisions' : decisions'[k].at # backfill'.at
        /\ \A k \in DOMAIN events' : events'[k].at # backfill'.at
    BY <1>17, <1>8 DEF StagedFits
  <2>3. \A j \in DOMAIN backfill'.todo : UnlinkedRow(j)' /\ j \notin DOMAIN backfill'.links
    BY <1>17, <1>11, <1>12 DEF StagedFits, UnlinkedRow, O!Linked
  <2>4. \A j \in DOMAIN backfill'.links :
          /\ UnlinkedRow(j)' /\ backfill'.links[j] = O!LegacyId(j)
          /\ O!LegacyId(j) \in DOMAIN backfill'.decisions /\ O!LegacyId(j) \in DOMAIN backfill'.events
    BY <1>17, <1>2, <1>9, <1>10, <1>11, <2>1 DEF StagedFits, UnlinkedRow, O!Linked
  <2>5. \A k \in DOMAIN backfill'.decisions :
          /\ k[2] \in DOMAIN backfill'.links /\ k = O!LegacyId(k[2])
          /\ backfill'.decisions[k].at = backfill'.at /\ backfill'.decisions[k].nth = k[2]
    BY <1>4, <1>7, <1>8, <1>10, <1>11, <2>1 DEF StagedFits
  <2>6. ASSUME NEW k \in DOMAIN backfill.events
        PROVE  /\ k[2] \in DOMAIN rows' /\ k \in {O!LegacyId(k[2]), O!AuditId(k[2])}
               /\ k = O!LegacyId(k[2]) => k[2] \in DOMAIN backfill'.links
               /\ O!DecisionSeen(k[2])' # None /\ backfill'.events[k].decision = O!DecisionSeen(k[2])'
               /\ backfill'.events[k].at = backfill'.at
    <3>1. /\ k[2] \in DOMAIN rows /\ k \in {O!LegacyId(k[2]), O!AuditId(k[2])}
          /\ k = O!LegacyId(k[2]) => k[2] \in DOMAIN backfill.links
          /\ O!DecisionSeen(k[2]) # None /\ backfill.events[k].decision = O!DecisionSeen(k[2])
          /\ backfill.events[k].at = backfill.at
      BY DEF StagedFits
    <3>2. k[2] # i
      BY <1>2, <3>1 DEF O!DecisionSeen, UnlinkedRow, O!Linked
    <3>3. O!DecisionSeen(k[2])' = O!DecisionSeen(k[2])
      BY <1>17, <1>11, <3>2 DEF O!DecisionSeen
    <3> QED
      BY <1>17, <1>8, <1>9, <1>11, <3>1, <3>3
  <2>7. /\ i \in DOMAIN rows' /\ i \in DOMAIN backfill'.links
        /\ O!DecisionSeen(i)' = d /\ d # None
    <3>1. d \in {"legacy", "live"} \X Nat
      BY <1>2 DEF d, O!LegacyId
    <3>2. d # None
      BY <3>1, ScenesAssumption
    <3> QED
      BY <1>17, <1>2, <1>11, <3>2 DEF O!DecisionSeen, UnlinkedRow
  <2>8. \A k \in DOMAIN backfill'.events :
          /\ k[2] \in DOMAIN rows' /\ k \in {O!LegacyId(k[2]), O!AuditId(k[2])}
          /\ k = O!LegacyId(k[2]) => k[2] \in DOMAIN backfill'.links
          /\ O!DecisionSeen(k[2])' # None /\ backfill'.events[k].decision = O!DecisionSeen(k[2])'
          /\ backfill'.events[k].at = backfill'.at
    BY <1>6, <1>8, <1>9, <2>1, <2>6, <2>7
  <2> QED
    BY <1>8, <1>9, <1>10, <2>1, <2>2, <2>3, <2>4, <2>5, <2>8 DEF StagedFits
<1>15. OutcomesSound'
  BY <1>17, <1>6, <1>9, <1>12, <1>13 DEF OutcomesSound, Sound
<1>16. EndsTold'
  <2> SUFFICES ASSUME NEW j \in DOMAIN rows, rows[j].status \in Ended, j \notin blind
               PROVE  /\ O!Linked(j) /\ O!AuditId(j) \notin DOMAIN events => EndsFinal(j)
                      /\ j \in DOMAIN backfill'.todo => backfill'.todo[j].state \in O!Final
                      /\ j \in DOMAIN backfill'.links => backfill'.events[O!LegacyId(j)].outcome.state \in O!Final
    BY <1>17, SMTT(30) DEF EndsTold, EndsFinal, O!Linked, O!EventsOf
  <2>1. j \in DOMAIN backfill.links => backfill'.events[O!LegacyId(j)] = backfill.events[O!LegacyId(j)]
    BY <1>9 DEF StagedFits
  <2>2. d = O!LegacyId(i)
    BY DEF d
  <2> QED
    BY <1>6, <1>9, <1>11, <1>12, <2>1, <2>2 DEF EndsTold
<1> QED
  BY <1>13, <1>14, <1>15, <1>16

\* An audit row of a linked execution adds an event to its decision.
LEMMA LinkAuditKeeps == ASSUME OutcomesInv, O!LinkAudit PROVE OutcomesInv'
<1>1. PICK i \in O!Unaudited :
        /\ backfill.phase = "apply" /\ backfill.todo = O!Nothing
        /\ backfill' = [backfill EXCEPT !.audited = @ \cup {i},
                !.events = O!Staged(O!AuditId(i), events, @,
                                    O!Event(O!DecisionSeen(i), i, O!Simulated("selected"), backfill.at,
                                            O!Cardinality(DOMAIN backfill.events)))]
        /\ UNCHANGED <<rows, audits, decisions, events, job, clock, runs, executed, blind>>
  BY DEF O!LinkAudit
<1> DEFINE d == O!AuditId(i)
           e == O!Event(O!DecisionSeen(i), i, O!Simulated("selected"), backfill.at, O!Cardinality(DOMAIN backfill.events))
           staged == backfill.events
<1>2. backfill.phase = "apply" /\ UNCHANGED <<rows, audits, decisions, events, job, clock, executed, blind>>
  BY <1>1
<1>3. i \in DOMAIN rows /\ O!DecisionSeen(i) # None
  BY DEF O!Unaudited, OutcomesInv, RowsFit
<1>4. d[2] = i /\ d = O!AuditId(d[2]) /\ d # O!LegacyId(d[2])
  BY DEF O!AuditId, O!LegacyId
<1>5. /\ e.decision = O!DecisionSeen(i) /\ e.at = backfill.at /\ e.nth = O!Cardinality(DOMAIN backfill.events)
      /\ e.outcome.flag = "none"
  BY DEF O!Event, O!Simulated, O!Outcome
<1> HIDE DEF e
<1>6. /\ DOMAIN backfill' = DOMAIN O!Idle /\ backfill'.phase = "apply" /\ backfill'.at = backfill.at
      /\ backfill'.todo = backfill.todo /\ backfill'.decisions = backfill.decisions /\ backfill'.links = backfill.links
      /\ backfill'.events = O!Staged(d, events, staged, e)
  <2>1. DOMAIN backfill = {"phase", "at", "plan", "todo", "decisions", "events", "links", "audited"}
        /\ DOMAIN backfill = DOMAIN O!Idle
    BY DEF OutcomesInv, StagedFits, O!Idle
  <2> QED
    BY <1>1, <2>1 DEF e
<1> HIDE DEF d
<1>7. StagedFits
  BY DEF OutcomesInv
<1>8. /\ InOrder(backfill'.events)
      /\ \A l \in DOMAIN staged : l \in DOMAIN backfill'.events /\ backfill'.events[l] = staged[l]
      /\ \A l \in DOMAIN backfill'.events : l \in DOMAIN staged \/ (l = d /\ backfill'.events[l] = e)
      /\ \A l \in DOMAIN backfill'.events : backfill'.events[l].nth < Cardinality(DOMAIN backfill'.events)
  <2>1. InOrder(staged) /\ \A l \in DOMAIN staged : staged[l].nth < Cardinality(DOMAIN staged)
    BY <1>7 DEF StagedFits
  <2>2. CASE d \in DOMAIN events
    <3>1. backfill'.events = staged
      BY <1>6, <2>2 DEF O!Staged
    <3> QED
      BY <2>1, <3>1
  <2>3. CASE d \notin DOMAIN events /\ d \in DOMAIN staged
    <3>1. backfill'.events = [l \in DOMAIN staged |-> staged[l]]
      BY <1>6, <2>3 DEF O!Staged, O!With
    <3> QED
      BY <2>1, <3>1 DEF InOrder
  <2>4. CASE d \notin DOMAIN events /\ d \notin DOMAIN staged
    <3>1. backfill'.events = O!With(backfill.events, d, e)
      BY <1>6, <2>4 DEF O!Staged
    <3>2. /\ InOrder(O!With(backfill.events, d, e))
          /\ DOMAIN O!With(backfill.events, d, e) = DOMAIN backfill.events \cup {d} /\ O!With(backfill.events, d, e)[d] = e
          /\ \A l \in DOMAIN backfill.events : O!With(backfill.events, d, e)[l] = backfill.events[l]
          /\ \A l \in DOMAIN O!With(backfill.events, d, e) :
                 O!With(backfill.events, d, e)[l].nth < Cardinality(DOMAIN O!With(backfill.events, d, e))
      <4>1. StagedFits /\ backfill.phase = "apply" /\ d \notin DOMAIN backfill.events
        BY <1>2, <1>7, <2>4
      <4>2. e.at = backfill.at /\ e.nth = O!Cardinality(DOMAIN backfill.events)
        BY <1>5
      <4> QED
        BY <4>1, <4>2, StagedEvent
    <3> QED
      BY <3>1, <3>2
  <2> QED
    BY <2>2, <2>3, <2>4
<1>9. RowsFit' /\ LogsFit' /\ KeysFit' /\ JobsFit' /\ (O!Proven' <=> O!Proven)
  <2>1. clock' \in Nat /\ clock <= clock'
    BY <1>2 DEF OutcomesInv, LogsFit
  <2> QED
    BY <1>2, <2>1, ScriptKeeps
<1>10. \A j : O!DecisionSeen(j)' = O!DecisionSeen(j)
  BY <1>2, <1>6 DEF O!DecisionSeen
<1>11. StagedFits'
  <2>1. /\ backfill'.at \in Nat /\ backfill'.at < clock'
        /\ \A k \in DOMAIN decisions' : decisions'[k].at # backfill'.at
        /\ \A k \in DOMAIN events' : events'[k].at # backfill'.at
    BY <1>2, <1>6, <1>7 DEF StagedFits
  <2>2. \A j \in DOMAIN backfill'.todo : UnlinkedRow(j)' /\ j \notin DOMAIN backfill'.links
    BY <1>2, <1>6, <1>7 DEF StagedFits, UnlinkedRow, O!Linked
  <2>3. \A j \in DOMAIN backfill'.links :
          /\ UnlinkedRow(j)' /\ backfill'.links[j] = O!LegacyId(j)
          /\ O!LegacyId(j) \in DOMAIN backfill'.decisions /\ O!LegacyId(j) \in DOMAIN backfill'.events
    BY <1>2, <1>6, <1>7, <1>8 DEF StagedFits, UnlinkedRow, O!Linked
  <2>4. InOrder(backfill'.decisions) /\ \A k \in DOMAIN backfill'.decisions :
          /\ k[2] \in DOMAIN backfill'.links /\ k = O!LegacyId(k[2])
          /\ backfill'.decisions[k].at = backfill'.at /\ backfill'.decisions[k].nth = k[2]
    BY <1>6, <1>7 DEF StagedFits
  <2>5. \A k \in DOMAIN backfill'.events :
          /\ k[2] \in DOMAIN rows' /\ k \in {O!LegacyId(k[2]), O!AuditId(k[2])}
          /\ k = O!LegacyId(k[2]) => k[2] \in DOMAIN backfill'.links
          /\ O!DecisionSeen(k[2])' # None /\ backfill'.events[k].decision = O!DecisionSeen(k[2])'
          /\ backfill'.events[k].at = backfill'.at
    BY <1>2, <1>3, <1>4, <1>5, <1>6, <1>7, <1>8, <1>10 DEF StagedFits
  <2> QED
    BY <1>6, <1>8, <2>1, <2>2, <2>3, <2>4, <2>5 DEF StagedFits
<1>12. OutcomesSound'
  BY <1>2, <1>5, <1>6, <1>8, <1>9 DEF OutcomesInv, OutcomesSound, Sound
<1>13. EndsTold'
  <2> SUFFICES ASSUME NEW j \in DOMAIN rows, rows[j].status \in Ended, j \notin blind
               PROVE  /\ O!Linked(j) /\ O!AuditId(j) \notin DOMAIN events => EndsFinal(j)
                      /\ j \in DOMAIN backfill'.todo => backfill'.todo[j].state \in O!Final
                      /\ j \in DOMAIN backfill'.links => backfill'.events[O!LegacyId(j)].outcome.state \in O!Final
    BY <1>2 DEF EndsTold, EndsFinal, O!Linked, O!EventsOf
  <2>1. j \in DOMAIN backfill.links => backfill'.events[O!LegacyId(j)] = backfill.events[O!LegacyId(j)]
    BY <1>7, <1>8 DEF StagedFits
  <2> QED
    BY <1>6, <2>1 DEF OutcomesInv, EndsTold
<1> QED
  BY <1>9, <1>11, <1>12, <1>13 DEF OutcomesInv

\* The script commits: what it staged joins the logs, and its rows are linked.
LEMMA CommitKeeps == ASSUME OutcomesInv, O!Commit PROVE OutcomesInv'
<1>1. /\ backfill.phase = "apply"
      /\ rows' = [i \in DOMAIN rows |-> [rows[i] EXCEPT !.decision = O!DecisionSeen(i)]]
      /\ decisions' = O!Merged(decisions, backfill.decisions) /\ events' = O!Merged(events, backfill.events)
      /\ audits' = audits \ backfill.audited
      /\ backfill' = [O!Idle EXCEPT !.phase = "done", !.plan = backfill.plan]
      /\ UNCHANGED <<job, clock, executed, blind>>
  BY DEF O!Commit
<1>2. RowsFit /\ LogsFit /\ KeysFit /\ StagedFits /\ JobsFit /\ OutcomesSound /\ EndsTold
  BY DEF OutcomesInv
<1>3. /\ DOMAIN rows' = DOMAIN rows
      /\ \A i \in DOMAIN rows :
            /\ DOMAIN rows'[i] = DOMAIN Blank /\ rows'[i].decision = O!DecisionSeen(i)
            /\ rows'[i].table = rows[i].table /\ rows'[i].status = rows[i].status
            /\ rows'[i].mode = rows[i].mode /\ rows'[i].meta = rows[i].meta
  BY <1>1, <1>2 DEF RowsFit, Blank
<1>4. ASSUME NEW i \in DOMAIN rows
      PROVE  /\ i \in DOMAIN backfill.links =>
                   UnlinkedRow(i) /\ rows'[i].decision = O!LegacyId(i) /\ rows'[i].decision # None
             /\ i \notin DOMAIN backfill.links => rows'[i].decision = rows[i].decision
  <2>1. O!LegacyId(i) # None
    <3>1. O!LegacyId(i) \in {"legacy", "live"} \X Nat
      BY <1>2 DEF RowsFit, O!LegacyId
    <3> QED
      BY <3>1, ScenesAssumption
  <2> QED
    BY <1>2, <1>3, <2>1 DEF StagedFits, O!DecisionSeen
<1>5. /\ DOMAIN backfill' = DOMAIN O!Idle /\ backfill'.phase # "apply"
      /\ DOMAIN backfill'.todo = {} /\ DOMAIN backfill'.links = {}
      /\ DOMAIN backfill'.decisions = {} /\ DOMAIN backfill'.events = {}
  BY <1>1 DEF O!Idle, O!Nothing
<1>6. /\ InOrder(decisions') /\ DOMAIN decisions' = DOMAIN decisions \cup DOMAIN backfill.decisions
      /\ \A k \in DOMAIN decisions : decisions'[k] = decisions[k]
      /\ \A k \in DOMAIN backfill.decisions : k \notin DOMAIN decisions => decisions'[k] = backfill.decisions[k]
  <2>1. InOrder(decisions) /\ InOrder(backfill.decisions)
    BY <1>2 DEF LogsFit, StagedFits
  <2>2. \A k \in DOMAIN decisions, l \in DOMAIN backfill.decisions : decisions[k].at # backfill.decisions[l].at
    BY <1>1, <1>2 DEF StagedFits
  <2>3. /\ InOrder(O!Merged(decisions, backfill.decisions))
        /\ DOMAIN O!Merged(decisions, backfill.decisions) = DOMAIN decisions \cup DOMAIN backfill.decisions
        /\ \A k \in DOMAIN decisions : O!Merged(decisions, backfill.decisions)[k] = decisions[k]
        /\ \A k \in DOMAIN backfill.decisions :
               k \notin DOMAIN decisions => O!Merged(decisions, backfill.decisions)[k] = backfill.decisions[k]
    BY <2>1, <2>2, MergedKeepsOrder
  <2> QED
    BY <1>1, <2>3
<1>7. /\ InOrder(events') /\ DOMAIN events' = DOMAIN events \cup DOMAIN backfill.events
      /\ \A k \in DOMAIN events : events'[k] = events[k]
      /\ \A k \in DOMAIN backfill.events : k \notin DOMAIN events => events'[k] = backfill.events[k]
  <2>1. InOrder(events) /\ InOrder(backfill.events)
    BY <1>2 DEF LogsFit, StagedFits
  <2>2. \A k \in DOMAIN events, l \in DOMAIN backfill.events : events[k].at # backfill.events[l].at
    BY <1>1, <1>2 DEF StagedFits
  <2>3. /\ InOrder(O!Merged(events, backfill.events))
        /\ DOMAIN O!Merged(events, backfill.events) = DOMAIN events \cup DOMAIN backfill.events
        /\ \A k \in DOMAIN events : O!Merged(events, backfill.events)[k] = events[k]
        /\ \A k \in DOMAIN backfill.events :
               k \notin DOMAIN events => O!Merged(events, backfill.events)[k] = backfill.events[k]
    BY <2>1, <2>2, MergedKeepsOrder
  <2> QED
    BY <1>1, <2>3
<1>8. O!Proven => O!Proven'
  <2>1. executed' = executed /\ O!Ids("notification")' = O!Ids("notification")
    BY <1>1, <1>3 DEF O!Ids
  <2>2. ASSUME NEW n \in O!Ids("notification"),
               rows[n].mode = "real" /\ rows[n].status = "success" /\ O!ConfirmsExecution(rows[n].meta)
        PROVE  rows'[n].mode = "real" /\ rows'[n].status = "success" /\ O!ConfirmsExecution(rows'[n].meta)
    BY <1>3, <2>2 DEF O!Ids
  <2> QED
    BY <2>1, <2>2 DEF O!Proven
<1>9. RowsFit'
  <2>1. audits' \subseteq DOMAIN rows'
    BY <1>1, <1>2, <1>3 DEF RowsFit
  <2>2. ASSUME NEW i \in DOMAIN rows, O!Linked(i)'
        PROVE  /\ rows'[i].table \in O!MappedTables
               /\ rows'[i].decision \in {O!LegacyId(i), O!LiveId(i)} /\ rows'[i].decision \in DOMAIN decisions'
    <3>1. CASE i \in DOMAIN backfill.links
      BY <1>2, <1>3, <1>4, <1>6, <3>1 DEF StagedFits, UnlinkedRow
    <3>2. CASE i \notin DOMAIN backfill.links
      BY <1>2, <1>3, <1>4, <1>6, <2>2, <3>2 DEF RowsFit, O!Linked
    <3> QED
      BY <3>1, <3>2
  <2> QED
    BY <1>2, <1>3, <2>1, <2>2 DEF RowsFit
<1>10. LogsFit'
  <2>1. /\ backfill.at < clock
        /\ \A k \in DOMAIN backfill.decisions : backfill.decisions[k].at = backfill.at
        /\ \A k \in DOMAIN backfill.events : backfill.events[k].at = backfill.at
    BY <1>1, <1>2 DEF StagedFits
  <2> QED
    BY <1>1, <1>2, <1>6, <1>7, <2>1 DEF LogsFit, Past
<1>11. KeysFit'
  <2>1. ASSUME NEW k \in DOMAIN decisions' PROVE k[2] \in DOMAIN rows' /\ O!Linked(k[2])' /\ rows'[k[2]].decision = k
    <3>1. CASE k \in DOMAIN decisions
      <4>1. k[2] \in DOMAIN rows /\ O!Linked(k[2]) /\ rows[k[2]].decision = k
        BY <1>2, <3>1 DEF KeysFit
      <4>2. k[2] \notin DOMAIN backfill.links
        <5> SUFFICES ASSUME k[2] \in DOMAIN backfill.links PROVE FALSE
          OBVIOUS
        <5>1. UnlinkedRow(k[2])
          BY <1>4, <4>1
        <5> QED
          BY <4>1, <5>1 DEF UnlinkedRow
      <4> QED
        BY <1>3, <1>4, <4>1, <4>2 DEF O!Linked
    <3>2. CASE k \in DOMAIN backfill.decisions
      BY <1>2, <1>3, <1>4, <3>2 DEF StagedFits, UnlinkedRow, O!Linked
    <3> QED
      BY <1>6, <3>1, <3>2
  <2>2. ASSUME NEW k \in DOMAIN events'
        PROVE  /\ k[2] \in DOMAIN rows' /\ O!Linked(k[2])'
               /\ events'[k].decision = rows'[k[2]].decision
               /\ k[1] \in {"succeeded", "failed", "play"} => rows'[k[2]].status \in Ended
    <3>1. CASE k \in DOMAIN events
      <4>1. /\ k[2] \in DOMAIN rows /\ O!Linked(k[2]) /\ events[k].decision = rows[k[2]].decision
            /\ k[1] \in {"succeeded", "failed", "play"} => rows[k[2]].status \in Ended
        BY <1>2, <3>1 DEF KeysFit
      <4>2. k[2] \notin DOMAIN backfill.links
        BY <1>4, <4>1 DEF UnlinkedRow
      <4> QED
        BY <1>3, <1>4, <1>7, <3>1, <4>1, <4>2 DEF O!Linked
    <3>2. CASE k \in DOMAIN backfill.events /\ k \notin DOMAIN events
      <4>1. /\ k[2] \in DOMAIN rows /\ k[1] \in {"legacy", "audit"}
            /\ O!DecisionSeen(k[2]) # None /\ backfill.events[k].decision = O!DecisionSeen(k[2])
        BY <1>2, <3>2 DEF StagedFits, O!LegacyId, O!AuditId
      <4> QED
        BY <1>3, <1>7, <3>2, <4>1 DEF O!Linked
    <3> QED
      BY <1>7, <3>1, <3>2
  <2> QED
    BY <2>1, <2>2 DEF KeysFit
<1>12. StagedFits'
  <2>1. IsFiniteSet({})
    BY FS_EmptySet
  <2>2. InOrder(backfill'.decisions) /\ InOrder(backfill'.events)
    BY <1>5, <2>1 DEF InOrder
  <2> QED
    BY <1>5, <2>2 DEF StagedFits
<1>13. JobsFit'
  <2>1. ASSUME NEW w \in Workers, job[w] # None
        PROVE  \/ job[w].decision = None /\ job[w].row \in blind
               \/ job[w].decision = rows'[job[w].row].decision /\ O!Linked(job[w].row)'
    <3>1. /\ job[w].row \in DOMAIN rows
          /\ \/ job[w].decision = None /\ job[w].row \in blind
             \/ job[w].decision = rows[job[w].row].decision /\ O!Linked(job[w].row)
      BY <1>2, <2>1 DEF JobsFit
    <3>2. O!Linked(job[w].row) => job[w].row \notin DOMAIN backfill.links
      BY <1>4, <3>1 DEF UnlinkedRow
    <3>3. O!Linked(job[w].row) => rows'[job[w].row].decision = rows[job[w].row].decision /\ O!Linked(job[w].row)'
      <4>1. job' = job
        BY <1>1
      <4> QED
        BY <1>4, <3>1, <3>2, <4>1 DEF O!Linked
    <3> QED
      BY <3>1, <3>3
  <2> QED
    BY <1>1, <1>2, <1>3, <2>1 DEF JobsFit
<1>14. OutcomesSound'
  BY <1>2, <1>5, <1>7, <1>8 DEF OutcomesSound, Sound
<1>15. EndsTold'
  <2> SUFFICES ASSUME NEW i \in DOMAIN rows, rows[i].status \in Ended, i \notin blind,
                      O!Linked(i)', O!AuditId(i) \notin DOMAIN events'
               PROVE  EndsFinal(i)'
    BY <1>1, <1>3, <1>5 DEF EndsTold
  <2>1. CASE i \in DOMAIN backfill.links
    <3> DEFINE e == O!LegacyId(i)
    <3>1. UnlinkedRow(i) /\ rows'[i].decision = e /\ e \in DOMAIN backfill.events
      BY <1>2, <1>4, <2>1 DEF StagedFits
    <3>2. \A k \in DOMAIN events : k[2] # i
      BY <3>1, UnlinkedHasNone
    <3>3. e[2] = i
      BY DEF O!LegacyId
    <3>4. events'[e] = backfill.events[e] /\ e \in DOMAIN events' /\ events'[e].outcome.state \in O!Final
      BY <1>2, <1>7, <2>1, <3>1, <3>2, <3>3 DEF EndsTold
    <3>5. ASSUME NEW k \in O!EventsOf(rows[i].decision)' PROVE k = e
      <4>1. k \in DOMAIN events' /\ events'[k].decision = e
        BY <3>1 DEF O!EventsOf
      <4>2. k[2] \in DOMAIN rows' /\ rows'[k[2]].decision = e
        BY <1>11, <4>1 DEF KeysFit
      <4>3. k[2] = i
        <5>1. rows'[k[2]].decision \in {O!LegacyId(k[2]), O!LiveId(k[2])}
          BY <1>9, <1>11, <4>1, <4>2 DEF RowsFit, KeysFit
        <5> QED
          BY <4>2, <5>1 DEF O!LegacyId, O!LiveId
      <4>4. k \in DOMAIN backfill.events /\ k \in {O!LegacyId(i), O!AuditId(i)}
        BY <1>2, <1>7, <3>2, <4>1, <4>3 DEF StagedFits
      <4> QED
        BY <4>1, <4>4
    <3>6. e \in O!EventsOf(rows[i].decision)'
      <4>1. events'[e].decision = rows'[i].decision
        BY <1>11, <3>3, <3>4 DEF KeysFit
      <4> QED
        BY <3>4, <4>1 DEF O!EventsOf
    <3> HIDE DEF e
    <3> QED
      BY <3>4, <3>5, <3>6 DEF EndsFinal
  <2>2. CASE i \notin DOMAIN backfill.links
    <3>1. rows'[i].decision = rows[i].decision /\ O!Linked(i) /\ O!AuditId(i) \notin DOMAIN events
      BY <1>4, <1>7, <2>2 DEF O!Linked
    <3>2. EndsFinal(i)
      BY <1>2, <3>1 DEF EndsTold
    <3>3. ASSUME NEW k \in DOMAIN events', events'[k].decision = rows[i].decision PROVE k \in DOMAIN events
      <4>1. k[2] \in DOMAIN rows /\ rows'[k[2]].decision = rows'[i].decision /\ O!Linked(k[2])'
        BY <1>3, <1>11, <3>1, <3>3 DEF KeysFit
      <4>2. k[2] = i
        <5>1. /\ rows'[k[2]].decision \in {O!LegacyId(k[2]), O!LiveId(k[2])}
              /\ rows'[i].decision \in {O!LegacyId(i), O!LiveId(i)}
          BY <1>3, <1>9, <4>1 DEF RowsFit
        <5> QED
          BY <4>1, <5>1 DEF O!LegacyId, O!LiveId
      <4>3. k \notin DOMAIN backfill.events
        BY <1>2, <1>7, <2>2, <4>2 DEF StagedFits
      <4> QED
        BY <1>7, <4>3
    <3>4. O!EventsOf(rows[i].decision)' = O!EventsOf(rows[i].decision)
      BY <1>7, <3>1, <3>3 DEF O!EventsOf
    <3> QED
      BY <1>7, <3>2, <3>4 DEF EndsFinal, O!EventsOf
  <2> QED
    BY <2>1, <2>2
<1> QED
  BY <1>9, <1>10, <1>11, <1>12, <1>13, <1>14, <1>15 DEF OutcomesInv

\* A worker reports of row i: entries added to the events, of this moment and of the row's decision.
Reported(i, log) ==
    /\ InOrder(log) /\ \A k \in DOMAIN events : k \in DOMAIN log /\ log[k] = events[k]
    /\ \A k \in DOMAIN log \ DOMAIN events :
          k[2] = i /\ log[k].decision = rows[i].decision /\ log[k].at = clock

\* A step of a worker on a row it may write: its status and its reports are all that change, and the row is not one
\* that the open backfill links.
WorkerStep(i, status) ==
    /\ i \in DOMAIN rows /\ rows[i].table \in {"queue", "execution"} /\ O!Free(i)
    /\ rows' = [rows EXCEPT ![i].status = status]
    /\ Reported(i, events') /\ (O!Linked(i) \/ events' = events)
    /\ clock' = clock + 1 /\ executed \subseteq executed'
    /\ blind \subseteq blind' /\ (O!Linked(i) \/ i \in blind')
    /\ UNCHANGED <<audits, decisions, backfill>>

\* What such a step leaves of the tables and of the proof of an execution.
LEMMA StatusChanges ==
    ASSUME OutcomesInv, NEW i, NEW status, WorkerStep(i, status)
    PROVE  /\ DOMAIN rows' = DOMAIN rows
           /\ \A j \in DOMAIN rows :
                 /\ DOMAIN rows'[j] = DOMAIN Blank /\ rows'[j].decision = rows[j].decision
                 /\ rows'[j].table = rows[j].table
                 /\ j # i => rows'[j] = rows[j]
           /\ rows'[i].status = status
           /\ \A j \in DOMAIN rows : O!Linked(j)' <=> O!Linked(j)
           /\ O!Proven => O!Proven'
<1>1. /\ i \in DOMAIN rows /\ rows' = [rows EXCEPT ![i].status = status]
      /\ executed \subseteq executed' /\ rows[i].table \in {"queue", "execution"}
  BY DEF WorkerStep
<1>2. \A j \in DOMAIN rows : DOMAIN rows[j] = DOMAIN Blank
  BY DEF OutcomesInv, RowsFit
<1>3. /\ DOMAIN rows' = DOMAIN rows
      /\ \A j \in DOMAIN rows :
            /\ DOMAIN rows'[j] = DOMAIN Blank /\ rows'[j].decision = rows[j].decision
            /\ rows'[j].table = rows[j].table
            /\ j # i => rows'[j] = rows[j]
      /\ rows'[i].status = status
  BY <1>1, <1>2 DEF Blank
<1>4. \A j \in DOMAIN rows : O!Linked(j)' <=> O!Linked(j)
  BY <1>3 DEF O!Linked
<1>5. O!Proven => O!Proven'
  <2>1. \A n \in O!Ids("notification") : n \in O!Ids("notification")' /\ rows'[n] = rows[n]
    BY <1>1, <1>3 DEF O!Ids
  <2> QED
    BY <1>1, <2>1 DEF O!Proven
<1> QED
  BY <1>3, <1>4, <1>5

\* It keeps the tables, the logs and their keys ...
LEMMA WorkerKeepsTables ==
    ASSUME OutcomesInv, NEW i, NEW status, WorkerStep(i, status), rows[i].status \notin Ended,
           \A k \in DOMAIN events' \ DOMAIN events : k[1] \in {"succeeded", "failed", "play"} => status \in Ended
    PROVE  RowsFit' /\ LogsFit' /\ KeysFit'
<1>1. /\ DOMAIN rows' = DOMAIN rows
      /\ \A j \in DOMAIN rows :
            /\ DOMAIN rows'[j] = DOMAIN Blank /\ rows'[j].decision = rows[j].decision
            /\ rows'[j].table = rows[j].table
            /\ j # i => rows'[j] = rows[j]
      /\ rows'[i].status = status
      /\ \A j \in DOMAIN rows : O!Linked(j)' <=> O!Linked(j)
  BY StatusChanges
<1>2. /\ i \in DOMAIN rows /\ rows[i].table \in {"queue", "execution"} /\ clock' = clock + 1
      /\ UNCHANGED <<audits, decisions>>
      /\ Reported(i, events') /\ (O!Linked(i) \/ events' = events)
  BY DEF WorkerStep
<1>3. RowsFit /\ LogsFit /\ KeysFit
  BY DEF OutcomesInv
<1>4. RowsFit'
  BY <1>1, <1>2, <1>3 DEF RowsFit
<1>5. LogsFit'
  <2>1. clock \in Nat /\ \A k \in DOMAIN decisions : decisions[k].at \in Nat /\ decisions[k].at < clock
    BY <1>3 DEF LogsFit, InOrder, Past
  <2>2. \A k \in DOMAIN events : events[k].at \in Nat /\ events[k].at < clock
    BY <1>3 DEF LogsFit, InOrder, Past
  <2>3. Past(decisions)' /\ clock' \in Nat
    BY <1>2, <2>1 DEF Past
  <2>4. Past(events)'
    BY <1>2, <2>1, <2>2 DEF Past, Reported
  <2>5. InOrder(decisions') /\ InOrder(events')
    BY <1>2, <1>3 DEF LogsFit, Reported
  <2> QED
    BY <2>3, <2>4, <2>5 DEF LogsFit
<1>6. KeysFit'
  <2>1. \A k \in DOMAIN decisions' : k[2] \in DOMAIN rows' /\ O!Linked(k[2])' /\ rows'[k[2]].decision = k
    BY <1>1, <1>2, <1>3 DEF KeysFit, O!Linked
  <2>2. ASSUME NEW k \in DOMAIN events'
        PROVE  /\ k[2] \in DOMAIN rows' /\ O!Linked(k[2])'
               /\ events'[k].decision = rows'[k[2]].decision
               /\ k[1] \in {"succeeded", "failed", "play"} => rows'[k[2]].status \in Ended
    <3>1. CASE k \in DOMAIN events
      <4>1. /\ k[2] \in DOMAIN rows /\ O!Linked(k[2]) /\ events[k].decision = rows[k[2]].decision
            /\ k[1] \in {"succeeded", "failed", "play"} => rows[k[2]].status \in Ended
        BY <1>3, <3>1 DEF KeysFit
      <4>2. events'[k] = events[k]
        BY <1>2, <3>1 DEF Reported
      <4>3. k[1] \in {"succeeded", "failed", "play"} => rows'[k[2]] = rows[k[2]]
        BY <1>1, <4>1
      <4> QED
        BY <1>1, <4>1, <4>2, <4>3 DEF O!Linked
    <3>2. CASE k \notin DOMAIN events
      <4>1. k[2] = i /\ events'[k].decision = rows[i].decision /\ O!Linked(i)
        BY <1>2, <3>2 DEF Reported
      <4> QED
        BY <1>1, <1>2, <3>2, <4>1 DEF O!Linked
    <3> QED
      BY <3>1, <3>2
  <2> QED
    BY <2>1, <2>2 DEF KeysFit
<1> QED
  BY <1>4, <1>5, <1>6

\* ... what is staged meanwhile ...
LEMMA WorkerKeepsStaged ==
    ASSUME OutcomesInv, NEW i, NEW status, WorkerStep(i, status)
    PROVE  StagedFits'
<1>1. /\ DOMAIN rows' = DOMAIN rows
      /\ \A j \in DOMAIN rows : rows'[j].decision = rows[j].decision /\ rows'[j].table = rows[j].table
      /\ \A j \in DOMAIN rows : O!Linked(j)' <=> O!Linked(j)
  BY StatusChanges
<1>2. clock' = clock + 1 /\ UNCHANGED <<decisions, backfill>> /\ Reported(i, events')
  BY DEF WorkerStep
<1>3. StagedFits /\ clock \in Nat
  BY DEF OutcomesInv, LogsFit
<1>4. backfill'.phase = "apply" =>
          /\ backfill'.at \in Nat /\ backfill'.at < clock'
          /\ \A k \in DOMAIN decisions' : decisions'[k].at # backfill'.at
          /\ \A k \in DOMAIN events' : events'[k].at # backfill'.at
  BY <1>2, <1>3 DEF StagedFits, Reported
<1>5. \A j \in DOMAIN rows : UnlinkedRow(j)' <=> UnlinkedRow(j)
  BY <1>1 DEF UnlinkedRow
<1>6. \A j : UnlinkedRow(j) => UnlinkedRow(j)'
  BY <1>5 DEF UnlinkedRow
<1>7. \A j \in DOMAIN rows : O!DecisionSeen(j)' = O!DecisionSeen(j)
  BY <1>1, <1>2 DEF O!DecisionSeen
<1> QED
  BY <1>1, <1>2, <1>3, <1>4, <1>6, <1>7 DEF StagedFits

\* ... the soundness of every outcome, if what it reports is sound ...
LEMMA WorkerKeepsSound ==
    ASSUME OutcomesInv, NEW i, NEW status, WorkerStep(i, status),
           \A k \in DOMAIN events' \ DOMAIN events : events'[k].outcome.flag = "external" => O!Proven'
    PROVE  OutcomesSound'
<1>1. O!Proven => O!Proven'
  BY StatusChanges
<1>2. UNCHANGED backfill /\ Reported(i, events') /\ OutcomesSound
  BY DEF WorkerStep, OutcomesInv
<1>3. ASSUME NEW k \in DOMAIN events', events'[k].outcome.flag = "external" PROVE O!Proven'
  <2>1. CASE k \in DOMAIN events
    BY <1>1, <1>2, <1>3, <2>1 DEF OutcomesSound, Sound, Reported
  <2>2. CASE k \notin DOMAIN events
    BY <1>3, <2>2
  <2> QED
    BY <2>1, <2>2
<1>4. /\ \A k \in DOMAIN backfill.events : backfill.events[k].outcome.flag = "external" => O!Proven'
      /\ \A j \in DOMAIN backfill.todo : backfill.todo[j].flag = "external" => O!Proven'
  BY <1>1, <1>2 DEF OutcomesSound, Sound
<1> QED
  BY <1>2, <1>3, <1>4 DEF OutcomesSound, Sound

\* ... and what is said last of the rows that have ended.
LEMMA WorkerKeepsEnds ==
    ASSUME OutcomesInv, NEW i, NEW status, WorkerStep(i, status),
           status \in Ended /\ O!Linked(i) /\ i \notin blind' =>
               \E e \in DOMAIN events' \ DOMAIN events :
                  /\ events'[e].outcome.state \in O!Final
                  /\ \A f \in DOMAIN events' \ DOMAIN events : f # e => O!Later(events'[e], events'[f])
    PROVE  EndsTold'
<1>1. /\ DOMAIN rows' = DOMAIN rows
      /\ \A j \in DOMAIN rows : rows'[j].decision = rows[j].decision /\ (j # i => rows'[j] = rows[j])
      /\ rows'[i].status = status
      /\ \A j \in DOMAIN rows : O!Linked(j)' <=> O!Linked(j)
  BY StatusChanges
<1>2. /\ i \in DOMAIN rows /\ UNCHANGED backfill /\ Reported(i, events') /\ (O!Linked(i) \/ events' = events)
      /\ (O!Linked(i) \/ i \in blind') /\ O!Free(i) /\ blind \subseteq blind'
  BY DEF WorkerStep
<1>3. RowsFit /\ KeysFit /\ StagedFits /\ EndsTold /\ LogsFit
  BY DEF OutcomesInv
<1> SUFFICES ASSUME NEW j \in DOMAIN rows, rows'[j].status \in Ended, j \notin blind'
             PROVE  /\ O!Linked(j) /\ O!AuditId(j) \notin DOMAIN events' => EndsFinal(j)'
                    /\ j \in DOMAIN backfill.todo => backfill.todo[j].state \in O!Final
                    /\ j \in DOMAIN backfill.links => backfill.events[O!LegacyId(j)].outcome.state \in O!Final
  BY <1>1, <1>2 DEF EndsTold
<1>4. CASE j = i
  <2>1. O!Linked(i) /\ status \in Ended /\ i \notin blind'
    BY <1>1, <1>2, <1>4
  <2>2. i \notin DOMAIN backfill.todo /\ i \notin DOMAIN backfill.links
    BY <1>3, <2>1 DEF StagedFits, UnlinkedRow
  <2>3. PICK e \in DOMAIN events' \ DOMAIN events :
            /\ events'[e].outcome.state \in O!Final
            /\ \A f \in DOMAIN events' \ DOMAIN events : f # e => O!Later(events'[e], events'[f])
    BY <2>1
  <2>4. \A f \in DOMAIN events : O!Later(events'[e], events'[f])
    <3> SUFFICES ASSUME NEW f \in DOMAIN events PROVE O!Later(events'[e], events'[f])
      OBVIOUS
    <3>1. events'[f].at \in Nat /\ events'[f].at < clock /\ events'[e].at = clock /\ clock \in Nat
      BY <1>2, <1>3, <2>3 DEF LogsFit, InOrder, Past, Reported
    <3> QED
      BY <3>1 DEF O!Later
  <2>5. e \in O!EventsOf(rows[i].decision)'
    BY <1>1, <1>2, <2>3 DEF O!EventsOf, Reported
  <2>6. \A f \in O!EventsOf(rows[i].decision)' \ {e} : O!Later(events'[e], events'[f])
    BY <2>3, <2>4 DEF O!EventsOf
  <2> QED
    BY <1>4, <2>2, <2>3, <2>5, <2>6 DEF EndsFinal
<1>5. CASE j # i
  <2>1. rows'[j] = rows[j] /\ rows[j].status \in Ended /\ j \notin blind
    BY <1>1, <1>2, <1>5
  <2>2. /\ j \in DOMAIN backfill.todo => backfill.todo[j].state \in O!Final
        /\ j \in DOMAIN backfill.links => backfill.events[O!LegacyId(j)].outcome.state \in O!Final
    BY <1>3, <2>1 DEF EndsTold
  <2>3. ASSUME O!Linked(j), O!AuditId(j) \notin DOMAIN events' PROVE EndsFinal(j)'
    <3>1. EndsFinal(j)
      BY <1>2, <1>3, <2>1, <2>3 DEF EndsTold, Reported
    <3>2. ASSUME NEW k \in DOMAIN events', events'[k].decision = rows[j].decision PROVE k \in DOMAIN events
      <4> SUFFICES ASSUME k \notin DOMAIN events PROVE FALSE
        OBVIOUS
      <4>1. rows[i].decision = rows[j].decision /\ O!Linked(i)
        BY <1>2, <3>2 DEF Reported
      <4>2. /\ rows[i].decision \in {O!LegacyId(i), O!LiveId(i)}
            /\ rows[j].decision \in {O!LegacyId(j), O!LiveId(j)}
        BY <1>2, <1>3, <2>3, <4>1 DEF RowsFit
      <4> QED
        BY <1>5, <4>1, <4>2 DEF O!LegacyId, O!LiveId
    <3>3. \A k \in DOMAIN events : k \in DOMAIN events' /\ events'[k] = events[k]
      BY <1>2 DEF Reported
    <3>4. O!EventsOf(rows[j].decision)' = O!EventsOf(rows[j].decision)
      BY <2>1, <3>2, <3>3 DEF O!EventsOf
    <3> QED
      BY <2>1, <3>1, <3>3, <3>4 DEF EndsFinal, O!EventsOf
  <2> QED
    BY <2>2, <2>3
<1> QED
  BY <1>4, <1>5

\* An event of this moment is later than those told before.
LEMMA EventAdds ==
    ASSUME InOrder(events), Past(events), clock \in Nat,
           NEW id, NEW entry, entry.at = clock, entry.nth = 0
    PROVE  /\ InOrder(O!With(events, id, entry)) /\ DOMAIN O!With(events, id, entry) = DOMAIN events \cup {id}
           /\ \A l \in DOMAIN events : O!With(events, id, entry)[l] = events[l]
           /\ id \notin DOMAIN events => O!With(events, id, entry)[id] = entry
<1>1. \A l \in DOMAIN events : events[l].at \in Nat /\ events[l].at < clock
  BY DEF InOrder, Past
<1>2. \A l \in DOMAIN events : events[l].at # entry.at \/ events[l].nth # entry.nth
  BY <1>1
<1>3. entry.at \in Nat /\ entry.nth \in Nat
  OBVIOUS
<1>4. InOrder(O!With(events, id, entry))
  BY <1>2, <1>3, WithKeepsOrder
<1> QED
  BY <1>4 DEF O!With

\* A report of a queue worker for the decision it read is one event more, or none if it read none.
LEMMA QueueReports ==
    ASSUME OutcomesInv, NEW i \in DOMAIN rows, NEW d, NEW state, O!ReportQueue(i, d, state),
           (d = rows[i].decision /\ O!Linked(i)) \/ d = None
    PROVE  /\ Reported(i, events') /\ (O!Linked(i) \/ events' = events) /\ clock' = clock + 1
           /\ DOMAIN events' \subseteq DOMAIN events \cup {<<state, i>>}
           /\ \A k \in DOMAIN events' \ DOMAIN events : events'[k].outcome = O!QueueOutcome(i, state)
           /\ d # None => <<state, i>> \in DOMAIN events'
<1>1. InOrder(events) /\ clock \in Nat /\ \A k \in DOMAIN events : events[k].at < clock /\ events[k].at \in Nat
  BY DEF OutcomesInv, LogsFit, InOrder, Past
<1>2. clock' = clock + 1
  BY DEF O!ReportQueue
<1>3. CASE d = None
  <2>1. events' = events
    BY <1>3 DEF O!ReportQueue
  <2> QED
    BY <1>1, <1>2, <1>3, <2>1 DEF Reported
<1>4. CASE d # None
  <2> DEFINE key == <<state, i>>
             told == O!Event(d, i, O!QueueOutcome(i, state), clock, 0)
  <2>1. events' = O!With(events, key, told)
    BY <1>4 DEF O!ReportQueue
  <2>2. /\ told.decision = rows[i].decision /\ told.at = clock /\ told.nth = 0 /\ told.outcome = O!QueueOutcome(i, state)
        /\ key[2] = i /\ O!Linked(i)
    BY <1>4 DEF O!Event
  <2> HIDE DEF key, told
  <2>5. /\ InOrder(O!With(events, key, told)) /\ DOMAIN O!With(events, key, told) = DOMAIN events \cup {key}
        /\ \A l \in DOMAIN events : O!With(events, key, told)[l] = events[l]
        /\ key \notin DOMAIN events => O!With(events, key, told)[key] = told
    <3>1. InOrder(events) /\ Past(events) /\ clock \in Nat
      BY DEF OutcomesInv, LogsFit
    <3>2. told.at = clock /\ told.nth = 0
      BY <2>2
    <3> QED
      BY <3>1, <3>2, EventAdds
  <2> QED
    BY <1>2, <2>1, <2>2, <2>5 DEF Reported, key
<1> QED
  BY <1>3, <1>4

\* A worker claims a row: one it finds unlinked is one it is blind to.
LEMMA ClaimKeeps == ASSUME OutcomesInv, NEW i \in DOMAIN rows, NEW w \in Workers, O!Claim(w, i) PROVE OutcomesInv'
<1>1. /\ job[w] = None /\ rows[i].table = "queue" /\ rows[i].status = "pending" /\ O!Free(i)
      /\ job' = [job EXCEPT ![w] = [row |-> i, decision |-> rows[i].decision]]
      /\ rows' = [rows EXCEPT ![i].status = "running"]
      /\ O!ReportQueue(i, rows[i].decision, "running")
      /\ blind' = IF O!Linked(i) THEN blind ELSE blind \cup {i}
      /\ UNCHANGED <<audits, decisions, backfill, runs, executed>>
  BY DEF O!Claim, O!Seeing
<1>2. /\ Reported(i, events') /\ (O!Linked(i) \/ events' = events) /\ clock' = clock + 1
      /\ DOMAIN events' \subseteq DOMAIN events \cup {<<"running", i>>}
      /\ \A k \in DOMAIN events' \ DOMAIN events : events'[k].outcome = O!QueueOutcome(i, "running")
  <2>1. (rows[i].decision = rows[i].decision /\ O!Linked(i)) \/ rows[i].decision = None
    BY DEF O!Linked
  <2> QED
    BY <1>1, <2>1, QueueReports
<1>3. WorkerStep(i, "running")
  BY <1>1, <1>2 DEF WorkerStep
<1>4. RowsFit' /\ LogsFit' /\ KeysFit'
  <2>1. \A k \in DOMAIN events' \ DOMAIN events : k[1] \notin {"succeeded", "failed", "play"}
    BY <1>2
  <2>2. rows[i].status \notin Ended
    BY <1>1 DEF Ended
  <2> QED
    BY <1>3, <2>1, <2>2, WorkerKeepsTables
<1>5. StagedFits'
  BY <1>3, WorkerKeepsStaged
<1>6. OutcomesSound'
  <2>1. \A k \in DOMAIN events' \ DOMAIN events : events'[k].outcome.flag # "external"
    BY <1>2 DEF O!QueueOutcome, O!Outcome
  <2> QED
    BY <1>3, <2>1, WorkerKeepsSound
<1>7. EndsTold'
  BY <1>3, WorkerKeepsEnds DEF Ended
<1>8. JobsFit'
  <2>1. /\ DOMAIN rows' = DOMAIN rows /\ rows'[i].status = "running"
        /\ \A j \in DOMAIN rows : /\ rows'[j].decision = rows[j].decision /\ rows'[j].table = rows[j].table
                                  /\ j # i => rows'[j] = rows[j]
    BY <1>3, StatusChanges
  <2>2. /\ DOMAIN job' = Workers /\ job'[w] = [row |-> i, decision |-> rows[i].decision]
        /\ \A v \in Workers \ {w} : job'[v] = job[v]
    BY <1>1 DEF OutcomesInv, JobsFit
  <2>3. job'[w].row = i /\ job'[w].decision = rows[i].decision
    BY <2>2
  <2>4. \A v \in Workers \ {w} : job[v] # None => job[v].row # i
    BY <1>1 DEF OutcomesInv, JobsFit
  <2>5. ASSUME NEW v \in Workers, job'[v] # None
        PROVE  /\ job'[v].row \in DOMAIN rows
               /\ rows'[job'[v].row].table = "queue" /\ rows'[job'[v].row].status = "running"
               /\ \/ job'[v].decision = None /\ job'[v].row \in blind'
                  \/ job'[v].decision = rows'[job'[v].row].decision /\ rows'[job'[v].row].decision # None
    <3>1. CASE v = w
      BY <1>1, <2>1, <2>3, <3>1 DEF O!Linked
    <3>2. CASE v # w
      <4>1. /\ job'[v] = job[v] /\ job[v].row \in DOMAIN rows /\ job[v].row # i
            /\ rows[job[v].row].table = "queue" /\ rows[job[v].row].status = "running"
            /\ \/ job[v].decision = None /\ job[v].row \in blind
               \/ job[v].decision = rows[job[v].row].decision /\ O!Linked(job[v].row)
        BY <2>2, <2>4, <2>5, <3>2 DEF OutcomesInv, JobsFit
      <4> QED
        BY <1>1, <2>1, <4>1 DEF O!Linked
    <3> QED
      BY <3>1, <3>2
  <2>6. ASSUME NEW v \in Workers, NEW u \in Workers \ {v}, job'[v] # None, job'[u] # None
        PROVE  job'[u].row # job'[v].row
    BY <2>2, <2>3, <2>4, <2>6 DEF OutcomesInv, JobsFit
  <2> QED
    BY <2>1, <2>2, <2>5, <2>6 DEF JobsFit, O!Linked
<1> QED
  BY <1>4, <1>5, <1>6, <1>7, <1>8 DEF OutcomesInv

\* A worker ends the row it carries, for the decision it read.
LEMMA FinishKeeps == ASSUME OutcomesInv, NEW w \in Workers, O!Finish(w) PROVE OutcomesInv'
<1> DEFINE i == job[w].row
           d == job[w].decision
<1>1. PICK end \in O!Ends :
        /\ rows' = [rows EXCEPT ![i].status = end.status]
        /\ O!ReportQueue(i, d, end.state)
  BY DEF O!Finish
<1>2. /\ job[w] # None /\ O!Free(i) /\ job' = [job EXCEPT ![w] = None]
      /\ UNCHANGED <<audits, decisions, backfill, runs, executed, blind>>
  BY DEF O!Finish
<1>3. /\ i \in DOMAIN rows /\ rows[i].table = "queue" /\ rows[i].status = "running"
      /\ (d = None /\ i \in blind) \/ (d = rows[i].decision /\ O!Linked(i))
      /\ \A v \in Workers \ {w} : job[v] # None => job[v].row # i
  BY <1>2 DEF OutcomesInv, JobsFit
<1>4. end.status \in Ended /\ end.state \in {"succeeded", "failed"}
  BY DEF O!Ends, Ended
<1> DEFINE status == end.status
           state == end.state
<1> HIDE DEF i, d, status, state
<1>5. /\ Reported(i, events') /\ (O!Linked(i) \/ events' = events) /\ clock' = clock + 1
      /\ DOMAIN events' \subseteq DOMAIN events \cup {<<state, i>>}
      /\ \A k \in DOMAIN events' \ DOMAIN events : events'[k].outcome = O!QueueOutcome(i, state)
      /\ d # None => <<state, i>> \in DOMAIN events'
  <2>1. (d = rows[i].decision /\ O!Linked(i)) \/ d = None
    BY <1>3
  <2>2. O!ReportQueue(i, d, state)
    BY <1>1 DEF state
  <2> QED
    BY <1>3, <2>1, <2>2, QueueReports
<1>6. rows' = [rows EXCEPT ![i].status = status] /\ status \in Ended /\ state \in {"succeeded", "failed"}
  BY <1>1, <1>4 DEF status, state
<1>7. RowsFit' /\ LogsFit' /\ KeysFit' /\ StagedFits' /\ OutcomesSound'
      /\ EndsTold' /\ JobsFit'
  <2>1. CASE O!Linked(i) \/ i \in blind
    <3>1. WorkerStep(i, status)
      BY <1>2, <1>3, <1>5, <1>6, <2>1 DEF WorkerStep
    <3>2. RowsFit' /\ LogsFit' /\ KeysFit'
      <4>1. rows[i].status \notin Ended
        BY <1>3 DEF Ended
      <4> QED
        BY <1>6, <3>1, <4>1, WorkerKeepsTables
    <3>3. StagedFits'
      BY <3>1, WorkerKeepsStaged
    <3>4. OutcomesSound'
      <4>1. \A k \in DOMAIN events' \ DOMAIN events : events'[k].outcome.flag # "external"
        BY <1>5 DEF O!QueueOutcome, O!Outcome
      <4> QED
        BY <3>1, <4>1, WorkerKeepsSound
    <3>5. EndsTold'
      <4>1. CASE d = None
        <5>1. i \in blind'
          BY <1>2, <1>3, <4>1 DEF O!Linked
        <5> QED
          BY <3>1, <5>1, WorkerKeepsEnds
      <4>2. CASE d # None
        <5>1. <<state, i>> \notin DOMAIN events
          <6>1. <<state, i>>[1] \in {"succeeded", "failed"} /\ <<state, i>>[2] = i
            BY <1>6
          <6> QED
            BY <1>3, <6>1 DEF OutcomesInv, KeysFit, Ended
        <5>2. <<state, i>> \in DOMAIN events' \ DOMAIN events
          BY <1>5, <4>2, <5>1
        <5>3. events'[<<state, i>>].outcome.state \in O!Final
          BY <1>5, <1>6, <5>2 DEF O!QueueOutcome, O!Outcome, O!Final
        <5>4. \A f \in DOMAIN events' \ DOMAIN events : f = <<state, i>>
          BY <1>5
        <5> QED
          BY <3>1, <5>2, <5>3, <5>4, WorkerKeepsEnds
      <4> QED
        BY <4>1, <4>2
    <3>6. JobsFit'
      <4>1. /\ DOMAIN rows' = DOMAIN rows
            /\ \A j \in DOMAIN rows : /\ rows'[j].decision = rows[j].decision /\ rows'[j].table = rows[j].table
                                      /\ j # i => rows'[j] = rows[j]
        BY <3>1, StatusChanges
      <4>2. DOMAIN job' = Workers /\ job'[w] = None /\ \A v \in Workers \ {w} : job'[v] = job[v]
        BY <1>2 DEF OutcomesInv, JobsFit
      <4>3. \A v \in Workers : job'[v] # None => job'[v] = job[v] /\ v # w /\ job[v] # None
        BY <4>2
      <4>4. ASSUME NEW v \in Workers, job'[v] # None
            PROVE  /\ job'[v].row \in DOMAIN rows
                   /\ rows'[job'[v].row].table = "queue" /\ rows'[job'[v].row].status = "running"
                   /\ \/ job'[v].decision = None /\ job'[v].row \in blind'
                      \/ job'[v].decision = rows'[job'[v].row].decision /\ rows'[job'[v].row].decision # None
        <5>1. /\ job'[v] = job[v] /\ job[v].row \in DOMAIN rows /\ job[v].row # i
              /\ rows[job[v].row].table = "queue" /\ rows[job[v].row].status = "running"
              /\ \/ job[v].decision = None /\ job[v].row \in blind
                 \/ job[v].decision = rows[job[v].row].decision /\ O!Linked(job[v].row)
          BY <1>3, <4>3, <4>4 DEF OutcomesInv, JobsFit
        <5> QED
          BY <1>2, <4>1, <5>1 DEF O!Linked
      <4>5. ASSUME NEW v \in Workers, NEW u \in Workers \ {v}, job'[v] # None, job'[u] # None
            PROVE  job'[u].row # job'[v].row
        BY <4>3, <4>5 DEF OutcomesInv, JobsFit
      <4> QED
        BY <4>1, <4>2, <4>4, <4>5 DEF JobsFit, O!Linked
    <3> QED
      BY <3>2, <3>3, <3>4, <3>5, <3>6
  <2> QED
    BY <1>3, <2>1
<1> QED
  BY <1>7 DEF OutcomesInv

\* A playbook that runs reports its claim, its step and its end in one transaction.
LEMMA PlayedInOrder ==
    ASSUME OutcomesInv, NEW i, NEW d, NEW step, NEW state
    PROVE  LET told == O!Merged(events, O!Played(i, d, step, state))
           IN  /\ InOrder(told) /\ \A k \in DOMAIN events : k \in DOMAIN told /\ told[k] = events[k]
               /\ \A k \in DOMAIN told \ DOMAIN events :
                     \E n \in 1 .. 3 :
                        /\ k = <<"play", i, n>> /\ told[k].decision = d /\ told[k].at = clock /\ told[k].nth = n
                        /\ told[k].outcome = (<<O!Outcome("internal", "running", "none"), step.outcome,
                                                O!Outcome("internal", state, "none")>>)[n]
               /\ \A n \in 1 .. 3 : <<"play", i, n>> \in DOMAIN told
<1> DEFINE said == <<O!Outcome("internal", "running", "none"), step.outcome, O!Outcome("internal", state, "none")>>
           keys == {<<"play", i, n>> : n \in 1 .. 3}
           mine == O!Played(i, d, step, state)
           told == O!Merged(events, mine)
<1>1. mine = [key \in keys |-> O!Event(d, i, said[key[3]], clock, key[3])]
  BY DEF O!Played
<1>2. DOMAIN mine = keys /\ \A n \in 1 .. 3 : mine[<<"play", i, n>>] = O!Event(d, i, said[n], clock, n)
  BY <1>1
<1> HIDE DEF said, mine
<1>3. \A n \in 1 .. 3 : LET m == mine[<<"play", i, n>>]
                        IN  m.decision = d /\ m.at = clock /\ m.nth = n /\ m.outcome = said[n]
  BY <1>2 DEF O!Event
<1>4. clock \in Nat /\ InOrder(events) /\ \A k \in DOMAIN events : events[k].at < clock /\ events[k].at \in Nat
  BY DEF OutcomesInv, LogsFit, InOrder, Past
<1>5. InOrder(mine)
  <2>1. IsFiniteSet(keys)
    <3>1. keys = {<<"play", i, 1>>, <<"play", i, 2>>, <<"play", i, 3>>}
      OBVIOUS
    <3> HIDE DEF keys
    <3>2. IsFiniteSet({<<"play", i, 1>>, <<"play", i, 2>>} \cup {<<"play", i, 3>>})
      <4>1. IsFiniteSet({<<"play", i, 1>>})
        BY FS_Singleton
      <4>2. IsFiniteSet({<<"play", i, 1>>} \cup {<<"play", i, 2>>})
        BY <4>1, FS_AddElement
      <4>3. {<<"play", i, 1>>, <<"play", i, 2>>} = {<<"play", i, 1>>} \cup {<<"play", i, 2>>}
        OBVIOUS
      <4> QED
        BY <4>2, <4>3, FS_AddElement
    <3>3. keys = {<<"play", i, 1>>, <<"play", i, 2>>} \cup {<<"play", i, 3>>}
      BY <3>1
    <3> QED
      BY <3>2, <3>3
  <2>2. \A k \in DOMAIN mine : mine[k].at \in Nat /\ mine[k].nth \in Nat
    BY <1>2, <1>3, <1>4
  <2>3. \A k, l \in DOMAIN mine : k # l => mine[k].at # mine[l].at \/ mine[k].nth # mine[l].nth
    BY <1>2, <1>3
  <2> QED
    BY <1>2, <2>1, <2>2, <2>3 DEF InOrder
<1>6. \A k \in DOMAIN events, l \in DOMAIN mine : events[k].at # mine[l].at
  BY <1>2, <1>3, <1>4
<1>7. InOrder(events)
  BY <1>4
<1>8. /\ InOrder(O!Merged(events, mine)) /\ DOMAIN O!Merged(events, mine) = DOMAIN events \cup DOMAIN mine
      /\ \A k \in DOMAIN events : O!Merged(events, mine)[k] = events[k]
      /\ \A k \in DOMAIN mine : k \notin DOMAIN events => O!Merged(events, mine)[k] = mine[k]
  BY <1>5, <1>6, <1>7, MergedKeepsOrder
<1>9. InOrder(told) /\ \A k \in DOMAIN events : k \in DOMAIN told /\ told[k] = events[k]
  BY <1>8
<1>10. ASSUME NEW k \in DOMAIN told \ DOMAIN events
       PROVE  \E n \in 1 .. 3 :
                 /\ k = <<"play", i, n>> /\ told[k].decision = d /\ told[k].at = clock /\ told[k].nth = n
                 /\ told[k].outcome = said[n]
  <2>1. k \in DOMAIN mine /\ told[k] = mine[k]
    BY <1>8
  <2>2. PICK n \in 1 .. 3 : k = <<"play", i, n>>
    BY <1>2, <2>1
  <2> HIDE DEF told
  <2> QED
    BY <1>3, <2>1, <2>2
<1>11. \A n \in 1 .. 3 : <<"play", i, n>> \in DOMAIN told
  BY <1>2, <1>8
<1> QED
  BY <1>9, <1>10, <1>11 DEF said, mine

\* What a step of a playbook tells is sound once it is recorded that it reached the provider.
LEMMA StepsAreSound == \A step \in O!Steps : step.outcome.flag = "external" => step.real
<1> DEFINE metas == {{}, {"executed", "not_simulated", "adapter_real"}}
<1>1. ASSUME NEW mode \in {"internal", "read_only"}, NEW state \in {"succeeded", "failed"}
      PROVE  O!Outcome(mode, state, "none").flag # "external"
  BY DEF O!Outcome
<1>2. ASSUME NEW mode \in {"simulation", "real"}, NEW status \in {"success", "timeout", "blocked"}, NEW meta \in metas,
             O!DeliveryOutcome(mode, status, meta).flag = "external"
      PROVE  mode = "real" /\ status = "success" /\ meta # {}
  BY <1>2 DEF O!DeliveryOutcome, O!Outcome, O!ConfirmsExecution
<1> SUFFICES ASSUME NEW step \in O!Steps, step.outcome.flag = "external" PROVE step.real
  OBVIOUS
<1>3. CASE \E mode \in {"internal", "read_only"}, state \in {"succeeded", "failed"} :
               step = [outcome |-> O!Outcome(mode, state, "none"), real |-> FALSE]
  BY <1>1, <1>3
<1>4. CASE \E mode \in {"simulation", "real"}, status \in {"success", "timeout", "blocked"}, meta \in metas :
               step = [outcome |-> O!DeliveryOutcome(mode, status, meta),
                       real |-> mode = "real" /\ status = "success" /\ meta # {}]
  <2>1. PICK mode \in {"simulation", "real"}, status \in {"success", "timeout", "blocked"}, meta \in metas :
               step = [outcome |-> O!DeliveryOutcome(mode, status, meta),
                       real |-> mode = "real" /\ status = "success" /\ meta # {}]
    BY <1>4
  <2>2. step.outcome = O!DeliveryOutcome(mode, status, meta) /\ (step.real <=> mode = "real" /\ status = "success" /\ meta # {})
    BY <2>1
  <2> QED
    BY <1>2, <2>2
<1> QED
  BY <1>3, <1>4 DEF O!Steps

\* A playbook runs to its end.
LEMMA PlayKeeps == ASSUME OutcomesInv, NEW i \in DOMAIN rows, O!Play(i) PROVE OutcomesInv'
<1>1. /\ rows[i].table = "execution" /\ rows[i].status = "pending" /\ O!Free(i)
      /\ clock' = clock + 1 /\ blind' = IF O!Linked(i) THEN blind ELSE blind \cup {i}
      /\ UNCHANGED <<audits, decisions, backfill, job>>
  BY DEF O!Play, O!Seeing
<1>2. PICK step \in O!Steps, end \in O!Ends :
        /\ rows' = [rows EXCEPT ![i].status = end.status]
        /\ executed' = IF step.real THEN executed \cup {i} ELSE executed
        /\ events' = IF O!Linked(i) THEN O!Merged(events, O!Played(i, rows[i].decision, step, end.state)) ELSE events
  BY DEF O!Play
<1>3. end.status \in Ended /\ end.state \in {"succeeded", "failed"}
  BY DEF O!Ends, Ended
<1> DEFINE said == <<O!Outcome("internal", "running", "none"), step.outcome, O!Outcome("internal", end.state, "none")>>
<1>4. /\ InOrder(events') /\ \A k \in DOMAIN events : k \in DOMAIN events' /\ events'[k] = events[k]
      /\ \A k \in DOMAIN events' \ DOMAIN events :
            \E n \in 1 .. 3 :
               /\ k = <<"play", i, n>> /\ events'[k].decision = rows[i].decision
               /\ events'[k].at = clock /\ events'[k].nth = n /\ events'[k].outcome = said[n]
      /\ O!Linked(i) => \A n \in 1 .. 3 : <<"play", i, n>> \in DOMAIN events'
      /\ O!Linked(i) \/ events' = events
  <2>1. CASE O!Linked(i)
    <3>1. events' = O!Merged(events, O!Played(i, rows[i].decision, step, end.state))
      BY <1>2, <2>1
    <3> QED
      BY <2>1, <3>1, PlayedInOrder
  <2>2. CASE ~O!Linked(i)
    <3>1. events' = events
      BY <1>2, <2>2
    <3> QED
      BY <2>2, <3>1 DEF OutcomesInv, LogsFit
  <2> QED
    BY <2>1, <2>2
<1>5. /\ said[1].flag = "none" /\ said[2] = step.outcome /\ said[3].flag = "none"
      /\ said[3].state \in O!Final
  BY <1>3 DEF O!Outcome, O!Final
<1> HIDE DEF said
<1>6. \A k \in DOMAIN events' \ DOMAIN events :
         k[1] = "play" /\ k[2] = i /\ events'[k].decision = rows[i].decision /\ events'[k].at = clock
  BY <1>4
<1>7. Reported(i, events')
  BY <1>4, <1>6 DEF Reported
<1>8. WorkerStep(i, end.status)
  BY <1>1, <1>2, <1>4, <1>7 DEF WorkerStep
<1>9. RowsFit' /\ LogsFit' /\ KeysFit'
  <2>1. rows[i].status \notin Ended
    BY <1>1 DEF Ended
  <2> QED
    BY <1>3, <1>8, <2>1, WorkerKeepsTables
<1>10. StagedFits'
  BY <1>8, WorkerKeepsStaged
<1>11. OutcomesSound'
  <2>1. ASSUME NEW k \in DOMAIN events' \ DOMAIN events, events'[k].outcome.flag = "external" PROVE O!Proven'
    <3>1. PICK n \in 1 .. 3 : events'[k].outcome = said[n]
      BY <1>4
    <3>2. n = 2
      BY <1>5, <2>1, <3>1
    <3>3. step.real
      BY <1>5, <2>1, <3>1, <3>2, StepsAreSound
    <3> QED
      BY <1>2, <3>3 DEF O!Proven
  <2> QED
    BY <1>8, <2>1, WorkerKeepsSound
<1>12. EndsTold'
  <2>1. ASSUME O!Linked(i)
        PROVE  \E e \in DOMAIN events' \ DOMAIN events :
                  /\ events'[e].outcome.state \in O!Final
                  /\ \A f \in DOMAIN events' \ DOMAIN events : f # e => O!Later(events'[e], events'[f])
    <3> DEFINE e == <<"play", i, 3>>
    <3>1. e[1] = "play" /\ e[2] = i /\ e[3] = 3 /\ e \in DOMAIN events'
      BY <1>4, <2>1
    <3>2. e \notin DOMAIN events
      BY <1>1, <3>1 DEF OutcomesInv, KeysFit, Ended
    <3>3. e \in DOMAIN events' \ DOMAIN events
      BY <3>1, <3>2
    <3>4. PICK n \in 1 .. 3 : /\ e = <<"play", i, n>>
                              /\ events'[e].at = clock /\ events'[e].nth = n /\ events'[e].outcome = said[n]
      BY <1>4, <3>3
    <3>5. n = 3
      BY <3>4
    <3>6. events'[e].outcome.state \in O!Final /\ events'[e].at = clock /\ events'[e].nth = 3
      BY <1>5, <3>4, <3>5
    <3>7. ASSUME NEW f \in DOMAIN events' \ DOMAIN events, f # e PROVE O!Later(events'[e], events'[f])
      <4>1. PICK m \in 1 .. 3 : f = <<"play", i, m>> /\ events'[f].at = clock /\ events'[f].nth = m
        BY <1>4
      <4>2. m # 3
        BY <3>7, <4>1
      <4> QED
        BY <3>6, <4>1, <4>2 DEF O!Later
    <3> HIDE DEF e
    <3> QED
      BY <3>3, <3>6, <3>7
  <2> QED
    BY <1>8, <2>1, WorkerKeepsEnds
<1>13. JobsFit'
  <2>1. /\ DOMAIN rows' = DOMAIN rows
        /\ \A j \in DOMAIN rows : /\ rows'[j].decision = rows[j].decision /\ rows'[j].table = rows[j].table
                                  /\ j # i => rows'[j] = rows[j]
    BY <1>8, StatusChanges
  <2>2. job' = job /\ blind \subseteq blind'
    BY <1>1
  <2>3. ASSUME NEW v \in Workers, job[v] # None
        PROVE  /\ job[v].row \in DOMAIN rows
               /\ rows'[job[v].row].table = "queue" /\ rows'[job[v].row].status = "running"
               /\ \/ job[v].decision = None /\ job[v].row \in blind'
                  \/ job[v].decision = rows'[job[v].row].decision /\ rows'[job[v].row].decision # None
    <3>1. /\ job[v].row \in DOMAIN rows
          /\ rows[job[v].row].table = "queue" /\ rows[job[v].row].status = "running"
          /\ \/ job[v].decision = None /\ job[v].row \in blind
             \/ job[v].decision = rows[job[v].row].decision /\ O!Linked(job[v].row)
      BY <2>3 DEF OutcomesInv, JobsFit
    <3>2. job[v].row # i
      BY <1>1, <3>1
    <3> QED
      BY <2>1, <2>2, <3>1, <3>2 DEF O!Linked
  <2> QED
    BY <2>1, <2>2, <2>3 DEF OutcomesInv, JobsFit, O!Linked
<1> QED
  BY <1>9, <1>10, <1>11, <1>12, <1>13 DEF OutcomesInv

\* An action is enqueued with its decision and first event.
LEMMA EnqueueKeeps == ASSUME OutcomesInv, O!Enqueue PROVE OutcomesInv'
<1>1. PICK i \in Fresh \ DOMAIN rows :
        /\ rows' = O!With(rows, i, O!NewRow(i))
        /\ decisions' = O!With(decisions, O!LiveId(i),
                               [alert |-> O!Alert, at |-> clock, nth |-> i, exec |-> None, approval |-> None])
        /\ events' = O!With(events, <<"enqueue", i>>,
                            [decision |-> O!LiveId(i), alert |-> O!Alert, at |-> clock, nth |-> 0,
                             outcome |-> O!Outcome("simulation", "queued", "simulated")])
        /\ clock' = clock + 1
        /\ UNCHANGED <<audits, backfill, job, runs, executed, blind>>
  BY DEF O!Enqueue
<1> DEFINE d == O!LiveId(i)
           k0 == <<"enqueue", i>>
           told == [alert |-> O!Alert, at |-> clock, nth |-> i, exec |-> None, approval |-> None]
           e == [decision |-> d, alert |-> O!Alert, at |-> clock, nth |-> 0,
                 outcome |-> O!Outcome("simulation", "queued", "simulated")]
<1>2. RowsFit /\ LogsFit /\ KeysFit /\ StagedFits /\ JobsFit /\ OutcomesSound /\ EndsTold
  BY DEF OutcomesInv
<1>3. i \in Nat /\ i \notin DOMAIN rows
  BY ScenesAssumption
<1>4. /\ d[2] = i /\ d # None /\ k0[1] = "enqueue" /\ k0[2] = i
  <2>1. d \in {"legacy", "live"} \X Nat
    BY <1>3 DEF O!LiveId
  <2> QED
    BY <2>1, ScenesAssumption DEF O!LiveId
<1>5. /\ DOMAIN rows' = DOMAIN rows \cup {i}
      /\ \A j \in DOMAIN rows : rows'[j] = rows[j]
      /\ rows'[i] = O!NewRow(i)
  BY <1>1, <1>3 DEF O!With
<1>6. /\ DOMAIN rows'[i] = DOMAIN Blank /\ rows'[i].table = "queue" /\ rows'[i].status = "pending"
      /\ rows'[i].decision = d
  BY <1>5 DEF O!NewRow, Blank
<1>7. d \notin DOMAIN decisions /\ k0 \notin DOMAIN events
  BY <1>2, <1>3, <1>4 DEF KeysFit
<1>8. told.at = clock /\ told.nth = i /\ e.at = clock /\ e.nth = 0 /\ e.decision = d /\ e.outcome.flag = "simulated"
  BY DEF O!Outcome
<1>9. clock \in Nat /\ clock' = clock + 1 /\ UNCHANGED <<audits, backfill, job, executed, blind>>
  BY <1>1, <1>2 DEF LogsFit
<1>10. decisions' = O!With(decisions, d, told) /\ events' = O!With(events, k0, e)
  BY <1>1
<1> HIDE DEF d, k0, told, e
<1>11. InOrder(decisions')
  <2>1. InOrder(decisions) /\ \A l \in DOMAIN decisions : decisions[l].at < clock /\ decisions[l].at \in Nat
    BY <1>2 DEF LogsFit, Past, InOrder
  <2>2. InOrder(decisions) /\ told.at \in Nat /\ told.nth \in Nat
    BY <1>3, <1>8, <1>9, <2>1
  <2>3. \A l \in DOMAIN decisions : decisions[l].at # told.at \/ decisions[l].nth # told.nth
    BY <1>8, <1>9, <2>1
  <2>4. InOrder(O!With(decisions, d, told))
    BY <2>2, <2>3, WithKeepsOrder
  <2> QED
    BY <1>10, <2>4
<1>12. /\ DOMAIN decisions' = DOMAIN decisions \cup {d} /\ decisions'[d] = told
       /\ \A l \in DOMAIN decisions : decisions'[l] = decisions[l]
  BY <1>7, <1>10 DEF O!With
<1>13. InOrder(events')
  <2>1. InOrder(events) /\ Past(events) /\ clock \in Nat
    BY <1>2 DEF LogsFit
  <2>2. e.at = clock /\ e.nth = 0
    BY <1>8
  <2>3. InOrder(O!With(events, k0, e))
    BY <2>1, <2>2, EventAdds
  <2> QED
    BY <1>10, <2>3
<1>14. /\ DOMAIN events' = DOMAIN events \cup {k0} /\ events'[k0] = e
       /\ \A l \in DOMAIN events : events'[l] = events[l]
  BY <1>7, <1>10 DEF O!With
<1>15. O!Proven => O!Proven'
  BY <1>5, <1>9 DEF O!Proven, O!Ids
<1>16. \A j \in DOMAIN rows : O!Linked(j)' <=> O!Linked(j)
  BY <1>5 DEF O!Linked
<1>17. O!Linked(i)'
  BY <1>4, <1>6 DEF O!Linked
<1>18. RowsFit'
  <2>1. DOMAIN rows' \subseteq Nat /\ audits' \subseteq DOMAIN rows'
    BY <1>2, <1>3, <1>5, <1>9 DEF RowsFit
  <2>2. d = O!LiveId(i)
    BY DEF d
  <2>3. rows'[i].table \in O!MappedTables /\ rows'[i].table # "approval"
    BY <1>6 DEF O!MappedTables
  <2>4. \A j \in DOMAIN rows : O!Linked(j)' => rows'[j].decision \in DOMAIN decisions'
    BY <1>2, <1>5, <1>12, <1>16 DEF RowsFit
  <2>5. ASSUME NEW j \in DOMAIN rows
        PROVE  /\ DOMAIN rows'[j] = DOMAIN Blank
               /\ rows'[j].table \in O!MappedTables \cup {"blocked_ips", "alert"}
               /\ rows'[j].table = "approval" => rows'[j].status \notin Ended
               /\ O!Linked(j)' => /\ rows'[j].table \in O!MappedTables
                                  /\ rows'[j].decision \in {O!LegacyId(j), O!LiveId(j)}
    BY <1>2, <1>5, <1>16 DEF RowsFit
  <2> QED
    BY <1>5, <1>6, <1>12, <2>1, <2>2, <2>3, <2>4, <2>5 DEF RowsFit
<1>19. LogsFit'
  <2>1. \A k \in DOMAIN decisions : decisions[k].at \in Nat /\ decisions[k].at < clock
    BY <1>2 DEF LogsFit, InOrder, Past
  <2>2. \A k \in DOMAIN events : events[k].at \in Nat /\ events[k].at < clock
    BY <1>2 DEF LogsFit, InOrder, Past
  <2>3. \A k \in DOMAIN decisions' : decisions'[k].at < clock'
    BY <1>8, <1>9, <1>12, <2>1
  <2>4. \A k \in DOMAIN events' : events'[k].at < clock'
    BY <1>8, <1>9, <1>14, <2>2
  <2>5. clock' \in Nat
    BY <1>9
  <2> QED
    BY <1>11, <1>13, <2>3, <2>4, <2>5 DEF LogsFit, Past
<1>20. KeysFit'
  <2>1. \A k \in DOMAIN decisions' : k[2] \in DOMAIN rows' /\ O!Linked(k[2])' /\ rows'[k[2]].decision = k
    BY <1>2, <1>4, <1>5, <1>6, <1>12, <1>16, <1>17 DEF KeysFit, O!Linked
  <2>2. \A k \in DOMAIN events :
          /\ k[2] \in DOMAIN rows' /\ O!Linked(k[2])'
          /\ events'[k].decision = rows'[k[2]].decision
          /\ k[1] \in {"succeeded", "failed", "play"} => rows'[k[2]].status \in Ended
    BY <1>2, <1>5, <1>14 DEF KeysFit, O!Linked
  <2>3. /\ k0[2] \in DOMAIN rows' /\ rows'[k0[2]].decision = d /\ d # None
        /\ events'[k0].decision = rows'[k0[2]].decision
        /\ k0[1] \notin {"succeeded", "failed", "play"}
    BY <1>4, <1>5, <1>6, <1>8, <1>14
  <2> QED
    BY <1>14, <2>1, <2>2, <2>3 DEF KeysFit, O!Linked
<1>21. StagedFits'
  <2>1. backfill.phase = "apply" =>
          /\ backfill.at \in Nat /\ backfill.at < clock'
          /\ \A k \in DOMAIN decisions' : decisions'[k].at # backfill.at
          /\ \A k \in DOMAIN events' : events'[k].at # backfill.at
    BY <1>2, <1>8, <1>9, <1>12, <1>14 DEF StagedFits
  <2>2. \A j : UnlinkedRow(j) => UnlinkedRow(j)'
    BY <1>5, <1>16 DEF UnlinkedRow
  <2>3. \A j \in DOMAIN rows : O!DecisionSeen(j)' = O!DecisionSeen(j) /\ j \in DOMAIN rows'
    BY <1>5, <1>9 DEF O!DecisionSeen
  <2> QED
    BY <1>2, <1>9, <2>1, <2>2, <2>3 DEF StagedFits
<1>22. JobsFit'
  <2>1. ASSUME NEW v \in Workers, job[v] # None
        PROVE  /\ job[v].row \in DOMAIN rows'
               /\ rows'[job[v].row].table = "queue" /\ rows'[job[v].row].status = "running"
               /\ \/ job[v].decision = None /\ job[v].row \in blind
                  \/ job[v].decision = rows'[job[v].row].decision /\ rows'[job[v].row].decision # None
    BY <1>2, <1>5, <2>1 DEF JobsFit, O!Linked
  <2> QED
    BY <1>2, <1>9, <2>1 DEF JobsFit, O!Linked
<1>23. OutcomesSound'
  <2>1. ASSUME NEW k \in DOMAIN events', events'[k].outcome.flag = "external" PROVE O!Proven'
    BY <1>2, <1>8, <1>14, <1>15, <2>1 DEF OutcomesSound, Sound
  <2>2. /\ \A k \in DOMAIN backfill.events : backfill.events[k].outcome.flag = "external" => O!Proven'
        /\ \A j \in DOMAIN backfill.todo : backfill.todo[j].flag = "external" => O!Proven'
    BY <1>2, <1>15 DEF OutcomesSound, Sound
  <2> QED
    BY <1>9, <2>1, <2>2 DEF OutcomesSound, Sound
<1>24. EndsTold'
  <2> SUFFICES ASSUME NEW j \in DOMAIN rows', rows'[j].status \in Ended, j \notin blind
               PROVE  /\ O!Linked(j)' /\ O!AuditId(j) \notin DOMAIN events' => EndsFinal(j)'
                      /\ j \in DOMAIN backfill.todo => backfill.todo[j].state \in O!Final
                      /\ j \in DOMAIN backfill.links => backfill.events[O!LegacyId(j)].outcome.state \in O!Final
    BY <1>9 DEF EndsTold
  <2>1. j \in DOMAIN rows /\ rows'[j] = rows[j]
    BY <1>5, <1>6 DEF Ended
  <2>2. /\ j \in DOMAIN backfill.todo => backfill.todo[j].state \in O!Final
        /\ j \in DOMAIN backfill.links => backfill.events[O!LegacyId(j)].outcome.state \in O!Final
    BY <1>2, <2>1 DEF EndsTold
  <2>3. ASSUME O!Linked(j)', O!AuditId(j) \notin DOMAIN events' PROVE EndsFinal(j)'
    <3>1. O!Linked(j) /\ EndsFinal(j)
      BY <1>2, <1>14, <1>16, <2>1, <2>3 DEF EndsTold
    <3>2. rows[j].decision # d
      <4>1. rows[j].decision \in {O!LegacyId(j), O!LiveId(j)}
        BY <1>2, <2>1, <3>1 DEF RowsFit
      <4> QED
        BY <1>3, <2>1, <4>1 DEF d, O!LegacyId, O!LiveId
    <3>3. O!EventsOf(rows[j].decision)' = O!EventsOf(rows[j].decision)
      BY <1>8, <1>14, <2>1, <3>2, <1>7 DEF O!EventsOf
    <3> QED
      BY <1>14, <2>1, <3>1, <3>3 DEF EndsFinal, O!EventsOf
  <2> QED
    BY <2>2, <2>3
<1> QED
  BY <1>18, <1>19, <1>20, <1>21, <1>22, <1>23, <1>24 DEF OutcomesInv

\* Every step of the outcomes keeps the invariant.
LEMMA OutcomesStep == OutcomesInv /\ [O!Next]_outcomeVars => OutcomesInv'
<1> SUFFICES ASSUME OutcomesInv, [O!Next]_outcomeVars PROVE OutcomesInv'
  OBVIOUS
<1>1. CASE UNCHANGED outcomeVars
  BY <1>1 DEF outcomeVars, OutcomesInv, RowsFit, LogsFit, InOrder, Past, KeysFit, StagedFits, UnlinkedRow, JobsFit,
              OutcomesSound, Sound, EndsTold, EndsFinal, O!Linked, O!DecisionSeen, O!Proven, O!Ids, O!EventsOf
<1>2. CASE O!Next
  BY <1>2, BeginKeeps, ApplyKeeps, LinkAuditKeeps, CommitKeeps, RollbackKeeps, EnqueueKeeps, FinishKeeps,
     PlayKeeps, ClaimKeeps DEF O!Next
<1> QED
  BY <1>1, <1>2

\* It holds of a database that has no decisions yet.
LEMMA OutcomesStart == O!Init => OutcomesInv
<1> SUFFICES ASSUME O!Init PROVE OutcomesInv
  OBVIOUS
<1>1. PICK start \in Scenes : rows = start.rows /\ audits = start.audits
  BY DEF O!Init
<1>2. /\ decisions = O!Nothing /\ events = O!Nothing /\ backfill = O!Idle
      /\ job = [w \in Workers |-> None] /\ clock = 0
  BY DEF O!Init
<1>3. DOMAIN O!Nothing = {}
  BY DEF O!Nothing
<1>4. \A log : DOMAIN log = {} => InOrder(log) /\ Past(log)
  BY FS_EmptySet DEF InOrder, Past
<1>5. /\ DOMAIN rows \subseteq Nat /\ audits \subseteq DOMAIN rows
      /\ \A i \in DOMAIN rows : LegacyRow(rows[i])
  BY <1>1, ScenesAssumption
<1>6. \A i \in DOMAIN rows : ~O!Linked(i)
  BY <1>5 DEF LegacyRow, O!Linked
<1>7. RowsFit
  BY <1>5, <1>6 DEF RowsFit, LegacyRow, O!MappedTables, Ended
<1>8. LogsFit /\ KeysFit
  BY <1>2, <1>3, <1>4 DEF LogsFit, KeysFit
<1>9. /\ backfill.phase # "apply" /\ DOMAIN backfill.todo = {} /\ DOMAIN backfill.links = {}
      /\ DOMAIN backfill.decisions = {} /\ DOMAIN backfill.events = {} /\ DOMAIN backfill = DOMAIN O!Idle
  BY <1>2, <1>3 DEF O!Idle
<1>10. StagedFits
  BY <1>4, <1>9 DEF StagedFits
<1>11. JobsFit /\ OutcomesSound
  BY <1>2, <1>3, <1>9 DEF JobsFit, OutcomesSound
<1>12. EndsTold
  BY <1>6, <1>9 DEF EndsTold
<1> QED
  BY <1>7, <1>8, <1>10, <1>11, <1>12 DEF OutcomesInv

\* What a decision is shown as is what is said of it last.
LEMMA ShapeIsLast ==
    ASSUME OutcomesInv, NEW d
    PROVE  /\ O!EventsOf(d) = {} => O!Shape(d) = O!Outcome("observed", "selected", "none")
           /\ O!EventsOf(d) # {} => \E e \in O!EventsOf(d) : O!LatestEvent(d) = e /\ O!Shape(d) = events[e].outcome
<1>1. InOrder(events) /\ O!EventsOf(d) \in SUBSET DOMAIN events
  BY DEF OutcomesInv, LogsFit, O!EventsOf
<1>2. ASSUME O!EventsOf(d) # {} PROVE O!LatestEvent(d) \in O!EventsOf(d)
  BY <1>1, <1>2, NewestIsLast DEF O!LatestEvent
<1> QED
  BY <1>2 DEF O!Shape

\* ... so it is sound, and so are the readers that show a decision.
LEMMA ShapeIsSound == ASSUME OutcomesInv, NEW d PROVE Sound(O!Shape(d))
<1>1. CASE O!EventsOf(d) = {}
  <2>1. O!Shape(d).flag = "none"
    BY <1>1, ShapeIsLast DEF O!Outcome
  <2> QED
    BY <2>1 DEF Sound
<1>2. CASE O!EventsOf(d) # {}
  <2>1. PICK e \in O!EventsOf(d) : O!Shape(d) = events[e].outcome
    BY <1>2, ShapeIsLast
  <2> QED
    BY <2>1 DEF O!EventsOf, OutcomesInv, OutcomesSound
<1> QED
  BY <1>1, <1>2

\* An outcome reads as executed only if it says "external".
LEMMA ExecutedIsExternal == ASSUME NEW o, O!Label(o) = "executed" PROVE o.flag = "external"
  BY DEF O!Label

\* What the reader of one row shows, decision or inference, is sound.
LEMMA ResolveIsSound == ASSUME OutcomesInv, NEW i \in DOMAIN rows PROVE Sound(O!Resolve(i))
<1>1. rows[i].table \in {"queue", "log", "execution", "approval", "notification", "blocked_ips", "alert"}
  BY DEF OutcomesInv, RowsFit, O!MappedTables
<1>2. \A inferred : Sound(inferred) => Sound(O!CanonicalElse(i, inferred))
  BY ShapeIsSound DEF O!CanonicalElse
<1>3. Sound(O!InferQueue(rows[i])) /\ Sound(O!InferLog(rows[i], O!BlockExists)) /\ Sound(O!InferApproval(rows[i]))
  <2>1. Sound(O!InferQueue(rows[i]))
    BY DEF O!InferQueue, O!Simulated, O!Outcome, Sound
  <2>2. Sound(O!InferLog(rows[i], O!BlockExists))
    BY DEF O!InferLog, O!Simulated, O!Outcome, Sound
  <2>3. Sound(O!InferApproval(rows[i]))
    BY DEF O!InferApproval, O!Simulated, O!Outcome, Sound
  <2> QED
    BY <2>1, <2>2, <2>3
<1>4. Sound(O!InferExecution(rows[i], O!Corroborated(i)))
  <2>1. O!Corroborated(i) => O!Proven
    BY DEF O!Corroborated, O!Proven
  <2> QED
    BY <2>1 DEF O!InferExecution, O!Simulated, O!Outcome, Sound
<1>5. ASSUME NEW n \in O!Ids("notification") PROVE Sound(O!InferNotification(rows[n]))
  <2>1. rows[n].mode = "real" /\ rows[n].status = "success" /\ O!ConfirmsExecution(rows[n].meta) => O!Proven
    BY DEF O!Proven
  <2> QED
    BY <2>1 DEF O!InferNotification, O!Simulated, O!Outcome, Sound
<1>6. Sound(O!InferBlocked(rows[i])) /\ Sound(O!InferAlert)
  BY DEF O!InferBlocked, O!InferAlert, O!Simulated, O!Outcome, Sound
<1>7. Sound(O!ResolveAlert)
  <2>1. ASSUME O!LatestOfAlert # None PROVE Sound(O!LatestOfAlert)
    BY <2>1, ShapeIsSound DEF O!LatestOfAlert
  <2>2. ASSUME O!AlertDelivery # {} PROVE Sound(O!InferAlertNotification(CHOOSE n \in O!AlertDelivery : TRUE))
    <3> DEFINE n == CHOOSE n \in O!AlertDelivery : TRUE
    <3>1. n \in O!Ids("notification")
      BY <2>2 DEF O!AlertDelivery
    <3> HIDE DEF n
    <3>2. Sound(O!Simulated("blocked"))
      BY DEF O!Simulated, O!Outcome, Sound
    <3>3. Sound(O!InferAlertNotification(n))
      BY <1>5, <3>1, <3>2 DEF O!InferAlertNotification
    <3> QED
      BY <3>3 DEF n
  <2> QED
    BY <1>6, <2>1, <2>2 DEF O!ResolveAlert
<1>8. CASE rows[i].table = "queue"
  BY <1>2, <1>3, <1>8 DEF O!Resolve, O!ResolveQueue
<1>9. CASE rows[i].table = "log"
  BY <1>2, <1>3, <1>9 DEF O!Resolve, O!ResolveLog
<1>10. CASE rows[i].table = "execution"
  BY <1>2, <1>4, <1>10 DEF O!Resolve, O!ResolveExecution
<1>11. CASE rows[i].table = "approval"
  BY <1>2, <1>3, <1>11 DEF O!Resolve, O!ResolveApproval
<1>12. CASE rows[i].table = "notification"
  BY <1>2, <1>5, <1>12 DEF O!Resolve, O!ResolveNotification, O!Ids
<1>13. CASE rows[i].table = "blocked_ips"
  BY <1>6, <1>13 DEF O!Resolve, O!ResolveBlocked
<1>14. CASE rows[i].table = "alert"
  BY <1>7, <1>14 DEF O!Resolve
<1> QED
  BY <1>1, <1>8, <1>9, <1>10, <1>11, <1>12, <1>13, <1>14

\* So is what the bulk readers show, if anything.
LEMMA BulkIsSound == ASSUME OutcomesInv, NEW i \in DOMAIN rows, O!Bulk(i) # None PROVE Sound(O!Bulk(i))
<1>1. \A others : O!Preferred(i, others) = None \/ Sound(O!Preferred(i, others))
  BY ShapeIsSound DEF O!Preferred
<1>2. O!LatestOfAlert = None \/ Sound(O!LatestOfAlert)
  BY ShapeIsSound DEF O!LatestOfAlert
<1>3. O!AlertsBulk = None \/ Sound(O!AlertsBulk)
  <2>1. CASE O!OfAlert(events) = {}
    BY <2>1 DEF O!AlertsBulk
  <2>2. CASE O!OfAlert(events) # {}
    <3>1. InOrder(events) /\ O!OfAlert(events) \in SUBSET DOMAIN events
      BY DEF OutcomesInv, LogsFit, O!OfAlert
    <3>2. O!Newest(events, O!OfAlert(events)) \in O!OfAlert(events)
      BY <2>2, <3>1, NewestIsLast
    <3>3. Sound(events[O!Newest(events, O!OfAlert(events))].outcome)
      BY <3>2 DEF O!OfAlert, OutcomesInv, OutcomesSound
    <3> QED
      BY <2>2, <3>3 DEF O!AlertsBulk
  <2> QED
    BY <2>1, <2>2
<1>4. CASE rows[i].table \in {"queue", "execution", "approval", "notification"}
  BY <1>1, <1>4 DEF O!Bulk, O!QueuesBulk, O!ExecutionsBulk, O!ApprovalsBulk, O!DeliveriesBulk
<1>5. CASE rows[i].table = "blocked_ips"
  BY <1>2, <1>5 DEF O!Bulk, O!BlockedBulk
<1>6. CASE rows[i].table = "alert"
  BY <1>3, <1>6 DEF O!Bulk
<1>7. CASE rows[i].table = "log"
  BY <1>7 DEF O!Bulk
<1>8. rows[i].table \in {"queue", "log", "execution", "approval", "notification", "blocked_ips", "alert"}
  BY DEF OutcomesInv, RowsFit, O!MappedTables
<1> QED
  BY <1>4, <1>5, <1>6, <1>7, <1>8

\* What the invariant is for, first: no reader claims an execution that nothing proves.
LEMMA ClaimsAreProven == OutcomesInv => O!NoUnprovenExecution
<1> SUFFICES ASSUME OutcomesInv PROVE O!NoUnprovenExecution
  OBVIOUS
<1>1. ASSUME NEW i \in DOMAIN rows, O!Label(O!Resolve(i)) = "executed" PROVE O!Proven
  BY <1>1, ResolveIsSound, ExecutedIsExternal DEF Sound
<1>2. ASSUME NEW i \in DOMAIN rows, O!Bulk(i) # None, O!Label(O!Bulk(i)) = "executed" PROVE O!Proven
  BY <1>2, BulkIsSound, ExecutedIsExternal DEF Sound
<1>3. ASSUME NEW t \in O!Trace, t.label = "executed" PROVE O!Proven
  <2>1. PICK d \in O!OfAlert(decisions) : t = [of |-> O!Archived(d), label |-> O!Label(O!Archived(d).outcome)]
    BY DEF O!Trace
  <2>2. O!Archived(d).outcome = O!Shape(d)
    BY DEF O!Archived
  <2>3. O!Label(O!Shape(d)) = "executed"
    BY <1>3, <2>1, <2>2
  <2> QED
    BY <2>3, ShapeIsSound, ExecutedIsExternal DEF Sound
<1> QED
  BY <1>1, <1>2, <1>3 DEF O!NoUnprovenExecution

\* Of a row that has a decision, the join prefers it to any other.
LEMMA OwnDecisionIsPreferred ==
    ASSUME OutcomesInv, NEW i \in DOMAIN rows, O!Linked(i), NEW others
    PROVE  O!Preferred(i, others) = O!Shape(rows[i].decision)
<1> DEFINE own == rows[i].decision
           joined == {d \in DOMAIN decisions : d = rows[i].decision} \cup others
           best == {d \in joined : \A c \in joined : O!Priority(i, d) <= O!Priority(i, c)}
<1>1. own \in DOMAIN decisions /\ own \in joined
  BY DEF OutcomesInv, RowsFit
<1>2. \A d : O!Priority(i, d) = IF d = own THEN 0 ELSE 2
  BY DEF O!Priority
<1>3. best = {own}
  BY <1>1, <1>2
<1>4. InOrder(decisions) /\ {own} \in SUBSET DOMAIN decisions
  BY <1>1 DEF OutcomesInv, LogsFit
<1>5. O!Newest(decisions, {own}) = own
  <2>1. O!Newest(decisions, {own}) \in {own}
    BY <1>4, NewestIsLast
  <2> QED
    BY <2>1
<1>6. O!Preferred(i, others) = IF best = {} THEN None ELSE O!Shape(O!Newest(decisions, best))
  BY DEF O!Preferred
<1> HIDE DEF best, own
<1>7. O!Preferred(i, others) = O!Shape(own)
  BY <1>3, <1>5, <1>6
<1> QED
  BY <1>7 DEF own

\* A timeline that is not empty ends with what is said last.
LEMMA TimelineEnds ==
    ASSUME OutcomesInv, NEW d
    PROVE  O!Timeline(d) # <<>> => O!EventsOf(d) # {} /\ O!Timeline(d)[Len(O!Timeline(d))] = O!LatestEvent(d)
<1> DEFINE S == O!EventsOf(d)
           N == Cardinality(S)
           place(n) == CHOOSE e \in S : Cardinality(O!Earlier(events, S, e)) = n - 1
           line == O!Timeline(d)
           last == O!LatestEvent(d)
<1>1. InOrder(events) /\ S \in SUBSET DOMAIN events
  BY DEF OutcomesInv, LogsFit, O!EventsOf
<1>2. IsFiniteSet(S)
  BY <1>1, FS_Subset DEF InOrder
<1>3. N \in Nat /\ (N = 0 <=> S = {})
  BY <1>2, FS_CardinalityType, FS_EmptySet
<1>4. line = [n \in 1 .. N |-> place(n)]
  BY OutcomeCounts DEF O!Timeline
<1> HIDE DEF N, place
<1>5. line \in Seq({place(n) : n \in 1 .. N}) /\ Len(line) = N
  BY <1>3, <1>4
<1> SUFFICES ASSUME line # <<>> PROVE S # {} /\ line[Len(line)] = last
  OBVIOUS
<1>6. S # {} /\ N \in Nat \ {0}
  BY <1>3, <1>5
<1>7. last \in S /\ \A j \in S \ {last} : O!Later(events[last], events[j])
  BY <1>1, <1>6, NewestIsLast DEF O!LatestEvent
<1> HIDE DEF S, last, line
<1>8. Cardinality(O!Earlier(events, S, last)) = N - 1
  <2>1. O!Earlier(events, S, last) = S \ {last}
    BY <1>1, <1>7, LaterOrders DEF O!Earlier
  <2> QED
    BY <1>2, <1>7, <2>1, FS_RemoveElement DEF N
<1>9. ASSUME NEW e \in S, e # last PROVE Cardinality(O!Earlier(events, S, e)) # N - 1
  <2>1. ~O!Later(events[e], events[last])
    BY <1>1, <1>7, <1>9, LaterOrders
  <2>2. O!Earlier(events, S, e) \subseteq (S \ {last}) \ {e}
    BY <1>1, <1>9, <2>1, LaterOrders DEF O!Earlier
  <2>3. IsFiniteSet(S \ {last}) /\ Cardinality(S \ {last}) = N - 1
    BY <1>2, <1>7, FS_RemoveElement DEF N
  <2>4. IsFiniteSet((S \ {last}) \ {e}) /\ Cardinality((S \ {last}) \ {e}) = N - 2
    <3>1. e \in S \ {last}
      BY <1>9
    <3>2. IsFiniteSet(S \ {last})
      BY <2>3
    <3>3. IsFiniteSet((S \ {last}) \ {e}) /\ Cardinality((S \ {last}) \ {e}) = Cardinality(S \ {last}) - 1
      BY <3>1, <3>2, FS_RemoveElement
    <3> QED
      BY <1>6, <2>3, <3>3
  <2>5. /\ Cardinality(O!Earlier(events, S, e)) <= Cardinality((S \ {last}) \ {e})
        /\ Cardinality(O!Earlier(events, S, e)) \in Nat
    BY <2>2, <2>4, FS_Subset, FS_CardinalityType
  <2> QED
    BY <1>6, <2>4, <2>5
<1>10. place(N) = last
  BY <1>7, <1>8, <1>9 DEF place
<1> QED
  BY <1>4, <1>5, <1>6, <1>10

\* ... second: the readers of a linked row show the same.
LEMMA ReadersDoAgree == OutcomesInv => O!ReadersAgree
<1> SUFFICES ASSUME OutcomesInv, NEW i \in DOMAIN rows, O!Linked(i)
             PROVE  /\ rows[i].table # "log" => O!Bulk(i) = O!Resolve(i)
                    /\ LET line == O!Timeline(rows[i].decision)
                       IN line # <<>> => events[line[Len(line)]].outcome = O!Resolve(i)
  BY DEF O!ReadersAgree, O!Len, Len
<1>1. rows[i].table \in {"queue", "log", "execution", "approval", "notification"}
  BY DEF OutcomesInv, RowsFit, O!MappedTables
<1>2. O!Resolve(i) = O!Shape(rows[i].decision)
  BY <1>1 DEF O!Resolve, O!ResolveQueue, O!ResolveLog, O!ResolveExecution, O!ResolveApproval, O!ResolveNotification,
              O!CanonicalElse
<1>3. rows[i].table # "log" => O!Bulk(i) = O!Shape(rows[i].decision)
  BY <1>1, OwnDecisionIsPreferred DEF O!Bulk, O!QueuesBulk, O!ExecutionsBulk, O!ApprovalsBulk, O!DeliveriesBulk
<1>4. O!Timeline(rows[i].decision) # <<>> =>
         events[O!Timeline(rows[i].decision)[Len(O!Timeline(rows[i].decision))]].outcome = O!Shape(rows[i].decision)
  BY TimelineEnds, ShapeIsLast
<1> QED
  BY <1>2, <1>3, <1>4

\* ... third: a row that has ended, and has a decision no worker was blind to, reads as ended.
LEMMA EndsReadFinal == OutcomesInv => O!FinishedReadsFinished
<1> SUFFICES ASSUME OutcomesInv, NEW i \in DOMAIN rows, O!Linked(i), rows[i].status \in Ended, i \notin blind,
                    O!AuditId(i) \notin DOMAIN events
             PROVE  O!Resolve(i).state \in O!Final
  BY DEF O!FinishedReadsFinished, Ended
<1>1. rows[i].table \in {"queue", "log", "execution", "approval", "notification"}
  BY DEF OutcomesInv, RowsFit, O!MappedTables
<1>2. O!Resolve(i) = O!Shape(rows[i].decision)
  BY <1>1 DEF O!Resolve, O!ResolveQueue, O!ResolveLog, O!ResolveExecution, O!ResolveApproval, O!ResolveNotification,
              O!CanonicalElse
<1>3. EndsFinal(i)
  BY DEF OutcomesInv, EndsTold
<1>4. PICK e \in O!EventsOf(rows[i].decision) :
        /\ events[e].outcome.state \in O!Final
        /\ \A f \in O!EventsOf(rows[i].decision) \ {e} : O!Later(events[e], events[f])
  BY <1>3 DEF EndsFinal
<1>5. InOrder(events) /\ O!EventsOf(rows[i].decision) \in SUBSET DOMAIN events
  BY DEF OutcomesInv, LogsFit, O!EventsOf
<1>6. O!LatestEvent(rows[i].decision) = e
  BY <1>4, <1>5, NewestIsUnique DEF O!LatestEvent
<1> QED
  BY <1>2, <1>4, <1>6 DEF O!Shape

\* The invariant of the outcomes holds for any workers, scenes, fresh rows and number of backfills.
THEOREM OutcomesInductive == Spec => []OutcomesInv
<1>1. Init => OutcomesInv
  BY OutcomesStart DEF Init
<1>2. OutcomesInv /\ [Next]_<<part, outcomeVars, caseVars, workVars>> => OutcomesInv'
  <2>1. [Next]_<<part, outcomeVars, caseVars, workVars>> => [O!Next]_outcomeVars
    BY DEF Next
  <2> QED
    BY <2>1, OutcomesStep
<1> QED
  BY <1>1, <1>2, PTL DEF Spec

\* No reader of the response outcomes (resolve_alert_outcome and its siblings, the bulk readers, the traceability
\* report) claims a real execution without a delivery or a worker that proves it, whatever the backfill wrote.
THEOREM ExecutionsAreProven == Spec => []NoUnprovenExecution
<1>1. OutcomesInv => NoUnprovenExecution
  BY ClaimsAreProven DEF NoUnprovenExecution
<1> QED
  BY <1>1, OutcomesInductive, PTL

\* The reader of one row (get_decision_with_latest_outcome), the bulk readers with their joins and the end of the
\* timeline show the same of a row with a decision.
THEOREM ReadersShowTheSame == Spec => []ReadersAgree
<1>1. OutcomesInv => ReadersAgree
  BY ReadersDoAgree DEF ReadersAgree
<1> QED
  BY <1>1, OutcomesInductive, PTL

\* Whenever workers report and the backfill guesses, a row that has ended reads as ended, unless a worker read it
\* before it was linked or the backfill linked an audit row to it.
THEOREM EndsAreRead == Spec => []FinishedReadsFinished
<1>1. OutcomesInv => FinishedReadsFinished
  BY EndsReadFinal DEF FinishedReadsFinished
<1> QED
  BY <1>1, OutcomesInductive, PTL
=============================================================================
