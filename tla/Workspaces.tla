----------------------------- MODULE Workspaces -----------------------------
(***************************************************************************)
(* The analysts' workspaces: core/investigation_workspace_store.py and the  *)
(* routes over it.  A request works for its analyst in one transaction: it  *)
(* reads what it has to check (Ask), and later writes and commits           *)
(* (Answer); other requests may commit in between.  PostgreSQL's unique     *)
(* index and foreign keys (schema.sql) are tested with the write.           *)
(*                                                                          *)
(* Creating a note, hypothesis, task or evidence inside an investigation    *)
(* always fails: _touch_investigation runs its UPDATE on the cursor before  *)
(* the RETURNING row is fetched, and psycopg2 then has no results to fetch. *)
(* So no record has an investigation, and no hypothesis can be linked to    *)
(* evidence, which asks both to belong to one.                              *)
(***************************************************************************)
EXTENDS Naturals, FiniteSets

CONSTANTS Analysts,
          Requests,    \* connections of the web workers
          MaxRecords,  \* bound on the records
          References,  \* alerts, incidents and other objects that can be pinned
          MaxRequests,
          None

VARIABLES workspace,   \* analysts with a default workspace
          record,      \* notes, hypotheses, evidence, tasks and investigations, by id
          pin,         \* analyst -> reference -> its order among the active pins, None if not pinned
          request,     \* what each connection is going to write
          issued,      \* ids the sequence has given out
          asked

workVars == <<workspace, record, pin, request, issued, asked>>

Kinds == {"note", "hypothesis", "evidence", "task", "investigation"}
Quiet == [owner |-> None, created |-> FALSE, op |-> "none", id |-> None, row |-> None, refs |-> <<>>]

\* get_workspace and the _ensure_owner before it.
Owned(o, id) == id \in DOMAIN record /\ record[id].owner = o

\* Mutants of Hypothesis: any hypothesis will do.
HypothesisOfAnyone(o) == {id \in DOMAIN record : record[id].kind = "hypothesis"}

\* _validate_hypothesis_owner and _validate_evidence_owner, for a record outside every
\* investigation.
Hypothesis(o) == {id \in DOMAIN record : record[id].kind = "hypothesis" /\ Owned(o, id)}
EvidenceRef(o) == {id \in DOMAIN record : record[id].kind = "evidence" /\ Owned(o, id)}
\* _validate_optional_child_refs
ChildRefs(o) == [hypothesis : Hypothesis(o) \cup {None}, evidence : EvidenceRef(o) \cup {None}]

Row(o, kind, status) == [owner |-> o, kind |-> kind, status |-> status, hypothesis |-> None, evidence |-> None]
\* create_note, create_hypothesis, create_evidence, create_investigation and create_task.
NoteRow(o) == Row(o, "note", "open")
HypothesisRow(o) == Row(o, "hypothesis", "open")
EvidenceRow(o) == Row(o, "evidence", "open")
InvestigationRows(o) == {Row(o, "investigation", st) : st \in {"open", "closed"}}
TaskRows(o) == {[Row(o, "task", "open") EXCEPT !.hypothesis = r.hypothesis, !.evidence = r.evidence] : r \in ChildRefs(o)}
NewRows(o) == {NoteRow(o), HypothesisRow(o), EvidenceRow(o)} \cup InvestigationRows(o) \cup TaskRows(o)

\* The columns _clean_update_value lets through: a task's references and status, the
\* status of an investigation or a hypothesis.
Changes(o, id) ==
    LET statuses == {[status |-> st] : st \in {"open", "closed"}} IN
    CASE record[id].kind = "task" ->
            statuses \cup [hypothesis : Hypothesis(o) \cup {None}] \cup [evidence : EvidenceRef(o) \cup {None}]
      [] record[id].kind \in {"investigation", "hypothesis"} -> statuses
      [] OTHER -> {[body |-> None]}

Init ==
    /\ workspace = {} /\ issued = 0 /\ asked = 0
    /\ record = [id \in {} |-> None]
    /\ pin = [o \in Analysts |-> [r \in References |-> None]]
    /\ request = [q \in Requests |-> Quiet]

Ask(q, o, what) ==
    /\ request[q] = Quiet /\ asked < MaxRequests
    /\ request' = [request EXCEPT ![q] = what]
    /\ asked' = asked + 1
    /\ UNCHANGED <<workspace, record, pin, issued>>
\* The routes that create something first look for the analyst's workspace
\* (get_or_create_default_workspace).
Creating(o, op) == [Quiet EXCEPT !.owner = o, !.created = o \notin workspace, !.op = op]

\* _create_child_record and create_investigation_route.
AskCreate(q, o) == \E row \in NewRows(o) : Ask(q, o, [Creating(o, "create") EXCEPT !.row = row])
\* _create_child_record with an investigation of the analyst, or one to link in.
AskInvestigation(q, o) ==
    \E id \in DOMAIN record : /\ record[id].kind = "investigation" /\ Owned(o, id)
                              /\ Ask(q, o, Creating(o, "inside"))
\* create_workspace_pin, after validate_reference.
AskPin(q, o) == \E r \in References : Ask(q, o, [Creating(o, "pin") EXCEPT !.refs = <<r>>])
\* reorder_workspace_pins: every pin it names is the analyst's.
AskReorder(q, o) ==
    \E a, b \in {r \in References : pin[o][r] # None} :
        Ask(q, o, [Creating(o, "reorder") EXCEPT !.refs = IF a = b THEN <<a>> ELSE <<a, b>>])
\* update_owned_record and delete_owned_record up to the write: somebody else's record is
\* refused.
AskUpdate(q, o) ==
    \E id \in DOMAIN record : /\ Owned(o, id)
                              /\ \E row \in Changes(o, id) : Ask(q, o, [Quiet EXCEPT !.owner = o, !.op = "update", !.id = id, !.row = row])
AskDelete(q, o) ==
    \/ \E id \in DOMAIN record : Owned(o, id) /\ Ask(q, o, [Quiet EXCEPT !.owner = o, !.op = "delete", !.id = id])
    \/ \E r \in References : pin[o][r] # None /\ Ask(q, o, [Quiet EXCEPT !.owner = o, !.op = "unpin", !.refs = <<r>>])
-----------------------------------------------------------------------------
(* The write and its commit.                                                *)

\* The unique index lets one request create an analyst's workspace.
WorkspaceOk(w) == ~w.created \/ w.owner \notin workspace
\* The foreign keys of a task.
ReferencesExist(row) == \A c \in DOMAIN row \cap {"hypothesis", "evidence"} : row[c] \in DOMAIN record \cup {None}
Done(q) == request' = [request EXCEPT ![q] = Quiet]
WithWorkspace(w) == workspace' = IF w.created THEN workspace \cup {w.owner} ELSE workspace

\* An error rolls everything back: a workspace somebody else has created, a reference or
\* a row that is gone, a record inside an investigation.
Refused(q) ==
    /\ LET w == request[q] IN
         \/ w.op \in {"create", "inside", "pin", "reorder"} /\ ~WorkspaceOk(w)
         \/ w.op = "inside"
         \/ w.op \in {"create", "update"} /\ ~ReferencesExist(w.row)
         \/ w.op = "update" /\ w.id \notin DOMAIN record
    /\ Done(q)
    /\ UNCHANGED <<workspace, record, pin, issued, asked>>

Create(q) ==
    /\ request[q].op = "create" /\ WorkspaceOk(request[q]) /\ ReferencesExist(request[q].row)
    /\ issued < MaxRecords /\ issued' = issued + 1
    /\ record' = [id \in DOMAIN record \cup {issued'} |-> IF id = issued' THEN request[q].row ELSE record[id]]
    /\ WithWorkspace(request[q])
    /\ Done(q) /\ UNCHANGED <<pin, asked>>

\* pin_workspace_item: a pin keeps its order when it is pinned again; a new one has order 0.
Pin(q) ==
    /\ request[q].op = "pin" /\ WorkspaceOk(request[q])
    /\ pin' = [pin EXCEPT ![request[q].owner][request[q].refs[1]] = IF @ = None THEN 0 ELSE @]
    /\ WithWorkspace(request[q])
    /\ Done(q) /\ UNCHANGED <<record, issued, asked>>

\* reorder_workspace_items: a pin that was removed meanwhile is not touched.
Reorder(q) ==
    /\ request[q].op = "reorder" /\ WorkspaceOk(request[q])
    /\ LET o == request[q].owner
           names == request[q].refs
           place(r) == CHOOSE n \in DOMAIN names : names[n] = r
       IN pin' = [pin EXCEPT ![o] = [r \in References |->
                    IF pin[o][r] # None /\ \E n \in DOMAIN names : names[n] = r THEN place(r) ELSE pin[o][r]]]
    /\ WithWorkspace(request[q])
    /\ Done(q) /\ UNCHANGED <<record, issued, asked>>

Update(q) ==
    /\ request[q].op = "update" /\ request[q].id \in DOMAIN record /\ ReferencesExist(request[q].row)
    /\ LET new == request[q].row IN
       record' = [record EXCEPT ![request[q].id] = [c \in DOMAIN @ |-> IF c \in DOMAIN new THEN new[c] ELSE @[c]]]
    /\ Done(q) /\ UNCHANGED <<workspace, pin, issued, asked>>

\* DELETE, with ON DELETE SET NULL for the tasks.
Delete(q) ==
    /\ request[q].op = "delete"
    /\ LET gone == request[q].id
           kept(x) == IF x = gone THEN None ELSE x
       IN record' = [id \in DOMAIN record \ {gone} |->
                       [record[id] EXCEPT !.hypothesis = kept(@), !.evidence = kept(@)]]
    /\ Done(q) /\ UNCHANGED <<workspace, pin, issued, asked>>
Unpin(q) ==
    /\ request[q].op = "unpin"
    /\ pin' = [pin EXCEPT ![request[q].owner][request[q].refs[1]] = None]
    /\ Done(q) /\ UNCHANGED <<workspace, record, issued, asked>>

Next ==
    \E q \in Requests :
        \/ \E o \in Analysts : AskCreate(q, o) \/ AskInvestigation(q, o) \/ AskPin(q, o) \/ AskReorder(q, o)
                               \/ AskUpdate(q, o) \/ AskDelete(q, o)
        \/ Refused(q) \/ Create(q) \/ Pin(q) \/ Reorder(q) \/ Update(q) \/ Delete(q) \/ Unpin(q)

Spec == Init /\ [][Next]_workVars
-----------------------------------------------------------------------------
\* load_workspace_bundle with the list_ functions and _parent_where: what an analyst is shown.
Listed(o, kind) == {id \in DOMAIN record : Owned(o, id) /\ record[id].kind = kind}
Items(o) == {r \in References : pin[o][r] # None}

\* Whatever the requests of several connections delete between a check and a write, the
\* bundle an analyst is shown is closed: the hypothesis and the evidence of each of its
\* tasks are in it, and an analyst with records or pins has a workspace to show them.
BundleIsClosed ==
    \A o \in Analysts :
        /\ \A t \in Listed(o, "task") : /\ record[t].hypothesis \in Listed(o, "hypothesis") \cup {None}
                                        /\ record[t].evidence \in Listed(o, "evidence") \cup {None}
        /\ Items(o) # {} \/ (\E kind \in Kinds : Listed(o, kind) # {}) => o \in workspace
=============================================================================
