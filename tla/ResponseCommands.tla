-------------------------- MODULE ResponseCommands --------------------------
(***************************************************************************)
(* The response commands of core/response_command_service.py on one IP:     *)
(* block, monitor, stop monitoring, escalate, remove tracking and note,     *)
(* sent by web sessions, the queue worker and playbooks, each in one        *)
(* transaction of its own.  They share the indicator's registry row, the    *)
(* blocked_ips and incidents rows of the IP, and the events, whose          *)
(* idempotency keys are unique (core/indicator_response_registry.py).       *)
(*                                                                          *)
(* A transaction reads without a lock (Look), takes the registry row lock   *)
(* with the upsert (Lock), looks for an active block (Find) and commits; at *)
(* any point it may fail and roll back.  The watch's expiry is left out:    *)
(* apply_monitor_expiry, which would use it, has no caller.                 *)
(***************************************************************************)
EXTENDS Integers, Sequences, RegistryState

vars == <<registry, blocks, past, incidents, events, holder, session, commands, changes, repeated>>

Actions == {"block_ip", "monitor", "stop_monitor", "flag_high_priority", "remove_tracking",
            "add_note", "rejected"}
Dispositions == {"absent", "observed", "monitored", "escalated", "blocklist_tracked", "rejected",
                 "removed"}
Idle == [at |-> "idle"]

Transactions ==
    {Idle} \cup [at : {"looked", "locked", "found"}, action : Actions, key : Keys, seen : Nat,
                 past : SUBSET Nat]

TypeOK ==
    /\ registry \in [disposition : Dispositions, block : Nat, incident : Nat]
    /\ blocks \in Seq({"active", "removed"})
    /\ past \subseteq 1 .. Len(blocks)
    /\ incidents \in Seq({"open", "resolved", "closed"})
    /\ events \subseteq Keys \X {"done", "rejected"}
    /\ holder \in Sessions \cup {Nobody}
    /\ session \in [Sessions -> Transactions]
    /\ commands \in 0 .. MaxCommands /\ changes \in 0 .. MaxChanges /\ repeated \in BOOLEAN

-----------------------------------------------------------------------------
Open == {i \in 1 .. Len(incidents) : incidents[i] = "open"}
\* n is the first id of a query that orders by id, or 0 if it finds no row.
Newest(n, ids) == IF ids = {} THEN n = 0 ELSE n \in ids /\ \A m \in ids : m <= n
Eldest(n, ids) == IF ids = {} THEN n = 0 ELSE n \in ids /\ \A m \in ids : n <= m

\* What a command reads before it holds anything: remove_tracking the newest active block,
\* flag_high_priority the newest open incident, the monitor commands whether it is monitored.
Reads(action, n) ==
    CASE action = "remove_tracking" -> Newest(n, Active)
      [] action = "flag_high_priority" -> Newest(n, Open)
      [] action \in {"monitor", "stop_monitor"} -> n = IF registry.disposition = "monitored" THEN 1 ELSE 0
      [] OTHER -> n = 0

\* A command that upserts the row, and so holds it from there to its commit.
Upserts(t) ==
    \/ t.action \notin {"monitor", "stop_monitor"}
    \/ t.action = "monitor" /\ t.seen = 0

\* The row after the upsert: inserted as 'observed' when there is none.
Upserted == IF registry.disposition = "absent" THEN [registry EXCEPT !.disposition = "observed"]
            ELSE registry

\* Mutant of Unheld: the upsert does not wait for the row.
UnheldAlways(s) == TRUE

\* The registry row is free for a write of s.
Unheld(s) == holder \in {s, Nobody}

\* Mutant of Appended: the event sets the disposition and not the block.
AppendedWithoutBlock(row, key, disposition, block, incident) ==
    IF key \in events THEN row
    ELSE [disposition |-> disposition, block |-> row.block,
          incident |-> IF incident = 0 THEN row.incident ELSE incident]

\* append_registry_event on a row: with a key already used it returns the older event and
\* leaves the row alone; the ids it is not given stay (COALESCE).
Appended(row, key, disposition, block, incident) ==
    IF key \in events THEN row
    ELSE [disposition |-> disposition,
          block |-> IF block = 0 THEN row.block ELSE block,
          incident |-> IF incident = 0 THEN row.incident ELSE incident]

-----------------------------------------------------------------------------
Init ==
    /\ registry = [disposition |-> "absent", block |-> 0, incident |-> 0]
    /\ blocks = <<>> /\ past = {} /\ incidents = <<>> /\ events = {}
    /\ holder = Nobody /\ session = [s \in Sessions |-> Idle]
    /\ commands = 0 /\ changes = 0 /\ repeated = FALSE

\* execute_response_command begins: the key is the caller's or the hash of the request, the
\* same for every repetition; NOW() stays at this moment for the whole transaction.
\* "rejected" is a block_ip whose target is protected or cannot be blocked.
Look(s, action, key) ==
    /\ session[s] = Idle
    /\ commands < MaxCommands /\ commands' = commands + 1
    /\ \E n \in {0, 1} \cup Active \cup Open :
          /\ Reads(action, n)
          /\ session' = [session EXCEPT ![s] = [at |-> "looked", action |-> action, key |-> key,
                                                seen |-> n, past |-> past]]
    /\ UNCHANGED <<registry, blocks, past, incidents, events, holder, changes, repeated>>

\* upsert_indicator_identity; an uncommitted new row makes the other upserts wait as well.
Lock(s) ==
    /\ session[s].at = "looked" /\ Upserts(session[s])
    /\ Unheld(s)
    /\ holder' = s
    /\ session' = [session EXCEPT ![s].at = "locked"]
    /\ UNCHANGED <<registry, blocks, past, incidents, events, commands, changes, repeated>>

\* The transaction of s commits: key has an event, and s is free for the next command.
Commits(s, key, row) ==
    /\ registry' = row
    /\ events' = events \cup {key}
    /\ repeated' = (repeated \/ key \in events)
    /\ holder' = IF holder = s THEN Nobody ELSE holder
    /\ session' = [session EXCEPT ![s] = Idle]
    /\ UNCHANGED <<past, commands, changes>>

Done(s) == <<session[s].key, "done">>

\* _execute_block_ip, _get_or_create_active_blocked_ip: an active block that had not expired
\* when the transaction began, else 0; with one that had, create_blocked_ip_record raises.
Find(s) ==
    LET t == session[s]
        live == Active \ t.past
    IN /\ t.at = "locked" /\ t.action = "block_ip"
       /\ live # {} \/ Active = {}
       /\ \E n \in {0} \cup live :
             /\ Eldest(n, live)
             /\ session' = [session EXCEPT ![s].at = "found", ![s].seen = n]
       /\ UNCHANGED <<registry, blocks, past, incidents, events, holder, commands, changes, repeated>>

\* The rest of _execute_block_ip: a new row when none was found, and the event.
Block(s) ==
    LET found == session[s].seen
        id == IF found = 0 THEN Len(blocks) + 1 ELSE found
    IN /\ session[s].at = "found"
       /\ blocks' = IF found = 0 THEN Append(blocks, "active") ELSE blocks
       /\ Commits(s, Done(s), Appended(Upserted, Done(s), "blocklist_tracked", id, 0))
       /\ UNCHANGED incidents

\* _execute_monitor of an indicator that was not monitored.
Monitor(s) ==
    /\ session[s].at = "locked" /\ session[s].action = "monitor"
    /\ Commits(s, Done(s), Appended(Upserted, Done(s), "monitored", 0, 0))
    /\ UNCHANGED <<blocks, incidents>>

\* _execute_escalate: the open incident that was read, or a new one.
Escalate(s) ==
    LET read == session[s].seen
        id == IF read = 0 THEN Len(incidents) + 1 ELSE read
    IN /\ session[s].at = "locked" /\ session[s].action = "flag_high_priority"
       /\ incidents' = IF read = 0 THEN Append(incidents, "open") ELSE incidents
       /\ Commits(s, Done(s), Appended(Upserted, Done(s), "escalated", 0, id))
       /\ UNCHANGED blocks

\* _execute_remove_tracking clears the pointer whatever became of the event.
Removed(row) == [row EXCEPT !.block = 0]

\* _execute_remove_tracking of the block that was read; with none, only the row is upserted.
Remove(s) ==
    LET read == session[s].seen
    IN /\ session[s].at = "locked" /\ session[s].action = "remove_tracking"
       /\ \/ /\ read = 0
             /\ registry' = Upserted
             /\ holder' = Nobody
             /\ session' = [session EXCEPT ![s] = Idle]
             /\ UNCHANGED <<blocks, past, events, commands, changes, repeated>>
          \/ /\ read # 0
             /\ blocks' = [blocks EXCEPT ![read] = "removed"]
             /\ Commits(s, Done(s), Removed(Appended(Upserted, Done(s), "removed", read, 0)))
       /\ UNCHANGED incidents

\* _execute_add_note, whose event leaves the row alone, and _reject.
NoteOrReject(s) ==
    /\ session[s].at = "locked"
    /\ \/ session[s].action = "add_note" /\ Commits(s, Done(s), Upserted)
       \/ /\ session[s].action = "rejected"
          /\ LET key == <<session[s].key, "rejected">>
             IN Commits(s, key, Appended(Upserted, key, "rejected", 0, 0))
    /\ UNCHANGED <<blocks, incidents>>

\* _execute_stop_monitor of an indicator read as monitored: a blind update that waits for the row.
Stop(s) ==
    /\ session[s].at = "looked" /\ session[s].action = "stop_monitor" /\ session[s].seen = 1
    /\ Unheld(s)
    /\ Commits(s, Done(s), Appended(registry, Done(s), "removed", 0, 0))
    /\ UNCHANGED <<blocks, incidents>>

\* The renewal of a watch, and a stop with nothing to stop, which inserts a missing row.
Unneeded(s) ==
    /\ session[s].at = "looked" /\ session[s].action \in {"monitor", "stop_monitor"}
    /\ session[s].seen = IF session[s].action = "monitor" THEN 1 ELSE 0
    /\ Unheld(s) \/ (session[s].action = "stop_monitor" /\ registry.disposition # "absent")
    /\ registry' = Upserted
    /\ session' = [session EXCEPT ![s] = Idle]
    /\ UNCHANGED <<blocks, past, incidents, events, holder, commands, changes, repeated>>

\* An exception, or the caller's rollback of a rejected command.
Abort(s) ==
    /\ session[s] # Idle
    /\ holder' = IF holder = s THEN Nobody ELSE holder
    /\ session' = [session EXCEPT ![s] = Idle]
    /\ UNCHANGED <<registry, blocks, past, incidents, events, commands, changes, repeated>>

\* The expires_at of a block passes; the row stays 'active'.
Expire ==
    /\ \E b \in 1 .. Len(blocks) \ past : past' = past \cup {b}
    /\ UNCHANGED <<registry, blocks, incidents, events, holder, session, commands, changes, repeated>>

\* update_incident_status: 'open' stands for 'investigating' too.
ChangeIncident(i, status) ==
    /\ changes < MaxChanges /\ changes' = changes + 1
    /\ \/ incidents[i] = "open" /\ status \in {"resolved", "closed"}
       \/ incidents[i] = "resolved" /\ status \in {"open", "closed"}
    /\ incidents' = [incidents EXCEPT ![i] = status]
    /\ UNCHANGED <<registry, blocks, past, events, holder, session, commands, repeated>>

Step(s) ==
    \/ \E action \in Actions, key \in Keys : Look(s, action, key)
    \/ Lock(s) \/ Find(s) \/ Block(s) \/ Monitor(s) \/ Escalate(s) \/ Remove(s)
    \/ NoteOrReject(s) \/ Stop(s) \/ Unneeded(s) \/ Abort(s)

Next ==
    \/ \E s \in Sessions : Step(s)
    \/ Expire
    \/ \E i \in DOMAIN incidents, status \in {"open", "resolved", "closed"} : ChangeIncident(i, status)

Spec == Init /\ [][Next]_vars

-----------------------------------------------------------------------------
\* Properties.

\* active_blocked_ip_id never points at a block that was removed, whatever order the blocks,
\* the removals acting on an older read, and the repetitions of a key commit in.
PointerIsActive == registry.block # 0 => registry.block \in Active
=============================================================================
