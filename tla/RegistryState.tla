--------------------------- MODULE RegistryState ---------------------------
(***************************************************************************)
(* The rows of one indicator that the response commands share, the commands *)
(* under way, and what a reader of the rows may rely on.  The commands are  *)
(* in ResponseCommands.                                                     *)
(***************************************************************************)
EXTENDS Naturals, Sequences

CONSTANTS
    Sessions,     \* connections that run commands
    Keys,         \* idempotency keys of the callers
    Nobody,
    MaxCommands,  \* bounds on the commands, and on the operators' incident changes
    MaxChanges

ASSUME CommandsAssumption == Nobody \notin Sessions /\ MaxCommands \in Nat /\ MaxChanges \in Nat

VARIABLES
    registry,     \* the indicator_registry row: disposition, active block and incident (0: NULL)
    blocks,       \* status of the blocked_ips rows, by id
    past,         \* ids of the blocks whose expires_at has passed
    incidents,    \* status of the incidents, by id
    events,       \* idempotency keys with an event
    holder,       \* the session whose transaction holds the registry row
    session,
    commands,     \* commands begun so far
    changes,      \* incident changes so far
    repeated      \* history: an event was left out because its key had been used

-----------------------------------------------------------------------------
Active == {b \in 1 .. Len(blocks) : blocks[b] = "active"}

\* The IP has at most one active row in blocked_ips, though nothing in the schema says so:
\* two concurrent block_ip commands are kept apart by the registry row alone.
OneActiveBlock == \A b, c \in Active : b = c

\* What the registry shows has its record: an escalated indicator points at an incident that
\* exists, and a blocklist_tracked one at its block, as long as no event was left out because
\* its key had been used (append_registry_event).
ShownHasRecord ==
    /\ registry.disposition = "escalated" => registry.incident \in 1 .. Len(incidents)
    /\ ~repeated /\ registry.disposition = "blocklist_tracked" => registry.block # 0
=============================================================================
