-------------------------- MODULE SessionLifecycle --------------------------
(***************************************************************************)
(* The lifecycle a session is documented to have                           *)
(* (services/lab-orchestrator/src/session/types.ts), one session at a time *)
(* and with no word about who moves it: what every status change of the    *)
(* manager and the reaper must come down to.                               *)
(***************************************************************************)
EXTENDS SessionTypes

CONSTANT Sessions

VARIABLE status

Edges ==
  {<<"UNUSED", "CREATING">>, <<"CREATING", "ACTIVE">>, <<"CREATING", "FAILED">>,
   <<"ACTIVE", "RESETTING">>, <<"RESETTING", "ACTIVE">>, <<"RESETTING", "DEGRADED">>,
   <<"DEGRADED", "RESETTING">>, <<"ACTIVE", "DEGRADED">>,
   <<"EXPIRING", "EXPIRED">>, <<"ENDING", "ENDED">>}
  \cup (LiveStatuses \X {"EXPIRING", "ENDING"})
  \cup (TerminalStatuses \X {"FORGOTTEN"})

Init == status = [s \in Sessions |-> "UNUSED"]

Move(s) ==
  \E to \in Statuses \cup NoRowStatuses :
    /\ <<status[s], to>> \in Edges
    /\ status' = [status EXCEPT ![s] = to]

Next == \E s \in Sessions : Move(s)

Spec == Init /\ [][Next]_status
=============================================================================
