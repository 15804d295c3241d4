---------------------------- MODULE SessionTypes ----------------------------
(***************************************************************************)
(* The statuses of a lab session and the sets the orchestrator sorts them  *)
(* into (services/lab-orchestrator/src/session/types.ts).                  *)
(***************************************************************************)

Statuses == {"CREATING", "ACTIVE", "RESETTING", "DEGRADED", "EXPIRING",
             "EXPIRED", "ENDING", "ENDED", "FAILED"}

\* A row that was never inserted, and one the retention sweep deleted.  Session
\* ids are random and never reused, so the two are told apart.
NoRowStatuses == {"UNUSED", "FORGOTTEN"}

OccupyingStatuses == {"CREATING", "ACTIVE", "RESETTING", "DEGRADED",
                      "EXPIRING", "ENDING"}

TerminalStatuses == {"EXPIRED", "ENDED", "FAILED"}

ResettableStatuses == {"ACTIVE", "DEGRADED"}

TeardownOwned == {"ENDING", "EXPIRING"} \cup TerminalStatuses

ActivityStatuses == {"ACTIVE", "RESETTING"}

LiveStatuses == {"CREATING", "ACTIVE", "RESETTING", "DEGRADED"}
=============================================================================
