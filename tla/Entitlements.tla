----------------------------- MODULE Entitlements -----------------------------
(***************************************************************************)
(* Lab access of one account: the rows that grant it, what they evaluate   *)
(* to, and how each change is planned against all rows at once.            *)
(*                                                                         *)
(* An account has at most one row per source, operator and billing.  A row *)
(* is [status, start, end, kind]; end is Never for a grant without expiry. *)
(* Plans are left out: no decision below depends on the plan of a row.     *)
(***************************************************************************)
EXTENDS Integers

CONSTANTS None,
          Never   \* an instant after every other

Sources == {"operator", "billing"}

Row(status, start, end, kind) == [status |-> status, start |-> start, end |-> end, kind |-> kind]

\* What a row may hold.
EntitlementRows == [status : {"ACTIVE", "SUSPENDED", "REVOKED"}, start : Int, end : Int,
                    kind : {"TRIAL", "STANDARD", "BETA", "SUBSCRIPTION"}]

Rows(rows) == {g \in Sources : rows[g] # None}

Suspended(rows) == \E g \in Rows(rows) : rows[g].status = "SUSPENDED"

\* evaluateAccess(...).active: the window is half open.
Open(row, now) ==
  /\ row # None
  /\ row.status = "ACTIVE"
  /\ row.start <= now /\ now < row.end

\* evaluateAccount(...).active
HasAccess(rows, now) == ~Suspended(rows) /\ \E g \in Rows(rows) : Open(rows[g], now)
-----------------------------------------------------------------------------
PlanTrialAgain(rows, now, days, hadTrial) ==
  IF \/ Suspended(rows) \/ HasAccess(rows, now)
     \/ hadTrial /\ (rows["operator"] = None \/ now < rows["operator"].end)
  THEN rows
  ELSE [rows EXCEPT !["operator"] = Row("ACTIVE", now, now + days, "TRIAL")]

(***************************************************************************)
(* planMutation and planAccountMutation for an operator.  Each plan is     *)
(* the rows afterwards, or the rows as they are when the request is        *)
(* refused or already in effect.                                           *)
(***************************************************************************)
PlanTrial(rows, now, days, hadTrial) ==
  IF Suspended(rows) \/ hadTrial \/ HasAccess(rows, now)
  THEN rows
  ELSE [rows EXCEPT !["operator"] = Row("ACTIVE", now, now + days, "TRIAL")]

\* Whether a grant may name this kind, or none, over the operator's row.
KindAllowed(row, kind) ==
  LET onTrial == row # None /\ row.kind = "TRIAL" /\ row.status # "REVOKED"
  IN  CASE kind = "TRIAL" -> onTrial
        [] kind = None    -> ~onTrial
        [] OTHER          -> TRUE

PlanGrant(rows, now, kind, from, until) ==
  LET row  == rows["operator"]
      keep == row # None /\ row.status # "REVOKED"
      start == CASE from # None -> from
                 [] from = None /\ row # None /\ row.status = "ACTIVE" -> row.start
                 [] OTHER -> now
  IN  IF Suspended(rows) \/ ~KindAllowed(row, kind) \/ until <= start \/ until <= now
      THEN rows
      ELSE [rows EXCEPT !["operator"] =
              Row("ACTIVE", start, until,
                  IF kind # None THEN kind ELSE IF keep THEN row.kind ELSE "STANDARD")]

PlanRevoke(rows) ==
  IF rows["operator"] = None THEN rows
  ELSE [rows EXCEPT !["operator"].status = "REVOKED"]

\* Suspend and restore are about the account: they change every row they can.
Restatus(rows, from, to) ==
  [g \in Sources |-> IF g \in Rows(rows) /\ rows[g].status = from
                     THEN [rows[g] EXCEPT !.status = to] ELSE rows[g]]

PlanSuspend(rows) == Restatus(rows, "ACTIVE", "SUSPENDED")

PlanRestore(rows) == Restatus(rows, "SUSPENDED", "ACTIVE")
-----------------------------------------------------------------------------
Earliest(S) == CHOOSE x \in S : \A y \in S : x <= y

Latest(S) == CHOOSE x \in S : \A y \in S : x >= y

SyncLiftsSuspension(rows, sync, now) ==
  LET row == rows["billing"]
      start == Earliest({row.start, sync.start, now - 1})
      end == Latest({start + 1, Earliest({sync.end, now})})
  IN  CASE sync.active -> [rows EXCEPT !["billing"] =
                             Row("ACTIVE", sync.start, sync.end, sync.kind)]
        [] ~sync.active /\ row = None -> rows
        [] OTHER -> [rows EXCEPT !["billing"] = Row(row.status, start, end, sync.kind)]

SyncKeepsWindow(rows, sync, now) ==
  LET row == rows["billing"]
  IN  CASE sync.active -> [rows EXCEPT !["billing"] =
             Row(IF Suspended(rows) THEN "SUSPENDED" ELSE "ACTIVE",
                 sync.start, sync.end, sync.kind)]
        [] ~sync.active /\ row = None -> rows
        [] OTHER -> [rows EXCEPT !["billing"] = Row(row.status, sync.start, sync.end, sync.kind)]

(***************************************************************************)
(* SYNC: billing's row brought in line with the provider.  It is born, and *)
(* stays, suspended while the account is.  When nothing entitles any more  *)
(* its window is closed so that it covers no instant from now on.          *)
(***************************************************************************)
PlanSync(rows, sync, now) ==
  LET row == rows["billing"]
      start == Earliest({row.start, sync.start, now - 1})
      end == Latest({start + 1, Earliest({sync.end, now})})
  IN  CASE sync.active -> [rows EXCEPT !["billing"] =
             Row(IF Suspended(rows) THEN "SUSPENDED" ELSE "ACTIVE",
                 sync.start, sync.end, sync.kind)]
        [] ~sync.active /\ row = None -> rows
        [] OTHER -> [rows EXCEPT !["billing"] = Row(row.status, start, end, sync.kind)]
=============================================================================
