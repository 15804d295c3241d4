----------------------------- MODULE MCSessions -----------------------------
(***************************************************************************)
(* Instances of SessionReaper for TLC.                                     *)
(***************************************************************************)
EXTENDS SessionReaper, TLC

CONSTANTS s1, s2, s3, ann, i1, i2, t1, t2, r1

\* One process that serves requests and sweeps.
OneProcess == [t \in Tasks |-> i1]
SweepsItself == i1 :> r1

\* A process that only serves requests, and one that also sweeps.
TwoProcesses == [t \in Tasks |-> IF t = t1 THEN i1 ELSE i2]
SecondSweeps == i2 :> r1

NoSweeps == [i \in {} |-> r1]

Containers == [s \in Sessions |-> "container"]
Namespaces == [s \in Sessions |-> "namespace"]

NoPlan == [o \in Owners |-> 0]
OneLab == [o \in Owners |-> 1]

RequestSymmetry == Permutations({t1, t2})
AllSymmetry == Permutations({t1, t2}) \cup Permutations({s1, s2, s3})

\* What the rest of a behaviour depends on.  Of a finished session only its
\* status counts: nothing reads the stamps, reason or owner of a row that ended
\* or failed, no sweep plans a fence for one, and nothing but retention changes
\* it (FollowsLifecycle).  A close event already delivered is not read either.
UnfinishedRows ==
  [s \in Sessions |-> IF row[s].status \in TerminalStatuses
                      THEN NoRow(row[s].status) ELSE row[s]]

UnfinishedView ==
  <<UnfinishedRows, sandbox, task, resetsInFlight, stopping, handover, reaperVars>>

\* The same for sweeps without a shutdown, which alone reads resetsInFlight.  A
\* fence that does not match its row never will: the stamps of a row only grow.
Fence(s, guard) ==
  [stamp    |-> IF guard.stamp \in {0, row[s].stamp} THEN guard.stamp ELSE "stale",
   activity |-> IF guard.activity \in {0, row[s].activity} THEN guard.activity ELSE "stale"]

FencedView ==
  <<UnfinishedRows,
    [t \in Tasks |-> IF task[t].s \in Sessions
                     THEN [task[t] EXCEPT !.guard = Fence(task[t].s, @)] ELSE task[t]],
    [i \in Instances |-> <<sweep[i].phase, sweep[i].seen,
                          [s \in Sessions |-> [sweep[i].plan[s] EXCEPT !.guard = Fence(s, @)]]>>],
    sandbox, stopping, handover, closed, lostLast, overdue, faults>>
=============================================================================
