------------------------ MODULE SessionReaperProofs ------------------------
(***************************************************************************)
(* The composed system is a system of the manager: whatever the sweeps do, *)
(* with a plan made from a listing that is out of date, is something the   *)
(* manager's theorems already allow a background caller to do.  So every   *)
(* theorem about ManagerSpec holds of Spec.  The one about the limits,     *)
(* which needs counting, comes first.                                      *)
(***************************************************************************)
EXTENDS SessionReaper, SessionManagerProofs, FiniteSetTheorems

----------------------------------------------------------------------------
(* Capacity.                                                               *)

\* A row that moves or is deleted does not come to occupy a slot.
LEMMA NoReentry ==
  ASSUME TypeInv, NEW s \in Sessions, Moves(s) \/ Forgets(s)
  PROVE  Occupying' \subseteq Occupying /\ \A o \in Owners : OccupyingOf(o)' \subseteq OccupyingOf(o)
<1>1. row \in [Sessions -> Row]
  BY Zenon DEF TypeInv, ManagerTypeOK
<1>2. PICK r \in Row : /\ row' = [row EXCEPT ![s] = r]
                       /\ r.status \in OccupyingStatuses =>
                            row[s].status \in OccupyingStatuses /\ r.owner = row[s].owner
  BY Zenon DEF Moves, Forgets, Write, Lifecycle!Edges, Lifecycle!LiveStatuses, TerminalStatuses,
     OccupyingStatuses, Statuses
<1> QED BY <1>2 DEF Occupying, OccupyingOf

\* An admitted start adds one row, of its owner.
LEMMA Admission ==
  ASSUME TypeInv, NEW s \in Sessions, Opens(s)
  PROVE  \E o \in Owners \cup {NoOwner} :
           /\ Admits(o)
           /\ Occupying' \subseteq Occupying \cup {s}
           /\ OccupyingOf(o)' \subseteq OccupyingOf(o) \cup {s}
           /\ \A u \in Owners \ {o} : OccupyingOf(u)' \subseteq OccupyingOf(u)
<1>1. row \in [Sessions -> Row]
  BY Zenon DEF TypeInv, ManagerTypeOK
<1>2. PICK r \in Row : Admits(r.owner) /\ row' = [row EXCEPT ![s] = r]
  BY Zenon DEF Opens, Write
<1>3. r.owner \in Owners \cup {NoOwner}
  BY Zenon DEF Row
<1> QED BY <1>2, <1>3 DEF Occupying, OccupyingOf

\* Adding at most one element to a finite set adds at most one to its size.
LEMMA OneMore ==
  ASSUME NEW A, NEW B, NEW x, IsFiniteSet(A), B \subseteq A \cup {x}
  PROVE  Cardinality(B) <= Cardinality(A) + 1
<1>1. IsFiniteSet(A \cup {x}) /\ Cardinality(A \cup {x}) <= Cardinality(A) + 1
  <2>1. Cardinality(A) \in Nat
    BY FS_CardinalityType, Zenon
  <2>2. /\ IsFiniteSet(A \cup {x})
        /\ Cardinality(A \cup {x}) \in {Cardinality(A), Cardinality(A) + 1}
    BY FS_AddElement, Zenon
  <2> QED BY <2>1, <2>2
<1>2. IsFiniteSet(B) /\ Cardinality(B) <= Cardinality(A \cup {x})
  BY <1>1, FS_Subset, Zenon
<1> QED BY <1>1, <1>2, FS_CardinalityType

\* No row step takes the table over a limit.
LEMMA CapacityStep ==
  ASSUME TypeInv, WithinCapacity, RowStep
  PROVE  WithinCapacity'
<1>1. /\ IsFiniteSet(Occupying) /\ Cardinality(Occupying) \in Nat
      /\ \A o : IsFiniteSet(OccupyingOf(o)) /\ Cardinality(OccupyingOf(o)) \in Nat
  <2>1. Occupying \subseteq Sessions /\ \A o : OccupyingOf(o) \subseteq Sessions
    BY Zenon DEF Occupying, OccupyingOf
  <2> QED BY <2>1, ManagerAssumption, FS_Subset, FS_CardinalityType, Zenon
<1>2. MaxOccupying \in Nat /\ \A o \in Owners : PerOwnerLimit(o) \in Nat
  BY ManagerAssumption, Zenon DEF PerOwnerLimit
<1>3. CASE UNCHANGED row
  BY <1>3, Zenon DEF WithinCapacity, Occupying, OccupyingOf
<1>4. ASSUME NEW s \in Sessions, Moves(s) \/ Forgets(s)
      PROVE  WithinCapacity'
  <2>1. /\ Cardinality(Occupying') <= Cardinality(Occupying)
        /\ Cardinality(Occupying') \in Nat
    BY <1>1, <1>4, NoReentry, FS_Subset, FS_CardinalityType
  <2>2. \A o \in Owners : /\ Cardinality(OccupyingOf(o)') <= Cardinality(OccupyingOf(o))
                          /\ Cardinality(OccupyingOf(o)') \in Nat
    BY <1>1, <1>4, NoReentry, FS_Subset, FS_CardinalityType, Zenon
  <2> QED BY <1>1, <1>2, <2>1, <2>2 DEF WithinCapacity, PerOwnerLimit
<1>5. ASSUME NEW s \in Sessions, Opens(s)
      PROVE  WithinCapacity'
  <2>1. PICK o \in Owners \cup {NoOwner} :
           /\ Admits(o)
           /\ Occupying' \subseteq Occupying \cup {s}
           /\ OccupyingOf(o)' \subseteq OccupyingOf(o) \cup {s}
           /\ \A u \in Owners \ {o} : OccupyingOf(u)' \subseteq OccupyingOf(u)
    BY <1>5, Admission, Zenon
  <2>2. Cardinality(Occupying') <= MaxOccupying
    <3>1. Cardinality(Occupying') <= Cardinality(Occupying) + 1
      BY <1>1, <2>1, OneMore, Zenon
    <3>2. IsFiniteSet(Occupying') /\ Cardinality(Occupying') \in Nat
      BY <1>1, <2>1, FS_AddElement, FS_Subset, FS_CardinalityType, Zenon
    <3> QED BY <1>1, <1>2, <2>1, <3>1, <3>2 DEF Admits
  <2>3. ASSUME NEW u \in Owners, PerOwnerLimit(u) > 0
        PROVE  Cardinality(OccupyingOf(u)') <= PerOwnerLimit(u)
    <3>1. CASE u = o
      <4>1. Cardinality(OccupyingOf(u)') <= Cardinality(OccupyingOf(u)) + 1
        BY <1>1, <2>1, OneMore, Zenon
      <4>2. Cardinality(OccupyingOf(u)') \in Nat
        BY <1>1, <2>1, <3>1, FS_AddElement, FS_Subset, FS_CardinalityType, Zenon
      <4>3. Cardinality(OccupyingOf(u)) < PerOwnerLimit(u)
        BY <2>1, <2>3, <3>1 DEF Admits
      <4> QED BY <1>1, <1>2, <4>1, <4>2, <4>3
    <3>2. CASE u # o
      <4>1. /\ Cardinality(OccupyingOf(u)') <= Cardinality(OccupyingOf(u))
            /\ Cardinality(OccupyingOf(u)') \in Nat
        BY <1>1, <2>1, <3>2, FS_Subset, FS_CardinalityType
      <4>2. Cardinality(OccupyingOf(u)) <= PerOwnerLimit(u)
        BY <2>3, Zenon DEF WithinCapacity
      <4> QED BY <1>1, <1>2, <4>1, <4>2
    <3> QED BY <3>1, <3>2, Zenon
  <2> QED BY <2>2, <2>3, Zenon DEF WithinCapacity
<1> QED BY <1>3, <1>4, <1>5, Zenon DEF RowStep

\* An empty table is within both limits.
LEMMA CapacityInit == ManagerInit => WithinCapacity
<1> SUFFICES ASSUME ManagerInit PROVE WithinCapacity
  BY Zenon
<1>1. Occupying = {} /\ \A o : OccupyingOf(o) = {}
  BY Zenon DEF ManagerInit, NoRow, Occupying, OccupyingOf, OccupyingStatuses
<1>2. Cardinality({}) = 0
  BY FS_EmptySet
<1> QED BY <1>1, <1>2, ManagerAssumption DEF WithinCapacity, PerOwnerLimit

\* However many processes start sessions at once, and whatever ends, resets,
\* sweeps and crashes do in between, the occupying rows never exceed
\* MAX_ACTIVE_SESSIONS nor an owner's limit (createWithinLimits, #insertSession).
THEOREM CapacityHolds == ManagerSpec => []WithinCapacity
<1>1. TypeInv /\ [ManagerNext]_managerVars => TypeInv' /\ RowStep
  BY NextStep, Zenon DEF StepOK
<1>2. TypeInv /\ WithinCapacity /\ RowStep => WithinCapacity'
  BY CapacityStep, Zenon
<1> QED BY TypeInit, CapacityInit, <1>1, <1>2, PTL DEF ManagerSpec

----------------------------------------------------------------------------
(* The sweeps.                                                             *)

\* The statuses a session never comes back from.
TornDown == TeardownOwned \cup {"FORGOTTEN"}

\* An idle expiry that can still claim its session compares the activity it saw,
\* and the expiry of a start presumed dead the start's own stamp.
Fenced(status, reason, guard) ==
  \/ status \in TornDown
  \/ /\ reason = "idle" => guard.activity # 0
     /\ reason = "start" => guard.stamp = 1

\* What a plan made from an earlier listing still says about the row.
PlanOK(status, plan) ==
  /\ plan \in Plan
  /\ plan.act = "destroy" => status = "FORGOTTEN"
  /\ plan.act = "forget" => status \in TerminalStatuses \cup {"FORGOTTEN"}
  /\ plan.act \in {"recover", "stopped"} => plan.guard.stamp # 0
  /\ plan.act = "expire" => Fenced(status, plan.reason, plan.guard)

\* A row that exists was stamped, with its first stamp while it is being created
\* and with later ones after that; one that was deleted is gone.
RowOK(s) ==
  /\ row[s].status \in Statuses => row[s].stamp # 0 /\ row[s].activity # 0
  /\ row[s].status = "CREATING" => row[s].stamp = 1
  /\ row[s].status \in LiveStatuses \ {"CREATING"} => row[s].stamp # 1
  /\ row[s].status = "FORGOTTEN" => row[s] = NoRow("FORGOTTEN")

SweepInv ==
  /\ sweep \in [Instances -> Sweep]
  /\ \A i \in Instances, s \in Sessions : PlanOK(row[s].status, sweep[i].plan[s])

OverdueInv == overdue \in SUBSET {s \in Sessions : row[s].status # "UNUSED"}

RowInv == \A s \in Sessions : RowOK(s)

\* What the reaper remembers from one sweep to the next, and the count of faults.
MemoryInv == lostLast \in [Instances -> SUBSET Sessions] /\ faults \in 0..MaxFaults

ReaperInv == TypeInv /\ RowInv /\ SweepInv /\ OverdueInv /\ MemoryInv

----------------------------------------------------------------------------
(* Rows.                                                                   *)

\* A row that changes and stays keeps its stamp or gets the next one.
RowMoved(old, new) ==
  /\ old.status \in Statuses /\ new.status \in Statuses
  /\ old.activity <= new.activity
  /\ \/ new.status = old.status /\ new.stamp = old.stamp
     \/ /\ new.status # old.status /\ new.stamp = old.stamp + 1
        /\ <<old.status, new.status>> \in Lifecycle!Edges

\* What a change of the table leaves of a row.
LEMMA RowKept ==
  ASSUME TypeInv, RowStep, NEW s \in Sessions
  PROVE  \/ row'[s] = row[s]
         \/ row'[s] = NoRow("FORGOTTEN") /\ row[s].status \in TerminalStatuses
         \/ /\ row[s].status = "UNUSED" /\ row'[s].status = "CREATING"
            /\ row'[s].stamp = 1 /\ row'[s].activity = 1
         \/ RowMoved(row[s], row'[s])
<1>1. row \in [Sessions -> Row]
  BY Zenon DEF TypeInv, ManagerTypeOK
<1>2. CASE UNCHANGED row
  BY <1>2, Zenon
<1>3. ASSUME NEW u \in Sessions, Opens(u)
      PROVE  \/ row'[s] = row[s]
             \/ /\ row[s].status = "UNUSED" /\ row'[s].status = "CREATING"
                /\ row'[s].stamp = 1 /\ row'[s].activity = 1
  <2>1. PICK r \in Row : /\ row[u].status = "UNUSED" /\ r.status = "CREATING"
                         /\ r.stamp = 1 /\ r.activity = 1 /\ row' = [row EXCEPT ![u] = r]
    BY <1>3, Zenon DEF Opens, Write
  <2>2. CASE s = u
    <3>1. row'[s] = r
      BY <1>1, <2>1, <2>2, Zenon
    <3> QED BY <2>1
  <2>3. CASE s # u
    <3>1. row'[s] = row[s]
      BY <2>1, <2>3
    <3> QED BY <3>1, Zenon
  <2> QED BY <2>2, <2>3, Zenon
<1>4. ASSUME NEW u \in Sessions, Forgets(u)
      PROVE  \/ row'[s] = row[s]
             \/ row'[s] = NoRow("FORGOTTEN") /\ row[s].status \in TerminalStatuses
  BY <1>1, <1>4, Zenon DEF Forgets, Write
<1>5. ASSUME NEW u \in Sessions, Moves(u)
      PROVE  \/ row'[s] = row[s]
             \/ RowMoved(row[s], row'[s])
  <2>1. PICK r \in Row : RowMoved(row[u], r) /\ row' = [row EXCEPT ![u] = r]
    BY <1>5, Zenon DEF Moves, Write, RowMoved
  <2> QED BY <1>1, <2>1, Zenon
<1> QED BY <1>3, <1>4, <1>5, Zenon DEF RowStep

\* Existing rows stay stamped and deleted rows stay deleted.
LEMMA RowInvStep ==
  ASSUME TypeInv, TypeInv', RowInv, RowStep
  PROVE  RowInv'
<1> SUFFICES ASSUME NEW s \in Sessions PROVE RowOK(s)'
  BY Zenon DEF RowInv
<1>1. row[s].stamp \in Nat /\ row[s].activity \in Nat /\ row'[s].activity \in Nat
  BY Zenon DEF TypeInv, ManagerTypeOK, Row
<1>2. CASE row'[s] = row[s]
  BY <1>2, Zenon DEF RowInv, RowOK
<1>3. CASE row'[s] = NoRow("FORGOTTEN")
  BY <1>3 DEF RowOK, NoRow, Statuses
<1>4. CASE row'[s].status = "CREATING" /\ row'[s].stamp = 1 /\ row'[s].activity = 1
  BY <1>4 DEF RowOK
<1>5. CASE RowMoved(row[s], row'[s])
  <2>1. /\ row'[s].status \in Statuses /\ row[s].stamp # 0 /\ row[s].activity # 0
        /\ row[s].activity <= row'[s].activity
    BY <1>5 DEF RowMoved, RowInv, RowOK
  <2>2. CASE row'[s].status = row[s].status /\ row'[s].stamp = row[s].stamp
    BY <1>1, <2>1, <2>2 DEF RowInv, RowOK, Statuses
  <2>3. CASE row'[s].status # "CREATING" /\ row'[s].stamp = row[s].stamp + 1
    BY <1>1, <2>1, <2>3 DEF RowOK, Statuses
  <2>4. <<row[s].status, "CREATING">> \in Lifecycle!Edges => row[s].status \notin Statuses
    BY Zenon DEF Lifecycle!Edges, Statuses
  <2> QED BY <1>5, <2>2, <2>3, <2>4, Zenon DEF RowMoved
<1> QED BY <1>2, <1>3, <1>4, <1>5, RowKept, Zenon

\* A session that a teardown has claimed, and a finished one, never comes back.
LEMMA TornStays ==
  ASSUME TypeInv, RowStep, NEW s \in Sessions, row[s].status \in TornDown
  PROVE  row'[s].status \in TornDown
<1>1. row[s].status # "UNUSED" /\ NoRow("FORGOTTEN").status = "FORGOTTEN"
  BY Zenon DEF TornDown, TeardownOwned, TerminalStatuses, NoRow
<1>2. CASE RowMoved(row[s], row'[s])
  <2>1. \A to \in Statuses : <<row[s].status, to>> \in Lifecycle!Edges => to \in TornDown
    BY Zenon DEF TornDown, TeardownOwned, TerminalStatuses, Lifecycle!Edges, Lifecycle!LiveStatuses,
       Lifecycle!TerminalStatuses
  <2> QED BY <1>2, <2>1, Zenon DEF RowMoved
<1> QED BY <1>1, <1>2, RowKept, Zenon DEF TornDown

\* A finished or deleted session is never used again.
LEMMA PlanStands ==
  ASSUME TypeInv, RowStep, NEW s \in Sessions, NEW plan, PlanOK(row[s].status, plan)
  PROVE  PlanOK(row'[s].status, plan)
<1>1. row[s].status = "FORGOTTEN" => row'[s].status = "FORGOTTEN"
  BY StampsGrow, Zenon
<1>2. row[s].status \in TerminalStatuses => row'[s].status \in TerminalStatuses \cup {"FORGOTTEN"}
  BY FinishedStays, Zenon
<1>3. \A reason, guard : Fenced(row[s].status, reason, guard) => Fenced(row'[s].status, reason, guard)
  BY TornStays DEF Fenced
<1> QED BY <1>1, <1>2, <1>3, Zenon DEF PlanOK

\* A session past its deadline was once inserted, and stays so.
LEMMA UsedStays ==
  ASSUME TypeInv, RowStep, NEW s \in Sessions, row[s].status # "UNUSED"
  PROVE  row'[s].status # "UNUSED"
<1>1. row[s].status \in Statuses \/ row[s].status = "FORGOTTEN"
  BY Zenon DEF TypeInv, ManagerTypeOK, Row, NoRowStatuses
<1> QED BY <1>1, StampsGrow, Zenon DEF Statuses

----------------------------------------------------------------------------
(* Sweeps.                                                                 *)

\* Nothing is a plan, whatever the row is.
LEMMA NothingOK ==
  /\ Nothing \in Plan /\ Nothing.act = "none"
  /\ \A status : PlanOK(status, Nothing)
<1>1. Nothing \in Plan /\ Nothing.act = "none"
  BY GuardTypes, Zenon DEF Nothing, Do, Plan, Reasons
<1> QED BY <1>1, Zenon DEF PlanOK

\* What a sweep may mean to do with a session is well typed.
LEMMA DoTypes ==
  ASSUME NEW act \in {"none", "resume", "expire", "recover", "reclaim", "destroy",
                      "stopped", "forget"},
         NEW reason \in Reasons, NEW guard \in Guard
  PROVE  /\ Do(act, reason, guard) \in Plan
         /\ Do(act, reason, guard).act = act /\ Do(act, reason, guard).guard = guard
         /\ Do(act, reason, guard).reason = reason
  BY Zenon DEF Do, Plan

\* A sweep whose every plan still stands, in the state it is written in.
LEMMA SweepsStep ==
  ASSUME TypeInv, RowStep, SweepInv, NEW i \in Instances,
         NEW phase \in Phases, NEW plan \in [Sessions -> Plan], NEW seen \in SUBSET Sessions,
         \A s \in Sessions : PlanOK(row[s].status, plan[s]),
         Sweeps(i, phase, plan, seen)
  PROVE  SweepInv'
<1>1. sweep' \in [Instances -> Sweep]
  BY Zenon DEF Sweeps, SweepInv, Sweep
<1>2. ASSUME NEW j \in Instances, NEW s \in Sessions
      PROVE  PlanOK(row'[s].status, sweep'[j].plan[s])
  <2>1. PlanOK(row[s].status, sweep'[j].plan[s])
    BY Zenon DEF Sweeps, SweepInv
  <2> QED BY <2>1, PlanStands, Zenon
<1> QED BY <1>1, <1>2 DEF SweepInv

\* Plans left alone stand.
LEMMA SweepUnchanged ==
  ASSUME TypeInv, RowStep, SweepInv, UNCHANGED sweep
  PROVE  SweepInv'
<1>1. ASSUME NEW j \in Instances, NEW s \in Sessions
      PROVE  PlanOK(row'[s].status, sweep'[j].plan[s])
  BY PlanStands, Zenon DEF SweepInv
<1> QED BY <1>1, Zenon DEF SweepInv

\* A process that starts again has no plans.
LEMMA SweepGone ==
  ASSUME TypeInv, RowStep, SweepInv, NEW i \in Instances,
         sweep' = [sweep EXCEPT ![i] = NoSweep]
  PROVE  SweepInv'
<1>1. NoSweep \in Sweep
  BY NothingOK, Zenon DEF NoSweep, Sweep, Phases
<1>2. \A s \in Sessions : NoSweep.plan[s] = Nothing
  BY Zenon DEF NoSweep
<1>3. sweep' \in [Instances -> Sweep]
  BY <1>1, Zenon DEF SweepInv
<1>4. ASSUME NEW j \in Instances, NEW s \in Sessions
      PROVE  PlanOK(row'[s].status, sweep'[j].plan[s])
  <2>1. CASE j = i
    BY <1>2, <2>1, NothingOK, Zenon DEF SweepInv
  <2>2. CASE j # i
    <3>1. sweep'[j] = sweep[j]
      BY <2>2, Zenon DEF SweepInv
    <3> QED BY <3>1, PlanStands, Zenon DEF SweepInv
  <2> QED BY <2>1, <2>2, Zenon
<1> QED BY <1>3, <1>4, Zenon DEF SweepInv

\* What the sessions part may do with a row it lists.
LEMMA JudgementsOK ==
  ASSUME TypeInv, RowInv, NEW s \in Sessions, NEW plan \in Judgements(s)
  PROVE  PlanOK(row[s].status, plan)
<1>1. /\ row[s].reason \in Reasons /\ row[s].stamp \in Nat /\ row[s].activity \in Nat
      /\ row[s].status \in Statuses => row[s].stamp # 0 /\ row[s].activity # 0
      /\ row[s].status = "CREATING" => row[s].stamp = 1
  BY Zenon DEF TypeInv, ManagerTypeOK, Row, RowInv, RowOK
<1>2. /\ StampGuard(row[s].stamp) \in Guard /\ StampGuard(row[s].stamp).stamp = row[s].stamp
      /\ ActivityGuard(row[s].activity) \in Guard /\ NoGuard \in Guard
      /\ ActivityGuard(row[s].activity).activity = row[s].activity
  BY <1>1, Zenon DEF StampGuard, ActivityGuard, NoGuard, Guard
<1>3. \/ plan = Nothing
      \/ plan = Do("resume", "none", NoGuard)
      \/ plan = Do("expire", row[s].reason, NoGuard) /\ row[s].status = "EXPIRING"
      \/ plan = Do("expire", "lifetime", NoGuard)
      \/ plan = Do("expire", "idle", ActivityGuard(row[s].activity)) /\ row[s].status \in Statuses
      \/ plan = Do("expire", "start", StampGuard(row[s].stamp)) /\ row[s].status = "CREATING"
      \/ plan = Do("recover", "none", StampGuard(row[s].stamp)) /\ row[s].status = "RESETTING"
  BY Zenon DEF Judgements, LiveStatuses, Statuses
<1>4. {"none", "lifetime", "idle", "start"} \subseteq Reasons
  BY Zenon DEF Reasons
<1>5. CASE plan = Nothing
  BY <1>5, NothingOK, Zenon
<1>6. CASE plan # Nothing
  <2>1. /\ plan \in Plan /\ plan.act \in {"resume", "expire", "recover"}
        /\ plan.act = "recover" => plan.guard.stamp # 0
    BY <1>1, <1>2, <1>3, <1>4, <1>6, DoTypes DEF Statuses
  <2>2. ASSUME plan.act = "expire"
        PROVE  Fenced(row[s].status, plan.reason, plan.guard)
    <3>1. "EXPIRING" \in TornDown
      BY Zenon DEF TornDown, TeardownOwned
    <3> QED BY <1>1, <1>2, <1>3, <1>4, <1>6, <3>1, DoTypes DEF Fenced
  <2> QED BY <2>1, <2>2, Zenon DEF PlanOK
<1> QED BY <1>5, <1>6, Zenon

\* What the sandboxes part may do with a row it lists.
LEMMA UnshieldedOK ==
  ASSUME TypeInv, RowInv, OverdueInv, NEW s \in Sessions
  PROVE  PlanOK(row[s].status, Unshielded(s))
<1>1. row[s].status \in Statuses => row[s].stamp # 0
  BY Zenon DEF RowInv, RowOK
<1>2. row[s].stamp \in Nat
  BY Zenon DEF TypeInv, ManagerTypeOK, Row
<1>3. /\ StampGuard(row[s].stamp) \in Guard /\ StampGuard(row[s].stamp).stamp = row[s].stamp
      /\ NoGuard \in Guard /\ "none" \in Reasons
  BY <1>2, Zenon DEF StampGuard, NoGuard, Guard, Reasons
<1>4. \/ Unshielded(s) = Nothing
      \/ Unshielded(s) = Do("reclaim", "none", NoGuard)
      \/ Unshielded(s) = Do("stopped", "none", StampGuard(row[s].stamp)) /\ row[s].status = "ACTIVE"
      \/ Unshielded(s) = Do("destroy", "none", NoGuard) /\ row[s].status = "FORGOTTEN"
  BY DEF Unshielded, OverdueInv, NoRowStatuses
<1>5. CASE Unshielded(s) = Nothing
  BY <1>5, NothingOK, Zenon
<1>6. CASE Unshielded(s) # Nothing
  <2>1. /\ Unshielded(s) \in Plan /\ Unshielded(s).act \in {"reclaim", "stopped", "destroy"}
        /\ Unshielded(s).act = "destroy" => row[s].status = "FORGOTTEN"
        /\ Unshielded(s).act = "stopped" => Unshielded(s).guard.stamp # 0
    BY <1>1, <1>3, <1>4, <1>6, DoTypes DEF Statuses
  <2> QED BY <2>1 DEF PlanOK
<1> QED BY <1>5, <1>6, Zenon

----------------------------------------------------------------------------
(* Every step of the system is a step of the manager, or none.             *)

\* A call the reaper makes is one a background caller may make.
LEMMA SweepStepManages ==
  ASSUME ReaperInv, NEW i \in DOMAIN Reaper, SweepStep(i)
  PROVE  [ManagerNext]_managerVars
<1>1. Reaper[i] \in Tasks /\ i \in Instances
  BY ReaperAssumption, Zenon
<1>2. ASSUME NEW s \in Sessions
      PROVE  PlanOK(row[s].status, sweep[i].plan[s])
  BY <1>1, Zenon DEF ReaperInv, SweepInv
<1>3. CASE SweepBegin(i) \/ ListSessions(i) \/ ListSandboxes(i) \/ RetentionBegin(i) \/ SweepEnd(i)
  BY <1>3, Zenon DEF SweepBegin, ListSessions, ListSandboxes, RetentionBegin, SweepEnd
<1>4. ASSUME NEW s \in Sessions, SweepResumes(i, s)
      PROVE  [ManagerNext]_managerVars
  BY <1>1, <1>4, Zenon DEF SweepResumes, Calls, ManagerNext, Maintenance
<1>5. ASSUME NEW s \in Sessions, SweepExpires(i, s)
      PROVE  [ManagerNext]_managerVars
  <2>1. sweep[i].plan[s].reason \in Reasons /\ sweep[i].plan[s].guard \in Guard
    BY <1>2, Zenon DEF PlanOK, Plan
  <2> QED BY <1>1, <1>5, <2>1, Zenon DEF SweepExpires, Calls, ManagerNext, Maintenance
<1>6. ASSUME NEW s \in Sessions, SweepRecovers(i, s)
      PROVE  [ManagerNext]_managerVars
  <2>1. sweep[i].plan[s].guard.stamp \in Nat \ {0}
    BY <1>2, <1>6, Zenon DEF PlanOK, Plan, Guard, SweepRecovers, TakesUp
  <2> QED BY <1>6, <2>1, Zenon DEF SweepRecovers, ManagerNext, Maintenance
<1>7. ASSUME NEW s \in Sessions, SweepReclaims(i, s)
      PROVE  [ManagerNext]_managerVars
  BY <1>1, <1>7, Zenon DEF SweepReclaims, ManagerNext, Maintenance
<1>8. ASSUME NEW s \in Sessions, SweepDestroys(i, s)
      PROVE  [ManagerNext]_managerVars
  <2>1. row[s].status = "FORGOTTEN"
    BY <1>2, <1>8, Zenon DEF PlanOK, SweepDestroys, TakesUp
  <2> QED BY <1>1, <1>8, <2>1, Zenon DEF SweepDestroys, ManagerNext, Maintenance
<1>9. ASSUME NEW s \in Sessions, Reconcile(i, s)
      PROVE  [ManagerNext]_managerVars
  <2>1. sweep[i].plan[s].guard.stamp \in Nat \ {0}
    BY <1>2, <1>9, Zenon DEF PlanOK, Plan, Guard, Reconcile
  <2> QED BY <1>9, <2>1, Zenon DEF Reconcile, ManagerNext, Maintenance
<1>10. ASSUME NEW s \in Sessions, SweepForgets(i, s)
       PROVE  [ManagerNext]_managerVars
  <2>1. row[s].status \in TerminalStatuses \cup {"FORGOTTEN"}
    BY <1>2, <1>10, Zenon DEF PlanOK, SweepForgets, TakesUp
  <2>2. CASE row[s].status \in TerminalStatuses
    BY <1>10, <2>2, Zenon DEF SweepForgets, ManagerNext, Maintenance
  <2>3. CASE row[s].status = "FORGOTTEN"
    <3>1. row[s] = NoRow("FORGOTTEN") /\ row \in [Sessions -> Row]
      BY <2>3, Zenon DEF ReaperInv, RowInv, RowOK, TypeInv, ManagerTypeOK
    <3>2. row' = row
      BY <1>10, <3>1 DEF SweepForgets, Forget, Write
    <3> QED BY <1>10, <3>2, Zenon DEF SweepForgets, Forget, managerVars
  <2> QED BY <2>1, <2>2, <2>3, Zenon
<1> QED BY <1>3, <1>4, <1>5, <1>6, <1>7, <1>8, <1>9, <1>10, Zenon DEF SweepStep

\* So does the rest of the system.
LEMMA SystemManages ==
  ASSUME ReaperInv, [Next]_vars
  PROVE  [ManagerNext]_managerVars
<1>1. CASE UNCHANGED vars
  BY <1>1, Zenon DEF vars
<1>2. CASE ManagerStep
  BY <1>2, Zenon DEF ManagerStep, ManagerNext, Environment
<1>3. ASSUME NEW i \in Instances, Down(i)
      PROVE  [ManagerNext]_managerVars
  BY <1>3, Zenon DEF Down, ManagerNext, Environment
<1>4. CASE Fault
  BY <1>3, <1>4, Zenon DEF Fault, SweepThrows, SweepSkips, ManagerNext, Environment
<1>5. ASSUME NEW i \in Instances, Exit(i)
      PROVE  [ManagerNext]_managerVars
  BY <1>3, <1>5, Zenon DEF Exit
<1>6. ASSUME NEW s \in Sessions, DeadlinePasses(s)
      PROVE  [ManagerNext]_managerVars
  BY <1>6, Zenon DEF DeadlinePasses
<1> QED BY <1>1, <1>2, <1>4, <1>5, <1>6, SweepStepManages, Zenon DEF Next

----------------------------------------------------------------------------
(* The plans of every sweep stay carried out under a fence that means what *)
(* it meant.                                                               *)

\* A sweep's own steps.
LEMMA SweepStepPlans ==
  ASSUME ReaperInv, RowStep, NEW i \in DOMAIN Reaper, SweepStep(i)
  PROVE  SweepInv'
<1>1. /\ i \in Instances /\ TypeInv /\ SweepInv /\ RowInv /\ OverdueInv
      /\ sweep[i].phase \in Phases /\ sweep[i].plan \in [Sessions -> Plan]
      /\ sweep[i].seen \in SUBSET Sessions
      /\ \A s \in Sessions : PlanOK(row[s].status, sweep[i].plan[s])
  BY ReaperAssumption, Zenon DEF ReaperInv, SweepInv, Sweep
<1>2. ASSUME NEW phase \in Phases, NEW plan, NEW seen \in SUBSET Sessions,
             plan = [s \in Sessions |-> plan[s]],
             \A s \in Sessions : PlanOK(row[s].status, plan[s]),
             Sweeps(i, phase, plan, seen)
      PROVE  SweepInv'
  <2>1. plan \in [Sessions -> Plan]
    BY <1>2 DEF PlanOK
  <2> QED BY <1>1, <1>2, <2>1, SweepsStep, Zenon
<1>3. {"off", "sessions", "listing", "sandboxes", "retention"} = Phases
  BY Zenon DEF Phases
<1>4. CASE SweepBegin(i)
  <2>1. PICK plan \in [Sessions -> UNION {Judgements(s) : s \in Sessions}] :
          /\ \A s \in Sessions : plan[s] \in Judgements(s)
          /\ Sweeps(i, "sessions", plan, sweep[i].seen)
    BY <1>4, Zenon DEF SweepBegin
  <2>2. \A s \in Sessions : PlanOK(row[s].status, plan[s])
    BY <1>1, <2>1, JudgementsOK, Zenon
  <2> QED BY <1>1, <1>2, <1>3, <2>1, <2>2, Zenon
<1>5. CASE ListSessions(i)
  <2> DEFINE plan == [s \in Sessions |-> Unshielded(s)]
  <2>1. Sweeps(i, "listing", plan, sweep[i].seen)
    BY <1>5, Zenon DEF ListSessions
  <2>2. \A s \in Sessions : PlanOK(row[s].status, plan[s])
    BY <1>1, UnshieldedOK, Zenon
  <2>3. plan = [s \in Sessions |-> plan[s]]
    BY Zenon
  <2> HIDE DEF plan
  <2> QED BY <1>1, <1>2, <1>3, <2>1, <2>2, <2>3, Zenon
<1>6. CASE ListSandboxes(i)
  <2>1. PICK some \in SUBSET Sessions :
          Sweeps(i, "sandboxes",
                 [s \in Sessions |-> IF s \in some THEN sweep[i].plan[s] ELSE Nothing],
                 sweep[i].seen)
    <3> DEFINE plan == sweep[i].plan
               found == {s \in Sessions :
                           sandbox[s] \in IF plan[s].act = "stopped" THEN {"stopped"}
                                          ELSE {"present", "stopped"}}
    <3>1. PICK kept \in SUBSET {s \in found : plan[s].act \in {"destroy", "stopped"}} :
            Sweeps(i, "sandboxes",
                   [s \in Sessions |-> IF s \in found \ kept THEN plan[s] ELSE Nothing],
                   sweep[i].seen)
      BY <1>6, Zenon DEF ListSandboxes
    <3>2. found \ kept \in SUBSET Sessions
      BY Zenon
    <3> HIDE DEF found
    <3> QED BY <3>1, <3>2, Zenon
  <2> DEFINE plan == [s \in Sessions |-> IF s \in some THEN sweep[i].plan[s] ELSE Nothing]
  <2>2. \A s \in Sessions : PlanOK(row[s].status, plan[s])
    BY <1>1, NothingOK, Zenon
  <2>3. plan = [s \in Sessions |-> plan[s]]
    BY Zenon
  <2>4. Sweeps(i, "sandboxes", plan, sweep[i].seen)
    BY <2>1, Zenon
  <2> HIDE DEF plan
  <2> QED BY <1>1, <1>2, <1>3, <2>2, <2>3, <2>4, Zenon
<1>7. CASE RetentionBegin(i)
  <2>1. PICK old \in SUBSET {s \in Sessions : row[s].status \in TerminalStatuses} :
          Sweeps(i, "retention",
                 [s \in Sessions |->
                    IF s \in old THEN Do("forget", "none", NoGuard) ELSE Nothing], {})
    BY <1>7, Zenon DEF RetentionBegin
  <2> DEFINE plan == [s \in Sessions |->
                        IF s \in old THEN Do("forget", "none", NoGuard) ELSE Nothing]
  <2>2. \A s \in old : PlanOK(row[s].status, Do("forget", "none", NoGuard))
    BY <2>1, DoTypes, GuardTypes DEF PlanOK, Reasons
  <2>3. \A s \in Sessions : PlanOK(row[s].status, plan[s])
    BY <2>2, NothingOK, Zenon
  <2>4. plan = [s \in Sessions |-> plan[s]]
    BY Zenon
  <2>5. Sweeps(i, "retention", plan, {})
    BY <2>1, Zenon
  <2> HIDE DEF plan
  <2> QED BY <1>2, <1>3, <2>3, <2>4, <2>5
<1>8. CASE SweepEnd(i)
  BY <1>1, <1>8, SweepGone, Zenon DEF SweepEnd
<1>9. ASSUME NEW s \in Sessions, NEW seen \in SUBSET Sessions,
             Sweeps(i, sweep[i].phase, [sweep[i].plan EXCEPT ![s] = Nothing], seen)
      PROVE  SweepInv'
  <2> DEFINE plan == [sweep[i].plan EXCEPT ![s] = Nothing]
  <2>1. \A u \in Sessions : PlanOK(row[u].status, plan[u])
    BY <1>1, NothingOK, Zenon
  <2>2. plan = [u \in Sessions |-> plan[u]]
    BY <1>1, Zenon
  <2>3. Sweeps(i, sweep[i].phase, plan, seen)
    BY <1>9, Zenon
  <2> HIDE DEF plan
  <2> QED BY <1>1, <1>2, <2>1, <2>2, <2>3, Zenon
<1>10. ASSUME NEW s \in Sessions,
              \/ SweepResumes(i, s) \/ SweepExpires(i, s) \/ SweepRecovers(i, s)
              \/ SweepReclaims(i, s) \/ SweepDestroys(i, s) \/ SweepForgets(i, s)
       PROVE  SweepInv'
  BY <1>1, <1>9, <1>10, Zenon DEF SweepResumes, SweepExpires, SweepRecovers, SweepReclaims,
     SweepDestroys, SweepForgets, TakesUp
<1>11. ASSUME NEW s \in Sessions, Reconcile(i, s)
       PROVE  SweepInv'
  <2>1. sweep[i].seen \cup {s} \in SUBSET Sessions
    BY <1>1, Zenon
  <2> QED BY <1>9, <1>11, <2>1, Zenon DEF Reconcile
<1> QED BY <1>4, <1>5, <1>6, <1>7, <1>8, <1>10, <1>11, Zenon DEF SweepStep

\* A sweep that skips what failed has planned nothing new.
LEMMA SkippingPlans ==
  ASSUME ReaperInv, RowStep, NEW i \in DOMAIN Reaper, SweepSkips(i)
  PROVE  SweepInv'
<1> DEFINE without(skipped) == [s \in Sessions |-> IF s \in skipped THEN Nothing
                                                  ELSE sweep[i].plan[s]]
<1>1. /\ i \in Instances /\ TypeInv /\ SweepInv
      /\ sweep[i].plan \in [Sessions -> Plan]
      /\ sweep[i].seen \in SUBSET Sessions /\ lostLast[i] \in SUBSET Sessions
      /\ \A s \in Sessions : PlanOK(row[s].status, sweep[i].plan[s])
  BY ReaperAssumption, Zenon DEF ReaperInv, SweepInv, Sweep, MemoryInv
<1>2. PICK phase \in Phases, skipped, seen \in SUBSET Sessions :
        Sweeps(i, phase, without(skipped), seen)
  <2>1. {"off", "sessions", "listing", "sandboxes", "retention"} = Phases
    BY Zenon DEF Phases
  <2> QED BY <1>1, <2>1, Zenon DEF SweepSkips
<1>3. without(skipped) \in [Sessions -> Plan]
  BY <1>1, NothingOK, Zenon
<1>4. \A s \in Sessions : PlanOK(row[s].status, without(skipped)[s])
  BY <1>1, NothingOK, Zenon
<1> HIDE DEF without
<1> QED BY <1>1, <1>2, <1>3, <1>4, SweepsStep, Zenon

\* A crash, an exit and a failing retention part end the sweep; nothing else of
\* the system touches it.
LEMMA PlansStep ==
  ASSUME ReaperInv, RowStep, [Next]_vars
  PROVE  SweepInv'
<1>1. TypeInv /\ SweepInv
  BY Zenon DEF ReaperInv
<1>2. CASE UNCHANGED sweep
  BY <1>1, <1>2, SweepUnchanged
<1>3. ASSUME NEW i \in Instances, sweep' = [sweep EXCEPT ![i] = NoSweep]
      PROVE  SweepInv'
  BY <1>1, <1>3, SweepGone, Zenon
<1>4. CASE \E i \in DOMAIN Reaper : SweepStep(i)
  BY <1>4, SweepStepPlans, Zenon
<1>5. \/ UNCHANGED sweep
      \/ \E i \in DOMAIN Reaper : SweepStep(i) \/ SweepSkips(i)
      \/ \E i \in Instances : sweep' = [sweep EXCEPT ![i] = NoSweep]
  <2>1. CASE Fault
    BY <2>1, ReaperAssumption, Zenon DEF Fault, Down, SweepThrows
  <2>2. CASE UNCHANGED vars \/ ManagerStep \/ \E s \in Sessions : DeadlinePasses(s)
    BY <2>2, Zenon DEF vars, reaperVars, ManagerStep, DeadlinePasses
  <2> QED BY <2>1, <2>2, Zenon DEF Next, Exit, Down
<1> QED BY <1>2, <1>3, <1>4, <1>5, SkippingPlans, Zenon

\* Only a session that was inserted passes a deadline.
LEMMA OverdueStep ==
  ASSUME ReaperInv, RowStep, [Next]_vars
  PROVE  OverdueInv'
<1>1. overdue' = overdue \/ \E s \in Sessions : DeadlinePasses(s)
  <2>1. CASE Fault
    BY <2>1, Zenon DEF Fault, Down, SweepThrows, SweepSkips
  <2>2. ASSUME NEW i \in DOMAIN Reaper, SweepStep(i)
        PROVE  overdue' = overdue
    BY <2>2, Zenon DEF SweepStep, SweepBegin, ListSessions, ListSandboxes, RetentionBegin, SweepEnd,
       SweepResumes, SweepExpires, SweepRecovers, SweepReclaims, SweepDestroys, Reconcile,
       SweepForgets
  <2>3. CASE UNCHANGED vars \/ ManagerStep
    BY <2>3, Zenon DEF vars, reaperVars, ManagerStep
  <2> QED BY <2>1, <2>2, <2>3, Zenon DEF Next, Exit, Down
<1>2. overdue' \subseteq {s \in Sessions : row[s].status # "UNUSED"}
  BY <1>1, Zenon DEF DeadlinePasses, ReaperInv, OverdueInv
<1>3. \A s \in Sessions : row[s].status # "UNUSED" => row'[s].status # "UNUSED"
  BY UsedStays, Zenon DEF ReaperInv
<1> QED BY <1>2, <1>3, Zenon DEF OverdueInv

\* The reaper remembers sessions, and faults are counted up to their bound.
LEMMA MemoryStep ==
  ASSUME ReaperInv, [Next]_vars
  PROVE  MemoryInv'
<1>0. lostLast \in [Instances -> SUBSET Sessions] /\ faults \in 0..MaxFaults
  BY Zenon DEF ReaperInv, MemoryInv
<1>1. faults' \in 0..MaxFaults /\ (UNCHANGED faults \/ Fault)
  <2>1. CASE Fault
    BY <1>0, <2>1, ReaperAssumption DEF Fault
  <2>2. ASSUME NEW i \in DOMAIN Reaper, SweepStep(i)
        PROVE  faults' = faults
    BY <2>2, Zenon DEF SweepStep, SweepBegin, ListSessions, ListSandboxes, RetentionBegin, SweepEnd,
       SweepResumes, SweepExpires, SweepRecovers, SweepReclaims, SweepDestroys, Reconcile,
       SweepForgets
  <2>3. CASE UNCHANGED vars \/ ManagerStep \/ \E s \in Sessions : DeadlinePasses(s)
    BY <1>0, <2>3, Zenon DEF vars, reaperVars, ManagerStep, DeadlinePasses
  <2>4. CASE UNCHANGED faults
    BY <1>0, <2>4, Zenon
  <2> QED BY <1>0, <2>1, <2>2, <2>3 DEF Next, Exit
<1>2. \/ UNCHANGED lostLast
      \/ \E i \in Instances : \/ lostLast' = [lostLast EXCEPT ![i] = {}]
                              \/ lostLast' = [lostLast EXCEPT ![i] = sweep[i].seen]
  <2>1. CASE Fault
    BY <2>1, ReaperAssumption DEF Fault, Down, SweepThrows, SweepSkips
  <2>2. ASSUME NEW i \in DOMAIN Reaper, SweepStep(i)
        PROVE  \/ UNCHANGED lostLast
               \/ i \in Instances /\ lostLast' = [lostLast EXCEPT ![i] = sweep[i].seen]
    BY <2>2, ReaperAssumption, Zenon DEF SweepStep, SweepBegin, ListSessions, ListSandboxes, RetentionBegin, SweepEnd,
       SweepResumes, SweepExpires, SweepRecovers, SweepReclaims, SweepDestroys, Reconcile,
       SweepForgets
  <2>3. CASE UNCHANGED vars \/ ManagerStep \/ \E s \in Sessions : DeadlinePasses(s)
    BY <2>3, Zenon DEF vars, reaperVars, ManagerStep, DeadlinePasses
  <2> QED BY <2>1, <2>2, <2>3, ReaperAssumption DEF Next, Exit, Down
<1>3. \A i \in Instances : sweep[i].seen \in SUBSET Sessions
  BY Zenon DEF ReaperInv, SweepInv, Sweep
<1> QED BY <1>0, <1>1, <1>2, <1>3, Zenon DEF MemoryInv

----------------------------------------------------------------------------
(* The theorems.                                                           *)

\* With no row and no sweep the invariant holds.
LEMMA ReaperInit == Init => ReaperInv
<1> SUFFICES ASSUME Init PROVE ReaperInv
  BY Zenon
<1>1. TypeInv
  BY TypeInit, Zenon DEF Init
<1>2. RowInv
  BY DEF Init, ManagerInit, RowInv, RowOK, NoRow, Statuses
<1>3. SweepInv
  <2>1. NoSweep \in Sweep /\ \A s \in Sessions : NoSweep.plan[s] = Nothing
    BY NothingOK, Zenon DEF NoSweep, Sweep, Phases
  <2> QED BY <2>1, NothingOK, Zenon DEF Init, SweepInv
<1>4. OverdueInv
  BY Zenon DEF Init, OverdueInv
<1>5. MemoryInv
  BY ReaperAssumption DEF Init, MemoryInv
<1> QED BY <1>1, <1>2, <1>3, <1>4, <1>5, Zenon DEF ReaperInv

\* Every step of the composed system keeps the invariant.
LEMMA ReaperStep ==
  ASSUME ReaperInv, [Next]_vars
  PROVE  ReaperInv' /\ [ManagerNext]_managerVars
<1>1. [ManagerNext]_managerVars
  BY SystemManages, Zenon
<1>2. TypeInv' /\ RowStep
  BY <1>1, NextStep, Zenon DEF StepOK, ReaperInv
<1>3. RowInv'
  BY <1>2, RowInvStep, Zenon DEF ReaperInv
<1> QED BY <1>1, <1>2, <1>3, PlansStep, OverdueStep, MemoryStep, Zenon DEF ReaperInv

\* A sweep acts on what it listed minutes ago, and still every one of its acts is
\* one the manager allows a background caller: it expires and recovers under
\* the fence it read, forgets only what is finished, and destroys only what no
\* row will ever account for again (reaper.ts sweep).
THEOREM SweepsOnlyManage == Spec => ManagerSpec
<1>1. Init => ManagerInit
  BY Zenon DEF Init
<1> QED BY ReaperInit, ReaperStep, <1>1, PTL DEF Spec, ManagerSpec

\* The deployment's and each owner's session limits hold in the whole system
\* (createWithinLimits).
THEOREM SystemCapacity == Spec => []WithinCapacity
BY SweepsOnlyManage, CapacityHolds, PTL

\* The whole system follows the lifecycle types.ts documents.
THEOREM SystemLifecycle == Spec => FollowsLifecycle
BY SweepsOnlyManage, LifecycleHolds, PTL

\* The whole system reports a session closed at most once, as what it was
\* recorded (#teardown, #notifyClosed).
THEOREM SystemClosedOnce == Spec => []ClosedOnce
BY SweepsOnlyManage, ClosedOnceHolds, PTL

\* No sweep, crash or shutdown gives two resets the same claim (#rebuild,
\* recoverInterruptedReset).
THEOREM SystemOneClaimHolder == Spec => []OneClaimHolder
BY SweepsOnlyManage, OneClaimHolderHolds, PTL

\* The composed system is type-correct.
THEOREM SystemTypeCorrect == Spec => []TypeOK
<1>1. ReaperInv => TypeOK
  BY Zenon DEF TypeOK, ReaperInv, TypeInv, SweepInv, OverdueInv, MemoryInv
<1> QED BY ReaperInit, ReaperStep, <1>1, PTL DEF Spec
=============================================================================
