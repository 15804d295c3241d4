------------------------ MODULE SessionManagerProofs ------------------------
(***************************************************************************)
(* Theorems about SessionManager, for every set of sessions, students,     *)
(* processes and concurrent calls, and every limit.                        *)
(*                                                                         *)
(* The background callers of ManagerSpec may ask for any teardown under any*)
(* fence, so the theorems hold whatever a sweep judged and whenever it     *)
(* acts on it.  Each rests on an account of how a step changes the table   *)
(* (RowStep).  That the limits hold is in SessionReaperProofs.             *)
(***************************************************************************)
EXTENDS SessionManager, TLAPS

----------------------------------------------------------------------------
(* Type correctness.                                                       *)

\* Every call past its insert, and every start and reset, serves a session.
Bound(call) ==
  call.pc \notin {"idle", "insert"} \/ call.op # "call" => call.s \in Sessions

TasksBound == \A t \in Tasks : Bound(task[t])

TypeInv == ManagerTypeOK /\ TasksBound

\* The part of it that a call's own progress touches.
TaskTypeOK ==
  /\ task \in [Tasks -> Task]
  /\ TasksBound
  /\ resetsInFlight \in [Instances -> [Sessions -> Nat]]

\* A transition writes a well-formed row that keeps its owner.
LEMMA MovedRow ==
  ASSUME row \in [Sessions -> Row],
         NEW s \in Sessions, NEW to \in Statuses, NEW reason \in Reasons,
         NEW active \in BOOLEAN
  PROVE  /\ Moved(s, to, reason, active) \in Row
         /\ Moved(s, to, reason, active).status = to
         /\ Moved(s, to, reason, active).owner = row[s].owner
         /\ Moved(s, to, reason, active).stamp =
              IF row[s].status = to THEN row[s].stamp ELSE row[s].stamp + 1
         /\ row[s].activity <= Moved(s, to, reason, active).activity
<1>1. row[s] \in Row
  BY Zenon
<1>2. /\ row[s].stamp \in Nat /\ row[s].activity \in Nat
      /\ row[s].owner \in Owners \cup {NoOwner}
  BY Zenon DEF Row
<1> QED BY DEF Moved, Row

\* The fences a call can hold are well typed.
LEMMA GuardTypes == NoGuard \in Guard /\ \A n \in Nat : StampGuard(n) \in Guard
  BY Zenon DEF NoGuard, StampGuard, Guard

\* A new call, or one that becomes another, is well-formed.
LEMMA CallTypes ==
  ASSUME NEW pc \in PCs, NEW op \in {"call", "start", "reset"},
         NEW s \in Sessions \cup {NoSession}, NEW mode \in Modes, NEW reason \in Reasons,
         NEW guard \in Guard,
         s \in Sessions \/ (pc \in {"idle", "insert"} /\ op = "call")
  PROVE  /\ Call(pc, op, s, mode, reason, guard) \in Task
         /\ Bound(Call(pc, op, s, mode, reason, guard))
  BY Zenon DEF Call, Task, Bound

\* A task that becomes a well typed, bound task leaves all tasks so.
LEMMA BecomesTypes ==
  ASSUME TaskTypeOK, NEW t \in Tasks, NEW call \in Task, Bound(call), Becomes(t, call)
  PROVE  task' \in [Tasks -> Task] /\ TasksBound'
  BY DEF TaskTypeOK, TasksBound, Becomes

\* A call that has returned is a well typed task with nothing to be bound to.
LEMMA IdleTaskTypes == IdleTask \in Task /\ Bound(IdleTask)
  BY CallTypes, GuardTypes DEF IdleTask, PCs, Modes, Reasons

\* A call that goes on keeps its session.
LEMMA GotoTypes ==
  ASSUME TaskTypeOK, NEW t \in Tasks, NEW pc \in PCs, task[t].s \in Sessions,
         Goto(t, pc)
  PROVE  TaskTypeOK'
  BY DEF TaskTypeOK, TasksBound, Bound, Goto, Task

\* A call that returns leaves an idle task.
LEMMA ReturnTypes ==
  ASSUME TaskTypeOK, NEW t \in Tasks, Return(t)
  PROVE  TaskTypeOK'
<1>1. resetsInFlight' \in [Instances -> [Sessions -> Nat]]
  BY Zenon DEF TaskTypeOK, Return
<1> QED BY <1>1, IdleTaskTypes, BecomesTypes, Zenon DEF Return, TaskTypeOK

\* A destroy leaves some state of the sandbox.
LEMMA DestroyTypes ==
  ASSUME sandbox \in [Sessions -> SandboxStates], NEW s \in Sessions,
         NEW gone \in BOOLEAN, Destroy(s, gone)
  PROVE  sandbox' \in [Sessions -> SandboxStates]
  BY Zenon DEF Destroy, SandboxStates

\* So does a build, finished or not.
LEMMA BuildTypes ==
  ASSUME sandbox \in [Sessions -> SandboxStates], NEW s \in Sessions,
         Build(s) \/ BuildFails(s)
  PROVE  sandbox' \in [Sessions -> SandboxStates]
  BY Zenon DEF Build, BuildFails, SandboxStates

----------------------------------------------------------------------------
(* How a step may change the table.                                        *)

\* A start is admitted.
Opens(s) ==
  \E r \in Row : /\ row[s].status = "UNUSED" /\ r.status = "CREATING"
                 /\ r.stamp = 1 /\ r.activity = 1 /\ Admits(r.owner)
                 /\ Write(s, r)

\* A row moves along the lifecycle, or keeps its status and its stamp; what was
\* recorded of its activity stays.
Moves(s) ==
  \E r \in Row :
    /\ row[s].status \in Statuses /\ r.status \in Statuses /\ r.owner = row[s].owner
    /\ row[s].activity <= r.activity
    /\ \/ r.status = row[s].status /\ r.stamp = row[s].stamp
       \/ /\ r.status # row[s].status /\ r.stamp = row[s].stamp + 1
          /\ <<row[s].status, r.status>> \in Lifecycle!Edges
    /\ Write(s, r)

\* A finished row is deleted.
Forgets(s) ==
  \E r \in Row : /\ row[s].status \in TerminalStatuses /\ r.status = "FORGOTTEN"
                 /\ r = NoRow("FORGOTTEN") /\ Write(s, r)

RowStep == UNCHANGED row \/ \E s \in Sessions : Opens(s) \/ Moves(s) \/ Forgets(s)

\* What is shown of every action.
StepOK == TypeInv' /\ RowStep

\* A conditional write along an edge of the lifecycle is such a change.
LEMMA TransitionStep ==
  ASSUME TypeInv, NEW s \in Sessions, NEW to \in Statuses, NEW reason \in Reasons,
         NEW active \in BOOLEAN, row[s].status \in Statuses,
         to = row[s].status \/ <<row[s].status, to>> \in Lifecycle!Edges,
         Transition(s, to, reason, active)
  PROVE  row' \in [Sessions -> Row] /\ RowStep
<1> DEFINE r == Moved(s, to, reason, active)
<1>1. row \in [Sessions -> Row]
  BY Zenon DEF TypeInv, ManagerTypeOK
<1>2. /\ r \in Row /\ r.status = to /\ r.owner = row[s].owner
      /\ r.stamp = IF row[s].status = to THEN row[s].stamp ELSE row[s].stamp + 1
      /\ row[s].activity <= r.activity
  BY <1>1, MovedRow
<1>3. Write(s, r)
  BY Zenon DEF Transition
<1> HIDE DEF r
<1>4. Moves(s)
  BY <1>2, <1>3, Zenon DEF Moves
<1>5. row' \in [Sessions -> Row]
  BY <1>1, <1>2, <1>3, Zenon DEF Write
<1> QED BY <1>4, <1>5, Zenon DEF RowStep

\* The edges the actions take.
LEMMA EdgesTaken ==
  /\ \A from \in LiveStatuses : /\ <<from, "ENDING">> \in Lifecycle!Edges
                                /\ <<from, "EXPIRING">> \in Lifecycle!Edges
  /\ \A from \in ResettableStatuses : <<from, "RESETTING">> \in Lifecycle!Edges
  /\ <<"CREATING", "ACTIVE">> \in Lifecycle!Edges
  /\ <<"CREATING", "FAILED">> \in Lifecycle!Edges
  /\ <<"RESETTING", "ACTIVE">> \in Lifecycle!Edges
  /\ <<"RESETTING", "DEGRADED">> \in Lifecycle!Edges
  /\ <<"ACTIVE", "DEGRADED">> \in Lifecycle!Edges
  /\ <<"ENDING", "ENDED">> \in Lifecycle!Edges
  /\ <<"EXPIRING", "EXPIRED">> \in Lifecycle!Edges
  BY Zenon DEF Lifecycle!Edges, Lifecycle!LiveStatuses, LiveStatuses, ResettableStatuses

\* A call past its insert serves a session.
LEMMA Serving ==
  ASSUME TypeInv, NEW t \in Tasks, task[t].pc \notin {"idle", "insert"}
  PROVE  /\ TaskTypeOK
         /\ task[t].s \in Sessions /\ task[t].guard \in Guard
         /\ task[t].reason \in Reasons /\ task[t].mode \in Modes
         /\ row \in [Sessions -> Row] /\ row[task[t].s].reason \in Reasons
         /\ sandbox \in [Sessions -> SandboxStates]
<1>1. task[t] \in Task /\ Bound(task[t]) /\ TaskTypeOK
  BY Zenon DEF TypeInv, ManagerTypeOK, TaskTypeOK, TasksBound
<1>2. task[t].s \in Sessions
  BY <1>1, Zenon DEF Bound
<1>3. row \in [Sessions -> Row] /\ sandbox \in [Sessions -> SandboxStates]
  BY Zenon DEF TypeInv, ManagerTypeOK
<1>4. row[task[t].s] \in Row
  BY <1>2, <1>3
<1> QED BY <1>1, <1>2, <1>3, Zenon DEF Task, Row

\* A step of a call that touches nothing else.
LEMMA Assemble ==
  ASSUME TypeInv, TaskTypeOK', RowStep, row' \in [Sessions -> Row],
         sandbox' \in [Sessions -> SandboxStates], UNCHANGED <<stopping, handover, closed>>
  PROVE  StepOK
  BY Zenon DEF StepOK, TypeInv, ManagerTypeOK, TaskTypeOK

\* One that leaves the table alone.
LEMMA AssembleRead ==
  ASSUME TypeInv, TaskTypeOK', sandbox' \in [Sessions -> SandboxStates],
         UNCHANGED <<row, stopping, handover, closed>>
  PROVE  StepOK
<1>1. RowStep /\ row' \in [Sessions -> Row]
  BY Zenon DEF RowStep, TypeInv, ManagerTypeOK
<1> QED BY <1>1, Assemble, Zenon

----------------------------------------------------------------------------
(* start and what follows it.                                              *)

\* start() before its row exists writes no row.
LEMMA StartStep ==
  ASSUME TypeInv, NEW t \in Tasks, Start(t)
  PROVE  StepOK
<1> DEFINE call == Call("insert", "call", NoSession, "none", "none", NoGuard)
<1>1. call \in Task /\ Bound(call)
  BY CallTypes, GuardTypes DEF PCs, Modes, Reasons
<1>2. TaskTypeOK /\ Becomes(t, call)
  BY Zenon DEF TypeInv, ManagerTypeOK, TaskTypeOK, Start
<1>3. task' \in [Tasks -> Task] /\ TasksBound'
  BY <1>1, <1>2, BecomesTypes, Zenon
<1> QED BY <1>3, Zenon DEF StepOK, RowStep, TypeInv, ManagerTypeOK, Start

\* #insertSession adds exactly one admitted CREATING row, or none.
LEMMA InsertStep ==
  ASSUME TypeInv, NEW t \in Tasks, Insert(t)
  PROVE  StepOK
<1>1. TaskTypeOK
  BY Zenon DEF TypeInv, ManagerTypeOK, TaskTypeOK
<1>2. CASE Becomes(t, IdleTask) /\ UNCHANGED row
  <2>1. task' \in [Tasks -> Task] /\ TasksBound'
    BY <1>1, <1>2, IdleTaskTypes, BecomesTypes, Zenon
  <2> QED BY <1>2, <2>1, Zenon DEF StepOK, RowStep, TypeInv, ManagerTypeOK, Insert
<1>3. ASSUME NEW o \in Owners \cup {NoOwner}, NEW s \in Sessions,
             Admits(o), row[s].status = "UNUSED", Write(s, NewRow(o)),
             Becomes(t, Call("create", "start", s, "none", "none", StampGuard(1)))
      PROVE  StepOK
  <2>1. /\ NewRow(o) \in Row /\ NewRow(o).status = "CREATING"
        /\ NewRow(o).stamp = 1 /\ NewRow(o).activity = 1 /\ NewRow(o).owner = o
    BY Zenon DEF NewRow, Row, Statuses, Reasons
  <2>2. Opens(s)
    BY <1>3, <2>1, Zenon DEF Opens
  <2>3. row' \in [Sessions -> Row]
    BY <1>3, <2>1, Zenon DEF TypeInv, ManagerTypeOK, Write
  <2> DEFINE call == Call("create", "start", s, "none", "none", StampGuard(1))
  <2>4. call \in Task /\ Bound(call)
    BY CallTypes, GuardTypes DEF PCs, Modes, Reasons
  <2>5. task' \in [Tasks -> Task] /\ TasksBound'
    BY <1>1, <1>3, <2>4, BecomesTypes, Zenon
  <2> QED BY <2>2, <2>3, <2>5, Zenon DEF StepOK, RowStep, TypeInv, ManagerTypeOK, Insert
<1> QED BY <1>2, <1>3, Zenon DEF Insert

\* The build of a start writes no row.
LEMMA CreateStep ==
  ASSUME TypeInv, NEW t \in Tasks, Create(t)
  PROVE  StepOK
<1>1. task[t].pc \notin {"idle", "insert"}
  BY Zenon DEF Create, At
<1>2. sandbox' \in [Sessions -> SandboxStates]
  BY <1>1, Serving, BuildTypes, Zenon DEF Create
<1>3. TaskTypeOK'
  BY <1>1, Serving, GotoTypes, Zenon DEF Create, PCs
<1> QED BY <1>2, <1>3, AssembleRead, Zenon DEF Create

\* A start's final write is CREATING to ACTIVE or nothing.
LEMMA ActivateStep ==
  ASSUME TypeInv, NEW t \in Tasks, Activate(t)
  PROVE  StepOK
<1>1. task[t].pc \notin {"idle", "insert"}
  BY Zenon DEF Activate, At
<1>2. TaskTypeOK'
  BY <1>1, Serving, GotoTypes, ReturnTypes, Zenon DEF Activate, PCs
<1>3. RowStep /\ row' \in [Sessions -> Row]
  <2>1. CASE UNCHANGED row
    BY <1>1, <2>1, Serving, Zenon DEF RowStep
  <2>2. CASE /\ Matches(task[t].s, {"CREATING"}, NoGuard)
             /\ Transition(task[t].s, "ACTIVE", row[task[t].s].reason, TRUE)
    BY <1>1, <2>2, Serving, EdgesTaken, TransitionStep, Zenon DEF Matches, Statuses
  <2> QED BY <2>1, <2>2, Zenon DEF Activate
<1> QED BY <1>1, <1>2, <1>3, Serving, Assemble, Zenon DEF Activate

\* Removing what a failed start built writes no row.
LEMMA CleanupStep ==
  ASSUME TypeInv, NEW t \in Tasks, Cleanup(t)
  PROVE  StepOK
<1>1. task[t].pc \notin {"idle", "insert"}
  BY Zenon DEF Cleanup, At
<1>2. sandbox' \in [Sessions -> SandboxStates]
  BY <1>1, Serving, DestroyTypes, Zenon DEF Cleanup
<1>3. TaskTypeOK'
  BY <1>1, Serving, GotoTypes, Zenon DEF Cleanup, PCs
<1> QED BY <1>2, <1>3, AssembleRead, Zenon DEF Cleanup

\* #failSession moves CREATING to FAILED or nothing.
LEMMA FailStep ==
  ASSUME TypeInv, NEW t \in Tasks, Fail(t)
  PROVE  StepOK
<1>1. task[t].pc \notin {"idle", "insert"}
  BY Zenon DEF Fail, At
<1>2. TaskTypeOK'
  BY <1>1, Serving, GotoTypes, ReturnTypes, Zenon DEF Fail, PCs
<1>3. RowStep /\ row' \in [Sessions -> Row]
  <2>1. CASE UNCHANGED row
    BY <1>1, <2>1, Serving, Zenon DEF RowStep
  <2>2. CASE /\ Matches(task[t].s, {"CREATING"}, NoGuard)
             /\ Transition(task[t].s, "FAILED", "failure", FALSE)
    BY <1>1, <2>2, Serving, EdgesTaken, TransitionStep, Zenon DEF Matches, Statuses, Reasons
  <2> QED BY <2>1, <2>2, Zenon DEF Fail
<1> QED BY <1>1, <1>2, <1>3, Serving, Assemble, Zenon DEF Fail

\* A start or reset that lost its session writes no row while discarding.
LEMMA DiscardStep ==
  ASSUME TypeInv, NEW t \in Tasks, Discard(t) \/ Discarding(t)
  PROVE  StepOK
<1>1. task[t].pc \notin {"idle", "insert"}
  BY Zenon DEF Discard, Discarding, At
<1>2. sandbox' \in [Sessions -> SandboxStates]
  BY <1>1, Serving, DestroyTypes, Zenon DEF Discard, Discarding
<1>3. TaskTypeOK'
  BY <1>1, Serving, GotoTypes, ReturnTypes, Zenon DEF Discard, Discarding, AfterDiscard, PCs
<1> QED BY <1>2, <1>3, AssembleRead, Zenon DEF Discard, Discarding

\* Finishing the teardown that took a start's session only begins a call.
LEMMA LostStep ==
  ASSUME TypeInv, NEW t \in Tasks, Lost(t)
  PROVE  StepOK
<1>1. task[t].pc \notin {"idle", "insert"}
  BY Zenon DEF Lost, At
<1> DEFINE call(mode) == Call("claim", "start", task[t].s, mode, row[task[t].s].reason, NoGuard)
<1>2. call("resume") \in Task /\ Bound(call("resume"))
  BY <1>1, Serving, CallTypes, GuardTypes, Zenon DEF PCs, Modes
<1>3. call("finish") \in Task /\ Bound(call("finish"))
  BY <1>1, Serving, CallTypes, GuardTypes, Zenon DEF PCs, Modes
<1>4. \/ Return(t)
      \/ Becomes(t, call("resume")) /\ UNCHANGED resetsInFlight
      \/ Becomes(t, call("finish")) /\ UNCHANGED resetsInFlight
  BY Zenon DEF Lost
<1> HIDE DEF call
<1>5. TaskTypeOK'
  BY <1>1, <1>2, <1>3, <1>4, Serving, BecomesTypes, ReturnTypes, Zenon DEF TaskTypeOK
<1> QED BY <1>1, <1>5, Serving, AssembleRead, Zenon DEF Lost

----------------------------------------------------------------------------
(* reset and its recovery.                                                 *)

\* reset() before its claim writes no row.
LEMMA ResetStep ==
  ASSUME TypeInv, NEW t \in Tasks, NEW s \in Sessions,
         Reset(t, s) \/ DestroySandbox(t, s)
  PROVE  StepOK
<1> DEFINE call1 == Call("rclaim", "call", s, "none", "none", NoGuard)
           call2 == Call("reclaim", "call", s, "none", "none", NoGuard)
<1>1. call1 \in Task /\ Bound(call1)
  BY CallTypes, GuardTypes DEF PCs, Modes, Reasons
<1>2. call2 \in Task /\ Bound(call2)
  BY CallTypes, GuardTypes DEF PCs, Modes, Reasons
<1>3. TaskTypeOK /\ (Becomes(t, call1) \/ Becomes(t, call2))
  BY Zenon DEF TypeInv, ManagerTypeOK, TaskTypeOK, Reset, DestroySandbox
<1> HIDE DEF call1, call2
<1>4. task' \in [Tasks -> Task] /\ TasksBound'
  BY <1>1, <1>2, <1>3, BecomesTypes, Zenon
<1> QED BY <1>4, Zenon DEF StepOK, RowStep, TypeInv, ManagerTypeOK, Reset, DestroySandbox

\* A reset's claim moves ACTIVE or DEGRADED to RESETTING or nothing.
LEMMA ClaimResetStep ==
  ASSUME TypeInv, NEW t \in Tasks, ClaimReset(t)
  PROVE  StepOK
<1>1. task[t].pc \notin {"idle", "insert"}
  BY Zenon DEF ClaimReset, At
<1>2. CASE Return(t) /\ UNCHANGED row
  <2>1. TaskTypeOK'
    BY <1>1, <1>2, Serving, ReturnTypes, Zenon
  <2> QED BY <1>1, <1>2, <2>1, Serving, AssembleRead, Zenon DEF ClaimReset
<1>3. CASE ~(Return(t) /\ UNCHANGED row)
  <2> DEFINE s == task[t].s
             claimed == Moved(s, "RESETTING", row[s].reason, TRUE)
             call == Call("purge", "reset", s, "none", "none", StampGuard(claimed.stamp))
  <2>1. /\ Matches(s, ResettableStatuses, NoGuard) /\ Write(s, claimed)
        /\ Becomes(t, call)
        /\ resetsInFlight' = [resetsInFlight EXCEPT ![Host[t]][s] = claimed.stamp]
    BY <1>3, Zenon DEF ClaimReset
  <2>2. claimed \in Row
    BY <1>1, Serving, MovedRow, Zenon DEF Statuses
  <2>3. RowStep /\ row' \in [Sessions -> Row]
    <3>1. Transition(s, "RESETTING", row[s].reason, TRUE)
      BY <2>1, Zenon DEF Transition
    <3>2. /\ row[s].status \in Statuses /\ "RESETTING" \in Statuses
          /\ <<row[s].status, "RESETTING">> \in Lifecycle!Edges
      BY <2>1, EdgesTaken, Zenon DEF Matches, Statuses, ResettableStatuses
    <3> QED BY <1>1, <3>1, <3>2, Serving, TransitionStep, Zenon
  <2>4. claimed.stamp \in Nat
    BY <2>2, Zenon DEF Row
  <2>5. call \in Task /\ Bound(call)
    <3> HIDE DEF claimed
    <3>1. StampGuard(claimed.stamp) \in Guard
      BY <2>4, GuardTypes, Zenon
    <3>2. s \in Sessions
      BY <1>1, Serving, Zenon
    <3> QED BY <3>1, <3>2, CallTypes DEF PCs, Modes, Reasons
  <2>6. resetsInFlight' \in [Instances -> [Sessions -> Nat]]
    BY <2>1, <2>4, Zenon DEF TypeInv, ManagerTypeOK
  <2>7. TaskTypeOK'
    BY <1>1, <2>1, <2>5, <2>6, Serving, BecomesTypes, Zenon DEF TaskTypeOK
  <2> QED BY <1>1, <2>3, <2>7, Serving, Assemble, Zenon DEF ClaimReset
<1> QED BY <1>2, <1>3, Zenon

\* The provider's part of a reset writes no row.
LEMMA ProviderResetStep ==
  ASSUME TypeInv, NEW t \in Tasks, Purge(t) \/ Rebuild(t)
  PROVE  StepOK
<1>1. task[t].pc \notin {"idle", "insert"}
  BY Zenon DEF Purge, Rebuild, At
<1>2. sandbox' \in [Sessions -> SandboxStates]
  <2>1. CASE Purge(t)
    BY <1>1, <2>1, Serving, DestroyTypes, Zenon DEF Purge, SandboxStates, TypeInv, ManagerTypeOK
  <2>2. CASE Rebuild(t)
    BY <1>1, <2>2, Serving, BuildTypes, Zenon DEF Rebuild
  <2> QED BY <2>1, <2>2, Zenon
<1>3. TaskTypeOK'
  BY <1>1, Serving, GotoTypes, Zenon DEF Purge, Rebuild, PCs
<1> QED BY <1>2, <1>3, AssembleRead, Zenon DEF Purge, Rebuild

\* The end of a reset moves its own claim to ACTIVE or DEGRADED, or nothing.
LEMMA ReleaseStep ==
  ASSUME TypeInv, NEW t \in Tasks, Release(t) \/ Degrade(t)
  PROVE  StepOK
<1>1. task[t].pc \notin {"idle", "insert"}
  BY Zenon DEF Release, Degrade, At
<1>2. TaskTypeOK'
  BY <1>1, Serving, GotoTypes, ReturnTypes, Zenon DEF Release, Degrade, PCs
<1>3. RowStep /\ row' \in [Sessions -> Row]
  <2> DEFINE s == task[t].s
  <2>1. CASE UNCHANGED row
    BY <1>1, <2>1, Serving, Zenon DEF RowStep
  <2>2. CASE /\ Matches(s, {"RESETTING"}, task[t].guard)
             /\ Transition(s, "ACTIVE", row[s].reason, TRUE)
    BY <1>1, <2>2, Serving, EdgesTaken, TransitionStep, Zenon DEF Matches, Statuses
  <2>3. CASE /\ Matches(s, {"RESETTING"}, task[t].guard)
             /\ Transition(s, "DEGRADED", "failure", TRUE)
    BY <1>1, <2>3, Serving, EdgesTaken, TransitionStep, Zenon DEF Matches, Statuses, Reasons
  <2> QED BY <2>1, <2>2, <2>3, Zenon DEF Release, Degrade
<1> QED BY <1>1, <1>2, <1>3, Serving, Assemble, Zenon DEF Release, Degrade

\* Recovering a reset moves the fenced claim to DEGRADED or nothing.
LEMMA RecoverStep ==
  ASSUME TypeInv, NEW s \in Sessions, NEW stamp \in Nat,
         RecoverInterruptedReset(s, stamp) \/ MarkSandboxStopped(s, stamp)
  PROVE  StepOK
<1>1. RowStep /\ row' \in [Sessions -> Row]
  BY EdgesTaken, TransitionStep, Zenon DEF RecoverInterruptedReset, MarkSandboxStopped, Matches,
     Statuses, Reasons
<1> QED BY <1>1, Zenon DEF StepOK, TypeInv, ManagerTypeOK, TasksBound, RecoverInterruptedReset,
           MarkSandboxStopped

----------------------------------------------------------------------------
(* Teardowns.                                                              *)

\* A teardown before its claim writes no row.
LEMMA TeardownStep ==
  ASSUME TypeInv, NEW t \in Tasks, NEW s \in Sessions, NEW mode \in Modes,
         NEW reason \in Reasons, NEW guard \in Guard, Teardown(t, s, mode, reason, guard)
  PROVE  StepOK
<1> DEFINE call(pc) == Call(pc, "call", s, mode, reason, guard)
<1>1. /\ call("defer") \in Task /\ Bound(call("defer"))
      /\ call("claim") \in Task /\ Bound(call("claim"))
  BY CallTypes, Zenon DEF PCs
<1>2. TaskTypeOK /\ (Becomes(t, call("defer")) \/ Becomes(t, call("claim")))
  BY Zenon DEF TypeInv, ManagerTypeOK, TaskTypeOK, Teardown
<1> HIDE DEF call
<1>3. task' \in [Tasks -> Task] /\ TasksBound'
  BY <1>1, <1>2, BecomesTypes, Zenon
<1> QED BY <1>3, Zenon DEF StepOK, RowStep, TypeInv, ManagerTypeOK, Teardown

\* The claim of a teardown is an edge, or finds the teardown already in flight.
LEMMA ClaimEdges ==
  ASSUME NEW mode \in Modes, NEW from \in Claimable(mode)
  PROVE  /\ from \in Statuses /\ InProgress(mode) \in Statuses
         /\ from = InProgress(mode) \/ <<from, InProgress(mode)>> \in Lifecycle!Edges
  BY EdgesTaken, Zenon DEF Claimable, InProgress, Statuses, LiveStatuses

\* A teardown's claim moves a live row to ENDING or EXPIRING or nothing.
LEMMA ClaimStep ==
  ASSUME TypeInv, NEW t \in Tasks, Claim(t) \/ Defer(t)
  PROVE  StepOK
<1>1. task[t].pc \notin {"idle", "insert"}
  BY Zenon DEF Claim, Defer, At
<1>2. TaskTypeOK'
  BY <1>1, Serving, GotoTypes, ReturnTypes, Zenon DEF Claim, Defer, PCs
<1>3. RowStep /\ row' \in [Sessions -> Row]
  <2> DEFINE s == task[t].s
             to == InProgress(task[t].mode)
  <2>1. CASE UNCHANGED row
    BY <1>1, <2>1, Serving, Zenon DEF RowStep
  <2>2. CASE /\ Matches(s, Claimable(task[t].mode), task[t].guard)
             /\ Transition(s, to, task[t].reason, FALSE)
    <3>1. /\ to \in Statuses /\ row[s].status \in Statuses
          /\ row[s].status = to \/ <<row[s].status, to>> \in Lifecycle!Edges
      BY <1>1, <2>2, Serving, ClaimEdges, Zenon DEF Matches
    <3> QED BY <1>1, <2>2, <3>1, Serving, TransitionStep, Zenon
  <2>3. CASE /\ Matches(s, {"CREATING"}, task[t].guard)
             /\ Transition(s, to, task[t].reason, FALSE)
    <3>1. /\ to \in Statuses /\ row[s].status \in Statuses
          /\ <<row[s].status, to>> \in Lifecycle!Edges
      BY <2>3, EdgesTaken, Zenon DEF Matches, InProgress, Statuses, LiveStatuses
    <3> QED BY <1>1, <2>3, <3>1, Serving, TransitionStep, Zenon
  <2> QED BY <2>1, <2>2, <2>3, Zenon DEF Claim, Defer
<1> QED BY <1>1, <1>2, <1>3, Serving, Assemble, Zenon DEF Claim, Defer

\* The destroy of a claimed session writes no row.
LEMMA DestroyStep ==
  ASSUME TypeInv, NEW t \in Tasks, DestroyClaimed(t) \/ Reclaim(t)
  PROVE  StepOK
<1>1. task[t].pc \notin {"idle", "insert"}
  BY Zenon DEF DestroyClaimed, Reclaim, At
<1>2. sandbox' \in [Sessions -> SandboxStates]
  BY <1>1, Serving, DestroyTypes, Zenon DEF DestroyClaimed, Reclaim
<1>3. TaskTypeOK'
  BY <1>1, Serving, GotoTypes, ReturnTypes, Zenon DEF DestroyClaimed, Reclaim, PCs
<1> QED BY <1>2, <1>3, AssembleRead, Zenon DEF DestroyClaimed, Reclaim

\* A finished teardown moves ENDING to ENDED or EXPIRING to EXPIRED, or nothing.
LEMMA RecordStep ==
  ASSUME TypeInv, NEW t \in Tasks, Record(t)
  PROVE  StepOK
<1>1. task[t].pc \notin {"idle", "insert"}
  BY Zenon DEF Record, At
<1>2. TaskTypeOK'
  BY <1>1, Serving, GotoTypes, ReturnTypes, Zenon DEF Record, PCs
<1>3. RowStep /\ row' \in [Sessions -> Row]
  <2> DEFINE s == task[t].s
             to == Done(task[t].mode)
  <2>1. CASE UNCHANGED row
    BY <1>1, <2>1, Serving, Zenon DEF RowStep
  <2>2. CASE /\ Matches(s, {InProgress(task[t].mode)}, NoGuard)
             /\ Transition(s, to, task[t].reason, FALSE)
    <3>1. /\ to \in Statuses /\ row[s].status \in Statuses
          /\ <<row[s].status, to>> \in Lifecycle!Edges
      BY <2>2, EdgesTaken, Zenon DEF Matches, InProgress, Done, Statuses
    <3> QED BY <1>1, <2>2, <3>1, Serving, TransitionStep, Zenon
  <2> QED BY <2>1, <2>2, Zenon DEF Record
<1> QED BY <1>1, <1>2, <1>3, Serving, Assemble, Zenon DEF Record

\* Reporting a close writes no row.
LEMMA NotifyStep ==
  ASSUME TypeInv, NEW t \in Tasks, NotifyClosed(t)
  PROVE  StepOK
<1>1. task[t].pc \notin {"idle", "insert"}
  BY Zenon DEF NotifyClosed, At
<1>2. TaskTypeOK'
  BY <1>1, Serving, ReturnTypes, Zenon DEF NotifyClosed
<1>3. closed' \in [Sessions -> Seq({"ENDED", "EXPIRED"})]
  BY <1>1, Serving DEF NotifyClosed, Done, TypeInv, ManagerTypeOK
<1> QED BY <1>2, <1>3, Zenon DEF StepOK, RowStep, TypeInv, ManagerTypeOK, TaskTypeOK, NotifyClosed

----------------------------------------------------------------------------
(* The surroundings, and every step.                                       *)

\* Activity, shutdown, crashes, faults and the substrate keep the invariant.
LEMMA EnvironmentStep ==
  ASSUME TypeInv, Environment
  PROVE  StepOK
<1> USE DEF TypeInv, ManagerTypeOK
<1>1. ASSUME NEW s \in Sessions, TouchActivity(s)
      PROVE  StepOK
  <2>1. row[s].status \in Statuses /\ row[s].reason \in Reasons
    BY <1>1, Zenon DEF TouchActivity, ActivityStatuses, Statuses, Row
  <2>2. RowStep /\ row' \in [Sessions -> Row]
    BY <1>1, <2>1, TransitionStep, Zenon DEF TouchActivity
  <2> QED BY <1>1, <2>2, Zenon DEF StepOK, TasksBound, TouchActivity
<1>2. ASSUME NEW s \in Sessions, SandboxStops(s) \/ SandboxVanishes(s)
      PROVE  StepOK
  BY <1>2, Zenon DEF StepOK, RowStep, TasksBound, SandboxStops, SandboxVanishes, SandboxStates
<1>3. ASSUME NEW i \in Instances, InterruptInFlight(i)
      PROVE  StepOK
  <2> DEFINE starts == {[op |-> "start", s |-> task[t].s, stamp |-> 1] :
                          t \in {t \in Tasks : Host[t] = i /\ task[t].op = "start"}}
             resets == {[op |-> "reset", s |-> s, stamp |-> resetsInFlight[i][s]] :
                          s \in {s \in Sessions : resetsInFlight[i][s] > 0}}
  <2>1. resets \subseteq HandoverWrite
    BY DEF HandoverWrite
  <2>2. starts \subseteq HandoverWrite
    BY DEF HandoverWrite, TasksBound, Bound
  <2>3. handover' = [handover EXCEPT ![i] = starts \cup resets]
    BY <1>3, Zenon DEF InterruptInFlight
  <2> HIDE DEF starts, resets
  <2>4. handover' \in [Instances -> SUBSET HandoverWrite]
    BY <2>1, <2>2, <2>3, Zenon
  <2> QED BY <1>3, <2>4, Zenon DEF StepOK, RowStep, TasksBound, InterruptInFlight
<1>4. ASSUME NEW i \in Instances, HandOver(i)
      PROVE  StepOK
  <2>1. PICK w \in handover[i] :
          /\ handover' = [handover EXCEPT ![i] = @ \ {w}]
          /\ \/ /\ Matches(w.s, {"CREATING"}, StampGuard(w.stamp))
                /\ Transition(w.s, "EXPIRING", "start", FALSE)
             \/ /\ Matches(w.s, {"RESETTING"}, StampGuard(w.stamp))
                /\ Transition(w.s, "DEGRADED", "failure", TRUE)
             \/ UNCHANGED row
    BY <1>4, Zenon DEF HandOver
  <2>2. w \in HandoverWrite /\ w.s \in Sessions
    BY DEF HandoverWrite
  <2>3. RowStep /\ row' \in [Sessions -> Row]
    <3>1. CASE UNCHANGED row
      BY <3>1, Zenon DEF RowStep
    <3>2. CASE /\ Matches(w.s, {"CREATING"}, StampGuard(w.stamp))
               /\ Transition(w.s, "EXPIRING", "start", FALSE)
      BY <2>2, <3>2, EdgesTaken, TransitionStep, Zenon DEF Matches, Statuses, Reasons, LiveStatuses
    <3>3. CASE /\ Matches(w.s, {"RESETTING"}, StampGuard(w.stamp))
               /\ Transition(w.s, "DEGRADED", "failure", TRUE)
      BY <2>2, <3>3, EdgesTaken, TransitionStep, Zenon DEF Matches, Statuses, Reasons
    <3> QED BY <2>1, <3>1, <3>2, <3>3, Zenon
  <2>4. handover' \in [Instances -> SUBSET HandoverWrite]
    BY <2>1, Zenon
  <2> QED BY <1>4, <2>3 DEF StepOK, TasksBound, HandOver
<1>5. ASSUME NEW i \in Instances, Crash(i)
      PROVE  StepOK
  <2>1. task' \in [Tasks -> Task] /\ TasksBound'
    BY <1>5, IdleTaskTypes, Zenon DEF Crash, TasksBound
  <2>2. /\ resetsInFlight' \in [Instances -> [Sessions -> Nat]]
        /\ stopping' \in [Instances -> BOOLEAN]
        /\ handover' \in [Instances -> SUBSET HandoverWrite]
    BY <1>5, Zenon DEF Crash
  <2> QED BY <1>5, <2>1, <2>2, Zenon DEF StepOK, RowStep, Crash
<1>6. ASSUME NEW t \in Tasks, StoreError(t)
      PROVE  StepOK
  <2>1. TaskTypeOK'
    BY <1>6, ReturnTypes, Zenon DEF StoreError, TaskTypeOK
  <2> QED BY <1>6, <2>1, AssembleRead, Zenon DEF StoreError
<1> QED BY <1>1, <1>2, <1>3, <1>4, <1>5, <1>6, Zenon DEF Environment

\* Every request keeps the invariant and is a row step.
LEMMA RequestStep ==
  ASSUME TypeInv, NEW t \in Tasks, Request(t)
  PROVE  StepOK
<1>1. CASE Start(t)
  BY <1>1, StartStep, Zenon
<1>2. ASSUME NEW s \in Sessions, Reset(t, s)
      PROVE  StepOK
  BY <1>2, ResetStep, Zenon
<1>3. ASSUME NEW s \in Sessions, End(t, s) \/ EndByOperator(t, s)
      PROVE  StepOK
  <2>1. row[s].reason \in Reasons
    BY Zenon DEF TypeInv, ManagerTypeOK, Row
  <2> QED BY <1>3, <2>1, TeardownStep, GuardTypes, Zenon DEF End, EndByOperator, ResumeAbandonedEnd,
             Modes, Reasons
<1> QED BY <1>1, <1>2, <1>3, Zenon DEF Request

\* Everything a sweep asks of the manager keeps the invariant and is a row step.
LEMMA MaintenanceStep ==
  ASSUME TypeInv, Maintenance
  PROVE  StepOK
<1>1. ASSUME NEW t \in Tasks, NEW s \in Sessions, NEW reason \in Reasons,
             NEW guard \in Guard, Expire(t, s, reason, guard)
      PROVE  StepOK
  BY <1>1, TeardownStep, Zenon DEF Expire, Modes
<1>2. ASSUME NEW t \in Tasks, NEW s \in Sessions, ResumeAbandonedEnd(t, s)
      PROVE  StepOK
  <2>1. row[s].reason \in Reasons
    BY Zenon DEF TypeInv, ManagerTypeOK, Row
  <2> QED BY <1>2, <2>1, TeardownStep, GuardTypes, Zenon DEF ResumeAbandonedEnd, Modes
<1>3. ASSUME NEW t \in Tasks, NEW s \in Sessions, DestroySandbox(t, s)
      PROVE  StepOK
  BY <1>3, ResetStep, Zenon
<1>4. ASSUME NEW s \in Sessions, NEW stamp \in Nat,
             RecoverInterruptedReset(s, stamp) \/ MarkSandboxStopped(s, stamp)
      PROVE  StepOK
  BY <1>4, RecoverStep, Zenon
<1>5. ASSUME NEW s \in Sessions, row[s].status \in TerminalStatuses, Forget(s)
      PROVE  StepOK
  <2>1. NoRow("FORGOTTEN") \in Row /\ NoRow("FORGOTTEN").status = "FORGOTTEN"
    BY Zenon DEF NoRow, Row, NoRowStatuses, Reasons
  <2>2. Forgets(s)
    BY <1>5, <2>1, Zenon DEF Forgets, Forget
  <2>3. row' \in [Sessions -> Row]
    BY <1>5, <2>1, Zenon DEF Forget, Write, TypeInv, ManagerTypeOK
  <2> QED BY <1>5, <2>2, <2>3, Zenon DEF StepOK, RowStep, TypeInv, ManagerTypeOK, TasksBound, Forget
<1> QED BY <1>1, <1>2, <1>3, <1>4, <1>5, Zenon DEF Maintenance, ReclaimSandbox

\* Every step of a task keeps the invariant and is a row step.
LEMMA TaskStepStep ==
  ASSUME TypeInv, NEW t \in Tasks, TaskStep(t)
  PROVE  StepOK
  BY InsertStep, CreateStep, ActivateStep, CleanupStep, FailStep, DiscardStep, LostStep,
     ClaimResetStep, ProviderResetStep, ReleaseStep, ClaimStep, DestroyStep, RecordStep, NotifyStep,
     Zenon DEF TaskStep

\* Every step keeps the types and changes at most one row, in one of three ways.
LEMMA NextStep ==
  ASSUME TypeInv, [ManagerNext]_managerVars
  PROVE  StepOK
<1>1. CASE UNCHANGED managerVars
  BY <1>1, Zenon DEF managerVars, StepOK, RowStep, TypeInv, ManagerTypeOK, TasksBound
<1>2. CASE ManagerNext
  BY <1>2, TaskStepStep, RequestStep, EnvironmentStep, MaintenanceStep, Zenon DEF ManagerNext
<1> QED BY <1>1, <1>2, Zenon

\* The empty table satisfies the invariant.
LEMMA TypeInit == ManagerInit => TypeInv
<1> SUFFICES ASSUME ManagerInit PROVE TypeInv
  BY Zenon
<1>1. NoRow("UNUSED") \in Row
  BY Zenon DEF NoRow, Row, NoRowStatuses, Reasons
<1>2. task \in [Tasks -> Task] /\ TasksBound
  BY IdleTaskTypes, Zenon DEF ManagerInit, TasksBound
<1> QED BY <1>1, <1>2 DEF ManagerInit, TypeInv, ManagerTypeOK, SandboxStates

\* The table, the sandboxes and every call in flight stay well-formed, whatever
\* requests, sweeps, faults and crashes interleave.
THEOREM TypeCorrect == ManagerSpec => []ManagerTypeOK
<1>1. TypeInv /\ [ManagerNext]_managerVars => TypeInv'
  BY NextStep, Zenon DEF StepOK
<1>2. TypeInv => ManagerTypeOK
  BY Zenon DEF TypeInv
<1> QED BY TypeInit, <1>1, <1>2, PTL DEF ManagerSpec

----------------------------------------------------------------------------
(* The lifecycle.                                                          *)

\* The status column, which is what the lifecycle is about.
Status == [s \in Sessions |-> row[s].status]

\* Every change of the table is one move of the documented lifecycle.
LEMMA LifecycleStep ==
  ASSUME TypeInv, RowStep
  PROVE  [Lifecycle!Next]_Status
<1>1. row \in [Sessions -> Row]
  BY Zenon DEF TypeInv, ManagerTypeOK
<1>2. CASE UNCHANGED row
  BY <1>2 DEF Status
<1>3. ASSUME NEW s \in Sessions, NEW r \in Row, row' = [row EXCEPT ![s] = r],
             <<row[s].status, r.status>> \in Lifecycle!Edges
      PROVE  Lifecycle!Next
  <2>1. r.status \in Lifecycle!Statuses \cup Lifecycle!NoRowStatuses
    BY Zenon DEF Row, Statuses, NoRowStatuses, Lifecycle!Statuses, Lifecycle!NoRowStatuses
  <2>2. Status' = [Status EXCEPT ![s] = r.status] /\ Status[s] = row[s].status
    BY <1>1, <1>3, Zenon DEF Status
  <2> QED BY <1>3, <2>1, <2>2, Zenon DEF Lifecycle!Next, Lifecycle!Move, Status
<1>4. ASSUME NEW s \in Sessions, Opens(s)
      PROVE  Lifecycle!Next
  <2>1. PICK r \in Row : /\ row[s].status = "UNUSED" /\ r.status = "CREATING"
                         /\ row' = [row EXCEPT ![s] = r]
    BY <1>4, Zenon DEF Opens, Write
  <2>2. <<row[s].status, r.status>> \in Lifecycle!Edges
    BY <2>1, Zenon DEF Lifecycle!Edges
  <2> QED BY <1>3, <2>1, <2>2, Zenon
<1>5. ASSUME NEW s \in Sessions, Forgets(s)
      PROVE  Lifecycle!Next
  <2>1. PICK r \in Row : /\ row[s].status \in TerminalStatuses /\ r.status = "FORGOTTEN"
                         /\ row' = [row EXCEPT ![s] = r]
    BY <1>5, Zenon DEF Forgets, Write
  <2>2. <<row[s].status, r.status>> \in Lifecycle!Edges
    BY <2>1, Zenon DEF Lifecycle!Edges, Lifecycle!TerminalStatuses, TerminalStatuses
  <2> QED BY <1>3, <2>1, <2>2, Zenon
<1>6. ASSUME NEW s \in Sessions, Moves(s)
      PROVE  Lifecycle!Next \/ Status' = Status
  <2>1. PICK r \in Row : /\ \/ r.status = row[s].status
                            \/ <<row[s].status, r.status>> \in Lifecycle!Edges
                         /\ row' = [row EXCEPT ![s] = r]
    BY <1>6, Zenon DEF Moves, Write
  <2>2. CASE r.status = row[s].status
    BY <1>1, <2>1, <2>2, Zenon DEF Status
  <2> QED BY <1>3, <2>1, <2>2, Zenon
<1> QED BY <1>2, <1>4, <1>5, <1>6, Zenon DEF RowStep

\* The manager implements the documented lifecycle: every status change of a
\* call, a background caller, a shutdown or a crash is one of its edges, one
\* session at a time (types.ts; transition in both stores).
THEOREM LifecycleHolds == ManagerSpec => FollowsLifecycle
<1>1. ManagerInit => Lifecycle!Init
  BY DEF ManagerInit, NoRow, Lifecycle!Init
<1>2. TypeInv /\ [ManagerNext]_managerVars => TypeInv' /\ [Lifecycle!Next]_Status
  BY NextStep, LifecycleStep, Zenon DEF StepOK
<1>3. TypeInv /\ [ManagerNext]_managerVars
      => TypeInv' /\ [Lifecycle!Next]_([s \in Sessions |-> row[s].status])
  BY <1>2, Zenon DEF Status
<1> QED BY TypeInit, <1>1, <1>3, PTL DEF ManagerSpec, FollowsLifecycle, Lifecycle!Spec

----------------------------------------------------------------------------
(* Which steps deliver a close event, and which take a reset claim.        *)

\* Nobody comes to deliver an event, or to hold a reset claim, by this step.
Keeps(u) ==
  /\ task'[u].pc = "notify" => task'[u] = task[u]
  /\ task'[u].op = "reset" => /\ task[u].op = "reset" /\ task'[u].s = task[u].s
                              /\ task'[u].guard = task[u].guard

Quiet == closed' = closed /\ \A u \in Tasks : Keeps(u)

\* A call that moves to its next await touches no other task.
LEMMA GotoKeeps ==
  ASSUME TypeInv, NEW t \in Tasks, NEW pc, pc # "notify", Goto(t, pc)
  PROVE  \A u \in Tasks : Keeps(u)
  BY DEF Goto, Keeps

\* A task that changes touches no other task.
LEMMA BecomesKeeps ==
  ASSUME TypeInv, NEW t \in Tasks, NEW call, call.pc # "notify", call.op # "reset",
         Becomes(t, call)
  PROVE  \A u \in Tasks : Keeps(u)
  BY Zenon DEF TypeInv, ManagerTypeOK, Becomes, Keeps

\* A call that begins touches no other task.
LEMMA CallKeeps ==
  ASSUME TypeInv, NEW t \in Tasks, NEW pc, NEW op, NEW s, NEW mode, NEW reason, NEW guard,
         pc # "notify", op # "reset", Becomes(t, Call(pc, op, s, mode, reason, guard))
  PROVE  \A u \in Tasks : Keeps(u)
  BY BecomesKeeps, Zenon DEF Call

\* A call that returns touches no other task.
LEMMA ReturnKeeps ==
  ASSUME TypeInv, NEW t \in Tasks, Return(t)
  PROVE  \A u \in Tasks : Keeps(u)
  BY CallKeeps, Zenon DEF Return, IdleTask

\* A step of a call that neither claims a reset nor closes a session is quiet.
LEMMA QuietTaskStep ==
  ASSUME TypeInv, NEW t \in Tasks,
         TaskStep(t), ~Record(t), ~NotifyClosed(t), ~ClaimReset(t)
  PROVE  Quiet
<1>1. CASE Insert(t)
  BY <1>1, CallKeeps, Zenon DEF Insert, Quiet, IdleTask
<1>2. CASE Create(t) \/ Cleanup(t) \/ Purge(t) \/ Rebuild(t)
  BY <1>2, GotoKeeps, Zenon DEF Create, Cleanup, Purge, Rebuild, Quiet
<1>3. CASE Activate(t) \/ Fail(t) \/ Release(t) \/ Degrade(t)
  BY <1>3, GotoKeeps, ReturnKeeps, Zenon DEF Activate, Fail, Release, Degrade, Quiet
<1>4. CASE Discard(t) \/ Discarding(t)
  BY <1>4, GotoKeeps, ReturnKeeps, Zenon DEF Discard, Discarding, AfterDiscard, Quiet
<1>5. CASE Lost(t)
  BY <1>5, CallKeeps, ReturnKeeps, Zenon DEF Lost, Quiet
<1>6. CASE Defer(t) \/ Claim(t) \/ DestroyClaimed(t) \/ Reclaim(t)
  BY <1>6, GotoKeeps, ReturnKeeps, Zenon DEF Defer, Claim, DestroyClaimed, Reclaim, Quiet
<1> QED BY <1>1, <1>2, <1>3, <1>4, <1>5, <1>6, Zenon DEF TaskStep

\* A teardown that begins is quiet.
LEMMA QuietTeardown ==
  ASSUME TypeInv, NEW t \in Tasks, NEW s, NEW mode, NEW reason, NEW guard,
         Teardown(t, s, mode, reason, guard)
  PROVE  Quiet
<1> DEFINE pc == IF Defers(mode) /\ row[s].status = "CREATING" THEN "defer" ELSE "claim"
<1>1. Becomes(t, Call(pc, "call", s, mode, reason, guard)) /\ closed' = closed
  BY Zenon DEF Teardown
<1>2. pc # "notify"
  BY Zenon
<1> HIDE DEF pc
<1> QED BY <1>1, <1>2, CallKeeps, Zenon DEF Quiet

\* A request that begins is quiet.
LEMMA QuietRequest ==
  ASSUME TypeInv, NEW t \in Tasks, Request(t)
  PROVE  Quiet
<1>1. CASE Start(t)
  BY <1>1, CallKeeps, Zenon DEF Start, Quiet
<1>2. ASSUME NEW s \in Sessions, Reset(t, s)
      PROVE  Quiet
  BY <1>2, CallKeeps, Zenon DEF Reset, Quiet
<1>3. ASSUME NEW s \in Sessions, End(t, s) \/ EndByOperator(t, s)
      PROVE  Quiet
  BY <1>3, QuietTeardown, Zenon DEF End, EndByOperator, ResumeAbandonedEnd
<1> QED BY <1>1, <1>2, <1>3, Zenon DEF Request

\* What a sweep asks of the manager is quiet.
LEMMA QuietMaintenance ==
  ASSUME TypeInv, Maintenance
  PROVE  Quiet
<1>1. ASSUME UNCHANGED <<task, closed>>
      PROVE  Quiet
  BY <1>1, Zenon DEF Quiet, Keeps
<1>2. ASSUME NEW t \in Tasks, NEW s \in Sessions, DestroySandbox(t, s)
      PROVE  Quiet
  BY <1>2, CallKeeps, Zenon DEF DestroySandbox, Quiet
<1>3. ASSUME NEW t \in Tasks, NEW s \in Sessions, NEW reason, NEW guard,
             Expire(t, s, reason, guard) \/ ResumeAbandonedEnd(t, s)
      PROVE  Quiet
  BY <1>3, QuietTeardown, Zenon DEF Expire, ResumeAbandonedEnd
<1> QED BY <1>1, <1>2, <1>3, Zenon DEF Maintenance, ReclaimSandbox, RecoverInterruptedReset,
           MarkSandboxStopped, Forget

\* Steps outside any call are quiet.
LEMMA QuietEnvironment ==
  ASSUME TypeInv, Environment
  PROVE  Quiet
<1>1. ASSUME UNCHANGED <<task, closed>>
      PROVE  Quiet
  BY <1>1, Zenon DEF Quiet, Keeps
<1>2. ASSUME NEW i \in Instances, Crash(i)
      PROVE  Quiet
  BY <1>2, Zenon DEF Crash, Quiet, Keeps, IdleTask, Call
<1>3. ASSUME NEW t \in Tasks, StoreError(t)
      PROVE  Quiet
  BY <1>3, ReturnKeeps DEF StoreError, Quiet
<1> QED BY <1>1, <1>2, <1>3, Zenon DEF Environment, TouchActivity, SandboxStops, SandboxVanishes,
           InterruptInFlight, HandOver

\* Only three kinds of step are not quiet.
LEMMA QuietStep ==
  ASSUME TypeInv, [ManagerNext]_managerVars
  PROVE  Quiet \/ \E t \in Tasks : Record(t) \/ NotifyClosed(t) \/ ClaimReset(t)
<1>1. CASE UNCHANGED managerVars
  BY <1>1, Zenon DEF managerVars, Quiet, Keeps
<1>2. CASE ManagerNext
  BY <1>2, QuietTaskStep, QuietRequest, QuietMaintenance, QuietEnvironment, Zenon DEF ManagerNext
<1> QED BY <1>1, <1>2, Zenon

----------------------------------------------------------------------------
(* The close event.                                                        *)

\* ClosedOnce is not inductive: it must also be known that a call about to
\* deliver the event is the only one, that the event is still outstanding, and
\* that the row already says what the event will say.
ClosedInv ==
  /\ \A s \in Sessions :
       \/ closed[s] = <<>>
       \/ closed[s] = <<"ENDED">> /\ row[s].status \in {"ENDED", "FORGOTTEN"}
       \/ closed[s] = <<"EXPIRED">> /\ row[s].status \in {"EXPIRED", "FORGOTTEN"}
  /\ \A t \in Tasks : task[t].pc = "notify" =>
       /\ closed[task[t].s] = <<>>
       /\ row[task[t].s].status \in {Done(task[t].mode), "FORGOTTEN"}
  /\ \A t, u \in Tasks :
       task[t].pc = "notify" /\ task[u].pc = "notify" /\ task[t].s = task[u].s => t = u

\* A finished row stays what it is until it is forgotten.
LEMMA FinishedStays ==
  ASSUME TypeInv, RowStep, NEW s \in Sessions,
         NEW x \in TerminalStatuses \cup {"FORGOTTEN"},
         row[s].status \in {x, "FORGOTTEN"}
  PROVE  row'[s].status \in {x, "FORGOTTEN"}
<1>1. row \in [Sessions -> Row]
  BY Zenon DEF TypeInv, ManagerTypeOK
<1>2. CASE UNCHANGED row
  BY <1>2, Zenon
<1>3. ASSUME NEW u \in Sessions, Opens(u) \/ Forgets(u)
      PROVE  row'[s].status \in {x, "FORGOTTEN"}
  BY <1>1, <1>3, Zenon DEF Opens, Forgets, Write, TerminalStatuses
<1>4. ASSUME NEW u \in Sessions, Moves(u)
      PROVE  row'[s].status \in {x, "FORGOTTEN"}
  <2>1. PICK r \in Row : /\ row[u].status \in Statuses /\ r.status \in Statuses
                         /\ \/ r.status = row[u].status
                            \/ <<row[u].status, r.status>> \in Lifecycle!Edges
                         /\ row' = [row EXCEPT ![u] = r]
    BY <1>4, Zenon DEF Moves, Write
  <2>2. CASE u # s
    BY <1>1, <2>1, <2>2, Zenon
  <2>3. CASE u = s
    <3>1. row[s].status \in TerminalStatuses =>
            \A to \in Statuses : <<row[s].status, to>> \notin Lifecycle!Edges
      BY Zenon DEF Lifecycle!Edges, Lifecycle!LiveStatuses, Statuses, TerminalStatuses
    <3>2. row'[s] = r
      BY <1>1, <2>1, <2>3, Zenon
    <3> QED BY <2>1, <2>3, <3>1, <3>2, Zenon DEF Statuses
  <2> QED BY <2>2, <2>3, Zenon
<1> QED BY <1>3, <1>4, Zenon DEF RowStep

\* A quiet step keeps what is known of reports under way.
LEMMA QuietClosedStep ==
  ASSUME TypeInv, RowStep, ClosedInv, closed' = closed,
         \A u \in Tasks : task'[u].pc = "notify" => task'[u] = task[u]
  PROVE  ClosedInv'
<1>1. \A s \in Sessions :
        \/ closed'[s] = <<>>
        \/ closed'[s] = <<"ENDED">> /\ row'[s].status \in {"ENDED", "FORGOTTEN"}
        \/ closed'[s] = <<"EXPIRED">> /\ row'[s].status \in {"EXPIRED", "FORGOTTEN"}
  BY FinishedStays, Zenon DEF ClosedInv, TerminalStatuses
<1>2. ASSUME NEW t \in Tasks, task'[t].pc = "notify"
      PROVE  /\ closed'[task'[t].s] = <<>>
             /\ row'[task'[t].s].status \in {Done(task'[t].mode), "FORGOTTEN"}
  <2>1. task[t].s \in Sessions
    BY <1>2, Serving, Zenon
  <2>2. Done(task[t].mode) \in {"ENDED", "EXPIRED", "FORGOTTEN"}
    BY Zenon DEF Done
  <2> QED BY <1>2, <2>1, <2>2, FinishedStays DEF ClosedInv, TerminalStatuses
<1>3. \A t, u \in Tasks :
        task'[t].pc = "notify" /\ task'[u].pc = "notify" /\ task'[t].s = task'[u].s => t = u
  BY DEF ClosedInv
<1> QED BY <1>1, <1>2, <1>3, Zenon DEF ClosedInv

\* Recording the end of a session makes the recorder its only reporter.
LEMMA RecordClosedStep ==
  ASSUME TypeInv, RowStep, ClosedInv, NEW t \in Tasks, Record(t)
  PROVE  ClosedInv'
<1>1. closed' = closed /\ task[t].s \in Sessions /\ task \in [Tasks -> Task]
  BY Serving, Zenon DEF Record, At, TypeInv, ManagerTypeOK
<1>2. CASE Return(t)
  BY <1>1, <1>2, ReturnKeeps, QuietClosedStep, Zenon DEF Keeps
<1>3. CASE ~Return(t)
  <2> DEFINE s == task[t].s
  <2>1. /\ row[s].status = InProgress(task[t].mode)
        /\ Transition(s, Done(task[t].mode), task[t].reason, FALSE)
        /\ task' = [task EXCEPT ![t].pc = "notify"]
    BY <1>3, Zenon DEF Record, Matches, Goto
  <2>2. /\ task'[t].pc = "notify" /\ task'[t].s = s /\ task'[t].mode = task[t].mode
        /\ \A u \in Tasks \ {t} : task'[u] = task[u]
    BY <1>1, <2>1, Zenon DEF Task
  <2>3. row'[s].status = Done(task[t].mode)
    <3>1. row \in [Sessions -> Row]
      BY Zenon DEF TypeInv, ManagerTypeOK
    <3> QED BY <1>1, <2>1, <3>1, Zenon DEF Transition, Write, Moved
  <2>4. closed[s] = <<>>
    BY <1>1, <2>1, Zenon DEF ClosedInv, InProgress
  <2>5. \A u \in Tasks : task[u].pc = "notify" => task[u].s # s
    BY <2>1, Zenon DEF ClosedInv, InProgress, Done
  <2>6. \A u \in Sessions :
          \/ closed'[u] = <<>>
          \/ closed'[u] = <<"ENDED">> /\ row'[u].status \in {"ENDED", "FORGOTTEN"}
          \/ closed'[u] = <<"EXPIRED">> /\ row'[u].status \in {"EXPIRED", "FORGOTTEN"}
    BY <1>1, FinishedStays, Zenon DEF ClosedInv, TerminalStatuses
  <2>7. ASSUME NEW u \in Tasks, task'[u].pc = "notify"
        PROVE  /\ closed'[task'[u].s] = <<>>
               /\ row'[task'[u].s].status \in {Done(task'[u].mode), "FORGOTTEN"}
    <3>1. CASE u = t
      BY <1>1, <2>2, <2>3, <2>4, <3>1, Zenon
    <3>2. CASE u # t
      <4>1. task[u].pc = "notify" /\ task'[u] = task[u]
        BY <2>2, <2>7, <3>2, Zenon
      <4>2. task[u].s \in Sessions
        BY <4>1, Serving, Zenon
      <4>3. Done(task[u].mode) \in {"ENDED", "EXPIRED", "FORGOTTEN"}
        BY Zenon DEF Done
      <4> QED BY <1>1, <4>1, <4>2, <4>3, FinishedStays, Zenon DEF ClosedInv, TerminalStatuses
    <3> QED BY <3>1, <3>2, Zenon
  <2>8. \A u, v \in Tasks :
          task'[u].pc = "notify" /\ task'[v].pc = "notify" /\ task'[u].s = task'[v].s
          => u = v
    BY <2>2, <2>5 DEF ClosedInv
  <2> QED BY <2>6, <2>7, <2>8, Zenon DEF ClosedInv
<1> QED BY <1>2, <1>3, Zenon

\* The report is the first of its session and agrees with the row.
LEMMA NotifyClosedStep ==
  ASSUME TypeInv, RowStep, ClosedInv, NEW t \in Tasks, NotifyClosed(t)
  PROVE  ClosedInv'
<1> DEFINE s == task[t].s
           d == Done(task[t].mode)
<1>1. /\ s \in Sessions /\ task[t].pc = "notify" /\ UNCHANGED row
      /\ closed \in [Sessions -> Seq({"ENDED", "EXPIRED"})]
  BY Serving, Zenon DEF NotifyClosed, At, TypeInv, ManagerTypeOK
<1>2. /\ closed[s] = <<>> /\ row[s].status \in {d, "FORGOTTEN"}
      /\ d \in {"ENDED", "EXPIRED"}
  BY <1>1, Zenon DEF ClosedInv, Done
<1>3. closed' = [closed EXCEPT ![s] = <<d>>]
  BY <1>2 DEF NotifyClosed
<1>4. \A u \in Tasks : task'[u].pc = "notify" => task'[u] = task[u] /\ u # t
  BY Zenon DEF NotifyClosed, Return, Becomes, IdleTask, Call, TypeInv, ManagerTypeOK
<1>5. \A u \in Tasks : task'[u].pc = "notify" => task[u].s # s
  BY <1>1, <1>4, Zenon DEF ClosedInv
<1> HIDE DEF d
<1>6. \A u \in Sessions :
        \/ closed'[u] = <<>>
        \/ closed'[u] = <<"ENDED">> /\ row'[u].status \in {"ENDED", "FORGOTTEN"}
        \/ closed'[u] = <<"EXPIRED">> /\ row'[u].status \in {"EXPIRED", "FORGOTTEN"}
  BY <1>1, <1>2, <1>3, Zenon DEF ClosedInv
<1>7. \A u \in Tasks : task'[u].pc = "notify" =>
        /\ closed'[task'[u].s] = <<>>
        /\ row'[task'[u].s].status \in {Done(task'[u].mode), "FORGOTTEN"}
  BY <1>1, <1>3, <1>4 DEF ClosedInv
<1>8. \A u, v \in Tasks :
        task'[u].pc = "notify" /\ task'[v].pc = "notify" /\ task'[u].s = task'[v].s => u = v
  BY <1>4 DEF ClosedInv
<1> QED BY <1>6, <1>7, <1>8, Zenon DEF ClosedInv

\* A reset's claim has nothing to do with the event.
LEMMA ClaimNotifies ==
  ASSUME TypeInv, NEW t \in Tasks, ClaimReset(t)
  PROVE  \A u \in Tasks : task'[u].pc = "notify" => task'[u] = task[u]
<1>1. ASSUME NEW call, call.pc # "notify", Becomes(t, call)
      PROVE  \A u \in Tasks : task'[u].pc = "notify" => task'[u] = task[u]
  BY <1>1, Zenon DEF Becomes, TypeInv, ManagerTypeOK
<1>2. ASSUME NEW op, NEW s, NEW guard,
             Becomes(t, Call("purge", op, s, "none", "none", guard))
      PROVE  \A u \in Tasks : task'[u].pc = "notify" => task'[u] = task[u]
  <2>1. Call("purge", op, s, "none", "none", guard).pc # "notify"
    BY Zenon DEF Call
  <2> QED BY <1>1, <1>2, <2>1
<1> QED BY <1>2, ReturnKeeps, Zenon DEF ClaimReset, Keeps

\* Every session is reported closed at most once, and as what its row says,
\* however many teardowns race and whoever crashes between the finishing write
\* and the event (#teardown, #notifyClosed).
THEOREM ClosedOnceHolds == ManagerSpec => []ClosedOnce
<1>1. ManagerInit => ClosedInv
  BY DEF ManagerInit, ClosedInv, IdleTask, Call
<1>2. TypeInv /\ ClosedInv /\ [ManagerNext]_managerVars => TypeInv' /\ ClosedInv'
  <2> SUFFICES ASSUME TypeInv, ClosedInv, [ManagerNext]_managerVars
               PROVE  TypeInv' /\ ClosedInv'
    BY Zenon
  <2>1. TypeInv' /\ RowStep
    BY NextStep, Zenon DEF StepOK
  <2>2. CASE Quiet
    BY <2>1, <2>2, QuietClosedStep, Zenon DEF Quiet, Keeps
  <2>3. ASSUME NEW t \in Tasks, ClaimReset(t)
        PROVE  ClosedInv'
    <3>1. \A u \in Tasks : task'[u].pc = "notify" => task'[u] = task[u]
      BY <2>3, ClaimNotifies, Zenon
    <3> QED BY <2>1, <2>3, <3>1, QuietClosedStep, Zenon DEF ClaimReset
  <2> QED BY <2>1, <2>2, <2>3, QuietStep, RecordClosedStep, NotifyClosedStep, Zenon
<1>3. ClosedInv => ClosedOnce
  <2>1. \A x : Len(<<x>>) = 1 /\ <<x>>[1] = x
    BY Zenon
  <2> QED BY <2>1, Zenon DEF ClosedInv, ClosedOnce
<1> QED BY TypeInit, <1>1, <1>2, <1>3, PTL DEF ManagerSpec

----------------------------------------------------------------------------
(* The reset claim.                                                        *)

\* A reset in flight was claimed no later than the row's last status change, and
\* no two of them under the same stamp.
ClaimInv ==
  /\ \A t \in Tasks : task[t].op = "reset" =>
       \/ row[task[t].s].status = "FORGOTTEN"
       \/ /\ row[task[t].s].status \in Statuses
          /\ task[t].guard.stamp <= row[task[t].s].stamp
  /\ \A t, u \in Tasks :
       /\ task[t].op = "reset" /\ task[u].op = "reset" /\ task[t].s = task[u].s
       /\ row[task[t].s].status # "FORGOTTEN"
       /\ task[t].guard.stamp = task[u].guard.stamp
       => t = u

\* A row's stamp never goes back while the row exists, and a row once used stays
\* used.
LEMMA StampsGrow ==
  ASSUME TypeInv, RowStep, NEW s \in Sessions
  PROVE  /\ row[s].status = "FORGOTTEN" => row'[s].status = "FORGOTTEN"
         /\ row[s].status \in Statuses =>
              \/ row'[s].status = "FORGOTTEN"
              \/ row'[s].status \in Statuses /\ row[s].stamp <= row'[s].stamp
<1>1. row \in [Sessions -> Row] /\ row[s].stamp \in Nat
  BY Zenon DEF TypeInv, ManagerTypeOK, Row
<1>2. CASE UNCHANGED row
  BY <1>1, <1>2
<1>3. ASSUME NEW u \in Sessions, Opens(u) \/ Forgets(u) \/ Moves(u)
      PROVE  \/ row'[s] = row[s]
             \/ row[s].status = "UNUSED"
             \/ row[s].status \in TerminalStatuses /\ row'[s].status = "FORGOTTEN"
             \/ /\ row[s].status \in Statuses /\ row'[s].status \in Statuses
                /\ row'[s].stamp \in {row[s].stamp, row[s].stamp + 1}
  BY <1>1, <1>3, Zenon DEF Opens, Forgets, Moves, Write
<1>4. "FORGOTTEN" \notin Statuses /\ "UNUSED" \notin Statuses
  BY Zenon DEF Statuses
<1> QED BY <1>1, <1>3, <1>4 DEF RowStep

\* A step that claims nothing keeps the claims apart.
LEMMA QuietClaimStep ==
  ASSUME TypeInv, TypeInv', RowStep, ClaimInv,
         \A u \in Tasks : task'[u].op = "reset" =>
           task[u].op = "reset" /\ task'[u].s = task[u].s /\ task'[u].guard = task[u].guard
  PROVE  ClaimInv'
<1>1. ASSUME NEW t \in Tasks, task[t].op = "reset"
      PROVE  /\ task[t].s \in Sessions /\ task[t].guard.stamp \in Nat
             /\ row[task[t].s].stamp \in Nat /\ row'[task[t].s].stamp \in Nat
  <2>1. task[t] \in Task /\ Bound(task[t]) /\ row \in [Sessions -> Row] /\ row' \in [Sessions -> Row]
    BY Zenon DEF TypeInv, ManagerTypeOK, TasksBound
  <2> QED BY <1>1, <2>1, Zenon DEF Bound, Task, Guard, Row
<1>2. ASSUME NEW t \in Tasks, task'[t].op = "reset"
      PROVE  \/ row'[task'[t].s].status = "FORGOTTEN"
             \/ /\ row'[task'[t].s].status \in Statuses
                /\ task'[t].guard.stamp <= row'[task'[t].s].stamp
  BY <1>1, <1>2, StampsGrow DEF ClaimInv
<1>3. ASSUME NEW t \in Tasks, NEW u \in Tasks,
             task'[t].op = "reset", task'[u].op = "reset", task'[t].s = task'[u].s,
             row'[task'[t].s].status # "FORGOTTEN",
             task'[t].guard.stamp = task'[u].guard.stamp
      PROVE  t = u
  BY <1>1, <1>3, StampsGrow DEF ClaimInv
<1> QED BY <1>2, <1>3, Zenon DEF ClaimInv

\* A new claim is stamped later than every earlier one.
LEMMA ClaimResetClaimStep ==
  ASSUME TypeInv, TypeInv', RowStep, ClaimInv, NEW t \in Tasks, ClaimReset(t)
  PROVE  ClaimInv'
<1>1. CASE Return(t)
  BY <1>1, ReturnKeeps, QuietClaimStep, Zenon DEF Keeps
<1>2. CASE ~Return(t)
  <2> DEFINE s == task[t].s
             claimed == Moved(s, "RESETTING", row[s].reason, TRUE)
             call == Call("purge", "reset", s, "none", "none", StampGuard(claimed.stamp))
  <2>1. /\ row[s].status \in ResettableStatuses /\ Write(s, claimed)
        /\ Becomes(t, call)
    BY <1>2, Zenon DEF ClaimReset, Matches
  <2>2. /\ s \in Sessions /\ row \in [Sessions -> Row] /\ row[s].stamp \in Nat
        /\ task \in [Tasks -> Task]
    BY Serving, Zenon DEF ClaimReset, At, TypeInv, ManagerTypeOK, Row
  <2>3. row[s].status # "RESETTING" /\ row[s].status \in Statuses
    BY <2>1, Zenon DEF ResettableStatuses, Statuses
  <2>4. claimed.stamp = row[s].stamp + 1 /\ claimed.status = "RESETTING"
    BY <2>3, Zenon DEF Moved
  <2>5. /\ row'[s].stamp = row[s].stamp + 1 /\ row'[s].status = "RESETTING"
        /\ \A v \in Sessions \ {s} : row'[v] = row[v]
    BY <2>1, <2>2, <2>4, Zenon DEF Write
  <2>6. /\ task'[t].op = "reset" /\ task'[t].s = s
        /\ task'[t].guard.stamp = row[s].stamp + 1
        /\ \A u \in Tasks \ {t} : task'[u] = task[u]
    BY <2>1, <2>2, <2>4, Zenon DEF Becomes, Call, StampGuard
  <2> HIDE DEF claimed, call
  <2>7. \A u \in Tasks : task[u].op = "reset" =>
          task[u].s \in Sessions /\ task[u].guard.stamp \in Nat
    BY <2>2, Zenon DEF TypeInv, TasksBound, Bound, Task, Guard
  <2>8. \A u \in Tasks \ {t} : task[u].op = "reset" /\ task[u].s = s =>
          task[u].guard.stamp <= row[s].stamp
    BY <2>3, Zenon DEF ClaimInv, Statuses
  <2>9. ASSUME NEW u \in Tasks, task'[u].op = "reset"
        PROVE  \/ row'[task'[u].s].status = "FORGOTTEN"
               \/ /\ row'[task'[u].s].status \in Statuses
                  /\ task'[u].guard.stamp <= row'[task'[u].s].stamp
    <3>1. CASE u = t
      BY <2>2, <2>5, <2>6, <3>1 DEF Statuses
    <3>2. CASE u # t /\ task[u].s = s
      BY <2>2, <2>5, <2>6, <2>7, <2>8, <2>9, <3>2 DEF Statuses
    <3>3. CASE u # t /\ task[u].s # s
      BY <2>5, <2>6, <2>7, <2>9, <3>3 DEF ClaimInv
    <3> QED BY <3>1, <3>2, <3>3, Zenon
  <2>10. ASSUME NEW u \in Tasks, NEW v \in Tasks,
                task'[u].op = "reset", task'[v].op = "reset", task'[u].s = task'[v].s,
                row'[task'[u].s].status # "FORGOTTEN",
                task'[u].guard.stamp = task'[v].guard.stamp
         PROVE  u = v
    <3>1. CASE u # t /\ v # t
      BY <2>3, <2>5, <2>6, <2>7, <2>10, <3>1 DEF ClaimInv, Statuses
    <3>2. CASE u = t \/ v = t
      BY <2>2, <2>6, <2>8, <2>10, <3>2
    <3> QED BY <3>1, <3>2, Zenon
  <2> QED BY <2>9, <2>10, Zenon DEF ClaimInv
<1> QED BY <1>1, <1>2, Zenon

\* At most one reset can ever release the RESETTING claim that is on a row: when
\* a claim was recovered and taken again, the fence of the first no longer
\* matches (reset, #rebuild, recoverInterruptedReset).
THEOREM OneClaimHolderHolds == ManagerSpec => []OneClaimHolder
<1>1. ManagerInit => ClaimInv
  BY DEF ManagerInit, ClaimInv, IdleTask, Call
<1>2. TypeInv /\ ClaimInv /\ [ManagerNext]_managerVars => TypeInv' /\ ClaimInv'
  <2> SUFFICES ASSUME TypeInv, ClaimInv, [ManagerNext]_managerVars
               PROVE  TypeInv' /\ ClaimInv'
    BY Zenon
  <2>1. TypeInv' /\ RowStep
    BY NextStep, Zenon DEF StepOK
  <2>2. CASE Quiet
    BY <2>1, <2>2, QuietClaimStep, Zenon DEF Quiet, Keeps
  <2>3. ASSUME NEW t \in Tasks, Record(t) \/ NotifyClosed(t)
        PROVE  ClaimInv'
    <3>1. \A u \in Tasks : task'[u].op = "reset" =>
            task[u].op = "reset" /\ task'[u].s = task[u].s /\ task'[u].guard = task[u].guard
      <4>1. CASE Return(t)
        BY <4>1, ReturnKeeps, Zenon DEF Keeps
      <4>2. CASE Goto(t, "notify")
        BY <4>2 DEF Goto
      <4> QED BY <2>3, <4>1, <4>2, Zenon DEF Record, NotifyClosed
    <3> QED BY <2>1, <3>1, QuietClaimStep, Zenon
  <2> QED BY <2>1, <2>2, <2>3, QuietStep, ClaimResetClaimStep, Zenon
<1>3. ClaimInv => OneClaimHolder
  BY DEF ClaimInv, OneClaimHolder, Holders
<1> QED BY TypeInit, <1>1, <1>2, <1>3, PTL DEF ManagerSpec

=============================================================================
