------------------------- MODULE SessionCallsProofs -------------------------
(***************************************************************************)
(* What the calls in flight may still assume of their session, in the      *)
(* system with sweeps, crashes and shutdowns, and what follows for the     *)
(* steps that tear a session down: whoever expires a session holds a fence *)
(* that still matches, and whoever removes a sandbox removes none that is  *)
(* in use.                                                                 *)
(***************************************************************************)
EXTENDS SessionReaperProofs

----------------------------------------------------------------------------
(* Who writes a row, and what becomes of the calls.                        *)

\* A status written by one step: a start or a reset that ends well makes its
\* session ACTIVE, a claim or the hand-over of a start makes one EXPIRING.
Written(s) ==
  \/ row'[s].status = row[s].status
  \/ row'[s].status \notin {"ACTIVE", "EXPIRING"}
  \/ row[s].status = "RESETTING" /\ row'[s].status = "ACTIVE"
  \/ row[s].status = "CREATING" /\ row'[s].status = "EXPIRING"
  \/ \E t \in Tasks : task[t].s = s /\ (Activate(t) \/ Claim(t))

\* One row written is the only one that changes.
LEMMA WriteChanges ==
  ASSUME TypeInv, NEW s \in Sessions, NEW to, NEW reason, NEW active,
         Transition(s, to, reason, active)
  PROVE  /\ row'[s].status = to /\ row'[s].reason = reason
         /\ \A u \in Sessions \ {s} : row'[u] = row[u]
  BY Zenon DEF TypeInv, ManagerTypeOK, Transition, Write, Moved

\* A call's own writes.
LEMMA TaskWrites ==
  ASSUME TypeInv, NEW t \in Tasks, TaskStep(t), NEW s \in Sessions
  PROVE  Written(s)
<1>1. CASE UNCHANGED row
  BY <1>1, Zenon DEF Written
<1>2. CASE task[t].s = s /\ (Activate(t) \/ Claim(t))
  BY <1>2, Zenon DEF Written
<1>3. ASSUME task[t].pc \notin {"idle", "insert"}, task[t].s # s,
             NEW to, NEW reason, NEW active, Transition(task[t].s, to, reason, active)
      PROVE  Written(s)
  <2>1. task[t].s \in Sessions
    BY <1>3, Serving, Zenon
  <2> QED BY <1>3, <2>1, WriteChanges, Zenon DEF Written
<1>4. ASSUME task[t].pc \notin {"idle", "insert"}, task[t].s = s,
             NEW to, NEW reason, NEW active, Transition(task[t].s, to, reason, active),
             \/ to \notin {"ACTIVE", "EXPIRING"}
             \/ row[s].status = "RESETTING" /\ to = "ACTIVE"
             \/ row[s].status = "CREATING" /\ to = "EXPIRING"
      PROVE  Written(s)
  BY <1>4, WriteChanges, Zenon DEF Written
<1>5. CASE Insert(t)
  <2>1. CASE UNCHANGED row
    BY <1>1, <2>1, Zenon
  <2>2. ASSUME NEW u \in Sessions, NEW o, Write(u, NewRow(o))
        PROVE  Written(s)
    <3>1. row' = [row EXCEPT ![u] = NewRow(o)] /\ NewRow(o).status = "CREATING"
      BY <2>2, Zenon DEF Write, NewRow
    <3> QED BY <3>1, Zenon DEF Written, TypeInv, ManagerTypeOK
  <2> QED BY <1>5, <2>1, <2>2, Zenon DEF Insert
<1>6. CASE Activate(t) \/ Claim(t)
  BY <1>1, <1>2, <1>3, <1>6, Zenon DEF Activate, Claim, At
<1>7. CASE Fail(t)
  BY <1>1, <1>3, <1>4, <1>7, Zenon DEF Fail, At
<1>8. CASE ClaimReset(t)
  <2>1. CASE Transition(task[t].s, "RESETTING", row[task[t].s].reason, TRUE)
    BY <1>3, <1>4, <1>8, <2>1, Zenon DEF ClaimReset, At
  <2> QED BY <1>1, <1>8, <2>1, Zenon DEF ClaimReset, Transition
<1>9. CASE Release(t) \/ Degrade(t)
  BY <1>1, <1>3, <1>4, <1>9, Zenon DEF Release, Degrade, At, Matches
<1>10. CASE Defer(t)
  BY <1>1, <1>3, <1>4, <1>10, Zenon DEF Defer, At, Matches, InProgress
<1>11. CASE Record(t)
  BY <1>1, <1>3, <1>4, <1>11, Zenon DEF Record, At, Done
<1>12. CASE \/ Create(t) \/ Cleanup(t) \/ Discard(t) \/ Discarding(t) \/ Lost(t)
            \/ Purge(t) \/ Rebuild(t) \/ DestroyClaimed(t) \/ NotifyClosed(t) \/ Reclaim(t)
  BY <1>1, <1>12, Zenon DEF Create, Cleanup, Discard, Discarding, Lost, Purge, Rebuild,
     DestroyClaimed, NotifyClosed, Reclaim
<1> QED BY <1>5, <1>6, <1>7, <1>8, <1>9, <1>10, <1>11, <1>12, Zenon DEF TaskStep

\* Every step writes at most one status, and only these writers make a session
\* ACTIVE or EXPIRING.
LEMMA StepWrites ==
  ASSUME TypeInv, [ManagerNext]_managerVars, NEW s \in Sessions
  PROVE  Written(s)
<1>1. CASE UNCHANGED row
  BY <1>1 DEF Written
<1>2. ASSUME NEW u \in Sessions, NEW to, NEW reason, NEW active,
             Transition(u, to, reason, active),
             \/ to = row[u].status
             \/ to \notin {"ACTIVE", "EXPIRING"}
             \/ row[u].status = "CREATING" /\ to = "EXPIRING"
      PROVE  Written(s)
  BY <1>2, WriteChanges DEF Written
<1>3. CASE \E t \in Tasks : TaskStep(t)
  BY <1>3, TaskWrites, Zenon
<1>4. CASE \E t \in Tasks : Request(t)
  BY <1>1, <1>4, Zenon DEF Request, Start, Reset, End, EndByOperator, ResumeAbandonedEnd, Teardown
<1>5. CASE Environment
  <2>1. ASSUME NEW i \in Instances, HandOver(i)
        PROVE  Written(s)
    <3>1. PICK w \in handover[i] :
            \/ /\ Matches(w.s, {"CREATING"}, StampGuard(w.stamp))
               /\ Transition(w.s, "EXPIRING", "start", FALSE)
            \/ Transition(w.s, "DEGRADED", "failure", TRUE)
            \/ UNCHANGED row
      BY <2>1, Zenon DEF HandOver
    <3>2. w.s \in Sessions
      BY DEF TypeInv, ManagerTypeOK, HandoverWrite
    <3> QED BY <1>1, <1>2, <3>1, <3>2, Zenon DEF Matches
  <2>2. ASSUME NEW u \in Sessions, TouchActivity(u)
        PROVE  Written(s)
    BY <1>2, <2>2, Zenon DEF TouchActivity
  <2> QED BY <1>1, <1>5, <2>1, <2>2 DEF Environment, SandboxStops, SandboxVanishes,
             InterruptInFlight, Crash, StoreError
<1>6. CASE Maintenance
  <2>1. ASSUME NEW u \in Sessions, Forget(u)
        PROVE  Written(s)
    <3>1. row' = [row EXCEPT ![u] = NoRow("FORGOTTEN")] /\ NoRow("FORGOTTEN").status = "FORGOTTEN"
      BY <2>1, Zenon DEF Forget, Write, NoRow
    <3> QED BY <3>1 DEF Written, ManagerTypeOK
  <2>2. ASSUME NEW u \in Sessions, NEW stamp,
               RecoverInterruptedReset(u, stamp) \/ MarkSandboxStopped(u, stamp)
        PROVE  Written(s)
    BY <1>2, <2>2, Zenon DEF RecoverInterruptedReset, MarkSandboxStopped
  <2> QED BY <1>1, <1>6, <2>1, <2>2, Zenon DEF Maintenance, Expire, ResumeAbandonedEnd, Teardown,
             ReclaimSandbox, DestroySandbox
<1>7. CASE UNCHANGED managerVars
  BY <1>1, <1>7, Zenon DEF managerVars
<1> QED BY <1>3, <1>4, <1>5, <1>6, <1>7, Zenon DEF ManagerNext

----------------------------------------------------------------------------
(* The calls in flight.                                                    *)

\* What is known of a call, given the status of its session: which calls build,
\* that a start still in flight has not made its session ACTIVE, that whoever
\* is about to destroy a sandbox does so for a session that will not come back,
\* and that an expiry about to claim carries its fence.
CallOK(status, c) ==
  /\ c.pc \in {"create", "activate", "cleanup", "fail", "lost"} => c.op = "start"
  /\ c.pc \in {"purge", "rebuild", "release", "degrade"} => c.op = "reset"
  /\ c.pc \in {"discard", "discarding"} => c.op # "call"
  /\ c.op = "start" => status \in {"CREATING"} \cup TornDown
  /\ c.op = "reset" => status # "UNUSED"
  /\ c.pc \in {"discarding", "destroy", "reclaim"} => status \in TornDown
  /\ c.pc \in {"claim", "defer"} /\ c.mode = "expire" => Fenced(status, c.reason, c.guard)
  /\ c.mode = "operator" => c.reason = "operator"

\* A session has one start: its id is drawn once.
OneStart ==
  \A t, u \in Tasks : task[t].op = "start" /\ task[u].op = "start" /\ task[t].s = task[u].s
                      => t = u

CallInv == OneStart /\ \A t \in Tasks : CallOK(row[task[t].s].status, task[t])

\* A session being created stays so until its start activates it or a teardown
\* or a failure takes it.
LEMMA BuildingStays ==
  ASSUME TypeInv, RowStep, [ManagerNext]_managerVars, NEW s \in Sessions,
         row[s].status \in {"CREATING"} \cup TornDown
  PROVE  \/ row'[s].status \in {"CREATING"} \cup TornDown
         \/ \E t \in Tasks : task[t].s = s /\ Activate(t)
<1>1. CASE row[s].status \in TornDown
  BY <1>1, TornStays, Zenon
<1>2. CASE row[s].status = "CREATING"
  <2>1. row'[s].status \in {"CREATING", "ACTIVE"} \cup TornDown
    <3>1. \A to : <<"CREATING", to>> \in Lifecycle!Edges =>
                    to \in {"CREATING", "ACTIVE"} \cup TornDown
      BY Zenon DEF TornDown, TeardownOwned, TerminalStatuses, Lifecycle!Edges
    <3>2. row[s].status \notin TerminalStatuses
      BY <1>2, Zenon DEF TerminalStatuses
    <3> QED BY <1>2, <3>1, <3>2, RowKept, Zenon DEF RowMoved
  <2>2. ASSUME NEW t \in Tasks, task[t].s = s, Claim(t)
        PROVE  row'[s].status # "ACTIVE"
    BY <1>2, <2>2, WriteChanges DEF Claim, InProgress
  <2> QED BY <1>2, <2>1, <2>2, StepWrites DEF Written
<1> QED BY <1>1, <1>2, Zenon

\* What is known of a call outlasts the steps of others.
LEMMA CallStays ==
  ASSUME TypeInv, RowStep, [ManagerNext]_managerVars, NEW t \in Tasks,
         CallOK(row[task[t].s].status, task[t]),
         task[t].op = "start" => ~ \E u \in Tasks : task[u].s = task[t].s /\ Activate(u)
  PROVE  CallOK(row'[task[t].s].status, task[t])
<1>1. CASE task[t].s \in Sessions
  <2> DEFINE old == row[task[t].s].status
             new == row'[task[t].s].status
  <2>1. /\ old \in TornDown => new \in TornDown
        /\ old # "UNUSED" => new # "UNUSED"
        /\ task[t].op = "start" /\ old \in {"CREATING"} \cup TornDown =>
             new \in {"CREATING"} \cup TornDown
    BY <1>1, TornStays, UsedStays, BuildingStays, Zenon
  <2> HIDE DEF old, new
  <2>2. CallOK(new, task[t])
    <3>1. CallOK(old, task[t])
      BY DEF old
    <3> QED BY <2>1, <3>1, Zenon DEF CallOK, Fenced
  <2> QED BY <2>2, Zenon DEF new
<1>2. CASE task[t].s \notin Sessions
  <2>1. task[t].pc \in {"idle", "insert"} /\ task[t].op = "call"
    BY <1>2, Zenon DEF TypeInv, TasksBound, Bound
  <2> QED BY <2>1, Zenon DEF CallOK
<1> QED BY <1>1, <1>2, Zenon

\* A step that changes one call.
LEMMA CallsKept ==
  ASSUME TypeInv, CallInv, RowStep, [ManagerNext]_managerVars, NEW t \in Tasks,
         \A u \in Tasks \ {t} : task'[u] = task[u],
         CallOK(row'[task'[t].s].status, task'[t]),
         task'[t].op = "start" =>
           \/ task[t].op = "start" /\ task'[t].s = task[t].s
           \/ \A u \in Tasks \ {t} : task[u].op = "start" => task[u].s # task'[t].s
  PROVE  CallInv'
<1>1. OneStart'
  BY Zenon DEF CallInv, OneStart
<1>2. ASSUME NEW u \in Tasks \ {t}
      PROVE  CallOK(row'[task'[u].s].status, task'[u])
  <2>1. ASSUME NEW v \in Tasks, task[u].op = "start", task[v].s = task[u].s, Activate(v)
        PROVE  FALSE
    <3>1. task[v].pc = "activate" /\ task[v].op = "start"
      BY <2>1, Zenon DEF Activate, At, CallInv, CallOK
    <3>2. task'[v].pc # "activate"
      <4>1. CASE Return(v)
        BY <4>1, Zenon DEF Return, Becomes, IdleTask, Call, TypeInv, ManagerTypeOK
      <4>2. CASE Goto(v, "discard")
        BY <4>2 DEF Goto, TypeInv, ManagerTypeOK, Task
      <4> QED BY <2>1, <4>1, <4>2, Zenon DEF Activate
    <3>3. u = v
      BY <2>1, <3>1, Zenon DEF CallInv, OneStart
    <3> QED BY <3>1, <3>2, <3>3, Zenon
  <2>2. CallOK(row'[task[u].s].status, task[u])
    BY <2>1, CallStays, Zenon DEF CallInv
  <2> QED BY <2>2, Zenon
<1> QED BY <1>1, <1>2 DEF CallInv

\* A step that changes no call, or ends some.
LEMMA CallsDropped ==
  ASSUME TypeInv, CallInv, RowStep, [ManagerNext]_managerVars,
         \A u \in Tasks : task'[u] \in {task[u], IdleTask},
         \A v \in Tasks : ~Activate(v)
  PROVE  CallInv'
<1>1. /\ IdleTask.op = "call" /\ IdleTask.pc = "idle" /\ IdleTask.mode = "none"
  BY Zenon DEF IdleTask, Call
<1>2. OneStart'
  BY <1>1, Zenon DEF CallInv, OneStart
<1>3. ASSUME NEW u \in Tasks
      PROVE  CallOK(row'[task'[u].s].status, task'[u])
  <2>1. CASE task'[u] = IdleTask
    BY <1>1, <2>1, Zenon DEF CallOK
  <2>2. CASE task'[u] = task[u]
    <3>1. CallOK(row'[task[u].s].status, task[u])
      BY CallStays, Zenon DEF CallInv
    <3> QED BY <2>2, <3>1
  <2> QED BY <2>1, <2>2, Zenon
<1> QED BY <1>2, <1>3, Zenon DEF CallInv

\* A call that returns.
LEMMA ReturnCalls ==
  ASSUME TypeInv, CallInv, RowStep, [ManagerNext]_managerVars, NEW t \in Tasks, Return(t)
  PROVE  CallInv'
<1>1. task'[t] = IdleTask /\ \A u \in Tasks \ {t} : task'[u] = task[u]
  BY DEF Return, Becomes, TypeInv, ManagerTypeOK
<1>2. IdleTask.op = "call" /\ IdleTask.pc = "idle" /\ IdleTask.mode = "none"
  BY Zenon DEF IdleTask, Call
<1>3. CallOK(row'[task'[t].s].status, task'[t])
  BY <1>1, <1>2, Zenon DEF CallOK
<1> QED BY <1>1, <1>2, <1>3, CallsKept, Zenon

\* A call that begins, or becomes another.
LEMMA CallBecomes ==
  ASSUME TypeInv, CallInv, RowStep, [ManagerNext]_managerVars, NEW t \in Tasks,
         NEW pc, NEW op, NEW s, NEW mode, NEW reason, NEW guard,
         Becomes(t, Call(pc, op, s, mode, reason, guard)),
         CallOK(row'[s].status, Call(pc, op, s, mode, reason, guard)),
         op = "start" => \/ task[t].op = "start" /\ task[t].s = s
                         \/ \A u \in Tasks \ {t} : task[u].op = "start" => task[u].s # s
  PROVE  CallInv'
<1> DEFINE c == Call(pc, op, s, mode, reason, guard)
<1>1. c.op = op /\ c.s = s
  BY Zenon DEF Call
<1>2. task'[t] = c /\ \A u \in Tasks \ {t} : task'[u] = task[u]
  BY Zenon DEF Becomes, TypeInv, ManagerTypeOK
<1>3. CallOK(row'[c.s].status, c)
  BY <1>1, Zenon
<1> HIDE DEF c
<1> QED BY <1>1, <1>2, <1>3, CallsKept, Zenon

\* A call that goes on.
LEMMA GotoCalls ==
  ASSUME TypeInv, CallInv, RowStep, [ManagerNext]_managerVars, NEW t \in Tasks, NEW pc,
         task[t].pc \notin {"idle", "insert"}, Goto(t, pc),
         pc \in {"claim", "defer"} => task[t].pc \in {"claim", "defer"},
         pc \in {"discarding", "destroy", "reclaim"} => row'[task[t].s].status \in TornDown,
         pc \in {"create", "activate", "cleanup", "fail", "lost"} => task[t].op = "start",
         pc \in {"purge", "rebuild", "release", "degrade"} => task[t].op = "reset",
         pc \in {"discard", "discarding"} => task[t].op # "call",
         task[t].pc = "activate" => UNCHANGED row
  PROVE  CallInv'
<1>1. /\ task'[t].pc = pc /\ task'[t].op = task[t].op /\ task'[t].s = task[t].s
      /\ task'[t].mode = task[t].mode /\ task'[t].reason = task[t].reason
      /\ task'[t].guard = task[t].guard
      /\ \A u \in Tasks \ {t} : task'[u] = task[u]
  BY DEF Goto, TypeInv, ManagerTypeOK
<1>2. CallOK(row[task[t].s].status, task[t])
  BY DEF CallInv
<1>3. CallOK(row'[task[t].s].status, task[t])
  <2>1. CASE row' = row
    BY <1>2, <2>1, Zenon
  <2>2. CASE row' # row
    <3>1. \A u \in Tasks : Activate(u) => task[u].op = "start" /\ u # t
      BY <2>2, Zenon DEF Activate, At, CallInv, CallOK
    <3> QED BY <3>1, CallStays, Zenon DEF CallInv, OneStart
  <2> QED BY <2>1, <2>2, Zenon
<1>4. CallOK(row'[task'[t].s].status, task'[t])
  BY <1>1, <1>3, Zenon DEF CallOK
<1> QED BY <1>1, <1>4, CallsKept, Zenon

----------------------------------------------------------------------------
(* Every step keeps what is known of the calls.                            *)

\* The steps of a start.
LEMMA StartCalls ==
  ASSUME TypeInv, CallInv, RowStep, [ManagerNext]_managerVars, NEW t \in Tasks,
         \/ Insert(t) \/ Create(t) \/ Activate(t) \/ Cleanup(t) \/ Fail(t)
         \/ Discard(t) \/ Discarding(t) \/ Lost(t)
  PROVE  CallInv'
<1>1. CallOK(row[task[t].s].status, task[t])
  BY Zenon DEF CallInv
<1>2. CASE Insert(t)
  <2>1. CASE Becomes(t, IdleTask)
    <3>1. CallOK(row'[NoSession].status, IdleTask)
      BY Zenon DEF CallOK, IdleTask, Call
    <3> QED BY <2>1, <3>1, CallBecomes DEF IdleTask
  <2>2. ASSUME NEW o, NEW s \in Sessions, row[s].status = "UNUSED", Write(s, NewRow(o)),
               Becomes(t, Call("create", "start", s, "none", "none", StampGuard(1)))
        PROVE  CallInv'
    <3>1. row'[s].status = "CREATING"
      BY <2>2, Zenon DEF Write, NewRow, TypeInv, ManagerTypeOK
    <3>2. CallOK(row'[s].status, Call("create", "start", s, "none", "none", StampGuard(1)))
      BY <3>1, Zenon DEF CallOK, Call
    <3>3. \A u \in Tasks : task[u].op = "start" => task[u].s # s
      BY <2>2, Zenon DEF CallInv, CallOK, TornDown, TeardownOwned, TerminalStatuses
    <3> QED BY <2>2, <3>2, <3>3, CallBecomes, Zenon
  <2> QED BY <1>2, <2>1, <2>2, Zenon DEF Insert
<1>3. CASE Create(t)
  BY <1>1, <1>3, GotoCalls, Zenon DEF Create, At, CallOK
<1>4. CASE Activate(t)
  BY <1>1, <1>4, GotoCalls, ReturnCalls, Zenon DEF Activate, At, CallOK
<1>5. CASE Cleanup(t)
  BY <1>1, <1>5, GotoCalls, Zenon DEF Cleanup, At, CallOK
<1>6. CASE Fail(t)
  BY <1>1, <1>6, GotoCalls, ReturnCalls, Zenon DEF Fail, At, CallOK
<1>7. CASE Discard(t)
  <2>1. CASE AfterDiscard(t)
    BY <1>7, <2>1, GotoCalls, ReturnCalls, Zenon DEF Discard, AfterDiscard, At
  <2>2. CASE ~AfterDiscard(t)
    <3>1. /\ Goto(t, "discarding") /\ row' = row /\ task[t].pc = "discard"
          /\ ~Exists(task[t].s) \/ row[task[t].s].status \in TeardownOwned
      BY <1>7, <2>2, Zenon DEF Discard, At
    <3>2. task[t].s \in Sessions /\ row[task[t].s].status \in Statuses \cup NoRowStatuses
      BY <3>1, Serving, Zenon DEF Row
    <3>3. task[t].op # "call" /\ row[task[t].s].status # "UNUSED"
      BY <1>1, <3>1, Zenon DEF CallOK, Task, TypeInv, ManagerTypeOK, TornDown, TeardownOwned,
         TerminalStatuses
    <3>4. row[task[t].s].status \in TornDown
      BY <3>1, <3>2, <3>3, Zenon DEF Exists, NoRowStatuses, TornDown
    <3> QED BY <3>1, <3>3, <3>4, GotoCalls, Zenon
  <2> QED BY <2>1, <2>2, Zenon
<1>8. CASE Discarding(t)
  BY <1>1, <1>8, GotoCalls, ReturnCalls, Zenon DEF Discarding, AfterDiscard, At, CallOK
<1>9. CASE Lost(t)
  <2>1. task[t].op = "start" /\ row' = row /\ row[task[t].s].status \in {"CREATING"} \cup TornDown
    BY <1>1, <1>9, Zenon DEF Lost, At, CallOK
  <2>2. ASSUME NEW mode \in {"resume", "finish"},
               Becomes(t, Call("claim", "start", task[t].s, mode, row[task[t].s].reason, NoGuard))
        PROVE  CallInv'
    <3>1. CallOK(row'[task[t].s].status,
                 Call("claim", "start", task[t].s, mode, row[task[t].s].reason, NoGuard))
      BY <2>1, Zenon DEF CallOK, Call
    <3> QED BY <2>1, <2>2, <3>1, CallBecomes, Zenon
  <2> QED BY <1>9, <2>2, ReturnCalls, Zenon DEF Lost
<1> QED BY <1>2, <1>3, <1>4, <1>5, <1>6, <1>7, <1>8, <1>9, Zenon

\* The steps of a reset.
LEMMA ResetCalls ==
  ASSUME TypeInv, CallInv, RowStep, [ManagerNext]_managerVars, NEW t \in Tasks,
         ClaimReset(t) \/ Purge(t) \/ Rebuild(t) \/ Release(t) \/ Degrade(t)
  PROVE  CallInv'
<1>1. CallOK(row[task[t].s].status, task[t])
  BY Zenon DEF CallInv
<1>2. CASE ClaimReset(t)
  <2>1. CASE Return(t)
    BY <2>1, ReturnCalls, Zenon
  <2>2. CASE ~Return(t)
    <3> DEFINE s == task[t].s
               claimed == Moved(s, "RESETTING", row[s].reason, TRUE)
               call == Call("purge", "reset", s, "none", "none", StampGuard(claimed.stamp))
    <3>1. Write(s, claimed) /\ Becomes(t, call)
      BY <1>2, <2>2, Zenon DEF ClaimReset
    <3>2. s \in Sessions
      BY <1>2, Serving, Zenon DEF ClaimReset, At
    <3>3. row'[s].status = "RESETTING"
      BY <3>1, <3>2, Zenon DEF Write, Moved, TypeInv, ManagerTypeOK
    <3> HIDE DEF claimed
    <3>4. CallOK(row'[s].status, call)
      BY <3>3, Zenon DEF CallOK, Call
    <3> QED BY <3>1, <3>4, CallBecomes, Zenon
  <2> QED BY <2>1, <2>2, Zenon
<1>3. CASE Purge(t) \/ Rebuild(t)
  BY <1>1, <1>3, GotoCalls, Zenon DEF Purge, Rebuild, At, CallOK
<1>4. CASE Release(t) \/ Degrade(t)
  BY <1>1, <1>4, GotoCalls, ReturnCalls, Zenon DEF Release, Degrade, At, CallOK
<1> QED BY <1>2, <1>3, <1>4, Zenon

\* The steps of a teardown.
LEMMA TeardownCalls ==
  ASSUME TypeInv, CallInv, RowStep, [ManagerNext]_managerVars, NEW t \in Tasks,
         Defer(t) \/ Claim(t) \/ DestroyClaimed(t) \/ Record(t) \/ NotifyClosed(t) \/ Reclaim(t)
  PROVE  CallInv'
<1>1. CallOK(row[task[t].s].status, task[t])
  BY Zenon DEF CallInv
<1>2. CASE Defer(t)
  BY <1>2, GotoCalls, ReturnCalls, Zenon DEF Defer, At
<1>3. CASE Claim(t)
  <2>1. CASE Return(t)
    BY <2>1, ReturnCalls, Zenon
  <2>2. CASE ~Return(t)
    <3>1. /\ Transition(task[t].s, InProgress(task[t].mode), task[t].reason, FALSE)
          /\ Goto(t, "destroy") /\ task[t].pc = "claim"
      BY <1>3, <2>2, Zenon DEF Claim, At
    <3>2. row'[task[t].s].status \in TornDown
      BY <3>1, Serving, WriteChanges, Zenon DEF InProgress, TornDown, TeardownOwned
    <3> QED BY <3>1, <3>2, GotoCalls, Zenon
  <2> QED BY <2>1, <2>2, Zenon
<1>4. CASE DestroyClaimed(t) \/ NotifyClosed(t) \/ Reclaim(t)
  BY <1>4, GotoCalls, ReturnCalls, Zenon DEF DestroyClaimed, NotifyClosed, Reclaim, At
<1>5. CASE Record(t)
  BY <1>5, GotoCalls, ReturnCalls, Zenon DEF Record, At
<1> QED BY <1>2, <1>3, <1>4, <1>5, Zenon

\* A teardown that begins.
LEMMA TeardownBegins ==
  ASSUME TypeInv, CallInv, RowStep, [ManagerNext]_managerVars, NEW t \in Tasks, NEW s \in Sessions,
         NEW mode, NEW reason, NEW guard, Teardown(t, s, mode, reason, guard),
         mode = "expire" => Fenced(row[s].status, reason, guard),
         mode = "operator" => reason = "operator"
  PROVE  CallInv'
<1>1. PICK pc \in {"defer", "claim"} : Becomes(t, Call(pc, "call", s, mode, reason, guard))
  BY Zenon DEF Teardown
<1>2. CallOK(row'[s].status, Call(pc, "call", s, mode, reason, guard))
  <2>1. row' = row
    BY Zenon DEF Teardown
  <2> QED BY <2>1, Zenon DEF CallOK, Call
<1> QED BY <1>1, <1>2, CallBecomes, Zenon

\* A request that begins.
LEMMA RequestCalls ==
  ASSUME TypeInv, CallInv, RowStep, [ManagerNext]_managerVars, NEW t \in Tasks, Request(t)
  PROVE  CallInv'
<1>1. CASE Start(t)
  <2>1. CallOK(row'[NoSession].status, Call("insert", "call", NoSession, "none", "none", NoGuard))
    BY Zenon DEF CallOK, Call
  <2> QED BY <1>1, <2>1, CallBecomes, Zenon DEF Start
<1>2. ASSUME NEW s \in Sessions, Reset(t, s)
      PROVE  CallInv'
  <2>1. CallOK(row'[s].status, Call("rclaim", "call", s, "none", "none", NoGuard))
    BY Zenon DEF CallOK, Call
  <2> QED BY <1>2, <2>1, CallBecomes, Zenon DEF Reset
<1>3. ASSUME NEW s \in Sessions, End(t, s) \/ EndByOperator(t, s)
      PROVE  CallInv'
  BY <1>3, TeardownBegins, Zenon DEF End, EndByOperator, ResumeAbandonedEnd
<1> QED BY <1>1, <1>2, <1>3, Zenon DEF Request

\* A destroy the sandboxes part begins.
LEMMA DestroyCalls ==
  ASSUME TypeInv, CallInv, RowStep, [ManagerNext]_managerVars, NEW t \in Tasks, NEW s \in Sessions,
         row[s].status \in TornDown, DestroySandbox(t, s)
  PROVE  CallInv'
<1>1. row'[s].status \in TornDown
  BY Zenon DEF DestroySandbox
<1>2. CallOK(row'[s].status, Call("reclaim", "call", s, "none", "none", NoGuard))
  BY <1>1, Zenon DEF CallOK, Call
<1> QED BY <1>2, CallBecomes, Zenon DEF DestroySandbox

\* What leaves the calls alone.
LEMMA IdleCalls ==
  ASSUME TypeInv, CallInv, RowStep, [ManagerNext]_managerVars, UNCHANGED task
  PROVE  CallInv'
<1>1. ASSUME NEW v \in Tasks, Activate(v)
      PROVE  FALSE
  <2>1. CASE Return(v)
    BY <1>1, <2>1 DEF Return, Becomes, IdleTask, Call, Activate, At, TypeInv, ManagerTypeOK
  <2>2. CASE Goto(v, "discard")
    BY <1>1, <2>2 DEF Goto, Activate, At, TypeInv, ManagerTypeOK, Task
  <2> QED BY <1>1, <2>1, <2>2, Zenon DEF Activate
<1> QED BY <1>1, CallsDropped

\* The steps of a sweep: an expiry carries the fence the sweep planned it with.
LEMMA SweepCalls ==
  ASSUME ReaperInv, CallInv, RowStep, [ManagerNext]_managerVars, NEW i \in DOMAIN Reaper, SweepStep(i)
  PROVE  CallInv'
<1>1. Reaper[i] \in Tasks /\ i \in Instances /\ TypeInv
  BY ReaperAssumption, Zenon DEF ReaperInv
<1>2. \A s \in Sessions : PlanOK(row[s].status, sweep[i].plan[s])
  BY <1>1, Zenon DEF ReaperInv, SweepInv
<1>3. CASE UNCHANGED task
  BY <1>1, <1>3, IdleCalls, Zenon
<1>4. ASSUME NEW s \in Sessions, SweepResumes(i, s)
      PROVE  CallInv'
  BY <1>1, <1>3, <1>4, TeardownBegins, Zenon DEF SweepResumes, Calls, ResumeAbandonedEnd,
     managerVars
<1>5. ASSUME NEW s \in Sessions, SweepExpires(i, s)
      PROVE  CallInv'
  <2>1. Fenced(row[s].status, sweep[i].plan[s].reason, sweep[i].plan[s].guard)
    BY <1>2, <1>5, Zenon DEF PlanOK, SweepExpires, TakesUp
  <2> QED BY <1>1, <1>3, <1>5, <2>1, TeardownBegins DEF SweepExpires, Calls, Expire, managerVars
<1>6. ASSUME NEW s \in Sessions, SweepReclaims(i, s) \/ SweepDestroys(i, s)
      PROVE  CallInv'
  <2>1. SweepDestroys(i, s) => row[s].status \in TornDown
    BY <1>2, Zenon DEF PlanOK, SweepDestroys, TakesUp, TornDown
  <2>2. row[s].status \in TerminalStatuses => row[s].status \in TornDown
    BY Zenon DEF TornDown, TeardownOwned
  <2> QED BY <1>1, <1>3, <1>6, <2>1, <2>2, DestroyCalls DEF SweepReclaims, SweepDestroys,
             ReclaimSandbox, managerVars
<1>7. ASSUME NEW s \in Sessions, SweepRecovers(i, s) \/ Reconcile(i, s) \/ SweepForgets(i, s)
      PROVE  CallInv'
  BY <1>3, <1>7, Zenon DEF SweepRecovers, Reconcile, SweepForgets, RecoverInterruptedReset,
     MarkSandboxStopped, Forget, managerVars
<1>8. CASE SweepBegin(i) \/ ListSessions(i) \/ ListSandboxes(i) \/ RetentionBegin(i) \/ SweepEnd(i)
  BY <1>3, <1>8, Zenon DEF SweepBegin, ListSessions, ListSandboxes, RetentionBegin, SweepEnd,
     managerVars
<1> QED BY <1>4, <1>5, <1>6, <1>7, <1>8, Zenon DEF SweepStep

\* Every step of the system.
LEMMA CallsStep ==
  ASSUME ReaperInv, CallInv, [Next]_vars
  PROVE  CallInv'
<1>1. TypeInv /\ RowStep /\ [ManagerNext]_managerVars
  BY SystemManages, NextStep, Zenon DEF ReaperInv, StepOK
<1>2. CASE UNCHANGED task
  BY <1>1, <1>2, IdleCalls, Zenon
<1>3. ASSUME NEW t \in Tasks, TaskStep(t)
      PROVE  CallInv'
  BY <1>1, <1>3, StartCalls, ResetCalls, TeardownCalls, Zenon DEF TaskStep
<1>4. CASE ManagerStep
  BY <1>1, <1>2, <1>3, <1>4, RequestCalls, Zenon DEF ManagerStep, TouchActivity, SandboxStops,
     SandboxVanishes, HandOver
<1>5. ASSUME NEW i \in Instances, Down(i)
      PROVE  CallInv'
  <2>1. /\ UNCHANGED row
        /\ \A u \in Tasks : task'[u] \in {task[u], IdleTask}
    BY <1>5, Zenon DEF Down, Crash
  <2>2. IdleTask.op = "call" /\ IdleTask.pc = "idle" /\ IdleTask.mode = "none"
    BY Zenon DEF IdleTask, Call
  <2> QED BY <2>1, <2>2 DEF CallInv, OneStart, CallOK
<1>6. ASSUME NEW t \in Tasks, StoreError(t)
      PROVE  CallInv'
  BY <1>1, <1>6, ReturnCalls, Zenon DEF StoreError
<1>7. CASE Fault
  BY <1>2, <1>5, <1>6, <1>7, Zenon DEF Fault, SweepThrows, SweepSkips, InterruptInFlight,
     managerVars
<1>8. CASE UNCHANGED vars \/ \E s \in Sessions : DeadlinePasses(s)
  BY <1>2, <1>8, Zenon DEF vars, managerVars, DeadlinePasses
<1> QED BY <1>1, <1>4, <1>5, <1>7, <1>8, SweepCalls, Zenon DEF Next, Exit

----------------------------------------------------------------------------
(* What a step may never do.                                               *)

\* The claim that makes a session EXPIRING is made under its fence.
LEMMA ClaimFenced ==
  ASSUME ReaperInv, CallInv, NEW t \in Tasks, Claim(t), NEW s \in Sessions, task[t].s = s,
         row[s].status \in LiveStatuses, row'[s].status = "EXPIRING"
  PROVE  /\ row'[s].reason = "idle" => task[t].guard.activity = row[s].activity
         /\ row'[s].reason = "start" => row[s].status = "CREATING"
<1>1. row[s].status # "EXPIRING" /\ row[s].status \notin TornDown
  BY DEF LiveStatuses, TornDown, TeardownOwned, TerminalStatuses
<1>2. /\ Matches(s, Claimable(task[t].mode), task[t].guard)
      /\ row'[s].status = InProgress(task[t].mode) /\ row'[s].reason = task[t].reason
  BY <1>1, WriteChanges DEF Claim, ReaperInv
<1>3. task[t].mode \in {"expire", "operator"}
  BY <1>1, <1>2, Zenon DEF InProgress, Claimable, Matches
<1>4. CallOK(row[s].status, task[t]) /\ task[t].pc = "claim"
  BY Zenon DEF CallInv, Claim, At
<1>5. RowOK(s)
  BY Zenon DEF ReaperInv, RowInv
<1>6. task[t].mode = "expire" => Fenced(row[s].status, task[t].reason, task[t].guard)
  BY <1>4, Zenon DEF CallOK
<1>7. task[t].mode = "operator" => task[t].reason = "operator"
  BY <1>4, Zenon DEF CallOK
<1> QED BY <1>1, <1>2, <1>3, <1>5, <1>6, <1>7 DEF Fenced, Matches, RowOK

\* Only a claim moves a call from there to the destroy.
LEMMA ClaimsOnly ==
  ASSUME TypeInv, [ManagerNext]_managerVars, NEW s \in Sessions,
         row[s].status \in LiveStatuses \ {"CREATING"}, row'[s].status = "EXPIRING"
  PROVE  \E t \in Tasks : task[t].s = s /\ Claim(t)
<1>1. ASSUME NEW t \in Tasks, task[t].s = s, Activate(t)
      PROVE  FALSE
  BY <1>1, Zenon DEF Activate, Matches, NoGuard, LiveStatuses
<1> QED BY <1>1, StepWrites, Zenon DEF Written, LiveStatuses

\* A call that goes anywhere else begins no destroy; nor does one that returns
\* or becomes another call.
LEMMA NoDestroyBegins ==
  ASSUME TypeInv, NEW t \in Tasks, NEW u \in Tasks, task'[u].pc = "destroy",
         \/ Return(t)
         \/ \E pc : pc # "destroy" /\ Goto(t, pc)
         \/ \E pc, op, s, mode, reason, guard :
              pc # "destroy" /\ Becomes(t, Call(pc, op, s, mode, reason, guard))
  PROVE  task[u].pc = "destroy"
<1>1. task \in [Tasks -> Task]
  BY Zenon DEF TypeInv, ManagerTypeOK
<1>2. CASE \E pc : pc # "destroy" /\ Goto(t, pc)
  BY <1>2 DEF Goto, Task
<1>3. ASSUME NEW pc, NEW op, NEW s, NEW mode, NEW reason, NEW guard,
             pc # "destroy", Becomes(t, Call(pc, op, s, mode, reason, guard))
      PROVE  task[u].pc = "destroy"
  BY <1>3 DEF Becomes, Call
<1> QED BY <1>2, <1>3, Zenon DEF Return, IdleTask

\* The destroy of a teardown follows its own claim.
LEMMA DestroyBegins ==
  ASSUME TypeInv, [ManagerNext]_managerVars, NEW u \in Tasks,
         task[u].pc # "destroy", task'[u].pc = "destroy"
  PROVE  Claim(u)
<1>1. ASSUME UNCHANGED task
      PROVE  FALSE
  BY <1>1, Zenon
<1>2. ASSUME NEW t \in Tasks, Claim(t)
      PROVE  Claim(u)
  <2>1. task' = [task EXCEPT ![t].pc = "destroy"]
    BY <1>2, NoDestroyBegins, Zenon DEF Claim, Goto
  <2>2. u = t
    BY <2>1
  <2> QED BY <1>2, <2>2, Zenon
<1>3. ASSUME NEW t \in Tasks, Insert(t) \/ Lost(t) \/ ClaimReset(t)
      PROVE  FALSE
  BY <1>3, NoDestroyBegins, Zenon DEF Insert, Lost, ClaimReset, IdleTask
<1>4. ASSUME NEW t \in Tasks,
             \/ Create(t) \/ Activate(t) \/ Cleanup(t) \/ Fail(t) \/ Discard(t) \/ Discarding(t)
             \/ Purge(t) \/ Rebuild(t) \/ Release(t) \/ Degrade(t)
      PROVE  FALSE
  BY <1>4, NoDestroyBegins, Zenon DEF Create, Activate, Cleanup, Fail, Discard, Discarding,
     AfterDiscard, Purge, Rebuild, Release, Degrade
<1>5. ASSUME NEW t \in Tasks,
             Defer(t) \/ DestroyClaimed(t) \/ Record(t) \/ NotifyClosed(t) \/ Reclaim(t)
      PROVE  FALSE
  BY <1>5, NoDestroyBegins, Zenon DEF Defer, DestroyClaimed, Record, NotifyClosed, Reclaim
<1>6. ASSUME NEW t \in Tasks, NEW s, NEW mode, NEW reason, NEW guard,
             Teardown(t, s, mode, reason, guard)
      PROVE  FALSE
  <2>1. PICK pc \in {"defer", "claim"} : Becomes(t, Call(pc, "call", s, mode, reason, guard))
    BY <1>6, Zenon DEF Teardown
  <2> QED BY <2>1, NoDestroyBegins, Zenon
<1>7. CASE \E t \in Tasks : TaskStep(t)
  BY <1>2, <1>3, <1>4, <1>5, <1>7, Zenon DEF TaskStep
<1>8. ASSUME NEW t \in Tasks, Request(t)
      PROVE  FALSE
  BY <1>6, <1>8, NoDestroyBegins, Zenon DEF Request, Start, Reset, End, EndByOperator,
     ResumeAbandonedEnd
<1>9. CASE Environment
  <2>1. ASSUME NEW i \in Instances, Crash(i)
        PROVE  FALSE
    BY <2>1, Zenon DEF Crash, IdleTask, Call
  <2> QED BY <1>9, <2>1, NoDestroyBegins, Zenon DEF Environment, TouchActivity, SandboxStops,
             SandboxVanishes, InterruptInFlight, HandOver, StoreError
<1>10. CASE Maintenance
  BY <1>6, <1>10, NoDestroyBegins, Zenon DEF Maintenance, Expire, ResumeAbandonedEnd,
     ReclaimSandbox, DestroySandbox, RecoverInterruptedReset, MarkSandboxStopped, Forget
<1>11. CASE UNCHANGED managerVars
  BY <1>11, Zenon DEF managerVars
<1> QED BY <1>7, <1>8, <1>9, <1>10, <1>11 DEF ManagerNext

\* A call that may remove a sandbox, and whose.
LEMMA SandboxRemoved ==
  ASSUME TypeInv, CallInv, [ManagerNext]_managerVars, NEW s \in Sessions,
         row[s].status = "ACTIVE", sandbox[s] = "present",
         sandbox'[s] \in {"absent", "terminating"}
  PROVE  \E t \in Tasks : /\ task[t].s = s /\ task[t].op = "reset"
                          /\ task[t].pc \in {"purge", "rebuild"}
<1>1. ASSUME UNCHANGED sandbox
      PROVE  FALSE
  BY <1>1, Zenon
<1>2. sandbox \in [Sessions -> SandboxStates] /\ "ACTIVE" \notin {"CREATING"} \cup TornDown
  BY Zenon DEF TypeInv, ManagerTypeOK, TornDown, TeardownOwned, TerminalStatuses
<1>3. \A t \in Tasks : CallOK(row[task[t].s].status, task[t])
  BY Zenon DEF CallInv
<1>4. ASSUME NEW t \in Tasks, NEW gone, Destroy(task[t].s, gone),
             task[t].pc \in {"cleanup", "discarding", "destroy", "reclaim"}
      PROVE  FALSE
  <2>1. task[t].s = s
    BY <1>2, <1>4, Zenon DEF Destroy
  <2> QED BY <1>2, <1>3, <1>4, <2>1, Zenon DEF CallOK
<1>5. ASSUME NEW t \in Tasks, Create(t)
      PROVE  FALSE
  <2>1. task[t].s = s /\ task[t].pc = "create"
    BY <1>2, <1>5, Zenon DEF Create, Build, BuildFails, At
  <2> QED BY <1>2, <1>3, <2>1, Zenon DEF CallOK
<1>6. ASSUME NEW t \in Tasks, Purge(t) \/ Rebuild(t)
      PROVE  /\ task[t].s = s /\ task[t].op = "reset"
             /\ task[t].pc \in {"purge", "rebuild"}
  <2>1. task[t].pc \in {"purge", "rebuild"} /\ task[t].op = "reset"
    BY <1>3, <1>6, Zenon DEF Purge, Rebuild, At, CallOK
  <2>2. task[t].s = s
    BY <1>2, <1>6, Zenon DEF Purge, Destroy, Rebuild, Build, BuildFails
  <2> QED BY <2>1, <2>2, Zenon
<1>7. ASSUME NEW t \in Tasks, Cleanup(t) \/ Discarding(t) \/ DestroyClaimed(t) \/ Reclaim(t)
      PROVE  FALSE
  BY <1>4, <1>7, Zenon DEF Cleanup, Discarding, DestroyClaimed, Reclaim, At
<1>8. ASSUME NEW t \in Tasks,
             \/ Insert(t) \/ Activate(t) \/ Fail(t) \/ Discard(t) \/ Lost(t)
             \/ ClaimReset(t) \/ Release(t) \/ Degrade(t)
             \/ Defer(t) \/ Claim(t) \/ Record(t) \/ NotifyClosed(t)
      PROVE  FALSE
  BY <1>8, Zenon DEF Insert, Activate, Fail, Discard, Lost, ClaimReset, Release, Degrade, Defer,
     Claim, Record, NotifyClosed
<1>9. ASSUME NEW t \in Tasks, Request(t)
      PROVE  FALSE
  BY <1>9, Zenon DEF Request, Start, Reset, End, EndByOperator, ResumeAbandonedEnd, Teardown
<1>10. ASSUME Environment
       PROVE  FALSE
  <2>1. ASSUME NEW u \in Sessions, SandboxStops(u) \/ SandboxVanishes(u)
        PROVE  FALSE
    BY <1>2, <2>1, Zenon DEF SandboxStops, SandboxVanishes
  <2> QED BY <1>10, <2>1, Zenon DEF Environment, TouchActivity, InterruptInFlight, HandOver, Crash,
             StoreError
<1>11. ASSUME Maintenance
       PROVE  FALSE
  BY <1>11, Zenon DEF Maintenance, Expire, ResumeAbandonedEnd, Teardown, ReclaimSandbox,
     DestroySandbox, RecoverInterruptedReset, MarkSandboxStopped, Forget
<1>12. ASSUME UNCHANGED managerVars
       PROVE  FALSE
  BY <1>12, Zenon DEF managerVars
<1> QED BY <1>5, <1>6, <1>7, <1>8, <1>9, <1>10, <1>11, <1>12 DEF ManagerNext, TaskStep

\* Nothing is known of a call before there is one.
LEMMA CallInit == Init => CallInv
  BY DEF Init, ManagerInit, CallInv, OneStart, CallOK, IdleTask, Call

\* Every step of the composed system keeps both invariants.
LEMMA SystemStep ==
  ReaperInv /\ CallInv /\ [Next]_vars => ReaperInv' /\ CallInv' /\ [ManagerNext]_managerVars
  BY ReaperStep, CallsStep, Zenon

\* A student who was active after a sweep judged the session idle keeps the lab:
\* the claim of an idle expiry compares lastActivityAt with what was listed,
\* however old the listing is (#finish, #teardown).
THEOREM ActiveSinceHolds == Spec => ActiveSinceKeepsLab
<1> DEFINE Kept == \A s \in Sessions, t \in Tasks :
                     /\ row[s].status \in LiveStatuses /\ row'[s].status = "EXPIRING"
                     /\ task[t].s = s /\ At(t, "claim") /\ task'[t].pc = "destroy"
                     /\ row'[s].reason = "idle"
                     => task[t].guard.activity = row[s].activity
<1>1. ReaperInv /\ CallInv /\ [Next]_vars => Kept
  <2> SUFFICES ASSUME ReaperInv, CallInv, [Next]_vars, NEW s \in Sessions, NEW t \in Tasks,
                      row[s].status \in LiveStatuses, row'[s].status = "EXPIRING",
                      task[t].s = s, At(t, "claim"), task'[t].pc = "destroy",
                      row'[s].reason = "idle"
               PROVE  task[t].guard.activity = row[s].activity
    BY Zenon
  <2>1. Claim(t)
    BY SystemStep, DestroyBegins, Zenon DEF ReaperInv, At
  <2> QED BY <2>1, ClaimFenced, Zenon
<1>2. ReaperInv /\ CallInv /\ [Next]_vars => ReaperInv' /\ CallInv' /\ [Kept]_vars
  BY <1>1, SystemStep, Zenon
<1> QED BY ReaperInit, CallInit, <1>2, PTL DEF Spec, ActiveSinceKeepsLab

\* A lab that reached ACTIVE is never torn down as an abandoned start, by a
\* sweep that listed it while it was being created or by a shutdown that knew
\* its start (#finish, interruptInFlight): the first stamp fences both.
THEOREM StartedHolds == Spec => StartedIsNotAbandoned
<1> DEFINE Kept == \A s \in Sessions :
                     row[s].status \in LiveStatuses \ {"CREATING"} /\ row'[s].status = "EXPIRING"
                     => row'[s].reason # "start"
<1>1. ReaperInv /\ CallInv /\ [Next]_vars => Kept
  <2> SUFFICES ASSUME ReaperInv, CallInv, [Next]_vars, NEW s \in Sessions,
                      row[s].status \in LiveStatuses \ {"CREATING"},
                      row'[s].status = "EXPIRING"
               PROVE  row'[s].reason # "start"
    BY Zenon
  <2>1. PICK t \in Tasks : task[t].s = s /\ Claim(t)
    BY SystemStep, ClaimsOnly, Zenon DEF ReaperInv
  <2> QED BY <2>1, ClaimFenced, Zenon
<1>2. ReaperInv /\ CallInv /\ [Next]_vars => ReaperInv' /\ CallInv' /\ [Kept]_managerVars
  BY <1>1, SystemStep, Zenon
<1> QED BY ReaperInit, CallInit, <1>2, PTL DEF Spec, StartedIsNotAbandoned

\* Nothing removes the sandbox of an ACTIVE session but the rebuild of a reset
\* that lost its claim: no lost start, no teardown, no reclaim of an orphan,
\* whatever the sweep that began it had listed (#discardLostWork, #failSession,
\* reclaimFinishedSandbox).
THEOREM SandboxHolds == Spec => ActiveSandboxKept
<1> DEFINE Kept == \A s \in Sessions :
                     row[s].status = "ACTIVE" /\ sandbox[s] = "present"
                     /\ sandbox'[s] \in {"absent", "terminating"} =>
                       \E t \in Tasks : /\ task[t].s = s /\ task[t].op = "reset"
                                        /\ task[t].pc \in {"purge", "rebuild"}
<1>1. ReaperInv /\ CallInv /\ [Next]_vars => Kept
  BY SystemStep, SandboxRemoved, Zenon DEF ReaperInv
<1>2. ReaperInv /\ CallInv /\ [Next]_vars => ReaperInv' /\ CallInv' /\ [Kept]_managerVars
  BY <1>1, SystemStep, Zenon
<1> QED BY ReaperInit, CallInit, <1>2, PTL DEF Spec, ActiveSandboxKept
=============================================================================
