--------------------------- MODULE SessionManager ---------------------------
(***************************************************************************)
(* The session store and the SessionManager that drives it                 *)
(* (services/lab-orchestrator/src/session/{store,postgres-store,manager}). *)
(*                                                                         *)
(* Every API process is an instance; a task is one asynchronous manager    *)
(* call running in an instance, and each step of a task is the code between*)
(* two awaits: one store call or one provider call.  The rows are shared   *)
(* by all instances; the sandboxes live in the substrate behind the        *)
(* providers.                                                              *)
(*                                                                         *)
(* Time is abstract.  A stamp is the number of the row's last status change*)
(* (statusChangedAt) and an activity the number of its last activity       *)
(* (lastActivityAt); 0 means "no stamp".  A task may be arbitrarily slow.  *)
(***************************************************************************)
EXTENDS SessionTypes, Naturals, Sequences, FiniteSets

CONSTANTS Sessions,       \* the ids newSessionId may draw
          Owners,         \* students
          NoOwner,        \* a session started without a verified identity
          NoSession,      \* a task that serves no session
          Kind,           \* sandboxKind: "container" or "namespace"
          Instances,      \* API processes
          Tasks,          \* concurrent manager calls
          Host,           \* the instance each task runs in
          MaxOccupying,   \* MAX_ACTIVE_SESSIONS
          DeploymentLimit,\* MAX_ACTIVE_SESSIONS_PER_STUDENT, 0 for none
          PlanLimit,      \* the limit an owner's plan grants, 0 for none
          MaxStamp,       \* bound: no reset is requested of a row stamped this late
          MaxActivity     \* bound: activity pings recorded per row

ASSUME ManagerAssumption ==
  /\ IsFiniteSet(Sessions)
  /\ NoSession \notin Sessions /\ NoOwner \notin Owners
  /\ Kind \in [Sessions -> {"container", "namespace"}]
  /\ Host \in [Tasks -> Instances]
  /\ MaxOccupying \in Nat /\ DeploymentLimit \in Nat
  /\ PlanLimit \in [Owners -> Nat]
  /\ MaxStamp \in Nat /\ MaxActivity \in Nat

VARIABLES row,            \* the sessions table
          sandbox,        \* the substrate's resource of each session
          task,           \* the manager calls in flight
          resetsInFlight, \* #resetsInFlight: instance -> session -> claim stamp
          stopping,       \* #stopping of each instance
          handover,       \* the writes of interruptInFlight not yet made
          closed          \* onSessionClosed events delivered, per session

managerVars == <<row, sandbox, task, resetsInFlight, stopping, handover, closed>>

----------------------------------------------------------------------------
(* Types.                                                                  *)

\* statusReason, told apart as far as endReasonFor tells an ending apart; a
\* failed provision, a failed reset and a stopped container are "failure".
Reasons == {"none", "student", "operator", "lifetime", "idle", "start", "failure"}

Row == [status : Statuses \cup NoRowStatuses, stamp : Nat, activity : Nat,
        reason : Reasons, owner : Owners \cup {NoOwner}]

NoRow(status) == [status |-> status, stamp |-> 0, activity |-> 0,
                  reason |-> "none", owner |-> NoOwner]

NewRow(o) == [status |-> "CREATING", stamp |-> 1, activity |-> 1,
              reason |-> "none", owner |-> o]

\* A TransitionGuard; 0 leaves that field out of the comparison.
Guard == [stamp : Nat, activity : Nat]

NoGuard == [stamp |-> 0, activity |-> 0]

StampGuard(n) == [stamp |-> n, activity |-> 0]

ActivityGuard(n) == [stamp |-> 0, activity |-> n]

SandboxStates == {"absent", "present", "stopped", "terminating"}

\* How a call runs #teardown: end, expire, endByOperator, the resumption of an
\* End, and the completion of an expiry.
Modes == {"none", "end", "expire", "operator", "resume", "finish"}

PCs == {"idle", "insert", "create", "activate", "cleanup", "fail", "discard",
        "discarding", "lost", "rclaim", "purge", "rebuild", "release",
        "degrade", "defer", "claim", "destroy", "record", "notify", "reclaim"}

\* op says what finally-block the call runs: a start and a reset deregister
\* themselves, any other call has nothing to undo.
Task == [pc : PCs, op : {"call", "start", "reset"}, s : Sessions \cup {NoSession},
         mode : Modes, reason : Reasons, guard : Guard]

Call(pc, op, s, mode, reason, guard) ==
  [pc |-> pc, op |-> op, s |-> s, mode |-> mode, reason |-> reason, guard |-> guard]

IdleTask == Call("idle", "call", NoSession, "none", "none", NoGuard)

HandoverWrite == [op : {"start", "reset"}, s : Sessions, stamp : Nat]

ManagerTypeOK ==
  /\ row \in [Sessions -> Row]
  /\ sandbox \in [Sessions -> SandboxStates]
  /\ task \in [Tasks -> Task]
  /\ resetsInFlight \in [Instances -> [Sessions -> Nat]]
  /\ stopping \in [Instances -> BOOLEAN]
  /\ handover \in [Instances -> SUBSET HandoverWrite]
  /\ closed \in [Sessions -> Seq({"ENDED", "EXPIRED"})]

ManagerInit ==
  /\ row = [s \in Sessions |-> NoRow("UNUSED")]
  /\ sandbox = [s \in Sessions |-> "absent"]
  /\ task = [t \in Tasks |-> IdleTask]
  /\ resetsInFlight = [i \in Instances |-> [s \in Sessions |-> 0]]
  /\ stopping = [i \in Instances |-> FALSE]
  /\ handover = [i \in Instances |-> {}]
  /\ closed = [s \in Sessions |-> <<>>]

----------------------------------------------------------------------------
(* The store.                                                              *)

Exists(s) == row[s].status \in Statuses

\* Mutant: the activity a fence names is not compared.
MatchesStampOnly(s, from, guard) ==
  row[s].status \in from /\ guard.stamp \in {0, row[s].stamp}

\* SessionStore.transition refuses a row in another status, or one whose stamps
\* are not those the guard names.
Matches(s, from, guard) ==
  /\ row[s].status \in from
  /\ guard.stamp \in {0, row[s].stamp}
  /\ guard.activity \in {0, row[s].activity}

\* Mutant: the claim of a reset and its recovery keep the old stamp.
MovedUnstamped(s, to, reason, active) ==
  [row[s] EXCEPT !.status = to, !.reason = reason,
                 !.stamp = IF to \in {"RESETTING", "DEGRADED"} THEN @ ELSE @ + 1,
                 !.activity = IF active THEN @ + 1 ELSE @]

\* The row a successful transition writes: restamped only if the status moves.
Moved(s, to, reason, active) ==
  [status   |-> to,
   stamp    |-> IF row[s].status = to THEN row[s].stamp ELSE row[s].stamp + 1,
   activity |-> IF active THEN row[s].activity + 1 ELSE row[s].activity,
   reason   |-> reason,
   owner    |-> row[s].owner]

Write(s, r) == row' = [row EXCEPT ![s] = r]

Transition(s, to, reason, active) == Write(s, Moved(s, to, reason, active))

Occupying == {s \in Sessions : row[s].status \in OccupyingStatuses}

OccupyingOf(o) == {s \in Occupying : row[s].owner = o}

\* perOwnerLimit of #insertSession, 0 for none.
PerOwnerLimit(o) ==
  IF PlanLimit[o] >= 1 /\ (DeploymentLimit = 0 \/ PlanLimit[o] < DeploymentLimit)
  THEN PlanLimit[o]
  ELSE DeploymentLimit

\* Mutant: one session too many.
AdmitsOneMore(o) ==
  /\ o \in Owners /\ PerOwnerLimit(o) > 0 =>
       Cardinality(OccupyingOf(o)) <= PerOwnerLimit(o)
  /\ Cardinality(Occupying) < MaxOccupying

\* decideCapacity: the owner's limit, when there is an owner and a limit, then
\* the deployment's.
Admits(o) ==
  /\ o \in Owners /\ PerOwnerLimit(o) > 0 =>
       Cardinality(OccupyingOf(o)) < PerOwnerLimit(o)
  /\ Cardinality(Occupying) < MaxOccupying

----------------------------------------------------------------------------
(* What every task step is built from.                                     *)

At(t, pc) == task[t].pc = pc

Becomes(t, call) == task' = [task EXCEPT ![t] = call]

Goto(t, pc) == /\ task' = [task EXCEPT ![t].pc = pc]
               /\ UNCHANGED resetsInFlight

\* The call returns or throws; a reset's finally deletes its instance's entry.
Return(t) ==
  /\ Becomes(t, IdleTask)
  /\ resetsInFlight' = IF task[t].op = "reset"
                       THEN [resetsInFlight EXCEPT ![Host[t]][task[t].s] = 0]
                       ELSE resetsInFlight

\* provider.destroy: verified gone, or refused, failed or still terminating.  A
\* container whose inspection fails after the removal counts as gone.
Destroy(s, gone) ==
  \/ gone /\ sandbox' = [sandbox EXCEPT ![s] = "absent"]
  \/ ~gone /\ UNCHANGED sandbox
  \/ /\ gone => Kind[s] = "container"
     /\ sandbox[s] # "absent" /\ sandbox' = [sandbox EXCEPT ![s] = "terminating"]

\* provider.create of either kind, and the second half of a container's reset: a
\* new sandbox, or a failure that leaves what was there, a part of it, or - a
\* container is removed before it is created - nothing.
Build(s) ==
  /\ sandbox[s] # "terminating"
  /\ sandbox' = [sandbox EXCEPT ![s] = "present"]

BuildFails(s) ==
  \/ UNCHANGED sandbox
  \/ Build(s)
  \/ /\ Kind[s] = "container" /\ sandbox[s] # "terminating"
     /\ sandbox' = [sandbox EXCEPT ![s] = "absent"]

----------------------------------------------------------------------------
(* start.                                                                  *)

\* start up to its #stopping check.  A lab, provider or availability refusal
\* happens before it and leaves nothing behind.
Start(t) ==
  /\ At(t, "idle") /\ ~stopping[Host[t]]
  /\ Becomes(t, Call("insert", "call", NoSession, "none", "none", NoGuard))
  /\ UNCHANGED <<row, sandbox, resetsInFlight, stopping, handover, closed>>

\* #insertSession: the count and the insert are one store call.
Insert(t) ==
  /\ At(t, "insert")
  /\ \E o \in Owners \cup {NoOwner} :
       \/ /\ Admits(o)
          /\ \E s \in Sessions :
             /\ row[s].status = "UNUSED"
             /\ Write(s, NewRow(o))
             /\ Becomes(t, Call("create", "start", s, "none", "none", StampGuard(1)))
       \/ /\ ~Admits(o)
          /\ Becomes(t, IdleTask)
          /\ UNCHANGED row
  /\ UNCHANGED <<sandbox, resetsInFlight, stopping, handover, closed>>

Create(t) ==
  /\ At(t, "create")
  /\ \/ Build(task[t].s) /\ Goto(t, "activate")
     \/ BuildFails(task[t].s) /\ Goto(t, "cleanup")
  /\ UNCHANGED <<row, stopping, handover, closed>>

\* Mutant: the update is unconditional.
ActivateAnyway(t) ==
  /\ At(t, "activate")
  /\ Transition(task[t].s, "ACTIVE", row[task[t].s].reason, TRUE)
  /\ Return(t)
  /\ UNCHANGED <<sandbox, stopping, handover, closed>>

\* CREATING -> ACTIVE, unless a teardown claimed the session meanwhile.
Activate(t) ==
  /\ At(t, "activate")
  /\ LET s == task[t].s IN
     \/ /\ Matches(s, {"CREATING"}, NoGuard)
        /\ Transition(s, "ACTIVE", row[s].reason, TRUE)
        /\ Return(t)
     \/ /\ ~Matches(s, {"CREATING"}, NoGuard)
        /\ Goto(t, "discard") /\ UNCHANGED row
  /\ UNCHANGED <<sandbox, stopping, handover, closed>>

\* #failSession: best-effort destroy, then CREATING -> FAILED.
Cleanup(t) ==
  /\ At(t, "cleanup")
  /\ \E gone \in BOOLEAN : Destroy(task[t].s, gone)
  /\ Goto(t, "fail")
  /\ UNCHANGED <<row, stopping, handover, closed>>

Fail(t) ==
  /\ At(t, "fail")
  /\ LET s == task[t].s IN
     \/ /\ Matches(s, {"CREATING"}, NoGuard)
        /\ Transition(s, "FAILED", "failure", FALSE)
        /\ Return(t)
     \/ /\ ~Matches(s, {"CREATING"}, NoGuard)
        /\ Goto(t, "lost") /\ UNCHANGED row
  /\ UNCHANGED <<sandbox, stopping, handover, closed>>

----------------------------------------------------------------------------
(* A start or reset that lost its claim.                                   *)

AfterDiscard(t) == IF task[t].op = "start" THEN Goto(t, "lost") ELSE Return(t)

\* Mutant: lost work is discarded whoever holds the session now.
DiscardBlindly(t) ==
  /\ At(t, "discard") /\ Goto(t, "discarding")
  /\ UNCHANGED <<row, sandbox, stopping, handover, closed>>

\* #discardLostWork re-reads the row: a live session keeps its sandbox.
Discard(t) ==
  /\ At(t, "discard")
  /\ IF Exists(task[t].s) /\ row[task[t].s].status \notin TeardownOwned
     THEN AfterDiscard(t)
     ELSE Goto(t, "discarding")
  /\ UNCHANGED <<row, sandbox, stopping, handover, closed>>

Discarding(t) ==
  /\ At(t, "discarding")
  /\ \E gone \in BOOLEAN : Destroy(task[t].s, gone)
  /\ AfterDiscard(t)
  /\ UNCHANGED <<row, stopping, handover, closed>>

\* #finishTeardownOfLostStart: the start completes the teardown that took its
\* session, as what it was.
Lost(t) ==
  /\ At(t, "lost")
  /\ LET s == task[t].s
         Finish(mode) ==
           /\ Becomes(t, Call("claim", "start", s, mode, row[s].reason, NoGuard))
           /\ UNCHANGED resetsInFlight
     IN \/ row[s].status = "ENDING" /\ Finish("resume")
        \/ row[s].status = "EXPIRING" /\ Finish("finish")
        \/ row[s].status \notin {"ENDING", "EXPIRING"} /\ Return(t)
  /\ UNCHANGED <<row, sandbox, stopping, handover, closed>>

----------------------------------------------------------------------------
(* reset.                                                                  *)

\* reset up to its claim: the row as require read it, and the #stopping check.
Reset(t, s) ==
  /\ At(t, "idle") /\ ~stopping[Host[t]]
  /\ row[s].status \in ResettableStatuses /\ row[s].stamp < MaxStamp
  /\ Becomes(t, Call("rclaim", "call", s, "none", "none", NoGuard))
  /\ UNCHANGED <<row, sandbox, resetsInFlight, stopping, handover, closed>>

ClaimReset(t) ==
  /\ At(t, "rclaim")
  /\ LET s == task[t].s
         claimed == Moved(s, "RESETTING", row[s].reason, TRUE)
     IN \/ /\ Matches(s, ResettableStatuses, NoGuard)
           /\ Write(s, claimed)
           /\ Becomes(t, Call("purge", "reset", s, "none", "none", StampGuard(claimed.stamp)))
           /\ resetsInFlight' = [resetsInFlight EXCEPT ![Host[t]][s] = claimed.stamp]
        \/ /\ ~Matches(s, ResettableStatuses, NoGuard)
           /\ Return(t) /\ UNCHANGED row
  /\ UNCHANGED <<sandbox, stopping, handover, closed>>

\* provider.reset discards what the sandbox holds: a container is removed, a
\* namespace is emptied and kept.  A removal that fails may have gone through.
Purge(t) ==
  /\ At(t, "purge")
  /\ LET s == task[t].s IN
     \/ /\ IF Kind[s] = "container"
           THEN sandbox' = [sandbox EXCEPT ![s] = "absent"]
           ELSE UNCHANGED sandbox
        /\ Goto(t, "rebuild")
     \/ /\ IF Kind[s] = "container"
           THEN \E gone \in BOOLEAN : Destroy(s, gone)
           ELSE UNCHANGED sandbox
        /\ Goto(t, "degrade")
  /\ UNCHANGED <<row, stopping, handover, closed>>

\* ... and builds it again: a new container, or the lab's objects in the
\* namespace that is there.
Rebuild(t) ==
  /\ At(t, "rebuild")
  /\ LET s == task[t].s IN
     \/ /\ Kind[s] = "namespace" => sandbox[s] = "present"
        /\ Build(s) /\ Goto(t, "release")
     \/ /\ IF Kind[s] = "container" THEN BuildFails(s) ELSE UNCHANGED sandbox
        /\ Goto(t, "degrade")
  /\ UNCHANGED <<row, stopping, handover, closed>>

\* RESETTING -> ACTIVE, fenced on the stamp of this reset's own claim.
Release(t) ==
  /\ At(t, "release")
  /\ LET s == task[t].s IN
     \/ /\ Matches(s, {"RESETTING"}, task[t].guard)
        /\ Transition(s, "ACTIVE", row[s].reason, TRUE)
        /\ Return(t)
     \/ /\ ~Matches(s, {"RESETTING"}, task[t].guard)
        /\ Goto(t, "discard") /\ UNCHANGED row
  /\ UNCHANGED <<sandbox, stopping, handover, closed>>

\* #degrade after a failed reset, under the same fence.
Degrade(t) ==
  /\ At(t, "degrade")
  /\ LET s == task[t].s IN
     \/ /\ Matches(s, {"RESETTING"}, task[t].guard)
        /\ Transition(s, "DEGRADED", "failure", TRUE)
        /\ Return(t)
     \/ /\ ~Matches(s, {"RESETTING"}, task[t].guard)
        /\ Goto(t, "discard") /\ UNCHANGED row
  /\ UNCHANGED <<sandbox, stopping, handover, closed>>

\* recoverInterruptedReset: the reaper's half, fenced on the claim it observed
\* and recording no activity.
RecoverInterruptedReset(s, stamp) ==
  /\ Matches(s, {"RESETTING"}, StampGuard(stamp))
  /\ Transition(s, "DEGRADED", "failure", FALSE)
  /\ UNCHANGED <<sandbox, task, resetsInFlight, stopping, handover, closed>>

\* markSandboxStopped: ACTIVE -> DEGRADED under the same kind of fence.
MarkSandboxStopped(s, stamp) ==
  /\ Matches(s, {"ACTIVE"}, StampGuard(stamp))
  /\ Transition(s, "DEGRADED", "failure", FALSE)
  /\ UNCHANGED <<sandbox, task, resetsInFlight, stopping, handover, closed>>

----------------------------------------------------------------------------
(* end, expire, endByOperator, resumeAbandonedEnd: #teardown.              *)

InProgress(mode) == IF mode \in {"end", "resume"} THEN "ENDING" ELSE "EXPIRING"

Done(mode) == IF mode \in {"end", "resume"} THEN "ENDED" ELSE "EXPIRED"

\* Mutant: an expiry in flight is not taken up again.
ClaimableOnce(mode) ==
  IF mode \in {"end", "resume"} THEN LiveStatuses \cup {"ENDING"} ELSE LiveStatuses

\* Never the opposite in-flight state.
Claimable(mode) ==
  CASE mode = "end"      -> LiveStatuses \cup {"ENDING"}
    [] mode = "expire"   -> LiveStatuses \cup {"EXPIRING"}
    [] mode = "operator" -> LiveStatuses
    [] mode = "resume"   -> {"ENDING"}
    [] OTHER             -> {"EXPIRING"}

\* deferToStart
Defers(mode) == mode \in {"end", "operator"}

\* require, and #teardown up to its first write.  A missing or finished session
\* returns at once.
Teardown(t, s, mode, reason, guard) ==
  /\ At(t, "idle")
  /\ Exists(s) /\ row[s].status \notin TerminalStatuses
  /\ LET pc == IF Defers(mode) /\ row[s].status = "CREATING" THEN "defer" ELSE "claim"
     IN Becomes(t, Call(pc, "call", s, mode, reason, guard))
  /\ UNCHANGED <<row, sandbox, resetsInFlight, stopping, handover, closed>>

End(t, s) == Teardown(t, s, "end", "student", NoGuard)

Expire(t, s, reason, guard) == Teardown(t, s, "expire", reason, guard)

ResumeAbandonedEnd(t, s) == Teardown(t, s, "resume", row[s].reason, NoGuard)

\* A teardown already in flight is finished as what it is.
EndByOperator(t, s) ==
  \/ row[s].status = "ENDING" /\ ResumeAbandonedEnd(t, s)
  \/ row[s].status = "EXPIRING" /\ Teardown(t, s, "finish", row[s].reason, NoGuard)
  \/ /\ row[s].status \notin {"ENDING", "EXPIRING"}
     /\ Teardown(t, s, "operator", "operator", NoGuard)

\* deferToStart: a session still being built is only marked.
Defer(t) ==
  /\ At(t, "defer")
  /\ LET s == task[t].s IN
     \/ /\ Matches(s, {"CREATING"}, task[t].guard)
        /\ Transition(s, InProgress(task[t].mode), task[t].reason, FALSE)
        /\ Return(t)
     \/ /\ ~Matches(s, {"CREATING"}, task[t].guard)
        /\ Goto(t, "claim") /\ UNCHANGED row
  /\ UNCHANGED <<sandbox, stopping, handover, closed>>

Claim(t) ==
  /\ At(t, "claim")
  /\ LET s == task[t].s
         claimable == Claimable(task[t].mode)
     IN \/ /\ Matches(s, claimable, task[t].guard)
           /\ Transition(s, InProgress(task[t].mode), task[t].reason, FALSE)
           /\ Goto(t, "destroy")
        \/ /\ ~Matches(s, claimable, task[t].guard)
           /\ Return(t) /\ UNCHANGED row
  /\ UNCHANGED <<sandbox, stopping, handover, closed>>

\* Only a sandbox verified gone finishes the teardown; otherwise the row stays
\* in flight for the reaper.
DestroyClaimed(t) ==
  /\ At(t, "destroy")
  /\ \E gone \in BOOLEAN : /\ Destroy(task[t].s, gone)
                           /\ IF gone THEN Goto(t, "record") ELSE Return(t)
  /\ UNCHANGED <<row, stopping, handover, closed>>

\* Mutant: the finishing write does not ask who already finished.
RecordAnyway(t) ==
  /\ At(t, "record")
  /\ Transition(task[t].s, Done(task[t].mode), task[t].reason, FALSE)
  /\ Goto(t, "notify")
  /\ UNCHANGED <<sandbox, stopping, handover, closed>>

\* The finishing write is conditional too: one of several teardowns records.
Record(t) ==
  /\ At(t, "record")
  /\ LET s == task[t].s
         from == {InProgress(task[t].mode)}
     IN \/ /\ Matches(s, from, NoGuard)
           /\ Transition(s, Done(task[t].mode), task[t].reason, FALSE)
           /\ Goto(t, "notify")
        \/ /\ ~Matches(s, from, NoGuard)
           /\ Return(t) /\ UNCHANGED row
  /\ UNCHANGED <<sandbox, stopping, handover, closed>>

\* Mutant: the event carries the row's status, read again.
NotifyStatus(t) ==
  /\ At(t, "notify")
  /\ closed' = [closed EXCEPT ![task[t].s] = Append(@, row[task[t].s].status)]
  /\ Return(t)
  /\ UNCHANGED <<row, sandbox, stopping, handover>>

\* #notifyClosed
NotifyClosed(t) ==
  /\ At(t, "notify")
  /\ closed' = [closed EXCEPT ![task[t].s] = Append(@, Done(task[t].mode))]
  /\ Return(t)
  /\ UNCHANGED <<row, sandbox, stopping, handover>>

----------------------------------------------------------------------------
(* The orphan sweep's destroys, retention, activity.                       *)

\* The provider's destroy of a sandbox nothing accounts for.
DestroySandbox(t, s) ==
  /\ At(t, "idle")
  /\ Becomes(t, Call("reclaim", "call", s, "none", "none", NoGuard))
  /\ UNCHANGED <<row, sandbox, resetsInFlight, stopping, handover, closed>>

\* reclaimFinishedSandbox re-reads the row: only a finished session's sandbox.
ReclaimSandbox(t, s) ==
  /\ row[s].status \in TerminalStatuses
  /\ DestroySandbox(t, s)

Reclaim(t) ==
  /\ At(t, "reclaim")
  /\ \E gone \in BOOLEAN : Destroy(task[t].s, gone)
  /\ Return(t)
  /\ UNCHANGED <<row, stopping, handover, closed>>

\* forget deletes the row whatever its status; its one caller, the retention
\* sweep, passes finished sessions.
Forget(s) ==
  /\ Write(s, NoRow("FORGOTTEN"))
  /\ UNCHANGED <<sandbox, task, resetsInFlight, stopping, handover, closed>>

TouchActivity(s) ==
  /\ row[s].status \in ActivityStatuses /\ row[s].activity < MaxActivity
  /\ Transition(s, row[s].status, row[s].reason, TRUE)
  /\ UNCHANGED <<sandbox, task, resetsInFlight, stopping, handover, closed>>

----------------------------------------------------------------------------
(* Shutdown, crashes and the substrate.                                    *)

\* interruptInFlight: refuse new work, and hand over the starts and resets this
\* process knows it is building, each fenced on its own claim.
InterruptInFlight(i) ==
  /\ ~stopping[i]
  /\ stopping' = [stopping EXCEPT ![i] = TRUE]
  /\ handover' = [handover EXCEPT ![i] =
       {[op |-> "start", s |-> task[t].s, stamp |-> 1] :
          t \in {t \in Tasks : Host[t] = i /\ task[t].op = "start"}}
       \cup {[op |-> "reset", s |-> s, stamp |-> resetsInFlight[i][s]] :
               s \in {s \in Sessions : resetsInFlight[i][s] > 0}}]
  /\ UNCHANGED <<row, sandbox, task, resetsInFlight, closed>>

HandOver(i) ==
  /\ \E w \in handover[i] :
       /\ handover' = [handover EXCEPT ![i] = @ \ {w}]
       /\ \/ /\ w.op = "start" /\ Matches(w.s, {"CREATING"}, StampGuard(w.stamp))
             /\ Transition(w.s, "EXPIRING", "start", FALSE)
          \/ /\ w.op = "reset" /\ Matches(w.s, {"RESETTING"}, StampGuard(w.stamp))
             /\ Transition(w.s, "DEGRADED", "failure", TRUE)
          \/ UNCHANGED row    \* the row moved on, or the write failed
  /\ UNCHANGED <<sandbox, task, resetsInFlight, stopping, closed>>

\* The process exits, after a shutdown or by dying, and is started again.
Crash(i) ==
  /\ task' = [t \in Tasks |-> IF Host[t] = i THEN IdleTask ELSE task[t]]
  /\ resetsInFlight' = [resetsInFlight EXCEPT ![i] = [s \in Sessions |-> 0]]
  /\ stopping' = [stopping EXCEPT ![i] = FALSE]
  /\ handover' = [handover EXCEPT ![i] = {}]
  /\ UNCHANGED <<row, sandbox, closed>>

\* A store call throws, before its write or after it when only the answer is
\* lost: the call ends where it is.
StoreError(t) ==
  /\ task[t].pc \in {"insert", "create", "activate", "fail", "discard", "lost",
                     "rclaim", "purge", "release", "degrade", "defer", "claim",
                     "destroy", "record", "notify"}
  /\ Return(t)
  /\ UNCHANGED <<row, sandbox, stopping, handover, closed>>

\* A host restart stops a container; an asynchronous deletion completes.
SandboxStops(s) ==
  /\ Kind[s] = "container" /\ sandbox[s] = "present"
  /\ sandbox' = [sandbox EXCEPT ![s] = "stopped"]
  /\ UNCHANGED <<row, task, resetsInFlight, stopping, handover, closed>>

SandboxVanishes(s) ==
  /\ sandbox[s] = "terminating"
  /\ sandbox' = [sandbox EXCEPT ![s] = "absent"]
  /\ UNCHANGED <<row, task, resetsInFlight, stopping, handover, closed>>

----------------------------------------------------------------------------
(* The next-state relation.                                                *)

\* A call in flight takes its next step.
TaskStep(t) ==
  \/ Insert(t) \/ Create(t) \/ Activate(t) \/ Cleanup(t) \/ Fail(t)
  \/ Discard(t) \/ Discarding(t) \/ Lost(t)
  \/ ClaimReset(t) \/ Purge(t) \/ Rebuild(t) \/ Release(t) \/ Degrade(t)
  \/ Defer(t) \/ Claim(t) \/ DestroyClaimed(t) \/ Record(t) \/ NotifyClosed(t)
  \/ Reclaim(t)

\* A student's or an operator's request arrives.
Request(t) ==
  \/ Start(t)
  \/ \E s \in Sessions : Reset(t, s) \/ End(t, s) \/ EndByOperator(t, s)

Environment ==
  \/ \E s \in Sessions : TouchActivity(s) \/ SandboxStops(s) \/ SandboxVanishes(s)
  \/ \E i \in Instances : InterruptInFlight(i) \/ HandOver(i) \/ Crash(i)
  \/ \E t \in Tasks : StoreError(t)

\* What a background caller may ask of the manager, with any fence it likes.
Maintenance ==
  \/ \E t \in Tasks, s \in Sessions :
       \/ \E reason \in Reasons, guard \in Guard : Expire(t, s, reason, guard)
       \/ ResumeAbandonedEnd(t, s)
       \/ ReclaimSandbox(t, s)
       \/ row[s].status = "FORGOTTEN" /\ DestroySandbox(t, s)
  \/ \E s \in Sessions :
       \/ \E stamp \in Nat \ {0} : RecoverInterruptedReset(s, stamp)
                                \/ MarkSandboxStopped(s, stamp)
       \/ row[s].status \in TerminalStatuses /\ Forget(s)

ManagerNext ==
  \/ \E t \in Tasks : TaskStep(t) \/ Request(t)
  \/ Environment
  \/ Maintenance

ManagerSpec == ManagerInit /\ [][ManagerNext]_managerVars

----------------------------------------------------------------------------
(* What the manager promises.                                              *)

\* However many instances start sessions at once, the occupying rows never
\* exceed MAX_ACTIVE_SESSIONS nor an owner's limit: createWithinLimits counts
\* and inserts in one step, and no later status change re-enters the set.
WithinCapacity ==
  /\ Cardinality(Occupying) <= MaxOccupying
  /\ \A o \in Owners : PerOwnerLimit(o) > 0 =>
       Cardinality(OccupyingOf(o)) <= PerOwnerLimit(o)

Lifecycle == INSTANCE SessionLifecycle
               WITH status <- [s \in Sessions |-> row[s].status]

\* Every status change made by the manager's calls, the sweeps, a shutdown or a
\* crash follows the documented lifecycle, one session at a time: nothing
\* finished is revived and no End becomes an expiry.
FollowsLifecycle == Lifecycle!Spec

\* onSessionClosed is delivered at most once per session, however many teardowns
\* raced, and says what the row says: a student's End is never reported EXPIRED.
ClosedOnce ==
  \A s \in Sessions :
    \/ closed[s] = <<>>
    \/ /\ Len(closed[s]) = 1
       /\ row[s].status \in {closed[s][1], "FORGOTTEN"}

\* The tasks that would release the RESETTING claim now on the row of s.
Holders(s) ==
  {t \in Tasks : /\ task[t].op = "reset" /\ task[t].s = s
                 /\ row[s].status = "RESETTING"
                 /\ task[t].guard.stamp = row[s].stamp}

\* A reset's fence matches no claim but its own: when a claim was recovered and
\* taken again by a second reset, the first can no longer release it.
OneClaimHolder == \A s \in Sessions : \A t, u \in Holders(s) : t = u

\* Nothing removes the sandbox of an ACTIVE session except the rebuild of a
\* reset that lost its claim to a second reset: no discard of lost work, no
\* teardown, no failed start's cleanup, no reclaim of an orphan.
ActiveSandboxKept ==
  [][\A s \in Sessions :
       row[s].status = "ACTIVE" /\ sandbox[s] = "present"
       /\ sandbox'[s] \in {"absent", "terminating"} =>
         \E t \in Tasks : /\ task[t].s = s /\ task[t].op = "reset"
                          /\ task[t].pc \in {"purge", "rebuild"}]_managerVars

\* Only a session whose start never finished is ever torn down for that reason:
\* a lab that reached ACTIVE is not taken for an abandoned start.
StartedIsNotAbandoned ==
  [][\A s \in Sessions :
       row[s].status \in LiveStatuses \ {"CREATING"} /\ row'[s].status = "EXPIRING"
       => row'[s].reason # "start"]_managerVars

\* "So End only marks such a session, and the row keeps occupying its slot"
\* (#teardown): no End is recorded while the start it interrupted still builds.
EndWaitsForBuild ==
  \A t \in Tasks : At(t, "create") => row[task[t].s].status # "ENDED"
=============================================================================
