---------------------------- MODULE SessionReaper ---------------------------
(***************************************************************************)
(* The SessionReaper (services/lab-orchestrator/src/session/reaper.ts)     *)
(* composed with the SessionManager it drives.                             *)
(*                                                                         *)
(* Each instance runs one reaper, and a sweep has three parts: the sessions*)
(* the store listed when the sweep began, the sandboxes nothing accounts   *)
(* for, and the finished rows.  A part reads the clock and the store once, *)
(* which settles what it will do with every session, and then does it one  *)
(* session at a time, waiting minutes for a teardown if it must.  So a     *)
(* sweep is a plan made from one listing and carried out on later rows.    *)
(*                                                                         *)
(* Grace periods, retention and the idle budget are choices: an operation, *)
(* a finished row or an untouched session may or may not be old enough when*)
(* it is listed.  The absolute deadline is a fact about the session.       *)
(***************************************************************************)
EXTENDS SessionManager

CONSTANTS Reaper,     \* the task that runs an instance's sweeps; an instance
                      \* outside its domain makes none within the run
          Mortal,     \* bound: sessions whose deadline falls within the run
          MaxFaults   \* bound: shutdowns, crashes and failed store calls

ASSUME ReaperAssumption ==
  /\ DOMAIN Reaper \subseteq Instances
  /\ \A i \in DOMAIN Reaper : Reaper[i] \in Tasks /\ Host[Reaper[i]] = i
  /\ Mortal \subseteq Sessions /\ MaxFaults \in Nat

VARIABLES sweep,      \* each instance's sweep
          lostLast,   \* #lostLastSweep: containers seen stopped by the last sweep
          overdue,    \* sessions past expiresAt
          faults      \* faults so far

reaperVars == <<sweep, lostLast, overdue, faults>>
vars == <<managerVars, reaperVars>>

----------------------------------------------------------------------------

Phases == {"off", "sessions", "listing", "sandboxes", "retention"}

\* What a sweep means to do with a session, and under which fence.
Plan == [act : {"none", "resume", "expire", "recover", "reclaim", "destroy",
                "stopped", "forget"}, reason : Reasons, guard : Guard]

Do(act, reason, guard) == [act |-> act, reason |-> reason, guard |-> guard]

Nothing == Do("none", "none", NoGuard)

\* seen: the stopped containers this sweep came across.
Sweep == [phase : Phases, plan : [Sessions -> Plan], seen : SUBSET Sessions]

NoSweep == [phase |-> "off", plan |-> [s \in Sessions |-> Nothing], seen |-> {}]

Sweeps(i, phase, plan, seen) ==
  sweep' = [sweep EXCEPT ![i] = [phase |-> phase, plan |-> plan, seen |-> seen]]

TypeOK ==
  /\ ManagerTypeOK
  /\ sweep \in [Instances -> Sweep]
  /\ lostLast \in [Instances -> SUBSET Sessions]
  /\ overdue \in SUBSET Sessions
  /\ faults \in 0..MaxFaults

Init ==
  /\ ManagerInit
  /\ sweep = [i \in Instances |-> NoSweep]
  /\ lostLast = [i \in Instances |-> {}]
  /\ overdue = {}
  /\ faults = 0

----------------------------------------------------------------------------
(* The sweep of the sessions the store knows about.                        *)

\* Mutants: the expiry of a start carries no fence; neither the deadline nor an
\* operation that died is looked at.
UnfencedStart(s) ==
  LET r == row[s]
  IN CASE r.status = "ENDING"   -> {Nothing, Do("resume", "none", NoGuard)}
       [] r.status = "EXPIRING" -> {Do("expire", r.reason, NoGuard)}
       [] r.status = "CREATING" -> {Nothing, Do("expire", "start", NoGuard)}
       [] OTHER -> {Nothing}

LifetimelessJudgements(s) ==
  LET r == row[s]
  IN CASE r.status = "ENDING"   -> {Nothing, Do("resume", "none", NoGuard)}
       [] r.status = "EXPIRING" -> {Do("expire", r.reason, NoGuard)}
       [] r.status \in LiveStatuses ->
            {Nothing, Do("expire", "idle", ActivityGuard(r.activity))}
       [] OTHER -> {Nothing}

\* What a session listed in #sweepSessions can be judged to need.
Judgements(s) ==
  LET r == row[s]
      late == r.status \in LiveStatuses /\ s \in overdue
  IN CASE r.status = "ENDING"   -> {Nothing, Do("resume", "none", NoGuard)}
       [] r.status = "EXPIRING" -> {Do("expire", r.reason, NoGuard)}
       [] late                  -> {Do("expire", "lifetime", NoGuard)}
       [] r.status \in LiveStatuses /\ ~late ->
            {Nothing, Do("expire", "idle", ActivityGuard(r.activity))}
            \cup (IF r.status = "CREATING"
                  THEN {Do("expire", "start", StampGuard(r.stamp))} ELSE {})
            \cup (IF r.status = "RESETTING"
                  THEN {Do("recover", "none", StampGuard(r.stamp))} ELSE {})
       [] OTHER -> {Nothing}

\* An overlapping sweep is skipped, and a process shutting down starts none.
SweepBegin(i) ==
  /\ sweep[i].phase = "off" /\ ~stopping[i]
  /\ \E plan \in [Sessions -> UNION {Judgements(s) : s \in Sessions}] :
       /\ \A s \in Sessions : plan[s] \in Judgements(s)
       /\ Sweeps(i, "sessions", plan, sweep[i].seen)
  /\ UNCHANGED <<managerVars, lostLast, overdue, faults>>

\* The reaper waits for the call it made before it takes up the next session.
TakesUp(i, s, act) ==
  /\ sweep[i].plan[s].act = act /\ At(Reaper[i], "idle")
  /\ Sweeps(i, sweep[i].phase, [sweep[i].plan EXCEPT ![s] = Nothing], sweep[i].seen)

\* A session gone or finished meanwhile makes the call return at once.
Calls(s, teardown) ==
  \/ teardown
  \/ row[s].status \notin OccupyingStatuses /\ UNCHANGED managerVars

\* #finish of an End abandoned past its grace, resumed as that End ...
SweepResumes(i, s) ==
  /\ TakesUp(i, s, "resume")
  /\ Calls(s, ResumeAbandonedEnd(Reaper[i], s))
  /\ UNCHANGED <<lostLast, overdue, faults>>

\* ... and of an expiry: in flight already, past the deadline, idle, or a start
\* presumed dead.
SweepExpires(i, s) ==
  /\ TakesUp(i, s, "expire")
  /\ LET plan == sweep[i].plan[s]
     IN Calls(s, Expire(Reaper[i], s, plan.reason, plan.guard))
  /\ UNCHANGED <<lostLast, overdue, faults>>

\* A reset presumed dead is recovered to DEGRADED if its claim still stands.
SweepRecovers(i, s) ==
  /\ TakesUp(i, s, "recover")
  /\ LET guard == sweep[i].plan[s].guard
     IN \/ RecoverInterruptedReset(s, guard.stamp)
        \/ ~Matches(s, {"RESETTING"}, guard) /\ UNCHANGED managerVars
  /\ UNCHANGED <<lostLast, overdue, faults>>

----------------------------------------------------------------------------
(* The sweep of the sandboxes.                                             *)

PartDone(i, phase) ==
  /\ sweep[i].phase = phase /\ At(Reaper[i], "idle")
  /\ \A s \in Sessions : sweep[i].plan[s] = Nothing

\* Mutant: a finished session shields its sandbox like a running one.
ListSessionsShielding(i) ==
  /\ PartDone(i, "sessions")
  /\ LET plan == [s \in Sessions |->
                    IF row[s].status \in NoRowStatuses /\ s \in overdue
                    THEN Do("destroy", "none", NoGuard) ELSE Nothing]
     IN Sweeps(i, "listing", plan, sweep[i].seen)
  /\ UNCHANGED <<managerVars, lostLast, overdue, faults>>

\* #sweepOrphans lists the sessions again: a running one shields its sandbox, a
\* finished one does not, and a sandbox without a row waits for its deadline.
Unshielded(s) ==
  CASE row[s].status \in TerminalStatuses -> Do("reclaim", "none", NoGuard)
    [] row[s].status = "ACTIVE" -> Do("stopped", "none", StampGuard(row[s].stamp))
    [] row[s].status \in NoRowStatuses /\ s \in overdue -> Do("destroy", "none", NoGuard)
    [] OTHER -> Nothing

ListSessions(i) ==
  /\ PartDone(i, "sessions")
  /\ Sweeps(i, "listing", [s \in Sessions |-> Unshielded(s)], sweep[i].seen)
  /\ UNCHANGED <<managerVars, lostLast, overdue, faults>>

\* Then the sandboxes.  One already terminating is left to go; of those without
\* a row some are still within their grace.
ListSandboxes(i) ==
  /\ sweep[i].phase = "listing"
  /\ LET plan == sweep[i].plan
         found == {s \in Sessions :
                     sandbox[s] \in IF plan[s].act = "stopped" THEN {"stopped"}
                                    ELSE {"present", "stopped"}}
     IN \E kept \in SUBSET {s \in found : plan[s].act \in {"destroy", "stopped"}} :
          LET left == [s \in Sessions |-> IF s \in found \ kept THEN plan[s] ELSE Nothing]
          IN Sweeps(i, "sandboxes", left, sweep[i].seen)
  /\ UNCHANGED <<managerVars, lostLast, overdue, faults>>

\* reclaimFinishedSandbox reads the row again and leaves one not finished.
SweepReclaims(i, s) ==
  /\ sweep[i].phase = "sandboxes" /\ TakesUp(i, s, "reclaim")
  /\ \/ ReclaimSandbox(Reaper[i], s)
     \/ row[s].status \notin TerminalStatuses /\ UNCHANGED managerVars
  /\ UNCHANGED <<lostLast, overdue, faults>>

SweepDestroys(i, s) ==
  /\ sweep[i].phase = "sandboxes" /\ TakesUp(i, s, "destroy")
  /\ DestroySandbox(Reaper[i], s)
  /\ UNCHANGED <<lostLast, overdue, faults>>

\* #reconcileStoppedSandboxes, after every destroy: a container stopped on two
\* sweeps in a row makes its session DEGRADED, if nothing moved the row.
Reconcile(i, s) ==
  /\ sweep[i].phase = "sandboxes" /\ At(Reaper[i], "idle")
  /\ \A u \in Sessions : sweep[i].plan[u].act \in {"none", "stopped"}
  /\ sweep[i].plan[s].act = "stopped"
  /\ Sweeps(i, sweep[i].phase, [sweep[i].plan EXCEPT ![s] = Nothing], sweep[i].seen \cup {s})
  /\ LET guard == sweep[i].plan[s].guard
     IN \/ s \in lostLast[i] /\ MarkSandboxStopped(s, guard.stamp)
        \/ /\ s \notin lostLast[i] \/ ~Matches(s, {"ACTIVE"}, guard)
           /\ UNCHANGED managerVars
  /\ UNCHANGED <<lostLast, overdue, faults>>

----------------------------------------------------------------------------
(* Retention.                                                              *)

\* #sweepRetention lists the sessions once more; some are old enough to go.
RetentionBegin(i) ==
  /\ PartDone(i, "sandboxes")
  /\ lostLast' = [lostLast EXCEPT ![i] = sweep[i].seen]
  /\ \E old \in SUBSET {s \in Sessions : row[s].status \in TerminalStatuses} :
       LET plan == [s \in Sessions |->
                      IF s \in old THEN Do("forget", "none", NoGuard) ELSE Nothing]
       IN Sweeps(i, "retention", plan, {})
  /\ UNCHANGED <<managerVars, overdue, faults>>

SweepForgets(i, s) ==
  /\ TakesUp(i, s, "forget")
  /\ Forget(s)
  /\ UNCHANGED <<lostLast, overdue, faults>>

SweepEnd(i) ==
  /\ PartDone(i, "retention")
  /\ sweep' = [sweep EXCEPT ![i] = NoSweep]
  /\ UNCHANGED <<managerVars, lostLast, overdue, faults>>

SweepStep(i) ==
  \/ SweepBegin(i) \/ ListSessions(i) \/ ListSandboxes(i)
  \/ RetentionBegin(i) \/ SweepEnd(i)
  \/ \E s \in Sessions :
       \/ SweepResumes(i, s) \/ SweepExpires(i, s) \/ SweepRecovers(i, s)
       \/ SweepReclaims(i, s) \/ SweepDestroys(i, s) \/ Reconcile(i, s)
       \/ SweepForgets(i, s)

----------------------------------------------------------------------------
(* The system.                                                             *)

Reapers == {Reaper[i] : i \in DOMAIN Reaper}

DeadlinePasses(s) ==
  /\ s \in Mortal \ overdue /\ row[s].status # "UNUSED"
  /\ overdue' = overdue \cup {s}
  /\ UNCHANGED <<managerVars, sweep, lostLast, faults>>

\* A crash takes the sweep and what the reaper remembers with it.
Down(i) ==
  /\ Crash(i)
  /\ sweep' = [sweep EXCEPT ![i] = NoSweep]
  /\ lostLast' = [lostLast EXCEPT ![i] = {}]
  /\ UNCHANGED overdue

\* The retention part does not catch what the store throws: the sweep is over.
SweepThrows(i) ==
  /\ At(Reaper[i], "idle") /\ sweep' = [sweep EXCEPT ![i] = NoSweep]
  /\ \/ PartDone(i, "sandboxes") /\ lostLast' = [lostLast EXCEPT ![i] = sweep[i].seen]
     \/ sweep[i].phase = "retention" /\ UNCHANGED lostLast
  /\ UNCHANGED <<managerVars, overdue>>

\* Elsewhere what the store or a provider throws is caught: a listing that fails
\* skips what it would have found, a recovery that fails its session.
SweepSkips(i) ==
  /\ At(Reaper[i], "idle")
  /\ LET seen == sweep[i].seen
         without(skipped) == [s \in Sessions |-> IF s \in skipped THEN Nothing
                                                ELSE sweep[i].plan[s]]
     IN \/ /\ sweep[i].phase = "off" /\ ~stopping[i]
           /\ Sweeps(i, "sessions", without(Sessions), seen)
        \/ \E s \in Sessions : /\ sweep[i].plan[s].act = "recover"
                               /\ Sweeps(i, "sessions", without({s}), seen)
        \/ /\ PartDone(i, "sessions")
           /\ Sweeps(i, "sandboxes", without(Sessions), lostLast[i])
        \/ \E kind \in {Kind[s] : s \in Sessions} :
             /\ sweep[i].phase = "listing"
             /\ Sweeps(i, "listing", without({s \in Sessions : Kind[s] = kind}), seen)
  /\ UNCHANGED <<managerVars, lostLast, overdue>>

Fault ==
  /\ faults < MaxFaults /\ faults' = faults + 1
  /\ \/ \E i \in Instances : Down(i)
     \/ \E i \in DOMAIN Reaper : SweepThrows(i) \/ SweepSkips(i)
     \/ /\ \/ \E i \in Instances : InterruptInFlight(i)
           \/ \E t \in Tasks : StoreError(t)
        /\ UNCHANGED <<sweep, lostLast, overdue>>

\* A process that began to shut down exits.
Exit(i) == stopping[i] /\ Down(i) /\ UNCHANGED faults

\* Everything of the manager but its background callers, which are the sweeps.
ManagerStep ==
  /\ \/ \E t \in Tasks : TaskStep(t)
     \/ \E t \in Tasks \ Reapers : Request(t)
     \/ \E s \in Sessions : TouchActivity(s) \/ SandboxStops(s) \/ SandboxVanishes(s)
     \/ \E i \in Instances : HandOver(i)
  /\ UNCHANGED reaperVars

Next ==
  \/ ManagerStep
  \/ \E i \in DOMAIN Reaper : SweepStep(i)
  \/ \E i \in Instances : Exit(i)
  \/ \E s \in Sessions : DeadlinePasses(s)
  \/ Fault

Spec == Init /\ [][Next]_vars

\* Every pending continuation runs and every provider or store call returns; the
\* reaper's timer fires; a process shutting down exits.
StepFairness ==
  /\ \A t \in Tasks : WF_vars(TaskStep(t) /\ UNCHANGED reaperVars)
  /\ \A i \in Instances : WF_vars(Exit(i))
  /\ \A i \in DOMAIN Reaper : WF_vars(SweepStep(i))

\* The grace period of a start or a reset is over at last.
OperationFairness ==
  \A i \in DOMAIN Reaper, s \in Sessions :
    /\ SF_vars(SweepBegin(i) /\ sweep'[i].plan[s].act = "recover")
    /\ SF_vars(SweepBegin(i) /\ sweep'[i].plan[s].reason = "start")

\* A destroy that is retried for ever succeeds at last; the grace of an End or of
\* a sandbox without a row is over at last; a deadline passes.
TeardownFairness ==
  /\ \A t \in Tasks :
       /\ SF_vars(DestroyClaimed(t) /\ task'[t].pc = "record" /\ UNCHANGED reaperVars)
       /\ SF_vars(Reclaim(t) /\ sandbox'[task[t].s] = "absent" /\ UNCHANGED reaperVars)
  /\ \A i \in DOMAIN Reaper, s \in Sessions :
       /\ SF_vars(SweepBegin(i) /\ sweep'[i].plan[s].act = "resume")
       /\ SF_vars(ListSandboxes(i) /\ sweep'[i].plan[s].act = "destroy")
  /\ \A s \in Sessions :
       /\ WF_vars(DeadlinePasses(s))
       /\ WF_vars(SandboxVanishes(s) /\ UNCHANGED reaperVars)

\* No property is given more fairness than it needs: a start or reset settles
\* even if no destroy ever succeeds, and a teardown ends without any grace of a
\* start or reset.
OperationSpec == Spec /\ StepFairness /\ OperationFairness

TeardownSpec == Spec /\ StepFairness /\ TeardownFairness

----------------------------------------------------------------------------
(* What the composition promises.                                          *)

\* A student who was active after a sweep judged the session idle keeps the lab:
\* an idle expiry claims only a session untouched since it was listed.
ActiveSinceKeepsLab ==
  [][\A s \in Sessions, t \in Tasks :
       /\ row[s].status \in LiveStatuses /\ row'[s].status = "EXPIRING"
       /\ task[t].s = s /\ At(t, "claim") /\ task'[t].pc = "destroy"
       /\ row'[s].reason = "idle"
       => task[t].guard.activity = row[s].activity]_vars

\* A teardown always finishes, whoever began it and whoever dies: the row leaves
\* ENDING or EXPIRING and gives its slot back.
TeardownFinishes ==
  \A s \in Sessions :
    row[s].status \in {"ENDING", "EXPIRING"} ~> row[s].status \notin OccupyingStatuses

\* A start or reset never holds its session for ever: it settles, or the reaper
\* or a shutdown settles it.
OperationSettles ==
  \A s \in Sessions :
    /\ row[s].status = "CREATING" ~> row[s].status # "CREATING"
    /\ row[s].status = "RESETTING" ~> row[s].status # "RESETTING"

\* A session past its absolute deadline gives its slot back.
DeadlineEnforced ==
  \A s \in Sessions : s \in overdue ~> row[s].status \notin OccupyingStatuses

\* A sandbox does not outlive its session: one that a lost start left behind is
\* reclaimed, even when its row is forgotten first.
SandboxReclaimed ==
  \A s \in Sessions :
    row[s].status \notin OccupyingStatuses /\ sandbox[s] # "absent"
    ~> sandbox[s] = "absent"
=============================================================================
