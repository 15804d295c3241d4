---------------------------- MODULE LabAttempts ----------------------------
(***************************************************************************)
(* The learning record: attempts at a lab and a student's progress on it   *)
(* (services/progress/src), written by the Start and Check routes, by the  *)
(* close event of a session and by the sweep of abandoned attempts         *)
(* (apps/api/src/{progress,routes/labs,routes/sessions}.ts).               *)
(*                                                                         *)
(* A call is one request in an API process, and each step of it is the code*)
(* between two awaits.  Sessions are what the routes see of them: a status *)
(* that moves along the edges of SessionLifecycle, and the stamp every     *)
(* status change renews.                                                   *)
(***************************************************************************)
EXTENDS SessionTypes, Naturals, FiniteSets

CONSTANTS Sessions,
          Subjects,       \* a student's standing on a lab: (studentId, labId)
          Subject,        \* whose lab each session is
          Attempts,       \* the ids randomUUID may draw
          NoSession,      \* an attempt whose session_id is NULL
          NoAttempt,      \* a call that opened none
          NoSubject,      \* an attempt not created yet
          Calls,          \* concurrent Start and Check requests
          Instances,      \* API processes
          Host,           \* the process each call runs in
          Sweepers,       \* concurrent sweeps of abandoned attempts
          MaxStamp,       \* bound: no reset of a row stamped this late
          MaxFaults       \* bound: failed writes, lost events and crashes

ASSUME AttemptsAssumption ==
  /\ IsFiniteSet(Attempts)
  /\ NoSession \notin Sessions /\ NoAttempt \notin Attempts /\ NoSubject \notin Subjects
  /\ Subject \in [Sessions -> Subjects]
  /\ Host \in [Calls -> Instances]
  /\ MaxStamp \in Nat /\ MaxFaults \in Nat

VARIABLES session,  \* status and stamp of each session's row
          event,    \* the close event of a session that is on its way
          attempt,  \* table lab_attempts
          progress, \* table lab_progress
          call,     \* the requests in flight
          old,      \* attempts past the cutoff of the sweep
          sweep,    \* what each sweep in flight has read
          faults

vars == <<session, event, attempt, progress, call, old, sweep, faults>>

Lifecycle == INSTANCE SessionLifecycle WITH status <- [s \in Sessions |-> session[s].status]

----------------------------------------------------------------------------
(* Types.                                                                  *)

AttemptStatuses == {"IN_PROGRESS", "PASSED", "FAILED", "ENDED", "EXPIRED"}

ClosedAttemptStatuses == AttemptStatuses \ {"IN_PROGRESS"}

Attempt == [status : AttemptStatuses \cup {"NONE"}, subject : Subjects \cup {NoSubject},
            session : Sessions \cup {NoSession}, completed : BOOLEAN]

NotCreated == [status |-> "NONE", subject |-> NoSubject, session |-> NoSession,
               completed |-> FALSE]

NewAttempt(x) == [status |-> "IN_PROGRESS", subject |-> x, session |-> NoSession,
                  completed |-> FALSE]

Progress == [status : {"NONE", "IN_PROGRESS", "COMPLETED"}, attempts : Nat, completions : Nat]

\* stamp is the statusChangedAt a check started from, graded the stamps under
\* which its reads of the sandbox were made, passed its verdict.
Call == [pc : {"idle", "open", "bind", "build", "fail", "admit", "verify", "record"},
         op : {"start", "check"}, s : Sessions \cup {NoSession},
         a : Attempts \cup {NoAttempt}, stamp : Nat, graded : SUBSET Nat, passed : BOOLEAN]

Idle == [pc |-> "idle", op |-> "start", s |-> NoSession, a |-> NoAttempt,
         stamp |-> 0, graded |-> {}, passed |-> FALSE]

NoSweep == [on |-> FALSE, live |-> {}, stale |-> {}]

TypeOK ==
  /\ session \in [Sessions -> [status : Statuses \cup NoRowStatuses, stamp : Nat]]
  /\ event \in [Sessions -> {"none", "ENDED", "EXPIRED"}]
  /\ attempt \in [Attempts -> Attempt]
  /\ progress \in [Subjects -> Progress]
  /\ call \in [Calls -> Call]
  /\ old \subseteq Attempts
  /\ sweep \in [Sweepers -> [on : BOOLEAN, live : SUBSET Sessions, stale : SUBSET Attempts]]
  /\ faults \in Nat

Init ==
  /\ session = [s \in Sessions |-> [status |-> "UNUSED", stamp |-> 0]]
  /\ event = [s \in Sessions |-> "none"]
  /\ attempt = [a \in Attempts |-> NotCreated]
  /\ progress = [x \in Subjects |-> [status |-> "NONE", attempts |-> 0, completions |-> 0]]
  /\ call = [c \in Calls |-> Idle]
  /\ old = {}
  /\ sweep = [w \in Sweepers |-> NoSweep]
  /\ faults = 0

----------------------------------------------------------------------------
(* Sessions, as the manager and the reaper move them.                      *)

Moves(s, to) ==
  session' = [session EXCEPT ![s] = [status |-> to, stamp |-> session[s].stamp + 1]]

\* Reset, End, expiry, recovery and retention: every edge but those a start
\* takes itself.  A teardown that recorded the end of the session reports it.
SessionMoves(s) ==
  /\ session[s].status # "UNUSED"
  /\ \E to \in Statuses \cup {"FORGOTTEN"} :
       /\ <<session[s].status, to>> \in Lifecycle!Edges
       /\ session[s].status = "CREATING" => to \notin {"ACTIVE", "FAILED"}
       /\ to = "RESETTING" => session[s].stamp < MaxStamp
       /\ Moves(s, to)
       /\ event' = [event EXCEPT ![s] = IF to \in {"ENDED", "EXPIRED"} THEN to ELSE @]
  /\ UNCHANGED <<attempt, progress, call, old, sweep, faults>>

----------------------------------------------------------------------------
(* The statements of the progress store, each one transaction.             *)

BoundTo(s) == {a \in Attempts : attempt[a].session = s}

Created == {a \in Attempts : attempt[a].status # "NONE"}

\* createAttempt, touchProgressOnStart: a completed lab stays completed.
CreateAttempt(a, x) ==
  /\ attempt[a].status = "NONE"
  /\ attempt' = [attempt EXCEPT ![a] = NewAttempt(x)]
  /\ progress' = [progress EXCEPT ![x] =
       [status |-> IF @.status = "COMPLETED" THEN "COMPLETED" ELSE "IN_PROGRESS",
        attempts |-> @.attempts + 1, completions |-> @.completions]]

\* Mutant: every pass counts, not only the first of an attempt.
RecordCheckAgain(a, passed) ==
  /\ attempt' = [attempt EXCEPT ![a].status = IF passed THEN "PASSED" ELSE @,
                                ![a].completed = @ \/ passed]
  /\ progress' = IF ~passed THEN progress
                 ELSE [progress EXCEPT ![attempt[a].subject] =
                         [status |-> "COMPLETED", attempts |-> @.attempts,
                          completions |-> @.completions + 1]]

\* recordCheck: one row lock, so only the first pass is newlyCompleted.
RecordCheck(a, passed) ==
  /\ attempt' = [attempt EXCEPT ![a].status = IF passed THEN "PASSED" ELSE @,
                                ![a].completed = @ \/ passed]
  /\ progress' = IF ~passed \/ attempt[a].completed THEN progress
                 ELSE [progress EXCEPT ![attempt[a].subject] =
                         [status |-> "COMPLETED", attempts |-> @.attempts,
                          completions |-> @.completions + 1]]

\* Mutant: the outcome overwrites whatever the attempt was.
FinishAttemptAnyway(a, outcome) ==
  attempt' = [attempt EXCEPT ![a].status = outcome]

FinishAttempt(a, outcome) ==
  attempt' = [attempt EXCEPT ![a].status = IF @ = "IN_PROGRESS" THEN outcome ELSE @]

\* Mutant: the comparison with a NULL session_id is not true.
StaleBound(live, stale) ==
  {a \in stale : attempt[a].status = "IN_PROGRESS" /\ attempt[a].session \in Sessions \ live}

\* The rows expireStaleAttempts updates.
Stale(live, stale) ==
  {a \in stale : attempt[a].status = "IN_PROGRESS" /\ attempt[a].session \notin live}

----------------------------------------------------------------------------
(* Calls.                                                                  *)

At(c, pc) == call[c].pc = pc

Becomes(c, k) == call' = [call EXCEPT ![c] = k]

Goto(c, pc) == Becomes(c, [call[c] EXCEPT !.pc = pc])

Return(c) == Becomes(c, Idle)

\* start: the session is admitted, and openAttempt runs before the build.
Start(c, s) ==
  /\ At(c, "idle") /\ session[s].status = "UNUSED"
  /\ Moves(s, "CREATING")
  /\ Becomes(c, [Idle EXCEPT !.pc = "open", !.s = s])
  /\ UNCHANGED <<event, attempt, progress, old, sweep, faults>>

\* startAttempt, in openAttempt or for a check that found none.
Open(c) ==
  /\ At(c, "open")
  /\ \E a \in Attempts :
       /\ CreateAttempt(a, Subject[call[c].s])
       /\ Becomes(c, [call[c] EXCEPT !.pc = "bind", !.a = a])
  /\ UNCHANGED <<session, event, old, sweep, faults>>

\* After the bind a start builds and a check records.
Bound(c) == Goto(c, IF call[c].op = "start" THEN "build" ELSE "record")

\* bindSession; the unique index on session_id refuses a second attempt, and a
\* check then gives up with its verdict unrecorded.
Bind(c) ==
  /\ At(c, "bind")
  /\ \/ /\ BoundTo(call[c].s) = {}
        /\ attempt' = [attempt EXCEPT ![call[c].a].session = call[c].s]
        /\ Bound(c)
     \/ /\ BoundTo(call[c].s) # {}
        /\ IF call[c].op = "start" THEN Goto(c, "build") ELSE Return(c)
        /\ UNCHANGED attempt
  /\ UNCHANGED <<session, event, progress, old, sweep, faults>>

\* A start that throws closes the attempt it opened, if any.
Throws(c) == IF call[c].a = NoAttempt THEN Return(c) ELSE Goto(c, "fail")

\* The rest of SessionManager.start: the sandbox is built, could not be built, or
\* was built for a session that a teardown took meanwhile.
Build(c) ==
  /\ At(c, "build")
  /\ LET s == call[c].s
     IN \/ session[s].status = "CREATING" /\ Moves(s, "ACTIVE") /\ Return(c)
        \/ session[s].status = "CREATING" /\ Moves(s, "FAILED") /\ Throws(c)
        \/ session[s].status # "CREATING" /\ Throws(c) /\ UNCHANGED session
  /\ UNCHANGED <<event, attempt, progress, old, sweep, faults>>

FailAttempt(c) ==
  /\ At(c, "fail")
  /\ FinishAttempt(call[c].a, "FAILED") /\ Return(c)
  /\ UNCHANGED <<session, event, progress, old, sweep, faults>>

----------------------------------------------------------------------------
(* Check.                                                                  *)

\* requireActive: the row the check starts from.
Check(c, s) ==
  /\ At(c, "idle") /\ session[s].status = "ACTIVE"
  /\ Becomes(c, [Idle EXCEPT !.pc = "admit", !.op = "check", !.s = s,
                             !.stamp = session[s].stamp])
  /\ UNCHANGED <<session, event, attempt, progress, old, sweep, faults>>

\* The set a process keeps: its checks between checksInFlight.add and .delete.
ChecksInFlight(i) ==
  {call[c].s : c \in {c \in Calls : Host[c] = i /\ call[c].op = "check" /\ ~At(c, "admit")}}

\* Mutant: any number of checks of one session at once.
AdmitAll(c) ==
  /\ At(c, "admit")
  /\ Goto(c, "verify")
  /\ UNCHANGED <<session, event, attempt, progress, old, sweep, faults>>

Admit(c) ==
  /\ At(c, "admit")
  /\ IF call[c].s \in ChecksInFlight(Host[c]) THEN Return(c) ELSE Goto(c, "verify")
  /\ UNCHANGED <<session, event, attempt, progress, old, sweep, faults>>

\* One of the reads verifyLab makes of the sandbox.
Verify(c) ==
  /\ At(c, "verify")
  /\ session[call[c].s].stamp \notin call[c].graded
  /\ Becomes(c, [call[c] EXCEPT !.graded = @ \cup {session[call[c].s].stamp}])
  /\ UNCHANGED <<session, event, attempt, progress, old, sweep, faults>>

\* Mutant: the fence asks only whether the session is active now.
ReadBackStatus(c) ==
  /\ At(c, "verify")
  /\ \/ /\ session[call[c].s].status = "ACTIVE"
        /\ \E passed \in BOOLEAN : Becomes(c, [call[c] EXCEPT !.pc = "record", !.passed = passed])
     \/ Return(c)
  /\ UNCHANGED <<session, event, attempt, progress, old, sweep, faults>>

\* The read-back after verifying.  A verdict on a session that changed meanwhile,
\* or on an environment that could not be read, is dropped.
ReadBack(c) ==
  /\ At(c, "verify")
  /\ \/ /\ session[call[c].s] = [status |-> "ACTIVE", stamp |-> call[c].stamp]
        /\ \E passed \in BOOLEAN : Becomes(c, [call[c] EXCEPT !.pc = "record", !.passed = passed])
     \/ Return(c)
  /\ UNCHANGED <<session, event, attempt, progress, old, sweep, faults>>

\* recordCheck of the session's attempt; without one, open it first.
Record(c) ==
  /\ At(c, "record")
  /\ \/ /\ BoundTo(call[c].s) = {}
        /\ Goto(c, "open")
        /\ UNCHANGED <<attempt, progress>>
     \/ /\ \E a \in BoundTo(call[c].s) : RecordCheck(a, call[c].passed)
        /\ Return(c)
  /\ UNCHANGED <<session, event, old, sweep, faults>>

----------------------------------------------------------------------------
(* The close event and the sweep of abandoned attempts.                    *)

\* Mutant: the outcome is the status the session has by now.
OnSessionClosedReread(s) ==
  /\ event[s] # "none"
  /\ event' = [event EXCEPT ![s] = "none"]
  /\ \/ BoundTo(s) = {} /\ UNCHANGED attempt
     \/ \E a \in BoundTo(s) : FinishAttempt(a, session[s].status)
  /\ UNCHANGED <<session, progress, call, old, sweep, faults>>

\* Mutant: every close is an End.
OnSessionClosedEnded(s) ==
  /\ event[s] # "none"
  /\ event' = [event EXCEPT ![s] = "none"]
  /\ \/ BoundTo(s) = {} /\ UNCHANGED attempt
     \/ \E a \in BoundTo(s) : FinishAttempt(a, "ENDED")
  /\ UNCHANGED <<session, progress, call, old, sweep, faults>>

\* AttemptClosingListener.onSessionClosed
OnSessionClosed(s) ==
  /\ event[s] # "none"
  /\ event' = [event EXCEPT ![s] = "none"]
  /\ \/ BoundTo(s) = {} /\ UNCHANGED attempt
     \/ \E a \in BoundTo(s) : FinishAttempt(a, event[s])
  /\ UNCHANGED <<session, progress, call, old, sweep, faults>>

\* started_at falls behind the absolute lifetime plus the grace.  A bind takes
\* less than that; nothing is said of how long the session may run.  Only a sweep
\* asks for the age.
Ages(a) ==
  /\ Sweepers # {} /\ a \in Created \ old
  /\ \A c \in Calls : ~(At(c, "bind") /\ call[c].a = a)
  /\ old' = old \cup {a}
  /\ UNCHANGED <<session, event, attempt, progress, call, sweep, faults>>

\* Mutant: the attempts of a session being torn down are not spared.
SweepListUsable(w) ==
  /\ ~sweep[w].on
  /\ sweep' = [sweep EXCEPT ![w] =
       [on |-> TRUE, live |-> {s \in Sessions : session[s].status \in LiveStatuses},
        stale |-> old]]
  /\ UNCHANGED <<session, event, attempt, progress, call, old, faults>>

\* liveSessionIds, and the cutoff taken right after.
SweepList(w) ==
  /\ ~sweep[w].on
  /\ sweep' = [sweep EXCEPT ![w] =
       [on |-> TRUE, live |-> {s \in Sessions : session[s].status \in OccupyingStatuses},
        stale |-> old]]
  /\ UNCHANGED <<session, event, attempt, progress, call, old, faults>>

\* expireStaleAttempts, one statement
SweepExpire(w) ==
  /\ sweep[w].on
  /\ LET gone == Stale(sweep[w].live, sweep[w].stale)
     IN attempt' = [a \in Attempts |->
                      IF a \in gone THEN [attempt[a] EXCEPT !.status = "EXPIRED"] ELSE attempt[a]]
  /\ sweep' = [sweep EXCEPT ![w] = NoSweep]
  /\ UNCHANGED <<session, event, progress, call, old, faults>>

----------------------------------------------------------------------------
(* Faults: a write that fails and is logged, an event lost, a crash.       *)

Fault == faults < MaxFaults /\ faults' = faults + 1

\* record() swallows the error: a start goes on, a check answers unsaved.
WriteFails(c) ==
  /\ Fault
  /\ \/ At(c, "open") /\ call[c].op = "start" /\ Goto(c, "build")
     \/ At(c, "bind") /\ call[c].op = "start" /\ Goto(c, "build")
     \/ At(c, "build") /\ Throws(c)
     \/ call[c].pc \in {"verify", "record", "fail"} /\ Return(c)
     \/ call[c].pc \in {"open", "bind"} /\ call[c].op = "check" /\ Return(c)
  /\ UNCHANGED <<session, event, attempt, progress, old, sweep>>

LoseEvent(s) ==
  /\ Fault
  /\ event[s] # "none" /\ event' = [event EXCEPT ![s] = "none"]
  /\ UNCHANGED <<session, attempt, progress, call, old, sweep>>

Crash(i) ==
  /\ Fault
  /\ \E c \in Calls : Host[c] = i /\ ~At(c, "idle")
  /\ call' = [c \in Calls |-> IF Host[c] = i THEN Idle ELSE call[c]]
  /\ UNCHANGED <<session, event, attempt, progress, old, sweep>>

----------------------------------------------------------------------------

CallStep(c) ==
  \/ Open(c) \/ Bind(c) \/ Build(c) \/ FailAttempt(c)
  \/ Admit(c) \/ Verify(c) \/ ReadBack(c) \/ Record(c)

Next ==
  \/ \E c \in Calls : CallStep(c) \/ WriteFails(c)
  \/ \E c \in Calls, s \in Sessions : Start(c, s) \/ Check(c, s)
  \/ \E s \in Sessions : SessionMoves(s) \/ OnSessionClosed(s) \/ LoseEvent(s)
  \/ \E a \in Attempts : Ages(a)
  \/ \E w \in Sweepers : SweepList(w) \/ SweepExpire(w)
  \/ \E i \in Instances : Crash(i)

Spec == Init /\ [][Next]_vars

\* A call's continuation runs and its store and provider calls return; the timer
\* of the sweep fires; time passes.
Fairness ==
  /\ \A c \in Calls : WF_vars(CallStep(c))
  /\ \A w \in Sweepers : WF_vars(SweepList(w) \/ SweepExpire(w))
  /\ \A a \in Attempts : WF_vars(Ages(a))

FairSpec == Spec /\ Fairness

----------------------------------------------------------------------------
(* Properties.                                                             *)

\* The verdict a check goes on to record was read, throughout, from the sandbox
\* of the status change the check started from: no reset, degradation or
\* teardown happened between its first read and the fence (runCheck).
VerdictOfOneSandbox ==
  \A c \in Calls :
    call[c].op = "check" /\ call[c].pc \in {"record", "open", "bind"}
      => call[c].graded \subseteq {call[c].stamp}

\* Progress and attempts, two tables written by racing checks, tell the same
\* story: every attempt is counted once, a completion once per attempt that
\* passed, and completed_at is set exactly on the passed ones.
ProgressAgrees ==
  /\ \A a \in Attempts : (attempt[a].status = "PASSED") = attempt[a].completed
  /\ \A x \in Subjects :
       LET mine   == {a \in Created : attempt[a].subject = x}
           passed == {a \in mine : attempt[a].completed}
       IN /\ progress[x].attempts = Cardinality(mine)
          /\ progress[x].completions = Cardinality(passed)
          /\ progress[x].status = IF passed # {} THEN "COMPLETED"
                                  ELSE IF mine # {} THEN "IN_PROGRESS" ELSE "NONE"

\* PASSED is absorbing: neither the end of the session, a failed check, a failed
\* start nor the sweep withdraws a pass, and a lab once completed stays completed.
PassIsKept ==
  [][/\ \A a \in Attempts : attempt[a].status = "PASSED" => attempt'[a].status = "PASSED"
     /\ \A x \in Subjects : progress[x].status = "COMPLETED" => progress'[x].status = "COMPLETED"]_vars

\* The sweep works from a list of live sessions read earlier; still it never
\* closes the attempt of a session that holds a sandbox when it writes.
LiveAttemptKept ==
  [][\A a \in Attempts :
       /\ attempt[a].session # NoSession
       /\ session[attempt[a].session].status \in OccupyingStatuses
       => attempt'[a].status # "EXPIRED" \/ attempt[a].status = "EXPIRED"]_vars

\* An attempt reads ENDED only when the session that hosted it was ended.
EndedMeansEnded ==
  \A a \in Attempts :
    attempt[a].status = "ENDED" =>
      /\ attempt[a].session \in Sessions
      /\ session[attempt[a].session].status \in {"ENDED", "FORGOTTEN"}

\* With one process, a pass that reached the record is recorded even when Start
\* left the session without an attempt, unless the store or the process fails:
\* two checks never open two attempts for it.
PassIsRecorded ==
  [][\A c \in Calls :
       /\ call[c].op = "check" /\ call[c].passed
       /\ call'[c] = Idle
       /\ faults' = faults
       => \E a \in Attempts : attempt'[a].session = call[c].s /\ attempt'[a].status = "PASSED"]_vars

\* No attempt stays in progress unless a session still holds its sandbox,
\* whatever close events, binds and processes were lost (AbandonedAttemptSweeper).
AttemptCloses ==
  \A a \in Attempts :
    (attempt[a].status = "IN_PROGRESS")
      ~> (\/ attempt[a].status # "IN_PROGRESS"
          \/ /\ attempt[a].session # NoSession
             /\ session[attempt[a].session].status \in OccupyingStatuses)
=============================================================================
