------------------------- MODULE LabAttemptsProofs -------------------------
(***************************************************************************)
(* Proofs of the safety properties of LabAttempts, for any number of       *)
(* sessions, students, attempts, requests, processes and sweeps: types and *)
(* verdicts first, then that the progress table agrees with the attempts,  *)
(* that a pass is never withdrawn, that closing an attempt agrees with its *)
(* session, and that with one process no pass goes unrecorded.             *)
(***************************************************************************)
EXTENDS LabAttempts, FiniteSetTheorems, TLAPS

USE AttemptsAssumption

----------------------------------------------------------------------------
(* The inductive invariant, but for the counts of ProgressAgrees.          *)

\* An attempt is created whole, and only a created one is ever bound.
AttemptOK(a) ==
  /\ attempt[a].status = "NONE" => attempt[a] = NotCreated
  /\ attempt[a].status # "NONE" => attempt[a].subject \in Subjects

\* A call in flight is about a session, and about the attempt it opened.
CallOK(k) ==
  /\ k.pc # "idle" => k.s \in Sessions
  /\ k.pc = "fail" => k.a \in Attempts
  /\ k.pc = "bind" => k.a \in Attempts /\ attempt[k.a].status # "NONE"

TypeInv ==
  /\ TypeOK
  /\ \A a \in Attempts : AttemptOK(a)
  /\ \A c \in Calls : CallOK(call[c])

(* What a step may do to the two tables. *)

Creates == \E a \in Attempts, x \in Subjects : CreateAttempt(a, x)

Records ==
  \E a \in Attempts, passed \in BOOLEAN : attempt[a].status # "NONE" /\ RecordCheck(a, passed)

Binds ==
  /\ progress' = progress
  /\ \E a \in Attempts, s \in Sessions :
       /\ attempt[a].status # "NONE"
       /\ attempt' = [attempt EXCEPT ![a].session = s]
       /\ \E c \in Calls : At(c, "bind") /\ call[c].a = a /\ call[c].s = s /\ call'[c].pc # "bind"

Outcomes == {"FAILED", "ENDED", "EXPIRED"}

Closes ==
  /\ progress' = progress
  /\ attempt' \in [Attempts -> Attempt]
  /\ \A a \in Attempts :
       \/ attempt'[a] = attempt[a]
       \/ /\ attempt[a].status = "IN_PROGRESS"
          /\ \E o \in Outcomes : attempt'[a] = [attempt[a] EXCEPT !.status = o]

TableStep ==
  \/ UNCHANGED <<attempt, progress>>
  \/ Creates \/ Records \/ Binds \/ Closes

\* A row whose status is overwritten with an outcome is a row.
LEMMA ClosedRow ==
  ASSUME NEW r \in Attempt, NEW o \in Outcomes
  PROVE  [r EXCEPT !.status = o] \in Attempt
BY Zenon DEF Attempt, Outcomes, AttemptStatuses

\* Closing one attempt is a case of closing several.
LEMMA FinishCloses ==
  ASSUME TypeInv, NEW a \in Attempts, NEW o \in Outcomes,
         FinishAttempt(a, o), progress' = progress
  PROVE  Closes
<1>1. attempt \in [Attempts -> Attempt] /\ attempt[a] \in Attempt
  BY Zenon DEF TypeInv, TypeOK
<1>2. CASE attempt[a].status = "IN_PROGRESS"
  <2>1. attempt' = [attempt EXCEPT ![a] = [attempt[a] EXCEPT !.status = o]]
    BY <1>2, Zenon DEF FinishAttempt
  <2> QED BY <1>1, <1>2, <2>1, ClosedRow, Zenon DEF Closes
<1>3. CASE attempt[a].status # "IN_PROGRESS"
  <2>1. attempt' = [attempt EXCEPT ![a] = [attempt[a] EXCEPT !.status = attempt[a].status]]
    BY <1>3, Zenon DEF FinishAttempt
  <2>2. [attempt[a] EXCEPT !.status = attempt[a].status] = attempt[a]
    BY <1>1 DEF Attempt
  <2>3. attempt' = attempt
    BY <1>1, <2>1, <2>2, Zenon
  <2> QED BY <1>1, <2>3, Zenon DEF Closes
<1> QED BY <1>2, <1>3, Zenon

\* So is the sweep's statement.
LEMMA ExpireCloses ==
  ASSUME TypeInv, NEW w \in Sweepers, SweepExpire(w)
  PROVE  Closes
<1>1. attempt \in [Attempts -> Attempt]
  BY Zenon DEF TypeInv, TypeOK
<1> DEFINE gone == Stale(sweep[w].live, sweep[w].stale)
<1>2. \A a \in gone : attempt[a].status = "IN_PROGRESS"
  BY Zenon DEF Stale
<1>3. /\ progress' = progress
      /\ attempt' = [a \in Attempts |->
                      IF a \in gone THEN [attempt[a] EXCEPT !.status = "EXPIRED"] ELSE attempt[a]]
  BY Zenon DEF SweepExpire
<1>4. "EXPIRED" \in Outcomes
  BY Zenon DEF Outcomes
<1> HIDE DEF gone
<1> QED BY <1>1, <1>2, <1>3, <1>4, ClosedRow, Zenon DEF Closes

\* The tables change only by the store's statements.
LEMMA NextTables ==
  ASSUME TypeInv, [Next]_vars
  PROVE  TableStep
<1>1. ASSUME NEW c \in Calls, CallStep(c)
      PROVE  TableStep
  <2>1. CASE Open(c)
    <3>1. Subject[call[c].s] \in Subjects
      BY <2>1, Zenon DEF Open, At, TypeInv, CallOK
    <3> QED BY <2>1, <3>1, Zenon DEF Open, TableStep, Creates
  <2>2. CASE Bind(c)
    <3>1. call[c].a \in Attempts /\ attempt[call[c].a].status # "NONE" /\ call[c].s \in Sessions
      BY <2>2, Zenon DEF Bind, At, TypeInv, CallOK
    <3>2. call'[c].pc # "bind"
      BY <2>2 DEF Bind, Bound, Goto, Return, Becomes, Idle, TypeInv, TypeOK, Call
    <3> QED BY <2>2, <3>1, <3>2, Zenon DEF Bind, TableStep, Binds
  <2>3. CASE FailAttempt(c)
    <3>1. call[c].a \in Attempts
      BY <2>3, Zenon DEF FailAttempt, At, TypeInv, CallOK
    <3> QED BY <2>3, <3>1, FinishCloses, Zenon DEF FailAttempt, TableStep, Outcomes
  <2>4. CASE Record(c)
    <3>1. call[c].passed \in BOOLEAN /\ call[c].s \in Sessions
      BY <2>4, Zenon DEF Record, At, TypeInv, CallOK, TypeOK, Call
    <3>2. \A a \in BoundTo(call[c].s) : a \in Attempts /\ attempt[a].status # "NONE"
      BY <3>1 DEF BoundTo, TypeInv, AttemptOK, NotCreated
    <3> QED BY <2>4, <3>1, <3>2, Zenon DEF Record, TableStep, Records
  <2>5. CASE Build(c) \/ Admit(c) \/ Verify(c) \/ ReadBack(c)
    BY <2>5, Zenon DEF Build, Admit, Verify, ReadBack, TableStep
  <2> QED BY <1>1, <2>1, <2>2, <2>3, <2>4, <2>5, Zenon DEF CallStep
<1>2. ASSUME NEW s \in Sessions, OnSessionClosed(s)
      PROVE  TableStep
  <2>1. event[s] \in Outcomes
    BY <1>2, Zenon DEF OnSessionClosed, TypeInv, TypeOK, Outcomes
  <2> QED BY <1>2, <2>1, FinishCloses, Zenon DEF OnSessionClosed, TableStep, BoundTo
<1>3. ASSUME NEW w \in Sweepers, SweepExpire(w)
      PROVE  TableStep
  BY <1>3, ExpireCloses, Zenon DEF TableStep
<1> QED BY <1>1, <1>2, <1>3, Zenon DEF Next, vars, TableStep, WriteFails, Start, Check,
           SessionMoves, LoseEvent, Ages, SweepList, Crash

----------------------------------------------------------------------------
(* Types.                                                                  *)

TablesOK ==
  /\ attempt \in [Attempts -> Attempt] /\ progress \in [Subjects -> Progress]
  /\ \A a \in Attempts : AttemptOK(a)

CreatedStays == \A a \in Attempts : attempt[a].status # "NONE" => attempt'[a].status # "NONE"

\* The store's statements keep the tables well formed and remove nothing.
LEMMA TableTypes ==
  ASSUME TypeInv, TableStep
  PROVE  TablesOK' /\ CreatedStays
<1>0. TablesOK
  BY Zenon DEF TypeInv, TypeOK, TablesOK
<1>1. CASE UNCHANGED <<attempt, progress>>
  BY <1>0, <1>1, Zenon DEF TablesOK, AttemptOK, CreatedStays
<1>2. CASE Creates
  <2>1. PICK a \in Attempts, x \in Subjects : CreateAttempt(a, x)
    BY <1>2, Zenon DEF Creates
  <2>2. NewAttempt(x) \in Attempt /\ NewAttempt(x).subject \in Subjects
        /\ NewAttempt(x).status # "NONE"
    BY Zenon DEF NewAttempt, Attempt, AttemptStatuses
  <2>3. attempt' = [attempt EXCEPT ![a] = NewAttempt(x)]
    BY <2>1, Zenon DEF CreateAttempt
  <2>4. progress' \in [Subjects -> Progress]
    BY <1>0, <2>1 DEF CreateAttempt, TablesOK, Progress
  <2> QED BY <1>0, <2>2, <2>3, <2>4, Zenon DEF TablesOK, AttemptOK, CreatedStays
<1>3. CASE Records
  <2>1. PICK a \in Attempts, passed \in BOOLEAN : attempt[a].status # "NONE" /\ RecordCheck(a, passed)
    BY <1>3 DEF Records
  <2>2. attempt[a] \in Attempt /\ attempt[a].subject \in Subjects
    BY <1>0, <2>1, Zenon DEF TablesOK, AttemptOK
  <2> DEFINE r == [attempt[a] EXCEPT !.status = IF passed THEN "PASSED" ELSE @,
                                     !.completed = @ \/ passed]
  <2>3. r \in Attempt /\ r.subject = attempt[a].subject /\ r.status # "NONE"
    BY <2>1, <2>2, Zenon DEF Attempt, AttemptStatuses
  <2>4. attempt' = [attempt EXCEPT ![a] = r]
    BY <2>1, <2>2, Zenon DEF RecordCheck
  <2>5. progress' \in [Subjects -> Progress]
    BY <1>0, <2>1, <2>2 DEF RecordCheck, TablesOK, Progress
  <2> HIDE DEF r
  <2> QED BY <1>0, <2>2, <2>3, <2>4, <2>5, Zenon DEF TablesOK, AttemptOK, CreatedStays
<1>4. CASE Binds
  <2>1. PICK a \in Attempts, s \in Sessions :
          attempt[a].status # "NONE" /\ attempt' = [attempt EXCEPT ![a].session = s]
    BY <1>4, Zenon DEF Binds
  <2> DEFINE r == [attempt[a] EXCEPT !.session = s]
  <2>2. attempt[a] \in Attempt /\ attempt[a].subject \in Subjects
    BY <1>0, <2>1, Zenon DEF TablesOK, AttemptOK
  <2>3. r \in Attempt /\ r.subject = attempt[a].subject /\ r.status # "NONE"
    BY <2>1, <2>2, Zenon DEF Attempt
  <2>4. attempt' = [attempt EXCEPT ![a] = r] /\ progress' = progress
    BY <1>4, <2>1, Zenon DEF Binds
  <2> HIDE DEF r
  <2> QED BY <1>0, <2>2, <2>3, <2>4, Zenon DEF TablesOK, AttemptOK, CreatedStays
<1>5. CASE Closes
  <2>1. attempt' \in [Attempts -> Attempt] /\ progress' = progress
    BY <1>5, Zenon DEF Closes
  <2>2. ASSUME NEW a \in Attempts
        PROVE  /\ AttemptOK(a)'
               /\ attempt[a].status # "NONE" => attempt'[a].status # "NONE"
    <3>1. attempt[a] \in Attempt /\ AttemptOK(a)
      BY <1>0, Zenon DEF TablesOK
    <3>2. CASE attempt'[a] = attempt[a]
      BY <3>1, <3>2 DEF AttemptOK
    <3>3. ASSUME attempt[a].status = "IN_PROGRESS", NEW o \in Outcomes,
                 attempt'[a] = [attempt[a] EXCEPT !.status = o]
          PROVE  AttemptOK(a)' /\ attempt'[a].status # "NONE"
      <4>1. attempt'[a].status = o /\ attempt'[a].subject = attempt[a].subject
        BY <3>3
      <4> QED BY <3>1, <3>3, <4>1, Zenon DEF AttemptOK, Outcomes
    <3> QED BY <1>5, <3>2, <3>3, Zenon DEF Closes
  <2> QED BY <1>0, <2>1, <2>2, Zenon DEF TablesOK, CreatedStays
<1> QED BY <1>1, <1>2, <1>3, <1>4, <1>5, Zenon DEF TableStep

CallsOK == call \in [Calls -> Call] /\ \A c \in Calls : CallOK(call[c])

\* A call that becomes a well formed one leaves all calls so.
LEMMA BecomesOK ==
  ASSUME TypeInv, CreatedStays, NEW c \in Calls, NEW k \in Call, Becomes(c, k),
         k.pc # "idle" => k.s \in Sessions,
         k.pc = "fail" => k.a \in Attempts,
         k.pc = "bind" => k.a \in Attempts /\ attempt'[k.a].status # "NONE"
  PROVE  CallsOK'
<1>1. call \in [Calls -> Call] /\ call' = [call EXCEPT ![c] = k]
  BY Zenon DEF TypeInv, TypeOK, Becomes
<1>2. ASSUME NEW d \in Calls
      PROVE  CallOK(call[d])'
  <2>1. CASE d = c
    BY <1>1, <2>1, Zenon DEF CallOK
  <2>2. CASE d # c
    BY <1>1, <2>2, Zenon DEF CallOK, TypeInv, CreatedStays
  <2> QED BY <2>1, <2>2, Zenon
<1> QED BY <1>1, <1>2, Zenon DEF CallsOK

\* So does one that returns ...
LEMMA ReturnOK ==
  ASSUME TypeInv, CreatedStays, NEW c \in Calls, Return(c)
  PROVE  CallsOK'
<1>1. Idle \in Call /\ Idle.pc = "idle"
  BY Zenon DEF Idle, Call
<1> QED BY <1>1, BecomesOK, Zenon DEF Return

\* ... or goes on to an await that needs no attempt of its own.
LEMMA GotoOK ==
  ASSUME TypeInv, CreatedStays, NEW c \in Calls, ~At(c, "idle"),
         NEW pc \in {"open", "build", "fail", "verify", "record"}, Goto(c, pc),
         pc = "fail" => call[c].a # NoAttempt
  PROVE  CallsOK'
<1>1. call[c] \in Call /\ call[c].s \in Sessions
  BY Zenon DEF TypeInv, TypeOK, CallOK, At
<1> DEFINE k == [call[c] EXCEPT !.pc = pc]
<1>2. k \in Call /\ k.s = call[c].s /\ k.pc = pc /\ k.a = call[c].a
  BY <1>1, Zenon DEF Call
<1>3. Becomes(c, k)
  BY Zenon DEF Goto
<1>4. pc = "fail" => k.a \in Attempts
  BY <1>2, Zenon DEF Call
<1> HIDE DEF k
<1> QED BY <1>1, <1>2, <1>3, <1>4, BecomesOK, Zenon

\* Every step leaves the calls well formed.
LEMMA NextCalls ==
  ASSUME TypeInv, [Next]_vars, CreatedStays
  PROVE  CallsOK'
<1>0. ASSUME call' = call
      PROVE  CallsOK'
  BY <1>0, Zenon DEF CallsOK, TypeInv, TypeOK, CallOK, CreatedStays
<1>1. ASSUME NEW c \in Calls, CallStep(c)
      PROVE  CallsOK'
  <2>1. CASE Open(c)
    <3>1. PICK a \in Attempts : /\ CreateAttempt(a, Subject[call[c].s])
                               /\ Becomes(c, [call[c] EXCEPT !.pc = "bind", !.a = a])
      BY <2>1, Zenon DEF Open
    <3>2. attempt'[a].status # "NONE"
      BY <3>1, Zenon DEF CreateAttempt, NewAttempt, TypeInv, TypeOK
    <3> DEFINE k == [call[c] EXCEPT !.pc = "bind", !.a = a]
    <3>3. call[c] \in Call /\ call[c].s \in Sessions
      BY <2>1, Zenon DEF Open, At, TypeInv, TypeOK, CallOK
    <3>4. k \in Call /\ k.pc = "bind" /\ k.a = a /\ k.s = call[c].s
      BY <3>3, Zenon DEF Call
    <3> HIDE DEF k
    <3> QED BY <3>1, <3>2, <3>3, <3>4, BecomesOK, Zenon DEF k
  <2>2. CASE Bind(c)
    BY <2>2, GotoOK, ReturnOK, Zenon DEF Bind, Bound, At
  <2>3. CASE Build(c)
    BY <2>3, GotoOK, ReturnOK, Zenon DEF Build, Throws, At
  <2>4. CASE FailAttempt(c)
    BY <2>4, ReturnOK, Zenon DEF FailAttempt
  <2>5. CASE Admit(c) \/ Record(c)
    BY <2>5, GotoOK, ReturnOK, Zenon DEF Admit, Record, At
  <2>6. CASE Verify(c)
    <3> DEFINE k == [call[c] EXCEPT !.graded = @ \cup {session[call[c].s].stamp}]
    <3>1. call[c] \in Call /\ call[c].s \in Sessions /\ call[c].pc = "verify"
      BY <2>6, Zenon DEF Verify, At, TypeInv, TypeOK, CallOK
    <3>2. session[call[c].s].stamp \in Nat
      BY <3>1, Zenon DEF TypeInv, TypeOK
    <3>3. k \in Call /\ k.pc = "verify" /\ k.s = call[c].s
      BY <3>1, <3>2, Zenon DEF Call
    <3>4. Becomes(c, k)
      BY <2>6, Zenon DEF Verify
    <3> HIDE DEF k
    <3> QED BY <3>1, <3>3, <3>4, BecomesOK, Zenon
  <2>7. CASE ReadBack(c)
    <3>1. call[c] \in Call /\ call[c].s \in Sessions
      BY <2>7, Zenon DEF ReadBack, At, TypeInv, TypeOK, CallOK
    <3>2. ASSUME NEW passed \in BOOLEAN,
                 Becomes(c, [call[c] EXCEPT !.pc = "record", !.passed = passed])
          PROVE  CallsOK'
      <4> DEFINE k == [call[c] EXCEPT !.pc = "record", !.passed = passed]
      <4>1. k \in Call /\ k.pc = "record" /\ k.s = call[c].s
        BY <3>1, Zenon DEF Call
      <4>2. Becomes(c, k)
        BY <3>2, Zenon
      <4> HIDE DEF k
      <4> QED BY <3>1, <4>1, <4>2, BecomesOK, Zenon
    <3> QED BY <2>7, <3>2, ReturnOK, Zenon DEF ReadBack
  <2> QED BY <1>1, <2>1, <2>2, <2>3, <2>4, <2>5, <2>6, <2>7, Zenon DEF CallStep
<1>2. ASSUME NEW c \in Calls, WriteFails(c)
      PROVE  CallsOK'
  BY <1>2, GotoOK, ReturnOK, Zenon DEF WriteFails, Throws, At
<1>3. ASSUME NEW c \in Calls, NEW s \in Sessions, Start(c, s)
      PROVE  CallsOK'
  <2> DEFINE k == [Idle EXCEPT !.pc = "open", !.s = s]
  <2>1. k \in Call /\ k.pc = "open" /\ k.s = s
    BY Zenon DEF Call, Idle
  <2>2. Becomes(c, k)
    BY <1>3, Zenon DEF Start
  <2> HIDE DEF k
  <2> QED BY <2>1, <2>2, BecomesOK, Zenon
<1>4. ASSUME NEW c \in Calls, NEW s \in Sessions, Check(c, s)
      PROVE  CallsOK'
  <2> DEFINE k == [Idle EXCEPT !.pc = "admit", !.op = "check", !.s = s, !.stamp = session[s].stamp]
  <2>1. session[s].stamp \in Nat
    BY Zenon DEF TypeInv, TypeOK
  <2>2. k \in Call /\ k.pc = "admit" /\ k.s = s
    BY <2>1, Zenon DEF Call, Idle
  <2>3. Becomes(c, k)
    BY <1>4 DEF Check
  <2> HIDE DEF k
  <2> QED BY <2>2, <2>3, BecomesOK, Zenon
<1>5. ASSUME NEW i \in Instances, Crash(i)
      PROVE  CallsOK'
  <2>1. Idle \in Call /\ Idle.pc = "idle"
    BY Zenon DEF Idle, Call
  <2>2. call' = [c \in Calls |-> IF Host[c] = i THEN Idle ELSE call[c]]
    BY <1>5, Zenon DEF Crash
  <2> QED BY <2>1, <2>2, Zenon DEF CallsOK, CallOK, TypeInv, TypeOK, CreatedStays
<1> QED BY <1>0, <1>1, <1>2, <1>3, <1>4, <1>5, Zenon DEF Next, vars, SessionMoves, OnSessionClosed,
           LoseEvent, Ages, SweepList, SweepExpire

\* A session that changes takes an edge of the lifecycle and a new stamp.
SessionStep ==
  \/ session' = session
  \/ \E s \in Sessions, to \in Statuses \cup NoRowStatuses :
       <<session[s].status, to>> \in Lifecycle!Edges /\ Moves(s, to)

\* Sessions change in no other way.
LEMMA NextSessions ==
  ASSUME TypeInv, [Next]_vars
  PROVE  SessionStep
<1>1. ASSUME NEW s \in Sessions, SessionMoves(s)
      PROVE  SessionStep
  BY <1>1, Zenon DEF SessionMoves, SessionStep, NoRowStatuses
<1>2. ASSUME NEW c \in Calls, NEW s \in Sessions, Start(c, s)
      PROVE  SessionStep
  BY <1>2, Zenon DEF Start, SessionStep, Statuses, Lifecycle!Edges
<1>3. ASSUME NEW c \in Calls, Build(c)
      PROVE  SessionStep
  <2>1. call[c].s \in Sessions
    BY <1>3, Zenon DEF Build, At, TypeInv, CallOK
  <2> QED BY <1>3, <2>1, Zenon DEF Build, SessionStep, Statuses, Lifecycle!Edges
<1> QED BY <1>1, <1>2, <1>3, Zenon DEF Next, vars, CallStep, SessionStep, Open, Bind, FailAttempt,
           Admit, Verify, ReadBack, Record, WriteFails, Check, OnSessionClosed, LoseEvent, Ages,
           SweepList, SweepExpire, Crash

SessionsOK == session \in [Sessions -> [status : Statuses \cup NoRowStatuses, stamp : Nat]]

\* What a session was tells what it is: stamps only grow, an unchanged stamp is
\* an unchanged row, and a session that ended holds no sandbox again.
SessionMemory ==
  \A s \in Sessions :
    /\ session'[s].stamp >= session[s].stamp
    /\ session'[s].stamp = session[s].stamp => session'[s] = session[s]
    /\ session'[s].status \in OccupyingStatuses =>
         session[s].status \in OccupyingStatuses \cup {"UNUSED"}
    /\ session'[s].status = "UNUSED" => session[s].status = "UNUSED"
    /\ session[s].status \in {"ENDED", "FORGOTTEN"} => session'[s].status \in {"ENDED", "FORGOTTEN"}

\* Every way a session changes keeps this memory.
LEMMA SessionsRemember ==
  ASSUME TypeInv, SessionStep
  PROVE  SessionsOK' /\ SessionMemory
<1>0. session \in [Sessions -> [status : Statuses \cup NoRowStatuses, stamp : Nat]]
  BY DEF TypeInv, TypeOK
<1>1. CASE session' = session
  BY <1>0, <1>1 DEF SessionsOK, SessionMemory
<1>2. ASSUME NEW s \in Sessions, NEW to \in Statuses \cup NoRowStatuses,
             <<session[s].status, to>> \in Lifecycle!Edges, Moves(s, to)
      PROVE  SessionsOK' /\ SessionMemory
  <2> DEFINE r == [status |-> to, stamp |-> session[s].stamp + 1]
  <2>1. session' = [session EXCEPT ![s] = r]
    BY <1>2, Zenon DEF Moves
  <2>2. /\ r \in [status : Statuses \cup NoRowStatuses, stamp : Nat]
        /\ r.stamp > session[s].stamp /\ r.status = to
    BY <1>0
  <2>3. /\ to # "UNUSED"
        /\ to \in OccupyingStatuses => session[s].status \in OccupyingStatuses \cup {"UNUSED"}
        /\ session[s].status \in {"ENDED", "FORGOTTEN"} => to = "FORGOTTEN"
    BY <1>2, Zenon DEF Lifecycle!Edges, Lifecycle!LiveStatuses, OccupyingStatuses
  <2> HIDE DEF r
  <2>4. ASSUME NEW u \in Sessions
        PROVE  session'[u] = IF u = s THEN r ELSE session[u]
    BY <1>0, <2>1, Zenon
  <2>5. SessionsOK'
    BY <1>0, <2>1, <2>2, Zenon DEF SessionsOK
  <2>6. \A u \in Sessions : session[u].stamp \in Nat
    BY <1>0, Zenon
  <2> QED BY <2>2, <2>3, <2>4, <2>5, <2>6 DEF SessionMemory
<1> QED BY <1>1, <1>2, Zenon DEF SessionStep

\* The initial state satisfies the invariant.
LEMMA TypeInit == Init => TypeInv
<1> SUFFICES ASSUME Init PROVE TypeInv
  BY Zenon
<1>1. NotCreated \in Attempt /\ NotCreated.status = "NONE" /\ Idle \in Call /\ Idle.pc = "idle"
  BY Zenon DEF NotCreated, Attempt, Idle, Call
<1>2. TypeOK
  BY <1>1, Zenon DEF Init, TypeOK, NoRowStatuses, Progress, NoSweep
<1> QED BY <1>1, <1>2, Zenon DEF Init, TypeInv, AttemptOK, CallOK

\* Every step keeps it.
LEMMA TypeStep ==
  ASSUME TypeInv, [Next]_vars
  PROVE  TypeInv'
<1>1. TablesOK' /\ CreatedStays
  BY NextTables, TableTypes, Zenon
<1>2. CallsOK'
  BY <1>1, NextCalls, Zenon
<1>3. SessionsOK'
  BY NextSessions, SessionsRemember, Zenon
<1>4. event' \in [Sessions -> {"none", "ENDED", "EXPIRED"}]
  <2>1. \/ event' = event
        \/ \E s \in Sessions : SessionMoves(s) \/ OnSessionClosed(s) \/ LoseEvent(s)
    BY Zenon DEF Next, vars, CallStep, Open, Bind, Build, FailAttempt, Admit, Verify, ReadBack,
       Record, WriteFails, Start, Check, Ages, SweepList, SweepExpire, Crash
  <2> QED BY <2>1, Zenon DEF TypeInv, TypeOK, SessionMoves, OnSessionClosed, LoseEvent
<1>5. old' \subseteq Attempts
  <2>1. old' = old \/ \E a \in Attempts : Ages(a)
    BY Zenon DEF Next, vars, CallStep, Open, Bind, Build, FailAttempt, Admit, Verify, ReadBack,
       Record, WriteFails, Start, Check, SessionMoves, OnSessionClosed, LoseEvent, SweepList,
       SweepExpire, Crash
  <2> QED BY <2>1, Zenon DEF TypeInv, TypeOK, Ages
<1>6. sweep' \in [Sweepers -> [on : BOOLEAN, live : SUBSET Sessions, stale : SUBSET Attempts]]
  <2>1. sweep' = sweep \/ \E w \in Sweepers : SweepList(w) \/ SweepExpire(w)
    BY Zenon DEF Next, vars, CallStep, Open, Bind, Build, FailAttempt, Admit, Verify, ReadBack,
       Record, WriteFails, Start, Check, SessionMoves, OnSessionClosed, LoseEvent, Ages, Crash
  <2>2. ASSUME NEW w \in Sweepers, NEW r \in [on : BOOLEAN, live : SUBSET Sessions, stale : SUBSET Attempts],
               sweep' = [sweep EXCEPT ![w] = r]
        PROVE  sweep' \in [Sweepers -> [on : BOOLEAN, live : SUBSET Sessions, stale : SUBSET Attempts]]
    BY <2>2, Zenon DEF TypeInv, TypeOK
  <2>3. NoSweep \in [on : BOOLEAN, live : SUBSET Sessions, stale : SUBSET Attempts]
    BY Zenon DEF NoSweep
  <2>4. [on |-> TRUE, live |-> {s \in Sessions : session[s].status \in OccupyingStatuses}, stale |-> old]
          \in [on : BOOLEAN, live : SUBSET Sessions, stale : SUBSET Attempts]
    BY Zenon DEF TypeInv, TypeOK
  <2>5. ASSUME sweep' = sweep
        PROVE  sweep' \in [Sweepers -> [on : BOOLEAN, live : SUBSET Sessions, stale : SUBSET Attempts]]
    BY <2>5, Zenon DEF TypeInv, TypeOK
  <2> QED BY <2>1, <2>2, <2>3, <2>4, <2>5, Zenon DEF SweepList, SweepExpire
<1>7. faults' \in Nat
  <2>1. faults' = faults \/ Fault
    BY Zenon DEF Next, vars, CallStep, Open, Bind, Build, FailAttempt, Admit, Verify, ReadBack,
       Record, WriteFails, Start, Check, SessionMoves, OnSessionClosed, LoseEvent, Ages, SweepList,
       SweepExpire, Crash
  <2> QED BY <2>1 DEF TypeInv, TypeOK, Fault
<1> QED BY <1>1, <1>2, <1>3, <1>4, <1>5, <1>6, <1>7, Zenon DEF TypeInv, TypeOK, TablesOK, CallsOK,
           SessionsOK

\* The types of the tables, sessions and calls hold in every reachable state, and
\* with them that only created attempts are bound or recorded against.
THEOREM AttemptsTypeCorrect == Spec => []TypeOK
<1>1. Spec => []TypeInv
  BY TypeInit, TypeStep, PTL DEF Spec
<1>2. TypeInv => TypeOK
  BY Zenon DEF TypeInv
<1> QED BY <1>1, <1>2, PTL

----------------------------------------------------------------------------
(* A verdict is one sandbox's.                                             *)

\* n is the stamp of the session's row now: whatever was read since the check
\* began was read under a stamp between its own and n.
VerdictOK(k, n) ==
  k.op = "check" =>
    /\ k.pc \in {"admit", "verify"} =>
         k.stamp <= n /\ \A g \in k.graded : k.stamp <= g /\ g <= n
    /\ k.pc \in {"record", "open", "bind"} => k.graded \subseteq {k.stamp}

VerdictInv ==
  \A c \in Calls : call[c].pc # "idle" => VerdictOK(call[c], session[call[c].s].stamp)

\* It is enough to look at the call that changed.
LEMMA VerdictBecomes ==
  ASSUME TypeInv, TypeInv', VerdictInv, SessionMemory, NEW c \in Calls, NEW k \in Call,
         Becomes(c, k), k.pc # "idle" => VerdictOK(k, session'[k.s].stamp)
  PROVE  VerdictInv'
<1>1. call \in [Calls -> Call] /\ call' = [call EXCEPT ![c] = k]
  BY Zenon DEF TypeInv, TypeOK, Becomes
<1>2. ASSUME NEW d \in Calls, d # c, call[d].pc # "idle"
      PROVE  VerdictOK(call[d], session'[call[d].s].stamp)
  <2>1. call[d].s \in Sessions /\ call[d] \in Call
    BY <1>1, <1>2, Zenon DEF TypeInv, CallOK
  <2>2. /\ session[call[d].s].stamp \in Nat /\ session'[call[d].s].stamp \in Nat
        /\ session'[call[d].s].stamp >= session[call[d].s].stamp
    BY <2>1, Zenon DEF TypeInv, TypeOK, SessionMemory
  <2>3. call[d].stamp \in Nat /\ call[d].graded \subseteq Nat
    BY <2>1, Zenon DEF Call
  <2> QED BY <1>2, <2>2, <2>3 DEF VerdictInv, VerdictOK
<1> QED BY <1>1, <1>2, Zenon DEF VerdictInv

\* Moving to the next await after the fence keeps the verdict's reads.
LEMMA VerdictGoto ==
  ASSUME TypeInv, TypeInv', VerdictInv, SessionMemory, NEW c \in Calls, ~At(c, "idle"),
         NEW pc, Goto(c, pc),
         \/ pc \in {"build", "fail"}
         \/ At(c, "admit") /\ pc = "verify" /\ session' = session
         \/ call[c].pc \in {"record", "open", "bind"} /\ pc \in {"record", "open", "bind"}
  PROVE  VerdictInv'
<1>1. call[c] \in Call /\ VerdictOK(call[c], session[call[c].s].stamp)
  BY Zenon DEF TypeInv, TypeOK, VerdictInv, At
<1> DEFINE k == [call[c] EXCEPT !.pc = pc]
<1>2. /\ k \in Call /\ k.pc = pc /\ k.s = call[c].s /\ k.op = call[c].op
      /\ k.stamp = call[c].stamp /\ k.graded = call[c].graded
  BY <1>1, Zenon DEF Call
<1>3. Becomes(c, k)
  BY Zenon DEF Goto
<1> HIDE DEF k
<1>4. VerdictOK(k, session'[k.s].stamp)
  BY <1>1, <1>2, Zenon DEF VerdictOK, At
<1> QED BY <1>2, <1>3, <1>4, VerdictBecomes, Zenon

\* A call that returned has no verdict.
LEMMA VerdictReturn ==
  ASSUME TypeInv, TypeInv', VerdictInv, SessionMemory, NEW c \in Calls, Return(c)
  PROVE  VerdictInv'
<1>1. Idle \in Call /\ Idle.pc = "idle"
  BY Zenon DEF Idle, Call
<1> QED BY <1>1, VerdictBecomes, Zenon DEF Return

\* Every step keeps the verdicts.
LEMMA VerdictStep ==
  ASSUME TypeInv, TypeInv', VerdictInv, [Next]_vars
  PROVE  VerdictInv'
<1>0. SessionMemory
  BY NextSessions, SessionsRemember, Zenon
<1>1. ASSUME call' = call
      PROVE  VerdictInv'
  <2> SUFFICES ASSUME NEW c \in Calls, call[c].pc # "idle"
               PROVE  VerdictOK(call[c], session'[call[c].s].stamp)
    BY <1>1, Zenon DEF VerdictInv
  <2>1. call[c].s \in Sessions /\ call[c] \in Call
    BY Zenon DEF TypeInv, TypeOK, CallOK
  <2>2. /\ session[call[c].s].stamp \in Nat /\ session'[call[c].s].stamp \in Nat
        /\ session'[call[c].s].stamp >= session[call[c].s].stamp
    BY <1>0, <2>1, Zenon DEF TypeInv, TypeOK, SessionMemory
  <2>3. call[c].stamp \in Nat /\ call[c].graded \subseteq Nat
    BY <2>1, Zenon DEF Call
  <2> QED BY <2>2, <2>3 DEF VerdictInv, VerdictOK
<1>2. ASSUME NEW c \in Calls, CallStep(c)
      PROVE  VerdictInv'
  <2>0. ASSUME ~At(c, "idle")
        PROVE  call[c] \in Call /\ call[c].s \in Sessions /\ VerdictOK(call[c], session[call[c].s].stamp)
    BY <2>0, Zenon DEF TypeInv, TypeOK, CallOK, VerdictInv, At
  <2>1. CASE Open(c)
    <3>1. PICK a \in Attempts : Becomes(c, [call[c] EXCEPT !.pc = "bind", !.a = a])
      BY <2>1, Zenon DEF Open
    <3> DEFINE k == [call[c] EXCEPT !.pc = "bind", !.a = a]
    <3>2. /\ k \in Call /\ k.pc = "bind" /\ k.op = call[c].op
          /\ k.stamp = call[c].stamp /\ k.graded = call[c].graded
      BY <2>0, <2>1, Zenon DEF Call, Open, At
    <3> HIDE DEF k
    <3>3. VerdictOK(k, session'[k.s].stamp)
      BY <2>0, <2>1, <3>2, Zenon DEF VerdictOK, Open, At
    <3> QED BY <1>0, <3>1, <3>2, <3>3, VerdictBecomes, Zenon DEF k
  <2>2. CASE Bind(c)
    BY <1>0, <2>2, VerdictGoto, VerdictReturn, Zenon DEF Bind, Bound, At
  <2>3. CASE Build(c)
    BY <1>0, <2>3, VerdictGoto, VerdictReturn, Zenon DEF Build, Throws, At
  <2>4. CASE FailAttempt(c)
    BY <1>0, <2>4, VerdictReturn, Zenon DEF FailAttempt
  <2>5. CASE Admit(c) \/ Record(c)
    BY <1>0, <2>5, VerdictGoto, VerdictReturn, Zenon DEF Admit, Record, At
  <2>6. CASE Verify(c)
    <3> DEFINE n == session[call[c].s].stamp
               k == [call[c] EXCEPT !.graded = @ \cup {n}]
    <3>1. call[c] \in Call /\ call[c].pc = "verify" /\ call[c].s \in Sessions
          /\ VerdictOK(call[c], n) /\ n \in Nat /\ session' = session /\ Becomes(c, k)
      BY <2>0, <2>6, Zenon DEF Verify, At, TypeInv, TypeOK
    <3>2. /\ k \in Call /\ k.pc = "verify" /\ k.op = call[c].op /\ k.s = call[c].s
          /\ k.stamp = call[c].stamp /\ k.graded = call[c].graded \cup {n}
      BY <3>1, Zenon DEF Call
    <3>3. session'[k.s].stamp = n
      BY <3>1, <3>2, Zenon
    <3> HIDE DEF k, n
    <3>4. VerdictOK(k, n)
      BY <3>1, <3>2 DEF VerdictOK
    <3> QED BY <1>0, <3>1, <3>2, <3>3, <3>4, VerdictBecomes, Zenon
  <2>7. CASE ReadBack(c)
    <3>1. ASSUME session[call[c].s] = [status |-> "ACTIVE", stamp |-> call[c].stamp],
                 NEW passed \in BOOLEAN,
                 Becomes(c, [call[c] EXCEPT !.pc = "record", !.passed = passed])
          PROVE  VerdictInv'
      <4> DEFINE k == [call[c] EXCEPT !.pc = "record", !.passed = passed]
      <4>1. call[c] \in Call /\ call[c].pc = "verify" /\ VerdictOK(call[c], call[c].stamp)
        <5>1. session[call[c].s].stamp = call[c].stamp
          BY <3>1
        <5>2. ~At(c, "idle") /\ call[c].pc = "verify"
          BY <2>7, Zenon DEF ReadBack, At
        <5> QED BY <2>0, <5>1, <5>2, Zenon
      <4>2. /\ k \in Call /\ k.pc = "record" /\ k.op = call[c].op
            /\ k.stamp = call[c].stamp /\ k.graded = call[c].graded
            /\ k.stamp \in Nat /\ k.graded \subseteq Nat
        BY <4>1, Zenon DEF Call
      <4> HIDE DEF k
      <4>3. k.op = "check" => \A g \in k.graded : g = k.stamp
        <5> SUFFICES ASSUME k.op = "check", NEW g \in k.graded
                     PROVE  g = k.stamp
          BY Zenon
        <5>1. k.stamp <= g /\ g <= k.stamp
          BY <4>1, <4>2, Zenon DEF VerdictOK
        <5> QED BY <4>2, <5>1
      <4>4. VerdictOK(k, session'[k.s].stamp)
        BY <4>2, <4>3, Zenon DEF VerdictOK
      <4> QED BY <1>0, <3>1, <4>2, <4>4, VerdictBecomes, Zenon DEF k
    <3> QED BY <1>0, <2>7, <3>1, VerdictReturn, Zenon DEF ReadBack
  <2> QED BY <1>2, <2>1, <2>2, <2>3, <2>4, <2>5, <2>6, <2>7, Zenon DEF CallStep
<1>3. ASSUME NEW c \in Calls, WriteFails(c)
      PROVE  VerdictInv'
  BY <1>0, <1>3, VerdictGoto, VerdictReturn, Zenon DEF WriteFails, Throws, At
<1>4. ASSUME NEW c \in Calls, NEW s \in Sessions, Start(c, s)
      PROVE  VerdictInv'
  <2> DEFINE k == [Idle EXCEPT !.pc = "open", !.s = s]
  <2>1. k \in Call /\ k.op = "start" /\ Becomes(c, k)
    BY <1>4, Zenon DEF Call, Idle, Start
  <2> HIDE DEF k
  <2> QED BY <1>0, <2>1, VerdictBecomes, Zenon DEF VerdictOK
<1>5. ASSUME NEW c \in Calls, NEW s \in Sessions, Check(c, s)
      PROVE  VerdictInv'
  <2> DEFINE k == [Idle EXCEPT !.pc = "admit", !.op = "check", !.s = s, !.stamp = session[s].stamp]
  <2>1. session[s].stamp \in Nat /\ session' = session
    BY <1>5, Zenon DEF TypeInv, TypeOK, Check
  <2>2. k \in Call /\ k.pc = "admit" /\ k.s = s /\ k.stamp = session[s].stamp /\ k.graded = {}
    BY <2>1, Zenon DEF Call, Idle
  <2>3. Becomes(c, k)
    BY <1>5, Zenon DEF Check
  <2> HIDE DEF k
  <2>4. VerdictOK(k, session'[k.s].stamp)
    BY <2>1, <2>2 DEF VerdictOK
  <2> QED BY <1>0, <2>2, <2>3, <2>4, VerdictBecomes, Zenon
<1>6. ASSUME NEW i \in Instances, Crash(i)
      PROVE  VerdictInv'
  <2>1. /\ call' = [c \in Calls |-> IF Host[c] = i THEN Idle ELSE call[c]]
        /\ session' = session /\ Idle.pc = "idle"
    BY <1>6, Zenon DEF Crash, Idle
  <2> QED BY <2>1, Zenon DEF VerdictInv
<1> QED BY <1>1, <1>2, <1>3, <1>4, <1>5, <1>6, Zenon DEF Next, vars, SessionMoves, OnSessionClosed,
           LoseEvent, Ages, SweepList, SweepExpire

\* What a check records was read, all of it, from one sandbox: runCheck's
\* read-back of status and stamp is a sufficient fence.
THEOREM VerdictHolds == Spec => []VerdictOfOneSandbox
<1>1. Init => TypeInv /\ VerdictInv
  BY TypeInit DEF Init, VerdictInv, Idle
<1>2. TypeInv /\ VerdictInv /\ [Next]_vars => (TypeInv /\ VerdictInv)'
  BY TypeStep, VerdictStep, Zenon
<1>3. VerdictInv => VerdictOfOneSandbox
  BY Zenon DEF VerdictInv, VerdictOK, VerdictOfOneSandbox
<1> QED BY <1>1, <1>2, <1>3, PTL DEF Spec
----------------------------------------------------------------------------
(* The progress table. *)

Mine(x) == {a \in Created : attempt[a].subject = x}

Passed(x) == {a \in Mine(x) : attempt[a].completed}

StatusOf(mine, passed) ==
  IF passed # {} THEN "COMPLETED" ELSE IF mine # {} THEN "IN_PROGRESS" ELSE "NONE"

Agrees(p, mine, passed) ==
  /\ p.attempts = Cardinality(mine) /\ p.completions = Cardinality(passed)
  /\ p.status = StatusOf(mine, passed)

ProgressInv ==
  /\ \A a \in Attempts : (attempt[a].status = "PASSED") = attempt[a].completed
  /\ \A x \in Subjects : Agrees(progress[x], Mine(x), Passed(x))

\* The counted sets are finite.
LEMMA Counted ==
  ASSUME NEW x
  PROVE  IsFiniteSet(Mine(x)) /\ IsFiniteSet(Passed(x))
<1>1. Mine(x) \subseteq Attempts /\ Passed(x) \subseteq Attempts
  BY Zenon DEF Mine, Passed, Created
<1> QED BY <1>1, FS_Subset, Zenon

\* A new attempt is counted by the subject it is made for.
LEMMA CreateCounts ==
  ASSUME TypeInv, ProgressInv, Creates
  PROVE  ProgressInv'
<1>1. PICK a \in Attempts, x \in Subjects : CreateAttempt(a, x)
  BY Zenon DEF Creates
<1>2. attempt \in [Attempts -> Attempt] /\ progress \in [Subjects -> Progress]
  BY Zenon DEF TypeInv, TypeOK
<1>3. attempt' = [attempt EXCEPT ![a] = NewAttempt(x)] /\ attempt[a].status = "NONE"
  BY <1>1, Zenon DEF CreateAttempt
<1>4. /\ attempt'[a].status = "IN_PROGRESS" /\ attempt'[a].subject = x
      /\ attempt'[a].completed = FALSE
  BY <1>2, <1>3, Zenon DEF NewAttempt
<1>5. \A b \in Attempts : b # a => attempt'[b] = attempt[b]
  BY <1>2, <1>3, Zenon
<1>6. \A b \in Attempts : (attempt'[b].status = "PASSED") = attempt'[b].completed
  BY <1>4, <1>5, Zenon DEF ProgressInv
<1>7. a \notin Mine(x) /\ Mine(x)' = Mine(x) \cup {a} /\ Passed(x)' = Passed(x)
  BY <1>3, <1>4 DEF Mine, Passed, Created
<1>8. ASSUME NEW y \in Subjects, y # x
      PROVE  Mine(y)' = Mine(y) /\ Passed(y)' = Passed(y) /\ progress'[y] = progress[y]
  BY <1>1, <1>4, <1>8 DEF Mine, Passed, Created, CreateAttempt
<1>9. Agrees(progress'[x], Mine(x)', Passed(x)')
  <2>1. /\ progress'[x].attempts = progress[x].attempts + 1
        /\ progress'[x].completions = progress[x].completions
        /\ progress'[x].status = IF progress[x].status = "COMPLETED" THEN "COMPLETED" ELSE "IN_PROGRESS"
    BY <1>1, <1>2 DEF CreateAttempt
  <2>2. Cardinality(Mine(x) \cup {a}) = Cardinality(Mine(x)) + 1
    BY <1>7, Counted, FS_AddElement, Zenon
  <2>3. Agrees(progress[x], Mine(x), Passed(x))
    BY Zenon DEF ProgressInv
  <2> QED BY <1>7, <2>1, <2>2, <2>3, Zenon DEF Agrees, StatusOf
<1> QED BY <1>6, <1>8, <1>9, Zenon DEF ProgressInv

\* A check counts a completion exactly when it is the attempt's first pass.
LEMMA RecordCounts ==
  ASSUME TypeInv, ProgressInv, Records
  PROVE  ProgressInv'
<1>1. PICK a \in Attempts, passed \in BOOLEAN : attempt[a].status # "NONE" /\ RecordCheck(a, passed)
  BY Zenon DEF Records
<1>2. attempt \in [Attempts -> Attempt] /\ progress \in [Subjects -> Progress]
      /\ attempt[a] \in Attempt /\ attempt[a].completed \in BOOLEAN
  BY Zenon DEF TypeInv, TypeOK, Attempt
<1>3. PICK x \in Subjects : x = attempt[a].subject
  BY <1>1, Zenon DEF TypeInv, AttemptOK
<1>4. /\ attempt'[a].status = IF passed THEN "PASSED" ELSE attempt[a].status
      /\ attempt'[a].subject = x
      /\ attempt'[a].completed = (attempt[a].completed \/ passed)
  BY <1>1, <1>2, <1>3, Zenon DEF RecordCheck, Attempt
<1>5. \A b \in Attempts : b # a => attempt'[b] = attempt[b]
  BY <1>1, <1>2, Zenon DEF RecordCheck
<1>6. \A b \in Attempts : (attempt'[b].status = "PASSED") = attempt'[b].completed
  <2>1. (attempt'[a].status = "PASSED") = attempt'[a].completed
    BY <1>2, <1>4, Zenon DEF ProgressInv
  <2> QED BY <1>5, <2>1, Zenon DEF ProgressInv
<1>7. \A b \in Attempts : /\ attempt'[b].status = "NONE" <=> attempt[b].status = "NONE"
                          /\ attempt'[b].subject = attempt[b].subject
  BY <1>1, <1>3, <1>4, <1>5, Zenon
<1>8. \A y \in Subjects : Mine(y)' = Mine(y)
  BY <1>7, Zenon DEF Mine, Created
<1>9. \A y \in Subjects : y # x => Passed(y)' = Passed(y)
  <2> SUFFICES ASSUME NEW y \in Subjects, y # x PROVE Passed(y)' = Passed(y)
    BY Zenon
  <2>1. \A b \in Mine(y) : b \in Attempts /\ b # a
    BY <1>3, Zenon DEF Mine, Created
  <2> QED BY <1>5, <1>8, <2>1, Zenon DEF Passed
<1>10. CASE passed /\ ~attempt[a].completed
  <2>1. a \in Mine(x) /\ a \notin Passed(x) /\ Passed(x)' = Passed(x) \cup {a}
    BY <1>4, <1>5, <1>8, <1>10, Zenon DEF Passed, Mine, Created
  <2>2. progress' = [progress EXCEPT ![x] = [status |-> "COMPLETED", attempts |-> progress[x].attempts,
                                                 completions |-> progress[x].completions + 1]]
    BY <1>1, <1>3, <1>10, Zenon DEF RecordCheck
  <2>3. Cardinality(Passed(x) \cup {a}) = Cardinality(Passed(x)) + 1
    BY <2>1, Counted, FS_AddElement, Zenon
  <2>4. Agrees(progress[x], Mine(x), Passed(x))
    BY Zenon DEF ProgressInv
  <2>5. /\ progress'[x].attempts = progress[x].attempts
        /\ progress'[x].completions = progress[x].completions + 1
        /\ progress'[x].status = "COMPLETED"
        /\ \A y \in Subjects : y # x => progress'[y] = progress[y]
    BY <1>2, <2>2, Zenon
  <2>6. Agrees(progress'[x], Mine(x)', Passed(x)')
    BY <1>8, <2>1, <2>3, <2>4, <2>5, Zenon DEF Agrees, StatusOf
  <2>7. \A y \in Subjects : y # x => Agrees(progress'[y], Mine(y)', Passed(y)')
    BY <1>8, <1>9, <2>5, Zenon DEF ProgressInv
  <2> QED BY <1>6, <2>6, <2>7, Zenon DEF ProgressInv
<1>11. CASE ~(passed /\ ~attempt[a].completed)
  <2>1. progress' = progress
    BY <1>1, <1>11, Zenon DEF RecordCheck
  <2>2. attempt'[a].completed = attempt[a].completed
    BY <1>2, <1>4, <1>11, Zenon
  <2>3. Passed(x)' = Passed(x)
    <3>1. \A b \in Mine(x) : attempt'[b].completed = attempt[b].completed
      BY <1>5, <2>2, Zenon DEF Mine, Created
    <3> QED BY <1>8, <3>1, Zenon DEF Passed
  <2> QED BY <1>6, <1>8, <1>9, <2>1, <2>3 DEF ProgressInv
<1> QED BY <1>10, <1>11, Zenon

\* Binding and closing change nothing that is counted.
LEMMA SameCounts ==
  ASSUME TypeInv, ProgressInv, progress' = progress,
         \A a \in Attempts :
           /\ (attempt'[a].status = "NONE") = (attempt[a].status = "NONE")
           /\ attempt'[a].subject = attempt[a].subject
           /\ attempt'[a].completed = attempt[a].completed
           /\ (attempt'[a].status = "PASSED") = (attempt[a].status = "PASSED")
  PROVE  ProgressInv'
<1>1. \A x \in Subjects : Mine(x)' = Mine(x) /\ Passed(x)' = Passed(x)
  BY DEF Mine, Passed, Created
<1> QED BY <1>1 DEF ProgressInv

\* Every step of the tables keeps the agreement.
LEMMA ProgressStep ==
  ASSUME TypeInv, ProgressInv, TableStep
  PROVE  ProgressInv'
<1>0. attempt \in [Attempts -> Attempt]
  BY Zenon DEF TypeInv, TypeOK
<1>1. CASE UNCHANGED <<attempt, progress>>
  BY <1>1, SameCounts, Zenon
<1>2. CASE Binds
  <2>1. PICK a \in Attempts, s \in Sessions : attempt' = [attempt EXCEPT ![a].session = s]
    BY <1>2, Zenon DEF Binds
  <2>2. ASSUME NEW b \in Attempts
        PROVE  /\ attempt'[b].status = attempt[b].status
               /\ attempt'[b].subject = attempt[b].subject
               /\ attempt'[b].completed = attempt[b].completed
    BY <1>0, <2>1, Zenon DEF Attempt
  <2>3. progress' = progress
    BY <1>2, Zenon DEF Binds
  <2> QED BY <2>2, <2>3, SameCounts, Zenon
<1>3. CASE Closes
  <2>1. ASSUME NEW b \in Attempts
        PROVE  /\ (attempt'[b].status = "NONE") = (attempt[b].status = "NONE")
               /\ attempt'[b].subject = attempt[b].subject
               /\ attempt'[b].completed = attempt[b].completed
               /\ (attempt'[b].status = "PASSED") = (attempt[b].status = "PASSED")
    <3>1. CASE attempt'[b] = attempt[b]
      BY <3>1, Zenon
    <3>2. ASSUME attempt[b].status = "IN_PROGRESS", NEW o \in Outcomes,
                 attempt'[b] = [attempt[b] EXCEPT !.status = o]
          PROVE  /\ attempt'[b].status \notin {"NONE", "PASSED"}
                 /\ attempt'[b].subject = attempt[b].subject
                 /\ attempt'[b].completed = attempt[b].completed
      BY <3>2 DEF Attempt, Outcomes
    <3> QED BY <1>3, <3>1, <3>2, Zenon DEF Closes
  <2>2. progress' = progress
    BY <1>3, Zenon DEF Closes
  <2> QED BY <2>1, <2>2, SameCounts, Zenon
<1> QED BY <1>1, <1>2, <1>3, CreateCounts, RecordCounts, Zenon DEF TableStep

\* The two tables of the learning record agree in every reachable state: racing
\* checks, repeated passes, retried attempts, lost events and crashes included.
THEOREM ProgressHolds == Spec => []ProgressAgrees
<1>1. Init => TypeInv /\ ProgressInv
  <2> SUFFICES ASSUME Init PROVE TypeInv /\ ProgressInv
    BY Zenon
  <2>1. \A x \in Subjects : Mine(x) = {} /\ Passed(x) = {}
    BY Zenon DEF Init, Mine, Passed, Created, NotCreated
  <2>2. Cardinality({}) = 0
    BY FS_EmptySet, Zenon
  <2>3. \A x \in Subjects : Agrees(progress[x], Mine(x), Passed(x))
    BY <2>1, <2>2, Zenon DEF Init, Agrees, StatusOf
  <2>4. \A a \in Attempts : (attempt[a].status = "PASSED") = attempt[a].completed
    BY Zenon DEF Init, NotCreated
  <2> QED BY <2>3, <2>4, TypeInit, Zenon DEF ProgressInv
<1>2. TypeInv /\ ProgressInv /\ [Next]_vars => (TypeInv /\ ProgressInv)'
  BY TypeStep, NextTables, ProgressStep
<1>3. ProgressInv => ProgressAgrees
  BY Zenon DEF ProgressInv, ProgressAgrees, Agrees, StatusOf, Mine, Passed
<1> QED BY <1>1, <1>2, <1>3, PTL DEF Spec

----------------------------------------------------------------------------
(* A pass is kept.                                                         *)

\* No statement of the store withdraws a pass.
LEMMA PassStep ==
  ASSUME TypeInv, TableStep
  PROVE  /\ \A a \in Attempts : attempt[a].status = "PASSED" => attempt'[a].status = "PASSED"
         /\ \A x \in Subjects : progress[x].status = "COMPLETED" => progress'[x].status = "COMPLETED"
<1>0. attempt \in [Attempts -> Attempt] /\ progress \in [Subjects -> Progress]
  BY Zenon DEF TypeInv, TypeOK
<1>1. CASE UNCHANGED <<attempt, progress>>
  BY <1>1, Zenon
<1>2. CASE Creates
  BY <1>2 DEF Creates, CreateAttempt
<1>3. CASE Records
  <2>1. PICK a \in Attempts, passed \in BOOLEAN : attempt[a].status # "NONE" /\ RecordCheck(a, passed)
    BY <1>3, Zenon DEF Records
  <2>2. attempt[a].subject \in Subjects /\ attempt[a] \in Attempt
    BY <1>0, <2>1, Zenon DEF TypeInv, AttemptOK
  <2>3. attempt'[a].status = IF passed THEN "PASSED" ELSE attempt[a].status
    BY <1>0, <2>1, Zenon DEF RecordCheck, Attempt
  <2>4. \A b \in Attempts : b # a => attempt'[b] = attempt[b]
    BY <1>0, <2>1, Zenon DEF RecordCheck
  <2>5. \A x \in Subjects : progress[x].status = "COMPLETED" => progress'[x].status = "COMPLETED"
    BY <1>0, <2>1, Zenon DEF RecordCheck
  <2> QED BY <2>3, <2>4, <2>5, Zenon
<1>4. CASE Binds
  BY <1>0, <1>4 DEF Binds
<1>5. CASE Closes
  BY <1>5, Zenon DEF Closes
<1> QED BY <1>2, <1>3, <1>4, <1>5, Zenon DEF TableStep

\* PASSED is absorbing, and so is COMPLETED: neither teardown, sweep, failed start,
\* failed check nor a new attempt at the lab withdraws what the student passed.
THEOREM PassKeptHolds == Spec => PassIsKept
<1>1. TypeInv /\ [Next]_vars =>
        [/\ \A a \in Attempts : attempt[a].status = "PASSED" => attempt'[a].status = "PASSED"
         /\ \A x \in Subjects : progress[x].status = "COMPLETED" => progress'[x].status = "COMPLETED"]_vars
  BY NextTables, PassStep, Zenon
<1> QED BY <1>1, TypeInit, TypeStep, PTL DEF Spec, PassIsKept

----------------------------------------------------------------------------
(* Closing agrees with the session.                                        *)

\* What the calls in flight remember of their session and attempt.
CallMemory ==
  \A c \in Calls :
    /\ call'[c].pc # "idle" =>
         \/ call[c].pc # "idle" /\ call'[c].s = call[c].s
         \/ session'[call'[c].s].status # "UNUSED"
    /\ call'[c].pc = "bind" =>
         \/ call'[c] = call[c]
         \/ /\ attempt[call'[c].a].status = "NONE"
            /\ \A d \in Calls : d # c => call'[d] = call[d]

\* A call that moves on keeps its session.
LEMMA GotoRemembers ==
  ASSUME TypeInv, NEW c \in Calls, ~At(c, "idle"), NEW pc, pc # "bind", Goto(c, pc)
  PROVE  CallMemory
<1>1. call \in [Calls -> Call] /\ call[c] \in Call
  BY Zenon DEF TypeInv, TypeOK
<1> DEFINE k == [call[c] EXCEPT !.pc = pc]
<1>2. k.pc = pc /\ k.s = call[c].s
  OBVIOUS
<1>3. call' = [call EXCEPT ![c] = k]
  BY Zenon DEF Goto, Becomes
<1> HIDE DEF k
<1> QED BY <1>2, <1>3 DEF CallMemory, At

\* A call that returns remembers nothing.
LEMMA ReturnRemembers ==
  ASSUME TypeInv, NEW c \in Calls, Return(c)
  PROVE  CallMemory
BY Zenon DEF TypeInv, TypeOK, Return, Becomes, Idle, CallMemory

\* Every step.
LEMMA NextRemembers ==
  ASSUME TypeInv, [Next]_vars
  PROVE  CallMemory
<1>0. call \in [Calls -> Call]
  BY Zenon DEF TypeInv, TypeOK
<1>1. CASE call' = call
  BY <1>1, Zenon DEF CallMemory
<1>2. ASSUME NEW c \in Calls, CallStep(c)
      PROVE  CallMemory
  <2>1. CASE Open(c)
    <3>1. PICK a \in Attempts : /\ attempt[a].status = "NONE"
                               /\ Becomes(c, [call[c] EXCEPT !.pc = "bind", !.a = a])
      BY <2>1, Zenon DEF Open, CreateAttempt
    <3> DEFINE k == [call[c] EXCEPT !.pc = "bind", !.a = a]
    <3>2. call[c] \in Call /\ call[c].pc = "open"
      BY <1>0, <2>1, Zenon DEF Open, At
    <3>3. k.pc = "bind" /\ k.a = a /\ k.s = call[c].s
      BY <3>2, Zenon DEF Call
    <3>4. call' = [call EXCEPT ![c] = k]
      BY <3>1, Zenon DEF Becomes
    <3> HIDE DEF k
    <3> QED BY <1>0, <3>1, <3>2, <3>3, <3>4, Zenon DEF CallMemory
  <2>2. CASE Bind(c) \/ Build(c) \/ FailAttempt(c) \/ Admit(c) \/ Record(c)
    BY <2>2, GotoRemembers, ReturnRemembers, Zenon DEF Bind, Bound, Build, Throws, FailAttempt,
       Admit, Record, At
  <2>3. ASSUME NEW k, Becomes(c, k), k.pc # "bind", k.s = call[c].s, ~At(c, "idle")
        PROVE  CallMemory
    BY <1>0, <2>3, Zenon DEF Becomes, CallMemory, At
  <2>4. CASE Verify(c)
    <3> DEFINE k == [call[c] EXCEPT !.graded = @ \cup {session[call[c].s].stamp}]
    <3>1. call[c] \in Call /\ call[c].pc = "verify"
      BY <1>0, <2>4, Zenon DEF Verify, At
    <3>2. k.pc = "verify" /\ k.s = call[c].s
      BY <3>1, Zenon DEF Call
    <3>3. Becomes(c, k) /\ ~At(c, "idle")
      BY <2>4, Zenon DEF Verify, At
    <3> HIDE DEF k
    <3> QED BY <2>3, <3>2, <3>3, Zenon
  <2>5. CASE ReadBack(c)
    <3>1. ASSUME NEW passed \in BOOLEAN,
                 Becomes(c, [call[c] EXCEPT !.pc = "record", !.passed = passed])
          PROVE  CallMemory
      <4> DEFINE k == [call[c] EXCEPT !.pc = "record", !.passed = passed]
      <4>1. call[c] \in Call
        BY <1>0, Zenon
      <4>2. k.pc = "record" /\ k.s = call[c].s
        OBVIOUS
      <4>3. Becomes(c, k) /\ ~At(c, "idle")
        BY <2>5, <3>1, Zenon DEF ReadBack, At
      <4> HIDE DEF k
      <4> QED BY <2>3, <4>2, <4>3
    <3> QED BY <2>5, <3>1, ReturnRemembers, Zenon DEF ReadBack
  <2> QED BY <1>2, <2>1, <2>2, <2>4, <2>5, Zenon DEF CallStep
<1>3. ASSUME NEW c \in Calls, WriteFails(c)
      PROVE  CallMemory
  BY <1>3, GotoRemembers, ReturnRemembers, Zenon DEF WriteFails, Throws, At
<1>4. ASSUME NEW c \in Calls, NEW k, NEW s \in Sessions, Becomes(c, k), k.pc # "bind", k.s = s,
             session'[s].status # "UNUSED"
      PROVE  CallMemory
  BY <1>0, <1>4, Zenon DEF Becomes, CallMemory
<1>5. ASSUME NEW c \in Calls, NEW s \in Sessions, Start(c, s)
      PROVE  CallMemory
  <2> DEFINE k == [Idle EXCEPT !.pc = "open", !.s = s]
  <2>1. k.pc = "open" /\ k.s = s /\ Becomes(c, k)
    BY <1>5, Zenon DEF Idle, Start
  <2>2. session'[s].status = "CREATING"
    BY <1>5, Zenon DEF Start, Moves, TypeInv, TypeOK
  <2> HIDE DEF k
  <2> QED BY <1>4, <2>1, <2>2, Zenon
<1>6. ASSUME NEW c \in Calls, NEW s \in Sessions, Check(c, s)
      PROVE  CallMemory
  <2> DEFINE k == [Idle EXCEPT !.pc = "admit", !.op = "check", !.s = s, !.stamp = session[s].stamp]
  <2>1. k.pc = "admit" /\ k.s = s
    BY Zenon DEF Idle
  <2>2. Becomes(c, k) /\ session'[s].status = "ACTIVE"
    BY <1>6, Zenon DEF Check
  <2> HIDE DEF k
  <2> QED BY <1>4, <2>1, <2>2, Zenon
<1>7. ASSUME NEW i \in Instances, Crash(i)
      PROVE  CallMemory
  BY <1>7, Zenon DEF Crash, Idle, CallMemory
<1> QED BY <1>1, <1>2, <1>3, <1>5, <1>6, <1>7, Zenon DEF Next, vars, SessionMoves, OnSessionClosed,
           LoseEvent, Ages, SweepList, SweepExpire

\* An attempt's session is set once, by the call that opened the attempt.
Bindings ==
  \A a \in Attempts :
    \/ attempt'[a].session = attempt[a].session
    \/ \E c \in Calls : /\ At(c, "bind") /\ call[c].a = a /\ call'[c].pc # "bind"
                       /\ attempt'[a].session = call[c].s

\* No other statement of the store touches it.
LEMMA TableBindings ==
  ASSUME TypeInv, TableStep
  PROVE  Bindings
<1>0. attempt \in [Attempts -> Attempt]
  BY Zenon DEF TypeInv, TypeOK
<1>1. CASE UNCHANGED <<attempt, progress>>
  BY <1>1, Zenon DEF Bindings
<1>2. CASE Creates
  <2>1. PICK a \in Attempts, x \in Subjects : CreateAttempt(a, x)
    BY <1>2, Zenon DEF Creates
  <2>2. attempt[a].session = NoSession
    BY <2>1 DEF CreateAttempt, TypeInv, AttemptOK, NotCreated
  <2> QED BY <1>0, <2>1, <2>2, Zenon DEF CreateAttempt, NewAttempt, Bindings
<1>3. CASE Records
  BY <1>0, <1>3 DEF Records, RecordCheck, Bindings
<1>4. CASE Binds
  BY <1>4 DEF Binds, Bindings
<1>5. CASE Closes
  BY <1>5 DEF Closes, Attempt, Bindings
<1> QED BY <1>1, <1>2, <1>3, <1>4, <1>5, Zenon DEF TableStep

\* A session some call or attempt names was admitted.
UsedInv ==
  /\ \A c \in Calls : call[c].pc # "idle" => session[call[c].s].status # "UNUSED"
  /\ \A a \in Attempts : attempt[a].session # NoSession => session[attempt[a].session].status # "UNUSED"

\* An attempt about to be bound is not bound yet, and only one call will bind it.
BindInv ==
  \A c \in Calls : At(c, "bind") =>
    /\ attempt[call[c].a].session = NoSession
    /\ \A d \in Calls : d # c /\ At(d, "bind") => call[d].a # call[c].a

Settled(a) ==
  /\ attempt[a].status # "NONE"
  /\ \A c \in Calls : ~(At(c, "bind") /\ call[c].a = a)

\* A sweep knows of every sandbox behind the attempts it may close.
Spared(w, a) ==
  attempt[a].session # NoSession /\ session[attempt[a].session].status \in OccupyingStatuses
    => attempt[a].session \in sweep[w].live

SweepInv ==
  /\ \A a \in old : Settled(a)
  /\ \A w \in Sweepers : \A a \in sweep[w].stale : Settled(a) /\ Spared(w, a)

EventInv ==
  \A s \in Sessions : event[s] # "none" => session[s].status \in {event[s], "FORGOTTEN"}

\* Once admitted, always admitted.
LEMMA UsedStep ==
  ASSUME TypeInv, TypeInv', UsedInv, [Next]_vars
  PROVE  UsedInv'
<1>1. SessionMemory /\ CallMemory /\ Bindings
  BY NextSessions, SessionsRemember, NextRemembers, NextTables, TableBindings, Zenon
<1>2. ASSUME NEW c \in Calls, call'[c].pc # "idle"
      PROVE  session'[call'[c].s].status # "UNUSED"
  <2>1. CASE call[c].pc # "idle" /\ call'[c].s = call[c].s
    <3>1. call[c].s \in Sessions
      BY <2>1, Zenon DEF TypeInv, CallOK
    <3> QED BY <1>1, <2>1, <3>1, Zenon DEF UsedInv, SessionMemory
  <2> QED BY <1>1, <1>2, <2>1, Zenon DEF CallMemory
<1>3. ASSUME NEW a \in Attempts, attempt'[a].session # NoSession
      PROVE  session'[attempt'[a].session].status # "UNUSED"
  <2>1. attempt'[a].session \in Sessions
    BY <1>3, Zenon DEF TypeInv, TypeOK, Attempt
  <2>2. session[attempt'[a].session].status # "UNUSED"
    BY <1>1, <1>3 DEF Bindings, UsedInv, At
  <2> QED BY <1>1, <2>1, <2>2, Zenon DEF SessionMemory
<1> QED BY <1>2, <1>3, Zenon DEF UsedInv

\* Binding is exclusive.
LEMMA BindStep ==
  ASSUME TypeInv, TypeInv', BindInv, [Next]_vars
  PROVE  BindInv'
<1>1. CallMemory /\ Bindings /\ CreatedStays
  BY NextRemembers, NextTables, TableBindings, TableTypes
<1>2. ASSUME NEW c \in Calls, call'[c].pc = "bind"
      PROVE  /\ attempt'[call'[c].a].session = NoSession
             /\ \A d \in Calls : d # c /\ call'[d].pc = "bind" => call'[d].a # call'[c].a
  <2>0. call'[c].a \in Attempts
    BY <1>2, Zenon DEF TypeInv, CallOK
  <2>1. CASE call'[c] = call[c]
    <3>1. \A d \in Calls : d # c /\ At(d, "bind") => call[d].a # call[c].a
      BY <1>2, <2>1, Zenon DEF BindInv, At
    <3>2. attempt'[call[c].a].session = NoSession
      <4>1. attempt[call[c].a].session = NoSession
        BY <1>2, <2>1, Zenon DEF BindInv, At
      <4>2. ASSUME NEW d \in Calls, At(d, "bind"), call[d].a = call[c].a, call'[d].pc # "bind"
            PROVE  FALSE
        <5>1. d # c
          BY <1>2, <4>2, Zenon
        <5> QED BY <3>1, <4>2, <5>1, Zenon
      <4>3. call[c].a \in Attempts
        BY <2>0, <2>1, Zenon
      <4> QED BY <1>1, <4>1, <4>2, <4>3, Zenon DEF Bindings
    <3>3. ASSUME NEW d \in Calls, d # c, call'[d].pc = "bind"
          PROVE  call'[d].a # call'[c].a
      <4>1. CASE call'[d] = call[d]
        BY <2>1, <3>1, <3>3, <4>1, Zenon DEF At
      <4>2. CASE attempt[call'[d].a].status = "NONE"
        <5>1. attempt[call[c].a].status # "NONE"
          BY <1>2, <2>1, Zenon DEF TypeInv, CallOK
        <5> QED BY <2>1, <4>2, <5>1, Zenon
      <4> QED BY <1>1, <3>3, <4>1, <4>2, Zenon DEF CallMemory
    <3> QED BY <2>1, <3>2, <3>3, Zenon
  <2>2. CASE /\ attempt[call'[c].a].status = "NONE"
             /\ \A d \in Calls : d # c => call'[d] = call[d]
    <3>1. ASSUME NEW d \in Calls, At(d, "bind")
          PROVE  call[d].a # call'[c].a
      BY <2>2, <3>1, Zenon DEF TypeInv, CallOK, At
    <3>2. attempt[call'[c].a].session = NoSession
      BY <2>0, <2>2 DEF TypeInv, AttemptOK, NotCreated
    <3>3. attempt'[call'[c].a].session = NoSession
      BY <1>1, <2>0, <3>1, <3>2, Zenon DEF Bindings
    <3> QED BY <2>2, <3>1, <3>3, Zenon DEF At
  <2> QED BY <1>1, <1>2, <2>1, <2>2, Zenon DEF CallMemory
<1> QED BY <1>2, Zenon DEF BindInv, At

\* A close event tells how its session ended.
LEMMA EventStep ==
  ASSUME TypeInv, EventInv, [Next]_vars
  PROVE  EventInv'
<1>0. SessionMemory
  BY NextSessions, SessionsRemember, Zenon
<1>1. ASSUME NEW s \in Sessions, SessionMoves(s)
      PROVE  EventInv'
  <2>1. PICK to \in Statuses \cup {"FORGOTTEN"} :
          /\ <<session[s].status, to>> \in Lifecycle!Edges
          /\ Moves(s, to)
          /\ event' = [event EXCEPT ![s] = IF to \in {"ENDED", "EXPIRED"} THEN to ELSE @]
    BY <1>1, Zenon DEF SessionMoves
  <2>2. session'[s].status = to /\ \A u \in Sessions : u # s => session'[u] = session[u]
    BY <2>1, Zenon DEF Moves, TypeInv, TypeOK
  <2>3. event \in [Sessions -> {"none", "ENDED", "EXPIRED"}]
    BY Zenon DEF TypeInv, TypeOK
  <2>4. event'[s] # "none" => session'[s].status \in {event'[s], "FORGOTTEN"}
    <3>1. CASE to \in {"ENDED", "EXPIRED"}
      BY <2>1, <2>2, <2>3, <3>1, Zenon
    <3>2. CASE to \notin {"ENDED", "EXPIRED"} /\ event[s] # "none"
      <4>1. session[s].status \in {"ENDED", "EXPIRED", "FORGOTTEN"}
        BY <2>3, <3>2, Zenon DEF EventInv
      <4>2. to = "FORGOTTEN"
        BY <2>1, <4>1, Zenon DEF Lifecycle!Edges, Lifecycle!LiveStatuses
      <4> QED BY <2>2, <4>2, Zenon
    <3>3. CASE to \notin {"ENDED", "EXPIRED"} /\ event[s] = "none"
      BY <2>1, <3>3
    <3> QED BY <3>1, <3>2, <3>3
  <2>5. \A u \in Sessions : u # s => event'[u] = event[u]
    BY <2>1, <2>3, Zenon
  <2> QED BY <2>2, <2>4, <2>5, Zenon DEF EventInv
<1>2. ASSUME NEW s \in Sessions, OnSessionClosed(s) \/ LoseEvent(s)
      PROVE  EventInv'
  <2>1. event' = [event EXCEPT ![s] = "none"] /\ session' = session
    BY <1>2, Zenon DEF OnSessionClosed, LoseEvent
  <2> QED BY <2>1, Zenon DEF EventInv, TypeInv, TypeOK
<1>3. ASSUME event' = event, NEW s \in Sessions, session[s].status \in {"UNUSED", "CREATING"},
             NEW to, Moves(s, to)
      PROVE  EventInv'
  <2>1. \A u \in Sessions : u # s => session'[u] = session[u]
    BY <1>3, Zenon DEF Moves, TypeInv, TypeOK
  <2>2. event[s] = "none"
    BY <1>3, Zenon DEF EventInv, TypeInv, TypeOK
  <2> QED BY <1>3, <2>1, <2>2 DEF EventInv
<1>4. ASSUME NEW c \in Calls, Build(c)
      PROVE  EventInv'
  <2>1. call[c].s \in Sessions
    BY <1>4, Zenon DEF Build, At, TypeInv, CallOK
  <2>2. CASE session' = session
    BY <1>4, <2>2, Zenon DEF Build, EventInv
  <2> QED BY <1>3, <1>4, <2>1, <2>2, Zenon DEF Build
<1>5. ASSUME NEW c \in Calls, NEW s \in Sessions, Start(c, s)
      PROVE  EventInv'
  BY <1>3, <1>5, Zenon DEF Start
<1>6. CASE UNCHANGED <<session, event>>
  BY <1>6, Zenon DEF EventInv
<1> QED BY <1>1, <1>2, <1>4, <1>5, <1>6, Zenon DEF Next, vars, CallStep, Open, Bind, FailAttempt,
           Admit, Verify, ReadBack, Record, WriteFails, Check, Ages, SweepList, SweepExpire, Crash

\* A settled attempt stays settled, with the session it has.
LEMMA SettledStays ==
  ASSUME TypeInv, [Next]_vars, NEW a \in Attempts, Settled(a)
  PROVE  Settled(a)' /\ attempt'[a].session = attempt[a].session
<1>1. CallMemory /\ Bindings /\ CreatedStays
  BY NextRemembers, NextTables, TableBindings, TableTypes, Zenon
<1>2. ASSUME NEW c \in Calls, call'[c].pc = "bind", call'[c].a = a
      PROVE  FALSE
  <2>1. CASE call'[c] = call[c]
    BY <1>2, <2>1, Zenon DEF Settled, At
  <2>2. CASE attempt[call'[c].a].status = "NONE"
    BY <1>2, <2>2, Zenon DEF Settled
  <2> QED BY <1>1, <1>2, <2>1, <2>2, Zenon DEF CallMemory
<1> QED BY <1>1, <1>2 DEF Settled, CreatedStays, Bindings, At

\* A list of live sessions that spared an attempt goes on sparing it.
LEMMA SparedStays ==
  ASSUME TypeInv, UsedInv, [Next]_vars, NEW w \in Sweepers, NEW a \in Attempts,
         Settled(a), Spared(w, a), sweep'[w] = sweep[w]
  PROVE  Spared(w, a)'
<1>1. SessionMemory /\ attempt'[a].session = attempt[a].session
  BY NextSessions, SessionsRemember, SettledStays, Zenon
<1>2. ASSUME attempt[a].session # NoSession,
             session'[attempt[a].session].status \in OccupyingStatuses
      PROVE  session[attempt[a].session].status \in OccupyingStatuses
  <2>1. attempt[a].session \in Sessions
    BY <1>2, Zenon DEF TypeInv, TypeOK, Attempt
  <2>2. session[attempt[a].session].status # "UNUSED"
    BY <1>2, Zenon DEF UsedInv
  <2> QED BY <1>1, <1>2, <2>1, <2>2, Zenon DEF SessionMemory
<1> QED BY <1>1, <1>2, Zenon DEF Spared

\* Every step keeps what the sweeps know.
LEMMA SweepStep ==
  ASSUME TypeInv, TypeInv', UsedInv, SweepInv, [Next]_vars
  PROVE  SweepInv'
<1>0. /\ old \subseteq Attempts
      /\ sweep \in [Sweepers -> [on : BOOLEAN, live : SUBSET Sessions, stale : SUBSET Attempts]]
  BY DEF TypeInv, TypeOK
<1>1. old' = old \/ \E a \in Attempts : Ages(a)
  BY Zenon DEF Next, vars, CallStep, Open, Bind, Build, FailAttempt, Admit, Verify, ReadBack,
     Record, WriteFails, Start, Check, SessionMoves, OnSessionClosed, LoseEvent, SweepList,
     SweepExpire, Crash
<1>2. sweep' = sweep \/ \E w \in Sweepers : SweepList(w) \/ SweepExpire(w)
  BY Zenon DEF Next, vars, CallStep, Open, Bind, Build, FailAttempt, Admit, Verify, ReadBack,
     Record, WriteFails, Start, Check, SessionMoves, OnSessionClosed, LoseEvent, Ages, Crash
<1>3. \A a \in old' : Settled(a)'
  <2>1. ASSUME NEW a \in Attempts, Ages(a)
        PROVE  Settled(a) /\ old' = old \cup {a}
    BY <2>1, Zenon DEF Ages, Settled, Created
  <2> QED BY <1>0, <1>1, <2>1, SettledStays, Zenon DEF SweepInv
<1>4. ASSUME NEW w \in Sweepers, sweep'[w] = sweep[w], NEW a \in sweep[w].stale
      PROVE  Settled(a)' /\ Spared(w, a)'
  <2>1. a \in Attempts /\ Settled(a) /\ Spared(w, a)
    BY <1>0, Zenon DEF SweepInv
  <2> QED BY <1>4, <2>1, SettledStays, SparedStays
<1>5. ASSUME NEW w \in Sweepers, SweepList(w)
      PROVE  SweepInv'
  <2>1. /\ sweep'[w].live = {s \in Sessions : session[s].status \in OccupyingStatuses}
        /\ sweep'[w].stale = old /\ UNCHANGED <<session, attempt>>
        /\ \A v \in Sweepers : v # w => sweep'[v] = sweep[v]
    BY <1>0, <1>5, Zenon DEF SweepList
  <2>2. ASSUME NEW a \in old
        PROVE  Settled(a)' /\ Spared(w, a)'
    <3>1. a \in Attempts /\ Settled(a)
      BY <1>0, Zenon DEF SweepInv
    <3>2. attempt[a].session \in Sessions \cup {NoSession}
      BY Zenon DEF TypeInv, TypeOK, Attempt
    <3> QED BY <2>1, <3>1, <3>2, SettledStays, Zenon DEF Spared
  <2> QED BY <1>3, <1>4, <2>1, <2>2, Zenon DEF SweepInv
<1>6. ASSUME NEW w \in Sweepers, SweepExpire(w)
      PROVE  SweepInv'
  <2>1. sweep'[w].stale = {} /\ \A v \in Sweepers : v # w => sweep'[v] = sweep[v]
    BY <1>0, <1>6, Zenon DEF SweepExpire, NoSweep
  <2> QED BY <1>3, <1>4, <2>1, Zenon DEF SweepInv
<1>7. CASE sweep' = sweep
  BY <1>3, <1>4, <1>7, Zenon DEF SweepInv
<1> QED BY <1>2, <1>5, <1>6, <1>7, Zenon

\* An attempt is ended or expired only by the close event of its session or by a
\* sweep that found it stale.
LEMMA WhoCloses ==
  ASSUME TypeInv, [Next]_vars, NEW a \in Attempts,
         attempt'[a].status \in {"ENDED", "EXPIRED"}, attempt'[a].status # attempt[a].status
  PROVE  \/ \E s \in Sessions : event[s] = attempt'[a].status /\ attempt[a].session = s
         \/ /\ attempt'[a].status = "EXPIRED"
            /\ \E w \in Sweepers : a \in Stale(sweep[w].live, sweep[w].stale)
<1>0. attempt \in [Attempts -> Attempt]
  BY Zenon DEF TypeInv, TypeOK
<1>1. ASSUME NEW c \in Calls, Open(c) \/ Bind(c) \/ FailAttempt(c)
      PROVE  FALSE
  <2>1. CASE Open(c)
    <3>1. PICK b \in Attempts : attempt' = [attempt EXCEPT ![b] = NewAttempt(Subject[call[c].s])]
      BY <2>1, Zenon DEF Open, CreateAttempt
    <3> QED BY <1>0, <3>1, Zenon DEF NewAttempt
  <2>2. CASE Bind(c)
    <3>1. attempt' = attempt \/ attempt' = [attempt EXCEPT ![call[c].a].session = call[c].s]
      BY <2>2, Zenon DEF Bind
    <3>2. attempt'[a].status = attempt[a].status
      BY <1>0, <3>1 DEF Attempt
    <3> QED BY <3>2, Zenon
  <2>3. CASE FailAttempt(c)
    <3>1. attempt' = [attempt EXCEPT ![call[c].a].status = IF @ = "IN_PROGRESS" THEN "FAILED" ELSE @]
      BY <2>3, Zenon DEF FailAttempt, FinishAttempt
    <3>2. attempt'[a].status \in {attempt[a].status, "FAILED"}
      BY <3>1
    <3> QED BY <3>2, Zenon
  <2> QED BY <1>1, <2>1, <2>2, <2>3, Zenon
<1>2. ASSUME NEW c \in Calls, Record(c)
      PROVE  FALSE
  <2>1. PICK b \in Attempts : RecordCheck(b, call[c].passed)
    BY <1>2, Zenon DEF Record, BoundTo
  <2>2. attempt' = [attempt EXCEPT ![b].status = IF call[c].passed THEN "PASSED" ELSE @,
                                   ![b].completed = @ \/ call[c].passed]
    BY <2>1, Zenon DEF RecordCheck
  <2>3. attempt'[a].status \in {attempt[a].status, "PASSED"}
    BY <1>0, <2>2
  <2> QED BY <2>3, Zenon
<1>3. ASSUME NEW s \in Sessions, OnSessionClosed(s)
      PROVE  event[s] = attempt'[a].status /\ attempt[a].session = s
  <2>1. PICK b \in BoundTo(s) : FinishAttempt(b, event[s])
    BY <1>3, Zenon DEF OnSessionClosed
  <2>2. a = b
    BY <1>0, <2>1, Zenon DEF FinishAttempt
  <2> QED BY <2>1 DEF FinishAttempt, BoundTo
<1>4. ASSUME NEW w \in Sweepers, SweepExpire(w)
      PROVE  attempt'[a].status = "EXPIRED" /\ a \in Stale(sweep[w].live, sweep[w].stale)
  <2>1. attempt'[a] # attempt[a]
    BY Zenon
  <2>2. a \in Stale(sweep[w].live, sweep[w].stale)
    BY <1>4, Zenon DEF SweepExpire
  <2>3. attempt'[a] = [attempt[a] EXCEPT !.status = "EXPIRED"]
    BY <1>4, Zenon DEF SweepExpire
  <2> QED BY <1>0, <2>2, <2>3, Zenon DEF Attempt
<1> QED BY <1>1, <1>2, <1>3, <1>4, Zenon DEF Next, vars, CallStep, Build, Admit, Verify, ReadBack,
           WriteFails, Start, Check, SessionMoves, LoseEvent, Ages, SweepList, Crash

MemoryInv == TypeInv /\ UsedInv /\ BindInv /\ EventInv /\ SweepInv

\* The initial state satisfies it.
LEMMA MemoryInit == Init => MemoryInv
<1> SUFFICES ASSUME Init PROVE MemoryInv
  BY Zenon
<1>1. \A c \in Calls : call[c].pc = "idle"
  BY Zenon DEF Init, Idle
<1>2. \A a \in Attempts : attempt[a].session = NoSession
  BY Zenon DEF Init, NotCreated
<1>3. old = {} /\ (\A s \in Sessions : event[s] = "none") /\ \A w \in Sweepers : sweep[w].stale = {}
  BY Zenon DEF Init, NoSweep
<1> QED BY <1>1, <1>2, <1>3, TypeInit, Zenon DEF MemoryInv, UsedInv, BindInv, EventInv, SweepInv, At

\* Every step keeps it.
LEMMA MemoryStep ==
  ASSUME MemoryInv, [Next]_vars
  PROVE  MemoryInv'
BY TypeStep, UsedStep, BindStep, EventStep, SweepStep, Zenon DEF MemoryInv

\* An attempt that reads ENDED goes on belonging to a session that was ended.
LEMMA EndedStep ==
  ASSUME MemoryInv, EndedMeansEnded, [Next]_vars
  PROVE  EndedMeansEnded'
<1>1. SessionMemory /\ Bindings
  BY NextSessions, SessionsRemember, NextTables, TableBindings, Zenon DEF MemoryInv
<1> SUFFICES ASSUME NEW a \in Attempts, attempt'[a].status = "ENDED"
             PROVE  /\ attempt'[a].session \in Sessions
                    /\ session'[attempt'[a].session].status \in {"ENDED", "FORGOTTEN"}
  BY Zenon DEF EndedMeansEnded
<1>2. /\ attempt[a].session \in Sessions
      /\ session[attempt[a].session].status \in {"ENDED", "FORGOTTEN"}
  <2>1. CASE attempt[a].status = "ENDED"
    BY <2>1, Zenon DEF EndedMeansEnded
  <2>2. CASE attempt[a].status # "ENDED"
    <3>1. PICK s \in Sessions : event[s] = "ENDED" /\ attempt[a].session = s
      BY <2>2, WhoCloses, Zenon DEF MemoryInv
    <3> QED BY <3>1, Zenon DEF MemoryInv, EventInv
  <2> QED BY <2>1, <2>2, Zenon
<1>3. attempt'[a].session = attempt[a].session
  <2>1. ASSUME NEW c \in Calls, At(c, "bind"), call[c].a = a
        PROVE  FALSE
    <3>1. attempt[a].session = NoSession
      BY <2>1, Zenon DEF MemoryInv, BindInv
    <3> QED BY <1>2, <3>1, Zenon
  <2> QED BY <1>1, <2>1, Zenon DEF Bindings
<1> QED BY <1>1, <1>2, <1>3, Zenon DEF SessionMemory

\* An attempt is recorded as ended by the student only if its session was.
THEOREM EndedHolds == Spec => []EndedMeansEnded
<1>1. Init => MemoryInv /\ EndedMeansEnded
  BY MemoryInit DEF Init, NotCreated, EndedMeansEnded
<1>2. MemoryInv /\ EndedMeansEnded /\ [Next]_vars => (MemoryInv /\ EndedMeansEnded)'
  BY MemoryStep, EndedStep, Zenon
<1> QED BY <1>1, <1>2, PTL DEF Spec

\* However long a sweep takes between reading the live sessions and its write, it
\* never expires the attempt of a session that holds a sandbox.
THEOREM LiveKeptHolds == Spec => LiveAttemptKept
<1>1. ASSUME MemoryInv, [Next]_vars, NEW a \in Attempts, attempt[a].session # NoSession,
             session[attempt[a].session].status \in OccupyingStatuses,
             attempt'[a].status = "EXPIRED", attempt[a].status # "EXPIRED"
      PROVE  FALSE
  <2>1. CASE \E s \in Sessions : event[s] = "EXPIRED" /\ attempt[a].session = s
    <3>1. PICK s \in Sessions : event[s] = "EXPIRED" /\ attempt[a].session = s
      BY <2>1, Zenon
    <3>2. session[s].status \in {"EXPIRED", "FORGOTTEN"}
      BY <1>1, <3>1, Zenon DEF MemoryInv, EventInv
    <3> QED BY <1>1, <3>1, <3>2, Zenon DEF OccupyingStatuses
  <2>2. CASE \E w \in Sweepers : a \in Stale(sweep[w].live, sweep[w].stale)
    BY <1>1, <2>2, Zenon DEF MemoryInv, SweepInv, Spared, Stale
  <2> QED BY <1>1, <2>1, <2>2, WhoCloses, Zenon DEF MemoryInv
<1>2. MemoryInv /\ [Next]_vars =>
        [\A a \in Attempts :
           /\ attempt[a].session # NoSession
           /\ session[attempt[a].session].status \in OccupyingStatuses
           => attempt'[a].status # "EXPIRED" \/ attempt[a].status = "EXPIRED"]_vars
  BY <1>1, Zenon
<1>3. MemoryInv /\ [Next]_vars => MemoryInv'
  BY MemoryStep, Zenon
<1> QED BY <1>2, <1>3, MemoryInit, PTL DEF Spec, LiveAttemptKept
----------------------------------------------------------------------------
(* A pass is recorded.                                                     *)

\* A start that has not built its sandbox yet, and a check past its admission.
Builds(c) == call[c].op = "start" /\ call[c].pc \in {"open", "bind", "build"}

Checks(c) == call[c].op = "check" /\ call[c].pc \in {"verify", "record", "open", "bind"}

\* The statuses of a session that its start has not made ACTIVE.
Unbuilt == {"CREATING", "FORGOTTEN"} \cup TeardownOwned

\* What is known of a call: a start that builds has no ACTIVE session, a check
\* has a verdict once it read back, and opens an attempt only if there is none.
CallOrder(c) ==
  /\ call[c].op = "start" => call[c].pc \in {"idle", "fail"} \/ Builds(c)
  /\ Builds(c) => session[call[c].s].status \in Unbuilt
  /\ call[c].op = "check" =>
       /\ call[c].pc = "admit" \/ Checks(c)
       /\ call[c].pc \in {"admit", "verify"} => ~call[c].passed
       /\ call[c].pc \in {"open", "bind"} => BoundTo(call[c].s) = {}

\* No two calls of a session would both bind an attempt to it: a session has one
\* start, no check before it is built, and one check at a time.
OneBinds ==
  \A c, d \in Calls :
    c # d /\ call[c].s = call[d].s =>
      /\ Builds(c) => ~Builds(d) /\ call[d].op # "check"
      /\ Checks(c) => ~Checks(d)

RecordInv == OneBinds /\ \A c \in Calls : CallOrder(c)

\* A call begins.
Enters(c) ==
  /\ call'[c].s \in Sessions
  /\ \/ /\ call'[c].op = "start" /\ call'[c].pc = "open" /\ session[call'[c].s].status = "UNUSED"
        /\ session'[call'[c].s].status = "CREATING"
     \/ /\ call'[c].op = "check" /\ call'[c].pc = "admit" /\ ~call'[c].passed
        /\ session[call'[c].s].status = "ACTIVE"

\* A check goes on.
ChecksOn(c) ==
  \/ /\ call[c].pc \in {"admit", "verify"} /\ call'[c].pc = "verify"
     /\ call'[c].passed = call[c].passed
     /\ call[c].pc = "admit" => call[c].s \notin ChecksInFlight(Host[c])
  \/ call[c].pc \in {"verify", "bind"} /\ call'[c].pc = "record"
  \/ call[c].pc = "record" /\ call'[c].pc = "open" /\ BoundTo(call[c].s) = {}
  \/ call[c].pc = "open" /\ call'[c].pc = "bind"

\* A call goes on.
Advances(c) ==
  /\ call'[c].op = call[c].op /\ call'[c].s = call[c].s
  /\ call[c].op = "start" => Builds(c) /\ call'[c].pc \in {"bind", "build", "fail"}
  /\ call[c].op = "check" => ChecksOn(c)

CallPath ==
  \/ \A d \in Calls : call'[d] = call[d] \/ call'[d] = Idle
  \/ \E c \in Calls : /\ \A d \in Calls : d # c => call'[d] = call[d]
                      /\ Enters(c) \/ Advances(c)

\* A step of one call leaves the others as they are.
LEMMA BecomesPath ==
  ASSUME TypeInv, NEW c \in Calls, NEW k, Becomes(c, k)
  PROVE  call'[c] = k /\ \A d \in Calls : d # c => call'[d] = call[d]
BY Zenon DEF TypeInv, TypeOK, Becomes

\* A call that goes on keeps its session, its kind and its verdict.
LEMMA GotoPath ==
  ASSUME TypeInv, NEW c \in Calls, NEW pc, Goto(c, pc)
  PROVE  /\ call'[c].pc = pc /\ call'[c].op = call[c].op /\ call'[c].s = call[c].s
         /\ call'[c].passed = call[c].passed
         /\ \A d \in Calls : d # c => call'[d] = call[d]
<1>1. call[c] \in Call
  BY Zenon DEF TypeInv, TypeOK
<1>2. /\ call'[c] = [call[c] EXCEPT !.pc = pc]
      /\ \A d \in Calls : d # c => call'[d] = call[d]
  BY BecomesPath, Zenon DEF Goto
<1> QED BY <1>2

\* A call that returns is idle, and the others go on.
LEMMA ReturnPath ==
  ASSUME TypeInv, NEW c \in Calls, Return(c)
  PROVE  CallPath /\ call'[c] = Idle
BY BecomesPath, Zenon DEF Return, CallPath

\* A start that throws.
LEMMA ThrowsPath ==
  ASSUME TypeInv, NEW c \in Calls, Throws(c), Builds(c)
  PROVE  CallPath
<1>1. CASE Goto(c, "fail")
  BY <1>1, GotoPath, Zenon DEF CallPath, Advances, Builds
<1> QED BY <1>1, ReturnPath, Zenon DEF Throws

\* Every step of a call follows its path.
LEMMA StepPath ==
  ASSUME TypeInv, RecordInv, NEW c \in Calls, CallStep(c)
  PROVE  CallPath
<1>0. /\ CallOrder(c) /\ call[c] \in Call /\ call[c].op \in {"start", "check"}
      /\ ~At(c, "idle") => call[c].s \in Sessions
  BY Zenon DEF RecordInv, TypeInv, TypeOK, CallOK, Call, At
<1>1. CASE Open(c)
  <2>1. PICK a \in Attempts : Becomes(c, [call[c] EXCEPT !.pc = "bind", !.a = a])
    BY <1>1, Zenon DEF Open
  <2>2. /\ call'[c] = [call[c] EXCEPT !.pc = "bind", !.a = a]
        /\ \A d \in Calls : d # c => call'[d] = call[d]
    BY <2>1, BecomesPath, Zenon
  <2>3. call'[c].pc = "bind" /\ call'[c].op = call[c].op /\ call'[c].s = call[c].s
    BY <2>2
  <2>4. Advances(c)
    BY <1>1, <2>3, Zenon DEF Open, At, Advances, Builds, ChecksOn
  <2> QED BY <2>2, <2>4, Zenon DEF CallPath
<1>2. CASE Bind(c)
  <2>1. ASSUME Goto(c, IF call[c].op = "start" THEN "build" ELSE "record") PROVE CallPath
    <3>1. Advances(c)
      BY <1>2, <2>1, GotoPath, Zenon DEF Bind, At, Advances, Builds, ChecksOn
    <3> QED BY <2>1, <3>1, GotoPath, Zenon DEF CallPath
  <2> QED BY <1>2, <2>1, ReturnPath, Zenon DEF Bind, Bound
<1>3. CASE Build(c)
  <2>1. Builds(c)
    BY <1>0, <1>3, Zenon DEF Build, At, CallOrder, Checks
  <2> QED BY <1>3, <2>1, ReturnPath, ThrowsPath, Zenon DEF Build
<1>4. CASE FailAttempt(c)
  BY <1>4, ReturnPath, Zenon DEF FailAttempt
<1>5. CASE Admit(c)
  <2>1. CASE call[c].s \notin ChecksInFlight(Host[c]) /\ Goto(c, "verify")
    <3>1. Advances(c)
      BY <1>0, <1>5, <2>1, GotoPath, Zenon DEF Admit, At, Advances, CallOrder, ChecksOn, Builds
    <3> QED BY <2>1, <3>1, GotoPath, Zenon DEF CallPath
  <2> QED BY <1>5, <2>1, ReturnPath, Zenon DEF Admit
<1>6. CASE Verify(c)
  <2>1. /\ call'[c] = [call[c] EXCEPT !.graded = @ \cup {session[call[c].s].stamp}]
        /\ \A d \in Calls : d # c => call'[d] = call[d]
    BY <1>6, BecomesPath, Zenon DEF Verify
  <2>2. /\ call'[c].pc = call[c].pc /\ call'[c].op = call[c].op /\ call'[c].s = call[c].s
        /\ call'[c].passed = call[c].passed
    BY <1>0, <2>1, Zenon DEF Call
  <2>3. Advances(c)
    BY <1>0, <1>6, <2>2, Zenon DEF Verify, At, Advances, CallOrder, ChecksOn, Builds
  <2> QED BY <2>1, <2>3 DEF CallPath
<1>7. CASE ReadBack(c)
  <2>1. ASSUME NEW passed \in BOOLEAN,
               Becomes(c, [call[c] EXCEPT !.pc = "record", !.passed = passed])
        PROVE  CallPath
    <3>1. /\ call'[c] = [call[c] EXCEPT !.pc = "record", !.passed = passed]
          /\ \A d \in Calls : d # c => call'[d] = call[d]
      BY <2>1, BecomesPath, Zenon
    <3>2. call'[c].pc = "record" /\ call'[c].op = call[c].op /\ call'[c].s = call[c].s
      BY <3>1
    <3>3. Advances(c)
      BY <1>0, <1>7, <3>2, Zenon DEF ReadBack, At, Advances, CallOrder, ChecksOn, Builds
    <3> QED BY <3>1, <3>3, Zenon DEF CallPath
  <2> QED BY <1>7, <2>1, ReturnPath, Zenon DEF ReadBack
<1>8. CASE Record(c)
  <2>1. CASE BoundTo(call[c].s) = {} /\ Goto(c, "open")
    <3>1. Advances(c)
      BY <1>0, <1>8, <2>1, GotoPath DEF Record, At, Advances, CallOrder, ChecksOn, Builds
    <3> QED BY <2>1, <3>1, GotoPath, Zenon DEF CallPath
  <2> QED BY <1>8, <2>1, ReturnPath, Zenon DEF Record
<1> QED BY <1>1, <1>2, <1>3, <1>4, <1>5, <1>6, <1>7, <1>8, Zenon DEF CallStep

\* Every step of the system.
LEMMA NextPath ==
  ASSUME TypeInv, RecordInv, [Next]_vars
  PROVE  CallPath
<1>1. CASE UNCHANGED call
  BY <1>1, Zenon DEF CallPath
<1>2. ASSUME NEW c \in Calls, CallStep(c)
      PROVE  CallPath
  BY <1>2, StepPath, Zenon
<1>3. ASSUME NEW c \in Calls, WriteFails(c)
      PROVE  CallPath
  <2>1. CallOrder(c)
    BY Zenon DEF RecordInv
  <2>2. CASE Builds(c) /\ Goto(c, "build")
    BY <2>2, GotoPath, Zenon DEF CallPath, Advances, Builds
  <2>3. CASE At(c, "build") /\ Throws(c)
    <3>1. Builds(c)
      BY <2>1, <2>3, Zenon DEF CallOrder, Checks, At, TypeInv, TypeOK, Call
    <3> QED BY <2>3, <3>1, ThrowsPath, Zenon
  <2> QED BY <1>3, <2>2, <2>3, ReturnPath, Zenon DEF WriteFails, Builds, At
<1>4. ASSUME NEW c \in Calls, NEW s \in Sessions, Start(c, s)
      PROVE  CallPath
  <2>1. /\ call'[c] = [Idle EXCEPT !.pc = "open", !.s = s]
        /\ \A d \in Calls : d # c => call'[d] = call[d]
    BY <1>4, BecomesPath, Zenon DEF Start
  <2>2. call'[c].op = "start" /\ call'[c].pc = "open" /\ call'[c].s = s
    BY <2>1, Zenon DEF Idle
  <2>3. session[s].status = "UNUSED" /\ session'[s].status = "CREATING"
    BY <1>4 DEF Start, Moves, TypeInv, TypeOK
  <2> QED BY <2>1, <2>2, <2>3, Zenon DEF CallPath, Enters
<1>5. ASSUME NEW c \in Calls, NEW s \in Sessions, Check(c, s)
      PROVE  CallPath
  <2>1. /\ call'[c] = [Idle EXCEPT !.pc = "admit", !.op = "check", !.s = s,
                                   !.stamp = session[s].stamp]
        /\ \A d \in Calls : d # c => call'[d] = call[d]
    BY <1>5, BecomesPath, Zenon DEF Check
  <2>2. call'[c].op = "check" /\ call'[c].pc = "admit" /\ call'[c].s = s /\ ~call'[c].passed
    BY <2>1 DEF Idle
  <2>3. session[s].status = "ACTIVE"
    BY <1>5, Zenon DEF Check
  <2> QED BY <2>1, <2>2, <2>3, Zenon DEF CallPath, Enters
<1>6. ASSUME NEW i \in Instances, Crash(i)
      PROVE  CallPath
  BY <1>6, Zenon DEF Crash, CallPath
<1> QED BY <1>1, <1>2, <1>3, <1>4, <1>5, <1>6, Zenon DEF Next, vars, SessionMoves, OnSessionClosed,
           LoseEvent, Ages, SweepList, SweepExpire

\* Only its start makes a session ACTIVE that was not built yet.
LEMMA UnbuiltStays ==
  ASSUME TypeInv, RecordInv, [Next]_vars, NEW s \in Sessions, session[s].status \in Unbuilt
  PROVE  \/ session'[s].status \in Unbuilt
         \/ \E c \in Calls : call[c].s = s /\ Builds(c) /\ call'[c] = Idle
<1>0. session \in [Sessions -> [status : Statuses \cup NoRowStatuses, stamp : Nat]]
  BY Zenon DEF TypeInv, TypeOK
<1>1. ASSUME NEW u \in Sessions, NEW to, Moves(u, to)
      PROVE  session'[s].status = session[s].status \/ (u = s /\ session'[s].status = to)
  BY <1>0, <1>1, Zenon DEF Moves
<1>2. ASSUME NEW u \in Sessions, SessionMoves(u)
      PROVE  session'[s].status \in Unbuilt
  <2>1. PICK to \in Statuses \cup {"FORGOTTEN"} :
          /\ <<session[u].status, to>> \in Lifecycle!Edges
          /\ session[u].status = "CREATING" => to \notin {"ACTIVE", "FAILED"}
          /\ Moves(u, to)
    BY <1>2, Zenon DEF SessionMoves
  <2>2. session[u].status \in Unbuilt => to \in Unbuilt
    BY <2>1, Zenon DEF Unbuilt, TeardownOwned, TerminalStatuses, Lifecycle!Edges
  <2> QED BY <1>1, <2>1, <2>2, Zenon
<1>3. ASSUME NEW c \in Calls, NEW u \in Sessions, Start(c, u)
      PROVE  session'[s].status \in Unbuilt
  BY <1>1, <1>3, Zenon DEF Start, Unbuilt
<1>4. ASSUME NEW c \in Calls, Build(c)
      PROVE  \/ session'[s].status \in Unbuilt
             \/ call[c].s = s /\ Builds(c) /\ call'[c] = Idle
  <2>1. call[c].s \in Sessions /\ Builds(c)
    BY <1>4, Zenon DEF Build, At, TypeInv, TypeOK, CallOK, Call, RecordInv, CallOrder, Builds,
       Checks
  <2>2. CASE Moves(call[c].s, "ACTIVE") /\ Return(c)
    BY <1>1, <2>1, <2>2, ReturnPath, Zenon
  <2>3. CASE Moves(call[c].s, "FAILED")
    BY <1>1, <2>1, <2>3, Zenon DEF Unbuilt, TeardownOwned, TerminalStatuses
  <2> QED BY <1>4, <2>2, <2>3, Zenon DEF Build
<1> QED BY <1>2, <1>3, <1>4, Zenon DEF Next, vars, CallStep, Open, Bind, FailAttempt, Admit, Verify,
           ReadBack, Record, WriteFails, Check, OnSessionClosed, LoseEvent, Ages, SweepList,
           SweepExpire, Crash

\* The calls run in one process, whose set of checks in flight is therefore theirs.
SameProcess == \A c, d \in Calls : Host[c] = Host[d]

\* At most one call of a session binds.
LEMMA OneBindsStep ==
  ASSUME SameProcess, TypeInv, UsedInv, RecordInv, CallPath
  PROVE  OneBinds'
<1> SUFFICES ASSUME NEW c \in Calls, NEW d \in Calls, c # d, call'[c].s = call'[d].s
             PROVE  /\ Builds(c)' => ~Builds(d)' /\ call'[d].op # "check"
                    /\ Checks(c)' => ~Checks(d)'
  BY Zenon DEF OneBinds
<1>1. ASSUME NEW e \in Calls, call'[e] = Idle
      PROVE  ~Builds(e)' /\ call'[e].op # "check" /\ ~Checks(e)'
  BY <1>1 DEF Builds, Checks, Idle
<1>2. ASSUME call[c].s = call[d].s
      PROVE  /\ Builds(c) => ~Builds(d) /\ call[d].op # "check"
             /\ Checks(c) => ~Checks(d)
             /\ Builds(d) => ~Builds(c) /\ call[c].op # "check"
  BY <1>2, Zenon DEF RecordInv, OneBinds
<1>3. CASE \A e \in Calls : call'[e] = call[e] \/ call'[e] = Idle
  <2>1. CASE call'[c] = call[c] /\ call'[d] = call[d]
    BY <1>2, <2>1, Zenon DEF Builds, Checks
  <2> QED BY <1>1, <1>3, <2>1, Zenon
<1>4. ASSUME NEW e \in Calls, NEW f \in Calls, e # f, call'[f] = call[f], Enters(e),
             call'[e].s = call[f].s
      PROVE  /\ ~Checks(e)'
             /\ Builds(e)' => ~Builds(f) /\ call[f].op # "check"
             /\ call'[e].op = "check" => ~Builds(f)
  <2>1. CASE /\ call'[e].op = "start" /\ session[call'[e].s].status = "UNUSED"
    <3>1. call[f].pc = "idle"
      BY <1>4, <2>1, Zenon DEF UsedInv
    <3>2. ~Builds(f) /\ call[f].op # "check"
      BY <3>1, Zenon DEF Builds, Checks, RecordInv, CallOrder
    <3> QED BY <2>1, <3>2, Zenon DEF Checks
  <2>2. CASE /\ call'[e].op = "check" /\ call'[e].pc = "admit"
             /\ session[call'[e].s].status = "ACTIVE"
    <3>1. ~Builds(f)
      BY <1>4, <2>2, Zenon DEF RecordInv, CallOrder, Unbuilt, TeardownOwned, TerminalStatuses
    <3> QED BY <2>2, <3>1, Zenon DEF Checks, Builds
  <2> QED BY <1>4, <2>1, <2>2, Zenon DEF Enters
<1>5. ASSUME NEW e \in Calls, NEW f \in Calls, e # f, Advances(e), call[e].s = call[f].s, Checks(f)
      PROVE  Checks(e)' => Checks(e)
  <2>1. call[e].s \in ChecksInFlight(Host[e])
    BY <1>5, Zenon DEF SameProcess, ChecksInFlight, Checks, At
  <2> QED BY <1>5, <2>1 DEF Advances, ChecksOn, Checks
<1>6. ASSUME NEW e \in Calls, Advances(e)
      PROVE  Builds(e)' => Builds(e)
  BY <1>6, Zenon DEF Advances, Builds
<1>7. ASSUME NEW e \in Calls, \A f \in Calls : f # e => call'[f] = call[f],
             Enters(e) \/ Advances(e)
      PROVE  /\ Builds(c)' => ~Builds(d)' /\ call'[d].op # "check"
             /\ Checks(c)' => ~Checks(d)'
  <2>1. ASSUME NEW f \in Calls, call'[f] = call[f]
        PROVE  (Builds(f)' <=> Builds(f)) /\ (Checks(f)' <=> Checks(f))
    BY <2>1, Zenon DEF Builds, Checks
  <2>2. CASE e \notin {c, d}
    BY <1>2, <1>7, <2>1, <2>2, Zenon
  <2>3. CASE e \in {c, d} /\ Enters(e)
    BY <1>4, <1>7, <2>1, <2>3, Zenon
  <2>4. CASE e \in {c, d} /\ Advances(e)
    <3>1. call'[e].op = call[e].op /\ call'[e].s = call[e].s
      BY <2>4, Zenon DEF Advances
    <3> QED BY <1>2, <1>5, <1>6, <1>7, <2>1, <2>4, <3>1, Zenon
  <2> QED BY <1>7, <2>2, <2>3, <2>4, Zenon
<1> QED BY <1>3, <1>7, Zenon DEF CallPath

\* A session without an attempt gets none while a check that found none goes on.
LEMMA UnboundStays ==
  ASSUME TypeInv, RecordInv, CallPath, Bindings, NEW c \in Calls, Checks(c),
         call'[c].op = "check", call'[c].pc \in {"open", "bind"}, call'[c].s = call[c].s,
         call[c].pc = "bind" => call'[c].pc = "bind", BoundTo(call[c].s) = {}
  PROVE  BoundTo(call[c].s)' = {}
<1> SUFFICES ASSUME NEW a \in Attempts, attempt'[a].session = call[c].s
             PROVE  FALSE
  BY Zenon DEF BoundTo
<1>1. attempt[a].session # call[c].s
  BY Zenon DEF BoundTo
<1>2. PICK d \in Calls : At(d, "bind") /\ call'[d].pc # "bind" /\ call[d].s = call[c].s
  BY <1>1 DEF Bindings
<1>3. c # d
  BY <1>2, Zenon DEF At
<1>4. Builds(d) \/ Checks(d)
  BY <1>2, Zenon DEF Builds, Checks, At, TypeInv, TypeOK, Call
<1> QED BY <1>2, <1>3, <1>4, Zenon DEF RecordInv, OneBinds, Checks

\* What is known of the calls goes on being true.
LEMMA OrderStep ==
  ASSUME TypeInv, RecordInv, CallPath, Bindings, [Next]_vars
  PROVE  \A c \in Calls : CallOrder(c)'
<1> SUFFICES ASSUME NEW c \in Calls PROVE CallOrder(c)'
  BY Zenon
<1>0. CallOrder(c) /\ call[c].op \in {"start", "check"}
  BY Zenon DEF RecordInv, TypeInv, TypeOK, Call
<1>1. CASE call'[c] = Idle
  BY <1>1 DEF CallOrder, Builds, Checks, Idle
<1>2. ASSUME Builds(c), call'[c] # Idle
      PROVE  session'[call[c].s].status \in Unbuilt
  <2>1. call[c].s \in Sessions /\ session[call[c].s].status \in Unbuilt
    BY <1>0, <1>2, Zenon DEF CallOrder, Builds, TypeInv, CallOK
  <2>2. ASSUME NEW d \in Calls, call[d].s = call[c].s, Builds(d), call'[d] = Idle
        PROVE  FALSE
    <3>1. d # c
      BY <1>2, <2>2, Zenon
    <3> QED BY <1>2, <2>2, Zenon DEF RecordInv, OneBinds
  <2> QED BY <2>1, <2>2, UnbuiltStays, Zenon
<1>3. CASE call'[c] = call[c] /\ call[c] # Idle
  <2>1. call[c].op = "check" /\ call[c].pc \in {"open", "bind"} => BoundTo(call[c].s)' = {}
    BY <1>0, <1>3, UnboundStays, Zenon DEF CallOrder, Checks
  <2> QED BY <1>0, <1>2, <1>3, <2>1, Zenon DEF CallOrder, Builds, Checks
<1>4. CASE Enters(c)
  BY <1>4, Zenon DEF Enters, CallOrder, Builds, Unbuilt
<1>5. CASE Advances(c) /\ call'[c] # Idle
  <2>1. CASE call[c].op = "start"
    BY <1>2, <1>5, <2>1, Zenon DEF Advances, CallOrder, Builds, Checks
  <2>2. CASE call[c].op = "check"
    <3>1. ChecksOn(c) /\ call'[c].op = "check" /\ call'[c].s = call[c].s
      BY <1>5, <2>2, Zenon DEF Advances
    <3>2. call'[c].pc \in {"open", "bind"} => BoundTo(call[c].s)' = {}
      <4>1. ASSUME call'[c].pc \in {"open", "bind"}
            PROVE  Checks(c) /\ BoundTo(call[c].s) = {} /\ call[c].pc # "bind"
        BY <1>0, <2>2, <3>1, <4>1, Zenon DEF ChecksOn, CallOrder
      <4> QED BY <3>1, <4>1, UnboundStays, Zenon
    <3> QED BY <1>0, <2>2, <3>1, <3>2, Zenon DEF ChecksOn, CallOrder, Checks, Builds
  <2> QED BY <1>0, <2>1, <2>2
<1>6. \/ call'[c] \in {call[c], Idle}
      \/ Enters(c) \/ Advances(c)
  BY Zenon DEF CallPath
<1> QED BY <1>1, <1>3, <1>4, <1>5, <1>6, Zenon

\* Every step of the system keeps the invariant when the calls share a process.
LEMMA RecordStep ==
  ASSUME SameProcess, MemoryInv, RecordInv, [Next]_vars
  PROVE  RecordInv'
<1>1. TypeInv /\ UsedInv
  BY Zenon DEF MemoryInv
<1>2. CallPath /\ Bindings
  BY <1>1, NextPath, NextTables, TableBindings, Zenon
<1> QED BY <1>1, <1>2, OneBindsStep, OrderStep, Zenon DEF RecordInv

\* A check whose pass is known leaves only by recording it.
LEMMA PassStored ==
  ASSUME TypeInv, RecordInv, [Next]_vars, faults' = faults, NEW c \in Calls,
         call[c].op = "check", call[c].passed, call'[c] = Idle
  PROVE  \E a \in Attempts : attempt'[a].session = call[c].s /\ attempt'[a].status = "PASSED"
<1>1. call[c] # Idle /\ call[c].pc \in {"record", "open", "bind"} /\ faults \in Nat
  BY DEF RecordInv, CallOrder, Checks, Idle, TypeInv, TypeOK
<1>2. CallStep(c)
  <2>1. ASSUME NEW d \in Calls, d # c PROVE ~CallStep(d)
    <3>1. ASSUME NEW k PROVE ~Becomes(d, k)
      BY <1>1, <2>1, BecomesPath, Zenon
    <3> QED BY <3>1, Zenon DEF CallStep, Open, Bind, Bound, Build, Throws, FailAttempt, Admit,
               Verify, ReadBack, Record, Goto, Return
  <2>2. faults' # faults + 1
    BY <1>1
  <2>3. ASSUME NEW d \in Calls, NEW s \in Sessions PROVE ~Start(d, s) /\ ~Check(d, s)
    <3>1. CASE d = c
      BY <1>1, <3>1, Zenon DEF Start, Check, At
    <3>2. CASE d # c
      BY <1>1, <3>2, BecomesPath, Zenon DEF Start, Check
    <3> QED BY <3>1, <3>2, Zenon
  <2> QED BY <1>1, <2>1, <2>2, <2>3, Zenon DEF Next, vars, WriteFails, Fault, SessionMoves,
             OnSessionClosed, LoseEvent, Ages, SweepList, SweepExpire, Crash
<1>3. \A pc : Goto(c, pc) => pc = "idle"
  BY GotoPath DEF Idle
<1>4. ~Open(c)
  <2> SUFFICES ASSUME NEW a \in Attempts, Becomes(c, [call[c] EXCEPT !.pc = "bind", !.a = a])
               PROVE  FALSE
    BY Zenon DEF Open
  <2>1. call'[c] = [call[c] EXCEPT !.pc = "bind", !.a = a] /\ call[c] \in Call
    BY BecomesPath, Zenon DEF TypeInv, TypeOK
  <2>2. call'[c].pc = "bind"
    BY <2>1 DEF Call
  <2> QED BY <2>2 DEF Idle
<1>5. ~Bind(c)
  BY <1>3, Zenon DEF Bind, Bound, RecordInv, CallOrder, At
<1>6. Record(c)
  BY <1>1, <1>2, <1>4, <1>5, Zenon DEF CallStep, Build, FailAttempt, Admit, Verify, ReadBack, At
<1>7. PICK a \in BoundTo(call[c].s) : RecordCheck(a, call[c].passed)
  BY <1>3, <1>6, Zenon DEF Record
<1>8. attempt \in [Attempts -> Attempt] /\ a \in Attempts /\ attempt[a].session = call[c].s
  BY Zenon DEF TypeInv, TypeOK, BoundTo
<1> QED BY <1>7, <1>8 DEF RecordCheck

\* With one API process, a verdict "passed" is never lost between the read-back
\* and the store, although the session may have no attempt yet and other checks,
\* starts and ends of the session run meanwhile (runCheck, checksInFlight): the
\* check that opens the attempt finds it free to bind.
THEOREM PassRecordedHolds ==
  ASSUME SameProcess
  PROVE  Spec => PassIsRecorded
<1> DEFINE Kept == \A c \in Calls :
                     /\ call[c].op = "check" /\ call[c].passed
                     /\ call'[c] = Idle
                     /\ faults' = faults
                     => \E a \in Attempts :
                          attempt'[a].session = call[c].s /\ attempt'[a].status = "PASSED"
<1>1. Init => RecordInv
  BY DEF Init, RecordInv, OneBinds, CallOrder, Builds, Checks, Idle
<1>2. MemoryInv /\ RecordInv /\ [Next]_vars => Kept
  BY PassStored, Zenon DEF MemoryInv
<1>3. MemoryInv /\ RecordInv /\ [Next]_vars => (MemoryInv /\ RecordInv)' /\ [Kept]_vars
  BY <1>2, MemoryStep, RecordStep, Zenon
<1> QED BY <1>1, <1>3, MemoryInit, PTL DEF Spec, PassIsRecorded
=============================================================================
