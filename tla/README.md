# A verification development for JumpToTech Labs

JumpToTech Labs gives a student a disposable sandbox (a Kubernetes namespace or
a container), a browser terminal into it and a verifier of the work done there.
This directory holds TLA+ models of the code that has to be right under
concurrency, the TLC configurations that check them on small instances, and
proofs, checked by TLAPS, of the properties that matter most for every instance.

Paths below are relative to the repository; `session/` is
`services/lab-orchestrator/src/session/`.

## The system and its parts

| Part | Where | State | Concurrency and failures |
| --- | --- | --- | --- |
| session store | `session/store.ts`, `postgres-store.ts` | one row per lab session | conditional writes by every API process |
| session manager | `session/manager.ts` | in-flight maps of one process | many calls at once, each with provider calls of minutes between its store calls |
| session reaper | `session/reaper.ts` | a sweep, the containers it saw stopped | acts on a listing that ages while it works |
| sandbox providers | `providers/*` | namespaces and containers | partial failures, asynchronous deletion, host restarts |
| API process | `apps/api/src/index.ts` | - | shutdown, crash, restart |
| learning progress | `services/progress/src`, `apps/api/src/progress.ts` | attempts, progress, hints | checks racing the end of the session |
| session routes | `apps/api/src/routes` | checks in flight | requests of several browser tabs |
| terminal gateway | `services/terminal/src` | attached shells | attach, reattach and terminate racing |
| sandbox broker | `services/sandboxd/src` | PTYs and their connections | callers that leave while it inspects |
| flow control | `services/lab-orchestrator/src/output-flow.ts` | paused sources, queues | four flows in a ring, in two processes |
| billing | `apps/api/src/billing` | customers, subscriptions, processed events | duplicated and reordered webhooks, transactions waiting for locks |
| entitlements | `apps/api/src/access` | an account's rows | operators and webhooks at once |
| authentication, operator console, classroom view, rate limit | `apps/api/src` | small tables | - |
| catalog, verifier, manifests, observability, web client | several | none, or derived | - |

`PROJECT.json` lists every part with its sources, the modules that model it and,
for a part left out, the reason.

## The modules

`SessionTypes` has the statuses of a session and the sets the code sorts them
into.

`SessionLifecycle` is the abstract specification: one status per session, moved
along the edges of the diagram at the top of `session/types.ts`, one session at
a time.

`SessionManager` is the store together with the manager.
  - `row` is the sessions table. A row is its status, the stamp of its last
    status change, the number of its last activity, the reason and the owner.
    `Matches` and `Moved` are the guard and the effect of the store's
    `transition`.
  - `sandbox` is what the substrate holds for each session.
  - A *task* is one asynchronous manager call in an instance (an API process).
    Its `pc` names the await it is at, and each action is the code from one
    await to the next, so a call may be overtaken anywhere the code can be.
    `start` is `Start`, `Insert`, `Create`, `Activate` and, when it fails or
    loses its session, `Cleanup`, `Fail`, `Discard`, `Discarding`, `Lost`;
    `reset` is `Reset`, `ClaimReset`, `Purge`, `Rebuild`, `Release`, `Degrade`;
    every teardown is `Teardown`, `Defer`, `Claim`, `DestroyClaimed`, `Record`,
    `NotifyClosed` in one of five modes (End, expiry, operator's end, resumption
    of an End, completion of an expiry).
  - `resetsInFlight`, `stopping` and `handover` are what a process remembers and
    what `interruptInFlight` writes with it. The starts in flight need no
    variable: the code keys them by a session id no other start can have, so
    they are the tasks whose `op` is `"start"`.
  - `closed` records the `onSessionClosed` events.

`SessionReaper` composes the manager with the sweeps. A sweep has three parts
(sessions, sandboxes, retention). Each reads the clock and lists the rows once,
which settles what it means to do with each session and under which fence; it
then does it one session at a time. So a sweep is a `plan`, made at once and
carried out on later rows. `Down` is a crash or an exit, `SweepThrows` and
`SweepSkips` are a sweep that the store or a provider fails, and `Fault` counts
the faults of a run.

`LabAttempts` is the learning record.
  - `attempt` and `progress` are its two tables. Each statement or transaction of
    `services/progress/src` is one operator (`CreateAttempt`, `RecordCheck`,
    `FinishAttempt`, `Stale`).
  - A *call* is a Start or a Check request in one process, again one action per
    await: Start is `Start`, `Open`, `Bind`, `Build` and, when it throws,
    `FailAttempt`; Check is `Check`, `Admit`, `Verify`, `ReadBack`, `Record` and,
    for a session without an attempt, `Open` and `Bind`.
  - `session` is what these routes see of a session: a status that moves along
    the edges of `SessionLifecycle`, which `SessionManager` is proved to
    implement, and the stamp of the last change.
  - `event` is a close event between the end of a session and
    `OnSessionClosed`. `SweepList` and `SweepExpire` are the two awaits of
    `AbandonedAttemptSweeper.sweep`; `old` has the attempts behind its cutoff.
  - `WriteFails`, `LoseEvent` and `Crash` are the faults the code handles.

`SandboxBroker` is the attach endpoint of sandboxd: `OpenShell` up to the
inspection of the container, then `Deny`, `CallerGone` or `AttachShell`. A
connection has two ends, `link` for the gateway and `peer` for the broker, which
learn of each other's close late (`SocketClosed`).

`TerminalGateway` composes the broker with the terminal service. The service is
one Node process, so an action is the code between two awaits or one event
handler.
  - An attach is `Auth`, `TakeTurn`, `ApiAnswers`, `Fetched` and then, for a
    local shell, `WriteCredentials`, `ClaimHome` and `Spawn`, or, for a
    container, `Dialed` or `DialFailed`; whatever fails goes through `GiveUp` or
    `Discard`. A reattach is `AskReattach`, `ReattachTurn`, `ReattachFetched`,
    `Reattached` or `ReattachFailed`.
  - `queue`, `waiting`, `claim`, `shell` and `bySession` are the maps
    `attachQueues`, `waitingAttaches`, `attachClaims`, `sessions` and
    `bySessionId`; `owners` is `shellOwners`. `files` and `home` are what is on
    the disk, `left` the processes that outlive their shell.
  - `CloseFor`, `Revoke`, `Overflow`, `ShellExits` and `SocketGone` are the ways
    a shell ends; `ApiEnds`, `Terminate`, `KillProcesses` and `DestroyHome` the
    way a session does.
  - The directory of a Docker session (`Workspaces`) is also the API's:
    `SeedWorkspace` puts the lab's files there, which may create it, and
    `DestroyWorkspace` is the call `DockerProvider.destroy` makes after the
    terminate, whether or not that was answered.

`OutputFlow` is the stream of one terminal, four hops in a ring: two in the
gateway, two in the broker. `Relay` is a read followed by a send and `AfterSend`,
`Poll` the interval of a paused flow, `Detach` and `Rewire` the replacement of a
shell. What sockets, PTY, browser and program do is external and may stop.

`Entitlements` has the rows of one account, what they evaluate to and the plan
of each change; `Billing` the tables and the transactions over them. A delivery
is `Deliver`, `ClaimEvent`, `ResolveCheckout` or `ResolveSubscription`,
`BindCustomer`, `LockAccount`, `Check` and `Put`, one action per statement that
can wait or that others can come between; `Fail` loses the transaction. The
operator's commands are one action each, under the account's lock.

`MCSessions`, `MCAttempts`, `MCTerminal`, `MCFlow` and `MCBilling` hold the
constants of the runs.

`SessionManagerProofs`, `SessionReaperProofs`, `SessionCallsProofs`,
`LabAttemptsProofs`, `TerminalAttachProofs`, `TerminalProofs`,
`OutputFlowProofs` and `BillingProofs` hold the theorems.

### Abstractions

  - Time. A stamp counts status changes and an activity counts activities, so
    two different moments never compare equal. (The code compares timestamps
    in milliseconds; `reaper.ts` keeps the grace of a recovery above zero for
    the same reason.) Whether a grace period, the retention time or the idle
    budget is over is a choice made when a row is listed. The absolute deadline
    is a fact about the session (`overdue`) that never changes back.
  - Providers. `create` either builds the sandbox or fails and leaves what was
    there, a part of it, or, for a container, nothing. A container's `reset` is
    a removal followed by a creation with other steps possibly between the two.
    `destroy` removes the sandbox, starts an asynchronous deletion, or fails; only a
    verified removal lets a teardown finish. A container whose inspection fails
    after it was removed counts as gone, as in the code, even if it is still
    terminating.
  - Sweeps. A listing that fails skips its part, or the sandboxes of one kind;
    the write that recovers a reset may fail. The write that degrades a session
    whose container stopped is assumed to succeed: one that fails is repeated by
    the next sweep.
  - Reasons are told apart as far as `endReasonFor` tells an ending apart.
  - Left out: the shells (`terminal.terminate` and `reattach` are best-effort
    calls to the gateway and change nothing here), logs, metrics, and the
    contents of a sandbox.
  - In `LabAttempts`: a lookup of an attempt by its session and the write that
    follows it are one step, which loses nothing because a binding never changes
    once it is made. The tables are the PostgreSQL ones: the in-memory
    repository has no unique index on the session. A verdict is a Boolean, and
    of the sandbox only the stamps under which it was read are kept. A bind is
    assumed to take less than the absolute lifetime plus the grace. Hints, the
    counters of resets and checks and the timestamps are left out.
  - In `TerminalGateway`: a socket attaches at most once, so a socket names its
    attach, its claim and its credential files. The frames of a connection to
    the broker arrive in order, so what is still to be read follows from the
    broker's end. The decision of the API is a choice, but never a grant for a
    session that ended. The arithmetic of the attach and input budgets is left
    out: a refusal by them is `Reject` or `CloseFor`. Of the files in a
    workspace only the directory that holds them is kept. The isolation mode is
    `per-session`, which production requires: in the shared mode of development
    no owner is remembered. A credential file is there or not: a write that
    fails half way, and the file it may leave behind, is left out.
  - In `OutputFlow`: bytes are counted in chunks. `Slack` is what a source
    delivers after it was paused. A replaced shell's connection closes and its
    PTY ends in one step (`Detach`).
  - In `Billing`: an instant is a number. A transaction reads committed rows and
    holds the locks PostgreSQL gives it: the key of an inserted event, both keys
    of an inserted customer and, through its foreign key, the account, and the
    account's row once locked. What it wrote is seen by others when it commits;
    `Put` is one step because the account's lock is held. Prices are known or
    not; plans and the limit of five checkouts an hour are left out.

## The runs

| Run | Question | Instance |
| --- | --- | --- |
| `races` | Do two requests and the sweeps, racing over one session, keep the fences of resets and of abandoned starts? Does a live container survive every cleanup, and a student who typed every idle expiry? | a container that may stop, two request tasks, one reaper, resets up to stamp 5, four activities |
| `crash` | Do the lifecycle and the single close event survive two processes, either of which crashes, shuts down, loses a store call or fails to list, and is every start and reset settled by someone? | one serving and one sweeping process, resets up to stamp 3, two faults |
| `capacity` | Do concurrent starts respect both limits? | three sessions, one owner with a plan of one lab, anonymous starts, limit 2 |
| `teardown` | Does everything begun or overdue end, and every sandbox go? | one namespace, one request task, one reaper, a deadline, one fault, no reset |
| `learning` | Do racing starts and checks keep the two tables in agreement and grade one environment? | one session with a reset, two calls in two processes, three attempts, one fault |
| `abandoned` | Do close events, sweeps, failing starts and checks keep a pass, a live attempt and the meaning of ENDED; is every pass recorded that reached its record, and every attempt closed at last? | one session, two calls in one process, one sweep, two attempts, one fault |
| `shells` | Is every shell reachable, owned and within both ceilings, none left after End Lab, and do credentials and directories live as long as their shell? | a local Docker session and two container sessions, two sockets, a reattach, room for one shell |
| `ending` | Does every attach end, and does every PTY go after End Lab? | one container session, two sockets, a reattach, room for one shell |
| `backpressure` | Is memory bounded at every hop, does the ring never stall, and is a browser's departure noticed? | limits 1, 1, 3, windows of one chunk, a shell output that overruns its pause, one replaced shell |
| `access` | Is access exactly what is paid for, in whatever order events and operators come? | two accounts, customers and subscriptions, six events, two processes, three instants, two operator's commands on one account, four kinds of grant request |
| `settles` | Is every event of this platform's checkouts whose price is known settled? | the events of one account, two processes, one lost transaction |
| `endtwice` | see Disagreements | as `races`, without resets or activity |

The bounds. One session suffices for every property of the manager but the
limits: no action reads two rows except admission, and the proofs below confirm
it for the safety properties. Two requests and a sweep are the smallest number
of actors in which a third one finds what two others left (a recovered claim
taken again). Stamp 5 allows two complete resets of one session after its start,
which the fences need. A start's insertion and its success are the first two
activities and a reset records two more, so that four let the student type twice
before the first reset, which is enough for a sweep's listing to fall between.
`teardown` has a namespace and no resets; a container that a
lost reset leaves behind is found by the same sweep of a finished row
(`Unshielded`), but only the lost start is checked. Three attempts let Start and two checks each open one for
the same session. Two sockets and a reattach give every pair of attaches that
can meet in one session's queue; two sessions behind the broker and a local one,
with room for one shell, put the admission of both services at its limit. That
one of two browsers waiting behind a third is replaced takes three sockets and
is left to the proof of `OneWaits`; a local session whose directory the API does
not touch is left to that of `CredentialsFollowShell`. In
`backpressure` (`LateAtShell`) pausing suffices at three hops, at browser output
exactly, and not at the shell's output, so that both outcomes occur. The events
of `access` hold an older and a newer state of one subscription, a cancellation
at the first instant of its period, a subscription reported for two accounts,
two subscriptions of one account with different periods, one of them past due,
and a customer claimed twice; those of `settles` an unknown price and an event
of no interest.

Deadlock is not checked where the run may really stop: in `capacity` and
`learning`, where without sweeps the ids run out; in the terminal, flow and
billing runs, where every browser has left, every session has ended or every
event was reported. Symmetry (of request tasks and calls, of sessions in
`capacity`, of attempts, of sockets and container sessions, of processes) is used
for safety only. Three runs also compare states by a view that forgets what no
later step and none of the run's properties depends on.
  - `capacity` (`UnfinishedView`): the owner, stamps and reason of a finished
    session and the close events delivered. Every conditional write asks for an
    unfinished status first, admission counts occupying rows, and a finished row
    never changes again but to be forgotten (`FollowsLifecycle`, proved below).
  - `races` (`FencedView`): the stamps and reason of a finished session; which
    older stamp or activity a fence names once it is not its row's, because a
    fence is only ever compared with its row, whose stamps grow; and
    `resetsInFlight`, which only a shutdown reads.
  - `shells` (`ClaimedView`): the directory of a session without a local shell or
    an attach that claimed it. No step reads `home`, and an attach makes the
    directory itself before its shell starts.

Fairness, in `teardown` and `crash`. Both assume weak fairness of a call's steps
(a continuation runs and a provider or store call returns, all have timeouts),
that the reaper's timer fires and that a process that began to shut down exits
(`StepFairness`). Beyond that each run assumes only what its properties need. In
`crash` the grace period of a start or reset, judged at every sweep, is over at
last (`OperationFairness`); no destroy need ever succeed. In `teardown`
(`TeardownFairness`) a destroy that is retried by every sweep succeeds at last
(strong fairness of its successful outcome): if a sandbox can never be removed,
the code's documented behaviour is to retry for ever. The grace of an End or of
a sandbox without a row is over at last, an asynchronous deletion completes, and
a deadline passes. No fairness is assumed of requests, crashes or activity.
In `abandoned`: the steps of a call, the timer of the sweep, and the passing of
time for an attempt; none of the close event, which may never arrive, and none
of the sessions, which may stay up for ever.

In `ending`: every await of an attach has its own deadline (the credentials
fetch, the broker connection, docker inspect), closes are delivered, file
operations end, and every shell has a `maxTimer`, which is why `CloseFor` is
fair. Nothing makes a browser connect or leave, a shell exit or the API end a
session. In `backpressure`: timers fire, sockets that are read deliver, and a
reattach answers. That the program reads and the browser shows is a hypothesis
of `NoStall` alone; `LeavingReleases` holds with a program that never reads. In
`settles`: a transaction goes on, one that waits for a lock gets it in the order
of PostgreSQL's queue (strong fairness), and the provider repeats what was not
acknowledged.

### Disagreements between the code and what it says

One run ends in a counterexample and quotes the sentence it refutes.

  - `endtwice`: a second End during a build records ENDED and frees the slot
    although the build goes on (`manager.ts:1572`).

### Observations

Other disagreements show in the models and have no run of their own.

  - When a reset that lost its claim ends, it deregisters the next reset of the
    same session (`manager.ts:1159` against the comment at `413`), which a
    shutdown then does not hand over; it is left to a sweep. The two resets need
    two requests in the process that shuts down; `crash` has one, so
    `OperationSettles` is not checked there.
  - A reset presumed dead but alive removes the container a second reset built
    (`manager.ts:1172` against `reaper.ts:87`, "it leaves the sandbox alone");
    `ActiveSandboxKept` shows that nothing else does.
  - An End between a check's read-back and its record closes the attempt, and the
    pass then changes a closed attempt (`routes/sessions.ts:779` against
    `types.ts:54` of `services/progress/src`). `PassIsKept` shows that a
    recorded pass is never withdrawn.
  - A sweep with an older listing overwrites the reason "ended by operator"
    (`Claim` of an EXPIRING row, `manager.ts:1440` and `1446`).
  - Creating an attempt and binding it are two transactions (`Open`, `Bind`), so
    an attempt can be left without its session, against the comment at
    `routes/labs.ts:405`. `AttemptCloses` shows that the sweep closes it.
  - A start ended by the student during its build closes its attempt as FAILED
    (`Build`, `FailAttempt`) when the teardown is not finished by then, where
    `types.ts:37` of `services/progress/src` would have ENDED.
  - A terminate that overtakes the first attach of a session finds no owner and
    returns; the directory that attach claims afterwards stays (`Terminate`,
    `ClaimHome`; `server.ts:510` of the terminal service, "its workspace or home
    is removed").
  - The broker's check that its caller is still there (`server.ts:700` of
    sandboxd, "It must not replace a live shell either") sees only closes that
    have arrived: an inspection that ends while the close is under way replaces
    a newer live shell (`AttachShell`).
  - A replaced shell's output flow starts unpaused over a socket that may already
    be full, so browser output may pass the hard limit although its source can
    be paused (`BacklogBounded` excepts it).
  - A subscription's event that loses a race against the same subscription on
    another account passes `Check` and is then refused by the WHERE of
    `putSubscription`, but is recorded as applied (`Put`).

## The proofs

All theorems hold for any finite set of sessions, any number of tasks and
processes, any limits and any bounds, where they speak of these. Those about sessions assume
`ManagerAssumption` and `ReaperAssumption`: the constants have their types, a task runs in one
process, and a reaper's task runs in the reaper's own.

`TypeCorrect`. The inductive invariant adds to the types that a call past its
admission is bound to a session (`TasksBound`); without it nothing can be said
of the row a step writes. The lemma behind every later theorem, `NextStep`, says
more than typing: every step of the system leaves the table alone, inserts an
admitted row, moves one row along an edge of the lifecycle while raising its
stamp, or deletes a finished row (`RowStep`).

`CapacityHolds` follows from `RowStep` and cardinality: only an admitted insert
adds to the occupying rows, and admission was decided on the same state.

`LifecycleHolds` is the refinement: the initial table maps to the initial
statuses and each case of `RowStep` to a move or a stutter.

`ClosedOnceHolds` needs to know that a call about to notify is the only one of
its session, that its session was not reported yet and that the row already has
the status it will report (`ClosedInv`). It rests on the conditional finishing
write: of several teardowns only one finds the row in flight.

`OneClaimHolderHolds` needs that the stamps of all resets in flight on a row
differ and are no later than the row's (`ClaimInv`); a new claim is later than
all of them because every status change raises the stamp.

`SweepsOnlyManage` shows that the composed system implements `ManagerSpec`. Its
invariant says what a plan made earlier still knows: a row to be forgotten is
finished or gone, a sandbox to be destroyed has a row that was deleted and will
not come back, a recovery has a real fence. The theorems above then carry over
to the system with sweeps, crashes and shutdowns (`SystemCapacity`,
`SystemLifecycle`, `SystemClosedOnce`, `SystemOneClaimHolder`), and
`SystemTypeCorrect` adds the reaper's own state.

`ActiveSinceHolds`, `StartedHolds` and `SandboxHolds` are about what a call does
long after it was begun, in the composed system. They need to know what a call in
flight may still assume of its row (`CallInv`, in `SessionCallsProofs`), and what a
sweep's plan carries from its listing into the call it begins (`PlanOK`, in
`SessionReaperProofs`):
  - A teardown that has yet to claim carries its fence, or its session is past
    saving: an idle expiry the activity that was listed, the expiry of a start
    presumed dead the stamp of the creation (`Fenced`). The first is a real
    activity and the second is 1, which no row has once it left CREATING.
  - A call that discards, destroys or reclaims has a row that is being torn down,
    finished or gone, and no row comes back from there (`TornStays`).
  - A start that builds, or that failed, has its row still in CREATING or being
    torn down, and there is one start to a session (`OneStart`): an id is drawn
    once. So what a failed start cleans up is never an ACTIVE session's.

`StepWrites` says who may write ACTIVE and EXPIRING at all; `ClaimFenced` and
`SandboxRemoved` then read the three properties off the one step that matters.

The theorems on the learning record assume `AttemptsAssumption`: finitely many
attempts, one subject per session, one process per call. They hold for any
number of sessions, calls, processes and concurrent sweeps, but for the last one,
which is about a single process.

`AttemptsTypeCorrect` adds that a call at an await that uses a session or an
attempt has one. As for sessions, two lemmas carry the rest: the tables change
only by a creation, a check, a bind or a closing (`TableStep`), and a session
only along the lifecycle with a larger stamp (`SessionStep`).

`VerdictHolds` needs that the stamps under which a check has read lie between
the one it started from and the session's present one (`VerdictInv`); the
read-back of an equal stamp then leaves a single one.

`ProgressHolds` is inductive over `TableStep`, with cardinalities; it needs that
an attempt has a subject once it is created. `PassKeptHolds` follows from
`TableStep`.

`EndedHolds` and `LiveKeptHolds` need what the close event and a sweep in flight
remember (`MemoryInv`): an event names the status of a session that does not
change again but to be forgotten; no attempt is bound to a session that was never
admitted, and at most one call will bind it; an attempt in a sweep's hands is
past its bind, and its session was on the sweep's list or holds no sandbox.

`PassRecordedHolds` is the one theorem with a hypothesis of its own, that all
calls run in one process (`SameProcess`): the set `checksInFlight` is kept per
process, and with two of them the second bind may be refused with its pass
unrecorded. Its invariant, `RecordInv`, says that no two calls of a session would
both bind an attempt to it: there is one start to a session, a start that has not
built yet excludes checks because its session is not ACTIVE, and checks exclude
each other. So a check that found no attempt still finds none when it binds.

The theorems on the terminal assume `GatewayAssumption` and `BrokerAssumption`:
finitely many sockets, reattaches and sessions, positive ceilings, a connection
is a socket's or a reattach's. They hold for any number of each. One inductive
invariant, `TerminalInv` (stated in `TerminalAttachProofs`, with the lemmas on
the steps of an attach), carries `TerminalTypes`, `ShellsFound`, `EndIsFinal`,
`NoOrphanAttached`, `CredentialsKept` and `OneKeptWaiting`; none of them is
inductive alone. Its parts:
  - `TurnInv`: an attach or reattach in flight is the first of its session's
    queue. So a session has at most one, and what it finds in the maps after an
    await no other attach has changed.
  - `WaitInv`: an open browser that waits is the one `waitingAttaches` names.
  - `ShellInv`: a session's entry and its shell name each other, and while a
    socket's attach is in flight its session has no shell: admission closed it.
  - `EndInv`: after terminate there is no shell, and no attach past its grant
    holds the claim, so that one that comes back from an await finds it lost;
    the session of a local shell, or of a process that outlived one, has its
    owner remembered.
  - `DiskInv`: which steps of an attach have files and a directory, and that a
    removal in the background is never of a shell's files. A directory counts as
    there (`Dirs`) also for a Docker session that is ended: from then on the API
    may remove it under an attach or a shell the terminate has not reached, and
    that is the one exception `CredentialsFollowShell` makes.
  - `LinkInv`: a shell's connection is its socket's or that of a finished
    reattach, and while a reattach dials, the shell it replaces is detached.
  - `BrokerInv`: `bySessionId` of the broker and its PTYs name each other, and a
    connection in use has asked for a session.

`GatewayCapacity` and `BrokerCapacity` need counting, and `TerminalProofs` says
for every action what it may do to the slots: at the gateway it takes none,
turns an attach in flight into a shell, or admits an attach in place of its
session's shell (`SlotStep`); at the broker the sessions served grow only below
the ceiling, by one (`ServedStep`). From them follows
`CapacityInv`: registered shells and attaches in flight together are within the
gateway's ceiling, and the sessions with a PTY or an inspection within the
broker's. The second is stated of sessions because a replacing attach is
inspected without a slot, so that PTYs and inspections together may pass the
ceiling; the PTYs alone do not, having one session each.

`OutputFlowProofs` assumes `FlowAssumption`: positive limits in their order, as
`resolveOutputFlowOptions` enforces, and any window, slack and number of
replacements. `BacklogIsBounded` needs to know how far a paused flow may still
grow: what a queue holds and what may still arrive late are together no more than
the high-water mark, the chunk that passed it and the slack, as long as the hop
was not rewired over a full socket. `PausedIsPolled` is the safety half of
`NoStall`: whenever a source is not read, its flow is paused and polls.

`BillingProofs` assumes `BillingAssumption` (events are well formed, a reported
period has begun and ends after it starts) and `OperatorAssumption` (an
operator's request has a known kind and instants). The theorems hold for any number of
accounts, customers, subscriptions, events and processes, any leeway and grace
and any length of trials. `AccessIsPaid` is the main one. Its invariant, `PaidInv`, speaks of
every instant from now on instead of now alone: what the stored subscriptions
pay for at t and what billing's row covers at t are the same, for all t from now.
Time passing then preserves it, and a transaction re-establishes it because the
row it writes follows from the subscriptions as they are when it writes
(`Put`). It rests on `SubsInv` (a stored subscription's period has begun and has
a length), on `RowsInv` (so has a row's window) and on `TxInv`: from one
statement to the next a transaction's event stays unsettled, its customer is the
account's or is about to become so, and no two transactions hold the same event
or insert the same customer. `NewestIsStored` and `SubscriptionsOwned` rest on
the WHERE of `putSubscription` (`PutSubscription`): `Check` saw the subscription
before, and the account's lock does not order transactions of two accounts.
`SuspensionsStand` and `TrialsOnce` compare the rows before and after each step
(`AccountRules`); only the operator's plans and `PlanSync` matter. `OneTrial` is
about the window of a trial and not about whether it covers now, so that an
expired trial cannot be started again either; the exception it makes is a grant
that extends an operator's trial, which the command allows unless it was revoked.

Only model-checked: the liveness properties, because the prover has no fairness.
Every safety property of the passing runs is proved, `PassIsRecorded` under the
hypothesis it needs.

## What is not modelled, and why

The modules cover the code whose correctness depends on order: who may write a
row, register a shell, hold a lock or a slot, and what is left when one of them
fails. That is about a fifteenth of the repository's lines. Most of the rest has
little state of its own, and a model of it would repeat the code:

  - The web client, its pages and components: rendering and local state. Its
    requests, in any order, are the environment of the models.
  - The lab catalog (`requirements.ts`, `lab-definition.ts`,
    `catalog-validation.ts`) and the verifier's handlers: shape checks of YAML and
    of a sandbox's objects, without state of their own.
  - Substrate clients, manifest generators, probes (`k8s/`, `docker/`,
    `session/network-policy.ts`): I/O and text. What the manager can observe of
    them, partial failures included, is in the providers' outcomes.
  - Configuration, metrics, logs, health: read once, or without effect.

Left for later, in the order of what it would add: the browser sign-ins and
their revocation (`auth/`), and the steps inside the container provider's
creation and removal.
