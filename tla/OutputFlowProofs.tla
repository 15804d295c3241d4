--------------------------- MODULE OutputFlowProofs ---------------------------
(***************************************************************************)
(* For all limits, windows and slacks: the backlog of every hop is         *)
(* bounded, the hard limit is a backstop, and no flow stops its source     *)
(* without a timer that will look again.                                   *)
(***************************************************************************)
EXTENDS OutputFlow, TLAPS

USE FlowAssumption DEF Hops

\* A flow's flag, its timer and its source agree.
Agrees(h) == paused[h] = polling[h] /\ paused[h] = stopped[h]

\* A hop that a pause can bound: all but the browser's output once the
\* shell was replaced.
Steady(h) == h # 4 \/ replaced = 0

Held(h) ==
  /\ queue[h] <= Hard + 1
  /\ Live(h) => queue[h] <= Hard
  /\ late[h] <= Slack[h]
  /\ ~paused[h] => late[h] = 0
  /\ Live(h) /\ Steady(h) =>
       /\ ~paused[h] => queue[h] <= High
       /\ paused[h] => queue[h] + late[h] <= High + 1 + Slack[h]

(***************************************************************************)
(* The inductive invariant: what a paused hop holds and what may still     *)
(* arrive stay within the slack, and an overflow ended its connection.     *)
(***************************************************************************)
FlowInv ==
  /\ TypeOK
  /\ \A h \in Hops : Agrees(h) /\ Held(h)
  /\ \A h \in overflowed : ~Live(h) /\ (~Pausable(h) \/ (h = 4 /\ replaced > 0))
  /\ gateway = "replacing" => replaced > 0

\* A source that is not read has a timer that looks at the queue again.
StoppedIsPolled == \A h \in Hops : stopped[h] => polling[h] /\ paused[h]
-----------------------------------------------------------------------------
\* Nothing has been read at first.
LEMMA FlowInit == Init => FlowInv
  BY DEF Init, FlowInv, TypeOK, Agrees, Held, Live, AtGateway, Steady

\* A hop reads, sends and pauses its source past the high-water mark.
LEMMA FlowRelay == ASSUME FlowInv, NEW h \in Hops, Relay(h) PROVE FlowInv'
<1> DEFINE held == IF h = 1 /\ gateway = "replacing" THEN queue[h] ELSE queue[h] + 1
<1>1. /\ Live(h) /\ inbox[h] > 0 /\ (~stopped[h] \/ late[h] > 0)
      /\ inbox' = [inbox EXCEPT ![h] = @ - 1]
      /\ queue' = [queue EXCEPT ![h] = held]
      /\ AfterSend(h, held)
      /\ browser' = browser /\ replaced' = replaced
  BY DEF Relay
<1>2. held \in Nat /\ held <= queue[h] + 1
  BY DEF FlowInv, TypeOK
<1>3. held <= Hard + 1
  BY <1>1, <1>2 DEF FlowInv, Held, TypeOK
<1>4. inbox' \in [Hops -> 0..Window] /\ queue' \in [Hops -> Nat]
  BY <1>1, <1>2 DEF FlowInv, TypeOK
<1> HIDE DEF held
<1>5. CASE held > Hard
  <2>1. Overflow(h)
    BY <1>1, <1>5 DEF AfterSend
  <2>2. ~Live(h)' /\ \A g \in Hops : Live(g)' => Live(g)
    BY <2>1 DEF Overflow, Live, GatewayEnds, AtGateway
  <2>3. ~Pausable(h) \/ (h = 4 /\ replaced > 0)
    BY <1>1, <1>2, <1>5 DEF FlowInv, TypeOK, Held, Agrees, Steady, Pausable
  <2>4. TypeOK'
    BY <1>1, <1>4, <2>1 DEF Overflow, GatewayEnds, AtGateway, FlowInv, TypeOK, flows
  <2>5. \A g \in Hops : Agrees(g)'
    BY <2>1 DEF Overflow, flows, FlowInv, Agrees
  <2>6. \A g \in Hops : Held(g)'
    BY <1>1, <1>2, <1>3, <1>4, <2>1, <2>2 DEF Overflow, flows, FlowInv, TypeOK, Held, Steady
  <2>7. \A g \in overflowed' : ~Live(g)' /\ (~Pausable(g) \/ (g = 4 /\ replaced' > 0))
    BY <1>1, <2>1, <2>2, <2>3 DEF Overflow, FlowInv, TypeOK
  <2>8. gateway' = "replacing" => replaced' > 0
    BY <1>1, <2>1 DEF Overflow, GatewayEnds, FlowInv
  <2> QED BY <2>4, <2>5, <2>6, <2>7, <2>8 DEF FlowInv, Pausable
<1>6. CASE held <= Hard /\ (paused[h] \/ held <= High)
  <2>1. /\ UNCHANGED <<paused, polling, stopped, ends>>
        /\ late' = [late EXCEPT ![h] = IF @ > 0 THEN @ - 1 ELSE 0]
    BY <1>1, <1>2, <1>6 DEF AfterSend
  <2>2. TypeOK'
    BY <1>1, <1>4, <2>1 DEF FlowInv, TypeOK, ends
  <2>3. \A g \in Hops : Live(g)' = Live(g) /\ Agrees(g)'
    BY <2>1 DEF FlowInv, Live, ends, Agrees
  <2>4. \A g \in Hops : Held(g)'
    <3> TAKE g \in Hops
    <3>1. CASE g = h
      BY <1>1, <1>2, <1>4, <1>6, <2>1, <2>2, <2>3, <3>1 DEF FlowInv, TypeOK, Held, Agrees, Steady
    <3>2. CASE g # h
      BY <1>1, <2>1, <2>3, <3>2 DEF FlowInv, TypeOK, Held, Steady
    <3> QED BY <3>1, <3>2
  <2> QED BY <1>1, <2>1, <2>2, <2>3, <2>4 DEF FlowInv, ends, Pausable, TypeOK
<1>7. CASE held <= Hard /\ ~paused[h] /\ held > High
  <2>1. Pause(h)
    BY <1>1, <1>2, <1>7 DEF AfterSend
  <2>2. TypeOK'
    BY <1>1, <1>4, <2>1 DEF Pause, FlowInv, TypeOK, ends
  <2>3. \A g \in Hops : Live(g)' = Live(g) /\ Agrees(g)'
    BY <2>1 DEF Pause, FlowInv, Live, ends, Agrees, TypeOK
  <2>4. \A g \in Hops : Held(g)'
    <3> TAKE g \in Hops
    <3>1. CASE g = h
      BY <1>1, <1>2, <1>4, <1>7, <2>1, <2>2, <2>3, <3>1 DEF Pause, FlowInv, TypeOK, Held, Agrees, Steady
    <3>2. CASE g # h
      BY <1>1, <2>1, <2>3, <3>2 DEF Pause, FlowInv, TypeOK, Held, Steady
    <3> QED BY <3>1, <3>2
  <2> QED BY <1>1, <2>1, <2>2, <2>3, <2>4 DEF Pause, FlowInv, ends, Pausable, TypeOK
<1> QED BY <1>2, <1>5, <1>6, <1>7 DEF FlowInv, TypeOK

\* A paused flow polls, and resumes below the low-water mark.
LEMMA FlowPoll == ASSUME FlowInv, NEW h \in Hops, Poll(h) PROVE FlowInv'
<1>1. queue[h] <= Low
  BY DEF Poll, FlowInv, Held, TypeOK
<1>2. /\ polling' = [polling EXCEPT ![h] = FALSE]
      /\ paused' = [paused EXCEPT ![h] = FALSE]
      /\ stopped' = [stopped EXCEPT ![h] = FALSE]
      /\ late' = [late EXCEPT ![h] = 0]
      /\ UNCHANGED <<ends, inbox, queue, browser, replaced>>
  BY <1>1 DEF Poll, FlowInv, TypeOK
<1>3. TypeOK'
  BY <1>2 DEF FlowInv, TypeOK, ends
<1>4. \A g \in Hops : Live(g)' = Live(g) /\ Agrees(g)'
  BY <1>2 DEF FlowInv, TypeOK, Live, ends, Agrees
<1>5. \A g \in Hops : Held(g)'
  BY <1>1, <1>2, <1>3, <1>4 DEF FlowInv, TypeOK, Held, Steady
<1> QED BY <1>2, <1>3, <1>4, <1>5 DEF FlowInv, ends, Pausable, TypeOK

\* What one hop sent arrives at the next.
LEMMA FlowTransfer == ASSUME FlowInv, NEW h \in 1..3, Transfer(h) PROVE FlowInv'
<1>1. TypeOK'
  BY DEF Transfer, FlowInv, TypeOK, flows, ends
<1>2. \A g \in Hops : Live(g)' = Live(g) /\ Agrees(g)' /\ queue'[g] <= queue[g]
  BY DEF Transfer, FlowInv, TypeOK, Live, flows, ends, Agrees
<1>3. \A g \in Hops : Held(g)'
  BY <1>1, <1>2 DEF Transfer, flows, FlowInv, TypeOK, Held, Steady
<1> QED BY <1>1, <1>2, <1>3 DEF Transfer, FlowInv, ends, Pausable, TypeOK

\* Steps that leave the queues and the flows alone and only end things.
LEMMA FlowEnds ==
  ASSUME FlowInv, UNCHANGED <<queue, flows, overflowed, replaced>>, TypeOK',
         gateway' = "replacing" => gateway = "replacing",
         \A h \in Hops : Live(h)' => Live(h)
  PROVE  FlowInv'
<1>1. \A h \in Hops : Agrees(h)' /\ Held(h)'
  BY DEF FlowInv, TypeOK, flows, Agrees, Held, Steady
<1> QED BY <1>1 DEF FlowInv, TypeOK, Pausable

\* Every step keeps the invariant.
LEMMA FlowNext == FlowInv /\ [Next]_vars => FlowInv'
<1> SUFFICES ASSUME FlowInv, [Next]_vars PROVE FlowInv'
  OBVIOUS
<1>1. ASSUME NEW h \in Hops, Relay(h) \/ Poll(h) \/ Forward(h) PROVE FlowInv'
  BY <1>1, FlowRelay, FlowPoll, FlowTransfer DEF Forward
<1>2. CASE ShellReads
  BY <1>2, FlowTransfer DEF ShellReads
<1>3. CASE ShellWrites \/ Type \/ Leave
  <2>1. TypeOK' /\ UNCHANGED <<queue, flows, ends, replaced>>
    <3>1. inbox' \in [Hops -> 0..Window]
      BY <1>3 DEF ShellWrites, Type, Leave, FlowInv, TypeOK
    <3>2. browser' \in {"here", "gone"} /\ UNCHANGED <<queue, flows, ends, replaced>>
      BY <1>3 DEF ShellWrites, Type, Leave, FlowInv, TypeOK
    <3> QED BY <3>1, <3>2 DEF FlowInv, TypeOK, flows, ends
  <2> QED BY <2>1, FlowEnds DEF Live, ends
<1>4. CASE Show
  <2>1. TypeOK'
    BY <1>4 DEF Show, FlowInv, TypeOK, flows, ends
  <2>2. \A g \in Hops : Live(g)' = Live(g) /\ Agrees(g)' /\ queue'[g] <= queue[g]
    BY <1>4 DEF Show, FlowInv, TypeOK, Live, flows, ends, Agrees
  <2>3. \A g \in Hops : Held(g)'
    BY <1>4, <2>1, <2>2 DEF Show, flows, FlowInv, TypeOK, Held, Steady
  <2> QED BY <1>4, <2>1, <2>2, <2>3 DEF Show, FlowInv, ends, Pausable, TypeOK
<1>5. CASE Detach
  <2>1. TypeOK'
    <3>1. inbox' \in [Hops -> 0..Window] /\ queue' \in [Hops -> Nat] /\ late' \in [Hops -> Nat]
      BY <1>5 DEF Detach, Reset, FlowInv, TypeOK
    <3>2. /\ paused' \in [Hops -> BOOLEAN] /\ polling' \in [Hops -> BOOLEAN]
          /\ stopped' \in [Hops -> BOOLEAN]
      BY <1>5 DEF Detach, Reset, FlowInv, TypeOK
    <3> QED BY <1>5, <3>1, <3>2 DEF Detach, Reset, FlowInv, TypeOK
  <2>2. \A g \in Hops : Live(g) /\ Agrees(g)'
    BY <1>5 DEF Detach, Reset, FlowInv, TypeOK, Live, AtGateway, Agrees
  <2>3. \A g \in Hops : Held(g)'
    <3> TAKE g \in Hops
    <3>1. IF g \in {2, 3} THEN queue'[g] = 0 /\ late'[g] = 0 /\ ~paused'[g]
          ELSE queue'[g] = queue[g] /\ late'[g] = late[g] /\ paused'[g] = paused[g]
      BY <1>5 DEF Detach, Reset
    <3>2. replaced' > 0
      BY <1>5 DEF Detach, Reset, FlowInv, TypeOK
    <3>3. Held(g)
      BY DEF FlowInv
    <3> QED BY <2>1, <2>2, <3>1, <3>2, <3>3 DEF FlowInv, TypeOK, Held, Steady
  <2> QED BY <1>5, <2>1, <2>2, <2>3 DEF Detach, Reset, FlowInv, TypeOK
<1>6. CASE Rewire
  <2>1. TypeOK'
    BY <1>6 DEF Rewire, Reset, FlowInv, TypeOK
  <2>2. \A g \in Hops : Live(g)' = Live(g) /\ Agrees(g)'
    BY <1>6 DEF Rewire, Reset, FlowInv, TypeOK, Live, AtGateway, Agrees
  <2>3. \A g \in Hops : Held(g)'
    <3> TAKE g \in Hops
    <3>1. /\ queue'[g] = IF g = 1 THEN 0 ELSE queue[g]
          /\ replaced' = replaced
      BY <1>6 DEF Rewire, FlowInv, TypeOK
    <3>2. IF g \in {1, 4} THEN late'[g] = 0 /\ ~paused'[g]
          ELSE late'[g] = late[g] /\ paused'[g] = paused[g]
      BY <1>6 DEF Rewire, Reset
    <3>3. Held(g) /\ replaced > 0
      BY <1>6 DEF FlowInv, Rewire
    <3> QED BY <2>1, <2>2, <3>1, <3>2, <3>3 DEF FlowInv, TypeOK, Held, Steady
  <2> QED BY <1>6, <2>1, <2>2, <2>3 DEF Rewire, Reset, FlowInv, TypeOK, Pausable
<1>7. CASE RewireFails \/ Notices
  <2>1. UNCHANGED <<queue, flows, overflowed, replaced>> /\ TypeOK'
    BY <1>7 DEF RewireFails, Notices, GatewayNotices, GatewayLosesShell, CloseTimesOut,
                BrokerNotices, GatewayEnds, FlowInv, TypeOK, flows
  <2>2. /\ gateway' = "replacing" => gateway = "replacing"
        /\ \A h \in Hops : Live(h)' => Live(h)
    BY <1>7 DEF RewireFails, Notices, GatewayNotices, GatewayLosesShell, CloseTimesOut,
                BrokerNotices, GatewayEnds, Live
  <2> QED BY <2>1, <2>2, FlowEnds
<1>8. CASE UNCHANGED vars
  BY <1>8 DEF vars, flows, ends, FlowInv, TypeOK, Agrees, Held, Live, Steady, Pausable
<1> QED BY <1>1, <1>2, <1>3, <1>4, <1>5, <1>6, <1>7, <1>8 DEF Next
-----------------------------------------------------------------------------
\* The invariant always holds.
LEMMA FlowInvariant == Spec => []FlowInv
  BY FlowInit, FlowNext, PTL DEF Spec

\* createOutputFlow and wireShell keep their types: no count goes below zero.
THEOREM FlowTyped == Spec => []TypeOK
<1>1. FlowInv => TypeOK
  BY DEF FlowInv
<1> QED BY <1>1, FlowInvariant, PTL

\* afterSend bounds every hop's backlog by the hard limit and one chunk, and
\* ends only a connection that pausing could not bound.
THEOREM BacklogIsBounded == Spec => []BacklogBounded
<1>1. FlowInv => BacklogBounded
  BY DEF FlowInv, Held, BacklogBounded, TypeOK
<1> QED BY <1>1, FlowInvariant, PTL

\* afterSend, poll and wireShell never leave a source unread without a
\* timer: the safety half of NoStall.
THEOREM PausedIsPolled == Spec => []StoppedIsPolled
<1>1. FlowInv => StoppedIsPolled
  BY DEF FlowInv, Agrees, StoppedIsPolled, TypeOK
<1> QED BY <1>1, FlowInvariant, PTL
=============================================================================
