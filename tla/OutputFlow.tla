------------------------------ MODULE OutputFlow ------------------------------
(***************************************************************************)
(* The stream of one terminal: keystrokes from the browser through the     *)
(* gateway and the broker to the shell, and its output back.               *)
(*                                                                         *)
(*   browser -> 1 gateway -> 2 broker -> shell -> 3 broker -> 4 gateway    *)
(*                                                                         *)
(* Each of the four hops has a flow (createOutputFlow): what it has passed *)
(* on and is still held in the process is its queue, what it reads from is *)
(* its source.  A chunk is one frame, or one read of the PTY.              *)
(***************************************************************************)
EXTENDS Naturals

CONSTANTS
  Low, High, Hard,   \* the three limits, counted in chunks
  Window,            \* chunks a connection or a PTY holds outside the processes
  Slack,             \* chunks of a source that were already read when it is paused
  MaxReplaced        \* how often a reset replaces the shell

Hops == 1..4

ASSUME FlowAssumption ==
  /\ Low \in Nat /\ High \in Nat /\ Hard \in Nat
  /\ 0 < Low /\ Low <= High /\ High < Hard
  /\ Window \in Nat \ {0}
  /\ Slack \in [Hops -> Nat]
  /\ MaxReplaced \in Nat

VARIABLES
  inbox,       \* what a hop's source holds for it to read
  queue,       \* what it sent and was not taken: bufferedAmount or the PTY's write queue
  paused,      \* the flow's own flag
  polling,     \* its interval timer runs
  stopped,     \* its source is not read
  late,        \* chunks that still arrive although the source is paused
  overflowed,  \* the hops whose flow reported an overflow
  browser,     \* here, or gone
  gateway,     \* open, replacing (the old shell is killed, the next not wired), over
  broker,      \* open, over
  link,        \* the gateway's connection to the broker: open, closing, destroyed
  replaced

flows == <<paused, polling, stopped, late>>
ends == <<overflowed, gateway, broker, link>>
vars == <<inbox, queue, flows, ends, browser, replaced>>

TypeOK ==
  /\ inbox \in [Hops -> 0..Window]
  /\ queue \in [Hops -> Nat]
  /\ paused \in [Hops -> BOOLEAN] /\ polling \in [Hops -> BOOLEAN]
  /\ stopped \in [Hops -> BOOLEAN]
  /\ late \in [Hops -> Nat]
  /\ overflowed \subseteq Hops
  /\ browser \in {"here", "gone"}
  /\ gateway \in {"open", "replacing", "over"}
  /\ broker \in {"open", "over"}
  /\ link \in {"open", "closing", "destroyed"}
  /\ replaced \in 0..MaxReplaced

Init ==
  /\ inbox = [h \in Hops |-> 0] /\ queue = [h \in Hops |-> 0]
  /\ paused = [h \in Hops |-> FALSE] /\ polling = [h \in Hops |-> FALSE]
  /\ stopped = [h \in Hops |-> FALSE]
  /\ late = [h \in Hops |-> 0]
  /\ overflowed = {}
  /\ browser = "here" /\ gateway = "open" /\ broker = "open" /\ link = "open"
  /\ replaced = 0
-----------------------------------------------------------------------------
AtGateway(h) == h \in {1, 4}

\* The flow is not disposed: its session or its shell is still registered.
Live(h) == IF AtGateway(h) THEN gateway # "over" ELSE broker = "open"

\* endSession: both flows are disposed, the shell killed, its connection closing.
GatewayEnds ==
  /\ gateway' = "over"
  /\ link' = IF link = "open" THEN "closing" ELSE link

\* onOverflow: this one connection is ended and its socket terminated.
Overflow(h) ==
  /\ overflowed' = overflowed \cup {h}
  /\ \/ AtGateway(h) /\ GatewayEnds /\ UNCHANGED broker
     \/ ~AtGateway(h) /\ broker' = "over" /\ link' = "destroyed" /\ UNCHANGED gateway
  /\ UNCHANGED flows

Pause(h) ==
  /\ paused' = [paused EXCEPT ![h] = TRUE]
  /\ polling' = [polling EXCEPT ![h] = TRUE]
  /\ stopped' = [stopped EXCEPT ![h] = TRUE]
  /\ late' = [late EXCEPT ![h] = Slack[h]]
  /\ UNCHANGED ends

AfterSendUnlimited(h, held) ==
  IF paused[h] \/ held <= High THEN UNCHANGED <<paused, polling, stopped, ends>>
                                   /\ late' = [late EXCEPT ![h] = IF @ > 0 THEN @ - 1 ELSE 0]
  ELSE Pause(h)

\* afterSend, where the queue now holds this much.
AfterSend(h, held) ==
  IF held > Hard THEN Overflow(h)
  ELSE IF paused[h] \/ held <= High
       THEN UNCHANGED <<paused, polling, stopped, ends>>
            /\ late' = [late EXCEPT ![h] = IF @ > 0 THEN @ - 1 ELSE 0]
  ELSE Pause(h)

(***************************************************************************)
(* A hop reads a chunk and passes it on.  While the shell is being         *)
(* replaced the gateway writes to a connection that is not open, which     *)
(* drops the keystrokes, and nobody listens to the old shell's output.     *)
(***************************************************************************)
Relay(h) ==
  LET held == IF h = 1 /\ gateway = "replacing" THEN queue[h] ELSE queue[h] + 1
  IN  /\ Live(h) /\ inbox[h] > 0
      /\ ~stopped[h] \/ late[h] > 0
      /\ inbox' = [inbox EXCEPT ![h] = @ - 1]
      /\ queue' = [queue EXCEPT ![h] = held]
      /\ AfterSend(h, held)
      /\ UNCHANGED <<browser, replaced>>

\* poll: afterSend saw every increase of the queue, so its own look at the
\* hard limit finds nothing new.
Poll(h) ==
  /\ Live(h) /\ polling[h]
  /\ IF queue[h] > Hard THEN Overflow(h)
     ELSE /\ queue[h] <= Low
          /\ polling' = [polling EXCEPT ![h] = FALSE]
          /\ paused' = [paused EXCEPT ![h] = FALSE]
          /\ stopped' = [stopped EXCEPT ![h] = FALSE]
          /\ late' = [late EXCEPT ![h] = 0]
          /\ UNCHANGED ends
  /\ UNCHANGED <<inbox, queue, browser, replaced>>
-----------------------------------------------------------------------------
(***************************************************************************)
(* What the connections, the PTY, the browser and the program do.  These   *)
(* are external.                                                           *)
(***************************************************************************)
Transfer(h) ==
  /\ queue[h] > 0 /\ inbox[h + 1] < Window
  /\ queue' = [queue EXCEPT ![h] = @ - 1]
  /\ inbox' = [inbox EXCEPT ![h + 1] = @ + 1]
  /\ UNCHANGED <<flows, ends, browser, replaced>>

\* Between the gateway and the broker.  A closing connection still sends
\* what it holds, the close frame last.
Forward(h) ==
  /\ \/ h = 1 /\ link \in {"open", "closing"}
     \/ h = 3 /\ link = "open"
  /\ gateway # "replacing"
  /\ Transfer(h)

\* The program reads a keystroke and echoes it: it blocks while nobody
\* reads its terminal.
ShellReads == broker = "open" /\ Transfer(2)

\* It writes without being asked, as `yes` does.
ShellWrites ==
  /\ broker = "open" /\ gateway # "replacing" /\ inbox[3] < Window
  /\ inbox' = [inbox EXCEPT ![3] = @ + 1]
  /\ UNCHANGED <<queue, flows, ends, browser, replaced>>

Type ==
  /\ browser = "here" /\ gateway # "over" /\ inbox[1] < Window
  /\ inbox' = [inbox EXCEPT ![1] = @ + 1]
  /\ UNCHANGED <<queue, flows, ends, browser, replaced>>

Show ==
  /\ browser = "here" /\ gateway # "over" /\ queue[4] > 0
  /\ queue' = [queue EXCEPT ![4] = @ - 1]
  /\ UNCHANGED <<inbox, flows, ends, browser, replaced>>

Leave ==
  /\ browser = "here" /\ browser' = "gone"
  /\ UNCHANGED <<inbox, queue, flows, ends, replaced>>
-----------------------------------------------------------------------------
Reset(f, hops, value) == [h \in Hops |-> IF h \in hops THEN value ELSE f[h]]

(***************************************************************************)
(* reattachSession: the old shell is killed and its listeners taken away.  *)
(* What was under way beyond the gateway is lost with it; what the         *)
(* gateway's connection still held stays in its bufferedAmount.            *)
(***************************************************************************)
Detach ==
  /\ gateway = "open" /\ broker = "open" /\ browser = "here" /\ replaced < MaxReplaced
  /\ gateway' = "replacing"
  /\ replaced' = replaced + 1
  /\ inbox' = Reset(inbox, {2, 3, 4}, 0)
  /\ queue' = Reset(queue, {2, 3}, 0)
  /\ paused' = Reset(paused, {2, 3}, FALSE)
  /\ polling' = Reset(polling, {2, 3}, FALSE)
  /\ stopped' = Reset(stopped, {2, 3}, FALSE)
  /\ late' = Reset(late, {2, 3}, 0)
  /\ UNCHANGED <<overflowed, broker, link, browser>>

RewirePaused ==
  /\ gateway = "replacing"
  /\ gateway' = "open"
  /\ queue' = [queue EXCEPT ![1] = 0]
  /\ paused' = Reset(paused, {1, 4}, FALSE)
  /\ polling' = Reset(polling, {1, 4}, FALSE)
  /\ stopped' = [stopped EXCEPT ![4] = FALSE]
  /\ late' = Reset(late, {1, 4}, 0)
  /\ UNCHANGED <<inbox, overflowed, broker, link, browser, replaced>>

\* wireShell for the next shell: fresh flows, and the pause the old input
\* flow left on the browser's socket is lifted.
Rewire ==
  /\ gateway = "replacing"
  /\ gateway' = "open"
  /\ queue' = [queue EXCEPT ![1] = 0]
  /\ paused' = Reset(paused, {1, 4}, FALSE)
  /\ polling' = Reset(polling, {1, 4}, FALSE)
  /\ stopped' = Reset(stopped, IF paused[1] THEN {1, 4} ELSE {4}, FALSE)
  /\ late' = Reset(late, {1, 4}, 0)
  /\ UNCHANGED <<inbox, overflowed, broker, link, browser, replaced>>

\* The next shell could not be opened: the session ends.
RewireFails ==
  /\ gateway = "replacing"
  /\ gateway' = "over" /\ broker' = "over" /\ link' = "destroyed"
  /\ UNCHANGED <<inbox, queue, flows, overflowed, browser, replaced>>
-----------------------------------------------------------------------------
ProbesNobody(h) == FALSE

\* pausableSocket pings the peer of a socket it holds paused.
Probes(h) == h \in {1, 2} /\ stopped[h]

\* The end of the stream is read after all that came before it.
ReadsEnd(h) == ~stopped[h] /\ inbox[h] = 0

\* The browser's departure is read, or a write to it fails.
GatewayNotices ==
  /\ browser = "gone" /\ gateway # "over"
  /\ ReadsEnd(1) \/ Probes(1) \/ queue[4] > 0
  /\ IF gateway = "open" THEN GatewayEnds /\ UNCHANGED broker
     ELSE gateway' = "over" /\ broker' = "over" /\ link' = "destroyed"
  /\ UNCHANGED <<inbox, queue, flows, overflowed, browser, replaced>>

\* The broker went away without the gateway asking for it.
GatewayLosesShell ==
  /\ gateway = "open" /\ link = "destroyed" /\ ReadsEnd(4)
  /\ GatewayEnds
  /\ UNCHANGED <<inbox, queue, flows, overflowed, broker, browser, replaced>>

\* The close frame gets no answer in time (BROKER_CLOSE_TIMEOUT_MS).
CloseTimesOut ==
  /\ link = "closing" /\ link' = "destroyed"
  /\ UNCHANGED <<inbox, queue, flows, overflowed, gateway, broker, browser, replaced>>

BrokerNotices ==
  /\ broker = "open"
  /\ \/ link = "closing" /\ ReadsEnd(2) /\ queue[1] = 0
     \/ link = "destroyed" /\ (ReadsEnd(2) \/ Probes(2) \/ queue[3] > 0)
  /\ broker' = "over" /\ link' = "destroyed"
  /\ UNCHANGED <<inbox, queue, flows, overflowed, gateway, browser, replaced>>

Notices == GatewayNotices \/ GatewayLosesShell \/ CloseTimesOut \/ BrokerNotices

Next ==
  \/ \E h \in Hops : Relay(h) \/ Poll(h) \/ Forward(h)
  \/ ShellReads \/ ShellWrites \/ Type \/ Show \/ Leave
  \/ Detach \/ Rewire \/ RewireFails
  \/ Notices

Spec == Init /\ [][Next]_vars

(***************************************************************************)
(* Timers fire, sockets that are read deliver, connections move what they  *)
(* hold, and a reattach answers.  Neither the browser nor the program need *)
(* read or write.                                                          *)
(***************************************************************************)
FairSpec ==
  /\ Spec
  /\ \A h \in Hops : WF_vars(Relay(h)) /\ WF_vars(Poll(h)) /\ WF_vars(Forward(h))
  /\ WF_vars(Rewire \/ RewireFails)
  /\ WF_vars(GatewayNotices) /\ WF_vars(GatewayLosesShell)
  /\ WF_vars(CloseTimesOut) /\ WF_vars(BrokerNotices)
-----------------------------------------------------------------------------
\* Pausing suffices at this hop: what still arrives fits under the hard limit.
Pausable(h) == High + 1 + Slack[h] <= Hard

(***************************************************************************)
(* No process holds more of a stream than the hard limit and the chunk     *)
(* that passed it, and the limit is a backstop only: a hop whose source    *)
(* can be paused in time never ends the connection.  Browser output is the *)
(* exception, for a replaced shell starts unpaused over a full socket.     *)
(***************************************************************************)
BacklogBounded ==
  /\ \A h \in Hops : queue[h] <= Hard + 1
  /\ \A h \in overflowed : ~Pausable(h) \/ (h = 4 /\ replaced > 0)

(***************************************************************************)
(* While the program reads and the browser shows, no source stays unread:  *)
(* the hops do not wait for each other for ever, and a shell replaced      *)
(* under pressure is not left deaf.                                        *)
(***************************************************************************)
NoStall ==
  (SF_vars(ShellReads) /\ WF_vars(Show) /\ []<>(browser = "here"))
    => \A h \in Hops : []<>(~stopped[h] \/ ~Live(h))

(***************************************************************************)
(* A browser that leaves gives up the shell in the broker, even when both  *)
(* sockets on the way are held unread by a program that never reads.       *)
(***************************************************************************)
LeavingReleases == (browser = "gone") ~> (gateway = "over" /\ broker = "over")
=============================================================================
