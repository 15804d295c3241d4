---------------------------- MODULE SandboxBroker ----------------------------
(***************************************************************************)
(* sandboxd's attach endpoint: one PTY in a container per session, each    *)
(* behind a connection of the terminal gateway.  A connection has two      *)
(* ends that learn of each other's close late, so each end has a state:    *)
(*                                                                         *)
(*   link[c]   the gateway's end: none, dialing (the attach frame is       *)
(*             sent), attached, dropped (closed or destroyed by it)        *)
(*   peer[c]   the broker's end: none, inspecting, gone (inspecting for a  *)
(*             caller known to have left), shell, ended (had a shell),     *)
(*             refused (never had one)                                     *)
(*                                                                         *)
(* Frames of one connection arrive in order, so what the gateway has still *)
(* to read follows from peer[c] and no queue is kept.                      *)
(***************************************************************************)
EXTENDS Naturals, FiniteSets

CONSTANTS Sids,        \* lab sessions
          Conns,       \* connections the gateway may open to the broker
          BrokerMax,   \* config.maxSessions of sandboxd
          None

ASSUME BrokerAssumption ==
  /\ BrokerMax \in Nat \ {0}
  /\ None \notin Sids \cup Conns
  /\ IsFiniteSet(Conns)

VARIABLES link, peer,
          asked,       \* the session id in a connection's attach frame
          brokerShell  \* bySessionId: the connection holding a session's PTY

brokerVars == <<link, peer, asked, brokerShell>>

Links == {"none", "dialing", "attached", "dropped"}
Peers == {"none", "inspecting", "gone", "shell", "ended", "refused"}

BrokerTypeOK ==
  /\ link \in [Conns -> Links]
  /\ peer \in [Conns -> Peers]
  /\ asked \in [Conns -> Sids \cup {None}]
  /\ brokerShell \in [Sids -> Conns \cup {None}]

BrokerInit ==
  /\ link = [c \in Conns |-> "none"]
  /\ peer = [c \in Conns |-> "none"]
  /\ asked = [c \in Conns |-> None]
  /\ brokerShell = [s \in Sids |-> None]

Shells == {c \in Conns : peer[c] = "shell"}

StartingUncounted == {}

\* startingShells: attaches waiting for docker inspect.
Starting == {c \in Conns : peer[c] \in {"inspecting", "gone"}}

(***************************************************************************)
(* openShell up to the await.  A session that holds a shell is replacing   *)
(* it and asks for no slot.                                                *)
(***************************************************************************)
OpenShell(c) ==
  /\ peer[c] = "none" /\ link[c] \in {"dialing", "dropped"}
  /\ LET full == Cardinality(Shells) + Cardinality(Starting) >= BrokerMax
     IN  peer' = [peer EXCEPT ![c] = IF brokerShell[asked[c]] = None /\ full
                                     THEN "refused" ELSE "inspecting"]
  /\ UNCHANGED <<link, asked, brokerShell>>

\* resolveAttachTarget refuses: no such container, not this session's, not running.
Deny(c) ==
  /\ peer[c] \in {"inspecting", "gone"}
  /\ peer' = [peer EXCEPT ![c] = "refused"]
  /\ UNCHANGED <<link, asked, brokerShell>>

\* Inspected, but the caller's close was seen meanwhile.
CallerGone(c) ==
  /\ peer[c] = "gone"
  /\ peer' = [peer EXCEPT ![c] = "refused"]
  /\ UNCHANGED <<link, asked, brokerShell>>

(***************************************************************************)
(* Inspected for a caller still there: the session's earlier shell, if     *)
(* any, is ended and its socket closed, then the PTY is spawned, which may *)
(* fail.                                                                   *)
(***************************************************************************)
AttachShell(c) ==
  /\ peer[c] = "inspecting"
  /\ \E spawned \in BOOLEAN :
       /\ peer' = [d \in Conns |->
                     IF d = c THEN IF spawned THEN "shell" ELSE "refused"
                     ELSE IF d = brokerShell[asked[c]] THEN "ended" ELSE peer[d]]
       /\ brokerShell' = [brokerShell EXCEPT ![asked[c]] = IF spawned THEN c ELSE None]
  /\ UNCHANGED <<link, asked>>

EndShell(c) ==
  /\ peer[c] = "shell"
  /\ peer' = [peer EXCEPT ![c] = "ended"]
  /\ brokerShell' = [brokerShell EXCEPT ![asked[c]] = IF @ = c THEN None ELSE @]
  /\ UNCHANGED <<link, asked>>

\* The PTY exits, a broker timer fires, or a backlog passes its hard limit.
ShellEnds(c) == EndShell(c)

\* The gateway's close reaches the broker.
SocketClosed(c) ==
  /\ link[c] = "dropped"
  /\ \/ EndShell(c)
     \/ /\ peer[c] \in {"none", "inspecting"}
        /\ peer' = [peer EXCEPT ![c] = IF @ = "none" THEN "refused" ELSE "gone"]
        /\ UNCHANGED <<link, asked, brokerShell>>

BrokerStep(c) ==
  \/ OpenShell(c) \/ Deny(c) \/ CallerGone(c) \/ AttachShell(c)
  \/ ShellEnds(c) \/ SocketClosed(c)
=============================================================================
