--------------------------- MODULE TerminalGateway ---------------------------
(***************************************************************************)
(* The terminal service: browser sockets, the shells behind them and what  *)
(* a session leaves on its disk.  It runs on one thread, so an action is   *)
(* the code between two awaits or one event handler, and anything may      *)
(* happen in between: another socket, a Reset, an End, a tab closed.       *)
(*                                                                         *)
(* A socket attaches at most once, so it also names its attach, the claim  *)
(* symbol of that attach, the credential files it writes (each attach has  *)
(* a nonce of its own) and the broker connection it dials.  A reattach     *)
(* dials a connection of its own.                                          *)
(***************************************************************************)
EXTENDS SandboxBroker, Sequences

CONSTANTS Sockets, Reattaches,
          Containers,   \* the sessions whose shell is in a container, behind the broker
          Workspaces,   \* the Docker sessions, whose directory the API seeds and removes
          MaxSessions   \* config.maxSessions of the terminal service

ASSUME GatewayAssumption ==
  /\ MaxSessions \in Nat \ {0}
  /\ Conns = Sockets \cup Reattaches
  /\ Sockets \cap Reattaches = {}
  /\ Containers \subseteq Sids /\ Workspaces \subseteq Sids \ Containers
  /\ IsFiniteSet(Sockets) /\ IsFiniteSet(Sids)

VARIABLES
  active,     \* sessions the API still serves a terminal binding for
  socket,     \* readyState of each browser socket
  sid,        \* claims.sid of the token a socket or reattach came with
  pc,         \* where an attach or reattach is
  queue,      \* attachQueues: the turns of a session, the running one first
  waiting,    \* waitingAttaches: the browser attach that may still be replaced
  replaced,   \* attaches replaced while they waited
  claim,      \* attachClaims
  shell,      \* sessions: the connection of a registered socket's shell
  bySession,  \* bySessionId
  target,     \* the socket a reattach works for
  files,      \* credential files written, by the attach that knows their path
  removing,   \* of these, the ones a removal was started for
  home,       \* sessions with a workspace or home directory
  owners,     \* shellOwners
  left,       \* sessions with a process that outlives its shell
  ending      \* the session's terminate call

socketVars == <<socket, waiting, replaced>>
attachVars == <<sid, pc, queue, target>>
shellVars == <<claim, shell, bySession>>
diskVars == <<files, removing, home, owners, left>>
gatewayVars == <<socketVars, attachVars, shellVars, diskVars>>
vars == <<active, ending, gatewayVars, brokerVars>>

ReadyStates == {"connecting", "open", "closing", "closed"}
Steps == {"new", "waiting", "fetch", "granted", "refused", "files", "home",
          "spawn", "dial", "discard", "ready", "over"}

TypeOK ==
  /\ BrokerTypeOK
  /\ active \subseteq Sids
  /\ socket \in [Sockets -> ReadyStates]
  /\ sid \in [Conns -> Sids \cup {None}]
  /\ pc \in [Conns -> Steps]
  /\ queue \in [Sids -> Seq(Conns)]
  /\ waiting \in [Sids -> Sockets \cup {None}]
  /\ replaced \subseteq Sockets
  /\ claim \in [Sids -> Sockets \cup {None}]
  /\ shell \in [Sockets -> Conns \cup {None}]
  /\ bySession \in [Sids -> Sockets \cup {None}]
  /\ target \in [Reattaches -> Sockets \cup {None}]
  /\ removing \subseteq files /\ files \subseteq Sockets
  /\ home \subseteq Sids /\ owners \subseteq Sids /\ left \subseteq Sids
  /\ ending \in [Sids -> {"no", "asked", "kill", "destroy", "done", "lost"}]

Init ==
  /\ BrokerInit
  /\ active = Sids
  /\ socket = [w \in Sockets |-> "connecting"]
  /\ sid = [a \in Conns |-> None]
  /\ pc = [a \in Conns |-> "new"]
  /\ queue = [s \in Sids |-> <<>>]
  /\ waiting = [s \in Sids |-> None]
  /\ replaced = {}
  /\ claim = [s \in Sids |-> None]
  /\ shell = [w \in Sockets |-> None]
  /\ bySession = [s \in Sids |-> None]
  /\ target = [r \in Reattaches |-> None]
  /\ files = {} /\ removing = {} /\ home = {} /\ owners = {} /\ left = {}
  /\ ending = [s \in Sids |-> "no"]
-----------------------------------------------------------------------------
Registered == {w \in Sockets : shell[w] # None}

InFlight == {"fetch", "granted", "refused", "files", "home", "spawn", "dial", "discard"}

\* startingShells: attaches between their admission and their return.
StartingShells == {w \in Sockets : pc[w] \in InFlight}

Running(a) == sid[a] # None /\ queue[sid[a]] # <<>> /\ Head(queue[sid[a]]) = a

TurnEndsOnShell(a, step) ==
  /\ pc' = [pc EXCEPT ![a] = step]
  /\ queue' = [queue EXCEPT ![sid[a]] = IF step = "ready" THEN Tail(@) ELSE @]

\* attachInTurn: the turn ends and the next of its session may begin.
TurnEnds(a, step) ==
  /\ pc' = [pc EXCEPT ![a] = step]
  /\ queue' = [queue EXCEPT ![sid[a]] = Tail(@)]

MovesTo(a, step) == pc' = [pc EXCEPT ![a] = step] /\ UNCHANGED queue

\* ws.close by the gateway; a socket not open is left as it is.
Closes(W) == socket' = [w \in Sockets |-> IF w \in W /\ socket[w] = "open"
                                          THEN "closing" ELSE socket[w]]

UnregistersUnkilled(W, D) ==
  /\ shell' = [w \in Sockets |-> IF w \in W THEN None ELSE shell[w]]
  /\ bySession' = [s \in Sids |-> IF bySession[s] \in W \cap Registered
                                  THEN None ELSE bySession[s]]
  /\ link' = [c \in Conns |-> IF c \in D THEN "dropped" ELSE link[c]]
  /\ removing' = removing \cup (W \cap Registered \cap files)

(***************************************************************************)
(* endSession for the registered sockets among W: unregistered, their      *)
(* shells killed and the removal of their credentials started.  D are      *)
(* connections dropped in the same step.                                   *)
(***************************************************************************)
Unregisters(W, D) ==
  /\ shell' = [w \in Sockets |-> IF w \in W THEN None ELSE shell[w]]
  /\ bySession' = [s \in Sids |-> IF bySession[s] \in W \cap Registered
                                  THEN None ELSE bySession[s]]
  /\ link' = [c \in Conns |-> IF c \in D \/ (link[c] = "attached" /\ \E w \in W : shell[w] = c)
                              THEN "dropped" ELSE link[c]]
  /\ removing' = removing \cup (W \cap Registered \cap files)

\* ... and its claim is given up, if it is still this socket's.
EndSession(w, D) ==
  /\ Unregisters({w}, D)
  /\ claim' = [s \in Sids |-> IF claim[s] = w /\ w \in Registered THEN None ELSE claim[s]]
  /\ UNCHANGED <<peer, asked, brokerShell>>

CloseSessionOnly(s, heir) ==
  LET W == {bySession[s]} \cap Sockets
  IN  /\ Unregisters(W, {}) /\ Closes(W)
      /\ claim' = [claim EXCEPT ![s] = IF heir = None /\ W = {} THEN @ ELSE heir]
      /\ UNCHANGED <<peer, asked, brokerShell>>

CloseSessionClaims(s, heir) ==
  /\ claim' = [claim EXCEPT ![s] = heir]
  /\ UNCHANGED <<shell, bySession, removing, socket, brokerVars>>

\* closeSession: the registered shell is ended, and an attach in flight
\* loses its claim, to heir or to nobody.
CloseSession(s, heir) ==
  LET W == {bySession[s]} \cap Sockets
  IN  /\ Unregisters(W, {}) /\ Closes(W)
      /\ claim' = [claim EXCEPT ![s] = heir]
      /\ UNCHANGED <<peer, asked, brokerShell>>

\* releaseClaim
Releases(w) == claim' = [claim EXCEPT ![sid[w]] = IF @ = w THEN None ELSE @]

Superseded(w) == claim[sid[w]] # w

IsOpen(w) == socket[w] = "open"
-----------------------------------------------------------------------------
(***************************************************************************)
(* A browser connects.  The ceiling is only a first look here: what counts *)
(* is withSessionSlot, once a token was seen.                              *)
(***************************************************************************)
Connect(w) ==
  /\ socket[w] = "connecting"
  /\ LET full == Cardinality(Registered) >= MaxSessions
     IN  /\ socket' = [socket EXCEPT ![w] = IF full THEN "closing" ELSE "open"]
         /\ pc' = [pc EXCEPT ![w] = IF full THEN "over" ELSE @]
  /\ UNCHANGED <<active, ending, waiting, replaced, sid, queue, target, shellVars,
                 diskVars, brokerVars>>

\* No token in time, a first frame that is not auth, a bad token, or a
\* student over the attach budget.
Reject(w) ==
  /\ IsOpen(w) /\ pc[w] = "new"
  /\ Closes({w})
  /\ UNCHANGED <<active, ending, waiting, replaced, attachVars, shellVars, diskVars, brokerVars>>

AuthQueues(w, s) ==
  /\ socket[w] \in {"open", "closing"} /\ pc[w] = "new"
  /\ sid' = [sid EXCEPT ![w] = s]
  /\ pc' = [pc EXCEPT ![w] = "waiting"]
  /\ queue' = [queue EXCEPT ![s] = Append(@, w)]
  /\ UNCHANGED <<active, ending, socketVars, target, shellVars, diskVars, brokerVars>>

\* A verified token, which a socket being closed may still deliver: behind
\* the attach running now only the newest waits.
Auth(w, s) ==
  /\ socket[w] \in {"open", "closing"} /\ pc[w] = "new"
  /\ sid' = [sid EXCEPT ![w] = s]
  /\ pc' = [pc EXCEPT ![w] = "waiting"]
  /\ queue' = [queue EXCEPT ![s] = Append(@, w)]
  /\ waiting' = [waiting EXCEPT ![s] = w]
  /\ replaced' = replaced \cup ({waiting[s]} \cap Sockets)
  /\ Closes({waiting[s]} \cap Sockets)
  /\ UNCHANGED <<active, ending, target, shellVars, diskVars, brokerVars>>

AdmitsRegistered(w) ==
  \/ bySession[sid[w]] # None
  \/ Cardinality(Registered) < MaxSessions

\* withSessionSlot: a session that has a shell is replacing it; another
\* counts against the ceiling from here on, attaches in flight included.
Admits(w) ==
  \/ bySession[sid[w]] # None
  \/ Cardinality(Registered) + Cardinality(StartingShells) < MaxSessions

TakeTurnBeside(w) ==
  /\ pc[w] = "waiting" /\ Running(w)
  /\ waiting' = [waiting EXCEPT ![sid[w]] = IF @ = w THEN None ELSE @]
  /\ \/ /\ w \notin replaced /\ Admits(w) /\ IsOpen(w)
        /\ CloseSessionClaims(sid[w], w)
        /\ MovesTo(w, "fetch")
     \/ /\ w \in replaced \/ ~Admits(w) \/ ~IsOpen(w)
        /\ IF w \notin replaced /\ ~Admits(w) THEN Closes({w}) ELSE UNCHANGED socket
        /\ TurnEnds(w, "over")
        /\ UNCHANGED <<shellVars, removing, brokerVars>>
  /\ UNCHANGED <<active, ending, replaced, sid, target, files, home, owners, left>>

(***************************************************************************)
(* An attach gets its turn: withSessionSlot and startSession up to the     *)
(* credentials fetch.                                                      *)
(***************************************************************************)
TakeTurn(w) ==
  /\ pc[w] = "waiting" /\ Running(w)
  /\ waiting' = [waiting EXCEPT ![sid[w]] = IF @ = w THEN None ELSE @]
  /\ \/ /\ w \notin replaced /\ Admits(w) /\ IsOpen(w)
        /\ CloseSession(sid[w], w)
        /\ MovesTo(w, "fetch")
     \/ /\ w \in replaced \/ ~Admits(w) \/ ~IsOpen(w)
        /\ IF w \notin replaced /\ ~Admits(w) THEN Closes({w}) ELSE UNCHANGED socket
        /\ TurnEnds(w, "over")
        /\ UNCHANGED <<shellVars, removing, brokerVars>>
  /\ UNCHANGED <<active, ending, replaced, sid, target, files, home, owners, left>>

\* The API decides, on the session as it is now; any failure is a refusal.
ApiAnswers(a) ==
  /\ pc[a] = "fetch"
  /\ \/ sid[a] \in active /\ MovesTo(a, "granted")
     \/ MovesTo(a, "refused")
  /\ UNCHANGED <<active, ending, socketVars, sid, target, shellVars, diskVars, brokerVars>>

\* An attach is given up: it releases its claim and closes its socket.
GiveUp(w) ==
  /\ Releases(w) /\ Closes({w})
  /\ TurnEnds(w, "over")
  /\ UNCHANGED <<shell, bySession>>

\* After an await: the browser left, or the attach lost its claim.
Stale(w) == ~IsOpen(w) \/ Superseded(w)

\* The API's answer to a first attach arrives.
Fetched(w) ==
  /\ w \in Sockets
  /\ \/ pc[w] = "refused" /\ GiveUp(w) /\ UNCHANGED <<link, asked>>
     \/ /\ pc[w] = "granted" /\ sid[w] \notin Containers
        /\ MovesTo(w, "files")
        /\ UNCHANGED <<socket, shellVars, link, asked>>
     \/ /\ pc[w] = "granted" /\ sid[w] \in Containers
        /\ \/ Stale(w) /\ GiveUp(w) /\ UNCHANGED <<link, asked>>
           \/ /\ ~Stale(w)
              /\ MovesTo(w, "dial")
              /\ link' = [link EXCEPT ![w] = "dialing"]
              /\ asked' = [asked EXCEPT ![w] = sid[w]]
              /\ UNCHANGED <<socket, shellVars>>
  /\ UNCHANGED <<active, ending, waiting, replaced, sid, target, diskVars, peer, brokerShell>>
-----------------------------------------------------------------------------
(***************************************************************************)
(* The local shell of a Kubernetes or Docker session: its credentials are  *)
(* written, its directory made its own, and both survive a failure until   *)
(* Discard.  Spawning and registering are one step: nothing is awaited.    *)
(* A write that fails leaves no file the attach knows of.                  *)
(***************************************************************************)
WriteCredentials(w) ==
  /\ pc[w] = "files"
  /\ \/ /\ files' = files \cup {w}
        /\ MovesTo(w, "home")
        /\ UNCHANGED <<socket, shellVars>>
     \/ GiveUp(w) /\ UNCHANGED files
  /\ UNCHANGED <<active, ending, waiting, replaced, sid, target, removing, home,
                 owners, left, brokerVars>>

ClaimHome(w) ==
  /\ pc[w] = "home"
  /\ \/ home' = home \cup {sid[w]} /\ MovesTo(w, "spawn") /\ UNCHANGED claim
     \/ /\ Releases(w) /\ MovesTo(w, "discard")
        /\ home' \in {home, home \cup {sid[w]}}
  /\ UNCHANGED <<active, ending, socketVars, sid, target, shell, bySession, files,
                 removing, owners, left, brokerVars>>

Spawn(w) ==
  /\ pc[w] = "spawn"
  /\ \/ /\ ~Stale(w)
        /\ owners' = owners \cup {sid[w]}
        /\ shell' = [shell EXCEPT ![w] = w]
        /\ bySession' = [bySession EXCEPT ![sid[w]] = w]
        /\ TurnEnds(w, "ready")
        /\ UNCHANGED claim
     \/ /\ Releases(w) /\ MovesTo(w, "discard")
        /\ owners' = IF Stale(w) THEN owners ELSE owners \cup {sid[w]}
        /\ UNCHANGED <<shell, bySession>>
  /\ UNCHANGED <<active, ending, socketVars, sid, target, files, removing, home,
                 left, brokerVars>>

DiscardNothing(w) ==
  /\ pc[w] = "discard"
  /\ Closes({w})
  /\ TurnEnds(w, "over")
  /\ UNCHANGED <<active, ending, waiting, replaced, sid, target, shellVars, diskVars,
                 brokerVars>>

\* discardCredentials, then the socket is closed.
Discard(w) ==
  /\ pc[w] = "discard"
  /\ files' = files \ {w}
  /\ Closes({w})
  /\ TurnEnds(w, "over")
  /\ UNCHANGED <<active, ending, waiting, replaced, sid, target, shellVars, removing,
                 home, owners, left, brokerVars>>

RemoveForgets(w) ==
  /\ w \in removing
  /\ files' = files \ {w}
  /\ UNCHANGED <<active, ending, socketVars, attachVars, shellVars, removing, home,
                 owners, left, brokerVars>>

\* A removal endSession started is done.
Remove(w) ==
  /\ w \in removing
  /\ removing' = removing \ {w} /\ files' = files \ {w}
  /\ UNCHANGED <<active, ending, socketVars, attachVars, shellVars, home, owners,
                 left, brokerVars>>

\* A shell starts something that outlives it (nohup, setsid).
Nohup(w) ==
  /\ w \in Registered /\ sid[w] \notin Containers
  /\ left' = left \cup {sid[w]}
  /\ UNCHANGED <<active, ending, socketVars, attachVars, shellVars, files, removing,
                 home, owners, brokerVars>>
-----------------------------------------------------------------------------
DialedKept(w) ==
  /\ w \in Sockets
  /\ pc[w] = "dial" /\ peer[w] \in {"shell", "ended"}
  /\ \/ /\ ~Stale(w)
        /\ link' = [link EXCEPT ![w] = "attached"]
        /\ shell' = [shell EXCEPT ![w] = w]
        /\ bySession' = [bySession EXCEPT ![sid[w]] = w]
        /\ TurnEnds(w, "ready")
        /\ UNCHANGED <<socket, claim>>
     \/ Stale(w) /\ GiveUp(w) /\ UNCHANGED link
  /\ UNCHANGED <<active, ending, waiting, replaced, sid, target, diskVars, peer,
                 asked, brokerShell>>

(***************************************************************************)
(* The container shell: the broker reported the attach, or it did not in   *)
(* time.  A shell nobody waits for any more is killed.                     *)
(***************************************************************************)
Dialed(w) ==
  /\ w \in Sockets
  /\ pc[w] = "dial" /\ peer[w] \in {"shell", "ended"}
  /\ \/ /\ ~Stale(w)
        /\ link' = [link EXCEPT ![w] = "attached"]
        /\ shell' = [shell EXCEPT ![w] = w]
        /\ bySession' = [bySession EXCEPT ![sid[w]] = w]
        /\ TurnEnds(w, "ready")
        /\ UNCHANGED <<socket, claim>>
     \/ Stale(w) /\ GiveUp(w) /\ link' = [link EXCEPT ![w] = "dropped"]
  /\ UNCHANGED <<active, ending, waiting, replaced, sid, target, diskVars, peer,
                 asked, brokerShell>>

DialFailed(w) ==
  /\ w \in Sockets
  /\ pc[w] = "dial"
  /\ GiveUp(w)
  /\ link' = [link EXCEPT ![w] = "dropped"]
  /\ UNCHANGED <<active, ending, waiting, replaced, sid, target, diskVars, peer,
                 asked, brokerShell>>
-----------------------------------------------------------------------------
(***************************************************************************)
(* Reattach: a Reset recreated the container, so the socket's shell is     *)
(* replaced.  It waits its turn among the attaches of the session.         *)
(***************************************************************************)
AskReattach(r, s) ==
  /\ pc[r] = "new" /\ s \in Containers
  /\ sid' = [sid EXCEPT ![r] = s]
  /\ pc' = [pc EXCEPT ![r] = "waiting"]
  /\ queue' = [queue EXCEPT ![s] = Append(@, r)]
  /\ UNCHANGED <<active, ending, socketVars, target, shellVars, diskVars, brokerVars>>

StillLive(w) == w \in Registered /\ IsOpen(w)

ReattachTurn(r) ==
  /\ pc[r] = "waiting" /\ Running(r)
  /\ LET w == bySession[sid[r]]
     IN  \/ /\ w # None /\ StillLive(w)
            /\ target' = [target EXCEPT ![r] = w]
            /\ MovesTo(r, "fetch")
         \/ ~(w # None /\ StillLive(w)) /\ TurnEnds(r, "over") /\ UNCHANGED target
  /\ UNCHANGED <<active, ending, socketVars, sid, shellVars, diskVars, brokerVars>>

\* The binding arrives: the old shell is detached and killed, a new one dialed.
ReattachFetched(r) ==
  /\ r \in Reattaches
  /\ \/ /\ pc[r] = "granted" /\ StillLive(target[r])
        /\ link' = [link EXCEPT ![shell[target[r]]] = "dropped", ![r] = "dialing"]
        /\ asked' = [asked EXCEPT ![r] = sid[r]]
        /\ MovesTo(r, "dial")
     \/ /\ pc[r] = "refused" \/ (pc[r] = "granted" /\ ~StillLive(target[r]))
        /\ TurnEnds(r, "over")
        /\ UNCHANGED <<link, asked>>
  /\ UNCHANGED <<active, ending, socketVars, sid, target, shellVars, diskVars, peer,
                 brokerShell>>

Reattached(r) ==
  /\ r \in Reattaches
  /\ pc[r] = "dial" /\ peer[r] \in {"shell", "ended"}
  /\ \/ /\ StillLive(target[r])
        /\ link' = [link EXCEPT ![r] = "attached"]
        /\ shell' = [shell EXCEPT ![target[r]] = r]
     \/ /\ ~StillLive(target[r])
        /\ link' = [link EXCEPT ![r] = "dropped"]
        /\ UNCHANGED shell
  /\ TurnEnds(r, "over")
  /\ UNCHANGED <<active, ending, socketVars, sid, target, claim, bySession, diskVars,
                 peer, asked, brokerShell>>

\* The broker refused or was not there: the old shell is already gone, so the
\* socket is closed for the browser to attach afresh.
ReattachFailed(r) ==
  /\ r \in Reattaches
  /\ pc[r] = "dial"
  /\ EndSession(target[r], {r})
  /\ Closes({target[r]})
  /\ TurnEnds(r, "over")
  /\ UNCHANGED <<active, ending, waiting, replaced, sid, target, files, home, owners, left>>
-----------------------------------------------------------------------------
\* A registered shell is ended by the gateway and its socket closed.
CloseShell(w) ==
  /\ w \in Registered
  /\ EndSession(w, {})
  /\ Closes({w})
  /\ UNCHANGED <<active, ending, waiting, replaced, attachVars, files, home, owners, left>>

\* closeFor: idle, at its maximum duration, or flooded with input.
CloseFor(w) == CloseShell(w)

\* The activity report of a student who lost the right to the lab was refused.
Revoke(w) == CloseShell(w)

\* A backlog passed the hard limit of its flow.
Overflow(w) == CloseShell(w)

\* The shell exits, or the broker says that it ended, or the broker is lost.
ShellExits(w) ==
  /\ w \in Registered
  /\ sid[w] \in Containers => link[shell[w]] = "attached"
  /\ CloseShell(w)

\* The tab is closed or the network drops; the close event follows.
BrowserLeaves(w) ==
  /\ IsOpen(w)
  /\ Closes({w})
  /\ UNCHANGED <<active, ending, waiting, replaced, attachVars, shellVars, diskVars, brokerVars>>

SocketGone(w) ==
  /\ socket[w] = "closing"
  /\ socket' = [socket EXCEPT ![w] = "closed"]
  /\ EndSession(w, {})
  /\ UNCHANGED <<active, ending, waiting, replaced, attachVars, files, home, owners, left>>
-----------------------------------------------------------------------------
\* The session is over for the API, which then asks the gateway to terminate
\* it.  External: SessionManager claims the row before it calls.
ApiEnds(s) ==
  /\ s \in active
  /\ active' = active \ {s}
  /\ ending' = [ending EXCEPT ![s] = "asked"]
  /\ UNCHANGED <<gatewayVars, brokerVars>>

Terminate(s) ==
  /\ ending[s] = "asked"
  /\ CloseSession(s, None)
  /\ ending' = [ending EXCEPT ![s] = IF s \in owners THEN "kill" ELSE "done"]
  /\ UNCHANGED <<active, waiting, replaced, attachVars, files, home, owners, left>>

\* The call is best effort: it may never arrive.
TerminateLost(s) ==
  /\ ending[s] = "asked"
  /\ ending' = [ending EXCEPT ![s] = "lost"]
  /\ UNCHANGED <<active, gatewayVars, brokerVars>>

\* killSessionProcesses: everything of the session's uid, proven gone, or
\* reported and its uid remembered.
KillProcesses(s) ==
  /\ ending[s] = "kill"
  /\ \/ left' = left \ {s} /\ owners' = owners \ {s}
     \/ s \in left /\ UNCHANGED <<left, owners>>
  /\ ending' = [ending EXCEPT ![s] = "destroy"]
  /\ UNCHANGED <<active, socketVars, attachVars, shellVars, files, removing, home, brokerVars>>

DestroyHome(s) ==
  /\ ending[s] = "destroy"
  /\ home' = home \ {s}
  /\ ending' = [ending EXCEPT ![s] = "done"]
  /\ UNCHANGED <<active, socketVars, attachVars, shellVars, files, removing, owners,
                 left, brokerVars>>

(***************************************************************************)
(* The Docker provider seeds a session's workspace when it starts or       *)
(* resets the lab, which may be still under way when the lab is ended, and *)
(* removes it with every destroy.  A destroy follows the terminate call    *)
(* whether that call was answered, timed out or never arrived, and is      *)
(* repeated by the reaper; so the removal may come before terminate was    *)
(* handled, or instead of it.                                              *)
(***************************************************************************)
SeedWorkspace(s) ==
  /\ s \in Workspaces
  /\ home' = home \cup {s}
  /\ UNCHANGED <<active, ending, socketVars, attachVars, shellVars, files, removing,
                 owners, left, brokerVars>>

DestroyWorkspace(s) ==
  /\ s \in Workspaces /\ ending[s] # "no"
  /\ home' = home \ {s}
  /\ UNCHANGED <<active, ending, socketVars, attachVars, shellVars, files, removing,
                 owners, left, brokerVars>>
-----------------------------------------------------------------------------
AttachStep(w) ==
  \/ TakeTurn(w) \/ ApiAnswers(w) \/ Fetched(w) \/ WriteCredentials(w)
  \/ ClaimHome(w) \/ Spawn(w) \/ Discard(w) \/ Dialed(w) \/ DialFailed(w)

ReattachStep(r) ==
  \/ ReattachTurn(r) \/ ApiAnswers(r) \/ ReattachFetched(r)
  \/ Reattached(r) \/ ReattachFailed(r)

BrowserStep(w) ==
  \/ Connect(w) \/ Reject(w) \/ BrowserLeaves(w) \/ \E s \in Sids : Auth(w, s)

ShellStep(w) ==
  \/ CloseFor(w) \/ Revoke(w) \/ Overflow(w) \/ ShellExits(w)
  \/ SocketGone(w) \/ Remove(w) \/ Nohup(w)

EndStep(s) ==
  \/ ApiEnds(s) \/ Terminate(s) \/ TerminateLost(s) \/ KillProcesses(s) \/ DestroyHome(s)
  \/ SeedWorkspace(s) \/ DestroyWorkspace(s)

Broker(c) == BrokerStep(c) /\ UNCHANGED <<active, ending, gatewayVars>>

Next ==
  \/ \E w \in Sockets : AttachStep(w) \/ BrowserStep(w) \/ ShellStep(w)
  \/ \E r \in Reattaches : ReattachStep(r) \/ \E s \in Sids : AskReattach(r, s)
  \/ \E s \in Sids : EndStep(s)
  \/ \E c \in Conns : Broker(c)

Spec == Init /\ [][Next]_vars

(***************************************************************************)
(* Fairness.  Every await of an attach has a deadline of its own (the      *)
(* credentials fetch, the broker connect, docker inspect), timers and      *)
(* closes are delivered, and file operations end.  CloseFor is fair by the *)
(* maxTimer every shell has.  Nothing makes a browser connect or leave, a  *)
(* shell exit, or the API end a session.                                   *)
(***************************************************************************)
BrokerProgress(c) ==
  /\ OpenShell(c) \/ Deny(c) \/ CallerGone(c) \/ AttachShell(c) \/ SocketClosed(c)
  /\ UNCHANGED <<active, ending, gatewayVars>>

FairSpec ==
  /\ Spec
  /\ \A w \in Sockets : /\ WF_vars(AttachStep(w)) /\ WF_vars(CloseFor(w))
                        /\ WF_vars(SocketGone(w)) /\ WF_vars(Remove(w))
  /\ \A r \in Reattaches : WF_vars(ReattachStep(r))
  /\ \A s \in Sids : WF_vars(Terminate(s) \/ TerminateLost(s) \/ KillProcesses(s) \/ DestroyHome(s))
  /\ \A c \in Conns : WF_vars(BrokerProgress(c))
-----------------------------------------------------------------------------
(***************************************************************************)
(* Every registered shell is the one bySessionId names, so a session has   *)
(* one shell and End Lab, a Reset and the next attach all find it.         *)
(***************************************************************************)
ShellsReachable == \A w \in Registered : bySession[sid[w]] = w

(***************************************************************************)
(* Once terminate was handled the session has no shell here, whatever      *)
(* attach or reattach was waiting, fetching, dialing or queued, and no     *)
(* process of its uid but survivors that were reported.                    *)
(***************************************************************************)
EndedStaysClosed ==
  \A s \in Sids : ending[s] \in {"kill", "destroy", "done"} =>
    /\ \A w \in Registered : sid[w] # s
    /\ ending[s] # "kill" => s \notin left \/ s \in owners

\* An attached broker connection is some registered socket's shell: none is
\* left for a browser that has gone or an attach that lost its claim.
AttachedIsOwned == \A c \in Conns : link[c] = "attached" => \E w \in Registered : shell[w] = c

(***************************************************************************)
(* A local shell's credentials exist while it runs, though each detach     *)
(* removes some, and so does its directory, which End Lab removes.  One    *)
(* case is excepted: a Docker session that the API ended and the gateway   *)
(* was not told of, or not yet, since the API then removes the directory   *)
(* under the shell.  And credentials on disk belong to a shell, to an      *)
(* attach that will discard them or to a removal under way.                *)
(***************************************************************************)
CredentialsFollowShell ==
  /\ \A w \in Registered : sid[w] \notin Containers =>
       /\ w \in files \ removing
       /\ \/ sid[w] \in home
          \/ sid[w] \in Workspaces /\ ending[sid[w]] \in {"asked", "lost"}
  /\ files \subseteq removing \cup Registered
                       \cup {w \in Sockets : pc[w] \in {"home", "spawn", "discard"}}

\* maxSessions bounds the shells, though an attach takes its slot long
\* before it registers one.
GatewayWithinCapacity == Cardinality(Registered) <= MaxSessions

(***************************************************************************)
(* The broker's ceiling and its one PTY per session, though an inspection  *)
(* may end after its caller left and another attach took the slot.         *)
(***************************************************************************)
BrokerWithinCapacity ==
  /\ Cardinality(Shells) <= BrokerMax
  /\ \A c \in Shells : brokerShell[asked[c]] = c

\* Of the browsers queueing for a session only one is kept waiting.
OneWaits ==
  \A v, w \in Sockets :
    /\ pc[v] = "waiting" /\ pc[w] = "waiting" /\ sid[v] = sid[w]
    /\ IsOpen(v) /\ IsOpen(w)
    => v = w

\* Every attach and reattach ends, with a shell or without.
AttachSettles ==
  \A a \in Conns : pc[a] = "waiting" ~> pc[a] \in {"ready", "over"}

(***************************************************************************)
(* After End Lab the session's PTYs at the broker go away for good, the    *)
(* ones an attach was still opening included, and even when the terminate  *)
(* call is lost.                                                           *)
(***************************************************************************)
EndedIsReleased ==
  \A s \in Sids : ending[s] = "asked" ~> [](\A c \in Shells : asked[c] # s)
=============================================================================
