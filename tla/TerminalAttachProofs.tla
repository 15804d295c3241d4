------------------------ MODULE TerminalAttachProofs ------------------------
(***************************************************************************)
(* The inductive invariant of TerminalGateway, for any sessions, browsers, *)
(* reattaches and ceilings, and the proofs that the broker and an attach   *)
(* keep it.  It is a conjunction with one part for each group of           *)
(* variables; a part also gives their types.                               *)
(***************************************************************************)
EXTENDS TerminalGateway, TLAPS

First(q, a) == q # <<>> /\ Head(q) = a

\* The steps of a first attach with a local shell, and the ones of a reattach.
LocalSteps == {"files", "home", "spawn", "discard"}
ReattachSteps == {"new", "waiting", "fetch", "granted", "refused", "dial", "over"}

(***************************************************************************)
(* Turns: an attach in flight is the first in the queue of its session, so *)
(* a session has at most one; only the first attach of a local session     *)
(* writes to the disk, only sessions with a container dial; and a reattach *)
(* in flight is for a socket that has been attached.                       *)
(***************************************************************************)
TurnTypes ==
  /\ sid \in [Conns -> Sids \cup {None}]
  /\ pc \in [Conns -> Steps]
  /\ queue \in [Sids -> Seq(Conns)]
  /\ target \in [Reattaches -> Sockets \cup {None}]

StepsHaveSid == \A a \in Conns : pc[a] \in {"waiting", "ready"} \cup InFlight => sid[a] \in Sids

InFlightIsFirst == \A a \in Conns : pc[a] \in InFlight => First(queue[sid[a]], a)

StepsFitSession ==
  \A w \in Sockets : /\ pc[w] \in LocalSteps => sid[w] \notin Containers
                     /\ pc[w] = "dial" => sid[w] \in Containers

ReattachHasTarget ==
  \A r \in Reattaches : /\ pc[r] \in ReattachSteps
                        /\ pc[r] \in {"waiting"} \cup InFlight => sid[r] \in Containers
                        /\ pc[r] \in InFlight => /\ target[r] \in Sockets
                                                 /\ sid[target[r]] = sid[r]
                                                 /\ pc[target[r]] = "ready"

TurnInv == TurnTypes /\ StepsHaveSid /\ InFlightIsFirst /\ StepsFitSession /\ ReattachHasTarget

\* Waiting: the one browser that is kept waiting is the one of waitingAttaches.
WaitTypes ==
  /\ socket \in [Sockets -> ReadyStates]
  /\ waiting \in [Sids -> Sockets \cup {None}]
  /\ replaced \subseteq Sockets

ConnectingIsNew == \A w \in Sockets : socket[w] = "connecting" => pc[w] = "new"

WaitingIsNamed == \A w \in Sockets : pc[w] = "waiting" /\ socket[w] = "open" => waiting[sid[w]] = w

WaitInv == WaitTypes /\ ConnectingIsNew /\ WaitingIsNamed

(***************************************************************************)
(* Shells: sessions and bySessionId name each other, and a session with an *)
(* attach past its admission has no shell any more.                        *)
(***************************************************************************)
ShellTypes ==
  /\ shell \in [Sockets -> Conns \cup {None}]
  /\ bySession \in [Sids -> Sockets \cup {None}]

ShellIsNamed == \A w \in Sockets : shell[w] # None => pc[w] = "ready" /\ bySession[sid[w]] = w

NamedHasShell ==
  \A s \in Sids : bySession[s] # None => shell[bySession[s]] # None /\ sid[bySession[s]] = s

InFlightNoShell == \A w \in Sockets : pc[w] \in InFlight => bySession[sid[w]] = None

ShellInv == ShellTypes /\ ShellIsNamed /\ NamedHasShell /\ InFlightNoShell

(***************************************************************************)
(* Ends: once terminate was handled no attach of the session past its      *)
(* credentials holds the claim, and none will get past them.               *)
(***************************************************************************)
Ended == {"kill", "destroy", "done"}

EndTypes ==
  /\ active \subseteq Sids
  /\ ending \in [Sids -> {"no", "asked", "kill", "destroy", "done", "lost"}]
  /\ claim \in [Sids -> Sockets \cup {None}]
  /\ owners \subseteq Sids /\ left \subseteq owners

ActiveNotEnding == \A s \in active : ending[s] = "no"

EndedNoShell == \A s \in Sids : ending[s] \in Ended => bySession[s] = None

EndedNoClaim ==
  \A w \in Sockets : /\ pc[w] \in {"granted", "files", "home", "spawn", "dial"}
                     /\ ending[sid[w]] \in Ended
                     => claim[sid[w]] # w

LocalHasOwner == \A w \in Sockets : shell[w] # None /\ sid[w] \notin Containers => sid[w] \in owners

EndInv == EndTypes /\ ActiveNotEnding /\ EndedNoShell /\ EndedNoClaim /\ LocalHasOwner

\* Disk: what an attach wrote is there until it or a removal takes it away,
\* and so is its directory, unless the API may have removed that itself.
Dirs == home \cup {s \in Workspaces : ending[s] # "no"}

DiskTypes == files \subseteq Sockets /\ removing \subseteq files /\ home \subseteq Sids

RemovingIsOver == \A w \in removing : pc[w] = "ready" /\ shell[w] = None

StepHasFiles == \A w \in Sockets : pc[w] \in {"home", "spawn", "discard"} => w \in files

ClaimHasHome == \A w \in Sockets : pc[w] = "spawn" /\ claim[sid[w]] = w => sid[w] \in Dirs

LocalHasFiles ==
  \A w \in Sockets : shell[w] # None /\ sid[w] \notin Containers => w \in files /\ sid[w] \in Dirs

FilesHaveUser ==
  \A w \in files : \/ w \in removing \/ shell[w] # None
                   \/ pc[w] \in {"home", "spawn", "discard"}

DiskInv ==
  DiskTypes /\ RemovingIsOver /\ StepHasFiles /\ ClaimHasHome /\ LocalHasFiles /\ FilesHaveUser

(***************************************************************************)
(* Links: a shell's connection is the socket's own or that of a reattach   *)
(* which is over, and while a reattach dials the shell it replaces is      *)
(* detached.                                                               *)
(***************************************************************************)
LinkIsNone == \A c \in Conns : pc[c] \notin {"dial", "ready", "over"} => link[c] = "none"

DialHasLink == \A c \in Conns : pc[c] = "dial" => link[c] # "none"

ShellHasLink ==
  \A w \in Sockets : shell[w] # None =>
    /\ \/ shell[w] = w
       \/ shell[w] \in Reattaches /\ target[shell[w]] = w /\ pc[shell[w]] = "over"
    /\ sid[w] \in Containers => link[shell[w]] # "none"

AttachedIsShell == \A c \in Conns : link[c] = "attached" => \E w \in Sockets : shell[w] = c

DialsDetached ==
  \A r \in Reattaches : pc[r] = "dial" /\ shell[target[r]] # None =>
                          link[shell[target[r]]] # "attached"

LinkInv ==
  /\ link \in [Conns -> Links]
  /\ LinkIsNone /\ DialHasLink /\ ShellHasLink /\ AttachedIsShell /\ DialsDetached

\* Broker: bySessionId and the shells name each other, behind connections in use.
BrokerTypes ==
  /\ peer \in [Conns -> Peers]
  /\ asked \in [Conns -> Sids \cup {None}]
  /\ brokerShell \in [Sids -> Conns \cup {None}]

LinkHasAsked == \A c \in Conns : link[c] # "none" => asked[c] \in Sids

PeerHasLink == \A c \in Conns : peer[c] # "none" => link[c] # "none"

PtyIsNamed == \A c \in Conns : peer[c] = "shell" => brokerShell[asked[c]] = c

NamedHasPty ==
  \A s \in Sids : brokerShell[s] # None => peer[brokerShell[s]] = "shell" /\ asked[brokerShell[s]] = s

BrokerInv == BrokerTypes /\ LinkHasAsked /\ PeerHasLink /\ PtyIsNamed /\ NamedHasPty

TerminalInv == TurnInv /\ WaitInv /\ ShellInv /\ EndInv /\ DiskInv /\ LinkInv /\ BrokerInv

(***************************************************************************)
(* What a step may do to the slots.  At the gateway it takes none, turns   *)
(* the one of an attach into a shell, or admits an attach in the place of  *)
(* its session's shell; at the broker the sessions with a PTY or an        *)
(* inspection grow by one only below the ceiling.  The counting is in      *)
(* TerminalCapacityProofs.                                                 *)
(***************************************************************************)
SlotsShrink ==
  \A w \in Sockets : /\ shell'[w] # None => shell[w] # None
                     /\ pc'[w] \in InFlight => pc[w] \in InFlight

SlotMoves(w) ==
  /\ shell[w] = None /\ pc[w] \in InFlight
  /\ \A v \in Sockets : /\ shell'[v] # None <=> v = w \/ shell[v] # None
                        /\ pc'[v] \in InFlight <=> v # w /\ pc[v] \in InFlight

SlotAdmits(w) ==
  /\ Admits(w) /\ sid[w] \in Sids /\ pc[w] = "waiting"
  /\ \A v \in Sockets : /\ shell'[v] # None <=> shell[v] # None /\ v # bySession[sid[w]]
                        /\ pc'[v] \in InFlight <=> v = w \/ pc[v] \in InFlight

SlotStep == SlotsShrink \/ \E w \in Sockets : SlotMoves(w) \/ SlotAdmits(w)

Served == {asked[c] : c \in Shells \cup Starting}

ServedStep ==
  \/ Served' \subseteq Served
  \/ /\ ~(Cardinality(Shells) + Cardinality(Starting) >= BrokerMax)
     /\ \E s \in Sids : Served' = Served \cup {s}

Kept == TerminalInv' /\ SlotStep /\ ServedStep
-----------------------------------------------------------------------------
\* Connections are of sockets or of reattaches, and None is none of them.
LEMMA Names ==
  /\ Sockets \subseteq Conns /\ Reattaches \subseteq Conns /\ Sockets \cap Reattaches = {}
  /\ None \notin Conns /\ None \notin Sockets /\ None \notin Sids
  /\ Containers \subseteq Sids /\ Conns = Sockets \cup Reattaches
  BY BrokerAssumption, GatewayAssumption, Zenon

-----------------------------------------------------------------------------
(* The broker.                                                             *)

\* The connection an entry of the broker names has its PTY, and asked for that
\* session.
LEMMA HeldShell ==
  ASSUME BrokerInv, NEW s \in Sids, NEW c \in Conns, c = brokerShell[s]
  PROVE  peer[c] = "shell" /\ asked[c] = s
  BY Names DEF BrokerInv, BrokerTypes, LinkHasAsked, PeerHasLink, PtyIsNamed, NamedHasPty

\* A step of the gateway alone leaves the broker's part as it is.
LEMMA BrokerFrame ==
  ASSUME BrokerInv, UNCHANGED <<peer, asked, brokerShell>>,
         \A c \in Conns : link'[c] = "none" <=> link[c] = "none"
  PROVE  BrokerInv' /\ ServedStep
<1>1. BrokerInv'
  BY Zenon DEF BrokerInv, BrokerTypes, LinkHasAsked, PeerHasLink, PtyIsNamed, NamedHasPty
<1>2. Served' = Served
  BY Zenon DEF Served, Shells, Starting
<1> QED BY <1>1, <1>2, Zenon DEF ServedStep

\* A connection is dialed for its session.
LEMMA BrokerDials ==
  ASSUME BrokerInv, NEW a \in Conns, sid[a] \in Sids, link[a] = "none", link'[a] # "none",
         \A c \in Conns : c # a => (link'[c] = "none" <=> link[c] = "none"),
         asked' = [asked EXCEPT ![a] = sid[a]], UNCHANGED <<peer, brokerShell>>
  PROVE  BrokerInv' /\ ServedStep
<1>1. /\ asked' \in [Conns -> Sids \cup {None}] /\ asked'[a] = sid[a] /\ peer[a] = "none"
      /\ \A c \in Conns : c # a => asked'[c] = asked[c]
  BY Zenon DEF BrokerInv, BrokerTypes, PeerHasLink
<1>2. ServedStep
  <2>1. \A c \in Conns : c \in Shells' \cup Starting' => c \in Shells \cup Starting /\ asked'[c] = asked[c]
    BY <1>1 DEF Shells, Starting
  <2>2. Shells' \cup Starting' \subseteq Conns
    BY Zenon DEF Shells, Starting
  <2> QED BY <2>1, <2>2, Zenon DEF Served, ServedStep
<1>3. ASSUME NEW s \in Sids, brokerShell[s] # None
      PROVE  peer[brokerShell[s]] = "shell" /\ asked'[brokerShell[s]] = s
  <2>1. peer[brokerShell[s]] = "shell" /\ asked[brokerShell[s]] = s /\ brokerShell[s] \in Conns
    BY <1>3 DEF BrokerInv, BrokerTypes, LinkHasAsked, NamedHasPty
  <2> QED BY <1>1, <2>1, Zenon
<1>4. BrokerInv'
  BY <1>1, <1>3 DEF BrokerInv, BrokerTypes, LinkHasAsked, PeerHasLink, PtyIsNamed, NamedHasPty
<1> QED BY <1>2, <1>4, Zenon

\* A connection that has no PTY and gets none.
LEMMA QuietKeeps ==
  ASSUME BrokerInv, NEW c \in Conns, NEW x \in {"inspecting", "gone", "refused"},
         peer[c] # "shell", link[c] # "none", peer' = [peer EXCEPT ![c] = x],
         UNCHANGED <<link, asked, brokerShell>>
  PROVE  /\ BrokerInv'
         /\ x = "refused" \/ peer[c] \in {"inspecting", "gone"} => ServedStep
<1>1. /\ peer' \in [Conns -> Peers] /\ peer'[c] = x
      /\ \A d \in Conns : d # c => peer'[d] = peer[d]
  BY DEF BrokerInv, Peers, BrokerTypes
<1>2. \A s \in Sids : brokerShell[s] # None => brokerShell[s] \in Conns /\ brokerShell[s] # c
  BY DEF BrokerInv, BrokerTypes, NamedHasPty
<1>3. BrokerInv'
  BY <1>1 DEF BrokerInv, BrokerTypes, LinkHasAsked, PeerHasLink, PtyIsNamed, NamedHasPty
<1>4. ASSUME x = "refused" \/ peer[c] \in {"inspecting", "gone"} PROVE ServedStep
  <2>1. Shells' \cup Starting' \subseteq Shells \cup Starting
    BY <1>4 DEF Shells, Starting
  <2> QED BY <2>1, Zenon DEF Served, ServedStep
<1> QED BY <1>3, <1>4, Zenon

\* openShell: an inspection begins under the ceiling, or in place of the
\* session's PTY.
LEMMA OpenShellKeeps ==
  ASSUME BrokerInv, NEW c \in Conns, OpenShell(c) PROVE BrokerInv' /\ ServedStep
<1>1. /\ peer[c] = "none" /\ link[c] # "none" /\ asked[c] \in Sids /\ peer \in [Conns -> Peers]
      /\ UNCHANGED <<link, asked, brokerShell>>
  BY Zenon DEF OpenShell, BrokerInv, BrokerTypes, LinkHasAsked
<1>2. CASE peer' = [peer EXCEPT ![c] = "refused"]
  BY <1>1, <1>2, QuietKeeps, Zenon
<1>3. CASE /\ peer' = [peer EXCEPT ![c] = "inspecting"]
           /\ \/ brokerShell[asked[c]] # None
              \/ ~(Cardinality(Shells) + Cardinality(Starting) >= BrokerMax)
  <2>1. Served' = Served \cup {asked[c]}
    <3>1. Shells' = Shells /\ Starting' = Starting \cup {c}
      BY <1>1, <1>3, Zenon DEF Shells, Starting
    <3> QED BY <1>1, <3>1, Zenon DEF Served
  <2>2. ServedStep
    <3>1. CASE brokerShell[asked[c]] # None
      <4>1. PICK d \in Conns : peer[d] = "shell" /\ asked[d] = asked[c]
        BY <1>1, <3>1 DEF BrokerInv, BrokerTypes, PeerHasLink, NamedHasPty
      <4>2. asked[c] \in Served
        BY <4>1 DEF Served, Shells
      <4> QED BY <2>1, <4>2, Zenon DEF ServedStep
    <3>2. CASE ~(Cardinality(Shells) + Cardinality(Starting) >= BrokerMax)
      BY <1>1, <2>1, <3>2, Zenon DEF ServedStep
    <3> QED BY <1>3, <3>1, <3>2, Zenon
  <2>3. BrokerInv'
    BY <1>1, <1>3, QuietKeeps, Zenon
  <2> QED BY <2>2, <2>3, Zenon
<1> QED BY <1>2, <1>3, Zenon DEF OpenShell

\* The end of a PTY clears its session's entry, unless a newer PTY has taken
\* it.
LEMMA EndShellKeeps ==
  ASSUME BrokerInv, NEW c \in Conns, EndShell(c) PROVE BrokerInv' /\ ServedStep
<1>1. /\ peer[c] = "shell" /\ link[c] # "none" /\ asked[c] \in Sids /\ brokerShell[asked[c]] = c
      /\ peer' = [peer EXCEPT ![c] = "ended"] /\ UNCHANGED <<link, asked>>
  BY Zenon DEF EndShell, BrokerInv, BrokerTypes, LinkHasAsked, PeerHasLink, PtyIsNamed
<1>2. /\ peer' \in [Conns -> Peers] /\ peer'[c] = "ended"
      /\ \A d \in Conns : d # c => peer'[d] = peer[d]
  BY <1>1 DEF BrokerInv, Peers, BrokerTypes, NamedHasPty
<1>3. /\ brokerShell' \in [Sids -> Conns \cup {None}] /\ brokerShell'[asked[c]] = None
      /\ \A s \in Sids : s # asked[c] => brokerShell'[s] = brokerShell[s]
  BY <1>1 DEF BrokerInv, EndShell, BrokerTypes
<1>4. ServedStep
  <2>1. Shells' \cup Starting' \subseteq Shells \cup Starting
    BY <1>2, Zenon DEF Shells, Starting
  <2> QED BY <1>1, <2>1, Zenon DEF Served, ServedStep
<1>5. ASSUME NEW d \in Conns, peer'[d] = "shell" PROVE brokerShell'[asked[d]] = d
  <2>1. d # c /\ peer[d] = "shell"
    BY <1>2, <1>5, Zenon
  <2>2. brokerShell[asked[d]] = d /\ asked[d] \in Sids
    BY <2>1, Zenon DEF BrokerInv, LinkHasAsked, PeerHasLink, PtyIsNamed
  <2> QED BY <1>1, <1>3, <2>1, <2>2, Zenon
<1>6. ASSUME NEW s \in Sids, brokerShell'[s] # None
      PROVE  peer'[brokerShell'[s]] = "shell" /\ asked[brokerShell'[s]] = s
  <2>1. PICK d \in Conns : d = brokerShell[s] /\ d = brokerShell'[s] /\ s # asked[c]
    BY <1>3, <1>6, Zenon
  <2>2. peer[d] = "shell" /\ asked[d] = s
    BY <2>1, HeldShell, Zenon
  <2> QED BY <1>2, <2>1, <2>2, Zenon
<1>7. BrokerInv'
  BY <1>1, <1>2, <1>3 DEF BrokerInv, BrokerTypes, LinkHasAsked, PeerHasLink, PtyIsNamed, NamedHasPty
<1> QED BY <1>4, <1>7, Zenon

\* attachShell: the PTY of a connection replaces the one its session had.
LEMMA AttachShellKeeps ==
  ASSUME BrokerInv, NEW c \in Conns, AttachShell(c) PROVE BrokerInv' /\ ServedStep
<1>1. PICK s \in Sids : s = asked[c]
  BY Zenon DEF AttachShell, BrokerInv, LinkHasAsked, PeerHasLink
<1>2. PICK spawned \in BOOLEAN :
        /\ peer' = [d \in Conns |->
                      IF d = c THEN IF spawned THEN "shell" ELSE "refused"
                      ELSE IF d = brokerShell[asked[c]] THEN "ended" ELSE peer[d]]
        /\ brokerShell' = [brokerShell EXCEPT ![asked[c]] = IF spawned THEN c ELSE None]
  BY Zenon DEF AttachShell
<1>3. peer[c] = "inspecting" /\ link[c] # "none" /\ UNCHANGED <<link, asked>>
  BY Zenon DEF AttachShell, BrokerInv, LinkHasAsked, PeerHasLink, PtyIsNamed
<1>4. /\ peer' \in [Conns -> Peers] /\ peer'[c] = IF spawned THEN "shell" ELSE "refused"
      /\ \A d \in Conns : d # c => peer'[d] = IF d = brokerShell[s] THEN "ended" ELSE peer[d]
  BY <1>1, <1>2, Zenon DEF BrokerInv, Peers, BrokerTypes, LinkHasAsked
<1>5. /\ brokerShell' \in [Sids -> Conns \cup {None}]
      /\ brokerShell'[s] = IF spawned THEN c ELSE None
      /\ \A z \in Sids : z # s => brokerShell'[z] = brokerShell[z]
  BY <1>1, <1>2, Zenon DEF BrokerInv, BrokerTypes
<1>6. \A d \in Conns : d = brokerShell[s] => link[d] # "none"
  BY HeldShell, Zenon DEF BrokerInv, PeerHasLink
<1>7. ServedStep
  <2>1. Shells' \cup Starting' \subseteq Shells \cup Starting
    BY <1>3, <1>4, Zenon DEF Shells, Starting
  <2> QED BY <1>3, <2>1, Zenon DEF Served, ServedStep
<1>8. ASSUME NEW d \in Conns, peer'[d] = "shell" PROVE brokerShell'[asked[d]] = d
  <2>1. CASE d = c
    BY <1>1, <1>4, <1>5, <1>8, <2>1
  <2>2. CASE d # c
    <3>1. peer[d] = "shell" /\ d # brokerShell[s]
      BY <1>4, <1>8, <2>2, Zenon
    <3>2. brokerShell[asked[d]] = d /\ asked[d] \in Sids
      BY <3>1, Zenon DEF BrokerInv, LinkHasAsked, PeerHasLink, PtyIsNamed
    <3> QED BY <1>5, <3>1, <3>2, Zenon
  <2> QED BY <2>1, <2>2, Zenon
<1>9. ASSUME NEW z \in Sids, brokerShell'[z] # None
      PROVE  peer'[brokerShell'[z]] = "shell" /\ asked[brokerShell'[z]] = z
  <2>1. CASE z = s
    BY <1>1, <1>4, <1>5, <1>9, <2>1, Zenon
  <2>2. CASE z # s
    <3>1. PICK d \in Conns : d = brokerShell[z] /\ d = brokerShell'[z]
      BY <1>5, <1>9, <2>2, Zenon
    <3>2. peer[d] = "shell" /\ asked[d] = z
      BY <3>1, HeldShell, Zenon
    <3>3. d # c /\ d # brokerShell[s]
      BY <1>3, <2>2, <3>2, HeldShell, Zenon
    <3>4. peer'[d] = "shell"
      BY <1>4, <3>2, <3>3, Zenon
    <3> QED BY <3>1, <3>2, <3>4, Zenon
  <2> QED BY <2>1, <2>2, Zenon
<1>10. BrokerInv'
  BY <1>3, <1>4, <1>5, <1>6, <1>8 DEF BrokerInv, BrokerTypes, LinkHasAsked, PeerHasLink, PtyIsNamed,
     NamedHasPty
<1> QED BY <1>7, <1>10, Zenon

\* Every step of the broker.
LEMMA BrokerStepKeeps ==
  ASSUME BrokerInv, NEW c \in Conns, BrokerStep(c) PROVE BrokerInv' /\ ServedStep
<1>1. CASE Deny(c) \/ CallerGone(c)
  <2>1. /\ peer[c] \in {"inspecting", "gone"} /\ peer' = [peer EXCEPT ![c] = "refused"]
        /\ link[c] # "none" /\ UNCHANGED <<link, asked, brokerShell>>
    BY <1>1, Zenon DEF Deny, CallerGone, BrokerInv, LinkHasAsked, PeerHasLink
  <2> QED BY <2>1, QuietKeeps, Zenon
<1>2. CASE SocketClosed(c) /\ ~EndShell(c)
  <2>1. PICK x \in {"gone", "refused"} :
          /\ peer' = [peer EXCEPT ![c] = x] /\ (x = "gone" => peer[c] = "inspecting")
          /\ peer[c] # "shell" /\ link[c] # "none" /\ UNCHANGED <<link, asked, brokerShell>>
    BY <1>2, Zenon DEF SocketClosed
  <2> QED BY <2>1, QuietKeeps, Zenon
<1> QED BY <1>1, <1>2, OpenShellKeeps, AttachShellKeeps, EndShellKeeps, Zenon DEF BrokerStep,
           ShellEnds
-----------------------------------------------------------------------------
(* How the steps of an attach keep the turns.                              *)

\* Joining a queue changes nobody's place at its head.
LEMMA AppendFirst ==
  ASSUME NEW q \in Seq(Conns), NEW b \in Conns
  PROVE  Append(q, b) \in Seq(Conns) /\ \A a : First(q, a) => First(Append(q, b), a)
  BY DEF First

\* What is left of a queue is a queue.
LEMMA TailTyped == ASSUME NEW q \in Seq(Conns), q # <<>> PROVE Tail(q) \in Seq(Conns)
  OBVIOUS

\* The step pc is set to at one connection.
LEMMA PcSet ==
  ASSUME TurnInv, NEW a \in Conns, NEW step \in Steps, pc' = [pc EXCEPT ![a] = step]
  PROVE  /\ pc' \in [Conns -> Steps] /\ pc'[a] = step
         /\ \A b \in Conns : b # a => pc'[b] = pc[b]
  BY Zenon DEF TurnInv, TurnTypes

\* Only the first in a queue is in flight.
LEMMA OneInFlight ==
  ASSUME TurnInv, NEW a \in Conns, NEW b \in Conns, First(queue[sid[a]], a),
         pc[b] \in InFlight, sid[a] = sid[b]
  PROVE  a = b
  BY Zenon DEF TurnInv, First, StepsHaveSid, InFlightIsFirst, StepsFitSession

InTurn(a) == pc[a] \in InFlight \/ (pc[a] = "waiting" /\ Running(a))

\* An attach in its turn is at the head of its session's queue.
LEMMA InTurnFirst ==
  ASSUME TurnInv, NEW a \in Conns, InTurn(a)
  PROVE  /\ sid[a] \in Sids /\ First(queue[sid[a]], a)
         /\ pc[a] \notin {"new", "ready", "over"}
         /\ a \in Reattaches => sid[a] \in Containers
<1>1. pc[a] \notin {"new", "ready", "over"}
  BY Zenon DEF InTurn, InFlight
<1>2. sid[a] \in Sids /\ (a \in Reattaches => sid[a] \in Containers)
  BY Zenon DEF InTurn, TurnInv, StepsHaveSid, InFlightIsFirst, StepsFitSession, ReattachHasTarget,
     TurnTypes
<1>3. First(queue[sid[a]], a)
  BY Zenon DEF InTurn, TurnInv, Running, First, StepsHaveSid, InFlightIsFirst
<1> QED BY <1>1, <1>2, <1>3, Zenon

\* A browser's attach goes on to its next await in its turn.
LEMMA SocketPasses ==
  ASSUME TurnInv, NEW w \in Sockets, NEW step \in InFlight, InTurn(w),
         step \in LocalSteps => sid[w] \notin Containers,
         step = "dial" => sid[w] \in Containers,
         MovesTo(w, step), UNCHANGED <<sid, target>>
  PROVE  TurnInv'
<1>1. /\ w \in Conns /\ step \in Steps /\ step \notin {"new", "waiting", "ready", "over"}
      /\ Sockets \cap Reattaches = {}
  BY Names, Zenon DEF InFlight, Steps
<1>2. sid[w] \in Sids /\ First(queue[sid[w]], w) /\ pc[w] # "ready"
  BY <1>1, InTurnFirst, Zenon
<1>3. /\ pc' \in [Conns -> Steps] /\ pc'[w] = step /\ queue' = queue
      /\ \A b \in Conns : b # w => pc'[b] = pc[b]
  BY <1>1, PcSet, Zenon DEF MovesTo
<1>4. TurnTypes'
  BY <1>3, Zenon DEF TurnInv, TurnTypes, StepsHaveSid, InFlightIsFirst, StepsFitSession,
     ReattachHasTarget
<1>5. StepsHaveSid' /\ InFlightIsFirst'
  BY <1>1, <1>2, <1>3 DEF TurnInv, StepsHaveSid, InFlightIsFirst
<1>6. StepsFitSession'
  BY <1>1, <1>2, <1>3, Names DEF TurnInv, StepsFitSession
<1>7. ReattachHasTarget'
  BY <1>1, <1>2, <1>3, Names DEF TurnInv, TurnTypes, ReattachHasTarget
<1> QED BY <1>4, <1>5, <1>6, <1>7, Zenon DEF TurnInv
\* A reattach goes on to its next await, its target found or already known.
LEMMA ReattachPasses ==
  ASSUME TurnInv, NEW r \in Reattaches, NEW step \in InFlight \cap ReattachSteps, InTurn(r),
         MovesTo(r, step), UNCHANGED sid,
         \/ pc[r] \in InFlight /\ UNCHANGED target
         \/ \E w \in Sockets : /\ target' = [target EXCEPT ![r] = w]
                               /\ sid[w] = sid[r] /\ pc[w] = "ready"
  PROVE  TurnInv'
<1>1. r \in Conns /\ step \in Steps /\ step \notin {"new", "waiting", "ready", "over"}
  BY Names, Zenon DEF InFlight, Steps
<1>2. sid[r] \in Containers /\ sid[r] \in Sids /\ First(queue[sid[r]], r)
  BY <1>1, InTurnFirst, Zenon
<1>3. /\ target' \in [Reattaches -> Sockets \cup {None}]
      /\ target'[r] \in Sockets /\ sid[target'[r]] = sid[r] /\ pc[target'[r]] = "ready"
      /\ \A q \in Reattaches \ {r} : target'[q] = target[q]
  BY DEF TurnInv, TurnTypes, StepsHaveSid, InFlightIsFirst, StepsFitSession, ReattachHasTarget
<1>4. /\ pc' \in [Conns -> Steps] /\ pc'[r] = step /\ queue' = queue
      /\ \A b \in Conns : b # r => pc'[b] = pc[b]
  BY <1>1, PcSet, Zenon DEF MovesTo
<1>5. TurnTypes' /\ \A w \in Sockets : pc'[w] = pc[w]
  BY <1>3, <1>4, Names DEF TurnInv, TurnTypes, StepsHaveSid, StepsFitSession, ReattachHasTarget
<1>6. StepsHaveSid' /\ InFlightIsFirst'
  BY <1>1, <1>2, <1>4 DEF TurnInv, StepsHaveSid, InFlightIsFirst
<1>7. StepsFitSession'
  BY <1>5 DEF TurnInv, StepsFitSession
<1>8. ReattachHasTarget'
  BY <1>1, <1>2, <1>3, <1>4, <1>5, Names DEF TurnInv, TurnTypes, ReattachHasTarget
<1> QED BY <1>5, <1>6, <1>7, <1>8, Zenon DEF TurnInv
\* The turn ends: the next in the queue is not in flight yet.
LEMMA TurnOver ==
  ASSUME TurnInv, NEW a \in Conns, NEW step \in {"ready", "over"}, InTurn(a),
         a \in Reattaches => step = "over",
         TurnEnds(a, step), UNCHANGED <<sid, target>>
  PROVE  TurnInv'
<1>1. step \in Steps /\ step \notin {"waiting"} \cup InFlight \cup LocalSteps
  BY Zenon DEF InFlight, Steps, LocalSteps
<1>2. sid[a] \in Sids /\ First(queue[sid[a]], a) /\ pc[a] # "ready"
  BY InTurnFirst, Zenon
<1>3. /\ pc' \in [Conns -> Steps] /\ pc'[a] = step
      /\ \A b \in Conns : b # a => pc'[b] = pc[b]
  BY <1>1, PcSet, Zenon DEF TurnEnds
<1>4. /\ queue' \in [Sids -> Seq(Conns)]
      /\ \A s \in Sids : s # sid[a] => queue'[s] = queue[s]
  <2>1. queue \in [Sids -> Seq(Conns)] /\ Tail(queue[sid[a]]) \in Seq(Conns)
    BY <1>2, TailTyped, Zenon DEF TurnInv, TurnTypes, First
  <2> QED BY <2>1, Zenon DEF TurnEnds
<1>5. TurnTypes'
  BY <1>3, <1>4, Zenon DEF TurnInv, TurnTypes
<1>6. ASSUME NEW b \in Conns, pc'[b] \in InFlight PROVE sid[b] \in Sids /\ First(queue'[sid[b]], b)
  <2>1. b # a /\ pc[b] \in InFlight
    BY <1>1, <1>3, <1>6, Zenon
  <2>2. sid[b] \in Sids /\ First(queue[sid[b]], b) /\ sid[b] # sid[a]
    BY <1>2, <2>1, OneInFlight, Zenon DEF TurnInv, StepsHaveSid, InFlightIsFirst, ReattachHasTarget,
       TurnTypes
  <2> QED BY <1>4, <2>2, Zenon
<1>7. \A b \in Conns : pc'[b] \in {"waiting", "ready"} \cup InFlight => sid[b] \in Sids
  BY <1>2, <1>3, Zenon DEF TurnInv, StepsHaveSid, InFlightIsFirst
<1>8. StepsHaveSid' /\ InFlightIsFirst'
  BY <1>6, <1>7, Zenon DEF StepsHaveSid, InFlightIsFirst
<1>9. StepsFitSession'
  BY <1>1, <1>3, Names DEF TurnInv, StepsFitSession, InFlight
<1>10. ReattachHasTarget'
  BY <1>1, <1>2, <1>3, Names DEF TurnInv, TurnTypes, ReattachHasTarget, ReattachSteps
<1> QED BY <1>5, <1>8, <1>9, <1>10, Zenon DEF TurnInv
\* enqueueAttach: a new attach or reattach joins the queue of its session.
LEMMA Enqueues ==
  ASSUME TurnInv, NEW a \in Conns, NEW s \in Sids, pc[a] = "new",
         a \in Reattaches => s \in Containers,
         sid' = [sid EXCEPT ![a] = s], pc' = [pc EXCEPT ![a] = "waiting"],
         queue' = [queue EXCEPT ![s] = Append(@, a)], UNCHANGED target
  PROVE  /\ TurnInv'
         /\ pc'[a] = "waiting" /\ sid'[a] = s
         /\ \A b \in Conns : b # a => pc'[b] = pc[b] /\ sid'[b] = sid[b]
<1>1. /\ pc' \in [Conns -> Steps] /\ pc'[a] = "waiting"
      /\ \A b \in Conns : b # a => pc'[b] = pc[b]
  BY DEF TurnInv, TurnTypes, Steps
<1>2. /\ sid' \in [Conns -> Sids \cup {None}] /\ sid'[a] = s
      /\ \A b \in Conns : b # a => sid'[b] = sid[b]
  BY Zenon DEF TurnInv, TurnTypes
<1>3. /\ queue' \in [Sids -> Seq(Conns)]
      /\ \A z \in Sids : \A b : First(queue[z], b) => First(queue'[z], b)
  BY AppendFirst, Zenon DEF TurnInv, TurnTypes
<1>4. TurnTypes'
  BY <1>1 DEF TurnInv, TurnTypes, ReattachHasTarget
<1>5. "waiting" \notin InFlight \cup LocalSteps /\ "waiting" \in ReattachSteps
  BY Zenon DEF InFlight, LocalSteps, ReattachSteps
<1> QED BY <1>1, <1>2, <1>3, <1>4, <1>5, Names DEF TurnInv, StepsHaveSid, InFlightIsFirst,
           StepsFitSession, ReattachHasTarget
-----------------------------------------------------------------------------
(* What a step of connection a leaves of the other parts.                  *)

Only(a) == UNCHANGED sid /\ \A b \in Conns : b # a => pc'[b] = pc[b]

Claimed == {"granted", "files", "home", "spawn", "dial"}
OnDisk == {"home", "spawn", "discard"}

\* Sockets are only closed.
Shuts ==
  /\ socket' \in [Sockets -> ReadyStates]
  /\ \A w \in Sockets : \/ socket'[w] = socket[w]
                        \/ socket[w] # "connecting" /\ socket'[w] \in {"closing", "closed"}

\* Claims are only given up.
GivesUp ==
  /\ claim' \in [Sids -> Sockets \cup {None}]
  /\ \A s \in Sids : claim'[s] \in {claim[s], None}

\* Closing sockets, or leaving them alone, opens none.
LEMMA ClosesShuts == ASSUME WaitInv, NEW W, Closes(W) \/ UNCHANGED socket PROVE Shuts
  BY DEF WaitInv, Closes, Shuts, ReadyStates, WaitTypes, WaitingIsNamed

\* Releasing a claim, or leaving it alone, gives nobody a claim.
LEMMA ReleasesGivesUp ==
  ASSUME EndInv, NEW w, Releases(w) \/ UNCHANGED claim PROVE GivesUp
  BY Zenon DEF EndInv, Releases, GivesUp, EndTypes

\* An attach or reattach in its turn that registers and ends no shell.
Attaches(a, step) ==
  /\ MovesTo(a, step) \/ TurnEnds(a, step)
  /\ Closes({a}) \/ UNCHANGED socket
  /\ Releases(a) \/ UNCHANGED claim
  /\ waiting' \in {waiting, [waiting EXCEPT ![sid[a]] = IF @ = a THEN None ELSE @]}
  /\ owners' \in {owners, owners \cup {sid[a]}}
  /\ UNCHANGED <<active, ending, replaced, sid, shell, bySession, left>>

\* What an attach that changes no shell leaves true of the sockets, shells and
\* ends.
LEMMA AttachFrame ==
  ASSUME TerminalInv, NEW a \in Conns, InTurn(a), NEW step \in Steps \ {"new", "waiting"},
         Attaches(a, step),
         a \in Sockets /\ step \in InFlight => pc[a] \in InFlight,
         a \in Sockets /\ step \in Claimed => pc[a] \in Claimed \/ ending[sid[a]] = "no"
  PROVE  Only(a) /\ pc'[a] = step /\ GivesUp /\ WaitInv' /\ ShellInv' /\ EndInv' /\ SlotStep
<1>1. TurnInv /\ WaitInv /\ ShellInv /\ EndInv
  BY Zenon DEF TerminalInv
<1>2. sid[a] \in Sids /\ pc[a] \notin {"new", "ready", "over"}
  BY <1>1, InTurnFirst, Zenon
<1>3. Only(a) /\ pc'[a] = step
  <2>1. pc' = [pc EXCEPT ![a] = step] /\ UNCHANGED sid
    BY Zenon DEF Attaches, MovesTo, TurnEnds
  <2> QED BY <1>1, <2>1, PcSet, Zenon DEF Only
<1>4. GivesUp /\ Shuts
  BY <1>1, ReleasesGivesUp, ClosesShuts, Zenon DEF Attaches
<1>5. WaitInv'
  <2>1. waiting' \in [Sids -> Sockets \cup {None}] /\ replaced' \subseteq Sockets
    BY <1>1, <1>2, Zenon DEF Attaches, WaitInv, WaitTypes, WaitingIsNamed
  <2>2. ASSUME NEW v \in Sockets, pc'[v] = "waiting", socket'[v] = "open"
        PROVE  waiting'[sid'[v]] = v
    <3>1. v # a /\ v \in Conns /\ pc[v] = "waiting" /\ socket[v] = "open" /\ sid'[v] = sid[v]
      BY <1>3, <1>4, <2>2, Names, Zenon DEF Only, Shuts
    <3>2. waiting[sid[v]] = v /\ sid[v] \in Sids
      BY <1>1, <3>1, Zenon DEF WaitInv, TurnInv, WaitingIsNamed, StepsHaveSid
    <3> QED BY <1>1, <3>1, <3>2, Zenon DEF WaitInv, Attaches, WaitTypes, ConnectingIsNew
  <2>3. \A v \in Sockets : socket'[v] = "connecting" => pc'[v] = "new"
    BY <1>1, <1>2, <1>3, <1>4, Names, Zenon DEF Only, Shuts, WaitInv, WaitTypes, ConnectingIsNew
  <2> QED BY <1>4, <2>1, <2>2, <2>3, Zenon DEF WaitInv, Shuts, WaitTypes, ConnectingIsNew,
             WaitingIsNamed
<1>6. \A w \in Sockets : /\ w # a => pc'[w] = pc[w]
                         /\ pc'[w] \in InFlight => pc[w] \in InFlight
                         /\ pc'[w] \in Claimed /\ ending[sid[w]] \in Ended => pc[w] \in Claimed
  BY <1>3, Names, Zenon DEF Only, Ended
<1>7. UNCHANGED <<active, ending, sid, shell, bySession, left>>
  BY Zenon DEF Attaches
<1>8. ShellInv'
  BY <1>1, <1>2, <1>6, <1>7 DEF ShellInv, ShellTypes, ShellIsNamed, NamedHasShell, InFlightNoShell
<1>9. EndInv'
  <2>1. ASSUME NEW w \in Sockets, pc'[w] \in Claimed, ending[sid[w]] \in Ended
        PROVE  claim'[sid[w]] # w
    <3>1. claim[sid[w]] # w
      BY <1>1, <1>6, <2>1, Zenon DEF EndInv, Claimed, ActiveNotEnding, EndedNoShell, EndedNoClaim
    <3>2. sid[w] \in Sids
      BY <1>1, <1>6, <2>1, Names, Zenon DEF TurnInv, Claimed, InFlight, StepsHaveSid
    <3> QED BY <1>4, <3>1, <3>2, Names, Zenon DEF GivesUp
  <2>2. owners \subseteq owners' /\ owners' \subseteq Sids
    BY <1>1, <1>2, Zenon DEF Attaches, EndInv, EndTypes, EndedNoShell, LocalHasOwner
  <2> QED BY <1>1, <1>4, <1>7, <2>1, <2>2, Zenon DEF EndInv, GivesUp, Claimed, EndTypes,
             ActiveNotEnding, EndedNoShell, EndedNoClaim, LocalHasOwner
<1>10. SlotStep
  BY <1>6, <1>7, Zenon DEF SlotStep, SlotsShrink
<1> QED BY <1>3, <1>4, <1>5, <1>8, <1>9, <1>10, Zenon

\* Directories stay when none is removed.
LEMMA DirsStay ==
  ASSUME ending' = ending, home \subseteq home' PROVE Dirs \subseteq Dirs' /\ home' \subseteq Dirs'
  BY Zenon DEF Dirs

\* What an attach that touches no credentials leaves true of the disk.
LEMMA DiskFrame ==
  ASSUME TerminalInv, NEW a \in Conns, Only(a), GivesUp, UNCHANGED <<files, removing, shell, ending>>,
         UNCHANGED home \/ (home' = home \cup {sid[a]} /\ sid[a] \in Sids), pc[a] # "ready",
         a \in Sockets => /\ pc'[a] \in OnDisk <=> pc[a] \in OnDisk
                          /\ pc'[a] = "spawn" => sid[a] \in home'
  PROVE  DiskInv'
<1>1. \A w \in Sockets : /\ pc'[w] \in OnDisk <=> pc[w] \in OnDisk
                         /\ pc[w] = "ready" => pc'[w] = "ready"
  BY Names, Zenon DEF Only
<1>2. home \subseteq home' /\ home' \subseteq Sids
  BY DEF TerminalInv, DiskInv, DiskTypes
<1>3. Dirs \subseteq Dirs' /\ home' \subseteq Dirs'
  BY <1>2, DirsStay, Zenon
<1>4. ASSUME NEW w \in Sockets, pc'[w] = "spawn", claim'[sid[w]] = w
      PROVE  sid[w] \in Dirs'
  <2>1. CASE w # a
    <3>1. pc[w] = "spawn" /\ sid[w] \in Sids
      BY <1>4, <2>1, Names, Zenon DEF Only, TerminalInv, TurnInv, InFlight, StepsHaveSid
    <3>2. claim[sid[w]] = w
      BY <1>4, <3>1, Names, Zenon DEF GivesUp
    <3> QED BY <1>3, <3>1, <3>2, Zenon DEF TerminalInv, DiskInv, StepHasFiles, ClaimHasHome
  <2> QED BY <1>3, <1>4, <2>1, Zenon
<1> QED BY <1>1, <1>2, <1>3, <1>4 DEF TerminalInv, DiskInv, Only, OnDisk, DiskTypes, RemovingIsOver,
           StepHasFiles, ClaimHasHome, LocalHasFiles, FilesHaveUser

\* The connection of a shell.
LEMMA ShellLink ==
  ASSUME LinkInv, NEW w \in Sockets, NEW c \in Conns, c = shell[w]
  PROVE  /\ c = w \/ (c \in Reattaches /\ target[c] = w /\ pc[c] = "over")
         /\ sid[w] \in Containers => link[c] # "none"
  BY Names, Zenon DEF LinkInv, ShellHasLink

\* Dropping connections, with the shells they carried, leaves none attached
\* without a shell.
LEMMA LinkDrops ==
  ASSUME LinkInv, TurnInv, sid' = sid,
         shell' \in [Sockets -> Conns \cup {None}], link' \in [Conns -> Links],
         \A w \in Sockets : shell'[w] \in {shell[w], None},
         \A c \in Conns : link'[c] # link[c] => link[c] # "none" /\ link'[c] = "dropped",
         \A w \in Sockets : shell'[w] # shell[w] => link'[shell[w]] # "attached",
         \A c \in Conns : pc'[c] # pc[c] =>
           /\ pc[c] \notin {"ready", "over"} /\ pc'[c] # "dial"
           /\ pc'[c] \notin {"ready", "over"} => link'[c] = "none",
         \A r \in Reattaches : pc[r] \in {"dial", "over"} => target'[r] = target[r]
  PROVE  LinkInv'
<1>1. \A c \in Conns : /\ pc'[c] \notin {"dial", "ready", "over"} => link'[c] = "none"
                       /\ pc'[c] = "dial" => pc[c] = "dial" /\ link'[c] # "none"
  BY DEF LinkInv, LinkIsNone, DialHasLink
<1>2. ASSUME NEW w \in Sockets, shell'[w] # None
      PROVE  /\ \/ shell'[w] = w
                \/ /\ shell'[w] \in Reattaches
                   /\ target'[shell'[w]] = w /\ pc'[shell'[w]] = "over"
             /\ sid[w] \in Containers => link'[shell'[w]] # "none"
  <2>1. PICK c \in Conns : c = shell[w] /\ c = shell'[w]
    BY <1>2
  <2>2. /\ c = w \/ (c \in Reattaches /\ target[c] = w /\ pc[c] = "over")
        /\ sid[w] \in Containers => link[c] # "none"
    BY <1>2, <2>1 DEF LinkInv, LinkIsNone, DialHasLink, ShellHasLink, AttachedIsShell
  <2>3. pc[c] = "over" => pc'[c] = "over"
    BY Zenon
  <2>4. link[c] # "none" => link'[c] # "none"
    BY Zenon
  <2> QED BY <2>1, <2>2, <2>3, <2>4, Zenon
<1>3. ASSUME NEW c \in Conns, link'[c] = "attached" PROVE \E w \in Sockets : shell'[w] = c
  <2>1. PICK w \in Sockets : shell[w] = c
    BY <1>3 DEF LinkInv, AttachedIsShell
  <2> QED BY <1>3, <2>1, Zenon
<1>4. ASSUME NEW r \in Reattaches, pc'[r] = "dial", shell'[target'[r]] # None
      PROVE  link'[shell'[target'[r]]] # "attached"
  <2>1. pc[r] = "dial" /\ target'[r] = target[r]
    BY <1>4, Names, Zenon
  <2>2. target[r] \in Sockets
    BY <2>1, Zenon DEF TurnInv, InFlight, StepsHaveSid, ReattachHasTarget, TurnTypes
  <2>3. PICK c \in Conns : c = shell[target[r]] /\ c = shell'[target[r]]
    BY <1>4, <2>1, <2>2
  <2>4. shell[target[r]] # None => link[shell[target[r]]] # "attached"
    BY <2>1, Zenon DEF LinkInv, ShellHasLink, DialsDetached
  <2>5. c # None
    BY Names, Zenon
  <2>6. link[c] # "attached"
    BY ONLY <2>3, <2>4, <2>5, Zenon
  <2> QED BY <2>1, <2>3, <2>6
<1> QED BY <1>4 DEF LinkInv, LinkIsNone, DialHasLink, ShellHasLink, AttachedIsShell, DialsDetached

\* No connection is touched.
LEMMA QuietFrame ==
  ASSUME TerminalInv, NEW a \in Conns, Only(a), pc[a] \notin {"dial", "ready", "over"}, pc'[a] # "dial",
         UNCHANGED <<link, shell, peer, asked, brokerShell>>,
         \A r \in Reattaches : r # a => target'[r] = target[r]
  PROVE  LinkInv' /\ BrokerInv' /\ ServedStep
<1>1. TurnInv /\ LinkInv /\ BrokerInv
  BY Zenon DEF TerminalInv
<1>2. /\ shell \in [Sockets -> Conns \cup {None}] /\ link \in [Conns -> Links]
      /\ link[a] = "none"
  BY Zenon DEF TerminalInv, LinkInv, ShellInv, LinkIsNone, AttachedIsShell, DialsDetached,
     ShellTypes
<1>3. LinkInv'
  BY <1>1, <1>2, LinkDrops, Zenon DEF Only
<1>4. BrokerInv' /\ ServedStep
  BY <1>1, BrokerFrame
<1> QED BY <1>3, <1>4, Zenon

\* The connection that was dialed is dropped.
LEMMA DialDropped ==
  ASSUME TerminalInv, NEW a \in Conns, Only(a), pc[a] = "dial", pc'[a] = "over",
         link' = [link EXCEPT ![a] = "dropped"], UNCHANGED <<shell, target, peer, asked, brokerShell>>
  PROVE  LinkInv' /\ BrokerInv' /\ ServedStep
<1>1. TurnInv /\ LinkInv /\ BrokerInv /\ shell \in [Sockets -> Conns \cup {None}]
  BY Zenon DEF TerminalInv, ShellInv, ShellTypes
<1>2. /\ link' \in [Conns -> Links] /\ link'[a] = "dropped" /\ link[a] # "none"
      /\ \A c \in Conns : c # a => link'[c] = link[c]
  BY <1>1 DEF LinkInv, Links, DialHasLink, AttachedIsShell
<1>3. LinkInv'
  BY <1>1, <1>2, LinkDrops, Zenon DEF Only
<1>4. \A c \in Conns : link'[c] = "none" <=> link[c] = "none"
  BY <1>2, Zenon
<1>5. BrokerInv' /\ ServedStep
  BY <1>1, <1>4, BrokerFrame, Zenon
<1> QED BY <1>3, <1>5, Zenon

\* An attach or reattach dials the broker, its target's old connection
\* detached.
LEMMA LinkDials ==
  ASSUME LinkInv, TurnInv, ShellInv, NEW a \in Conns, Only(a), UNCHANGED <<shell, target>>,
         pc[a] = "granted", pc'[a] = "dial",
         link' \in [Conns -> Links], link'[a] = "dialing",
         \A c \in Conns : c # a /\ link'[c] # link[c] => link[c] # "none" /\ link'[c] = "dropped",
         a \in Reattaches /\ shell[target[a]] # None => link'[shell[target[a]]] # "attached"
  PROVE  LinkInv'
<1>1. \A c \in Conns : /\ pc'[c] \notin {"dial", "ready", "over"} => link'[c] = "none"
                       /\ pc'[c] = "dial" => link'[c] # "none"
  BY DEF LinkInv, Only, LinkIsNone, DialHasLink
<1>2. ASSUME NEW w \in Sockets, shell[w] # None
      PROVE  /\ \/ shell[w] = w
                \/ shell[w] \in Reattaches /\ target[shell[w]] = w /\ pc'[shell[w]] = "over"
             /\ sid[w] \in Containers => link'[shell[w]] # "none"
  <2>1. PICK c \in Conns : c = shell[w]
    BY <1>2 DEF ShellInv, ShellTypes, ShellIsNamed, NamedHasShell, InFlightNoShell
  <2>2. /\ c = w \/ (c \in Reattaches /\ target[c] = w /\ pc[c] = "over")
        /\ sid[w] \in Containers => link[c] # "none"
    BY <1>2, <2>1, Zenon DEF LinkInv, LinkIsNone, DialHasLink, ShellHasLink, AttachedIsShell,
       DialsDetached
  <2>3. pc[c] = "over" => pc'[c] = "over"
    BY Zenon DEF Only
  <2>4. link[c] # "none" => link'[c] # "none"
    BY Zenon
  <2> QED BY <2>1, <2>2, <2>3, Zenon
<1>3. ASSUME NEW c \in Conns, link'[c] = "attached" PROVE \E w \in Sockets : shell[w] = c
  BY <1>3 DEF LinkInv, ShellHasLink, AttachedIsShell
<1>4. ASSUME NEW r \in Reattaches, pc'[r] = "dial", shell[target[r]] # None
      PROVE  link'[shell[target[r]]] # "attached"
  <2>1. CASE r = a
    BY <1>4, <2>1, Zenon
  <2>2. CASE r # a
    <3>1. pc[r] = "dial"
      BY <1>4, <2>2, Names, Zenon DEF Only
    <3>2. target[r] \in Sockets
      BY <3>1, Zenon DEF TurnInv, InFlight, StepsFitSession, ReattachHasTarget, TurnTypes
    <3>3. PICK c \in Conns : c = shell[target[r]]
      BY <1>4, <3>2, Zenon DEF ShellInv, ShellTypes, NamedHasShell
    <3>4. link[shell[target[r]]] # "attached"
      BY <1>4, <3>1, Zenon DEF LinkInv, LinkIsNone, DialHasLink, ShellHasLink, AttachedIsShell,
         DialsDetached
    <3>5. link[c] # "attached" => link'[c] # "attached"
      BY Zenon
    <3> QED BY <3>3, <3>4, Zenon
  <2> QED BY <2>1, <2>2, Zenon
<1>5. shell' = shell /\ target' = target /\ sid' = sid
  BY Zenon DEF Only
<1> QED BY <1>1, <1>2, <1>4, <1>5 DEF LinkInv, LinkIsNone, DialHasLink, ShellHasLink,
           AttachedIsShell, DialsDetached

\* The connection of a becomes the shell of w, which had none or one detached.
LEMMA LinkRegisters ==
  ASSUME TurnInv, LinkInv, NEW w \in Sockets, NEW a \in Conns, Only(a), pc[a] \in {"spawn", "dial"},
         \/ a = w /\ pc'[a] = "ready"
         \/ a \in Reattaches /\ target[a] = w /\ pc'[a] = "over",
         shell \in [Sockets -> Conns \cup {None}], shell' = [shell EXCEPT ![w] = a],
         \A v \in Sockets : shell[v] # a, shell[w] # None => link[shell[w]] # "attached",
         \A r \in Reattaches : r # a /\ pc[r] = "dial" => target[r] # w,
         link' \in [Conns -> Links], \A c \in Conns : c # a => link'[c] = link[c],
         link'[a] = IF pc[a] = "dial" THEN "attached" ELSE "none",
         sid[w] \in Containers => pc[a] = "dial", UNCHANGED target
  PROVE  LinkInv'
<1>1. /\ shell' \in [Sockets -> Conns \cup {None}] /\ shell'[w] = a /\ sid' = sid
      /\ \A v \in Sockets : v # w => shell'[v] = shell[v]
  BY Zenon DEF Only
<1>2. \A c \in Conns : /\ pc'[c] \notin {"dial", "ready", "over"} => link'[c] = "none"
                       /\ pc'[c] = "dial" => link'[c] # "none"
  BY DEF LinkInv, Only, LinkIsNone, DialHasLink
<1>3. ASSUME NEW v \in Sockets, shell'[v] # None
      PROVE  /\ \/ shell'[v] = v
                \/ /\ shell'[v] \in Reattaches
                   /\ target[shell'[v]] = v /\ pc'[shell'[v]] = "over"
             /\ sid[v] \in Containers => link'[shell'[v]] # "none"
  <2>1. CASE v = w
    BY <2>1, Zenon
  <2>2. CASE v # w
    <3>1. PICK c \in Conns : c = shell[v] /\ c = shell'[v] /\ c # a
      BY <1>3, <2>2
    <3>2. /\ c = v \/ (c \in Reattaches /\ target[c] = v /\ pc[c] = "over")
          /\ sid[v] \in Containers => link[c] # "none"
      BY <3>1, ShellLink
    <3> QED BY <3>1, <3>2, Zenon DEF Only
  <2> QED BY <2>1, <2>2, Zenon
<1>4. ASSUME NEW c \in Conns, link'[c] = "attached" PROVE \E v \in Sockets : shell'[v] = c
  <2>1. CASE c # a
    <3>1. PICK v \in Sockets : shell[v] = c /\ link[c] = "attached"
      BY <1>4, <2>1 DEF LinkInv, AttachedIsShell
    <3>2. v # w
      BY <3>1, Names
    <3> QED BY <1>1, <3>1, <3>2, Zenon
  <2> QED BY <2>1, Zenon
<1>5. ASSUME NEW r \in Reattaches, pc'[r] = "dial", shell'[target[r]] # None
      PROVE  link'[shell'[target[r]]] # "attached"
  <2>1. pc[r] = "dial" /\ r # a
    BY <1>5, Names, Zenon DEF Only
  <2>2. target[r] \in Sockets /\ target[r] # w
    BY <2>1, Zenon DEF TurnInv, InFlight, StepsHaveSid, InFlightIsFirst, StepsFitSession,
       ReattachHasTarget, TurnTypes
  <2>3. PICK c \in Conns : c = shell[target[r]] /\ c = shell'[target[r]] /\ c # a /\ c # None
    BY <1>5, <2>2, Zenon
  <2>4. shell[target[r]] # None => link[shell[target[r]]] # "attached"
    BY <2>1, Zenon DEF LinkInv, ShellHasLink, DialsDetached
  <2>5. link'[c] = link[c]
    BY <2>3, Zenon
  <2> QED BY ONLY <2>3, <2>4, <2>5, Zenon
<1> QED BY <1>1, <1>2, <1>3, <1>4, <1>5 DEF LinkInv, LinkIsNone, DialHasLink, ShellHasLink,
           AttachedIsShell, DialsDetached

-----------------------------------------------------------------------------
(* The steps of an attach.                                                 *)

\* A step in turn that dials nothing and leaves what is on disk, or DiskInv.
LEMMA AttachKeeps ==
  ASSUME TerminalInv, NEW a \in Conns, InTurn(a), pc[a] # "dial",
         NEW step \in Steps \ {"new", "waiting", "dial"}, Attaches(a, step), TurnInv',
         a \in Sockets /\ step \in InFlight => pc[a] \in InFlight,
         a \in Sockets /\ step \in Claimed => pc[a] \in Claimed \/ ending[sid[a]] = "no",
         UNCHANGED <<link, peer, asked, brokerShell>>,
         \A r \in Reattaches : r # a => target'[r] = target[r],
         \/ DiskInv'
         \/ /\ UNCHANGED <<files, removing>>
            /\ home' \in {home, home \cup {sid[a]}}
            /\ a \in Sockets => (step \in OnDisk <=> pc[a] \in OnDisk)
            /\ a \in Sockets /\ step = "spawn" => sid[a] \in home'
  PROVE  Kept
<1>1. sid[a] \in Sids /\ pc[a] \notin {"new", "ready", "over"} /\ UNCHANGED <<shell, ending>>
  BY InTurnFirst, Zenon DEF TerminalInv, Attaches
<1>2. Only(a) /\ pc'[a] = step /\ GivesUp /\ WaitInv' /\ ShellInv' /\ EndInv' /\ SlotStep
  BY AttachFrame, Zenon
<1>3. DiskInv'
  BY <1>1, <1>2, DiskFrame, Zenon
<1>4. LinkInv' /\ BrokerInv' /\ ServedStep
  BY <1>1, <1>2, QuietFrame, Zenon
<1> QED BY <1>2, <1>3, <1>4, Zenon DEF Kept, TerminalInv

\* The API answers the credentials request of an attach.
LEMMA ApiAnswersKeeps ==
  ASSUME TerminalInv, NEW a \in Conns, ApiAnswers(a) PROVE Kept
<1>1. PICK step \in {"granted", "refused"} :
        MovesTo(a, step) /\ (step = "granted" => sid[a] \in active)
  BY Zenon DEF ApiAnswers
<1>2. /\ pc[a] = "fetch" /\ InTurn(a) /\ Attaches(a, step)
      /\ UNCHANGED <<sid, target, files, removing, home, link, peer, asked, brokerShell>>
  BY <1>1, Zenon DEF ApiAnswers, Attaches, InTurn, InFlight, socketVars, shellVars, diskVars,
     brokerVars
<1>3. /\ step \in InFlight \cap ReattachSteps /\ step \in Steps \ {"new", "waiting", "dial"}
      /\ step \notin LocalSteps \cup OnDisk /\ pc[a] \in InFlight \ OnDisk
      /\ step \in Claimed => ending[sid[a]] = "no"
  BY <1>1, <1>2, Zenon DEF TerminalInv, EndInv, Steps, InFlight, ReattachSteps, LocalSteps, OnDisk,
     Claimed, ActiveNotEnding, EndedNoShell, EndedNoClaim
<1>4. TurnInv'
  <2>1. CASE a \in Sockets
    BY <1>1, <1>2, <1>3, <2>1, SocketPasses, Zenon DEF TerminalInv
  <2>2. CASE a \in Reattaches
    BY <1>1, <1>2, <1>3, <2>2, ReattachPasses, Zenon DEF TerminalInv
  <2> QED BY <2>1, <2>2, Names, Zenon
<1> QED BY <1>2, <1>3, <1>4, AttachKeeps, Zenon

\* An attach without files gives up and releases its claim.
LEMMA GiveUpKeeps ==
  ASSUME TerminalInv, NEW w \in Sockets, pc[w] \in InFlight \ OnDisk, GiveUp(w),
         UNCHANGED <<active, ending, waiting, replaced, sid, target>>,
         UNCHANGED <<files, removing, home, owners, left, peer, asked, brokerShell>>,
         IF pc[w] = "dial" THEN link' = [link EXCEPT ![w] = "dropped"] ELSE link' = link
  PROVE  Kept
<1>1. /\ w \in Conns /\ w \notin Reattaches /\ "over" \in Steps \ {"new", "waiting", "dial"}
      /\ "over" \notin InFlight \cup Claimed \cup OnDisk /\ pc[w] # "ready"
      /\ InTurn(w) /\ Attaches(w, "over") /\ TurnEnds(w, "over") /\ UNCHANGED shell
  BY Names, Zenon DEF GiveUp, Attaches, InTurn, InFlight, Steps, Claimed, OnDisk
<1>2. TurnInv'
  BY <1>1, TurnOver, Zenon DEF TerminalInv
<1>3. CASE pc[w] # "dial"
  BY <1>1, <1>2, <1>3, AttachKeeps, Zenon
<1>4. CASE pc[w] = "dial"
  <2>1. Only(w) /\ pc'[w] = "over" /\ GivesUp /\ WaitInv' /\ ShellInv' /\ EndInv' /\ SlotStep
    BY <1>1, AttachFrame, Zenon
  <2>2. DiskInv'
    BY <1>1, <2>1, DiskFrame, Zenon
  <2>3. LinkInv' /\ BrokerInv' /\ ServedStep
    BY <1>1, <1>4, <2>1, DialDropped, Zenon
  <2> QED BY <1>2, <2>1, <2>2, <2>3, Zenon DEF Kept, TerminalInv
<1> QED BY <1>3, <1>4, Zenon

\* An attach registers its shell, which is local or behind the broker.
LEMMA RegistersKeeps ==
  ASSUME TerminalInv, NEW w \in Sockets, pc[w] \in {"spawn", "dial"}, ~Stale(w),
         shell' = [shell EXCEPT ![w] = w], bySession' = [bySession EXCEPT ![sid[w]] = w],
         TurnEnds(w, "ready"),
         UNCHANGED <<active, ending, socket, waiting, replaced, sid, target, claim>>,
         UNCHANGED <<files, removing, home, left, peer, asked, brokerShell>>,
         IF pc[w] = "dial" THEN link' = [link EXCEPT ![w] = "attached"] /\ owners' = owners
                           ELSE link' = link /\ owners' = owners \cup {sid[w]}
  PROVE  Kept
<1>1. TurnInv /\ WaitInv /\ ShellInv /\ EndInv /\ DiskInv /\ LinkInv /\ BrokerInv
  BY Zenon DEF TerminalInv
<1>2. /\ w \in Conns /\ w \notin Reattaches /\ pc[w] \in InFlight /\ w # None
      /\ "ready" \in Steps /\ "ready" \notin InFlight \cup Claimed \cup OnDisk /\ InTurn(w)
  BY Names, Zenon DEF InFlight, Steps, Claimed, OnDisk, InTurn
<1>3. Only(w) /\ pc'[w] = "ready"
  BY <1>1, <1>2, PcSet, Zenon DEF TurnEnds, Only
<1>4. /\ sid[w] \in Sids /\ First(queue[sid[w]], w) /\ (pc[w] = "dial" <=> sid[w] \in Containers)
      /\ bySession[sid[w]] = None /\ shell[w] = None
  BY <1>1, <1>2, Zenon DEF TurnInv, ShellInv, LocalSteps, StepsHaveSid, InFlightIsFirst,
     StepsFitSession, ShellIsNamed, InFlightNoShell
<1>5. /\ shell' \in [Sockets -> Conns \cup {None}] /\ shell'[w] = w
      /\ \A v \in Sockets : v # w => shell'[v] = shell[v]
  BY <1>1, <1>2, Zenon DEF ShellInv, ShellTypes
<1>6. /\ bySession' \in [Sids -> Sockets \cup {None}] /\ bySession'[sid[w]] = w
      /\ \A s \in Sids : s # sid[w] => bySession'[s] = bySession[s]
  BY <1>1, <1>4, Zenon DEF ShellInv, ShellTypes
<1>7. TurnInv'
  BY <1>1, <1>2, TurnOver, Zenon
<1>8. WaitInv'
  <2>1. \A v \in Sockets : /\ pc'[v] = "waiting" => pc[v] = "waiting"
                           /\ pc[v] = "new" => pc'[v] = "new"
    BY <1>3, Names, Zenon DEF Only
  <2> QED BY <1>1, <2>1 DEF WaitInv, WaitTypes, ConnectingIsNew, WaitingIsNamed
<1>9. ShellInv'
  <2>1. ASSUME NEW v \in Sockets, v # w, shell[v] # None PROVE sid[v] \in Sids /\ sid[v] # sid[w]
    BY <1>1, <1>4, <2>1, Names DEF ShellInv, TurnInv, ShellIsNamed, StepsHaveSid
  <2>2. ASSUME NEW v \in Sockets, v # w, pc[v] \in InFlight PROVE sid[v] \in Sids /\ sid[v] # sid[w]
    BY <1>1, <1>4, <2>2, Names, OneInFlight, Zenon DEF TurnInv, StepsHaveSid
  <2>3. ASSUME NEW v \in Sockets, shell'[v] # None PROVE pc'[v] = "ready" /\ bySession'[sid[v]] = v
    BY <1>1, <1>3, <1>6, <2>1, <2>3, Names DEF ShellInv, Only, ShellIsNamed
  <2>4. ASSUME NEW s \in Sids, bySession'[s] # None
        PROVE  shell'[bySession'[s]] # None /\ sid[bySession'[s]] = s
    BY <1>1, <1>5, <2>4 DEF ShellInv, NamedHasShell
  <2>5. ASSUME NEW v \in Sockets, pc'[v] \in InFlight PROVE bySession'[sid[v]] = None
    BY <1>1, <1>2, <1>3, <2>2, <2>5, Names DEF ShellInv, Only, ShellTypes, NamedHasShell,
       InFlightNoShell
  <2> QED BY <1>5, <1>6, <2>3, <2>4, <2>5 DEF ShellInv, ShellTypes, ShellIsNamed, NamedHasShell,
             InFlightNoShell
<1>10. SlotStep
  <2>1. SlotMoves(w)
    BY <1>2, <1>3, <1>4, <1>5, Names DEF Only, SlotMoves
  <2> QED BY <2>1, Zenon DEF SlotStep
<1>11. claim[sid[w]] = w
  BY Zenon DEF Stale, Superseded
<1>12. EndInv'
  <2>1. ending[sid[w]] \notin Ended
    BY <1>1, <1>11, Zenon DEF EndInv, EndedNoClaim
  <2>2. ASSUME NEW v \in Sockets, pc'[v] \in Claimed PROVE pc[v] \in Claimed
    BY <1>2, <1>3, <2>2, Names, Zenon DEF Only
  <2>3. owners \subseteq owners' /\ owners' \subseteq Sids /\ left \subseteq owners'
    BY <1>1, <1>4, Zenon DEF EndInv, EndTypes
  <2>4. ASSUME NEW v \in Sockets, shell'[v] # None, sid[v] \notin Containers PROVE sid[v] \in owners'
    BY <1>1, <1>4, <2>3, <2>4 DEF EndInv, ActiveNotEnding, EndedNoClaim, LocalHasOwner
  <2>5. \A s \in Sids : ending[s] \in Ended => bySession'[s] = None
    BY <1>1, <1>6, <2>1, Zenon DEF EndInv, ActiveNotEnding, EndedNoShell
  <2> QED BY <1>1, <2>2, <2>3, <2>4, <2>5, Zenon DEF EndInv, Claimed, EndTypes, ActiveNotEnding,
             EndedNoShell, EndedNoClaim, LocalHasOwner
<1>13. DiskInv'
  <2>1. w \notin removing
    BY <1>1, Zenon DEF DiskInv, RemovingIsOver, FilesHaveUser
  <2>2. pc[w] = "spawn" => w \in files /\ sid[w] \in Dirs
    BY <1>1, <1>11, Zenon DEF DiskInv, StepHasFiles, ClaimHasHome, LocalHasFiles
  <2>3. \A v \in Sockets : v # w => pc'[v] = pc[v]
    BY <1>3, Names, Zenon DEF Only
  <2>4. Dirs \subseteq Dirs'
    BY DirsStay
  <2> QED BY <1>1, <1>2, <1>3, <1>4, <1>5, <2>2, <2>3, <2>4 DEF DiskInv, DiskTypes, RemovingIsOver,
             StepHasFiles, ClaimHasHome, LocalHasFiles, FilesHaveUser
<1>14. LinkInv'
  <2>1. /\ link' \in [Conns -> Links] /\ \A c \in Conns : c # w => link'[c] = link[c]
        /\ link'[w] = IF pc[w] = "dial" THEN "attached" ELSE "none"
    BY <1>1, <1>2, Zenon DEF LinkInv, Links, LinkIsNone
  <2>2. shell \in [Sockets -> Conns \cup {None}] /\ \A v \in Sockets : shell[v] # w
    BY <1>1, <1>2, <1>4, Zenon DEF ShellInv, LinkInv, ShellTypes, ShellHasLink
  <2>3. \A r \in Reattaches : pc[r] = "dial" => target[r] # w
    BY <1>1 DEF TurnInv, InFlight, StepsHaveSid, InFlightIsFirst, StepsFitSession, ReattachHasTarget
  <2> QED BY <1>1, <1>2, <1>3, <1>4, <2>1, <2>2, <2>3, LinkRegisters, Zenon
<1>15. BrokerInv' /\ ServedStep
  <2>1. \A c \in Conns : link'[c] = "none" <=> link[c] = "none"
    BY <1>1, <1>2 DEF LinkInv, DialHasLink
  <2> QED BY <1>1, <2>1, BrokerFrame, Zenon
<1> QED BY <1>7, <1>8, <1>9, <1>10, <1>12, <1>13, <1>14, <1>15, Zenon DEF Kept, TerminalInv

\* An attach goes on after its credentials fetch.
LEMMA FetchedKeeps ==
  ASSUME TerminalInv, NEW w \in Sockets, Fetched(w) PROVE Kept
<1>1. /\ UNCHANGED <<active, ending, waiting, replaced, sid, target, peer, brokerShell>>
      /\ UNCHANGED <<files, removing, home, owners, left>>
      /\ pc[w] \in InFlight \ OnDisk /\ pc[w] # "dial" /\ w \in Conns /\ w \notin Reattaches
      /\ InTurn(w) /\ sid[w] \in Sids
  BY Names, Zenon DEF Fetched, diskVars, InFlight, OnDisk, InTurn, TerminalInv, TurnInv,
     StepsHaveSid
<1>2. CASE GiveUp(w) /\ UNCHANGED <<link, asked>>
  BY <1>1, <1>2, GiveUpKeeps, Zenon
<1>3. CASE /\ pc[w] = "granted" /\ sid[w] \notin Containers
           /\ MovesTo(w, "files")
           /\ UNCHANGED <<socket, shellVars, link, asked>>
  <2>1. /\ "files" \in InFlight \ OnDisk /\ "files" \in Steps \ {"new", "waiting", "dial"}
        /\ pc[w] \in Claimed /\ Attaches(w, "files") /\ UNCHANGED <<link, asked>>
    BY <1>1, <1>3, Zenon DEF InFlight, Claimed, Steps, OnDisk, Attaches, shellVars
  <2>2. TurnInv'
    BY <1>1, <1>3, <2>1, SocketPasses, Zenon DEF TerminalInv
  <2> QED BY <1>1, <2>1, <2>2, AttachKeeps, Zenon
<1>4. CASE /\ pc[w] = "granted" /\ sid[w] \in Containers
           /\ MovesTo(w, "dial")
           /\ link' = [link EXCEPT ![w] = "dialing"]
           /\ asked' = [asked EXCEPT ![w] = sid[w]]
           /\ UNCHANGED <<socket, shellVars>>
  <2>1. /\ "dial" \in InFlight \ OnDisk /\ "dial" \in Steps \ {"new", "waiting"}
        /\ "dial" \notin LocalSteps /\ pc[w] \in Claimed /\ Attaches(w, "dial") /\ UNCHANGED shell
    BY <1>1, <1>4, Zenon DEF InFlight, Claimed, Steps, OnDisk, LocalSteps, Attaches, shellVars
  <2>2. TurnInv'
    BY <1>1, <1>4, <2>1, SocketPasses, Zenon DEF TerminalInv
  <2>3. Only(w) /\ pc'[w] = "dial" /\ GivesUp /\ WaitInv' /\ ShellInv' /\ EndInv' /\ SlotStep
    BY <1>1, <2>1, AttachFrame, Zenon
  <2>4. DiskInv'
    BY <1>1, <1>4, <2>1, <2>3, DiskFrame, Zenon
  <2>5. /\ link' \in [Conns -> Links] /\ link'[w] = "dialing" /\ link[w] = "none"
        /\ \A c \in Conns : c # w => link'[c] = link[c]
    BY <1>1, <1>4, Zenon DEF TerminalInv, LinkInv, Links, LinkIsNone
  <2>6. LinkInv'
    BY <1>1, <1>4, <2>1, <2>3, <2>5, LinkDials, Zenon DEF TerminalInv
  <2>7. BrokerInv' /\ ServedStep
    BY <1>1, <1>4, <2>5, BrokerDials, Zenon DEF TerminalInv
  <2> QED BY <2>2, <2>3, <2>4, <2>6, <2>7, Zenon DEF Kept, TerminalInv
<1> QED BY <1>2, <1>3, <1>4, Zenon DEF Fetched

\* An attach goes on after its credentials are written.
LEMMA WriteCredentialsKeeps ==
  ASSUME TerminalInv, NEW w \in Sockets, WriteCredentials(w) PROVE Kept
<1>1. /\ UNCHANGED <<active, ending, waiting, replaced, sid, target, link, peer, asked, brokerShell>>
      /\ UNCHANGED <<removing, home, owners, left>>
      /\ pc[w] = "files" /\ pc[w] \in InFlight \ OnDisk /\ InTurn(w) /\ w \in Conns
  BY Names, Zenon DEF WriteCredentials, brokerVars, InFlight, OnDisk, InTurn
<1>2. CASE GiveUp(w) /\ UNCHANGED files
  BY <1>1, <1>2, GiveUpKeeps, Zenon
<1>3. CASE /\ files' = files \cup {w}
           /\ MovesTo(w, "home")
           /\ UNCHANGED <<socket, shellVars>>
  <2>1. /\ "home" \in InFlight /\ "home" \in Steps \ {"new", "waiting", "dial"}
        /\ pc[w] \in Claimed \cap LocalSteps /\ Attaches(w, "home") /\ UNCHANGED <<claim, shell>>
    BY <1>1, <1>3, Zenon DEF InFlight, Claimed, Steps, LocalSteps, Attaches, shellVars
  <2>2. TurnInv'
    <3>1. sid[w] \notin Containers
      BY <2>1, Zenon DEF TerminalInv, TurnInv, StepsFitSession
    <3> QED BY <1>1, <1>3, <2>1, <3>1, SocketPasses, Zenon DEF TerminalInv
  <2>3. DiskInv'
    <3>1. pc'[w] = "home" /\ \A v \in Sockets : v # w => pc'[v] = pc[v]
      BY <1>3, <2>1, PcSet, Names, Zenon DEF MovesTo, TerminalInv
    <3>2. Dirs \subseteq Dirs'
      BY <1>1, DirsStay
    <3> QED BY <1>1, <1>3, <2>1, <3>1, <3>2, Zenon DEF TerminalInv, DiskInv, DiskTypes, RemovingIsOver,
               StepHasFiles, ClaimHasHome, LocalHasFiles, FilesHaveUser
  <2> QED BY <1>1, <2>1, <2>2, <2>3, AttachKeeps, Zenon
<1> QED BY <1>2, <1>3, Zenon DEF WriteCredentials

\* An attach goes on after it claimed the home directory.
LEMMA ClaimHomeKeeps ==
  ASSUME TerminalInv, NEW w \in Sockets, ClaimHome(w) PROVE Kept
<1>1. PICK step \in {"spawn", "discard"} :
        /\ MovesTo(w, step) /\ (step = "spawn" => sid[w] \in home')
        /\ home' \in {home, home \cup {sid[w]}}
  BY Zenon DEF ClaimHome
<1>2. /\ UNCHANGED <<sid, target, files, removing, link, peer, asked, brokerShell>>
      /\ pc[w] = "home" /\ InTurn(w) /\ Attaches(w, step) /\ w \in Conns
  BY <1>1, Names, Zenon DEF ClaimHome, brokerVars, socketVars, Attaches, InTurn, InFlight
<1>3. /\ pc[w] \in OnDisk \cap LocalSteps \cap Claimed \cap InFlight
      /\ step \in InFlight \cap OnDisk /\ step \in Steps \ {"new", "waiting", "dial"}
  BY <1>2, Zenon DEF InFlight, OnDisk, Claimed, Steps, LocalSteps
<1>4. TurnInv'
  <2>1. sid[w] \notin Containers
    BY <1>3, Zenon DEF TerminalInv, TurnInv, StepsHaveSid, StepsFitSession
  <2> QED BY <1>1, <1>2, <1>3, <2>1, SocketPasses, Zenon DEF TerminalInv
<1> QED BY <1>1, <1>2, <1>3, <1>4, AttachKeeps, Zenon

\* An attach spawns and registers its local shell, or finds its claim lost.
LEMMA SpawnKeeps ==
  ASSUME TerminalInv, NEW w \in Sockets, Spawn(w) PROVE Kept
<1>1. /\ UNCHANGED <<active, ending, socket, waiting, replaced, sid, target>>
      /\ UNCHANGED <<files, removing, home, left, link, peer, asked, brokerShell>>
      /\ pc[w] = "spawn"
  BY Zenon DEF Spawn, brokerVars, socketVars
<1>2. CASE /\ ~Stale(w)
           /\ owners' = owners \cup {sid[w]}
           /\ shell' = [shell EXCEPT ![w] = w]
           /\ bySession' = [bySession EXCEPT ![sid[w]] = w]
           /\ TurnEnds(w, "ready")
           /\ UNCHANGED claim
  BY <1>1, <1>2, RegistersKeeps, Zenon
<1>3. CASE /\ Releases(w) /\ MovesTo(w, "discard")
           /\ owners' = IF Stale(w) THEN owners ELSE owners \cup {sid[w]}
           /\ UNCHANGED <<shell, bySession>>
  <2>1. /\ pc[w] \in OnDisk \cap LocalSteps \cap InFlight /\ w \in Conns /\ InTurn(w)
        /\ "discard" \in InFlight \cap OnDisk /\ "discard" \in Steps \ {"new", "waiting", "dial"}
        /\ "discard" \notin Claimed /\ Attaches(w, "discard")
    BY <1>1, <1>3, Names, Zenon DEF InFlight, OnDisk, Claimed, Steps, LocalSteps, Attaches, InTurn
  <2>2. TurnInv'
    <3>1. sid[w] \notin Containers
      BY <2>1 DEF TerminalInv, TurnInv, StepsFitSession
    <3> QED BY <1>1, <1>3, <2>1, <3>1, SocketPasses, Zenon DEF TerminalInv
  <2> QED BY <1>1, <2>1, <2>2, AttachKeeps, Zenon
<1> QED BY <1>2, <1>3, Zenon DEF Spawn

\* An attach that failed with files on disk has them removed.
LEMMA DiscardKeeps ==
  ASSUME TerminalInv, NEW w \in Sockets, Discard(w) PROVE Kept
<1>1. /\ UNCHANGED <<sid, target, shell, claim, removing, home, link, peer, asked, brokerShell>>
      /\ Dirs \subseteq Dirs'
      /\ pc[w] = "discard" /\ files' = files \ {w} /\ TurnEnds(w, "over") /\ Attaches(w, "over")
  BY DirsStay, Zenon DEF Discard, Attaches, brokerVars, shellVars
<1>2. /\ InTurn(w) /\ "over" \in Steps \ {"new", "waiting", "dial"} /\ w \in Conns /\ w \notin Reattaches
      /\ "over" \notin InFlight \cup Claimed
  BY <1>1, Names, Zenon DEF InTurn, InFlight, Steps, Claimed
<1>3. TurnInv'
  BY <1>1, <1>2, TurnOver, Zenon DEF TerminalInv
<1>4. DiskInv'
  <2>1. w \notin removing /\ shell[w] = None
    BY <1>1, Zenon DEF TerminalInv, DiskInv, ShellInv, DiskTypes, RemovingIsOver, LocalHasFiles,
       FilesHaveUser, ShellTypes, ShellIsNamed, NamedHasShell
  <2>2. pc'[w] = "over" /\ \A v \in Sockets : v # w => pc'[v] = pc[v]
    BY <1>1, <1>2, PcSet, Names, Zenon DEF TurnEnds, TerminalInv
  <2> QED BY <1>1, <2>1, <2>2, Zenon DEF TerminalInv, DiskInv, DiskTypes, RemovingIsOver,
             StepHasFiles, ClaimHasHome, LocalHasFiles, FilesHaveUser
<1> QED BY <1>1, <1>2, <1>3, <1>4, AttachKeeps, Zenon

\* An attach registers the container shell it dialed, or the dial failed.
LEMMA DialedKeeps ==
  ASSUME TerminalInv, NEW w \in Sockets, Dialed(w) \/ DialFailed(w) PROVE Kept
<1>1. /\ UNCHANGED <<active, ending, waiting, replaced, sid, target, peer, asked, brokerShell>>
      /\ UNCHANGED <<files, removing, home, owners, left>>
      /\ pc[w] = "dial" /\ pc[w] \in InFlight \ OnDisk
  BY Zenon DEF Dialed, DialFailed, diskVars, InFlight, OnDisk
<1>2. CASE /\ ~Stale(w)
           /\ link' = [link EXCEPT ![w] = "attached"]
           /\ shell' = [shell EXCEPT ![w] = w]
           /\ bySession' = [bySession EXCEPT ![sid[w]] = w]
           /\ TurnEnds(w, "ready")
           /\ UNCHANGED <<socket, claim>>
  BY <1>1, <1>2, RegistersKeeps, Zenon
<1>3. CASE GiveUp(w) /\ link' = [link EXCEPT ![w] = "dropped"]
  BY <1>1, <1>3, GiveUpKeeps, Zenon
<1> QED BY <1>2, <1>3, Zenon DEF Dialed, DialFailed
=============================================================================
