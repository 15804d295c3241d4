---------------------------- MODULE TerminalProofs ----------------------------
(***************************************************************************)
(* Proofs of the safety of TerminalGateway: that the other steps of the    *)
(* gateway keep the invariant of TerminalAttachProofs, and what follows;   *)
(* at the end, that the gateway and the broker keep within their ceilings. *)
(***************************************************************************)
EXTENDS TerminalAttachProofs

(* Shells ended: endSession and closeSession.                              *)

\* endSession takes exactly the shells of W off the maps and drops their
\* connections.
LEMMA Unregistered ==
  ASSUME ShellInv, LinkInv, NEW W \in SUBSET Sockets, NEW D, Unregisters(W, D)
  PROVE  /\ shell' \in [Sockets -> Conns \cup {None}]
         /\ \A w \in Sockets : shell'[w] = IF w \in W THEN None ELSE shell[w]
         /\ bySession' \in [Sids -> Sockets \cup {None}]
         /\ \A s \in Sids : bySession'[s] = IF bySession[s] \in W THEN None ELSE bySession[s]
         /\ link' \in [Conns -> Links]
         /\ \A c \in Conns : link'[c] # link[c] => /\ c \in D \/ link[c] = "attached"
                                                   /\ link'[c] = "dropped"
         /\ \A c \in D \cap Conns : link'[c] = "dropped"
         /\ \A w \in W : shell[w] \in Conns => link'[shell[w]] # "attached"
<1>1. \A s \in Sids : bySession[s] \in W => bySession[s] \in W \cap Registered
  BY Names DEF ShellInv, Registered, ShellIsNamed, NamedHasShell, InFlightNoShell
<1>2. /\ bySession' \in [Sids -> Sockets \cup {None}]
      /\ \A s \in Sids : bySession'[s] = IF bySession[s] \in W THEN None ELSE bySession[s]
  BY <1>1, Zenon DEF ShellInv, Unregisters, ShellTypes
<1>3. /\ shell' \in [Sockets -> Conns \cup {None}]
      /\ \A w \in Sockets : shell'[w] = IF w \in W THEN None ELSE shell[w]
  BY Zenon DEF ShellInv, Unregisters, ShellTypes
<1>4. /\ link' \in [Conns -> Links]
      /\ \A c \in Conns : link'[c] # link[c] => /\ c \in D \/ link[c] = "attached"
                                                /\ link'[c] = "dropped"
      /\ \A c \in D \cap Conns : link'[c] = "dropped"
  BY Zenon DEF LinkInv, Links, Unregisters
<1>5. ASSUME NEW w \in W, shell[w] \in Conns PROVE link'[shell[w]] # "attached"
  BY <1>5, Zenon DEF Unregisters, LinkIsNone
<1> QED BY <1>2, <1>3, <1>4, <1>5, Zenon

\* The maps still name each other once some shells have ended.
LEMMA ShellEndsKeep ==
  ASSUME TurnInv, ShellInv, LinkInv, NEW W \in SUBSET Sockets, NEW D, Unregisters(W, D), sid' = sid,
         \A w \in Sockets : shell[w] # None => pc'[w] = pc[w],
         \A w \in Sockets : pc'[w] \in InFlight => pc[w] \in InFlight \/ bySession'[sid[w]] = None
  PROVE  ShellInv'
<1>1. /\ shell' \in [Sockets -> Conns \cup {None}]
      /\ \A w \in Sockets : shell'[w] = IF w \in W THEN None ELSE shell[w]
      /\ bySession' \in [Sids -> Sockets \cup {None}]
      /\ \A s \in Sids : bySession'[s] = IF bySession[s] \in W THEN None ELSE bySession[s]
  BY Unregistered, Zenon
<1>2. ASSUME NEW w \in Sockets, shell'[w] # None PROVE pc'[w] = "ready" /\ bySession'[sid[w]] = w
  <2>1. w \notin W /\ shell[w] # None
    BY <1>1, <1>2
  <2>2. pc[w] = "ready" /\ bySession[sid[w]] = w /\ sid[w] \in Sids
    BY <2>1, Names, Zenon DEF ShellInv, TurnInv, ShellTypes, ShellIsNamed, NamedHasShell,
       InFlightNoShell, StepsHaveSid, InFlightIsFirst, StepsFitSession, ReattachHasTarget, TurnTypes
  <2> QED BY <1>1, <2>1, <2>2, Zenon
<1>3. ASSUME NEW s \in Sids, bySession'[s] # None
      PROVE  shell'[bySession'[s]] # None /\ sid[bySession'[s]] = s
  BY <1>1, <1>3 DEF ShellInv, ShellIsNamed, NamedHasShell
<1>4. ASSUME NEW w \in Sockets, pc'[w] \in InFlight PROVE bySession'[sid[w]] = None
  <2>1. CASE pc[w] \in InFlight
    <3>1. sid[w] \in Sids /\ bySession[sid[w]] = None
      BY <2>1, Names, Zenon DEF ShellInv, TurnInv, ShellTypes, NamedHasShell, InFlightNoShell,
         StepsHaveSid, InFlightIsFirst, TurnTypes
    <3> QED BY <1>1, <3>1, Zenon
  <2> QED BY <1>4, <2>1, Zenon
<1> QED BY <1>1, <1>2, <1>4 DEF ShellInv, ShellTypes, ShellIsNamed, NamedHasShell, InFlightNoShell

\* The end of shells leaves their files to a removal in the background.
LEMMA DiskEndsKeep ==
  ASSUME DiskInv, ShellInv, LinkInv, NEW W \in SUBSET Sockets, NEW D, Unregisters(W, D),
         sid' = sid, UNCHANGED <<files, home>>, Dirs \subseteq Dirs',
         \A w \in Sockets : pc'[w] # pc[w] =>
           pc[w] # "ready" /\ pc[w] \notin OnDisk /\ pc'[w] \notin OnDisk,
         \A w \in Sockets : pc[w] = "spawn" /\ claim'[sid[w]] = w => claim[sid[w]] = w
  PROVE  DiskInv'
<1>1. \A w \in Sockets : shell'[w] = IF w \in W THEN None ELSE shell[w]
  BY Unregistered, Zenon
<1>2. removing' = removing \cup {w \in W : shell[w] # None /\ w \in files}
  BY Zenon DEF Unregisters, Registered
<1>3. \A w \in Sockets : /\ pc'[w] \in OnDisk <=> pc[w] \in OnDisk
                         /\ pc'[w] = "spawn" => pc[w] = "spawn"
                         /\ pc[w] = "ready" => pc'[w] = "ready"
  BY Zenon DEF OnDisk
<1>4. \A w \in Sockets : shell[w] # None => pc[w] = "ready"
  BY Zenon DEF ShellInv, ShellTypes, ShellIsNamed, NamedHasShell
<1> QED BY <1>1, <1>2, <1>4, Zenon DEF DiskInv, OnDisk, DiskTypes, RemovingIsOver, StepHasFiles,
           ClaimHasHome, LocalHasFiles, FilesHaveUser

\* The end of shells drops their connections and creates none.
LEMMA LinkEndsKeep ==
  ASSUME TurnInv, ShellInv, LinkInv, NEW W \in SUBSET Sockets, NEW D, Unregisters(W, D), sid' = sid,
         \A c \in D \cap Conns : pc[c] = "dial",
         \A c \in Conns : pc'[c] # pc[c] =>
           \/ c \in D /\ pc'[c] = "over"
           \/ pc[c] = "waiting" /\ pc'[c] = "fetch",
         \A r \in Reattaches : pc[r] \in {"dial", "over"} => target'[r] = target[r]
  PROVE  LinkInv' /\ \A c \in Conns : link'[c] = "none" <=> link[c] = "none"
<1>1. /\ shell' \in [Sockets -> Conns \cup {None}]
      /\ \A w \in Sockets : shell'[w] = IF w \in W THEN None ELSE shell[w]
      /\ link' \in [Conns -> Links]
      /\ \A c \in Conns : link'[c] # link[c] => /\ c \in D \/ link[c] = "attached"
                                                /\ link'[c] = "dropped"
      /\ \A w \in W : shell[w] \in Conns => link'[shell[w]] # "attached"
  BY Unregistered, Zenon
<1>2. \A c \in Conns : link'[c] # link[c] => link[c] # "none" /\ link'[c] = "dropped"
  BY <1>1 DEF LinkInv, DialHasLink
<1>3. \A w \in Sockets : shell'[w] \in {shell[w], None}
  BY <1>1, Zenon
<1>4. \A w \in Sockets : shell'[w] # shell[w] => link'[shell[w]] # "attached"
  BY <1>1 DEF ShellInv, ShellTypes
<1>5. \A c \in Conns : pc'[c] # pc[c] =>
        /\ pc[c] \notin {"ready", "over"} /\ pc'[c] # "dial"
        /\ pc'[c] \notin {"ready", "over"} => link'[c] = "none"
  BY <1>2 DEF LinkInv, LinkIsNone
<1>6. LinkInv'
  BY <1>1, <1>2, <1>3, <1>4, <1>5, LinkDrops, Zenon
<1> QED BY <1>2, <1>6

\* No attach past its credentials gets a claim back.
LEMMA EndEndsKeep ==
  ASSUME TerminalInv, UNCHANGED <<active, owners, left, sid>>,
         claim' \in [Sids -> Sockets \cup {None}],
         ending' \in [Sids -> {"no", "asked", "kill", "destroy", "done", "lost"}],
         \A s \in active : ending'[s] = "no",
         \A s \in Sids : ending'[s] \in Ended => bySession'[s] = None,
         \A w \in Sockets : shell'[w] # None => shell[w] # None,
         \A w \in Sockets : pc'[w] \in Claimed => pc[w] \in Claimed,
         \A w \in Sockets : pc[w] \in Claimed /\ sid[w] \in Sids /\ claim'[sid[w]] = w =>
           claim[sid[w]] = w /\ (ending'[sid[w]] \in Ended => ending[sid[w]] \in Ended)
  PROVE  EndInv'
<1>1. EndInv /\ \A w \in Sockets : pc[w] \in Claimed => sid[w] \in Sids
  BY Names, Zenon DEF TerminalInv, TurnInv, Claimed, InFlight, StepsHaveSid, InFlightIsFirst,
     StepsFitSession, ReattachHasTarget
<1>2. ASSUME NEW w \in Sockets, pc'[w] \in Claimed, ending'[sid[w]] \in Ended
      PROVE  claim'[sid[w]] # w
  BY <1>1, <1>2, Zenon DEF EndInv, Claimed, ActiveNotEnding, EndedNoShell, EndedNoClaim
<1> QED BY <1>1, Zenon DEF EndInv, Claimed, EndTypes, ActiveNotEnding, EndedNoShell, EndedNoClaim,
           LocalHasOwner

\* The end of one shell, with the reattaches that were dialing for it.
LEMMA EndSessionKeeps ==
  ASSUME TerminalInv, NEW w \in Sockets, NEW D \in SUBSET Reattaches, EndSession(w, D), Shuts,
         TurnInv', \A c \in Conns : pc'[c] # pc[c] => c \in D,
         \A c \in D : pc[c] = "dial" /\ pc'[c] = "over",
         UNCHANGED <<active, ending, waiting, replaced, sid, target, files, home, owners, left>>
  PROVE  Kept
<1>1. TurnInv /\ WaitInv /\ ShellInv /\ EndInv /\ DiskInv /\ LinkInv /\ BrokerInv
  BY Zenon DEF TerminalInv
<1>2. /\ Unregisters({w}, D) /\ UNCHANGED <<peer, asked, brokerShell>> /\ {w} \in SUBSET Sockets
      /\ \A v \in Sockets : pc'[v] = pc[v]
  BY Names, Zenon DEF EndSession
<1>3. /\ claim' \in [Sids -> Sockets \cup {None}]
      /\ \A s \in Sids : claim'[s] \in {claim[s], None}
  BY <1>1, Zenon DEF EndSession, EndInv, EndTypes
<1>4. \A v \in Sockets : sid[v] \in Sids /\ claim'[sid[v]] = v => claim[sid[v]] = v
  BY <1>3, Names
<1>5. /\ \A v \in Sockets : shell'[v] # None => shell[v] # None
      /\ \A s \in Sids : bySession[s] = None => bySession'[s] = None
  BY <1>1, <1>2, Unregistered, Zenon
<1>6. WaitInv'
  BY <1>1, <1>2 DEF WaitInv, Shuts, WaitTypes, ConnectingIsNew, WaitingIsNamed
<1>7. ShellInv'
  BY <1>1, <1>2, ShellEndsKeep, Zenon
<1>8. SlotStep
  BY <1>2, <1>5, Zenon DEF SlotStep, SlotsShrink
<1>9. EndInv'
  BY <1>1, <1>2, <1>3, <1>4, <1>5, EndEndsKeep, Zenon DEF EndInv, EndTypes, ActiveNotEnding,
     EndedNoShell, LocalHasOwner
<1>10. DiskInv'
  <2>1. \A v \in Sockets : pc[v] = "spawn" => sid[v] \in Sids
    BY <1>1, Names, Zenon DEF TurnInv, InFlight, StepsHaveSid
  <2>2. Dirs \subseteq Dirs'
    BY DirsStay
  <2> QED BY <1>1, <1>2, <1>4, <2>1, <2>2, DiskEndsKeep, Zenon
<1>11. LinkInv' /\ \A c \in Conns : link'[c] = "none" <=> link[c] = "none"
  BY <1>1, <1>2, LinkEndsKeep, Zenon
<1>12. BrokerInv' /\ ServedStep
  BY <1>1, <1>2, <1>11, BrokerFrame, Zenon
<1> QED BY <1>6, <1>7, <1>8, <1>9, <1>10, <1>11, <1>12, Zenon DEF Kept, TerminalInv

\* TurnInv speaks of turns alone.
LEMMA TurnSame == ASSUME TurnInv, UNCHANGED <<sid, pc, queue, target>> PROVE TurnInv'
  BY Zenon DEF TurnInv, TurnTypes, StepsHaveSid, InFlightIsFirst, StepsFitSession, ReattachHasTarget

\* A shell is closed, or its browser's socket is gone.
LEMMA CloseShellKeeps ==
  ASSUME TerminalInv, NEW w \in Sockets, CloseShell(w) \/ SocketGone(w) PROVE Kept
<1>1. /\ EndSession(w, {}) /\ UNCHANGED <<sid, pc, queue, target>>
      /\ UNCHANGED <<active, ending, waiting, replaced, files, home, owners, left>>
  BY Zenon DEF CloseShell, SocketGone, attachVars
<1>2. Shuts
  <2>1. CASE CloseShell(w)
    BY <2>1, ClosesShuts, Zenon DEF CloseShell, TerminalInv
  <2>2. CASE SocketGone(w)
    BY <2>2, Zenon DEF SocketGone, Shuts, TerminalInv, WaitInv, ReadyStates, WaitTypes
  <2> QED BY <2>1, <2>2, Zenon
<1>3. TurnInv'
  BY <1>1, TurnSame, Zenon DEF TerminalInv
<1> QED BY <1>1, <1>2, <1>3, EndSessionKeeps

\* A reattach whose dial failed ends the shell it should have replaced.
LEMMA ReattachFailedKeeps ==
  ASSUME TerminalInv, NEW r \in Reattaches, ReattachFailed(r) PROVE Kept
<1>1. /\ pc[r] = "dial" /\ EndSession(target[r], {r}) /\ Closes({target[r]}) /\ TurnEnds(r, "over")
      /\ UNCHANGED <<active, ending, waiting, replaced, sid, target, files, home, owners, left>>
  BY Zenon DEF ReattachFailed
<1>2. "over" \in Steps /\ r \in Conns /\ InTurn(r) /\ target[r] \in Sockets
  BY <1>1, Names, Zenon DEF InFlight, Steps, InTurn, TerminalInv, TurnInv, ReattachHasTarget,
     TurnTypes
<1>3. TurnInv' /\ Shuts
  BY <1>1, <1>2, TurnOver, ClosesShuts, Zenon DEF TerminalInv
<1>4. pc'[r] = "over" /\ \A c \in Conns : pc'[c] # pc[c] => c \in {r}
  BY <1>1, <1>2, PcSet, Zenon DEF TurnEnds, TerminalInv
<1> QED BY <1>1, <1>2, <1>3, <1>4, EndSessionKeeps, Zenon
\* Terminate ends the session's shells and takes the claim of its attach.
LEMMA TerminateKeeps ==
  ASSUME TerminalInv, NEW s \in Sids, Terminate(s) PROVE Kept
<1>1. TurnInv /\ WaitInv /\ ShellInv /\ EndInv /\ DiskInv /\ LinkInv /\ BrokerInv
  BY Zenon DEF TerminalInv
<1>2. PICK W \in SUBSET Sockets : W = {bySession[s]} \cap Sockets
  BY Zenon
<1>3. /\ Unregisters(W, {}) /\ Closes(W) /\ claim' = [claim EXCEPT ![s] = None]
      /\ ending[s] = "asked" /\ ending' = [ending EXCEPT ![s] = IF s \in owners THEN "kill" ELSE "done"]
      /\ UNCHANGED <<sid, pc, queue, target, peer, asked, brokerShell>>
      /\ UNCHANGED <<active, waiting, replaced, files, home, owners, left>>
  BY <1>2, Zenon DEF Terminate, CloseSession, attachVars
<1>4. /\ \A w \in Sockets : shell'[w] # None => shell[w] # None
      /\ \A z \in Sids : bySession'[z] = IF bySession[z] \in W THEN None ELSE bySession[z]
  BY <1>1, <1>3, Unregistered, Zenon
<1>5. TurnInv' /\ Shuts
  BY <1>1, <1>3, TurnSame, ClosesShuts, Zenon
<1>6. WaitInv'
  BY <1>1, <1>3, <1>5, Zenon DEF WaitInv, Shuts, WaitTypes, ConnectingIsNew, WaitingIsNamed
<1>7. ShellInv'
  BY <1>1, <1>3, ShellEndsKeep, Zenon
<1>8. SlotStep
  BY <1>3, <1>4, Zenon DEF SlotStep, SlotsShrink
<1>9. /\ claim' \in [Sids -> Sockets \cup {None}]
      /\ \A w \in Sockets : sid[w] \in Sids /\ claim'[sid[w]] = w => sid[w] # s /\ claim[sid[w]] = w
  BY <1>1, <1>3, Names DEF EndInv, EndTypes
<1>10. EndInv'
  <2>1. /\ ending' \in [Sids -> {"no", "asked", "kill", "destroy", "done", "lost"}]
        /\ \A z \in Sids : z # s => ending'[z] = ending[z]
        /\ \A z \in active : ending'[z] = "no"
    BY <1>1, <1>3, Zenon DEF EndInv, EndTypes, ActiveNotEnding
  <2>2. bySession'[s] = None
    BY <1>1, <1>2, <1>4, Zenon DEF ShellInv, ShellTypes
  <2>3. \A z \in Sids : ending'[z] \in Ended => bySession'[z] = None
    BY <1>1, <1>4, <2>1, <2>2, Zenon DEF EndInv, ActiveNotEnding, EndedNoShell, EndedNoClaim,
       LocalHasOwner
  <2> QED BY <1>3, <1>4, <1>9, <2>1, <2>3, EndEndsKeep, Zenon
<1>11. DiskInv'
  <2>1. \A w \in Sockets : pc[w] = "spawn" => sid[w] \in Sids
    BY <1>1, Names, Zenon DEF TurnInv, InFlight, StepsHaveSid
  <2>2. Dirs \subseteq Dirs'
    BY <1>1, <1>3, GatewayAssumption DEF Dirs, EndInv, EndTypes
  <2> QED BY <1>1, <1>3, <1>9, <2>1, <2>2, DiskEndsKeep, Zenon
<1>12. LinkInv' /\ \A c \in Conns : link'[c] = "none" <=> link[c] = "none"
  BY <1>1, <1>3, LinkEndsKeep, Zenon
<1>13. BrokerInv' /\ ServedStep
  BY <1>1, <1>3, <1>12, BrokerFrame, Zenon
<1> QED BY <1>5, <1>6, <1>7, <1>8, <1>10, <1>11, <1>12, <1>13, Zenon DEF Kept, TerminalInv

\* An attach is admitted in place of its session's shell.
LEMMA AdmitKeeps ==
  ASSUME TerminalInv, NEW w \in Sockets, pc[w] = "waiting", Running(w), Admits(w),
         CloseSession(sid[w], w), MovesTo(w, "fetch"),
         waiting' = [waiting EXCEPT ![sid[w]] = IF @ = w THEN None ELSE @],
         UNCHANGED <<active, ending, replaced, sid, target, files, home, owners, left>>
  PROVE  Kept
<1>1. TurnInv /\ WaitInv /\ ShellInv /\ EndInv /\ DiskInv /\ LinkInv /\ BrokerInv
  BY Zenon DEF TerminalInv
<1>2. /\ w \in Conns /\ InTurn(w) /\ sid[w] \in Sids /\ First(queue[sid[w]], w) /\ shell[w] = None
      /\ "fetch" \in InFlight \cap Steps /\ "fetch" \notin LocalSteps \cup Claimed \cup OnDisk
      /\ "waiting" \notin OnDisk
  BY <1>1, InTurnFirst, Names, Zenon DEF InTurn, ShellInv, InFlight, Steps, LocalSteps, Claimed,
     OnDisk, ShellIsNamed
<1>3. PICK W \in SUBSET Sockets : W = {bySession[sid[w]]} \cap Sockets
  BY Zenon
<1>4. /\ Unregisters(W, {}) /\ Closes(W) /\ claim' = [claim EXCEPT ![sid[w]] = w]
      /\ UNCHANGED <<peer, asked, brokerShell>>
  BY <1>3, Zenon DEF CloseSession
<1>5. TurnInv' /\ Shuts
  BY <1>1, <1>2, <1>4, SocketPasses, ClosesShuts, Zenon
<1>6. pc'[w] = "fetch" /\ \A c \in Conns : c # w => pc'[c] = pc[c]
  BY <1>1, <1>2, PcSet, Zenon DEF MovesTo
<1>7. WaitInv'
  <2>1. waiting' \in [Sids -> Sockets \cup {None}]
    BY <1>1, <1>2, Zenon DEF WaitInv, WaitTypes
  <2>2. ASSUME NEW v \in Sockets, pc'[v] = "waiting", socket'[v] = "open"
        PROVE  waiting'[sid[v]] = v
    <3>1. v # w /\ pc[v] = "waiting" /\ socket[v] = "open"
      BY <1>5, <1>6, <2>2, Names, Zenon DEF Shuts
    <3>2. waiting[sid[v]] = v /\ sid[v] \in Sids
      BY <1>1, <3>1, Names, Zenon DEF WaitInv, TurnInv, WaitingIsNamed, StepsHaveSid
    <3> QED BY <3>1, <3>2 DEF WaitInv
  <2>3. \A v \in Sockets : socket'[v] = "connecting" => pc'[v] = "new"
    BY <1>1, <1>5, <1>6, Names, Zenon DEF Shuts, WaitInv, ConnectingIsNew
  <2> QED BY <1>1, <1>5, <2>1, <2>2, <2>3, Zenon DEF WaitInv, Shuts, WaitTypes, ConnectingIsNew,
             WaitingIsNamed
<1>8. /\ \A v \in Sockets : shell'[v] = IF v \in W THEN None ELSE shell[v]
      /\ \A s \in Sids : bySession'[s] = IF bySession[s] \in W THEN None ELSE bySession[s]
  BY <1>1, <1>4, Unregistered, Zenon
<1>9. /\ bySession'[sid[w]] = None
      /\ \A s \in Sids : bySession[s] = None => bySession'[s] = None
  BY <1>1, <1>2, <1>3, <1>8 DEF ShellInv, ShellTypes, InFlightNoShell
<1>10. ShellInv'
  BY <1>1, <1>2, <1>4, <1>6, <1>9, Names, ShellEndsKeep, Zenon
<1>11. SlotStep
  <2>1. SlotAdmits(w)
    BY <1>2, <1>3, <1>6, <1>8, Names DEF SlotAdmits
  <2> QED BY <2>1, Zenon DEF SlotStep
<1>12. /\ claim' \in [Sids -> Sockets \cup {None}]
       /\ \A s \in Sids : s # sid[w] => claim'[s] = claim[s]
  BY <1>1, <1>4, Zenon DEF EndInv, EndTypes, ActiveNotEnding
<1>13. ASSUME NEW v \in Sockets, pc[v] \in InFlight
       PROVE  sid[v] \in Sids /\ claim'[sid[v]] = claim[sid[v]]
  <2>1. v # w /\ v \in Conns
    BY <1>13, Names, Zenon DEF InFlight
  <2>2. sid[v] \in Sids /\ sid[v] # sid[w]
    BY <1>1, <1>2, <1>13, <2>1, OneInFlight, Zenon DEF TurnInv, StepsHaveSid
  <2> QED BY <1>12, <2>2, Zenon
<1>14. EndInv'
  <2>1. \A v \in Sockets : pc'[v] \in Claimed => pc[v] \in Claimed
    BY <1>2, <1>6, Names, Zenon
  <2>2. Claimed \subseteq InFlight
    BY Zenon DEF Claimed, InFlight
  <2>3. \A v \in Sockets : shell'[v] # None => shell[v] # None
    BY <1>8, Zenon
  <2> QED BY <1>1, <1>9, <1>12, <1>13, <2>1, <2>2, <2>3, EndEndsKeep, Zenon DEF EndInv, EndTypes,
             ActiveNotEnding, EndedNoShell, LocalHasOwner
<1>15. DiskInv'
  <2>1. \A v \in Sockets : pc[v] = "spawn" /\ claim'[sid[v]] = v => claim[sid[v]] = v
    BY <1>13, Zenon DEF InFlight
  <2>2. Dirs \subseteq Dirs'
    BY DirsStay
  <2> QED BY <1>1, <1>2, <1>4, <1>6, <2>2, Names, DiskEndsKeep
<1>16. LinkInv' /\ \A c \in Conns : link'[c] = "none" <=> link[c] = "none"
  BY <1>1, <1>4, <1>6, LinkEndsKeep, Zenon
<1>17. BrokerInv' /\ ServedStep
  BY <1>1, <1>4, <1>16, BrokerFrame, Zenon
<1> QED BY <1>5, <1>7, <1>10, <1>11, <1>14, <1>15, <1>16, <1>17, Zenon DEF Kept, TerminalInv

\* An attach takes its turn, admitted or refused.
LEMMA TakeTurnKeeps ==
  ASSUME TerminalInv, NEW w \in Sockets, TakeTurn(w) PROVE Kept
<1>1. /\ pc[w] = "waiting" /\ Running(w)
      /\ waiting' = [waiting EXCEPT ![sid[w]] = IF @ = w THEN None ELSE @]
      /\ UNCHANGED <<active, ending, replaced, sid, target, files, home, owners, left>>
  BY Zenon DEF TakeTurn
<1>2. CASE /\ Admits(w) /\ CloseSession(sid[w], w) /\ MovesTo(w, "fetch")
  BY <1>1, <1>2, AdmitKeeps, Zenon
<1>3. CASE /\ Closes({w}) \/ UNCHANGED socket
           /\ TurnEnds(w, "over")
           /\ UNCHANGED <<shellVars, removing, brokerVars>>
  <2>1. /\ UNCHANGED <<claim, shell, bySession, removing, link, peer, asked, brokerShell>>
        /\ "over" \in Steps \ {"new", "waiting", "dial"} /\ w \in Conns /\ w \notin Reattaches
        /\ "over" \notin InFlight \cup Claimed \cup OnDisk /\ "waiting" \notin OnDisk /\ InTurn(w)
    BY <1>1, <1>3, Names, Zenon DEF shellVars, brokerVars, Steps, InFlight, Claimed, OnDisk, InTurn
  <2>2. Attaches(w, "over")
    BY <1>1, <1>3, <2>1, Zenon DEF Attaches
  <2>3. TurnInv'
    BY <1>1, <1>3, <2>1, TurnOver, Zenon DEF TerminalInv
  <2> QED BY <1>1, <2>1, <2>2, <2>3, AttachKeeps, Zenon
<1> QED BY <1>2, <1>3 DEF TakeTurn
-----------------------------------------------------------------------------
(* Browsers and reattach requests.                                         *)

\* What a step that moves no attach leaves alone stays true.
LEMMA SamePc ==
  ASSUME TerminalInv, UNCHANGED <<sid, pc, queue, target>>
  PROVE  /\ TurnInv'
         /\ UNCHANGED <<shell, bySession>> => ShellInv' /\ SlotStep
         /\ UNCHANGED <<active, ending, claim, owners, left, shell, bySession>> => EndInv'
         /\ UNCHANGED <<files, removing, home, ending, claim, shell>> => DiskInv'
         /\ UNCHANGED <<link, shell>> => LinkInv'
         /\ UNCHANGED <<link, peer, asked, brokerShell>> => BrokerInv' /\ ServedStep
         /\ Shuts /\ UNCHANGED <<waiting, replaced>> => WaitInv'
<1>1. TurnInv'
  BY TurnSame, Zenon DEF TerminalInv
<1>2. ASSUME UNCHANGED <<shell, bySession>> PROVE ShellInv' /\ SlotStep
  BY <1>2, Zenon DEF TerminalInv, ShellInv, SlotStep, SlotsShrink, ShellTypes, ShellIsNamed,
     NamedHasShell, InFlightNoShell
<1>3. ASSUME UNCHANGED <<active, ending, claim, owners, left, shell, bySession>> PROVE EndInv'
  BY <1>3 DEF TerminalInv, EndInv, EndTypes, ActiveNotEnding, EndedNoShell, EndedNoClaim,
     LocalHasOwner
<1>4. ASSUME UNCHANGED <<files, removing, home, ending, claim, shell>> PROVE DiskInv'
  BY <1>4, DirsStay, Zenon DEF TerminalInv, DiskInv, DiskTypes, RemovingIsOver, StepHasFiles, ClaimHasHome,
     LocalHasFiles, FilesHaveUser
<1>5. ASSUME UNCHANGED <<link, shell>> PROVE LinkInv'
  BY <1>5, Zenon DEF TerminalInv, LinkInv, LinkIsNone, DialHasLink, ShellHasLink, AttachedIsShell,
     DialsDetached
<1>6. ASSUME UNCHANGED <<link, peer, asked, brokerShell>> PROVE BrokerInv' /\ ServedStep
  BY <1>6, BrokerFrame, Zenon DEF TerminalInv
<1>7. ASSUME Shuts, UNCHANGED <<waiting, replaced>> PROVE WaitInv'
  BY <1>7, Zenon DEF TerminalInv, WaitInv, Shuts, WaitTypes, ConnectingIsNew, WaitingIsNamed
<1> QED BY <1>1, <1>2, <1>3, <1>4, <1>5, <1>6, <1>7, Zenon

\* A socket closes, by the gateway or by the browser.
LEMMA SocketClosesKeeps ==
  ASSUME TerminalInv, NEW w \in Sockets, Reject(w) \/ BrowserLeaves(w) PROVE Kept
<1>1. /\ UNCHANGED <<sid, pc, queue, target, active, ending, waiting, replaced>>
      /\ UNCHANGED <<claim, shell, bySession, files, removing, home, owners, left>>
      /\ UNCHANGED <<link, peer, asked, brokerShell>> /\ Closes({w})
  BY Zenon DEF Reject, BrowserLeaves, attachVars, shellVars, diskVars, brokerVars
<1>2. Shuts
  BY <1>1, ClosesShuts, Zenon DEF TerminalInv
<1> QED BY <1>1, <1>2, SamePc, Zenon DEF Kept, TerminalInv

\* A browser connects, or is turned away.
LEMMA ConnectKeeps ==
  ASSUME TerminalInv, NEW w \in Sockets, Connect(w) PROVE Kept
<1>1. TurnInv /\ WaitInv /\ ShellInv /\ EndInv /\ DiskInv /\ LinkInv /\ BrokerInv
  BY Zenon DEF TerminalInv
<1>2. /\ UNCHANGED <<sid, queue, target, active, ending, waiting, replaced>>
      /\ UNCHANGED <<claim, shell, bySession, files, removing, home, owners, left>>
      /\ UNCHANGED <<link, peer, asked, brokerShell>>
      /\ pc[w] = "new" /\ w \in Conns /\ w \notin Reattaches
  BY <1>1, Names, Zenon DEF Connect, shellVars, diskVars, brokerVars, WaitInv, ConnectingIsNew
<1>3. PICK step \in {"new", "over"}, state \in {"closing", "open"} :
        pc' = [pc EXCEPT ![w] = step] /\ socket' = [socket EXCEPT ![w] = state]
  BY <1>2, Zenon DEF Connect
<1>4. /\ step \in Steps /\ step \notin InFlight \cup Claimed \cup OnDisk
      /\ {"new", "over"} \cap ({"waiting", "ready"} \cup InFlight \cup LocalSteps) = {}
      /\ "new" \notin OnDisk
  BY Zenon DEF Steps, InFlight, Claimed, OnDisk, LocalSteps
<1>5. /\ pc' \in [Conns -> Steps] /\ pc'[w] = step
      /\ \A b \in Conns : b # w => pc'[b] = pc[b]
  BY <1>1, <1>2, <1>3, <1>4, PcSet, Zenon
<1>6. Only(w)
  BY <1>2, <1>5, Zenon DEF Only
<1>7. TurnInv'
  <2>1. TurnTypes'
    BY <1>1, <1>2, <1>5, Zenon DEF TurnInv, TurnTypes
  <2>2. StepsHaveSid' /\ InFlightIsFirst'
    BY <1>1, <1>2, <1>4, <1>5 DEF TurnInv, StepsHaveSid, InFlightIsFirst
  <2>3. StepsFitSession'
    BY <1>1, <1>2, <1>4, <1>5, Names DEF TurnInv, StepsFitSession, InFlight
  <2>4. ReattachHasTarget'
    BY <1>1, <1>2, <1>5, Names DEF TurnInv, TurnTypes, ReattachHasTarget
  <2> QED BY <2>1, <2>2, <2>3, <2>4, Zenon DEF TurnInv
<1>8. WaitInv'
  <2>1. /\ socket' \in [Sockets -> ReadyStates] /\ socket'[w] = state
        /\ \A v \in Sockets : v # w => pc'[v] = pc[v] /\ socket'[v] = socket[v]
    BY <1>1, <1>3 DEF WaitInv, ReadyStates, WaitTypes
  <2> QED BY <1>1, <1>2, <1>5, <2>1 DEF WaitInv, WaitTypes, ConnectingIsNew, WaitingIsNamed
<1>9. ShellInv' /\ SlotStep
  <2>1. \A v \in Sockets : /\ pc'[v] \in InFlight => pc[v] \in InFlight
                           /\ pc[v] = "ready" => pc'[v] = "ready"
    BY <1>2, <1>4, <1>5, Names, Zenon
  <2> QED BY <1>1, <1>2, <2>1, Zenon DEF ShellInv, SlotStep, SlotsShrink, ShellTypes, ShellIsNamed,
             NamedHasShell, InFlightNoShell
<1>10. EndInv'
  <2>1. \A v \in Sockets : pc'[v] \in Claimed => pc[v] \in Claimed
    BY <1>4, <1>5, Names, Zenon
  <2> QED BY <1>1, <1>2, <2>1, Zenon DEF EndInv, Claimed, EndTypes, ActiveNotEnding, EndedNoShell,
             EndedNoClaim, LocalHasOwner
<1>11. DiskInv'
  <2>1. GivesUp
    BY <1>1, <1>2, ReleasesGivesUp, Zenon
  <2> QED BY <1>2, <1>4, <1>5, <1>6, <2>1, DiskFrame, Zenon
<1>12. LinkInv' /\ BrokerInv' /\ ServedStep
  BY <1>2, <1>5, <1>6, QuietFrame, Zenon
<1> QED BY <1>7, <1>8, <1>9, <1>10, <1>11, <1>12, Zenon DEF Kept, TerminalInv

\* A connection joins the queue of a session.
LEMMA EnqueueKeeps ==
  ASSUME TerminalInv, NEW a \in Conns, NEW s \in Sids, pc[a] = "new",
         a \in Reattaches => s \in Containers,
         sid' = [sid EXCEPT ![a] = s], pc' = [pc EXCEPT ![a] = "waiting"],
         queue' = [queue EXCEPT ![s] = Append(@, a)], UNCHANGED target,
         UNCHANGED <<active, ending, claim, shell, bySession, files, removing, home, owners, left>>,
         UNCHANGED <<link, peer, asked, brokerShell>>
  PROVE  /\ TurnInv' /\ ShellInv' /\ EndInv' /\ DiskInv' /\ LinkInv' /\ BrokerInv'
         /\ SlotStep /\ ServedStep
         /\ pc'[a] = "waiting" /\ sid'[a] = s
         /\ \A b \in Conns : b # a => pc'[b] = pc[b] /\ sid'[b] = sid[b]
<1>1. /\ TurnInv /\ WaitInv /\ ShellInv
      /\ EndInv /\ DiskInv /\ LinkInv /\ BrokerInv
  BY Zenon DEF TerminalInv
<1>2. /\ TurnInv' /\ pc'[a] = "waiting" /\ sid'[a] = s
      /\ \A b \in Conns : b # a => pc'[b] = pc[b] /\ sid'[b] = sid[b]
  BY <1>1, Enqueues, Zenon
<1>3. "waiting" \notin InFlight \cup Claimed \cup OnDisk
  BY Zenon DEF InFlight, Claimed, OnDisk
<1>4. \A w \in Sockets : shell[w] # None => w # a /\ pc'[w] = pc[w] /\ sid'[w] = sid[w]
  BY <1>1 DEF ShellInv, ShellIsNamed
<1>5. \A w \in Sockets : pc'[w] \in InFlight => pc[w] \in InFlight /\ sid'[w] = sid[w]
  BY <1>2, <1>3, Names, Zenon
<1>6. \A z \in Sids : bySession[z] # None => sid'[bySession[z]] = sid[bySession[z]]
  BY <1>1, <1>4, Zenon DEF ShellInv, ShellTypes, NamedHasShell
<1>7. ShellInv'
  BY <1>1, <1>5, <1>6 DEF ShellInv, ShellTypes, ShellIsNamed, NamedHasShell, InFlightNoShell
<1>8. SlotStep
  BY <1>5 DEF SlotStep, SlotsShrink
<1>9. EndInv'
  <2>1. \A w \in Sockets : pc'[w] \in Claimed => pc[w] \in Claimed /\ sid'[w] = sid[w]
    BY <1>2, <1>3, Names, Zenon
  <2> QED BY <1>1, <1>4 DEF EndInv, Claimed, EndTypes, ActiveNotEnding, EndedNoShell, EndedNoClaim,
             LocalHasOwner
<1>10. DiskInv'
  <2>1. \A w \in Sockets : /\ pc'[w] \in OnDisk <=> pc[w] \in OnDisk
                           /\ pc'[w] = "spawn" => pc[w] = "spawn" /\ sid'[w] = sid[w]
                           /\ pc[w] = "ready" => pc'[w] = "ready"
    BY <1>2, <1>3, Names, Zenon DEF OnDisk
  <2>2. Dirs \subseteq Dirs'
    BY DirsStay
  <2> QED BY <1>1, <1>4, <2>1, <2>2 DEF DiskInv, OnDisk, DiskTypes, RemovingIsOver, StepHasFiles,
             ClaimHasHome, LocalHasFiles, FilesHaveUser
<1>11. LinkInv'
  <2>1. link[a] = "none"
    BY <1>1 DEF LinkInv, LinkIsNone
  <2>2. ASSUME NEW w \in Sockets, shell[w] # None
        PROVE  \/ shell[w] = w
               \/ shell[w] \in Reattaches /\ target[shell[w]] = w /\ pc'[shell[w]] = "over"
    <3>1. \/ shell[w] = w
          \/ shell[w] \in Reattaches /\ target[shell[w]] = w /\ pc[shell[w]] = "over"
      BY <1>1, <2>2, Zenon DEF LinkInv, DialHasLink, ShellHasLink, AttachedIsShell, DialsDetached
    <3> QED BY <3>1
  <2> QED BY <1>1, <1>2, <1>4, <2>2, Names DEF LinkInv, LinkIsNone, DialHasLink, ShellHasLink,
             AttachedIsShell, DialsDetached
<1>12. BrokerInv' /\ ServedStep
  BY <1>1, BrokerFrame, Zenon
<1> QED BY <1>2, <1>7, <1>8, <1>9, <1>10, <1>11, <1>12, Zenon

\* A browser authenticates and joins its session's queue; one waiting before it
\* is replaced.
LEMMA AuthKeeps ==
  ASSUME TerminalInv, NEW w \in Sockets, NEW s \in Sids, Auth(w, s) PROVE Kept
<1>1. WaitInv /\ w \in Conns /\ w \notin Reattaches
  BY Names, Zenon DEF TerminalInv
<1>2. /\ UNCHANGED <<active, ending, target, claim, shell, bySession, files, removing, home>>
      /\ UNCHANGED <<owners, left, link, peer, asked, brokerShell>>
      /\ socket[w] \in {"open", "closing"} /\ pc[w] = "new"
      /\ waiting' = [waiting EXCEPT ![s] = w]
      /\ replaced' = replaced \cup ({waiting[s]} \cap Sockets)
      /\ Closes({waiting[s]} \cap Sockets)
  BY Zenon DEF Auth, shellVars, diskVars, brokerVars
<1>3. /\ TurnInv' /\ ShellInv' /\ EndInv' /\ DiskInv' /\ LinkInv' /\ BrokerInv'
      /\ SlotStep /\ ServedStep
      /\ pc'[w] = "waiting" /\ sid'[w] = s
      /\ \A b \in Conns : b # w => pc'[b] = pc[b] /\ sid'[b] = sid[b]
  BY <1>1, <1>2, EnqueueKeeps, Zenon DEF Auth
<1>4. WaitInv'
  <2>1. Shuts
    BY <1>1, <1>2, ClosesShuts
  <2>2. waiting' \in [Sids -> Sockets \cup {None}] /\ replaced' \subseteq Sockets
    BY <1>1, <1>2 DEF WaitInv, WaitTypes, ConnectingIsNew, WaitingIsNamed
  <2>3. ASSUME NEW v \in Sockets, pc'[v] = "waiting", socket'[v] = "open"
        PROVE  waiting'[sid'[v]] = v
    <3>1. CASE v = w
      BY <1>1, <1>2, <1>3, <3>1, Zenon DEF WaitInv, WaitTypes
    <3>2. CASE v # w
      <4>1. pc[v] = "waiting" /\ sid'[v] = sid[v] /\ socket[v] = "open"
        BY <1>3, <2>1, <2>3, <3>2, Names, Zenon DEF Shuts
      <4>2. waiting[sid[v]] = v /\ sid[v] \in Sids
        BY <1>1, <4>1, Names, Zenon DEF WaitInv, TerminalInv, TurnInv, WaitingIsNamed, StepsHaveSid,
           InFlightIsFirst
      <4>3. sid[v] # s
        BY <1>2, <2>3, <4>2, Zenon DEF Closes
      <4> QED BY <1>1, <1>2, <4>1, <4>2, <4>3, Zenon DEF WaitInv, WaitTypes
    <3> QED BY <3>1, <3>2, Zenon
  <2>4. \A v \in Sockets : socket'[v] = "connecting" => pc'[v] = "new"
    BY <1>1, <1>2, <1>3, <2>1, Names, Zenon DEF WaitInv, Shuts, WaitTypes, ConnectingIsNew
  <2> QED BY <2>1, <2>2, <2>3, <2>4, Zenon DEF WaitInv, Shuts, WaitTypes, ConnectingIsNew,
             WaitingIsNamed
<1> QED BY <1>3, <1>4, Zenon DEF Kept, TerminalInv

\* The API asks for a reattach.
LEMMA AskReattachKeeps ==
  ASSUME TerminalInv, NEW r \in Reattaches, NEW s \in Sids, AskReattach(r, s) PROVE Kept
<1>1. WaitInv /\ r \in Conns /\ r \notin Sockets
  BY Names, Zenon DEF TerminalInv
<1>2. /\ UNCHANGED <<active, ending, socket, waiting, replaced, target, claim, shell, bySession>>
      /\ UNCHANGED <<files, removing, home, owners, left, link, peer, asked, brokerShell>>
      /\ pc[r] = "new" /\ s \in Containers
  BY Zenon DEF AskReattach, socketVars, shellVars, diskVars, brokerVars
<1>3. /\ TurnInv' /\ ShellInv' /\ EndInv' /\ DiskInv' /\ LinkInv' /\ BrokerInv'
      /\ SlotStep /\ ServedStep
      /\ \A b \in Conns : b # r => pc'[b] = pc[b] /\ sid'[b] = sid[b]
  BY <1>1, <1>2, EnqueueKeeps, Zenon DEF AskReattach
<1>4. WaitInv'
  <2>1. \A w \in Sockets : pc'[w] = pc[w] /\ sid'[w] = sid[w]
    BY <1>3, Names, Zenon
  <2> QED BY <1>1, <1>2, <2>1, Zenon DEF WaitInv, WaitTypes, ConnectingIsNew, WaitingIsNamed
<1> QED BY <1>3, <1>4 DEF Kept, TerminalInv

\* A reattach takes its turn.
LEMMA ReattachTurnKeeps ==
  ASSUME TerminalInv, NEW r \in Reattaches, ReattachTurn(r) PROVE Kept
<1>1. /\ UNCHANGED <<active, ending, socket, waiting, replaced, sid, claim, shell, bySession>>
      /\ UNCHANGED <<files, removing, home, owners, left, link, peer, asked, brokerShell>>
      /\ pc[r] = "waiting" /\ InTurn(r) /\ r \in Conns /\ r \notin Sockets
  BY Names, Zenon DEF ReattachTurn, socketVars, shellVars, diskVars, brokerVars, InTurn
<1>2. "fetch" \in InFlight \cap ReattachSteps /\ {"fetch", "over"} \subseteq Steps \ {"new", "waiting", "dial"}
  BY Zenon DEF InFlight, Steps, ReattachSteps
<1>3. ASSUME NEW step \in {"fetch", "over"}, MovesTo(r, step) \/ TurnEnds(r, step), TurnInv',
             \A q \in Reattaches : q # r => target'[q] = target[q]
      PROVE  Kept
  <2>1. Attaches(r, step)
    BY <1>1, <1>3, Zenon DEF Attaches
  <2> QED BY <1>1, <1>2, <1>3, <2>1, AttachKeeps, Zenon
<1>4. CASE /\ bySession[sid[r]] # None
           /\ target' = [target EXCEPT ![r] = bySession[sid[r]]]
           /\ MovesTo(r, "fetch")
  <2>1. PICK w \in Sockets : w = bySession[sid[r]] /\ pc[w] = "ready" /\ sid[w] = sid[r]
    BY <1>1, <1>4, InTurnFirst DEF TerminalInv, ShellInv, ShellTypes, ShellIsNamed, NamedHasShell
  <2>2. TurnInv'
    BY <1>1, <1>2, <1>4, <2>1, ReattachPasses, Zenon DEF TerminalInv
  <2>3. \A q \in Reattaches : q # r => target'[q] = target[q]
    BY <1>4
  <2> QED BY <1>3, <1>4, <2>2
<1>5. CASE TurnEnds(r, "over") /\ UNCHANGED target
  <2>1. TurnInv'
    BY <1>1, <1>5, TurnOver, Zenon DEF TerminalInv
  <2> QED BY <1>3, <1>5, <2>1, Zenon
<1> QED BY <1>4, <1>5, Zenon DEF ReattachTurn

\* A reattach goes on after its credentials fetch: it dials, or its shell is
\* gone.
LEMMA ReattachFetchedKeeps ==
  ASSUME TerminalInv, NEW r \in Reattaches, ReattachFetched(r) PROVE Kept
<1>1. /\ UNCHANGED <<active, ending, socket, waiting, replaced, sid, target, claim, shell, bySession>>
      /\ UNCHANGED <<files, removing, home, owners, left, peer, brokerShell>>
      /\ pc[r] \in {"granted", "refused"} /\ r \in Conns /\ r \notin Sockets
  BY Names, Zenon DEF ReattachFetched, socketVars, shellVars, diskVars
<1>2. /\ pc[r] \in InFlight /\ InTurn(r) /\ {"dial", "over"} \subseteq Steps \ {"new", "waiting"}
      /\ "dial" \in InFlight \cap ReattachSteps
  BY <1>1, Zenon DEF InTurn, InFlight, Steps, ReattachSteps
<1>3. CASE /\ pc[r] = "granted" /\ StillLive(target[r])
           /\ link' = [link EXCEPT ![shell[target[r]]] = "dropped", ![r] = "dialing"]
           /\ asked' = [asked EXCEPT ![r] = sid[r]]
           /\ MovesTo(r, "dial")
  <2>1. TurnInv'
    BY <1>1, <1>2, <1>3, ReattachPasses, Zenon DEF TerminalInv
  <2>2. Attaches(r, "dial")
    BY <1>1, <1>3, Zenon DEF Attaches
  <2>3. Only(r) /\ pc'[r] = "dial" /\ GivesUp /\ WaitInv' /\ ShellInv' /\ EndInv' /\ SlotStep
    BY <1>1, <1>2, <2>2, AttachFrame
  <2>4. DiskInv'
    BY <1>1, <2>3, DiskFrame, Zenon
  <2>5. PICK w \in Sockets : w = target[r] /\ sid[w] = sid[r]
    BY <1>2, Zenon DEF TerminalInv, TurnInv, StepsFitSession, ReattachHasTarget
  <2>6. /\ sid[r] \in Sids /\ sid[r] \in Containers
        /\ link[r] = "none" /\ link \in [Conns -> Links]
    BY <1>1, <1>2, InTurnFirst, Zenon DEF TerminalInv, LinkInv, LinkIsNone
  <2>7. PICK c \in Conns : c = shell[w] /\ link[c] # "none" /\ c # r
    <3>1. PICK c \in Conns : c = shell[w]
      BY <1>3, <2>5 DEF TerminalInv, StillLive, Registered, ShellInv, ShellTypes, ShellIsNamed,
         NamedHasShell, InFlightNoShell
    <3> QED BY <2>5, <2>6, <3>1, ShellLink DEF TerminalInv
  <2>8. /\ link' \in [Conns -> Links] /\ link'[r] = "dialing" /\ link'[c] = "dropped"
        /\ \A d \in Conns : d # r /\ d # c => link'[d] = link[d]
    <3>1. link' = [link EXCEPT ![c] = "dropped", ![r] = "dialing"]
      BY <1>3, <2>5, <2>7, Zenon
    <3> QED BY <1>1, <2>6, <2>7, <3>1, Zenon DEF Links
  <2>9. link'[shell[target[r]]] # "attached"
    BY <2>5, <2>7, <2>8, Zenon
  <2>10. LinkInv'
    BY <1>1, <1>3, <2>3, <2>7, <2>8, <2>9, LinkDials, Zenon DEF TerminalInv
  <2>11. BrokerInv' /\ ServedStep
    <3>1. /\ link[r] = "none" /\ link'[r] # "none"
          /\ \A d \in Conns : d # r => (link'[d] = "none" <=> link[d] = "none")
      BY <2>6, <2>7, <2>8
    <3> QED BY <1>1, <1>3, <2>6, <3>1, BrokerDials, Zenon DEF TerminalInv
  <2> QED BY <2>1, <2>3, <2>4, <2>10, <2>11, Zenon DEF Kept, TerminalInv
<1>4. CASE TurnEnds(r, "over") /\ UNCHANGED <<link, asked>>
  <2>1. TurnInv'
    BY <1>1, <1>2, <1>4, TurnOver, Zenon DEF TerminalInv
  <2>2. Attaches(r, "over")
    BY <1>1, <1>4, Zenon DEF Attaches
  <2> QED BY <1>1, <1>2, <1>4, <2>1, <2>2, AttachKeeps, Zenon
<1> QED BY <1>3, <1>4, Zenon DEF ReattachFetched

\* A reattach that dialed becomes its target's shell, or is dropped with the
\* target gone.
LEMMA ReattachedKeeps ==
  ASSUME TerminalInv, NEW r \in Reattaches, Reattached(r) PROVE Kept
<1>1. /\ UNCHANGED <<active, ending, socket, waiting, replaced, sid, target, claim, bySession>>
      /\ UNCHANGED <<files, removing, home, owners, left, peer, asked, brokerShell>>
      /\ pc[r] = "dial" /\ TurnEnds(r, "over") /\ r \in Conns /\ r \notin Sockets /\ r # None
  BY Names, Zenon DEF Reattached, socketVars, diskVars
<1>2. pc[r] \in InFlight /\ InTurn(r) /\ "over" \in Steps \ {"new", "waiting"}
  BY <1>1, Zenon DEF InTurn, InFlight, Steps
<1>3. TurnInv'
  BY <1>1, <1>2, TurnOver, Zenon DEF TerminalInv
<1>4. CASE /\ StillLive(target[r])
           /\ link' = [link EXCEPT ![r] = "attached"]
           /\ shell' = [shell EXCEPT ![target[r]] = r]
  <2>1. TurnInv /\ WaitInv /\ ShellInv /\ EndInv /\ DiskInv /\ LinkInv /\ BrokerInv
    BY Zenon DEF TerminalInv
  <2>2. PICK w \in Sockets : w = target[r] /\ sid[w] = sid[r] /\ shell[w] # None
    BY <1>2, <1>4, <2>1 DEF TurnInv, StillLive, Registered, StepsHaveSid, InFlightIsFirst,
       StepsFitSession, ReattachHasTarget, TurnTypes
  <2>3. Only(r) /\ pc'[r] = "over" /\ \A v \in Sockets : pc'[v] = pc[v]
    BY <1>1, <1>2, <2>1, PcSet, Names, Zenon DEF TurnEnds, Only
  <2>4. /\ shell \in [Sockets -> Conns \cup {None}] /\ shell' = [shell EXCEPT ![w] = r]
        /\ shell' \in [Sockets -> Conns \cup {None}]
        /\ \A v \in Sockets : shell'[v] # None <=> shell[v] # None
    BY <1>1, <1>4, <2>1, <2>2, Zenon DEF ShellInv, ShellTypes, InFlightNoShell
  <2>5. WaitInv' /\ SlotStep
    BY <1>1, <2>1, <2>3, <2>4, Zenon DEF WaitInv, SlotStep, SlotsShrink, WaitTypes, ConnectingIsNew,
       WaitingIsNamed
  <2>6. ShellInv'
    BY <1>1, <2>1, <2>3, <2>4 DEF ShellInv, ShellTypes, ShellIsNamed, NamedHasShell, InFlightNoShell
  <2>7. EndInv' /\ DiskInv'
    <3>1. EndInv'
      BY <1>1, <2>1, <2>3, <2>4 DEF EndInv, EndTypes, ActiveNotEnding, EndedNoShell,
         EndedNoClaim, LocalHasOwner
    <3>2. Dirs \subseteq Dirs'
      BY <1>1, DirsStay
    <3>3. DiskInv'
      BY <1>1, <2>1, <2>3, <2>4, <3>2 DEF DiskInv, DiskTypes, RemovingIsOver, StepHasFiles, ClaimHasHome,
         LocalHasFiles, FilesHaveUser
    <3> QED BY <3>1, <3>3
  <2>8. /\ link' \in [Conns -> Links] /\ link'[r] = "attached" /\ link[r] # "none"
        /\ \A c \in Conns : c # r => link'[c] = link[c]
    BY <1>1, <1>4, <2>1 DEF LinkInv, Links, LinkIsNone, DialHasLink, ShellHasLink, AttachedIsShell,
       DialsDetached
  <2>9. LinkInv'
    <3>1. \A v \in Sockets : shell[v] # r
      BY <1>1, <2>1 DEF LinkInv, LinkIsNone, DialHasLink, ShellHasLink, DialsDetached
    <3>2. shell[w] # None => link[shell[w]] # "attached"
      BY <1>1, <2>1, <2>2, Zenon DEF LinkInv, LinkIsNone, DialHasLink, ShellHasLink, DialsDetached
    <3>3. ASSUME NEW q \in Reattaches, q # r, pc[q] = "dial" PROVE target[q] # w
      <4>1. q \in Conns /\ pc[q] \in InFlight
        BY <3>3, Names, Zenon DEF InFlight
      <4>2. sid[target[q]] = sid[q] /\ First(queue[sid[r]], r)
        BY <1>1, <1>2, <2>1, <4>1, Zenon DEF TurnInv, InFlightIsFirst, StepsFitSession,
           ReattachHasTarget
      <4> QED BY <1>1, <2>1, <2>2, <3>3, <4>1, <4>2, OneInFlight, Zenon
    <3> QED BY <1>1, <2>1, <2>2, <2>3, <2>4, <2>8, <3>1, <3>2, <3>3, LinkRegisters, Zenon
  <2>10. BrokerInv' /\ ServedStep
    <3>1. \A c \in Conns : link'[c] = "none" <=> link[c] = "none"
      BY <2>8, Zenon
    <3> QED BY <1>1, <2>1, <3>1, BrokerFrame, Zenon
  <2> QED BY <1>3, <2>5, <2>6, <2>7, <2>9, <2>10, Zenon DEF Kept, TerminalInv
<1>5. CASE link' = [link EXCEPT ![r] = "dropped"] /\ UNCHANGED shell
  <2>1. Attaches(r, "over")
    BY <1>1, <1>5, Zenon DEF Attaches
  <2>2. Only(r) /\ pc'[r] = "over" /\ GivesUp /\ WaitInv' /\ ShellInv' /\ EndInv' /\ SlotStep
    BY <1>1, <1>2, <2>1, AttachFrame, Zenon
  <2>3. DiskInv'
    BY <1>1, <1>5, <2>2, DiskFrame, Zenon
  <2>4. LinkInv' /\ BrokerInv' /\ ServedStep
    BY <1>1, <1>5, <2>2, DialDropped, Zenon
  <2> QED BY <1>3, <2>2, <2>3, <2>4, Zenon DEF Kept, TerminalInv
<1> QED BY <1>4, <1>5, Zenon DEF Reattached
-----------------------------------------------------------------------------
(* The end of a session, and what is removed from its disk.                *)

\* The session ends at the API, and its processes and directory are removed.
LEMMA EndStepKeeps ==
  ASSUME TerminalInv, NEW s \in Sids,
         ApiEnds(s) \/ TerminateLost(s) \/ KillProcesses(s) \/ DestroyHome(s)
  PROVE  Kept
<1>1. /\ TurnInv /\ WaitInv /\ ShellInv /\ EndInv /\ DiskInv
  BY Zenon DEF TerminalInv
<1>2. /\ UNCHANGED <<socket, waiting, replaced, sid, pc, queue, target, claim, shell, bySession>>
      /\ UNCHANGED <<files, removing, link, peer, asked, brokerShell>>
  BY Zenon DEF ApiEnds, TerminateLost, KillProcesses, DestroyHome, gatewayVars, socketVars,
     attachVars, shellVars, diskVars, brokerVars
<1>3. TurnInv' /\ WaitInv' /\ ShellInv' /\ SlotStep /\ LinkInv' /\ BrokerInv' /\ ServedStep
  BY <1>1, <1>2, SamePc, ClosesShuts, Zenon
<1>4. \A w \in Sockets : shell[w] # None => sid[w] \in Sids /\ bySession[sid[w]] = w /\ w # None
  BY <1>1, Names DEF ShellInv, TurnInv, ShellTypes, ShellIsNamed, StepsHaveSid
<1>5. CASE ApiEnds(s) \/ TerminateLost(s)
  <2>1. /\ UNCHANGED <<home, owners, left>> /\ active' \subseteq active
        /\ \A z \in active' : z # s
        /\ \E e \in {"asked", "lost"} : ending' = [ending EXCEPT ![s] = e]
    BY <1>1, <1>5, Zenon DEF ApiEnds, TerminateLost, gatewayVars, diskVars, EndInv, ActiveNotEnding
  <2>2. /\ ending' \in [Sids -> {"no", "asked", "kill", "destroy", "done", "lost"}]
        /\ ending'[s] \notin Ended \cup {"no"} /\ \A z \in Sids : z # s => ending'[z] = ending[z]
    BY <1>1, <2>1, Zenon DEF EndInv, Ended, EndTypes
  <2>3. \A z \in Sids : ending'[z] \in Ended => ending[z] \in Ended
    BY <2>2, Zenon
  <2>4. \A w \in Sockets : pc[w] \in Claimed => sid[w] \in Sids
    BY <1>1, Names, Zenon DEF TurnInv, Claimed, InFlight, StepsHaveSid
  <2>5. EndInv'
    <3>1. EndTypes' /\ LocalHasOwner'
      BY <1>1, <1>2, <2>1, <2>2, Zenon DEF EndInv, EndTypes, LocalHasOwner
    <3>2. ActiveNotEnding'
      BY <1>1, <2>1, <2>2 DEF EndInv, EndTypes, ActiveNotEnding
    <3>3. EndedNoShell'
      BY <1>1, <1>2, <2>3, Zenon DEF EndInv, EndedNoShell
    <3>4. EndedNoClaim'
      BY <1>1, <1>2, <2>3, <2>4, Zenon DEF EndInv, EndedNoClaim, Claimed
    <3> QED BY <3>1, <3>2, <3>3, <3>4, Zenon DEF EndInv
  <2>6. DiskInv'
    <3>1. Dirs \subseteq Dirs'
      BY <2>1, <2>2, GatewayAssumption DEF Dirs
    <3> QED BY <1>1, <1>2, <2>1, <3>1, Zenon DEF DiskInv, DiskTypes, RemovingIsOver, StepHasFiles,
               ClaimHasHome, LocalHasFiles, FilesHaveUser
  <2> QED BY <1>3, <2>5, <2>6, Zenon DEF Kept, TerminalInv
<1>6. CASE KillProcesses(s) \/ DestroyHome(s)
  <2>1. /\ ending[s] \in Ended /\ active' = active
        /\ \E e \in {"destroy", "done"} : ending' = [ending EXCEPT ![s] = e]
    BY <1>6, Zenon DEF KillProcesses, DestroyHome, Ended
  <2>2. /\ ending' \in [Sids -> {"no", "asked", "kill", "destroy", "done", "lost"}]
        /\ \A z \in Sids : /\ ending'[z] \in Ended <=> ending[z] \in Ended
                           /\ ending[z] = "no" <=> ending'[z] = "no"
    BY <1>1, <2>1, Zenon DEF EndInv, Ended, EndTypes
  <2>3. \A w \in Sockets : shell[w] # None => sid[w] # s
    BY <1>1, <1>4, <2>1, Zenon DEF EndInv, EndedNoShell, EndedNoClaim
  <2>4. /\ owners' \subseteq owners /\ left' \subseteq owners'
        /\ \A z \in owners : z # s => z \in owners'
    BY <1>1, <1>6, Zenon DEF KillProcesses, DestroyHome, EndInv, EndTypes
  <2>5. \A w \in Sockets : pc[w] \in Claimed => sid[w] \in Sids
    BY <1>1, Names, Zenon DEF TurnInv, Claimed, InFlight, StepsHaveSid
  <2>6. EndInv'
    <3>1. EndTypes' /\ ActiveNotEnding'
      BY <1>1, <1>2, <2>1, <2>2, <2>4 DEF EndInv, EndTypes, ActiveNotEnding
    <3>2. EndedNoShell'
      BY <1>1, <1>2, <2>2, Zenon DEF EndInv, EndedNoShell
    <3>3. EndedNoClaim'
      <4>1. \A w \in Sockets : pc[w] \in Claimed => (ending'[sid[w]] \in Ended <=> ending[sid[w]] \in Ended)
        BY <2>2, <2>5, Zenon
      <4> QED BY <1>1, <1>2, <4>1, Zenon DEF EndInv, EndedNoClaim, Claimed
    <3>4. LocalHasOwner'
      BY <1>1, <1>2, <2>3, <2>4, Zenon DEF EndInv, LocalHasOwner
    <3> QED BY <3>1, <3>2, <3>3, <3>4, Zenon DEF EndInv
  <2>7. DiskInv'
    <3>1. home' \subseteq home /\ \A z \in home : z # s => z \in home'
      BY <1>6, Zenon DEF KillProcesses, DestroyHome
    <3>3. \A z \in Dirs : z # s => z \in Dirs'
      BY <2>2, <3>1, GatewayAssumption, Zenon DEF Dirs
    <3>2. \A w \in Sockets : pc[w] = "spawn" /\ claim[sid[w]] = w => sid[w] # s
      BY <1>1, <2>1, Zenon DEF EndInv, EndedNoShell, EndedNoClaim
    <3> QED BY <1>1, <1>2, <2>3, <3>1, <3>2, <3>3, Zenon DEF DiskInv, DiskTypes, RemovingIsOver,
               StepHasFiles, ClaimHasHome, LocalHasFiles, FilesHaveUser
  <2> QED BY <1>3, <2>6, <2>7 DEF Kept, TerminalInv
<1> QED BY <1>5, <1>6, Zenon

\* The API seeds a workspace, or removes that of a session it ended.
LEMMA WorkspaceKeeps ==
  ASSUME TerminalInv, NEW s \in Sids, SeedWorkspace(s) \/ DestroyWorkspace(s) PROVE Kept
<1>1. /\ UNCHANGED <<socket, waiting, replaced, sid, pc, queue, target, claim, shell, bySession>>
      /\ UNCHANGED <<active, ending, files, removing, owners, left, link, peer, asked, brokerShell>>
  BY Zenon DEF SeedWorkspace, DestroyWorkspace, socketVars, attachVars, shellVars, brokerVars
<1>2. /\ TurnInv' /\ WaitInv' /\ ShellInv' /\ EndInv' /\ LinkInv' /\ BrokerInv'
      /\ SlotStep /\ ServedStep
  BY <1>1, SamePc, ClosesShuts, Zenon DEF TerminalInv
<1>3. Dirs \subseteq Dirs' /\ home' \subseteq Sids
  BY <1>1, Zenon DEF SeedWorkspace, DestroyWorkspace, Dirs, TerminalInv, DiskInv, DiskTypes
<1>4. DiskInv'
  BY <1>1, <1>3, Zenon DEF TerminalInv, DiskInv, DiskTypes, RemovingIsOver, StepHasFiles,
     ClaimHasHome, LocalHasFiles, FilesHaveUser
<1> QED BY <1>2, <1>4, Zenon DEF Kept, TerminalInv

\* Files are removed in the background, and a process outlives its shell.
LEMMA DiskStepKeeps ==
  ASSUME TerminalInv, NEW w \in Sockets, Remove(w) \/ Nohup(w) PROVE Kept
<1>1. /\ WaitInv /\ ShellInv /\ EndInv /\ DiskInv
  BY Zenon DEF TerminalInv
<1>2. /\ UNCHANGED <<socket, waiting, replaced, sid, pc, queue, target, claim, shell, bySession>>
      /\ UNCHANGED <<active, ending, home, owners, link, peer, asked, brokerShell>>
  BY Zenon DEF Remove, Nohup, socketVars, attachVars, shellVars, brokerVars
<1>3. TurnInv' /\ WaitInv' /\ ShellInv' /\ SlotStep /\ LinkInv' /\ BrokerInv' /\ ServedStep
  BY <1>1, <1>2, SamePc, ClosesShuts, Zenon
<1>4. CASE Remove(w)
  <2>1. EndInv'
    BY <1>2, <1>4, SamePc, Zenon DEF Remove
  <2>2. /\ files' = files \ {w} /\ removing' = removing \ {w}
        /\ shell[w] = None /\ pc[w] = "ready"
    BY <1>1, <1>4, Zenon DEF Remove, DiskInv, DiskTypes, RemovingIsOver
  <2>3. DiskInv'
    <3>1. Dirs \subseteq Dirs'
      BY <1>2, DirsStay
    <3> QED BY <1>1, <1>2, <2>2, <3>1, Zenon DEF DiskInv, DiskTypes, RemovingIsOver, StepHasFiles,
               ClaimHasHome, LocalHasFiles, FilesHaveUser
  <2> QED BY <1>3, <2>1, <2>3, Zenon DEF Kept, TerminalInv
<1>5. CASE Nohup(w)
  <2>1. left' = left \cup {sid[w]} /\ sid[w] \in owners
    BY <1>1, <1>5, Zenon DEF Nohup, Registered, EndInv, LocalHasOwner
  <2>2. EndInv'
    BY <1>1, <1>2, <2>1, Zenon DEF EndInv, EndTypes, ActiveNotEnding, EndedNoShell, EndedNoClaim,
       LocalHasOwner
  <2>3. DiskInv'
    BY <1>2, <1>5, SamePc, Zenon DEF Nohup
  <2> QED BY <1>3, <2>2, <2>3, Zenon DEF Kept, TerminalInv
<1> QED BY <1>4, <1>5, Zenon

\* The broker's steps as the gateway sees them.
LEMMA BrokerKeeps ==
  ASSUME TerminalInv, NEW c \in Conns, Broker(c) PROVE Kept
<1>1. /\ UNCHANGED <<active, ending, socket, waiting, replaced, sid, pc, queue, target>>
      /\ UNCHANGED <<claim, shell, bySession, files, removing, home, owners, left>>
      /\ BrokerStep(c)
  BY Zenon DEF Broker, gatewayVars, socketVars, attachVars, shellVars, diskVars
<1>2. link' = link
  BY <1>1, Zenon DEF BrokerStep, OpenShell, Deny, CallerGone, AttachShell, ShellEnds, EndShell,
     SocketClosed
<1>3. Shuts
  BY <1>1, ClosesShuts, Zenon DEF TerminalInv
<1>4. TurnInv' /\ WaitInv' /\ ShellInv' /\ SlotStep /\ EndInv' /\ DiskInv' /\ LinkInv'
  BY <1>1, <1>2, <1>3, SamePc, Zenon
<1>5. BrokerInv' /\ ServedStep
  BY <1>1, BrokerStepKeeps, Zenon DEF TerminalInv
<1> QED BY <1>4, <1>5, Zenon DEF Kept, TerminalInv
-----------------------------------------------------------------------------
\* Nothing is connected at first.
LEMMA InitInv == ASSUME Init PROVE TerminalInv
<1>1. BrokerInv
  BY Zenon DEF Init, BrokerInit, BrokerInv, Peers, BrokerTypes, LinkHasAsked, PeerHasLink,
     PtyIsNamed, NamedHasPty
<1>2. TurnInv
  <2>1. queue \in [Sids -> Seq(Conns)]
    BY DEF Init
  <2>2. TurnTypes
    BY DEF Init, TurnTypes, Steps
  <2>3. \A a \in Conns : pc[a] = "new"
    BY Zenon DEF Init
  <2>4. "new" \notin {"waiting", "ready"} \cup InFlight \cup LocalSteps /\ "new" \in ReattachSteps
    BY Zenon DEF InFlight, LocalSteps, ReattachSteps
  <2> QED BY <2>2, <2>3, <2>4, Names, Zenon DEF TurnInv, StepsHaveSid, InFlightIsFirst,
             StepsFitSession, ReattachHasTarget
<1>3. WaitInv
  BY Names, Zenon DEF Init, WaitInv, ReadyStates, WaitTypes, ConnectingIsNew, WaitingIsNamed
<1>4. ShellInv
  BY Names, Zenon DEF Init, ShellInv, InFlight, ShellTypes, ShellIsNamed, NamedHasShell,
     InFlightNoShell
<1>5. EndInv
  BY Names, Zenon DEF Init, EndInv, EndTypes, ActiveNotEnding, EndedNoShell, EndedNoClaim,
     LocalHasOwner
<1>6. DiskInv
  BY Names, Zenon DEF Init, DiskInv, DiskTypes, RemovingIsOver, StepHasFiles, ClaimHasHome,
     LocalHasFiles, FilesHaveUser
<1>7. LinkInv
  BY Names, Zenon DEF Init, BrokerInit, LinkInv, Links, LinkIsNone, DialHasLink, ShellHasLink,
     AttachedIsShell, DialsDetached
<1> QED BY <1>1, <1>2, <1>3, <1>4, <1>5, <1>6, <1>7 DEF TerminalInv

\* Every step of a browser, of its attach and of its shell.
LEMMA SocketStepKeeps ==
  ASSUME TerminalInv, NEW w \in Sockets, AttachStep(w) \/ BrowserStep(w) \/ ShellStep(w)
  PROVE  Kept
<1>1. w \in Conns
  BY Names, Zenon
<1>2. CASE AttachStep(w)
  BY <1>1, <1>2, TakeTurnKeeps, ApiAnswersKeeps, FetchedKeeps, WriteCredentialsKeeps,
     ClaimHomeKeeps, SpawnKeeps, DiscardKeeps, DialedKeeps, Zenon DEF AttachStep
<1>3. CASE BrowserStep(w)
  BY <1>3, ConnectKeeps, SocketClosesKeeps, AuthKeeps, Zenon DEF BrowserStep
<1>4. CASE ShellStep(w)
  BY <1>4, CloseShellKeeps, DiskStepKeeps, Zenon DEF ShellStep, CloseFor, Revoke, Overflow,
     ShellExits
<1> QED BY <1>2, <1>3, <1>4

\* Every step of a reattach.
LEMMA ReattachStepKeeps ==
  ASSUME TerminalInv, NEW r \in Reattaches, ReattachStep(r) \/ \E s \in Sids : AskReattach(r, s)
  PROVE  Kept
<1>1. r \in Conns
  BY Names, Zenon
<1> QED BY <1>1, ReattachTurnKeeps, ApiAnswersKeeps, ReattachFetchedKeeps, ReattachedKeeps,
           ReattachFailedKeeps, AskReattachKeeps, Zenon DEF ReattachStep

\* Every step of the gateway and the broker together keeps the invariant.
LEMMA NextKeeps == ASSUME TerminalInv, [Next]_vars PROVE Kept
<1>1. CASE Next
  <2>1. ASSUME NEW s \in Sids, EndStep(s) PROVE Kept
    BY <2>1, EndStepKeeps, TerminateKeeps, WorkspaceKeeps, Zenon DEF EndStep
  <2> QED BY <1>1, <2>1, SocketStepKeeps, ReattachStepKeeps, BrokerKeeps, Zenon DEF Next
<1>2. CASE UNCHANGED vars
  <2>1. /\ UNCHANGED <<active, ending, socket, waiting, replaced, sid, pc, queue, target>>
        /\ UNCHANGED <<claim, shell, bySession, files, removing, home, owners, left>>
        /\ UNCHANGED <<link, peer, asked, brokerShell>>
    BY <1>2, Zenon DEF vars, gatewayVars, socketVars, attachVars, shellVars, diskVars, brokerVars
  <2>2. Shuts
    BY <2>1, ClosesShuts, Zenon DEF TerminalInv
  <2> QED BY <2>1, <2>2, SamePc, Zenon DEF Kept, TerminalInv
<1> QED BY <1>1, <1>2, Zenon

\* The inductive invariant holds of every reachable state of the gateway and
\* the broker together.
THEOREM TerminalInvariant == Spec => []TerminalInv
<1>1. Init => TerminalInv
  BY InitInv, Zenon
<1>2. TerminalInv /\ [Next]_vars => TerminalInv'
  BY NextKeeps, Zenon DEF Kept
<1> QED BY <1>1, <1>2, PTL DEF Spec
-----------------------------------------------------------------------------
\* Every map and set of the terminal service and the broker keeps its type.
THEOREM TerminalTypes == Spec => []TypeOK
<1>1. TerminalInv => TypeOK
  BY Zenon DEF TerminalInv, TypeOK, BrokerTypeOK, TurnInv, TurnTypes, WaitInv, ShellInv, EndInv,
     DiskInv, LinkInv, BrokerInv, WaitTypes, ShellTypes, EndTypes, DiskTypes, BrokerTypes
<1> QED BY <1>1, TerminalInvariant, PTL

(***************************************************************************)
(* A registered shell is the one bySessionId names, whatever attaches,     *)
(* reattaches and ends of its session are under way: startSession replaces *)
(* before it registers, in turn.                                           *)
(***************************************************************************)
THEOREM ShellsFound == Spec => []ShellsReachable
<1>1. TerminalInv => ShellsReachable
  BY Zenon DEF TerminalInv, ShellInv, ShellsReachable, Registered, ShellTypes, ShellIsNamed
<1> QED BY <1>1, TerminalInvariant, PTL

(***************************************************************************)
(* Once terminate was handled a session has no shell and gets none from an *)
(* attach already past its credentials, and no process it started is left  *)
(* unless its uid is remembered.                                           *)
(***************************************************************************)
THEOREM EndIsFinal == Spec => []EndedStaysClosed
<1>1. TerminalInv => EndedStaysClosed
  <2> SUFFICES ASSUME TerminalInv, NEW s \in Sids, ending[s] \in Ended
               PROVE  (\A w \in Registered : sid[w] # s) /\ (s \notin left \/ s \in owners)
    BY Zenon DEF EndedStaysClosed, Ended
  <2>1. bySession[s] = None /\ left \subseteq owners
    BY DEF TerminalInv, EndInv, EndTypes, ActiveNotEnding, EndedNoShell, EndedNoClaim
  <2>2. \A w \in Registered : bySession[sid[w]] = w /\ w # None
    BY Names, Zenon DEF TerminalInv, ShellInv, Registered, ShellIsNamed, NamedHasShell
  <2> QED BY <2>1, <2>2, Zenon
<1> QED BY <1>1, TerminalInvariant, PTL

\* A broker connection the gateway holds attached is the shell of a
\* registered socket: a reattach or a lost claim leaves none behind.
THEOREM NoOrphanAttached == Spec => []AttachedIsOwned
<1>1. TerminalInv => AttachedIsOwned
  BY Names, Zenon DEF TerminalInv, LinkInv, AttachedIsOwned, Registered, AttachedIsShell
<1> QED BY <1>1, TerminalInvariant, PTL

(***************************************************************************)
(* A local shell keeps its credentials, and its directory unless it is the *)
(* shell of a Docker session whose end the gateway does not know of;       *)
(* credentials on disk always have somebody who will remove them.          *)
(***************************************************************************)
THEOREM CredentialsKept == Spec => []CredentialsFollowShell
<1>1. TerminalInv => CredentialsFollowShell
  <2> SUFFICES ASSUME TerminalInv PROVE CredentialsFollowShell
    OBVIOUS
  <2>1. ASSUME NEW w \in Registered, sid[w] \notin Containers
        PROVE  /\ w \in files \ removing
               /\ \/ sid[w] \in home
                  \/ sid[w] \in Workspaces /\ ending[sid[w]] \in {"asked", "lost"}
    <3>1. w \in files \ removing /\ sid[w] \in Dirs
      BY <2>1, Zenon DEF TerminalInv, DiskInv, Registered, RemovingIsOver, LocalHasFiles
    <3>2. CASE sid[w] \in Workspaces /\ ending[sid[w]] # "no"
      <4>1. bySession[sid[w]] # None
        BY <2>1, Names, Zenon DEF TerminalInv, ShellInv, Registered, ShellIsNamed
      <4>2. sid[w] \in Sids
        BY <3>2, GatewayAssumption, Zenon
      <4>3. ending[sid[w]] \notin Ended
        BY <4>1, <4>2, Zenon DEF TerminalInv, EndInv, EndedNoShell
      <4> QED BY <3>1, <3>2, <4>2, <4>3, Zenon DEF TerminalInv, EndInv, EndTypes, Ended
    <3> QED BY <3>1, <3>2, Zenon DEF Dirs
  <2>2. files \subseteq removing \cup Registered
                           \cup {w \in Sockets : pc[w] \in {"home", "spawn", "discard"}}
    BY Zenon DEF TerminalInv, DiskInv, Registered, DiskTypes, FilesHaveUser
  <2> QED BY <2>1, <2>2, Zenon DEF CredentialsFollowShell
<1> QED BY <1>1, TerminalInvariant, PTL

\* Of the open browsers queueing for a session one is waiting: the attach
\* that joins the queue closes the one waitingAttaches named.
THEOREM OneKeptWaiting == Spec => []OneWaits
<1>1. TerminalInv => OneWaits
  BY Names DEF TerminalInv, WaitInv, OneWaits, IsOpen, WaitTypes, WaitingIsNamed
<1> QED BY <1>1, TerminalInvariant, PTL
-----------------------------------------------------------------------------
(***************************************************************************)
(* The ceilings of the gateway and of the broker.  The lemmas above say    *)
(* what a step may do to the slots (SlotStep, ServedStep); here they are   *)
(* counted.  Neither ceiling is inductive as the runs state it: a shell    *)
(* was an attach in flight before it was registered, so the two are        *)
(* counted together, and an attach that replaces its session's PTY asks    *)
(* the broker for no slot, so there the sessions served are counted.       *)
(***************************************************************************)
INSTANCE FiniteSetTheorems

CapacityInv ==
  /\ Cardinality(Registered) + Cardinality(StartingShells) <= MaxSessions
  /\ Cardinality(Served) <= BrokerMax
-----------------------------------------------------------------------------
\* There are finitely many slots in use.
LEMMA SlotsFinite ==
  /\ IsFiniteSet(Registered) /\ IsFiniteSet(StartingShells)
  /\ Cardinality(Registered) \in Nat /\ Cardinality(StartingShells) \in Nat
<1>1. IsFiniteSet(Registered) /\ IsFiniteSet(StartingShells)
  BY GatewayAssumption, FS_Subset, Zenon DEF Registered, StartingShells
<1> QED BY <1>1, FS_CardinalityType, Zenon

\* A step that takes no slot stays within the gateway's ceiling.
LEMMA ShrinkCounts ==
  ASSUME CapacityInv, SlotsShrink
  PROVE  Cardinality(Registered') + Cardinality(StartingShells') <= MaxSessions
<1>1. Registered' \subseteq Registered /\ StartingShells' \subseteq StartingShells
  BY Zenon DEF SlotsShrink, Registered, StartingShells
<1>2. /\ IsFiniteSet(Registered') /\ IsFiniteSet(StartingShells')
      /\ Cardinality(Registered') <= Cardinality(Registered)
      /\ Cardinality(StartingShells') <= Cardinality(StartingShells)
  BY <1>1, SlotsFinite, FS_Subset, Zenon
<1>3. Cardinality(Registered') \in Nat /\ Cardinality(StartingShells') \in Nat
  BY <1>2, FS_CardinalityType, Zenon
<1> QED BY <1>2, <1>3, SlotsFinite, GatewayAssumption DEF CapacityInv

\* The slot of an attach in flight becomes its shell's.
LEMMA MoveCounts ==
  ASSUME CapacityInv, NEW w \in Sockets, SlotMoves(w)
  PROVE  Cardinality(Registered') + Cardinality(StartingShells') <= MaxSessions
<1>1. Registered' = Registered \cup {w} /\ w \notin Registered
  BY Zenon DEF SlotMoves, Registered
<1>2. StartingShells' = StartingShells \ {w} /\ w \in StartingShells
  BY Zenon DEF SlotMoves, StartingShells
<1>3. Cardinality(Registered') = Cardinality(Registered) + 1
  BY <1>1, SlotsFinite, FS_AddElement, Zenon
<1>4. Cardinality(StartingShells') = Cardinality(StartingShells) - 1
  BY <1>2, SlotsFinite, FS_RemoveElement, Zenon
<1> QED BY <1>3, <1>4, SlotsFinite DEF CapacityInv

\* An admitted attach holds a slot: its session's, or one that was free.
LEMMA AdmitCounts ==
  ASSUME CapacityInv, ShellInv, NEW w \in Sockets, SlotAdmits(w)
  PROVE  Cardinality(Registered') + Cardinality(StartingShells') <= MaxSessions
<1>1. StartingShells' = StartingShells \cup {w} /\ w \notin StartingShells
  BY Zenon DEF SlotAdmits, StartingShells, InFlight
<1>2. Cardinality(StartingShells') = Cardinality(StartingShells) + 1
  BY <1>1, SlotsFinite, FS_AddElement, Zenon
<1>3. CASE bySession[sid[w]] # None
  <2>1. bySession[sid[w]] \in Registered
    BY <1>3, Zenon DEF SlotAdmits, ShellInv, Registered, ShellTypes, NamedHasShell
  <2>2. Registered' = Registered \ {bySession[sid[w]]}
    BY Zenon DEF SlotAdmits, Registered
  <2>3. Cardinality(Registered') = Cardinality(Registered) - 1
    BY <2>1, <2>2, SlotsFinite, FS_RemoveElement, Zenon
  <2> QED BY <1>2, <2>3, SlotsFinite DEF CapacityInv
<1>4. CASE bySession[sid[w]] = None
  <2>1. Registered' = Registered
    BY <1>4, Names, Zenon DEF SlotAdmits, Registered
  <2>2. Cardinality(Registered) + Cardinality(StartingShells) < MaxSessions
    BY <1>4, Zenon DEF SlotAdmits, Admits
  <2> QED BY <1>2, <2>1, <2>2, SlotsFinite, GatewayAssumption
<1> QED BY <1>3, <1>4, Zenon
-----------------------------------------------------------------------------
\* Finitely many sessions are served, no more than there are PTYs and
\* inspections.
LEMMA ServedFinite ==
  /\ IsFiniteSet(Shells) /\ IsFiniteSet(Starting) /\ IsFiniteSet(Served)
  /\ Cardinality(Shells) \in Nat /\ Cardinality(Starting) \in Nat /\ Cardinality(Served) \in Nat
  /\ Cardinality(Served) <= Cardinality(Shells) + Cardinality(Starting)
<1>1. IsFiniteSet(Shells) /\ IsFiniteSet(Starting)
  BY BrokerAssumption, FS_Subset, Zenon DEF Shells, Starting
<1>2. Shells \cap Starting = {}
  BY Zenon DEF Shells, Starting
<1>3. /\ IsFiniteSet(Shells \cup Starting)
      /\ Cardinality(Shells \cup Starting)
           = Cardinality(Shells) + Cardinality(Starting) - Cardinality(Shells \cap Starting)
  BY <1>1, FS_Union, Zenon
<1>4. Cardinality(Shells \cap Starting) = 0
  BY <1>2, FS_EmptySet, Zenon
<1> DEFINE f == [c \in Shells \cup Starting |-> asked[c]]
<1>5. f \in Surjection(Shells \cup Starting, Served)
  BY Zenon DEF Surjection, Served
<1>6. IsFiniteSet(Served) /\ Cardinality(Served) <= Cardinality(Shells \cup Starting)
  BY <1>3, <1>5, FS_Surjection, Zenon
<1>7. Cardinality(Shells) \in Nat /\ Cardinality(Starting) \in Nat /\ Cardinality(Served) \in Nat
  BY <1>1, <1>6, FS_CardinalityType, Zenon
<1> QED BY <1>1, <1>3, <1>4, <1>6, <1>7

\* A step of ServedStep stays within the broker's ceiling.
LEMMA ServedCounts ==
  ASSUME CapacityInv, ServedStep
  PROVE  Cardinality(Served') <= BrokerMax
<1>1. CASE Served' \subseteq Served
  <2>1. IsFiniteSet(Served') /\ Cardinality(Served') <= Cardinality(Served)
    BY <1>1, ServedFinite, FS_Subset, Zenon
  <2>2. Cardinality(Served') \in Nat
    BY <2>1, FS_CardinalityType, Zenon
  <2> QED BY <2>1, <2>2, ServedFinite, BrokerAssumption DEF CapacityInv
<1>2. ASSUME NEW s \in Sids, Served' = Served \cup {s},
             ~(Cardinality(Shells) + Cardinality(Starting) >= BrokerMax)
      PROVE  Cardinality(Served') <= BrokerMax
  <2>1. Cardinality(Served') = IF s \in Served THEN Cardinality(Served)
                                              ELSE Cardinality(Served) + 1
    BY <1>2, ServedFinite, FS_AddElement, Zenon
  <2> QED BY <1>2, <2>1, ServedFinite, BrokerAssumption
<1> QED BY <1>1, <1>2, Zenon DEF ServedStep
-----------------------------------------------------------------------------
\* The slots held at the gateway and the sessions served by the broker stay
\* within their ceilings in every reachable state.
THEOREM CapacityInvariant == Spec => []CapacityInv
<1>1. ASSUME Init PROVE CapacityInv
  <2>1. Registered = {} /\ StartingShells = {}
    BY <1>1, Names DEF Init, Registered, StartingShells, InFlight
  <2>2. Served = {}
    BY <1>1, Zenon DEF Init, BrokerInit, Served, Shells, Starting
  <2> QED BY <2>1, <2>2, FS_EmptySet, GatewayAssumption, BrokerAssumption DEF CapacityInv
<1>2. ASSUME TerminalInv, CapacityInv, [Next]_vars PROVE CapacityInv'
  <2>1. SlotStep /\ ServedStep
    BY <1>2, NextKeeps, Zenon DEF Kept
  <2>2. Cardinality(Registered') + Cardinality(StartingShells') <= MaxSessions
    BY <1>2, <2>1, ShrinkCounts, MoveCounts, AdmitCounts, Zenon DEF SlotStep, TerminalInv
  <2>3. Cardinality(Served') <= BrokerMax
    BY <1>2, <2>1, ServedCounts, Zenon
  <2> QED BY <2>2, <2>3, Zenon DEF CapacityInv
<1> QED BY <1>1, <1>2, TerminalInvariant, PTL DEF Spec

(***************************************************************************)
(* withSessionSlot keeps the registered shells within maxSessions, however *)
(* many attaches were in flight when each of them was admitted.            *)
(***************************************************************************)
THEOREM GatewayCapacity == Spec => []GatewayWithinCapacity
<1>1. CapacityInv => GatewayWithinCapacity
  BY SlotsFinite, GatewayAssumption DEF CapacityInv, GatewayWithinCapacity
<1> QED BY <1>1, CapacityInvariant, PTL

(***************************************************************************)
(* The broker's PTYs stay within its maxSessions, one for each session,    *)
(* though a replacing attach asks for no slot: the sessions served bound   *)
(* the PTYs, since bySessionId tells them apart.                           *)
(***************************************************************************)
THEOREM BrokerCapacity == Spec => []BrokerWithinCapacity
<1>1. ASSUME TerminalInv, CapacityInv PROVE BrokerWithinCapacity
  <2>1. \A c \in Shells : c \in Conns /\ brokerShell[asked[c]] = c
    BY <1>1, Zenon DEF TerminalInv, BrokerInv, Shells, PtyIsNamed
  <2> DEFINE f == [c \in Shells |-> asked[c]]
  <2>2. f \in Injection(Shells, Served)
    BY <2>1 DEF Injection, IsInjective, Served
  <2>3. Cardinality(Shells) <= Cardinality(Served)
    BY <2>2, ServedFinite, FS_Injection, Zenon
  <2>4. Cardinality(Shells) <= BrokerMax
    BY <1>1, <2>3, ServedFinite, BrokerAssumption DEF CapacityInv
  <2> QED BY <2>1, <2>4, Zenon DEF BrokerWithinCapacity
<1> QED BY <1>1, TerminalInvariant, CapacityInvariant, PTL
=============================================================================
