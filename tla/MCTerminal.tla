------------------------------ MODULE MCTerminal ------------------------------
EXTENDS TerminalGateway, TLC

CONSTANTS k1, k2, d1, d2, w1, w2, w3, r1, r2

Symmetry == Permutations(Sockets) \cup Permutations(Containers)

\* No step asks whether a directory is there, and every attach makes its own
\* (ClaimHome): only those of the attaches and shells that made one count.
ClaimedHomes == {sid[w] : w \in Registered \cup {v \in Sockets : pc[v] = "spawn"}}

ClaimedView ==
  <<active, ending, socketVars, attachVars, shellVars, files, removing,
    home \cap ClaimedHomes, owners, left, brokerVars>>
=============================================================================
