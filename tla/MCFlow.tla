-------------------------------- MODULE MCFlow --------------------------------
EXTENDS OutputFlow

\* Everywhere but at the shell's output pausing suffices.
LateAtShell == [h \in Hops |-> CASE h = 3 -> 2 [] h = 4 -> 1 [] OTHER -> 0]
=============================================================================
