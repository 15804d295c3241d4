----------------------------- MODULE MCAttempts -----------------------------
(***************************************************************************)
(* Instances of LabAttempts for TLC.                                       *)
(***************************************************************************)
EXTENDS LabAttempts, TLC

CONSTANTS s1, s2, x1, a1, a2, a3, i1, i2, c1, c2, w1, w2

OneProcess == [c \in Calls |-> i1]
TwoProcesses == [c \in Calls |-> IF c = c1 THEN i1 ELSE i2]

OneSubject == [s \in Sessions |-> x1]

AttemptSymmetry == Permutations({a1, a2, a3}) \cup Permutations({c1, c2})
=============================================================================
