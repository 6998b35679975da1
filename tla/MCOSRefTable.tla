---------------------------- MODULE MCOSRefTable ----------------------------
(* TLC instances of OSRefTable: MCOSRefTable.cfg gives the constants. *)
EXTENDS OSRefTable, TLC

CONSTANTS r1, r2, r3, a, b

\* Two refs compete for a name, a third has a name of its own.
MCfString == [r \in Refs |-> IF r = r3 THEN b ELSE a]

UserSymmetry == Permutations(Users)
=============================================================================
