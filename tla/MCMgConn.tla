------------------------------ MODULE MCMgConn ------------------------------
(* Instances of MgConn for TLC: c1 asks, and others send to it, while c2   *)
(* only comes and goes.                                                    *)
EXTENDS MgConn

CONSTANTS c1, c2

OneAsks == [c \in Conns |-> IF c = c1 THEN 2 ELSE 0]
=============================================================================
