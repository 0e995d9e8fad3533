------------------------------ MODULE MCBsCore ------------------------------
(* Instances of BsCore for TLC: the table bs_core_init_ctx builds, cut to  *)
(* its first slots, and a table with two locally installed applications    *)
(* such as a configuration file could hold.                                *)
EXTENDS BsCore, TLC

TwoDevId == [s \in Slots |-> IF s = 0 THEN "CGW"
                             ELSE IF s = 1 THEN "VDCM" ELSE "WPC"]

TwoType == [s \in Slots |-> IF s = 0 THEN "ORCH"
                            ELSE IF s = 1 THEN "ETH_ECU" ELSE "CAN_ECU"]

Symmetry == Permutations(Conns) \cup Permutations(JobIds)
=============================================================================
