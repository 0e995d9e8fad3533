---------------------------- MODULE MCDlcReport ----------------------------
(* Instances of DlcReport for TLC: two report texts of different lengths,  *)
(* addresses of different lengths.                                         *)
EXTENDS DlcReport

CONSTANTS t1, t2

TwoBodies == [finish |-> <<"F", "f">>, fail |-> <<"X">>]

Home == <<"a", "b", "c">>

OneHost == {<<"w", "x">>}
=============================================================================
