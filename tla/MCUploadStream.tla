--------------------------- MODULE MCUploadStream ---------------------------
(* Instances of UploadStream for TLC.                                      *)
EXTENDS UploadStream

CONSTANTS c1, c2

TwoBytes == <<"B", "C">>

(* c1 sends data full of line ends, dashes and the first byte of the       *)
(* boundary, cut anywhere; c2 an empty part, or two parts of which the     *)
(* second is shorter, in a few reads.                                      *)
Tricky == <<"a", "CR", "LF", "-", "-", "B", "d">>

TwoClients ==
    [c \in Conns |-> IF c = c1 THEN {<<Tricky>>}
                     ELSE {<<<<>>>>, <<<<"a", "-">>, <<"d">>>>}]

ASSUME BoundaryAssumption == Delimits

AnySizes == [c \in Conns |-> IF c = c1 THEN 1 .. 9 ELSE {11}]
=============================================================================
