----------------------------- MODULE PartEvents -----------------------------
(***************************************************************************)
(* What mongoose promises the handler of a multipart request               *)
(* (src/mongoose/mongoose.h, the MG_EV_HTTP_PART events): the parts of the *)
(* form are announced one by one and in order, the data handed over for    *)
(* a part is that part and nothing else, a part ends properly only when    *)
(* all of it was handed over, and every request ends once, properly after  *)
(* the last part or at any time because the connection is gone.            *)
(***************************************************************************)
EXTENDS Naturals, Sequences, SequencesExt

CONSTANT Conns      \* connections, each of which makes one request

VARIABLES
    form,           \* the parts of the request of each connection
    part,           \* number of PART_BEGIN events
    inside,         \* a PART_BEGIN has no PART_END yet
    data,           \* what PART_DATA has handed over of that part
    over            \* MULTIPART_REQUEST_END was delivered

vars == <<form, part, inside, data, over>>

Init ==
    /\ form \in [Conns -> Seq(Seq(STRING))]
    /\ part = [c \in Conns |-> 0]
    /\ inside = [c \in Conns |-> FALSE]
    /\ data = [c \in Conns |-> <<>>]
    /\ over = [c \in Conns |-> FALSE]

Whole(c) == inside[c] => data[c] = form[c][part[c]]

BeginPart(c) ==
    /\ ~over[c] /\ ~inside[c]
    /\ part[c] < Len(form[c])
    /\ part' = [part EXCEPT ![c] = @ + 1]
    /\ inside' = [inside EXCEPT ![c] = TRUE]
    /\ data' = [data EXCEPT ![c] = <<>>]
    /\ UNCHANGED <<form, over>>

EndPart(c) ==
    /\ inside[c] /\ Whole(c)
    /\ inside' = [inside EXCEPT ![c] = FALSE]
    /\ UNCHANGED <<form, part, data, over>>

Data(c) ==
    /\ inside[c]
    /\ IsPrefix(data[c], data'[c])
    /\ IsPrefix(data'[c], form[c][part[c]])
    /\ data' = [data EXCEPT ![c] = data'[c]]
    /\ UNCHANGED <<form, part, inside, over>>

(* PART_END of the last part and MULTIPART_REQUEST_END.                    *)
Finish(c) ==
    /\ ~over[c] /\ Whole(c)
    /\ part[c] = Len(form[c])
    /\ inside' = [inside EXCEPT ![c] = FALSE]
    /\ over' = [over EXCEPT ![c] = TRUE]
    /\ UNCHANGED <<form, part, data>>

(* PART_END and MULTIPART_REQUEST_END with status -1.                      *)
Abort(c) ==
    /\ ~over[c]
    /\ inside' = [inside EXCEPT ![c] = FALSE]
    /\ over' = [over EXCEPT ![c] = TRUE]
    /\ UNCHANGED <<form, part, data>>

Next ==
    \E c \in Conns :
        BeginPart(c) \/ Data(c) \/ EndPart(c) \/ Finish(c) \/ Abort(c)

Spec == Init /\ [][Next]_vars
=============================================================================
