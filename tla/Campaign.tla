------------------------------ MODULE Campaign ------------------------------
(***************************************************************************)
(* What the orchestrator promises an Ethernet self-installer: within one   *)
(* campaign it hands over the steps of a fixed plan one by one and in      *)
(* order, may give up at any point (the rest is never sent), and reports   *)
(* success only for a campaign whose whole plan was handed over.           *)
(***************************************************************************)
EXTENDS Naturals, Sequences

CONSTANT Plan       \* the steps of a campaign, in order

VARIABLES
    sent,           \* what was handed over in the current campaign
    finished        \* campaigns reported as successful

Init == sent = <<>> /\ finished = 0

HandOver ==
    /\ Len(sent) < Len(Plan)
    /\ sent' = Append(sent, Plan[Len(sent) + 1])
    /\ UNCHANGED finished

Finish ==
    /\ sent = Plan
    /\ sent' = <<>>
    /\ finished' = finished + 1

Next == HandOver \/ Finish

Spec == Init /\ [][Next]_<<sent, finished>>
=============================================================================
