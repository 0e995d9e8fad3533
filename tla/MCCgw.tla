------------------------------- MODULE MCCgw -------------------------------
(* Instances of Cgw for TLC: the table bs_core_init_ctx builds, installers *)
(* at one address, complete answers.                                       *)
EXTENDS Cgw

CONSTANTS i1, i2, j1, j2

OneIp == [c \in Installers |-> "10.0.0.9"]

FullVersions == {"REQUEST_VERSIONS_RESULT"}
BothFinals == {<<"FINALIZE">>, <<"REPORT_STATE_5">>}

ASSUME EthAssumption ==
    Eth!InstallerAssumption /\ Eth!OneFinalEach /\ Eth!FinalsAreReports
=============================================================================
