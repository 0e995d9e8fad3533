--------------------------- MODULE MCEthInstaller ---------------------------
(* Instances of EthInstaller for TLC.                                      *)
EXTENDS EthInstaller

CONSTANTS c1, c2, c3

(* Every installer at its own address.                                     *)
OwnIp == [c \in Conns |-> c]

(* c1 and c2 are one installer that connects twice.                        *)
TwoIps == [c \in Conns |-> IF c = c3 THEN "10.0.0.8" ELSE "10.0.0.9"]

(* The answer to REQUEST_VERSIONS has a payload, or has none.              *)
FullVersions == {"REQUEST_VERSIONS_RESULT"}
BareVersions == {"BARE_VERSIONS_RESULT"}
AnyVersions == FullVersions \cup BareVersions

(* The installer ends with FINALIZE or with REPORT_STATE "5".              *)
OneFinal == {<<"FINALIZE">>, <<"REPORT_STATE_5">>}

JustFinalize == {<<"FINALIZE">>}

ASSUME OneFinalAssumption == OneFinalEach
=============================================================================
