----------------------------- MODULE CgwContext -----------------------------
(***************************************************************************)
(* The device-application table of struct bs_context (src/src/bs_core.h)   *)
(* and the look-up every thread of the orchestrator makes in it.           *)
(*                                                                         *)
(* dev_id and pkg_stat.type of a slot are written by bs_core_init_ctx      *)
(* only, before any thread is started: they are constants here.  What      *)
(* changes at run time (stat, progress, job) belongs to the modules of the *)
(* threads that change it.                                                 *)
(***************************************************************************)
EXTENDS Integers

CONSTANTS
    NSlots,     \* BS_MAX_DEVICE_APP_NUM
    DevIds,     \* the device identifiers that may occur in a request
    DevId,      \* [Slots -> DevIds]: apps[s].dev_id
    PkgType,    \* [Slots -> PkgTypes]: apps[s].pkg_stat.type
    NoApp       \* the NULL struct bs_device_app *

Slots == 0 .. NSlots - 1

(* The dev_id of an unused slot, the empty string in the code.             *)
Blank == "blank"

PkgTypes == {"INVALID", "CAN_ECU", "ETH_ECU", "ORCH"}

ASSUME TableAssumption ==
    /\ NSlots \in Nat \ {0}
    /\ Blank \in DevIds
    /\ DevId \in [Slots -> DevIds]
    /\ PkgType \in [Slots -> PkgTypes]
    /\ NoApp \notin Slots

-----------------------------------------------------------------------------
(* bs_core_find_app: the first slot whose dev_id equals id, else NULL.     *)
FindApp(id) ==
    IF \E s \in Slots : DevId[s] = id
    THEN CHOOSE s \in Slots :
            /\ DevId[s] = id
            /\ \A r \in Slots : DevId[r] = id => s <= r
    ELSE NoApp

(* What the switches of bs_core.c see: no application is refused the way   *)
(* an INVALID one is.                                                      *)
TypeOf(s) == IF s = NoApp THEN "INVALID" ELSE PkgType[s]

(* The packages the gateway caches itself and installs with its own job.   *)
Local(s) == TypeOf(s) \in {"CAN_ECU", "ORCH"}

-----------------------------------------------------------------------------
(* The table bs_core_init_ctx leaves.  bs_init_device_app(g_ctx.apps) is   *)
(* called before each of the three entries and always clears slot 0, so    *)
(* the first "WPC" entry does not survive.                                 *)
BuiltinDevId ==
    [s \in Slots |-> IF s = 1 THEN "VDCM" ELSE IF s = 2 THEN "WPC" ELSE Blank]

BuiltinType ==
    [s \in Slots |-> IF s = 1 THEN "ETH_ECU"
                     ELSE IF s = 2 THEN "CAN_ECU" ELSE "INVALID"]
=============================================================================
