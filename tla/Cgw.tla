-------------------------------- MODULE Cgw --------------------------------
(***************************************************************************)
(* The orchestrator put together: the HTTP thread, the core thread and the *)
(* TDR jobs (module BsCore) and the two installer threads with their       *)
(* self-installers (module EthInstaller).  They share the process and meet *)
(* at the socket pair eth_installer_msg_sock: the core thread writes, the  *)
(* installer job thread reads a request when it has done with the one      *)
(* before (src/src/bs_eth_installer_job.c, bs_eth_installer_job_thread).   *)
(***************************************************************************)
EXTENDS BsCore

CONSTANTS
    Installers, Ip, Closing, NoConn, NoIp, UIntMax, Versions, Finals,
    MaxVers, MaxTest, MaxNotes, MaxMerge    \* those of EthInstaller

VARIABLES
    conn, to_peer, from_peer, ip_addr, internal_id, remote, gen, bin_index,
    g_vers, msg, job_out, msg_out, finished, nvers, ntest, nnotes, testers,
    nclosed, sent,                          \* those of EthInstaller
    announced       \* history: /pkg/new requests for an Ethernet package

Eth == INSTANCE EthInstaller WITH Conns <- Installers

ethVars == <<conn, to_peer, from_peer, ip_addr, internal_id, remote, gen,
             bin_index, g_vers, msg, job_out, msg_out, finished, nvers,
             ntest, nnotes, testers, nclosed, sent>>

corePart == <<stat, progress, loading_app, core_sock, eth_sock, http_req,
              core_req, upload, job, nreq, cut_ready>>

cgwVars == <<vars, ethVars, announced>>

CgwInit == Init /\ Eth!Init /\ announced = 0

-----------------------------------------------------------------------------
IsEthNew(r) == r.cmd = "PKG_NEW" /\ TypeOf(FindApp(r.dev_id)) = "ETH_ECU"

Http ==
    /\ HttpStep
    /\ announced' = IF http_req = NoReq /\ IsEthNew(http_req')
                    THEN announced + 1 ELSE announced
    /\ UNCHANGED ethVars

Core == CoreStep /\ UNCHANGED <<ethVars, announced>>

TdrJob(j) == JobStep(j) /\ UNCHANGED <<ethVars, announced>>

(* Mutant: whatever the socket holds is read at once, and only the first   *)
(* request is looked at.                                                   *)
EthJob_drains ==
    /\ up
    /\ eth_sock # <<>>
    /\ job_out = Eth!NoFrame
    /\ eth_sock' = <<>>
    /\ IF Head(eth_sock).cmd = "VERS" THEN Eth!JobCompose
       ELSE UNCHANGED <<up, ethVars>>
    /\ UNCHANGED <<stat, progress, loading_app, core_sock, http_req, core_req,
                   upload, job, nreq, cut_ready, announced>>

(* bs_eth_installer_job_thread reads a request and, for VERS, composes     *)
(* REQUEST_VERSIONS; PKG_NEW is an empty case.                             *)
EthJob ==
    /\ job_out = Eth!NoFrame
    /\ EthRead
    /\ IF Head(eth_sock).cmd = "VERS" THEN Eth!JobCompose
       ELSE UNCHANGED ethVars
    /\ UNCHANGED announced

(* Steps of the installer threads and of the installers that do not touch  *)
(* the sockets of the core.                                                *)
Apart(step) == step /\ UNCHANGED <<corePart, announced>>

EthOther ==
    \/ Apart(Eth!JobSend) \/ Apart(Polling /\ Eth!HandleTestVers)
    \/ Apart(Eth!MsgThread)
    \/ \E c \in Installers : Apart(Eth!Peer(c))

CgwNext ==
    \/ Http \/ Core \/ EthJob \/ EthOther
    \/ \E j \in JobIds : TdrJob(j)

CgwSpec == CgwInit /\ [][CgwNext]_cgwVars

(* As in the two modules: threads are scheduled, connections are read, the *)
(* installer answers.                                                      *)
CgwFairSpec ==
    /\ CgwSpec
    /\ WF_cgwVars(HttpWrite /\ UNCHANGED <<ethVars, announced>>)
    /\ WF_cgwVars(Core)
    /\ WF_cgwVars(EthJob)
    /\ WF_cgwVars(Apart(Eth!JobSend))
    /\ WF_cgwVars(Apart(Eth!MsgSend))
    /\ \A c \in Installers :
        /\ WF_cgwVars(Apart(Eth!Recv(c, 1)))
        /\ WF_cgwVars(Apart(Eth!PeerAnswer(c)))
-----------------------------------------------------------------------------
(* Properties.                                                             *)

(* Every accepted /pkg/new for an Ethernet package leads to one request    *)
(* for versions: it is on its way through the two sockets or was composed  *)
(* for the installer, and is neither lost nor doubled.                     *)
OnTheWay ==
    Cardinality({i \in 1 .. Len(core_sock) : IsEthNew(core_sock[i])})
    + Cardinality({i \in 1 .. Len(eth_sock) : eth_sock[i].cmd = "VERS"})
    + (IF IsEthNew(http_req) THEN 1 ELSE 0)
    + (IF IsEthNew(core_req) THEN 1 ELSE 0)

RequestsKept == announced = nvers + OnTheWay

(* No more upgrades are under way or reported to the DLC as finished than  *)
(* requests for versions were made, whose answers are what starts one: by  *)
(* a /pkg/new that has reached the job thread, by a /test/vers, and, which *)
(* nobody meant, by the closing of a connection that asked /test/vers.     *)
UpgradesWereAsked ==
    finished + (IF bin_index # 0 THEN 1 ELSE 0) <= nvers + ntest + nclosed

(* /pkg/new for the Ethernet ECU while its installer is connected and no   *)
(* campaign is stuck halfway ends with a success reported to the DLC,      *)
(* unless the connection is lost or a second request for versions, of      *)
(* another /pkg/new or of a /test/vers and its closing, gets in its way.   *)
EthUpgradeEnds ==
    \A c \in Installers :
        (IsEthNew(http_req) /\ remote = c /\ conn[c] = "open"
            /\ bin_index = 0 /\ announced = 1)
        ~> (finished > 0 \/ conn[c] = "gone" \/ remote # c
            \/ announced + ntest > 1 \/ ~up)
=============================================================================
