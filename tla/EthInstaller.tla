---------------------------- MODULE EthInstaller ----------------------------
(***************************************************************************)
(* The upgrade of the Ethernet ECU (src/src/bs_eth_installer_job.c and the *)
(* installer part of src/src/bs_core.c): the installer job thread, which   *)
(* serves the requests of the core thread, the installer message thread,   *)
(* a mongoose server that talks to the self-installer of the ECU, and the  *)
(* /test/vers handler of the HTTP thread (src/orchestrator.c), which       *)
(* mongoose also calls when the connection closes.                         *)
(*                                                                         *)
(* Both installer threads compose their frames in one static buffer, msg,  *)
(* and send them from there: composing and sending are two steps, and      *)
(* another thread may overwrite the buffer between them.  The message      *)
(* thread runs one event to completion.  The self-installer itself is      *)
(* external: it answers each request it understands.                       *)
(***************************************************************************)
EXTENDS Integers, Sequences, FiniteSets

CONSTANTS
    Conns,          \* TCP connections of self-installers, each used once
    Ip,             \* [Conns -> addresses]
    Closing,        \* the connections that may be closed
    NoConn,         \* the NULL struct mg_connection *
    NoIp,           \* the empty ip_addr
    UIntMax,        \* UINT_MAX, of unsigned int internal_id
    Versions,       \* frames that may answer REQUEST_VERSIONS
    Finals,         \* sequences of frames that may answer ACTIVATE
    MaxVers,        \* bound: BS_ETH_INSTALLER_VERS requests of the core
    MaxTest,        \* bound: /test/vers requests
    MaxNotes,       \* bound: unsolicited REPORT_STATE frames
    MaxMerge        \* bound: frames one read may find in the buffer

VARIABLES
    up,             \* the process is alive
    conn,           \* life of each connection: new, open, gone
    to_peer,        \* frames on their way to the installer
    from_peer,      \* frames on their way to the gateway
    ip_addr,        \* apps[1].job.ip_addr
    internal_id,    \* apps[1].job.internal_id
    remote,         \* apps[1].job.remote
    gen,            \* the static counter of gen_internal_id
    bin_index,      \* the static index of bs_eth_installer_resp_handler
    g_vers,         \* what g_vers holds: none, reported, clobbered
    msg,            \* last frame composed in the shared buffer
    job_out,        \* frame the job thread has composed and not sent
    msg_out,        \* frame the message thread has composed and not sent
    finished,       \* dlc_report_status_finish() calls
    nvers, ntest, nnotes,   \* what has been used of the bounds
    testers,        \* open connections with /test/vers as the last request
    nclosed,        \* history: how many of them were closed
    sent            \* history: intact campaign frames sent since the last reset

netVars == <<conn, to_peer, from_peer>>
appVars == <<ip_addr, internal_id, remote, gen>>
testVars == <<ntest, testers, nclosed>>
boundVars == <<nvers, nnotes, testVars>>
vars == <<up, netVars, appVars, bin_index, g_vers, msg, job_out, msg_out,
          finished, boundVars, sent>>

-----------------------------------------------------------------------------
(* Frames.  "torn" is one whose bytes are not those its sender composed;   *)
(* the installer makes nothing of it.                                      *)

Frame(t) == [task |-> t, link |-> 0]

Transfer(i) == [task |-> "TRANSFER_PACKAGE", link |-> i]

NoFrame == Frame("none")
Torn == Frame("torn")

NLinks == 4         \* ftp_links

(* The frames of one whole campaign, in the order it needs them.           *)
Plan == [i \in 1 .. NLinks |-> Transfer(i - 1)]
            \o <<Frame("PREPARE_ACTIVATION"), Frame("ACTIVATE")>>

Requests == {Transfer(i) : i \in 0 .. NLinks - 1}
    \cup {Frame(t) : t \in {"REQUEST_VERSIONS", "REQUEST_STATE",
                            "PREPARE_ACTIVATION", "ACTIVATE"}}

(* The tasks of the installer's frames.  TRANSFER_PACKAGE and              *)
(* PREPARE_ACTIVATION are also what their results are called on the wire;  *)
(* REPORT_STATE_5 is a REPORT_STATE whose payload holds state "5", and     *)
(* BARE_VERSIONS_RESULT a REQUEST_VERSIONS_RESULT without a payload.       *)
Answers == {"REQUEST_VERSIONS_RESULT", "BARE_VERSIONS_RESULT",
            "REQUEST_STATE_RESULT",
            "TRANSFER_PACKAGE", "PREPARE_ACTIVATION", "FINALIZE",
            "REPORT_STATE", "REPORT_STATE_5"}

ASSUME InstallerAssumption ==
    /\ NoConn \notin Conns
    /\ Closing \subseteq Conns
    /\ NoIp \notin {Ip[c] : c \in Conns}
    /\ UIntMax \in Nat \ {0}
    /\ Versions \subseteq Answers
    /\ Finals \subseteq Seq(Answers)
    /\ {MaxVers, MaxTest, MaxNotes} \subseteq Nat
    /\ MaxMerge \in Nat \ {0}

(* The answers that move a campaign on, and those that end it.             *)
FinalAnswers == {"FINALIZE", "REPORT_STATE_5"}
StepAnswers == {"TRANSFER_PACKAGE", "PREPARE_ACTIVATION"} \cup FinalAnswers

(* What the self-installer is relied on for where a property says so: one  *)
(* final frame at the most ends a campaign, and nothing but the request    *)
(* for a step is answered with the result of one.                          *)
OneFinalEach ==
    /\ Versions \cap StepAnswers = {}
    /\ \A a \in Finals :
        /\ \A i \in 1 .. Len(a) :
            a[i] \in StepAnswers => a[i] \in FinalAnswers
        /\ \A i, j \in 1 .. Len(a) :
            a[i] \in StepAnswers /\ a[j] \in StepAnswers => i = j

(* What it sends to end a campaign are reports, no answers to questions    *)
(* that were not asked.                                                    *)
FinalsAreReports ==
    \A a \in Finals : \A i \in 1 .. Len(a) :
        a[i] \in FinalAnswers \cup {"REPORT_STATE"}

TypeOK ==
    /\ up \in BOOLEAN
    /\ conn \in [Conns -> {"new", "open", "gone"}]
    /\ to_peer \in [Conns -> Seq(Requests \cup {Torn})]
    /\ from_peer \in [Conns -> Seq(Answers)]
    /\ ip_addr \in {Ip[c] : c \in Conns} \cup {NoIp}
    /\ internal_id \in 0 .. UIntMax
    /\ gen \in 0 .. UIntMax
    /\ remote \in Conns \cup {NoConn}
    /\ bin_index \in -1 .. NLinks
    /\ g_vers \in {"none", "reported", "clobbered"}
    /\ msg \in Requests \cup {NoFrame}
    /\ job_out \in Requests \cup {NoFrame}
    /\ msg_out \in Requests \cup {NoFrame}
    /\ finished \in Nat
    /\ nvers \in 0 .. MaxVers
    /\ ntest \in 0 .. MaxTest
    /\ testers \in Nat /\ nclosed \in Nat
    /\ testers + nclosed <= ntest
    /\ nnotes \in 0 .. MaxNotes
    /\ sent \in Seq(Requests)

Init ==
    /\ up = TRUE
    /\ conn = [c \in Conns |-> "new"]
    /\ to_peer = [c \in Conns |-> <<>>]
    /\ from_peer = [c \in Conns |-> <<>>]
    /\ ip_addr = NoIp
    /\ internal_id = 0
    /\ remote = NoConn
    /\ gen = 0
    /\ bin_index = 0
    /\ g_vers = "none"
    /\ msg = NoFrame
    /\ job_out = NoFrame
    /\ msg_out = NoFrame
    /\ finished = 0
    /\ nvers = 0 /\ ntest = 0 /\ nnotes = 0
    /\ testers = 0 /\ nclosed = 0
    /\ sent = <<>>

-----------------------------------------------------------------------------
(* mg_send to app->job.remote.  Nothing is sent while remote is NULL.  The *)
(* pointer is never reset, so it may be that of a connection mongoose has  *)
(* freed: the frame is lost, or the process dies.                          *)
SendRemote(f) ==
    \/ /\ remote = NoConn
       /\ UNCHANGED <<up, to_peer>>
    \/ /\ remote # NoConn
       /\ conn[remote] = "open"
       /\ to_peer' = [to_peer EXCEPT ![remote] = Append(@, f)]
       /\ UNCHANGED up
    \/ /\ remote # NoConn
       /\ conn[remote] = "gone"
       /\ up' \in BOOLEAN
       /\ UNCHANGED to_peer

(* A frame of the given thread leaves with what the buffer holds now.      *)
Wire(out) == IF msg = out THEN out ELSE Torn

(* PREPARE_ACTIVATION and ACTIVATE are longer than msg[1024]: composing    *)
(* them writes on into g_vers, which follows msg in the default build.     *)
Compose(f) ==
    /\ msg' = f
    /\ g_vers' = IF f.task \in {"PREPARE_ACTIVATION", "ACTIVATE"}
                 THEN "clobbered" ELSE g_vers

-----------------------------------------------------------------------------
(* Installer job thread: bs_eth_installer_core_msg_parse.  Of the requests *)
(* the core writes, only VERS does anything (PKG_NEW is an empty case, and *)
(* nothing in the program writes PREPARE).                                 *)
JobCompose ==
    /\ up
    /\ job_out = NoFrame
    /\ nvers < MaxVers
    /\ nvers' = nvers + 1
    /\ job_out' = Frame("REQUEST_VERSIONS")
    /\ Compose(Frame("REQUEST_VERSIONS"))
    /\ UNCHANGED <<up, netVars, appVars, bin_index, msg_out, finished,
                   testVars, nnotes, sent>>

JobSend ==
    /\ up
    /\ job_out # NoFrame
    /\ SendRemote(Wire(job_out))
    /\ job_out' = NoFrame
    /\ UNCHANGED <<conn, from_peer, appVars, bin_index, g_vers, msg, msg_out,
                   finished, boundVars, sent>>

(* HTTP thread, handle_test_vers: a buffer of its own.                     *)
AskVersions ==
    /\ up
    /\ SendRemote(Frame("REQUEST_VERSIONS"))
    /\ UNCHANGED <<conn, from_peer, appVars, bin_index, g_vers, msg, job_out,
                   msg_out, finished, nvers, nnotes, sent>>

(* A request, on a connection whose last one was /test/vers (again) or on  *)
(* any other.                                                              *)
TestVers(again) ==
    /\ ntest < MaxTest
    /\ again => testers > 0
    /\ ntest' = ntest + 1
    /\ testers' = IF again THEN testers ELSE testers + 1
    /\ nclosed' = nclosed
    /\ AskVersions

(* The connection closes: mongoose calls the handler once more, which does *)
(* not look at the event.                                                  *)
TestVersClose ==
    /\ testers > 0
    /\ testers' = testers - 1
    /\ nclosed' = nclosed + 1
    /\ ntest' = ntest
    /\ AskVersions

HandleTestVers == TestVersClose \/ \E again \in BOOLEAN : TestVers(again)

-----------------------------------------------------------------------------
(* Installer message thread.                                               *)

MsgIdle == up /\ msg_out = NoFrame

(* Mutant: the counter just wraps.                                         *)
NextId_wraps(i) == (i + 1) % (UIntMax + 1)

(* gen_internal_id: 0 is skipped when the counter wraps.                   *)
NextId(i) ==
    IF (i + 1) % (UIntMax + 1) = 0 THEN 1 ELSE (i + 1) % (UIntMax + 1)

(* MG_EV_ACCEPT: bs_core_eth_installer_up always takes apps[1].            *)
Accept(c) ==
    /\ MsgIdle
    /\ conn[c] = "new"
    /\ conn' = [conn EXCEPT ![c] = "open"]
    /\ ip_addr' = Ip[c]
    /\ gen' = NextId(gen)
    /\ internal_id' = NextId(gen)
    /\ remote' = c
    /\ UNCHANGED <<up, to_peer, from_peer, bin_index, g_vers, msg, job_out,
                   msg_out, finished, boundVars, sent>>

(* MG_EV_CLOSE: bs_core_eth_installer_down compares the stored address     *)
(* with "ip:port" and therefore clears nothing.                            *)
Close(c) ==
    /\ MsgIdle
    /\ c \in Closing
    /\ conn[c] = "open"
    /\ conn' = [conn EXCEPT ![c] = "gone"]
    /\ to_peer' = [to_peer EXCEPT ![c] = <<>>]
    /\ from_peer' = [from_peer EXCEPT ![c] = <<>>]
    /\ UNCHANGED <<up, appVars, bin_index, g_vers, msg, job_out, msg_out,
                   finished, boundVars, sent>>

(* What bs_eth_installer_resp_handler does about a task: the frame it      *)
(* composes, the new bin_index, and whether it reports success.            *)
Reply(f, index) ==
    /\ msg_out' = f
    /\ Compose(f)
    /\ bin_index' = index
    /\ UNCHANGED <<up, finished, sent>>

NoReply == UNCHANGED <<up, msg_out, msg, g_vers, bin_index, finished, sent>>

(* Mutant: the last link is taken for the end of the list.                 *)
OnTransferResult_short ==
    \/ /\ bin_index \in 0 .. NLinks - 2
       /\ Reply(Transfer(bin_index), bin_index + 1)
    \/ /\ bin_index = NLinks - 1
       /\ Reply(Frame("PREPARE_ACTIVATION"), -1)
    \/ /\ bin_index = -1
       /\ NoReply

(* Mutant: the index is counted on instead of parked at -1.                *)
OnTransferResult_counts ==
    \/ /\ bin_index \in 0 .. NLinks - 1
       /\ Reply(Transfer(bin_index), bin_index + 1)
    \/ /\ bin_index = NLinks
       /\ Reply(Frame("PREPARE_ACTIVATION"), NLinks + 1)
    \/ /\ bin_index \notin 0 .. NLinks
       /\ NoReply

(* Mutant: nothing is done once the links are used up.                     *)
OnTransferResult_stops ==
    \/ /\ bin_index \in 0 .. NLinks - 1
       /\ Reply(Transfer(bin_index), bin_index + 1)
    \/ /\ bin_index \notin 0 .. NLinks - 1
       /\ NoReply

OnTransferResult ==
    \/ /\ bin_index \in 0 .. NLinks - 1
       /\ Reply(Transfer(bin_index), bin_index + 1)
    \/ /\ bin_index = NLinks
       /\ Reply(Frame("PREPARE_ACTIVATION"), -1)
    \/ /\ bin_index = -1
       /\ NoReply

OnVersionsResult ==
    /\ msg_out' = Frame("REQUEST_STATE")
    /\ msg' = Frame("REQUEST_STATE")
    /\ g_vers' = "reported"
    /\ UNCHANGED <<up, bin_index, finished, sent>>

(* The payload is copied to g_vers without a check that there is one.      *)
OnBareVersionsResult ==
    /\ up' = FALSE
    /\ UNCHANGED <<msg_out, msg, g_vers, bin_index, finished, sent>>

(* Mutant: a state result starts the transfers whatever the index.         *)
OnStateResult_always == Reply(Transfer(0), 1)

OnStateResult ==
    \/ /\ bin_index = 0
       /\ Reply(Transfer(0), 1)
    \/ /\ bin_index # 0
       /\ NoReply

(* Mutant: the state is asked for once more at the end.                    *)
OnFinal_asks ==
    /\ bin_index' = 0
    /\ finished' = finished + 1
    /\ sent' = <<>>
    /\ msg_out' = Frame("REQUEST_STATE")
    /\ msg' = Frame("REQUEST_STATE")
    /\ UNCHANGED <<up, g_vers>>

OnFinal ==
    /\ bin_index' = 0
    /\ finished' = finished + 1
    /\ sent' = <<>>
    /\ UNCHANGED <<up, msg_out, msg, g_vers>>

Handle(task) ==
    \/ task = "TRANSFER_PACKAGE" /\ OnTransferResult
    \/ task = "REQUEST_VERSIONS_RESULT" /\ OnVersionsResult
    \/ task = "BARE_VERSIONS_RESULT" /\ OnBareVersionsResult
    \/ task = "PREPARE_ACTIVATION" /\ Reply(Frame("ACTIVATE"), bin_index)
    \/ task = "REQUEST_STATE_RESULT" /\ OnStateResult
    \/ task = "FINALIZE" /\ OnFinal
    \/ task = "REPORT_STATE_5" /\ OnFinal
    \/ task = "REPORT_STATE" /\ NoReply

(* Mutant: whoever sends is answered.                                      *)
Recv_anyone(c, n) ==
    /\ MsgIdle
    /\ conn[c] = "open"
    /\ n <= Len(from_peer[c])
    /\ from_peer' = [from_peer EXCEPT ![c] = SubSeq(@, n + 1, Len(@))]
    /\ Handle(from_peer[c][1])
    /\ UNCHANGED <<conn, to_peer, appVars, job_out, boundVars>>

(* MG_EV_RECV: the buffer holds n frames; the first is handled if the      *)
(* address of the connection is the one on record, and all n are removed.  *)
Recv(c, n) ==
    /\ MsgIdle
    /\ conn[c] = "open"
    /\ n <= Len(from_peer[c])
    /\ from_peer' = [from_peer EXCEPT ![c] = SubSeq(@, n + 1, Len(@))]
    /\ IF Ip[c] = ip_addr THEN Handle(from_peer[c][1]) ELSE NoReply
    /\ UNCHANGED <<conn, to_peer, appVars, job_out, boundVars>>

(* A read that ends inside a frame: neither part parses.                   *)
RecvPart(c) ==
    /\ MsgIdle
    /\ conn[c] = "open"
    /\ from_peer[c] # <<>>
    /\ MaxMerge > 1
    /\ from_peer' = [from_peer EXCEPT ![c] = Tail(@)]
    /\ UNCHANGED <<up, conn, to_peer, appVars, bin_index, g_vers, msg,
                   job_out, msg_out, finished, boundVars, sent>>

MsgSend ==
    /\ up
    /\ msg_out # NoFrame
    /\ SendRemote(Wire(msg_out))
    /\ sent' = IF /\ msg_out.task # "REQUEST_STATE"
                  /\ to_peer' # to_peer /\ Wire(msg_out) # Torn
               THEN Append(sent, msg_out) ELSE sent
    /\ msg_out' = NoFrame
    /\ UNCHANGED <<conn, from_peer, appVars, bin_index, g_vers, msg, job_out,
                   finished, boundVars>>

-----------------------------------------------------------------------------
(* The self-installer (external).  It answers each request once,           *)
(* REQUEST_VERSIONS with one of Versions, ACTIVATE with one of Finals, and *)
(* may report states on its own.                                           *)
AnswersTo(f) ==
    CASE f.task = "REQUEST_VERSIONS" -> {<<v>> : v \in Versions}
      [] f.task = "REQUEST_STATE" -> {<<"REQUEST_STATE_RESULT">>}
      [] f.task = "TRANSFER_PACKAGE" -> {<<"TRANSFER_PACKAGE">>}
      [] f.task = "PREPARE_ACTIVATION" -> {<<"PREPARE_ACTIVATION">>}
      [] f.task = "ACTIVATE" -> Finals
      [] OTHER -> {<<>>}

PeerAnswer(c) ==
    /\ up
    /\ to_peer[c] # <<>>
    /\ \E a \in AnswersTo(Head(to_peer[c])) :
        from_peer' = [from_peer EXCEPT ![c] = @ \o a]
    /\ to_peer' = [to_peer EXCEPT ![c] = Tail(@)]
    /\ UNCHANGED <<up, conn, appVars, bin_index, g_vers, msg, job_out,
                   msg_out, finished, boundVars, sent>>

PeerNote(c) ==
    /\ up
    /\ conn[c] = "open"
    /\ nnotes < MaxNotes
    /\ nnotes' = nnotes + 1
    /\ from_peer' = [from_peer EXCEPT ![c] = Append(@, "REPORT_STATE")]
    /\ UNCHANGED <<up, conn, to_peer, appVars, bin_index, g_vers, msg,
                   job_out, msg_out, finished, nvers, testVars, sent>>

Peer(c) == PeerAnswer(c) \/ PeerNote(c)

-----------------------------------------------------------------------------
MsgThread ==
    \/ MsgSend
    \/ \E c \in Conns : Accept(c) \/ Close(c) \/ RecvPart(c)
                        \/ \E n \in 1 .. MaxMerge : Recv(c, n)

Next ==
    \/ JobCompose \/ JobSend \/ HandleTestVers
    \/ MsgThread
    \/ \E c \in Conns : Peer(c)

Spec == Init /\ [][Next]_vars

-----------------------------------------------------------------------------
(* Properties.                                                             *)

(* A campaign hands over its plan - the four links, PREPARE_ACTIVATION,    *)
(* ACTIVATE - in order and without a gap, and success is reported to the   *)
(* DLC only when all of it was sent, also when frames are torn in msg on   *)
(* the way.  bin_index and the installer's answers have to stay in step.   *)
Promise == INSTANCE Campaign

PlanInOrder == Promise!Spec

(* At most one TRANSFER_PACKAGE is unanswered, counting what is composed,  *)
(* on the wire, or answered and not yet read: the installer is never asked *)
(* to fetch two packages at a time.                                        *)
Unanswered(c) ==
    Cardinality({i \in 1 .. Len(to_peer[c]) :
                    to_peer[c][i].task = "TRANSFER_PACKAGE"})
    + Cardinality({i \in 1 .. Len(from_peer[c]) :
                    from_peer[c][i] = "TRANSFER_PACKAGE"})

OneTransferAtATime ==
    /\ \A c \in Conns :
        Unanswered(c) + (IF msg_out.task = "TRANSFER_PACKAGE" THEN 1 ELSE 0)
            <= 1
    /\ \A c, d \in Conns : c # d => Unanswered(c) = 0 \/ Unanswered(d) = 0

(* A reply goes to the installer whose message it answers, on whichever of *)
(* its connections was accepted last: an installer is known by its         *)
(* address only.                                                           *)
RepliesToSender ==
    [][\A c \in Conns :
        from_peer'[c] # from_peer[c] /\ msg_out' # msg_out
            => Ip[c] = Ip[remote]]_vars

(* The record holds a valid internal id from the first accepted installer  *)
(* on, whatever the counter did: 0 means that there was none.              *)
IdIsValid == internal_id = 0 <=> remote = NoConn

(* bs_core_eth_installer_down clears the internal id of an installer that  *)
(* is gone ("'0' is invalid internal ID").                                 *)
DownInvalidates ==
    remote # NoConn => (conn[remote] = "gone" => internal_id = 0)

(* The length prefix is that of the frame it precedes.                     *)
FramesIntact ==
    \A c \in Conns : \A i \in 1 .. Len(to_peer[c]) : to_peer[c][i] # Torn

(* /test/vers answers what the ECU reported last.                          *)
VersionsAsReported == g_vers # "clobbered"

(* A REQUEST_VERSIONS_RESULT with a "response" and no "payload", as in the *)
(* README's test lines, is digested.                                       *)
DigestsResponse == up
=============================================================================
