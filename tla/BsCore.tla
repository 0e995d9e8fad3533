------------------------------- MODULE BsCore -------------------------------
(***************************************************************************)
(* The package path of the orchestrator: the HTTP thread                   *)
(* (src/orchestrator.c), the core thread (src/src/bs_core.c) and the TDR   *)
(* job threads (src/src/bs_tdr_job.c), which share the context g_ctx and   *)
(* talk through the socket pair core_msg_sock.                             *)
(*                                                                         *)
(* The HTTP thread runs one mongoose handler at a time to completion; the  *)
(* only place where it can wait is the write() of a request to the core    *)
(* socket, so a handler is one action that prepares http_req and a second  *)
(* one, HttpWrite, that delivers it.  The core thread holds the request it *)
(* is working on in core_req.  A NULL pointer dereference ends the process *)
(* (up becomes FALSE and nothing moves any more).                          *)
(***************************************************************************)
EXTENDS CgwContext, FiniteSets, Sequences

CONSTANTS
    Conns,      \* HTTP connections that upload a package
    JobIds,     \* identities for TDR job threads (pthreads)
    SockCap,    \* requests a socket pair buffers before write() blocks
    MaxReqs,    \* bound: HTTP requests and further parts in one behaviour
    MaxLines    \* bound: lines of output of the first script of a job

ASSUME CoreAssumption ==
    /\ SockCap \in Nat \ {0}
    /\ MaxReqs \in Nat
    /\ MaxLines \in Nat

VARIABLES
    up,            \* the process is alive
    stat,          \* apps[s].pkg_stat.stat
    progress,      \* apps[s].upgrade_stat.progress_percent
    loading_app,   \* g_ctx.loading_app
    core_sock,     \* requests in core_msg_sock, oldest first
    eth_sock,      \* requests in eth_installer_msg_sock, oldest first
    http_req,      \* request the HTTP thread is about to write
    core_req,      \* request the core thread is working on
    upload,        \* state of the multipart request of each connection
    job,           \* TDR job threads
    nreq,          \* HTTP requests and further parts served so far
    cut_ready      \* history: some PKG_READY was sent for a part cut short

vars == <<up, stat, progress, loading_app, core_sock, eth_sock, http_req,
          core_req, upload, job, nreq, cut_ready>>

Stats == {"idle", "new", "loading", "succ", "fail"}

Percent == 0 .. 100

(* struct bs_core_request; INVALID is what bs_init_core_request leaves and *)
(* stands for "no request in hand".                                        *)
Cmds == {"INVALID", "PKG_NEW", "PKG_READY", "TDR_RUN", "TDR_STAT_UPDATE"}

CoreRequest == [cmd : Cmds, dev_id : DevIds, progress_percent : Percent]

Request(c, id, p) == [cmd |-> c, dev_id |-> id, progress_percent |-> p]

NoReq == Request("INVALID", Blank, 0)

EthRequest == [cmd : {"PKG_NEW", "VERS"}, app : Slots]

(* nc->user_data and the mongoose multipart state of a connection:         *)
(*   none     no multipart request in progress                             *)
(*   headers  request accepted, no part yet          (user_data is NULL)   *)
(*   between  a part has ended and the next begins   (user_data is NULL)   *)
(*   nofile   fopen failed, the part goes on         (user_data is NULL)   *)
(*   open     the part is being written                                    *)
(*   short    fwrite failed, 500 replied, the part goes on                 *)
UploadStates == {"none", "headers", "between", "nofile", "open", "short"}

(* A TDR job thread; progress is the local variable, sent the last value   *)
(* it wrote to the core (history), report what it told the DLC.            *)
JobPcs == {"none", "popen", "failing", "lines", "popen2", "drain",
           "report", "end"}
Reports == {"none", "finish_wpc", "finish_wpc_fail"}

Job == [app : Slots \cup {NoApp}, pc : JobPcs, progress : Percent,
        lines : 0 .. MaxLines, sent : Percent, report : Reports]

JobRecord(s, pc) == [app |-> s, pc |-> pc, progress |-> 0, lines |-> 0,
                     sent |-> 0, report |-> "none"]

NoJob == JobRecord(NoApp, "none")

TypeOK ==
    /\ up \in BOOLEAN
    /\ stat \in [Slots -> Stats]
    /\ progress \in [Slots -> Percent]
    /\ loading_app \in Slots \cup {NoApp}
    /\ core_sock \in Seq(CoreRequest)
    /\ Len(core_sock) <= SockCap
    /\ eth_sock \in Seq(EthRequest)
    /\ Len(eth_sock) <= SockCap
    /\ http_req \in CoreRequest
    /\ core_req \in CoreRequest
    /\ upload \in [Conns -> UploadStates]
    /\ job \in [JobIds -> Job]
    /\ nreq \in 0 .. MaxReqs
    /\ cut_ready \in BOOLEAN

(* bs_core_init_ctx.                                                       *)
Init ==
    /\ up = TRUE
    /\ stat = [s \in Slots |-> IF PkgType[s] = "INVALID" THEN "succ"
                               ELSE "idle"]
    /\ progress = [s \in Slots |-> 0]
    /\ loading_app = NoApp
    /\ core_sock = <<>>
    /\ eth_sock = <<>>
    /\ http_req = NoReq
    /\ core_req = NoReq
    /\ upload = [c \in Conns |-> "none"]
    /\ job = [j \in JobIds |-> NoJob]
    /\ nreq = 0
    /\ cut_ready = FALSE

-----------------------------------------------------------------------------
(* HTTP thread.                                                            *)

httpVars == <<http_req, upload, nreq, cut_ready>>
tableVars == <<stat, progress, loading_app>>
coreVars == <<core_req, eth_sock>>

(* The poll loop is about to dispatch an event.  Between two parts of one  *)
(* multipart request mongoose returns to no other connection.              *)
Polling ==
    /\ up
    /\ http_req = NoReq
    /\ \A c \in Conns : upload[c] # "between"

(* An HTTP request arrives; MaxReqs bounds how many.                       *)
Serve ==
    /\ Polling
    /\ nreq < MaxReqs
    /\ nreq' = nreq + 1

(* What the body of a /pkg/new can be: one with a dev_id and a url, one    *)
(* without a payload or url, one that is no JSON or has no dev_id.         *)
PkgBodies == {"complete", "no_url", "no_dev_id"}

(* handle_pkg_new: a request that is incomplete or names no known          *)
(* application is answered with an error and goes no further.  Without a   *)
(* dev_id the goto jumps over the initialisation of app, which the answer  *)
(* reads through: the process may die of what the stack holds.             *)
PkgNew(id, body) ==
    /\ Serve
    /\ http_req' = IF body = "complete" /\ FindApp(id) # NoApp
                   THEN Request("PKG_NEW", id, 0) ELSE NoReq
    /\ IF body = "no_dev_id" THEN up' \in BOOLEAN ELSE UNCHANGED up
    /\ UNCHANGED <<tableVars, core_sock, coreVars, upload, job, cut_ready>>

(* handle_tdr_run: the application is not looked up here.                  *)
TdrRun(id, well_formed) ==
    /\ Serve
    /\ http_req' = IF well_formed THEN Request("TDR_RUN", id, 0) ELSE NoReq
    /\ UNCHANGED <<up, tableVars, core_sock, coreVars, upload, job, cut_ready>>

(* Mutant: the write never waits for room.                                 *)
HttpWrite_unbounded ==
    /\ up
    /\ http_req # NoReq
    /\ core_sock' = Append(core_sock, http_req)
    /\ http_req' = NoReq
    /\ UNCHANGED <<up, tableVars, coreVars, upload, job, nreq, cut_ready>>

(* The write() of a handler; it blocks while the socket buffer is full.    *)
HttpWrite ==
    /\ up
    /\ http_req # NoReq
    /\ Len(core_sock) < SockCap
    /\ core_sock' = Append(core_sock, http_req)
    /\ http_req' = NoReq
    /\ UNCHANGED <<up, tableVars, coreVars, upload, job, nreq, cut_ready>>

(* mongoose accepts a multipart request for /upload.                       *)
UploadBegin(c) ==
    /\ Serve
    /\ upload[c] = "none"
    /\ upload' = [upload EXCEPT ![c] = "headers"]
    /\ UNCHANGED <<up, tableVars, core_sock, coreVars, http_req, job,
                   cut_ready>>

(* handle_upload, MG_EV_HTTP_PART_BEGIN.                                   *)
PartBegin(c, opened) ==
    /\ up
    /\ http_req = NoReq
    /\ \/ upload[c] = "headers" /\ Polling
       \/ upload[c] = "between"
    /\ upload' = [upload EXCEPT ![c] = IF opened THEN "open" ELSE "nofile"]
    /\ UNCHANGED <<up, tableVars, core_sock, coreVars, http_req, job, nreq,
                   cut_ready>>

(* handle_upload, MG_EV_HTTP_PART_DATA: data->fp is read through a NULL    *)
(* user_data, or fwrite writes less than it was given.  A chunk that is    *)
(* written in full changes nothing the model keeps.                        *)
PartData(c) ==
    /\ Polling
    /\ \/ /\ upload[c] = "nofile"
          /\ up' = FALSE
          /\ UNCHANGED upload
       \/ /\ upload[c] = "open"
          /\ upload' = [upload EXCEPT ![c] = "short"]
          /\ UNCHANGED up
    /\ UNCHANGED <<tableVars, core_sock, coreVars, http_req, job, nreq,
                   cut_ready>>

(* Mutant: the device is hard-coded, as the file name is.                  *)
HandlePartEnd_hardcoded(c, whole, after) ==
    /\ IF upload[c] \notin {"open", "short"}
       THEN /\ up' = FALSE
            /\ UNCHANGED <<http_req, upload, cut_ready>>
       ELSE /\ http_req' = Request("PKG_READY", "WPC", 0)
            /\ upload' = [upload EXCEPT ![c] = after]
            /\ cut_ready' = (cut_ready \/ ~whole \/ upload[c] = "short")
            /\ UNCHANGED up
    /\ UNCHANGED <<tableVars, core_sock, coreVars, job>>

(* handle_upload, MG_EV_HTTP_PART_END.  data->fp and loading_app->dev_id   *)
(* are dereferenced whatever they are and mp->status is not looked at;     *)
(* whole says whether the part was terminated by its boundary, after is    *)
(* what mongoose does next with the connection.  (That fclose may fail to  *)
(* write what is left is the matter of UploadStream.)                      *)
HandlePartEnd(c, whole, after) ==
    /\ IF upload[c] \notin {"open", "short"} \/ loading_app = NoApp
       THEN /\ up' = FALSE
            /\ UNCHANGED <<http_req, upload, cut_ready>>
       ELSE /\ http_req' = Request("PKG_READY", DevId[loading_app], 0)
            /\ upload' = [upload EXCEPT ![c] = after]
            /\ cut_ready' = (cut_ready \/ ~whole \/ upload[c] = "short")
            /\ UNCHANGED up
    /\ UNCHANGED <<tableVars, core_sock, coreVars, job>>

(* The boundary of the next part: PART_END, then PART_BEGIN.               *)
UploadNextPart(c) ==
    /\ Serve
    /\ upload[c] \in {"nofile", "open", "short"}
    /\ HandlePartEnd(c, TRUE, "between")

(* The closing boundary (mg_http_multipart_finalize).                      *)
UploadFinalize(c) ==
    /\ Polling
    /\ upload[c] \in {"headers", "nofile", "open", "short"}
    /\ HandlePartEnd(c, TRUE, "none")
    /\ UNCHANGED nreq

(* The connection is closed while the request is in progress: mongoose     *)
(* calls PART_END with status -1.                                          *)
UploadAbort(c) ==
    /\ Polling
    /\ upload[c] \in {"headers", "nofile", "open", "short"}
    /\ HandlePartEnd(c, FALSE, "none")
    /\ UNCHANGED nreq

-----------------------------------------------------------------------------
(* Core thread.                                                            *)

CoreRead ==
    /\ up
    /\ core_req = NoReq
    /\ core_sock # <<>>
    /\ core_req' = Head(core_sock)
    /\ core_sock' = Tail(core_sock)
    /\ UNCHANGED <<up, tableVars, httpVars, eth_sock, job>>

CoreHandles(cmd) ==
    /\ up
    /\ core_req.cmd = cmd
    /\ core_req' = NoReq

(* write() of a struct bs_eth_installer_core_request, blocking.            *)
WriteEth(cmd, s) ==
    /\ Len(eth_sock) < SockCap
    /\ eth_sock' = Append(eth_sock, [cmd |-> cmd, app |-> s])

(* Mutant: the Ethernet case falls through from the local one.             *)
CorePkgNew_nobreak ==
    /\ CoreHandles("PKG_NEW")
    /\ LET s == FindApp(core_req.dev_id) IN
        \/ /\ TypeOf(s) # "INVALID"
           /\ stat' = [stat EXCEPT ![s] = "loading"]
           /\ loading_app' = s
           /\ WriteEth("VERS", s)
        \/ /\ TypeOf(s) = "INVALID"
           /\ UNCHANGED <<stat, loading_app, eth_sock>>
    /\ UNCHANGED <<up, progress, core_sock, httpVars, job>>

(* bs_core_req_pkg_new.                                                    *)
CorePkgNew ==
    /\ CoreHandles("PKG_NEW")
    /\ LET s == FindApp(core_req.dev_id) IN
        \/ /\ Local(s)
           /\ stat' = [stat EXCEPT ![s] = "loading"]
           /\ loading_app' = s
           /\ UNCHANGED eth_sock
        \/ /\ TypeOf(s) = "ETH_ECU"
           /\ WriteEth("VERS", s)
           /\ UNCHANGED <<stat, loading_app>>
        \/ /\ TypeOf(s) = "INVALID"
           /\ UNCHANGED <<stat, loading_app, eth_sock>>
    /\ UNCHANGED <<up, progress, core_sock, httpVars, job>>

(* bs_core_req_tdr_run: a job thread for a local package, a request to the *)
(* installer thread for an Ethernet one.  The latter copies payload.info   *)
(* with strcpy, and nobody has filled it in: the process may die of what   *)
(* the stack of the HTTP thread held.                                      *)
StartTdr(id) ==
    LET s == FindApp(id) IN
    \/ /\ Local(s)
       /\ \E j \in JobIds :
            /\ job[j].pc = "none"
            /\ job' = [job EXCEPT ![j] = JobRecord(s, "popen")]
       /\ UNCHANGED <<up, eth_sock>>
    \/ /\ TypeOf(s) = "ETH_ECU"
       /\ \/ WriteEth("PKG_NEW", s) /\ UNCHANGED up
          \/ up' = FALSE /\ UNCHANGED eth_sock
       /\ UNCHANGED job
    \/ /\ TypeOf(s) = "INVALID"
       /\ UNCHANGED <<up, eth_sock, job>>

CoreTdrRun ==
    /\ CoreHandles("TDR_RUN")
    /\ StartTdr(core_req.dev_id)
    /\ UNCHANGED <<tableVars, core_sock, httpVars>>

(* Mutant: PKG_READY no longer starts the installation (the source's TODO). *)
CorePkgReady_norun ==
    /\ CoreHandles("PKG_READY")
    /\ LET s == FindApp(core_req.dev_id) IN
        stat' = IF s = NoApp THEN stat ELSE [stat EXCEPT ![s] = "succ"]
    /\ UNCHANGED <<up, progress, loading_app, core_sock, httpVars, eth_sock,
                   job>>

(* BS_CORE_REQ_PKG_READY: bs_core_req_pkg_ready, then bs_core_req_tdr_run. *)
CorePkgReady ==
    /\ CoreHandles("PKG_READY")
    /\ LET s == FindApp(core_req.dev_id) IN
        stat' = IF s = NoApp THEN stat ELSE [stat EXCEPT ![s] = "succ"]
    /\ StartTdr(core_req.dev_id)
    /\ UNCHANGED <<progress, loading_app, core_sock, httpVars>>

(* bs_core_req_tdr_stat_update.                                            *)
CoreTdrStatUpdate ==
    /\ CoreHandles("TDR_STAT_UPDATE")
    /\ LET s == FindApp(core_req.dev_id) IN
        progress' = IF Local(s)
                    THEN [progress EXCEPT ![s] = core_req.progress_percent]
                    ELSE progress
    /\ UNCHANGED <<up, stat, loading_app, core_sock, httpVars, eth_sock, job>>

CoreStep ==
    CoreRead \/ CorePkgNew \/ CorePkgReady \/ CoreTdrRun \/ CoreTdrStatUpdate

(* The Ethernet installer job thread takes a request (module EthInstaller  *)
(* models what it does with it).                                           *)
EthRead ==
    /\ up
    /\ eth_sock # <<>>
    /\ eth_sock' = Tail(eth_sock)
    /\ UNCHANGED <<up, tableVars, core_sock, httpVars, core_req, job>>

-----------------------------------------------------------------------------
(* TDR job threads: bs_tdr_job_thread.                                     *)

JobMoves(j, from) ==
    /\ up
    /\ job[j].pc = from
    /\ UNCHANGED <<up, tableVars, httpVars, coreVars>>

(* Mutant: a full socket makes the write fail, which is only logged.       *)
WriteUpdate_lossy(j, p) ==
    core_sock' = IF Len(core_sock) < SockCap
                 THEN Append(core_sock, Request("TDR_STAT_UPDATE",
                                                DevId[job[j].app], p))
                 ELSE core_sock

(* write() of a TDR_STAT_UPDATE for the application of j.                  *)
WriteUpdate(j, p) ==
    /\ Len(core_sock) < SockCap
    /\ core_sock' = Append(core_sock,
                           Request("TDR_STAT_UPDATE", DevId[job[j].app], p))

(* The first popen fails: the failure is reported, then 0 is written.      *)
JobPopenFails(j) ==
    /\ JobMoves(j, "popen")
    /\ job' = [job EXCEPT ![j].pc = "failing",
                          ![j].report = "finish_wpc_fail"]
    /\ UNCHANGED core_sock

JobWriteFailure(j) ==
    /\ JobMoves(j, "failing")
    /\ WriteUpdate(j, 0)
    /\ job' = [job EXCEPT ![j].pc = "end", ![j].sent = 0]

JobPopen(j) ==
    /\ JobMoves(j, "popen")
    /\ job' = [job EXCEPT ![j].pc = "lines", ![j].progress = 0]
    /\ UNCHANGED core_sock

(* Mutant: the cap lets 100 through while the script still runs.           *)
Advance_full(p) == IF p + 20 > 100 THEN 99 ELSE p + 20

Advance(p) == IF p + 20 >= 100 THEN 99 ELSE p + 20

(* One line of output: the progress is written, then advanced.             *)
JobLine(j) ==
    /\ JobMoves(j, "lines")
    /\ job[j].lines < MaxLines
    /\ WriteUpdate(j, job[j].progress)
    /\ job' = [job EXCEPT ![j].progress = Advance(job[j].progress),
                          ![j].lines = @ + 1,
                          ![j].sent = job[j].progress]

JobEof(j) ==
    /\ JobMoves(j, "lines")
    /\ job' = [job EXCEPT ![j].pc = "popen2"]
    /\ UNCHANGED core_sock

(* Mutant: the second failure is handled by the code of the first.         *)
JobPopen2Fails_restarts(j) ==
    /\ JobMoves(j, "popen2")
    /\ job' = [job EXCEPT ![j].pc = "failing",
                          ![j].report = "finish_wpc_fail"]
    /\ UNCHANGED core_sock

(* Mutant: the second failure returns without a report.                    *)
JobPopen2Fails_silent(j) ==
    /\ JobMoves(j, "popen2")
    /\ job' = [job EXCEPT ![j].pc = "end"]
    /\ UNCHANGED core_sock

(* The second popen fails: reported, nothing is written.                   *)
JobPopen2Fails(j) ==
    /\ JobMoves(j, "popen2")
    /\ job' = [job EXCEPT ![j].pc = "end", ![j].report = "finish_wpc_fail"]
    /\ UNCHANGED core_sock

JobPopen2(j) ==
    /\ JobMoves(j, "popen2")
    /\ job' = [job EXCEPT ![j].pc = "drain"]
    /\ UNCHANGED core_sock

(* The second script's output has been read to its end.                    *)
JobDone(j) ==
    /\ JobMoves(j, "drain")
    /\ WriteUpdate(j, 100)
    /\ job' = [job EXCEPT ![j].pc = "report", ![j].sent = 100]

JobReport(j) ==
    /\ JobMoves(j, "report")
    /\ job' = [job EXCEPT ![j].pc = "end", ![j].report = "finish_wpc"]
    /\ UNCHANGED core_sock

JobStep(j) ==
    \/ JobPopenFails(j) \/ JobWriteFailure(j) \/ JobPopen(j)
    \/ JobLine(j) \/ JobEof(j)
    \/ JobPopen2Fails(j) \/ JobPopen2(j) \/ JobDone(j) \/ JobReport(j)

-----------------------------------------------------------------------------
HttpStep ==
    \/ \E id \in DevIds, body \in PkgBodies : PkgNew(id, body)
    \/ \E id \in DevIds, well_formed \in BOOLEAN : TdrRun(id, well_formed)
    \/ HttpWrite
    \/ \E c \in Conns :
        \/ UploadBegin(c)
        \/ \E opened \in BOOLEAN : PartBegin(c, opened)
        \/ PartData(c)
        \/ UploadNextPart(c)
        \/ UploadFinalize(c)
        \/ UploadAbort(c)

Next ==
    \/ HttpStep
    \/ CoreStep
    \/ EthRead
    \/ \E j \in JobIds : JobStep(j)

Spec == Init /\ [][Next]_vars

(* The operating system schedules every thread: a write that stays         *)
(* possible happens, a request in a socket is read, the scripts of a job   *)
(* end.  The client owes nothing.                                          *)
FairSpec ==
    /\ Spec
    /\ WF_vars(HttpWrite)
    /\ WF_vars(CoreStep)
    /\ WF_vars(EthRead)
    /\ \A j \in JobIds : WF_vars(JobStep(j))

-----------------------------------------------------------------------------
(* Properties.                                                             *)

(* Every PKG_READY on its way - about to be written, in the socket, or in  *)
(* the core thread's hands - names an application the gateway installs     *)
(* itself and whose package was announced before (bs_core_req_pkg_new has  *)
(* moved it out of idle).  bs_core_req_pkg_ready relies on it without      *)
(* checking: its assert on the package type is commented out.              *)
ReadyFor(r) ==
    r.cmd = "PKG_READY" =>
        LET s == FindApp(r.dev_id) IN
        /\ Local(s)
        /\ stat[s] \in {"loading", "succ"}

ReadyWasAnnounced ==
    /\ ReadyFor(http_req)
    /\ ReadyFor(core_req)
    /\ \A i \in 1 .. Len(core_sock) : ReadyFor(core_sock[i])

(* A package's stat moves idle -> loading -> succ -> loading ... and only  *)
(* for an application the gateway installs itself: it never becomes succ   *)
(* without having been announced, and never goes back to idle.             *)
StatMoves ==
    [][\A s \in Slots : stat'[s] # stat[s] =>
            /\ Local(s)
            /\ <<stat[s], stat'[s]>> \in
                 {<<"idle", "loading">>, <<"loading", "succ">>,
                  <<"succ", "loading">>}]_vars

(* The record of an application, or a report still in the socket, says     *)
(* 100 only after one of the application's own jobs has run its second     *)
(* script to the end: an installation still going stays at 99 at most.     *)
JobsOf(s) == {j \in JobIds : job[j].app = s}

SaysDone(r, s) ==
    /\ r.cmd = "TDR_STAT_UPDATE"
    /\ FindApp(r.dev_id) = s
    /\ r.progress_percent = 100

DoneMeansInstalled ==
    \A s \in Slots :
        \/ progress[s] = 100
        \/ SaysDone(core_req, s)
        \/ \E i \in 1 .. Len(core_sock) : SaysDone(core_sock[i], s)
        => \E j \in JobsOf(s) : /\ job[j].pc \in {"report", "end"}
                               /\ job[j].sent = 100

(* No report is lost, overtaken or given to another application: the       *)
(* newest value on its way to the record of s, or the recorded one when    *)
(* none is on its way, is the last value written by one of the jobs of s   *)
(* (0 if it never had a job).                                              *)
IsUpdate(r, s) == r.cmd = "TDR_STAT_UPDATE" /\ FindApp(r.dev_id) = s

Newest(s) ==
    LET queued == {i \in 1 .. Len(core_sock) : IsUpdate(core_sock[i], s)}
    IN  IF queued # {}
        THEN LET last == CHOOSE i \in queued : \A k \in queued : k <= i
             IN  core_sock[last].progress_percent
        ELSE IF IsUpdate(core_req, s) THEN core_req.progress_percent
        ELSE progress[s]

NoLostProgress ==
    \A s \in Slots :
        IF JobsOf(s) = {} THEN Newest(s) = 0
        ELSE \E j \in JobsOf(s) : Newest(s) = job[j].sent

(* The progress an application shows goes back only when a second job was  *)
(* started for it: one job's reports are applied in the order written.     *)
ProgressGoesBackOnlyOnRerun ==
    [][\A s \in Slots : progress'[s] < progress[s] =>
            \E j, k \in JobsOf(s) : j # k]_vars

(* A PKG_READY is sent only for a part that was received and written to    *)
(* the end.                                                                *)
ReadyOnlyForWholePart == ~cut_ready

(* Once the HTTP thread is about to write a TDR_RUN or a PKG_READY for a   *)
(* local application, one more job for it starts (or the process dies).    *)
RunRequested(s) ==
    /\ http_req.cmd \in {"PKG_READY", "TDR_RUN"}
    /\ FindApp(http_req.dev_id) = s

RunStartsJob ==
    \A s \in Slots : Local(s) =>
        \A n \in 0 .. MaxReqs :
            (RunRequested(s) /\ Cardinality(JobsOf(s)) = n)
                ~> (Cardinality(JobsOf(s)) > n \/ ~up)

(* Every job that starts ends and has told the DLC how.                    *)
JobReports ==
    \A j \in JobIds :
        (job[j].pc = "popen")
            ~> ((job[j].pc = "end" /\ job[j].report # "none") \/ ~up)
=============================================================================
