# Verification of the cgw orchestrator

TLA+ models of the CGW orchestrator (`src/orchestrator.c` and `src/src/`), the
gateway process that receives software packages from the TLC over HTTP,
installs those of CAN ECUs with a local script and drives the self-installer of
an Ethernet ECU over TCP. The modules are translated from the C source; TLC
checks them on small instances, and TLAPS proves the safety properties, the
action properties and both refinements for every value of the constants.

Paths below are relative to the repository root; code paths such as
`src/src/bs_core.c` name the repository's `src/` directory inside `src/`.

## 1. Inventory

### Threads and shared state

| thread | code | waits on | writes |
|---|---|---|---|
| HTTP (main) | `orchestrator.c` | mongoose poll, `write` to the core socket | core socket, `tlc_ip`, upload file, `job.remote` (send) |
| core | `bs_core.c: bs_core_thread` | `read` of the core socket, `write` to the installer socket | `stat`, `progress_percent`, `loading_app`, installer socket, new TDR threads |
| TDR job (any number) | `bs_tdr_job.c` | script output, `write` to the core socket | core socket, DLC reports |
| installer job | `bs_eth_installer_job.c: bs_eth_installer_job_thread` | `read` of the installer socket | `msg`, `job.remote` (send) |
| installer message | `bs_eth_installer_job.c: ..._job_msg_thread` | mongoose poll (port 1025) | `msg`, `g_vers`, `bin_index`, `apps[1].job`, DLC reports |
| DLC report (any number) | `bs_dlc_apis.c` | none | static `cmd`, `popen` of curl |

All of them share `g_ctx` without a lock. Requests travel as fixed-size structs
through two local socket pairs, `core_msg_sock` and `eth_installer_msg_sock`.

```
 TLC --HTTP--> [HTTP thread] --core_msg_sock--> [core] --eth_installer_msg_sock--> [installer job]
                    |                            ^  |                                   |  msg[]
                 /test/vers                      |  +-starts-> [TDR job]--+             v
                    |                            +------progress----------+        TCP to the ECU
                    +------------------ mg_send ----------------------------------->    ^  |
                                                                    [installer message] +<-+
```

### Components

| component | state it keeps | operations | what makes it correct |
|---|---|---|---|
| HTTP API | none of its own; `tlc_ip` | `/pkg/new`, `/tdr/run`, `/test/vers`, `/tdr/stat`, `/pkg/stat`, `/test/live` | an accepted request reaches the core |
| upload | `nc->user_data` per connection, the package file | multipart events of mongoose | PKG_READY names an announced, locally installed application, and should come only for a complete part |
| core thread | the request in hand, `loading_app`, `stat`, `progress_percent` | PKG_NEW, PKG_READY, TDR_RUN, TDR_STAT_UPDATE | the newest report of a job is not lost, a stat moves along its edges; every run request starts a job |
| application table | 128 slots: `dev_id`, type, stat, progress, installer record | `bs_core_init_ctx`, `bs_core_find_app` | the first slot with the name, or NULL |
| TDR job | local `progress` | two scripts, progress reports, one final report | 100 only at the end, one report to the DLC on each way out |
| installer job thread | shared `msg` | VERS | - |
| installer message thread | `bin_index`, `msg`, `g_vers`, `apps[1].job` | accept, receive, close; one case per task | the plan (four links, prepare, activate) in order, one transfer at a time, replies to the right peer |
| DLC reports | static `cmd`, `tlc_ip` | six reports, of which four are made | a report is sent as composed, to one address |
| mongoose, poll loop | connections, flags, output buffers | select, receive, send, close | nothing of a reply is lost or repeated, and none is cut off by the closing |
| mongoose, multipart parser | `recv_mbuf`, stream state | one case per state | the parts of the form and nothing else, however the bytes are cut |
| configuration save/load | `config.ini` | `bs_save_app_config`, `bs_load_app_config` (not called) | what is saved can be loaded |
| legacy reader `bs_init_app_config` | - | not called | - |
| file utilities, rest of mongoose, cJSON | - | libraries | - |

### What is hard

Threads interleave on shared records without locks; the upload reads
`loading_app` long after the announcement that should have set it; one socket
is written by three kinds of threads and blocks all of them; an upload may end
by a lost connection, and all uploads write one file; the bytes of a body
arrive cut anywhere; two TDR jobs may run for one application; installers
reconnect, and the stored pointer and index outlive the connection; frames may
be merged or split by TCP; frames of two threads are built in one buffer.

When a connection closes, mongoose calls the handler of its last request once
more, with `MG_EV_CLOSE` and no message (`src/mongoose/mongoose.c:6427-6430`).
`handle_pkg_new`, `handle_tdr_run` and `handle_tdr_stat` return at once then,
`handle_pkg_stat` only prints, but `handle_test_live` and `handle_test_vers` do
all they do for a request: the first makes `tlc_ip` the address of the client
that went away, the second sends another REQUEST_VERSIONS, whose answer starts
an upgrade nobody asked for. What they print is freed unsent.

The hazards are listed at their lines in `PROJECT.json`, each with the
properties that would catch it.

## 2. Modules

| module | models |
|---|---|
| `CgwContext` | the application table and `bs_core_find_app`; `BuiltinDevId`/`BuiltinType` are the table `bs_core_init_ctx` leaves (the first "WPC" entry is erased again by the next `bs_init_device_app(g_ctx.apps)`) |
| `BsCore` | HTTP thread, uploads, core thread, TDR jobs, both socket pairs |
| `MCBsCore` | instances of `BsCore` |
| `Campaign` | abstract: what a campaign promises the ECU |
| `EthInstaller` | both installer threads, `/test/vers`, the shared buffer, the external self-installer; implements `Campaign` |
| `MCEthInstaller` | instances of `EthInstaller` |
| `Cgw`, `MCCgw` | `BsCore` and `EthInstaller` put together over `eth_installer_msg_sock` |
| `PartEvents` | abstract: the events a multipart handler is promised |
| `UploadStream`, `MCUploadStream` | mongoose's multipart parser, `handle_upload` and the package file, byte by byte; implements `PartEvents` |
| `MgConn`, `MCMgConn` | mongoose's poll loop, output buffers, the end of a connection, `mg_send` from other threads |
| `DlcReport`, `MCDlcReport` | the report threads, their command buffer, `tlc_ip` and its readers |
| `BsCoreProofs`, `BsProgressProofs` | theorems about the look-up and `BsCore`; the second extends the first by the way of a progress report |
| `EthInstallerProofs`, `EthCampaignProofs` | theorems about `EthInstaller`; the second, which extends the first, has the refinement of `Campaign` and the counting of requests for versions |
| `CgwProofs` | theorems about `Cgw`, from those about `BsCore` and `EthInstaller` |
| `UploadProofs`, `MgConnProofs`, `DlcReportProofs` | theorems about `UploadStream` (with the refinement of `PartEvents`), `MgConn`, `DlcReport` |

### BsCore

Variables keep the names of the code: `stat`, `progress`, `loading_app` are
fields of `g_ctx`; `core_sock` and `eth_sock` are the socket pairs (bounded
sequences, a `write` to a full one blocks); `http_req` is the request a handler
has filled in and not yet written, `core_req` the one the core thread has read;
`upload[c]` combines `nc->user_data` with the multipart state of mongoose;
`job[j]` is a TDR thread with its program counter, local `progress`, the last
value it wrote and the report it made.

One action per handler: `PkgNew`, `TdrRun`, `UploadBegin`, `PartBegin`,
`PartData`, `UploadNextPart`/`UploadFinalize`/`UploadAbort` (the three callers
of PART_END), `HttpWrite` (the only place where the HTTP thread can wait),
`CoreRead` and `CorePkgNew`, `CorePkgReady` (which includes the run the core
starts at once), `CoreTdrRun`, `CoreTdrStatUpdate`, `EthRead`, and the steps of
the job between two points where it can wait. mongoose dispatches one event at
a time; between the end of a part and the beginning of the next of the same
request it serves no other connection (`Polling`).

A NULL dereference ends the process: `up` becomes FALSE and nothing happens any
more. This is how the code behaves when an upload ends before any announcement
was handled, and when a part goes on after `fopen` failed. Two reads of
uninitialised memory may end it too, or do nothing the model could see. For a
`/pkg/new` without a `dev_id`, or that is no JSON, the `goto` of lines 105 and 119
of `src/orchestrator.c` passes over the initialisation of `app`, which line 182
reads through (`PkgNew` with the body `no_dev_id`). And the core copies
`payload.info` with `strcpy` (`src/src/bs_core.c:430`), which `handle_tdr_run` has
never filled in (`StartTdr` for an Ethernet application). A chunk that arrives
after a failed `fwrite` is accepted in the code and changes nothing here.

`dev_id` and the package type are written before any thread starts, hence
constants. `Blank` stands for the empty `dev_id`, which matches the first
unused slot, an INVALID application. Left out: the text of requests and
replies, `tlc_ip`, the content of `payload.info`, the file contents.

What the properties do not say: the application a PKG_READY names is the one
`loading_app` points at, i.e. the last one announced when the part ends. An
upload may therefore be credited to another announced application than the one
it is meant for. The model has these behaviours; nothing in the repository says
which application an upload belongs to, so that there is nothing to hold
against them.

### EthInstaller

`to_peer` and `from_peer` hold frames by task. `JobCompose`/`JobSend` and the
`Handle`/`MsgSend` pair separate composing a frame in `msg` from sending it;
`Wire` is what leaves: the frame composed, or a torn one if another thread wrote
`msg` in between. `/test/vers` has a buffer of its own. `HandleTestVers` is its
handler, called for a request (`TestVers`) or at the close of a connection whose
last request it was (`TestVersClose`); `testers` counts these connections and
`nclosed` the calls of the second kind. `Accept` and `Close` are
the mongoose events; `Close` clears nothing because the code compares `ip:port`
with `ip`. `remote` may therefore point at a freed connection: `SendRemote`
then loses the frame or ends the process. `Recv(c, n)` handles the first of
`n` frames found in one read and discards all `n`; `RecvPart` is a read
that ends inside a frame, neither part of which parses. `Reply` sets
`bin_index` with the composition; only the message thread reads it.

PREPARE_ACTIVATION (1173 bytes with prefix) and ACTIVATE (1164) exceed
`msg[1024]`. In the build the Makefile makes by default (gcc, no optimisation)
`g_vers` follows `msg`, so `Compose` clobbers it. Another layout would hit
another static object; only `VersionsAsReported` depends on it.

The self-installer is external. It answers each request it can read once. The
task names on the wire are the code's: the results of TRANSFER_PACKAGE and
PREPARE_ACTIVATION carry the name of the request (`bs_eth_installer_job.h:39`).

`internal_stat` (written, never read), `g_get_vers_flag` (its test is commented
out) and the uuid index are left out. The requests the core thread writes are
inputs of `JobCompose`; PKG_NEW is an empty case of the job thread.

### Cgw

Extends `BsCore` and instantiates `EthInstaller`; `up` is shared, since a NULL
dereference in any thread ends all. `EthJob` is the installer job thread: it
reads a request when it has sent the frame of the one before, which joins
`BsCore!EthRead` with `EthInstaller!JobCompose`. Every other step of one side
leaves the other alone (`Apart`). `announced` counts the accepted `/pkg/new`
for an Ethernet package, to be compared with what became of them.

### UploadStream and PartEvents

One element of a sequence is a byte; `io` is `recv_mbuf`, `rest` what the
client has still to send. `Request` and `Recv` are reads of any of
`ReadSizes`; then `busy` is set and `mg_http_multipart_continue` runs, one
action per case, until one of them returns. The offsets are the code's: six
bytes beside the boundary are held back, four before it are dropped, four
after it are awaited. `HandlePartBegin`, `HandlePartData`, `HandlePartEnd` are
the three cases of `handle_upload` with both results of `fopen` and `fwrite`;
each upload has its own position in the one package file and a buffer of the C
library, which `fclose` writes out or, on a full disk, does not; `fopen(...,
"w")` truncates the file for all.

`PartEvents` is what `mongoose.h` promises a handler: parts one by one and in
order, their data and nothing else, a proper end only after the last byte.
`UploadStream` implements it by the mapping of `inside` and `over`
(`PartProtocol`), for clients that send a proper form. `EncodeFrom(f)[k]` is
what such a client sends from the k-th part on: a dashed boundary and a header
before every part, a line end behind it, and `LastLine`. `Delimits` says what
the client owes: its boundary occurs neither in a part nor across the line end
and the dashes before it. The parser looks for the bare boundary
(`src/mongoose/mongoose.c:6806`), so that this is more than RFC 2046 asks,
which only forbids the boundary at the beginning of a line with its dashes.

What the model shows of forms a client may send: a form with two parts ends
the first with `MG_F_SEND_AND_CLOSE`, begins the second, which truncates the
file that was just announced, and may be closed in the middle of it, which
announces the file once more; a form without a part gets PART_END without
PART_BEGIN and ends the process; a client that leaves out the last line end is
never answered. A failed `fopen` always ends in the end of the process, a short
`fwrite` always in PKG_READY (run `core_cut`).

### MgConn

`pc` and `todo` are the place of `mg_socket_if_poll` in its list of
connections, `fds` what `select` has reported. Per connection the loop does
`IfPoll` (which closes or goes on), `Recv` until there is nothing left,
and one send of at most what the buffer held; taking bytes and removing them
from the buffer are two steps, because another thread may append between them.
A byte is its number in what was passed to `mg_send`, so that a loss, a
repetition and a swap all show. `Foreign` are the connections other threads
send to: the job thread's REQUEST_VERSIONS and `/test/vers` go to connections
the message thread polls, against `mongoose.h:3501-3505`. If the call overlaps
the loop's visit of that connection (`raced`), what becomes of the buffer is
undefined, and the properties say nothing of it; a call that falls into
`select` or between two visits is covered.

`Spoilers` are clients that may send, behind their requests, what is none or is
too long (`Garble`); mongoose then sets `MG_F_CLOSE_IMMEDIATELY`
(`RecvMalformed`) and the answers before it that are still in the buffer are
discarded, as after an error of the socket. At the close the handlers may be
called once more, for a request that was only begun, for an upload that was cut
off and with `MG_EV_CLOSE`; what they print then (`LateReplies`, counted in
`wasted`) is freed with the buffer. `AnswersBeforeClose` says that nothing else is
lost.

### DlcReport

`tlc_ip` and `cmd` are buffers of characters. `SetAddress` and `WriteChar` are
the clearing and filling by `mg_sock_addr_to_str`, called for a request
(`PkgNew`, `TestLive`) and again when a connection closes whose last request was
`/test/live` (`LiveCloses`; `live` counts these). So `tlc_ip` is the address of
the last client that asked or went away so: after A asks `/test/live`, B
announces a package and A closes, the reports go to A. A report
thread clears `cmd`, prints the text, the address (its length first) and the
rest in separate steps, and runs the command. `lone` and `calm` say
which reports no other thread ran into and which readers saw no change of the
address. Two reports at a time, and a report while a client asks, do come out
mixed or with a prefix of the address, i.e. they may go to a wrong host; the
properties say what cannot happen even then.

## 3. Runs

| run | instance | shows |
|---|---|---|
| `core_table` | 3 slots (an ORCH, an ETH and a CAN application), 2 uploads, 2 jobs, 4 requests, socket of 2 | `TypeOK`, `ReadyWasAnnounced`, `NoLostProgress`, `StatMoves` |
| `core_jobs` | built-in table, an upload, 2 jobs of 6 lines, socket of 1, fair threads | `DoneMeansInstalled`, `ProgressGoesBackOnlyOnRerun` at the cap of 99; `RunStartsJob`, `JobReports` |
| `core_cut` | built-in table, 1 upload | violates `ReadyOnlyForWholePart` |
| `eth_campaign` | 3 connections, two of them of one installer; an id counter of one bit (`UIntMax = 1`), 1 version request of the core, 1 `/test/vers` and the closing of its connection, 1 stray report, merged and split frames, answers with and without payload | `TypeOK`, `IdIsValid`, `OneTransferAtATime`, `PlanInOrder` (refinement of `Campaign`), `RepliesToSender` |
| `cgw` | built-in table, 2 requests, 2 jobs, 1 connection of an installer, 1 `/test/vers` and its closing, fair threads | `RequestsKept`, `UpgradesWereAsked`, `EthUpgradeEnds` |
| `upload` | 2 uploads; one of 7 bytes with line ends, dashes and half a boundary in reads of 1 to 9, the other of an empty part or of two parts | `AnnouncedFile`, `PartProtocol` (refinement of `PartEvents`), `UploadEnds` |
| `mg_conn` | 2 connections, 2 requests of one client, replies of 0 or 1 byte, one client that may send what is no request, 1 `mg_send` of another thread | `TypeOK`, `StreamIntact`, `AnswersBeforeClose`, `Flushed` |
| `dlc` | 2 report threads, texts of 1 and 2 characters, addresses of 2 and 3, 1 descriptor, 2 calls that set the address, the closing of a `/test/live` connection among them | `LoneReportArrives`, `AddressNotMixed`, `ReportIsPosted` |
| `eth_down` | one installer that disconnects | violates `DownInvalidates` |
| `eth_torn` | two version requests | violates `FramesIntact` |
| `eth_vers` | one campaign | violates `VersionsAsReported` |
| `eth_readme` | the README's answer without payload | violates `DigestsResponse` |

Why the bounds are enough: two uploads and two local applications are the
fewest that let an upload be credited to the wrong announcement; a socket of
one or two requests blocks every kind of writer; four requests allow two
announcements, an upload and a run; six lines pass the cap, which five reach,
with a value beyond it. A job identity is used once, and a run that needs more
of them than there are stops there: two are enough for two jobs of one
application or of two, and `core_jobs` has one for each of its requests. A
one-bit id counter wraps at the second of three connections. The table of
`core_table` is one that a configuration file could hold; with the built-in
table there is only one local application and nothing to confuse (the theorems
of section 4 hold for both). In `upload` the body is cut at every place, which
needs reads of one byte and of more than the eight that are held back; with
its line end it is long enough to be handed over in several chunks, the other
parts are shorter than what is held back. A boundary of two bytes is the
shortest that has a proper prefix. In `mg_conn` two replies of one byte, or
one and the byte of the other thread, are what can be sent in part, and two
connections the fewest for a loop that has somebody else to visit. In `dlc` a
longer and a shorter text and address are what leaves a rest of the one behind
the other, and the second report finds no descriptor; that a closing puts an
older client back takes a second host, and is in the theorems, which hold for
any number of them. `cgw` has no uploads; they only meet the other side
at the core socket, which `core_table` covers; stray reports of the installer
and its reconnecting are left to `eth_campaign` and the theorems. Deadlock is
not checked: the system rests when no client asks for anything, and it stops
when the process dies. `core_table` uses symmetry of connections and jobs; the
runs with liveness do not.

What the violations show:

- `core_cut`: the end of a part cut short by a lost connection, or one that
  could not be written, is announced to the core, which installs it.
- `eth_down`: the record of a gone installer stays valid.
- `eth_torn`: the length prefix of one frame and the bytes of another.
- `eth_vers`: `/test/vers` shows a piece of the manifest after a campaign.
- `eth_readme`: the test line of the README ends the process.

Some behaviours are not listed as findings since no statement of the
repository speaks against them: an upload credited to another announced
application, a call of a handler at the close that sets `tlc_ip` or asks for
versions, answers discarded with a malformed request (section 2), and two that
keep `EthUpgradeEnds` from being stated more widely. `bin_index` keeps its
value when the installer disconnects in the middle of a campaign, so no later
campaign starts until a final frame resets it; and an answer merged into
another one's read is lost, which stops the campaign. This is why
`EthUpgradeEnds` is stated for `bin_index = 0`, an installer that stays
connected and the only request for versions, and checked with one frame per
read. `PlanInOrder` counts a frame as handed over only if it leaves intact:
the installer makes nothing of a torn one and does not answer it, so that the
campaign stops there. This is a simplification (`Wire`): the bytes of the
other frame behind the length of the first may hold a whole frame, which the
installer would answer, or shift its reading of those that follow.
`PlanInOrder` is checked, and proved, for installers that end a campaign with
one final frame (`OneFinalEach`); the code accepts both FINALIZE and
REPORT_STATE "5".

The hypotheses of the theorems hold in the runs: TLC evaluates
`OneFinalEach` in `MCEthInstaller`, that and `FinalsAreReports` with the
installer's own assumption in `MCCgw`, and `Delimits` in `MCUploadStream`.

### Fairness

`FairSpec` of `BsCore`: weak fairness of `HttpWrite`, of the core thread, of
the installer job thread and of each TDR job, i.e. the operating system
schedules runnable threads, a blocked `write` returns once there is room, and
scripts end. Clients owe nothing: uploads may stay unfinished. `RunStartsJob`
also needs that there is a free job identity, which 2 jobs for 2 requests
guarantee. `CgwFairSpec` adds: both installer threads send what they have
composed, the message thread reads a frame at a time, and the installer
answers.

`FairSpec` of `UploadStream`: a read that is possible happens, and the loop it
starts runs on; a client need not close. `FairSpec` of `MgConn`: the thread
polls on, `mg_send` returns, and clients read, so that a connection with
something to send is reported writable again and again (strong fairness, since
between two polls it is not). `FairSpec` of `DlcReport`: the operating system
schedules report threads; nothing is asked of the HTTP thread.

## 4. Proofs

Every invariant and action property of a passing run is a theorem, and so are
the two refinements. All of them hold for every set of connections, jobs and
threads, every table, and every value of the bounds; the only assumptions are
the named ones on the constants and, where the table says so, a hypothesis on
what the other end of a connection sends.

| theorem | statement | from |
|---|---|---|
| `TypeSafe` | `Spec => []TypeOK` of `BsCore` | `TypeInv` |
| `ReadySafe` | `Spec => []ReadyWasAnnounced` | `PathInv` |
| `DoneSafe` | `Spec => []DoneMeansInstalled` | `PathInv` |
| `StatSafe` | `Spec => StatMoves` | `PathInv` |
| `NoLostSafe` | `Spec => []NoLostProgress` | `TrailInv` |
| `ProgressRiseSafe` | `Spec => ProgressGoesBackOnlyOnRerun` | `TrailInv` |
| `FindAppProperties` | the look-up is NULL exactly when no slot has the name, and the first that has it otherwise | - |
| `EthTypeSafe` | `Spec => []TypeOK` of `EthInstaller` | itself |
| `IdSafe`, `ReplySafe` | `Spec => []IdIsValid`, `Spec => RepliesToSender` | `RecordInv` |
| `PlanSafe` | `OneFinalEach` implies `Spec => PlanInOrder` | `CampaignInv` |
| `OneTransferSafe` | `OneFinalEach` implies `Spec => []OneTransferAtATime` | `CampaignInv` |
| `RequestsSafe` | `CgwSpec => []RequestsKept` | `CgwInv` |
| `UpgradesSafe` | `OneFinalEach` and `FinalsAreReports` imply `CgwSpec => []UpgradesWereAsked` | `AskedInv` |
| `CgwPlanSafe`, `CgwOneTransferSafe` | `OneFinalEach` implies `CgwSpec => Eth!PlanInOrder`, `CgwSpec => []Eth!OneTransferAtATime` | `CampaignInv` |
| `CgwCoreSafe` | `CgwSpec => [](ReadyWasAnnounced /\ DoneMeansInstalled /\ NoLostProgress)` | `PathInv`, `TrailInv` |
| `CgwMovesSafe` | `CgwSpec => StatMoves /\ ProgressGoesBackOnlyOnRerun` | `PathInv`, `TrailInv` |
| `AnnouncedSafe` | `Spec => []AnnouncedFile` | `UploadInv` |
| `PartsAsPromised` | `Delimits` implies `Spec => PartProtocol` | `StreamInv` |
| `ConnTypeSafe` | `Spec => []TypeOK` of `MgConn` | `ConnInv` |
| `StreamSafe` | `Spec => []StreamIntact` | `ConnInv` |
| `CloseSafe` | `Spec => []AnswersBeforeClose` | `ConnInv` |
| `ReportSafe` | `Spec => []LoneReportArrives` | `DlcInv` |
| `AddressSafe` | `Spec => []AddressNotMixed` | `DlcInv` |

There is one lemma per action or group of actions and part of the invariant
that the action can disturb.

### BsCore

From `TableAssumption` and `CoreAssumption`. `FindAppProperties` uses the
least-element argument on an interval of naturals. `TypeOK` is inductive once
the socket bound is part of it and each job has an application (`TypeInv`).
`ReadyWasAnnounced`, `DoneMeansInstalled` and `StatMoves` are not inductive
alone: that a PKG_READY in the socket is sound
depends on `loading_app`, which depends on what the core did with an earlier
PKG_NEW. `PathInv` strengthens them along the path of a request:

- `LoadingInv`: `loading_app` is NULL or an announced local application (stat
  loading or succ) that the look-up finds under its own name;
- `StatInv`: the stat of a local application is idle, loading or succ;
- `JobInv`: a job runs for an application the look-up finds under its own name,
  and its local progress is never 100;
- `ProgressInv`: a recorded 100 has a job that wrote it;
- `RequestInv`: each request about to be written, in the socket or in hand is
  `Good`: a PKG_READY is for an announced local application, an update with 100
  has a job that wrote it; and the HTTP thread never writes an update.

`AnnouncedStays` and `InstalledStays` state that what a sound request relies on
is never undone.

`BsProgressProofs` follows the reports. The *trail* of an application is the
value it shows, the update in the core thread's hand and those in the socket,
in this order. `TrailInv` says that a trail without a job is only the value 0;
that otherwise its last value is what some job of the application wrote last
(which is `NoLostProgress`); and that the trail of an only job goes up (from
which `ProgressGoesBackOnlyOnRerun`). A step that moves reports along keeps
their order: `TrailKept` takes a map from the new places to the old ones and
serves the read, the update and the writes of others; only `ReportWritten`
makes a trail longer.

### EthInstaller

From `InstallerAssumption`. `RecordInv`: the record of the installer names a
connection, that connection's address and a nonzero id, or none of the three.
Only `Accept` writes it (`OnlyAcceptRecords`), and all of it. `ReplySafe` also
needs that no step but `Recv` both takes a frame and composes one
(`RepliesOnRecv`).

`PlanSafe` is the refinement, over all connections at once. `CampaignInv` says
that at most one step of the plan is composed, on the wire or answered and
unread (`OneStepAtATime`), that what was sent is a prefix of the plan
(`SentIsPrefix`), and that `bin_index` and the number of steps sent tell which
step, or which answer, the one under way must be (`StepIsNext`). An answer that
is read therefore composes the next step or ends the campaign; one that is
lost, torn, merged away or cut leaves nothing under way. The number of queues is
not bounded, so "at most one" is stated by quantifiers and no set is counted.

The hypothesis `OneFinalEach` is about the self-installer: it ends a campaign
with at most one final frame and sends results of steps only in answer to them.
It is needed because the code takes FINALIZE and REPORT_STATE "5" both for the
end; an installer that sends both, one of them late, resets `bin_index` in the
middle of the next campaign. Which versions, reports and payloads it sends
is free, as is when it disconnects.

### Cgw

`RequestsSafe` is a ledger: the accepted announcements are the requests for
versions made plus those in the two sockets, in the HTTP thread's hand and in
the core thread's. A socket is counted by the finite set of its places
(`HowMany`), and a write or a read changes one place.

`UpgradesSafe` counts the other way round. A *question* is a REQUEST_VERSIONS
or REQUEST_STATE composed or on its way, or an unread answer to one.
`AskedInv`: the questions, the campaign that runs and those that are finished
are together never more than the requests for versions of the job thread, of
`/test/vers` and of its closings. A step that handles, sends or loses frames
maps the questions after it into those before it, one to one (`Moved`),
without any bound on the number of connections. `FinalsAreReports` is needed
for the count: an installer that answers questions nobody asked starts
campaigns nobody asked for.

`Cgw` instantiates `EthInstaller` as `Eth`, and its proofs instantiate
`EthCampaignProofs` as `Camp`, whose definitions are those of `Eth`
with the theorems beside them. `CgwOrEthStep` says that each step of the
composition is one of `EthInstaller` or changes of its variables only `up`, and
`CoreOrApart` that it is one of `BsCore` or leaves the core's part alone.
Neither `CgwSpec => Spec` nor `CgwSpec => Eth!Spec` holds, since either side
may end the process of the other; the invariants do not depend on `up`, so that
they, and with them the theorems of both sides, carry over.

### UploadStream

From `UploadAssumption`. `AnnouncedSafe` rests on `FileInv`: an upload that
had the file for itself has written, with what its buffer holds, the bytes
handed over of the part, and is at the end of the file; no other upload has a
FILE then. A write that failed, that of `fclose` included, ends what is
claimed (`whole`). That is the history variable `alone`, seen from both
uploads: an `fopen` ends it for every upload that is open, and has it only if
none is.

`PartsAsPromised` is about the parser. `StreamInv` says for each state of it
what the bytes not yet removed (buffer and unread rest together, `Left`) are,
in terms of the form: a boundary, with or without its dashes, before what is
beyond (`AtBoundary`, `InBuffer`); a part from its first byte (`AtPart`); the
rest of one whose beginning was handed over (`InPart`); or the end. A read
moves bytes from the rest to the buffer and changes none of this
(`ReadKeepsPlace`). Where the parser looks for the boundary, `NoneInPart` and
`NoneBefore` show with `Delimits` that the first occurrence is the one meant
(`FoundNext`), also when the buffer ends inside it; `HandOver` shows that the
four bytes dropped before it are the line end and the dashes, and that what is
handed over without a boundary in sight leaves at least these in the buffer.
That the function `EncodeFrom` exists and yields bytes is proved by the
least-element argument, as no induction over data is available.

### MgConn

From `ConnAssumption`. `ConnInv`: the manager's list and the loop's own hold a
connection once and no closed one (`ListInv`); the bytes counted as sent are
the head of the buffer the loop is at, and none elsewhere (`LoopInv`); only an
error, or what is no request, closes a connection with bytes left, beside
those printed at the close (`FailInv`). With them `StreamIntact` and
`AnswersBeforeClose` are inductive: between sending and removing, another
thread can append to the buffer but not change its head.

### DlcReport

From `ReportAssumption`: texts and addresses are C strings (no NUL in them)
that fit their buffers: 32 bytes for an address (`src/src/bs_core.h:67`), and
`cmd` for the texts the code prints. `AddressInv` ties `tlc_ip` to the address
that is written to it, or was last, and how much of it is there. `ReportInv`
says for a report nobody else ran into what is in `cmd` at each place of the
thread: the text, some characters of an address in the room it has left for
it, NULs behind (`Printed`). An address that changes after its length was
taken leaves a prefix in that room; if NULs remain, the command ends with it
and has no tail. Hence the second quantifier of `AddressNotMixed`.

### Only model-checked

The liveness properties: `RunStartsJob`, `JobReports`, `EthUpgradeEnds`,
`UploadEnds`, `Flushed`, `ReportIsPosted`. They need fairness and ENABLED, which
the prover does not handle. The four violations need no proof: TLC shows a
behaviour. No module uses RECURSIVE.

## 5. Not modelled

- The configuration file (`bs_save_app_config`, `bs_load_app_config`) and the
  legacy reader: nothing calls them (`src/src/bs_core.c:208,226` are comments),
  so that no state of the program depends on them. What they would produce is
  the table, a constant of `CgwContext`.
- The rest of mongoose and cJSON. `src/mongoose` holds the library several
  times over (the amalgamated `mongoose.c` and files it is made of) and most
  of it is compiled out or not used: SSL, DNS, MQTT, CoAP, WebSocket, CGI, other
  network interfaces. Of 47,000 lines of source the program's own are some
  2,400; these, and the parts of mongoose whose event order, buffering and
  parsing they rely on, are what is modelled.
- Parsing of JSON, request lines and headers: a request that does not parse is
  an input of the handler. The header of a part is one Content-Disposition line.
  For a part with more lines `mg_http_multipart_process_boundary` does not count
  them against the bytes left (`src/mongoose/mongoose.c:6786`); if a read ends
  behind such a line it looks beyond the buffer, and what it finds there is undefined.
- Fields of a request that are there but not strings: `valuestring` is NULL then,
  and what `strcmp` or `strcpy` makes of it ends the process.
- Requests between the threads are written and read whole: a `write` that takes a
  part of one, a short `read` and a `write` that fails (`src/orchestrator.c:174-178`,
  which needs the other end closed) are left out.
- Two branches the built program does not take: the way back to the loopback
  address and the return without a reply (`src/orchestrator.c:151-155`), since an
  IPv4 address fits 32 bytes and `inet_ntop` does not fail for it; and the second
  refusal of a multipart request (`src/mongoose/mongoose.c:6630`), since its
  stream has just been created without a boundary.
- The copy of `payload.info` at `src/src/bs_core.c:536` is for an Ethernet
  application called "WPC"; the one of this name in the table is a local one.
- The text of replies and of the manifest; the uuid of a frame.
- `/tdr/stat` and `/pkg/stat`, which only read.
- A restart: nothing is persisted except the package file, and no code looks at
  it at start-up.

## 6. Plan

Every safety and action property that a run checks is proved, and those of both
sides for their composition. Left to do:

- what an installer that sends both final frames can rely on: a property weaker
  than `PlanInOrder`, checked without `OneFinalEach`;
- part headers of several lines, if the bytes behind the buffer are made a
  nondeterministic choice (section 5).
