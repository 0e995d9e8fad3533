---------------------------- MODULE BsCoreProofs ----------------------------
(* Proofs about BsCore, for every table, every number of connections and   *)
(* job threads and every value of the bounds.                              *)
EXTENDS BsCore, SequenceTheorems, WellFoundedInduction, TLAPS

(***************************************************************************)
(* The look-up (CgwContext).                                               *)
(***************************************************************************)
(* A non-empty set of slots has a first one: the loop of bs_core_find_app  *)
(* stops at it.                                                            *)
LEMMA FirstOf ==
    ASSUME NEW T, T \subseteq Nat, T # {}
    PROVE  \E m \in T : \A n \in T : m <= n
<1>1. PICK m \in T : \A n \in T : ~ (<<n, m>> \in OpToRel(<, Nat))
    BY WFMin, NatLessThanWellFounded
<1>2. ASSUME NEW n \in T
      PROVE  m <= n
    <2>1. ~ (<<n, m>> \in OpToRel(<, Nat))
        BY <1>1
    <2>2. <<n, m>> \in Nat \X Nat
        OBVIOUS
    <2>3. ~ (n < m)
        BY <2>1, <2>2 DEF OpToRel
    <2> QED
        BY <2>3
<1> QED
    BY <1>2

(* bs_core_find_app answers NULL exactly when no slot of the table carries *)
(* the identifier asked for, and the first that does otherwise; asking     *)
(* again with that slot's dev_id finds the same slot: the pointer may      *)
(* travel as a dev_id through a socket.                                    *)
THEOREM FindAppProperties ==
    ASSUME NEW id
    PROVE  /\ FindApp(id) \in Slots \cup {NoApp}
           /\ FindApp(id) = NoApp <=> \A s \in Slots : DevId[s] # id
           /\ FindApp(id) # NoApp =>
                /\ FindApp(id) \in Slots
                /\ DevId[FindApp(id)] = id
                /\ \A r \in Slots : DevId[r] = id => FindApp(id) <= r
                /\ FindApp(DevId[FindApp(id)]) = FindApp(id)
<1>1. CASE ~ \E s \in Slots : DevId[s] = id
    BY <1>1 DEF FindApp
<1>2. CASE \E s \in Slots : DevId[s] = id
    <2> DEFINE T == {s \in Slots : DevId[s] = id}
    <2>1. /\ T \subseteq Nat
          /\ T # {}
        <3>1. T # {}
            BY <1>2
        <3>2. \A s \in Slots : s \in Nat
            BY TableAssumption DEF Slots
        <3> QED
            BY <3>1, <3>2
    <2>2. PICK m \in T : \A n \in T : m <= n
        BY <2>1, FirstOf
    <2>3. \E s \in Slots : /\ DevId[s] = id
                           /\ \A r \in Slots : DevId[r] = id => s <= r
        BY <2>2
    <2>4. /\ FindApp(id) \in Slots
          /\ DevId[FindApp(id)] = id
          /\ \A r \in Slots : DevId[r] = id => FindApp(id) <= r
        BY <1>2, <2>3 DEF FindApp
    <2>5. FindApp(id) # NoApp
        BY <2>4, TableAssumption
    <2> QED
        BY <1>2, <2>4, <2>5
<1> QED
    BY <1>1, <1>2

(***************************************************************************)
(* The values requests and jobs are built from.                            *)
(***************************************************************************)
LEMMA RequestType ==
    ASSUME NEW c \in Cmds, NEW id \in DevIds, NEW p \in Percent
    PROVE  /\ Request(c, id, p) \in CoreRequest
           /\ Request(c, id, p).cmd = c
           /\ Request(c, id, p).dev_id = id
           /\ Request(c, id, p).progress_percent = p
BY DEF Request, CoreRequest

LEMMA NoReqType == NoReq \in CoreRequest /\ NoReq.cmd = "INVALID"
<1>1. "INVALID" \in Cmds /\ Blank \in DevIds /\ 0 \in Percent
    BY TableAssumption DEF Cmds, Percent
<1> QED
    BY <1>1, RequestType DEF NoReq

LEMMA JobRecordType ==
    ASSUME NEW s \in Slots \cup {NoApp}, NEW pc \in JobPcs
    PROVE  /\ JobRecord(s, pc) \in Job
           /\ JobRecord(s, pc).app = s
           /\ JobRecord(s, pc).pc = pc
BY CoreAssumption DEF JobRecord, Job, Reports, Percent

LEMMA NoJobType == NoJob \in Job /\ NoJob.pc = "none"
BY JobRecordType DEF NoJob, JobPcs

LEMMA PercentValues == 0 \in Percent /\ 100 \in Percent
BY DEF Percent

(* The next progress a job writes is a percentage and never 100.           *)
LEMMA AdvanceType ==
    ASSUME NEW p \in Percent
    PROVE  Advance(p) \in Percent /\ Advance(p) # 100
BY DEF Advance, Percent

(* A socket stays a sequence of requests when one is written or read.      *)
LEMMA WriteSock ==
    ASSUME NEW S, NEW q \in Seq(S), NEW r \in S
    PROVE  /\ Append(q, r) \in Seq(S)
           /\ Len(Append(q, r)) = Len(q) + 1
           /\ Append(q, r)[Len(q) + 1] = r
           /\ \A i \in 1 .. Len(q) : Append(q, r)[i] = q[i]
BY AppendProperties

LEMMA ReadSock ==
    ASSUME NEW S, NEW q \in Seq(S), q # <<>>
    PROVE  /\ Head(q) \in S
           /\ Head(q) = q[1]
           /\ Tail(q) \in Seq(S)
           /\ Len(Tail(q)) = Len(q) - 1
           /\ Len(q) \in Nat \ {0}
           /\ \A i \in 1 .. Len(Tail(q)) : Tail(q)[i] = q[i + 1]
<1>1. /\ Len(q) \in Nat \ {0}
      /\ Len(Tail(q)) = Len(q) - 1
    BY EmptySeq, HeadTailProperties
<1> QED
    BY <1>1, HeadTailProperties

(***************************************************************************)
(* Type correctness.  A running job has an application: without it the     *)
(* dev_id a job puts in its reports would have no type.                    *)
(***************************************************************************)
TypeInv ==
    /\ TypeOK
    /\ \A j \in JobIds : job[j].pc # "none" => job[j].app \in Slots

LEMMA InitType == Init => TypeInv
<1> SUFFICES ASSUME Init
             PROVE  TypeInv
    OBVIOUS
<1>1. core_sock \in Seq(CoreRequest) /\ Len(core_sock) = 0
    BY EmptySeq DEF Init
<1>2. eth_sock \in Seq(EthRequest) /\ Len(eth_sock) = 0
    BY EmptySeq DEF Init
<1>3. job \in [JobIds -> Job] /\ \A j \in JobIds : job[j].pc = "none"
    BY NoJobType DEF Init
<1>4. stat \in [Slots -> Stats] /\ progress \in [Slots -> Percent]
    BY DEF Init, Stats, Percent
<1>5. upload \in [Conns -> UploadStates]
    BY DEF Init, UploadStates
<1>6. /\ up \in BOOLEAN /\ cut_ready \in BOOLEAN
      /\ loading_app \in Slots \cup {NoApp}
      /\ http_req \in CoreRequest /\ core_req \in CoreRequest
    BY NoReqType DEF Init
<1>7. /\ Len(core_sock) <= SockCap /\ Len(eth_sock) <= SockCap
      /\ nreq \in 0 .. MaxReqs
    BY <1>1, <1>2, CoreAssumption DEF Init
<1>8. TypeOK
    BY <1>1, <1>2, <1>3, <1>4, <1>5, <1>6, <1>7 DEF TypeOK
<1> QED
    BY <1>3, <1>8 DEF TypeInv

(* What a request of the HTTP thread leaves: http_req, upload, nreq and    *)
(* cut_ready change, and the process may die; nothing else.                *)
LEMMA HttpFrame ==
    ASSUME TypeInv,
           UNCHANGED <<tableVars, core_sock, coreVars, job>>,
           up' \in BOOLEAN, cut_ready' \in BOOLEAN,
           http_req' \in CoreRequest, upload' \in [Conns -> UploadStates],
           nreq' \in 0 .. MaxReqs
    PROVE  TypeInv'
BY DEF TypeInv, TypeOK, tableVars, coreVars

LEMMA PartEndType ==
    ASSUME TypeInv, NEW c \in Conns, NEW whole \in BOOLEAN,
           NEW after \in UploadStates,
           up, HandlePartEnd(c, whole, after), nreq' \in 0 .. MaxReqs
    PROVE  TypeInv'
<1>1. CASE upload[c] \notin {"open", "short"} \/ loading_app = NoApp
    BY <1>1, HttpFrame DEF HandlePartEnd, TypeInv, TypeOK
<1>2. CASE ~ (upload[c] \notin {"open", "short"} \/ loading_app = NoApp)
    <2>1. loading_app \in Slots
        BY <1>2 DEF TypeInv, TypeOK
    <2>2. Request("PKG_READY", DevId[loading_app], 0) \in CoreRequest
        BY <2>1, RequestType, TableAssumption DEF Cmds, Percent
    <2> QED
        BY <1>2, <2>2, HttpFrame DEF HandlePartEnd, TypeInv, TypeOK
<1> QED
    BY <1>1, <1>2

LEMMA HttpStepType ==
    ASSUME TypeInv, HttpStep
    PROVE  TypeInv'
<1>1. ASSUME NEW id \in DevIds, NEW body \in PkgBodies, PkgNew(id, body)
      PROVE  TypeInv'
    <2>1. Request("PKG_NEW", id, 0) \in CoreRequest
        BY RequestType DEF Cmds, Percent
    <2>2. http_req' \in CoreRequest
        BY <1>1, <2>1, NoReqType DEF PkgNew
    <2> QED
        BY <1>1, <2>2, HttpFrame, CoreAssumption
           DEF PkgNew, Serve, TypeInv, TypeOK
<1>2. ASSUME NEW id \in DevIds, NEW well_formed \in BOOLEAN,
             TdrRun(id, well_formed)
      PROVE  TypeInv'
    <2>1. Request("TDR_RUN", id, 0) \in CoreRequest
        BY RequestType DEF Cmds, Percent
    <2>2. http_req' \in CoreRequest
        BY <1>2, <2>1, NoReqType DEF TdrRun
    <2> QED
        BY <1>2, <2>2, HttpFrame, CoreAssumption
           DEF TdrRun, Serve, TypeInv, TypeOK
<1>3. ASSUME HttpWrite
      PROVE  TypeInv'
    <2>1. /\ core_sock' \in Seq(CoreRequest)
          /\ Len(core_sock') <= SockCap
        BY <1>3, WriteSock, LenProperties, CoreAssumption
           DEF HttpWrite, TypeInv, TypeOK
    <2> QED
        BY <1>3, <2>1, NoReqType
           DEF HttpWrite, TypeInv, TypeOK, tableVars, coreVars
<1>4. ASSUME NEW c \in Conns, UploadBegin(c)
      PROVE  TypeInv'
    <2>1. upload' \in [Conns -> UploadStates]
        BY <1>4 DEF UploadBegin, TypeInv, TypeOK, UploadStates
    <2> QED
        BY <1>4, <2>1, HttpFrame, CoreAssumption
           DEF UploadBegin, Serve, TypeInv, TypeOK
<1>5. ASSUME NEW c \in Conns, NEW opened \in BOOLEAN, PartBegin(c, opened)
      PROVE  TypeInv'
    <2>1. upload' \in [Conns -> UploadStates]
        BY <1>5 DEF PartBegin, TypeInv, TypeOK, UploadStates
    <2> QED
        BY <1>5, <2>1, HttpFrame DEF PartBegin, TypeInv, TypeOK
<1>6. ASSUME NEW c \in Conns, PartData(c)
      PROVE  TypeInv'
    <2>1. upload' \in [Conns -> UploadStates] /\ up' \in BOOLEAN
        BY <1>6 DEF PartData, TypeInv, TypeOK, UploadStates
    <2> QED
        BY <1>6, <2>1, HttpFrame DEF PartData, TypeInv, TypeOK
<1>7. ASSUME NEW c \in Conns, UploadNextPart(c)
      PROVE  TypeInv'
    <2>1. nreq' \in 0 .. MaxReqs
        BY <1>7, CoreAssumption DEF UploadNextPart, Serve, TypeInv, TypeOK
    <2> QED
        BY <1>7, <2>1, PartEndType
           DEF UploadNextPart, Serve, Polling, UploadStates
<1>8. ASSUME NEW c \in Conns, UploadFinalize(c) \/ UploadAbort(c)
      PROVE  TypeInv'
    <2>1. nreq' \in 0 .. MaxReqs
        BY <1>8 DEF UploadFinalize, UploadAbort, TypeInv, TypeOK
    <2> QED
        BY <1>8, <2>1, PartEndType
           DEF UploadFinalize, UploadAbort, Polling, UploadStates
<1> QED
    BY <1>1, <1>2, <1>3, <1>4, <1>5, <1>6, <1>7, <1>8
       DEF HttpStep

LEMMA WriteEthType ==
    ASSUME TypeInv, NEW cmd \in {"PKG_NEW", "VERS"}, NEW s \in Slots,
           WriteEth(cmd, s)
    PROVE  eth_sock' \in Seq(EthRequest) /\ Len(eth_sock') <= SockCap
<1>1. [cmd |-> cmd, app |-> s] \in EthRequest
    BY DEF EthRequest
<1> QED
    BY <1>1, WriteSock, LenProperties, CoreAssumption
       DEF WriteEth, TypeInv, TypeOK

(* TypeOf tells a slot of the table from NULL.                             *)
LEMMA TypeOfApp ==
    ASSUME NEW id, TypeOf(FindApp(id)) # "INVALID"
    PROVE  FindApp(id) \in Slots
BY FindAppProperties DEF TypeOf

LEMMA LocalApp ==
    ASSUME NEW id, Local(FindApp(id))
    PROVE  FindApp(id) \in Slots
BY TypeOfApp DEF Local

LEMMA StartTdrType ==
    ASSUME TypeInv, NEW id, StartTdr(id)
    PROVE  /\ up' \in BOOLEAN
           /\ eth_sock' \in Seq(EthRequest) /\ Len(eth_sock') <= SockCap
           /\ job' \in [JobIds -> Job]
           /\ \A j \in JobIds : job'[j].pc # "none" => job'[j].app \in Slots
<1> DEFINE s == FindApp(id)
<1>1. CASE Local(s) /\ UNCHANGED <<up, eth_sock>>
    <2>1. s \in Slots
        BY <1>1, LocalApp
    <2>2. PICK j \in JobIds :
            job' = [job EXCEPT ![j] = JobRecord(s, "popen")]
        BY <1>1, <2>1, TypeOfApp DEF StartTdr, Local
    <2>3. /\ JobRecord(s, "popen") \in Job
          /\ JobRecord(s, "popen").app = s
        BY <2>1, JobRecordType DEF JobPcs
    <2> QED
        BY <1>1, <2>1, <2>2, <2>3 DEF TypeInv, TypeOK
<1>2. CASE /\ TypeOf(s) = "ETH_ECU" /\ WriteEth("PKG_NEW", s)
           /\ UNCHANGED <<up, job>>
    BY <1>2, TypeOfApp, WriteEthType DEF TypeInv, TypeOK
<1>3. CASE up' \in BOOLEAN /\ UNCHANGED <<eth_sock, job>>
    BY <1>3 DEF TypeInv, TypeOK
<1>4. up \in BOOLEAN
    BY DEF TypeInv, TypeOK
<1> QED
    BY <1>1, <1>2, <1>3, <1>4 DEF StartTdr

LEMMA CoreStepType ==
    ASSUME TypeInv, CoreStep
    PROVE  TypeInv'
<1>1. CASE CoreRead
    <2>1. /\ core_req' \in CoreRequest
          /\ core_sock' \in Seq(CoreRequest)
          /\ Len(core_sock') <= SockCap
        BY <1>1, ReadSock, CoreAssumption DEF CoreRead, TypeInv, TypeOK
    <2> QED
        BY <1>1, <2>1 DEF CoreRead, TypeInv, TypeOK, tableVars, httpVars
<1>2. CASE CorePkgNew
    <2> DEFINE s == FindApp(core_req.dev_id)
    <2>1. core_req' \in CoreRequest
        BY <1>2, NoReqType DEF CorePkgNew, CoreHandles
    <2>2. CASE Local(s) /\ stat' = [stat EXCEPT ![s] = "loading"]
               /\ loading_app' = s /\ UNCHANGED eth_sock
        BY <1>2, <2>1, <2>2, LocalApp
           DEF CorePkgNew, TypeInv, TypeOK, Stats, httpVars
    <2>3. CASE TypeOf(s) = "ETH_ECU" /\ WriteEth("VERS", s)
               /\ UNCHANGED <<stat, loading_app>>
        <3>1. s \in Slots
            BY <2>3, TypeOfApp
        <3>2. eth_sock' \in Seq(EthRequest) /\ Len(eth_sock') <= SockCap
            BY <2>3, <3>1, WriteEthType
        <3> QED
            BY <1>2, <2>1, <2>3, <3>2 DEF CorePkgNew, TypeInv, TypeOK, httpVars
    <2>4. CASE UNCHANGED <<stat, loading_app, eth_sock>>
        BY <1>2, <2>1, <2>4 DEF CorePkgNew, TypeInv, TypeOK, httpVars
    <2> QED
        BY <1>2, <2>2, <2>3, <2>4 DEF CorePkgNew
<1>3. CASE CoreTdrRun
    <2>1. core_req' \in CoreRequest
        BY <1>3, NoReqType DEF CoreTdrRun, CoreHandles
    <2> QED
        BY <1>3, <2>1, StartTdrType
           DEF CoreTdrRun, TypeInv, TypeOK, tableVars, httpVars
<1>4. CASE CorePkgReady
    <2>1. core_req' \in CoreRequest
        BY <1>4, NoReqType DEF CorePkgReady, CoreHandles
    <2>2. stat' \in [Slots -> Stats]
        BY <1>4, FindAppProperties DEF CorePkgReady, TypeInv, TypeOK, Stats
    <2> QED
        BY <1>4, <2>1, <2>2, StartTdrType
           DEF CorePkgReady, TypeInv, TypeOK, httpVars
<1>5. CASE CoreTdrStatUpdate
    <2>1. core_req' \in CoreRequest
        BY <1>5, NoReqType DEF CoreTdrStatUpdate, CoreHandles
    <2>2. core_req.progress_percent \in Percent
        BY DEF TypeInv, TypeOK, CoreRequest
    <2>3. progress' \in [Slots -> Percent]
        BY <1>5, <2>2, LocalApp DEF CoreTdrStatUpdate, TypeInv, TypeOK
    <2> QED
        BY <1>5, <2>1, <2>3 DEF CoreTdrStatUpdate, TypeInv, TypeOK, httpVars
<1> QED
    BY <1>1, <1>2, <1>3, <1>4, <1>5 DEF CoreStep

LEMMA EthReadType ==
    ASSUME TypeInv, EthRead
    PROVE  TypeInv'
<1>1. eth_sock' \in Seq(EthRequest) /\ Len(eth_sock') <= SockCap
    BY ReadSock, CoreAssumption DEF EthRead, TypeInv, TypeOK
<1> QED
    BY <1>1 DEF EthRead, TypeInv, TypeOK, tableVars, httpVars

(* A job's write keeps the socket well formed; a job's step changes its    *)
(* own record only.                                                        *)
LEMMA WriteUpdateType ==
    ASSUME TypeInv, NEW j \in JobIds, job[j].pc # "none",
           NEW p \in Percent, WriteUpdate(j, p)
    PROVE  core_sock' \in Seq(CoreRequest) /\ Len(core_sock') <= SockCap
<1>1. DevId[job[j].app] \in DevIds
    BY TableAssumption DEF TypeInv
<1>2. Request("TDR_STAT_UPDATE", DevId[job[j].app], p) \in CoreRequest
    BY <1>1, RequestType DEF Cmds
<1> QED
    BY <1>2, WriteSock, LenProperties, CoreAssumption
       DEF WriteUpdate, TypeInv, TypeOK

LEMMA JobStepType ==
    ASSUME TypeInv, NEW j \in JobIds, JobStep(j)
    PROVE  TypeInv'
<1>1. /\ job \in [JobIds -> Job] /\ job[j] \in Job
      /\ job[j].pc # "none"
      /\ job[j].progress \in Percent
    BY DEF TypeInv, TypeOK, Job, JobStep, JobMoves, JobPopenFails,
           JobWriteFailure, JobPopen, JobLine, JobEof, JobPopen2Fails,
           JobPopen2, JobDone, JobReport
<1>2. core_sock' \in Seq(CoreRequest) /\ Len(core_sock') <= SockCap
    <2>1. CASE \E p \in Percent : WriteUpdate(j, p)
        BY <1>1, <2>1, WriteUpdateType
    <2>2. CASE UNCHANGED core_sock
        BY <2>2 DEF TypeInv, TypeOK
    <2> QED
        BY <1>1, <2>1, <2>2, PercentValues
           DEF JobStep, JobPopenFails, JobWriteFailure, JobPopen, JobLine,
               JobEof, JobPopen2Fails, JobPopen2, JobDone, JobReport
<1>3. job'[j] \in Job /\ job'[j].app = job[j].app
    <2>1. CASE JobLine(j)
        <3>1. /\ Advance(job[j].progress) \in Percent
              /\ job[j].lines + 1 \in 0 .. MaxLines
            BY <1>1, <2>1, AdvanceType, CoreAssumption DEF JobLine, Job
        <3> QED
            BY <1>1, <2>1, <3>1 DEF JobLine, Job
    <2>2. CASE JobPopenFails(j)
        BY <1>1, <2>2 DEF JobPopenFails, Job, JobPcs, Reports
    <2>3. CASE JobWriteFailure(j)
        BY <1>1, <2>3, PercentValues DEF JobWriteFailure, Job, JobPcs
    <2>4. CASE JobPopen(j)
        BY <1>1, <2>4, PercentValues DEF JobPopen, Job, JobPcs
    <2>5. CASE JobEof(j)
        BY <1>1, <2>5 DEF JobEof, Job, JobPcs
    <2>6. CASE JobPopen2Fails(j)
        BY <1>1, <2>6 DEF JobPopen2Fails, Job, JobPcs, Reports
    <2>7. CASE JobPopen2(j)
        BY <1>1, <2>7 DEF JobPopen2, Job, JobPcs
    <2>8. CASE JobDone(j)
        BY <1>1, <2>8, PercentValues DEF JobDone, Job, JobPcs
    <2>9. CASE JobReport(j)
        BY <1>1, <2>9 DEF JobReport, Job, JobPcs, Reports
    <2> QED
        BY <2>1, <2>2, <2>3, <2>4, <2>5, <2>6, <2>7, <2>8, <2>9 DEF JobStep
<1>4. /\ job' = [job EXCEPT ![j] = job'[j]]
      /\ UNCHANGED <<up, tableVars, httpVars, coreVars>>
    BY DEF TypeInv, TypeOK, JobStep, JobMoves, JobPopenFails,
           JobWriteFailure, JobPopen, JobLine, JobEof, JobPopen2Fails,
           JobPopen2, JobDone, JobReport
<1> QED
    BY <1>1, <1>2, <1>3, <1>4
       DEF TypeInv, TypeOK, tableVars, httpVars, coreVars

(* Every variable of BsCore keeps its type: in particular the sockets      *)
(* never hold more than they can buffer, and every request in them names   *)
(* a known command and a percentage.                                       *)
THEOREM TypeCorrect == Spec => []TypeInv
<1>1. Init => TypeInv
    BY InitType
<1>2. TypeInv /\ [Next]_vars => TypeInv'
    <2>1. ASSUME TypeInv, Next
          PROVE  TypeInv'
        BY <2>1, HttpStepType, CoreStepType, EthReadType, JobStepType DEF Next
    <2>2. ASSUME TypeInv, UNCHANGED vars
          PROVE  TypeInv'
        BY <2>2 DEF TypeInv, TypeOK, vars
    <2> QED
        BY <2>1, <2>2
<1> QED
    BY <1>1, <1>2, PTL DEF Spec

(* The type invariant the runs check.                                      *)
THEOREM TypeSafe == Spec => []TypeOK
<1>1. TypeInv => TypeOK
    BY DEF TypeInv
<1> QED
    BY <1>1, TypeCorrect, PTL

(***************************************************************************)
(* The package path.  An announced application stays announced and an      *)
(* installed one stays installed, so what a request claims is still true   *)
(* when it has travelled through the socket: Good(r) may be carried along  *)
(* with r.                                                                 *)
(***************************************************************************)
Announced(s) == stat[s] \in {"loading", "succ"}

Installed(s) ==
    \E j \in JobIds : /\ job[j].app = s
                      /\ job[j].pc \in {"report", "end"}
                      /\ job[j].sent = 100

Good(r) ==
    /\ r.cmd = "PKG_READY" =>
            Local(FindApp(r.dev_id)) /\ Announced(FindApp(r.dev_id))
    /\ r.cmd = "TDR_STAT_UPDATE" /\ r.progress_percent = 100 =>
            Installed(FindApp(r.dev_id))

GoodNext(r) ==
    /\ r.cmd = "PKG_READY" =>
            /\ Local(FindApp(r.dev_id))
            /\ stat'[FindApp(r.dev_id)] \in {"loading", "succ"}
    /\ r.cmd = "TDR_STAT_UPDATE" /\ r.progress_percent = 100 =>
            \E j \in JobIds : /\ job'[j].app = FindApp(r.dev_id)
                              /\ job'[j].pc \in {"report", "end"}
                              /\ job'[j].sent = 100

LoadingInv ==
    loading_app # NoApp =>
        /\ Local(loading_app)
        /\ Announced(loading_app)
        /\ FindApp(DevId[loading_app]) = loading_app

StatInv == \A s \in Slots : Local(s) => stat[s] \in {"idle", "loading", "succ"}

JobInv ==
    \A j \in JobIds : job[j].pc # "none" =>
        /\ FindApp(DevId[job[j].app]) = job[j].app
        /\ job[j].progress # 100

ProgressInv == \A s \in Slots : progress[s] = 100 => Installed(s)

RequestInv ==
    /\ http_req.cmd # "TDR_STAT_UPDATE"
    /\ Good(http_req)
    /\ Good(core_req)
    /\ \A i \in 1 .. Len(core_sock) : Good(core_sock[i])

PathInv ==
    /\ TypeInv
    /\ LoadingInv
    /\ StatInv
    /\ JobInv
    /\ ProgressInv
    /\ RequestInv

LEMMA InitPath == Init => PathInv
<1> SUFFICES ASSUME Init
             PROVE  PathInv
    OBVIOUS
<1>1. LoadingInv
    BY DEF Init, LoadingInv
<1>2. StatInv
    BY TableAssumption DEF Init, StatInv, Local, TypeOf
<1>3. JobInv
    BY NoJobType DEF Init, JobInv
<1>4. ProgressInv
    BY DEF Init, ProgressInv
<1>5. RequestInv
    BY NoReqType, EmptySeq DEF Init, RequestInv, Good
<1> QED
    BY <1>1, <1>2, <1>3, <1>4, <1>5, InitType DEF PathInv

(* Which steps touch stat, and how.                                        *)
LEMMA StatStep ==
    ASSUME TypeInv, Next
    PROVE  \/ UNCHANGED stat
           \/ \E s \in Slots : /\ CorePkgNew
                               /\ s = FindApp(core_req.dev_id) /\ Local(s)
                               /\ stat' = [stat EXCEPT ![s] = "loading"]
           \/ \E s \in Slots : /\ core_req.cmd = "PKG_READY"
                               /\ s = FindApp(core_req.dev_id)
                               /\ stat' = [stat EXCEPT ![s] = "succ"]
<1>1. CASE HttpStep
    BY <1>1 DEF HttpStep, PkgNew, TdrRun, HttpWrite, UploadBegin, PartBegin,
                PartData, UploadNextPart, UploadFinalize, UploadAbort,
                HandlePartEnd, tableVars
<1>2. CASE CorePkgNew
    BY <1>2, LocalApp DEF CorePkgNew
<1>3. CASE CorePkgReady
    BY <1>3, FindAppProperties DEF CorePkgReady, CoreHandles
<1>4. CASE CoreRead \/ CoreTdrRun \/ CoreTdrStatUpdate \/ EthRead
    BY <1>4 DEF CoreRead, CoreTdrRun, CoreTdrStatUpdate, EthRead, tableVars
<1>5. CASE \E j \in JobIds : JobStep(j)
    BY <1>5 DEF JobStep, JobMoves, JobPopenFails, JobWriteFailure, JobPopen,
                JobLine, JobEof, JobPopen2Fails, JobPopen2, JobDone,
                JobReport, tableVars
<1> QED
    BY <1>1, <1>2, <1>3, <1>4, <1>5 DEF Next, CoreStep

LEMMA AnnouncedStays ==
    ASSUME TypeInv, Next, NEW s \in Slots, Announced(s)
    PROVE  stat'[s] \in {"loading", "succ"}
BY StatStep DEF Announced, TypeInv, TypeOK

(* Which steps touch job, and how.                                         *)
LEMMA JobsStep ==
    ASSUME TypeInv, Next
    PROVE  \/ UNCHANGED job
           \/ \E k \in JobIds : JobStep(k)
           \/ \E k \in JobIds, s \in Slots :
                /\ job[k].pc = "none"
                /\ job' = [job EXCEPT ![k] = JobRecord(s, "popen")]
                /\ s = FindApp(core_req.dev_id)
<1>1. CASE HttpStep
    BY <1>1 DEF HttpStep, PkgNew, TdrRun, HttpWrite, UploadBegin, PartBegin,
                PartData, UploadNextPart, UploadFinalize, UploadAbort,
                HandlePartEnd
<1>2. CASE CorePkgReady \/ CoreTdrRun
    BY <1>2, LocalApp DEF CorePkgReady, CoreTdrRun, StartTdr
<1>3. CASE CoreRead \/ CorePkgNew \/ CoreTdrStatUpdate \/ EthRead
    BY <1>3 DEF CoreRead, CorePkgNew, CoreTdrStatUpdate, EthRead
<1> QED
    BY <1>1, <1>2, <1>3 DEF Next, CoreStep

(* What a job's own step does to its record.                               *)
LEMMA JobKeeps ==
    ASSUME TypeInv, NEW k \in JobIds, JobStep(k)
    PROVE  /\ job[k].pc # "none"
           /\ job' = [job EXCEPT ![k] = job'[k]]
           /\ job'[k].app = job[k].app
           /\ job'[k].pc # "none"
           /\ \/ job'[k].progress = job[k].progress
              \/ job'[k].progress = 0
              \/ job'[k].progress = Advance(job[k].progress)
           /\ job[k].pc \in {"report", "end"} =>
                job'[k].pc = "end" /\ job'[k].sent = job[k].sent
<1>1. job \in [JobIds -> Job] /\ job[k] \in Job
    BY DEF TypeInv, TypeOK
<1> QED
    BY <1>1 DEF Job, JobStep, JobMoves, JobPopenFails, JobWriteFailure,
                JobPopen, JobLine, JobEof, JobPopen2Fails, JobPopen2,
                JobDone, JobReport

LEMMA InstalledStays ==
    ASSUME TypeInv, Next, NEW s, Installed(s)
    PROVE  \E j \in JobIds : /\ job'[j].app = s
                             /\ job'[j].pc \in {"report", "end"}
                             /\ job'[j].sent = 100
<1>1. PICK j \in JobIds : /\ job[j].app = s
                          /\ job[j].pc \in {"report", "end"}
                          /\ job[j].sent = 100
    BY DEF Installed
<1>2. job \in [JobIds -> Job]
    BY DEF TypeInv, TypeOK
<1>3. CASE UNCHANGED job
    BY <1>1, <1>3
<1>4. ASSUME NEW k \in JobIds, JobStep(k)
      PROVE  /\ job'[j].app = s
             /\ job'[j].pc \in {"report", "end"}
             /\ job'[j].sent = 100
    BY <1>1, <1>2, <1>4, JobKeeps
<1>5. ASSUME NEW k \in JobIds, NEW t \in Slots, job[k].pc = "none",
             job' = [job EXCEPT ![k] = JobRecord(t, "popen")]
      PROVE  job'[j] = job[j]
    BY <1>1, <1>2, <1>5
<1> QED
    BY <1>1, <1>3, <1>4, <1>5, JobsStep

LEMMA GoodStays ==
    ASSUME TypeInv, Next, NEW r, Good(r)
    PROVE  GoodNext(r)
BY AnnouncedStays, InstalledStays, LocalApp DEF Good, GoodNext

LEMMA LoadingStays ==
    ASSUME PathInv, Next
    PROVE  LoadingInv'
<1>1. CASE UNCHANGED loading_app
    <2>1. SUFFICES ASSUME loading_app # NoApp
                   PROVE  stat'[loading_app] \in {"loading", "succ"}
        BY <1>1, <2>1 DEF PathInv, LoadingInv, Announced
    <2> QED
        BY <2>1, AnnouncedStays DEF PathInv, LoadingInv, TypeInv, TypeOK
<1>2. CASE CorePkgNew /\ loading_app' # loading_app
    <2> DEFINE s == FindApp(core_req.dev_id)
    <2>1. /\ Local(s)
          /\ stat' = [stat EXCEPT ![s] = "loading"]
          /\ loading_app' = s
        BY <1>2 DEF CorePkgNew
    <2>2. s \in Slots /\ FindApp(DevId[s]) = s
        BY <2>1, LocalApp, FindAppProperties, TableAssumption
    <2>3. stat'[s] = "loading"
        BY <2>1, <2>2 DEF PathInv, TypeInv, TypeOK
    <2> QED
        BY <2>1, <2>2, <2>3 DEF LoadingInv, Announced
<1>3. UNCHANGED loading_app \/ CorePkgNew
    BY DEF Next, HttpStep, PkgNew, TdrRun, HttpWrite, UploadBegin, PartBegin,
           PartData, UploadNextPart, UploadFinalize, UploadAbort,
           HandlePartEnd, CoreStep, CoreRead, CoreTdrRun, CorePkgReady,
           CoreTdrStatUpdate, EthRead, JobStep, JobMoves, JobPopenFails,
           JobWriteFailure, JobPopen, JobLine, JobEof, JobPopen2Fails,
           JobPopen2, JobDone, JobReport, tableVars
<1> QED
    BY <1>1, <1>2, <1>3

LEMMA StatInvStays ==
    ASSUME PathInv, Next
    PROVE  StatInv'
BY StatStep DEF PathInv, StatInv, TypeInv, TypeOK

LEMMA JobInvStays ==
    ASSUME PathInv, Next
    PROVE  JobInv'
<1>1. job \in [JobIds -> Job]
    BY DEF PathInv, TypeInv, TypeOK
<1>2. CASE UNCHANGED job
    BY <1>2 DEF PathInv, JobInv
<1>3. ASSUME NEW k \in JobIds, JobStep(k)
      PROVE  JobInv'
    <2>1. job[k].progress \in Percent
        BY <1>1 DEF Job
    <2>2. job'[k].progress # 100
        BY <1>3, <2>1, JobKeeps, AdvanceType DEF PathInv, JobInv
    <2>3. FindApp(DevId[job'[k].app]) = job'[k].app
        BY <1>3, JobKeeps DEF PathInv, JobInv
    <2>4. \A j \in JobIds \ {k} : job'[j] = job[j]
        BY <1>1, <1>3, JobKeeps DEF PathInv
    <2> QED
        BY <2>2, <2>3, <2>4 DEF PathInv, JobInv
<1>4. ASSUME NEW k \in JobIds, NEW s \in Slots,
             job' = [job EXCEPT ![k] = JobRecord(s, "popen")],
             s = FindApp(core_req.dev_id)
      PROVE  JobInv'
    <2>1. FindApp(DevId[s]) = s
        BY <1>4, FindAppProperties, TableAssumption
    <2>2. JobRecord(s, "popen").app = s /\ JobRecord(s, "popen").progress = 0
        BY DEF JobRecord
    <2> QED
        BY <1>1, <1>4, <2>1, <2>2 DEF PathInv, JobInv
<1> QED
    BY <1>2, <1>3, <1>4, JobsStep DEF PathInv

LEMMA ProgressInvStays ==
    ASSUME PathInv, Next
    PROVE  ProgressInv'
<1>1. CASE UNCHANGED progress
    BY <1>1, InstalledStays DEF PathInv, ProgressInv, Installed
<1>2. CASE CoreTdrStatUpdate
    <2> DEFINE s == FindApp(core_req.dev_id)
    <2>1. \/ UNCHANGED progress
          \/ /\ s \in Slots
             /\ progress' = [progress EXCEPT ![s] = core_req.progress_percent]
        BY <1>2, LocalApp DEF CoreTdrStatUpdate
    <2>2. core_req.progress_percent = 100 => Installed(s)
        BY <1>2 DEF CoreTdrStatUpdate, CoreHandles, PathInv, RequestInv, Good
    <2>3. \A t \in Slots : progress'[t] = 100 => Installed(t)
        BY <2>1, <2>2 DEF PathInv, ProgressInv, TypeInv, TypeOK
    <2> QED
        BY <2>3, InstalledStays DEF PathInv, ProgressInv, Installed
<1>3. UNCHANGED progress \/ CoreTdrStatUpdate
    BY DEF Next, HttpStep, PkgNew, TdrRun, HttpWrite, UploadBegin, PartBegin,
           PartData, UploadNextPart, UploadFinalize, UploadAbort,
           HandlePartEnd, CoreStep, CoreRead, CorePkgNew, CoreTdrRun,
           CorePkgReady, EthRead, JobStep, JobMoves, JobPopenFails,
           JobWriteFailure, JobPopen, JobLine, JobEof, JobPopen2Fails,
           JobPopen2, JobDone, JobReport, tableVars
<1> QED
    BY <1>1, <1>2, <1>3

(* The request the HTTP thread prepares: none, one whose content claims    *)
(* nothing, or a PKG_READY for the application being loaded.               *)
LEMMA HttpReqStep ==
    ASSUME TypeInv, Next
    PROVE  \/ UNCHANGED http_req
           \/ http_req' = NoReq
           \/ \E id \in DevIds : \/ http_req' = Request("PKG_NEW", id, 0)
                                 \/ http_req' = Request("TDR_RUN", id, 0)
           \/ /\ loading_app # NoApp
              /\ http_req' = Request("PKG_READY", DevId[loading_app], 0)
<1>1. CASE HttpStep
    BY <1>1 DEF HttpStep, PkgNew, TdrRun, HttpWrite, UploadBegin, PartBegin,
                PartData, UploadNextPart, UploadFinalize, UploadAbort,
                HandlePartEnd
<1>2. CASE CoreStep \/ EthRead \/ \E j \in JobIds : JobStep(j)
    BY <1>2 DEF CoreStep, CoreRead, CorePkgNew, CoreTdrRun, CorePkgReady,
                CoreTdrStatUpdate, EthRead, JobStep, JobMoves, JobPopenFails,
                JobWriteFailure, JobPopen, JobLine, JobEof, JobPopen2Fails,
                JobPopen2, JobDone, JobReport, httpVars
<1> QED
    BY <1>1, <1>2 DEF Next

(* What happens to the socket: read by the core thread, written by the     *)
(* HTTP thread, or written by a job, which says 100 only on finishing.     *)
LEMMA SockStep ==
    ASSUME PathInv, Next
    PROVE  \/ UNCHANGED core_sock
           \/ core_sock # <<>> /\ core_sock' = Tail(core_sock)
           \/ core_sock' = Append(core_sock, http_req)
           \/ \E r \in CoreRequest :
                core_sock' = Append(core_sock, r) /\ GoodNext(r)
<1>1. CASE HttpStep
    BY <1>1 DEF HttpStep, PkgNew, TdrRun, HttpWrite, UploadBegin, PartBegin,
                PartData, UploadNextPart, UploadFinalize, UploadAbort,
                HandlePartEnd
<1>2. CASE CoreStep \/ EthRead
    BY <1>2 DEF CoreStep, CoreRead, CorePkgNew, CoreTdrRun, CorePkgReady,
                CoreTdrStatUpdate, EthRead
<1>3. ASSUME NEW k \in JobIds, JobStep(k)
      PROVE  \/ UNCHANGED core_sock
             \/ \E r \in CoreRequest :
                  core_sock' = Append(core_sock, r) /\ GoodNext(r)
    <2> DEFINE R(p) == Request("TDR_STAT_UPDATE", DevId[job[k].app], p)
    <2>1. /\ job \in [JobIds -> Job] /\ job[k] \in Job
          /\ job[k].pc # "none"
        BY <1>3, JobKeeps DEF PathInv, TypeInv, TypeOK
    <2>2. /\ DevId[job[k].app] \in DevIds
          /\ FindApp(DevId[job[k].app]) = job[k].app
        BY <2>1, TableAssumption DEF PathInv, TypeInv, JobInv
    <2>3. \A p \in Percent : /\ R(p) \in CoreRequest
                             /\ R(p).cmd = "TDR_STAT_UPDATE"
                             /\ R(p).dev_id = DevId[job[k].app]
                             /\ R(p).progress_percent = p
        BY <2>2, RequestType DEF Cmds
    <2>4. ASSUME NEW p \in Percent, p # 100, WriteUpdate(k, p)
          PROVE  \E r \in CoreRequest :
                    core_sock' = Append(core_sock, r) /\ GoodNext(r)
        <3>1. GoodNext(R(p))
            BY <2>3, <2>4 DEF GoodNext
        <3>2. core_sock' = Append(core_sock, R(p))
            BY <2>4 DEF WriteUpdate
        <3> QED
            BY <2>3, <3>1, <3>2
    <2>5. CASE JobDone(k)
        <3>1. /\ job'[k].app = job[k].app
              /\ job'[k].pc = "report"
              /\ job'[k].sent = 100
            BY <2>1, <2>5 DEF JobDone, Job
        <3>2. GoodNext(R(100))
            BY <2>2, <2>3, <3>1, PercentValues DEF GoodNext
        <3>3. core_sock' = Append(core_sock, R(100))
            BY <2>5 DEF JobDone, WriteUpdate
        <3> QED
            BY <2>3, <3>2, <3>3, PercentValues
    <2>6. CASE JobLine(k)
        BY <2>1, <2>4, <2>6 DEF JobLine, PathInv, JobInv, Job
    <2>7. CASE JobWriteFailure(k)
        BY <2>4, <2>7, PercentValues DEF JobWriteFailure
    <2> QED
        BY <1>3, <2>5, <2>6, <2>7
           DEF JobStep, JobPopenFails, JobPopen, JobEof, JobPopen2Fails,
               JobPopen2, JobReport
<1> QED
    BY <1>1, <1>2, <1>3 DEF Next

LEMMA CoreReqStep ==
    ASSUME Next
    PROVE  \/ UNCHANGED core_req
           \/ core_req' = NoReq
           \/ core_sock # <<>> /\ core_req' = Head(core_sock)
BY DEF Next, HttpStep, PkgNew, TdrRun, HttpWrite, UploadBegin, PartBegin,
       PartData, UploadNextPart, UploadFinalize, UploadAbort,
       HandlePartEnd, CoreStep, CoreRead, CoreHandles, CorePkgNew, CoreTdrRun,
       CorePkgReady, CoreTdrStatUpdate, EthRead, JobStep, JobMoves,
       JobPopenFails, JobWriteFailure, JobPopen, JobLine, JobEof,
       JobPopen2Fails, JobPopen2, JobDone, JobReport, coreVars

LEMMA RequestInvStays ==
    ASSUME PathInv, Next
    PROVE  RequestInv'
<1> USE DEF PathInv
<1>1. TypeInv /\ core_sock \in Seq(CoreRequest)
    BY DEF TypeInv, TypeOK
<1>2. GoodNext(NoReq)
    BY NoReqType DEF GoodNext
<1>3. GoodNext(http_req') /\ http_req'.cmd # "TDR_STAT_UPDATE"
    <2>1. CASE UNCHANGED http_req
        BY <1>1, <2>1, GoodStays DEF RequestInv
    <2>2. CASE http_req' = NoReq
        BY <1>2, <2>2, NoReqType
    <2>3. ASSUME NEW id \in DevIds,
                 \/ http_req' = Request("PKG_NEW", id, 0)
                 \/ http_req' = Request("TDR_RUN", id, 0)
          PROVE  GoodNext(http_req') /\ http_req'.cmd # "TDR_STAT_UPDATE"
        BY <2>3, RequestType, PercentValues DEF GoodNext, Cmds
    <2>4. CASE /\ loading_app # NoApp
               /\ http_req' = Request("PKG_READY", DevId[loading_app], 0)
        <3>1. loading_app \in Slots /\ DevId[loading_app] \in DevIds
            BY <2>4, TableAssumption DEF TypeInv, TypeOK
        <3>2. /\ http_req'.cmd = "PKG_READY"
              /\ http_req'.dev_id = DevId[loading_app]
            BY <2>4, <3>1, RequestType, PercentValues DEF Cmds
        <3>3. stat'[loading_app] \in {"loading", "succ"}
            BY <1>1, <2>4, <3>1, AnnouncedStays DEF LoadingInv
        <3> QED
            BY <2>4, <3>2, <3>3 DEF GoodNext, LoadingInv
    <2> QED
        BY <1>1, <2>1, <2>2, <2>3, <2>4, HttpReqStep
<1>4. GoodNext(core_req')
    <2>1. CASE core_sock # <<>> /\ core_req' = Head(core_sock)
        <3>1. Good(Head(core_sock))
            BY <1>1, <2>1, ReadSock DEF RequestInv
        <3> QED
            BY <1>1, <2>1, <3>1, GoodStays
    <2> QED
        BY <1>1, <1>2, <2>1, CoreReqStep, GoodStays DEF RequestInv
<1>5. ASSUME NEW i \in 1 .. Len(core_sock')
      PROVE  GoodNext(core_sock'[i])
    <2>1. \A k \in 1 .. Len(core_sock) : GoodNext(core_sock[k])
        BY <1>1, GoodStays DEF RequestInv
    <2>2. CASE UNCHANGED core_sock
        BY <1>5, <2>1, <2>2
    <2>3. CASE core_sock # <<>> /\ core_sock' = Tail(core_sock)
        BY <1>1, <1>5, <2>1, <2>3, ReadSock
    <2>4. ASSUME NEW r \in CoreRequest, GoodNext(r),
                 core_sock' = Append(core_sock, r)
          PROVE  GoodNext(core_sock'[i])
        <3>1. /\ Len(core_sock') = Len(core_sock) + 1
              /\ core_sock'[Len(core_sock) + 1] = r
              /\ \A k \in 1 .. Len(core_sock) : core_sock'[k] = core_sock[k]
            BY <1>1, <2>4, WriteSock
        <3>2. i = Len(core_sock) + 1 \/ i \in 1 .. Len(core_sock)
            BY <1>1, <1>5, <3>1, LenProperties
        <3> QED
            BY <2>1, <2>4, <3>1, <3>2
    <2>5. GoodNext(http_req) /\ http_req \in CoreRequest
        BY <1>1, GoodStays DEF RequestInv, TypeInv, TypeOK
    <2> QED
        BY <2>2, <2>3, <2>4, <2>5, SockStep
<1> QED
    BY <1>3, <1>4, <1>5 DEF RequestInv, Good, GoodNext, Announced, Installed

LEMMA PathStep ==
    ASSUME PathInv, Next
    PROVE  PathInv'
<1>1. TypeInv'
    BY HttpStepType, CoreStepType, EthReadType, JobStepType DEF Next, PathInv
<1> QED
    BY <1>1, LoadingStays, StatInvStays, JobInvStays, ProgressInvStays,
       RequestInvStays DEF PathInv

LEMMA PathInductive == Spec => []PathInv
<1>1. Init => PathInv
    BY InitPath
<1>2. PathInv /\ [Next]_vars => PathInv'
    <2>1. ASSUME PathInv, Next
          PROVE  PathInv'
        BY <2>1, PathStep
    <2>2. ASSUME PathInv, UNCHANGED vars
          PROVE  PathInv'
        BY <2>2 DEF PathInv, TypeInv, TypeOK, LoadingInv, StatInv, JobInv,
                    ProgressInv, RequestInv, Good, Announced, Installed, vars
    <2> QED
        BY <2>1, <2>2
<1> QED
    BY <1>1, <1>2, PTL DEF Spec

LEMMA PathImplies == PathInv => ReadyWasAnnounced /\ DoneMeansInstalled
<1>1. PathInv => ReadyWasAnnounced
    BY DEF PathInv, RequestInv, Good, Announced, ReadyWasAnnounced, ReadyFor
<1>2. PathInv => DoneMeansInstalled
    BY DEF PathInv, ProgressInv, RequestInv, Good, Installed,
           DoneMeansInstalled, SaysDone, JobsOf
<1> QED
    BY <1>1, <1>2

(* Every PKG_READY names an announced, locally installed application.      *)
THEOREM ReadySafe == Spec => []ReadyWasAnnounced
BY PathImplies, PathInductive, PTL

(* A record, or a report under way, says 100 only after a job of that      *)
(* application has gone through both scripts.                              *)
THEOREM DoneSafe == Spec => []DoneMeansInstalled
BY PathImplies, PathInductive, PTL

LEMMA StatMovesOn ==
    ASSUME PathInv, Next, NEW s \in Slots, stat'[s] # stat[s]
    PROVE  /\ Local(s)
           /\ <<stat[s], stat'[s]>> \in
                {<<"idle", "loading">>, <<"loading", "succ">>,
                 <<"succ", "loading">>}
<1>1. stat \in [Slots -> Stats]
    BY DEF PathInv, TypeInv, TypeOK
<1>2. CASE /\ Local(s)
           /\ stat' = [stat EXCEPT ![s] = "loading"]
    BY <1>1, <1>2 DEF PathInv, StatInv
<1>3. CASE /\ core_req.cmd = "PKG_READY"
           /\ s = FindApp(core_req.dev_id)
           /\ stat' = [stat EXCEPT ![s] = "succ"]
    BY <1>1, <1>3 DEF PathInv, RequestInv, Good, Announced
<1> QED
    BY <1>1, <1>2, <1>3, StatStep DEF PathInv

(* The stat of a package only moves along idle, loading, succ, loading.    *)
THEOREM StatSafe == Spec => StatMoves
<1>1. PathInv /\ [Next]_vars =>
        [\A s \in Slots : stat'[s] # stat[s] =>
            /\ Local(s)
            /\ <<stat[s], stat'[s]>> \in
                 {<<"idle", "loading">>, <<"loading", "succ">>,
                  <<"succ", "loading">>}]_vars
    BY StatMovesOn DEF vars
<1> QED
    BY <1>1, PathInductive, PTL DEF Spec, StatMoves
=============================================================================
