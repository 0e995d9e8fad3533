----------------------------- MODULE CgwProofs -----------------------------
(* Proofs about the composition of the core thread and the installer       *)
(* threads, for every table, every number of jobs and installers and every *)
(* value of the bounds.                                                    *)
EXTENDS Cgw, BsProgressProofs, FiniteSetTheorems, FunctionTheorems

(***************************************************************************)
(* How many elements of a set are in a socket, when one is written to it   *)
(* or read from it.                                                        *)
(***************************************************************************)
Places(q, S) == {i \in 1 .. Len(q) : q[i] \in S}

HowMany(q, S) == Cardinality(Places(q, S))

LEMMA PlacesFinite ==
    ASSUME NEW T, NEW q \in Seq(T), NEW S
    PROVE  IsFiniteSet(Places(q, S)) /\ HowMany(q, S) \in Nat
<1>1. Len(q) \in Nat
    BY LenProperties
<1>2. IsFiniteSet(1 .. Len(q))
    BY <1>1, FS_Interval
<1>3. Places(q, S) \subseteq 1 .. Len(q)
    BY DEF Places
<1>4. IsFiniteSet(Places(q, S))
    BY <1>2, <1>3, FS_Subset
<1> QED
    BY <1>4, FS_CardinalityType DEF HowMany

LEMMA HowManyEmpty == \A S : HowMany(<<>>, S) = 0
<1> TAKE S
<1>1. Places(<<>>, S) = {}
    BY EmptySeq DEF Places
<1> QED
    BY <1>1, FS_EmptySet DEF HowMany

LEMMA HowManyAppend ==
    ASSUME NEW T, NEW q \in Seq(T), NEW r \in T, NEW S
    PROVE  HowMany(Append(q, r), S)
             = HowMany(q, S) + (IF r \in S THEN 1 ELSE 0)
<1>1. /\ Len(q) \in Nat
      /\ Append(q, r) \in Seq(T)
      /\ Len(Append(q, r)) = Len(q) + 1
      /\ Append(q, r)[Len(q) + 1] = r
      /\ \A i \in 1 .. Len(q) : Append(q, r)[i] = q[i]
    BY WriteSock, LenProperties
<1>2. IsFiniteSet(Places(q, S)) /\ HowMany(q, S) \in Nat
    BY PlacesFinite
<1>3. CASE r \in S
    <2>1. Places(Append(q, r), S) = Places(q, S) \cup {Len(q) + 1}
        BY <1>1, <1>3 DEF Places
    <2>2. Len(q) + 1 \notin Places(q, S)
        BY <1>1 DEF Places
    <2> QED
        BY <1>2, <1>3, <2>1, <2>2, FS_AddElement DEF HowMany
<1>4. CASE r \notin S
    <2>1. Places(Append(q, r), S) = Places(q, S)
        BY <1>1, <1>4 DEF Places
    <2> QED
        BY <1>2, <1>4, <2>1 DEF HowMany
<1> QED
    BY <1>3, <1>4

LEMMA HowManyTail ==
    ASSUME NEW T, NEW q \in Seq(T), q # <<>>, NEW S
    PROVE  HowMany(q, S)
             = HowMany(Tail(q), S) + (IF Head(q) \in S THEN 1 ELSE 0)
<1> DEFINE A == Places(Tail(q), S)
           B == Places(q, S) \ {1}
           f == [i \in A |-> i + 1]
<1>1. /\ Head(q) = q[1]
      /\ Tail(q) \in Seq(T)
      /\ Len(q) \in Nat \ {0}
      /\ Len(Tail(q)) = Len(q) - 1
      /\ \A i \in 1 .. Len(Tail(q)) : Tail(q)[i] = q[i + 1]
    BY ReadSock
<1>2. /\ IsFiniteSet(Places(q, S)) /\ HowMany(q, S) \in Nat
      /\ IsFiniteSet(A) /\ HowMany(Tail(q), S) \in Nat
    BY <1>1, PlacesFinite
<1>3. ExistsBijection(A, B)
    <2>1. \A i \in A : i \in Int /\ i + 1 \in B
        BY <1>1 DEF Places
    <2>2. \A k \in B : k - 1 \in A /\ k - 1 + 1 = k
        <3> SUFFICES ASSUME NEW k \in B
                     PROVE  k - 1 \in A /\ k - 1 + 1 = k
            OBVIOUS
        <3>1. k \in 1 .. Len(q) /\ q[k] \in S /\ k # 1
            BY DEF Places
        <3>2. k - 1 \in 1 .. Len(Tail(q)) /\ k - 1 + 1 = k
            BY <1>1, <3>1
        <3>3. Tail(q)[k - 1] = q[k]
            BY <1>1, <3>2
        <3> QED
            BY <3>1, <3>2, <3>3 DEF Places
    <2> HIDE DEF A, B
    <2>3. f \in [A -> B]
        BY <2>1
    <2>4. \A x, y \in A : f[x] = f[y] => x = y
        BY <2>1
    <2>5. \A k \in B : \E x \in A : f[x] = k
        BY <2>2
    <2> HIDE DEF f
    <2>6. f \in Bijection(A, B)
        BY <2>3, <2>4, <2>5, Fun_IsBij
    <2> QED
        BY <2>6 DEF ExistsBijection
<1>4. IsFiniteSet(B) /\ Cardinality(B) = HowMany(Tail(q), S)
    BY <1>2, <1>3, FS_Bijection DEF HowMany
<1>5. Cardinality(B) = IF 1 \in Places(q, S) THEN HowMany(q, S) - 1
                       ELSE HowMany(q, S)
    BY <1>2, FS_RemoveElement DEF HowMany
<1>6. 1 \in Places(q, S) <=> Head(q) \in S
    BY <1>1 DEF Places
<1> QED
    BY <1>2, <1>4, <1>5, <1>6

(***************************************************************************)
(* What the steps of the installer threads and of the installers do to     *)
(* what they share with the rest: the process may die, and only composing  *)
(* a request for versions counts in nvers.                                 *)
(***************************************************************************)
LEMMA SendKeepsUp ==
    ASSUME up \in BOOLEAN, NEW f, Eth!SendRemote(f)
    PROVE  up' \in BOOLEAN
BY DEF Eth!SendRemote

LEMMA EthStepFrame ==
    ASSUME up \in BOOLEAN,
           \/ Eth!JobSend \/ Eth!HandleTestVers \/ Eth!MsgThread
           \/ \E c \in Installers : Eth!Peer(c)
    PROVE  up' \in BOOLEAN /\ nvers' = nvers
<1>1. CASE Eth!JobSend
    BY <1>1, SendKeepsUp DEF Eth!JobSend, Eth!boundVars, Eth!testVars
<1>2. CASE Eth!HandleTestVers
    BY <1>2, SendKeepsUp DEF Eth!HandleTestVers, Eth!TestVers,
       Eth!TestVersClose, Eth!AskVersions
<1>3. CASE Eth!MsgSend
    BY <1>3, SendKeepsUp DEF Eth!MsgSend, Eth!boundVars, Eth!testVars
<1>4. ASSUME NEW c \in Installers,
             Eth!Accept(c) \/ Eth!Close(c) \/ Eth!RecvPart(c)
      PROVE  up' \in BOOLEAN /\ nvers' = nvers
    BY <1>4 DEF Eth!Accept, Eth!Close, Eth!RecvPart, Eth!boundVars,
       Eth!testVars
<1>5. ASSUME NEW c \in Installers, NEW n, Eth!Recv(c, n)
      PROVE  up' \in BOOLEAN /\ nvers' = nvers
    <2>1. ASSUME NEW task, Eth!Handle(task)
          PROVE  up' \in BOOLEAN
        BY <2>1 DEF Eth!Handle, Eth!OnTransferResult, Eth!OnVersionsResult,
                    Eth!OnBareVersionsResult, Eth!OnStateResult, Eth!OnFinal,
                    Eth!Reply, Eth!NoReply
    <2> QED
        BY <1>5, <2>1 DEF Eth!Recv, Eth!NoReply, Eth!boundVars, Eth!testVars
<1>6. ASSUME NEW c \in Installers, Eth!Peer(c)
      PROVE  up' \in BOOLEAN /\ nvers' = nvers
    BY <1>6 DEF Eth!Peer, Eth!PeerAnswer, Eth!PeerNote, Eth!boundVars,
       Eth!testVars
<1> QED
    BY <1>1, <1>2, <1>3, <1>4, <1>5, <1>6 DEF Eth!MsgThread

(***************************************************************************)
(* The steps of the composition are those of BsCore, or leave its part     *)
(* alone except that the process may die: its type invariant holds on.     *)
(***************************************************************************)
LEMMA CgwTypeStays ==
    ASSUME TypeInv, CgwNext
    PROVE  TypeInv'
<1>1. CASE Http
    BY <1>1, HttpStepType DEF Http
<1>2. CASE Core
    BY <1>2, CoreStepType DEF Core
<1>3. CASE EthJob
    BY <1>3, EthReadType DEF EthJob
<1>4. CASE EthOther
    <2>1. /\ UNCHANGED corePart
          /\ \/ Eth!JobSend \/ Eth!HandleTestVers \/ Eth!MsgThread
             \/ \E c \in Installers : Eth!Peer(c)
        BY <1>4 DEF EthOther, Apart
    <2>2. up \in BOOLEAN
        BY DEF TypeInv, TypeOK
    <2>3. up' \in BOOLEAN
        BY <2>1, <2>2, EthStepFrame
    <2> QED
        BY <2>1, <2>3 DEF corePart, TypeInv, TypeOK
<1>5. ASSUME NEW j \in JobIds, TdrJob(j)
      PROVE  TypeInv'
    BY <1>5, JobStepType DEF TdrJob
<1> QED
    BY <1>1, <1>2, <1>3, <1>4, <1>5 DEF CgwNext

(***************************************************************************)
(* The ledger of the requests for versions.                                *)
(***************************************************************************)
EthNews == {r \in CoreRequest : IsEthNew(r)}
VersRequests == {r \in EthRequest : r.cmd = "VERS"}

One(r) == IF r \in EthNews THEN 1 ELSE 0

LEMMA OnTheWayCounts ==
    /\ \A q \in Seq(CoreRequest) :
        Cardinality({i \in 1 .. Len(q) : IsEthNew(q[i])})
            = HowMany(q, EthNews)
    /\ \A q \in Seq(EthRequest) :
        Cardinality({i \in 1 .. Len(q) : q[i].cmd = "VERS"})
            = HowMany(q, VersRequests)
    /\ \A r \in CoreRequest : (IF IsEthNew(r) THEN 1 ELSE 0) = One(r)
<1>1. ASSUME NEW q \in Seq(CoreRequest)
      PROVE  {i \in 1 .. Len(q) : IsEthNew(q[i])} = Places(q, EthNews)
    <2>1. \A i \in 1 .. Len(q) : q[i] \in CoreRequest
        BY ElementOfSeq
    <2> QED
        BY <2>1 DEF Places, EthNews
<1>2. ASSUME NEW q \in Seq(EthRequest)
      PROVE  {i \in 1 .. Len(q) : q[i].cmd = "VERS"} = Places(q, VersRequests)
    <2>1. \A i \in 1 .. Len(q) : q[i] \in EthRequest
        BY ElementOfSeq
    <2> QED
        BY <2>1 DEF Places, VersRequests
<1>3. \A r \in CoreRequest : IsEthNew(r) <=> r \in EthNews
    BY DEF EthNews
<1> QED
    BY <1>1, <1>2, <1>3 DEF HowMany, One

(* The same counts, named, before and after a step.                        *)
Ledger ==
    announced = nvers + (HowMany(core_sock, EthNews)
                         + HowMany(eth_sock, VersRequests)
                         + One(http_req) + One(core_req))

LEMMA LedgerIsRequestsKept == TypeInv => (Ledger <=> RequestsKept)
<1> SUFFICES ASSUME TypeInv
             PROVE  Ledger <=> RequestsKept
    OBVIOUS
<1>1. /\ core_sock \in Seq(CoreRequest) /\ eth_sock \in Seq(EthRequest)
      /\ http_req \in CoreRequest /\ core_req \in CoreRequest
    BY DEF TypeInv, TypeOK
<1>2. OnTheWay = HowMany(core_sock, EthNews) + HowMany(eth_sock, VersRequests)
                 + One(http_req) + One(core_req)
    BY <1>1, OnTheWayCounts DEF OnTheWay
<1> QED
    BY <1>2 DEF Ledger, RequestsKept

LEMMA OneOf ==
    /\ \A r : One(r) \in {0, 1}
    /\ One(NoReq) = 0
    /\ \A r : r.cmd # "PKG_NEW" => One(r) = 0
BY NoReqType DEF One, EthNews, IsEthNew

CgwInv ==
    /\ TypeInv
    /\ announced \in Nat /\ nvers \in Nat
    /\ Ledger

(* What a request of the HTTP thread adds to the ledger.                   *)
LEMMA HttpLedger ==
    ASSUME CgwInv, Http, TypeInv'
    PROVE  CgwInv'
<1>1. /\ core_sock \in Seq(CoreRequest) /\ eth_sock \in Seq(EthRequest)
      /\ http_req \in CoreRequest /\ http_req' \in CoreRequest
      /\ announced \in Nat /\ nvers \in Nat
    BY DEF CgwInv, TypeInv, TypeOK
<1>2. /\ HowMany(core_sock, EthNews) \in Nat
      /\ HowMany(eth_sock, VersRequests) \in Nat
      /\ One(http_req) \in {0, 1} /\ One(core_req) \in {0, 1}
      /\ One(http_req') \in {0, 1}
    BY <1>1, PlacesFinite, OneOf
<1>3. UNCHANGED <<eth_sock, core_req, nvers>>
    BY DEF Http, ethVars, HttpStep, PkgNew, TdrRun, HttpWrite, UploadBegin,
           PartBegin, PartData, UploadNextPart, UploadFinalize, UploadAbort,
           HandlePartEnd, coreVars
<1>4. CASE HttpWrite
    <2>1. /\ core_sock' = Append(core_sock, http_req)
          /\ http_req' = NoReq /\ announced' = announced
        BY <1>4 DEF HttpWrite, Http
    <2>2. HowMany(core_sock', EthNews)
            = HowMany(core_sock, EthNews) + One(http_req)
        BY <1>1, <2>1, HowManyAppend DEF One
    <2>3. One(http_req') = 0
        BY <2>1, OneOf
    <2>4. Ledger'
        BY <1>1, <1>2, <1>3, <2>1, <2>2, <2>3 DEF CgwInv, Ledger
    <2> QED
        BY <1>1, <1>3, <2>1, <2>4 DEF CgwInv
<1>5. CASE ~HttpWrite
    <2>1. http_req = NoReq /\ UNCHANGED core_sock
        BY <1>5 DEF Http, HttpStep, PkgNew, TdrRun, UploadBegin, PartBegin,
                    PartData, UploadNextPart, UploadFinalize, UploadAbort,
                    HandlePartEnd, Serve, Polling
    <2>2. announced' = announced + One(http_req')
        <3>1. IsEthNew(http_req') <=> One(http_req') = 1
            BY <1>1 DEF One, EthNews
        <3> QED
            BY <1>1, <1>2, <2>1, <3>1 DEF Http
    <2>3. One(http_req) = 0
        BY <2>1, OneOf
    <2>4. Ledger'
        BY <1>1, <1>2, <1>3, <2>1, <2>2, <2>3 DEF CgwInv, Ledger
    <2> QED
        BY <1>1, <1>2, <1>3, <2>2, <2>4 DEF CgwInv
<1> QED
    BY <1>4, <1>5

(* The core thread passes a request for versions on to the installer job   *)
(* thread and nothing else as one.                                         *)
LEMMA WriteEthCounts ==
    ASSUME TypeInv, NEW cmd \in {"PKG_NEW", "VERS"}, NEW s \in Slots,
           WriteEth(cmd, s)
    PROVE  HowMany(eth_sock', VersRequests)
             = HowMany(eth_sock, VersRequests)
               + (IF cmd = "VERS" THEN 1 ELSE 0)
<1> DEFINE r == [cmd |-> cmd, app |-> s]
<1>1. r \in EthRequest /\ r.cmd = cmd /\ eth_sock \in Seq(EthRequest)
    BY DEF EthRequest, TypeInv, TypeOK
<1>2. r \in VersRequests <=> cmd = "VERS"
    BY <1>1 DEF VersRequests
<1>3. eth_sock' = Append(eth_sock, r)
    BY DEF WriteEth
<1> HIDE DEF r
<1>4. HowMany(Append(eth_sock, r), VersRequests)
        = HowMany(eth_sock, VersRequests)
          + (IF r \in VersRequests THEN 1 ELSE 0)
    BY <1>1, HowManyAppend
<1> QED
    BY <1>2, <1>3, <1>4

LEMMA CoreLedger ==
    ASSUME CgwInv, Core, TypeInv'
    PROVE  CgwInv'
<1>1. /\ core_sock \in Seq(CoreRequest) /\ eth_sock \in Seq(EthRequest)
      /\ core_req \in CoreRequest /\ core_req' \in CoreRequest
      /\ announced \in Nat /\ nvers \in Nat
      /\ TypeInv
    BY DEF CgwInv, TypeInv, TypeOK
<1>2. /\ HowMany(core_sock, EthNews) \in Nat
      /\ HowMany(eth_sock, VersRequests) \in Nat
      /\ One(http_req) \in {0, 1} /\ One(core_req) \in {0, 1}
    BY <1>1, PlacesFinite, OneOf
<1>3. UNCHANGED <<http_req, nvers, announced>>
    BY DEF Core, ethVars, CoreStep, CoreRead, CorePkgNew, CoreTdrRun,
           CorePkgReady, CoreTdrStatUpdate, httpVars
<1>4. SUFFICES
        HowMany(core_sock', EthNews) + HowMany(eth_sock', VersRequests)
            + One(core_req')
        = HowMany(core_sock, EthNews) + HowMany(eth_sock, VersRequests)
            + One(core_req)
        /\ HowMany(core_sock', EthNews) \in Nat
        /\ HowMany(eth_sock', VersRequests) \in Nat
        /\ One(core_req') \in {0, 1}
    <2> DEFINE a == HowMany(core_sock', EthNews)
               b == HowMany(eth_sock', VersRequests)
               d == One(core_req')
    <2> HIDE DEF a, b, d
    <2> SUFFICES ASSUME a + b + d
                        = HowMany(core_sock, EthNews)
                          + HowMany(eth_sock, VersRequests) + One(core_req),
                        a \in Nat, b \in Nat, d \in {0, 1}
                 PROVE  CgwInv'
        BY Zenon DEF a, b, d
    <2>1. One(http_req') = One(http_req)
        BY <1>3
    <2>2. announced = nvers + (a + b + One(http_req) + d)
        BY <1>1, <1>2, SMTT(30) DEF CgwInv, Ledger
    <2>3. Ledger'
        BY <1>3, <2>1, <2>2 DEF a, b, d, Ledger
    <2> QED
        BY <1>1, <1>3, <2>3 DEF CgwInv
<1>5. /\ core_sock' \in Seq(CoreRequest) /\ eth_sock' \in Seq(EthRequest)
      /\ HowMany(core_sock', EthNews) \in Nat
      /\ HowMany(eth_sock', VersRequests) \in Nat
      /\ One(core_req') \in {0, 1}
    <2>1. core_sock' \in Seq(CoreRequest) /\ eth_sock' \in Seq(EthRequest)
        BY DEF TypeInv, TypeOK
    <2> QED
        BY <2>1, PlacesFinite, OneOf
<1>6. CASE CoreRead
    <2>1. /\ core_sock # <<>> /\ core_sock' = Tail(core_sock)
          /\ core_req = NoReq /\ core_req' = Head(core_sock)
          /\ eth_sock' = eth_sock
        BY <1>6 DEF CoreRead
    <2>2. HowMany(core_sock, EthNews)
            = HowMany(core_sock', EthNews) + One(core_req')
        BY <1>1, <2>1, HowManyTail DEF One
    <2>3. One(core_req) = 0
        BY <2>1, OneOf
    <2> QED
        BY <1>2, <1>5, <2>1, <2>2, <2>3
<1>7. CASE CorePkgNew
    <2> DEFINE s == FindApp(core_req.dev_id)
    <2>1. /\ core_req.cmd = "PKG_NEW" /\ core_req' = NoReq
          /\ UNCHANGED core_sock /\ One(core_req') = 0
        BY <1>7, OneOf DEF CorePkgNew, CoreHandles
    <2>2. One(core_req) = IF TypeOf(s) = "ETH_ECU" THEN 1 ELSE 0
        BY <1>1, <2>1 DEF One, EthNews, IsEthNew
    <2>3. CASE TypeOf(s) = "ETH_ECU" /\ WriteEth("VERS", s)
        <3>1. s \in Slots
            BY <2>3, TypeOfApp
        <3>2. HowMany(eth_sock', VersRequests)
                = HowMany(eth_sock, VersRequests) + 1
            BY <1>1, <2>3, <3>1, WriteEthCounts
        <3> QED
            BY <1>2, <1>5, <2>1, <2>2, <2>3, <3>2
    <2>4. CASE TypeOf(s) # "ETH_ECU" /\ UNCHANGED eth_sock
        BY <1>2, <1>5, <2>1, <2>2, <2>4
    <2> QED
        BY <1>7, <2>3, <2>4 DEF CorePkgNew, Local
<1>8. CASE CorePkgReady \/ CoreTdrRun \/ CoreTdrStatUpdate
    <2>1. /\ core_req.cmd # "PKG_NEW" /\ core_req' = NoReq
          /\ UNCHANGED core_sock
          /\ StartTdr(core_req.dev_id) \/ UNCHANGED eth_sock
        BY <1>8 DEF CorePkgReady, CoreTdrRun, CoreTdrStatUpdate, CoreHandles
    <2>2. One(core_req) = 0 /\ One(core_req') = 0
        BY <2>1, OneOf
    <2>3. HowMany(eth_sock', VersRequests) = HowMany(eth_sock, VersRequests)
        <3> DEFINE s == FindApp(core_req.dev_id)
        <3>1. CASE TypeOf(s) = "ETH_ECU" /\ WriteEth("PKG_NEW", s)
            <4>1. s \in Slots
                BY <3>1, TypeOfApp
            <4>2. HowMany(eth_sock', VersRequests)
                    = HowMany(eth_sock, VersRequests) + 0
                BY <1>1, <3>1, <4>1, WriteEthCounts
            <4> QED
                BY <1>2, <4>2
        <3>2. CASE UNCHANGED eth_sock
            BY <3>2
        <3> QED
            BY <2>1, <3>1, <3>2 DEF StartTdr
    <2> QED
        BY <1>2, <1>5, <2>1, <2>2, <2>3
<1> QED
    BY <1>6, <1>7, <1>8 DEF Core, CoreStep

(* The installer job thread takes a request for versions out of its socket *)
(* and composes it for the installer.                                      *)
LEMMA EthJobLedger ==
    ASSUME CgwInv, EthJob, TypeInv'
    PROVE  CgwInv'
<1>1. /\ core_sock \in Seq(CoreRequest) /\ eth_sock \in Seq(EthRequest)
      /\ announced \in Nat /\ nvers \in Nat
    BY DEF CgwInv, TypeInv, TypeOK
<1>2. /\ eth_sock # <<>> /\ eth_sock' = Tail(eth_sock)
      /\ UNCHANGED <<core_sock, http_req, core_req, announced>>
    BY DEF EthJob, EthRead, httpVars
<1>3. /\ HowMany(core_sock, EthNews) \in Nat
      /\ HowMany(eth_sock, VersRequests) \in Nat
      /\ One(http_req) \in {0, 1} /\ One(core_req) \in {0, 1}
    BY <1>1, PlacesFinite, OneOf
<1>4. HowMany(eth_sock', VersRequests) \in Nat
    <2>1. eth_sock' \in Seq(EthRequest)
        BY DEF TypeInv, TypeOK
    <2> QED
        BY <2>1, PlacesFinite
<1>5. Head(eth_sock) \in EthRequest
    BY <1>1, <1>2, ReadSock
<1>6. nvers' = nvers + (IF Head(eth_sock) \in VersRequests THEN 1 ELSE 0)
    <2>1. CASE Head(eth_sock).cmd = "VERS"
        <3>1. nvers' = nvers + 1
            BY <2>1 DEF EthJob, Eth!JobCompose
        <3> QED
            BY <1>5, <2>1, <3>1 DEF VersRequests
    <2>2. CASE Head(eth_sock).cmd # "VERS"
        <3>1. nvers' = nvers
            BY <2>2 DEF EthJob, ethVars
        <3> QED
            BY <1>1, <2>2, <3>1 DEF VersRequests
    <2> QED
        BY <2>1, <2>2
<1>7. HowMany(eth_sock, VersRequests)
        = HowMany(eth_sock', VersRequests)
          + (IF Head(eth_sock) \in VersRequests THEN 1 ELSE 0)
    BY <1>1, <1>2, HowManyTail
<1>8. Ledger'
    <2>1. /\ One(http_req') = One(http_req) /\ One(core_req') = One(core_req)
          /\ HowMany(core_sock', EthNews) = HowMany(core_sock, EthNews)
          /\ announced' = announced
        BY <1>2
    <2> DEFINE a == HowMany(core_sock, EthNews)
               b == HowMany(eth_sock', VersRequests)
               h == HowMany(eth_sock, VersRequests)
               x == IF Head(eth_sock) \in VersRequests THEN 1 ELSE 0
    <2>2. /\ announced = nvers + (a + h + One(http_req) + One(core_req))
          /\ a \in Nat /\ b \in Nat /\ h \in Nat /\ x \in {0, 1}
          /\ h = b + x /\ nvers' = nvers + x
        BY <1>3, <1>4, <1>6, <1>7 DEF CgwInv, Ledger
    <2> HIDE DEF a, b, h, x
    <2>3. announced = nvers' + (a + b + One(http_req) + One(core_req))
        BY <1>1, <1>3, <2>2
    <2> QED
        BY <2>1, <2>3 DEF Ledger, a, b
<1> QED
    BY <1>1, <1>2, <1>6, <1>8 DEF CgwInv

(* A job writes reports, never a request for an Ethernet package.          *)
LEMMA TdrJobLedger ==
    ASSUME CgwInv, NEW j \in JobIds, TdrJob(j), TypeInv'
    PROVE  CgwInv'
<1>1. /\ core_sock \in Seq(CoreRequest)
      /\ announced \in Nat /\ nvers \in Nat
      /\ TypeInv /\ job \in [JobIds -> Job]
    BY DEF CgwInv, TypeInv, TypeOK
<1>2. UNCHANGED <<eth_sock, http_req, core_req, announced, nvers>>
    BY DEF TdrJob, ethVars, JobStep, JobMoves, JobPopenFails,
           JobWriteFailure, JobPopen, JobLine, JobEof, JobPopen2Fails,
           JobPopen2, JobDone, JobReport, httpVars, coreVars
<1>3. HowMany(core_sock', EthNews) = HowMany(core_sock, EthNews)
    <2>1. ASSUME NEW p \in Percent, WriteUpdate(j, p)
          PROVE  HowMany(core_sock', EthNews) = HowMany(core_sock, EthNews)
        <3> DEFINE r == Request("TDR_STAT_UPDATE", DevId[job[j].app], p)
        <3>1. job[j].app \in Slots
            BY <1>1, JobKeeps DEF TdrJob, TypeInv
        <3>2. DevId[job[j].app] \in DevIds
            BY <3>1, TableAssumption
        <3>3. r \in CoreRequest /\ r.cmd = "TDR_STAT_UPDATE"
            BY <3>2, RequestType DEF Cmds
        <3>4. r \notin EthNews
            BY <3>3 DEF EthNews, IsEthNew
        <3>5. core_sock' = Append(core_sock, r)
            BY <2>1 DEF WriteUpdate
        <3> HIDE DEF r
        <3>6. HowMany(core_sock', EthNews) = HowMany(core_sock, EthNews) + 0
            BY <1>1, <3>3, <3>4, <3>5, HowManyAppend
        <3> QED
            BY <1>1, <3>6, PlacesFinite
    <2>2. job[j].progress \in Percent /\ 0 \in Percent /\ 100 \in Percent
        BY <1>1, PercentValues DEF Job
    <2> QED
        BY <2>1, <2>2
           DEF TdrJob, JobStep, JobPopenFails, JobWriteFailure, JobPopen,
               JobLine, JobEof, JobPopen2Fails, JobPopen2, JobDone, JobReport
<1> QED
    BY <1>1, <1>2, <1>3 DEF CgwInv, Ledger

LEMMA CgwNextInv ==
    ASSUME CgwInv, CgwNext
    PROVE  CgwInv'
<1>1. TypeInv'
    BY CgwTypeStays DEF CgwInv
<1>2. CASE EthOther
    <2>1. /\ UNCHANGED <<corePart, announced>>
          /\ \/ Eth!JobSend \/ Eth!HandleTestVers \/ Eth!MsgThread
             \/ \E c \in Installers : Eth!Peer(c)
        BY <1>2 DEF EthOther, Apart
    <2>2. nvers' = nvers
        BY <2>1, EthStepFrame DEF CgwInv, TypeInv, TypeOK
    <2> QED
        BY <1>1, <2>1, <2>2 DEF CgwInv, Ledger, corePart
<1> QED
    BY <1>1, <1>2, HttpLedger, CoreLedger, EthJobLedger, TdrJobLedger
       DEF CgwNext

LEMMA CgwInvInit == CgwInit => CgwInv
<1> SUFFICES ASSUME CgwInit
             PROVE  CgwInv
    OBVIOUS
<1>1. TypeInv
    BY InitType DEF CgwInit
<1>2. /\ core_sock = <<>> /\ eth_sock = <<>>
      /\ http_req = NoReq /\ core_req = NoReq
      /\ announced = 0 /\ nvers = 0
    BY DEF CgwInit, Init, Eth!Init
<1>3. /\ HowMany(core_sock, EthNews) = 0 /\ HowMany(eth_sock, VersRequests) = 0
      /\ One(http_req) = 0 /\ One(core_req) = 0
    BY <1>2, HowManyEmpty, OneOf
<1> QED
    BY <1>1, <1>2, <1>3 DEF CgwInv, Ledger

LEMMA CgwCorrect == CgwSpec => []CgwInv
<1>1. CgwInv /\ [CgwNext]_cgwVars => CgwInv'
    <2>1. ASSUME CgwInv, UNCHANGED cgwVars
          PROVE  CgwInv'
        <3>1. UNCHANGED vars /\ UNCHANGED <<announced, nvers>>
            BY <2>1 DEF cgwVars, ethVars
        <3>2. TypeInv'
            BY <2>1, <3>1 DEF CgwInv, vars, TypeInv, TypeOK
        <3> QED
            BY <2>1, <3>1, <3>2 DEF CgwInv, vars, Ledger
    <2> QED
        BY <2>1, CgwNextInv
<1> QED
    BY <1>1, CgwInvInit, PTL DEF CgwSpec

(***************************************************************************)
(* Every /pkg/new for an Ethernet package that was accepted is under way   *)
(* through the two sockets or was composed for the installer, once.        *)
(***************************************************************************)
THEOREM RequestsSafe == CgwSpec => []RequestsKept
<1>1. CgwInv => RequestsKept
    BY LedgerIsRequestsKept DEF CgwInv
<1> QED
    BY <1>1, CgwCorrect, PTL

-----------------------------------------------------------------------------
(***************************************************************************)
(* The theorems about EthInstaller, for the installer threads as part of   *)
(* the orchestrator.  Camp is the module Cgw calls Eth, with its proofs.   *)
(***************************************************************************)
Camp == INSTANCE EthCampaignProofs WITH Conns <- Installers

LEMMA SameFrames ==
    /\ \A t : Eth!Frame(t) = Camp!Frame(t)
    /\ \A i : Eth!Transfer(i) = Camp!Transfer(i)
    /\ Eth!NoFrame = Camp!NoFrame
    /\ Eth!Torn = Camp!Torn
    /\ Eth!NLinks = Camp!NLinks
BY DEF Eth!Frame, Camp!Frame, Eth!Transfer, Camp!Transfer, Eth!NoFrame,
       Camp!NoFrame, Eth!Torn, Camp!Torn, Eth!NLinks, Camp!NLinks

LEMMA SameSends ==
    /\ \A f : Eth!Wire(f) = Camp!Wire(f)
    /\ \A f : Eth!SendRemote(f) => Camp!SendRemote(f)
    /\ \A f : Eth!Compose(f) => Camp!Compose(f)
<1>1. \A f : Eth!Wire(f) = Camp!Wire(f)
    BY SameFrames DEF Eth!Wire, Camp!Wire
<1>2. \A f : Eth!SendRemote(f) => Camp!SendRemote(f)
    BY DEF Eth!SendRemote, Camp!SendRemote
<1>3. \A f : Eth!Compose(f) => Camp!Compose(f)
    BY DEF Eth!Compose, Camp!Compose
<1> QED
    BY <1>1, <1>2, <1>3

LEMMA SameHandling ==
    /\ \A t : Eth!Handle(t) => Camp!Handle(t)
    /\ Eth!NoReply => Camp!NoReply
<1>1. \A f, i : Eth!Reply(f, i) => Camp!Reply(f, i)
    BY SameSends DEF Eth!Reply, Camp!Reply
<1>2. Eth!NoReply => Camp!NoReply
    BY DEF Eth!NoReply, Camp!NoReply
<1>3. Eth!OnTransferResult => Camp!OnTransferResult
    BY <1>1, <1>2, SameFrames DEF Eth!OnTransferResult, Camp!OnTransferResult
<1>4. Eth!OnVersionsResult => Camp!OnVersionsResult
    BY SameFrames DEF Eth!OnVersionsResult, Camp!OnVersionsResult
<1>5. Eth!OnBareVersionsResult => Camp!OnBareVersionsResult
    BY DEF Eth!OnBareVersionsResult, Camp!OnBareVersionsResult
<1>6. Eth!OnStateResult => Camp!OnStateResult
    BY <1>1, <1>2, SameFrames DEF Eth!OnStateResult, Camp!OnStateResult
<1>7. Eth!OnFinal => Camp!OnFinal
    BY DEF Eth!OnFinal, Camp!OnFinal
<1>8. Eth!Reply(Eth!Frame("ACTIVATE"), bin_index)
        => Camp!Reply(Camp!Frame("ACTIVATE"), bin_index)
    BY <1>1, SameFrames
<1> QED
    BY <1>2, <1>3, <1>4, <1>5, <1>6, <1>7, <1>8 DEF Eth!Handle, Camp!Handle

LEMMA SamePlan ==
    /\ Eth!Plan = Camp!Plan
    /\ Eth!Promise!Next = Camp!Promise!Next
<1>1. Eth!Plan = Camp!Plan
    BY SameFrames DEF Eth!Plan, Camp!Plan
<1> QED
    BY <1>1 DEF Eth!Promise!Next, Camp!Promise!Next, Eth!Promise!HandOver,
       Camp!Promise!HandOver, Eth!Promise!Finish, Camp!Promise!Finish

LEMMA SameVars ==
    /\ Eth!netVars = Camp!netVars /\ Eth!appVars = Camp!appVars
    /\ Eth!boundVars = Camp!boundVars
BY DEF Eth!netVars, Camp!netVars, Eth!appVars, Camp!appVars, Eth!boundVars,
       Eth!testVars, Camp!boundVars, Camp!testVars

LEMMA SameThread == Eth!MsgThread => Camp!MsgThread
<1>1. Eth!MsgIdle => Camp!MsgIdle
    BY SameFrames DEF Eth!MsgIdle, Camp!MsgIdle
<1>2. Eth!MsgSend => Camp!MsgSend
    BY SameFrames, SameSends DEF Eth!MsgSend, Camp!MsgSend, Eth!appVars,
       Camp!appVars, Eth!boundVars, Eth!testVars, Camp!boundVars, Camp!testVars
<1>3. ASSUME NEW c \in Installers, Eth!Accept(c)
      PROVE  Camp!Accept(c)
    <2>1. \A i : Eth!NextId(i) = Camp!NextId(i)
        BY DEF Eth!NextId, Camp!NextId
    <2> QED
        BY <1>1, <1>3, <2>1 DEF Eth!Accept, Camp!Accept, Eth!boundVars,
           Eth!testVars, Camp!boundVars, Camp!testVars
<1>4. ASSUME NEW c \in Installers, Eth!Close(c)
      PROVE  Camp!Close(c)
    BY <1>1, <1>4 DEF Eth!Close, Camp!Close, Eth!appVars, Camp!appVars,
       Eth!boundVars, Eth!testVars, Camp!boundVars, Camp!testVars
<1>5. ASSUME NEW c \in Installers, Eth!RecvPart(c)
      PROVE  Camp!RecvPart(c)
    BY <1>1, <1>5 DEF Eth!RecvPart, Camp!RecvPart, Eth!appVars, Camp!appVars,
       Eth!boundVars, Eth!testVars, Camp!boundVars, Camp!testVars
<1>6. ASSUME NEW c \in Installers, NEW n \in 1 .. MaxMerge, Eth!Recv(c, n)
      PROVE  Camp!Recv(c, n)
    BY <1>1, <1>6, SameHandling DEF Eth!Recv, Camp!Recv, Eth!appVars,
       Camp!appVars, Eth!boundVars, Eth!testVars, Camp!boundVars, Camp!testVars
<1> QED
    BY <1>2, <1>3, <1>4, <1>5, <1>6 DEF Eth!MsgThread, Camp!MsgThread

LEMMA SamePeer ==
    ASSUME NEW c \in Installers, Eth!Peer(c)
    PROVE  Camp!Peer(c)
<1>1. \A f : Eth!AnswersTo(f) = Camp!AnswersTo(f)
    BY DEF Eth!AnswersTo, Camp!AnswersTo
<1>2. CASE Eth!PeerAnswer(c)
    BY <1>1, <1>2 DEF Eth!PeerAnswer, Camp!PeerAnswer, Camp!Peer, Eth!appVars,
       Camp!appVars, Eth!boundVars, Eth!testVars, Camp!boundVars, Camp!testVars
<1>3. CASE Eth!PeerNote(c)
    BY <1>3 DEF Eth!PeerNote, Camp!PeerNote, Camp!Peer, Eth!appVars,
       Camp!appVars, Eth!testVars, Camp!testVars
<1> QED
    BY <1>2, <1>3 DEF Eth!Peer

LEMMA SameStep ==
    ASSUME \/ Eth!JobCompose \/ Eth!JobSend \/ Eth!HandleTestVers
           \/ Eth!MsgThread
           \/ \E c \in Installers : Eth!Peer(c)
    PROVE  Camp!Next
<1>1. CASE Eth!JobCompose
    <2>1. Camp!JobCompose
        BY <1>1, SameFrames, SameSends DEF Eth!JobCompose, Camp!JobCompose,
           Eth!netVars, Camp!netVars, Eth!appVars, Camp!appVars, Eth!testVars,
           Camp!testVars
    <2> QED
        BY <2>1 DEF Camp!Next
<1>2. CASE Eth!JobSend
    <2>1. Camp!JobSend
        BY <1>2, SameFrames, SameSends DEF Eth!JobSend, Camp!JobSend,
           Eth!appVars, Camp!appVars, Eth!boundVars, Eth!testVars,
           Camp!boundVars, Camp!testVars
    <2> QED
        BY <2>1 DEF Camp!Next
<1>3. CASE Eth!HandleTestVers
    <2>1. Camp!HandleTestVers
        <3>1. Eth!AskVersions => Camp!AskVersions
            BY SameFrames, SameSends DEF Eth!AskVersions, Camp!AskVersions,
               Eth!appVars, Camp!appVars
        <3> QED
            BY <1>3, <3>1 DEF Eth!HandleTestVers, Camp!HandleTestVers,
               Eth!TestVers, Camp!TestVers, Eth!TestVersClose,
               Camp!TestVersClose
    <2> QED
        BY <2>1 DEF Camp!Next
<1>4. CASE Eth!MsgThread
    BY <1>4, SameThread DEF Camp!Next
<1>5. CASE \E c \in Installers : Eth!Peer(c)
    BY <1>5, SamePeer DEF Camp!Next
<1> QED
    BY <1>1, <1>2, <1>3, <1>4, <1>5

(* Every step of the orchestrator is one of the installer threads, or one  *)
(* that leaves what they use alone, except that the process may die.       *)
LEMMA CgwStep ==
    ASSUME CgwInv, CgwNext
    PROVE  Camp!Next \/ (up' \in BOOLEAN /\ UNCHANGED ethVars)
<1>1. up' \in BOOLEAN
    BY CgwTypeStays DEF CgwInv, TypeInv, TypeOK
<1>2. CASE Http \/ Core \/ \E j \in JobIds : TdrJob(j)
    BY <1>1, <1>2 DEF Http, Core, TdrJob
<1>3. CASE EthJob
    BY <1>1, <1>3, SameStep DEF EthJob
<1>4. CASE EthOther
    BY <1>4, SameStep DEF EthOther, Apart
<1> QED
    BY <1>2, <1>3, <1>4 DEF CgwNext

LEMMA CgwOrEthStep ==
    ASSUME CgwInv, [CgwNext]_cgwVars
    PROVE  \/ Camp!Next
           \/ /\ up' \in BOOLEAN
              /\ UNCHANGED <<Camp!netVars, Camp!appVars, bin_index, g_vers,
                             msg, job_out, msg_out, finished, Camp!boundVars,
                             sent>>
<1>1. Camp!Next \/ (up' \in BOOLEAN /\ UNCHANGED ethVars)
    <2>1. CASE UNCHANGED cgwVars
        BY <2>1 DEF cgwVars, vars, CgwInv, TypeInv, TypeOK
    <2> QED
        BY <2>1, CgwStep
<1> QED
    BY <1>1 DEF ethVars, Camp!netVars, Camp!appVars, Camp!boundVars,
       Camp!testVars

LEMMA CgwCampInit == CgwInit => Camp!Init
BY SameFrames DEF CgwInit, Eth!Init, Camp!Init

LEMMA CgwCampaign ==
    ASSUME Camp!InstallerAssumption, Camp!OneFinalEach
    PROVE  CgwSpec => [](CgwInv /\ Camp!CampaignInv)
<1>1. CgwInit => Camp!CampaignInv
    BY CgwCampInit, Camp!CampaignInit
<1>2. ASSUME CgwInv, Camp!CampaignInv, [CgwNext]_cgwVars
      PROVE  Camp!CampaignInv'
    <2>1. CASE Camp!Next
        BY <1>2, <2>1, Camp!CampaignNext
    <2> QED
        BY <1>2, <2>1, CgwOrEthStep, Camp!UpAloneCampaign
<1> QED
    BY <1>1, <1>2, CgwCorrect, PTL DEF CgwSpec

LEMMA AskedCorrect ==
    ASSUME Camp!InstallerAssumption, Camp!OneFinalEach, Camp!FinalsAreReports
    PROVE  CgwSpec => [](Camp!CampaignInv /\ Camp!AskedInv)
<1>1. CgwInit => Camp!AskedInv
    BY CgwCampInit, Camp!AskedInit
<1>2. ASSUME CgwInv, Camp!CampaignInv, Camp!AskedInv, [CgwNext]_cgwVars
      PROVE  Camp!AskedInv'
    <2>1. CASE Camp!Next
        BY <1>2, <2>1, Camp!AskedNext
    <2> QED
        BY <1>2, <2>1, CgwOrEthStep, Camp!UpAloneAsked
<1> QED
    BY <1>1, <1>2, CgwCampaign, PTL DEF CgwSpec

LEMMA SameAssumptions ==
    /\ Eth!InstallerAssumption => Camp!InstallerAssumption
    /\ Eth!OneFinalEach => Camp!OneFinalEach
    /\ Eth!FinalsAreReports => Camp!FinalsAreReports
BY DEF Eth!InstallerAssumption, Camp!InstallerAssumption, Eth!Answers,
       Camp!Answers, Eth!OneFinalEach, Camp!OneFinalEach,
       Eth!FinalsAreReports, Camp!FinalsAreReports, Eth!StepAnswers,
       Camp!StepAnswers, Eth!FinalAnswers, Camp!FinalAnswers

(***************************************************************************)
(* The upgrades under way or reported to the DLC as finished are no more   *)
(* than the requests for versions that were made - by the PKG_NEWs of the  *)
(* core thread, by /test/vers, and by mongoose's call of its handler at a  *)
(* close -, provided the installer ends a campaign with one final frame    *)
(* and with reports only.                                                  *)
(***************************************************************************)
THEOREM UpgradesSafe ==
    ASSUME Eth!InstallerAssumption, Eth!OneFinalEach, Eth!FinalsAreReports
    PROVE  CgwSpec => []UpgradesWereAsked
<1>1. /\ Camp!InstallerAssumption /\ Camp!OneFinalEach
      /\ Camp!FinalsAreReports
    BY SameAssumptions
<1>2. ASSUME Camp!CampaignInv, Camp!AskedInv
      PROVE  UpgradesWereAsked
    BY <1>1, <1>2, Camp!AskedBound DEF UpgradesWereAsked
<1>3. CgwSpec => [](Camp!CampaignInv /\ Camp!AskedInv)
    BY <1>1, AskedCorrect
<1> QED
    BY <1>2, <1>3, PTL

(***************************************************************************)
(* The orchestrator as a whole keeps what EthInstaller promises alone: it  *)
(* implements Campaign, though the core thread decides when to ask for     *)
(* versions and any thread may end the process, ...                        *)
(***************************************************************************)
THEOREM CgwPlanSafe ==
    ASSUME Eth!InstallerAssumption, Eth!OneFinalEach
    PROVE  CgwSpec => Eth!PlanInOrder
<1>1. Camp!InstallerAssumption /\ Camp!OneFinalEach
    BY SameAssumptions
<1>2. CgwInit => Eth!Promise!Init
    BY DEF CgwInit, Eth!Init, Eth!Promise!Init
<1>3. ASSUME CgwInv, Camp!CampaignInv, [CgwNext]_cgwVars
      PROVE  [Eth!Promise!Next]_<<sent, finished>>
    <2>1. CASE Camp!Next
        <3>1. [Camp!Promise!Next]_<<sent, finished>>
            BY <1>1, <1>3, <2>1, Camp!CampaignStep DEF Camp!Abstract
        <3> QED
            BY <3>1, SamePlan
    <2> QED
        BY <1>3, <2>1, CgwOrEthStep
<1>4. CgwSpec => [](CgwInv /\ Camp!CampaignInv)
    BY <1>1, CgwCampaign
<1> QED
    BY <1>2, <1>3, <1>4, PTL DEF CgwSpec, Eth!PlanInOrder, Eth!Promise!Spec

(* ... and asks the ECU to fetch one package at a time.                    *)
THEOREM CgwOneTransferSafe ==
    ASSUME Eth!InstallerAssumption, Eth!OneFinalEach
    PROVE  CgwSpec => []Eth!OneTransferAtATime
<1>1. Camp!InstallerAssumption /\ Camp!OneFinalEach
    BY SameAssumptions
<1>2. Camp!CampaignInv => Eth!OneTransferAtATime
    <2>1. ASSUME Camp!CampaignInv
          PROVE  Camp!OneTransferAtATime
        BY <1>1, <2>1, Camp!CampaignOneTransfer
    <2>2. \A c : Eth!Unanswered(c) = Camp!Unanswered(c)
        <3>1. \A S : Eth!Cardinality(S) = Camp!Cardinality(S)
            BY DEF Eth!Cardinality, Camp!Cardinality
        <3> QED
            BY <3>1 DEF Eth!Unanswered, Camp!Unanswered
    <2>3. Camp!OneTransferAtATime => Eth!OneTransferAtATime
        BY <2>2, Zenon DEF Eth!OneTransferAtATime, Camp!OneTransferAtATime
    <2> QED
        BY <2>1, <2>3
<1>3. CgwSpec => [](CgwInv /\ Camp!CampaignInv)
    BY <1>1, CgwCampaign
<1> QED
    BY <1>2, <1>3, PTL

-----------------------------------------------------------------------------
(***************************************************************************)
(* The theorems about BsCore, for its threads as part of the orchestrator: *)
(* the installer threads share no more with them than the process, which   *)
(* they may end.                                                           *)
(***************************************************************************)
LEMMA CoreOrApart ==
    ASSUME [CgwNext]_cgwVars
    PROVE  Next \/ UNCHANGED corePart
<1>1. CASE Http \/ Core \/ EthJob \/ \E j \in JobIds : TdrJob(j)
    BY <1>1 DEF Http, Core, EthJob, TdrJob, Next
<1>2. CASE EthOther
    BY <1>2 DEF EthOther, Apart
<1>3. CASE UNCHANGED cgwVars
    BY <1>3 DEF cgwVars, vars, corePart
<1> QED
    BY <1>1, <1>2, <1>3 DEF CgwNext

LEMMA PathApart ==
    ASSUME CgwInv, CgwInv', PathInv, TrailInv, UNCHANGED corePart
    PROVE  PathInv' /\ TrailInv'
<1>1. PathInv'
    BY DEF CgwInv, corePart, PathInv, LoadingInv, StatInv, JobInv,
           ProgressInv, RequestInv, Good, Announced, Installed
<1>2. TrailInv'
    <2>1. /\ job' = job /\ progress' = progress
          /\ core_req' = core_req /\ core_sock' = core_sock
        BY DEF corePart
    <2>2. JobRises'
        BY <2>1 DEF TrailInv, JobRises
    <2>3. ASSUME NEW s \in Slots
          PROVE  Trail(s)'
        <3>1. \A n \in Int : OnTrail(s, n)' <=> OnTrail(s, n)
            BY <2>1 DEF OnTrail, IsUpdate
        <3>2. \A n \in Int : Value(s, n)' = Value(s, n)
            BY <2>1 DEF Value
        <3>3. JobsKept(s)
            BY <2>1 DEF JobsKept
        <3> QED
            BY <3>1, <3>2, <3>3, TrailStays DEF TrailInv
    <2> QED
        BY <2>2, <2>3 DEF TrailInv
<1> QED
    BY <1>1, <1>2

LEMMA CgwPath == CgwSpec => [](CgwInv /\ PathInv /\ TrailInv)
<1>1. CgwInit => PathInv /\ TrailInv
    BY InitPath, TrailInit DEF CgwInit
<1>2. ASSUME CgwInv, CgwInv', PathInv, TrailInv, [CgwNext]_cgwVars
      PROVE  PathInv' /\ TrailInv'
    <2>1. CASE Next
        BY <1>2, <2>1, PathStep, TrailStep, JobRisesStays DEF TrailInv
    <2> QED
        BY <1>2, <2>1, CoreOrApart, PathApart
<1> QED
    BY <1>1, <1>2, CgwCorrect, PTL DEF CgwSpec

(* Every PKG_READY names an announced application, every recorded 100 was  *)
(* earned, and the newest report of an application is what a job wrote.    *)
THEOREM CgwCoreSafe ==
    CgwSpec => [](ReadyWasAnnounced /\ DoneMeansInstalled /\ NoLostProgress)
BY PathImplies, TrailImplies, CgwPath, PTL

(* A stat moves, and a value goes back, only as BsCore allows.             *)
THEOREM CgwMovesSafe == CgwSpec => StatMoves /\ ProgressGoesBackOnlyOnRerun
<1>1. ASSUME PathInv, [CgwNext]_cgwVars
      PROVE  [\A s \in Slots : stat'[s] # stat[s] =>
                /\ Local(s)
                /\ <<stat[s], stat'[s]>> \in
                     {<<"idle", "loading">>, <<"loading", "succ">>,
                      <<"succ", "loading">>}]_vars
    <2>1. CASE Next
        BY <1>1, <2>1, StatMovesOn
    <2>2. CASE UNCHANGED corePart
        BY <2>2 DEF corePart
    <2> QED
        BY <1>1, <2>1, <2>2, CoreOrApart
<1>2. ASSUME PathInv, TrailInv, [CgwNext]_cgwVars
      PROVE  [\A s \in Slots : progress'[s] < progress[s] =>
                \E j, k \in JobsOf(s) : j # k]_vars
    <2>1. CASE Next
        BY <1>2, <2>1, FallsOnRerun
    <2>2. CASE UNCHANGED corePart
        <3>1. ASSUME NEW s \in Slots
              PROVE  ~(progress'[s] < progress[s])
            <4>1. progress[s] \in Percent /\ progress' = progress
                BY <1>2, <2>2 DEF PathInv, TypeInv, TypeOK, corePart
            <4>2. PICK n \in Percent : n = progress[s]
                BY <4>1
            <4>3. ~(n < n)
                BY <4>2 DEF Percent
            <4> QED
                BY <4>1, <4>2, <4>3, Zenon
        <3> QED
            BY <3>1
    <2> QED
        BY <1>2, <2>1, <2>2, CoreOrApart
<1> QED
    BY <1>1, <1>2, CgwPath, PTL
       DEF CgwSpec, StatMoves, ProgressGoesBackOnlyOnRerun
=============================================================================
